------------------------------ MODULE Startup ------------------------------
(***************************************************************************)
(* The start of basicfwd and the timer thread, as built by default (RING,  *)
(* NOZOMI, DOB).  main creates rings, pools and threads channel by         *)
(* channel, initialises the ports, launches lcore_main on the workers and  *)
(* raises timer_init; timer_thread waits for that, raises assem_init and   *)
(* then reports each second how many packets were counted.                 *)
(*                                                                         *)
(* The receive path (module Ingest) appears as two facts: an lcore polls a *)
(* channel, and DOB counts a packet of a channel that has been polled.     *)
(***************************************************************************)
EXTENDS Integers, FiniteSets, Functions

CONSTANTS
  Workers,  \* worker lcores
  NumPorts, \* rte_eth_dev_count_avail()
  Width,    \* values of an unsigned int (2^32)
  MaxCount  \* bound: packets counted, all channels together

ASSUME StartupAssumption ==
  /\ IsFiniteSet(Workers)
  /\ NumPorts \in Nat
  /\ Width \in Nat \ {0}
  /\ MaxCount \in Nat

VARIABLES
  mpc, i,        \* main: what it does, loop variable
  rings, frames, \* channels whose rings, whose frame pool exist
  dob,           \* channels whose consumer_thread runs
  up,            \* ports initialised
  launched, jj,  \* lcores running lcore_main, the loop variable of each
  polled,        \* channels some lcore has polled
  timer_init, send_thread_init, assem_init, \* channels whose flag is raised
  tpc, ti,       \* timer_thread: what it does, loop variable
  global_count, last_count, diff_count,
  total, reported, \* history: packets counted, packets reported
  halted         \* "no", "return", "exit", "panic", "fault"

flagVars == <<timer_init, send_thread_init, assem_init>>
statVars == <<global_count, last_count, diff_count, total, reported>>
timerVars == <<tpc, ti>>
lcoreVars == <<jj, polled>>
vars == <<mpc, i, rings, frames, dob, up, launched, lcoreVars, flagVars,
          timerVars, statVars, halted>>

NUM_CHANNELS == 3 * Cardinality(Workers)
Channels == 0..(NUM_CHANNELS - 1)
Ports == 0..(NumPorts - 1)

Init ==
  /\ mpc = "rings" /\ i = 0
  /\ rings = {} /\ frames = {} /\ dob = {} /\ up = {}
  /\ launched = {} /\ jj = [w \in Workers |-> 0] /\ polled = {}
  /\ timer_init = {} /\ send_thread_init = {} /\ assem_init = {}
  /\ tpc = "off" /\ ti = 0
  /\ global_count = [c \in Channels |-> 0]
  /\ last_count = [c \in Channels |-> 0]
  /\ diff_count = 0
  /\ total = [c \in Channels |-> 0] /\ reported = [c \in Channels |-> 0]
  /\ halted = "no"
-----------------------------------------------------------------------------
(* main *)

Halt(how) == halted' = how /\ UNCHANGED <<mpc, i>>
Advance(next) == mpc' = next /\ i' = 0 /\ UNCHANGED halted
Iterate == i' = i + 1 /\ UNCHANGED <<mpc, halted>>

\* A loop over the channels comes to its end.
LoopEnd(loop, next) ==
  /\ mpc = loop /\ i = NUM_CHANNELS
  /\ Advance(next)
  /\ UNCHANGED <<rings, frames, dob, up, launched, lcoreVars, flagVars,
                 timerVars, statVars>>

\* Three rings and send_pool; without memory main returns.
CreateRings ==
  /\ mpc = "rings" /\ i < NUM_CHANNELS
  /\ \/ rings' = rings \cup {i} /\ Iterate
     \/ Halt("return") /\ UNCHANGED rings
  /\ UNCHANGED <<frames, dob, up, launched, lcoreVars, flagVars, timerVars, statVars>>

CreateFrames ==
  /\ mpc = "frames" /\ i < NUM_CHANNELS
  /\ \/ frames' = frames \cup {i} /\ Iterate
     \/ Halt("panic") /\ UNCHANGED frames
  /\ UNCHANGED <<rings, dob, up, launched, lcoreVars, flagVars, timerVars, statVars>>

StartDob ==
  /\ mpc = "dob" /\ i < NUM_CHANNELS
  /\ dob' = dob \cup {i} /\ Iterate
  /\ UNCHANGED <<rings, frames, up, launched, lcoreVars, flagVars, timerVars, statVars>>

StartTimer ==
  /\ mpc = "timer"
  /\ tpc' = "send" /\ Advance("ports")
  /\ UNCHANGED <<rings, frames, dob, up, launched, lcoreVars, flagVars, ti, statVars>>

\* No port, or no memory for the packet buffers: rte_exit, threads or not.
CheckPorts ==
  /\ mpc = "ports"
  /\ \/ NumPorts > 0 /\ Advance("init")
     \/ Halt("exit")
  /\ UNCHANGED <<rings, frames, dob, up, launched, lcoreVars, flagVars, timerVars, statVars>>

InitPort ==
  /\ mpc = "init" /\ up # Ports
  /\ LET portid == Cardinality(up)
     IN \/ up' = up \cup {portid} /\ UNCHANGED <<mpc, i, halted>>
        \/ Halt("exit") /\ UNCHANGED up
  /\ UNCHANGED <<rings, frames, dob, launched, lcoreVars, flagVars, timerVars, statVars>>

LaunchEarly == \* slip: the lcores start before the ports are initialised
  /\ mpc = "init"
  /\ \/ \E w \in Workers \ launched :
          launched' = launched \cup {w} /\ UNCHANGED <<mpc, i, halted>>
     \/ launched = Workers /\ Advance("flags") /\ UNCHANGED launched
  /\ UNCHANGED <<rings, frames, dob, up, lcoreVars, flagVars, timerVars, statVars>>

Launch ==
  /\ mpc = "init" /\ up = Ports
  /\ \/ \E w \in Workers \ launched :
          launched' = launched \cup {w} /\ UNCHANGED <<mpc, i, halted>>
     \/ launched = Workers /\ Advance("flags") /\ UNCHANGED launched
  /\ UNCHANGED <<rings, frames, dob, up, lcoreVars, flagVars, timerVars, statVars>>

RaiseTimerInitLate == \* slip: the loop begins with channel 1
  /\ mpc = "flags" /\ i < NUM_CHANNELS
  /\ timer_init' = timer_init \cup ({i} \ {0}) /\ Iterate
  /\ UNCHANGED <<rings, frames, dob, up, launched, lcoreVars, send_thread_init,
                 assem_init, timerVars, statVars>>

\* After this main waits for lcores that never return.
RaiseTimerInit ==
  /\ mpc = "flags" /\ i < NUM_CHANNELS
  /\ timer_init' = timer_init \cup {i} /\ Iterate
  /\ UNCHANGED <<rings, frames, dob, up, launched, lcoreVars, send_thread_init,
                 assem_init, timerVars, statVars>>
-----------------------------------------------------------------------------
(* lcore_main *)

\* Every lcore polls ports 0, 1 and 2; DPDK does not check the number.
Poll(w) ==
  /\ w \in launched
  /\ IF jj[w] \in up /\ jj[w] \in rings
     THEN /\ polled' = polled \cup {jj[w]}
          /\ jj' = [jj EXCEPT ![w] = (@ + 1) % 3]
          /\ UNCHANGED halted
     ELSE halted' = "fault" /\ UNCHANGED lcoreVars
  /\ UNCHANGED <<mpc, i, rings, frames, dob, up, launched, flagVars, timerVars, statVars>>
-----------------------------------------------------------------------------
(* timer_thread and DOB's counter *)

TimerAdvance(next) == tpc' = next /\ ti' = 0
mainVars == <<mpc, i, rings, frames, dob, up, launched>>

\* Without KAZE the timer raises send_thread_init itself.
RaiseSendInit ==
  /\ tpc = "send"
  /\ IF ti < NUM_CHANNELS
     THEN send_thread_init' = send_thread_init \cup {ti} /\ ti' = ti + 1 /\ UNCHANGED tpc
     ELSE TimerAdvance("wait") /\ UNCHANGED send_thread_init
  /\ UNCHANGED <<mainVars, lcoreVars, timer_init, assem_init, statVars, halted>>

AwaitNothing == \* slip: timer_init is not waited for
  /\ tpc = "wait" /\ 0 \in send_thread_init
  /\ TimerAdvance("assem")
  /\ UNCHANGED <<mainVars, lcoreVars, flagVars, statVars, halted>>

\* The flags of channel 0 stand for all; without a channel the vector of
\* arguments is read past its end.
AwaitInit ==
  /\ tpc = "wait"
  /\ IF NUM_CHANNELS = 0
     THEN halted' = "fault" /\ UNCHANGED timerVars
     ELSE /\ 0 \in timer_init /\ 0 \in send_thread_init
          /\ TimerAdvance("assem") /\ UNCHANGED halted
  /\ UNCHANGED <<mainVars, lcoreVars, flagVars, statVars>>

RaiseAssemInit ==
  /\ tpc = "assem"
  /\ IF ti < NUM_CHANNELS
     THEN assem_init' = assem_init \cup {ti} /\ ti' = ti + 1 /\ UNCHANGED tpc
     ELSE TimerAdvance("diff") /\ UNCHANGED assem_init
  /\ UNCHANGED <<mainVars, lcoreVars, timer_init, send_thread_init, statVars, halted>>

\* The report reads global_count twice: once for the difference ...
ReadDiff ==
  /\ tpc = "diff"
  /\ diff_count' = (global_count[ti] - last_count[ti]) % Width
  /\ tpc' = "last"
  /\ UNCHANGED <<mainVars, lcoreVars, flagVars, ti, global_count, last_count,
                 total, reported, halted>>

ReadLastNot == \* slip: last_count is not updated
  /\ tpc = "last"
  /\ reported' = [reported EXCEPT ![ti] = @ + diff_count]
  /\ ti' = (ti + 1) % NUM_CHANNELS
  /\ tpc' = "diff"
  /\ UNCHANGED <<mainVars, lcoreVars, flagVars, global_count, last_count,
                 diff_count, total, halted>>

\* ... and once for last_count; then it prints the difference.
ReadLast ==
  /\ tpc = "last"
  /\ last_count' = [last_count EXCEPT ![ti] = global_count[ti]]
  /\ reported' = [reported EXCEPT ![ti] = @ + diff_count]
  /\ ti' = (ti + 1) % NUM_CHANNELS
  /\ tpc' = "diff"
  /\ UNCHANGED <<mainVars, lcoreVars, flagVars, global_count, diff_count,
                 total, halted>>

\* DOB counts a packet.  Width packets do not come between two reports.
Count(c) ==
  /\ c \in assem_init \cap polled
  /\ FoldFunction(+, 0, total) < MaxCount
  /\ (global_count[c] + 1) % Width # last_count[c]
  /\ global_count' = [global_count EXCEPT ![c] = (@ + 1) % Width]
  /\ total' = [total EXCEPT ![c] = @ + 1]
  /\ UNCHANGED <<mainVars, lcoreVars, flagVars, timerVars, last_count,
                 diff_count, reported, halted>>
-----------------------------------------------------------------------------
MainStep == \/ LoopEnd("rings", "frames") \/ LoopEnd("frames", "dob")
            \/ LoopEnd("dob", "timer") \/ LoopEnd("flags", "wait")
            \/ CreateRings \/ CreateFrames \/ StartDob \/ StartTimer
            \/ CheckPorts \/ InitPort \/ Launch \/ RaiseTimerInit
TimerStep == \/ RaiseSendInit \/ AwaitInit \/ RaiseAssemInit
             \/ ReadDiff \/ ReadLast

Next == /\ halted = "no"
        /\ \/ MainStep \/ TimerStep
           \/ \E w \in Workers : Poll(w)
           \/ \E c \in Channels : Count(c)

\* Each thread and lcore has a CPU of its own.
Spec == /\ Init /\ [][Next]_vars
        /\ WF_vars(halted = "no" /\ MainStep)
        /\ WF_vars(halted = "no" /\ TimerStep)
        /\ \A w \in Workers : WF_vars(halted = "no" /\ Poll(w))
-----------------------------------------------------------------------------
(* Properties *)

\* Shape of every variable.
TypeOK ==
  /\ mpc \in {"rings", "frames", "dob", "timer", "ports", "init", "flags", "wait"}
  /\ i \in 0..NUM_CHANNELS
  /\ rings \cup frames \cup dob \cup polled \subseteq Channels
  /\ timer_init \cup send_thread_init \cup assem_init \subseteq Channels
  /\ up \subseteq Ports /\ launched \subseteq Workers
  /\ jj \in [Workers -> 0..2]
  /\ tpc \in {"off", "send", "wait", "assem", "diff", "last"}
  /\ ti \in 0..NUM_CHANNELS
  /\ global_count \in [Channels -> 0..(Width - 1)]
  /\ last_count \in [Channels -> 0..(Width - 1)]
  /\ diff_count \in 0..(Width - 1)
  /\ total \in [Channels -> Nat] /\ reported \in [Channels -> Nat]
  /\ halted \in {"no", "return", "exit", "panic", "fault"}

\* DOB leaves the loop that throws packets away only when everything runs:
\* the timer raises assem_init (basicfwd.cpp:1062-1065) after main has made
\* every channel's rings, pools and threads, initialised every port and
\* launched every lcore, although it waits for channel 0's flag only.
AssembleLast ==
  assem_init # {} => /\ rings = Channels /\ frames = Channels /\ dob = Channels
                     /\ up = Ports /\ launched = Workers

\* The order of the start, with the shape of all variables.
StartSound == TypeOK /\ AssembleLast

\* The process faults only without worker lcores or with fewer than the three
\* ports every lcore polls (basicfwd.cpp:221-228, 1056).
FaultOnlyOnSmallMachines == halted = "fault" => Workers = {} \/ NumPorts < 3

\* The counts printed (basicfwd.cpp:1078-1079) never add up to more packets
\* than were counted: what comes between the two reads is missing from them,
\* and nothing is in them twice, across the wrap of the counter too.
NeverOverReported ==
  \A c \in Channels :
    LET unread == (global_count[c] - last_count[c]) % Width
        pending == IF tpc = "last" /\ ti = c THEN diff_count ELSE 0
    IN /\ reported[c] + unread <= total[c]
       /\ reported[c] + pending <= total[c]

\* Unless it fails, the start comes to its end: all channels assemble and the
\* three that are polled are polled.
Running == halted = "no" => assem_init = Channels /\ {0, 1, 2} \subseteq polled
StartCompletes == Workers # {} => <>[]Running
=============================================================================
