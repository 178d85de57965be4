--------------------------- MODULE StartupProofs ---------------------------
(***************************************************************************)
(* Proofs about the start of basicfwd and its reports, for any number of   *)
(* worker lcores and ports and any width of the counters.                  *)
(***************************************************************************)
EXTENDS Startup, FiniteSetTheorems, TLAPS

LEMMA Numbers ==
  /\ NUM_CHANNELS \in Nat
  /\ Workers # {} => NUM_CHANNELS >= 3
<1>1. Cardinality(Workers) \in Nat
  BY StartupAssumption, FS_CardinalityType
<1>2. Workers # {} => Cardinality(Workers) # 0
  BY StartupAssumption, FS_EmptySet
<1>3. QED
  BY <1>1, <1>2 DEF NUM_CHANNELS

\* Remainders by the width of a counter, of what occurs here.
LEMMA Wrap ==
  /\ \A x \in Int : x % Width \in 0..(Width - 1)
  /\ \A x \in 0..(Width - 1) : x % Width = x
  /\ \A x \in (-Width)..(-1) : x % Width = x + Width
  /\ Width % Width = 0
  BY StartupAssumption

LEMMA UpTo ==
  /\ \A n \in Nat : (0..(n - 1)) \cup {n} = 0..((n + 1) - 1)
  /\ \A n \in 0..NUM_CHANNELS : n < NUM_CHANNELS => n \in Channels /\ n + 1 \in 0..NUM_CHANNELS
  BY Numbers DEF Channels

\* How far the creation loops are.
Created ==
  /\ rings = IF mpc = "rings" THEN 0..(i - 1) ELSE Channels
  /\ frames = IF mpc = "rings" THEN {} ELSE IF mpc = "frames" THEN 0..(i - 1) ELSE Channels
  /\ dob = IF mpc \in {"rings", "frames"} THEN {}
           ELSE IF mpc = "dob" THEN 0..(i - 1) ELSE Channels

\* main raises no flag before the launch and launches nothing before the
\* ports are up ...
Launched ==
  /\ launched # {} => up = Ports /\ mpc \in {"init", "flags", "wait"}
  /\ mpc \in {"flags", "wait"} => up = Ports /\ launched = Workers
  /\ timer_init # {} => mpc \in {"flags", "wait"}

\* ... and the timer, which waits for the flag of channel 0, raises none of
\* the assem_init flags before.
Awaited ==
  /\ tpc \in {"assem", "diff", "last"} => 0 \in timer_init /\ NUM_CHANNELS # 0
  /\ tpc \in {"diff", "last"} => ti < NUM_CHANNELS
  /\ assem_init # {} => tpc \in {"assem", "diff", "last"}

IInv == TypeOK /\ Created /\ Launched /\ Awaited /\ FaultOnlyOnSmallMachines

LEMMA InitInv == Init => IInv
<1> SUFFICES ASSUME Init PROVE IInv
  OBVIOUS
<1>1. TypeOK
  BY Numbers, StartupAssumption DEF Init, TypeOK, Channels
<1>2. Created /\ Launched /\ Awaited /\ FaultOnlyOnSmallMachines
  BY DEF Init, Created, Launched, Awaited, FaultOnlyOnSmallMachines
<1>3. QED
  BY <1>1, <1>2 DEF IInv

\* The next port to be initialised exists.
LEMMA NextPort ==
  ASSUME up \subseteq Ports, up # Ports
  PROVE  Cardinality(up) \in Ports
<1>1. IsFiniteSet(Ports) /\ Cardinality(Ports) = NumPorts
  <2>1. 0 \in Int /\ NumPorts - 1 \in Int
    BY StartupAssumption
  <2>2. QED
    BY <2>1, FS_Interval, StartupAssumption DEF Ports
<1>2. Cardinality(up) < NumPorts /\ Cardinality(up) \in Nat
  BY <1>1, FS_Subset, FS_CardinalityType, StartupAssumption
<1>3. QED
  BY <1>2, StartupAssumption DEF Ports

LEMMA MainStepInv ==
  ASSUME IInv, halted = "no", MainStep
  PROVE  IInv'
<1> USE Numbers DEF IInv, Halt, Advance, Iterate, lcoreVars, flagVars, timerVars, statVars
<1>1. ASSUME NEW loop, NEW next, LoopEnd(loop, next),
             <<loop, next>> \in {<<"rings", "frames">>, <<"frames", "dob">>,
                                 <<"dob", "timer">>, <<"flags", "wait">>}
      PROVE  IInv'
  <2>1. TypeOK'
    BY <1>1 DEF LoopEnd, TypeOK
  <2>2. Created'
    BY <1>1 DEF LoopEnd, Created, Channels
  <2>3. Launched' /\ Awaited' /\ FaultOnlyOnSmallMachines'
    BY <1>1 DEF LoopEnd, Launched, Awaited, FaultOnlyOnSmallMachines
  <2>4. QED
    BY <2>1, <2>2, <2>3
<1>2. CASE CreateRings
  <2>1. TypeOK'
    BY <1>2, UpTo DEF CreateRings, TypeOK
  <2>2. Created'
    <3>1. CASE halted' = halted
      <4>1. i \in Nat /\ mpc = "rings" /\ rings = 0..(i - 1) /\ mpc' = mpc
        BY <1>2 DEF CreateRings, Created, TypeOK
      <4>2. rings' = 0..(i' - 1) /\ UNCHANGED <<frames, dob>>
        BY <1>2, <3>1, <4>1, UpTo DEF CreateRings
      <4>3. QED
        BY <4>1, <4>2 DEF Created
    <3>2. CASE halted' # halted
      BY <1>2, <3>2 DEF CreateRings, Created
    <3>3. QED
      BY <3>1, <3>2
  <2>3. Launched' /\ Awaited' /\ FaultOnlyOnSmallMachines'
    BY <1>2 DEF CreateRings, Launched, Awaited, FaultOnlyOnSmallMachines
  <2>4. QED
    BY <2>1, <2>2, <2>3
<1>3. CASE CreateFrames
  <2>1. TypeOK'
    BY <1>3, UpTo DEF CreateFrames, TypeOK
  <2>2. Created'
    <3>1. CASE halted' = halted
      <4>1. i \in Nat /\ mpc = "frames" /\ frames = 0..(i - 1) /\ mpc' = mpc
        BY <1>3 DEF CreateFrames, Created, TypeOK
      <4>2. frames' = 0..(i' - 1) /\ UNCHANGED <<rings, dob>>
        BY <1>3, <3>1, <4>1, UpTo DEF CreateFrames
      <4>3. QED
        BY <4>1, <4>2 DEF Created
    <3>2. CASE halted' # halted
      BY <1>3, <3>2 DEF CreateFrames, Created
    <3>3. QED
      BY <3>1, <3>2
  <2>3. Launched' /\ Awaited' /\ FaultOnlyOnSmallMachines'
    BY <1>3 DEF CreateFrames, Launched, Awaited, FaultOnlyOnSmallMachines
  <2>4. QED
    BY <2>1, <2>2, <2>3
<1>4. CASE StartDob
  <2>1. TypeOK'
    BY <1>4, UpTo DEF StartDob, TypeOK
  <2>2. Created'
    BY <1>4, UpTo DEF StartDob, Created, TypeOK
  <2>3. Launched' /\ Awaited' /\ FaultOnlyOnSmallMachines'
    BY <1>4 DEF StartDob, Launched, Awaited, FaultOnlyOnSmallMachines
  <2>4. QED
    BY <2>1, <2>2, <2>3
<1>5. CASE StartTimer
  <2>1. TypeOK'
    BY <1>5 DEF StartTimer, TypeOK
  <2>2. Created'
    BY <1>5 DEF StartTimer, Created
  <2>3. Launched' /\ Awaited' /\ FaultOnlyOnSmallMachines'
    BY <1>5 DEF StartTimer, Launched, Awaited, FaultOnlyOnSmallMachines
  <2>4. QED
    BY <2>1, <2>2, <2>3
<1>6. CASE CheckPorts
  <2>1. TypeOK'
    BY <1>6 DEF CheckPorts, TypeOK
  <2>2. Created'
    BY <1>6 DEF CheckPorts, Created
  <2>3. Launched' /\ Awaited' /\ FaultOnlyOnSmallMachines'
    BY <1>6 DEF CheckPorts, Launched, Awaited, FaultOnlyOnSmallMachines
  <2>4. QED
    BY <2>1, <2>2, <2>3
<1>7. CASE InitPort
  <2>1. up' = up \/ up' = up \cup {Cardinality(up)}
    BY <1>7 DEF InitPort
  <2>2. up' \subseteq Ports
    BY <1>7, <2>1, NextPort DEF InitPort, TypeOK
  <2>3. TypeOK'
    BY <1>7, <2>2 DEF InitPort, TypeOK
  <2>4. Created'
    BY <1>7 DEF InitPort, Created
  <2>5. Launched' /\ Awaited' /\ FaultOnlyOnSmallMachines'
    BY <1>7 DEF InitPort, Launched, Awaited, FaultOnlyOnSmallMachines
  <2>6. QED
    BY <2>3, <2>4, <2>5
<1>8. CASE Launch
  <2>1. TypeOK'
    BY <1>8 DEF Launch, TypeOK
  <2>2. Created'
    BY <1>8 DEF Launch, Created
  <2>3. Launched' /\ Awaited' /\ FaultOnlyOnSmallMachines'
    BY <1>8 DEF Launch, Launched, Awaited, FaultOnlyOnSmallMachines
  <2>4. QED
    BY <2>1, <2>2, <2>3
<1>9. CASE RaiseTimerInit
  <2>1. TypeOK'
    BY <1>9, UpTo DEF RaiseTimerInit, TypeOK
  <2>2. Created'
    BY <1>9 DEF RaiseTimerInit, Created
  <2>3. Launched' /\ Awaited' /\ FaultOnlyOnSmallMachines'
    BY <1>9 DEF RaiseTimerInit, Launched, Awaited, FaultOnlyOnSmallMachines
  <2>4. QED
    BY <2>1, <2>2, <2>3
<1>10. QED
  BY <1>1, <1>2, <1>3, <1>4, <1>5, <1>6, <1>7, <1>8, <1>9 DEF MainStep

\* The lcores find every port and ring they poll, on a machine large enough.
LEMMA PollInv ==
  ASSUME IInv, halted = "no", NEW w \in Workers, Poll(w)
  PROVE  IInv'
<1> USE Numbers DEF IInv, lcoreVars, flagVars, timerVars, statVars
<1>1. TypeOK'
  BY DEF Poll, TypeOK
<1>2. Created' /\ Launched' /\ Awaited'
  BY DEF Poll, Created, Launched, Awaited
<1>3. up = Ports /\ rings = Channels /\ jj[w] \in 0..2 /\ NUM_CHANNELS >= 3
  BY DEF Poll, Launched, Created, TypeOK
<1>4. NumPorts >= 3 => jj[w] \in up /\ jj[w] \in rings
  BY <1>3, StartupAssumption DEF Ports, Channels
<1>5. FaultOnlyOnSmallMachines'
  BY <1>4, StartupAssumption DEF Poll, FaultOnlyOnSmallMachines
<1>6. QED
  BY <1>1, <1>2, <1>5

LEMMA TimerStepInv ==
  ASSUME IInv, halted = "no", TimerStep
  PROVE  IInv'
<1> USE Numbers, StartupAssumption
    DEF IInv, TimerAdvance, mainVars, lcoreVars, flagVars, timerVars, statVars
<1>1. CASE RaiseSendInit
  <2>1. TypeOK'
    BY <1>1, UpTo DEF RaiseSendInit, TypeOK
  <2>2. Created' /\ Launched' /\ Awaited' /\ FaultOnlyOnSmallMachines'
    BY <1>1 DEF RaiseSendInit, Created, Launched, Awaited, FaultOnlyOnSmallMachines
  <2>3. QED
    BY <2>1, <2>2
<1>2. CASE AwaitInit
  <2>1. TypeOK'
    BY <1>2 DEF AwaitInit, TypeOK
  <2>2. Created' /\ Launched' /\ Awaited' /\ FaultOnlyOnSmallMachines'
    BY <1>2 DEF AwaitInit, Created, Launched, Awaited, FaultOnlyOnSmallMachines
  <2>3. QED
    BY <2>1, <2>2
<1>3. CASE RaiseAssemInit
  <2>1. TypeOK'
    BY <1>3, UpTo DEF RaiseAssemInit, TypeOK
  <2>2. Created' /\ Launched' /\ Awaited' /\ FaultOnlyOnSmallMachines'
    BY <1>3 DEF RaiseAssemInit, Created, Launched, Awaited, FaultOnlyOnSmallMachines, TypeOK
  <2>3. QED
    BY <2>1, <2>2
<1>4. CASE ReadDiff
  <2>1. diff_count' \in 0..(Width - 1)
    <3>1. ti \in Channels
      BY <1>4 DEF ReadDiff, TypeOK, Awaited, Channels
    <3>2. global_count[ti] - last_count[ti] \in Int
      BY <3>1 DEF TypeOK
    <3>3. QED
      BY <1>4, <3>2, Wrap DEF ReadDiff
  <2>2. TypeOK'
    BY <1>4, <2>1 DEF ReadDiff, TypeOK
  <2>3. Created' /\ Launched' /\ Awaited' /\ FaultOnlyOnSmallMachines'
    BY <1>4 DEF ReadDiff, Created, Launched, Awaited, FaultOnlyOnSmallMachines
  <2>4. QED
    BY <2>2, <2>3
<1>5. CASE ReadLast
  <2>1. ti \in Channels /\ ti' \in 0..(NUM_CHANNELS - 1)
    BY <1>5 DEF ReadLast, TypeOK, Awaited, Channels
  <2>2. TypeOK'
    BY <1>5, <2>1 DEF ReadLast, TypeOK
  <2>3. Created' /\ Launched' /\ Awaited' /\ FaultOnlyOnSmallMachines'
    BY <1>5, <2>1 DEF ReadLast, Created, Launched, Awaited, FaultOnlyOnSmallMachines
  <2>4. QED
    BY <2>2, <2>3
<1>6. QED
  BY <1>1, <1>2, <1>3, <1>4, <1>5 DEF TimerStep

LEMMA CountCounts ==
  ASSUME NEW c \in Channels, Count(c)
  PROVE  /\ c \in assem_init /\ (global_count[c] + 1) % Width # last_count[c]
         /\ global_count' = [global_count EXCEPT ![c] = (@ + 1) % Width]
         /\ total' = [total EXCEPT ![c] = @ + 1]
         /\ UNCHANGED <<mainVars, lcoreVars, flagVars, timerVars, last_count,
                        diff_count, reported, halted>>
  BY Zenon DEF Count

LEMMA CountInv ==
  ASSUME IInv, NEW c \in Channels, Count(c)
  PROVE  IInv'
<1> USE StartupAssumption
    DEF IInv, mainVars, lcoreVars, flagVars, timerVars
<1>1. TypeOK'
  <2>1. (global_count[c] + 1) % Width \in 0..(Width - 1)
    BY Wrap DEF TypeOK
  <2>2. QED
    BY <2>1, CountCounts DEF TypeOK
<1>2. Created' /\ Launched' /\ Awaited' /\ FaultOnlyOnSmallMachines'
  BY CountCounts DEF Created, Launched, Awaited, FaultOnlyOnSmallMachines
<1>3. QED
  BY <1>1, <1>2

LEMMA NextInv == IInv /\ [Next]_vars => IInv'
<1> SUFFICES ASSUME IInv, [Next]_vars PROVE IInv'
  OBVIOUS
<1>1. CASE UNCHANGED vars
  BY <1>1 DEF IInv, TypeOK, Created, Launched, Awaited, FaultOnlyOnSmallMachines, vars,
    lcoreVars, flagVars, timerVars, statVars
<1>2. CASE Next
  BY <1>2, MainStepInv, PollInv, TimerStepInv, CountInv DEF Next
<1>3. QED
  BY <1>1, <1>2

LEMMA InvHolds == Spec => []IInv
  BY InitInv, NextInv, PTL DEF Spec

\* DOB is let loose only when main has created, initialised and launched
\* everything, for any number of lcores and ports (basicfwd.cpp:1056-1065).
THEOREM AssembledLast == Spec => []StartSound
<1>1. IInv => StartSound
  <2> SUFFICES ASSUME IInv PROVE StartSound
    OBVIOUS
  <2>1. assem_init # {} => mpc \in {"flags", "wait"}
    BY DEF IInv, Awaited, Launched
  <2>2. QED
    BY <2>1 DEF IInv, Launched, Created, StartSound, AssembleLast
<1>2. QED
  BY InvHolds, <1>1, PTL

\* With a worker and three ports nothing is read past its end.
THEOREM NoFault == Spec => []FaultOnlyOnSmallMachines
<1>1. IInv => FaultOnlyOnSmallMachines
  BY DEF IInv
<1>2. QED
  BY InvHolds, <1>1, PTL
-----------------------------------------------------------------------------
(* The reports *)
-----------------------------------------------------------------------------
(* The reports *)

\* One more packet is one more to report, across the wrap of the counter too,
\* unless Width of them come between two reports.
LEMMA OneMore ==
  ASSUME NEW g \in 0..(Width - 1), NEW l \in 0..(Width - 1), (g + 1) % Width # l
  PROVE  (((g + 1) % Width) - l) % Width = ((g - l) % Width) + 1
<1>0. /\ \A x \in 0..(Width - 1) : x % Width = x
      /\ \A x \in (-Width)..(-1) : x % Width = x + Width
      /\ Width % Width = 0 /\ Width \in Nat \ {0}
  BY Wrap, StartupAssumption
<1>1. (g - l) % Width = IF g < l THEN g - l + Width ELSE g - l
  BY <1>0
<1>2. CASE g + 1 < Width
  <2>1. (g + 1) % Width = g + 1
    BY <1>0, <1>2
  <2>2. ((g + 1) - l) % Width = IF g < l THEN (g + 1) - l + Width ELSE (g + 1) - l
    BY <1>0, <1>2, <2>1
  <2>3. (((g + 1) % Width) - l) % Width = ((g + 1) - l) % Width
    BY <2>1
  <2>4. (IF g < l THEN (g + 1) - l + Width ELSE (g + 1) - l)
          = (IF g < l THEN g - l + Width ELSE g - l) + 1
    BY <1>0
  <2>5. QED
    BY <1>1, <2>2, <2>3, <2>4
<1>3. CASE ~(g + 1 < Width)
  <2>1. g + 1 = Width
    BY <1>0, <1>3
  <2>2. (g + 1) % Width = 0
    BY <1>0, <2>1
  <2>3. l # 0 /\ ~(g < l)
    BY <2>1, <2>2
  <2>4. (0 - l) % Width = (0 - l) + Width
    BY <1>0, <2>3
  <2>5. QED
    BY <1>0, <1>1, <2>1, <2>2, <2>3, <2>4
<1>4. QED
  BY <1>2, <1>3

Unread(c) == (global_count[c] - last_count[c]) % Width
Pending(c) == IF tpc = "last" /\ ti = c THEN diff_count ELSE 0

LEMMA Amounts ==
  /\ NeverOverReported <=>
       \A c \in Channels : /\ reported[c] + Unread(c) <= total[c]
                           /\ reported[c] + Pending(c) <= total[c]
  /\ TypeOK => \A c \in Channels :
       /\ Unread(c) \in Nat /\ Pending(c) \in Nat
       /\ reported[c] \in Nat /\ total[c] \in Nat
<1>1. ASSUME TypeOK, NEW c \in Channels
      PROVE  /\ Unread(c) \in Nat /\ Pending(c) \in Nat
             /\ reported[c] \in Nat /\ total[c] \in Nat
  <2>1. global_count[c] - last_count[c] \in Int
    BY <1>1 DEF TypeOK
  <2>2. Unread(c) \in 0..(Width - 1)
    BY <2>1, Wrap DEF Unread
  <2>3. QED
    BY <1>1, <2>2 DEF TypeOK, Pending
<1>2. QED
  BY <1>1 DEF NeverOverReported, Unread, Pending

LEMMA NextReports == IInv /\ NeverOverReported /\ [Next]_vars => NeverOverReported'
<1> SUFFICES ASSUME IInv, NeverOverReported, [Next]_vars PROVE NeverOverReported'
  OBVIOUS
<1>0. TypeOK /\ TypeOK'
  BY NextInv DEF IInv
<1> SUFFICES ASSUME NEW c \in Channels
             PROVE  /\ reported'[c] + Unread(c)' <= total'[c]
                    /\ reported'[c] + Pending(c)' <= total'[c]
  BY DEF NeverOverReported, Unread, Pending
<1>1. /\ reported[c] + Unread(c) <= total[c]
      /\ reported[c] + Pending(c) <= total[c]
      /\ Unread(c) \in Nat /\ Pending(c) \in Nat
      /\ reported[c] \in Nat /\ total[c] \in Nat
  BY <1>0, Amounts
<1>2. CASE UNCHANGED <<statVars, ti>> /\ (tpc' = "last" => tpc = "last")
  <2>1. Unread(c)' = Unread(c) /\ Pending(c)' \in {Pending(c), 0}
    BY <1>2 DEF statVars, Unread, Pending
  <2>2. QED
    BY <1>1, <1>2, <2>1 DEF statVars
<1>3. CASE ReadDiff
  <2>1. UNCHANGED <<ti, global_count, last_count, total, reported>>
    BY <1>3 DEF ReadDiff
  <2>2. Unread(c)' = Unread(c)
    BY <2>1 DEF Unread
  <2>3. Pending(c)' = Unread(c) \/ Pending(c)' = 0
    BY <1>3, <2>1 DEF ReadDiff, Unread, Pending
  <2>4. reported'[c] = reported[c] /\ total'[c] = total[c]
    BY <2>1
  <2>5. reported[c] + 0 <= total[c]
    BY <1>1
  <2>6. QED
    BY <1>1, <2>2, <2>3, <2>4, <2>5
<1>4. CASE ReadLast
  <2>1. /\ last_count' = [last_count EXCEPT ![ti] = global_count[ti]]
        /\ reported' = [reported EXCEPT ![ti] = @ + diff_count]
        /\ tpc = "last" /\ tpc' = "diff"
        /\ UNCHANGED <<global_count, total>>
    BY <1>4 DEF ReadLast
  <2>2. Pending(c)' = 0
    BY <2>1 DEF Pending
  <2>3. CASE c = ti
    <3>1. /\ last_count'[c] = global_count[c] /\ global_count[c] \in Int
          /\ reported'[c] = reported[c] + Pending(c)
      BY <1>0, <2>1, <2>3 DEF TypeOK, Pending
    <3>2. Unread(c)' = 0 % Width
      BY <2>1, <3>1 DEF Unread
    <3>3. 0 % Width = 0
      BY Wrap, StartupAssumption
    <3>4. QED
      BY <1>1, <2>1, <2>2, <3>1, <3>2, <3>3
  <2>4. CASE c # ti
    <3>1. Unread(c)' = Unread(c) /\ reported'[c] = reported[c]
      BY <1>0, <2>1, <2>4 DEF TypeOK, Unread
    <3>2. QED
      BY <1>1, <2>1, <2>2, <3>1
  <2>5. QED
    BY <2>3, <2>4
<1>5. ASSUME NEW b \in Channels, Count(b)
      PROVE  /\ reported'[c] + Unread(c)' <= total'[c]
             /\ reported'[c] + Pending(c)' <= total'[c]
  <2>1. /\ (global_count[b] + 1) % Width # last_count[b]
        /\ global_count' = [global_count EXCEPT ![b] = (@ + 1) % Width]
        /\ total' = [total EXCEPT ![b] = @ + 1]
        /\ UNCHANGED <<tpc, ti, last_count, diff_count, reported>>
    BY <1>5, CountCounts DEF timerVars
  <2>2. Pending(c)' = Pending(c)
    BY <2>1 DEF Pending
  <2>3. CASE c = b
    <3>1. global_count'[c] = (global_count[c] + 1) % Width /\ total'[c] = total[c] + 1
      BY <1>0, <2>1, <2>3 DEF TypeOK
    <3>2. global_count[c] \in 0..(Width - 1) /\ last_count[c] \in 0..(Width - 1)
      BY <1>0 DEF TypeOK
    <3>3. Unread(c)' = Unread(c) + 1
      BY <2>1, <2>3, <3>1, <3>2, OneMore DEF Unread
    <3>4. QED
      BY <1>1, <2>1, <2>2, <3>1, <3>3
  <2>4. CASE c # b
    <3>1. Unread(c)' = Unread(c) /\ total'[c] = total[c]
      BY <1>0, <2>1, <2>4 DEF TypeOK, Unread
    <3>2. QED
      BY <1>1, <2>1, <2>2, <3>1
  <2>5. QED
    BY <2>3, <2>4
<1>6. CASE MainStep
  <2>1. UNCHANGED statVars /\ (tpc' # "last" \/ UNCHANGED tpc)
    BY <1>6 DEF MainStep, LoopEnd, CreateRings, CreateFrames, StartDob, StartTimer,
      CheckPorts, InitPort, Launch, RaiseTimerInit, timerVars
  <2>2. UNCHANGED ti
    BY <1>6 DEF MainStep, LoopEnd, CreateRings, CreateFrames, StartDob, StartTimer,
      CheckPorts, InitPort, Launch, RaiseTimerInit, timerVars
  <2>3. QED
    BY <1>2, <2>1, <2>2
<1>7. CASE RaiseSendInit \/ AwaitInit \/ RaiseAssemInit
  <2>1. UNCHANGED statVars /\ tpc # "last" /\ tpc' # "last"
    BY <1>7 DEF RaiseSendInit, AwaitInit, RaiseAssemInit, TimerAdvance, timerVars
  <2>2. Unread(c)' = Unread(c) /\ Pending(c)' = 0
    BY <2>1 DEF statVars, Unread, Pending
  <2>3. QED
    BY <1>1, <2>1, <2>2 DEF statVars
<1>8. ASSUME NEW w \in Workers, Poll(w) PROVE UNCHANGED <<statVars, ti, tpc>>
  BY <1>8 DEF Poll, timerVars
<1>9. CASE UNCHANGED vars
  BY <1>2, <1>9 DEF vars, timerVars
<1>10. QED
  BY <1>2, <1>3, <1>4, <1>5, <1>6, <1>7, <1>8, <1>9 DEF Next, TimerStep

\* What timer_thread prints never adds up to more packets than were counted,
\* whatever the width of the counter it reads twice (basicfwd.cpp:1078-1079).
THEOREM ReportsAtMostCounted == Spec => []NeverOverReported
<1>1. Init => NeverOverReported
  <2> SUFFICES ASSUME Init, NEW c \in Channels
               PROVE  /\ reported[c] + Unread(c) <= total[c]
                      /\ reported[c] + Pending(c) <= total[c]
    BY DEF NeverOverReported, Unread, Pending
  <2>1. reported[c] = 0 /\ total[c] = 0 /\ Pending(c) = 0
    BY DEF Init, Pending
  <2>2. 0 % Width = 0
    BY Wrap, StartupAssumption
  <2>3. Unread(c) = 0
    BY <2>2 DEF Init, Unread
  <2>4. QED
    BY <2>1, <2>3
<1>2. Init => IInv /\ NeverOverReported
  BY <1>1, InitInv
<1>3. (IInv /\ NeverOverReported) /\ [Next]_vars => (IInv /\ NeverOverReported)'
  BY NextInv, NextReports
<1>4. QED
  BY <1>2, <1>3, PTL DEF Spec
=============================================================================
