--------------------------- MODULE Subscriptions ---------------------------
(***************************************************************************)
(* What the repeater's routing table promises: a relation between channels *)
(* and DHSMs to which each request does what it asks for, once, and        *)
(* nothing else: it adds the pair it names or takes that pair away.  A     *)
(* request for a channel that does not exist changes nothing.              *)
(***************************************************************************)
CONSTANTS
  Dhsms, ChannelIds, \* what a request may name
  Channels           \* the channels that exist

VARIABLES
  routes,
  request, pending   \* the last request, whether it is still to be answered

Requests == [dhsm_id : Dhsms, channel_id : ChannelIds, flag : BOOLEAN]

Init == routes = {} /\ request \in Requests /\ pending = FALSE

Ask ==
  /\ ~pending /\ pending' = TRUE
  /\ request' \in Requests
  /\ UNCHANGED routes

Named == IF request.channel_id \in Channels
         THEN {<<request.channel_id, request.dhsm_id>>} ELSE {}

\* The routes as the request wants them.
Answered == IF request.flag THEN routes \cup Named ELSE routes \ Named

Answer ==
  /\ pending /\ pending' = FALSE
  /\ routes' = Answered
  /\ UNCHANGED request

Spec == Init /\ [][Ask \/ Answer]_<<routes, request, pending>>
=============================================================================
