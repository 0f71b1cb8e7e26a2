----------------------------- MODULE OrderIntent -----------------------------
(***************************************************************************)
(* What order submission promises, whatever its steps are: an order may    *)
(* trade only under a durable intent that recovery and the next submission *)
(* can read; it is sent once, as long as its claim is kept; and a buy is   *)
(* sent only while nothing else may trade.  LiveExecution implements this. *)
(*                                                                         *)
(* stray holds the ids for which the code does not keep the first promise  *)
(* (an id used again in its time bucket, an entry row closed with its      *)
(* position): the promise is made to all others.                           *)
(***************************************************************************)
CONSTANTS Ids, Buys

VARIABLES
  intent,    \* ids with a durable record that is not finished
  live,      \* ids of orders that may still trade
  stray,     \* ids in use whose record says otherwise
  loose      \* ids whose claim may be lost

intentVars == <<intent, live, stray, loose>>

Init == intent = {} /\ live = {} /\ stray = {} /\ loose = {}

Send(i) ==
  /\ i \in intent \cup stray
  /\ i \in live => i \in loose
  /\ i \in Buys => live \subseteq stray
  /\ live' = live \cup {i}
  /\ UNCHANGED <<intent, stray, loose>>

\* Executed in full, cancelled, rejected, or lost on the way.
Over(i) ==
  /\ i \in live /\ live' = live \ {i}
  /\ UNCHANGED <<intent, stray, loose>>

\* The records change; no order that may trade is without one.
Book ==
  /\ intent' \in SUBSET Ids /\ stray' \in SUBSET Buys /\ loose' \in SUBSET Buys
  /\ live \subseteq intent' \cup stray'
  /\ UNCHANGED live

Next == Book \/ \E i \in Ids : Send(i) \/ Over(i)

Spec == Init /\ [][Next]_intentVars
=============================================================================
