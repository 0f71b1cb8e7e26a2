----------------------------- MODULE MCKillReset -----------------------------
(***************************************************************************)
(* One run for two questions about ControlFlags, chosen at the start: what *)
(* two tasks at once and an outage of Redis can do to a kill, and what one *)
(* operation after another, cut short by crashes, leaves to a reset.  The  *)
(* second has no outages: it begins with more of them than the bound.      *)
(***************************************************************************)
EXTENDS MCControlFlags

KillOps == FaultOps \cup AdminOps

Calm == INSTANCE ControlFlags WITH outages <- outages - (MaxOutages + 1)
Serial == outages > MaxOutages

MCInit == Init \/ (outages = MaxOutages + 1 /\ Calm!Init)
MCSpec == MCInit /\ [][Next]_vars

Busy == {t \in Tasks : task[t] # Idle}

\* The CONSTRAINT: what each question leaves out.
Asked ==
  IF Serial
  THEN /\ \A t, u \in Busy : t = u
       /\ \A t \in Busy : Op(t) \in AdminOps \cup {"boot"}
  ELSE crashes <= 1 /\ \A t \in Busy : Op(t) \in FaultOps \cup {"boot", "chaos"}

\* Of the second question, see ControlFlags: one operation after another, cut
\* short by crashes, never leaves a lock that the reset refuses to see, in a
\* process whose startup could replay its compliance log (crce.recover).
SerialResetAccepted == Serial /\ Asked /\ ~skipped => ResetAccepted
=============================================================================
