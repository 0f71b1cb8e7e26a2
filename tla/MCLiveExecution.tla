-------------------------- MODULE MCLiveExecution --------------------------
(***************************************************************************)
(* LiveExecution on one instrument.  The gates of the code are global, so  *)
(* the ids that meet on one instrument are the interesting ones.           *)
(***************************************************************************)
EXTENDS LiveExecution, TLC

MCSymbolOf == [i \in Ids |-> CHOOSE s \in Symbols : TRUE]
MCSymmetry == Permutations(Entries) \cup Permutations(Exits)

\* The state without what no later step and no property of the run reads: two
\* history variables, the memory of a process that has died, and the quantities
\* of an order that is over and that neither the operation nor the ledger names.
Over(o) == o.st \in Terminal
Named(i) == i = cur \/ \E s \in Symbols : i \in {pos[s].stop, dpos[s].stop}
Gist(orders) == [i \in Ids |-> IF Over(orders[i]) /\ ~Named(i) THEN None ELSE orders[i]]

MCView == <<pc, callVars, res, sweepVars, degraded, recVars, dbVars, claims, memclaims, held,
            IF pc = "down" THEN <<dpos, dhalt>> ELSE <<pos, halted>>,
            Gist(mkt), Gist(prot), {i \in owned : ~Over(prot[i])}, unlisted, unclaimed>>
============================================================================
