---------------------------- MODULE LiveEvidence ----------------------------
(***************************************************************************)
(* The validation of the strategies, which a live order needs: a file with *)
(* a fingerprint of the strategies' source, read from the disk, and of the *)
(* settings whose names begin with max_, min_, estimated_ and golive_.     *)
(* Other settings of risk (kelly_cap_fraction, consecutive_loss_halt,      *)
(* mis_sizing_leverage) may change under a validation; they are left out.  *)
(***************************************************************************)
VARIABLES
  source,     \* strategies/engine.py: on the disk, and as the process runs it
  settings,   \* the settings in force that the fingerprint has
  validation, \* latest.json
  dated,      \* it is older than validation_max_age_days
  mixed       \* history: when it was made, the disk had other code than ran

vars == <<source, settings, validation, dated, mixed>>

Versions == {1, 2}

Init ==
  /\ source = [disk |-> 1, loaded |-> 1] /\ settings = 1
  /\ validation = [good |-> FALSE] /\ dated = FALSE /\ mixed = FALSE

FingerprintUnsourced == <<1, settings>>
Fingerprint == <<source.disk, settings>>

\* run_backtest: whether it is good enough, whatever it was asked for.
Validate ==
  /\ \E good \in BOOLEAN :
       validation' = [good |-> good, print |-> Fingerprint,
                      of |-> <<source.loaded, settings>>]
  /\ dated' = FALSE /\ mixed' = (source.disk # source.loaded)
  /\ UNCHANGED <<source, settings>>

\* A new version is deployed; the process runs it when it is started again.
Deploy ==
  /\ \E v \in Versions : source' = [source EXCEPT !.disk = v]
  /\ UNCHANGED <<settings, validation, dated, mixed>>

Restart ==
  /\ source' = [source EXCEPT !.loaded = source.disk] /\ settings' \in Versions
  /\ UNCHANGED <<validation, dated, mixed>>

Expire == ~dated /\ dated' = TRUE /\ UNCHANGED <<source, settings, validation, mixed>>

Next == Validate \/ Deploy \/ Restart \/ Expire

Spec == Init /\ [][Next]_vars

-----------------------------------------------------------------------------
\* validation_blockers
Approves == validation.good /\ ~dated /\ validation.print = Fingerprint

\* The file on the disk is not the code that runs: a deployment, or the rollback
\* of one, that no restart followed.
Pending == source.disk # source.loaded

\* Of "invalidated when strategy/risk inputs change": a validation that lets
\* orders out was made with the strategies that run and with the settings in force
\* that the fingerprint has.  Excepted: the disk has other code than runs now, or
\* had when it was made.  Both let orders out on a validation of other code.
ValidatedWhatRuns ==
  Approves => validation.of = <<source.loaded, settings>> \/ Pending \/ mixed
=============================================================================
