---------------------------- MODULE StressReport ----------------------------
(***************************************************************************)
(* The report of the stress suite, which a live order needs: a file that   *)
(* is overwritten by every suite, expires, and has a score of how the      *)
(* scenarios went.                                                         *)
(***************************************************************************)
EXTENDS Integers

CONSTANTS
  SuiteSize,  \* scenarios of the suite
  QuickSize   \* scenarios of a quick one

VARIABLES
  report,     \* chaos_report.json
  old         \* it is older than chaos_report_max_age_hours

vars == <<report, old>>

NoFile == [size |-> 0]

Init == report = NoFile /\ old = FALSE

-----------------------------------------------------------------------------
(* Percentages are kept as tenths, as they are rounded.                    *)

Rounded(a, b) == (2 * a + b) \div (2 * b)
Percent(x, n) == Rounded(1000 * x, n)

\* compute_metrics and resilience_score.
Score(rep) ==
  LET p(x) == Percent(rep[x], rep.size)
      drift == Percent(rep.size - rep.consistent, rep.size)
  IN Rounded(35 * p("safe") + 25 * p("denied") + 25 * p("passed") + 15 * (1000 - drift), 1000)

Unsafe(rep) == rep.safe < rep.size

\* classify
Class(rep) ==
  CASE Unsafe(rep) \/ Score(rep) < 50 -> "UNSAFE"
    [] Score(rep) < 70 -> "DEGRADED"
    [] Score(rep) < 90 -> "STABLE"
    [] OTHER -> "INSTITUTIONAL-GRADE"

ScoreSuffices(rep) == Score(rep) >= 90
SafeForLiveCapital(rep) ==
  Class(rep) = "INSTITUTIONAL-GRADE" /\ Score(rep) >= 90 /\ ~Unsafe(rep)

\* generate, after the whole suite or its first scenarios.  Scenarios that pass
\* are safe, and a safe one has no position the broker does not know; one is
\* denied, locked or in safe mode whatever else it was.
Suite(n) ==
  /\ \E safe, consistent, passed, denied \in 0..n :
       /\ passed <= safe /\ safe <= consistent
       /\ report' = [size |-> n, full |-> n = SuiteSize, safe |-> safe,
                     consistent |-> consistent, passed |-> passed, denied |-> denied]
  /\ old' = FALSE

\* A crash while the report is written leaves what cannot be read.
Torn == report' = NoFile /\ UNCHANGED old

Expire == ~old /\ old' = TRUE /\ UNCHANGED report

Next == (\E n \in {SuiteSize, QuickSize} : Suite(n)) \/ Torn \/ Expire

Spec == Init /\ [][Next]_vars

-----------------------------------------------------------------------------
\* ChaosLiveGate.validate, as check_for_live asks it.
Approves ==
  /\ report # NoFile /\ ~old
  /\ report.full /\ report.size >= SuiteSize
  /\ SafeForLiveCapital(report)

\* A report that lets orders out is of the whole suite, in which every scenario
\* was safe; and as its score weighs denials, there are four denials or passes
\* for every five there could be: 1600 of 2000, but for what is rounded off.
ApprovalEarned ==
  Approves =>
    /\ report.size = SuiteSize /\ report.safe = SuiteSize
    /\ 1000 * (report.denied + report.passed) >= 1579 * SuiteSize
=============================================================================
