------------------------------ MODULE DeskProofs ------------------------------
(***************************************************************************)
(* The small components of MCDesk, each for every value of its constants.  *)
(* A step of the desk is a step of one of them, or leaves it alone; so     *)
(* each has an invariant of its own.                                       *)
(***************************************************************************)
EXTENDS MCDesk, Integers, Sequences, FiniteSetTheorems, WellFoundedInduction, TLAPS

LEMMA Parts ==
  ASSUME [MCNext]_desk
  PROVE  /\ [Next]_vars /\ [Ledger!Next]_ledger /\ [Strategies!Next]_strategies
         /\ [Chaos!Next]_chaos /\ [Stress!Next]_stress /\ [Evidence!Next]_evidence
         /\ [Kite!Next]_kite /\ [Scan!Next]_scan /\ [Shadow!Next]_shadow
BY DEF MCNext, desk

-----------------------------------------------------------------------------
(* Ownership: one writer at a time, and a lock that is handed over, for    *)
(* any number of processes and of writes under way in each.                *)

\* The two values of holder that are no process.
NotProcs == "nobody" \notin Procs /\ "ghost" \notin Procs

Shape ==
  /\ phase \in [Procs -> {"down", "starting", "up"}]
  /\ write \in [Procs -> [Writes -> {"none", "checking", "passed"}]]

\* A write that passed its check and was not cut is of the lock's holder, which
\* is a process that is up.
Held ==
  /\ \A p \in Procs, w \in Writes :
       write[p][w] = "passed" /\ <<p, w>> \notin cut => holder = p
  /\ \A p \in Procs : holder = p => phase[p] = "up"

IInv == Shape /\ Held

LEMMA ShapeInit == Init => Shape
BY DEF Init, Shape

LEMMA ShapeStep == Shape /\ [Next]_vars => Shape'
<1> SUFFICES ASSUME Shape, [Next]_vars PROVE Shape'
    OBVIOUS
<1> USE DEF Shape
<1>1. CASE UNCHANGED vars
  BY <1>1 DEF vars
<1>2. CASE Noticed
  BY <1>2 DEF Noticed
<1>3. ASSUME NEW p \in Procs,
             \/ Start(p) \/ Acquire(p) \/ Refused(p) \/ Shutdown(p) \/ Crash(p)
             \/ SessionEnds(p) \/ ConnectionLost(p)
      PROVE Shape'
  BY <1>3 DEF Start, Acquire, Refused, Shutdown, Crash, SessionEnds, ConnectionLost
<1>4. ASSUME NEW p \in Procs, NEW w \in Writes,
             Ask(p, w) \/ Pass(p, w) \/ Fail(p, w) \/ Written(p, w)
      PROVE Shape'
  BY <1>4 DEF Ask, Pass, Fail, Written, SetWrite
<1>5. QED
  BY <1>1, <1>2, <1>3, <1>4 DEF Next

LEMMA HeldStep ==
  ASSUME NotProcs, IInv, [Next]_vars
  PROVE  Held'
<1> USE DEF IInv, Shape, Held, NotProcs
<1>1. CASE UNCHANGED vars
  BY <1>1 DEF vars
<1>2. CASE Noticed
  BY <1>2 DEF Noticed
<1>3. ASSUME NEW p \in Procs, Start(p)
      PROVE Held'
  BY <1>3 DEF Start, Passed
<1>4. ASSUME NEW p \in Procs, Acquire(p)
      PROVE Held'
  BY <1>4 DEF Acquire
<1>5. ASSUME NEW p \in Procs, Refused(p)
      PROVE Held'
  BY <1>5 DEF Refused, Close, Leaves, Under, Passed
<1>6. ASSUME NEW p \in Procs, Shutdown(p)
      PROVE Held'
  BY <1>6 DEF Shutdown, Close, Leaves, Under, Passed
<1>7. ASSUME NEW p \in Procs, Crash(p)
      PROVE Held'
  BY <1>7 DEF Crash, Under, Passed
<1>8. ASSUME NEW p \in Procs, SessionEnds(p) \/ ConnectionLost(p)
      PROVE Held'
  BY <1>8 DEF SessionEnds, ConnectionLost, Leaves, Under, Passed
<1>9. ASSUME NEW p \in Procs, NEW w \in Writes, Ask(p, w) \/ Fail(p, w)
      PROVE Held'
  BY <1>9 DEF Ask, Fail, SetWrite
<1>10. ASSUME NEW p \in Procs, NEW w \in Writes, Pass(p, w)
       PROVE Held'
  BY <1>10 DEF Pass, SetWrite
<1>11. ASSUME NEW p \in Procs, NEW w \in Writes, Written(p, w)
       PROVE Held'
  BY <1>11 DEF Written, SetWrite
<1>12. QED
  BY <1>1, <1>2, <1>3, <1>4, <1>5, <1>6, <1>7, <1>8, <1>9, <1>10, <1>11 DEF Next

LEMMA Owned == ASSUME NotProcs PROVE MCSpec => []IInv
<1>1. Init => IInv
  BY ShapeInit DEF Init, IInv, Held, NotProcs
<1>2. IInv /\ [Next]_vars => IInv'
  BY ShapeStep, HeldStep DEF IInv
<1>3. [MCNext]_desk => [Next]_vars
  BY Parts
<1>4. MCInit => Init
  BY DEF MCInit
<1>5. QED
  BY <1>1, <1>2, <1>3, <1>4, PTL DEF MCSpec

\* One live writer per database (execution_owner.py), but for writes during
\* which their process lost the lock.
THEOREM OneWriterHolds == ASSUME NotProcs PROVE MCSpec => []OneWriter
<1>1. IInv => OneWriter
  BY DEF IInv, Held, OneWriter, Passed
<1>2. QED
  BY <1>1, Owned, PTL

\* A process that has ended leaves the lock to the next one.
THEOREM HandedOverHolds == ASSUME NotProcs PROVE MCSpec => []HandedOver
<1>1. IInv => HandedOver
  BY DEF IInv, Shape, Held, HandedOver
<1>2. QED
  BY <1>1, Owned, PTL

\* A process one of whose checks has failed is down, or has given up ownership.
GaveUp ==
  /\ active \in [Procs -> BOOLEAN] /\ failed \in [Procs -> BOOLEAN]
  /\ \A p \in Procs :
       /\ active[p] => phase[p] = "up" /\ ~failed[p]
       /\ phase[p] = "starting" => ~failed[p]
       /\ \A w \in Writes : write[p][w] = "checking" => phase[p] = "up"

LEMMA GaveUpStep ==
  ASSUME Shape, GaveUp, [Next]_vars
  PROVE  GaveUp'
<1> USE DEF Shape, GaveUp
<1>1. CASE UNCHANGED vars
  BY <1>1 DEF vars
<1>2. CASE Noticed
  BY <1>2 DEF Noticed
<1>3. ASSUME NEW p \in Procs, Start(p) \/ Acquire(p)
      PROVE GaveUp'
  <2>1. CASE Start(p)
    BY <2>1 DEF Start
  <2>2. CASE Acquire(p)
    <3>1. ~failed[p]
      BY <2>2 DEF Acquire
    <3>2. QED
      BY <2>2, <3>1 DEF Acquire
  <2>3. QED
    BY <1>3, <2>1, <2>2
<1>4. ASSUME NEW p \in Procs, Refused(p)
      PROVE GaveUp'
  BY <1>4 DEF Refused, Close
<1>5. ASSUME NEW p \in Procs, Shutdown(p)
      PROVE GaveUp'
  BY <1>5 DEF Shutdown, Close
<1>6. ASSUME NEW p \in Procs, Crash(p)
      PROVE GaveUp'
  BY <1>6 DEF Crash
<1>7. ASSUME NEW p \in Procs, SessionEnds(p) \/ ConnectionLost(p)
      PROVE GaveUp'
  BY <1>7 DEF SessionEnds, ConnectionLost
<1>8. ASSUME NEW p \in Procs, NEW w \in Writes, Ask(p, w)
      PROVE GaveUp'
  BY <1>8 DEF Ask, SetWrite
<1>9. ASSUME NEW p \in Procs, NEW w \in Writes, Pass(p, w) \/ Written(p, w)
      PROVE GaveUp'
  BY <1>9 DEF Pass, Written, SetWrite
<1>10. ASSUME NEW p \in Procs, NEW w \in Writes, Fail(p, w)
       PROVE GaveUp'
  <2>1. phase[p] = "up"
    BY <1>10 DEF Fail
  <2>2. \A q \in Procs, x \in Writes :
          write'[q][x] = "checking" => write[q][x] = "checking"
    BY <1>10 DEF Fail, SetWrite
  <2>3. active' \in [Procs -> BOOLEAN] /\ failed' \in [Procs -> BOOLEAN]
    BY <1>10 DEF Fail
  <2>4. \A q \in Procs : active'[q] => active[q] /\ q # p
    BY <1>10 DEF Fail
  <2>5. \A q \in Procs : q # p => failed'[q] = failed[q]
    BY <1>10 DEF Fail
  <2>6. QED
    BY <1>10, <2>1, <2>2, <2>3, <2>4, <2>5 DEF Fail
<1>11. QED
  BY <1>1, <1>2, <1>3, <1>4, <1>5, <1>6, <1>7, <1>8, <1>9, <1>10 DEF Next

\* Ownership lost is not taken again without a restart (execution_owner.py:52).
THEOREM LostForGoodHolds == MCSpec => LostForGood
<1>1. Init => Shape /\ GaveUp
  BY ShapeInit DEF Init, GaveUp
<1>2. Shape /\ GaveUp /\ [Next]_vars => (Shape /\ GaveUp)'
  BY ShapeStep, GaveUpStep
<1>3. Shape /\ GaveUp /\ [Next]_vars =>
        [\A p \in Procs : failed[p] /\ failed'[p] =>
           \A w \in Writes : write'[p][w] = "passed" => write[p][w] = "passed"]_vars
  <2> SUFFICES ASSUME Shape, GaveUp, Next,
                      NEW p \in Procs, failed[p], NEW w \in Writes,
                      write'[p][w] = "passed", failed'[p]
               PROVE  write[p][w] = "passed"
    BY DEF vars
  <2> USE DEF Shape, GaveUp
  <2>1. CASE Noticed
    BY <2>1 DEF Noticed
  <2>2. ASSUME NEW q \in Procs,
               \/ Start(q) \/ Acquire(q) \/ Refused(q) \/ Shutdown(q) \/ Crash(q)
               \/ SessionEnds(q) \/ ConnectionLost(q)
        PROVE write[p][w] = "passed"
    BY <2>2 DEF Start, Acquire, Refused, Shutdown, Crash, SessionEnds, ConnectionLost
  <2>3. ASSUME NEW q \in Procs, NEW x \in Writes,
               Ask(q, x) \/ Pass(q, x) \/ Fail(q, x) \/ Written(q, x)
        PROVE write[p][w] = "passed"
    BY <2>3 DEF Ask, Pass, Fail, Written, SetWrite
  <2>4. QED
    BY <2>1, <2>2, <2>3 DEF Next
<1>4. [MCNext]_desk => [Next]_vars
  BY Parts
<1>5. MCInit => Init
  BY DEF MCInit
<1>6. QED
  BY <1>1, <1>2, <1>3, <1>4, <1>5, PTL DEF MCSpec, LostForGood
-----------------------------------------------------------------------------
(* KiteSession: the adapter sends in the session of this moment, however   *)
(* logins, disconnects and connects overlap.                               *)

\* A login whose session was given up leaves the adapter alone, which must then
\* be right already: hence the property also while such a login is under way.
Clients ==
  /\ issued \in Nat
  /\ leaving = "none" /\ (login = "none" \/ session = Kite!NoToken)
       => client \in {Kite!NoToken, Kite!Token}

LEMMA InitClients == MCInit => Clients
BY DEF MCInit, Kite!Init, Clients, Kite!NoToken

LEMMA NextClients == Clients /\ [Kite!Next]_kite => Clients'
<1> SUFFICES ASSUME Clients, [Kite!Next]_kite PROVE Clients' OBVIOUS
<1> USE DEF Clients
<1>1. CASE Kite!Tick BY <1>1 DEF Kite!Tick, Kite!Connect, Kite!Token
<1>2. ASSUME NEW t \in checking, Kite!Answered(t) PROVE Clients'
  BY <1>2 DEF Kite!Answered, Kite!Token
<1>3. CASE Kite!Exchange
  <2>1. issued' \in Nat /\ session' # Kite!NoToken /\ login' # "none"
    BY <1>3 DEF Kite!Exchange, Kite!NoToken
  <2> QED BY <2>1
<1>4. CASE Kite!LoggedIn BY <1>4 DEF Kite!LoggedIn, Kite!Token
<1>5. CASE Kite!Invalidate \/ Kite!Forget BY <1>5 DEF Kite!Invalidate, Kite!Forget
<1>6. CASE Kite!Clear BY <1>6 DEF Kite!Clear, Kite!FreshAdapter
<1>7. CASE Kite!Start BY <1>7 DEF Kite!Start, Kite!Token
<1>8. CASE Kite!Stop BY <1>8 DEF Kite!Stop, Kite!FreshAdapter
<1>9. CASE Kite!Morning \/ UNCHANGED kite BY <1>9 DEF Kite!Morning, kite, Kite!Token
<1> QED BY <1>1, <1>2, <1>3, <1>4, <1>5, <1>6, <1>7, <1>8, <1>9 DEF Kite!Next

\* For any number of tokens: when no login and no disconnect is under way, no
\* order is sent with the token of a session that was replaced or given up.
THEOREM TradesInSessionHolds == MCSpec => []TradesInSession
<1>1. Clients => TradesInSession BY DEF Clients, TradesInSession, Kite!TradesInSession
<1>2. [MCNext]_desk => [Kite!Next]_kite
  BY Parts
<1>3. QED
  BY <1>1, <1>2, InitClients, NextClients, PTL DEF MCSpec

-----------------------------------------------------------------------------
(* LiveEvidence: a validation counts for the code it was made with.        *)

\* What the fingerprint says of a validation is what was validated.
Validated ==
  validation.good => mixed \/ validation.of = validation.print

\* A validation that lets orders out was made with the strategies that run and the
\* settings of the fingerprint that are in force, where the process runs the code
\* on the disk and did so when the validation was made.
THEOREM ValidatedWhatRunsHolds == MCSpec => []ValidatedWhatRuns
<1>1. MCInit => Validated
  BY DEF MCInit, Evidence!Init, Validated
<1>2. Validated /\ [MCNext]_desk => Validated'
  <2> SUFFICES ASSUME Validated, [Evidence!Next]_evidence PROVE Validated'
    BY Parts
  <2>1. CASE Evidence!Validate
    <3>1. PICK good \in BOOLEAN :
            validation' = [good |-> good, print |-> <<source.disk, settings>>,
                           of |-> <<source.loaded, settings>>]
      BY <2>1 DEF Evidence!Validate, Evidence!Fingerprint
    <3>2. mixed' \/ source.disk = source.loaded
      BY <2>1 DEF Evidence!Validate
    <3>3. QED
      BY <3>1, <3>2 DEF Validated
  <2>2. CASE ~Evidence!Validate
    BY <2>2 DEF Validated, Evidence!Next, Evidence!Deploy, Evidence!Restart,
                Evidence!Expire, evidence
  <2>3. QED
    BY <2>1, <2>2
<1>3. Validated => ValidatedWhatRuns
  BY DEF Validated, ValidatedWhatRuns, Evidence!ValidatedWhatRuns, Evidence!Approves,
         Evidence!Fingerprint, Evidence!Pending
<1>4. QED
  BY <1>1, <1>2, <1>3, PTL DEF MCSpec

-----------------------------------------------------------------------------
(* ChaosSuite: what a run of the suite replaces is put back.               *)

Injected(r) == Chaos!At(r, "judge") \/ Chaos!At(r, "remove")

\* As long as no two runs overlapped, what a run will put back is the process's
\* own broker, and it is the only run that has replaced it.
Patches ==
  /\ run = [r \in Runs |-> run[r]]
  /\ \A r \in Runs : run[r] = Chaos!Idle \/ DOMAIN run[r] = {"at", "left", "found"}
  /\ gateway = "real" \/ rebound
  /\ ~shared =>
       /\ \A r \in Runs : Injected(r) => binding = r /\ run[r].found = "real"
       /\ (\A r \in Runs : ~Injected(r)) => binding = "real"

LEMMA PatchesStep ==
  ASSUME "real" \notin Runs, Patches, [Chaos!Next]_chaos
  PROVE  Patches'
<1> USE DEF Patches, Injected, Chaos!At
<1>1. ASSUME NEW r \in Runs, NEW n, Chaos!Request(r, n)
      PROVE Patches'
  BY <1>1 DEF Chaos!Request, Chaos!Idle
<1>2. ASSUME NEW r \in Runs, Chaos!Inject(r)
      PROVE Patches'
  <2>1. run' = [run EXCEPT ![r] = [at |-> "judge", left |-> @.left - 1, found |-> binding]]
    BY <1>2 DEF Chaos!Inject
  <2>2. /\ run'[r].at = "judge" /\ run'[r].found = binding
        /\ DOMAIN run'[r] = {"at", "left", "found"}
        /\ \A q \in Runs \ {r} : run'[q] = run[q]
        /\ run' = [q \in Runs |-> run'[q]]
    BY <2>1
  <2>3. /\ binding' = r /\ shared' = (shared \/ binding # "real")
        /\ UNCHANGED <<gateway, rebound>>
    BY <1>2 DEF Chaos!Inject
  <2>4. ~shared' => \A q \in Runs : ~Injected(q)
    BY <2>3
  <2>5. QED
    BY <2>2, <2>3, <2>4
<1>3. ASSUME NEW r \in Runs, NEW s, Chaos!Move(r, s), run[r].at # "idle",
             run[r] # Chaos!Idle
      PROVE  /\ run'[r].at = s /\ run'[r].found = run[r].found
             /\ DOMAIN run'[r] = {"at", "left", "found"}
             /\ \A q \in Runs \ {r} : run'[q] = run[q]
             /\ run' = [q \in Runs |-> run'[q]]
  <2>1. run' = [run EXCEPT ![r].at = s]
    BY <1>3 DEF Chaos!Move
  <2>2. run'[r] = [run[r] EXCEPT !.at = s]
    BY <2>1
  <2>3. DOMAIN run[r] = {"at", "left", "found"}
    BY <1>3
  <2>4. QED
    BY <2>1, <2>2, <2>3
<1>4. ASSUME NEW r \in Runs, Chaos!Judge(r)
      PROVE Patches'
  <2>1. Chaos!At(r, "judge") /\ Chaos!Move(r, "remove")
    BY <1>4 DEF Chaos!Judge
  <2>2. run[r] # Chaos!Idle
    BY <2>1 DEF Chaos!Idle
  <2>3. UNCHANGED <<binding, engine, gateway, mode, shared, rebound>>
    BY <1>4 DEF Chaos!Judge
  <2>4. QED
    BY <2>1, <2>2, <2>3, <1>3
<1>5. ASSUME NEW r \in Runs, Chaos!Remove(r)
      PROVE Patches'
  <2>1. Chaos!At(r, "remove") /\ Chaos!Move(r, "next") /\ binding' = run[r].found
    BY <1>5 DEF Chaos!Remove
  <2>2. run[r] # Chaos!Idle
    BY <2>1 DEF Chaos!Idle
  <2>3. UNCHANGED <<engine, gateway, mode, shared, rebound>>
    BY <1>5 DEF Chaos!Remove
  <2>4. QED
    BY <2>1, <2>2, <2>3, <1>3
<1>6. ASSUME NEW r \in Runs, Chaos!Finish(r)
      PROVE Patches'
  BY <1>6 DEF Chaos!Finish, Chaos!Idle
<1>7. ASSUME Chaos!Relogin \/ \E m \in {"paper", "shadow"} : Chaos!SetMode(m)
      PROVE Patches'
  BY <1>7 DEF Chaos!Relogin, Chaos!SetMode, Chaos!Refresh
<1>8. CASE Chaos!Restart
  BY <1>8 DEF Chaos!Restart, Chaos!Idle
<1>9. CASE UNCHANGED chaos
  BY <1>9 DEF chaos
<1>10. QED
  BY <1>1, <1>2, <1>4, <1>5, <1>6, <1>7, <1>8, <1>9 DEF Chaos!Next

\* For any number of runs and scenarios: when nothing is injected the process
\* has its own broker again, unless two runs overlapped, and the gateway's engine
\* has another only if it last asked for one under an injection.
THEOREM PatchesRemovedHolds == ASSUME "real" \notin Runs PROVE MCSpec => []PatchesRemoved
<1>1. MCInit => Patches
  BY DEF MCInit, Chaos!Init, Patches, Injected, Chaos!At, Chaos!Idle
<1>2. Patches /\ [MCNext]_desk => Patches'
  BY Parts, PatchesStep
<1>3. Patches => PatchesRemoved
  BY DEF Patches, Injected, PatchesRemoved, Chaos!PatchesRemoved, Chaos!Quiet
<1>4. QED
  BY <1>1, <1>2, <1>3, PTL DEF MCSpec

-----------------------------------------------------------------------------
(* StressReport: what an approval says of the suite, however long it is.   *)

LEMMA RoundedDown ==
  ASSUME NEW a \in Int, NEW b \in Int, b > 0
  PROVE  Stress!Rounded(a, b) \in Int /\ 2 * b * Stress!Rounded(a, b) <= 2 * a + b
<1> DEFINE x == 2 * a + b
           y == 2 * b
<1>1. x \in Int /\ y \in Int /\ y > 0
  OBVIOUS
<1> HIDE DEF x, y
<1>2. (x \div y) * y <= x /\ x \div y \in Int
  BY <1>1, SMT
<1>3. QED
  BY <1>2 DEF Stress!Rounded, x, y

\* What is generated, of the whole suite.
Reported ==
  report # Stress!NoFile /\ report.full =>
    /\ report.size = ReportSize
    /\ {report.safe, report.consistent, report.passed, report.denied} \subseteq 0..ReportSize
    /\ report.safe <= report.consistent

\* A score is at most what the safe, the denied and the passed scenarios give.
LEMMA ScoreBound ==
  ASSUME ReportSize \in Nat, ReportSize > 0, Reported, report # Stress!NoFile,
         report.full, report.safe = ReportSize, Stress!Score(report) >= 90
  PROVE  1000 * (report.denied + report.passed) >= 1579 * ReportSize
<1> DEFINE n == ReportSize
           p(x) == Stress!Percent(x, n)
           sum == 35 * p(n) + 25 * p(report.denied) + 25 * p(report.passed) + 15 * (1000 - p(0))
<1>1. n \in Int /\ n > 0 /\ report.denied \in Int /\ report.passed \in Int
      /\ report.size = n /\ report.consistent = n /\ report.safe = n
  BY DEF Reported
<1>2. \A x \in Int : p(x) \in Int /\ 2 * n * p(x) <= 2000 * x + n
  <2> SUFFICES ASSUME NEW x \in Int PROVE p(x) \in Int /\ 2 * n * p(x) <= 2000 * x + n
    OBVIOUS
  <2>1. p(x) = Stress!Rounded(1000 * x, n)
    BY DEF Stress!Percent
  <2> HIDE DEF p, n
  <2>2. \A a \in Int : Stress!Rounded(a, n) \in Int /\ 2 * n * Stress!Rounded(a, n) <= 2 * a + n
    BY <1>1, RoundedDown
  <2>3. 1000 * x \in Int /\ 2 * (1000 * x) = 2000 * x
    OBVIOUS
  <2>4. p(x) \in Int /\ 2 * n * p(x) <= 2 * (1000 * x) + n
    BY <2>1, <2>2, <2>3
  <2>5. QED
    BY <2>3, <2>4
<1>3. p(n) <= 1000 /\ p(0) = 0
  <2>1. p(n) \in Int /\ 2 * n * p(n) <= 2000 * n + n
    BY <1>1, <1>2
  <2>2. p(n) <= 1000
    BY <1>1, <2>1, SMT
  <2>3. p(0) = 0
    BY <1>1, SMT DEF Stress!Percent, Stress!Rounded
  <2>4. QED
    BY <2>2, <2>3
<1>4. Stress!Score(report) = Stress!Rounded(sum, 1000)
  <2>1. report.size - report.consistent = 0
    BY <1>1
  <2>2. QED
    BY <1>1, <2>1 DEF Stress!Score
<1>5. sum \in Int /\ 2000 * Stress!Rounded(sum, 1000) <= 2 * sum + 1000
      /\ Stress!Rounded(sum, 1000) \in Int
  <2>1. {p(n), p(report.denied), p(report.passed), p(0)} \subseteq Int
    BY <1>1, <1>2
  <2>2. sum \in Int
    BY <2>1
  <2> HIDE DEF sum
  <2>3. QED
    BY <2>2, SMT DEF Stress!Rounded
<1>6. p(report.denied) + p(report.passed) >= 1580
  <2>1. {p(n), p(report.denied), p(report.passed)} \subseteq Int
    BY <1>1, <1>2
  <2>2. sum >= 89500
    BY <1>4, <1>5
  <2>3. QED
    BY <1>3, <2>1, <2>2
<1>7. QED
  <2>1. /\ p(report.denied) \in Int /\ 2 * n * p(report.denied) <= 2000 * report.denied + n
        /\ p(report.passed) \in Int /\ 2 * n * p(report.passed) <= 2000 * report.passed + n
    BY <1>1, <1>2
  <2> HIDE DEF p, n
  <2>2. 1000 * (report.denied + report.passed) >= 1579 * n
    BY <1>1, <1>6, <2>1, SMT
  <2>3. QED
    BY <2>2 DEF n

\* For a suite of any length: a report that lets live trading pass was earned.
THEOREM ApprovalEarnedHolds ==
  ASSUME ReportSize \in Nat, ReportSize > 0
  PROVE  MCSpec => []ApprovalEarned
<1>1. MCInit => Reported
  BY DEF MCInit, Stress!Init, Reported
<1>2. Reported /\ [MCNext]_desk => Reported'
  <2> SUFFICES ASSUME Reported, [Stress!Next]_stress PROVE Reported'
    BY Parts
  <2>1. ASSUME NEW n, Stress!Suite(n)
        PROVE Reported'
    <3>1. PICK s, c, p, d \in 0..n :
            /\ p <= s /\ s <= c
            /\ report' = [size |-> n, full |-> n = ReportSize, safe |-> s,
                          consistent |-> c, passed |-> p, denied |-> d]
      BY <2>1 DEF Stress!Suite
    <3>2. report'.full => n = ReportSize
      BY <3>1
    <3>3. /\ report'.size = n /\ report'.safe = s /\ report'.consistent = c
          /\ report'.passed = p /\ report'.denied = d
      BY <3>1
    <3>4. QED
      BY <3>1, <3>2, <3>3 DEF Reported
  <2>2. CASE Stress!Torn \/ Stress!Expire \/ UNCHANGED stress
    BY <2>2 DEF Stress!Torn, Stress!Expire, stress, Reported
  <2>3. QED
    BY <2>1, <2>2 DEF Stress!Next
<1>3. Reported => ApprovalEarned
  <2> SUFFICES ASSUME Reported, Stress!Approves
               PROVE  /\ report.size = ReportSize /\ report.safe = ReportSize
                      /\ 1000 * (report.denied + report.passed) >= 1579 * ReportSize
    BY DEF ApprovalEarned, Stress!ApprovalEarned
  <2>1. report # Stress!NoFile /\ report.full /\ Stress!SafeForLiveCapital(report)
    BY DEF Stress!Approves
  <2>2. report.size = ReportSize /\ report.safe \in 0..ReportSize
    BY <2>1 DEF Reported
  <2>3. report.safe = ReportSize /\ Stress!Score(report) >= 90
    BY <2>1, <2>2 DEF Stress!SafeForLiveCapital, Stress!Unsafe
  <2>4. QED
    BY <2>1, <2>2, <2>3, ScoreBound
<1>4. QED
  BY <1>1, <1>2, <1>3, PTL DEF MCSpec

-----------------------------------------------------------------------------
(* Governance: what is in force is what the next process will load.        *)

States == Asked \cup {"ACTIVE", "DISABLED"}
Stores == States \cup {Strategies!Missing}
Ops    == {"gate", "good", "bad", "set"}
Jobs   ==
  {Strategies!NoJob} \cup [pc : {"load"}, op : Ops, new : States]
    \cup [pc : {"loaded"}, op : Ops, new : States, got : Stores]
    \cup [pc : {"redis"}, op : Ops, new : States]

RecordsOK ==
  /\ record \in States /\ loaded \in BOOLEAN /\ redisOn \in BOOLEAN
  /\ kept \in [memory : Stores, file : Stores, redis : Stores]
  /\ job \in [Callers -> Jobs]

Saves(c) == job[c].pc = "redis"

\* Without a fault: the file has what is in force, or will be; Redis has it too
\* or has nothing, when no save is under way; and as long as nothing is loaded,
\* a load has found what is there.
Keeping ==
  /\ loaded => Strategies!Stored(kept.file) = record
  /\ (\A c \in Callers : ~Saves(c)) =>
       kept.redis \in {Strategies!Missing, Strategies!Stored(kept.file)}
  /\ ~loaded =>
       /\ kept.memory = Strategies!Missing
       /\ \A c \in Callers : ~Saves(c)
       /\ \A c \in Callers : job[c].pc = "loaded" =>
            job[c].got \in {Strategies!Missing, Strategies!Stored(kept.file)}
  /\ killed => Strategies!Stored(kept.file) = "KILLED"

Governed == RecordsOK /\ (faulty \/ Keeping)

\* What an outcome, a request or a gate makes of a record.
LEMMA Effects ==
  ASSUME NEW j, NEW s \in States, j.op \in Ops, j.new \in States
  PROVE  /\ Strategies!Effect(j, s) \in States
         /\ ~Strategies!Saving(j, s) => Strategies!Effect(j, s) = s
         /\ s = "KILLED" => Strategies!Effect(j, s) = "KILLED"
<1>1. CASE j.op = "set" /\ s # "KILLED"
  BY <1>1 DEF Strategies!Effect, Strategies!Saving
<1>2. CASE j.op = "bad" /\ s = "ACTIVE"
  BY <1>2 DEF Strategies!Effect, Strategies!Saving, States
<1>3. CASE ~(j.op = "set" /\ s # "KILLED") /\ ~(j.op = "bad" /\ s = "ACTIVE")
  <2>1. Strategies!Effect(j, s) = s
    BY <1>3 DEF Strategies!Effect
  <2>2. QED
    BY <2>1
<1>4. QED
  BY <1>1, <1>2, <1>3

LEMMA StoredIn ==
  ASSUME NEW s \in Stores
  PROVE  Strategies!Stored(s) \in States
BY DEF Strategies!Stored, Stores, States

\* A caller acts on what is in force, or on what its load has found.
LEMMA ActKeeps ==
  ASSUME "missing" \notin Asked, Governed,
         NEW c \in Callers, NEW j, NEW s \in States, NEW m \in Stores, NEW raced0 \in BOOLEAN,
         ~Saves(c), j.op \in Ops, j.new \in States,
         Strategies!Act(c, j, s, [kept EXCEPT !.memory = m], raced0),
         UNCHANGED <<redisOn, killed>>,
         raced0 \/ faulty \/ s = Strategies!Stored(kept.file)
  PROVE  Governed'
<1> DEFINE new == Strategies!Effect(j, s)
<1>1. /\ new \in States /\ (~Strategies!Saving(j, s) => new = s)
      /\ (s = "KILLED" => new = "KILLED")
  BY Effects
<1>2. record' = new /\ loaded' = TRUE
  BY DEF Strategies!Act
<1>3. kept \in [memory : Stores, file : Stores, redis : Stores]
      /\ job \in [Callers -> Jobs] /\ Strategies!Missing \in Stores /\ States \subseteq Stores
      /\ Strategies!NoJob \in Jobs
  BY DEF Governed, RecordsOK, Stores, Jobs
<1>4. redisOn' \in BOOLEAN /\ loaded' \in BOOLEAN /\ record' \in States
  BY <1>1, <1>2 DEF Governed, RecordsOK
<1> HIDE DEF new
<1>5. CASE ~Strategies!Saving(j, s) /\ kept' = [kept EXCEPT !.memory = m]
           /\ faulty' = (faulty \/ raced0) /\ job' = [job EXCEPT ![c] = Strategies!NoJob]
  <2>1. kept'.file = kept.file /\ kept'.redis = kept.redis
        /\ kept' \in [memory : Stores, file : Stores, redis : Stores]
    BY <1>3, <1>5
  <2>2. job' \in [Callers -> Jobs] /\ job'[c] = Strategies!NoJob
        /\ \A d \in Callers \ {c} : job'[d] = job[d]
    BY <1>3, <1>5
  <2>3. \A d \in Callers : Saves(d)' <=> Saves(d)
    BY <2>2 DEF Saves, Strategies!NoJob
  <2>4. RecordsOK'
    BY <1>4, <2>1, <2>2 DEF RecordsOK
  <2>5. ASSUME ~faulty'
        PROVE Keeping'
    <3>1. Keeping /\ s = Strategies!Stored(kept.file)
      BY <1>5, <2>5 DEF Governed
    <3>2. record' = Strategies!Stored(kept.file)
      BY <1>1, <1>2, <1>5, <3>1
    <3>3. QED
      BY <1>2, <2>1, <2>3, <3>1, <3>2 DEF Keeping, Strategies!Stored
  <2>6. QED
    BY <2>4, <2>5 DEF Governed
<1>6. CASE /\ kept' = [[kept EXCEPT !.memory = m] EXCEPT !.memory = new, !.file = new]
           /\ faulty' = (faulty \/ raced0)
           /\ job' = [job EXCEPT ![c] = [pc |-> "redis", op |-> j.op, new |-> new]]
  <2>1. kept'.file = new /\ kept' \in [memory : Stores, file : Stores, redis : Stores]
    BY <1>1, <1>3, <1>6
  <2>2. [pc |-> "redis", op |-> j.op, new |-> new] \in Jobs
    BY <1>1 DEF Jobs
  <2>3. job' \in [Callers -> Jobs] /\ job'[c].pc = "redis"
    BY <1>3, <1>6, <2>2
  <2>4. RecordsOK'
    BY <1>4, <2>1, <2>3 DEF RecordsOK
  <2>5. Saves(c)'
    BY <2>3 DEF Saves
  <2>6. Strategies!Stored(new) = new
    BY <1>1 DEF Strategies!Stored, States, Strategies!Missing
  <2>7. ASSUME ~faulty', killed'
        PROVE new = "KILLED"
    BY <1>1, <1>6, <2>7 DEF Governed, Keeping
  <2>8. ASSUME ~faulty'
        PROVE Keeping'
    BY <1>2, <2>1, <2>5, <2>6, <2>7, <2>8 DEF Keeping, Strategies!Stored
  <2>9. QED
    BY <2>4, <2>8 DEF Governed
<1>7. CASE /\ kept' = [[kept EXCEPT !.memory = m] EXCEPT !.memory = new, !.file = Strategies!Missing]
           /\ faulty' = TRUE
           /\ job' = [job EXCEPT ![c] = Strategies!NoJob]
  BY <1>1, <1>3, <1>4, <1>7 DEF Governed, RecordsOK
<1>8. QED
  BY <1>5, <1>6, <1>7 DEF Strategies!Act, new

LEMMA GovernedStep ==
  ASSUME "missing" \notin Asked, Governed, [Strategies!Next]_strategies
  PROVE  Governed'
<1>1. ASSUME NEW c \in Callers, Strategies!Call(c)
      PROVE Governed'
  <2>1. job[c] = Strategies!NoJob /\ ~Saves(c) /\ UNCHANGED <<redisOn, killed>>
    BY <1>1 DEF Strategies!Call, Saves, Strategies!NoJob
  <2>2. PICK r \in Strategies!Requests :
          IF loaded THEN Strategies!Act(c, r, record, kept, FALSE)
          ELSE /\ job' = [job EXCEPT ![c] = [pc |-> "load", op |-> r.op, new |-> r.new]]
               /\ UNCHANGED <<record, loaded, kept, faulty>>
    BY <1>1 DEF Strategies!Call
  <2>3. r.op \in Ops /\ r.new \in States
    BY DEF Strategies!Requests, Ops, States
  <2>4. CASE loaded
    <3>1. kept.memory \in Stores /\ [kept EXCEPT !.memory = kept.memory] = kept
          /\ record \in States
      BY DEF Governed, RecordsOK
    <3>2. faulty \/ record = Strategies!Stored(kept.file)
      BY <2>4 DEF Governed, Keeping
    <3>3. Strategies!Act(c, r, record, [kept EXCEPT !.memory = kept.memory], FALSE)
      BY <2>2, <2>4, <3>1
    <3>4. QED
      BY <2>1, <2>3, <3>1, <3>2, <3>3, ActKeeps
  <2>5. CASE ~loaded
    <3>1. [pc |-> "load", op |-> r.op, new |-> r.new] \in Jobs
      BY <2>3 DEF Jobs
    <3>2. /\ job' \in [Callers -> Jobs] /\ job'[c].pc = "load"
          /\ \A d \in Callers \ {c} : job'[d] = job[d]
      BY <2>2, <2>5, <3>1 DEF Governed, RecordsOK
    <3>3. \A d \in Callers : Saves(d)' <=> Saves(d)
      BY <2>1, <3>2 DEF Saves
    <3>4. UNCHANGED <<record, loaded, kept, faulty, redisOn, killed>>
      BY <2>1, <2>2, <2>5
    <3>5. QED
      BY <3>2, <3>3, <3>4 DEF Governed, RecordsOK, Keeping, Strategies!Stored
  <2>6. QED
    BY <2>4, <2>5
<1>2. ASSUME NEW c \in Callers, Strategies!LoadRead(c)
      PROVE Governed'
  <2> DEFINE got == IF redisOn THEN kept.redis ELSE Strategies!Missing
             j == [pc |-> "loaded", op |-> job[c].op, new |-> job[c].new, got |-> got]
  <2>1. job[c].pc = "load" /\ job' = [job EXCEPT ![c] = j]
        /\ UNCHANGED <<record, loaded, kept, redisOn, killed, faulty>>
    BY <1>2 DEF Strategies!LoadRead
  <2>2. job \in [Callers -> Jobs]
    BY DEF Governed, RecordsOK
  <2>3. job[c].op \in Ops /\ job[c].new \in States
    BY <2>1, <2>2 DEF Jobs, Strategies!NoJob
  <2>4. got \in Stores /\ got \in {Strategies!Missing, kept.redis}
    BY DEF Governed, RecordsOK, Stores
  <2>5. j \in Jobs
    BY <2>3, <2>4 DEF Jobs
  <2>6. /\ job' \in [Callers -> Jobs] /\ job'[c].pc = "loaded" /\ job'[c].got = got
        /\ \A d \in Callers \ {c} : job'[d] = job[d]
    BY <2>1, <2>2, <2>5
  <2> HIDE DEF got, j
  <2>7. \A d \in Callers : Saves(d)' <=> Saves(d)
    BY <2>1, <2>6 DEF Saves
  <2>8. RecordsOK'
    BY <2>1, <2>6 DEF Governed, RecordsOK
  <2>9. ASSUME Keeping PROVE Keeping'
    BY <2>1, <2>4, <2>6, <2>7, <2>9 DEF Keeping, Strategies!Stored
  <2>10. QED
    BY <2>1, <2>8, <2>9 DEF Governed
<1>3. ASSUME NEW c \in Callers, Strategies!LoadApply(c)
      PROVE Governed'
  <2> DEFINE s == Strategies!Found(job[c].got)
  <2>1. /\ job[c].pc = "loaded" /\ UNCHANGED <<redisOn, killed>>
        /\ Strategies!Act(c, job[c], Strategies!Stored(s), [kept EXCEPT !.memory = s],
                          loaded /\ Strategies!Stored(s) # record)
    BY <1>3 DEF Strategies!LoadApply
  <2>2. job[c] \in Jobs /\ kept \in [memory : Stores, file : Stores, redis : Stores]
        /\ loaded \in BOOLEAN
    BY DEF Governed, RecordsOK
  <2>3. job[c].op \in Ops /\ job[c].new \in States /\ job[c].got \in Stores /\ ~Saves(c)
    BY <2>1, <2>2 DEF Jobs, Strategies!NoJob, Saves
  <2>4. s \in Stores
    BY <2>2, <2>3 DEF Strategies!Found
  <2>5. Strategies!Stored(s) \in States
    BY <2>4, StoredIn
  <2>6. \/ loaded /\ Strategies!Stored(s) # record
        \/ faulty
        \/ Strategies!Stored(s) = Strategies!Stored(kept.file)
    <3>1. CASE loaded
      BY <3>1 DEF Governed, Keeping
    <3>2. CASE ~loaded /\ ~faulty
      <4>1. kept.memory = Strategies!Missing
            /\ job[c].got \in {Strategies!Missing, Strategies!Stored(kept.file)}
        BY <2>1, <3>2 DEF Governed, Keeping
      <4>2. QED
        BY <4>1 DEF Strategies!Found, Strategies!Stored, Strategies!Missing
    <3>3. QED
      BY <3>1, <3>2
  <2> HIDE DEF s
  <2>7. (loaded /\ Strategies!Stored(s) # record) \in BOOLEAN
    OBVIOUS
  <2>8. QED
    BY <2>1, <2>3, <2>4, <2>5, <2>6, <2>7, ActKeeps
<1>4. ASSUME NEW c \in Callers, Strategies!WriteRedis(c)
      PROVE Governed'
  <2>1. /\ job[c].pc = "redis" /\ job' = [job EXCEPT ![c] = Strategies!NoJob]
        /\ kept' = (IF redisOn THEN [kept EXCEPT !.redis = job[c].new] ELSE kept)
        /\ faulty' = (faulty \/ ~redisOn \/ job[c].new # record)
        /\ killed' = (killed \/ (job[c].op = "set" /\ job[c].new = "KILLED"))
        /\ UNCHANGED <<record, loaded, redisOn>>
    BY <1>4 DEF Strategies!WriteRedis
  <2>2. job \in [Callers -> Jobs] /\ kept \in [memory : Stores, file : Stores, redis : Stores]
    BY DEF Governed, RecordsOK
  <2>3. job[c].new \in States
    BY <2>1, <2>2 DEF Jobs, Strategies!NoJob
  <2>4. kept' \in [memory : Stores, file : Stores, redis : Stores]
        /\ kept'.memory = kept.memory /\ kept'.file = kept.file
        /\ (redisOn => kept'.redis = job[c].new)
    BY <2>1, <2>2, <2>3 DEF Stores
  <2>5. job' \in [Callers -> Jobs]
    BY <2>1, <2>2 DEF Jobs
  <2>6. RecordsOK'
    BY <2>1, <2>4, <2>5 DEF Governed, RecordsOK
  <2>7. ASSUME ~faulty' PROVE Keeping'
    <3>1. redisOn /\ job[c].new = record /\ Keeping
      BY <2>1, <2>7 DEF Governed
    <3>2. loaded /\ Strategies!Stored(kept.file) = record
      BY <2>1, <3>1 DEF Keeping, Saves
    <3>3. QED
      BY <2>1, <2>4, <3>1, <3>2 DEF Keeping, Strategies!Stored
  <2>8. QED
    BY <2>6, <2>7 DEF Governed
<1>5. CASE Strategies!Redis
  <2>1. /\ redisOn' = ~redisOn /\ kept' \in {kept, [kept EXCEPT !.redis = Strategies!Missing]}
        /\ UNCHANGED <<record, loaded, job, killed, faulty>>
    BY <1>5 DEF Strategies!Redis
  <2>2. kept' \in [memory : Stores, file : Stores, redis : Stores]
        /\ kept'.memory = kept.memory /\ kept'.file = kept.file
        /\ kept'.redis \in {kept.redis, Strategies!Missing}
    BY <2>1 DEF Governed, RecordsOK, Stores
  <2>3. \A d \in Callers : Saves(d)' <=> Saves(d)
    BY <2>1 DEF Saves
  <2>4. RecordsOK'
    BY <2>1, <2>2 DEF Governed, RecordsOK
  <2>5. ASSUME Keeping PROVE Keeping'
    BY <2>1, <2>2, <2>3, <2>5 DEF Keeping, Strategies!Stored
  <2>6. QED
    BY <2>1, <2>4, <2>5 DEF Governed
<1>6. CASE Strategies!Crash
  <2>1. /\ record' = "ACTIVE" /\ loaded' = FALSE /\ UNCHANGED <<redisOn, killed>>
        /\ kept' = [kept EXCEPT !.memory = Strategies!Missing]
        /\ faulty' = (faulty \/ \E c \in Callers : job[c].pc = "redis")
        /\ job' = [c \in Callers |-> Strategies!NoJob]
    BY <1>6 DEF Strategies!Crash
  <2>2. kept' \in [memory : Stores, file : Stores, redis : Stores]
        /\ kept'.memory = Strategies!Missing /\ kept'.file = kept.file
        /\ kept'.redis = kept.redis
    BY <2>1 DEF Governed, RecordsOK, Stores
  <2>3. job' \in [Callers -> Jobs] /\ \A d \in Callers : job'[d].pc = "idle"
    BY <2>1 DEF Jobs, Strategies!NoJob
  <2>4. RecordsOK'
    BY <2>1, <2>2, <2>3 DEF Governed, RecordsOK, States
  <2>5. ASSUME ~faulty' PROVE Keeping'
    <3>1. Keeping /\ \A c \in Callers : ~Saves(c)
      BY <2>1, <2>5 DEF Governed, Saves
    <3>2. QED
      BY <2>1, <2>2, <2>3, <3>1 DEF Keeping, Strategies!Stored, Saves
  <2>6. QED
    BY <2>4, <2>5 DEF Governed
<1>7. CASE UNCHANGED strategies
  <2>1. UNCHANGED <<record, loaded, kept, redisOn, job, killed, faulty>>
    BY <1>7 DEF strategies
  <2>2. QED
    BY <2>1 DEF Governed, RecordsOK, Keeping, Strategies!Stored, Saves
<1>8. QED
  BY <1>1, <1>2, <1>3, <1>4, <1>5, <1>6, <1>7 DEF Strategies!Next

LEMMA GovernedAlways == ASSUME "missing" \notin Asked PROVE MCSpec => []Governed
<1>1. MCInit => Governed
  <2> SUFFICES ASSUME Strategies!Init PROVE Governed
    BY DEF MCInit
  <2>1. Strategies!NoJob \in Jobs /\ Strategies!NoJob.pc = "idle"
    BY DEF Jobs, Strategies!NoJob
  <2>2. job \in [Callers -> Jobs] /\ \A c \in Callers : job[c].pc = "idle"
    BY <2>1 DEF Strategies!Init
  <2>3. RecordsOK
    BY <2>2 DEF Strategies!Init, RecordsOK, States, Stores
  <2>4. Keeping
    BY <2>2 DEF Strategies!Init, Keeping, Saves, Strategies!Stored
  <2>5. QED
    BY <2>3, <2>4 DEF Governed
<1>2. Governed /\ [MCNext]_desk => Governed'
  BY Parts, GovernedStep
<1>3. QED
  BY <1>1, <1>2, PTL DEF MCSpec

\* For any number of callers, and whatever they ask for: a strategy whose kill
\* was answered does not trade again, unless Redis missed a save, only half of the
\* file was written, or two callers loaded at once (faulty).
THEOREM KilledStaysHolds == ASSUME "missing" \notin Asked PROVE MCSpec => []KilledStays
<1>1. Governed => KilledStays
  BY DEF Governed, Keeping, KilledStays, Strategies!KilledStays, Strategies!Allowed,
         Strategies!Tradeable
<1>2. QED
  BY <1>1, GovernedAlways, PTL

\* For the same: what is in force is what the next process will load.
THEOREM RestartKeepsHolds == ASSUME "missing" \notin Asked PROVE MCSpec => []RestartKeeps
<1>1. Governed => RestartKeeps
  BY DEF Governed, Keeping, Saves, RestartKeeps, Strategies!RestartKeeps, Strategies!NoJob
<1>2. QED
  BY <1>1, GovernedAlways, PTL

-----------------------------------------------------------------------------
(* ShadowTrading: every simulated fill is a trade or a position.           *)

Lines == [kind : {"entry", "exit"}, symbol : Names]

\* The engine holds what the file says, and the file balances.
Counted ==
  /\ events \in Seq(Lines)
  /\ IsFiniteSet(Shadow!Entries) /\ IsFiniteSet(Shadow!Exits) /\ IsFiniteSet(Shadow!Replayed)
  /\ Cardinality(Shadow!Entries) = Cardinality(Shadow!Exits) + Cardinality(Shadow!Replayed)
  /\ trading = "up" => held = Shadow!Replayed

\* Shadow has its own copy of Cardinality.
LEMMA SameCardinality == \A S : Shadow!Cardinality(S) = Cardinality(S)
BY Zenon DEF Shadow!Cardinality, Cardinality

LEMMA OneMore ==
  ASSUME Counted, NEW s \in Names, NEW k \in {"entry", "exit"},
         events' = Append(events, [kind |-> k, symbol |-> s])
  PROVE  LET n == Len(events) + 1 IN
         /\ events' \in Seq(Lines) /\ n \notin DOMAIN events
         /\ DOMAIN events' = DOMAIN events \cup {n}
         /\ events'[n] = [kind |-> k, symbol |-> s]
         /\ \A i \in DOMAIN events : i < n /\ events'[i] = events[i]
BY DEF Counted, Lines

LEMMA Entered ==
  ASSUME Counted, NEW s \in Names, s \notin Shadow!Replayed,
         events' = Append(events, Shadow!Entry(s)), trading = "up",
         held' = held \cup {s}
  PROVE  Counted'
<1> DEFINE n == Len(events) + 1
<1>1. /\ events' \in Seq(Lines) /\ n \notin DOMAIN events
      /\ DOMAIN events' = DOMAIN events \cup {n}
      /\ events'[n] = [kind |-> "entry", symbol |-> s]
      /\ \A i \in DOMAIN events : i < n /\ events'[i] = events[i]
  BY OneMore DEF Shadow!Entry
<1>2. Shadow!Entries' = Shadow!Entries \cup {n} /\ n \notin Shadow!Entries
  BY <1>1 DEF Shadow!Entries
<1>3. Shadow!Exits' = Shadow!Exits
  BY <1>1 DEF Shadow!Exits
<1>4. Shadow!Replayed' = Shadow!Replayed \cup {s}
  <2>1. \A t : events'[n] # Shadow!Exit(t)
    BY <1>1 DEF Shadow!Exit
  <2>2. \A t : events'[n] = Shadow!Entry(t) <=> t = s
    BY <1>1 DEF Shadow!Entry
  <2>3. QED
    BY <1>1, <2>1, <2>2 DEF Shadow!Replayed
<1>5. {Cardinality(Shadow!Entries), Cardinality(Shadow!Exits), Cardinality(Shadow!Replayed)} \subseteq Nat
  BY FS_CardinalityType DEF Counted
<1>6. IsFiniteSet(Shadow!Entries)' /\ Cardinality(Shadow!Entries)' = Cardinality(Shadow!Entries) + 1
  BY <1>2, FS_AddElement DEF Counted
<1>7. IsFiniteSet(Shadow!Replayed)' /\ Cardinality(Shadow!Replayed)' = Cardinality(Shadow!Replayed) + 1
  BY <1>4, FS_AddElement DEF Counted
<1>8. IsFiniteSet(Shadow!Exits)' /\ Cardinality(Shadow!Exits)' = Cardinality(Shadow!Exits)
  BY <1>3 DEF Counted
<1>9. Cardinality(Shadow!Entries)' = Cardinality(Shadow!Exits)' + Cardinality(Shadow!Replayed)'
  BY <1>5, <1>6, <1>7, <1>8 DEF Counted
<1>10. held' = Shadow!Replayed'
  BY <1>4 DEF Counted
<1>11. QED
  BY <1>1, <1>6, <1>7, <1>8, <1>9, <1>10 DEF Counted

LEMMA Exited ==
  ASSUME Counted, NEW s \in Names, s \in Shadow!Replayed,
         events' = Append(events, Shadow!Exit(s)), trading = "up",
         held' = held \ {s}
  PROVE  Counted'
<1> DEFINE n == Len(events) + 1
<1>1. /\ events' \in Seq(Lines) /\ n \notin DOMAIN events
      /\ DOMAIN events' = DOMAIN events \cup {n}
      /\ events'[n] = [kind |-> "exit", symbol |-> s]
      /\ \A i \in DOMAIN events : i < n /\ events'[i] = events[i]
  BY OneMore DEF Shadow!Exit
<1>2. Shadow!Entries' = Shadow!Entries
  BY <1>1 DEF Shadow!Entries
<1>3. Shadow!Exits' = Shadow!Exits \cup {n} /\ n \notin Shadow!Exits
  BY <1>1 DEF Shadow!Exits
<1>4. Shadow!Replayed' = Shadow!Replayed \ {s}
  <2>1. \A t : events'[n] # Shadow!Entry(t)
    BY <1>1 DEF Shadow!Entry
  <2>2. \A t : events'[n] = Shadow!Exit(t) <=> t = s
    BY <1>1 DEF Shadow!Exit
  <2>3. QED
    BY <1>1, <2>1, <2>2 DEF Shadow!Replayed
<1>5. {Cardinality(Shadow!Entries), Cardinality(Shadow!Exits), Cardinality(Shadow!Replayed)} \subseteq Nat
  BY FS_CardinalityType DEF Counted
<1>6. IsFiniteSet(Shadow!Exits)' /\ Cardinality(Shadow!Exits)' = Cardinality(Shadow!Exits) + 1
  BY <1>3, FS_AddElement DEF Counted
<1>7. IsFiniteSet(Shadow!Replayed)' /\ Cardinality(Shadow!Replayed)' = Cardinality(Shadow!Replayed) - 1
  BY <1>4, FS_RemoveElement DEF Counted
<1>8. IsFiniteSet(Shadow!Entries)' /\ Cardinality(Shadow!Entries)' = Cardinality(Shadow!Entries)
  BY <1>2 DEF Counted
<1>9. Cardinality(Shadow!Entries)' = Cardinality(Shadow!Exits)' + Cardinality(Shadow!Replayed)'
  BY <1>5, <1>6, <1>7, <1>8 DEF Counted
<1>10. held' = Shadow!Replayed'
  BY <1>4 DEF Counted
<1>11. QED
  BY <1>1, <1>6, <1>7, <1>8, <1>9, <1>10 DEF Counted

LEMMA CountedStep ==
  ASSUME Counted, [Shadow!Next]_shadow
  PROVE  Counted'
<1>1. ASSUME NEW s \in Names, Shadow!Simulate(s)
      PROVE Counted'
  BY <1>1, Entered DEF Shadow!Simulate, Counted
<1>2. ASSUME NEW s \in Names, Shadow!Close(s)
      PROVE Counted'
  BY <1>2, Exited DEF Shadow!Close, Counted
<1>3. ASSUME UNCHANGED events, trading' = "up" => held' = Shadow!Replayed
      PROVE Counted'
  <2>1. /\ Shadow!Replayed' = Shadow!Replayed /\ Shadow!Entries' = Shadow!Entries
        /\ Shadow!Exits' = Shadow!Exits
    BY <1>3 DEF Shadow!Replayed, Shadow!Entries, Shadow!Exits
  <2>2. QED
    BY <1>3, <2>1 DEF Counted
<1>4. CASE Shadow!Start
  BY <1>3, <1>4 DEF Shadow!Start
<1>5. CASE Shadow!RecordFill \/ Shadow!FillLost \/ Shadow!Tear \/ UNCHANGED shadow
  BY <1>3, <1>5 DEF Shadow!RecordFill, Shadow!FillLost, Shadow!Tear, shadow, Counted
<1>6. CASE Shadow!Crash
  BY <1>3, <1>6 DEF Shadow!Crash
<1>7. QED
  BY <1>1, <1>2, <1>4, <1>5, <1>6 DEF Shadow!Next

\* For any symbols, however long it runs: every simulated fill is a completed
\* trade or an open position.
THEOREM BalancedHolds == MCSpec => []Balanced
<1>1. MCInit => Counted
  <2> SUFFICES ASSUME Shadow!Init PROVE Counted
    BY DEF MCInit
  <2>1. events = <<>> /\ trading = "down"
    BY DEF Shadow!Init
  <2>2. Shadow!Entries = {} /\ Shadow!Exits = {} /\ Shadow!Replayed = {}
    BY <2>1 DEF Shadow!Entries, Shadow!Exits, Shadow!Replayed
  <2>3. QED
    BY <2>1, <2>2, FS_EmptySet DEF Counted
<1>2. Counted /\ [MCNext]_desk => Counted'
  BY Parts, CountedStep
<1>3. Counted => Balanced
  BY SameCardinality DEF Counted, Balanced, Shadow!Balanced
<1>4. QED
  BY <1>1, <1>2, <1>3, PTL DEF MCSpec

-----------------------------------------------------------------------------
(* ComplianceLedger, first what its readers compute: Records by recursion  *)
(* over the lines.  Induction is over a set of numbers.                    *)

LEMMA Induction ==
  ASSUME NEW S \in SUBSET Nat, 0 \in S, \A n \in S : n + 1 \in S
  PROVE  \A n \in Nat : n \in S
<1> DEFINE R == OpToRel(<, Nat)
           T == Nat \ S
<1>1. IsWellFoundedOn(R, Nat)
  BY NatLessThanWellFounded
<1>2. \A x, y \in Nat : x < y => <<x, y>> \in R
  BY DEF OpToRel
<1> HIDE DEF R
<1> SUFFICES ASSUME T # {} PROVE FALSE
  OBVIOUS
<1>3. PICK x \in T : \A y \in T : ~ (<<y, x>> \in R)
  BY <1>1, WFMin
<1>4. x \in Nat /\ x # 0 /\ x - 1 \in Nat /\ x - 1 < x
  OBVIOUS
<1>5. x - 1 \notin T
  BY <1>2, <1>3, <1>4
<1>6. x - 1 \in S /\ (x - 1) + 1 = x
  BY <1>4, <1>5
<1>7. QED
  BY <1>3, <1>6

Junk == Ledger!Junk
Recs == [ev : Events \cup {None}, prev : Seq(Events), hash : Seq(Events)]
Clean(l) == \A i \in 1..Len(l) : l[i] # Junk

\* What line n makes of the records before it, and what has been read of l line
\* by line, as far as line k.
One(l, n, rs) == IF n = 0 THEN <<>> ELSE IF l[n] = Junk THEN rs ELSE Append(rs, l[n])
Reads(g, l, k) == g = [n \in 0..k |-> One(l, n, g[n - 1])]

Read(l) == CHOOSE g : Reads(g, l, Len(l))

LEMMA RecordsRead == \A l : Ledger!Records(l) = Read(l)[Len(l)]
BY DEF Ledger!Records, Read, Reads, One, Junk

LEMMA ReadExists ==
  ASSUME NEW l \in Seq(Recs)
  PROVE  Reads(Read(l), l, Len(l))
<1> DEFINE S == {k \in Nat : \E g : Reads(g, l, k)}
<1>1. 0 \in S
  <2>1. \A rs : One(l, 0, rs) = <<>>
    BY DEF One
  <2>2. Reads([n \in 0..0 |-> <<>>], l, 0)
    BY <2>1 DEF Reads
  <2>3. QED
    BY <2>2
<1>2. ASSUME NEW k \in S
      PROVE  k + 1 \in S
  <2>1. PICK g : Reads(g, l, k)
    OBVIOUS
  <2> DEFINE x == One(l, k + 1, g[k])
             h == [n \in 0..(k + 1) |-> IF n = k + 1 THEN x ELSE g[n]]
  <2>2. h[k + 1] = x /\ \A n \in 0..k : h[n] = g[n]
    OBVIOUS
  <2>3. \A n \in 0..k : g[n] = One(l, n, g[n - 1])
    BY <2>1 DEF Reads
  <2>4. h = [n \in 0..(k + 1) |-> h[n]]
    OBVIOUS
  <2> HIDE DEF h
  <2>5. ASSUME NEW n \in 0..(k + 1)
        PROVE  h[n] = One(l, n, h[n - 1])
    <3>1. CASE n = k + 1
      <4>1. n - 1 = k /\ k \in 0..k
        BY <3>1
      <4>2. QED
        BY <2>2, <3>1, <4>1
    <3>2. CASE n # k + 1 /\ n # 0
      <4>1. n \in 0..k /\ n - 1 \in 0..k
        BY <3>2
      <4>2. QED
        BY <2>2, <2>3, <4>1
    <3>3. CASE n = 0
      <4>1. n \in 0..k
        BY <3>3
      <4>2. \A p, q : One(l, n, p) = One(l, n, q)
        BY <3>3 DEF One
      <4>3. QED
        BY <2>2, <2>3, <4>1, <4>2
    <3>4. QED
      BY <3>1, <3>2, <3>3
  <2>6. Reads(h, l, k + 1)
    BY <2>4, <2>5 DEF Reads
  <2>7. QED
    BY <2>6
<1>3. S \in SUBSET Nat
  OBVIOUS
<1> HIDE DEF S
<1>4. \A n \in Nat : n \in S
  BY <1>1, <1>2, <1>3, Induction
<1>5. Len(l) \in S
  BY <1>4
<1>6. QED
  BY <1>5 DEF S, Read

\* What the recursion says.
LEMMA ReadOn ==
  ASSUME NEW l \in Seq(Recs)
  PROVE  /\ Read(l)[0] = <<>>
         /\ \A n \in 1..Len(l) :
              Read(l)[n] = IF l[n] = Junk THEN Read(l)[n - 1] ELSE Append(Read(l)[n - 1], l[n])
<1>1. Reads(Read(l), l, Len(l))
  BY ReadExists
<1> DEFINE g == Read(l)
<1> HIDE DEF g
<1>2. Reads(g, l, Len(l))
  BY <1>1 DEF g
<1>3. \A n \in 0..Len(l) : g[n] = One(l, n, g[n - 1])
  BY <1>2 DEF Reads
<1>4. g[0] = <<>>
  BY <1>3 DEF One
<1>5. ASSUME NEW n \in 1..Len(l)
      PROVE  g[n] = IF l[n] = Junk THEN g[n - 1] ELSE Append(g[n - 1], l[n])
  <2>1. n \in 0..Len(l) /\ n # 0
    OBVIOUS
  <2>2. QED
    BY <1>3, <2>1 DEF One
<1>6. QED
  BY <1>4, <1>5 DEF g

LEMMA RecordsType ==
  ASSUME NEW l \in Seq(Recs)
  PROVE  Ledger!Records(l) \in Seq(Recs \ {Junk})
<1> DEFINE S == {k \in Nat : k <= Len(l) => Read(l)[k] \in Seq(Recs \ {Junk})}
<1>1. 0 \in S
  <2>1. Read(l)[0] = <<>>
    BY ReadOn
  <2>2. <<>> \in Seq(Recs \ {Junk})
    OBVIOUS
  <2>3. Read(l)[0] \in Seq(Recs \ {Junk})
    BY <2>1, <2>2
  <2>4. QED
    BY <2>3
<1>2. ASSUME NEW k \in S
      PROVE  k + 1 \in S
  <2> SUFFICES ASSUME k + 1 <= Len(l) PROVE Read(l)[k + 1] \in Seq(Recs \ {Junk})
    OBVIOUS
  <2>1. Read(l)[k] \in Seq(Recs \ {Junk}) /\ k + 1 \in 1..Len(l) /\ (k + 1) - 1 = k
    OBVIOUS
  <2>2. Read(l)[k + 1] = IF l[k + 1] = Junk THEN Read(l)[k] ELSE Append(Read(l)[k], l[k + 1])
    BY <2>1, ReadOn
  <2>3. l[k + 1] \in Recs
    BY <2>1
  <2>4. QED
    BY <2>1, <2>2, <2>3
<1>3. S \in SUBSET Nat /\ Len(l) \in Nat
  OBVIOUS
<1> HIDE DEF S
<1>4. Len(l) \in S
  BY <1>1, <1>2, <1>3, Induction
<1>5. QED
  BY <1>3, <1>4, RecordsRead DEF S

LEMMA RecordsAppend ==
  ASSUME NEW l \in Seq(Recs), NEW x \in Recs
  PROVE  Ledger!Records(Append(l, x)) =
           IF x = Junk THEN Ledger!Records(l) ELSE Append(Ledger!Records(l), x)
<1> DEFINE m == Append(l, x)
           S == {k \in Nat : k <= Len(l) => Read(m)[k] = Read(l)[k]}
<1>1. m \in Seq(Recs) /\ Len(m) = Len(l) + 1 /\ m[Len(m)] = x /\ Len(l) \in Nat
      /\ \A i \in 1..Len(l) : m[i] = l[i]
  OBVIOUS
<1> HIDE DEF m
<1>2. 0 \in S
  BY <1>1, ReadOn
<1>3. ASSUME NEW k \in S
      PROVE  k + 1 \in S
  <2> SUFFICES ASSUME k + 1 <= Len(l) PROVE Read(m)[k + 1] = Read(l)[k + 1]
    OBVIOUS
  <2>1. Read(m)[k] = Read(l)[k] /\ k + 1 \in 1..Len(l) /\ (k + 1) - 1 = k /\ k + 1 \in 1..Len(m)
    BY <1>1
  <2>2. Read(l)[k + 1] = IF l[k + 1] = Junk THEN Read(l)[k] ELSE Append(Read(l)[k], l[k + 1])
    BY <2>1, ReadOn
  <2>3. Read(m)[k + 1] = IF m[k + 1] = Junk THEN Read(m)[k] ELSE Append(Read(m)[k], m[k + 1])
    BY <1>1, <2>1, ReadOn
  <2>4. QED
    BY <1>1, <2>1, <2>2, <2>3
<1> S \in SUBSET Nat
  OBVIOUS
<1> HIDE DEF S
<1>4. Len(l) \in S
  BY <1>1, <1>2, <1>3, Induction
<1>5. Read(m)[Len(l)] = Read(l)[Len(l)]
  BY <1>1, <1>4 DEF S
<1>6. Read(m)[Len(m)] = IF x = Junk THEN Read(m)[Len(l)] ELSE Append(Read(m)[Len(l)], x)
  <2>1. Len(m) \in 1..Len(m) /\ Len(m) - 1 = Len(l)
    BY <1>1
  <2>2. QED
    BY <1>1, <2>1, ReadOn
<1>7. QED
  BY <1>5, <1>6, RecordsRead DEF m

\* Of lines that can all be read, all are read.
LEMMA RecordsClean ==
  ASSUME NEW l \in Seq(Recs), Clean(l)
  PROVE  Ledger!Records(l) = l
<1> DEFINE S == {k \in Nat : k <= Len(l) => Read(l)[k] = SubSeq(l, 1, k)}
<1>1. 0 \in S
  <2>1. Read(l)[0] = <<>> /\ SubSeq(l, 1, 0) = <<>>
    BY ReadOn
  <2>2. QED
    BY <2>1
<1>2. ASSUME NEW k \in S
      PROVE  k + 1 \in S
  <2> SUFFICES ASSUME k + 1 <= Len(l) PROVE Read(l)[k + 1] = SubSeq(l, 1, k + 1)
    OBVIOUS
  <2>1. Read(l)[k] = SubSeq(l, 1, k) /\ k + 1 \in 1..Len(l) /\ (k + 1) - 1 = k
    OBVIOUS
  <2>2. Read(l)[k + 1] = Append(SubSeq(l, 1, k), l[k + 1])
    BY <2>1, ReadOn DEF Clean
  <2>3. Append(SubSeq(l, 1, k), l[k + 1]) = SubSeq(l, 1, k + 1)
    BY <2>1
  <2>4. QED
    BY <2>2, <2>3
<1>3. S \in SUBSET Nat /\ Len(l) \in Nat
  OBVIOUS
<1> HIDE DEF S
<1>4. Len(l) \in S
  BY <1>1, <1>2, <1>3, Induction
<1>5. SubSeq(l, 1, Len(l)) = l
  OBVIOUS
<1>6. QED
  BY <1>3, <1>4, <1>5, RecordsRead DEF S

LEMMA JunkIs ==
  /\ Junk \in Recs /\ Junk.ev = None
  /\ \A p \in Seq(Events), e \in Events : None \notin Events =>
       Ledger!Line(p, e) \in Recs \ {Junk}
BY DEF Junk, Ledger!Junk, Ledger!Genesis, Ledger!Line, Recs

\* The variables' types, and what the recorder has in hand at which step.
LedgerOK ==
  /\ log \in Seq(Recs) /\ open \in BOOLEAN
  /\ head = <<>> \/ \E h \in Seq(Events) : head = <<h>>
  /\ bufFile \in Seq(Events \cup {None}) /\ mem \in Seq(Events) /\ pend \in Seq(Events)
  /\ cur \in Events \cup {None}
  /\ pc \in {"idle", "append", "head", "fail", "down"}
  /\ pc \in {"idle", "down"} => cur = None /\ pend = <<>>
  /\ open \/ pc = "head" => log # <<>>
  /\ pc = "head" => Ledger!Writing \in Events

LEMMA LastHashType ==
  ASSUME LedgerOK
  PROVE  Ledger!LastHash \in Seq(Events)
<1>1. CASE head # <<>>
  <2>1. PICK h \in Seq(Events) : head = <<h>>
    BY <1>1 DEF LedgerOK
  <2>2. QED
    BY <2>1 DEF Ledger!LastHash
<1>2. CASE head = <<>> /\ log = <<>>
  BY <1>2 DEF Ledger!LastHash, Ledger!Genesis
<1>3. CASE head = <<>> /\ log # <<>>
  <2>1. log[Len(log)] \in Recs
    BY <1>3 DEF LedgerOK
  <2>2. QED
    BY <1>3, <2>1 DEF Ledger!LastHash, Ledger!Last, Recs
<1>4. QED
  BY <1>1, <1>2, <1>3

\* The hash that a successful write leaves in the head file.
LEMMA NewHashType ==
  ASSUME LedgerOK, pc = "head"
  PROVE  Ledger!NewHash \in Seq(Events)
<1>1. log # <<>> /\ Ledger!Writing \in Events
  BY DEF LedgerOK
<1>2. log[Len(log)] \in Recs
  BY <1>1 DEF LedgerOK
<1>3. Append(Ledger!LastHash, Ledger!Writing) \in Seq(Events)
  BY <1>1, LastHashType
<1>4. log[Len(log)].hash \in Seq(Events)
  BY <1>2 DEF Recs
<1>5. QED
  BY <1>3, <1>4 DEF Ledger!NewHash, Ledger!Last

\* What repair_chain keeps: the longest chain the file begins with.
LEMMA KeptChain ==
  ASSUME log \in Seq(Recs)
  PROVE  Ledger!Kept \in Seq(Recs \ {Junk}) /\ Ledger!Chained(Ledger!Kept)
<1> DEFINE rs == Ledger!Records(log)
           N == {n \in 0..Len(rs) : Ledger!Chained(SubSeq(rs, 1, n))}
           Over == {n \in Nat : \A k \in N : k <= n}
<1>1. rs \in Seq(Recs \ {Junk})
  BY RecordsType
<1> HIDE DEF rs
<1>2. Len(rs) \in Nat /\ N \in SUBSET Nat
  BY <1>1
<1>3. 0 \in N
  <2>1. SubSeq(rs, 1, 0) = <<>> /\ 0 \in 0..Len(rs)
    BY <1>1
  <2>2. Ledger!Chained(<<>>)
    BY DEF Ledger!Chained
  <2>3. QED
    BY <2>1, <2>2
<1>4. \E x \in N : \A y \in N : x >= y
  <2>1. Len(rs) \in Over
    BY <1>2
  <2>2. ASSUME \A x \in N : \E y \in N : ~(x >= y)
        PROVE  FALSE
    <3> DEFINE S == {n \in Nat : n \notin Over}
    <3>1. 0 \in S
      BY <1>2, <1>3, <2>2
    <3>2. \A n \in S : n + 1 \in S
      <4> SUFFICES ASSUME NEW n \in S PROVE \E k \in N : ~(k <= n + 1)
        OBVIOUS
      <4>1. PICK k \in N : ~(k <= n)
        OBVIOUS
      <4>2. PICK y \in N : ~(k >= y)
        BY <2>2
      <4>3. k \in Nat /\ y \in Nat /\ n \in Nat
        BY <1>2
      <4>4. QED
        BY <4>1, <4>2, <4>3
    <3>3. S \in SUBSET Nat
      OBVIOUS
    <3> HIDE DEF S
    <3>4. Len(rs) \in S
      BY <1>2, <3>1, <3>2, <3>3, Induction
    <3>5. QED
      BY <2>1, <3>4 DEF S
  <2>3. QED
    BY <2>2
<1> DEFINE m == Ledger!Max(N)
<1>5. m \in N
  BY <1>4 DEF Ledger!Max
<1>6. Ledger!Kept = SubSeq(rs, 1, m)
  BY DEF Ledger!Kept, rs
<1> HIDE DEF m
<1>7. SubSeq(rs, 1, m) \in Seq(Recs \ {Junk}) /\ Ledger!Chained(SubSeq(rs, 1, m))
  <2>1. m \in 0..Len(rs)
    BY <1>5
  <2> HIDE DEF N
  <2>2. SubSeq(rs, 1, m) \in Seq(Recs \ {Junk})
    BY <1>1, <2>1
  <2>3. QED
    BY <1>5, <2>2 DEF N
<1>8. QED
  BY <1>6, <1>7

LEMMA LedgerOKStep ==
  ASSUME None \notin Events, LedgerOK, [Ledger!Next]_ledger
  PROVE  LedgerOK'
<1> USE DEF LedgerOK
<1>1. ASSUME Ledger!Flush, cur' \in Events \cup {None}, pend = <<>>,
             UNCHANGED <<log, open, head>>
      PROVE  LedgerOK'
  <2>1. CASE bufFile # <<>> /\ pc' = "fail" /\ UNCHANGED <<pend, bufFile, mem>>
    BY <1>1, <2>1
  <2>2. CASE /\ None \notin Ledger!ToSet(bufFile)
             /\ pend' = mem \o bufFile /\ bufFile' = <<>> /\ mem' = <<>>
             /\ pc' = "append"
    <3>1. bufFile \in Seq(Events)
      BY <2>2 DEF Ledger!ToSet
    <3>2. pend' \in Seq(Events)
      BY <2>2, <3>1
    <3>3. QED
      BY <1>1, <2>2, <3>2
  <2>3. QED
    BY <1>1, <2>1, <2>2 DEF Ledger!Flush
<1>2. ASSUME NEW e \in Events, Ledger!Record(e)
      PROVE  LedgerOK'
  <2>1. cur' = e /\ Ledger!Flush /\ pend = <<>> /\ UNCHANGED <<log, open, head>>
    BY <1>2 DEF Ledger!Record
  <2>2. QED
    BY <1>1, <2>1
<1>3. CASE Ledger!Recover
  <2>1. cur' = None /\ Ledger!Flush /\ pend = <<>> /\ UNCHANGED <<log, open, head>>
    BY <1>3 DEF Ledger!Recover
  <2>2. QED
    BY <1>1, <2>1
<1>4. CASE Ledger!AppendLine
  <2>1. pc = "append" /\ Ledger!Writing # None
        /\ UNCHANGED <<head, bufFile, mem, cur, pend>>
    BY <1>4 DEF Ledger!AppendLine
  <2>2. Ledger!Writing \in Events
    <3>1. CASE pend # <<>>
      BY <2>1, <3>1 DEF Ledger!Writing
    <3>2. CASE pend = <<>>
      BY <2>1, <3>2 DEF Ledger!Writing
    <3>3. QED
      BY <3>1, <3>2
  <2>3. Ledger!Writing' = Ledger!Writing
    BY <2>1 DEF Ledger!Writing
  <2>4. Ledger!Line(Ledger!LastHash, Ledger!Writing) \in Recs
    BY <2>2, LastHashType, JunkIs
  <2>5. CASE /\ pc' = "head" /\ open' = FALSE
             /\ log' = IF open THEN log
                       ELSE Append(log, Ledger!Line(Ledger!LastHash, Ledger!Writing))
    <3>1. Append(log, Ledger!Line(Ledger!LastHash, Ledger!Writing)) \in Seq(Recs) \ {<<>>}
      BY <2>4
    <3>2. log' \in Seq(Recs) /\ log' # <<>>
      BY <2>5, <3>1
    <3>3. QED
      BY <2>1, <2>2, <2>3, <2>5, <3>2
  <2>6. CASE /\ pc' = "fail" /\ open' = TRUE
             /\ log' = IF open THEN log ELSE Append(log, Junk)
    <3>1. Append(log, Junk) \in Seq(Recs) \ {<<>>}
      BY JunkIs
    <3>2. log' \in Seq(Recs) /\ log' # <<>>
      BY <2>6, <3>1
    <3>3. QED
      BY <2>1, <2>6, <3>2
  <2>7. CASE pc' = "fail" /\ UNCHANGED <<log, open>>
    BY <2>1, <2>7
  <2>8. QED
    BY <1>4, <2>5, <2>6, <2>7 DEF Ledger!AppendLine, Junk
<1>5. CASE Ledger!WriteHead
  <2>1. pc = "head" /\ UNCHANGED <<log, open, bufFile, mem>>
    BY <1>5 DEF Ledger!WriteHead
  <2>2. CASE head' = <<Ledger!NewHash>> /\ Ledger!Appended
    <3>1. head' = <<Ledger!NewHash>> /\ Ledger!NewHash \in Seq(Events)
      BY <2>1, <2>2, NewHashType
    <3>2. CASE pend # <<>> /\ pend' = Tail(pend) /\ pc' = "append" /\ UNCHANGED cur
      <4>1. pend' \in Seq(Events)
        BY <3>2
      <4>2. QED
        BY <2>1, <3>1, <3>2, <4>1
    <3>3. CASE pend = <<>> /\ pc' = "idle" /\ cur' = None /\ UNCHANGED pend
      BY <2>1, <3>1, <3>3
    <3>4. QED
      BY <2>2, <3>2, <3>3 DEF Ledger!Appended
  <2>3. CASE head' \in {head, <<>>} /\ pc' = "fail" /\ UNCHANGED <<cur, pend>>
    BY <2>1, <2>3
  <2>4. QED
    BY <1>5, <2>2, <2>3 DEF Ledger!WriteHead
<1>6. CASE Ledger!Recovered
  <2>1. pc = "append" /\ Ledger!Writing = None /\ pc' = "idle"
        /\ UNCHANGED <<log, open, head, bufFile, mem, cur, pend>>
    BY <1>6 DEF Ledger!Recovered, Ledger!files
  <2>2. pend = <<>>
    BY <2>1 DEF Ledger!Writing
  <2>3. cur = None
    BY <2>1, <2>2 DEF Ledger!Writing
  <2>4. QED
    BY <2>1, <2>2, <2>3
<1>7. CASE Ledger!Fail
  <2>1. pc = "fail" /\ pc' = "idle" /\ cur' = None /\ pend' = <<>>
        /\ UNCHANGED <<log, open, head>>
    BY <1>7 DEF Ledger!Fail
  <2>2. CASE cur = None /\ UNCHANGED <<mem, bufFile>>
    BY <2>1, <2>2
  <2>3. CASE cur # None /\ mem' = Append(mem, cur)
             /\ bufFile' \in {bufFile, Append(bufFile, cur), Append(bufFile, None)}
    <3>1. cur \in Events /\ mem \in Seq(Events) /\ bufFile \in Seq(Events \cup {None})
      BY <2>3
    <3>2. Append(mem, cur) \in Seq(Events) /\ Append(bufFile, cur) \in Seq(Events \cup {None})
          /\ Append(bufFile, None) \in Seq(Events \cup {None})
      BY <3>1
    <3>3. mem' \in Seq(Events) /\ bufFile' \in Seq(Events \cup {None})
      BY <2>3, <3>1, <3>2
    <3>4. QED
      BY <2>1, <3>3
  <2>4. QED
    BY <1>7, <2>2, <2>3 DEF Ledger!Fail
<1>8. CASE Ledger!Crash
  <2>1. pc' = "down" /\ cur' = None /\ pend' = <<>> /\ mem' = <<>>
        /\ head' \in {head, <<>>} /\ UNCHANGED <<log, open, bufFile>>
    BY <1>8 DEF Ledger!Crash
  <2>2. QED
    BY <2>1
<1>9. CASE Ledger!Repair
  <2>1. log' = Ledger!Kept /\ open' = FALSE /\ pc = "idle"
        /\ head' = <<IF Ledger!Kept = <<>> THEN Ledger!Genesis ELSE Ledger!Last(Ledger!Kept).hash>>
        /\ UNCHANGED <<bufFile, mem, pc, cur, pend>>
    BY <1>9 DEF Ledger!Repair, Ledger!recorder
  <2>2. log' \in Seq(Recs)
    BY <2>1, KeptChain
  <2>3. \E h \in Seq(Events) : head' = <<h>>
    <3>1. CASE Ledger!Kept = <<>>
      BY <2>1, <3>1 DEF Ledger!Genesis
    <3>2. CASE Ledger!Kept # <<>>
      <4>1. Ledger!Kept[Len(Ledger!Kept)] \in Recs
        BY <3>2, KeptChain
      <4>2. QED
        BY <2>1, <3>2, <4>1 DEF Ledger!Last, Recs
    <3>3. QED
      BY <3>1, <3>2
  <2>4. QED
    BY <2>1, <2>2, <2>3
<1>10. CASE Ledger!RepairInterrupted
  <2>1. PICK n \in 0..Len(Ledger!Kept) : log' = SubSeq(Ledger!Kept, 1, n)
    BY <1>10 DEF Ledger!RepairInterrupted
  <2>2. open' = FALSE /\ pc = "idle" /\ UNCHANGED <<head, bufFile, mem, pc, cur, pend>>
    BY <1>10 DEF Ledger!RepairInterrupted, Ledger!recorder
  <2>3. log' \in Seq(Recs)
    BY <2>1, KeptChain
  <2>4. QED
    BY <2>2, <2>3
<1>11. CASE Ledger!Resume \/ Ledger!VerifyRead \/ Ledger!VerifyStore \/ Ledger!CacheExpires
            \/ UNCHANGED ledger
  <2>1. UNCHANGED <<log, open, head, bufFile, mem, pc, cur, pend>>
    BY <1>11 DEF Ledger!Resume, Ledger!VerifyRead, Ledger!VerifyStore, Ledger!CacheExpires,
                 Ledger!files, Ledger!recorder, ledger
  <2>2. Ledger!Writing' = Ledger!Writing
    BY <2>1 DEF Ledger!Writing
  <2>3. QED
    BY <2>1, <2>2
<1>12. QED
  BY <1>2, <1>3, <1>4, <1>5, <1>6, <1>7, <1>8, <1>9, <1>10, <1>11 DEF Ledger!Next

LEMMA LedgerOKAlways == ASSUME None \notin Events PROVE MCSpec => []LedgerOK
<1>1. MCInit => LedgerOK
  <2> SUFFICES ASSUME Ledger!Init PROVE LedgerOK
    BY DEF MCInit
  <2>1. <<>> \in Seq(Recs) /\ <<>> \in Seq(Events) /\ <<>> \in Seq(Events \cup {None})
    OBVIOUS
  <2>2. QED
    BY <2>1 DEF Ledger!Init, LedgerOK
<1>2. LedgerOK /\ [MCNext]_desk => LedgerOK'
  BY Parts, LedgerOKStep
<1>3. QED
  BY <1>1, <1>2, PTL DEF MCSpec

-----------------------------------------------------------------------------
(* ComplianceLedger: the cached verdict, which a step that changes what    *)
(* can be read throws away, or knows to be old.                            *)

Fresh == cache # "none" /\ pc # "head" => cache = Ledger!Verdict(log) \/ raced

LEMMA FreshStep ==
  ASSUME LedgerOK, Fresh, [Ledger!Next]_ledger
  PROVE  Fresh'
<1> USE DEF Fresh
<1>1. ASSUME UNCHANGED <<log, cache, raced>>, pc # "head"
      PROVE  Fresh'
  <2>1. Ledger!Verdict(log)' = Ledger!Verdict(log)
    BY <1>1
  <2>2. QED
    BY <1>1, <2>1
<1>2. CASE Ledger!AppendLine
  <2>1. pc = "append" /\ UNCHANGED <<cache, raced>>
    BY <1>2 DEF Ledger!AppendLine
  <2>2. CASE pc' = "head"
    BY <2>2
  <2>3. CASE UNCHANGED log
    BY <1>1, <2>1, <2>3
  <2>4. CASE log' = Append(log, Junk)
    <3>1. Ledger!Records(log') = Ledger!Records(log)
      BY <2>4, RecordsAppend, JunkIs DEF LedgerOK
    <3>2. Ledger!Verdict(log)' = Ledger!Verdict(log)
      BY <3>1 DEF Ledger!Verdict
    <3>3. QED
      BY <2>1, <3>2
  <2>5. QED
    BY <1>2, <2>2, <2>3, <2>4 DEF Ledger!AppendLine, Junk
<1>3. CASE Ledger!WriteHead
  <2>1. UNCHANGED log
    BY <1>3 DEF Ledger!WriteHead
  <2>2. CASE cache' = "none"
    BY <2>2
  <2>3. CASE raced' = (raced \/ cache \notin {"none", Ledger!Verdict(log)}) /\ UNCHANGED cache
    BY <2>1, <2>3
  <2>4. QED
    BY <1>3, <2>2, <2>3 DEF Ledger!WriteHead
<1>4. CASE Ledger!VerifyStore
  BY <1>4 DEF Ledger!VerifyStore, Ledger!files
<1>5. CASE Ledger!RepairInterrupted
  <2>1. raced' = (raced \/ cache \notin {"none", Ledger!Verdict(log')}) /\ UNCHANGED cache
    BY <1>5 DEF Ledger!RepairInterrupted
  <2>2. QED
    BY <2>1
<1>6. CASE Ledger!Crash \/ Ledger!Repair \/ Ledger!CacheExpires
  BY <1>6 DEF Ledger!Crash, Ledger!Repair, Ledger!CacheExpires
<1>7. ASSUME NEW e \in Events, Ledger!Record(e)
      PROVE  Fresh'
  BY <1>1, <1>7 DEF Ledger!Record
<1>8. CASE Ledger!Recover \/ Ledger!Recovered \/ Ledger!Fail \/ Ledger!Resume
  BY <1>1, <1>8 DEF Ledger!Recover, Ledger!Recovered, Ledger!Fail, Ledger!Resume,
                    Ledger!history, Ledger!files
<1>9. CASE Ledger!VerifyRead \/ UNCHANGED ledger
  <2>1. UNCHANGED <<log, cache, raced, pc>>
    BY <1>9 DEF Ledger!VerifyRead, Ledger!history, Ledger!files, Ledger!recorder, ledger
  <2>2. Ledger!Verdict(log)' = Ledger!Verdict(log)
    BY <2>1
  <2>3. QED
    BY <2>1, <2>2
<1>10. QED
  BY <1>2, <1>3, <1>4, <1>5, <1>6, <1>7, <1>8, <1>9 DEF Ledger!Next

\* For any events, however many: the cached verdict is that of the file, unless
\* it is known to be old.
THEOREM VerdictFreshHolds == ASSUME None \notin Events PROVE MCSpec => []VerdictFresh
<1>1. MCInit => Fresh
  BY DEF MCInit, Ledger!Init, Fresh
<1>2. LedgerOK /\ Fresh /\ [MCNext]_desk => Fresh'
  BY Parts, FreshStep
<1>3. Fresh => VerdictFresh
  BY DEF Fresh, VerdictFresh, Ledger!VerdictFresh
<1>4. QED
  BY <1>1, <1>2, <1>3, LedgerOKAlways, PTL DEF MCSpec

-----------------------------------------------------------------------------
(* ComplianceLedger: where an event is that was given to record.           *)

LEMMA SetOfEmpty == Ledger!ToSet(<<>>) = {}
BY DEF Ledger!ToSet

LEMMA SetOfAppend ==
  ASSUME NEW S, NEW s \in Seq(S), NEW x \in S
  PROVE  Ledger!ToSet(Append(s, x)) = Ledger!ToSet(s) \cup {x}
<1>1. DOMAIN Append(s, x) = DOMAIN s \cup {Len(s) + 1} /\ Append(s, x)[Len(s) + 1] = x
      /\ \A i \in DOMAIN s : Append(s, x)[i] = s[i]
  OBVIOUS
<1>2. QED
  BY <1>1 DEF Ledger!ToSet

LEMMA SetOfConcat ==
  ASSUME NEW S, NEW s \in Seq(S), NEW t \in Seq(S)
  PROVE  Ledger!ToSet(s \o t) = Ledger!ToSet(s) \cup Ledger!ToSet(t)
<1>1. DOMAIN (s \o t) = 1..(Len(s) + Len(t)) /\ DOMAIN s = 1..Len(s) /\ DOMAIN t = 1..Len(t)
      /\ \A i \in DOMAIN (s \o t) : (s \o t)[i] = IF i <= Len(s) THEN s[i] ELSE t[i - Len(s)]
  OBVIOUS
<1>2. \A i \in DOMAIN s : i \in DOMAIN (s \o t) /\ (s \o t)[i] = s[i]
  BY <1>1
<1>3. \A i \in DOMAIN t : i + Len(s) \in DOMAIN (s \o t) /\ (s \o t)[i + Len(s)] = t[i]
  BY <1>1
<1>4. \A i \in DOMAIN (s \o t) : (s \o t)[i] \in Ledger!ToSet(s) \cup Ledger!ToSet(t)
  <2> SUFFICES ASSUME NEW i \in DOMAIN (s \o t)
               PROVE  (s \o t)[i] \in Ledger!ToSet(s) \cup Ledger!ToSet(t)
    OBVIOUS
  <2>1. CASE i <= Len(s)
    BY <1>1, <2>1 DEF Ledger!ToSet
  <2>2. CASE ~(i <= Len(s))
    <3>1. i - Len(s) \in DOMAIN t
      BY <1>1, <2>2
    <3>2. QED
      BY <1>1, <2>2, <3>1 DEF Ledger!ToSet
  <2>3. QED
    BY <2>1, <2>2
<1>5. Ledger!ToSet(s) \subseteq Ledger!ToSet(s \o t)
  BY <1>2 DEF Ledger!ToSet
<1>6. Ledger!ToSet(t) \subseteq Ledger!ToSet(s \o t)
  BY <1>3 DEF Ledger!ToSet
<1>7. ASSUME NEW x \in Ledger!ToSet(s \o t)
      PROVE  x \in Ledger!ToSet(s) \cup Ledger!ToSet(t)
  BY <1>4 DEF Ledger!ToSet
<1>8. QED
  BY <1>5, <1>6, <1>7

LEMMA SetOfTail ==
  ASSUME NEW S, NEW s \in Seq(S), s # <<>>
  PROVE  Ledger!ToSet(s) \subseteq {s[1]} \cup Ledger!ToSet(Tail(s))
<1> SUFFICES ASSUME NEW i \in DOMAIN s, i # 1 PROVE s[i] \in Ledger!ToSet(Tail(s))
  BY DEF Ledger!ToSet
<1>1. i - 1 \in DOMAIN Tail(s) /\ Tail(s)[i - 1] = s[i]
  OBVIOUS
<1>2. QED
  BY <1>1 DEF Ledger!ToSet
LEMMA EventsOfAppend ==
  ASSUME NEW l \in Seq(Recs), NEW x \in Recs
  PROVE  /\ Ledger!EventsOf(l) \subseteq Ledger!EventsOf(Append(l, x))
         /\ x # Junk => x.ev \in Ledger!EventsOf(Append(l, x))
<1>1. Ledger!Records(l) \in Seq(Recs)
  BY RecordsType
<1>2. CASE x = Junk
  BY <1>2, RecordsAppend DEF Ledger!EventsOf
<1>3. CASE x # Junk
  <2>1. Ledger!Records(Append(l, x)) = Append(Ledger!Records(l), x)
    BY <1>3, RecordsAppend
  <2>2. Ledger!ToSet(Ledger!Records(Append(l, x))) = Ledger!ToSet(Ledger!Records(l)) \cup {x}
    BY <1>1, <2>1, SetOfAppend
  <2>3. QED
    BY <2>2 DEF Ledger!EventsOf
<1>4. QED
  BY <1>2, <1>3

\* Where an event may be.
Somewhere ==
  Ledger!EventsOf(log) \cup Ledger!ToSet(mem) \cup Ledger!ToSet(bufFile)
    \cup Ledger!ToSet(pend) \cup {cur} \cup lost \cup dropped

\* The event whose line was just written is in the file, or was given up.
Nothing ==
  /\ asked \subseteq Events /\ asked \subseteq Somewhere
  /\ pc = "head" => Ledger!Writing \in Ledger!EventsOf(log) \cup lost

LEMMA NothingStep ==
  ASSUME None \notin Events, LedgerOK, Nothing, [Ledger!Next]_ledger
  PROVE  Nothing'
<1> USE DEF Nothing
<1>1. ASSUME UNCHANGED log
      PROVE  Ledger!EventsOf(log)' = Ledger!EventsOf(log)
  BY <1>1
<1>2. ASSUME Ledger!Flush, cur = None, pend = <<>>,
             UNCHANGED <<log, lost, dropped>>, asked' \subseteq (asked \cup {cur'}) \cap Events
      PROVE  Nothing'
  <2>1. CASE pc' = "fail" /\ UNCHANGED <<pend, bufFile, mem>>
    BY <1>1, <1>2, <2>1 DEF Somewhere
  <2>2. CASE pend' = mem \o bufFile /\ bufFile' = <<>> /\ mem' = <<>> /\ pc' = "append"
    <3>1. Ledger!ToSet(pend)' = Ledger!ToSet(mem) \cup Ledger!ToSet(bufFile)
      <4>1. mem \in Seq(Events \cup {None}) /\ bufFile \in Seq(Events \cup {None})
        BY DEF LedgerOK
      <4>2. Ledger!ToSet(mem \o bufFile) = Ledger!ToSet(mem) \cup Ledger!ToSet(bufFile)
        BY <4>1, SetOfConcat
      <4>3. QED
        BY <2>2, <4>2
    <3>2. Ledger!ToSet(pend) = {}
      BY <1>2, SetOfEmpty
    <3>3. QED
      BY <1>1, <1>2, <2>2, <3>1, <3>2 DEF Somewhere
  <2>3. QED
    BY <1>2, <2>1, <2>2 DEF Ledger!Flush
<1>3. ASSUME NEW e \in Events, Ledger!Record(e)
      PROVE  Nothing'
  <2>1. pc = "idle" /\ asked' = asked \cup {e} /\ cur' = e /\ Ledger!Flush
        /\ UNCHANGED <<log, lost, dropped>>
    BY <1>3 DEF Ledger!Record
  <2>2. QED
    BY <1>2, <2>1 DEF LedgerOK
<1>4. ASSUME Ledger!Recover
      PROVE  Nothing'
  <2>1. pc = "down" /\ Ledger!Flush /\ UNCHANGED <<log, asked, lost, dropped>>
    BY <1>4 DEF Ledger!Recover, Ledger!history
  <2>2. QED
    BY <1>2, <1>4, <2>1 DEF LedgerOK
<1>5. CASE Ledger!AppendLine
  <2>1. pc = "append" /\ Ledger!Writing # None
        /\ UNCHANGED <<bufFile, mem, cur, pend, asked, dropped>>
    BY <1>5 DEF Ledger!AppendLine
  <2>2. Ledger!Writing' = Ledger!Writing /\ Ledger!Writing \in Events
    <3>1. Ledger!Writing' = Ledger!Writing
      BY <2>1 DEF Ledger!Writing
    <3>2. CASE pend # <<>>
      BY <2>1, <3>2 DEF Ledger!Writing, LedgerOK
    <3>3. CASE pend = <<>>
      BY <2>1, <3>3 DEF Ledger!Writing, LedgerOK
    <3>4. QED
      BY <3>1, <3>2, <3>3
  <2> DEFINE x == Ledger!Line(Ledger!LastHash, Ledger!Writing)
  <2>3. x \in Recs /\ x # Junk
    BY <2>2, LastHashType, JunkIs
  <2>4. x.ev = Ledger!Writing
    BY DEF Ledger!Line
  <2> HIDE DEF x
  <2>5. ASSUME Ledger!EventsOf(log) \subseteq Ledger!EventsOf(log)', lost \subseteq lost',
               pc' = "head" => Ledger!Writing \in Ledger!EventsOf(log)' \cup lost'
        PROVE  Nothing'
    <3>1. Somewhere \subseteq Somewhere'
      BY <2>1, <2>5 DEF Somewhere
    <3>2. QED
      BY <2>1, <2>2, <2>5, <3>1
  <2>6. CASE /\ log' = IF open THEN log ELSE Append(log, x)
             /\ lost' = IF open THEN lost \cup {Ledger!Writing} ELSE lost
    <3>1. CASE open
      BY <1>1, <2>5, <2>6, <3>1
    <3>2. CASE ~open
      <4>1. /\ Ledger!EventsOf(log) \subseteq Ledger!EventsOf(log')
            /\ Ledger!Writing \in Ledger!EventsOf(log')
        BY <2>3, <2>4, <2>6, <3>2, EventsOfAppend DEF LedgerOK
      <4>2. lost' = lost
        BY <2>6, <3>2
      <4>3. QED
        BY <2>5, <4>1, <4>2
    <3>3. QED
      BY <3>1, <3>2
  <2>7. CASE pc' = "fail" /\ (log' = IF open THEN log ELSE Append(log, Junk)) /\ UNCHANGED lost
    <3>1. Ledger!EventsOf(log) \subseteq Ledger!EventsOf(log')
      BY <2>7, EventsOfAppend, JunkIs DEF LedgerOK
    <3>2. QED
      BY <2>5, <2>7, <3>1
  <2>8. CASE pc' = "fail" /\ UNCHANGED <<log, lost>>
    BY <1>1, <2>5, <2>8
  <2>9. QED
    BY <1>5, <2>6, <2>7, <2>8 DEF Ledger!AppendLine, Junk, x
<1>6. CASE Ledger!WriteHead
  <2>1. pc = "head" /\ UNCHANGED <<log, bufFile, mem, asked, lost, dropped>>
    BY <1>6 DEF Ledger!WriteHead
  <2>2. CASE Ledger!Appended
    <3>1. CASE pend # <<>> /\ pend' = Tail(pend) /\ pc' = "append" /\ UNCHANGED cur
      <4>1. Ledger!Writing = pend[1]
        BY <3>1 DEF Ledger!Writing
      <4>2. Ledger!ToSet(pend) \subseteq {Ledger!Writing} \cup Ledger!ToSet(Tail(pend))
        BY <3>1, <4>1, SetOfTail DEF LedgerOK
      <4>3. Ledger!ToSet(pend)' = Ledger!ToSet(Tail(pend))
        BY <3>1
      <4>4. QED
        BY <1>1, <2>1, <3>1, <4>2, <4>3 DEF Somewhere
    <3>2. CASE pend = <<>> /\ pc' = "idle" /\ cur' = None /\ UNCHANGED pend
      <4>1. Ledger!Writing = cur
        BY <3>2 DEF Ledger!Writing
      <4>2. QED
        BY <1>1, <2>1, <3>2, <4>1 DEF Somewhere
    <3>3. QED
      BY <2>2, <3>1, <3>2 DEF Ledger!Appended
  <2>3. CASE pc' = "fail" /\ UNCHANGED <<cur, pend>>
    BY <1>1, <2>1, <2>3 DEF Somewhere
  <2>4. QED
    BY <1>6, <2>2, <2>3 DEF Ledger!WriteHead
<1>7. CASE Ledger!Fail
  <2>1. pc' = "idle" /\ cur' = None /\ pend' = <<>> /\ lost' = lost \cup Ledger!ToSet(pend)
        /\ UNCHANGED <<log, asked, dropped>>
    BY <1>7 DEF Ledger!Fail
  <2>2. /\ Ledger!ToSet(bufFile) \subseteq Ledger!ToSet(bufFile)'
        /\ Ledger!ToSet(mem) \cup {cur} \subseteq Ledger!ToSet(mem)' \cup {None}
    <3>1. CASE cur = None /\ UNCHANGED <<mem, bufFile>>
      BY <3>1
    <3>2. CASE /\ cur # None /\ mem' = Append(mem, cur)
               /\ bufFile' \in {bufFile, Append(bufFile, cur), Append(bufFile, None)}
      <4>1. mem \in Seq(Events) /\ cur \in Events /\ bufFile \in Seq(Events \cup {None})
        BY <3>2 DEF LedgerOK
      <4>2. Ledger!ToSet(mem)' = Ledger!ToSet(mem) \cup {cur}
        BY <3>2, <4>1, SetOfAppend
      <4>3. /\ Ledger!ToSet(Append(bufFile, cur)) = Ledger!ToSet(bufFile) \cup {cur}
            /\ Ledger!ToSet(Append(bufFile, None)) = Ledger!ToSet(bufFile) \cup {None}
        BY <4>1, SetOfAppend
      <4>4. QED
        BY <3>2, <4>2, <4>3
    <3>3. QED
      BY <1>7, <3>1, <3>2 DEF Ledger!Fail
  <2>3. Somewhere \subseteq Somewhere' \cup {None}
    BY <1>1, <2>1, <2>2 DEF Somewhere
  <2>4. None \in Somewhere'
    BY <2>1 DEF Somewhere
  <2>5. QED
    BY <2>1, <2>3, <2>4
<1>8. CASE Ledger!Crash
  <2>1. pc' = "down" /\ cur' = None
        /\ lost' = lost \cup Ledger!ToSet(pend) \cup Ledger!ToSet(mem) \cup ({cur} \ {None})
        /\ UNCHANGED <<log, bufFile, asked, dropped>>
    BY <1>8 DEF Ledger!Crash
  <2>2. Ledger!ToSet(bufFile)' = Ledger!ToSet(bufFile)
    BY <2>1
  <2>3. Somewhere \subseteq Somewhere'
    BY <1>1, <2>1, <2>2 DEF Somewhere
  <2>4. QED
    BY <2>1, <2>3
<1>9. CASE Ledger!Repair \/ Ledger!RepairInterrupted
  <2>1. pc' # "head" /\ UNCHANGED <<bufFile, mem, pend, cur, asked, lost>>
        /\ dropped' = dropped \cup (Ledger!EventsOf(log) \ Ledger!EventsOf(log'))
    BY <1>9 DEF Ledger!Repair, Ledger!RepairInterrupted, Ledger!recorder
  <2>2. Somewhere \subseteq Somewhere'
    BY <2>1 DEF Somewhere
  <2>3. QED
    BY <2>1, <2>2
<1>10. CASE Ledger!Recovered \/ Ledger!Resume \/ Ledger!VerifyRead \/ Ledger!VerifyStore
            \/ Ledger!CacheExpires \/ UNCHANGED ledger
  <2>1. UNCHANGED <<log, bufFile, mem, pend, cur, asked, lost, dropped>>
        /\ (pc' = "head" => pc = "head")
    BY <1>10 DEF Ledger!Recovered, Ledger!Resume, Ledger!VerifyRead, Ledger!VerifyStore,
                 Ledger!CacheExpires, Ledger!files, Ledger!recorder, Ledger!history, ledger
  <2>2. Somewhere' = Somewhere
    BY <1>1, <2>1 DEF Somewhere
  <2>3. Ledger!Writing' = Ledger!Writing
    BY <2>1 DEF Ledger!Writing
  <2>4. QED
    BY <1>1, <2>1, <2>2, <2>3
<1>11. QED
  BY <1>3, <1>4, <1>5, <1>6, <1>7, <1>8, <1>9, <1>10 DEF Ledger!Next

\* For the same: an event given to record is in the ledger, in a buffer or on
\* its way, unless it is known to be lost.
THEOREM NothingVanishesHolds == ASSUME None \notin Events PROVE MCSpec => []NothingVanishes
<1>1. MCInit => Nothing
  BY DEF MCInit, Ledger!Init, Nothing
<1>2. LedgerOK /\ Nothing /\ [MCNext]_desk => Nothing'
  BY Parts, NothingStep
<1>3. Nothing => NothingVanishes
  BY DEF Nothing, Somewhere, NothingVanishes, Ledger!NothingVanishes
<1>4. QED
  BY <1>1, <1>2, <1>3, LedgerOKAlways, PTL DEF MCSpec

-----------------------------------------------------------------------------
(* ComplianceLedger: the chain.                                            *)

EndHash(l) == IF l = <<>> THEN Ledger!Genesis ELSE l[Len(l)].hash

\* Without a torn line or an old head every line can be read, the lines chain,
\* and the next one will be chained to the last.
Sound ==
  /\ open => torn
  /\ ~torn => /\ Clean(log) /\ Ledger!Chained(log)
              /\ pc # "head" => Ledger!LastHash = EndHash(log)

LEMMA ChainedAppend ==
  ASSUME NEW l \in Seq(Recs), Clean(l), Ledger!Chained(l), NEW e \in Events, None \notin Events
  PROVE  LET m == Append(l, Ledger!Line(EndHash(l), e)) IN
         /\ m \in Seq(Recs) /\ Clean(m) /\ Ledger!Chained(m)
         /\ EndHash(m) = Append(EndHash(l), e)
<1> DEFINE x == Ledger!Line(EndHash(l), e)
           m == Append(l, x)
<1>1. EndHash(l) \in Seq(Events)
  <2>1. CASE l = <<>>
    BY <2>1 DEF EndHash, Ledger!Genesis
  <2>2. CASE l # <<>>
    <3>1. l[Len(l)] \in Recs
      BY <2>2
    <3>2. QED
      BY <2>2, <3>1 DEF EndHash, Recs
  <2>3. QED
    BY <2>1, <2>2
<1>2. x \in Recs \ {Junk} /\ x.prev = EndHash(l) /\ x.ev = e /\ x.hash = Append(EndHash(l), e)
  <2>1. x \in Recs \ {Junk}
    BY <1>1, JunkIs
  <2>2. QED
    BY <2>1 DEF Ledger!Line
<1> HIDE DEF x
<1>3. m \in Seq(Recs) /\ Len(m) = Len(l) + 1 /\ m[Len(l) + 1] = x /\ m # <<>>
      /\ \A i \in 1..Len(l) : m[i] = l[i]
  BY <1>2
<1> HIDE DEF m
<1>4. Clean(m)
  BY <1>2, <1>3 DEF Clean
<1>5. ASSUME NEW i \in 1..Len(m)
      PROVE  /\ m[i].prev = IF i = 1 THEN Ledger!Genesis ELSE m[i - 1].hash
             /\ m[i].hash = Append(m[i].prev, m[i].ev)
  <2>1. CASE i \in 1..Len(l)
    <3>1. m[i] = l[i] /\ (i # 1 => m[i - 1] = l[i - 1])
      BY <1>3, <2>1
    <3>2. QED
      BY <2>1, <3>1 DEF Ledger!Chained
  <2>2. CASE i = Len(l) + 1
    <3>1. m[i] = x /\ (i # 1 => m[i - 1] = l[Len(l)]) /\ (i = 1 <=> l = <<>>)
      BY <1>3, <2>2
    <3>2. QED
      BY <1>2, <3>1 DEF EndHash
  <2>3. QED
    BY <1>3, <2>1, <2>2
<1>6. EndHash(m) = x.hash
  BY <1>3 DEF EndHash
<1>7. QED
  BY <1>2, <1>3, <1>4, <1>5, <1>6 DEF Ledger!Chained, m, x

LEMMA SoundStep ==
  ASSUME None \notin Events, LedgerOK, Sound, [Ledger!Next]_ledger
  PROVE  Sound'
<1> USE DEF Sound
<1>1. ASSUME UNCHANGED <<log, head>>
      PROVE  Ledger!LastHash' = Ledger!LastHash /\ EndHash(log)' = EndHash(log)
             /\ Clean(log)' = Clean(log) /\ Ledger!Chained(log)' = Ledger!Chained(log)
  BY <1>1 DEF Ledger!LastHash
<1>2. ASSUME UNCHANGED <<log, head, open>>, torn' <=> torn, pc # "head"
      PROVE  Sound'
  BY <1>1, <1>2
<1>3. CASE Ledger!AppendLine
  <2>1. pc = "append" /\ Ledger!Writing # None /\ UNCHANGED <<head, cur, pend>>
    BY <1>3 DEF Ledger!AppendLine
  <2>2. CASE /\ pc' = "head" /\ open' = FALSE /\ torn' = torn
             /\ log' = IF open THEN log
                       ELSE Append(log, Ledger!Line(Ledger!LastHash, Ledger!Writing))
    <3>1. CASE torn
      BY <2>2, <3>1
    <3>2. CASE ~torn
      <4>1. ~open /\ Ledger!LastHash = EndHash(log) /\ Clean(log) /\ Ledger!Chained(log)
        BY <2>1, <3>2
      <4>2. Ledger!Writing \in Events
        <5>1. CASE pend # <<>>
          BY <2>1, <5>1 DEF Ledger!Writing, LedgerOK
        <5>2. CASE pend = <<>>
          BY <2>1, <5>2 DEF Ledger!Writing, LedgerOK
        <5>3. QED
          BY <5>1, <5>2
      <4>3. log' = Append(log, Ledger!Line(EndHash(log), Ledger!Writing))
        BY <2>2, <4>1
      <4>4. Clean(log') /\ Ledger!Chained(log')
        BY <4>1, <4>2, <4>3, ChainedAppend DEF LedgerOK
      <4>5. QED
        BY <2>2, <3>2, <4>4
    <3>3. QED
      BY <3>1, <3>2
  <2>3. CASE torn' = TRUE
    BY <2>3
  <2>4. CASE pc' = "fail" /\ UNCHANGED <<log, open, lost, torn>>
    BY <1>2, <2>1, <2>4
  <2>5. QED
    BY <1>3, <2>2, <2>3, <2>4 DEF Ledger!AppendLine
<1>4. ASSUME pc = "head", UNCHANGED <<log, open>>, ~torn', ~torn,
             head' \in {<<>>, <<Ledger!NewHash>>}
      PROVE  Sound'
  <2>1. ~torn /\ Clean(log) /\ Ledger!Chained(log) /\ log # <<>>
    BY <1>4 DEF LedgerOK
  <2>2. log[Len(log)] # Junk
    BY <2>1 DEF Clean, LedgerOK
  <2>3. Ledger!NewHash = EndHash(log)
    BY <2>1, <2>2 DEF Ledger!NewHash, Ledger!Last, EndHash, Junk
  <2>4. Ledger!LastHash' = EndHash(log)
    <3>1. CASE head' = <<>>
      BY <1>4, <2>1, <3>1 DEF Ledger!LastHash, EndHash, Ledger!Last
    <3>2. CASE head' = <<Ledger!NewHash>>
      BY <2>3, <3>2 DEF Ledger!LastHash
    <3>3. QED
      BY <1>4, <3>1, <3>2
  <2>5. EndHash(log)' = EndHash(log) /\ Clean(log)' = Clean(log) /\ Ledger!Chained(log)' = Ledger!Chained(log)
    BY <1>4
  <2>6. QED
    BY <1>4, <2>1, <2>4, <2>5
<1>5. CASE Ledger!WriteHead
  <2>1. pc = "head" /\ UNCHANGED <<log, open>>
    BY <1>5 DEF Ledger!WriteHead
  <2>2. \/ head' = <<Ledger!NewHash>> /\ torn' = torn
        \/ torn' = (torn \/ head' # <<>>)
    BY <1>5 DEF Ledger!WriteHead
  <2>3. CASE torn'
    BY <2>3
  <2>4. CASE ~torn'
    <3>1. ~torn /\ head' \in {<<>>, <<Ledger!NewHash>>}
      BY <2>2, <2>4
    <3>2. QED
      BY <1>4, <2>1, <2>4, <3>1
  <2>5. QED
    BY <2>3, <2>4
<1>6. CASE Ledger!Crash
  <2>1. /\ pc' = "down" /\ UNCHANGED <<log, open>>
        /\ head' \in (IF pc = "head" THEN {head, <<>>} ELSE {head})
        /\ torn' = (torn \/ (pc = "head" /\ head' # <<>>))
    BY <1>6 DEF Ledger!Crash
  <2>2. CASE pc # "head"
    <3>1. UNCHANGED <<log, open, head>> /\ (torn' <=> torn)
      BY <2>1, <2>2
    <3>2. QED
      BY <1>2, <2>2, <3>1
  <2>3. CASE pc = "head" /\ torn'
    BY <2>3
  <2>4. CASE pc = "head" /\ ~torn'
    <3>1. ~torn /\ head' = <<>>
      BY <2>1, <2>4
    <3>2. QED
      BY <1>4, <2>1, <2>4, <3>1
  <2>5. QED
    BY <2>2, <2>3, <2>4
<1>7. CASE Ledger!Repair
  <2>1. /\ log' = Ledger!Kept /\ open' = FALSE
        /\ head' = <<IF Ledger!Kept = <<>> THEN Ledger!Genesis ELSE Ledger!Last(Ledger!Kept).hash>>
    BY <1>7 DEF Ledger!Repair
  <2>2. Ledger!Kept \in Seq(Recs \ {Junk}) /\ Ledger!Chained(Ledger!Kept)
    BY KeptChain DEF LedgerOK
  <2>3. Clean(log')
    BY <2>1, <2>2 DEF Clean
  <2>4. Ledger!LastHash' = EndHash(log')
    BY <2>1 DEF Ledger!LastHash, EndHash, Ledger!Last
  <2>5. QED
    BY <2>1, <2>2, <2>3, <2>4
<1>8. CASE Ledger!RepairInterrupted
  BY <1>8 DEF Ledger!RepairInterrupted
<1>9. ASSUME NEW e \in Events, Ledger!Record(e)
      PROVE  Sound'
  BY <1>2, <1>9 DEF Ledger!Record
<1>10. CASE Ledger!Recover \/ Ledger!Recovered \/ Ledger!Fail \/ Ledger!Resume
  BY <1>2, <1>10 DEF Ledger!Recover, Ledger!Recovered, Ledger!Fail, Ledger!Resume,
                     Ledger!history, Ledger!files
<1>11. CASE Ledger!VerifyRead \/ Ledger!VerifyStore \/ Ledger!CacheExpires \/ UNCHANGED ledger
  <2>1. UNCHANGED <<log, head, open, torn, pc>>
    BY <1>11 DEF Ledger!VerifyRead, Ledger!VerifyStore, Ledger!CacheExpires,
                 Ledger!files, Ledger!recorder, Ledger!history, ledger
  <2>2. QED
    BY <1>1, <2>1
<1>12. QED
  BY <1>3, <1>5, <1>6, <1>7, <1>8, <1>9, <1>10, <1>11 DEF Ledger!Next

\* For the same: as long as no write was interrupted half-way the chain
\* verifies, and the next event will chain to the last record.
THEOREM ChainSoundHolds == ASSUME None \notin Events PROVE MCSpec => []ChainSound
<1>1. MCInit => Sound
  <2> SUFFICES ASSUME Ledger!Init PROVE Sound
    BY DEF MCInit
  <2>1. log = <<>> /\ head = <<>> /\ open = FALSE
    BY DEF Ledger!Init
  <2>2. QED
    BY <2>1 DEF Sound, Clean, Ledger!Chained, Ledger!LastHash, EndHash
<1>2. LedgerOK /\ Sound /\ [MCNext]_desk => Sound'
  BY Parts, SoundStep
<1>3. LedgerOK /\ Sound => ChainSound
  <2> SUFFICES ASSUME LedgerOK, Sound, ~torn
               PROVE  Ledger!Chained(Ledger!Records(log)) /\ (pc # "head" => Ledger!HeadCurrent)
    BY DEF ChainSound, Ledger!ChainSound
  <2>1. Ledger!Records(log) = log
    BY RecordsClean DEF LedgerOK, Sound
  <2>2. Ledger!HeadHash = EndHash(log)
    BY <2>1 DEF Ledger!HeadHash, EndHash, Ledger!Last
  <2>3. QED
    BY <2>1, <2>2 DEF Sound, Ledger!HeadCurrent
<1>4. QED
  BY <1>1, <1>2, <1>3, LedgerOKAlways, PTL DEF MCSpec

-----------------------------------------------------------------------------
(* Universe, first what a list is that is cut, joined and sifted: no name  *)
(* twice, and falling by a weight of the names.                            *)

Distinct(s) == \A i, j \in 1..Len(s) : s[i] = s[j] => i = j
Falling(s, w) == \A i, j \in 1..Len(s) : i < j => w[s[j]] <= w[s[i]]

\* What name n makes of those of S before it, and the recursion up to name k.
Taken(s, S, n, r) == IF n = 0 THEN <<>> ELSE IF s[n] \in S THEN Append(r, s[n]) ELSE r
Sifts(g, s, S, k) == g = [n \in 0..k |-> Taken(s, S, n, g[n - 1])]

Sift(s, S) == CHOOSE g : Sifts(g, s, S, Len(s))

LEMMA ThoseSifted == \A s, S : Scan!Those(s, S) = Sift(s, S)[Len(s)]
BY DEF Scan!Those, Sift, Sifts, Taken

LEMMA SiftExists ==
  ASSUME NEW s, NEW S, Len(s) \in Nat
  PROVE  Sifts(Sift(s, S), s, S, Len(s))
<1> DEFINE K == {k \in Nat : \E g : Sifts(g, s, S, k)}
<1>1. 0 \in K
  <2>1. \A r : Taken(s, S, 0, r) = <<>>
    BY DEF Taken
  <2>2. Sifts([n \in 0..0 |-> <<>>], s, S, 0)
    BY <2>1 DEF Sifts
  <2>3. QED
    BY <2>2
<1>2. ASSUME NEW k \in K
      PROVE  k + 1 \in K
  <2>1. PICK g : Sifts(g, s, S, k)
    OBVIOUS
  <2> DEFINE x == Taken(s, S, k + 1, g[k])
             h == [n \in 0..(k + 1) |-> IF n = k + 1 THEN x ELSE g[n]]
  <2>2. h[k + 1] = x /\ \A n \in 0..k : h[n] = g[n]
    OBVIOUS
  <2>3. \A n \in 0..k : g[n] = Taken(s, S, n, g[n - 1])
    BY <2>1 DEF Sifts
  <2>4. h = [n \in 0..(k + 1) |-> h[n]]
    OBVIOUS
  <2> HIDE DEF h
  <2>5. ASSUME NEW n \in 0..(k + 1)
        PROVE  h[n] = Taken(s, S, n, h[n - 1])
    <3>1. CASE n = k + 1
      <4>1. n - 1 = k /\ k \in 0..k
        BY <3>1
      <4>2. QED
        BY <2>2, <3>1, <4>1
    <3>2. CASE n # k + 1 /\ n # 0
      <4>1. n \in 0..k /\ n - 1 \in 0..k
        BY <3>2
      <4>2. QED
        BY <2>2, <2>3, <4>1
    <3>3. CASE n = 0
      <4>1. n \in 0..k
        BY <3>3
      <4>2. \A a, b : Taken(s, S, n, a) = Taken(s, S, n, b)
        BY <3>3 DEF Taken
      <4>3. QED
        BY <2>2, <2>3, <4>1, <4>2
    <3>4. QED
      BY <3>1, <3>2, <3>3
  <2>6. Sifts(h, s, S, k + 1)
    BY <2>4, <2>5 DEF Sifts
  <2>7. QED
    BY <2>6
<1>3. K \in SUBSET Nat
  OBVIOUS
<1> HIDE DEF K
<1>4. Len(s) \in K
  BY <1>1, <1>2, <1>3, Induction
<1>5. QED
  BY <1>4 DEF K, Sift

LEMMA SiftOn ==
  ASSUME NEW s, NEW S, Len(s) \in Nat
  PROVE  /\ Sift(s, S)[0] = <<>>
         /\ \A n \in 1..Len(s) :
              Sift(s, S)[n] = IF s[n] \in S THEN Append(Sift(s, S)[n - 1], s[n]) ELSE Sift(s, S)[n - 1]
<1> DEFINE g == Sift(s, S)
<1>1. Sifts(g, s, S, Len(s))
  BY SiftExists
<1> HIDE DEF g
<1>2. \A n \in 0..Len(s) : g[n] = Taken(s, S, n, g[n - 1])
  BY <1>1 DEF Sifts
<1>3. g[0] = <<>>
  BY <1>2 DEF Taken
<1>4. ASSUME NEW n \in 1..Len(s)
      PROVE  g[n] = IF s[n] \in S THEN Append(g[n - 1], s[n]) ELSE g[n - 1]
  <2>1. n \in 0..Len(s) /\ n # 0
    OBVIOUS
  <2>2. QED
    BY <1>2, <2>1 DEF Taken
<1>5. QED
  BY <1>3, <1>4 DEF g

\* r has, in their order, those of S among the first k names of s.
Sifted(r, s, S, k, A, w) ==
  /\ r \in Seq(A)
  /\ \A i \in 1..Len(r) : r[i] \in S /\ \E j \in 1..k : r[i] = s[j]
  /\ \A j \in 1..k : s[j] \in S => \E i \in 1..Len(r) : r[i] = s[j]
  /\ Distinct(s) => Distinct(r)
  /\ Falling(s, w) => Falling(r, w)

LEMMA OneSifted ==
  ASSUME NEW A, NEW s \in Seq(A), NEW S, NEW w \in [A -> Nat], NEW k \in Nat, k + 1 <= Len(s),
         NEW r, Sifted(r, s, S, k, A, w)
  PROVE  Sifted(IF s[k + 1] \in S THEN Append(r, s[k + 1]) ELSE r, s, S, k + 1, A, w)
<1>1. CASE s[k + 1] \notin S
  <2>1. \A j \in 1..(k + 1) : s[j] \in S => j \in 1..k
    BY <1>1
  <2>2. \A j \in 1..k : j \in 1..(k + 1)
    OBVIOUS
  <2> QED BY <1>1, <2>1, <2>2 DEF Sifted
<1>2. CASE s[k + 1] \in S
  <2> DEFINE x == s[k + 1]
             t == Append(r, x)
  <2>0. r \in Seq(A) /\ x \in A BY DEF Sifted
  <2>1. /\ t \in Seq(A) /\ Len(t) = Len(r) + 1 /\ t[Len(r) + 1] = x
        /\ \A i \in 1..Len(r) : t[i] = r[i]
    BY <2>0
  <2>2. \A i \in 1..Len(t) : i = Len(r) + 1 \/ i \in 1..Len(r)
    BY <2>0, <2>1
  <2>3. \A i \in 1..Len(r) : i \in 1..Len(t) /\ i < Len(r) + 1
    BY <2>0, <2>1
  <2>4. \A i \in 1..Len(r) : r[i] \in S /\ \E j \in 1..k : r[i] = s[j]
    BY DEF Sifted
  <2>5. Len(r) + 1 \in 1..Len(t) /\ k + 1 \in 1..(k + 1) /\ \A j \in 1..k : j \in 1..(k + 1)
    BY <2>0, <2>1
  <2> HIDE DEF x, t
  <2>6. \A i \in 1..Len(t) : t[i] \in S /\ \E j \in 1..(k + 1) : t[i] = s[j]
    BY <1>2, <2>1, <2>2, <2>4, <2>5 DEF x
  <2>7. \A j \in 1..(k + 1) : s[j] \in S => \E i \in 1..Len(t) : t[i] = s[j]
    <3> SUFFICES ASSUME NEW j \in 1..(k + 1), s[j] \in S PROVE \E i \in 1..Len(t) : t[i] = s[j]
      OBVIOUS
    <3>1. CASE j = k + 1 BY <2>1, <2>5, <3>1 DEF x
    <3>2. CASE j # k + 1
      <4>1. j \in 1..k BY <3>2
      <4>2. PICK i \in 1..Len(r) : r[i] = s[j] BY <4>1 DEF Sifted
      <4> QED BY <2>1, <2>3, <4>2
    <3> QED BY <3>1, <3>2
  <2>8. ASSUME Distinct(s) PROVE Distinct(t)
    <3>1. \A j \in 1..k : s[j] # x
      <4>1. \A j \in 1..k : j \in 1..Len(s) /\ k + 1 \in 1..Len(s) /\ j # k + 1 OBVIOUS
      <4> QED BY <2>8, <4>1 DEF Distinct, x
    <3>2. \A i \in 1..Len(r) : r[i] # x BY <2>4, <3>1
    <3>3. Distinct(r) BY <2>8 DEF Sifted
    <3> QED BY <2>1, <2>2, <3>2, <3>3 DEF Distinct
  <2>9. ASSUME Falling(s, w) PROVE Falling(t, w)
    <3>1. \A j \in 1..k : w[x] <= w[s[j]]
      <4>1. \A j \in 1..k : j \in 1..Len(s) /\ k + 1 \in 1..Len(s) /\ j < k + 1 OBVIOUS
      <4> QED BY <2>9, <4>1 DEF Falling, x
    <3>2. \A i \in 1..Len(r) : w[x] <= w[r[i]] BY <2>4, <3>1
    <3>3. Falling(r, w) BY <2>9 DEF Sifted
    <3> SUFFICES ASSUME NEW i \in 1..Len(t), NEW j \in 1..Len(t), i < j PROVE w[t[j]] <= w[t[i]]
      BY DEF Falling
    <3>4. i \in 1..Len(r) BY <2>0, <2>1
    <3>5. CASE j = Len(r) + 1 BY <2>1, <3>2, <3>4, <3>5
    <3>6. CASE j # Len(r) + 1
      <4>1. j \in 1..Len(r) BY <2>2, <3>6
      <4> QED BY <2>1, <3>3, <3>4, <4>1 DEF Falling
    <3> QED BY <3>5, <3>6
  <2> QED BY <1>2, <2>1, <2>6, <2>7, <2>8, <2>9 DEF Sifted, t, x
<1> QED BY <1>1, <1>2

\* Those is what it is meant to be.
LEMMA ThoseAre ==
  ASSUME NEW A, NEW s \in Seq(A), NEW S, NEW w \in [A -> Nat]
  PROVE  Sifted(Scan!Those(s, S), s, S, Len(s), A, w)
<1> DEFINE g == Sift(s, S)
           K == {k \in Nat : k <= Len(s) => Sifted(g[k], s, S, k, A, w)}
<1>0. Len(s) \in Nat OBVIOUS
<1>1. g[0] = <<>> /\ \A n \in 1..Len(s) : g[n] = IF s[n] \in S THEN Append(g[n - 1], s[n]) ELSE g[n - 1]
  BY <1>0, SiftOn
<1> HIDE DEF g
<1>2. 0 \in K
  <2>1. Sifted(<<>>, s, S, 0, A, w) BY DEF Sifted, Distinct, Falling
  <2> QED BY <1>1, <2>1
<1>3. ASSUME NEW k \in K PROVE k + 1 \in K
  <2> SUFFICES ASSUME k + 1 <= Len(s) PROVE Sifted(g[k + 1], s, S, k + 1, A, w)
    OBVIOUS
  <2>1. k \in Nat /\ k + 1 \in 1..Len(s) /\ (k + 1) - 1 = k /\ Sifted(g[k], s, S, k, A, w) BY <1>0
  <2>2. g[k + 1] = IF s[k + 1] \in S THEN Append(g[k], s[k + 1]) ELSE g[k] BY <1>1, <2>1
  <2> QED BY <2>1, <2>2, OneSifted
<1>4. K \in SUBSET Nat OBVIOUS
<1> HIDE DEF K
<1>5. Len(s) \in K BY <1>0, <1>2, <1>3, <1>4, Induction
<1> QED BY <1>0, <1>5, ThoseSifted DEF K, g

\* A list that is cut keeps what it begins with.
LEMMA FirstAre ==
  ASSUME NEW A, NEW s \in Seq(A), NEW n \in Nat
  PROVE  LET r == Scan!FirstOf(s, n)
         IN  /\ r \in Seq(A) /\ Len(r) <= Len(s) /\ Len(r) <= n
             /\ Len(r) = Len(s) \/ Len(r) = n
             /\ \A i \in 1..Len(r) : r[i] = s[i]
<1> DEFINE m == IF Len(s) < n THEN Len(s) ELSE n
<1>1. m \in 0..Len(s) /\ m <= n /\ (m = Len(s) \/ m = n) OBVIOUS
<1> HIDE DEF m
<1>2. SubSeq(s, 1, m) \in Seq(A) /\ Len(SubSeq(s, 1, m)) = m
      /\ \A i \in 1..m : SubSeq(s, 1, m)[i] = s[i]
  BY <1>1
<1>3. Scan!FirstOf(s, n) = SubSeq(s, 1, m) BY DEF Scan!FirstOf, m
<1> QED BY <1>1, <1>2, <1>3

LEMMA FirstOrdered ==
  ASSUME NEW A, NEW s \in Seq(A), NEW n \in Nat, NEW w
  PROVE  /\ Distinct(s) => Distinct(Scan!FirstOf(s, n))
         /\ Falling(s, w) => Falling(Scan!FirstOf(s, n), w)
<1> DEFINE r == Scan!FirstOf(s, n)
<1>1. r \in Seq(A) /\ Len(r) <= Len(s) /\ \A i \in 1..Len(r) : r[i] = s[i] BY FirstAre
<1> HIDE DEF r
<1>2. \A i \in 1..Len(r) : i \in 1..Len(s) /\ r[i] = s[i] BY <1>1
<1> QED BY <1>2 DEF r, Distinct, Falling

\* Two lists with no name in common, the second no heavier than the first.
LEMMA JoinedAre ==
  ASSUME NEW A, NEW s \in Seq(A), NEW t \in Seq(A)
  PROVE  /\ s \o t \in Seq(A) /\ Len(s \o t) = Len(s) + Len(t)
         /\ \A i \in 1..Len(s) : i \in 1..Len(s \o t) /\ (s \o t)[i] = s[i]
         /\ \A i \in 1..Len(t) : i + Len(s) \in 1..Len(s \o t) /\ (s \o t)[i + Len(s)] = t[i]
         /\ \A i \in 1..Len(s \o t) :
              \/ i \in 1..Len(s) /\ (s \o t)[i] = s[i]
              \/ i > Len(s) /\ i - Len(s) \in 1..Len(t) /\ (s \o t)[i] = t[i - Len(s)]
OBVIOUS

LEMMA JoinedOrdered ==
  ASSUME NEW A, NEW s \in Seq(A), NEW t \in Seq(A), NEW w
  PROVE  /\ /\ Distinct(s) /\ Distinct(t)
            /\ \A i \in 1..Len(s), j \in 1..Len(t) : s[i] # t[j]
            => Distinct(s \o t)
         /\ /\ Falling(s, w) /\ Falling(t, w)
            /\ \A i \in 1..Len(s), j \in 1..Len(t) : w[t[j]] <= w[s[i]]
            => Falling(s \o t, w)
<1> DEFINE r == s \o t
<1>1. \A i \in 1..Len(r) :
        \/ i \in 1..Len(s) /\ r[i] = s[i]
        \/ i > Len(s) /\ i - Len(s) \in 1..Len(t) /\ r[i] = t[i - Len(s)]
  BY JoinedAre
<1>2. Len(s) \in Nat OBVIOUS
<1> HIDE DEF r
<1>3. ASSUME Distinct(s), Distinct(t), \A i \in 1..Len(s), j \in 1..Len(t) : s[i] # t[j]
      PROVE  Distinct(r)
  <2> SUFFICES ASSUME NEW i \in 1..Len(r), NEW j \in 1..Len(r), r[i] = r[j] PROVE i = j
    BY DEF Distinct
  <2>1. CASE i \in 1..Len(s) /\ j \in 1..Len(s) BY <1>1, <1>2, <1>3, <2>1 DEF Distinct
  <2>2. CASE i \notin 1..Len(s) /\ j \notin 1..Len(s)
    <3>1. i - Len(s) = j - Len(s) BY <1>1, <1>3, <2>2 DEF Distinct
    <3> QED BY <1>2, <3>1
  <2>3. CASE i \in 1..Len(s) /\ j \notin 1..Len(s) BY <1>1, <1>2, <1>3, <2>3
  <2>4. CASE i \notin 1..Len(s) /\ j \in 1..Len(s) BY <1>1, <1>2, <1>3, <2>4
  <2> QED BY <2>1, <2>2, <2>3, <2>4
<1>4. ASSUME Falling(s, w), Falling(t, w), \A i \in 1..Len(s), j \in 1..Len(t) : w[t[j]] <= w[s[i]]
      PROVE  Falling(r, w)
  <2> SUFFICES ASSUME NEW i \in 1..Len(r), NEW j \in 1..Len(r), i < j PROVE w[r[j]] <= w[r[i]]
    BY DEF Falling
  <2>1. CASE i \in 1..Len(s) /\ j \in 1..Len(s) BY <1>1, <1>2, <1>4, <2>1 DEF Falling
  <2>2. CASE i \notin 1..Len(s) /\ j \notin 1..Len(s)
    <3>1. i - Len(s) < j - Len(s) BY <1>2
    <3> QED BY <1>1, <1>4, <2>2, <3>1 DEF Falling
  <2>3. CASE i \in 1..Len(s) /\ j \notin 1..Len(s) BY <1>1, <1>2, <1>4, <2>3
  <2>4. CASE i \notin 1..Len(s) /\ j \in 1..Len(s)
    <3>1. i > Len(s) /\ j <= Len(s) BY <1>1, <2>4
    <3> QED BY <1>2, <3>1
  <2> QED BY <2>1, <2>2, <2>3, <2>4
<1> QED BY <1>3, <1>4 DEF r

LEMMA SetOf ==
  ASSUME NEW A, NEW s \in Seq(A), NEW x
  PROVE  x \in Scan!ToSet(s) <=> \E i \in 1..Len(s) : x = s[i]
BY DEF Scan!ToSet

\* What is left of a list when the names of another are taken out.
LEMMA WithoutAre ==
  ASSUME NEW A, NEW s \in Seq(A), NEW t \in Seq(A), Distinct(s)
  PROVE  LET r == Scan!Without(s, t)
         IN  /\ r \in Seq(A) /\ Distinct(r)
             /\ \A i \in 1..Len(r), j \in 1..Len(t) : r[i] # t[j]
<1> DEFINE S == Scan!ToSet(s) \ Scan!ToSet(t)
           w == [a \in A |-> 0]
           r == Scan!Without(s, t)
<1>1. w \in [A -> Nat] OBVIOUS
<1>2. r = Scan!Those(s, S) BY DEF Scan!Without
<1>3. \A i \in 1..Len(t) : t[i] \notin S BY SetOf
<1> HIDE DEF S, w, r
<1>4. Sifted(r, s, S, Len(s), A, w) BY <1>1, <1>2, ThoseAre
<1>5. r \in Seq(A) /\ Distinct(r) /\ \A i \in 1..Len(r) : r[i] \in S BY <1>4 DEF Sifted
<1> QED BY <1>3, <1>5 DEF r

-----------------------------------------------------------------------------
(* ... then the lists of Universe, as they are made one of the other.      *)

Markets == [Scan!Symbols -> Scan!Quotes]
Weight(q) == [s \in STRING |-> Scan!Quote(q, s).score]
Enough(q, s) == Scan!Quote(q, s).enough
Wanted(q, s) == Enough(q, s) /\ (Capped => ~Scan!Quote(q, s).dear)

LEMMA WeightIs ==
  ASSUME NEW q \in Markets
  PROVE  /\ Weight(q) \in [STRING -> Nat]
         /\ \A s \in STRING : Enough(q, s) => Weight(q)[s] \in {1, 2}
         /\ \A s \in STRING : Weight(q)[s] # 0 => Enough(q, s)
<1>1. ASSUME NEW c \in Scan!Quotes
      PROVE  c.score \in 0..2 /\ (c.enough => c.score \in {1, 2}) /\ (c.score # 0 => c.enough)
  <2>1. CASE c = Scan!Missing BY <2>1 DEF Scan!Missing
  <2>2. CASE c \in [enough : {FALSE}, score : {0}, dear : BOOLEAN]
    <3>1. c.score = 0 BY <2>2
    <3>2. c.enough \in {FALSE} BY <2>2
    <3>3. ~c.enough BY <3>2
    <3> QED BY <3>1, <3>3
  <2>3. CASE c \in [enough : {TRUE}, score : 1..2, dear : BOOLEAN]
    <3>1. c.score \in 1..2 BY <2>3
    <3>2. c.enough \in {TRUE} BY <2>3
    <3>3. c.enough BY <3>2
    <3> QED BY <3>1, <3>3
  <2> QED BY <1>1, <2>1, <2>2, <2>3 DEF Scan!Quotes
<1>2. \A s \in STRING : Scan!Quote(q, s) \in Scan!Quotes
  BY DEF Scan!Quote, Markets, Scan!Quotes
<1>3. \A s \in STRING : Weight(q)[s] = Scan!Quote(q, s).score BY DEF Weight
<1>4. \A s \in STRING : Scan!Quote(q, s).score \in Nat BY <1>1, <1>2
<1> QED BY <1>1, <1>2, <1>3, <1>4 DEF Weight, Enough

LEMMA CandidatesAre == Scan!Candidates \in Seq(STRING) /\ Distinct(Scan!Candidates)
<1>1. Liquid \in Seq(STRING) /\ Watchlist \in Seq(STRING) /\ Distinct(Liquid) /\ Distinct(Watchlist)
      /\ MaxQuotes \in Nat
  BY ListsAssumption DEF Distinct
<1> DEFINE t == Scan!Without(Watchlist, Liquid)
<1>2. t \in Seq(STRING) /\ Distinct(t) /\ \A i \in 1..Len(t), j \in 1..Len(Liquid) : t[i] # Liquid[j]
  BY <1>1, WithoutAre
<1> HIDE DEF t
<1>3. Liquid \o t \in Seq(STRING) /\ Distinct(Liquid \o t) BY <1>1, <1>2, JoinedAre, JoinedOrdered
<1> QED BY <1>1, <1>3, FirstAre, FirstOrdered DEF Scan!Candidates, t

\* The candidates of one score.
OfScore(q, n) == Scan!Those(Scan!Candidates, {s \in DOMAIN q : q[s].enough /\ q[s].score = n})

LEMMA OfScoreAre ==
  ASSUME NEW q \in Markets, NEW n \in {1, 2}
  PROVE  LET r == OfScore(q, n)
         IN  /\ r \in Seq(STRING) /\ Distinct(r)
             /\ \A i \in 1..Len(r) : r[i] \in STRING /\ Enough(q, r[i]) /\ Weight(q)[r[i]] = n
             /\ \A s \in Scan!Symbols : Enough(q, s) /\ Weight(q)[s] = n =>
                  \E i \in 1..Len(r) : r[i] = s
<1> DEFINE C == Scan!Candidates
           S == {s \in DOMAIN q : q[s].enough /\ q[s].score = n}
           r == OfScore(q, n)
<1>1. C \in Seq(STRING) /\ Distinct(C) BY CandidatesAre
<1>2. Sifted(r, C, S, Len(C), STRING, Weight(q)) BY <1>1, ThoseAre, WeightIs DEF OfScore
<1>3. DOMAIN q = Scan!Symbols BY DEF Markets
<1>4. \A s \in STRING : s \in S <=> s \in Scan!Symbols /\ Enough(q, s) /\ Weight(q)[s] = n
  BY <1>3 DEF Enough, Weight, Scan!Quote, Scan!Missing
<1>5. \A s \in Scan!Symbols : s \in STRING /\ \E i \in 1..Len(C) : s = C[i]
  BY <1>1, SetOf DEF Scan!Symbols
<1> HIDE DEF C, S, r
<1>6. r \in Seq(STRING) /\ Distinct(r) /\ \A i \in 1..Len(r) : r[i] \in S
  <2>1. r \in Seq(STRING) BY <1>2 DEF Sifted
  <2>2. Distinct(r) BY <1>1, <1>2 DEF Sifted
  <2>3. \A i \in 1..Len(r) : r[i] \in S BY <1>2 DEF Sifted
  <2> QED BY <2>1, <2>2, <2>3
<1>7. \A i \in 1..Len(r) : r[i] \in STRING /\ Enough(q, r[i]) /\ Weight(q)[r[i]] = n
  <2>1. \A i \in 1..Len(r) : r[i] \in STRING BY <1>6
  <2> QED BY <1>4, <1>6, <2>1
<1>8. ASSUME NEW s \in Scan!Symbols, Enough(q, s), Weight(q)[s] = n PROVE \E i \in 1..Len(r) : r[i] = s
  <2>1. s \in S BY <1>4, <1>5, <1>8
  <2> QED BY <1>2, <1>5, <2>1 DEF Sifted
<1> QED BY <1>6, <1>7, <1>8 DEF r

LEMMA RankedAre ==
  ASSUME NEW q \in Markets
  PROVE  LET r == Scan!Ranked(q)
         IN  /\ r \in Seq(STRING) /\ Distinct(r) /\ Falling(r, Weight(q))
             /\ \A i \in 1..Len(r) : Enough(q, r[i])
             /\ \A s \in Scan!Symbols : Enough(q, s) => \E i \in 1..Len(r) : r[i] = s
<1> DEFINE a == OfScore(q, 2)
           b == OfScore(q, 1)
           r == a \o b
           w == Weight(q)
<1>0. Scan!Ranked(q) = r BY DEF Scan!Ranked, OfScore
<1>1. a \in Seq(STRING) /\ Distinct(a) /\ \A i \in 1..Len(a) : Enough(q, a[i]) /\ w[a[i]] = 2
  BY OfScoreAre
<1>2. b \in Seq(STRING) /\ Distinct(b) /\ \A i \in 1..Len(b) : Enough(q, b[i]) /\ w[b[i]] = 1
  BY OfScoreAre
<1>3. \A s \in Scan!Symbols : Enough(q, s) =>
        (\E i \in 1..Len(a) : a[i] = s) \/ (\E i \in 1..Len(b) : b[i] = s)
  <2> SUFFICES ASSUME NEW s \in Scan!Symbols, Enough(q, s)
               PROVE  (\E i \in 1..Len(a) : a[i] = s) \/ (\E i \in 1..Len(b) : b[i] = s)
    OBVIOUS
  <2>1. s \in STRING BY CandidatesAre, SetOf DEF Scan!Symbols
  <2>2. w[s] \in {1, 2} BY <2>1, WeightIs
  <2>3. CASE w[s] = 2 BY <2>3, OfScoreAre
  <2>4. CASE w[s] = 1 BY <2>4, OfScoreAre
  <2> QED BY <2>2, <2>3, <2>4
<1> HIDE DEF a, b, w
<1>4. Falling(a, w) /\ Falling(b, w) BY <1>1, <1>2 DEF Falling
<1>5. \A i \in 1..Len(a), j \in 1..Len(b) : a[i] # b[j] /\ w[b[j]] <= w[a[i]]
  <2>1. ASSUME NEW i \in 1..Len(a), NEW j \in 1..Len(b) PROVE w[a[i]] = 2 /\ w[b[j]] = 1
    BY <1>1, <1>2
  <2> QED BY <2>1
<1>6. r \in Seq(STRING) /\ Distinct(r) /\ Falling(r, w)
  BY <1>1, <1>2, <1>4, <1>5, JoinedAre, JoinedOrdered
<1>7. \A i \in 1..Len(r) : Enough(q, r[i]) BY <1>1, <1>2, JoinedAre
<1>8. ASSUME NEW s \in Scan!Symbols, Enough(q, s) PROVE \E i \in 1..Len(r) : r[i] = s
  <2>1. /\ \A i \in 1..Len(a) : i \in 1..Len(r) /\ r[i] = a[i]
        /\ \A i \in 1..Len(b) : i + Len(a) \in 1..Len(r) /\ r[i + Len(a)] = b[i]
    BY <1>1, <1>2, JoinedAre
  <2> HIDE DEF r
  <2>2. CASE \E i \in 1..Len(a) : a[i] = s BY <2>1, <2>2
  <2>3. CASE \E i \in 1..Len(b) : b[i] = s BY <2>1, <2>3
  <2> QED BY <1>3, <1>8, <2>2, <2>3
<1> QED BY <1>0, <1>6, <1>7, <1>8 DEF w

\* The pool, filled up or not, leaves nobody out who is better than one of it.
LEMMA FilledAre ==
  ASSUME NEW q \in Markets
  PROVE  LET r == Scan!Filled(q)
         IN  /\ r \in Seq(STRING) /\ Distinct(r) /\ Falling(r, Weight(q))
             /\ \A s \in Scan!Symbols : Enough(q, s) =>
                  \/ \E i \in 1..Len(r) : r[i] = s
                  \/ \A i \in 1..Len(r) : Weight(q)[s] <= Weight(q)[r[i]]
<1> DEFINE R == Scan!Ranked(q)
           P == Scan!FirstOf(R, PoolSize)
           X == Scan!FirstOf(Scan!Without(Liquid, P), PoolSize - Len(P))
           w == Weight(q)
<1>0. PoolSize \in Nat /\ ScanSize \in Nat /\ ScanSize <= PoolSize
      /\ Liquid \in Seq(STRING) /\ Distinct(Liquid)
  BY ListsAssumption DEF Distinct
<1>1. /\ R \in Seq(STRING) /\ Distinct(R) /\ Falling(R, w)
      /\ \A i \in 1..Len(R) : Enough(q, R[i])
      /\ \A s \in Scan!Symbols : Enough(q, s) => \E i \in 1..Len(R) : R[i] = s
  BY RankedAre
<1>2. /\ P \in Seq(STRING) /\ Len(P) <= Len(R)
      /\ Len(P) = Len(R) \/ Len(P) = PoolSize
      /\ \A i \in 1..Len(P) : P[i] = R[i]
  <2> HIDE DEF R
  <2> QED BY <1>0, <1>1, FirstAre
<1>3. Distinct(P) /\ Falling(P, w)
  <2> HIDE DEF R, w
  <2> QED BY <1>0, <1>1, FirstOrdered
<1>4. Scan!Filled(q) = IF Len(P) >= ScanSize THEN P ELSE P \o X BY DEF Scan!Filled
<1>5. w \in [STRING -> Nat] /\ \A s \in STRING : w[s] # 0 => Enough(q, s) BY WeightIs
<1> HIDE DEF R, w
<1>6. CASE Len(P) >= ScanSize
  <2> SUFFICES ASSUME NEW s \in Scan!Symbols, Enough(q, s), ~ \E i \in 1..Len(P) : P[i] = s,
                      NEW j \in 1..Len(P)
               PROVE  w[s] <= w[P[j]]
    BY <1>2, <1>3, <1>4, <1>6 DEF w
  <2>1. PICK k \in 1..Len(R) : R[k] = s BY <1>1
  <2>2. k \notin 1..Len(P) BY <1>2, <2>1
  <2>3. j < k /\ j \in 1..Len(R) BY <1>1, <1>2, <2>1, <2>2
  <2> QED BY <1>1, <1>2, <2>1, <2>3 DEF Falling
<1>7. CASE ~(Len(P) >= ScanSize)
  <2> HIDE DEF P
  <2>1. Len(P) \in Nat /\ Len(P) = Len(R) /\ PoolSize - Len(P) \in Nat BY <1>0, <1>2, <1>7
  <2> DEFINE Y == Scan!Without(Liquid, P)
  <2>2. Y \in Seq(STRING) /\ Distinct(Y) /\ \A i \in 1..Len(Y), j \in 1..Len(P) : Y[i] # P[j]
    BY <1>0, <1>2, WithoutAre
  <2> HIDE DEF Y
  <2>3. X = Scan!FirstOf(Y, PoolSize - Len(P)) BY DEF Y
  <2>4. X \in Seq(STRING) /\ Len(X) <= Len(Y) /\ (\A i \in 1..Len(X) : X[i] = Y[i]) /\ Distinct(X)
    BY <2>1, <2>2, <2>3, FirstAre, FirstOrdered
  <2> HIDE DEF X
  <2>5. \A i \in 1..Len(X) : i \in 1..Len(Y) /\ X[i] = Y[i] /\ X[i] \in STRING BY <2>2, <2>4
  <2>6. \A i \in 1..Len(X), j \in 1..Len(P) : X[i] # P[j] BY <2>2, <2>5
  <2>7. \A i \in 1..Len(X) : w[X[i]] = 0
    <3> SUFFICES ASSUME NEW i \in 1..Len(X), w[X[i]] # 0 PROVE FALSE
      OBVIOUS
    <3>1. Enough(q, X[i]) BY <1>5, <2>5
    <3>2. X[i] \in Scan!Symbols BY <3>1 DEF Enough, Scan!Quote, Markets, Scan!Missing
    <3>3. PICK j \in 1..Len(R) : R[j] = X[i] BY <1>1, <3>1, <3>2
    <3>4. j \in 1..Len(P) /\ P[j] = X[i] BY <1>2, <2>1, <3>3
    <3> QED BY <2>6, <3>4
  <2>8. \A i \in 1..Len(P) : P[i] \in STRING /\ w[P[i]] \in Nat
    <3>1. \A i \in 1..Len(P) : P[i] \in STRING BY <1>2
    <3>2. w \in [STRING -> Nat] BY <1>5
    <3> QED BY <3>1, <3>2
  <2>9. Falling(X, w) BY <2>7 DEF Falling
  <2>10. \A i \in 1..Len(P), j \in 1..Len(X) : P[i] # X[j] /\ w[X[j]] <= w[P[i]]
    BY <2>6, <2>7, <2>8
  <2>11. P \o X \in Seq(STRING) /\ Distinct(P \o X) /\ Falling(P \o X, w)
    BY <1>2, <1>3, <2>4, <2>9, <2>10, JoinedAre, JoinedOrdered
  <2>12. ASSUME NEW s \in Scan!Symbols, Enough(q, s)
         PROVE  \E i \in 1..Len(P \o X) : (P \o X)[i] = s
    <3>1. PICK j \in 1..Len(R) : R[j] = s BY <1>1, <2>12
    <3>2. j \in 1..Len(P) /\ P[j] = s BY <1>2, <2>1, <3>1
    <3>3. j \in 1..Len(P \o X) /\ (P \o X)[j] = s BY <1>2, <2>4, <3>2, JoinedAre
    <3> QED BY <3>3
  <2> QED BY <1>4, <1>7, <2>11, <2>12 DEF w, P, X
<1> QED BY <1>6, <1>7

\* The list that is scanned: who is not on it ranks no higher than who is.
LEMMA ScanIs ==
  ASSUME NEW q \in Markets
  PROVE  LET r == Scan!Scan(q)
         IN  /\ r \in Seq(STRING) /\ Distinct(r)
             /\ \A s \in Scan!Symbols : Wanted(q, s) /\ (\A i \in 1..Len(r) : r[i] # s) =>
                  \A i \in 1..Len(r) : Wanted(q, r[i]) /\ Weight(q)[s] <= Weight(q)[r[i]]
<1> DEFINE F == Scan!Filled(q)
           C == Scan!Cheap(q)
           G == Scan!Those(F, C)
           r == Scan!Scan(q)
           w == Weight(q)
<1>1. /\ F \in Seq(STRING) /\ Distinct(F) /\ Falling(F, w)
      /\ \A s \in Scan!Symbols : Enough(q, s) =>
           \/ \E i \in 1..Len(F) : F[i] = s
           \/ \A i \in 1..Len(F) : w[s] <= w[F[i]]
  BY FilledAre
<1>2. r = Scan!FirstOf(G, ScanSize) BY DEF Scan!Scan
<1>3. \A s : s \in C <=> (\E i \in 1..Len(F) : s = F[i]) /\ (Capped => ~Scan!Quote(q, s).dear)
  BY <1>1, SetOf DEF Scan!Cheap
<1>4. w \in [STRING -> Nat] /\ (\A s \in STRING : w[s] # 0 => Enough(q, s))
      /\ \A s \in STRING : Enough(q, s) => w[s] \in {1, 2}
  BY WeightIs
<1>5. ScanSize \in Nat BY ListsAssumption
<1> HIDE DEF F, C, r, w
<1>6. Sifted(G, F, C, Len(F), STRING, w) BY <1>1, <1>4, ThoseAre
<1> HIDE DEF G
<1>7. G \in Seq(STRING) BY <1>6 DEF Sifted
<1>8. Distinct(G) /\ Falling(G, w) BY <1>1, <1>6 DEF Sifted
<1>9. \A i \in 1..Len(G) : G[i] \in C BY <1>6 DEF Sifted
<1>10. \A j \in 1..Len(F) : F[j] \in C => \E i \in 1..Len(G) : G[i] = F[j] BY <1>6 DEF Sifted
<1>11. /\ r \in Seq(STRING) /\ Len(r) <= Len(G) /\ Distinct(r)
       /\ \A i \in 1..Len(r) : r[i] = G[i]
  BY <1>2, <1>5, <1>7, <1>8, FirstAre, FirstOrdered
<1>12. ASSUME NEW s \in Scan!Symbols, Wanted(q, s), \A i \in 1..Len(r) : r[i] # s,
              NEW i \in 1..Len(r)
       PROVE  Wanted(q, r[i]) /\ w[s] <= w[r[i]]
  <2>1. i \in 1..Len(G) /\ r[i] = G[i] /\ r[i] \in STRING BY <1>7, <1>11
  <2>2. r[i] \in C BY <1>9, <2>1
  <2>3. w[s] <= w[r[i]]
    <3>1. CASE \E j \in 1..Len(F) : F[j] = s
      <4>1. PICK j \in 1..Len(F) : F[j] = s BY <3>1
      <4>2. F[j] \in C BY <1>3, <1>12, <4>1 DEF Wanted
      <4>3. PICK k \in 1..Len(G) : G[k] = s BY <1>10, <4>1, <4>2
      <4>4. k \notin 1..Len(r) BY <1>11, <1>12, <4>3
      <4>5. i < k BY <1>7, <1>11, <4>3, <4>4
      <4> QED BY <1>8, <2>1, <4>3, <4>5 DEF Falling
    <3>2. CASE ~ \E j \in 1..Len(F) : F[j] = s
      <4>1. PICK j \in 1..Len(F) : r[i] = F[j] BY <1>3, <2>2
      <4> QED BY <1>1, <1>12, <3>2, <4>1 DEF Wanted
    <3> QED BY <3>1, <3>2
  <2>4. s \in STRING BY CandidatesAre, SetOf DEF Scan!Symbols
  <2>5. w[s] \in {1, 2} BY <1>4, <1>12, <2>4 DEF Wanted
  <2>6. w[r[i]] \in Nat BY <1>4, <2>1
  <2>7. Enough(q, r[i])
    <3>1. w[r[i]] # 0 BY <2>3, <2>5, <2>6
    <3> QED BY <1>4, <2>1, <3>1
  <2> QED BY <1>3, <2>2, <2>3, <2>7 DEF Wanted
<1> QED BY <1>11, <1>12 DEF r, w

\* A list that was made by the rules.
Best(q, l) ==
  /\ l.scan \in Seq(STRING) /\ Distinct(l.scan)
  /\ l.quoted => \A s \in Scan!Symbols :
       Wanted(q, s) /\ (\A i \in 1..Len(l.scan) : l.scan[i] # s) =>
         \A i \in 1..Len(l.scan) :
           Wanted(q, l.scan[i]) /\ Weight(q)[s] <= Weight(q)[l.scan[i]]

\* The inductive invariant: so are the list in Redis and the list that is scanned.
Listed == market \in Markets /\ Best(market, cached) /\ Best(market, scanned)

LEMMA BuiltIs ==
  ASSUME NEW q \in Markets, NEW d
  PROVE  Best(q, [day |-> d, scan |-> Scan!Scan(q), quoted |-> TRUE]) /\ Best(q, Scan!Fallback(d))
<1>1. Best(q, [day |-> d, scan |-> Scan!Scan(q), quoted |-> TRUE])
  <2> DEFINE r == Scan!Scan(q)
  <2>1. /\ r \in Seq(STRING) /\ Distinct(r)
        /\ \A s \in Scan!Symbols : Wanted(q, s) /\ (\A i \in 1..Len(r) : r[i] # s) =>
             \A i \in 1..Len(r) :
               Wanted(q, r[i]) /\ Weight(q)[s] <= Weight(q)[r[i]]
    BY ScanIs
  <2> HIDE DEF r
  <2> QED BY <2>1 DEF Best, r
<1>2. Best(q, Scan!Fallback(d))
  <2>1. Liquid \in Seq(STRING) /\ Distinct(Liquid) /\ PoolSize \in Nat /\ ScanSize \in Nat
    BY ListsAssumption DEF Distinct
  <2> DEFINE p == Scan!FirstOf(Liquid, PoolSize)
             r == Scan!FirstOf(p, ScanSize)
  <2>2. p \in Seq(STRING) /\ Distinct(p) BY <2>1, FirstAre, FirstOrdered
  <2> HIDE DEF p
  <2>3. r \in Seq(STRING) /\ Distinct(r) BY <2>1, <2>2, FirstAre, FirstOrdered
  <2>4. Scan!Fallback(d).scan = r /\ Scan!Fallback(d).quoted = FALSE BY DEF Scan!Fallback, p
  <2> HIDE DEF r
  <2> QED BY <2>3, <2>4 DEF Best
<1> QED BY <1>1, <1>2

LEMMA ListedInit == MCInit => Listed
<1> SUFFICES ASSUME MCInit PROVE Listed
  OBVIOUS
<1>1. Scan!Init BY DEF MCInit
<1>2. market \in Markets BY <1>1 DEF Scan!Init, Markets
<1>3. cached = Scan!Nothing /\ scanned = Scan!Nothing BY <1>1 DEF Scan!Init
<1>4. Best(market, Scan!Nothing) BY DEF Best, Scan!Nothing, Distinct
<1> QED BY <1>2, <1>3, <1>4 DEF Listed

LEMMA ListedStep == Listed /\ [Scan!Next]_scan => Listed'
<1> SUFFICES ASSUME Listed, [Scan!Next]_scan PROVE Listed'
  OBVIOUS
<1>1. market' = market
  BY DEF scan, Scan!Next, Scan!Take, Scan!Refresh, Scan!Build, Scan!BuildFails, Scan!Save,
    Scan!Midnight, Scan!Redis
<1>2. Best(market, cached) /\ Best(market, scanned) /\ Best(market, Scan!Nothing) /\ market \in Markets
  BY DEF Listed, Best, Scan!Nothing, Distinct
<1>3. SUFFICES Best(market, cached') /\ Best(market, scanned')
  BY <1>1, <1>2 DEF Listed
<1>4. ASSUME NEW b, NEW l, Scan!Save(b, l), Best(market, l)
      PROVE  Best(market, cached') /\ Best(market, scanned')
  <2>1. cached' \in {l, cached} /\ scanned' \in {l, scanned} BY <1>4 DEF Scan!Save
  <2> QED BY <1>2, <1>4, <2>1
<1>5. ASSUME NEW b \in Builders, Scan!Build(b) \/ Scan!BuildFails(b)
      PROVE  Best(market, cached') /\ Best(market, scanned')
  <2>1. PICK l : Scan!Save(b, l) /\ Best(market, l)
    <3>1. CASE Scan!Build(b) BY <1>2, <3>1, BuiltIs DEF Scan!Build
    <3>2. CASE Scan!BuildFails(b) BY <1>2, <3>2, BuiltIs DEF Scan!BuildFails
    <3> QED BY <1>5, <3>1, <3>2
  <2> QED BY <1>4, <2>1
<1>6. CASE Scan!Take \/ Scan!Midnight \/ Scan!Redis \/ \E b \in Builders : Scan!Refresh(b)
  <2>1. cached' \in {cached, Scan!Nothing} /\ scanned' \in {cached, scanned}
    BY <1>6 DEF Scan!Take, Scan!Midnight, Scan!Redis, Scan!Refresh
  <2> QED BY <1>2, <2>1
<1>7. CASE UNCHANGED scan BY <1>2, <1>7 DEF scan
<1> QED BY <1>5, <1>6, <1>7 DEF Scan!Next

\* As many names as places.
LEMMA EachOnce ==
  ASSUME NEW s \in Seq(STRING), Distinct(s)
  PROVE  Scan!Cardinality(Scan!ToSet(s)) = Len(s)
<1> DEFINE T == Scan!ToSet(s)
<1>1. s \in [1..Len(s) -> T] /\ \A x \in T : \E i \in 1..Len(s) : s[i] = x
  BY DEF Scan!ToSet
<1>2. s \in Bijection(1..Len(s), T)
  <2> HIDE DEF T
  <2> QED BY <1>1 DEF Distinct, Bijection, Injection, Surjection, IsInjective
<1>3. ExistsBijection(1..Len(s), T) BY <1>2 DEF ExistsBijection
<1>4. IsFiniteSet(1..Len(s)) /\ Cardinality(1..Len(s)) = Len(s)
  <2>1. 1 \in Int /\ Len(s) \in Int /\ Len(s) >= 0 OBVIOUS
  <2> HIDE DEF T
  <2>2. /\ IsFiniteSet(1..Len(s))
        /\ Cardinality(1..Len(s)) = IF 1 > Len(s) THEN 0 ELSE Len(s) - 1 + 1
    BY <2>1, FS_Interval
  <2> QED BY <2>1, <2>2
<1>5. Cardinality(T) = Len(s) BY <1>3, <1>4, FS_Bijection
<1>6. Scan!Cardinality(T) = Cardinality(T) BY DEF Scan!Cardinality, Cardinality
<1> QED BY <1>5, <1>6

\* For all lists, sizes and quotes, and whoever builds the day's list meanwhile,
\* on whatever day and with or without Redis: no eligible candidate is passed
\* over for one that is not eligible or ranks lower, and none is scanned twice.
THEOREM BestFirstHolds == MCSpec => []BestFirst
<1>1. Listed => BestFirst
  <2> SUFFICES ASSUME Listed PROVE BestFirst
    OBVIOUS
  <2> DEFINE l == scanned.scan
             chosen == Scan!ToSet(l)
  <2>1. Best(market, scanned) BY DEF Listed
  <2>2. l \in Seq(STRING) /\ Distinct(l) BY <2>1 DEF Best
  <2>3. Scan!Cardinality(chosen) = Len(l) BY <2>2, EachOnce
  <2>4. \A x : x \in chosen <=> \E i \in 1..Len(l) : x = l[i] BY <2>2, SetOf
  <2>5. ASSUME scanned.quoted, NEW s \in Scan!Symbols \ chosen, Scan!Eligible(s), NEW t \in chosen
        PROVE  Scan!Eligible(t) /\ Scan!Quote(market, t).score >= market[s].score
    <3>1. PICK i \in 1..Len(l) : t = l[i] BY <2>4
    <3>2. Wanted(market, s) BY <2>5 DEF Scan!Eligible, Wanted, Enough
    <3>3. Wanted(market, t) /\ Weight(market)[s] <= Weight(market)[t]
      BY <2>1, <2>4, <2>5, <3>1, <3>2 DEF Best
    <3>4. s \in STRING /\ t \in STRING BY <2>2, <3>1, CandidatesAre, SetOf DEF Scan!Symbols
    <3>5. /\ Weight(market)[s] = market[s].score
          /\ Weight(market)[t] = Scan!Quote(market, t).score
          /\ Weight(market)[s] \in Nat /\ Weight(market)[t] \in Nat
      <4>1. market \in Markets BY DEF Listed
      <4>2. s \in DOMAIN market BY <4>1 DEF Markets
      <4>3. Weight(market) \in [STRING -> Nat] BY <4>1, WeightIs
      <4>4. /\ Weight(market)[s] = Scan!Quote(market, s).score
            /\ Weight(market)[t] = Scan!Quote(market, t).score
        BY <3>4 DEF Weight
      <4> QED BY <3>4, <4>2, <4>3, <4>4 DEF Scan!Quote
    <3> QED BY <3>3, <3>5 DEF Scan!Eligible, Wanted, Enough
  <2> QED BY <2>3, <2>5 DEF BestFirst, Scan!BestFirst
<1>2. Listed /\ [MCNext]_desk => Listed' BY Parts, ListedStep
<1> QED BY <1>1, <1>2, ListedInit, PTL DEF MCSpec
=============================================================================
