------------------------------- MODULE MCDesk -------------------------------
(***************************************************************************)
(* One run for the small components that share no state with each other:   *)
(* the run begins with the choice of one of them, and only this one moves. *)
(***************************************************************************)
EXTENDS Ownership, Naturals, Sequences, TLC

CONSTANTS
  Events, None,                           \* of ComplianceLedger
  Callers, Asked,                         \* of Governance
  Runs, SuiteSize, QuickSize, ReportSize, \* of ChaosSuite and StressReport
  MaxTokens,                              \* of KiteSession
  Liquid, Watchlist, MaxQuotes, PoolSize, ScanSize, Capped, Builders, MaxDays, \* of Universe
  Known,                                  \* bound: names that are eligible
  Names, MaxEvents                        \* of ShadowTrading

\* WatchlistProvider.resolve keeps each symbol once; scan_size is the smaller of
\* its setting and pool_size.
ASSUME ListsAssumption ==
  /\ Liquid \in Seq(STRING) /\ Watchlist \in Seq(STRING)
  /\ \A i, j \in 1..Len(Liquid) : Liquid[i] = Liquid[j] => i = j
  /\ \A i, j \in 1..Len(Watchlist) : Watchlist[i] = Watchlist[j] => i = j
  /\ {MaxQuotes, PoolSize, ScanSize} \subseteq Nat \ {0} /\ ScanSize <= PoolSize

VARIABLES
  part,                                                    \* the choice
  record, loaded, kept, redisOn, job, killed, faulty,      \* Governance
  log, open, head, bufFile, mem, pc, cur, pend, safe, cache, vpc, vres,
  asked, lost, dropped, torn, raced,                       \* ComplianceLedger
  run, binding, engine, gateway, mode, shared, rebound,   \* ChaosSuite
  report, old,                                             \* StressReport
  source, settings, validation, dated, mixed,              \* LiveEvidence
  session, row, env, client, connected, checking, login, leaving, serving,
  valid, issued,                                           \* KiteSession
  market, day, cached, building, scanned, redis,           \* Universe
  events, tornLine, held, book, saved, filling, trading    \* ShadowTrading

Ledger     == INSTANCE ComplianceLedger
Strategies == INSTANCE Governance
Chaos      == INSTANCE ChaosSuite
Stress     == INSTANCE StressReport WITH SuiteSize <- ReportSize
Evidence   == INSTANCE LiveEvidence
Kite       == INSTANCE KiteSession WITH phase <- serving
Scan       == INSTANCE Universe
Shadow     == INSTANCE ShadowTrading WITH torn <- tornLine, phase <- trading

ledger ==
  <<log, open, head, bufFile, mem, pc, cur, pend, safe, cache, vpc, vres, asked, lost, dropped, torn, raced>>
strategies == <<record, loaded, kept, redisOn, job, killed, faulty>>
chaos == <<run, binding, engine, gateway, mode, shared, rebound>>
stress == <<report, old>>
evidence == <<source, settings, validation, dated, mixed>>
kite ==
  <<session, row, env, client, connected, checking, login, leaving, serving, valid, issued>>
scan == <<market, day, cached, building, scanned, redis>>
shadow == <<events, tornLine, held, book, saved, filling, trading>>

MCInit ==
  /\ part \in {"ledger", "strategies", "owner", "chaos", "stress", "evidence",
               "kite", "scan", "shadow"}
  /\ Ledger!Init /\ Strategies!Init /\ Init /\ Chaos!Init /\ Stress!Init /\ Evidence!Init
  /\ Kite!Init /\ Scan!Init /\ Shadow!Init
  /\ part = "chaos" \/ mode = "paper"
  /\ part = "kite" \/ env = 0
  /\ IF part = "scan"
     THEN \A s \in Known : Scan!Eligible(s)
     ELSE market = [s \in Scan!Symbols |-> Scan!Missing]

MCNext ==
  /\ UNCHANGED part
  /\ IF part = "ledger"     THEN Ledger!Next     ELSE UNCHANGED ledger
  /\ IF part = "strategies" THEN Strategies!Next ELSE UNCHANGED strategies
  /\ IF part = "owner"      THEN Next            ELSE UNCHANGED vars
  /\ IF part = "chaos"      THEN Chaos!Next      ELSE UNCHANGED chaos
  /\ IF part = "stress"     THEN Stress!Next     ELSE UNCHANGED stress
  /\ IF part = "evidence"   THEN Evidence!Next   ELSE UNCHANGED evidence
  /\ IF part = "kite"       THEN Kite!Next       ELSE UNCHANGED kite
  /\ IF part = "scan"       THEN Scan!Next       ELSE UNCHANGED scan
  /\ IF part = "shadow"     THEN Shadow!Next     ELSE UNCHANGED shadow

desk == <<part, vars, ledger, strategies, chaos, stress, evidence, kite, scan, shadow>>

MCSpec == MCInit /\ [][MCNext]_desk

-----------------------------------------------------------------------------
LiquidNames == <<"a", "b", "c">>
WatchedNames == <<"b", "d", "e">>

MCSymmetry == Permutations(Events)

\* Of ComplianceLedger: a chain that verifies is the chain that was written.
ChainSound == Ledger!ChainSound

\* Of ComplianceLedger: an event given to record is somewhere, or known lost.
NothingVanishes == Ledger!NothingVanishes

\* Of ComplianceLedger: the cached verdict is the verdict.
VerdictFresh == Ledger!VerdictFresh

\* Of Governance: a killed strategy never trades again.
KilledStays == Strategies!KilledStays

\* Of Governance: what a restart loads is what was saved.
RestartKeeps == Strategies!RestartKeeps

\* Of ChaosSuite: no scenario leaves its patches behind.
PatchesRemoved == Chaos!PatchesRemoved

\* Of StressReport: a report that lets live trading pass was earned.
ApprovalEarned == Stress!ApprovalEarned

\* Of LiveEvidence: what was validated is what runs.
ValidatedWhatRuns == Evidence!ValidatedWhatRuns

\* Of KiteSession: orders go out with the token of the session, or of none.
TradesInSession == Kite!TradesInSession

\* Of Universe: the best candidates are scanned, each once.
BestFirst == Scan!BestFirst

\* Of ShadowTrading: a fill is a completed trade or an open position.
Balanced == Shadow!Balanced
=============================================================================
