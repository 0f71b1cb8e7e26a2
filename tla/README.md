# Apex Trader: specifications and proofs

TLA+ specifications of the parts of Apex Trader that must not go wrong when
real money is at stake, TLC configurations that model-check them on small
instances, and TLAPS proofs of the safety properties for every instance.
`PROJECT.json` says which source lines each definition translates, which
properties each run checks, and which mutation of the code each property
catches.

The specifications translate the Python code under `services/`. Where the code
and the documentation disagree the specifications follow the code, and a run
shows the disagreement (see *Disagreements*).

## 1. The system

One Python process (FastAPI with one worker, one asyncio event loop) runs three
loops next to the HTTP handlers: the control loop (period resets, retries of the
reconciliation), the lifecycle loop (exits and protective stops) and the
autonomous loop (end-of-day square-off, automatic start, scan cycle). State
lives in memory, in PostgreSQL (ledger, trade rows, operator pause), in Redis
(flags, idempotency claims), in files (compliance ledger) and at the broker.

| Component | State | Operations | Correct when |
|---|---|---|---|
| Execution engine (`execution/execution_engine.py`) | `order_lock`, reconciliation status, trade rows, claims | `place_order`, `place_exit`, `eod_square_off`, `retry_reconciliation` | no order is sent twice or beside another that may trade; every order that may trade has a durable row; the account is never short |
| Position lifecycle (`execution/lifecycle.py`) | none of its own | per position: book an executed stop, exit, notice a bad stop | the ledger agrees with the broker; an unprotected position is noticed |
| Reconciliation (`execution/reconciliation.py`, `control/reconciliation_state.py`) | status OK or DEGRADED, in memory and Redis | at startup; retried while DEGRADED | never OK over an order whose outcome is unknown |
| Duplicate protection (`execution/idempotency*.py`) | claims of client ids | claim, release, seed | one submission per id |
| Portfolio ledger (`portfolio/*`) | positions, cash, profit counters, halt flag; copy in the database | `record_fill`, `record_exit`, `persist`, `load`, capital sync, shutdown, resume | books exactly what was executed; memory and database converge |
| Trade rows (`trades/repository.py`) | one row per client id | create, update, list open | an unfinished row for every order that may trade |
| Orchestrator (`core/orchestrator.py`) | the components above | `startup`, `analyze_symbol`, kill switch, resume, flatten | recovery blocks entries until reconciled; kill switch holds until reset |
| Broker adapters (`brokers/*`) | connection, paper positions | place, cancel, status, reconcile | failures are reported as unknown, never as rejected |
| Autonomous engine (`autonomous/*`) | running flag (Redis), operator pause (database), day of the last square-off | start, stop, tick, square-off | the operator's pause is never undone automatically; one successful square-off a day |
| Decision brain (`icb/*`) | system state and kill latch in memory and Redis, cached signals | `authorize`, enter and leave SAFE_MODE, lock, reset | EMERGENCY_LOCK holds until an administrator resets it |
| Control flags (`control/*`) | halt flag, period keys, advisory lock | set, read, acquire, check | memory and Redis copies agree where it matters; one live writer per database |
| Compliance ledger (`compliance/store.py`, `recorder.py`) | log, head hash, buffer, cached verdict | record, flush, verify, repair | the chain verifies unless something was really lost; nothing recorded vanishes |
| Governance (`governance/*`) | the state of each strategy, in memory, a file and Redis | load, set a state, gate a trade, record an outcome | a killed strategy never trades again; a restart loads what was in force |
| Risk and sizing (`risk/*`, `sizing`) | none (a view of the ledger) | assess, size, approve, refuse | what the open positions may lose is within the limits, also when the view is old |
| Execution owner (`control/execution_owner.py`) | session of an advisory lock | acquire, check, close | one live writer per database; ownership lost is lost for good |
| Kite session (`brokers/kite_auth.py`) | session, its row, the adapter's client | login, disconnect, renew, connect | orders go out with the token of the session, or of none |
| Universe (`autonomous/dynamic_universe.py`) | the day's list in Redis | take, build, refresh | the best of the quoted are scanned, each once |
| Shadow mode (`shadow/engine.py`) | file of events, positions | entry, exit, missed, report | file and positions agree through failures |
| Stress suite and go-live (`chaos/*`, `golive/*`) | patches of `get_broker`, the report, the validation | run, judge, score, validate | no mock stays behind; live orders need evidence that was earned |
| Strategies, market data, regime, AI ranking, profit report, backtest, journal, alerts, support, UI | reports and signals | | to the execution path a choice to begin an entry |

**Interactions.** `analyze_symbol` takes `order_lock`, asks the ICB and the risk
engine, calls `place_order`, and books the fill with `record_fill`. The
lifecycle loop takes the same lock for each position; the square-off holds it
for the whole sweep. `retry_reconciliation`, the capital sync, the period reset
and the operator's resume and kill switch run **without** the lock. Broker calls
run in executor threads that a timeout does not stop.

**What is hard here.** Awaits inside critical sections (state read before a
broker call and used after it); timeouts that give up on a request that still
arrives; a timeout around the whole analysis that can cut the operation between
any two awaits; crashes between the broker's answer and the ledger; partial
fills; stops that fill while they are cancelled; a status with two writers, one
of them outside the lock; files and flags written in two steps. Each of these is
listed under `hazards` in `PROJECT.json` at the line where it bites.

## 2. Modules

| Module | Models | Uses |
|---|---|---|
| `Broker` | the broker account: orders, stops, net quantity (external) | |
| `OrderIntent` | abstract: what the submission of orders promises | |
| `LiveExecution` | live execution: entry, exit, square-off, lifecycle check, ledger, rows, reconciliation, crash and recovery; implements `OrderIntent` | `Broker`, `OrderIntent` |
| `MCLiveExecution` | instances for TLC | `LiveExecution` |
| `LiveExecutionProofs` | type correctness, proved | `LiveExecution` |
| `LiveIntentProofs` | `DurableIntent`, `SubmissionAlone`, `SentOnce`, `RecoveryFlags` and the refinement, proved | `LiveExecutionProofs` |
| `LiveExitProofs` | `OneSell`, `SellAfterStops`, `FlatNoOrders`, `NoShort`, proved | `LiveIntentProofs` |
| `LiveAccountProofs` | `Accounted`, proved | `LiveExitProofs` |
| `ControlFlags` | who may trade: pause, halt, kill latch, system state, run flag; the engine's start and stop, kill, flattening, resume and reset, entries up to the order | |
| `MCControlFlags`, `MCKillReset` | instances for TLC: which operations are asked for | `ControlFlags` |
| `ControlFlagsProofs` | `PausedNoEntry`, `AutoRespectsPause`, `LockOrder`, `RunFlagOwned`, `NoEntryAfterKill`, `SerialResetAccepted`, proved | `MCKillReset` |
| `Ownership` | which process may write to the broker | |
| `LedgerMoney` | cash, equity, the day's result and the halt, in memory and in a row that three tasks save | |
| `LedgerMoneyProofs` | `BackedOrHalted`, `EquityTrue`, `DayLossTrue`, `BasisBacked`, proved | `LedgerMoney` |
| `RiskBudget` | from the risk view to the booked position: what entries may risk | |
| `MCMoney` | an instance of these two | `LedgerMoney`, `RiskBudget` |
| `RiskBudgetProofs` | `HeatTrue`, `WorstDay`, `SizedPasses`, `StreakLocks`, proved | `MCMoney` |
| `ComplianceLedger` | the event store and its recorder | |
| `Governance` | the state of a strategy in engine, file and Redis | |
| `ChaosSuite`, `StressReport`, `LiveEvidence` | the runs of the stress suite and their patches; its report; the validation | |
| `KiteSession` | login, disconnect, renewal and the client of the adapter | |
| `Universe` | the list of a day and those who build it | |
| `ShadowTrading` | the shadow file beside portfolio and database | |
| `MCDesk` | an instance of the components that share no state | `Ownership` and the eight above |
| `DeskProofs` | what the run `desk` checks, proved | `MCDesk` |

`LiveExecution` and `ControlFlags` meet at `place_order` and at the square-off:
`LiveExecution` models what an entry does once its flags have been read and what
the sweep sells, and lets the operator's halt and resume happen at any time;
`ControlFlags` models who sets and reads those flags, and takes an entry as far
as the order and the sweep as one step that may leave the portfolio halted.

### 2.1 LiveExecution

The holder of `order_lock` is one *operation*. `pc` names the await it has
reached, `who` on whose behalf it runs (an entry, the lifecycle loop, the
square-off), `cur` the client id it works on, `res` the `OrderResult` in its
hand. A step is the code from one await to the next, so a database or Redis
write and the assignments around it are one step, and a broker call is two: the
request leaves (`Submit`, `PlaceStop`), the answer arrives (`Ack`, `StopAck`) or
does not (`SubmitUnknown`, `StopUnconfirmed`).

| Variables | Code |
|---|---|
| `pos`, `halted` | `PortfolioState.positions` (quantity and stop id), `.emergency_halt` |
| `dpos`, `dhalt` | their copies in the database |
| `row` | `TradeRecord.status` |
| `claims`, `memclaims` | idempotency claims, in Redis and, taken while it does not answer, in memory |
| `degraded`, `rpc`, `rbad` | the reconciliation status; a reconciliation under way and whether it has met an issue |
| `todo`, `errs`, `flat` | `eod_square_off`: positions left, errors met; what the last one reported |
| `armed` | the `asyncio.wait_for` of `analyze_symbol` can still fire |
| `unlisted`, `cut`, `owned`, `late`, `unclaimed` | history, read by properties only |
| `mkt`, `prot`, `held` | the broker: market order and stop of each client id, net quantity |

An entry goes `check` (flags, rows, claim), `intent` (`create_pending`), `gate`,
`submit`, `ack`, `record`, `poll` (`reconcile_order`), if unfinished `cancel` and
`status`, then `stop`, `stopack`, `stopcheck` (`_attach_stop_loss`), `final`
(the row, and the claim released), `fill` and `commit` (`record_fill` in memory and in the database). An
exit goes `x_stop` and `x_stopstatus` (cancel the stop and read it back),
`x_qty` (compare with the broker), the same order steps, `x_close` (its row, a
stop for the residual), `x_book` and `x_commit` (`record_exit`), `x_rowclose`
(the entry's row).

Modelled failures: any broker call fails or is not answered while its request is
in flight; a stop fills during its cancellation; orders are withdrawn by the
exchange; the database fails at any write; the analysis timeout fires at any
await; Redis does not answer (`RedisFails`), so that a claim is taken in memory
and a crash forgets it; the client disconnects while an order is polled (`Poll`
then says FAILED, and the claim is released under a row that is not final); the
process dies at any step and recovers from database, Redis and broker. Between any two steps the reconciliation retry, the operator's halt and
resume, and the broker run.

Abstractions, each of which only adds behaviour unless said otherwise:

- Prices, cash and profit are left out; where a guard compares a price (stop or
  target reached, gate blockers) the step is possible or not by choice.
- `_pre_execution_block`'s flags, rows and claim are read in one step.
- A claim in Redis never expires: it lives twice as long as the time bucket its
  id is made of. An id may be used again in its bucket after a rejection.
- Bound `OneRow`: `record_fill` inserts a row into the table of positions whatever
  rows the symbol has, and `dpos` has one row a symbol. So no entry begins for a
  symbol whose row has outlived its position (the database failed when it was
  sold). This one restricts: two open rows of a symbol, at which `close_position`
  raises, are not modelled.
- The database is up or down for one step as a whole.
- The broker executes one unit at a time; `Lot` is two in the run about partial
  fills.
- `BeginEntry` is not guarded by the flags, because the ICB decides from signals
  up to 60 s old.
- The reconciliation reads broker and ledger in one step and applies its verdict
  in another; reading is really several calls.
- One reconciliation status: its memory and Redis copies are separate work.
- An order request lost or late is `lost` or `transit`; a cancelled order is
  never filled afterwards (the broker's own guarantee).

### 2.2 ControlFlags

A request, a turn of the autonomous loop or the startup is a *task* (`Tasks`);
`task[t].op` is its operation and `task[t].at` the step it has reached. A step is
what the code does between two awaits at which another task can change a flag or
a lock. Tasks run in any interleaving, and an operation begins at any time, with
the one exception that `auto` and `eod` are turns of the one autonomous loop.

| Variables | Code |
|---|---|
| `mem`, `cached` | the memory and Redis copies of the kill latch, the system state and the halt flag (`icb/system_state.py`, `control/halt.py`); `cached` also has the run flag, which is in Redis only |
| `redis` | Redis answers |
| `healthy` | `icb._healthy` |
| `paused` | `operator_control.entries_paused` in the database |
| `port`, `dport` | the portfolio's halt (`ok`, `halted`, `swan` for a black swan), in memory and in the database |
| `startLock`, `orderLock` | holders of `autonomous._start_stop_lock` and `execution.order_lock` |
| `phase` | the process is down, starting up, or serving |
| `killed`, `started`, `skipped` | history, read by properties only |

| Operation | Steps |
|---|---|
| `kill` | `authorize`, then stop (`lock`, `order`, `pause`, `unrun`), `shut` (portfolio), `sweep` (square-off), `latch`, `locked`, `locked2`, `halt` |
| `flatten` | `swan`, then as a kill |
| `stop`, `eod` | `lock`, `order`, (`pause`,) `unrun`; `eod` goes on to `sweep` |
| `start` | `lock`, `authorize`, `unpause`, `run` |
| `auto` | `ready`, `lock`, `willing`, `authorize`, `run` |
| `tick` | `running`, `authorize`, `gate`, and for each symbol `symbol`, `order`, `analyze`, `checkpause`, `checkhalt`, `submit`; stale evidence at the gate makes it `chaos`: safe mode, then stop |
| `analyze` | the same from `order` |
| `resume`, `reset`, `clear` | `branch`; `latched`, `latched2`, `unlatch`, `heal`, `active`; `reopen`, `unhalt` |
| `lock`, `safe`, `pause`, `activate`, `recover` | the administrator's requests to the ICB |
| `boot` | `heal`, `active`, `load`, `fresh`, `relock`, the latch if it must, `recovered`, the automatic start; it begins at `load` if the compliance log could not be replayed, since the gateway ignores that (`skipped`) |

Modelled failures: Redis goes away and comes back with or without its data; a
read then falls back to memory, a write reaches memory only, and a write of the
run flag raises; a database statement fails (`DbFails`): the operation ends, or,
where the code ignores the failure, memory and database differ; the process dies
between any two steps; the execution engine halts the portfolio on its own at
any time (`Shutdown`).

Abstractions:

- `authorize` reads several signals and flags over several awaits; here it is
  one step. What it must deny is `Allowed`; risk, drift, market hours, stale
  evidence and its timeout may make it deny anything, or enter safe mode.
- Both copies of a flag are written in one step. A Redis key never expires.
- The square-off is one step during which nobody else holds `order_lock`; what it
  does is `LiveExecution`'s.
- Session hours, the risk gates of a cycle and the signals are a choice.

### 2.3 ComplianceLedger

`log` holds the lines of the ledger, `head` the head-hash file, `bufFile` and
`mem` the two buffers. Recording is synchronous, so no other code of the process
runs between its steps, but each write may fail half-way and the process may die
between any two; the verification runs in a thread (`icb/signals.py`). A hash is
the sequence of events it commits to: no two collide, and two records chain
exactly if one's sequence extends the other's. A torn line and everything
written onto it cannot be read (`Junk`).

### 2.4 LedgerMoney and RiskBudget

`LedgerMoney` has three tasks that save the same row: the trading path (under
`order_lock`), the control loop (period reset, capital sync) and the operator
(halt, resume). A transaction `tx[t]` holds what the save has read and means to
write: the ORM writes only columns that differ from what was read, so a slow
save puts an old value back only where it saw a change. `at[t]` is the step of
the task. `Begin` reads, `Commit` writes, `Fail` raises, with or without the
commit having been made. A crash loads the row. `excuses` names what a property
excepts (below).

`RiskBudget` follows one analysis: `Assess` takes the risk view, `Size` computes
the quantity from the portfolio as it is after an await, `Approve` passes it
through the risk engine with the *older* view and the reductions, `Fill` books
it with the risk that was sized; between them the control loop copies the
broker's cash and resets the day. A limit is in thousandths of a percent, the
digits to which the code rounds a position's risk when it sizes. A partial exit
leaves a position its exact share of the risk, which here is rounded when it is
read (`Share`), from the risk and the quantity that were bought, so that the
error of many exits is that of one. `Slack` is half a unit of rounding for each
of the two, on every position.

### 2.5 Ownership

A live process takes a PostgreSQL advisory lock before it starts; each write to
the broker asks for it again (`Ask`, then `Pass` or `Fail`) and is then made in a
thread that nothing cancels (`Written`). The server may end the session at any
time, and the connection may break without the server noticing (`ghost`).

### 2.6 Governance

`kept` has the three copies of a strategy's state, which a save writes one after
another and a load prefers in the order Redis, memory, file. The first use of
the engine loads, after an await in which other callers act. `faulty` is set by
what the properties except: Redis or the file missed a save, or two loads raced.

### 2.7 ChaosSuite, StressReport, LiveEvidence

`ChaosSuite` is about what the stress suite does to the process it runs in:
`binding` is what `get_broker` returns, and a run keeps what it replaced. A change
of mode, a login and a disconnect (`SetMode`, `Relogin`) make the gateway's engine
ask for a broker, also in the middle of an injection (`rebound`).
`StressReport` is the report as a pure function of how the scenarios went, with
the score's rounding, and the gate that reads it. `LiveEvidence` tells the code
on the disk from the code that runs: while they differ (`Pending`) a validation is
compared with the one and the other trades. Of the settings it has those that the
fingerprint has, by the beginning of their names; `kelly_cap_fraction`,
`consecutive_loss_halt` and `mis_sizing_leverage` are not among them.

### 2.8 KiteSession

Tokens are numbered as Kite issues them. `Token` is what
`get_access_token_sync` returns. `connect` replaces the client before Kite has
answered for it (`checking`), and a late failure takes away whatever client is
there by then. Login (`Exchange`, `LoggedIn`) and disconnect (`Invalidate`,
`Forget`, `Clear`) overlap each other and the ticks of the lifecycle loop.

### 2.9 Universe

A quote is whether it has the price and volume asked for, its score, and whether
it is above the price cap. The quotes do not change during a behaviour, because
a list is judged by the quotes it was made from. A list is saved under the day
on which its build began; builders overlap.

### 2.10 ShadowTrading

`events` are the entries and exits of the file, `held` the engine's positions,
`book` and `saved` the portfolio's and the database's. An entry is in the file
before it is in the portfolio (`Simulate`, then `RecordFill` or `FillLost`); a
torn line stops the next start.

## 3. Properties and runs

| Run | Instance | Checks |
|---|---|---|
| `partial_fills` | one entry and one exit of two units | `TypeOK`, `NoShort`, `Accounted` |
| `exits` | one entry, two exits of one unit | `OneSell`, `FlatNoOrders`, `SellAfterStops` |
| `entries` | two entries | `DurableIntent`, `SubmissionAlone`, `RecoveryFlags`, `ImplementsIntents` |
| `claims` | one entry, sent again and again; Redis may not answer | `SentOnce` |
| `liveness` | one entry, one exit, fair | `ProtectionNoticed` |
| `engine` | two tasks; kill, start, auto, stop, eod, tick, analyze | `PausedNoEntry`, `AutoRespectsPause`, `RunFlagOwned`, `LockOrder` |
| `kill` | two tasks; kill, flatten, start, tick, analyze, activate, recover; or one task at a time with resume, reset and the administrator's requests | `NoEntryAfterKill`, `SerialResetAccepted` |
| `desk` | one of nine parts: the compliance ledger with three events, `Governance`, `Ownership`, `ChaosSuite`, `StressReport`, `LiveEvidence`, `KiteSession`, `Universe`, `ShadowTrading` | `ChainSound`, `NothingVanishes`, `VerdictFresh`, `KilledStays`, `RestartKeeps`, `OneWriter`, `LostForGood`, `PatchesRemoved`, `ApprovalEarned`, `ValidatedWhatRuns`, `TradesInSession`, `BestFirst`, `Balanced` |
| `money` | `LedgerMoney` with one position of three units and two troubles; or `RiskBudget` with two instruments, three entries and one trouble | `BackedOrHalted`, `EquityTrue`, `DayLossTrue`, `BasisBacked`, `HeatTrue`, `WorstDay`, `SizedPasses`, `StreakLocks` |
| `timeout_latches`, `kill_undone`, `reset_refused` | as small as shows it | one claim each, violated (section 5) |

`desk` and `money` begin with the choice of a part, and only this part moves:
components that share no state are one run and not their product. `kill` chooses
its question in the same way (`MCKillReset`); its CONSTRAINT `Asked` leaves out
the operations the question does not ask about.

What they show:

- **Entries.** An order that may trade always has an unfinished row
  (`DurableIntent`), so nothing else is sent beside it (`SubmissionAlone`), its
  id is not sent again (`SentOnce`), and recovery after a crash ends DEGRADED
  (`RecoveryFlags`). Every step is a step of `OrderIntent` or a stutter
  (`ImplementsIntents`). The exceptions are made explicit: `unlisted` holds the ids
  whose row is not theirs (a reused id, a row closed with its position), and
  `unclaimed` those whose claim was taken in memory, which a crash or the return
  of Redis loses, or was released before the order was known to be over. Such an
  id, once rejected and then used again, is sent twice, and the code does so.
- **Quantities.** Between operations the ledger's quantity is the broker's, or a
  row, the status or a named exception says it may not be (`Accounted`).
- **Exits.** At most one market sell works at a time (`OneSell`); none is sent while
  a stop the ledger named works (`SellAfterStops`); the account never goes short
  (`NoShort`) unless a stop whose answer was lost, which the ledger never named,
  has sold. After a flat report no market order works and no stop the ledger has
  named (`FlatNoOrders`). It may not be flat at the broker: a stop whose answer
  was lost works on without a name, that of an entry and the one `place_exit` sends
  for a residual ("<id>-r"), which has not even a row.
- **Liveness.** A position without a working stop is noticed
  (`ProtectionNoticed`), if the lock is free again and again. This holds only as
  liveness: a verdict applied late may clear the status once, and the lifecycle
  loop sets it again. That an operation gives the lock back is not claimed: it
  waits for the database, Redis and, in an exit, the broker without a timeout.
- **Pause.** No order goes out and no automatic start completes under the
  operator's pause (`PausedNoEntry`, `AutoRespectsPause`): stop sets the pause
  while it holds both locks, and everything that relies on its absence holds one.
  A process never runs on a run flag an earlier one left in Redis
  (`RunFlagOwned`). The two locks are always taken in one order, and stop gives
  both back before the square-off takes one of them again (`LockOrder`).
- **Kill.** Once a kill or flattening has returned, no entry that was under way, no
  start, activation, recovery, crash or loss of Redis and its data lets an order
  out (`NoEntryAfterKill`): the portfolio's halt, read last, does not depend on
  Redis. The run leaves out resume, with which the claim is false (section 5).
- **Reset.** One operation at a time and cut short by crashes, whenever trading
  is locked the reset is accepted (`SerialResetAccepted`), since startup
  latches a halted portfolio again and heals a lock without a latch. Excepted is a
  process that came up without its compliance log (`skipped`): it has not healed.
  The run leaves out `clear`, with which the claim is false.
- **Compliance.** The chain verifies whatever fails or dies *between* writes; it
  breaks only when a write is interrupted half-way or an old head stays
  (`ChainSound`). No event vanishes except where the module says
  (`NothingVanishes`). A cached verdict is the verdict unless a failed append or
  the race of the thread says otherwise (`VerdictFresh`).
- **Money.** What the trading path could not save stops entries (`BackedOrHalted`). Whichever
  saves overlap, fail or are cut by a crash, a ledger that has the broker's
  position has what its sales have earned (`EquityTrue`) and, after the day's
  reset, what this day has earned (`DayLossTrue`); the capital that risk is
  measured against is never more than the account is worth (`BasisBacked`). The
  exceptions are real: a slower save writes an old value (`stale`), a crash
  forgets a position that had no row (`unlisted`), Redis forgets the mark of the
  reset (`blind`), a crash comes before the reset is saved (`carried`), a sale
  before the reset (`early`), an operator resumes over it (`reviewed`), an entry
  is bought over a row that was never closed (`over`).
- **Risk.** The planned loss of the open positions stays within the heat limit
  (`HeatTrue`), except after a purchase above the signal's price; the day's loss
  with every stop hit stays within the day's limit *and* the heat limit together
  (`WorstDay`): the daily limit alone bounds each entry and not the day. What
  is sized while the view of the risk engine is still true passes it
  (`SizedPasses`). A streak of losses that
  halts trading halts it until something held is sold without a loss
  (`StreakLocks`), so with nothing held it never ends by itself.
- **One writer.** Of two processes with a write under way, one at most still has
  the lock its check has seen (`OneWriter`), and a failed check is final until
  the process restarts (`LostForGood`).
- **Governance.** A strategy whose kill was answered does not trade again
  (`KilledStays`), and a restart loads what was in force (`RestartKeeps`), unless
  a copy missed a save or two loads raced. These the code does not prevent: after
  one of them a restart may revive the strategy.
- **Going live.** No mock broker is left in the process by a suite that raises
  (`PatchesRemoved`); overlapping suites do leave one, and a gateway that asks for
  a broker during an injection keeps the mock until it asks again. A report that lets live
  orders out is of a whole suite without an unsafe scenario (`ApprovalEarned`);
  a validation vouches for the code that runs and for the settings the fingerprint
  has (`ValidatedWhatRuns`), unless the disk has other code, by a deployment or a
  rollback without a restart, now or when it was made.
- **Session.** Outside a login or disconnect the adapter never sends with a token
  other than the session's (`TradesInSession`).
- **Universe.** Whatever the cuts, fillers and price cap leave, nobody is scanned
  twice and no eligible candidate is passed over for a worse one (`BestFirst`).
- **Shadow.** Every simulated fill is a completed trade or an open position, each
  once, in the report that is evidence for going live (`Balanced`).

**Bounds.** One instrument: all gates of the code (lock, flags, rows) are global,
so a second instrument adds interleavings of the same kind at a cost of orders of
magnitude. Two ids of a kind are what the properties about two orders need; each
id may be sent again and again as the code allows. Two units per lot are the
smallest number with a partial fill. `RedisFails` is TRUE in `claims` only, where
one entry that is sent again is the case in question; the theorems are for either
value. With one entry a symbol's row never outlives its position and is bought
over; with more the bound `OneRow` keeps this out, of the theorems too. Crashes, timeouts, retries, halts and
resumes are unbounded. `exits` uses symmetry of the exits and a view (`MCView`) that
drops what neither a later step nor a property of the run reads: two history
variables, the memory of a process that has died, and the quantities of an
order that is over and that neither the operation nor the ledger names. Neither
is used for liveness.

In `ControlFlags` two tasks at a time give every pair of operations in every
interleaving, each as often as it likes; for any number of tasks the four
properties of `engine` and `NoEntryAfterKill` are proved (section 4). `MaxOutages` is one loss of
Redis and `MaxCrashes` one crash (two in the second question of `kill`): a second follows from the
same states, because startup forgets everything but Redis and the database.
That question has one task because `ResetAccepted` speaks of a quiet system; what
overlapping operations can leave behind is section 5's second table.

Three events in the compliance ledger give a line before, at and after a broken
one. `LedgerMoney` has one position of three units, the smallest of which two
parts can be sold while a save is under way and a rest is left: with two units
`BackedOrHalted` held without its exception for a slower save. Two troubles (a
sync, failure, crash, outage, midnight or request) are the fewest of which one
can hide another; a day more adds no new relation between mark and counter. Two
entries of two units with two troubles, two of three with one, and one of two
with three were checked too, outside the run, which they would make too long. `RiskBudget` has a capital of 1100 and a signal at 200 with
limits of 4.5, 4.5 and 5 percent: small numbers in which each of the limits is
the tightest at some point and rounding matters; four losses halt. A second stop
makes the run longer without a new order of the limits; it is close to the
first, and the lowest price is below both. `Ownership`
has two processes with two writes each (the proofs are for any number).
`ChaosSuite` has the background run and one request. `StressReport` has seven
scenarios, all results of which are tried. `KiteSession` has three tokens and
one login at a time, which a disconnect overlaps. `Universe` has four
candidates, of which three are liquid, a pool of three and a scan of two, two
builders and two days. A fifth name is cut by the limit on quotes. The last
candidate (`Known`) is always eligible, which makes the markets fewer and leaves
a filler something to be preferred to. `ShadowTrading` has two symbols
and six events.

Deadlock is checked wherever the process goes on: it may always crash or
restart. `desk` and `money` say `CHECK_DEADLOCK FALSE`, because what their parts
model may stop: the tokens Kite issues, the events, entries and troubles of the
bounds run out, and a torn shadow file keeps the process from starting.

**Fairness** (`FairSpec`). Strong fairness of the lifecycle check of a position,
and nothing else: its loop runs for ever and `asyncio.Lock` is first-in first-out,
so a condition that is there again and again is met when the loop holds the lock.
No operation is assumed to end: neither the database (`shared/database.py`) nor
Redis (`shared/events.py`) nor the broker's calls of an exit or square-off have a
timeout. Nothing is assumed of the broker, the operator, entries, exits, crashes
or restarts either. Hence the hypothesis of `ProtectionNoticed`, that the lock is
free again and again (`[]<>(pc = "idle")`): if an await under it never returns,
nothing in the code notices. No liveness is claimed of `ControlFlags`: that nobody
waits for ever at a lock is `LockOrder`, a safety property, of operations that go
on.

## 4. Proofs

`LiveExecutionProofs` proves `Spec => []TypeOK` for every set of instruments and
client ids and every lot. It is not shallow: quantities are natural numbers, so
the proof shows that no booking exceeds the position and no residual is
negative. The inductive invariant `Typed` adds to `TypeOK` what each phase of an
operation has in its hands (`Phase`: an exit has an exit id, an entry an entry
id) and what quantities may be (`Values`). One lemma per action; `NextTyped`
puts them together.

`LiveIntentProofs` proves the four properties of entries from the invariant
`Intent`, a conjunction of named parts:

- `FirstRow`, `Claimed`: an id with no row has never been sent; an id under way is
  claimed, unless Redis did not keep its claim;
- `Alone`: while an entry is between the check and its submission no other order
  may trade, except the unlisted;
- `Before`, `After`: what the current order's row and the broker's order are on
  either side of the submission;
- `Recovering`: a reconciliation that recovery waits for has met an issue if a
  row is unfinished;
- `DurableIntent` itself.

`DurableIntent` is not inductive without them: a step that finishes the row of
`cur` keeps it only because that order is known to be over (`After`), and a
submission keeps it only because the row was written before (`Before`).

`ControlFlagsProofs` proves `PausedNoEntry`, `AutoRespectsPause` and `LockOrder`
for any number of tasks, any set of operations and any number of outages and
crashes. The inductive invariant `Turns` says of every task (`Turn`):

- `Holding`: at which steps of which operations it may hold a lock;
- `Needing`: which steps it reaches only with a lock;
- `Shaped`: which operations have the step it is at;
- `Unpaused`: what it relies on after it has read the pause.

`Unpaused` is the point and is not inductive alone: it survives the step of
another task because only a task with both locks sets the pause (`Needing` at
`pause`), and a task that relies on its absence holds one of them.
`OthersKeepTurn` says this once, for all steps; each lemma below it then shows
only that the task that moved has its own turn right.

The same module proves `RunFlagOwned` for the same instances. `Owned` says who
may be past the step of the startup that forgets the run flag: before that step
(`Early`) the flag may be anyone's, after it (`Late`) and in a process that
serves, a flag that is set was set by a start of this process (`Ran`). One lemma
per group of actions shows that a step neither sets the flag without a start nor
forgets that there was one (`Keeps`), and `StartupMoves` that the startup cannot
end, nor get past the step, without taking it. It rests on `Turns` for the one
fact that a process that is down has no task.

`NoEntryAfterKill` is proved there for any number of tasks and crashes from
`Seal`, beside `Turns` and `Owned`. A kill halts the portfolio before its
square-off, and the square-off waits for `order_lock`; so once it is through,
nobody is on the way to an order (`KillHolds`), and who is to get there must be
let through by the brain, which denies it while the portfolio is halted or the
latch is set (`SaysNo`). What is left of a kill after a crash is the halt in the
database or the latch in Redis (`Sealed`), one of which the next startup reads
before it serves (`Loaded`, `Alone`). Two hypotheses limit the theorem. Nobody
asks for resume, reset or clear: these are meant to lift a kill, and the run
`kill_undone` shows one that undoes it while it is under way. And not both the
database and Redis fail (`Unlifted`): if both do, a kill that could save neither
its halt nor its latch is forgotten by a crash, and entries go out again.

`SerialResetAccepted` speaks of what a run asks (`MCKillReset`): one operation
after another, of which none is `clear`, cut short by any number of crashes,
while Redis answers. The theorem has that as a hypothesis (`[]Asked`) and the
bound on outages as a number; the invariant, beside `Turns`, is `Resets`. A black
swan without a latch means that the operation under way will set the latch or
take the swan away (`Locking`), a stored EMERGENCY_LOCK without a latch that it
will write another state (`Healing`) or that the startup will; and where an
operation relies on the latch it is set (`Sure`). With nothing under way a lock
is then latched. All of this is claimed of a process whose startup has replayed
its compliance log (`~skipped`), as the property is. One lemma per step shows that it keeps this for itself
(`OneStep`). The other hypothesis, that no statement of the database fails, is
needed: a flattening whose pause fails ends with the swan and no latch.

`Implements`, in `LiveIntentProofs`, is the refinement: `Spec` implies
`OrderIntent`'s specification under the mapping from unfinished rows, orders that
may trade and unlisted ids. Given `Typed` and `Intent` before and after the step,
a submission is `Send` (`SubmitSends`), a step of the broker or a cancellation
that ends an order is `Over` (`EndsOne`), and everything else is `Book`
(`OthersBook`), because `DurableIntent` holds afterwards. `OrderIntent` allows a
second `Send` to the ids in its `loose`, to which `unclaimed` is mapped.

`LiveExitProofs` has the properties of exits. A flat report is a state in which
the ledger holds nothing and every row is finished (`FlatRest`), so that a market
order is over and no position names a stop that works, and only the operations
that withdraw the report leave it. `OneSell` needs that the sell about to be
sent is alone (`SellAlone`), which the rows of the others tell. `SellAfterStops`
needs to know whose stops may still sell: a stop that the ledger has named, and
that works, is the one its position names (`Named`), in memory or, after a
crash, in the database; no id of a stop is used again (`Kept`); and an exit has
no stop left when it is sent (`Seller`).

`NoShort` is the long one, because every quantity matters. `Answers` says that
the quantity an operation has been told is what its order has executed, or less
while it may still trade; `Sole` that of the exits and stops of an instrument
only one works at a time; `Room` that what is held covers what this one may
still sell, and what the operation has bought or means to sell. Because only one
works there is no sum in the invariant, and no bound on the number of orders.
All of it is about an instrument of which no stray stop has sold and no id has
gone out twice (`Loose`, `Twice`), which are the exceptions of the property.

`LiveAccountProofs` proves `Accounted`. While an operation has an order or a stop
out, ledger and account differ by what these have executed: `Bargain` says by how
much at each step, and between operations they are equal (`Even`). This is
claimed where it can be relied upon (`Sure`): the status is not DEGRADED, no
unfinished row hides a fill (`Hidden`), no analysis was cut, no stop is stray. A
step that upsets the balance raises one of these doubts, and only a
reconciliation that has compared the two sides and met no issue takes the
status back; then they agree by what it compared.

`LedgerMoneyProofs` proves `BackedOrHalted` for every lot, price and number of
entries and troubles. The property speaks of the pauses of the trading path; the
invariant `Backed` extends it to every step but the two that book, and says what
an open transaction means to write (`Means`): only the trading path inserts or
closes, with the quantity that is in memory, and the close has the row that is
open. `SaveKeeps` is the point: a save that commits either leaves a right
quantity right or is noted as `stale`. The attempt to prove this without that
exception is what showed that a position of two units was too small an instance.

The proofs about money follow one column through all saves that are open.
`Held` says what the row is that a crash would load, and what an open save would
make of it (`Rows`, `Writes`); `Earnings` that the equity in memory is what the
sales have earned, once the sale being booked is counted, and that a row with
the account's quantity has the equity that goes with it. `Losses` is the same for
the day's loss, with the day of the mark (`Calendar`). `Worth` says that the
account is worth what its sales have earned, so that `BasisBacked` follows. The attempt found `EquityTrue` false without
the exception `over`, in behaviours of two entries and four troubles which the
run does not reach: an exit is not saved and halts; a save of another task that
had begun before is, and takes the note away that something was not saved; an
operator resumes; an entry is bought; and a crash loads the row of the first
position, which has the quantity of the second but not what the exit has earned.

`DeskProofs` has the components of `MCDesk`. A step of the desk is a step of one
of them or leaves it alone (`Parts`), so each has an invariant of its own:

- ownership, for any number of processes and of writes under way in each: a
  write whose check has passed and that no loss of the session has cut is the
  lock holder's (`Held`), hence `OneWriter`; a process that is down does not hold
  the lock (`HandedOver`), so that the next can start; and a failed check is
  final (`LostForGood`);
- the session, for any number of tokens (`TradesInSession`): the property must
  also hold while a login is under way whose session was given up, because its
  callback then raises and leaves the adapter as it is (`Clients`);
- governance, for any number of callers: unless `faulty`, the file has what is in
  force, Redis has it too or has nothing when no save is under way, and a load has
  found what was there as long as nothing is loaded (`Keeping`), hence
  `KilledStays` and `RestartKeeps`;
- the stress suite, for any runs and scenarios: only a run that injects has a
  mock in place, and what it keeps is the broker's own (`Patches`), hence
  `PatchesRemoved`; a report of any length that approves has earned it, however
  its score is rounded (`ApprovalEarned`); the validation (`ValidatedWhatRuns`);
- shadow trading, for any number of symbols: the lines of the file are counted
  as sets of their numbers, so that no recursion is needed (`Counted`, hence
  `Balanced`);
- the universe, for lists and sizes of any length and any quotes. A list is
  sifted by recursion over its names (`Those`), which loses no name, doubles none
  and keeps the order (`ThoseAre`); the rest is about lists that fall by score
  (`Falling`) when they are cut, joined and sifted. Fillers have no score, so the
  filled pool still falls (`FilledAre`), and what the price cap leaves falls too:
  who is not scanned stands behind those who are (`ScanIs`), hence `BestFirst`,
  which a list keeps in Redis (`Listed`);
- the compliance ledger, for any set of events. What is read of a file is a
  recursive function of its lines; it exists and is read line by line by
  induction (`Reads`), and appending a line appends its record. `LedgerOK` says what the
  recorder has in hand at which step; `VerdictFresh`, `NothingVanishes` and
  `ChainSound` follow with `Fresh`, `Nothing` and `Sound`, the last of which says
  that unless a line is torn all lines chain and the next will chain to the last.

`RiskBudgetProofs` has the four properties of `RiskBudget`, for any instruments,
limits and prices, and any number of entries, exits and resets, from the
invariant `Within`:

- `Sound`: a position's risk covers what was bought of it, up to rounding;
- `Hot`: the heat is within its limit; `Ordered`: from the sizing to the booking
  the order's risk covers it, and the heat with it is within the limit. This does
  not rest on the risk engine, whose view is older, but on the sizing and on the
  lock that keeps other entries and exits out meanwhile;
- `Approved`: nobody who is past the risk engine is halted by a streak, which only
  exits lengthen, and these wait;
- `Costs`, `Worst`: a sale at its stop or above moves the loss planned into the
  loss made and never adds to the two.

Sums over the positions are taken one instrument at a time, by induction over
the number of instruments (`AddedExists`, `OneByOne`); a change of one position
changes the sum by its difference (`SumChange`). The attempts found two errors of
the model, which the run had not shown: the sale below its stop could never
happen (its guard contradicted itself), and `Slack` grew with the entries made
rather than with the positions held. They also showed `SizedPasses` to be false
as a statement about states: copies of the cash may make an old view true again
after the order was sized. It is about the step that sizes.

The assumptions are those of the modules: entries and exits have different ids,
every id has an instrument, the lot is positive; no task is `None`, which is no
flag's value, and the operations are those of the module; lots, prices and
limits are whole numbers, limits and prices of `RiskBudget` not negative, its
stops below the signal (the gate refuses others) and its instruments finitely
many (`LotAssumption`, `PriceAssumption`, `RiskAssumption`); the liquid names and
the watchlist have each name once, and no more names are scanned than pooled
(`ListsAssumption`). TLC evaluates these.
What else a theorem needs is a hypothesis of its own, and says that a name does
not stand for two things: no process is one of the two values that stand for
none (`NotProcs`), no run of the suite is called `"real"`, no event is `None`,
nobody asks for the state `"missing"`; and a report has a size (`ReportSize`).
The hypotheses of `NoEntryAfterKill` and `SerialResetAccepted`, above, are the
only ones that leave out something the program can do; of the models, the bound
`OneRow` does.

Checked by TLC only: `ProtectionNoticed`, because liveness is outside the prover's
reach. Every safety property that a passing run checks is proved.

## 5. Disagreements

| Run | Documentation or comment | Code |
|---|---|---|
| `timeout_latches` | SAFETY_AND_CAPITAL.md:53-54, a timeout latches a halt | the analysis timeout between the final row and `record_fill` leaves a fill in no ledger and no halt, status or row |
| `kill_undone` | orchestrator.py:482, "Full kill switch — irreversible until admin reset." | the latch is set after the square-off; a resume in between finds none and clears the halt under the kill, so that with a start an entry goes out after the kill has returned |
| `reset_refused` | icb/engine.py:99, "EMERGENCY_LOCK — manual reset required" | clearing the lock at the ICB after a flattening leaves the black swan: trading stays locked, and the reset answers that the system is not in EMERGENCY_LOCK |

Further divergences are no run of their own. Each is an exception a property
names, so that the property says exactly how far the claim goes:

| Exception | What the code does |
|---|---|
| `unlisted` in the properties of entries, `FlatNoOrders`, `Accounted` | `create_pending` leaves an existing row alone, so an id used again in its bucket after a rejection is in flight under a row that says rejected; closing a position closes the row of an entry order that is still open |
| `unclaimed` in `SentOnce`, `ImplementsIntents`; with `unlisted` in `NoShort` | a claim taken while Redis does not answer is in memory only, and neither store is asked about the other's; when the broker is disconnected `reconcile_order` says FAILED, and the claim is released under an order that may trade. An id that was rejected and is used again then goes out twice |
| lost stops in `FlatNoOrders`, `SellAfterStops`; `Loose` in `NoShort`, `Accounted` | a stop whose answer was lost works at the broker and no position or row names it; that of a residual ("<id>-r") is sent without a row at all |
| `late` in `Accounted` | the retry of the reconciliation runs without `order_lock` and may clear a DEGRADED that was set after it had read; the row that is unknown blocks entries all the same |
| `cut` in `Accounted` | the analysis timeout between the final row and `record_fill` (run `timeout_latches`) |
| `skipped` in `SerialResetAccepted` | if the compliance log cannot be replayed, startup returns before it heals the state, and the gateway goes on; a stored EMERGENCY_LOCK without a latch stays |
| `faulty` in `KilledStays`, `RestartKeeps` | a save that Redis misses, half a file, or two loads at once leave an older state to be loaded |
| `cut` in `OneWriter` | the check of the advisory lock is an await before the write, which a thread makes and nothing cancels |
| `torn`, `lost` in `ChainSound`, `NothingVanishes` | an event appended to a torn line cannot be read although its recording succeeded; a repair with no readable line returns before it resets the head, and the next event breaks the chain |
| `Allowed` | PAUSED is meant as analysis only, but it denies `place_order`, which no caller asks for; a request to analyze a symbol still sends its order |
| one operation at a time in `SerialResetAccepted` | a reset between the square-off of a kill and its latch can leave the state at EMERGENCY_LOCK with no latch |
| `stale` in `BackedOrHalted`, `EquityTrue`, `DayLossTrue`, `BasisBacked` | `save` takes no lock: a slower one writes an older quantity, equity or day's loss over a newer one, and reports success |
| `carried`, `blind`, `early` in `DayLossTrue` | the reset is marked in Redis before it is saved, so that a crash in between keeps yesterday's loss for today; Redis without its data forgets the mark; a sale after midnight and before the reset is not counted |
| `over` in `EquityTrue`, `DayLossTrue`, `BasisBacked` | `persistence_ok` is one flag for all saves: one that began before an exit failed to save sets it again, an operator resumes, and an entry is bought while the database has the position that was sold; a crash loads that one |
| `unlisted` in `EquityTrue` | a position whose row was not inserted is forgotten by a crash, with what its sale has earned |
| slippage in `HeatTrue` | an entry is sized at the signal's price and booked with that risk, whatever it was bought at |
| `mixed`, `Pending` in `ValidatedWhatRuns` | a validation carries the fingerprint of the files on the disk, not of the code that ran it, and is compared with the files, not with the code that runs; settings of risk whose names do not begin with one of four prefixes change without a new validation |
| `rebound` in `PatchesRemoved` | a change of mode, a login or a disconnect during an injection makes the gateway take the mock for its broker, which stays until it asks again |
| overlapping suites in `PatchesRemoved` | two suites that overlap restore each other's patch, and the mock broker stays |
| one check of the session per cycle | the session's hours are read at the start of a cycle; a long cycle may send an order after they have ended |

## 6. Plan

Done: the execution path and the order submission it implements, the control
flags, the compliance ledger, ownership, money, risk and sizing, governance,
the stress suite with its report and the validation, the session with the
broker, the universe, shadow trading; proofs of every safety property that a
passing run checks, and of the refinement.

Left, in this order:

1. The rows of the table of positions as a set: `LiveExecution` has one a symbol
   (`OneRow`), and what `close_position` does when it finds two is a hazard without
   a property.
2. The status of the reconciliation with its two copies: `LiveExecution` has one
   value, and a write may reach only the memory. The same two copies of the halt
   and the latch are in `ControlFlags`.
3. The circuit breaker and its dead letters; the drift check; the operator's
   override to PAUSED (see `Allowed` above).
4. The paper mode of the execution engine and its fills.

### Not modelled

- **Paper broker**: a simulation, without the rows, locks and recovery of the
  live path; nothing of what it does reaches an account.
- **Circuit breaker**: a counter per kind of failure that pauses calls for a
  time. In `LiveExecution` a call may fail at any time, which includes its pause;
  when it pauses is left. The dead letters are a file nothing reads back.
- **Compliance analysis, reporting, profit and loss**: read the events and the
  rows and compute; they change no state that trading depends on. The drift they
  find enters `authorize`, where it may deny anything.
- **Strategies and market state**: what they propose is a choice here.
- **Watchdog**: its checks report and pause; the shutdown it may trigger is the
  one `ControlFlags` allows at any time.
- **Other brokers**: thin wrappers of third-party clients, which the live gate
  refuses.
- **HTTP routing, pages, scripts, deployment**: no state the properties are about.
- **control/layer.py**: deprecated, it forwards to the modules modelled.
