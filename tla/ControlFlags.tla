---------------------------- MODULE ControlFlags ----------------------------
(***************************************************************************)
(* Who may trade: the flags the operator, the kill switch, the decision    *)
(* brain (ICB) and the autonomous engine set, and the entries that read    *)
(* them.  Three of the flags have a copy in Redis and one in memory: a     *)
(* write goes to memory and, if Redis answers, to Redis; a read prefers    *)
(* Redis.  The operator's pause and the portfolio's halt are in Postgres.  *)
(*                                                                         *)
(* A request or a turn of a background loop is a task of the event loop,   *)
(* and a step of it is what it does between two awaits of a flag or lock.  *)
(* What the square-off sells and an entry buys is LiveExecution's.         *)
(***************************************************************************)
EXTENDS Naturals

CONSTANTS
  Tasks,        \* requests and loops running at a time
  None,         \* no task, no value
  Ops,          \* the operations asked for
  MaxOutages,   \* bound: how often Redis goes away
  MaxCrashes,   \* bound: how often the process dies
  DbFails       \* a statement of the database may fail

ASSUME TasksAssumption == None \notin Tasks
ASSUME NoneAssumption == None \notin BOOLEAN
ASSUME DbFailsAssumption == DbFails \in BOOLEAN

VARIABLES
  redis,        \* Redis answers
  cached,       \* the keys in Redis
  mem,          \* _memory_kill_latched, _memory_state, _memory_halt
  healthy,      \* icb._healthy
  paused,       \* operator_control entries_paused            (database)
  port, dport,  \* the portfolio's halt, in memory and in the database
  startLock,    \* holder of autonomous._start_stop_lock
  orderLock,    \* holder of execution.order_lock
  task,         \* operation and step of each task
  phase,        \* of the process: "down", "boot", "up"
  outages, crashes,
  killed,       \* history: a kill or flatten has returned, its latch not cleared
  started,      \* history: an engine start since the process began
  skipped       \* history: the startup of this process recovered nothing

flags == <<cached, mem, healthy, paused, port, dport>>
locks == <<startLock, orderLock>>
env   == <<redis, outages, crashes>>
vars  == <<flags, locks, task, phase, env, killed, started, skipped>>

SystemState == {"ACTIVE", "PAUSED", "SAFE_MODE", "EMERGENCY_LOCK"}
AllOps == {"kill", "flatten", "resume", "reset", "clear", "start", "auto", "stop", "eod",
           "tick", "analyze", "lock", "safe", "pause", "activate", "recover"}

ASSUME OpsAssumption == Ops \subseteq AllOps

\* The first step of each operation.
First(op) ==
  CASE op = "kill"                     -> "authorize"
    [] op = "flatten"                  -> "swan"
    [] op = "resume"                   -> "branch"
    [] op = "reset"                    -> "latched"
    [] op = "clear"                    -> "latched2"
    [] op \in {"start", "stop", "eod"} -> "lock"
    [] op = "auto"                     -> "ready"
    [] op = "tick"                     -> "running"
    [] op = "analyze"                  -> "order"
    [] op = "lock"                     -> "latch"
    [] op = "pause"                    -> "paused"
    [] OTHER                           -> op

Steps ==
  {"idle", "authorize", "safe", "unrun2", "paused", "activate", "recover", "heal", "active",
   "lock", "order", "pause", "unrun", "ready", "willing", "unpause", "run",
   "swan", "shut", "sweep", "latch", "locked", "locked2", "halt",
   "branch", "latched", "latched2", "unlatch", "reopen", "unhalt",
   "running", "gate", "symbol", "analyze", "checkpause", "checkhalt", "submit",
   "load", "fresh", "relock", "recovered"}

Idle == [op |-> None, at |-> "idle"]
At(t, s) == task[t].at = s
Op(t) == task[t].op
Quiet == \A t \in Tasks : task[t] = Idle
Serving == phase = "up"

Key == [latch   : BOOLEAN \cup {None}, state : SystemState \cup {None},
        halt    : BOOLEAN \cup {None}, running : BOOLEAN \cup {None}]
Flushed == [latch |-> None, state |-> None, halt |-> None, running |-> None]
Fresh   == [latch |-> FALSE, state |-> "ACTIVE", halt |-> FALSE]

Init ==
  /\ redis = TRUE /\ cached = Flushed /\ mem = Fresh /\ healthy = TRUE /\ paused = FALSE
  /\ port = "ok" /\ dport = "ok"
  /\ startLock = None /\ orderLock = None /\ task = [t \in Tasks |-> Idle]
  /\ phase = "down" /\ outages = 0 /\ crashes = 0
  /\ killed = FALSE /\ started = FALSE /\ skipped = FALSE

-----------------------------------------------------------------------------
(* Reading and writing a flag                                              *)

Read(k)   == IF redis /\ cached[k] # None THEN cached[k] ELSE mem[k]
Latched   == Read("latch")
IsRunning == redis /\ cached.running = TRUE
GetState  == IF Latched THEN "EMERGENCY_LOCK" ELSE Read("state")

Write(k, v) ==
  /\ mem' = [mem EXCEPT ![k] = v]
  /\ cached' = IF redis THEN [cached EXCEPT ![k] = v] ELSE cached

SetRunning(b) == cached' = [cached EXCEPT !.running = b]

\* PortfolioRepository.save: a failure is reported to a caller that does not ask.
SetPort(p) ==
  /\ port' = p
  /\ dport' \in {p} \cup (IF DbFails THEN {dport} ELSE {})

\* ICB._resolve_state
Resolve ==
  IF ~healthy THEN "SAFE_MODE"
  ELSE IF port = "swan" THEN "EMERGENCY_LOCK" ELSE GetState

Trading == {"analyze", "tick", "start", "auto", "boot"}

\* ICB._authorize_inner: what it must deny.  Signals, risk, drift, market hours
\* and the timeout may make it deny anything.
Allowed(op) ==
  CASE Resolve = "EMERGENCY_LOCK" -> op = "kill"
    [] Resolve = "SAFE_MODE"      -> op \notin Trading
    [] Resolve = "PAUSED"         -> op \notin Trading \ {"analyze"} /\ (op = "analyze" => port = "ok")
    [] OTHER                      -> op \in Trading => port = "ok"

-----------------------------------------------------------------------------
(* Moving a task on                                                        *)

To(t, s) == task' = [task EXCEPT ![t].at = s] /\ UNCHANGED env
Goto(t, s) == To(t, s) /\ UNCHANGED <<locks, phase>>

Release(t) ==
  /\ startLock' = IF startLock = t THEN None ELSE startLock
  /\ orderLock' = IF orderLock = t THEN None ELSE orderLock

\* It returns or raises; startup has then finished.
Done(t) ==
  /\ task' = [task EXCEPT ![t] = Idle] /\ Release(t)
  /\ phase' = IF Op(t) = "boot" THEN "up" ELSE phase
  /\ UNCHANGED env

\* analyze_symbol returns; the cycle goes on with the next symbol.
EndAnalysis(t) ==
  \/ Done(t)
  \/ Op(t) = "tick" /\ To(t, "symbol") /\ Release(t) /\ UNCHANGED phase

\* ICB.enter_safe_mode up to its last await.
EnterSafe(t) ==
  /\ healthy' = FALSE /\ Write("state", "SAFE_MODE")
  /\ Goto(t, "unrun2")

\* After recover_safe_mode.
Healed(t) ==
  CASE Op(t) = "reset" -> Goto(t, "reopen")
    [] Op(t) = "boot"  -> Goto(t, "load")
    [] OTHER           -> Done(t)

\* What the process forgets.
Die ==
  /\ mem' = Fresh /\ healthy' = TRUE /\ port' = "ok"
  /\ startLock' = None /\ orderLock' = None /\ task' = [t \in Tasks |-> Idle]
  /\ phase' = "down" /\ started' = FALSE
  /\ UNCHANGED <<cached, paused, dport, killed>>

Begin(t) == \E op \in Ops :
  /\ Serving /\ task[t] = Idle
  /\ op \in {"auto", "eod"} => \A u \in Tasks : Op(u) \notin {"auto", "eod"}
  /\ task' = [task EXCEPT ![t] = [op |-> op, at |-> First(op)]]
  /\ UNCHANGED <<flags, locks, phase, env, killed, started>>

-----------------------------------------------------------------------------
(* The decision brain                                                      *)

Authorize(t) ==
  /\ At(t, "authorize") /\ UNCHANGED <<paused, port, dport, killed, started>>
  /\ \/ /\ Allowed(Op(t)) /\ UNCHANGED <<cached, mem, healthy>>
        /\ Goto(t, CASE Op(t) = "kill"   -> "lock"
                     [] Op(t) = "resume" -> "reopen"
                     [] Op(t) = "start"  -> "unpause"
                     [] Op(t) = "tick"   -> "gate"
                     [] OTHER            -> "run")
     \/ Done(t) /\ UNCHANGED <<cached, mem, healthy>>
     \/ EnterSafe(t)

\* admin_set_state: SAFE_MODE
Safe(t) ==
  /\ At(t, "safe") /\ EnterSafe(t)
  /\ UNCHANGED <<paused, port, dport, killed, started>>

\* The end of enter_safe_mode; a failed write is ignored.
SafeStops(t) ==
  /\ At(t, "unrun2")
  /\ IF redis THEN SetRunning(FALSE) ELSE UNCHANGED cached
  /\ IF Op(t) = "chaos" THEN Goto(t, "lock")
     ELSE IF orderLock = t THEN EndAnalysis(t) ELSE Done(t)
  /\ UNCHANGED <<mem, healthy, paused, port, dport, killed, started>>

\* admin_set_state: PAUSED, ACTIVE
SetState(t) ==
  /\ \/ At(t, "paused") /\ Write("state", "PAUSED") /\ Done(t)
     \/ At(t, "activate") /\ Write("state", "ACTIVE") /\ Goto(t, "heal")
  /\ UNCHANGED <<healthy, paused, port, dport, killed, started>>

\* /api/icb/recover
Recover(t) ==
  /\ At(t, "recover")
  /\ IF GetState \in {"SAFE_MODE", "ACTIVE"} THEN Goto(t, "heal") ELSE Done(t)
  /\ UNCHANGED <<flags, killed, started>>

\* recover_safe_mode: the latch is read, and the state written an await later.
Heal(t) ==
  /\ At(t, "heal") /\ healthy' = TRUE
  /\ IF Latched THEN Healed(t) ELSE Goto(t, "active")
  /\ UNCHANGED <<cached, mem, paused, port, dport, killed, started>>

Activate(t) ==
  /\ At(t, "active") /\ Write("state", "ACTIVE") /\ Healed(t)
  /\ UNCHANGED <<healthy, paused, port, dport, killed, started>>

BrainStep(t) ==
  Authorize(t) \/ Safe(t) \/ SafeStops(t) \/ SetState(t) \/ Recover(t) \/ Heal(t) \/ Activate(t)

-----------------------------------------------------------------------------
(* Starting and stopping the autonomous engine                             *)

TakeStartOnly(t) ==   \* mutant: stop does not wait for an entry in progress
  /\ At(t, "lock") /\ startLock = None /\ startLock' = t
  /\ To(t, CASE Op(t) = "start"           -> "authorize"
             [] Op(t) \in {"auto", "boot"} -> "willing"
             [] OTHER                     -> "pause")
  /\ UNCHANGED <<flags, orderLock, phase, killed, started>>

\* async with self._start_stop_lock
TakeStart(t) ==
  /\ At(t, "lock") /\ startLock = None /\ startLock' = t
  /\ To(t, CASE Op(t) = "start"           -> "authorize"
             [] Op(t) \in {"auto", "boot"} -> "willing"
             [] OTHER                     -> "order")
  /\ UNCHANGED <<flags, orderLock, phase, killed, started>>

\* async with order_lock
TakeOrder(t) ==
  /\ At(t, "order") /\ orderLock = None /\ orderLock' = t
  /\ To(t, CASE Op(t) \in {"analyze", "tick"} -> "analyze"
             [] Op(t) = "eod"                -> "unrun"
             [] OTHER                        -> "pause")
  /\ UNCHANGED <<flags, startLock, phase, killed, started>>

\* stop: the pause is committed first; a failure of the database ends it.
Pause(t) ==
  /\ At(t, "pause") /\ UNCHANGED <<cached, mem, healthy, port, dport, killed, started>>
  /\ \/ paused' = TRUE /\ Goto(t, "unrun")
     \/ DbFails /\ UNCHANGED paused /\ Done(t)

UnrunHolding(t) ==   \* mutant: the locks are kept through the square-off
  /\ At(t, "unrun") /\ UNCHANGED <<mem, healthy, paused, port, dport, killed, started>>
  /\ IF ~redis THEN Done(t) /\ UNCHANGED cached
     ELSE /\ SetRunning(FALSE)
          /\ CASE Op(t) \in {"kill", "flatten"} -> Goto(t, "shut")
               [] Op(t) = "eod"                 -> Goto(t, "sweep")
               [] OTHER                         -> Done(t)

\* ... and the end of stop; without Redis it raises, and with it the caller.
Unrun(t) ==
  /\ At(t, "unrun") /\ UNCHANGED <<mem, healthy, paused, port, dport, killed, started>>
  /\ IF ~redis THEN Done(t) /\ UNCHANGED cached
     ELSE /\ SetRunning(FALSE)
          /\ IF Op(t) \in {"kill", "flatten", "eod"}
             THEN /\ To(t, IF Op(t) = "eod" THEN "sweep" ELSE "shut")
                  /\ Release(t) /\ UNCHANGED phase
             ELSE Done(t)

\* maybe_auto_start, before the lock; the session's hours may stop it too.
Ready(t) ==
  /\ At(t, "ready") /\ UNCHANGED <<flags, killed, started>>
  /\ \/ ~paused /\ ~IsRunning /\ port = "ok" /\ Goto(t, "lock")
     \/ Done(t)

AlwaysWilling(t) ==   \* mutant: the pause is only checked before the lock
  /\ At(t, "willing") /\ UNCHANGED <<flags, killed, started>>
  /\ Goto(t, "authorize")

\* _start(automatic=True): a pause that cannot be read counts as one.
Willing(t) ==
  /\ At(t, "willing") /\ UNCHANGED <<flags, killed, started>>
  /\ \/ ~paused /\ Goto(t, "authorize")
     \/ (paused \/ DbFails) /\ Done(t)

\* _start(automatic=False) lifts the pause.
Unpause(t) ==
  /\ At(t, "unpause") /\ UNCHANGED <<cached, mem, healthy, port, dport, killed, started>>
  /\ \/ paused' = FALSE /\ Goto(t, "run")
     \/ DbFails /\ UNCHANGED paused /\ Done(t)

Run(t) ==
  /\ At(t, "run") /\ UNCHANGED <<mem, healthy, paused, port, dport, killed>>
  /\ IF redis THEN SetRunning(TRUE) /\ started' = TRUE /\ Done(t)
     ELSE /\ UNCHANGED <<cached, started>> /\ Op(t) # "boot" /\ Done(t)

EngineStep(t) ==
  TakeStart(t) \/ TakeOrder(t) \/ Pause(t) \/ Unrun(t) \/ Ready(t) \/ Willing(t)
    \/ Unpause(t) \/ Run(t)

-----------------------------------------------------------------------------
(* The kill switch, the flattening, and what lifts them                    *)

\* emergency_flatten: enter_black_swan and persist
Swan(t) ==
  /\ At(t, "swan") /\ SetPort("swan") /\ Goto(t, "lock")
  /\ UNCHANGED <<cached, mem, healthy, paused, killed, started>>

ShutLater(t) ==   \* mutant: halting is left to the square-off
  /\ At(t, "shut") /\ Goto(t, "sweep")
  /\ UNCHANGED <<flags, killed, started>>

\* ExecutionEngine.activate_kill_switch: emergency_shutdown and persist
Shut(t) ==
  /\ At(t, "shut") /\ SetPort(IF port = "swan" THEN "swan" ELSE "halted") /\ Goto(t, "sweep")
  /\ UNCHANGED <<cached, mem, healthy, paused, killed, started>>

\* eod_square_off, seen from here: it holds order_lock for a while, halts the
\* portfolio unless all is flat, and raises when the rows cannot be read.
SquareOff(t) ==
  /\ At(t, "sweep") /\ orderLock = None
  /\ UNCHANGED <<cached, mem, healthy, paused, killed, started>>
  /\ \/ /\ SetPort(port) \/ (port = "ok" /\ SetPort("halted"))
        /\ IF Op(t) = "eod" THEN Done(t) ELSE Goto(t, "latch")
     \/ DbFails /\ UNCHANGED <<port, dport>> /\ Done(t)

\* icb.activate_emergency_lock: the latch, and the state twice.
Latch(t) ==
  /\ UNCHANGED <<healthy, paused, port, dport, killed, started>>
  /\ \/ At(t, "latch") /\ Write("latch", TRUE) /\ Goto(t, "locked")
     \/ At(t, "locked") /\ Write("state", "EMERGENCY_LOCK") /\ Goto(t, "locked2")
     \/ /\ At(t, "locked2") /\ Write("state", "EMERGENCY_LOCK")
        /\ CASE Op(t) = "lock" -> Done(t)
             [] Op(t) = "boot" -> Goto(t, "recovered")
             [] OTHER          -> Goto(t, "halt")

\* set_emergency_halt(True): the last flag of the kill, the first of startup.
Halt(t) ==
  /\ At(t, "halt") /\ Write("halt", TRUE)
  /\ IF Op(t) = "boot" THEN Goto(t, "latch") /\ UNCHANGED killed
     ELSE Done(t) /\ killed' = (killed \/ mem.latch)
  /\ UNCHANGED <<healthy, paused, port, dport, started>>

\* resume_trading
Branch(t) ==
  /\ At(t, "branch") /\ UNCHANGED <<flags, locks, phase, env, killed, started>>
  /\ task' = [task EXCEPT ![t] = IF Latched THEN [op |-> "reset", at |-> "latched"]
                                 ELSE [op |-> "resume", at |-> "authorize"]]

\* admin_reset_kill_switch, and icb.admin_reset_emergency, check the latch.
IsLatched(t) ==
  /\ UNCHANGED <<flags, killed, started>>
  /\ \/ At(t, "latched") /\ Latched /\ Goto(t, "latched2")
     \/ At(t, "latched2") /\ Latched /\ Goto(t, "unlatch")
     \/ task[t].at \in {"latched", "latched2"} /\ ~Latched /\ Done(t)

Unlatch(t) ==
  /\ At(t, "unlatch") /\ Write("latch", FALSE) /\ Goto(t, "heal") /\ killed' = FALSE
  /\ UNCHANGED <<healthy, paused, port, dport, started>>

Reopen(t) ==
  /\ At(t, "reopen") /\ UNCHANGED <<cached, mem, healthy, paused, killed, started>>
  /\ IF Op(t) = "resume" /\ port = "ok"
     THEN Done(t) /\ UNCHANGED <<port, dport>>
     ELSE SetPort("ok") /\ Goto(t, "unhalt")

Unhalt(t) ==
  /\ At(t, "unhalt") /\ Write("halt", FALSE)
  /\ IF Op(t) = "resume" THEN Goto(t, "heal") ELSE Done(t)
  /\ UNCHANGED <<healthy, paused, port, dport, killed, started>>

KillStep(t) ==
  Swan(t) \/ Shut(t) \/ SquareOff(t) \/ Latch(t) \/ Halt(t)
    \/ Branch(t) \/ IsLatched(t) \/ Unlatch(t) \/ Reopen(t) \/ Unhalt(t)

-----------------------------------------------------------------------------
(* An entry: a cycle of the engine, or a request for one symbol            *)

\* tick: the flag, the gates of the cycle (session, risk: a choice), and the flag
\* again for each symbol.
Cycle(t) ==
  /\ UNCHANGED <<paused, port, dport, killed, started>>
  /\ \/ At(t, "running") /\ IsRunning /\ Goto(t, "authorize") /\ UNCHANGED <<cached, mem, healthy>>
     \/ At(t, "gate") /\ port = "ok" /\ Goto(t, "symbol") /\ UNCHANGED <<cached, mem, healthy>>
     \/ /\ At(t, "gate") /\ UNCHANGED <<locks, phase, env>>   \* the chaos evidence is stale
        /\ healthy' = FALSE /\ Write("state", "SAFE_MODE")
        /\ task' = [task EXCEPT ![t] = [op |-> "chaos", at |-> "unrun2"]]
     \/ At(t, "symbol") /\ IsRunning /\ port = "ok" /\ Goto(t, "order") /\ UNCHANGED <<cached, mem, healthy>>
     \/ task[t].at \in {"running", "gate", "symbol"} /\ Done(t) /\ UNCHANGED <<cached, mem, healthy>>

\* ICB's ANALYZE_SYMBOL
Analyze(t) ==
  /\ At(t, "analyze") /\ UNCHANGED <<paused, port, dport, killed, started>>
  /\ \/ Allowed("analyze") /\ Goto(t, "checkpause") /\ UNCHANGED <<cached, mem, healthy>>
     \/ EnterSafe(t)

\* _pre_execution_block
CheckPause(t) ==
  /\ At(t, "checkpause") /\ ~paused /\ Goto(t, "checkhalt")
  /\ UNCHANGED <<flags, killed, started>>

CheckHalt(t) ==
  /\ At(t, "checkhalt") /\ ~Read("halt") /\ port = "ok" /\ Goto(t, "submit")
  /\ UNCHANGED <<flags, killed, started>>

\* The live gate reads the portfolio once more; then the order goes out.
Submit(t) ==
  /\ At(t, "submit") /\ port = "ok" /\ EndAnalysis(t)
  /\ UNCHANGED <<flags, killed, started>>

\* Blocked, no signal, or out of time.
NoTrade(t) ==
  /\ \/ task[t].at \in {"analyze", "checkpause", "checkhalt", "submit"}
     \/ At(t, "order") /\ Op(t) \in {"analyze", "tick"}
  /\ EndAnalysis(t) /\ UNCHANGED <<flags, killed, started>>

EntryStep(t) ==
  Cycle(t) \/ Analyze(t) \/ CheckPause(t) \/ CheckHalt(t) \/ Submit(t) \/ NoTrade(t)

-----------------------------------------------------------------------------
(* Startup, and what happens to the process                                *)

BootUntold(t) ==   \* mutant: a log that cannot be replayed is taken for a recovery
  /\ phase = "down" /\ phase' = "boot" /\ skipped' = FALSE
  /\ \E s \in {"heal", "load"} : task' = [task EXCEPT ![t] = [op |-> "boot", at |-> s]]
  /\ UNCHANGED <<flags, locks, env, killed, started>>

\* crce.recover replays the compliance log and then calls recover_safe_mode: a log
\* that cannot be replayed ends it before, and startup goes on without.
Boot(t) ==
  /\ phase = "down" /\ phase' = "boot"
  /\ \E s \in {"heal", "load"} :
       /\ task' = [task EXCEPT ![t] = [op |-> "boot", at |-> s]]
       /\ skipped' = (s = "load")
  /\ UNCHANGED <<flags, locks, env, killed, started>>

Load(t) ==
  /\ At(t, "load") /\ port' = dport /\ Goto(t, "fresh")
  /\ UNCHANGED <<cached, mem, healthy, paused, dport, killed, started>>

KeepRun(t) ==   \* mutant: the flag in Redis is kept
  /\ At(t, "fresh") /\ redis /\ Goto(t, "relock")
  /\ UNCHANGED <<flags, killed, started>>

\* "Never inherit its old run flag"
ForgetRun(t) ==
  /\ At(t, "fresh") /\ redis /\ SetRunning(FALSE) /\ Goto(t, "relock")
  /\ UNCHANGED <<mem, healthy, paused, port, dport, killed, started>>

\* Without Redis, or the database, startup raises and the process ends.
BootFails(t) ==
  /\ Op(t) = "boot" /\ task[t].at \in {"fresh", "run"} /\ ~redis
  /\ Die /\ UNCHANGED env

RelockLatched(t) ==   \* mutant: only the latch is looked at
  /\ At(t, "relock") /\ UNCHANGED <<flags, killed, started>>
  /\ Goto(t, IF Latched THEN "halt" ELSE "recovered")

Relock(t) ==
  /\ At(t, "relock") /\ UNCHANGED <<flags, killed, started>>
  /\ Goto(t, IF Latched \/ port # "ok" THEN "halt" ELSE "recovered")

\* After execution.recover: the automatic start, if it is configured.
Recovered(t) ==
  /\ At(t, "recovered") /\ UNCHANGED <<flags, killed, started>>
  /\ \/ port = "ok" /\ ~Latched /\ "auto" \in Ops /\ Goto(t, "lock")
     \/ Done(t)

BootStep(t) ==
  Load(t) \/ ForgetRun(t) \/ BootFails(t) \/ Relock(t) \/ Recovered(t)

\* The execution engine halts the portfolio on its own (_unknown, lifecycle).
Shutdown ==
  /\ phase # "down" /\ port = "ok" /\ SetPort("halted")
  /\ UNCHANGED <<cached, mem, healthy, paused, locks, task, phase, env, killed, started>>

Crash ==
  /\ phase # "down" /\ crashes < MaxCrashes /\ crashes' = crashes + 1
  /\ Die /\ UNCHANGED <<redis, outages>>

\* Redis comes back with its data or, its volume lost, without.
Redis ==
  /\ UNCHANGED <<mem, healthy, paused, port, dport, locks, task, phase, crashes, killed, started>>
  /\ \/ /\ redis /\ outages < MaxOutages /\ outages' = outages + 1
        /\ redis' = FALSE /\ UNCHANGED cached
     \/ ~redis /\ redis' = TRUE /\ cached' \in {cached, Flushed} /\ UNCHANGED outages

Step(t) == BrainStep(t) \/ EngineStep(t) \/ KillStep(t) \/ EntryStep(t) \/ BootStep(t)

Next ==
  \/ \E t \in Tasks : Boot(t)
  \/ /\ UNCHANGED skipped
     /\ (\E t \in Tasks : Begin(t) \/ Step(t)) \/ Shutdown \/ Crash \/ Redis

Spec == Init /\ [][Next]_vars

-----------------------------------------------------------------------------
(* What must hold                                                          *)

\* From the check of the pause to the order, the operator has not paused the
\* entries: _pre_execution_block reads the pause under order_lock, and stop
\* sets it under the same lock.
PausedNoEntry == \A t \in Tasks : task[t].at \in {"checkhalt", "submit"} => ~paused

\* "An operator pause survives API and Redis restarts, and automatic startup
\* cannot clear it": no automatic start gets as far as the run flag while the
\* operator's pause is in force.
AutoRespectsPause == \A t \in Tasks : At(t, "run") => ~paused

\* "Redis can survive an unclean shutdown. Never inherit its old run flag": a
\* process that serves finds the engine running only if it was started since.
RunFlagOwned == Serving /\ cached.running = TRUE => started

\* "Full kill switch - irreversible until admin reset": once a kill has
\* returned, no order is about to go out before a reset clears the latch, whatever
\* else is asked for, was under way, or happens to Redis and the process.
NoEntryAfterKill == \A t \in Tasks : At(t, "submit") => ~killed

\* When no operation is under way, a state that only a reset may leave is one
\* the reset accepts: ICB answers "manual reset required", the reset "System is
\* not in EMERGENCY_LOCK".
ResetAccepted == Quiet /\ Serving /\ Resolve = "EMERGENCY_LOCK" => Latched

\* Nobody waits for itself or in a circle: who holds order_lock waits for no
\* lock, who holds _start_stop_lock at most for order_lock, and nobody keeps one
\* past its end.  stop releases both before its callers' square-off, which takes
\* order_lock again: asyncio.Lock is not re-entrant.
LockOrder ==
  \A t \in Tasks :
    /\ orderLock = t => task[t].at \notin {"lock", "order", "sweep", "idle"}
    /\ startLock = t => task[t].at \notin {"lock", "idle"}
=============================================================================
