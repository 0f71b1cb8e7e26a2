------------------------- MODULE ControlFlagsProofs -------------------------
(***************************************************************************)
(* Proofs, for any number of tasks, outages and crashes, that no entry     *)
(* passes an operator's pause, that no automatic start overrides it, that  *)
(* the two locks are taken in one order, that no process trades on the run *)
(* flag an earlier one left in Redis, that no entry passes a kill which    *)
(* nothing lifts, and that, of one operation after another, a reset        *)
(* accepts every lock they leave.                                          *)
(*                                                                         *)
(* None of them is inductive.  The first three need to know which steps of *)
(* which operations hold which lock (Turn), because what another task may  *)
(* do to the pause depends on the locks it must hold to do it.  The fourth *)
(* needs who may be past the step of the startup that forgets the flag,    *)
(* the fifth what a kill has done at each of its steps, the last who is    *)
(* about to set the latch, or to take the lock away.                       *)
(***************************************************************************)
EXTENDS MCKillReset, TLAPS

Starters == {"start", "auto", "boot"}
Stoppers == {"stop", "eod", "kill", "flatten", "chaos"}
Buyers   == {"analyze", "tick"}
TaskType == [op : AllOps \cup {None, "boot", "chaos"}, at : Steps]

\* The steps at which a task holds a lock, and the operations they belong to.
Holding(t) ==
  /\ startLock = t =>
       \/ Op(t) \in Starters /\ task[t].at \in {"willing", "authorize", "unpause", "run", "unrun2"}
       \/ Op(t) \in Stoppers /\ task[t].at \in {"order", "pause", "unrun"}
  /\ orderLock = t =>
       \/ Op(t) \in Buyers /\ task[t].at \in {"analyze", "checkpause", "checkhalt", "submit", "unrun2"}
       \/ Op(t) \in Stoppers /\ task[t].at \in {"pause", "unrun"}

\* The steps that cannot be reached without one.
Needing(t) ==
  /\ task[t].at \in {"pause", "analyze", "checkpause", "checkhalt", "submit"} => orderLock = t
  /\ task[t].at \in {"willing", "unpause", "run", "pause"} => startLock = t
  /\ At(t, "authorize") /\ Op(t) \in Starters => startLock = t
  /\ At(t, "order") /\ Op(t) \in Stoppers => startLock = t

\* Which operations have a step, where it matters.
Shaped(t) ==
  /\ At(t, "authorize") => Op(t) \in Starters \cup {"kill", "resume", "tick"}
  /\ At(t, "lock") => Op(t) \in Starters \cup Stoppers
  /\ At(t, "order") => Op(t) \in Buyers \cup Stoppers
  /\ At(t, "unrun") => Op(t) \in Stoppers
  /\ task[t].at \in {"checkpause", "checkhalt", "submit"} => Op(t) \in Buyers
  /\ At(t, "analyze") => Op(t) \in Buyers
  /\ task[t].at \in {"running", "gate", "symbol"} => Op(t) = "tick"
  /\ At(t, "ready") => Op(t) = "auto"
  /\ At(t, "swan") => Op(t) = "flatten"
  /\ task[t].at \in {"load", "fresh", "relock", "recovered"} => Op(t) = "boot"
  /\ At(t, "willing") => Op(t) \in {"auto", "boot"}
  /\ At(t, "unpause") => Op(t) = "start"
  /\ At(t, "run") => Op(t) \in Starters

\* What a task that has read the pause still relies on.
Unpaused(t) ==
  /\ task[t].at \in {"checkhalt", "submit", "run"} => ~paused
  /\ At(t, "authorize") /\ Op(t) \in {"auto", "boot"} => ~paused

Turn(t) == Holding(t) /\ Needing(t) /\ Shaped(t) /\ Unpaused(t)

\* The inductive invariant.
Turns ==
  /\ task \in [Tasks -> TaskType]
  /\ {startLock, orderLock} \subseteq Tasks \cup {None} /\ phase \in {"down", "boot", "up"}
  /\ phase = "down" => Quiet /\ startLock = None /\ orderLock = None
  /\ \A t \in Tasks : Turn(t)

USE TasksAssumption

-----------------------------------------------------------------------------
\* What another task does leaves the turn of u alone: it neither takes nor
\* releases a lock that u holds, and sets the pause only while it holds both.
LEMMA OthersKeepTurn ==
  ASSUME Turns, NEW t \in Tasks, NEW u \in Tasks \ {t}, task'[u] = task[u],
         startLock' = startLock \/ (startLock \in {None, t} /\ startLock' \in {None, t}),
         orderLock' = orderLock \/ (orderLock \in {None, t} /\ orderLock' \in {None, t}),
         paused' => paused \/ (startLock = t /\ orderLock = t)
  PROVE  Turn(u)'
<1>1. Turn(u) BY DEF Turns
<1>2. u # None BY TasksAssumption
<1>3. /\ startLock' = u <=> startLock = u
      /\ orderLock' = u <=> orderLock = u
  BY <1>2
<1>4. Holding(u)' /\ Needing(u)' /\ Shaped(u)'
  BY <1>1, <1>3 DEF Turn, Holding, Needing, Shaped, At, Op
<1>5. Unpaused(u)'
  BY <1>1, <1>2 DEF Turn, Needing, Unpaused, At, Op, Starters
<1> QED BY <1>4, <1>5 DEF Turn

\* A step of t keeps the invariant if t itself has its turn afterwards.
LEMMA TurnSuffices ==
  ASSUME Turns, NEW t \in Tasks, phase' \in {"boot", "up"},
         NEW r \in TaskType, task' = [task EXCEPT ![t] = r],
         startLock' = startLock \/ (startLock \in {None, t} /\ startLock' \in {None, t}),
         orderLock' = orderLock \/ (orderLock \in {None, t} /\ orderLock' \in {None, t}),
         paused' => paused \/ (startLock = t /\ orderLock = t),
         Turn(t)'
  PROVE  Turns'
<1>1. task' \in [Tasks -> TaskType] BY DEF Turns
<1>2. ASSUME NEW u \in Tasks PROVE Turn(u)'
  <2>1. CASE u = t BY <2>1
  <2>2. CASE u # t
    <3>1. task'[u] = task[u] BY <2>2 DEF Turns
    <3> QED BY <2>2, <3>1, OthersKeepTurn
  <2> QED BY <2>1, <2>2
<1>3. {startLock, orderLock}' \subseteq Tasks \cup {None} BY DEF Turns
<1> QED BY <1>1, <1>2, <1>3 DEF Turns

\* The same for a step that only moves t on, or lets it end.
LEMMA MovesOn ==
  ASSUME Turns, NEW t \in Tasks, NEW s \in Steps, task[t] # Idle, To(t, s), UNCHANGED phase,
         startLock' = startLock \/ (startLock \in {None, t} /\ startLock' \in {None, t}),
         orderLock' = orderLock \/ (orderLock \in {None, t} /\ orderLock' \in {None, t}),
         paused' => paused \/ (startLock = t /\ orderLock = t)
  PROVE  /\ Turn(t)' => Turns'
         /\ Op(t)' = Op(t) /\ task'[t].at = s
<1> DEFINE r == [op |-> Op(t), at |-> s]
<1>1. task[t] \in TaskType BY DEF Turns
<1>2. r \in TaskType BY <1>1 DEF TaskType, Op
<1>3. task' = [task EXCEPT ![t] = r]
  <2>1. [task[t] EXCEPT !.at = s] = r BY <1>1 DEF TaskType, Op
  <2> QED BY <2>1 DEF To
<1>4. phase' \in {"boot", "up"} BY DEF Turns, Quiet
<1>5. task'[t] = r BY <1>3 DEF Turns
<1>6. Turn(t)' => Turns' BY <1>2, <1>3, <1>4, TurnSuffices
<1> QED BY <1>5, <1>6 DEF Op

LEMMA EndsWell ==
  ASSUME Turns, NEW t \in Tasks, task[t] # Idle, Done(t), paused' => paused
  PROVE  Turns'
<1>1. Idle \in TaskType BY DEF Idle, TaskType, Steps
<1>2. task' = [task EXCEPT ![t] = Idle] BY DEF Done
<1>3. phase' \in {"boot", "up"} BY DEF Done, Turns, Quiet
<1>4. task'[t] = Idle BY <1>2 DEF Turns
<1>5. /\ startLock' = startLock \/ (startLock \in {None, t} /\ startLock' \in {None, t})
      /\ orderLock' = orderLock \/ (orderLock \in {None, t} /\ orderLock' \in {None, t})
      /\ startLock' # t /\ orderLock' # t
  BY TasksAssumption DEF Done, Release
<1>6. Turn(t)'
  BY <1>4, <1>5 DEF Turn, Holding, Needing, Shaped, Unpaused, Idle, At, Op
<1> QED BY <1>1, <1>2, <1>3, <1>5, <1>6, TurnSuffices

LEMMA GoesOn ==
  ASSUME Turns, NEW t \in Tasks, NEW s \in Steps, task[t] # Idle, Goto(t, s), paused' => paused
  PROVE  /\ Turn(t)' => Turns'
         /\ Op(t)' = Op(t) /\ task'[t].at = s /\ UNCHANGED <<startLock, orderLock>>
<1>1. To(t, s) /\ UNCHANGED <<startLock, orderLock, phase>> BY DEF Goto, locks
<1> QED BY <1>1, MovesOn

\* The steps at which no lock is held and nothing is relied on.
Free == {"safe", "unrun2", "paused", "activate", "recover", "heal", "active", "shut", "sweep",
         "latch", "locked", "locked2", "halt", "branch", "latched", "latched2", "unlatch",
         "reopen", "unhalt"}

LEMMA FreeStep ==
  ASSUME Turns, NEW t \in Tasks, NEW s \in Free, task[t] # Idle, Goto(t, s),
         startLock # t, orderLock # t, paused' => paused
  PROVE  Turns'
<1>1. s \in Steps BY DEF Free, Steps
<1>2. Turn(t)'
  BY <1>1, GoesOn DEF Free, Turn, Holding, Needing, Shaped, Unpaused, At
<1> QED BY <1>1, <1>2, GoesOn

\* Who is at such a step, or at the start of an operation, holds no lock.
LEMMA FreeHands ==
  ASSUME Turns, NEW t \in Tasks, task[t].at \in (Free \ {"unrun2"}) \cup
           {"idle", "lock", "swan", "ready", "running", "gate", "symbol", "load", "fresh",
            "relock", "recovered"}
  PROVE  startLock # t /\ orderLock # t
BY DEF Turns, Turn, Holding, Free

-----------------------------------------------------------------------------
LEMMA EntersSafe ==
  ASSUME Turns, NEW t \in Tasks, task[t] # Idle, EnterSafe(t), paused' => paused,
         task[t].at \in {"authorize", "safe", "analyze"}
  PROVE  Turns'
<1>1. Goto(t, "unrun2") /\ "unrun2" \in Steps BY DEF EnterSafe, Steps
<1>2. Turn(t) BY DEF Turns
<1>3. Turn(t)'
  BY <1>1, <1>2, GoesOn DEF Turn, Holding, Needing, Shaped, Unpaused, At, Free,
    Starters, Stoppers, Buyers
<1> QED BY <1>1, <1>3, GoesOn

\* The end of an analysis: the task ends, or a cycle goes on without the lock.
LEMMA AnalysisEnds ==
  ASSUME Turns, NEW t \in Tasks, task[t] # Idle, EndAnalysis(t), paused' => paused
  PROVE  Turns'
<1>1. CASE Done(t) BY <1>1, EndsWell
<1>2. CASE Op(t) = "tick" /\ To(t, "symbol") /\ Release(t) /\ UNCHANGED phase
  <2>1. /\ startLock' = startLock \/ (startLock \in {None, t} /\ startLock' \in {None, t})
        /\ orderLock' = orderLock \/ (orderLock \in {None, t} /\ orderLock' \in {None, t})
        /\ startLock' # t /\ orderLock' # t
    BY <1>2 DEF Release
  <2>2. "symbol" \in Steps BY DEF Steps
  <2>3. (Turn(t)' => Turns') /\ Op(t)' = "tick" /\ task'[t].at = "symbol"
    BY <1>2, <2>1, <2>2, MovesOn
  <2>4. Turn(t)' BY <2>1, <2>3 DEF Turn, Holding, Needing, Shaped, Unpaused, At
  <2> QED BY <2>3, <2>4
<1> QED BY <1>1, <1>2 DEF EndAnalysis

LEMMA AuthorizeTurns ==
  ASSUME Turns, NEW t \in Tasks, Authorize(t)
  PROVE  Turns'
<1>1. /\ At(t, "authorize") /\ task[t] # Idle /\ UNCHANGED paused /\ Turn(t)
  BY DEF Authorize, At, Idle, Turns
<1>2. Op(t) \in Starters \cup {"kill", "resume", "tick"} BY <1>1 DEF Turn, Shaped
<1> DEFINE Target == CASE Op(t) = "kill"   -> "lock"
                     [] Op(t) = "resume" -> "reopen"
                     [] Op(t) = "start"  -> "unpause"
                     [] Op(t) = "tick"   -> "gate"
                     [] OTHER            -> "run"
<1>3. CASE Goto(t, Target)
  <2>1. Target \in Steps BY <1>2 DEF Steps
  <2>2. Turn(t)'
    BY <1>1, <1>2, <1>3, <2>1, GoesOn DEF Turn, Holding, Needing, Shaped, Unpaused, At,
      Starters, Stoppers, Buyers
  <2> QED BY <1>1, <1>3, <2>1, <2>2, GoesOn
<1>4. CASE Done(t) BY <1>1, <1>4, EndsWell
<1>5. CASE EnterSafe(t) BY <1>1, <1>5, EntersSafe DEF At
<1> QED BY <1>3, <1>4, <1>5 DEF Authorize

LEMMA SafeStopsTurns ==
  ASSUME Turns, NEW t \in Tasks, SafeStops(t)
  PROVE  Turns'
<1>1. task[t].at = "unrun2" /\ task[t] # Idle /\ UNCHANGED paused /\ Turn(t)
  BY DEF SafeStops, At, Idle, Turns
<1>2. CASE Op(t) = "chaos" /\ Goto(t, "lock")
  <2>1. "lock" \in Steps BY DEF Steps
  <2>2. Turn(t)'
    BY <1>1, <1>2, <2>1, GoesOn DEF Turn, Holding, Needing, Shaped, Unpaused, At,
      Starters, Stoppers, Buyers
  <2> QED BY <1>1, <1>2, <2>1, <2>2, GoesOn
<1>3. CASE EndAnalysis(t) BY <1>1, <1>3, AnalysisEnds
<1>4. CASE Done(t) BY <1>1, <1>4, EndsWell
<1> QED BY <1>2, <1>3, <1>4 DEF SafeStops

\* After the recovery of the brain a task ends or goes on without a lock.
LEMMA HealedTurns ==
  ASSUME Turns, NEW t \in Tasks, task[t].at \in {"heal", "active"}, Healed(t), UNCHANGED paused
  PROVE  Turns'
<1>1. task[t] # Idle /\ startLock # t /\ orderLock # t /\ Turn(t)
  BY FreeHands DEF Idle, Free, Turns
<1>2. CASE Goto(t, "reopen") BY <1>1, <1>2, FreeStep DEF Free
<1>3. CASE Op(t) = "boot" /\ Goto(t, "load")
  <2>1. "load" \in Steps BY DEF Steps
  <2>2. Turn(t)'
    BY <1>1, <1>3, <2>1, GoesOn DEF Turn, Holding, Needing, Shaped, Unpaused, At
  <2> QED BY <1>1, <1>3, <2>1, <2>2, GoesOn
<1>4. CASE Done(t) BY <1>1, <1>4, EndsWell
<1> QED BY <1>2, <1>3, <1>4 DEF Healed

LEMMA BrainTurns ==
  ASSUME Turns, NEW t \in Tasks, BrainStep(t)
  PROVE  Turns'
<1>1. CASE Authorize(t) BY <1>1, AuthorizeTurns
<1>2. CASE Safe(t) BY <1>2, EntersSafe DEF Safe, At, Idle
<1>3. CASE SafeStops(t) BY <1>3, SafeStopsTurns
<1>4. ASSUME SetState(t) \/ Recover(t) PROVE Turns'
  <2>1. task[t].at \in Free \ {"unrun2"} /\ task[t] # Idle /\ UNCHANGED paused
    BY <1>4 DEF SetState, Recover, At, Free, Idle, flags
  <2>2. CASE Done(t) BY <2>1, <2>2, EndsWell
  <2>3. CASE Goto(t, "heal") BY <2>1, <2>3, FreeHands, FreeStep DEF Free
  <2> QED BY <1>4, <2>2, <2>3 DEF SetState, Recover
<1>5. CASE Heal(t)
  <2>1. task[t].at = "heal" /\ task[t] # Idle /\ UNCHANGED paused
    BY <1>5 DEF Heal, At, Idle
  <2>2. CASE Healed(t) BY <2>1, <2>2, HealedTurns
  <2>3. CASE Goto(t, "active") BY <2>1, <2>3, FreeHands, FreeStep DEF Free
  <2> QED BY <1>5, <2>2, <2>3 DEF Heal
<1>6. CASE Activate(t) BY <1>6, HealedTurns DEF Activate, At
<1> QED BY <1>1, <1>2, <1>3, <1>4, <1>5, <1>6 DEF BrainStep

-----------------------------------------------------------------------------
LEMMA TakeStartTurns ==
  ASSUME Turns, NEW t \in Tasks, TakeStart(t)
  PROVE  Turns'
<1>1. /\ task[t].at = "lock" /\ task[t] # Idle /\ Turn(t) /\ orderLock # t
      /\ startLock' = t /\ UNCHANGED <<orderLock, paused, phase>>
  BY FreeHands DEF TakeStart, At, Idle, Turns, flags
<1>2. Op(t) \in Starters \cup Stoppers BY <1>1 DEF Turn, Shaped, At
<1> DEFINE Target == CASE Op(t) = "start"           -> "authorize"
                       [] Op(t) \in {"auto", "boot"} -> "willing"
                       [] OTHER                     -> "order"
<1>3. Target \in Steps /\ To(t, Target) BY DEF TakeStart, Steps
<1>4. (Turn(t)' => Turns') /\ Op(t)' = Op(t) /\ task'[t].at = Target
  <2>1. startLock = None BY DEF TakeStart
  <2> QED BY <1>1, <1>3, <2>1, MovesOn
<1>5. Turn(t)'
  BY <1>1, <1>2, <1>4 DEF Turn, Holding, Needing, Shaped, Unpaused, At, Starters, Stoppers,
    Buyers
<1> QED BY <1>4, <1>5

LEMMA TakeOrderTurns ==
  ASSUME Turns, NEW t \in Tasks, TakeOrder(t)
  PROVE  Turns'
<1>1. /\ task[t].at = "order" /\ task[t] # Idle /\ Turn(t)
      /\ orderLock = None /\ orderLock' = t /\ UNCHANGED <<startLock, paused, phase>>
  BY DEF TakeOrder, At, Idle, Turns, flags
<1>2. Op(t) \in Buyers \cup Stoppers BY <1>1 DEF Turn, Shaped, At
<1> DEFINE Target == CASE Op(t) \in {"analyze", "tick"} -> "analyze"
                       [] Op(t) = "eod"                -> "unrun"
                       [] OTHER                        -> "pause"
<1>3. Target \in Steps /\ To(t, Target) BY DEF TakeOrder, Steps
<1>4. (Turn(t)' => Turns') /\ Op(t)' = Op(t) /\ task'[t].at = Target
  BY <1>1, <1>3, MovesOn
<1>5. Turn(t)'
  BY <1>1, <1>2, <1>4 DEF Turn, Holding, Needing, Shaped, Unpaused, At, Starters, Stoppers,
    Buyers
<1> QED BY <1>4, <1>5

\* stop sets the pause while it holds both locks.
LEMMA PauseTurns ==
  ASSUME Turns, NEW t \in Tasks, Pause(t)
  PROVE  Turns'
<1>1. task[t].at = "pause" /\ task[t] # Idle /\ Turn(t) BY DEF Pause, At, Idle, Turns
<1>2. startLock = t /\ orderLock = t BY <1>1 DEF Turn, Needing
<1>3. CASE Goto(t, "unrun")
  <2>1. "unrun" \in Steps BY DEF Steps
  <2>2. To(t, "unrun") /\ UNCHANGED <<startLock, orderLock, phase>> BY <1>3 DEF Goto, locks
  <2>3. (Turn(t)' => Turns') /\ Op(t)' = Op(t) /\ task'[t].at = "unrun"
    BY <1>1, <1>2, <2>1, <2>2, MovesOn
  <2>4. Turn(t)'
    BY <1>1, <1>2, <2>2, <2>3 DEF Turn, Holding, Needing, Shaped, Unpaused, At, Starters,
      Stoppers, Buyers
  <2> QED BY <2>3, <2>4
<1>4. CASE Done(t) /\ UNCHANGED paused BY <1>1, <1>4, EndsWell
<1> QED BY <1>3, <1>4 DEF Pause

LEMMA UnrunTurns ==
  ASSUME Turns, NEW t \in Tasks, Unrun(t)
  PROVE  Turns'
<1>1. /\ task[t].at = "unrun" /\ task[t] # Idle /\ Turn(t) /\ UNCHANGED paused
  BY DEF Unrun, At, Idle, Turns
<1>2. CASE Done(t) BY <1>1, <1>2, EndsWell
<1> DEFINE s == IF Op(t) = "eod" THEN "sweep" ELSE "shut"
<1>3. CASE To(t, s) /\ Release(t) /\ UNCHANGED phase
  <2>1. s \in Steps BY DEF Steps
  <2>2. /\ startLock' = startLock \/ (startLock \in {None, t} /\ startLock' \in {None, t})
        /\ orderLock' = orderLock \/ (orderLock \in {None, t} /\ orderLock' \in {None, t})
        /\ startLock' # t /\ orderLock' # t
    BY <1>3 DEF Release
  <2>3. (Turn(t)' => Turns') /\ task'[t].at = s BY <1>1, <1>3, <2>1, <2>2, MovesOn
  <2>4. Turn(t)' BY <2>2, <2>3 DEF Turn, Holding, Needing, Shaped, Unpaused, At
  <2> QED BY <2>3, <2>4
<1> QED BY <1>2, <1>3 DEF Unrun

\* An automatic start reads the pause before it goes on.
LEMMA ReadyWillingTurns ==
  ASSUME Turns, NEW t \in Tasks, Ready(t) \/ Willing(t)
  PROVE  Turns'
<1>1. /\ task[t].at \in {"ready", "willing"} /\ task[t] # Idle /\ Turn(t) /\ UNCHANGED paused
  BY DEF Ready, Willing, At, Idle, Turns, flags
<1>2. CASE Done(t) BY <1>1, <1>2, EndsWell
<1>3. CASE task[t].at = "ready" /\ Goto(t, "lock")
  <2>1. "lock" \in Steps /\ startLock # t /\ orderLock # t BY <1>3, FreeHands DEF Steps
  <2>2. Turn(t)'
    BY <1>1, <1>3, <2>1, GoesOn DEF Turn, Holding, Needing, Shaped, Unpaused, At, Starters
  <2> QED BY <1>1, <1>3, <2>1, <2>2, GoesOn
<1>4. CASE task[t].at = "willing" /\ ~paused /\ Goto(t, "authorize")
  <2>1. "authorize" \in Steps BY DEF Steps
  <2>2. Turn(t)'
    BY <1>1, <1>4, <2>1, GoesOn DEF Turn, Holding, Needing, Shaped, Unpaused, At, Starters,
      Stoppers, Buyers
  <2> QED BY <1>1, <1>4, <2>1, <2>2, GoesOn
<1> QED BY <1>2, <1>3, <1>4 DEF Ready, Willing, At

LEMMA UnpauseTurns ==
  ASSUME Turns, NEW t \in Tasks, Unpause(t)
  PROVE  Turns'
<1>1. /\ task[t].at = "unpause" /\ task[t] # Idle /\ Turn(t) /\ (paused' => paused)
  BY DEF Unpause, At, Idle, Turns
<1>2. CASE Done(t) BY <1>1, <1>2, EndsWell
<1>3. CASE paused' = FALSE /\ Goto(t, "run")
  <2>1. "run" \in Steps BY DEF Steps
  <2>2. Turn(t)'
    BY <1>1, <1>3, <2>1, GoesOn DEF Turn, Holding, Needing, Shaped, Unpaused, At, Starters,
      Stoppers, Buyers
  <2> QED BY <1>1, <1>3, <2>1, <2>2, GoesOn
<1> QED BY <1>2, <1>3 DEF Unpause

LEMMA EngineTurns ==
  ASSUME Turns, NEW t \in Tasks, EngineStep(t)
  PROVE  Turns'
<1>1. ASSUME Run(t) PROVE Turns'
  <2>1. At(t, "run") /\ UNCHANGED paused /\ Done(t) BY <1>1 DEF Run
  <2>2. task[t] # Idle BY <2>1 DEF At, Idle
  <2> QED BY <2>1, <2>2, EndsWell
<1> QED
  BY <1>1, TakeStartTurns, TakeOrderTurns, PauseTurns, UnrunTurns, ReadyWillingTurns, UnpauseTurns
  DEF EngineStep

-----------------------------------------------------------------------------
LEMMA SwanTurns ==
  ASSUME Turns, NEW t \in Tasks, Swan(t)
  PROVE  Turns'
<1>1. /\ task[t].at = "swan" /\ task[t] # Idle /\ Turn(t) /\ UNCHANGED paused /\ Goto(t, "lock")
      /\ startLock # t /\ orderLock # t
  BY FreeHands DEF Swan, At, Idle, Turns
<1>2. "lock" \in Steps BY DEF Steps
<1>3. Turn(t)'
  BY <1>1, <1>2, GoesOn DEF Turn, Holding, Needing, Shaped, Unpaused, At, Stoppers
<1> QED BY <1>1, <1>2, <1>3, GoesOn

LEMMA LatchTurns ==
  ASSUME Turns, NEW t \in Tasks, Latch(t)
  PROVE  Turns'
<1>1. /\ task[t].at \in Free \ {"unrun2"} /\ task[t] # Idle /\ Turn(t) /\ UNCHANGED paused
      /\ startLock # t /\ orderLock # t
  <2>1. task[t].at \in Free \ {"unrun2"} BY DEF Latch, At, Free
  <2> QED BY <2>1, FreeHands DEF Latch, Free, Idle, Turns
<1>2. CASE \E s \in Free : Goto(t, s) BY <1>1, <1>2, FreeStep
<1>3. CASE Done(t) BY <1>1, <1>3, EndsWell
<1>4. CASE Op(t) = "boot" /\ Goto(t, "recovered")
  <2>1. "recovered" \in Steps BY DEF Steps
  <2>2. Turn(t)'
    BY <1>1, <1>4, <2>1, GoesOn DEF Turn, Holding, Needing, Shaped, Unpaused, At
  <2> QED BY <1>1, <1>4, <2>1, <2>2, GoesOn
<1>5. {"locked", "locked2", "halt"} \subseteq Free BY DEF Free
<1> QED BY <1>2, <1>3, <1>4, <1>5 DEF Latch

LEMMA BranchTurns ==
  ASSUME Turns, NEW t \in Tasks, Branch(t)
  PROVE  Turns'
<1> DEFINE r == IF Latched THEN [op |-> "reset", at |-> "latched"]
                ELSE [op |-> "resume", at |-> "authorize"]
<1>1. /\ task[t].at = "branch" /\ task[t] # Idle /\ UNCHANGED <<paused, startLock, orderLock, phase>>
      /\ startLock # t /\ orderLock # t /\ task' = [task EXCEPT ![t] = r]
  BY FreeHands DEF Branch, At, Idle, Free, flags, locks
<1>2. r \in TaskType BY DEF TaskType, AllOps, Steps
<1>3. task'[t] = r /\ phase' \in {"boot", "up"} BY <1>1 DEF Turns, Quiet
<1>4. Turn(t)'
  BY <1>1, <1>3 DEF Turn, Holding, Needing, Shaped, Unpaused, At, Op, Starters
<1> QED BY <1>1, <1>2, <1>3, <1>4, TurnSuffices

\* What is left of the kill and the reset goes from step to step without a lock.
LEMMA KillTurns ==
  ASSUME Turns, NEW t \in Tasks, KillStep(t)
  PROVE  Turns'
<1>1. ASSUME Shut(t) \/ SquareOff(t) \/ Halt(t) \/ IsLatched(t) \/ Unlatch(t) \/ Reopen(t) \/ Unhalt(t)
      PROVE  Turns'
  <2>1. task[t].at \in Free \ {"unrun2"} /\ UNCHANGED paused
    BY <1>1 DEF Shut, SquareOff, Halt, IsLatched, Unlatch, Reopen, Unhalt, At, Free, flags
  <2>2. task[t] # Idle /\ startLock # t /\ orderLock # t BY <2>1, FreeHands DEF Idle, Free
  <2>3. CASE Done(t) BY <2>1, <2>2, <2>3, EndsWell
  <2>4. CASE \E s \in Free : Goto(t, s) BY <2>1, <2>2, <2>4, FreeStep
  <2>5. {"sweep", "latch", "latched2", "unlatch", "heal", "unhalt"} \subseteq Free BY DEF Free
  <2> QED
    BY <1>1, <2>3, <2>4, <2>5 DEF Shut, SquareOff, Halt, IsLatched, Unlatch, Reopen, Unhalt
<1> QED BY <1>1, SwanTurns, LatchTurns, BranchTurns DEF KillStep

-----------------------------------------------------------------------------
\* A cycle that finds the chaos evidence stale goes on to stop the engine.
LEMMA ChaosTurns ==
  ASSUME Turns, NEW t \in Tasks, At(t, "gate"), UNCHANGED <<paused, locks, phase>>,
         task' = [task EXCEPT ![t] = [op |-> "chaos", at |-> "unrun2"]]
  PROVE  Turns'
<1> DEFINE r == [op |-> "chaos", at |-> "unrun2"]
<1>1. /\ startLock # t /\ orderLock # t /\ task[t] # Idle
      /\ UNCHANGED <<startLock, orderLock>>
  BY FreeHands DEF At, Idle, locks
<1>2. r \in TaskType BY DEF TaskType, Steps
<1>3. task'[t] = r /\ phase' \in {"boot", "up"} BY <1>1 DEF Turns, Quiet
<1>4. Turn(t)'
  BY <1>1, <1>3 DEF Turn, Holding, Needing, Shaped, Unpaused, At, Op
<1> QED BY <1>1, <1>2, <1>3, <1>4, TurnSuffices

LEMMA CycleTurns ==
  ASSUME Turns, NEW t \in Tasks, Cycle(t)
  PROVE  Turns'
<1>1. /\ task[t].at \in {"running", "gate", "symbol"} /\ task[t] # Idle /\ Turn(t)
      /\ UNCHANGED paused /\ startLock # t /\ orderLock # t
  BY FreeHands DEF Cycle, At, Idle, Turns
<1>2. Op(t) = "tick" BY <1>1 DEF Turn, Shaped
<1>3. CASE \E s \in {"authorize", "symbol", "order"} : Goto(t, s)
  <2>1. PICK s \in {"authorize", "symbol", "order"} : Goto(t, s) BY <1>3
  <2>2. s \in Steps BY DEF Steps
  <2>3. Turn(t)'
    BY <1>1, <1>2, <2>1, <2>2, GoesOn DEF Turn, Holding, Needing, Shaped, Unpaused, At,
      Starters, Stoppers, Buyers
  <2> QED BY <1>1, <2>1, <2>2, <2>3, GoesOn
<1>4. CASE Done(t) BY <1>1, <1>4, EndsWell
<1>5. CASE /\ At(t, "gate") /\ UNCHANGED <<locks, phase>>
           /\ task' = [task EXCEPT ![t] = [op |-> "chaos", at |-> "unrun2"]]
  BY <1>1, <1>5, ChaosTurns
<1> QED BY <1>3, <1>4, <1>5 DEF Cycle

\* The pause is read under order_lock, which every analysis holds.
LEMMA EntryTurns ==
  ASSUME Turns, NEW t \in Tasks, EntryStep(t)
  PROVE  Turns'
<1>1. ASSUME Submit(t) \/ NoTrade(t) PROVE Turns'
  BY <1>1, AnalysisEnds DEF Submit, NoTrade, At, Idle, flags
<1>2. CASE Analyze(t) /\ EnterSafe(t) BY <1>2, EntersSafe DEF Analyze, At, Idle
<1>3. ASSUME NEW s \in {"checkpause", "checkhalt", "submit"}, Goto(t, s), UNCHANGED paused,
             task[t].at \in {"analyze", "checkpause", "checkhalt"},
             s \in {"checkhalt", "submit"} => ~paused
      PROVE  Turns'
  <2>1. s \in Steps /\ task[t] # Idle /\ Turn(t) BY <1>3 DEF Steps, Idle, Turns
  <2>2. orderLock = t /\ Op(t) \in Buyers BY <1>3, <2>1 DEF Turn, Needing, Shaped, At
  <2>3. Turn(t)'
    BY <1>3, <2>1, <2>2, GoesOn DEF Turn, Holding, Needing, Shaped, Unpaused, At,
      Starters, Stoppers, Buyers
  <2> QED BY <1>3, <2>1, <2>3, GoesOn
<1>4. ASSUME CheckHalt(t) PROVE ~paused BY <1>4 DEF CheckHalt, At, Turns, Turn, Unpaused
<1> QED
  BY <1>1, <1>2, <1>3, <1>4, CycleTurns
  DEF EntryStep, Analyze, CheckPause, CheckHalt, At, flags

-----------------------------------------------------------------------------
LEMMA DieTurns ==
  ASSUME Turns, Die
  PROVE  Turns'
<1>1. task' = [t \in Tasks |-> Idle] /\ startLock' = None /\ orderLock' = None /\ phase' = "down"
  BY DEF Die
<1>2. Idle \in TaskType BY DEF Idle, TaskType, Steps
<1>3. task' \in [Tasks -> TaskType] BY <1>1, <1>2
<1>4. \A t \in Tasks : task'[t] = Idle BY <1>1
<1>5. \A t \in Tasks : Turn(t)'
  BY <1>1, <1>4 DEF Turn, Holding, Needing, Shaped, Unpaused, Idle, At, Op
<1> QED BY <1>1, <1>3, <1>4, <1>5 DEF Turns, Quiet

LEMMA BootTurns ==
  ASSUME Turns, NEW t \in Tasks, BootStep(t)
  PROVE  Turns'
<1>1. ASSUME NEW s \in {"fresh", "relock", "halt", "recovered", "lock"}, Goto(t, s),
             UNCHANGED paused, task[t].at \in {"load", "fresh", "relock", "recovered"}
      PROVE  Turns'
  <2>1. s \in Steps /\ task[t] # Idle /\ Turn(t) /\ startLock # t /\ orderLock # t
    BY <1>1, FreeHands DEF Steps, Idle, Turns
  <2>2. Op(t) = "boot" BY <1>1, <2>1 DEF Turn, Shaped
  <2>3. Turn(t)'
    BY <1>1, <2>1, <2>2, GoesOn DEF Turn, Holding, Needing, Shaped, Unpaused, At, Starters
  <2> QED BY <1>1, <2>1, <2>3, GoesOn
<1>2. ASSUME Load(t) \/ ForgetRun(t) \/ Relock(t) PROVE Turns'
  BY <1>1, <1>2 DEF Load, ForgetRun, Relock, At, flags
<1>3. ASSUME Recovered(t) PROVE Turns'
  <2>1. task[t].at = "recovered" /\ task[t] # Idle /\ UNCHANGED paused
    BY <1>3 DEF Recovered, At, Idle, flags
  <2>2. CASE Goto(t, "lock") BY <1>1, <2>1, <2>2
  <2>3. CASE Done(t) BY <2>1, <2>3, EndsWell
  <2> QED BY <1>3, <2>2, <2>3 DEF Recovered
<1>4. ASSUME BootFails(t) PROVE Turns' BY <1>4, DieTurns DEF BootFails
<1> QED BY <1>2, <1>3, <1>4 DEF BootStep

LEMMA BeginTurns ==
  ASSUME Turns, NEW t \in Tasks, Begin(t)
  PROVE  Turns'
<1>1. PICK op \in Ops : /\ Serving /\ task[t] = Idle
                        /\ task' = [task EXCEPT ![t] = [op |-> op, at |-> First(op)]]
                        /\ UNCHANGED <<flags, locks, phase>>
  BY DEF Begin
<1> DEFINE r == [op |-> op, at |-> First(op)]
<1>2. op \in AllOps BY OpsAssumption
<1>3. r \in TaskType BY <1>2 DEF TaskType, AllOps, Steps, First
<1>4. /\ startLock # t /\ orderLock # t /\ phase' \in {"boot", "up"}
      /\ UNCHANGED <<startLock, orderLock, paused>>
  BY <1>1, FreeHands DEF Idle, Serving, flags, locks
<1>5. task'[t] = r BY <1>1 DEF Turns
<1>6. Turn(t)'
  <2>1. Op(t)' = op /\ task'[t].at = First(op) BY <1>5 DEF Op
  <2>2. First(op) \in {"authorize", "safe", "swan", "branch", "latched", "latched2", "lock", "ready",
                       "running", "order", "latch", "paused", "activate", "recover"}
    BY <1>2 DEF First, AllOps
  <2>3. /\ First(op) = "authorize" => op = "kill"
        /\ First(op) = "lock" => op \in {"start", "stop", "eod"}
        /\ First(op) = "order" => op = "analyze"
        /\ First(op) = "ready" => op = "auto"
        /\ First(op) = "swan" => op = "flatten"
        /\ First(op) = "running" => op = "tick"
    BY <1>2 DEF First, AllOps
  <2> QED
    BY <1>4, <2>1, <2>2, <2>3 DEF Turn, Holding, Needing, Shaped, Unpaused, At, Starters,
      Stoppers, Buyers
<1> QED BY <1>1, <1>3, <1>4, <1>6, TurnSuffices

LEMMA StartupTurns ==
  ASSUME Turns, NEW t \in Tasks, Boot(t)
  PROVE  Turns'
<1>0. PICK s \in {"heal", "load"} : task' = [task EXCEPT ![t] = [op |-> "boot", at |-> s]]
  BY DEF Boot
<1> DEFINE r == [op |-> "boot", at |-> s]
<1>1. /\ startLock = None /\ orderLock = None /\ phase' = "boot"
      /\ task' = [task EXCEPT ![t] = r] /\ UNCHANGED <<startLock, orderLock, paused>>
  BY <1>0 DEF Boot, Turns, flags, locks
<1>2. r \in TaskType BY DEF TaskType, Steps
<1>3. task'[t] = r BY <1>1 DEF Turns
<1>4. Turn(t)'
  BY <1>1, <1>3 DEF Turn, Holding, Needing, Shaped, Unpaused, At, Op
<1> QED BY <1>1, <1>2, <1>4, TurnSuffices

-----------------------------------------------------------------------------
LEMMA InitTurns == Init => Turns
<1> SUFFICES ASSUME Init PROVE Turns OBVIOUS
<1>1. Idle \in TaskType BY DEF Idle, TaskType, Steps
<1>2. /\ task = [t \in Tasks |-> Idle] /\ startLock = None /\ orderLock = None /\ phase = "down"
  BY DEF Init
<1>3. \A t \in Tasks : task[t] = Idle BY <1>2
<1>4. \A t \in Tasks : Turn(t)
  BY <1>2, <1>3 DEF Turn, Holding, Needing, Shaped, Unpaused, Idle, At, Op
<1> QED BY <1>1, <1>2, <1>3, <1>4 DEF Turns, Quiet

\* A step that changes neither tasks, locks, process nor pause.
LEMMA StillTurns ==
  ASSUME Turns, UNCHANGED <<task, startLock, orderLock, phase, paused>>
  PROVE  Turns'
BY DEF Turns, Turn, Holding, Needing, Shaped, Unpaused, At, Op, Quiet

LEMMA NextTurns == Turns /\ [Next]_vars => Turns'
<1> SUFFICES ASSUME Turns, [Next]_vars PROVE Turns' OBVIOUS
<1>1. ASSUME NEW t \in Tasks, Begin(t) \/ Step(t) \/ Boot(t) PROVE Turns'
  BY <1>1, BeginTurns, StartupTurns, BrainTurns, EngineTurns, KillTurns, EntryTurns, BootTurns
  DEF Step
<1>2. CASE Crash BY <1>2, DieTurns DEF Crash
<1>3. CASE Shutdown BY <1>3, StillTurns DEF Shutdown, locks
<1>4. CASE Redis BY <1>4, StillTurns DEF Redis, locks
<1>5. CASE UNCHANGED vars BY <1>5, StillTurns DEF vars, flags, locks
<1> QED BY <1>1, <1>2, <1>3, <1>4, <1>5 DEF Next

\* Every reachable state has its turns right: who is past the check of the pause
\* holds order_lock, who starts or stops the engine holds _start_stop_lock.
THEOREM TurnsHold == Spec => []Turns
BY InitTurns, NextTurns, PTL DEF Spec

\* However many requests and loops interleave: between the check of the pause and
\* the order, the operator has not paused the entries.
THEOREM PausedNoEntryHolds == Spec => []PausedNoEntry
<1>1. Turns => PausedNoEntry BY DEF Turns, Turn, Unpaused, PausedNoEntry
<1> QED BY <1>1, TurnsHold, PTL

\* No start sets the run flag while the operator's pause is in force, whichever
\* automatic and manual starts, stops and crashes went before.
THEOREM AutoRespectsPauseHolds == Spec => []AutoRespectsPause
<1>1. Turns => AutoRespectsPause BY DEF Turns, Turn, Unpaused, AutoRespectsPause, At
<1> QED BY <1>1, TurnsHold, PTL

\* No task waits for itself, and no circle of tasks waits for each other.
THEOREM LockOrderHolds == Spec => []LockOrder
<1>1. Turns => LockOrder BY DEF Turns, Turn, Holding, LockOrder
<1> QED BY <1>1, TurnsHold, PTL

-----------------------------------------------------------------------------
(***************************************************************************)
(* What outlives a process: the run flag, and a kill.                      *)
(***************************************************************************)

\* The flag is not set, or was set by a start of this process.
Ran == cached.running = TRUE => started

Keyed == cached \in [{"latch", "state", "halt", "running"} -> BOOLEAN \cup SystemState \cup {None}]

\* The steps of the startup before it has forgotten the flag, and after.
Early == {"heal", "active", "load", "fresh"}
Late  == {"relock", "halt", "latch", "locked", "locked2", "recovered",
          "lock", "willing", "authorize", "run", "unrun2"}

BootShaped(t) ==
  task[t] = Idle \/ (Op(t) = "boot" /\ (task[t].at \in Early \/ (task[t].at \in Late /\ Ran)))

\* The inductive invariant, with Turns.
Owned ==
  /\ Keyed
  /\ Serving => Ran
  /\ phase = "boot" => \A t \in Tasks : BootShaped(t)

-----------------------------------------------------------------------------
\* What a step of a task that does not end the process leaves true.
Keeps == Keyed' /\ (Ran => Ran') /\ phase' \in {phase, "up"}

LEMMA SetRunningKeeps ==
  ASSUME Keyed, SetRunning(FALSE)
  PROVE  Keyed' /\ Ran'
BY DEF Keyed, SetRunning, Ran

LEMMA WriteKeeps ==
  ASSUME Keyed, UNCHANGED started,
         NEW k \in {"latch", "state", "halt"}, NEW v \in BOOLEAN \cup SystemState, Write(k, v)
  PROVE  Keyed' /\ (Ran => Ran')
BY DEF Keyed, Write, Ran

LEMMA SameKeeps ==
  ASSUME Keyed, UNCHANGED <<cached, started>>
  PROVE  Keyed' /\ (Ran => Ran')
BY DEF Keyed, Ran

LEMMA PhaseDone == ASSUME NEW t \in Tasks, Done(t) PROVE phase' \in {phase, "up"}
BY DEF Done

LEMMA PhaseGoto == ASSUME NEW t \in Tasks, NEW s, Goto(t, s) PROVE phase' \in {phase, "up"}
BY DEF Goto

LEMMA PhaseAnalysis == ASSUME NEW t \in Tasks, EndAnalysis(t) PROVE phase' \in {phase, "up"}
BY DEF Done, EndAnalysis

LEMMA PhaseHealed == ASSUME NEW t \in Tasks, Healed(t) PROVE phase' \in {phase, "up"}
BY PhaseDone, PhaseGoto DEF Healed

LEMMA SafeKeeps ==
  ASSUME Keyed, NEW t \in Tasks, EnterSafe(t), UNCHANGED started
  PROVE  Keeps
BY WriteKeeps, PhaseGoto DEF EnterSafe, Keeps, SystemState

LEMMA BrainKeeps ==
  ASSUME Keyed, NEW t \in Tasks, BrainStep(t)
  PROVE  Keeps
<1>1. CASE Authorize(t)
  <2>1. CASE EnterSafe(t) BY <1>1, <2>1, SafeKeeps DEF Authorize
  <2>2. CASE UNCHANGED <<cached, started>> /\ phase' \in {phase, "up"}
    BY <2>2, SameKeeps DEF Keeps
  <2> QED BY <1>1, <2>1, <2>2, PhaseDone, PhaseGoto DEF Authorize
<1>2. CASE Safe(t) BY <1>2, SafeKeeps DEF Safe
<1>3. CASE SafeStops(t)
  <2>1. phase' \in {phase, "up"}
    BY <1>3, PhaseGoto, PhaseDone, PhaseAnalysis DEF SafeStops
  <2> QED BY <1>3, <2>1, SetRunningKeeps, SameKeeps DEF SafeStops, Keeps
<1>4. CASE SetState(t) BY <1>4, WriteKeeps, PhaseDone, PhaseGoto DEF SetState, Keeps, SystemState
<1>5. CASE Recover(t) BY <1>5, SameKeeps, PhaseDone, PhaseGoto DEF Recover, Keeps, flags
<1>6. CASE Heal(t) BY <1>6, SameKeeps, PhaseHealed, PhaseGoto DEF Heal, Keeps
<1>7. CASE Activate(t) BY <1>7, WriteKeeps, PhaseHealed DEF Activate, Keeps, SystemState
<1> QED BY <1>1, <1>2, <1>3, <1>4, <1>5, <1>6, <1>7 DEF BrainStep

LEMMA EngineKeeps ==
  ASSUME Keyed, NEW t \in Tasks, EngineStep(t)
  PROVE  Keeps
<1>1. CASE TakeStart(t) \/ TakeOrder(t)
  BY <1>1, SameKeeps DEF TakeStart, TakeOrder, Keeps, flags
<1>2. CASE Pause(t) \/ Ready(t) \/ Willing(t) \/ Unpause(t)
  BY <1>2, SameKeeps, PhaseDone, PhaseGoto DEF Pause, Ready, Willing, Unpause, Keeps, flags
<1>3. CASE Unrun(t)
  BY <1>3, SameKeeps, SetRunningKeeps, PhaseDone DEF Unrun, Keeps
<1>4. CASE Run(t)
  <2>1. phase' \in {phase, "up"} BY <1>4, PhaseDone DEF Run
  <2>2. CASE redis BY <1>4, <2>1, <2>2 DEF Run, Keyed, SetRunning, Ran, Keeps
  <2>3. CASE ~redis BY <1>4, <2>1, <2>3, SameKeeps DEF Run, Keeps
  <2> QED BY <2>2, <2>3
<1> QED BY <1>1, <1>2, <1>3, <1>4 DEF EngineStep

LEMMA KillKeeps ==
  ASSUME Keyed, NEW t \in Tasks, KillStep(t)
  PROVE  Keeps
<1>1. CASE Swan(t) \/ Shut(t) \/ SquareOff(t) \/ IsLatched(t) \/ Reopen(t)
  BY <1>1, SameKeeps, PhaseDone, PhaseGoto
  DEF Swan, Shut, SquareOff, IsLatched, Reopen, Keeps, flags
<1>2. CASE Latch(t)
  BY <1>2, WriteKeeps, PhaseDone, PhaseGoto DEF Latch, Keeps, SystemState
<1>3. CASE Halt(t) \/ Unlatch(t) \/ Unhalt(t)
  BY <1>3, WriteKeeps, PhaseDone, PhaseGoto DEF Halt, Unlatch, Unhalt, Keeps
<1>4. CASE Branch(t) BY <1>4, SameKeeps DEF Branch, Keeps, flags
<1> QED BY <1>1, <1>2, <1>3, <1>4 DEF KillStep

LEMMA EntryKeeps ==
  ASSUME Keyed, NEW t \in Tasks, EntryStep(t)
  PROVE  Keeps
<1>1. CASE Cycle(t)
  <2>1. CASE Write("state", "SAFE_MODE") /\ UNCHANGED phase
    BY <1>1, <2>1, WriteKeeps DEF Cycle, Keeps, SystemState
  <2>2. CASE UNCHANGED cached /\ phase' \in {phase, "up"}
    BY <1>1, <2>2, SameKeeps DEF Cycle, Keeps
  <2> QED BY <1>1, <2>1, <2>2, PhaseDone, PhaseGoto DEF Cycle
<1>2. CASE Analyze(t)
  BY <1>2, SafeKeeps, SameKeeps, PhaseGoto DEF Analyze, Keeps
<1>3. CASE CheckPause(t) \/ CheckHalt(t) \/ Submit(t) \/ NoTrade(t)
  BY <1>3, SameKeeps, PhaseGoto, PhaseAnalysis
  DEF CheckPause, CheckHalt, Submit, NoTrade, Keeps, flags
<1> QED BY <1>1, <1>2, <1>3 DEF EntryStep

LEMMA BootKeeps ==
  ASSUME Keyed, NEW t \in Tasks, Load(t) \/ ForgetRun(t) \/ Relock(t) \/ Recovered(t)
  PROVE  Keeps
<1>1. CASE ForgetRun(t) BY <1>1, SetRunningKeeps, PhaseGoto DEF ForgetRun, Keeps
<1>2. CASE Load(t) \/ Relock(t) \/ Recovered(t)
  BY <1>2, SameKeeps, PhaseGoto, PhaseDone DEF Load, Relock, Recovered, Keeps, flags
<1> QED BY <1>1, <1>2

\* Every step of a task keeps the flag its own, or the process ends.
LEMMA StepKeeps ==
  ASSUME Keyed, NEW t \in Tasks, Step(t)
  PROVE  Keeps \/ (Die /\ Op(t) = "boot")
BY BrainKeeps, EngineKeeps, KillKeeps, EntryKeeps, BootKeeps DEF Step, BootStep, BootFails

-----------------------------------------------------------------------------
\* A step of the startup: before the flag is forgotten it can neither end nor
\* get past that step, and after it nothing goes back.
LEMMA StartupMoves ==
  ASSUME Keyed, NEW t \in Tasks, Op(t) = "boot", task[t].at \in Early \cup Late,
         Step(t), ~BootFails(t)
  PROVE  \/ task[t].at \in Early /\ \E s \in Early : Goto(t, s)
         \/ Ran' /\ Goto(t, "relock")
         \/ task[t].at \in Late /\ ((\E s \in Late : To(t, s) /\ UNCHANGED phase) \/ Done(t))
<1>1. \/ Heal(t) \/ Activate(t) \/ Load(t) \/ ForgetRun(t) \/ Relock(t) \/ Halt(t) \/ Latch(t)
      \/ Recovered(t) \/ TakeStart(t) \/ Willing(t) \/ Authorize(t) \/ SafeStops(t) \/ Run(t)
  <2>1. ~Safe(t) /\ ~SetState(t) /\ ~Recover(t)
    BY DEF Early, Late, Safe, SetState, Recover, At
  <2>2. ~TakeOrder(t) /\ ~Pause(t) /\ ~Unrun(t) /\ ~Ready(t) /\ ~Unpause(t)
    BY DEF Early, Late, TakeOrder, Pause, Unrun, Ready, Unpause, At
  <2>3. ~Swan(t) /\ ~Shut(t) /\ ~SquareOff(t) /\ ~Branch(t) /\ ~IsLatched(t)
    BY DEF Early, Late, Swan, Shut, SquareOff, Branch, IsLatched, At
  <2>4. ~Unlatch(t) /\ ~Reopen(t) /\ ~Unhalt(t)
    BY DEF Early, Late, Unlatch, Reopen, Unhalt, At
  <2>5. ~EntryStep(t)
    BY DEF Early, Late, EntryStep, Cycle, Analyze, CheckPause, CheckHalt, Submit, NoTrade, At
  <2> QED
    BY <2>1, <2>2, <2>3, <2>4, <2>5 DEF Step, BrainStep, EngineStep, KillStep, BootStep
<1>2. CASE Heal(t) BY <1>2 DEF Heal, Healed, Early, At
<1>3. CASE Activate(t) BY <1>3 DEF Activate, Healed, Early, At
<1>4. CASE Load(t) BY <1>4 DEF Load, Early, At
<1>5. CASE ForgetRun(t) BY <1>5, SetRunningKeeps DEF ForgetRun
<1>6. CASE Relock(t) \/ Halt(t) \/ Latch(t)
  BY <1>6 DEF Relock, Halt, Latch, Late, At, Goto
<1>7. CASE Recovered(t) \/ TakeStart(t) \/ Willing(t)
  BY <1>7 DEF Recovered, TakeStart, Willing, Late, At, Goto
<1>8. CASE Authorize(t) BY <1>8 DEF Authorize, EnterSafe, Late, At, Goto
<1>9. CASE SafeStops(t) BY <1>9 DEF SafeStops, EndAnalysis, Late, At, Goto
<1>10. CASE Run(t) BY <1>10 DEF Run, Late, At
<1> QED BY <1>1, <1>2, <1>3, <1>4, <1>5, <1>6, <1>7, <1>8, <1>9, <1>10

\* An idle task takes no step.
LEMMA IdleRests == ASSUME NEW t \in Tasks, task[t].at = "idle", Step(t) PROVE FALSE
<1>1. ~BrainStep(t)
  BY DEF BrainStep, Authorize, Safe, SafeStops, SetState, Recover, Heal, Activate, At
<1>2. ~EngineStep(t)
  BY DEF EngineStep, TakeStart, TakeOrder, Pause, Unrun, Ready, Willing, Unpause, Run, At
<1>3. ~KillStep(t)
  BY DEF KillStep, Swan, Shut, SquareOff, Latch, Halt, Branch, IsLatched, Unlatch, Reopen,
    Unhalt, At
<1>4. ~EntryStep(t)
  BY DEF EntryStep, Cycle, Analyze, CheckPause, CheckHalt, Submit, NoTrade, At
<1>5. ~BootStep(t)
  BY DEF BootStep, Load, ForgetRun, BootFails, Relock, Recovered, At
<1> QED BY <1>1, <1>2, <1>3, <1>4, <1>5 DEF Step

LEMMA EndOwned ==
  ASSUME Owned, Die
  PROVE  Owned'
BY DEF Owned, Keyed, Die, Serving

LEMMA StartupOwned ==
  ASSUME Turns, Owned, phase = "boot", NEW t \in Tasks, Step(t), ~BootFails(t)
  PROVE  Owned'
<1>1. Op(t) = "boot" /\ (task[t].at \in Early \/ (task[t].at \in Late /\ Ran))
  BY IdleRests DEF Owned, BootShaped, Idle
<1>2. Keeps
  BY BrainKeeps, EngineKeeps, KillKeeps, EntryKeeps, BootKeeps DEF Step, BootStep, Owned
<1>3. Early \cap Late = {} BY DEF Early, Late
<1>4. CASE \E s \in Early : Goto(t, s)
  <2>1. PICK s \in Early : task' = [task EXCEPT ![t].at = s] /\ phase' = "boot"
    BY <1>4 DEF Goto, To
  <2>2. ASSUME NEW u \in Tasks PROVE BootShaped(u)'
    BY <1>1, <1>2, <2>1 DEF Owned, BootShaped, Keeps, Op, Turns, TaskType
  <2> QED BY <1>2, <2>1, <2>2 DEF Owned, Keeps, Serving
<1>5. CASE Ran' /\ \E s \in Late : To(t, s) /\ UNCHANGED phase
  <2>1. PICK s \in Late : task' = [task EXCEPT ![t].at = s] /\ phase' = "boot"
    BY <1>5 DEF To
  <2>2. ASSUME NEW u \in Tasks PROVE BootShaped(u)'
    BY <1>1, <1>5, <2>1 DEF Owned, BootShaped, Op, Turns, TaskType
  <2> QED BY <1>2, <2>1, <2>2 DEF Owned, Keeps, Serving
<1>6. CASE Ran' /\ Done(t) BY <1>1, <1>2, <1>6 DEF Owned, Keeps, Serving, Done
<1>7. "relock" \in Late BY DEF Late
<1> QED
  BY <1>1, <1>2, <1>3, <1>4, <1>5, <1>6, <1>7, StartupMoves DEF Owned, Keeps, Goto

LEMMA StepOwned ==
  ASSUME Turns, Owned, NEW t \in Tasks, Step(t)
  PROVE  Owned'
<1>1. CASE BootFails(t) BY <1>1, EndOwned DEF BootFails
<1>2. CASE phase = "boot" /\ ~BootFails(t) BY <1>2, StartupOwned
<1>3. CASE phase = "down" BY <1>3, IdleRests DEF Turns, Quiet, Idle
<1>4. CASE phase = "up" /\ ~BootFails(t)
  <2>1. Keeps
    BY <1>4, BrainKeeps, EngineKeeps, KillKeeps, EntryKeeps, BootKeeps DEF Step, BootStep, Owned
  <2> QED BY <1>4, <2>1 DEF Owned, Keeps, Serving
<1> QED BY <1>1, <1>2, <1>3, <1>4 DEF Turns

LEMMA BootOwned ==
  ASSUME Turns, Owned, NEW t \in Tasks, Boot(t)
  PROVE  Owned'
<1>0. PICK s \in {"heal", "load"} : task' = [task EXCEPT ![t] = [op |-> "boot", at |-> s]]
  BY DEF Boot
<1>1. /\ \A u \in Tasks : task[u] = Idle
      /\ task' = [task EXCEPT ![t] = [op |-> "boot", at |-> s]]
      /\ phase' = "boot" /\ UNCHANGED <<cached, started>>
  BY <1>0 DEF Boot, Turns, Quiet, flags
<1>2. ASSUME NEW u \in Tasks PROVE BootShaped(u)'
  BY <1>1 DEF BootShaped, Op, Early, Turns
<1> QED BY <1>1, <1>2 DEF Owned, Keyed, Serving

LEMMA StillOwned ==
  ASSUME Owned, UNCHANGED <<cached, task, phase, started>>
  PROVE  Owned'
BY DEF Owned, Keyed, Ran, BootShaped, Op, Serving

\* Redis loses its data, which forgets the flag.
LEMMA RedisOwned ==
  ASSUME Owned, Redis
  PROVE  Owned'
<1>1. UNCHANGED <<task, phase, started>> /\ cached' \in {cached, Flushed} BY DEF Redis
<1>2. CASE UNCHANGED cached BY <1>1, <1>2, StillOwned
<1>3. CASE cached' = Flushed
  <2>1. Keyed' BY <1>3 DEF Keyed, Flushed
  <2>2. cached'.running # TRUE BY <1>3, NoneAssumption DEF Flushed
  <2>3. Ran' BY <2>2 DEF Ran
  <2> QED BY <1>1, <2>1, <2>3 DEF Owned, BootShaped, Op, Serving
<1> QED BY <1>1, <1>2, <1>3

LEMMA InitOwned == Init => Owned
BY DEF Init, Owned, Keyed, Flushed, Serving

LEMMA NextOwned == Turns /\ Owned /\ [Next]_vars => Owned'
<1> SUFFICES ASSUME Turns, Owned, [Next]_vars PROVE Owned' OBVIOUS
<1>1. ASSUME NEW t \in Tasks, Begin(t) PROVE Owned'
  <2>1. phase = "up" /\ UNCHANGED <<cached, phase, started>>
    BY <1>1 DEF Begin, Serving, flags
  <2> QED BY <2>1 DEF Owned, Keyed, Ran, Serving
<1>2. ASSUME NEW t \in Tasks, Step(t) \/ Boot(t) PROVE Owned'
  BY <1>2, StepOwned, BootOwned
<1>3. CASE Crash BY <1>3, EndOwned DEF Crash
<1>4. CASE Redis BY <1>4, RedisOwned
<1>5. CASE Shutdown \/ UNCHANGED vars BY <1>5, StillOwned DEF Shutdown, vars, flags
<1> QED BY <1>1, <1>2, <1>3, <1>4, <1>5 DEF Next

\* Whatever was asked for and however often Redis and the process went away: a
\* process that serves requests finds the run flag set only if the engine was
\* started since that process began (the startup forgets the flag before anyone
\* else may read it).
THEOREM RunFlagOwnedHolds == Spec => []RunFlagOwned
<1>1. Owned => RunFlagOwned BY DEF Owned, Ran, RunFlagOwned
<1>2. Spec => []Owned BY InitOwned, NextOwned, TurnsHold, PTL DEF Spec
<1> QED BY <1>1, <1>2, PTL

-----------------------------------------------------------------------------
(* No entry after a kill, as long as nothing lifts it                      *)

Entered   == {"checkpause", "checkhalt", "submit"}
Unentered == \A u \in Tasks : task[u].at \notin Entered
After     == {"latch", "locked", "locked2", "halt"}
Undoing   == {"branch", "latched", "latched2", "unlatch", "reopen", "unhalt"}
Killer(t)  == Op(t) \in {"kill", "flatten"}
Booting(t) == Op(t) = "boot" /\ task[t].at # "idle"

\* A startup runs alone.
Alone ==
  \A t \in Tasks : Booting(t) => phase = "boot" /\ \A u \in Tasks \ {t} : task[u] = Idle

\* Which operations have a step of the kill, when none lifts one.
KillShaped(t) ==
  /\ task[t].at # "idle" => Op(t) \notin {"resume", "reset", "clear"}
  /\ task[t].at \notin Undoing
  /\ At(t, "shut") => Killer(t)
  /\ At(t, "sweep") => Op(t) \in {"kill", "flatten", "eod"}
  /\ task[t].at \in {"latch", "locked", "locked2"} => Op(t) \in {"kill", "flatten", "lock", "boot"}
  /\ At(t, "halt") => Op(t) \in {"kill", "flatten", "boot"}

\* What a kill has done: the halt before the square-off, which then waits for
\* whoever is on the way to an order; the latch.
KillHolds(t) == Killer(t) =>
  /\ task[t].at \in {"sweep"} \cup After => port # "ok"
  /\ task[t].at \in After => Unentered
  /\ task[t].at \in {"locked", "locked2", "halt"} /\ MaxOutages = 0 => cached.latch = TRUE

\* What stays of a kill, whatever crashes.
Sealed == (~DbFails /\ dport # "ok") \/ (MaxOutages = 0 /\ cached.latch = TRUE)

\* The process has read the portfolio.
Loaded ==
  phase = "up" \/ \E t \in Tasks : Booting(t) /\ task[t].at \notin {"heal", "active", "load"}

\* The inductive invariant, with Turns and Owned.
Seal ==
  /\ outages \in Nat /\ (MaxOutages = 0 => redis)
  /\ Alone
  /\ \A t \in Tasks : KillShaped(t) /\ KillHolds(t)
  /\ ~DbFails /\ Loaded => port = dport
  /\ killed => Sealed /\ Unentered

\* None of the operations that lift a kill is asked for, and Redis and the
\* database do not both fail.
Unlifted == Ops \cap {"resume", "reset", "clear"} = {} /\ (~DbFails \/ MaxOutages = 0)

-----------------------------------------------------------------------------
\* The brain lets nobody analyze while the portfolio is halted or the latch set.
LEMMA SaysNo == ASSUME Allowed("analyze") PROVE port = "ok" /\ ~Latched
<1>1. "analyze" \in Trading /\ "analyze" # "kill" BY DEF Trading
<1>2. Resolve # "EMERGENCY_LOCK" /\ Resolve # "SAFE_MODE"
  BY <1>1 DEF Allowed
<1>3. port = "ok" BY <1>1, <1>2 DEF Allowed
<1>4. Resolve = GetState BY <1>2, <1>3 DEF Resolve
<1> QED BY <1>2, <1>3, <1>4 DEF GetState

\* On the way to an order, a task holds order_lock.
LEMMA LockFree == ASSUME Turns, orderLock = None PROVE Unentered
BY TasksAssumption DEF Turns, Turn, Needing, Unentered, Entered

\* Where a step of t may lead: what matters to a kill is named.
Plain == Steps \ (Entered \cup After \cup Undoing \cup {"idle", "shut", "sweep"})
Walks(t) == \E s \in Plain : To(t, s) /\ UNCHANGED phase
TurnsChaotic(t) ==
  /\ UNCHANGED <<phase, env>>
  /\ task' = [task EXCEPT ![t] = [op |-> "chaos", at |-> "unrun2"]]
Stops(t) ==
  /\ At(t, "unrun") /\ UNCHANGED phase
  /\ \/ Op(t) = "eod" /\ To(t, "sweep")
     \/ Killer(t) /\ To(t, "shut")
Climbs(t) ==
  \/ At(t, "latch") /\ Write("latch", TRUE) /\ Goto(t, "locked")
  \/ At(t, "locked") /\ Goto(t, "locked2")
  \/ At(t, "locked2") /\ Killer(t) /\ Goto(t, "halt")
Relocks(t) == Op(t) = "boot" /\ \E s \in {"halt", "latch"} : Goto(t, s)
Enters(t) ==
  \E s \in Entered : Goto(t, s) /\ (task[t].at \in Entered \/ (At(t, "analyze") /\ Allowed("analyze")))

Leads(t) ==
  \/ Done(t) \/ Walks(t) \/ TurnsChaotic(t) \/ Stops(t) \/ Climbs(t) \/ Relocks(t) \/ Enters(t)
  \/ Shut(t)
  \/ SquareOff(t) /\ Killer(t) /\ Goto(t, "latch")

LEMMA WalksOn == ASSUME NEW t \in Tasks, NEW s \in Plain, Goto(t, s) PROVE Walks(t)
BY DEF Goto, Walks

LEMMA PlainSteps ==
  {"safe", "unrun2", "paused", "activate", "recover", "heal", "active", "lock", "order", "pause",
   "unrun", "ready", "willing", "authorize", "unpause", "run", "swan", "running", "gate", "symbol",
   "analyze", "load", "fresh", "relock", "recovered"} \subseteq Plain
BY DEF Plain, Steps, Entered, After, Undoing

LEMMA AnalysisLeads == ASSUME NEW t \in Tasks, EndAnalysis(t) PROVE Done(t) \/ Walks(t)
BY PlainSteps DEF EndAnalysis, Walks

LEMMA BrainLeads ==
  ASSUME Turns, NEW t \in Tasks, KillShaped(t), BrainStep(t)
  PROVE  Leads(t)
<1>1. CASE Authorize(t)
  <2>1. At(t, "authorize") /\ Op(t) \in Starters \cup {"kill", "tick"}
    BY <1>1 DEF Authorize, At, KillShaped, Turns, Turn, Shaped
  <2>2. CASE \E s \in {"lock", "unpause", "gate", "run", "unrun2"} : Goto(t, s)
    BY <2>2, WalksOn, PlainSteps DEF Leads
  <2> QED BY <1>1, <2>1, <2>2 DEF Authorize, EnterSafe, Leads, Starters
<1>2. CASE Safe(t) BY <1>2, WalksOn, PlainSteps DEF Safe, EnterSafe, Leads
<1>3. CASE SafeStops(t) BY <1>3, WalksOn, PlainSteps, AnalysisLeads DEF SafeStops, Leads
<1>4. CASE SetState(t) \/ Recover(t)
  BY <1>4, WalksOn, PlainSteps DEF SetState, Recover, Leads
<1>5. ASSUME Healed(t), task[t].at \in {"heal", "active"} PROVE Leads(t)
  <2>1. Op(t) # "reset" BY <1>5 DEF KillShaped
  <2> QED BY <1>5, <2>1, WalksOn, PlainSteps DEF Healed, Leads
<1>6. CASE Heal(t) BY <1>5, <1>6, WalksOn, PlainSteps DEF Heal, Leads, At
<1>7. CASE Activate(t) BY <1>5, <1>7 DEF Activate, At
<1> QED BY <1>1, <1>2, <1>3, <1>4, <1>6, <1>7 DEF BrainStep

LEMMA EngineLeads ==
  ASSUME Turns, NEW t \in Tasks, EngineStep(t)
  PROVE  Leads(t)
<1>1. CASE TakeStart(t)
  <2>1. PICK s \in {"authorize", "willing", "order"} : To(t, s)
    BY <1>1 DEF TakeStart
  <2> QED BY <1>1, <2>1, PlainSteps DEF TakeStart, Leads, Walks
<1>2. CASE TakeOrder(t)
  <2>1. PICK s \in {"analyze", "unrun", "pause"} : To(t, s)
    BY <1>2 DEF TakeOrder
  <2> QED BY <1>2, <2>1, PlainSteps DEF TakeOrder, Leads, Walks
<1>3. CASE Pause(t) \/ Ready(t) \/ Willing(t) \/ Unpause(t) \/ Run(t)
  BY <1>3, WalksOn, PlainSteps DEF Pause, Ready, Willing, Unpause, Run, Leads
<1>4. CASE Unrun(t)
  BY <1>4 DEF Unrun, Leads, Stops, Killer
<1> QED BY <1>1, <1>2, <1>3, <1>4 DEF EngineStep

LEMMA KillLeads ==
  ASSUME Turns, NEW t \in Tasks, KillShaped(t), KillStep(t)
  PROVE  Leads(t)
<1>1. CASE Swan(t) BY <1>1, WalksOn, PlainSteps DEF Swan, Leads
<1>2. CASE Shut(t) BY <1>2 DEF Leads
<1>3. CASE SquareOff(t)
  <2>1. Op(t) \in {"kill", "flatten", "eod"} BY <1>3 DEF SquareOff, KillShaped
  <2> QED BY <1>3, <2>1 DEF SquareOff, Leads, Killer
<1>4. CASE Latch(t)
  <2>1. task[t].at \in {"latch", "locked", "locked2"} BY <1>4 DEF Latch, At
  <2>2. Op(t) \in {"kill", "flatten", "lock", "boot"} BY <2>1 DEF KillShaped
  <2> QED BY <1>4, <2>2, WalksOn, PlainSteps DEF Latch, Leads, Climbs, Killer
<1>5. CASE Halt(t) BY <1>5 DEF Halt, Leads, Relocks
<1>6. ~Branch(t) /\ ~IsLatched(t) /\ ~Unlatch(t) /\ ~Reopen(t) /\ ~Unhalt(t)
  BY DEF KillShaped, Undoing, Branch, IsLatched, Unlatch, Reopen, Unhalt, At
<1> QED BY <1>1, <1>2, <1>3, <1>4, <1>5, <1>6 DEF KillStep

LEMMA EntryLeads ==
  ASSUME Turns, NEW t \in Tasks, EntryStep(t)
  PROVE  Leads(t)
<1>1. CASE Cycle(t)
  <2>1. CASE Goto(t, "authorize") \/ Goto(t, "symbol") \/ Goto(t, "order")
    BY <2>1, WalksOn, PlainSteps DEF Leads
  <2>2. CASE /\ UNCHANGED <<locks, phase, env>>
             /\ task' = [task EXCEPT ![t] = [op |-> "chaos", at |-> "unrun2"]]
    BY <2>2 DEF Leads, TurnsChaotic
  <2> QED BY <1>1, <2>1, <2>2 DEF Cycle, Leads
<1>2. CASE Analyze(t)
  BY <1>2, WalksOn, PlainSteps DEF Analyze, EnterSafe, Leads, Enters, Entered
<1>3. CASE CheckPause(t) \/ CheckHalt(t)
  BY <1>3 DEF CheckPause, CheckHalt, Leads, Enters, Entered, At
<1>4. CASE Submit(t) \/ NoTrade(t)
  BY <1>4, AnalysisLeads DEF Submit, NoTrade, Leads
<1> QED BY <1>1, <1>2, <1>3, <1>4 DEF EntryStep

LEMMA StepLeads ==
  ASSUME Turns, NEW t \in Tasks, KillShaped(t), Step(t), ~BootFails(t)
  PROVE  Leads(t)
<1>1. CASE Load(t) \/ ForgetRun(t) \/ Recovered(t)
  BY <1>1, WalksOn, PlainSteps DEF Load, ForgetRun, Recovered, Leads
<1>2. CASE Relock(t)
  <2>1. Op(t) = "boot" BY <1>2 DEF Relock, At, Turns, Turn, Shaped
  <2> QED BY <1>2, <2>1, WalksOn, PlainSteps DEF Relock, Leads, Relocks
<1> QED
  BY <1>1, <1>2, BrainLeads, EngineLeads, KillLeads, EntryLeads DEF Step, BootStep

-----------------------------------------------------------------------------
\* A task that leads on is the only one that moves.
LEMMA LeadsAlone ==
  ASSUME Turns, NEW t \in Tasks, Leads(t)
  PROVE  \A u \in Tasks \ {t} : task'[u] = task[u]
<1>1. \E r : task' = [task EXCEPT ![t] = r]
  <2>1. ASSUME NEW s, To(t, s) PROVE \E r : task' = [task EXCEPT ![t] = r]
    BY <2>1 DEF To
  <2>2. CASE Done(t) BY <2>2 DEF Done
  <2>3. CASE Walks(t) \/ Stops(t) \/ Climbs(t) \/ Relocks(t) \/ Enters(t)
    BY <2>1, <2>3 DEF Walks, Stops, Climbs, Relocks, Enters, Goto
  <2>4. CASE TurnsChaotic(t) BY <2>4 DEF TurnsChaotic
  <2>5. CASE Shut(t) \/ Goto(t, "latch") BY <2>1, <2>5 DEF Shut, Goto
  <2> QED BY <2>2, <2>3, <2>4, <2>5 DEF Leads
<1> QED BY <1>1 DEF Turns

\* Where a step to s leaves the task.
LEMMA ToPlace ==
  ASSUME Turns, NEW t \in Tasks, NEW s, To(t, s)
  PROVE  task'[t].at = s /\ Op(t)' = Op(t) /\ UNCHANGED env
BY DEF To, Turns, TaskType, Op

LEMMA DonePlace ==
  ASSUME Turns, NEW t \in Tasks, Done(t)
  PROVE  /\ task'[t] = Idle /\ task'[t].at = "idle" /\ UNCHANGED env
         /\ phase' = IF Op(t) = "boot" THEN "up" ELSE phase
BY DEF Done, Turns, Idle

LEMMA ChaosPlace ==
  ASSUME Turns, NEW t \in Tasks, TurnsChaotic(t)
  PROVE  task'[t].at = "unrun2" /\ Op(t)' = "chaos" /\ UNCHANGED <<phase, env>>
BY DEF TurnsChaotic, Turns, Op

LEMMA WalksPlace ==
  ASSUME Turns, NEW t \in Tasks, Walks(t)
  PROVE  /\ task'[t].at \in Plain /\ Op(t)' = Op(t) /\ UNCHANGED <<phase, env>>
         /\ task'[t].at \notin Entered \cup After \cup Undoing \cup {"idle", "shut", "sweep"}
BY ToPlace DEF Walks, Plain

LEMMA GotoPlace ==
  ASSUME Turns, NEW t \in Tasks, NEW s, Goto(t, s)
  PROVE  task'[t].at = s /\ Op(t)' = Op(t) /\ UNCHANGED <<phase, env>>
BY ToPlace DEF Goto

\* What a step of a task other than an end, a stroll or the chaos does to it.
LEMMA ClimbsPlace ==
  ASSUME Turns, NEW t \in Tasks, Climbs(t)
  PROVE  /\ task[t].at \in {"latch", "locked", "locked2"} /\ task'[t].at \in {"locked", "locked2", "halt"}
         /\ task[t].at = "latch" => Write("latch", TRUE)
         /\ task'[t].at = "halt" => Killer(t)
         /\ Op(t)' = Op(t) /\ UNCHANGED <<phase, env>>
<1>1. PICK s \in {"locked", "locked2", "halt"} : Goto(t, s) /\ (s = "halt" => Killer(t))
  BY DEF Climbs
<1>2. task'[t].at = s /\ Op(t)' = Op(t) /\ UNCHANGED <<phase, env>> BY <1>1, GotoPlace
<1>3. task[t].at \in {"latch", "locked", "locked2"} /\ (task[t].at = "latch" => Write("latch", TRUE))
  BY DEF Climbs, At
<1> QED BY <1>1, <1>2, <1>3

\* The operations keep to their steps.
LEMMA ShapedOn ==
  ASSUME Turns, NEW t \in Tasks, KillShaped(t), Leads(t), task[t].at # "idle"
  PROVE  KillShaped(t)'
<1>1. CASE Done(t)
  BY <1>1, DonePlace DEF KillShaped, At, Undoing
<1>2. CASE Walks(t)
  BY <1>2, WalksPlace DEF KillShaped, At, After, Idle
<1>3. CASE TurnsChaotic(t)
  BY <1>3, ChaosPlace DEF KillShaped, At, Undoing
<1>4. CASE Stops(t)
  BY <1>4, ToPlace DEF Stops, KillShaped, At, Undoing, Killer
<1>5. CASE Climbs(t)
  <2>1. Op(t) \in {"kill", "flatten", "lock", "boot"} BY <1>5, ClimbsPlace DEF KillShaped
  <2> QED BY <1>5, <2>1, ClimbsPlace DEF KillShaped, At, Undoing, Killer
<1>6. CASE Relocks(t)
  <2>1. PICK s \in {"halt", "latch"} : Goto(t, s) BY <1>6 DEF Relocks
  <2>2. task'[t].at = s /\ Op(t)' = "boot" BY <1>6, <2>1, GotoPlace DEF Relocks
  <2> QED BY <2>2 DEF KillShaped, At, Undoing
<1>7. CASE Enters(t)
  <2>1. PICK s \in Entered : Goto(t, s) /\ task[t].at # "idle"
    BY <1>7 DEF Enters
  <2>2. task'[t].at = s /\ Op(t)' = Op(t) BY <2>1, GotoPlace
  <2> QED BY <2>2 DEF KillShaped, At, Undoing, Entered
<1>8. CASE Shut(t)
  <2>1. At(t, "shut") /\ Killer(t) /\ Goto(t, "sweep") BY <1>8 DEF Shut, KillShaped
  <2> QED BY <2>1, GotoPlace DEF KillShaped, At, Undoing, Killer
<1>9. CASE Killer(t) /\ Goto(t, "latch")
  BY <1>9, GotoPlace DEF KillShaped, At, Undoing, Killer
<1> QED BY <1>1, <1>2, <1>3, <1>4, <1>5, <1>6, <1>7, <1>8, <1>9 DEF Leads

-----------------------------------------------------------------------------
\* What a step of t does to the flags that a kill leaves behind.
Spares(t) ==
  /\ port # "ok" => port' # "ok"
  /\ cached.latch = TRUE => cached'.latch = TRUE
  /\ ~DbFails => \/ UNCHANGED <<port, dport>>
                 \/ port' = dport' /\ (port' # "ok" \/ (UNCHANGED port /\ Op(t) # "boot"))
  /\ UNCHANGED killed \/ (Halt(t) /\ Killer(t))

\* It touches neither the portfolio nor the history.
Still == UNCHANGED <<port, dport, killed>>

LEMMA LatchWritten ==
  ASSUME Keyed, NEW k \in {"latch", "state", "halt"}, NEW v,
         k = "latch" => v = TRUE, Write(k, v)
  PROVE  /\ cached.latch = TRUE => cached'.latch = TRUE
         /\ k = "latch" /\ redis => cached'.latch = TRUE
BY DEF Keyed, Write

LEMMA LatchKept ==
  ASSUME Keyed, NEW b, SetRunning(b) \/ UNCHANGED cached
  PROVE  cached.latch = TRUE => cached'.latch = TRUE
BY DEF Keyed, SetRunning

LEMMA BrainSpares ==
  ASSUME Keyed, NEW t \in Tasks, BrainStep(t)
  PROVE  Spares(t)
<1>1. Still
  BY DEF BrainStep, Authorize, Safe, SafeStops, SetState, Recover, Heal, Activate, Still, flags
<1>2. \/ \E v : Write("state", v)
      \/ SetRunning(FALSE) \/ UNCHANGED cached
  BY DEF BrainStep, Authorize, Safe, SafeStops, SetState, Recover, Heal, Activate, EnterSafe, flags
<1>3. cached.latch = TRUE => cached'.latch = TRUE BY <1>2, LatchWritten, LatchKept
<1> QED BY <1>1, <1>3 DEF Spares, Still

LEMMA EngineSpares ==
  ASSUME Keyed, NEW t \in Tasks, EngineStep(t)
  PROVE  Spares(t)
<1>1. Still
  BY DEF EngineStep, TakeStart, TakeOrder, Pause, Unrun, Ready, Willing, Unpause, Run, Still, flags
<1>2. SetRunning(FALSE) \/ SetRunning(TRUE) \/ UNCHANGED cached
  BY DEF EngineStep, TakeStart, TakeOrder, Pause, Unrun, Ready, Willing, Unpause, Run, flags
<1>3. cached.latch = TRUE => cached'.latch = TRUE BY <1>2, LatchKept
<1> QED BY <1>1, <1>3 DEF Spares, Still

LEMMA EntrySpares ==
  ASSUME Keyed, NEW t \in Tasks, EntryStep(t)
  PROVE  Spares(t)
<1>1. Still
  BY DEF EntryStep, Cycle, Analyze, CheckPause, CheckHalt, Submit, NoTrade, Still, flags
<1>2. (\E v : Write("state", v)) \/ UNCHANGED cached
  BY DEF EntryStep, Cycle, Analyze, CheckPause, CheckHalt, Submit, NoTrade, EnterSafe, flags
<1>3. cached.latch = TRUE => cached'.latch = TRUE BY <1>2, LatchWritten
<1> QED BY <1>1, <1>3 DEF Spares, Still

\* The steps of the kill itself only ever halt and lock.
LEMMA KillSpares ==
  ASSUME Keyed, NEW t \in Tasks, KillShaped(t), KillStep(t)
  PROVE  Spares(t)
<1>1. CASE Swan(t) BY <1>1 DEF Swan, SetPort, Spares
<1>2. CASE Shut(t) BY <1>2 DEF Shut, SetPort, Spares
<1>3. CASE SquareOff(t) BY <1>3 DEF SquareOff, SetPort, Spares, KillShaped
<1>4. CASE Latch(t)
  <2>1. Still BY <1>4 DEF Latch, Still
  <2>2. Write("latch", TRUE) \/ Write("state", "EMERGENCY_LOCK") BY <1>4 DEF Latch
  <2>3. cached.latch = TRUE => cached'.latch = TRUE BY <2>2, LatchWritten
  <2> QED BY <2>1, <2>3 DEF Spares, Still
<1>5. CASE Halt(t)
  <2>1. Write("halt", TRUE) /\ UNCHANGED <<port, dport>> BY <1>5 DEF Halt
  <2>2. cached.latch = TRUE => cached'.latch = TRUE BY <2>1, LatchWritten
  <2>3. UNCHANGED killed \/ Killer(t) BY <1>5 DEF Halt, KillShaped, Killer
  <2> QED BY <1>5, <2>1, <2>2, <2>3 DEF Spares
<1>6. ~Branch(t) /\ ~IsLatched(t) /\ ~Unlatch(t) /\ ~Reopen(t) /\ ~Unhalt(t)
  BY DEF KillShaped, Undoing, Branch, IsLatched, Unlatch, Reopen, Unhalt, At
<1> QED BY <1>1, <1>2, <1>3, <1>4, <1>5, <1>6 DEF KillStep

LEMMA StepSpares ==
  ASSUME Keyed, NEW t \in Tasks, KillShaped(t), Step(t), ~BootFails(t), ~Load(t)
  PROVE  Spares(t)
<1>1. CASE ForgetRun(t) \/ Relock(t) \/ Recovered(t)
  <2>1. Still BY <1>1 DEF ForgetRun, Relock, Recovered, Still, flags
  <2>2. SetRunning(FALSE) \/ UNCHANGED cached BY <1>1 DEF ForgetRun, Relock, Recovered, flags
  <2>3. cached.latch = TRUE => cached'.latch = TRUE BY <2>2, LatchKept
  <2> QED BY <2>1, <2>3 DEF Spares, Still
<1> QED
  BY <1>1, BrainSpares, EngineSpares, KillSpares, EntrySpares DEF Step, BootStep

-----------------------------------------------------------------------------
\* A task that leads on keeps its operation, or ends it, or turns to the chaos.
LEMMA LeadsOp ==
  ASSUME Turns, NEW t \in Tasks, Leads(t)
  PROVE  UNCHANGED env /\ (Done(t) \/ (Op(t)' \in {Op(t), "chaos"} /\ UNCHANGED phase))
<1>1. CASE Done(t) BY <1>1, DonePlace
<1>2. CASE Walks(t) BY <1>2, WalksPlace
<1>3. CASE TurnsChaotic(t) BY <1>3, ChaosPlace
<1>4. CASE Stops(t) BY <1>4, ToPlace DEF Stops
<1>5. CASE Climbs(t) BY <1>5, ClimbsPlace
<1>6. CASE \E s : Goto(t, s) BY <1>6, GotoPlace
<1> QED BY <1>1, <1>2, <1>3, <1>4, <1>5, <1>6 DEF Leads, Relocks, Enters, Shut

LEMMA StepAlone ==
  ASSUME Turns, Alone, NEW t \in Tasks, Step(t), Leads(t)
  PROVE  Alone'
<1>1. task[t].at # "idle" BY IdleRests
<1>2. \A u \in Tasks \ {t} : task'[u] = task[u] BY LeadsAlone
<1>3. \A u \in Tasks \ {t} : Booting(u)' => FALSE
  <2>1. ASSUME NEW u \in Tasks \ {t}, Booting(u)' PROVE FALSE
    <3>1. Booting(u) BY <1>2, <2>1 DEF Booting, Op
    <3>2. task[t] = Idle BY <3>1 DEF Alone
    <3> QED BY <1>1, <3>2 DEF Idle
  <2> QED BY <2>1
<1>4. ASSUME Booting(t)' PROVE phase' = "boot" /\ \A u \in Tasks \ {t} : task'[u] = Idle
  <2>1. ~Done(t) BY <1>4, DonePlace DEF Booting
  <2>2. Op(t) = "boot" /\ UNCHANGED phase BY <1>4, <2>1, LeadsOp DEF Booting
  <2>3. Booting(t) BY <1>1, <2>2 DEF Booting
  <2> QED BY <1>2, <2>2, <2>3 DEF Alone
<1> QED BY <1>3, <1>4 DEF Alone

\* The startup reads the portfolio before it goes on or ends.
LEMMA LoadsFirst ==
  ASSUME Turns, NEW t \in Tasks, Booting(t), task[t].at \in {"heal", "active", "load"}, Step(t),
         ~BootFails(t)
  PROVE  Load(t) \/ Goto(t, "active") \/ Goto(t, "load")
<1>1. Heal(t) \/ Activate(t) \/ Load(t)
  <2>1. ~Authorize(t) /\ ~Safe(t) /\ ~SafeStops(t) /\ ~SetState(t) /\ ~Recover(t)
    BY DEF Authorize, Safe, SafeStops, SetState, Recover, At
  <2>2. ~EngineStep(t)
    BY DEF EngineStep, TakeStart, TakeOrder, Pause, Unrun, Ready, Willing, Unpause, Run, At
  <2>3. ~KillStep(t)
    BY DEF KillStep, Swan, Shut, SquareOff, Latch, Halt, Branch, IsLatched, Unlatch, Reopen,
      Unhalt, At
  <2>4. ~EntryStep(t)
    BY DEF EntryStep, Cycle, Analyze, CheckPause, CheckHalt, Submit, NoTrade, At
  <2>5. ~ForgetRun(t) /\ ~Relock(t) /\ ~Recovered(t) BY DEF ForgetRun, Relock, Recovered, At
  <2> QED BY <2>1, <2>2, <2>3, <2>4, <2>5 DEF Step, BrainStep, BootStep
<1> QED BY <1>1 DEF Heal, Activate, Healed, Booting

LEMMA LoadedBefore ==
  ASSUME Turns, Alone, NEW t \in Tasks, Step(t), Leads(t), ~BootFails(t), ~Load(t), Loaded'
  PROVE  Loaded
<1>1. task[t].at # "idle" BY IdleRests
<1>2. \A u \in Tasks \ {t} : task'[u] = task[u] BY LeadsAlone
<1>3. ASSUME Booting(t), task[t].at \in {"heal", "active", "load"}
      PROVE  FALSE
  <2>1. task'[t].at \in {"active", "load"} /\ UNCHANGED phase BY <1>3, LoadsFirst, GotoPlace
  <2>2. phase = "boot" /\ \A u \in Tasks \ {t} : task[u] = Idle BY <1>3 DEF Alone
  <2>3. \A u \in Tasks \ {t} : task'[u].at = "idle" BY <1>2, <2>2 DEF Idle
  <2> QED BY <2>1, <2>2, <2>3 DEF Loaded, Booting
<1>4. CASE Booting(t) BY <1>3, <1>4 DEF Loaded
<1>5. CASE ~Booting(t)
  <2>1. Op(t) # "boot" BY <1>1, <1>5 DEF Booting
  <2>2. UNCHANGED phase /\ ~Booting(t)'
    BY <2>1, LeadsOp, DonePlace DEF Booting
  <2> QED BY <1>2, <2>2 DEF Loaded, Booting, Op
<1> QED BY <1>4, <1>5

-----------------------------------------------------------------------------
\* Who steps and is not the startup steps in a process that is up.
LEMMA UpThen ==
  ASSUME Turns, Owned, NEW t \in Tasks, task[t].at # "idle", Op(t) # "boot"
  PROVE  phase = "up"
BY DEF Turns, Quiet, Owned, BootShaped, Idle

\* While the portfolio is halted, or after a kill, nobody gets to an order.
LEMMA StaysOut ==
  ASSUME Turns, Owned, Seal, NEW t \in Tasks, Step(t), Leads(t),
         Unentered, port # "ok" \/ Sealed
  PROVE  Unentered'
<1>1. ~Enters(t)
  <2>1. SUFFICES ASSUME At(t, "analyze"), Allowed("analyze") PROVE FALSE
    BY DEF Enters, Unentered
  <2>2. port = "ok" /\ ~Latched BY <2>1, SaysNo
  <2>3. Op(t) # "boot" /\ task[t].at # "idle"
    BY <2>1 DEF Turns, Turn, Shaped, At, Buyers
  <2>4. phase = "up" BY <2>3, UpThen
  <2>5. ~DbFails => port = dport BY <2>4 DEF Seal, Loaded
  <2>6. MaxOutages = 0 /\ cached.latch = TRUE => Latched
    BY NoneAssumption DEF Seal, Latched, Read
  <2> QED BY <2>2, <2>5, <2>6 DEF Sealed
<1>2. task'[t].at \notin Entered
  <2>1. CASE Done(t) BY <2>1, DonePlace DEF Entered
  <2>2. CASE Walks(t) BY <2>2, WalksPlace
  <2>3. CASE TurnsChaotic(t) BY <2>3, ChaosPlace DEF Entered
  <2>4. CASE Stops(t) BY <2>4, ToPlace DEF Stops, Entered
  <2>5. CASE Climbs(t) BY <2>5, ClimbsPlace DEF Entered
  <2>6. CASE \E s \in {"halt", "latch", "sweep"} : Goto(t, s) BY <2>6, GotoPlace DEF Entered
  <2> QED BY <1>1, <2>1, <2>2, <2>3, <2>4, <2>5, <2>6 DEF Leads, Relocks, Shut
<1> QED BY <1>2, LeadsAlone DEF Unentered

\* What a kill has done stays done.
LEMMA HoldsOn ==
  ASSUME Turns, Owned, Seal, NEW t \in Tasks, Step(t), Leads(t), Spares(t), NEW u \in Tasks
  PROVE  KillHolds(u)'
<1>1. ASSUME Unentered, port # "ok" PROVE Unentered' BY <1>1, StaysOut
<1>2. CASE u # t
  <2>1. task'[u] = task[u] BY <1>2, LeadsAlone
  <2>2. KillHolds(u) BY DEF Seal
  <2> QED BY <1>1, <2>1, <2>2 DEF KillHolds, Killer, Op, Spares, After
<1>3. CASE u = t
  <2>1. SUFFICES ASSUME Killer(t)', task'[t].at \in {"sweep"} \cup After
        PROVE  /\ port' # "ok"
               /\ task'[t].at \in After => Unentered'
               /\ task'[t].at \in {"locked", "locked2", "halt"} /\ MaxOutages = 0 =>
                    cached'.latch = TRUE
    BY <1>3 DEF KillHolds, After
  <2>2. KillHolds(t) BY DEF Seal
  <2>3. ~Done(t) /\ ~Walks(t) /\ ~TurnsChaotic(t)
    BY <2>1, DonePlace, WalksPlace, ChaosPlace DEF After
  <2>4. ~Enters(t)
    BY <2>1, GotoPlace DEF Enters, After, Entered
  <2>5. ~Stops(t)
    BY <2>1, ToPlace DEF Stops, After, Killer
  <2>6. ~Relocks(t)
    BY <2>1, GotoPlace DEF Relocks, Killer
  <2>7. CASE Shut(t)
    <3>1. task'[t].at = "sweep" /\ port' # "ok" BY <2>7, GotoPlace DEF Shut, SetPort
    <3> QED BY <3>1 DEF After
  <2>8. CASE SquareOff(t) /\ Killer(t) /\ Goto(t, "latch")
    <3>1. port # "ok" /\ orderLock = None BY <2>2, <2>8 DEF SquareOff, KillHolds, At
    <3>2. Unentered' BY <1>1, <3>1, LockFree
    <3>3. task'[t].at = "latch" BY <2>8, GotoPlace
    <3> QED BY <3>1, <3>2, <3>3 DEF Spares
  <2>9. CASE Climbs(t)
    <3>1. /\ task[t].at \in {"latch", "locked", "locked2"} /\ Killer(t)
          /\ task[t].at = "latch" => Write("latch", TRUE)
      BY <2>1, <2>9, ClimbsPlace DEF Killer
    <3>2. port # "ok" /\ Unentered BY <2>2, <3>1 DEF KillHolds, After
    <3>3. ASSUME MaxOutages = 0 PROVE cached'.latch = TRUE
      <4>1. CASE task[t].at = "latch" BY <3>1, <3>3, <4>1, LatchWritten DEF Seal, Owned
      <4>2. CASE task[t].at # "latch"
        BY <2>2, <3>1, <3>3, <4>2 DEF KillHolds, Spares
      <4> QED BY <4>1, <4>2
    <3> QED BY <1>1, <3>2, <3>3 DEF Spares
  <2> QED BY <2>3, <2>4, <2>5, <2>6, <2>7, <2>8, <2>9 DEF Leads
<1> QED BY <1>2, <1>3

\* ... and the order of a kill is sealed when it returns.
LEMMA KilledOn ==
  ASSUME Turns, Owned, Seal, Unlifted, NEW t \in Tasks, Step(t), Leads(t), Spares(t), killed'
  PROVE  Sealed' /\ Unentered'
<1>1. Sealed /\ Unentered
  <2>1. CASE killed BY <2>1 DEF Seal
  <2>2. CASE Halt(t) /\ Killer(t)
    <3>1. At(t, "halt") /\ KillHolds(t) BY <2>2 DEF Halt, Seal
    <3>2. /\ port # "ok" /\ Unentered
          /\ MaxOutages = 0 => cached.latch = TRUE
      BY <2>2, <3>1 DEF KillHolds, At, After
    <3>3. phase = "up" BY <2>2, <3>1, UpThen DEF At, Killer
    <3>4. ~DbFails => port = dport BY <3>3 DEF Seal, Loaded
    <3> QED BY <3>2, <3>4 DEF Sealed, Unlifted
  <2> QED BY <2>1, <2>2 DEF Spares
<1>2. Unentered' BY <1>1, StaysOut
<1>3. Sealed'
  <2>1. CASE MaxOutages = 0 /\ cached.latch = TRUE BY <2>1 DEF Sealed, Spares
  <2>2. CASE ~DbFails /\ dport # "ok"
    <3>1. CASE UNCHANGED dport BY <2>2, <3>1 DEF Sealed
    <3>2. CASE port' = dport' /\ port' # "ok" BY <2>2, <3>2 DEF Sealed
    <3>3. CASE port' = dport' /\ UNCHANGED port /\ Op(t) # "boot"
      <4>1. phase = "up" BY <3>3, IdleRests, UpThen
      <4>2. port = dport BY <2>2, <4>1 DEF Seal, Loaded
      <4> QED BY <2>2, <3>3, <4>2 DEF Sealed
    <3> QED BY <2>2, <3>1, <3>2, <3>3 DEF Spares
  <2> QED BY <1>1, <2>1, <2>2 DEF Sealed
<1> QED BY <1>2, <1>3

LEMMA StepSeal ==
  ASSUME Turns, Owned, Seal, Unlifted, NEW t \in Tasks, Step(t), ~BootFails(t), ~Load(t)
  PROVE  Seal'
<1>1. KillShaped(t) /\ Alone BY DEF Seal
<1>2. Leads(t) BY <1>1, StepLeads
<1>3. Spares(t) BY <1>1, StepSpares DEF Owned
<1>4. outages' \in Nat /\ (MaxOutages = 0 => redis') BY <1>2, LeadsOp DEF Seal, env
<1>5. Alone' BY <1>1, <1>2, StepAlone
<1>6. ASSUME NEW u \in Tasks PROVE KillShaped(u)'
  <2>1. CASE u = t BY <1>1, <1>2, <2>1, IdleRests, ShapedOn
  <2>2. CASE u # t
    <3>1. task'[u] = task[u] /\ KillShaped(u) BY <1>2, <2>2, LeadsAlone DEF Seal
    <3> QED BY <3>1 DEF KillShaped, At, Op, Killer
  <2> QED BY <2>1, <2>2
<1>7. \A u \in Tasks : KillHolds(u)' BY <1>2, <1>3, HoldsOn
<1>8. ASSUME ~DbFails, Loaded' PROVE port' = dport'
  <2>1. Loaded BY <1>1, <1>2, <1>8, LoadedBefore
  <2> QED BY <1>3, <1>8, <2>1 DEF Seal, Spares
<1>9. killed' => Sealed' /\ Unentered' BY <1>2, <1>3, KilledOn
<1> QED BY <1>4, <1>5, <1>6, <1>7, <1>8, <1>9 DEF Seal

\* The startup reads the halt from the database, with nobody else about.
LEMMA LoadSeal ==
  ASSUME Turns, Owned, Seal, NEW t \in Tasks, Load(t)
  PROVE  Seal'
<1>1. /\ Goto(t, "fresh") /\ port' = dport' /\ UNCHANGED <<cached, dport, killed>>
      /\ task[t].at = "load" /\ Op(t) = "boot"
  BY DEF Load, At, Turns, Turn, Shaped
<1>2. /\ task'[t].at = "fresh" /\ Op(t)' = "boot" /\ UNCHANGED <<phase, env>>
      /\ \A u \in Tasks \ {t} : task'[u] = task[u]
  BY <1>1, GotoPlace DEF Goto, To, Turns
<1>3. phase = "boot" /\ \A u \in Tasks \ {t} : task[u] = Idle
  BY <1>1 DEF Seal, Alone, Booting
<1>4. \A u \in Tasks : u = t \/ (task'[u] = Idle /\ task'[u].at = "idle")
  BY <1>2, <1>3 DEF Idle
<1>5. Alone' BY <1>2, <1>3, <1>4 DEF Alone, Booting
<1>6. ASSUME NEW u \in Tasks PROVE KillShaped(u)' /\ KillHolds(u)'
  BY <1>2, <1>4 DEF KillShaped, KillHolds, Killer, At, Undoing, After
<1>7. Unentered' BY <1>2, <1>4 DEF Unentered, Entered
<1> QED BY <1>1, <1>2, <1>5, <1>6, <1>7 DEF Seal, Sealed, env

LEMMA EndSeal ==
  ASSUME Seal, Die, UNCHANGED <<redis, outages>>
  PROVE  Seal'
<1>1. /\ \A u \in Tasks : task'[u].at = "idle"
      /\ phase' = "down" /\ UNCHANGED <<cached, dport, killed>>
  BY DEF Die, Idle
<1>2. Alone' /\ ~Loaded' /\ Unentered' BY <1>1 DEF Alone, Booting, Loaded, Unentered, Entered
<1>3. ASSUME NEW u \in Tasks PROVE KillShaped(u)' /\ KillHolds(u)'
  BY <1>1 DEF KillShaped, KillHolds, At, Undoing, After
<1> QED BY <1>1, <1>2, <1>3 DEF Seal, Sealed

\* A request or a turn of a loop begins, with none of the steps of a kill done.
LEMMA BeginSeal ==
  ASSUME Turns, Seal, Unlifted, NEW t \in Tasks, Begin(t)
  PROVE  Seal'
<1>1. PICK op \in Ops : /\ phase = "up" /\ task' = [task EXCEPT ![t] = [op |-> op, at |-> First(op)]]
                        /\ UNCHANGED <<flags, phase, env, killed>>
  BY DEF Begin, Serving
<1>2. /\ op \in AllOps \ {"resume", "reset", "clear"} /\ op # "boot"
      /\ UNCHANGED <<cached, port, dport, redis, outages>>
  BY <1>1, OpsAssumption DEF Unlifted, AllOps, flags, env
<1>3. /\ task'[t].at = First(op) /\ Op(t)' = op
      /\ \A u \in Tasks \ {t} : task'[u] = task[u]
  BY <1>1 DEF Turns, Op
<1>4. /\ First(op) \in {"authorize", "safe", "swan", "lock", "ready", "running", "order", "latch",
                        "paused", "activate", "recover"}
      /\ First(op) = "latch" => op = "lock"
  BY <1>2 DEF First, AllOps
<1>5. Alone' BY <1>1, <1>2, <1>3 DEF Seal, Alone, Booting, Op
<1>6. ASSUME NEW u \in Tasks PROVE KillShaped(u)'
  <2>1. CASE u = t BY <1>2, <1>3, <1>4, <2>1 DEF KillShaped, At, Undoing
  <2>2. CASE u # t BY <1>3, <2>2 DEF Seal, KillShaped, At, Op, Killer
  <2> QED BY <2>1, <2>2
<1>7. Unentered => Unentered' BY <1>3, <1>4 DEF Unentered, Entered
<1>8. ASSUME NEW u \in Tasks PROVE KillHolds(u)'
  <2>1. CASE u = t BY <1>3, <1>4, <2>1 DEF KillHolds, Killer, After
  <2>2. CASE u # t
    <3>1. KillHolds(u) /\ task'[u] = task[u] BY <1>3, <2>2 DEF Seal
    <3> QED BY <1>2, <1>7, <3>1 DEF KillHolds, Killer, Op
  <2> QED BY <2>1, <2>2
<1> QED BY <1>1, <1>2, <1>5, <1>6, <1>7, <1>8 DEF Seal, Loaded, Sealed

LEMMA BootSeal ==
  ASSUME Turns, Seal, NEW t \in Tasks, Boot(t)
  PROVE  Seal'
<1>0. PICK s \in {"heal", "load"} : task' = [task EXCEPT ![t] = [op |-> "boot", at |-> s]]
  BY DEF Boot
<1>1. /\ \A u \in Tasks : task[u] = Idle
      /\ task' = [task EXCEPT ![t] = [op |-> "boot", at |-> s]]
      /\ phase' = "boot" /\ UNCHANGED <<cached, port, dport, redis, outages, killed>>
  BY <1>0 DEF Boot, Turns, Quiet, flags, env
<1>2. /\ task'[t].at \in {"heal", "load"} /\ Op(t)' = "boot"
      /\ \A u \in Tasks \ {t} : task'[u] = Idle /\ task'[u].at = "idle"
  BY <1>1 DEF Turns, Op, Idle
<1>3. Alone' /\ ~Loaded' /\ Unentered'
  BY <1>1, <1>2 DEF Alone, Booting, Loaded, Unentered, Entered
<1>4. ASSUME NEW u \in Tasks PROVE KillShaped(u)' /\ KillHolds(u)'
  BY <1>2 DEF KillShaped, KillHolds, Killer, At, Undoing, After
<1> QED BY <1>1, <1>3, <1>4 DEF Seal, Sealed

\* What leaves the tasks, the latch and the history alone, and halts or stays.
LEMMA StillSeal ==
  ASSUME Seal, UNCHANGED <<task, phase, killed, redis, outages>>,
         cached.latch = TRUE => cached'.latch = TRUE,
         UNCHANGED <<port, dport>> \/ (port' # "ok" /\ (~DbFails => port' = dport'))
  PROVE  Seal'
<1>1. Alone' /\ (Unentered => Unentered') /\ (Loaded' => Loaded)
  BY DEF Seal, Alone, Booting, Op, Unentered, Loaded
<1>2. ASSUME NEW u \in Tasks PROVE KillShaped(u)' /\ KillHolds(u)'
  BY <1>1 DEF Seal, KillShaped, KillHolds, Killer, At, Op
<1> QED BY <1>1, <1>2 DEF Seal, Sealed

\* Redis comes and goes only where a kill does not rest on its latch.
LEMMA RedisSeal ==
  ASSUME Seal, Redis
  PROVE  Seal'
<1>1. /\ UNCHANGED <<task, phase, killed, port, dport>>
      /\ outages' \in Nat /\ MaxOutages # 0
  BY DEF Redis, Seal
<1>2. Alone' /\ (Unentered => Unentered') /\ (Loaded' => Loaded)
  BY <1>1 DEF Seal, Alone, Booting, Op, Unentered, Loaded
<1>3. ASSUME NEW u \in Tasks PROVE KillShaped(u)' /\ KillHolds(u)'
  BY <1>1, <1>2 DEF Seal, KillShaped, KillHolds, Killer, At, Op
<1> QED BY <1>1, <1>2, <1>3 DEF Seal, Sealed

LEMMA InitSeal == Init => Seal
<1> SUFFICES ASSUME Init PROVE Seal OBVIOUS
<1>1. /\ \A u \in Tasks : task[u].at = "idle"
      /\ phase = "down" /\ killed = FALSE /\ outages = 0 /\ redis = TRUE
  BY DEF Init, Idle
<1>2. Alone /\ ~Loaded BY <1>1 DEF Alone, Booting, Loaded
<1>3. ASSUME NEW u \in Tasks PROVE KillShaped(u) /\ KillHolds(u)
  BY <1>1 DEF KillShaped, KillHolds, At, Undoing, After
<1> QED BY <1>1, <1>2, <1>3 DEF Seal

LEMMA NextSeal == Unlifted /\ Turns /\ Owned /\ Seal /\ [Next]_vars => Seal'
<1> SUFFICES ASSUME Unlifted, Turns, Owned, Seal, [Next]_vars PROVE Seal' OBVIOUS
<1>1. ASSUME NEW t \in Tasks, Begin(t) PROVE Seal' BY <1>1, BeginSeal
<1>2. ASSUME NEW t \in Tasks, Step(t) PROVE Seal'
  <2>1. CASE BootFails(t) BY <2>1, EndSeal DEF BootFails, env
  <2>2. CASE Load(t) BY <2>2, LoadSeal
  <2> QED BY <1>2, <2>1, <2>2, StepSeal
<1>3. ASSUME NEW t \in Tasks, Boot(t) PROVE Seal' BY <1>3, BootSeal
<1>4. CASE Crash BY <1>4, EndSeal DEF Crash
<1>5. CASE Shutdown BY <1>5, StillSeal DEF Shutdown, SetPort, env
<1>6. CASE Redis BY <1>6, RedisSeal
<1>7. CASE UNCHANGED vars BY <1>7, StillSeal DEF vars, flags, env
<1> QED BY <1>1, <1>2, <1>3, <1>4, <1>5, <1>6, <1>7 DEF Next

\* "Full kill switch - irreversible until admin reset": once a kill has returned, no
\* order goes out, for any number of tasks and crashes, whatever else is asked for,
\* as long as nothing that lifts a kill is (the runs kill_undone and reset_refused
\* show why) and not both Redis and the database fail: the halt of the portfolio
\* survives in the one, the latch in the other.
THEOREM NoEntryAfterKillHolds ==
  ASSUME Ops \cap {"resume", "reset", "clear"} = {},
         DbFails = FALSE \/ MaxOutages = 0
  PROVE  Spec => []NoEntryAfterKill
<1>1. Unlifted BY DEF Unlifted
<1>2. Seal => NoEntryAfterKill
  BY DEF Seal, Unentered, Entered, NoEntryAfterKill, At
<1>3. Owned /\ Seal /\ Turns /\ [Next]_vars => Seal' BY <1>1, NextSeal
<1>4. Spec => []Owned BY InitOwned, NextOwned, TurnsHold, PTL DEF Spec
<1>5. Spec => []Seal BY <1>3, <1>4, InitSeal, TurnsHold, PTL DEF Spec
<1> QED BY <1>2, <1>5, PTL

-----------------------------------------------------------------------------
(***************************************************************************)
(* One operation after another: what a reset may leave is what it accepts. *)
(***************************************************************************)

Graved == Read("state") = "EMERGENCY_LOCK"

\* Who will set the latch of a black swan, or take the swan away.
Locking(t) ==
  \/ Op(t) = "flatten" /\ task[t].at \in {"lock", "order", "pause", "unrun", "shut", "sweep", "latch"}
  \/ Op(t) = "boot" /\ task[t].at \in {"fresh", "relock", "halt", "latch"}
  \/ Op(t) = "reset" /\ task[t].at \in {"heal", "active", "reopen"}

\* Who will write a state other than the lock, unless the latch is set.
Healing(t) == task[t].at \in {"heal", "active"}

\* Where an operation is sure of the latch; only a reset or a clear takes it away.
Sure(t) ==
  /\ task[t].at \in {"locked", "locked2"} => Latched
  /\ At(t, "halt") /\ Op(t) # "boot" => Latched
  /\ task[t].at \in {"latched", "latched2", "unlatch"} => Op(t) \in {"reset", "clear"}

Stored ==
  /\ cached \in [{"latch", "state", "halt", "running"} -> BOOLEAN \cup SystemState \cup {None}]
  /\ mem \in [{"latch", "state", "halt"} -> BOOLEAN \cup SystemState]

\* The inductive invariant, with Turns.
Resets ==
  /\ redis = TRUE /\ Stored
  /\ \A t \in Tasks : Sure(t)
  /\ port = "swan" /\ ~Latched => \E t \in Tasks : Locking(t)
  /\ Graved /\ ~Latched => phase = "down" \/ skipped \/ \E t \in Tasks : Healing(t)

Only(t) == \A u \in Tasks \ {t} : task[u] = Idle

-----------------------------------------------------------------------------
\* What is written is read; the other flags are as they were.
LEMMA WriteReads ==
  ASSUME redis = TRUE, UNCHANGED redis, Stored,
         NEW k \in {"latch", "state", "halt"}, NEW v \in BOOLEAN \cup SystemState, Write(k, v)
  PROVE  Stored' /\ Read(k)' = v /\ \A j \in {"latch", "state", "halt"} \ {k} : Read(j)' = Read(j)
BY DEF Stored, Write, Read

LEMMA RunReads ==
  ASSUME Stored, UNCHANGED <<redis, mem>>, (\E b \in BOOLEAN : SetRunning(b)) \/ UNCHANGED cached
  PROVE  Stored' /\ Latched' = Latched /\ Graved' = Graved
BY DEF Stored, SetRunning, Latched, Graved, Read

LEMMA IdleCalm ==
  ASSUME NEW t \in Tasks, task[t].at = "idle"
  PROVE  ~Locking(t) /\ ~Healing(t) /\ Sure(t)
BY DEF Locking, Healing, Sure, At

\* A step of the only operation under way keeps Resets if it does so for itself.
LEMMA OneStep ==
  ASSUME Turns, Resets, NEW t \in Tasks, Only(t), \A u \in Tasks \ {t} : task'[u] = task[u],
         UNCHANGED skipped, redis' = TRUE, Stored', Sure(t)', phase # "down",
         port' = "swan" /\ ~Latched' =>
           Locking(t)' \/ (port = "swan" /\ ~Latched /\ ~Locking(t)),
         Graved' /\ ~Latched' =>
           Healing(t)' \/ (Graved /\ ~Latched /\ ~Healing(t))
  PROVE  Resets'
<1>1. \A u \in Tasks \ {t} : task[u].at = "idle" /\ task'[u].at = "idle"
  BY DEF Only, Idle
<1>2. \A u \in Tasks \ {t} : ~Locking(u) /\ ~Healing(u)
  BY <1>1, IdleCalm
<1>3. \A u \in Tasks \ {t} : Sure(u)'
  BY <1>1 DEF Sure, At
<1>4. port = "swan" /\ ~Latched => Locking(t)
  BY <1>2 DEF Resets
<1>5. Graved /\ ~Latched => skipped \/ Healing(t)
  BY <1>2 DEF Resets
<1>6. \A u \in Tasks : Sure(u)' BY <1>3
<1>7. port' = "swan" /\ ~Latched' => Locking(t)' BY <1>4
<1>8. Graved' /\ ~Latched' => skipped' \/ Healing(t)' BY <1>5
<1>9. (port = "swan" /\ ~Latched => \E u \in Tasks : Locking(u))' BY <1>7
<1>10. (Graved /\ ~Latched => phase = "down" \/ skipped \/ \E u \in Tasks : Healing(u))' BY <1>8
<1> QED BY <1>6, <1>9, <1>10 DEF Resets

\* What a step to s, or the end, does beside the flags.
Moves(t) == /\ \A u \in Tasks \ {t} : task'[u] = task[u]
            /\ UNCHANGED redis

LEMMA ToMoves ==
  ASSUME Turns, NEW t \in Tasks, NEW s, To(t, s)
  PROVE  Moves(t) /\ task'[t].at = s /\ Op(t)' = Op(t)
<1>1. \A u \in Tasks \ {t} : task'[u] = task[u] BY DEF To, Turns
<1> QED BY <1>1, ToPlace DEF Moves, env

LEMMA GotoMoves ==
  ASSUME Turns, NEW t \in Tasks, NEW s, Goto(t, s)
  PROVE  Moves(t) /\ task'[t].at = s /\ Op(t)' = Op(t)
BY ToMoves DEF Goto

LEMMA DoneMoves ==
  ASSUME Turns, NEW t \in Tasks, Done(t)
  PROVE  Moves(t) /\ task'[t].at = "idle"
<1>1. \A u \in Tasks \ {t} : task'[u] = task[u] BY DEF Done, Turns
<1> QED BY <1>1, DonePlace DEF Moves, env

LEMMA AnalysisMoves ==
  ASSUME Turns, NEW t \in Tasks, EndAnalysis(t)
  PROVE  Moves(t) /\ task'[t].at \in {"idle", "symbol"}
BY ToMoves, DoneMoves DEF EndAnalysis

LEMMA NotDown == ASSUME Turns, NEW t \in Tasks, task[t].at # "idle" PROVE phase # "down"
BY DEF Turns, Quiet, Idle

\* The hypotheses under which the steps below are looked at.
Working(t) ==
  /\ Turns /\ Resets /\ Only(t) /\ task[t].at # "idle" /\ UNCHANGED skipped
  /\ Op(t) \in AdminOps \cup {"boot"}

\* A step that is about neither swan nor lock.
LEMMA Aside ==
  ASSUME NEW t \in Tasks, Working(t), Moves(t), ~Locking(t), ~Healing(t),
         port' = "swan" => port = "swan", Stored', Latched' = Latched, Graved' => Graved,
         task'[t].at \notin {"locked", "locked2", "halt", "latched", "latched2", "unlatch"}
  PROVE  Resets'
<1>1. Sure(t)' BY DEF Sure, At
<1> QED BY <1>1, OneStep, NotDown DEF Working, Moves, Resets

\* A step towards the latch, or with it.
LEMMA Onwards ==
  ASSUME NEW t \in Tasks, Working(t), Moves(t), Stored', Sure(t)',
         port' = "swan" /\ ~Latched' => Locking(t)',
         Graved' => Graved, Latched => Latched', ~Healing(t)
  PROVE  Resets'
BY OneStep, NotDown DEF Working, Moves, Resets

LEMMA StateWritten ==
  ASSUME NEW t \in Tasks, Working(t), UNCHANGED redis,
         NEW v \in SystemState, Write("state", v)
  PROVE  Stored' /\ Latched' = Latched /\ (v # "EMERGENCY_LOCK" => ~Graved')
BY WriteReads DEF Working, Resets, Latched, Graved

LEMMA FlagsKept ==
  ASSUME NEW t \in Tasks, Working(t), UNCHANGED <<redis, mem>>,
         SetRunning(FALSE) \/ SetRunning(TRUE) \/ UNCHANGED cached
  PROVE  Stored' /\ Latched' = Latched /\ Graved' = Graved
BY RunReads DEF Working, Resets

\* EnterSafe leaves a state that is no lock.
LEMMA SafeMoves ==
  ASSUME NEW t \in Tasks, Working(t), EnterSafe(t)
  PROVE  Moves(t) /\ task'[t].at = "unrun2" /\ Stored' /\ Latched' = Latched /\ ~Graved'
<1>1. Moves(t) /\ task'[t].at = "unrun2" BY GotoMoves DEF EnterSafe, Working
<1> QED BY <1>1, StateWritten DEF EnterSafe, Moves, SystemState

\* Where Healed leads.
LEMMA HealedMoves ==
  ASSUME NEW t \in Tasks, Working(t), Healed(t)
  PROVE  /\ Moves(t) /\ task'[t].at \in {"reopen", "load", "idle"}
         /\ Op(t) = "reset" => task'[t].at = "reopen" /\ Op(t)' = "reset"
<1>1. CASE Op(t) = "reset" BY <1>1, GotoMoves DEF Healed, Working
<1>2. CASE Op(t) = "boot" BY <1>2, GotoMoves DEF Healed, Working
<1>3. CASE Op(t) \notin {"reset", "boot"} BY <1>3, DoneMoves DEF Healed, Working
<1> QED BY <1>1, <1>2, <1>3

LEMMA BrainResets ==
  ASSUME NEW t \in Tasks, Working(t), BrainStep(t)
  PROVE  Resets'
<1>0. Turns /\ Resets BY DEF Working
<1>1. CASE Authorize(t)
  <2>1. ~Locking(t) /\ ~Healing(t) BY <1>1 DEF Authorize, Locking, Healing, At
  <2>2. CASE EnterSafe(t) BY <1>1, <2>1, <2>2, SafeMoves, Aside DEF Authorize
  <2>3. CASE UNCHANGED <<cached, mem>> /\ Done(t)
    BY <1>0, <1>1, <2>1, <2>3, DoneMoves, FlagsKept, Aside DEF Authorize, Moves
  <2>4. CASE UNCHANGED <<cached, mem>> /\ \E s \in {"lock", "reopen", "unpause", "gate", "run"} : Goto(t, s)
    <3>1. PICK s \in {"lock", "reopen", "unpause", "gate", "run"} : Goto(t, s) BY <2>4
    <3> QED BY <1>0, <1>1, <2>1, <2>4, <3>1, GotoMoves, FlagsKept, Aside DEF Authorize, Moves
  <2> QED BY <1>1, <2>2, <2>3, <2>4 DEF Authorize
<1>2. CASE Safe(t)
  BY <1>2, SafeMoves, Aside DEF Safe, Locking, Healing, At
<1>3. CASE SafeStops(t)
  <2>1. ~Locking(t) /\ ~Healing(t) BY <1>3 DEF SafeStops, Locking, Healing, At
  <2>2. Moves(t) /\ task'[t].at \in {"lock", "idle", "symbol"}
    BY <1>0, <1>3, GotoMoves, DoneMoves, AnalysisMoves DEF SafeStops
  <2>3. (SetRunning(FALSE) \/ UNCHANGED cached) /\ UNCHANGED <<mem, port>>
    BY <1>3 DEF SafeStops
  <2>4. Stored' /\ Latched' = Latched /\ Graved' = Graved
    BY <2>2, <2>3, FlagsKept DEF Moves
  <2> QED BY <2>1, <2>2, <2>3, <2>4, Aside
<1>4. CASE SetState(t)
  <2>1. ~Locking(t) /\ ~Healing(t) BY <1>4 DEF SetState, Locking, Healing, At
  <2>2. Moves(t) /\ task'[t].at \in {"idle", "heal"}
    BY <1>0, <1>4, GotoMoves, DoneMoves DEF SetState
  <2>3. Stored' /\ Latched' = Latched /\ ~Graved'
    BY <1>4, <2>2, StateWritten DEF SetState, Moves, SystemState
  <2> QED BY <1>4, <2>1, <2>2, <2>3, Aside DEF SetState
<1>5. CASE Recover(t)
  <2>1. ~Locking(t) /\ ~Healing(t) BY <1>5 DEF Recover, Locking, Healing, At
  <2>2. Moves(t) /\ task'[t].at \in {"idle", "heal"}
    BY <1>0, <1>5, GotoMoves, DoneMoves DEF Recover
  <2> QED BY <1>5, <2>1, <2>2, FlagsKept, Aside DEF Recover, Moves, flags
<1>6. CASE Heal(t)
  <2>1. UNCHANGED <<cached, mem, port>> /\ At(t, "heal") BY <1>6 DEF Heal
  <2>2. CASE Latched
    <3>1. Healed(t) BY <1>6, <2>2 DEF Heal
    <3>2. Moves(t) /\ task'[t].at \in {"reopen", "load", "idle"} BY <3>1, HealedMoves
    <3>3. Stored' /\ Latched' BY <2>1, <2>2, <3>2, FlagsKept DEF Moves
    <3>4. Sure(t)' BY <3>2 DEF Sure, At
    <3> QED BY <1>0, <3>2, <3>3, <3>4, OneStep, NotDown DEF Working, Moves, Resets
  <2>3. CASE ~Latched
    <3>1. Goto(t, "active") BY <1>6, <2>3 DEF Heal
    <3>2. Moves(t) /\ task'[t].at = "active" /\ Op(t)' = Op(t) BY <1>0, <3>1, GotoMoves
    <3>3. Stored' /\ Latched' = Latched BY <2>1, <3>2, FlagsKept DEF Moves
    <3>4. Sure(t)' /\ Healing(t)' BY <3>2 DEF Sure, Healing, At
    <3>5. Locking(t) => Locking(t)' BY <2>1, <3>2 DEF Locking, At
    <3> QED BY <1>0, <2>1, <3>2, <3>3, <3>4, <3>5, OneStep, NotDown DEF Working, Moves, Resets
  <2> QED BY <2>2, <2>3
<1>7. CASE Activate(t)
  <2>1. Write("state", "ACTIVE") /\ UNCHANGED port /\ At(t, "active") /\ Healed(t) BY <1>7 DEF Activate
  <2>2. /\ Moves(t) /\ task'[t].at \in {"reopen", "load", "idle"}
        /\ Op(t) = "reset" => task'[t].at = "reopen" /\ Op(t)' = "reset"
    BY <2>1, HealedMoves
  <2>3. Stored' /\ Latched' = Latched /\ ~Graved' BY <2>1, <2>2, StateWritten DEF Moves, SystemState
  <2>4. Sure(t)' BY <2>2 DEF Sure, At
  <2>5. Locking(t) => Locking(t)' BY <2>1, <2>2 DEF Locking, At
  <2> QED BY <1>0, <2>1, <2>2, <2>3, <2>4, <2>5, OneStep, NotDown DEF Working, Moves, Resets
<1> QED BY <1>1, <1>2, <1>3, <1>4, <1>5, <1>6, <1>7 DEF BrainStep

\* Steps that write at most the run flag, and leave the portfolio alone.
LEMMA QuietAside ==
  ASSUME NEW t \in Tasks, Working(t), Moves(t), ~Locking(t), ~Healing(t), UNCHANGED <<mem, port>>,
         SetRunning(FALSE) \/ SetRunning(TRUE) \/ UNCHANGED cached,
         task'[t].at \notin {"locked", "locked2", "halt", "latched", "latched2", "unlatch"}
  PROVE  Resets'
<1>1. Stored' /\ Latched' = Latched /\ Graved' = Graved BY FlagsKept DEF Moves
<1> QED BY <1>1, Aside

LEMMA QuietOnwards ==
  ASSUME NEW t \in Tasks, Working(t), Moves(t), ~Healing(t), UNCHANGED mem,
         SetRunning(FALSE) \/ SetRunning(TRUE) \/ UNCHANGED cached,
         Locking(t)', Sure(t)'
  PROVE  Resets'
<1>1. Stored' /\ Latched' = Latched /\ Graved' = Graved BY FlagsKept DEF Moves
<1> QED BY <1>1, Onwards

LEMMA EngineResets ==
  ASSUME NEW t \in Tasks, Working(t), EngineStep(t), DbFails = FALSE
  PROVE  Resets'
<1>0. Turns /\ Resets /\ redis = TRUE BY DEF Working, Resets
<1>1. CASE TakeStart(t)
  <2>1. At(t, "lock") /\ UNCHANGED <<cached, mem, port>> BY <1>1 DEF TakeStart, flags
  <2>2. PICK s \in {"authorize", "willing", "order"} : To(t, s) /\ (Op(t) = "flatten" => s = "order")
    BY <1>1 DEF TakeStart
  <2>3. Moves(t) /\ task'[t].at = s /\ Op(t)' = Op(t) BY <1>0, <2>2, ToMoves
  <2>4. CASE Op(t) = "flatten"
    <3>1. Locking(t)' /\ Sure(t)' /\ ~Healing(t) BY <2>1, <2>2, <2>3, <2>4 DEF Locking, Healing, Sure, At
    <3> QED BY <2>1, <2>3, <3>1, QuietOnwards
  <2>5. CASE Op(t) # "flatten"
    <3>1. ~Locking(t) /\ ~Healing(t) BY <2>1, <2>5 DEF Locking, Healing, At
    <3> QED BY <2>1, <2>3, <3>1, QuietAside
  <2> QED BY <2>4, <2>5
<1>2. CASE TakeOrder(t)
  <2>1. At(t, "order") /\ UNCHANGED <<cached, mem, port>> BY <1>2 DEF TakeOrder, flags
  <2>2. PICK s \in {"analyze", "unrun", "pause"} : To(t, s) /\ (Op(t) = "flatten" => s = "pause")
    BY <1>2 DEF TakeOrder
  <2>3. Moves(t) /\ task'[t].at = s /\ Op(t)' = Op(t) BY <1>0, <2>2, ToMoves
  <2>4. CASE Op(t) = "flatten"
    <3>1. Locking(t)' /\ Sure(t)' /\ ~Healing(t) BY <2>1, <2>2, <2>3, <2>4 DEF Locking, Healing, Sure, At
    <3> QED BY <2>1, <2>3, <3>1, QuietOnwards
  <2>5. CASE Op(t) # "flatten"
    <3>1. ~Locking(t) /\ ~Healing(t) BY <2>1, <2>5 DEF Locking, Healing, At
    <3> QED BY <2>1, <2>3, <3>1, QuietAside
  <2> QED BY <2>4, <2>5
<1>3. CASE Pause(t)
  <2>1. At(t, "pause") /\ UNCHANGED <<cached, mem, port>> /\ Goto(t, "unrun") BY <1>3 DEF Pause
  <2>2. Moves(t) /\ task'[t].at = "unrun" /\ Op(t)' = Op(t) BY <1>0, <2>1, GotoMoves
  <2>3. CASE Op(t) = "flatten"
    <3>1. Locking(t)' /\ Sure(t)' /\ ~Healing(t) BY <2>1, <2>2, <2>3 DEF Locking, Healing, Sure, At
    <3> QED BY <2>1, <2>2, <3>1, QuietOnwards
  <2>4. CASE Op(t) # "flatten"
    <3>1. ~Locking(t) /\ ~Healing(t) BY <2>1, <2>4 DEF Locking, Healing, At
    <3> QED BY <2>1, <2>2, <3>1, QuietAside
  <2> QED BY <2>3, <2>4
<1>4. CASE Unrun(t)
  <2>1. At(t, "unrun") /\ UNCHANGED <<mem, port>> /\ SetRunning(FALSE) BY <1>0, <1>4 DEF Unrun
  <2>2. CASE Op(t) = "flatten"
    <3>1. To(t, "shut") BY <1>0, <1>4, <2>2 DEF Unrun
    <3>2. Moves(t) /\ task'[t].at = "shut" /\ Op(t)' = Op(t) BY <1>0, <3>1, ToMoves
    <3>3. Locking(t)' /\ Sure(t)' /\ ~Healing(t) BY <2>1, <2>2, <3>2 DEF Locking, Healing, Sure, At
    <3> QED BY <2>1, <3>2, <3>3, QuietOnwards
  <2>3. CASE Op(t) # "flatten"
    <3>1. ~Locking(t) /\ ~Healing(t) BY <2>1, <2>3 DEF Locking, Healing, At
    <3>2. Done(t) \/ \E s \in {"sweep", "shut"} : To(t, s) BY <1>0, <1>4 DEF Unrun
    <3>3. Moves(t) /\ task'[t].at \in {"idle", "sweep", "shut"} BY <1>0, <3>2, ToMoves, DoneMoves
    <3> QED BY <2>1, <3>1, <3>3, QuietAside
  <2> QED BY <2>2, <2>3
<1>5. CASE Ready(t) \/ Willing(t) \/ Unpause(t) \/ Run(t)
  <2>1. task[t].at \in {"ready", "willing", "unpause", "run"}
    BY <1>5 DEF Ready, Willing, Unpause, Run, At
  <2>2. ~Locking(t) /\ ~Healing(t) BY <2>1 DEF Locking, Healing
  <2>3. Moves(t) /\ task'[t].at \in {"idle", "lock", "authorize", "run"}
    BY <1>0, <1>5, GotoMoves, DoneMoves DEF Ready, Willing, Unpause, Run
  <2>4. UNCHANGED <<mem, port>> /\ (SetRunning(TRUE) \/ UNCHANGED cached)
    BY <1>5 DEF Ready, Willing, Unpause, Run, flags
  <2> QED BY <2>2, <2>3, <2>4, QuietAside
<1> QED BY <1>1, <1>2, <1>3, <1>4, <1>5 DEF EngineStep

LEMMA LatchSets ==
  ASSUME NEW t \in Tasks, Working(t), Latch(t)
  PROVE  Resets'
<1>0. Turns /\ Resets BY DEF Working
<1>1. UNCHANGED port /\ task[t].at \in {"latch", "locked", "locked2"} BY DEF Latch, At
<1>2. Moves(t) /\ task'[t].at \in {"locked", "locked2", "halt", "idle", "recovered"}
  BY <1>0, GotoMoves, DoneMoves DEF Latch
<1>3. Stored' /\ Latched'
  <2>1. CASE Write("latch", TRUE)
    BY <1>0, <1>2, <2>1, WriteReads DEF Moves, Resets, Latched
  <2>2. CASE Write("state", "EMERGENCY_LOCK") /\ task[t].at \in {"locked", "locked2"}
    <3>1. Stored' /\ Latched' = Latched BY <1>2, <2>2, StateWritten DEF Moves, SystemState
    <3>2. Latched BY <1>0, <2>2 DEF Resets, Sure
    <3> QED BY <3>1, <3>2
  <2> QED BY <2>1, <2>2 DEF Latch, At
<1>4. Sure(t)' BY <1>2, <1>3 DEF Sure, At
<1> QED BY <1>0, <1>2, <1>3, <1>4, OneStep, NotDown, <1>1 DEF Working, Moves, Resets

LEMMA HaltSets ==
  ASSUME NEW t \in Tasks, Working(t), Halt(t)
  PROVE  Resets'
<1>0. Turns /\ Resets BY DEF Working
<1>1. At(t, "halt") /\ UNCHANGED port /\ Write("halt", TRUE) BY DEF Halt
<1>2. CASE Op(t) = "boot"
  <2>1. Goto(t, "latch") BY <1>2 DEF Halt
  <2>2. Moves(t) /\ task'[t].at = "latch" /\ Op(t)' = "boot" BY <1>0, <1>2, <2>1, GotoMoves
  <2>3. Stored' /\ Latched' = Latched /\ Graved' = Graved
    BY <1>0, <1>1, <2>2, WriteReads DEF Moves, Resets, Latched, Graved
  <2>4. Locking(t)' /\ Sure(t)' /\ ~Healing(t) BY <1>1, <2>2 DEF Locking, Sure, Healing, At
  <2> QED BY <2>2, <2>3, <2>4, Onwards
<1>3. CASE Op(t) # "boot"
  <2>1. Done(t) BY <1>3 DEF Halt
  <2>2. Moves(t) /\ task'[t].at = "idle" BY <1>0, <2>1, DoneMoves
  <2>3. Stored' /\ Latched' = Latched /\ Graved' = Graved
    BY <1>0, <1>1, <2>2, WriteReads DEF Moves, Resets, Latched, Graved
  <2>4. Latched BY <1>0, <1>1, <1>3 DEF Resets, Sure
  <2>5. Sure(t)' /\ ~Healing(t) BY <1>1, <2>2 DEF Sure, Healing, At
  <2> QED BY <2>2, <2>3, <2>4, <2>5, Onwards
<1> QED BY <1>2, <1>3

LEMMA ResetResets ==
  ASSUME NEW t \in Tasks, Working(t),
         Branch(t) \/ IsLatched(t) \/ Unlatch(t) \/ Reopen(t) \/ Unhalt(t)
  PROVE  Resets'
<1>0. Turns /\ Resets /\ \A u \in Tasks : task[u] \in TaskType BY DEF Working, Turns
<1>1. CASE Branch(t)
  <2>1. ~Locking(t) /\ ~Healing(t) BY <1>1 DEF Branch, Locking, Healing, At
  <2>2. PICK r \in {[op |-> "reset", at |-> "latched"], [op |-> "resume", at |-> "authorize"]} :
          task' = [task EXCEPT ![t] = r]
    BY <1>1 DEF Branch
  <2>3. Moves(t) /\ task'[t] = r /\ UNCHANGED <<mem, port, cached>>
    BY <1>1, <2>2 DEF Branch, Moves, flags, env, Working, Turns
  <2>4. Sure(t)' BY <2>3 DEF Sure, At, Op
  <2>5. Stored' /\ Latched' = Latched /\ Graved' = Graved BY <2>3, FlagsKept DEF Moves
  <2> QED BY <1>0, <2>1, <2>3, <2>4, <2>5, OneStep, NotDown DEF Working, Moves, Resets
<1>2. CASE IsLatched(t)
  <2>1. task[t].at \in {"latched", "latched2"} /\ UNCHANGED <<mem, port, cached>>
    BY <1>2 DEF IsLatched, At, flags
  <2>2. ~Locking(t) /\ ~Healing(t) BY <2>1 DEF Locking, Healing
  <2>3. Moves(t) /\ (task'[t].at = "idle" \/ (task'[t].at \in {"latched2", "unlatch"} /\ Op(t)' = Op(t)))
    BY <1>0, <1>2, GotoMoves, DoneMoves DEF IsLatched
  <2>4. Op(t) \in {"reset", "clear"} BY <1>0, <2>1 DEF Resets, Sure
  <2>5. Sure(t)' BY <2>3, <2>4 DEF Sure, At
  <2>6. Stored' /\ Latched' = Latched /\ Graved' = Graved BY <2>1, <2>3, FlagsKept DEF Moves
  <2> QED BY <1>0, <2>1, <2>2, <2>3, <2>5, <2>6, OneStep, NotDown DEF Working, Moves, Resets
<1>3. CASE Unlatch(t)
  <2>1. At(t, "unlatch") /\ Write("latch", FALSE) /\ UNCHANGED port /\ Goto(t, "heal") BY <1>3 DEF Unlatch
  <2>2. Op(t) = "reset"
    <3>1. Op(t) \in {"reset", "clear"} BY <1>0, <2>1 DEF Resets, Sure, At
    <3> QED BY <3>1 DEF Working, AdminOps
  <2>3. Moves(t) /\ task'[t].at = "heal" /\ Op(t)' = "reset" BY <1>0, <2>1, <2>2, GotoMoves
  <2>4. Stored' BY <1>0, <2>1, <2>3, WriteReads DEF Moves, Resets
  <2>5. Locking(t)' /\ Healing(t)' /\ Sure(t)' BY <2>3 DEF Locking, Healing, Sure, At
  <2> QED BY <1>0, <2>3, <2>4, <2>5, <2>1, OneStep, NotDown DEF Working, Moves, Resets, At
<1>4. CASE Reopen(t)
  <2>1. At(t, "reopen") /\ UNCHANGED <<cached, mem>> BY <1>4 DEF Reopen
  <2>2. Moves(t) /\ task'[t].at \in {"idle", "unhalt"}
    BY <1>0, <1>4, GotoMoves, DoneMoves DEF Reopen
  <2>3. port' # "swan" BY <1>4 DEF Reopen, SetPort
  <2>4. Stored' /\ Latched' = Latched /\ Graved' = Graved BY <2>1, <2>2, FlagsKept DEF Moves
  <2>5. Sure(t)' /\ ~Healing(t) BY <2>1, <2>2 DEF Sure, Healing, At
  <2> QED BY <2>2, <2>3, <2>4, <2>5, <1>0, <2>1, OneStep, NotDown DEF Working, Moves, Resets, At
<1>5. CASE Unhalt(t)
  <2>1. At(t, "unhalt") /\ UNCHANGED port /\ Write("halt", FALSE) BY <1>5 DEF Unhalt
  <2>2. Moves(t) /\ task'[t].at \in {"idle", "heal"}
    BY <1>0, <1>5, GotoMoves, DoneMoves DEF Unhalt
  <2>3. Stored' /\ Latched' = Latched /\ Graved' = Graved
    BY <1>0, <2>1, <2>2, WriteReads DEF Moves, Resets, Latched, Graved
  <2>4. ~Locking(t) /\ ~Healing(t) BY <2>1 DEF Locking, Healing, At
  <2> QED BY <2>1, <2>2, <2>3, <2>4, Aside
<1> QED BY <1>1, <1>2, <1>3, <1>4, <1>5

LEMMA KillResets ==
  ASSUME NEW t \in Tasks, Working(t), KillStep(t), DbFails = FALSE
  PROVE  Resets'
<1>0. Turns /\ Resets BY DEF Working
<1>1. CASE Swan(t)
  <2>1. At(t, "swan") /\ UNCHANGED <<cached, mem>> /\ Goto(t, "lock") BY <1>1 DEF Swan
  <2>2. Op(t) = "flatten" BY <1>0, <2>1 DEF Turns, Turn, Shaped
  <2>3. Moves(t) /\ task'[t].at = "lock" /\ Op(t)' = "flatten" BY <1>0, <2>1, <2>2, GotoMoves
  <2>4. Locking(t)' /\ Sure(t)' /\ ~Healing(t) BY <2>1, <2>3 DEF Locking, Sure, Healing, At
  <2> QED BY <2>1, <2>3, <2>4, QuietOnwards
<1>2. CASE Shut(t)
  <2>1. At(t, "shut") /\ UNCHANGED <<cached, mem>> /\ Goto(t, "sweep") BY <1>2 DEF Shut
  <2>2. port' = "swan" => port = "swan" BY <1>2 DEF Shut, SetPort
  <2>3. Moves(t) /\ task'[t].at = "sweep" /\ Op(t)' = Op(t) BY <1>0, <2>1, GotoMoves
  <2>4. Stored' /\ Latched' = Latched /\ Graved' = Graved BY <2>1, <2>3, FlagsKept DEF Moves
  <2>5. CASE Op(t) = "flatten"
    <3>1. Locking(t)' /\ Sure(t)' /\ ~Healing(t) BY <2>1, <2>3, <2>5 DEF Locking, Sure, Healing, At
    <3> QED BY <2>3, <2>4, <3>1, Onwards
  <2>6. CASE Op(t) # "flatten"
    <3>1. ~Locking(t) /\ ~Healing(t) BY <2>1, <2>6 DEF Locking, Healing, At
    <3> QED BY <2>2, <2>3, <2>4, <3>1, Aside
  <2> QED BY <2>5, <2>6
<1>3. CASE SquareOff(t)
  <2>1. At(t, "sweep") /\ UNCHANGED <<cached, mem>> BY <1>3 DEF SquareOff
  <2>2. port' = "swan" => port = "swan" BY <1>3 DEF SquareOff, SetPort
  <2>3. CASE Op(t) = "flatten"
    <3>1. Goto(t, "latch") BY <1>3, <2>3 DEF SquareOff
    <3>2. Moves(t) /\ task'[t].at = "latch" /\ Op(t)' = Op(t) BY <1>0, <3>1, GotoMoves
    <3>3. Locking(t)' /\ Sure(t)' /\ ~Healing(t) BY <2>1, <2>3, <3>2 DEF Locking, Sure, Healing, At
    <3> QED BY <2>1, <3>2, <3>3, QuietOnwards
  <2>4. CASE Op(t) # "flatten"
    <3>1. Moves(t) /\ task'[t].at \in {"idle", "latch"}
      BY <1>0, <1>3, GotoMoves, DoneMoves DEF SquareOff
    <3>2. ~Locking(t) /\ ~Healing(t) BY <2>1, <2>4 DEF Locking, Healing, At
    <3>3. Stored' /\ Latched' = Latched /\ Graved' = Graved BY <2>1, <3>1, FlagsKept DEF Moves
    <3> QED BY <2>2, <3>1, <3>2, <3>3, Aside
  <2> QED BY <2>3, <2>4
<1> QED BY <1>1, <1>2, <1>3, LatchSets, HaltSets, ResetResets DEF KillStep

LEMMA BootResets ==
  ASSUME NEW t \in Tasks, Working(t), BootStep(t)
  PROVE  Resets'
<1>0. Turns /\ Resets /\ redis = TRUE BY DEF Working, Resets
<1>1. CASE Load(t)
  <2>1. At(t, "load") /\ UNCHANGED <<cached, mem>> /\ Goto(t, "fresh") BY <1>1 DEF Load
  <2>2. Op(t) = "boot" BY <1>0, <2>1 DEF Turns, Turn, Shaped, At
  <2>3. Moves(t) /\ task'[t].at = "fresh" /\ Op(t)' = "boot" BY <1>0, <2>1, <2>2, GotoMoves
  <2>4. Locking(t)' /\ Sure(t)' /\ ~Healing(t) BY <2>1, <2>3 DEF Locking, Sure, Healing, At
  <2> QED BY <2>1, <2>3, <2>4, QuietOnwards
<1>2. CASE ForgetRun(t)
  <2>1. At(t, "fresh") /\ UNCHANGED mem /\ SetRunning(FALSE) /\ Goto(t, "relock") BY <1>2 DEF ForgetRun
  <2>2. Op(t) = "boot" BY <1>0, <2>1 DEF Turns, Turn, Shaped, At
  <2>3. Moves(t) /\ task'[t].at = "relock" /\ Op(t)' = "boot" BY <1>0, <2>1, <2>2, GotoMoves
  <2>4. Locking(t)' /\ Sure(t)' /\ ~Healing(t) BY <2>1, <2>3 DEF Locking, Sure, Healing, At
  <2> QED BY <2>1, <2>3, <2>4, QuietOnwards
<1>3. CASE Relock(t)
  <2>1. At(t, "relock") /\ UNCHANGED <<cached, mem, port>> BY <1>3 DEF Relock, flags
  <2>2. Op(t) = "boot" BY <1>0, <2>1 DEF Turns, Turn, Shaped, At
  <2>3. CASE Goto(t, "halt")
    <3>1. Moves(t) /\ task'[t].at = "halt" /\ Op(t)' = "boot" BY <1>0, <2>2, <2>3, GotoMoves
    <3>2. Locking(t)' /\ Sure(t)' /\ ~Healing(t) BY <2>1, <3>1 DEF Locking, Sure, Healing, At
    <3> QED BY <2>1, <3>1, <3>2, QuietOnwards
  <2>4. CASE Goto(t, "recovered") /\ port = "ok"
    <3>1. Moves(t) /\ task'[t].at = "recovered" BY <1>0, <2>4, GotoMoves
    <3>2. Sure(t)' /\ ~Healing(t) BY <2>1, <3>1 DEF Sure, Healing, At
    <3>3. Stored' /\ Latched' = Latched /\ Graved' = Graved BY <2>1, <3>1, FlagsKept DEF Moves
    <3> QED BY <2>1, <2>4, <3>1, <3>2, <3>3, Onwards
  <2> QED BY <1>3, <2>3, <2>4 DEF Relock
<1>4. CASE Recovered(t)
  <2>1. At(t, "recovered") /\ UNCHANGED <<cached, mem, port>> BY <1>4 DEF Recovered, flags
  <2>2. Moves(t) /\ task'[t].at \in {"idle", "lock"}
    BY <1>0, <1>4, GotoMoves, DoneMoves DEF Recovered
  <2>3. ~Locking(t) /\ ~Healing(t) BY <2>1 DEF Locking, Healing, At
  <2> QED BY <2>1, <2>2, <2>3, QuietAside
<1>5. ~BootFails(t) BY <1>0 DEF BootFails
<1> QED BY <1>1, <1>2, <1>3, <1>4, <1>5 DEF BootStep

\* None of the operations asked for enters.
LEMMA NobodyEnters == ASSUME NEW t \in Tasks, Working(t) PROVE ~EntryStep(t)
<1>1. Op(t) \notin {"analyze", "tick"} BY DEF Working, AdminOps
<1>2. task[t].at \notin {"running", "gate", "symbol", "analyze", "checkpause", "checkhalt", "submit"}
  BY <1>1 DEF Working, Turns, Turn, Shaped, Buyers, At
<1> QED
  BY <1>1, <1>2 DEF EntryStep, Cycle, Analyze, CheckPause, CheckHalt, Submit, NoTrade, At

LEMMA ThreeKeys ==
  ASSUME NEW V, NEW a \in V, NEW b \in V, NEW c \in V
  PROVE  [latch |-> a, state |-> b, halt |-> c] \in [{"latch", "state", "halt"} -> V]
OBVIOUS

\* The end of the process takes the swan with it; the startup heals the lock,
\* unless it is skipped.
LEMMA DeathResets == ASSUME Resets, Die, UNCHANGED redis PROVE Resets'
<1>1. \A t \in Tasks : task'[t].at = "idle" BY DEF Die, Idle
<1>2. \A t \in Tasks : Sure(t)' BY <1>1 DEF Sure, At
<1>3. Stored'
  <2>1. Fresh \in [{"latch", "state", "halt"} -> BOOLEAN \cup SystemState]
    <3>1. "ACTIVE" \in BOOLEAN \cup SystemState BY DEF SystemState
    <3>2. FALSE \in BOOLEAN \cup SystemState OBVIOUS
    <3> QED BY <3>1, <3>2, ThreeKeys DEF Fresh
  <2> QED BY <2>1 DEF Resets, Stored, Die
<1>4. port' = "ok" /\ phase' = "down" /\ redis' = TRUE BY DEF Die, Resets
<1> QED BY <1>2, <1>3, <1>4 DEF Resets

\* The operation begins, or the process.
LEMMA BeginResets ==
  ASSUME Turns, Resets, NEW t \in Tasks, (Begin(t) /\ UNCHANGED skipped) \/ Boot(t),
         Only(t)', Op(t)' \in AdminOps \cup {"boot"}
  PROVE  Resets'
<1>1. PICK r : task' = [task EXCEPT ![t] = r] /\ UNCHANGED <<flags, env>>
  BY DEF Begin, Boot
<1>2. \A u \in Tasks \ {t} : task'[u] = task[u] BY <1>1 DEF Turns
<1>3. task[t] = Idle BY DEF Begin, Boot, Turns, Quiet
<1>4. Only(t) BY <1>2 DEF Only
<1>5. Stored' /\ Latched' = Latched /\ Graved' = Graved /\ redis' = TRUE /\ port' = port
  BY <1>1 DEF Resets, Stored, Latched, Graved, Read, flags, env
<1>6. ~Locking(t) /\ ~Healing(t) BY <1>3, IdleCalm DEF Idle
<1>7. \A u \in Tasks : ~Locking(u) /\ ~Healing(u) BY <1>3, <1>4, <1>6, IdleCalm DEF Only, Idle
<1>8. CASE Begin(t) /\ UNCHANGED skipped
  <2>1. PICK op \in Ops : task' = [task EXCEPT ![t] = [op |-> op, at |-> First(op)]] BY <1>8 DEF Begin
  <2>2. task'[t] = [op |-> op, at |-> First(op)] BY <2>1 DEF Turns
  <2>3. op \in AdminOps \cup {"boot"} BY <2>2 DEF Op
  <2>4. op \in AllOps BY OpsAssumption
  <2>5. First(op) \notin {"locked", "locked2", "halt", "latched2", "unlatch"}
        /\ (First(op) = "latched" => op = "reset")
    BY <2>3, <2>4 DEF First, AdminOps, AllOps
  <2>6. Sure(t)' BY <2>2, <2>5 DEF Sure, At, Op
  <2> QED BY <1>2, <1>4, <1>5, <1>6, <1>8, <2>6, OneStep DEF Begin, Serving
<1>9. CASE Boot(t)
  <2>1. PICK s \in {"heal", "load"} :
          /\ task' = [task EXCEPT ![t] = [op |-> "boot", at |-> s]]
          /\ skipped' = (s = "load")
    BY <1>9 DEF Boot
  <2>2. Sure(t)' /\ (skipped' \/ Healing(t)')
    <3>1. task'[t] = [op |-> "boot", at |-> s] BY <2>1 DEF Turns
    <3>2. task'[t].at = s BY <3>1
    <3>3. Sure(t)' BY <3>2 DEF Sure, At
    <3>4. skipped' \/ Healing(t)' BY <2>1, <3>2 DEF Healing
    <3> QED BY <3>3, <3>4
  <2>3. \A u \in Tasks : Sure(u)'
    BY <1>2, <1>4, <2>2 DEF Only, Idle, Sure, At
  <2>4. port = "swan" => Latched BY <1>7 DEF Resets
  <2> QED BY <1>5, <2>2, <2>3, <2>4 DEF Resets
<1> QED BY <1>8, <1>9

\* The portfolio is halted behind everybody's back.
LEMMA StillResets ==
  ASSUME Turns, Resets, UNCHANGED <<cached, mem, task, phase, redis, skipped>>, port' = "swan" => port = "swan"
  PROVE  Resets'
<1>1. Stored' /\ Latched' = Latched /\ Graved' = Graved
  BY DEF Resets, Stored, Latched, Graved, Read
<1>2. \A t \in Tasks : Locking(t)' = Locking(t) /\ Healing(t)' = Healing(t)
  BY DEF Locking, Healing, Op
<1>3. \A t \in Tasks : Sure(t)' BY <1>1 DEF Resets, Sure, At, Op
<1> QED BY <1>1, <1>2, <1>3 DEF Resets

LEMMA StepResets ==
  ASSUME NEW t \in Tasks, Working(t), Step(t), DbFails = FALSE
  PROVE  Resets'
BY BrainResets, EngineResets, KillResets, BootResets, NobodyEnters DEF Step

-----------------------------------------------------------------------------
\* In the second question, Redis has gone away too often to go away again.
Calmly == Turns /\ outages \in Nat /\ (Serial => Resets)

LEMMA EnvKept ==
  ASSUME NEW t \in Tasks, Begin(t) \/ Step(t) \/ Boot(t)
  PROVE  UNCHANGED env
<1>1. ASSUME Done(t) \/ EndAnalysis(t) \/ EnterSafe(t) \/ Healed(t) \/ \E s : To(t, s) PROVE UNCHANGED env
  BY <1>1 DEF Done, EndAnalysis, EnterSafe, Healed, Goto, To
<1>2. ASSUME NEW s, Goto(t, s) PROVE UNCHANGED env BY <1>2 DEF Goto, To
<1>3. CASE BrainStep(t)
  BY <1>1, <1>2, <1>3 DEF BrainStep, Authorize, Safe, SafeStops, SetState, Recover, Heal, Activate
<1>4. CASE EngineStep(t)
  BY <1>1, <1>2, <1>4 DEF EngineStep, TakeStart, TakeOrder, Pause, Unrun, Ready, Willing, Unpause, Run
<1>5. CASE KillStep(t)
  BY <1>1, <1>2, <1>5 DEF KillStep, Swan, Shut, SquareOff, Latch, Halt, Branch, IsLatched, Unlatch,
    Reopen, Unhalt
<1>6. CASE EntryStep(t)
  BY <1>1, <1>2, <1>6 DEF EntryStep, Cycle, Analyze, CheckPause, CheckHalt, Submit, NoTrade
<1>7. CASE BootStep(t)
  BY <1>1, <1>2, <1>7 DEF BootStep, Load, ForgetRun, BootFails, Relock, Recovered
<1> QED BY <1>3, <1>4, <1>5, <1>6, <1>7 DEF Step, Begin, Boot

LEMMA OutagesGrow ==
  ASSUME MaxOutages \in Nat, outages \in Nat, [Next]_vars, redis = TRUE \/ ~Serial
  PROVE  outages' \in Nat /\ (Serial' => Serial) /\ (Serial => redis' = redis)
<1>1. CASE Redis BY <1>1 DEF Redis, Serial
<1>2. CASE ~Redis
  <2>1. CASE Crash BY <2>1 DEF Crash, Serial
  <2>2. CASE ~Crash
    <3>1. UNCHANGED env BY <1>2, <2>2, EnvKept DEF Next, Shutdown, vars
    <3> QED BY <3>1 DEF env, Serial
  <2> QED BY <2>1, <2>2
<1> QED BY <1>1, <1>2

LEMMA NextResets ==
  ASSUME MaxOutages \in Nat, DbFails = FALSE, Calmly, Asked, Asked', [Next]_vars
  PROVE  Calmly'
<1>1. Turns' BY NextTurns DEF Calmly
<1>2. outages' \in Nat /\ (Serial' => Serial) /\ (Serial => redis' = redis)
  BY OutagesGrow DEF Calmly, Resets
<1>3. ASSUME Serial, Serial' PROVE Resets'
  <2>0. Turns /\ Resets BY <1>3 DEF Calmly
  <2>1. ASSUME NEW t \in Tasks, (Begin(t) /\ UNCHANGED skipped) \/ Boot(t) PROVE Resets'
    <3>1. \E r : task' = [task EXCEPT ![t] = r] /\ r # Idle
      <4>1. \A op \in Ops : First(op) # "idle" BY OpsAssumption DEF First, AllOps
      <4> QED BY <2>1, <4>1 DEF Begin, Boot, Idle
    <3>2. task'[t] # Idle BY <2>0, <3>1 DEF Turns
    <3>3. Only(t)' /\ Op(t)' \in AdminOps \cup {"boot"} BY <1>3, <3>2 DEF Asked, Busy, Only
    <3> QED BY <2>0, <2>1, <3>3, BeginResets
  <2>2. ASSUME NEW t \in Tasks, Step(t), UNCHANGED skipped PROVE Resets'
    <3>1. task[t].at # "idle" BY <2>2, IdleRests
    <3>2. task[t] # Idle BY <3>1 DEF Idle
    <3>3. Only(t) /\ Op(t) \in AdminOps \cup {"boot"} BY <1>3, <3>2 DEF Asked, Busy, Only
    <3> QED BY <2>0, <2>2, <3>1, <3>3, StepResets DEF Working
  <2>3. CASE Crash BY <2>0, <2>3, DeathResets DEF Crash
  <2>4. CASE Shutdown /\ UNCHANGED skipped
    <3>1. port' = "halted" BY <2>4 DEF Shutdown, SetPort
    <3> QED BY <2>0, <2>4, <3>1, StillResets DEF Shutdown, env
  <2>5. ~Redis BY <1>3, <2>0 DEF Redis, Resets, Serial, Calmly
  <2>6. CASE UNCHANGED vars BY <2>0, <2>6, StillResets DEF vars, flags, env
  <2> QED BY <2>1, <2>2, <2>3, <2>4, <2>5, <2>6 DEF Next
<1> QED BY <1>1, <1>2, <1>3 DEF Calmly

LEMMA InitResets == ASSUME MaxOutages \in Nat, MCInit PROVE Calmly
<1>0. /\ redis = TRUE /\ cached = Flushed /\ mem = Fresh /\ paused = FALSE
      /\ port = "ok" /\ startLock = None /\ orderLock = None
      /\ task = [t \in Tasks |-> Idle] /\ phase = "down"
      /\ outages \in {0, MaxOutages + 1} /\ skipped = FALSE
  BY DEF MCInit, Init, Calm!Init, Calm!Flushed, Calm!Fresh, Calm!Idle, Flushed, Fresh, Idle
<1>1. Idle \in TaskType BY DEF Idle, TaskType, Steps
<1>2. \A t \in Tasks : task[t] = Idle BY <1>0
<1>3. /\ task = [t \in Tasks |-> Idle] /\ startLock = None /\ orderLock = None /\ phase = "down"
  BY <1>0
<1>4. Turns
  <2>1. \A t \in Tasks : Turn(t)
    BY <1>2, <1>3, TasksAssumption DEF Turn, Holding, Needing, Shaped, Unpaused, Idle, At, Op
  <2> QED BY <1>1, <1>2, <1>3, <2>1 DEF Turns, Quiet
<1>5. \A t \in Tasks : Sure(t)
  <2>1. ASSUME NEW t \in Tasks PROVE task[t].at = "idle"
    <3>1. task[t] = Idle BY <1>2
    <3> QED BY <3>1 DEF Idle
  <2> QED BY <2>1, IdleCalm
<1>6. Fresh \in [{"latch", "state", "halt"} -> BOOLEAN \cup SystemState]
  <2>1. "ACTIVE" \in BOOLEAN \cup SystemState BY DEF SystemState
  <2>2. FALSE \in BOOLEAN \cup SystemState OBVIOUS
  <2> QED BY <2>1, <2>2, ThreeKeys DEF Fresh
<1>7. Stored BY <1>0, <1>6 DEF Stored, Flushed
<1> QED BY <1>0, <1>4, <1>5, <1>7 DEF Calmly, Resets

LEMMA ResetsAccepted == Calmly => SerialResetAccepted
<1> SUFFICES ASSUME Calmly, Serial, ~skipped, Quiet, Serving, Resolve = "EMERGENCY_LOCK" PROVE Latched
  BY DEF SerialResetAccepted, ResetAccepted
<1>1. ASSUME NEW t \in Tasks PROVE task[t].at = "idle"
  <2>1. task[t] = Idle BY DEF Quiet
  <2> QED BY <2>1 DEF Idle
<1>2. port = "swan" \/ Graved \/ Latched BY DEF Resolve, GetState, Graved
<1> QED BY <1>1, <1>2, IdleCalm DEF Calmly, Resets, Serving

\* While one operation follows another, cut short by any number of crashes, and
\* Redis and the database answer: a state that only a reset may leave, with no
\* operation under way, has the latch that admin_reset_emergency insists on, in
\* every process whose startup could replay its compliance log (crce.recover).
THEOREM SerialResetAcceptedHolds ==
  ASSUME MaxOutages \in Nat, DbFails = FALSE
  PROVE  MCSpec /\ []Asked => []SerialResetAccepted
<1>1. MCInit => Calmly BY InitResets
<1>2. Calmly /\ Asked /\ Asked' /\ [Next]_vars => Calmly' BY NextResets
<1> QED BY <1>1, <1>2, ResetsAccepted, PTL DEF MCSpec
=============================================================================
