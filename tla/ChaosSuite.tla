----------------------------- MODULE ChaosSuite -----------------------------
(***************************************************************************)
(* The stress suite inside a paper process.  ScenarioRunner takes one      *)
(* orchestrator, its own, through scenario after scenario: the injector    *)
(* replaces get_broker in the modules that import it, the orchestrator is  *)
(* bound to the scenario's broker, what it does is judged, and the         *)
(* injector puts back what it found.  The suite in the background is the   *)
(* only one of its kind; requests that wait for their suite or scenario    *)
(* are not counted.  The gateway's own engine asks for a broker when the   *)
(* mode is set and after a login or logout at Kite.  What the scenarios    *)
(* find is in LiveEvidence.                                                *)
(***************************************************************************)
EXTENDS Naturals

CONSTANTS
  Runs,       \* runs under way: "task" is the one in the background
  SuiteSize,  \* scenarios of the suite
  QuickSize   \* scenarios of a quick one

VARIABLES
  run,        \* what each run is doing
  binding,    \* get_broker: "real", or the run whose broker it returns
  engine,     \* the broker of the suite's orchestrator
  gateway,    \* the broker of the gateway's engine
  mode,       \* TRADING_MODE
  shared,     \* history: two runs were between injection and removal at once
  rebound     \* history: the gateway last asked for a broker under an injection

vars == <<run, binding, engine, gateway, mode, shared, rebound>>

Idle == [at |-> "idle"]

Init ==
  /\ run = [r \in Runs |-> Idle]
  /\ binding = "real" /\ engine = "real" /\ gateway = "real"
  /\ mode \in {"paper", "shadow", "live"}
  /\ shared = FALSE /\ rebound = FALSE

At(r, s) == run[r].at = s
Move(r, s) == run' = [run EXCEPT ![r].at = s]

-----------------------------------------------------------------------------
\* chaos_run, of n scenarios, and chaos_run_scenario refuse a live process.
Request(r, n) ==
  /\ run[r] = Idle /\ mode # "live" /\ (r = "task" => n # 1)
  /\ run' = [run EXCEPT ![r] = [at |-> "next", left |-> n, found |-> "real"]]
  /\ UNCHANGED <<binding, engine, gateway, mode, shared, rebound>>

\* activate starts the patches, which keep what they replace; the scenario sets
\* the mode, for good, and the orchestrator takes the broker.
Inject(r) ==
  /\ At(r, "next") /\ run[r].left > 0
  /\ run' = [run EXCEPT ![r] = [at |-> "judge", left |-> @.left - 1, found |-> binding]]
  /\ binding' = r /\ engine' = r /\ mode' = "paper"
  /\ shared' = (shared \/ binding # "real")
  /\ UNCHANGED <<gateway, rebound>>

JudgeOrLeave(r) ==
  /\ At(r, "judge") /\ (Move(r, "remove") \/ Move(r, "next"))
  /\ UNCHANGED <<binding, engine, gateway, mode, shared, rebound>>

\* The brain is asked, the symbol analyzed and the outcome judged; or one of
\* them raises, which fails the scenario and ends no run.
Judge(r) ==
  /\ At(r, "judge") /\ Move(r, "remove")
  /\ UNCHANGED <<binding, engine, gateway, mode, shared, rebound>>

\* The finally clause of activate.
Remove(r) ==
  /\ At(r, "remove") /\ Move(r, "next") /\ binding' = run[r].found
  /\ UNCHANGED <<engine, gateway, mode, shared, rebound>>

Finish(r) ==
  /\ At(r, "next") /\ run[r].left = 0
  /\ run' = [run EXCEPT ![r] = Idle]
  /\ UNCHANGED <<binding, engine, gateway, mode, shared, rebound>>

\* refresh_broker of the gateway's engine drops the cached broker and asks for one.
Refresh == gateway' = binding /\ rebound' = (binding # "real")

\* set_mode: into live, or out of it, the process must be restarted.
SetMode(m) ==
  /\ m \in {"paper", "shadow"} /\ mode # "live"
  /\ mode' = m /\ Refresh
  /\ UNCHANGED <<run, binding, engine, shared>>

\* kite_callback, after a login, and kite_disconnect; neither asks for the mode.
Relogin == Refresh /\ UNCHANGED <<run, binding, engine, mode, shared>>

\* The process ends; TRADING_MODE is the configured one again.
Restart ==
  /\ run' = [r \in Runs |-> Idle]
  /\ binding' = "real" /\ engine' = "real" /\ gateway' = "real"
  /\ mode' \in {"paper", "shadow", "live"}
  /\ shared' = FALSE /\ rebound' = FALSE

Next ==
  \/ \E r \in Runs :
       \/ \E n \in {SuiteSize, QuickSize, 1} : Request(r, n)
       \/ Inject(r) \/ Judge(r) \/ Remove(r) \/ Finish(r)
  \/ \E m \in {"paper", "shadow"} : SetMode(m)
  \/ Relogin
  \/ Restart

Spec == Init /\ [][Next]_vars

-----------------------------------------------------------------------------
Quiet == \A r \in Runs : ~At(r, "judge") /\ ~At(r, "remove")

\* When nothing is injected the process has its own broker again, whatever the
\* scenarios raised; the gateway's engine has another only if it last asked for
\* one, to set the mode or after a login or logout, under an injection.
\* Excepted: runs that overlapped, of which the last to end puts back the broker
\* of the first.
PatchesRemoved ==
  /\ Quiet => binding = "real" \/ shared
  /\ gateway = "real" \/ rebound
=============================================================================
