----------------------------- MODULE Governance -----------------------------
(***************************************************************************)
(* StrategyGovernanceEngine: who may trade, and where that is kept.  The   *)
(* record of a strategy is in the engine; a save puts it into the store's  *)
(* memory and file, then, after an await, into Redis, which the load of    *)
(* the next process prefers to the file.  The engine loads at its first    *)
(* use; trades, outcomes and the operator's requests may all be that.      *)
(*                                                                         *)
(* One strategy: a save writes all records, and only this one is followed. *)
(* A win rate is whether it is too low.                                    *)
(***************************************************************************)
CONSTANTS
  Callers,   \* tasks that use the engine: analyses, exits, requests
  Asked      \* the states the operator asks for

VARIABLES
  record,     \* its state in _records
  loaded,     \* _loaded
  kept,       \* the store: _memory, file and Redis, Missing for no value
  redisOn,
  job,        \* what each caller is doing
  killed,     \* history: a kill was answered
  faulty      \* history: Redis or the file missed a save, or two loads raced

vars == <<record, loaded, kept, redisOn, job, killed, faulty>>

Tradeable == {"ACTIVE", "THROTTLED"}
Missing   == "missing"
NoJob     == [pc |-> "idle"]

\* from_dict, of a record that may be missing.
Stored(s) == IF s = Missing THEN "ACTIVE" ELSE s

\* set_state obeys and record_outcome disables a strategy that does badly,
\* unless it is killed; the gate of a trade changes nothing.
EffectUnguarded(j, s) ==
  CASE j.op = "set" -> j.new
    [] j.op = "bad" /\ s = "ACTIVE" -> "DISABLED"
    [] OTHER -> s
Effect(j, s) ==
  CASE j.op = "set" /\ s # "KILLED" -> j.new
    [] j.op = "bad" /\ s = "ACTIVE" -> "DISABLED"
    [] OTHER -> s

SavingRequests(j, s) == j.op = "set" /\ (s # "KILLED" \/ j.new = "KILLED")
Saving(j, s) ==
  \/ j.op = "set" /\ (s # "KILLED" \/ j.new = "KILLED")
  \/ j.op \in {"good", "bad"} /\ s # "KILLED"

\* evaluate_strategy, in a regime and a lab that allow it.
Allowed == loaded /\ record \in Tradeable

Init ==
  /\ record = "ACTIVE" /\ loaded = FALSE
  /\ kept = [memory |-> Missing, file |-> Missing, redis |-> Missing]
  /\ redisOn = TRUE /\ job = [c \in Callers |-> NoJob]
  /\ killed = FALSE /\ faulty = FALSE

-----------------------------------------------------------------------------
\* Caller c does j to a record in state s: in the engine and, when it saves, in
\* the store's memory and file.  The file may be written in part, which fails.
Act(c, j, s, store, raced) ==
  LET new == Effect(j, s) IN
  /\ record' = new /\ loaded' = TRUE
  /\ \/ /\ ~Saving(j, s)
        /\ kept' = store /\ faulty' = (faulty \/ raced)
        /\ job' = [job EXCEPT ![c] = NoJob]
     \/ /\ Saving(j, s)
        /\ kept' = [store EXCEPT !.memory = new, !.file = new] /\ faulty' = (faulty \/ raced)
        /\ job' = [job EXCEPT ![c] = [pc |-> "redis", op |-> j.op, new |-> new]]
     \/ /\ Saving(j, s)
        /\ kept' = [store EXCEPT !.memory = new, !.file = Missing]
        /\ faulty' = TRUE
        /\ job' = [job EXCEPT ![c] = NoJob]

Requests == [op : {"gate", "good", "bad"}, new : {"ACTIVE"}] \cup [op : {"set"}, new : Asked]

Call(c) ==
  /\ job[c] = NoJob
  /\ \E r \in Requests :
       IF loaded THEN Act(c, r, record, kept, FALSE)
       ELSE /\ job' = [job EXCEPT ![c] = [pc |-> "load", op |-> r.op, new |-> r.new]]
            /\ UNCHANGED <<record, loaded, kept, faulty>>
  /\ UNCHANGED <<redisOn, killed>>

\* ensure_loaded waits for Redis ...
LoadRead(c) ==
  /\ job[c].pc = "load"
  /\ job' = [job EXCEPT ![c] = [pc |-> "loaded", op |-> @.op, new |-> @.new,
                                got |-> IF redisOn THEN kept.redis ELSE Missing]]
  /\ UNCHANGED <<record, loaded, kept, redisOn, killed, faulty>>

\* ... and replaces the records with what it found, also when another caller
\* has loaded and changed them meanwhile.
Found(got) ==
  CASE got # Missing -> got
    [] kept.memory # Missing -> kept.memory
    [] OTHER -> kept.file

LoadApply(c) ==
  /\ job[c].pc = "loaded"
  /\ LET s == Found(job[c].got) IN
     Act(c, job[c], Stored(s), [kept EXCEPT !.memory = s],
         loaded /\ Stored(s) # record)
  /\ UNCHANGED <<redisOn, killed>>

\* The end of a save; a Redis that does not answer is passed over.
WriteRedis(c) ==
  /\ job[c].pc = "redis"
  /\ kept' = IF redisOn THEN [kept EXCEPT !.redis = job[c].new] ELSE kept
  /\ faulty' = (faulty \/ ~redisOn \/ job[c].new # record)
  /\ killed' = (killed \/ (job[c].op = "set" /\ job[c].new = "KILLED"))
  /\ job' = [job EXCEPT ![c] = NoJob]
  /\ UNCHANGED <<record, loaded, redisOn>>

\* Redis goes away, and comes back or forgets (30 days, or a restart).
Redis ==
  /\ redisOn' = ~redisOn
  /\ kept' \in {kept, [kept EXCEPT !.redis = Missing]}
  /\ UNCHANGED <<record, loaded, job, killed, faulty>>

\* A crash; the next process starts with nothing loaded.
Crash ==
  /\ record' = "ACTIVE" /\ loaded' = FALSE
  /\ kept' = [kept EXCEPT !.memory = Missing]
  /\ faulty' = (faulty \/ \E c \in Callers : job[c].pc = "redis")
  /\ job' = [c \in Callers |-> NoJob]
  /\ UNCHANGED <<redisOn, killed>>

Next ==
  \/ \E c \in Callers : Call(c) \/ LoadRead(c) \/ LoadApply(c) \/ WriteRedis(c)
  \/ Redis \/ Crash

Spec == Init /\ [][Next]_vars

-----------------------------------------------------------------------------
\* A strategy whose kill was answered does not trade again, whatever is asked
\* later, also of the next process.  Excepted: Redis does not have the latest
\* save, half a file was written, or two callers loaded at once.
KilledStays == killed => ~Allowed \/ faulty

\* What is in force is what the next process will load, from Redis or without
\* it, when no save is under way, with the same exceptions.
RestartKeeps ==
  loaded /\ (\A c \in Callers : job[c] = NoJob) /\ ~faulty =>
    /\ kept.redis \in {Missing, record}
    /\ Stored(kept.file) = record
=============================================================================
