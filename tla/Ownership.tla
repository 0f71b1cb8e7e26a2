----------------------------- MODULE Ownership -----------------------------
(***************************************************************************)
(* ExecutionOwner: which process may write to the broker.  A live process  *)
(* takes an advisory lock of PostgreSQL for its session before it starts,  *)
(* and asks for it again before every write; the write itself comes after  *)
(* another await, in a thread that no cancellation stops.  The session may *)
(* end at the server, and the connection at the process, at any time.      *)
(***************************************************************************)
CONSTANTS
  Procs,    \* the live processes of one database
  Writes    \* the writes a process may have under way at once

VARIABLES
  holder,   \* the process whose session has the lock, or "nobody"; "ghost" when
            \* its connection is gone and the server has not noticed
  phase,    \* of a process: what its lifespan is doing
  link,     \* its connection is usable
  active,   \* ExecutionOwner.active
  write,    \* its writes: "none", "checking", or "passed" the check
  failed,   \* history: a check has failed since the process started
  cut       \* history: the writes during which their process lost the lock

vars == <<holder, phase, link, active, write, failed, cut>>

Init ==
  /\ holder = "nobody"
  /\ phase = [p \in Procs |-> "down"] /\ link = [p \in Procs |-> FALSE]
  /\ active = [p \in Procs |-> FALSE]
  /\ write = [p \in Procs |-> [w \in Writes |-> "none"]]
  /\ failed = [p \in Procs |-> FALSE] /\ cut = {}

Passed(p) == {w \in Writes : write[p][w] = "passed"}
Under(p)  == {<<p, w>> : w \in Passed(p)}

\* The lock leaves process p.
Leaves(p, to) ==
  IF holder = p THEN holder' = to /\ cut' = cut \cup Under(p)
                ELSE UNCHANGED <<holder, cut>>

SetWrite(p, w, s) == write' = [write EXCEPT ![p][w] = s]

-----------------------------------------------------------------------------
(* The lifespan of a process.                                              *)

\* lifespan connects before anything else.
Start(p) ==
  /\ phase[p] = "down" /\ Passed(p) = {}
  /\ phase' = [phase EXCEPT ![p] = "starting"] /\ link' = [link EXCEPT ![p] = TRUE]
  /\ failed' = [failed EXCEPT ![p] = FALSE]
  /\ UNCHANGED <<holder, active, write, cut>>

\* acquire finds the lock free.
Acquire(p) ==
  /\ phase[p] = "starting" /\ link[p] /\ holder = "nobody"
  /\ holder' = p /\ active' = [active EXCEPT ![p] = TRUE]
  /\ phase' = [phase EXCEPT ![p] = "up"]
  /\ UNCHANGED <<link, write, failed, cut>>

\* close: the session is ended, not given back to the pool.
Close(p) ==
  /\ active' = [active EXCEPT ![p] = FALSE] /\ link' = [link EXCEPT ![p] = FALSE]
  /\ Leaves(p, "nobody")

\* Another process has the lock, or the server does not answer.
Refused(p) ==
  /\ phase[p] = "starting"
  /\ phase' = [phase EXCEPT ![p] = "down"] /\ Close(p)
  /\ UNCHANGED <<write, failed>>

\* The loops are cancelled and the requests end; the thread of a write goes on.
Shutdown(p) ==
  /\ phase[p] = "up"
  /\ phase' = [phase EXCEPT ![p] = "down"] /\ Close(p)
  /\ write' = [write EXCEPT ![p] = [w \in Writes |-> IF @[w] = "passed" THEN @[w] ELSE "none"]]
  /\ UNCHANGED failed

\* The process dies, and its threads with it.
Crash(p) ==
  /\ phase[p] # "down"
  /\ phase' = [phase EXCEPT ![p] = "down"] /\ active' = [active EXCEPT ![p] = FALSE]
  /\ link' = [link EXCEPT ![p] = FALSE]
  /\ holder' = IF holder = p THEN "ghost" ELSE holder
  /\ write' = [write EXCEPT ![p] = [w \in Writes |-> "none"]] /\ cut' = cut \ Under(p)
  /\ UNCHANGED failed

-----------------------------------------------------------------------------
(* A write to the broker: require_execution_owner, then the request.       *)

\* One check at a time.
Ask(p, w) ==
  /\ phase[p] = "up" /\ write[p][w] = "none"
  /\ \A x \in Writes : write[p][x] # "checking"
  /\ SetWrite(p, w, "checking")
  /\ UNCHANGED <<holder, phase, link, active, failed, cut>>

PassUnasked(p, w) ==
  /\ write[p][w] = "checking" /\ active[p] /\ link[p]
  /\ SetWrite(p, w, "passed")
  /\ UNCHANGED <<holder, phase, link, active, failed, cut>>

\* The session of this connection still has the lock.
Pass(p, w) ==
  /\ write[p][w] = "checking" /\ active[p] /\ link[p] /\ holder = p
  /\ SetWrite(p, w, "passed")
  /\ UNCHANGED <<holder, phase, link, active, failed, cut>>

FailOnce(p, w) ==
  /\ write[p][w] = "checking" /\ SetWrite(p, w, "none")
  /\ failed' = [failed EXCEPT ![p] = TRUE]
  /\ UNCHANGED <<holder, phase, link, active, cut>>

\* No answer in time, no connection, or no lock: the process never owns again.
Fail(p, w) ==
  /\ write[p][w] = "checking" /\ SetWrite(p, w, "none")
  /\ active' = [active EXCEPT ![p] = FALSE] /\ failed' = [failed EXCEPT ![p] = TRUE]
  /\ UNCHANGED <<holder, phase, link, cut>>

\* The request has reached the broker.
Written(p, w) ==
  /\ write[p][w] = "passed" /\ SetWrite(p, w, "none")
  /\ cut' = cut \ {<<p, w>>}
  /\ UNCHANGED <<holder, phase, link, active, failed>>

-----------------------------------------------------------------------------
(* The server and the network.                                             *)

\* The server ends the session: a restart, a timeout, an administrator.
SessionEnds(p) ==
  /\ holder = p /\ Leaves(p, "nobody")
  /\ UNCHANGED <<phase, link, active, write, failed>>

\* The connection breaks, and the server notices it later.
ConnectionLost(p) ==
  /\ link[p] /\ link' = [link EXCEPT ![p] = FALSE] /\ Leaves(p, "ghost")
  /\ UNCHANGED <<phase, active, write, failed>>

Noticed ==
  /\ holder = "ghost" /\ holder' = "nobody"
  /\ UNCHANGED <<phase, link, active, write, failed, cut>>

Next ==
  \/ \E p \in Procs :
       \/ Start(p) \/ Acquire(p) \/ Refused(p) \/ Shutdown(p) \/ Crash(p)
       \/ \E w \in Writes : Ask(p, w) \/ Pass(p, w) \/ Fail(p, w) \/ Written(p, w)
       \/ SessionEnds(p) \/ ConnectionLost(p)
  \/ Noticed

Spec == Init /\ [][Next]_vars

-----------------------------------------------------------------------------
\* "One live writer per PostgreSQL database": of two processes with a write
\* under way, one at most still has the lock its check has seen.
OneWriter ==
  \A p, q \in Procs :
    (\E w \in Passed(p) : <<p, w>> \notin cut) /\ (\E w \in Passed(q) : <<q, w>> \notin cut)
      => p = q

\* "Fail closed on ownership loss ... never silently re-acquire": no check
\* passes in a process one of whose checks has failed since it was started.
LostForGood ==
  [][\A p \in Procs : failed[p] /\ failed'[p] =>
       \A w \in Writes : write'[p][w] = "passed" => write[p][w] = "passed"]_vars

\* A process that has ended, and so can lose nothing more, leaves the lock to
\* the next one: at once, or when the server notices its crash.
HandedOver == \A p \in Procs : phase[p] = "down" => holder # p
=============================================================================
