-------------------------- MODULE ComplianceLedger --------------------------
(***************************************************************************)
(* The compliance event ledger: EventStore (a file of hash-chained lines,  *)
(* a head-hash file, a cache of the verification) and ComplianceRecorder   *)
(* (a buffer in memory and in a file for what could not be recorded).      *)
(*                                                                         *)
(* Recording is synchronous: nothing of the event loop runs between its    *)
(* writes, but each may fail, the process may die between any two, and     *)
(* verify_chain runs in a thread at any time (icb/signals.py).  A hash is  *)
(* the sequence of the events it commits to, so that no two collide.       *)
(***************************************************************************)
EXTENDS Naturals, SequencesExt

CONSTANTS
  Events,    \* the events subsystems record, each once (event_id is a uuid)
  None       \* no event, which is not one of Events

VARIABLES
  log,       \* lines of event_log.jsonl                           (file)
  open,      \* its last line is not terminated
  head,      \* last_hash.txt: <<hash>>, or <<>> if missing or empty (file)
  bufFile,   \* lines of pending_buffer.jsonl                      (file)
  mem,       \* ComplianceRecorder._buffer
  pc,        \* step of the recorder
  cur,       \* event being recorded; None while recover flushes
  pend,      \* events _flush_buffer_sync still has to append
  safe,      \* the system state is SAFE_MODE (icb.enter_safe_mode)
  cache,     \* the cached answer of verify_chain
  vpc, vres, \* the verifying thread: its step and what it found
  asked,     \* history: events given to record
  lost,      \* history: events given up by a failed flush, a torn line or a crash
  dropped,   \* history: events a repair, or its interruption, removed
  torn,      \* history: an interrupted write left a torn line or an old head
  raced      \* history: the cached verdict was old when it was stored, or an
             \* interrupted write has made it old

files    == <<log, open, head, bufFile>>
recorder == <<pc, cur, pend>>
verifier == <<vpc, vres>>
history  == <<asked, lost, dropped, torn, raced>>
vars == <<files, mem, recorder, safe, cache, verifier, history>>

-----------------------------------------------------------------------------
Genesis == <<>>
Junk    == [ev |-> None, prev |-> Genesis, hash |-> Genesis]   \* unreadable line

Line(prev, e) == [ev |-> e, prev |-> prev, hash |-> Append(prev, e)]

\* load_all: the lines json can read.
Records(l) ==
  LET rs[n \in 0..Len(l)] ==
        IF n = 0 THEN <<>>
        ELSE IF l[n] = Junk THEN rs[n - 1] ELSE Append(rs[n - 1], l[n])
  IN  rs[Len(l)]
EventsOf(l) == {r.ev : r \in ToSet(Records(l))}

\* verify_chain: every record chains to the one before it.
Chained(rs) ==
  \A i \in 1..Len(rs) :
    /\ rs[i].prev = IF i = 1 THEN Genesis ELSE rs[i - 1].hash
    /\ rs[i].hash = Append(rs[i].prev, rs[i].ev)

Verdict(l) == IF Chained(Records(l)) THEN "valid" ELSE "broken"

LastHashFile ==   \* mutant: the log is not consulted
  IF head # <<>> THEN head[1] ELSE Genesis

\* _read_last_hash: the head file, or the last line when it is missing or empty.
LastHash ==
  IF head # <<>> THEN head[1]
  ELSE IF log = <<>> THEN Genesis ELSE Last(log).hash

\* What the next event will be chained to is what verify_chain expects.
HeadHash == IF Records(log) = <<>> THEN Genesis ELSE Last(Records(log)).hash
HeadCurrent == LastHash = HeadHash

Init ==
  /\ log = <<>> /\ open = FALSE /\ head = <<>> /\ bufFile = <<>> /\ mem = <<>>
  /\ pc = "idle" /\ cur = None /\ pend = <<>> /\ safe = FALSE
  /\ cache = "none" /\ vpc = "off" /\ vres = "none"
  /\ asked = {} /\ lost = {} /\ dropped = {}
  /\ torn = FALSE /\ raced = FALSE

-----------------------------------------------------------------------------
(* Recording                                                               *)

\* _flush_buffer_sync takes over what is buffered, in memory and in the file;
\* or it cannot read or remove the file, and raises.
Flush ==
  \/ /\ None \notin ToSet(bufFile)
     /\ pend' = mem \o bufFile /\ bufFile' = <<>> /\ mem' = <<>>
     /\ pc' = "append"
  \/ bufFile # <<>> /\ pc' = "fail" /\ UNCHANGED <<pend, bufFile, mem>>

Record(e) ==
  /\ pc = "idle" /\ e \notin asked
  /\ asked' = asked \cup {e} /\ cur' = e
  /\ Flush
  /\ UNCHANGED <<log, open, head, safe, cache, verifier, lost, dropped,
                 torn, raced>>

\* The recorder's recover, at startup.
Recover ==
  /\ pc = "down"
  /\ cur' = None
  /\ Flush
  /\ safe' \in {safe, FALSE}   \* only Redis remembers it
  /\ UNCHANGED <<log, open, head, cache, verifier, history>>

Writing == IF pend # <<>> THEN pend[1] ELSE cur

\* EventStore.append: the line, chained to the last hash.  A line written after
\* a torn one becomes part of it.
AppendLine ==
  /\ pc = "append" /\ Writing # None
  /\ \/ /\ pc' = "head" /\ open' = FALSE
        /\ log' = IF open THEN log ELSE Append(log, Line(LastHash, Writing))
        /\ lost' = IF open THEN lost \cup {Writing} ELSE lost
        /\ torn' = torn
     \/ \* the write fails half-way
        /\ pc' = "fail" /\ open' = TRUE /\ torn' = TRUE
        /\ log' = IF open THEN log ELSE Append(log, Junk)
        /\ UNCHANGED lost
     \/ pc' = "fail" /\ UNCHANGED <<log, open, lost, torn>>
  /\ UNCHANGED <<head, bufFile, mem, cur, pend, safe, cache, verifier, asked, dropped, raced>>

\* The hash of the line just written; of one that became part of a torn line,
\* only append knows it.
NewHash == IF Last(log) = Junk THEN Append(LastHash, Writing) ELSE Last(log).hash

\* append has written the head: the next buffered event, or the end.
Appended ==
  IF pend # <<>> THEN pend' = Tail(pend) /\ pc' = "append" /\ UNCHANGED cur
  ELSE pc' = "idle" /\ cur' = None /\ UNCHANGED pend

WriteHeadFirst ==   \* mutant: the cached verdict survives an append
  /\ pc = "head"
  /\ head' = <<NewHash>> /\ Appended /\ UNCHANGED <<torn, cache, raced>>
  /\ UNCHANGED <<log, open, bufFile, mem, safe, verifier, asked, lost, dropped>>

WriteHead ==
  /\ pc = "head"
  /\ \/ /\ head' = <<NewHash>> /\ Appended /\ UNCHANGED torn
        /\ cache' = "none" /\ raced' = FALSE
     \/ \* the file cannot be opened, or is left truncated
        /\ head' \in {head, <<>>} /\ torn' = (torn \/ head' # <<>>)
        /\ raced' = (raced \/ cache \notin {"none", Verdict(log)})
        /\ pc' = "fail" /\ UNCHANGED <<cur, pend, cache>>
  /\ UNCHANGED <<log, open, bufFile, mem, safe, verifier, asked, lost, dropped>>

\* Everything is flushed and nothing is to be recorded: recover has succeeded.
Recovered ==
  /\ pc = "append" /\ Writing = None
  /\ pc' = "idle" /\ safe' = FALSE
  /\ UNCHANGED <<files, mem, cur, pend, cache, verifier, history>>

FailUnbuffered ==   \* mutant: only the file takes the event
  /\ pc = "fail"
  /\ pc' = "idle" /\ cur' = None /\ pend' = <<>>
  /\ lost' = lost \cup ToSet(pend)
  /\ IF cur = None THEN UNCHANGED <<bufFile, safe>>
     ELSE bufFile' \in {bufFile, Append(bufFile, cur)} /\ safe' = TRUE
  /\ UNCHANGED <<log, open, head, mem, cache, verifier, asked, dropped, torn, raced>>

\* The except clause of _append, or of recover: the event is buffered, what
\* the flush still had in hand is not.
Fail ==
  /\ pc = "fail"
  /\ pc' = "idle" /\ cur' = None /\ pend' = <<>>
  /\ lost' = lost \cup ToSet(pend)
  /\ IF cur = None THEN UNCHANGED <<mem, bufFile, safe>>
     ELSE /\ mem' = Append(mem, cur)
          /\ bufFile' \in {bufFile, Append(bufFile, cur), Append(bufFile, None)}
          /\ safe' = TRUE
  /\ UNCHANGED <<log, open, head, cache, verifier, asked, dropped, torn, raced>>

\* resume_trading clears SAFE_MODE whatever the recorder has in its buffer.
Resume ==
  /\ pc = "idle" /\ safe /\ safe' = FALSE
  /\ UNCHANGED <<files, mem, recorder, cache, verifier, history>>

Crash ==
  /\ pc # "down"
  /\ pc' = "down" /\ cur' = None /\ pend' = <<>> /\ mem' = <<>>
  /\ lost' = lost \cup ToSet(pend) \cup ToSet(mem) \cup ({cur} \ {None})
  /\ head' \in IF pc = "head" THEN {head, <<>>} ELSE {head}
  /\ torn' = (torn \/ (pc = "head" /\ head' # <<>>))
  /\ cache' = "none" /\ vpc' = "off" /\ vres' = "none"
  /\ raced' = FALSE
  /\ UNCHANGED <<log, open, bufFile, safe, asked, dropped>>

-----------------------------------------------------------------------------
(* Verification and repair                                                 *)

VerifyRead ==
  /\ vpc = "off" /\ cache = "none" /\ pc # "down"
  /\ vpc' = "read" /\ vres' = Verdict(log)
  /\ UNCHANGED <<files, mem, recorder, safe, cache, history>>

VerifyStore ==
  /\ vpc = "read"
  /\ cache' = vres /\ raced' = (vres # Verdict(log))
  /\ vpc' = "off" /\ vres' = "none"
  /\ UNCHANGED <<files, mem, recorder, safe, asked, lost, dropped,
                 torn>>

\* Two minutes pass.
CacheExpires ==
  /\ cache # "none" /\ cache' = "none" /\ raced' = FALSE
  /\ UNCHANGED <<files, mem, recorder, safe, verifier, asked, lost, dropped,
                 torn>>

\* The records before the first break.
Kept ==
  LET rs == Records(log)
  IN  SubSeq(rs, 1, Max({n \in 0..Len(rs) : Chained(SubSeq(rs, 1, n))}))

\* repair_chain; when no line can be read it returns before it changes anything.
Repair ==
  /\ pc = "idle" /\ Records(log) # <<>>
  /\ log' = Kept /\ open' = FALSE
  /\ head' = <<IF Kept = <<>> THEN Genesis ELSE Last(Kept).hash>>
  /\ dropped' = dropped \cup (EventsOf(log) \ EventsOf(Kept))
  /\ cache' = "none" /\ raced' = FALSE /\ torn' = FALSE
  /\ UNCHANGED <<bufFile, mem, recorder, safe, verifier, asked, lost>>

\* The same interrupted: the file is rewritten from its start, so what is not
\* rewritten yet is gone, and the head is the old one.
RepairInterrupted ==
  /\ pc = "idle" /\ Records(log) # <<>>
  /\ \E n \in 0..Len(Kept) : log' = SubSeq(Kept, 1, n)
  /\ open' = FALSE /\ torn' = TRUE
  /\ raced' = (raced \/ cache \notin {"none", Verdict(log')})
  /\ dropped' = dropped \cup (EventsOf(log) \ EventsOf(log'))
  /\ UNCHANGED <<head, bufFile, mem, recorder, safe, cache, verifier, asked,
                 lost>>

Next ==
  \/ \E e \in Events : Record(e)
  \/ AppendLine \/ WriteHead \/ Recovered \/ Fail
  \/ Recover \/ Resume \/ Crash
  \/ VerifyRead \/ VerifyStore \/ CacheExpires
  \/ Repair \/ RepairInterrupted

Spec == Init /\ [][Next]_vars

-----------------------------------------------------------------------------
\* As long as no write was interrupted half-way the chain verifies, and the
\* next event will chain to the last record, whatever failed or died between
\* the writes otherwise.
ChainSound == ~torn => Chained(Records(log)) /\ (pc # "head" => HeadCurrent)

\* An event given to record is in the ledger, or in a buffer, or on its way,
\* unless a failed flush, a crash, a torn line or a repair gave it up.
NothingVanishes ==
  asked \subseteq EventsOf(log) \cup ToSet(mem) \cup ToSet(bufFile) \cup ToSet(pend)
                    \cup {cur} \cup lost \cup dropped

\* The cached verdict is that of the file, unless the thread verified while an
\* event was being appended or an append failed: every append and repair that
\* succeeds throws the old verdict away.
VerdictFresh == cache # "none" /\ pc # "head" => cache = Verdict(log) \/ raced
=============================================================================
