--------------------------- MODULE ShadowTrading ---------------------------
(***************************************************************************)
(* Shadow mode: the ShadowEngine with its file of entries, exits and       *)
(* missed signals, and the portfolio and database beside it, which are     *)
(* written in other steps.  The report made of the file is evidence for    *)
(* going live.                                                             *)
(***************************************************************************)
EXTENDS Naturals, Sequences, FiniteSets

CONSTANTS
  Names,       \* symbols
  MaxEvents    \* bound: entries and exits

VARIABLES
  events,   \* the entries and exits of lifecycle-v2.jsonl
  torn,     \* a line of the file cannot be read
  held,     \* ShadowEngine.positions
  book,     \* the portfolio's positions
  saved,    \* the database's
  filling,  \* an entry that is simulated and not yet in the portfolio
  phase     \* of the process

vars == <<events, torn, held, book, saved, filling, phase>>

Entry(s) == [kind |-> "entry", symbol |-> s]
Exit(s)  == [kind |-> "exit", symbol |-> s]

Entries == {i \in DOMAIN events : events[i].kind = "entry"}
Exits   == {i \in DOMAIN events : events[i].kind = "exit"}

\* The constructor applies every line in turn: a symbol is held that has an
\* entry without a later exit.
Replayed ==
  {s \in Names : \E i \in DOMAIN events :
     events[i] = Entry(s) /\ \A k \in DOMAIN events : k > i => events[k] # Exit(s)}

Init ==
  /\ events = <<>> /\ torn = FALSE /\ held = {}
  /\ book = {} /\ saved = {} /\ filling = {} /\ phase = "down"

-----------------------------------------------------------------------------
\* The file is read; one line that cannot be read raises, and the engine, and
\* with it the process, does not start.
Start ==
  /\ phase = "down" /\ ~torn
  /\ phase' = "up" /\ held' = Replayed /\ book' = saved
  /\ UNCHANGED <<events, torn, saved, filling>>

\* A signal of a symbol that is not in the portfolio; the engine refuses one
\* that it holds itself.
SimulateUnchecked(s) ==   \* mutant: the portfolio alone is asked
  /\ phase = "up" /\ filling = {} /\ s \notin book
  /\ Len(events) < MaxEvents
  /\ events' = Append(events, Entry(s)) /\ held' = held \cup {s} /\ filling' = {s}
  /\ UNCHANGED <<torn, book, saved, phase>>

Simulate(s) ==
  /\ phase = "up" /\ filling = {} /\ s \notin book \cup held
  /\ Len(events) < MaxEvents
  /\ events' = Append(events, Entry(s)) /\ held' = held \cup {s} /\ filling' = {s}
  /\ UNCHANGED <<torn, book, saved, phase>>

\* record_fill; a save that fails leaves the position in memory.
RecordFill ==
  /\ filling # {} /\ phase = "up"
  /\ book' = book \cup filling /\ saved' \in {saved, saved \cup filling}
  /\ filling' = {}
  /\ UNCHANGED <<events, torn, held, phase>>

\* The result is not recorded, or the analysis is cancelled.
FillLost ==
  /\ filling # {} /\ filling' = {}
  /\ UNCHANGED <<events, torn, held, book, saved, phase>>

\* A stop or a target is reached: the exit is simulated, then booked; the
\* engine refuses what it does not hold.
Close(s) ==
  /\ phase = "up" /\ filling = {} /\ s \in book \cap held
  /\ Len(events) < MaxEvents
  /\ events' = Append(events, Exit(s)) /\ held' = held \ {s}
  /\ book' = book \ {s} /\ saved' \in {saved, saved \ {s}}
  /\ UNCHANGED <<torn, filling, phase>>

\* An entry, an exit or, in every mode, a missed signal is written half-way:
\* it raises before the engine changes; what is written next joins the line.
Tear ==
  /\ phase = "up" /\ filling = {} /\ ~torn /\ torn' = TRUE
  /\ UNCHANGED <<events, held, book, saved, filling, phase>>

Crash ==
  /\ phase = "up" /\ phase' = "down"
  /\ held' = {} /\ book' = {} /\ filling' = {}
  /\ UNCHANGED <<events, torn, saved>>

Next ==
  \/ Start \/ RecordFill \/ FillLost \/ Tear \/ Crash
  \/ \E s \in Names : Simulate(s) \/ Close(s)

Spec == Init /\ [][Next]_vars

-----------------------------------------------------------------------------
\* The report's numbers agree: every simulated fill is a completed trade or an
\* open position, each once, through crashes, failed saves and restarts.
Balanced ==
  phase = "up" => Cardinality(Entries) = Cardinality(Exits) + Cardinality(held)
=============================================================================
