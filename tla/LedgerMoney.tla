---------------------------- MODULE LedgerMoney ----------------------------
(***************************************************************************)
(* The money of the portfolio: PortfolioManager's state in memory, the row *)
(* of SystemState with the open Position row, and the tasks that write     *)
(* them.  The trading path books fills and exits under order_lock; the     *)
(* control loop resets the day's loss and copies the broker's cash without *)
(* it; an operator halts and resumes.  A save reads the row, overwrites it *)
(* with a snapshot of the memory and commits, in that order, and the ORM   *)
(* writes only the columns this changed: the saves of two tasks overlap.   *)
(*                                                                         *)
(* One instrument: no entry is made while a position of it is open, and    *)
(* the columns are shared.  The weekly and monthly counters follow the     *)
(* daily one; the peak and the streak of losses follow the equity.         *)
(***************************************************************************)
EXTENDS Integers

CONSTANTS
  Lot,         \* the largest quantity of an entry
  Capital,     \* initial_capital
  Entry,       \* entry price
  Fee,         \* the estimated costs of a unit
  ExitPrices,  \* what a unit may be sold at
  MaxEntries,  \* bound: entries made
  MaxTroubles  \* bound: syncs, failures, crashes, outages, midnights and
               \* requests of the operator, in all

ASSUME LotAssumption == Lot \in Nat
ASSUME PriceAssumption == {Capital, Entry, Fee} \cup ExitPrices \subseteq Int

VARIABLES
  broker,    \* the account: cash and quantity
  real,      \* history: what its sales have earned, in all and today
  day,       \* calendar day
  redisUp,
  mem,       \* portfolio.state: cash, equity, day, halt; qty and id of the position
  ok,        \* persistence_ok
  db,        \* the same in the database (id 0: no open Position row)
  at,        \* the step each task is at
  tx,        \* the transaction each task has open
  booking,   \* quantity and price the trading path has to book
  funds,     \* the cash the sync has read
  mark,      \* the day of the last reset, in Redis and in _memory_reset
  entries,   \* entries made: the id of the last Position row
  troubles,  \* what MaxTroubles bounds
  excuses    \* history: what the properties except

world  == <<broker, real, day, redisUp>>
counts == <<entries, troubles>>
vars == <<world, mem, ok, db, at, tx, booking, funds, mark, counts, excuses>>

Tasks   == {"trade", "control", "operator"}
Columns == {"cash", "equity", "day", "halt"}
NoTx    == [kind |-> "none"]
Nothing == [qty |-> 0, price |-> 0]

Goto(t, s) == at' = [at EXCEPT ![t] = s]
At(t, s)   == at[t] = s /\ tx[t] = NoTx
Excuse(e, b) == excuses' = excuses \cup {x \in {e} : b}
Trouble == troubles < MaxTroubles /\ troubles' = troubles + 1 /\ UNCHANGED entries

Init ==
  /\ broker = [cash |-> Capital, qty |-> 0] /\ real = [all |-> 0, today |-> 0]
  /\ day = 1 /\ redisUp = TRUE
  /\ mem = [cash |-> Capital, equity |-> Capital, day |-> 0, halt |-> FALSE, qty |-> 0, id |-> 0]
  /\ db = mem /\ ok = TRUE
  /\ at = [t \in Tasks |-> "idle"] /\ tx = [t \in Tasks |-> NoTx]
  /\ booking = Nothing /\ funds = 0 /\ mark = [redis |-> 1, memory |-> 1]
  /\ entries = 0 /\ troubles = 0 /\ excuses = {}

-----------------------------------------------------------------------------
(* A transaction of task t: the row is read and overwritten, then committed. *)

Begin(t, kind) ==
  /\ tx[t] = NoTx
  /\ tx' = [tx EXCEPT ![t] =
       [kind |-> kind, id |-> db.id, qty |-> mem.qty,
        moved |-> kind # "save" \/ (mem.id = db.id /\ mem.qty # db.qty),
        set |-> [c \in {d \in Columns : mem[d] # db[d]} |-> mem[c]]]]
  /\ UNCHANGED <<world, mem, ok, db, at, booking, funds, mark, counts, excuses>>

\* Steps that save; close_position gives up when no row is open.
Saves(t) ==
  \/ at[t] = "add" /\ Begin(t, "add")
  \/ at[t] = "close" /\ db.id # 0 /\ Begin(t, "close")
  \/ at[t] = "save" /\ Begin(t, "save")

CommittedRowOnly(x) ==
  [db EXCEPT !.qty = IF x.kind = "save" THEN @ ELSE x.qty,
             !.id = CASE x.kind = "add" -> entries
                      [] x.kind = "close" /\ x.qty = 0 -> 0
                      [] OTHER -> @]

\* What the commit of x leaves: an add inserts the position's row, a close
\* writes what is left of it, a save writes the quantity of a position whose
\* row it has read as open, to no effect when that row is closed by now.
Committed(x) ==
  LET id == CASE x.kind = "add" -> entries
              [] x.kind = "close" /\ x.qty = 0 -> 0
              [] OTHER -> db.id
      qty == IF x.moved /\ (x.id = db.id \/ x.kind = "add") THEN x.qty ELSE db.qty
  IN [c \in DOMAIN db |->
        CASE c = "id" -> id
          [] c = "qty" -> IF id = 0 THEN 0 ELSE qty
          [] c \in DOMAIN x.set -> x.set[c]
          [] OTHER -> db[c]]

\* A commit that writes an old value over a newer one.
Overtaken(x) == \E c \in DOMAIN db \ {"id"} : db[c] = mem[c] /\ Committed(x)[c] # mem[c]

Commit(t) ==
  /\ tx[t] # NoTx
  /\ db' = Committed(tx[t]) /\ Excuse("stale", Overtaken(tx[t]))
  /\ tx' = [tx EXCEPT ![t] = NoTx]

\* A database error, of which the commit may have been made all the same.
Fail(t) ==
  /\ tx[t] # NoTx /\ Trouble
  /\ \/ UNCHANGED <<db, excuses>>
     \/ db' = Committed(tx[t]) /\ Excuse("stale", Overtaken(tx[t]))
  /\ tx' = [tx EXCEPT ![t] = NoTx]

-----------------------------------------------------------------------------
(* The trading path: the broker executes, record_fill or record_exit books *)
(* it in memory, then in a transaction of its own, then saves.             *)

\* The gate of an entry (LiveSafetyGate): saved, not halted, a ledger that is
\* not larger than what backs it; and recovery has found no other position.
Gate ==
  /\ ok /\ ~mem.halt /\ mem.qty = broker.qty
  /\ mem.equity <= mem.cash + mem.qty * Entry

Buy ==
  /\ At("trade", "idle") /\ Gate /\ mem.qty = 0 /\ entries < MaxEntries
  /\ \E q \in 1..Lot :
       /\ q * Entry <= broker.cash
       /\ broker' = [cash |-> broker.cash - q * Entry, qty |-> q]
       /\ booking' = [qty |-> q, price |-> Entry]
  /\ entries' = entries + 1 /\ Goto("trade", "fill") /\ Excuse("over", db.qty # 0)
  /\ UNCHANGED <<real, day, redisUp, mem, ok, db, tx, funds, mark, troubles>>

RecordFill ==
  /\ At("trade", "fill")
  /\ LET cost == booking.qty * Entry IN
     mem' = [mem EXCEPT !.cash = IF cost <= @ THEN @ - cost ELSE 0, !.qty = booking.qty]
  /\ booking' = Nothing /\ Goto("trade", "add")
  /\ UNCHANGED <<world, ok, db, tx, funds, mark, counts, excuses>>

LastResetMemory == mark.memory
LastReset == IF redisUp /\ mark.redis # 0 THEN mark.redis ELSE mark.memory

Earned(q, price) == q * (price - Entry - Fee)

Sell ==
  /\ At("trade", "idle") /\ broker.qty > 0
  /\ \E q \in 1..mem.qty, p \in ExitPrices :
       /\ q <= broker.qty
       /\ broker' = [cash |-> broker.cash + q * (p - Fee), qty |-> broker.qty - q]
       /\ booking' = [qty |-> q, price |-> p]
       /\ real' = [all |-> real.all + Earned(q, p), today |-> real.today + Earned(q, p)]
  /\ excuses' = excuses \cup {e \in {"early"} : LastReset # day}
                        \cup {e \in {"unlisted"} : mem.id = 0}
  /\ Goto("trade", "exit")
  /\ UNCHANGED <<day, redisUp, mem, ok, db, tx, funds, mark, counts>>

RecordExit ==
  /\ At("trade", "exit")
  /\ LET pnl == Earned(booking.qty, booking.price) IN
     mem' = [mem EXCEPT !.cash = @ + booking.qty * booking.price,
                        !.equity = @ + pnl, !.day = @ + pnl, !.qty = @ - booking.qty,
                        !.id = IF mem.qty = booking.qty THEN 0 ELSE @]
  /\ booking' = Nothing /\ Goto("trade", "close")
  /\ UNCHANGED <<world, ok, db, tx, funds, mark, counts, excuses>>

\* An insert or close is followed by a save, whose success is persistence_ok.
TradeSaved ==
  /\ Commit("trade")
  /\ mem' = IF at["trade"] = "add" THEN [mem EXCEPT !.id = entries] ELSE mem
  /\ IF at["trade"] = "save" THEN ok' = TRUE /\ Goto("trade", "idle")
                             ELSE UNCHANGED ok /\ Goto("trade", "save")
  /\ UNCHANGED <<world, booking, funds, mark, counts>>

UnsavedGoesOn == ok' = FALSE /\ Goto("trade", "idle") /\ UNCHANGED <<world, mem, booking, funds, mark>>

\* A failure halts, in memory.
Unsaved ==
  /\ ok' = FALSE /\ mem' = [mem EXCEPT !.halt = TRUE] /\ Goto("trade", "idle")
  /\ UNCHANGED <<world, booking, funds, mark>>

TradeFails ==
  \/ Fail("trade") /\ Unsaved
  \/ At("trade", "close") /\ db.id = 0 /\ Unsaved /\ UNCHANGED <<db, tx, counts, excuses>>

-----------------------------------------------------------------------------
(* The control loop: the reset of the day's loss, the copy of the cash.    *)

Reset ==
  /\ At("control", "idle") /\ LastReset # day
  /\ mem' = [mem EXCEPT !.day = 0] /\ Goto("control", "mark")
  /\ UNCHANGED <<world, ok, db, tx, booking, funds, mark, counts, excuses>>

MarkReset ==
  /\ At("control", "mark")
  /\ mark' = [redis |-> IF redisUp THEN day ELSE mark.redis, memory |-> day]
  /\ Goto("control", "save")
  /\ UNCHANGED <<world, mem, ok, db, tx, booking, funds, counts, excuses>>

SyncRead ==
  /\ At("control", "idle") /\ Trouble
  /\ funds' = broker.cash /\ Goto("control", "sync")
  /\ UNCHANGED <<world, mem, ok, db, tx, booking, mark, excuses>>

SyncWriteEquity ==
  /\ At("control", "sync")
  /\ mem' = [mem EXCEPT !.cash = funds, !.equity = funds]
  /\ funds' = 0 /\ Goto("control", "save")
  /\ UNCHANGED <<world, ok, db, tx, booking, mark, counts, excuses>>

SyncWrite ==
  /\ At("control", "sync")
  /\ mem' = [mem EXCEPT !.cash = funds]
  /\ funds' = 0 /\ Goto("control", "save")
  /\ UNCHANGED <<world, ok, db, tx, booking, mark, counts, excuses>>

\* persist, of the control loop and of the operator: no halt when it fails.
Persisted(t) ==
  /\ t # "trade" /\ Goto(t, "idle")
  /\ \/ Commit(t) /\ ok' = TRUE /\ UNCHANGED counts
     \/ Fail(t) /\ ok' = FALSE
  /\ UNCHANGED <<world, mem, booking, funds, mark>>

-----------------------------------------------------------------------------
(* The operator, the calendar, Redis and crashes.                          *)

\* A kill, or a resume.
Operate ==
  /\ At("operator", "idle") /\ Trouble
  /\ mem' = [mem EXCEPT !.halt = ~@] /\ Goto("operator", "save")
  /\ Excuse("reviewed", mem.halt)
  /\ UNCHANGED <<world, ok, db, tx, booking, funds, mark>>

\* Midnight; nothing is sold then.
Turn ==
  /\ at["trade"] = "idle" /\ Trouble
  /\ day' = day + 1 /\ real' = [real EXCEPT !.today = 0]
  /\ UNCHANGED <<broker, redisUp, mem, ok, db, at, tx, booking, funds, mark, excuses>>

\* Redis goes away, or comes back, perhaps empty.
Blink ==
  /\ \/ redisUp /\ Trouble /\ UNCHANGED mark
     \/ ~redisUp /\ mark' \in {mark, [mark EXCEPT !.redis = 0]} /\ UNCHANGED counts
  /\ redisUp' = ~redisUp /\ Excuse("blind", TRUE)
  /\ UNCHANGED <<broker, real, day, mem, ok, db, at, tx, booking, funds>>

\* A crash, and the load of the next start.
Crash ==
  /\ Trouble
  /\ mem' = db /\ ok' = TRUE
  /\ at' = [t \in Tasks |-> "idle"] /\ tx' = [t \in Tasks |-> NoTx]
  /\ booking' = Nothing /\ funds' = 0 /\ mark' = [mark EXCEPT !.memory = 0]
  /\ Excuse("carried", at["trade"] \in {"idle", "save"} /\ mem.day # db.day /\ mark.redis = day)
  /\ UNCHANGED <<world, db>>

Next ==
  \/ Buy \/ RecordFill \/ Sell \/ RecordExit \/ TradeSaved \/ TradeFails
  \/ Reset \/ MarkReset \/ SyncRead \/ SyncWrite
  \/ \E t \in Tasks : Saves(t) \/ Persisted(t)
  \/ Operate \/ Turn \/ Blink \/ Crash

Spec == Init /\ [][Next]_vars

-----------------------------------------------------------------------------
\* Between two operations of the trading path, with the position the broker has.
Settled == at["trade"] = "idle" /\ mem.qty = broker.qty
Excused(es) == excuses \cap es # {}

\* What record_fill or record_exit could not write, entries stop for: unless
\* the ledger is halted, the position in memory is the one of the database.
\* Excepted: an operator has resumed over it, or a slower save wrote an older
\* quantity, which the trading path is not told of.
BackedOrHalted ==
  at["trade"] = "idle" /\ ~mem.halt => mem.qty = db.qty \/ Excused({"reviewed", "stale"})

\* Whatever crashed or failed: when the ledger has the broker's position, it
\* has also what the sales have earned.  Excepted: a position sold that had no
\* row, which a crash forgets; a slower save that wrote an older equity; an
\* entry over the open row of a position already sold, which an operator's
\* resume makes possible when the exit was not saved and a slower save hid it.
EquityTrue == Settled => mem.equity = Capital + real.all \/ Excused({"unlisted", "stale", "over"})

\* The loss the daily limit is compared with is the loss of this day, once the
\* day's reset is made.  Excepted, besides those three: Redis did not know the
\* last reset, a crash came before the reset was saved, or a sale before it.
DayLossTrue ==
  Settled /\ LastReset = day =>
    mem.day = real.today \/ Excused({"unlisted", "stale", "over", "blind", "carried", "early"})

\* The capital risk is measured against is never more than the account is
\* worth, whichever sale or purchase the copy of the cash has missed
\* (to_risk_state's liquid_basis is the smaller of these two).
BasisBacked ==
  Settled =>
    \/ Excused({"unlisted", "stale", "over"})
    \/ mem.equity <= broker.cash + broker.qty * Entry
    \/ mem.cash + mem.qty * Entry <= broker.cash + broker.qty * Entry
=============================================================================
