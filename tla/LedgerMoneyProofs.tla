-------------------------- MODULE LedgerMoneyProofs --------------------------
(***************************************************************************)
(* Proofs about the ledger's money, for every lot, price and number of     *)
(* entries and troubles: what could not be saved stops entries, and the    *)
(* equity, the capital that risk is measured against and the day's loss    *)
(* are true when the quantity is.                                          *)
(*                                                                         *)
(* The properties speak of pauses; the invariants also say what every open *)
(* transaction means to write and has read, and what the row holds that a  *)
(* crash would load.                                                       *)
(***************************************************************************)
EXTENDS LedgerMoney, TLAPS

Fields == Columns \cup {"qty", "id"}

\* Only the trading path inserts or closes, and only while it books.
Steps ==
  /\ at \in [Tasks -> {"idle", "fill", "add", "exit", "close", "save", "mark", "sync"}]
  /\ \A t \in Tasks \ {"trade"} : at[t] \in {"idle", "mark", "sync", "save"}
  /\ at["trade"] \notin {"mark", "sync"}
  /\ at["trade"] \in {"fill", "add"} => entries # 0
  /\ entries \in Nat

\* What an open transaction means to write.
Means(t) ==
  tx[t] # NoTx =>
    /\ tx[t].kind = at[t] /\ at[t] \in {"add", "close", "save"}
    /\ t = "trade" => tx[t].qty = mem.qty
    /\ at[t] # "save" => tx[t].moved
    /\ DOMAIN tx[t].set \subseteq Columns
    /\ at[t] = "close" => db.id # 0 /\ tx[t].id = db.id

Clean == ~mem.halt /\ excuses \cap {"reviewed", "stale"} = {}

\* The inductive invariant.
Backed ==
  /\ Steps
  /\ DOMAIN mem = Fields /\ DOMAIN db = Fields /\ DOMAIN tx = Tasks
  /\ \A t \in Tasks : Means(t)
  /\ Clean /\ at["trade"] \notin {"add", "close"} => mem.qty = db.qty

-----------------------------------------------------------------------------
\* The row that the commit of x leaves, and the quantity it means to leave.
RowOf(x) == CASE x.kind = "add" -> entries
              [] x.kind = "close" /\ x.qty = 0 -> 0
              [] OTHER -> db.id
QtyOf(x) == IF x.moved /\ (x.id = db.id \/ x.kind = "add") THEN x.qty ELSE db.qty

LEMMA CommittedRow ==
  ASSUME NEW x, DOMAIN x.set \subseteq Columns, DOMAIN db = Fields
  PROVE  /\ DOMAIN Committed(x) = Fields
         /\ Committed(x).id = RowOf(x)
         /\ Committed(x).qty = IF RowOf(x) = 0 THEN 0 ELSE QtyOf(x)
<1> DEFINE Set == x.set
           G(c) == CASE c = "id" -> RowOf(x)
                     [] c = "qty" -> IF RowOf(x) = 0 THEN 0 ELSE QtyOf(x)
                     [] c \in DOMAIN Set -> Set[c]
                     [] OTHER -> db[c]
<1>1. Committed(x) = [c \in DOMAIN db |-> G(c)] BY DEF Committed, RowOf, QtyOf
<1>2. "id" \notin DOMAIN Set /\ "qty" \notin DOMAIN Set BY DEF Columns
<1> HIDE DEF Set
<1>3. /\ G("id") = RowOf(x)
      /\ G("qty") = IF RowOf(x) = 0 THEN 0 ELSE QtyOf(x)
  BY <1>2
<1> HIDE DEF G
<1>4. "qty" \in Fields /\ "id" \in Fields BY DEF Fields
<1> QED BY <1>1, <1>3, <1>4

\* A commit that neither inserts nor closes leaves the quantity of the row
\* alone, if it was right, or is noted as stale; and it keeps the row.
LEMMA SaveKeeps ==
  ASSUME NEW x, x.kind = "save", DOMAIN x.set \subseteq Columns, DOMAIN db = Fields
  PROVE  /\ DOMAIN Committed(x) = Fields /\ Committed(x).id = db.id
         /\ db.qty = mem.qty => Committed(x).qty = mem.qty \/ Overtaken(x)
<1>1. DOMAIN Committed(x) = Fields /\ Committed(x).id = db.id
  BY CommittedRow DEF RowOf
<1>2. "qty" \in DOMAIN db \ {"id"} BY DEF Fields
<1>3. db["qty"] = mem["qty"] /\ Committed(x)["qty"] # mem["qty"] => Overtaken(x)
  BY <1>2 DEF Overtaken
<1> QED BY <1>1, <1>3

\* The insert or close of the trading path leaves the quantity of the memory.
LEMMA BookingWrites ==
  ASSUME Backed, tx["trade"] # NoTx, at["trade"] \in {"add", "close"}
  PROVE  /\ DOMAIN Committed(tx["trade"]) = Fields
         /\ Committed(tx["trade"]).qty = mem.qty
<1> DEFINE x == tx["trade"]
<1>1. /\ x.kind = at["trade"] /\ x.qty = mem.qty /\ x.moved
      /\ at["trade"] = "close" => db.id # 0 /\ x.id = db.id
      /\ at["trade"] = "add" => entries # 0
      /\ DOMAIN db = Fields /\ DOMAIN x.set \subseteq Columns
  BY DEF Backed, Means, Steps, Tasks
<1>2. QtyOf(x) = mem.qty BY <1>1 DEF QtyOf
<1>3. RowOf(x) = 0 => mem.qty = 0 BY <1>1 DEF RowOf
<1> QED BY <1>1, <1>2, <1>3, CommittedRow

-----------------------------------------------------------------------------
\* A step of a task between its transactions: it may move the task, and
\* only the trading path may change the quantity.
LEMMA StepsAlone ==
  ASSUME Backed, NEW t \in Tasks, tx[t] = NoTx, UNCHANGED <<db, tx>>,
         \A u \in Tasks \ {t} : at'[u] = at[u], Steps', DOMAIN mem' = Fields,
         t # "trade" => mem'.qty = mem.qty,
         Clean' /\ at'["trade"] \notin {"add", "close"} => mem'.qty = db.qty
  PROVE  Backed'
<1>1. ASSUME NEW u \in Tasks PROVE Means(u)'
  <2>1. CASE u = t BY <2>1 DEF Means
  <2>2. CASE u # t BY <2>2 DEF Means, Backed
  <2> QED BY <2>1, <2>2
<1> QED BY <1>1 DEF Backed

LEMMA TradeSteps ==
  ASSUME Backed, Buy \/ RecordFill \/ Sell \/ RecordExit
  PROVE  Backed'
<1>1. "trade" \in Tasks /\ tx["trade"] = NoTx
  BY DEF Tasks, Buy, RecordFill, Sell, RecordExit, At
<1>2. UNCHANGED <<db, tx>>
  BY DEF Buy, RecordFill, Sell, RecordExit
<1>3. \A u \in Tasks \ {"trade"} : at'[u] = at[u]
  BY DEF Backed, Steps, Buy, RecordFill, Sell, RecordExit, Goto
<1>4. Steps'
  <2>1. CASE Buy BY <2>1 DEF Backed, Steps, Buy, Goto, Tasks
  <2>2. CASE RecordFill \/ Sell \/ RecordExit
    BY <2>2 DEF Backed, Steps, RecordFill, Sell, RecordExit, Goto, Tasks, At, counts
  <2> QED BY <2>1, <2>2
<1>5. DOMAIN mem' = Fields
  BY DEF Backed, Buy, RecordFill, Sell, RecordExit
<1>6. Clean' /\ at'["trade"] \notin {"add", "close"} => mem'.qty = db.qty
  BY <1>1 DEF Backed, Steps, Buy, RecordFill, Sell, RecordExit, Goto, At, Clean, Excuse
<1> QED BY <1>1, <1>2, <1>3, <1>4, <1>5, <1>6, StepsAlone

\* Nothing that the control loop or the operator sets is a quantity; a resume
\* is noted.
LEMMA OtherSteps ==
  ASSUME Backed, Reset \/ MarkReset \/ SyncRead \/ SyncWrite \/ Operate
  PROVE  Backed'
<1>1. PICK t \in {"control", "operator"} :
        /\ tx[t] = NoTx /\ (Operate => t = "operator")
        /\ \E s \in {"mark", "save", "sync"} : Goto(t, s)
  BY DEF Reset, MarkReset, SyncRead, SyncWrite, Operate, At
<1>2. UNCHANGED <<db, tx, entries>> /\ excuses \subseteq excuses'
  BY DEF Reset, MarkReset, SyncRead, SyncWrite, Operate, Trouble, counts, Excuse
<1>3. t \in Tasks /\ t # "trade" BY DEF Tasks
<1>4. (\A u \in Tasks \ {t} : at'[u] = at[u]) /\ Steps'
  BY <1>1, <1>2, <1>3 DEF Backed, Steps, Goto
<1>5. DOMAIN mem' = Fields /\ mem'.qty = mem.qty
  BY DEF Backed, Fields, Reset, MarkReset, SyncRead, SyncWrite, Operate
<1>6. Clean' => Clean
  <2>1. CASE Operate
    <3>1. mem.halt => "reviewed" \in excuses' BY <2>1 DEF Operate, Excuse
    <3> QED BY <1>2, <3>1 DEF Clean
  <2>2. CASE Reset \/ MarkReset \/ SyncRead \/ SyncWrite
    <3>1. mem'.halt = mem.halt
      BY <2>2 DEF Backed, Fields, Columns, Reset, MarkReset, SyncRead, SyncWrite
    <3> QED BY <1>2, <3>1 DEF Clean
  <2> QED BY <2>1, <2>2
<1>7. at'["trade"] = at["trade"] BY <1>3, <1>4 DEF Tasks
<1>8. Clean' /\ at'["trade"] \notin {"add", "close"} => mem'.qty = db.qty
  BY <1>5, <1>6, <1>7 DEF Backed
<1> QED BY <1>1, <1>2, <1>3, <1>4, <1>5, <1>8, StepsAlone

-----------------------------------------------------------------------------
\* A transaction that begins means to write what the memory has.
LEMMA SavesSteps ==
  ASSUME Backed, NEW t \in Tasks, Saves(t)
  PROVE  Backed'
<1>1. PICK kind \in {"add", "close", "save"} :
        at[t] = kind /\ Begin(t, kind) /\ (kind = "close" => db.id # 0)
  BY DEF Saves
<1>2. UNCHANGED <<mem, db, at, entries, excuses>> BY <1>1 DEF Begin, counts
<1> DEFINE Set == [c \in {d \in Columns : mem[d] # db[d]} |-> mem[c]]
           moved == kind # "save" \/ (mem.id = db.id /\ mem.qty # db.qty)
           x == [kind |-> kind, id |-> db.id, qty |-> mem.qty, moved |-> moved, set |-> Set]
<1>3. tx' = [tx EXCEPT ![t] = x] BY <1>1 DEF Begin
<1>4. DOMAIN Set \subseteq Columns OBVIOUS
<1>5. kind # "save" => moved OBVIOUS
<1> HIDE DEF Set, moved
<1>6. ASSUME NEW u \in Tasks PROVE Means(u)'
  <2>1. CASE u = t
    <3>1. tx'[u] = x BY <1>3, <2>1 DEF Backed
    <3> QED BY <1>1, <1>2, <1>4, <1>5, <2>1, <3>1 DEF Means
  <2>2. CASE u # t
    <3>1. tx'[u] = tx[u] BY <1>3, <2>2 DEF Backed
    <3> QED BY <1>2, <3>1 DEF Means, Backed
  <2> QED BY <2>1, <2>2
<1>7. DOMAIN tx' = Tasks BY <1>3 DEF Backed
<1> QED BY <1>2, <1>6, <1>7 DEF Backed, Steps, Clean

\* A save's commit, of whatever task.
LEMMA SaveCommits ==
  ASSUME Backed, NEW t \in Tasks, tx[t] # NoTx, at[t] = "save",
         \/ UNCHANGED <<db, excuses>>
         \/ db' = Committed(tx[t]) /\ Excuse("stale", Overtaken(tx[t]))
  PROVE  /\ DOMAIN db' = Fields /\ db'.id = db.id /\ excuses \subseteq excuses'
         /\ db.qty = mem.qty /\ "stale" \notin excuses' => db'.qty = mem.qty
<1>1. tx[t].kind = "save" /\ DOMAIN tx[t].set \subseteq Columns /\ DOMAIN db = Fields
  BY DEF Backed, Means
<1>2. Excuse("stale", Overtaken(tx[t])) =>
        excuses \subseteq excuses' /\ (Overtaken(tx[t]) => "stale" \in excuses')
  BY DEF Excuse
<1> QED BY <1>1, <1>2, SaveKeeps

LEMMA PersistedSteps ==
  ASSUME Backed, NEW t \in Tasks, Persisted(t)
  PROVE  Backed'
<1>1. /\ t # "trade" /\ tx[t] # NoTx /\ tx' = [tx EXCEPT ![t] = NoTx] /\ UNCHANGED <<mem, entries>>
      /\ at' = [at EXCEPT ![t] = "idle"]
      /\ \/ UNCHANGED <<db, excuses>>
         \/ db' = Committed(tx[t]) /\ Excuse("stale", Overtaken(tx[t]))
  BY DEF Persisted, Commit, Fail, Trouble, Goto, counts
<1>2. at[t] = "save" BY <1>1 DEF Backed, Steps, Means
<1>3. /\ DOMAIN db' = Fields /\ db'.id = db.id /\ excuses \subseteq excuses'
      /\ db.qty = mem.qty /\ "stale" \notin excuses' => db'.qty = mem.qty
  BY <1>1, <1>2, SaveCommits
<1>4. ASSUME NEW u \in Tasks PROVE Means(u)'
  <2>1. CASE u = t BY <1>1, <2>1 DEF Means, Backed
  <2>2. CASE u # t BY <1>1, <1>3, <2>2 DEF Means, Backed, Steps
  <2> QED BY <2>1, <2>2
<1>5. Steps' /\ at'["trade"] = at["trade"] BY <1>1 DEF Backed, Steps, Tasks
<1>6. Clean' => Clean /\ "stale" \notin excuses' BY <1>1, <1>3 DEF Clean
<1>7. Clean' /\ at'["trade"] \notin {"add", "close"} => mem'.qty = db'.qty
  BY <1>1, <1>3, <1>5, <1>6 DEF Backed
<1> QED BY <1>1, <1>3, <1>4, <1>5, <1>7 DEF Backed

\* The trading path has no transaction.
TradeFree == DOMAIN tx = Tasks /\ tx["trade"] = NoTx

\* When it has ended one, the others' are saves, which depend on no row.
LEMMA TradeEnds ==
  ASSUME Backed, TradeFree', UNCHANGED entries, \A u \in Tasks \ {"trade"} : tx'[u] = tx[u],
         \E s \in {"idle", "save"} : at' = [at EXCEPT !["trade"] = s],
         DOMAIN db' = Fields, DOMAIN mem' = Fields,
         Clean' => mem'.qty = db'.qty
  PROVE  Backed'
<1>1. Steps' BY DEF Backed, Steps, Tasks
<1>2. ASSUME NEW u \in Tasks PROVE Means(u)'
  <2>1. CASE u = "trade" BY <2>1 DEF Means, TradeFree
  <2>2. CASE u # "trade" BY <2>2 DEF Means, Backed, Steps
  <2> QED BY <2>1, <2>2
<1> QED BY <1>1, <1>2 DEF Backed, TradeFree

LEMMA TradeSavedSteps ==
  ASSUME Backed, TradeSaved
  PROVE  Backed'
<1>1. /\ tx["trade"] # NoTx /\ db' = Committed(tx["trade"])
      /\ Excuse("stale", Overtaken(tx["trade"]))
      /\ TradeFree' /\ (\A u \in Tasks \ {"trade"} : tx'[u] = tx[u]) /\ UNCHANGED entries
      /\ \E s \in {"idle", "save"} : at' = [at EXCEPT !["trade"] = s]
      /\ "trade" \in Tasks
  BY DEF TradeSaved, Commit, Goto, counts, Tasks, TradeFree, Backed
<1>2. DOMAIN mem' = Fields /\ mem'.qty = mem.qty /\ mem'.halt = mem.halt
  BY DEF TradeSaved, Backed, Fields, Columns
<1>3. at["trade"] \in {"add", "close", "save"} BY <1>1 DEF Backed, Means
<1>4. CASE at["trade"] \in {"add", "close"}
  BY <1>1, <1>2, <1>4, BookingWrites, TradeEnds
<1>5. CASE at["trade"] = "save"
  <2>1. /\ DOMAIN db' = Fields /\ excuses \subseteq excuses'
        /\ db.qty = mem.qty /\ "stale" \notin excuses' => db'.qty = mem.qty
    BY <1>1, <1>5, SaveCommits
  <2>2. Clean' => Clean /\ "stale" \notin excuses' BY <1>2, <2>1 DEF Clean
  <2>3. Clean' => mem'.qty = db'.qty BY <1>2, <1>5, <2>1, <2>2 DEF Backed
  <2> QED BY <1>1, <1>2, <2>1, <2>3, TradeEnds
<1> QED BY <1>3, <1>4, <1>5

\* A failure halts.
LEMMA TradeFailsSteps ==
  ASSUME Backed, TradeFails
  PROVE  Backed'
<1>1. /\ at' = [at EXCEPT !["trade"] = "idle"] /\ UNCHANGED entries
      /\ mem' = [mem EXCEPT !.halt = TRUE]
  BY DEF TradeFails, Unsaved, Fail, Trouble, Goto, counts
<1>2. DOMAIN mem' = Fields /\ ~Clean' BY <1>1 DEF Backed, Fields, Columns, Clean
<1>3. TradeFree' /\ \A u \in Tasks \ {"trade"} : tx'[u] = tx[u]
  <2>1. CASE Fail("trade") BY <2>1 DEF Fail, Backed, TradeFree, Tasks
  <2>2. CASE tx["trade"] = NoTx /\ UNCHANGED tx BY <2>2 DEF Backed, TradeFree
  <2> QED BY <2>1, <2>2 DEF TradeFails, At
<1>4. DOMAIN db' = Fields
  <2>1. CASE tx["trade"] # NoTx /\ db' = Committed(tx["trade"])
    <3>1. DOMAIN tx["trade"].set \subseteq Columns /\ DOMAIN db = Fields
      BY <2>1 DEF Backed, Means, Tasks
    <3> QED BY <2>1, <3>1, CommittedRow
  <2>2. CASE UNCHANGED db BY <2>2 DEF Backed
  <2> QED BY <2>1, <2>2 DEF TradeFails, Fail
<1> QED BY <1>1, <1>2, <1>3, <1>4, TradeEnds

LEMMA CrashSteps ==
  ASSUME Backed, Crash
  PROVE  Backed'
<1>1. /\ mem' = db /\ db' = db /\ UNCHANGED entries
      /\ at' = [t \in Tasks |-> "idle"] /\ tx' = [t \in Tasks |-> NoTx]
  BY DEF Crash, Trouble
<1>2. Steps' BY <1>1 DEF Backed, Steps, Tasks
<1>3. \A u \in Tasks : Means(u)' BY <1>1 DEF Means
<1> QED BY <1>1, <1>2, <1>3 DEF Backed

\* The calendar and Redis.
LEMMA StillSteps ==
  ASSUME Backed, UNCHANGED <<mem, db, at, tx, entries>>, excuses \subseteq excuses'
  PROVE  Backed'
<1>1. Clean' => Clean BY DEF Clean
<1> QED BY <1>1 DEF Backed, Steps, Means

LEMMA InitBacked == Init => Backed
<1> SUFFICES ASSUME Init PROVE Backed OBVIOUS
<1>1. /\ at = [t \in Tasks |-> "idle"] /\ tx = [t \in Tasks |-> NoTx] /\ db = mem /\ entries = 0
      /\ DOMAIN mem = Fields
  BY DEF Init, Fields, Columns
<1>2. Steps BY <1>1 DEF Steps, Tasks
<1>3. \A t \in Tasks : Means(t) BY <1>1 DEF Means
<1> QED BY <1>1, <1>2, <1>3 DEF Backed

LEMMA NextBacked == Backed /\ [Next]_vars => Backed'
<1> SUFFICES ASSUME Backed, [Next]_vars PROVE Backed' OBVIOUS
<1>1. CASE Turn \/ Blink \/ UNCHANGED vars
  BY <1>1, StillSteps DEF Turn, Blink, vars, counts, Trouble, Excuse
<1> QED
  BY <1>1, TradeSteps, OtherSteps, SavesSteps, PersistedSteps, TradeSavedSteps, TradeFailsSteps,
     CrashSteps DEF Next

\* For every lot, price and number of troubles: unless the ledger is halted or an
\* operator has resumed over it, or a slower save has put an old quantity back,
\* what the trading path has booked is in the database when it pauses.
THEOREM BackedOrHaltedHolds == Spec => []BackedOrHalted
<1>1. Backed => BackedOrHalted BY DEF Backed, Clean, BackedOrHalted, Excused
<1> QED BY <1>1, InitBacked, NextBacked, PTL DEF Spec

-----------------------------------------------------------------------------
(* What the ledger has when it has the broker's position: Rows tells which  *)
(* quantities the memory, the row and the account can have, Writes what a   *)
(* save still open can do to the row.                                       *)

Pure == excuses \cap {"unlisted", "stale", "over"} = {}

\* The position in memory, once what the broker has done is booked.
Stake == IF at["trade"] = "exit" THEN mem.qty - booking.qty
         ELSE IF at["trade"] = "fill" THEN booking.qty ELSE mem.qty

Numbers ==
  /\ {broker.qty, booking.qty, mem.qty, mem.id, db.qty, db.id} \subseteq Nat
  /\ DOMAIN real = {"all", "today"} /\ real.all \in Int /\ real.today \in Int
  /\ at["trade"] = "exit" => booking.qty \in 1..mem.qty
  /\ at["trade"] = "fill" => mem.qty = 0 /\ booking.qty # 0
  /\ \A t \in Tasks : tx[t] # NoTx => tx[t].qty \in Nat /\ tx[t].id \in Nat

Rows ==
  /\ db.id = 0 <=> db.qty = 0
  /\ mem.qty = 0 => mem.id = 0
  /\ mem.id # 0 =>
       db.id = mem.id /\ mem.qty <= db.qty /\ broker.qty <= Stake /\ at["trade"] \notin {"fill", "add"}
  /\ mem.id = 0 =>
       at["trade"] # "exit" /\ (Stake = broker.qty \/ (mem.qty = 0 /\ db.id = 0))
  /\ db.id # 0 => broker.qty <= db.qty
  /\ at["trade"] \in {"fill", "add"} => db.id = 0 /\ Stake = broker.qty /\ Stake # 0

\* A save that will write its quantity: of a row still the same and open.
Live(x) == x # NoTx /\ x.kind = "save" /\ x.moved /\ x.id = db.id /\ x.id # 0

Writes ==
  /\ db.id <= entries
  /\ \A t \in Tasks : tx[t] # NoTx =>
       tx[t].id <= entries /\ (at["trade"] \in {"fill", "add"} => tx[t].id < entries)
  /\ \A t \in Tasks : Live(tx[t]) =>
       tx[t].qty # 0 /\ mem.qty <= tx[t].qty /\ broker.qty <= tx[t].qty /\ (mem.id = 0 => mem.qty = 0)

Held == Backed /\ Numbers /\ (Pure => Rows /\ Writes)

\* The steps that move no quantity.
LEMMA QuantitiesSame ==
  ASSUME Held, Backed', excuses \subseteq excuses',
         UNCHANGED <<broker, booking, mem.qty, mem.id, db, tx, entries, at["trade"]>>,
         DOMAIN real' = {"all", "today"}, real'.all \in Int, real'.today \in Int
  PROVE  Held'
<1>1. Stake' = Stake BY DEF Stake
<1>2. Numbers' BY DEF Held, Numbers
<1>3. Pure' => Rows' /\ Writes'
  <2> SUFFICES ASSUME Pure' PROVE Rows' /\ Writes' OBVIOUS
  <2>1. Rows /\ Writes BY DEF Held, Pure
  <2>2. Rows' BY <1>1, <2>1 DEF Rows
  <2>3. Writes' BY <2>1 DEF Writes, Live
  <2> QED BY <2>2, <2>3
<1> QED BY <1>2, <1>3 DEF Held

LEMMA BuyHeld ==
  ASSUME Held, Buy, Backed'
  PROVE  Held'
<1>1. PICK q \in 1..Lot : broker'.qty = q /\ booking'.qty = q
  BY DEF Buy
<1>2. q \in Nat /\ q # 0 BY LotAssumption
<1>3. /\ at["trade"] = "idle" /\ at'["trade"] = "fill" /\ mem.qty = 0 /\ mem.qty = broker.qty
      /\ UNCHANGED <<mem, db, tx, real>> /\ entries' = entries + 1 /\ entries \in Nat
      /\ excuses \subseteq excuses' /\ (db.qty # 0 => "over" \in excuses')
  BY DEF Buy, At, Goto, Gate, Excuse, Held, Backed, Steps, Tasks
<1>4. Numbers' BY <1>1, <1>2, <1>3 DEF Held, Numbers
<1>5. Pure' => Rows' /\ Writes'
  <2> SUFFICES ASSUME Pure' PROVE Rows' /\ Writes' OBVIOUS
  <2>1. Rows /\ Writes /\ db.qty = 0 BY <1>3 DEF Held, Pure
  <2>2. db.id = 0 /\ mem.id = 0 BY <1>3, <2>1 DEF Rows
  <2>3. Stake' = q BY <1>1, <1>3 DEF Stake
  <2>4. Rows' BY <1>1, <1>2, <1>3, <2>1, <2>2, <2>3 DEF Rows
  <2>5. Writes' BY <1>3, <2>1, <2>2 DEF Writes, Live, Held, Numbers
  <2> QED BY <2>4, <2>5
<1> QED BY <1>4, <1>5 DEF Held

LEMMA RecordFillHeld ==
  ASSUME Held, RecordFill, Backed'
  PROVE  Held'
<1>1. /\ at["trade"] = "fill" /\ at'["trade"] = "add"
      /\ mem'.qty = booking.qty /\ mem'.id = mem.id /\ booking'.qty = 0
      /\ UNCHANGED <<broker, db, tx, real, entries, excuses>>
  BY DEF RecordFill, At, Goto, Nothing, world, counts, Held, Backed, Steps, Tasks, Fields
<1>2. Numbers' BY <1>1 DEF Held, Numbers
<1>3. Pure' => Rows' /\ Writes'
  <2> SUFFICES ASSUME Pure' PROVE Rows' /\ Writes' OBVIOUS
  <2>1. Rows /\ Writes /\ mem.qty = 0 BY <1>1 DEF Held, Pure, Numbers
  <2>2. Stake' = Stake BY <1>1 DEF Stake
  <2>3. Rows' BY <1>1, <2>1, <2>2 DEF Rows, Stake
  <2>4. Writes' BY <1>1, <2>1 DEF Writes, Live, Rows
  <2> QED BY <2>3, <2>4
<1> QED BY <1>2, <1>3 DEF Held

\* What a sale earns, in all.
LEMMA EarnedInt ==
  ASSUME NEW q \in Int, NEW p \in ExitPrices
  PROVE  Earned(q, p) \in Int
<1>1. p \in Int /\ Entry \in Int /\ Fee \in Int BY PriceAssumption
<1>2. p - Entry - Fee \in Int BY <1>1
<1> HIDE <1>1
<1> QED BY <1>2 DEF Earned

LEMMA SellHeld ==
  ASSUME Held, Sell, Backed'
  PROVE  Held'
<1>1. PICK q \in 1..mem.qty, p \in ExitPrices :
        /\ q <= broker.qty /\ broker'.qty = broker.qty - q /\ booking'.qty = q
        /\ real' = [all |-> real.all + Earned(q, p), today |-> real.today + Earned(q, p)]
  BY DEF Sell
<1>2. /\ at["trade"] = "idle" /\ at'["trade"] = "exit"
      /\ UNCHANGED <<mem, db, tx, entries>>
      /\ excuses \subseteq excuses' /\ (mem.id = 0 => "unlisted" \in excuses')
  BY DEF Sell, At, Goto, counts, Held, Backed, Steps, Tasks
<1>3. {broker.qty, mem.qty} \subseteq Nat /\ q \in Nat BY DEF Held, Numbers
<1>4. Numbers' BY <1>1, <1>2, <1>3, EarnedInt DEF Held, Numbers
<1>5. Pure' => Rows' /\ Writes'
  <2> SUFFICES ASSUME Pure' PROVE Rows' /\ Writes' OBVIOUS
  <2>1. Rows /\ Writes /\ mem.id # 0 BY <1>2 DEF Held, Pure
  <2>2. Stake = mem.qty /\ Stake' = mem.qty - q BY <1>1, <1>2 DEF Stake
  <2>3. Rows' BY <1>1, <1>2, <1>3, <2>1, <2>2 DEF Rows, Held, Numbers
  <2>4. Writes' BY <1>1, <1>2, <1>3, <2>1 DEF Writes, Live, Held, Numbers
  <2> QED BY <2>3, <2>4
<1> QED BY <1>4, <1>5 DEF Held

LEMMA RecordExitHeld ==
  ASSUME Held, RecordExit, Backed'
  PROVE  Held'
<1>1. /\ at["trade"] = "exit" /\ at'["trade"] = "close" /\ booking'.qty = 0
      /\ mem'.qty = mem.qty - booking.qty
      /\ mem'.id = IF mem.qty = booking.qty THEN 0 ELSE mem.id
      /\ UNCHANGED <<broker, db, tx, real, entries, excuses>>
  BY DEF RecordExit, At, Goto, Nothing, world, counts, Held, Backed, Steps, Tasks, Fields, Columns
<1>2. {broker.qty, mem.qty, db.qty} \subseteq Nat /\ booking.qty \in 1..mem.qty
  BY <1>1 DEF Held, Numbers
<1>3. Numbers' BY <1>1, <1>2 DEF Held, Numbers
<1>4. Pure' => Rows' /\ Writes'
  <2> SUFFICES ASSUME Pure' PROVE Rows' /\ Writes' OBVIOUS
  <2>1. Rows /\ Writes /\ mem.id # 0 BY <1>1 DEF Held, Pure, Rows
  <2>2. Stake = mem.qty - booking.qty /\ Stake' = Stake BY <1>1 DEF Stake
  <2>3. Rows' BY <1>1, <1>2, <2>1, <2>2 DEF Rows
  <2>4. Writes' BY <1>1, <1>2, <2>1 DEF Writes, Live, Held, Numbers
  <2> QED BY <2>3, <2>4
<1> QED BY <1>3, <1>4 DEF Held

\* A transaction that begins copies the memory.
LEMMA SavesHeld ==
  ASSUME Held, NEW t \in Tasks, Saves(t), Backed'
  PROVE  Held'
<1>1. PICK kind \in {"add", "close", "save"} : at[t] = kind /\ Begin(t, kind)
  BY DEF Saves
<1>2. UNCHANGED <<broker, booking, real, mem, db, at, entries, excuses>> /\ tx[t] = NoTx
  BY <1>1 DEF Begin, world, counts
<1> DEFINE Set == [c \in {d \in Columns : mem[d] # db[d]} |-> mem[c]]
           moved == kind # "save" \/ (mem.id = db.id /\ mem.qty # db.qty)
           x == [kind |-> kind, id |-> db.id, qty |-> mem.qty, moved |-> moved, set |-> Set]
<1>3. tx' = [tx EXCEPT ![t] = x] /\ DOMAIN tx = Tasks BY <1>1 DEF Begin, Held, Backed
<1>4. moved => kind # "save" \/ mem.id = db.id OBVIOUS
<1> HIDE DEF Set, moved
<1>5. tx'[t] = x /\ \A u \in Tasks \ {t} : tx'[u] = tx[u] BY <1>3
<1>6. Numbers' BY <1>2, <1>5 DEF Held, Numbers
<1>7. Pure' => Rows' /\ Writes'
  <2> SUFFICES ASSUME Pure' PROVE Rows' /\ Writes' OBVIOUS
  <2>1. Rows /\ Writes BY <1>2 DEF Held, Pure
  <2>2. Stake' = Stake BY <1>2 DEF Stake
  <2>3. Rows' BY <1>2, <2>1, <2>2 DEF Rows
  <2>4. x.id <= entries /\ (at["trade"] \in {"fill", "add"} => x.id < entries)
    BY <2>1 DEF Rows, Writes, Held, Backed, Steps, Numbers
  <2>5. Live(x) => /\ x.qty # 0 /\ mem.qty <= x.qty /\ broker.qty <= x.qty
                   /\ (mem.id = 0 => mem.qty = 0)
    <3> SUFFICES ASSUME Live(x)
                 PROVE  mem.qty # 0 /\ broker.qty <= mem.qty /\ mem.id # 0
      BY DEF Held, Numbers
    <3>1. mem.id = db.id /\ mem.id # 0 BY <1>4 DEF Live
    <3>2. at["trade"] = "exit" => Stake = mem.qty - booking.qty BY DEF Stake
    <3>3. at["trade"] \notin {"fill", "exit"} => Stake = mem.qty BY DEF Stake
    <3> QED BY <2>1, <3>1, <3>2, <3>3 DEF Rows, Held, Numbers
  <2>6. Writes' BY <1>2, <1>5, <2>1, <2>4, <2>5 DEF Writes, Live
  <2> QED BY <2>3, <2>6
<1> QED BY <1>6, <1>7 DEF Held

\* A save leaves the row, and its quantity or the one it copied.
LEMMA SaveWrites ==
  ASSUME Numbers, NEW t \in Tasks, tx[t] # NoTx, tx[t].kind = "save",
         DOMAIN tx[t].set \subseteq Columns, DOMAIN db = Fields
  PROVE  /\ Committed(tx[t]).id = db.id
         /\ Committed(tx[t]).qty \in Nat
         /\ \/ Committed(tx[t]).qty = db.qty
            \/ Live(tx[t]) /\ Committed(tx[t]).qty = tx[t].qty
            \/ db.id = 0 /\ Committed(tx[t]).qty = 0
<1> DEFINE x == tx[t]
<1>1. RowOf(x) = db.id BY DEF RowOf
<1>2. Committed(x).qty = IF db.id = 0 THEN 0 ELSE QtyOf(x) BY <1>1, CommittedRow
<1>3. QtyOf(x) = db.qty \/ (x.moved /\ x.id = db.id /\ QtyOf(x) = x.qty) BY DEF QtyOf
<1> QED BY <1>1, <1>2, <1>3, CommittedRow DEF Live, Numbers

\* The end of a transaction that is a save, committed or not.
LEMMA SaveEndsHeld ==
  ASSUME Held, Backed', NEW t \in Tasks, tx[t] # NoTx, at[t] = "save",
         tx' = [tx EXCEPT ![t] = NoTx], excuses \subseteq excuses',
         db' = db \/ db' = Committed(tx[t]),
         UNCHANGED <<broker, booking, real, mem.qty, mem.id, entries>>,
         at'["trade"] = at["trade"] \/ (t = "trade" /\ at'["trade"] = "idle")
  PROVE  Held'
<1>1. /\ tx[t].kind = "save" /\ DOMAIN tx[t].set \subseteq Columns /\ DOMAIN db = Fields
      /\ DOMAIN tx = Tasks
  BY DEF Held, Backed, Means
<1>2. /\ db'.id = db.id /\ db'.qty \in Nat
      /\ \/ db'.qty = db.qty
         \/ Live(tx[t]) /\ db'.qty = tx[t].qty
         \/ db.id = 0 /\ db'.qty = 0
  BY <1>1, SaveWrites DEF Held, Numbers
<1>3. tx'[t] = NoTx /\ \A u \in Tasks \ {t} : tx'[u] = tx[u] BY <1>1
<1>4. at'["trade"] = at["trade"] \/ (at["trade"] = "save" /\ at'["trade"] = "idle") OBVIOUS
<1>5. Stake' = Stake BY <1>4 DEF Stake
<1>6. Numbers' BY <1>2, <1>3, <1>4 DEF Held, Numbers
<1>7. Pure' => Rows' /\ Writes'
  <2> SUFFICES ASSUME Pure' PROVE Rows' /\ Writes' OBVIOUS
  <2>1. Rows /\ Writes BY DEF Held, Pure
  <2>2. \/ db'.qty = db.qty
        \/ /\ db'.qty = tx[t].qty /\ tx[t].qty # 0 /\ db.id # 0
           /\ mem.qty <= tx[t].qty /\ broker.qty <= tx[t].qty
    BY <1>2, <2>1 DEF Writes, Live, Rows
  <2>3. Rows' BY <1>2, <1>4, <1>5, <2>1, <2>2 DEF Rows
  <2>4. Writes' BY <1>2, <1>3, <1>4, <2>1 DEF Writes, Live
  <2> QED BY <2>3, <2>4
<1> QED BY <1>6, <1>7 DEF Held

\* The end of an insert or a close: the row has the quantity of the memory.
LEMMA BookingEndsHeld ==
  ASSUME Held, Backed', tx["trade"] # NoTx, at["trade"] \in {"add", "close"},
         tx' = [tx EXCEPT !["trade"] = NoTx], excuses \subseteq excuses',
         db' = Committed(tx["trade"]), UNCHANGED <<broker, booking, real, mem.qty, entries>>,
         at'["trade"] \in {"idle", "save"},
         mem'.id = mem.id \/ (at["trade"] = "add" /\ mem'.id = entries)
  PROVE  Held'
<1> DEFINE x == tx["trade"]
<1>1. /\ x.kind = at["trade"] /\ x.qty = mem.qty /\ DOMAIN x.set \subseteq Columns
      /\ at["trade"] = "close" => db.id # 0 /\ x.id = db.id
      /\ at["trade"] = "add" => entries # 0
      /\ DOMAIN db = Fields /\ DOMAIN tx = Tasks /\ entries \in Nat
  BY DEF Held, Backed, Means, Steps, Tasks
<1>2. db'.qty = mem.qty BY BookingWrites DEF Held
<1>3. db'.id = RowOf(x) BY <1>1, CommittedRow
<1>4. /\ at["trade"] = "add" => db'.id = entries
      /\ at["trade"] = "close" => db'.id = IF mem.qty = 0 THEN 0 ELSE db.id
  BY <1>1, <1>3 DEF RowOf
<1>5. \A u \in Tasks : tx'[u] = NoTx \/ (u # "trade" /\ tx'[u] = tx[u]) BY <1>1
<1>6. Stake = mem.qty /\ Stake' = mem.qty BY DEF Stake
<1>7. Numbers' BY <1>1, <1>2, <1>4, <1>5 DEF Held, Numbers
<1>8. Pure' => Rows' /\ Writes'
  <2> SUFFICES ASSUME Pure' PROVE Rows' /\ Writes' OBVIOUS
  <2>1. Rows /\ Writes BY DEF Held, Pure
  <2>2. Rows' BY <1>1, <1>2, <1>4, <1>6, <2>1 DEF Rows, Held, Numbers
  <2>3. db'.id <= entries BY <1>1, <1>4, <2>1 DEF Writes
  <2>4. ASSUME NEW u \in Tasks, tx'[u] # NoTx PROVE tx'[u] = tx[u] /\ tx[u].id <= entries
    BY <1>5, <2>1, <2>4 DEF Writes
  <2>5. ASSUME NEW u \in Tasks, Live(tx[u])', tx'[u] # NoTx
        PROVE  Live(tx[u]) /\ at["trade"] = "close" /\ mem'.id = mem.id /\ tx'[u] = tx[u]
    <3>1. tx'[u] = tx[u] BY <2>4, <2>5
    <3>2. CASE at["trade"] = "add"
      <4>1. tx[u].id < entries BY <2>1, <3>1, <3>2, <2>5 DEF Writes
      <4>2. tx[u].id = entries BY <1>4, <2>5, <3>1, <3>2 DEF Live
      <4> QED BY <4>1, <4>2, <1>1
    <3>3. CASE at["trade"] = "close" BY <1>4, <2>5, <3>1, <3>3 DEF Live
    <3> QED BY <3>2, <3>3
  <2>6. \A u \in Tasks : Live(tx[u])' => tx'[u] # NoTx BY DEF Live
  <2>7. Writes'
    <3>1. \A u \in Tasks : Live(tx[u])' =>
            /\ tx'[u].qty # 0 /\ mem'.qty <= tx'[u].qty /\ broker'.qty <= tx'[u].qty
            /\ mem'.id = 0 => mem'.qty = 0
      BY <2>1, <2>5, <2>6 DEF Writes
    <3> QED BY <2>3, <2>4, <3>1 DEF Writes
  <2> QED BY <2>2, <2>7
<1> QED BY <1>7, <1>8 DEF Held

LEMMA TradeSavedHeld ==
  ASSUME Held, TradeSaved, Backed'
  PROVE  Held'
<1>1. /\ tx["trade"] # NoTx /\ db' = Committed(tx["trade"])
      /\ tx' = [tx EXCEPT !["trade"] = NoTx] /\ excuses \subseteq excuses'
      /\ UNCHANGED <<broker, booking, real, entries>>
      /\ at'["trade"] = IF at["trade"] = "save" THEN "idle" ELSE "save"
  BY DEF TradeSaved, Commit, Goto, Excuse, counts, world, Held, Backed, Steps, Tasks
<1>2. mem'.qty = mem.qty /\ mem'.id = IF at["trade"] = "add" THEN entries ELSE mem.id
  BY DEF TradeSaved, Held, Backed, Fields, Columns
<1>3. at["trade"] \in {"add", "close", "save"} /\ "trade" \in Tasks
  BY <1>1 DEF Held, Backed, Means, Tasks
<1>4. CASE at["trade"] = "save" BY <1>1, <1>2, <1>3, <1>4, SaveEndsHeld
<1>5. CASE at["trade"] \in {"add", "close"} BY <1>1, <1>2, <1>5, BookingEndsHeld
<1> QED BY <1>3, <1>4, <1>5

\* The trading path gives up: nothing was committed.
LEMMA GivesUpHeld ==
  ASSUME Held, Backed', at["trade"] \in {"add", "close", "save"}, at'["trade"] = "idle",
         \A u \in Tasks : tx'[u] \in {tx[u], NoTx}, excuses \subseteq excuses',
         UNCHANGED <<broker, booking, real, mem.qty, mem.id, db, entries>>
  PROVE  Held'
<1>1. Stake' = Stake BY DEF Stake
<1>2. Numbers' BY DEF Held, Numbers
<1>3. Pure' => Rows' /\ Writes'
  <2> SUFFICES ASSUME Pure' PROVE Rows' /\ Writes' OBVIOUS
  <2>1. Rows /\ Writes BY DEF Held, Pure
  <2>2. Rows' BY <1>1, <2>1 DEF Rows
  <2>3. Writes' BY <2>1 DEF Writes, Live
  <2> QED BY <2>2, <2>3
<1> QED BY <1>2, <1>3 DEF Held

LEMMA TradeFailsHeld ==
  ASSUME Held, TradeFails, Backed'
  PROVE  Held'
<1>1. /\ UNCHANGED <<broker, booking, real, entries, mem.qty, mem.id>> /\ at'["trade"] = "idle"
      /\ DOMAIN tx = Tasks /\ "trade" \in Tasks
  BY DEF TradeFails, Fail, Unsaved, Trouble, Goto, counts, world, Held, Backed, Steps, Tasks,
         Fields, Columns
<1>2. \/ UNCHANGED db /\ at["trade"] \in {"add", "close", "save"}
         /\ \A u \in Tasks : tx'[u] \in {tx[u], NoTx}
      \/ /\ tx["trade"] # NoTx /\ tx' = [tx EXCEPT !["trade"] = NoTx]
         /\ db' = Committed(tx["trade"])
  <2>1. CASE Fail("trade")
    <3>1. at["trade"] \in {"add", "close", "save"} BY <1>1, <2>1 DEF Fail, Held, Backed, Means
    <3> QED BY <1>1, <2>1, <3>1 DEF Fail
  <2>2. CASE at["trade"] = "close" /\ UNCHANGED <<db, tx>> BY <2>2
  <2> QED BY <2>1, <2>2 DEF TradeFails, At
<1>3. excuses \subseteq excuses' BY DEF TradeFails, Fail, Excuse
<1>4. CASE UNCHANGED db /\ at["trade"] \in {"add", "close", "save"}
           /\ \A u \in Tasks : tx'[u] \in {tx[u], NoTx}
  BY <1>1, <1>3, <1>4, GivesUpHeld
<1>5. CASE /\ tx["trade"] # NoTx /\ tx' = [tx EXCEPT !["trade"] = NoTx]
           /\ db' = Committed(tx["trade"])
  <2>1. at["trade"] \in {"add", "close", "save"} BY <1>1, <1>5 DEF Held, Backed, Means
  <2>2. CASE at["trade"] = "save" BY <1>1, <1>3, <1>5, <2>2, SaveEndsHeld
  <2>3. CASE at["trade"] \in {"add", "close"} BY <1>1, <1>3, <1>5, <2>3, BookingEndsHeld
  <2> QED BY <2>1, <2>2, <2>3
<1> QED BY <1>2, <1>4, <1>5

LEMMA PersistedHeld ==
  ASSUME Held, NEW t \in Tasks, Persisted(t), Backed'
  PROVE  Held'
<1>1. /\ t # "trade" /\ tx[t] # NoTx /\ tx' = [tx EXCEPT ![t] = NoTx]
      /\ UNCHANGED <<broker, booking, real, mem, entries>> /\ at'["trade"] = at["trade"]
      /\ db' = db \/ db' = Committed(tx[t])
      /\ excuses \subseteq excuses'
  BY DEF Persisted, Commit, Fail, Trouble, Goto, Excuse, counts, world, Held, Backed, Steps
<1>2. at[t] = "save" BY <1>1 DEF Held, Backed, Steps, Means
<1> QED BY <1>1, <1>2, SaveEndsHeld

\* After a crash the memory is the row.
LEMMA CrashHeld ==
  ASSUME Held, Crash, Backed'
  PROVE  Held'
<1>1. /\ mem' = db /\ at'["trade"] = "idle" /\ booking'.qty = 0 /\ \A t \in Tasks : tx'[t] = NoTx
      /\ UNCHANGED <<broker, real, db, entries>> /\ excuses \subseteq excuses'
  BY DEF Crash, Trouble, Nothing, world, Excuse, Tasks
<1>2. Numbers' BY <1>1 DEF Held, Numbers
<1>3. Pure' => Rows' /\ Writes'
  <2> SUFFICES ASSUME Pure' PROVE Rows' /\ Writes' OBVIOUS
  <2>1. Rows /\ Writes BY <1>1 DEF Held, Pure
  <2>2. Stake' = db.qty BY <1>1 DEF Stake
  <2>3. Rows' BY <1>1, <2>1, <2>2 DEF Rows, Held, Numbers
  <2>4. Writes' BY <1>1, <2>1 DEF Writes, Live
  <2> QED BY <2>3, <2>4
<1> QED BY <1>2, <1>3 DEF Held

LEMMA OthersHeld ==
  ASSUME Held, Backed',
         Reset \/ MarkReset \/ SyncRead \/ SyncWrite \/ Operate \/ Turn \/ Blink \/ UNCHANGED vars
  PROVE  Held'
<1>1. UNCHANGED <<broker, booking, mem.qty, mem.id, db, tx, entries>> /\ excuses \subseteq excuses'
  BY DEF Reset, MarkReset, SyncRead, SyncWrite, Operate, Turn, Blink, vars, world, counts, Trouble,
         Excuse, Held, Backed, Fields, Columns
<1>2. at'["trade"] = at["trade"]
  <2>1. CASE \E t \in {"control", "operator"}, s \in {"mark", "sync", "save"} : Goto(t, s)
    BY <2>1 DEF Goto, Held, Backed, Steps
  <2>2. CASE UNCHANGED at BY <2>2
  <2> QED BY <2>1, <2>2 DEF Reset, MarkReset, SyncRead, SyncWrite, Operate, Turn, Blink, vars
<1>3. DOMAIN real' = {"all", "today"} /\ real'.all \in Int /\ real'.today \in Int
  <2>1. CASE Turn BY <2>1 DEF Turn, Held, Numbers
  <2>2. CASE UNCHANGED real BY <2>2 DEF Held, Numbers
  <2> QED BY <2>1, <2>2 DEF Reset, MarkReset, SyncRead, SyncWrite, Operate, Blink, vars, world
<1> QED BY <1>1, <1>2, <1>3, QuantitiesSame

LEMMA InitHeld == Init => Held
<1> SUFFICES ASSUME Init PROVE Held OBVIOUS
<1>1. /\ mem.qty = 0 /\ mem.id = 0 /\ db = mem /\ broker.qty = 0 /\ booking.qty = 0 /\ entries = 0
      /\ at["trade"] = "idle" /\ (\A t \in Tasks : tx[t] = NoTx) /\ real = [all |-> 0, today |-> 0]
  BY DEF Init, Nothing, Tasks
<1>2. Numbers BY <1>1 DEF Numbers
<1>3. Rows BY <1>1 DEF Rows, Stake
<1>4. Writes BY <1>1 DEF Writes, Live
<1> QED BY <1>2, <1>3, <1>4, InitBacked DEF Held

LEMMA NextHeld == Held /\ [Next]_vars => Held'
<1> SUFFICES ASSUME Held, [Next]_vars PROVE Held' OBVIOUS
<1>1. Backed' BY NextBacked DEF Held
<1> QED
  BY <1>1, BuyHeld, RecordFillHeld, SellHeld, RecordExitHeld, TradeSavedHeld, TradeFailsHeld,
     SavesHeld, PersistedHeld, CrashHeld, OthersHeld DEF Next

-----------------------------------------------------------------------------
(* The columns of the row.  A save that would put an older value over the  *)
(* memory's is stale; every other leaves what was right.                   *)

\* What the commit of x leaves in column c.
Col(x, c) == IF c \in DOMAIN x.set THEN x.set[c] ELSE db[c]

LEMMA CommittedColumn ==
  ASSUME NEW x, NEW c \in Columns, DOMAIN db = Fields
  PROVE  Committed(x)[c] = Col(x, c)
<1> DEFINE Set == x.set
           G(d) == CASE d = "id" -> RowOf(x)
                     [] d = "qty" -> IF RowOf(x) = 0 THEN 0 ELSE QtyOf(x)
                     [] d \in DOMAIN Set -> Set[d]
                     [] OTHER -> db[d]
<1>1. Committed(x) = [d \in DOMAIN db |-> G(d)] BY DEF Committed, RowOf, QtyOf
<1>2. c # "id" /\ c # "qty" /\ c \in Fields BY DEF Columns, Fields
<1> HIDE DEF Set
<1>3. G(c) = IF c \in DOMAIN Set THEN Set[c] ELSE db[c] BY <1>2
<1> HIDE DEF G
<1>4. Committed(x)[c] = G(c) BY <1>1, <1>2
<1> QED BY <1>3, <1>4 DEF Col, Set

\* A column that is the memory's stays so, unless the commit is noted as stale.
LEMMA ColumnKept ==
  ASSUME NEW x, NEW c \in Columns, DOMAIN db = Fields, db[c] = mem[c],
         Excuse("stale", Overtaken(x)), "stale" \notin excuses'
  PROVE  Committed(x)[c] = db[c]
<1>1. c \in DOMAIN db \ {"id"} BY DEF Columns, Fields
<1>2. ~Overtaken(x) BY DEF Excuse
<1> QED BY <1>1, <1>2 DEF Overtaken

\* What a transaction copies when it begins.
LEMMA BeginCopies ==
  ASSUME NEW t \in Tasks, NEW kind, Begin(t, kind), NEW c \in Columns, DOMAIN tx = Tasks
  PROVE  Col(tx'[t], c) = mem[c]
<1> DEFINE Set == [d \in {e \in Columns : mem[e] # db[e]} |-> mem[d]]
           moved == kind # "save" \/ (mem.id = db.id /\ mem.qty # db.qty)
           x == [kind |-> kind, id |-> db.id, qty |-> mem.qty, moved |-> moved, set |-> Set]
<1>1. tx' = [tx EXCEPT ![t] = x] BY DEF Begin
<1>2. IF c \in DOMAIN Set THEN Set[c] = mem[c] ELSE db[c] = mem[c] OBVIOUS
<1> HIDE DEF Set, moved
<1>3. tx'[t].set = Set BY <1>1
<1> QED BY <1>2, <1>3 DEF Col

-----------------------------------------------------------------------------
(* Equity: the part of the invariant that is about what the sales earned.  *)

Due == Capital + real.all

\* A column of the memory, once what the broker has done is booked.
Booked(c) == IF at["trade"] = "exit" THEN mem[c] + Earned(booking.qty, booking.price) ELSE mem[c]

Earnings ==
  /\ Stake = broker.qty => Booked("equity") = Due
  /\ db.qty = broker.qty => db.equity = Due
  /\ \A t \in Tasks : Live(tx[t]) /\ tx[t].qty = broker.qty => Col(tx[t], "equity") = Due
  /\ tx["trade"] # NoTx /\ at["trade"] \in {"add", "close"} => Col(tx["trade"], "equity") = mem.equity

Earns == Held /\ (Pure => Earnings)

\* A row, or a save of it, that has the broker's quantity: so has the memory,
\* and nothing is left to be booked.
Matched == Stake = broker.qty /\ at["trade"] # "exit"
Matching ==
  /\ db.qty = broker.qty => Matched
  /\ \A t \in Tasks : Live(tx[t]) /\ tx[t].qty = broker.qty => Matched

LEMMA RowMatches == Held /\ Pure => Matching
<1> SUFFICES ASSUME Held, Pure PROVE Matching OBVIOUS
<1>1. Rows /\ Writes /\ Numbers BY DEF Held
<1>2. at["trade"] = "exit" =>
        Stake = mem.qty - booking.qty /\ booking.qty \in 1..mem.qty /\ mem.id # 0
  BY <1>1 DEF Stake, Numbers, Rows
<1>3. at["trade"] \notin {"exit", "fill"} => Stake = mem.qty BY DEF Stake
<1>4. db.qty = broker.qty => Stake = broker.qty /\ at["trade"] # "exit"
  BY <1>1, <1>2, <1>3 DEF Numbers, Rows
<1>5. ASSUME NEW t \in Tasks, Live(tx[t]), tx[t].qty = broker.qty
      PROVE  Stake = broker.qty /\ at["trade"] # "exit"
  <2>1. db.id # 0 /\ mem.qty <= broker.qty /\ broker.qty # 0 /\ (mem.id = 0 => mem.qty = 0)
    BY <1>1, <1>5 DEF Writes, Live
  <2> QED BY <1>1, <1>2, <1>3, <2>1 DEF Numbers, Rows
<1> QED BY <1>4, <1>5 DEF Matching, Matched

LEMMA SameEarns ==
  ASSUME Earns, Held', excuses \subseteq excuses', Stake' = Stake,
         Booked("equity")' = Booked("equity"),
         UNCHANGED <<broker.qty, real.all, db>>,
         \A u \in Tasks : tx'[u] \in {tx[u], NoTx},
         tx'["trade"] # NoTx /\ at'["trade"] \in {"add", "close"} =>
           at["trade"] \in {"add", "close"} /\ mem'.equity = mem.equity
  PROVE  Earns'
<1> SUFFICES ASSUME Pure' PROVE Earnings' BY DEF Earns
<1>1. Earnings BY DEF Earns, Pure
<1>2. \A u \in Tasks : Live(tx[u])' => Live(tx[u]) /\ tx'[u] = tx[u] BY DEF Live
<1>3. "trade" \in Tasks BY DEF Tasks
<1> QED BY <1>1, <1>2, <1>3 DEF Earnings, Due, Col

LEMMA SaveEndsEarns ==
  ASSUME Earns, Held', NEW t \in Tasks, tx[t] # NoTx, at[t] = "save",
         tx' = [tx EXCEPT ![t] = NoTx], db' = Committed(tx[t]), Excuse("stale", Overtaken(tx[t])),
         UNCHANGED <<broker, booking, real, mem.qty, mem.equity>>,
         at'["trade"] = at["trade"] \/ (t = "trade" /\ at'["trade"] = "idle")
  PROVE  Earns'
<1> SUFFICES ASSUME Pure' PROVE Earnings' BY DEF Earns
<1>1. Pure /\ Earnings /\ "stale" \notin excuses' BY DEF Earns, Pure, Excuse
<1>2. /\ tx[t].kind = "save" /\ DOMAIN tx[t].set \subseteq Columns /\ DOMAIN db = Fields
      /\ DOMAIN tx = Tasks /\ "equity" \in Columns
  BY DEF Earns, Held, Backed, Means, Columns
<1>3. /\ db'.id = db.id
      /\ db'.qty = db.qty \/ (Live(tx[t]) /\ db'.qty = tx[t].qty) \/ (db.id = 0 /\ db'.qty = 0)
  BY <1>2, SaveWrites DEF Earns, Held
<1>4. db.id = 0 => db.qty = 0 BY <1>1 DEF Earns, Held, Rows
<1>5. db'.equity = Col(tx[t], "equity") BY <1>2, CommittedColumn
<1>6. db.equity = mem.equity => db'.equity = db.equity BY <1>1, <1>2, ColumnKept
<1>7. \A u \in Tasks : tx'[u] = NoTx \/ (u # t /\ tx'[u] = tx[u]) BY <1>2
<1>8. Stake' = Stake /\ Booked("equity")' = Booked("equity") /\ Due' = Due
  BY DEF Stake, Booked, Due
<1>9. Stake = broker.qty /\ at["trade"] # "exit" => mem.equity = Due BY <1>1 DEF Earnings, Booked
<1>10. db'.qty = broker.qty => db'.equity = Due
  BY <1>1, <1>3, <1>4, <1>5, <1>6, <1>9, RowMatches DEF Matching, Matched, Earns, Earnings
<1>11. ASSUME NEW u \in Tasks, Live(tx[u])', tx'[u].qty = broker.qty
       PROVE  Col(tx[u], "equity")' = Due
  <2>1. tx'[u] = tx[u] /\ Live(tx[u]) BY <1>3, <1>7, <1>11 DEF Live
  <2>2. mem.equity = Due /\ Col(tx[u], "equity") = Due
    BY <1>1, <1>9, <1>11, <2>1, RowMatches DEF Matching, Matched, Earns, Earnings
  <2> QED BY <1>6, <2>1, <2>2 DEF Col
<1>12. tx'["trade"] # NoTx /\ at'["trade"] \in {"add", "close"} =>
         Col(tx["trade"], "equity")' = mem'.equity
  BY <1>1, <1>6, <1>7 DEF Earnings, Col, Tasks
<1> QED BY <1>1, <1>8, <1>10, <1>11, <1>12 DEF Earnings

LEMMA BookingEndsEarns ==
  ASSUME Earns, Held', tx["trade"] # NoTx, at["trade"] \in {"add", "close"},
         tx' = [tx EXCEPT !["trade"] = NoTx], excuses \subseteq excuses',
         db' = Committed(tx["trade"]), UNCHANGED <<broker, booking, real, mem.qty, mem.equity>>,
         at'["trade"] \in {"idle", "save"}
  PROVE  Earns'
<1> SUFFICES ASSUME Pure' PROVE Earnings' BY DEF Earns
<1>1. Pure /\ Earnings BY DEF Earns, Pure
<1>2. DOMAIN db = Fields /\ DOMAIN tx = Tasks /\ "equity" \in Columns
  BY DEF Earns, Held, Backed, Columns
<1>3. db'.qty = mem.qty BY BookingWrites DEF Earns, Held
<1>4. db'.equity = mem.equity BY <1>1, <1>2, CommittedColumn DEF Earnings
<1>5. Stake = mem.qty /\ Stake' = mem.qty /\ Booked("equity")' = mem.equity /\ Due' = Due
      /\ Booked("equity") = mem.equity
  BY DEF Stake, Booked, Due
<1>6. Stake = broker.qty => mem.equity = Due BY <1>1, <1>5 DEF Earnings
<1>7. ASSUME NEW u \in Tasks, Live(tx[u])', tx'[u].qty = broker.qty
      PROVE  Col(tx[u], "equity")' = Due
  <2>1. tx'[u] = tx[u] /\ u # "trade" BY <1>2, <1>7 DEF Live
  <2>2. db'.id = db.id /\ Live(tx[u])
    <3>1. db'.id = RowOf(tx["trade"]) /\ tx["trade"].kind = at["trade"]
      BY <1>2, CommittedRow DEF Earns, Held, Backed, Means, Tasks
    <3>2. at["trade"] # "add"
      <4>1. at["trade"] = "add" => db'.id = entries /\ tx[u].id < entries
        BY <1>1, <1>7, <2>1, <3>1 DEF RowOf, Earns, Held, Writes, Live
      <4> QED BY <1>7, <2>1, <4>1 DEF Live, Earns, Held, Backed, Steps
    <3>3. db'.id \in {0, db.id} BY <3>1, <3>2 DEF RowOf
    <3> QED BY <1>7, <2>1, <3>3 DEF Live
  <2>3. mem.equity = Due /\ Col(tx[u], "equity") = Due
    BY <1>1, <1>6, <1>7, <2>1, <2>2, RowMatches DEF Matching, Matched, Earns, Earnings
  <2> QED BY <1>4, <2>1, <2>3 DEF Col
<1>8. tx'["trade"] = NoTx BY <1>2 DEF Tasks
<1> QED BY <1>3, <1>4, <1>5, <1>6, <1>7, <1>8 DEF Earnings

\* A purchase and its booking: the row is closed meanwhile.
LEMMA FillEarns ==
  ASSUME Earns, Held', Buy \/ RecordFill
  PROVE  Earns'
<1>1. /\ excuses \subseteq excuses' /\ tx["trade"] = NoTx
      /\ UNCHANGED <<real, db, tx, mem.equity>>
      /\ at'["trade"] \in {"fill", "add"} /\ at["trade"] \in {"idle", "fill"}
      /\ at["trade"] = "idle" => mem.qty = broker.qty
      /\ at["trade"] = "fill" => UNCHANGED broker
  BY DEF Buy, RecordFill, At, Gate, Goto, Excuse, counts, world, Earns, Held, Backed, Steps, Tasks,
         Fields, Columns
<1> SUFFICES ASSUME Pure' PROVE Earnings' BY DEF Earns
<1>2. Earnings /\ Rows /\ Rows' BY <1>1 DEF Earns, Held, Pure
<1>3. Stake = broker.qty BY <1>1, <1>2 DEF Rows, Stake
<1>4. mem'.equity = Due' BY <1>1, <1>2, <1>3 DEF Earnings, Booked, Due
<1>5. db'.id = 0 /\ db'.qty # broker'.qty BY <1>1, <1>2 DEF Rows
<1>6. \A u \in Tasks : ~Live(tx[u])' BY <1>5 DEF Live
<1> QED BY <1>1, <1>4, <1>5, <1>6 DEF Earnings, Booked

LEMMA SellEarns ==
  ASSUME Earns, Held', Sell
  PROVE  Earns'
<1>1. PICK q \in 1..mem.qty, p \in ExitPrices :
        /\ q <= broker.qty /\ broker'.qty = broker.qty - q
        /\ booking'.qty = q /\ booking'.price = p
        /\ real'.all = real.all + Earned(q, p)
  BY DEF Sell
<1>2. /\ at["trade"] = "idle" /\ at'["trade"] = "exit" /\ tx["trade"] = NoTx
      /\ UNCHANGED <<mem, db, tx>>
      /\ excuses \subseteq excuses' /\ (mem.id = 0 => "unlisted" \in excuses')
  BY DEF Sell, At, Goto, Earns, Held, Backed, Steps, Tasks
<1> SUFFICES ASSUME Pure' PROVE Earnings' BY DEF Earns
<1>3. Earnings /\ Rows /\ Writes /\ mem.id # 0 /\ Numbers BY <1>2 DEF Earns, Held, Pure
<1>4. {broker.qty, mem.qty, db.qty} \subseteq Nat /\ q \in Nat /\ q # 0 BY <1>3 DEF Numbers
<1>5. Stake = mem.qty /\ Stake' = mem.qty - q BY <1>1, <1>2 DEF Stake
<1>6. Stake' = broker'.qty => Booked("equity")' = Due'
  <2> SUFFICES ASSUME Stake' = broker'.qty PROVE Booked("equity")' = Due' OBVIOUS
  <2>1. Stake = broker.qty BY <1>1, <1>4, <1>5
  <2>2. mem.equity = Due BY <1>2, <1>3, <2>1 DEF Earnings, Booked
  <2>3. Booked("equity")' = Due + Earned(q, p) BY <1>1, <1>2, <2>2 DEF Booked, Earned
  <2>4. Capital \in Int /\ Earned(q, p) \in Int /\ real.all \in Int
    BY <1>3, <1>4, PriceAssumption, EarnedInt DEF Numbers
  <2>5. Due' = Capital + (real.all + Earned(q, p)) BY <1>1 DEF Due
  <2> HIDE <1>1
  <2> QED BY <2>3, <2>4, <2>5 DEF Due
<1>7. db'.qty # broker'.qty BY <1>1, <1>2, <1>3, <1>4, <1>5 DEF Rows
<1>8. ASSUME NEW u \in Tasks, Live(tx[u])' PROVE tx'[u].qty # broker'.qty
  <2>1. Live(tx[u]) BY <1>2, <1>8 DEF Live
  <2>2. broker.qty <= tx[u].qty /\ tx[u].qty \in Nat BY <1>3, <2>1 DEF Writes, Numbers, Live
  <2> QED BY <1>1, <1>2, <1>4, <2>2
<1> QED BY <1>2, <1>6, <1>7, <1>8 DEF Earnings

LEMMA RecordExitEarns ==
  ASSUME Earns, Held', RecordExit
  PROVE  Earns'
<1>1. /\ at["trade"] = "exit" /\ at'["trade"] = "close" /\ tx["trade"] = NoTx
      /\ mem'.qty = mem.qty - booking.qty
      /\ mem'.equity = mem.equity + Earned(booking.qty, booking.price)
      /\ UNCHANGED <<broker, db, tx, real, excuses>>
  BY DEF RecordExit, At, Goto, world, Earns, Held, Backed, Steps, Tasks, Fields, Columns
<1>2. Stake' = Stake /\ Booked("equity")' = Booked("equity") BY <1>1 DEF Stake, Booked
<1> QED BY <1>1, <1>2, SameEarns

\* What a transaction that begins copies is what the sales have earned, if it
\* copies the broker's quantity.
LEMMA SavesEarns ==
  ASSUME Earns, Held', NEW t \in Tasks, Saves(t)
  PROVE  Earns'
<1>1. PICK kind \in {"add", "close", "save"} : at[t] = kind /\ Begin(t, kind)
  BY DEF Saves
<1>2. UNCHANGED <<broker, booking, real, mem, db, at, entries, excuses>>
      /\ DOMAIN tx = Tasks /\ "equity" \in Columns
  BY <1>1 DEF Begin, world, counts, Earns, Held, Backed, Columns
<1>3. \A u \in Tasks \ {t} : tx'[u] = tx[u] BY <1>1, <1>2 DEF Begin
<1>4. Col(tx'[t], "equity") = mem.equity BY <1>1, <1>2, BeginCopies
<1> SUFFICES ASSUME Pure' PROVE Earnings' BY DEF Earns
<1>5. Earnings BY <1>2 DEF Earns, Pure
<1>6. Stake' = Stake /\ Booked("equity")' = Booked("equity") /\ Due' = Due
  BY <1>2 DEF Stake, Booked, Due
<1>7. \A u \in Tasks : Col(tx[u], "equity")' = Col(tx'[u], "equity") BY <1>2 DEF Col
<1>8. ASSUME NEW u \in Tasks, Live(tx[u])', tx'[u].qty = broker.qty
      PROVE  Col(tx'[u], "equity") = Due
  <2>1. CASE u = t
    <3>1. Matching' BY RowMatches, PTL DEF Earns
    <3>2. Stake' = broker'.qty /\ at'["trade"] # "exit" BY <1>2, <1>8, <3>1 DEF Matching, Matched
    <3> QED BY <1>2, <1>4, <1>5, <1>6, <2>1, <3>2 DEF Earnings, Booked
  <2>2. CASE u # t BY <1>2, <1>3, <1>5, <1>8, <2>2 DEF Earnings, Live
  <2> QED BY <2>1, <2>2
<1>9. tx'["trade"] # NoTx /\ at'["trade"] \in {"add", "close"} =>
        Col(tx'["trade"], "equity") = mem.equity
  BY <1>2, <1>3, <1>4, <1>5 DEF Earnings, Tasks
<1> QED BY <1>2, <1>5, <1>6, <1>7, <1>8, <1>9 DEF Earnings, Tasks

LEMMA TradeSavedEarns ==
  ASSUME Earns, Held', TradeSaved
  PROVE  Earns'
<1>1. /\ tx["trade"] # NoTx /\ db' = Committed(tx["trade"])
      /\ Excuse("stale", Overtaken(tx["trade"])) /\ excuses \subseteq excuses'
      /\ tx' = [tx EXCEPT !["trade"] = NoTx] /\ UNCHANGED <<broker, booking, real>>
      /\ at'["trade"] = IF at["trade"] = "save" THEN "idle" ELSE "save"
  BY DEF TradeSaved, Commit, Goto, Excuse, world, Earns, Held, Backed, Steps, Tasks
<1>2. mem'.qty = mem.qty /\ mem'.equity = mem.equity
  BY DEF TradeSaved, Earns, Held, Backed, Fields, Columns
<1>3. at["trade"] \in {"add", "close", "save"} /\ "trade" \in Tasks
  BY <1>1 DEF Earns, Held, Backed, Means, Tasks
<1>4. CASE at["trade"] = "save" BY <1>1, <1>2, <1>3, <1>4, SaveEndsEarns
<1>5. CASE at["trade"] \in {"add", "close"} BY <1>1, <1>2, <1>5, BookingEndsEarns
<1> QED BY <1>3, <1>4, <1>5

LEMMA TradeFailsEarns ==
  ASSUME Earns, Held', TradeFails
  PROVE  Earns'
<1>1. /\ UNCHANGED <<broker, booking, real, mem.qty, mem.equity>> /\ at'["trade"] = "idle"
      /\ DOMAIN tx = Tasks /\ "trade" \in Tasks
  BY DEF TradeFails, Fail, Unsaved, Trouble, Goto, world, Earns, Held, Backed, Steps, Tasks,
         Fields, Columns
<1>2. at["trade"] \in {"add", "close", "save"}
  BY <1>1 DEF TradeFails, Fail, At, Earns, Held, Backed, Means
<1>3. CASE UNCHANGED <<db, excuses>> /\ \A u \in Tasks : tx'[u] \in {tx[u], NoTx}
  <2>1. Stake' = Stake /\ Booked("equity")' = Booked("equity") BY <1>1, <1>2 DEF Stake, Booked
  <2> QED BY <1>1, <1>3, <2>1, SameEarns
<1>4. CASE /\ tx["trade"] # NoTx /\ tx' = [tx EXCEPT !["trade"] = NoTx]
           /\ db' = Committed(tx["trade"]) /\ Excuse("stale", Overtaken(tx["trade"]))
  <2>1. excuses \subseteq excuses' BY <1>4 DEF Excuse
  <2>2. CASE at["trade"] = "save" BY <1>1, <1>4, <2>2, SaveEndsEarns
  <2>3. CASE at["trade"] \in {"add", "close"} BY <1>1, <1>4, <2>1, <2>3, BookingEndsEarns
  <2> QED BY <1>2, <2>2, <2>3
<1>5. CASE Fail("trade") BY <1>1, <1>3, <1>4, <1>5 DEF Fail
<1>6. CASE UNCHANGED <<db, tx, excuses>> BY <1>3, <1>6
<1> QED BY <1>5, <1>6 DEF TradeFails

LEMMA PersistedEarns ==
  ASSUME Earns, Held', NEW t \in Tasks, Persisted(t)
  PROVE  Earns'
<1>1. /\ t # "trade" /\ tx[t] # NoTx /\ tx' = [tx EXCEPT ![t] = NoTx]
      /\ UNCHANGED <<broker, booking, real, mem>> /\ at'["trade"] = at["trade"]
      /\ \/ UNCHANGED <<db, excuses>>
         \/ db' = Committed(tx[t]) /\ Excuse("stale", Overtaken(tx[t]))
  BY DEF Persisted, Commit, Fail, Goto, world, Earns, Held, Backed, Steps
<1>2. at[t] = "save" BY <1>1 DEF Earns, Held, Backed, Steps, Means
<1>3. CASE UNCHANGED <<db, excuses>>
  <2>1. Stake' = Stake /\ Booked("equity")' = Booked("equity") BY <1>1 DEF Stake, Booked
  <2>2. \A u \in Tasks : tx'[u] \in {tx[u], NoTx} BY <1>1 DEF Earns, Held, Backed
  <2> QED BY <1>1, <1>3, <2>1, <2>2, SameEarns
<1>4. CASE db' = Committed(tx[t]) /\ Excuse("stale", Overtaken(tx[t]))
  BY <1>1, <1>2, <1>4, SaveEndsEarns
<1> QED BY <1>1, <1>3, <1>4

LEMMA CrashEarns ==
  ASSUME Earns, Held', Crash
  PROVE  Earns'
<1>1. /\ mem' = db /\ at'["trade"] = "idle" /\ \A t \in Tasks : tx'[t] = NoTx
      /\ UNCHANGED <<broker, real, db>> /\ excuses \subseteq excuses' /\ "trade" \in Tasks
  BY DEF Crash, world, Excuse, Tasks
<1> SUFFICES ASSUME Pure' PROVE Earnings' BY DEF Earns
<1>2. Earnings BY <1>1 DEF Earns, Pure
<1>3. Stake' = db.qty BY <1>1 DEF Stake
<1> QED BY <1>1, <1>2, <1>3 DEF Earnings, Booked, Due, Live

LEMMA OthersEarns ==
  ASSUME Earns, Held',
         Reset \/ MarkReset \/ SyncRead \/ SyncWrite \/ Operate \/ Turn \/ Blink \/ UNCHANGED vars
  PROVE  Earns'
<1>1. /\ UNCHANGED <<broker, booking, mem.qty, mem.equity, db, tx>> /\ excuses \subseteq excuses'
  BY DEF Reset, MarkReset, SyncRead, SyncWrite, Operate, Turn, Blink, vars, world,
         Excuse, Earns, Held, Backed, Fields, Columns
<1>2. at'["trade"] = at["trade"]
  <2>1. CASE \E t \in {"control", "operator"}, s \in {"mark", "sync", "save"} : Goto(t, s)
    BY <2>1 DEF Goto, Earns, Held, Backed, Steps
  <2>2. CASE UNCHANGED at BY <2>2
  <2> QED BY <2>1, <2>2 DEF Reset, MarkReset, SyncRead, SyncWrite, Operate, Turn, Blink, vars
<1>3. real'.all = real.all
  <2>1. CASE Turn BY <2>1 DEF Turn, Earns, Held, Numbers
  <2>2. CASE UNCHANGED real BY <2>2
  <2> QED BY <2>1, <2>2 DEF Reset, MarkReset, SyncRead, SyncWrite, Operate, Blink, vars, world
<1>4. Stake' = Stake /\ Booked("equity")' = Booked("equity") BY <1>1, <1>2 DEF Stake, Booked
<1> QED BY <1>1, <1>2, <1>3, <1>4, SameEarns

LEMMA InitEarns == Init => Earns
<1> SUFFICES ASSUME Init PROVE Earns OBVIOUS
<1>1. /\ mem.qty = 0 /\ db = mem /\ mem.equity = Capital /\ at["trade"] = "idle"
      /\ \A t \in Tasks : tx[t] = NoTx /\ "trade" \in Tasks /\ real.all = 0
  BY DEF Init, Tasks
<1>2. Due = Capital /\ "trade" \in Tasks BY <1>1, PriceAssumption DEF Due, Tasks
<1> QED BY <1>1, <1>2, InitHeld DEF Earns, Earnings, Booked, Live

LEMMA NextEarns == Earns /\ [Next]_vars => Earns'
<1> SUFFICES ASSUME Earns, [Next]_vars PROVE Earns' OBVIOUS
<1>1. Held' BY NextHeld DEF Earns
<1> QED
  BY <1>1, FillEarns, SellEarns, RecordExitEarns, TradeSavedEarns, TradeFailsEarns, SavesEarns,
     PersistedEarns, CrashEarns, OthersEarns DEF Next

\* For every lot, capital and price: whatever crashes, fails or overlaps, when the
\* ledger has the broker's position it has what the sales have earned, unless
\* excused: the invariant follows the equity through the saves still open.
THEOREM EquityTrueHolds == Spec => []EquityTrue
<1>1. Earns => EquityTrue
  <2> SUFFICES ASSUME Earns, Settled, Pure PROVE mem.equity = Capital + real.all
    BY DEF EquityTrue, Excused, Pure
  <2> QED BY DEF Earns, Earnings, Settled, Stake, Booked, Due
<1> QED BY <1>1, InitEarns, NextEarns, PTL DEF Spec

-----------------------------------------------------------------------------
\* What the account is worth is what the sales have earned.
Worth ==
  /\ broker.cash \in Int /\ broker.qty \in Nat /\ real.all \in Int
  /\ broker.cash + broker.qty * Entry = Capital + real.all

\* Buying q units changes nothing, selling them adds what they earn.
LEMMA Traded ==
  ASSUME NEW c \in Int, NEW b \in Int, NEW q \in Int, NEW e \in Int, NEW p \in Int, NEW f \in Int
  PROVE  /\ (c - q * e) + q * e = c
         /\ (c + q * (p - f)) + (b - q) * e = (c + b * e) + q * (p - e - f)
<1>1. q * e \in Int /\ b * e \in Int /\ q * p \in Int /\ q * f \in Int OBVIOUS
<1>2. q * (p - f) = q * p - q * f OBVIOUS
<1>3. (b - q) * e = b * e - q * e OBVIOUS
<1>4. q * (p - e - f) = q * p - q * e - q * f OBVIOUS
<1> QED BY <1>1, <1>2, <1>3, <1>4

LEMMA WorthSteps ==
  ASSUME Held, Held', Worth, [Next]_vars
  PROVE  Worth'
<1>0. {Capital, Entry, Fee} \subseteq Int /\ ExitPrices \subseteq Int BY PriceAssumption
<1>1. CASE Buy
  <2>1. PICK q \in 1..Lot :
          broker' = [cash |-> broker.cash - q * Entry, qty |-> q] /\ q * Entry <= broker.cash
    BY <1>1 DEF Buy
  <2>2. broker.qty = 0 /\ UNCHANGED real /\ q \in Int BY <1>1, LotAssumption DEF Buy, Gate, world
  <2>3. broker.cash + broker.qty * Entry = broker.cash
    <3>1. 0 * Entry = 0 /\ Entry \in Int BY <1>0
    <3> QED BY <2>2, <3>1 DEF Worth
  <2>4. q * Entry \in Int BY <1>0, <2>2
  <2>5. broker'.cash + broker'.qty * Entry = broker.cash BY <1>0, <2>1, <2>2, Traded DEF Worth
  <2>6. broker'.cash \in Int /\ broker'.qty \in Nat BY <2>1, <2>4, LotAssumption DEF Worth
  <2> QED BY <2>2, <2>3, <2>5, <2>6 DEF Worth
<1>2. CASE Sell
  <2>1. PICK q \in 1..mem.qty, p \in ExitPrices :
          /\ q <= broker.qty
          /\ broker' = [cash |-> broker.cash + q * (p - Fee), qty |-> broker.qty - q]
          /\ real'.all = real.all + Earned(q, p)
    BY <1>2 DEF Sell
  <2>2. q \in Nat /\ p \in Int /\ q * (p - Fee) \in Int /\ broker.qty \in Nat
    BY <1>0, <2>1 DEF Held, Numbers
  <2>3. Earned(q, p) = q * (p - Entry - Fee) /\ Earned(q, p) \in Int BY <2>2, EarnedInt DEF Earned
  <2>4. broker'.cash + broker'.qty * Entry = (broker.cash + broker.qty * Entry) + Earned(q, p)
    BY <1>0, <2>1, <2>2, <2>3, Traded DEF Worth
  <2>5. broker'.cash \in Int /\ broker'.qty \in Nat /\ real'.all \in Int
    BY <2>1, <2>2, <2>3 DEF Worth
  <2>6. (Capital + real.all) + Earned(q, p) = Capital + (real.all + Earned(q, p))
    BY <1>0, <2>3 DEF Worth
  <2> QED BY <2>1, <2>4, <2>5, <2>6 DEF Worth
<1>3. CASE ~Buy /\ ~Sell
  <2>1. broker' = broker /\ real'.all = real.all
    <3>1. CASE Turn BY <3>1 DEF Turn, Held, Numbers
    <3>2. CASE RecordFill \/ RecordExit \/ TradeSaved \/ TradeFails
      BY <3>2 DEF RecordFill, RecordExit, TradeSaved, TradeFails, Unsaved, world
    <3>3. CASE Reset \/ MarkReset \/ SyncRead \/ SyncWrite \/ Operate \/ Blink \/ Crash
      BY <3>3 DEF Reset, MarkReset, SyncRead, SyncWrite, Operate, Blink, Crash, world
    <3>4. ASSUME NEW t \in Tasks, Saves(t) \/ Persisted(t) PROVE broker' = broker /\ real' = real
      BY <3>4 DEF Saves, Begin, Persisted, world
    <3>5. CASE UNCHANGED vars BY <3>5 DEF vars, world
    <3> QED BY <1>3, <3>1, <3>2, <3>3, <3>4, <3>5 DEF Next
  <2> QED BY <2>1 DEF Worth
<1> QED BY <1>1, <1>2, <1>3

\* For every lot and price: the capital that risk is measured against is not
\* more than the account is worth, which is what EquityTrue says of the equity.
THEOREM BasisBackedHolds == Spec => []BasisBacked
<1>1. Init => Worth
  <2> SUFFICES ASSUME Init PROVE Worth OBVIOUS
  <2>1. broker.cash = Capital /\ broker.qty = 0 /\ real.all = 0 BY DEF Init
  <2>2. Capital \in Int /\ Entry \in Int BY PriceAssumption
  <2>3. Capital + 0 * Entry = Capital + 0 BY <2>2
  <2> QED BY <2>1, <2>2, <2>3 DEF Worth
<1>2. Earns /\ Worth /\ [Next]_vars => (Earns /\ Worth)'
  BY NextEarns, NextHeld, WorthSteps DEF Earns
<1>3. Earns /\ Worth => BasisBacked
  <2> SUFFICES ASSUME Earns, Worth, Settled, Pure
               PROVE  mem.equity <= broker.cash + broker.qty * Entry
    BY DEF BasisBacked, Excused, Pure
  <2>1. mem.equity = Capital + real.all
    BY DEF Earns, Earnings, Settled, Stake, Booked, Due
  <2>2. Capital \in Int BY PriceAssumption
  <2>3. Capital + real.all \in Int BY <2>2 DEF Worth
  <2> QED BY <2>1, <2>3 DEF Worth
<1> QED BY <1>1, <1>2, <1>3, InitEarns, PTL DEF Spec

-----------------------------------------------------------------------------
(* The day's loss: as the equity, from the day's reset on.                 *)

Punctual == excuses \cap {"unlisted", "stale", "over", "blind", "carried", "early"} = {}

Today == mark.redis = day

Calendar ==
  /\ redisUp /\ day \in Nat /\ mark.redis \in 1..day
  /\ ~Today => real.today = 0 /\ at["trade"] \notin {"exit", "close"}
  /\ at["control"] = "mark" => mem.day = 0 /\ ~Today

\* Outside a close the row may still be that of yesterday: a crash that
\* brings it back is excused as carried.
Losses ==
  /\ Today /\ Stake = broker.qty => Booked("day") = real.today
  /\ at["trade"] = "close" =>
       /\ db.qty = broker.qty => db.day = real.today
       /\ \A t \in Tasks : Live(tx[t]) /\ tx[t].qty = broker.qty => Col(tx[t], "day") = real.today
       /\ tx["trade"] # NoTx => Col(tx["trade"], "day") = mem.day

Loses == Held /\ DOMAIN mark = {"redis", "memory"} /\ (Punctual => Calendar /\ Losses)

\* The steps that leave the day's loss and the columns alone.
LEMMA SameLoses ==
  ASSUME Loses, Held', excuses \subseteq excuses', Stake' = Stake, Booked("day")' = Booked("day"),
         UNCHANGED <<broker.qty, real, day, redisUp, mark, db>>,
         \A u \in Tasks : tx'[u] \in {tx[u], NoTx},
         at'["trade"] = "close" =>
           at["trade"] = "close" /\ mem'.day = mem.day,
         at'["trade"] = "exit" => at["trade"] = "exit",
         at'["control"] = "mark" => at["control"] = "mark" /\ mem'.day = mem.day
  PROVE  Loses'
<1> SUFFICES ASSUME Punctual' PROVE Calendar' /\ Losses' BY DEF Loses
<1>1. Calendar /\ Losses BY DEF Loses, Punctual
<1>2. \A u \in Tasks : Live(tx[u])' => Live(tx[u]) /\ tx'[u] = tx[u] BY DEF Live
<1>3. "trade" \in Tasks BY DEF Tasks
<1>4. Calendar' BY <1>1 DEF Calendar, Today
<1>5. Losses' BY <1>1, <1>2, <1>3 DEF Losses, Today, Col
<1> QED BY <1>4, <1>5

LEMMA SaveEndsLoses ==
  ASSUME Loses, Held', NEW t \in Tasks, tx[t] # NoTx, at[t] = "save",
         tx' = [tx EXCEPT ![t] = NoTx], db' = Committed(tx[t]), Excuse("stale", Overtaken(tx[t])),
         UNCHANGED <<broker, booking, real, day, redisUp, mark, mem.qty, mem.day>>,
         at'["trade"] = at["trade"] \/ (t = "trade" /\ at'["trade"] = "idle"),
         at'["control"] = "mark" => at["control"] = "mark"
  PROVE  Loses'
<1> SUFFICES ASSUME Punctual' PROVE Calendar' /\ Losses' BY DEF Loses
<1>1. Punctual /\ Pure /\ Calendar /\ Losses /\ "stale" \notin excuses'
  BY DEF Loses, Punctual, Pure, Excuse
<1>2. /\ tx[t].kind = "save" /\ DOMAIN tx[t].set \subseteq Columns /\ DOMAIN db = Fields
      /\ DOMAIN tx = Tasks /\ "day" \in Columns
  BY DEF Loses, Held, Backed, Means, Columns
<1>3. /\ db'.id = db.id
      /\ db'.qty = db.qty \/ (Live(tx[t]) /\ db'.qty = tx[t].qty) \/ (db.id = 0 /\ db'.qty = 0)
  BY <1>2, SaveWrites DEF Loses, Held
<1>4. db.id = 0 => db.qty = 0 BY <1>1 DEF Loses, Held, Rows
<1>5. db'.day = Col(tx[t], "day") BY <1>2, CommittedColumn
<1>6. db.day = mem.day => db'.day = db.day BY <1>1, <1>2, ColumnKept
<1>7. \A u \in Tasks : tx'[u] = NoTx \/ (u # t /\ tx'[u] = tx[u]) BY <1>2
<1>8. Stake' = Stake /\ Booked("day")' = Booked("day") BY DEF Stake, Booked
<1>9. Calendar' BY <1>1 DEF Calendar, Today
<1>10. Today' /\ Stake' = broker'.qty => Booked("day")' = real'.today
  BY <1>1, <1>8 DEF Losses, Today
<1>11. CASE at'["trade"] # "close" BY <1>9, <1>10, <1>11 DEF Losses
<1>12. CASE at'["trade"] = "close"
  <2>1. at["trade"] = "close" /\ Today BY <1>1, <1>12 DEF Calendar
  <2>2. Matching BY <1>1, RowMatches DEF Loses
  <2>3. Matched => mem.day = real.today BY <1>1, <2>1 DEF Matched, Losses, Booked
  <2>4. db'.qty = broker.qty => db'.day = real.today
    BY <1>1, <1>3, <1>4, <1>5, <1>6, <2>1, <2>2, <2>3 DEF Matching, Losses
  <2>5. ASSUME NEW u \in Tasks, Live(tx[u])', tx'[u].qty = broker.qty
        PROVE  Col(tx[u], "day")' = real.today
    <3>1. tx'[u] = tx[u] /\ Live(tx[u]) BY <1>3, <1>7, <2>5 DEF Live
    <3>2. mem.day = real.today /\ Col(tx[u], "day") = real.today
      BY <1>1, <2>1, <2>2, <2>3, <2>5, <3>1 DEF Matching, Losses
    <3> QED BY <1>6, <3>1, <3>2 DEF Col
  <2>6. tx'["trade"] # NoTx => Col(tx["trade"], "day")' = mem'.day
    BY <1>1, <1>6, <1>7, <2>1 DEF Losses, Col, Tasks
  <2> QED BY <1>9, <1>10, <2>4, <2>5, <2>6 DEF Losses
<1> QED BY <1>11, <1>12

LEMMA BookingEndsLoses ==
  ASSUME Loses, Held', at["trade"] \in {"add", "close"}, excuses \subseteq excuses',
         UNCHANGED <<broker, booking, real, day, redisUp, mark, mem.qty, mem.day>>,
         at'["trade"] \in {"idle", "save"}, at'["control"] = at["control"]
  PROVE  Loses'
<1> SUFFICES ASSUME Punctual' PROVE Calendar' /\ Losses' BY DEF Loses
<1>1. Calendar /\ Losses BY DEF Loses, Punctual
<1>2. Stake' = Stake /\ Booked("day")' = Booked("day") BY DEF Stake, Booked
<1> QED BY <1>1, <1>2 DEF Calendar, Losses, Today

LEMMA FillLoses ==
  ASSUME Loses, Held', Buy \/ RecordFill
  PROVE  Loses'
<1>1. /\ excuses \subseteq excuses' /\ UNCHANGED <<real, day, redisUp, mark, mem.day>>
      /\ at'["trade"] \in {"fill", "add"} /\ at["trade"] \in {"idle", "fill"}
      /\ at["trade"] = "idle" => mem.qty = broker.qty
      /\ at'["control"] = at["control"]
  BY DEF Buy, RecordFill, At, Gate, Goto, Excuse, counts, world, Loses, Held, Backed, Steps, Tasks,
         Fields, Columns
<1> SUFFICES ASSUME Punctual' PROVE Calendar' /\ Losses' BY <1>1 DEF Loses
<1>2. Calendar /\ Losses /\ Rows BY <1>1 DEF Loses, Held, Punctual, Pure
<1>3. Stake = broker.qty BY <1>1, <1>2 DEF Rows, Stake
<1>4. Today => mem.day = real.today BY <1>1, <1>2, <1>3 DEF Losses, Booked
<1> QED BY <1>1, <1>2, <1>4 DEF Calendar, Losses, Today, Booked

\* A sale is of a day whose reset is made, or excused as early.
LEMMA SellLoses ==
  ASSUME Loses, Held', Sell
  PROVE  Loses'
<1>1. PICK q \in 1..mem.qty, p \in ExitPrices :
        /\ q <= broker.qty /\ broker'.qty = broker.qty - q
        /\ booking'.qty = q /\ booking'.price = p
        /\ real'.today = real.today + Earned(q, p)
  BY DEF Sell
<1>2. /\ at["trade"] = "idle" /\ at'["trade"] = "exit" /\ at'["control"] = at["control"]
      /\ UNCHANGED <<mem, day, redisUp, mark>>
      /\ excuses \subseteq excuses' /\ (LastReset # day => "early" \in excuses')
  BY DEF Sell, At, Goto, Loses, Held, Backed, Steps, Tasks
<1> SUFFICES ASSUME Punctual' PROVE Calendar' /\ Losses' BY <1>2 DEF Loses
<1>3. Calendar /\ Losses /\ Numbers /\ LastReset = day BY <1>2 DEF Loses, Held, Punctual
<1>4. Today BY <1>3 DEF Calendar, LastReset, Today
<1>5. Calendar' BY <1>2, <1>3, <1>4 DEF Calendar, Today
<1>6. {broker.qty, mem.qty} \subseteq Nat /\ q \in Nat BY <1>3 DEF Numbers
<1>7. Stake = mem.qty /\ Stake' = mem.qty - q BY <1>1, <1>2 DEF Stake
<1>8. Stake' = broker'.qty => Booked("day")' = real'.today
  <2> SUFFICES ASSUME Stake' = broker'.qty PROVE Booked("day")' = real'.today OBVIOUS
  <2>1. Stake = broker.qty BY <1>1, <1>6, <1>7
  <2>2. mem.day = real.today BY <1>2, <1>3, <1>4, <2>1 DEF Losses, Booked
  <2> QED BY <1>1, <1>2, <2>2 DEF Booked, Earned
<1> QED BY <1>2, <1>5, <1>8 DEF Losses

LEMMA RecordExitLoses ==
  ASSUME Loses, Held', RecordExit
  PROVE  Loses'
<1>1. /\ at["trade"] = "exit" /\ at'["trade"] = "close" /\ at'["control"] = at["control"]
      /\ tx["trade"] = NoTx /\ mem'.qty = mem.qty - booking.qty
      /\ mem'.day = mem.day + Earned(booking.qty, booking.price)
      /\ UNCHANGED <<broker, db, tx, real, day, redisUp, mark, excuses>>
  BY DEF RecordExit, At, Goto, world, Loses, Held, Backed, Steps, Tasks, Fields, Columns
<1> SUFFICES ASSUME Punctual' PROVE Calendar' /\ Losses' BY <1>1 DEF Loses
<1>2. Calendar /\ Losses /\ Punctual /\ Pure BY <1>1 DEF Loses, Punctual, Pure
<1>3. Stake' = Stake /\ Booked("day")' = Booked("day") BY <1>1 DEF Stake, Booked
<1>4. Matching BY <1>2, RowMatches DEF Loses
<1>5. Calendar' BY <1>1, <1>2 DEF Calendar, Today
<1>6. db'.qty # broker'.qty BY <1>1, <1>4 DEF Matching, Matched
<1>7. ASSUME NEW u \in Tasks, Live(tx[u])' PROVE tx'[u].qty # broker'.qty
  BY <1>1, <1>4, <1>7 DEF Matching, Matched, Live
<1> QED BY <1>1, <1>2, <1>3, <1>5, <1>6, <1>7 DEF Losses, Today

LEMMA SavesLoses ==
  ASSUME Loses, Held', NEW t \in Tasks, Saves(t)
  PROVE  Loses'
<1>1. PICK kind \in {"add", "close", "save"} : at[t] = kind /\ Begin(t, kind)
  BY DEF Saves
<1>2. UNCHANGED <<broker, booking, real, day, redisUp, mark, mem, db, at, entries, excuses>>
      /\ DOMAIN tx = Tasks /\ "day" \in Columns
  BY <1>1 DEF Begin, world, counts, Loses, Held, Backed, Columns
<1>3. \A u \in Tasks \ {t} : tx'[u] = tx[u] BY <1>1, <1>2 DEF Begin
<1>4. Col(tx'[t], "day") = mem.day BY <1>1, <1>2, BeginCopies
<1> SUFFICES ASSUME Punctual' PROVE Calendar' /\ Losses' BY <1>2 DEF Loses
<1>5. Calendar /\ Losses /\ Pure' BY <1>2 DEF Loses, Punctual, Pure
<1>6. Stake' = Stake /\ Booked("day")' = Booked("day") BY <1>2 DEF Stake, Booked
<1>7. \A u \in Tasks : Col(tx[u], "day")' = Col(tx'[u], "day") BY <1>2 DEF Col
<1>8. Calendar' BY <1>2, <1>5 DEF Calendar, Today
<1>9. CASE at["trade"] # "close" BY <1>2, <1>5, <1>6, <1>8, <1>9 DEF Losses, Today
<1>10. CASE at["trade"] = "close"
  <2>1. Today BY <1>5, <1>10 DEF Calendar
  <2>2. Matching' BY <1>5, RowMatches, PTL DEF Loses
  <2>3. Matched' => mem.day = real.today
    BY <1>2, <1>5, <1>6, <1>10, <2>1 DEF Matched, Losses, Booked
  <2>4. ASSUME NEW u \in Tasks, Live(tx[u])', tx'[u].qty = broker'.qty
        PROVE  Col(tx'[u], "day") = real.today
    <3>1. CASE u = t BY <1>4, <2>2, <2>3, <2>4, <3>1 DEF Matching
    <3>2. CASE u # t BY <1>2, <1>3, <1>5, <1>10, <2>4, <3>2 DEF Losses, Live
    <3> QED BY <3>1, <3>2
  <2>5. tx'["trade"] # NoTx => Col(tx'["trade"], "day") = mem.day
    BY <1>2, <1>3, <1>4, <1>5, <1>10 DEF Losses, Tasks
  <2> QED BY <1>2, <1>5, <1>6, <1>7, <1>8, <1>10, <2>4, <2>5 DEF Losses, Today, Tasks
<1> QED BY <1>9, <1>10

LEMMA TradeSavedLoses ==
  ASSUME Loses, Held', TradeSaved
  PROVE  Loses'
<1>1. /\ tx["trade"] # NoTx /\ db' = Committed(tx["trade"])
      /\ Excuse("stale", Overtaken(tx["trade"])) /\ excuses \subseteq excuses'
      /\ tx' = [tx EXCEPT !["trade"] = NoTx]
      /\ UNCHANGED <<broker, booking, real, day, redisUp, mark>>
      /\ at'["trade"] = (IF at["trade"] = "save" THEN "idle" ELSE "save")
      /\ at'["control"] = at["control"]
  BY DEF TradeSaved, Commit, Goto, Excuse, world, Loses, Held, Backed, Steps, Tasks
<1>2. mem'.qty = mem.qty /\ mem'.day = mem.day
  BY DEF TradeSaved, Loses, Held, Backed, Fields, Columns
<1>3. at["trade"] \in {"add", "close", "save"} /\ "trade" \in Tasks
  BY <1>1 DEF Loses, Held, Backed, Means, Tasks
<1>4. CASE at["trade"] = "save" BY <1>1, <1>2, <1>3, <1>4, SaveEndsLoses
<1>5. CASE at["trade"] \in {"add", "close"} BY <1>1, <1>2, <1>5, BookingEndsLoses
<1> QED BY <1>3, <1>4, <1>5

LEMMA TradeFailsLoses ==
  ASSUME Loses, Held', TradeFails
  PROVE  Loses'
<1>1. /\ UNCHANGED <<broker, booking, real, day, redisUp, mark, mem.qty, mem.day>>
      /\ at'["trade"] = "idle" /\ at'["control"] = at["control"]
      /\ DOMAIN tx = Tasks /\ "trade" \in Tasks
  BY DEF TradeFails, Fail, Unsaved, Trouble, Goto, world, Loses, Held, Backed, Steps, Tasks,
         Fields, Columns
<1>2. at["trade"] \in {"add", "close", "save"}
  BY <1>1 DEF TradeFails, Fail, At, Loses, Held, Backed, Means
<1>3. excuses \subseteq excuses' BY DEF TradeFails, Fail, Excuse
<1>4. CASE at["trade"] \in {"add", "close"} BY <1>1, <1>3, <1>4, BookingEndsLoses
<1>5. CASE at["trade"] = "save"
  <2>1. Fail("trade") BY <1>5 DEF TradeFails, At
  <2>2. CASE db' = Committed(tx["trade"]) /\ Excuse("stale", Overtaken(tx["trade"]))
    BY <1>1, <1>5, <2>1, <2>2, SaveEndsLoses DEF Fail
  <2>3. CASE UNCHANGED <<db, excuses>>
    <3>1. \A u \in Tasks : tx'[u] \in {tx[u], NoTx} BY <1>1, <2>1 DEF Fail
    <3>2. Stake' = Stake /\ Booked("day")' = Booked("day") BY <1>1, <1>5 DEF Stake, Booked
    <3> QED BY <1>1, <2>3, <3>1, <3>2, SameLoses
  <2> QED BY <2>1, <2>2, <2>3 DEF Fail
<1> QED BY <1>2, <1>4, <1>5

LEMMA PersistedLoses ==
  ASSUME Loses, Held', NEW t \in Tasks, Persisted(t)
  PROVE  Loses'
<1>1. /\ t # "trade" /\ tx[t] # NoTx /\ tx' = [tx EXCEPT ![t] = NoTx]
      /\ UNCHANGED <<broker, booking, real, day, redisUp, mark, mem>>
      /\ at'["trade"] = at["trade"] /\ at'["control"] \in {at["control"], "idle"}
      /\ \/ UNCHANGED <<db, excuses>>
         \/ db' = Committed(tx[t]) /\ Excuse("stale", Overtaken(tx[t]))
  BY DEF Persisted, Commit, Fail, Goto, world, Loses, Held, Backed, Steps, Tasks
<1>2. at[t] = "save" BY <1>1 DEF Loses, Held, Backed, Steps, Means
<1>3. CASE UNCHANGED <<db, excuses>>
  <2>1. Stake' = Stake /\ Booked("day")' = Booked("day") BY <1>1 DEF Stake, Booked
  <2>2. \A u \in Tasks : tx'[u] \in {tx[u], NoTx} BY <1>1 DEF Loses, Held, Backed
  <2> QED BY <1>1, <1>3, <2>1, <2>2, SameLoses
<1>4. CASE db' = Committed(tx[t]) /\ Excuse("stale", Overtaken(tx[t]))
  BY <1>1, <1>2, <1>4, SaveEndsLoses
<1> QED BY <1>1, <1>3, <1>4

\* A crash forgets a reset or a loss that is not saved: while the trading path
\* pauses it is excused, and otherwise the row has not the broker's position.
LEMMA CrashLoses ==
  ASSUME Loses, Held', Crash
  PROVE  Loses'
<1>1. /\ mem' = db /\ at'["trade"] = "idle" /\ at'["control"] = "idle"
      /\ UNCHANGED <<broker, real, day, redisUp, db>> /\ excuses \subseteq excuses'
      /\ at["trade"] \in {"idle", "save"} /\ mem.day # db.day /\ mark.redis = day =>
           "carried" \in excuses'
  BY DEF Crash, world, Excuse, Tasks
<1>2. DOMAIN mark' = {"redis", "memory"} /\ mark'.redis = mark.redis BY DEF Crash, Loses
<1> SUFFICES ASSUME Punctual' PROVE Calendar' /\ Losses' BY <1>2 DEF Loses
<1>3. Calendar /\ Losses /\ Punctual /\ Pure /\ Rows BY <1>1 DEF Loses, Held, Punctual, Pure
<1>4. Matching BY <1>3, RowMatches DEF Loses
<1>5. Calendar' BY <1>1, <1>2, <1>3 DEF Calendar, Today
<1>6. Today' /\ Stake' = broker'.qty => Booked("day")' = real'.today
  <2> SUFFICES ASSUME Today, db.qty = broker.qty PROVE db.day = real.today
    BY <1>1, <1>2 DEF Stake, Booked, Today
  <2>1. Matched BY <1>4 DEF Matching
  <2>2. mem.day = real.today BY <1>3, <2>1 DEF Losses, Matched, Booked
  <2>3. at["trade"] \notin {"fill", "add"} BY <1>3, <2>1 DEF Rows, Matched
  <2>4. CASE at["trade"] = "close" BY <1>3, <2>4 DEF Losses
  <2>5. CASE at["trade"] \in {"idle", "save"} BY <1>1, <2>2, <2>5 DEF Today, Punctual
  <2> QED BY <2>1, <2>3, <2>4, <2>5 DEF Matched, Loses, Held, Backed, Steps, Tasks
<1> QED BY <1>1, <1>5, <1>6 DEF Losses

\* The reset of the day is marked when the memory has it.
LEMMA ResetLoses ==
  ASSUME Loses, Held', Reset \/ MarkReset
  PROVE  Loses'
<1>1. /\ at'["trade"] = at["trade"] /\ DOMAIN mark' = {"redis", "memory"}
      /\ UNCHANGED <<broker, booking, real, day, redisUp, db, tx, mem.qty, excuses>>
  BY DEF Reset, MarkReset, Goto, world, Loses, Held, Backed, Steps, Fields, Columns, Tasks
<1> SUFFICES ASSUME Punctual' PROVE Calendar' /\ Losses' BY <1>1 DEF Loses
<1>2. Calendar /\ Losses BY <1>1 DEF Loses, Punctual
<1>3. CASE Reset
  <2>1. ~Today /\ UNCHANGED mark /\ mem'.day = 0 BY <1>2, <1>3
    DEF Reset, LastReset, Today, Calendar, Loses, Held, Backed, Fields, Columns
  <2> QED BY <1>1, <1>2, <2>1 DEF Calendar, Losses, Today
<1>4. CASE MarkReset
  <2>1. /\ at["control"] = "mark" /\ at'["control"] = "save" /\ mark'.redis = day /\ UNCHANGED mem
    BY <1>2, <1>4 DEF MarkReset, At, Goto, Calendar, Loses, Held, Backed, Steps, Tasks
  <2>2. mem.day = 0 /\ real.today = 0 /\ at["trade"] \notin {"exit", "close"}
    BY <1>2, <2>1 DEF Calendar
  <2>3. Calendar' BY <1>1, <1>2, <2>1, <2>2 DEF Calendar, Today
  <2> QED BY <1>1, <2>1, <2>2, <2>3 DEF Losses, Booked
<1> QED BY <1>3, <1>4

LEMMA OthersLoses ==
  ASSUME Loses, Held', SyncRead \/ SyncWrite \/ Operate \/ Turn \/ Blink \/ UNCHANGED vars
  PROVE  Loses'
<1>1. CASE SyncRead \/ SyncWrite \/ Operate \/ UNCHANGED vars
  <2>1. /\ UNCHANGED <<broker, booking, real, day, redisUp, mark, mem.qty, mem.day, db, tx>>
        /\ excuses \subseteq excuses'
    BY <1>1 DEF SyncRead, SyncWrite, Operate, vars, world, Excuse, Loses, Held, Backed, Fields, Columns
  <2>2. at'["trade"] = at["trade"] /\ (at'["control"] = "mark" => at["control"] = "mark")
    <3>1. CASE \E t \in {"control", "operator"}, s \in {"sync", "save"} : Goto(t, s)
      BY <3>1 DEF Goto, Loses, Held, Backed, Steps, Tasks
    <3>2. CASE UNCHANGED at BY <3>2
    <3> QED BY <1>1, <3>1, <3>2 DEF SyncRead, SyncWrite, Operate, vars
  <2>3. Stake' = Stake /\ Booked("day")' = Booked("day") BY <2>1, <2>2 DEF Stake, Booked
  <2> QED BY <2>1, <2>2, <2>3, SameLoses
<1>2. CASE Turn
  <2>1. /\ at["trade"] = "idle" /\ day' = day + 1 /\ real'.today = 0
        /\ UNCHANGED <<redisUp, mark, mem, at, excuses>>
    BY <1>2 DEF Turn, Loses, Held, Numbers
  <2> SUFFICES ASSUME Punctual' PROVE Calendar' /\ Losses' BY <2>1 DEF Loses
  <2>2. Calendar BY <2>1 DEF Loses, Punctual
  <2>3. mark'.redis \in 1..day /\ day \in Nat BY <2>1, <2>2 DEF Calendar
  <2>4. ~Today' BY <2>1, <2>3 DEF Today
  <2>5. Calendar' BY <2>1, <2>2, <2>3, <2>4 DEF Calendar
  <2> QED BY <2>1, <2>4, <2>5 DEF Losses
<1>3. CASE Blink
  <2>1. DOMAIN mark' = {"redis", "memory"} BY <1>3 DEF Blink, Loses
  <2>2. ~Punctual' BY <1>3 DEF Blink, Excuse, Punctual
  <2> QED BY <2>1, <2>2 DEF Loses
<1> QED BY <1>1, <1>2, <1>3

LEMMA InitLoses == Init => Loses
<1> SUFFICES ASSUME Init PROVE Loses OBVIOUS
<1>1. /\ redisUp /\ day = 1 /\ mark = [redis |-> 1, memory |-> 1] /\ mem.day = 0 /\ real.today = 0
      /\ at["trade"] = "idle" /\ at["control"] = "idle"
  BY DEF Init, Tasks
<1>2. Calendar BY <1>1 DEF Calendar, Today
<1>3. Losses BY <1>1 DEF Losses, Booked
<1> QED BY <1>1, <1>2, <1>3, InitHeld DEF Loses

LEMMA NextLoses == Loses /\ [Next]_vars => Loses'
<1> SUFFICES ASSUME Loses, [Next]_vars PROVE Loses' OBVIOUS
<1>1. Held' BY NextHeld DEF Loses
<1> QED
  BY <1>1, FillLoses, SellLoses, RecordExitLoses, TradeSavedLoses, TradeFailsLoses, SavesLoses,
     PersistedLoses, CrashLoses, ResetLoses, OthersLoses DEF Next

\* For every lot, capital and price: once the day's reset is made, the loss that
\* the daily limit is compared with is the day's, unless excused.
THEOREM DayLossTrueHolds == Spec => []DayLossTrue
<1>1. Loses => DayLossTrue
  <2> SUFFICES ASSUME Loses, Settled, LastReset = day, Punctual PROVE mem.day = real.today
    BY DEF DayLossTrue, Excused, Punctual
  <2>1. Today BY DEF Loses, Calendar, Today, LastReset
  <2> QED BY <2>1 DEF Loses, Losses, Settled, Stake, Booked
<1> QED BY <1>1, InitLoses, NextLoses, PTL DEF Spec
=============================================================================
