--------------------------- MODULE LiveExecution ---------------------------
(***************************************************************************)
(* Live-mode order execution: ExecutionEngine.place_order, _place_exit and *)
(* eod_square_off, the lifecycle check of a position, the portfolio ledger *)
(* and its database copy, the trade rows, and reconciliation.              *)
(*                                                                         *)
(* One asyncio process.  The holder of ExecutionEngine.order_lock is the   *)
(* single "operation"; pc names the await it is at, and a step is the code *)
(* up to its next await.  The reconciliation retry, the operator and the   *)
(* broker run between any two steps, and the process may crash.            *)
(***************************************************************************)
EXTENDS Broker

CONSTANTS
  Lot,       \* quantity of an entry order
  RedisFails, \* Redis may fail to answer
  None       \* "no stop order id", "no order"

ASSUME LotAssumption == Lot \in Nat \ {0} /\ None \notin Ids
ASSUME RedisAssumption == RedisFails \in BOOLEAN

VARIABLES
  pc,        \* step of the operation that holds order_lock; "idle" when free
  who,       \* on whose behalf: "entry", "lifecycle" or "squareoff"
  cur,       \* client id the operation works on
  res,       \* the OrderResult in hand
  armed,     \* the analysis timeout can still cancel the operation
  todo,      \* symbols eod_square_off has left
  errs,      \* eod_square_off has met an error
  flat,      \* the last eod_square_off reported ok, no entry begun since
  pos,       \* PortfolioState.positions (memory)
  halted,    \* PortfolioState.emergency_halt (memory)
  degraded,  \* the reconciliation status is DEGRADED
  rpc, rbad, \* reconcile_on_startup: its step; it has met an issue
  row,       \* TradeRecord.status of each client id        (database)
  dpos,      \* open Position rows                          (database)
  dhalt,     \* SystemState.emergency_halt                  (database)
  claims,    \* idempotency claims                          (Redis)
  memclaims, \* those taken while Redis did not answer       (memory)
  unclaimed, \* history: ids whose claim Redis did not keep (see Claim, RecordFinal)
  unlisted,  \* history: ids in use whose row says otherwise (see CreatePending,
             \* CloseRow)
  cut,       \* history: symbols whose fill a timeout kept from the ledger
  owned,     \* history: ids whose protective stop the ledger has named and no
             \* crash has made it forget
  late       \* history: the last verdict "OK" was out of date when applied

callVars  == <<who, cur, armed>>
sweepVars == <<todo, errs, flat>>
recVars   == <<rpc, rbad>>
dbVars    == <<row, dpos, dhalt>>
claimVars == <<claims, memclaims, unclaimed>>
history   == <<unlisted, cut, owned, late>>
vars == <<pc, callVars, res, sweepVars, pos, halted, degraded, recVars,
          dbVars, claimVars, brokerVars, history>>

-----------------------------------------------------------------------------
RowStatus  == {"none", "pending", "submitted", "unknown", "sl_placed",
               "rejected", "closed"}
Unfinished == {"pending", "submitted", "unknown"}
EntrySteps == {"check", "intent", "gate", "fill", "commit", "final"}
ExitSteps  == {"x_stop", "x_stopstatus", "x_qty", "x_close", "x_book",
               "x_commit", "x_rowclose"}
OrderSteps == {"submit", "ack", "record", "poll", "cancel", "status", "stop",
               "stopack", "stopcheck"}
Steps == EntrySteps \cup ExitSteps \cup OrderSteps
           \cup {"idle", "sq", "down", "recovering"}

Position == [qty : Nat, stop : Ids \cup {None}]
Result   == [status : {"SUBMITTED", "FILLED", "PARTIAL", "REJECTED", "FAILED"},
             filled : Nat, unknown : BOOLEAN, id : BOOLEAN, stop : BOOLEAN]

NoPosition == [qty |-> 0, stop |-> None]
NoResult   == [status |-> "SUBMITTED", filled |-> 0, unknown |-> FALSE,
               id |-> FALSE, stop |-> FALSE]

Unresolved(i) == row[i] \in Unfinished
IsExit == cur \in Exits
Sym    == SymbolOf[cur]

TypeOK ==
  /\ BrokerTypeOK
  /\ pc \in Steps /\ who \in {"entry", "lifecycle", "squareoff"}
  /\ cur \in Ids \cup {None} /\ res \in Result /\ armed \in BOOLEAN
  /\ todo \in SUBSET Symbols /\ errs \in BOOLEAN /\ flat \in BOOLEAN
  /\ pos \in [Symbols -> Position] /\ dpos \in [Symbols -> Position]
  /\ halted \in BOOLEAN /\ dhalt \in BOOLEAN /\ degraded \in BOOLEAN
  /\ rpc \in {"off", "compare", "apply"} /\ rbad \in BOOLEAN
  /\ row \in [Ids -> RowStatus]
  /\ claims \in SUBSET Entries /\ memclaims \in SUBSET Entries /\ unclaimed \in SUBSET Entries
  /\ unlisted \in SUBSET Entries /\ cut \in SUBSET Symbols
  /\ owned \in SUBSET Ids /\ late \in BOOLEAN

Init ==
  /\ BrokerInit
  /\ pc = "idle" /\ who = "entry" /\ cur = None /\ res = NoResult
  /\ armed = FALSE /\ todo = {} /\ errs = FALSE /\ flat = FALSE
  /\ pos = [s \in Symbols |-> NoPosition]
  /\ dpos = [s \in Symbols |-> NoPosition]
  /\ halted = FALSE /\ dhalt = FALSE /\ degraded = FALSE
  /\ rpc = "off" /\ rbad = FALSE
  /\ row = [i \in Ids |-> "none"]
  /\ claims = {} /\ memclaims = {} /\ unclaimed = {}
  /\ unlisted = {} /\ cut = {} /\ owned = {} /\ late = FALSE

-----------------------------------------------------------------------------
(* Shared fragments                                                        *)

\* PortfolioRepository.save of ledger p: the halt flag and the rows it knows.
Saved(p) == [s \in Symbols |-> IF dpos[s].qty > 0 /\ p[s].qty > 0 THEN p[s] ELSE dpos[s]]

\* PortfolioManager.persist of ledger p and halt flag h.  No caller here looks
\* at what it returns when the database is down.
Persist(p, h) ==
  \/ dpos' = Saved(p) /\ dhalt' = h
  \/ UNCHANGED <<dpos, dhalt>>

\* The row of id says again what its order does.  Not so once its claim may be
\* lost: the id may have gone out twice, and mkt and prot hold the last order.
Listed(id) == unlisted' = unlisted \ ({id} \ unclaimed)

\* ExecutionEngine._unknown with ledger p: degrade, halt, persist, and mark the
\* row of id (None for a request that has no row: "<id>-r" and "").
MarkUnknown(id, p) ==
  /\ degraded' = TRUE /\ halted' = TRUE
  /\ Persist(p, TRUE)
  /\ row' = IF id = None THEN row ELSE [row EXCEPT ![id] = "unknown"]
  /\ Listed(id)

\* The same while the database is down: only memory changes.
MarkUnknownUnsaved ==
  /\ degraded' = TRUE /\ halted' = TRUE
  /\ UNCHANGED <<dbVars, unlisted>>

\* The operation is over: the lock is free, or the square-off goes on.
EndOp ==
  /\ pc' = IF who = "squareoff" THEN "sq" ELSE "idle"
  /\ who' = IF who = "squareoff" THEN who ELSE "entry"
  /\ cur' = None /\ res' = NoResult /\ armed' = FALSE

\* An exit that booked nothing is an error of the square-off that called it.
NotBooked == errs' = (errs \/ who = "squareoff") /\ UNCHANGED <<todo, flat>>

\* An exception, or the cancellation by the analysis timeout, after the order
\* has been sent: _submit_live and place_exit absorb it and mark it unknown.
Absorbed ==
  \/ /\ ~IsExit
     /\ MarkUnknown(cur, pos)
     /\ res' = [res EXCEPT !.status = "SUBMITTED", !.unknown = TRUE]
     /\ pc' = "final" /\ UNCHANGED <<who, cur, sweepVars>>
  \/ IsExit /\ MarkUnknown(None, pos) /\ NotBooked /\ EndOp

-----------------------------------------------------------------------------
(* place_order: the steps of an entry before submission                    *)

\* Bound OneRow: record_fill inserts a row, whatever rows the symbol has.  No
\* entry begins for a symbol whose row outlived its position (a close_position
\* that failed), so that dpos, with one row a symbol, is what the table holds.
OneRow(s) == dpos[s].qty = 0

BeginEntry(e) ==
  /\ pc = "idle" /\ pos[SymbolOf[e]].qty = 0 /\ OneRow(SymbolOf[e])
  /\ pc' = "check" /\ who' = "entry" /\ cur' = e /\ armed' = TRUE
  /\ flat' = FALSE
  /\ UNCHANGED <<res, todo, errs, pos, halted, degraded, recVars, dbVars,
                 claimVars, brokerVars, history>>

EntryBlockedByClaim ==   \* mutant: the rows of other orders are not read
  degraded \/ halted \/ row[cur] = "sl_placed"

EntryBlocked ==
  \/ degraded \/ halted
  \/ \E i \in Ids : Unresolved(i)
  \/ row[cur] = "sl_placed"

ClaimAnyway(id) ==   \* mutant: SET without NX
  claims' = claims \cup {id} /\ UNCHANGED <<memclaims, unclaimed>>

\* claim_order_id: in Redis or, when it does not answer, in memory.  Neither
\* store is asked about the other's claims.
Claim(id) ==
  \/ /\ id \notin claims
     /\ claims' = claims \cup {id} /\ UNCHANGED <<memclaims, unclaimed>>
  \/ /\ RedisFails /\ id \notin memclaims
     /\ memclaims' = memclaims \cup {id} /\ unclaimed' = unclaimed \cup {id}
     /\ UNCHANGED claims

Check ==
  /\ pc = "check"
  /\ \/ /\ EntryBlocked \/ cur \in claims \cup memclaims
        /\ EndOp /\ UNCHANGED claimVars
     \/ ~EntryBlocked /\ Claim(cur) /\ pc' = "intent" /\ UNCHANGED <<callVars, res>>
  /\ UNCHANGED <<sweepVars, pos, halted, degraded, recVars, dbVars, brokerVars, history>>

\* create_pending leaves an existing row as it is.
CreatePending ==
  /\ pc = "intent"
  /\ \/ /\ row' = [row EXCEPT ![cur] = IF @ = "none" THEN "pending" ELSE @]
        /\ unlisted' = IF row[cur] = "none" THEN unlisted ELSE unlisted \cup {cur}
        /\ pc' = "gate" /\ UNCHANGED <<callVars, res>>
     \/ EndOp /\ UNCHANGED <<row, unlisted>>
  /\ UNCHANGED <<sweepVars, pos, halted, degraded, recVars, dpos, dhalt,
                 claimVars, brokerVars, cut, owned, late>>

\* LiveSafetyGate: the halt flag again, and blockers outside this model.
LiveGate ==
  /\ pc = "gate"
  /\ \/ ~halted /\ pc' = "submit" /\ UNCHANGED res
     \/ pc' = "final" /\ res' = [res EXCEPT !.status = "REJECTED"]
  /\ UNCHANGED <<callVars, sweepVars, pos, halted, degraded, recVars, dbVars,
                 claimVars, brokerVars, history>>

-----------------------------------------------------------------------------
(* The order at the broker, for entries and exits alike                    *)

Submit ==
  /\ pc = "submit"
  /\ mkt' = [mkt EXCEPT ![cur] = Sent(IF IsExit THEN pos[Sym].qty ELSE Lot)]
  /\ pc' = "ack"
  /\ UNCHANGED <<callVars, res, sweepVars, pos, halted, degraded, recVars,
                 dbVars, claimVars, prot, held, history>>

Ack ==
  /\ pc = "ack" /\ mkt[cur].st \notin {"transit", "lost"}
  /\ res' = [res EXCEPT !.id = TRUE]
  /\ pc' = "record"
  /\ UNCHANGED <<callVars, sweepVars, pos, halted, degraded, recVars, dbVars,
                 claimVars, brokerVars, history>>

\* No answer, or an error: the order may or may not exist.
SubmitUnknown ==
  /\ pc \in {"submit", "ack"}
  /\ MarkUnknown(cur, pos)
  /\ res' = [res EXCEPT !.unknown = TRUE]
  /\ pc' = "record"
  /\ UNCHANGED <<callVars, sweepVars, pos, recVars, claimVars, brokerVars, cut, owned, late>>

\* _unknown cannot write the row: it raises, and the operation ends with only
\* memory degraded and halted.
UnknownUnsaved ==
  /\ \/ pc \in OrderSteps \ {"poll", "record"}
     \/ pc \in {"x_stop", "x_stopstatus", "x_qty", "x_close"}
     \/ pc = "record" /\ IsExit
  /\ MarkUnknownUnsaved /\ EndOp /\ NotBooked
  /\ UNCHANGED <<pos, recVars, claimVars, brokerVars, cut, owned, late>>

Record ==
  /\ pc = "record"
  /\ \/ /\ row' = [row EXCEPT ![cur] = IF res.unknown THEN "unknown" ELSE "submitted"]
        /\ Listed(cur)
        /\ pc' = IF res.id THEN "poll" ELSE IF IsExit THEN "x_close" ELSE "final"
        /\ UNCHANGED <<callVars, res, sweepVars, halted, degraded, dpos, dhalt>>
     \/ \* the write fails: an entry ends there, an exit is marked unknown
        IF IsExit THEN Absorbed /\ UNCHANGED armed
        ELSE EndOp /\ UNCHANGED <<sweepVars, halted, degraded, dbVars, unlisted>>
  /\ UNCHANGED <<pos, recVars, claimVars, brokerVars, cut, owned, late>>

\* Where a known outcome leads.
Settled(r) ==
  IF IsExit THEN "x_close" ELSE IF r.filled > 0 THEN "stop" ELSE "final"

\* reconcile_order: a final answer, or the deadline passes.
Poll ==
  /\ pc = "poll"
  /\ LET o == mkt[cur] IN
     \/ /\ o.st \in Terminal /\ o.filled > 0   \* COMPLETE, or nothing pending
        /\ res' = [res EXCEPT !.status = "FILLED", !.filled = o.filled]
        /\ pc' = Settled(res')
     \/ /\ o.st \in {"cancelled", "rejected"} /\ o.filled = 0
        /\ res' = [res EXCEPT !.status = "REJECTED"]
        /\ pc' = Settled(res')
     \/ /\ o.st # "complete" /\ o.filled > 0
        /\ res' = [res EXCEPT !.status = "PARTIAL", !.filled = o.filled]
        /\ pc' = "cancel"
     \/ /\ \E u \in BOOLEAN : res' = [res EXCEPT !.unknown = u]
        /\ pc' = "cancel"
     \/ \* the broker session is closed
        res' = [res EXCEPT !.status = "FAILED"] /\ pc' = "cancel"
  /\ UNCHANGED <<callVars, sweepVars, pos, halted, degraded, recVars, dbVars,
                 claimVars, brokerVars, history>>

Cancel ==
  /\ pc = "cancel"
  /\ \/ /\ mkt' \in {mkt, [mkt EXCEPT ![cur].st = IF @ = "open" THEN "cancelled" ELSE @]}
        /\ pc' = "status"
        /\ UNCHANGED <<callVars, res, sweepVars, halted, degraded, dbVars, unlisted>>
     \/ Absorbed /\ UNCHANGED <<mkt, armed>>
  /\ UNCHANGED <<pos, recVars, claimVars, prot, held, cut, owned, late>>

StatusTrusting ==   \* mutant: an order not executed is taken for cancelled
  /\ pc = "status"
  /\ LET f == mkt[cur].filled IN
     res' = [res EXCEPT !.filled = f, !.unknown = FALSE, !.status =
               IF f = 0 THEN "REJECTED" ELSE IF IsExit THEN "PARTIAL" ELSE "FILLED"]
  /\ pc' = Settled(res')
  /\ UNCHANGED <<callVars, sweepVars, halted, degraded, dbVars, unlisted, pos, recVars,
                 claimVars, brokerVars, cut, owned, late>>

\* fetch_order_status after the cancel: a final answer, or still unknown.
Status ==
  /\ pc = "status"
  /\ \/ /\ mkt[cur].st \in Terminal
        /\ LET f == mkt[cur].filled IN
           res' = [res EXCEPT !.filled = f, !.status =
                     IF f = 0 THEN "REJECTED" ELSE IF IsExit THEN "PARTIAL" ELSE "FILLED"]
        /\ pc' = Settled(res')
        /\ UNCHANGED <<callVars, sweepVars, halted, degraded, dbVars, unlisted>>
     \/ /\ MarkUnknown(cur, pos)
        /\ \/ IsExit /\ EndOp /\ NotBooked
           \/ /\ ~IsExit
              /\ res' = [res EXCEPT !.unknown = TRUE]
              /\ pc' = Settled(res)
              /\ UNCHANGED <<callVars, sweepVars>>
  /\ UNCHANGED <<pos, recVars, claimVars, brokerVars, cut, owned, late>>

\* _attach_stop_loss: for an entry's fill, or for what an exit left unsold.
PlaceStop ==
  /\ pc = "stop"
  /\ prot' = [prot EXCEPT ![cur] =
       Sent(IF IsExit THEN pos[Sym].qty - res.filled ELSE res.filled)]
  /\ owned' = owned \ {cur}   \* what it named was an earlier order of this id
  /\ pc' = "stopack"
  /\ UNCHANGED <<callVars, res, sweepVars, pos, halted, degraded, recVars,
                 dbVars, claimVars, mkt, held, unlisted, cut, late>>

StopAck ==
  /\ pc = "stopack" /\ prot[cur].st \notin {"transit", "lost"}
  /\ res' = [res EXCEPT !.stop = TRUE]
  /\ pc' = "stopcheck"
  /\ UNCHANGED <<callVars, sweepVars, pos, halted, degraded, recVars, dbVars,
                 claimVars, brokerVars, history>>

\* The residual's stop becomes the position's; an entry's is stored by Fill.
Attached(known) ==
  /\ pc' = IF IsExit THEN "x_book" ELSE "final"
  /\ pos' = IF IsExit THEN [pos EXCEPT ![Sym].stop = IF known THEN cur ELSE None] ELSE pos
  /\ owned' = IF IsExit /\ known THEN owned \cup {cur} ELSE owned

StopWorks(o) == o.st = "open" /\ o.filled = 0

StopConfirmed ==
  /\ pc = "stopcheck" /\ StopWorks(prot[cur])
  /\ Attached(TRUE)
  /\ UNCHANGED <<callVars, res, sweepVars, halted, degraded, recVars, dbVars,
                 claimVars, brokerVars, unlisted, cut, late>>

\* Not sent, not answered, or not confirmed as working: the fill is kept.
StopUnconfirmed ==
  /\ pc \in {"stop", "stopack", "stopcheck"}
  /\ Attached(res.stop)
  /\ MarkUnknown(IF IsExit THEN None ELSE cur, pos)
  /\ res' = [res EXCEPT !.unknown = TRUE]
  /\ UNCHANGED <<callVars, sweepVars, recVars, claimVars, brokerVars, cut, late>>

-----------------------------------------------------------------------------
(* place_order and the orchestrator: an entry after its outcome is known   *)

RowOfFilled(r) ==     \* mutant: the status map is not overridden
  IF r.status \in {"FILLED", "PARTIAL"} THEN "filled" ELSE "submitted"
RowOfRejected(r) ==   \* mutant: an unknown outcome is taken for a rejection
  IF r.unknown THEN "rejected" ELSE IF r.stop THEN "sl_placed" ELSE "submitted"
RowOf(r) ==
  IF r.unknown THEN "unknown"
  ELSE IF r.stop THEN "sl_placed"
  ELSE IF r.status = "REJECTED" THEN "rejected" ELSE "submitted"

ToBook == res.status \in {"FILLED", "PARTIAL"} /\ res.filled > 0

\* release_order_id, in the store that answers, unless a timeout comes first.
Released(id) ==
  \/ claims' = claims \ {id} /\ UNCHANGED memclaims
  \/ RedisFails /\ memclaims' = memclaims \ {id} /\ UNCHANGED claims
  \/ UNCHANGED <<claims, memclaims>>

\* _record_result of the final result, and the release of the claim of a rejected
\* order, and of one whose session closed while its outcome was unknown.
RecordFinal ==
  /\ pc = "final"
  /\ \/ /\ row' = [row EXCEPT ![cur] = RowOf(res)]
        /\ Listed(cur)
        /\ IF res.status \in {"REJECTED", "FAILED"} THEN Released(cur)
                                                  ELSE UNCHANGED <<claims, memclaims>>
        /\ unclaimed' = IF res.status = "FAILED" THEN unclaimed \cup {cur} ELSE unclaimed
        /\ IF ToBook THEN pc' = "fill" /\ UNCHANGED <<callVars, res>> ELSE EndOp
     \/ EndOp /\ UNCHANGED <<row, unlisted, claimVars>>
  /\ UNCHANGED <<sweepVars, pos, halted, degraded, recVars, dpos, dhalt,
                 brokerVars, cut, owned, late>>

\* PortfolioManager.record_fill: memory first, then the database.
RecordFill ==
  /\ pc = "fill"
  /\ pos' = [pos EXCEPT ![Sym] = [qty |-> res.filled, stop |-> IF res.stop THEN cur ELSE None]]
  /\ owned' = IF res.stop THEN owned \cup {cur} ELSE owned
  /\ pc' = "commit"
  /\ UNCHANGED <<callVars, res, sweepVars, halted, degraded, recVars, dbVars,
                 claimVars, brokerVars, unlisted, cut, late>>

CommitFill ==
  /\ pc = "commit"
  /\ \/ /\ dpos' = [Saved(pos) EXCEPT ![Sym] = pos[Sym]]
        /\ dhalt' = halted /\ UNCHANGED halted
     \/ halted' = TRUE /\ UNCHANGED <<dpos, dhalt>>
  /\ EndOp
  /\ UNCHANGED <<sweepVars, pos, degraded, recVars, row, claimVars, brokerVars, history>>

\* analyze_symbol's timeout cancels the operation at the await it is in.  A
\* cancelled submission is SubmitUnknown; a cancelled write may be committed.
AnalysisTimeout ==
  /\ armed
  /\ \/ /\ pc \in {"check", "intent", "gate", "final", "commit"}
        /\ EndOp /\ UNCHANGED <<halted, degraded, dbVars, unlisted, cut, sweepVars>>
     \/ /\ pc = "record" /\ EndOp
        /\ \/ UNCHANGED <<row, unlisted>>
           \/ /\ row' = [row EXCEPT ![cur] = IF res.unknown THEN "unknown" ELSE "submitted"]
              /\ Listed(cur)
        /\ UNCHANGED <<halted, degraded, dpos, dhalt, cut, sweepVars>>
     \/ /\ pc \in {"poll", "cancel", "status", "stop", "stopack", "stopcheck"}
        /\ Absorbed /\ armed' = FALSE /\ UNCHANGED cut
     \/ /\ pc = "fill" /\ EndOp
        /\ cut' = cut \cup {Sym}
        /\ UNCHANGED <<halted, degraded, dbVars, unlisted, sweepVars>>
  /\ UNCHANGED <<pos, recVars, claimVars, brokerVars, owned, late>>

-----------------------------------------------------------------------------
(* place_exit, called by the lifecycle check and by the square-off         *)

UnresolvedExitPending(s) ==   \* mutant: only a row never updated counts
  \E x \in Exits : SymbolOf[x] = s /\ row[x] = "pending"
UnresolvedExit(s) == \E x \in Exits : SymbolOf[x] = s /\ Unresolved(x)

\* The position's stop is confirmed as working (lifecycle, before a target exit).
Protected(s) ==
  /\ pos[s].stop # None
  /\ StopWorks(prot[pos[s].stop])
  /\ prot[pos[s].stop].qty = pos[s].qty

BeginExit(x) ==
  LET s == SymbolOf[x] IN
  /\ row[x] = "none" /\ pos[s].qty > 0 /\ ~UnresolvedExit(s)
  /\ \/ pc = "idle" /\ Protected(s) /\ who' = "lifecycle" /\ UNCHANGED todo
     \/ pc = "sq" /\ s \in todo /\ who' = who /\ todo' = todo \ {s}
  /\ cur' = x
  /\ row' = [row EXCEPT ![x] = "pending"]
  /\ pc' = IF pos[s].stop # None THEN "x_stop" ELSE "x_qty"
  /\ UNCHANGED <<armed, res, errs, flat, pos, halted, degraded, recVars, dpos,
                 dhalt, claimVars, brokerVars, history>>

\* The exit's row cannot be created: nothing is sold, memory is halted.
BeginExitDbDown(s) ==
  /\ pos[s].qty > 0 /\ ~UnresolvedExit(s)
  /\ \/ pc = "idle" /\ Protected(s) /\ UNCHANGED <<todo, errs>>
     \/ pc = "sq" /\ s \in todo /\ todo' = todo \ {s} /\ errs' = TRUE
  /\ MarkUnknownUnsaved
  /\ UNCHANGED <<pc, callVars, res, flat, pos, recVars, claimVars, brokerVars, cut, owned, late>>

\* The square-off meets a position whose exit is unresolved, or already gone.
SkipExit(s) ==
  /\ pc = "sq" /\ s \in todo /\ (UnresolvedExit(s) \/ pos[s].qty = 0)
  /\ todo' = todo \ {s} /\ errs' = TRUE
  /\ UNCHANGED <<pc, callVars, res, flat, pos, halted, degraded, recVars,
                 dbVars, claimVars, brokerVars, history>>

CancelStop ==
  /\ pc = "x_stop"
  /\ \/ /\ \E st \in {"cancelled", "open"} :
             prot' = [prot EXCEPT ![pos[Sym].stop].st = IF @ = "open" THEN st ELSE @]
        /\ pc' = "x_stopstatus"
        /\ UNCHANGED <<callVars, res, sweepVars, halted, degraded, dbVars, unlisted>>
     \/ Absorbed /\ UNCHANGED <<prot, armed>>
  /\ UNCHANGED <<pos, recVars, claimVars, mkt, held, cut, owned, late>>

StopStatusTrusting ==   \* mutant: the cancellation is not confirmed
  /\ pc = "x_stopstatus"
  /\ pos' = [pos EXCEPT ![Sym].stop = None] /\ pc' = "x_qty"
  /\ UNCHANGED <<callVars, res, sweepVars, halted, degraded, dbVars, recVars,
                 claimVars, brokerVars, history>>

StopStatus ==
  /\ pc = "x_stopstatus"
  /\ LET o == prot[pos[Sym].stop]
         bare == [pos EXCEPT ![Sym].stop = None] IN
     \/ /\ o.st \in Terminal /\ o.filled = 0
        /\ pos' = bare /\ pc' = "x_qty"
        /\ UNCHANGED <<callVars, res, sweepVars, halted, degraded, dbVars, unlisted>>
     \/ /\ o.st \in Terminal /\ o.filled > 0
        /\ pos' = bare
        /\ MarkUnknown(cur, bare)
        /\ res' = [NoResult EXCEPT !.status = "PARTIAL",
                     !.filled = IF o.filled > pos[Sym].qty THEN pos[Sym].qty ELSE o.filled]
        /\ pc' = "x_book" /\ UNCHANGED <<callVars, sweepVars>>
     \/ MarkUnknown(cur, pos) /\ EndOp /\ NotBooked /\ UNCHANGED pos
  /\ UNCHANGED <<recVars, claimVars, brokerVars, cut, owned, late>>

\* The broker's net quantity must equal the ledger's.
CheckQuantity ==
  /\ pc = "x_qty"
  /\ \/ /\ held[Sym] = pos[Sym].qty
        /\ pc' = "submit"
        /\ UNCHANGED <<callVars, res, sweepVars, halted, degraded, dbVars, unlisted>>
     \/ held[Sym] # pos[Sym].qty /\ MarkUnknown(cur, pos) /\ EndOp /\ NotBooked
     \/ Absorbed /\ UNCHANGED armed
  /\ UNCHANGED <<pos, recVars, claimVars, brokerVars, cut, owned, late>>

CloseExit ==
  /\ pc = "x_close"
  /\ IF res.unknown \/ res.status = "SUBMITTED"
     THEN MarkUnknown(cur, pos) /\ pc' = "x_book"
     ELSE /\ row' = [row EXCEPT ![cur] = "closed"]
          /\ pc' = IF pos[Sym].qty > res.filled THEN "stop" ELSE "x_book"
          /\ UNCHANGED <<halted, degraded, dpos, dhalt, unlisted>>
  /\ UNCHANGED <<callVars, res, sweepVars, pos, recVars, claimVars, brokerVars, cut, owned, late>>

\* PortfolioManager.record_exit of a confirmed quantity: memory first.
BookExitWhole ==   \* mutant: the position is closed whatever was filled
  /\ pc = "x_book" /\ ToBook
  /\ pos' = [pos EXCEPT ![Sym] = NoPosition]
  /\ pc' = "x_commit"
  /\ UNCHANGED <<callVars, res, sweepVars, halted, degraded, recVars, dbVars,
                 claimVars, brokerVars, history>>

BookExit ==
  /\ pc = "x_book"
  /\ IF ToBook /\ res.filled <= pos[Sym].qty
     THEN /\ pos' = [pos EXCEPT ![Sym] = IF @.qty = res.filled THEN NoPosition
                                          ELSE [qty |-> @.qty - res.filled, stop |-> @.stop]]
          /\ pc' = "x_commit" /\ UNCHANGED <<callVars, res, sweepVars>>
     ELSE EndOp /\ NotBooked /\ UNCHANGED pos
  /\ UNCHANGED <<halted, degraded, recVars, dbVars, claimVars, brokerVars, history>>

\* close_position and save.  They fail when the database is down or does not
\* know the position: that halts, in memory.
CommitExit ==
  /\ pc = "x_commit"
  /\ \/ /\ dpos[Sym].qty > 0
        /\ dpos' = [Saved(pos) EXCEPT ![Sym] = pos[Sym]]
        /\ dhalt' = halted /\ UNCHANGED halted
     \/ halted' = TRUE /\ UNCHANGED <<dpos, dhalt>>
  /\ IF pos[Sym].qty = 0 THEN pc' = "x_rowclose" /\ UNCHANGED <<callVars, res>> ELSE EndOp
  /\ UNCHANGED <<sweepVars, pos, degraded, recVars, row, claimVars, brokerVars, history>>

\* get_open_by_symbol: the entry row of a position that is gone is closed.
OpenRows(s) == {e \in Entries : SymbolOf[e] = s /\ row[e] \in Unfinished \cup {"sl_placed"}}

CloseRow ==
  /\ pc = "x_rowclose"
  /\ \/ /\ \E e \in OpenRows(Sym) :
             /\ row' = [row EXCEPT ![e] = "closed"]
             /\ unlisted' = IF Unresolved(e) THEN unlisted \cup {e} ELSE unlisted
        /\ UNCHANGED sweepVars
     \/ OpenRows(Sym) = {} /\ UNCHANGED <<row, unlisted, sweepVars>>
     \/ NotBooked /\ UNCHANGED <<row, unlisted>>
  /\ EndOp
  /\ UNCHANGED <<pos, halted, degraded, recVars, dpos, dhalt, claimVars, brokerVars,
                 cut, owned, late>>

-----------------------------------------------------------------------------
(* The lifecycle loop: one position, under the lock                        *)

\* The position's stop has sold all of it.
SoldByStop(s) ==
  /\ pos[s].stop # None
  /\ prot[pos[s].stop].st = "complete"
  /\ prot[pos[s].stop].filled = pos[s].qty

BookStop(s) ==
  /\ pc = "idle" /\ pos[s].qty > 0 /\ SoldByStop(s)
  /\ who' = "lifecycle" /\ cur' = pos[s].stop
  /\ pos' = [pos EXCEPT ![s] = NoPosition]
  /\ pc' = "x_commit"
  /\ UNCHANGED <<armed, res, sweepVars, halted, degraded, recVars, dbVars,
                 claimVars, brokerVars, history>>

\* No stop, one that is not working, or an ambiguous fill: degrade.
StopProblemKnown(s) ==   \* mutant: only a stop whose id is known is looked at
  /\ pc = "idle" /\ pos[s].qty > 0 /\ pos[s].stop # None
  /\ ~Protected(s) /\ ~SoldByStop(s)
  /\ degraded' = TRUE
  /\ UNCHANGED <<pc, callVars, res, sweepVars, pos, halted, recVars, dbVars,
                 claimVars, brokerVars, history>>

StopProblem(s) ==
  /\ pc = "idle" /\ pos[s].qty > 0 /\ ~Protected(s) /\ ~SoldByStop(s)
  /\ degraded' = TRUE
  /\ UNCHANGED <<pc, callVars, res, sweepVars, pos, halted, recVars, dbVars,
                 claimVars, brokerVars, history>>

\* Without the lock: a position the broker does not show, or a failed query
\* (of the positions, or of a stop's status).
BrokerDoubt ==
  /\ pc \notin {"down", "recovering"}
  /\ degraded' = TRUE
  /\ UNCHANGED <<pc, callVars, res, sweepVars, pos, halted, recVars, dbVars,
                 claimVars, brokerVars, history>>

-----------------------------------------------------------------------------
(* eod_square_off and the kill switch                                      *)

BeginSquareOff ==
  /\ pc = "idle"
  /\ pc' = "sq" /\ who' = "squareoff"
  /\ todo' = {s \in Symbols : pos[s].qty > 0} /\ errs' = FALSE /\ flat' = FALSE
  /\ UNCHANGED <<cur, armed, res, pos, halted, degraded, recVars, dbVars,
                 claimVars, brokerVars, history>>

AllFlatUnlisted ==   \* mutant: pending intents are not asked for
  ~errs /\ \A s \in Symbols : held[s] = 0 /\ pos[s].qty = 0

AllFlat ==
  /\ ~errs
  /\ \A i \in Ids : ~Unresolved(i)
  /\ \A s \in Symbols : held[s] = 0 /\ pos[s].qty = 0

EndSquareOff ==
  /\ pc = "sq" /\ todo = {}
  /\ pc' = "idle" /\ who' = "entry" /\ errs' = FALSE
  /\ \/ AllFlat /\ flat' = TRUE /\ UNCHANGED <<halted, dhalt, dpos>>
     \/ \* some error, or the broker could not be asked
        flat' = FALSE /\ halted' = TRUE /\ Persist(pos, TRUE)
     \/ \* the rows could not be read: the exception leaves eod_square_off
        flat' = FALSE /\ UNCHANGED <<halted, dhalt, dpos>>
  /\ UNCHANGED <<cur, armed, res, todo, pos, degraded, recVars, row, claimVars,
                 brokerVars, history>>

\* PortfolioManager.emergency_shutdown and persist (kill switch, flatten).
Halt ==
  /\ pc \notin {"down", "recovering"}
  /\ halted' = TRUE /\ Persist(pos, TRUE)
  /\ UNCHANGED <<pc, callVars, res, sweepVars, pos, degraded, recVars, row,
                 claimVars, brokerVars, history>>

\* resume_trading after the operator's review.
Resume ==
  /\ pc \notin {"down", "recovering"}
  /\ halted' = FALSE /\ Persist(pos, FALSE)
  /\ UNCHANGED <<pc, callVars, res, sweepVars, pos, degraded, recVars, row,
                 claimVars, brokerVars, history>>

-----------------------------------------------------------------------------
(* reconcile_on_startup: at startup, and retried by the control loop while *)
(* the status is DEGRADED, without the lock                                *)

BeginRetry ==
  /\ pc \notin {"down", "recovering"} /\ degraded /\ rpc = "off"
  /\ rpc' = "compare" /\ rbad' = (\E i \in Ids : Unresolved(i))
  /\ UNCHANGED <<pc, callVars, res, sweepVars, pos, halted, degraded, dbVars,
                 claimVars, brokerVars, history>>

Mismatch(s) ==
  IF held[s] = 0 THEN pos[s].qty > 0
                 ELSE held[s] # pos[s].qty \/ ~Protected(s)

Compare ==
  /\ rpc = "compare"
  /\ rpc' = "apply"
  /\ \/ rbad' = (rbad \/ \E s \in Symbols : Mismatch(s))
     \/ rbad' = TRUE   \* a query failed
  /\ UNCHANGED <<pc, callVars, res, sweepVars, pos, halted, degraded, dbVars,
                 claimVars, brokerVars, history>>

Apply ==
  /\ rpc = "apply"
  /\ rpc' = "off" /\ rbad' = FALSE /\ degraded' = rbad
  /\ pc' = IF pc = "recovering" THEN "idle" ELSE pc
  /\ late' = (~rbad /\ ((\E i \in Ids : Unresolved(i)) \/ \E s \in Symbols : Mismatch(s)))
  /\ UNCHANGED <<callVars, res, sweepVars, pos, halted, dbVars, claimVars,
                 brokerVars, unlisted, cut, owned>>

-----------------------------------------------------------------------------
Crash ==
  /\ pc # "down"
  /\ pc' = "down" /\ who' = "entry" /\ cur' = None /\ armed' = FALSE
  /\ res' = NoResult /\ todo' = {} /\ errs' = FALSE /\ flat' = FALSE
  /\ rpc' = "off" /\ rbad' = FALSE
  /\ owned' = owned \ {pos[s].stop : s \in {t \in Symbols : pos[t].stop # dpos[t].stop}}
  /\ memclaims' = {}
  /\ UNCHANGED <<pos, halted, degraded, dbVars, claims, unclaimed, brokerVars, unlisted, cut, late>>

\* seed_order_id for each open row, in the store that answers.
Seed ==
  LET open == {e \in Entries : row[e] \in Unfinished \cup {"sl_placed"}} IN
  /\ \E S \in SUBSET open : (S # {} => RedisFails) /\ memclaims' = S /\ claims' = claims \cup (open \ S)
  /\ UNCHANGED unclaimed

\* load the ledger, seed the claims of open rows, reconcile.
RestartQuiet ==   \* mutant: recovery does not read the rows
  /\ pc = "down" /\ pc' = "recovering"
  /\ pos' = dpos /\ halted' = dhalt
  /\ Seed
  /\ rpc' = "compare" /\ rbad' = FALSE
  /\ UNCHANGED <<callVars, res, sweepVars, degraded, dbVars, brokerVars, history>>

Restart ==
  /\ pc = "down" /\ pc' = "recovering"
  /\ pos' = dpos /\ halted' = dhalt
  /\ Seed
  /\ rpc' = "compare" /\ rbad' = (\E i \in Ids : Unresolved(i))
  /\ UNCHANGED <<callVars, res, sweepVars, degraded, dbVars, brokerVars, history>>

-----------------------------------------------------------------------------
OrderStep == \/ Submit \/ Ack \/ SubmitUnknown \/ Record \/ Poll \/ Cancel
             \/ Status \/ PlaceStop \/ StopAck \/ StopConfirmed \/ StopUnconfirmed
EntryStep == \/ Check \/ CreatePending \/ LiveGate \/ RecordFinal \/ RecordFill
             \/ CommitFill
ExitStep  == \/ CancelStop \/ StopStatus \/ CheckQuantity \/ CloseExit
             \/ BookExit \/ CommitExit \/ CloseRow

\* eod_square_off goes from one position to the next.
Sweep == /\ pc = "sq"
         /\ \/ \E x \in Exits : BeginExit(x)
            \/ \E s \in Symbols : BeginExitDbDown(s) \/ SkipExit(s)
            \/ EndSquareOff

\* What the lifecycle loop finds at one position when it gets the lock.
Lifecycle(s) == BookStop(s) \/ StopProblem(s)

Locked == \/ \E e \in Entries : BeginEntry(e)
          \/ \E x \in Exits : pc = "idle" /\ BeginExit(x)
          \/ \E s \in Symbols : Lifecycle(s) \/ (pc = "idle" /\ BeginExitDbDown(s))
          \/ OrderStep \/ EntryStep \/ ExitStep \/ UnknownUnsaved
          \/ BeginSquareOff \/ Sweep

Unlocked == \/ AnalysisTimeout \/ BrokerDoubt \/ Halt \/ Resume
            \/ BeginRetry \/ Compare \/ Apply \/ Crash \/ Restart

Outside == BrokerNext /\ UNCHANGED <<pc, callVars, res, sweepVars, pos, halted,
                                     degraded, recVars, dbVars, claimVars, history>>

Next == Locked \/ Unlocked \/ Outside

Spec == Init /\ [][Next]_vars

\* The lifecycle loop ticks for ever and asyncio.Lock is FIFO, so whatever it
\* finds again and again when the lock is free it gets to act on.  Nothing is
\* assumed of an operation that holds the lock (few of its awaits have a timeout:
\* not the database's, not the exits'), of the broker, the operator or crashes.
Fairness == \A s \in Symbols : SF_vars(Lifecycle(s))

FairSpec == Spec /\ Fairness

-----------------------------------------------------------------------------
(* Properties of entries                                                   *)

\* An order that may still trade has a row that blocks further entries, so a
\* crash cannot lose it: create_pending commits before the request, and a row
\* is finished only on a final answer.  Not so for the ids in unlisted.
DurableIntent ==
  \A i \in Ids : Working(mkt[i]) => Unresolved(i) \/ i \in unlisted

\* An entry is never sent while another order may still trade
\* (_pre_execution_block reads the rows before, not at, the submission).
SubmissionAlone ==
  [][pc = "submit" /\ pc' = "ack" /\ ~IsExit =>
       \A i \in Ids : Working(mkt[i]) => i \in unlisted]_vars

\* No client id is sent a second time while the first order may still trade,
\* whatever timeouts, restarts and released claims came between.  Not so for the
\* ids whose claim Redis did not keep: see unclaimed.
SentOnce ==
  [][pc = "submit" /\ pc' = "ack" /\ Working(mkt[cur]) => cur \in unclaimed]_vars

\* Recovery does not end with reconciliation OK while an order of an earlier
\* run may still trade.
RecoveryFlags ==
  [][pc = "recovering" /\ pc' = "idle" =>
       degraded' \/ \A i \in Ids : Working(mkt[i]) => i \in unlisted]_vars

Intents == INSTANCE OrderIntent WITH
             Buys <- Entries, intent <- {i \in Ids : Unresolved(i)},
             live <- {i \in Ids : Working(mkt[i])}, stray <- unlisted,
             loose <- unclaimed

\* Submission, its answers, timeouts, retries, crashes and recovery, taken
\* together, do no more than OrderIntent allows: every order that may trade has
\* a durable intent, is sent once, and a buy alone.
ImplementsIntents == Intents!Spec

-----------------------------------------------------------------------------
(* Properties of exits and of the ledger                                   *)

\* At most one sell order of an instrument may trade at a time, whichever of
\* the lifecycle and the square-off sent it and however it was left.
OneSell ==
  \A x, y \in Exits :
    SymbolOf[x] = SymbolOf[y] /\ Working(mkt[x]) /\ Working(mkt[y]) => x = y

\* When a sell order is sent, no stop that the ledger has named still works.
SellAfterStops ==
  [][pc = "submit" /\ pc' = "ack" /\ IsExit =>
       \A i \in owned : SymbolOf[i] = Sym => ~Working(prot[i])]_vars

\* A stop the ledger never named (its answer was lost) has sold.
Loose(s) == \E i \in Ids : SymbolOf[i] = s /\ i \notin owned /\ prot[i].filled > 0

\* An id may have gone out twice, and its first order is no longer in mkt, prot.
Twice(s) == \E e \in unlisted \cap unclaimed : SymbolOf[e] = s

\* The account never goes net short, in spite of stops that fill while they are
\* cancelled and of sales that are repeated after a crash.
NoShort == \A s \in Symbols : held[s] >= 0 \/ Loose(s) \/ Twice(s)

StopSold(s) == IF pos[s].stop = None THEN 0 ELSE prot[pos[s].stop].filled
Flagged(s) == degraded \/ \E i \in Ids : SymbolOf[i] = s /\ Unresolved(i)
Doubted(s) == \/ s \in cut \/ late \/ Loose(s)
              \/ \E e \in unlisted : SymbolOf[e] = s

\* Between operations the ledger's quantity is the broker's, up to what the
\* position's own stop has sold and nobody has booked yet, or a row or the
\* reconciliation status says otherwise.
Accounted ==
  \A s \in Symbols : pc = "idle" /\ ~Flagged(s) /\ ~Doubted(s) =>
                       pos[s].qty = held[s] + StopSold(s)

\* After a square-off reported ok no market order may still trade, and no stop
\* that the ledger has named.  Not so for the ids in unlisted, and for a stop whose
\* answer was lost: no row names it, and place_exit has no row for "<id>-r".
FlatNoOrders ==
  flat => \A i \in Ids : /\ Working(mkt[i]) => i \in unlisted
                         /\ Working(prot[i]) => i \notin owned

\* A position whose stop is missing, gone or not the right one is noticed, as
\* long as no operation keeps the lock for ever.
ProtectionNoticed ==
  []<>(pc = "idle") =>
    \A s \in Symbols :
      pos[s].qty > 0 /\ ~Protected(s) ~> degraded \/ pos[s].qty = 0 \/ Protected(s)

-----------------------------------------------------------------------------
(* What docs/SAFETY_AND_CAPITAL.md says, and the code does not             *)

\* "Timeout/ambiguous responses ... latch a halt" (53-54): after a timeout kept
\* a fill from the ledger, something blocks further entries.
TimeoutLatches ==
  cut # {} => halted \/ degraded \/ \E i \in Ids : Unresolved(i)
=============================================================================
