------------------------ MODULE LiveExecutionProofs ------------------------
(***************************************************************************)
(* Proofs about LiveExecution, for every set of instruments and client ids *)
(* and every lot.                                                          *)
(*                                                                         *)
(* TypeOK is not inductive: that a residual's stop has a natural quantity, *)
(* and that the stop of a position being sold is a known id, depend on the *)
(* step the operation is at.  Phase says what each step knows; the parts   *)
(* of TypeOK are grouped by what the actions touch together.               *)
(***************************************************************************)
EXTENDS LiveExecution, TLAPS

\* Steps only an exit is at.
ExitOnly == {"x_stop", "x_stopstatus", "x_qty", "x_close", "x_book"}

\* What the step an operation is at says of its client id, position and result.
Phase ==
  /\ pc \in EntrySteps => cur \in Entries
  /\ pc \in ExitOnly => cur \in Exits
  /\ pc \in OrderSteps \cup {"x_commit", "x_rowclose"} => cur \in Ids
  /\ pc \in {"x_stop", "x_stopstatus"} => pos[Sym].stop # None
  /\ pc = "stop" /\ IsExit => res.filled < pos[Sym].qty

\* The structured variables.
Values ==
  /\ res \in Result
  /\ pos \in [Symbols -> Position] /\ dpos \in [Symbols -> Position]
  /\ row \in [Ids -> RowStatus]

\* The flat ones.
Flags ==
  /\ pc \in Steps /\ who \in {"entry", "lifecycle", "squareoff"}
  /\ cur \in Ids \cup {None} /\ armed \in BOOLEAN
  /\ todo \in SUBSET Symbols /\ errs \in BOOLEAN /\ flat \in BOOLEAN
  /\ halted \in BOOLEAN /\ dhalt \in BOOLEAN /\ degraded \in BOOLEAN
  /\ rpc \in {"off", "compare", "apply"} /\ rbad \in BOOLEAN
  /\ claims \in SUBSET Entries /\ memclaims \in SUBSET Entries
  /\ unclaimed \in SUBSET Entries /\ unlisted \in SUBSET Entries
  /\ cut \in SUBSET Symbols /\ owned \in SUBSET Ids /\ late \in BOOLEAN

\* The inductive invariant.
Typed == BrokerTypeOK /\ Values /\ Flags /\ Phase

USE IdsAssumption, LotAssumption DEF Ids, claimVars

-----------------------------------------------------------------------------
(* What the shared fragments of actions do                                 *)

\* What _unknown writes.
Marks ==
  /\ dpos \in [Symbols -> Position] /\ row \in [Ids -> RowStatus]
  /\ dhalt \in BOOLEAN /\ degraded \in BOOLEAN /\ halted \in BOOLEAN
  /\ unlisted \in SUBSET Entries

\* Where the operation is.
Seat ==
  /\ pc \in Steps /\ who \in {"entry", "lifecycle", "squareoff"}
  /\ cur \in Ids \cup {None} /\ res \in Result

\* What the square-off keeps.
Sweeping == todo \in SUBSET Symbols /\ errs \in BOOLEAN /\ flat \in BOOLEAN

\* The claims of entries.
Claims ==
  claims \in SUBSET Entries /\ memclaims \in SUBSET Entries /\ unclaimed \in SUBSET Entries

\* A broker order keeps its type when its state changes or a unit is executed.
LEMMA OrderTyped ==
  ASSUME NEW o \in BrokerOrder
  PROVE  /\ o.st \in OrderState /\ o.qty \in Nat /\ o.filled \in Nat
         /\ \A st \in OrderState : [o EXCEPT !.st = st] \in BrokerOrder
         /\ Executed(o) \in BrokerOrder
<1>1. /\ o.st \in OrderState /\ o.qty \in Nat /\ o.filled \in Nat
      /\ \A st \in OrderState : [o EXCEPT !.st = st] \in BrokerOrder
  BY DEF BrokerOrder
<1>2. DEFINE st == IF o.filled + 1 >= o.qty THEN "complete" ELSE o.st
<1>3. st \in OrderState /\ o.filled + 1 \in Nat
  BY <1>1 DEF OrderState
<1>4. Executed(o) = [o EXCEPT !.filled = o.filled + 1, !.st = st]
  BY DEF Executed
<1>5. Executed(o) \in BrokerOrder
  BY <1>3, <1>4 DEF BrokerOrder
<1> QED BY <1>1, <1>5

\* A request of a natural quantity is a broker order.
LEMMA SentTyped == ASSUME NEW q \in Nat PROVE Sent(q) \in BrokerOrder
BY DEF Sent, BrokerOrder, OrderState

\* PortfolioRepository.save writes well-typed positions.
LEMMA SavedTyped ==
  ASSUME Typed, NEW p \in [Symbols -> Position]
  PROVE  Saved(p) \in [Symbols -> Position]
BY DEF Typed, Values, Saved

\* The end of an operation leaves the lock free, or with the square-off.
LEMMA EndOpEffect ==
  ASSUME Typed, EndOp
  PROVE  /\ pc' \in {"idle", "sq"} /\ cur' = None /\ armed' = FALSE
         /\ Seat'
BY DEF EndOp, Seat, Typed, Flags, Steps, NoResult, Result

\* An exit that booked nothing leaves the square-off's variables typed.
LEMMA NotBookedEffect == ASSUME Typed, NotBooked PROVE Sweeping'
BY DEF Typed, Flags, NotBooked, Sweeping

\* PortfolioManager.persist leaves the database typed, whether it succeeds or not.
LEMMA PersistEffect ==
  ASSUME Typed, NEW p \in [Symbols -> Position], NEW h \in BOOLEAN, Persist(p, h)
  PROVE  dpos' \in [Symbols -> Position] /\ dhalt' \in BOOLEAN
BY SavedTyped DEF Typed, Values, Flags, Persist

\* ExecutionEngine._unknown leaves rows, ledger copy and flags typed.
LEMMA MarkEffect ==
  ASSUME Typed, NEW id \in Ids \cup {None}, NEW p \in [Symbols -> Position],
         MarkUnknown(id, p)
  PROVE  Marks'
<1>1. dpos' \in [Symbols -> Position] /\ dhalt' \in BOOLEAN
  BY PersistEffect DEF MarkUnknown
<1>2. row' \in [Ids -> RowStatus]
  BY DEF MarkUnknown, Typed, Values, RowStatus
<1>3. degraded' \in BOOLEAN /\ halted' \in BOOLEAN /\ unlisted' \in SUBSET Entries
  BY DEF MarkUnknown, Listed, Typed, Flags
<1> QED BY <1>1, <1>2, <1>3 DEF Marks

\* So does _unknown when the database is down.
LEMMA UnsavedEffect == ASSUME Typed, MarkUnknownUnsaved PROVE Marks'
BY DEF Typed, Flags, Values, MarkUnknownUnsaved, Marks, dbVars

\* An absorbed exception or cancellation ends an exit, and takes an entry to its
\* final record.
LEMMA AbsorbedEffect ==
  ASSUME Typed, cur \in Ids, Absorbed
  PROVE  /\ Marks' /\ Seat' /\ Sweeping'
         /\ pc' \in {"final", "idle", "sq"}
         /\ pc' = "final" => cur' \in Entries
<1>0. pos \in [Symbols -> Position] /\ res \in Result
  BY DEF Typed, Values
<1>1. CASE ~IsExit /\ pc' = "final"
  <2>1. Marks'
    BY <1>0, <1>1, MarkEffect, EndOpEffect DEF Absorbed
  <2>2. res' \in Result /\ cur' = cur /\ who' = who /\ UNCHANGED sweepVars
    BY <1>0, <1>1, EndOpEffect DEF Absorbed, Result
  <2> QED BY <1>1, <2>1, <2>2 DEF Seat, Sweeping, sweepVars, Typed, Flags, Steps,
     EntrySteps, IsExit
<1>2. CASE IsExit
  <2>1. MarkUnknown(None, pos) /\ NotBooked /\ EndOp
    BY <1>2 DEF Absorbed
  <2> QED BY <1>0, <2>1, MarkEffect, EndOpEffect, NotBookedEffect
<1> QED BY <1>1, <1>2 DEF Absorbed

\* claim_order_id takes the claim of an entry.
LEMMA ClaimEffect == ASSUME Typed, NEW e \in Entries, Claim(e) PROVE Claims'
BY DEF Typed, Flags, Claim, Claims

-----------------------------------------------------------------------------
(* One lemma per action                                                    *)

\* BeginEntry: analyze_symbol takes the lock for an entry; the invariant is
\* kept.
LEMMA BeginEntryTyped == ASSUME Typed, NEW e \in Entries, BeginEntry(e) PROVE Typed'
<1>1. BrokerTypeOK'
  BY DEF Typed, BrokerTypeOK, brokerVars, BeginEntry
<1>2. Values'
  BY DEF Typed, Values, dbVars, BeginEntry
<1>3. Flags'
  BY DEF Typed, Flags, Steps, EntrySteps, ExitSteps, OrderSteps, recVars, dbVars,
     history, BeginEntry
<1>4. Phase'
  BY DEF Typed, Phase, ExitOnly, BeginEntry
<1> QED BY <1>1, <1>2, <1>3, <1>4 DEF Typed

\* Check: _pre_execution_block and the claim; the invariant is kept.
LEMMA CheckTyped == ASSUME Typed, Check PROVE Typed'
<1>1. BrokerTypeOK'
  BY DEF Typed, BrokerTypeOK, brokerVars, Check
<1>0. Seat' /\ Claims'
  <2>1. CASE EndOp /\ UNCHANGED claimVars
    BY <2>1, EndOpEffect DEF Typed, Flags, Claims
  <2>2. CASE Claim(cur) /\ pc' = "intent" /\ UNCHANGED <<callVars, res>>
    <3>1. cur \in Entries
      BY DEF Check, Typed, Phase, EntrySteps
    <3>2. Claims'
      BY <2>2, <3>1, ClaimEffect
    <3> QED BY <2>2, <3>2 DEF Typed, Values, Flags, Seat, callVars, Steps,
         EntrySteps, ExitSteps, OrderSteps
  <2> QED BY <2>1, <2>2 DEF Check
<1>2. Values'
  BY <1>0 DEF Typed, Values, Seat, Check, dbVars
<1>3. Flags'
  <2>1. armed' \in BOOLEAN
    BY EndOpEffect DEF Check, Typed, Flags, callVars
  <2> QED BY <1>0, <2>1 DEF Typed, Flags, Claims, Seat, Check, sweepVars, recVars,
     dbVars, history
<1>4. Phase'
  BY DEF Typed, Phase, EntrySteps, ExitSteps, OrderSteps, ExitOnly, callVars,
     Check, EndOp, NotBooked, Absorbed, Attached, MarkUnknown
<1> QED BY <1>1, <1>2, <1>3, <1>4 DEF Typed

\* CreatePending: create_pending; the invariant is kept.
LEMMA CreatePendingTyped == ASSUME Typed, CreatePending PROVE Typed'
<1>1. BrokerTypeOK'
  BY DEF Typed, BrokerTypeOK, brokerVars, CreatePending
<1>0. Seat' /\ row' \in [Ids -> RowStatus] /\ unlisted' \in SUBSET Entries /\ armed' \in BOOLEAN
  <2>1. CASE EndOp /\ UNCHANGED <<row, unlisted>>
    BY <2>1, EndOpEffect DEF Typed, Values, Flags
  <2>2. CASE /\ row' = [row EXCEPT ![cur] = IF @ = "none" THEN "pending" ELSE @]
             /\ unlisted' = IF row[cur] = "none" THEN unlisted ELSE unlisted \cup {cur}
             /\ pc' = "gate" /\ UNCHANGED <<callVars, res>>
    BY <2>2 DEF CreatePending, Typed, Phase, Values, Flags, Seat, callVars,
       RowStatus, Steps, EntrySteps, ExitSteps, OrderSteps
  <2> QED BY <2>1, <2>2 DEF CreatePending
<1>2. Values'
  BY <1>0 DEF Typed, Values, Seat, CreatePending
<1>3. Flags'
  BY <1>0 DEF Typed, Flags, Seat, CreatePending, sweepVars, recVars
<1>4. Phase'
  BY DEF Typed, Phase, EntrySteps, ExitSteps, OrderSteps, ExitOnly, callVars,
     CreatePending, EndOp, NotBooked, Absorbed, Attached, MarkUnknown
<1> QED BY <1>1, <1>2, <1>3, <1>4 DEF Typed

\* LiveGate: _live_allowed; the invariant is kept.
LEMMA LiveGateTyped == ASSUME Typed, LiveGate PROVE Typed'
<1>1. BrokerTypeOK'
  BY DEF Typed, BrokerTypeOK, brokerVars, LiveGate
<1>2. Values'
  BY DEF Typed, Values, Result, dbVars, LiveGate
<1>3. Flags'
  BY DEF Typed, Flags, Steps, EntrySteps, ExitSteps, OrderSteps, callVars,
     sweepVars, recVars, dbVars, history, LiveGate
<1>4. Phase'
  BY DEF Typed, Phase, EntrySteps, ExitSteps, OrderSteps, ExitOnly, callVars, LiveGate
<1> QED BY <1>1, <1>2, <1>3, <1>4 DEF Typed

\* Submit: the request of _submit_live and _place_with_retry is sent; the
\* invariant is kept.
LEMMA SubmitTyped == ASSUME Typed, Submit PROVE Typed'
<1>0. cur \in Ids /\ pos[Sym].qty \in Nat
  BY DEF Submit, Typed, Phase, Values, Position, OrderSteps, Sym
<1>1. BrokerTypeOK'
  <2>1. Sent(IF IsExit THEN pos[Sym].qty ELSE Lot) \in BrokerOrder
    BY <1>0, SentTyped
  <2> QED BY <2>1 DEF Typed, BrokerTypeOK, Submit
<1>2. Values'
  BY DEF Typed, Values, Submit, dbVars
<1>3. Flags'
  BY DEF Typed, Flags, Submit, callVars, sweepVars, recVars, dbVars, history,
     Steps, EntrySteps, ExitSteps, OrderSteps
<1>4. Phase'
  BY DEF Typed, Phase, EntrySteps, ExitSteps, OrderSteps, ExitOnly, callVars,
     Submit, Attached
<1> QED BY <1>1, <1>2, <1>3, <1>4 DEF Typed

\* Ack: broker.place_order returns; the invariant is kept.
LEMMA AckTyped == ASSUME Typed, Ack PROVE Typed'
<1>1. BrokerTypeOK'
  BY DEF Typed, BrokerTypeOK, brokerVars, Ack
<1>2. Values'
  BY DEF Typed, Values, Result, dbVars, Ack
<1>3. Flags'
  BY DEF Typed, Flags, Steps, EntrySteps, ExitSteps, OrderSteps, callVars,
     sweepVars, recVars, dbVars, history, Ack
<1>4. Phase'
  BY DEF Typed, Phase, EntrySteps, ExitSteps, OrderSteps, ExitOnly, callVars, Ack
<1> QED BY <1>1, <1>2, <1>3, <1>4 DEF Typed

\* SubmitUnknown: a submission that times out or raises; the invariant is
\* kept.
LEMMA SubmitUnknownTyped == ASSUME Typed, SubmitUnknown PROVE Typed'
<1>1. BrokerTypeOK'
  BY DEF Typed, BrokerTypeOK, brokerVars, SubmitUnknown
<1>2. Values'
  BY DEF Typed, Values, Result, RowStatus, SubmitUnknown, MarkUnknown, Persist, Saved
<1>3. Flags'
  BY DEF Typed, Flags, Steps, EntrySteps, ExitSteps, OrderSteps, callVars,
     sweepVars, recVars, SubmitUnknown, MarkUnknown, Listed, Persist, Saved
<1>4. Phase'
  BY DEF Typed, Phase, EntrySteps, ExitSteps, OrderSteps, ExitOnly, callVars,
     SubmitUnknown
<1> QED BY <1>1, <1>2, <1>3, <1>4 DEF Typed

\* UnknownUnsaved: _unknown with the database down; the invariant is kept.
LEMMA UnknownUnsavedTyped == ASSUME Typed, UnknownUnsaved PROVE Typed'
<1>1. BrokerTypeOK'
  BY DEF Typed, BrokerTypeOK, brokerVars, UnknownUnsaved
<1>2. Values'
  BY DEF Typed, Values, Result, NoResult, dbVars, UnknownUnsaved, EndOp,
     NotBooked, MarkUnknownUnsaved
<1>3. Flags'
  BY DEF Typed, Flags, Steps, recVars, dbVars, UnknownUnsaved, EndOp, NotBooked,
     MarkUnknownUnsaved
<1>4. Phase'
  BY DEF Typed, Phase, EntrySteps, ExitSteps, OrderSteps, ExitOnly,
     UnknownUnsaved, EndOp, NotBooked
<1> QED BY <1>1, <1>2, <1>3, <1>4 DEF Typed

\* Record: _record_result of a submission; the invariant is kept.
LEMMA RecordTyped == ASSUME Typed, Record PROVE Typed'
<1>1. BrokerTypeOK'
  BY DEF Typed, BrokerTypeOK, brokerVars, Record
<1>0. Seat' /\ Marks' /\ Sweeping' /\ armed' \in BOOLEAN
  <2>0. cur \in Ids
    BY DEF Typed, Phase, Record, OrderSteps
  <2>1. CASE Absorbed /\ UNCHANGED armed
    BY <2>0, <2>1, AbsorbedEffect DEF Typed, Flags
  <2>2. CASE EndOp /\ UNCHANGED <<sweepVars, halted, degraded, dbVars, unlisted>>
    BY <2>2, EndOpEffect DEF Typed, Values, Flags, Marks, Seat, Sweeping,
       sweepVars, dbVars
  <2>3. CASE /\ row' = [row EXCEPT ![cur] = IF res.unknown THEN "unknown" ELSE "submitted"]
             /\ Listed(cur)
             /\ pc' = IF res.id THEN "poll" ELSE IF IsExit THEN "x_close" ELSE "final"
             /\ UNCHANGED <<callVars, res, sweepVars, halted, degraded, dpos, dhalt>>
    <3>1. pc' \in Steps
      BY <2>3 DEF Steps, EntrySteps, ExitSteps, OrderSteps
    <3>2. row' \in [Ids -> RowStatus]
      BY <2>3 DEF Typed, Values, RowStatus
    <3>3. unlisted' \in SUBSET Entries
      BY <2>3 DEF Listed, Typed, Flags
    <3> QED BY <2>3, <3>1, <3>2, <3>3 DEF Typed, Values, Flags, Marks, Seat, Sweeping,
       callVars, sweepVars
  <2> QED BY <2>1, <2>2, <2>3 DEF Record
<1>2. Values'
  BY <1>0 DEF Typed, Values, Flags, Marks, Seat, Sweeping, Record
<1>3. Flags'
  BY <1>0 DEF Typed, Values, Flags, Marks, Seat, Sweeping, Record, recVars
<1>4. Phase'
  BY DEF Typed, Phase, EntrySteps, ExitSteps, OrderSteps, ExitOnly, callVars,
     Record, EndOp, NotBooked, Absorbed, Attached, IsExit, MarkUnknown
<1> QED BY <1>1, <1>2, <1>3, <1>4 DEF Typed

\* Poll: reconcile_order; the invariant is kept.
LEMMA PollTyped == ASSUME Typed, Poll PROVE Typed'
<1>1. BrokerTypeOK'
  BY DEF Typed, BrokerTypeOK, brokerVars, Poll
<1>0. res' \in Result
  <2>0. cur \in Ids /\ mkt[cur].filled \in Nat /\ res \in Result
    BY OrderTyped DEF Typed, Values, Phase, Poll, OrderSteps, BrokerTypeOK
  <2>1. CASE res' = [res EXCEPT !.status = "FILLED", !.filled = mkt[cur].filled]
    BY <2>0, <2>1 DEF Result
  <2>2. CASE res' = [res EXCEPT !.status = "REJECTED"]
    BY <2>0, <2>2 DEF Result
  <2>3. CASE res' = [res EXCEPT !.status = "PARTIAL", !.filled = mkt[cur].filled]
    BY <2>0, <2>3 DEF Result
  <2>4. CASE \E u \in BOOLEAN : res' = [res EXCEPT !.unknown = u]
    BY <2>0, <2>4 DEF Result
  <2>5. CASE res' = [res EXCEPT !.status = "FAILED"]
    BY <2>0, <2>5 DEF Result
  <2> QED BY <2>1, <2>2, <2>3, <2>4, <2>5 DEF Poll
<1>2. Values'
  BY <1>0 DEF Typed, Values, Poll, dbVars
<1>3. Flags'
  BY DEF Typed, Flags, Poll, Settled, callVars, sweepVars, recVars, dbVars,
     history, Steps, EntrySteps, ExitSteps, OrderSteps
<1>4. Phase'
  BY DEF Typed, Phase, EntrySteps, ExitSteps, OrderSteps, ExitOnly, callVars,
     Poll, Settled, Attached, IsExit
<1> QED BY <1>1, <1>2, <1>3, <1>4 DEF Typed

\* Cancel: cancel_order after an unfinished reconciliation; the invariant is
\* kept.
LEMMA CancelTyped == ASSUME Typed, Cancel PROVE Typed'
<1>0. cur \in Ids
  BY DEF Typed, Phase, Cancel, OrderSteps
<1>1. BrokerTypeOK'
  <2>1. mkt[cur] \in BrokerOrder
    BY <1>0 DEF Typed, BrokerTypeOK
  <2>2. [mkt[cur] EXCEPT !.st = IF @ = "open" THEN "cancelled" ELSE @] \in BrokerOrder
    BY <2>1 DEF BrokerOrder, OrderState
  <2>3. mkt' \in [Ids -> BrokerOrder]
    BY <2>2 DEF Cancel, Typed, BrokerTypeOK
  <2> QED BY <2>3 DEF Cancel, Typed, BrokerTypeOK
<1>9. Seat' /\ Marks' /\ Sweeping' /\ armed' \in BOOLEAN
  <2>1. CASE Absorbed /\ UNCHANGED armed
    BY <1>0, <2>1, AbsorbedEffect DEF Typed, Flags
  <2>2. CASE pc' = "status" /\ UNCHANGED <<callVars, res, sweepVars, halted, degraded, dbVars, unlisted>>
    BY <2>2 DEF Typed, Values, Flags, Marks, Seat, Sweeping, callVars,
       sweepVars, dbVars, Steps, EntrySteps, ExitSteps, OrderSteps
  <2> QED BY <2>1, <2>2 DEF Cancel
<1>2. Values'
  BY <1>9 DEF Typed, Values, Flags, Marks, Seat, Sweeping, Cancel
<1>3. Flags'
  BY <1>9 DEF Typed, Values, Flags, Marks, Seat, Sweeping, Cancel, recVars
<1>4. Phase'
  BY DEF Typed, Phase, EntrySteps, ExitSteps, OrderSteps, ExitOnly, callVars,
     Cancel, EndOp, NotBooked, Absorbed, Attached, IsExit, MarkUnknown
<1> QED BY <1>1, <1>2, <1>3, <1>4 DEF Typed

\* Status: fetch_order_status after the cancel; the invariant is kept.
LEMMA StatusTyped == ASSUME Typed, Status PROVE Typed'
<1>1. BrokerTypeOK'
  BY DEF Typed, BrokerTypeOK, brokerVars, Status
<1>0. cur \in Ids /\ mkt[cur].filled \in Nat /\ res \in Result /\ pos \in [Symbols -> Position]
  BY OrderTyped DEF Typed, Values, Phase, Status, OrderSteps, BrokerTypeOK
<1>9. Seat' /\ Marks' /\ Sweeping' /\ armed' \in BOOLEAN
  <2>1. CASE \E st \in {"REJECTED", "PARTIAL", "FILLED"} :
               /\ res' = [res EXCEPT !.filled = mkt[cur].filled, !.status = st]
               /\ pc' = Settled(res')
               /\ UNCHANGED <<callVars, sweepVars, halted, degraded, dbVars, unlisted>>
    <3>1. res' \in Result
      BY <1>0, <2>1 DEF Result
    <3> QED BY <2>1, <3>1 DEF Typed, Values, Flags, Marks, Seat, Sweeping,
       callVars, sweepVars, dbVars, Steps, EntrySteps, ExitSteps, OrderSteps,
       Settled
  <2>2. CASE MarkUnknown(cur, pos) /\ IsExit /\ EndOp /\ NotBooked
    BY <1>0, <2>2, MarkEffect, EndOpEffect, NotBookedEffect
  <2>3. CASE /\ MarkUnknown(cur, pos)
             /\ res' = [res EXCEPT !.unknown = TRUE]
             /\ pc' = Settled(res) /\ UNCHANGED <<callVars, sweepVars>>
    <3>1. res' \in Result
      BY <1>0, <2>3 DEF Result
    <3>2. Marks'
      BY <1>0, <2>3, MarkEffect
    <3> QED BY <2>3, <3>1, <3>2 DEF Typed, Values, Flags, Marks, Seat, Sweeping,
       callVars, sweepVars, Steps, EntrySteps, ExitSteps, OrderSteps, Settled
  <2> QED BY <2>1, <2>2, <2>3 DEF Status
<1>2. Values'
  BY <1>9 DEF Typed, Values, Flags, Marks, Seat, Sweeping, Status
<1>3. Flags'
  BY <1>9 DEF Typed, Values, Flags, Marks, Seat, Sweeping, Status, recVars
<1>4. Phase'
  BY DEF Typed, Phase, EntrySteps, ExitSteps, OrderSteps, ExitOnly, callVars,
     Status, EndOp, NotBooked, Absorbed, Settled, Attached, IsExit, MarkUnknown
<1> QED BY <1>1, <1>2, <1>3, <1>4 DEF Typed

\* PlaceStop: _attach_stop_loss sends the stop (for an exit, of a residual
\* that is a natural number); the invariant is kept.
LEMMA PlaceStopTyped == ASSUME Typed, PlaceStop PROVE Typed'
<1>0. cur \in Ids /\ pos[Sym].qty \in Nat /\ res.filled \in Nat
  BY DEF PlaceStop, Typed, Phase, Values, Position, Result, OrderSteps, Sym
<1>1. BrokerTypeOK'
  <2>1. (IF IsExit THEN pos[Sym].qty - res.filled ELSE res.filled) \in Nat
    BY <1>0 DEF Typed, Phase, PlaceStop
  <2>2. Sent(IF IsExit THEN pos[Sym].qty - res.filled ELSE res.filled) \in BrokerOrder
    BY <2>1, SentTyped
  <2> QED BY <2>2 DEF Typed, BrokerTypeOK, PlaceStop
<1>2. Values'
  BY DEF Typed, Values, PlaceStop, dbVars
<1>3. Flags'
  BY DEF Typed, Flags, PlaceStop, callVars, sweepVars, recVars, dbVars, history,
     Steps, EntrySteps, ExitSteps, OrderSteps
<1>4. Phase'
  BY DEF Typed, Phase, EntrySteps, ExitSteps, OrderSteps, ExitOnly, callVars,
     PlaceStop, Attached
<1> QED BY <1>1, <1>2, <1>3, <1>4 DEF Typed

\* StopAck: place_stop_loss returns; the invariant is kept.
LEMMA StopAckTyped == ASSUME Typed, StopAck PROVE Typed'
<1>1. BrokerTypeOK'
  BY DEF Typed, BrokerTypeOK, brokerVars, StopAck
<1>2. Values'
  BY DEF Typed, Values, Result, dbVars, StopAck
<1>3. Flags'
  BY DEF Typed, Flags, Steps, EntrySteps, ExitSteps, OrderSteps, callVars,
     sweepVars, recVars, dbVars, history, StopAck
<1>4. Phase'
  BY DEF Typed, Phase, EntrySteps, ExitSteps, OrderSteps, ExitOnly, callVars, StopAck
<1> QED BY <1>1, <1>2, <1>3, <1>4 DEF Typed

\* StopConfirmed: the stop is confirmed as working; the invariant is kept.
LEMMA StopConfirmedTyped == ASSUME Typed, StopConfirmed PROVE Typed'
<1>1. BrokerTypeOK'
  BY DEF Typed, BrokerTypeOK, brokerVars, StopConfirmed
<1>2. Values'
  BY DEF Typed, Values, Position, dbVars, StopConfirmed, Attached, IsExit
<1>3. Flags'
  BY DEF Typed, Flags, Steps, EntrySteps, ExitSteps, OrderSteps, callVars,
     sweepVars, recVars, dbVars, StopConfirmed, Attached, IsExit
<1>4. Phase'
  BY DEF Typed, Phase, EntrySteps, ExitSteps, OrderSteps, ExitOnly, callVars,
     StopConfirmed, Attached, IsExit
<1> QED BY <1>1, <1>2, <1>3, <1>4 DEF Typed

\* StopUnconfirmed: the stop is not confirmed; the invariant is kept.
LEMMA StopUnconfirmedTyped == ASSUME Typed, StopUnconfirmed PROVE Typed'
<1>1. BrokerTypeOK'
  BY DEF Typed, BrokerTypeOK, brokerVars, StopUnconfirmed
<1>0. cur \in Ids /\ pos \in [Symbols -> Position]
  BY DEF Typed, Phase, Values, StopUnconfirmed, OrderSteps
<1>8. pos' \in [Symbols -> Position]
  BY <1>0 DEF Position, StopUnconfirmed, Attached
<1>9. Marks'
  BY <1>0, MarkEffect DEF StopUnconfirmed
<1>2. Values'
  BY <1>8, <1>9 DEF Typed, Values, Result, Marks, StopUnconfirmed
<1>3. Flags'
  <2>1. pc' \in {"x_book", "final"} /\ owned' \in SUBSET Ids
    BY <1>0 DEF Typed, Flags, StopUnconfirmed, Attached
  <2> QED BY <1>9, <2>1 DEF Typed, Flags, Marks, Steps, EntrySteps, ExitSteps,
     OrderSteps, StopUnconfirmed, callVars,
        sweepVars, recVars
<1>4. Phase'
  BY DEF Typed, Phase, EntrySteps, ExitSteps, OrderSteps, ExitOnly, callVars,
     StopUnconfirmed, Attached, IsExit
<1> QED BY <1>1, <1>2, <1>3, <1>4 DEF Typed

\* RecordFinal: _record_result of a final result; the invariant is kept.
LEMMA RecordFinalTyped == ASSUME Typed, RecordFinal PROVE Typed'
<1>1. BrokerTypeOK'
  BY DEF Typed, BrokerTypeOK, brokerVars, RecordFinal
<1>0. Seat' /\ row' \in [Ids -> RowStatus] /\ armed' \in BOOLEAN
  <2>1. RowOf(res) \in RowStatus
    BY DEF RowOf, RowStatus, Unfinished
  <2>2. row' \in [Ids -> RowStatus]
    BY <2>1 DEF RecordFinal, Typed, Values
  <2>3. CASE EndOp
    BY <2>2, <2>3, EndOpEffect
  <2>4. CASE pc' = "fill" /\ UNCHANGED <<callVars, res>>
    BY <2>2, <2>4 DEF Typed, Values, Flags, Marks, Seat, Sweeping, callVars,
       Steps, EntrySteps, ExitSteps, OrderSteps
  <2> QED BY <2>3, <2>4 DEF RecordFinal
<1>2. Values'
  BY <1>0 DEF Typed, Values, Seat, RecordFinal
<1>3. Flags'
  <2>1. unlisted' \in SUBSET Entries
    BY DEF Typed, Flags, RecordFinal, Listed
  <2>2. claims' \in SUBSET Entries /\ memclaims' \in SUBSET Entries
    BY DEF Typed, Flags, RecordFinal, Released
  <2>3. unclaimed' \in SUBSET Entries
    BY DEF Typed, Flags, Phase, RecordFinal, EntrySteps
  <2> QED BY <1>0, <2>1, <2>2, <2>3 DEF Typed, Flags, Seat, RecordFinal, sweepVars, recVars
<1>4. Phase'
  BY DEF Typed, Phase, EntrySteps, ExitSteps, OrderSteps, ExitOnly, callVars,
     RecordFinal, EndOp, NotBooked, Absorbed, Attached, MarkUnknown
<1> QED BY <1>1, <1>2, <1>3, <1>4 DEF Typed

\* RecordFill: record_fill in memory; the invariant is kept.
LEMMA RecordFillTyped == ASSUME Typed, RecordFill PROVE Typed'
<1>1. BrokerTypeOK'
  BY DEF Typed, BrokerTypeOK, brokerVars, RecordFill
<1>0. cur \in Ids /\ res \in Result
  BY DEF Typed, Phase, Values, RecordFill, EntrySteps
<1>2. Values'
  <2>1. [qty |-> res.filled, stop |-> IF res.stop THEN cur ELSE None] \in Position
    BY <1>0 DEF Position, Result
  <2>2. pos' \in [Symbols -> Position]
    BY <2>1 DEF RecordFill, Typed, Values
  <2> QED BY <2>2 DEF RecordFill, Typed, Values, dbVars
<1>3. Flags'
  <2>1. owned' \in SUBSET Ids
    BY <1>0 DEF RecordFill, Typed, Flags
  <2> QED BY <2>1 DEF RecordFill, Typed, Flags, callVars, sweepVars, recVars,
     dbVars, Steps, EntrySteps, ExitSteps, OrderSteps
<1>4. Phase'
  BY DEF Typed, Phase, EntrySteps, ExitSteps, OrderSteps, ExitOnly, callVars,
     RecordFill, Attached
<1> QED BY <1>1, <1>2, <1>3, <1>4 DEF Typed

\* CommitFill: record_fill in the database; the invariant is kept.
LEMMA CommitFillTyped == ASSUME Typed, CommitFill PROVE Typed'
<1>1. BrokerTypeOK'
  BY DEF Typed, BrokerTypeOK, brokerVars, CommitFill
<1>2. Values'
  BY DEF Typed, Values, Result, NoResult, CommitFill, EndOp, Saved
<1>3. Flags'
  BY DEF Typed, Flags, Steps, sweepVars, recVars, history, CommitFill, EndOp
<1>4. Phase'
  BY DEF Typed, Phase, EntrySteps, ExitSteps, OrderSteps, ExitOnly, CommitFill, EndOp
<1> QED BY <1>1, <1>2, <1>3, <1>4 DEF Typed

\* AnalysisTimeout: asyncio.wait_for in analyze_symbol cancels the operation;
\* the invariant is kept.
LEMMA AnalysisTimeoutTyped == ASSUME Typed, AnalysisTimeout PROVE Typed'
<1>1. BrokerTypeOK'
  BY DEF Typed, BrokerTypeOK, brokerVars, AnalysisTimeout
<1>9. Seat' /\ Marks' /\ Sweeping' /\ armed' \in BOOLEAN /\ cut' \in SUBSET Symbols
  <2>1. CASE EndOp /\ UNCHANGED <<halted, degraded, dbVars, unlisted, cut, sweepVars>>
    BY <2>1, EndOpEffect DEF Typed, Values, Flags, Marks, Seat, Sweeping,
       sweepVars, dbVars
  <2>2. CASE /\ EndOp
             /\ \/ UNCHANGED <<row, unlisted>>
                \/ /\ row' = [row EXCEPT ![cur] = IF res.unknown THEN "unknown" ELSE "submitted"]
                   /\ Listed(cur)
             /\ UNCHANGED <<halted, degraded, dpos, dhalt, cut, sweepVars>>
    <3>1. row' \in [Ids -> RowStatus]
      BY <2>2 DEF Typed, Values, RowStatus
    <3>2. unlisted' \in SUBSET Entries
      BY <2>2 DEF Listed, Typed, Flags
    <3> QED BY <2>2, <3>1, <3>2, EndOpEffect DEF Typed, Values, Flags, Marks,
       Seat, Sweeping, sweepVars
  <2>3. CASE /\ pc \in {"poll", "cancel", "status", "stop", "stopack", "stopcheck"}
             /\ Absorbed /\ armed' = FALSE /\ UNCHANGED cut
    <3>1. cur \in Ids
      BY <2>3 DEF Typed, Phase, OrderSteps
    <3> QED BY <2>3, <3>1, AbsorbedEffect DEF Typed, Flags
  <2>4. CASE /\ pc = "fill" /\ EndOp /\ cut' = cut \cup {Sym}
             /\ UNCHANGED <<halted, degraded, dbVars, unlisted, sweepVars>>
    <3>1. Sym \in Symbols
      BY <2>4 DEF Typed, Phase, EntrySteps, Sym
    <3>2. cut' \in SUBSET Symbols
      BY <2>4, <3>1 DEF Typed, Flags
    <3> QED BY <2>4, <3>2, EndOpEffect DEF Typed, Values, Flags, Marks, Seat,
       Sweeping, sweepVars, dbVars
  <2> QED BY <2>1, <2>2, <2>3, <2>4 DEF AnalysisTimeout
<1>2. Values'
  BY <1>9 DEF Typed, Values, Flags, Marks, Seat, Sweeping, AnalysisTimeout
<1>3. Flags'
  BY <1>9 DEF Typed, Values, Flags, Marks, Seat, Sweeping, AnalysisTimeout, recVars
<1>4. Phase'
  BY DEF Typed, Phase, EntrySteps, ExitSteps, OrderSteps, ExitOnly,
     AnalysisTimeout, EndOp, NotBooked, Absorbed, Attached, IsExit, MarkUnknown
<1> QED BY <1>1, <1>2, <1>3, <1>4 DEF Typed

\* BeginExit: place_exit up to the row of the exit; the invariant is kept.
LEMMA BeginExitTyped == ASSUME Typed, NEW x \in Exits, BeginExit(x) PROVE Typed'
<1>1. BrokerTypeOK'
  BY DEF Typed, BrokerTypeOK, brokerVars, BeginExit
<1>2. Values'
  BY DEF Typed, Values, RowStatus, BeginExit
<1>3. Flags'
  BY DEF Typed, Flags, Steps, EntrySteps, ExitSteps, OrderSteps, recVars, history,
     BeginExit
<1>4. Phase'
  BY DEF Typed, Phase, EntrySteps, ExitSteps, OrderSteps, BeginExit, Sym
<1> QED BY <1>1, <1>2, <1>3, <1>4 DEF Typed

\* BeginExitDbDown: place_exit with the database down; the invariant is kept.
LEMMA BeginExitDbDownTyped == ASSUME Typed, NEW s \in Symbols, BeginExitDbDown(s) PROVE Typed'
<1>1. BrokerTypeOK'
  BY DEF Typed, BrokerTypeOK, brokerVars, BeginExitDbDown
<1>2. Values'
  BY DEF Typed, Values, dbVars, BeginExitDbDown, MarkUnknownUnsaved
<1>3. Flags'
  BY DEF Typed, Flags, callVars, recVars, dbVars, BeginExitDbDown, MarkUnknownUnsaved
<1>4. Phase'
  BY DEF Typed, Phase, EntrySteps, ExitSteps, OrderSteps, ExitOnly, BeginExitDbDown
<1> QED BY <1>1, <1>2, <1>3, <1>4 DEF Typed

\* SkipExit: eod_square_off meets a position it cannot exit; the invariant is
\* kept.
LEMMA SkipExitTyped == ASSUME Typed, NEW s \in Symbols, SkipExit(s) PROVE Typed'
<1>1. BrokerTypeOK'
  BY DEF Typed, BrokerTypeOK, brokerVars, SkipExit
<1>2. Values'
  BY DEF Typed, Values, dbVars, SkipExit
<1>3. Flags'
  BY DEF Typed, Flags, callVars, recVars, dbVars, history, SkipExit
<1>4. Phase'
  BY DEF Typed, Phase, EntrySteps, ExitSteps, OrderSteps, ExitOnly, SkipExit
<1> QED BY <1>1, <1>2, <1>3, <1>4 DEF Typed

\* CancelStop: _place_exit cancels the position's stop; the invariant is
\* kept.
LEMMA CancelStopTyped == ASSUME Typed, CancelStop PROVE Typed'
<1>0. cur \in Ids /\ pos[Sym].stop \in Ids
  BY DEF Typed, Phase, Values, Position, CancelStop, ExitOnly, Sym
<1>1. BrokerTypeOK'
  <2>1. prot[pos[Sym].stop] \in BrokerOrder
    BY <1>0 DEF Typed, BrokerTypeOK
  <2>2. \A st \in {"cancelled", "open"} :
          [prot[pos[Sym].stop] EXCEPT !.st = IF @ = "open" THEN st ELSE @] \in BrokerOrder
    BY <2>1 DEF BrokerOrder, OrderState
  <2>3. prot' \in [Ids -> BrokerOrder]
    BY <2>2 DEF CancelStop, Typed, BrokerTypeOK
  <2> QED BY <2>3 DEF CancelStop, Typed, BrokerTypeOK
<1>9. Seat' /\ Marks' /\ Sweeping' /\ armed' \in BOOLEAN
  <2>1. CASE Absorbed /\ UNCHANGED armed
    BY <1>0, <2>1, AbsorbedEffect DEF Typed, Flags
  <2>2. CASE pc' = "x_stopstatus" /\ UNCHANGED <<callVars, res, sweepVars, halted, degraded, dbVars, unlisted>>
    BY <2>2 DEF Typed, Values, Flags, Marks, Seat, Sweeping, callVars,
       sweepVars, dbVars, Steps, EntrySteps, ExitSteps, OrderSteps
  <2> QED BY <2>1, <2>2 DEF CancelStop
<1>2. Values'
  BY <1>9 DEF Typed, Values, Flags, Marks, Seat, Sweeping, CancelStop
<1>3. Flags'
  BY <1>9 DEF Typed, Values, Flags, Marks, Seat, Sweeping, CancelStop, recVars
<1>4. Phase'
  BY DEF Typed, Phase, EntrySteps, ExitSteps, OrderSteps, ExitOnly, callVars,
     CancelStop, EndOp, NotBooked, Absorbed, Attached, IsExit, Sym, MarkUnknown
<1> QED BY <1>1, <1>2, <1>3, <1>4 DEF Typed

\* StopStatus: _place_exit reads the cancelled stop back; the invariant is
\* kept.
LEMMA StopStatusTyped == ASSUME Typed, StopStatus PROVE Typed'
<1>1. BrokerTypeOK'
  BY DEF Typed, BrokerTypeOK, brokerVars, StopStatus
<1>0. /\ cur \in Ids /\ Sym \in Symbols /\ pos \in [Symbols -> Position]
      /\ pos[Sym].qty \in Nat /\ prot[pos[Sym].stop].filled \in Nat
      /\ [pos EXCEPT ![Sym].stop = None] \in [Symbols -> Position]
  <2>1. cur \in Ids /\ Sym \in Symbols
    BY DEF Typed, Phase, StopStatus, ExitOnly, Sym
  <2>2. pos \in [Symbols -> Position] /\ pos[Sym].qty \in Nat /\ pos[Sym].stop \in Ids
    BY <2>1 DEF Typed, Phase, Values, StopStatus, Position
  <2>3. prot[pos[Sym].stop].filled \in Nat
    BY <2>2, OrderTyped DEF Typed, BrokerTypeOK
  <2>4. [pos[Sym] EXCEPT !.stop = None] \in Position
    BY <2>1, <2>2 DEF Position
  <2> QED BY <2>1, <2>2, <2>3, <2>4
<1>8. pos' \in [Symbols -> Position]
  BY <1>0 DEF StopStatus
<1>9. Seat' /\ Marks' /\ Sweeping' /\ armed' \in BOOLEAN
  <2>1. CASE pc' = "x_qty" /\ UNCHANGED <<callVars, res, sweepVars, halted, degraded, dbVars, unlisted>>
    BY <2>1 DEF Typed, Values, Flags, Marks, Seat, Sweeping, callVars,
       sweepVars, dbVars, Steps, EntrySteps, ExitSteps, OrderSteps
  <2>2. CASE /\ MarkUnknown(cur, [pos EXCEPT ![Sym].stop = None])
             /\ \E n \in Nat : res' = [NoResult EXCEPT !.status = "PARTIAL", !.filled = n]
             /\ pc' = "x_book" /\ UNCHANGED <<callVars, sweepVars>>
    <3>1. Marks'
      BY <1>0, <2>2, MarkEffect
    <3>2. res' \in Result
      BY <2>2 DEF Result, NoResult
    <3> QED BY <2>2, <3>1, <3>2 DEF Typed, Values, Flags, Marks, Seat, Sweeping,
       callVars, sweepVars, Steps, EntrySteps, ExitSteps, OrderSteps
  <2>3. CASE MarkUnknown(cur, pos) /\ EndOp /\ NotBooked
    BY <1>0, <2>3, MarkEffect, EndOpEffect, NotBookedEffect
  <2> QED BY <1>0, <2>1, <2>2, <2>3 DEF StopStatus
<1>2. Values'
  BY <1>8, <1>9 DEF Typed, Values, Flags, Marks, Seat, Sweeping, StopStatus
<1>3. Flags'
  BY <1>9 DEF Typed, Values, Flags, Marks, Seat, Sweeping, StopStatus, recVars
<1>4. Phase'
  BY DEF Typed, Phase, EntrySteps, ExitSteps, OrderSteps, ExitOnly, callVars,
     StopStatus, EndOp, NotBooked, Absorbed, Attached, MarkUnknown
<1> QED BY <1>1, <1>2, <1>3, <1>4 DEF Typed

\* CheckQuantity: _place_exit compares the broker's quantity; the invariant
\* is kept.
LEMMA CheckQuantityTyped == ASSUME Typed, CheckQuantity PROVE Typed'
<1>1. BrokerTypeOK'
  BY DEF Typed, BrokerTypeOK, brokerVars, CheckQuantity
<1>0. cur \in Ids /\ pos \in [Symbols -> Position]
  BY DEF Typed, Phase, Values, CheckQuantity, ExitOnly
<1>9. Seat' /\ Marks' /\ Sweeping' /\ armed' \in BOOLEAN
  <2>1. CASE Absorbed /\ UNCHANGED armed
    BY <1>0, <2>1, AbsorbedEffect DEF Typed, Flags
  <2>2. CASE pc' = "submit" /\ UNCHANGED <<callVars, res, sweepVars, halted, degraded, dbVars, unlisted>>
    BY <2>2 DEF Typed, Values, Flags, Marks, Seat, Sweeping, callVars,
       sweepVars, dbVars, Steps, EntrySteps, ExitSteps, OrderSteps
  <2>3. CASE MarkUnknown(cur, pos) /\ EndOp /\ NotBooked
    BY <1>0, <2>3, MarkEffect, EndOpEffect, NotBookedEffect
  <2> QED BY <2>1, <2>2, <2>3 DEF CheckQuantity
<1>2. Values'
  BY <1>9 DEF Typed, Values, Flags, Marks, Seat, Sweeping, CheckQuantity
<1>3. Flags'
  BY <1>9 DEF Typed, Values, Flags, Marks, Seat, Sweeping, CheckQuantity, recVars
<1>4. Phase'
  BY DEF Typed, Phase, EntrySteps, ExitSteps, OrderSteps, ExitOnly, callVars,
     CheckQuantity, EndOp, NotBooked, Absorbed, Attached, IsExit, MarkUnknown
<1> QED BY <1>1, <1>2, <1>3, <1>4 DEF Typed

\* CloseExit: _place_exit finishes the exit's row; the invariant is kept.
LEMMA CloseExitTyped == ASSUME Typed, CloseExit PROVE Typed'
<1>1. BrokerTypeOK'
  BY DEF Typed, BrokerTypeOK, brokerVars, CloseExit
<1>0. cur \in Ids /\ pos \in [Symbols -> Position]
  BY DEF Typed, Phase, Values, CloseExit, ExitOnly
<1>9. Seat' /\ Marks' /\ Sweeping' /\ armed' \in BOOLEAN
  <2>1. Marks'
    <3>1. CASE MarkUnknown(cur, pos)
      BY <1>0, <3>1, MarkEffect
    <3>2. CASE /\ row' = [row EXCEPT ![cur] = "closed"]
               /\ UNCHANGED <<halted, degraded, dpos, dhalt, unlisted>>
      BY <3>2 DEF Typed, Values, Flags, Marks, Seat, Sweeping, RowStatus
    <3> QED BY <3>1, <3>2 DEF CloseExit
  <2>2. pc' \in {"x_book", "stop"}
    BY DEF CloseExit
  <2> QED BY <2>1, <2>2 DEF CloseExit, Typed, Values, Flags, Marks, Seat,
     Sweeping, callVars, sweepVars, Steps, EntrySteps, ExitSteps, OrderSteps
<1>2. Values'
  BY <1>9 DEF Typed, Values, Flags, Marks, Seat, Sweeping, CloseExit
<1>3. Flags'
  BY <1>9 DEF Typed, Values, Flags, Marks, Seat, Sweeping, CloseExit, recVars
<1>4. Phase'
  BY DEF Typed, Phase, EntrySteps, ExitSteps, OrderSteps, ExitOnly, callVars,
     CloseExit, Attached, Sym
<1> QED BY <1>1, <1>2, <1>3, <1>4 DEF Typed

\* BookExit: record_exit in memory (a booked quantity never exceeds the
\* position's); the invariant is kept.
LEMMA BookExitTyped == ASSUME Typed, BookExit PROVE Typed'
<1>1. BrokerTypeOK'
  BY DEF Typed, BrokerTypeOK, brokerVars, BookExit
<1>0. /\ pos \in [Symbols -> Position] /\ res.filled \in Nat
      /\ Sym \in Symbols /\ pos[Sym] \in Position /\ pos[Sym].qty \in Nat
  BY DEF Typed, Phase, Values, BookExit, ExitOnly, Sym, Result, Position
<1>8. pos' \in [Symbols -> Position]
  <2>1. CASE ToBook /\ res.filled <= pos[Sym].qty
    <3> DEFINE left == IF pos[Sym].qty = res.filled THEN NoPosition
                       ELSE [qty |-> pos[Sym].qty - res.filled, stop |-> pos[Sym].stop]
    <3>1. left \in Position
      BY <1>0, <2>1 DEF Position, NoPosition
    <3>2. pos' = [pos EXCEPT ![Sym] = left]
      BY <1>0, <2>1 DEF BookExit
    <3> HIDE DEF left
    <3> QED BY <1>0, <3>1, <3>2
  <2> QED BY <1>0, <2>1 DEF BookExit
<1>9. Seat' /\ Sweeping' /\ armed' \in BOOLEAN
  <2>1. CASE EndOp /\ NotBooked
    BY <2>1, EndOpEffect, NotBookedEffect
  <2>2. CASE pc' = "x_commit" /\ UNCHANGED <<callVars, res, sweepVars>>
    BY <2>2 DEF Typed, Values, Flags, Marks, Seat, Sweeping, callVars,
       sweepVars, Steps, EntrySteps, ExitSteps, OrderSteps
  <2> QED BY <2>1, <2>2 DEF BookExit
<1>2. Values'
  BY <1>8, <1>9 DEF Typed, Values, Flags, Marks, Seat, Sweeping, BookExit, dbVars
<1>3. Flags'
  BY <1>9 DEF Typed, Values, Flags, Marks, Seat, Sweeping, BookExit, recVars,
     dbVars, history
<1>4. Phase'
  BY DEF Typed, Phase, EntrySteps, ExitSteps, OrderSteps, ExitOnly, callVars,
     BookExit, EndOp, NotBooked, Absorbed, Attached, MarkUnknown
<1> QED BY <1>1, <1>2, <1>3, <1>4 DEF Typed

\* CommitExit: record_exit in the database; the invariant is kept.
LEMMA CommitExitTyped == ASSUME Typed, CommitExit PROVE Typed'
<1>1. BrokerTypeOK'
  BY DEF Typed, BrokerTypeOK, brokerVars, CommitExit
<1>9. Seat' /\ armed' \in BOOLEAN
  <2>1. CASE EndOp
    BY <2>1, EndOpEffect
  <2>2. CASE pc' = "x_rowclose" /\ UNCHANGED <<callVars, res>>
    BY <2>2 DEF Typed, Values, Flags, Marks, Seat, Sweeping, callVars, Steps,
       EntrySteps, ExitSteps, OrderSteps
  <2> QED BY <2>1, <2>2 DEF CommitExit
<1>2. Values'
  <2>1. dpos' \in [Symbols -> Position]
    <3>1. pos \in [Symbols -> Position] /\ Sym \in Symbols
      BY DEF Typed, Values, Phase, CommitExit, Sym
    <3>2. Saved(pos) \in [Symbols -> Position] /\ pos[Sym] \in Position
      BY <3>1, SavedTyped
    <3> QED BY <3>2 DEF CommitExit, Typed, Values
  <2> QED BY <1>9, <2>1 DEF Typed, Values, Flags, Marks, Seat, Sweeping, CommitExit
<1>3. Flags'
  <2>1. halted' \in BOOLEAN /\ dhalt' \in BOOLEAN
    BY DEF CommitExit, Typed, Flags
  <2> QED BY <1>9, <2>1 DEF Typed, Flags, Seat, CommitExit, sweepVars, recVars,
     history
<1>4. Phase'
  BY DEF Typed, Phase, EntrySteps, ExitSteps, OrderSteps, ExitOnly, callVars,
     CommitExit, EndOp, NotBooked, Absorbed, Attached, MarkUnknown
<1> QED BY <1>1, <1>2, <1>3, <1>4 DEF Typed

\* CloseRow: _close_position closes the entry row; the invariant is kept.
LEMMA CloseRowTyped == ASSUME Typed, CloseRow PROVE Typed'
<1>1. BrokerTypeOK'
  BY DEF Typed, BrokerTypeOK, brokerVars, CloseRow
<1>0. row' \in [Ids -> RowStatus] /\ unlisted' \in SUBSET Entries
  <2>1. CASE \E e \in OpenRows(Sym) :
               /\ row' = [row EXCEPT ![e] = "closed"]
               /\ unlisted' = IF Unresolved(e) THEN unlisted \cup {e} ELSE unlisted
    BY <2>1 DEF Typed, Values, Flags, OpenRows, RowStatus
  <2>2. CASE UNCHANGED <<row, unlisted>>
    BY <2>2 DEF Typed, Values, Flags
  <2> QED BY <2>1, <2>2 DEF CloseRow
<1>9. Sweeping'
  BY NotBookedEffect DEF CloseRow, Typed, Values, Flags, Marks, Seat, Sweeping,
     sweepVars
<1>2. Values'
  BY <1>0, EndOpEffect DEF Typed, Values, Seat, CloseRow
<1>3. Flags'
  BY <1>0, <1>9, EndOpEffect DEF Typed, Flags, Seat, Sweeping, CloseRow, recVars
<1>4. Phase'
  BY DEF Typed, Phase, EntrySteps, ExitSteps, OrderSteps, ExitOnly, CloseRow,
     EndOp, NotBooked, Absorbed, Attached, MarkUnknown
<1> QED BY <1>1, <1>2, <1>3, <1>4 DEF Typed

\* BookStop: _check_position books a stop that has sold; the invariant is
\* kept.
LEMMA BookStopTyped == ASSUME Typed, NEW s \in Symbols, BookStop(s) PROVE Typed'
<1>1. BrokerTypeOK'
  BY DEF Typed, BrokerTypeOK, brokerVars, BookStop
<1>0. pos[s].stop \in Ids
  BY DEF Typed, Values, Position, BookStop, SoldByStop
<1>2. Values'
  BY DEF Typed, Values, Position, NoPosition, BookStop, dbVars
<1>3. Flags'
  BY <1>0 DEF Typed, Flags, BookStop, sweepVars, recVars, dbVars, history, Steps,
     EntrySteps, ExitSteps, OrderSteps
<1>4. Phase'
  BY <1>0 DEF Phase, BookStop, EntrySteps, OrderSteps, ExitOnly
<1> QED BY <1>1, <1>2, <1>3, <1>4 DEF Typed

\* StopProblem: _check_position meets a protection problem; the invariant is
\* kept.
LEMMA StopProblemTyped == ASSUME Typed, NEW s \in Symbols, StopProblem(s) PROVE Typed'
<1>1. BrokerTypeOK'
  BY DEF Typed, BrokerTypeOK, brokerVars, StopProblem
<1>2. Values'
  BY DEF Typed, Values, dbVars, StopProblem
<1>3. Flags'
  BY DEF Typed, Flags, callVars, sweepVars, recVars, dbVars, history, StopProblem
<1>4. Phase'
  BY DEF Typed, Phase, EntrySteps, ExitSteps, OrderSteps, ExitOnly, StopProblem
<1> QED BY <1>1, <1>2, <1>3, <1>4 DEF Typed

\* BrokerDoubt: _sync_missing, or a failed broker query; the invariant is
\* kept.
LEMMA BrokerDoubtTyped == ASSUME Typed, BrokerDoubt PROVE Typed'
<1>1. BrokerTypeOK'
  BY DEF Typed, BrokerTypeOK, brokerVars, BrokerDoubt
<1>2. Values'
  BY DEF Typed, Values, dbVars, BrokerDoubt
<1>3. Flags'
  BY DEF Typed, Flags, callVars, sweepVars, recVars, dbVars, history, BrokerDoubt
<1>4. Phase'
  BY DEF Typed, Phase, callVars, BrokerDoubt, IsExit, Sym
<1> QED BY <1>1, <1>2, <1>3, <1>4 DEF Typed

\* BeginSquareOff: eod_square_off begins; the invariant is kept.
LEMMA BeginSquareOffTyped == ASSUME Typed, BeginSquareOff PROVE Typed'
<1>1. BrokerTypeOK'
  BY DEF Typed, BrokerTypeOK, brokerVars, BeginSquareOff
<1>2. Values'
  BY DEF Typed, Values, dbVars, BeginSquareOff
<1>3. Flags'
  BY DEF Typed, Flags, Steps, recVars, dbVars, history, BeginSquareOff
<1>4. Phase'
  BY DEF Typed, Phase, EntrySteps, ExitSteps, OrderSteps, ExitOnly, BeginSquareOff
<1> QED BY <1>1, <1>2, <1>3, <1>4 DEF Typed

\* EndSquareOff: eod_square_off ends; the invariant is kept.
LEMMA EndSquareOffTyped == ASSUME Typed, EndSquareOff PROVE Typed'
<1>1. BrokerTypeOK'
  BY DEF Typed, BrokerTypeOK, brokerVars, EndSquareOff
<1>2. Values'
  BY DEF Typed, Values, EndSquareOff, Persist, Saved
<1>3. Flags'
  BY DEF Typed, Flags, Steps, recVars, history, EndSquareOff, Persist, Saved
<1>4. Phase'
  BY DEF Typed, Phase, EntrySteps, ExitSteps, OrderSteps, ExitOnly, EndSquareOff
<1> QED BY <1>1, <1>2, <1>3, <1>4 DEF Typed

\* Halt: emergency_shutdown; the invariant is kept.
LEMMA HaltTyped == ASSUME Typed, Halt PROVE Typed'
<1>1. BrokerTypeOK'
  BY DEF Typed, BrokerTypeOK, brokerVars, Halt
<1>0. dpos' \in [Symbols -> Position] /\ dhalt' \in BOOLEAN
  BY PersistEffect DEF Halt, Typed, Values
<1>2. Values'
  BY <1>0 DEF Typed, Values, Halt
<1>3. Flags'
  BY <1>0 DEF Typed, Flags, Halt, callVars, sweepVars, recVars, history
<1>4. Phase'
  BY DEF Typed, Phase, callVars, Halt, IsExit, Sym
<1> QED BY <1>1, <1>2, <1>3, <1>4 DEF Typed

\* Resume: resume_trading; the invariant is kept.
LEMMA ResumeTyped == ASSUME Typed, Resume PROVE Typed'
<1>1. BrokerTypeOK'
  BY DEF Typed, BrokerTypeOK, brokerVars, Resume
<1>0. dpos' \in [Symbols -> Position] /\ dhalt' \in BOOLEAN
  BY PersistEffect DEF Resume, Typed, Values
<1>2. Values'
  BY <1>0 DEF Typed, Values, Resume
<1>3. Flags'
  BY <1>0 DEF Typed, Flags, Resume, callVars, sweepVars, recVars, history
<1>4. Phase'
  BY DEF Typed, Phase, callVars, Resume, IsExit, Sym
<1> QED BY <1>1, <1>2, <1>3, <1>4 DEF Typed

\* BeginRetry: retry_reconciliation reads the rows; the invariant is kept.
LEMMA BeginRetryTyped == ASSUME Typed, BeginRetry PROVE Typed'
<1>1. BrokerTypeOK'
  BY DEF Typed, BrokerTypeOK, brokerVars, BeginRetry
<1>2. Values'
  BY DEF Typed, Values, dbVars, BeginRetry
<1>3. Flags'
  BY DEF Typed, Flags, callVars, sweepVars, dbVars, history, BeginRetry
<1>4. Phase'
  BY DEF Typed, Phase, callVars, BeginRetry, IsExit, Sym
<1> QED BY <1>1, <1>2, <1>3, <1>4 DEF Typed

\* Compare: reconcile_on_startup compares broker and ledger; the invariant is
\* kept.
LEMMA CompareTyped == ASSUME Typed, Compare PROVE Typed'
<1>1. BrokerTypeOK'
  BY DEF Typed, BrokerTypeOK, brokerVars, Compare
<1>2. Values'
  BY DEF Typed, Values, Compare, dbVars
<1>3. Flags'
  <2>1. rbad' \in BOOLEAN
    BY Zenon DEF Compare
  <2> QED BY <2>1 DEF Typed, Flags, Compare, callVars, sweepVars, dbVars, history
<1>4. Phase'
  BY DEF Typed, Phase, callVars, Compare, IsExit, Sym
<1> QED BY <1>1, <1>2, <1>3, <1>4 DEF Typed

\* Apply: the verdict of reconcile_on_startup is set; the invariant is kept.
LEMMA ApplyTyped == ASSUME Typed, Apply PROVE Typed'
<1>1. BrokerTypeOK'
  BY DEF Typed, BrokerTypeOK, brokerVars, Apply
<1>2. Values'
  BY DEF Typed, Values, dbVars, Apply
<1>3. Flags'
  BY DEF Typed, Flags, Steps, callVars, sweepVars, dbVars, Apply
<1>4. Phase'
  BY DEF Typed, Phase, EntrySteps, ExitSteps, OrderSteps, ExitOnly, callVars,
     Apply, IsExit, Sym
<1> QED BY <1>1, <1>2, <1>3, <1>4 DEF Typed

\* Crash: the process dies; the invariant is kept.
LEMMA CrashTyped == ASSUME Typed, Crash PROVE Typed'
<1>1. BrokerTypeOK'
  BY DEF Typed, BrokerTypeOK, brokerVars, Crash
<1>2. Values'
  BY DEF Typed, Values, Result, NoResult, dbVars, Crash
<1>3. Flags'
  BY DEF Typed, Flags, Steps, dbVars, Crash
<1>4. Phase'
  BY DEF Typed, Phase, EntrySteps, ExitSteps, OrderSteps, ExitOnly, Crash
<1> QED BY <1>1, <1>2, <1>3, <1>4 DEF Typed

\* Restart: recover; the invariant is kept.
LEMMA RestartTyped == ASSUME Typed, Restart PROVE Typed'
<1>1. BrokerTypeOK'
  BY DEF Typed, BrokerTypeOK, brokerVars, Restart
<1>2. Values'
  BY DEF Typed, Values, dbVars, Restart
<1>3. Flags'
  <2>1. claims' \in SUBSET Entries /\ memclaims' \in SUBSET Entries /\ unclaimed' = unclaimed
    BY DEF Typed, Flags, Restart, Seed
  <2> QED BY <2>1 DEF Typed, Flags, Steps, callVars, sweepVars, dbVars, history, Restart
<1>4. Phase'
  BY DEF Typed, Phase, EntrySteps, ExitSteps, OrderSteps, ExitOnly, Restart
<1> QED BY <1>1, <1>2, <1>3, <1>4 DEF Typed

\* Outside: a step of the broker; the invariant is kept.
LEMMA OutsideTyped == ASSUME Typed, Outside PROVE Typed'
<1>1. BrokerTypeOK'
  <2>0. /\ mkt \in [Ids -> BrokerOrder] /\ prot \in [Ids -> BrokerOrder] /\ held \in [Symbols -> Int]
    BY DEF Typed, BrokerTypeOK
  <2>1. PICK i \in Ids : Arrive(i) \/ FillMarket(i) \/ FillStop(i) \/ Withdraw(i)
    BY DEF Outside, BrokerNext
  <2>2. mkt[i] \in BrokerOrder /\ prot[i] \in BrokerOrder /\ SymbolOf[i] \in Symbols
    BY <2>0, <2>1
  <2>3. /\ \A st \in OrderState : [mkt[i] EXCEPT !.st = st] \in BrokerOrder
        /\ \A st \in OrderState : [prot[i] EXCEPT !.st = st] \in BrokerOrder
        /\ Executed(mkt[i]) \in BrokerOrder /\ Executed(prot[i]) \in BrokerOrder
    BY <2>2, OrderTyped
  <2>4. CASE Arrive(i)
    BY <2>0, <2>3, <2>4 DEF Arrive, BrokerTypeOK, OrderState
  <2>5. CASE FillMarket(i)
    BY <2>0, <2>2, <2>3, <2>5 DEF FillMarket, BrokerTypeOK
  <2>6. CASE FillStop(i)
    BY <2>0, <2>2, <2>3, <2>6 DEF FillStop, BrokerTypeOK
  <2>7. CASE Withdraw(i)
    BY <2>0, <2>3, <2>7 DEF Withdraw, BrokerTypeOK, OrderState
  <2> QED BY <2>1, <2>4, <2>5, <2>6, <2>7
<1>2. Values'
  BY DEF Typed, Values, Outside, dbVars
<1>3. Flags'
  BY DEF Typed, Flags, Outside, callVars, sweepVars, recVars, dbVars, history
<1>4. Phase'
  BY DEF Typed, Phase, callVars, Outside, IsExit, Sym
<1> QED BY <1>1, <1>2, <1>3, <1>4 DEF Typed

-----------------------------------------------------------------------------
(* The theorem                                                             *)

\* The process starts with typed, empty state.
LEMMA InitTyped == Init => Typed
<1> SUFFICES ASSUME Init PROVE Typed
    OBVIOUS
<1>1. BrokerTypeOK
  <2>1. NoOrder \in BrokerOrder
    BY DEF NoOrder, BrokerOrder, OrderState
  <2> QED BY <2>1 DEF Init, BrokerInit, BrokerTypeOK
<1>2. Values
  BY DEF Init, Values, Result, NoResult, Position, NoPosition, RowStatus
<1>3. Flags
  BY DEF Init, Flags, Steps
<1>4. Phase
  BY DEF Init, Phase, EntrySteps, ExitSteps, OrderSteps, ExitOnly
<1> QED BY <1>1, <1>2, <1>3, <1>4 DEF Typed

\* A step that changes nothing keeps the invariant.
LEMMA StutterTyped == ASSUME Typed, UNCHANGED vars PROVE Typed'
BY DEF vars, callVars, sweepVars, recVars, dbVars, brokerVars, history, Typed,
   BrokerTypeOK, Values, Flags, Phase, IsExit, Sym

\* Every step of the system keeps the invariant.
LEMMA NextTyped == ASSUME Typed, [Next]_vars PROVE Typed'
<1>1. CASE OrderStep
  BY <1>1, SubmitTyped, AckTyped, SubmitUnknownTyped, RecordTyped, PollTyped,
     CancelTyped, StatusTyped, PlaceStopTyped, StopAckTyped, StopConfirmedTyped,
     StopUnconfirmedTyped DEF OrderStep
<1>2. CASE EntryStep
  BY <1>2, CheckTyped, CreatePendingTyped, LiveGateTyped, RecordFinalTyped,
     RecordFillTyped, CommitFillTyped DEF EntryStep
<1>3. CASE ExitStep
  BY <1>3, CancelStopTyped, StopStatusTyped, CheckQuantityTyped, CloseExitTyped,
     BookExitTyped, CommitExitTyped, CloseRowTyped DEF ExitStep
<1>4. CASE Sweep
  BY <1>4, BeginExitTyped, BeginExitDbDownTyped, SkipExitTyped, EndSquareOffTyped
     DEF Sweep
<1>5. CASE Locked
  BY <1>1, <1>2, <1>3, <1>4, <1>5, BeginEntryTyped, BeginExitTyped, BookStopTyped,
     StopProblemTyped, BeginExitDbDownTyped, UnknownUnsavedTyped,
     BeginSquareOffTyped DEF Locked, Lifecycle
<1>6. CASE Unlocked
  BY <1>6, AnalysisTimeoutTyped, BrokerDoubtTyped, HaltTyped, ResumeTyped,
     BeginRetryTyped, CompareTyped, ApplyTyped, CrashTyped, RestartTyped DEF Unlocked
<1>7. CASE Outside
  BY <1>7, OutsideTyped
<1>8. CASE UNCHANGED vars
  BY <1>8, StutterTyped
<1> QED BY <1>5, <1>6, <1>7, <1>8 DEF Next

\* Type correctness of the live execution path, for every instance: among the
\* rest, no position, booked quantity or stop ever has a negative quantity.
THEOREM TypeCorrect == Spec => []TypeOK
<1>1. Init => Typed
  BY InitTyped
<1>2. Typed /\ [Next]_vars => Typed'
  BY NextTyped
<1>3. Typed => TypeOK
  BY DEF Typed, Values, Flags, TypeOK
<1> QED BY <1>1, <1>2, <1>3, PTL DEF Spec
=============================================================================
