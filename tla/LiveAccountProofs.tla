-------------------------- MODULE LiveAccountProofs --------------------------
(***************************************************************************)
(* Proofs about the ledger: between operations its quantity is what the    *)
(* account holds, unless something says otherwise (Accounted).             *)
(*                                                                         *)
(* While an operation has an order or a stop out, the quantities differ by *)
(* what those have executed: Balance says by how much at each step, and    *)
(* Sure when it can be relied upon.  A doubt is raised by every step that  *)
(* upsets the balance; only a reconciliation that compares the two takes   *)
(* it back, and then they agree.                                           *)
(***************************************************************************)
EXTENDS LiveExitProofs

Waits    == {"ack", "record", "poll", "cancel", "status"}
Stopping == {"stop", "stopack", "stopcheck"}

\* The row of the order that is out is unfinished.
Filed ==
  /\ ~IsExit =>
       /\ pc \in {"gate", "submit", "ack", "record", "final"} => OnBook(cur)
       /\ pc \in {"poll", "cancel", "status"} \cup Stopping => Unresolved(cur)
       /\ pc = "record" /\ ~res.id => Unresolved(cur)
       /\ pc = "final" => Unresolved(cur) \/ res.status = "REJECTED"
       /\ pc = "fill" => Unresolved(cur) \/ res.stop
  /\ IsExit =>
       /\ pc \in Early \cup {"submit", "x_close"} \cup Waits => Unresolved(cur)
       /\ pc = "x_book" => Unresolved(cur) \/ res.status # "SUBMITTED"

\* A result is a rejection, or unknown, or has a quantity to book.
Outcome ==
  /\ pc \in {"x_close", "x_book", "final"} \cup Stopping /\ res.status = "REJECTED"
       => res.filled = 0
  /\ pc \in {"x_close", "x_book", "final"} \cup Stopping /\ res.status = "FAILED"
       => res.unknown /\ ~IsExit
  /\ pc \in Stopping => res.status # "SUBMITTED" \/ (~IsExit /\ res.unknown)
  /\ pc \in Stopping /\ ~IsExit => res.filled > 0
  /\ pc = "final" => res.unknown \/ res.status = "REJECTED" \/ ToBook

\* A stop is for what has been bought, or for what has not been sold.
Sized ==
  /\ IsExit /\ pc \in Early \cup {"submit", "x_close", "x_book"} \cup Waits \cup Stopping
       => pos[Sym].qty > 0
  /\ IsExit /\ pc \in {"stopack", "stopcheck"} => prot[cur].qty = pos[Sym].qty - res.filled
  /\ pc = "x_book" /\ pos[Sym].stop # None =>
       pos[Sym].stop = cur /\ prot[cur].qty = pos[Sym].qty - res.filled
  /\ ~IsExit /\ cur \in InHand => prot[cur].qty = res.filled

Known == Filed /\ Outcome /\ Sized

\* No stop sells more than its quantity, and a position's stop is for its
\* instrument.
Whole == \A i \in Ids : prot[i].filled <= prot[i].qty
OwnStops(p) == \A s \in Symbols : p[s].stop # None => SymbolOf[p[s].stop] = s
Whose == OwnStops(pos) /\ OwnStops(dpos)

USE IdsAssumption, LotAssumption DEF Ids, claimVars, Listed

-----------------------------------------------------------------------------
(* Stops and positions                                                     *)

LEMMA WholeStep == ASSUME Typed, Whole, Next PROVE Whole'
<1>1. CASE PlaceStop
  <2>1. /\ cur \in Ids /\ prot'[cur].filled = 0 /\ prot'[cur].qty \in Nat
        /\ \A i \in Ids : i # cur => prot'[i] = prot[i]
    <3>1. /\ cur \in Ids /\ prot' \in [Ids -> BrokerOrder] /\ prot'[cur].filled = 0
          /\ \A i \in Ids : i # cur => prot'[i] = prot[i]
      BY <1>1, PlaceStopTyped DEF PlaceStop, Typed, Phase, OrderSteps, BrokerTypeOK, Sent
    <3> QED BY <3>1 DEF BrokerOrder
  <2> QED BY <2>1 DEF Whole
<1>2. CASE Outside
  <2>1. PICK j \in Ids : Arrive(j) \/ FillMarket(j) \/ FillStop(j) \/ Withdraw(j)
    BY <1>2 DEF Outside, BrokerNext
  <2>2. /\ \A i \in Ids : i # j => prot'[i] = prot[i]
        /\ prot'[j] = prot[j] \/ prot'[j].qty = prot[j].qty
        /\ \/ prot'[j].filled = prot[j].filled
           \/ prot'[j].filled = prot[j].filled + 1 /\ prot[j].filled < prot[j].qty
    BY <2>1, BrokerStep
  <2>3. prot[j].filled \in Nat /\ prot[j].qty \in Nat
    BY OrderTyped DEF Typed, BrokerTypeOK, BrokerOrder
  <2> QED BY <2>2, <2>3 DEF Whole
<1>3. CASE Submit
  BY <1>3 DEF Submit, Whole
<1>4. CASE ~Submit /\ ~PlaceStop /\ ~Outside
  BY <1>4, OthersCalm DEF Calm, Whole
<1> QED BY <1>1, <1>2, <1>3, <1>4

\* A save mixes the ledger with what was saved before.
LEMMA SavedOwn ==
  ASSUME NEW p, OwnStops(p), OwnStops(dpos), NEW h, Persist(p, h)
  PROVE  OwnStops(dpos')
BY DEF Persist, Saved, OwnStops

\* The ledger keeps the stops of its positions, or takes that of the operation.
LEMMA PosStops ==
  ASSUME Typed, Whose, Next
  PROVE  OwnStops(pos)'
<1>1. CASE UNCHANGED pos
  BY <1>1 DEF Whose, OwnStops
<1>2. CASE RecordFill \/ StopConfirmed \/ StopUnconfirmed
  <2>1. /\ cur \in Ids /\ pos \in [Symbols -> Position]
        /\ \A s \in Symbols : s # Sym => pos'[s] = pos[s]
        /\ pos'[Sym].stop \in {None, cur, pos[Sym].stop}
    <3>0. cur \in Ids /\ pos \in [Symbols -> Position] /\ Sym \in Symbols
      BY <1>2 DEF RecordFill, StopConfirmed, StopUnconfirmed, Typed, Phase, Values,
         EntrySteps, OrderSteps, Sym
    <3>1. CASE RecordFill
      <4>1. /\ \A s \in Symbols : s # Sym => pos'[s] = pos[s]
            /\ pos'[Sym] = [qty |-> res.filled, stop |-> IF res.stop THEN cur ELSE None]
        BY <3>0, <3>1 DEF RecordFill
      <4> QED BY <3>0, <4>1
    <3>2. CASE StopConfirmed \/ StopUnconfirmed
      <4>1. \/ UNCHANGED pos
            \/ \E known \in BOOLEAN : pos' = [pos EXCEPT ![Sym].stop = IF known THEN cur ELSE None]
        BY <3>2 DEF StopConfirmed, StopUnconfirmed, Attached
      <4>2. ASSUME NEW known \in BOOLEAN,
                   pos' = [pos EXCEPT ![Sym].stop = IF known THEN cur ELSE None]
            PROVE  /\ \A s \in Symbols : s # Sym => pos'[s] = pos[s]
                   /\ pos'[Sym].stop \in {None, cur}
        <5>1. pos'[Sym] = [pos[Sym] EXCEPT !.stop = IF known THEN cur ELSE None]
          BY <3>0, <4>2
        <5>2. pos'[Sym].stop = IF known THEN cur ELSE None
          BY <3>0, <5>1 DEF Position
        <5> QED BY <3>0, <4>2, <5>2
      <4> QED BY <3>0, <4>1, <4>2
    <3> QED BY <1>2, <3>0, <3>1, <3>2
  <2> QED BY <2>1 DEF Whose, OwnStops, Sym
<1>3. CASE StopStatus \/ BookExit \/ \E s \in Symbols : BookStop(s)
  <2>1. \A s \in Symbols : pos'[s].stop \in {None, pos[s].stop}
    <3>1. pos \in [Symbols -> Position]
      BY DEF Typed, Values
    <3>2. CASE StopStatus
      <4>1. UNCHANGED pos \/ pos' = [pos EXCEPT ![Sym].stop = None]
        BY <3>2 DEF StopStatus
      <4>2. CASE pos' = [pos EXCEPT ![Sym].stop = None]
        <5>1. ASSUME NEW s \in Symbols PROVE pos'[s].stop \in {None, pos[s].stop}
          <6>1. CASE s = Sym
            <7>1. pos'[s] = [pos[s] EXCEPT !.stop = None]
              BY <3>1, <4>2, <6>1
            <7> QED BY <3>1, <7>1 DEF Position
          <6>2. CASE s # Sym
            BY <3>1, <4>2, <6>2
          <6> QED BY <6>1, <6>2
        <5> QED BY <5>1
      <4> QED BY <4>1, <4>2
    <3>3. CASE BookExit
      <4>1. \A s \in Symbols : s # Sym => pos'[s] = pos[s]
        BY <3>1, <3>3 DEF BookExit
      <4>2. Sym \in Symbols => pos'[Sym].stop \in {None, pos[Sym].stop}
        BY <3>1, <3>3 DEF BookExit, NoPosition
      <4> QED BY <4>1, <4>2
    <3>4. CASE \E s \in Symbols : BookStop(s)
      BY <3>1, <3>4 DEF BookStop, NoPosition
    <3> QED BY <1>3, <3>2, <3>3, <3>4
  <2> QED BY <2>1 DEF Whose, OwnStops
<1>4. CASE Restart
  BY <1>4 DEF Restart, Whose, OwnStops
<1>5. OrderStep => StopConfirmed \/ StopUnconfirmed \/ UNCHANGED pos
  BY DEF OrderStep, Submit, Ack, SubmitUnknown, Record, Poll, Cancel, Status, PlaceStop, StopAck
<1>6. EntryStep => RecordFill \/ UNCHANGED pos
  BY DEF EntryStep, Check, CreatePending, LiveGate, RecordFinal, CommitFill
<1>7. ExitStep => StopStatus \/ BookExit \/ UNCHANGED pos
  BY DEF ExitStep, CancelStop, CheckQuantity, CloseExit, CommitExit, CloseRow
<1>8. Sweep => UNCHANGED pos
  BY DEF Sweep, BeginExit, BeginExitDbDown, SkipExit, EndSquareOff
<1>9. Locked => \/ StopConfirmed \/ StopUnconfirmed \/ RecordFill \/ StopStatus \/ BookExit
                \/ (\E s \in Symbols : BookStop(s)) \/ UNCHANGED pos
  BY <1>5, <1>6, <1>7, <1>8 DEF Locked, Lifecycle, BeginEntry, BeginExit, BeginExitDbDown,
     StopProblem, UnknownUnsaved, BeginSquareOff
<1>10. Unlocked => Restart \/ UNCHANGED pos
  BY DEF Unlocked, AnalysisTimeout, BrokerDoubt, Halt, Resume, BeginRetry, Compare, Apply, Crash
<1> QED BY <1>1, <1>2, <1>3, <1>4, <1>9, <1>10 DEF Next, Outside

\* Every write of the database's positions is a save of the ledger.
LEMMA DposStops ==
  ASSUME Typed, Whose, Next
  PROVE  OwnStops(dpos)'
<1>0. OwnStops(pos) /\ OwnStops(dpos) /\ OwnStops(Saved(pos))
  BY DEF Whose, OwnStops, Saved
<1>1. CASE UNCHANGED dpos \/ \E h : Persist(pos, h)
  BY <1>0, <1>1, SavedOwn DEF OwnStops
<1>2. CASE dpos' = [Saved(pos) EXCEPT ![Sym] = pos[Sym]]
  BY <1>0, <1>2 DEF OwnStops, Saved
<1>3. CASE StopStatus /\ ~UNCHANGED dpos
  <2>1. CASE \E h : Persist(pos, h)
    BY <1>1, <2>1
  <2>2. CASE Persist([pos EXCEPT ![Sym].stop = None], TRUE)
    <3>1. OwnStops([pos EXCEPT ![Sym].stop = None])
      BY <1>0 DEF OwnStops, Typed, Values
    <3>2. OwnStops(dpos')
      BY <1>0, <2>2, <3>1, SavedOwn
    <3> QED BY <3>2 DEF OwnStops
  <2> QED BY <1>3, <2>1, <2>2 DEF StopStatus, MarkUnknown, dbVars
<1>4. OrderStep => UNCHANGED dpos \/ \E h : Persist(pos, h)
  BY DEF OrderStep, Submit, Ack, SubmitUnknown, Record, Poll, Cancel, Status, PlaceStop,
     StopAck, StopConfirmed, StopUnconfirmed, Absorbed, MarkUnknown, dbVars
<1>5. EntryStep => UNCHANGED dpos \/ dpos' = [Saved(pos) EXCEPT ![Sym] = pos[Sym]]
  BY DEF EntryStep, Check, CreatePending, LiveGate, RecordFinal, RecordFill, CommitFill, dbVars
<1>6. ExitStep => \/ UNCHANGED dpos \/ (\E h : Persist(pos, h)) \/ StopStatus
                  \/ dpos' = [Saved(pos) EXCEPT ![Sym] = pos[Sym]]
  BY DEF ExitStep, CancelStop, CheckQuantity, CloseExit, BookExit, CommitExit, CloseRow,
     Absorbed, MarkUnknown, dbVars
<1>7. Sweep => UNCHANGED dpos \/ \E h : Persist(pos, h)
  BY DEF Sweep, BeginExit, BeginExitDbDown, SkipExit, EndSquareOff, MarkUnknownUnsaved, dbVars
<1>8. Locked => \/ UNCHANGED dpos \/ (\E h : Persist(pos, h)) \/ StopStatus
                \/ dpos' = [Saved(pos) EXCEPT ![Sym] = pos[Sym]]
  BY <1>4, <1>5, <1>6, <1>7 DEF Locked, Lifecycle, BeginEntry, BeginExit, BeginExitDbDown,
     BookStop, StopProblem, UnknownUnsaved, BeginSquareOff, MarkUnknownUnsaved, dbVars
<1>9. Unlocked => UNCHANGED dpos \/ \E h : Persist(pos, h)
  BY DEF Unlocked, AnalysisTimeout, Absorbed, MarkUnknown, BrokerDoubt, Halt, Resume,
     BeginRetry, Compare, Apply, Crash, Restart, dbVars
<1> QED BY <1>1, <1>2, <1>3, <1>8, <1>9 DEF Next, Outside, dbVars

LEMMA WhoseStep == ASSUME Typed, Whose, Next PROVE Whose'
BY PosStops, DposStops DEF Whose

-----------------------------------------------------------------------------
(* What each step of an operation knows                                    *)

Rest == {"idle", "sq", "down", "recovering", "check", "intent", "commit", "x_commit",
         "x_rowclose"}

LEMMA KnownRests == ASSUME pc' \in Rest PROVE Known'
BY DEF Rest, Known, Filed, Outcome, Sized, InHand, Early, Waits, Stopping

LEMMA KnownStays ==
  ASSUME Typed, Known, UNCHANGED <<pc, cur, res, pos, unlisted>>,
         cur \in Ids => row'[cur] = row[cur] /\ prot'[cur].qty = prot[cur].qty
  PROVE  Known'
<1>1. UNCHANGED <<IsExit, Sym, InHand, ToBook>>
  BY DEF IsExit, Sym, InHand, ToBook
<1>2. pc \notin Rest \cup {"fill"} => cur \in Ids
  BY DEF Typed, Flags, Phase, Rest, Steps, EntrySteps, ExitSteps, ExitOnly, OrderSteps
<1>3. pc = "fill" => cur \in Ids
  BY DEF Typed, Phase, EntrySteps
<1>4. CASE pc \in Rest
  BY <1>4, KnownRests
<1>5. CASE pc \notin Rest
  <2>1. cur \in Ids /\ row'[cur] = row[cur] /\ prot'[cur].qty = prot[cur].qty
    BY <1>2, <1>3, <1>5
  <2>2. Filed'
    BY <1>1, <2>1 DEF Known, Filed, OnBook, Unresolved
  <2>3. Outcome' /\ Sized'
    BY <1>1, <2>1 DEF Known, Outcome, Sized
  <2> QED BY <2>2, <2>3 DEF Known
<1> QED BY <1>4, <1>5

\* An absorbed exception: the entry's row says that the outcome is unknown.
LEMMA AbsorbedKnown ==
  ASSUME Typed, Answers, Known, Absorbed, UNCHANGED prot, cur \in Ids,
         pc \in (Early \cup OrderSteps) \ {"submit"}
  PROVE  Known'
<1>1. CASE EndOp
  BY <1>1, KnownRests DEF EndOp, Rest
<1>2. CASE /\ ~IsExit /\ MarkUnknown(cur, pos) /\ pc' = "final" /\ cur' = cur
           /\ res' = [res EXCEPT !.status = "SUBMITTED", !.unknown = TRUE]
  <2>1. /\ res'.status = "SUBMITTED" /\ res'.unknown /\ res'.filled = res.filled
        /\ res'.stop = res.stop
    BY <1>2 DEF Typed, Values, Result
  <2>2. Unresolved(cur)' /\ ~IsExit'
    BY <1>2 DEF MarkUnknown, Unresolved, Unfinished, Typed, Values, IsExit
  <2>3. res.stop => pc = "stopcheck"
    BY <1>2 DEF Answers, StopAnswer, Asked, OrderSteps, Early, Typed, Phase, ExitOnly, IsExit
  <2> QED
  BY <1>2, <2>1, <2>2, <2>3 DEF Known, Filed, Outcome, Sized, InHand, Early, Waits, Stopping, OnBook
<1> QED BY <1>1, <1>2 DEF Absorbed

\* CreatePending: the entry has an unfinished row, or is unlisted.
LEMMA CreatePendingKnown == ASSUME Typed, Known, CreatePending PROVE Known'
<1>1. CASE EndOp
  BY <1>1, KnownRests DEF EndOp, Rest
<1>2. CASE pc' = "gate" /\ UNCHANGED callVars
           /\ row' = [row EXCEPT ![cur] = IF @ = "none" THEN "pending" ELSE @]
           /\ unlisted' = IF row[cur] = "none" THEN unlisted ELSE unlisted \cup {cur}
  <2>1. cur \in Entries /\ ~IsExit /\ cur' = cur /\ ~IsExit'
    BY <1>2 DEF CreatePending, Typed, Phase, EntrySteps, IsExit, callVars
  <2>2. OnBook(cur)'
    BY <1>2, <2>1 DEF OnBook, Unresolved, Unfinished, Typed, Values
  <2> QED BY <1>2, <2>1, <2>2 DEF Known, Filed, Outcome, Sized, InHand, Early, Waits, Stopping
<1> QED BY <1>1, <1>2 DEF CreatePending

\* LiveGate: an entry that is not sent has nothing to book.
LEMMA LiveGateKnown == ASSUME Typed, Intent, Known, LiveGate PROVE Known'
<1>1. pc = "gate" /\ ~IsExit /\ OnBook(cur) /\ UNCHANGED <<cur, row, unlisted>> /\ ~IsExit'
  BY DEF LiveGate, Typed, Phase, EntrySteps, IsExit, Known, Filed, callVars, dbVars, history
<1>2. OnBook(cur)'
  BY <1>1 DEF OnBook, Unresolved
<1>3. CASE pc' = "submit"
  BY <1>1, <1>2, <1>3 DEF Known, Filed, Outcome, Sized, InHand, Early, Waits, Stopping
<1>4. CASE pc' = "final" /\ res' = [res EXCEPT !.status = "REJECTED"]
  <2>1. res'.status = "REJECTED" /\ res'.filled = 0 /\ ~res'.stop
    BY <1>1, <1>4 DEF Intent, Before, Ready, NoResult
  <2> QED BY <1>1, <1>2, <1>4, <2>1 DEF Known, Filed, Outcome, Sized, InHand, Early, Waits, Stopping
<1> QED BY <1>3, <1>4 DEF LiveGate

\* From one wait to the next the row stays unfinished.
LEMMA WaitsKnown ==
  ASSUME Typed, Known, pc \in {"submit"} \cup Waits, pc' \in Waits, UNCHANGED <<cur, pos>>,
         \/ UNCHANGED <<row, unlisted>> /\ (pc' \in {"ack", "record"} \/ pc \in {"poll", "cancel", "status"})
         \/ Unresolved(cur)',
         pc' = "record" => res'.id \/ Unresolved(cur)'
  PROVE  Known'
<1>1. UNCHANGED <<IsExit, Sym>> /\ pc' \notin {"gate", "submit", "final", "fill", "x_book", "x_close"}
      /\ pc' \notin Stopping /\ pc' \notin Early
  BY DEF IsExit, Sym, Waits, Stopping, Early
<1>2. IsExit => Unresolved(cur)' /\ pos[Sym].qty > 0
  BY DEF Known, Filed, Sized, Unresolved, Waits
<1>3. ~IsExit /\ pc' \in {"ack", "record"} => OnBook(cur)'
  BY DEF Known, Filed, OnBook, Unresolved, Waits
<1>4. ~IsExit /\ pc' \in {"poll", "cancel", "status"} => Unresolved(cur)'
  BY DEF Known, Filed, Unresolved, Waits
<1>5. Filed'
  BY <1>1, <1>2, <1>3, <1>4 DEF Filed, Early, Waits
<1>6. Outcome' /\ Sized'
  BY <1>1, <1>2 DEF Outcome, Sized, InHand, Waits, Stopping
<1> QED BY <1>5, <1>6 DEF Known

LEMMA SubmitKnown == ASSUME Typed, Known, Submit PROVE Known'
<1>1. pc = "submit" /\ pc' = "ack" /\ UNCHANGED <<cur, pos, row, unlisted>>
  BY DEF Submit, callVars, dbVars, history
<1> QED BY <1>1, WaitsKnown DEF Waits

LEMMA AckKnown == ASSUME Typed, Known, Ack PROVE Known'
<1>1. pc = "ack" /\ pc' = "record" /\ UNCHANGED <<cur, pos, row, unlisted>> /\ res'.id
  BY DEF Ack, callVars, dbVars, history, Typed, Values, Result
<1> QED BY <1>1, WaitsKnown DEF Waits

LEMMA SubmitUnknownKnown == ASSUME Typed, Known, SubmitUnknown PROVE Known'
<1>1. /\ pc \in {"submit", "ack"} /\ pc' = "record" /\ UNCHANGED <<cur, pos>> /\ cur \in Ids
      /\ row' = [row EXCEPT ![cur] = "unknown"]
  BY DEF SubmitUnknown, MarkUnknown, callVars, Typed, Phase, OrderSteps
<1>2. Unresolved(cur)'
  BY <1>1 DEF Unresolved, Unfinished, Typed, Values
<1> QED BY <1>1, <1>2, WaitsKnown DEF Waits

\* Record: the row is unfinished, or the operation is over.
LEMMA RecordKnown == ASSUME Typed, Intent, Answers, Known, Record PROVE Known'
<1>0. pc = "record" /\ cur \in Ids /\ UNCHANGED <<prot, pos>> /\ res.status = "SUBMITTED"
      /\ ~res.stop /\ (res.id \/ res.unknown)
  BY DEF Record, Typed, Phase, OrderSteps, brokerVars, Intent, After, Answers, StopAnswer, Asked
<1>1. CASE Absorbed
  BY <1>0, <1>1, AbsorbedKnown DEF OrderSteps
<1>2. CASE EndOp
  BY <1>2, KnownRests DEF EndOp, Rest
<1>3. CASE /\ row' = [row EXCEPT ![cur] = IF res.unknown THEN "unknown" ELSE "submitted"]
           /\ pc' = IF res.id THEN "poll" ELSE IF IsExit THEN "x_close" ELSE "final"
           /\ UNCHANGED <<callVars, res>>
  <2>1. Unresolved(cur)'
    BY <1>0, <1>3 DEF Unresolved, Unfinished, Typed, Values, callVars
  <2>2. cur' = cur /\ UNCHANGED <<IsExit, Sym>> /\ (IsExit => pos[Sym].qty > 0)
    BY <1>0, <1>3 DEF callVars, IsExit, Sym, Known, Sized, Waits
  <2> QED BY <1>0, <1>3, <2>1, <2>2 DEF Known, Filed, Outcome, Sized, InHand, Early, Waits, Stopping, OnBook
<1> QED BY <1>1, <1>2, <1>3 DEF Record

\* What a read-back of the order leads to.
LEMMA ReadBackKnown ==
  ASSUME Typed, Answers, Known, pc \in {"poll", "status"}, UNCHANGED <<cur, pos>>,
         Unresolved(cur)', res' \in Result, ~res'.stop,
         \/ pc' = "cancel"
         \/ /\ pc' = Settled(res')
            /\ res'.status = "REJECTED" => res'.filled = 0
            /\ res'.status # "SUBMITTED" \/ (~IsExit /\ res'.unknown)
            /\ res'.status \in {"FILLED", "PARTIAL"} => res'.filled > 0 \/ res'.unknown
            /\ res'.status = "FAILED" => res'.unknown /\ ~IsExit
  PROVE  Known'
<1>1. /\ UNCHANGED <<IsExit, Sym>> /\ cur \in Ids /\ (IsExit => pos[Sym].qty > 0)
      /\ pc = "poll" \/ pc = "status"
  BY DEF IsExit, Sym, Known, Sized, Waits, Typed, Phase, OrderSteps
<1>2. CASE pc' = "cancel"
  BY <1>1, <1>2, WaitsKnown DEF Waits
<1>3. CASE /\ pc' = Settled(res')
           /\ res'.status = "REJECTED" => res'.filled = 0
           /\ res'.status # "SUBMITTED" \/ (~IsExit /\ res'.unknown)
           /\ res'.status \in {"FILLED", "PARTIAL"} => res'.filled > 0 \/ res'.unknown
           /\ res'.status = "FAILED" => res'.unknown /\ ~IsExit
  <2>1. /\ pc' \in {"x_close", "stop", "final"} /\ (pc' = "x_close" <=> IsExit)
        /\ pc' = "stop" => res'.filled > 0
    BY <1>3 DEF Settled
  <2>2. Filed'
    BY <1>1, <2>1 DEF Filed, OnBook, Early, Waits, Stopping
  <2>3. pc' = "final" => res'.unknown \/ res'.status = "REJECTED" \/ ToBook'
    <3>1. res'.status \in {"SUBMITTED", "FILLED", "PARTIAL", "REJECTED", "FAILED"}
      BY DEF Result
    <3> QED BY <1>3, <2>1, <3>1 DEF ToBook
  <2>4. Outcome'
    BY <1>1, <1>3, <2>1, <2>3 DEF Outcome, Stopping
  <2>5. Sized'
    BY <1>1, <2>1 DEF Sized, InHand, Early, Waits, Stopping
  <2> QED BY <2>2, <2>4, <2>5 DEF Known
<1> QED BY <1>2, <1>3

\* Poll: a quantity that is reported is executed.
LEMMA PollKnown == ASSUME Typed, Intent, Answers, Known, Poll PROVE Known'
<1>0. /\ pc = "poll" /\ cur \in Ids /\ UNCHANGED <<cur, pos, row, IsExit>> /\ res \in Result
      /\ mkt[cur].filled \in Nat /\ res.filled \in Nat /\ res.filled <= mkt[cur].filled
      /\ ~res.stop
  BY OrderTyped DEF Poll, Typed, Values, Phase, OrderSteps, BrokerTypeOK, callVars, dbVars, IsExit,
     Answers, FillAnswer, StopAnswer, Asked, Result
<1>1. Unresolved(cur)'
  <2>1. Unresolved(cur)
    BY <1>0 DEF Known, Filed, Waits
  <2> QED BY <1>0, <2>1 DEF Unresolved
<1>2. CASE /\ mkt[cur].filled > 0 /\ res' = [res EXCEPT !.status = "FILLED", !.filled = mkt[cur].filled]
           /\ pc' = Settled(res')
  <2>1. res' \in Result /\ res'.status = "FILLED" /\ res'.filled > 0 /\ ~res'.stop
    BY <1>0, <1>2 DEF Result
  <2> QED BY <1>0, <1>1, <1>2, <2>1, ReadBackKnown
<1>3. CASE /\ mkt[cur].filled = 0 /\ res' = [res EXCEPT !.status = "REJECTED"]
           /\ pc' = Settled(res')
  <2>1. res' \in Result /\ res'.status = "REJECTED" /\ res'.filled = res.filled /\ ~res'.stop
    BY <1>0, <1>3 DEF Result
  <2>2. res'.filled = 0
    BY <1>0, <1>3, <2>1
  <2> QED BY <1>0, <1>1, <1>3, <2>1, <2>2, ReadBackKnown
<1>4. CASE /\ res' = [res EXCEPT !.status = "PARTIAL", !.filled = mkt[cur].filled]
           /\ pc' = "cancel"
  <2>1. res' \in Result /\ ~res'.stop
    BY <1>0, <1>4 DEF Result
  <2> QED BY <1>0, <1>1, <1>4, <2>1, ReadBackKnown
<1>5. CASE (\E u \in BOOLEAN : res' = [res EXCEPT !.unknown = u]) /\ pc' = "cancel"
  <2>1. res' \in Result /\ ~res'.stop
    BY <1>0, <1>5 DEF Result
  <2> QED BY <1>0, <1>1, <1>5, <2>1, ReadBackKnown
<1>6. CASE res' = [res EXCEPT !.status = "FAILED"] /\ pc' = "cancel"
  <2>1. res' \in Result /\ ~res'.stop
    BY <1>0, <1>6 DEF Result
  <2> QED BY <1>0, <1>1, <1>6, <2>1, ReadBackKnown
<1> QED BY <1>2, <1>3, <1>4, <1>5, <1>6 DEF Poll

\* Cancel: the row stays as it is.
LEMMA CancelKnown == ASSUME Typed, Answers, Known, Cancel PROVE Known'
<1>0. pc = "cancel" /\ cur \in Ids /\ UNCHANGED <<prot, pos>>
  BY DEF Cancel, Typed, Phase, OrderSteps
<1>1. CASE Absorbed
  BY <1>0, <1>1, AbsorbedKnown DEF OrderSteps
<1>2. CASE pc' = "status" /\ UNCHANGED <<callVars, dbVars, unlisted>>
  BY <1>0, <1>2, WaitsKnown DEF callVars, dbVars, Waits
<1> QED BY <1>1, <1>2 DEF Cancel

\* Status: a final answer, or the row says that the outcome is unknown.
LEMMA StatusKnown == ASSUME Typed, Intent, Answers, Known, Status PROVE Known'
<1>0. /\ pc = "status" /\ cur \in Ids /\ UNCHANGED pos /\ res \in Result
      /\ mkt[cur].filled \in Nat /\ ~res.stop /\ res.status # "REJECTED" /\ Unresolved(cur)
  BY OrderTyped DEF Status, Typed, Values, Phase, OrderSteps, BrokerTypeOK, Intent, After,
     Answers, StopAnswer, Asked, Known, Filed, Waits
<1>2. CASE EndOp
  BY <1>2, KnownRests DEF EndOp, Rest
<1>3. CASE /\ res' = [res EXCEPT !.filled = mkt[cur].filled, !.status =
                        IF mkt[cur].filled = 0 THEN "REJECTED"
                        ELSE IF IsExit THEN "PARTIAL" ELSE "FILLED"]
           /\ pc' = Settled(res') /\ UNCHANGED <<callVars, row>>
  <2>1. /\ res' \in Result /\ ~res'.stop /\ res'.filled = mkt[cur].filled
        /\ res'.status = "REJECTED" <=> res'.filled = 0
        /\ res'.status # "SUBMITTED"
    BY <1>0, <1>3 DEF Result
  <2>2. res'.status # "REJECTED" => res'.filled > 0
    BY <1>0, <2>1
  <2>4. res'.status # "FAILED"
    BY <1>0, <1>3 DEF Result
  <2>3. Unresolved(cur)' /\ UNCHANGED <<cur, pos>>
    BY <1>0, <1>3 DEF Unresolved, callVars
  <2> QED BY <1>0, <1>3, <2>1, <2>2, <2>3, <2>4, ReadBackKnown
<1>4. CASE /\ ~IsExit /\ res' = [res EXCEPT !.unknown = TRUE] /\ pc' = Settled(res)
           /\ UNCHANGED callVars /\ MarkUnknown(cur, pos)
  <2>1. res' \in Result /\ ~res'.stop /\ res'.unknown /\ res'.status # "REJECTED" /\ res'.filled = res.filled
    BY <1>0, <1>4 DEF Result
  <2>2. Unresolved(cur)' /\ UNCHANGED <<cur, pos>>
    BY <1>0, <1>4 DEF Unresolved, Unfinished, MarkUnknown, callVars, Typed, Values
  <2>3. Settled(res) = Settled(res')
    BY <2>1 DEF Settled
  <2> QED BY <1>0, <1>4, <2>1, <2>2, <2>3, ReadBackKnown
<1> QED BY <1>0, <1>2, <1>3, <1>4 DEF Status, dbVars

\* PlaceStop: for what the entry has bought, or what the exit has not sold.
LEMMA PlaceStopKnown == ASSUME Typed, Known, PlaceStop PROVE Known'
<1>0. /\ pc = "stop" /\ pc' = "stopack" /\ cur \in Ids
      /\ UNCHANGED <<cur, res, pos, row, unlisted, IsExit, Sym>>
      /\ prot'[cur].qty = IF IsExit THEN pos[Sym].qty - res.filled ELSE res.filled
  BY DEF PlaceStop, Typed, Phase, OrderSteps, BrokerTypeOK, Sent, callVars, dbVars, history,
     IsExit, Sym
<1>1. ~IsExit => Unresolved(cur)'
  BY <1>0 DEF Known, Filed, Stopping, Unresolved
<1>2. Filed'
  BY <1>0, <1>1 DEF Filed, Stopping, Early, Waits
<1>3. Outcome' /\ Sized'
  BY <1>0 DEF Known, Outcome, Sized, Stopping, Early, Waits, InHand
<1> QED BY <1>2, <1>3 DEF Known

LEMMA StopAckKnown == ASSUME Typed, Known, StopAck PROVE Known'
<1>0. /\ pc = "stopack" /\ pc' = "stopcheck" /\ cur \in Ids
      /\ UNCHANGED <<cur, pos, row, unlisted, prot, IsExit, Sym>>
      /\ res'.filled = res.filled /\ res'.status = res.status /\ res'.unknown = res.unknown
  BY DEF StopAck, Typed, Phase, OrderSteps, Values, Result, callVars, dbVars, brokerVars, history,
     IsExit, Sym
<1>1. ~IsExit => Unresolved(cur)'
  BY <1>0 DEF Known, Filed, Stopping, Unresolved
<1>2. Filed'
  BY <1>0, <1>1 DEF Filed, Stopping, Early, Waits
<1>3. Outcome' /\ Sized'
  BY <1>0 DEF Known, Outcome, Sized, Stopping, Early, Waits, InHand
<1> QED BY <1>2, <1>3 DEF Known

\* StopConfirmed, StopUnconfirmed: the position's stop is the one just placed,
\* or none.
LEMMA StopCheckedKnown ==
  ASSUME Typed, Stops, Answers, Known, StopConfirmed \/ StopUnconfirmed
  PROVE  Known'
<1>0. /\ pc \in Stopping /\ cur \in Ids /\ pos \in [Symbols -> Position] /\ Sym \in Symbols
      /\ UNCHANGED <<cur, prot, IsExit, Sym>>
      /\ pc' = IF IsExit THEN "x_book" ELSE "final"
      /\ res'.status = res.status /\ res'.filled = res.filled /\ res'.stop = res.stop
      /\ res'.unknown = res.unknown \/ res'.unknown
      /\ res.status \in {"SUBMITTED", "FILLED", "PARTIAL", "REJECTED", "FAILED"}
      /\ res.status = "FAILED" => res.unknown /\ ~IsExit
  BY DEF Known, Outcome, StopConfirmed, StopUnconfirmed, Stopping, Attached, Typed, Phase, Values, Result,
     OrderSteps, callVars, brokerVars, IsExit, Sym
<1>1. CASE IsExit
  <2>1. pos' = [pos EXCEPT ![Sym].stop = None] \/ (pos' = [pos EXCEPT ![Sym].stop = cur] /\ pc # "stop")
    <3>1. res.stop => pc # "stop"
      BY DEF Answers, StopAnswer, Asked
    <3>2. CASE StopConfirmed
      BY <1>1, <3>2 DEF StopConfirmed, Attached
    <3>3. CASE StopUnconfirmed
      BY <1>1, <3>1, <3>3 DEF StopUnconfirmed, Attached
    <3> QED BY <3>2, <3>3
  <2>2. /\ pos'[Sym] = [pos[Sym] EXCEPT !.stop = None] \/ pos'[Sym] = [pos[Sym] EXCEPT !.stop = cur]
        /\ pc = "stop" => pos'[Sym] = [pos[Sym] EXCEPT !.stop = None]
    BY <1>0, <2>1
  <2>3. /\ pos'[Sym].qty = pos[Sym].qty
        /\ pos'[Sym].stop # None => pos'[Sym].stop = cur /\ pc # "stop"
    BY <1>0, <2>2 DEF Position
  <2>4. pos[Sym].qty > 0 /\ (pc # "stop" => prot[cur].qty = pos[Sym].qty - res.filled)
    BY <1>0, <1>1 DEF Known, Sized, Stopping
  <2>5. res.status # "SUBMITTED" /\ (res.status = "REJECTED" => res.filled = 0)
    BY <1>0, <1>1 DEF Known, Outcome, Stopping
  <2> QED BY <1>0, <1>1, <2>3, <2>4, <2>5 DEF Known, Filed, Outcome, Sized, Stopping, Early, Waits
<1>2. CASE ~IsExit
  <2>1. Unresolved(cur)'
    <3>1. CASE StopConfirmed
      BY <1>0, <1>2, <3>1 DEF StopConfirmed, dbVars, Known, Filed, Unresolved
    <3>2. CASE StopUnconfirmed
      BY <1>0, <1>2, <3>2 DEF StopUnconfirmed, MarkUnknown, Unresolved, Unfinished, Typed, Values
    <3> QED BY <3>1, <3>2
  <2>2. /\ res.status = "REJECTED" => res.filled = 0
        /\ res.status # "SUBMITTED" \/ res.unknown
        /\ res.filled > 0
        /\ res.stop => prot[cur].qty = res.filled
    <3>1. res.stop => cur \in InHand
      BY <1>0 DEF Answers, StopAnswer, Asked, InHand, Stopping
    <3> QED BY <1>0, <1>2, <3>1 DEF Known, Outcome, Sized, Stopping
  <2>3. res'.unknown \/ res'.status = "REJECTED" \/ ToBook'
    BY <1>0, <2>2 DEF ToBook
  <2>4. Filed' /\ Outcome'
    BY <1>0, <1>2, <2>1, <2>2, <2>3 DEF Filed, Outcome, OnBook, Stopping, Early, Waits
  <2>5. Sized'
    BY <1>0, <1>2, <2>2 DEF Sized, InHand, Stopping, Early, Waits
  <2> QED BY <2>4, <2>5 DEF Known
<1> QED BY <1>1, <1>2

\* RecordFinal: the row of a fill is unfinished, or its stop is in place.
LEMMA RecordFinalKnown == ASSUME Typed, Known, RecordFinal PROVE Known'
<1>1. CASE EndOp
  BY <1>1, KnownRests DEF EndOp, Rest
<1>2. CASE row' = [row EXCEPT ![cur] = RowOf(res)] /\ ToBook /\ pc' = "fill" /\ UNCHANGED <<callVars, res>>
  <2>1. /\ pc = "final" /\ cur \in Entries /\ ~IsExit /\ UNCHANGED <<cur, prot, IsExit>>
    BY <1>2 DEF RecordFinal, Typed, Phase, EntrySteps, IsExit, callVars, brokerVars
  <2>2. Unresolved(cur)' \/ res.stop
    BY <1>2, <2>1 DEF Unresolved, Unfinished, RowOf, ToBook, Typed, Values, callVars
  <2>3. res.stop => prot[cur].qty = res.filled
    BY <2>1 DEF Known, Sized, InHand
  <2> QED BY <1>2, <2>1, <2>2, <2>3 DEF Known, Filed, Outcome, Sized, InHand, Stopping, Early, Waits
<1> QED BY <1>1, <1>2 DEF RecordFinal

LEMMA AnalysisTimeoutKnown == ASSUME Typed, Answers, Known, AnalysisTimeout PROVE Known'
<1>1. CASE EndOp
  BY <1>1, KnownRests DEF EndOp, Rest
<1>2. CASE pc \in {"poll", "cancel", "status", "stop", "stopack", "stopcheck"} /\ Absorbed
  <2>1. pc \in OrderSteps \ {"submit"} /\ cur \in Ids
    BY <1>2 DEF Typed, Phase, OrderSteps
  <2> QED BY <1>2, <2>1, AbsorbedKnown DEF AnalysisTimeout, brokerVars
<1> QED BY <1>1, <1>2 DEF AnalysisTimeout

\* BeginExit: the exit has a row, and its position a quantity.
LEMMA BeginExitKnown == ASSUME Typed, Known, NEW x \in Exits, BeginExit(x) PROVE Known'
<1>1. /\ cur' = x /\ pc' \in {"x_stop", "x_qty"} /\ UNCHANGED pos /\ IsExit'
      /\ row'[x] = "pending" /\ pos[SymbolOf[x]].qty > 0 /\ Sym' = SymbolOf[x]
  BY DEF BeginExit, IsExit, Typed, Values, Sym
<1> QED BY <1>1 DEF Known, Filed, Outcome, Sized, InHand, Stopping, Early, Waits, Unresolved,
   Unfinished

\* Until it is sent, an exit goes on with the row it has.
LEMMA EarlyKnown ==
  ASSUME Typed, Known, pc \in Early, pc' \in Early \cup {"submit"}, UNCHANGED <<cur, row>>,
         pos'[Sym].qty = pos[Sym].qty
  PROVE  Known'
<1>1. IsExit /\ cur \in Exits /\ UNCHANGED <<IsExit, Sym>>
  BY DEF Typed, Phase, ExitOnly, Early, IsExit, Sym
<1>2. Unresolved(cur)' /\ pos'[Sym].qty > 0
  BY <1>1 DEF Known, Filed, Sized, Unresolved
<1> QED BY <1>1, <1>2 DEF Known, Filed, Outcome, Sized, InHand, Stopping, Early, Waits

LEMMA CancelStopKnown == ASSUME Typed, Answers, Known, CancelStop PROVE Known'
<1>0. pc = "x_stop" /\ cur \in Ids /\ UNCHANGED pos
  BY DEF CancelStop, Typed, Phase, ExitOnly
<1>1. CASE Absorbed /\ UNCHANGED prot
  BY <1>0, <1>1, AbsorbedKnown DEF Early
<1>2. CASE pc' = "x_stopstatus" /\ UNCHANGED <<callVars, dbVars>>
  BY <1>0, <1>2, EarlyKnown DEF callVars, dbVars, Early
<1> QED BY <1>1, <1>2 DEF CancelStop

\* StopStatus: an ambiguous fill leaves the row unfinished.
LEMMA StopStatusKnown == ASSUME Typed, Known, StopStatus PROVE Known'
<1>0. /\ pc = "x_stopstatus" /\ cur \in Exits /\ IsExit /\ pos \in [Symbols -> Position]
      /\ Sym \in Symbols /\ pos[Sym].qty > 0
  BY DEF StopStatus, Typed, Phase, ExitOnly, IsExit, Sym, Values, Known, Sized, Early
<1>1. CASE EndOp
  BY <1>1, KnownRests DEF EndOp, Rest
<1>2. CASE pos' = [pos EXCEPT ![Sym].stop = None] /\ UNCHANGED callVars
  <2>1. pos'[Sym] = [pos[Sym] EXCEPT !.stop = None]
    BY <1>0, <1>2
  <2>2. pos'[Sym].qty = pos[Sym].qty /\ pos'[Sym].stop = None /\ UNCHANGED <<cur, IsExit, Sym>>
    BY <1>0, <1>2, <2>1 DEF Position, callVars, IsExit, Sym
  <2>3. CASE pc' = "x_qty" /\ UNCHANGED row
    BY <1>0, <2>2, <2>3, EarlyKnown DEF Early
  <2>4. CASE pc' = "x_book" /\ row' = [row EXCEPT ![cur] = "unknown"] /\ res'.status = "PARTIAL"
    <3>1. Unresolved(cur)'
      BY <1>0, <2>2, <2>4 DEF Unresolved, Unfinished, Typed, Values
    <3> QED BY <1>0, <2>2, <2>4, <3>1 DEF Known, Filed, Outcome, Sized, InHand, Stopping, Early, Waits
  <2>5. \/ EndOp
        \/ pc' = "x_qty" /\ UNCHANGED row
        \/ /\ pc' = "x_book" /\ row' = [row EXCEPT ![cur] = "unknown"]
           /\ \E q : res' = [NoResult EXCEPT !.status = "PARTIAL", !.filled = q]
    BY <1>0 DEF StopStatus, MarkUnknown, dbVars
  <2>6. (\E q : res' = [NoResult EXCEPT !.status = "PARTIAL", !.filled = q]) => res'.status = "PARTIAL"
    BY DEF NoResult
  <2> QED BY <1>1, <2>3, <2>4, <2>5, <2>6
<1> QED BY <1>1, <1>2 DEF StopStatus

LEMMA CheckQuantityKnown == ASSUME Typed, Answers, Known, CheckQuantity PROVE Known'
<1>0. pc = "x_qty" /\ cur \in Ids /\ UNCHANGED <<pos, prot>>
  BY DEF CheckQuantity, Typed, Phase, ExitOnly, brokerVars
<1>1. CASE Absorbed
  BY <1>0, <1>1, AbsorbedKnown DEF Early
<1>2. CASE EndOp
  BY <1>2, KnownRests DEF EndOp, Rest
<1>3. CASE pc' = "submit" /\ UNCHANGED <<callVars, dbVars>>
  BY <1>0, <1>3, EarlyKnown DEF callVars, dbVars, Early
<1> QED BY <1>1, <1>2, <1>3 DEF CheckQuantity

\* CloseExit: the row is closed on an answer only.
LEMMA CloseExitKnown == ASSUME Typed, Stops, Known, CloseExit PROVE Known'
<1>0. /\ pc = "x_close" /\ cur \in Exits /\ IsExit /\ UNCHANGED <<cur, res, pos, prot, IsExit, Sym>>
      /\ pos[Sym].qty > 0 /\ pos[Sym].stop = None
      /\ res.status = "REJECTED" => res.filled = 0
  BY DEF CloseExit, Typed, Phase, ExitOnly, IsExit, Sym, callVars, brokerVars, Known, Sized,
     Outcome, Stops, Seller, Selling
<1>1. CASE row' = [row EXCEPT ![cur] = "unknown"] /\ pc' = "x_book"
  <2>1. Unresolved(cur)'
    BY <1>0, <1>1 DEF Unresolved, Unfinished, Typed, Values
  <2> QED BY <1>0, <1>1, <2>1 DEF Known, Filed, Outcome, Sized, InHand, Stopping, Early, Waits
<1>2. CASE res.status # "SUBMITTED" /\ pc' \in {"stop", "x_book"}
  BY <1>0, <1>2 DEF Known, Filed, Outcome, Sized, InHand, Stopping, Early, Waits
<1> QED BY <1>0, <1>1, <1>2 DEF CloseExit, MarkUnknown

\* Outside: no quantity ordered changes.
LEMMA OutsideKnown == ASSUME Typed, Known, Outside PROVE Known'
<1>1. UNCHANGED <<pc, cur, res, pos, row, unlisted>>
  BY DEF Outside, callVars, dbVars, history
<1>2. PICK j \in Ids : Arrive(j) \/ FillMarket(j) \/ FillStop(j) \/ Withdraw(j)
  BY DEF Outside, BrokerNext
<1>3. \A i \in Ids : prot'[i].qty = prot[i].qty
  <2>1. /\ \A i \in Ids : i # j => prot'[i] = prot[i]
        /\ prot'[j] = prot[j] \/ prot'[j].qty = prot[j].qty
    BY <1>2, BrokerStep
  <2> QED BY <2>1
<1> QED BY <1>1, <1>3, KnownStays

\* The steps at which the operation begins, books or ends.
LEMMA BookingKnown ==
  ASSUME \/ \E e \in Entries : BeginEntry(e)
         \/ \E s \in Symbols : BookStop(s)
         \/ Check \/ RecordFill \/ CommitFill \/ UnknownUnsaved \/ BookExit \/ CommitExit
         \/ CloseRow \/ BeginSquareOff \/ EndSquareOff \/ Crash \/ Restart
  PROVE  Known'
<1>1. pc' \in Rest
  BY DEF BeginEntry, BookStop, Check, RecordFill, CommitFill, UnknownUnsaved, BookExit,
     CommitExit, CloseRow, BeginSquareOff, EndSquareOff, Crash, Restart, EndOp, Rest
<1> QED BY <1>1, KnownRests

LEMMA ElsewhereKnown ==
  ASSUME Typed, Known,
         \/ \E s \in Symbols : BeginExitDbDown(s) \/ SkipExit(s) \/ StopProblem(s)
         \/ BrokerDoubt \/ Halt \/ Resume \/ BeginRetry \/ Compare \/ Apply
  PROVE  Known'
<1>1. /\ UNCHANGED <<cur, res, pos, prot, row, unlisted>>
      /\ UNCHANGED pc \/ pc' = "idle"
  BY DEF BeginExitDbDown, SkipExit, StopProblem, BrokerDoubt, Halt, Resume, BeginRetry, Compare,
     Apply, MarkUnknownUnsaved, callVars, brokerVars, dbVars, history
<1> QED BY <1>1, KnownStays, KnownRests DEF Rest

LEMMA NextKnown == ASSUME Typed, Intent, Stops, Answers, Known, Next PROVE Known'
<1>1. CASE OrderStep
  BY <1>1, SubmitKnown, AckKnown, SubmitUnknownKnown, RecordKnown, PollKnown, CancelKnown,
     StatusKnown, PlaceStopKnown, StopAckKnown, StopCheckedKnown DEF OrderStep
<1>2. CASE EntryStep
  BY <1>2, BookingKnown, CreatePendingKnown, LiveGateKnown, RecordFinalKnown DEF EntryStep
<1>3. CASE ExitStep
  BY <1>3, CancelStopKnown, StopStatusKnown, CheckQuantityKnown, CloseExitKnown, BookingKnown
     DEF ExitStep
<1>4. CASE Sweep
  BY <1>4, BeginExitKnown, ElsewhereKnown, BookingKnown DEF Sweep
<1>5. CASE Locked
  BY <1>1, <1>2, <1>3, <1>4, <1>5, BeginExitKnown, ElsewhereKnown, BookingKnown
     DEF Locked, Lifecycle
<1>6. CASE Unlocked
  BY <1>6, AnalysisTimeoutKnown, ElsewhereKnown, BookingKnown DEF Unlocked
<1>7. CASE Outside
  BY <1>7, OutsideKnown
<1> QED BY <1>5, <1>6, <1>7 DEF Next

LEMMA InitKnown == Init => Known /\ Whole /\ Whose
BY DEF Init, BrokerInit, NoOrder, NoPosition, Known, Filed, Outcome, Sized, InHand, Early, Waits,
   Stopping, Whole, Whose, OwnStops

LEMMA StutterKnown ==
  ASSUME UNCHANGED vars, Typed, Known, Whole, Whose PROVE Known' /\ Whole' /\ Whose'
<1>1. UNCHANGED <<pc, cur, res, pos, unlisted, row, prot, dpos>>
  BY DEF vars, callVars, dbVars, brokerVars, history
<1> QED BY <1>1, KnownStays DEF Whole, Whose, OwnStops

-----------------------------------------------------------------------------
(* What an entry has bought is held, up to what its stop has sold          *)

Bought == \A s \in Symbols :
  ~Stray(s) /\ ~Twice(s) /\ ~IsExit /\ cur \in InHand /\ Sym = s =>
    held[s] + prot[cur].filled >= res.filled

\* With its stop in hand the operation goes on with the quantity it has.
LEMMA InHandFrom ==
  ASSUME Typed, Intent, Answers, Next, cur' \in InHand', ~IsExit', ~PlaceStop
  PROVE  cur' = cur /\ cur \in InHand /\ res'.filled = res.filled
<1>1. ASSUME pc' \in {"stopack", "stopcheck"}
      PROVE  cur' = cur /\ pc \in {"stopack", "stopcheck"}
  <2>1. ~Submit
    BY <1>1 DEF Submit
  <2>2. cur' = cur /\ pc \in {"stopack", "stopcheck"}
    BY <1>1, <2>1, TradingFrom DEF Trading
  <2> QED BY <2>2
<1>2. ASSUME pc' \in {"final", "fill"}
      PROVE  cur' = cur /\ cur \in InHand /\ pc \in {"stopack", "stopcheck", "final", "fill"}
  <2>1. res'.stop
    BY <1>2 DEF InHand
  <2> QED BY <1>2, <2>1, FinalFrom DEF InHand
<1>3. cur' = cur /\ cur \in InHand /\ pc \in {"stopack", "stopcheck", "final", "fill"}
  BY <1>1, <1>2 DEF InHand
<1>4. pc' \in {"stopack", "stopcheck", "final", "fill"} /\ res \in Result
  BY DEF InHand, Typed, Values
<1>5. CASE UNCHANGED res
  BY <1>3, <1>5
<1>6. CASE StopAck
  BY <1>3, <1>4, <1>6 DEF StopAck, Result
<1>7. CASE StopUnconfirmed
  BY <1>3, <1>4, <1>7 DEF StopUnconfirmed, Result
<1>8. CASE AnalysisTimeout
  BY <1>3, <1>4, <1>8 DEF AnalysisTimeout, Absorbed, EndOp, Result
<1>9. OrderStep => StopAck \/ StopUnconfirmed \/ UNCHANGED res
  BY <1>3 DEF OrderStep, Submit, Ack, SubmitUnknown, Record, Poll, Cancel, Status, StopConfirmed
<1>10. EntryStep => UNCHANGED res
  BY <1>3, <1>4 DEF EntryStep, Check, CreatePending, LiveGate, RecordFinal, RecordFill, CommitFill, EndOp
<1>11. ~ExitStep /\ ~Sweep /\ ~UnknownUnsaved
  BY <1>3, <1>4 DEF ExitStep, CancelStop, StopStatus, CheckQuantity, CloseExit, BookExit,
     CommitExit, CloseRow, Sweep, UnknownUnsaved, EndOp
<1>12. Locked => StopAck \/ StopUnconfirmed \/ UNCHANGED res
  BY <1>3, <1>9, <1>10, <1>11 DEF Locked, BeginEntry, BeginExit, BeginExitDbDown, Lifecycle, BookStop,
     StopProblem, BeginSquareOff
<1>13. Unlocked => AnalysisTimeout \/ UNCHANGED res
  BY <1>4 DEF Unlocked, BrokerDoubt, Halt, Resume, BeginRetry, Compare, Apply, Crash, Restart
<1> QED BY <1>3, <1>5, <1>6, <1>7, <1>8, <1>12, <1>13 DEF Next, Outside

\* What is marked as used twice stays so.
LEMMA TwiceStays == ASSUME Next, NEW s \in Symbols, Twice(s) PROVE Twice(s)'
BY AgainStays DEF Twice

LEMMA BoughtStep ==
  ASSUME Typed, Intent, Stops, Answers, Sole, Room, Bought, Next
  PROVE  Bought'
<1> SUFFICES ASSUME NEW s \in Symbols, ~Stray(s)', ~Twice(s)', ~IsExit', cur' \in InHand',
                    Sym' = s
             PROVE  held'[s] + prot'[cur'].filled >= res'.filled
  BY DEF Bought
<1>0. ~Stray(s) /\ ~Twice(s) /\ held \in [Symbols -> Int] /\ prot \in [Ids -> BrokerOrder]
      /\ res \in Result
  BY TwiceStays, StrayStays DEF Typed, BrokerTypeOK, Values
<1>1. CASE PlaceStop
  <2>1. /\ pc = "stop" /\ cur' = cur /\ cur \in Ids /\ ~IsExit /\ Sym = s
        /\ UNCHANGED <<res, held, mkt>> /\ prot' = [prot EXCEPT ![cur] = Sent(res.filled)]
    BY <1>1 DEF PlaceStop, Typed, Phase, OrderSteps, callVars, IsExit, Sym
  <2>2. prot'[cur].filled = 0
    BY <1>0, <2>1 DEF Sent
  <2>3. res.filled <= mkt[cur].filled /\ held[s] >= mkt[cur].filled
    BY <1>0, <2>1 DEF Answers, FillAnswer, Asked, Room, Deal
  <2>4. mkt[cur].filled \in Nat /\ res.filled \in Nat /\ held[s] \in Int
    BY <1>0, <2>1, OrderTyped DEF Typed, BrokerTypeOK, Result
  <2> QED BY <2>1, <2>2, <2>3, <2>4
<1>2. CASE ~PlaceStop
  <2>1. cur' = cur /\ cur \in InHand /\ res'.filled = res.filled
    BY <1>2, InHandFrom
  <2>2. ~IsExit /\ Sym = s /\ cur \in Ids /\ pc \in {"stopack", "stopcheck", "final", "fill"}
    BY <2>1 DEF IsExit, Sym, InHand, Typed, Phase, OrderSteps, EntrySteps
  <2>3. held[s] + prot[cur].filled >= res.filled
    BY <1>0, <2>1, <2>2 DEF Bought
  <2>4. CASE Outside
    <3>1. PICK j \in Ids : Arrive(j) \/ FillMarket(j) \/ FillStop(j) \/ Withdraw(j)
      BY <2>4 DEF Outside, BrokerNext
    <3>2. /\ prot[cur].filled \in Nat /\ held[s] \in Int /\ res.filled \in Nat
          /\ prot[j].filled \in Nat
      BY <1>0, <2>2, OrderTyped DEF Result
    <3>3. Ours' = Ours
      BY <2>4 DEF Outside, callVars, history, Ours, InHand
    <3>4. CASE FillMarket(j)
      <4>1. j \in Exits => SymbolOf[j] # s
        <5>1. Working(mkt[j])
          BY <3>4 DEF FillMarket, Working
        <5> QED BY <2>2, <5>1 DEF Sole, Over
      <4>2. /\ prot' = prot
            /\ held' = [held EXCEPT ![SymbolOf[j]] = IF j \in Entries THEN @ + 1 ELSE @ - 1]
        BY <3>4 DEF FillMarket
      <4>3. held'[s] = held[s] \/ held'[s] = held[s] + 1
        BY <1>0, <4>1, <4>2
      <4> QED BY <2>1, <2>3, <3>2, <4>2, <4>3
    <3>5. CASE FillStop(j)
      <4>1. /\ Working(prot[j])
            /\ \A i \in Ids : i # j => prot'[i] = prot[i]
            /\ prot'[j].filled = prot[j].filled + 1
            /\ held' = [held EXCEPT ![SymbolOf[j]] = @ - 1]
        <5>1. prot[j] \in BrokerOrder /\ prot' = [prot EXCEPT ![j] = Executed(prot[j])]
          BY <1>0, <3>5 DEF FillStop
        <5>2. Executed(prot[j]).filled = prot[j].filled + 1
          BY <5>1 DEF BrokerOrder, Executed
        <5> QED BY <1>0, <3>5, <5>1, <5>2 DEF FillStop, Working
      <4>2. SymbolOf[j] = s => j = cur
        <5>1. SymbolOf[j] = s => j \in Ours
          BY <3>2, <3>3, <4>1 DEF Stray
        <5>2. SymbolOf[j] = s => j \notin owned
          BY <2>2, <4>1, NoOtherStop DEF Trading
        <5> QED BY <5>1, <5>2 DEF Ours, InHand
      <4>3. CASE j = cur
        <5>1. held'[s] = held[s] - 1
          BY <1>0, <2>2, <4>1, <4>3 DEF Sym
        <5> QED BY <2>1, <2>3, <3>2, <4>1, <4>3, <5>1
      <4>4. CASE j # cur
        <5>1. held'[s] = held[s] /\ prot'[cur] = prot[cur]
          BY <1>0, <2>2, <4>1, <4>2, <4>4
        <5> QED BY <2>1, <2>3, <5>1
      <4> QED BY <4>3, <4>4
    <3>6. CASE ~FillMarket(j) /\ ~FillStop(j)
      <4>1. UNCHANGED held /\ prot'[cur].filled = prot[cur].filled
        BY <2>2, <3>1, <3>6, BrokerStep
      <4> QED BY <2>1, <2>3, <4>1
    <3> QED BY <3>4, <3>5, <3>6
  <2>5. CASE ~Outside
    <3>1. ~Submit
      BY <2>2 DEF Submit
    <3>2. UNCHANGED held /\ prot'[cur].filled = prot[cur].filled
      BY <1>2, <2>2, <2>5, <3>1, OthersCalm DEF Calm
    <3> QED BY <2>1, <2>3, <3>2
  <2> QED BY <2>4, <2>5
<1> QED BY <1>1, <1>2

-----------------------------------------------------------------------------
(* When the ledger can be relied upon, and by how much it then differs     *)

\* The steps at which an operation has an order out, or its own row in hand.
Busy == Ready \cup Early \cup Waits \cup Stopping \cup {"x_close", "final"}

\* An unfinished order of the instrument that no operation in progress works on.
Taken(i)  == i \in Entries => i \in claims \cup unclaimed
Hidden(s) == \E i \in Ids : /\ SymbolOf[i] = s /\ OnBook(i) /\ Taken(i)
                            /\ ~(i = cur /\ pc \in Busy)

\* Until its row is final and its fill is booked, an entry holds its claim.
Taking == ~IsExit /\ pc \in {"final", "fill"} => Taken(cur)

\* Nothing says that the instrument's quantity may be wrong.
Sure(s) == /\ ~degraded /\ ~late /\ s \notin cut /\ ~Stray(s) /\ ~Hidden(s) /\ ~Twice(s)
           /\ pc \notin {"down", "recovering"}

\* The operation has executed a part that it has not booked yet.
Away     == Waits \cup Stopping \cup {"final", "fill", "x_close", "x_book"}
Apart(s) == pc \in Away /\ Sym = s

Even(s) == pos[s].qty = held[s] + StopSold(s)

Bargain(s) ==
  /\ ~IsExit /\ pc \in Waits => held[s] = mkt[cur].filled /\ (pc = "record" => res.id)
  /\ ~IsExit /\ pc \in Stopping \cup {"final", "fill"} =>
       Over(cur) /\ held[s] + prot[cur].filled = res.filled
  /\ IsExit /\ pc \in Waits \cup {"x_close"} => pos[s].qty = held[s] + mkt[cur].filled
  /\ IsExit /\ pc \in Stopping => pos[s].qty = held[s] + res.filled + prot[cur].filled
  /\ pc = "x_book" => pos[s].qty = held[s] + res.filled + StopSold(s)

Balance(s) == (~Apart(s) => Even(s)) /\ (Apart(s) => Bargain(s))

InBalance == \A s \in Symbols : Sure(s) => Balance(s)

\* A doubt is taken back only by a reconciliation.
LEMMA DoubtsStay ==
  ASSUME Typed, Next, ~Apply
  PROVE  /\ degraded => degraded'
         /\ late' = late
         /\ cut \subseteq cut'
         /\ pc \in {"down", "recovering"} => pc' \in {"down", "recovering"}
<1>1. UNCHANGED <<late, cut>> \/ (AnalysisTimeout /\ late' = late /\ cut' = cut \cup {Sym})
  <2>1. OrderStep => UNCHANGED <<late, cut>>
    BY DEF OrderStep, Submit, Ack, SubmitUnknown, Record, Poll, Cancel, Status, PlaceStop,
       StopAck, StopConfirmed, StopUnconfirmed, history
  <2>2. EntryStep => UNCHANGED <<late, cut>>
    BY DEF EntryStep, Check, CreatePending, LiveGate, RecordFinal, RecordFill, CommitFill, history
  <2>3. ExitStep => UNCHANGED <<late, cut>>
    BY DEF ExitStep, CancelStop, StopStatus, CheckQuantity, CloseExit, BookExit, CommitExit,
       CloseRow, history
  <2>4. Sweep => UNCHANGED <<late, cut>>
    BY DEF Sweep, BeginExit, BeginExitDbDown, SkipExit, EndSquareOff, history
  <2>5. Locked => UNCHANGED <<late, cut>>
    BY <2>1, <2>2, <2>3, <2>4 DEF Locked, Lifecycle, BeginEntry, BeginExit, BeginExitDbDown,
       BookStop, StopProblem, UnknownUnsaved, BeginSquareOff, history
  <2>6. AnalysisTimeout => late' = late /\ (cut' = cut \/ cut' = cut \cup {Sym})
    BY DEF AnalysisTimeout
  <2>7. Unlocked => AnalysisTimeout \/ UNCHANGED <<late, cut>>
    BY DEF Unlocked, BrokerDoubt, Halt, Resume, BeginRetry, Compare, Crash, Restart, history
  <2> QED BY <2>5, <2>6, <2>7 DEF Next, Outside, history
<1>2. degraded' = degraded \/ degraded'
  <2>1. OrderStep => degraded' = degraded \/ degraded'
    BY DEF OrderStep, Submit, Ack, SubmitUnknown, Record, Poll, Cancel, Status, PlaceStop,
       StopAck, StopConfirmed, StopUnconfirmed, Absorbed, MarkUnknown
  <2>2. EntryStep => degraded' = degraded \/ degraded'
    BY DEF EntryStep, Check, CreatePending, LiveGate, RecordFinal, RecordFill, CommitFill
  <2>3. ExitStep => degraded' = degraded \/ degraded'
    BY DEF ExitStep, CancelStop, StopStatus, CheckQuantity, CloseExit, BookExit, CommitExit,
       CloseRow, Absorbed, MarkUnknown
  <2>4. Sweep => degraded' = degraded \/ degraded'
    BY DEF Sweep, BeginExit, BeginExitDbDown, SkipExit, EndSquareOff, MarkUnknownUnsaved
  <2>5. Locked => degraded' = degraded \/ degraded'
    BY <2>1, <2>2, <2>3, <2>4 DEF Locked, Lifecycle, BeginEntry, BeginExit, BeginExitDbDown,
       BookStop, StopProblem, UnknownUnsaved, BeginSquareOff, MarkUnknownUnsaved
  <2>6. AnalysisTimeout => degraded' = degraded \/ degraded'
    BY DEF AnalysisTimeout, Absorbed, MarkUnknown
  <2>7. Unlocked => degraded' = degraded \/ degraded'
    BY <2>6 DEF Unlocked, BrokerDoubt, Halt, Resume, BeginRetry, Compare, Crash, Restart
  <2> QED BY <2>5, <2>7 DEF Next, Outside
<1>3. ASSUME pc \in {"down", "recovering"} PROVE pc' \in {"down", "recovering"}
  <2>1. ~OrderStep /\ ~UnknownUnsaved
    BY <1>3 DEF OrderStep, Submit, Ack, SubmitUnknown, Record, Poll, Cancel, Status, PlaceStop,
       StopAck, StopConfirmed, StopUnconfirmed, UnknownUnsaved, OrderSteps
  <2>2. ~EntryStep /\ ~ExitStep /\ ~Sweep
    BY <1>3 DEF EntryStep, Check, CreatePending, LiveGate, RecordFinal, RecordFill, CommitFill,
       ExitStep, CancelStop, StopStatus, CheckQuantity, CloseExit, BookExit, CommitExit,
       CloseRow, Sweep
  <2>3. ~Locked
    BY <1>3, <2>1, <2>2 DEF Locked, Lifecycle, BeginEntry, BookStop, StopProblem, BeginSquareOff
  <2>4. ~AnalysisTimeout
    BY <1>3 DEF AnalysisTimeout
  <2> QED BY <1>3, <2>3, <2>4 DEF Next, Unlocked, BrokerDoubt, Halt, Resume, BeginRetry, Compare,
          Crash, Restart, Outside
<1> QED BY <1>1, <1>2, <1>3

\* Where an operation takes an order up.
LEMMA BusyFrom ==
  ASSUME Typed, Next, pc' \in Busy
  PROVE  \/ pc \in Busy /\ cur' = cur
         \/ Check
         \/ \E x \in Exits : BeginExit(x) /\ cur' = x /\ row[x] = "none"
<1>1. CASE OrderStep
  <2>1. pc \in Busy
    BY <1>1 DEF OrderStep, Submit, Ack, SubmitUnknown, Record, Poll, Cancel, Status, PlaceStop,
       StopAck, StopConfirmed, StopUnconfirmed, Busy, Ready, Early, Waits, Stopping
  <2>2. cur' = cur \/ EndOp
    BY <1>1 DEF OrderStep, Submit, Ack, SubmitUnknown, Record, Poll, Cancel, Status, PlaceStop,
       StopAck, StopConfirmed, StopUnconfirmed, Absorbed, callVars
  <2> QED BY <2>1, <2>2 DEF EndOp, Busy, Ready, Early, Waits, Stopping
<1>2. CASE EntryStep
  BY <1>2 DEF EntryStep, CreatePending, LiveGate, RecordFinal, RecordFill, CommitFill, EndOp,
     callVars, Busy, Ready, Early, Waits, Stopping
<1>3. CASE ExitStep
  BY <1>3 DEF ExitStep, CancelStop, StopStatus, CheckQuantity, CloseExit, BookExit, CommitExit,
     CloseRow, Absorbed, EndOp, callVars, Busy, Ready, Early, Waits, Stopping
<1>4. ASSUME NEW x \in Exits, BeginExit(x) PROVE cur' = x /\ row[x] = "none"
  BY <1>4 DEF BeginExit
<1>5. CASE Sweep
  BY <1>4, <1>5 DEF Sweep, BeginExitDbDown, SkipExit, EndSquareOff, callVars,
     Busy, Ready, Early, Waits, Stopping
<1>6. CASE Locked
  BY <1>1, <1>2, <1>3, <1>4, <1>5, <1>6 DEF Locked, Lifecycle, BeginEntry, BeginExitDbDown,
     BookStop, StopProblem, UnknownUnsaved, BeginSquareOff, EndOp, callVars,
     Busy, Ready, Early, Waits, Stopping
<1>7. CASE Unlocked
  BY <1>7 DEF Unlocked, AnalysisTimeout, Absorbed, EndOp, BrokerDoubt, Halt, Resume, BeginRetry,
     Compare, Apply, Crash, Restart, callVars, Busy, Ready, Early, Waits, Stopping
<1>8. CASE Outside
  BY <1>8 DEF Outside, callVars
<1> QED BY <1>6, <1>7, <1>8 DEF Next

\* An unfinished row is finished, and a claim released, by its own operation only.
LEMMA ListedStays ==
  ASSUME Typed, Next, ~degraded', NEW i \in Ids, OnBook(i), i # cur \/ pc \notin Busy
  PROVE  OnBook(i)' /\ (Taken(i) => Taken(i)')
<1>1. CASE UNCHANGED <<row, unlisted, claims, unclaimed>>
  BY <1>1 DEF OnBook, Unresolved, Taken
<1>2. CASE CreatePending \/ Record \/ RecordFinal \/ CloseExit
  <2>1. i # cur /\ cur \in Ids
    BY <1>2 DEF CreatePending, Record, RecordFinal, CloseExit, Busy, Ready, Early, Waits, Typed,
       Phase, EntrySteps, OrderSteps, ExitOnly
  <2>2. row'[i] = row[i] /\ (i \in unlisted => i \in unlisted')
    <3>1. \/ UNCHANGED row \/ \E v : row' = [row EXCEPT ![cur] = v]
      BY <1>2 DEF CreatePending, Record, RecordFinal, CloseExit, MarkUnknown, Absorbed, dbVars
    <3>2. i \in unlisted => i \in unlisted'
      BY <1>2, <2>1 DEF CreatePending, Record, RecordFinal, CloseExit, MarkUnknown, Absorbed
    <3> QED BY <2>1, <3>1, <3>2 DEF Typed, Values
  <2>3. Taken(i) => Taken(i)'
    BY <1>2, <2>1 DEF CreatePending, Record, RecordFinal, Released, CloseExit, Taken
  <2> QED BY <2>2, <2>3 DEF OnBook, Unresolved
<1>3. CASE AnalysisTimeout
  <2>1. UNCHANGED <<row, unlisted>> \/ pc = "record"
    BY <1>3 DEF AnalysisTimeout, Absorbed, MarkUnknown, dbVars
  <2>2. CASE pc = "record"
    <3>1. i # cur /\ cur \in Ids
      BY <2>2 DEF Busy, Waits, Typed, Phase, OrderSteps
    <3>2. row'[i] = row[i] /\ (i \in unlisted => i \in unlisted')
      BY <1>3, <2>2, <3>1 DEF AnalysisTimeout, Typed, Values
    <3> QED BY <1>3, <3>2 DEF AnalysisTimeout, OnBook, Unresolved, Taken
  <2> QED BY <1>1, <1>3, <2>1, <2>2 DEF AnalysisTimeout
<1>4. CASE \E x \in Exits : BeginExit(x)
  <2>1. PICK x \in Exits : BeginExit(x)
    BY <1>4
  <2>2. row[x] = "none" /\ row' = [row EXCEPT ![x] = "pending"] /\ UNCHANGED <<unlisted, claims, unclaimed>>
    BY <2>1 DEF BeginExit, history
  <2>3. i # x
    BY <2>2 DEF OnBook, Unresolved, Unfinished, Typed, Flags
  <2> QED BY <2>2, <2>3 DEF OnBook, Unresolved, Typed, Values, Taken
<1>5. CASE CloseRow
  BY <1>5 DEF CloseRow, OpenRows, OnBook, Unresolved, Unfinished, Typed, Values, Taken
<1>6. CASE Check \/ Restart
  BY <1>6 DEF Check, Claim, Restart, Seed, OnBook, Unresolved, Taken, dbVars, history
<1>7. OrderStep => Record \/ UNCHANGED <<row, unlisted, claims, unclaimed>>
  BY DEF OrderStep, Submit, Ack, SubmitUnknown, Poll, Cancel, Status, PlaceStop,
     StopAck, StopConfirmed, StopUnconfirmed, Absorbed, MarkUnknown, dbVars, history
<1>8. EntryStep => Check \/ CreatePending \/ RecordFinal \/ UNCHANGED <<row, unlisted, claims, unclaimed>>
  BY DEF EntryStep, LiveGate, RecordFill, CommitFill, dbVars, history
<1>9. ExitStep => CloseExit \/ CloseRow \/ UNCHANGED <<row, unlisted, claims, unclaimed>>
  BY DEF ExitStep, CancelStop, StopStatus, CheckQuantity, BookExit, CommitExit, Absorbed,
     MarkUnknown, dbVars, history
<1>10. Sweep => (\E x \in Exits : BeginExit(x)) \/ UNCHANGED <<row, unlisted, claims, unclaimed>>
  BY DEF Sweep, BeginExitDbDown, SkipExit, EndSquareOff, MarkUnknownUnsaved, dbVars, history
<1>11. Unlocked => AnalysisTimeout \/ Restart \/ UNCHANGED <<row, unlisted, claims, unclaimed>>
  BY DEF Unlocked, BrokerDoubt, Halt, Resume, BeginRetry, Compare, Apply, Crash, dbVars, history
<1>12. Locked => \/ OrderStep \/ EntryStep \/ ExitStep \/ Sweep \/ (\E x \in Exits : BeginExit(x))
                 \/ UNCHANGED <<row, unlisted, claims, unclaimed>>
  BY DEF Locked, Lifecycle, BeginEntry, BeginExitDbDown, BookStop, StopProblem, UnknownUnsaved,
     BeginSquareOff, MarkUnknownUnsaved, dbVars, history
<1> QED BY <1>1, <1>2, <1>3, <1>4, <1>5, <1>6, <1>7, <1>8, <1>9, <1>10, <1>11, <1>12
           DEF Next, Outside, dbVars, history

\* A claim is released only at the end of the operation that holds it.
LEMMA TakenStays ==
  ASSUME Next, NEW i \in Ids, Taken(i) PROVE Taken(i)' \/ (RecordFinal /\ EndOp)
<1>1. CASE UNCHANGED <<claims, unclaimed>>
  BY <1>1 DEF Taken
<1>2. CASE Check
  BY <1>2 DEF Check, Claim, Taken
<1>3. CASE Restart
  BY <1>3 DEF Restart, Seed, Taken
<1>4. CASE RecordFinal
  BY <1>4 DEF RecordFinal, ToBook, Taken
<1>5. OrderStep => UNCHANGED <<claims, unclaimed>>
  BY DEF OrderStep, Submit, Ack, SubmitUnknown, Record, Poll, Cancel, Status, PlaceStop,
     StopAck, StopConfirmed, StopUnconfirmed
<1>6. EntryStep => Check \/ RecordFinal \/ UNCHANGED <<claims, unclaimed>>
  BY DEF EntryStep, CreatePending, LiveGate, RecordFill, CommitFill
<1>7. ExitStep => UNCHANGED <<claims, unclaimed>>
  BY DEF ExitStep, CancelStop, StopStatus, CheckQuantity, CloseExit, BookExit, CommitExit, CloseRow
<1>8. Sweep => UNCHANGED <<claims, unclaimed>>
  BY DEF Sweep, BeginExit, BeginExitDbDown, SkipExit, EndSquareOff
<1>9. Locked => Check \/ RecordFinal \/ UNCHANGED <<claims, unclaimed>>
  BY <1>5, <1>6, <1>7, <1>8 DEF Locked, Lifecycle, BeginEntry, BeginExit, BeginExitDbDown,
     BookStop, StopProblem, UnknownUnsaved, BeginSquareOff
<1>10. Unlocked => Restart \/ UNCHANGED <<claims, unclaimed>>
  BY DEF Unlocked, AnalysisTimeout, BrokerDoubt, Halt, Resume, BeginRetry, Compare, Apply, Crash
<1> QED BY <1>1, <1>2, <1>3, <1>4, <1>9, <1>10 DEF Next, Outside

\* Only the final record leads to the booking of a fill.
LEMMA FillFrom ==
  ASSUME Next, pc' = "fill" PROVE cur' = cur /\ pc \in {"final", "fill"}
<1>1. ~OrderStep
  BY DEF OrderStep, Submit, Ack, SubmitUnknown, Record, Poll, Cancel, Status, PlaceStop,
     StopAck, StopConfirmed, StopUnconfirmed, Absorbed, Attached, Settled, EndOp
<1>2. EntryStep => RecordFinal /\ cur' = cur
  BY DEF EntryStep, Check, CreatePending, LiveGate, RecordFinal, RecordFill, CommitFill, EndOp,
     callVars
<1>3. ~ExitStep
  BY DEF ExitStep, CancelStop, StopStatus, CheckQuantity, CloseExit, BookExit, CommitExit,
     CloseRow, Absorbed, EndOp
<1>4. ~Sweep
  BY DEF Sweep, BeginExit, BeginExitDbDown, SkipExit, EndSquareOff
<1>5. Locked => (RecordFinal /\ cur' = cur) \/ UNCHANGED <<pc, cur>>
  BY <1>1, <1>2, <1>3, <1>4 DEF Locked, Lifecycle, BeginEntry, BeginExit, BeginExitDbDown,
     BookStop, StopProblem, UnknownUnsaved, BeginSquareOff, EndOp, callVars
<1>6. Unlocked => UNCHANGED <<pc, cur>>
  BY DEF Unlocked, AnalysisTimeout, Absorbed, EndOp, BrokerDoubt, Halt, Resume, BeginRetry,
     Compare, Apply, Crash, Restart, callVars
<1> QED BY <1>5, <1>6 DEF Next, Outside, RecordFinal, callVars

LEMMA TakingStep == ASSUME Typed, Answers, Taking, Next PROVE Taking'
<1> SUFFICES ASSUME ~IsExit', pc' \in {"final", "fill"} PROVE Taken(cur)'
  BY DEF Taking, Taken
<1>1. cur' = cur /\ pc \in Busy \cup {"fill"}
  <2>1. CASE pc' = "fill"
    BY <2>1, FillFrom DEF Busy
  <2>2. CASE pc' = "final"
    BY <2>2, BusyFrom DEF Busy, Ready, Early, Waits, Stopping, Check, EndOp, BeginExit
  <2> QED BY <2>1, <2>2
<1>2. cur \in Ids /\ ~IsExit /\ (pc \in Holding \/ pc \in {"final", "fill"})
  BY <1>1 DEF IsExit, Typed, Phase, Busy, Ready, Early, Waits, Stopping, Holding, EntrySteps,
     OrderSteps, ExitOnly
<1>3. Taken(cur)
  BY <1>2 DEF Answers, Held, Taking, Taken
<1>4. ~(RecordFinal /\ EndOp)
  BY DEF EndOp
<1>5. PICK i \in Ids : i = cur
  BY <1>2
<1>6. Taken(i)'
  BY <1>3, <1>4, <1>5, TakenStays DEF Taken
<1> QED BY <1>1, <1>5, <1>6 DEF Taken

LEMMA HiddenStays ==
  ASSUME Typed, Next, ~degraded', NEW s \in Symbols, Hidden(s), ~Twice(s)'
  PROVE  Hidden(s)'
<1>1. PICK i \in Ids : SymbolOf[i] = s /\ OnBook(i) /\ Taken(i) /\ ~(i = cur /\ pc \in Busy)
  BY DEF Hidden
<1>2. OnBook(i)' /\ Taken(i)'
  BY <1>1, ListedStays
<1>3. ASSUME i = cur', pc' \in Busy PROVE FALSE
  <2>1. CASE pc \in Busy /\ cur' = cur
    BY <1>1, <1>3, <2>1
  <2>2. CASE Check
    <3>1. /\ cur \in Entries /\ cur' = cur /\ ~EntryBlocked /\ Claim(cur) /\ UNCHANGED unlisted
      BY <1>3, <2>2 DEF Check, EndOp, callVars, Typed, Phase, EntrySteps, Busy,
         Ready, Early, Waits, Stopping, history
    <3>2. cur \in unlisted
      BY <1>1, <1>3, <3>1 DEF EntryBlocked, OnBook
    <3>3. cur \in unclaimed'
      BY <1>1, <1>3, <3>1 DEF Claim, Taken
    <3> QED BY <1>1, <1>3, <3>1, <3>2, <3>3 DEF Twice
  <2>3. CASE \E x \in Exits : BeginExit(x) /\ cur' = x /\ row[x] = "none"
    BY <1>1, <1>3, <2>3 DEF OnBook, Unresolved, Unfinished, Typed, Flags
  <2> QED BY <1>3, <2>1, <2>2, <2>3, BusyFrom
<1> QED BY <1>1, <1>2, <1>3 DEF Hidden

LEMMA SureBefore ==
  ASSUME Typed, Intent, Answers, Next, ~Apply, NEW s \in Symbols, Sure(s)'
  PROVE  Sure(s)
BY DoubtsStay, HiddenStays, StrayStays, TwiceStays DEF Sure

-----------------------------------------------------------------------------
(* The balance, step by step                                               *)

LEMMA AwayIds == ASSUME Typed, pc \in Away PROVE cur \in Ids /\ Sym \in Symbols
BY DEF Typed, Phase, Away, Waits, Stopping, EntrySteps, OrderSteps, ExitOnly, Sym

LEMMA Quantities ==
  ASSUME Typed
  PROVE  /\ \A i \in Ids : /\ mkt[i].filled \in Nat /\ mkt[i].qty \in Nat
                           /\ prot[i].filled \in Nat /\ prot[i].qty \in Nat
         /\ \A s \in Symbols : /\ held[s] \in Int /\ pos[s].qty \in Nat
                               /\ pos[s].stop \in Ids \cup {None} /\ StopSold(s) \in Nat
         /\ res.filled \in Nat
<1>1. /\ \A i \in Ids : /\ mkt[i].filled \in Nat /\ mkt[i].qty \in Nat
                        /\ prot[i].filled \in Nat /\ prot[i].qty \in Nat
  BY OrderTyped DEF Typed, BrokerTypeOK
<1>2. /\ \A s \in Symbols : /\ held[s] \in Int /\ pos[s].qty \in Nat
                            /\ pos[s].stop \in Ids \cup {None}
      /\ res.filled \in Nat
  BY DEF Typed, BrokerTypeOK, Values, Position, Result
<1> QED BY <1>1, <1>2 DEF StopSold

\* An instrument without an order out keeps its balance with its quantities.
LEMMA EvenStays ==
  ASSUME Typed, NEW s \in Symbols, ~Apart(s), ~Apart(s)', Balance(s),
         pos'[s] = pos[s], held'[s] = held[s],
         \A i \in Ids : prot'[i].filled = prot[i].filled
  PROVE  Balance(s)'
<1>1. StopSold(s)' = StopSold(s)
  BY Quantities DEF StopSold
<1> QED BY <1>1 DEF Balance, Even

LEMMA QuietBalance ==
  ASSUME Typed, UNCHANGED <<pc, cur, res, pos>>, Calm, NEW s \in Symbols, Balance(s)
  PROVE  Balance(s)'
<1>1. UNCHANGED <<IsExit, Sym>> /\ (Apart(s)' <=> Apart(s))
  BY DEF IsExit, Sym, Apart
<1>2. CASE ~Apart(s)
  BY <1>1, <1>2, EvenStays DEF Calm
<1>3. CASE Apart(s)
  <2>1. cur \in Ids
    BY <1>3, AwayIds DEF Apart
  <2>2. /\ mkt'[cur].filled = mkt[cur].filled /\ prot'[cur].filled = prot[cur].filled
        /\ UNCHANGED held /\ (Over(cur) => Over(cur)')
    BY <2>1 DEF Calm, Over
  <2>3. StopSold(s)' = StopSold(s)
    BY Quantities DEF StopSold, Calm
  <2>4. Bargain(s)
    BY <1>3 DEF Balance
  <2>5. Bargain(s)'
    <3>1. /\ ~IsExit' /\ pc' \in Waits => held'[s] = mkt'[cur'].filled /\ (pc' = "record" => res'.id)
          /\ ~IsExit' /\ pc' \in Stopping \cup {"final", "fill"} =>
               Over(cur)' /\ held'[s] + prot'[cur'].filled = res'.filled
      BY <1>1, <2>2, <2>4 DEF Bargain, IsExit
    <3>2. /\ IsExit' /\ pc' \in Waits \cup {"x_close"} => pos'[s].qty = held'[s] + mkt'[cur'].filled
          /\ IsExit' /\ pc' \in Stopping => pos'[s].qty = held'[s] + res'.filled + prot'[cur'].filled
          /\ pc' = "x_book" => pos'[s].qty = held'[s] + res'.filled + StopSold(s)'
      BY <1>1, <2>2, <2>3, <2>4 DEF Bargain, IsExit
    <3> QED BY <3>1, <3>2 DEF Bargain
  <2> QED BY <1>1, <1>3, <2>5 DEF Balance
<1> QED BY <1>2, <1>3

\* Away from the instrument, or with nothing out before and after.
LEMMA RestBalance ==
  ASSUME Typed, Calm, NEW s \in Symbols, Balance(s), pos'[s] = pos[s],
         pc \notin Away \/ Sym # s, pc' \notin Away \/ (cur' = cur /\ Sym # s)
  PROVE  Balance(s)'
<1>1. ~Apart(s) /\ ~Apart(s)'
  BY DEF Apart, Sym
<1> QED BY <1>1, EvenStays DEF Calm

\* An entry works on a position without quantity and without stop.
LEMMA EntryBare ==
  ASSUME Typed, Stops, ~IsExit, pc \in Buying, Sym \in Symbols
  PROVE  pos[Sym].qty = 0 /\ pos[Sym].stop = None /\ StopSold(Sym) = 0
BY DEF Stops, Buyer, Bare, Unstopped, StopSold

\* An exit that is about to sell has no stop.
LEMMA ExitBare ==
  ASSUME Typed, Stops, IsExit, pc \in Selling
  PROVE  pos[Sym].stop = None /\ StopSold(Sym) = 0
BY DEF Stops, Seller, StopSold

\* What a step not yet answered has for a stop.
LEMMA Unplaced ==
  ASSUME Typed, Answers, cur \in Ids, ~Twice(Sym),
         \/ pc \in (Ready \ {"intent"}) \cup Early \cup Asked \cup {"x_close"}
         \/ pc = "final" /\ res.status = "REJECTED"
  PROVE  prot[cur].filled = 0
<1>1. ~Again(cur)
  BY DEF Again, Twice, Sym
<1>2. Fresh(cur)
  BY DEF Answers, StopAnswer, Ready, Early, Asked
<1> QED BY <1>1, <1>2 DEF Answers, Once, Fresh

\* An operation's row that is left unfinished hides its instrument.
LEMMA LeftHidden ==
  ASSUME NEW i \in Ids, OnBook(i)', Taken(i)', ~(i = cur' /\ pc' \in Busy)
  PROVE  Hidden(SymbolOf[i])'
BY DEF Hidden

LEMMA LiveGateBalance ==
  ASSUME Typed, Intent, Stops, Answers, Next, LiveGate, NEW s \in Symbols, Sure(s), Balance(s)
  PROVE  Balance(s)'
<1>1. /\ pc = "gate" /\ cur \in Ids /\ ~IsExit /\ UNCHANGED <<cur, pos, held, mkt, prot, IsExit, Sym>>
      /\ Sym \in Symbols
  BY DEF LiveGate, Typed, Phase, EntrySteps, IsExit, Sym, callVars, brokerVars
<1>2. Calm
  BY <1>1 DEF Calm
<1>3. pc \notin Away
  BY <1>1 DEF Away, Waits, Stopping
<1>4. CASE pc' = "submit"
  <2>1. pc' \notin Away
    BY <1>4 DEF Away, Waits, Stopping
  <2> QED BY <1>1, <1>2, <1>3, <2>1, RestBalance
<1>5. CASE pc' = "final" /\ res' = [res EXCEPT !.status = "REJECTED"]
  <2>1. CASE Sym # s
    BY <1>1, <1>2, <1>3, <2>1, RestBalance
  <2>2. CASE Sym = s
    <3>1. pos[s].qty = 0 /\ StopSold(s) = 0 /\ pc \in Buying
      BY <1>1, <2>2, EntryBare DEF Buying
    <3>2. held[s] = 0 /\ ~Apart(s)
      BY <1>3, <3>1, Quantities DEF Balance, Even, Apart
    <3>3. prot[cur].filled = 0 /\ Over(cur) /\ res.filled = 0
      <4>1. ~Twice(Sym) /\ ~Again(cur)
        BY <1>1, <2>2 DEF Sure, Twice, Again, Sym
      <4> QED BY <1>1, <4>1, Unplaced DEF Ready, Intent, Before, NoResult
    <3>4. res'.filled = 0
      BY <1>5, <3>3 DEF Typed, Values, Result
    <3>5. Over(cur)' /\ held'[s] + prot'[cur].filled = res'.filled
      BY <1>1, <3>2, <3>3, <3>4 DEF Over
    <3> QED BY <1>1, <1>5, <2>2, <3>5 DEF Balance, Bargain, Apart, Away, Waits, Stopping
  <2> QED BY <2>1, <2>2
<1> QED BY <1>4, <1>5 DEF LiveGate

LEMMA SubmitBalance ==
  ASSUME Typed, Intent, Stops, Next, Submit, NEW s \in Symbols, Balance(s)
  PROVE  Balance(s)'
<1>1. /\ pc = "submit" /\ pc' = "ack" /\ cur \in Ids /\ Sym \in Symbols
      /\ UNCHANGED <<cur, pos, res, held, prot, IsExit, Sym>>
      /\ mkt'[cur].filled = 0
  BY DEF Submit, Sent, Typed, Phase, OrderSteps, IsExit, Sym, callVars, BrokerTypeOK
<1>2. ~Apart(s) /\ Even(s)
  BY <1>1 DEF Apart, Away, Waits, Stopping, Balance
<1>3. CASE Sym # s
  <2>1. ~Apart(s)'
    BY <1>1, <1>3 DEF Apart
  <2> QED BY <1>1, <1>2, <2>1, EvenStays
<1>4. CASE Sym = s
  <2>1. CASE IsExit
    <3>1. pos[s].qty = held[s]
      BY <1>1, <1>2, <1>4, <2>1, ExitBare, Quantities DEF Even, Selling, OrderSteps
    <3>2. pos'[s].qty = held'[s] + mkt'[cur].filled
      BY <1>1, <3>1, Quantities
    <3> QED BY <1>1, <1>4, <2>1, <3>2 DEF Balance, Bargain, Apart, Away, Waits, Stopping
  <2>2. CASE ~IsExit
    <3>1. held[s] = 0
      BY <1>1, <1>2, <1>4, <2>2, EntryBare, Quantities DEF Even, Buying, OrderSteps
    <3> QED BY <1>1, <1>4, <2>2, <3>1 DEF Balance, Bargain, Apart, Away, Waits, Stopping
  <2> QED BY <2>1, <2>2
<1> QED BY <1>3, <1>4

\* While an order is out, its answers change what is known, not what is held.
LEMMA AckBalance ==
  ASSUME Typed, Ack, NEW s \in Symbols, Balance(s) PROVE Balance(s)'
<1>1. /\ pc = "ack" /\ pc' = "record" /\ cur \in Ids
      /\ UNCHANGED <<cur, pos, held, mkt, prot, IsExit, Sym>> /\ res'.id
  BY DEF Ack, Typed, Values, Result, Phase, OrderSteps, IsExit, Sym, callVars, brokerVars
<1>2. CASE Sym # s
  BY <1>1, <1>2, RestBalance DEF Calm
<1>3. CASE Sym = s
  <2>1. Bargain(s)
    BY <1>1, <1>3 DEF Balance, Apart, Away, Waits
  <2> QED BY <1>1, <1>3, <2>1 DEF Balance, Bargain, Apart, Away, Waits, Stopping, IsExit
<1> QED BY <1>2, <1>3

\* An entry whose row is left unfinished when it ends.
LEMMA EndedBalance ==
  ASSUME Typed, Stops, Answers, Known, NEW s \in Symbols, Sure(s)', Sure(s), Balance(s), EndOp,
         pc \in {"record", "final", "fill"}, ~IsExit,
         UNCHANGED <<pos, brokerVars>>, NEW i \in Entries, i = cur,
         (OnBook(i)' /\ Taken(i)') \/ (pc = "final" /\ res.status = "REJECTED")
  PROVE  Balance(s)'
<1>1. cur \in Ids /\ cur \in Entries /\ Sym \in Symbols /\ pc' \in {"idle", "sq"} /\ pc \in Buying
  BY DEF EndOp, Typed, Phase, EntrySteps, OrderSteps, IsExit, Sym, Buying
<1>2. pc' \notin Away /\ pc' \notin Busy
  BY <1>1 DEF Away, Busy, Ready, Early, Waits, Stopping
<1>3. UNCHANGED <<pos, held, mkt, prot>> /\ Calm
  BY DEF brokerVars, Calm
<1>4. CASE Sym # s
  BY <1>2, <1>3, <1>4, RestBalance
<1>5. CASE Sym = s
  <2>1. CASE OnBook(i)' /\ Taken(i)'
    BY <1>1, <1>2, <1>5, <2>1, LeftHidden DEF Sure, Sym
  <2>2. CASE pc = "final" /\ res.status = "REJECTED"
    <3>1. Bargain(s) /\ pos[s].qty = 0 /\ StopSold(s) = 0
      BY <1>1, <1>5, <2>2, EntryBare DEF Balance, Apart, Away
    <3>2. prot[cur].filled = 0 /\ res.filled = 0
      BY <1>1, <1>5, <2>2, Unplaced DEF Known, Outcome, Sure
    <3>3. held[s] = 0
      BY <1>5, <2>2, <3>1, <3>2, Quantities DEF Bargain
    <3>4. StopSold(s)' = 0
      BY <1>3, <3>1 DEF StopSold
    <3> QED BY <1>2, <1>3, <3>1, <3>3, <3>4 DEF Balance, Even, Apart
  <2> QED BY <2>1, <2>2
<1> QED BY <1>4, <1>5

LEMMA RecordBalance ==
  ASSUME Typed, Stops, Answers, Known, Record, NEW s \in Symbols, Sure(s)', Sure(s), Balance(s)
  PROVE  Balance(s)'
<1>1. /\ pc = "record" /\ cur \in Ids /\ Sym \in Symbols
      /\ UNCHANGED <<pos, held, mkt, prot, claims, unclaimed>> /\ UNCHANGED brokerVars
  BY DEF Record, Typed, Phase, OrderSteps, Sym, brokerVars
<1>2. CASE /\ pc' = IF res.id THEN "poll" ELSE IF IsExit THEN "x_close" ELSE "final"
           /\ UNCHANGED <<callVars, res>>
  <2>0. UNCHANGED <<cur, IsExit, Sym>> /\ Calm
    BY <1>1, <1>2 DEF callVars, IsExit, Sym, Calm
  <2>1. CASE Sym # s
    BY <1>1, <2>0, <2>1, RestBalance
  <2>2. CASE Sym = s
    <3>1. Bargain(s)
      BY <1>1, <2>2 DEF Balance, Apart, Away, Waits
    <3>2. ~IsExit => res.id
      BY <1>1, <3>1 DEF Bargain, Waits
    <3> QED BY <1>1, <1>2, <2>0, <2>2, <3>1, <3>2
            DEF Balance, Bargain, Apart, Away, Waits, Stopping, IsExit
  <2> QED BY <2>1, <2>2
<1>3. CASE ~IsExit /\ EndOp /\ UNCHANGED <<dbVars, unlisted>>
  <2>1. Taken(cur)
    BY <1>1, <1>3 DEF Answers, Held, Holding, OrderSteps, Taken
  <2>2. PICK i \in Entries : i = cur
    BY <1>1, <1>3 DEF IsExit
  <2>3. OnBook(i)'
    BY <1>1, <1>3, <2>2 DEF Known, Filed, OnBook, Unresolved, dbVars
  <2>4. Taken(i)'
    BY <1>1, <2>1, <2>2 DEF Taken
  <2> QED BY <1>1, <1>3, <2>2, <2>3, <2>4, EndedBalance
<1>4. CASE Absorbed
  BY <1>4 DEF Absorbed, MarkUnknown, Sure
<1> QED BY <1>2, <1>3, <1>4 DEF Record

\* A final answer: what has been executed is what is known.
LEMMA SettledBalance ==
  ASSUME Typed, Answers, pc \in {"poll", "status"}, UNCHANGED <<cur, pos, brokerVars>>,
         res' \in Result, pc' = Settled(res'), res'.filled = mkt[cur].filled, Over(cur),
         NEW s \in Symbols, Sure(s), Balance(s)
  PROVE  Balance(s)'
<1>1. /\ cur \in Ids /\ UNCHANGED <<pos, held, mkt, prot, IsExit, Sym>> /\ Calm
      /\ pc \in Away /\ pc \in Waits /\ pc # "record"
  BY DEF Typed, Phase, OrderSteps, IsExit, Sym, brokerVars, Calm, Away, Waits
<1>2. CASE Sym # s
  BY <1>1, <1>2, RestBalance
<1>3. CASE Sym = s
  <2>1. Bargain(s)
    BY <1>1, <1>3 DEF Balance, Apart
  <2>2. prot[cur].filled = 0
    BY <1>1, <1>3, Unplaced DEF Asked, Sure
  <2>3. CASE IsExit
    BY <1>1, <1>3, <2>1, <2>3 DEF Settled, Balance, Bargain, Apart, Away, Waits, Stopping, IsExit
  <2>4. CASE ~IsExit
    <3>1. held[s] + prot[cur].filled = res'.filled
      BY <1>1, <2>1, <2>2, <2>4, Quantities DEF Bargain
    <3>2. pc' \in {"stop", "final"}
      BY <2>4, <1>1 DEF Settled, IsExit
    <3> QED BY <1>1, <1>3, <2>4, <3>1, <3>2
            DEF Balance, Bargain, Apart, Away, Waits, Stopping, IsExit, Over
  <2> QED BY <2>3, <2>4
<1> QED BY <1>2, <1>3

\* Another question to the broker.
LEMMA AskedBalance ==
  ASSUME Typed, pc \in {"poll", "cancel"}, pc' \in {"cancel", "status"}, UNCHANGED <<cur, pos>>,
         Calm, NEW s \in Symbols, Balance(s)
  PROVE  Balance(s)'
<1>1. /\ cur \in Ids /\ UNCHANGED <<IsExit, Sym, held>> /\ pc \in Waits /\ pc \in Away
      /\ mkt'[cur].filled = mkt[cur].filled
  BY DEF Typed, Phase, OrderSteps, IsExit, Sym, Calm, Away, Waits
<1>2. CASE Sym # s
  BY <1>1, <1>2, RestBalance
<1>3. CASE Sym = s
  <2>1. Bargain(s)
    BY <1>1, <1>3 DEF Balance, Apart
  <2> QED BY <1>1, <1>3, <2>1 DEF Balance, Bargain, Apart, Away, Waits, Stopping, IsExit
<1> QED BY <1>2, <1>3

LEMMA PollBalance ==
  ASSUME Typed, Answers, Poll, NEW s \in Symbols, Sure(s), Balance(s) PROVE Balance(s)'
<1>1. /\ pc = "poll" /\ cur \in Ids /\ UNCHANGED <<cur, pos, mkt, prot, held>> /\ UNCHANGED brokerVars
      /\ res \in Result /\ mkt[cur].filled \in Nat /\ res.filled \in Nat
      /\ res.filled <= mkt[cur].filled
  BY Quantities DEF Poll, Typed, Values, Phase, OrderSteps, callVars, brokerVars, Answers,
     FillAnswer, Asked
<1>2. CASE pc' = "cancel"
  BY <1>1, <1>2, AskedBalance DEF Calm
<1>3. CASE /\ mkt[cur].st \in Terminal /\ pc' = Settled(res')
           /\ \/ res' = [res EXCEPT !.status = "FILLED", !.filled = mkt[cur].filled]
              \/ mkt[cur].filled = 0 /\ res' = [res EXCEPT !.status = "REJECTED"]
  <2>1. res' \in Result /\ res'.filled = mkt[cur].filled
    <3>1. CASE res' = [res EXCEPT !.status = "FILLED", !.filled = mkt[cur].filled]
      BY <1>1, <3>1 DEF Result
    <3>2. CASE mkt[cur].filled = 0 /\ res' = [res EXCEPT !.status = "REJECTED"]
      <4>1. res' \in Result /\ res'.filled = res.filled
        BY <1>1, <3>2 DEF Result
      <4> QED BY <1>1, <3>2, <4>1
    <3> QED BY <1>3, <3>1, <3>2
  <2>2. Over(cur)
    BY <1>3 DEF Over, Working, Terminal
  <2> QED BY <1>1, <1>3, <2>1, <2>2, SettledBalance
<1> QED BY <1>2, <1>3 DEF Poll, Terminal

LEMMA CancelBalance ==
  ASSUME Typed, Next, Cancel, NEW s \in Symbols, Sure(s)', Balance(s) PROVE Balance(s)'
<1>1. CASE Absorbed
  BY <1>1 DEF Absorbed, MarkUnknown, Sure
<1>2. CASE pc' = "status" /\ UNCHANGED callVars
  <2>1. ~Submit /\ ~PlaceStop /\ ~Outside
    BY <1>2 DEF Cancel, Submit, PlaceStop, Outside
  <2>2. Calm
    BY <2>1, OthersCalm
  <2> QED BY <1>2, <2>2, AskedBalance DEF Cancel, callVars
<1> QED BY <1>1, <1>2 DEF Cancel

LEMMA StatusBalance ==
  ASSUME Typed, Answers, Status, NEW s \in Symbols, Sure(s)', Sure(s), Balance(s)
  PROVE  Balance(s)'
<1>1. CASE \E p : MarkUnknown(cur, p)
  BY <1>1 DEF MarkUnknown, Sure
<1>2. CASE /\ mkt[cur].st \in Terminal /\ UNCHANGED callVars /\ pc' = Settled(res')
           /\ res' = [res EXCEPT !.filled = mkt[cur].filled, !.status =
                        IF mkt[cur].filled = 0 THEN "REJECTED"
                        ELSE IF IsExit THEN "PARTIAL" ELSE "FILLED"]
  <2>1. pc = "status" /\ cur \in Ids /\ UNCHANGED <<cur, pos, brokerVars>> /\ Over(cur)
    BY <1>2 DEF Status, Typed, Phase, OrderSteps, callVars, Over, Working, Terminal
  <2>2. res' \in Result /\ res'.filled = mkt[cur].filled
    BY <1>2, <2>1, Quantities DEF Typed, Values, Result
  <2> QED BY <1>2, <2>1, <2>2, SettledBalance
<1> QED BY <1>1, <1>2 DEF Status

\* The stop is placed for what the balance says is left; it has sold nothing.
LEMMA PlaceStopBalance ==
  ASSUME Typed, Answers, Whose, PlaceStop, NEW s \in Symbols, Sure(s), Balance(s)
  PROVE  Balance(s)'
<1>1. /\ pc = "stop" /\ pc' = "stopack" /\ cur \in Ids /\ UNCHANGED <<cur, pos, res, held, mkt, IsExit, Sym>>
      /\ prot'[cur].filled = 0 /\ \A i \in Ids : i # cur => prot'[i] = prot[i]
  BY DEF PlaceStop, Sent, Typed, Phase, OrderSteps, BrokerTypeOK, callVars, IsExit, Sym
<1>4. CASE Sym # s
  <2>1. ~Apart(s) /\ ~Apart(s)'
    BY <1>1, <1>4 DEF Apart
  <2>2. pos[s].stop # None => pos[s].stop # cur /\ pos[s].stop \in Ids
    BY <1>4, Quantities DEF Whose, OwnStops, Sym
  <2>3. StopSold(s)' = StopSold(s)
    BY <1>1, <2>2 DEF StopSold
  <2> QED BY <1>1, <2>1, <2>3 DEF Balance, Even
<1>5. CASE Sym = s
  <2>1. Bargain(s)
    BY <1>1, <1>5 DEF Balance, Apart, Away, Stopping
  <2>2. prot[cur].filled = 0
    BY <1>1, <1>5, Unplaced DEF Asked, Sure
  <2> QED BY <1>1, <1>5, <2>1, <2>2
          DEF Balance, Bargain, Apart, Away, Waits, Stopping, IsExit, Over
<1> QED BY <1>4, <1>5

\* The broker's answer about the stop: it is placed, and then confirmed.
LEMMA StopAckBalance ==
  ASSUME Typed, StopAck, NEW s \in Symbols, Balance(s) PROVE Balance(s)'
<1>1. /\ pc = "stopack" /\ pc' = "stopcheck" /\ cur \in Ids
      /\ UNCHANGED <<cur, pos, held, mkt, prot, IsExit, Sym>> /\ res'.filled = res.filled
  BY DEF StopAck, Typed, Values, Result, Phase, OrderSteps, IsExit, Sym, callVars, brokerVars
<1>2. CASE Sym # s
  BY <1>1, <1>2, RestBalance DEF Calm
<1>3. CASE Sym = s
  <2>1. Bargain(s)
    BY <1>1, <1>3 DEF Balance, Apart, Away, Stopping
  <2> QED BY <1>1, <1>3, <2>1 DEF Balance, Bargain, Apart, Away, Waits, Stopping, IsExit, Over
<1> QED BY <1>2, <1>3

LEMMA StopConfirmedBalance ==
  ASSUME Typed, StopConfirmed, NEW s \in Symbols, Balance(s) PROVE Balance(s)'
<1>1. /\ pc = "stopcheck" /\ cur \in Ids /\ Sym \in Symbols /\ UNCHANGED <<cur, res, held, mkt, prot, IsExit, Sym>>
      /\ Calm /\ pos \in [Symbols -> Position]
  BY DEF StopConfirmed, Typed, Values, Phase, OrderSteps, callVars, brokerVars, IsExit, Sym, Calm
<1>2. pos' = IF IsExit THEN [pos EXCEPT ![Sym].stop = cur] ELSE pos
  BY DEF StopConfirmed, Attached
<1>3. pc' = IF IsExit THEN "x_book" ELSE "final"
  BY DEF StopConfirmed, Attached
<1>4. CASE Sym # s
  <2>1. pos'[s] = pos[s]
    BY <1>1, <1>2, <1>4
  <2> QED BY <1>1, <1>4, <2>1, RestBalance
<1>5. CASE Sym = s
  <2>1. Bargain(s)
    BY <1>1, <1>5 DEF Balance, Apart, Away, Stopping
  <2>2. CASE IsExit
    <3>1. pos'[s] = [pos[s] EXCEPT !.stop = cur]
      BY <1>1, <1>2, <1>5, <2>2
    <3>2. pos'[s].qty = pos[s].qty /\ pos'[s].stop = cur
      BY <1>1, <3>1 DEF Position
    <3>3. StopSold(s)' = prot[cur].filled
      BY <1>1, <3>2 DEF StopSold
    <3>4. pos'[s].qty = held'[s] + res'.filled + StopSold(s)'
      BY <1>1, <2>1, <2>2, <3>2, <3>3 DEF Bargain, Stopping
    <3> QED BY <1>1, <1>3, <1>5, <2>2, <3>4
            DEF Balance, Bargain, Apart, Away, Waits, Stopping, IsExit
  <2>3. CASE ~IsExit
    BY <1>1, <1>2, <1>3, <1>5, <2>1, <2>3
       DEF Balance, Bargain, Apart, Away, Waits, Stopping, IsExit, Over
  <2> QED BY <2>2, <2>3
<1> QED BY <1>4, <1>5

\* The final record of an entry: either there is something to book, or nothing has
\* been bought, or the row says that the outcome is unknown.
LEMMA RecordFinalBalance ==
  ASSUME Typed, Stops, Answers, Known, Taking, RecordFinal,
         NEW s \in Symbols, Sure(s)', Sure(s), Balance(s)
  PROVE  Balance(s)'
<1>1. /\ pc = "final" /\ cur \in Entries /\ ~IsExit /\ UNCHANGED <<pos, held, mkt, prot>>
      /\ UNCHANGED brokerVars /\ Taken(cur) /\ Sym \in Symbols /\ row \in [Ids -> RowStatus]
  BY DEF Taking, RecordFinal, Typed, Values, Phase, EntrySteps, IsExit, Sym, brokerVars
<1>2. PICK i \in Entries : i = cur
  BY <1>1
<1>3. CASE pc' = "fill" /\ UNCHANGED <<callVars, res>>
  <2>1. UNCHANGED <<cur, IsExit, Sym>> /\ Calm
    BY <1>1, <1>3 DEF callVars, IsExit, Sym, Calm
  <2>2. CASE Sym # s
    BY <1>1, <2>1, <2>2, RestBalance
  <2>3. CASE Sym = s
    <3>1. Bargain(s)
      BY <1>1, <2>3 DEF Balance, Apart, Away
    <3> QED BY <1>1, <1>3, <2>1, <2>3, <3>1
            DEF Balance, Bargain, Apart, Away, Waits, Stopping, IsExit, Over
  <2> QED BY <2>2, <2>3
<1>4. CASE EndOp /\ res.status = "REJECTED"
  BY <1>1, <1>2, <1>4, EndedBalance
<1>5. CASE EndOp /\ UNCHANGED <<row, unlisted, claims, unclaimed>> /\ res.status # "REJECTED"
  <2>1. OnBook(i)'
    BY <1>1, <1>2, <1>5 DEF Known, Filed, OnBook, Unresolved
  <2>2. Taken(i)'
    BY <1>1, <1>2, <1>5 DEF Taken
  <2> QED BY <1>1, <1>2, <1>5, <2>1, <2>2, EndedBalance
<1>6. CASE /\ EndOp /\ ~ToBook /\ row' = [row EXCEPT ![cur] = RowOf(res)]
           /\ res.status # "REJECTED"
           /\ res.status # "FAILED" => UNCHANGED claims
           /\ unclaimed' = IF res.status = "FAILED" THEN unclaimed \cup {cur} ELSE unclaimed
  <2>1. res.unknown
    BY <1>1, <1>6 DEF Known, Outcome
  <2>2. OnBook(i)'
    BY <1>1, <1>2, <1>6, <2>1 DEF RowOf, OnBook, Unresolved, Unfinished
  <2>3. Taken(i)'
    BY <1>1, <1>2, <1>6 DEF Taken
  <2> QED BY <1>1, <1>2, <1>6, <2>2, <2>3, EndedBalance
<1> QED BY <1>3, <1>4, <1>5, <1>6 DEF RecordFinal

\* The fill is booked with its stop.
LEMMA RecordFillBalance ==
  ASSUME Typed, Stops, Known, Taking, RecordFill, NEW s \in Symbols, Sure(s)', Sure(s), Balance(s)
  PROVE  Balance(s)'
<1>1. /\ pc = "fill" /\ pc' = "commit" /\ cur \in Entries /\ ~IsExit /\ Sym \in Symbols
      /\ UNCHANGED <<held, mkt, prot>> /\ Calm /\ Taken(cur)
      /\ pos \in [Symbols -> Position]
      /\ pos' = [pos EXCEPT ![Sym] = [qty |-> res.filled, stop |-> IF res.stop THEN cur ELSE None]]
  BY DEF Taking, RecordFill, Typed, Values, Phase, EntrySteps, IsExit, Sym, brokerVars, Calm
<1>2. pc' \notin Away /\ pc \notin Busy
  BY <1>1 DEF Away, Busy, Ready, Early, Waits, Stopping
<1>3. CASE Sym # s
  BY <1>1, <1>2, <1>3, RestBalance
<1>4. CASE Sym = s
  <2>1. Bargain(s)
    BY <1>1, <1>4 DEF Balance, Apart, Away
  <2>2. res.stop
    <3>1. ~Unresolved(cur)
      BY <1>1, <1>2, <1>4 DEF Sure, Hidden, OnBook, Sym
    <3> QED BY <1>1, <3>1 DEF Known, Filed
  <2>3. pos'[s].qty = res.filled /\ pos'[s].stop = cur
    BY <1>1, <1>4, <2>2
  <2>4. StopSold(s)' = prot[cur].filled
    BY <1>1, <2>3 DEF StopSold
  <2> QED BY <1>1, <1>2, <2>1, <2>3, <2>4 DEF Balance, Bargain, Even, Apart
<1> QED BY <1>3, <1>4

\* The analysis timeout leaves a row, or the instrument's mark of a lost fill.
LEMMA AnalysisTimeoutBalance ==
  ASSUME Typed, Stops, Answers, Known, Taking, AnalysisTimeout,
         NEW s \in Symbols, Sure(s)', Sure(s), Balance(s)
  PROVE  Balance(s)'
<1>1. /\ UNCHANGED <<pos, held, mkt, prot, claims, unclaimed>> /\ UNCHANGED brokerVars /\ Calm
      /\ row \in [Ids -> RowStatus]
  BY DEF AnalysisTimeout, brokerVars, Calm, Typed, Values
<1>2. EndOp => pc' \notin Away
  BY DEF EndOp, Away, Waits, Stopping
<1>3. CASE pc \in {"check", "intent", "gate", "commit"} /\ EndOp
  <2>1. pc \notin Away
    BY <1>3 DEF Away, Waits, Stopping
  <2> QED BY <1>1, <1>2, <1>3, <2>1, RestBalance
<1>4. CASE pc = "final" /\ EndOp /\ UNCHANGED <<dbVars, unlisted>>
  <2>1. cur \in Entries /\ ~IsExit /\ Taken(cur)
    BY <1>4 DEF Taking, Typed, Phase, EntrySteps, IsExit
  <2>2. PICK i \in Entries : i = cur
    BY <2>1
  <2>3. res.status # "REJECTED" => OnBook(i)'
    BY <1>1, <1>4, <2>1, <2>2 DEF Known, Filed, OnBook, Unresolved, dbVars
  <2>4. Taken(i)'
    BY <1>1, <2>1, <2>2 DEF Taken
  <2> QED BY <1>1, <1>4, <2>1, <2>2, <2>3, <2>4, EndedBalance
<1>5. CASE /\ pc = "record" /\ EndOp
           /\ \/ UNCHANGED <<row, unlisted>>
              \/ row' = [row EXCEPT ![cur] = IF res.unknown THEN "unknown" ELSE "submitted"]
  <2>0. cur \in Ids /\ Sym \in Symbols
    BY <1>5 DEF Typed, Phase, OrderSteps, Sym
  <2>1. CASE Sym # s
    BY <1>1, <1>2, <1>5, <2>1, RestBalance
  <2>2. CASE Sym = s
    <3>1. PICK i \in Ids : i = cur
      BY <2>0
    <3>2. OnBook(i)'
      BY <1>1, <1>5, <3>1 DEF Known, Filed, OnBook, Unresolved, Unfinished, Waits, IsExit
    <3>3. Taken(i)'
      BY <1>1, <1>5, <3>1 DEF Answers, Held, Holding, OrderSteps, IsExit, Taken
    <3>4. pc' \notin Busy
      BY <1>5 DEF EndOp, Busy, Ready, Early, Waits, Stopping
    <3> QED BY <2>2, <3>1, <3>2, <3>3, <3>4, LeftHidden DEF Sure, Sym
  <2> QED BY <2>1, <2>2
<1>6. CASE Absorbed
  BY <1>6 DEF Absorbed, MarkUnknown, Sure
<1>7. CASE pc = "fill" /\ EndOp /\ cut' = cut \cup {Sym}
  <2>1. Sym # s
    BY <1>7 DEF Sure
  <2> QED BY <1>1, <1>2, <1>7, <2>1, RestBalance
<1> QED BY <1>3, <1>4, <1>5, <1>6, <1>7 DEF AnalysisTimeout

\* The position's stop is confirmed cancelled, and has sold nothing.
LEMMA StopStatusBalance ==
  ASSUME Typed, StopStatus, NEW s \in Symbols, Sure(s)', Balance(s) PROVE Balance(s)'
<1>1. /\ pc = "x_stopstatus" /\ Sym \in Symbols /\ UNCHANGED <<held, mkt, prot>>
      /\ pos \in [Symbols -> Position] /\ pos[Sym].stop # None
  BY DEF StopStatus, Typed, Values, Phase, ExitOnly, Sym, brokerVars
<1>2. CASE \E p : MarkUnknown(cur, p)
  BY <1>2 DEF MarkUnknown, Sure
<1>3. CASE /\ prot[pos[Sym].stop].filled = 0 /\ pc' = "x_qty"
           /\ pos' = [pos EXCEPT ![Sym].stop = None]
  <2>1. ~Apart(s) /\ ~Apart(s)' /\ Even(s)
    BY <1>1, <1>3 DEF Apart, Away, Waits, Stopping, Balance
  <2>2. CASE Sym # s
    <3>1. pos'[s] = pos[s]
      BY <1>1, <1>3, <2>2
    <3> QED BY <1>1, <2>1, <3>1, EvenStays
  <2>3. CASE Sym = s
    <3>1. pos'[s] = [pos[s] EXCEPT !.stop = None]
      BY <1>1, <1>3, <2>3
    <3>2. pos'[s].qty = pos[s].qty /\ pos'[s].stop = None
      BY <1>1, <3>1 DEF Position
    <3>3. StopSold(s) = 0 /\ StopSold(s)' = 0
      BY <1>1, <1>3, <2>3, <3>2 DEF StopSold
    <3> QED BY <1>1, <2>1, <3>2, <3>3 DEF Balance, Even
  <2> QED BY <2>2, <2>3
<1> QED BY <1>2, <1>3 DEF StopStatus

\* CloseExit: what is known of the sale is what the broker has executed.
LEMMA CloseExitBalance ==
  ASSUME Typed, Stops, Answers, CloseExit, NEW s \in Symbols, Sure(s)', Sure(s), Balance(s)
  PROVE  Balance(s)'
<1>1. /\ pc = "x_close" /\ cur \in Ids /\ IsExit /\ Sym \in Symbols
      /\ UNCHANGED <<cur, res, pos, held, mkt, prot, IsExit, Sym>> /\ Calm
  BY DEF CloseExit, Typed, Phase, ExitOnly, IsExit, Sym, callVars, brokerVars, Calm
<1>2. CASE MarkUnknown(cur, pos)
  BY <1>2 DEF MarkUnknown, Sure
<1>3. CASE ~(res.unknown \/ res.status = "SUBMITTED") /\ pc' \in {"stop", "x_book"}
  <2>1. CASE Sym # s
    BY <1>1, <2>1, RestBalance
  <2>2. CASE Sym = s
    <3>1. pos[s].qty = held[s] + mkt[cur].filled
      BY <1>1, <2>2 DEF Balance, Bargain, Apart, Away
    <3>2. prot[cur].filled = 0 /\ StopSold(s) = 0
      BY <1>1, <2>2, Unplaced, ExitBare DEF Selling, Sure
    <3>3. res.filled = mkt[cur].filled /\ Over(cur)
      BY <1>1, <1>3 DEF Answers, FillAnswer
    <3>4. StopSold(s)' = 0
      BY <1>1, <3>2 DEF StopSold
    <3>5. /\ pos'[s].qty = held'[s] + res'.filled + prot'[cur'].filled
          /\ pos'[s].qty = held'[s] + res'.filled + StopSold(s)'
      BY <1>1, <3>1, <3>2, <3>3, <3>4, Quantities
    <3> QED BY <1>1, <1>3, <2>2, <3>5 DEF Balance, Bargain, Apart, Away, Waits, Stopping, IsExit
  <2> QED BY <2>1, <2>2
<1> QED BY <1>2, <1>3 DEF CloseExit

\* The exit's quantity is booked; an exit that books nothing has sold nothing.
LEMMA BookExitBalance ==
  ASSUME Typed, Stops, Known, Room, BookExit, NEW s \in Symbols, Sure(s), Balance(s)
  PROVE  Balance(s)'
<1>1. /\ pc = "x_book" /\ cur \in Exits /\ IsExit /\ Sym \in Symbols /\ SymbolOf[cur] = Sym
      /\ UNCHANGED <<held, mkt, prot>> /\ Calm /\ pos \in [Symbols -> Position]
      /\ pc \notin Busy
  BY DEF BookExit, Typed, Values, Phase, ExitOnly, IsExit, Sym, brokerVars, Calm,
     Busy, Ready, Early, Waits, Stopping
<1>2. pc' \notin Away
  BY DEF BookExit, EndOp, Away, Waits, Stopping
<1>3. CASE Sym # s
  <2>1. pos'[s] = pos[s]
    BY <1>1, <1>3 DEF BookExit
  <2> QED BY <1>1, <1>2, <1>3, <2>1, RestBalance
<1>4. CASE Sym = s
  <2>1. /\ pos[s].qty = held[s] + res.filled + StopSold(s) /\ held[s] >= 0
        /\ pos[s].stop = None \/ res.filled < pos[s].qty
    BY <1>1, <1>4 DEF Balance, Bargain, Apart, Away, Room, Covers, Sure, Stops, Seller
  <2>2. res.filled <= pos[s].qty
    BY <2>1, Quantities
  <2>3. ~ToBook => res.filled = 0
    <3>1. res.status # "SUBMITTED"
      <4>1. ~Unresolved(cur)
        BY <1>1, <1>4 DEF Sure, Hidden, OnBook, Taken
      <4> QED BY <1>1, <4>1 DEF Known, Filed
    <3>2. res.status = "REJECTED" => res.filled = 0
      BY <1>1 DEF Known, Outcome
    <3>3. res.status \in {"FILLED", "PARTIAL"} /\ ~ToBook => res.filled = 0
      BY Quantities DEF ToBook
    <3>4. res.status # "FAILED"
      BY <1>1 DEF Known, Outcome
    <3> QED BY <3>1, <3>2, <3>3, <3>4 DEF Typed, Values, Result
  <2>4. CASE ToBook
    <3>1. pos'[s] = IF pos[s].qty = res.filled THEN NoPosition
                    ELSE [qty |-> pos[s].qty - res.filled, stop |-> pos[s].stop]
      BY <1>1, <1>4, <2>2, <2>4 DEF BookExit
    <3>2. CASE pos[s].qty = res.filled
      <4>1. pos'[s].qty = 0 /\ pos'[s].stop = None
        BY <3>1, <3>2 DEF NoPosition
      <4>2. StopSold(s) = 0 /\ StopSold(s)' = 0
        BY <2>1, <3>2, <4>1, Quantities DEF StopSold
      <4>3. held[s] = 0
        BY <2>1, <3>2, <4>2, Quantities
      <4> QED BY <1>1, <1>2, <4>1, <4>2, <4>3 DEF Balance, Even, Apart
    <3>3. CASE pos[s].qty # res.filled
      <4>1. pos'[s].qty = pos[s].qty - res.filled /\ pos'[s].stop = pos[s].stop
        BY <3>1, <3>3
      <4>2. StopSold(s)' = StopSold(s)
        BY <1>1, <4>1 DEF StopSold
      <4> QED BY <1>1, <1>2, <2>1, <4>1, <4>2, Quantities DEF Balance, Even, Apart
    <3> QED BY <3>2, <3>3
  <2>5. CASE ~ToBook
    <3>1. UNCHANGED pos
      BY <2>5 DEF BookExit
    <3>2. StopSold(s)' = StopSold(s)
      BY <1>1, <3>1 DEF StopSold
    <3> QED BY <1>1, <1>2, <2>1, <2>3, <2>5, <3>1, <3>2, Quantities DEF Balance, Even, Apart
  <2> QED BY <2>4, <2>5
<1> QED BY <1>3, <1>4

\* The position's stop has sold all of it.
LEMMA BookStopBalance ==
  ASSUME Typed, NEW t \in Symbols, BookStop(t), NEW s \in Symbols, Balance(s)
  PROVE  Balance(s)'
<1>1. /\ pc = "idle" /\ pc' = "x_commit" /\ UNCHANGED <<held, mkt, prot>> /\ Calm
      /\ pos' = [pos EXCEPT ![t] = NoPosition] /\ pos \in [Symbols -> Position]
      /\ prot[pos[t].stop].filled = pos[t].qty /\ pos[t].stop # None
  BY DEF BookStop, SoldByStop, brokerVars, Calm, Typed, Values
<1>2. pc \notin Away /\ pc' \notin Away
  BY <1>1 DEF Away, Waits, Stopping
<1>3. CASE s # t
  <2>1. pos'[s] = pos[s]
    BY <1>1, <1>3
  <2> QED BY <1>1, <1>2, <2>1, RestBalance
<1>4. CASE s = t
  <2>1. pos'[s] = NoPosition
    BY <1>1, <1>4
  <2>2. StopSold(s) = pos[s].qty /\ StopSold(s)' = 0 /\ pos'[s].qty = 0
    BY <1>1, <1>4, <2>1 DEF StopSold, NoPosition
  <2>3. held[s] = 0
    BY <1>2, <2>2, Quantities DEF Balance, Even, Apart
  <2> QED BY <1>1, <1>2, <2>2, <2>3 DEF Balance, Even, Apart
<1> QED BY <1>3, <1>4

\* The other steps neither book nor execute.
LEMMA PlainBalance ==
  ASSUME Typed, Next, NEW s \in Symbols, Sure(s)', Balance(s),
         \/ \E e \in Entries : BeginEntry(e)
         \/ \E x \in Exits : BeginExit(x)
         \/ Check \/ CreatePending \/ CommitFill \/ CancelStop \/ CheckQuantity \/ CommitExit
         \/ CloseRow \/ BeginSquareOff \/ EndSquareOff
  PROVE  Balance(s)'
<1>1. CASE Absorbed \/ \E p : MarkUnknown(cur, p)
  BY <1>1 DEF Absorbed, MarkUnknown, Sure
<1>2. CASE ~Absorbed /\ ~(\E p : MarkUnknown(cur, p))
  <2>1. UNCHANGED pos
    BY DEF BeginEntry, BeginExit, Check, CreatePending, CommitFill, CancelStop, CheckQuantity,
       CommitExit, CloseRow, BeginSquareOff, EndSquareOff
  <2>2. /\ pc \in {"idle", "sq", "check", "intent", "commit", "x_stop", "x_qty", "x_commit", "x_rowclose"}
        /\ pc' \in {"idle", "sq", "check", "intent", "gate", "submit", "x_stop", "x_stopstatus", "x_qty",
                   "x_rowclose"}
    BY <1>2 DEF BeginEntry, BeginExit, Check, CreatePending, CommitFill, CancelStop, CheckQuantity,
       CommitExit, CloseRow, BeginSquareOff, EndSquareOff, EndOp
  <2>3. pc # pc' /\ pc \notin Away /\ pc' \notin Away /\ ~Submit /\ ~PlaceStop
    <3>1. pc # pc'
      BY <1>2 DEF BeginEntry, BeginExit, Check, CreatePending, CommitFill, CancelStop,
         CheckQuantity, CommitExit, CloseRow, BeginSquareOff, EndSquareOff, EndOp
    <3> QED BY <2>2, <3>1 DEF Submit, PlaceStop, Away, Waits, Stopping
  <2>4. Calm
    BY <2>3, OthersCalm DEF Outside
  <2> QED BY <2>1, <2>3, <2>4, RestBalance
<1> QED BY <1>1, <1>2

LEMMA ElsewhereBalance ==
  ASSUME Typed, Next, NEW s \in Symbols, Balance(s),
         \/ \E t \in Symbols : BeginExitDbDown(t) \/ SkipExit(t) \/ StopProblem(t)
         \/ BrokerDoubt \/ Halt \/ Resume \/ BeginRetry \/ Compare
  PROVE  Balance(s)'
<1>1. UNCHANGED <<pc, cur, res, pos>> /\ UNCHANGED brokerVars
  BY DEF BeginExitDbDown, SkipExit, StopProblem, BrokerDoubt, Halt, Resume, BeginRetry, Compare,
     MarkUnknownUnsaved, callVars
<1>2. Calm
  BY <1>1 DEF Calm, brokerVars
<1> QED BY <1>1, <1>2, QuietBalance

\* A doubt about the account ends what can be relied upon.
LEMMA DoubtBalance ==
  ASSUME NEW s \in Symbols, Sure(s)',
         SubmitUnknown \/ StopUnconfirmed \/ UnknownUnsaved \/ Crash \/ Restart
  PROVE  Balance(s)'
<1>1. degraded' \/ pc' \in {"down", "recovering"}
  BY DEF SubmitUnknown, StopUnconfirmed, UnknownUnsaved, Crash, Restart, MarkUnknown,
     MarkUnknownUnsaved
<1> QED BY <1>1 DEF Sure

\* What an instrument's balance depends on.
LEMMA SameBalance ==
  ASSUME UNCHANGED <<pc, cur, res, pos>>, NEW s \in Symbols, Balance(s),
         held'[s] = held[s], StopSold(s)' = StopSold(s),
         Apart(s) => /\ mkt'[cur].filled = mkt[cur].filled /\ prot'[cur].filled = prot[cur].filled
                     /\ Over(cur) => Over(cur)'
  PROVE  Balance(s)'
<1>1. UNCHANGED <<IsExit, Sym>> /\ (Apart(s)' <=> Apart(s))
  BY DEF IsExit, Sym, Apart
<1>2. CASE ~Apart(s)
  BY <1>1, <1>2 DEF Balance, Even
<1>3. CASE Apart(s)
  <2>1. Bargain(s)
    BY <1>3 DEF Balance
  <2>2. /\ ~IsExit' /\ pc' \in Waits => held'[s] = mkt'[cur'].filled /\ (pc' = "record" => res'.id)
        /\ ~IsExit' /\ pc' \in Stopping \cup {"final", "fill"} =>
             Over(cur)' /\ held'[s] + prot'[cur'].filled = res'.filled
    BY <1>1, <1>3, <2>1 DEF Bargain, IsExit
  <2>3. /\ IsExit' /\ pc' \in Waits \cup {"x_close"} => pos'[s].qty = held'[s] + mkt'[cur'].filled
        /\ IsExit' /\ pc' \in Stopping => pos'[s].qty = held'[s] + res'.filled + prot'[cur'].filled
        /\ pc' = "x_book" => pos'[s].qty = held'[s] + res'.filled + StopSold(s)'
    BY <1>1, <1>3, <2>1 DEF Bargain, IsExit
  <2> QED BY <1>1, <1>3, <2>2, <2>3 DEF Balance, Bargain
<1> QED BY <1>2, <1>3

\* A market order executes only while its operation waits for it, or its row
\* hides the instrument.
LEMMA FillMarketBalance ==
  ASSUME Typed, Intent, Answers, Outside, NEW j \in Ids, FillMarket(j),
         NEW s \in Symbols, Sure(s), Balance(s)
  PROVE  Balance(s)'
<1>0. UNCHANGED <<pc, cur, res, pos, prot, IsExit, Sym>> /\ held \in [Symbols -> Int]
      /\ Sym = SymbolOf[cur]
  BY DEF Outside, FillMarket, callVars, IsExit, Sym, Typed, BrokerTypeOK
<1>1. /\ \A i \in Ids : i # j => mkt'[i] = mkt[i]
      /\ mkt'[j].filled = mkt[j].filled + 1 /\ Working(mkt[j])
      /\ held' = [held EXCEPT ![SymbolOf[j]] = IF j \in Entries THEN @ + 1 ELSE @ - 1]
  <2>1. \A i \in Ids : i # j => mkt'[i] = mkt[i]
    BY BrokerStep
  <2>2. mkt[j] \in BrokerOrder /\ mkt' = [mkt EXCEPT ![j] = Executed(mkt[j])]
    BY DEF FillMarket, Typed, BrokerTypeOK
  <2>3. mkt'[j] = Executed(mkt[j])
    BY <2>2 DEF Typed, BrokerTypeOK
  <2>4. mkt'[j].filled = mkt[j].filled + 1
    BY <2>2, <2>3 DEF BrokerOrder, Executed
  <2> QED BY <2>1, <2>4 DEF FillMarket, Working
<1>2. StopSold(s)' = StopSold(s)
  BY <1>0 DEF StopSold
<1>3. CASE SymbolOf[j] # s
  <2>1. held'[s] = held[s]
    BY <1>0, <1>1, <1>3
  <2>2. Apart(s) => cur # j /\ cur \in Ids
    BY <1>0, <1>3, AwayIds DEF Apart
  <2> QED BY <1>0, <1>1, <1>2, <2>1, <2>2, SameBalance DEF Over
<1>4. CASE SymbolOf[j] = s
  <2>1. OnBook(j) /\ Taken(j)
    BY <1>1 DEF Intent, DurableIntent, Claimed, Over, OnBook, Taken
  <2>2. j = cur /\ pc \in Busy
    BY <1>4, <2>1 DEF Sure, Hidden
  <2>3. ~Over(cur)
    BY <1>1, <2>2 DEF Over
  <2>10. ~Again(cur)
    BY <1>4, <2>2 DEF Sure, Twice, Again
  <2>11. pc # "intent"
    <3>1. pc = "intent" => ~IsExit /\ cur \in unlisted
      BY <1>1, <2>2 DEF Typed, Phase, EntrySteps, IsExit, Intent, Alone, Ready
    <3> QED BY <2>3, <2>10, <3>1 DEF Intent, Before, Again
  <2>4. pc \notin Ready \cup Early
    BY <2>3, <2>10, <2>11 DEF Intent, Before
  <2>5. pc \in Waits \cup Stopping \cup {"x_close", "final"} /\ Apart(s)
    BY <1>0, <1>4, <2>2, <2>4 DEF Busy, Apart, Away
  <2>6. Bargain(s)
    BY <2>5 DEF Balance
  <2>7. pc \in Waits \/ (pc = "x_close" /\ IsExit)
    <3>1. ~IsExit => pc \notin Stopping \cup {"final"}
      BY <2>3, <2>6 DEF Bargain
    <3>2. IsExit => pc \notin Stopping
      BY <2>3 DEF Answers, FillAnswer, Stopping
    <3>3. (pc = "final" => ~IsExit) /\ (pc = "x_close" => IsExit)
      BY DEF Typed, Phase, EntrySteps, ExitOnly, IsExit
    <3> QED BY <2>5, <3>1, <3>2, <3>3
  <2>8. CASE IsExit
    <3>1. held'[s] = held[s] - 1
      BY <1>0, <1>1, <1>4, <2>2, <2>8 DEF IsExit
    <3>2. pos[s].qty = held[s] + mkt[cur].filled
      BY <2>6, <2>7, <2>8 DEF Bargain
    <3>3. pos'[s].qty = held'[s] + mkt'[cur].filled
      <4>1. mkt'[cur].filled = mkt[cur].filled + 1 /\ pos'[s].qty = pos[s].qty
        BY <1>0, <1>1, <2>2
      <4>2. mkt[cur].filled \in Nat /\ held[s] \in Int /\ pos[s].qty \in Nat
        BY <2>2, Quantities
      <4> QED BY <3>1, <3>2, <4>1, <4>2
    <3> QED BY <1>0, <2>5, <2>7, <2>8, <3>3 DEF Balance, Bargain, Apart, Waits, Stopping
  <2>9. CASE ~IsExit
    <3>1. held'[s] = held[s] + 1
      BY <1>0, <1>1, <1>4, <2>2, <2>9 DEF IsExit
    <3>2. held[s] = mkt[cur].filled /\ (pc = "record" => res.id)
      BY <2>6, <2>7, <2>9 DEF Bargain
    <3>3. held'[s] = mkt'[cur].filled
      BY <1>1, <2>2, <3>1, <3>2
    <3> QED BY <1>0, <2>5, <2>7, <2>9, <3>2, <3>3 DEF Balance, Bargain, Apart, Waits, Stopping
  <2> QED BY <2>8, <2>9
<1> QED BY <1>3, <1>4

\* A stop executes: the position's own, or the one the operation has in hand.
LEMMA FillStopBalance ==
  ASSUME Typed, Stops, Whose, Outside, NEW j \in Ids, FillStop(j),
         NEW s \in Symbols, Sure(s)', Sure(s), Balance(s)
  PROVE  Balance(s)'
<1>0. UNCHANGED <<pc, cur, res, pos, mkt, IsExit, Sym, Ours>> /\ held \in [Symbols -> Int]
      /\ Sym = SymbolOf[cur]
  BY DEF Outside, FillStop, callVars, history, IsExit, Sym, Typed, BrokerTypeOK, Ours, InHand
<1>1. /\ \A i \in Ids : i # j => prot'[i] = prot[i]
      /\ prot'[j].filled = prot[j].filled + 1 /\ Working(prot[j])
      /\ held' = [held EXCEPT ![SymbolOf[j]] = @ - 1]
  <2>1. \A i \in Ids : i # j => prot'[i] = prot[i]
    BY BrokerStep
  <2>2. prot[j] \in BrokerOrder /\ prot'[j] = Executed(prot[j])
    BY DEF FillStop, Typed, BrokerTypeOK
  <2>3. prot'[j].filled = prot[j].filled + 1
    BY <2>2 DEF BrokerOrder, Executed
  <2> QED BY <2>1, <2>3 DEF FillStop, Working
<1>2. CASE SymbolOf[j] # s
  <2>1. held'[s] = held[s]
    BY <1>0, <1>1, <1>2
  <2>2. Apart(s) => cur # j /\ cur \in Ids
    BY <1>0, <1>2, AwayIds DEF Apart
  <2>3. StopSold(s)' = StopSold(s)
    <3>1. pos[s].stop # None => pos[s].stop # j /\ pos[s].stop \in Ids
      BY <1>2, Quantities DEF Whose, OwnStops
    <3> QED BY <1>0, <1>1, <3>1 DEF StopSold
  <2> QED BY <1>0, <1>1, <2>1, <2>2, <2>3, SameBalance DEF Over
<1>3. CASE SymbolOf[j] = s
  <2>1. j \in Ours
    <3>1. prot'[j].filled > 0
      BY <1>1, Quantities
    <3> QED BY <1>0, <1>3, <3>1 DEF Sure, Stray
  <2>2. held'[s] = held[s] - 1
    BY <1>0, <1>1, <1>3
  <2>3. CASE j \in owned
    <3>1. pos[s].stop = j
      BY <1>1, <1>3, <2>3 DEF Sure, Stops, Named, Ledger
    <3>2. StopSold(s)' = StopSold(s) + 1 /\ StopSold(s) \in Nat
      BY <1>0, <1>1, <3>1, LotAssumption, Quantities DEF StopSold
    <3>3. CASE ~Apart(s)
      BY <1>0, <2>2, <3>2, <3>3, Quantities DEF Balance, Even, Apart
    <3>4. CASE Apart(s)
      <4>1. pc = "x_book" /\ Sym = s
        BY <1>0, <1>1, <1>3, <2>3, <3>4, NoOtherStop
           DEF Apart, Away, Waits, Stopping, Trading, Asked, Typed, Phase, EntrySteps, IsExit
      <4>2. pos[s].qty = held[s] + res.filled + StopSold(s)
        BY <3>4, <4>1 DEF Balance, Bargain
      <4>3. pos'[s].qty = held'[s] + res'.filled + StopSold(s)'
        <5>1. pos'[s].qty = pos[s].qty /\ res'.filled = res.filled
          BY <1>0
        <5>2. held[s] \in Int /\ pos[s].qty \in Nat /\ res.filled \in Nat
          BY Quantities
        <5> QED BY <2>2, <3>2, <4>2, <5>1, <5>2
      <4> QED BY <1>0, <4>1, <4>3 DEF Balance, Bargain, Apart, Away, Waits, Stopping
    <3> QED BY <3>3, <3>4
  <2>4. CASE j \notin owned
    <3>1. j = cur /\ pc \in {"stopack", "stopcheck", "final", "fill"} /\ Sym = s
      BY <1>0, <1>3, <2>1, <2>4 DEF Ours, InHand
    <3>2. Apart(s) /\ Bargain(s) /\ (pc \in {"final", "fill"} => ~IsExit)
      BY <3>1 DEF Apart, Away, Stopping, Balance, Typed, Phase, EntrySteps, IsExit
    <3>3. held'[s] + prot'[cur].filled = held[s] + prot[cur].filled
      <4>1. prot'[cur].filled = prot[cur].filled + 1
        BY <1>1, <3>1
      <4>2. held[s] \in Int /\ prot[cur].filled \in Nat
        BY <3>1, Quantities
      <4> QED BY <2>2, <4>1, <4>2
    <3>4. CASE IsExit
      <4>1. pos[s].qty = held[s] + res.filled + prot[cur].filled /\ pc \in Stopping
        BY <3>1, <3>2, <3>4 DEF Bargain, Stopping
      <4>2. pos'[s].qty = held'[s] + res'.filled + prot'[cur].filled
        <5>1. pos'[s].qty = pos[s].qty /\ res'.filled = res.filled
          BY <1>0
        <5>2. /\ prot[cur].filled \in Nat /\ held[s] \in Int /\ pos[s].qty \in Nat
              /\ res.filled \in Nat
          BY <3>1, Quantities
        <5>3. prot'[cur].filled = prot[cur].filled + 1
          BY <1>1, <3>1
        <5> QED BY <2>2, <4>1, <5>1, <5>2, <5>3
      <4> QED BY <1>0, <3>2, <3>4, <4>1, <4>2 DEF Balance, Bargain, Apart, Waits, Stopping
    <3>5. CASE ~IsExit
      <4>1. Over(cur) /\ held[s] + prot[cur].filled = res.filled
        BY <3>1, <3>2, <3>5 DEF Bargain, Stopping
      <4> QED BY <1>0, <3>1, <3>2, <3>3, <3>5, <4>1
              DEF Balance, Bargain, Apart, Waits, Stopping, Over
    <3> QED BY <3>4, <3>5
  <2> QED BY <2>3, <2>4
<1> QED BY <1>2, <1>3

LEMMA OutsideBalance ==
  ASSUME Typed, Intent, Stops, Answers, Whose, Outside, NEW s \in Symbols, Sure(s)', Sure(s),
         Balance(s)
  PROVE  Balance(s)'
<1>1. PICK j \in Ids : Arrive(j) \/ FillMarket(j) \/ FillStop(j) \/ Withdraw(j)
  BY DEF Outside, BrokerNext
<1>2. CASE ~FillMarket(j) /\ ~FillStop(j)
  <2>1. /\ \A i \in Ids : i # j => mkt'[i] = mkt[i] /\ prot'[i] = prot[i]
        /\ mkt'[j] = mkt[j] \/ (Working(mkt[j]) /\ mkt'[j].qty = mkt[j].qty)
        /\ \/ prot'[j] = prot[j]
           \/ Working(prot[j]) /\ prot'[j].st # "none" /\ prot'[j].qty = prot[j].qty
        /\ mkt'[j].filled = mkt[j].filled /\ prot'[j].filled = prot[j].filled
        /\ UNCHANGED held
    BY <1>1, <1>2, BrokerStep
  <2>2. Calm
    BY <2>1 DEF Calm
  <2>3. UNCHANGED <<pc, cur, res, pos>>
    BY DEF Outside, callVars
  <2> QED BY <2>2, <2>3, QuietBalance
<1> QED BY <1>1, <1>2, FillMarketBalance, FillStopBalance

-----------------------------------------------------------------------------
(* The reconciliation takes the doubts back                                *)

LEMMA MatchedEven ==
  ASSUME Typed, Stops, NEW s \in Symbols, ~Mismatch(s)
  PROVE  Even(s)
<1>1. CASE held[s] = 0
  <2>1. pos[s].qty = 0 /\ pos[s].stop = None
    BY <1>1, Quantities DEF Mismatch, Stops, Bare, Unstopped
  <2> QED BY <1>1, <2>1 DEF Even, StopSold
<1>2. CASE held[s] # 0
  BY <1>2, Quantities DEF Mismatch, Protected, StopWorks, Even, StopSold
<1> QED BY <1>1, <1>2

\* An entry in progress: it has bought nothing yet, or its stop has sold it.
LEMMA MatchedEntry ==
  ASSUME Typed, Intent, Stops, Answers, Known, Taking, Whole, Room, Bought,
         \A i \in Ids : ~Unresolved(i),
         NEW s \in Symbols, Even(s), ~Stray(s), ~Hidden(s), ~Twice(s), pc \in Away, Sym = s, ~IsExit
  PROVE  Bargain(s)
<1>1. /\ cur \in Ids /\ pc \in Buying
      /\ pc \in {"ack", "record", "poll", "cancel", "status"} \cup Stopping \cup {"final", "fill"}
  BY DEF Typed, Phase, Away, Waits, Stopping, ExitOnly, IsExit, Buying, OrderSteps, EntrySteps
<1>2. held[s] = 0 /\ ~Again(cur)
  BY <1>1, EntryBare, Quantities DEF Even, Again, Twice, Sym
<1>3. pc \notin {"poll", "cancel", "status"} \cup Stopping /\ (pc = "record" => res.id)
  BY <1>1 DEF Known, Filed
<1>4. CASE pc \in {"ack", "record"}
  <2>1. held[s] >= mkt[cur].filled
    BY <1>3, <1>4 DEF Room, Deal, Asked
  <2>2. held[s] = mkt[cur].filled
    BY <1>1, <1>2, <2>1, Quantities
  <2> QED BY <1>3, <1>4, <2>2 DEF Bargain, Waits, Stopping
<1>5. CASE pc = "final"
  <2>1. res.status = "REJECTED" /\ res.filled = 0 /\ Over(cur)
    BY <1>1, <1>2, <1>5 DEF Known, Filed, Outcome, Intent, After
  <2>2. prot[cur].filled = 0
    BY <1>1, <1>5, <2>1, Unplaced
  <2> QED BY <1>2, <1>5, <2>1, <2>2 DEF Bargain, Waits
<1>6. CASE pc = "fill"
  <2>1. res.stop /\ cur \in InHand
    BY <1>1, <1>6 DEF Known, Filed, InHand
  <2>2. held[s] + prot[cur].filled >= res.filled
    BY <2>1 DEF Bought
  <2>3. prot[cur].filled <= prot[cur].qty /\ prot[cur].qty = res.filled
    BY <1>1, <2>1 DEF Whole, Known, Sized
  <2>4. held[s] + prot[cur].filled = res.filled
    BY <1>1, <1>2, <2>2, <2>3, Quantities
  <2>5. Over(cur)
    <3>1. pc \notin Busy
      BY <1>6 DEF Busy, Ready, Early, Waits, Stopping
    <3>2. ~Over(cur) => OnBook(cur)
      BY <1>1 DEF Intent, DurableIntent, Over, OnBook
    <3> QED BY <1>1, <1>6, <3>1, <3>2 DEF Hidden, Sym, Taking
  <2> QED BY <1>6, <2>4, <2>5 DEF Bargain, Waits
<1> QED BY <1>1, <1>3, <1>4, <1>5, <1>6

\* An exit in progress: its row is finished, and its stop works for the whole.
LEMMA MatchedExit ==
  ASSUME Typed, Stops, Known, \A i \in Ids : ~Unresolved(i),
         NEW s \in Symbols, ~Mismatch(s), pc \in Away, Sym = s, IsExit
  PROVE  Bargain(s)
<1>1. cur \in Ids /\ pc \notin {"final", "fill"}
  BY AwayIds DEF Typed, Phase, EntrySteps, IsExit
<1>2. pc \notin Waits \cup {"x_close"}
  BY <1>1 DEF Known, Filed
<1>3. pos[s].qty > 0
  BY <1>1, <1>2 DEF Known, Sized, Away
<1>4. Protected(s) /\ held[s] = pos[s].qty
  BY <1>3 DEF Mismatch
<1>5. pc \notin Stopping
  BY <1>4, ExitBare DEF Protected, Selling, Stopping, OrderSteps
<1>6. pc = "x_book"
  BY <1>1, <1>2, <1>5 DEF Away
<1>7. /\ pos[s].stop # None /\ prot[pos[s].stop].filled = 0
      /\ prot[pos[s].stop].qty = pos[s].qty
  BY <1>4 DEF Protected, StopWorks
<1>8. pos[s].qty - res.filled = pos[s].qty
  BY <1>6, <1>7 DEF Known, Sized
<1>9. StopSold(s) = 0 /\ res.filled = 0
  BY <1>7, <1>8, Quantities DEF StopSold
<1> QED BY <1>4, <1>6, <1>9, Quantities DEF Bargain, Waits, Stopping

LEMMA ApplyBalance ==
  ASSUME Typed, Intent, Stops, Answers, Known, Taking, Whole, Room, Bought, Apply,
         NEW s \in Symbols, Sure(s)'
  PROVE  Balance(s)'
<1>1. /\ UNCHANGED <<cur, res, pos, held, mkt, prot, row, unlisted, claims, unclaimed, owned, IsExit, Sym>>
      /\ pc' = pc \/ (pc = "recovering" /\ pc' = "idle")
  BY DEF Apply, callVars, brokerVars, dbVars, IsExit, Sym
<1>2. (\A i \in Ids : ~Unresolved(i)) /\ ~Mismatch(s)
  BY DEF Apply, Sure
<1>3. Even(s) /\ Even(s)'
  <2>1. Even(s)
    BY <1>2, MatchedEven
  <2> QED BY <1>1, <2>1 DEF Even, StopSold
<1>4. CASE ~Apart(s)'
  BY <1>3, <1>4 DEF Balance
<1>5. CASE Apart(s)'
  <2>1. UNCHANGED pc /\ pc \in Away /\ Sym = s
    BY <1>1, <1>5 DEF Apart, Away, Waits, Stopping
  <2>2. ~Stray(s) /\ ~Hidden(s) /\ ~Twice(s)
    BY <1>1, <2>1 DEF Sure, Stray, Ours, InHand, Hidden, OnBook, Unresolved, Taken, Twice
  <2>3. Bargain(s)
    BY <1>2, <1>3, <2>1, <2>2, MatchedEntry, MatchedExit
  <2>4. Apart(s)
    BY <2>1 DEF Apart
  <2>5. Balance(s)
    BY <2>3, <2>4 DEF Balance
  <2>6. StopSold(s)' = StopSold(s)
    BY <1>1 DEF StopSold
  <2> QED BY <1>1, <2>1, <2>5, <2>6, SameBalance DEF Over
<1> QED BY <1>4, <1>5

-----------------------------------------------------------------------------
(* The ledger and the account                                              *)

\* The doubts stand before the step that keeps them out, unless it is a verdict.
LEMMA NextBalance ==
  ASSUME Typed, Intent, Stops, Answers, Sole, Room, Known, Whole, Whose, Taking, Bought, InBalance, Next
  PROVE  InBalance'
<1> SUFFICES ASSUME NEW s \in Symbols, Sure(s)' PROVE Balance(s)'
  BY DEF InBalance
<1>1. CASE Apply
  BY <1>1, ApplyBalance
<1>2. CASE ~Apply
  <2>0. Sure(s) /\ Balance(s)
    BY <1>2, SureBefore DEF InBalance
  <2>1. CASE OrderStep
    BY <2>0, <2>1, SubmitBalance, AckBalance, DoubtBalance, RecordBalance, PollBalance,
       CancelBalance, StatusBalance, PlaceStopBalance, StopAckBalance, StopConfirmedBalance
       DEF OrderStep
  <2>2. CASE EntryStep
    BY <2>0, <2>2, PlainBalance, LiveGateBalance, RecordFinalBalance, RecordFillBalance
       DEF EntryStep
  <2>3. CASE ExitStep
    BY <2>0, <2>3, PlainBalance, StopStatusBalance, CloseExitBalance, BookExitBalance
       DEF ExitStep
  <2>4. CASE Sweep
    BY <2>0, <2>4, PlainBalance, ElsewhereBalance DEF Sweep
  <2>5. CASE Locked
    BY <2>0, <2>1, <2>2, <2>3, <2>4, <2>5, PlainBalance, ElsewhereBalance, BookStopBalance,
       DoubtBalance DEF Locked, Lifecycle
  <2>6. CASE Unlocked
    BY <1>2, <2>0, <2>6, AnalysisTimeoutBalance, ElsewhereBalance, DoubtBalance DEF Unlocked
  <2>7. CASE Outside
    BY <2>0, <2>7, OutsideBalance
  <2> QED BY <2>5, <2>6, <2>7 DEF Next
<1> QED BY <1>1, <1>2

LEMMA InitBalance == Init => Taking /\ Bought /\ InBalance
BY DEF Init, Taking, BrokerInit, NoPosition, Bought, InHand, InBalance, Balance, Even, Apart, Away, Waits,
   Stopping, StopSold

LEMMA StutterBalance ==
  ASSUME UNCHANGED vars, Taking, Bought, InBalance PROVE Taking' /\ Bought' /\ InBalance'
<1>1. /\ UNCHANGED <<pc, cur, res, pos, held, mkt, prot, row, unlisted, claims, unclaimed, owned,
                    degraded, late, cut>>
      /\ UNCHANGED <<IsExit, Sym, InHand, Ours>>
  BY DEF vars, callVars, brokerVars, dbVars, history, IsExit, Sym, InHand, Ours
<1>2. Taking' /\ Bought'
  BY <1>1 DEF Taking, Taken, Bought, Stray, Twice
<1>3. ASSUME NEW s \in Symbols PROVE (Sure(s)' <=> Sure(s)) /\ (Balance(s)' <=> Balance(s))
  <2>1. Sure(s)' <=> Sure(s)
    BY <1>1 DEF Sure, Stray, Hidden, OnBook, Unresolved, Taken, Twice
  <2>2. Balance(s)' <=> Balance(s)
    BY <1>1 DEF Balance, Apart, Even, Bargain, StopSold, Over
  <2> QED BY <2>1, <2>2
<1> QED BY <1>2, <1>3 DEF InBalance

\* Between operations the ledger's quantity is the account's, up to what the
\* position's own stop has sold: every step that upsets the balance leaves an
\* unfinished row, degrades, or is one of the lapses that Doubted names, and a
\* reconciliation that reports no issue has compared the two sides itself.  Of
\* entries see the bound OneRow.
THEOREM AccountedHolds == Spec => []Accounted
<1>1. Spec => [](Typed /\ Intent /\ Stops /\ SellAlone /\ OneSell /\ Answers)
  BY AnswersHold
<1>2. (Typed /\ Intent /\ Stops /\ SellAlone /\ OneSell /\ Answers) /\ (Sole /\ Room)
        /\ [Next]_vars => (Sole /\ Room)'
  BY SoleStep, RoomStep, StutterRoom
<1>3. (Typed /\ Intent /\ Stops /\ SellAlone /\ OneSell /\ Answers) /\ (Sole /\ Room)
        /\ (Known /\ Whole /\ Whose) /\ [Next]_vars => (Known /\ Whole /\ Whose)'
  BY NextKnown, WholeStep, WhoseStep, StutterKnown
<1>4. (Typed /\ Intent /\ Stops /\ SellAlone /\ OneSell /\ Answers) /\ (Sole /\ Room)
        /\ (Known /\ Whole /\ Whose) /\ (Taking /\ Bought /\ InBalance)
        /\ [Next]_vars => (Taking /\ Bought /\ InBalance)'
  BY TakingStep, BoughtStep, NextBalance, StutterBalance
<1>5. Typed /\ InBalance => Accounted
  <2> SUFFICES ASSUME Typed, InBalance, NEW s \in Symbols, pc = "idle", ~Flagged(s), ~Doubted(s)
               PROVE  pos[s].qty = held[s] + StopSold(s)
    BY DEF Accounted
  <2>1. ~Stray(s)
    BY DEF Doubted, Loose, Stray, Ours
  <2>2. ~Hidden(s)
    BY DEF Flagged, Doubted, Hidden, OnBook
  <2>3. Sure(s) /\ ~Apart(s)
    BY <2>1, <2>2 DEF Sure, Twice, Flagged, Doubted, Apart, Away, Waits, Stopping
  <2> QED BY <2>3 DEF InBalance, Balance, Even
<1> QED BY <1>1, <1>2, <1>3, <1>4, <1>5, InitRoom, InitKnown, InitBalance, PTL DEF Spec
=============================================================================
