---------------------------- MODULE LiveExitProofs ----------------------------
(***************************************************************************)
(* Proofs about exits: one market sell at a time, none while a stop the    *)
(* ledger knows may still sell, no flat report over a live order the       *)
(* ledger knows, and an account that is never short.                       *)
(*                                                                         *)
(* OneSell needs that the sell about to be sent is alone (SellAlone);      *)
(* SellAfterStops that a stop of the ledger which may still sell is the    *)
(* one its position names (Named), and hence what each step of an          *)
(* operation knows of the position it works on (Buyer, Seller).  NoShort   *)
(* needs that an order not yet sent has no fill (Once), what an operation  *)
(* has been told of an order (Answers), that one order alone may still     *)
(* sell an instrument (Sole), and that it is for no more than the account  *)
(* then holds (Room).                                                      *)
(***************************************************************************)
EXTENDS LiveIntentProofs

\* A square-off that reported ok left nothing open, and nothing began since.
FlatRest == flat => /\ pc = "idle" /\ \A s \in Symbols : pos[s].qty = 0
                    /\ \A i \in Ids : ~Unresolved(i)

\* Until it is sent, an exit is the only sell of its instrument.
SellAlone == pc \in Early \cup {"submit"} /\ IsExit =>
               \A y \in Exits : SymbolOf[y] = Sym => Over(y)

\* The ledger the process has, or will have when it restarts.
Ledger == IF pc = "down" THEN dpos ELSE pos

\* An empty position has no stop.
Unstopped(p) == \A s \in Symbols : p[s].qty = 0 => p[s].stop = None
Bare == Unstopped(pos) /\ Unstopped(dpos)

\* A stop the ledger has named, and that may still sell, is its position's.
Named == \A i \in owned : Working(prot[i]) => Ledger[SymbolOf[i]].stop = i

\* An exit whose stop the ledger has named is not used again.
Kept == \A i \in owned \cap Exits : row[i] # "none"

\* An entry buys into an empty position.
Buying == {"intent", "gate", "final", "fill"} \cup OrderSteps
Buyer == ~IsExit =>
  /\ pc \in Buying \cup {"check"} => pos[Sym].qty = 0
  /\ pc = "fill" => res.filled > 0

\* An exit works on a position whose stop is gone once it has been cancelled,
\* and stops what it has left unsold.
Selling == {"x_qty", "x_close"} \cup OrderSteps
Seller == IsExit =>
  /\ pc \in Early \cup Selling => cur \notin owned /\ row[cur] # "none"
  /\ pc \in Selling => pos[Sym].stop = None
  /\ pc \in {"stop", "stopack", "stopcheck"} => res.filled < pos[Sym].qty
  /\ pc = "x_book" => pos[Sym].stop = None \/ res.filled < pos[Sym].qty

\* The inductive invariant, beside Typed and Intent.
Stops == Bare /\ Named /\ Kept /\ Buyer /\ Seller

USE IdsAssumption, LotAssumption DEF Ids, claimVars, Listed

-----------------------------------------------------------------------------
(* A flat report                                                           *)

\* While the process rests on a flat report, only an action that withdraws the
\* report, or leaves ledger and rows alone, is enabled.
LEMMA FlatKept ==
  ASSUME FlatRest, Next, flat, flat'
  PROVE  (pc' = "idle" /\ UNCHANGED <<pos, row>>) \/ EndSquareOff
<1>0. pc = "idle" /\ \A s \in Symbols : pos[s].qty = 0
  BY DEF FlatRest
<1>1. ~OrderStep /\ ~EntryStep /\ ~ExitStep /\ ~Sweep /\ ~UnknownUnsaved
  BY <1>0 DEF OrderStep, EntryStep, ExitStep, Sweep, Submit, Ack, SubmitUnknown,
     Record, Poll, Cancel, Status, PlaceStop, StopAck, StopConfirmed, StopUnconfirmed,
     Check, CreatePending, LiveGate, RecordFinal, RecordFill, CommitFill, CancelStop,
     StopStatus, CheckQuantity, CloseExit, BookExit, CommitExit, CloseRow,
     UnknownUnsaved, OrderSteps
<1>2. ASSUME NEW e \in Entries PROVE ~BeginEntry(e)
  BY DEF BeginEntry
<1>3. ASSUME NEW x \in Exits PROVE ~BeginExit(x)
  BY <1>0 DEF BeginExit
<1>4. ASSUME NEW s \in Symbols PROVE ~Lifecycle(s) /\ ~BeginExitDbDown(s)
  BY <1>0 DEF Lifecycle, BookStop, StopProblem, BeginExitDbDown
<1>5. ~BeginSquareOff
  BY DEF BeginSquareOff
<1>6. ~Locked
  BY <1>1, <1>2, <1>3, <1>4, <1>5 DEF Locked
<1>7. CASE Outside
  BY <1>0, <1>7 DEF Outside, dbVars
<1>8. CASE Unlocked
  <2>1. ~Crash /\ ~Restart /\ ~AnalysisTimeout
    BY <1>0 DEF Crash, Restart, AnalysisTimeout
  <2> QED BY <1>0, <1>8, <2>1 DEF Unlocked, BrokerDoubt, Halt, Resume, BeginRetry,
     Compare, Apply, dbVars
<1> QED BY <1>6, <1>7, <1>8 DEF Next

\* Only the end of a square-off reports a flat account.
LEMMA FlatSet == ASSUME Next, ~flat, flat' PROVE EndSquareOff
<1>1. ~OrderStep
  BY DEF OrderStep, Submit, Ack, SubmitUnknown, Record, Poll, Cancel, Status,
     PlaceStop, StopAck, StopConfirmed, StopUnconfirmed, Absorbed, NotBooked, sweepVars
<1>2. ~EntryStep
  BY DEF EntryStep, Check, CreatePending, LiveGate, RecordFinal, RecordFill,
     CommitFill, sweepVars
<1>3. ~ExitStep
  BY DEF ExitStep, CancelStop, StopStatus, CheckQuantity, CloseExit, BookExit,
     CommitExit, CloseRow, Absorbed, NotBooked, sweepVars
<1>4. Sweep => EndSquareOff
  BY DEF Sweep, BeginExit, BeginExitDbDown, SkipExit
<1>5. ~Unlocked
  BY DEF Unlocked, AnalysisTimeout, BrokerDoubt, Halt, Resume, BeginRetry, Compare,
     Apply, Crash, Restart, Absorbed, NotBooked, sweepVars
<1>6. Locked => EndSquareOff
  BY <1>1, <1>2, <1>3, <1>4 DEF Locked, Lifecycle, BeginEntry, BeginExit, BookStop,
     StopProblem, BeginExitDbDown, UnknownUnsaved, BeginSquareOff, NotBooked, sweepVars
<1>7. ~Outside
  BY DEF Outside, sweepVars
<1> QED BY <1>5, <1>6, <1>7 DEF Next

\* The square-off reports a flat account only when it has seen one.
LEMMA EndSquareOffFlat == ASSUME EndSquareOff PROVE FlatRest'
BY DEF EndSquareOff, AllFlat, FlatRest, Unresolved

\* A flat report is withdrawn before anything trades.
LEMMA NextFlat == ASSUME FlatRest, [Next]_vars PROVE FlatRest'
<1>1. CASE UNCHANGED vars
  BY <1>1 DEF vars, sweepVars, dbVars, FlatRest, Unresolved
<1>2. CASE Next /\ flat /\ flat'
  BY <1>2, FlatKept, EndSquareOffFlat DEF FlatRest, Unresolved
<1>3. CASE Next /\ ~flat /\ flat'
  BY <1>3, FlatSet, EndSquareOffFlat
<1>4. CASE ~flat'
  BY <1>4 DEF FlatRest
<1> QED BY <1>1, <1>2, <1>3, <1>4

-----------------------------------------------------------------------------
(* One sell at a time                                                      *)

\* Every step that leads an exit towards its submission keeps its instrument,
\* but for BeginExit, which asks the rows of the others first.
LEMMA SellAloneStep ==
  ASSUME Typed, Intent, SellAlone, Next
  PROVE  SellAlone'
<1>1. CASE ~(pc' \in Early \cup {"submit"} /\ IsExit')
  BY <1>1 DEF SellAlone
<1>2. CASE pc' \in Early \cup {"submit"} /\ IsExit'
  <2>1. CASE \E x \in Exits : BeginExit(x)
    <3>1. PICK x \in Exits : BeginExit(x)
      BY <2>1
    <3>2. \A y \in Exits : SymbolOf[y] = SymbolOf[x] => Over(y)
      BY <3>1 DEF BeginExit, UnresolvedExit, Intent, DurableIntent, Over, Typed, Flags
    <3> QED BY <3>1, <3>2 DEF BeginExit, SellAlone, Over, Sym, brokerVars
  <2>2. CASE /\ pc \in Early \cup {"submit"} /\ cur' = cur
             /\ \A y \in Ids : Over(y) => Over(y)'
    BY <1>2, <2>2 DEF SellAlone, IsExit, Sym
  <2>3. CASE OrderStep
    BY <1>2, <2>3 DEF OrderStep, Submit, Ack, SubmitUnknown, Record, Poll, Cancel, Status,
       PlaceStop, StopAck, StopConfirmed, StopUnconfirmed, Absorbed, EndOp, Attached,
       Settled, Early
  <2>4. CASE EntryStep
    <3>1. pc \in EntrySteps /\ (pc' \in Early \cup {"submit"} => cur' = cur)
      BY <2>4 DEF EntryStep, Check, CreatePending, LiveGate, RecordFinal, RecordFill,
         CommitFill, EndOp, Early, EntrySteps, callVars
    <3> QED BY <1>2, <3>1 DEF Typed, Phase, IsExit
  <2>5. CASE ExitStep
    <3>1. CASE CancelStop
      BY <1>2, <2>2, <3>1 DEF CancelStop, Early, Absorbed, EndOp, IsExit, callVars, Over
    <3>2. CASE StopStatus
      BY <1>2, <2>2, <3>2 DEF StopStatus, Early, EndOp, IsExit, callVars, brokerVars, Over
    <3>3. CASE CheckQuantity
      BY <1>2, <2>2, <3>3 DEF CheckQuantity, Early, Absorbed, EndOp, IsExit, callVars,
         brokerVars, Over
    <3>4. CASE CloseExit \/ BookExit \/ CommitExit \/ CloseRow
      BY <1>2, <3>4 DEF CloseExit, BookExit, CommitExit, CloseRow, EndOp, Early
    <3> QED BY <2>5, <3>1, <3>2, <3>3, <3>4 DEF ExitStep
  <2>6. CASE Locked
    <3>1. CASE Sweep
      BY <1>2, <2>1, <3>1 DEF Sweep, BeginExitDbDown, SkipExit, EndSquareOff, Early
    <3>2. CASE \/ \E e \in Entries : BeginEntry(e)
               \/ \E s \in Symbols : Lifecycle(s) \/ (pc = "idle" /\ BeginExitDbDown(s))
               \/ UnknownUnsaved \/ BeginSquareOff
      BY <1>2, <3>2 DEF BeginEntry, Lifecycle, BookStop, StopProblem, BeginExitDbDown,
         UnknownUnsaved, BeginSquareOff, EndOp, Early
    <3> QED BY <2>1, <2>3, <2>4, <2>5, <2>6, <3>1, <3>2 DEF Locked
  <2>7. CASE Outside
    BY <1>2, <2>2, <2>7, BrokerKeepsOver DEF Outside, callVars
  <2>8. CASE Unlocked
    <3>1. CASE AnalysisTimeout
      BY <1>2, <3>1 DEF AnalysisTimeout, EndOp, Absorbed, Early
    <3>2. CASE BrokerDoubt \/ Halt \/ Resume \/ BeginRetry \/ Compare
      BY <1>2, <2>2, <3>2 DEF BrokerDoubt, Halt, Resume, BeginRetry, Compare,
         callVars, brokerVars, Over
    <3>3. CASE Apply
      BY <1>2, <2>2, <3>3 DEF Apply, Early, callVars, brokerVars, Over
    <3>4. CASE Crash \/ Restart
      BY <1>2, <3>4 DEF Crash, Restart, Early
    <3> QED BY <2>8, <3>1, <3>2, <3>3, <3>4 DEF Unlocked
  <2> QED BY <2>6, <2>7, <2>8 DEF Next
<1> QED BY <1>1, <1>2

\* Only Submit makes an order work, and then no other sell of the instrument.
LEMMA OneSellStep ==
  ASSUME Typed, Intent, SellAlone, OneSell, Next
  PROVE  OneSell'
<1>1. CASE \A i \in Ids : Over(i) => Over(i)'
  BY <1>1 DEF OneSell, Over
<1>2. CASE Submit
  <2>1. /\ pc = "submit" /\ cur \in Ids
        /\ \A i \in Ids : i # cur => mkt'[i] = mkt[i]
    BY <1>2 DEF Submit, Typed, Phase, OrderSteps, BrokerTypeOK
  <2>2. CASE IsExit
    BY <2>1, <2>2 DEF OneSell, SellAlone, Over, Sym
  <2>3. CASE ~IsExit
    BY <2>1, <2>3 DEF OneSell, IsExit
  <2> QED BY <2>2, <2>3
<1>3. CASE Cancel
  <2>1. cur \in Ids /\ mkt \in [Ids -> BrokerOrder] /\ mkt[cur] \in BrokerOrder
    BY <1>3 DEF Typed, Phase, OrderSteps, BrokerTypeOK, Cancel
  <2>2. \A i \in Ids : Over(i) => Over(i)'
    BY <1>3, <2>1 DEF Cancel, Over, Working, BrokerOrder
  <2> QED BY <1>1, <2>2
<1>4. CASE Outside
  BY <1>1, <1>4, BrokerKeepsOver DEF Outside
<1>5. CASE UNCHANGED mkt
  BY <1>5 DEF OneSell
<1> QED BY <1>2, <1>3, <1>4, <1>5, WhoTouchesOrders

-----------------------------------------------------------------------------
(* The stops the ledger knows                                              *)

\* Steps that have nothing to do with the position any more, or not yet.
Resting == {"idle", "sq", "down", "recovering", "commit", "x_commit", "x_rowclose"}

\* PortfolioRepository.save keeps positions without quantity without a stop.
LEMMA SavedUnstopped ==
  ASSUME NEW p, Typed, Unstopped(p), Unstopped(dpos), p \in [Symbols -> Position]
  PROVE  Unstopped(Saved(p))
BY DEF Unstopped, Saved, Typed, Values, Position

\* So does PortfolioManager.persist, whether it succeeds or not.
LEMMA PersistUnstopped ==
  ASSUME NEW p, NEW h, Typed, Unstopped(p), Unstopped(dpos),
         p \in [Symbols -> Position], Persist(p, h)
  PROVE  Unstopped(dpos)'
<1>1. dpos' = Saved(p) \/ dpos' = dpos
  BY DEF Persist
<1>2. Unstopped(Saved(p))
  BY SavedUnstopped
<1> QED BY <1>1, <1>2 DEF Unstopped

\* A step that leaves the ledger and its stops alone.
Still == /\ UNCHANGED <<pos, owned>> /\ Unstopped(dpos)'
         /\ pc # "down" /\ pc' # "down"
         /\ \A i \in Ids : Working(prot[i])' => Working(prot[i])
         /\ \A i \in Exits : row[i] # "none" => row'[i] # "none"

\* Such a step keeps what the invariant says of the ledger ...
LEMMA StillKeeps == ASSUME Typed, Stops, Still PROVE Bare' /\ Named' /\ Kept'
<1>1. Bare'
  BY DEF Stops, Bare, Unstopped, Still
<1>2. Named'
  BY DEF Typed, Flags, Stops, Named, Still, Ledger
<1>3. Kept'
  BY DEF Typed, Flags, Stops, Kept, Still
<1> QED BY <1>1, <1>2, <1>3

\* ... and all of it, when the operation is over, or where it was.
LEMMA StillRests ==
  ASSUME Typed, Stops, Still, pc' \in Resting \/ UNCHANGED <<pc, cur, res, row>>
  PROVE  Stops'
<1>1. Bare' /\ Named' /\ Kept'
  BY StillKeeps
<1>2. CASE pc' \in Resting
  BY <1>1, <1>2 DEF Resting, Stops, Buyer, Seller, Buying, Selling, OrderSteps, Early
<1>3. CASE UNCHANGED <<pc, cur, res, row>>
  <2>1. UNCHANGED <<pos, owned, IsExit, Sym>>
    BY <1>3 DEF Still, IsExit, Sym
  <2>2. Buyer'
    BY <1>3, <2>1 DEF Stops, Buyer
  <2>3. Seller'
    BY <1>3, <2>1 DEF Stops, Seller
  <2> QED BY <1>1, <2>2, <2>3 DEF Stops
<1> QED BY <1>2, <1>3

\* What _unknown leaves alone: rows that exist go on to exist.
LEMMA MarkKeeps ==
  ASSUME Typed, Stops, NEW id \in Ids \cup {None}, NEW p \in [Symbols -> Position],
         Unstopped(p), MarkUnknown(id, p)
  PROVE  /\ Unstopped(dpos)'
         /\ \A i \in Ids : row[i] # "none" => row'[i] # "none"
<1>1. Persist(p, TRUE) /\ row' = IF id = None THEN row ELSE [row EXCEPT ![id] = "unknown"]
  BY DEF MarkUnknown
<1>2. Unstopped(dpos)'
  BY <1>1, PersistUnstopped DEF Stops, Bare
<1> QED BY <1>1, <1>2 DEF Typed, Values

\* An exit, or a square-off between two exits, is still while it ends.
LEMMA AbsorbedStill ==
  ASSUME Typed, Stops, cur \in Ids, pc # "down", Absorbed,
         UNCHANGED <<pos, owned>>,
         \A i \in Ids : Working(prot[i])' => Working(prot[i])
  PROVE  /\ Still
         /\ pc' \in {"idle", "sq"} \/ (~IsExit /\ pc' = "final" /\ cur' = cur)
<1>1. pos \in [Symbols -> Position] /\ Unstopped(pos)
  BY DEF Typed, Values, Stops, Bare
<1>2. /\ MarkUnknown(cur, pos) \/ MarkUnknown(None, pos)
      /\ pc' \in {"idle", "sq"} \/ (~IsExit /\ pc' = "final" /\ cur' = cur)
  BY DEF Absorbed, EndOp
<1>3. /\ Unstopped(dpos)'
      /\ \A i \in Ids : row[i] # "none" => row'[i] # "none"
  BY <1>1, <1>2, MarkKeeps
<1> QED BY <1>2, <1>3 DEF Still

-----------------------------------------------------------------------------
(* One lemma per action                                                    *)

\* BeginEntry: an entry begins on an instrument without a position.
LEMMA BeginEntryStops == ASSUME Typed, Stops, NEW e \in Entries, BeginEntry(e) PROVE Stops'
<1>1. Still
  BY DEF BeginEntry, Still, Stops, Bare, Unstopped, dbVars, brokerVars, history
<1>2. Buyer' /\ Seller'
  BY DEF BeginEntry, Buyer, Seller, Buying, Selling, OrderSteps, Early, IsExit, Sym
<1> QED BY <1>1, <1>2, StillKeeps DEF Stops

\* Check: the entry is blocked, or takes its claim.
LEMMA CheckStops == ASSUME Typed, Stops, Check PROVE Stops'
<1>0. cur \in Entries /\ ~IsExit /\ pc = "check"
  BY DEF Check, Typed, Phase, EntrySteps, IsExit
<1>1. Still
  BY <1>0 DEF Check, EndOp, Still, Stops, Bare, Unstopped, dbVars, brokerVars, history
<1>2. CASE EndOp
  BY <1>1, <1>2, StillRests DEF EndOp, Resting
<1>3. CASE pc' = "intent" /\ UNCHANGED <<callVars, res>>
  <2>1. Buyer' /\ Seller'
    BY <1>0, <1>1, <1>3 DEF Stops, Buyer, Seller, IsExit, Sym, callVars, Still
  <2> QED BY <1>1, <2>1, StillKeeps DEF Stops
<1> QED BY <1>2, <1>3 DEF Check

\* CreatePending: a row is added.
LEMMA CreatePendingStops == ASSUME Typed, Stops, CreatePending PROVE Stops'
<1>0. cur \in Entries /\ ~IsExit /\ pc = "intent"
  BY DEF CreatePending, Typed, Phase, EntrySteps, IsExit
<1>1. Still
  BY <1>0 DEF CreatePending, EndOp, Still, Stops, Bare, Unstopped, Typed, Values, brokerVars
<1>2. CASE EndOp
  BY <1>1, <1>2, StillRests DEF EndOp, Resting
<1>3. CASE pc' = "gate" /\ UNCHANGED <<callVars, res>>
  <2>1. Buyer' /\ Seller'
    BY <1>0, <1>1, <1>3 DEF Stops, Buyer, Buying, Seller, IsExit, Sym, callVars, Still,
       CreatePending
  <2> QED BY <1>1, <2>1, StillKeeps DEF Stops
<1> QED BY <1>2, <1>3 DEF CreatePending

\* LiveGate: the entry is let through, or rejected.
LEMMA LiveGateStops == ASSUME Typed, Stops, LiveGate PROVE Stops'
<1>0. cur \in Entries /\ ~IsExit /\ pc = "gate"
  BY DEF LiveGate, Typed, Phase, EntrySteps, IsExit
<1>1. Still
  BY <1>0 DEF LiveGate, Still, Stops, Bare, Unstopped, dbVars, brokerVars, history
<1>2. Buyer' /\ Seller'
  BY <1>0, <1>1 DEF Stops, Buyer, Buying, OrderSteps, Seller, IsExit, Sym, callVars, Still,
     LiveGate
<1> QED BY <1>1, <1>2, StillKeeps DEF Stops

\* A step within the life of an order: no stop or position changes, and the
\* operation goes on to another step of the same kind.
LEMMA OrderGoesOn ==
  ASSUME Typed, Stops, Still, pc \in OrderSteps, UNCHANGED cur,
         \/ pc' \in OrderSteps \ {"stop", "stopack", "stopcheck"}
         \/ IsExit /\ pc' = "x_close"
         \/ ~IsExit /\ pc' \in {"final"} \cup OrderSteps
         \/ pc \in {"stop", "stopack"} /\ pc' \in OrderSteps /\ res'.filled = res.filled
  PROVE  Stops'
<1>1. UNCHANGED <<pos, owned, IsExit, Sym>> /\ cur \in Ids
  BY DEF Still, IsExit, Sym, Typed, Phase
<1>2. Buyer'
  BY <1>1 DEF Stops, Buyer, Buying, OrderSteps
<1>3. Seller'
  <2> SUFFICES ASSUME IsExit PROVE Seller'
    BY <1>1 DEF Seller
  <2>1. row'[cur] # "none"
    BY <1>1 DEF Stops, Seller, Still, IsExit, Selling
  <2> QED BY <1>1, <2>1 DEF Stops, Seller, Selling, OrderSteps, Early, Typed, Phase
<1> QED BY <1>2, <1>3, StillKeeps DEF Stops

\* Submit: the order is sent.
LEMMA SubmitStops == ASSUME Typed, Stops, Submit PROVE Stops'
<1>1. Still
  BY DEF Submit, Still, Stops, Bare, Unstopped, dbVars, history
<1> QED BY <1>1, OrderGoesOn DEF Submit, OrderSteps, callVars

\* Ack: the broker answers.
LEMMA AckStops == ASSUME Typed, Stops, Ack PROVE Stops'
<1>1. Still
  BY DEF Ack, Still, Stops, Bare, Unstopped, dbVars, brokerVars, history
<1> QED BY <1>1, OrderGoesOn DEF Ack, OrderSteps, callVars

\* SubmitUnknown: the broker does not answer.
LEMMA SubmitUnknownStops == ASSUME Typed, Stops, SubmitUnknown PROVE Stops'
<1>0. cur \in Ids /\ pos \in [Symbols -> Position] /\ pc \in OrderSteps /\ Unstopped(pos)
  BY DEF SubmitUnknown, Typed, Phase, Values, OrderSteps, Stops, Bare
<1>1. Still
  BY <1>0, MarkKeeps DEF SubmitUnknown, OrderSteps, Still, brokerVars
<1> QED BY <1>0, <1>1, OrderGoesOn DEF SubmitUnknown, OrderSteps, callVars

\* UnknownUnsaved: the operation ends with only memory degraded.
LEMMA UnknownUnsavedStops == ASSUME Typed, Stops, UnknownUnsaved PROVE Stops'
<1>1. Still
  BY DEF UnknownUnsaved, MarkUnknownUnsaved, EndOp, Still, Stops, Bare, Unstopped, dbVars,
     brokerVars, OrderSteps
<1> QED BY <1>1, StillRests DEF UnknownUnsaved, EndOp, Resting

\* An absorbed exception leaves the invariant as it is.
LEMMA AbsorbedStops ==
  ASSUME Typed, Stops, pc \in OrderSteps \cup Early, Absorbed, cur \in Ids,
         UNCHANGED <<pos, owned>>,
         \A i \in Ids : Working(prot[i])' => Working(prot[i]),
         ~IsExit => pc \in OrderSteps
  PROVE  Stops'
<1>1. /\ Still
      /\ pc' \in {"idle", "sq"} \/ (~IsExit /\ pc' = "final" /\ cur' = cur)
  BY AbsorbedStill DEF OrderSteps, Early
<1>2. CASE pc' \in {"idle", "sq"}
  BY <1>1, <1>2, StillRests DEF Resting
<1>3. CASE ~IsExit /\ pc' = "final" /\ cur' = cur
  BY <1>1, <1>3, OrderGoesOn
<1> QED BY <1>1, <1>2, <1>3

\* Record: the row says what was sent.
LEMMA RecordStops == ASSUME Typed, Stops, Record PROVE Stops'
<1>0. pc = "record" /\ cur \in Ids /\ UNCHANGED <<pos, owned, prot>>
  BY DEF Record, Typed, Phase, OrderSteps, brokerVars
<1>1. CASE Absorbed
  BY <1>0, <1>1, AbsorbedStops DEF OrderSteps
<1>2. CASE EndOp /\ UNCHANGED <<sweepVars, halted, degraded, dbVars, unlisted>>
  <2>1. Still
    BY <1>0, <1>2 DEF Still, EndOp, Stops, Bare, Unstopped, dbVars
  <2> QED BY <1>2, <2>1, StillRests DEF EndOp, Resting
<1>3. CASE /\ row' = [row EXCEPT ![cur] = IF res.unknown THEN "unknown" ELSE "submitted"]
           /\ pc' = IF res.id THEN "poll" ELSE IF IsExit THEN "x_close" ELSE "final"
           /\ UNCHANGED <<callVars, res, sweepVars, halted, degraded, dpos, dhalt>>
  <2>1. Still
    BY <1>0, <1>3 DEF Still, Stops, Bare, Unstopped, Typed, Values
  <2> QED BY <1>0, <1>3, <2>1, OrderGoesOn DEF OrderSteps, callVars
<1> QED BY <1>1, <1>2, <1>3 DEF Record

\* Poll: the order is read back.
LEMMA PollStops == ASSUME Typed, Stops, Poll PROVE Stops'
<1>1. Still
  BY DEF Poll, Settled, Still, Stops, Bare, Unstopped, dbVars, brokerVars, history
<1> QED BY <1>1, OrderGoesOn DEF Poll, Settled, OrderSteps, callVars

\* Cancel: the order is cancelled.
LEMMA CancelStops == ASSUME Typed, Stops, Cancel PROVE Stops'
<1>0. pc = "cancel" /\ cur \in Ids /\ UNCHANGED <<pos, owned, prot>>
  BY DEF Cancel, Typed, Phase, OrderSteps
<1>1. CASE Absorbed
  BY <1>0, <1>1, AbsorbedStops DEF OrderSteps
<1>2. CASE /\ pc' = "status"
           /\ UNCHANGED <<callVars, res, sweepVars, halted, degraded, dbVars, unlisted>>
  <2>1. Still
    BY <1>0, <1>2 DEF Still, Stops, Bare, Unstopped, dbVars
  <2> QED BY <1>0, <1>2, <2>1, OrderGoesOn DEF OrderSteps, callVars
<1> QED BY <1>1, <1>2 DEF Cancel

\* Status: the cancelled order is read back.
LEMMA StatusStops == ASSUME Typed, Stops, Status PROVE Stops'
<1>0. /\ pc = "status" /\ cur \in Ids /\ UNCHANGED <<pos, owned, prot>>
      /\ pos \in [Symbols -> Position] /\ Unstopped(pos)
  BY DEF Status, Typed, Phase, Values, OrderSteps, brokerVars, Stops, Bare
<1>1. Still
  <2>1. CASE UNCHANGED <<dbVars>>
    BY <1>0, <2>1 DEF Status, Settled, EndOp, Still, Stops, Bare, Unstopped, dbVars
  <2>2. CASE MarkUnknown(cur, pos)
    BY <1>0, <2>2, MarkKeeps DEF Status, Settled, EndOp, Still
  <2> QED BY <2>1, <2>2 DEF Status
<1>2. CASE EndOp
  BY <1>1, <1>2, StillRests DEF EndOp, Resting
<1>3. CASE UNCHANGED callVars /\ pc' \in {Settled(res), Settled(res')}
  BY <1>0, <1>1, <1>3, OrderGoesOn DEF callVars, Settled, OrderSteps
<1> QED BY <1>2, <1>3 DEF Status

\* PlaceStop: a stop is sent that the ledger does not know yet.
LEMMA PlaceStopStops == ASSUME Typed, Stops, PlaceStop PROVE Stops'
<1>0. /\ pc = "stop" /\ cur \in Ids /\ owned' = owned \ {cur}
      /\ UNCHANGED <<pos, dpos, row, res, cur>>
  BY DEF PlaceStop, Typed, Phase, OrderSteps, callVars, dbVars
<1>1. \A i \in Ids : i # cur => prot'[i] = prot[i]
  BY <1>0 DEF PlaceStop, Typed, BrokerTypeOK
<1>2. Bare' /\ Kept'
  BY <1>0 DEF Stops, Bare, Unstopped, Kept
<1>3. Named'
  BY <1>0, <1>1 DEF PlaceStop, Stops, Named, Ledger, Typed, Flags
<1>4. Buyer' /\ Seller'
  BY <1>0 DEF PlaceStop, Stops, Buyer, Buying, Seller, Selling, OrderSteps, Early,
     IsExit, Sym
<1> QED BY <1>2, <1>3, <1>4 DEF Stops

\* StopAck: the broker has the stop.
LEMMA StopAckStops == ASSUME Typed, Stops, StopAck PROVE Stops'
<1>0. pc = "stopack" /\ res'.filled = res.filled
  BY DEF StopAck, Typed, Values, Result
<1>1. Still
  BY DEF StopAck, Still, Stops, Bare, Unstopped, dbVars, brokerVars, history
<1> QED BY <1>0, <1>1, OrderGoesOn DEF StopAck, OrderSteps, callVars

\* The stop of a residual becomes that of its position, which had none.
LEMMA AttachedStops ==
  ASSUME Typed, Stops, NEW known \in BOOLEAN, Attached(known),
         pc \in {"stop", "stopack", "stopcheck"},
         UNCHANGED <<cur, prot>>, res'.filled = res.filled, Unstopped(dpos)',
         \A i \in Ids : row[i] # "none" => row'[i] # "none"
  PROVE  Stops'
<1>0. pos \in [Symbols -> Position] /\ cur \in Ids /\ Sym \in Symbols
  BY DEF Typed, Values, Phase, OrderSteps, Sym
<1>1. CASE ~IsExit
  <2>1. Still
    BY <1>1 DEF Attached, Still
  <2>2. Buyer' /\ Seller'
    BY <1>0, <1>1, <2>1 DEF Attached, Stops, Buyer, Buying, Seller, IsExit, Sym, Still, OrderSteps
  <2> QED BY <2>1, <2>2, StillKeeps DEF Stops
<1>2. CASE IsExit
  <2>0. /\ pc' = "x_book" /\ res.filled < pos[Sym].qty /\ pos[Sym].stop = None
        /\ row[cur] # "none" /\ res.filled \in Nat
        /\ pos' = [pos EXCEPT ![Sym].stop = IF known THEN cur ELSE None]
        /\ owned' = IF known THEN owned \cup {cur} ELSE owned
    BY <1>2 DEF Attached, Stops, Seller, Selling, OrderSteps, Typed, Values, Result
  <2>1. /\ pos'[Sym].qty = pos[Sym].qty
        /\ pos'[Sym].stop = IF known THEN cur ELSE None
        /\ \A s \in Symbols : s # Sym => pos'[s] = pos[s]
        /\ pos[Sym].qty # 0
    BY <1>0, <2>0 DEF Position
  <2>2. Bare'
    BY <1>0, <2>1 DEF Stops, Bare, Unstopped
  <2>3. Named'
    <3> SUFFICES ASSUME NEW i \in owned', Working(prot[i])
                 PROVE  pos'[SymbolOf[i]].stop = i
      BY <2>0 DEF Named, Ledger
    <3>1. CASE i \in owned
      <4>1. i \in Ids /\ SymbolOf[i] \in Symbols /\ pos[SymbolOf[i]].stop = i
        BY <3>1 DEF Typed, Flags, Stops, Named, Ledger
      <4>2. SymbolOf[i] # Sym
        BY <2>0, <4>1
      <4> QED BY <2>1, <4>1, <4>2
    <3>2. CASE i \notin owned
      <4>1. i = cur /\ known
        BY <2>0, <3>2
      <4> QED BY <2>1, <4>1 DEF Sym
    <3> QED BY <3>1, <3>2
  <2>4. Kept'
    BY <1>0, <2>0 DEF Stops, Kept
  <2>5. Buyer' /\ Seller'
    BY <1>0, <1>2, <2>0, <2>1 DEF Buyer, Seller, Selling, OrderSteps, Early, IsExit, Sym
  <2> QED BY <2>2, <2>3, <2>4, <2>5 DEF Stops
<1> QED BY <1>1, <1>2

\* StopConfirmed: the stop works.
LEMMA StopConfirmedStops == ASSUME Typed, Stops, StopConfirmed PROVE Stops'
BY AttachedStops DEF StopConfirmed, callVars, dbVars, brokerVars, Stops, Bare, Unstopped

\* StopUnconfirmed: the stop may work.
LEMMA StopUnconfirmedStops == ASSUME Typed, Stops, StopUnconfirmed PROVE Stops'
<1>0. cur \in Ids /\ res.stop \in BOOLEAN /\ res'.filled = res.filled
  BY DEF StopUnconfirmed, Typed, Values, Phase, OrderSteps, Result
<1>1. pos \in [Symbols -> Position] /\ Unstopped(pos)
  BY DEF Typed, Values, Stops, Bare
<1>2. /\ Unstopped(dpos)'
      /\ \A i \in Ids : row[i] # "none" => row'[i] # "none"
  BY <1>0, <1>1, MarkKeeps DEF StopUnconfirmed
<1> QED BY <1>0, <1>2, AttachedStops DEF StopUnconfirmed, callVars, brokerVars

\* RecordFinal: the entry goes on to its fill, or ends.
LEMMA RecordFinalStops == ASSUME Typed, Stops, RecordFinal PROVE Stops'
<1>0. /\ pc = "final" /\ cur \in Entries /\ ~IsExit /\ row \in [Ids -> RowStatus]
  BY DEF RecordFinal, Typed, Phase, Values, EntrySteps, IsExit
<1>1. Still
  <2>1. RowOf(res) # "none"
    BY DEF RowOf
  <2> QED BY <1>0, <2>1 DEF RecordFinal, EndOp, Still, Stops, Bare, Unstopped, brokerVars
<1>2. CASE EndOp
  BY <1>1, <1>2, StillRests DEF EndOp, Resting
<1>3. CASE ToBook /\ pc' = "fill" /\ UNCHANGED <<callVars, res>>
  <2>1. Buyer' /\ Seller'
    BY <1>0, <1>1, <1>3 DEF ToBook, Stops, Buyer, Buying, Seller, IsExit, Sym, callVars, Still
  <2> QED BY <1>1, <2>1, StillKeeps DEF Stops
<1> QED BY <1>2, <1>3 DEF RecordFinal

\* RecordFill: the position an entry opens names the entry's stop.
LEMMA RecordFillStops == ASSUME Typed, Stops, RecordFill PROVE Stops'
<1>0. /\ pc = "fill" /\ pc' = "commit" /\ cur \in Entries /\ ~IsExit /\ Sym \in Symbols
      /\ pos[Sym].qty = 0 /\ res.filled > 0
      /\ pos \in [Symbols -> Position]
  BY DEF RecordFill, Typed, Phase, Values, EntrySteps, IsExit, Sym, Stops, Buyer, Buying
<1>1. /\ pos'[Sym].qty = res.filled
      /\ pos'[Sym].stop = IF res.stop THEN cur ELSE None
      /\ \A s \in Symbols : s # Sym => pos'[s] = pos[s]
      /\ owned' = IF res.stop THEN owned \cup {cur} ELSE owned
      /\ UNCHANGED <<dpos, row, prot>>
  BY <1>0 DEF RecordFill, dbVars, brokerVars
<1>2. res.filled # 0 /\ pos[Sym].stop = None
  BY <1>0 DEF Stops, Bare, Unstopped, Typed, Values, Result
<1>3. Bare'
  BY <1>0, <1>1, <1>2 DEF Stops, Bare, Unstopped
<1>4. Named'
  <2> SUFFICES ASSUME NEW i \in owned', Working(prot[i])
               PROVE  pos'[SymbolOf[i]].stop = i
    BY <1>0, <1>1 DEF Named, Ledger
  <2>1. CASE i \in owned
    <3>1. i \in Ids /\ SymbolOf[i] \in Symbols /\ pos[SymbolOf[i]].stop = i
      BY <1>0, <2>1 DEF Typed, Flags, Stops, Named, Ledger
    <3> QED BY <1>1, <1>2, <3>1
  <2>2. CASE i \notin owned
    BY <1>1, <2>2 DEF Sym
  <2> QED BY <2>1, <2>2
<1>5. Kept'
  BY <1>0, <1>1 DEF Stops, Kept
<1>6. Buyer' /\ Seller'
  BY <1>0 DEF Buyer, Buying, Seller, Selling, OrderSteps, Early
<1> QED BY <1>3, <1>4, <1>5, <1>6 DEF Stops

\* CommitFill: the database has the position, or not.
LEMMA CommitFillStops == ASSUME Typed, Stops, CommitFill PROVE Stops'
<1>0. /\ pc = "commit" /\ cur \in Entries /\ Sym \in Symbols
      /\ pos \in [Symbols -> Position] /\ Unstopped(pos)
  BY DEF CommitFill, Typed, Phase, Values, EntrySteps, Sym, Stops, Bare
<1>1. Unstopped(dpos)'
  <2>1. CASE UNCHANGED dpos
    BY <2>1 DEF Stops, Bare, Unstopped
  <2>2. CASE dpos' = [Saved(pos) EXCEPT ![Sym] = pos[Sym]]
    BY <1>0, <2>2, SavedUnstopped, SavedTyped DEF Stops, Bare, Unstopped
  <2> QED BY <2>1, <2>2 DEF CommitFill
<1>2. Still
  BY <1>0, <1>1 DEF CommitFill, EndOp, Still, brokerVars, history
<1> QED BY <1>2, StillRests DEF CommitFill, EndOp, Resting

\* AnalysisTimeout: the entry is cut off at its await.
LEMMA AnalysisTimeoutStops == ASSUME Typed, Stops, AnalysisTimeout PROVE Stops'
<1>0. UNCHANGED <<pos, owned, prot>>
  BY DEF AnalysisTimeout, brokerVars
<1>1. CASE EndOp /\ pc \in {"check", "intent", "gate", "final", "commit", "record", "fill"}
  <2>1. Unstopped(dpos)' /\ \A i \in Ids : row[i] # "none" => row'[i] # "none"
    BY <1>1 DEF AnalysisTimeout, Absorbed, EndOp, Stops, Bare, Unstopped, dbVars, Typed, Values
  <2>2. Still
    BY <1>0, <1>1, <2>1 DEF Still, EndOp
  <2> QED BY <1>1, <2>2, StillRests DEF EndOp, Resting
<1>2. CASE pc \in {"poll", "cancel", "status", "stop", "stopack", "stopcheck"} /\ Absorbed
  BY <1>0, <1>2, AbsorbedStops DEF OrderSteps, Typed, Phase
<1> QED BY <1>1, <1>2 DEF AnalysisTimeout

\* BeginExit: a new id, which no stop has had.
LEMMA BeginExitStops == ASSUME Typed, Stops, NEW x \in Exits, BeginExit(x) PROVE Stops'
<1>0. /\ cur' = x /\ pc \in {"idle", "sq"} /\ x \notin owned /\ x \in Ids
      /\ pc' = IF pos[SymbolOf[x]].stop # None THEN "x_stop" ELSE "x_qty"
      /\ row' = [row EXCEPT ![x] = "pending"] /\ row \in [Ids -> RowStatus]
      /\ UNCHANGED <<pos, owned, prot, dpos>>
  BY DEF BeginExit, Typed, Values, Stops, Kept, brokerVars, history
<1>1. Still
  BY <1>0 DEF Still, Stops, Bare, Unstopped
<1>2. Buyer' /\ Seller'
  BY <1>0 DEF Buyer, Seller, Selling, OrderSteps, Early, IsExit, Sym
<1> QED BY <1>1, <1>2, StillKeeps DEF Stops

\* BeginExitDbDown: the exit does not begin.
LEMMA BeginExitDbDownStops ==
  ASSUME Typed, Stops, NEW s \in Symbols, BeginExitDbDown(s) PROVE Stops'
<1>1. Still
  BY DEF BeginExitDbDown, MarkUnknownUnsaved, Still, Stops, Bare, Unstopped, dbVars, brokerVars
<1> QED BY <1>1, StillRests DEF BeginExitDbDown, MarkUnknownUnsaved, callVars, dbVars

\* CancelStop: the stop of the position is cancelled, or is not.
LEMMA CancelStopStops == ASSUME Typed, Stops, CancelStop PROVE Stops'
<1>0. /\ pc = "x_stop" /\ cur \in Exits /\ cur \in Ids /\ IsExit
      /\ UNCHANGED <<pos, owned>>
      /\ Sym \in Symbols /\ pos[Sym].stop \in Ids
  BY DEF CancelStop, Typed, Phase, ExitOnly, IsExit, Values, Position, Sym
<1>1. \A i \in Ids : Working(prot[i])' => Working(prot[i])
  <2>1. prot \in [Ids -> BrokerOrder] /\ prot[pos[Sym].stop] \in BrokerOrder
    BY <1>0 DEF Typed, BrokerTypeOK
  <2> QED BY <1>0, <2>1 DEF CancelStop, BrokerOrder, Working
<1>2. CASE Absorbed
  BY <1>0, <1>1, <1>2, AbsorbedStops DEF Early
<1>3. CASE /\ pc' = "x_stopstatus"
           /\ UNCHANGED <<callVars, res, sweepVars, halted, degraded, dbVars, unlisted>>
  <2>1. Still
    BY <1>0, <1>1, <1>3 DEF Still, Stops, Bare, Unstopped, dbVars
  <2>2. Buyer' /\ Seller'
    BY <1>0, <1>3 DEF Stops, Buyer, Seller, Selling, Early, OrderSteps, IsExit, callVars, dbVars
  <2> QED BY <2>1, <2>2, StillKeeps DEF Stops
<1> QED BY <1>2, <1>3 DEF CancelStop

\* StopStatus: the position gives up its stop only when the stop is over.
LEMMA StopStatusStops == ASSUME Typed, Stops, StopStatus PROVE Stops'
<1>0. /\ pc = "x_stopstatus" /\ cur \in Exits /\ cur \in Ids /\ IsExit
      /\ UNCHANGED <<owned, prot>>
      /\ Sym \in Symbols /\ pos[Sym].stop \in Ids
      /\ pos \in [Symbols -> Position] /\ Unstopped(pos)
  BY DEF StopStatus, Typed, Phase, ExitOnly, IsExit, Values, Position, Sym, brokerVars,
     Stops, Bare
<1> DEFINE bare == [pos EXCEPT ![Sym].stop = None]
<1>1. CASE MarkUnknown(cur, pos) /\ EndOp /\ UNCHANGED pos
  <2>1. Still
    BY <1>0, <1>1, MarkKeeps DEF EndOp, Still
  <2> QED BY <1>1, <2>1, StillRests DEF EndOp, Resting
<1>2. CASE /\ prot[pos[Sym].stop].st \in Terminal /\ pos' = bare
           /\ UNCHANGED callVars
           /\ \/ pc' = "x_qty" /\ UNCHANGED dbVars
              \/ pc' = "x_book" /\ MarkUnknown(cur, bare)
  <2>1. /\ bare \in [Symbols -> Position] /\ Unstopped(bare)
        /\ bare[Sym].stop = None
        /\ \A s \in Symbols : s # Sym => bare[s] = pos[s]
    BY <1>0 DEF Position, Unstopped
  <2> HIDE DEF bare
  <2>2. /\ Unstopped(dpos)'
        /\ \A i \in Ids : row[i] # "none" => row'[i] # "none"
    BY <1>0, <1>2, <2>1, MarkKeeps DEF dbVars, Stops, Bare, Unstopped
  <2>3. Bare'
    BY <1>2, <2>1, <2>2 DEF Bare, Unstopped
  <2>4. Named'
    <3> SUFFICES ASSUME NEW i \in owned, Working(prot[i])
                 PROVE  bare[SymbolOf[i]].stop = i
      BY <1>0, <1>2 DEF Named, Ledger
    <3>1. i \in Ids /\ SymbolOf[i] \in Symbols /\ pos[SymbolOf[i]].stop = i
      BY <1>0 DEF Typed, Flags, Stops, Named, Ledger
    <3>2. SymbolOf[i] # Sym
      BY <1>2, <3>1 DEF Working, Terminal
    <3> QED BY <2>1, <3>1, <3>2
  <2>5. Kept'
    BY <1>0, <2>2 DEF Stops, Kept
  <2>6. Buyer' /\ Seller'
    <3>1. row'[cur] # "none" /\ cur \notin owned
      BY <1>0, <2>2 DEF Stops, Seller, Early
    <3> QED BY <1>0, <1>2, <2>1, <3>1 DEF Buyer, Seller, Selling, OrderSteps, Early,
       IsExit, Sym, callVars
  <2> QED BY <2>3, <2>4, <2>5, <2>6 DEF Stops
<1> QED BY <1>1, <1>2 DEF StopStatus

\* CheckQuantity: the quantities agree, or nothing is sold.
LEMMA CheckQuantityStops == ASSUME Typed, Stops, CheckQuantity PROVE Stops'
<1>0. /\ pc = "x_qty" /\ cur \in Exits /\ cur \in Ids /\ IsExit
      /\ UNCHANGED <<pos, owned, prot>>
      /\ pos \in [Symbols -> Position] /\ Unstopped(pos)
  BY DEF CheckQuantity, Typed, Phase, ExitOnly, IsExit, Values, brokerVars, Stops, Bare
<1>1. CASE Absorbed
  BY <1>0, <1>1, AbsorbedStops DEF Early
<1>2. CASE MarkUnknown(cur, pos) /\ EndOp
  <2>1. Still
    BY <1>0, <1>2, MarkKeeps DEF EndOp, Still
  <2> QED BY <1>2, <2>1, StillRests DEF EndOp, Resting
<1>3. CASE pc' = "submit" /\ UNCHANGED <<callVars, dbVars>>
  <2>1. Still
    BY <1>0, <1>3 DEF Still, Stops, Bare, Unstopped, dbVars
  <2>2. Buyer' /\ Seller'
    BY <1>0, <1>3 DEF Stops, Buyer, Seller, Selling, Early, IsExit, Sym, callVars, dbVars
  <2> QED BY <2>1, <2>2, StillKeeps DEF Stops
<1> QED BY <1>1, <1>2, <1>3 DEF CheckQuantity

\* CloseExit: the exit's row is finished, and a residual is protected again.
LEMMA CloseExitStops == ASSUME Typed, Stops, CloseExit PROVE Stops'
<1>0. /\ pc = "x_close" /\ cur \in Exits /\ cur \in Ids /\ IsExit
      /\ UNCHANGED <<pos, owned, prot, cur, res>>
      /\ pos \in [Symbols -> Position] /\ Unstopped(pos)
      /\ Sym \in Symbols /\ pos[Sym].qty \in Nat /\ res.filled \in Nat
  BY DEF CloseExit, Typed, Phase, ExitOnly, IsExit, Values, brokerVars, Stops, Bare,
     callVars, Position, Result, Sym
<1>1. Still /\ pc' \in {"x_book", "stop"} /\ (pc' = "stop" => pos[Sym].qty > res.filled)
  <2>1. CASE MarkUnknown(cur, pos) /\ pc' = "x_book"
    BY <1>0, <2>1, MarkKeeps DEF Still
  <2>2. CASE /\ row' = [row EXCEPT ![cur] = "closed"]
             /\ pc' = IF pos[Sym].qty > res.filled THEN "stop" ELSE "x_book"
             /\ UNCHANGED dpos
    BY <1>0, <2>2 DEF Still, Stops, Bare, Unstopped, Typed, Values
  <2> QED BY <2>1, <2>2 DEF CloseExit
<1>2. Buyer'
  BY <1>0 DEF Buyer, IsExit
<1>3. Seller'
  <2>1. row'[cur] # "none" /\ cur \notin owned /\ pos[Sym].stop = None
    BY <1>0, <1>1 DEF Stops, Seller, Selling, Still
  <2>2. pc' = "stop" => res.filled < pos[Sym].qty
    BY <1>0, <1>1
  <2> QED BY <1>0, <1>1, <2>1, <2>2 DEF Seller, Selling, OrderSteps, Early, IsExit, Sym
<1> QED BY <1>1, <1>2, <1>3, StillKeeps DEF Stops

\* BookExit: a position sold to the last unit has no stop any more.
LEMMA BookExitStops == ASSUME Typed, Stops, BookExit PROVE Stops'
<1>0. /\ pc = "x_book" /\ cur \in Exits /\ IsExit /\ Sym \in Symbols
      /\ UNCHANGED <<owned, prot, row, dpos>>
      /\ pos \in [Symbols -> Position] /\ pos[Sym].qty \in Nat /\ res.filled \in Nat
  BY DEF BookExit, Typed, Phase, ExitOnly, IsExit, Values, Position, Result, Sym,
     brokerVars, dbVars, history
<1>1. CASE EndOp /\ UNCHANGED pos
  <2>1. Still
    BY <1>0, <1>1 DEF EndOp, Still, Stops, Bare, Unstopped
  <2> QED BY <1>1, <2>1, StillRests DEF EndOp, Resting
<1>2. CASE /\ res.filled <= pos[Sym].qty /\ pc' = "x_commit"
           /\ pos' = [pos EXCEPT ![Sym] = IF @.qty = res.filled THEN NoPosition
                                 ELSE [qty |-> @.qty - res.filled, stop |-> @.stop]]
  <2>1. /\ \A s \in Symbols : s # Sym => pos'[s] = pos[s]
        /\ pos'[Sym].stop = pos[Sym].stop \/ (pos'[Sym].stop = None /\ pos[Sym].stop = None)
        /\ pos'[Sym].qty = 0 => pos'[Sym].stop = None
    <3>1. CASE pos[Sym].qty = res.filled
      BY <1>0, <1>2, <3>1 DEF NoPosition, Stops, Seller
    <3>2. CASE pos[Sym].qty # res.filled
      BY <1>0, <1>2, <3>2
    <3> QED BY <3>1, <3>2
  <2>2. Bare'
    BY <1>0, <2>1 DEF Stops, Bare, Unstopped
  <2>3. \A i \in owned : SymbolOf[i] \in Symbols
    BY DEF Typed, Flags
  <2>4. Named' /\ Kept'
    BY <1>0, <1>2, <2>1, <2>3 DEF Stops, Named, Ledger, Kept
  <2>5. Buyer' /\ Seller'
    BY <1>2 DEF Buyer, Buying, Seller, Selling, OrderSteps, Early
  <2> QED BY <2>2, <2>4, <2>5 DEF Stops
<1> QED BY <1>1, <1>2 DEF BookExit

\* CommitExit: the database follows the ledger, or not.
LEMMA CommitExitStops == ASSUME Typed, Stops, CommitExit PROVE Stops'
<1>0. /\ pc = "x_commit" /\ Sym \in Symbols
      /\ pos \in [Symbols -> Position] /\ Unstopped(pos)
  BY DEF CommitExit, Typed, Phase, Values, Sym, Stops, Bare
<1>1. Unstopped(dpos)'
  <2>1. CASE UNCHANGED dpos
    BY <2>1 DEF Stops, Bare, Unstopped
  <2>2. CASE dpos' = [Saved(pos) EXCEPT ![Sym] = pos[Sym]]
    BY <1>0, <2>2, SavedUnstopped, SavedTyped DEF Stops, Bare, Unstopped
  <2> QED BY <2>1, <2>2 DEF CommitExit
<1>2. Still
  BY <1>0, <1>1 DEF CommitExit, EndOp, Still, brokerVars, history
<1> QED BY <1>2, StillRests DEF CommitExit, EndOp, Resting

\* CloseRow: the row of an entry is closed.
LEMMA CloseRowStops == ASSUME Typed, Stops, CloseRow PROVE Stops'
<1>1. \A i \in Ids : row[i] # "none" => row'[i] # "none"
  BY DEF CloseRow, OpenRows, Typed, Values
<1>2. Still
  BY <1>1 DEF CloseRow, EndOp, Still, Stops, Bare, Unstopped, brokerVars
<1> QED BY <1>2, StillRests DEF CloseRow, EndOp, Resting

\* BookStop: the stop that has sold the position is over.
LEMMA BookStopStops == ASSUME Typed, Stops, NEW s \in Symbols, BookStop(s) PROVE Stops'
<1>0. /\ pc = "idle" /\ pc' = "x_commit" /\ pos \in [Symbols -> Position]
      /\ pos' = [pos EXCEPT ![s] = NoPosition]
      /\ pos[s].stop # None /\ prot[pos[s].stop].st = "complete"
      /\ UNCHANGED <<owned, prot, row, dpos>>
  BY DEF BookStop, SoldByStop, Typed, Values, brokerVars, dbVars, history
<1>1. Bare'
  BY <1>0 DEF Stops, Bare, Unstopped, NoPosition
<1>2. Named'
  <2> SUFFICES ASSUME NEW i \in owned, Working(prot[i])
               PROVE  pos'[SymbolOf[i]].stop = i
    BY <1>0 DEF Named, Ledger
  <2>1. i \in Ids /\ SymbolOf[i] \in Symbols /\ pos[SymbolOf[i]].stop = i
    BY <1>0 DEF Typed, Flags, Stops, Named, Ledger
  <2>2. SymbolOf[i] # s
    BY <1>0, <2>1 DEF Working
  <2> QED BY <1>0, <2>1, <2>2
<1>3. Kept' /\ Buyer' /\ Seller'
  BY <1>0 DEF Stops, Kept, Buyer, Buying, Seller, Selling, OrderSteps, Early
<1> QED BY <1>1, <1>2, <1>3 DEF Stops

\* Crash: the ledger forgets a stop that the database does not have.
LEMMA CrashStops == ASSUME Typed, Stops, Crash PROVE Stops'
<1>0. /\ pc # "down" /\ pc' = "down" /\ UNCHANGED <<pos, dpos, prot, row>>
      /\ owned' = owned \ {pos[s].stop : s \in {t \in Symbols : pos[t].stop # dpos[t].stop}}
  BY DEF Crash, brokerVars, dbVars
<1>1. Bare' /\ Kept'
  BY <1>0 DEF Stops, Bare, Unstopped, Kept
<1>2. Named'
  <2> SUFFICES ASSUME NEW i \in owned', Working(prot[i])
               PROVE  dpos[SymbolOf[i]].stop = i
    BY <1>0 DEF Named, Ledger
  <2>1. i \in owned /\ SymbolOf[i] \in Symbols /\ pos[SymbolOf[i]].stop = i
    BY <1>0 DEF Typed, Flags, Stops, Named, Ledger
  <2> QED BY <1>0, <2>1
<1>3. Buyer' /\ Seller'
  BY <1>0 DEF Buyer, Buying, Seller, Selling, OrderSteps, Early
<1> QED BY <1>1, <1>2, <1>3 DEF Stops

\* Restart: the ledger is that of the database.
LEMMA RestartStops == ASSUME Typed, Stops, Restart PROVE Stops'
<1>0. /\ pc = "down" /\ pc' = "recovering" /\ pos' = dpos
      /\ UNCHANGED <<dpos, owned, prot, row>>
  BY DEF Restart, brokerVars, dbVars, history
<1>1. Bare' /\ Kept' /\ Named'
  BY <1>0 DEF Stops, Bare, Unstopped, Kept, Named, Ledger
<1>2. Buyer' /\ Seller'
  BY <1>0 DEF Buyer, Buying, Seller, Selling, OrderSteps, Early
<1> QED BY <1>1, <1>2 DEF Stops

\* Outside: the broker sends no stop of its own.
LEMMA OutsideStops == ASSUME Typed, Stops, Outside PROVE Stops'
<1>0. /\ UNCHANGED <<pc, cur, res, row, pos, dpos, owned>>
      /\ owned \subseteq Ids
  BY DEF Outside, callVars, dbVars, history, Typed, Flags
<1>1. \A i \in Ids : Working(prot[i])' => Working(prot[i])
  <2>1. prot \in [Ids -> BrokerOrder]
    BY DEF Typed, BrokerTypeOK
  <2>2. PICK j \in Ids : Arrive(j) \/ FillMarket(j) \/ FillStop(j) \/ Withdraw(j)
    BY DEF Outside, BrokerNext
  <2>3. /\ \A i \in Ids : i # j => prot'[i] = prot[i]
        /\ prot'[j] # prot[j] => Working(prot[j])
    BY <2>1, <2>2 DEF Arrive, FillMarket, FillStop, Withdraw, Working
  <2> QED BY <2>3
<1>2. Bare' /\ Kept' /\ Named'
  BY <1>0, <1>1 DEF Stops, Bare, Unstopped, Kept, Named, Ledger
<1>3. UNCHANGED <<IsExit, Sym>>
  BY <1>0 DEF IsExit, Sym
<1>4. Buyer' /\ Seller'
  BY <1>0, <1>3 DEF Stops, Buyer, Seller
<1> QED BY <1>2, <1>4 DEF Stops

\* The steps that touch neither the operation nor the stops.
LEMMA ElsewhereStops ==
  ASSUME Typed, Stops,
         \/ \E s \in Symbols : SkipExit(s) \/ StopProblem(s)
         \/ BeginSquareOff \/ EndSquareOff \/ BrokerDoubt \/ Halt \/ Resume
         \/ BeginRetry \/ Compare \/ Apply
  PROVE  Stops'
<1>0. pos \in [Symbols -> Position] /\ Unstopped(pos) /\ Unstopped(dpos)
  BY DEF Typed, Values, Stops, Bare
<1>1. UNCHANGED <<pos, owned, prot, row, cur, res>>
  BY DEF SkipExit, StopProblem, BeginSquareOff, EndSquareOff, BrokerDoubt, Halt, Resume,
     BeginRetry, Compare, Apply, callVars, brokerVars, dbVars, history
<1>2. Unstopped(dpos)'
  <2>1. UNCHANGED dpos \/ \E h \in BOOLEAN : Persist(pos, h)
    BY DEF SkipExit, StopProblem, BeginSquareOff, EndSquareOff, BrokerDoubt, Halt, Resume,
       BeginRetry, Compare, Apply, dbVars
  <2> QED BY <1>0, <2>1, PersistUnstopped DEF Unstopped
<1>3. UNCHANGED pc \/ (pc # "down" /\ pc' \in {"idle", "sq"})
  BY DEF SkipExit, StopProblem, BeginSquareOff, EndSquareOff, BrokerDoubt, Halt, Resume,
     BeginRetry, Compare, Apply
<1>4. CASE pc # "down"
  BY <1>1, <1>2, <1>3, <1>4, StillRests DEF Still, Resting
<1>5. CASE pc = "down"
  <2>1. Compare \/ Apply
    BY <1>5 DEF SkipExit, StopProblem, BeginSquareOff, EndSquareOff, BrokerDoubt, Halt,
       Resume, BeginRetry
  <2>2. UNCHANGED <<pc, dpos>>
    BY <1>5, <2>1 DEF Compare, Apply, dbVars
  <2> QED BY <1>1, <1>5, <2>2 DEF Stops, Bare, Unstopped, Named, Ledger, Kept, Buyer,
     Buying, Seller, Selling, OrderSteps, Early
<1> QED BY <1>4, <1>5

-----------------------------------------------------------------------------
(* The theorems                                                            *)

\* The process starts without positions and stops.
LEMMA InitStops == Init => Stops /\ SellAlone /\ OneSell /\ FlatRest
BY DEF Init, BrokerInit, NoOrder, NoPosition, Working, Stops, Bare, Unstopped, Named, Kept,
   Buyer, Buying, Seller, Selling, OrderSteps, Early, SellAlone, OneSell, FlatRest

\* A step that changes nothing keeps the invariants.
LEMMA StutterStops ==
  ASSUME UNCHANGED vars, Stops, SellAlone, OneSell
  PROVE  Stops' /\ SellAlone' /\ OneSell'
<1>1. UNCHANGED <<pc, cur, res, row, pos, dpos, owned, mkt, prot, IsExit, Sym, Ledger>>
  BY DEF vars, callVars, dbVars, brokerVars, history, IsExit, Sym, Ledger
<1> QED BY <1>1 DEF Stops, Bare, Unstopped, Named, Kept, Buyer, Seller, SellAlone, OneSell,
   Over, Working

\* Every step of the system keeps what the ledger knows of its stops.
LEMMA NextStops == ASSUME Typed, Stops, Next PROVE Stops'
<1>1. CASE OrderStep
  BY <1>1, SubmitStops, AckStops, SubmitUnknownStops, RecordStops, PollStops,
     CancelStops, StatusStops, PlaceStopStops, StopAckStops, StopConfirmedStops,
     StopUnconfirmedStops DEF OrderStep
<1>2. CASE EntryStep
  BY <1>2, CheckStops, CreatePendingStops, LiveGateStops, RecordFinalStops,
     RecordFillStops, CommitFillStops DEF EntryStep
<1>3. CASE ExitStep
  BY <1>3, CancelStopStops, StopStatusStops, CheckQuantityStops, CloseExitStops,
     BookExitStops, CommitExitStops, CloseRowStops DEF ExitStep
<1>4. CASE Sweep
  BY <1>4, BeginExitStops, BeginExitDbDownStops, ElsewhereStops DEF Sweep
<1>5. CASE Locked
  BY <1>1, <1>2, <1>3, <1>4, <1>5, BeginEntryStops, BeginExitStops, BookStopStops,
     BeginExitDbDownStops, UnknownUnsavedStops, ElsewhereStops DEF Locked, Lifecycle
<1>6. CASE Unlocked
  BY <1>6, AnalysisTimeoutStops, CrashStops, RestartStops, ElsewhereStops DEF Unlocked
<1>7. CASE Outside
  BY <1>7, OutsideStops
<1> QED BY <1>5, <1>6, <1>7 DEF Next

\* The invariants hold of every behaviour.
LEMMA StopsHold == Spec => [](Typed /\ Intent /\ Stops /\ SellAlone /\ OneSell)
<1>1. Init => Stops /\ SellAlone /\ OneSell
  BY InitStops
<1>2. Typed /\ Intent /\ (Stops /\ SellAlone /\ OneSell) /\ [Next]_vars
        => (Stops /\ SellAlone /\ OneSell)'
  BY NextStops, SellAloneStep, OneSellStep, StutterStops
<1> QED BY <1>1, <1>2, IntentHolds, PTL DEF Spec

\* However exits overlap, fail or are left behind by a crash, at most one market
\* sell order of an instrument may trade: place_exit asks the rows of the others
\* under the lock, and an order that may trade has an unfinished row.  Of stops
\* see SellAfterStopsHolds and NoShortHolds.
THEOREM OneSellHolds == Spec => []OneSell
BY StopsHold, PTL

\* No sell order is sent while a stop the ledger has named may still sell:
\* place_exit gives the stop up only when the broker says that it is over.  Of
\* entries see the bound OneRow.
THEOREM SellAfterStopsHolds == Spec => SellAfterStops
<1>1. Typed /\ Stops /\ [Next]_vars =>
        [pc = "submit" /\ pc' = "ack" /\ IsExit =>
           \A i \in owned : SymbolOf[i] = Sym => ~Working(prot[i])]_vars
  <2> SUFFICES ASSUME Typed, Stops, pc = "submit", IsExit,
                      NEW i \in owned, SymbolOf[i] = Sym, Working(prot[i])
               PROVE  FALSE
    OBVIOUS
  <2>1. pos[Sym].stop = None
    BY DEF Stops, Seller, Selling, OrderSteps
  <2>2. pos[Sym].stop = i /\ i \in Ids
    BY DEF Stops, Named, Ledger, Typed, Flags
  <2> QED BY <2>1, <2>2
<1> QED BY <1>1, StopsHold, PTL DEF Spec, SellAfterStops

\* After a square-off reported ok, and until an entry begins, no market order may
\* still trade, and no stop that the ledger has named: the report waits for every
\* row to be finished, and for a ledger without positions, which names no stop.
\* A stop whose answer was lost is left out: no row and no position names it.
THEOREM FlatNoOrdersHolds == Spec => []FlatNoOrders
<1>1. Init => FlatRest
  BY InitStops
<1>2. FlatRest /\ [Next]_vars => FlatRest'
  BY NextFlat
<1>3. Typed /\ Intent /\ Stops /\ FlatRest => FlatNoOrders
  <2> SUFFICES ASSUME Typed, Intent, Stops, FlatRest, flat, NEW i \in Ids
               PROVE  /\ Working(mkt[i]) => i \in unlisted
                      /\ Working(prot[i]) => i \notin owned
    BY DEF FlatNoOrders
  <2>1. Working(mkt[i]) => i \in unlisted
    BY DEF Intent, DurableIntent, FlatRest
  <2>2. pc = "idle" /\ SymbolOf[i] \in Symbols /\ pos[SymbolOf[i]].stop = None
    BY DEF FlatRest, Stops, Bare, Unstopped
  <2>3. Working(prot[i]) => i \notin owned
    BY <2>2 DEF Stops, Named, Ledger
  <2> QED BY <2>1, <2>3
<1> QED BY <1>1, <1>2, <1>3, StopsHold, PTL DEF Spec

-----------------------------------------------------------------------------
(* The account is never net short: what the operation knows of its orders  *)

\* NoShort is inductive once it says how much each sell may still take.  Three
\* things carry it: a stop id is used once (Once), the answer in hand is what the
\* broker executed (Answer), and of the orders that may sell an instrument only
\* one works (Sole).  Room then bounds what that one may sell by what is held.

\* The order has been sent, and its stop has not.
Asked == {"ack", "record", "poll", "cancel", "status", "stop"}

\* A stop is sent at most once for an id: the row stays, and so does the claim of
\* an entry, unless Redis did not keep it.
Once == /\ \A i \in Ids : prot[i].st = "none" => prot[i].filled = 0
        /\ \A e \in Entries : prot[e].st # "none" => e \in claims \cup unclaimed
        /\ \A i \in Ids : prot[i].st # "none" => row[i] # "none"

\* An entry whose order is out has a claim and a row.
Holding == {"intent", "gate"} \cup OrderSteps
Held == ~IsExit /\ pc \in Holding =>
          cur \in claims \cup unclaimed /\ (pc # "intent" => row[cur] # "none")

\* No stop of the id was sent, or the id is used again.
Fresh(i) == prot[i].st = "none" \/ Again(i)

\* What an operation knows of its stop ...
StopAnswer ==
  /\ pc \in Ready \cup Early \cup Asked \cup {"x_close"} =>
       Fresh(cur) \/ (pc = "intent" /\ cur \in unclaimed)
  /\ pc \in Asked \cup {"x_close", "stopack"} => ~res.stop
  /\ pc \in {"stop", "stopack", "stopcheck"} /\ ~IsExit => res.status # "REJECTED"
  /\ pc = "final" /\ res.status = "REJECTED" => Fresh(cur) /\ ~res.stop

\* ... and of the quantity its order has executed.
FillAnswer ==
  /\ pc \in Asked => res.filled <= mkt[cur].filled
  /\ pc = "x_close" => \/ res.unknown \/ res.status = "SUBMITTED"
                       \/ Over(cur) /\ res.filled = mkt[cur].filled
  /\ pc \in {"stop", "stopack", "stopcheck"} /\ IsExit =>
       Over(cur) /\ res.filled = mkt[cur].filled

Answers == Once /\ Held /\ StopAnswer /\ FillAnswer

\* Steps of which Answers says nothing.
Idle == {"idle", "sq", "down", "recovering", "check", "fill", "commit", "x_book",
         "x_commit", "x_rowclose"}

\* A step that sends no stop and forgets no id.
Spares == /\ \A i \in Ids : /\ prot[i].st = "none" => prot'[i] = prot[i]
                            /\ prot[i].st # "none" => prot'[i].st # "none"
          /\ \A i \in Ids : row[i] # "none" => row'[i] # "none"
          /\ unclaimed \subseteq unclaimed' /\ unclaimed \cap unlisted \subseteq unlisted'
          /\ \A e \in Entries : e \in claims =>
               e \in claims' \cup unclaimed' \/ (pc = "final" /\ prot[e].st = "none")

LEMMA SparesOnce == ASSUME Answers, Spares PROVE Once'
BY DEF Answers, Once, Spares

LEMMA SparesFresh == ASSUME Spares, NEW i \in Ids, Fresh(i) PROVE Fresh(i)'
BY DEF Spares, Fresh, Again

\* An entry holds its claim and its row while it goes on.
LEMMA SparesHeld ==
  ASSUME Typed, Answers, Spares,
         \/ pc' \notin Holding \/ IsExit'
         \/ UNCHANGED cur /\ (UNCHANGED pc \/ pc \in Holding \ {"intent"})
  PROVE  Held'
<1> SUFFICES ASSUME ~IsExit', pc' \in Holding,
                    UNCHANGED cur, UNCHANGED pc \/ pc \in Holding \ {"intent"}
             PROVE  Held'
  BY DEF Held
<1>1. pc \in Holding /\ ~IsExit /\ cur \in Entries
  BY DEF IsExit, Typed, Phase, Holding, EntrySteps, OrderSteps
<1>2. cur \in claims \cup unclaimed /\ (pc # "intent" => row[cur] # "none")
  BY <1>1 DEF Answers, Held
<1>3. cur \in claims' \cup unclaimed'
  BY <1>1, <1>2 DEF Spares, Holding, OrderSteps
<1>4. pc' # "intent" => row'[cur] # "none"
  BY <1>1, <1>2 DEF Spares
<1> QED BY <1>3, <1>4 DEF Held

\* Such a step keeps the ids as they are ...
LEMMA SparesKeep ==
  ASSUME Typed, Answers, Spares
  PROVE  /\ Once' /\ \A i \in Ids : Fresh(i) => Fresh(i)'
         /\ \/ pc' \notin Holding \/ IsExit'
            \/ UNCHANGED cur /\ (UNCHANGED pc \/ pc \in Holding \ {"intent"})
            => Held'
BY SparesOnce, SparesHeld, SparesFresh

\* ... and all of Answers when the operation is at a step of which it says
\* nothing, or where it was.
LEMMA SparesRest ==
  ASSUME Typed, Answers, Spares,
         \/ pc' \in Idle
         \/ UNCHANGED <<pc, cur, res, mkt>>
  PROVE  Answers'
<1>1. Once' /\ Held'
  BY SparesOnce, SparesHeld DEF Idle, Holding, OrderSteps
<1>2. CASE pc' \in Idle
  BY <1>1, <1>2 DEF Idle, Answers, StopAnswer, FillAnswer, Ready, Early, Asked
<1>3. CASE UNCHANGED <<pc, cur, res, mkt>>
  <2>1. UNCHANGED IsExit /\ (pc \in Ready \cup Early \cup Asked \cup {"x_close", "final"} => cur \in Ids)
    BY <1>3 DEF IsExit, Typed, Phase, Ready, Early, Asked, EntrySteps, ExitOnly, OrderSteps
  <2>2. StopAnswer'
    BY <1>3, <2>1, SparesFresh DEF Answers, StopAnswer, Spares
  <2>3. FillAnswer'
    BY <1>3, <2>1 DEF Answers, FillAnswer, Over
  <2> QED BY <1>1, <2>2, <2>3 DEF Answers
<1> QED BY <1>2, <1>3

\* An absorbed exception leaves an entry with what it knew.
LEMMA AbsorbedAnswers ==
  ASSUME Typed, Answers, Spares, Absorbed, cur \in Ids
  PROVE  Answers'
<1>1. CASE EndOp
  BY <1>1, SparesRest DEF EndOp, Idle
<1>2. CASE pc' = "final" /\ res' = [res EXCEPT !.status = "SUBMITTED", !.unknown = TRUE]
  <2>1. res'.status = "SUBMITTED"
    BY <1>2 DEF Typed, Values, Result
  <2> QED BY <1>2, <2>1, SparesKeep
     DEF Holding, OrderSteps, Answers, StopAnswer, FillAnswer, Ready, Early, Asked
<1> QED BY <1>1, <1>2 DEF Absorbed

\* _unknown forgets no id.
LEMMA MarkSpares ==
  ASSUME Typed, NEW id \in Ids \cup {None}, NEW p, MarkUnknown(id, p),
         UNCHANGED <<prot, claimVars>>
  PROVE  Spares
BY DEF MarkUnknown, Spares, Typed, Values

\* Check: a claim that is free is that of an id without a stop, or one Redis did
\* not keep.
LEMMA CheckAnswers == ASSUME Typed, Answers, Check PROVE Answers'
<1>0. pc = "check" /\ cur \in Entries /\ UNCHANGED <<row, unlisted, prot>> /\ ~IsExit
  BY DEF Check, Typed, Phase, EntrySteps, IsExit, dbVars, brokerVars, history
<1>1. CASE EndOp
  <2>1. Spares
    BY <1>0, <1>1 DEF Check, Claim, Spares
  <2> QED BY <1>1, <2>1, SparesRest DEF EndOp, Idle
<1>2. CASE ~EntryBlocked /\ Claim(cur) /\ pc' = "intent" /\ UNCHANGED <<callVars, res>>
  <2>1. /\ cur \in claims' \cup unclaimed' /\ claims \subseteq claims'
        /\ unclaimed \subseteq unclaimed'
        /\ cur \in claims => cur \in unclaimed'
    BY <1>2 DEF Claim
  <2>2. Spares
    BY <1>0, <2>1 DEF Spares
  <2>3. cur' = cur /\ Once' /\ Held'
    BY <1>0, <1>2, <2>1, <2>2, SparesOnce DEF Held, IsExit, callVars
  <2>4. prot'[cur].st = "none" \/ cur \in unclaimed'
    BY <1>0, <2>1 DEF Answers, Once
  <2>5. StopAnswer' /\ FillAnswer'
    BY <1>2, <2>3, <2>4 DEF StopAnswer, FillAnswer, Fresh, Ready, Early, Asked
  <2> QED BY <2>3, <2>5 DEF Answers
<1> QED BY <1>1, <1>2 DEF Check

\* CreatePending: the row is there, or the entry ends.
LEMMA CreatePendingAnswers == ASSUME Typed, Answers, CreatePending PROVE Answers'
<1>0. /\ pc = "intent" /\ cur \in Entries /\ ~IsExit /\ UNCHANGED <<prot, claimVars>>
      /\ row \in [Ids -> RowStatus]
  BY DEF CreatePending, Typed, Values, Phase, EntrySteps, IsExit, brokerVars
<1>1. Spares
  BY <1>0 DEF CreatePending, Spares
<1>2. CASE EndOp
  BY <1>1, <1>2, SparesRest DEF EndOp, Idle
<1>3. CASE /\ row' = [row EXCEPT ![cur] = IF @ = "none" THEN "pending" ELSE @]
           /\ unlisted' = IF row[cur] = "none" THEN unlisted ELSE unlisted \cup {cur}
           /\ pc' = "gate" /\ UNCHANGED <<callVars, res>>
  <2>1. row'[cur] # "none" /\ cur' = cur /\ ~IsExit'
    BY <1>0, <1>3 DEF callVars, IsExit
  <2>2. Once' /\ Held'
    BY <1>0, <1>1, <2>1, SparesOnce DEF Answers, Held, Holding
  <2>3. Fresh(cur)'
    BY <1>0, <1>3, <2>1 DEF Answers, Once, StopAnswer, Fresh, Again, Ready
  <2>4. StopAnswer' /\ FillAnswer'
    BY <1>3, <2>1, <2>3 DEF StopAnswer, FillAnswer, Ready, Early, Asked
  <2> QED BY <2>2, <2>4 DEF Answers
<1> QED BY <1>2, <1>3 DEF CreatePending

\* LiveGate: nothing has been sent.
LEMMA LiveGateAnswers == ASSUME Typed, Intent, Answers, LiveGate PROVE Answers'
<1>1. Spares
  BY DEF LiveGate, Spares, brokerVars, dbVars, history
<1>2. pc = "gate" /\ res = NoResult /\ cur \in Ids
  BY DEF LiveGate, Intent, Before, Ready, Typed, Phase, EntrySteps
<1> QED BY <1>1, <1>2, SparesKeep
   DEF Holding, OrderSteps, LiveGate, Answers, StopAnswer, FillAnswer, Ready,
   Early, Asked, NoResult, callVars, brokerVars

\* Submit: the new order has executed nothing.
LEMMA SubmitAnswers == ASSUME Typed, Intent, Answers, Submit PROVE Answers'
<1>1. Spares
  BY DEF Submit, Spares, dbVars, history
<1>2. /\ pc = "submit" /\ pc' = "ack" /\ res = NoResult /\ cur \in Ids
      /\ UNCHANGED <<cur, res, prot>> /\ mkt'[cur].filled = 0
  BY DEF Submit, Intent, Before, Ready, Typed, Phase, OrderSteps, BrokerTypeOK, Sent, callVars
<1> QED BY <1>1, <1>2, SparesKeep
   DEF Holding, OrderSteps, Answers, StopAnswer, FillAnswer, Ready, Early,
   Asked, NoResult

\* A step from one wait for the order to the next that learns nothing more.
LEMMA WaitsOn ==
  ASSUME Typed, Answers, Spares, pc \in Asked \ {"stop"}, pc' \in Asked \ {"stop"},
         UNCHANGED <<cur, prot, res>>, mkt'[cur].filled = mkt[cur].filled
  PROVE  Answers'
<1>1. cur \in Ids
  BY DEF Typed, Phase, Asked, OrderSteps
<1>2. Once' /\ Held' /\ Fresh(cur)'
  BY <1>1, SparesKeep DEF Holding, OrderSteps, Asked, Answers, StopAnswer
<1>3. StopAnswer' /\ FillAnswer'
  BY <1>2 DEF Answers, StopAnswer, FillAnswer, Asked, Ready, Early
<1> QED BY <1>2, <1>3 DEF Answers

\* Ack: the order has an id, and no stop.
LEMMA AckAnswers == ASSUME Typed, Answers, Ack PROVE Answers'
<1>1. Spares
  BY DEF Ack, Spares, dbVars, brokerVars, history
<1>2. pc = "ack" /\ pc' = "record" /\ UNCHANGED <<cur, prot, mkt>> /\ cur \in Ids
      /\ res'.filled = res.filled /\ res'.stop = res.stop
  BY DEF Ack, Typed, Values, Phase, OrderSteps, Result, callVars, brokerVars
<1> QED BY <1>1, <1>2, SparesKeep
   DEF Holding, OrderSteps, Answers, StopAnswer, FillAnswer, Asked, Ready, Early

\* SubmitUnknown: no answer, and no stop.
LEMMA SubmitUnknownAnswers == ASSUME Typed, Intent, Answers, SubmitUnknown PROVE Answers'
<1>0. cur \in Ids /\ res = NoResult /\ mkt[cur].filled \in Nat
  BY OrderTyped DEF SubmitUnknown, Typed, Phase, OrderSteps, BrokerTypeOK, Intent, Before, Ready
<1>1. Spares
  BY <1>0, MarkSpares DEF SubmitUnknown, brokerVars
<1>2. pc' = "record" /\ UNCHANGED <<cur, prot, mkt>> /\ res'.filled = 0 /\ ~res'.stop
  BY <1>0 DEF SubmitUnknown, NoResult, callVars, brokerVars
<1> QED BY <1>0, <1>1, <1>2, SparesKeep
   DEF Holding, OrderSteps, SubmitUnknown, Answers, StopAnswer, FillAnswer,
   Asked, Ready, Early

\* Record: the operation waits on, or ends.
LEMMA RecordAnswers == ASSUME Typed, Intent, Answers, Record PROVE Answers'
<1>0. pc = "record" /\ cur \in Ids /\ UNCHANGED <<prot, mkt, claimVars>>
  BY DEF Record, Typed, Phase, OrderSteps, brokerVars
<1>1. Spares
  BY <1>0 DEF Record, Absorbed, MarkUnknown, Spares, dbVars, Typed, Values
<1>2. CASE Absorbed
  BY <1>0, <1>1, <1>2, AbsorbedAnswers
<1>3. CASE EndOp
  BY <1>1, <1>3, SparesRest DEF EndOp, Idle
<1>4. CASE /\ pc' = IF res.id THEN "poll" ELSE IF IsExit THEN "x_close" ELSE "final"
           /\ UNCHANGED <<callVars, res>>
  <2>1. res.status = "SUBMITTED"
    BY <1>0 DEF Intent, After
  <2> QED BY <1>0, <1>1, <1>4, <2>1, SparesKeep
     DEF Holding, OrderSteps, Answers, StopAnswer, FillAnswer,
     Asked, Ready, Early, callVars
<1> QED BY <1>2, <1>3, <1>4 DEF Record

\* What a read-back of the order leaves in hand.
LEMMA ReadBack ==
  ASSUME Typed, Answers, Spares, pc \in {"poll", "status"}, UNCHANGED <<cur, prot, mkt>>,
         res' \in Result, res'.stop = res.stop,
         \/ pc' = "cancel" /\ res'.filled <= mkt[cur].filled
         \/ /\ pc' = Settled(res') /\ Over(cur) /\ res'.filled = mkt[cur].filled
            /\ res'.status = "REJECTED" <=> res'.filled = 0
         \/ /\ pc' = Settled(res') /\ ~IsExit /\ res'.filled = res.filled
            /\ res'.status # "REJECTED"
  PROVE  Answers'
<1>0. /\ cur \in Ids /\ mkt[cur].filled \in Nat /\ res'.filled \in Nat
      /\ pc = "poll" \/ pc = "status"
      /\ res.filled <= mkt[cur].filled /\ ~res'.stop /\ Fresh(cur)
  BY OrderTyped DEF Typed, Phase, OrderSteps, BrokerTypeOK, Result, Answers, StopAnswer,
     FillAnswer, Asked
<1>1. pc' \in {"cancel", "x_close", "stop", "final"} /\ UNCHANGED IsExit
  BY DEF Settled, IsExit
<1>2. Once' /\ Held' /\ Fresh(cur)'
  BY <1>0, SparesKeep DEF Holding, OrderSteps
<1>3. StopAnswer'
  BY <1>0, <1>1, <1>2 DEF StopAnswer, Asked, Ready, Early, Settled
<1>4. FillAnswer'
  BY <1>0, <1>1 DEF FillAnswer, Asked, Settled, Over
<1> QED BY <1>2, <1>3, <1>4 DEF Answers

\* Poll: a final answer says what was executed.
LEMMA PollAnswers == ASSUME Typed, Intent, Answers, Poll PROVE Answers'
<1>0. /\ pc = "poll" /\ cur \in Ids /\ UNCHANGED <<cur, prot, mkt>> /\ res \in Result
      /\ mkt[cur] \in BrokerOrder /\ mkt[cur].filled \in Nat
      /\ res.filled <= mkt[cur].filled
  BY OrderTyped DEF Poll, Typed, Values, Phase, OrderSteps, BrokerTypeOK, callVars, brokerVars,
     Answers, FillAnswer, Asked
<1>1. Spares
  BY <1>0 DEF Poll, Spares, dbVars, history
<1>2. CASE /\ mkt[cur].st \in Terminal /\ mkt[cur].filled > 0
           /\ res' = [res EXCEPT !.status = "FILLED", !.filled = mkt[cur].filled]
           /\ pc' = Settled(res')
  <2>1. /\ res' \in Result /\ res'.stop = res.stop /\ res'.filled = mkt[cur].filled
        /\ res'.status = "FILLED"
    BY <1>0, <1>2 DEF Result
  <2>2. Over(cur) /\ mkt[cur].filled # 0
    BY <1>0, <1>2 DEF Over, Working, Terminal
  <2> QED BY <1>0, <1>1, <1>2, <2>1, <2>2, ReadBack
<1>3. CASE /\ mkt[cur].st \in {"cancelled", "rejected"} /\ mkt[cur].filled = 0
           /\ res' = [res EXCEPT !.status = "REJECTED"]
           /\ pc' = Settled(res')
  <2>1. /\ res' \in Result /\ res'.stop = res.stop /\ res'.filled = res.filled
        /\ res'.status = "REJECTED"
    BY <1>0, <1>3 DEF Result
  <2>2. Over(cur) /\ res.filled = 0
    BY <1>0, <1>3 DEF Over, Working, Result
  <2> QED BY <1>0, <1>1, <1>3, <2>1, <2>2, ReadBack
<1>4. CASE /\ res' = [res EXCEPT !.status = "PARTIAL", !.filled = mkt[cur].filled]
           /\ pc' = "cancel"
  <2>1. res' \in Result /\ res'.stop = res.stop /\ res'.filled = mkt[cur].filled
    BY <1>0, <1>4 DEF Result
  <2> QED BY <1>0, <1>1, <1>4, <2>1, ReadBack
<1>5. CASE (\E u \in BOOLEAN : res' = [res EXCEPT !.unknown = u]) /\ pc' = "cancel"
  <2>1. res' \in Result /\ res'.stop = res.stop /\ res'.filled = res.filled
    BY <1>0, <1>5 DEF Result
  <2> QED BY <1>0, <1>1, <1>5, <2>1, ReadBack
<1>6. CASE res' = [res EXCEPT !.status = "FAILED"] /\ pc' = "cancel"
  <2>1. res' \in Result /\ res'.stop = res.stop /\ res'.filled = res.filled
    BY <1>0, <1>6 DEF Result
  <2> QED BY <1>0, <1>1, <1>6, <2>1, ReadBack
<1> QED BY <1>2, <1>3, <1>4, <1>5, <1>6 DEF Poll

\* Cancel: no quantity changes.
LEMMA CancelAnswers == ASSUME Typed, Answers, Cancel PROVE Answers'
<1>0. /\ pc = "cancel" /\ cur \in Ids /\ UNCHANGED <<prot, claimVars>>
      /\ mkt \in [Ids -> BrokerOrder] /\ mkt[cur] \in BrokerOrder
  BY DEF Cancel, Typed, Phase, OrderSteps, BrokerTypeOK
<1>1. Spares
  BY <1>0 DEF Cancel, Absorbed, MarkUnknown, Spares, dbVars, Typed, Values
<1>2. CASE Absorbed
  BY <1>0, <1>1, <1>2, AbsorbedAnswers
<1>3. CASE pc' = "status" /\ UNCHANGED <<callVars, res>>
           /\ mkt' \in {mkt, [mkt EXCEPT ![cur].st = IF @ = "open" THEN "cancelled" ELSE @]}
  <2>1. mkt'[cur].filled = mkt[cur].filled
    BY <1>0, <1>3 DEF BrokerOrder
  <2> QED BY <1>0, <1>1, <1>3, <2>1, WaitsOn DEF Asked, callVars
<1> QED BY <1>2, <1>3 DEF Cancel

\* Status: a final answer says what was executed.
LEMMA StatusAnswers == ASSUME Typed, Intent, Answers, Status PROVE Answers'
<1>0. /\ pc = "status" /\ cur \in Ids /\ UNCHANGED <<prot, mkt, claimVars>> /\ res \in Result
      /\ mkt[cur].filled \in Nat /\ res.status # "REJECTED"
  BY OrderTyped DEF Status, Typed, Values, Phase, OrderSteps, BrokerTypeOK, brokerVars,
     Intent, After
<1>1. Spares
  BY <1>0 DEF Status, MarkUnknown, Spares, dbVars, Typed, Values
<1>2. CASE EndOp
  BY <1>1, <1>2, SparesRest DEF EndOp, Idle
<1>3. CASE /\ mkt[cur].st \in Terminal
           /\ res' = [res EXCEPT !.filled = mkt[cur].filled, !.status =
                        IF mkt[cur].filled = 0 THEN "REJECTED"
                        ELSE IF IsExit THEN "PARTIAL" ELSE "FILLED"]
           /\ pc' = Settled(res') /\ UNCHANGED callVars
  <2>1. /\ res' \in Result /\ res'.stop = res.stop /\ res'.filled = mkt[cur].filled
        /\ res'.status = "REJECTED" <=> res'.filled = 0
    BY <1>0, <1>3 DEF Result
  <2>2. Over(cur)
    BY <1>3 DEF Over, Working, Terminal
  <2> QED BY <1>0, <1>1, <1>3, <2>1, <2>2, ReadBack DEF callVars
<1>4. CASE /\ ~IsExit /\ res' = [res EXCEPT !.unknown = TRUE] /\ pc' = Settled(res)
           /\ UNCHANGED callVars
  <2>1. /\ res' \in Result /\ res'.stop = res.stop /\ res'.filled = res.filled
        /\ res'.status = res.status
    BY <1>0, <1>4 DEF Result
  <2>2. Settled(res) = Settled(res')
    BY <2>1 DEF Settled
  <2> QED BY <1>0, <1>1, <1>4, <2>1, <2>2, ReadBack DEF callVars
<1> QED BY <1>2, <1>3, <1>4 DEF Status

\* PlaceStop: the id has a stop now, and keeps its claim or row.
LEMMA PlaceStopAnswers == ASSUME Typed, Stops, Answers, PlaceStop PROVE Answers'
<1>0. /\ pc = "stop" /\ pc' = "stopack" /\ cur \in Ids
      /\ UNCHANGED <<cur, res, mkt, claimVars, row>>
      /\ \A i \in Ids : i # cur => prot'[i] = prot[i]
      /\ prot'[cur].st = "transit"
      /\ row[cur] # "none" /\ (~IsExit => cur \in claims \cup unclaimed)
  BY DEF PlaceStop, Typed, Phase, BrokerTypeOK, OrderSteps, Sent, callVars, dbVars,
     Stops, Seller, Selling, Answers, Held, Holding
<1>1. Once' /\ Held'
  BY <1>0 DEF Answers, Once, Held, IsExit
<1> QED BY <1>0, <1>1 DEF Answers, StopAnswer, FillAnswer, Asked, Ready, Early, IsExit, Over

\* StopAck: the stop has an id.
LEMMA StopAckAnswers == ASSUME Typed, Answers, StopAck PROVE Answers'
<1>1. Spares
  BY DEF StopAck, Spares, dbVars, brokerVars, history
<1>2. pc = "stopack" /\ pc' = "stopcheck" /\ UNCHANGED <<cur, mkt>>
      /\ res'.filled = res.filled /\ res'.status = res.status
  BY DEF StopAck, Typed, Values, Result, callVars, brokerVars
<1> QED BY <1>1, <1>2, SparesKeep
   DEF Holding, OrderSteps, Answers, StopAnswer, FillAnswer, Asked, Ready, Early,
   IsExit, Over

\* StopConfirmed, StopUnconfirmed: the entry's result is not a rejection.
LEMMA StopCheckedAnswers ==
  ASSUME Typed, Answers, StopConfirmed \/ StopUnconfirmed PROVE Answers'
<1>0. /\ pc \in {"stop", "stopack", "stopcheck"} /\ cur \in Ids
      /\ UNCHANGED <<cur, prot, mkt, claimVars>>
      /\ pc' = IF IsExit THEN "x_book" ELSE "final"
      /\ res'.status = res.status
  BY DEF StopConfirmed, StopUnconfirmed, Attached, Typed, Phase, Values, Result, OrderSteps,
     callVars, brokerVars
<1>1. Spares
  <2>1. CASE StopConfirmed
    BY <1>0, <2>1 DEF StopConfirmed, Spares, dbVars
  <2>2. CASE StopUnconfirmed
    BY <1>0, <2>2, MarkSpares DEF StopUnconfirmed
  <2> QED BY <2>1, <2>2
<1>2. CASE IsExit
  BY <1>0, <1>1, <1>2, SparesRest DEF Idle
<1>3. CASE ~IsExit
  BY <1>0, <1>1, <1>3, SparesKeep
     DEF Holding, OrderSteps, Answers, StopAnswer, FillAnswer, Asked, Ready, Early, IsExit
<1> QED BY <1>2, <1>3

\* RecordFinal: the claim of a rejected entry is that of an id without a stop, or
\* one used again.
LEMMA RecordFinalAnswers == ASSUME Typed, Answers, RecordFinal PROVE Answers'
<1>0. /\ pc = "final" /\ cur \in Entries /\ UNCHANGED prot
      /\ row \in [Ids -> RowStatus] /\ RowOf(res) # "none"
  BY DEF RecordFinal, Typed, Phase, Values, EntrySteps, brokerVars, RowOf
<1>1. /\ unclaimed \subseteq unclaimed' /\ unclaimed \cap unlisted \subseteq unlisted'
      /\ claims \ {cur} \subseteq claims'
      /\ res.status \in {"REJECTED", "FAILED"} \/ claims \subseteq claims'
      /\ res.status = "FAILED" => cur \in unclaimed' \/ claims \subseteq claims'
  BY DEF RecordFinal, Released
<1>2. res.status = "REJECTED" => prot[cur].st = "none" \/ cur \in unclaimed
  BY <1>0 DEF Answers, StopAnswer, Fresh, Again
<1>3. Spares
  <2>1. \A i \in Ids : row[i] # "none" => row'[i] # "none"
    BY <1>0 DEF RecordFinal
  <2>2. ASSUME NEW e \in claims, e \in Entries
        PROVE  e \in claims' \cup unclaimed' \/ prot[e].st = "none"
    BY <1>1, <1>2, <2>2
  <2> QED BY <1>0, <1>1, <2>1, <2>2 DEF Spares
<1>4. pc' \in Idle
  BY DEF RecordFinal, EndOp, Idle
<1> QED BY <1>3, <1>4, SparesRest

\* AnalysisTimeout: the entry ends, or keeps what it knew.
LEMMA AnalysisTimeoutAnswers == ASSUME Typed, Answers, AnalysisTimeout PROVE Answers'
<1>1. Spares
  BY DEF AnalysisTimeout, Absorbed, EndOp, MarkUnknown, Spares, dbVars, brokerVars, Typed, Values
<1>2. CASE EndOp
  BY <1>1, <1>2, SparesRest DEF EndOp, Idle
<1>3. CASE pc \in {"poll", "cancel", "status", "stop", "stopack", "stopcheck"} /\ Absorbed
  BY <1>1, <1>3, AbsorbedAnswers DEF Typed, Phase, OrderSteps
<1> QED BY <1>2, <1>3 DEF AnalysisTimeout

\* BeginExit: a new id has no stop.
LEMMA BeginExitAnswers == ASSUME Typed, Answers, NEW x \in Exits, BeginExit(x) PROVE Answers'
<1>0. /\ cur' = x /\ row[x] = "none" /\ Fresh(x) /\ UNCHANGED prot
      /\ pc' \in {"x_stop", "x_qty"}
  BY DEF BeginExit, brokerVars, Answers, Once, Fresh
<1>1. Spares
  BY <1>0 DEF BeginExit, Spares, Typed, Values, history
<1> QED BY <1>0, <1>1, SparesKeep
   DEF Holding, OrderSteps, Answers, StopAnswer, FillAnswer, Asked, Ready, Early

\* CancelStop: the position's stop is not that of the exit.
LEMMA CancelStopAnswers == ASSUME Typed, Answers, CancelStop PROVE Answers'
<1>0. /\ pc = "x_stop" /\ cur \in Ids /\ UNCHANGED <<mkt, claimVars>>
      /\ prot \in [Ids -> BrokerOrder]
      /\ pos[Sym].stop \in Ids
  BY DEF CancelStop, Typed, Phase, ExitOnly, BrokerTypeOK, Values, Position, Sym
<1>1. Spares
  <2>1. \A i \in Ids : /\ prot[i].st = "none" => prot'[i] = prot[i]
                       /\ prot[i].st # "none" => prot'[i].st # "none"
    <3>1. CASE UNCHANGED prot
      BY <3>1
    <3>2. CASE \E st \in {"cancelled", "open"} :
                 prot' = [prot EXCEPT ![pos[Sym].stop].st = IF @ = "open" THEN st ELSE @]
      <4>1. prot[pos[Sym].stop] \in BrokerOrder
        BY <1>0
      <4>2. CASE prot[pos[Sym].stop].st = "open"
        BY <1>0, <3>2, <4>1, <4>2 DEF BrokerOrder
      <4>3. CASE prot[pos[Sym].stop].st # "open"
        BY <1>0, <3>2, <4>1, <4>3 DEF BrokerOrder
      <4> QED BY <4>2, <4>3
    <3> QED BY <3>1, <3>2 DEF CancelStop
  <2> QED BY <1>0, <2>1 DEF CancelStop, Absorbed, MarkUnknown, Spares, dbVars, Typed, Values
<1>2. CASE Absorbed
  BY <1>0, <1>1, <1>2, AbsorbedAnswers
<1>3. CASE pc' = "x_stopstatus" /\ UNCHANGED callVars
  <2>1. Fresh(cur) /\ IsExit /\ cur' = cur
    BY <1>0, <1>3 DEF Answers, StopAnswer, Early, Typed, Phase, ExitOnly, IsExit, callVars
  <2>2. Once' /\ Held' /\ Fresh(cur)'
    BY <1>0, <1>1, <2>1, SparesKeep DEF IsExit
  <2> QED BY <1>3, <2>1, <2>2 DEF Answers, StopAnswer, FillAnswer, Asked, Ready, Early
<1> QED BY <1>2, <1>3 DEF CancelStop

\* StopStatus, CheckQuantity: nothing is sent yet.
LEMMA EarlyAnswers ==
  ASSUME Typed, Answers, StopStatus \/ CheckQuantity PROVE Answers'
<1>0. pc \in Early /\ cur \in Ids /\ UNCHANGED <<prot, claimVars>>
  BY DEF StopStatus, CheckQuantity, Typed, Phase, ExitOnly, Early, brokerVars
<1>1. Spares
  BY <1>0 DEF StopStatus, CheckQuantity, Absorbed, MarkUnknown, Spares, dbVars, Typed, Values
<1>2. CASE EndOp \/ pc' = "x_book"
  BY <1>1, <1>2, SparesRest DEF EndOp, Idle
<1>3. CASE Absorbed
  BY <1>0, <1>1, <1>3, AbsorbedAnswers
<1>4. CASE pc' \in {"x_qty", "submit"} /\ UNCHANGED callVars
  <2>1. Fresh(cur) /\ IsExit /\ cur' = cur
    BY <1>0, <1>4 DEF Answers, StopAnswer, Early, Typed, Phase, ExitOnly, IsExit, callVars
  <2>2. Once' /\ Held' /\ Fresh(cur)'
    BY <1>0, <1>1, <2>1, SparesKeep DEF IsExit
  <2> QED BY <1>4, <2>1, <2>2 DEF Answers, StopAnswer, FillAnswer, Asked, Ready, Early
<1> QED BY <1>2, <1>3, <1>4 DEF StopStatus, CheckQuantity

\* CloseExit: the residual's stop is placed only on a final answer.
LEMMA CloseExitAnswers == ASSUME Typed, Answers, CloseExit PROVE Answers'
<1>0. pc = "x_close" /\ cur \in Ids /\ IsExit /\ UNCHANGED <<prot, claimVars, mkt, cur, res>>
  BY DEF CloseExit, Typed, Phase, ExitOnly, IsExit, brokerVars, callVars
<1>1. Spares
  BY <1>0 DEF CloseExit, MarkUnknown, Spares, Typed, Values
<1>2. CASE pc' = "x_book"
  BY <1>1, <1>2, SparesRest DEF Idle
<1>3. CASE pc' = "stop" /\ ~(res.unknown \/ res.status = "SUBMITTED")
  <2>1. Over(cur) /\ res.filled = mkt[cur].filled /\ mkt[cur].filled \in Nat
    BY <1>0, <1>3, OrderTyped DEF Answers, FillAnswer, Typed, BrokerTypeOK
  <2> QED BY <1>0, <1>1, <1>3, <2>1, SparesKeep
     DEF Holding, OrderSteps, Answers, StopAnswer, FillAnswer, Asked,
     Ready, Early, IsExit, Over
<1> QED BY <1>2, <1>3 DEF CloseExit

\* A step of the broker: one order, which works, changes its state or executes
\* one unit more.
LEMMA BrokerStep ==
  ASSUME Typed, NEW j \in Ids, Arrive(j) \/ FillMarket(j) \/ FillStop(j) \/ Withdraw(j)
  PROVE  /\ \A i \in Ids : i # j => mkt'[i] = mkt[i] /\ prot'[i] = prot[i]
         /\ mkt'[j] = mkt[j] \/ (Working(mkt[j]) /\ mkt'[j].qty = mkt[j].qty)
         /\ \/ prot'[j] = prot[j]
            \/ Working(prot[j]) /\ prot'[j].st # "none" /\ prot'[j].qty = prot[j].qty
         /\ \/ /\ mkt'[j].filled = mkt[j].filled /\ prot'[j].filled = prot[j].filled
               /\ UNCHANGED held
            \/ /\ FillMarket(j) /\ mkt'[j].filled = mkt[j].filled + 1 /\ UNCHANGED prot
               /\ mkt[j].filled < mkt[j].qty
            \/ /\ FillStop(j) /\ prot'[j].filled = prot[j].filled + 1 /\ UNCHANGED mkt
               /\ prot[j].filled < prot[j].qty
<1>1. /\ mkt \in [Ids -> BrokerOrder] /\ prot \in [Ids -> BrokerOrder]
      /\ mkt[j] \in BrokerOrder /\ prot[j] \in BrokerOrder
  BY DEF Typed, BrokerTypeOK
<1>2. \A o \in BrokerOrder : /\ \A st \in OrderState : /\ [o EXCEPT !.st = st].st = st
                                                      /\ [o EXCEPT !.st = st].qty = o.qty
                                                      /\ [o EXCEPT !.st = st].filled = o.filled
                             /\ Executed(o).qty = o.qty /\ Executed(o).filled = o.filled + 1
                             /\ Executed(o).st \in {"complete", o.st}
  BY DEF BrokerOrder, Executed
<1>3. CASE \E st \in OrderState \ {"none"} :
             Working(mkt[j]) /\ mkt' = [mkt EXCEPT ![j].st = st] /\ UNCHANGED <<prot, held>>
  <2>1. PICK st \in OrderState \ {"none"} :
          Working(mkt[j]) /\ mkt' = [mkt EXCEPT ![j].st = st] /\ UNCHANGED <<prot, held>>
    BY <1>3
  <2>2. mkt'[j] = [mkt[j] EXCEPT !.st = st]
    BY <1>1, <2>1
  <2> QED BY <1>1, <1>2, <2>1, <2>2
<1>6. CASE \E st \in OrderState \ {"none"} :
             Working(prot[j]) /\ prot' = [prot EXCEPT ![j].st = st] /\ UNCHANGED <<mkt, held>>
  <2>1. PICK st \in OrderState \ {"none"} :
          Working(prot[j]) /\ prot' = [prot EXCEPT ![j].st = st] /\ UNCHANGED <<mkt, held>>
    BY <1>6
  <2>2. prot'[j] = [prot[j] EXCEPT !.st = st]
    BY <1>1, <2>1
  <2> QED BY <1>1, <1>2, <2>1, <2>2
<1>7. CASE Arrive(j)
  BY <1>3, <1>6, <1>7 DEF Arrive, Working, OrderState
<1>8. CASE Withdraw(j)
  BY <1>3, <1>6, <1>8 DEF Withdraw, Working, OrderState
<1>4. CASE FillMarket(j)
  <2>1. mkt'[j] = Executed(mkt[j])
    BY <1>1, <1>4 DEF FillMarket
  <2> QED BY <1>1, <1>2, <1>4, <2>1 DEF FillMarket, Working
<1>5. CASE FillStop(j)
  <2>1. prot'[j] = Executed(prot[j])
    BY <1>1, <1>5 DEF FillStop
  <2> QED BY <1>1, <1>2, <1>5, <2>1 DEF FillStop, Working
<1> QED BY <1>4, <1>5, <1>7, <1>8

\* Outside: the broker executes an order that works, and sends nothing.
LEMMA OutsideAnswers == ASSUME Typed, Answers, Outside PROVE Answers'
<1>0. UNCHANGED <<pc, cur, res, row, claimVars, unlisted, IsExit>>
  BY DEF Outside, callVars, dbVars, history, IsExit
<1>1. PICK j \in Ids : Arrive(j) \/ FillMarket(j) \/ FillStop(j) \/ Withdraw(j)
  BY DEF Outside, BrokerNext
<1>2. /\ mkt \in [Ids -> BrokerOrder] /\ prot \in [Ids -> BrokerOrder]
      /\ mkt[j] \in BrokerOrder /\ prot[j] \in BrokerOrder
      /\ mkt[j].filled \in Nat
  BY OrderTyped DEF Typed, BrokerTypeOK
<1>3. /\ \A i \in Ids : i # j => mkt'[i] = mkt[i] /\ prot'[i] = prot[i]
      /\ mkt'[j] # mkt[j] => Working(mkt[j])
      /\ prot'[j] # prot[j] => Working(prot[j]) /\ prot'[j].st # "none"
      /\ mkt'[j].filled \in {mkt[j].filled, mkt[j].filled + 1}
  BY <1>1, BrokerStep
<1>4. Spares
  BY <1>0, <1>3 DEF Spares, Working
<1>5. pc \in Asked \cup Ready \cup Early \cup {"x_close", "stopack", "stopcheck", "final"} => cur \in Ids
  BY DEF Typed, Phase, Asked, Ready, Early, EntrySteps, ExitOnly, OrderSteps
<1>6. StopAnswer'
  BY <1>0, <1>4, <1>5, SparesFresh DEF Answers, StopAnswer
<1>7. FillAnswer'
  <2>1. cur \in Ids => /\ mkt[cur].filled \in Nat
                       /\ mkt'[cur].filled = mkt[cur].filled \/ mkt'[cur].filled = mkt[cur].filled + 1
                       /\ Over(cur) => mkt'[cur] = mkt[cur]
    BY <1>2, <1>3, OrderTyped DEF Over
  <2>2. res.filled \in Nat
    BY DEF Typed, Values, Result
  <2> QED BY <1>0, <1>5, <2>1, <2>2 DEF Answers, FillAnswer, Over, Asked
<1>8. Once' /\ Held'
  BY <1>0, <1>4, SparesOnce, SparesHeld
<1> QED BY <1>6, <1>7, <1>8 DEF Answers


\* The steps at which the operation begins, books or ends.
LEMMA BookingAnswers ==
  ASSUME Typed, Answers,
         \/ \E e \in Entries : BeginEntry(e)
         \/ \E s \in Symbols : BookStop(s)
         \/ RecordFill \/ CommitFill \/ UnknownUnsaved \/ BookExit \/ CommitExit \/ CloseRow
         \/ BeginSquareOff \/ EndSquareOff \/ Crash \/ Restart
  PROVE  Answers'
<1>1. pc' \in Idle
  BY DEF BeginEntry, BookStop, RecordFill, CommitFill, UnknownUnsaved, BookExit, CommitExit,
     CloseRow, BeginSquareOff, EndSquareOff, Crash, Restart, EndOp, Idle
<1>2. /\ UNCHANGED <<prot, unclaimed>> /\ claims \subseteq claims'
      /\ unclaimed \cap unlisted \subseteq unlisted'
  BY DEF Seed, history, MarkUnknownUnsaved, BeginEntry, BookStop, RecordFill, CommitFill,
     UnknownUnsaved, BookExit, CommitExit,
     CloseRow, BeginSquareOff, EndSquareOff, Crash, Restart, brokerVars
<1>3. UNCHANGED row \/ \E e \in Entries : row' = [row EXCEPT ![e] = "closed"]
  BY DEF BeginEntry, BookStop, RecordFill, CommitFill, UnknownUnsaved, BookExit, CommitExit,
     CloseRow, BeginSquareOff, EndSquareOff, Crash, Restart, dbVars, MarkUnknownUnsaved, OpenRows
<1>4. Spares
  BY <1>2, <1>3 DEF Spares, Typed, Values
<1> QED BY <1>1, <1>4, SparesRest

\* The steps that touch neither the operation nor the orders.
LEMMA ElsewhereAnswers ==
  ASSUME Typed, Answers,
         \/ \E s \in Symbols : BeginExitDbDown(s) \/ SkipExit(s) \/ StopProblem(s)
         \/ BrokerDoubt \/ Halt \/ Resume \/ BeginRetry \/ Compare \/ Apply
  PROVE  Answers'
<1>1. /\ UNCHANGED <<cur, res, mkt, prot, row, claimVars, unlisted>>
      /\ UNCHANGED pc \/ pc' \in Idle
  BY DEF BeginExitDbDown, SkipExit, StopProblem, BrokerDoubt, Halt, Resume, BeginRetry, Compare,
     Apply, MarkUnknownUnsaved, callVars, brokerVars, dbVars, history, Idle
<1>2. Spares
  BY <1>1 DEF Spares
<1> QED BY <1>1, <1>2, SparesRest

\* Every step of the system keeps what the operation knows.
LEMMA NextAnswers == ASSUME Typed, Intent, Stops, Answers, Next PROVE Answers'
<1>1. CASE OrderStep
  BY <1>1, SubmitAnswers, AckAnswers, SubmitUnknownAnswers, RecordAnswers, PollAnswers,
     CancelAnswers, StatusAnswers, PlaceStopAnswers, StopAckAnswers, StopCheckedAnswers
     DEF OrderStep
<1>2. CASE EntryStep
  BY <1>2, CheckAnswers, CreatePendingAnswers, LiveGateAnswers, RecordFinalAnswers,
     BookingAnswers DEF EntryStep
<1>3. CASE ExitStep
  BY <1>3, CancelStopAnswers, EarlyAnswers, CloseExitAnswers, BookingAnswers DEF ExitStep
<1>4. CASE Sweep
  BY <1>4, BeginExitAnswers, ElsewhereAnswers, BookingAnswers DEF Sweep
<1>5. CASE Locked
  BY <1>1, <1>2, <1>3, <1>4, <1>5, BeginExitAnswers, ElsewhereAnswers, BookingAnswers
     DEF Locked, Lifecycle
<1>6. CASE Unlocked
  BY <1>6, AnalysisTimeoutAnswers, ElsewhereAnswers, BookingAnswers DEF Unlocked
<1>7. CASE Outside
  BY <1>7, OutsideAnswers
<1> QED BY <1>5, <1>6, <1>7 DEF Next

LEMMA InitAnswers == Init => Answers
BY DEF Init, BrokerInit, NoOrder, Answers, Once, Held, Holding, OrderSteps, StopAnswer,
   FillAnswer, Ready, Early, Asked

LEMMA StutterAnswers == ASSUME UNCHANGED vars, Answers PROVE Answers'
<1>1. UNCHANGED <<pc, cur, res, row, claimVars, mkt, prot, unlisted, IsExit>>
  BY DEF vars, callVars, dbVars, brokerVars, history, IsExit
<1> QED BY <1>1 DEF Answers, Once, Held, StopAnswer, FillAnswer, Fresh, Again, Over, Working

LEMMA AnswersHold == Spec => [](Typed /\ Intent /\ Stops /\ SellAlone /\ OneSell /\ Answers)
<1>1. (Typed /\ Intent /\ Stops /\ SellAlone /\ OneSell) /\ Answers /\ [Next]_vars => Answers'
  BY NextAnswers, StutterAnswers
<1> QED BY <1>1, InitAnswers, StopsHold, PTL DEF Spec

-----------------------------------------------------------------------------
(* The account is never net short: one order that may sell at a time       *)

\* The stop of the operation in progress, which the ledger will name.
InHand == IF pc \in {"stopack", "stopcheck"} \/ (pc \in {"final", "fill"} /\ res.stop)
          THEN {cur} ELSE {}
Ours == owned \cup InHand

\* An exit and a stop of an instrument never both work, and while an operation
\* has an order out, no other exit of the instrument works.
Sole ==
  /\ \A x \in Exits, i \in Ours : SymbolOf[x] = SymbolOf[i] => Over(x) \/ ~Working(prot[i])
  /\ ~IsExit /\ pc \in Asked \cup {"stopack", "stopcheck", "final", "fill"} =>
       \A x \in Exits : SymbolOf[x] = Sym => Over(x)
  /\ IsExit /\ pc \in Asked \cup {"stopack", "stopcheck", "x_close"} =>
       \A x \in Exits \ {cur} : SymbolOf[x] = Sym => Over(x)

\* A stop that nobody will name has sold.
Stray(s) == \E i \in Ids \ Ours : SymbolOf[i] = s /\ prot[i].filled > 0

\* What is held covers what the one working order may still sell.
Covers(s) ==
  /\ held[s] >= 0
  /\ \A x \in Exits : SymbolOf[x] = s /\ Working(mkt[x]) => held[s] + mkt[x].filled >= mkt[x].qty
  /\ \A i \in Ours : SymbolOf[i] = s /\ Working(prot[i]) => held[s] + prot[i].filled >= prot[i].qty

\* What is held covers what the operation has bought, or means to sell.
Deal(s) ==
  /\ ~IsExit /\ pc \in Asked /\ (pc = "record" => res.id) /\ Sym = s =>
       held[s] >= mkt[cur].filled
  /\ IsExit /\ pc = "submit" /\ Sym = s => held[s] >= pos[s].qty
  /\ IsExit /\ pc \in Asked \cup {"x_close"} /\ Sym = s =>
       held[s] + mkt[cur].filled >= pos[s].qty

Room == \A s \in Symbols : ~Stray(s) /\ ~Twice(s) => Covers(s) /\ Deal(s)

Trading == Asked \cup {"stopack", "stopcheck", "x_close"}

\* The orders themselves change in five ways only.
LEMMA WhoTouchesBroker ==
  Next => Submit \/ Cancel \/ PlaceStop \/ CancelStop \/ Outside \/ UNCHANGED brokerVars
<1>1. OrderStep => Submit \/ Cancel \/ PlaceStop \/ UNCHANGED brokerVars
  BY DEF OrderStep, Ack, SubmitUnknown, Record, Poll, Status, StopAck,
     StopConfirmed, StopUnconfirmed
<1>2. EntryStep => UNCHANGED brokerVars
  BY DEF EntryStep, Check, CreatePending, LiveGate, RecordFinal, RecordFill, CommitFill
<1>3. ExitStep => CancelStop \/ UNCHANGED brokerVars
  BY DEF ExitStep, StopStatus, CheckQuantity, CloseExit, BookExit, CommitExit, CloseRow
<1>4. Sweep => UNCHANGED brokerVars
  BY DEF Sweep, BeginExit, BeginExitDbDown, SkipExit, EndSquareOff
<1>5. Unlocked => UNCHANGED brokerVars
  BY DEF Unlocked, AnalysisTimeout, BrokerDoubt, Halt, Resume, BeginRetry, Compare,
     Apply, Crash, Restart
<1>6. Locked => OrderStep \/ ExitStep \/ UNCHANGED brokerVars
  BY <1>2, <1>4 DEF Locked, Lifecycle, BeginEntry, BeginExit, BookStop,
     StopProblem, BeginExitDbDown, UnknownUnsaved, BeginSquareOff
<1> QED BY <1>1, <1>3, <1>5, <1>6 DEF Next

\* But for the submissions and the broker's own steps, no order starts to work
\* and none executes.
Calm == /\ UNCHANGED held
        /\ \A i \in Ids : /\ mkt'[i].filled = mkt[i].filled /\ mkt'[i].qty = mkt[i].qty
                          /\ prot'[i].filled = prot[i].filled /\ prot'[i].qty = prot[i].qty
                          /\ Working(mkt[i])' => Working(mkt[i])
                          /\ Working(prot[i])' => Working(prot[i])

LEMMA OthersCalm ==
  ASSUME Typed, Next, ~Submit, ~PlaceStop, ~Outside
  PROVE  Calm
<1>0. mkt \in [Ids -> BrokerOrder] /\ prot \in [Ids -> BrokerOrder]
  BY DEF Typed, BrokerTypeOK
<1>1. ASSUME NEW o \in BrokerOrder, NEW st \in {"open", "cancelled"},
             NEW p, p = [o EXCEPT !.st = IF @ = "open" THEN st ELSE @]
      PROVE  p.filled = o.filled /\ p.qty = o.qty /\ (Working(p) => Working(o))
  <2>1. CASE o.st = "open"
    BY <1>1, <2>1 DEF BrokerOrder, Working
  <2>2. CASE o.st # "open"
    BY <1>1, <2>2 DEF BrokerOrder, Working
  <2> QED BY <2>1, <2>2
<1>2. CASE UNCHANGED brokerVars
  BY <1>2 DEF brokerVars, Calm
<1>3. CASE Cancel /\ ~UNCHANGED mkt
  <2>1. /\ cur \in Ids /\ UNCHANGED <<prot, held>>
        /\ mkt' = [mkt EXCEPT ![cur].st = IF @ = "open" THEN "cancelled" ELSE @]
    BY <1>3 DEF Cancel, Typed, Phase, OrderSteps
  <2>2. mkt'[cur] = [mkt[cur] EXCEPT !.st = IF @ = "open" THEN "cancelled" ELSE @]
    BY <1>0, <2>1
  <2> QED BY <1>0, <1>1, <2>1, <2>2 DEF Calm
<1>4. CASE CancelStop /\ ~UNCHANGED prot
  <2>1. /\ pos[Sym].stop \in Ids /\ UNCHANGED <<mkt, held>>
        /\ \E st \in {"cancelled", "open"} :
             prot' = [prot EXCEPT ![pos[Sym].stop].st = IF @ = "open" THEN st ELSE @]
    BY <1>4 DEF CancelStop, Typed, Phase, ExitOnly, Values, Position, Sym
  <2>2. PICK st \in {"cancelled", "open"} :
          prot'[pos[Sym].stop] = [prot[pos[Sym].stop] EXCEPT !.st = IF @ = "open" THEN st ELSE @]
    BY <1>0, <2>1
  <2> QED BY <1>0, <1>1, <2>1, <2>2 DEF Calm
<1>5. CASE UNCHANGED <<mkt, prot>>
  BY <1>2, <1>5, WhoTouchesBroker DEF Cancel, CancelStop, Calm
<1> QED BY <1>2, <1>3, <1>4, <1>5, WhoTouchesBroker DEF Cancel, CancelStop

\* Where the steps of an operation with an order out come from.
LEMMA TradingFrom ==
  ASSUME Next, pc' \in Trading, ~Submit
  PROVE  /\ pc \in Trading \/ (SubmitUnknown /\ pc = "submit")
         /\ UNCHANGED <<cur, pos>>
         /\ pc' \in Asked \cup {"x_close"} => pc \in Asked \cup {"x_close", "submit"}
         /\ pc' \in {"stopack", "stopcheck"} /\ ~PlaceStop => pc \in {"stopack", "stopcheck"}
<1>1. CASE OrderStep
  <2>1. CASE PlaceStop
    BY <2>1 DEF PlaceStop, Trading, Asked, callVars
  <2>2. CASE Ack \/ StopAck
    BY <2>2 DEF Ack, StopAck, Trading, Asked, callVars
  <2>3. CASE SubmitUnknown
    BY <2>3 DEF SubmitUnknown, Trading, Asked, callVars
  <2>4. CASE Record \/ Cancel
    BY <2>4 DEF Record, Cancel, Absorbed, EndOp, Trading, Asked, callVars
  <2>5. CASE Poll \/ Status
    <3>1. \A r : Settled(r) \in {"x_close", "stop", "final"}
      BY DEF Settled
    <3>2. pc \in {"poll", "status"} /\ UNCHANGED pos
      BY <2>5 DEF Poll, Status
    <3>3. CASE Poll
      <4>1. cur' = cur /\ pc' \in {"cancel", "x_close", "stop", "final"}
        BY <3>1, <3>3 DEF Poll, callVars
      <4> QED BY <3>2, <4>1 DEF Trading, Asked
    <3>4. CASE Status
      <4>1. EndOp \/ (cur' = cur /\ pc' \in {"x_close", "stop", "final"})
        BY <3>1, <3>4 DEF Status, callVars
      <4> QED BY <3>2, <4>1 DEF Trading, Asked, EndOp
    <3> QED BY <2>5, <3>3, <3>4
  <2>6. CASE StopConfirmed \/ StopUnconfirmed
    BY <2>6 DEF StopConfirmed, StopUnconfirmed, Attached, Trading, Asked
  <2> QED BY <1>1, <2>1, <2>2, <2>3, <2>4, <2>5, <2>6 DEF OrderStep
<1>2. ~EntryStep
  BY DEF Trading, EntryStep, Check, CreatePending, LiveGate, RecordFinal, RecordFill,
     CommitFill, EndOp, Asked
<1>3. CASE ExitStep
  BY <1>3 DEF Trading, ExitStep, CancelStop, StopStatus, CheckQuantity, CloseExit, BookExit,
     CommitExit, CloseRow, Absorbed, EndOp, Asked, callVars
<1>4. ~Sweep
  BY DEF Trading, Sweep, BeginExit, BeginExitDbDown, SkipExit, EndSquareOff, Asked
<1>5. CASE Locked
  BY <1>1, <1>2, <1>3, <1>4, <1>5 DEF Locked, Lifecycle, BeginEntry, BeginExit, BookStop,
     StopProblem, BeginExitDbDown, UnknownUnsaved, BeginSquareOff, EndOp, Trading, Asked
<1>6. CASE Outside
  BY <1>6 DEF Outside, callVars, Trading
<1>7. CASE Unlocked
  <2>1. CASE AnalysisTimeout
    BY <2>1 DEF AnalysisTimeout, EndOp, Absorbed, Trading, Asked
  <2>2. CASE Crash \/ Restart
    BY <2>2 DEF Crash, Restart, Trading, Asked
  <2> QED BY <1>7, <2>1, <2>2 DEF Unlocked, BrokerDoubt, Halt, Resume, BeginRetry, Compare,
     Apply, callVars, Trading, Asked
<1> QED BY <1>5, <1>6, <1>7 DEF Next

\* Where an entry's last steps come from, and the result they have in hand.
LEMMA FinalFrom ==
  ASSUME Typed, Intent, Answers, Next, pc' \in {"final", "fill"}
  PROVE  /\ cur' = cur
         /\ LiveGate \/ pc \in Asked \cup {"stopack", "stopcheck", "final", "fill"}
         /\ res'.stop => pc \in {"stopack", "stopcheck", "final", "fill"} /\ res.stop
         /\ ~IsExit
<1>0. res \in Result /\ (pc = "gate" => res = NoResult)
  BY DEF Typed, Values, Intent, Before, Ready
<1>1. CASE OrderStep
  <2>1. /\ cur' = cur /\ pc \in Asked \cup {"stopack", "stopcheck"} /\ res'.stop = res.stop
        /\ ~IsExit
    BY <1>0, <1>1 DEF OrderStep, Submit, Ack, SubmitUnknown, Record, Poll, Cancel, Status,
       PlaceStop, StopAck, StopConfirmed, StopUnconfirmed, Absorbed, EndOp, Attached,
       Settled, Asked, callVars, Result
  <2> QED BY <2>1 DEF Answers, StopAnswer
<1>2. CASE EntryStep
  <2>1. LiveGate \/ RecordFinal
    BY <1>2 DEF EntryStep, Check, CreatePending, RecordFill, CommitFill, EndOp
  <2>2. CASE LiveGate
    BY <1>0, <2>2 DEF LiveGate, NoResult, callVars, Typed, Phase, EntrySteps, IsExit
  <2>3. CASE RecordFinal
    BY <2>3 DEF RecordFinal, EndOp, callVars, Typed, Phase, EntrySteps, IsExit
  <2> QED BY <2>1, <2>2, <2>3
<1>3. ~ExitStep
  BY DEF ExitStep, CancelStop, StopStatus, CheckQuantity, CloseExit, BookExit,
     CommitExit, CloseRow, Absorbed, EndOp, Typed, Phase, ExitOnly, IsExit
<1>4. ~Sweep
  BY DEF Sweep, BeginExit, BeginExitDbDown, SkipExit, EndSquareOff
<1>5. CASE Locked
  BY <1>1, <1>2, <1>3, <1>4, <1>5 DEF Locked, Lifecycle, BeginEntry, BeginExit, BookStop,
     StopProblem, BeginExitDbDown, UnknownUnsaved, BeginSquareOff, EndOp
<1>6. CASE Outside
  BY <1>6 DEF Outside, callVars, Typed, Phase, EntrySteps, IsExit
<1>7. CASE Unlocked
  <2>1. CASE AnalysisTimeout
    <3>1. /\ cur' = cur /\ pc \in Asked \cup {"stopack", "stopcheck"} /\ res'.stop = res.stop
          /\ ~IsExit
      BY <1>0, <2>1 DEF AnalysisTimeout, EndOp, Absorbed, Asked, Result
    <3> QED BY <3>1 DEF Answers, StopAnswer
  <2>2. CASE Crash \/ Restart
    BY <2>2 DEF Crash, Restart
  <2>3. CASE BrokerDoubt \/ Halt \/ Resume \/ BeginRetry \/ Compare \/ Apply
    BY <2>3 DEF BrokerDoubt, Halt, Resume, BeginRetry, Compare, Apply, callVars, Typed, Phase,
       EntrySteps, IsExit
  <2> QED BY <1>7, <2>1, <2>2, <2>3 DEF Unlocked
<1> QED BY <1>5, <1>6, <1>7 DEF Next

\* The ledger names only stops of the operation in progress.
LEMMA OwnedGrows ==
  ASSUME Typed, Answers, Next
  PROVE  owned' \subseteq Ours
<1>1. CASE owned' \subseteq owned
  BY <1>1 DEF Ours
<1>2. CASE StopConfirmed \/ StopUnconfirmed
  BY <1>2 DEF StopConfirmed, StopUnconfirmed, Attached, Ours, InHand, Answers, StopAnswer, Asked
<1>3. CASE RecordFill
  BY <1>3 DEF RecordFill, Ours, InHand
<1>4. ~StopConfirmed /\ ~StopUnconfirmed /\ ~RecordFill => owned' \subseteq owned
  <2>1. OrderStep => StopConfirmed \/ StopUnconfirmed \/ owned' \subseteq owned
    BY DEF OrderStep, Submit, Ack, SubmitUnknown, Record, Poll, Cancel, Status,
       PlaceStop, StopAck, history
  <2>2. EntryStep => RecordFill \/ owned' = owned
    BY DEF EntryStep, Check, CreatePending, LiveGate, RecordFinal, CommitFill, history
  <2>3. ExitStep => owned' = owned
    BY DEF ExitStep, CancelStop, StopStatus, CheckQuantity, CloseExit, BookExit, CommitExit,
       CloseRow, history
  <2>4. Sweep => owned' = owned
    BY DEF Sweep, BeginExit, BeginExitDbDown, SkipExit, EndSquareOff, history
  <2>5. Unlocked => owned' \subseteq owned
    BY DEF Unlocked, AnalysisTimeout, BrokerDoubt, Halt, Resume, BeginRetry, Compare,
       Apply, Crash, Restart, history
  <2>6. Locked => OrderStep \/ EntryStep \/ owned' = owned
    BY <2>3, <2>4 DEF Locked, Lifecycle, BeginEntry, BeginExit, BookStop, StopProblem,
       BeginExitDbDown, UnknownUnsaved, BeginSquareOff, history
  <2> QED BY <2>1, <2>2, <2>5, <2>6 DEF Next, Outside, history
<1> QED BY <1>1, <1>2, <1>3, <1>4

\* A new stop comes in hand only when it is placed.
LEMMA OursFrom ==
  ASSUME Typed, Intent, Answers, Next
  PROVE  Ours' \subseteq Ours \cup (IF PlaceStop THEN {cur} ELSE {})
<1>1. owned' \subseteq Ours
  BY OwnedGrows
<1>2. CASE pc' \in {"final", "fill"}
  <2>1. res'.stop => cur' = cur /\ (pc \in {"stopack", "stopcheck"} \/ (pc \in {"final", "fill"} /\ res.stop))
    BY <1>2, FinalFrom
  <2>2. InHand' \subseteq InHand
    BY <1>2, <2>1 DEF InHand
  <2> QED BY <1>1, <2>2 DEF Ours
<1>3. CASE pc' \in {"stopack", "stopcheck"}
  <2>1. ~Submit
    BY <1>3 DEF Submit
  <2>2. cur' = cur /\ (PlaceStop \/ pc \in {"stopack", "stopcheck"})
    BY <1>3, <2>1, TradingFrom DEF Trading
  <2> QED BY <1>1, <1>3, <2>2 DEF Ours, InHand
<1>4. CASE pc' \notin {"final", "fill", "stopack", "stopcheck"}
  BY <1>1, <1>4 DEF Ours, InHand
<1> QED BY <1>2, <1>3, <1>4

\* While the operation has an order or a stop out, no other stop of the
\* instrument works.
LEMMA NoOtherStop ==
  ASSUME Typed, Stops, NEW i \in owned, Working(prot[i]), SymbolOf[i] = Sym
  PROVE  pc \notin Trading \cup {"submit"} /\ (pc \in {"final", "fill"} => IsExit)
<1>1. pc # "down" => pos[Sym].stop = i /\ i \in Ids /\ Sym \in Symbols
  BY DEF Stops, Named, Ledger, Typed, Flags
<1>2. IsExit /\ pc \in Trading \cup {"submit"} => pos[Sym].stop = None
  BY DEF Stops, Seller, Selling, Trading, Asked, OrderSteps
<1>3. ~IsExit /\ pc \in Trading \cup {"submit", "final", "fill"} => pos[Sym].qty = 0
  BY DEF Stops, Buyer, Buying, Trading, Asked, OrderSteps, Typed, Phase, ExitOnly, IsExit
<1>4. pos[Sym].qty = 0 /\ Sym \in Symbols => pos[Sym].stop = None
  BY DEF Stops, Bare, Unstopped
<1> QED BY <1>1, <1>2, <1>3, <1>4 DEF Trading, Asked

\* Of the stops of an instrument that the ledger names or will name, one works.
LEMMA OneStop ==
  ASSUME Typed, Stops, NEW i \in Ours, NEW j \in Ours, Working(prot[i]), Working(prot[j]),
         SymbolOf[i] = SymbolOf[j]
  PROVE  i = j
<1>1. CASE i \in owned /\ j \in owned
  BY <1>1 DEF Stops, Named
<1>2. ASSUME NEW k \in owned, Working(prot[k]), InHand # {}, SymbolOf[k] = Sym PROVE FALSE
  <2>1. pc \in {"stopack", "stopcheck", "final", "fill"}
    BY <1>2 DEF InHand
  <2>2. pc \in {"final", "fill"} => ~IsExit
    BY DEF Typed, Phase, EntrySteps, IsExit
  <2> QED BY <1>2, <2>1, <2>2, NoOtherStop DEF Trading
<1>3. CASE i \in InHand /\ j \in InHand
  BY <1>3 DEF InHand
<1>4. CASE i \in owned /\ j \in InHand
  <2>1. SymbolOf[i] = Sym
    BY <1>4 DEF InHand, Sym
  <2> QED BY <1>2, <1>4, <2>1
<1>5. CASE j \in owned /\ i \in InHand
  <2>1. SymbolOf[j] = Sym
    BY <1>5 DEF InHand, Sym
  <2> QED BY <1>2, <1>5, <2>1
<1> QED BY <1>1, <1>3, <1>4, <1>5 DEF Ours


\* While an entry is about to be sent, no sell works.
LEMMA BuyAlone ==
  ASSUME Typed, Intent, pc \in Ready, ~IsExit, NEW x \in Exits
  PROVE  Over(x)
BY DEF Intent, Alone, Over, Typed, Flags

\* Submit: neither a sell nor a stop of the ledger works beside the new order.
LEMMA SubmitSole ==
  ASSUME Typed, Intent, Stops, SellAlone, Sole, Submit
  PROVE  Sole'
<1>1. /\ pc = "submit" /\ pc' = "ack" /\ cur \in Ids
      /\ UNCHANGED <<cur, prot, owned, IsExit, Sym>>
      /\ \A i \in Ids : i # cur => mkt'[i] = mkt[i]
  BY DEF Submit, Typed, Phase, OrderSteps, BrokerTypeOK, callVars, history, IsExit, Sym
<1>2. Ours = owned /\ Ours' = owned
  BY <1>1 DEF Ours, InHand
<1>3. ASSUME NEW x \in Exits, NEW i \in owned, SymbolOf[x] = SymbolOf[i], x = cur
      PROVE  ~Working(prot[i])
  BY <1>1, <1>3, NoOtherStop DEF Sym
<1>4. \A x \in Exits \ {cur} : SymbolOf[x] = Sym => Over(x)
  BY <1>1, BuyAlone DEF SellAlone, Ready
<1>5. \A x \in Exits \ {cur} : Over(x) => Over(x)'
  BY <1>1 DEF Over
<1>6. ~IsExit => Exits \ {cur} = Exits
  BY DEF IsExit
<1> QED BY <1>1, <1>2, <1>3, <1>4, <1>5, <1>6 DEF Sole

\* PlaceStop: the sell of the instrument is over.
LEMMA PlaceStopSole ==
  ASSUME Typed, Intent, Answers, Next, Sole, PlaceStop
  PROVE  Sole'
<1>1. /\ pc = "stop" /\ pc' = "stopack" /\ cur \in Ids
      /\ UNCHANGED <<cur, mkt, IsExit, Sym>>
      /\ \A i \in Ids : i # cur => prot'[i] = prot[i]
  BY DEF PlaceStop, Typed, Phase, OrderSteps, BrokerTypeOK, callVars, history, IsExit, Sym
<1>2. Ours' \subseteq Ours \cup {cur} /\ Ours \subseteq Ids \cup {None}
  BY OursFrom DEF Ours, InHand, Typed, Flags
<1>3. \A x \in Exits : Over(x)' = Over(x)
  BY <1>1 DEF Over
<1>4. \A x \in Exits : SymbolOf[x] = Sym => Over(x)
  BY <1>1 DEF Sole, Answers, FillAnswer, Asked
<1>5. ASSUME NEW i \in Ours', i # cur PROVE i \in Ours /\ prot'[i] = prot[i]
  <2>1. i \in Ours /\ i \in Ids
    BY <1>1, <1>2, <1>5 DEF Ours, InHand, Typed, Flags
  <2> QED BY <1>1, <1>5, <2>1
<1>6. \A x \in Exits, i \in Ours' : SymbolOf[x] = SymbolOf[i] => Over(x)' \/ ~Working(prot'[i])
  BY <1>3, <1>4, <1>5 DEF Sole, Sym
<1> QED BY <1>1, <1>3, <1>4, <1>6 DEF Sole, Working

\* The broker starts no order.
LEMMA OutsideSole == ASSUME Typed, Sole, Outside PROVE Sole'
<1>1. UNCHANGED <<pc, cur, res, owned, IsExit, Sym, Ours>>
  BY DEF Outside, callVars, history, IsExit, Sym, Ours, InHand
<1>2. PICK j \in Ids : Arrive(j) \/ FillMarket(j) \/ FillStop(j) \/ Withdraw(j)
  BY DEF Outside, BrokerNext
<1>3. \A i \in Ids : /\ Working(mkt'[i]) => Working(mkt[i])
                     /\ Working(prot'[i]) => Working(prot[i])
  <2>1. /\ \A i \in Ids : i # j => mkt'[i] = mkt[i] /\ prot'[i] = prot[i]
        /\ mkt'[j] = mkt[j] \/ Working(mkt[j])
        /\ prot'[j] = prot[j] \/ Working(prot[j])
    BY <1>2, BrokerStep
  <2> QED BY <2>1
<1>4. Ours \subseteq Ids
  BY DEF Ours, InHand, Typed, Flags, Phase, OrderSteps, EntrySteps
<1> QED BY <1>1, <1>3, <1>4 DEF Sole, Over

\* Every other step leaves the orders at most as they were.
LEMMA CalmSole ==
  ASSUME Typed, Intent, SellAlone, Answers, Sole, Next, ~Submit, ~PlaceStop, ~Outside
  PROVE  Sole'
<1>1. /\ \A x \in Exits : Over(x) => Over(x)'
      /\ \A i \in Ids : Working(prot[i])' => Working(prot[i])
  BY OthersCalm DEF Calm, Over
<1>2. Ours' \subseteq Ours /\ Ours \subseteq Ids
  <2>1. Ours' \subseteq Ours
    BY OursFrom
  <2> QED BY <2>1 DEF Ours, InHand, Typed, Flags, Phase, OrderSteps, EntrySteps
<1>3. \A x \in Exits, i \in Ours' : SymbolOf[x] = SymbolOf[i] => Over(x)' \/ ~Working(prot[i])'
  BY <1>1, <1>2 DEF Sole
<1>4. ASSUME ~IsExit', pc' \in Asked \cup {"stopack", "stopcheck"},
             NEW x \in Exits, SymbolOf[x] = Sym'
      PROVE  Over(x)'
  <2>1. cur' = cur /\ (pc \in Trading \/ pc = "submit")
    BY <1>4, TradingFrom DEF Trading
  <2>2. ~IsExit /\ SymbolOf[x] = Sym
    BY <1>4, <2>1 DEF IsExit, Sym
  <2>3. CASE pc = "submit"
    BY <1>1, <2>2, <2>3, BuyAlone DEF Ready
  <2>4. CASE pc \in Trading
    BY <1>1, <2>2, <2>4 DEF Sole, Trading, Typed, Phase, ExitOnly, IsExit
  <2> QED BY <2>1, <2>3, <2>4
<1>5. ASSUME ~IsExit', pc' \in {"final", "fill"}, NEW x \in Exits, SymbolOf[x] = Sym'
      PROVE  Over(x)'
  <2>1. /\ cur' = cur /\ ~IsExit
        /\ LiveGate \/ pc \in Asked \cup {"stopack", "stopcheck", "final", "fill"}
    BY <1>5, FinalFrom
  <2>2. SymbolOf[x] = Sym
    BY <1>5, <2>1 DEF Sym
  <2>3. CASE LiveGate
    BY <1>1, <2>1, <2>3, BuyAlone DEF Ready, LiveGate
  <2> QED BY <1>1, <2>1, <2>2, <2>3 DEF Sole
<1>6. ASSUME IsExit', pc' \in Asked \cup {"stopack", "stopcheck", "x_close"},
             NEW x \in Exits \ {cur'}, SymbolOf[x] = Sym'
      PROVE  Over(x)'
  <2>1. cur' = cur /\ (pc \in Trading \/ pc = "submit")
    BY <1>6, TradingFrom DEF Trading
  <2>2. IsExit /\ SymbolOf[x] = Sym /\ x \in Exits \ {cur}
    BY <1>6, <2>1 DEF IsExit, Sym
  <2>3. CASE pc = "submit"
    BY <1>1, <2>2, <2>3 DEF SellAlone
  <2>4. CASE pc \in Trading
    BY <1>1, <2>2, <2>4 DEF Sole, Trading
  <2> QED BY <2>1, <2>3, <2>4
<1> QED BY <1>3, <1>4, <1>5, <1>6 DEF Sole

LEMMA SoleStep ==
  ASSUME Typed, Intent, Stops, SellAlone, Answers, Sole, Next
  PROVE  Sole'
BY SubmitSole, PlaceStopSole, OutsideSole, CalmSole

-----------------------------------------------------------------------------
(* The account is never net short: what is held covers what may be sold    *)

\* An id that Redis did not keep and that is in use again stays so.
LEMMA AgainStays ==
  ASSUME Next
  PROVE  unclaimed \subseteq unclaimed' /\ unclaimed \cap unlisted \subseteq unlisted'
<1> DEFINE Stays == unclaimed \subseteq unclaimed' /\ unclaimed \cap unlisted \subseteq unlisted'
<1>1. OrderStep => Stays
  BY DEF OrderStep, Submit, Ack, SubmitUnknown, Record, Poll, Cancel, Status, PlaceStop,
     StopAck, StopConfirmed, StopUnconfirmed, Absorbed, MarkUnknown, history
<1>2. EntryStep => Stays
  BY DEF EntryStep, Check, Claim, CreatePending, LiveGate, RecordFinal, RecordFill,
     CommitFill, history
<1>3. ExitStep => Stays
  BY DEF ExitStep, CancelStop, StopStatus, CheckQuantity, CloseExit, BookExit, CommitExit,
     CloseRow, Absorbed, MarkUnknown, history
<1>4. Sweep => Stays
  BY DEF Sweep, BeginExit, BeginExitDbDown, MarkUnknownUnsaved, SkipExit, EndSquareOff, history
<1>5. Locked => Stays
  BY <1>1, <1>2, <1>3, <1>4 DEF Locked, Lifecycle, BeginEntry, BeginExit, BookStop,
     StopProblem, BeginExitDbDown, UnknownUnsaved, MarkUnknownUnsaved, BeginSquareOff, history
<1>6. Unlocked => Stays
  BY DEF Unlocked, AnalysisTimeout, Absorbed, MarkUnknown, BrokerDoubt, Halt, Resume,
     BeginRetry, Compare, Apply, Crash, Restart, Seed, history
<1> QED BY <1>5, <1>6 DEF Next, Outside, history

\* A stop that nobody will name and that has sold stays so, unless its id is used
\* again.
LEMMA StrayStays ==
  ASSUME Typed, Intent, Answers, Next, NEW s \in Symbols, Stray(s), ~Twice(s)
  PROVE  Stray(s)'
<1>1. PICK i \in Ids \ Ours : SymbolOf[i] = s /\ prot[i].filled > 0
  BY DEF Stray
<1>2. PlaceStop => i # cur /\ prot'[i] = prot[i]
  <2>1. PlaceStop => cur \in Ids /\ Fresh(cur)
    BY DEF PlaceStop, Answers, StopAnswer, Asked, Typed, Phase, OrderSteps
  <2>2. PlaceStop /\ Again(cur) => SymbolOf[cur] # s
    BY DEF Twice, Again
  <2>3. PlaceStop => cur \in Ids /\ (prot[cur].filled = 0 \/ SymbolOf[cur] # s)
    BY <2>1, <2>2 DEF Answers, Once, Fresh
  <2> QED BY <1>1, <2>3 DEF PlaceStop, Typed, BrokerTypeOK
<1>3. i \notin Ours'
  BY <1>1, <1>2, OursFrom
<1>4. prot'[i].filled > 0
  <2>1. CASE PlaceStop \/ Submit
    BY <1>1, <1>2, <2>1 DEF Submit
  <2>2. CASE Outside
    <3>1. PICK j \in Ids : Arrive(j) \/ FillMarket(j) \/ FillStop(j) \/ Withdraw(j)
      BY <2>2 DEF Outside, BrokerNext
    <3>2. prot'[i].filled = prot[i].filled \/ prot'[i].filled = prot[i].filled + 1
      BY <1>1, <3>1, BrokerStep
    <3>3. prot[i].filled \in Nat
      BY <1>1, OrderTyped DEF Typed, BrokerTypeOK
    <3> QED BY <1>1, <3>2, <3>3
  <2>3. CASE ~Submit /\ ~PlaceStop /\ ~Outside
    BY <1>1, <2>3, OthersCalm DEF Calm
  <2> QED BY <2>1, <2>2, <2>3
<1> QED BY <1>1, <1>3, <1>4 DEF Stray

\* A recorded order goes on to be polled only when it has an id.
LEMMA RecordedHasId ==
  ASSUME Typed, Intent, Next, pc = "record", pc' \in Asked, pc' = "record" => res'.id
  PROVE  res.id
<1>1. CASE UNCHANGED <<pc, res>>
  BY <1>1
<1>2. CASE Record
  BY <1>2 DEF Record, Absorbed, EndOp, Asked
<1>3. OrderStep => Record
  BY DEF OrderStep, Submit, Ack, SubmitUnknown, Poll, Cancel, Status, PlaceStop, StopAck,
     StopConfirmed, StopUnconfirmed
<1>4. ~EntryStep /\ ~ExitStep /\ ~Sweep /\ ~UnknownUnsaved
  BY DEF EntryStep, Check, CreatePending, LiveGate, RecordFinal, RecordFill, CommitFill,
     ExitStep, CancelStop, StopStatus, CheckQuantity, CloseExit, BookExit, CommitExit,
     CloseRow, Sweep, UnknownUnsaved, EndOp, Asked
<1>5. Locked => Record \/ UNCHANGED <<pc, res>>
  BY <1>3, <1>4 DEF Locked, BeginEntry, Lifecycle, BookStop, StopProblem, BeginSquareOff
<1>6. Unlocked => UNCHANGED <<pc, res>>
  BY DEF Unlocked, AnalysisTimeout, EndOp, BrokerDoubt, Halt, Resume, BeginRetry, Compare,
     Apply, Crash, Restart, Asked
<1> QED BY <1>1, <1>2, <1>5, <1>6 DEF Next, Outside

\* An exit is about to be sent only after the broker's quantity has been checked.
LEMMA SellFrom ==
  ASSUME Typed, Next, pc' = "submit", IsExit'
  PROVE  CheckQuantity \/ (pc = "submit" /\ UNCHANGED <<cur, pos>>)
<1>1. ~OrderStep /\ ~Sweep /\ ~UnknownUnsaved
  BY DEF OrderStep, Submit, Ack, SubmitUnknown, Record, Poll, Cancel, Status, PlaceStop,
     StopAck, StopConfirmed, StopUnconfirmed, Absorbed, EndOp, Attached, Settled, Sweep,
     BeginExit, BeginExitDbDown, SkipExit, EndSquareOff, UnknownUnsaved
<1>2. ~EntryStep
  BY DEF EntryStep, Check, CreatePending, LiveGate, RecordFinal, RecordFill, CommitFill,
     EndOp, callVars, Typed, Phase, EntrySteps, IsExit
<1>3. ExitStep => CheckQuantity
  BY DEF ExitStep, CancelStop, StopStatus, CloseExit, BookExit, CommitExit, CloseRow,
     Absorbed, EndOp
<1>4. Locked => CheckQuantity
  BY <1>1, <1>2, <1>3 DEF Locked, BeginEntry, BeginExit, BeginExitDbDown, Lifecycle, BookStop,
     StopProblem, BeginSquareOff
<1>5. Unlocked => pc = "submit" /\ UNCHANGED <<cur, pos>>
  BY DEF Unlocked, AnalysisTimeout, Absorbed, EndOp, BrokerDoubt, Halt, Resume, BeginRetry,
     Compare, Apply, Crash, Restart, callVars
<1> QED BY <1>4, <1>5 DEF Next, Outside, callVars

\* Where no order starts and none executes, what is held still covers the sells.
LEMMA CalmRoom ==
  ASSUME Typed, Intent, Answers, Next, Calm, ~Submit, ~PlaceStop,
         NEW s \in Symbols, Covers(s), Deal(s)
  PROVE  Covers(s)' /\ Deal(s)'
<1>0. /\ held \in [Symbols -> Int] /\ pos \in [Symbols -> Position]
      /\ \A i \in Ids : mkt[i].filled \in Nat /\ mkt[i].qty \in Nat
      /\ \A i \in Ids : prot[i].filled \in Nat /\ prot[i].qty \in Nat
  BY OrderTyped DEF Typed, BrokerTypeOK, Values, BrokerOrder
<1>1. Ours' \subseteq Ours /\ Ours \subseteq Ids
  <2>1. Ours' \subseteq Ours
    BY OursFrom
  <2> QED BY <2>1 DEF Ours, InHand, Typed, Flags, Phase, OrderSteps, EntrySteps
<1>2. Covers(s)'
  <2>1. ASSUME NEW x \in Exits, SymbolOf[x] = s, Working(mkt[x])'
        PROVE  held'[s] + mkt'[x].filled >= mkt'[x].qty
    BY <2>1 DEF Covers, Calm
  <2>2. ASSUME NEW i \in Ours', SymbolOf[i] = s, Working(prot[i])'
        PROVE  held'[s] + prot'[i].filled >= prot'[i].qty
    BY <1>1, <2>2 DEF Covers, Calm
  <2> QED BY <2>1, <2>2 DEF Covers, Calm
<1>3. ASSUME ~IsExit', pc' \in Asked, pc' = "record" => res'.id, Sym' = s
      PROVE  held'[s] >= mkt'[cur'].filled
  <2>1. /\ cur' = cur /\ pc \in Asked \cup {"x_close", "submit"}
        /\ pc = "submit" => SubmitUnknown
    BY <1>3, TradingFrom DEF Trading, Asked
  <2>2. ~IsExit /\ Sym = s
    BY <1>3, <2>1 DEF IsExit, Sym
  <2>3. pc # "submit"
    BY <1>3, <2>1 DEF SubmitUnknown, Intent, Before, Ready, NoResult
  <2>4. pc # "x_close"
    BY <2>2 DEF Typed, Phase, ExitOnly, IsExit
  <2>5. pc = "record" => res.id
    BY <1>3, RecordedHasId
  <2>6. held[s] >= mkt[cur].filled /\ cur \in Ids
    BY <2>1, <2>2, <2>3, <2>4, <2>5 DEF Deal, Typed, Phase, OrderSteps, Asked
  <2> QED BY <2>1, <2>6 DEF Calm
<1>4. ASSUME IsExit', pc' = "submit", Sym' = s PROVE held'[s] >= pos'[s].qty
  <2>1. CASE CheckQuantity
    <3>1. pc = "x_qty"
      BY <2>1 DEF CheckQuantity
    <3>2. held[Sym] = pos[Sym].qty /\ UNCHANGED <<cur, pos, held>>
      BY <1>4, <2>1 DEF CheckQuantity, Absorbed, EndOp, callVars, brokerVars
    <3> QED BY <1>0, <1>4, <3>2 DEF Sym, Position
  <2>2. CASE pc = "submit" /\ UNCHANGED <<cur, pos>>
    BY <1>4, <2>2 DEF Deal, IsExit, Sym, Calm
  <2> QED BY <1>4, <2>1, <2>2, SellFrom
<1>5. ASSUME IsExit', pc' \in Asked \cup {"x_close"}, Sym' = s
      PROVE  held'[s] + mkt'[cur'].filled >= pos'[s].qty
  <2>1. UNCHANGED <<cur, pos>> /\ pc \in Asked \cup {"x_close", "submit"}
    BY <1>5, TradingFrom DEF Trading
  <2>2. IsExit /\ Sym = s /\ cur \in Ids
    BY <1>5, <2>1 DEF IsExit, Sym
  <2>3. held[s] + mkt[cur].filled >= pos[s].qty
    <3>1. CASE pc = "submit"
      <4>1. held[s] >= pos[s].qty /\ mkt[cur].filled \in Nat /\ held[s] \in Int /\ pos[s].qty \in Nat
        BY <1>0, <2>2, <3>1 DEF Deal, Position
      <4> QED BY <4>1
    <3> QED BY <2>1, <2>2, <3>1 DEF Deal
  <2> QED BY <2>1, <2>2, <2>3 DEF Calm
<1>6. Deal(s)'
  BY <1>3, <1>4, <1>5 DEF Deal
<1> QED BY <1>2, <1>6

\* Submit: the quantity has just been checked.
LEMMA SubmitRoom ==
  ASSUME Typed, Submit, NEW s \in Symbols, Covers(s), Deal(s)
  PROVE  Covers(s)' /\ Deal(s)'
<1>1. /\ pc = "submit" /\ pc' = "ack" /\ cur \in Ids
      /\ UNCHANGED <<cur, prot, pos, held, IsExit, Sym>>
      /\ \A i \in Ids : i # cur => mkt'[i] = mkt[i]
      /\ mkt'[cur].filled = 0 /\ mkt'[cur].qty = IF IsExit THEN pos[Sym].qty ELSE Lot
  BY DEF Submit, Typed, Phase, OrderSteps, BrokerTypeOK, Sent, callVars, IsExit, Sym
<1>2. Ours' = Ours
  BY <1>1 DEF Submit, history, Ours, InHand
<1>3. held[s] \in Int /\ pos[s].qty \in Nat
  BY DEF Typed, BrokerTypeOK, Values, Position
<1>4. IsExit /\ Sym = s => held[s] >= pos[s].qty
  BY <1>1 DEF Deal
<1>5. \A x \in Exits : SymbolOf[x] = s /\ Working(mkt[x])' =>
        held'[s] + mkt'[x].filled >= mkt'[x].qty
  <2>1. ASSUME cur \in Exits, SymbolOf[cur] = s PROVE held'[s] + mkt'[cur].filled >= mkt'[cur].qty
    BY <1>1, <1>3, <1>4, <2>1 DEF IsExit, Sym
  <2> QED BY <1>1, <2>1 DEF Covers
<1>6. Covers(s)'
  BY <1>1, <1>2, <1>5 DEF Covers
<1>7. Deal(s)'
  BY <1>1, <1>3, <1>4 DEF Deal, Covers
<1> QED BY <1>6, <1>7

\* PlaceStop: the stop sells what the entry has bought, or what the exit has left.
LEMMA PlaceStopRoom ==
  ASSUME Typed, Intent, Answers, Next, PlaceStop, NEW s \in Symbols, Covers(s), Deal(s)
  PROVE  Covers(s)' /\ Deal(s)'
<1>1. /\ pc = "stop" /\ pc' = "stopack" /\ cur \in Ids
      /\ UNCHANGED <<cur, mkt, pos, held, IsExit, Sym>>
      /\ \A i \in Ids : i # cur => prot'[i] = prot[i]
      /\ prot'[cur].filled = 0
      /\ prot'[cur].qty = IF IsExit THEN pos[Sym].qty - res.filled ELSE res.filled
  BY DEF PlaceStop, Typed, Phase, OrderSteps, BrokerTypeOK, Sent, callVars, IsExit, Sym
<1>2. Ours' \subseteq Ours \cup {cur}
  BY OursFrom
<1>3. /\ held[s] \in Int /\ pos[s].qty \in Nat /\ mkt[cur].filled \in Nat /\ res.filled \in Nat
      /\ res.filled <= mkt[cur].filled /\ (IsExit => res.filled = mkt[cur].filled)
  BY <1>1, OrderTyped DEF Typed, BrokerTypeOK, Values, Position, Result, Answers, FillAnswer, Asked
<1>4. Sym = s => IF IsExit THEN held[s] + mkt[cur].filled >= pos[s].qty
                           ELSE held[s] >= mkt[cur].filled
  BY <1>1 DEF Deal, Asked
<1>5. SymbolOf[cur] = s => held'[s] + prot'[cur].filled >= prot'[cur].qty
  <2>1. CASE IsExit
    BY <1>1, <1>3, <1>4, <2>1 DEF Sym
  <2>2. CASE ~IsExit
    BY <1>1, <1>3, <1>4, <2>2 DEF Sym
  <2> QED BY <2>1, <2>2
<1>6. ASSUME NEW i \in Ours', SymbolOf[i] = s, Working(prot[i])'
      PROVE  held'[s] + prot'[i].filled >= prot'[i].qty
  <2>1. CASE i = cur
    BY <1>5, <1>6, <2>1
  <2>2. CASE i # cur
    <3>1. i \in Ours /\ i \in Ids
      BY <1>1, <1>2, <1>6, <2>2 DEF Ours, InHand, Typed, Flags
    <3> QED BY <1>1, <1>6, <2>2, <3>1 DEF Covers
  <2> QED BY <2>1, <2>2
<1>7. Covers(s)'
  BY <1>1, <1>6 DEF Covers
<1>8. Deal(s)'
  BY <1>1 DEF Deal, Asked
<1> QED BY <1>7, <1>8

\* A market order executes: a sell that works is the only one, and no stop of
\* the ledger works beside it.
LEMMA FillMarketRoom ==
  ASSUME Typed, Stops, SellAlone, OneSell, Sole, Outside, NEW j \in Ids, FillMarket(j),
         NEW s \in Symbols, Covers(s), Deal(s)
  PROVE  Covers(s)' /\ Deal(s)'
<1>0. UNCHANGED <<pc, cur, res, pos, prot, IsExit, Sym, Ours>>
  BY DEF Outside, FillMarket, callVars, history, IsExit, Sym, Ours, InHand
<1>1. /\ \A i \in Ids : i # j => mkt'[i] = mkt[i]
      /\ mkt'[j].qty = mkt[j].qty /\ mkt'[j].filled = mkt[j].filled + 1
      /\ mkt[j].filled < mkt[j].qty
      /\ Working(mkt[j])
  <2>1. /\ \A i \in Ids : i # j => mkt'[i] = mkt[i] /\ prot'[i] = prot[i]
        /\ mkt'[j] = mkt[j] \/ (Working(mkt[j]) /\ mkt'[j].qty = mkt[j].qty)
    BY BrokerStep
  <2>2. mkt[j] \in BrokerOrder /\ mkt'[j] = Executed(mkt[j])
    BY DEF FillMarket, Typed, BrokerTypeOK
  <2>3. mkt'[j].qty = mkt[j].qty /\ mkt'[j].filled = mkt[j].filled + 1
    BY <2>2 DEF BrokerOrder, Executed
  <2> QED BY <2>1, <2>3 DEF FillMarket, Working
<1>2. /\ held \in [Symbols -> Int] /\ pos[s].qty \in Nat /\ SymbolOf[j] \in Symbols
      /\ \A i \in Ids : mkt[i].filled \in Nat /\ mkt[i].qty \in Nat
  BY OrderTyped DEF Typed, BrokerTypeOK, Values, Position, BrokerOrder
<1>3. held' = [held EXCEPT ![SymbolOf[j]] = IF j \in Entries THEN @ + 1 ELSE @ - 1]
  BY DEF FillMarket
<1>4. pc \in Asked \cup {"submit", "x_close"} => cur \in Ids
  BY DEF Typed, Phase, OrderSteps, ExitOnly, Asked
<1>5. CASE s # SymbolOf[j]
  <2>1. held'[s] = held[s] /\ \A i \in Ids : SymbolOf[i] = s => mkt'[i] = mkt[i]
    BY <1>1, <1>2, <1>3, <1>5
  <2>2. Covers(s)'
    BY <1>0, <2>1 DEF Covers
  <2>3. Deal(s)'
    BY <1>0, <1>4, <2>1 DEF Deal, Sym
  <2> QED BY <2>2, <2>3
<1>6. CASE s = SymbolOf[j] /\ j \in Entries
  <2>1. /\ held'[s] = held[s] + 1 /\ held[s] \in Int
        /\ \A x \in Exits : mkt'[x] = mkt[x]
    BY <1>1, <1>2, <1>3, <1>6
  <2>2. Ours \subseteq Ids
    BY DEF Ours, InHand, Typed, Flags, Phase, OrderSteps, EntrySteps
  <2>3. \A i \in Ids : prot[i].filled \in Nat /\ prot[i].qty \in Nat
    BY OrderTyped DEF Typed, BrokerTypeOK, BrokerOrder
  <2>4. Covers(s)'
    <3>1. \A x \in Exits : SymbolOf[x] = s /\ Working(mkt[x]) => held'[s] + mkt[x].filled >= mkt[x].qty
      BY <1>2, <2>1 DEF Covers
    <3>2. \A i \in Ours : SymbolOf[i] = s /\ Working(prot[i]) => held'[s] + prot[i].filled >= prot[i].qty
      BY <2>1, <2>2, <2>3 DEF Covers
    <3> QED BY <1>0, <2>1, <3>1, <3>2 DEF Covers
  <2>5. cur \in Ids => mkt'[cur].filled \in {mkt[cur].filled, mkt[cur].filled + 1}
                       /\ mkt[cur].filled \in Nat /\ (cur \in Exits => mkt'[cur] = mkt[cur])
    BY <1>1, <1>2, <2>1
  <2>6. Deal(s)'
    BY <1>0, <1>2, <1>4, <2>1, <2>5 DEF Deal, IsExit
  <2> QED BY <2>4, <2>6
<1>7. CASE s = SymbolOf[j] /\ j \in Exits
  <2>1. /\ held'[s] = held[s] - 1 /\ held[s] \in Int /\ held[s] + mkt[j].filled >= mkt[j].qty
    BY <1>1, <1>2, <1>3, <1>7 DEF Covers
  <2>2. \A x \in Exits : SymbolOf[x] = s /\ Working(mkt[x])' => x = j
    BY <1>1, <1>7 DEF OneSell
  <2>3. \A i \in Ours : SymbolOf[i] = s => ~Working(prot[i])
    BY <1>1, <1>7 DEF Sole, Over
  <2>4. Covers(s)'
    <3>1. held'[s] >= 0 /\ held'[s] + mkt'[j].filled >= mkt'[j].qty
      BY <1>1, <1>2, <1>7, <2>1
    <3> QED BY <1>0, <2>2, <2>3, <3>1 DEF Covers
  <2>5. /\ pc \in Asked /\ Sym = s => IsExit
        /\ pc = "submit" /\ IsExit => Sym # s
        /\ IsExit /\ pc \in Asked \cup {"x_close"} /\ Sym = s => cur = j
    BY <1>1, <1>7 DEF Sole, SellAlone, Over
  <2>6. cur = j => held'[s] + mkt'[cur].filled = held[s] + mkt[cur].filled
    BY <1>1, <1>2, <2>1
  <2> QED BY <1>0, <2>4, <2>5, <2>6 DEF Deal
<1> QED BY <1>5, <1>6, <1>7

\* A stop executes: it is the ledger's, or it is stray, and nothing else that
\* may sell the instrument works.
LEMMA FillStopRoom ==
  ASSUME Typed, Stops, Sole, Outside, NEW j \in Ids, FillStop(j),
         NEW s \in Symbols, ~Stray(s)', Covers(s), Deal(s)
  PROVE  Covers(s)' /\ Deal(s)'
<1>0. UNCHANGED <<pc, cur, res, pos, mkt, IsExit, Sym, Ours>>
  BY DEF Outside, FillStop, callVars, history, IsExit, Sym, Ours, InHand
<1>1. /\ \A i \in Ids : i # j => prot'[i] = prot[i]
      /\ prot'[j].qty = prot[j].qty /\ prot'[j].filled = prot[j].filled + 1
      /\ prot[j].filled < prot[j].qty
      /\ Working(prot[j])
  <2>1. /\ \A i \in Ids : i # j => prot'[i] = prot[i]
    BY BrokerStep
  <2>2. prot[j] \in BrokerOrder /\ prot'[j] = Executed(prot[j])
    BY DEF FillStop, Typed, BrokerTypeOK
  <2>3. prot'[j].qty = prot[j].qty /\ prot'[j].filled = prot[j].filled + 1
    BY <2>2 DEF BrokerOrder, Executed
  <2> QED BY <2>1, <2>3 DEF FillStop, Working
<1>2. /\ held \in [Symbols -> Int] /\ SymbolOf[j] \in Symbols
      /\ prot[j].filled \in Nat /\ prot[j].qty \in Nat
      /\ held' = [held EXCEPT ![SymbolOf[j]] = @ - 1]
  BY OrderTyped DEF Typed, BrokerTypeOK, BrokerOrder, FillStop
<1>3. Ours \subseteq Ids
  BY DEF Ours, InHand, Typed, Flags, Phase, OrderSteps, EntrySteps
<1>4. CASE s # SymbolOf[j]
  <2>1. held'[s] = held[s] /\ \A i \in Ids : SymbolOf[i] = s => prot'[i] = prot[i]
    BY <1>1, <1>2, <1>4
  <2>2. Covers(s)'
    BY <1>0, <1>3, <2>1 DEF Covers
  <2>3. Deal(s)'
    BY <1>0, <2>1 DEF Deal
  <2> QED BY <2>2, <2>3
<1>5. CASE s = SymbolOf[j]
  <2>1. j \in Ours
    BY <1>0, <1>1, <1>2, <1>5 DEF Stray
  <2>2. held'[s] = held[s] - 1 /\ held[s] \in Int /\ held[s] + prot[j].filled >= prot[j].qty
    BY <1>1, <1>2, <1>5, <2>1 DEF Covers
  <2>3. \A x \in Exits : SymbolOf[x] = s => ~Working(mkt[x])
    BY <1>1, <1>5, <2>1 DEF Sole, Over
  <2>4. \A i \in Ours : SymbolOf[i] = s /\ Working(prot[i])' => i = j
    <3>1. ASSUME NEW i \in Ours, SymbolOf[i] = s, Working(prot[i])', i # j PROVE FALSE
      BY <1>1, <1>3, <1>5, <2>1, <3>1, OneStop
    <3> QED BY <3>1
  <2>5. Covers(s)'
    <3>1. held'[s] >= 0 /\ held'[s] + prot'[j].filled >= prot'[j].qty
      BY <1>1, <1>2, <2>2
    <3> QED BY <1>0, <2>3, <2>4, <3>1 DEF Covers
  <2>6. pc \in Asked \cup {"submit", "x_close"} => Sym # s
    <3>1. pc \in Asked \cup {"submit", "x_close"} => InHand = {}
      BY DEF InHand, Asked
    <3> QED BY <1>1, <1>5, <2>1, <3>1, NoOtherStop DEF Ours, Trading
  <2> QED BY <1>0, <2>5, <2>6 DEF Deal
<1> QED BY <1>4, <1>5

\* Every step of the system keeps what is held above what may be sold.
LEMMA RoomStep ==
  ASSUME Typed, Intent, Stops, SellAlone, OneSell, Answers, Sole, Room, Next
  PROVE  Room'
<1> SUFFICES ASSUME NEW s \in Symbols, ~Stray(s)', ~Twice(s)' PROVE Covers(s)' /\ Deal(s)'
  BY DEF Room
<1>0. ~Twice(s)
  BY AgainStays DEF Twice
<1>1. Covers(s) /\ Deal(s)
  BY <1>0, StrayStays DEF Room
<1>2. CASE Submit
  BY <1>1, <1>2, SubmitRoom
<1>3. CASE PlaceStop
  BY <1>1, <1>3, PlaceStopRoom
<1>4. CASE Outside
  <2>1. PICK j \in Ids : Arrive(j) \/ FillMarket(j) \/ FillStop(j) \/ Withdraw(j)
    BY <1>4 DEF Outside, BrokerNext
  <2>2. CASE FillMarket(j)
    BY <1>1, <1>4, <2>2, FillMarketRoom
  <2>3. CASE FillStop(j)
    BY <1>1, <1>4, <2>3, FillStopRoom
  <2>4. CASE ~FillMarket(j) /\ ~FillStop(j)
    <3>1. /\ \A i \in Ids : i # j => mkt'[i] = mkt[i] /\ prot'[i] = prot[i]
          /\ mkt'[j] = mkt[j] \/ (Working(mkt[j]) /\ mkt'[j].qty = mkt[j].qty)
          /\ \/ prot'[j] = prot[j]
             \/ Working(prot[j]) /\ prot'[j].st # "none" /\ prot'[j].qty = prot[j].qty
          /\ mkt'[j].filled = mkt[j].filled /\ prot'[j].filled = prot[j].filled
          /\ UNCHANGED held
      BY <2>1, <2>4, BrokerStep
    <3>2. Calm
      BY <3>1 DEF Calm
    <3>3. ~Submit /\ ~PlaceStop
      BY <1>4 DEF Outside, Submit, PlaceStop
    <3> QED BY <1>1, <3>2, <3>3, CalmRoom
  <2> QED BY <2>2, <2>3, <2>4
<1>5. CASE ~Submit /\ ~PlaceStop /\ ~Outside
  BY <1>1, <1>5, OthersCalm, CalmRoom
<1> QED BY <1>2, <1>3, <1>4, <1>5

LEMMA InitRoom == Init => Sole /\ Room
BY DEF Init, BrokerInit, NoOrder, Working, Over, Sole, Ours, InHand, Asked, Room, Covers, Deal

LEMMA StutterRoom == ASSUME UNCHANGED vars, Sole, Room PROVE Sole' /\ Room'
<1>1. UNCHANGED <<pc, cur, res, pos, mkt, prot, held, IsExit, Sym, Ours>>
  BY DEF vars, callVars, brokerVars, history, IsExit, Sym, Ours, InHand
<1>2. \A s \in Symbols : Twice(s)' = Twice(s)
  BY DEF vars, history, Twice
<1> QED BY <1>1, <1>2 DEF Sole, Room, Stray, Covers, Deal, Over, Working

\* The account never goes net short, in spite of stops that fill while they are
\* being cancelled and of sales that are repeated after a crash: an exit is sent
\* for what the account is seen to hold, when no other order that may sell the
\* instrument works.  Left out are a stop whose answer was lost and that has sold
\* (Loose), and an id that goes out twice because Redis did not keep its claim
\* (Twice); of entries see the bound OneRow.
THEOREM NoShortHolds == Spec => []NoShort
<1>1. (Typed /\ Intent /\ Stops /\ SellAlone /\ OneSell /\ Answers) /\ (Sole /\ Room)
        /\ [Next]_vars => (Sole /\ Room)'
  BY SoleStep, RoomStep, StutterRoom
<1>2. Room => NoShort
  BY DEF Room, NoShort, Covers, Stray, Loose, Ours
<1> QED BY <1>1, <1>2, InitRoom, AnswersHold, PTL DEF Spec
=============================================================================
