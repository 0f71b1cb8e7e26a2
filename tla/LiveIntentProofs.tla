-------------------------- MODULE LiveIntentProofs --------------------------
(***************************************************************************)
(* Proofs that no order is at the broker without its durable intent, that  *)
(* no id is sent twice, unless Redis did not keep its claim, and no entry  *)
(* beside another order, and that startup does not call a broker with      *)
(* working orders clean.                                                   *)
(*                                                                         *)
(* DurableIntent is not inductive: it needs what each step of an operation *)
(* knows of the id it works for before the request is sent (Before) and of *)
(* the answer after it (After), that a free claim is that of an order that *)
(* is over (Claimed), and that an entry past its check trades alone        *)
(* (Alone).                                                                *)
(***************************************************************************)
EXTENDS LiveExecutionProofs

\* An order that is over stays over until the id is sent again.
Over(i)   == ~Working(mkt[i])
Again(i)  == i \in unclaimed \cap unlisted
OnBook(i) == Unresolved(i) \/ i \in unlisted

Ready == {"intent", "gate", "submit"}
Early == {"x_stop", "x_stopstatus", "x_qty"}

\* An id without a row was never sent, and one whose claim is free is over, unless
\* Redis did not keep the claim.
FirstRow == \A i \in Ids : row[i] = "none" => mkt[i].st = "none"
Claimed  == \A e \in Entries : e \in claims \cup unclaimed \/ Over(e)

\* From its check to its submission an entry holds its claim, and no other
\* order may trade.
Alone ==
  pc \in Ready /\ ~IsExit =>
    cur \in claims \cup unclaimed /\ \A i \in Ids : Working(mkt[i]) => i \in unlisted

\* What the steps before the submission know of the id ...
Before ==
  /\ pc = "intent" => Over(cur) \/ cur \in unclaimed
  /\ pc \in (Ready \ {"intent"}) \cup Early =>
       OnBook(cur) /\ row[cur] # "none" /\ (Over(cur) \/ Again(cur))
  /\ pc \in {"idle", "sq", "check", "down", "recovering", "ack"} \cup Ready \cup Early
       => res = NoResult

\* ... and the steps after it of the answer: an outcome that is not unknown is
\* that of an order that is over.
After ==
  /\ pc = "record" => res.status = "SUBMITTED" /\ (res.id \/ res.unknown)
  /\ pc = "poll" => res.status = "SUBMITTED"
  /\ pc \in {"cancel", "status"} => res.status \in {"SUBMITTED", "PARTIAL", "FAILED"}
  /\ pc \in {"stop", "stopack", "stopcheck", "final"} /\ ~IsExit
       => (res.unknown /\ res.status # "REJECTED") \/ Over(cur) \/ Again(cur)
  /\ pc = "x_close" => res.unknown \/ res.status = "SUBMITTED" \/ Over(cur)

\* While the process recovers, an unfinished row makes the verdict bad.
Recovering == pc = "recovering" => rbad \/ \A i \in Ids : ~Unresolved(i)

\* The inductive invariant, beside Typed.
Intent == /\ DurableIntent /\ FirstRow /\ Claimed
          /\ Alone /\ Before /\ After /\ Recovering

USE IdsAssumption, LotAssumption DEF Ids, claimVars, Listed

\* No step of the broker revives an order that is over, or invents one.
LEMMA BrokerKeepsOver ==
  ASSUME Typed, BrokerNext, NEW i \in Ids
  PROVE  /\ Over(i) => Over(i)'
         /\ mkt[i].st = "none" => mkt'[i].st = "none"
<1>1. mkt[i] \in BrokerOrder /\ mkt \in [Ids -> BrokerOrder]
  BY DEF Typed, BrokerTypeOK
<1>2. PICK j \in Ids : Arrive(j) \/ FillMarket(j) \/ FillStop(j) \/ Withdraw(j)
  BY DEF BrokerNext
<1>3. CASE UNCHANGED mkt
  BY <1>3 DEF Over
<1>4. CASE \E st \in OrderState :
             mkt[j].st \in {"transit", "open"} /\ mkt' = [mkt EXCEPT ![j].st = st]
  BY <1>1, <1>4 DEF Over, Working, BrokerOrder
<1>5. CASE mkt[j].st = "open" /\ mkt' = [mkt EXCEPT ![j] = Executed(@)]
  BY <1>1, <1>5 DEF Over, Working
<1>6. CASE Arrive(j)
  BY <1>3, <1>4, <1>6 DEF Arrive, OrderState
<1>7. CASE FillMarket(j)
  BY <1>5, <1>7 DEF FillMarket
<1>8. CASE FillStop(j)
  BY <1>3, <1>8 DEF FillStop
<1>9. CASE Withdraw(j)
  BY <1>3, <1>4, <1>9 DEF Withdraw, OrderState
<1> QED BY <1>2, <1>6, <1>7, <1>8, <1>9

\* A step that leaves rows, claims and orders alone, and the operation where it
\* is or at rest, keeps the invariant.
LEMMA QuietIntent ==
  ASSUME Typed, Intent, UNCHANGED <<mkt, row, claims, unclaimed, unlisted>>,
         \/ UNCHANGED <<pc, cur, res>>
         \/ pc' \in {"idle", "sq", "down", "check"} /\ res' = NoResult,
         pc' = "recovering" => (rbad => rbad')
  PROVE  Intent'
<1>1. DurableIntent' /\ FirstRow' /\ Claimed' /\ Recovering'
  BY DEF Intent, DurableIntent, FirstRow, Claimed, Recovering, Over, Unresolved
<1>2. CASE UNCHANGED <<pc, cur, res>>
  BY <1>1, <1>2 DEF Intent, Alone, Before, After, Over, Again, OnBook, Unresolved, IsExit
<1>3. CASE pc' \in {"idle", "sq", "down", "check"} /\ res' = NoResult
  BY <1>1, <1>3 DEF Intent, Alone, Before, After, Ready, Early
<1> QED BY <1>2, <1>3

\* BeginEntry: analyze_symbol takes the lock for an entry; the invariant is
\* kept.
LEMMA BeginEntryIntent == ASSUME Typed, Intent, NEW e \in Entries, BeginEntry(e) PROVE Intent'
BY QuietIntent DEF dbVars, history, brokerVars, BeginEntry, Intent, Before

\* Check: _pre_execution_block and the claim; the invariant is kept.
LEMMA CheckIntent == ASSUME Typed, Intent, Check PROVE Intent'
<1>1. DurableIntent'
  BY DEF Intent, DurableIntent, Unresolved, Unfinished, dbVars, history,
     brokerVars, Check, Claim
<1>2. FirstRow' /\ Claimed'
  BY DEF Intent, FirstRow, Claimed, Over, dbVars, brokerVars, Check, Claim
<1>3. Alone'
  BY DEF Intent, Alone, Ready, callVars, history, brokerVars, Check, Claim, EndOp,
     EntryBlocked, DurableIntent
<1>4. Before'
  BY DEF Typed, Phase, Values, Intent, Before, Ready, Early, Over, Again, OnBook,
     EntrySteps, ExitSteps, OrderSteps, ExitOnly, callVars, brokerVars, Check, Claim,
     EndOp, EntryBlocked, Claimed
<1>5. After'
  BY DEF Intent, After, Check, EndOp
<1>9. Recovering'
  BY DEF Recovering, Check, EndOp
<1> QED BY <1>1, <1>2, <1>3, <1>4, <1>5, <1>9 DEF Intent

\* CreatePending: create_pending; the invariant is kept.
LEMMA CreatePendingIntent == ASSUME Typed, Intent, CreatePending PROVE Intent'
<1>1. DurableIntent'
  BY DEF Typed, Values, Intent, DurableIntent, Unresolved, Unfinished, brokerVars,
     CreatePending
<1>2. FirstRow' /\ Claimed'
  BY DEF Typed, Values, Intent, FirstRow, Claimed, Over, brokerVars, CreatePending
<1>3. Alone'
  BY DEF Intent, Alone, IsExit, Ready, callVars, brokerVars, CreatePending, EndOp
<1>4. Before'
  BY DEF Typed, Phase, Values, Intent, Before, FirstRow, Working, Ready, Early, Over, Again,
     OnBook, Unresolved, Unfinished, EntrySteps, ExitSteps, OrderSteps, ExitOnly,
     callVars, brokerVars, CreatePending, EndOp
<1>5. After'
  BY DEF Intent, After, CreatePending, EndOp
<1>9. Recovering'
  BY DEF Recovering, CreatePending, EndOp
<1> QED BY <1>1, <1>2, <1>3, <1>4, <1>5, <1>9 DEF Intent

\* LiveGate: _live_allowed; the invariant is kept.
LEMMA LiveGateIntent == ASSUME Typed, Intent, LiveGate PROVE Intent'
<1>1. DurableIntent'
  BY DEF Intent, DurableIntent, Unresolved, Unfinished, dbVars, history,
     brokerVars, LiveGate
<1>2. FirstRow' /\ Claimed'
  BY DEF Intent, FirstRow, Claimed, Over, dbVars, brokerVars, LiveGate
<1>3. Alone'
  BY DEF Intent, Alone, IsExit, Ready, callVars, history, brokerVars, LiveGate
<1>4. Before'
  BY DEF Intent, Before, Ready, Early, Over, Again, OnBook, Unresolved, Unfinished,
     callVars, dbVars, history, brokerVars, LiveGate
<1>5. After'
  BY DEF Intent, Before, After, Over, Again, Ready, callVars, history,
     brokerVars, LiveGate
<1>9. Recovering'
  BY DEF Recovering, LiveGate
<1> QED BY <1>1, <1>2, <1>3, <1>4, <1>5, <1>9 DEF Intent

\* Submit: the request of _submit_live and _place_with_retry is sent; the
\* invariant is kept.
LEMMA SubmitIntent == ASSUME Typed, Intent, Submit PROVE Intent'
<1>0. /\ pc = "submit" /\ pc' = "ack" /\ cur \in Ids /\ mkt \in [Ids -> BrokerOrder]
      /\ UNCHANGED <<cur, res, row, claims, unclaimed, unlisted>>
      /\ \A i \in Ids : i # cur => mkt'[i] = mkt[i]
      /\ mkt'[cur].st = "transit"
  BY DEF Submit, Typed, Phase, OrderSteps, BrokerTypeOK, callVars, dbVars,
     history, Sent
<1>1. OnBook(cur) /\ row[cur] # "none" /\ res = NoResult /\ (cur \in Entries => cur \in claims \cup unclaimed)
  BY <1>0 DEF Intent, Before, Alone, Ready, IsExit
<1>2. DurableIntent' /\ FirstRow' /\ Claimed'
  BY <1>0, <1>1 DEF Intent, DurableIntent, FirstRow, Claimed, Over, OnBook, Unresolved
<1>3. Alone' /\ Before' /\ After'
  BY <1>0, <1>1 DEF Alone, Before, After, Ready, Early
<1>9. Recovering'
  BY DEF Recovering, Submit
<1> QED BY <1>2, <1>3, <1>9 DEF Intent

\* Ack: broker.place_order returns; the invariant is kept.
LEMMA AckIntent == ASSUME Typed, Intent, Ack PROVE Intent'
<1>1. DurableIntent'
  BY DEF Intent, DurableIntent, Unresolved, Unfinished, dbVars, history,
     brokerVars, Ack
<1>2. FirstRow' /\ Claimed'
  BY DEF Intent, FirstRow, Claimed, Over, dbVars, brokerVars, Ack
<1>3. Alone'
  BY DEF Intent, Alone, Ready, Ack
<1>4. Before'
  BY DEF Intent, Before, Ready, Early, Ack
<1>5. After'
  BY DEF Intent, Before, After, Ack, NoResult, Result
<1>9. Recovering'
  BY DEF Recovering, Ack
<1> QED BY <1>1, <1>2, <1>3, <1>4, <1>5, <1>9 DEF Intent

\* SubmitUnknown: a submission that times out or raises; the invariant is
\* kept.
LEMMA SubmitUnknownIntent == ASSUME Typed, Intent, SubmitUnknown PROVE Intent'
<1>1. DurableIntent'
  BY DEF Typed, Values, Intent, DurableIntent, Unresolved, Unfinished, brokerVars,
     SubmitUnknown, MarkUnknown
<1>2. FirstRow' /\ Claimed'
  BY DEF Intent, FirstRow, Claimed, Over, brokerVars, SubmitUnknown, MarkUnknown
<1>3. Alone'
  BY DEF Intent, Alone, Ready, SubmitUnknown
<1>4. Before'
  BY DEF Intent, Before, Ready, Early, SubmitUnknown
<1>5. After'
  BY DEF Intent, Before, After, Ready, SubmitUnknown, NoResult, Result
<1>9. Recovering'
  BY DEF Recovering, SubmitUnknown
<1> QED BY <1>1, <1>2, <1>3, <1>4, <1>5, <1>9 DEF Intent

\* UnknownUnsaved: _unknown with the database down; the invariant is kept.
LEMMA UnknownUnsavedIntent == ASSUME Typed, Intent, UnknownUnsaved PROVE Intent'
BY QuietIntent DEF dbVars, brokerVars, UnknownUnsaved, EndOp, MarkUnknownUnsaved

\* Record: _record_result of a submission; the invariant is kept.
LEMMA RecordIntent == ASSUME Typed, Intent, Record PROVE Intent'
<1>1. DurableIntent'
  BY DEF Typed, Values, Intent, DurableIntent, Unresolved, Unfinished, dbVars,
     brokerVars, Record, EndOp, Absorbed, MarkUnknown
<1>2. FirstRow' /\ Claimed'
  BY DEF Typed, Values, Intent, FirstRow, Claimed, Over, dbVars, brokerVars,
     Record, EndOp, Absorbed, MarkUnknown
<1>3. Alone'
  BY DEF Intent, Alone, Ready, Record, EndOp, Absorbed, MarkUnknown
<1>4. Before'
  BY DEF Intent, Before, Ready, Early, Record, EndOp, Absorbed, MarkUnknown
<1>5. After'
  BY DEF Intent, After, Record, EndOp, Absorbed, MarkUnknown
<1>9. Recovering'
  BY DEF Recovering, Record, EndOp, Absorbed
<1> QED BY <1>1, <1>2, <1>3, <1>4, <1>5, <1>9 DEF Intent

\* Poll: reconcile_order; the invariant is kept.
LEMMA PollIntent == ASSUME Typed, Intent, Poll PROVE Intent'
<1>1. DurableIntent'
  BY DEF Intent, DurableIntent, Unresolved, Unfinished, dbVars, history,
     brokerVars, Poll
<1>2. FirstRow' /\ Claimed'
  BY DEF Intent, FirstRow, Claimed, Over, dbVars, brokerVars, Poll
<1>3. Alone'
  BY DEF Intent, Alone, Ready, Poll, Settled
<1>4. Before'
  BY DEF Intent, Before, Ready, Early, Poll, Settled
<1>5. After'
  BY DEF Typed, Values, Intent, After, Over, Working, callVars, brokerVars, Poll,
     Settled, Result, Terminal
<1>9. Recovering'
  BY DEF Recovering, Poll, Settled
<1> QED BY <1>1, <1>2, <1>3, <1>4, <1>5, <1>9 DEF Intent

\* Cancel: cancel_order after an unfinished reconciliation; the invariant is
\* kept.
LEMMA CancelIntent == ASSUME Typed, Intent, Cancel PROVE Intent'
<1>0. pc = "cancel" /\ cur \in Ids /\ row \in [Ids -> RowStatus] /\ UNCHANGED <<claims, unclaimed>>
  BY DEF Cancel, Typed, Phase, Values, OrderSteps
<1>1. \A i \in Ids : (Over(i) => Over(i)') /\ (mkt[i].st = "none" => mkt'[i].st = "none")
  <2>1. mkt \in [Ids -> BrokerOrder] /\ mkt[cur] \in BrokerOrder
    BY <1>0 DEF Typed, BrokerTypeOK
  <2>2. CASE mkt' = mkt
    BY <2>2 DEF Over
  <2>3. CASE mkt' = [mkt EXCEPT ![cur].st = IF @ = "open" THEN "cancelled" ELSE @]
    <3>1. CASE mkt[cur].st = "open"
      BY <1>0, <2>1, <2>3, <3>1 DEF BrokerOrder, Over, Working
    <3>2. CASE mkt[cur].st # "open"
      BY <1>0, <2>1, <2>3, <3>2 DEF BrokerOrder, Over
    <3> QED BY <3>1, <3>2
  <2> QED BY <2>2, <2>3 DEF Cancel
<1>2. \/ row' = row /\ unlisted' \in {unlisted, unlisted \ ({None} \ unclaimed)}
      \/ row' = [row EXCEPT ![cur] = "unknown"] /\ unlisted' = unlisted \ ({cur} \ unclaimed)
  BY <1>0 DEF Cancel, Absorbed, MarkUnknown, dbVars
<1>3. DurableIntent' /\ FirstRow' /\ Claimed'
  <2>1. \A i \in Ids : /\ OnBook(i) => OnBook(i)'
                       /\ row'[i] = "none" => row[i] = "none"
    BY <1>0, <1>2 DEF OnBook, Unresolved, Unfinished, RowStatus
  <2> QED BY <1>0, <1>1, <2>1 DEF Intent, DurableIntent, FirstRow, Claimed, Over,
     OnBook
<1>4. Alone'
  BY <1>0 DEF Alone, Cancel, Absorbed, EndOp, Ready
<1>5. Before'
  BY <1>0 DEF Before, Cancel, Absorbed, EndOp, Ready, Early
<1>6. After'
  BY <1>0 DEF Intent, After, Cancel, Absorbed, EndOp, Typed, Values, Result
<1>9. Recovering'
  BY DEF Recovering, Cancel, EndOp, Absorbed
<1> QED BY <1>3, <1>4, <1>5, <1>6, <1>9 DEF Intent

\* Status: fetch_order_status after the cancel; the invariant is kept.
LEMMA StatusIntent == ASSUME Typed, Intent, Status PROVE Intent'
<1>1. DurableIntent'
  BY DEF Typed, Values, Intent, DurableIntent, Unresolved, Unfinished, dbVars,
     brokerVars, Status, EndOp, MarkUnknown
<1>2. FirstRow' /\ Claimed'
  BY DEF Typed, Values, Intent, FirstRow, Claimed, Over, dbVars, brokerVars,
     Status, EndOp, MarkUnknown
<1>3. Alone'
  BY DEF Intent, Alone, Ready, Status, EndOp, Settled
<1>4. Before'
  BY DEF Intent, Before, Ready, Early, Status, EndOp, Settled
<1>5. After'
  BY DEF Typed, Values, Intent, After, Over, Working, callVars, brokerVars,
     Status, EndOp, Settled, Result, Terminal
<1>9. Recovering'
  BY DEF Recovering, Status, EndOp, Settled
<1> QED BY <1>1, <1>2, <1>3, <1>4, <1>5, <1>9 DEF Intent

\* PlaceStop: _attach_stop_loss sends the stop (for an exit, of a residual
\* that is a natural number); the invariant is kept.
LEMMA PlaceStopIntent == ASSUME Typed, Intent, PlaceStop PROVE Intent'
<1>1. DurableIntent'
  BY DEF Intent, DurableIntent, Unresolved, Unfinished, dbVars, history, PlaceStop
<1>2. FirstRow' /\ Claimed'
  BY DEF Intent, FirstRow, Claimed, Over, dbVars, PlaceStop
<1>3. Alone'
  BY DEF Intent, Alone, Ready, PlaceStop
<1>4. Before'
  BY DEF Intent, Before, Ready, Early, PlaceStop
<1>5. After'
  BY DEF Intent, After, IsExit, Over, Again, callVars, PlaceStop
<1>9. Recovering'
  BY DEF Recovering, PlaceStop
<1> QED BY <1>1, <1>2, <1>3, <1>4, <1>5, <1>9 DEF Intent

\* StopAck: place_stop_loss returns; the invariant is kept.
LEMMA StopAckIntent == ASSUME Typed, Intent, StopAck PROVE Intent'
<1>1. DurableIntent'
  BY DEF Intent, DurableIntent, Unresolved, Unfinished, dbVars, history,
     brokerVars, StopAck
<1>2. FirstRow' /\ Claimed'
  BY DEF Intent, FirstRow, Claimed, Over, dbVars, brokerVars, StopAck
<1>3. Alone'
  BY DEF Intent, Alone, Ready, StopAck
<1>4. Before'
  BY DEF Intent, Before, Ready, Early, StopAck
<1>5. After'
  BY DEF Intent, After, IsExit, Over, Again, callVars, history, brokerVars,
     StopAck
<1>9. Recovering'
  BY DEF Recovering, StopAck
<1> QED BY <1>1, <1>2, <1>3, <1>4, <1>5, <1>9 DEF Intent

\* StopConfirmed: the stop is confirmed as working; the invariant is kept.
LEMMA StopConfirmedIntent == ASSUME Typed, Intent, StopConfirmed PROVE Intent'
<1>1. DurableIntent'
  BY DEF Intent, DurableIntent, Unresolved, Unfinished, dbVars, brokerVars,
     StopConfirmed
<1>2. FirstRow' /\ Claimed'
  BY DEF Intent, FirstRow, Claimed, Over, dbVars, brokerVars, StopConfirmed
<1>3. Alone'
  BY DEF Intent, Alone, Ready, StopConfirmed, Attached
<1>4. Before'
  BY DEF Intent, Before, Ready, Early, StopConfirmed, Attached
<1>5. After'
  BY DEF Intent, After, Over, Again, callVars, brokerVars, StopConfirmed, Attached
<1>9. Recovering'
  BY DEF Recovering, StopConfirmed, Attached
<1> QED BY <1>1, <1>2, <1>3, <1>4, <1>5, <1>9 DEF Intent

\* StopUnconfirmed: the stop is not confirmed; the invariant is kept.
LEMMA StopUnconfirmedIntent == ASSUME Typed, Intent, StopUnconfirmed PROVE Intent'
<1>1. DurableIntent'
  BY DEF Typed, Values, Intent, DurableIntent, Unresolved, Unfinished, brokerVars,
     StopUnconfirmed, MarkUnknown
<1>2. FirstRow' /\ Claimed'
  BY DEF Intent, FirstRow, Claimed, Over, brokerVars, StopUnconfirmed, MarkUnknown
<1>3. Alone'
  BY DEF Intent, Alone, Ready, StopUnconfirmed, Attached
<1>4. Before'
  BY DEF Intent, Before, Ready, Early, StopUnconfirmed, Attached
<1>5. After'
  BY DEF Intent, After, Over, Again, callVars, brokerVars, StopUnconfirmed,
     MarkUnknown, Attached
<1>9. Recovering'
  BY DEF Recovering, StopUnconfirmed, Attached
<1> QED BY <1>1, <1>2, <1>3, <1>4, <1>5, <1>9 DEF Intent

\* RecordFinal: _record_result of a final result; the invariant is kept.
LEMMA RecordFinalIntent == ASSUME Typed, Intent, RecordFinal PROVE Intent'
<1>0. pc = "final" /\ cur \in Entries /\ row \in [Ids -> RowStatus] /\ UNCHANGED mkt
  BY DEF RecordFinal, Typed, Phase, Values, EntrySteps, brokerVars
<1>1. (res.unknown /\ res.status # "REJECTED") \/ Over(cur) \/ Again(cur)
  BY <1>0 DEF Intent, After, IsExit
<1>2. DurableIntent' /\ FirstRow' /\ Claimed'
  <2>1. CASE UNCHANGED <<row, unlisted, claims, unclaimed>>
    BY <1>0, <2>1 DEF Intent, DurableIntent, FirstRow, Claimed, Over, Unresolved
  <2>2. CASE /\ row' = [row EXCEPT ![cur] = RowOf(res)]
             /\ unlisted' = unlisted \ ({cur} \ unclaimed)
             /\ claims' # claims => claims' = claims \ {cur} /\ (res.status = "REJECTED" \/ cur \in unclaimed')
             /\ unclaimed \subseteq unclaimed'
    <3>1. RowOf(res) # "none" /\ (res.unknown => RowOf(res) = "unknown")
      BY DEF RowOf, Result
    <3>2. Working(mkt[cur]) => row'[cur] \in Unfinished \/ cur \in unlisted'
      <4>1. row'[cur] = RowOf(res)
        BY <1>0, <2>2
      <4> QED BY <1>1, <2>2, <3>1, <4>1 DEF Over, Again, Unfinished
    <3>3. \A i \in Ids : i # cur => row'[i] = row[i] /\ (i \in unlisted => i \in unlisted')
      BY <1>0, <2>2
    <3>4. DurableIntent'
      <4>1. \A i \in Ids : i # cur /\ Working(mkt[i]) =>
              row'[i] \in Unfinished \/ i \in unlisted'
        BY <3>3 DEF Intent, DurableIntent, Unresolved
      <4> QED BY <1>0, <3>2, <4>1 DEF DurableIntent, Unresolved
    <3>5. FirstRow'
      BY <1>0, <2>2, <3>1, <3>3 DEF Intent, FirstRow
    <3>6. Claimed'
      BY <1>0, <1>1, <2>2 DEF Intent, Claimed, Over, Again
    <3> QED BY <3>4, <3>5, <3>6
  <2> QED BY <2>1, <2>2 DEF RecordFinal, Released
<1>3. Alone' /\ Before' /\ After'
  BY <1>0 DEF RecordFinal, EndOp, Alone, Before, After, Ready, Early
<1>9. Recovering'
  BY DEF Recovering, RecordFinal, EndOp
<1> QED BY <1>2, <1>3, <1>9 DEF Intent

\* RecordFill: record_fill in memory; the invariant is kept.
LEMMA RecordFillIntent == ASSUME Typed, Intent, RecordFill PROVE Intent'
<1>1. DurableIntent'
  BY DEF Intent, DurableIntent, Unresolved, Unfinished, dbVars, brokerVars, RecordFill
<1>2. FirstRow' /\ Claimed'
  BY DEF Intent, FirstRow, Claimed, Over, dbVars, brokerVars, RecordFill
<1>3. Alone'
  BY DEF Intent, Alone, Ready, RecordFill
<1>4. Before'
  BY DEF Intent, Before, Ready, Early, RecordFill
<1>5. After'
  BY DEF Intent, After, RecordFill
<1>9. Recovering'
  BY DEF Recovering, RecordFill
<1> QED BY <1>1, <1>2, <1>3, <1>4, <1>5, <1>9 DEF Intent

\* CommitFill: record_fill in the database; the invariant is kept.
LEMMA CommitFillIntent == ASSUME Typed, Intent, CommitFill PROVE Intent'
BY QuietIntent DEF history, brokerVars, CommitFill, EndOp

\* AnalysisTimeout: asyncio.wait_for in analyze_symbol cancels the operation;
\* the invariant is kept.
LEMMA AnalysisTimeoutIntent == ASSUME Typed, Intent, AnalysisTimeout PROVE Intent'
<1>1. DurableIntent'
  BY DEF Typed, Values, Intent, DurableIntent, Unresolved, Unfinished, dbVars,
     brokerVars, AnalysisTimeout, EndOp, Absorbed, MarkUnknown
<1>2. FirstRow' /\ Claimed'
  BY DEF Typed, Values, Intent, FirstRow, Claimed, Over, dbVars, brokerVars,
     AnalysisTimeout, EndOp, Absorbed, MarkUnknown
<1>3. Alone'
  BY DEF Intent, Alone, Ready, AnalysisTimeout, EndOp, Absorbed, MarkUnknown
<1>4. Before'
  BY DEF Intent, Before, Ready, Early, AnalysisTimeout, EndOp, Absorbed, MarkUnknown
<1>5. After'
  BY DEF Typed, Values, Intent, After, AnalysisTimeout, EndOp, Absorbed,
     MarkUnknown, Result
<1>9. Recovering'
  BY DEF Recovering, AnalysisTimeout, EndOp, Absorbed
<1> QED BY <1>1, <1>2, <1>3, <1>4, <1>5, <1>9 DEF Intent

\* BeginExit: place_exit up to the row of the exit; the invariant is kept.
LEMMA BeginExitIntent == ASSUME Typed, Intent, NEW x \in Exits, BeginExit(x) PROVE Intent'
<1>1. DurableIntent'
  BY DEF Intent, DurableIntent, Unresolved, Unfinished, history, brokerVars, BeginExit
<1>2. FirstRow' /\ Claimed'
  BY DEF Intent, FirstRow, Claimed, Over, brokerVars, BeginExit
<1>3. Alone'
  BY DEF Intent, Alone, IsExit, BeginExit
<1>4. Before'
  BY DEF Typed, Values, Intent, Before, Over, Again, OnBook, Unresolved, Unfinished,
     Working, brokerVars, BeginExit, FirstRow
<1>5. After'
  BY DEF Intent, After, BeginExit
<1>9. Recovering'
  BY DEF Recovering, BeginExit
<1> QED BY <1>1, <1>2, <1>3, <1>4, <1>5, <1>9 DEF Intent

\* BeginExitDbDown: place_exit with the database down; the invariant is kept.
LEMMA BeginExitDbDownIntent == ASSUME Typed, Intent, NEW s \in Symbols, BeginExitDbDown(s) PROVE Intent'
BY QuietIntent DEF callVars, dbVars, brokerVars, BeginExitDbDown, MarkUnknownUnsaved

\* SkipExit: eod_square_off meets a position it cannot exit; the invariant is
\* kept.
LEMMA SkipExitIntent == ASSUME Typed, Intent, NEW s \in Symbols, SkipExit(s) PROVE Intent'
BY QuietIntent DEF callVars, dbVars, history, brokerVars, SkipExit

\* CancelStop: _place_exit cancels the position's stop; the invariant is
\* kept.
LEMMA CancelStopIntent == ASSUME Typed, Intent, CancelStop PROVE Intent'
<1>1. DurableIntent'
  BY DEF Typed, Values, Intent, DurableIntent, Unresolved, Unfinished, dbVars,
     CancelStop, EndOp, Absorbed, MarkUnknown
<1>2. FirstRow' /\ Claimed'
  BY DEF Typed, Values, Intent, FirstRow, Claimed, Over, dbVars, CancelStop,
     EndOp, Absorbed, MarkUnknown
<1>3. Alone'
  BY DEF Intent, Alone, Ready, CancelStop, EndOp, Absorbed, MarkUnknown
<1>4. Before'
  BY DEF Intent, Before, Ready, Early, Over, Again, OnBook, Unresolved, Unfinished,
     callVars, dbVars, CancelStop, EndOp, Absorbed, MarkUnknown
<1>5. After'
  BY DEF Typed, Phase, ExitOnly, IsExit, After, CancelStop, EndOp, Absorbed
<1>9. Recovering'
  BY DEF Recovering, CancelStop, EndOp, Absorbed
<1> QED BY <1>1, <1>2, <1>3, <1>4, <1>5, <1>9 DEF Intent

\* StopStatus: _place_exit reads the cancelled stop back; the invariant is
\* kept.
LEMMA StopStatusIntent == ASSUME Typed, Intent, StopStatus PROVE Intent'
<1>0. /\ pc = "x_stopstatus" /\ cur \in Exits /\ row \in [Ids -> RowStatus]
      /\ UNCHANGED <<mkt, claims, unclaimed>>
  BY DEF StopStatus, Typed, Phase, Values, ExitOnly, brokerVars
<1>1. \/ UNCHANGED <<row, unlisted>>
      \/ row' = [row EXCEPT ![cur] = "unknown"] /\ unlisted' = unlisted \ ({cur} \ unclaimed)
  BY <1>0 DEF StopStatus, MarkUnknown, dbVars
<1>2. DurableIntent' /\ FirstRow' /\ Claimed'
  BY <1>0, <1>1 DEF Intent, DurableIntent, FirstRow, Claimed, Over, Unresolved,
     Unfinished
<1>3. Alone' /\ After'
  BY <1>0 DEF StopStatus, EndOp, Alone, After, Ready
<1>4. Before'
  <2>1. CASE pc' = "x_qty" /\ UNCHANGED <<callVars, res, dbVars, unlisted>>
    BY <1>0, <2>1 DEF Intent, Before, Early, Over, Again, OnBook, Unresolved, callVars,
       dbVars
  <2>2. CASE pc' = "x_book" \/ EndOp
    BY <2>2 DEF Before, EndOp, Ready, Early
  <2> QED BY <2>1, <2>2 DEF StopStatus
<1>9. Recovering'
  BY DEF Recovering, StopStatus, EndOp
<1> QED BY <1>2, <1>3, <1>4, <1>9 DEF Intent

\* CheckQuantity: _place_exit compares the broker's quantity; the invariant
\* is kept.
LEMMA CheckQuantityIntent == ASSUME Typed, Intent, CheckQuantity PROVE Intent'
<1>1. DurableIntent'
  BY DEF Typed, Values, Intent, DurableIntent, Unresolved, Unfinished, dbVars,
     brokerVars, CheckQuantity, EndOp, Absorbed, MarkUnknown
<1>2. FirstRow' /\ Claimed'
  BY DEF Typed, Values, Intent, FirstRow, Claimed, Over, dbVars, brokerVars,
     CheckQuantity, EndOp, Absorbed, MarkUnknown
<1>3. Alone'
  BY DEF Typed, Phase, Values, Intent, Alone, IsExit, Ready, EntrySteps,
     ExitSteps, OrderSteps, ExitOnly, callVars, CheckQuantity, EndOp, Absorbed,
     MarkUnknown
<1>4. Before'
  BY DEF Intent, Before, Ready, Early, Over, Again, OnBook, Unresolved, Unfinished,
     callVars, dbVars, brokerVars, CheckQuantity, EndOp, Absorbed, MarkUnknown
<1>5. After'
  BY DEF Typed, Phase, ExitOnly, IsExit, After, CheckQuantity, EndOp, Absorbed
<1>9. Recovering'
  BY DEF Recovering, CheckQuantity, EndOp, Absorbed
<1> QED BY <1>1, <1>2, <1>3, <1>4, <1>5, <1>9 DEF Intent

\* CloseExit: _place_exit finishes the exit's row; the invariant is kept.
LEMMA CloseExitIntent == ASSUME Typed, Intent, CloseExit PROVE Intent'
<1>1. DurableIntent'
  BY DEF Typed, Values, Intent, After, DurableIntent, Unresolved, Unfinished,
     Over, OnBook, brokerVars, CloseExit, MarkUnknown
<1>2. FirstRow' /\ Claimed'
  BY DEF Typed, Values, Intent, FirstRow, Claimed, Over, brokerVars, CloseExit,
     MarkUnknown
<1>3. Alone'
  BY DEF Intent, Alone, Ready, CloseExit
<1>4. Before'
  BY DEF Intent, Before, Ready, Early, CloseExit
<1>5. After'
  BY DEF Intent, After, Over, callVars, brokerVars, CloseExit
<1>9. Recovering'
  BY DEF Recovering, CloseExit
<1> QED BY <1>1, <1>2, <1>3, <1>4, <1>5, <1>9 DEF Intent

\* BookExit: record_exit in memory (a booked quantity never exceeds the
\* position's); the invariant is kept.
LEMMA BookExitIntent == ASSUME Typed, Intent, BookExit PROVE Intent'
<1>1. DurableIntent'
  BY DEF Intent, DurableIntent, Unresolved, Unfinished, dbVars, history,
     brokerVars, BookExit
<1>2. FirstRow' /\ Claimed'
  BY DEF Intent, FirstRow, Claimed, Over, dbVars, brokerVars, BookExit
<1>3. Alone'
  BY DEF Intent, Alone, Ready, BookExit, EndOp
<1>4. Before'
  BY DEF Intent, Before, Ready, Early, BookExit, EndOp
<1>5. After'
  BY DEF Intent, After, BookExit, EndOp
<1>9. Recovering'
  BY DEF Recovering, BookExit, EndOp
<1> QED BY <1>1, <1>2, <1>3, <1>4, <1>5, <1>9 DEF Intent

\* CommitExit: record_exit in the database; the invariant is kept.
LEMMA CommitExitIntent == ASSUME Typed, Intent, CommitExit PROVE Intent'
<1>1. DurableIntent'
  BY DEF Intent, DurableIntent, Unresolved, Unfinished, history, brokerVars,
     CommitExit
<1>2. FirstRow' /\ Claimed'
  BY DEF Intent, FirstRow, Claimed, Over, brokerVars, CommitExit
<1>3. Alone'
  BY DEF Intent, Alone, Ready, CommitExit, EndOp
<1>4. Before'
  BY DEF Intent, Before, Ready, Early, CommitExit, EndOp
<1>5. After'
  BY DEF Intent, After, CommitExit, EndOp
<1>9. Recovering'
  BY DEF Recovering, CommitExit, EndOp
<1> QED BY <1>1, <1>2, <1>3, <1>4, <1>5, <1>9 DEF Intent

\* CloseRow: _close_position closes the entry row; the invariant is kept.
LEMMA CloseRowIntent == ASSUME Typed, Intent, CloseRow PROVE Intent'
<1>1. DurableIntent'
  BY DEF Typed, Values, Intent, DurableIntent, Unresolved, Unfinished, brokerVars,
     CloseRow
<1>2. FirstRow' /\ Claimed'
  BY DEF Typed, Values, Intent, FirstRow, Claimed, Over, brokerVars, CloseRow
<1>3. Alone'
  BY DEF Intent, Alone, Ready, CloseRow, EndOp
<1>4. Before'
  BY DEF Intent, Before, Ready, Early, CloseRow, EndOp
<1>5. After'
  BY DEF Intent, After, CloseRow, EndOp
<1>9. Recovering'
  BY DEF Recovering, CloseRow, EndOp
<1> QED BY <1>1, <1>2, <1>3, <1>4, <1>5, <1>9 DEF Intent

\* BookStop: _check_position books a stop that has sold; the invariant is
\* kept.
LEMMA BookStopIntent == ASSUME Typed, Intent, NEW s \in Symbols, BookStop(s) PROVE Intent'
<1>1. DurableIntent'
  BY DEF Intent, DurableIntent, Unresolved, Unfinished, dbVars, history,
     brokerVars, BookStop
<1>2. FirstRow' /\ Claimed'
  BY DEF Intent, FirstRow, Claimed, Over, dbVars, brokerVars, BookStop
<1>3. Alone'
  BY DEF Intent, Alone, Ready, BookStop
<1>4. Before'
  BY DEF Intent, Before, Ready, Early, BookStop
<1>5. After'
  BY DEF Intent, After, BookStop
<1>9. Recovering'
  BY DEF Recovering, BookStop
<1> QED BY <1>1, <1>2, <1>3, <1>4, <1>5, <1>9 DEF Intent

\* StopProblem: _check_position meets a protection problem; the invariant is
\* kept.
LEMMA StopProblemIntent == ASSUME Typed, Intent, NEW s \in Symbols, StopProblem(s) PROVE Intent'
BY QuietIntent DEF callVars, dbVars, history, brokerVars, StopProblem

\* BrokerDoubt: _sync_missing, or a failed broker query; the invariant is
\* kept.
LEMMA BrokerDoubtIntent == ASSUME Typed, Intent, BrokerDoubt PROVE Intent'
BY QuietIntent DEF callVars, dbVars, history, brokerVars, BrokerDoubt

\* BeginSquareOff: eod_square_off begins; the invariant is kept.
LEMMA BeginSquareOffIntent == ASSUME Typed, Intent, BeginSquareOff PROVE Intent'
BY QuietIntent DEF dbVars, history, brokerVars, BeginSquareOff, Intent, Before

\* EndSquareOff: eod_square_off ends; the invariant is kept.
LEMMA EndSquareOffIntent == ASSUME Typed, Intent, EndSquareOff PROVE Intent'
BY QuietIntent DEF history, brokerVars, EndSquareOff, Intent, Before

\* Halt: emergency_shutdown; the invariant is kept.
LEMMA HaltIntent == ASSUME Typed, Intent, Halt PROVE Intent'
BY QuietIntent DEF callVars, history, brokerVars, Halt

\* Resume: resume_trading; the invariant is kept.
LEMMA ResumeIntent == ASSUME Typed, Intent, Resume PROVE Intent'
BY QuietIntent DEF callVars, history, brokerVars, Resume

\* BeginRetry: retry_reconciliation reads the rows; the invariant is kept.
LEMMA BeginRetryIntent == ASSUME Typed, Intent, BeginRetry PROVE Intent'
BY QuietIntent DEF callVars, dbVars, history, brokerVars, BeginRetry

\* Compare: reconcile_on_startup compares broker and ledger; the invariant is
\* kept.
LEMMA CompareIntent == ASSUME Typed, Intent, Compare PROVE Intent'
BY QuietIntent DEF callVars, dbVars, history, brokerVars, Compare

\* Apply: the verdict of reconcile_on_startup is set; the invariant is kept.
LEMMA ApplyIntent == ASSUME Typed, Intent, Apply PROVE Intent'
BY QuietIntent DEF callVars, dbVars, brokerVars, Apply, Intent, Before

\* Crash: the process dies; the invariant is kept.
LEMMA CrashIntent == ASSUME Typed, Intent, Crash PROVE Intent'
BY QuietIntent DEF dbVars, brokerVars, Crash

\* Restart: recover; the invariant is kept.
LEMMA RestartIntent == ASSUME Typed, Intent, Restart PROVE Intent'
<1>1. DurableIntent'
  BY DEF Intent, DurableIntent, Unresolved, Unfinished, dbVars, history,
     brokerVars, Restart
<1>2. FirstRow' /\ Claimed'
  BY DEF Intent, FirstRow, Claimed, Over, dbVars, brokerVars, Restart, Seed
<1>3. Alone'
  BY DEF Intent, Alone, Ready, Restart
<1>4. Before'
  BY DEF Intent, Before, Ready, Early, Restart
<1>5. After'
  BY DEF Intent, After, Restart
<1>9. Recovering'
  BY DEF Recovering, Restart, Unresolved, dbVars
<1> QED BY <1>1, <1>2, <1>3, <1>4, <1>5, <1>9 DEF Intent

\* Outside: a step of the broker; the invariant is kept.
LEMMA OutsideIntent == ASSUME Typed, Intent, Outside PROVE Intent'
<1>1. \A i \in Ids : (Over(i) => Over(i)') /\ (mkt[i].st = "none" => mkt'[i].st = "none")
  BY BrokerKeepsOver DEF Outside
<1>2. cur \in Ids \cup {None} /\ Phase
  BY DEF Typed, Flags
<1>3. UNCHANGED <<pc, cur, res, row, claims, unclaimed, unlisted>>
  BY DEF Outside, callVars, dbVars, history
<1>4. Recovering'
  BY <1>3 DEF Intent, Recovering, Unresolved, Outside, recVars
<1> QED
  BY <1>1, <1>2, <1>3, <1>4 DEF Phase, Intent, DurableIntent, Unresolved,
     FirstRow, Claimed,
     Alone, Before, After, OnBook, Over, Again, IsExit, Ready, Early, EntrySteps, ExitSteps, OrderSteps, ExitOnly

-----------------------------------------------------------------------------
(* The theorems                                                            *)

\* The process starts with no orders and no rows.
LEMMA InitIntent == Init => Intent
BY DEF Init, BrokerInit, NoOrder, Intent, DurableIntent, FirstRow, Claimed, Alone,
   Before, After, Recovering, Over, Working, Ready, Early

\* A step that changes nothing keeps the invariant.
LEMMA StutterIntent == ASSUME Typed, Intent, UNCHANGED vars PROVE Intent'
BY DEF vars, callVars, recVars, dbVars, brokerVars, history, Intent, DurableIntent,
   FirstRow, Claimed, Alone, Before, After, Recovering, Over, Again, OnBook, Working,
   Unresolved, IsExit

\* Every step of the system keeps the invariant.
LEMMA NextIntent == ASSUME Typed, Intent, [Next]_vars PROVE Intent'
<1>1. CASE OrderStep
  BY <1>1, SubmitIntent, AckIntent, SubmitUnknownIntent, RecordIntent, PollIntent,
     CancelIntent, StatusIntent, PlaceStopIntent, StopAckIntent, StopConfirmedIntent,
     StopUnconfirmedIntent DEF OrderStep
<1>2. CASE EntryStep
  BY <1>2, CheckIntent, CreatePendingIntent, LiveGateIntent, RecordFinalIntent,
     RecordFillIntent, CommitFillIntent DEF EntryStep
<1>3. CASE ExitStep
  BY <1>3, CancelStopIntent, StopStatusIntent, CheckQuantityIntent, CloseExitIntent,
     BookExitIntent, CommitExitIntent, CloseRowIntent DEF ExitStep
<1>4. CASE Sweep
  BY <1>4, BeginExitIntent, BeginExitDbDownIntent, SkipExitIntent, EndSquareOffIntent
     DEF Sweep
<1>5. CASE Locked
  BY <1>1, <1>2, <1>3, <1>4, <1>5, BeginExitIntent, BookStopIntent, BeginEntryIntent,
     StopProblemIntent, BeginExitDbDownIntent, UnknownUnsavedIntent,
     BeginSquareOffIntent DEF Locked, Lifecycle
<1>6. CASE Unlocked
  BY <1>6, AnalysisTimeoutIntent, BrokerDoubtIntent, HaltIntent, ResumeIntent,
     BeginRetryIntent, CompareIntent, ApplyIntent, CrashIntent, RestartIntent
     DEF Unlocked
<1>7. CASE Outside
  BY <1>7, OutsideIntent
<1>8. CASE UNCHANGED vars
  BY <1>8, StutterIntent
<1> QED BY <1>5, <1>6, <1>7, <1>8 DEF Next

\* Startup ends with the verdict of its reconciliation, and in no other way.
LEMMA RecoveryEnds ==
  ASSUME Next, pc = "recovering", pc' = "idle"
  PROVE  Apply
<1>1. ~OrderStep /\ ~EntryStep /\ ~ExitStep /\ ~Sweep
  BY DEF OrderStep, EntryStep, ExitStep, Sweep, Submit, Ack, SubmitUnknown,
     Record, Poll, Cancel, Status, PlaceStop, StopAck, StopConfirmed, StopUnconfirmed,
     Check, CreatePending, LiveGate, RecordFinal, RecordFill, CommitFill, CancelStop,
     StopStatus, CheckQuantity, CloseExit, BookExit, CommitExit, CloseRow
<1>2. ~Locked
  BY <1>1 DEF Locked, Lifecycle, BeginEntry, BookStop, StopProblem, BeginSquareOff,
     UnknownUnsaved, OrderSteps
<1>3. ~Outside
  BY DEF Outside
<1> QED
  BY <1>2, <1>3 DEF Next, Unlocked, AnalysisTimeout, BrokerDoubt, Halt, Resume,
     BeginRetry, Compare, Crash, Restart

\* The invariant holds of every behaviour.
LEMMA IntentHolds == Spec => [](Typed /\ Intent)
<1>1. Init => Typed /\ Intent
  BY InitTyped, InitIntent
<1>2. (Typed /\ Intent) /\ [Next]_vars => (Typed /\ Intent)'
  BY NextTyped, NextIntent
<1> QED BY <1>1, <1>2, PTL DEF Spec

\* An order that may still trade has an unfinished row: create_pending commits
\* it before the request, and only a final answer of the broker, or an unknown
\* outcome, replaces it.
THEOREM DurableIntentHolds == Spec => []DurableIntent
BY IntentHolds, PTL DEF Intent

\* An entry is sent only when no other order may trade.
THEOREM SubmissionAloneHolds == Spec => SubmissionAlone
<1>1. Typed /\ Intent /\ [Next]_vars =>
        [pc = "submit" /\ pc' = "ack" /\ ~IsExit =>
           \A i \in Ids : Working(mkt[i]) => i \in unlisted]_vars
  BY DEF Intent, Alone, Ready
<1> QED BY <1>1, IntentHolds, PTL DEF Spec, SubmissionAlone

\* No client id is sent while an order of that id may still trade, unless Redis
\* did not keep its claim.
THEOREM SentOnceHolds == Spec => SentOnce
<1>1. Typed /\ Intent /\ [Next]_vars =>
        [pc = "submit" /\ pc' = "ack" /\ Working(mkt[cur]) => cur \in unclaimed]_vars
  BY DEF Intent, Before, Ready, Over, Again
<1> QED BY <1>1, IntentHolds, PTL DEF Spec, SentOnce

\* Startup reconciliation ends DEGRADED unless no order may still trade.
THEOREM RecoveryFlagsHold == Spec => RecoveryFlags
<1>1. Typed /\ Intent /\ [Next]_vars =>
        [pc = "recovering" /\ pc' = "idle" =>
           degraded' \/ \A i \in Ids : Working(mkt[i]) => i \in unlisted]_vars
  <2> SUFFICES ASSUME Typed, Intent, Next, pc = "recovering", pc' = "idle"
               PROVE  degraded' \/ \A i \in Ids : Working(mkt[i]) => i \in unlisted
    OBVIOUS
  <2>1. Apply
    BY RecoveryEnds
  <2> QED BY <2>1 DEF Apply, Intent, Recovering, DurableIntent
<1> QED BY <1>1, IntentHolds, PTL DEF Spec, RecoveryFlags

-----------------------------------------------------------------------------
(* LiveExecution implements OrderIntent                                    *)

\* Between the submission and the broker only a cancellation touches an order.
LEMMA WhoTouchesOrders == Next => Submit \/ Cancel \/ Outside \/ UNCHANGED mkt
<1>1. OrderStep => Submit \/ Cancel \/ UNCHANGED mkt
  BY DEF OrderStep, Ack, SubmitUnknown, Record, Poll, Status, PlaceStop, StopAck,
     StopConfirmed, StopUnconfirmed, brokerVars
<1>2. EntryStep => UNCHANGED mkt
  BY DEF EntryStep, Check, CreatePending, LiveGate, RecordFinal, RecordFill, CommitFill,
     brokerVars
<1>3. ExitStep => UNCHANGED mkt
  BY DEF ExitStep, CancelStop, StopStatus, CheckQuantity, CloseExit, BookExit,
     CommitExit, CloseRow, brokerVars
<1>4. Sweep => UNCHANGED mkt
  BY DEF Sweep, BeginExit, BeginExitDbDown, SkipExit, EndSquareOff, brokerVars
<1>5. Unlocked => UNCHANGED mkt
  BY DEF Unlocked, AnalysisTimeout, BrokerDoubt, Halt, Resume, BeginRetry, Compare,
     Apply, Crash, Restart, brokerVars
<1>6. Locked => OrderStep \/ UNCHANGED mkt
  BY <1>2, <1>3, <1>4 DEF Locked, Lifecycle, BeginEntry, BeginExit, BookStop,
     StopProblem, BeginExitDbDown, UnknownUnsaved, BeginSquareOff, brokerVars
<1> QED BY <1>1, <1>5, <1>6 DEF Next

\* A step that ends at most one order and leaves the records alone is Over.
LEMMA EndsOne ==
  ASSUME Typed, UNCHANGED <<row, unlisted, unclaimed>>, NEW j \in Ids,
         \A i \in Ids : i # j => mkt'[i] = mkt[i],
         Working(mkt[j])' => Working(mkt[j])
  PROVE  [Intents!Next]_(Intents!intentVars)
<1> DEFINE live == {i \in Ids : Working(mkt[i])}
<1>1. \A i \in Ids \ {j} : Working(mkt[i])' <=> Working(mkt[i])
  BY DEF Working
<1>2. CASE live' = live
  BY <1>2 DEF Intents!intentVars, Unresolved
<1>3. CASE live' # live
  <2>1. j \in live /\ live' = live \ {j}
    BY <1>1, <1>3
  <2> QED BY <2>1 DEF Intents!Next, Intents!Over, Unresolved
<1> QED BY <1>2, <1>3

\* The order is sent under its row, once, and an entry alone.
LEMMA SubmitSends ==
  ASSUME Typed, Intent, Submit
  PROVE  Intents!Send(cur)
<1>1. cur \in Ids /\ OnBook(cur) /\ (Over(cur) \/ cur \in unclaimed)
  BY DEF Typed, Phase, Intent, Before, Ready, Again, Submit, EntrySteps, ExitSteps,
     OrderSteps, ExitOnly
<1>2. cur \in Entries => \A i \in Ids : Working(mkt[i]) => i \in unlisted
  BY DEF Intent, Alone, Ready, IsExit, Submit
<1>3. \A i \in Ids : Working(mkt[i])' <=> (i = cur \/ Working(mkt[i]))
  BY <1>1 DEF Typed, BrokerTypeOK, Submit, Sent, Working
<1>4. UNCHANGED <<row, unlisted, unclaimed>>
  BY DEF Submit, dbVars, history
<1> QED BY <1>1, <1>2, <1>3, <1>4 DEF Intents!Send, OnBook, Over, Again, Unresolved

\* Any other step changes the records at most, and keeps them complete.
LEMMA OthersBook ==
  ASSUME Typed', Intent', UNCHANGED mkt
  PROVE  Intents!Book
<1>1. unlisted' \in SUBSET Entries /\ unclaimed' \in SUBSET Entries
  BY DEF Typed, Flags
<1>2. \A i \in Ids : Working(mkt[i]) => Unresolved(i)' \/ i \in unlisted'
  BY DEF Intent, DurableIntent
<1> QED BY <1>1, <1>2 DEF Intents!Book

\* The broker never revives an order, and moves one at a time.
LEMMA OutsideEnds ==
  ASSUME Typed, Outside
  PROVE  [Intents!Next]_(Intents!intentVars)
<1>1. PICK j \in Ids : Arrive(j) \/ FillMarket(j) \/ FillStop(j) \/ Withdraw(j)
  BY DEF Outside, BrokerNext
<1>2. mkt \in [Ids -> BrokerOrder] /\ mkt[j] \in BrokerOrder
  BY DEF Typed, BrokerTypeOK
<1>3. \A i \in Ids : i # j => mkt'[i] = mkt[i]
  BY <1>1, <1>2 DEF Arrive, FillMarket, FillStop, Withdraw
<1>4. Working(mkt[j])' => Working(mkt[j])
  BY BrokerKeepsOver DEF Outside, Over
<1>5. UNCHANGED <<row, unlisted, unclaimed>>
  BY DEF Outside, dbVars, history
<1> QED BY <1>3, <1>4, <1>5, EndsOne

\* A cancellation ends the operation's own order, or only marks it unknown.
LEMMA CancelEnds ==
  ASSUME Typed, Typed', Intent', Cancel
  PROVE  [Intents!Next]_(Intents!intentVars)
<1>1. CASE UNCHANGED mkt
  BY <1>1, OthersBook DEF Intents!Next
<1>2. CASE ~UNCHANGED mkt
  <2>1. /\ mkt' = [mkt EXCEPT ![cur].st = IF @ = "open" THEN "cancelled" ELSE @]
        /\ UNCHANGED <<row, unlisted, unclaimed>>
    BY <1>2 DEF Cancel, dbVars
  <2>2. cur \in Ids /\ mkt \in [Ids -> BrokerOrder] /\ mkt[cur] \in BrokerOrder
    BY DEF Typed, Phase, BrokerTypeOK, Cancel, EntrySteps, ExitSteps, OrderSteps, ExitOnly
  <2>3. \A i \in Ids : i # cur => mkt'[i] = mkt[i]
    BY <2>1, <2>2
  <2>4. Working(mkt'[cur]) => Working(mkt[cur])
    BY <2>1, <2>2 DEF Working, BrokerOrder
  <2> QED BY <2>1, <2>2, <2>3, <2>4, EndsOne
<1> QED BY <1>1, <1>2

\* Every behaviour of the live execution path is one OrderIntent allows: an
\* order trades only under a durable intent, is sent once, and a buy alone.
THEOREM Implements == Spec => ImplementsIntents
<1>1. Init => Intents!Init
  BY DEF Init, BrokerInit, NoOrder, Working, Unresolved, Unfinished, Intents!Init
<1>2. Typed /\ Intent /\ Typed' /\ Intent' /\ [Next]_vars
        => [Intents!Next]_(Intents!intentVars)
  <2> SUFFICES ASSUME Typed, Intent, Typed', Intent', [Next]_vars
               PROVE  [Intents!Next]_(Intents!intentVars)
    OBVIOUS
  <2>1. CASE Submit
    <3>1. cur \in Ids
      BY <2>1 DEF Typed, Phase, Submit, EntrySteps, ExitSteps, OrderSteps, ExitOnly
    <3> QED BY <2>1, <3>1, SubmitSends DEF Intents!Next
  <2>2. CASE Cancel
    BY <2>2, CancelEnds
  <2>3. CASE Outside
    BY <2>3, OutsideEnds
  <2>4. CASE UNCHANGED mkt
    BY <2>4, OthersBook DEF Intents!Next
  <2>5. UNCHANGED vars => UNCHANGED mkt
    BY DEF vars, brokerVars
  <2> QED BY <2>1, <2>2, <2>3, <2>4, <2>5, WhoTouchesOrders
<1> QED BY <1>1, <1>2, IntentHolds, PTL DEF Spec, ImplementsIntents, Intents!Spec
=============================================================================
