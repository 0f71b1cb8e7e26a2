------------------------------ MODULE RiskBudget ------------------------------
(***************************************************************************)
(* How much an entry may risk: one analysis takes a view of the portfolio  *)
(* for the risk engine, awaits quotes, sizes the order from the portfolio  *)
(* as it is then, passes the risk engine with the older view, and the fill *)
(* is booked with the risk that was sized.  order_lock keeps other entries *)
(* and exits out meanwhile; the control loop's copy of the cash and its    *)
(* reset of the day's loss are not kept out.                               *)
(*                                                                         *)
(* Money is in whole units; a limit is in thousandths of a percent, to     *)
(* which the code rounds a position's risk.  The weekly and monthly limits *)
(* compare a counter as the daily one does and are left out; what else the *)
(* engine may refuse (regime, data quality, governance, halts, deviation)  *)
(* is a refusal without a reason.                                          *)
(***************************************************************************)
EXTENDS Integers, FiniteSetsExt, Functions

CONSTANTS
  Names,       \* instruments
  Capital,     \* initial_capital
  Entry,       \* the price of a signal
  Stops,       \* its stop
  Targets,     \* and its target
  Prices,      \* what an exit may execute at
  Slips,       \* how far above the signal's price a purchase may execute
  Cost,        \* estimated costs and slippage of a unit
  TradeLimit, DayLimit, HeatLimit, DrawdownLimit, PositionLimit, Reserve,
  MinReward,   \* min_net_reward_risk, in thousandths
  MaxOpen, ReduceAfter, HaltAfter,
  Cashes,      \* what the broker may report as cash
  MaxEntries,  \* bound: entries
  MaxTroubles  \* bound: copies of the cash, resets of the day, slips and gaps

VARIABLES
  equity, cash, power,  \* the ledger's equity, cash and buying power
  day,                  \* daily_pnl
  streak,               \* consecutive_losses
  peak,                 \* peak_equity
  held,                 \* the position in each instrument (qty 0: none)
  pc, order,            \* where the analysis is, and the order it works on
  view,                 \* the risk state it took
  moved,                \* history: what today's sales made, costs aside
  basis,                \* history: the largest capital an order was sized on
  entries, troubles,    \* what MaxEntries and MaxTroubles bound
  excuses               \* history: what the properties except

ledger  == <<equity, cash, power, day, streak, peak>>
history == <<moved, basis, entries, troubles, excuses>>
vars == <<ledger, held, pc, order, view, history>>

Whole == 100000           \* one, in thousandths of a percent
Flat  == [qty |-> 0, bought |-> 0, entry |-> 0, stop |-> 0, risk |-> 0]
None  == [name |-> CHOOSE n \in Names : TRUE, stop |-> 0, target |-> 0, qty |-> 0, risk |-> 0]

Rounded(a, b) == (2 * a + b) \div (2 * b)

\* record_exit: what is left of a position keeps its share of the risk.
ShareForgotten(p) == IF p.qty = p.bought THEN p.risk ELSE 0
Share(p) == IF p.qty = 0 THEN 0 ELSE Rounded(p.risk * p.qty, p.bought)

Open     == {n \in Names : held[n].qty > 0}
Heat     == SumFunction([n \in Names |-> Share(held[n])])
Notional == SumFunction([n \in Names |-> held[n].qty * held[n].entry])
Basis    == Max({0, Min({equity, cash + Notional})})

View == [equity |-> Basis, day |-> day, heat |-> Heat, open |-> Cardinality(Open), streak |-> streak]

Part(x, p) == (x * p) \div Whole
NoView == [equity |-> 0, day |-> 0, heat |-> 0, open |-> 0, streak |-> 0]

Room(e, d) == Max({0, e * DayLimit + Min({0, d}) * Whole})   \* times Whole

\* What the market does beyond the plan is a trouble, and excused.
Excuse(e, b) ==
  /\ b => troubles < MaxTroubles
  /\ troubles' = troubles + (IF b THEN 1 ELSE 0)
  /\ excuses' = excuses \cup {x \in {e} : b}

Init ==
  /\ equity = Capital /\ cash = Capital /\ power = Capital /\ day = 0
  /\ streak = 0 /\ peak = Capital /\ held = [n \in Names |-> Flat]
  /\ pc = "idle" /\ order = None /\ view = NoView
  /\ moved = 0 /\ basis = 0 /\ entries = 0 /\ troubles = 0 /\ excuses = {}

-----------------------------------------------------------------------------
\* The dashboard's status DANGER: nine tenths of a limit are used.
Danger ==
  \/ 10 * Whole * Max({0, 0 - day}) >= 9 * DayLimit * equity
  \/ 10 * Whole * (peak - equity) >= 9 * DrawdownLimit * peak
  \/ 10 * Heat >= 9 * HeatLimit
  \/ 10 * Cardinality(Open) >= 9 * MaxOpen

Assess ==
  /\ pc = "idle" /\ entries < MaxEntries /\ ~Danger
  /\ \E n \in Names, s \in Stops, t \in Targets :
       order' = [None EXCEPT !.name = n, !.stop = s, !.target = t]
  /\ view' = View /\ pc' = "assessed"
  /\ UNCHANGED <<ledger, held, history>>

\* What the capital of a single order may be.
MaxCapital ==
  Min({Part(Basis, PositionLimit),
       Part(Max({0, Min({Basis, cash, power})}), Whole - Reserve),
       Max({0, Part(Basis, Whole - Reserve) - Notional})})

\* PositionSizingEngine.compute: the most that fits the budget of a trade
\* (scaled by the ranking's factor), what is left of the portfolio's and of
\* the day's, and the capital.
Budget(factor) ==
  Min({Basis * Min({(TradeLimit * factor) \div 2, Max({0, HeatLimit - Heat})}), Room(Basis, day)})

SizedWithoutCosts(stop, factor) ==
  Max({q \in 0..(MaxCapital \div Entry) : q * (Entry - stop) * Whole <= Budget(factor)})

Sized(stop, factor) ==
  Max({q \in 0..(MaxCapital \div Entry) : q * (Entry - stop + Cost) * Whole <= Budget(factor)})

Size ==
  /\ pc = "assessed" /\ Basis > 0
  /\ \E factor \in {1, 2} :
       LET q == Sized(order.stop, factor)
       IN order' = [order EXCEPT !.qty = q, !.risk = Rounded(q * (Entry - order.stop) * Whole, Basis)]
  /\ basis' = Max({basis, Basis}) /\ pc' = "sized"
  /\ UNCHANGED <<ledger, held, view, moved, entries, troubles, excuses>>

\* RiskEngine.evaluate, over the view v that was taken before the sizing.
WithinTrade(v) == order.qty * (Entry - order.stop) * Whole <= v.equity * TradeLimit
WithinHeat(v)  == v.heat * v.equity + order.qty * (Entry - order.stop) * Whole <= v.equity * HeatLimit
WithinDay(v)   == order.qty * (Entry - order.stop + Cost) * Whole <= Room(v.equity, v.day)

Approves(v) ==
  /\ order.qty > 0
  /\ (order.target - Entry - Cost) * 1000 >= MinReward * (Entry - order.stop + Cost)
  /\ WithinTrade(v) /\ WithinHeat(v) /\ WithinDay(v)
  /\ v.day * Whole >= 0 - v.equity * DayLimit
  /\ (peak - v.equity) * Whole <= DrawdownLimit * peak
  /\ v.open < MaxOpen /\ v.streak < HaltAfter

\* The quantity after the reductions: the streak's, the volatility's and
\* governance's halves; nothing is left of a unit.
Reduced(v, by) == order.qty \div (by * (IF v.streak >= ReduceAfter THEN 2 ELSE 1))

Approve ==
  /\ pc = "sized" /\ Approves(view) /\ held[order.name].qty = 0
  /\ \E by \in {1, 2} :
       /\ Reduced(view, by) > 0
       /\ order' = [order EXCEPT !.qty = Reduced(view, by)]
  /\ pc' = "approved"
  /\ UNCHANGED <<ledger, held, view, history>>

\* Refused: here, or for what is left out.
Refuse ==
  /\ pc # "idle" /\ pc' = "idle" /\ order' = None /\ view' = NoView
  /\ UNCHANGED <<ledger, held, history>>

\* The order executes, whole or in part; the position gets the risk sized.
Fill ==
  /\ pc = "approved"
  /\ \E q \in 1..order.qty, slip \in Slips :
       /\ held' = [held EXCEPT ![order.name] =
            [qty |-> q, bought |-> q, entry |-> Entry + slip, stop |-> order.stop, risk |-> order.risk]]
       /\ cash' = Max({0, cash - q * (Entry + slip)})
       /\ Excuse("slipped", slip > 0)
  /\ entries' = entries + 1 /\ pc' = "idle" /\ order' = None /\ view' = NoView
  /\ UNCHANGED <<equity, power, day, streak, peak, moved, basis>>

-----------------------------------------------------------------------------
\* What a sale adds to the day's result.
CountedReversed(pnl) == 0 - pnl
Counted(pnl) == pnl

Exit ==
  /\ pc = "idle"
  /\ \E n \in Open, price \in Prices : \E q \in 1..held[n].qty :
       LET p == held[n]
           pnl == q * (price - p.entry - Cost)
       IN /\ held' = [held EXCEPT ![n] =
               IF q = p.qty THEN Flat ELSE [p EXCEPT !.qty = @ - q]]
          /\ cash' = cash + q * price /\ equity' = equity + pnl
          /\ day' = day + Counted(pnl) /\ peak' = Max({peak, equity + pnl})
          /\ streak' = IF pnl < 0 THEN streak + 1 ELSE 0
          /\ moved' = moved + q * (price - p.entry)
          /\ Excuse("gapped", price < p.stop)
  /\ UNCHANGED <<power, pc, order, view, basis, entries>>

\* The control loop: the broker's cash, and the reset of the day's loss.
SyncCapital ==
  /\ troubles < MaxTroubles /\ troubles' = troubles + 1
  /\ \E c \in Cashes : cash' = c /\ power' = Min({c, equity})
  /\ UNCHANGED <<equity, day, streak, peak, held, pc, order, view, moved, basis, entries, excuses>>

ResetDayAndStreak ==
  /\ troubles < MaxTroubles /\ troubles' = troubles + 1
  /\ day' = 0 /\ moved' = 0 /\ streak' = 0
  /\ UNCHANGED <<equity, cash, power, peak, held, pc, order, view, basis, entries, excuses>>

ResetDay ==
  /\ troubles < MaxTroubles /\ troubles' = troubles + 1
  /\ day' = 0 /\ moved' = 0
  /\ UNCHANGED <<equity, cash, power, streak, peak, held, pc, order, view, basis, entries, excuses>>

Next ==
  \/ Assess \/ Size \/ Approve \/ Refuse \/ Fill \/ Exit \/ SyncCapital \/ ResetDay

Spec == Init /\ [][Next]_vars

-----------------------------------------------------------------------------
\* What the open positions lose if each is sold at its stop.
Planned == SumFunction([n \in Names |-> held[n].qty * (held[n].entry - held[n].stop)])

\* A position's risk is rounded when it is sized, its share when it is read.
Slack == basis * Cardinality(Names)

\* The loss planned on the open positions stays within the portfolio's heat
\* limit, whatever was sold in part, reduced, reset or copied in between.
\* Excepted: a purchase above the signal's price, which leaves the risk as sized.
HeatTrue == Planned * Whole <= basis * HeatLimit + Slack \/ "slipped" \in excuses

\* The daily limit bounds each entry, not the day: with every stop hit, what
\* the day has lost and has still to lose is within the day's and the heat's
\* limit together, costs aside.  Excepted: a sale below its stop.
WorstDay ==
  \/ (Planned - moved) * Whole <= basis * (DayLimit + HeatLimit) + Slack
  \/ excuses \cap {"slipped", "gapped"} # {}

\* The sizing and the risk engine compute the same limits twice: an order sized
\* while the risk engine's view is still true is within the engine's limits.
SizedPasses ==
  [][Size /\ view = View => (WithinTrade(view) /\ WithinHeat(view) /\ WithinDay(view))']_vars

\* A streak of losses that halts trading halts it for good once nothing is
\* held: only a sale without a loss ends a streak, no reset of the day does,
\* and no analysis under way gets past it.
StreakLocks ==
  [][streak >= HaltAfter /\ Open = {} => Open' = {} /\ streak' = streak]_vars
=============================================================================
