------------------------------- MODULE MCMoney -------------------------------
(***************************************************************************)
(* One run for the money and for the risk that is taken with it, which are *)
(* chosen between at the start: LedgerMoney tells what the ledger knows    *)
(* when saves overlap and fail, RiskBudget what the limits keep when the   *)
(* ledger is right.                                                        *)
(***************************************************************************)
EXTENDS LedgerMoney, FiniteSets

CONSTANTS
  Names, Account, Signal, Stops, Targets, Prices, Slips, Cost,
  TradeLimit, DayLimit, HeatLimit, DrawdownLimit, PositionLimit, Reserve,
  MinReward, MaxOpen, ReduceAfter, HaltAfter, Cashes, MaxOrders, MaxShocks

\* Whole units and limits that are no less than nothing; the gate refuses a stop
\* that is not below the price.
ASSUME RiskAssumption ==
  /\ IsFiniteSet(Names)
  /\ Account \in Nat /\ Signal \in Nat /\ Signal > 0 /\ Cost \in Nat
  /\ Stops \subseteq 0..(Signal - 1) /\ Prices \subseteq Nat /\ Slips \subseteq Nat /\ Cashes \subseteq Nat
  /\ TradeLimit \in Nat /\ DayLimit \in Nat /\ HeatLimit \in Nat /\ PositionLimit \in Nat /\ HaltAfter \in Nat
  /\ Reserve \in Nat /\ Reserve <= 100000

VARIABLES
  part,                                        \* the choice
  equity, cash, power, daily, streak, peak, held, pc, order, view,
  moved, basis, orders, shocks, slips          \* RiskBudget

Risk == INSTANCE RiskBudget WITH
  Capital <- Account, Entry <- Signal, MaxEntries <- MaxOrders, MaxTroubles <- MaxShocks,
  day <- daily, entries <- orders, troubles <- shocks, excuses <- slips

risk == <<equity, cash, power, daily, streak, peak, held, pc, order, view, moved, basis, orders, shocks, slips>>

MCInit == part \in {"money", "risk"} /\ Init /\ Risk!Init

MCNext ==
  /\ UNCHANGED part
  /\ IF part = "money" THEN Next      ELSE UNCHANGED vars
  /\ IF part = "risk"  THEN Risk!Next ELSE UNCHANGED risk

MCSpec == MCInit /\ [][MCNext]_<<part, vars, risk>>

-----------------------------------------------------------------------------
\* Of RiskBudget: the loss planned on the open positions is within the heat limit.
HeatTrue == Risk!HeatTrue

\* Of RiskBudget: a day's loss, made and planned, is within two limits together.
WorstDay == Risk!WorstDay

\* Of RiskBudget: the sizing and the risk engine agree.
SizedPasses == Risk!SizedPasses

\* Of RiskBudget: a halting streak of losses, with nothing held, ends no more.
StreakLocks == Risk!StreakLocks
=============================================================================
