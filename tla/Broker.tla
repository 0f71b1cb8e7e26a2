------------------------------ MODULE Broker ------------------------------
(***************************************************************************)
(* The broker account, as the code in src/ uses it: a market order per     *)
(* client id, the protective stop placed on its behalf, and the net        *)
(* quantity per instrument.  A request travels in an executor thread that  *)
(* a timeout does not stop, so it may reach the broker after the caller    *)
(* has given up ("transit"), or never ("lost").  External to src/.         *)
(***************************************************************************)
EXTENDS Integers

CONSTANTS
  Symbols,   \* instruments
  Entries,   \* client ids of buys (symbol + strategy + time bucket)
  Exits,     \* client ids of sells (a uuid, used once)
  SymbolOf   \* the instrument of each client id

Ids == Entries \cup Exits

ASSUME IdsAssumption ==
  /\ Entries \cap Exits = {}
  /\ SymbolOf \in [Ids -> Symbols]

VARIABLES
  mkt,       \* the market order of each client id
  prot,      \* the protective stop "<client id>-sl"
  held       \* the account's net quantity

brokerVars == <<mkt, prot, held>>

OrderState  == {"none", "transit", "lost", "open", "complete", "cancelled",
                "rejected"}
Terminal    == {"complete", "cancelled", "rejected"}
BrokerOrder == [st : OrderState, qty : Nat, filled : Nat]

NoOrder    == [st |-> "none", qty |-> 0, filled |-> 0]
Sent(q)    == [st |-> "transit", qty |-> q, filled |-> 0]
Working(o) == o.st \in {"transit", "open"}

BrokerTypeOK ==
  /\ mkt \in [Ids -> BrokerOrder]
  /\ prot \in [Ids -> BrokerOrder]
  /\ held \in [Symbols -> Int]

BrokerInit ==
  /\ mkt = [i \in Ids |-> NoOrder]
  /\ prot = [i \in Ids |-> NoOrder]
  /\ held = [s \in Symbols |-> 0]

\* One more unit of an open order is executed.
Executed(o) == [o EXCEPT !.filled = @ + 1,
                         !.st = IF o.filled + 1 >= o.qty THEN "complete" ELSE @]

\* A request in flight reaches the exchange, or never does.
Arrive(i) ==
  /\ \E st \in {"open", "lost"} :
       \/ mkt[i].st = "transit" /\ mkt' = [mkt EXCEPT ![i].st = st] /\ UNCHANGED prot
       \/ prot[i].st = "transit" /\ prot' = [prot EXCEPT ![i].st = st] /\ UNCHANGED mkt
  /\ UNCHANGED held

\* A market order executes one unit.
FillMarket(i) ==
  /\ mkt[i].st = "open" /\ mkt[i].filled < mkt[i].qty
  /\ mkt' = [mkt EXCEPT ![i] = Executed(@)]
  /\ held' = [held EXCEPT ![SymbolOf[i]] = IF i \in Entries THEN @ + 1 ELSE @ - 1]
  /\ UNCHANGED prot

\* A stop triggers and sells one unit.
FillStop(i) ==
  /\ prot[i].st = "open" /\ prot[i].filled < prot[i].qty
  /\ prot' = [prot EXCEPT ![i] = Executed(@)]
  /\ held' = [held EXCEPT ![SymbolOf[i]] = @ - 1]
  /\ UNCHANGED mkt

\* The exchange or its risk system ends a working order on its own.
Withdraw(i) ==
  /\ \/ mkt[i].st = "open" /\ mkt' = [mkt EXCEPT ![i].st = "rejected"] /\ UNCHANGED prot
     \/ prot[i].st = "open" /\ prot' = [prot EXCEPT ![i].st = "cancelled"] /\ UNCHANGED mkt
  /\ UNCHANGED held

BrokerNext == \E i \in Ids : Arrive(i) \/ FillMarket(i) \/ FillStop(i) \/ Withdraw(i)
=============================================================================
