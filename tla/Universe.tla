------------------------------ MODULE Universe ------------------------------
(***************************************************************************)
(* What the autonomous engine scans: DynamicUniverseSelector, which ranks  *)
(* a day's candidates once and keeps the list in Redis for the day.  The   *)
(* cycle, the refresh request and the warm-up after a start may build a    *)
(* list at the same time.                                                  *)
(***************************************************************************)
EXTENDS Naturals, SequencesExt

CONSTANTS
  Liquid,     \* _LIQUID_CANDIDATES, each once
  Watchlist,  \* the static list (WatchlistProvider.resolve), each once
  MaxQuotes, PoolSize, ScanSize,   \* of the settings; ScanSize <= PoolSize
  Capped,     \* autonomous_universe_max_price is set
  Builders,   \* "cycle", and requests
  MaxDays     \* bound

VARIABLES
  market,   \* the quotes; a list is judged by its own, so they may stand still
  day,
  cached,   \* the list of the day in Redis, or Nothing
  building, \* of each builder: the day its list is for, or 0
  scanned,  \* what the last cycle scans, or Nothing
  redis     \* Redis answers

vars == <<market, day, cached, building, scanned, redis>>

Nothing == [day |-> 0, scan |-> <<>>, quoted |-> FALSE]

FirstOf(s, n) == SubSeq(s, 1, IF Len(s) < n THEN Len(s) ELSE n)

\* Those of S in a list, in its order.
Those(s, S) ==
  LET f[i \in 0..Len(s)] ==
        IF i = 0 THEN <<>> ELSE IF s[i] \in S THEN Append(f[i - 1], s[i]) ELSE f[i - 1]
  IN  f[Len(s)]

\* Those of a list that are not in another.
Without(s, t) == Those(s, ToSet(s) \ ToSet(t))

\* quote_candidates: the watchlist after the liquid names, each once.
Candidates == FirstOf(Liquid \o Without(Watchlist, Liquid), MaxQuotes)

Symbols == ToSet(Candidates)

\* A quote: whether price and volume are high enough, its trending_score, and
\* whether it is above the price cap; or there is none.
Missing == [enough |-> FALSE, score |-> 0, dear |-> TRUE]
Quotes  == {Missing} \cup [enough : {FALSE}, score : {0}, dear : BOOLEAN]
                     \cup [enough : {TRUE}, score : 1..2, dear : BOOLEAN]

Quote(q, s) == IF s \in DOMAIN q THEN q[s] ELSE Missing

Ranked(q) ==
  LET of(n) == Those(Candidates, {s \in DOMAIN q : q[s].enough /\ q[s].score = n})
  IN  of(2) \o of(1)

FilledAlways(q) ==   \* mutant: liquid names fill the pool before it is full
  LET pool == FirstOf(Ranked(q), ScanSize - 1)
  IN  pool \o FirstOf(Without(Liquid, pool), PoolSize - Len(pool))

\* The best of the ranked; liquid names follow when they are too few to scan.
Filled(q) ==
  LET pool == FirstOf(Ranked(q), PoolSize)
  IN  IF Len(pool) >= ScanSize THEN pool
      ELSE pool \o FirstOf(Without(Liquid, pool), PoolSize - Len(pool))

\* _build_from_kite: what is too dear, or has no quote, is left out under a cap.
Cheap(q) == {s \in ToSet(Filled(q)) : Capped => ~Quote(q, s).dear}
Scan(q) == FirstOf(Those(Filled(q), Cheap(q)), ScanSize)

\* _fallback_snapshot, without a quote, and without the price cap.
Fallback(d) == [day |-> d, scan |-> FirstOf(FirstOf(Liquid, PoolSize), ScanSize), quoted |-> FALSE]

-----------------------------------------------------------------------------
Init ==
  /\ market \in [Symbols -> Quotes]
  /\ day = 1 /\ cached = Nothing /\ building = [b \in Builders |-> 0]
  /\ scanned = Nothing /\ redis = TRUE

\* get_snapshot of the cycle: the list of today, or it must be built.
Take ==
  /\ building["cycle"] = 0
  /\ IF redis /\ cached.day = day
     THEN scanned' = cached /\ UNCHANGED building
     ELSE building' = [building EXCEPT !["cycle"] = day] /\ UNCHANGED scanned
  /\ UNCHANGED <<market, day, cached, redis>>

\* refresh builds whatever there is.
Refresh(b) ==
  /\ b # "cycle" /\ building[b] = 0
  /\ building' = [building EXCEPT ![b] = day]
  /\ UNCHANGED <<market, day, cached, scanned, redis>>

\* The list is saved under its own day and used; when Redis is away the save
\* raises, and there is nothing to use.
Save(b, list) ==
  /\ building' = [building EXCEPT ![b] = 0]
  /\ IF redis
     THEN /\ cached' = IF list.day = day THEN list ELSE cached
          /\ scanned' = IF b = "cycle" THEN list ELSE scanned
     ELSE UNCHANGED <<cached, scanned>>
  /\ UNCHANGED <<market, day, redis>>

\* Kite has answered.
Build(b) ==
  /\ building[b] # 0
  /\ Save(b, [day |-> building[b], scan |-> Scan(market), quoted |-> TRUE])

\* Kite is not configured, has failed or takes too long.
BuildFails(b) ==
  building[b] # 0 /\ Save(b, Fallback(building[b]))

Midnight ==
  /\ day < MaxDays /\ day' = day + 1 /\ cached' = Nothing
  /\ UNCHANGED <<market, building, scanned, redis>>

\* Redis goes away and comes back, with or without the list.
Redis ==
  /\ redis' = ~redis /\ cached' \in {cached, Nothing}
  /\ UNCHANGED <<market, day, building, scanned>>

Next ==
  \/ Take
  \/ \E b \in Builders : Refresh(b) \/ Build(b) \/ BuildFails(b)
  \/ Midnight \/ Redis

Spec == Init /\ [][Next]_vars

-----------------------------------------------------------------------------
Eligible(s) == Quote(market, s).enough /\ (Capped => ~Quote(market, s).dear)

\* When a list was made from quotes, no eligible candidate is passed over for
\* one that is not eligible or ranks lower, and no symbol is scanned twice,
\* whatever the cuts, the fillers and the price cap leave.
BestFirst ==
  LET chosen == ToSet(scanned.scan)
  IN  /\ Cardinality(chosen) = Len(scanned.scan)
      /\ scanned.quoted =>
           \A s \in Symbols \ chosen : Eligible(s) =>
             \A t \in chosen : Eligible(t) /\ Quote(market, t).score >= market[s].score
=============================================================================
