--------------------------- MODULE TreasuryProofs ---------------------------
(***************************************************************************)
(* Proofs about TreasuryStandard for any number of treasuries, streams,    *)
(* mints and wallets and any transfer fees: every state is well typed, the *)
(* escrow of a stream is short by the fee on its deposit at most and holds *)
(* nothing of it once a stream without a swap is closed, the spending      *)
(* limits hold up to rounding, and no step breaks the terms of a stream.   *)
(*                                                                         *)
(* The first four are one induction: a balance stays a natural number      *)
(* because no withdrawal runs ahead of what was earned, and the limits     *)
(* hold because the lazily reset counters cover what was really spent.     *)
(***************************************************************************)
EXTENDS TreasuryStandard, TLAPS

\* The fee that was withheld from the deposit of stream s.
Withheld(s) == TransferFee(stream[s].payerMint, stream[s].deposit)

\* A stream that is active has started; the agent has not withdrawn more than
\* it earned; and the escrow holds the rest and what it was given, less the fee,
\* exactly so without swaps.
StreamInv(s) ==
    /\ stream[s].status # "Absent" => stream[s].payerMint \in Mints
    /\ stream[s].status = "Active" =>
          /\ stream[s].start <= now
          /\ stream[s].withdrawn <= Earned(stream[s])
          /\ stream[s].deposit - stream[s].withdrawn + gifts[s] <= escrow[s] + Withheld(s)
          /\ stream[s].payerMint = stream[s].payoutMint
                => stream[s].deposit - stream[s].withdrawn + gifts[s] = escrow[s] + Withheld(s)
    /\ (stream[s].status = "Closed" /\ stream[s].payerMint = stream[s].payoutMint)
          => escrow[s] + Withheld(s) = gifts[s]
    /\ stream[s].status = "Absent" => gifts[s] = 0

\* What the counters say was spent today and this week, once they are rolled over.
CountedDay(t) == IF UnixDay(now) > treasury[t].lastDay THEN 0 ELSE treasury[t].spentToday
CountedWeek(t) == IF IsoWeek(now) > treasury[t].lastWeek THEN 0 ELSE treasury[t].spentWeek

\* The counters are not ahead of the calendar, cover what was really spent once
\* they are rolled over, and they and the limits in force are among the peaks.
LimitInv(t) ==
    /\ treasury[t].lastDay <= UnixDay(now)
    /\ treasury[t].lastWeek <= IsoWeek(now)
    /\ spent[t].today <= Worth(CountedDay(t), spent[t].pricedToday)
    /\ spent[t].week <= Worth(CountedWeek(t), spent[t].pricedWeek)
    /\ treasury[t].daily <= spent[t].peakDaily
    /\ treasury[t].weekly <= spent[t].peakWeekly
    /\ CountedDay(t) <= spent[t].peakDaily
    /\ CountedWeek(t) <= spent[t].peakWeekly
    /\ ~treasury[t].live => treasury[t].spentToday = 0 /\ treasury[t].spentWeek = 0

Inv ==
    /\ TypeOK
    /\ \A s \in Streams : StreamInv(s)
    /\ \A t \in Treasuries : LimitInv(t)

-----------------------------------------------------------------------------
(* Arithmetic *)

\* A quotient of natural numbers is a natural number.
LEMMA DivNat == ASSUME NEW a \in Nat, NEW b \in Nat \ {0} PROVE a \div b \in Nat
BY SMT

\* A quotient does not shrink with its dividend.
LEMMA DivMono ==
    ASSUME NEW a \in Nat, NEW b \in Nat \ {0} PROVE a \div b <= (a + 1) \div b
BY SMT

\* A product grows with its factor.
LEMMA TimesMono ==
    ASSUME NEW r \in Nat, NEW a \in Nat, NEW b \in Nat, a <= b
    PROVE  r * a <= r * b /\ r * a \in Nat /\ r * b \in Nat
BY SMT

\* Days and weeks are natural numbers and never go back (unix_day, iso_week).
LEMMA CalendarMono ==
    ASSUME NEW n \in Nat
    PROVE  /\ UnixDay(n) \in Nat /\ UnixDay(n + 1) \in Nat /\ UnixDay(n) <= UnixDay(n + 1)
           /\ IsoWeek(n) \in Nat /\ IsoWeek(n + 1) \in Nat /\ IsoWeek(n) <= IsoWeek(n + 1)
<1>1. UnixDay(n) \in Nat /\ UnixDay(n + 1) \in Nat /\ UnixDay(n) <= UnixDay(n + 1)
    BY DivNat, DivMono, ConstantsAssumption DEF UnixDay
<1> QED BY <1>1 DEF IsoWeek

\* What was earned lies between nothing and the deposit.
LEMMA EarnedRange ==
    ASSUME now \in Nat, NEW r \in PaymentStream, r.start <= now
    PROVE  Earned(r) \in Nat /\ Earned(r) <= r.deposit
<1> DEFINE e == IF now - r.start < r.duration THEN now - r.start ELSE r.duration
<1>1. r.rate \in Nat /\ r.deposit \in Nat /\ e \in Nat
    BY DEF PaymentStream
<1>2. r.rate * e \in Nat
    BY <1>1, TimesMono
<1> HIDE DEF e
<1>3. Earned(r) = IF r.rate * e < r.deposit THEN r.rate * e ELSE r.deposit
    BY DEF Earned, e
<1> QED BY <1>1, <1>2, <1>3

\* A fee is no more than what is transferred.
LEMMA FeeRange ==
    ASSUME NEW m \in Mints, NEW x \in Nat
    PROVE  /\ TransferFee(m, x) \in Nat /\ TransferFee(m, x) <= x
           /\ Received(m, x) \in Nat /\ Received(m, x) = x - TransferFee(m, x)
<1>0. FeeBps \in [Mints -> 0..BPS_DENOM]
    BY ConstantsAssumption, Zenon
<1>1. FeeBps[m] \in Nat /\ FeeBps[m] <= 10000
  <2>1. FeeBps[m] \in 0..BPS_DENOM
      BY <1>0, Zenon
  <2>2. \A k \in 0..BPS_DENOM : k \in Nat /\ k <= 10000
      BY DEF BPS_DENOM
  <2> QED BY <2>1, <2>2
<1>2. x * FeeBps[m] <= x * 10000 /\ x * FeeBps[m] \in Nat
    BY <1>1, TimesMono
<1> DEFINE y == x * FeeBps[m]
<1> HIDE DEF y
<1>3. y \in Nat /\ y <= x * 10000 => (y + 9999) \div 10000 \in 0..x
    OBVIOUS
<1>4. TransferFee(m, x) = (y + 9999) \div 10000
  <2>1. y \in Nat => y + 10000 - 1 = y + 9999
      OBVIOUS
  <2>2. y \in Nat
      BY <1>2 DEF y
  <2>3. TransferFee(m, x) = (y + 10000 - 1) \div 10000
      BY DEF TransferFee, BPS_DENOM, y
  <2> QED BY <2>1, <2>2, <2>3
<1>5. TransferFee(m, x) \in 0..x
    BY <1>2, <1>3, <1>4 DEF y
<1> QED BY <1>5 DEF Received

\* What a division leaves is less than the divisor.
LEMMA DivRest ==
    ASSUME NEW v \in Nat, NEW b \in Nat \ {0} PROVE v <= (v \div b) * b + (b - 1)
BY SMT

\* A product distributes over a sum.
LEMMA Distribute ==
    ASSUME NEW a \in Nat, NEW b \in Nat, NEW c \in Nat
    PROVE  (a + b) * c = a * c + b * c /\ a * c \in Nat /\ b * c \in Nat
BY SMT

\* The price of an accepted withdrawal is a natural number.
LEMMA PriceNat ==
    ASSUME NEW price \in {{}} \cup {{f} : f \in Feeds}, \A f \in price : FeedOk(f)
    PROVE  PriceOf(price) \in Nat
<1>1. CASE price = {}
    BY <1>1, ConstantsAssumption DEF PriceOf
<1>2. CASE price # {}
  <2>1. PICK f \in Feeds : price = {f}
      BY <1>2
  <2>2. (CHOOSE g \in price : TRUE) = f
      BY <2>1
  <2>3. f.price \in Nat
      BY <2>1, ConstantsAssumption DEF FeedOk
  <2> QED BY <1>2, <2>2, <2>3 DEF PriceOf
<1> QED BY <1>1, <1>2

\* So are the amount in base units and its value, and the amount covers the value
\* but for less than one unit, when there is a price (normalize_to_base_units).
LEMMA NormalizedCovers ==
    ASSUME NEW amount \in Nat, NEW price \in {{}} \cup {{f} : f \in Feeds},
           \A f \in price : FeedOk(f)
    PROVE  /\ Normalized(amount, price) \in Nat /\ amount * PriceOf(price) \in Nat
           /\ amount * PriceOf(price)
                 <= Worth(Normalized(amount, price), IF price = {} THEN 0 ELSE 1)
<1> DEFINE q == PriceOf(price)
           v == amount * q
           n == Normalized(amount, price)
<1>u. PriceUnit \in Nat \ {0}
    BY ConstantsAssumption
<1>1. q \in Nat
    BY PriceNat
<1>2. v \in Nat
    BY <1>1, TimesMono
<1>3. CASE price = {}
  <2>1. n = amount /\ v = amount * PriceUnit
      BY <1>3 DEF Normalized, PriceOf
  <2>2. Worth(n, 0) = n * PriceUnit + 0
      BY <1>u DEF Worth
  <2> QED BY <1>2, <1>3, <2>1, <2>2
<1>4. CASE price # {}
  <2>1. n = v \div PriceUnit
      BY <1>4 DEF Normalized
  <2> HIDE DEF v, n
  <2>2. n \in Nat
      BY <1>2, <1>u, <2>1, DivNat
  <2>3. v <= n * PriceUnit + (PriceUnit - 1)
      BY <1>2, <1>u, <2>1, DivRest
  <2>4. Worth(n, 1) = n * PriceUnit + (PriceUnit - 1)
      BY <1>u DEF Worth
  <2>5. n \in Nat /\ v \in Nat /\ v <= Worth(n, 1)
      BY <1>2, <2>2, <2>3, <2>4
  <2> QED BY <1>4, <2>5 DEF v, n
<1> QED BY <1>3, <1>4

\* What units and rounded withdrawals are worth is a natural number, grows with the
\* units and adds up.
LEMMA WorthNat ==
    ASSUME NEW a \in Nat, NEW i \in Nat PROVE Worth(a, i) \in Nat
<1>1. PriceUnit \in Nat /\ PriceUnit - 1 \in Nat
    BY ConstantsAssumption
<1>2. a * PriceUnit \in Nat /\ i * (PriceUnit - 1) \in Nat
    BY <1>1, TimesMono
<1> QED BY <1>2 DEF Worth

LEMMA WorthMono ==
    ASSUME NEW a \in Nat, NEW b \in Nat, NEW i \in Nat, a <= b
    PROVE  Worth(a, i) <= Worth(b, i)
<1>1. PriceUnit \in Nat /\ PriceUnit - 1 \in Nat
    BY ConstantsAssumption
<1>2. PriceUnit * a <= PriceUnit * b /\ i * (PriceUnit - 1) \in Nat
    BY <1>1, TimesMono
<1>3. a * PriceUnit = PriceUnit * a /\ b * PriceUnit = PriceUnit * b
    BY <1>1
<1>4. a * PriceUnit \in Nat /\ b * PriceUnit \in Nat
    BY <1>1, TimesMono
<1> QED BY <1>2, <1>3, <1>4 DEF Worth

LEMMA WorthAdds ==
    ASSUME NEW a \in Nat, NEW b \in Nat, NEW i \in Nat, NEW j \in Nat
    PROVE  Worth(a + b, i + j) = Worth(a, i) + Worth(b, j)
<1> DEFINE q == PriceUnit - 1
<1>1. PriceUnit \in Nat /\ q \in Nat
    BY ConstantsAssumption
<1> HIDE DEF q
<1>2. /\ (a + b) * PriceUnit = a * PriceUnit + b * PriceUnit
      /\ a * PriceUnit \in Nat /\ b * PriceUnit \in Nat
    BY <1>1, Distribute
<1>3. (i + j) * q = i * q + j * q /\ i * q \in Nat /\ j * q \in Nat
    BY <1>1, Distribute
<1> DEFINE ap == a * PriceUnit
           bp == b * PriceUnit
           iq == i * q
           jq == j * q
<1>4. Worth(a + b, i + j) = (ap + bp) + (iq + jq) /\ Worth(a, i) = ap + iq /\ Worth(b, j) = bp + jq
    BY <1>2, <1>3 DEF Worth, q
<1>5. ap \in Nat /\ bp \in Nat /\ iq \in Nat /\ jq \in Nat
    BY <1>2, <1>3
<1> HIDE DEF ap, bp, iq, jq
<1> QED BY <1>4, <1>5

\* The least amount a swap has to pay is a natural number.
LEMMA SwapMinOutNat ==
    ASSUME NEW claimable \in Nat, NEW p \in Feeds, NEW q \in Feeds, FeedOk(p), FeedOk(q)
    PROVE  SwapMinOut(claimable, p, q) \in Nat
<1>1. p.price \in Nat /\ q.price \in Nat \ {0}
    BY ConstantsAssumption DEF FeedOk
<1>2. claimable * p.price \in Nat
    BY <1>1, TimesMono
<1>3. (claimable * p.price) \div q.price \in Nat
    BY <1>1, <1>2, DivNat
<1> DEFINE x == (claimable * p.price) \div q.price
<1> HIDE DEF x
<1>4. x \in Nat => (x * (BPS_DENOM - DEFAULT_SLIPPAGE_BPS)) \div BPS_DENOM \in Nat
    BY DEF BPS_DENOM, DEFAULT_SLIPPAGE_BPS
<1> QED BY <1>3, <1>4 DEF SwapMinOut, x

-----------------------------------------------------------------------------
(* What a step leaves alone *)

\* With the clock the calendar stands still.
LEMMA CalendarFrame ==
    ASSUME now' = now PROVE UnixDay(now)' = UnixDay(now) /\ IsoWeek(now)' = IsoWeek(now)
BY DEF UnixDay, IsoWeek

\* A stream whose account and escrow are untouched keeps its invariant.
LEMMA StreamFrame ==
    ASSUME NEW s \in Streams, StreamInv(s), now' = now, stream'[s] = stream[s],
           escrow'[s] = escrow[s], gifts'[s] = gifts[s]
    PROVE  StreamInv(s)'
BY DEF StreamInv, Earned, Withheld

\* So does a treasury whose limits, counters and history are untouched.
LEMMA LimitFrame ==
    ASSUME NEW t \in Treasuries, LimitInv(t), now' = now, spent'[t] = spent[t],
           \A f \in {"live", "daily", "weekly", "spentToday", "spentWeek", "lastDay", "lastWeek"} :
               treasury'[t][f] = treasury[t][f]
    PROVE  LimitInv(t)'
<1>1. /\ treasury'[t].live = treasury[t].live
      /\ treasury'[t].daily = treasury[t].daily /\ treasury'[t].weekly = treasury[t].weekly
      /\ treasury'[t].spentToday = treasury[t].spentToday
      /\ treasury'[t].spentWeek = treasury[t].spentWeek
      /\ treasury'[t].lastDay = treasury[t].lastDay
      /\ treasury'[t].lastWeek = treasury[t].lastWeek
    OBVIOUS
<1>2. CountedDay(t)' = CountedDay(t) /\ CountedWeek(t)' = CountedWeek(t)
    BY <1>1 DEF CountedDay, CountedWeek, UnixDay, IsoWeek
<1> QED BY <1>1, <1>2 DEF LimitInv, UnixDay, IsoWeek

\* New limits are among the peaks of the history, which never shrink.
LEMMA PeaksOfNewLimits ==
    ASSUME Inv, NEW t \in Treasuries, NEW l \in Limits,
           spent' = [spent EXCEPT ![t] = PeaksWith(t, l)]
    PROVE  /\ spent'[t].today = spent[t].today /\ spent'[t].week = spent[t].week
           /\ spent'[t].pricedToday = spent[t].pricedToday
           /\ spent'[t].pricedWeek = spent[t].pricedWeek
           /\ spent'[t].peakDaily \in Nat /\ spent'[t].peakDaily >= spent[t].peakDaily
           /\ spent'[t].peakDaily >= l.daily
           /\ spent'[t].peakWeekly \in Nat /\ spent'[t].peakWeekly >= spent[t].peakWeekly
           /\ spent'[t].peakWeekly >= l.weekly
BY ConstantsAssumption DEF Inv, TypeOK, PeaksWith, History

\* The history of the limits keeps its type when new limits enter it.
LEMMA PeaksType ==
    ASSUME Inv, NEW t \in Treasuries, NEW l \in Limits,
           spent' = [spent EXCEPT ![t] = PeaksWith(t, l)]
    PROVE  spent' \in [Treasuries -> History]
<1> DEFINE d == IF l.daily > spent[t].peakDaily THEN l.daily ELSE spent[t].peakDaily
           w == IF l.weekly > spent[t].peakWeekly THEN l.weekly ELSE spent[t].peakWeekly
<1>1. spent \in [Treasuries -> History]
    BY DEF Inv, TypeOK
<1>2. spent[t] \in History
    BY <1>1
<1>3. spent[t].peakDaily \in Nat /\ spent[t].peakWeekly \in Nat
    BY <1>2 DEF History
<1>4. l.daily \in Nat /\ l.weekly \in Nat
    BY ConstantsAssumption
<1>5. d \in Nat /\ w \in Nat
    BY <1>3, <1>4
<1>6. PeaksWith(t, l) = [spent[t] EXCEPT !.peakDaily = d, !.peakWeekly = w]
    BY <1>2 DEF PeaksWith, History
<1> HIDE DEF d, w
<1>7. PeaksWith(t, l) \in History
    BY <1>2, <1>5, <1>6 DEF History
<1> QED BY <1>1, <1>7

-----------------------------------------------------------------------------
(* Treasuries *)

\* init_treasury preserves the invariant.
LEMMA InitTreasuryInv ==
    ASSUME Inv, NEW t \in Treasuries, NEW l \in Limits, InitTreasury(t, l)
    PROVE  Inv'
<1>l. /\ l.daily \in Nat /\ l.perTx \in Nat /\ l.weekly \in Nat
    BY ConstantsAssumption
<1>c. /\ UnixDay(now) \in Nat /\ IsoWeek(now) \in Nat
    BY CalendarMono DEF Inv, TypeOK
<1>1. TypeOK'
  <2>1. /\ treasury \in [Treasuries -> AgentTreasury]
        /\ spent \in [Treasuries -> History]
      BY DEF Inv, TypeOK
  <2>2. treasury' \in [Treasuries -> AgentTreasury]
      BY <1>l, <1>c, <2>1 DEF InitTreasury, AgentTreasury
  <2>3. spent' \in [Treasuries -> History]
      BY PeaksType DEF InitTreasury
  <2> QED BY <2>2, <2>3 DEF Inv, TypeOK, InitTreasury
<1>2. \A s \in Streams : StreamInv(s)'
    BY StreamFrame DEF Inv, InitTreasury
<1>3. \A u \in Treasuries : LimitInv(u)'
  <2> SUFFICES ASSUME NEW u \in Treasuries PROVE LimitInv(u)'
      OBVIOUS
  <2>1. CASE u # t
    <3>1. treasury'[u] = treasury[u] /\ spent'[u] = spent[u] /\ now' = now
        BY <2>1 DEF InitTreasury, Inv, TypeOK
    <3> QED BY <3>1, LimitFrame DEF Inv
  <2>2. CASE u = t
    <3>1. /\ treasury'[t].daily = l.daily /\ treasury'[t].weekly = l.weekly
          /\ treasury'[t].spentToday = 0 /\ treasury'[t].spentWeek = 0
          /\ treasury'[t].lastDay = UnixDay(now) /\ treasury'[t].lastWeek = IsoWeek(now)
        BY DEF InitTreasury, Inv, TypeOK
    <3>2. /\ spent[t].today <= Worth(0, spent[t].pricedToday)
          /\ spent[t].week <= Worth(0, spent[t].pricedWeek)
      <4>1. LimitInv(t) /\ ~treasury[t].live
          BY DEF Inv, InitTreasury
      <4>2. CountedDay(t) = 0 /\ CountedWeek(t) = 0
          BY <4>1 DEF LimitInv, CountedDay, CountedWeek
      <4> QED BY <4>1, <4>2 DEF LimitInv
    <3>3. treasury'[t].live
        BY DEF InitTreasury, Inv, TypeOK
    <3>4. /\ spent'[t].today = spent[t].today /\ spent'[t].week = spent[t].week
          /\ spent'[t].pricedToday = spent[t].pricedToday
          /\ spent'[t].pricedWeek = spent[t].pricedWeek
          /\ spent'[t].peakDaily \in Nat /\ spent'[t].peakDaily >= l.daily
          /\ spent'[t].peakWeekly \in Nat /\ spent'[t].peakWeekly >= l.weekly
        BY PeaksOfNewLimits DEF InitTreasury
    <3>5. UnixDay(now)' = UnixDay(now) /\ IsoWeek(now)' = IsoWeek(now)
        BY CalendarFrame DEF InitTreasury
    <3>6. CountedDay(t)' = 0 /\ CountedWeek(t)' = 0
        BY <3>1 DEF CountedDay, CountedWeek
    <3>7. LimitInv(t)'
        BY <1>l, <1>c, <3>1, <3>2, <3>3, <3>4, <3>5, <3>6 DEF LimitInv
    <3> QED BY <2>2, <3>7
  <2> QED BY <2>1, <2>2
<1> QED BY <1>1, <1>2, <1>3 DEF Inv

\* set_limits preserves the invariant.
LEMMA SetLimitsInv ==
    ASSUME Inv, NEW t \in Treasuries, NEW l \in Limits, SetLimits(t, l)
    PROVE  Inv'
<1>l. /\ l.daily \in Nat /\ l.perTx \in Nat /\ l.weekly \in Nat
    BY ConstantsAssumption
<1>t. /\ treasury \in [Treasuries -> AgentTreasury]
      /\ spent \in [Treasuries -> History]
    BY DEF Inv, TypeOK
<1>e. treasury' = [treasury EXCEPT ![t] = [@ EXCEPT !.daily = l.daily, !.perTx = l.perTx,
                                                    !.weekly = l.weekly]]
    BY DEF SetLimits
<1>1. TypeOK'
  <2>3. treasury[t] \in AgentTreasury
      BY <1>t
  <2>4. [treasury[t] EXCEPT !.daily = l.daily, !.perTx = l.perTx, !.weekly = l.weekly]
            \in AgentTreasury
      BY <1>l, <2>3 DEF AgentTreasury
  <2>1. treasury' \in [Treasuries -> AgentTreasury]
      BY <1>t, <1>e, <2>4
  <2>2. spent' \in [Treasuries -> History]
      BY PeaksType DEF SetLimits
  <2> QED BY <2>1, <2>2 DEF Inv, TypeOK, SetLimits
<1>2. \A s \in Streams : StreamInv(s)'
    BY StreamFrame DEF Inv, SetLimits
<1>3. \A u \in Treasuries : LimitInv(u)'
  <2> SUFFICES ASSUME NEW u \in Treasuries PROVE LimitInv(u)'
      OBVIOUS
  <2>1. CASE u # t
      BY <2>1, LimitFrame DEF Inv, SetLimits
  <2>2. CASE u = t
    <3>1. /\ treasury'[t].daily = l.daily /\ treasury'[t].weekly = l.weekly
          /\ treasury'[t].spentToday = treasury[t].spentToday
          /\ treasury'[t].spentWeek = treasury[t].spentWeek
          /\ treasury'[t].lastDay = treasury[t].lastDay
          /\ treasury'[t].lastWeek = treasury[t].lastWeek
          /\ treasury'[t].live = treasury[t].live
        BY <1>t, <1>e DEF AgentTreasury
    <3>2. /\ spent'[t].today = spent[t].today /\ spent'[t].week = spent[t].week
          /\ spent'[t].pricedToday = spent[t].pricedToday
          /\ spent'[t].pricedWeek = spent[t].pricedWeek
          /\ spent'[t].peakDaily \in Nat /\ spent'[t].peakDaily >= spent[t].peakDaily
          /\ spent'[t].peakDaily >= l.daily
          /\ spent'[t].peakWeekly \in Nat /\ spent'[t].peakWeekly >= spent[t].peakWeekly
          /\ spent'[t].peakWeekly >= l.weekly
        BY PeaksOfNewLimits DEF SetLimits
    <3>3. UnixDay(now)' = UnixDay(now) /\ IsoWeek(now)' = IsoWeek(now)
        BY CalendarFrame DEF SetLimits
    <3>4. LimitInv(t) /\ spent[t].peakDaily \in Nat /\ spent[t].peakWeekly \in Nat
        BY <1>t DEF Inv, History
    <3>6. CountedDay(t)' = CountedDay(t) /\ CountedWeek(t)' = CountedWeek(t)
        BY <3>1, <3>3 DEF CountedDay, CountedWeek
    <3>7. CountedDay(t) \in Nat /\ CountedWeek(t) \in Nat
        BY <1>t DEF CountedDay, CountedWeek, AgentTreasury
    <3>5. LimitInv(t)'
        BY <1>l, <3>1, <3>2, <3>3, <3>4, <3>6, <3>7 DEF LimitInv
    <3> QED BY <2>2, <3>5
  <2> QED BY <2>1, <2>2
<1> QED BY <1>1, <1>2, <1>3 DEF Inv

\* fund_treasury preserves the invariant.
LEMMA FundTreasuryInv ==
    ASSUME Inv, NEW t \in Treasuries, NEW h \in Clients, NEW m \in Mints,
           NEW amount \in Amounts, FundTreasury(t, h, m, amount)
    PROVE  Inv'
<1>a. amount \in Nat /\ h \in Holders
    BY ConstantsAssumption DEF Holders
<1>f. Received(m, amount) \in Nat
    BY <1>a, FeeRange
<1>1. TypeOK'
  <2>1. /\ vaults \in [Treasuries -> SUBSET Mints] /\ vault \in [Treasuries -> [Mints -> Nat]]
        /\ wallet \in [Holders -> [Mints -> Nat]] /\ wallet[h][m] >= amount
      BY DEF Inv, TypeOK, FundTreasury
  <2>2. /\ vaults' \in [Treasuries -> SUBSET Mints] /\ vault' \in [Treasuries -> [Mints -> Nat]]
        /\ wallet' \in [Holders -> [Mints -> Nat]]
      BY <1>a, <1>f, <2>1 DEF FundTreasury
  <2> QED BY <2>2 DEF Inv, TypeOK, FundTreasury
<1>2. \A s \in Streams : StreamInv(s)'
    BY StreamFrame DEF Inv, FundTreasury
<1>3. \A u \in Treasuries : LimitInv(u)'
    BY LimitFrame DEF Inv, FundTreasury
<1> QED BY <1>1, <1>2, <1>3 DEF Inv

\* apply_rollover: the counters then hold what counts today and this week, and
\* carry today's date.
LEMMA RolloverFields ==
    ASSUME Inv, NEW t \in Treasuries
    PROVE  /\ Rollover(treasury[t]) \in AgentTreasury
           /\ Rollover(treasury[t]).live = treasury[t].live
           /\ Rollover(treasury[t]).daily = treasury[t].daily
           /\ Rollover(treasury[t]).weekly = treasury[t].weekly
           /\ Rollover(treasury[t]).spentToday = CountedDay(t)
           /\ Rollover(treasury[t]).spentWeek = CountedWeek(t)
           /\ Rollover(treasury[t]).lastDay = UnixDay(now)
           /\ Rollover(treasury[t]).lastWeek = IsoWeek(now)
           /\ Rollover(treasury[t]).streaming = treasury[t].streaming
           /\ Rollover(treasury[t]).counterparty = treasury[t].counterparty
           /\ Rollover(treasury[t]).rate = treasury[t].rate
<1>1. treasury[t] \in AgentTreasury /\ LimitInv(t)
    BY DEF Inv, TypeOK
<1>2. UnixDay(now) \in Nat /\ IsoWeek(now) \in Nat
    BY CalendarMono DEF Inv, TypeOK
<1> DEFINE x == treasury[t]
           day == UnixDay(now)
           week == IsoWeek(now)
           newDay == day > x.lastDay
           newWeek == week > x.lastWeek
<1>3. Rollover(x) = [x EXCEPT !.spentToday = IF newDay THEN 0 ELSE x.spentToday,
                              !.lastDay = IF newDay THEN day ELSE x.lastDay,
                              !.spentWeek = IF newWeek THEN 0 ELSE x.spentWeek,
                              !.lastWeek = IF newWeek THEN week ELSE x.lastWeek]
    BY DEF Rollover
<1>4. /\ x.spentToday \in Nat /\ x.spentWeek \in Nat /\ x.lastDay \in Int /\ x.lastWeek \in Int
    BY <1>1 DEF AgentTreasury
<1>5. /\ CountedDay(t) = (IF newDay THEN 0 ELSE x.spentToday)
      /\ CountedWeek(t) = (IF newWeek THEN 0 ELSE x.spentWeek)
      /\ x.lastDay <= day /\ x.lastWeek <= week
    BY <1>1 DEF LimitInv, CountedDay, CountedWeek
<1>6. day = (IF newDay THEN day ELSE x.lastDay) /\ week = (IF newWeek THEN week ELSE x.lastWeek)
    BY <1>2, <1>4, <1>5
<1>7. Rollover(x) = [x EXCEPT !.spentToday = CountedDay(t), !.lastDay = day,
                              !.spentWeek = CountedWeek(t), !.lastWeek = week]
    BY <1>3, <1>5, <1>6
<1>8. CountedDay(t) \in Nat /\ CountedWeek(t) \in Nat
    BY <1>4, <1>5
<1> DEFINE y == Rollover(x)
           a == CountedDay(t)
           b == CountedWeek(t)
<1>9. /\ x \in AgentTreasury /\ day \in Int /\ week \in Int /\ a \in Nat /\ b \in Nat
      /\ y = [x EXCEPT !.spentToday = a, !.lastDay = day, !.spentWeek = b, !.lastWeek = week]
    BY <1>1, <1>2, <1>7, <1>8
<1> HIDE DEF x, day, week, newDay, newWeek, y, a, b
<1>10. /\ y \in AgentTreasury
       /\ y.live = x.live /\ y.daily = x.daily /\ y.weekly = x.weekly
       /\ y.spentToday = a /\ y.spentWeek = b /\ y.lastDay = day /\ y.lastWeek = week
       /\ y.streaming = x.streaming /\ y.counterparty = x.counterparty /\ y.rate = x.rate
    BY <1>9 DEF AgentTreasury
<1> QED BY <1>10 DEF x, day, week, y, a, b

\* A withdrawal of value v that counts as n units keeps what was spent covered.
LEMMA SpendCovered ==
    ASSUME NEW v \in Nat, NEW n \in Nat, NEW i \in Nat, v <= Worth(n, i),
           NEW x \in Nat, NEW a \in Nat, NEW j \in Nat, x <= Worth(a, j)
    PROVE  x + v <= Worth(a + n, j + i)
<1>1. Worth(a + n, j + i) = Worth(a, j) + Worth(n, i)
    BY WorthAdds
<1>2. Worth(a, j) \in Nat /\ Worth(n, i) \in Nat
    BY WorthNat
<1> QED BY <1>1, <1>2

\* What the history holds after a withdrawal.
LEMMA SpendFields ==
    ASSUME NEW h \in History, NEW v \in Nat, NEW i \in Nat
    PROVE  /\ Spend(h, v, i) \in History
           /\ Spend(h, v, i).today = h.today + v /\ Spend(h, v, i).week = h.week + v
           /\ Spend(h, v, i).pricedToday = h.pricedToday + i
           /\ Spend(h, v, i).pricedWeek = h.pricedWeek + i
           /\ Spend(h, v, i).peakDaily = h.peakDaily
           /\ Spend(h, v, i).peakWeekly = h.peakWeekly
<1> DEFINE a == h.today + v
           b == h.week + v
           c == h.pricedToday + i
           d == h.pricedWeek + i
<1>1. a \in Nat /\ b \in Nat /\ c \in Nat /\ d \in Nat
    BY DEF History
<1>2. Spend(h, v, i) = [h EXCEPT !.today = a, !.week = b, !.pricedToday = c, !.pricedWeek = d]
    BY DEF Spend
<1> HIDE DEF a, b, c, d
<1>3. \A g \in History : LET e == [g EXCEPT !.today = a, !.week = b, !.pricedToday = c, !.pricedWeek = d]
                          IN  /\ e \in History
                              /\ e.today = a /\ e.week = b /\ e.pricedToday = c /\ e.pricedWeek = d
                              /\ e.peakDaily = g.peakDaily /\ e.peakWeekly = g.peakWeekly
    BY <1>1 DEF History
<1> QED BY <1>2, <1>3 DEF a, b, c, d

\* withdraw preserves the invariant.
LEMMA WithdrawInv ==
    ASSUME Inv, NEW t \in Treasuries, NEW m \in Mints, NEW amount \in Amounts,
           NEW price \in {{}} \cup {{f} : f \in Feeds}, Withdraw(t, m, amount, price)
    PROVE  Inv'
<1> DEFINE r == Rollover(treasury[t])
           n == Normalized(amount, price)
           v == amount * PriceOf(price)
           i == IF price = {} THEN 0 ELSE 1
           got == Received(m, amount)
           h == Spend(spent[t], v, i)
<1>a. amount \in Nat /\ OperatorOf[t] \in Holders
    BY ConstantsAssumption DEF Holders
<1>f. got \in Nat
    BY <1>a, FeeRange
<1>n. n \in Nat /\ v \in Nat /\ i \in Nat /\ v <= Worth(n, i)
    BY <1>a, NormalizedCovers DEF Withdraw
<1>r. /\ r \in AgentTreasury /\ r.live = treasury[t].live
      /\ r.daily = treasury[t].daily /\ r.weekly = treasury[t].weekly
      /\ r.spentToday = CountedDay(t) /\ r.spentWeek = CountedWeek(t)
      /\ r.lastDay = UnixDay(now) /\ r.lastWeek = IsoWeek(now)
    BY RolloverFields
<1>w. /\ r.spentToday + n <= r.daily /\ r.spentWeek + n <= r.weekly
      /\ vault[t][m] >= amount /\ treasury[t].live
      /\ treasury' = [treasury EXCEPT ![t] = [r EXCEPT !.spentToday = r.spentToday + n,
                                                        !.spentWeek = r.spentWeek + n]]
      /\ vault' = [vault EXCEPT ![t][m] = @ - amount]
      /\ wallet' = [wallet EXCEPT ![OperatorOf[t]][m] = @ + got]
      /\ spent' = [spent EXCEPT ![t] = h]
      /\ UNCHANGED <<now, stream, escrow, gifts>>
    BY DEF Withdraw
<1>t. /\ treasury \in [Treasuries -> AgentTreasury]
      /\ spent \in [Treasuries -> History]
      /\ vault \in [Treasuries -> [Mints -> Nat]]
      /\ wallet \in [Holders -> [Mints -> Nat]]
    BY DEF Inv, TypeOK
<1>h. /\ h \in History
      /\ h.today = spent[t].today + v /\ h.week = spent[t].week + v
      /\ h.pricedToday = spent[t].pricedToday + i /\ h.pricedWeek = spent[t].pricedWeek + i
      /\ h.peakDaily = spent[t].peakDaily /\ h.peakWeekly = spent[t].peakWeekly
  <2>1. spent[t] \in History
      BY <1>t
  <2>2. h = Spend(spent[t], v, i)
      OBVIOUS
  <2> HIDE DEF n, v, i, h
  <2>3. \A g \in History, x, y \in Nat :
            /\ Spend(g, x, y) \in History
            /\ Spend(g, x, y).today = g.today + x /\ Spend(g, x, y).week = g.week + x
            /\ Spend(g, x, y).pricedToday = g.pricedToday + y
            /\ Spend(g, x, y).pricedWeek = g.pricedWeek + y
            /\ Spend(g, x, y).peakDaily = g.peakDaily
            /\ Spend(g, x, y).peakWeekly = g.peakWeekly
      BY SpendFields, Zenon
  <2>4. v \in Nat /\ i \in Nat
      BY <1>n
  <2> QED BY <2>1, <2>2, <2>3, <2>4, Zenon
<1> HIDE DEF r, n, v, i, got, h
<1>1. TypeOK'
  <2>1. treasury' \in [Treasuries -> AgentTreasury]
    <3>1. r.spentToday + n \in Nat /\ r.spentWeek + n \in Nat
        BY <1>n, <1>r DEF AgentTreasury
    <3>2. [r EXCEPT !.spentToday = r.spentToday + n, !.spentWeek = r.spentWeek + n] \in AgentTreasury
        BY <1>r, <3>1 DEF AgentTreasury
    <3> QED BY <3>2, <1>w, <1>t
  <2>2. spent' \in [Treasuries -> History]
      BY <1>h, <1>w, <1>t
  <2>3. vault' \in [Treasuries -> [Mints -> Nat]]
      BY <1>a, <1>w, <1>t
  <2>4. wallet' \in [Holders -> [Mints -> Nat]]
      BY <1>a, <1>f, <1>w, <1>t
  <2> QED BY <2>1, <2>2, <2>3, <2>4 DEF Inv, TypeOK, Withdraw
<1>2. \A s \in Streams : StreamInv(s)'
    BY <1>w, StreamFrame DEF Inv
<1>3. \A u \in Treasuries : LimitInv(u)'
  <2> SUFFICES ASSUME NEW u \in Treasuries PROVE LimitInv(u)'
      OBVIOUS
  <2>1. CASE u # t
    <3>1. treasury'[u] = treasury[u] /\ spent'[u] = spent[u] /\ now' = now
        BY <2>1, <1>w, <1>t
    <3> QED BY <3>1, LimitFrame DEF Inv
  <2>2. CASE u = t
    <3> DEFINE a == CountedDay(t)
               b == CountedWeek(t)
    <3>1. a \in Nat /\ b \in Nat
        BY <1>t DEF CountedDay, CountedWeek, AgentTreasury
    <3>2. \A z \in AgentTreasury : \A p, q \in Nat :
              LET e == [z EXCEPT !.spentToday = p, !.spentWeek = q]
              IN  /\ e.live = z.live /\ e.daily = z.daily /\ e.weekly = z.weekly
                  /\ e.lastDay = z.lastDay /\ e.lastWeek = z.lastWeek
                  /\ e.spentToday = p /\ e.spentWeek = q
        BY DEF AgentTreasury
    <3>3. /\ r.spentToday + n = a + n /\ r.spentWeek + n = b + n
          /\ a + n \in Nat /\ b + n \in Nat
        BY <1>n, <1>r, <3>1
    <3>4. treasury'[t] = [r EXCEPT !.spentToday = a + n, !.spentWeek = b + n]
        BY <1>w, <1>t, <3>3
    <3>5. /\ treasury'[t].live /\ treasury'[t].daily = treasury[t].daily
          /\ treasury'[t].weekly = treasury[t].weekly
          /\ treasury'[t].lastDay = UnixDay(now) /\ treasury'[t].lastWeek = IsoWeek(now)
          /\ treasury'[t].spentToday = a + n /\ treasury'[t].spentWeek = b + n
      <4> DEFINE c == a + n
                 d == b + n
                 e == [r EXCEPT !.spentToday = c, !.spentWeek = d]
      <4>1. c \in Nat /\ d \in Nat /\ treasury'[t] = e
          BY <3>3, <3>4
      <4> HIDE DEF a, b, c, d
      <4>2. /\ e.live = r.live /\ e.daily = r.daily /\ e.weekly = r.weekly
            /\ e.lastDay = r.lastDay /\ e.lastWeek = r.lastWeek
            /\ e.spentToday = c /\ e.spentWeek = d
          BY <1>r, <3>2, <4>1
      <4> HIDE DEF e
      <4>3. e.live /\ e.daily = treasury[t].daily /\ e.weekly = treasury[t].weekly
          BY <1>r, <1>w, <4>2
      <4>4. e.lastDay = UnixDay(now) /\ e.lastWeek = IsoWeek(now)
          BY <1>r, <4>2
      <4> QED BY <4>1, <4>2, <4>3, <4>4 DEF c, d
    <3>6. UnixDay(now)' = UnixDay(now) /\ IsoWeek(now)' = IsoWeek(now)
        BY <1>w, CalendarFrame
    <3>7. UnixDay(now) \in Nat /\ IsoWeek(now) \in Nat
        BY CalendarMono DEF Inv, TypeOK
    <3>8. CountedDay(t)' = a + n /\ CountedWeek(t)' = b + n
        BY <3>5, <3>6, <3>7 DEF CountedDay, CountedWeek
    <3>9. LimitInv(t)
        BY DEF Inv
    <3>10. /\ spent[t].today \in Nat /\ spent[t].week \in Nat
           /\ spent[t].pricedToday \in Nat /\ spent[t].pricedWeek \in Nat
           /\ spent[t].peakDaily \in Nat /\ spent[t].peakWeekly \in Nat
           /\ treasury[t].daily \in Nat /\ treasury[t].weekly \in Nat
        BY <1>t DEF History, AgentTreasury
    <3>11. spent[t].today + v <= Worth(a + n, spent[t].pricedToday + i)
        BY <1>n, <3>1, <3>9, <3>10, SpendCovered DEF LimitInv
    <3>12. spent[t].week + v <= Worth(b + n, spent[t].pricedWeek + i)
        BY <1>n, <3>1, <3>9, <3>10, SpendCovered DEF LimitInv
    <3>13. spent'[t] = h
        BY <1>w, <1>t
    <3>14. /\ a + n <= treasury[t].daily /\ b + n <= treasury[t].weekly
        BY <1>r, <1>w
    <3>15. /\ treasury[t].daily <= spent[t].peakDaily /\ treasury[t].weekly <= spent[t].peakWeekly
        BY <3>9 DEF LimitInv
    <3> HIDE DEF a, b
    <3>16. a + n <= spent[t].peakDaily /\ b + n <= spent[t].peakWeekly
        BY <1>n, <3>1, <3>10, <3>14, <3>15
    <3>17. LimitInv(t)'
        BY <1>h, <3>5, <3>6, <3>7, <3>8, <3>11, <3>12, <3>13, <3>15, <3>16 DEF LimitInv
    <3> QED BY <2>2, <3>17
  <2> QED BY <2>1, <2>2
<1> QED BY <1>1, <1>2, <1>3 DEF Inv

\* So does every instruction on a treasury.
LEMMA TreasuryStepInv ==
    ASSUME Inv, NEW t \in Treasuries, TreasuryStep(t)
    PROVE  Inv'
<1>1. CASE \E l \in Limits : InitTreasury(t, l) \/ SetLimits(t, l)
    BY <1>1, InitTreasuryInv, SetLimitsInv
<1>2. CASE \E h \in Clients, m \in Mints, amount \in Amounts : FundTreasury(t, h, m, amount)
    BY <1>2, FundTreasuryInv
<1>3. CASE \E m \in Mints, amount \in Amounts, price \in {{}} \cup {{f} : f \in Feeds} :
              Withdraw(t, m, amount, price)
    BY <1>3, WithdrawInv
<1>4. ASSUME \/ \E list \in TargetChoices : InitAllowedTargets(t, list)
             \/ \E add, remove \in TargetChoices : UpdateAllowedTargets(t, add, remove)
      PROVE  Inv'
  <2>1. targets' \in [Treasuries -> [live : BOOLEAN, list : SUBSET Targets]]
    <3>1. targets \in [Treasuries -> [live : BOOLEAN, list : SUBSET Targets]]
        BY DEF Inv, TypeOK
    <3>2. CASE \E list \in TargetChoices : InitAllowedTargets(t, list)
        BY <3>1, <3>2, GovernanceAssumption DEF InitAllowedTargets
    <3>3. CASE \E add, remove \in TargetChoices : UpdateAllowedTargets(t, add, remove)
      <4>1. PICK add \in TargetChoices, remove \in TargetChoices :
                targets' = [targets EXCEPT ![t].list = MutateTargets(@, add, remove)]
          BY <3>3 DEF UpdateAllowedTargets
      <4>2. MutateTargets(targets[t].list, add, remove) \in SUBSET Targets
          BY <3>1, GovernanceAssumption DEF MutateTargets
      <4> QED BY <3>1, <4>1, <4>2
    <3> QED BY <1>4, <3>2, <3>3
  <2>2. /\ UNCHANGED <<global, hooks, agentHooks, treasury, vaults, vault, stream, escrow, wallet, now,
                    gifts, spent>>
      BY <1>4 DEF InitAllowedTargets, UpdateAllowedTargets, UnchangedByGovernance, UnchangedHooks
  <2>3. TypeOK'
      BY <2>1, <2>2 DEF Inv, TypeOK
  <2> QED BY <2>2, <2>3, StreamFrame, LimitFrame DEF Inv
<1> QED BY <1>1, <1>2, <1>3, <1>4 DEF TreasuryStep

-----------------------------------------------------------------------------
(* Streams *)

\* The stream fields of a treasury have nothing to do with its limits.
LEMMA StreamFieldsOnly ==
    ASSUME Inv, NEW t \in Treasuries, NEW on \in BOOLEAN, NEW c \in Clients \cup {None},
           NEW q \in Nat, now' = now, spent' = spent,
           treasury' = [treasury EXCEPT ![t] = [@ EXCEPT !.streaming = on, !.counterparty = c,
                                                         !.rate = q]]
    PROVE  treasury' \in [Treasuries -> AgentTreasury] /\ \A u \in Treasuries : LimitInv(u)'
<1>t. treasury \in [Treasuries -> AgentTreasury]
    BY DEF Inv, TypeOK
<1>1. treasury' \in [Treasuries -> AgentTreasury]
  <2>1. treasury[t] \in AgentTreasury
      BY <1>t
  <2>2. [treasury[t] EXCEPT !.streaming = on, !.counterparty = c, !.rate = q] \in AgentTreasury
      BY <2>1 DEF AgentTreasury
  <2> QED BY <1>t, <2>2
<1>2. ASSUME NEW u \in Treasuries PROVE LimitInv(u)'
  <2>1. /\ treasury'[u].live = treasury[u].live
        /\ treasury'[u].daily = treasury[u].daily
        /\ treasury'[u].weekly = treasury[u].weekly
        /\ treasury'[u].spentToday = treasury[u].spentToday
        /\ treasury'[u].spentWeek = treasury[u].spentWeek
        /\ treasury'[u].lastDay = treasury[u].lastDay
        /\ treasury'[u].lastWeek = treasury[u].lastWeek
      BY <1>t DEF AgentTreasury
  <2> QED BY <2>1, LimitFrame DEF Inv
<1> QED BY <1>1, <1>2

\* What an active stream owes, in numbers.
LEMMA ActiveStream ==
    ASSUME Inv, NEW s \in Streams, stream[s].status = "Active"
    PROVE  /\ stream[s] \in PaymentStream /\ stream[s].payerMint \in Mints
           /\ stream[s].deposit \in Nat /\ stream[s].withdrawn \in Nat
           /\ escrow[s] \in Nat /\ gifts[s] \in Nat /\ Withheld(s) \in Nat
           /\ stream[s].start <= now
           /\ Earned(stream[s]) \in Nat
           /\ stream[s].withdrawn <= Earned(stream[s])
           /\ Earned(stream[s]) <= stream[s].deposit
           /\ stream[s].deposit - stream[s].withdrawn + gifts[s] <= escrow[s] + Withheld(s)
           /\ stream[s].payerMint = stream[s].payoutMint
                 => stream[s].deposit - stream[s].withdrawn + gifts[s] = escrow[s] + Withheld(s)
<1>1. stream[s] \in PaymentStream /\ escrow[s] \in Nat /\ gifts[s] \in Nat /\ now \in Nat
    BY DEF Inv, TypeOK
<1>2. /\ stream[s].start <= now /\ stream[s].withdrawn <= Earned(stream[s])
      /\ stream[s].payerMint \in Mints
      /\ stream[s].deposit - stream[s].withdrawn + gifts[s] <= escrow[s] + Withheld(s)
      /\ stream[s].payerMint = stream[s].payoutMint
            => stream[s].deposit - stream[s].withdrawn + gifts[s] = escrow[s] + Withheld(s)
    BY DEF Inv, StreamInv
<1>3. Earned(stream[s]) \in Nat /\ Earned(stream[s]) <= stream[s].deposit
    BY <1>1, <1>2, EarnedRange
<1>4. stream[s].deposit \in Nat /\ stream[s].withdrawn \in Nat
    BY <1>1 DEF PaymentStream
<1>5. Withheld(s) \in Nat
    BY <1>2, <1>4, FeeRange DEF Withheld
<1> QED BY <1>1, <1>2, <1>3, <1>4, <1>5

\* init_stream preserves the invariant.
LEMMA InitStreamInv ==
    ASSUME Inv, NEW s \in Streams, NEW t \in Treasuries, NEW c \in Clients,
           NEW payer \in Mints, NEW payout \in Mints, NEW rate \in Rates,
           NEW duration \in Durations, InitStream(s, t, c, payer, payout, rate, duration)
    PROVE  Inv'
<1>a. /\ rate \in Nat /\ duration \in Nat /\ c \in Holders /\ now \in Nat
    BY ConstantsAssumption DEF Holders, InitStream, Inv, TypeOK
<1>d. rate * duration \in Nat
    BY <1>a, TimesMono
<1> DEFINE dep == rate * duration
           new == [status |-> "Active", agent |-> t, client |-> c,
                   payerMint |-> payer, payoutMint |-> payout, rate |-> rate,
                   start |-> now, duration |-> duration,
                   deposit |-> dep, withdrawn |-> 0]
<1>w. /\ stream' = [stream EXCEPT ![s] = new]
      /\ escrow' = [escrow EXCEPT ![s] = Received(payer, dep)]
      /\ wallet' = [wallet EXCEPT ![c][payer] = @ - dep] /\ wallet[c][payer] >= dep
      /\ now' = now /\ spent' = spent /\ gifts' = gifts
      /\ treasury' = [treasury EXCEPT ![t] = [@ EXCEPT !.streaming = TRUE, !.counterparty = c,
                                                        !.rate = rate]]
    BY DEF InitStream
<1> HIDE DEF dep
<1>e. dep \in Nat
    BY <1>d DEF dep
<1>f. /\ TransferFee(payer, dep) \in Nat /\ Received(payer, dep) \in Nat
      /\ Received(payer, dep) = dep - TransferFee(payer, dep)
    BY <1>e, FeeRange
<1>g. gifts[s] = 0
    BY DEF Inv, StreamInv, InitStream
<1>t. /\ stream \in [Streams -> PaymentStream] /\ escrow \in [Streams -> Nat]
      /\ wallet \in [Holders -> [Mints -> Nat]]
    BY DEF Inv, TypeOK
<1>n. new \in PaymentStream /\ stream'[s] = new /\ escrow'[s] = Received(payer, dep)
    BY <1>a, <1>e, <1>w, <1>t DEF PaymentStream
<1>3. treasury' \in [Treasuries -> AgentTreasury] /\ \A u \in Treasuries : LimitInv(u)'
    BY <1>a, <1>w, StreamFieldsOnly
<1>1. TypeOK'
  <2>1. stream' \in [Streams -> PaymentStream] /\ escrow' \in [Streams -> Nat]
      BY <1>e, <1>f, <1>n, <1>w, <1>t
  <2>2. wallet' \in [Holders -> [Mints -> Nat]]
      BY <1>a, <1>e, <1>w, <1>t
  <2> QED BY <1>3, <2>1, <2>2 DEF Inv, TypeOK, InitStream
<1>2. \A q \in Streams : StreamInv(q)'
  <2> SUFFICES ASSUME NEW q \in Streams PROVE StreamInv(q)'
      OBVIOUS
  <2>1. CASE q # s
    <3>1. stream'[q] = stream[q] /\ escrow'[q] = escrow[q]
        BY <2>1, <1>w, <1>t
    <3> QED BY <3>1, <1>w, StreamFrame DEF Inv
  <2>2. CASE q = s
    <3>1. Earned(new) \in Nat
        BY <1>a, <1>n, EarnedRange
    <3>2. Earned(stream[s])' = Earned(new)
        BY <1>w, <1>n DEF Earned
    <3>3. Withheld(s)' = TransferFee(payer, dep) /\ gifts'[s] = 0
        BY <1>n, <1>w, <1>g DEF Withheld
    <3>4. dep - 0 + 0 = Received(payer, dep) + TransferFee(payer, dep) /\ now <= now
        BY <1>a, <1>e, <1>f
    <3>5. /\ new.status = "Active" /\ new.payerMint = payer /\ new.start = now
          /\ new.deposit = dep /\ new.withdrawn = 0
        OBVIOUS
    <3> HIDE DEF new
    <3>6. /\ stream'[q].status = "Active" /\ stream'[q].payerMint = payer
          /\ stream'[q].start = now /\ stream'[q].deposit = dep /\ stream'[q].withdrawn = 0
          /\ escrow'[q] = Received(payer, dep) /\ now' = now
        BY <1>n, <1>w, <2>2, <3>5
    <3>7. Withheld(q)' = TransferFee(payer, dep) /\ gifts'[q] = 0
        BY <2>2, <3>3
    <3>8. 0 <= Earned(stream[q])'
        BY <2>2, <3>1, <3>2
    <3> QED BY <1>a, <1>e, <1>f, <3>4, <3>6, <3>7, <3>8 DEF StreamInv
  <2> QED BY <2>1, <2>2
<1> QED BY <1>1, <1>2, <1>3 DEF Inv

\* A withdrawal takes at most what was earned since the last one.
LEMMA PaidOutInv ==
    ASSUME Inv, NEW s \in Streams, NEW t \in Treasuries, NEW m \in Mints,
           NEW paid \in Nat, NEW got \in Nat,
           stream[s].status = "Active",
           paid <= Earned(stream[s]) - stream[s].withdrawn,
           stream[s].payerMint = stream[s].payoutMint
              => paid = Earned(stream[s]) - stream[s].withdrawn,
           stream' = [stream EXCEPT ![s].withdrawn = Earned(stream[s])],
           escrow' = [escrow EXCEPT ![s] = @ - paid],
           paid <= escrow[s],
           vault' = [vault EXCEPT ![t][m] = @ + got],
           UNCHANGED <<global, treasury, targets, vaults, wallet, hooks, agentHooks, now, gifts,
                       spent>>
    PROVE  Inv'
<1> DEFINE e == Earned(stream[s])
<1>a. /\ stream[s] \in PaymentStream /\ stream[s].payerMint \in Mints
      /\ stream[s].deposit \in Nat /\ stream[s].withdrawn \in Nat /\ escrow[s] \in Nat
      /\ gifts[s] \in Nat /\ Withheld(s) \in Nat
      /\ stream[s].start <= now /\ e \in Nat
      /\ stream[s].withdrawn <= e /\ e <= stream[s].deposit
      /\ stream[s].deposit - stream[s].withdrawn + gifts[s] <= escrow[s] + Withheld(s)
      /\ stream[s].payerMint = stream[s].payoutMint
            => stream[s].deposit - stream[s].withdrawn + gifts[s] = escrow[s] + Withheld(s)
    BY ActiveStream
<1>t. /\ stream \in [Streams -> PaymentStream] /\ escrow \in [Streams -> Nat]
      /\ vault \in [Treasuries -> [Mints -> Nat]]
    BY DEF Inv, TypeOK
<1>p. Earned(stream[s])' = e
    BY <1>t DEF Earned, PaymentStream
<1> HIDE DEF e
<1>w. stream' = [stream EXCEPT ![s].withdrawn = e] /\ paid <= e - stream[s].withdrawn
      /\ (stream[s].payerMint = stream[s].payoutMint => paid = e - stream[s].withdrawn)
    BY DEF e
<1>1. TypeOK'
  <2>1. stream' \in [Streams -> PaymentStream]
    <3>1. [stream[s] EXCEPT !.withdrawn = e] \in PaymentStream
        BY <1>a DEF PaymentStream
    <3> QED BY <1>t, <1>w, <3>1
  <2>2. escrow[s] - paid \in Nat
      BY <1>a, <1>w
  <2>3. escrow' \in [Streams -> Nat] /\ vault' \in [Treasuries -> [Mints -> Nat]]
      BY <1>t, <2>2
  <2> QED BY <2>1, <2>3 DEF Inv, TypeOK
<1>2. \A q \in Streams : StreamInv(q)'
  <2> SUFFICES ASSUME NEW q \in Streams PROVE StreamInv(q)'
      OBVIOUS
  <2>1. CASE q # s
    <3>1. stream'[q] = stream[q] /\ escrow'[q] = escrow[q]
        BY <2>1, <1>w, <1>t
    <3> QED BY <3>1, StreamFrame DEF Inv
  <2>2. CASE q = s
    <3>1. /\ stream'[s].status = "Active" /\ stream'[s].start = stream[s].start
          /\ stream'[s].withdrawn = e /\ stream'[s].deposit = stream[s].deposit
          /\ stream'[s].payerMint = stream[s].payerMint
          /\ stream'[s].payoutMint = stream[s].payoutMint
          /\ escrow'[s] = escrow[s] - paid
        BY <1>w, <1>t DEF PaymentStream
    <3>2. Withheld(s)' = Withheld(s)
        BY <3>1 DEF Withheld
    <3>3. /\ stream[s].deposit - e + gifts[s] <= escrow[s] - paid + Withheld(s)
          /\ stream[s].payerMint = stream[s].payoutMint
                => stream[s].deposit - e + gifts[s] = escrow[s] - paid + Withheld(s)
        BY <1>a, <1>w
    <3> QED BY <1>a, <1>p, <2>2, <3>1, <3>2, <3>3 DEF StreamInv
  <2> QED BY <2>1, <2>2
<1>3. \A u \in Treasuries : LimitInv(u)'
    BY LimitFrame DEF Inv
<1> QED BY <1>1, <1>2, <1>3 DEF Inv

\* withdraw_earned by transfer preserves the invariant.
LEMMA WithdrawEarnedInv ==
    ASSUME Inv, NEW s \in Streams, NEW t \in Treasuries, NEW m \in Mints,
           WithdrawEarned(s, t, m)
    PROVE  Inv'
<1> DEFINE claimable == Earned(stream[s]) - stream[s].withdrawn
<1>1. stream[s].status = "Active"
    BY DEF WithdrawEarned, Withdrawable
<1>2. claimable \in Nat
    BY <1>1, ActiveStream
<1>3. /\ stream' = [stream EXCEPT ![s].withdrawn = Earned(stream[s])]
      /\ escrow' = [escrow EXCEPT ![s] = @ - claimable]
      /\ vault' = [vault EXCEPT ![t][m] = @ + Received(m, claimable)]
      /\ claimable <= escrow[s]
      /\ UNCHANGED <<global, treasury, targets, vaults, wallet, hooks, agentHooks, now, gifts,
                     spent>>
  <2>1. escrow[s] >= claimable /\ escrow[s] \in Nat
      BY DEF WithdrawEarned, Inv, TypeOK
  <2>2. claimable <= escrow[s]
      BY <1>2, <2>1
  <2> QED BY <2>2 DEF WithdrawEarned
<1>4. claimable <= Earned(stream[s]) - stream[s].withdrawn
    BY <1>2
<1>5. Received(m, claimable) \in Nat
    BY <1>2, FeeRange
<1> QED BY <1>1, <1>2, <1>3, <1>4, <1>5, PaidOutInv

\* withdraw_earned with a swap preserves the invariant.
LEMMA WithdrawEarnedSwapInv ==
    ASSUME Inv, NEW s \in Streams, NEW t \in Treasuries, NEW m \in Mints,
           NEW payer \in Feeds, NEW payout \in Feeds, NEW bonus \in 0..MaxBonus,
           NEW spending \in 0..escrow[s],
           WithdrawEarnedSwap(s, t, m, spending, payer, payout, bonus)
    PROVE  Inv'
<1> DEFINE claimable == Earned(stream[s]) - stream[s].withdrawn
           got == SwapMinOut(claimable, payer, payout) + bonus
<1>1. stream[s].status = "Active" /\ stream[s].payerMint # stream[s].payoutMint
    BY DEF WithdrawEarnedSwap, Withdrawable
<1>2. claimable \in Nat
    BY <1>1, ActiveStream
<1>3. SwapMinOut(claimable, payer, payout) \in Nat
    BY <1>2, SwapMinOutNat DEF WithdrawEarnedSwap
<1>4. got \in Nat
    BY <1>3, ConstantsAssumption
<1>5. spending \in Nat /\ spending <= claimable /\ spending <= escrow[s]
    BY <1>1, <1>2, ActiveStream DEF WithdrawEarnedSwap
<1>6. /\ stream' = [stream EXCEPT ![s].withdrawn = Earned(stream[s])]
      /\ escrow' = [escrow EXCEPT ![s] = @ - spending]
      /\ UNCHANGED <<global, treasury, targets, vaults, wallet, hooks, agentHooks, now, gifts,
                     spent>>
    BY DEF WithdrawEarnedSwap
<1>7. vault' = [vault EXCEPT ![t][m] = @ + got]
  <2>1. vault' = [vault EXCEPT ![t][m] = @ + SwapMinOut(claimable, payer, payout) + bonus]
      BY DEF WithdrawEarnedSwap
  <2>2. vault[t][m] \in Nat
      BY DEF Inv, TypeOK
  <2>3. vault[t][m] + SwapMinOut(claimable, payer, payout) + bonus = vault[t][m] + got
      BY <1>3, <2>2, ConstantsAssumption
  <2> QED BY <2>1, <2>3
<1> HIDE DEF got
<1> QED BY <1>1, <1>4, <1>5, <1>6, <1>7, PaidOutInv

\* close_stream preserves the invariant.
LEMMA CloseStreamInv ==
    ASSUME Inv, NEW s \in Streams, NEW t \in Treasuries, NEW dest \in Holders,
           CloseStream(s, t, dest)
    PROVE  Inv'
<1> DEFINE e == Earned(stream[s])
           p == stream[s].payerMint
           receipts == e - stream[s].withdrawn
           refund == stream[s].deposit - e
<1>w. /\ stream[s].status = "Active" /\ p \in vaults[t]
      /\ stream' = [stream EXCEPT ![s] = [@ EXCEPT !.status = "Closed", !.withdrawn = e]]
      /\ treasury' = [treasury EXCEPT ![t] = [@ EXCEPT !.streaming = FALSE,
                                               !.counterparty = None, !.rate = 0]]
      /\ escrow' = [escrow EXCEPT ![s] = @ - receipts - refund]
      /\ vault' = [vault EXCEPT ![t][p] = @ + Received(p, receipts)]
      /\ wallet' = [wallet EXCEPT ![dest][p] = @ + Received(p, refund)]
      /\ escrow[s] >= receipts + refund
      /\ UNCHANGED <<global, targets, vaults, hooks, agentHooks, now, gifts, spent>>
    BY DEF CloseStream
<1>a. /\ stream[s].deposit \in Nat /\ stream[s].withdrawn \in Nat /\ escrow[s] \in Nat
      /\ gifts[s] \in Nat /\ Withheld(s) \in Nat /\ p \in Mints
      /\ e \in Nat /\ stream[s].withdrawn <= e /\ e <= stream[s].deposit
      /\ p = stream[s].payoutMint
            => stream[s].deposit - stream[s].withdrawn + gifts[s] = escrow[s] + Withheld(s)
    BY <1>w, ActiveStream
<1>t. /\ stream \in [Streams -> PaymentStream] /\ escrow \in [Streams -> Nat]
      /\ vault \in [Treasuries -> [Mints -> Nat]] /\ wallet \in [Holders -> [Mints -> Nat]]
    BY <1>w DEF Inv, TypeOK
<1> HIDE DEF e
<1>r. /\ receipts \in Nat /\ refund \in Nat /\ escrow[s] - receipts - refund \in Nat
      /\ p = stream[s].payoutMint => escrow[s] - receipts - refund + Withheld(s) = gifts[s]
    BY <1>a, <1>w
<1>f. Received(p, receipts) \in Nat /\ Received(p, refund) \in Nat
    BY <1>a, <1>r, FeeRange
<1> HIDE DEF receipts, refund
<1>3. treasury' \in [Treasuries -> AgentTreasury] /\ \A u \in Treasuries : LimitInv(u)'
    BY <1>w, StreamFieldsOnly
<1>1. TypeOK'
  <2>4. stream[s] \in PaymentStream
      BY <1>t
  <2>5. [stream[s] EXCEPT !.status = "Closed", !.withdrawn = e] \in PaymentStream
      BY <1>a, <2>4 DEF PaymentStream
  <2>1. stream' \in [Streams -> PaymentStream]
      BY <1>w, <1>t, <2>5
  <2>2. escrow' \in [Streams -> Nat]
      BY <1>r, <1>w, <1>t
  <2>3. vault' \in [Treasuries -> [Mints -> Nat]] /\ wallet' \in [Holders -> [Mints -> Nat]]
      BY <1>a, <1>f, <1>w, <1>t
  <2> QED BY <1>3, <1>w, <2>1, <2>2, <2>3 DEF Inv, TypeOK
<1>2. \A q \in Streams : StreamInv(q)'
  <2> SUFFICES ASSUME NEW q \in Streams PROVE StreamInv(q)'
      OBVIOUS
  <2>1. CASE q # s
    <3>1. stream'[q] = stream[q] /\ escrow'[q] = escrow[q]
        BY <2>1, <1>w, <1>t
    <3> QED BY <3>1, <1>w, StreamFrame DEF Inv
  <2>2. CASE q = s
    <3>1. /\ stream'[s].status = "Closed"
          /\ stream'[s].payerMint = p /\ stream'[s].payoutMint = stream[s].payoutMint
          /\ stream'[s].deposit = stream[s].deposit
          /\ escrow'[s] = escrow[s] - receipts - refund
        BY <1>w, <1>t DEF PaymentStream
    <3>2. Withheld(s)' = Withheld(s)
        BY <3>1 DEF Withheld
    <3> QED BY <1>a, <1>r, <1>w, <2>2, <3>1, <3>2 DEF StreamInv
  <2> QED BY <2>1, <2>2
<1> QED BY <1>1, <1>2, <1>3 DEF Inv

\* A gift preserves the invariant: it is in the escrow and in the history.
LEMMA GiveToEscrowInv ==
    ASSUME Inv, NEW s \in Streams, NEW h \in Holders, NEW amount \in GiftAmounts,
           GiveToEscrow(s, h, amount)
    PROVE  Inv'
<1> DEFINE m == stream[s].payerMint
           x == Received(m, amount)
<1>1. amount \in Nat /\ m \in Mints
    BY ConstantsAssumption DEF GiveToEscrow, Inv, StreamInv
<1>2. x \in Nat
    BY <1>1, FeeRange
<1>t. /\ wallet \in [Holders -> [Mints -> Nat]] /\ escrow \in [Streams -> Nat]
      /\ gifts \in [Streams -> Nat] /\ stream \in [Streams -> PaymentStream]
    BY DEF Inv, TypeOK
<1>w. /\ wallet[h][m] >= amount /\ stream[s].status # "Absent"
      /\ wallet' = [wallet EXCEPT ![h][m] = @ - amount]
      /\ escrow' = [escrow EXCEPT ![s] = @ + x]
      /\ gifts' = [gifts EXCEPT ![s] = @ + x]
      /\ UNCHANGED <<global, treasury, targets, vaults, vault, stream, hooks, agentHooks, now,
                     spent>>
    BY DEF GiveToEscrow
<1> HIDE DEF m, x
<1>3. TypeOK'
  <2>1. wallet' \in [Holders -> [Mints -> Nat]]
      BY <1>1, <1>t, <1>w
  <2>2. escrow' \in [Streams -> Nat] /\ gifts' \in [Streams -> Nat]
      BY <1>2, <1>t, <1>w
  <2> QED BY <1>w, <2>1, <2>2 DEF Inv, TypeOK
<1>4. ASSUME NEW q \in Streams PROVE StreamInv(q)'
  <2>1. CASE q # s
    <3>1. stream'[q] = stream[q] /\ escrow'[q] = escrow[q] /\ gifts'[q] = gifts[q]
        BY <2>1, <1>w, <1>t
    <3> QED BY <3>1, <1>w, StreamFrame DEF Inv
  <2>2. CASE q = s
    <3>1. StreamInv(s)
        BY DEF Inv
    <3>2. /\ escrow'[s] = escrow[s] + x /\ gifts'[s] = gifts[s] + x
          /\ escrow[s] \in Nat /\ gifts[s] \in Nat
        BY <1>t, <1>w
    <3>3. stream[s].deposit \in Nat /\ stream[s].withdrawn \in Nat
        BY <1>t DEF PaymentStream
    <3>4. Withheld(s) \in Nat
        BY <1>1, <3>3, FeeRange DEF Withheld, m
    <3>5. /\ Withheld(s)' = Withheld(s) /\ Earned(stream[s])' = Earned(stream[s])
          /\ stream'[s] = stream[s] /\ now' = now
        BY <1>w DEF Withheld, Earned
    <3>6. /\ (stream[s].deposit - stream[s].withdrawn + gifts[s] <= escrow[s] + Withheld(s))
                => stream[s].deposit - stream[s].withdrawn + gifts'[s] <= escrow'[s] + Withheld(s)
          /\ (stream[s].deposit - stream[s].withdrawn + gifts[s] = escrow[s] + Withheld(s))
                => stream[s].deposit - stream[s].withdrawn + gifts'[s] = escrow'[s] + Withheld(s)
          /\ (escrow[s] + Withheld(s) = gifts[s]) => escrow'[s] + Withheld(s) = gifts'[s]
        BY <1>2, <3>2, <3>3, <3>4
    <3> QED BY <1>w, <2>2, <3>1, <3>5, <3>6 DEF StreamInv
  <2> QED BY <2>1, <2>2
<1>5. \A u \in Treasuries : LimitInv(u)'
    BY <1>w, LimitFrame DEF Inv
<1> QED BY <1>3, <1>4, <1>5 DEF Inv

\* So does every instruction on a stream.
LEMMA StreamStepInv ==
    ASSUME Inv, NEW s \in Streams, NEW t \in Treasuries, StreamStep(s, t)
    PROVE  Inv'
BY InitStreamInv, WithdrawEarnedInv, WithdrawEarnedSwapInv, CloseStreamInv DEF StreamStep

-----------------------------------------------------------------------------
(* Governance and the clock *)

\* Governance touches neither balances nor streams nor counters.
LEMMA GovernanceStepInv ==
    ASSUME Inv, GovernanceStep
    PROVE  Inv'
<1>t. /\ global \in TreasuryGlobal /\ hooks \in MintAllowlist
      /\ agentHooks \in [Treasuries -> SUBSET Mints]
    BY DEF Inv, TypeOK
<1>1. /\ global' \in TreasuryGlobal /\ hooks' \in MintAllowlist
      /\ agentHooks' \in [Treasuries -> SUBSET Mints]
      /\ UNCHANGED <<targets, treasury, vaults, vault, stream, escrow, wallet, now, gifts, spent>>
  <2>1. CASE \E d \in DailyChoices : SetDefaultDailyLimit(d) \/ SetMaxDailyLimit(d)
      BY <1>t, <2>1, ConstantsAssumption
         DEF SetDefaultDailyLimit, SetMaxDailyLimit, UnchangedByGovernance, UnchangedHooks, TreasuryGlobal
  <2>2. CASE \E d \in DurationChoices : SetMaxStreamDuration(d)
      BY <1>t, <2>2, ConstantsAssumption
         DEF SetMaxStreamDuration, UnchangedByGovernance, UnchangedHooks, TreasuryGlobal
  <2>3. CASE \E b \in PauseChoices : SetPaused(b)
      BY <1>t, <2>3, ConstantsAssumption DEF SetPaused, UnchangedByGovernance, UnchangedHooks, TreasuryGlobal
  <2>4. CASE \E add, remove \in TargetChoices : SetGlobalCallTargets(add, remove)
    <3>1. PICK add \in TargetChoices, remove \in TargetChoices : SetGlobalCallTargets(add, remove)
        BY <2>4
    <3>2. MutateTargets(global.targets, add, remove) \in SUBSET Targets
        BY <1>t, GovernanceAssumption DEF MutateTargets, TreasuryGlobal
    <3> QED BY <1>t, <3>1, <3>2 DEF SetGlobalCallTargets, UnchangedByGovernance, UnchangedHooks, TreasuryGlobal
  <2>5. CASE SetHookAllowlistPtr
      BY <1>t, <2>5 DEF SetHookAllowlistPtr, UnchangedByGovernance, UnchangedHooks, TreasuryGlobal
  <2>6. CASE \E m \in MintChoices : AddAllowedMint(m) \/ RemoveAllowedMint(m)
      BY <1>t, <2>6, ConstantsAssumption
         DEF AddAllowedMint, RemoveAllowedMint, UnchangedByGovernance, UnchangedHooks, TreasuryGlobal
  <2>7. CASE \E ms \in HookChoices : UpdateHooks(ms)
      BY <1>t, <2>7, ConstantsAssumption DEF UpdateHooks, UnchangedByGovernance, MintAllowlist
  <2>8. CASE \E b \in DenyChoices : SetDefaultDeny(b)
      BY <1>t, <2>8, ConstantsAssumption DEF SetDefaultDeny, UnchangedByGovernance, MintAllowlist
  <2>9. CASE \E t \in Treasuries, ms \in HookChoices : UpdateAgentHooks(t, ms)
      BY <1>t, <2>9, ConstantsAssumption DEF UpdateAgentHooks, UnchangedByGovernance
  <2> QED BY <2>1, <2>2, <2>3, <2>4, <2>5, <2>6, <2>7, <2>8, <2>9 DEF GovernanceStep
<1>2. TypeOK'
    BY <1>1 DEF Inv, TypeOK
<1> QED BY <1>1, <1>2, StreamFrame, LimitFrame DEF Inv

\* What an agent has earned does not shrink as time passes.
LEMMA EarnedGrows ==
    ASSUME NEW s \in Streams, stream[s] \in PaymentStream, stream[s].start <= now,
           now \in Nat, now' = now + 1, stream' = stream
    PROVE  Earned(stream[s]) <= Earned(stream[s])' /\ Earned(stream[s])' \in Nat
<1> DEFINE r == stream[s]
           a == IF now - r.start < r.duration THEN now - r.start ELSE r.duration
           b == IF now' - r.start < r.duration THEN now' - r.start ELSE r.duration
<1>1. r.rate \in Nat /\ r.deposit \in Nat /\ a \in Nat /\ b \in Nat /\ a <= b
    BY DEF PaymentStream
<1>2. Earned(r) = IF r.rate * a < r.deposit THEN r.rate * a ELSE r.deposit
    BY DEF Earned
<1>p. Earned(r)' = IF r.rate * b < r.deposit THEN r.rate * b ELSE r.deposit
    BY Zenon DEF Earned
<1> HIDE DEF r, a, b
<1>3. r.rate * a <= r.rate * b /\ r.rate * a \in Nat /\ r.rate * b \in Nat
    BY <1>1, TimesMono
<1>4. Earned(r) <= Earned(r)' /\ Earned(r)' \in Nat
    BY <1>1, <1>2, <1>p, <1>3
<1> QED BY <1>4 DEF r

\* The passing of time preserves the invariant.
LEMMA TickInv ==
    ASSUME Inv, Tick
    PROVE  Inv'
<1>w. /\ now' = now + 1 /\ now \in Nat
      /\ UNCHANGED <<global, treasury, targets, vaults, vault, stream, escrow, wallet, hooks,
                     agentHooks, gifts>>
    BY DEF Tick, Inv, TypeOK
<1>t. /\ treasury \in [Treasuries -> AgentTreasury]
      /\ spent \in [Treasuries -> History]
    BY DEF Inv, TypeOK
<1>1. TypeOK'
  <2>1. spent' \in [Treasuries -> History]
      BY <1>t DEF Tick, AgentTreasury, History
  <2> QED BY <1>w, <2>1 DEF Inv, TypeOK
<1>2. ASSUME NEW s \in Streams PROVE StreamInv(s)'
  <2>1. CASE stream[s].status = "Active"
    <3>1. /\ stream[s] \in PaymentStream /\ stream[s].start <= now
          /\ stream[s].withdrawn \in Nat /\ Earned(stream[s]) \in Nat
          /\ stream[s].withdrawn <= Earned(stream[s])
        BY <2>1, ActiveStream
    <3>2. Earned(stream[s]) <= Earned(stream[s])' /\ Earned(stream[s])' \in Nat
        BY <1>w, <3>1, EarnedGrows
    <3>3. stream[s].withdrawn <= Earned(stream[s])'
        BY <3>1, <3>2
    <3>4. stream[s].start <= now + 1
        BY <1>w, <3>1 DEF PaymentStream
    <3> QED BY <1>w, <2>1, <3>3, <3>4 DEF Inv, StreamInv, Withheld
  <2>2. CASE stream[s].status # "Active"
      BY <1>w, <2>2 DEF Inv, StreamInv, Withheld
  <2> QED BY <2>1, <2>2
<1>3. ASSUME NEW t \in Treasuries PROVE LimitInv(t)'
  <2> DEFINE d == UnixDay(now)
             dd == UnixDay(now + 1)
             w == IsoWeek(now)
             ww == IsoWeek(now + 1)
  <2>1. d \in Nat /\ dd \in Nat /\ d <= dd /\ w \in Nat /\ ww \in Nat /\ w <= ww
      BY <1>w, CalendarMono
  <2>2. UnixDay(now)' = dd /\ IsoWeek(now)' = ww
      BY <1>w DEF UnixDay, IsoWeek
  <2>3. /\ spent'[t].today = IF dd > d THEN 0 ELSE spent[t].today
        /\ spent'[t].pricedToday = IF dd > d THEN 0 ELSE spent[t].pricedToday
        /\ spent'[t].peakDaily = IF dd > d THEN treasury[t].daily ELSE spent[t].peakDaily
        /\ spent'[t].week = IF ww > w THEN 0 ELSE spent[t].week
        /\ spent'[t].pricedWeek = IF ww > w THEN 0 ELSE spent[t].pricedWeek
        /\ spent'[t].peakWeekly = IF ww > w THEN treasury[t].weekly ELSE spent[t].peakWeekly
      BY DEF Tick
  <2>4. /\ treasury[t].daily \in Nat /\ treasury[t].weekly \in Nat
        /\ treasury[t].lastDay \in Int /\ treasury[t].lastWeek \in Int
        /\ treasury[t].spentToday \in Nat /\ treasury[t].spentWeek \in Nat
        /\ spent[t].peakDaily \in Nat /\ spent[t].peakWeekly \in Nat
      BY <1>t DEF AgentTreasury, History
  <2>5. LimitInv(t)
      BY DEF Inv
  <2> HIDE DEF d, dd, w, ww
  <2>6. /\ treasury[t].lastDay <= d /\ treasury[t].lastWeek <= w
        /\ CountedDay(t) = (IF d > treasury[t].lastDay THEN 0 ELSE treasury[t].spentToday)
        /\ CountedWeek(t) = (IF w > treasury[t].lastWeek THEN 0 ELSE treasury[t].spentWeek)
      BY <2>5 DEF LimitInv, CountedDay, CountedWeek, d, w
  <2>c. /\ CountedDay(t)' = (IF dd > treasury[t].lastDay THEN 0 ELSE treasury[t].spentToday)
        /\ CountedWeek(t)' = (IF ww > treasury[t].lastWeek THEN 0 ELSE treasury[t].spentWeek)
      BY <1>w, <2>2 DEF CountedDay, CountedWeek
  <2>7. /\ treasury[t].lastDay <= dd /\ treasury[t].lastWeek <= ww
        /\ CountedDay(t)' = (IF dd > d THEN 0 ELSE CountedDay(t))
        /\ CountedWeek(t)' = (IF ww > w THEN 0 ELSE CountedWeek(t))
      BY <2>1, <2>4, <2>6, <2>c
  <2>0. 0 <= Worth(0, 0)
      BY WorthNat
  <2>8. /\ treasury[t].daily <= spent'[t].peakDaily /\ treasury[t].weekly <= spent'[t].peakWeekly
        /\ CountedDay(t)' <= spent'[t].peakDaily /\ CountedWeek(t)' <= spent'[t].peakWeekly
      BY <2>3, <2>4, <2>5, <2>7 DEF LimitInv
  <2>9. spent'[t].today <= Worth(CountedDay(t)', spent'[t].pricedToday)
      BY <2>0, <2>3, <2>5, <2>7 DEF LimitInv
  <2>10. spent'[t].week <= Worth(CountedWeek(t)', spent'[t].pricedWeek)
      BY <2>0, <2>3, <2>5, <2>7 DEF LimitInv
  <2> QED BY <1>w, <2>2, <2>5, <2>7, <2>8, <2>9, <2>10 DEF LimitInv
<1> QED BY <1>1, <1>2, <1>3 DEF Inv

-----------------------------------------------------------------------------
(* The theorems *)

\* The invariant holds after deployment.
LEMMA InitInv == Init => Inv
<1> SUFFICES ASSUME Init PROVE Inv
    OBVIOUS
<1>1. TypeOK
  <2>1. wallet \in [Holders -> [Mints -> Nat]]
      BY ConstantsAssumption DEF Init
  <2>2. /\ global \in TreasuryGlobal /\ now \in Nat
        /\ hooks \in MintAllowlist /\ agentHooks \in [Treasuries -> SUBSET Mints]
        /\ vaults \in [Treasuries -> SUBSET Mints] /\ vault \in [Treasuries -> [Mints -> Nat]]
        /\ escrow \in [Streams -> Nat] /\ gifts \in [Streams -> Nat]
      BY ConstantsAssumption, GovernanceAssumption DEF Init, MintAllowlist
  <2>3. /\ treasury \in [Treasuries -> AgentTreasury] /\ stream \in [Streams -> PaymentStream]
        /\ targets \in [Treasuries -> [live : BOOLEAN, list : SUBSET Targets]]
        /\ spent \in [Treasuries -> History]
      BY DEF Init, NoTreasury, NoTargets, NoStream, NothingSpent, AgentTreasury, PaymentStream,
             History
  <2> QED BY <2>1, <2>2, <2>3 DEF TypeOK
<1>2. \A s \in Streams : StreamInv(s)
    BY DEF Init, NoStream, StreamInv
<1>3. ASSUME NEW t \in Treasuries PROVE LimitInv(t)
  <2>1. UnixDay(now) \in Nat /\ IsoWeek(now) \in Nat
      BY <1>1, CalendarMono DEF TypeOK
  <2>2. 0 <= Worth(0, 0)
      BY WorthNat
  <2>3. treasury[t] = NoTreasury /\ spent[t] = NothingSpent
      BY DEF Init
  <2>4. CountedDay(t) = 0 /\ CountedWeek(t) = 0
      BY <2>3 DEF CountedDay, CountedWeek, NoTreasury
  <2> QED BY <2>1, <2>2, <2>3, <2>4 DEF NoTreasury, NothingSpent, LimitInv
<1> QED BY <1>1, <1>2, <1>3 DEF Inv

\* Every step preserves it.
LEMMA NextInv == Inv /\ [Next]_vars => Inv'
<1> SUFFICES ASSUME Inv, [Next]_vars PROVE Inv'
    OBVIOUS
<1>1. CASE \E t \in Treasuries : TreasuryStep(t)
    BY <1>1, TreasuryStepInv
<1>2. CASE \E s \in Streams, t \in Treasuries : StreamStep(s, t)
    BY <1>2, StreamStepInv
<1>3. CASE GovernanceStep
    BY <1>3, GovernanceStepInv
<1>4. CASE Tick
    BY <1>4, TickInv
<1>5. CASE UNCHANGED vars
  <2>1. TypeOK'
      BY <1>5 DEF Inv, TypeOK, vars
  <2> QED BY <1>5, <2>1, StreamFrame, LimitFrame DEF Inv, vars
<1>6. CASE \E s \in Streams, h \in Holders, amount \in GiftAmounts : GiveToEscrow(s, h, amount)
    BY <1>6, GiveToEscrowInv
<1> QED BY <1>1, <1>2, <1>3, <1>4, <1>5, <1>6 DEF Next

\* The induction, once for all three theorems.
LEMMA AlwaysInv == Spec => []Inv
BY InitInv, NextInv, PTL DEF Spec

\* Every account is well typed in every reachable state; in particular no vault,
\* escrow or wallet is ever overdrawn (init_treasury to close_stream).
THEOREM TypeCorrect == Spec => []TypeOK
<1>1. Inv => TypeOK
    BY DEF Inv
<1> QED BY <1>1, AlwaysInv, PTL

\* The escrow of an active stream is short of the agent's earnings and the client's
\* refund by the fee that was withheld from the deposit at most, with any rates,
\* durations, fees, swaps, gifts and pauses (init_stream, withdraw_earned,
\* close_stream).
THEOREM StreamsAlwaysCovered == Spec => []EscrowShortOnlyByFee
<1>1. Inv => EscrowShortOnlyByFee
    BY DEF Inv, StreamInv, EscrowShortOnlyByFee, Withheld
<1> QED BY <1>1, AlwaysInv, PTL

\* A stream closed without a swap has paid out its whole deposit: all that is left
\* in the escrow was given by others (close_stream).
THEOREM ClosedStreamsAreEmpty == Spec => []NothingLeftBehind
<1>1. Inv => NothingLeftBehind
    BY DEF Inv, StreamInv, NothingLeftBehind, Withheld
<1> QED BY <1>1, AlwaysInv, PTL

\* The daily and the weekly limit hold up to the rounding of priced withdrawals,
\* for every length of the day, every price, every sequence of set_limits and
\* withdraw and every moment of the lazy reset (apply_rollover,
\* normalize_to_base_units).
THEOREM LimitsAlwaysHold == Spec => []LimitsHold
<1>1. Inv => LimitsHold
  <2> SUFFICES ASSUME Inv, NEW t \in Treasuries
               PROVE  /\ spent[t].today <= Worth(spent[t].peakDaily, spent[t].pricedToday)
                      /\ spent[t].week <= Worth(spent[t].peakWeekly, spent[t].pricedWeek)
      BY DEF LimitsHold
  <2>1. /\ spent[t].today <= Worth(CountedDay(t), spent[t].pricedToday)
        /\ spent[t].week <= Worth(CountedWeek(t), spent[t].pricedWeek)
        /\ CountedDay(t) <= spent[t].peakDaily /\ CountedWeek(t) <= spent[t].peakWeekly
      BY DEF Inv, LimitInv
  <2>2. /\ spent[t].today \in Nat /\ spent[t].week \in Nat
        /\ spent[t].pricedToday \in Nat /\ spent[t].pricedWeek \in Nat
        /\ spent[t].peakDaily \in Nat /\ spent[t].peakWeekly \in Nat
      BY DEF Inv, TypeOK, History
  <2>3. CountedDay(t) \in Nat /\ CountedWeek(t) \in Nat
      BY DEF Inv, TypeOK, CountedDay, CountedWeek, AgentTreasury
  <2>4. /\ Worth(CountedDay(t), spent[t].pricedToday) <= Worth(spent[t].peakDaily, spent[t].pricedToday)
        /\ Worth(CountedWeek(t), spent[t].pricedWeek) <= Worth(spent[t].peakWeekly, spent[t].pricedWeek)
      BY <2>1, <2>2, <2>3, WorthMono
  <2>5. /\ Worth(CountedDay(t), spent[t].pricedToday) \in Nat
        /\ Worth(CountedWeek(t), spent[t].pricedWeek) \in Nat
        /\ Worth(spent[t].peakDaily, spent[t].pricedToday) \in Nat
        /\ Worth(spent[t].peakWeekly, spent[t].pricedWeek) \in Nat
      BY <2>2, <2>3, WorthNat
  <2> QED BY <2>1, <2>2, <2>4, <2>5
<1> QED BY <1>1, AlwaysInv, PTL

-----------------------------------------------------------------------------
(* What no step does to a stream *)

\* What the client and the agent agreed on.
Terms(r) == <<r.agent, r.client, r.payerMint, r.payoutMint, r.rate, r.start, r.duration, r.deposit>>

\* A step leaves the terms of a stream alone. While the stream is active, what is
\* booked as withdrawn never falls; a step that leaves it active takes no more out
\* of the escrow than it books, and the one that closes it takes exactly what was
\* not withdrawn before. A closed stream never changes again, and nothing leaves
\* its escrow.
StreamKept(s) ==
    LET old == stream[s]
        new == stream'[s]
    IN  /\ old.status # "Absent" => Terms(new) = Terms(old) /\ new.status # "Absent"
        /\ old.status = "Active" =>
              /\ new.withdrawn >= old.withdrawn
              /\ new.status = "Active" => escrow[s] - escrow'[s] <= new.withdrawn - old.withdrawn
              /\ new.status = "Closed" => escrow[s] - escrow'[s] = old.deposit - old.withdrawn
        /\ old.status = "Closed" => new = old /\ escrow'[s] >= escrow[s]

StreamsKept == \A s \in Streams : StreamKept(s)

\* A step that leaves a stream alone and takes nothing out of its escrow.
LEMMA KeptWithGift ==
    ASSUME Inv, NEW s \in Streams, NEW x \in Nat, stream'[s] = stream[s],
           escrow'[s] = escrow[s] + x
    PROVE  StreamKept(s)
<1>1. stream[s].withdrawn \in Nat /\ escrow[s] \in Nat
    BY DEF Inv, TypeOK, PaymentStream
<1>2. /\ stream'[s].withdrawn >= stream[s].withdrawn /\ escrow'[s] >= escrow[s]
      /\ escrow[s] - escrow'[s] <= stream'[s].withdrawn - stream[s].withdrawn
    BY <1>1
<1>3. stream[s].status = "Active" => stream'[s].status # "Closed"
    OBVIOUS
<1> QED BY <1>2, <1>3 DEF StreamKept

LEMMA KeptFrame ==
    ASSUME Inv, NEW s \in Streams, stream'[s] = stream[s], escrow'[s] = escrow[s]
    PROVE  StreamKept(s)
<1>1. escrow'[s] = escrow[s] + 0
    BY DEF Inv, TypeOK
<1> QED BY <1>1, KeptWithGift

\* A gift leaves the stream alone.
LEMMA GiveKeeps ==
    ASSUME Inv, NEW s \in Streams, NEW h \in Holders, NEW amount \in GiftAmounts,
           GiveToEscrow(s, h, amount), NEW q \in Streams
    PROVE  StreamKept(q)
<1> DEFINE x == Received(stream[s].payerMint, amount)
<1>1. amount \in Nat /\ stream[s].payerMint \in Mints
    BY ConstantsAssumption DEF GiveToEscrow, Inv, StreamInv
<1>2. x \in Nat
    BY <1>1, FeeRange
<1>3. stream' = stream /\ escrow' = [escrow EXCEPT ![s] = @ + x]
    BY DEF GiveToEscrow
<1> HIDE DEF x
<1>4. CASE q = s
  <2>1. escrow'[s] = escrow[s] + x /\ stream'[s] = stream[s]
      BY <1>3 DEF Inv, TypeOK
  <2> QED BY <1>2, <1>4, <2>1, KeptWithGift
<1>5. CASE q # s
  <2>1. escrow'[q] = escrow[q] /\ stream'[q] = stream[q]
      BY <1>3, <1>5 DEF Inv, TypeOK
  <2> QED BY <2>1, KeptFrame
<1> QED BY <1>4, <1>5

\* init_stream writes a stream that did not exist.
LEMMA InitStreamKeeps ==
    ASSUME Inv, NEW s \in Streams, NEW t \in Treasuries, NEW c \in Clients,
           NEW payer \in Mints, NEW payout \in Mints, NEW rate \in Rates,
           NEW duration \in Durations, InitStream(s, t, c, payer, payout, rate, duration),
           NEW q \in Streams
    PROVE  StreamKept(q)
<1>1. CASE q = s
  <2>1. stream[q].status = "Absent"
      BY <1>1 DEF InitStream
  <2> QED BY <2>1 DEF StreamKept
<1>2. CASE q # s
  <2>1. stream'[q] = stream[q]
      BY <1>2 DEF InitStream, Inv, TypeOK
  <2>2. escrow'[q] = escrow[q]
      BY <1>2 DEF InitStream, Inv, TypeOK
  <2> QED BY <2>1, <2>2, KeptFrame
<1> QED BY <1>1, <1>2

\* withdraw_earned books all that was earned and pays out no more than that.
LEMMA PaidOutKeeps ==
    ASSUME Inv, NEW s \in Streams, stream[s].status = "Active", NEW x \in Nat,
           x <= Earned(stream[s]) - stream[s].withdrawn,
           stream' = [stream EXCEPT ![s].withdrawn = Earned(stream[s])],
           escrow' = [escrow EXCEPT ![s] = @ - x], NEW q \in Streams
    PROVE  StreamKept(q)
<1> DEFINE e == Earned(stream[s])
<1>t. stream \in [Streams -> PaymentStream] /\ escrow \in [Streams -> Nat]
    BY DEF Inv, TypeOK
<1>1. CASE q # s
  <2>1. stream'[q] = stream[q] /\ escrow'[q] = escrow[q]
      BY <1>t, <1>1
  <2> QED BY <2>1, KeptFrame
<1>2. CASE q = s
  <2>1. /\ stream[s].withdrawn \in Nat /\ escrow[s] \in Nat /\ e \in Nat
        /\ stream[s].withdrawn <= e
      BY ActiveStream
  <2>2. stream'[s] = [stream[s] EXCEPT !.withdrawn = e] /\ escrow'[s] = escrow[s] - x
      BY <1>t
  <2> HIDE DEF e
  <2>3. \A r \in PaymentStream : /\ [r EXCEPT !.withdrawn = e].withdrawn = e
                                 /\ [r EXCEPT !.withdrawn = e].status = r.status
                                 /\ Terms([r EXCEPT !.withdrawn = e]) = Terms(r)
      BY DEF PaymentStream, Terms
  <2>4. /\ stream'[s].withdrawn = e /\ stream'[s].status = "Active"
        /\ Terms(stream'[s]) = Terms(stream[s])
      BY <1>t, <2>2, <2>3
  <2>5. x <= e - stream[s].withdrawn
      BY DEF e
  <2>6. /\ stream'[s].withdrawn >= stream[s].withdrawn
        /\ escrow[s] - escrow'[s] <= stream'[s].withdrawn - stream[s].withdrawn
      BY <2>1, <2>2, <2>4, <2>5
  <2> QED BY <1>2, <2>4, <2>6 DEF StreamKept
<1> QED BY <1>1, <1>2

\* close_stream pays the agent and the client what was not withdrawn.
LEMMA CloseKeeps ==
    ASSUME Inv, NEW s \in Streams, NEW t \in Treasuries, NEW dest \in Holders,
           CloseStream(s, t, dest), NEW q \in Streams
    PROVE  StreamKept(q)
<1> DEFINE e == Earned(stream[s])
<1>t. stream \in [Streams -> PaymentStream] /\ escrow \in [Streams -> Nat]
    BY DEF Inv, TypeOK
<1>w. /\ stream[s].status = "Active"
      /\ stream' = [stream EXCEPT ![s] = [@ EXCEPT !.status = "Closed", !.withdrawn = e]]
      /\ escrow' = [escrow EXCEPT ![s] = @ - (e - stream[s].withdrawn) - (stream[s].deposit - e)]
    BY DEF CloseStream
<1>1. CASE q # s
  <2>1. stream'[q] = stream[q] /\ escrow'[q] = escrow[q]
      BY <1>t, <1>w, <1>1
  <2> QED BY <2>1, KeptFrame
<1>2. CASE q = s
  <2>1. /\ stream[s].withdrawn \in Nat /\ escrow[s] \in Nat /\ e \in Nat
        /\ stream[s].withdrawn <= e /\ stream[s].deposit \in Nat
      BY <1>w, ActiveStream
  <2>2. /\ stream'[s] = [stream[s] EXCEPT !.status = "Closed", !.withdrawn = e]
        /\ escrow'[s] = escrow[s] - (e - stream[s].withdrawn) - (stream[s].deposit - e)
      BY <1>t, <1>w
  <2> HIDE DEF e
  <2>3. \A r \in PaymentStream :
            /\ [r EXCEPT !.status = "Closed", !.withdrawn = e].withdrawn = e
            /\ [r EXCEPT !.status = "Closed", !.withdrawn = e].status = "Closed"
            /\ Terms([r EXCEPT !.status = "Closed", !.withdrawn = e]) = Terms(r)
      BY DEF PaymentStream, Terms
  <2>4. /\ stream'[s].withdrawn = e /\ stream'[s].status = "Closed"
        /\ Terms(stream'[s]) = Terms(stream[s])
      BY <1>t, <2>2, <2>3
  <2>5. /\ stream'[s].withdrawn >= stream[s].withdrawn
        /\ escrow[s] - escrow'[s] = stream[s].deposit - stream[s].withdrawn
      BY <2>1, <2>2, <2>4
  <2> QED BY <1>2, <1>w, <2>4, <2>5 DEF StreamKept
<1> QED BY <1>1, <1>2

LEMMA StreamStepKeeps ==
    ASSUME Inv, NEW s \in Streams, NEW t \in Treasuries, StreamStep(s, t), NEW q \in Streams
    PROVE  StreamKept(q)
<1>1. CASE \E c \in Clients, payer, payout \in Mints, r \in Rates, d \in Durations :
              InitStream(s, t, c, payer, payout, r, d)
    BY <1>1, InitStreamKeeps
<1>2. ASSUME NEW m \in Mints, WithdrawEarned(s, t, m) PROVE StreamKept(q)
  <2> DEFINE x == Earned(stream[s]) - stream[s].withdrawn
  <2>1. /\ stream[s].status = "Active"
        /\ stream' = [stream EXCEPT ![s].withdrawn = Earned(stream[s])]
        /\ escrow' = [escrow EXCEPT ![s] = @ - x]
      BY <1>2 DEF WithdrawEarned, Withdrawable
  <2>2. x \in Nat /\ x <= Earned(stream[s]) - stream[s].withdrawn
      BY <2>1, ActiveStream
  <2> HIDE DEF x
  <2> QED BY <2>1, <2>2, PaidOutKeeps
<1>3. ASSUME NEW m \in Mints, NEW payer \in Feeds, NEW payout \in Feeds, NEW bonus \in 0..MaxBonus,
             NEW x \in 0..escrow[s], WithdrawEarnedSwap(s, t, m, x, payer, payout, bonus)
      PROVE  StreamKept(q)
  <2>1. /\ stream[s].status = "Active"
        /\ stream' = [stream EXCEPT ![s].withdrawn = Earned(stream[s])]
        /\ escrow' = [escrow EXCEPT ![s] = @ - x]
        /\ x \in 0..(Earned(stream[s]) - stream[s].withdrawn)
      BY <1>3 DEF WithdrawEarnedSwap, Withdrawable
  <2>2. Earned(stream[s]) \in Nat /\ stream[s].withdrawn \in Nat
      BY <2>1, ActiveStream
  <2>3. x \in Nat /\ x <= Earned(stream[s]) - stream[s].withdrawn
      BY <2>1, <2>2
  <2> QED BY <2>1, <2>3, PaidOutKeeps
<1>4. CASE \E dest \in Holders : CloseStream(s, t, dest)
    BY <1>4, CloseKeeps
<1> QED BY <1>1, <1>2, <1>3, <1>4 DEF StreamStep

LEMMA StepKeepsStreams == Inv /\ [Next]_vars => StreamsKept
<1> SUFFICES ASSUME Inv, [Next]_vars, NEW q \in Streams PROVE StreamKept(q)
    BY DEF StreamsKept
<1>1. ASSUME NEW s \in Streams, NEW t \in Treasuries, StreamStep(s, t) PROVE StreamKept(q)
    BY <1>1, StreamStepKeeps
<1>2. ASSUME NEW t \in Treasuries, TreasuryStep(t) PROVE UNCHANGED <<stream, escrow>>
  <2>1. ASSUME NEW l \in Limits, InitTreasury(t, l) \/ SetLimits(t, l)
        PROVE  UNCHANGED <<stream, escrow>>
      BY <2>1 DEF InitTreasury, SetLimits
  <2>2. ASSUME NEW h \in Clients, NEW m \in Mints, NEW amount \in Amounts,
               FundTreasury(t, h, m, amount)
        PROVE  UNCHANGED <<stream, escrow>>
      BY <2>2 DEF FundTreasury
  <2>3. ASSUME NEW m \in Mints, NEW amount \in Amounts,
               NEW price \in {{}} \cup {{f} : f \in Feeds}, Withdraw(t, m, amount, price)
        PROVE  UNCHANGED <<stream, escrow>>
      BY <2>3 DEF Withdraw
  <2>4. ASSUME NEW list \in TargetChoices, InitAllowedTargets(t, list)
        PROVE  UNCHANGED <<stream, escrow>>
      BY <2>4 DEF InitAllowedTargets, UnchangedByGovernance
  <2>5. ASSUME NEW add \in TargetChoices, NEW remove \in TargetChoices,
               UpdateAllowedTargets(t, add, remove)
        PROVE  UNCHANGED <<stream, escrow>>
      BY <2>5 DEF UpdateAllowedTargets, UnchangedByGovernance
  <2> QED BY <1>2, <2>1, <2>2, <2>3, <2>4, <2>5 DEF TreasuryStep
<1>3. ASSUME GovernanceStep \/ Tick \/ UNCHANGED vars PROVE UNCHANGED <<stream, escrow>>
    BY <1>3 DEF GovernanceStep, SetDefaultDailyLimit, SetMaxDailyLimit, SetMaxStreamDuration,
       SetPaused, SetGlobalCallTargets, SetHookAllowlistPtr, AddAllowedMint, RemoveAllowedMint,
       UpdateHooks, SetDefaultDeny, UpdateAgentHooks, UnchangedByGovernance, Tick, vars
<1>4. UNCHANGED <<stream, escrow>> => StreamKept(q)
    BY KeptFrame
<1>5. ASSUME NEW s \in Streams, NEW h \in Holders, NEW amount \in GiftAmounts,
             GiveToEscrow(s, h, amount)
      PROVE  StreamKept(q)
    BY <1>5, GiveKeeps
<1> QED BY <1>1, <1>2, <1>3, <1>4, <1>5 DEF Next

\* The agreement of a stream is kept for any rates, durations, prices and routes,
\* whichever treasury the instructions are called with: its terms never change, no
\* withdrawal or swap takes more out of the escrow than it books, closing takes
\* exactly the rest, and what is closed stays closed (init_stream, withdraw_earned,
\* close_stream).
THEOREM StreamsKeepTheirTerms == Spec => [][StreamsKept]_vars
BY AlwaysInv, StepKeepsStreams, PTL DEF Spec
=============================================================================
