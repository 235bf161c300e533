---------------------------- MODULE MarketAlertProofs ----------------------------
(* Proofs about MarketAlertDetector for all constants: types, that no minute is
   judged twice, and that every verdict is the level of the exchange's closes. *)
EXTENDS MarketAlertDetector, Maxima, FiniteSetTheorems, SequenceTheorems, TLAPS

\* Before the first trade there is no timer and nothing is judged; no minute
\* later than the last judged one has a verdict.
Shape ==
  /\ ~Started => evaluatedMinute = None /\ timers = {}
  /\ DOMAIN verdict \subseteq 0..evaluatedMinute

IInv == TypeOK /\ Shape

-----------------------------------------------------------------------------
(* What the operators give *)

LEMMA Constants ==
  /\ RING \in Nat \ {0} /\ LOOKBACK \in Nat /\ CHAIN \in Nat
  /\ MaxMinute \in Nat /\ MaxTrades \in Nat /\ Prices \subseteq Nat
BY DetectorAssumption

LEMMA MaxOfTwo ==
  ASSUME NEW a \in Int, NEW b \in Int
  PROVE  /\ Max({a, b}) \in {a, b}
         /\ Max({a, b}) >= a /\ Max({a, b}) >= b
<1>1. \E x \in {a, b} : \A y \in {a, b} : x >= y
  OBVIOUS
<1> QED  BY <1>1 DEF Max

LEMMA SlotType == \A k \in Int : Slot(k) \in 0..(RING - 1)
BY Constants DEF Slot

\* A level counts thresholds that are passed.
LEMMA LevelType == \A c, r : LevelOf(c, r) \in 0..3
<1> SUFFICES ASSUME NEW c, NEW r PROVE LevelOf(c, r) \in 0..3
  OBVIOUS
<1> DEFINE diff == IF c > r THEN c - r ELSE r - c
           T == {i \in {1, 2, 4} : 2 * diff >= i * r}
<1>1. IsFiniteSet({1, 2, 4}) /\ Cardinality({1, 2, 4}) = 3
  <2>1. IsFiniteSet({1}) /\ Cardinality({1}) = 1
    BY FS_Singleton
  <2>2. IsFiniteSet({1} \cup {2}) /\ Cardinality({1} \cup {2}) = 2
    BY <2>1, FS_AddElement
  <2>3. IsFiniteSet({1} \cup {2} \cup {4}) /\ Cardinality({1} \cup {2} \cup {4}) = 3
    <3>1. 4 \notin {1} \cup {2}
      OBVIOUS
    <3> QED  BY <2>2, <3>1, FS_AddElement
  <2>4. {1} \cup {2} \cup {4} = {1, 2, 4}
    OBVIOUS
  <2> QED  BY <2>3, <2>4
<1>2. T \subseteq {1, 2, 4}
  OBVIOUS
<1>3. Cardinality(T) <= 3 /\ Cardinality(T) \in Nat
  <2> HIDE DEF T
  <2>1. IsFiniteSet(T) /\ Cardinality(T) <= Cardinality({1, 2, 4})
    BY <1>1, <1>2, FS_Subset
  <2> QED  BY <1>1, <2>1, FS_CardinalityType
<1>4. LevelOf(c, r) = Cardinality(T)
  BY DEF LevelOf
<1> QED  BY <1>3, <1>4

LEMMA LevelAfterType ==
  ASSUME level \in 0..3
  PROVE  \A from, k : LevelAfter(from, k) \in 0..3
<1> SUFFICES ASSUME NEW from, NEW k PROVE LevelAfter(from, k) \in 0..3
  OBVIOUS
<1> DEFINE judged == {j \in from..k : Close(j) # NaN /\ Ref(j) # NaN}
<1>1. LevelOf(Close(Max(judged)), Ref(Max(judged))) \in 0..3
  BY LevelType
<1> HIDE DEF judged
<1>2. (IF judged = {} THEN level ELSE LevelOf(Close(Max(judged)), Ref(Max(judged)))) \in 0..3
  BY <1>1
<1> QED  BY <1>2 DEF LevelAfter, judged

\* A queue that is read; a queue of more rows.
LEMMA HeadTail ==
  ASSUME NEW S, NEW q \in Seq(S), q # << >>
  PROVE  Head(q) \in S /\ Tail(q) \in Seq(S)
OBVIOUS

LEMMA SeqElements ==
  ASSUME NEW S, NEW q \in Seq(S)
  PROVE  DOMAIN q = 1..Len(q) /\ \A i \in 1..Len(q) : q[i] \in S
OBVIOUS

LEMMA SeqWider ==
  ASSUME NEW S, NEW T, S \subseteq T, NEW q \in Seq(S)
  PROVE  q \in Seq(T)
<1>1. Len(q) \in Nat /\ DOMAIN q = 1..Len(q) /\ \A i \in 1..Len(q) : q[i] \in T
  OBVIOUS
<1>2. q = [i \in 1..Len(q) |-> q[i]]
  OBVIOUS
<1>3. q \in [1..Len(q) -> T]
  BY <1>1, <1>2
<1> QED  BY <1>1, <1>3, SeqDef

\* The row that is read is a trade that was made.
LEMMA ReadRow ==
  ASSUME TypeOK, NEW s, NEW late, Reads(s, late)
  PROVE  /\ s \in DOMAIN made /\ s \in Seqs
         /\ made[s].minute \in Minutes /\ made[s].price \in Prices
         /\ queue' \in Seq([seq : DOMAIN made, late : BOOLEAN])
<1>1. queue \in Seq([seq : DOMAIN made, late : BOOLEAN]) /\ queue # << >>
  BY DEF TypeOK, Reads
<1>2. /\ Head(queue) \in [seq : DOMAIN made, late : BOOLEAN]
      /\ Tail(queue) \in Seq([seq : DOMAIN made, late : BOOLEAN])
  BY <1>1, HeadTail
<1>3. s \in DOMAIN made
  BY <1>2 DEF Reads
<1>4. made[s] \in [minute : Minutes, price : Prices] /\ s \in 1..Len(made)
  <2>1. made \in Seq([minute : Minutes, price : Prices])
    BY DEF TypeOK
  <2> HIDE DEF TypeOK
  <2>2. DOMAIN made = 1..Len(made) /\ \A i \in 1..Len(made) : made[i] \in [minute : Minutes, price : Prices]
    BY <2>1, SeqElements
  <2> QED  BY <1>3, <2>2
<1>5. s \in Seqs
  BY <1>4, Constants DEF TypeOK, Seqs
<1> QED  BY <1>2, <1>3, <1>4, <1>5 DEF Reads

-----------------------------------------------------------------------------
(* The exchange and the ledger *)

LEMMA TradeStep ==
  ASSUME IInv, NEW p \in Prices, Trade(p)
  PROVE  IInv'
<1> DEFINE S == [seq : DOMAIN made, late : BOOLEAN]
           T == [seq : DOMAIN made', late : BOOLEAN]
<1>1. /\ made \in Seq([minute : Minutes, price : Prices])
      /\ [minute |-> clock, price |-> p] \in [minute : Minutes, price : Prices]
  BY DEF IInv, TypeOK
<1>2. /\ made' \in Seq([minute : Minutes, price : Prices])
      /\ Len(made') = Len(made) + 1 /\ DOMAIN made \subseteq DOMAIN made'
      /\ Len(made') \in DOMAIN made'
  BY <1>1 DEF Trade
<1>3. Len(made') <= MaxTrades
  BY <1>1, <1>2, Constants DEF Trade
<1>4. queue \in Seq(T)
  <2>1. queue \in Seq(S) /\ S \subseteq T
    BY <1>2 DEF IInv, TypeOK
  <2> QED  BY <2>1, SeqWider
<1>5. TypeOK'
  BY <1>2, <1>3, <1>4 DEF IInv, TypeOK, Trade, state
<1>6. Shape'
  BY DEF IInv, Shape, Trade, state, Started
<1> QED  BY <1>5, <1>6 DEF IInv

LEMMA NextMinuteStep ==
  ASSUME IInv, NextMinute
  PROVE  IInv'
<1>1. TypeOK'
  BY Constants DEF IInv, TypeOK, NextMinute, state, Minutes
<1>2. Shape'
  BY DEF IInv, Shape, NextMinute, state, Started
<1> QED  BY <1>1, <1>2 DEF IInv

LEMMA InsertStep ==
  ASSUME IInv, NEW s \in unstored, NEW late \in BOOLEAN, Insert(s, late)
  PROVE  IInv'
<1>1. queue' \in Seq([seq : DOMAIN made, late : BOOLEAN])
  <2>1. [seq |-> s, late |-> late] \in [seq : DOMAIN made, late : BOOLEAN]
    BY DEF IInv, TypeOK
  <2> QED  BY <2>1 DEF IInv, TypeOK, Insert
<1>2. TypeOK'
  BY <1>1 DEF IInv, TypeOK, Insert, state
<1>3. Shape'
  BY DEF IInv, Shape, Insert, state, Started
<1> QED  BY <1>2, <1>3 DEF IInv
-----------------------------------------------------------------------------
(* The operator reads a trade *)

LEMMA SkipLateStep ==
  ASSUME IInv, NEW s, SkipLate(s)
  PROVE  IInv'
<1>1. /\ made[s].minute \in Minutes
      /\ queue' \in Seq([seq : DOMAIN made, late : BOOLEAN])
  BY ReadRow DEF IInv, SkipLate
<1>2. TypeOK'
  BY <1>1 DEF IInv, TypeOK, SkipLate, market, state
<1>3. Shape'
  BY DEF IInv, Shape, SkipLate, state, Started
<1> QED  BY <1>2, <1>3 DEF IInv

\* What every path that takes a trade keeps.
LEMMA TakeKeeps ==
  ASSUME IInv, NEW s, Take(s)
  PROVE  /\ clock' \in Minutes
         /\ made' \in Seq([minute : Minutes, price : Prices]) /\ Len(made') <= MaxTrades
         /\ unstored' \subseteq DOMAIN made'
         /\ queue' \in Seq([seq : DOMAIN made', late : BOOLEAN])
         /\ level' \in 0..3 /\ lastTradeMinute' \in Minutes
         /\ timers' \subseteq 0..(MaxMinute + 1)
         /\ DOMAIN verdict' \subseteq Minutes /\ \A k \in DOMAIN verdict' : verdict'[k] \in 0..3
         /\ lagged' \subseteq Minutes /\ verdict' = verdict
         /\ s \in Seqs /\ made[s].minute \in Minutes /\ made[s].price \in Prices
<1>1. /\ s \in Seqs /\ made[s].minute \in Minutes /\ made[s].price \in Prices
      /\ queue' \in Seq([seq : DOMAIN made, late : BOOLEAN])
  BY ReadRow DEF IInv, Take
<1>2. made[s].minute \in 0..(MaxMinute + 1)
  BY <1>1, Constants DEF Minutes
<1> QED  BY <1>1, <1>2 DEF IInv, TypeOK, Take, market

\* One slot takes a price.
LEMMA WriteKeeps ==
  ASSUME IInv, NEW s, NEW seen, Write(s, seen), made[s].minute \in Minutes, made[s].price \in Prices
  PROVE  ring' \in [0..(RING - 1) -> Prices \cup {NaN}] /\ spoiled' \subseteq Minutes
BY DEF IInv, TypeOK, Write

LEMMA FirstTradeStep ==
  ASSUME IInv, NEW s, FirstTrade(s)
  PROVE  IInv' /\ evaluatedMinute' >= evaluatedMinute
<1>1. Take(s) /\ Write(s, None)
  BY DEF FirstTrade
<1>2. made[s].minute \in Minutes /\ made[s].price \in Prices
  BY <1>1, TakeKeeps
<1>3. ring' \in [0..(RING - 1) -> Prices \cup {NaN}] /\ spoiled' \subseteq Minutes
  BY <1>1, <1>2, WriteKeeps
<1>4. lastMinute' \in Minutes /\ evaluatedMinute' \in Minutes \cup {None}
  BY <1>2, Constants DEF FirstTrade, Minutes, None
<1>5. evaluatedMinute = None /\ DOMAIN verdict = {}
  <2>1. evaluatedMinute = -1 /\ DOMAIN verdict \subseteq 0..evaluatedMinute
    BY DEF IInv, Shape, FirstTrade, None
  <2> QED  BY <2>1 DEF None
<1>6. TypeOK'
  BY <1>1, <1>3, <1>4, TakeKeeps DEF FirstTrade, TypeOK, IInv
<1>7. Shape'
  BY <1>1, <1>4, <1>5, TakeKeeps DEF Shape, Started, Minutes, None
<1>8. evaluatedMinute' >= evaluatedMinute
  BY <1>4, <1>5 DEF Minutes, None
<1> QED  BY <1>6, <1>7, <1>8 DEF IInv

\* The slots that are filled up take the last close.
LEMMA NewMinuteStep ==
  ASSUME IInv, NEW s, NewMinute(s)
  PROVE  IInv' /\ evaluatedMinute' = evaluatedMinute
<1>1. Take(s) /\ Started
  BY DEF NewMinute
<1>2. made[s].minute \in Minutes /\ made[s].price \in Prices /\ s \in Seqs
  BY <1>1, TakeKeeps
<1>3. lastMinute \in Minutes /\ Slot(lastMinute) \in 0..(RING - 1)
  BY <1>1, SlotType DEF IInv, TypeOK, Started, Minutes
<1>4. ring' \in [0..(RING - 1) -> Prices \cup {NaN}]
  <2>1. ring \in [0..(RING - 1) -> Prices \cup {NaN}]
    BY DEF IInv, TypeOK
  <2>2. ring[Slot(lastMinute)] \in Prices \cup {NaN}
    BY <1>3, <2>1
  <2>3. DOMAIN ring = 0..(RING - 1) /\ \A i \in 0..(RING - 1) : ring[i] \in Prices \cup {NaN}
    BY <2>1
  <2> DEFINE m == made[s].minute
             filled == {Slot(k) : k \in Max({lastMinute + 1, m - RING + 1})..(m - 1)}
  <2>4. ring' = [i \in DOMAIN ring |-> IF i = Slot(m) THEN made[s].price
                   ELSE IF i \in filled THEN ring[Slot(lastMinute)] ELSE ring[i]]
    BY DEF NewMinute
  <2> HIDE DEF filled
  <2> QED  BY <1>2, <2>2, <2>3, <2>4
<1>5. /\ lastMinute' \in Minutes /\ evaluatedMinute' = evaluatedMinute /\ spoiled' = spoiled
      /\ lastSeqCur' \in Seqs /\ lastSeqPrev' \in Seqs
  BY <1>2 DEF NewMinute, IInv, TypeOK, Seqs
<1>6. TypeOK'
  BY <1>1, <1>4, <1>5, TakeKeeps DEF TypeOK, IInv
<1>7. Shape'
  BY <1>1, <1>5, TakeKeeps DEF IInv, Shape, Started, Minutes, None
<1> QED  BY <1>5, <1>6, <1>7 DEF IInv

\* The paths that leave the last minute where it is.
LEMMA OldMinuteStep ==
  ASSUME IInv, NEW s, SameMinute(s) \/ PreviousMinute(s) \/ Ignore(s)
  PROVE  IInv' /\ evaluatedMinute' = evaluatedMinute
<1>1. Take(s) /\ Started
  BY DEF SameMinute, PreviousMinute, Ignore
<1>2. made[s].minute \in Minutes /\ made[s].price \in Prices /\ s \in Seqs
  BY <1>1, TakeKeeps
<1>3. lastMinute' = lastMinute /\ evaluatedMinute' = evaluatedMinute
  BY DEF SameMinute, PreviousMinute, Ignore
<1>4. lastSeqCur' \in Seqs /\ lastSeqPrev' \in Seqs
  BY <1>2 DEF SameMinute, PreviousMinute, Ignore, IInv, TypeOK
<1>5. ring' \in [0..(RING - 1) -> Prices \cup {NaN}] /\ spoiled' \subseteq Minutes
  <2>1. CASE Write(s, lastSeqCur) \/ Write(s, lastSeqPrev)
    BY <1>2, <2>1, WriteKeeps
  <2>2. CASE ring' = ring /\ (spoiled' = spoiled \/ spoiled' = spoiled \cup {made[s].minute})
    BY <1>2, <2>2 DEF IInv, TypeOK
  <2> QED  BY <2>1, <2>2 DEF SameMinute, PreviousMinute, Ignore
<1>6. TypeOK'
  BY <1>1, <1>3, <1>4, <1>5, TakeKeeps DEF TypeOK, IInv
<1>7. Shape'
  BY <1>1, <1>3, TakeKeeps DEF IInv, Shape, Started
<1> QED  BY <1>3, <1>6, <1>7 DEF IInv

-----------------------------------------------------------------------------
(* The timers *)

LEMMA StaleTimerStep ==
  ASSUME IInv, NEW target \in timers, StaleTimer(target)
  PROVE  IInv' /\ evaluatedMinute' = evaluatedMinute /\ verdict' = verdict
<1>1. TypeOK'
  BY DEF IInv, TypeOK, StaleTimer, Fire, market
<1>2. Shape'
  BY DEF IInv, Shape, StaleTimer, Fire, Started
<1> QED  BY <1>1, <1>2 DEF IInv, StaleTimer

\* Closing minutes judges only minutes behind the last judged one.
LEMMA CloseMinutesStep ==
  ASSUME IInv, NEW target \in timers, CloseMinutes(target)
  PROVE  /\ IInv' /\ evaluatedMinute' >= evaluatedMinute
         /\ \A k \in DOMAIN verdict : verdict'[k] = verdict[k]
<1> DEFINE from == Max({evaluatedMinute + 1, target - RING + 1})
           judged == from..target
<1>1. target \in Minutes /\ target > evaluatedMinute /\ evaluatedMinute \in Minutes \cup {None}
  BY Constants DEF IInv, TypeOK, CloseMinutes, Fire, FreshTimer, Minutes
<1>2. from \in Int /\ from > evaluatedMinute /\ from >= 0
  <2>1. evaluatedMinute + 1 \in Int /\ target - RING + 1 \in Int /\ evaluatedMinute >= -1
    BY <1>1, Constants DEF Minutes, None
  <2>2. from \in {evaluatedMinute + 1, target - RING + 1} /\ from >= evaluatedMinute + 1
    BY <2>1, MaxOfTwo
  <2> HIDE DEF from
  <2> QED  BY <1>1, <2>1, <2>2 DEF Minutes, None
<1>3. judged \subseteq Minutes /\ \A k \in judged : k > evaluatedMinute /\ k <= target
  BY <1>1, <1>2, Constants DEF Minutes, None
<1>4. lastMinute \in Minutes /\ Slot(lastMinute) \in 0..(RING - 1)
  <2>1. Started
    BY DEF IInv, Shape
  <2>2. lastMinute \in Minutes
    BY <2>1 DEF IInv, TypeOK, Started
  <2> QED  BY <2>2, SlotType, Constants DEF Minutes
<1>5. ring' \in [0..(RING - 1) -> Prices \cup {NaN}]
  <2>1. ring \in [0..(RING - 1) -> Prices \cup {NaN}]
    BY DEF IInv, TypeOK
  <2>2. ring[Slot(lastMinute)] \in Prices \cup {NaN}
    BY <1>4, <2>1
  <2>3. DOMAIN ring = 0..(RING - 1) /\ \A i \in 0..(RING - 1) : ring[i] \in Prices \cup {NaN}
    BY <2>1
  <2> DEFINE filled == {Slot(k) : k \in (lastMinute + 1)..target}
  <2>4. ring' = [i \in DOMAIN ring |-> IF i \in filled THEN ring[Slot(lastMinute)] ELSE ring[i]]
    BY DEF CloseMinutes
  <2> HIDE DEF filled
  <2> QED  BY <2>2, <2>3, <2>4
<1>6. lastMinute' \in Minutes /\ evaluatedMinute' = target
  <2>0. lastMinute \in Int /\ target \in Int
    BY <1>1, <1>4, Constants DEF Minutes
  <2>1. Max({lastMinute, target}) \in {lastMinute, target}
    BY <2>0, MaxOfTwo
  <2> QED  BY <1>1, <1>4, <2>1 DEF CloseMinutes
<1>7. level' \in 0..3 /\ \A k : LevelAfter(from, k) \in 0..3
  <2>1. level \in 0..3
    BY DEF IInv, TypeOK
  <2>2. level' = LevelAfter(from, target)
    BY DEF CloseMinutes
  <2> HIDE DEF from
  <2> QED  BY <2>1, <2>2, LevelAfterType
<1>8. /\ DOMAIN verdict' = DOMAIN verdict \cup judged
      /\ \A k \in DOMAIN verdict' : verdict'[k] = IF k \in judged THEN LevelAfter(from, k) ELSE verdict[k]
  BY DEF CloseMinutes
<1>9. timers' \subseteq 0..(MaxMinute + 1)
  <2>1. target + 1 \in 0..(MaxMinute + 1)
    BY <1>1, Constants DEF Minutes
  <2> QED  BY <2>1 DEF CloseMinutes, NextTimer, IInv, TypeOK
<1>10. spoiled' \subseteq Minutes /\ lagged' \subseteq Minutes
  <2>1. 0..target \subseteq Minutes
    BY <1>1, Constants DEF Minutes
  <2>2. spoiled' \subseteq spoiled \cup 0..target /\ lagged' \subseteq lagged \cup judged
    BY DEF CloseMinutes
  <2> HIDE DEF judged
  <2> QED  BY <1>3, <2>1, <2>2 DEF IInv, TypeOK
<1> HIDE DEF judged, from
<1>11. TypeOK'
  <2>1. UNCHANGED <<clock, made, unstored, queue, lastTradeMinute, lastSeqCur, lastSeqPrev>>
    BY DEF CloseMinutes, Fire, market
  <2>2. DOMAIN verdict' \subseteq Minutes /\ \A k \in DOMAIN verdict' : verdict'[k] \in 0..3
    BY <1>3, <1>7, <1>8 DEF IInv, TypeOK
  <2> QED  BY <1>1, <1>5, <1>6, <1>7, <1>9, <1>10, <2>1, <2>2 DEF IInv, TypeOK
<1>12. Shape'
  <2>1. Started'
    BY <1>6 DEF Started, Minutes, None
  <2>2. DOMAIN verdict \subseteq 0..evaluatedMinute
    BY DEF IInv, Shape
  <2>3. \A k \in DOMAIN verdict' : k \in 0..target
    <3>1. ASSUME NEW k \in DOMAIN verdict PROVE k \in 0..target
      BY <1>1, <2>2, <3>1, Constants DEF Minutes, None
    <3>2. ASSUME NEW k \in judged PROVE k \in 0..target
      BY <1>1, <1>3, <3>2, Constants DEF Minutes, None
    <3> QED  BY <1>8, <3>1, <3>2
  <2> QED  BY <1>6, <2>1, <2>3 DEF Shape
<1>13. evaluatedMinute' >= evaluatedMinute
  BY <1>1, <1>6 DEF Minutes, None
<1>14. \A k \in DOMAIN verdict : verdict'[k] = verdict[k]
  <2>1. \A k \in DOMAIN verdict : k \notin judged
    BY <1>1, <1>3 DEF IInv, Shape, Minutes, None
  <2> QED  BY <1>8, <2>1
<1> QED  BY <1>11, <1>12, <1>13, <1>14 DEF IInv

-----------------------------------------------------------------------------
(* Theorems *)

LEMMA IInvInit == Init => IInv
<1> SUFFICES ASSUME Init PROVE IInv
  OBVIOUS
<1>1. TypeOK
  BY Constants DEF Init, TypeOK, Minutes, Seqs, NaN
<1>2. Shape
  BY DEF Init, Shape
<1> QED  BY <1>1, <1>2 DEF IInv

\* Each step keeps the invariant and the verdicts.
LEMMA IInvNext ==
  ASSUME IInv, [Next]_vars
  PROVE  /\ IInv' /\ evaluatedMinute' >= evaluatedMinute
         /\ \A k \in DOMAIN verdict : verdict'[k] = verdict[k]
<1> DEFINE Goal == /\ IInv' /\ evaluatedMinute' >= evaluatedMinute
                   /\ \A k \in DOMAIN verdict : verdict'[k] = verdict[k]
<1>0. evaluatedMinute \in Int
  BY Constants DEF IInv, TypeOK, Minutes, None
<1>1. ASSUME IInv', evaluatedMinute' = evaluatedMinute, verdict' = verdict
      PROVE  Goal
  BY <1>0, <1>1
<1>2. CASE UNCHANGED vars
  <2>1. IInv'
    BY <1>2 DEF vars, IInv, TypeOK, Shape, Started
  <2> QED  BY <1>1, <1>2, <2>1 DEF vars
<1>3. CASE NextMinute
  BY <1>1, <1>3, NextMinuteStep DEF NextMinute, state
<1>4. CASE \E p \in Prices : Trade(p)
  BY <1>1, <1>4, TradeStep DEF Trade, state
<1>5. CASE \E s \in unstored, late \in BOOLEAN : Insert(s, late)
  BY <1>1, <1>5, InsertStep DEF Insert, state
<1>6. ASSUME NEW s \in Unseen, Process(s)
      PROVE  Goal
  <2>1. CASE SkipLate(s)
    BY <1>1, <2>1, SkipLateStep DEF SkipLate, state
  <2>2. verdict' = verdict
    BY <1>6 DEF Process, SkipLate, FirstTrade, NewMinute, SameMinute, PreviousMinute, Ignore, Take
  <2>3. CASE FirstTrade(s)
    BY <2>2, <2>3, FirstTradeStep
  <2>4. CASE NewMinute(s)
    BY <1>1, <2>2, <2>4, NewMinuteStep
  <2>5. CASE SameMinute(s) \/ PreviousMinute(s) \/ Ignore(s)
    BY <1>1, <2>2, <2>5, OldMinuteStep
  <2> QED  BY <1>6, <2>1, <2>3, <2>4, <2>5 DEF Process
<1>7. ASSUME NEW target \in timers, Timer(target)
      PROVE  Goal
  <2>1. CASE StaleTimer(target)
    BY <1>1, <2>1, StaleTimerStep
  <2>2. CASE CloseMinutes(target)
    BY <2>2, CloseMinutesStep
  <2> QED  BY <1>7, <2>1, <2>2 DEF Timer
<1> QED  BY <1>2, <1>3, <1>4, <1>5, <1>6, <1>7 DEF Next, Run

LEMMA Inductive == Spec => []IInv
BY IInvInit, IInvNext, PTL DEF Spec

\* The types hold, the ring among them: a slot is a price or empty, whatever is
\* filled, overwritten or read at slots long past (MarketAlertDetector.java).
THEOREM DetectorTypeCorrect == Spec => []TypeOK
BY Inductive, PTL DEF IInv

\* No minute is judged twice and a verdict stands, for every size of the ring and
\* length of the chain, and any order of trades, timers and time (onTimer).
THEOREM VerdictsStand == Spec => JudgedOnce
<1>1. ASSUME IInv, [Next]_vars
      PROVE  [/\ evaluatedMinute' >= evaluatedMinute
              /\ \A k \in DOMAIN verdict : verdict'[k] = verdict[k]]_vars
  BY <1>1, IInvNext
<1> QED  BY <1>1, Inductive, PTL DEF Spec, JudgedOnce

-----------------------------------------------------------------------------
(* The slots of the ring *)

LEMMA Quotient ==
  ASSUME NEW r \in Nat \ {0}, NEW i \in Int
  PROVE  i \div r \in Int /\ i % r \in Int /\ i = r * (i \div r) + (i % r)
OBVIOUS

LEMMA NoMultipleBelow ==
  ASSUME NEW r \in Nat \ {0}, NEW d \in Int, r * d < r, r * d > -r
  PROVE  d = 0
<1>1. CASE d >= 1
  <2>1. r * d >= r
    BY <1>1
  <2> QED BY <2>1
<1>2. CASE d <= -1
  <2>1. r * d <= -r
    BY <1>2
  <2> QED BY <2>1
<1> QED BY <1>1, <1>2

\* Minutes less than a ring apart have slots of their own.
LEMMA SlotsDiffer ==
  ASSUME NEW i \in Int, NEW j \in Int, i # j, i - j < RING, j - i < RING
  PROVE  Slot(i) # Slot(j)
<1> SUFFICES ASSUME Slot(i) = Slot(j) PROVE FALSE
  OBVIOUS
<1> DEFINE a == i \div RING
           b == j \div RING
<1>1. RING \in Nat \ {0}
  BY Constants
<1>2. /\ a \in Int /\ b \in Int /\ i = RING * a + (i % RING) /\ j = RING * b + (j % RING)
      /\ i % RING \in Int /\ j % RING \in Int
  BY <1>1, Quotient
<1>3. i % RING = j % RING
  BY DEF Slot
<1> HIDE DEF a, b
<1>4. PICK m \in Int : m = i % RING
  BY <1>2
<1>5. i = RING * a + m /\ j = RING * b + m
  BY <1>2, <1>3, <1>4
<1>6. RING * a - RING * b = i - j
  BY <1>1, <1>2, <1>5
<1>7. RING * (a - b) = RING * a - RING * b
  BY <1>1, <1>2
<1>8. a - b = 0
  <2>1. a - b \in Int /\ RING * (a - b) < RING /\ RING * (a - b) > -RING
    BY <1>1, <1>2, <1>6, <1>7
  <2> QED BY <1>1, <2>1, NoMultipleBelow
<1>9. a = b
  BY <1>2, <1>8
<1> QED BY <1>5, <1>9

-----------------------------------------------------------------------------
(* What the ring holds *)

Minute(s) == made[s].minute
Seen == DOMAIN made \ Unseen

\* The first minute that is judged, or will be.
First == IF DOMAIN verdict = {} THEN evaluatedMinute + 1 ELSE FirstJudged

\* Trades and closed minutes lie behind the clock; the last minute is not
\* behind the last closed one, and a minute opened by a trade holds that trade.
Clocked ==
  /\ \A x \in DOMAIN made : Minute(x) <= clock
  /\ evaluatedMinute < clock
  /\ ~Started => lastSeqCur = None
  /\ Started => evaluatedMinute <= lastMinute
  /\ Started /\ lastMinute > evaluatedMinute => \E x \in DOMAIN made : Minute(x) = lastMinute

\* A trade is in the ledger's input, in the queue once, or seen.
Once ==
  /\ \A i, j \in 1..Len(queue) : queue[i].seq = queue[j].seq => i = j
  /\ \A i \in 1..Len(queue) : queue[i].seq \notin unstored

\* A trade that was seen moved the last minute, or its minute is spoiled; one
\* that was not seen before its minute was closed has spoiled it.
Ahead == \A x \in Seen : Minute(x) \in spoiled \/ (Started /\ Minute(x) <= lastMinute)
Due == \A x \in Unseen :
         First <= Minute(x) /\ Minute(x) <= evaluatedMinute => Minute(x) \in spoiled

\* x is the latest trade seen of minute m.
Top(m, x) == /\ x \in Seen /\ Minute(x) = m
             /\ \A y \in Seen : Minute(y) = m => y <= x

\* The open last minute, and the open one before it: the slot holds the latest
\* trade seen, and so does the operator's memory of its sequential_id.
Cur ==
  Started /\ lastMinute > evaluatedMinute /\ lastMinute \notin spoiled =>
    \E x \in DOMAIN made : /\ Top(lastMinute, x) /\ lastSeqCur \in {None, x}
                           /\ ring[Slot(lastMinute)] = made[x].price
Prev ==
  Started /\ lastMinute - 1 > evaluatedMinute /\ lastMinute - 1 \notin spoiled =>
    /\ \A x \in DOMAIN made :
         Top(lastMinute - 1, x) => ring[Slot(lastMinute - 1)] = made[x].price
    /\ lastSeqPrev # None => Top(lastMinute - 1, lastSeqPrev)

\* x makes the close of minute k, by the exchange.
CloseTrade(k, x) ==
  /\ Minute(x) <= k
  /\ \A y \in DOMAIN made : Minute(y) <= k =>
       Minute(y) < Minute(x) \/ (Minute(y) = Minute(x) /\ y <= x)

\* Every trade of minute m was taken.
Whole(m) == m >= First /\ m \notin spoiled /\ \A s \in Unseen : Minute(s) # m

\* The slots of the last RING minutes hold the exchange's closes.
Held ==
  Started => \A k \in First..lastMinute : k > lastMinute - RING =>
    \A x \in DOMAIN made :
      CloseTrade(k, x) /\ Whole(Minute(x)) => ring[Slot(k)] = made[x].price

\* VerdictExact, by the trades that make the two closes.
VerdictOf ==
  \A k \in DOMAIN verdict \ lagged : k - LOOKBACK >= First =>
    \A x, y \in DOMAIN made :
      /\ CloseTrade(k, x) /\ Minute(x) >= First /\ Minute(x) \notin spoiled
      /\ CloseTrade(k - LOOKBACK, y) /\ Minute(y) >= First /\ Minute(y) \notin spoiled
      => verdict[k] = LevelOf(made[x].price, made[y].price)

RingInv == Clocked /\ Once /\ Ahead /\ Due /\ Cur /\ Prev /\ Held /\ VerdictOf

\* What the types say of every number, trade and slot.
LEMMA Numbers ==
  ASSUME IInv
  PROVE  /\ RING \in Nat /\ LOOKBACK \in Nat /\ RING >= 2 /\ LOOKBACK < RING
         /\ clock \in Nat /\ lastMinute \in Int /\ evaluatedMinute \in Int /\ evaluatedMinute >= -1
         /\ (Started => lastMinute \in Nat) /\ (~Started => lastMinute = -1)
         /\ made \in Seq([minute : Minutes, price : Prices]) /\ DOMAIN made = 1..Len(made) /\ Len(made) \in Nat
         /\ \A x \in DOMAIN made : /\ x \in Nat /\ x # None /\ Minute(x) \in Nat
                                   /\ Minute(x) \in Minutes
                                   /\ made[x].price \in Nat /\ made[x].price # NaN
         /\ Unseen \subseteq DOMAIN made
         /\ DOMAIN ring = 0..(RING - 1)
         /\ DOMAIN verdict \subseteq Nat /\ \A k \in DOMAIN verdict : k <= evaluatedMinute
<1>1. RING \in Nat /\ LOOKBACK \in Nat /\ RING >= 2 /\ LOOKBACK < RING
  BY DetectorAssumption
<1>2. /\ clock \in Nat /\ lastMinute \in Int /\ evaluatedMinute \in Int /\ evaluatedMinute >= -1
      /\ (Started => lastMinute \in Nat) /\ (~Started => lastMinute = -1)
  BY Constants DEF IInv, TypeOK, Minutes, None, Started
<1>3. /\ made \in Seq([minute : Minutes, price : Prices])
      /\ unstored \subseteq DOMAIN made /\ queue \in Seq([seq : DOMAIN made, late : BOOLEAN])
      /\ DOMAIN ring = 0..(RING - 1) /\ DOMAIN verdict \subseteq Minutes
  BY DEF IInv, TypeOK
<1>4. /\ DOMAIN made = 1..Len(made) /\ Len(made) \in Nat
      /\ \A i \in DOMAIN made : made[i] \in [minute : Minutes, price : Prices]
  <2>1. made \in Seq([minute : Minutes, price : Prices])
    BY <1>3
  <2>2. Len(made) \in Nat
    BY <2>1
  <2> QED  BY <2>1, <2>2, SeqElements
<1>5. ASSUME NEW x \in DOMAIN made
      PROVE  /\ x \in Nat /\ x # None /\ Minute(x) \in Nat /\ Minute(x) \in Minutes
             /\ made[x].price \in Nat /\ made[x].price # NaN
  <2>1. x \in Nat /\ x >= 1
    BY <1>4
  <2>2. made[x].minute \in Minutes /\ made[x].price \in Prices
    BY <1>4
  <2>3. made[x].price \in Nat /\ made[x].price # NaN
    BY <2>2, DetectorAssumption DEF NaN
  <2>4. x # None
    BY <2>1 DEF None
  <2>5. Minute(x) \in Minutes /\ Minute(x) \in Nat
    BY <2>2, Constants DEF Minute, Minutes
  <2> QED  BY <2>1, <2>3, <2>4, <2>5
<1>6. Unseen \subseteq DOMAIN made
  <2>0. queue \in Seq([seq : DOMAIN made, late : BOOLEAN])
    BY <1>3
  <2>1. \A i \in DOMAIN queue : queue[i] \in [seq : DOMAIN made, late : BOOLEAN]
    BY <2>0, SeqElements
  <2> QED  BY <1>3, <2>1 DEF Unseen, ToSet
<1>7. DOMAIN verdict \subseteq Nat /\ \A k \in DOMAIN verdict : k <= evaluatedMinute
  BY <1>2, <1>3, Constants DEF IInv, Shape, Minutes
<1> QED  BY <1>1, <1>2, <1>3, <1>4, <1>5, <1>6, <1>7

LEMMA LeastIs ==
  ASSUME NEW S \in SUBSET Nat, S # {}
  PROVE  Min(S) \in S /\ \A y \in S : Min(S) <= y
BY LeastInSet DEF Min

\* The first judged minute is the next one to close, until one is judged.
LEMMA FirstIs ==
  ASSUME IInv
  PROVE  /\ First \in Nat /\ First <= evaluatedMinute + 1
         /\ DOMAIN verdict # {} => First \in DOMAIN verdict
         /\ \A k \in DOMAIN verdict : First <= k
<1>1. /\ evaluatedMinute \in Int /\ evaluatedMinute >= -1
      /\ DOMAIN verdict \subseteq Nat /\ \A k \in DOMAIN verdict : k <= evaluatedMinute
  BY Numbers
<1>2. CASE DOMAIN verdict = {}
  BY <1>1, <1>2 DEF First
<1>3. CASE DOMAIN verdict # {}
  <2>1. First = FirstJudged
    BY <1>3 DEF First
  <2>2. FirstJudged \in DOMAIN verdict /\ \A k \in DOMAIN verdict : FirstJudged <= k
    BY <1>1, <1>3, LeastIs DEF FirstJudged
  <2> QED  BY <1>1, <1>3, <2>1, <2>2
<1> QED  BY <1>2, <1>3

-----------------------------------------------------------------------------
(* Reading a trade *)

\* Reading the next row makes exactly its trade a seen one.
LEMMA ReadSees ==
  ASSUME IInv, Once, NEW s, NEW late, Reads(s, late), made' = made, unstored' = unstored
  PROVE  /\ Once' /\ s \in Unseen /\ s \in DOMAIN made
         /\ Unseen' = Unseen \ {s} /\ Seen' = Seen \cup {s}
<1> DEFINE S == [seq : DOMAIN made, late : BOOLEAN]
<1>1. queue \in Seq(S) /\ queue # << >> /\ unstored \subseteq DOMAIN made
  BY DEF IInv, TypeOK, Reads
<1>2. queue' = Tail(queue) /\ queue[1].seq = s
  BY <1>1 DEF Reads
<1> HIDE DEF S
<1>3. PICK n \in Nat : n = Len(queue)
  BY <1>1
<1>4. /\ n >= 1 /\ DOMAIN queue = 1..n
      /\ Len(queue') = n - 1 /\ DOMAIN queue' = 1..(n - 1)
      /\ \A i \in 1..(n - 1) : queue'[i] = queue[i + 1]
  BY <1>1, <1>2, <1>3
<1>5. /\ \A i, j \in 1..n : queue[i].seq = queue[j].seq => i = j
      /\ \A i \in 1..n : queue[i].seq \notin unstored
  BY <1>3 DEF Once
<1>6. Once'
  <2>1. \A i, j \in 1..(n - 1) : queue'[i].seq = queue'[j].seq => i = j
    <3>1. ASSUME NEW i \in 1..(n - 1), NEW j \in 1..(n - 1), queue'[i].seq = queue'[j].seq
          PROVE  i = j
      <4>1. i + 1 \in 1..n /\ j + 1 \in 1..n
        BY <1>4
      <4>2. queue[i + 1].seq = queue[j + 1].seq
        BY <1>4, <3>1
      <4>3. i + 1 = j + 1
        BY <1>5, <4>1, <4>2
      <4> QED  BY <4>3
    <3> QED  BY <3>1
  <2>2. \A i \in 1..(n - 1) : queue'[i].seq \notin unstored'
    <3>1. \A i \in 1..(n - 1) : i + 1 \in 1..n
      BY <1>4
    <3> QED  BY <1>4, <1>5, <3>1
  <2>3. Len(queue') = n - 1
    BY <1>4
  <2> HIDE DEF Once
  <2> QED  BY <2>1, <2>2, <2>3 DEF Once
<1> DEFINE R == {queue[i].seq : i \in 1..n}
           T == {queue'[i].seq : i \in 1..(n - 1)}
<1>7. Unseen = unstored \cup R /\ Unseen' = unstored \cup T
  <2>1. {row.seq : row \in ToSet(queue)} = R
    BY <1>4 DEF ToSet
  <2>2. {row.seq : row \in ToSet(queue')} = T
    BY <1>4 DEF ToSet
  <2> HIDE DEF R, T
  <2> QED  BY <2>1, <2>2 DEF Unseen
<1>8. s \in R /\ s \notin unstored
  BY <1>2, <1>4, <1>5
<1>9. T = R \ {s}
  <2>1. ASSUME NEW x \in T PROVE x \in R \ {s}
    <3>1. PICK i \in 1..(n - 1) : x = queue'[i].seq
      BY <2>1
    <3>2. i + 1 \in 1..n /\ x = queue[i + 1].seq /\ i + 1 # 1 /\ 1 \in 1..n
      BY <1>4, <3>1
    <3> QED  BY <1>2, <1>5, <3>2
  <2>2. ASSUME NEW x \in R, x # s PROVE x \in T
    <3>1. PICK i \in 1..n : x = queue[i].seq
      BY <2>2
    <3>2. i # 1
      BY <1>2, <2>2, <3>1
    <3>3. i - 1 \in 1..(n - 1) /\ i = (i - 1) + 1
      BY <1>3, <3>2
    <3>4. x = queue'[i - 1].seq
      BY <1>4, <3>1, <3>3
    <3> QED  BY <3>3, <3>4
  <2> QED  BY <2>1, <2>2
<1>10. Unseen' = Unseen \ {s} /\ s \in Unseen
  <2> HIDE DEF R, T
  <2> QED  BY <1>7, <1>8, <1>9
<1>11. s \in DOMAIN made
  BY <1>10, Numbers
<1>12. Seen' = Seen \cup {s}
  BY <1>10, <1>11 DEF Seen
<1> QED  BY <1>6, <1>10, <1>11, <1>12

\* The trades stay as they are.
LEMMA SameTrades ==
  ASSUME made' = made
  PROVE  /\ \A x : Minute(x)' = Minute(x)
         /\ \A k, x : CloseTrade(k, x)' <=> CloseTrade(k, x)
<1>1. \A x : Minute(x)' = Minute(x)
  BY DEF Minute
<1>2. ASSUME NEW k, NEW x PROVE CloseTrade(k, x)' <=> CloseTrade(k, x)
  BY <1>1 DEF CloseTrade
<1> QED  BY <1>1, <1>2

LEMMA SameFirst ==
  ASSUME verdict' = verdict, evaluatedMinute' = evaluatedMinute
  PROVE  First' = First
BY DEF First, FirstJudged

\* The latest trade seen of a minute stays, when one of another minute is seen.
LEMMA TopElsewhere ==
  ASSUME made' = made, NEW s, Seen' = Seen \cup {s}, NEW m, m # Minute(s)
  PROVE  \A x : Top(m, x)' <=> Top(m, x)
<1>1. \A x : Minute(x)' = Minute(x)
  BY SameTrades
<1>2. ASSUME NEW x PROVE Top(m, x)' <=> Top(m, x)
  BY <1>1 DEF Top
<1> QED  BY <1>2

LEMMA TopUnique ==
  ASSUME IInv, NEW m, NEW x, NEW y, Top(m, x), Top(m, y)
  PROVE  x = y
<1>1. x \in Nat /\ y \in Nat
  BY Numbers DEF Top, Seen
<1>2. x <= y /\ y <= x
  BY DEF Top
<1> QED  BY <1>1, <1>2

\* The verdicts already given stay exact.
LEMMA VerdictOfKept ==
  ASSUME VerdictOf, made' = made, verdict' = verdict, lagged' = lagged, First' = First,
         spoiled \subseteq spoiled'
  PROVE  VerdictOf'
BY SameTrades DEF VerdictOf

\* Nothing is read and no slot moves.
LEMMA QuietKeeps ==
  ASSUME RingInv, IInv,
         UNCHANGED <<made, ring, lastMinute, evaluatedMinute, lastSeqCur, lastSeqPrev,
                     verdict, spoiled, lagged>>,
         Unseen' = Unseen, clock' \in Nat, clock' >= clock, Once'
  PROVE  RingInv'
<1>1. /\ \A x : Minute(x)' = Minute(x)
      /\ \A k, x : CloseTrade(k, x)' <=> CloseTrade(k, x)
  BY SameTrades
<1>2. First' = First /\ Seen' = Seen
  BY SameFirst DEF Seen
<1>3. \A m, x : Top(m, x)' <=> Top(m, x)
  <2> SUFFICES ASSUME NEW m, NEW x PROVE Top(m, x)' <=> Top(m, x)
    OBVIOUS
  <2> QED  BY <1>1, <1>2 DEF Top
<1>4. Clocked'
  <2>1. \A x \in DOMAIN made : Minute(x) <= clock'
    BY Numbers DEF RingInv, Clocked
  <2>2. evaluatedMinute < clock'
    BY Numbers DEF RingInv, Clocked
  <2> QED  BY <1>1, <2>1, <2>2 DEF RingInv, Clocked, Started
<1>5. Ahead' /\ Due'
  BY <1>1, <1>2 DEF RingInv, Ahead, Due, Started
<1>6. Cur' /\ Prev'
  BY <1>3 DEF RingInv, Cur, Prev, Started
<1>7. Held'
  <2>1. \A m : Whole(m)' <=> Whole(m)
    BY <1>1, <1>2 DEF Whole
  <2> QED  BY <1>1, <1>2, <2>1 DEF RingInv, Held, Started
<1>8. VerdictOf'
  BY <1>2, VerdictOfKept DEF RingInv
<1> QED  BY <1>4, <1>5, <1>6, <1>7, <1>8 DEF RingInv

-----------------------------------------------------------------------------
(* Trades that are made and inserted *)

\* A trade that is made is not seen: it opens no slot and spoils nothing.
LEMMA TradeKeepsRing ==
  ASSUME RingInv, IInv, NEW p \in Prices, Trade(p)
  PROVE  RingInv'
<1>0. PICK n \in Nat : n = Len(made) + 1
  BY Numbers
<1>1. /\ made' = Append(made, [minute |-> clock, price |-> p])
      /\ unstored' = unstored \cup {Len(made')}
      /\ UNCHANGED <<clock, queue, ring, lastMinute, evaluatedMinute, lastSeqCur, lastSeqPrev,
                     verdict, spoiled, lagged>>
  BY DEF Trade, state
<1>2. /\ Len(made') = n /\ n \notin DOMAIN made /\ DOMAIN made' = DOMAIN made \cup {n}
      /\ made'[n].minute = clock
      /\ \A x \in DOMAIN made : made'[x] = made[x]
  <2>1. /\ made \in Seq([minute : Minutes, price : Prices])
        /\ DOMAIN made = 1..Len(made) /\ Len(made) \in Nat
    BY Numbers
  <2>2. [minute |-> clock, price |-> p] \in [minute : Minutes, price : Prices]
    BY DEF IInv, TypeOK
  <2>3. PICK r \in [minute : Minutes, price : Prices] : r = [minute |-> clock, price |-> p]
    BY <2>2
  <2>4. r.minute = clock
    BY <2>3
  <2>5. made' = Append(made, r)
    BY <1>1, <2>3
  <2>6. Len(made') = n /\ DOMAIN made' = 1..n /\ made'[n] = r /\ \A x \in DOMAIN made : made'[x] = made[x]
    BY <1>0, <2>1, <2>5
  <2> QED  BY <1>0, <2>1, <2>4, <2>6
<1>3. /\ Minute(n)' = clock
      /\ \A x \in DOMAIN made : Minute(x)' = Minute(x)
  BY <1>2 DEF Minute
<1>4. n \in Unseen' /\ Unseen' = Unseen \cup {n} /\ Seen' = Seen
  <2>1. Unseen' = Unseen \cup {n}
    BY <1>1, <1>2 DEF Unseen
  <2>2. n \notin DOMAIN made /\ Unseen \subseteq DOMAIN made
    BY <1>2, Numbers
  <2> QED  BY <1>2, <2>1, <2>2 DEF Seen
<1>5. First' = First
  BY <1>1, SameFirst
<1>6. \A x \in DOMAIN made : Minute(x) \in Nat /\ Minute(x) <= clock
  BY Numbers DEF RingInv, Clocked
<1>7. clock \in Nat /\ evaluatedMinute \in Int /\ evaluatedMinute < clock
  BY Numbers DEF RingInv, Clocked
<1>8. Clocked'
  <2>1. \A x \in DOMAIN made' : Minute(x)' <= clock'
    BY <1>1, <1>2, <1>3, <1>6, <1>7
  <2>2. Started /\ lastMinute > evaluatedMinute => \E x \in DOMAIN made' : Minute(x)' = lastMinute
    BY <1>2, <1>3 DEF RingInv, Clocked
  <2> QED  BY <1>1, <1>7, <2>1, <2>2 DEF RingInv, Clocked, Started
<1>9. Once'
  <2>1. \A i \in 1..Len(queue) : queue[i].seq # n
    <3>1. queue \in Seq([seq : DOMAIN made, late : BOOLEAN])
      BY DEF IInv, TypeOK
    <3>2. \A i \in 1..Len(queue) : queue[i] \in [seq : DOMAIN made, late : BOOLEAN]
      BY <3>1, SeqElements
    <3> QED  BY <1>2, <3>2
  <2> QED  BY <1>1, <1>2, <2>1 DEF RingInv, Once
<1>10. Ahead'
  <2>1. \A x \in Seen : Minute(x)' = Minute(x)
    BY <1>3 DEF Seen
  <2> QED  BY <1>1, <1>4, <2>1 DEF RingInv, Ahead, Started
<1>11. Due'
  <2>1. ~(Minute(n)' <= evaluatedMinute)
    BY <1>3, <1>7
  <2>2. \A x \in Unseen : Minute(x)' = Minute(x)
    BY <1>3, Numbers
  <2> QED  BY <1>1, <1>4, <1>5, <2>1, <2>2 DEF RingInv, Due
<1>12. \A m, x : Top(m, x)' <=> Top(m, x)
  <2>1. \A x \in Seen : Minute(x)' = Minute(x)
    BY <1>3 DEF Seen
  <2> SUFFICES ASSUME NEW m, NEW x PROVE Top(m, x)' <=> Top(m, x)
    OBVIOUS
  <2> QED  BY <1>4, <2>1 DEF Top
<1>13. \A m, x : Top(m, x) => x \in DOMAIN made
  BY DEF Top, Seen
<1>14. Cur'
  BY <1>1, <1>2, <1>12 DEF RingInv, Cur, Started
<1>15. Prev'
  BY <1>1, <1>2, <1>12, <1>13 DEF RingInv, Prev, Started
<1>16. ASSUME NEW k, NEW x \in DOMAIN made, CloseTrade(k, x)' PROVE CloseTrade(k, x)
  BY <1>2, <1>3, <1>16 DEF CloseTrade
<1>17. Held'
  <2> SUFFICES ASSUME Started', NEW k \in (First..lastMinute)', (k > lastMinute - RING)',
                      NEW x \in DOMAIN made', CloseTrade(k, x)', Whole(Minute(x))'
               PROVE  (ring[Slot(k)] = made[x].price)'
    BY DEF Held
  <2>1. x # n
    BY <1>4 DEF Whole
  <2>2. x \in DOMAIN made
    BY <1>2, <2>1
  <2>3. CloseTrade(k, x)
    BY <1>16, <2>2
  <2>4. Whole(Minute(x))
    <3>1. Minute(x)' = Minute(x) /\ \A s \in Unseen : Minute(s)' = Minute(s)
      BY <1>3, <2>2, Numbers
    <3>2. Whole(Minute(x)') <=> Whole(Minute(x))
      BY <3>1
    <3> QED  BY <1>1, <1>4, <1>5, <3>1 DEF Whole
  <2>5. Started /\ k \in First..lastMinute /\ k > lastMinute - RING
    BY <1>1, <1>5 DEF Started
  <2>6. ring[Slot(k)] = made[x].price
    BY <2>2, <2>3, <2>4, <2>5 DEF RingInv, Held
  <2> QED  BY <1>1, <1>2, <2>2, <2>6 DEF Slot
<1>18. VerdictOf'
  <2> SUFFICES ASSUME NEW k \in DOMAIN verdict \ lagged, k - LOOKBACK >= First,
                      NEW x \in DOMAIN made', NEW y \in DOMAIN made',
                      CloseTrade(k, x)', Minute(x)' >= First, Minute(x)' \notin spoiled,
                      CloseTrade(k - LOOKBACK, y)', Minute(y)' >= First, Minute(y)' \notin spoiled
               PROVE  verdict[k] = LevelOf(made'[x].price, made'[y].price)
    BY <1>1, <1>5 DEF VerdictOf, LevelOf
  <2>1. k \in Nat /\ k < clock /\ k - LOOKBACK < clock /\ k - LOOKBACK \in Int
    <3>1. k \in Nat /\ k <= evaluatedMinute /\ LOOKBACK \in Nat
      BY Numbers
    <3> QED  BY <1>7, <3>1
  <2>2. x # n /\ y # n
    BY <1>3, <1>7, <2>1 DEF CloseTrade
  <2>3. x \in DOMAIN made /\ y \in DOMAIN made
    BY <1>2, <2>2
  <2>4. CloseTrade(k, x) /\ CloseTrade(k - LOOKBACK, y)
    BY <1>16, <2>3
  <2>5. verdict[k] = LevelOf(made[x].price, made[y].price)
    BY <1>3, <2>3, <2>4 DEF RingInv, VerdictOf
  <2> QED  BY <1>2, <2>3, <2>5
<1> QED  BY <1>8, <1>9, <1>10, <1>11, <1>14, <1>15, <1>17, <1>18 DEF RingInv

LEMMA InsertKeepsRing ==
  ASSUME RingInv, IInv, NEW s \in unstored, NEW late \in BOOLEAN, Insert(s, late)
  PROVE  RingInv'
<1>1. /\ unstored' = unstored \ {s} /\ queue' = Append(queue, [seq |-> s, late |-> late])
      /\ UNCHANGED <<clock, made, ring, lastMinute, evaluatedMinute, lastSeqCur, lastSeqPrev,
                     verdict, spoiled, lagged>>
  BY DEF Insert, state
<1> DEFINE S == [seq : DOMAIN made, late : BOOLEAN]
<1>2. PICK r \in S : r = [seq |-> s, late |-> late]
  BY DEF IInv, TypeOK
<1>3. r.seq = s /\ queue' = Append(queue, r)
  BY <1>1, <1>2
<1>4. queue \in Seq(S)
  BY DEF IInv, TypeOK
<1> HIDE DEF S
<1>5. PICK n \in Nat : n = Len(queue)
  BY <1>4
<1>6. /\ DOMAIN queue = 1..n /\ DOMAIN queue' = 1..(n + 1) /\ Len(queue') = n + 1
      /\ queue'[n + 1] = r /\ \A i \in 1..n : queue'[i] = queue[i]
  BY <1>3, <1>4, <1>5
<1>7. /\ \A i, j \in 1..n : queue[i].seq = queue[j].seq => i = j
      /\ \A i \in 1..n : queue[i].seq \notin unstored
  BY <1>5 DEF RingInv, Once
<1>8. 1..(n + 1) = 1..n \cup {n + 1}
  BY <1>5
<1>9. Once'
  <2>1. \A i, j \in 1..(n + 1) : queue'[i].seq = queue'[j].seq => i = j
    <3>1. queue'[n + 1].seq = s
      BY <1>3, <1>6
    <3>2. \A i \in 1..n : queue'[i].seq = queue[i].seq /\ queue[i].seq # s
      BY <1>6, <1>7
    <3> QED  BY <1>7, <1>8, <3>1, <3>2
  <2>2. \A i \in 1..(n + 1) : queue'[i].seq \notin unstored'
    BY <1>1, <1>3, <1>6, <1>7, <1>8
  <2> QED  BY <1>6, <2>1, <2>2 DEF Once
<1>10. Unseen' = Unseen
  <2> DEFINE R == {queue[i].seq : i \in 1..n}
             T == {queue'[i].seq : i \in 1..(n + 1)}
  <2>1. {row.seq : row \in ToSet(queue)} = R
    BY <1>6 DEF ToSet
  <2>2. {row.seq : row \in ToSet(queue')} = T
    BY <1>6 DEF ToSet
  <2>3. T = R \cup {s}
    <3>1. \A x \in T : x \in R \cup {s}
      BY <1>3, <1>6, <1>8
    <3>2. R \subseteq T
      BY <1>6, <1>8
    <3>3. s \in T
      <4>1. n + 1 \in 1..(n + 1) /\ queue'[n + 1].seq = s
        BY <1>3, <1>6, <1>8
      <4> QED  BY <4>1
    <3> HIDE DEF R, T
    <3> QED  BY <3>1, <3>2, <3>3
  <2> HIDE DEF R, T
  <2> QED  BY <1>1, <2>1, <2>2, <2>3 DEF Unseen
<1>11. clock' \in Nat /\ clock' >= clock
  BY <1>1, Numbers
<1> QED  BY <1>1, <1>9, <1>10, <1>11, QuietKeeps

-----------------------------------------------------------------------------
(* Trades that leave the last minute *)

LEMMA SlotIn == ASSUME NEW i \in Int PROVE Slot(i) \in 0..(RING - 1)
BY SlotType

\* A trade is read that leaves the last minute where it is: its slot moves, if
\* any, only while its minute is open.
LEMMA InPlaceKeeps ==
  ASSUME RingInv, IInv, NEW s \in Unseen, Started, Once',
         UNCHANGED <<clock, made, lastMinute, evaluatedMinute, verdict, lagged>>,
         Unseen' = Unseen \ {s}, Seen' = Seen \cup {s},
         spoiled \subseteq spoiled', spoiled' \subseteq spoiled \cup {Minute(s)},
         Minute(s) <= lastMinute \/ Minute(s) \in spoiled',
         \/ ring' = ring /\ (Minute(s) \in spoiled' \/ Minute(s) \in {lastMinute, lastMinute - 1})
         \/ /\ Minute(s) \in {lastMinute, lastMinute - 1}
            /\ ring' = [ring EXCEPT ![Slot(Minute(s))] = made[s].price],
         Cur', Prev'
  PROVE  RingInv'
<1>1. /\ \A x : Minute(x)' = Minute(x)
      /\ \A k, x : CloseTrade(k, x)' <=> CloseTrade(k, x)
  BY SameTrades
<1>2. First' = First
  BY SameFirst
<1>3. s \in DOMAIN made /\ s \in Nat /\ Minute(s) \in Nat
  BY Numbers
<1>4. /\ lastMinute \in Int /\ evaluatedMinute \in Int /\ RING \in Nat /\ RING >= 2
      /\ First \in Nat
  BY Numbers, FirstIs
<1>5. Clocked'
  <2>1. \A x \in DOMAIN made : Minute(x)' <= clock
    BY <1>1 DEF RingInv, Clocked
  <2> QED  BY <1>1, <2>1 DEF RingInv, Clocked, Started
<1>6. Ahead' /\ Due'
  BY <1>1, <1>2 DEF RingInv, Ahead, Due, Started
<1>7. VerdictOf'
  BY <1>2, VerdictOfKept DEF RingInv
<1>8. Held'
  <2> SUFFICES ASSUME NEW k \in First..lastMinute, k > lastMinute - RING,
                      NEW x \in DOMAIN made, CloseTrade(k, x), Whole(Minute(x))'
               PROVE  ring'[Slot(k)] = made[x].price
    BY <1>1, <1>2 DEF Held, Slot
  <2>1. /\ k \in Int /\ Minute(x) \in Nat /\ x \in Nat /\ Minute(x) <= k
    BY <1>4, Numbers DEF CloseTrade
  <2>2. /\ Minute(x) >= First /\ Minute(x) \notin spoiled'
        /\ \A y \in Unseen' : Minute(y) # Minute(x)
    BY <1>1, <1>2 DEF Whole
  <2>3. x \in Seen'
    BY <2>2 DEF Seen
  <2>4. CASE Minute(x) # Minute(s)
    <3>1. Whole(Minute(x))
      BY <2>2, <2>4 DEF Whole
    <3>2. ring[Slot(k)] = made[x].price
      BY <2>1, <3>1 DEF RingInv, Held
    <3>3. k # Minute(s)
      <4>1. CASE k = Minute(s)
        <5>1. Minute(s) < Minute(x) \/ Minute(s) = Minute(x)
          BY <1>3, <4>1 DEF CloseTrade
        <5> QED  BY <1>3, <2>1, <2>4, <4>1, <5>1
      <4> QED  BY <4>1
    <3>4. ring'[Slot(k)] = ring[Slot(k)]
      <4>1. CASE Minute(s) \in {lastMinute, lastMinute - 1}
        <5>1. k - Minute(s) < RING /\ Minute(s) - k < RING
          BY <1>4, <2>1, <4>1
        <5>2. Slot(k) # Slot(Minute(s))
          BY <1>3, <2>1, <3>3, <5>1, SlotsDiffer
        <5>3. Slot(k) \in DOMAIN ring
          BY <2>1, SlotIn, Numbers
        <5> QED  BY <5>2, <5>3
      <4>2. CASE ring' = ring
        BY <4>2
      <4> QED  BY <4>1, <4>2
    <3> QED  BY <3>2, <3>4
  <2>5. CASE Minute(x) = Minute(s)
    <3>1. Minute(s) \in {lastMinute, lastMinute - 1}
      BY <2>2, <2>5
    <3>2. Minute(s) > evaluatedMinute
      <4>1. Minute(s) \notin spoiled
        BY <2>2, <2>5
      <4> QED  BY <1>3, <1>4, <2>2, <2>5, <4>1 DEF RingInv, Due
    <3>3. k = Minute(s)
      <4>1. CASE k > Minute(s)
        <5>1. k = lastMinute /\ lastMinute > evaluatedMinute
          BY <1>3, <1>4, <2>1, <3>1, <3>2, <4>1
        <5>2. PICK y \in DOMAIN made : Minute(y) = lastMinute
          BY <5>1 DEF RingInv, Clocked
        <5>3. Minute(y) < Minute(x) \/ Minute(y) = Minute(x)
          BY <1>4, <5>1, <5>2 DEF CloseTrade
        <5> QED  BY <1>3, <1>4, <2>1, <2>5, <4>1, <5>1, <5>2, <5>3
      <4> QED  BY <1>3, <2>1, <2>5, <4>1
    <3>4. Top(k, x)'
      <4>1. \A y \in Seen' : Minute(y) = k => y <= x
        <5> SUFFICES ASSUME NEW y \in Seen', Minute(y) = k PROVE y <= x
          OBVIOUS
        <5>1. y \in DOMAIN made
          BY DEF Seen
        <5>2. Minute(y) <= k
          BY <2>1
        <5>3. Minute(y) < Minute(x) \/ y <= x
          BY <5>1, <5>2 DEF CloseTrade
        <5> QED  BY <1>3, <2>1, <2>5, <3>3, <5>3
      <4> QED  BY <1>1, <2>3, <2>5, <3>3, <4>1 DEF Top
    <3>5. CASE k = lastMinute
      <4>1. lastMinute > evaluatedMinute /\ lastMinute \notin spoiled'
        BY <2>2, <2>5, <3>2, <3>3, <3>5
      <4>2. PICK z \in DOMAIN made : Top(k, z)' /\ (ring[Slot(k)] = made[z].price)'
        BY <3>5, <4>1 DEF Cur, Started, Slot
      <4>3. z = x
        <5>1. z \in Nat
          BY Numbers
        <5>2. z <= x /\ x <= z
          BY <3>4, <4>2 DEF Top
        <5> QED  BY <2>1, <5>1, <5>2
      <4> QED  BY <4>2, <4>3 DEF Slot
    <3>6. CASE k = lastMinute - 1
      <4>1. lastMinute - 1 > evaluatedMinute /\ lastMinute - 1 \notin spoiled'
        BY <2>2, <2>5, <3>2, <3>3, <3>6
      <4> QED  BY <3>4, <3>6, <4>1 DEF Prev, Started, Slot
    <3> QED  BY <3>1, <3>3, <3>5, <3>6
  <2> QED  BY <2>4, <2>5
<1> QED  BY <1>5, <1>6, <1>7, <1>8 DEF RingInv

\* A minute that is spoiled, and whose trade moves no slot.
LEMMA SpoilKeeps ==
  ASSUME RingInv, IInv, NEW s \in Unseen, Once',
         UNCHANGED <<clock, made, lastMinute, evaluatedMinute, verdict, lagged, ring,
                     lastSeqCur, lastSeqPrev>>,
         Unseen' = Unseen \ {s}, Seen' = Seen \cup {s},
         spoiled' = spoiled \cup {Minute(s)}
  PROVE  RingInv'
<1>1. \A x : Minute(x)' = Minute(x)
  BY SameTrades
<1>2. Cur'
  <2> SUFFICES ASSUME Started, lastMinute > evaluatedMinute, lastMinute \notin spoiled'
               PROVE  \E x \in DOMAIN made : /\ Top(lastMinute, x)' /\ lastSeqCur \in {None, x}
                                             /\ ring[Slot(lastMinute)] = made[x].price
    BY DEF Cur, Started, Slot
  <2>1. \A x : Top(lastMinute, x)' <=> Top(lastMinute, x)
    BY TopElsewhere DEF Top
  <2> QED  BY <2>1 DEF RingInv, Cur
<1>3. Prev'
  <2> SUFFICES ASSUME Started, lastMinute - 1 > evaluatedMinute, lastMinute - 1 \notin spoiled'
               PROVE  /\ \A x \in DOMAIN made :
                           Top(lastMinute - 1, x)' => ring[Slot(lastMinute - 1)] = made[x].price
                      /\ lastSeqPrev # None => Top(lastMinute - 1, lastSeqPrev)'
    BY DEF Prev, Started, Slot
  <2>1. \A x : Top(lastMinute - 1, x)' <=> Top(lastMinute - 1, x)
    BY TopElsewhere DEF Top
  <2> QED  BY <2>1 DEF RingInv, Prev
<1>4. CASE Started
  BY <1>2, <1>3, <1>4, InPlaceKeeps
<1>5. CASE ~Started
  <2>1. First' = First
    BY SameFirst
  <2>2. Clocked'
    <3>1. \A x \in DOMAIN made : Minute(x)' <= clock
      BY <1>1 DEF RingInv, Clocked
    <3> QED  BY <1>5, <3>1 DEF RingInv, Clocked, Started
  <2>3. Ahead' /\ Due'
    BY <1>1, <2>1 DEF RingInv, Ahead, Due, Started
  <2>4. Held'
    BY <1>5 DEF Held, Started
  <2>5. VerdictOf'
    BY <2>1, VerdictOfKept DEF RingInv
  <2> QED  BY <1>2, <1>3, <2>2, <2>3, <2>4, <2>5 DEF RingInv
<1> QED  BY <1>4, <1>5

LEMMA SkipLateKeepsRing ==
  ASSUME RingInv, IInv, NEW s, SkipLate(s)
  PROVE  RingInv'
<1>1. /\ Reads(s, TRUE)
      /\ UNCHANGED <<clock, made, unstored, lastMinute, evaluatedMinute, verdict, lagged, ring,
                     lastSeqCur, lastSeqPrev>>
  BY DEF SkipLate, market, state
<1>2. spoiled' = spoiled \cup {Minute(s)}
  BY DEF SkipLate, Minute
<1>3. Once' /\ s \in Unseen /\ Unseen' = Unseen \ {s} /\ Seen' = Seen \cup {s}
  BY <1>1, ReadSees DEF RingInv
<1> QED  BY <1>1, <1>2, <1>3, SpoilKeeps

LEMMA TakeSees ==
  ASSUME RingInv, IInv, NEW s, Take(s)
  PROVE  /\ Once' /\ s \in Unseen /\ s \in DOMAIN made
         /\ Unseen' = Unseen \ {s} /\ Seen' = Seen \cup {s}
         /\ UNCHANGED <<clock, made, unstored, verdict, lagged>>
<1>1. Reads(s, FALSE) /\ UNCHANGED <<clock, made, unstored, verdict, lagged>>
  BY DEF Take, market
<1> QED  BY <1>1, ReadSees DEF RingInv

LEMMA IgnoreKeepsRing ==
  ASSUME RingInv, IInv, NEW s, Ignore(s)
  PROVE  RingInv'
<1>1. Take(s) /\ UNCHANGED <<ring, lastMinute, evaluatedMinute, lastSeqCur, lastSeqPrev>>
  BY DEF Ignore
<1>2. spoiled' = spoiled \cup {Minute(s)}
  BY DEF Ignore, Minute
<1> QED  BY <1>1, <1>2, TakeSees, SpoilKeeps

\* A trade that becomes the close of its minute without another being later is
\* the latest of them; else it has spoiled the minute.
LEMMA WriteMeans ==
  ASSUME IInv, NEW s, NEW seen, Write(s, seen)
  PROVE  /\ ring' = [ring EXCEPT ![Slot(Minute(s))] = made[s].price]
         /\ spoiled \subseteq spoiled' /\ spoiled' \subseteq spoiled \cup {Minute(s)}
         /\ seen = None /\ Minute(s) \notin spoiled' =>
              \A y \in Seen : Minute(y) = Minute(s) => ~(y > s)
<1>1. ring' = [ring EXCEPT ![Slot(Minute(s))] = made[s].price]
  BY DEF Write, Minute
<1>2. spoiled \subseteq spoiled' /\ spoiled' \subseteq spoiled \cup {Minute(s)}
  BY DEF Write, Minute
<1>3. ASSUME seen = None, Minute(s) \notin spoiled'
      PROVE  \A y \in Seen : Minute(y) = Minute(s) => ~(y > s)
  <2>1. ~Overtaken(s)
    BY <1>3 DEF Write, Minute
  <2> QED  BY <2>1 DEF Overtaken, Seen, Minute
<1> QED  BY <1>1, <1>2, <1>3

\* One slot takes the price of s.
LEMMA SlotTakes ==
  ASSUME IInv, NEW s \in DOMAIN made, ring' = [ring EXCEPT ![Slot(Minute(s))] = made[s].price]
  PROVE  /\ ring'[Slot(Minute(s))] = made[s].price
         /\ \A k \in Int : /\ k # Minute(s) /\ k - Minute(s) < RING /\ Minute(s) - k < RING
                           => ring'[Slot(k)] = ring[Slot(k)]
<1>1. Minute(s) \in Int /\ DOMAIN ring = 0..(RING - 1)
  BY Numbers
<1>2. Slot(Minute(s)) \in DOMAIN ring
  BY <1>1, SlotIn
<1>3. ASSUME NEW k \in Int, k # Minute(s), k - Minute(s) < RING, Minute(s) - k < RING
      PROVE  ring'[Slot(k)] = ring[Slot(k)]
  <2>1. Slot(k) # Slot(Minute(s)) /\ Slot(k) \in DOMAIN ring
    BY <1>1, <1>3, SlotsDiffer, SlotIn
  <2> QED  BY <2>1
<1> QED  BY <1>2, <1>3

LEMMA SameMinuteKeepsRing ==
  ASSUME RingInv, IInv, NEW s, SameMinute(s)
  PROVE  RingInv'
<1>1. /\ Started /\ Take(s) /\ Minute(s) = lastMinute
      /\ UNCHANGED <<lastMinute, evaluatedMinute, lastSeqPrev>>
  BY DEF SameMinute, Minute
<1>2. /\ Once' /\ s \in Unseen /\ s \in DOMAIN made
      /\ Unseen' = Unseen \ {s} /\ Seen' = Seen \cup {s}
      /\ UNCHANGED <<clock, made, unstored, verdict, lagged>>
  BY <1>1, TakeSees
<1>3. /\ lastMinute \in Int /\ evaluatedMinute \in Int /\ RING \in Nat /\ RING >= 2
      /\ s \in Nat /\ \A y \in Seen : y \in Nat
  BY <1>2, Numbers DEF Seen
<1>4. \A x : Minute(x)' = Minute(x)
  BY <1>2, SameTrades
<1>5. \/ /\ lastSeqCur = None \/ s > lastSeqCur
         /\ Write(s, lastSeqCur) /\ lastSeqCur' = s
      \/ /\ ~(lastSeqCur = None \/ s > lastSeqCur)
         /\ ring' = ring /\ lastSeqCur' = lastSeqCur /\ spoiled' = spoiled
  BY DEF SameMinute
<1>6. spoiled \subseteq spoiled' /\ spoiled' \subseteq spoiled \cup {Minute(s)}
  BY <1>5, WriteMeans
<1>7. ring' = ring \/ ring' = [ring EXCEPT ![Slot(Minute(s))] = made[s].price]
  BY <1>5, WriteMeans
<1>8. Cur'
  <2> SUFFICES ASSUME lastMinute > evaluatedMinute, lastMinute \notin spoiled'
               PROVE  \E x \in DOMAIN made : /\ Top(lastMinute, x)' /\ lastSeqCur' \in {None, x}
                                             /\ ring'[Slot(lastMinute)] = made[x].price
    BY <1>1, <1>2 DEF Cur, Started, Slot
  <2>1. PICK x \in DOMAIN made : /\ Top(lastMinute, x) /\ lastSeqCur \in {None, x}
                                 /\ ring[Slot(lastMinute)] = made[x].price
    BY <1>1, <1>6 DEF RingInv, Cur
  <2>2. /\ x \in Seen /\ Minute(x) = lastMinute /\ x \in Nat /\ x # None
        /\ \A y \in Seen : Minute(y) = lastMinute => y <= x
    BY <2>1, Numbers DEF Top
  <2>3. CASE lastSeqCur = None \/ s > lastSeqCur
    <3>1. Write(s, lastSeqCur) /\ lastSeqCur' = s
      BY <1>5, <2>3
    <3>2. \A y \in Seen : Minute(y) = lastMinute => y <= s
      <4>1. CASE lastSeqCur = None
        <5>1. \A y \in Seen : Minute(y) = Minute(s) => ~(y > s)
          BY <1>1, <3>1, <4>1, WriteMeans
        <5> QED  BY <1>1, <1>3, <5>1
      <4>2. CASE lastSeqCur = x
        <5>1. x < s
          BY <2>2, <2>3, <4>2
        <5> QED  BY <1>3, <2>2, <5>1
      <4> QED  BY <2>1, <4>1, <4>2
    <3>3. Top(lastMinute, s)'
      BY <1>1, <1>2, <1>3, <1>4, <3>2 DEF Top
    <3>4. ring'[Slot(lastMinute)] = made[s].price
      BY <1>1, <1>2, <3>1, WriteMeans, SlotTakes
    <3> QED  BY <1>2, <3>1, <3>3, <3>4
  <2>4. CASE ~(lastSeqCur = None \/ s > lastSeqCur)
    <3>1. ring' = ring /\ lastSeqCur' = lastSeqCur /\ lastSeqCur = x
      BY <1>5, <2>1, <2>4
    <3>2. s <= x
      BY <1>3, <2>2, <2>4, <3>1
    <3>3. Top(lastMinute, x)'
      BY <1>1, <1>2, <1>4, <2>2, <3>2 DEF Top
    <3> QED  BY <2>1, <3>1, <3>3
  <2> QED  BY <2>3, <2>4
<1>9. Prev'
  <2> SUFFICES ASSUME lastMinute - 1 > evaluatedMinute, lastMinute - 1 \notin spoiled'
               PROVE  /\ \A x \in DOMAIN made :
                           Top(lastMinute - 1, x)' => ring'[Slot(lastMinute - 1)] = made[x].price
                      /\ lastSeqPrev # None => Top(lastMinute - 1, lastSeqPrev)'
    BY <1>1, <1>2 DEF Prev, Started, Slot
  <2>1. lastMinute - 1 # Minute(s) /\ lastMinute - 1 \in Int
    BY <1>1, <1>3
  <2>2. \A x : Top(lastMinute - 1, x)' <=> Top(lastMinute - 1, x)
    <3>1. PICK m : m = lastMinute - 1
      OBVIOUS
    <3>2. m # Minute(s) /\ m = (lastMinute - 1)'
      BY <1>1, <2>1, <3>1
    <3>3. \A x : Top(m, x)' <=> Top(m, x)
      BY <1>2, <3>2, TopElsewhere
    <3> QED  BY <1>1, <3>1, <3>3 DEF Top
  <2>3. ring'[Slot(lastMinute - 1)] = ring[Slot(lastMinute - 1)]
    <3>1. lastMinute - 1 - Minute(s) < RING /\ Minute(s) - (lastMinute - 1) < RING
      BY <1>1, <1>3
    <3> QED  BY <1>2, <1>7, <2>1, <3>1, SlotTakes
  <2> QED  BY <1>1, <1>6, <2>2, <2>3 DEF RingInv, Prev
<1>10. Minute(s) <= lastMinute /\ Minute(s) \in {lastMinute, lastMinute - 1}
  BY <1>1, <1>3
<1> QED  BY <1>1, <1>2, <1>6, <1>7, <1>8, <1>9, <1>10, InPlaceKeeps

LEMMA PreviousMinuteKeepsRing ==
  ASSUME RingInv, IInv, NEW s, PreviousMinute(s)
  PROVE  RingInv'
<1>1. /\ Started /\ Take(s) /\ Minute(s) = lastMinute - 1
      /\ UNCHANGED <<lastMinute, evaluatedMinute, lastSeqCur>>
  BY DEF PreviousMinute, Minute
<1>2. /\ Once' /\ s \in Unseen /\ s \in DOMAIN made
      /\ Unseen' = Unseen \ {s} /\ Seen' = Seen \cup {s}
      /\ UNCHANGED <<clock, made, unstored, verdict, lagged>>
  BY <1>1, TakeSees
<1>3. /\ lastMinute \in Int /\ evaluatedMinute \in Int /\ RING \in Nat /\ RING >= 2
      /\ s \in Nat /\ \A y \in Seen : y \in Nat
  BY <1>2, Numbers DEF Seen
<1>4. \A x : Minute(x)' = Minute(x)
  BY <1>2, SameTrades
<1>5. \/ /\ lastSeqPrev = None \/ s > lastSeqPrev
         /\ Write(s, lastSeqPrev) /\ lastSeqPrev' = s
      \/ /\ ~(lastSeqPrev = None \/ s > lastSeqPrev)
         /\ ring' = ring /\ lastSeqPrev' = lastSeqPrev /\ spoiled' = spoiled
  BY DEF PreviousMinute
<1>6. spoiled \subseteq spoiled' /\ spoiled' \subseteq spoiled \cup {Minute(s)}
  BY <1>5, WriteMeans
<1>7. ring' = ring \/ ring' = [ring EXCEPT ![Slot(Minute(s))] = made[s].price]
  BY <1>5, WriteMeans
<1>8. Cur'
  <2> SUFFICES ASSUME lastMinute > evaluatedMinute, lastMinute \notin spoiled'
               PROVE  \E x \in DOMAIN made : /\ Top(lastMinute, x)' /\ lastSeqCur \in {None, x}
                                             /\ ring'[Slot(lastMinute)] = made[x].price
    BY <1>1, <1>2 DEF Cur, Started, Slot
  <2>1. lastMinute # Minute(s)
    BY <1>1, <1>3
  <2>2. \A x : Top(lastMinute, x)' <=> Top(lastMinute, x)
    <3>1. PICK m : m = lastMinute
      OBVIOUS
    <3>2. \A x : Top(m, x)' <=> Top(m, x)
      BY <1>2, <2>1, <3>1, TopElsewhere
    <3> QED  BY <1>1, <3>1, <3>2 DEF Top
  <2>3. ring'[Slot(lastMinute)] = ring[Slot(lastMinute)]
    <3>1. lastMinute - Minute(s) < RING /\ Minute(s) - lastMinute < RING
      BY <1>1, <1>3
    <3> QED  BY <1>2, <1>3, <1>7, <2>1, <3>1, SlotTakes
  <2> QED  BY <1>1, <1>6, <2>2, <2>3 DEF RingInv, Cur
<1>9. Prev'
  <2> SUFFICES ASSUME Minute(s) > evaluatedMinute, Minute(s) \notin spoiled'
               PROVE  /\ \A x \in DOMAIN made :
                           Top(Minute(s), x)' => ring'[Slot(Minute(s))] = made[x].price
                      /\ lastSeqPrev' # None => Top(Minute(s), lastSeqPrev)'
    BY <1>1, <1>2, <1>4 DEF Prev, Started, Slot, Top
  <2>1. /\ \A x \in DOMAIN made : Top(Minute(s), x) => ring[Slot(Minute(s))] = made[x].price
        /\ lastSeqPrev # None => Top(Minute(s), lastSeqPrev)
    BY <1>1, <1>6 DEF RingInv, Prev
  <2>2. CASE lastSeqPrev = None \/ s > lastSeqPrev
    <3>1. Write(s, lastSeqPrev) /\ lastSeqPrev' = s
      BY <1>5, <2>2
    <3>2. \A y \in Seen : Minute(y) = Minute(s) => y <= s
      <4>1. CASE lastSeqPrev = None
        <5>1. \A y \in Seen : Minute(y) = Minute(s) => ~(y > s)
          BY <3>1, <4>1, WriteMeans
        <5> QED  BY <1>3, <5>1
      <4>2. CASE lastSeqPrev # None
        <5>1. /\ lastSeqPrev \in Seen /\ lastSeqPrev < s
              /\ \A y \in Seen : Minute(y) = Minute(s) => y <= lastSeqPrev
          BY <2>1, <2>2, <4>2 DEF Top
        <5> QED  BY <1>3, <5>1
      <4> QED  BY <4>1, <4>2
    <3>3. \A y \in Seen' : Minute(y) = Minute(s) => y <= s
      BY <1>2, <1>3, <3>2
    <3>4. Top(Minute(s), s)'
      BY <1>2, <1>4, <3>3 DEF Top
    <3>5. ring'[Slot(Minute(s))] = made[s].price
      BY <1>2, <3>1, WriteMeans, SlotTakes
    <3>6. ASSUME NEW x \in DOMAIN made, Top(Minute(s), x)' PROVE x = s
      <4>1. x \in Seen' /\ Minute(x) = Minute(s) /\ s <= x
        BY <1>2, <1>4, <3>6 DEF Top
      <4>2. x \in Nat /\ x <= s
        BY <3>3, <4>1, Numbers
      <4> QED  BY <1>3, <4>1, <4>2
    <3> QED  BY <3>1, <3>4, <3>5, <3>6
  <2>3. CASE ~(lastSeqPrev = None \/ s > lastSeqPrev)
    <3>1. ring' = ring /\ lastSeqPrev' = lastSeqPrev /\ Top(Minute(s), lastSeqPrev)
      BY <1>5, <2>1, <2>3
    <3>2. /\ lastSeqPrev \in Seen /\ Minute(lastSeqPrev) = Minute(s) /\ lastSeqPrev \in Nat
          /\ \A y \in Seen : Minute(y) = Minute(s) => y <= lastSeqPrev
      BY <1>3, <3>1 DEF Top
    <3>3. s <= lastSeqPrev
      BY <1>3, <2>3, <3>2
    <3>4. \A y \in Seen' : Minute(y) = Minute(s) => y <= lastSeqPrev
      BY <1>2, <3>2, <3>3
    <3>5. Top(Minute(s), lastSeqPrev)'
      BY <1>2, <1>4, <3>1, <3>2, <3>4 DEF Top
    <3>6. ASSUME NEW x \in DOMAIN made, Top(Minute(s), x)' PROVE x = lastSeqPrev
      <4>1. x \in Seen' /\ Minute(x) = Minute(s) /\ lastSeqPrev <= x
        BY <1>2, <1>4, <3>2, <3>6 DEF Top
      <4>2. x \in Nat /\ x <= lastSeqPrev
        BY <3>4, <4>1, Numbers
      <4> QED  BY <3>2, <4>1, <4>2
    <3> QED  BY <2>1, <3>1, <3>5, <3>6
  <2> QED  BY <2>2, <2>3
<1>10. Minute(s) <= lastMinute /\ Minute(s) \in {lastMinute, lastMinute - 1}
  BY <1>1, <1>3
<1> QED  BY <1>1, <1>2, <1>6, <1>7, <1>8, <1>9, <1>10, InPlaceKeeps

-----------------------------------------------------------------------------
(* Trades that open a minute *)

\* The first trade opens the first minute that is judged.
LEMMA FirstTradeKeepsRing ==
  ASSUME RingInv, IInv, NEW s, FirstTrade(s)
  PROVE  RingInv'
<1>1. /\ ~Started /\ Take(s) /\ Write(s, None)
      /\ lastMinute' = Minute(s) /\ evaluatedMinute' = Minute(s) - 1
      /\ lastSeqCur' = lastSeqCur /\ lastSeqPrev' = lastSeqPrev
  BY DEF FirstTrade, Minute
<1>2. /\ Once' /\ s \in Unseen /\ s \in DOMAIN made
      /\ Unseen' = Unseen \ {s} /\ Seen' = Seen \cup {s}
      /\ UNCHANGED <<clock, made, unstored, verdict, lagged>>
  BY <1>1, TakeSees
<1>3. /\ Minute(s) \in Nat /\ clock \in Nat /\ Minute(s) <= clock /\ s \in Nat
      /\ lastMinute = -1
  BY <1>1, <1>2, Numbers DEF RingInv, Clocked
<1>4. /\ \A x : Minute(x)' = Minute(x)
      /\ \A k, x : CloseTrade(k, x)' <=> CloseTrade(k, x)
  BY <1>2, SameTrades
<1>5. DOMAIN verdict = {} /\ First' = Minute(s)
  <2>1. evaluatedMinute = -1
    BY <1>1 DEF IInv, Shape, None
  <2>2. DOMAIN verdict = {}
    <3>1. \A k \in DOMAIN verdict : k \in Nat /\ k <= evaluatedMinute
      BY Numbers
    <3>2. \A k \in DOMAIN verdict : FALSE
      BY <2>1, <3>1
    <3> QED  BY <3>2
  <2>3. First' = evaluatedMinute' + 1
    BY <1>2, <2>2 DEF First
  <2> QED  BY <1>1, <1>3, <2>2, <2>3
<1>6. /\ spoiled \subseteq spoiled' /\ spoiled' \subseteq spoiled \cup {Minute(s)}
      /\ ring'[Slot(Minute(s))] = made[s].price
  BY <1>1, <1>2, WriteMeans, SlotTakes
<1>7. Started'
  BY <1>1, <1>3 DEF Started, None
<1>8. \A y \in Seen : Minute(y) \in spoiled
  BY <1>1 DEF RingInv, Ahead
<1>9. Clocked'
  <2>1. \A x \in DOMAIN made : Minute(x)' <= clock
    BY <1>4 DEF RingInv, Clocked
  <2>2. evaluatedMinute' < clock /\ evaluatedMinute' <= lastMinute'
    BY <1>1, <1>3
  <2> QED  BY <1>1, <1>2, <1>4, <1>7, <2>1, <2>2 DEF Clocked
<1>10. Ahead'
  <2>1. Minute(s) <= lastMinute'
    BY <1>1, <1>3
  <2> QED  BY <1>2, <1>4, <1>6, <1>7, <1>8, <2>1 DEF Ahead
<1>11. Due'
  <2> SUFFICES ASSUME NEW x \in Unseen', First' <= Minute(x), Minute(x) <= evaluatedMinute'
               PROVE  FALSE
    BY <1>4 DEF Due
  <2>1. Minute(x) \in Nat
    BY <1>2, Numbers
  <2> QED  BY <1>1, <1>3, <1>5, <2>1
<1>12. Minute(s) \notin spoiled' => \A y \in Seen' : Minute(y) = Minute(s) => y = s
  BY <1>2, <1>6, <1>8
<1>13. Cur'
  <2> SUFFICES ASSUME Minute(s) \notin spoiled'
               PROVE  \E x \in DOMAIN made : /\ Top(Minute(s), x)' /\ lastSeqCur' \in {None, x}
                                             /\ ring'[Slot(Minute(s))] = made[x].price
    BY <1>1, <1>2, <1>4, <1>7 DEF Cur, Slot, Top
  <2>1. Top(Minute(s), s)'
    BY <1>2, <1>3, <1>4, <1>12 DEF Top
  <2>2. lastSeqCur' = None
    BY <1>1 DEF RingInv, Clocked
  <2> QED  BY <1>2, <1>6, <2>1, <2>2
<1>14. Prev'
  <2>1. ~(lastMinute' - 1 > evaluatedMinute')
    BY <1>1, <1>3
  <2> QED  BY <2>1 DEF Prev
<1>15. Held'
  <2> SUFFICES ASSUME NEW k \in First'..lastMinute',
                      NEW x \in DOMAIN made, CloseTrade(k, x), Whole(Minute(x))'
               PROVE  ring'[Slot(k)] = made[x].price
    BY <1>2, <1>4 DEF Held, Slot
  <2>1. k = Minute(s)
    BY <1>1, <1>3, <1>5
  <2>2. Minute(x) = Minute(s)
    <3>1. Minute(x) <= Minute(s) /\ (Minute(s) < Minute(x) \/ Minute(s) = Minute(x))
      BY <1>2, <1>3, <2>1 DEF CloseTrade
    <3>2. Minute(x) \in Nat
      BY Numbers
    <3> QED  BY <1>3, <3>1, <3>2
  <2>3. Minute(s) \notin spoiled' /\ x \in Seen'
    BY <1>2, <1>4, <2>2 DEF Whole, Seen
  <2> QED  BY <1>6, <1>12, <2>1, <2>2, <2>3
<1>16. VerdictOf'
  BY <1>2, <1>5 DEF VerdictOf
<1> QED  BY <1>2, <1>9, <1>10, <1>11, <1>13, <1>14, <1>15, <1>16 DEF RingInv

\* A later minute: the slots of the silent minutes take the last close, which is
\* the close of every one of them, and the new slot takes the price.
LEMMA NewMinuteSlots ==
  ASSUME IInv, NEW s \in DOMAIN made, Started, Minute(s) > lastMinute, NewMinute(s)
  PROVE  /\ ring'[Slot(Minute(s))] = made[s].price
         /\ \A k \in Int : k > Minute(s) - RING /\ k < Minute(s) =>
              ring'[Slot(k)] = IF k > lastMinute THEN ring[Slot(lastMinute)] ELSE ring[Slot(k)]
<1> DEFINE m == Minute(s)
           R == Max({lastMinute + 1, m - RING + 1})..(m - 1)
           filled == {Slot(k) : k \in R}
<1>1. ring' = [i \in DOMAIN ring |-> IF i = Slot(m) THEN made[s].price
                 ELSE IF i \in filled THEN ring[Slot(lastMinute)] ELSE ring[i]]
  BY DEF NewMinute, Minute
<1>2. m \in Int /\ lastMinute \in Int /\ RING \in Nat
  BY Numbers
<1>3. \A i \in Int : Slot(i) \in DOMAIN ring
  BY SlotIn, Numbers
<1>4. /\ Max({lastMinute + 1, m - RING + 1}) \in {lastMinute + 1, m - RING + 1}
      /\ Max({lastMinute + 1, m - RING + 1}) >= lastMinute + 1
      /\ Max({lastMinute + 1, m - RING + 1}) >= m - RING + 1
  <2>1. lastMinute + 1 \in Int /\ m - RING + 1 \in Int
    BY <1>2
  <2> HIDE DEF m
  <2> QED  BY <2>1, MaxOfTwo
<1> HIDE DEF m
<1>5. PICK b : b = Max({lastMinute + 1, m - RING + 1})
  OBVIOUS
<1>6. b \in Int /\ (b = lastMinute + 1 \/ b = m - RING + 1) /\ b >= lastMinute + 1 /\ b >= m - RING + 1
  BY <1>2, <1>4, <1>5
<1>7. R = b..(m - 1)
  BY <1>5
<1> HIDE DEF R
<1>8. ASSUME NEW k \in Int, k > m - RING, k < m
      PROVE  ring'[Slot(k)] = IF k > lastMinute THEN ring[Slot(lastMinute)] ELSE ring[Slot(k)]
  <2>1. Slot(k) # Slot(m)
    BY <1>2, <1>8, SlotsDiffer
  <2>2. CASE k > lastMinute
    <3>1. k \in R
      BY <1>2, <1>6, <1>7, <1>8, <2>2
    <3>2. Slot(k) \in filled
      BY <3>1
    <3> HIDE DEF filled
    <3> QED  BY <1>1, <1>3, <1>8, <2>1, <2>2, <3>2
  <2>3. CASE ~(k > lastMinute)
    <3>1. ASSUME NEW f \in R PROVE Slot(f) # Slot(k)
      <4>1. f \in Int /\ f # k /\ f - k < RING /\ k - f < RING
        BY <1>2, <1>6, <1>7, <1>8, <2>3
      <4> QED  BY <1>8, <4>1, SlotsDiffer
    <3>2. Slot(k) \notin filled
      BY <3>1
    <3> HIDE DEF filled
    <3> QED  BY <1>1, <1>3, <1>8, <2>1, <2>3, <3>2
  <2> QED  BY <2>2, <2>3
<1>9. ring'[Slot(m)] = made[s].price
  <2> HIDE DEF filled
  <2> QED  BY <1>1, <1>2, <1>3
<1> QED  BY <1>8, <1>9 DEF m

LEMMA NewMinuteKeepsRing ==
  ASSUME RingInv, IInv, NEW s, NewMinute(s)
  PROVE  RingInv'
<1>1. /\ Started /\ Take(s) /\ Minute(s) > lastMinute
      /\ lastMinute' = Minute(s) /\ lastSeqCur' = s
      /\ lastSeqPrev' = IF Minute(s) = lastMinute + 1 THEN lastSeqCur ELSE None
      /\ evaluatedMinute' = evaluatedMinute /\ spoiled' = spoiled
  BY DEF NewMinute, Minute
<1>2. /\ Once' /\ s \in Unseen /\ s \in DOMAIN made
      /\ Unseen' = Unseen \ {s} /\ Seen' = Seen \cup {s}
      /\ UNCHANGED <<clock, made, unstored, verdict, lagged>>
  BY <1>1, TakeSees
<1>3. /\ lastMinute \in Int /\ evaluatedMinute \in Int /\ RING \in Nat /\ RING >= 2
      /\ s \in Nat /\ Minute(s) \in Nat /\ evaluatedMinute <= lastMinute
  BY <1>1, <1>2, Numbers DEF RingInv, Clocked
<1>4. /\ \A x : Minute(x)' = Minute(x)
      /\ \A k, x : CloseTrade(k, x)' <=> CloseTrade(k, x)
  BY <1>2, SameTrades
<1>5. First' = First /\ First \in Nat
  BY <1>1, <1>2, SameFirst, FirstIs
<1>6. /\ ring'[Slot(Minute(s))] = made[s].price
      /\ \A k \in Int : k > Minute(s) - RING /\ k < Minute(s) =>
           ring'[Slot(k)] = IF k > lastMinute THEN ring[Slot(lastMinute)] ELSE ring[Slot(k)]
  BY <1>1, <1>2, NewMinuteSlots
<1>7. Started'
  BY <1>1, <1>3 DEF Started, None
<1>8. \A y \in Seen : Minute(y) \notin spoiled => Minute(y) \in Nat /\ Minute(y) <= lastMinute
  BY Numbers DEF RingInv, Ahead, Seen
<1>9. Clocked'
  <2>1. \A x \in DOMAIN made : Minute(x)' <= clock
    BY <1>4 DEF RingInv, Clocked
  <2>2. evaluatedMinute' < clock /\ evaluatedMinute' <= lastMinute'
    BY <1>1, <1>3 DEF RingInv, Clocked
  <2> QED  BY <1>1, <1>2, <1>4, <1>7, <2>1, <2>2 DEF Clocked
<1>10. Ahead'
  <2>1. \A x \in Seen : Minute(x) \in spoiled \/ Minute(x) <= lastMinute'
    BY <1>1, <1>3, <1>8 
  <2>2. Minute(s) <= lastMinute'
    BY <1>1, <1>3
  <2> QED  BY <1>1, <1>2, <1>4, <1>7, <2>1, <2>2 DEF Ahead
<1>11. Due'
  BY <1>1, <1>2, <1>4, <1>5 DEF RingInv, Due
<1>12. \A y \in Seen' : Minute(y) \notin spoiled /\ Minute(y) > lastMinute => y = s
  BY <1>2, <1>3, <1>8
<1>13. Cur'
  <2> SUFFICES ASSUME Minute(s) \notin spoiled
               PROVE  \E x \in DOMAIN made : /\ Top(Minute(s), x)' /\ lastSeqCur' \in {None, x}
                                             /\ ring'[Slot(Minute(s))] = made[x].price
    BY <1>1, <1>2, <1>4, <1>7 DEF Cur, Slot, Top
  <2>1. \A y \in Seen' : Minute(y) = Minute(s) => y = s
    BY <1>1, <1>12
  <2>2. Top(Minute(s), s)'
    BY <1>2, <1>3, <1>4, <2>1 DEF Top
  <2> QED  BY <1>1, <1>2, <1>6, <2>2
<1>14. Prev'
  <2>1. PICK m \in Int : m = Minute(s) - 1
    BY <1>3
  <2>2. m = (lastMinute - 1)' /\ m # Minute(s)
    BY <1>1, <1>3, <2>1
  <2>3. \A x : Top(m, x)' <=> Top(m, x)
    BY <1>2, <2>2, TopElsewhere
  <2>6. PICK p : p = lastSeqPrev'
    OBVIOUS
  <2> SUFFICES ASSUME m > evaluatedMinute, m \notin spoiled
               PROVE  /\ \A x \in DOMAIN made : Top(m, x)' => ring'[Slot(m)] = made[x].price
                      /\ p # None => Top(m, p)'
    <3>1. (\A x \in DOMAIN made : Top(m, x)' => ring'[Slot(m)] = made[x].price)
          => (\A x \in DOMAIN made : Top(lastMinute - 1, x) => ring[Slot(lastMinute - 1)] = made[x].price)'
      BY <1>2, <2>2 DEF Top, Slot
    <3>2. (p # None => Top(m, p)')
          => (lastSeqPrev # None => Top(lastMinute - 1, lastSeqPrev))'
      BY <2>2, <2>6 DEF Top
    <3> QED  BY <1>1, <2>2, <3>1, <3>2 DEF Prev
  <2>4. CASE m = lastMinute
    <3>1. PICK x \in DOMAIN made : /\ Top(lastMinute, x) /\ lastSeqCur \in {None, x}
                                   /\ ring[Slot(lastMinute)] = made[x].price
      BY <1>1, <2>4 DEF RingInv, Cur
    <3>2. ring'[Slot(m)] = ring[Slot(m)]
      BY <1>3, <1>6, <2>1, <2>4
    <3>3. lastSeqPrev' = lastSeqCur
      BY <1>1, <1>3, <2>1, <2>4
    <3>4. ASSUME NEW z \in DOMAIN made, Top(m, z)' PROVE z = x
      <4>1. Top(m, z) /\ Top(m, x)
        BY <2>3, <2>4, <3>1, <3>4
      <4> QED  BY <4>1, TopUnique
    <3>5. Top(m, x)'
      BY <2>3, <2>4, <3>1
    <3>6. p # None => p = x
      BY <2>6, <3>1, <3>3
    <3> QED  BY <2>4, <3>1, <3>2, <3>4, <3>5, <3>6
  <2>5. CASE m # lastMinute
    <3>1. p = None
      BY <1>1, <1>3, <2>1, <2>5, <2>6
    <3>2. m > lastMinute
      BY <1>1, <1>3, <2>1, <2>5
    <3>3. ASSUME NEW x \in DOMAIN made, Top(m, x) PROVE FALSE
      <4>1. x \in Seen /\ Minute(x) = m
        BY <3>3 DEF Top
      <4> QED  BY <1>3, <1>8, <3>2, <4>1
    <3> QED  BY <2>3, <3>1, <3>3
  <2> QED  BY <2>4, <2>5
<1>15. Held'
  <2> SUFFICES ASSUME NEW k \in First..Minute(s), k > Minute(s) - RING,
                      NEW x \in DOMAIN made, CloseTrade(k, x), Whole(Minute(x))'
               PROVE  ring'[Slot(k)] = made[x].price
    BY <1>1, <1>2, <1>4, <1>5 DEF Held, Slot
  <2>1. k \in Int /\ Minute(x) \in Nat /\ x \in Nat /\ Minute(x) <= k
    BY <1>3, <1>5, Numbers DEF CloseTrade
  <2>2. /\ Minute(x) >= First /\ Minute(x) \notin spoiled
        /\ \A y \in Unseen' : Minute(y) # Minute(x)
    BY <1>1, <1>4, <1>5 DEF Whole
  <2>3. x \in Seen'
    BY <2>2, <1>2 DEF Seen
  <2>4. CASE k = Minute(s)
    <3>1. Minute(x) = Minute(s)
      <4>1. Minute(s) < Minute(x) \/ Minute(s) = Minute(x)
        BY <1>2, <1>3, <2>4 DEF CloseTrade
      <4> QED  BY <1>3, <2>1, <2>4, <4>1
    <3>2. x = s
      BY <1>1, <1>12, <2>2, <2>3, <3>1
    <3> QED  BY <1>6, <2>4, <3>2
  <2>5. CASE k # Minute(s)
    <3>1. k < Minute(s) /\ Minute(x) # Minute(s)
      BY <1>3, <1>5, <2>1, <2>5
    <3>2. Whole(Minute(x))
      BY <1>2, <2>2, <3>1 DEF Whole
    <3>3. ring'[Slot(k)] = IF k > lastMinute THEN ring[Slot(lastMinute)] ELSE ring[Slot(k)]
      BY <1>6, <2>1, <3>1
    <3>4. CASE k > lastMinute
      <4>1. Minute(x) <= lastMinute
        BY <1>2, <1>8, <2>2, <2>3, <3>1
      <4>2. CloseTrade(lastMinute, x)
        <5>1. ASSUME NEW y \in DOMAIN made, Minute(y) <= lastMinute PROVE Minute(y) <= k
          BY <1>3, <2>1, <3>4, <5>1, Numbers
        <5> QED  BY <4>1, <5>1 DEF CloseTrade
      <4>3. lastMinute \in First..lastMinute /\ lastMinute > lastMinute - RING
        BY <1>3, <1>5, <2>1, <2>2, <4>1
      <4>4. ring[Slot(lastMinute)] = made[x].price
        BY <1>1, <3>2, <4>2, <4>3 DEF RingInv, Held
      <4> QED  BY <3>3, <3>4, <4>4
    <3>5. CASE ~(k > lastMinute)
      <4>1. k \in First..lastMinute /\ k > lastMinute - RING
        BY <1>1, <1>3, <1>5, <2>1, <3>5
      <4>2. ring[Slot(k)] = made[x].price
        BY <1>1, <3>2, <4>1 DEF RingInv, Held
      <4> QED  BY <3>3, <3>5, <4>2
    <3> QED  BY <3>4, <3>5
  <2> QED  BY <2>4, <2>5
<1>16. VerdictOf'
  BY <1>1, <1>2, <1>5, VerdictOfKept DEF RingInv
<1> QED  BY <1>2, <1>9, <1>10, <1>11, <1>13, <1>14, <1>15, <1>16 DEF RingInv

-----------------------------------------------------------------------------
(* Closing minutes *)

\* Closing minutes fills the slots behind the last minute with its close.
LEMMA CloseMinutesSlots ==
  ASSUME IInv, NEW target \in Int, Started, CloseMinutes(target)
  PROVE  /\ lastMinute' = IF target > lastMinute THEN target ELSE lastMinute
         /\ \A k \in Int : k > lastMinute' - RING /\ k <= lastMinute' =>
              ring'[Slot(k)] = IF k > lastMinute THEN ring[Slot(lastMinute)] ELSE ring[Slot(k)]
<1> DEFINE filled == {Slot(k) : k \in (lastMinute + 1)..target}
<1>1. ring' = [i \in DOMAIN ring |-> IF i \in filled THEN ring[Slot(lastMinute)] ELSE ring[i]]
  BY DEF CloseMinutes
<1>2. lastMinute \in Int /\ RING \in Nat
  BY Numbers
<1>3. \A i \in Int : Slot(i) \in DOMAIN ring
  BY SlotIn, Numbers
<1>4. lastMinute' = IF target > lastMinute THEN target ELSE lastMinute
  <2>1. lastMinute' = Max({lastMinute, target})
    BY DEF CloseMinutes
  <2>2. /\ Max({lastMinute, target}) \in {lastMinute, target}
        /\ Max({lastMinute, target}) >= lastMinute /\ Max({lastMinute, target}) >= target
    BY <1>2, MaxOfTwo
  <2> QED  BY <1>2, <2>1, <2>2
<1>5. ASSUME NEW k \in Int, k > lastMinute' - RING, k <= lastMinute'
      PROVE  ring'[Slot(k)] = IF k > lastMinute THEN ring[Slot(lastMinute)] ELSE ring[Slot(k)]
  <2>1. CASE k > lastMinute
    <3>1. k \in (lastMinute + 1)..target
      BY <1>2, <1>4, <1>5, <2>1
    <3>2. Slot(k) \in filled
      BY <3>1
    <3> HIDE DEF filled
    <3> QED  BY <1>1, <1>3, <1>5, <2>1, <3>2
  <2>2. CASE ~(k > lastMinute)
    <3>1. ASSUME NEW f \in (lastMinute + 1)..target PROVE Slot(f) # Slot(k)
      <4>1. f \in Int /\ f # k /\ f - k < RING /\ k - f < RING
        BY <1>2, <1>4, <1>5, <2>2
      <4> QED  BY <1>5, <4>1, SlotsDiffer
    <3>2. Slot(k) \notin filled
      BY <3>1
    <3> HIDE DEF filled
    <3> QED  BY <1>1, <1>3, <1>5, <2>2, <3>2
  <2> QED  BY <2>1, <2>2
<1> QED  BY <1>4, <1>5

\* What the loop reads for a minute whose source was taken whole.
LEMMA CloseIs ==
  ASSUME RingInv, IInv, Started, NEW j \in Int, j >= First, j > lastMinute - RING,
         NEW x \in DOMAIN made, CloseTrade(j, x), Whole(Minute(x)), Minute(x) <= lastMinute
  PROVE  Close(j) = made[x].price
<1>1. /\ lastMinute \in Int /\ RING \in Nat /\ RING >= 2 /\ Minute(x) \in Nat /\ First \in Nat
      /\ Minute(x) >= First
  BY Numbers, FirstIs DEF Whole
<1>2. CASE j > lastMinute
  <2>1. CloseTrade(lastMinute, x)
    <3>1. ASSUME NEW y \in DOMAIN made, Minute(y) <= lastMinute PROVE Minute(y) <= j
      BY <1>1, <1>2, <3>1, Numbers
    <3> QED  BY <3>1 DEF CloseTrade
  <2>2. lastMinute \in First..lastMinute /\ lastMinute > lastMinute - RING
    BY <1>1
  <2>3. ring[Slot(lastMinute)] = made[x].price
    BY <2>1, <2>2 DEF RingInv, Held
  <2> QED  BY <1>2, <2>3 DEF Close
<1>3. CASE ~(j > lastMinute)
  <2>1. j \in First..lastMinute
    BY <1>1, <1>3
  <2>2. ring[Slot(j)] = made[x].price
    BY <2>1 DEF RingInv, Held
  <2> QED  BY <1>3, <2>2 DEF Close
<1> QED  BY <1>2, <1>3

\* A judged minute with a close and a reference gets their level.
LEMMA LevelAfterIs ==
  ASSUME NEW from \in Nat, NEW k \in Nat, from <= k, Close(k) # NaN, Ref(k) # NaN
  PROVE  LevelAfter(from, k) = LevelOf(Close(k), Ref(k))
<1> DEFINE J == {j \in from..k : Close(j) # NaN /\ Ref(j) # NaN}
<1>1. k \in J
  OBVIOUS
<1>2. J \subseteq 0..k /\ \A j \in J : j <= k /\ j \in Nat
  OBVIOUS
<1>3. LevelAfter(from, k) = IF J = {} THEN level ELSE LevelOf(Close(Max(J)), Ref(Max(J)))
  BY DEF LevelAfter
<1> HIDE DEF J
<1>4. Max(J) \in J /\ Max(J) >= k
  BY <1>1, <1>2, MaxInSet
<1>5. Max(J) = k
  <2>1. PICK z : z = Max(J)
    OBVIOUS
  <2>2. z \in Nat /\ z <= k /\ z >= k
    BY <1>2, <1>4, <2>1
  <2> QED  BY <2>1, <2>2
<1> QED  BY <1>1, <1>3, <1>5

LEMMA CloseMinutesKeepsRing ==
  ASSUME RingInv, IInv, NEW target \in timers, CloseMinutes(target)
  PROVE  RingInv'
<1> DEFINE from == Max({evaluatedMinute + 1, target - RING + 1})
           judged == from..target
<1>1. /\ target \in Nat /\ target < clock /\ target > evaluatedMinute
      /\ evaluatedMinute' = target
      /\ spoiled' = spoiled \cup ({made[s].minute : s \in Unseen} \cap 0..target)
      /\ lagged' = lagged \cup {k \in judged : lastMinute - k >= RING - LOOKBACK}
      /\ UNCHANGED <<clock, made, unstored, queue, lastSeqCur, lastSeqPrev>>
  BY Constants DEF IInv, TypeOK, CloseMinutes, Fire, FreshTimer, market
<1>2. /\ DOMAIN verdict' = DOMAIN verdict \cup judged
      /\ \A k \in DOMAIN verdict' : verdict'[k] = IF k \in judged THEN LevelAfter(from, k) ELSE verdict[k]
  BY DEF CloseMinutes
<1>3. /\ evaluatedMinute \in Int /\ evaluatedMinute >= -1 /\ lastMinute \in Int
      /\ RING \in Nat /\ RING >= 2 /\ LOOKBACK \in Nat /\ LOOKBACK < RING
  BY Numbers
<1>4. Started /\ evaluatedMinute <= lastMinute
  BY DEF IInv, Shape, RingInv, Clocked
<1>5. from \in Nat /\ from <= target /\ from > evaluatedMinute
  <2>1. evaluatedMinute + 1 \in Int /\ target - RING + 1 \in Int
    BY <1>1, <1>3
  <2>2. from \in {evaluatedMinute + 1, target - RING + 1} /\ from >= evaluatedMinute + 1
    BY <2>1, MaxOfTwo
  <2> HIDE DEF from
  <2> QED  BY <1>1, <1>3, <2>1, <2>2
<1>6. /\ lastMinute' = IF target > lastMinute THEN target ELSE lastMinute
      /\ \A k \in Int : k > lastMinute' - RING /\ k <= lastMinute' =>
           ring'[Slot(k)] = IF k > lastMinute THEN ring[Slot(lastMinute)] ELSE ring[Slot(k)]
  BY <1>1, <1>4, CloseMinutesSlots
<1>7. \A k \in judged : k \in Nat /\ k > evaluatedMinute /\ k <= target /\ k >= from
  <2> HIDE DEF from
  <2> QED  BY <1>1, <1>3, <1>5
<1> HIDE DEF from, judged
<1>8. /\ \A x : Minute(x)' = Minute(x)
      /\ \A k, x : CloseTrade(k, x)' <=> CloseTrade(k, x)
  BY <1>1, SameTrades
<1>9. Unseen' = Unseen /\ Seen' = Seen
  BY <1>1 DEF Unseen, Seen
<1>10. First \in Nat /\ First' \in Nat /\ First' >= First
  <2>1. First \in Nat /\ First <= evaluatedMinute + 1 /\ \A k \in DOMAIN verdict : First <= k
    BY FirstIs
  <2>2. DOMAIN verdict' \subseteq Nat
    BY <1>2, <1>7, Numbers
  <2>3. target \in judged
    BY <1>1, <1>5 DEF judged
  <2>4. DOMAIN verdict' # {} /\ First' = Min(DOMAIN verdict')
    BY <1>2, <2>3 DEF First, FirstJudged
  <2>5. First' \in DOMAIN verdict'
    BY <2>2, <2>4, LeastIs
  <2>6. First' \in DOMAIN verdict \cup judged
    BY <1>2, <2>5
  <2> QED  BY <1>3, <1>7, <2>1, <2>2, <2>5, <2>6
<1>11. \A x \in Unseen : Minute(x) <= target => Minute(x) \in spoiled'
  <2>1. ASSUME NEW x \in Unseen, Minute(x) <= target PROVE Minute(x) \in spoiled'
    <3>1. Minute(x) \in 0..target
      BY <1>1, <2>1, Numbers
    <3> QED  BY <1>1, <3>1 DEF Minute
  <2> QED  BY <2>1
<1>12. spoiled \subseteq spoiled'
  BY <1>1
\* Behind the target, what is not spoiled was taken before the last minute ended.
<1>13. ASSUME NEW x \in DOMAIN made, Minute(x) <= target, Minute(x) \notin spoiled'
       PROVE  Minute(x) <= lastMinute /\ \A y \in Unseen : Minute(y) # Minute(x)
  <2>1. \A y \in Unseen : Minute(y) # Minute(x)
    BY <1>11, <1>13
  <2>2. x \in Seen
    BY <2>1 DEF Seen
  <2> QED  BY <1>12, <1>13, <2>1, <2>2 DEF RingInv, Ahead
<1>14. Started'
  BY <1>1, <1>3, <1>4, <1>6, Numbers DEF Started, None
<1>15. Clocked'
  <2>1. \A x \in DOMAIN made : Minute(x)' <= clock
    BY <1>8 DEF RingInv, Clocked
  <2>2. evaluatedMinute' < clock /\ evaluatedMinute' <= lastMinute'
    BY <1>1, <1>3, <1>6
  <2>3. lastMinute' > evaluatedMinute' => \E x \in DOMAIN made : Minute(x) = lastMinute'
    <3>1. lastMinute' > evaluatedMinute' => lastMinute' = lastMinute /\ lastMinute > evaluatedMinute
      BY <1>1, <1>3, <1>6
    <3> QED  BY <1>4, <3>1 DEF RingInv, Clocked
  <2> QED  BY <1>1, <1>8, <1>14, <2>1, <2>2, <2>3 DEF Clocked
<1>16. Once'
  BY <1>1 DEF RingInv, Once
<1>17. Ahead'
  <2>1. \A x \in Seen : Minute(x) \in spoiled \/ Minute(x) <= lastMinute'
    <3> SUFFICES ASSUME NEW x \in Seen, Minute(x) \notin spoiled PROVE Minute(x) <= lastMinute'
      OBVIOUS
    <3>1. Minute(x) <= lastMinute /\ Minute(x) \in Nat
      BY Numbers DEF RingInv, Ahead, Seen
    <3> QED  BY <1>1, <1>3, <1>6, <3>1
  <2> QED  BY <1>8, <1>9, <1>12, <1>14, <2>1 DEF Ahead
<1>18. Due'
  BY <1>1, <1>8, <1>9, <1>11 DEF Due
<1>19. \A m, x : Top(m, x)' <=> Top(m, x)
  <2> SUFFICES ASSUME NEW m, NEW x PROVE Top(m, x)' <=> Top(m, x)
    OBVIOUS
  <2> QED  BY <1>8, <1>9 DEF Top
<1>20. Cur'
  <2> SUFFICES ASSUME lastMinute' > target, lastMinute' \notin spoiled'
               PROVE  \E x \in DOMAIN made : /\ Top(lastMinute', x) /\ lastSeqCur \in {None, x}
                                             /\ ring'[Slot(lastMinute')] = made[x].price
    <3>1. (\E x \in DOMAIN made : /\ Top(lastMinute', x) /\ lastSeqCur \in {None, x}
                                  /\ ring'[Slot(lastMinute')] = made[x].price)
          => (\E x \in DOMAIN made : /\ Top(lastMinute, x) /\ lastSeqCur \in {None, x}
                                     /\ ring[Slot(lastMinute)] = made[x].price)'
      BY <1>1, <1>8, <1>9 DEF Top, Slot
    <3> QED  BY <1>1, <3>1 DEF Cur
  <2>1. lastMinute' = lastMinute /\ lastMinute > evaluatedMinute
    BY <1>1, <1>3, <1>6
  <2>2. ring'[Slot(lastMinute)] = ring[Slot(lastMinute)]
    BY <1>3, <1>6, <2>1
  <2> QED  BY <1>4, <1>12, <2>1, <2>2 DEF RingInv, Cur
<1>21. Prev'
  <2>1. PICK m \in Int : m = lastMinute' - 1
    BY <1>1, <1>3, <1>6
  <2> SUFFICES ASSUME m > target, m \notin spoiled'
               PROVE  /\ \A x \in DOMAIN made : Top(m, x) => ring'[Slot(m)] = made[x].price
                      /\ lastSeqPrev # None => Top(m, lastSeqPrev)
    <3>1. (\A x \in DOMAIN made : Top(m, x) => ring'[Slot(m)] = made[x].price)
          => (\A x \in DOMAIN made : Top(lastMinute - 1, x) => ring[Slot(lastMinute - 1)] = made[x].price)'
      BY <1>1, <1>8, <1>9, <2>1 DEF Top, Slot
    <3>2. (lastSeqPrev # None => Top(m, lastSeqPrev))
          => (lastSeqPrev # None => Top(lastMinute - 1, lastSeqPrev))'
      BY <1>1, <1>8, <1>9, <2>1 DEF Top
    <3> QED  BY <1>1, <2>1, <3>1, <3>2 DEF Prev
  <2>2. lastMinute' = lastMinute /\ m = lastMinute - 1 /\ m > evaluatedMinute
    BY <1>1, <1>3, <1>6, <2>1
  <2>3. ring'[Slot(m)] = ring[Slot(m)]
    BY <1>3, <1>6, <2>1, <2>2
  <2> QED  BY <1>4, <1>12, <2>2, <2>3 DEF RingInv, Prev
<1>22. Held'
  <2> SUFFICES ASSUME NEW k \in First'..lastMinute', k > lastMinute' - RING,
                      NEW x \in DOMAIN made, CloseTrade(k, x), Whole(Minute(x))'
               PROVE  ring'[Slot(k)] = made[x].price
    BY <1>1, <1>8 DEF Held, Slot
  <2>1. /\ k \in Int /\ Minute(x) \in Nat /\ Minute(x) <= k /\ lastMinute' \in Int
    BY <1>1, <1>3, <1>6, <1>10, Numbers DEF CloseTrade
  <2>2. /\ Minute(x) >= First' /\ Minute(x) \notin spoiled'
        /\ \A y \in Unseen : Minute(y) # Minute(x)
    BY <1>8, <1>9 DEF Whole
  <2>3. Whole(Minute(x))
    BY <1>10, <1>12, <2>1, <2>2 DEF Whole
  <2>4. ring'[Slot(k)] = IF k > lastMinute THEN ring[Slot(lastMinute)] ELSE ring[Slot(k)]
    BY <1>6, <2>1
  <2>5. Minute(x) <= lastMinute
    <3>1. CASE target > lastMinute
      <4>1. Minute(x) <= target
        BY <1>1, <1>6, <2>1, <3>1
      <4> QED  BY <1>13, <2>2, <4>1
    <3>2. CASE ~(target > lastMinute)
      BY <1>3, <1>6, <2>1, <3>2
    <3> QED  BY <3>1, <3>2
  <2>6. k >= First /\ k > lastMinute - RING
    BY <1>1, <1>3, <1>6, <1>10, <2>1
  <2>7. Close(k) = made[x].price
    BY <1>4, <2>1, <2>3, <2>5, <2>6, CloseIs
  <2> QED  BY <2>4, <2>7 DEF Close
<1>23. VerdictOf'
  <2> SUFFICES ASSUME NEW k \in DOMAIN verdict' \ lagged', k - LOOKBACK >= First',
                      NEW x \in DOMAIN made, NEW y \in DOMAIN made,
                      CloseTrade(k, x), Minute(x) >= First', Minute(x) \notin spoiled',
                      CloseTrade(k - LOOKBACK, y), Minute(y) >= First', Minute(y) \notin spoiled'
               PROVE  verdict'[k] = LevelOf(made[x].price, made[y].price)
    BY <1>1, <1>8 DEF VerdictOf, LevelOf
  <2>1. /\ Minute(x) \in Nat /\ Minute(y) \in Nat /\ Minute(x) >= First /\ Minute(y) >= First
    BY <1>10, Numbers
  <2>2. CASE k \in judged
    <3>1. k \in Nat /\ k <= target /\ k >= from
      BY <1>7, <2>2
    <3>2. lastMinute - k < RING - LOOKBACK
      BY <1>1, <1>3, <2>2, <3>1
    <3>3. k - LOOKBACK \in Int /\ k - LOOKBACK <= target
      BY <1>1, <1>3, <3>1
    <3>4. Minute(x) <= k /\ Minute(y) <= k - LOOKBACK
      BY DEF CloseTrade
    <3>5. Minute(x) <= target /\ Minute(y) <= target
      BY <1>1, <2>1, <3>1, <3>3, <3>4
    <3>6. /\ Minute(x) <= lastMinute /\ Minute(y) <= lastMinute
          /\ Whole(Minute(x)) /\ Whole(Minute(y))
      BY <1>12, <1>13, <2>1, <3>5 DEF Whole
    <3>7. /\ k - LOOKBACK >= First /\ k >= First
          /\ k - LOOKBACK > lastMinute - RING /\ k > lastMinute - RING
      BY <1>3, <1>10, <3>1, <3>2
    <3>8. Close(k) = made[x].price
      BY <1>4, <3>1, <3>6, <3>7, CloseIs
    <3>9. Ref(k) = made[y].price
      BY <1>4, <3>3, <3>6, <3>7, CloseIs DEF Ref
    <3>10. made[x].price # NaN /\ made[y].price # NaN
      BY Numbers
    <3>11. LevelAfter(from, k) = LevelOf(Close(k), Ref(k))
      BY <1>5, <3>1, <3>8, <3>9, <3>10, LevelAfterIs
    <3> QED  BY <1>2, <2>2, <3>8, <3>9, <3>11
  <2>3. CASE k \notin judged
    <3>1. k \in DOMAIN verdict \ lagged /\ verdict'[k] = verdict[k]
      BY <1>1, <1>2, <2>3
    <3>2. k - LOOKBACK >= First
      BY <1>3, <1>10, <3>1, Numbers
    <3> QED  BY <1>12, <2>1, <3>1, <3>2 DEF RingInv, VerdictOf
  <2> QED  BY <2>2, <2>3
<1> QED  BY <1>15, <1>16, <1>17, <1>18, <1>20, <1>21, <1>22, <1>23 DEF RingInv

LEMMA StaleTimerKeepsRing ==
  ASSUME RingInv, IInv, NEW target \in timers, StaleTimer(target)
  PROVE  RingInv'
<1>1. /\ UNCHANGED <<made, ring, lastMinute, evaluatedMinute, lastSeqCur, lastSeqPrev,
                     verdict, spoiled, lagged>>
      /\ UNCHANGED <<clock, unstored, queue>>
  BY DEF StaleTimer, Fire, market
<1>2. Unseen' = Unseen /\ Once' /\ clock' \in Nat /\ clock' >= clock
  BY <1>1, Numbers DEF Unseen, Once, RingInv
<1> QED  BY <1>1, <1>2, QuietKeeps

-----------------------------------------------------------------------------
(* Verdicts *)

LEMMA RingInvInit == Init => RingInv
<1> SUFFICES ASSUME Init PROVE RingInv
  OBVIOUS
<1>1. /\ made = << >> /\ unstored = {} /\ queue = << >> /\ clock = 0 /\ lastMinute = -1
      /\ evaluatedMinute = -1 /\ lastSeqCur = None /\ DOMAIN verdict = {} /\ ~Started
  BY DEF Init, None, Started
<1>2. DOMAIN made = {} /\ Len(queue) = 0 /\ DOMAIN queue = {}
  BY <1>1
<1>3. Unseen = {} /\ Seen = {}
  BY <1>1, <1>2 DEF Unseen, Seen, ToSet
<1>4. Clocked /\ Once
  BY <1>1, <1>2 DEF Clocked, Once
<1>5. Ahead /\ Due
  BY <1>3 DEF Ahead, Due
<1>6. Cur /\ Prev /\ Held
  BY <1>1 DEF Cur, Prev, Held
<1>7. VerdictOf
  BY <1>1 DEF VerdictOf
<1> QED  BY <1>4, <1>5, <1>6, <1>7 DEF RingInv

LEMMA RingInvNext ==
  ASSUME RingInv, IInv, [Next]_vars
  PROVE  RingInv'
<1>1. CASE UNCHANGED vars
  <2>1. Unseen' = Unseen /\ Once' /\ clock' \in Nat /\ clock' >= clock
    BY <1>1, Numbers DEF vars, Unseen, Once, RingInv
  <2> QED  BY <1>1, <2>1, QuietKeeps DEF vars
<1>2. CASE NextMinute
  <2>1. UNCHANGED <<made, ring, lastMinute, evaluatedMinute, lastSeqCur, lastSeqPrev,
                    verdict, spoiled, lagged, unstored, queue>> /\ clock' = clock + 1
    BY <1>2 DEF NextMinute, state
  <2>2. Unseen' = Unseen /\ Once' /\ clock' \in Nat /\ clock' >= clock
    BY <2>1, Numbers DEF Unseen, Once, RingInv
  <2> QED  BY <2>1, <2>2, QuietKeeps
<1>3. CASE \E p \in Prices : Trade(p)
  BY <1>3, TradeKeepsRing
<1>4. CASE \E s \in unstored, late \in BOOLEAN : Insert(s, late)
  BY <1>4, InsertKeepsRing
<1>5. ASSUME NEW s \in Unseen, Process(s) PROVE RingInv'
  BY <1>5, SkipLateKeepsRing, FirstTradeKeepsRing, NewMinuteKeepsRing, SameMinuteKeepsRing,
     PreviousMinuteKeepsRing, IgnoreKeepsRing DEF Process
<1>6. ASSUME NEW target \in timers, Timer(target) PROVE RingInv'
  BY <1>6, StaleTimerKeepsRing, CloseMinutesKeepsRing DEF Timer
<1> QED  BY <1>1, <1>2, <1>3, <1>4, <1>5, <1>6 DEF Next, Run

LEMMA RingInductive == Spec => []RingInv
<1>1. Init => RingInv
  BY RingInvInit
<1>2. RingInv /\ IInv /\ [Next]_vars => RingInv'
  BY RingInvNext
<1> QED  BY <1>1, <1>2, Inductive, PTL DEF Spec

\* The trade that makes a close is the one TrueClose takes.
LEMMA TrueCloseIs ==
  ASSUME IInv, NEW k \in Int, Sources(k) # {}
  PROVE  \E x \in DOMAIN made : /\ CloseTrade(k, x) /\ Minute(x) = Max(Sources(k))
                                /\ TrueClose(k) = made[x].price
<1> DEFINE m == Max(Sources(k))
           X == {s \in DOMAIN made : made[s].minute = m}
<1>1. Sources(k) \subseteq 0..MaxMinute /\ MaxMinute \in Nat
  BY Numbers, Constants DEF Sources, Minute, Minutes
<1>2. m \in Sources(k) /\ \A y \in Sources(k) : m >= y
  BY <1>1, MaxInSet
<1> HIDE DEF m
<1>3. PICK n \in Nat : n = Len(made)
  BY Numbers
<1>4. X \subseteq 0..n
  BY <1>3, Numbers
<1>5. X # {}
  BY <1>2 DEF Sources
<1> HIDE DEF X
<1>6. Max(X) \in X /\ \A y \in X : Max(X) >= y
  BY <1>4, <1>5, MaxInSet
<1>7. PICK x : x = Max(X)
  OBVIOUS
<1>8. x \in DOMAIN made /\ Minute(x) = m
  BY <1>6, <1>7 DEF X, Minute
<1>9. Minute(x) <= k
  BY <1>2, <1>8 DEF Sources
<1>10. ASSUME NEW y \in DOMAIN made, Minute(y) <= k
       PROVE  Minute(y) < Minute(x) \/ (Minute(y) = Minute(x) /\ y <= x)
  <2>1. Minute(y) \in Nat /\ Minute(x) \in Nat /\ y \in Nat /\ x \in Nat
    BY <1>8, Numbers
  <2>2. Minute(y) \in Sources(k)
    BY <1>10, <2>1 DEF Sources, Minute
  <2>3. m >= Minute(y)
    BY <1>2, <2>2
  <2>4. CASE Minute(y) = m
    <3>1. y \in X
      BY <2>4 DEF X, Minute
    <3> QED  BY <1>6, <1>7, <1>8, <2>1, <2>4, <3>1
  <2> QED  BY <1>8, <2>1, <2>3, <2>4
<1>11. CloseTrade(k, x)
  BY <1>9, <1>10 DEF CloseTrade
<1>12. TrueClose(k) = made[x].price
  BY <1>7 DEF TrueClose, X, m
<1> QED  BY <1>8, <1>11, <1>12 DEF m

LEMMA RingGivesVerdicts ==
  ASSUME IInv, RingInv
  PROVE  VerdictExact
<1> SUFFICES ASSUME NEW k \in DOMAIN verdict \ lagged, Sound(k), Sound(k - LOOKBACK)
             PROVE  verdict[k] = LevelOf(TrueClose(k), TrueClose(k - LOOKBACK))
  BY DEF VerdictExact, Exact
<1>1. k \in Int /\ k - LOOKBACK \in Int
  BY Numbers
<1>2. First = FirstJudged
  BY DEF First
<1>3. /\ Sources(k) # {} /\ Max(Sources(k)) >= First /\ Max(Sources(k)) \notin spoiled
      /\ k - LOOKBACK >= First /\ Sources(k - LOOKBACK) # {}
      /\ Max(Sources(k - LOOKBACK)) >= First /\ Max(Sources(k - LOOKBACK)) \notin spoiled
  BY <1>2 DEF Sound
<1>4. PICK x \in DOMAIN made : /\ CloseTrade(k, x) /\ Minute(x) = Max(Sources(k))
                               /\ TrueClose(k) = made[x].price
  BY <1>1, <1>3, TrueCloseIs
<1>5. PICK y \in DOMAIN made : /\ CloseTrade(k - LOOKBACK, y)
                               /\ Minute(y) = Max(Sources(k - LOOKBACK))
                               /\ TrueClose(k - LOOKBACK) = made[y].price
  BY <1>1, <1>3, TrueCloseIs
<1> QED  BY <1>3, <1>4, <1>5 DEF RingInv, VerdictOf

\* A verdict is the level of the exchange's own closes, however trades of a
\* minute and of its neighbour arrive, slots are filled and reused and timers are
\* late, for every size of the ring and every number of trades (processElement,
\* onTimer).
THEOREM VerdictsAreExact == Spec => []VerdictExact
<1>1. IInv /\ RingInv => VerdictExact
  BY RingGivesVerdicts
<1> QED  BY <1>1, Inductive, RingInductive, PTL
=============================================================================
