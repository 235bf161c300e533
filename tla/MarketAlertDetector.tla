------------------------ MODULE MarketAlertDetector ------------------------
(***************************************************************************)
(* MarketAlertDetector.java: the PRICE_24H rule for one market (the        *)
(* operator's state is keyed by market).  A minute is closed by a          *)
(* processing-time timer; its close is compared with the close LOOKBACK    *)
(* minutes earlier, both read from a ring of closes.                       *)
(*                                                                         *)
(* Trades are numbered by sequential_id.  They enter the ledger in any     *)
(* order and at any time; from there they reach the operator in the order  *)
(* of insertion (binlog, one Kafka partition), at any later time.  A due   *)
(* timer may fire at any later time too: state is checkpointed exactly     *)
(* once, so a restart of the job is a delay of both.                       *)
(***************************************************************************)
EXTENDS Integers, FiniteSets, SequencesExt

CONSTANTS RING,       \* slots of the ring
          LOOKBACK,   \* distance of the reference minute
          CHAIN,      \* TIMER_CHAIN_MINUTES
          Prices,     \* prices of trades
          MaxMinute,  \* bound: last minute
          MaxTrades   \* bound: trades made

ASSUME DetectorAssumption ==
  /\ RING \in Nat /\ LOOKBACK \in Nat \ {0} /\ LOOKBACK < RING
  /\ CHAIN \in Nat /\ MaxMinute \in Nat /\ MaxTrades \in Nat
  /\ Prices \subseteq Nat \ {0}

VARIABLES clock,    \* the current minute
          made,     \* trades made: made[sequential_id]
          unstored, \* trades that are not in the ledger yet
          queue,    \* rows of the ledger the operator has not read yet
          ring, lastMinute, level, evaluatedMinute, lastTradeMinute,
          lastSeqCur, lastSeqPrev,
          timers,   \* minutes whose close timer is registered
          verdict,  \* history: the level each judged minute was given
          spoiled,  \* history: minutes whose close was taken without a trade
                    \* of theirs, or in the wrong order of trades
          lagged    \* history: minutes judged when the ring had moved past
                    \* their reference minute

market == <<clock, made, unstored>>
state == <<ring, lastMinute, level, evaluatedMinute, lastTradeMinute,
           lastSeqCur, lastSeqPrev, timers>>
vars == <<clock, made, unstored, queue, ring, lastMinute, level, evaluatedMinute,
          lastTradeMinute, lastSeqCur, lastSeqPrev, timers, verdict, spoiled,
          lagged>>

NaN == 0
None == -1

Slot(minute) == minute % RING
Started == lastMinute # None

\* |close / ref - 1| against THRESHOLDS.
LevelOf(close, ref) ==
  LET diff == IF close > ref THEN close - ref ELSE ref - close
  IN  Cardinality({i \in {1, 2, 4} : 2 * diff >= i * ref})

Init ==
  /\ clock = 0 /\ made = << >> /\ unstored = {} /\ queue = << >>
  /\ ring = [i \in 0..(RING - 1) |-> NaN]
  /\ lastMinute = None /\ level = 0 /\ evaluatedMinute = None
  /\ lastTradeMinute = None /\ lastSeqCur = None /\ lastSeqPrev = None
  /\ timers = {} /\ verdict = [k \in {} |-> 0] /\ spoiled = {} /\ lagged = {}

-----------------------------------------------------------------------------
(* The exchange and the ledger *)

Trade(p) ==
  /\ Len(made) < MaxTrades
  /\ made' = Append(made, [minute |-> clock, price |-> p])
  /\ unstored' = unstored \cup {Len(made')}
  /\ UNCHANGED <<clock, queue, state, verdict, spoiled, lagged>>

NextMinute ==
  /\ clock < MaxMinute
  /\ clock' = clock + 1
  /\ UNCHANGED <<made, unstored, queue, state, verdict, spoiled, lagged>>

\* source_timestamp - upbit_timestamp > LATE_EVENT_MS: impossible within the
\* trade's minute, certain from the second minute after it.
Lateness(s) ==
  {late \in BOOLEAN : /\ late => clock > made[s].minute
                      /\ ~late => clock <= made[s].minute + 1}

\* The producer inserts a trade, or a gap fill inserts it later.
Insert(s, late) ==
  /\ s \in unstored
  /\ late \in Lateness(s)
  /\ unstored' = unstored \ {s}
  /\ queue' = Append(queue, [seq |-> s, late |-> late])
  /\ UNCHANGED <<clock, made, state, verdict, spoiled, lagged>>

\* Trades the operator has not seen.
Unseen == unstored \cup {row.seq : row \in ToSet(queue)}

-----------------------------------------------------------------------------
(* processElement; s is the trade of the next row *)

Reads(s, late) ==
  /\ queue # << >>
  /\ Head(queue).seq = s /\ Head(queue).late = late
  /\ queue' = Tail(queue)

\* Rows of a gap fill or a backfill are skipped.
SkipLate(s) ==
  /\ Reads(s, TRUE)
  /\ spoiled' = spoiled \cup {made[s].minute}
  /\ UNCHANGED <<market, state, verdict, lagged>>

\* The tail of every path: the trade's minute and its close timer.
Take(s) ==
  /\ Reads(s, FALSE)
  /\ lastTradeMinute' = made[s].minute
  /\ timers' = timers \cup {made[s].minute}
  /\ UNCHANGED <<market, level, verdict, lagged>>

\* A later trade of the same minute has been seen already.
Overtaken(s) ==
  \E x \in DOMAIN made \ Unseen : x > s /\ made[x].minute = made[s].minute

\* The trade becomes the close of its minute; seen is the sequential_id the
\* operator compared it with.  FirstTrade records none, so an older trade of
\* the first minute can still take the close over.
Write(s, seen) ==
  /\ ring' = [ring EXCEPT ![Slot(made[s].minute)] = made[s].price]
  /\ spoiled' = IF seen = None /\ Overtaken(s)
                THEN spoiled \cup {made[s].minute} ELSE spoiled

\* Faulty variant: judging starts a minute early.
FirstTradeEarly(s) ==
  /\ ~Started
  /\ Take(s) /\ Write(s, None)
  /\ lastMinute' = made[s].minute
  /\ evaluatedMinute' = made[s].minute - 2
  /\ UNCHANGED <<lastSeqCur, lastSeqPrev>>

\* The first trade of the market: judging starts with its minute.
FirstTrade(s) ==
  /\ ~Started
  /\ Take(s) /\ Write(s, None)
  /\ lastMinute' = made[s].minute
  /\ evaluatedMinute' = made[s].minute - 1
  /\ UNCHANGED <<lastSeqCur, lastSeqPrev>>

\* Faulty variant: the filled minutes keep their old slots.
NewMinuteNoFill(s) ==
  LET m == made[s].minute
  IN  /\ Started /\ m > lastMinute
      /\ Take(s) /\ Write(s, s)
      /\ lastSeqPrev' = IF m = lastMinute + 1 THEN lastSeqCur ELSE None
      /\ lastSeqCur' = s
      /\ lastMinute' = m
      /\ UNCHANGED evaluatedMinute

\* A later minute: the empty minutes up to it take the last close.
NewMinute(s) ==
  LET m == made[s].minute
      filled == {Slot(k) : k \in Max({lastMinute + 1, m - RING + 1})..(m - 1)}
  IN  /\ Started /\ m > lastMinute
      /\ Take(s)
      /\ ring' = [i \in DOMAIN ring |->
                    IF i = Slot(m) THEN made[s].price
                    ELSE IF i \in filled THEN ring[Slot(lastMinute)] ELSE ring[i]]
      /\ lastSeqPrev' = IF m = lastMinute + 1 THEN lastSeqCur ELSE None
      /\ lastSeqCur' = s
      /\ lastMinute' = m
      /\ UNCHANGED <<evaluatedMinute, spoiled>>

\* Faulty variant: the last arrival of the minute becomes its close.
SameMinuteArrival(s) ==
  /\ Started /\ made[s].minute = lastMinute
  /\ Take(s) /\ Write(s, lastSeqCur)
  /\ lastSeqCur' = s
  /\ UNCHANGED <<lastMinute, evaluatedMinute, lastSeqPrev>>

\* The last minute: only a trade later in sequential_id moves its close.
SameMinute(s) ==
  /\ Started /\ made[s].minute = lastMinute
  /\ Take(s)
  /\ IF lastSeqCur = None \/ s > lastSeqCur
     THEN Write(s, lastSeqCur) /\ lastSeqCur' = s
     ELSE UNCHANGED <<ring, lastSeqCur, spoiled>>
  /\ UNCHANGED <<lastMinute, evaluatedMinute, lastSeqPrev>>

\* The minute before it, not yet closed: the same rule.
PreviousMinute(s) ==
  /\ Started /\ made[s].minute = lastMinute - 1
  /\ made[s].minute > evaluatedMinute
  /\ Take(s)
  /\ IF lastSeqPrev = None \/ s > lastSeqPrev
     THEN Write(s, lastSeqPrev) /\ lastSeqPrev' = s
     ELSE UNCHANGED <<ring, lastSeqPrev, spoiled>>
  /\ UNCHANGED <<lastMinute, evaluatedMinute, lastSeqCur>>

\* An older or a closed minute: the prices stay as they are.
Ignore(s) ==
  /\ Started /\ made[s].minute < lastMinute
  /\ made[s].minute < lastMinute - 1 \/ made[s].minute <= evaluatedMinute
  /\ Take(s)
  /\ spoiled' = spoiled \cup {made[s].minute}
  /\ UNCHANGED <<ring, lastMinute, evaluatedMinute, lastSeqCur, lastSeqPrev>>

Process(s) ==
  \/ SkipLate(s) \/ FirstTrade(s) \/ NewMinute(s) \/ SameMinute(s)
  \/ PreviousMinute(s) \/ Ignore(s)

-----------------------------------------------------------------------------
(* onTimer *)

\* What the loop reads for minute k: a slot of the ring, where minutes after
\* lastMinute have been filled with its close.
Close(k) == ring[Slot(IF k > lastMinute THEN lastMinute ELSE k)]
Ref(k) == Close(k - LOOKBACK)

\* The level after the loop has passed minute k of from..target: minutes
\* without a close or a reference leave it alone.
LevelAfter(from, k) ==
  LET judged == {j \in from..k : Close(j) # NaN /\ Ref(j) # NaN}
  IN  IF judged = {} THEN level ELSE LevelOf(Close(Max(judged)), Ref(Max(judged)))

Fire(target) ==
  /\ target \in timers /\ target < clock
  /\ \A t \in timers : target <= t
  /\ UNCHANGED <<market, queue, lastTradeMinute, lastSeqCur, lastSeqPrev>>

\* The minute is closed already; the chain of timers is not continued here.
StaleTimer(target) ==
  /\ Fire(target)
  /\ target <= evaluatedMinute
  /\ timers' = timers \ {target}
  /\ UNCHANGED <<ring, lastMinute, level, evaluatedMinute, verdict, spoiled, lagged>>

\* Faulty variant: the chain does not look past the timer's own minute.
NoChain(target) == {}
\* The next link of the chain, as long as the last trade is recent enough.
NextTimer(target) == IF target - lastTradeMinute < CHAIN THEN {target + 1} ELSE {}

\* Faulty variant of the guard of CloseMinutes.
AnyTimer(target) == TRUE
FreshTimer(target) == target > evaluatedMinute

CloseMinutes(target) ==
  LET from == Max({evaluatedMinute + 1, target - RING + 1})
      judged == from..target
  IN  /\ Fire(target)
      /\ FreshTimer(target)
      /\ ring' = [i \in DOMAIN ring |->
                    IF i \in {Slot(k) : k \in (lastMinute + 1)..target}
                    THEN ring[Slot(lastMinute)] ELSE ring[i]]
      /\ lastMinute' = Max({lastMinute, target})
      /\ level' = LevelAfter(from, target)
      /\ evaluatedMinute' = target
      /\ timers' = (timers \ {target}) \cup NextTimer(target)
      /\ verdict' = [k \in DOMAIN verdict \cup judged |->
                       IF k \in judged THEN LevelAfter(from, k) ELSE verdict[k]]
      /\ spoiled' = spoiled \cup ({made[s].minute : s \in Unseen} \cap 0..target)
      /\ lagged' = lagged \cup {k \in judged : lastMinute - k >= RING - LOOKBACK}

Timer(target) == StaleTimer(target) \/ CloseMinutes(target)

-----------------------------------------------------------------------------
\* Time passes, the source is read, due timers fire.
Run ==
  \/ NextMinute
  \/ \E s \in Unseen : Process(s)
  \/ \E target \in timers : Timer(target)

Next ==
  \/ Run
  \/ \E p \in Prices : Trade(p)
  \/ \E s \in unstored, late \in BOOLEAN : Insert(s, late)

Spec == Init /\ [][Next]_vars

\* Nothing of that stops for good; no order among the three is promised.
FairSpec == Spec /\ WF_vars(Run)

-----------------------------------------------------------------------------
(* Properties *)

Minutes == 0..MaxMinute
Seqs == {None} \cup 1..MaxTrades

\* Types of all variables.
TypeOK ==
  /\ clock \in Minutes
  /\ made \in Seq([minute : Minutes, price : Prices]) /\ Len(made) <= MaxTrades
  /\ unstored \subseteq DOMAIN made
  /\ queue \in Seq([seq : DOMAIN made, late : BOOLEAN])
  /\ ring \in [0..(RING - 1) -> Prices \cup {NaN}]
  /\ lastMinute \in Minutes \cup {None} /\ level \in 0..3
  /\ evaluatedMinute \in Minutes \cup {None}
  /\ lastTradeMinute \in Minutes \cup {None}
  /\ lastSeqCur \in Seqs /\ lastSeqPrev \in Seqs
  /\ timers \subseteq 0..(MaxMinute + 1)
  /\ DOMAIN verdict \subseteq Minutes /\ \A k \in DOMAIN verdict : verdict[k] \in 0..3
  /\ spoiled \subseteq Minutes /\ lagged \subseteq Minutes

\* The minute whose trades make the close of minute k, by the exchange.
Sources(k) == {made[s].minute : s \in DOMAIN made} \cap 0..k
TrueClose(k) ==
  made[Max({s \in DOMAIN made : made[s].minute = Max(Sources(k))})].price

FirstJudged == Min(DOMAIN verdict)

\* Minute k has a close that was complete when it was taken.
Sound(k) ==
  /\ k >= FirstJudged /\ Sources(k) # {}
  /\ Max(Sources(k)) >= FirstJudged /\ Max(Sources(k)) \notin spoiled

Exact(k) ==
  Sound(k) /\ Sound(k - LOOKBACK)
    => verdict[k] = LevelOf(TrueClose(k), TrueClose(k - LOOKBACK))

\* Reordering within a minute or across its end, forward fills, late timers
\* and the reuse of slots do not change the verdict: it is the level of the
\* exchange's own closes, unless a trade came after its minute was closed or
\* the ring had moved past the reference (processElement, onTimer).
VerdictExact == \A k \in DOMAIN verdict \ lagged : Exact(k)

\* The documented rule: minutes without a trade are filled forward and judged
\* in the same way, so a verdict is exact however long the market was silent.
SilentMinutesJudgedAlike == \A k \in DOMAIN verdict : Exact(k)

\* No minute is judged twice, so no transition is reported twice: the last
\* judged minute never goes back and verdicts stand (onTimer).
JudgedOnce ==
  [][/\ evaluatedMinute' >= evaluatedMinute
     /\ \A k \in DOMAIN verdict : verdict'[k] = verdict[k]]_vars

\* An open minute in which a trade was seen gets its verdict, and so do the
\* silent minutes within CHAIN of it, without waiting for the next trade: no
\* order of late trades and timers breaks the chain of close timers.
SilenceIsJudged ==
  \A k \in Minutes :
    (lastTradeMinute = k /\ evaluatedMinute < k /\ k < MaxMinute)
      ~> (evaluatedMinute >= Min({k + CHAIN - 1, MaxMinute - 1}))
=============================================================================
