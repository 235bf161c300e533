------------------------------ MODULE DepthBook ------------------------------
(***************************************************************************)
(* The Binance depth path for one symbol: the exchange, the depth          *)
(* collector (binance-collector/collector.py in MODE=depth), the Kafka     *)
(* partition of topic binance.depth.v1 and the Flink operator              *)
(* OrderBookReconstructor with its checkpoints.                            *)
(*                                                                         *)
(* One side of the book: apply() treats bids and asks alike.  Level 1 is   *)
(* the best price.  A quantity of 0 means "no such level".                 *)
(***************************************************************************)
EXTENDS Naturals, Sequences, FiniteSets

CONSTANTS NumLevels,   \* number of price levels
          Qty,         \* non-zero quantities
          SnapLimit,   \* DEPTH_SNAPSHOT_LIMIT: levels in a REST snapshot
          TopN,        \* TOP_N: levels in an emitted row
          MaxUpdates,  \* bound: exchange update ids
          MaxLost,     \* bound: update ids lost between exchange and Kafka
          MaxRestarts, \* bound: restarts of the Flink job
          QueueCap     \* bound: messages kept since the last checkpoint

ASSUME DepthAssumption ==
  /\ NumLevels \in Nat /\ SnapLimit \in Nat /\ TopN \in Nat
  /\ Qty \subseteq Nat \ {0}
  /\ MaxUpdates \in Nat /\ MaxLost \in Nat /\ MaxRestarts \in Nat
  /\ QueueCap \in Nat

Levels == 1..NumLevels
Books == [Levels -> Qty \cup {0}]
Ids == 0..MaxUpdates
EmptyBook == [l \in Levels |-> 0]

VARIABLES hist,     \* hist[i]: exchange book at update id i (i <= head)
          head,     \* last update id of the exchange
          wsPos,    \* last update id the WS stream has passed to the collector
          rest,     \* REST snapshots answered but not yet produced (0 or 1 id)
          lost,     \* update ids that never reached Kafka
          queue,    \* Kafka messages from the last checkpoint's offset on
          off,      \* how many of them the operator has processed
          st,       \* keyed state of the operator
          ckpt,     \* that state in the last completed checkpoint
          restarts, \* restarts of the Flink job so far
          out       \* last row emitted for the symbol

exchange == <<hist, head>>
collector == <<wsPos, rest, lost>>
flink == <<st, ckpt, restarts, out>>
vars == <<hist, head, wsPos, rest, lost, queue, off, st, ckpt, restarts, out>>

-----------------------------------------------------------------------------
(* Helpers *)

\* Levels with fewer than n live levels better than themselves.
Within(book, n) ==
  {l \in Levels : Cardinality({k \in Levels : k < l /\ book[k] > 0}) < n}

\* The n best live levels: what a depth snapshot or an emitted row lists.
Best(book, n) == {l \in Within(book, n) : book[l] > 0}

\* Levels that the updates a..u touched: not constant since update a - 1.
Touched(a, u) == {l \in Levels : \E i \in (a - 1)..u : hist[i][l] # hist[u][l]}

\* A message; cov is a history field: the levels it tells the truth about.
SnapMsg(i) ==
  [snap |-> TRUE, first |-> i, last |-> i, cov |-> Within(hist[i], SnapLimit),
   lv |-> [l \in Best(hist[i], SnapLimit) |-> hist[i][l]]]

DiffMsg(a, u) ==
  [snap |-> FALSE, first |-> a, last |-> u, cov |-> Touched(a, u),
   lv |-> [l \in Touched(a, u) |-> hist[u][l]]]

\* The state's known field is history too: levels the book is exact about.
NoState == [book |-> EmptyBook, lastId |-> 0, synced |-> FALSE,
            timer |-> FALSE, known |-> {}]

NoRow == [ver |-> 0, cov |-> {}, rows |-> [l \in {} |-> 0]]

Init ==
  /\ hist \in [Ids -> Books]
  /\ \A i \in Ids \ {0} : hist[i] = EmptyBook
  /\ head = 0 /\ wsPos = 0 /\ rest = {} /\ lost = {}
  /\ queue = << >> /\ off = 0
  /\ st = NoState /\ ckpt = NoState /\ restarts = 0
  /\ out = NoRow

-----------------------------------------------------------------------------
(* Exchange and collector *)

\* The matching engine sets level l to q under the next update id.
Update(l, q) ==
  /\ head < MaxUpdates
  /\ q # hist[head][l]
  /\ head' = head + 1
  /\ hist' = [hist EXCEPT ![head'] = [hist[head] EXCEPT ![l] = q]]
  /\ UNCHANGED <<collector, queue, off, flink>>

\* @depth@100ms: one frame carries the updates since the previous frame;
\* the collector produces it under the symbol's key.
StreamDiff(u) ==
  /\ u \in (wsPos + 1)..head
  /\ Len(queue) < QueueCap
  /\ wsPos' = u
  /\ queue' = Append(queue, DiffMsg(wsPos + 1, u))
  /\ UNCHANGED <<exchange, rest, lost, off, flink>>

\* The frame is lost: disconnected, idle connection, BufferError swallowed,
\* or a delivery failure after message.timeout.ms (only counted).
LoseDiff(u) ==
  /\ u \in (wsPos + 1)..head
  /\ Cardinality(lost \cup (wsPos + 1)..u) <= MaxLost
  /\ wsPos' = u
  /\ lost' = lost \cup (wsPos + 1)..u
  /\ UNCHANGED <<exchange, rest, queue, off, flink>>

\* emit_snapshots: the REST call answers with the book of that moment in an
\* executor thread, while the event loop goes on producing WS frames.
FetchSnapshot ==
  /\ rest = {}
  /\ rest' = {head}
  /\ UNCHANGED <<exchange, wsPos, lost, queue, off, flink>>

PublishSnapshot ==
  /\ Len(queue) < QueueCap
  /\ \E i \in rest : queue' = Append(queue, SnapMsg(i))
  /\ rest' = {}
  /\ UNCHANGED <<exchange, wsPos, lost, off, flink>>

\* "snapshot failed": the exception is logged and the symbol is skipped.
FailSnapshot ==
  /\ rest # {}
  /\ rest' = {}
  /\ UNCHANGED <<exchange, wsPos, lost, queue, off, flink>>

-----------------------------------------------------------------------------
(* OrderBookReconstructor.processElement, one disjunct per path.  lastId is
   null exactly as long as synced has never been set, so the code's tests of
   id == null are covered by synced = FALSE. *)

StaleSnapshotNever(m) == FALSE                       \* faulty variant
StaleSnapshot(m) == st.synced /\ m.last < st.lastId
StaleDiff(m) == m.last <= st.lastId
GapByOne(m) == m.first > st.lastId + 2               \* faulty variant
Gap(m) == m.first > st.lastId + 1

\* apply() on a fresh TreeMap, and on the kept one (quantity 0 removes).
SnapshotBookKept(m) ==                               \* faulty variant
  [l \in Levels |-> IF l \in DOMAIN m.lv THEN m.lv[l] ELSE st.book[l]]
SnapshotBook(m) == [l \in Levels |-> IF l \in DOMAIN m.lv THEN m.lv[l] ELSE 0]
DiffBook(m) == [l \in Levels |-> IF l \in DOMAIN m.lv THEN m.lv[l] ELSE st.book[l]]

Consume ==
  /\ off < Len(queue)
  /\ off' = off + 1
  /\ UNCHANGED <<exchange, collector, queue, ckpt, restarts, out>>

Msg == queue[off + 1]

\* Faulty variant: the timer is left to the first diff.
ApplySnapshotNoTimer ==
  /\ Consume
  /\ Msg.snap /\ ~StaleSnapshot(Msg)
  /\ st' = [book |-> SnapshotBook(Msg), lastId |-> Msg.last, synced |-> TRUE,
            timer |-> st.timer, known |-> Msg.cov]

ApplySnapshot ==
  /\ Consume
  /\ Msg.snap /\ ~StaleSnapshot(Msg)
  /\ st' = [book |-> SnapshotBook(Msg), lastId |-> Msg.last, synced |-> TRUE,
            timer |-> TRUE, known |-> Msg.cov]

ApplyDiff ==
  /\ Consume
  /\ ~Msg.snap /\ st.synced /\ ~StaleDiff(Msg) /\ ~Gap(Msg)
  /\ st' = [book |-> DiffBook(Msg), lastId |-> Msg.last, synced |-> TRUE,
            timer |-> TRUE, known |-> st.known \cup Msg.cov]

\* A break in the sequence: the book is no longer shown, nothing is kept.
Desync ==
  /\ Consume
  /\ ~Msg.snap /\ st.synced /\ ~StaleDiff(Msg) /\ Gap(Msg)
  /\ st' = [st EXCEPT !.synced = FALSE]

\* staleDropped and unsyncedDropped.
Drop ==
  /\ Consume
  /\ \/ Msg.snap /\ StaleSnapshot(Msg)
     \/ ~Msg.snap /\ ~st.synced
     \/ ~Msg.snap /\ st.synced /\ StaleDiff(Msg)
  /\ UNCHANGED st

Process == ApplySnapshot \/ ApplyDiff \/ Desync \/ Drop

\* onTimer every EMIT_MS: the best TOP_N levels, only while synced.
EmitRow(s) ==
  [ver |-> s.lastId, cov |-> s.known,
   rows |-> [l \in Best(s.book, TopN) |-> s.book[l]]]

Emit ==
  /\ st.timer /\ st.synced
  /\ out' = EmitRow(st)
  /\ UNCHANGED <<exchange, collector, queue, off, st, ckpt, restarts>>

\* Faulty variant: the offset is not rebased to the checkpoint.
CheckpointKeepsOffset ==
  /\ off > 0
  /\ ckpt' = st
  /\ queue' = SubSeq(queue, off + 1, Len(queue))
  /\ UNCHANGED <<exchange, collector, off, st, restarts, out>>

\* Exactly-once checkpoint: operator state and source offset together.
Checkpoint ==
  /\ off > 0
  /\ ckpt' = st
  /\ queue' = SubSeq(queue, off + 1, Len(queue))
  /\ off' = 0
  /\ UNCHANGED <<exchange, collector, st, restarts, out>>

\* Failure or redeploy from a savepoint: state and offset go back together,
\* rows already written to ClickHouse stay.
Restart ==
  /\ restarts < MaxRestarts
  /\ restarts' = restarts + 1
  /\ st' = ckpt
  /\ off' = 0
  /\ UNCHANGED <<exchange, collector, queue, ckpt, out>>

-----------------------------------------------------------------------------
Next ==
  \/ \E l \in Levels, q \in Qty \cup {0} : Update(l, q)
  \/ \E u \in Ids : StreamDiff(u) \/ LoseDiff(u)
  \/ FetchSnapshot \/ PublishSnapshot \/ FailSnapshot
  \/ Process \/ Emit \/ Checkpoint \/ Restart

Spec == Init /\ [][Next]_vars

\* The collector's loop keeps asking for snapshots and some of them succeed;
\* Flink processes what is in the topic, checkpoints and fires its timers.
Fairness ==
  /\ WF_vars(FetchSnapshot) /\ SF_vars(PublishSnapshot)
  /\ WF_vars(Process) /\ WF_vars(Checkpoint) /\ WF_vars(Emit)

FairSpec == Spec /\ Fairness

-----------------------------------------------------------------------------
(* Properties *)

Messages ==
  [snap : BOOLEAN, first : Ids, last : Ids, cov : SUBSET Levels,
   lv : UNION {[L -> Qty \cup {0}] : L \in SUBSET Levels}]

States ==
  [book : Books, lastId : Ids, synced : BOOLEAN, timer : BOOLEAN,
   known : SUBSET Levels]

\* Types of all variables.
TypeOK ==
  /\ hist \in [Ids -> Books] /\ head \in Ids /\ wsPos \in 0..head
  /\ rest \in SUBSET (0..head) /\ lost \in SUBSET (1..head)
  /\ queue \in Seq(Messages) /\ off \in 0..Len(queue)
  /\ st \in States /\ ckpt \in States
  /\ restarts \in 0..MaxRestarts
  /\ out \in [ver : Ids, cov : SUBSET Levels,
             rows : UNION {[L -> Qty] : L \in SUBSET Levels}]

\* A state that claims to be synced holds the exchange's quantity of its own
\* lastId at every level it knows, and nothing at the others.
Exact(s) ==
  s.synced => \A l \in Levels :
                s.book[l] = IF l \in s.known THEN hist[s.lastId][l] ELSE 0

\* Whatever is lost, overtaken by a snapshot or replayed after a restart, a
\* synced book is a real book of the exchange: no phantom level survives and
\* no known level is stale (OrderBookReconstructor.processElement).
BookExact == Exact(st) /\ Exact(ckpt)

\* An emitted row is the exchange's own top TopN at that update id, provided
\* those levels were inside the last snapshot or touched since; a row never
\* quotes a quantity the exchange did not have (onTimer / toEvent).
RowExact ==
  LET best == Best(hist[out.ver], TopN)
  IN  /\ \A l \in DOMAIN out.rows : out.rows[l] = hist[out.ver][l]
      /\ best \subseteq out.cov => DOMAIN out.rows = best

\* While the operator stays synced and is not restarted, an old snapshot or a
\* late diff never takes the book back (the "ignore old snapshot" guard).
ForwardWhileSynced ==
  [][st.synced /\ st'.synced /\ restarts' = restarts
       => st'.lastId >= st.lastId]_vars

\* The documented recovery: a break in the sequence sends the operator back to
\* desync only if something really was lost, because the next snapshot ends a
\* desync (class comment of OrderBookReconstructor).
SnapshotEndsDesync ==
  [][st.synced /\ ~st'.synced /\ restarts' = restarts
       => \E i \in lost : i > st.lastId]_vars

\* What a reader of the mirror sees.
Shown ==
  IF st.synced
  THEN [on |-> TRUE, ver |-> st.lastId, cov |-> st.known, book |-> st.book]
  ELSE [on |-> FALSE, ver |-> 0, cov |-> {}, book |-> EmptyBook]

Mirror == INSTANCE BookMirror WITH shown <- Shown, era <- restarts

\* The whole path implements the abstract mirror.
ImplementsMirror == Mirror!MirrorSpec

\* Once the exchange pauses and losses and restarts stop, some snapshot brings
\* the book to the exchange's last version and the timer emits it: recovery
\* does not depend on further diffs.
CatchesUp ==
  <>[](st.synced /\ st.lastId = head /\ out.ver = head)
=============================================================================
