--------------------------- MODULE DepthBookProofs ---------------------------
(***************************************************************************)
(* Proofs about DepthBook for all constants: types, exactness of the book  *)
(* and of the rows, no step back while synced, and the implementation of   *)
(* BookMirror.                                                             *)
(*                                                                         *)
(* The inductive invariant adds to BookExact what it rests on: every       *)
(* message still in Kafka tells the truth about the exchange at its own    *)
(* last id (QueueOK), and neither the live nor the checkpointed state is   *)
(* ahead of the exchange (NotAhead).                                       *)
(***************************************************************************)
EXTENDS DepthBook, Maxima, FiniteSetTheorems, TLAPS

\* A message quotes hist[m.last]; what a snapshot covers but does not list is
\* empty there; what a diff does not list has not changed since m.first - 1.
MsgOK(m) ==
  /\ m \in Messages
  /\ m.last <= head /\ m.first <= m.last
  /\ ~m.snap => m.first >= 1
  /\ DOMAIN m.lv \subseteq m.cov
  /\ \A l \in DOMAIN m.lv : m.lv[l] = hist[m.last][l]
  /\ m.snap => \A l \in m.cov : l \notin DOMAIN m.lv => hist[m.last][l] = 0
  /\ ~m.snap =>
       /\ m.cov \subseteq DOMAIN m.lv
       /\ \A l \in Levels \ m.cov, i \in (m.first - 1)..m.last :
            hist[i][l] = hist[m.last][l]

QueueOK == \A i \in 1..Len(queue) : MsgOK(queue[i])

NotAhead == st.lastId <= head /\ ckpt.lastId <= head

IInv == TypeOK /\ QueueOK /\ NotAhead /\ BookExact

-----------------------------------------------------------------------------
\* The messages the collector builds are well formed.
LEMMA SnapMsgOK ==
  ASSUME TypeOK, NEW i \in 0..head
  PROVE  MsgOK(SnapMsg(i))
<1>1. i \in Ids /\ head \in Ids /\ hist[i] \in Books
  BY DepthAssumption DEF TypeOK, Ids
<1>2. Within(hist[i], SnapLimit) \subseteq Levels
  BY DEF Within
<1>3. Best(hist[i], SnapLimit) \subseteq Within(hist[i], SnapLimit)
  BY DEF Best
<1>4. [l \in Best(hist[i], SnapLimit) |-> hist[i][l]]
        \in [Best(hist[i], SnapLimit) -> Qty \cup {0}]
  BY <1>1, <1>2, <1>3 DEF Books
<1>5. SnapMsg(i) \in Messages
  BY <1>1, <1>2, <1>3, <1>4 DEF SnapMsg, Messages
<1>6. \A l \in Within(hist[i], SnapLimit) :
         l \notin Best(hist[i], SnapLimit) => hist[i][l] = 0
  <2>1. \A q \in Qty \cup {0} : q \in Nat
    BY DepthAssumption
  <2>2. \A l \in Levels : hist[i][l] \in Nat
    BY <1>1, <2>1 DEF Books
  <2>3. QED
    BY <1>2, <2>2 DEF Best
<1>7. QED
  BY <1>1, <1>3, <1>5, <1>6, DepthAssumption DEF MsgOK, SnapMsg, Ids

LEMMA DiffMsgOK ==
  ASSUME TypeOK, NEW u \in (wsPos + 1)..head
  PROVE  MsgOK(DiffMsg(wsPos + 1, u))
<1> DEFINE a == wsPos + 1
<1>1. /\ head \in Nat /\ head <= MaxUpdates /\ wsPos \in Nat
      /\ a \in Ids /\ u \in Ids /\ a <= u /\ u <= head /\ a >= 1
      /\ hist[u] \in Books
  BY DepthAssumption DEF TypeOK, Ids
<1>2. Touched(a, u) \subseteq Levels
  BY DEF Touched
<1>3. [l \in Touched(a, u) |-> hist[u][l]] \in [Touched(a, u) -> Qty \cup {0}]
  BY <1>1, <1>2 DEF Books
<1>4. DiffMsg(a, u) \in Messages
  BY <1>1, <1>2, <1>3 DEF DiffMsg, Messages
<1>5. \A l \in Levels \ Touched(a, u), i \in (a - 1)..u : hist[i][l] = hist[u][l]
  BY DEF Touched
<1>6. QED
  BY <1>1, <1>4, <1>5 DEF MsgOK, DiffMsg

\* A message stays true: the exchange never rewrites its past.
LEMMA MsgOKStable ==
  ASSUME TypeOK, NEW m, MsgOK(m),
         head' \in Nat, head' >= head,
         \A i \in 0..head : hist'[i] = hist[i]
  PROVE  MsgOK(m)'
<1>1. /\ m.last \in 0..head /\ m.first \in Nat /\ head \in Nat
  BY DepthAssumption DEF MsgOK, Messages, Ids, TypeOK
<1>2. hist'[m.last] = hist[m.last]
  BY <1>1
<1>3. ~m.snap => \A i \in (m.first - 1)..m.last : i \in 0..head
  BY <1>1 DEF MsgOK
<1>4. QED
  BY <1>1, <1>2, <1>3 DEF MsgOK

-----------------------------------------------------------------------------
\* Appending a well-formed message keeps the queue's type and QueueOK.
LEMMA AppendOK ==
  ASSUME IInv, NEW m, MsgOK(m), queue' = Append(queue, m),
         hist' = hist, head' = head, off' = off
  PROVE  /\ queue' \in Seq(Messages)
         /\ off' \in 0..Len(queue')
         /\ QueueOK'
<1>1. /\ queue \in Seq(Messages) /\ m \in Messages /\ off \in 0..Len(queue)
  BY DEF IInv, TypeOK, MsgOK
<1>2. /\ queue' \in Seq(Messages) /\ Len(queue') = Len(queue) + 1
      /\ \A i \in 1..Len(queue) : queue'[i] = queue[i]
      /\ queue'[Len(queue) + 1] = m
  BY <1>1
<1>3. ASSUME NEW i \in 1..Len(queue') PROVE MsgOK(queue[i])'
  <2>1. CASE i = Len(queue) + 1
    <3>1. queue'[i] = m
      BY <1>2, <2>1
    <3>2. QED
      BY <3>1 DEF MsgOK
  <2>2. CASE i \in 1..Len(queue)
    <3>1. queue'[i] = queue[i] /\ MsgOK(queue[i])
      BY <1>2, <2>2 DEF IInv, QueueOK
    <3>2. QED
      BY <3>1 DEF MsgOK
  <2>3. QED
    BY <1>1, <1>2, <2>1, <2>2
<1>4. QED
  BY <1>1, <1>2, <1>3 DEF QueueOK

\* The message being processed is well formed.
LEMMA MsgFacts ==
  ASSUME IInv, Consume
  PROVE  MsgOK(Msg) /\ off' \in 0..Len(queue)
<1>1. off + 1 \in 1..Len(queue) /\ off' = off + 1 /\ queue \in Seq(Messages)
  BY DEF IInv, TypeOK, Consume
<1>2. QED
  BY <1>1 DEF IInv, QueueOK, Msg

\* Applying a snapshot or the next diff yields an exact state of its version.
LEMMA SnapshotStep ==
  ASSUME IInv, ApplySnapshot
  PROVE  st' \in States /\ st'.lastId <= head /\ Exact(st')
<1>1. MsgOK(Msg) /\ Msg.snap
  BY MsgFacts DEF ApplySnapshot
<1>2. Msg \in Messages /\ Msg.last \in Ids /\ Msg.cov \subseteq Levels
  BY <1>1 DEF MsgOK, Messages
<1>3. \A l \in DOMAIN Msg.lv : Msg.lv[l] \in Qty \cup {0}
  BY <1>2 DEF Messages
<1>4. SnapshotBook(Msg) \in Books
  BY <1>3 DEF SnapshotBook, Books
<1>5. st' \in States
  BY <1>2, <1>4 DEF ApplySnapshot, States
<1>6. \A l \in Levels :
        SnapshotBook(Msg)[l] = IF l \in Msg.cov THEN hist[Msg.last][l] ELSE 0
  BY <1>1 DEF SnapshotBook, MsgOK
<1>7. QED
  BY <1>1, <1>5, <1>6 DEF ApplySnapshot, Exact, MsgOK

LEMMA DiffStep ==
  ASSUME IInv, ApplyDiff
  PROVE  st' \in States /\ st'.lastId <= head /\ Exact(st')
<1>1. MsgOK(Msg) /\ ~Msg.snap /\ st.synced /\ ~StaleDiff(Msg) /\ ~Gap(Msg)
  BY MsgFacts DEF ApplyDiff
<1>2. /\ Msg \in Messages /\ Msg.last \in Ids /\ Msg.first \in Ids
      /\ Msg.cov \subseteq Levels
      /\ st \in States /\ st.lastId \in Ids /\ st.known \subseteq Levels
  BY <1>1 DEF MsgOK, Messages, IInv, TypeOK, States
<1>3. \A l \in DOMAIN Msg.lv : Msg.lv[l] \in Qty \cup {0}
  BY <1>2 DEF Messages
<1>4. DiffBook(Msg) \in Books
  BY <1>2, <1>3 DEF DiffBook, Books, States
<1>5. st' \in States
  BY <1>2, <1>4 DEF ApplyDiff, States
<1>6. st.lastId \in (Msg.first - 1)..Msg.last
  BY <1>1, <1>2, DepthAssumption DEF StaleDiff, Gap, Ids
<1>7. ASSUME NEW l \in Levels
      PROVE  DiffBook(Msg)[l] =
               IF l \in st.known \cup Msg.cov THEN hist[Msg.last][l] ELSE 0
  <2>1. CASE l \in DOMAIN Msg.lv
    BY <1>1, <2>1 DEF DiffBook, MsgOK
  <2>2. CASE l \notin DOMAIN Msg.lv
    <3>1. l \notin Msg.cov /\ hist[st.lastId][l] = hist[Msg.last][l]
      BY <1>1, <1>6, <2>2 DEF MsgOK
    <3>2. st.book[l] = IF l \in st.known THEN hist[st.lastId][l] ELSE 0
      BY <1>1 DEF IInv, BookExact, Exact
    <3>3. QED
      BY <2>2, <3>1, <3>2 DEF DiffBook
  <2>3. QED
    BY <2>1, <2>2
<1>8. QED
  BY <1>1, <1>5, <1>7 DEF ApplyDiff, Exact, MsgOK

-----------------------------------------------------------------------------
\* The exchange moves: nothing below head changes, so nothing becomes false.
LEMMA UpdateStep ==
  ASSUME IInv, NEW l \in Levels, NEW q \in Qty \cup {0}, Update(l, q)
  PROVE  IInv'
<1>1. /\ hist \in [Ids -> Books] /\ head \in Nat /\ head < MaxUpdates
      /\ head' = head + 1 /\ head' \in Ids
      /\ hist' = [hist EXCEPT ![head'] = [hist[head] EXCEPT ![l] = q]]
      /\ UNCHANGED <<wsPos, rest, lost, queue, off, st, ckpt, restarts, out>>
  BY DepthAssumption DEF IInv, TypeOK, Ids, Update, collector, flink
<1>2. head \in Ids /\ hist[head] \in Books
  BY <1>1, DepthAssumption DEF Ids
<1>3. [hist[head] EXCEPT ![l] = q] \in Books
  BY <1>2 DEF Books
<1>4. hist' \in [Ids -> Books]
  BY <1>1, <1>3
<1>5. \A i \in 0..head : hist'[i] = hist[i]
  BY <1>1, DepthAssumption DEF Ids
<1>6. TypeOK'
  BY <1>1, <1>4 DEF IInv, TypeOK, Ids
<1>7. QueueOK'
  <2>1. ASSUME NEW i \in 1..Len(queue) PROVE MsgOK(queue[i])'
    <3>1. MsgOK(queue[i])
      BY DEF IInv, QueueOK
    <3>2. queue'[i] = queue[i] /\ head' \in Nat /\ head' >= head
      BY <1>1
    <3> DEFINE m == queue[i]
    <3>3. /\ m \in Messages /\ m.last \in 0..head /\ m.first \in Nat
          /\ m.first <= m.last /\ (~m.snap => m.first >= 1)
      BY <1>1, <3>1, DepthAssumption DEF MsgOK, Messages, Ids
    <3>4. hist'[m.last] = hist[m.last]
      BY <1>5, <3>3
    <3>5. ~m.snap => \A j \in (m.first - 1)..m.last : hist'[j] = hist[j]
      BY <1>1, <1>5, <3>3
    <3>6. m.last <= head'
      BY <1>1, <3>3
    <3>7. QED
      BY <3>1, <3>2, <3>3, <3>4, <3>5, <3>6 DEF MsgOK
  <2>2. QED
    BY <1>1, <2>1 DEF QueueOK
<1>8. st.lastId \in 0..head /\ ckpt.lastId \in 0..head
  BY <1>1 DEF IInv, NotAhead, TypeOK, States, Ids
<1>9. NotAhead'
  BY <1>1, <1>8 DEF NotAhead
<1>10. BookExact'
  BY <1>1, <1>5, <1>8 DEF IInv, BookExact, Exact
<1>11. QED
  BY <1>6, <1>7, <1>9, <1>10 DEF IInv

\* Sub-sequences: what a checkpoint leaves in the queue.
LEMMA CheckpointStep ==
  ASSUME IInv, Checkpoint
  PROVE  IInv'
<1>1. /\ queue \in Seq(Messages) /\ off \in 1..Len(queue) /\ Len(queue) \in Nat
      /\ queue' = SubSeq(queue, off + 1, Len(queue)) /\ off' = 0 /\ ckpt' = st
      /\ UNCHANGED <<hist, head, wsPos, rest, lost, st, restarts, out>>
  BY DEF IInv, TypeOK, Checkpoint, exchange, collector
<1>2. /\ queue' \in Seq(Messages) /\ Len(queue') = Len(queue) - off
      /\ \A i \in 1..Len(queue') : queue'[i] = queue[off + i]
  BY <1>1
<1>3. off' \in 0..Len(queue')
  BY <1>1, <1>2
<1>4. TypeOK'
  BY <1>1, <1>2, <1>3 DEF IInv, TypeOK
<1>5. ASSUME NEW i \in 1..Len(queue') PROVE MsgOK(queue[i])'
  <2>1. off + i \in 1..Len(queue)
    BY <1>1, <1>2
  <2>2. MsgOK(queue[off + i]) /\ queue'[i] = queue[off + i]
    BY <1>2, <2>1 DEF IInv, QueueOK
  <2>3. QED
    BY <1>1, <2>2 DEF MsgOK
<1>6. QueueOK' /\ NotAhead' /\ BookExact'
  BY <1>1, <1>5 DEF IInv, QueueOK, NotAhead, BookExact, Exact
<1>7. QED
  BY <1>4, <1>6 DEF IInv

\* Processing one message, whichever path it takes.
LEMMA ProcessStep ==
  ASSUME IInv, Process
  PROVE  IInv'
<1>1. /\ Consume
      /\ UNCHANGED <<hist, head, wsPos, rest, lost, queue, ckpt, restarts, out>>
  BY DEF Process, ApplySnapshot, ApplyDiff, Desync, Drop, Consume, exchange, collector
<1>2. off' \in 0..Len(queue)
  BY <1>1, MsgFacts
<1>3. st' \in States /\ st'.lastId <= head /\ Exact(st')
  <2>1. CASE ApplySnapshot
    BY <2>1, SnapshotStep
  <2>2. CASE ApplyDiff
    BY <2>2, DiffStep
  <2>3. CASE Desync
    BY <2>3 DEF Desync, Exact, IInv, TypeOK, States, NotAhead
  <2>4. CASE Drop
    BY <2>4 DEF Drop, IInv, TypeOK, NotAhead, BookExact
  <2>5. QED
    BY <2>1, <2>2, <2>3, <2>4 DEF Process
<1>4. TypeOK'
  BY <1>1, <1>2, <1>3 DEF IInv, TypeOK
<1>5. QueueOK'
  BY <1>1 DEF IInv, QueueOK, MsgOK
<1>6. NotAhead' /\ BookExact'
  BY <1>1, <1>3 DEF IInv, NotAhead, BookExact, Exact
<1>7. QED
  BY <1>4, <1>5, <1>6 DEF IInv

\* A row is made of live levels of the book.
LEMMA EmitStep ==
  ASSUME IInv, Emit
  PROVE  IInv'
<1>1. /\ out' = EmitRow(st)
      /\ UNCHANGED <<hist, head, wsPos, rest, lost, queue, off, st, ckpt, restarts>>
  BY DEF Emit, exchange, collector
<1>2. st.book \in Books /\ st.lastId \in Ids /\ st.known \in SUBSET Levels
  BY DEF IInv, TypeOK, States
<1>3. Best(st.book, TopN) \in SUBSET Levels
  BY DEF Best, Within
<1>4. \A l \in Best(st.book, TopN) : st.book[l] \in Qty
  <2>1. \A l \in Best(st.book, TopN) : st.book[l] > 0 /\ st.book[l] \in Qty \cup {0}
    BY <1>2, <1>3 DEF Best, Books
  <2>2. QED
    BY <2>1, DepthAssumption
<1>5. [l \in Best(st.book, TopN) |-> st.book[l]] \in [Best(st.book, TopN) -> Qty]
  BY <1>4
<1>6. TypeOK'
  BY <1>1, <1>2, <1>3, <1>5 DEF IInv, TypeOK, EmitRow
<1>7. QueueOK' /\ NotAhead' /\ BookExact'
  BY <1>1 DEF IInv, QueueOK, MsgOK, NotAhead, BookExact, Exact
<1>8. QED
  BY <1>6, <1>7 DEF IInv

\* The collector's steps: the queue grows by a well-formed message, or by none.
LEMMA CollectorStep ==
  ASSUME IInv,
         \/ \E u \in Ids : StreamDiff(u) \/ LoseDiff(u)
         \/ FetchSnapshot \/ PublishSnapshot \/ FailSnapshot
  PROVE  IInv'
<1>0. TypeOK /\ head \in Ids /\ head \in Nat /\ wsPos \in 0..head
  BY DepthAssumption DEF IInv, TypeOK, Ids
<1>1. UNCHANGED <<hist, head, off, st, ckpt, restarts, out>>
  BY DEF StreamDiff, LoseDiff, FetchSnapshot, PublishSnapshot, FailSnapshot,
         exchange, flink
<1>2. NotAhead' /\ BookExact'
  BY <1>1 DEF IInv, NotAhead, BookExact, Exact
<1>3. /\ wsPos' \in 0..head /\ rest' \in SUBSET (0..head)
      /\ lost' \in SUBSET (1..head)
  <2>1. ASSUME NEW u \in Ids, StreamDiff(u) \/ LoseDiff(u)
        PROVE  /\ wsPos' \in 0..head /\ rest' \in SUBSET (0..head)
               /\ lost' \in SUBSET (1..head)
    <3>1. u \in (wsPos + 1)..head /\ wsPos' = u /\ rest' = rest
      BY <2>1 DEF StreamDiff, LoseDiff
    <3>2. lost' = lost \/ lost' = lost \cup (wsPos + 1)..u
      BY <2>1 DEF StreamDiff, LoseDiff
    <3>3. lost \subseteq 1..head /\ rest \in SUBSET (0..head)
      BY DEF IInv, TypeOK
    <3>4. (wsPos + 1)..u \subseteq 1..head
      BY <1>0, <3>1
    <3>5. u \in 0..head
      BY <1>0, <3>1
    <3>6. QED
      BY <3>1, <3>2, <3>3, <3>4, <3>5
  <2>2. CASE FetchSnapshot \/ PublishSnapshot \/ FailSnapshot
    <3>1. wsPos' = wsPos /\ lost' = lost /\ rest' \in {{}, {head}}
      BY <2>2 DEF FetchSnapshot, PublishSnapshot, FailSnapshot
    <3>2. head \in 0..head
      BY <1>0
    <3>3. lost \in SUBSET (1..head)
      BY DEF IInv, TypeOK
    <3>4. QED
      BY <1>0, <3>1, <3>2, <3>3
  <2>3. QED
    BY <2>1, <2>2
<1>4. queue' \in Seq(Messages) /\ off' \in 0..Len(queue') /\ QueueOK'
  <2>1. CASE queue' = queue
    BY <1>0, <1>1, <2>1 DEF IInv, TypeOK, QueueOK, MsgOK
  <2>2. ASSUME NEW u \in Ids, StreamDiff(u)
        PROVE  queue' \in Seq(Messages) /\ off' \in 0..Len(queue') /\ QueueOK'
    <3>1. /\ u \in (wsPos + 1)..head
          /\ queue' = Append(queue, DiffMsg(wsPos + 1, u))
      BY <2>2 DEF StreamDiff
    <3>2. MsgOK(DiffMsg(wsPos + 1, u))
      BY <1>0, <3>1, DiffMsgOK
    <3>3. QED
      BY <1>1, <3>1, <3>2, AppendOK
  <2>3. CASE PublishSnapshot
    <3>1. PICK i \in rest : queue' = Append(queue, SnapMsg(i))
      BY <2>3 DEF PublishSnapshot
    <3>2. i \in 0..head
      BY <1>0, <3>1 DEF TypeOK
    <3>3. MsgOK(SnapMsg(i))
      BY <1>0, <3>2, SnapMsgOK
    <3>4. QED
      BY <1>1, <3>1, <3>3, AppendOK
  <2>4. QED
    BY <2>1, <2>2, <2>3 DEF LoseDiff, FetchSnapshot, FailSnapshot
<1>5. TypeOK'
  BY <1>0, <1>1, <1>3, <1>4 DEF TypeOK
<1>6. QED
  BY <1>2, <1>4, <1>5 DEF IInv

-----------------------------------------------------------------------------
LEMMA InitIInv == Init => IInv
<1> SUFFICES ASSUME Init PROVE IInv
  OBVIOUS
<1>1. NoState \in States
  BY DepthAssumption DEF NoState, States, EmptyBook, Books, Ids
<1>2. /\ hist \in [Ids -> Books] /\ head = 0 /\ wsPos = 0 /\ rest = {}
      /\ lost = {} /\ queue = << >> /\ off = 0 /\ st = NoState
      /\ ckpt = NoState /\ restarts = 0 /\ out = NoRow
  BY DEF Init
<1>3. /\ NoRow.ver \in Ids /\ NoRow.cov \in SUBSET Levels
      /\ NoRow.rows \in UNION {[L -> Qty] : L \in SUBSET Levels}
      /\ NoRow = [ver |-> NoRow.ver, cov |-> NoRow.cov, rows |-> NoRow.rows]
  <2>1. [l \in {} |-> 0] \in [{} -> Qty] /\ {} \in SUBSET Levels
    OBVIOUS
  <2>2. [l \in {} |-> 0] \in UNION {[L -> Qty] : L \in SUBSET Levels}
    BY <2>1
  <2>3. 0 \in Ids
    BY DepthAssumption DEF Ids
  <2>4. QED
    BY <2>2, <2>3 DEF NoRow
<1>4. TypeOK
  BY <1>1, <1>2, <1>3, DepthAssumption DEF TypeOK, Ids
<1>5. QueueOK /\ NotAhead /\ BookExact
  BY <1>2 DEF QueueOK, NotAhead, BookExact, Exact, NoState
<1>6. QED
  BY <1>4, <1>5 DEF IInv

LEMMA NextIInv == IInv /\ [Next]_vars => IInv'
<1> SUFFICES ASSUME IInv, [Next]_vars PROVE IInv'
  OBVIOUS
<1>1. CASE \E l \in Levels, q \in Qty \cup {0} : Update(l, q)
  BY <1>1, UpdateStep
<1>2. CASE \/ \E u \in Ids : StreamDiff(u) \/ LoseDiff(u)
           \/ FetchSnapshot \/ PublishSnapshot \/ FailSnapshot
  BY <1>2, CollectorStep
<1>3. CASE Process
  BY <1>3, ProcessStep
<1>4. CASE Emit
  BY <1>4, EmitStep
<1>5. CASE Checkpoint
  BY <1>5, CheckpointStep
<1>6. CASE Restart
  <2>1. /\ restarts < MaxRestarts /\ restarts' = restarts + 1
        /\ st' = ckpt /\ off' = 0
        /\ UNCHANGED <<hist, head, wsPos, rest, lost, queue, ckpt, out>>
    BY <1>6 DEF Restart, exchange, collector
  <2>2. restarts' \in 0..MaxRestarts /\ off' \in 0..Len(queue)
    BY <2>1, DepthAssumption DEF IInv, TypeOK
  <2>3. TypeOK'
    BY <2>1, <2>2 DEF IInv, TypeOK
  <2>4. QueueOK' /\ NotAhead' /\ BookExact'
    BY <2>1 DEF IInv, QueueOK, MsgOK, NotAhead, BookExact, Exact
  <2>5. QED
    BY <2>3, <2>4 DEF IInv
<1>7. CASE UNCHANGED vars
  BY <1>7 DEF vars, IInv, TypeOK, QueueOK, MsgOK, NotAhead, BookExact, Exact
<1>8. QED
  BY <1>1, <1>2, <1>3, <1>4, <1>5, <1>6, <1>7 DEF Next

\* The inductive invariant holds throughout.
THEOREM Invariance == Spec => []IInv
  BY InitIInv, NextIInv, PTL DEF Spec

\* Type correctness of the depth path.
THEOREM TypeCorrect == Spec => []TypeOK
  BY Invariance, PTL DEF IInv

\* A synced book is always an exact book of the exchange, however messages are
\* lost, overtaken or replayed and whatever number of levels, updates, losses
\* and restarts there are.
THEOREM BookIsExact == Spec => []BookExact
  BY Invariance, PTL DEF IInv

-----------------------------------------------------------------------------
(* The emitted row *)

\* The live levels better than l.
Better(book, l) == {k \in Levels : k < l /\ book[k] > 0}

LEMMA BestMeans ==
  ASSUME NEW book, NEW n
  PROVE  Best(book, n) = {l \in Levels : Cardinality(Better(book, l)) < n /\ book[l] > 0}
BY DEF Best, Within, Better

LEMMA BetterIsFinite ==
  ASSUME NEW book, NEW l
  PROVE  IsFiniteSet(Better(book, l)) /\ Cardinality(Better(book, l)) \in Nat
<1>1. IsFiniteSet(Levels)
  <2>1. \A m \in Nat : IsFiniteSet(1..m)
    BY FS_Interval
  <2> QED  BY <2>1, DepthAssumption DEF Levels
<1>2. Better(book, l) \subseteq Levels
  BY DEF Better
<1> QED  BY <1>1, <1>2, FS_Subset, FS_CardinalityType

\* A book that is right where it is known and empty elsewhere has the same best
\* levels as the true one if these are known: a level that counts in one of them
\* only would be unknown, and the first such level among the best.
LEMMA SameBest ==
  ASSUME NEW book, NEW true, NEW known, NEW n \in Nat,
         \A l \in Levels : true[l] \in Nat,
         \A l \in Levels : book[l] = IF l \in known THEN true[l] ELSE 0,
         Best(true, n) \subseteq known
  PROVE  Best(book, n) = Best(true, n)
<1>1. \A l : Better(book, l) \subseteq Better(true, l)
  BY DEF Better
<1>2. \A l : Cardinality(Better(book, l)) <= Cardinality(Better(true, l))
  BY <1>1, BetterIsFinite, FS_Subset
<1>3. \A l : /\ IsFiniteSet(Better(book, l)) /\ Cardinality(Better(book, l)) \in Nat
             /\ IsFiniteSet(Better(true, l)) /\ Cardinality(Better(true, l)) \in Nat
  BY BetterIsFinite
<1>4. ASSUME NEW l \in Best(true, n) PROVE l \in Best(book, n)
  <2>1. l \in Levels /\ Cardinality(Better(true, l)) < n /\ true[l] > 0 /\ l \in known
    BY BestMeans
  <2>2. book[l] > 0
    BY <2>1
  <2>3. Cardinality(Better(book, l)) < n
    BY <1>2, <1>3, <2>1
  <2> QED  BY <2>1, <2>2, <2>3, BestMeans
<1>5. ASSUME NEW l \in Best(book, n) PROVE l \in Best(true, n)
  <2>1. l \in Levels /\ Cardinality(Better(book, l)) < n /\ book[l] > 0
    BY BestMeans
  <2>2. true[l] > 0
    BY <2>1
  <2>3. CASE Better(true, l) = Better(book, l)
    BY <2>1, <2>2, <2>3, BestMeans
  <2>4. CASE Better(true, l) # Better(book, l)
    <3> DEFINE S == Better(true, l) \ Better(book, l)
    <3>1. S # {} /\ S \in SUBSET Nat
      <4>1. Better(true, l) \subseteq Nat
        BY DEF Better, Levels
      <4> QED  BY <1>1, <2>4, <4>1
    <3>2. PICK k \in S : \A j \in S : k <= j
      <4> HIDE DEF S
      <4> QED  BY <3>1, LeastInSet
    <3>3. k \in Levels /\ k < l /\ true[k] > 0 /\ ~(book[k] > 0) /\ k \in Nat /\ l \in Nat
      BY <2>1, <3>2 DEF Better, Levels
    <3>4. k \notin known
      BY <3>3
    <3>5. Better(true, k) \subseteq Better(book, l)
      <4> SUFFICES ASSUME NEW j \in Better(true, k) PROVE j \in Better(book, l)
        OBVIOUS
      <4>1. j \in Levels /\ j \in Nat /\ j < k /\ true[j] > 0
        BY DEF Better, Levels
      <4>2. j < l /\ j \notin S
        <5>1. ~(k <= j)
          BY <3>3, <4>1
        <5> HIDE DEF S
        <5> QED  BY <3>2, <3>3, <4>1, <5>1
      <4>3. j \in Better(true, l)
        BY <4>1, <4>2 DEF Better
      <4> QED  BY <4>2, <4>3
    <3>6. Cardinality(Better(true, k)) < n
      <4>1. Cardinality(Better(true, k)) <= Cardinality(Better(book, l))
        BY <1>3, <3>5, FS_Subset
      <4> QED  BY <1>3, <2>1, <4>1
    <3>7. k \in Best(true, n)
      BY <3>3, <3>6, BestMeans
    <3> QED  BY <3>4, <3>7
  <2> QED  BY <2>3, <2>4
<1> QED  BY <1>4, <1>5

\* A row is of a version the exchange has reached.
RowInv == RowExact /\ out.ver <= head

LEMMA RowStarts == Init => RowInv
<1> SUFFICES ASSUME Init PROVE RowInv
  OBVIOUS
<1>1. out = NoRow /\ head = 0 /\ NoRow.ver = 0 /\ NoRow.cov = {} /\ DOMAIN NoRow.rows = {}
  BY DEF Init, NoRow
<1> QED  BY <1>1 DEF RowInv, RowExact

LEMMA EmitExact == ASSUME IInv, Emit PROVE RowInv'
<1>1. /\ out' = EmitRow(st) /\ st.synced /\ hist' = hist /\ head' = head
  BY DEF Emit, exchange
<1>2. PICK true : true = hist[st.lastId]
  OBVIOUS
<1>3. st.book \in Books /\ st.lastId \in Ids /\ st.lastId <= head /\ true \in Books
  BY <1>2 DEF IInv, TypeOK, States, NotAhead
<1>4. \A l \in Levels : st.book[l] = IF l \in st.known THEN true[l] ELSE 0
  BY <1>1, <1>2 DEF IInv, BookExact, Exact
<1>5. \A l \in Levels : true[l] \in Nat
  <2>1. \A q \in Qty \cup {0} : q \in Nat
    BY DepthAssumption
  <2> QED  BY <1>3, <2>1 DEF Books
<1>6. out'.ver = st.lastId /\ out'.cov = st.known
      /\ out'.rows = [l \in Best(st.book, TopN) |-> st.book[l]]
  BY <1>1 DEF EmitRow
<1>7. ASSUME NEW l \in Best(st.book, TopN) PROVE st.book[l] = true[l]
  <2>1. l \in Levels /\ st.book[l] > 0
    BY BestMeans
  <2> QED  BY <1>4, <2>1
<1>8. Best(true, TopN) \subseteq st.known => Best(st.book, TopN) = Best(true, TopN)
  BY <1>4, <1>5, DepthAssumption, SameBest
<1>9. \A l \in DOMAIN out'.rows : out'.rows[l] = true[l]
  BY <1>6, <1>7
<1>10. Best(true, TopN) \subseteq out'.cov => DOMAIN out'.rows = Best(true, TopN)
  BY <1>6, <1>8
<1>11. hist'[out'.ver] = true /\ out'.ver <= head'
  BY <1>1, <1>2, <1>3, <1>6
<1>12. RowExact'
  BY <1>9, <1>10, <1>11 DEF RowExact, Best, Within
<1> QED  BY <1>11, <1>12 DEF RowInv

LEMMA RowKeeps == IInv /\ RowInv /\ [Next]_vars => RowInv'
<1> SUFFICES ASSUME IInv, RowInv, [Next]_vars PROVE RowInv'
  OBVIOUS
<1>1. CASE Emit
  BY <1>1, EmitExact
<1>2. ASSUME NEW l \in Levels, NEW q \in Qty \cup {0}, Update(l, q) PROVE RowInv'
  <2>1. /\ hist \in [Ids -> Books] /\ head \in Nat /\ head < MaxUpdates /\ out.ver \in Ids
        /\ hist' = [hist EXCEPT ![head + 1] = [hist[head] EXCEPT ![l] = q]]
        /\ head' = head + 1 /\ out' = out
    BY <1>2, DepthAssumption DEF IInv, TypeOK, Ids, Update, flink
  <2>2. out.ver <= head /\ out.ver \in Nat
    BY <2>1, DepthAssumption DEF RowInv, Ids
  <2>3. hist'[out.ver] = hist[out.ver]
    BY <2>1, <2>2
  <2>4. RowExact'
    BY <2>1, <2>3 DEF RowInv, RowExact, Best, Within
  <2> QED  BY <2>1, <2>2, <2>4 DEF RowInv
<1>3. CASE UNCHANGED <<hist, head, out>>
  BY <1>3 DEF RowInv, RowExact, Best, Within
<1>4. CASE \/ \E u \in Ids : StreamDiff(u) \/ LoseDiff(u)
           \/ FetchSnapshot \/ PublishSnapshot \/ FailSnapshot
  <2>1. UNCHANGED <<hist, head, out>>
    BY <1>4 DEF StreamDiff, LoseDiff, FetchSnapshot, PublishSnapshot, FailSnapshot, exchange, flink
  <2> QED  BY <1>3, <2>1
<1>5. CASE Process \/ Checkpoint \/ Restart \/ UNCHANGED vars
  <2>1. UNCHANGED <<hist, head, out>>
    BY <1>5 DEF Process, ApplySnapshot, ApplyDiff, Desync, Drop, Consume, Checkpoint, Restart, vars, exchange
  <2> QED  BY <1>3, <2>1
<1> QED  BY <1>1, <1>2, <1>4, <1>5 DEF Next

\* A row the operator emits quotes only what the exchange had at its version, and is
\* its top TopN if these levels were known: for every number of levels, limit of
\* snapshots and rows, and whatever is lost, overtaken or replayed
\* (OrderBookReconstructor.onTimer).
THEOREM RowsAreExact == Spec => []RowExact
<1>1. Init => IInv /\ RowInv
  BY InitIInv, RowStarts
<1>2. IInv /\ RowInv /\ [Next]_vars => IInv' /\ RowInv'
  BY NextIInv, RowKeeps
<1>3. RowInv => RowExact
  BY DEF RowInv
<1> QED  BY <1>1, <1>2, <1>3, PTL DEF Spec

-----------------------------------------------------------------------------
\* While the operator stays synced its version never decreases: a snapshot
\* older than the book is refused and a stale diff is dropped.
THEOREM NeverBack == Spec => ForwardWhileSynced
<1>1. ASSUME IInv, [Next]_vars, st.synced, st'.synced, restarts' = restarts
      PROVE  st'.lastId >= st.lastId
  <2>1. st.lastId \in Nat /\ restarts \in Nat
    BY <1>1, DepthAssumption DEF IInv, TypeOK, States, Ids
  <2>2. CASE ApplySnapshot
    <3>1. ~(Msg.last < st.lastId) /\ st'.lastId = Msg.last
      BY <1>1, <2>2 DEF ApplySnapshot, StaleSnapshot
    <3>2. Msg.last \in Nat
      BY <1>1, <2>2, MsgFacts, DepthAssumption
         DEF ApplySnapshot, MsgOK, Messages, Ids
    <3>3. QED
      BY <2>1, <3>1, <3>2
  <2>3. CASE ApplyDiff
    <3>1. ~(Msg.last <= st.lastId) /\ st'.lastId = Msg.last
      BY <1>1, <2>3 DEF ApplyDiff, StaleDiff
    <3>2. Msg.last \in Nat
      BY <1>1, <2>3, MsgFacts, DepthAssumption
         DEF ApplyDiff, MsgOK, Messages, Ids
    <3>3. QED
      BY <2>1, <3>1, <3>2
  <2>4. CASE Desync
    BY <1>1, <2>4 DEF Desync, IInv, TypeOK, States
  <2>5. CASE Restart
    BY <1>1, <2>1, <2>5 DEF Restart
  <2>6. CASE st' = st
    BY <2>1, <2>6
  <2>7. \/ ApplySnapshot \/ ApplyDiff \/ Desync \/ Restart \/ st' = st
    BY <1>1 DEF Next, vars, Process, Drop, Update, StreamDiff, LoseDiff,
       FetchSnapshot, PublishSnapshot, FailSnapshot, Emit, Checkpoint, flink
  <2>8. QED
    BY <2>2, <2>3, <2>4, <2>5, <2>6, <2>7
<1>2. IInv /\ [Next]_vars
        => [st.synced /\ st'.synced /\ restarts' = restarts
              => st'.lastId >= st.lastId]_vars
  BY <1>1
<1>3. QED
  BY <1>2, Invariance, PTL DEF Spec, ForwardWhileSynced

-----------------------------------------------------------------------------
\* Initial states map to initial states.
LEMMA RefineInit == Init => Mirror!MirrorInit
<1> SUFFICES ASSUME Init PROVE Mirror!MirrorInit
  OBVIOUS
<1>1. Shown = Mirror!Hidden
  BY DEF Init, NoState, Shown, Mirror!Hidden, Mirror!Empty, EmptyBook
<1>2. QED
  BY <1>1 DEF Init, Mirror!MirrorInit, Ids, Books

\* A step that leaves the state exact and not behind is a Show or a stutter.
LEMMA RefineStep ==
  ASSUME IInv, IInv', [Next]_vars
  PROVE  [Mirror!MirrorNext]_Mirror!mirrorVars
<1>1. /\ st \in States /\ st.known \subseteq Levels /\ st.lastId \in Nat
      /\ st' \in States /\ st'.known \subseteq Levels /\ st'.lastId \in 0..head'
  BY DepthAssumption DEF IInv, TypeOK, States, NotAhead, Ids
<1>2. st'.synced => Shown' = Mirror!View(st.lastId, st.known)'
  <2>1. ASSUME st'.synced
        PROVE  st'.book = [l \in Levels |-> IF l \in st'.known
                                            THEN hist'[st'.lastId][l] ELSE 0]
    BY <1>1, <2>1 DEF IInv, BookExact, Exact, States, Books
  <2>2. QED
    BY <2>1 DEF Shown, Mirror!View
<1>3. ~st'.synced => Shown' = Mirror!Hidden
  BY DEF Shown, Mirror!Hidden, Mirror!Empty, EmptyBook
<1>4. Shown.on = st.synced /\ (st.synced => Shown.ver = st.lastId)
  BY <1>1 DEF Shown, States
<1>5. CASE \E l \in Levels, q \in Qty \cup {0} : Update(l, q)
  BY <1>5 DEF Update, Mirror!MirrorNext, Mirror!Move, Shown, flink
<1>6. CASE Process
  <2>1. UNCHANGED <<hist, head, restarts>>
    BY <1>6 DEF Process, ApplySnapshot, ApplyDiff, Desync, Drop, Consume, exchange
  <2>2. CASE st' = st
    BY <2>1, <2>2 DEF Shown, Mirror!mirrorVars
  <2>3. CASE ~st'.synced
    BY <1>3, <2>1, <2>3 DEF Mirror!MirrorNext, Mirror!Hide
  <2>4. CASE st'.synced /\ st' # st
    <3>1. Mirror!View(st.lastId, st.known)' = Mirror!View(st'.lastId, st'.known)
      BY <2>1 DEF Mirror!View
    <3>2. st.synced => st.lastId <= st'.lastId
      <4>1. CASE ApplySnapshot
        <5>1. Msg.last \in Nat
          BY <4>1, MsgFacts, DepthAssumption DEF ApplySnapshot, MsgOK, Messages, Ids
        <5>2. QED
          BY <1>1, <4>1, <5>1 DEF ApplySnapshot, StaleSnapshot
      <4>2. CASE ApplyDiff
        <5>1. Msg.last \in Nat
          BY <4>2, MsgFacts, DepthAssumption DEF ApplyDiff, MsgOK, Messages, Ids
        <5>2. QED
          BY <1>1, <4>2, <5>1 DEF ApplyDiff, StaleDiff
      <4>3. CASE Desync
        BY <1>1, <2>4, <4>3 DEF Desync, States
      <4>4. CASE Drop
        BY <2>4, <4>4 DEF Drop
      <4>5. QED
        BY <1>6, <4>1, <4>2, <4>3, <4>4 DEF Process
    <3>3. /\ st'.lastId \in 0..head /\ st'.known \in SUBSET Levels
          /\ Shown.on => Shown.ver <= st'.lastId
          /\ Shown' = Mirror!View(st'.lastId, st'.known)
      BY <1>1, <1>2, <1>4, <2>1, <2>4, <3>1, <3>2
    <3>4. Mirror!Show
      BY <2>1, <3>3 DEF Mirror!Show
    <3>5. QED
      BY <3>4 DEF Mirror!MirrorNext
  <2>5. QED
    BY <2>2, <2>3, <2>4
<1>7. CASE Restart
  <2>1. UNCHANGED <<hist, head>> /\ restarts' = restarts + 1
    BY <1>7 DEF Restart, exchange
  <2>2. CASE ~st'.synced
    BY <1>3, <2>1, <2>2 DEF Mirror!MirrorNext, Mirror!Rewind
  <2>3. CASE st'.synced
    <3>1. Mirror!View(st.lastId, st.known)' = Mirror!View(st'.lastId, st'.known)
      BY <2>1 DEF Mirror!View
    <3>2. /\ st'.lastId \in 0..head /\ st'.known \in SUBSET Levels
          /\ Shown' = Mirror!View(st'.lastId, st'.known)
      BY <1>1, <1>2, <2>1, <2>3, <3>1
    <3>3. Mirror!Rewind
      BY <2>1, <3>2 DEF Mirror!Rewind
    <3>4. QED
      BY <3>3 DEF Mirror!MirrorNext
  <2>4. QED
    BY <2>2, <2>3
<1>8. CASE UNCHANGED <<hist, head, st, restarts>>
  BY <1>8 DEF Shown, Mirror!mirrorVars
<1>9. \/ \E l \in Levels, q \in Qty \cup {0} : Update(l, q)
      \/ Process \/ Restart \/ UNCHANGED <<hist, head, st, restarts>>
  BY DEF Next, vars, StreamDiff, LoseDiff, FetchSnapshot, PublishSnapshot,
     FailSnapshot, Emit, Checkpoint, flink, exchange
<1>10. QED
  BY <1>5, <1>6, <1>7, <1>8, <1>9

\* The depth path implements the abstract mirror.
THEOREM Refinement == Spec => ImplementsMirror
<1>1. IInv /\ IInv' /\ [Next]_vars => [Mirror!MirrorNext]_Mirror!mirrorVars
  BY RefineStep
<1>2. QED
  BY <1>1, RefineInit, Invariance, PTL DEF Spec, ImplementsMirror, Mirror!MirrorSpec
=============================================================================
