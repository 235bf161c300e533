---------------------------- MODULE TradeIngestProofs ----------------------------
(* Proofs about TradeIngest for all constants: types, and that no trade is lost
   other than by a step that gives it up by name. *)
EXTENDS TradeIngest, Maxima, SequenceTheorems, FiniteSetTheorems, TLAPS

\* What the state of the process is where it is not connected.
Shape ==
  /\ conn = "down" => /\ buffer = << >> /\ fills = {}
                      /\ lastEvent = 0 /\ disconnected = 0 /\ startup = {}
  /\ conn # "on" => wire = {}
  /\ conn = "on" => startup = {}
  /\ startup # {} => startup = {lastRow - Margin} /\ fills = {} /\ lastEvent = 0
  /\ \A t \in ToSet(buffer) : t <= lastEvent
  /\ conn = "off" /\ startup = {} /\ lastEvent # 0 => lastEvent <= disconnected /\ disconnected # 0
  /\ Unattended => fills = {}
  /\ \A f \in fills : /\ f.hi <= now + Margin
                      /\ \A t \in f.rows : t \in Made /\ t < f.hi

\* Stored, given up by name, or in the window of a task.
Settled == db \cup Filling \cup forsaken

\* A trade that none of these knows, and that the next reconnection would ask
\* for, is younger than anything a start would take for its beginning: the newest
\* row, and the rows the tasks may still bring, less the margin.
Overdue ==
  \A t \in Made \ Settled :
    t >= lastEvent - Margin => t >= lastRow - Margin /\ \A f \in fills : t > f.hi - Margin

IInv == TypeOK /\ Shape /\ EveryTradeAccounted /\ Overdue

-----------------------------------------------------------------------------
(* The writer *)

\* INSERT IGNORE: the newest row stays, or is one of those inserted.
LEMMA Inserts ==
  ASSUME NEW rows \in Seq(Nat), InsertRows(rows)
  PROVE  /\ db' = db \cup ToSet(rows)
         /\ \/ lastRow' = lastRow /\ ToSet(rows) \subseteq db
            \/ lastRow' \in ToSet(rows) \ db
<1>1. DOMAIN rows = 1..Len(rows) /\ Len(rows) \in Nat
  OBVIOUS
<1>2. NewRows(rows) \in SUBSET (0..Len(rows))
  BY <1>1 DEF NewRows
<1>3. CASE NewRows(rows) = {}
  BY <1>3 DEF InsertRows, NewRows, ToSet
<1>4. CASE NewRows(rows) # {}
  <2>1. Max(NewRows(rows)) \in NewRows(rows)
    BY <1>1, <1>2, <1>4, MaxInSet
  <2> QED  BY <2>1, <1>4 DEF InsertRows, NewRows, ToSet
<1> QED  BY <1>3, <1>4

\* What a flush does, whatever fails in it: rows of the buffer are in the table,
\* still in the buffer, or lost.
Drains(lost) ==
  /\ buffer' \in Seq(Made) /\ ToSet(buffer') \subseteq ToSet(buffer)
  /\ ToSet(buffer) \subseteq db' \cup ToSet(buffer') \cup lost
  /\ db \subseteq db' /\ db' \subseteq db \cup ToSet(buffer)
  /\ \/ lastRow' = lastRow /\ db' = db
     \/ lastRow' \in ToSet(buffer) /\ lastRow' \in db'

\* Two sequences of rows, one after the other.
LEMMA Joined ==
  ASSUME NEW p \in Seq(Nat), NEW q \in Seq(Nat)
  PROVE  p \o q \in Seq(Nat) /\ ToSet(p \o q) = ToSet(p) \cup ToSet(q)
<1>1. /\ DOMAIN p = 1..Len(p) /\ DOMAIN q = 1..Len(q) /\ Len(p) \in Nat /\ Len(q) \in Nat
      /\ p \o q \in Seq(Nat) /\ DOMAIN (p \o q) = 1..(Len(p) + Len(q))
      /\ \A i \in 1..Len(p) : (p \o q)[i] = p[i]
  OBVIOUS
<1>2. \A i \in 1..Len(q) : (p \o q)[Len(p) + i] = q[i]
  OBVIOUS
<1> DEFINE r == p \o q
<1> HIDE DEF r
<1>3. \A i \in DOMAIN r : r[i] \in ToSet(p) \cup ToSet(q)
  <2> SUFFICES ASSUME NEW i \in 1..(Len(p) + Len(q)) PROVE r[i] \in ToSet(p) \cup ToSet(q)
    BY <1>1 DEF r
  <2>1. i \in 1..Len(p) \/ (i - Len(p) \in 1..Len(q) /\ Len(p) + (i - Len(p)) = i)
    BY <1>1
  <2> QED  BY <1>1, <1>2, <2>1 DEF r, ToSet
<1>4. \A i \in 1..Len(p) : p[i] \in ToSet(r)
  BY <1>1 DEF r, ToSet
<1>5. \A i \in 1..Len(q) : q[i] \in ToSet(r)
  <2>1. \A i \in 1..Len(q) : Len(p) + i \in DOMAIN r
    BY <1>1 DEF r
  <2> QED  BY <1>2, <2>1 DEF r, ToSet
<1> QED  BY <1>1, <1>3, <1>4, <1>5 DEF r, ToSet

\* Positions of a part of a sequence.
LEMMA Shift ==
  ASSUME NEW i \in Nat, NEW j \in Nat
  PROVE  /\ i + 1 <= j => j - (i + 1) + 1 = j - i
         /\ i + 1 > j => (i + 1)..j = {}
         /\ \A k \in 1..(j - i) : i + 1 + k - 1 = i + k /\ i + k \in (i + 1)..j
         /\ \A k \in (i + 1)..j : k - i \in 1..(j - i) /\ i + (k - i) = k
OBVIOUS

\* What a sequence has behind position i, up to j.
At(s, i, j) == {s[k] : k \in (i + 1)..j}

\* A part of a sequence holds what the positions of the part hold.
LEMMA Part ==
  ASSUME NEW S, NEW s \in Seq(S), NEW i \in Nat, NEW j \in Nat, j <= Len(s)
  PROVE  /\ SubSeq(s, i + 1, j) \in Seq(S)
         /\ ToSet(SubSeq(s, i + 1, j)) = At(s, i, j)
<1> DEFINE r == SubSeq(s, i + 1, j)
<1>1. \A k \in (i + 1)..j : s[k] \in S
  <2>1. \A k \in 1..Len(s) : s[k] \in S
    OBVIOUS
  <2>2. Len(s) \in Nat
    OBVIOUS
  <2> QED  BY <2>1, <2>2
<1>2. /\ r \in Seq(S) /\ Len(r) = IF i + 1 <= j THEN j - (i + 1) + 1 ELSE 0
      /\ \A k \in 1..(j - (i + 1) + 1) : r[k] = s[i + 1 + k - 1]
  BY <1>1, SubSeqProperties
<1> HIDE DEF r
<1>3. DOMAIN r = 1..Len(r)
  BY <1>2
<1>4. CASE i + 1 <= j
  <2>1. DOMAIN r = 1..(j - i) /\ \A k \in 1..(j - i) : r[k] = s[i + k]
    BY <1>2, <1>3, <1>4, Shift
  <2>2. ToSet(r) \subseteq {s[k] : k \in (i + 1)..j}
    BY <2>1, Shift DEF ToSet
  <2>3. {s[k] : k \in (i + 1)..j} \subseteq ToSet(r)
    <3> SUFFICES ASSUME NEW k \in (i + 1)..j PROVE s[k] \in ToSet(r)
      OBVIOUS
    <3>1. k - i \in DOMAIN r /\ r[k - i] = s[k]
      BY <2>1, Shift
    <3> QED  BY <3>1 DEF ToSet
  <2> QED  BY <1>2, <2>2, <2>3 DEF r, At
<1>5. CASE i + 1 > j
  <2>1. Len(r) = 0 /\ DOMAIN r = {} /\ (i + 1)..j = {}
    BY <1>2, <1>3, <1>5
  <2> QED  BY <1>2, <2>1 DEF r, ToSet, At
<1> QED  BY <1>4, <1>5

LEMMA PartFront ==
  ASSUME NEW S, NEW s \in Seq(S), NEW j \in Nat, j <= Len(s)
  PROVE  SubSeq(s, 1, j) \in Seq(S) /\ ToSet(SubSeq(s, 1, j)) = At(s, 0, j)
<1>1. PICK z \in Nat : z = 0
  OBVIOUS
<1>2. SubSeq(s, z + 1, j) \in Seq(S) /\ ToSet(SubSeq(s, z + 1, j)) = At(s, z, j)
  BY Part, Zenon
<1>3. z + 1 = 1
  BY <1>1
<1> QED  BY <1>1, <1>2, <1>3, Zenon

\* Membership in such a part.
LEMMA AtParts ==
  ASSUME NEW s, NEW i \in Nat, NEW j \in Nat, NEW k \in Nat, i <= j, j <= k
  PROVE  At(s, i, k) = At(s, i, j) \cup At(s, j, k)
<1>1. (i + 1)..k = ((i + 1)..j) \cup ((j + 1)..k)
  OBVIOUS
<1> QED  BY <1>1 DEF At

\* What is stored and what stays when a flush stores the first j rows and keeps
\* all but the first i.
LEMMA Drained ==
  ASSUME TypeOK, NEW i \in Nat, NEW j \in Nat, i <= j, j <= Len(buffer),
         InsertRows(Taken(j)), buffer' = Left(i)
  PROVE  Drains({})
<1>1. buffer \in Seq(Made) /\ buffer \in Seq(Nat) /\ Len(buffer) \in Nat
  BY DEF TypeOK, Made
<1>2. DOMAIN buffer = 1..Len(buffer)
  BY <1>1
<1>3. ToSet(buffer) = At(buffer, 0, Len(buffer))
  BY <1>1, <1>2 DEF ToSet, At
<1>4. Taken(j) \in Seq(Nat) /\ ToSet(Taken(j)) = At(buffer, 0, j)
  BY <1>1, PartFront, Zenon DEF Taken
<1>5. Left(i) \in Seq(Made) /\ ToSet(Left(i)) = At(buffer, i, Len(buffer))
  <2>1. Len(buffer) <= Len(buffer)
    BY <1>1
  <2> QED  BY <1>1, <2>1, Part, Zenon DEF Left
<1>6. ToSet(Taken(j)) \subseteq ToSet(buffer) /\ ToSet(Left(i)) \subseteq ToSet(buffer)
  BY <1>1, <1>3, <1>4, <1>5 DEF At
<1>7. ToSet(buffer) \subseteq ToSet(Taken(j)) \cup ToSet(Left(i))
  BY <1>1, <1>3, <1>4, <1>5 DEF At
<1>8. /\ db' = db \cup ToSet(Taken(j))
      /\ \/ lastRow' = lastRow /\ ToSet(Taken(j)) \subseteq db
         \/ lastRow' \in ToSet(Taken(j)) \ db
  BY <1>4, Inserts
<1> QED  BY <1>5, <1>6, <1>7, <1>8 DEF Drains

LEMMA FlushDrains ==
  ASSUME TypeOK, NEW bad \in BOOLEAN, Flush(bad)
  PROVE  Drains({})
<1>1. Len(buffer) \in Nat
  BY DEF TypeOK
<1>2. CASE bad
  <2>1. PICK b \in 0..(MaxBatches - 1) :
          /\ b * BatchSize < Len(buffer)
          /\ \E n \in {b * BatchSize, UpTo((b + 1) * BatchSize)} : InsertRows(Taken(n))
          /\ buffer' = Left(b * BatchSize)
    BY <1>2 DEF Flush, FlushRequeue
  <2>2. PICK n \in {b * BatchSize, UpTo((b + 1) * BatchSize)} : InsertRows(Taken(n))
    BY <2>1
  <2>3. b \in Nat /\ BatchSize \in Nat
    BY IngestAssumption
  <2>4. b * BatchSize \in Nat /\ (b + 1) * BatchSize = b * BatchSize + BatchSize
    BY <2>3
  <2>5. n \in Nat /\ b * BatchSize <= n /\ n <= Len(buffer)
    BY <1>1, <2>1, <2>2, <2>3, <2>4 DEF UpTo
  <2> QED  BY <2>1, <2>2, <2>4, <2>5, Drained
<1>3. CASE ~bad
  <2> DEFINE n == UpTo(MaxBatches * BatchSize)
  <2>1. InsertRows(Taken(n)) /\ buffer' = Left(n)
    BY <1>3 DEF Flush, FlushOk
  <2>2. MaxBatches * BatchSize \in Nat
    BY IngestAssumption
  <2>3. n \in Nat /\ n <= Len(buffer)
    BY <1>1, <2>2 DEF UpTo
  <2> HIDE DEF n
  <2> QED  BY <2>1, <2>3, Drained
<1> QED  BY <1>2, <1>3

LEMMA PartOfBuffer ==
  ASSUME TypeOK, NEW i \in Nat, NEW j \in Nat, j <= Len(buffer)
  PROVE  /\ SubSeq(buffer, i + 1, j) \in Seq(Nat) /\ SubSeq(buffer, i + 1, j) \in Seq(Made)
         /\ ToSet(SubSeq(buffer, i + 1, j)) = At(buffer, i, j)
<1>1. buffer \in Seq(Made)
  BY DEF TypeOK
<1>2. /\ SubSeq(buffer, i + 1, j) \in Seq(Made)
      /\ ToSet(SubSeq(buffer, i + 1, j)) = At(buffer, i, j)
  BY <1>1, Part, Zenon
<1>3. Seq(Made) \subseteq Seq(Nat)
  BY DEF TypeOK, Made
<1> QED  BY <1>2, <1>3

LEMMA UpToBounds ==
  ASSUME TypeOK, NEW n \in Nat
  PROVE  /\ UpTo(n) \in Nat /\ UpTo(n) <= Len(buffer)
         /\ \A i \in Nat : i <= n /\ i <= Len(buffer) => i <= UpTo(n)
<1>1. Len(buffer) \in Nat
  BY DEF TypeOK
<1> QED  BY <1>1 DEF UpTo

\* The flush that raises: the rows n + 1 to m are lost, the first n and those up
\* to k are stored.
LEMMA RaiseDrains ==
  ASSUME TypeOK, FlushRaises
  PROVE  \E lost \in SUBSET ToSet(buffer) :
           /\ Drains(lost)
           /\ forsaken' = forsaken \cup
                {t \in (wire \cup lost) \ (db' \cup Filling) : t < FillFrom(lastEvent, now)}
<1>1. PICK b, c \in 0..MaxBatches :
        LET n == b * BatchSize
            m == UpTo(n + BatchSize)
            k == UpTo(m + c * BatchSize)
        IN  /\ b < MaxBatches /\ n < Len(buffer)
            /\ InsertRows(Taken(n) \o SubSeq(buffer, m + 1, k))
            /\ buffer' = Left(k)
            /\ forsaken' = forsaken \cup
                 {t \in (wire \cup ToSet(SubSeq(buffer, n + 1, m)))
                           \ (db' \cup Filling) : t < FillFrom(lastEvent, now)}
  BY DEF FlushRaises
<1>2. buffer \in Seq(Made) /\ buffer \in Seq(Nat) /\ Len(buffer) \in Nat
  BY DEF TypeOK, Made
<1>3. ToSet(buffer) = At(buffer, 0, Len(buffer))
  <2>1. DOMAIN buffer = 1..Len(buffer)
    BY <1>2
  <2> QED  BY <2>1 DEF ToSet, At
<1>4. PICK z, n, m, k, l \in Nat :
        /\ z = 0 /\ n = b * BatchSize /\ m = UpTo(n + BatchSize)
        /\ k = UpTo(m + c * BatchSize) /\ l = Len(buffer)
  <2>1. b \in Nat /\ c \in Nat /\ BatchSize \in Nat
    BY IngestAssumption
  <2>2. b * BatchSize \in Nat /\ c * BatchSize \in Nat
    BY <2>1
  <2>3. UpTo(b * BatchSize + BatchSize) \in Nat
    BY <2>1, <2>2, UpToBounds
  <2>4. UpTo(UpTo(b * BatchSize + BatchSize) + c * BatchSize) \in Nat
    <3>1. UpTo(b * BatchSize + BatchSize) + c * BatchSize \in Nat
      BY <2>2, <2>3
    <3> QED  BY <3>1, UpToBounds
  <2> QED  BY <1>2, <2>2, <2>3, <2>4
<1>5. n <= m /\ m <= k /\ k <= l /\ n < l
  <2>1. c * BatchSize \in Nat /\ BatchSize \in Nat
    BY IngestAssumption
  <2>2. n < Len(buffer)
    BY <1>1, <1>4
  <2>3. n <= UpTo(n + BatchSize) /\ UpTo(n + BatchSize) <= Len(buffer)
    <3>1. PICK e \in Nat : e = n + BatchSize
      BY <2>1
    <3>2. n <= e
      BY <2>1, <3>1
    <3>3. n <= Len(buffer)
      BY <2>2
    <3>4. n <= UpTo(e) /\ UpTo(e) <= Len(buffer)
      BY <3>2, <3>3, UpToBounds, Zenon
    <3> QED  BY <3>1, <3>4, Zenon
  <2>4. m <= UpTo(m + c * BatchSize) /\ UpTo(m + c * BatchSize) <= Len(buffer)
    <3>1. PICK d \in Nat : d = c * BatchSize
      BY <2>1
    <3>2. PICK e \in Nat : e = m + d
      OBVIOUS
    <3>3. m <= e
      BY <3>2
    <3>4. m <= Len(buffer)
      BY <2>3, <1>4, Zenon
    <3>5. m <= UpTo(e) /\ UpTo(e) <= Len(buffer)
      BY <3>3, <3>4, UpToBounds, Zenon
    <3> QED  BY <3>1, <3>2, <3>5, Zenon
  <2> QED  BY <1>4, <2>2, <2>3, <2>4
<1>6. z <= Len(buffer) /\ n <= Len(buffer) /\ m <= Len(buffer) /\ k <= Len(buffer)
      /\ l <= Len(buffer)
  BY <1>2, <1>4, <1>5
<1>7. /\ SubSeq(buffer, z + 1, n) \in Seq(Nat)
      /\ ToSet(SubSeq(buffer, z + 1, n)) = At(buffer, z, n)
  BY <1>6, PartOfBuffer, Zenon
<1>8. ToSet(SubSeq(buffer, n + 1, m)) = At(buffer, n, m)
  BY <1>6, PartOfBuffer, Zenon
<1>9. /\ SubSeq(buffer, m + 1, k) \in Seq(Nat)
      /\ ToSet(SubSeq(buffer, m + 1, k)) = At(buffer, m, k)
  BY <1>6, PartOfBuffer, Zenon
<1>10. /\ SubSeq(buffer, k + 1, l) \in Seq(Made)
       /\ ToSet(SubSeq(buffer, k + 1, l)) = At(buffer, k, l)
  BY <1>6, PartOfBuffer, Zenon
<1> DEFINE head == SubSeq(buffer, z + 1, n)
           tail == SubSeq(buffer, m + 1, k)
           lost == ToSet(SubSeq(buffer, n + 1, m))
<1>11. Taken(n) = head /\ Left(k) = SubSeq(buffer, k + 1, l)
  BY <1>4 DEF Taken, Left
<1>12. /\ InsertRows(head \o tail) /\ buffer' = SubSeq(buffer, k + 1, l)
       /\ forsaken' = forsaken \cup
            {t \in (wire \cup lost) \ (db' \cup Filling) : t < FillFrom(lastEvent, now)}
  BY <1>1, <1>4, <1>11, Zenon
<1>13. head \o tail \in Seq(Nat) /\ ToSet(head \o tail) = ToSet(head) \cup ToSet(tail)
  BY <1>7, <1>9, Joined
<1>14. /\ db' = db \cup ToSet(head) \cup ToSet(tail)
       /\ \/ lastRow' = lastRow /\ ToSet(head) \cup ToSet(tail) \subseteq db
          \/ lastRow' \in ToSet(head) \cup ToSet(tail)
  BY <1>12, <1>13, Inserts
<1>15. ToSet(buffer) = ToSet(head) \cup lost \cup ToSet(tail) \cup ToSet(buffer')
  <2>1. /\ At(buffer, z, l) = At(buffer, z, n) \cup At(buffer, n, l)
        /\ At(buffer, n, l) = At(buffer, n, m) \cup At(buffer, m, l)
        /\ At(buffer, m, l) = At(buffer, m, k) \cup At(buffer, k, l)
    <3>1. z <= n /\ n <= l /\ n <= m /\ m <= l /\ m <= k /\ k <= l
      BY <1>4, <1>5
    <3>2. At(buffer, z, l) = At(buffer, z, n) \cup At(buffer, n, l)
      BY <3>1, AtParts
    <3>3. At(buffer, n, l) = At(buffer, n, m) \cup At(buffer, m, l)
      BY <3>1, AtParts
    <3>4. At(buffer, m, l) = At(buffer, m, k) \cup At(buffer, k, l)
      BY <3>1, AtParts
    <3> QED  BY <3>2, <3>3, <3>4
  <2>2. ToSet(buffer) = At(buffer, z, l)
    BY <1>3, <1>4, Zenon
  <2> QED  BY <2>1, <2>2, <1>7, <1>8, <1>9, <1>10, <1>12
<1> HIDE DEF head, tail, lost
<1>17. Drains(lost)
  BY <1>10, <1>12, <1>14, <1>15 DEF Drains
<1> QED  BY <1>12, <1>15, <1>17

-----------------------------------------------------------------------------
(* What the steps have in common *)

\* The cases of Owed.
LEMMA OwedIs ==
  /\ conn = "on" => Owed = {}
  /\ conn = "down" => Owed = Times(StartFrom, now + 1)
  /\ conn = "off" /\ startup # {} => Owed = UNION {Times(lo, now + 1) : lo \in startup}
  /\ conn = "off" /\ startup = {} /\ disconnected # 0
        => Owed = Times(FillFrom(lastEvent, disconnected), now + 1)
BY DEF Owed

LEMMA OwedIsNext ==
  /\ conn' = "on" => Owed' = {}
  /\ conn' = "down" => Owed' = (Times(StartFrom, now + 1))'
  /\ conn' = "off" /\ startup' # {} => Owed' = (UNION {Times(lo, now + 1) : lo \in startup})'
  /\ conn' = "off" /\ startup' = {} /\ disconnected' # 0
        => Owed' = (Times(FillFrom(lastEvent, disconnected), now + 1))'
BY DEF Owed

\* The window a reconnection asks for begins Margin before the last event.
LEMMA FromEvent ==
  ASSUME TypeOK, NEW d \in Nat
  PROVE  /\ FillFrom(lastEvent, d) \in (-Margin)..(d - Margin)
         /\ lastEvent # 0 => FillFrom(lastEvent, d) <= lastEvent - Margin
         /\ lastEvent # 0 /\ lastEvent <= d => FillFrom(lastEvent, d) = lastEvent - Margin
<1>1. lastEvent \in Nat /\ Margin \in Nat
  BY IngestAssumption DEF TypeOK
<1> QED  BY <1>1 DEF FillFrom

\* Who is missing and not even on its way: a reconnection or a start asks for it,
\* and it is not older than what it asks for.
LEMMA OnlyOwed ==
  ASSUME IInv, conn = "off", NEW t \in Made, t \notin Settled, t \notin ToSet(buffer)
  PROVE  t \in Owed /\ t >= lastEvent - Margin
<1>1. t \in Owed /\ t \in Nat /\ now \in Nat /\ Margin \in Nat
  BY IngestAssumption DEF IInv, EveryTradeAccounted, Shape, Settled, TypeOK, Made
<1>2. CASE startup # {}
  BY <1>1, <1>2 DEF IInv, Shape
<1>3. CASE startup = {} /\ disconnected # 0
  <2>1. disconnected \in Nat /\ lastEvent \in Nat /\ (lastEvent # 0 => lastEvent <= disconnected)
    BY <1>3 DEF IInv, Shape, TypeOK
  <2>2. t >= FillFrom(lastEvent, disconnected)
    BY <1>1, <1>3, OwedIs DEF Times
  <2>3. CASE lastEvent # 0
    BY <1>1, <2>1, <2>2, <2>3, FromEvent DEF IInv
  <2>4. CASE lastEvent = 0
    BY <1>1, <2>4
  <2> QED  BY <1>1, <2>3, <2>4
<1>4. CASE startup = {} /\ disconnected = 0
  BY <1>1, <1>4 DEF Owed
<1> QED  BY <1>2, <1>3, <1>4

LEMMA OwedIsLate ==
  ASSUME IInv, conn = "off", startup = {}, disconnected # 0, NEW t \in Owed
  PROVE  t >= lastEvent - Margin
<1>1. /\ disconnected \in Nat /\ lastEvent \in Nat /\ Margin \in Nat
      /\ lastEvent # 0 => lastEvent <= disconnected
  BY IngestAssumption DEF IInv, Shape, TypeOK
<1>2. t >= FillFrom(lastEvent, disconnected) /\ t \in Nat
  BY OwedIs DEF Times, IInv, TypeOK, Made
<1>3. CASE lastEvent # 0
  BY <1>1, <1>2, <1>3, FromEvent DEF IInv
<1>4. CASE lastEvent = 0
  BY <1>1, <1>2, <1>4
<1> QED  BY <1>3, <1>4

\* A flush keeps the types, what the buffer holds, and Overdue.
LEMMA Flushed ==
  ASSUME IInv, NEW lost, Drains(lost), UNCHANGED <<now, lastEvent, fills>>,
         forsaken \subseteq forsaken'
  PROVE  /\ buffer' \in Seq(Made) /\ db' \in SUBSET Made
         /\ lastRow' \in {0} \cup db' /\ (lastRow' = 0) = (db' = {})
         /\ \A t \in ToSet(buffer') : t <= lastEvent
         /\ lastRow' = lastRow \/ (lastRow' \in Nat /\ lastRow' <= lastEvent)
         /\ lastEvent = 0 => lastRow' = lastRow /\ ToSet(buffer) = {}
         /\ Settled \subseteq Settled' /\ Filling' = Filling
         /\ Overdue'
<1>1. /\ ToSet(buffer) \subseteq Made /\ Made \subseteq Nat /\ 0 \notin Made /\ Made' = Made
      /\ \A t \in ToSet(buffer) : t <= lastEvent
      /\ lastEvent \in Nat /\ now \in Nat /\ Margin \in Nat
  <2>1. ToSet(buffer) \subseteq Made
    <3>1. buffer \in Seq(Made)
      BY DEF IInv, TypeOK
    <3> QED  BY <3>1 DEF ToSet
  <2> QED  BY <2>1, IngestAssumption DEF IInv, TypeOK, Shape, Made
<1>2. buffer' \in Seq(Made) /\ db' \in SUBSET Made /\ \A t \in ToSet(buffer') : t <= lastEvent
  BY <1>1 DEF Drains, IInv, TypeOK
<1>3. lastRow' \in {0} \cup db' /\ (lastRow' = 0) = (db' = {})
  BY <1>1, <1>2 DEF Drains, IInv, TypeOK
<1>4. lastRow' = lastRow \/ (lastRow' \in Nat /\ lastRow' <= lastEvent)
  BY <1>1 DEF Drains
<1>5. lastEvent = 0 => lastRow' = lastRow /\ ToSet(buffer) = {}
  BY <1>1 DEF Drains
<1>6. Filling' = Filling
  BY <1>1 DEF Filling, Window, Times
<1>7. Settled \subseteq Settled'
  BY <1>6 DEF Settled, Drains
<1>8. ASSUME NEW t \in Made', t \notin Settled', t >= lastEvent' - Margin
      PROVE  t >= lastRow' - Margin /\ \A f \in fills' : t > f.hi - Margin
  <2>1. t \in Made /\ t \notin Settled /\ t >= lastEvent - Margin
    BY <1>1, <1>7, <1>8
  <2>2. t >= lastRow - Margin /\ \A f \in fills : t > f.hi - Margin
    BY <2>1 DEF IInv, Overdue
  <2> QED  BY <1>1, <1>4, <2>1, <2>2
<1>9. Overdue'
  BY <1>8 DEF Overdue
<1> QED  BY <1>2, <1>3, <1>4, <1>5, <1>6, <1>7, <1>9

-----------------------------------------------------------------------------
(* The steps *)

\* A trade is made.
LEMMA TickStep ==
  ASSUME IInv, Tick
  PROVE  IInv'
<1>1. /\ now \in Nat /\ now' = now + 1 /\ now' \in 1..MaxTime /\ Margin \in Nat
      /\ Made' = Made \cup {now'} /\ Made \subseteq Made' /\ Made \subseteq 1..MaxTime
      /\ UNCHANGED <<conn, buffer, db, lastRow, lastEvent, disconnected, startup, fills, faults>>
      /\ wire' = (IF conn = "on" THEN wire \cup {now'} ELSE wire)
      /\ forsaken' = (IF Unattended THEN forsaken \cup {now'} ELSE forsaken)
      /\ lastRow \in 0..now /\ lastEvent \in 0..now /\ disconnected \in 0..now
  BY IngestAssumption DEF IInv, TypeOK, Made, Tick, table, session
<1>2. TypeOK'
  <2>1. buffer' \in Seq(Made')
    BY <1>1 DEF IInv, TypeOK
  <2> QED  BY <1>1, <2>1 DEF IInv, TypeOK, FillTasks
<1>3. Shape'
  BY <1>1 DEF IInv, TypeOK, Shape, Unattended, FillTasks
<1>4. Filling \subseteq Filling'
  BY <1>1 DEF Filling, Window, Times
<1>5. Owed \subseteq Owed'
  <2>1. \A lo : Times(lo, now + 1) \subseteq (Times(lo, now + 1))'
    <3> SUFFICES ASSUME NEW lo, NEW t \in Made, lo <= t, t < now + 1
                 PROVE  t \in Made' /\ lo <= t /\ t < now' + 1
      BY DEF Times
    <3>1. t \in Nat
      BY <1>1 DEF Made
    <3> QED  BY <1>1, <3>1
  <2>2. CASE conn = "down"
    BY <1>1, <2>1, <2>2, OwedIs, OwedIsNext DEF Times, StartFrom, IInv, TypeOK, Made
  <2>3. CASE conn = "on"
    BY <2>3, OwedIs
  <2>4. CASE conn = "off"
    BY <1>1, <2>4 DEF Owed, Times, FillFrom, IInv, TypeOK, Made
  <2> QED  BY <2>2, <2>3, <2>4 DEF IInv, TypeOK
<1>6. now' \in wire' \cup Owed' \cup forsaken'
  <2>1. CASE conn = "on"
    BY <1>1, <2>1
  <2>2. CASE conn = "down"
    BY <1>1, <2>2, OwedIsNext DEF Times, StartFrom
  <2>3. CASE conn = "off" /\ startup # {}
    BY <1>1, <2>3, OwedIsNext DEF Times, IInv, Shape
  <2>4. CASE conn = "off" /\ startup = {} /\ disconnected # 0
    BY <1>1, <2>4, OwedIsNext DEF Times, FillFrom
  <2>5. CASE conn = "off" /\ startup = {} /\ disconnected = 0
    BY <1>1, <2>5 DEF Unattended
  <2> QED  BY <2>1, <2>2, <2>3, <2>4, <2>5 DEF IInv, TypeOK
<1>7. EveryTradeAccounted'
  <2>1. Made \subseteq db' \cup ToSet(buffer') \cup wire' \cup Filling' \cup Owed' \cup forsaken'
    BY <1>1, <1>4, <1>5 DEF IInv, EveryTradeAccounted
  <2> QED  BY <1>1, <1>6, <2>1 DEF EveryTradeAccounted
<1>8. Overdue'
  <2> SUFFICES ASSUME NEW t \in Made', t \notin Settled', t >= lastEvent' - Margin
               PROVE  t >= lastRow' - Margin /\ \A f \in fills' : t > f.hi - Margin
    BY DEF Overdue
  <2>1. CASE t = now'
    BY <1>1, <2>1 DEF IInv, Shape, TypeOK, FillTasks
  <2>2. CASE t \in Made
    <3>1. t \notin Settled
      BY <1>1, <1>4 DEF Settled
    <3> QED  BY <1>1, <2>2, <3>1 DEF IInv, Overdue
  <2> QED  BY <1>1, <2>1, <2>2
<1> QED  BY <1>2, <1>3, <1>7, <1>8 DEF IInv

\* A trade arrives.
LEMMA ReceiveStep ==
  ASSUME IInv, NEW t \in wire, Receive(t)
  PROVE  IInv'
<1>1. /\ conn = "on" /\ wire' = wire \ {t} /\ t \in Made /\ buffer' = Append(buffer, t)
      /\ lastEvent' = (IF lastEvent < t THEN t ELSE lastEvent)
      /\ UNCHANGED <<now, conn, db, lastRow, disconnected, startup, fills, faults, forsaken>>
      /\ now \in Nat /\ Made \subseteq Nat /\ lastEvent \in 0..now /\ Made = 1..now
      /\ Margin \in Nat /\ lastRow \in Nat /\ buffer \in Seq(Made)
      /\ Made' = Made
  BY IngestAssumption DEF IInv, TypeOK, Made, Receive, table
<1>2. buffer' \in Seq(Made) /\ ToSet(buffer') = ToSet(buffer) \cup {t}
  <2>1. /\ buffer' \in Seq(Made) /\ Len(buffer) \in Nat
        /\ DOMAIN buffer = 1..Len(buffer)
        /\ DOMAIN buffer' = 1..(Len(buffer) + 1)
        /\ \A i \in 1..Len(buffer) : buffer'[i] = buffer[i]
        /\ buffer'[Len(buffer) + 1] = t
    BY <1>1
  <2>2. 1..(Len(buffer) + 1) = (1..Len(buffer)) \cup {Len(buffer) + 1}
    BY <2>1
  <2> QED  BY <2>1, <2>2 DEF ToSet
<1>3. TypeOK'
  BY <1>1, <1>2 DEF IInv, TypeOK
<1>4. Shape'
  <2>1. \A x \in ToSet(buffer) : x \in Nat /\ x <= lastEvent
    BY <1>1 DEF IInv, Shape, ToSet
  <2>2. \A x \in ToSet(buffer') : x <= lastEvent'
    BY <1>1, <1>2, <2>1
  <2> QED  BY <1>1, <2>2 DEF IInv, Shape, Unattended
<1>5. Filling' = Filling /\ Owed' = {} /\ Owed = {}
  BY <1>1 DEF Filling, Window, Times, Owed
<1>6. EveryTradeAccounted'
  BY <1>1, <1>2, <1>5 DEF IInv, EveryTradeAccounted
<1>7. Overdue'
  <2> SUFFICES ASSUME NEW x \in Made', x \notin Settled', x >= lastEvent' - Margin
               PROVE  x >= lastRow' - Margin /\ \A f \in fills' : x > f.hi - Margin
    BY DEF Overdue
  <2>1. x \in Made /\ x \notin Settled /\ x >= lastEvent - Margin
    BY <1>1, <1>5 DEF Settled
  <2> QED  BY <1>1, <2>1 DEF IInv, Overdue
<1> QED  BY <1>3, <1>4, <1>6, <1>7 DEF IInv

\* The receive loop flushes.
LEMMA PeriodicFlushStep ==
  ASSUME IInv, NEW bad \in BOOLEAN, PeriodicFlush(bad)
  PROVE  IInv'
<1>1. /\ conn = "on"
      /\ UNCHANGED <<now, conn, wire, lastEvent, disconnected, startup, fills, forsaken>>
      /\ faults' \in 0..MaxFaults /\ Made' = Made
  BY IngestAssumption
     DEF PeriodicFlush, session, Fault, NoFault, IInv, TypeOK, Made
<1>2. Drains({})
  BY FlushDrains DEF IInv, PeriodicFlush
<1>3. /\ buffer' \in Seq(Made) /\ db' \in SUBSET Made
      /\ lastRow' \in {0} \cup db' /\ (lastRow' = 0) = (db' = {})
      /\ \A t \in ToSet(buffer') : t <= lastEvent
      /\ Filling' = Filling /\ Overdue'
  BY <1>1, <1>2, Flushed
<1>4. TypeOK'
  BY <1>1, <1>3 DEF IInv, TypeOK
<1>5. Shape'
  BY <1>1, <1>3 DEF IInv, Shape, Unattended
<1>6. EveryTradeAccounted'
  BY <1>1, <1>2, <1>3, OwedIs DEF IInv, EveryTradeAccounted, Drains
<1> QED  BY <1>3, <1>4, <1>5, <1>6 DEF IInv

\* The connection is lost: what was on it or in the batch that raised is asked for
\* by the reconnection, or given up.
LEMMA Disconnects ==
  ASSUME IInv, NEW lost, Drains(lost), conn = "on", conn' = "off", wire' = {},
         disconnected' = now, faults' \in 0..MaxFaults,
         UNCHANGED <<now, lastEvent, startup, fills>>,
         forsaken \subseteq forsaken', forsaken' \subseteq Made,
         \A t \in (wire \cup lost) \cap Made :
           t \in db' \cup Filling \cup forsaken' \/ t >= FillFrom(lastEvent, now)
  PROVE  IInv'
<1>1. /\ now \in Nat /\ now >= 1 /\ Made' = Made /\ Made = 1..now /\ lastEvent \in 0..now
      /\ startup = {} /\ wire \subseteq Made /\ 0 <= now
  BY DEF IInv, TypeOK, Shape, Made
<1>2. /\ buffer' \in Seq(Made) /\ db' \in SUBSET Made
      /\ lastRow' \in {0} \cup db' /\ (lastRow' = 0) = (db' = {})
      /\ \A t \in ToSet(buffer') : t <= lastEvent
      /\ Filling' = Filling /\ Overdue'
  BY Flushed
<1>3. TypeOK'
  BY <1>1, <1>2 DEF IInv, TypeOK
<1>4. Shape'
  BY <1>1, <1>2 DEF IInv, Shape, Unattended
<1>5. ASSUME NEW t \in Made, t >= FillFrom(lastEvent, now)
      PROVE  t \in Owed'
  <2>1. Owed' = Times(FillFrom(lastEvent, disconnected), now + 1)'
    BY <1>1, OwedIsNext
  <2>2. FillFrom(lastEvent, disconnected)' = FillFrom(lastEvent, now)
    BY DEF FillFrom
  <2> QED  BY <1>1, <1>5, <2>1, <2>2 DEF Times
<1>6. EveryTradeAccounted'
  <2> SUFFICES ASSUME NEW t \in Made
               PROVE  t \in db' \cup ToSet(buffer') \cup Filling' \cup Owed' \cup forsaken'
    BY <1>1 DEF EveryTradeAccounted
  <2>1. t \in db \cup ToSet(buffer) \cup wire \cup Filling \cup forsaken
    BY OwedIs DEF IInv, EveryTradeAccounted
  <2>2. CASE t \in ToSet(buffer) /\ t \notin lost
    BY <2>2 DEF Drains
  <2>3. CASE t \in wire \cup lost
    BY <1>2, <1>5, <2>3
  <2>4. CASE t \in db \cup Filling \cup forsaken
    BY <1>2, <2>4 DEF Drains
  <2> QED  BY <2>1, <2>2, <2>3, <2>4
<1> QED  BY <1>2, <1>3, <1>4, <1>6 DEF IInv

LEMMA DropStep ==
  ASSUME IInv, NEW bad \in BOOLEAN, Drop(bad)
  PROVE  IInv'
<1>1. /\ conn = "on" /\ conn' = "off" /\ wire' = {} /\ disconnected' = now
      /\ UNCHANGED <<now, lastEvent, startup, fills>>
      /\ forsaken' = forsaken \cup
           {t \in wire \ (db \cup Filling) : t < FillFrom(lastEvent, now)}
      /\ faults' \in 0..MaxFaults
  BY IngestAssumption DEF Drop, Fault, IInv, TypeOK
<1>2. Drains({})
  BY FlushDrains DEF IInv, Drop
<1>3. forsaken \subseteq forsaken' /\ forsaken' \subseteq Made
  BY <1>1 DEF IInv, TypeOK
<1>4. FillFrom(lastEvent, now) \in Int /\ Made \subseteq Int
  BY FromEvent, IngestAssumption DEF IInv, TypeOK, Made
<1>5. \A t \in (wire \cup {}) \cap Made :
        t \in db' \cup Filling \cup forsaken' \/ t >= FillFrom(lastEvent, now)
  <2> SUFFICES ASSUME NEW t \in (wire \cup {}) \cap Made,
                      t \notin db' \cup Filling \cup forsaken'
               PROVE  t >= FillFrom(lastEvent, now)
    OBVIOUS
  <2>1. ~(t < FillFrom(lastEvent, now))
    BY <1>1, <1>2 DEF Drains
  <2>2. PICK from \in Int : from = FillFrom(lastEvent, now)
    BY <1>4
  <2>3. t \in Int
    BY <1>4
  <2>4. ~(t < from)
    BY <2>1, <2>2
  <2>5. t >= from
    BY <2>3, <2>4
  <2> QED  BY <2>2, <2>5
<1> QED  BY <1>1, <1>2, <1>3, <1>5, Disconnects

LEMMA FlushRaisesStep ==
  ASSUME IInv, FlushRaises
  PROVE  IInv'
<1>1. /\ conn = "on" /\ conn' = "off" /\ wire' = {} /\ disconnected' = now
      /\ UNCHANGED <<now, lastEvent, startup, fills>>
      /\ faults' \in 0..MaxFaults
  BY IngestAssumption DEF FlushRaises, Fault, IInv, TypeOK
<1>2. PICK lost \in SUBSET ToSet(buffer) :
        /\ Drains(lost)
        /\ forsaken' = forsaken \cup
             {t \in (wire \cup lost) \ (db' \cup Filling) : t < FillFrom(lastEvent, now)}
  BY RaiseDrains DEF IInv
<1>3. ToSet(buffer) \subseteq Made
  <2>1. buffer \in Seq(Made)
    BY DEF IInv, TypeOK
  <2> QED  BY <2>1 DEF ToSet
<1>4. forsaken \subseteq forsaken' /\ forsaken' \subseteq Made
  BY <1>2, <1>3 DEF IInv, TypeOK
<1>5. FillFrom(lastEvent, now) \in Int /\ Made \subseteq Int
  BY FromEvent, IngestAssumption DEF IInv, TypeOK, Made
<1>6. \A t \in (wire \cup lost) \cap Made :
        t \in db' \cup Filling \cup forsaken' \/ t >= FillFrom(lastEvent, now)
  <2> SUFFICES ASSUME NEW t \in (wire \cup lost) \cap Made,
                      t \notin db' \cup Filling \cup forsaken'
               PROVE  t >= FillFrom(lastEvent, now)
    OBVIOUS
  <2>1. ~(t < FillFrom(lastEvent, now))
    BY <1>2
  <2>2. PICK from \in Int : from = FillFrom(lastEvent, now)
    BY <1>5
  <2>3. t \in Int
    BY <1>5
  <2>4. ~(t < from)
    BY <2>1, <2>2
  <2>5. t >= from
    BY <2>3, <2>4
  <2> QED  BY <2>2, <2>5
<1> QED  BY <1>1, <1>2, <1>4, <1>6, Disconnects

\* A connection attempt fails.
LEMMA FailConnectStep ==
  ASSUME IInv, NEW bad \in BOOLEAN, FailConnect(bad)
  PROVE  IInv'
<1>1. /\ conn = "off" /\ disconnected' = now
      /\ UNCHANGED <<now, conn, wire, lastEvent, startup, fills>>
      /\ faults' \in 0..MaxFaults
      /\ forsaken' = forsaken \cup
           IF disconnected # 0 /\ startup = {}
           THEN Times(FillFrom(lastEvent, disconnected), FillFrom(lastEvent, now)) \ db
           ELSE {}
  BY IngestAssumption DEF FailConnect, Fault, IInv, TypeOK
<1>2. now \in Nat /\ now >= 1 /\ Made' = Made /\ Made = 1..now /\ lastEvent \in 0..now /\ wire = {}
  BY <1>1 DEF IInv, TypeOK, Shape, Made
<1>3. forsaken \subseteq forsaken' /\ forsaken' \subseteq Made
  BY <1>1 DEF IInv, TypeOK, Times
<1>4. Drains({})
  BY FlushDrains DEF IInv, FailConnect
<1>5. /\ buffer' \in Seq(Made) /\ db' \in SUBSET Made
      /\ lastRow' \in {0} \cup db' /\ (lastRow' = 0) = (db' = {})
      /\ \A t \in ToSet(buffer') : t <= lastEvent
      /\ lastEvent = 0 => lastRow' = lastRow /\ ToSet(buffer) = {}
      /\ Filling' = Filling /\ Overdue'
  BY <1>1, <1>3, <1>4, Flushed
<1>6. TypeOK'
  BY <1>1, <1>2, <1>3, <1>5 DEF IInv, TypeOK
<1>7. Shape'
  BY <1>1, <1>2, <1>5 DEF IInv, Shape, Unattended
<1>8. Owed \ db \subseteq Owed' \cup forsaken'
  <2>1. CASE startup # {}
    <3>1. Owed = UNION {Times(lo, now + 1) : lo \in startup}
      BY <1>1, <2>1, OwedIs
    <3>2. Owed' = (UNION {Times(lo, now + 1) : lo \in startup})'
      BY <1>1, <2>1, OwedIsNext
    <3> QED  BY <1>1, <1>2, <3>1, <3>2 DEF Times
  <2>2. CASE startup = {} /\ disconnected # 0
    <3>1. Owed' = Times(FillFrom(lastEvent, disconnected), now + 1)'
      BY <1>1, <1>2, <2>2, OwedIsNext
    <3>2. FillFrom(lastEvent, disconnected)' = FillFrom(lastEvent, now)
      BY <1>1 DEF FillFrom
    <3>3. Owed = Times(FillFrom(lastEvent, disconnected), now + 1)
      BY <1>1, <2>2, OwedIs
    <3>4. FillFrom(lastEvent, now) \in Int
      BY <1>2, FromEvent, IngestAssumption DEF IInv
    <3> QED  BY <1>1, <1>2, <2>2, <3>1, <3>2, <3>3, <3>4 DEF Times
  <2>3. CASE startup = {} /\ disconnected = 0
    BY <1>1, <2>3 DEF Owed
  <2> QED  BY <2>1, <2>2, <2>3
<1>9. EveryTradeAccounted'
  BY <1>1, <1>2, <1>3, <1>4, <1>5, <1>8 DEF IInv, EveryTradeAccounted, Drains
<1> QED  BY <1>5, <1>6, <1>7, <1>9 DEF IInv

\* Connected: what was asked for is now the window of a task.
LEMMA ConnectStep ==
  ASSUME IInv, Connect, Margin # 0
  PROVE  IInv'
<1>1. /\ conn = "off" /\ conn' = "on" /\ startup' = {}
      /\ disconnected' \in {0, disconnected}
      /\ UNCHANGED <<now, wire, buffer, db, lastRow, lastEvent, faults, forsaken>>
      /\ fills \subseteq fills'
      /\ fills' = fills \cup (IF startup # {} THEN {FillTask(lo, FillTo) : lo \in startup}
                              ELSE IF disconnected # 0
                              THEN {FillTask(FillFrom(lastEvent, disconnected), FillTo)}
                              ELSE {})
  BY DEF Connect, table
<1>2. /\ now \in Nat /\ now >= 1 /\ now <= MaxTime /\ Made' = Made /\ Made = 1..now
      /\ lastEvent \in 0..now /\ disconnected \in 0..now
      /\ wire = {} /\ Margin \in Nat /\ Margin >= 1 /\ FillTo = now + Margin
      /\ MaxTime \in Nat
  BY <1>1, IngestAssumption DEF IInv, TypeOK, Shape, Made, FillTo
<1>3. \A f \in fills' \ fills :
        /\ f.hi = now + Margin /\ f.rows = {} /\ ~f.fetched /\ f \in FillTasks
  <2>1. ASSUME NEW lo \in (-Margin)..MaxTime
        PROVE  /\ FillTask(lo, FillTo).hi = now + Margin /\ FillTask(lo, FillTo).rows = {}
               /\ ~FillTask(lo, FillTo).fetched /\ FillTask(lo, FillTo) \in FillTasks
    <3>1. now + Margin \in 1..(MaxTime + Margin)
      BY <1>2
    <3> QED  BY <1>2, <3>1 DEF FillTask, FillTasks
  <2>2. startup \subseteq (-Margin)..MaxTime
    BY DEF IInv, TypeOK
  <2>3. FillFrom(lastEvent, disconnected) \in (-Margin)..MaxTime
    <3>1. FillFrom(lastEvent, disconnected) \in (-Margin)..(disconnected - Margin)
      BY <1>2, FromEvent DEF IInv
    <3> QED  BY <1>2, <3>1
  <2> QED  BY <1>1, <2>1, <2>2, <2>3
<1>4. TypeOK'
  <2>1. Cardinality({}) = 0
    BY FS_EmptySet
  <2>2. fills' \in SUBSET FillTasks
    BY <1>3 DEF IInv, TypeOK
  <2> QED  BY <1>1, <1>2, <2>1, <2>2 DEF IInv, TypeOK
<1>5. Shape'
  BY <1>1, <1>2, <1>3 DEF IInv, Shape, Unattended
<1>6. Owed \subseteq Filling'
  <2> SUFFICES ASSUME NEW t \in Owed PROVE t \in Filling'
    OBVIOUS
  <2>1. ASSUME NEW lo, t \in Times(lo, now + 1), FillTask(lo, FillTo) \in fills'
        PROVE  t \in Filling'
    <3>1. t \in Made /\ lo <= t /\ t < now + Margin
      BY <1>2, <2>1 DEF Times
    <3> DEFINE g == FillTask(lo, FillTo)
    <3>3. PICK h \in fills' : h = g
      BY <2>1
    <3>4. t \in Window(h)'
      BY <1>1, <1>2, <3>1, <3>3 DEF Window, FillTask, Times
    <3> QED  BY <3>3, <3>4 DEF Filling
  <2>2. CASE startup # {}
    <3>1. PICK lo \in startup : t \in Times(lo, now + 1)
      BY <1>1, <2>2, OwedIs
    <3> QED  BY <1>1, <2>1, <2>2, <3>1
  <2>3. CASE startup = {} /\ disconnected # 0
    BY <1>1, <2>1, <2>3, OwedIs
  <2>4. CASE startup = {} /\ disconnected = 0
    BY <1>1, <2>4 DEF Owed
  <2> QED  BY <2>2, <2>3, <2>4
<1>7. Filling \subseteq Filling'
  BY <1>1, <1>2 DEF Filling, Window, Times
<1>8. EveryTradeAccounted'
  BY <1>1, <1>2, <1>6, <1>7 DEF IInv, EveryTradeAccounted
<1>9. Overdue'
  <2> SUFFICES ASSUME NEW t \in Made', t \notin Settled', t >= lastEvent' - Margin
               PROVE  t >= lastRow' - Margin /\ \A f \in fills' : t > f.hi - Margin
    BY DEF Overdue
  <2>1. t \in Made /\ t \notin Settled /\ t \notin Owed
    BY <1>1, <1>2, <1>6, <1>7 DEF Settled
  <2>2. t \in ToSet(buffer)
    BY <1>1, <2>1, OnlyOwed
  <2>3. CASE startup # {} \/ disconnected # 0
    <3>1. lastEvent # 0 /\ startup = {} /\ lastEvent <= disconnected
      BY <1>1, <1>2, <2>2, <2>1 DEF IInv, Shape
    <3>2. FillFrom(lastEvent, disconnected) = lastEvent - Margin
      BY <1>2, <3>1, FromEvent DEF IInv
    <3>3. t \in Owed
      BY <1>1, <1>2, <2>1, <2>3, <3>1, <3>2, OwedIs DEF Times
    <3> QED  BY <2>1, <3>3
  <2>4. CASE startup = {} /\ disconnected = 0
    BY <1>1, <2>1, <2>4 DEF IInv, Overdue
  <2> QED  BY <2>3, <2>4
<1> QED  BY <1>4, <1>5, <1>8, <1>9 DEF IInv

\* REST answers: the rows it brought take the place of the window.
LEMMA FetchGapStep ==
  ASSUME IInv, NEW f \in fills, NEW missed \in SUBSET Window(f), FetchGap(f, missed)
  PROVE  IInv'
<1>1. /\ ~f.fetched /\ f \in FillTasks
      /\ fills' = (fills \ {f}) \cup {[f EXCEPT !.fetched = TRUE, !.rows = Window(f) \ missed]}
      /\ forsaken' = forsaken \cup missed
      /\ UNCHANGED <<now, conn, wire, buffer, db, lastRow, lastEvent, disconnected, startup>>
      /\ faults' \in 0..MaxFaults
  BY IngestAssumption DEF FetchGap, table, session, Fault, NoFault, IInv, TypeOK
<1>2. /\ now \in Nat /\ now <= MaxTime /\ Made' = Made /\ Made = 1..now /\ MaxTime \in Nat
  BY <1>1, IngestAssumption DEF IInv, TypeOK, Made
<1>3. Window(f) = Times(f.lo, f.hi) /\ Window(f) \subseteq Made
  BY <1>1 DEF Window, Times
<1>4. PICK g \in FillTasks :
        /\ fills' = (fills \ {f}) \cup {g}
        /\ g.fetched /\ g.rows = Window(f) \ missed /\ g.hi = f.hi
  <2> DEFINE r == [f EXCEPT !.fetched = TRUE, !.rows = Window(f) \ missed]
  <2>1. Window(f) \ missed \in SUBSET (1..MaxTime)
    BY <1>2, <1>3
  <2>2. r \in FillTasks /\ r.fetched /\ r.rows = Window(f) \ missed /\ r.hi = f.hi
    BY <1>1, <2>1 DEF FillTasks
  <2> HIDE DEF r
  <2>3. fills' = (fills \ {f}) \cup {r}
    BY <1>1 DEF r
  <2> QED  BY <2>2, <2>3, Zenon
<1>5. conn # "down" /\ startup = {} /\ ~Unattended
  BY DEF IInv, Shape, TypeOK
<1>6. TypeOK'
  <2>1. fills' \in SUBSET FillTasks
    BY <1>1, <1>4 DEF IInv, TypeOK
  <2>2. forsaken' \in SUBSET Made
    BY <1>1, <1>3 DEF IInv, TypeOK
  <2> QED  BY <1>1, <1>2, <2>1, <2>2 DEF IInv, TypeOK
<1>7. Shape'
  <2>1. /\ g.hi <= now + Margin
        /\ \A t \in g.rows : t \in Made /\ t < g.hi
    BY <1>3, <1>4 DEF IInv, Shape, Times
  <2>2. ~Unattended'
    BY <1>1, <1>5 DEF Unattended
  <2>3. \A h \in fills' : /\ h.hi <= now + Margin
                          /\ \A t \in h.rows : t \in Made /\ t < h.hi
    BY <1>4, <2>1 DEF IInv, Shape
  <2> QED  BY <1>1, <1>2, <1>5, <2>2, <2>3 DEF IInv, Shape
<1>8. Filling \subseteq Filling' \cup forsaken'
  <2> SUFFICES ASSUME NEW h \in fills, NEW t \in Window(h)
               PROVE  t \in Filling' \cup forsaken'
    BY DEF Filling
  <2>1. CASE h = f
    <3>1. CASE t \in missed
      BY <1>1, <3>1
    <3>2. CASE t \notin missed
      <4>1. t \in Window(g)'
        BY <1>4, <2>1, <3>2 DEF Window
      <4> QED  BY <1>4, <4>1 DEF Filling
    <3> QED  BY <3>1, <3>2
  <2>2. CASE h # f
    <3>1. t \in Window(h)'
      BY <1>2 DEF Window, Times
    <3> QED  BY <1>1, <2>2, <3>1 DEF Filling
  <2> QED  BY <2>1, <2>2
<1>9. Owed' = Owed
  BY <1>1, <1>2 DEF Owed, Times, StartFrom, FillFrom
<1>10. EveryTradeAccounted'
  BY <1>1, <1>2, <1>8, <1>9 DEF IInv, EveryTradeAccounted
<1>11. Overdue'
  <2> SUFFICES ASSUME NEW t \in Made', t \notin Settled', t >= lastEvent' - Margin
               PROVE  t >= lastRow' - Margin /\ \A h \in fills' : t > h.hi - Margin
    BY DEF Overdue
  <2>1. t \in Made /\ t \notin Settled
    BY <1>1, <1>2, <1>8 DEF Settled
  <2> QED  BY <1>1, <1>4, <2>1 DEF IInv, Overdue
<1> QED  BY <1>6, <1>7, <1>10, <1>11 DEF IInv

\* The rows of a task are inserted, or lost with their batch.
LEMMA InsertGapStep ==
  ASSUME IInv, NEW f \in fills, NEW failed \in SUBSET Window(f), InsertGap(f, failed)
  PROVE  IInv'
<1>1. /\ f.fetched /\ fills' = fills \ {f} /\ failed \subseteq f.rows
      /\ forsaken' = forsaken \cup failed
      /\ db' = db \cup (f.rows \ failed)
      /\ \/ db' = db /\ lastRow' = lastRow
         \/ db' # db /\ lastRow' \in db' \ db
      /\ UNCHANGED <<now, conn, wire, buffer, lastEvent, disconnected, startup>>
      /\ faults' \in 0..MaxFaults
  BY IngestAssumption DEF InsertGap, session, Fault, NoFault, IInv, TypeOK
<1>2. /\ now \in Nat /\ Made' = Made /\ Made = 1..now /\ Margin \in Nat
  BY <1>1, IngestAssumption DEF IInv, TypeOK, Made
<1>3. /\ f.rows \subseteq Made /\ \A t \in f.rows : t < f.hi
      /\ f.hi \in Int
  BY DEF IInv, Shape, TypeOK, FillTasks
<1>4. conn # "down" /\ startup = {} /\ ~Unattended
  BY DEF IInv, Shape, TypeOK
<1>5. TypeOK'
  <2>1. db' \in SUBSET Made /\ forsaken' \in SUBSET Made
    BY <1>1, <1>3 DEF IInv, TypeOK
  <2>2. lastRow' \in {0} \cup db' /\ (lastRow' = 0) = (db' = {})
    BY <1>1, <1>2, <2>1 DEF IInv, TypeOK
  <2> QED  BY <1>1, <1>2, <2>1, <2>2 DEF IInv, TypeOK
<1>6. Shape'
  <2>1. Unattended' = Unattended
    BY <1>1 DEF Unattended
  <2> QED  BY <1>1, <1>2, <1>4, <2>1 DEF IInv, Shape
<1>7. Filling \subseteq Filling' \cup forsaken' \cup db'
  <2> SUFFICES ASSUME NEW h \in fills, NEW t \in Window(h)
               PROVE  t \in Filling' \cup forsaken' \cup db'
    BY DEF Filling
  <2>1. CASE h = f
    BY <1>1, <2>1 DEF Window
  <2>2. CASE h # f
    <3>1. t \in Window(h)'
      BY <1>2 DEF Window, Times
    <3> QED  BY <1>1, <2>2, <3>1 DEF Filling
  <2> QED  BY <2>1, <2>2
<1>8. Owed' = Owed
  BY <1>1, <1>2, <1>4 DEF Owed, Times, FillFrom
<1>9. EveryTradeAccounted'
  <2>1. db \subseteq db' /\ forsaken \subseteq forsaken'
    BY <1>1
  <2>2. Made \subseteq db \cup ToSet(buffer) \cup wire \cup Filling \cup Owed \cup forsaken
    BY DEF IInv, EveryTradeAccounted
  <2>3. Made \subseteq db' \cup ToSet(buffer) \cup wire \cup Filling' \cup Owed \cup forsaken'
    BY <1>7, <2>1, <2>2
  <2>4. buffer' = buffer /\ wire' = wire /\ Made' = Made
    BY <1>1, <1>2
  <2> QED  BY <1>8, <2>3, <2>4, Zenon DEF EveryTradeAccounted
<1>10. Overdue'
  <2> SUFFICES ASSUME NEW t \in Made', t \notin Settled', t >= lastEvent' - Margin
               PROVE  t >= lastRow' - Margin /\ \A h \in fills' : t > h.hi - Margin
    BY DEF Overdue
  <2>1. t \in Made /\ t \notin Settled
    BY <1>1, <1>2, <1>7 DEF Settled
  <2>2. t >= lastRow - Margin /\ \A h \in fills : t > h.hi - Margin
    BY <1>1, <2>1 DEF IInv, Overdue
  <2>3. lastRow' = lastRow \/ (lastRow' \in Nat /\ lastRow' < f.hi)
    BY <1>1, <1>2, <1>3
  <2>4. t > f.hi - Margin /\ t \in Nat
    BY <1>2, <2>1, <2>2
  <2> QED  BY <1>1, <1>2, <1>3, <2>2, <2>3, <2>4
<1> QED  BY <1>5, <1>6, <1>9, <1>10 DEF IInv

\* The process ends: what it held, and the newest row does not hide, the next start
\* asks for.
LEMMA Ends ==
  ASSUME IInv, ProcessEnds, db' \in SUBSET Made, db \subseteq db',
         lastRow' \in {0} \cup db', (lastRow' = 0) = (db' = {}),
         forsaken \subseteq forsaken', forsaken' \subseteq Made,
         \A t \in wire \cup ToSet(buffer) \cup Filling :
           t \in db' \cup forsaken' \/ t >= lastRow' - Margin,
         \A t \in Made \ Settled : t \in Owed => t >= lastRow' - Margin
  PROVE  IInv'
<1>1. /\ conn' = "down" /\ wire' = {} /\ buffer' = << >> /\ fills' = {}
      /\ lastEvent' = 0 /\ disconnected' = 0 /\ startup' = {} /\ now' = now
      /\ faults' \in 0..MaxFaults
  BY IngestAssumption DEF ProcessEnds, Fault, IInv, TypeOK
<1>2. /\ now \in Nat /\ Made' = Made /\ Made = 1..now /\ lastRow' \in Nat /\ Margin \in Nat
  BY <1>1, IngestAssumption DEF IInv, TypeOK, Made
<1>3. TypeOK'
  <2>1. Cardinality({}) = 0
    BY FS_EmptySet
  <2> QED  BY <1>1, <1>2, <2>1 DEF IInv, TypeOK
<1>4. ToSet(buffer') = {}
  BY <1>1 DEF ToSet
<1>5. Shape'
  BY <1>1, <1>4 DEF Shape, Unattended
<1>6. \A t \in Made : t \in db' \cup forsaken' \/ t >= lastRow' - Margin
  BY DEF IInv, EveryTradeAccounted, Settled
<1>7. Owed' = Times(StartFrom, now + 1)'
  BY <1>1, OwedIsNext
<1>8. EveryTradeAccounted'
  <2> SUFFICES ASSUME NEW t \in Made, t \notin db' \cup forsaken'
               PROVE  t \in Owed'
    BY <1>2 DEF EveryTradeAccounted
  <2>1. PICK r \in Nat : r = lastRow'
    BY <1>2
  <2>2. t >= r - Margin
    BY <1>6, <2>1
  <2>3. Owed' = {x \in Made : r - Margin <= x /\ x < now + 1}
    BY <1>1, <1>2, <1>7, <2>1 DEF Times, StartFrom
  <2>4. r - Margin <= t /\ t < now + 1
    BY <1>2, <2>2
  <2> QED  BY <2>3, <2>4
<1>9. Overdue'
  BY <1>1, <1>2, <1>6 DEF Overdue, Settled
<1> QED  BY <1>3, <1>5, <1>8, <1>9 DEF IInv

LEMMA CrashStep ==
  ASSUME IInv, Crash
  PROVE  IInv'
<1>1. /\ ProcessEnds /\ db' = db /\ lastRow' = lastRow
      /\ forsaken' = forsaken \cup
           {t \in (wire \cup ToSet(buffer) \cup Filling) \ db : t < lastRow - Margin}
  BY DEF Crash, table, Behind
<1>2. /\ ToSet(buffer) \subseteq Made /\ wire \subseteq Made /\ Filling \subseteq Made
  <2>1. buffer \in Seq(Made)
    BY DEF IInv, TypeOK
  <2> QED  BY <2>1 DEF ToSet, IInv, TypeOK, Shape, Filling, Window, Times
<1>3. /\ Made \subseteq Nat /\ lastRow \in Nat /\ Margin \in Nat
  BY IngestAssumption DEF IInv, TypeOK, Made
<1>4. /\ forsaken \subseteq forsaken' /\ forsaken' \subseteq Made
  BY <1>1, <1>2 DEF IInv, TypeOK
<1>5. ASSUME NEW t \in wire \cup ToSet(buffer) \cup Filling
      PROVE  t \in db' \cup forsaken' \/ t >= lastRow' - Margin
  <2>1. t \in Nat
    BY <1>2, <1>3
  <2> QED  BY <1>1, <1>3, <2>1
<1>6. ASSUME NEW t \in Made \ Settled, t \in Owed
      PROVE  t >= lastRow' - Margin
  <2>1. conn = "off"
    BY <1>1, <1>6 DEF ProcessEnds, Owed, IInv, TypeOK
  <2>2. CASE startup # {}
    BY <1>1, <1>6, <2>1, <2>2, OwedIs DEF IInv, Shape, Times
  <2>3. CASE startup = {}
    <3>1. disconnected # 0
      BY <1>6, <2>1, <2>3 DEF Owed
    <3>2. t >= lastEvent - Margin
      BY <1>6, <2>1, <2>3, <3>1, OwedIsLate
    <3> QED  BY <1>1, <1>6, <3>2 DEF IInv, Overdue
  <2> QED  BY <2>2, <2>3
<1> QED  BY <1>1, <1>4, <1>5, <1>6, Ends DEF IInv, TypeOK

\* SIGTERM: the buffer is stored first.
LEMMA StopStep ==
  ASSUME IInv, Stop
  PROVE  IInv'
<1>1. /\ ProcessEnds /\ InsertRows(buffer)
      /\ forsaken' = forsaken \cup {t \in (wire \cup Filling) \ db' : t < lastRow' - Margin}
  BY DEF Stop, Behind
<1>2. /\ ToSet(buffer) \subseteq Made /\ wire \subseteq Made /\ Filling \subseteq Made
      /\ buffer \in Seq(Nat)
  <2>1. buffer \in Seq(Made) /\ buffer \in Seq(Nat)
    BY DEF IInv, TypeOK, Made
  <2> QED  BY <2>1 DEF ToSet, IInv, TypeOK, Shape, Filling, Window, Times
<1>3. /\ Made \subseteq Nat /\ lastRow \in Nat /\ Margin \in Nat /\ 0 \notin Made
      /\ lastEvent \in Nat
  BY IngestAssumption DEF IInv, TypeOK, Made
<1>4. /\ db' = db \cup ToSet(buffer)
      /\ \/ lastRow' = lastRow /\ ToSet(buffer) \subseteq db
         \/ lastRow' \in ToSet(buffer) \ db
  BY <1>1, <1>2, Inserts
<1>5. /\ db' \in SUBSET Made /\ db \subseteq db' /\ lastRow' \in {0} \cup db'
      /\ (lastRow' = 0) = (db' = {}) /\ lastRow' \in Nat
  BY <1>2, <1>3, <1>4 DEF IInv, TypeOK
<1>6. /\ forsaken \subseteq forsaken' /\ forsaken' \subseteq Made
  BY <1>1, <1>2 DEF IInv, TypeOK
<1>7. ASSUME NEW t \in wire \cup ToSet(buffer) \cup Filling
      PROVE  t \in db' \cup forsaken' \/ t >= lastRow' - Margin
  <2>1. t \in Nat
    BY <1>2, <1>3
  <2>2. PICK r \in Nat : r = lastRow'
    BY <1>5
  <2>3. CASE t \in ToSet(buffer)
    BY <1>4, <2>3
  <2>4. CASE t \notin ToSet(buffer)
    <3>1. t \in db' \cup forsaken' \/ ~(t < r - Margin)
      BY <1>1, <1>7, <2>2, <2>4
    <3>2. ~(t < r - Margin) => t >= r - Margin
      BY <1>3, <2>1
    <3> QED  BY <2>2, <3>1, <3>2, Zenon
  <2> QED  BY <2>3, <2>4
<1>8. ASSUME NEW t \in Made \ Settled, t \in Owed
      PROVE  t >= lastRow' - Margin
  <2>1. conn = "off"
    BY <1>1, <1>8 DEF ProcessEnds, Owed, IInv, TypeOK
  <2>2. CASE startup # {}
    <3>1. ToSet(buffer) = {}
      <4>1. \A x \in ToSet(buffer) : x <= 0 /\ x \in Nat /\ x # 0
        BY <1>2, <1>3, <2>2 DEF IInv, Shape
      <4> QED  BY <4>1
    <3> QED  BY <1>4, <1>8, <2>1, <2>2, <3>1, OwedIs DEF IInv, Shape, Times
  <2>3. CASE startup = {}
    <3>1. disconnected # 0
      BY <1>8, <2>1, <2>3 DEF Owed
    <3>2. t >= lastEvent - Margin
      BY <1>8, <2>1, <2>3, <3>1, OwedIsLate
    <3>3. t >= lastRow - Margin
      BY <1>8, <3>2 DEF IInv, Overdue
    <3>4. lastRow' = lastRow \/ lastRow' <= lastEvent
      BY <1>4 DEF IInv, Shape
    <3>5. t \in Nat
      BY <1>3, <1>8
    <3>6. PICK r \in Nat : r = lastRow'
      BY <1>5
    <3>7. r = lastRow \/ r <= lastEvent
      BY <3>4, <3>6
    <3>8. t >= r - Margin
      BY <1>3, <3>2, <3>3, <3>5, <3>7
    <3> QED  BY <3>6, <3>8
  <2> QED  BY <2>2, <2>3
<1> QED  BY <1>1, <1>5, <1>6, <1>7, <1>8, Ends

\* The process starts.
LEMMA StartStep ==
  ASSUME IInv, NEW known \in BOOLEAN, Start(known)
  PROVE  IInv'
<1>1. /\ conn = "down" /\ conn' = "off"
      /\ UNCHANGED <<now, wire, buffer, db, lastRow, lastEvent, disconnected, fills>>
      /\ \/ startup' = {lastRow - Margin} /\ forsaken' = forsaken
         \/ startup' = {} /\ forsaken' = forsaken \cup (Made \ db)
  BY DEF Start, StartFrom, table
<1>0. faults' \in 0..MaxFaults
  BY IngestAssumption DEF Start, Fault, NoFault, IInv, TypeOK
<1>2. /\ now \in Nat /\ now <= MaxTime /\ Made' = Made /\ Made = 1..now /\ lastRow \in 0..now
      /\ Margin \in Nat /\ MaxTime \in Nat
      /\ buffer = << >> /\ fills = {} /\ lastEvent = 0 /\ disconnected = 0 /\ wire = {}
  BY <1>1, IngestAssumption DEF IInv, TypeOK, Shape, Made
<1>3. ToSet(buffer) = {} /\ Filling = {} /\ Filling' = {}
  BY <1>1, <1>2 DEF ToSet, Filling
<1>4. TypeOK'
  <2>1. Cardinality({}) = 0 /\ Cardinality({lastRow - Margin}) = 1
    BY FS_EmptySet, FS_Singleton
  <2>2. startup' \in SUBSET ((-Margin)..MaxTime) /\ Cardinality(startup') <= 1
    <3>1. lastRow - Margin \in (-Margin)..MaxTime
      BY <1>2
    <3> QED  BY <1>1, <2>1, <3>1
  <2> QED  BY <1>0, <1>1, <1>2, <2>2 DEF IInv, TypeOK
<1>5. Shape'
  BY <1>1, <1>2, <1>3 DEF IInv, Shape, Unattended
<1>6. EveryTradeAccounted'
  <2>1. CASE startup' = {lastRow - Margin} /\ forsaken' = forsaken
    <3>1. Owed' = (UNION {Times(lo, now + 1) : lo \in startup})'
      BY <1>1, <2>1, OwedIsNext
    <3>2. Owed' = Times(StartFrom, now + 1)
      BY <1>1, <1>2, <2>1, <3>1 DEF Times, StartFrom
    <3> QED  BY <1>1, <1>2, <1>3, <2>1, <3>2, OwedIs DEF IInv, EveryTradeAccounted
  <2>2. CASE forsaken' = forsaken \cup (Made \ db)
    BY <1>1, <1>2, <2>2 DEF EveryTradeAccounted
  <2> QED  BY <1>1, <2>1, <2>2
<1>7. Overdue'
  BY <1>1, <1>2, <1>3 DEF IInv, Overdue, Settled
<1> QED  BY <1>4, <1>5, <1>6, <1>7 DEF IInv

-----------------------------------------------------------------------------
(* Theorems *)

LEMMA IInvInit == Init => IInv
<1> SUFFICES ASSUME Init PROVE IInv
  OBVIOUS
<1>1. PICK old \in SUBSET {1} : db = old /\ lastRow = Cardinality(old)
  BY DEF Init
<1>2. /\ now = 1 /\ conn = "down" /\ wire = {} /\ buffer = << >> /\ fills = {}
      /\ lastEvent = 0 /\ disconnected = 0 /\ startup = {} /\ faults = 0 /\ forsaken = {}
  BY DEF Init
<1>3. Made = {1} /\ Margin \in Nat /\ MaxTime \in Nat \ {0} /\ MaxFaults \in Nat
  BY <1>2, IngestAssumption DEF Made
<1>4. (db = {} /\ lastRow = 0) \/ (db = {1} /\ lastRow = 1)
  <2>1. old = {} \/ old = {1}
    OBVIOUS
  <2>2. Cardinality({}) = 0 /\ Cardinality({1}) = 1
    BY FS_EmptySet, FS_Singleton
  <2> QED  BY <1>1, <2>1, <2>2
<1>5. TypeOK
  <2>1. Cardinality({}) = 0
    BY FS_EmptySet
  <2> QED  BY <1>2, <1>3, <1>4, <2>1 DEF TypeOK
<1>6. ToSet(buffer) = {} /\ Filling = {}
  BY <1>2 DEF ToSet, Filling
<1>7. Shape
  BY <1>2, <1>6 DEF Shape, Unattended
<1>8. EveryTradeAccounted
  BY <1>2, <1>3, <1>4, <1>6, OwedIs DEF EveryTradeAccounted, Times, StartFrom
<1>9. Overdue
  BY <1>2, <1>3, <1>4 DEF Overdue, Settled
<1> QED  BY <1>5, <1>7, <1>8, <1>9 DEF IInv

LEMMA IInvNext ==
  ASSUME Margin # 0, IInv, [Next]_vars
  PROVE  IInv'
<1>1. CASE UNCHANGED vars
  <2>1. UNCHANGED <<now, conn, wire, buffer, db, lastRow, lastEvent, disconnected, startup,
                    fills, faults, forsaken>>
    BY <1>1 DEF vars, table, session
  <2>2. Made' = Made /\ Filling' = Filling /\ Owed' = Owed /\ Unattended' = Unattended
    BY <2>1 DEF Made, Filling, Window, Times, Owed, StartFrom, FillFrom, Unattended
  <2>3. TypeOK' /\ Shape'
    BY <2>1, <2>2 DEF IInv, TypeOK, Shape
  <2>4. EveryTradeAccounted' /\ Overdue'
    BY <2>1, <2>2 DEF IInv, EveryTradeAccounted, Overdue, Settled
  <2> QED  BY <2>3, <2>4 DEF IInv
<1>2. CASE Tick \/ Connect \/ Stop \/ Crash \/ FlushRaises
  BY <1>2, TickStep, ConnectStep, StopStep, CrashStep, FlushRaisesStep
<1>6. CASE \E known \in BOOLEAN : Start(known)
  BY <1>6, StartStep
<1>3. CASE \E t \in wire : Receive(t)
  BY <1>3, ReceiveStep
<1>4. CASE \E bad \in BOOLEAN : PeriodicFlush(bad) \/ Drop(bad) \/ FailConnect(bad)
  BY <1>4, PeriodicFlushStep, DropStep, FailConnectStep
<1>5. ASSUME NEW f \in fills, NEW s \in SUBSET Window(f), FetchGap(f, s) \/ InsertGap(f, s)
      PROVE  IInv'
  <2>1. CASE FetchGap(f, s)
    BY <2>1, FetchGapStep
  <2>2. CASE InsertGap(f, s)
    BY <2>2, InsertGapStep
  <2> QED  BY <1>5, <2>1, <2>2
<1> QED  BY <1>1, <1>2, <1>3, <1>4, <1>5, <1>6 DEF Next

LEMMA Inductive ==
  ASSUME Margin # 0
  PROVE  Spec => []IInv
BY IInvInit, IInvNext, PTL DEF Spec

\* The types hold: the newest row is a row, the last event and the disconnection
\* are in the past, a window ends at most Margin after now (producer.py).
THEOREM IngestTypeCorrect ==
  ASSUME Margin # 0
  PROVE  Spec => []TypeOK
BY Inductive, PTL DEF IInv

\* No trade is in a hole that nobody asks for, however reordering, outages, failed
\* flushes, crashes and restarts are combined (subscribe_upbit, flush, gap_fill).
THEOREM TradesAccounted ==
  ASSUME Margin # 0
  PROVE  Spec => []EveryTradeAccounted
BY Inductive, PTL DEF IInv

\* After the first trade an outage, however long and however often its connection
\* attempts fail, costs only trades overtaken by more than the margin.
THEOREM OutageBound ==
  ASSUME Margin # 0
  PROVE  Spec => OutageCostsStragglersOnly
<1>1. ASSUME IInv, [Next]_vars
      PROVE  [\A t \in forsaken' \ forsaken :
               (\E bad \in BOOLEAN : Drop(bad) \/ FailConnect(bad)) /\ lastEvent # 0
                 => t < lastEvent - Margin]_vars
  <2> SUFFICES ASSUME NEW t \in forsaken' \ forsaken, NEW bad \in BOOLEAN,
                      Drop(bad) \/ FailConnect(bad), lastEvent # 0
               PROVE  t < lastEvent - Margin
    OBVIOUS
  <2>1. t < FillFrom(lastEvent, now)
    BY DEF Drop, FailConnect, Times
  <2>2. FillFrom(lastEvent, now) <= lastEvent - Margin /\ FillFrom(lastEvent, now) \in Int
    <3>1. TypeOK /\ now \in Nat /\ Margin \in Nat
      BY <1>1, IngestAssumption DEF IInv, TypeOK
    <3> QED  BY <3>1, FromEvent
  <2>3. t \in Int /\ lastEvent \in Int /\ Margin \in Int
    <3>1. forsaken' \in SUBSET (1..now')
      BY <1>1, IInvNext DEF IInv, TypeOK, Made
    <3>2. lastEvent \in Int
      BY <1>1 DEF IInv, TypeOK
    <3> QED  BY <3>1, <3>2, IngestAssumption
  <2> QED  BY <2>1, <2>2, <2>3
<1> QED  BY <1>1, Inductive, PTL DEF Spec, OutageCostsStragglersOnly
=============================================================================
