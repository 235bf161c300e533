----------------------------- MODULE DataPathProofs -----------------------------
(* Proofs about DataPath, for every value of its constants: the mirror of the
   ledger agrees with MySQL, and the collector loses no frame silently; what a
   stream job has read past is stored, dead or held, through failed flushes,
   crashes, checkpoints, restarts, redeployments and the reprocessing beside it;
   the minutes of the order book are exact and complete; a reprocessing that ends
   has repaired its window; and the types of all these parts. *)
EXTENDS DataPath, FiniteSetTheorems, TLAPS


-----------------------------------------------------------------------------
(* The mirror of the ledger *)

Ops == {"c", "u", "d"}

Event == [op : Ops, id : Orders, version : Nat \ {0}]

\* Types, and where the reader of the topic may stand.
LMTypeOK ==
  /\ rows \in [Orders -> Nat] /\ buried \in [Orders -> Nat]
  /\ events \in Seq(Event)
  /\ mirror \in [Orders -> [version : Nat, deleted : BOOLEAN]]
  /\ read \in [pos : Nat, far : Nat] /\ read.pos <= read.far /\ read.far <= Len(events)

\* What the topic says of rows that are or were there: no event is above the
\* rows and graves of MySQL.
Truthful(e) ==
  IF e.op = "d" THEN e.version <= buried[e.id]
  ELSE e.version <= rows[e.id] \/ e.version <= buried[e.id]

\* e is the newest change of a row of o; e is the deletion of its highest version.
Changes(e, o) == e.id = o /\ e.op # "d" /\ e.version = rows[o]
Buries(e, o) == e.id = o /\ e.op = "d" /\ e.version = buried[o]

\* The topic tells the whole story: of every row its last version, of every
\* grave the deletion.
TopicOK ==
  /\ \A i \in 1..Len(events) : Truthful(events[i])
  /\ \A o \in Orders : rows[o] > 0 => \E i \in 1..Len(events) : Changes(events[i], o)
  /\ \A o \in Orders : buried[o] > 0 => \E i \in 1..Len(events) : Buries(events[i], o)

\* m is the row that e writes.
Image(m, e) == m.version = Version(e) /\ (m.deleted <=> e.op = "d")

\* The mirror holds an event it has read, and none above it.
MirrorOK ==
  /\ \A i \in 1..read.far : Version(events[i]) <= mirror[events[i].id].version
  /\ \A o \in Orders :
       \/ mirror[o].version = 0 /\ mirror[o].deleted
       \/ \E i \in 1..read.far : events[i].id = o /\ Image(mirror[o], events[i])

LMInv == LMTypeOK /\ TopicOK /\ MirrorOK

LEMMA LMStarts == LMInit => LMInv
<1> SUFFICES ASSUME LMInit PROVE LMInv
  OBVIOUS
<1>1. LMTypeOK
  BY DEF LMInit, LMTypeOK, Event
<1>2. TopicOK
  BY DEF LMInit, TopicOK
<1>3. MirrorOK
  BY DEF LMInit, MirrorOK
<1> QED  BY <1>1, <1>2, <1>3 DEF LMInv

\* An event added to a sequence: what is there stays where it was.
LEMMA Appended ==
  ASSUME NEW s \in Seq(Event), NEW e \in Event
  PROVE  /\ Append(s, e) \in Seq(Event)
         /\ Len(Append(s, e)) = Len(s) + 1
         /\ Append(s, e)[Len(s) + 1] = e
         /\ \A i \in 1..Len(s) : Append(s, e)[i] = s[i] /\ s[i] \in Event
  OBVIOUS

\* The invariant says of a write to MySQL what is common to both kinds of it: the
\* graves and the other rows stand, and the reader has not moved.
LEMMA WriteKeeps ==
  ASSUME LMInv, NEW o \in Orders, NEW e \in Event,
         rows' \in [Orders -> Nat], buried' \in [Orders -> Nat],
         events' = Append(events, e), e.id = o,
         UNCHANGED <<read, mirror>>,
         \A q \in Orders \ {o} : rows'[q] = rows[q] /\ buried'[q] = buried[q],
         buried[o] <= buried'[o],
         rows[o] <= rows'[o] \/ rows[o] <= buried'[o],
         Truthful(e)',
         rows'[o] > 0 => Changes(e, o)',
         buried'[o] > 0 => Buries(e, o)' \/ buried'[o] = buried[o]
  PROVE  LMInv'
<1> USE DEF LMInv
<1>0. /\ events \in Seq(Event) /\ rows \in [Orders -> Nat] /\ buried \in [Orders -> Nat]
      /\ read.far \in Nat /\ read.far <= Len(events)
  BY DEF LMTypeOK
<1>1. /\ events' \in Seq(Event) /\ Len(events') = Len(events) + 1
      /\ events'[Len(events) + 1] = e
      /\ \A i \in 1..Len(events) : events'[i] = events[i] /\ events[i] \in Event
  BY <1>0, Appended
<1>2. LMTypeOK'
  BY <1>1, <1>0 DEF LMTypeOK
<1>3. ASSUME NEW i \in 1..Len(events') PROVE Truthful(events[i])'
  <2>1. CASE i = Len(events) + 1
    BY <2>1, <1>1
  <2>2. CASE i \in 1..Len(events)
    <3> DEFINE f == events[i]
    <3>1. f \in Event /\ events'[i] = f
      BY <2>2, <1>1
    <3>2. Truthful(f)
      BY <2>2 DEF TopicOK
    <3>3. /\ f.id \in Orders /\ f.version \in Nat
          /\ rows[f.id] \in Nat /\ buried[f.id] \in Nat
          /\ rows'[f.id] \in Nat /\ buried'[f.id] \in Nat
      BY <3>1, <1>0 DEF Event
    <3>4. buried[f.id] <= buried'[f.id]
      BY <3>3
    <3>5. rows[f.id] <= rows'[f.id] \/ rows[f.id] <= buried'[f.id]
      BY <3>3
    <3> HIDE DEF f
    <3> QED  BY <3>1, <3>2, <3>3, <3>4, <3>5 DEF Truthful
  <2> QED  BY <2>1, <2>2, <1>0, <1>1
<1>4. ASSUME NEW q \in Orders, rows'[q] > 0
      PROVE  \E i \in 1..Len(events') : Changes(events[i], q)'
  <2>1. CASE q = o
    <3>1. Len(events) + 1 \in 1..Len(events')
      BY <1>0, <1>1
    <3> QED  BY <3>1, <2>1, <1>4, <1>1
  <2>2. CASE q # o
    <3>1. PICK i \in 1..Len(events) : Changes(events[i], q)
      BY <2>2, <1>4 DEF TopicOK
    <3>2. i \in 1..Len(events') /\ events'[i] = events[i]
      BY <1>0, <1>1
    <3> QED  BY <3>1, <3>2, <2>2 DEF Changes
  <2> QED  BY <2>1, <2>2
<1>5. ASSUME NEW q \in Orders, buried'[q] > 0
      PROVE  \E i \in 1..Len(events') : Buries(events[i], q)'
  <2>1. CASE q = o /\ Buries(e, o)'
    <3>1. Len(events) + 1 \in 1..Len(events')
      BY <1>0, <1>1
    <3> QED  BY <3>1, <2>1, <1>1
  <2>2. CASE buried'[q] = buried[q]
    <3>1. PICK i \in 1..Len(events) : Buries(events[i], q)
      BY <2>2, <1>5 DEF TopicOK
    <3>2. i \in 1..Len(events') /\ events'[i] = events[i]
      BY <1>0, <1>1
    <3> QED  BY <3>1, <3>2, <2>2 DEF Buries
  <2> QED  BY <2>1, <2>2, <1>5
<1>6. TopicOK'
  BY <1>3, <1>4, <1>5 DEF TopicOK
<1>7. MirrorOK'
  <2>1. /\ read' = read /\ mirror' = mirror
        /\ \A i \in 1..read.far : i \in 1..Len(events) /\ events'[i] = events[i]
    BY <1>0, <1>1
  <2> QED  BY <2>1 DEF MirrorOK, Image, Version
<1> QED  BY <1>2, <1>6, <1>7

LEMMA UpsertKeeps == ASSUME LMInv, NEW o \in Orders, Upsert(o) PROVE LMInv'
<1>1. /\ rows \in [Orders -> Nat] /\ buried \in [Orders -> Nat]
  BY DEF LMInv, LMTypeOK
<1>0. PICK e \in Event :
        e = [op |-> IF rows[o] = 0 THEN "c" ELSE "u", id |-> o, version |-> rows[o] + 1]
  <2>1. rows[o] + 1 \in Nat \ {0}
    BY <1>1
  <2>2. [op |-> IF rows[o] = 0 THEN "c" ELSE "u", id |-> o, version |-> rows[o] + 1] \in Event
    BY <2>1 DEF Event, Ops
  <2> QED  BY <2>2, Zenon
<1>2. /\ rows' = [rows EXCEPT ![o] = @ + 1] /\ buried' = buried
      /\ events' = Append(events, e) /\ UNCHANGED <<read, mirror>>
  BY <1>0 DEF Upsert, Log
<1>3. e.id = o /\ e.op # "d" /\ e.version = rows[o] + 1
  BY <1>0
<1>4. /\ rows' \in [Orders -> Nat] /\ rows'[o] = rows[o] + 1
      /\ \A q \in Orders \ {o} : rows'[q] = rows[q]
  BY <1>1, <1>2
<1>5. Truthful(e)' /\ Changes(e, o)'
  BY <1>1, <1>3, <1>4 DEF Truthful, Changes
<1>6. /\ rows[o] <= rows'[o] /\ buried[o] <= buried'[o]
      /\ buried' \in [Orders -> Nat] /\ buried'[o] = buried[o]
      /\ \A q \in Orders \ {o} : rows'[q] = rows[q] /\ buried'[q] = buried[q]
  BY <1>1, <1>2, <1>4
<1> QED  BY <1>2, <1>3, <1>4, <1>5, <1>6, WriteKeeps

LEMMA DeleteKeeps == ASSUME LMInv, NEW o \in Orders, Delete(o) PROVE LMInv'
<1>1. /\ rows \in [Orders -> Nat] /\ buried \in [Orders -> Nat] /\ rows[o] > 0
  BY DEF LMInv, LMTypeOK, Delete
<1>0. PICK e \in Event : e = [op |-> "d", id |-> o, version |-> rows[o]]
  <2>1. rows[o] \in Nat \ {0}
    BY <1>1
  <2>2. [op |-> "d", id |-> o, version |-> rows[o]] \in Event
    BY <2>1 DEF Event, Ops
  <2> QED  BY <2>2, Zenon
<1>2. /\ rows' = [rows EXCEPT ![o] = 0]
      /\ buried' = [buried EXCEPT ![o] = IF rows[o] > @ THEN rows[o] ELSE @]
      /\ events' = Append(events, e) /\ UNCHANGED <<read, mirror>>
  BY <1>0 DEF Delete, Log
<1>3. e.id = o /\ e.op = "d" /\ e.version = rows[o]
  BY <1>0
<1>4. /\ rows' \in [Orders -> Nat] /\ buried' \in [Orders -> Nat] /\ rows'[o] = 0
      /\ buried'[o] = (IF rows[o] > buried[o] THEN rows[o] ELSE buried[o])
      /\ \A q \in Orders \ {o} : rows'[q] = rows[q] /\ buried'[q] = buried[q]
  BY <1>1, <1>2
<1>5. Truthful(e)' /\ (Buries(e, o)' \/ buried'[o] = buried[o])
  BY <1>1, <1>3, <1>4 DEF Truthful, Buries
<1>6. buried[o] <= buried'[o] /\ rows[o] <= buried'[o]
  BY <1>1, <1>4
<1>7. ~(rows'[o] > 0)
  BY <1>4
<1> QED  BY <1>2, <1>3, <1>4, <1>5, <1>6, <1>7, WriteKeeps

LEMMA MirrorKeeps == ASSUME LMInv, Mirror PROVE LMInv'
<1> DEFINE n == read.pos + 1  e == events[n]  k == e.id
<1>1. /\ rows' = rows /\ buried' = buried /\ events' = events /\ n <= Len(events)
      /\ mirror' = [mirror EXCEPT ![k] = Replace(@, e)]
      /\ read' = [pos |-> n, far |-> IF n > read.far THEN n ELSE read.far]
  BY DEF Mirror, LMInv, LMTypeOK
<1>2. /\ events \in Seq(Event) /\ read.pos \in Nat /\ read.far \in Nat
      /\ read.pos <= read.far /\ read.far <= Len(events)
      /\ mirror \in [Orders -> [version : Nat, deleted : BOOLEAN]]
  BY DEF LMInv, LMTypeOK
<1>3. /\ n \in 1..Len(events) /\ e \in Event /\ k \in Orders
      /\ Version(e) \in Nat /\ e.op \in Ops
  <2>1. n \in 1..Len(events)
    BY <1>1, <1>2
  <2>2. e \in Event
    BY <2>1, <1>2
  <2> HIDE DEF e
  <2> QED  BY <2>1, <2>2 DEF Event, Version
<1>4. /\ read'.pos = n /\ read'.far = (IF n > read.far THEN n ELSE read.far)
      /\ \A i \in 1..read'.far : i = n \/ i \in 1..read.far
      /\ 1..read.far \subseteq 1..read'.far /\ n \in 1..read'.far
  BY <1>1, <1>2, <1>3
<1>5. /\ Replace(mirror[k], e) \in [version : Nat, deleted : BOOLEAN]
      /\ mirror[k].version <= Replace(mirror[k], e).version
      /\ Version(e) <= Replace(mirror[k], e).version
      /\ Replace(mirror[k], e) = mirror[k] \/ Image(Replace(mirror[k], e), e)
  <2> HIDE DEF e, k
  <2>1. mirror[k].version \in Nat /\ mirror[k] \in [version : Nat, deleted : BOOLEAN]
    BY <1>2, <1>3
  <2>2. CASE Version(e) >= mirror[k].version
    <3>1. Replace(mirror[k], e) = [version |-> Version(e), deleted |-> e.op = "d"]
      BY <2>2 DEF Replace
    <3>2. /\ Replace(mirror[k], e).version = Version(e)
          /\ Replace(mirror[k], e).deleted = (e.op = "d")
      <4>1. PICK v, b : v = Version(e) /\ b = (e.op = "d")
        OBVIOUS
      <4>2. Replace(mirror[k], e) = [version |-> v, deleted |-> b]
        BY <3>1, <4>1, Zenon
      <4>3. Replace(mirror[k], e).version = v /\ Replace(mirror[k], e).deleted = b
        BY <4>2
      <4> QED  BY <4>1, <4>3, Zenon
    <3>3. Replace(mirror[k], e) \in [version : Nat, deleted : BOOLEAN]
      BY <3>1, <1>3
    <3>4. Image(Replace(mirror[k], e), e)
      BY <3>2, Zenon DEF Image
    <3>5. /\ mirror[k].version <= Replace(mirror[k], e).version
          /\ Version(e) <= Replace(mirror[k], e).version
      BY <3>2, <2>1, <2>2, <1>3
    <3> QED  BY <3>3, <3>4, <3>5
  <2>3. CASE ~(Version(e) >= mirror[k].version)
    <3>1. Replace(mirror[k], e) = mirror[k]
      BY <2>3 DEF Replace
    <3> QED  BY <3>1, <2>1, <2>3, <1>3
  <2> QED  BY <2>2, <2>3
<1>6. /\ mirror' \in [Orders -> [version : Nat, deleted : BOOLEAN]]
      /\ mirror'[k] = Replace(mirror[k], e)
      /\ \A q \in Orders : q # k => mirror'[q] = mirror[q]
      /\ \A q \in Orders : mirror[q].version <= mirror'[q].version
  <2> HIDE DEF e, k
  <2>1. /\ mirror' \in [Orders -> [version : Nat, deleted : BOOLEAN]]
        /\ mirror'[k] = Replace(mirror[k], e)
        /\ \A q \in Orders : q # k => mirror'[q] = mirror[q]
    BY <1>1, <1>2, <1>3, <1>5
  <2>2. \A q \in Orders : mirror[q].version \in Nat
    BY <1>2
  <2> QED  BY <2>1, <2>2, <1>5
<1>7. LMTypeOK'
  BY <1>1, <1>2, <1>3, <1>4, <1>6 DEF LMInv, LMTypeOK
<1>8. TopicOK'
  BY <1>1 DEF LMInv, TopicOK, Truthful, Changes, Buries
<1>9. ASSUME NEW i \in 1..read'.far
      PROVE  Version(events[i]) <= mirror'[events[i].id].version
  <2>1. CASE i = n
    BY <2>1, <1>5, <1>6
  <2>2. CASE i \in 1..read.far
    <3> DEFINE f == events[i]
    <3>1. f \in Event /\ Version(f) <= mirror[f.id].version
      BY <2>2, <1>2 DEF LMInv, MirrorOK
    <3> HIDE DEF f
    <3>2. f.id \in Orders /\ Version(f) \in Nat
      BY <3>1 DEF Event, Version
    <3>3. mirror[f.id].version <= mirror'[f.id].version
          /\ mirror[f.id].version \in Nat /\ mirror'[f.id].version \in Nat
      BY <3>2, <1>6, <1>2
    <3>4. Version(f) <= mirror'[f.id].version
      BY <3>1, <3>2, <3>3
    <3> QED  BY <3>4 DEF f
  <2> QED  BY <2>1, <2>2, <1>4
<1>10. ASSUME NEW q \in Orders
       PROVE  \/ mirror'[q].version = 0 /\ mirror'[q].deleted
              \/ \E i \in 1..read'.far : events[i].id = q /\ Image(mirror'[q], events[i])
  <2>1. CASE q = k /\ Image(Replace(mirror[k], e), e)
    BY <2>1, <1>4, <1>6
  <2>2. CASE mirror'[q] = mirror[q]
    <3>1. \/ mirror[q].version = 0 /\ mirror[q].deleted
          \/ \E i \in 1..read.far : events[i].id = q /\ Image(mirror[q], events[i])
      BY DEF LMInv, MirrorOK
    <3> QED  BY <3>1, <2>2, <1>4
  <2> QED  BY <2>1, <2>2, <1>5, <1>6
<1>11. MirrorOK'
  BY <1>1, <1>9, <1>10 DEF MirrorOK, Image, Version
<1> QED  BY <1>7, <1>8, <1>11 DEF LMInv

LEMMA LMSteps == LMInv /\ [LMNext]_lmVars => LMInv'
<1> SUFFICES ASSUME LMInv, [LMNext]_lmVars PROVE LMInv'
  OBVIOUS
<1>1. CASE Mirror
  BY <1>1, MirrorKeeps
<1>2. CASE Rewind
  <2>1. /\ rows' = rows /\ buried' = buried /\ events' = events /\ mirror' = mirror
        /\ \E n \in 0..read.pos : n < read.pos /\ read' = [read EXCEPT !.pos = n]
    BY <1>2 DEF Rewind
  <2>2. read'.far = read.far /\ LMTypeOK'
    <3>1. /\ read \in [pos : Nat, far : Nat] /\ read.pos <= read.far
          /\ read.far <= Len(events)
      BY DEF LMInv, LMTypeOK
    <3>2. PICK n \in 0..read.pos : n < read.pos /\ read' = [read EXCEPT !.pos = n]
      BY <2>1
    <3>3. n \in Nat /\ read'.pos = n /\ read'.far = read.far
      BY <3>1, <3>2
    <3>4. read' \in [pos : Nat, far : Nat] /\ read'.pos <= read'.far
      BY <3>1, <3>2, <3>3
    <3> QED  BY <3>1, <3>3, <3>4, <2>1 DEF LMInv, LMTypeOK
  <2>3. TopicOK'
    BY <2>1 DEF LMInv, TopicOK, Truthful, Changes, Buries
  <2>4. MirrorOK'
    BY <2>1, <2>2 DEF LMInv, MirrorOK, Image, Version
  <2> QED  BY <2>2, <2>3, <2>4 DEF LMInv
<1>3. CASE \E o \in Orders : Upsert(o) \/ Delete(o)
  BY <1>3, UpsertKeeps, DeleteKeeps
<1>4. CASE UNCHANGED lmVars
  BY <1>4 DEF lmVars, LMInv, LMTypeOK, TopicOK, MirrorOK, Truthful, Changes, Buries, Image, Version
<1> QED  BY <1>1, <1>2, <1>3, <1>4 DEF LMNext

\* What the invariant is for: all read, the newest version decides.
LEMMA InvMatches == LMInv => MirrorMatches
<1> SUFFICES ASSUME LMInv, read.far = Len(events), NEW o \in Orders
             PROVE  IF rows[o] = 0 THEN mirror[o].deleted
                    ELSE \/ ~mirror[o].deleted /\ mirror[o].version = rows[o]
                         \/ buried[o] > 0 /\ rows[o] <= buried[o] + 1
  BY DEF MirrorMatches
<1>1. /\ rows[o] \in Nat /\ buried[o] \in Nat /\ mirror[o].version \in Nat
      /\ mirror[o].deleted \in BOOLEAN
      /\ \A i \in 1..Len(events) : events[i] \in Event
  BY DEF LMInv, LMTypeOK
<1>2. rows[o] > 0 => rows[o] <= mirror[o].version
  <2> SUFFICES ASSUME rows[o] > 0 PROVE rows[o] <= mirror[o].version
    OBVIOUS
  <2>1. PICK i \in 1..Len(events) : Changes(events[i], o)
    BY DEF LMInv, TopicOK
  <2>2. Version(events[i]) <= mirror[o].version
    BY <2>1 DEF LMInv, MirrorOK, Changes
  <2> QED  BY <2>1, <2>2, <1>1 DEF Changes, Version
<1>3. buried[o] > 0 => buried[o] + 1 <= mirror[o].version
  <2> SUFFICES ASSUME buried[o] > 0 PROVE buried[o] + 1 <= mirror[o].version
    OBVIOUS
  <2>1. PICK i \in 1..Len(events) : Buries(events[i], o)
    BY DEF LMInv, TopicOK
  <2>2. Version(events[i]) <= mirror[o].version
    BY <2>1 DEF LMInv, MirrorOK, Buries
  <2> QED  BY <2>1, <2>2, <1>1 DEF Buries, Version
<1>4. CASE mirror[o].version = 0 /\ mirror[o].deleted
  BY <1>4, <1>2, <1>1
<1>5. CASE \E i \in 1..Len(events) : events[i].id = o /\ Image(mirror[o], events[i])
  <2>1. PICK i \in 1..Len(events) : events[i].id = o /\ Image(mirror[o], events[i])
    BY <1>5
  <2> DEFINE e == events[i]
  <2>2. Truthful(e) /\ e \in Event
    BY <1>1 DEF LMInv, TopicOK
  <2>3. e.id = o /\ e.version \in Nat \ {0} /\ Image(mirror[o], e)
    BY <2>1, <2>2 DEF Event
  <2> HIDE DEF e
  <2>4. CASE e.op = "d"
    <3>1. /\ mirror[o].deleted /\ mirror[o].version = e.version + 1
          /\ e.version <= buried[o]
      BY <2>2, <2>3, <2>4 DEF Truthful, Image, Version
    <3> QED  BY <3>1, <2>3, <1>1, <1>2
  <2>5. CASE e.op # "d"
    <3>1. /\ ~mirror[o].deleted /\ mirror[o].version = e.version
          /\ e.version <= rows[o] \/ e.version <= buried[o]
      BY <2>2, <2>3, <2>5, <1>1 DEF Truthful, Image, Version
    <3> QED  BY <3>1, <2>3, <1>1, <1>2, <1>3
  <2> QED  BY <2>4, <2>5
<1> QED  BY <1>4, <1>5 DEF LMInv, MirrorOK
-----------------------------------------------------------------------------
(* The collector *)

\* What a received frame may be: delivered, refused and counted, queued, or lost
\* with the connection it cost.
Balance == stats.produced + stats.errors + queue + stats.reconnects
             + (IF coll.at = "backoff" THEN 1 ELSE 0)

Counters == [received : Nat, produced : Nat, errors : Nat, reconnects : Nat]

Process == [at : {"starting", "connecting", "connected", "backoff"},
            markets : SUBSET Markets, backoff : Nat, due : BOOLEAN]

OCTypeOK == stats \in Counters /\ queue \in Nat /\ coll \in Process /\ listed \subseteq Markets

OCInv == OCTypeOK /\ stats.received <= Balance

LEMMA OCStarts == OCInit => OCInv
<1> SUFFICES ASSUME OCInit PROVE OCInv
  OBVIOUS
<1>1. /\ stats = Zero /\ coll = Fresh /\ queue = 0 /\ listed \subseteq Markets
  BY DEF OCInit
<1>2. Zero \in Counters /\ Fresh \in Process
  BY DEF Zero, Fresh, Counters, Process
<1> QED  BY <1>1, <1>2 DEF OCInv, OCTypeOK, Balance, Zero, Fresh

\* A step in which no frame is received, counted or forgotten, and which does not
\* end a pause.
LEMMA Still ==
  ASSUME OCInv, stats' = stats, queue' = queue, coll' \in Process, listed' \subseteq Markets,
         coll.at # "backoff"
  PROVE  OCInv'
<1>1. /\ stats.received \in Nat /\ stats.produced \in Nat /\ stats.errors \in Nat
      /\ stats.reconnects \in Nat /\ queue \in Nat
  BY DEF OCInv, OCTypeOK, Counters
<1>2. stats.received <= stats.produced + stats.errors + queue + stats.reconnects
  BY <1>1 DEF OCInv, Balance
<1>3. Balance' = stats.produced + stats.errors + queue + stats.reconnects
                   + (IF coll'.at = "backoff" THEN 1 ELSE 0)
  BY DEF Balance
<1>4. stats'.received <= Balance'
  BY <1>1, <1>2, <1>3
<1> QED  BY <1>4 DEF OCInv, OCTypeOK

\* A broken connection is a state of the process.
LEMMA Breaks == OCTypeOK => Broken \in Process /\ Broken.at = "backoff"
  BY DEF OCTypeOK, Broken, Process

LEMMA CollectorMoves ==
  ASSUME OCInv, NEW ok \in BOOLEAN, NEW answer \in {listed, Few},
         \/ Start(answer) \/ Connect(ok) \/ Disconnect \/ Due \/ Refresh(answer, ok)
  PROVE  OCInv'
<1>0. OCTypeOK /\ coll \in Process /\ Broken \in Process /\ answer \subseteq Markets
  BY Breaks, CollectorAssumption DEF OCInv, OCTypeOK
<1>1. CASE Start(answer)
  <2>1. coll' \in Process
    BY <1>0, <1>1 DEF Start, Process
  <2> QED  BY <1>0, <1>1, <2>1, Still DEF Start, OCTypeOK
<1>2. CASE Connect(ok)
  <2>1. [coll EXCEPT !.at = "connected", !.backoff = 0] \in Process
    BY <1>0 DEF Process
  <2>2. coll' \in Process
    BY <1>0, <1>2, <2>1 DEF Connect
  <2> QED  BY <1>0, <1>2, <2>2, Still DEF Connect, OCTypeOK
<1>3. CASE Disconnect
  BY <1>0, <1>3, Still DEF Disconnect, OCTypeOK
<1>4. CASE Due
  <2>1. coll' \in Process
    BY <1>0, <1>4 DEF Due, Process
  <2> QED  BY <1>0, <1>4, <2>1, Still DEF Due, OCTypeOK
<1>5. CASE Refresh(answer, ok)
  <2>1. PICK latest : /\ latest \in {answer, coll.markets}
                      /\ coll' = IF ok THEN [coll EXCEPT !.markets = latest, !.due = FALSE]
                                ELSE [[coll EXCEPT !.markets = latest, !.due = FALSE]
                                        EXCEPT !.at = "backoff"]
    BY <1>5 DEF Refresh
  <2>2. latest \subseteq Markets
    BY <2>1, <1>0 DEF Process
  <2>3. [coll EXCEPT !.markets = latest, !.due = FALSE] \in Process
    BY <2>2, <1>0 DEF Process
  <2>4. [[coll EXCEPT !.markets = latest, !.due = FALSE] EXCEPT !.at = "backoff"] \in Process
    BY <2>3 DEF Process
  <2>5. coll' \in Process
    BY <2>1, <2>3, <2>4
  <2> QED  BY <1>0, <1>5, <2>5, Still DEF Refresh, OCTypeOK
<1> QED  BY <1>1, <1>2, <1>3, <1>4, <1>5

\* What a frame does to the counters, and the answer of the broker.
LEMMA FramesKeep ==
  ASSUME OCInv, NEW ok \in BOOLEAN,
         \/ Enqueue \/ Refuse \/ RefuseTwice \/ Delivered(ok) \/ Pause
  PROVE  OCInv'
<1>0. /\ OCTypeOK /\ coll \in Process /\ Broken \in Process /\ Broken.at = "backoff"
      /\ stats \in Counters /\ queue \in Nat
  BY Breaks DEF OCInv, OCTypeOK
<1>1. /\ stats.received \in Nat /\ stats.produced \in Nat /\ stats.errors \in Nat
      /\ stats.reconnects \in Nat
  BY <1>0 DEF Counters
<1>2. stats.received <= stats.produced + stats.errors + queue + stats.reconnects
                          + (IF coll.at = "backoff" THEN 1 ELSE 0)
  BY DEF OCInv, Balance
<1>3. ASSUME stats' \in Counters, queue' \in Nat, coll' \in Process, listed' = listed,
             stats'.received <= stats'.produced + stats'.errors + queue' + stats'.reconnects
                                  + (IF coll'.at = "backoff" THEN 1 ELSE 0)
      PROVE  OCInv'
  BY <1>3, <1>0 DEF OCInv, OCTypeOK, Balance
<1>4. /\ Received \in Counters /\ Received.received = stats.received + 1
      /\ Received.produced = stats.produced /\ Received.errors = stats.errors
      /\ Received.reconnects = stats.reconnects
  BY <1>0, <1>1 DEF Received, Counters
<1>5. CASE Enqueue
  BY <1>5, <1>0, <1>1, <1>2, <1>3, <1>4 DEF Enqueue
<1>6. CASE Refuse
  <2>1. [Received EXCEPT !.errors = @ + 1] \in Counters
    BY <1>4 DEF Counters
  <2>2. /\ stats'.received = stats.received + 1 /\ stats'.errors = stats.errors + 1
        /\ stats'.produced = stats.produced /\ stats'.reconnects = stats.reconnects
        /\ stats' \in Counters /\ queue' = queue /\ coll' = coll /\ listed' = listed
    BY <1>6, <2>1, <1>4 DEF Refuse, Counters
  <2> QED  BY <2>2, <1>0, <1>1, <1>2, <1>3
<1>7. CASE RefuseTwice
  <2>1. /\ coll.at = "connected" /\ stats' = Received /\ coll' = Broken
        /\ queue' = queue /\ listed' = listed
    BY <1>7 DEF RefuseTwice, Receive
  <2> QED  BY <2>1, <1>0, <1>1, <1>2, <1>3, <1>4
<1>8. CASE Delivered(ok)
  <2>1. /\ stats' \in Counters /\ stats'.received = stats.received
        /\ stats'.produced + stats'.errors = stats.produced + stats.errors + 1
        /\ stats'.produced \in Nat /\ stats'.errors \in Nat
        /\ stats'.reconnects = stats.reconnects
    <3>1. CASE ok
      BY <3>1, <1>8, <1>0, <1>1 DEF Delivered, Counters
    <3>2. CASE ~ok
      BY <3>2, <1>8, <1>0, <1>1 DEF Delivered, Counters
    <3> QED  BY <3>1, <3>2
  <2>2. queue > 0 /\ queue' = queue - 1 /\ coll' = coll /\ listed' = listed
    BY <1>8 DEF Delivered
  <2> QED  BY <2>1, <2>2, <1>0, <1>1, <1>2, <1>3
<1>9. CASE Pause
  <2>1. /\ coll.at = "backoff" /\ coll' \in Process /\ coll'.at = "connecting"
        /\ queue' = queue /\ listed' = listed
    <3>1. coll.backoff \in Nat
      BY <1>0 DEF Process
    <3>2. (IF coll.backoff < MaxBackoff THEN coll.backoff + 1 ELSE coll.backoff) \in Nat
      BY <3>1
    <3> QED  BY <3>2, <1>9, <1>0 DEF Pause, Process
  <2>2. /\ stats' \in Counters /\ stats'.received = stats.received
        /\ stats'.produced = stats.produced /\ stats'.errors = stats.errors
        /\ stats'.reconnects = stats.reconnects + 1
    BY <1>9, <1>0, <1>1 DEF Pause, Counters
  <2> QED  BY <2>1, <2>2, <1>0, <1>1, <1>2, <1>3
<1> QED  BY <1>5, <1>6, <1>7, <1>8, <1>9

LEMMA OCSteps == OCInv /\ [OCNext]_ocVars => OCInv'
<1> SUFFICES ASSUME OCInv, [OCNext]_ocVars PROVE OCInv'
  OBVIOUS
<1>1. CASE List
  BY <1>1 DEF List, OCInv, OCTypeOK, Balance
<1>2. CASE Die
  <2>1. Zero \in Counters /\ Fresh \in Process
    BY DEF Zero, Fresh, Counters, Process
  <2> QED  BY <1>2, <2>1 DEF Die, OCInv, OCTypeOK, Balance, Zero, Fresh
<1>3. CASE UNCHANGED ocVars
  BY <1>3 DEF ocVars, OCInv, OCTypeOK, Balance
<1>4. CASE \E ok \in BOOLEAN : Enqueue \/ Refuse \/ RefuseTwice \/ Delivered(ok) \/ Pause
  BY <1>4, FramesKeep
<1>5. CASE \E ok \in BOOLEAN, answer \in {listed, Few} :
             Start(answer) \/ Connect(ok) \/ Disconnect \/ Due \/ Refresh(answer, ok)
  BY <1>5, CollectorMoves
<1> QED  BY <1>1, <1>2, <1>3, <1>4, <1>5 DEF OCNext, OCStep

\* What the invariant is for.
LEMMA InvLosesNothing == OCInv => NoSilentLoss
<1> SUFFICES ASSUME OCInv PROVE NoSilentLoss
  OBVIOUS
<1>1. /\ stats.received \in Nat /\ stats.produced \in Nat /\ stats.errors \in Nat
      /\ stats.reconnects \in Nat /\ queue \in Nat
  BY DEF OCInv, OCTypeOK, Counters
<1> QED  BY <1>1 DEF OCInv, Balance, NoSilentLoss

-----------------------------------------------------------------------------
(* The theorems *)

\* Whatever part a behaviour looks at, each component makes a step of its own or
\* none.
LEMMA Apart == [Next]_vars => [LMNext]_lmVars /\ [OCNext]_ocVars
<1> SUFFICES ASSUME [Next]_vars PROVE [LMNext]_lmVars /\ [OCNext]_ocVars
  OBVIOUS
<1>1. CASE JobStep(SJNext /\ UNCHANGED rpVars) \/ JobStep(RPNext)
  <2>1. UNCHANGED <<ocVars, lmVars>>
    BY <1>1 DEF JobStep
  <2> QED  BY <2>1
<1>2. CASE CollectorStep(OCNext)
  <2>1. OCNext /\ UNCHANGED lmVars
    BY <1>2 DEF CollectorStep
  <2> QED  BY <2>1
<1>3. CASE MirrorStep(LMNext)
  <2>1. LMNext /\ UNCHANGED ocVars
    BY <1>3 DEF MirrorStep
  <2> QED  BY <2>1
<1>4. CASE UNCHANGED vars
  BY <1>4 DEF vars
<1> QED  BY <1>1, <1>2, <1>3, <1>4 DEF Next

\* Once the view has read every event it shows the orders as they are in MySQL,
\* and goes on to while older events are delivered again: however many orders,
\* events, resets and repeated deliveries there are, no deleted order comes back
\* and no row goes back, except under the id of a deleted order
\* (clickhouse/ledger.sql, mv_ledger_orders).
THEOREM MirrorAgrees == Spec => []MirrorMatches
<1>1. Init => LMInv
  BY LMStarts DEF Init
<1>2. LMInv /\ [Next]_vars => LMInv'
  BY LMSteps, Apart
<1>3. LMInv => MirrorMatches
  BY InvMatches
<1> QED  BY <1>1, <1>2, <1>3, PTL DEF Spec

\* A frame the collector received is delivered, queued or counted as an error, or
\* has cost a reconnection: for every size of the queue and any number of frames,
\* refusals, reconnections and restarts (collector.py).
THEOREM CollectorLosesNothing == Spec => []NoSilentLoss
<1>1. Init => OCInv
  BY OCStarts DEF Init
<1>2. OCInv /\ [Next]_vars => OCInv'
  BY OCSteps, Apart
<1>3. OCInv => NoSilentLoss
  BY InvLosesNothing
<1> QED  BY <1>1, <1>2, <1>3, PTL DEF Spec

-----------------------------------------------------------------------------
(* The stream jobs *)

Message == [is : {"row", "none", "other", "bare", "thin", "broken"}, key : Nat, t : Int, mid : Nat]

Sinks == {"row", "dead", "minute"}
JobFields == {"at", "pos", "hold", "wins", "seen", "mark", "tries", "restarts"}

\* The shape of the state, as far as the positions in the topic are concerned.
SJTypes ==
  /\ topic \in Seq(Message)
  /\ DOMAIN job = JobFields /\ DOMAIN job.hold = Sinks /\ job.pos \in 0..Len(topic)
  /\ ckpt.pos \in NoOffset..Len(topic) /\ committed \in NoOffset..Len(topic)
  /\ DOMAIN stored = {"row", "dead", "minute", "young", "marked"}
  /\ DOMAIN past = {"skipped", "taken", "lost", "anew", "again"} /\ past.skipped \in Nat
  /\ job.at = "stopped" => ckpt.pos # NoOffset

\* Everything up to n is where it belongs or held.
Lands(n, held) == \A i \in (past.skipped + 1)..n : Kept(i, held)

\* What is behind a checkpoint or a committed offset is not even held: a restart
\* forgets what is held.
SJInv ==
  /\ SJTypes
  /\ Lands(job.pos, job.hold) /\ Lands(ckpt.pos, NoRows) /\ Lands(committed, NoRows)

LEMMA NoRowsFields == /\ DOMAIN NoRows = Sinks /\ NoRows.row = {} /\ NoRows.dead = {}
  BY DEF NoRows, Sinks

LEMMA StartedFields ==
  ASSUME NEW p, NEW w, NEW r
  PROVE  /\ DOMAIN Started(p, w, r) = JobFields /\ Started(p, w, r).pos = p
         /\ Started(p, w, r).hold = NoRows /\ Started(p, w, r).at = "running"
  BY DEF Started, JobFields

LEMMA DownFields ==
  DOMAIN Down = JobFields /\ Down.pos = 0 /\ Down.hold = NoRows /\ Down.at \in {"down", "failed"}
<1>1. /\ DOMAIN Started(0, NoWins, job.restarts) = JobFields
      /\ Started(0, NoWins, job.restarts).pos = 0
      /\ Started(0, NoWins, job.restarts).hold = NoRows
  BY StartedFields
<1> QED  BY <1>1 DEF Down, JobFields

LEMMA StreamStarts == SJInit => SJInv
<1> SUFFICES ASSUME SJInit PROVE SJInv
  OBVIOUS
<1>1. /\ topic = <<>> /\ job = Started(0, NoWins, 0) /\ ckpt.pos = NoOffset
      /\ committed = NoOffset /\ past.skipped = 0
      /\ DOMAIN past = {"skipped", "taken", "lost", "anew", "again"}
      /\ DOMAIN stored = {"row", "dead", "minute", "young", "marked"}
  BY DEF SJInit, NoCkpt
<1>2. /\ DOMAIN job = JobFields /\ job.pos = 0 /\ job.hold = NoRows /\ job.at = "running"
  BY <1>1, StartedFields
<1>3. topic \in Seq(Message) /\ Len(topic) = 0
  BY <1>1
<1> QED  BY <1>1, <1>2, <1>3, NoRowsFields DEF SJInv, SJTypes, Lands, NoOffset

-----------------------------------------------------------------------------
(* What carries from a step to the next *)

\* Nothing is taken back: the topic, the stores and the excuse.
Steady ==
  /\ kind' = kind /\ past'.skipped = past.skipped
  /\ \A i \in 1..Len(topic) : topic'[i] = topic[i]
  /\ stored.row \subseteq stored'.row /\ stored.dead \subseteq stored'.dead

\* What h held is stored now or held in g.
Moved(h, g) ==
  /\ \A i \in h.row : i \in g.row \/ Key(topic[i]) \in stored'.row
  /\ \A i \in h.dead : i \in g.dead \/ i \in stored'.dead

LEMMA LandsOn ==
  ASSUME SJTypes, Steady, NEW n \in NoOffset..Len(topic), NEW h, NEW g,
         Lands(n, h), Moved(h, g)
  PROVE  Lands(n, g)'
<1>1. past.skipped \in Nat /\ past'.skipped = past.skipped /\ Len(topic) \in Nat
  BY DEF SJTypes, Steady
<1>2. SUFFICES ASSUME NEW i \in (past.skipped + 1)..n PROVE Kept(i, g)'
  BY <1>1 DEF Lands
<1>3. i \in 1..Len(topic) /\ Kept(i, h)
  BY <1>1 DEF Lands, NoOffset
<1>4. topic'[i] = topic[i] /\ kind' = kind
  BY <1>3 DEF Steady
<1>5. Parse(topic[i])' = Parse(topic[i]) /\ Key(topic[i])' = Key(topic[i])
  BY <1>4 DEF Parse, Key
<1> QED  BY <1>3, <1>4, <1>5 DEF Kept, Moved, Steady

\* A step that takes nothing back and saves no position that is not covered.
LEMMA Settles ==
  ASSUME SJInv, SJTypes', Steady, Lands(job.pos, job.hold)',
         \/ ckpt'.pos \in {NoOffset, ckpt.pos}
         \/ ckpt'.pos = job.pos /\ job.hold = NoRows,
         \/ committed' = committed
         \/ committed' = job.pos /\ job.hold = NoRows
  PROVE  SJInv'
<1>0. SJTypes /\ past.skipped \in Nat /\ past'.skipped = past.skipped /\ Len(topic) \in Nat
  BY DEF SJInv, SJTypes, Steady
<1>2. Lands(ckpt.pos, NoRows) /\ Lands(committed, NoRows)
      /\ (job.hold = NoRows => Lands(job.pos, NoRows))
      /\ ckpt.pos \in NoOffset..Len(topic) /\ committed \in NoOffset..Len(topic)
      /\ job.pos \in NoOffset..Len(topic)
  BY <1>0 DEF SJInv, SJTypes, NoOffset
<1>3. Moved(NoRows, NoRows)
  BY NoRowsFields DEF Moved
<1>4. ASSUME NEW m \in NoOffset..Len(topic), Lands(m, NoRows) PROVE Lands(m, NoRows)'
  BY <1>0, <1>3, <1>4, LandsOn
<1>5. Lands(NoOffset, NoRows)
  BY <1>0 DEF Lands, NoOffset
<1>6. NoOffset \in NoOffset..Len(topic)
  BY <1>0 DEF NoOffset
<1>7. Lands(ckpt.pos, NoRows)'
  <2>1. PICK m \in NoOffset..Len(topic) : m = ckpt'.pos /\ Lands(m, NoRows)
    BY <1>2, <1>5, <1>6
  <2>2. Lands(m, NoRows)'
    BY <1>4, <2>1
  <2> QED  BY <2>1, <2>2 DEF Lands
<1>8. Lands(committed, NoRows)'
  <2>1. PICK m \in NoOffset..Len(topic) : m = committed' /\ Lands(m, NoRows)
    BY <1>2
  <2>2. Lands(m, NoRows)'
    BY <1>4, <2>1
  <2> QED  BY <2>1, <2>2 DEF Lands
<1> QED  BY <1>7, <1>8 DEF SJInv

\* The job starts or goes on at a position that is covered.
LEMMA GoesOn ==
  ASSUME SJTypes, Steady, NEW n \in NoOffset..Len(topic), NEW h, Lands(n, h),
         job'.pos = n, Moved(h, job'.hold)
  PROVE  Lands(job.pos, job.hold)'
<1>1. PICK g : g = job'.hold
  OBVIOUS
<1>2. Lands(n, g)'
  BY <1>1, LandsOn
<1> QED  BY <1>1, <1>2 DEF Lands, Kept

\* A start that nothing tells where to begin: all that is there is excused, or the
\* job begins at the beginning.
LEMMA Afresh ==
  ASSUME SJTypes', job'.pos <= past'.skipped, ckpt'.pos = NoOffset, committed' = NoOffset
  PROVE  SJInv'
<1>1. past'.skipped \in Nat /\ job'.pos \in Int
  BY DEF SJTypes
<1>2. Lands(job.pos, job.hold)'
  BY <1>1 DEF Lands
<1>3. Lands(ckpt.pos, NoRows)' /\ Lands(committed, NoRows)'
  BY <1>1 DEF Lands, NoOffset
<1> QED  BY <1>2, <1>3 DEF SJInv

-----------------------------------------------------------------------------
(* The steps *)

\* What most steps share: the types they read.
LEMMA Positions ==
  ASSUME SJInv
  PROVE  /\ SJTypes /\ Len(topic) \in Nat /\ past.skipped \in Nat
         /\ job.pos \in Nat /\ job.pos <= Len(topic) /\ job.pos \in NoOffset..Len(topic)
         /\ ckpt.pos \in NoOffset..Len(topic) /\ committed \in NoOffset..Len(topic)
         /\ Lands(job.pos, job.hold) /\ Lands(ckpt.pos, NoRows) /\ Lands(committed, NoRows)
  BY DEF SJInv, SJTypes, NoOffset

\* The empty stretch, and the hold that is passed on.
LEMMA Trivially ==
  ASSUME SJInv
  PROVE  /\ 0 \in NoOffset..Len(topic) /\ Lands(0, NoRows)
         /\ NoOffset \in NoOffset..Len(topic) /\ Lands(NoOffset, NoRows)
         /\ \A h : Moved(h, h)
         /\ \A g : Moved(NoRows, g)
  BY Positions, NoRowsFields DEF Lands, NoOffset, Moved

\* A topic that grows keeps what is in it.
LEMMA TopicGrows ==
  ASSUME SJTypes, Arrive
  PROVE  /\ topic' \in Seq(Message) /\ Len(topic') = Len(topic) + 1
         /\ \A i \in 1..Len(topic) : topic'[i] = topic[i]
<1>1. /\ topic \in Seq(Message) /\ Len(topic) \in Nat
  BY DEF SJTypes
<1>2. Arrivals \subseteq Message
  <2>1. \A k \in {"none", "other", "bare", "thin", "broken"} :
          [is |-> k, key |-> 0, t |-> Len(topic) + 1, mid |-> 0] \in Message
    BY <1>1 DEF Message
  <2>2. \A j \in 1..Len(topic) : topic[j] \in Message
    BY <1>1
  <2>3. [is |-> "row", key |-> Len(topic) + 1, t |-> 1, mid |-> 0] \in Message
    BY <1>1 DEF Message
  <2>4. \A t \in 1..(Minute + 1) :
          [is |-> "row", key |-> Len(topic) + 1, t |-> t,
           mid |-> 1 + ((Len(topic) + 1) % 2)] \in Message
    BY <1>1, StreamAssumption DEF Message
  <2>5. \A t \in 1..(Len(topic) + 1) :
          [is |-> "row", key |-> Len(topic) + 1, t |-> t, mid |-> 0] \in Message
    BY <1>1 DEF Message
  <2>6. SUFFICES ASSUME NEW m \in Arrivals PROVE m \in Message
    OBVIOUS
  <2>7. \/ \E k \in {"none", "other", "bare", "thin", "broken"} :
             m = [is |-> k, key |-> 0, t |-> Len(topic) + 1, mid |-> 0]
        \/ \E j \in 1..Len(topic) : m = topic[j]
        \/ m = [is |-> "row", key |-> Len(topic) + 1, t |-> 1, mid |-> 0]
        \/ \E t \in 1..(Minute + 1) :
             m = [is |-> "row", key |-> Len(topic) + 1, t |-> t,
                  mid |-> 1 + ((Len(topic) + 1) % 2)]
        \/ \E t \in 1..(Len(topic) + 1) :
             m = [is |-> "row", key |-> Len(topic) + 1, t |-> t, mid |-> 0]
    BY <2>6 DEF Arrivals
  <2> QED  BY <2>1, <2>2, <2>3, <2>4, <2>5, <2>7
<1>3. PICK m \in Message : topic' = Append(topic, m)
  BY <1>2 DEF Arrive
<1> QED  BY <1>1, <1>3

LEMMA ArriveKeeps == ASSUME SJInv, Arrive PROVE SJInv'
<1>1. /\ UNCHANGED <<kind, job, ckpt, committed, stored, past>>
  BY DEF Arrive
<1>2. SJTypes'
  BY <1>1, Positions, TopicGrows DEF SJTypes, NoOffset
<1>3. Steady
  BY <1>1, Positions, TopicGrows DEF Steady
<1> QED  BY <1>1, <1>2, <1>3, Positions, Trivially, GoesOn, Settles

LEMMA ConsumeKeeps == ASSUME SJInv, Consume PROVE SJInv'
<1>0. PICK i \in Int : i = job.pos + 1
  BY Positions
<1>1. /\ i \in 1..Len(topic) /\ topic' = topic /\ kind' = kind
      /\ UNCHANGED <<ckpt, committed, stored>>
      /\ past'.skipped = past.skipped /\ DOMAIN past' = DOMAIN past
  <2>1. i \in 1..Len(topic)
    BY <1>0, Positions DEF Consume
  <2>2. \/ past' = past
        \/ past' = [past EXCEPT !.taken = @ \cup {i}]
    BY <1>0 DEF Consume
  <2>3. past'.skipped = past.skipped /\ DOMAIN past' = DOMAIN past
    BY <2>2, Positions DEF SJTypes
  <2> QED  BY <2>1, <2>3 DEF Consume
<1>2. /\ DOMAIN job' = JobFields /\ DOMAIN job'.hold = Sinks /\ job'.pos = i
      /\ job'.at = "running"
      /\ job'.hold.row = (IF Parse(topic[i]) = "row" THEN job.hold.row \cup {i} ELSE job.hold.row)
      /\ job'.hold.dead = (IF Parse(topic[i]) = "dead" THEN job.hold.dead \cup {i} ELSE job.hold.dead)
  <2>1. DOMAIN job = JobFields /\ DOMAIN job.hold = Sinks /\ job.at = "running"
    BY Positions DEF SJTypes, Consume
  <2>2. PICK u, v : job' = [job EXCEPT
               !.pos = i,
               !.hold.row  = IF Parse(topic[i]) = "row" THEN @ \cup {i} ELSE @,
               !.hold.dead = IF Parse(topic[i]) = "dead" THEN @ \cup {i} ELSE @,
               !.seen = u, !.wins = v]
    BY <1>0 DEF Consume
  <2> QED  BY <2>1, <2>2 DEF JobFields, Sinks
<1>3. SJTypes'
  BY <1>1, <1>2, Positions DEF SJTypes, NoOffset
<1>4. Steady
  BY <1>1 DEF Steady
<1>5. PICK g : g = job'.hold
  OBVIOUS
<1>6. Moved(job.hold, g)
  BY <1>2, <1>5 DEF Moved
<1>7. PICK n \in NoOffset..Len(topic) : n = job.pos
  BY Positions
<1>8. Lands(n, g)'
  BY <1>7, <1>4, <1>6, Positions, LandsOn
<1>9. Kept(i, g)'
  BY <1>1, <1>2, <1>5 DEF Kept, Parse, Key
<1>10. Lands(job.pos, job.hold)'
  BY <1>0, <1>1, <1>2, <1>5, <1>7, <1>8, <1>9, Positions DEF Lands, Kept
<1> QED  BY <1>1, <1>3, <1>4, <1>10, Settles

\* Steps after which the job goes on where it was, holding the same or less.
LEMMA AdvanceKeeps == ASSUME SJInv, Advance PROVE SJInv'
<1>1. UNCHANGED <<kind, topic, ckpt, committed, stored, past>>
  BY DEF Advance
<1>2. /\ DOMAIN job' = JobFields /\ DOMAIN job'.hold = Sinks /\ job'.pos = job.pos
      /\ job'.at = "running" /\ job'.hold.row = job.hold.row /\ job'.hold.dead = job.hold.dead
  <2>1. DOMAIN job = JobFields /\ DOMAIN job.hold = Sinks /\ job.at = "running"
    BY Positions DEF SJTypes, Advance
  <2>2. PICK u, v, w : job' = [job EXCEPT !.mark = u, !.wins = v, !.hold.minute = w]
    BY DEF Advance
  <2> QED  BY <2>1, <2>2 DEF JobFields, Sinks
<1>3. SJTypes'
  BY <1>1, <1>2, Positions DEF SJTypes, NoOffset
<1>4. Steady
  BY <1>1 DEF Steady
<1>5. Moved(job.hold, job'.hold)
  BY <1>2 DEF Moved
<1>6. Lands(job.pos, job.hold)'
  BY <1>2, <1>4, <1>5, Positions, GoesOn
<1> QED  BY <1>1, <1>3, <1>4, <1>6, Settles

\* What an insertion adds and what it leaves.
LEMMA InsertedFields ==
  ASSUME SJTypes, NEW keys
  PROVE  /\ DOMAIN Inserted(keys) = DOMAIN stored
         /\ Inserted(keys).row = stored.row \cup keys /\ Inserted(keys).dead = stored.dead
<1>1. DOMAIN stored = {"row", "dead", "minute", "young", "marked"}
  BY DEF SJTypes
<1>2. PICK y : Inserted(keys) = [stored EXCEPT !.row = @ \cup keys, !.young = y]
  BY DEF Inserted
<1> QED  BY <1>1, <1>2

\* A sink that writes takes nothing from the stores, and stores what it held.
LEMMA WrittenFields ==
  ASSUME SJTypes, NEW s \in Sinks
  PROVE  /\ DOMAIN Written(s) = DOMAIN stored
         /\ stored.row \subseteq Written(s).row /\ stored.dead \subseteq Written(s).dead
         /\ s = "row" => \A i \in job.hold.row : Key(topic[i]) \in Written(s).row
         /\ s = "dead" => job.hold.dead \subseteq Written(s).dead
<1>1. DOMAIN stored = {"row", "dead", "minute", "young", "marked"}
  BY DEF SJTypes
<1>2. CASE s = "row"
  BY <1>2, InsertedFields DEF Written
<1>3. CASE s = "dead"
  BY <1>1, <1>3 DEF Written
<1>4. CASE s = "minute"
  <2>1. PICK b : Written(s) = [stored EXCEPT !.minute = b]
    BY <1>4 DEF Written
  <2> QED  BY <1>1, <1>4, <2>1
<1> QED  BY <1>2, <1>3, <1>4 DEF Sinks

LEMMA FlushKeeps == ASSUME SJInv, NEW s \in Sinks, Flush(s) PROVE SJInv'
<1>1. UNCHANGED <<kind, topic, ckpt, committed, past>> /\ stored' = Written(s)
  BY DEF Flush
<1>2. /\ DOMAIN job' = JobFields /\ DOMAIN job'.hold = Sinks /\ job'.pos = job.pos
      /\ job'.at = "running"
      /\ s # "row" => job'.hold.row = job.hold.row
      /\ s # "dead" => job'.hold.dead = job.hold.dead
  <2>1. DOMAIN job = JobFields /\ DOMAIN job.hold = Sinks /\ job.at = "running"
    BY Positions DEF SJTypes, Flush
  <2>2. job' = [job EXCEPT !.hold[s] = {}, !.tries[s] = 0]
    BY DEF Flush
  <2> QED  BY <2>1, <2>2 DEF JobFields, Sinks
<1>3. SJTypes'
  BY <1>1, <1>2, Positions, WrittenFields DEF SJTypes, NoOffset
<1>4. Steady
  BY <1>1, Positions, WrittenFields DEF Steady
<1>5. Moved(job.hold, job'.hold)
  BY <1>1, <1>2, Positions, WrittenFields DEF Moved
<1>6. Lands(job.pos, job.hold)'
  BY <1>2, <1>4, <1>5, Positions, GoesOn
<1> QED  BY <1>1, <1>3, <1>4, <1>6, Settles

\* The job ends, whatever the last step has stored and saved.
LEMMA EndsKeep ==
  ASSUME SJInv, UNCHANGED <<kind, topic>>,
         DOMAIN past' = DOMAIN past, past'.skipped = past.skipped,
         DOMAIN job' = JobFields, job'.pos = 0, job'.hold = NoRows,
         job'.at = "stopped" => ckpt'.pos # NoOffset,
         DOMAIN stored' = DOMAIN stored,
         stored.row \subseteq stored'.row, stored.dead \subseteq stored'.dead,
         \/ ckpt'.pos = ckpt.pos
         \/ ckpt'.pos = job.pos /\ job.hold = NoRows,
         \/ committed' = committed
         \/ committed' = job.pos /\ job.hold = NoRows
  PROVE  SJInv'
<1>1. SJTypes'
  BY Positions, NoRowsFields DEF SJTypes
<1>2. Steady
  BY DEF Steady
<1>3. Lands(job.pos, job.hold)'
  BY <1>2, Positions, Trivially, GoesOn
<1> QED  BY <1>1, <1>2, <1>3, Settles

\* It goes down.
LEMMA DownKeeps ==
  ASSUME SJInv, UNCHANGED <<kind, topic>>, job' = Down,
         DOMAIN past' = DOMAIN past, past'.skipped = past.skipped,
         DOMAIN stored' = DOMAIN stored,
         stored.row \subseteq stored'.row, stored.dead \subseteq stored'.dead,
         \/ ckpt'.pos = ckpt.pos
         \/ ckpt'.pos = job.pos /\ job.hold = NoRows,
         committed' = committed
  PROVE  SJInv'
<1>1. DOMAIN job' = JobFields /\ job'.pos = 0 /\ job'.hold = NoRows /\ job'.at # "stopped"
  BY DownFields
<1> QED  BY <1>1, EndsKeep

LEMMA FlushFailsKeeps ==
  ASSUME SJInv, NEW s \in Sinks, NEW effective \in BOOLEAN, FlushFails(s, effective)
  PROVE  SJInv'
<1>0. UNCHANGED <<kind, topic, ckpt, committed>> /\ job.at = "running"
  BY DEF FlushFails
<1>1. DOMAIN past' = DOMAIN past /\ past'.skipped = past.skipped
  <2>1. past' = past \/ \E a : past' = [past EXCEPT !.again = a]
    BY DEF FlushFails
  <2>2. DOMAIN past = {"skipped", "taken", "lost", "anew", "again"}
    BY Positions DEF SJTypes
  <2> QED  BY <2>1, <2>2
<1>2. /\ DOMAIN stored' = DOMAIN stored
      /\ stored.row \subseteq stored'.row /\ stored.dead \subseteq stored'.dead
  <2>1. stored' = Written(s) \/ stored' = stored
    BY DEF FlushFails
  <2> QED  BY <2>1, Positions, WrittenFields
<1>3. CASE job' = Down
  BY <1>0, <1>1, <1>2, <1>3, DownKeeps
<1>4. CASE job' # Down
  <2>1. /\ DOMAIN job' = JobFields /\ job'.pos = job.pos /\ job'.hold = job.hold
        /\ job'.at = "running"
    <3>1. DOMAIN job = JobFields
      BY Positions DEF SJTypes
    <3>2. job' = [job EXCEPT !.tries[s] = @ + 1]
      BY <1>4 DEF FlushFails
    <3> QED  BY <1>0, <3>1, <3>2 DEF JobFields
  <2>2. SJTypes'
    BY <1>0, <1>1, <1>2, <2>1, Positions DEF SJTypes
  <2>3. Steady
    BY <1>0, <1>1, <1>2 DEF Steady
  <2>4. Lands(job.pos, job.hold)'
    BY <2>1, <2>3, Positions, Trivially, GoesOn
  <2> QED  BY <1>0, <2>2, <2>3, <2>4, Settles
<1> QED  BY <1>3, <1>4

LEMMA CheckpointKeeps ==
  ASSUME SJInv, NEW commits \in BOOLEAN, Checkpoint(commits) PROVE SJInv'
<1>1. /\ UNCHANGED <<kind, topic, stored, past>> /\ job.hold = NoRows
      /\ ckpt'.pos = job.pos /\ job.at = "running"
  BY DEF Checkpoint
<1>2. CASE commits
  <2>1. job' = job /\ committed' = job.pos
    BY <1>2 DEF Checkpoint
  <2>2. SJTypes'
    BY <1>1, <2>1, Positions DEF SJTypes
  <2>3. Steady
    BY <1>1 DEF Steady
  <2>4. Lands(job.pos, job.hold)'
    BY <2>1, <2>3, Positions, Trivially, GoesOn
  <2> QED  BY <1>1, <2>1, <2>2, <2>3, <2>4, Settles
<1>3. CASE ~commits
  <2>1. job' = Down /\ committed' = committed
    BY <1>3 DEF Checkpoint
  <2> QED  BY <1>1, <2>1, DownKeeps
<1> QED  BY <1>2, <1>3

\* A start after which nothing changed but the job and its excuses.
LEMMA StartKeeps ==
  ASSUME SJInv, UNCHANGED <<kind, topic, committed, stored>>,
         NEW p \in NoOffset..Len(topic), NEW w, NEW r, p # NoOffset,
         job' = Started(p, w, r),
         DOMAIN past' = DOMAIN past, past'.skipped = past.skipped,
         Lands(p, NoRows), ckpt'.pos \in {NoOffset, ckpt.pos}
                           \/ (ckpt'.pos = job.pos /\ job.hold = NoRows)
  PROVE  SJInv'
<1>1. DOMAIN job' = JobFields /\ job'.pos = p /\ job'.hold = NoRows /\ job'.at = "running"
  BY StartedFields
<1>2. p \in 0..Len(topic) /\ NoOffset \in NoOffset..Len(topic)
  BY Positions DEF NoOffset
<1>3. SJTypes'
  BY <1>1, <1>2, Positions, NoRowsFields DEF SJTypes
<1>4. Steady
  BY DEF Steady
<1>5. Lands(job.pos, job.hold)'
  BY <1>1, <1>4, Positions, Trivially, GoesOn
<1> QED  BY <1>3, <1>4, <1>5, Settles

LEMMA BeganFields ==
  ASSUME NEW p, NEW known, NEW kept
  PROVE  /\ DOMAIN Began(p, known, kept) = {"skipped", "taken", "lost", "anew", "again"}
         /\ Began(p, known, kept).skipped
              = IF known \/ kind = "binance" THEN past.skipped ELSE Len(topic)
  BY DEF Began

\* A start that neither a checkpoint nor a committed offset tells where to begin.
LEMMA UnknownKeeps ==
  ASSUME SJInv, UNCHANGED <<kind, topic, committed, stored>>, committed = NoOffset,
         ckpt'.pos = NoOffset, NEW w, NEW r, job' = Started(Reset, w, r),
         DOMAIN past' = {"skipped", "taken", "lost", "anew", "again"},
         past'.skipped = IF kind = "binance" THEN past.skipped ELSE Len(topic)
  PROVE  SJInv'
<1>1. DOMAIN job' = JobFields /\ job'.pos = Reset /\ job'.hold = NoRows /\ job'.at = "running"
  BY StartedFields
<1>2. Reset = (IF kind = "binance" THEN 0 ELSE Len(topic)) /\ NoOffset \in NoOffset..Len(topic)
  BY Trivially DEF Reset
<1>3. /\ Reset \in 0..Len(topic) /\ past'.skipped \in Nat
      /\ Reset <= past'.skipped
  BY <1>2, Positions
<1>4. SJTypes'
  BY <1>1, <1>2, <1>3, Positions, NoRowsFields DEF SJTypes
<1> QED  BY <1>1, <1>3, <1>4, Afresh

LEMMA RestartKeeps == ASSUME SJInv, Restart PROVE SJInv'
<1>1. /\ UNCHANGED <<kind, topic, ckpt, committed, stored>>
      /\ job' = Started(StartAt, ckpt.wins, job.restarts + 1)
      /\ past' = Began(StartAt, ckpt.pos # NoOffset \/ committed # NoOffset,
                       ckpt.pos # NoOffset)
  BY DEF Restart
<1>2. /\ DOMAIN past' = {"skipped", "taken", "lost", "anew", "again"} /\ DOMAIN past' = DOMAIN past
      /\ past'.skipped = IF (ckpt.pos # NoOffset \/ committed # NoOffset) \/ kind = "binance"
                         THEN past.skipped ELSE Len(topic)
  BY <1>1, BeganFields, Positions DEF SJTypes
<1>3. CASE ckpt.pos # NoOffset \/ committed # NoOffset
  <2>1. /\ StartAt \in NoOffset..Len(topic) /\ StartAt # NoOffset /\ Lands(StartAt, NoRows)
    BY <1>3, Positions DEF StartAt
  <2>2. past'.skipped = past.skipped
    BY <1>2, <1>3
  <2>3. ckpt'.pos = ckpt.pos
    BY <1>1
  <2> QED  BY <1>1, <1>2, <2>1, <2>2, <2>3, StartKeeps
<1>4. CASE ckpt.pos = NoOffset /\ committed = NoOffset
  <2>1. StartAt = Reset /\ ckpt'.pos = NoOffset
    BY <1>1, <1>4 DEF StartAt
  <2>2. past'.skipped = IF kind = "binance" THEN past.skipped ELSE Len(topic)
    BY <1>2, <1>4
  <2> QED  BY <1>1, <1>2, <1>4, <2>1, <2>2, UnknownKeeps
<1> QED  BY <1>3, <1>4

LEMMA WithdrawnFields ==
  ASSUME NEW j, j = [Started(0, NoWins, 0) EXCEPT !.at = "stopped"]
  PROVE  /\ DOMAIN j = JobFields /\ j.pos = 0 /\ j.hold = NoRows /\ j.at = "stopped"
         /\ j.wins = NoWins /\ j.mark = 0 /\ j.seen = 0
  BY DEF Started, JobFields

LEMMA WithdrawKeeps ==
  ASSUME SJInv, NEW commits \in BOOLEAN, Withdraw(commits) PROVE SJInv'
<1>1. /\ UNCHANGED <<kind, topic, stored, past>> /\ job.hold = NoRows /\ ckpt'.pos = job.pos
      /\ committed' = committed \/ committed' = job.pos
  BY DEF Withdraw
<1>2. DOMAIN job' = JobFields /\ job'.pos = 0 /\ job'.hold = NoRows
  BY WithdrawnFields DEF Withdraw
<1>3. ckpt'.pos # NoOffset
  BY <1>1, Positions DEF NoOffset
<1> QED  BY <1>1, <1>2, <1>3, EndsKeep

LEMMA DeployKeeps == ASSUME SJInv, Deploy PROVE SJInv'
<1>1. /\ UNCHANGED <<kind, topic, ckpt, committed, stored>> /\ job.at = "stopped"
      /\ job' = Started(ckpt.pos, ckpt.wins, 0)
      /\ past' = Began(ckpt.pos, TRUE, TRUE)
  BY DEF Deploy
<1>2. DOMAIN past' = DOMAIN past /\ past'.skipped = past.skipped
  BY <1>1, BeganFields, Positions DEF SJTypes
<1>3. ckpt.pos # NoOffset /\ ckpt'.pos = ckpt.pos
  BY <1>1, Positions DEF SJTypes
<1> QED  BY <1>1, <1>2, <1>3, Positions, StartKeeps

LEMMA GiveUpKeeps == ASSUME SJInv, GiveUp PROVE SJInv'
<1>1. UNCHANGED <<kind, topic, ckpt, committed, stored, past>>
  BY DEF GiveUp
<1>2. /\ DOMAIN job' = JobFields /\ job'.pos = job.pos /\ job'.hold = job.hold
      /\ job'.at = "gone"
  <2>1. DOMAIN job = JobFields
    BY Positions DEF SJTypes
  <2> QED  BY <2>1 DEF GiveUp, JobFields
<1>3. SJTypes'
  BY <1>1, <1>2, Positions DEF SJTypes
<1>4. Steady
  BY <1>1 DEF Steady
<1>5. Lands(job.pos, job.hold)'
  BY <1>2, <1>4, Positions, Trivially, GoesOn
<1> QED  BY <1>1, <1>3, <1>4, <1>5, Settles

LEMMA ResubmitKeeps == ASSUME SJInv, Resubmit PROVE SJInv'
<1>1. /\ UNCHANGED <<kind, topic, committed, stored>> /\ ckpt'.pos = NoOffset
      /\ job' = Started(IF committed # NoOffset THEN committed ELSE Reset, NoWins, 0)
      /\ past' = Began(job'.pos, committed # NoOffset, FALSE)
  BY DEF Resubmit, NoCkpt
<1>2. /\ DOMAIN past' = {"skipped", "taken", "lost", "anew", "again"} /\ DOMAIN past' = DOMAIN past
      /\ past'.skipped = IF committed # NoOffset \/ kind = "binance"
                         THEN past.skipped ELSE Len(topic)
  <2>1. /\ DOMAIN past' = {"skipped", "taken", "lost", "anew", "again"}
        /\ past'.skipped = IF committed # NoOffset \/ kind = "binance"
                           THEN past.skipped ELSE Len(topic)
    BY <1>1 DEF Began
  <2> QED  BY <2>1, Positions DEF SJTypes
<1>3. CASE committed # NoOffset
  <2>1. job' = Started(committed, NoWins, 0) /\ past'.skipped = past.skipped
    BY <1>1, <1>2, <1>3
  <2> QED  BY <1>1, <1>2, <1>3, <2>1, Positions, StartKeeps
<1>4. CASE committed = NoOffset
  <2>1. /\ job' = Started(Reset, NoWins, 0)
        /\ past'.skipped = IF kind = "binance" THEN past.skipped ELSE Len(topic)
    BY <1>1, <1>2, <1>4
  <2> QED  BY <1>1, <1>2, <1>4, <2>1, UnknownKeeps
<1> QED  BY <1>3, <1>4

\* The script and its job only add to the stores.
LEMMA OnlyAdds ==
  ASSUME SJInv, UNCHANGED <<kind, topic, job, ckpt, committed, past>>,
         DOMAIN stored' = DOMAIN stored,
         stored.row \subseteq stored'.row, stored.dead \subseteq stored'.dead
  PROVE  SJInv'
<1>1. SJTypes'
  BY Positions DEF SJTypes
<1>2. Steady
  BY DEF Steady
<1>3. Lands(job.pos, job.hold)'
  BY <1>2, Positions, Trivially, GoesOn
<1> QED  BY <1>1, <1>2, <1>3, Settles

LEMMA RereadAdds ==
  ASSUME SJTypes, NEW n, Reread(n)
  PROVE  /\ DOMAIN stored' = DOMAIN stored
         /\ stored.row \subseteq stored'.row /\ stored.dead \subseteq stored'.dead
<1>1. PICK keys, bad : stored' = [Inserted(keys) EXCEPT !.dead = @ \cup bad]
  BY DEF Reread
<1>2. DOMAIN stored = {"row", "dead", "minute", "young", "marked"}
  BY DEF SJTypes
<1> QED  BY <1>1, <1>2, InsertedFields

LEMMA ReprocessKeeps == ASSUME SJInv, RPNext PROVE SJInv'
<1>1. CASE Begin
  <2>1. /\ UNCHANGED <<kind, topic, job, ckpt, committed, past>>
        /\ stored' = [stored EXCEPT !.marked = TRUE]
    BY <1>1 DEF Begin
  <2>2. /\ DOMAIN stored' = DOMAIN stored
        /\ stored'.row = stored.row /\ stored'.dead = stored.dead
    BY <2>1, Positions DEF SJTypes
  <2> QED  BY <2>1, <2>2, OnlyAdds
<1>2. CASE Finish
  BY <1>2, Positions, RereadAdds, OnlyAdds DEF Finish
<1>3. CASE Judge
  <2>1. UNCHANGED <<kind, topic, job, ckpt, committed, past, stored>>
    BY <1>3 DEF Judge, sjVars
  <2> QED  BY <2>1, OnlyAdds
<1>4. ASSUME NEW ends \in BOOLEAN, Trouble(ends) PROVE SJInv'
  <2>1. /\ UNCHANGED <<kind, topic, job, ckpt, committed, past>>
        /\ \E n \in (First - 1)..Stop : Reread(n)
    BY <1>4 DEF Trouble
  <2> QED  BY <2>1, Positions, RereadAdds, OnlyAdds
<1> QED  BY <1>1, <1>2, <1>3, <1>4 DEF RPNext, RPStep

LEMMA StreamSteps == SJInv /\ [Next]_vars => SJInv'
<1> SUFFICES ASSUME SJInv, [Next]_vars PROVE SJInv'
  OBVIOUS
<1>1. CASE SJNext
  <2>1. CASE \E s \in Sinks : Flush(s)
    BY <2>1, FlushKeeps
  <2>2. CASE \E s \in Sinks, effective \in BOOLEAN : FlushFails(s, effective)
    BY <2>2, FlushFailsKeeps
  <2>3. CASE Crash
    BY <2>3, DownKeeps DEF Crash
  <2>4. CASE Consume \/ Advance \/ Arrive \/ Restart \/ Deploy \/ GiveUp \/ Resubmit
    BY <2>4, ConsumeKeeps, AdvanceKeeps, ArriveKeeps, RestartKeeps, DeployKeeps, GiveUpKeeps,
       ResubmitKeeps
  <2>5. CASE Checkpoint(TRUE) \/ Checkpoint(FALSE)
    BY <2>5, CheckpointKeeps
  <2>6. CASE \E commits \in BOOLEAN : Withdraw(commits)
    BY <2>6, WithdrawKeeps
  <2> QED  BY <1>1, <2>1, <2>2, <2>3, <2>4, <2>5, <2>6, NoRowsFields DEF SJNext, SJStep
<1>2. CASE RPNext
  BY <1>2, ReprocessKeeps
<1>3. CASE UNCHANGED sjVars
  <2>1. UNCHANGED <<kind, topic, job, ckpt, committed, past, stored>>
    BY <1>3 DEF sjVars
  <2> QED  BY <2>1, OnlyAdds
<1> QED  BY <1>1, <1>2, <1>3
         DEF Next, JobStep, CollectorStep, MirrorStep, vars

\* Nothing a Flink job has read past is missing from the table, the dead letter
\* topic or its sinks, whatever fails and restarts in between, for batches,
\* retries, restarts and topics of every size; excused is only what a start
\* without any offset skips (CdcPipelineJob, BinanceTradeJob, OrderbookJob).
THEOREM JobsSkipNothing == Spec => []NothingSkipped
<1>1. Init => SJInv
  BY StreamStarts DEF Init
<1>2. SJInv /\ [Next]_vars => SJInv'
  BY StreamSteps
<1>3. SJInv => NothingSkipped
  BY DEF SJInv, Lands, NothingSkipped
<1> QED  BY <1>1, <1>2, <1>3, PTL DEF Spec

-----------------------------------------------------------------------------
(* The minutes of the order book: an accumulator sums up the snapshots it names,
   a minute is written once when its watermark passes, and a checkpoint holds
   what the job held. *)

\* What the parser passes on as a book has a time and a middle.
Books == \A i \in 1..Len(topic) :
  Parse(topic[i]) = "row" /\ kind = "orderbook" => topic[i].t \in 1..(Minute + 1) /\ topic[i].mid \in 0..2

\* a sums up the snapshots of minute w whose positions it names: i and j are those
\* that open and close it.
Sums(log, w, a) ==
  LET S == {i \in a.ids : log[i].mid # 0}
  IN  /\ a \in [n : Nat, first : Nat, last : Nat, open : Nat, close : Nat, lo : Nat, hi : Nat,
                ids : SUBSET (1..Len(log))]
      /\ \A i \in a.ids : Window(log[i].t) = w /\ log[i].t \in 1..(Minute + 1) /\ log[i].mid \in 0..2
      /\ a.n = Cardinality(S)
      /\ S = {} => a = [Acc EXCEPT !.ids = a.ids]
      /\ S # {} =>
           /\ \E i \in S : /\ log[i].t = a.first /\ log[i].mid = a.open
                           /\ \A k \in S : a.first <= log[k].t /\ (log[k].t = a.first => i <= k)
           /\ \E j \in S : /\ log[j].t = a.last /\ log[j].mid = a.close
                           /\ \A k \in S : log[k].t <= a.last /\ (log[k].t = a.last => k <= j)
           /\ \E k \in S : log[k].mid = a.lo
           /\ \E k \in S : log[k].mid = a.hi
           /\ \A k \in S : a.lo <= log[k].mid /\ log[k].mid <= a.hi

\* The windows of a job that has read up to n.
Windows(wins, n) == \A w \in DOMAIN wins : Sums(topic, w, wins[w]) /\ wins[w].ids \subseteq 1..n

\* i is in an open minute or in one of the rows.
Held(i, wins, filed) == (\E w \in DOMAIN wins : i \in wins[w].ids) \/ (\E r \in filed : i \in r.acc.ids)

\* Until a restart forgets the watermark, a minute is written when it is closed.
Single ==
  ~past.anew =>
    /\ \A q, r \in MinuteRows : q.w = r.w => q = r
    /\ job.at = "running" => /\ \A r \in MinuteRows : Closed(r.w, job.mark)
                             /\ \A w \in DOMAIN job.wins : ~Closed(w, job.mark)

\* What was in time is in the windows and rows, and what was so at the checkpoint
\* in those of the checkpoint.
Complete ==
  /\ past.taken \subseteq 1..Len(topic)
  /\ ~past.lost /\ job.at = "running" =>
       \A i \in past.taken : topic[i].mid # 0 => Held(i, job.wins, MinuteRows)
  /\ ~past.lost /\ ckpt.pos # NoOffset =>
       \A i \in past.taken : topic[i].mid # 0 /\ i <= ckpt.pos => Held(i, ckpt.wins, Filed)

MXInv ==
  /\ Books /\ Windows(job.wins, job.pos) /\ Windows(ckpt.wins, ckpt.pos)
  /\ \A r \in MinuteRows : Sums(topic, r.w, r.acc) /\ r.acc.n > 0
  /\ job.mark \in Int /\ job.seen \in Int /\ (job.at = "running" => ckpt.pos <= job.pos)
  /\ Single /\ Complete

LEMMA PositionsAreFinite == \A n \in Nat : IsFiniteSet(1..n)
BY FS_Interval

LEMMA WindowIsInt == \A t \in Int : Window(t) \in Int
BY StreamAssumption DEF Window

LEMMA WindowIsNat == \A t \in Nat \ {0} : Window(t) \in Nat
<1>1. Minute \in Nat \ {0}
  BY StreamAssumption
<1>2. \A x \in Nat, m \in Nat \ {0} : x \div m \in Nat
  OBVIOUS
<1> QED  BY <1>1, <1>2 DEF Window

LEMMA EndIsInt == \A w \in Int : End(w) \in Int
BY StreamAssumption DEF End

LEMMA EndIsPositive == \A w \in Nat : End(w) >= 1
<1>1. \A v, m \in Nat \ {0} : v * m >= 1
  OBVIOUS
<1> QED  BY <1>1, StreamAssumption DEF End

LEMMA SumsAcc ==
  ASSUME NEW log, NEW w, Len(log) \in Nat
  PROVE  Sums(log, w, Acc)
<1>1. Acc.ids = {} /\ Acc = [Acc EXCEPT !.ids = Acc.ids] /\ Acc.n = 0
  BY DEF Acc
<1>2. Acc \in [n : Nat, first : Nat, last : Nat, open : Nat, close : Nat, lo : Nat, hi : Nat,
                ids : SUBSET (1..Len(log))]
  BY StreamAssumption DEF Acc, Huge
<1>3. {i \in Acc.ids : log[i].mid # 0} = {}
  BY <1>1
<1>4. Cardinality({i \in Acc.ids : log[i].mid # 0}) = 0
  BY <1>3, FS_EmptySet
<1> QED  BY <1>1, <1>2, <1>3, <1>4 DEF Sums

\* The fields of Add for a book with both sides.
LEMMA AddFields ==
  ASSUME NEW a, NEW m, NEW i, m.mid # 0
  PROVE  LET b == Add(a, m, i) IN
         /\ b = [n |-> b.n, first |-> b.first, open |-> b.open, last |-> b.last, close |-> b.close,
                 lo |-> b.lo, hi |-> b.hi, ids |-> b.ids]
         /\ b.n = a.n + 1 /\ b.ids = a.ids \cup {i}
         /\ b.first = (IF m.t < a.first THEN m.t ELSE a.first)
         /\ b.open = (IF m.t < a.first THEN m.mid ELSE a.open)
         /\ b.last = (IF m.t >= a.last THEN m.t ELSE a.last)
         /\ b.close = (IF m.t >= a.last THEN m.mid ELSE a.close)
         /\ b.lo = (IF m.mid < a.lo THEN m.mid ELSE a.lo)
         /\ b.hi = (IF m.mid > a.hi THEN m.mid ELSE a.hi)
BY DEF Add

\* OrderbookAggregator.add keeps what an accumulator says of its snapshots, when
\* they come in the order of the topic.
LEMMA AddSums ==
  ASSUME NEW log, NEW w, NEW a, Sums(log, w, a), Len(log) \in Nat,
         NEW i \in 1..Len(log), \A k \in a.ids : k < i,
         Window(log[i].t) = w, log[i].t \in 1..(Minute + 1), log[i].mid \in 0..2
  PROVE  Sums(log, w, Add(a, log[i], i)) /\ Add(a, log[i], i).ids = a.ids \cup {i}
<1> DEFINE m == log[i]
           S == {k \in a.ids : log[k].mid # 0}
<1>1. PICK b : b = Add(a, m, i)
  OBVIOUS
<1>2. /\ a \in [n : Nat, first : Nat, last : Nat, open : Nat, close : Nat, lo : Nat, hi : Nat,
                ids : SUBSET (1..Len(log))]
      /\ \A k \in a.ids : Window(log[k].t) = w /\ log[k].t \in 1..(Minute + 1) /\ log[k].mid \in 0..2
      /\ a.n = Cardinality(S)
      /\ S = {} => a = [Acc EXCEPT !.ids = a.ids]
  BY DEF Sums
<1>3. CASE m.mid = 0
  <2>1. b = [a EXCEPT !.ids = @ \cup {i}]
    BY <1>1, <1>3 DEF Add
  <2>2. /\ b.ids = a.ids \cup {i} /\ b.n = a.n /\ b.first = a.first /\ b.last = a.last /\ b.open = a.open
        /\ b.close = a.close /\ b.lo = a.lo /\ b.hi = a.hi
        /\ b \in [n : Nat, first : Nat, last : Nat, open : Nat, close : Nat, lo : Nat, hi : Nat,
                  ids : SUBSET (1..Len(log))]
    BY <1>2, <2>1
  <2>3. {k \in b.ids : log[k].mid # 0} = S
    BY <1>3, <2>2
  <2>4. S = {} => b = [Acc EXCEPT !.ids = b.ids]
    BY <1>2, <2>1, <2>2
  <2>5. \A k \in b.ids : Window(log[k].t) = w /\ log[k].t \in 1..(Minute + 1) /\ log[k].mid \in 0..2
    BY <1>2, <2>2
  <2>6. S # {} =>
           /\ \E k \in S : /\ log[k].t = b.first /\ log[k].mid = b.open
                           /\ \A l \in S : b.first <= log[l].t /\ (log[l].t = b.first => k <= l)
           /\ \E k \in S : /\ log[k].t = b.last /\ log[k].mid = b.close
                           /\ \A l \in S : log[l].t <= b.last /\ (log[l].t = b.last => l <= k)
           /\ \E k \in S : log[k].mid = b.lo
           /\ \E k \in S : log[k].mid = b.hi
           /\ \A k \in S : b.lo <= log[k].mid /\ log[k].mid <= b.hi
    BY <2>2 DEF Sums
  <2> QED  BY <1>1, <1>2, <2>2, <2>3, <2>4, <2>5, <2>6 DEF Sums
<1>4. CASE m.mid # 0
  <2>1. /\ b = [n |-> b.n, first |-> b.first, open |-> b.open, last |-> b.last, close |-> b.close,
                lo |-> b.lo, hi |-> b.hi, ids |-> b.ids]
        /\ b.n = a.n + 1 /\ b.ids = a.ids \cup {i}
        /\ b.first = (IF m.t < a.first THEN m.t ELSE a.first)
        /\ b.open = (IF m.t < a.first THEN m.mid ELSE a.open)
        /\ b.last = (IF m.t >= a.last THEN m.t ELSE a.last)
        /\ b.close = (IF m.t >= a.last THEN m.mid ELSE a.close)
        /\ b.lo = (IF m.mid < a.lo THEN m.mid ELSE a.lo)
        /\ b.hi = (IF m.mid > a.hi THEN m.mid ELSE a.hi)
    BY <1>1, <1>4, AddFields
  <2>2. m.t \in Nat /\ m.mid \in 1..2 /\ m.t >= 1 /\ m.t < Huge /\ m.mid < Huge /\ Huge \in Nat
    BY <1>4, StreamAssumption DEF Huge
  <2>3. /\ a.n \in Nat /\ a.first \in Nat /\ a.last \in Nat /\ a.open \in Nat /\ a.close \in Nat
        /\ a.lo \in Nat /\ a.hi \in Nat /\ a.ids \in SUBSET (1..Len(log))
    BY <1>2
  <2>4. b \in [n : Nat, first : Nat, last : Nat, open : Nat, close : Nat, lo : Nat, hi : Nat,
               ids : SUBSET (1..Len(log))]
    <3>1. b.n \in Nat /\ b.first \in Nat /\ b.last \in Nat /\ b.open \in Nat /\ b.close \in Nat
      BY <2>1, <2>2, <2>3
    <3>2. b.lo \in Nat /\ b.hi \in Nat /\ b.ids \in SUBSET (1..Len(log))
      BY <2>1, <2>2, <2>3
    <3> QED  BY <2>1, <3>1, <3>2
  <2>5. {k \in b.ids : log[k].mid # 0} = S \cup {i}
    BY <1>4, <2>1
  <2>6. IsFiniteSet(S) /\ i \notin S
    <3>1. IsFiniteSet(1..Len(log))
      BY PositionsAreFinite
    <3>2. \A k \in S : k \in 1..Len(log) /\ k # i
      BY <2>3
    <3> HIDE DEF S
    <3>3. S \subseteq 1..Len(log)
      BY <3>2
    <3> QED  BY <3>1, <3>2, <3>3, FS_Subset
  <2>7. b.n = Cardinality(S \cup {i})
    <3>1. a.n = Cardinality(S)
      BY <1>2
    <3>2. b.n = a.n + 1
      BY <2>1
    <3> HIDE DEF S
    <3> QED  BY <2>6, <3>1, <3>2, FS_AddElement
  <2>8. \A k \in b.ids : Window(log[k].t) = w /\ log[k].t \in 1..(Minute + 1) /\ log[k].mid \in 0..2
    <3>1. b.ids = a.ids \cup {i}
      BY <2>1
    <3>2. \A k \in a.ids : Window(log[k].t) = w /\ log[k].t \in 1..(Minute + 1) /\ log[k].mid \in 0..2
      BY <1>2
    <3> HIDE DEF S, m
    <3> QED  BY <3>1, <3>2
  <2> DEFINE N == S \cup {i}
  <2>9. ASSUME NEW k \in S
        PROVE  log[k].t \in Nat /\ log[k].mid \in Nat /\ k \in Nat /\ k < i /\ log[k].mid # 0
    <3>1. k \in a.ids /\ log[k].mid # 0
      OBVIOUS
    <3>2. k \in 1..Len(log) /\ log[k].t \in 1..(Minute + 1) /\ log[k].mid \in 0..2
      BY <1>2, <3>1
    <3>3. k < i
      BY <3>1
    <3> QED  BY <3>1, <3>2, <3>3, StreamAssumption
  <2>10. i \in Nat
    OBVIOUS
  <2>11. /\ \E k \in N : /\ log[k].t = b.first /\ log[k].mid = b.open
                         /\ \A l \in N : b.first <= log[l].t /\ (log[l].t = b.first => k <= l)
         /\ \E k \in N : /\ log[k].t = b.last /\ log[k].mid = b.close
                         /\ \A l \in N : log[l].t <= b.last /\ (log[l].t = b.last => l <= k)
         /\ \E k \in N : log[k].mid = b.lo
         /\ \E k \in N : log[k].mid = b.hi
         /\ \A k \in N : b.lo <= log[k].mid /\ log[k].mid <= b.hi
    <3>1. CASE S = {}
      <4>1. a.first = Huge /\ a.last = 0 /\ a.lo = Huge /\ a.hi = 0
        <5>1. a = [Acc EXCEPT !.ids = a.ids]
          BY <1>2, <3>1
        <5>2. Acc.first = Huge /\ Acc.last = 0 /\ Acc.lo = Huge /\ Acc.hi = 0
              /\ DOMAIN Acc = {"n", "first", "last", "open", "close", "lo", "hi", "ids"}
          BY DEF Acc
        <5>3. PICK z : z = Acc
          OBVIOUS
        <5> QED  BY <5>1, <5>2, <5>3
      <4>2. b.first = m.t /\ b.open = m.mid /\ b.last = m.t /\ b.close = m.mid /\ b.lo = m.mid /\ b.hi = m.mid
        BY <2>1, <2>2, <4>1
      <4>3. N = {i}
        BY <3>1
      <4> QED  BY <2>2, <2>10, <4>2, <4>3
    <3>2. CASE S # {}
      <4>1. PICK f \in S : /\ log[f].t = a.first /\ log[f].mid = a.open
                           /\ \A k \in S : a.first <= log[k].t /\ (log[k].t = a.first => f <= k)
        BY <3>2 DEF Sums
      <4>2. PICK e \in S : /\ log[e].t = a.last /\ log[e].mid = a.close
                           /\ \A k \in S : log[k].t <= a.last /\ (log[k].t = a.last => k <= e)
        BY <3>2 DEF Sums
      <4>3. PICK p \in S : log[p].mid = a.lo
        BY <3>2 DEF Sums
      <4>4. PICK q \in S : log[q].mid = a.hi
        BY <3>2 DEF Sums
      <4>5. \A k \in S : a.lo <= log[k].mid /\ log[k].mid <= a.hi
        BY <3>2 DEF Sums
      <4> HIDE DEF S
      <4>6. \E k \in N : /\ log[k].t = b.first /\ log[k].mid = b.open
                         /\ \A l \in N : b.first <= log[l].t /\ (log[l].t = b.first => k <= l)
        <5>1. CASE m.t < a.first
          <6>1. b.first = m.t /\ b.open = m.mid
            BY <2>1, <5>1
          <6>2. ASSUME NEW l \in S PROVE b.first <= log[l].t /\ log[l].t # b.first
            <7>1. a.first <= log[l].t /\ m.t < a.first /\ a.first \in Nat /\ m.t \in Nat
              BY <2>2, <2>3, <4>1, <5>1
            <7>2. log[l].t \in Nat
              BY <2>9
            <7> HIDE DEF m
            <7> QED  BY <6>1, <7>1, <7>2
          <6> QED  BY <2>2, <2>10, <6>1, <6>2
        <5>2. CASE ~(m.t < a.first)
          <6>1. b.first = a.first /\ b.open = a.open
            BY <2>1, <5>2
          <6>2. a.first <= m.t /\ f <= i
            BY <2>2, <2>3, <2>9, <2>10, <5>2
          <6> QED  BY <4>1, <6>1, <6>2
        <5> QED  BY <5>1, <5>2
      <4>7. \E k \in N : /\ log[k].t = b.last /\ log[k].mid = b.close
                         /\ \A l \in N : log[l].t <= b.last /\ (log[l].t = b.last => l <= k)
        <5>1. CASE m.t >= a.last
          <6>1. b.last = m.t /\ b.close = m.mid
            BY <2>1, <5>1
          <6>2. ASSUME NEW l \in S PROVE log[l].t <= b.last /\ l <= i
            <7>1. log[l].t <= a.last /\ a.last <= m.t /\ a.last \in Nat /\ m.t \in Nat
              BY <2>2, <2>3, <4>2, <5>1
            <7>2. log[l].t \in Nat /\ l \in Nat /\ l < i
              BY <2>9
            <7> HIDE DEF m
            <7> QED  BY <2>10, <6>1, <7>1, <7>2
          <6> QED  BY <2>2, <2>10, <6>1, <6>2
        <5>2. CASE ~(m.t >= a.last)
          <6>1. b.last = a.last /\ b.close = a.close
            BY <2>1, <5>2
          <6>2. m.t <= a.last /\ m.t # a.last
            BY <2>2, <2>3, <5>2
          <6> QED  BY <4>2, <6>1, <6>2
        <5> QED  BY <5>1, <5>2
      <4>8. /\ \E k \in N : log[k].mid = b.lo
            /\ \A k \in N : b.lo <= log[k].mid
        <5>1. CASE m.mid < a.lo
          <6>1. b.lo = m.mid
            BY <2>1, <5>1
          <6>2. ASSUME NEW k \in S PROVE b.lo <= log[k].mid
            <7>1. a.lo <= log[k].mid /\ m.mid < a.lo /\ a.lo \in Nat /\ m.mid \in Nat
              BY <2>2, <2>3, <4>5, <5>1
            <7>2. log[k].mid \in Nat
              BY <2>9
            <7> HIDE DEF m
            <7> QED  BY <6>1, <7>1, <7>2
          <6> QED  BY <2>2, <6>1, <6>2
        <5>2. CASE ~(m.mid < a.lo)
          <6>1. b.lo = a.lo
            BY <2>1, <5>2
          <6>2. a.lo <= m.mid
            BY <2>2, <2>3, <5>2
          <6> QED  BY <4>3, <4>5, <6>1, <6>2
        <5> QED  BY <5>1, <5>2
      <4>9. /\ \E k \in N : log[k].mid = b.hi
            /\ \A k \in N : log[k].mid <= b.hi
        <5>1. CASE m.mid > a.hi
          <6>1. b.hi = m.mid
            BY <2>1, <5>1
          <6>2. ASSUME NEW k \in S PROVE log[k].mid <= b.hi
            <7>1. log[k].mid <= a.hi /\ a.hi < m.mid /\ a.hi \in Nat /\ m.mid \in Nat
              BY <2>2, <2>3, <4>5, <5>1
            <7>2. log[k].mid \in Nat
              BY <2>9
            <7> HIDE DEF m
            <7> QED  BY <6>1, <7>1, <7>2
          <6> QED  BY <2>2, <6>1, <6>2
        <5>2. CASE ~(m.mid > a.hi)
          <6>1. b.hi = a.hi
            BY <2>1, <5>2
          <6>2. m.mid <= a.hi
            BY <2>2, <2>3, <5>2
          <6> QED  BY <4>4, <4>5, <6>1, <6>2
        <5> QED  BY <5>1, <5>2
      <4> QED  BY <4>6, <4>7, <4>8, <4>9
    <3> QED  BY <3>1, <3>2
  <2> HIDE DEF S
  <2>12. N # {}
    OBVIOUS
  <2> HIDE DEF N
  <2>13. {k \in b.ids : log[k].mid # 0} = N
    BY <2>5 DEF N
  <2>14. b.n = Cardinality(N)
    BY <2>7 DEF N
  <2>15. Sums(log, w, b)
    BY <2>4, <2>8, <2>11, <2>12, <2>13, <2>14 DEF Sums
  <2> QED  BY <1>1, <2>1, <2>15
<1> QED  BY <1>3, <1>4

\* A minute's row is what Reference says of its snapshots.
LEMMA SumsAreReference ==
  ASSUME NEW w, NEW a, Sums(topic, w, a), a.n > 0, Len(topic) \in Nat
  PROVE  a = Reference(a.ids)
<1> DEFINE S == {i \in a.ids : topic[i].mid # 0}
           T == {topic[i].t : i \in S}
           P == {topic[i].mid : i \in S}
           first == CHOOSE t \in T : \A u \in T : t <= u
           last == CHOOSE t \in T : \A u \in T : u <= t
           opens == CHOOSE i \in S : topic[i].t = first /\ \A j \in S : topic[j].t = first => i <= j
           closes == CHOOSE i \in S : topic[i].t = last /\ \A j \in S : topic[j].t = last => j <= i
           low == CHOOSE p \in P : \A q \in P : p <= q
           high == CHOOSE p \in P : \A q \in P : q <= p
<1>1. Reference(a.ids) = [n |-> Cardinality(S), first |-> first, last |-> last, ids |-> a.ids,
                          open |-> topic[opens].mid, close |-> topic[closes].mid, lo |-> low, hi |-> high]
  BY Zenon DEF Reference
<1>2. /\ a \in [n : Nat, first : Nat, last : Nat, open : Nat, close : Nat, lo : Nat, hi : Nat,
                ids : SUBSET (1..Len(topic))]
      /\ \A k \in a.ids : topic[k].t \in 1..(Minute + 1) /\ topic[k].mid \in 0..2
      /\ a.n = Cardinality(S)
  BY DEF Sums
<1>3. S # {}
  <2>1. Cardinality({}) = 0
    BY FS_EmptySet
  <2>2. Cardinality(S) # 0
    <3>1. a.n = Cardinality(S)
      BY <1>2
    <3> HIDE DEF S
    <3> QED  BY <3>1
  <2> HIDE DEF S
  <2> QED  BY <2>1, <2>2
<1>4. PICK f \in S : /\ topic[f].t = a.first /\ topic[f].mid = a.open
                     /\ \A k \in S : a.first <= topic[k].t /\ (topic[k].t = a.first => f <= k)
  BY <1>3 DEF Sums
<1>5. PICK e \in S : /\ topic[e].t = a.last /\ topic[e].mid = a.close
                     /\ \A k \in S : topic[k].t <= a.last /\ (topic[k].t = a.last => k <= e)
  BY <1>3 DEF Sums
<1>6. PICK p \in S : topic[p].mid = a.lo
  BY <1>3 DEF Sums
<1>7. PICK q \in S : topic[q].mid = a.hi
  BY <1>3 DEF Sums
<1>8. \A k \in S : a.lo <= topic[k].mid /\ topic[k].mid <= a.hi
  BY <1>3 DEF Sums
<1>9. \A k \in S : k \in Nat /\ topic[k].t \in Nat /\ topic[k].mid \in Nat
  <2> TAKE k \in S
  <2>1. k \in a.ids /\ a.ids \in SUBSET (1..Len(topic))
    BY <1>2
  <2>2. topic[k].t \in 1..(Minute + 1) /\ topic[k].mid \in 0..2
    BY <1>2, <2>1
  <2> QED  BY <2>1, <2>2, StreamAssumption
<1>10. a.first \in Nat /\ a.last \in Nat /\ a.lo \in Nat /\ a.hi \in Nat
  BY <1>2
<1> HIDE DEF S
<1>11. first = a.first
  <2>1. a.first \in T /\ \A u \in T : a.first <= u
    BY <1>4
  <2>2. \A t \in T : t \in Nat
    BY <1>9
  <2> HIDE DEF T
  <2> QED  BY <1>10, <2>1, <2>2
<1>12. last = a.last
  <2>1. a.last \in T /\ \A u \in T : u <= a.last
    BY <1>5
  <2>2. \A t \in T : t \in Nat
    BY <1>9
  <2> HIDE DEF T
  <2> QED  BY <1>10, <2>1, <2>2
<1>13. low = a.lo
  <2>1. a.lo \in P /\ \A u \in P : a.lo <= u
    BY <1>6, <1>8
  <2>2. \A t \in P : t \in Nat
    BY <1>9
  <2> HIDE DEF P
  <2> QED  BY <1>10, <2>1, <2>2
<1>14. high = a.hi
  <2>1. a.hi \in P /\ \A u \in P : u <= a.hi
    BY <1>7, <1>8
  <2>2. \A t \in P : t \in Nat
    BY <1>9
  <2> HIDE DEF P
  <2> QED  BY <1>10, <2>1, <2>2
<1> HIDE DEF first, last, low, high
<1>15. opens = f
  BY <1>4, <1>9, <1>11
<1>16. closes = e
  BY <1>5, <1>9, <1>12
<1> HIDE DEF opens, closes
<1>17. Reference(a.ids) = [n |-> a.n, first |-> a.first, last |-> a.last, ids |-> a.ids,
                           open |-> a.open, close |-> a.close, lo |-> a.lo, hi |-> a.hi]
  BY <1>1, <1>2, <1>4, <1>5, <1>11, <1>12, <1>13, <1>14, <1>15, <1>16
<1> QED  BY <1>2, <1>17

\* A longer topic changes no sum.
LEMMA SumsLast ==
  ASSUME NEW log, NEW more, NEW w, NEW a, Sums(log, w, a), Len(log) \in Nat, Len(more) \in Nat,
         Len(log) <= Len(more), \A i \in 1..Len(log) : more[i] = log[i]
  PROVE  Sums(more, w, a)
<1> DEFINE S == {i \in a.ids : log[i].mid # 0}
<1>1. a \in [n : Nat, first : Nat, last : Nat, open : Nat, close : Nat, lo : Nat, hi : Nat,
             ids : SUBSET (1..Len(log))]
  BY DEF Sums
<1>2. \A i \in a.ids : i \in 1..Len(log) /\ i \in 1..Len(more) /\ more[i] = log[i]
  BY <1>1
<1>3. a \in [n : Nat, first : Nat, last : Nat, open : Nat, close : Nat, lo : Nat, hi : Nat,
             ids : SUBSET (1..Len(more))]
  BY <1>1, <1>2
<1>4. {i \in a.ids : more[i].mid # 0} = S
  BY <1>2
<1>5. \A i \in S : more[i] = log[i]
  BY <1>2
<1>6. \A i \in a.ids : Window(more[i].t) = w /\ more[i].t \in 1..(Minute + 1) /\ more[i].mid \in 0..2
  BY <1>2 DEF Sums
<1>7. /\ a.n = Cardinality(S)
      /\ S = {} => a = [Acc EXCEPT !.ids = a.ids]
  BY DEF Sums
<1>8. S # {} =>
           /\ \E i \in S : /\ more[i].t = a.first /\ more[i].mid = a.open
                           /\ \A k \in S : a.first <= more[k].t /\ (more[k].t = a.first => i <= k)
           /\ \E j \in S : /\ more[j].t = a.last /\ more[j].mid = a.close
                           /\ \A k \in S : more[k].t <= a.last /\ (more[k].t = a.last => k <= j)
           /\ \E k \in S : more[k].mid = a.lo
           /\ \E k \in S : more[k].mid = a.hi
           /\ \A k \in S : a.lo <= more[k].mid /\ more[k].mid <= a.hi
  BY <1>5 DEF Sums
<1> HIDE DEF S
<1> QED  BY <1>3, <1>4, <1>6, <1>7, <1>8 DEF Sums

-----------------------------------------------------------------------------
(* The minutes in the steps *)

LEMMA MXStarts == SJInit => MXInv
<1> SUFFICES ASSUME SJInit PROVE MXInv
  OBVIOUS
<1>1. /\ topic = <<>> /\ job = Started(0, NoWins, 0) /\ ckpt = [pos |-> NoOffset, wins |-> NoWins]
      /\ stored.minute = EmptyBag /\ past.taken = {} /\ past.lost = FALSE
  BY DEF SJInit, NoCkpt
<1>2. Len(topic) = 0 /\ DOMAIN NoWins = {}
  BY <1>1 DEF NoWins
<1>3. /\ job.wins = NoWins /\ job.mark = 0 /\ job.seen = 0 /\ job.hold = NoRows /\ ckpt.wins = NoWins
      /\ ckpt.pos = NoOffset
  BY <1>1 DEF Started
<1>4. MinuteRows = {}
  BY <1>1, <1>3 DEF MinuteRows, Filed, BagToSet, EmptyBag, SetToBag, NoRows
<1>5. Books /\ Windows(job.wins, job.pos) /\ Windows(ckpt.wins, ckpt.pos)
  BY <1>2, <1>3 DEF Books, Windows
<1>6. Single /\ Complete
  BY <1>1, <1>2, <1>3, <1>4 DEF Single, Complete
<1>7. job.pos = 0 /\ ckpt.pos <= job.pos
  BY <1>1, <1>3 DEF Started, NoOffset
<1> QED  BY <1>3, <1>4, <1>5, <1>6, <1>7 DEF MXInv

\* Steps that leave the job where it is, and may store what it holds.
LEMMA StayKeeps ==
  ASSUME MXInv, topic' = topic, kind' = kind, ckpt' = ckpt,
         past'.taken = past.taken, past'.lost = past.lost, past'.anew = past.anew,
         job'.at = "running" => job.at = "running",
         job'.pos = job.pos, job'.wins = job.wins, job'.mark = job.mark, job'.seen = job.seen,
         MinuteRows' = MinuteRows, Filed \subseteq Filed'
  PROVE  MXInv'
<1>1. Books'
  BY DEF MXInv, Books, Parse
<1>2. Windows(job.wins, job.pos)' /\ Windows(ckpt.wins, ckpt.pos)'
  BY DEF MXInv, Windows
<1>3. (\A r \in MinuteRows : Sums(topic, r.w, r.acc) /\ r.acc.n > 0)'
  BY DEF MXInv
<1>4. Single'
  BY DEF MXInv, Single
<1>5. Complete'
  <2>1. \A i, wins, filed : Held(i, wins, Filed) => Held(i, wins, Filed')
    BY DEF Held
  <2> QED  BY <2>1 DEF MXInv, Complete
<1> QED  BY <1>1, <1>2, <1>3, <1>4, <1>5 DEF MXInv

\* The job ends, after a checkpoint perhaps.
LEMMA HaltKeeps ==
  ASSUME MXInv, topic' = topic, kind' = kind, Len(topic) \in Nat,
         past'.taken = past.taken, past'.lost = past.lost, past'.anew = past.anew,
         job'.at # "running", job'.wins = NoWins, job'.mark = 0, job'.seen = 0,
         MinuteRows' \subseteq MinuteRows, Filed \subseteq Filed',
         \/ ckpt' = ckpt
         \/ /\ job.at = "running" /\ ckpt'.wins = job.wins /\ ckpt'.pos = job.pos
            /\ MinuteRows = Filed'
  PROVE  MXInv'
<1>1. Books'
  BY DEF MXInv, Books, Parse
<1>2. DOMAIN NoWins = {}
  BY DEF NoWins
<1>3. Windows(job.wins, job.pos)' /\ Windows(ckpt.wins, ckpt.pos)'
  BY <1>2 DEF MXInv, Windows
<1>4. (\A r \in MinuteRows : Sums(topic, r.w, r.acc) /\ r.acc.n > 0)'
  BY DEF MXInv
<1>5. Single'
  BY <1>2 DEF MXInv, Single
<1>6. Complete'
  <2>1. \A i, wins : Held(i, wins, Filed) => Held(i, wins, Filed')
    BY DEF Held
  <2>2. past.taken \subseteq 1..Len(topic)
    BY DEF MXInv, Complete
  <2>3. CASE ckpt' = ckpt
    BY <1>2, <2>1, <2>2, <2>3 DEF MXInv, Complete
  <2>4. CASE job.at = "running" /\ ckpt'.wins = job.wins /\ ckpt'.pos = job.pos /\ MinuteRows = Filed'
    <3>1. ~past.lost => \A i \in past.taken : topic[i].mid # 0 => Held(i, ckpt'.wins, Filed')
      BY <2>4 DEF MXInv, Complete
    <3> QED  BY <1>2, <2>2, <3>1 DEF Complete
  <2> QED  BY <2>3, <2>4
<1> QED  BY <1>1, <1>2, <1>3, <1>4, <1>5, <1>6 DEF MXInv

\* A job begins at p with windows W.
LEMMA BeginsKeep ==
  ASSUME MXInv, topic' = topic, kind' = kind, stored' = stored, Len(topic) \in Nat,
         NEW p, NEW W, NEW r, job' = Started(p, W, r),
         past'.anew, past'.taken = {i \in past.taken : i <= p},
         Windows(W, p), Windows(ckpt'.wins, ckpt'.pos), ckpt'.pos <= p,
         ~past'.lost => /\ W = ckpt'.wins /\ p = ckpt'.pos
                        /\ \A i \in past.taken : topic[i].mid # 0 /\ i <= p => Held(i, W, Filed)
  PROVE  MXInv'
<1>1. Books'
  BY DEF MXInv, Books, Parse
<1>2. /\ job'.wins = W /\ job'.pos = p /\ job'.mark = 0 /\ job'.seen = 0 /\ job'.hold = NoRows
  BY DEF Started
<1>3. MinuteRows' = Filed /\ Filed' = Filed
  BY <1>2 DEF MinuteRows, Filed, NoRows
<1>4. Windows(job.wins, job.pos)' /\ Windows(ckpt.wins, ckpt.pos)'
  BY <1>2 DEF MXInv, Windows
<1>5. (\A q \in MinuteRows : Sums(topic, q.w, q.acc) /\ q.acc.n > 0)'
  BY <1>3 DEF MXInv, MinuteRows
<1>6. Single'
  BY DEF Single
<1>7. Complete'
  <2>1. past'.taken \subseteq 1..Len(topic)
    BY DEF MXInv, Complete
  <2> QED  BY <1>2, <1>3, <2>1 DEF Complete
<1> QED  BY <1>1, <1>2, <1>4, <1>5, <1>6, <1>7 DEF MXInv

\* What an attempt leaves in the table of the minutes: one copy more of every
\* row it holds.
LEMMA BagAdds ==
  ASSUME NEW B, IsABag(B), NEW S, NEW C, C = B (+) SetToBag(S)
  PROVE  /\ IsABag(C) /\ BagToSet(C) = BagToSet(B) \cup S
         /\ \A r : (IF r \in BagToSet(C) THEN C[r] ELSE 0)
                    = (IF r \in BagToSet(B) THEN B[r] ELSE 0) + (IF r \in S THEN 1 ELSE 0)
<1>1. DOMAIN SetToBag(S) = S /\ \A e \in S : SetToBag(S)[e] = 1
  BY DEF SetToBag
<1>2. C = [e \in DOMAIN B \cup S |-> (IF e \in DOMAIN B THEN B[e] ELSE 0)
                                    + (IF e \in S THEN SetToBag(S)[e] ELSE 0)]
  BY <1>1 DEF (+)
<1>3. \A e \in DOMAIN B : B[e] \in Nat /\ B[e] > 0
  BY DEF IsABag
<1>4. /\ DOMAIN C = DOMAIN B \cup S
      /\ \A e \in DOMAIN C : C[e] = (IF e \in DOMAIN B THEN B[e] ELSE 0) + (IF e \in S THEN 1 ELSE 0)
  BY <1>1, <1>2
<1>5. \A e \in DOMAIN C : C[e] \in Nat /\ C[e] > 0
  BY <1>3, <1>4
<1>6. IsABag(C)
  BY <1>2, <1>5 DEF IsABag
<1> QED  BY <1>3, <1>4, <1>6 DEF BagToSet

\* A sink writes its minutes where the minutes are.
LEMMA WrittenMinute ==
  ASSUME SJTypes, NEW s \in Sinks
  PROVE  Written(s).minute = IF s = "minute" THEN stored.minute (+) SetToBag(job.hold.minute)
                             ELSE stored.minute
<1>1. DOMAIN stored = {"row", "dead", "minute", "young", "marked"}
  BY DEF SJTypes
<1>2. CASE s = "row"
  <2>1. PICK keys : Written(s) = Inserted(keys)
    BY <1>2 DEF Written
  <2>2. PICK y : Inserted(keys) = [stored EXCEPT !.row = @ \cup keys, !.young = y]
    BY DEF Inserted
  <2> QED  BY <1>1, <1>2, <2>1, <2>2
<1>3. CASE s = "dead"
  BY <1>1, <1>3 DEF Written
<1>4. CASE s = "minute"
  BY <1>1, <1>4 DEF Written
<1> QED  BY <1>2, <1>3, <1>4 DEF Sinks

\* The rows there are, without their copies.
LEMMA WrittenFiles ==
  ASSUME SJTypes, NEW s \in Sinks, stored' = Written(s)
  PROVE  Filed' = IF s = "minute" THEN Filed \cup job.hold.minute ELSE Filed
<1>1. CASE s = "minute"
  <2>1. stored'.minute = stored.minute (+) SetToBag(job.hold.minute)
    BY <1>1, WrittenMinute
  <2>2. \A B, S : DOMAIN (B (+) SetToBag(S)) = DOMAIN B \cup S
    BY DEF (+), SetToBag
  <2> QED  BY <1>1, <2>1, <2>2 DEF Filed, BagToSet
<1>2. CASE s # "minute"
  <2>1. stored'.minute = stored.minute
    BY <1>2, WrittenMinute
  <2> QED  BY <1>2, <2>1 DEF Filed
<1> QED  BY <1>1, <1>2

LEMMA MXArrive == ASSUME SJInv, MXInv, Arrive PROVE MXInv'
<1>1. UNCHANGED <<kind, job, ckpt, committed, stored, past>>
  BY DEF Arrive
<1>2. /\ topic' \in Seq(Message) /\ Len(topic) \in Nat /\ Len(topic') = Len(topic) + 1
      /\ \A i \in 1..Len(topic) : topic'[i] = topic[i]
  BY Positions, TopicGrows
<1>3. \A w, a : Sums(topic, w, a) => Sums(topic', w, a)
  BY <1>2, SumsLast
<1>4. Books'
  <2>1. PICK m \in Arrivals : topic' = Append(topic, m)
    BY DEF Arrive
  <2>2. topic'[Len(topic) + 1] = m
    BY <1>2, <2>1, Positions DEF SJTypes
  <2>3. kind = "orderbook" =>
          \/ \E t \in 1..(Minute + 1) :
               m = [is |-> "row", key |-> Len(topic) + 1, t |-> t, mid |-> 1 + ((Len(topic) + 1) % 2)]
          \/ m = [is |-> "row", key |-> Len(topic) + 1, t |-> 1, mid |-> 0]
          \/ m = [is |-> "broken", key |-> 0, t |-> Len(topic) + 1, mid |-> 0]
    BY DEF Arrivals
  <2>4. kind = "orderbook" /\ Parse(m) = "row" => m.t \in 1..(Minute + 1) /\ m.mid \in 0..2
    <3>1. 1 \in 1..(Minute + 1)
      BY StreamAssumption
    <3>2. 1 + ((Len(topic) + 1) % 2) \in 0..2
      BY <1>2
    <3>3. kind = "orderbook" /\ m.is = "broken" => Parse(m) # "row"
      BY DEF Parse
    <3> QED  BY <2>3, <3>1, <3>2, <3>3
  <2>5. ASSUME NEW i \in 1..Len(topic'), Parse(topic[i])' = "row" /\ kind' = "orderbook"
        PROVE  topic'[i].t \in 1..(Minute + 1) /\ topic'[i].mid \in 0..2
    <3>1. Parse(topic[i])' = Parse(topic'[i])
      BY <1>1 DEF Parse
    <3>2. CASE i = Len(topic) + 1
      BY <1>1, <2>2, <2>4, <2>5, <3>1, <3>2
    <3>3. CASE i # Len(topic) + 1
      <4>1. i \in 1..Len(topic)
        BY <1>2, <3>3
      <4>2. topic'[i] = topic[i]
        BY <1>2, <4>1
      <4> QED  BY <1>1, <2>5, <3>1, <4>1, <4>2 DEF MXInv, Books
    <3> QED  BY <3>2, <3>3
  <2> QED  BY <2>5 DEF Books
<1>5. Windows(job.wins, job.pos)' /\ Windows(ckpt.wins, ckpt.pos)'
  BY <1>1, <1>3 DEF MXInv, Windows
<1>6. MinuteRows' = MinuteRows /\ Filed' = Filed
  BY <1>1 DEF MinuteRows, Filed
<1>7. (\A r \in MinuteRows : Sums(topic, r.w, r.acc) /\ r.acc.n > 0)'
  BY <1>3, <1>6 DEF MXInv
<1>8. Single'
  BY <1>1, <1>6 DEF MXInv, Single
<1>9. Complete'
  <2>1. past.taken \subseteq 1..Len(topic) /\ past.taken \subseteq 1..Len(topic')
    BY <1>2 DEF MXInv, Complete
  <2>2. \A i \in past.taken : topic'[i] = topic[i]
    BY <1>2, <2>1
  <2>3. ~past.lost /\ job.at = "running" =>
          \A i \in past.taken : topic'[i].mid # 0 => Held(i, job.wins, MinuteRows)
    BY <2>2 DEF MXInv, Complete
  <2>4. ~past.lost /\ ckpt.pos # NoOffset =>
          \A i \in past.taken : topic'[i].mid # 0 /\ i <= ckpt.pos => Held(i, ckpt.wins, Filed)
    BY <2>2 DEF MXInv, Complete
  <2> QED  BY <1>1, <1>6, <2>1, <2>3, <2>4 DEF Complete
<1> QED  BY <1>1, <1>4, <1>5, <1>7, <1>8, <1>9 DEF MXInv

LEMMA MXFlush == ASSUME SJInv, MXInv, NEW s \in Sinks, Flush(s) PROVE MXInv'
<1>1. UNCHANGED <<kind, topic, ckpt, committed, past>> /\ stored' = Written(s)
  BY DEF Flush
<1>2. /\ job'.at = job.at /\ job'.pos = job.pos /\ job'.wins = job.wins /\ job'.mark = job.mark /\ job'.seen = job.seen
      /\ job'.hold.minute = IF s = "minute" THEN {} ELSE job.hold.minute
  <2>1. DOMAIN job = JobFields /\ DOMAIN job.hold = Sinks
    BY Positions DEF SJTypes
  <2>2. job' = [job EXCEPT !.hold[s] = {}, !.tries[s] = 0]
    BY DEF Flush
  <2> QED  BY <2>1, <2>2 DEF JobFields, Sinks
<1>3. Filed' = IF s = "minute" THEN Filed \cup job.hold.minute ELSE Filed
  BY <1>1, Positions, WrittenFiles
<1>4. MinuteRows' = MinuteRows /\ Filed \subseteq Filed'
  BY <1>2, <1>3 DEF MinuteRows
<1> QED  BY <1>1, <1>2, <1>4, StayKeeps

LEMMA DownMore ==
  Down.at # "running" /\ Down.wins = NoWins /\ Down.mark = 0 /\ Down.seen = 0
BY DEF Down, Started

LEMMA MXFlushFails ==
  ASSUME SJInv, MXInv, NEW s \in Sinks, NEW effective \in BOOLEAN, FlushFails(s, effective)
  PROVE  MXInv'
<1>0. UNCHANGED <<kind, topic, ckpt, committed>>
  BY DEF FlushFails
<1>1. past'.taken = past.taken /\ past'.lost = past.lost /\ past'.anew = past.anew
  <2>1. past' = past \/ \E a : past' = [past EXCEPT !.again = a]
    BY DEF FlushFails
  <2>2. DOMAIN past = {"skipped", "taken", "lost", "anew", "again"}
    BY Positions DEF SJTypes
  <2> QED  BY <2>1, <2>2
<1>2. Filed' = Filed \/ Filed' = Filed \cup job.hold.minute
  <2>1. stored' = Written(s) \/ stored' = stored
    BY DEF FlushFails
  <2> QED  BY <2>1, Positions, WrittenFiles DEF Filed
<1>3. CASE job' = Down
  <2>1. /\ job'.hold = NoRows /\ job'.at # "running" /\ job'.wins = NoWins
        /\ job'.mark = 0 /\ job'.seen = 0
    BY <1>3, DownFields, DownMore
  <2>2. MinuteRows' \subseteq MinuteRows /\ Filed \subseteq Filed'
    BY <1>2, <2>1 DEF MinuteRows, NoRows
  <2> QED  BY <1>0, <1>1, <2>1, <2>2, Positions, HaltKeeps
<1>4. CASE job' # Down
  <2>1. /\ job'.at = job.at /\ job'.pos = job.pos /\ job'.wins = job.wins /\ job'.mark = job.mark /\ job'.seen = job.seen
        /\ job'.hold = job.hold
    <3>1. DOMAIN job = JobFields
      BY Positions DEF SJTypes
    <3>2. job' = [job EXCEPT !.tries[s] = @ + 1]
      BY <1>4 DEF FlushFails
    <3> QED  BY <3>1, <3>2 DEF JobFields
  <2>2. MinuteRows' = MinuteRows /\ Filed \subseteq Filed'
    BY <1>2, <2>1 DEF MinuteRows
  <2> QED  BY <1>0, <1>1, <2>1, <2>2, StayKeeps
<1> QED  BY <1>3, <1>4

LEMMA MXCrash == ASSUME SJInv, MXInv, Crash PROVE MXInv'
<1>1. UNCHANGED <<kind, topic, ckpt, committed, stored, past>> /\ job' = Down
  BY DEF Crash
<1>2. MinuteRows' \subseteq MinuteRows /\ Filed' = Filed
  <2>1. job'.hold = NoRows
    BY <1>1, DownFields
  <2> QED  BY <1>1, <2>1 DEF MinuteRows, Filed, NoRows
<1> QED  BY <1>1, <1>2, DownMore, Positions, HaltKeeps

LEMMA MXCheckpoint ==
  ASSUME SJInv, MXInv, NEW commits \in BOOLEAN, Checkpoint(commits) PROVE MXInv'
<1>1. /\ UNCHANGED <<kind, topic, stored, past>> /\ job.hold = NoRows /\ job.at = "running"
      /\ ckpt'.wins = job.wins /\ ckpt'.pos = job.pos /\ (job' = job \/ job' = Down)
  BY DEF Checkpoint
<1>2. MinuteRows = Filed /\ MinuteRows' = MinuteRows /\ Filed' = Filed
  <2>1. job'.hold = NoRows
    BY <1>1, DownFields
  <2> QED  BY <1>1, <2>1 DEF MinuteRows, Filed, NoRows
<1>3. CASE job' = job
  <2>1. Books'
    BY <1>1 DEF MXInv, Books, Parse
  <2>2. Windows(job.wins, job.pos)' /\ Windows(ckpt.wins, ckpt.pos)'
    BY <1>1, <1>3 DEF MXInv, Windows
  <2>3. (\A r \in MinuteRows : Sums(topic, r.w, r.acc) /\ r.acc.n > 0)'
    BY <1>1, <1>2 DEF MXInv
  <2>4. Single'
    BY <1>1, <1>2, <1>3 DEF MXInv, Single
  <2>5. Complete'
    BY <1>1, <1>2, <1>3 DEF MXInv, Complete
  <2>6. job'.pos \in Int /\ ckpt'.pos <= job'.pos
    BY <1>1, <1>3, Positions
  <2> QED  BY <1>3, <2>1, <2>2, <2>3, <2>4, <2>5, <2>6 DEF MXInv
<1>4. CASE job' = Down
  <2>1. MinuteRows' \subseteq MinuteRows /\ Filed \subseteq Filed' /\ MinuteRows = Filed'
    BY <1>1, <1>2
  <2> QED  BY <1>1, <1>4, <2>1, DownMore, Positions, HaltKeeps
<1> QED  BY <1>1, <1>3, <1>4

\* What a start remembers of the snapshots.
LEMMA BeganTaken ==
  ASSUME NEW p, NEW known, NEW kept
  PROVE  /\ Began(p, known, kept).taken = {i \in past.taken : i <= p}
         /\ Began(p, known, kept).lost = (past.lost \/ ~kept) /\ Began(p, known, kept).anew
  BY DEF Began

LEMMA MXRestart == ASSUME SJInv, MXInv, Restart PROVE MXInv'
<1>1. /\ UNCHANGED <<kind, topic, ckpt, committed, stored>>
      /\ job' = Started(StartAt, ckpt.wins, job.restarts + 1)
      /\ past' = Began(StartAt, ckpt.pos # NoOffset \/ committed # NoOffset, ckpt.pos # NoOffset)
  BY DEF Restart
<1>2. /\ past'.anew /\ past'.taken = {i \in past.taken : i <= StartAt}
      /\ past'.lost = (past.lost \/ ~(ckpt.pos # NoOffset))
  BY <1>1, BeganTaken
<1>3. PICK p : p = StartAt
  OBVIOUS
<1>4. ckpt.pos # NoOffset => p = ckpt.pos
  BY <1>3 DEF StartAt
<1>5. ckpt.pos <= p
  BY <1>3, Positions DEF StartAt, Reset, NoOffset
<1>6. Windows(ckpt.wins, ckpt.pos) /\ Windows(ckpt'.wins, ckpt'.pos)
  BY <1>1 DEF MXInv
<1>7. Windows(ckpt.wins, p)
  <2>1. p \in Int /\ ckpt.pos \in Int
    BY <1>3, Positions DEF StartAt, Reset, NoOffset
  <2>2. 1..ckpt.pos \subseteq 1..p
    BY <1>5, <2>1
  <2> QED  BY <1>6, <2>2 DEF Windows
<1>8. ~past'.lost => /\ ckpt.wins = ckpt'.wins /\ p = ckpt'.pos
                     /\ \A i \in past.taken : topic[i].mid # 0 /\ i <= p => Held(i, ckpt.wins, Filed)
  <2>1. SUFFICES ASSUME ~past'.lost
                 PROVE  /\ ckpt.wins = ckpt'.wins /\ p = ckpt'.pos
                        /\ \A i \in past.taken : topic[i].mid # 0 /\ i <= p => Held(i, ckpt.wins, Filed)
    OBVIOUS
  <2>2. ~past.lost /\ ckpt.pos # NoOffset
    BY <1>2, <2>1
  <2> QED  BY <1>1, <1>4, <2>2 DEF MXInv, Complete
<1>9. job' = Started(p, ckpt.wins, job.restarts + 1) /\ past'.taken = {i \in past.taken : i <= p}
      /\ ckpt'.pos <= p
  BY <1>1, <1>2, <1>3, <1>5
<1> QED  BY <1>1, <1>2, <1>6, <1>7, <1>8, <1>9, Positions, BeginsKeep

LEMMA MXWithdraw ==
  ASSUME SJInv, MXInv, NEW commits \in BOOLEAN, Withdraw(commits) PROVE MXInv'
<1>1. /\ UNCHANGED <<kind, topic, stored, past>> /\ job.hold = NoRows /\ job.at = "running"
      /\ ckpt'.pos = job.pos /\ ckpt'.wins = job.wins
  BY DEF Withdraw
<1>2. /\ job'.hold = NoRows /\ job'.at # "running" /\ job'.wins = NoWins
      /\ job'.mark = 0 /\ job'.seen = 0
  BY WithdrawnFields DEF Withdraw
<1>3. MinuteRows = Filed /\ MinuteRows' = MinuteRows /\ Filed' = Filed
  BY <1>1, <1>2 DEF MinuteRows, Filed, NoRows
<1> QED  BY <1>1, <1>2, <1>3, Positions, HaltKeeps

LEMMA MXDeploy == ASSUME SJInv, MXInv, Deploy PROVE MXInv'
<1>1. /\ UNCHANGED <<kind, topic, ckpt, committed, stored>> /\ job.at = "stopped"
      /\ job' = Started(ckpt.pos, ckpt.wins, 0) /\ past' = Began(ckpt.pos, TRUE, TRUE)
  BY DEF Deploy
<1>2. /\ past'.anew /\ past'.taken = {i \in past.taken : i <= ckpt.pos}
      /\ past'.lost = (past.lost \/ ~TRUE)
  BY <1>1 DEF Began
<1>3. ckpt.pos # NoOffset /\ ckpt.pos <= ckpt.pos
  BY <1>1, Positions DEF SJTypes
<1>4. ~past'.lost => \A i \in past.taken : topic[i].mid # 0 /\ i <= ckpt.pos => Held(i, ckpt.wins, Filed)
  BY <1>2, <1>3 DEF MXInv, Complete
<1>5. Windows(ckpt.wins, ckpt.pos) /\ Windows(ckpt'.wins, ckpt'.pos)
  BY <1>1 DEF MXInv
<1> QED  BY <1>1, <1>2, <1>3, <1>4, <1>5, Positions, BeginsKeep

LEMMA MXGiveUp == ASSUME SJInv, MXInv, GiveUp PROVE MXInv'
<1>1. UNCHANGED <<kind, topic, ckpt, committed, stored, past>>
  BY DEF GiveUp
<1>2. /\ job'.at = "gone" /\ job'.pos = job.pos /\ job'.wins = job.wins /\ job'.mark = job.mark
      /\ job'.seen = job.seen /\ job'.hold = job.hold
  <2>1. DOMAIN job = JobFields
    BY Positions DEF SJTypes
  <2> QED  BY <2>1 DEF GiveUp, JobFields
<1>3. MinuteRows' = MinuteRows /\ Filed' = Filed
  BY <1>1, <1>2 DEF MinuteRows, Filed
<1> QED  BY <1>1, <1>2, <1>3, StayKeeps

LEMMA MXResubmit == ASSUME SJInv, MXInv, Resubmit PROVE MXInv'
<1>1. /\ UNCHANGED <<kind, topic, committed, stored>> /\ ckpt'.pos = NoOffset /\ ckpt'.wins = NoWins
      /\ job' = Started(IF committed # NoOffset THEN committed ELSE Reset, NoWins, 0)
      /\ past' = Began(job'.pos, committed # NoOffset, FALSE)
  BY DEF Resubmit, NoCkpt
<1>2. PICK p : p = IF committed # NoOffset THEN committed ELSE Reset
  OBVIOUS
<1>3. job' = Started(p, NoWins, 0) /\ job'.pos = p
  BY <1>1, <1>2, StartedFields
<1>4. /\ past'.anew /\ past'.taken = {i \in past.taken : i <= p} /\ past'.lost
  BY <1>1, <1>3 DEF Began
<1>5. Windows(NoWins, p) /\ Windows(ckpt'.wins, ckpt'.pos)
  BY <1>1 DEF Windows, NoWins
<1>6. ckpt'.pos <= p
  BY <1>1, <1>2, Positions DEF Reset, NoOffset
<1> QED  BY <1>1, <1>3, <1>4, <1>5, <1>6, Positions, BeginsKeep

\* A sum of something is of some minute.
LEMMA SumsOfSome ==
  ASSUME NEW log, NEW w, NEW a, Sums(log, w, a), Len(log) \in Nat, \A i \in 1..Len(log) : log[i].t \in Int
  PROVE  /\ a.n > 0 <=> \E i \in a.ids : log[i].mid # 0
         /\ a.n > 0 => w \in Int
<1> DEFINE S == {i \in a.ids : log[i].mid # 0}
<1>1. a.n = Cardinality(S) /\ a.n \in Nat /\ a.ids \subseteq 1..Len(log)
  BY DEF Sums
<1>2. IsFiniteSet(S)
  <2>1. IsFiniteSet(1..Len(log)) /\ S \subseteq 1..Len(log)
    BY <1>1, PositionsAreFinite
  <2> HIDE DEF S
  <2> QED  BY <2>1, FS_Subset
<1>3. Cardinality(S) = 0 <=> S = {}
  <2> HIDE DEF S
  <2> QED  BY <1>2, FS_EmptySet
<1>4. a.n > 0 <=> S # {}
  <2> HIDE DEF S
  <2> QED  BY <1>1, <1>3
<1>5. a.n > 0 <=> \E i \in a.ids : log[i].mid # 0
  BY <1>4
<1>6. ASSUME NEW i \in a.ids PROVE w \in Int
  <2>1. log[i].t \in Int /\ Window(log[i].t) = w
    BY <1>1 DEF Sums
  <2> QED  BY <2>1, WindowIsInt
<1> QED  BY <1>5, <1>6

LEMMA Times == ASSUME SJTypes PROVE \A i \in 1..Len(topic) : topic[i].t \in Int /\ topic[i] \in Message
<1>1. \A i \in 1..Len(topic) : topic[i] \in Message
  BY DEF SJTypes
<1>2. \A m \in Message : m.t \in Int
  BY DEF Message
<1> QED  BY <1>1, <1>2

\* Behind the watermark closed stays closed.
LEMMA ClosedLater ==
  ASSUME NEW w \in Int, NEW m \in Int, NEW n \in Int, m <= n, Closed(w, m)
  PROVE  Closed(w, n)
BY EndIsInt DEF Closed

LEMMA MXAdvance == ASSUME SJInv, MXInv, Advance PROVE MXInv'
<1> DEFINE mark == job.seen - Late
           shut == {w \in DOMAIN job.wins : Closed(w, mark)}
           full == {v \in shut : job.wins[v].n > 0}
           made == {[w |-> w, acc |-> job.wins[w]] : w \in full}
<1>1. UNCHANGED <<kind, topic, ckpt, committed, stored, past>> /\ job.at = "running"
  BY DEF Advance
<1>2. job.mark \in Int /\ job.seen \in Int /\ mark \in Int /\ job.mark <= mark
  BY StreamAssumption DEF MXInv, Advance
<1>3. /\ job'.at = job.at /\ job'.pos = job.pos /\ job'.seen = job.seen /\ job'.mark = mark
      /\ job'.wins = [w \in (DOMAIN job.wins) \ shut |-> job.wins[w]]
      /\ job'.hold.minute = job.hold.minute \cup made
  <2>1. DOMAIN job = JobFields /\ DOMAIN job.hold = Sinks
    BY Positions DEF SJTypes
  <2>2. PICK m, u, v : m = mark /\ u = [w \in (DOMAIN job.wins) \ shut |-> job.wins[w]]
                       /\ v = job.hold.minute \cup made
    OBVIOUS
  <2>3. job' = [job EXCEPT !.mark = m, !.wins = u, !.hold.minute = v]
    BY <2>2 DEF Advance
  <2> QED  BY <2>1, <2>2, <2>3 DEF JobFields, Sinks
<1>4. MinuteRows' = MinuteRows \cup made /\ Filed' = Filed
  BY <1>1, <1>3 DEF MinuteRows, Filed
<1>5. /\ \A w \in DOMAIN job.wins : Sums(topic, w, job.wins[w]) /\ job.wins[w].ids \subseteq 1..job.pos
      /\ \A r \in MinuteRows : Sums(topic, r.w, r.acc) /\ r.acc.n > 0
  BY DEF MXInv, Windows
<1>6. Books'
  BY <1>1 DEF MXInv, Books, Parse
<1>7. \A w \in DOMAIN job'.wins : w \in DOMAIN job.wins /\ w \notin shut /\ job'.wins[w] = job.wins[w]
  BY <1>3
<1> HIDE DEF mark
<1>8. Windows(job.wins, job.pos)' /\ Windows(ckpt.wins, ckpt.pos)'
  BY <1>1, <1>3, <1>5, <1>7 DEF MXInv, Windows
<1>9. ASSUME NEW r \in made
      PROVE  r.w \in shut /\ r.acc = job.wins[r.w] /\ r = [w |-> r.w, acc |-> r.acc] /\ r.acc.n > 0
  OBVIOUS
<1>10. (\A r \in MinuteRows : Sums(topic, r.w, r.acc) /\ r.acc.n > 0)'
  <2>1. ASSUME NEW r \in MinuteRows' PROVE Sums(topic, r.w, r.acc) /\ r.acc.n > 0
    <3>1. CASE r \in MinuteRows
      BY <1>5, <3>1
    <3>2. CASE r \in made
      <4>1. r.w \in DOMAIN job.wins
        BY <1>9, <3>2
      <4> QED  BY <1>5, <1>9, <3>2, <4>1
    <3> HIDE DEF made
    <3> QED  BY <1>4, <3>1, <3>2
  <2> QED  BY <1>1, <2>1
<1>11. \A w, a : Sums(topic, w, a) => /\ a.n > 0 <=> \E i \in a.ids : topic[i].mid # 0
                                      /\ a.n > 0 => w \in Int
  BY Positions, Times, SumsOfSome
<1>12. Single'
  <2> SUFFICES ASSUME ~past.anew
               PROVE  /\ \A q, r \in MinuteRows' : q.w = r.w => q = r
                      /\ \A r \in MinuteRows' : Closed(r.w, mark)
                      /\ \A w \in DOMAIN job'.wins : ~Closed(w, mark)
    BY <1>1, <1>3 DEF Single, Closed, End
  <2>1. /\ \A q, r \in MinuteRows : q.w = r.w => q = r
        /\ \A r \in MinuteRows : Closed(r.w, job.mark)
        /\ \A w \in DOMAIN job.wins : ~Closed(w, job.mark)
    BY <1>1 DEF MXInv, Single
  <2>2. \A r \in MinuteRows : Closed(r.w, mark)
    <3> TAKE r \in MinuteRows
    <3>1. r.w \in Int
      BY <1>5, <1>11
    <3> QED  BY <1>2, <2>1, <3>1, ClosedLater
  <2>3. \A r \in made : Closed(r.w, mark) /\ ~Closed(r.w, job.mark)
    BY <1>9, <2>1
  <2>4. \A q, r \in made : q.w = r.w => q = r
    BY <1>9
  <2>5. \A q \in MinuteRows, r \in made : q.w # r.w
    BY <2>1, <2>3
  <2>6. \A w \in DOMAIN job'.wins : ~Closed(w, mark)
    BY <1>7
  <2> HIDE DEF made, shut
  <2> QED  BY <1>4, <2>1, <2>2, <2>3, <2>4, <2>5, <2>6
<1>13. Complete'
  <2>1. past.taken \subseteq 1..Len(topic)
    BY DEF MXInv, Complete
  <2>2. ASSUME NEW i \in past.taken, ~past.lost, topic[i].mid # 0
        PROVE  Held(i, job'.wins, MinuteRows')
    <3>1. Held(i, job.wins, MinuteRows)
      BY <1>1, <2>2 DEF MXInv, Complete
    <3>2. CASE \E r \in MinuteRows : i \in r.acc.ids
      BY <1>4, <3>2 DEF Held
    <3>3. CASE \E w \in DOMAIN job.wins : i \in job.wins[w].ids
      <4>1. PICK w \in DOMAIN job.wins : i \in job.wins[w].ids
        BY <3>3
      <4>2. CASE w \notin shut
        <5>1. w \in DOMAIN job'.wins /\ job'.wins[w] = job.wins[w]
          BY <1>3, <4>2
        <5> QED  BY <4>1, <5>1 DEF Held
      <4>3. CASE w \in shut
        <5>1. job.wins[w].n > 0
          BY <1>5, <1>11, <2>2, <4>1
        <5>2. PICK r : r = [w |-> w, acc |-> job.wins[w]]
          OBVIOUS
        <5>3. r \in made /\ r.acc = job.wins[w]
          BY <4>3, <5>1, <5>2
        <5> HIDE DEF made
        <5>4. r \in MinuteRows' /\ i \in r.acc.ids
          BY <1>4, <4>1, <5>3
        <5> QED  BY <5>4 DEF Held
      <4> QED  BY <4>2, <4>3
    <3> QED  BY <3>1, <3>2, <3>3 DEF Held
  <2>3. ~past.lost /\ ckpt.pos # NoOffset =>
          \A i \in past.taken : topic[i].mid # 0 /\ i <= ckpt.pos => Held(i, ckpt.wins, Filed)
    BY DEF MXInv, Complete
  <2> QED  BY <1>1, <1>4, <2>1, <2>2, <2>3 DEF Complete
<1>14. job'.mark \in Int /\ job'.seen \in Int /\ (job'.at = "running" => ckpt'.pos <= job'.pos)
  BY <1>1, <1>2, <1>3 DEF MXInv
<1> QED  BY <1>6, <1>8, <1>10, <1>12, <1>13, <1>14 DEF MXInv

LEMMA MXConsume == ASSUME SJInv, MXInv, Consume PROVE MXInv'
<1>1. PICK i \in Int : i = job.pos + 1
  BY Positions
<1>2. PICK m : m = topic[i]
  OBVIOUS
<1>3. PICK w : w = Window(m.t)
  OBVIOUS
<1>4. PICK took \in BOOLEAN : took = (kind = "orderbook" /\ Parse(m) = "row" /\ ~Closed(w, job.mark))
  OBVIOUS
<1>5. PICK a : a = Add(Opened(job.wins, w), m, i)
  OBVIOUS
<1>6. /\ UNCHANGED <<kind, topic, ckpt, committed, stored>> /\ i \in 1..Len(topic) /\ job.at = "running"
      /\ past' = IF took THEN [past EXCEPT !.taken = @ \cup {i}] ELSE past
  <2>1. UNCHANGED <<kind, topic, ckpt, committed, stored>> /\ i \in 1..Len(topic) /\ job.at = "running"
    BY <1>1, Positions DEF Consume
  <2>2. took = (kind = "orderbook" /\ Parse(topic[i]) = "row" /\ ~Closed(Window(topic[i].t), job.mark))
    BY <1>2, <1>3, <1>4
  <2>3. past' = IF kind = "orderbook" /\ Parse(topic[i]) = "row" /\ ~Closed(Window(topic[i].t), job.mark)
                THEN [past EXCEPT !.taken = @ \cup {i}] ELSE past
    BY <1>1 DEF Consume
  <2>4. past' = IF took THEN [past EXCEPT !.taken = @ \cup {i}] ELSE past
    BY <2>2, <2>3
  <2> QED  BY <2>1, <2>4
<1>7. /\ job'.at = job.at /\ job'.pos = i /\ job'.mark = job.mark
      /\ job'.seen = (IF Parse(m) = "row" /\ m.t > job.seen THEN m.t ELSE job.seen)
      /\ job'.wins = (IF took THEN Put(job.wins, w, a) ELSE job.wins)
      /\ job'.hold.minute = job.hold.minute
  <2>1. DOMAIN job = JobFields /\ DOMAIN job.hold = Sinks
    BY Positions DEF SJTypes
  <2>2. PICK u, v : /\ u = (IF Parse(m) = "row" /\ m.t > job.seen THEN m.t ELSE job.seen)
                    /\ v = (IF took THEN Put(job.wins, w, a) ELSE job.wins)
    OBVIOUS
  <2>3. PICK g, h : job' = [job EXCEPT !.pos = i, !.hold.row = g, !.hold.dead = h, !.seen = u, !.wins = v]
    BY <1>1, <1>2, <1>3, <1>4, <1>5, <2>2 DEF Consume
  <2> QED  BY <2>1, <2>2, <2>3 DEF JobFields, Sinks
<1>8. MinuteRows' = MinuteRows /\ Filed' = Filed
  BY <1>6, <1>7 DEF MinuteRows, Filed
<1>9. /\ \A v \in DOMAIN job.wins : Sums(topic, v, job.wins[v]) /\ job.wins[v].ids \subseteq 1..job.pos
      /\ job.pos \in Nat /\ Len(topic) \in Nat /\ job.mark \in Int /\ job.seen \in Int
  BY Positions DEF MXInv, Windows
<1>10. m.t \in Int
  BY <1>2, <1>6, Positions, Times
<1>11. took => /\ Sums(topic, w, a) /\ a.ids = Opened(job.wins, w).ids \cup {i}
               /\ Opened(job.wins, w).ids \subseteq 1..job.pos
  <2> SUFFICES ASSUME took
               PROVE  /\ Sums(topic, w, a) /\ a.ids = Opened(job.wins, w).ids \cup {i}
                      /\ Opened(job.wins, w).ids \subseteq 1..job.pos
    OBVIOUS
  <2>1. PICK o : o = Opened(job.wins, w)
    OBVIOUS
  <2>2. Sums(topic, w, Acc) /\ Acc.ids = {}
    BY <1>9, SumsAcc DEF Acc
  <2>3. Sums(topic, w, o) /\ o.ids \subseteq 1..job.pos
    <3>1. CASE w \in DOMAIN job.wins
      BY <1>9, <2>1, <3>1 DEF Opened
    <3>2. CASE w \notin DOMAIN job.wins
      <4>1. o = Acc
        BY <2>1, <3>2 DEF Opened
      <4> QED  BY <2>2, <4>1
    <3> QED  BY <3>1, <3>2
  <2>4. topic[i].t \in 1..(Minute + 1) /\ topic[i].mid \in 0..2 /\ Window(topic[i].t) = w
    BY <1>2, <1>3, <1>4, <1>6 DEF MXInv, Books
  <2>5. \A k \in o.ids : k < i
    BY <1>1, <1>9, <2>3
  <2>6. Sums(topic, w, Add(o, topic[i], i)) /\ Add(o, topic[i], i).ids = o.ids \cup {i}
    BY <1>6, <1>9, <2>3, <2>4, <2>5, AddSums
  <2> QED  BY <1>2, <1>5, <2>1, <2>3, <2>6
<1>12. took => /\ DOMAIN job'.wins = DOMAIN job.wins \cup {w} /\ job'.wins[w] = a
               /\ \A v \in DOMAIN job.wins : v # w => job'.wins[v] = job.wins[v]
  BY <1>7 DEF Put
<1>13. 1..job.pos \subseteq 1..i /\ i \in 1..i
  BY <1>1, <1>9
<1>14. ASSUME NEW v \in DOMAIN job'.wins
       PROVE  Sums(topic, v, job'.wins[v]) /\ job'.wins[v].ids \subseteq 1..i
  <2>1. CASE took /\ v = w
    <3>1. job'.wins[v] = a
      BY <1>12, <2>1
    <3>2. Sums(topic, v, a) /\ a.ids \subseteq 1..i
      BY <1>11, <1>13, <2>1
    <3> QED  BY <3>1, <3>2
  <2>2. CASE ~(took /\ v = w)
    <3>1. v \in DOMAIN job.wins /\ job'.wins[v] = job.wins[v]
      BY <1>7, <1>12, <2>2
    <3> QED  BY <1>9, <1>13, <3>1
  <2> QED  BY <2>1, <2>2
<1>15. Windows(job.wins, job.pos)'
  BY <1>6, <1>7, <1>14 DEF Windows
<1>16. Windows(ckpt.wins, ckpt.pos)' /\ Books'
  BY <1>6 DEF MXInv, Windows, Books, Parse
<1>17. (\A r \in MinuteRows : Sums(topic, r.w, r.acc) /\ r.acc.n > 0)'
  BY <1>6, <1>8 DEF MXInv
<1>18. /\ past'.anew = past.anew /\ past'.lost = past.lost
       /\ past'.taken = IF took THEN past.taken \cup {i} ELSE past.taken
  BY <1>6, Positions DEF SJTypes
<1>19. Single'
  <2>1. \A v \in DOMAIN job'.wins : v \in DOMAIN job.wins \/ (took /\ v = w)
    BY <1>7, <1>12
  <2>2. took => ~Closed(w, job.mark)
    BY <1>4
  <2> QED  BY <1>6, <1>7, <1>8, <1>18, <2>1, <2>2 DEF MXInv, Single
<1>20. Complete'
  <2>1. past.taken \subseteq 1..Len(topic) /\ past'.taken \subseteq 1..Len(topic)
    BY <1>6, <1>18 DEF MXInv, Complete
  <2>2. ASSUME NEW k \in past'.taken, ~past.lost, topic[k].mid # 0
        PROVE  Held(k, job'.wins, MinuteRows)
    <3>1. CASE took /\ k = i
      BY <1>11, <1>12, <3>1 DEF Held
    <3>2. CASE ~(took /\ k = i)
      <4>1. k \in past.taken
        BY <1>18, <2>2, <3>2
      <4>2. Held(k, job.wins, MinuteRows)
        BY <1>6, <2>2, <4>1 DEF MXInv, Complete
      <4>3. \A v \in DOMAIN job.wins : v \in DOMAIN job'.wins /\ job.wins[v].ids \subseteq job'.wins[v].ids
        <5>1. CASE took
          <6>1. w \in DOMAIN job.wins => Opened(job.wins, w) = job.wins[w]
            BY DEF Opened
          <6> QED  BY <1>11, <1>12, <5>1, <6>1
        <5>2. CASE ~took
          BY <1>7, <5>2
        <5> QED  BY <5>1, <5>2
      <4> QED  BY <4>2, <4>3 DEF Held
    <3> QED  BY <3>1, <3>2
  <2>3. ASSUME NEW k \in past'.taken, ~past.lost, ckpt.pos # NoOffset, topic[k].mid # 0, k <= ckpt.pos
        PROVE  Held(k, ckpt.wins, Filed)
    <3>1. ckpt.pos <= job.pos /\ ckpt.pos \in Int
      BY <1>6, Positions DEF MXInv
    <3>2. k # i
      BY <1>1, <1>9, <2>3, <3>1
    <3>3. k \in past.taken
      BY <1>18, <3>2
    <3> QED  BY <2>3, <3>3 DEF MXInv, Complete
  <2> QED  BY <1>6, <1>7, <1>8, <1>18, <2>1, <2>2, <2>3 DEF Complete
<1>21. job'.mark \in Int /\ job'.seen \in Int /\ (job'.at = "running" => ckpt'.pos <= job'.pos)
  <2>1. ckpt.pos <= job.pos /\ ckpt.pos \in Int
    BY <1>6, Positions DEF MXInv
  <2> QED  BY <1>1, <1>6, <1>7, <1>9, <1>10, <2>1
<1> QED  BY <1>15, <1>16, <1>17, <1>19, <1>20, <1>21 DEF MXInv

\* Steps that touch neither the job nor a minute.
LEMMA MXStays ==
  ASSUME MXInv, UNCHANGED <<kind, topic, job, ckpt, past>>, stored'.minute = stored.minute
  PROVE  MXInv'
<1>1. MinuteRows' = MinuteRows /\ Filed' = Filed
  BY DEF MinuteRows, Filed
<1> QED  BY <1>1, StayKeeps

\* The script and its job write no minutes.
LEMMA ScriptWritesNoMinute == ASSUME SJTypes, RPNext PROVE stored'.minute = stored.minute
<1>0. DOMAIN stored = {"row", "dead", "minute", "young", "marked"}
  BY DEF SJTypes
<1>1. CASE Begin
  BY <1>0, <1>1 DEF Begin
<1>2. ASSUME NEW n, Reread(n) PROVE stored'.minute = stored.minute
  <2>1. PICK keys, bad : stored' = [Inserted(keys) EXCEPT !.dead = @ \cup bad]
    BY <1>2 DEF Reread
  <2>2. PICK y : Inserted(keys) = [stored EXCEPT !.row = @ \cup keys, !.young = y]
    BY DEF Inserted
  <2> QED  BY <1>0, <2>1, <2>2
<1>3. CASE Finish
  BY <1>2, <1>3 DEF Finish
<1>4. CASE Judge
  BY <1>4 DEF Judge, sjVars
<1>5. ASSUME NEW ends \in BOOLEAN, Trouble(ends) PROVE stored'.minute = stored.minute
  BY <1>2, <1>5 DEF Trouble
<1> QED  BY <1>1, <1>3, <1>4, <1>5 DEF RPNext, RPStep

LEMMA MXReprocess == ASSUME SJInv, MXInv, RPNext PROVE MXInv'
<1>1. UNCHANGED <<kind, topic, job, ckpt, past>>
  BY DEF RPNext, RPStep, Begin, Finish, Judge, Trouble, sjVars
<1> QED  BY <1>1, Positions, ScriptWritesNoMinute, MXStays

LEMMA MXKeeps == SJInv /\ MXInv /\ [Next]_vars => MXInv'
<1> SUFFICES ASSUME SJInv, MXInv, [Next]_vars PROVE MXInv'
  OBVIOUS
<1>1. CASE SJNext
  <2>1. CASE \E s \in Sinks : Flush(s)
    BY <2>1, MXFlush
  <2>2. CASE \E s \in Sinks, effective \in BOOLEAN : FlushFails(s, effective)
    BY <2>2, MXFlushFails
  <2>3. CASE Consume \/ Advance \/ Arrive \/ Crash
    BY <2>3, MXConsume, MXAdvance, MXArrive, MXCrash
  <2>4. CASE Restart \/ Deploy \/ GiveUp \/ Resubmit
    BY <2>4, MXRestart, MXDeploy, MXGiveUp, MXResubmit
  <2>5. CASE Checkpoint(TRUE) \/ Checkpoint(FALSE)
    BY <2>5, MXCheckpoint
  <2>6. CASE \E commits \in BOOLEAN : Withdraw(commits)
    BY <2>6, MXWithdraw
  <2> QED  BY <1>1, <2>1, <2>2, <2>3, <2>4, <2>5, <2>6, NoRowsFields DEF SJNext, SJStep
<1>2. CASE RPNext
  BY <1>2, MXReprocess
<1>3. CASE UNCHANGED sjVars
  <2>1. UNCHANGED <<kind, topic, job, ckpt, past, stored>>
    BY <1>3 DEF sjVars
  <2> QED  BY <2>1, MXStays
<1> QED  BY <1>1, <1>2, <1>3
         DEF Next, JobStep, CollectorStep, MirrorStep, vars

\* Until a restart, a batch adds a copy more only if it was reported as failed.
CopiesOK ==
  /\ past.again \in Nat /\ IsABag(stored.minute)
  /\ ~past.anew => \A r \in MinuteRows : Copies(r) <= 1 + past.again

\* What the table holds of r.
Stock(r) == IF r \in Filed THEN stored.minute[r] ELSE 0

LEMMA StockIsNat == ASSUME IsABag(stored.minute) PROVE \A r : Stock(r) \in Nat
BY DEF IsABag, Stock, Filed, BagToSet

LEMMA CopiesAre == \A r : Copies(r) = Stock(r) + (IF r \in job.hold.minute THEN 1 ELSE 0)
BY DEF Copies, Stock

LEMMA CopiesStart == SJInit => CopiesOK
<1> SUFFICES ASSUME SJInit PROVE CopiesOK
  OBVIOUS
<1>1. stored.minute = EmptyBag /\ past.again = 0 /\ job = Started(0, NoWins, 0)
  BY DEF SJInit
<1>2. job.hold.minute = {}
  BY <1>1 DEF Started, NoRows
<1>3. IsABag(stored.minute) /\ Filed = {}
  BY <1>1 DEF Filed, IsABag, BagToSet, EmptyBag, SetToBag
<1> QED  BY <1>1, <1>2, <1>3 DEF CopiesOK, MinuteRows

\* Steps that leave the table, and hold the same or less.
LEMMA CopiesStay ==
  ASSUME CopiesOK, stored'.minute = stored.minute, past'.again = past.again,
         past'.anew \/ (past'.anew = past.anew /\ job'.hold.minute \subseteq job.hold.minute)
  PROVE  CopiesOK'
<1>1. Filed' = Filed /\ \A r : Stock(r)' = Stock(r)
  BY DEF Filed, Stock
<1>2. past'.again \in Nat /\ IsABag(stored'.minute)
  BY DEF CopiesOK
<1>3. ASSUME ~past'.anew, NEW r \in MinuteRows' PROVE Copies(r)' <= 1 + past'.again
  <2>1. r \in MinuteRows /\ Copies(r) <= 1 + past.again
    BY <1>1, <1>3 DEF MinuteRows, CopiesOK
  <2>2. Copies(r)' = Stock(r) + (IF r \in job'.hold.minute THEN 1 ELSE 0)
    BY <1>1 DEF Copies, Stock
  <2>3. Stock(r) \in Nat /\ past.again \in Nat
    BY StockIsNat DEF CopiesOK
  <2> QED  BY <1>3, <2>1, <2>2, <2>3, CopiesAre
<1> QED  BY <1>2, <1>3 DEF CopiesOK

\* What a sink of minutes leaves in the table.
LEMMA StockWritten ==
  ASSUME SJTypes, IsABag(stored.minute), stored' = Written("minute")
  PROVE  /\ IsABag(stored'.minute)
         /\ \A r : Stock(r)' = Stock(r) + (IF r \in job.hold.minute THEN 1 ELSE 0)
<1>1. PICK B, C : B = stored.minute /\ C = stored'.minute
  OBVIOUS
<1>2. C = B (+) SetToBag(job.hold.minute)
  BY <1>1, WrittenMinute DEF Sinks
<1>3. /\ IsABag(C)
      /\ \A r : (IF r \in BagToSet(C) THEN C[r] ELSE 0)
                 = (IF r \in BagToSet(B) THEN B[r] ELSE 0) + (IF r \in job.hold.minute THEN 1 ELSE 0)
  BY <1>1, <1>2, BagAdds
<1> QED  BY <1>1, <1>3 DEF Stock, Filed

LEMMA CopiesFlush == ASSUME SJInv, CopiesOK, NEW s \in Sinks, Flush(s) PROVE CopiesOK'
<1>1. past' = past /\ stored' = Written(s)
  BY DEF Flush
<1>2. job'.hold.minute = IF s = "minute" THEN {} ELSE job.hold.minute
  <2>1. DOMAIN job = JobFields /\ DOMAIN job.hold = Sinks
    BY Positions DEF SJTypes
  <2>2. job' = [job EXCEPT !.hold[s] = {}, !.tries[s] = 0]
    BY DEF Flush
  <2> QED  BY <2>1, <2>2 DEF JobFields, Sinks
<1>3. CASE s # "minute"
  <2>1. stored'.minute = stored.minute
    BY <1>1, <1>3, Positions, WrittenMinute
  <2> QED  BY <1>1, <1>2, <1>3, <2>1, CopiesStay
<1>4. CASE s = "minute"
  <2>1. /\ IsABag(stored'.minute)
        /\ \A r : Stock(r)' = Stock(r) + (IF r \in job.hold.minute THEN 1 ELSE 0)
    BY <1>1, <1>4, Positions, StockWritten DEF CopiesOK
  <2>2. MinuteRows' = MinuteRows
    BY <1>1, <1>2, <1>4, Positions, WrittenFiles DEF MinuteRows
  <2>3. \A r : Copies(r)' = Stock(r)' + 0
    BY <1>2, <1>4 DEF Copies, Stock
  <2>4. \A r : Stock(r) \in Nat
    BY StockIsNat DEF CopiesOK
  <2>5. \A r : Copies(r)' = Copies(r)
    BY <2>1, <2>3, <2>4, CopiesAre
  <2> QED  BY <1>1, <2>1, <2>2, <2>5 DEF CopiesOK
<1> QED  BY <1>3, <1>4

LEMMA CopiesFlushFails ==
  ASSUME SJInv, CopiesOK, NEW s \in Sinks, NEW effective \in BOOLEAN, FlushFails(s, effective)
  PROVE  CopiesOK'
<1>1. job'.hold = job.hold \/ job'.hold = NoRows
  <2>1. DOMAIN job = JobFields
    BY Positions DEF SJTypes
  <2>2. job' = [job EXCEPT !.tries[s] = @ + 1] \/ job' = Down
    BY DEF FlushFails
  <2> QED  BY <2>1, <2>2, DownFields DEF JobFields
<1>2. job'.hold.minute \subseteq job.hold.minute
  BY <1>1 DEF NoRows
<1>3. CASE ~(effective /\ s = "minute")
  <2>1. past' = past /\ (stored' = stored \/ (s # "minute" /\ stored' = Written(s)))
    BY <1>3 DEF FlushFails
  <2>2. stored'.minute = stored.minute
    BY <2>1, Positions, WrittenMinute
  <2> QED  BY <1>2, <2>1, <2>2, CopiesStay
<1>4. CASE effective /\ s = "minute"
  <2>1. stored' = Written("minute") /\ past' = [past EXCEPT !.again = @ + 1]
    BY <1>4 DEF FlushFails
  <2>2. past'.again = past.again + 1 /\ past'.anew = past.anew
    BY <2>1, Positions DEF SJTypes
  <2>3. /\ IsABag(stored'.minute)
        /\ \A r : Stock(r)' = Stock(r) + (IF r \in job.hold.minute THEN 1 ELSE 0)
    BY <2>1, Positions, StockWritten DEF CopiesOK
  <2>4. MinuteRows' \subseteq MinuteRows
    BY <1>2, <2>1, Positions, WrittenFiles DEF MinuteRows, Sinks
  <2>5. ASSUME ~past'.anew, NEW r \in MinuteRows' PROVE Copies(r)' <= 1 + past'.again
    <3>1. r \in MinuteRows /\ Copies(r) <= 1 + past.again
      BY <2>2, <2>4, <2>5 DEF CopiesOK
    <3>2. Copies(r)' = Stock(r)' + (IF r \in job'.hold.minute THEN 1 ELSE 0)
      BY DEF Copies, Stock
    <3>3. Stock(r) \in Nat /\ past.again \in Nat
      BY StockIsNat DEF CopiesOK
    <3>4. Stock(r)' = Copies(r)
      BY <2>3, CopiesAre
    <3> QED  BY <2>2, <2>3, <3>1, <3>2, <3>3, <3>4
  <2>6. past'.again \in Nat
    BY <2>2 DEF CopiesOK
  <2> QED  BY <2>3, <2>5, <2>6 DEF CopiesOK
<1> QED  BY <1>3, <1>4

\* A minute that is closed now was not written before.
LEMMA MadeIsNew ==
  ASSUME SJInv, MXInv, Advance, ~past.anew, NEW r \in job'.hold.minute, r \notin job.hold.minute
  PROVE  r \notin Filed
<1>1. PICK made : made = {[w |-> w, acc |-> job.wins[w]] : w \in {v \in
                {w \in DOMAIN job.wins : Closed(w, job.seen - Late)} : job.wins[v].n > 0}}
  OBVIOUS
<1>2. job'.hold.minute = job.hold.minute \cup made
  <2>1. DOMAIN job = JobFields /\ DOMAIN job.hold = Sinks
    BY Positions DEF SJTypes
  <2>2. PICK m, u, v : job' = [job EXCEPT !.mark = m, !.wins = u, !.hold.minute = v]
                       /\ v = job.hold.minute \cup made
    BY <1>1 DEF Advance
  <2> QED  BY <2>1, <2>2 DEF JobFields, Sinks
<1>3. PICK w \in DOMAIN job.wins : r = [w |-> w, acc |-> job.wins[w]]
  BY <1>1, <1>2
<1>4. r.w = w
  BY <1>3
<1>5. ~Closed(r.w, job.mark)
  BY <1>3, <1>4 DEF MXInv, Single, Advance
<1>6. \A q \in MinuteRows : Closed(q.w, job.mark)
  BY DEF MXInv, Single, Advance
<1> QED  BY <1>5, <1>6 DEF MinuteRows

LEMMA CopiesAdvance == ASSUME SJInv, MXInv, CopiesOK, Advance PROVE CopiesOK'
<1>1. stored' = stored /\ past' = past
  BY DEF Advance
<1>2. Filed' = Filed /\ \A r : Stock(r)' = Stock(r)
  BY <1>1 DEF Filed, Stock
<1>3. job.hold.minute \subseteq job'.hold.minute
  <2>1. DOMAIN job = JobFields /\ DOMAIN job.hold = Sinks
    BY Positions DEF SJTypes
  <2>2. PICK m, u, v : job' = [job EXCEPT !.mark = m, !.wins = u, !.hold.minute = job.hold.minute \cup v]
    BY DEF Advance
  <2> QED  BY <2>1, <2>2 DEF JobFields, Sinks
<1>4. ASSUME ~past.anew, NEW r \in MinuteRows' PROVE Copies(r)' <= 1 + past.again
  <2>1. Copies(r)' = Stock(r) + (IF r \in job'.hold.minute THEN 1 ELSE 0)
    BY <1>2 DEF Copies, Stock
  <2>2. Stock(r) \in Nat /\ past.again \in Nat
    BY StockIsNat DEF CopiesOK
  <2>3. CASE r \in job'.hold.minute /\ r \notin job.hold.minute
    <3>1. Stock(r) = 0
      BY <1>4, <2>3, MadeIsNew DEF Stock
    <3> QED  BY <2>1, <2>2, <3>1
  <2>4. CASE ~(r \in job'.hold.minute /\ r \notin job.hold.minute)
    <3>1. r \in MinuteRows
      BY <1>2, <2>4 DEF MinuteRows
    <3>2. Copies(r)' = Copies(r)
      BY <1>3, <2>1, <2>4, CopiesAre
    <3> QED  BY <1>4, <3>1, <3>2 DEF CopiesOK
  <2> QED  BY <2>3, <2>4
<1> QED  BY <1>1, <1>4 DEF CopiesOK

LEMMA CopiesKeep == SJInv /\ MXInv /\ CopiesOK /\ [Next]_vars => CopiesOK'
<1> SUFFICES ASSUME SJInv, MXInv, CopiesOK, [Next]_vars PROVE CopiesOK'
  OBVIOUS
<1>0. /\ DOMAIN job = JobFields /\ DOMAIN job.hold = Sinks
      /\ DOMAIN stored = {"row", "dead", "minute", "young", "marked"}
      /\ DOMAIN past = {"skipped", "taken", "lost", "anew", "again"}
  BY Positions DEF SJTypes
<1>1. CASE Arrive \/ GiveUp \/ Judge \/ UNCHANGED sjVars
  <2>1. UNCHANGED <<stored, past>> /\ job'.hold = job.hold
    BY <1>0, <1>1 DEF Arrive, GiveUp, Judge, sjVars, JobFields
  <2> QED  BY <2>1, CopiesStay
<1>2. CASE Consume
  <2>1. past' = past \/ \E u : past' = [past EXCEPT !.taken = u]
    BY <1>2 DEF Consume
  <2>2. past'.again = past.again /\ past'.anew = past.anew /\ stored' = stored
    BY <1>0, <1>2, <2>1 DEF Consume
  <2>3. PICK p, g, h, u, v : job' = [job EXCEPT !.pos = p, !.hold.row = g, !.hold.dead = h,
                                                !.seen = u, !.wins = v]
    BY <1>2 DEF Consume
  <2>4. job'.hold.minute = job.hold.minute
    BY <1>0, <2>3 DEF JobFields, Sinks
  <2> QED  BY <2>2, <2>4, CopiesStay
<1>3. CASE Advance
  BY <1>3, CopiesAdvance
<1>4. CASE \E s \in Sinks : Flush(s)
  BY <1>4, CopiesFlush
<1>5. CASE \E s \in Sinks, effective \in BOOLEAN : FlushFails(s, effective)
  BY <1>5, CopiesFlushFails
<1>6. CASE Crash \/ \E commits \in BOOLEAN : Checkpoint(commits) \/ Withdraw(commits)
  <2>1. UNCHANGED <<stored, past>>
    BY <1>6 DEF Crash, Checkpoint, Withdraw
  <2>2. job'.hold = NoRows \/ job' = job
    BY <1>6, DownFields, WithdrawnFields DEF Crash, Checkpoint, Withdraw
  <2>3. job'.hold.minute \subseteq job.hold.minute
    BY <2>2 DEF NoRows
  <2> QED  BY <2>1, <2>3, CopiesStay
<1>7. CASE Restart \/ Deploy \/ Resubmit
  <2>1. stored' = stored /\ \E p, known, kept : past' = Began(p, known, kept)
    BY <1>7 DEF Restart, Deploy, Resubmit
  <2>2. past'.anew /\ past'.again = past.again
    BY <2>1 DEF Began
  <2> QED  BY <2>1, <2>2, CopiesStay
<1>8. CASE RPNext
  <2>1. past' = past /\ job' = job
    BY <1>8 DEF RPNext, RPStep, Begin, Finish, Judge, Trouble, sjVars
  <2>2. stored'.minute = stored.minute
    BY <1>8, ScriptWritesNoMinute, Positions
  <2> QED  BY <2>1, <2>2, CopiesStay
<1> QED
  <2>1. CASE SJNext
    BY <1>1, <1>2, <1>3, <1>4, <1>5, <1>6, <1>7, <2>1, NoRowsFields DEF SJNext, SJStep
  <2>2. SJNext \/ RPNext \/ UNCHANGED sjVars
    BY DEF Next, JobStep, CollectorStep, MirrorStep, vars
  <2> QED  BY <1>1, <1>8, <2>1, <2>2

\* Every minute row of the order book, stored or on its way, is the open, high,
\* low and close of the snapshots it was made of, whatever order they came in and
\* whatever failed and restarted in between; and until a restart a minute has one
\* such row, in one copy and at most one more for every batch that was written
\* and yet reported as failed (OrderbookJob, OrderbookAggregator, OrderbookSinks).
THEOREM MinutesAreExact == Spec => []MinuteExact
<1>1. Init => SJInv /\ MXInv /\ CopiesOK
  BY StreamStarts, MXStarts, CopiesStart DEF Init
<1>2. SJInv /\ MXInv /\ CopiesOK /\ [Next]_vars => SJInv' /\ MXInv' /\ CopiesOK'
  BY StreamSteps, MXKeeps, CopiesKeep
<1>3. SJInv /\ MXInv /\ CopiesOK => MinuteExact
  <2> SUFFICES ASSUME SJInv, MXInv, CopiesOK PROVE MinuteExact
    OBVIOUS
  <2>1. \A r \in MinuteRows : Sums(topic, r.w, r.acc) /\ r.acc.n > 0
    BY DEF MXInv
  <2>2. \A r \in MinuteRows : r.acc = Reference(r.acc.ids)
    BY <2>1, Positions, SumsAreReference
  <2>3. \A r \in MinuteRows : \A i \in r.acc.ids : Window(topic[i].t) = r.w
    BY <2>1 DEF Sums
  <2>4. \A r, q \in MinuteRows : q.w = r.w /\ ~past.anew => q = r
    BY DEF MXInv, Single
  <2>5. ~past.anew => \A r \in MinuteRows : Copies(r) <= 1 + past.again
    BY DEF CopiesOK
  <2> QED  BY <2>2, <2>3, <2>4, <2>5 DEF MinuteExact
<1> QED  BY <1>1, <1>2, <1>3, PTL DEF Spec

\* No snapshot that came in time is lost: it is in an open minute, in a row on its
\* way or in a stored one, as long as no start threw the state of the windows away
\* (OrderbookJob: the windows are part of the checkpoint).
THEOREM MinutesAreComplete == Spec => []MinuteComplete
<1>1. Init => SJInv /\ MXInv
  BY StreamStarts, MXStarts DEF Init
<1>2. SJInv /\ MXInv /\ [Next]_vars => SJInv' /\ MXInv'
  BY StreamSteps, MXKeeps
<1>3. SJInv /\ MXInv => MinuteComplete
  <2> SUFFICES ASSUME MXInv PROVE MinuteComplete
    OBVIOUS
  <2> QED  BY DEF MXInv, Complete, Held, MinuteComplete
<1> QED  BY <1>1, <1>2, <1>3, PTL DEF Spec

-----------------------------------------------------------------------------
(* The reprocessing: the second job writes what it reads, the stores only grow,
   and what came later than the margin stays out of its reach. *)

\* What the second job has done, and what it has left to do.
Repairing ==
  /\ DOMAIN rp = {"at", "job", "before"}
  /\ rp.job = "none" <=> rp.at = "idle"
  /\ rp.job = "running" => rp.at = "waiting"
  /\ rp.job # "none" => kind = "cdc" /\ stored.marked /\ Stop <= Len(topic)
  /\ rp.job = "finished" =>
       /\ \A j \in First..Stop : topic[j].is = "row" => topic[j].key \in stored.row \cap stored.young
       /\ rp.at = "short" => \E i \in Asked : ~InReach(i)

LEMMA RXStarts == RPInit => Repairing
BY DEF RPInit, Repairing

\* The stores only grow, and the mark stays.
Grows ==
  /\ stored.row \subseteq stored'.row /\ stored.young \subseteq stored'.young
  /\ stored.marked => stored'.marked

LEMMA InsertedGrows ==
  ASSUME SJTypes, NEW keys
  PROVE  /\ Inserted(keys).row = stored.row \cup keys
         /\ stored.young \subseteq Inserted(keys).young
         /\ stored.marked => keys \subseteq Inserted(keys).young
         /\ Inserted(keys).marked = stored.marked
         /\ DOMAIN Inserted(keys) = {"row", "dead", "minute", "young", "marked"}
<1>1. DOMAIN stored = {"row", "dead", "minute", "young", "marked"}
  BY DEF SJTypes
<1>2. PICK y : y = IF stored.marked THEN stored.young \cup keys ELSE stored.young
  OBVIOUS
<1>3. Inserted(keys) = [stored EXCEPT !.row = @ \cup keys, !.young = y]
  BY <1>2 DEF Inserted
<1> QED  BY <1>1, <1>2, <1>3

LEMMA WrittenGrows ==
  ASSUME SJTypes, NEW s \in Sinks, stored' = Written(s)
  PROVE  Grows
<1>1. DOMAIN stored = {"row", "dead", "minute", "young", "marked"}
  BY DEF SJTypes
<1>2. CASE s = "row"
  <2>1. PICK keys : stored' = Inserted(keys)
    BY <1>2 DEF Written
  <2> QED  BY <2>1, InsertedGrows DEF Grows
<1>3. CASE s = "dead"
  BY <1>1, <1>3 DEF Written, Grows
<1>4. CASE s = "minute"
  <2>1. PICK b : stored' = [stored EXCEPT !.minute = b]
    BY <1>4 DEF Written
  <2> QED  BY <1>1, <2>1 DEF Grows
<1> QED  BY <1>2, <1>3, <1>4 DEF Sinks

LEMMA RereadGrows ==
  ASSUME SJTypes, NEW n, Reread(n)
  PROVE  /\ Grows
         /\ \A i \in First..n : Parse(topic[i]) = "row" =>
              /\ Key(topic[i]) \in stored'.row
              /\ stored.marked => Key(topic[i]) \in stored'.young
<1>1. PICK keys : keys = {Key(topic[i]) : i \in {k \in First..n : Parse(topic[k]) = "row"}}
  OBVIOUS
<1>2. PICK bad : stored' = [Inserted(keys) EXCEPT !.dead = @ \cup bad]
  BY <1>1 DEF Reread
<1>3. stored'.row = stored.row \cup keys /\ stored'.young = Inserted(keys).young /\ stored'.marked = stored.marked
  BY <1>2, InsertedGrows
<1>4. stored.young \subseteq stored'.young /\ (stored.marked => keys \subseteq stored'.young)
  BY <1>3, InsertedGrows
<1>5. \A i \in First..n : Parse(topic[i]) = "row" => Key(topic[i]) \in keys
  BY <1>1
<1> QED  BY <1>3, <1>4, <1>5 DEF Grows

\* A step of the live job, but for what arrives.
LEMMA RXLive ==
  ASSUME Repairing, UNCHANGED <<kind, topic, rp>>, Grows
  PROVE  Repairing'
<1>1. Asked' = Asked /\ Stop' = Stop /\ First' = First /\ \A i : InReach(i)' = InReach(i)
  BY DEF Asked, Stop, First, InReach
<1> QED  BY <1>1 DEF Repairing, Grows

\* What the second job reads is in the topic when it starts.
LEMMA InTopic ==
  ASSUME SJTypes, Stop <= Len(topic)
  PROVE  First..Stop \subseteq 1..Len(topic) /\ Stop \in Nat /\ First \in Nat
<1>1. Len(topic) \in Nat
  BY DEF SJTypes
<1>2. Stop \in Nat /\ First \in Nat /\ First >= 1
  BY ReprocessAssumption DEF Stop, First
<1> QED  BY <1>1, <1>2

\* What came with the window or within the margin is what the second job reads.
LEMMA Reached ==
  ASSUME SJTypes, NEW i, InReach(i)
  PROVE  \E j \in First..Stop : topic[j].is = "row" /\ topic[j].key = topic[i].key
<1>1. PICK j \in 1..Len(topic) : /\ From - Margin <= j /\ j <= To + Margin
                               /\ topic[j].is = "row" /\ topic[j].key = topic[i].key
  BY DEF InReach
<1>2. j \in Nat /\ j >= 1
  BY <1>1 DEF SJTypes
<1>3. j \in First..Stop
  BY <1>1, <1>2, ReprocessAssumption DEF First, Stop
<1> QED  BY <1>1, <1>3

LEMMA RXArrive ==
  ASSUME SJInv, Repairing, Arrive, UNCHANGED rp PROVE Repairing'
<1>1. UNCHANGED <<kind, job, ckpt, committed, stored, past>>
  BY DEF Arrive
<1>2. /\ topic' \in Seq(Message) /\ Len(topic) \in Nat /\ Len(topic') = Len(topic) + 1
      /\ \A i \in 1..Len(topic) : topic'[i] = topic[i]
  BY Positions, TopicGrows
<1>3. Stop' = Stop /\ First' = First
  BY DEF Stop, First
<1>4. ASSUME rp.job # "none"
      PROVE  kind = "cdc" /\ stored.marked /\ Stop <= Len(topic) /\ Stop <= Len(topic')
  <2>1. Stop \in Nat
    BY ReprocessAssumption DEF Stop
  <2> QED  BY <1>2, <1>4, <2>1 DEF Repairing
<1>5. ASSUME rp.job = "finished", NEW j \in First..Stop, topic'[j].is = "row"
      PROVE  topic'[j].key \in stored.row \cap stored.young
  <2>1. j \in 1..Len(topic)
    BY <1>4, <1>5, Positions, InTopic
  <2>2. topic'[j] = topic[j]
    BY <1>2, <2>1
  <2> QED  BY <1>5, <2>2 DEF Repairing
<1>6. ASSUME rp.job = "finished", rp.at = "short" PROVE \E i \in Asked' : ~InReach(i)'
  <2>1. PICK i \in Asked : ~InReach(i)
    BY <1>6 DEF Repairing
  <2>2. i \in 1..Len(topic) /\ topic'[i] = topic[i]
    BY <1>2, <2>1 DEF Asked
  <2>3. i \in Asked'
    BY <1>2, <2>1, <2>2 DEF Asked
  <2>4. ASSUME InReach(i)' PROVE FALSE
    <3>1. PICK j \in 1..Len(topic') : /\ From - Margin <= j /\ j <= To + Margin
                                    /\ topic'[j].is = "row" /\ topic'[j].key = topic'[i].key
      BY <2>4 DEF InReach
    <3>2. j \in 1..Len(topic)
      BY <1>2, <1>4, <1>6, <3>1, ReprocessAssumption DEF Stop
    <3>3. topic'[j] = topic[j]
      BY <1>2, <3>2
    <3> QED  BY <2>1, <2>2, <3>1, <3>2, <3>3 DEF InReach
  <2> QED  BY <2>3, <2>4
<1> QED  BY <1>1, <1>3, <1>4, <1>5, <1>6 DEF Repairing

LEMMA RXReprocess ==
  ASSUME SJInv, Repairing, RPNext PROVE Repairing'
<1>0. DOMAIN stored = {"row", "dead", "minute", "young", "marked"} /\ DOMAIN rp = {"at", "job", "before"}
      /\ SJTypes
  BY Positions DEF SJTypes, Repairing
<1>1. UNCHANGED <<kind, topic>>
  BY DEF RPNext, RPStep, Begin, Finish, Judge, Trouble, sjVars
<1>2. Asked' = Asked /\ Stop' = Stop /\ First' = First /\ \A i : InReach(i)' = InReach(i)
  BY <1>1 DEF Asked, Stop, First, InReach
<1>3. CASE Begin
  <2>1. /\ rp' = [at |-> "waiting", job |-> "running", before |-> Content]
        /\ stored' = [stored EXCEPT !.marked = TRUE] /\ kind = "cdc" /\ job.pos >= Stop
    BY <1>3 DEF Begin
  <2>2. rp'.at = "waiting" /\ rp'.job = "running" /\ DOMAIN rp' = {"at", "job", "before"} /\ stored'.marked
    BY <1>0, <2>1
  <2>3. Stop <= Len(topic)
    BY <2>1, Positions, ReprocessAssumption DEF Stop
  <2> QED  BY <1>1, <1>2, <2>1, <2>2, <2>3 DEF Repairing
<1>4. CASE Finish
  <2>1. Reread(Stop) /\ rp' = [rp EXCEPT !.job = "finished"] /\ rp.job = "running"
    BY <1>4 DEF Finish
  <2>2. rp'.at = rp.at /\ rp'.job = "finished" /\ DOMAIN rp' = DOMAIN rp
    BY <1>0, <2>1
  <2>3. kind = "cdc" /\ stored.marked /\ Stop <= Len(topic) /\ rp.at = "waiting"
    BY <2>1 DEF Repairing
  <2>4. Grows /\ \A i \in First..Stop : Parse(topic[i]) = "row" => Key(topic[i]) \in stored'.row /\ Key(topic[i]) \in stored'.young
    BY <1>0, <2>1, <2>3, RereadGrows
  <2>5. ASSUME NEW j \in First..Stop, topic[j].is = "row"
        PROVE  topic[j].key \in stored'.row \cap stored'.young
    <3>1. Parse(topic[j]) = "row" /\ Key(topic[j]) = topic[j].key
      BY <2>5 DEF Parse, Key
    <3> QED  BY <2>4, <3>1
  <2> QED  BY <1>0, <1>1, <1>2, <2>2, <2>3, <2>4, <2>5 DEF Repairing, Grows
<1>5. CASE Judge
  <2>1. rp' = [rp EXCEPT !.at = Verdict] /\ rp.job \in {"finished", "failed"} /\ stored' = stored
    BY <1>5 DEF Judge, sjVars
  <2>2. rp'.at = Verdict /\ rp'.job = rp.job /\ DOMAIN rp' = DOMAIN rp
    BY <1>0, <2>1
  <2>3. Verdict # "idle"
    BY DEF Verdict
  <2>4. ASSUME rp.job = "finished", Verdict = "short" PROVE \E i \in Asked : ~InReach(i)
    <3>1. NotCovered # {}
      BY <2>4 DEF Verdict
    <3>2. PICK i \in Asked : topic[i].key \notin stored.young
      BY <3>1 DEF NotCovered, Content
    <3>3. ASSUME InReach(i) PROVE FALSE
      <4>1. PICK j \in First..Stop : topic[j].is = "row" /\ topic[j].key = topic[i].key
        BY <1>0, <3>3, Reached
      <4> QED  BY <2>4, <3>2, <4>1 DEF Repairing
    <3> QED  BY <3>3
  <2> QED  BY <1>0, <1>1, <1>2, <2>1, <2>2, <2>3, <2>4 DEF Repairing
<1>6. ASSUME NEW ends \in BOOLEAN, Trouble(ends) PROVE Repairing'
  <2>1. /\ rp.job = "running" /\ \E n \in (First - 1)..Stop : Reread(n)
        /\ rp' = rp \/ rp' = [rp EXCEPT !.job = "failed"]
    BY <1>6 DEF Trouble
  <2>2. rp'.at = rp.at /\ rp'.job \in {"running", "failed"} /\ DOMAIN rp' = DOMAIN rp
    BY <1>0, <2>1
  <2>3. Grows
    BY <1>0, <2>1, RereadGrows
  <2>4. rp.at = "waiting" /\ kind = "cdc" /\ stored.marked /\ Stop <= Len(topic)
    BY <2>1 DEF Repairing
  <2> QED  BY <1>0, <1>1, <1>2, <2>2, <2>3, <2>4 DEF Repairing, Grows
<1> QED  BY <1>3, <1>4, <1>5, <1>6 DEF RPNext, RPStep

LEMMA RXKeeps == SJInv /\ Repairing /\ [Next]_vars => Repairing'
<1> SUFFICES ASSUME SJInv, Repairing, [Next]_vars PROVE Repairing'
  OBVIOUS
<1>0. stored' = stored => Grows
  BY DEF Grows
<1>1. CASE SJNext /\ UNCHANGED rpVars
  <2>0. rp' = rp
    BY <1>1 DEF rpVars
  <2>1. ASSUME NEW s \in Sinks, Flush(s) PROVE Repairing'
    <3>1. UNCHANGED <<kind, topic>> /\ stored' = Written(s)
      BY <2>1 DEF Flush
    <3> QED  BY <2>0, <3>1, Positions, WrittenGrows, RXLive
  <2>2. ASSUME NEW s \in Sinks, NEW effective \in BOOLEAN, FlushFails(s, effective) PROVE Repairing'
    <3>1. UNCHANGED <<kind, topic>> /\ (stored' = Written(s) \/ stored' = stored)
      BY <2>2 DEF FlushFails
    <3> QED  BY <1>0, <2>0, <3>1, Positions, WrittenGrows, RXLive
  <2>3. CASE Arrive
    BY <2>0, <2>3, RXArrive
  <2>4. CASE \/ Consume \/ Advance \/ Crash \/ Restart \/ Deploy \/ GiveUp \/ Resubmit
             \/ Checkpoint(TRUE) \/ Checkpoint(FALSE)
             \/ \E commits \in BOOLEAN : Withdraw(commits)
    <3>1. UNCHANGED <<kind, topic, stored>>
      BY <2>4 DEF Consume, Advance, Crash, Restart, Deploy, GiveUp, Resubmit, Checkpoint, Withdraw
    <3> QED  BY <1>0, <2>0, <3>1, RXLive
  <2> QED  BY <1>1, <2>1, <2>2, <2>3, <2>4, NoRowsFields DEF SJNext, SJStep
<1>2. CASE RPNext
  BY <1>2, RXReprocess
<1>3. CASE UNCHANGED <<sjVars, rpVars>>
  <2>1. UNCHANGED <<kind, topic, stored, rp>>
    BY <1>3 DEF sjVars, rpVars
  <2> QED  BY <1>0, <2>1, RXLive
<1> QED  BY <1>1, <1>2, <1>3
         DEF Next, JobStep, CollectorStep, MirrorStep, vars

\* A reprocessing whose job ran to its end has repaired its window, whatever the
\* live job skips and writes meanwhile and however often the second job started
\* over: every trade of the window that came within the margin is in the table, in
\* a row younger than the mark, and the script asks for a wider margin only if a
\* trade of the window came later than that (reprocess-day.sh).
THEOREM ReprocessingRepairs == Spec => []ReprocessRepairs
<1>1. Init => SJInv /\ Repairing
  BY StreamStarts, RXStarts DEF Init
<1>2. SJInv /\ Repairing /\ [Next]_vars => SJInv' /\ Repairing'
  BY StreamSteps, RXKeeps
<1>3. SJInv /\ Repairing => ReprocessRepairs
  <2> SUFFICES ASSUME SJInv, Repairing, rp.job = "finished"
               PROVE  /\ \A i \in Asked : InReach(i) => topic[i].key \in stored.row \cap stored.young
                      /\ rp.at = "short" => \E i \in Asked : ~InReach(i)
    BY DEF ReprocessRepairs
  <2>1. ASSUME NEW i \in Asked, InReach(i) PROVE topic[i].key \in stored.row \cap stored.young
    <3>1. PICK j \in First..Stop : topic[j].is = "row" /\ topic[j].key = topic[i].key
      BY <2>1, Positions, Reached
    <3> QED  BY <3>1 DEF Repairing
  <2> QED  BY <2>1 DEF Repairing
<1> QED  BY <1>1, <1>2, <1>3, PTL DEF Spec

-----------------------------------------------------------------------------
(* The types of all parts *)

Bounds == kind \in Jobs /\ Len(topic) <= MaxMessages /\ spent \in 0..MaxFaults

\* A job that is down has a restart left.
JobOK ==
  /\ job.at \in {"running", "down", "stopped", "gone", "failed"} /\ job.restarts \in 0..MaxRestarts
  /\ job.at = "down" => job.restarts < MaxRestarts
  /\ DOMAIN job.tries = Sinks /\ \A s \in Sinks : job.tries[s] \in 0..MaxRetries
  /\ IsFiniteSet(job.hold.row) /\ Cardinality(job.hold.row) <= BatchSize
  /\ job.hold.row \subseteq 1..job.pos /\ job.hold.dead \subseteq 1..job.pos

\* A trade sent again has the key of its first sending.
StoresOK ==
  /\ \A i \in 1..Len(topic) : topic[i].key <= Len(topic)
  /\ stored.row \subseteq 0..Len(topic) /\ stored.dead \subseteq 1..Len(topic)

\* A watermark that begins anew at 0 has passed no minute.
WindowsOpen ==
  /\ \A w \in DOMAIN job.wins : w \in Nat /\ ~Closed(w, job.mark)
  /\ \A w \in DOMAIN ckpt.wins : w \in Nat

\* What the second job reads is in the topic.
ScriptOK ==
  /\ DOMAIN rp = {"at", "job", "before"}
  /\ rp.at \in {"idle", "waiting", "passed", "short", "differs"}
  /\ rp.job \in {"none", "running", "finished", "failed"}
  /\ rp.job # "none" => Stop <= Len(topic)

\* A subscription is one to known markets, on a connection that stands.
SubOK ==
  /\ sub \subseteq coll.markets /\ (coll.at # "connected" => sub = {})
  /\ queue \in 0..QueueCap /\ coll.backoff \in 0..MaxBackoff

TInv == Bounds /\ JobOK /\ StoresOK /\ WindowsOpen /\ ScriptOK /\ SubOK

LEMMA TypesSuffice == SJInv /\ LMInv /\ OCInv /\ TInv => TypeOK
<1> SUFFICES ASSUME SJInv, LMInv, OCInv, TInv PROVE TypeOK
  OBVIOUS
<1>1. SJTypeOK
  <2>1. /\ job.pos \in 0..Len(topic) /\ ckpt.pos \in NoOffset..Len(topic)
        /\ committed \in NoOffset..Len(topic)
    BY DEF SJInv, SJTypes
  <2>2. Bounds
    BY DEF TInv
  <2>3. /\ job.at \in {"running", "down", "stopped", "gone", "failed"} /\ job.restarts \in 0..MaxRestarts
        /\ \A s \in DOMAIN NoRows : job.tries[s] \in 0..MaxRetries
        /\ Cardinality(job.hold.row) <= BatchSize
        /\ job.hold.row \cup job.hold.dead \subseteq 1..job.pos
    BY NoRowsFields DEF TInv, JobOK
  <2>4. stored.row \subseteq 0..Len(topic) /\ stored.dead \subseteq 1..Len(topic)
    BY DEF TInv, StoresOK
  <2>5. \A w \in DOMAIN job.wins : ~Closed(w, job.mark)
    BY DEF TInv, WindowsOpen
  <2> QED  BY <2>1, <2>2, <2>3, <2>4, <2>5 DEF SJTypeOK, Bounds
<1>2. read.pos \in 0..read.far /\ read.far <= Len(events)
  BY DEF LMInv, LMTypeOK
<1>3. coll.at \in {"starting", "connecting", "connected", "backoff"}
  BY DEF OCInv, OCTypeOK, Process
<1> QED  BY <1>1, <1>2, <1>3 DEF TInv, ScriptOK, SubOK, TypeOK

LEMMA TypesStart == Init => TInv
<1> SUFFICES ASSUME Init PROVE TInv
  OBVIOUS
<1>1. /\ topic = <<>> /\ job = Started(0, NoWins, 0) /\ ckpt.wins = NoWins /\ spent = 0 /\ kind \in Jobs
      /\ stored.row = {} /\ stored.dead = {} /\ Len(topic) = 0
  BY DEF Init, SJInit, NoCkpt
<1>2. /\ job.at = "running" /\ job.restarts = 0 /\ job.hold = NoRows /\ job.wins = NoWins
      /\ job.tries = [s \in Sinks |-> 0] /\ job.pos = 0
  BY <1>1, NoRowsFields DEF Started
<1>3. Bounds /\ StoresOK
  BY <1>1, StreamAssumption DEF Bounds, StoresOK
<1>4. JobOK
  BY <1>2, NoRowsFields, StreamAssumption, FS_EmptySet DEF JobOK
<1>5. WindowsOpen
  BY <1>1, <1>2 DEF WindowsOpen, NoWins
<1>6. ScriptOK
  BY DEF Init, RPInit, ScriptOK
<1>7. SubOK
  BY CollectorAssumption DEF Init, OCInit, Fresh, SubOK
<1> QED  BY <1>3, <1>4, <1>5, <1>6, <1>7 DEF TInv

\* The collector.
LEMMA SubKeeps ==
  ASSUME OCInv, SubOK, [OCNext]_ocVars PROVE SubOK'
<1>0. /\ coll \in Process /\ QueueCap \in Nat /\ MaxBackoff \in Nat /\ queue \in Nat /\ queue <= QueueCap
      /\ coll.backoff \in Nat /\ coll.backoff <= MaxBackoff
  BY CollectorAssumption DEF OCInv, OCTypeOK, SubOK
<1>b. /\ Broken.at = "backoff" /\ Broken.backoff = coll.backoff /\ Broken.markets = coll.markets
  BY <1>0 DEF Broken, Process
<1>1. ASSUME NEW answer, Start(answer) PROVE SubOK'
  <2>1. sub = {} /\ sub' = sub /\ queue' = queue
    BY <1>1 DEF Start, SubOK
  <2>2. coll'.backoff = coll.backoff
    BY <1>0, <1>1 DEF Start, Process
  <2> QED  BY <1>0, <2>1, <2>2 DEF SubOK
<1>2. ASSUME NEW ok \in BOOLEAN, Connect(ok) PROVE SubOK'
  <2>1. queue' = queue
    BY <1>2 DEF Connect
  <2>2. CASE ok
    <3>1. coll' = [coll EXCEPT !.at = "connected", !.backoff = 0] /\ sub' = coll.markets
      BY <1>2, <2>2 DEF Connect
    <3>2. coll'.at = "connected" /\ coll'.backoff = 0 /\ coll'.markets = coll.markets
      BY <1>0, <3>1 DEF Process
    <3> QED  BY <1>0, <2>1, <3>1, <3>2 DEF SubOK
  <2>3. CASE ~ok
    <3>1. coll' = Broken /\ sub' = {}
      BY <1>2, <2>3 DEF Connect
    <3> QED  BY <1>0, <1>b, <2>1, <3>1 DEF SubOK
  <2> QED  BY <2>2, <2>3
<1>3. CASE Pause
  <2>1. sub = {} /\ sub' = sub /\ queue' = queue
    BY <1>3 DEF Pause, SubOK
  <2>2. coll'.backoff = IF coll.backoff < MaxBackoff THEN coll.backoff + 1 ELSE coll.backoff
    BY <1>0, <1>3 DEF Pause, Process
  <2> QED  BY <1>0, <2>1, <2>2 DEF SubOK
<1>4. CASE Disconnect \/ RefuseTwice
  <2>1. coll' = Broken /\ sub' = {} /\ queue' = queue
    BY <1>4 DEF Disconnect, RefuseTwice
  <2> QED  BY <1>0, <1>b, <2>1 DEF SubOK
<1>5. CASE Enqueue
  BY <1>0, <1>5 DEF Enqueue, SubOK
<1>6. CASE Refuse \/ List
  BY <1>6 DEF Refuse, List, SubOK
<1>7. ASSUME NEW ok, Delivered(ok) PROVE SubOK'
  BY <1>0, <1>7 DEF Delivered, SubOK
<1>8. CASE Due
  <2>1. coll'.markets = coll.markets /\ coll'.at = coll.at /\ coll'.backoff = coll.backoff
    BY <1>0, <1>8 DEF Due, Process
  <2> QED  BY <1>8, <2>1 DEF Due, SubOK
<1>9. ASSUME NEW answer, NEW works \in BOOLEAN, Refresh(answer, works) PROVE SubOK'
  <2>1. PICK latest : latest = IF answer = listed THEN answer ELSE coll.markets
    OBVIOUS
  <2>2. PICK known : known = [coll EXCEPT !.markets = latest, !.due = FALSE]
    OBVIOUS
  <2>3. known.markets = latest /\ known.at = coll.at /\ known.backoff = coll.backoff /\ DOMAIN known = DOMAIN coll
    BY <1>0, <2>2 DEF Process
  <2>4. /\ coll' = (IF works THEN known ELSE [known EXCEPT !.at = "backoff"])
        /\ sub' = (IF ~works THEN {} ELSE IF latest # coll.markets THEN latest ELSE sub)
        /\ queue' = queue /\ coll.at = "connected"
    BY <1>9, <2>1, <2>2 DEF Refresh
  <2>5. CASE works
    BY <1>0, <2>3, <2>4, <2>5 DEF SubOK
  <2>6. CASE ~works
    <3>1. coll'.backoff = known.backoff /\ sub' = {}
      BY <1>0, <2>3, <2>4, <2>6 DEF Process
    <3> QED  BY <1>0, <2>3, <2>4, <3>1 DEF SubOK
  <2> QED  BY <2>5, <2>6
<1>10. CASE Die
  BY <1>0, <1>10 DEF Die, Fresh, SubOK
<1>11. CASE UNCHANGED ocVars
  BY <1>11 DEF ocVars, SubOK
<1> QED  BY <1>1, <1>2, <1>3, <1>4, <1>5, <1>6, <1>7, <1>8, <1>9, <1>10, <1>11 DEF OCNext, OCStep

\* The job's fields in the steps.
LEMMA BoundsKeep ==
  ASSUME SJInv, Bounds, [Next]_vars PROVE Bounds'
<1>0. /\ MaxMessages \in Nat /\ MaxFaults \in Nat /\ spent \in Nat /\ spent <= MaxFaults
      /\ Len(topic) \in Nat /\ Len(topic) <= MaxMessages /\ kind \in Jobs
  BY StreamAssumption, Positions DEF Bounds
<1>1. ASSUME UNCHANGED <<kind, topic>>,
             spent' = spent \/ (spent < MaxFaults /\ spent' = spent + 1)
      PROVE  Bounds'
  BY <1>0, <1>1 DEF Bounds
<1>2. CASE SJNext
  <2>1. CASE Arrive
    <3>1. Len(topic') = Len(topic) + 1 /\ Len(topic) < MaxMessages /\ kind' = kind /\ spent' = spent
      BY <2>1, Positions, TopicGrows DEF Arrive
    <3> QED  BY <1>0, <3>1 DEF Bounds
  <2>2. CASE \E s \in Sinks : Flush(s)
    BY <1>1, <2>2 DEF Flush
  <2>3. CASE \E s \in Sinks, effective \in BOOLEAN : FlushFails(s, effective)
    BY <1>1, <2>3 DEF FlushFails
  <2>4. CASE Consume \/ Advance \/ Crash \/ Restart \/ Deploy \/ GiveUp \/ Resubmit
    BY <1>1, <2>4 DEF Consume, Advance, Crash, Restart, Deploy, GiveUp, Resubmit
  <2>5. ASSUME NEW commits \in BOOLEAN, Checkpoint(commits) \/ Withdraw(commits) PROVE Bounds'
    BY <1>1, <2>5 DEF Checkpoint, Withdraw
  <2> QED  BY <1>2, <2>1, <2>2, <2>3, <2>4, <2>5, NoRowsFields DEF SJNext, SJStep
<1>3. CASE RPNext
  BY <1>1, <1>3 DEF RPNext, RPStep, Begin, Finish, Judge, Trouble, sjVars
<1>4. CASE UNCHANGED sjVars
  BY <1>1, <1>4 DEF sjVars
<1> QED  BY <1>2, <1>3, <1>4 DEF Next, JobStep, CollectorStep, MirrorStep, vars

\* A job that starts, and one that goes down.
LEMMA StartsOK ==
  ASSUME NEW p, NEW W, NEW r \in 0..MaxRestarts, job' = Started(p, W, r)
  PROVE  JobOK'
<1>1. /\ job'.at = "running" /\ job'.restarts = r /\ job'.hold = NoRows /\ job'.tries = [s \in Sinks |-> 0]
  BY NoRowsFields DEF Started
<1> QED  BY <1>1, NoRowsFields, StreamAssumption, FS_EmptySet DEF JobOK

LEMMA DownOK ==
  ASSUME JobOK, job' = Down
  PROVE  JobOK'
<1>1. PICK d : d = Started(0, NoWins, job.restarts)
  OBVIOUS
<1>2. PICK at : at = IF job.restarts < MaxRestarts THEN "down" ELSE "failed"
  OBVIOUS
<1>3. /\ d.restarts = job.restarts /\ d.hold = NoRows /\ d.tries = [s \in Sinks |-> 0] /\ DOMAIN d = JobFields
  BY <1>1, NoRowsFields DEF Started, JobFields
<1>4. job' = [d EXCEPT !.at = at]
  BY <1>1, <1>2 DEF Down
<1>5. /\ job'.at = at /\ job'.restarts = job.restarts /\ job'.hold = NoRows
      /\ job'.tries = [s \in Sinks |-> 0]
  BY <1>3, <1>4 DEF JobFields
<1>6. /\ job'.at \in {"down", "failed"} /\ (job'.at = "down" => job'.restarts < MaxRestarts)
  BY <1>2, <1>5
<1>7. job'.restarts \in 0..MaxRestarts
  BY <1>5 DEF JobOK
<1> QED  BY <1>5, <1>6, <1>7, NoRowsFields, StreamAssumption, FS_EmptySet DEF JobOK

LEMMA StopsOK ==
  ASSUME job' = [Started(0, NoWins, 0) EXCEPT !.at = "stopped"]
  PROVE  JobOK'
<1>1. PICK d : d = Started(0, NoWins, 0)
  OBVIOUS
<1>2. /\ d.restarts = 0 /\ d.hold = NoRows /\ d.tries = [s \in Sinks |-> 0] /\ DOMAIN d = JobFields
  BY <1>1, NoRowsFields DEF Started, JobFields
<1>3. job' = [d EXCEPT !.at = "stopped"]
  BY <1>1
<1>4. /\ job'.at = "stopped" /\ job'.restarts = 0 /\ job'.hold = NoRows
      /\ job'.tries = [s \in Sinks |-> 0]
  BY <1>2, <1>3 DEF JobFields
<1> QED  BY <1>4, NoRowsFields, StreamAssumption, FS_EmptySet DEF JobOK

\* Steps that leave the life of the job alone.
LEMMA GoesOnOK ==
  ASSUME JobOK, job'.at = job.at, job'.restarts = job.restarts, job'.tries = job.tries,
         job'.hold.row = job.hold.row, job'.hold.dead = job.hold.dead, job'.pos = job.pos
  PROVE  JobOK'
BY DEF JobOK

LEMMA ConsumeOK == ASSUME SJInv, JobOK, Consume PROVE JobOK'
<1>1. PICK i \in Nat : i = job.pos + 1
  BY Positions
<1>2. job.pos \in Nat /\ job.at = "running"
  BY Positions DEF Consume
<1>3. /\ job'.at = job.at /\ job'.pos = i /\ job'.restarts = job.restarts /\ job'.tries = job.tries
      /\ job'.hold.row = (IF Parse(topic[i]) = "row" THEN job.hold.row \cup {i} ELSE job.hold.row)
      /\ job'.hold.dead = (IF Parse(topic[i]) = "dead" THEN job.hold.dead \cup {i} ELSE job.hold.dead)
  <2>1. DOMAIN job = JobFields /\ DOMAIN job.hold = Sinks
    BY Positions DEF SJTypes
  <2>2. PICK u, v, g, h :
               /\ job' = [job EXCEPT !.pos = i, !.hold.row  = g, !.hold.dead = h, !.seen = u, !.wins = v]
               /\ g = (IF Parse(topic[i]) = "row" THEN job.hold.row \cup {i} ELSE job.hold.row)
               /\ h = (IF Parse(topic[i]) = "dead" THEN job.hold.dead \cup {i} ELSE job.hold.dead)
    BY <1>1 DEF Consume
  <2> QED  BY <2>1, <2>2 DEF JobFields, Sinks
<1>4. /\ IsFiniteSet(job.hold.row) /\ job.hold.row \subseteq 1..job.pos /\ job.hold.dead \subseteq 1..job.pos
      /\ Cardinality(job.hold.row) < BatchSize /\ Cardinality(job.hold.row) \in Nat
  <2>1. IsFiniteSet(job.hold.row) /\ job.hold.row \subseteq 1..job.pos /\ job.hold.dead \subseteq 1..job.pos
    BY DEF JobOK
  <2> QED  BY <2>1, FS_CardinalityType DEF Consume
<1>5. i \notin job.hold.row
  BY <1>1, <1>2, <1>4
<1>6. IsFiniteSet(job.hold.row \cup {i}) /\ Cardinality(job.hold.row \cup {i}) = Cardinality(job.hold.row) + 1
  BY <1>4, <1>5, FS_AddElement
<1>7. IsFiniteSet(job'.hold.row) /\ Cardinality(job'.hold.row) <= BatchSize
  BY <1>3, <1>4, <1>6, StreamAssumption
<1>8. job'.hold.row \subseteq 1..i /\ job'.hold.dead \subseteq 1..i
  BY <1>1, <1>2, <1>3, <1>4
<1> QED  BY <1>3, <1>7, <1>8 DEF JobOK

LEMMA AdvanceOK == ASSUME SJInv, JobOK, Advance PROVE JobOK'
<1>1. DOMAIN job = JobFields /\ DOMAIN job.hold = Sinks
  BY Positions DEF SJTypes
<1>2. PICK u, v, w : job' = [job EXCEPT !.mark = u, !.wins = v, !.hold.minute = w]
  BY DEF Advance
<1>3. /\ job'.at = job.at /\ job'.restarts = job.restarts /\ job'.tries = job.tries
      /\ job'.hold.row = job.hold.row /\ job'.hold.dead = job.hold.dead /\ job'.pos = job.pos
  BY <1>1, <1>2 DEF JobFields, Sinks
<1> QED  BY <1>3, GoesOnOK

LEMMA FlushOK == ASSUME SJInv, JobOK, NEW s \in Sinks, Flush(s) PROVE JobOK'
<1>1. DOMAIN job = JobFields /\ DOMAIN job.hold = Sinks /\ DOMAIN job.tries = Sinks
  BY Positions DEF SJTypes, JobOK
<1>2. job' = [job EXCEPT !.hold[s] = {}, !.tries[s] = 0]
  BY DEF Flush
<1>3. /\ job'.at = job.at /\ job'.restarts = job.restarts /\ job'.pos = job.pos
      /\ job'.tries = [job.tries EXCEPT ![s] = 0] /\ job'.hold = [job.hold EXCEPT ![s] = {}]
  BY <1>1, <1>2 DEF JobFields
<1>4. DOMAIN job'.tries = Sinks /\ \A q \in Sinks : job'.tries[q] \in 0..MaxRetries
  BY <1>1, <1>3, StreamAssumption DEF JobOK
<1>5. /\ job'.hold.row = job.hold.row \/ job'.hold.row = {}
      /\ job'.hold.dead = job.hold.dead \/ job'.hold.dead = {}
  BY <1>1, <1>3 DEF Sinks
<1>6. IsFiniteSet(job'.hold.row) /\ Cardinality(job'.hold.row) <= BatchSize
  BY <1>5, FS_EmptySet, StreamAssumption DEF JobOK
<1>7. job'.hold.row \subseteq 1..job'.pos /\ job'.hold.dead \subseteq 1..job'.pos
  BY <1>3, <1>5 DEF JobOK
<1> QED  BY <1>3, <1>4, <1>6, <1>7 DEF JobOK

LEMMA FlushFailsOK ==
  ASSUME SJInv, JobOK, NEW s \in Sinks, NEW effective \in BOOLEAN, FlushFails(s, effective)
  PROVE  JobOK'
<1>1. CASE job.tries[s] < MaxRetries
  <2>1. DOMAIN job = JobFields /\ DOMAIN job.tries = Sinks /\ job.tries[s] \in 0..MaxRetries
    BY Positions DEF SJTypes, JobOK
  <2>2. job' = [job EXCEPT !.tries[s] = @ + 1]
    BY <1>1 DEF FlushFails
  <2>3. /\ job'.at = job.at /\ job'.restarts = job.restarts /\ job'.pos = job.pos /\ job'.hold = job.hold
        /\ job'.tries = [job.tries EXCEPT ![s] = @ + 1]
    BY <2>1, <2>2 DEF JobFields
  <2>4. job.tries[s] + 1 \in 0..MaxRetries
    BY <1>1, <2>1, StreamAssumption
  <2>5. DOMAIN job'.tries = Sinks /\ \A q \in Sinks : job'.tries[q] \in 0..MaxRetries
    BY <2>1, <2>3, <2>4 DEF JobOK
  <2> QED  BY <2>3, <2>5 DEF JobOK
<1>2. CASE ~(job.tries[s] < MaxRetries)
  BY <1>2, DownOK DEF FlushFails
<1> QED  BY <1>1, <1>2

LEMMA JobKeeps == ASSUME SJInv, JobOK, [Next]_vars PROVE JobOK'
<1>1. CASE SJNext
  <2>1. CASE \E s \in Sinks : Flush(s)
    BY <2>1, FlushOK
  <2>2. CASE \E s \in Sinks, effective \in BOOLEAN : FlushFails(s, effective)
    BY <2>2, FlushFailsOK
  <2>3. CASE Arrive
    BY <2>3, GoesOnOK DEF Arrive
  <2>4. CASE Crash
    BY <2>4, DownOK DEF Crash
  <2>5. ASSUME NEW commits \in BOOLEAN, Checkpoint(commits) PROVE JobOK'
    <3>1. job' = job \/ job' = Down
      BY <2>5 DEF Checkpoint
    <3> QED  BY <3>1, DownOK, GoesOnOK
  <2>6. CASE Restart
    <3>1. job.restarts + 1 \in 0..MaxRestarts
      BY <2>6, StreamAssumption DEF Restart, JobOK
    <3> QED  BY <2>6, <3>1, StartsOK DEF Restart
  <2>7. CASE Deploy \/ Resubmit
    <3>1. 0 \in 0..MaxRestarts
      BY StreamAssumption
    <3>2. \E p, W : job' = Started(p, W, 0)
      BY <2>7 DEF Deploy, Resubmit
    <3> QED  BY <3>1, <3>2, StartsOK
  <2>8. CASE \E commits \in BOOLEAN : Withdraw(commits)
    BY <2>8, StopsOK DEF Withdraw
  <2>9. CASE GiveUp
    <3>1. job' = [job EXCEPT !.at = "gone"] /\ DOMAIN job = JobFields
      BY <2>9, Positions DEF GiveUp, SJTypes
    <3> QED  BY <3>1 DEF JobOK, JobFields
  <2> QED  BY <1>1, <2>1, <2>2, <2>3, <2>4, <2>5, <2>6, <2>7, <2>8, <2>9, ConsumeOK, AdvanceOK, NoRowsFields DEF SJNext, SJStep
<1>2. CASE UNCHANGED job
  BY <1>2, GoesOnOK
<1>3. CASE RPNext
  <2>1. job' = job
    BY <1>3 DEF RPNext, RPStep, Begin, Finish, Judge, Trouble, sjVars
  <2> QED  BY <1>2, <2>1
<1> QED  BY <1>1, <1>2, <1>3 DEF Next, JobStep, CollectorStep, MirrorStep, vars, sjVars

\* What a job starts with is open.
LEMMA StartsOpen ==
  ASSUME NEW p, NEW W, NEW r, job' = Started(p, W, r), \A w \in DOMAIN W : w \in Nat,
         \A w \in DOMAIN ckpt'.wins : w \in Nat
  PROVE  WindowsOpen'
<1>1. job'.wins = W /\ job'.mark = 0
  BY DEF Started
<1>2. \A w \in Nat : ~(End(w) <= 0)
  BY EndIsPositive, EndIsInt
<1> QED  BY <1>1, <1>2 DEF WindowsOpen, Closed, End

LEMMA DownOpen ==
  ASSUME job' = Down, \A w \in DOMAIN ckpt'.wins : w \in Nat
  PROVE  WindowsOpen'
<1>1. job'.wins = NoWins /\ DOMAIN NoWins = {}
  BY DEF Down, Started, NoWins
<1> QED  BY <1>1 DEF WindowsOpen

\* Steps that leave the open windows alone, and may save them.
LEMMA StaysOpen ==
  ASSUME WindowsOpen, job'.wins = job.wins, job'.mark = job.mark,
         ckpt'.wins = ckpt.wins \/ ckpt'.wins = job.wins
  PROVE  WindowsOpen'
BY DEF WindowsOpen, Closed, End

LEMMA ConsumeOpen == ASSUME SJInv, MXInv, WindowsOpen, Consume PROVE WindowsOpen'
<1>1. PICK i \in Int : i = job.pos + 1
  BY Positions
<1>2. PICK m : m = topic[i]
  OBVIOUS
<1>3. PICK w : w = Window(m.t)
  OBVIOUS
<1>4. PICK took \in BOOLEAN : took = (kind = "orderbook" /\ Parse(m) = "row" /\ ~Closed(w, job.mark))
  OBVIOUS
<1>5. PICK a : a = Add(Opened(job.wins, w), m, i)
  OBVIOUS
<1>6. /\ job'.mark = job.mark
      /\ job'.wins = (IF took THEN Put(job.wins, w, a) ELSE job.wins)
  <2>1. DOMAIN job = JobFields /\ DOMAIN job.hold = Sinks
    BY Positions DEF SJTypes
  <2>2. PICK v : v = (IF took THEN Put(job.wins, w, a) ELSE job.wins)
    OBVIOUS
  <2>3. PICK g, h, u : job' = [job EXCEPT !.pos = i, !.hold.row = g, !.hold.dead = h, !.seen = u, !.wins = v]
    BY <1>1, <1>2, <1>3, <1>4, <1>5, <2>2 DEF Consume
  <2> QED  BY <2>1, <2>2, <2>3 DEF JobFields, Sinks
<1>7. took => w \in Nat /\ ~Closed(w, job.mark)
  <2>1. i \in 1..Len(topic)
    BY <1>1, Positions DEF Consume
  <2>2. took => m.t \in 1..(Minute + 1)
    BY <1>2, <1>4, <2>1 DEF MXInv, Books
  <2>3. took => m.t \in Nat \ {0}
    BY <2>2, StreamAssumption
  <2> QED  BY <1>3, <1>4, <2>3, WindowIsNat
<1>8. \A v \in DOMAIN job'.wins : v \in DOMAIN job.wins \/ (took /\ v = w)
  BY <1>6 DEF Put
<1>9. \A v \in DOMAIN job'.wins : v \in Nat /\ ~Closed(v, job.mark)
  BY <1>7, <1>8 DEF WindowsOpen
<1>10. ckpt' = ckpt
  BY DEF Consume
<1> QED  BY <1>6, <1>9, <1>10 DEF WindowsOpen, Closed, End

LEMMA AdvanceOpen == ASSUME SJInv, WindowsOpen, Advance PROVE WindowsOpen'
<1>1. PICK mark : mark = job.seen - Late
  OBVIOUS
<1>2. PICK shut : shut = {w \in DOMAIN job.wins : Closed(w, mark)}
  OBVIOUS
<1>3. job'.mark = mark /\ job'.wins = [w \in (DOMAIN job.wins) \ shut |-> job.wins[w]]
  <2>1. DOMAIN job = JobFields /\ DOMAIN job.hold = Sinks
    BY Positions DEF SJTypes
  <2>2. PICK u : u = [w \in (DOMAIN job.wins) \ shut |-> job.wins[w]]
    OBVIOUS
  <2>3. PICK v : job' = [job EXCEPT !.mark = mark, !.wins = u, !.hold.minute = v]
    BY <1>1, <1>2, <2>2 DEF Advance
  <2> QED  BY <2>1, <2>2, <2>3 DEF JobFields, Sinks
<1>4. \A w \in DOMAIN job'.wins : w \in DOMAIN job.wins /\ ~Closed(w, mark)
  BY <1>2, <1>3
<1>5. ckpt' = ckpt
  BY DEF Advance
<1> QED  BY <1>3, <1>4, <1>5 DEF WindowsOpen, Closed, End

LEMMA OpenKeeps == ASSUME SJInv, MXInv, WindowsOpen, [Next]_vars PROVE WindowsOpen'
<1>0. /\ \A w \in DOMAIN job.wins : w \in Nat
      /\ \A w \in DOMAIN ckpt.wins : w \in Nat
  BY DEF WindowsOpen
<1>d. DOMAIN job = JobFields
  BY Positions DEF SJTypes
<1>1. CASE SJNext
  <2>1. ASSUME NEW s \in Sinks, Flush(s) PROVE WindowsOpen'
    <3>1. job' = [job EXCEPT !.hold[s] = {}, !.tries[s] = 0] /\ ckpt' = ckpt
      BY <2>1 DEF Flush
    <3>2. job'.wins = job.wins /\ job'.mark = job.mark
      BY <1>d, <3>1 DEF JobFields
    <3> QED  BY <3>1, <3>2, StaysOpen
  <2>2. ASSUME NEW s \in Sinks, NEW effective \in BOOLEAN, FlushFails(s, effective) PROVE WindowsOpen'
    <3>1. (job' = [job EXCEPT !.tries[s] = @ + 1] \/ job' = Down) /\ ckpt' = ckpt
      BY <2>2 DEF FlushFails
    <3>2. CASE job' = [job EXCEPT !.tries[s] = @ + 1]
      <4>1. job'.wins = job.wins /\ job'.mark = job.mark
        BY <1>d, <3>2 DEF JobFields
      <4> QED  BY <3>1, <4>1, StaysOpen
    <3>3. CASE job' = Down
      BY <1>0, <3>1, <3>3, DownOpen
    <3> QED  BY <3>1, <3>2, <3>3
  <2>3. CASE Arrive
    BY <2>3, StaysOpen DEF Arrive
  <2>4. CASE Crash
    BY <1>0, <2>4, DownOpen DEF Crash
  <2>5. ASSUME NEW commits \in BOOLEAN, Checkpoint(commits) PROVE WindowsOpen'
    <3>1. ckpt'.wins = job.wins /\ (job' = job \/ job' = Down)
      BY <2>5 DEF Checkpoint
    <3> QED  BY <1>0, <3>1, DownOpen, StaysOpen
  <2>6. CASE Restart
    BY <1>0, <2>6, StartsOpen DEF Restart
  <2>7. CASE Deploy
    <3>1. ckpt'.wins = ckpt.wins /\ job' = Started(ckpt.pos, ckpt.wins, 0)
      BY <2>7 DEF Deploy
    <3> QED  BY <1>0, <3>1, StartsOpen
  <2>8. CASE Resubmit
    <3>1. ckpt'.wins = NoWins /\ DOMAIN NoWins = {} /\ \E p : job' = Started(p, NoWins, 0)
      BY <2>8 DEF Resubmit, NoCkpt, NoWins
    <3> QED  BY <3>1, StartsOpen
  <2>9. ASSUME NEW commits \in BOOLEAN, Withdraw(commits) PROVE WindowsOpen'
    <3>1. ckpt'.wins = job.wins /\ job'.wins = NoWins /\ DOMAIN NoWins = {}
      BY <2>9, WithdrawnFields DEF Withdraw, NoWins
    <3> QED  BY <1>0, <3>1 DEF WindowsOpen
  <2>10. CASE GiveUp
    <3>1. job'.wins = job.wins /\ job'.mark = job.mark /\ ckpt' = ckpt
      BY <1>d, <2>10 DEF GiveUp, JobFields
    <3> QED  BY <3>1, StaysOpen
  <2> QED  BY <1>1, <2>1, <2>2, <2>3, <2>4, <2>5, <2>6, <2>7, <2>8, <2>9, <2>10, ConsumeOpen, AdvanceOpen, NoRowsFields
           DEF SJNext, SJStep
<1>2. CASE UNCHANGED <<job, ckpt>>
  BY <1>2, StaysOpen
<1>3. CASE RPNext
  <2>1. job' = job /\ ckpt' = ckpt
    BY <1>3 DEF RPNext, RPStep, Begin, Finish, Judge, Trouble, sjVars
  <2> QED  BY <1>2, <2>1
<1> QED  BY <1>1, <1>2, <1>3 DEF Next, JobStep, CollectorStep, MirrorStep, vars, sjVars

-----------------------------------------------------------------------------
(* The stores and the script *)

\* What is in the topic has a key the stores may hold.
LEMMA KeyInTopic ==
  ASSUME SJInv, StoresOK
  PROVE  \A i \in 1..Len(topic) : Key(topic[i]) \in 0..Len(topic)
<1>1. ASSUME NEW i \in 1..Len(topic) PROVE topic[i].key \in Nat /\ topic[i].key <= Len(topic)
  <2>1. topic[i] \in Message
    BY Positions, Times
  <2> QED  BY <2>1 DEF StoresOK, Message
<1> QED  BY <1>1, Positions DEF Key

\* Steps that add to the stores what is in the topic.
LEMMA StoresAdd ==
  ASSUME SJInv, StoresOK, topic' = topic,
         stored'.row \subseteq stored.row \cup {Key(topic[i]) : i \in 1..Len(topic)},
         stored'.dead \subseteq stored.dead \cup (1..Len(topic))
  PROVE  StoresOK'
<1>1. PICK keys : keys = {Key(topic[i]) : i \in 1..Len(topic)}
  OBVIOUS
<1>2. keys \subseteq 0..Len(topic)
  BY <1>1, KeyInTopic
<1>3. stored'.row \subseteq 0..Len(topic) /\ stored'.dead \subseteq 1..Len(topic)
  BY <1>1, <1>2 DEF StoresOK
<1> QED  BY <1>3 DEF StoresOK

LEMMA WrittenOK ==
  ASSUME SJInv, JobOK, StoresOK, NEW s \in Sinks, topic' = topic, stored' = Written(s)
  PROVE  StoresOK'
<1>0. DOMAIN stored = {"row", "dead", "minute", "young", "marked"} /\ SJTypes
  BY Positions DEF SJTypes
<1>a. job.hold.row \subseteq 1..Len(topic) /\ job.hold.dead \subseteq 1..Len(topic)
  BY Positions DEF JobOK
<1>1. CASE s = "row"
  <2>1. PICK keys : keys = {Key(topic[i]) : i \in job.hold.row}
    OBVIOUS
  <2>2. keys \subseteq {Key(topic[i]) : i \in 1..Len(topic)}
    BY <1>a, <2>1
  <2>3. stored' = Inserted(keys)
    BY <1>1, <2>1 DEF Written
  <2>4. stored'.row = stored.row \cup keys /\ stored'.dead = stored.dead
    BY <1>0, <2>3, InsertedFields
  <2> QED  BY <2>2, <2>4, StoresAdd
<1>2. CASE s = "dead"
  <2>1. stored' = [stored EXCEPT !.dead = @ \cup job.hold.dead]
    BY <1>2 DEF Written
  <2>2. stored'.row = stored.row /\ stored'.dead = stored.dead \cup job.hold.dead
    BY <1>0, <2>1
  <2> QED  BY <1>a, <2>2, StoresAdd
<1>3. CASE s = "minute"
  <2>1. PICK b : stored' = [stored EXCEPT !.minute = b]
    BY <1>3 DEF Written
  <2>2. stored'.row = stored.row /\ stored'.dead = stored.dead
    BY <1>0, <2>1
  <2> QED  BY <2>2, StoresAdd
<1> QED  BY <1>1, <1>2, <1>3 DEF Sinks

LEMMA RereadOK ==
  ASSUME SJInv, StoresOK, NEW n \in (First - 1)..Stop, Stop <= Len(topic), topic' = topic, Reread(n)
  PROVE  StoresOK'
<1>1. First \in Nat /\ First >= 1 /\ Stop \in Nat
  BY ReprocessAssumption DEF First, Stop
<1>2. \A i \in First..n : i \in 1..Len(topic)
  BY <1>1, Positions
<1>3. PICK keys : keys = {Key(topic[i]) : i \in {k \in First..n : Parse(topic[k]) = "row"}}
  OBVIOUS
<1>4. PICK bad : bad = {k \in First..n : Parse(topic[k]) = "dead"}
  OBVIOUS
<1>5. stored' = [Inserted(keys) EXCEPT !.dead = @ \cup bad]
  BY <1>3, <1>4 DEF Reread
<1>6. keys \subseteq {Key(topic[i]) : i \in 1..Len(topic)}
  BY <1>2, <1>3
<1>7. bad \subseteq 1..Len(topic)
  BY <1>2, <1>4
<1>8. stored'.row = stored.row \cup keys /\ stored'.dead = stored.dead \cup bad
  <2>1. DOMAIN stored = {"row", "dead", "minute", "young", "marked"} /\ SJTypes
    BY Positions DEF SJTypes
  <2> QED  BY <1>5, <2>1, InsertedFields
<1> QED  BY <1>6, <1>7, <1>8, StoresAdd

LEMMA ArriveOK == ASSUME SJInv, StoresOK, Arrive PROVE StoresOK'
<1>1. PICK m \in Arrivals : topic' = Append(topic, m)
  BY DEF Arrive
<1>2. PICK n : n = Len(topic) + 1
  OBVIOUS
<1>3. /\ Len(topic') = n /\ n \in Nat /\ Len(topic) \in Nat /\ topic'[n] = m
      /\ \A i \in 1..Len(topic) : topic'[i] = topic[i]
  BY <1>1, <1>2, Positions, TopicGrows DEF SJTypes
<1>4. m.key = n \/ m.key = 0 \/ \E j \in 1..Len(topic) : m = topic[j]
  BY <1>2 DEF Arrivals
<1>5. \A i \in 1..Len(topic) : topic[i].key \in Nat /\ topic[i].key <= Len(topic)
  <2> TAKE i \in 1..Len(topic)
  <2>1. topic[i] \in Message
    BY Positions, Times
  <2> QED  BY <2>1 DEF StoresOK, Message
<1>6. m.key <= n
  BY <1>2, <1>3, <1>4, <1>5
<1>7. \A i \in 1..n : topic'[i].key <= n
  <2> TAKE i \in 1..n
  <2>1. CASE i = n
    BY <1>3, <1>6, <2>1
  <2>2. CASE i # n
    <3>1. i \in 1..Len(topic)
      BY <1>2, <1>3, <2>2
    <3> QED  BY <1>2, <1>3, <1>5, <3>1
  <2> QED  BY <2>1, <2>2
<1>8. stored'.row \subseteq 0..n /\ stored'.dead \subseteq 1..n
  <2>1. stored' = stored
    BY DEF Arrive
  <2> QED  BY <1>2, <1>3, <2>1 DEF StoresOK
<1> QED  BY <1>3, <1>7, <1>8 DEF StoresOK

LEMMA StoresKeep ==
  ASSUME SJInv, JobOK, StoresOK, ScriptOK, [Next]_vars PROVE StoresOK'
<1>0. ASSUME topic' = topic, stored'.row = stored.row, stored'.dead = stored.dead PROVE StoresOK'
  BY <1>0, StoresAdd
<1>1. CASE SJNext
  <2>1. ASSUME NEW s \in Sinks, Flush(s) PROVE StoresOK'
    BY <2>1, WrittenOK DEF Flush
  <2>2. ASSUME NEW s \in Sinks, NEW effective \in BOOLEAN, FlushFails(s, effective) PROVE StoresOK'
    <3>1. topic' = topic /\ (stored' = Written(s) \/ stored' = stored)
      BY <2>2 DEF FlushFails
    <3> QED  BY <1>0, <3>1, WrittenOK
  <2>3. CASE \/ Consume \/ Advance \/ Crash \/ Restart \/ Deploy \/ GiveUp \/ Resubmit
             \/ \E commits \in BOOLEAN : Withdraw(commits)
             \/ Checkpoint(TRUE) \/ Checkpoint(FALSE)
    <3>1. UNCHANGED <<topic, stored>>
      BY <2>3 DEF Consume, Advance, Crash, Restart, Deploy, GiveUp, Resubmit, Checkpoint, Withdraw
    <3> QED  BY <1>0, <3>1
  <2> QED  BY <1>1, <2>1, <2>2, <2>3, ArriveOK, NoRowsFields DEF SJNext, SJStep
<1>2. CASE RPNext
  <2>1. CASE Begin
    <3>1. topic' = topic /\ stored' = [stored EXCEPT !.marked = TRUE]
      BY <2>1 DEF Begin
    <3>2. stored'.row = stored.row /\ stored'.dead = stored.dead
      BY <3>1, Positions DEF SJTypes
    <3> QED  BY <1>0, <3>1, <3>2
  <2>2. CASE Finish \/ \E ends \in BOOLEAN : Trouble(ends)
    <3>1. rp.job = "running" /\ topic' = topic
      BY <2>2 DEF Finish, Trouble
    <3>2. First - 1 <= Stop /\ First \in Nat /\ Stop \in Nat
      BY ReprocessAssumption DEF First, Stop
    <3>3. Stop \in (First - 1)..Stop
      BY <3>2
    <3>4. \E n \in (First - 1)..Stop : Reread(n)
      BY <2>2, <3>3 DEF Finish, Trouble
    <3>5. Stop <= Len(topic)
      BY <3>1 DEF ScriptOK
    <3> QED  BY <3>1, <3>4, <3>5, RereadOK
  <2>3. CASE Judge
    <3>1. topic' = topic /\ stored' = stored
      BY <2>3 DEF Judge, sjVars
    <3> QED  BY <1>0, <3>1
  <2> QED  BY <1>2, <2>1, <2>2, <2>3 DEF RPNext, RPStep
<1>3. CASE UNCHANGED sjVars
  <2>1. topic' = topic /\ stored' = stored
    BY <1>3 DEF sjVars
  <2> QED  BY <1>0, <2>1
<1> QED  BY <1>1, <1>2, <1>3 DEF Next, JobStep, CollectorStep, MirrorStep, vars

LEMMA ScriptKeeps == ASSUME SJInv, ScriptOK, [Next]_vars PROVE ScriptOK'
<1>0. Len(topic) \in Nat /\ Stop \in Nat /\ Stop' = Stop /\ DOMAIN rp = {"at", "job", "before"}
  BY Positions, ReprocessAssumption DEF Stop, ScriptOK
<1>1. Len(topic') \in Nat /\ Len(topic) <= Len(topic')
  <2>1. CASE SJNext /\ ~Arrive
    <3>1. CASE \E s \in Sinks : Flush(s)
      BY <1>0, <3>1 DEF Flush
    <3>2. CASE \E s \in Sinks, effective \in BOOLEAN : FlushFails(s, effective)
      BY <1>0, <3>2 DEF FlushFails
    <3>3. CASE \/ Consume \/ Advance \/ Crash \/ Restart \/ Deploy \/ GiveUp \/ Resubmit
               \/ \E commits \in BOOLEAN : Withdraw(commits)
               \/ Checkpoint(TRUE) \/ Checkpoint(FALSE)
      <4>1. topic' = topic
        BY <3>3 DEF Consume, Advance, Crash, Restart, Deploy, GiveUp, Resubmit, Checkpoint, Withdraw
      <4> QED  BY <1>0, <4>1
    <3> QED  BY <2>1, <3>1, <3>2, <3>3, NoRowsFields DEF SJNext, SJStep
  <2>2. CASE Arrive
    BY <1>0, <2>2, Positions, TopicGrows
  <2>3. CASE RPNext
    BY <1>0, <2>3 DEF RPNext, RPStep, Begin, Finish, Judge, Trouble, sjVars
  <2>4. CASE UNCHANGED sjVars
    BY <1>0, <2>4 DEF sjVars
  <2> QED  BY <2>1, <2>2, <2>3, <2>4 DEF Next, JobStep, CollectorStep, MirrorStep, vars
<1>2. CASE RPNext
  <2>1. CASE Begin
    <3>1. /\ rp' = [at |-> "waiting", job |-> "running", before |-> Content] /\ topic' = topic
          /\ job.pos >= Stop
      BY <2>1 DEF Begin
    <3>2. Stop <= Len(topic)
      BY <1>0, <3>1, Positions
    <3> QED  BY <1>0, <3>1, <3>2 DEF ScriptOK
  <2>2. ASSUME rp'.at = rp.at, DOMAIN rp' = DOMAIN rp, rp'.job \in {"running", "finished", "failed"},
               rp.job = "running"
        PROVE  ScriptOK'
    BY <1>0, <1>1, <2>2 DEF ScriptOK
  <2>3. CASE Finish
    <3>1. rp' = [rp EXCEPT !.job = "finished"] /\ rp.job = "running"
      BY <2>3 DEF Finish
    <3> QED  BY <1>0, <2>2, <3>1
  <2>4. ASSUME NEW ends \in BOOLEAN, Trouble(ends) PROVE ScriptOK'
    <3>1. (rp' = rp \/ rp' = [rp EXCEPT !.job = "failed"]) /\ rp.job = "running"
      BY <2>4 DEF Trouble
    <3> QED  BY <1>0, <2>2, <3>1
  <2>5. CASE Judge
    <3>1. rp' = [rp EXCEPT !.at = Verdict]
      BY <2>5 DEF Judge
    <3>2. rp'.at = Verdict /\ rp'.job = rp.job /\ DOMAIN rp' = DOMAIN rp
      BY <1>0, <3>1
    <3>3. Verdict \in {"passed", "short", "differs"}
      BY DEF Verdict
    <3> QED  BY <1>0, <1>1, <3>2, <3>3 DEF ScriptOK
  <2> QED  BY <1>2, <2>1, <2>3, <2>4, <2>5 DEF RPNext, RPStep
<1>3. CASE UNCHANGED rp
  BY <1>0, <1>1, <1>3 DEF ScriptOK
<1> QED  BY <1>2, <1>3 DEF Next, JobStep, CollectorStep, MirrorStep, vars, rpVars

\* The jobs, the script, the collector and the mirror keep their types, whatever
\* the bounds: a sink never holds more than a batch, a job uses no restart twice,
\* a window stays open only as long as the watermark has not passed its end, also
\* after a restart began the watermark anew, and a subscription names markets the
\* collector knows and exists only on a connection that stands (DataPath).
THEOREM DataPathTypeCorrect == Spec => []TypeOK
<1>1. Init => SJInv /\ MXInv /\ LMInv /\ OCInv /\ TInv
  BY StreamStarts, MXStarts, LMStarts, OCStarts, TypesStart DEF Init
<1>2. SJInv /\ MXInv /\ LMInv /\ OCInv /\ TInv /\ [Next]_vars => SJInv' /\ MXInv' /\ LMInv' /\ OCInv' /\ TInv'
  <2> SUFFICES ASSUME SJInv, MXInv, LMInv, OCInv, TInv, [Next]_vars
               PROVE  SJInv' /\ MXInv' /\ LMInv' /\ OCInv' /\ TInv'
    OBVIOUS
  <2>1. SJInv' /\ MXInv' /\ LMInv' /\ OCInv'
    BY StreamSteps, MXKeeps, LMSteps, OCSteps, Apart
  <2>2. Bounds /\ JobOK /\ StoresOK /\ WindowsOpen /\ ScriptOK /\ SubOK
    BY DEF TInv
  <2>3. Bounds' /\ JobOK' /\ StoresOK' /\ WindowsOpen' /\ ScriptOK' /\ SubOK'
    BY <2>2, BoundsKeep, JobKeeps, StoresKeep, OpenKeeps, ScriptKeeps, SubKeeps, Apart
  <2> QED  BY <2>1, <2>3 DEF TInv
<1>3. SJInv /\ LMInv /\ OCInv /\ TInv => TypeOK
  BY TypesSuffice
<1> QED  BY <1>1, <1>2, <1>3, PTL DEF Spec
=============================================================================
