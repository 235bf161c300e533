------------------------------ MODULE LedgerMirror ------------------------------
(* The mirror of the ledger in ClickHouse (clickhouse/ledger.sql): the order rows
   of MySQL, their change events in a Kafka topic, and the materialised view that
   writes them to a ReplacingMergeTree(version, is_deleted).  The cases table has
   the same form.  Events may be delivered again: the connector resends after a
   restart, the Kafka engine rereads what it had not committed. *)
EXTENDS Naturals, Sequences

CONSTANTS Orders, MaxEvents, MaxRewinds  \* the last two are bounds

ASSUME MirrorAssumption == MaxEvents \in Nat /\ MaxRewinds \in Nat

VARIABLES
  rows,    \* virtual_orders in MySQL: the version, 0 when there is no row
  events,  \* the topic: [op, id, version]
  read,    \* how far the view has read, and the farthest it ever had
  mirror,  \* per order: the row FINAL keeps, [version, deleted]
  buried,  \* history: the highest version a deleted row had
  rewinds

lmVars == <<rows, events, read, mirror, buried, rewinds>>

LMInit ==
  /\ rows = [o \in Orders |-> 0] /\ events = <<>> /\ read = [pos |-> 0, far |-> 0]
  /\ mirror = [o \in Orders |-> [version |-> 0, deleted |-> TRUE]]
  /\ buried = [o \in Orders |-> 0] /\ rewinds = 0

Log(op, o, v) ==
  /\ Len(events) < MaxEvents
  /\ events' = Append(events, [op |-> op, id |-> o, version |-> v])
  /\ UNCHANGED <<read, mirror, rewinds>>

\* UPSERT_ORDER: a row begins with version 1, an update that changes it adds 1.
Upsert(o) ==
  /\ rows' = [rows EXCEPT ![o] = @ + 1]
  /\ Log(IF rows[o] = 0 THEN "c" ELSE "u", o, rows[o] + 1)
  /\ UNCHANGED buried

\* apply_reset.  After a reset of the exchange an order id may come again.
Delete(o) ==
  /\ rows[o] > 0
  /\ rows' = [rows EXCEPT ![o] = 0]
  /\ buried' = [buried EXCEPT ![o] = IF rows[o] > @ THEN rows[o] ELSE @]
  /\ Log("d", o, rows[o])

\* Faulty variant: a deletion carries the version of the row it deletes.
VersionPlain(e) == e.version

\* mv_ledger_orders: a deletion is written one version above the row it deletes.
Version(e) == e.version + (IF e.op = "d" THEN 1 ELSE 0)

\* Of the rows of a key the highest version counts, of equal ones the last.
Replace(old, e) ==
  IF Version(e) >= old.version THEN [version |-> Version(e), deleted |-> e.op = "d"]
  ELSE old

Mirror ==
  /\ read.pos < Len(events)
  /\ LET n == read.pos + 1  e == events[n]
     IN  /\ mirror' = [mirror EXCEPT ![e.id] = Replace(@, e)]
         /\ read' = [pos |-> n, far |-> IF n > read.far THEN n ELSE read.far]
  /\ UNCHANGED <<rows, events, buried, rewinds>>

Rewind ==
  /\ rewinds < MaxRewinds /\ rewinds' = rewinds + 1
  /\ \E n \in 0..read.pos : n < read.pos /\ read' = [read EXCEPT !.pos = n]
  /\ UNCHANGED <<rows, events, mirror, buried>>

LMStep == Mirror
LMNext == Mirror \/ Rewind \/ \E o \in Orders : Upsert(o) \/ Delete(o)

-----------------------------------------------------------------------------
(* Properties *)

\* Once the view has read everything it shows the orders as they are in MySQL,
\* and goes on to while older events are delivered again: no deleted order comes
\* back, no row goes back.  Excused: a row inserted again under the id of a
\* deleted one, as long as its version is not above the tombstone's.
MirrorMatches ==
  read.far = Len(events) =>
    \A o \in Orders :
      LET m == mirror[o]
      IN  IF rows[o] = 0 THEN m.deleted
          ELSE \/ ~m.deleted /\ m.version = rows[o]
               \/ buried[o] > 0 /\ rows[o] <= buried[o] + 1
=============================================================================
