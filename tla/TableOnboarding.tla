---------------------------- MODULE TableOnboarding ----------------------------
(* onboard_table.py: a MySQL table gets a topic, a table with its Kafka engine
   and view in ClickHouse, a place in the connector's list and, by a signal, a
   snapshot of its old rows - while the application goes on writing.  Each step
   may fail and end the script; it is then run again from the start. *)
EXTENDS Naturals, Sequences

CONSTANTS
  Keys,  \* primary keys of the table
  MaxWrites, MaxAborts  \* bounds

ASSUME OnboardingAssumption == MaxWrites \in Nat /\ MaxAborts \in Nat

VARIABLES
  source,   \* MySQL: version per key, 0 without a row
  made,     \* what exists: "topic", "views", "included"
  feed,     \* the topic: [op, key, version]
  got,      \* the view's position in it
  target,   \* per key what FINAL keeps: [version, deleted]
  script,   \* the step it is at
  scan,     \* the incremental snapshot: keys to read, rows read and not published
  buried,   \* history: the highest version a deleted row had
  aborts

obVars == <<source, made, feed, got, target, script, scan, buried, aborts>>

NoScan == [keys |-> {}, rows |-> {}]

OBInit ==
  /\ source \in [Keys -> {0, 1}] /\ made = {} /\ feed = <<>> /\ got = 0
  /\ target = [k \in Keys |-> [version |-> 0, deleted |-> TRUE]]
  /\ script = "check" /\ scan = NoScan /\ aborts = 0
  /\ buried = [k \in Keys |-> 0]

Event(op, k, v) ==
  feed' = IF "included" \in made THEN Append(feed, [op |-> op, key |-> k, version |-> v]) ELSE feed

\* The application: rows begin with version 1, updates add 1 (the convention of
\* the ledger, has_version).  The connector publishes what it includes.
Change(k) ==
  /\ Len(feed) < MaxWrites
  /\ \/ /\ source[k] < 2
        /\ source' = [source EXCEPT ![k] = @ + 1]
        /\ Event(IF source[k] = 0 THEN "c" ELSE "u", k, source[k] + 1) /\ UNCHANGED buried
     \/ /\ source[k] > 0
        /\ source' = [source EXCEPT ![k] = 0] /\ Event("d", k, source[k])
        /\ buried' = [buried EXCEPT ![k] = IF source[k] > @ THEN source[k] ELSE @]
  /\ UNCHANGED <<made, got, target, script, scan, aborts>>

-----------------------------------------------------------------------------
(* The script *)

\* 1: a table that is in the list already is refused.
Admit ==
  /\ script = "check"
  /\ script' = IF "included" \in made THEN "refused" ELSE "topic"
  /\ UNCHANGED <<source, made, feed, got, target, scan, buried, aborts>>

\* 2 and 3: both before the connector publishes; IF NOT EXISTS.
Make(what, at, then) ==
  /\ script = at /\ script' = then
  /\ made' = made \cup {what}
  /\ UNCHANGED <<source, feed, got, target, scan, buried, aborts>>

\* 4: the list is put; then the connector must be running again.
Include == Make("included", "connector", "signal")

\* 5: execute-snapshot, incremental.
Signal ==
  /\ script = "signal" /\ script' = "wait"
  /\ scan' = [scan EXCEPT !.keys = Keys]
  /\ UNCHANGED <<source, made, feed, got, target, buried, aborts>>

\* It waits two minutes for the rows, and goes on without them; sources.yml; the
\* two counts are printed, whatever they are.
Conclude ==
  /\ script = "wait" /\ script' = "done"
  /\ UNCHANGED <<source, made, feed, got, target, scan, buried, aborts>>

\* A step fails, the connector after the list has been put; somebody starts over.
Abort ==
  /\ script \in {"topic", "views", "connector", "signal", "wait"} /\ aborts < MaxAborts
  /\ aborts' = aborts + 1 /\ script' = "check"
  /\ UNCHANGED <<source, made, feed, got, target, scan, buried>>

-----------------------------------------------------------------------------
(* Connector and ClickHouse *)

\* The incremental snapshot reads a chunk and publishes it later; rows that were
\* changed meanwhile may be among it.
ReadRow(k) ==
  /\ k \in scan.keys
  /\ scan' = [keys |-> scan.keys \ {k},
              rows |-> scan.rows \cup (IF source[k] = 0 THEN {} ELSE {[key |-> k, version |-> source[k]]})]
  /\ UNCHANGED <<source, made, feed, got, target, script, buried, aborts>>

PublishRow ==
  \E r \in scan.rows :
    /\ scan' = [scan EXCEPT !.rows = @ \ {r}]
    /\ Event("r", r.key, r.version)
    /\ UNCHANGED <<source, made, got, target, script, buried, aborts>>

\* Faulty variant: a deletion ranks with the row it deletes.
RankPlain(e) == e.version

\* version_expr: a deletion ranks one above the row it deletes.
Rank(e) == e.version + (IF e.op = "d" THEN 1 ELSE 0)

\* The view writes to ReplacingMergeTree(version, is_deleted).
Apply ==
  /\ "views" \in made /\ got < Len(feed) /\ got' = got + 1
  /\ LET e == feed[got']
     IN  target' = IF Rank(e) >= target[e.key].version
                   THEN [target EXCEPT ![e.key] = [version |-> Rank(e), deleted |-> e.op = "d"]]
                   ELSE target
  /\ UNCHANGED <<source, made, feed, script, scan, buried, aborts>>

OBNext ==
  \/ Admit \/ Make("topic", "topic", "views") \/ Make("views", "views", "connector")
  \/ Include \/ Signal \/ Conclude \/ Abort \/ PublishRow \/ Apply
  \/ \E k \in Keys : Change(k) \/ ReadRow(k)

-----------------------------------------------------------------------------
(* Properties *)

\* When the script has come to its end and everything is delivered, ClickHouse
\* shows the table, old rows and those that changed meanwhile: snapshot and change
\* events may overtake each other.  Excused: a row inserted again under the key of
\* a deleted one, below its tombstone.  (A run that was aborted after the list was
\* put is refused from then on, and the old rows never come.)
OnboardedMirrors ==
  script = "done" /\ scan = NoScan /\ got = Len(feed) =>
    \A k \in Keys :
      IF source[k] = 0 THEN target[k].deleted
      ELSE \/ ~target[k].deleted /\ target[k].version = source[k]
           \/ source[k] <= buried[k] + 1
=============================================================================
