------------------------------- MODULE StreamJob -------------------------------
(* The Flink jobs that carry messages from Kafka to ClickHouse: the CDC job
   (CdcPipelineJob), the Binance trade job (BinanceTradeJob) and the order-book
   job (OrderbookJob).  They share one skeleton - a Kafka source, a parser, JDBC
   sinks that batch and retry, checkpoints, a bounded number of restarts - and
   differ in where they start without an offset, in what the parser does with a
   message it cannot use, and in the minute windows of the order book.

   The topic is one partition: messages of a key share one, and a checkpoint
   cuts all of them at once.  A position is the number of messages read. *)
EXTENDS Integers, Sequences, FiniteSets, Bags

CONSTANTS
  Jobs,         \* which of "cdc", "binance", "orderbook" the instance looks at
  Delay,        \* a trade may be up to Delay messages older than its message
  Late,         \* forBoundedOutOfOrderness, in ticks
  Minute,       \* ticks per window
  BatchSize,    \* rows a sink holds before invoke() flushes
  MaxRetries,   \* of a JDBC batch
  MaxRestarts,  \* fixedDelayRestart
  MaxMessages, MaxFaults  \* bounds

ASSUME StreamAssumption ==
  /\ Jobs \subseteq {"cdc", "binance", "orderbook"}
  /\ Delay \in Nat /\ Late \in Nat /\ Minute \in Nat \ {0} /\ BatchSize \in Nat \ {0}
  /\ MaxRetries \in Nat /\ MaxRestarts \in Nat /\ MaxMessages \in Nat /\ MaxFaults \in Nat

VARIABLES
  kind,       \* which job this is
  topic,      \* its messages: [is, key, t, mid]
  job,        \* the running job
  ckpt,       \* the last completed checkpoint, pos = NoOffset before the first
  committed,  \* the consumer group's offset in Kafka
  stored,     \* what the stores hold: trades or snapshots, dead letters, a bag
              \* of minute rows (orderbook_1m keeps copies), and the trades whose
              \* newest row is younger than a mark (flink_ts)
  past,       \* history: what starts skipped, snapshots in a window, window
              \* state lost, watermark begun anew, minutes written and sent again
  spent       \* faults

sjVars == <<kind, topic, job, ckpt, committed, stored, past, spent>>

NoOffset == -1

-----------------------------------------------------------------------------
(* Messages and parsers *)

\* What a parser does with a message: "row" is passed on, "dead" goes to the
\* dead letter topic, "skip" is dropped.  is = "none": null, empty or a
\* tombstone; "other": a delete, or no trade or book at all; "bare": without
\* content; "thin": the key fields are missing; "broken": not JSON.
\* OrderbookParser has no dead letters and drops what it cannot use; only
\* CdcEventParser fills missing key fields with defaults.
Parse(m) ==
  IF m.is = "row" \/ (m.is = "thin" /\ kind = "cdc") THEN "row"
  ELSE IF m.is = "none" \/ kind = "orderbook" \/ (m.is = "other" /\ kind = "cdc") THEN "skip"
  ELSE "dead"

\* The order key of the ReplacingMergeTree tables: rows with the same key are
\* one row.  Defaults give every thin message the same key.  (orderbook_raw keeps
\* copies of a snapshot, too; of those the model only says whether there is one.)
Key(m) == IF m.is = "thin" THEN 0 ELSE m.key

\* Where a job starts that has neither state nor a committed offset.
Reset == IF kind = "binance" THEN 0 ELSE Len(topic)

\* A new trade, or a book with both sides.
Usual(j) == topic[j].is = "row" /\ topic[j].key = j /\ (kind = "orderbook" => topic[j].mid # 0)

\* What may arrive: a new trade or snapshot, a trade the connector or the
\* collector sends again, or something the parser cannot use; bound: one of the
\* latter two in a topic.  Nothing in a Binance job depends on how late a trade is.
Arrivals ==
  LET i == Len(topic) + 1
      odd(k) == [is |-> k, key |-> 0, t |-> i, mid |-> 0]
      Odd == IF kind = "orderbook"
             THEN {[is |-> "row", key |-> i, t |-> 1, mid |-> 0],  \* one side is empty
                   odd("broken")}
             ELSE {topic[j] : j \in 1..Len(topic)}
                  \cup {odd(k) : k \in {"none", "other", "bare", "thin", "broken"}}
  IN  (IF kind = "orderbook"
       THEN {[is |-> "row", key |-> i, t |-> t, mid |-> 1 + (i % 2)] : t \in 1..(Minute + 1)}
       ELSE {[is |-> "row", key |-> i, t |-> t, mid |-> 0] :
               t \in {u \in 1..i : u = i \/ (kind = "cdc" /\ i - u <= Delay)}})
      \cup (IF \A j \in 1..Len(topic) : Usual(j) THEN Odd ELSE {})

-----------------------------------------------------------------------------
(* Minutes of the order book *)

Window(t) == (t - 1) \div Minute
End(w) == (w + 1) * Minute

Huge == 2 * Minute + 1

\* createAccumulator; ids, the snapshots it stands for, is history.
Acc == [n |-> 0, first |-> Huge, last |-> 0, open |-> 0, close |-> 0,
        lo |-> Huge, hi |-> 0, ids |-> {}]

\* Faulty variant: of two snapshots of one time the first closes the minute.
AddStrict(a, m, i) ==
  IF m.mid = 0 THEN [a EXCEPT !.ids = @ \cup {i}]
  ELSE [n     |-> a.n + 1,
        first |-> IF m.t < a.first THEN m.t ELSE a.first,
        open  |-> IF m.t < a.first THEN m.mid ELSE a.open,
        last  |-> IF m.t > a.last THEN m.t ELSE a.last,
        close |-> IF m.t > a.last THEN m.mid ELSE a.close,
        lo    |-> IF m.mid < a.lo THEN m.mid ELSE a.lo,
        hi    |-> IF m.mid > a.hi THEN m.mid ELSE a.hi,
        ids   |-> a.ids \cup {i}]

\* OrderbookAggregator.add: a book without one of its sides counts for nothing.
Add(a, m, i) ==
  IF m.mid = 0 THEN [a EXCEPT !.ids = @ \cup {i}]
  ELSE [n     |-> a.n + 1,
        first |-> IF m.t < a.first THEN m.t ELSE a.first,
        open  |-> IF m.t < a.first THEN m.mid ELSE a.open,
        last  |-> IF m.t >= a.last THEN m.t ELSE a.last,
        close |-> IF m.t >= a.last THEN m.mid ELSE a.close,
        lo    |-> IF m.mid < a.lo THEN m.mid ELSE a.lo,
        hi    |-> IF m.mid > a.hi THEN m.mid ELSE a.hi,
        ids   |-> a.ids \cup {i}]

\* A window takes snapshots until the watermark has passed its end.
Closed(w, mark) == End(w) <= mark

Opened(wins, w) == IF w \in DOMAIN wins THEN wins[w] ELSE Acc

Put(wins, w, a) == [v \in DOMAIN wins \cup {w} |-> IF v = w THEN a ELSE wins[v]]

NoWins == [w \in {} |-> Acc]

-----------------------------------------------------------------------------
(* The job *)

NoRows == [row |-> {}, dead |-> {}, minute |-> {}]

\* Faulty variant: the windows of the checkpoint are not restored.
StartedEmpty(pos, wins, restarts) ==
  [at |-> "running", pos |-> pos, hold |-> NoRows, wins |-> NoWins, seen |-> 0,
   mark |-> 0, tries |-> [s \in DOMAIN NoRows |-> 0], restarts |-> restarts]

\* A job that starts to read at pos with the windows of a checkpoint.  The
\* watermark is no part of a checkpoint: it begins anew.
Started(pos, wins, restarts) ==
  [at |-> "running", pos |-> pos, hold |-> NoRows, wins |-> wins, seen |-> 0,
   mark |-> 0, tries |-> [s \in DOMAIN NoRows |-> 0], restarts |-> restarts]

StartAt ==
  IF ckpt.pos # NoOffset THEN ckpt.pos
  ELSE IF committed # NoOffset THEN committed ELSE Reset

NoCkpt == [pos |-> NoOffset, wins |-> NoWins]

SJInit ==
  /\ kind \in Jobs /\ topic = <<>> /\ committed = NoOffset /\ ckpt = NoCkpt
  /\ job = Started(0, NoWins, 0) /\ spent = 0
  /\ stored = [row |-> {}, dead |-> {}, minute |-> EmptyBag, young |-> {},
              marked |-> FALSE]
  /\ past = [skipped |-> 0, taken |-> {}, lost |-> FALSE, anew |-> FALSE, again |-> 0]

Arrive ==
  /\ Len(topic) < MaxMessages
  /\ \E m \in Arrivals : topic' = Append(topic, m)
  /\ UNCHANGED <<kind, job, ckpt, committed, stored, past, spent>>

\* One message through the parser into the sinks and the window.
Consume ==
  /\ job.at = "running" /\ job.pos < Len(topic)
  /\ Cardinality(job.hold.row) < BatchSize
  /\ LET i == job.pos + 1  m == topic[i]  w == Window(m.t)
         took == kind = "orderbook" /\ Parse(m) = "row" /\ ~Closed(w, job.mark)
     IN  /\ job' = [job EXCEPT
               !.pos = i,
               !.hold.row  = IF Parse(m) = "row" THEN @ \cup {i} ELSE @,
               !.hold.dead = IF Parse(m) = "dead" THEN @ \cup {i} ELSE @,
               !.seen = IF Parse(m) = "row" /\ m.t > @ THEN m.t ELSE @,
               !.wins = IF took THEN Put(@, w, Add(Opened(@, w), m, i)) ELSE @]
         /\ past' = IF took THEN [past EXCEPT !.taken = @ \cup {i}] ELSE past
  /\ UNCHANGED <<kind, topic, ckpt, committed, stored, spent>>

\* The watermark is emitted periodically and closes the windows behind it.
Advance ==
  /\ job.at = "running" /\ kind = "orderbook" /\ job.seen - Late > job.mark
  /\ LET mark == job.seen - Late
         shut == {w \in DOMAIN job.wins : Closed(w, mark)}
         rows == {[w |-> w, acc |-> job.wins[w]] : w \in {v \in shut : job.wins[v].n > 0}}
     IN  job' = [job EXCEPT !.mark = mark,
                            !.wins = [w \in DOMAIN @ \ shut |-> @[w]],
                            !.hold.minute = @ \cup rows]
  /\ UNCHANGED <<kind, topic, ckpt, committed, stored, past, spent>>

\* Rows with these keys get a newer flink_ts, the version that wins.
Inserted(keys) ==
  [stored EXCEPT !.row = @ \cup keys,
                 !.young = IF stored.marked THEN @ \cup keys ELSE @]

\* What a sink holds is in the store; minutes once more with every attempt.
Written(s) ==
  CASE s = "row" -> Inserted({Key(topic[i]) : i \in job.hold.row})
    [] s = "dead" -> [stored EXCEPT !.dead = @ \cup job.hold.dead]
    [] s = "minute" -> [stored EXCEPT !.minute = @ (+) SetToBag(job.hold.minute)]

\* Faulty variant: there is always another restart.
DownAgain == [Started(0, NoWins, job.restarts) EXCEPT !.at = "down"]

\* After MaxRestarts failures the job stays down.
Down == [Started(0, NoWins, job.restarts) EXCEPT
           !.at = IF job.restarts < MaxRestarts THEN "down" ELSE "failed"]

\* A sink flushes: its batch is full, its interval is over, or a checkpoint asks
\* for it.
Flush(s) ==
  /\ job.at = "running" /\ job.hold[s] # {}
  /\ stored' = Written(s)
  /\ job' = [job EXCEPT !.hold[s] = {}, !.tries[s] = 0]
  /\ UNCHANGED <<kind, topic, ckpt, committed, past, spent>>

\* The statement fails, before or after it took effect; the batch is kept for
\* the next attempt, and the last attempt fails the job.
FlushFails(s, effective) ==
  /\ job.at = "running" /\ job.hold[s] # {} /\ spent < MaxFaults
  /\ spent' = spent + 1
  /\ stored' = IF effective THEN Written(s) ELSE stored
  /\ job' = IF job.tries[s] < MaxRetries THEN [job EXCEPT !.tries[s] = @ + 1] ELSE Down
  /\ past' = IF effective /\ s = "minute" THEN [past EXCEPT !.again = @ + 1] ELSE past
  /\ UNCHANGED <<kind, topic, ckpt, committed>>

\* Faulty variant: the offset is saved while the sinks still hold rows.
CheckpointEarly(commits) ==
  /\ job.at = "running" /\ job.pos # ckpt.pos
  /\ commits \/ spent < MaxFaults
  /\ ckpt' = [pos |-> job.pos, wins |-> job.wins]
  /\ committed' = IF commits THEN job.pos ELSE committed
  /\ job' = IF commits THEN job ELSE Down
  /\ spent' = IF commits THEN spent ELSE spent + 1
  /\ UNCHANGED <<kind, topic, stored, past>>

\* A checkpoint: the sinks have flushed, the source and the windows are saved; the
\* source then commits its offset, unless the job dies first.
Checkpoint(commits) ==
  /\ job.at = "running" /\ job.hold = NoRows /\ job.pos # ckpt.pos
  /\ commits \/ spent < MaxFaults
  /\ ckpt' = [pos |-> job.pos, wins |-> job.wins]
  /\ committed' = IF commits THEN job.pos ELSE committed
  /\ job' = IF commits THEN job ELSE Down
  /\ spent' = IF commits THEN spent ELSE spent + 1
  /\ UNCHANGED <<kind, topic, stored, past>>

\* A TaskManager is lost.
Crash ==
  /\ job.at = "running" /\ spent < MaxFaults
  /\ spent' = spent + 1 /\ job' = Down
  /\ UNCHANGED <<kind, topic, ckpt, committed, stored, past>>

\* History: a start at pos.  What was read beyond pos is read again; a start that
\* nothing tells where to begin skips what is there.
Began(pos, known, kept) ==
  [skipped |-> IF known \/ kind = "binance" THEN past.skipped ELSE Len(topic),
   taken |-> {i \in past.taken : i <= pos}, lost |-> past.lost \/ ~kept, anew |-> TRUE,
   again |-> past.again]

\* Faulty variant: there is no restart before the first checkpoint.
RestartFromCheckpoint ==
  /\ job.at = "down" /\ ckpt.pos # NoOffset
  /\ job' = Started(StartAt, ckpt.wins, job.restarts + 1)
  /\ past' = Began(StartAt, TRUE, TRUE)
  /\ UNCHANGED <<kind, topic, ckpt, committed, stored, spent>>

\* The restart strategy: from the checkpoint, or like a first start.
Restart ==
  /\ job.at = "down"
  /\ job' = Started(StartAt, ckpt.wins, job.restarts + 1)
  /\ past' = Began(StartAt, ckpt.pos # NoOffset \/ committed # NoOffset,
                   ckpt.pos # NoOffset)
  /\ UNCHANGED <<kind, topic, ckpt, committed, stored, spent>>

\* flink-cdc-redeploy.sh stops the job with a savepoint, at which the source
\* commits its offset if it is told in time.
Withdraw(commits) ==
  /\ kind = "cdc" /\ job.at = "running" /\ job.hold = NoRows /\ spent < MaxFaults
  /\ spent' = spent + 1
  /\ ckpt' = [pos |-> job.pos, wins |-> job.wins]
  /\ committed' = IF commits THEN job.pos ELSE committed
  /\ job' = [Started(0, NoWins, 0) EXCEPT !.at = "stopped"]
  /\ UNCHANGED <<kind, topic, stored, past>>

\* It starts the new build from the savepoint, ...
Deploy ==
  /\ job.at = "stopped"
  /\ job' = Started(ckpt.pos, ckpt.wins, 0)
  /\ past' = Began(ckpt.pos, TRUE, TRUE)
  /\ UNCHANGED <<kind, topic, ckpt, committed, stored, spent>>

\* ... or exits before, because the build fails or leaves an old jar, or the new
\* job is refused: the old one stays stopped.
GiveUp ==
  /\ job.at = "stopped"
  /\ job' = [job EXCEPT !.at = "gone"]
  /\ UNCHANGED <<kind, topic, ckpt, committed, stored, past, spent>>

\* Somebody submits a job that failed or is gone again, without its state.
Resubmit ==
  /\ job.at \in {"failed", "gone"}
  /\ ckpt' = NoCkpt
  /\ job' = Started(IF committed # NoOffset THEN committed ELSE Reset, NoWins, 0)
  /\ past' = Began(job'.pos, committed # NoOffset, FALSE)
  /\ UNCHANGED <<kind, topic, committed, stored, spent>>

SJStep ==
  \/ Consume \/ Advance \/ Checkpoint(TRUE) \/ Restart \/ Deploy
  \/ \E s \in DOMAIN NoRows : Flush(s)

SJNext ==
  \/ SJStep \/ Checkpoint(FALSE) \/ Arrive \/ Crash \/ GiveUp \/ Resubmit
  \/ \E commits \in BOOLEAN : Withdraw(commits)
  \/ \E s \in DOMAIN NoRows, effective \in BOOLEAN : FlushFails(s, effective)

-----------------------------------------------------------------------------
(* Properties *)

SJTypeOK ==
  /\ kind \in Jobs /\ Len(topic) <= MaxMessages /\ spent \in 0..MaxFaults
  /\ job.at \in {"running", "down", "stopped", "gone", "failed"}
  /\ job.pos \in 0..Len(topic)
  /\ job.restarts \in 0..MaxRestarts
  /\ \A s \in DOMAIN NoRows : job.tries[s] \in 0..MaxRetries
  /\ Cardinality(job.hold.row) <= BatchSize /\ job.hold.row \cup job.hold.dead \subseteq 1..job.pos
  /\ ckpt.pos \in NoOffset..Len(topic) /\ committed \in NoOffset..Len(topic)
  /\ stored.row \subseteq 0..Len(topic) /\ stored.dead \subseteq 1..Len(topic)
  /\ \A w \in DOMAIN job.wins : ~Closed(w, job.mark)

\* The message at i is where the parser wants it, or on the way there.
Kept(i, held) ==
  LET m == topic[i]
  IN  CASE Parse(m) = "row"  -> Key(m) \in stored.row \/ i \in held.row
        [] Parse(m) = "dead" -> i \in stored.dead \/ i \in held.dead
        [] OTHER -> TRUE

\* Nothing the job has read past is missing, whatever failed and restarted in
\* between: it is in the table, in the dead letter topic, or held by a sink.
\* Excused: what was in the topic at a start of a job that had neither a
\* checkpoint nor a committed offset and starts at the end (committedOffsets
\* with LATEST; CdcPipelineJob.java:88 wants no loss at a restart).
NothingSkipped ==
  job.at = "running" => \A i \in (past.skipped + 1)..job.pos : Kept(i, job.hold)

\* The minute row of what was held in ids: a definition that does not fold.
Reference(ids) ==
  LET S == {i \in ids : topic[i].mid # 0}
      T == {topic[i].t : i \in S}  P == {topic[i].mid : i \in S}
      first == CHOOSE t \in T : \A u \in T : t <= u
      last == CHOOSE t \in T : \A u \in T : u <= t
  IN  [n |-> Cardinality(S), first |-> first, last |-> last, ids |-> ids,
       open  |-> topic[CHOOSE i \in S : topic[i].t = first /\ \A j \in S : topic[j].t = first => i <= j].mid,
       close |-> topic[CHOOSE i \in S : topic[i].t = last /\ \A j \in S : topic[j].t = last => j <= i].mid,
       lo |-> CHOOSE p \in P : \A q \in P : p <= q,
       hi |-> CHOOSE p \in P : \A q \in P : q <= p]

Filed == BagToSet(stored.minute)

MinuteRows == Filed \cup job.hold.minute

\* How often a row is in the table or on its way there.
Copies(r) ==
  (IF r \in Filed THEN stored.minute[r] ELSE 0) + (IF r \in job.hold.minute THEN 1 ELSE 0)

\* A minute row is the summary of snapshots of its minute, in whatever order
\* they came.  As long as the job was never restarted a minute has one such row,
\* in one copy and one more for every batch that was written, reported as failed
\* and sent again.  (orderbook_1m is a plain MergeTree.  A restart forgets the
\* watermark: a late snapshot then makes another row of a minute already
\* written.)
MinuteExact ==
  \A r \in MinuteRows :
    /\ r.acc = Reference(r.acc.ids) /\ \A i \in r.acc.ids : Window(topic[i].t) = r.w
    /\ ~past.anew => /\ \A q \in MinuteRows : q.w = r.w => q = r
                     /\ Copies(r) <= 1 + past.again

\* A snapshot that was in time is in a row of its minute, or will be: restarts
\* lose none unless the state of the windows is lost with them.
MinuteComplete ==
  job.at = "running" /\ ~past.lost =>
    \A i \in past.taken :
      topic[i].mid # 0 =>
        \/ \E w \in DOMAIN job.wins : i \in job.wins[w].ids
        \/ \E r \in MinuteRows : i \in r.acc.ids

\* Every message gets where it belongs, unless a start skipped it or the job
\* waits for somebody: it used up its restarts, or a redeployment stopped it and
\* exited before it started the new build.
MessagesLand ==
  []<>(\/ job.at \in {"failed", "gone"}
       \/ \A i \in (past.skipped + 1)..Len(topic) : Kept(i, NoRows))
=============================================================================
