------------------------------- MODULE Reprocess -------------------------------
(* reprocess-day.sh: a second, bounded run of the CDC job over the messages of a
   past window, beside the live job, and the verdict of the script.  The script
   reads by arrival, the window is one of trade times, so it reads a margin
   more on both sides; the time of arrival of a message is its place in the
   topic. *)
EXTENDS StreamJob

CONSTANTS From, To,  \* the window, in trade times
          Margin     \* REPROCESS_MARGIN_MIN

ASSUME ReprocessAssumption == From \in Nat \ {0} /\ To \in Nat /\ From <= To /\ Margin \in Nat

VARIABLE rp  \* the script and its job

rpVars == <<rp>>

First == IF From > Margin THEN From - Margin ELSE 1

\* Faulty variant: no margin behind the window.
StopAtTo == To

Stop == To + Margin

RPInit == rp = [at |-> "idle", job |-> "none", before |-> {}]

\* The trades with a time in the window, as far as they are in the topic.
Asked == {i \in 1..Len(topic) : topic[i].is = "row" /\ topic[i].t \in From..To}

\* crypto_trades FINAL of the window.
Content == stored.row \cap {topic[i].key : i \in Asked}

\* Rows of the window older than the start of the job.
NotCovered == Content \ stored.young

\* The snapshot of the window, the mark, the submission; the window and its
\* margin are in the past, for the live job too, and in the topic still.
Begin ==
  /\ kind = "cdc" /\ rp.at = "idle" /\ job.at = "running" /\ job.pos >= Stop /\ job.hold = NoRows
  /\ rp' = [at |-> "waiting", job |-> "running", before |-> Content]
  /\ stored' = [stored EXCEPT !.marked = TRUE]
  /\ UNCHANGED <<kind, topic, job, ckpt, committed, past, spent>>

\* The bounded job - the same parser, the same sink - has written what is up to n.
Reread(n) ==
  LET read == {i \in First..n : Parse(topic[i]) = "row"}
      bad == {i \in First..n : Parse(topic[i]) = "dead"}
  IN  stored' = [Inserted({Key(topic[i]) : i \in read}) EXCEPT !.dead = @ \cup bad]

Finish ==
  /\ rp.job = "running" /\ Reread(Stop)
  /\ rp' = [rp EXCEPT !.job = "finished"]
  /\ UNCHANGED <<kind, topic, job, ckpt, committed, past, spent>>

\* On its way it is lost and starts over, or fails for good, or is not done when
\* the script stops to wait and stops the TaskManager it runs on.
Trouble(ends) ==
  /\ rp.job = "running" /\ spent < MaxFaults
  /\ spent' = spent + 1
  /\ \E n \in (First - 1)..Stop : Reread(n)
  /\ rp' = IF ends THEN [rp EXCEPT !.job = "failed"] ELSE rp
  /\ UNCHANGED <<kind, topic, job, ckpt, committed, past>>

\* The verdict looks at the table only, not at the state of the job.
Verdict ==
  IF rp.before = Content /\ NotCovered = {} THEN "passed"
  ELSE IF NotCovered # {} THEN "short" ELSE "differs"

Judge ==
  /\ rp.at = "waiting" /\ rp.job \in {"finished", "failed"}
  /\ rp' = [rp EXCEPT !.at = Verdict]
  /\ UNCHANGED sjVars

RPStep == Begin \/ Finish \/ Judge

RPNext == RPStep \/ \E ends \in BOOLEAN : Trouble(ends)

-----------------------------------------------------------------------------
(* Properties *)

\* Some message of the trade at i came with the window or within the margin.
InReach(i) ==
  \E j \in 1..Len(topic) : /\ From - Margin <= j /\ j <= To + Margin
                           /\ topic[j].is = "row" /\ topic[j].key = topic[i].key

\* A reprocessing whose job finished has repaired the window: every trade of it
\* that came within the margin is in the table, in a row of this run, whatever
\* the live job skipped and wrote meanwhile.  The script asks for a wider margin
\* only if there is a trade that came later than that, as gap fills and backfills
\* may by hours.
ReprocessRepairs ==
  rp.job = "finished" /\ rp.at # "waiting" =>
    /\ \A i \in Asked : InReach(i) => topic[i].key \in stored.row \cap stored.young
    /\ rp.at = "short" => \E i \in Asked : ~InReach(i)
=============================================================================
