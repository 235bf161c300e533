------------------------------- MODULE Notifiers -------------------------------
(* market_alerts_notify and quality_alerts: every few minutes a task looks for
   what is wrong, drops what alert_events already knows by its dedup_key, posts
   the rest in one message and records it.  The first looks at the level changes
   of the last Reach ticks, the second at the latest complete day of each rule,
   which a later day replaces.  A row may get into its table long after the event
   it is of.  The runs of a DAG do not overlap, and none is made up for while it
   is paused; a task that fails runs once more. *)
EXTENDS Naturals, FiniteSets

CONSTANTS
  Alerts,    \* dedup keys: market, type, level, hour - or rule, day
  Reach,     \* how many ticks a row is looked at: 30 minutes, or the latest day
  MaxRows, MaxStops  \* bounds: level changes, failures

ASSUME NotifierAssumption == Reach \in Nat /\ MaxRows \in Nat /\ MaxStops \in Nat

VARIABLES
  rule,     \* "market" or "quality"
  wrong,    \* [n, key, age, runs]: changes in market_alerts, or violated rules; runs,
            \* a history: how many runs ended with the row in their window
  table,    \* dedup keys in alert_events
  task,     \* the run: step, what it is about to post, retries
  told,     \* history: how often a key was handed to Slack
  forgot,   \* history: posted and not recorded, per key
  stops

ntVars == <<rule, wrong, table, task, told, forgot, stops>>

Quiet == [at |-> "due", keys |-> {}, tries |-> 0]

NTInit ==
  /\ rule \in {"market", "quality"} /\ wrong = {} /\ table = {} /\ task = Quiet
  /\ told = [k \in Alerts |-> 0] /\ forgot = [k \in Alerts |-> 0] /\ stops = 0

Changes == Cardinality(wrong)

\* A level rises - a flapping market gives the same key again within the hour -
\* or a rule is violated on a new day; the row is written now, its event is of
\* any age.
GoesWrong(k, age) ==
  /\ task.at = "due" /\ Changes < MaxRows
  /\ rule = "quality" => \A r \in wrong : r.key # k
  /\ wrong' = wrong \cup {[n |-> Changes, key |-> k, age |-> age, runs |-> 0]}
  /\ UNCHANGED <<rule, table, task, told, forgot, stops>>

\* Faulty variant: the window is as short as the period of the runs.
CandidatesNoOverlap == {r \in wrong : r.age < Reach}

\* What a run sees.
Candidates == {r \in wrong : r.age <= Reach}

\* Each key once per message (seen), and not if alert_events has it.
Unsent == {r.key : r \in Candidates} \ table

\* quality_alerts skips a rule whose query fails and judges it an hour later;
\* a failing query of market_alerts_notify fails the task.
Look(readable) ==
  /\ task.at = "due"
  /\ task' = [task EXCEPT !.at = "post", !.keys = Unsent \cap readable]
  /\ IF readable = Alerts THEN UNCHANGED stops
     ELSE rule = "quality" /\ stops < MaxStops /\ stops' = stops + 1
  /\ UNCHANGED <<rule, wrong, table, told, forgot>>

\* send_health_alert swallows a refusal: what was handed to Slack is recorded.
Notify ==
  /\ task.at = "post"
  /\ told' = [k \in Alerts |-> IF k \in task.keys THEN told[k] + 1 ELSE told[k]]
  /\ task' = [task EXCEPT !.at = "record"]
  /\ UNCHANGED <<rule, wrong, table, forgot, stops>>

Enter ==
  /\ task.at = "record"
  /\ table' = table \cup task.keys
  /\ task' = [Quiet EXCEPT !.at = "over"]
  /\ UNCHANGED <<rule, wrong, told, forgot, stops>>

\* A query, the insert or the worker fails; the task starts again, once.
Stopped ==
  /\ task.at \in {"due", "post", "record"} /\ stops < MaxStops
  /\ stops' = stops + 1
  /\ task' = IF task.tries = 0 THEN [Quiet EXCEPT !.tries = 1] ELSE [Quiet EXCEPT !.at = "over"]
  /\ forgot' = [k \in Alerts |-> forgot[k] + (IF task.at = "record" /\ k \in task.keys THEN 1 ELSE 0)]
  /\ UNCHANGED <<rule, wrong, table, told>>

Aged(age, ticks) == IF age + ticks > Reach THEN Reach + 1 ELSE age + ticks

\* The next run is due, after a pause perhaps: catchup is off.
Period(ticks) ==
  /\ task.at = "over" /\ task' = Quiet
  /\ wrong' = {[r EXCEPT !.age = Aged(@, ticks), !.runs = IF r.age <= Reach THEN @ + 1 ELSE @] : r \in wrong}
  /\ UNCHANGED <<rule, table, told, forgot, stops>>

NTNext ==
  \/ Look(Alerts) \/ Notify \/ Enter \/ Stopped
  \/ \E ticks \in 1..(Reach + 1) : Period(ticks)
  \/ \E k \in Alerts : Look(Alerts \ {k}) \/ \E age \in 0..(Reach + 1) : GoesWrong(k, age)

-----------------------------------------------------------------------------
(* Properties *)

\* A key is handed to Slack once, again only after a message that could not be
\* recorded.  A row stays untold only if no run came while it was in the window -
\* it was written too late, or the DAG was paused - or if every one that came
\* failed, and failed again (the overlapping windows of
\* market_alerts_notify.py:37-44, the deduplication within and across messages);
\* a rule is skipped once per failing query.
NotifiedOnce ==
  /\ \A k \in Alerts : told[k] <= 1 + forgot[k]
  /\ \A r \in wrong : told[r.key] = 0 => stops >= (IF rule = "market" THEN 2 ELSE 1) * r.runs
=============================================================================
