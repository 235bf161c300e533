----------------------------- MODULE HealthCheck -----------------------------
(* The Airflow DAG health_check: sixteen checks, the verdict over them, the
   alert table that is both the log of what was sent and the filter that
   suppresses repetitions for an hour, the escalation of critical incidents to
   a second channel, and the self-healing of the CDC connector.

   Time is a tick per run of the DAG (ten minutes).  Rows of alert_events carry
   their age in ticks; no query looks further back than Window, so older rows
   are dropped.  The environment (world) is what the checks look at. *)
EXTENDS Naturals, FiniteSets

CONSTANTS
  Checks,         \* the checks of this instance, a subset of the sixteen
  Hour,           \* a name is sent at most once within Hour ticks
  EscalateAfter,  \* ESCALATE_AFTER_MIN in ticks
  Window,         \* how far escalate_persistent looks back (6 hours)
  MaxFaults       \* bound: failed posts, statements and killed tasks

ASSUME HealthAssumption ==
  /\ Checks \subseteq {"ingest", "flink", "kafka", "producer", "lag", "coverage",
       "connect", "busy", "insert", "parse", "ledger", "binance", "collector",
       "fresh", "backup", "conlag"}
  /\ Hour \in Nat /\ EscalateAfter \in Nat /\ Window \in Nat
  /\ EscalateAfter <= Hour /\ Hour < Window
  /\ MaxFaults \in Nat

VARIABLES
  world,   \* what the checks see: host, ClickHouse, feed, connector, the rest
  alerts,  \* alert_events: rows [name, source, age]
  run,     \* the current run: step, local variables, retries
  trail,   \* per name, what the property needs of the past
  calm,    \* ticks since the last fault of the alert table or a killed task
  faults

hcVars == <<world, alerts, run, trail, calm, faults>>

-----------------------------------------------------------------------------
(* From results to names *)

\* <<check, result, name>>: _evaluate_health adds name to unhealthy when the
\* check returned result.  A result not listed is silent.
AlertTable ==
  { <<"backup",    "unreachable", "Backup Freshness">>,
    <<"backup",    "old",     "Backup Freshness">>,
    <<"backup",    "full",    "Backup Volume">>,
    <<"conlag",    "empty",   "Consumer Lag">>,
    <<"conlag",    "bad",     "Consumer Lag">>,
    <<"fresh",     "bad",     "Mart Freshness">>,
    <<"collector", "empty",   "Binance Collector Lag">>,
    <<"collector", "bad",     "Binance Collector Lag">>,
    <<"binance",   "bad",     "Binance Ingest">>,
    <<"binance",   "late",    "Binance Ingest Lag">>,
    <<"ledger",    "bad",     "Ledger Reconcile">>,
    <<"ledger",    "late",    "Ledger Reconcile Stale">>,
    <<"parse",     "bad",     "CDC Parse Failures">>,
    <<"busy",      "bad",     "Flink Source Saturation">>,
    <<"insert",    "bad",     "ClickHouse Insert Latency">>,
    <<"insert",    "stall",   "ClickHouse Insert Stall">>,
    <<"coverage",  "bad",     "Market Coverage">>,
    <<"lag",       "bad",     "Ingest Lag">>,
    <<"ingest",    "bad",     "ClickHouse Ingest">>,
    <<"ingest",    "empty",   "ClickHouse">>,
    <<"flink",     "bad",     "Flink Jobs">>,
    <<"kafka",     "bad",     "Kafka/Pipeline">>,
    <<"producer",  "bad",     "Upbit Producer">>,
    <<"connect",   "bad",     "Kafka Connect">> }

Unhealthy(res) ==
  {a[3] : a \in {b \in AlertTable : b[1] \in Checks /\ res[b[1]] = b[2]}}

Names == {a[3] : a \in {b \in AlertTable : b[1] \in Checks}}

\* CRITICAL_NAMES.  "Producer Activity" and "Kafka Health" are listed there and
\* raised by no check.
CriticalNames ==
  {"Binance Ingest", "Producer Activity", "Upbit Producer", "ClickHouse Ingest",
   "Kafka Health", "Kafka Connect", "Flink Jobs", "Mart Freshness",
   "Backup Freshness", "Consumer Lag", "Backup Volume"}

Critical == Names \cap CriticalNames

-----------------------------------------------------------------------------
(* The checks *)

\* ClickHouseOperator.execute lets every error of its hook through.
StoreChecks == Checks \cap
  {"ingest", "kafka", "producer", "lag", "ledger", "fresh", "conlag", "binance",
   "collector", "insert"}

\* These catch their own errors and return an unhealthy result instead.
GuardedChecks == Checks \cap {"flink", "connect", "backup"}

\* Trades reach ClickHouse: the exchange feed is alive and the connector works.
Flowing == world.feed /\ world.conn = "running"

\* What the environment may show a check other than producer and connect.
Outcomes(c) ==
  {"good"} \cup {a[2] : a \in {b \in AlertTable : b[1] = c}}
           \cup (IF c \in GuardedChecks \cup StoreChecks THEN {} ELSE {"raised"})

ConnectResult == IF world.conn = "failed" THEN "bad" ELSE "good"

ProducerResult == IF Flowing THEN "good" ELSE "bad"

Results ==
  [c \in Checks |->
     IF c \in StoreChecks /\ ~world.store THEN "raised"
     ELSE IF c = "connect" THEN ConnectResult
     ELSE IF c = "producer" THEN ProducerResult
     ELSE world.rest[c]]

\* check_kafka_connect restarts a connector or a task that is not RUNNING.  A
\* ghost reports RUNNING.
RestartDue == "connect" \in Checks /\ world.conn = "failed"

\* Faulty variant: only a connector that reports FAILED is restarted.
RestartedIfFailed(works) ==
  [world EXCEPT !.conn = IF works /\ @ = "failed" THEN "running" ELSE @]

\* A restart over the REST API of Connect; it may fail like any call.
Restarted(works) == [world EXCEPT !.conn = IF works THEN "running" ELSE @]

Idle == [at |-> "due", res |-> [c \in Checks |-> "good"], names |-> {},
         send |-> {}, out |-> [esc |-> {}, rec |-> {}], tries |-> 0]

Blank == [since |-> Hour + 1, inc |-> 0, fresh |-> TRUE, esc |-> 0,
          open |-> FALSE]

HCInit ==
  /\ world = [host |-> TRUE, store |-> TRUE, feed |-> TRUE, conn |-> "running",
              rest |-> [c \in Checks \ {"producer", "connect"} |-> "good"]]
  /\ alerts = {} /\ run = Idle /\ calm = Window + 1 /\ faults = 0
  /\ trail = [n \in Names |-> Blank]

\* An incident that is under way is no longer an undisturbed one.
Interrupted(t) == [t EXCEPT !.fresh = @ /\ t.inc = 0]

AtMost(k, cap) == IF k > cap THEN cap ELSE k

Pay(ok) == /\ ok \/ faults < MaxFaults
           /\ faults' = IF ok THEN faults ELSE faults + 1

\* calm restarts when the alert table misses what was sent.
Keep(ok) == Pay(ok) /\ calm' = IF ok THEN calm ELSE 0

-----------------------------------------------------------------------------
(* The alert table *)

Ages(n, src) == {r.age : r \in {q \in alerts : q.name = n /\ q.source = src}}

First(S) == CHOOSE a \in S : \A b \in S : b <= a
Last(S) == CHOOSE a \in S : \A b \in S : a <= b

Insert(names, src) ==
  alerts' = alerts \cup [name : names, source : {src}, age : {0}]

\* Faulty variant: any row of the name counts, recoveries and escalations too.
RecentAny == {r.name : r \in {q \in alerts : q.age <= Hour}}

\* Sent within the last hour, by the health check itself.
Recent == {n \in Names : \E a \in Ages(n, "health_check") : a <= Hour}

\* Faulty variant: the incident is as old as its newest alert.
StartNewest(n) == Last(Ages(n, "health_check"))

\* escalate_persistent: age of the first alert of the incident, which is the
\* oldest row in the window when it is younger than the last recovery and the
\* newest row otherwise.
Start(n) ==
  LET fired == Ages(n, "health_check")  rec == Ages(n, "recovery")
  IN  IF rec = {} \/ First(fired) < Last(rec) THEN First(fired) ELSE Last(fired)

ToEscalate(names) ==
  {n \in names \cap CriticalNames :
     /\ Ages(n, "health_check") # {}
     /\ Start(n) >= EscalateAfter
     /\ \A a \in Ages(n, "escalation") : a > Start(n)}

\* Faulty variant: an earlier recovery message is not looked for.
ToRecoverAgain(names) == {n \in Names \ names : Ages(n, "escalation") # {}}

ToRecover(names) ==
  {n \in Names \ names :
     LET esc == Ages(n, "escalation")  rec == Ages(n, "recovery")
     IN  esc # {} /\ (rec = {} \/ Last(rec) > Last(esc))}

-----------------------------------------------------------------------------
(* One run of the DAG *)

\* All checks run; one that raises (after its retry) keeps evaluate_health from
\* running at all: the tasks are joined by all_success.
RunChecks(works) ==
  /\ run.at = "due" /\ world.host
  /\ works \/ RestartDue
  /\ world' = IF RestartDue THEN Restarted(works) ELSE world
  /\ LET raised == \E c \in Checks : Results[c] = "raised"
     IN  /\ run' = [Idle EXCEPT !.at = IF raised THEN "failed" ELSE "judge",
                                !.res = Results]
         /\ trail' = IF raised
                     THEN [n \in Names |-> Interrupted(trail[n])]
                     ELSE trail
  /\ Pay(works) /\ UNCHANGED <<alerts, calm>>

\* What the history keeps of a verdict: when n was last sent, how long it has
\* been unhealthy, whether the table knew nothing of it when that began.
Noted(n, names, send) ==
  [since |-> IF n \in send THEN 0 ELSE trail[n].since,
   inc   |-> IF n \notin names THEN 0
             ELSE IF trail[n].inc = 0 THEN 1 ELSE trail[n].inc,
   fresh |-> n \notin names
             \/ (trail[n].fresh /\ (trail[n].inc = 0 => \A r \in alerts : r.name # n)),
   esc   |-> IF n \in names THEN trail[n].esc ELSE 0,
   open  |-> trail[n].open]

\* _evaluate_health up to the post: the verdict, the restart of a silent
\* connector, the lookup (which fails open) and what is due.
Evaluate(found, works) ==
  /\ run.at = "judge"
  /\ LET names == Unhealthy(run.res)
         send == IF found THEN names \ Recent ELSE names
         silent == "Upbit Producer" \in names
     IN  /\ found \/ names # {}
         /\ works \/ silent
         /\ world' = IF silent THEN Restarted(works) ELSE world
         /\ run' = [run EXCEPT !.at = IF names = {} THEN "escalate" ELSE "post",
                               !.names = names, !.send = send]
         /\ trail' = [n \in Names |-> Noted(n, names, send)]
  /\ calm' = IF found THEN calm ELSE 0
  /\ Pay(found /\ works) /\ UNCHANGED alerts

\* send_health_alert swallows its errors.
Post(ok) ==
  /\ run.at = "post"
  /\ ok \/ run.send # {}
  /\ run' = [run EXCEPT !.at = "record"]
  /\ Pay(ok) /\ UNCHANGED <<world, alerts, trail, calm>>

\* Faulty variant: everything that was found is recorded, sent or not.
RecordAll(ok) ==
  /\ run.at = "record"
  /\ run' = [run EXCEPT !.at = "escalate"]
  /\ IF ok THEN Insert(run.names, "health_check") ELSE UNCHANGED alerts
  /\ trail' = IF ok THEN trail ELSE [n \in Names |-> Interrupted(trail[n])]
  /\ Keep(ok) /\ UNCHANGED world

\* What was sent is recorded whether or not Slack took it; a failed statement
\* is swallowed.
Record(ok) ==
  /\ run.at = "record"
  /\ run' = [run EXCEPT !.at = "escalate"]
  /\ IF ok THEN Insert(run.send, "health_check") ELSE UNCHANGED alerts
  /\ trail' = IF ok THEN trail ELSE [n \in Names |-> Interrupted(trail[n])]
  /\ Keep(ok) /\ UNCHANGED world

\* escalate_persistent up to its statement; only what the channel took counts.
Escalate(ok) ==
  /\ run.at = "escalate"
  /\ LET esc == IF ok THEN ToEscalate(run.names) ELSE {}
         rec == IF ok THEN ToRecover(run.names) ELSE {}
     IN  /\ run' = [run EXCEPT !.at = IF esc \cup rec = {} THEN "done" ELSE "stamp",
                               !.out = [esc |-> esc, rec |-> rec]]
         /\ trail' = [n \in Names |->
              [trail[n] EXCEPT !.esc = IF n \in esc THEN AtMost(@ + 1, 2) ELSE @,
                               !.open = (@ \/ n \in esc) /\ n \notin rec,
                               !.fresh = @ /\ ok]]
  /\ Keep(ok) /\ UNCHANGED <<world, alerts>>

Stamp(ok) ==
  /\ run.at = "stamp"
  /\ run' = [run EXCEPT !.at = "done"]
  /\ alerts' = IF ok
               THEN alerts \cup [name : run.out.esc, source : {"escalation"}, age : {0}]
                           \cup [name : run.out.rec, source : {"recovery"}, age : {0}]
               ELSE alerts
  /\ trail' = IF ok THEN trail ELSE [n \in Names |-> Interrupted(trail[n])]
  /\ Keep(ok) /\ UNCHANGED world

\* The worker dies inside evaluate_health; Airflow runs the task once more from
\* the start, on the results the checks left, and then gives up.
Killed ==
  /\ run.at \in {"post", "record", "escalate", "stamp"}
  /\ run' = [run EXCEPT !.at = IF run.tries = 0 THEN "judge" ELSE "failed",
                        !.tries = 1, !.out = Idle.out]
  /\ trail' = [n \in Names |-> Interrupted(trail[n])]
  /\ Keep(FALSE) /\ UNCHANGED <<world, alerts>>

\* task_failure_callback; Slack may drop it.
Callback(ok) ==
  /\ run.at = "failed"
  /\ run' = [run EXCEPT !.at = "done"]
  /\ Pay(ok) /\ UNCHANGED <<world, alerts, trail, calm>>

\* Ten minutes pass.
HCTick ==
  /\ run' = Idle
  /\ alerts' = {[r EXCEPT !.age = @ + 1] : r \in {q \in alerts : q.age < Window}}
  /\ calm' = AtMost(calm + 1, Window + 1)
  /\ trail' = [n \in Names |->
       [(IF run.at = "done" THEN trail[n] ELSE Interrupted(trail[n]))
          EXCEPT !.since = AtMost(@ + 1, Hour + 1),
                 !.inc = IF @ = 0 THEN 0 ELSE AtMost(@ + 1, Window + 2),
                 !.open = @ /\ \E a \in Ages(n, "escalation") : a < Window]]
  /\ UNCHANGED <<world, faults>>

-----------------------------------------------------------------------------
(* Properties *)

\* A name is in the message exactly when it was not sent within the last hour:
\* the table neither lets a lasting problem ring every ten minutes nor, by
\* recording what it suppressed, silences it for good (the lookup, the post and
\* the insert of _evaluate_health).  Excused: an hour after a failed lookup, a
\* failed insert or a killed task.
SentHourly ==
  [][run.at = "judge" /\ calm' > Hour =>
       \A n \in run'.names : n \in run'.send <=> trail[n].since > Hour]_hcVars

\* An incident nobody knew of before is escalated at the first run after
\* EscalateAfter, not earlier, and once as long as the window sees its
\* beginning (escalate_persistent on rows that are suppressed for an hour).
EscalatedInTime ==
  run.at = "done" =>
    \A n \in Critical :
      trail[n].fresh /\ trail[n].inc \in 1..(Window + 1) =>
        trail[n].esc = IF trail[n].inc > EscalateAfter THEN 1 ELSE 0

\* The all-clear answers an escalation: after an undisturbed run no escalation
\* the table knows of is left open on a healthy name, and no all-clear is sent
\* for a name without an open escalation.
ClearedOnce ==
  [][/\ run.at = "escalate" /\ run'.at = "done" /\ calm' > Window
          => \A n \in Names : trail'[n].open => n \in run.names
     /\ run.at = "escalate" /\ run'.at = "stamp" /\ calm' > Window
          => \A n \in run'.out.rec : trail[n].open]_hcVars

\* The documented rule: one escalation per incident.
EscalatedOnce == \A n \in Critical : trail[n].esc <= 1

=============================================================================
