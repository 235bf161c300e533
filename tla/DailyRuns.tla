------------------------------- MODULE DailyRuns -------------------------------
(* The two daily verdicts of Airflow: daily_pipeline, which builds the marts,
   validates the coins and sends the report behind a quality gate, and
   reconcile_trades, which compares the day with the candles of the exchange.
   Airflow runs a task when its trigger rule allows, retries it, calls back on a
   final failure and passes XComs; data may still change while a run is under
   way.  Slack may refuse a message, or have no address: the task goes on. *)
EXTENDS Naturals, FiniteSets

CONSTANTS
  Coins,        \* markets
  MinPassRate,  \* QUALITY_GATE_MIN_PASS_RATE
  MaxFetchLoss, \* percentage of markets without candles that fails the fetch
  MaxSlips      \* bound: tasks that fail finally, and changes of the data

ASSUME RunsAssumption ==
  /\ IsFiniteSet(Coins) /\ MinPassRate \in 0..100 /\ MaxFetchLoss \in 0..100 /\ MaxSlips \in Nat

VARIABLES
  kinds,   \* which DAG the run is of
  data,    \* the day in ClickHouse: traded, bad (validation), dup, lost (cells)
  state,   \* of each task
  xcom,    \* what tasks handed on
  posted,  \* what Slack took: "report", "alert", "failure"
  muted,   \* history: what it was handed and did not take
  slips

drVars == <<kinds, data, state, xcom, posted, muted, slips>>

\* Faulty variant: the gate does not wait for the search for duplicates.
UpstreamLoose ==
  IF kinds = "daily"
  THEN [freshness |-> {}, run |-> {"freshness"}, test |-> {"run"}, trigger |-> {"test"},
        coins |-> {"test"}, validate |-> {"coins"}, duplicates |-> {"test"},
        gate |-> {"validate"}, report |-> {"gate"}, send |-> {"report"}]
  ELSE [candles |-> {}, master |-> {"candles"}, build |-> {"master"}, summarize |-> {"build"}]

\* The dependencies at the end of each DAG file.
Upstream ==
  IF kinds = "daily"
  THEN [freshness |-> {}, run |-> {"freshness"}, test |-> {"run"}, trigger |-> {"test"},
        coins |-> {"test"}, validate |-> {"coins"}, duplicates |-> {"test"},
        gate |-> {"validate", "duplicates"}, report |-> {"gate"}, send |-> {"report"}]
  ELSE [candles |-> {}, master |-> {"candles"}, build |-> {"master"}, summarize |-> {"build"}]

Ended(t) == state[t] # "none"

\* all_success, but all_done for summarize.
Triggered(t) ==
  /\ ~Ended(t)
  /\ \A u \in Upstream[t] : IF t = "summarize" THEN Ended(u) ELSE state[u] = "success"

\* A task whose upstream failed or was skipped never runs.
Barred(t) ==
  /\ ~Ended(t) /\ t # "summarize"
  /\ \E u \in Upstream[t] : state[u] \notin {"none", "success"}

Over == \A t \in DOMAIN state : Ended(t)

NoXcom == [coins |-> {}, passed |-> {}, dup |-> FALSE, candles |-> {}]

DRInit ==
  /\ kinds \in {"daily", "reconcile"}
  /\ data \in [traded : SUBSET Coins, bad : SUBSET Coins, dup : BOOLEAN, lost : SUBSET Coins]
  /\ data.bad \subseteq data.traded
  /\ state = [t \in DOMAIN Upstream |-> "none"]
  /\ xcom = NoXcom /\ posted = {} /\ muted = {} /\ slips = 0

\* Late trades and repairs change what the tasks see.
Repair ==
  /\ ~Over /\ slips < MaxSlips /\ slips' = slips + 1
  /\ \/ \E c \in data.bad : data' = [data EXCEPT !.bad = @ \ {c}]
     \/ \E c \in data.traded \ data.bad : data' = [data EXCEPT !.bad = @ \cup {c}]
     \/ data' = [data EXCEPT !.dup = ~@]
     \/ \E c \in data.lost : data' = [data EXCEPT !.lost = @ \ {c}]
  /\ UNCHANGED <<kinds, state, xcom, posted, muted>>

-----------------------------------------------------------------------------
(* What the tasks do *)

\* p among n > 0 in tenths of a percent, rounded.
Rate(p, n) == (2000 * p + n) \div (2 * n)

LineMet(p, n) == Rate(p, n) >= 10 * MinPassRate

\* _quality_gate: duplicates count as one more failed item, and fail the gate by
\* themselves.
GateOpen ==
  LET total == Cardinality(xcom.coins) + (IF xcom.dup THEN 1 ELSE 0)
  IN  /\ total > 0 => LineMet(Cardinality(xcom.passed), total)
      /\ ~xcom.dup

\* The cells of the fetched candles that the ledger does not cover.
Below == xcom.candles \cap data.lost

\* Does the task fail by what it finds; summarize raises after its alert.
Finds(t) ==
  CASE t = "gate"      -> ~GateOpen
    [] t = "build"     -> Below # {}
    [] t = "summarize" -> state.build # "success" \/ Below # {}
    [] OTHER -> FALSE

\* Candles arrive for some markets, and are inserted even if too few did; those
\* of an earlier attempt stay.
Fetched(t) == IF t = "candles" THEN SUBSET Coins ELSE {{}}

TooFew(got) == 100 * Cardinality(Coins \ got) > MaxFetchLoss * Cardinality(Coins)

Handed(t, got) ==
  CASE t = "coins"      -> [xcom EXCEPT !.coins = data.traded]
    [] t = "validate"   -> [xcom EXCEPT !.passed = xcom.coins \ data.bad]
    [] t = "duplicates" -> [xcom EXCEPT !.dup = data.dup]
    [] t = "candles"    -> [xcom EXCEPT !.candles = @ \cup got]
    [] OTHER -> xcom

Posts(t, ok) ==
  (IF t = "send" THEN {"report"} ELSE {})
  \cup (IF t = "summarize" /\ Finds(t) THEN {"alert"} ELSE {})
  \cup (IF ok THEN {} ELSE {"failure"})

\* _send_slack_message: a missing address and a refusal are logged, no more.
Send(messages) ==
  \E refused \in SUBSET messages :
    /\ posted' = posted \cup (messages \ refused)
    /\ muted' = muted \cup refused

-----------------------------------------------------------------------------
(* Steps of the scheduler *)

\* A task comes to its end.  The mapped task over no coin at all is skipped.
Succeed(t) ==
  /\ Triggered(t) /\ ~Finds(t)
  /\ \E got \in Fetched(t) :
       /\ t = "candles" => ~TooFew(got)
       /\ xcom' = Handed(t, got)
  /\ state' = [state EXCEPT ![t] = IF t = "validate" /\ xcom.coins = {} THEN "skipped" ELSE "success"]
  /\ Send(Posts(t, TRUE))
  /\ UNCHANGED <<kinds, data, slips>>

\* It fails for good: by what it finds, or by an error in every attempt, which may
\* come before it posted anything; task_failure_callback tells of it.
Fail(t, error) ==
  /\ Triggered(t)
  /\ IF error THEN slips < MaxSlips /\ slips' = slips + 1 ELSE Finds(t) /\ UNCHANGED slips
  /\ \E got \in Fetched(t) : xcom' = IF t = "candles" THEN Handed(t, got) ELSE xcom
  /\ state' = [state EXCEPT ![t] = "failed"]
  /\ Send(Posts(t, FALSE)) \/ (error /\ Send({"failure"}))
  /\ UNCHANGED <<kinds, data>>

\* upstream_failed and skipped are handed down.
Bar(t) ==
  /\ Barred(t)
  /\ state' = [state EXCEPT ![t] = "barred"]
  /\ UNCHANGED <<kinds, data, xcom, posted, muted, slips>>

DRNext == Repair \/ \E t \in DOMAIN state : Succeed(t) \/ Bar(t) \/ \E error \in BOOLEAN : Fail(t, error)

-----------------------------------------------------------------------------
(* Properties *)

\* What Slack was handed, whether it took it or not.
Tried == posted \cup muted

\* A day is judged.  The report goes out only for a day whose marts were tested,
\* whose coins passed and which was searched for duplicates and had none; without
\* it somebody gets an alarm, unless no coin traded and Airflow skips the rest
\* (the branch of _quality_gate for no results is then never reached) or Slack
\* swallowed the report or the alarm: a swallowed report leaves a green run.  A
\* lost cell whose candle was fetched is sent, whatever became of the dbt build.
DayJudged ==
  /\ kinds = "daily" /\ "report" \in posted =>
       /\ state.test = "success" /\ state.duplicates = "success" /\ ~xcom.dup
       /\ LineMet(Cardinality(xcom.passed), Cardinality(xcom.coins))
  /\ kinds = "daily" /\ Over /\ "report" \notin posted =>
       "failure" \in posted \/ xcom.coins = {} \/ muted \cap {"report", "failure"} # {}
  /\ kinds = "reconcile" /\ Over /\ Below # {} =>
       "failure" \in Tried /\ ("alert" \in Tried \/ slips > 0)
=============================================================================
