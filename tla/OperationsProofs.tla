---------------------------- MODULE OperationsProofs ----------------------------
(* Proofs about Operations for every value of its constants: the label poller, the
   daily verdicts, the notifiers, the swap of the trade table, the onboarding of a
   table and the backup chain, each from an invariant of its own. *)
EXTENDS Operations, Maxima, FiniteSetTheorems, TLAPS

-----------------------------------------------------------------------------
(* The label poller *)

\* The table says of c what the map m says: its state, or that it is not alive.
Agrees(c, m) == IF c \in DOMAIN m THEN book[c] = m[c] ELSE book[c] \notin States

\* The rows of a run take the table from the state file to what the run saw.
RowsComplete ==
  \A c \in Codes :
    IF c \in DOMAIN poll.rows
    THEN poll.rows[c] = IF c \in DOMAIN poll.cur THEN poll.cur[c] ELSE "gone"
    ELSE c \in DOMAIN poll.cur \cup DOMAIN file =>
           c \in DOMAIN poll.cur \cap DOMAIN file /\ poll.cur[c] = file[c]

\* Where the table is not astray it agrees with the state file, but for the rows
\* of a run that has not written the file yet; from the insert on it agrees with
\* what the run saw.
LBInv ==
  /\ poll.at \in {"cron", "insert", "save", "saved"}
  /\ DOMAIN poll = {"at", "cur", "rows", "all"} /\ DOMAIN book = Codes
  /\ poll.at \in {"cron", "insert"} => \A c \in Codes \ astray : Agrees(c, file)
  /\ poll.at = "insert" => RowsComplete
  /\ poll.at = "save" => \A c \in Codes \ (astray \cup DOMAIN poll.rows) : Agrees(c, file)
  /\ poll.at \in {"save", "saved"} => \A c \in Codes \ astray : Agrees(c, poll.cur)
  /\ poll.at = "saved" => file = poll.cur

LEMMA LBStarts == LBInit => LBInv
BY DEF LBInit, LBInv, Asleep, Agrees, Torn, States

LEMMA SnapshotStep ==
  ASSUME LBInv, NEW answered \in SUBSET Codes, Snapshot(answered)
  PROVE  LBInv'
<1> DEFINE cur == [c \in answered |-> real[c]]
           changed == {c \in answered : c \notin DOMAIN file \/ file[c] # cur[c]}
           gone == DOMAIN file \ answered
           rowsNow == [c \in changed \cup gone |-> IF c \in gone THEN "gone" ELSE cur[c]]
<1>1. poll' = [at |-> "insert", cur |-> cur, all |-> answered = Listed, rows |-> rowsNow]
  BY DEF Snapshot
<1>2. UNCHANGED <<book, file, astray>> /\ poll.at = "cron"
  BY DEF Snapshot
<1>3. /\ poll'.at = "insert" /\ poll'.cur = cur /\ poll'.rows = rowsNow
      /\ DOMAIN poll' = {"at", "cur", "rows", "all"}
  BY <1>1
<1>4. DOMAIN cur = answered /\ DOMAIN rowsNow = changed \cup gone
  OBVIOUS
<1>5. RowsComplete'
  BY <1>2, <1>3, <1>4 DEF RowsComplete
<1> QED  BY <1>2, <1>3, <1>5 DEF LBInv, Agrees

\* What the rows say of a market, or the state file of one without a row, is what
\* the run saw.
LEMMA WriteStep ==
  ASSUME LBInv, Write
  PROVE  LBInv'
<1>1. /\ poll.at = "insert" /\ book' = Labelled(poll.rows) /\ poll' = [poll EXCEPT !.at = "save"]
      /\ astray' = astray \ DOMAIN poll.rows /\ file' = file
  BY DEF Write
<1>2. /\ poll'.at = "save" /\ poll'.cur = poll.cur /\ poll'.rows = poll.rows
      /\ DOMAIN poll' = DOMAIN poll
  BY <1>1 DEF LBInv
<1>3. /\ DOMAIN book' = Codes
      /\ \A c \in Codes : book'[c] = IF c \in DOMAIN poll.rows THEN poll.rows[c] ELSE book[c]
  BY <1>1 DEF Labelled
<1>4. RowsComplete /\ \A c \in Codes \ astray : Agrees(c, file)
  BY <1>1 DEF LBInv
<1>5. ASSUME NEW c \in Codes \ (astray' \cup DOMAIN poll'.rows)
      PROVE  Agrees(c, file)'
  BY <1>1, <1>2, <1>3, <1>4 DEF Agrees
<1>6. ASSUME NEW c \in Codes \ astray'
      PROVE  Agrees(c, poll.cur)'
  <2>1. CASE c \in DOMAIN poll.rows
    BY <1>2, <1>3, <1>4, <2>1 DEF Agrees, RowsComplete, States
  <2>2. CASE c \notin DOMAIN poll.rows
    BY <1>1, <1>2, <1>3, <1>4, <2>2 DEF Agrees, RowsComplete
  <2> QED  BY <2>1, <2>2
<1> QED  BY <1>2, <1>3, <1>5, <1>6 DEF LBInv

LEMMA SaveStep ==
  ASSUME LBInv, Save \/ Sleep
  PROVE  LBInv'
<1>1. CASE Save
  <2>1. /\ file' = poll.cur /\ poll'.at = "saved" /\ poll'.cur = poll.cur
        /\ DOMAIN poll' = DOMAIN poll /\ UNCHANGED <<book, astray>> /\ poll.at = "save"
    BY <1>1 DEF Save, LBInv
  <2> QED  BY <2>1 DEF LBInv, Agrees
<1>2. CASE Sleep
  <2>1. poll.at = "saved" /\ poll' = Asleep /\ UNCHANGED <<book, file, astray>>
    BY <1>2 DEF Sleep
  <2> QED  BY <2>1 DEF LBInv, Agrees, Asleep
<1> QED  BY <1>1, <1>2

\* A run that dies leaves the file, or none.
LEMMA RunDies ==
  ASSUME LBInv, WriteFails \/ SaveFails
  PROVE  LBInv'
<1>1. CASE WriteFails
  <2>1. poll.at = "insert" /\ poll' = Asleep /\ UNCHANGED <<book, file, astray>>
    BY <1>1 DEF WriteFails
  <2> QED  BY <2>1 DEF LBInv, Agrees, Asleep
<1>2. CASE SaveFails
  <2>1. poll.at = "save" /\ poll' = Asleep /\ book' = book
    BY <1>2 DEF SaveFails
  <2>2. \A c \in Codes \ astray' : Agrees(c, file)'
    <3>1. CASE file' = file /\ astray' = astray \cup DOMAIN poll.rows
      BY <2>1, <3>1 DEF LBInv, Agrees
    <3>2. CASE file' = Torn /\ astray' = astray \cup {c \in Codes : book[c] \in States}
      BY <2>1, <3>2 DEF Agrees, Torn
    <3> QED  BY <1>2, <3>1, <3>2 DEF SaveFails
  <2> QED  BY <2>1, <2>2 DEF LBInv, Asleep
<1> QED  BY <1>1, <1>2

LEMMA LBKeeps ==
  ASSUME LBInv, LBNext \/ UNCHANGED lbVars
  PROVE  LBInv'
<1>1. CASE UNCHANGED lbVars
  BY <1>1 DEF lbVars, LBInv, Agrees, RowsComplete
<1>2. CASE \E c \in Codes : Move(c)
  BY <1>2 DEF Move, LBInv, Agrees, RowsComplete
<1>3. CASE \E answered \in SUBSET Codes : Snapshot(answered)
  BY <1>3, SnapshotStep
<1>4. CASE Write \/ WriteFails \/ Save \/ SaveFails \/ Sleep
  BY <1>4, WriteStep, SaveStep, RunDies
<1> QED  BY <1>1, <1>2, <1>3, <1>4 DEF LBNext

-----------------------------------------------------------------------------
(* The daily verdicts *)

DailyTasks == {"freshness", "run", "test", "trigger", "coins", "validate", "duplicates", "gate", "report", "send"}
ReconcileTasks == {"candles", "master", "build", "summarize"}
Results == {"success", "failed", "skipped", "barred"}

LEMMA DailyUpstream ==
  ASSUME kinds = "daily"
  PROVE  /\ DOMAIN Upstream = DailyTasks
         /\ Upstream["freshness"] = {} /\ Upstream["run"] = {"freshness"} /\ Upstream["test"] = {"run"}
         /\ Upstream["coins"] = {"test"} /\ Upstream["validate"] = {"coins"} /\ Upstream["trigger"] = {"test"}
         /\ Upstream["duplicates"] = {"test"} /\ Upstream["gate"] = {"validate", "duplicates"}
         /\ Upstream["report"] = {"gate"} /\ Upstream["send"] = {"report"}
BY DEF Upstream, DailyTasks

LEMMA ReconcileUpstream ==
  ASSUME kinds = "reconcile"
  PROVE  /\ DOMAIN Upstream = ReconcileTasks
         /\ Upstream["candles"] = {} /\ Upstream["master"] = {"candles"}
         /\ Upstream["build"] = {"master"} /\ Upstream["summarize"] = {"build"}
BY DEF Upstream, ReconcileTasks

\* Of every kind of run: the summary had its upstream ended, any other task that
\* ran had it succeed, one that never ran had it fail; a failure was told of.
Ordered ==
  \A t \in DOMAIN state :
    /\ t = "summarize" /\ Ended(t) => \A u \in Upstream[t] : Ended(u)
    /\ t # "summarize" /\ state[t] \in {"success", "failed", "skipped"}
         => \A u \in Upstream[t] : state[u] = "success"
    /\ state[t] = "barred" => \E u \in Upstream[t] : state[u] \in Results \ {"success"}
    /\ state[t] = "skipped" => t = "validate" /\ xcom.coins = {}
    /\ state[t] = "failed" => "failure" \in Tried

DRTypes ==
  /\ kinds \in {"daily", "reconcile"} /\ DOMAIN state = DOMAIN Upstream
  /\ \A t \in DOMAIN state : state[t] \in Results \cup {"none"}
  /\ slips \in Nat /\ DOMAIN xcom = {"coins", "passed", "dup", "candles"}
  /\ DOMAIN data = {"traded", "bad", "dup", "lost"} /\ xcom.coins \subseteq Coins /\ data.traded \subseteq Coins

\* What a gate that is open has seen stands.
DailyInv ==
  kinds = "daily" =>
    /\ "report" \in Tried => state["report"] = "success"
    /\ state["send"] = "success" => "report" \in Tried
    /\ state["validate"] = "success" => xcom.coins # {}
    /\ state["gate"] = "success" => GateOpen

\* The run ends with the summary.
ReconcileInv ==
  kinds = "reconcile" /\ state["summarize"] # "none" /\ Below # {} =>
    "failure" \in Tried /\ ("alert" \in Tried \/ slips > 0)

DRInv == DRTypes /\ Ordered /\ DailyInv /\ ReconcileInv

LEMMA DRStarts == DRInit => DRInv
<1> SUFFICES ASSUME DRInit PROVE DRInv
  OBVIOUS
<1>1. /\ kinds \in {"daily", "reconcile"} /\ DOMAIN state = DOMAIN Upstream
      /\ \A t \in DOMAIN state : state[t] = "none"
      /\ xcom = NoXcom /\ Tried = {} /\ slips = 0
      /\ data \in [traded : SUBSET Coins, bad : SUBSET Coins, dup : BOOLEAN, lost : SUBSET Coins]
  BY DEF DRInit, Tried
<1>2. DRTypes
  BY <1>1 DEF DRTypes, NoXcom
<1>3. Ordered
  BY <1>1 DEF Ordered, Ended
<1>4. DailyInv
  <2>1. kinds = "daily" => {"send", "validate", "gate"} \subseteq DOMAIN state
    BY <1>1, DailyUpstream DEF DailyTasks
  <2> QED  BY <1>1, <2>1 DEF DailyInv
<1>5. ReconcileInv
  <2>1. kinds = "reconcile" => "summarize" \in DOMAIN state
    BY <1>1, ReconcileUpstream DEF ReconcileTasks
  <2> QED  BY <1>1, <2>1 DEF ReconcileInv
<1> QED  BY <1>2, <1>3, <1>4, <1>5 DEF DRInv

\* The summary is the last task.
LEMMA SummaryLast ==
  ASSUME DRInv, kinds = "reconcile", state["summarize"] # "none"
  PROVE  Over
<1>1. DOMAIN state = ReconcileTasks
  BY ReconcileUpstream DEF DRInv, DRTypes
<1>2. Ended("build")
  BY <1>1, ReconcileUpstream DEF DRInv, Ordered, Ended, ReconcileTasks
<1>3. Ended("master")
  BY <1>1, <1>2, ReconcileUpstream DEF DRInv, DRTypes, Ordered, Ended, ReconcileTasks, Results
<1>4. Ended("candles")
  BY <1>1, <1>3, ReconcileUpstream DEF DRInv, DRTypes, Ordered, Ended, ReconcileTasks, Results
<1> QED  BY <1>1, <1>2, <1>3, <1>4 DEF Over, Ended, ReconcileTasks

\* A repair: the run has not come to its end, so its summary has not.
LEMMA RepairStep ==
  ASSUME DRInv, Repair
  PROVE  DRInv'
<1>1. /\ UNCHANGED <<kinds, state, xcom, Tried>> /\ slips' = slips + 1 /\ ~Over
      /\ DOMAIN data' = DOMAIN data /\ data'.traded = data.traded
  BY DEF Repair, DRInv, DRTypes, Tried
<1>2. Upstream' = Upstream
  BY <1>1 DEF Upstream
<1>3. DRTypes' /\ Ordered'
  BY <1>1, <1>2 DEF DRInv, DRTypes, Ordered, Ended
<1>4. DailyInv'
  BY <1>1 DEF DRInv, DailyInv, GateOpen
<1>5. kinds = "reconcile" => state["summarize"] = "none"
  BY <1>1, SummaryLast
<1>6. ReconcileInv'
  BY <1>1, <1>5 DEF ReconcileInv
<1> QED  BY <1>3, <1>4, <1>6 DEF DRInv

LEMMA UpstreamIn ==
  ASSUME kinds \in {"daily", "reconcile"}, NEW t \in DOMAIN Upstream
  PROVE  Upstream[t] \subseteq DOMAIN Upstream
<1>1. CASE kinds = "daily"
  BY <1>1, DailyUpstream DEF DailyTasks
<1>2. CASE kinds = "reconcile"
  BY <1>2, ReconcileUpstream DEF ReconcileTasks
<1> QED  BY <1>1, <1>2

\* A task ends as its upstream allows.
LEMMA TaskEnds ==
  ASSUME DRInv, NEW t \in DOMAIN state, NEW r \in Results, state[t] = "none",
         kinds' = kinds, data' = data, state' = [state EXCEPT ![t] = r],
         Tried \subseteq Tried', slips' \in Nat,
         DOMAIN xcom' = DOMAIN xcom, xcom'.coins \subseteq Coins,
         t = "summarize" => r # "barred" /\ \A u \in Upstream[t] : Ended(u),
         t # "summarize" /\ r # "barred" => \A u \in Upstream[t] : state[u] = "success",
         r = "barred" => \E u \in Upstream[t] : state[u] \in Results \ {"success"},
         r = "skipped" => t = "validate" /\ xcom'.coins = {},
         r = "failed" => "failure" \in Tried',
         state["validate"] = "skipped" => xcom'.coins = xcom.coins
  PROVE  DRTypes' /\ Ordered'
<1>1. Upstream' = Upstream /\ DOMAIN state' = DOMAIN state /\ DOMAIN state = DOMAIN Upstream
  BY DEF Upstream, DRInv, DRTypes
<1>2. \A u \in DOMAIN state : state'[u] = IF u = t THEN r ELSE state[u]
  OBVIOUS
<1>3. DRTypes'
  BY <1>1, <1>2 DEF DRInv, DRTypes
<1>4. \A v \in DOMAIN state : Upstream[v] \subseteq DOMAIN state
  BY <1>1, UpstreamIn DEF DRInv, DRTypes
<1>5. \A u \in DOMAIN state : Ended(u) => state'[u] = state[u] /\ u # t
  BY <1>2 DEF Ended
<1>6. ASSUME NEW v \in DOMAIN state
      PROVE  /\ v = "summarize" /\ Ended(v)' => \A u \in Upstream[v] : Ended(u)'
             /\ v # "summarize" /\ state'[v] \in {"success", "failed", "skipped"}
                  => \A u \in Upstream[v] : state'[u] = "success"
             /\ state'[v] = "barred" => \E u \in Upstream[v] : state'[u] \in Results \ {"success"}
             /\ state'[v] = "skipped" => v = "validate" /\ xcom'.coins = {}
             /\ state'[v] = "failed" => "failure" \in Tried'
  <2>0. \A u \in Upstream[v] : Ended(u) => state'[u] = state[u] /\ Ended(u)'
    BY <1>4, <1>5 DEF Ended
  <2>1. CASE v = t
    <3>1. state'[v] = r
      BY <1>2, <2>1
    <3> QED  BY <2>0, <2>1, <3>1 DEF Ended, Results
  <2>2. CASE v # t
    <3>1. state'[v] = state[v]
      BY <1>2, <2>2
    <3>2. /\ v = "summarize" /\ Ended(v) => \A u \in Upstream[v] : Ended(u)
          /\ v # "summarize" /\ state[v] \in {"success", "failed", "skipped"}
               => \A u \in Upstream[v] : state[u] = "success"
          /\ state[v] = "barred" => \E u \in Upstream[v] : state[u] \in Results \ {"success"}
          /\ state[v] = "skipped" => v = "validate" /\ xcom.coins = {}
          /\ state[v] = "failed" => "failure" \in Tried
      BY DEF DRInv, Ordered
    <3> QED  BY <2>0, <3>1, <3>2 DEF Ended, Results
  <2> QED  BY <2>1, <2>2
<1>7. Ordered'
  BY <1>1, <1>6 DEF Ordered
<1> QED  BY <1>3, <1>7

\* What the tasks have seen when validation or the gate is behind them.
LEMMA Behind ==
  ASSUME DRInv, kinds = "daily"
  PROVE  /\ state["validate"] \in {"success", "skipped"} => state["coins"] = "success"
         /\ state["gate"] = "success" =>
              /\ state["validate"] = "success" /\ state["duplicates"] = "success"
              /\ state["coins"] = "success" /\ state["test"] = "success"
<1>1. DOMAIN state = DailyTasks
  BY DailyUpstream DEF DRInv, DRTypes
<1>2. \A t \in DailyTasks : t # "summarize" /\ state[t] \in {"success", "failed", "skipped"}
                              => \A u \in Upstream[t] : state[u] = "success"
  BY <1>1 DEF DRInv, Ordered
<1>3. state["validate"] \in {"success", "skipped"} => state["coins"] = "success"
  BY <1>2, DailyUpstream DEF DailyTasks
<1>4. state["gate"] = "success" => state["validate"] = "success" /\ state["duplicates"] = "success"
  BY <1>2, DailyUpstream DEF DailyTasks
<1>5. state["coins"] = "success" => state["test"] = "success"
  BY <1>2, DailyUpstream DEF DailyTasks
<1> QED  BY <1>3, <1>4, <1>5

\* An XCom is set by its task only.
LEMMA HandedOn ==
  ASSUME DRTypes, NEW t \in DOMAIN state, NEW answered \in Fetched(t)
  PROVE  /\ DOMAIN Handed(t, answered) = DOMAIN xcom /\ Handed(t, answered).coins \subseteq Coins
         /\ t # "coins" => Handed(t, answered).coins = xcom.coins
         /\ t \notin {"coins", "validate", "duplicates", "candles"} => Handed(t, answered) = xcom
BY DEF DRTypes, Handed

\* The verdict of a daily run after a task that ended with r.
LEMMA DailyTaskEnds ==
  ASSUME DRInv, kinds = "daily", kinds' = "daily", NEW t \in DOMAIN state, NEW r \in Results,
         state[t] = "none", state' = [state EXCEPT ![t] = r],
         Tried \subseteq Tried',
         "report" \in Tried' => "report" \in Tried \/ (t = "send" /\ state["report"] = "success"),
         t = "send" /\ r = "success" => "report" \in Tried',
         t = "validate" /\ r = "success" => xcom.coins # {},
         t = "gate" /\ r = "success" => GateOpen,
         t # "coins" => xcom'.coins = xcom.coins,
         t \notin {"coins", "validate", "duplicates", "candles"} => xcom' = xcom
  PROVE  DailyInv'
<1>1. DOMAIN state = DailyTasks
  BY DailyUpstream DEF DRInv, DRTypes
<1>2. \A u \in DailyTasks : state'[u] = IF u = t THEN r ELSE state[u]
  BY <1>1
<1>3. {"report", "send", "validate", "gate", "coins", "duplicates"} \subseteq DailyTasks /\ t \in DailyTasks
  BY <1>1 DEF DailyTasks
<1>4. "report" \in Tried' => state'["report"] = "success"
  BY <1>2, <1>3 DEF DRInv, DailyInv
<1>5. state'["send"] = "success" => "report" \in Tried'
  BY <1>2, <1>3 DEF DRInv, DailyInv
<1>6. state'["validate"] = "success" => xcom'.coins # {}
  BY <1>2, <1>3, Behind DEF DRInv, DailyInv
<1>7. state'["gate"] = "success" => GateOpen'
  <2>1. CASE t = "gate"
    <3>1. xcom' = xcom
      BY <2>1
    <3> QED  BY <1>2, <1>3, <2>1, <3>1 DEF GateOpen
  <2>2. CASE t # "gate" /\ state["gate"] = "success"
    <3>1. t \notin {"coins", "validate", "duplicates"} /\ t # "candles"
      BY <1>3, <2>2, Behind DEF DailyTasks
    <3>2. xcom' = xcom
      BY <3>1
    <3> QED  BY <2>2, <3>2 DEF DRInv, DailyInv, GateOpen
  <2> QED  BY <1>2, <1>3, <2>1, <2>2
<1> QED  BY <1>4, <1>5, <1>6, <1>7 DEF DailyInv

\* The verdict of a reconciliation: only the summary can give it.
LEMMA ReconcileTaskEnds ==
  ASSUME DRInv, NEW t \in DOMAIN state, NEW r \in Results, kinds' = kinds,
         state[t] = "none", state' = [state EXCEPT ![t] = r],
         t = "summarize" /\ Below' # {} => "failure" \in Tried' /\ ("alert" \in Tried' \/ slips' > 0)
  PROVE  ReconcileInv'
<1> SUFFICES ASSUME kinds = "reconcile", state'["summarize"] # "none", Below' # {}
             PROVE  "failure" \in Tried' /\ ("alert" \in Tried' \/ slips' > 0)
  BY DEF ReconcileInv
<1>1. CASE t = "summarize"
  BY <1>1
<1>2. CASE t # "summarize"
  <2>1. state["summarize"] # "none"
    BY <1>2
  <2>2. Over
    BY <2>1, SummaryLast
  <2> QED  BY <2>2 DEF Over, Ended
<1> QED  BY <1>1, <1>2

\* A message is taken or swallowed.
LEMMA SentIsTried ==
  ASSUME NEW messages, Send(messages)
  PROVE  Tried' = Tried \cup messages
BY DEF Send, Tried

LEMMA SucceedStep ==
  ASSUME DRInv, NEW t \in DOMAIN state, Succeed(t)
  PROVE  DRInv'
<1> DEFINE r == IF t = "validate" /\ xcom.coins = {} THEN "skipped" ELSE "success"
<1>1. PICK answered \in Fetched(t) : xcom' = Handed(t, answered)
  BY DEF Succeed
<1>2. /\ Triggered(t) /\ ~Finds(t) /\ state' = [state EXCEPT ![t] = r]
      /\ Tried' = Tried \cup Posts(t, TRUE) /\ UNCHANGED <<kinds, data, slips>>
  <2>1. Send(Posts(t, TRUE))
    BY DEF Succeed
  <2>2. Tried' = Tried \cup Posts(t, TRUE)
    BY <2>1, SentIsTried
  <2> QED  BY <2>2 DEF Succeed
<1>3. /\ DOMAIN xcom' = DOMAIN xcom /\ xcom'.coins \subseteq Coins
      /\ t # "coins" => xcom'.coins = xcom.coins
      /\ t \notin {"coins", "validate", "duplicates", "candles"} => xcom' = xcom
  BY <1>1, HandedOn DEF DRInv
<1>4. /\ state[t] = "none" /\ (t = "summarize" => \A u \in Upstream[t] : Ended(u))
      /\ (t # "summarize" => \A u \in Upstream[t] : state[u] = "success" /\ Ended(u))
  BY <1>2 DEF Triggered, Ended
<1>5. r \in Results /\ r # "barred" /\ r # "failed" /\ (r = "skipped" => t = "validate" /\ xcom.coins = {})
  BY DEF Results
<1>6. state["validate"] = "skipped" => xcom'.coins = xcom.coins
  <2>1. CASE kinds = "daily"
    BY <1>3, <1>4, <2>1, Behind
  <2>2. CASE kinds = "reconcile"
    <3>1. t # "coins"
      BY <2>2, ReconcileUpstream DEF DRInv, DRTypes, ReconcileTasks
    <3> QED  BY <1>3, <3>1
  <2> QED  BY <2>1, <2>2 DEF DRInv, DRTypes
<1>7. slips' \in Nat
  BY <1>2 DEF DRInv, DRTypes
<1> HIDE DEF r
<1>8. DRTypes' /\ Ordered'
  BY <1>2, <1>3, <1>4, <1>5, <1>6, <1>7, TaskEnds
<1>9. DailyInv'
  <2>1. kinds # "daily" => DailyInv'
    BY <1>2 DEF DailyInv
  <2>2. ASSUME kinds = "daily" PROVE DailyInv'
    <3>1. "report" \in Tried' => "report" \in Tried \/ (t = "send" /\ state["report"] = "success")
      BY <1>2, <1>4, <2>2, DailyUpstream DEF Posts
    <3>2. t = "send" => "report" \in Tried'
      BY <1>2 DEF Posts
    <3>3. t = "gate" => GateOpen
      BY <1>2 DEF Finds
    <3>4. t = "validate" /\ r = "success" => xcom.coins # {}
      BY DEF r
    <3> QED  BY <1>2, <1>3, <1>4, <1>5, <2>2, <3>1, <3>2, <3>3, <3>4, DailyTaskEnds
  <2> QED  BY <2>1, <2>2
<1>10. ReconcileInv'
  <2>1. t = "summarize" => Below' = {}
    <3>1. t = "summarize" => ~(state.build # "success" \/ Below # {})
      BY <1>2 DEF Finds
    <3> QED  BY <1>2, <1>3, <3>1 DEF Below
  <2> QED  BY <1>2, <1>4, <1>5, <2>1, ReconcileTaskEnds
<1> QED  BY <1>8, <1>9, <1>10 DEF DRInv

LEMMA FailStep ==
  ASSUME DRInv, NEW t \in DOMAIN state, NEW error \in BOOLEAN, Fail(t, error)
  PROVE  DRInv'
<1>1. PICK answered \in Fetched(t) : xcom' = IF t = "candles" THEN Handed(t, answered) ELSE xcom
  BY DEF Fail
<1>2. /\ Triggered(t) /\ state' = [state EXCEPT ![t] = "failed"] /\ UNCHANGED <<kinds, data>>
      /\ IF error THEN slips' = slips + 1 ELSE Finds(t) /\ slips' = slips
      /\ Tried' = Tried \cup Posts(t, FALSE) \/ (error /\ Tried' = Tried \cup {"failure"})
  <2>1. Send(Posts(t, FALSE)) \/ (error /\ Send({"failure"}))
    BY DEF Fail
  <2>2. Tried' = Tried \cup Posts(t, FALSE) \/ (error /\ Tried' = Tried \cup {"failure"})
    BY <2>1, SentIsTried
  <2> QED  BY <2>2 DEF Fail
<1>3. /\ DOMAIN xcom' = DOMAIN xcom /\ xcom'.coins \subseteq Coins /\ xcom'.coins = xcom.coins
      /\ t # "candles" => xcom' = xcom
  <2>1. t = "candles" => DOMAIN xcom' = DOMAIN xcom /\ xcom'.coins = xcom.coins
    BY <1>1, HandedOn DEF DRInv
  <2> QED  BY <1>1, <2>1 DEF DRInv, DRTypes
<1>4. /\ state[t] = "none" /\ (t = "summarize" => \A u \in Upstream[t] : Ended(u))
      /\ (t # "summarize" => \A u \in Upstream[t] : state[u] = "success" /\ Ended(u))
  BY <1>2 DEF Triggered, Ended
<1>5. /\ Tried \subseteq Tried' /\ "failure" \in Tried' /\ Tried' \subseteq Tried \cup Posts(t, FALSE)
      /\ slips' \in Nat /\ (error => slips' > 0)
  BY <1>2 DEF Posts, DRInv, DRTypes
<1>6. "failed" \in Results
  BY DEF Results
<1>7. DRTypes' /\ Ordered'
  BY <1>2, <1>3, <1>4, <1>5, <1>6, TaskEnds
<1>8. DailyInv'
  <2>1. kinds # "daily" => DailyInv'
    BY <1>2 DEF DailyInv
  <2>2. ASSUME kinds = "daily" PROVE DailyInv'
    <3>1. "report" \in Tried' => "report" \in Tried \/ (t = "send" /\ state["report"] = "success")
      BY <1>4, <1>5, <2>2, DailyUpstream DEF Posts
    <3> QED  BY <1>2, <1>3, <1>4, <1>5, <1>6, <2>2, <3>1, DailyTaskEnds
  <2> QED  BY <2>1, <2>2
<1>9. ReconcileInv'
  <2>1. t = "summarize" /\ ~error => "alert" \in Tried'
    BY <1>2 DEF Posts
  <2> QED  BY <1>2, <1>4, <1>5, <1>6, <2>1, ReconcileTaskEnds
<1> QED  BY <1>7, <1>8, <1>9 DEF DRInv

LEMMA BarStep ==
  ASSUME DRInv, NEW t \in DOMAIN state, Bar(t)
  PROVE  DRInv'
<1>1. /\ Barred(t) /\ state' = [state EXCEPT ![t] = "barred"]
      /\ UNCHANGED <<kinds, data, xcom, Tried, slips>>
  BY DEF Bar, Tried
<1>2. DOMAIN state = DOMAIN Upstream /\ Upstream[t] \subseteq DOMAIN state
  BY UpstreamIn DEF DRInv, DRTypes
<1>3. PICK u \in Upstream[t] : state[u] \in Results \ {"success"}
  BY <1>1, <1>2 DEF Barred, DRInv, DRTypes
<1>4. state[t] = "none" /\ t # "summarize" /\ "barred" \in Results
  BY <1>1 DEF Barred, Ended, Results
<1>5. DRTypes' /\ Ordered'
  BY <1>1, <1>3, <1>4, TaskEnds DEF DRInv, DRTypes
<1>6. DailyInv'
  <2>1. kinds # "daily" => DailyInv'
    BY <1>1 DEF DailyInv
  <2>2. ASSUME kinds = "daily" PROVE DailyInv'
    BY <1>1, <1>4, <2>2, DailyTaskEnds
  <2> QED  BY <2>1, <2>2
<1>7. ReconcileInv'
  BY <1>1, <1>4, ReconcileTaskEnds
<1> QED  BY <1>5, <1>6, <1>7 DEF DRInv

-----------------------------------------------------------------------------
(* What a day's run keeps *)

LEMMA DRKeeps ==
  ASSUME DRInv, DRNext \/ UNCHANGED drVars
  PROVE  DRInv'
<1>1. CASE UNCHANGED drVars
  <2>1. Upstream' = Upstream /\ UNCHANGED <<kinds, data, state, xcom, Tried, slips>>
    BY <1>1 DEF drVars, Upstream, Tried
  <2>2. DRTypes' /\ Ordered'
    BY <2>1 DEF DRInv, DRTypes, Ordered, Ended
  <2>3. DailyInv' /\ ReconcileInv'
    BY <2>1 DEF DRInv, DailyInv, ReconcileInv, GateOpen, Below
  <2> QED  BY <2>2, <2>3 DEF DRInv
<1>2. CASE Repair
  BY <1>2, RepairStep
<1>3. CASE \E t \in DOMAIN state : Succeed(t) \/ Bar(t) \/ \E error \in BOOLEAN : Fail(t, error)
  BY <1>3, SucceedStep, BarStep, FailStep
<1> QED  BY <1>1, <1>2, <1>3 DEF DRNext

\* Without a failed and without a skipped task no task is barred.
LEMMA AllSucceeded ==
  ASSUME DRInv, kinds = "daily", Over, \A t \in DOMAIN state : state[t] \notin {"failed", "skipped"}
  PROVE  state["send"] = "success"
<1>1. DOMAIN state = DailyTasks
  BY DailyUpstream DEF DRInv, DRTypes
<1>2. \A t \in DailyTasks : \/ state[t] = "success"
                            \/ state[t] = "barred" /\ \E u \in Upstream[t] : state[u] \in Results \ {"success"}
  BY <1>1 DEF DRInv, DRTypes, Ordered, Over, Ended, Results
<1>3. state["freshness"] = "success"
  BY <1>2, DailyUpstream DEF DailyTasks
<1>4. state["run"] = "success"
  BY <1>2, <1>3, DailyUpstream DEF DailyTasks
<1>5. state["test"] = "success"
  BY <1>2, <1>4, DailyUpstream DEF DailyTasks
<1>6. state["coins"] = "success" /\ state["duplicates"] = "success"
  BY <1>2, <1>5, DailyUpstream DEF DailyTasks
<1>7. state["validate"] = "success"
  BY <1>2, <1>6, DailyUpstream DEF DailyTasks
<1>8. state["gate"] = "success"
  BY <1>2, <1>6, <1>7, DailyUpstream DEF DailyTasks
<1>9. state["report"] = "success"
  BY <1>2, <1>8, DailyUpstream DEF DailyTasks
<1> QED  BY <1>2, <1>9, DailyUpstream DEF DailyTasks

\* What the invariant is for.
LEMMA JudgedByInv == DRInv => DayJudged
<1> SUFFICES ASSUME DRInv PROVE DayJudged
  OBVIOUS
<1>1. kinds = "daily" /\ "report" \in Tried =>
        /\ state.test = "success" /\ state.duplicates = "success" /\ ~xcom.dup
        /\ LineMet(Cardinality(xcom.passed), Cardinality(xcom.coins))
  <2> SUFFICES ASSUME kinds = "daily", "report" \in Tried
               PROVE  /\ state.test = "success" /\ state.duplicates = "success" /\ ~xcom.dup
                      /\ LineMet(Cardinality(xcom.passed), Cardinality(xcom.coins))
    OBVIOUS
  <2>1. state["report"] = "success" /\ DOMAIN state = DailyTasks
    BY DailyUpstream DEF DRInv, DRTypes, DailyInv
  <2>2. state["gate"] = "success"
    BY <2>1, DailyUpstream DEF DRInv, Ordered, DailyTasks
  <2>3. /\ state["validate"] = "success" /\ state["test"] = "success" /\ state["duplicates"] = "success"
        /\ GateOpen /\ xcom.coins # {}
    BY <2>2, Behind DEF DRInv, DailyInv
  <2>4. ~xcom.dup
    BY <2>3 DEF GateOpen
  <2>5. Cardinality(xcom.coins) \in Nat /\ Cardinality(xcom.coins) > 0
    <3>1. IsFiniteSet(xcom.coins)
      BY RunsAssumption, FS_Subset DEF DRInv, DRTypes
    <3> QED  BY <2>3, <3>1, FS_CardinalityType, FS_EmptySet
  <2>6. LineMet(Cardinality(xcom.passed), Cardinality(xcom.coins))
    <3> HIDE DEF LineMet
    <3> QED  BY <2>3, <2>4, <2>5 DEF GateOpen
  <2> QED  BY <2>3, <2>4, <2>6
<1>2. kinds = "daily" /\ Over /\ "report" \notin Tried => "failure" \in Tried \/ xcom.coins = {}
  <2>1. (\E t \in DOMAIN state : state[t] = "failed") => "failure" \in Tried
    BY DEF DRInv, Ordered
  <2>2. (\E t \in DOMAIN state : state[t] = "skipped") => xcom.coins = {}
    BY DEF DRInv, Ordered
  <2>3. kinds = "daily" /\ state["send"] = "success" => "report" \in Tried
    BY DEF DRInv, DailyInv
  <2> QED  BY <2>1, <2>2, <2>3, AllSucceeded
<1>3. kinds = "reconcile" /\ Over /\ Below # {} => "failure" \in Tried /\ ("alert" \in Tried \/ slips > 0)
  <2>1. kinds = "reconcile" => "summarize" \in DOMAIN state
    BY ReconcileUpstream DEF DRInv, DRTypes, ReconcileTasks
  <2> QED  BY <2>1 DEF DRInv, ReconcileInv, Over, Ended
<1>4. /\ "report" \in posted => "report" \in Tried
      /\ "report" \in Tried => "report" \in posted \/ "report" \in muted
      /\ "failure" \in Tried => "failure" \in posted \/ "failure" \in muted
  BY DEF Tried
<1>5. kinds = "daily" /\ Over /\ "report" \notin posted =>
        "failure" \in posted \/ xcom.coins = {} \/ muted \cap {"report", "failure"} # {}
  BY <1>2, <1>4
<1> QED  BY <1>1, <1>3, <1>4, <1>5 DEF DayJudged

-----------------------------------------------------------------------------
(* The notifiers *)

NTTypes ==
  /\ rule \in {"market", "quality"} /\ stops \in Nat
  /\ told \in [Alerts -> Nat] /\ forgot \in [Alerts -> Nat]
  /\ DOMAIN task = {"at", "keys", "tries"} /\ task.tries \in 0..1 /\ task.keys \subseteq Alerts \ table
  /\ task.at \in {"due", "post", "record", "over"}
  /\ \A r \in wrong : /\ DOMAIN r = {"n", "key", "age", "runs"} /\ r.key \in Alerts
                        /\ r.age \in 0..(Reach + 1) /\ r.runs \in Nat

\* A key was posted once more than it was forgotten only if the table has it, or
\* the run is about to enter it; neither has a key that was never posted.
Counted ==
  \A k \in Alerts :
    /\ told[k] <= forgot[k] + (IF k \in table \/ (task.at = "record" /\ k \in task.keys) THEN 1 ELSE 0)
    /\ k \in table \/ (task.at = "record" /\ k \in task.keys) => told[k] >= 1

\* Of what nobody was told of, every run so far failed twice.
MarketWatched ==
  rule = "market" =>
    \A r \in wrong : told[r.key] = 0 =>
      /\ stops >= 2 * r.runs
      /\ r.age <= Reach =>
           /\ task.at = "post" => r.key \in task.keys
           /\ task.at # "record"
           /\ stops >= 2 * r.runs + (IF task.at = "over" THEN 2 ELSE task.tries)

\* A violated rule was skipped, or its run failed, every time.
QualityWatched ==
  rule = "quality" =>
    \A r \in wrong : told[r.key] = 0 =>
      /\ stops >= r.runs
      /\ r.age <= Reach => stops > r.runs \/ task.at = "due" \/ (task.at = "post" /\ r.key \in task.keys)

NTInv ==
  /\ NTTypes /\ Counted /\ MarketWatched /\ QualityWatched
  /\ task.at # "over" => stops >= task.tries

LEMMA NTStarts == NTInit => NTInv
BY NotifierAssumption DEF NTInit, NTInv, NTTypes, Counted, MarketWatched, QualityWatched, Quiet

LEMMA GoesWrongStep ==
  ASSUME NTInv, NEW k \in Alerts, NEW age \in 0..(Reach + 1), GoesWrong(k, age)
  PROVE  NTInv'
<1> DEFINE row == [n |-> Changes, key |-> k, age |-> age, runs |-> 0]
<1>1. /\ task.at = "due" /\ wrong' = wrong \cup {row}
      /\ UNCHANGED <<rule, table, task, told, forgot, stops>>
  BY DEF GoesWrong
<1>2. DOMAIN row = {"n", "key", "age", "runs"} /\ row.key = k /\ row.age = age /\ row.runs = 0
  OBVIOUS
<1> HIDE DEF row
<1>3. NTTypes' /\ Counted'
  BY <1>1, <1>2, NotifierAssumption DEF NTInv, NTTypes, Counted
<1>4. MarketWatched' /\ QualityWatched'
  BY <1>1, <1>2, NotifierAssumption DEF NTInv, NTTypes, MarketWatched, QualityWatched
<1> QED  BY <1>1, <1>3, <1>4 DEF NTInv

LEMMA LookStep ==
  ASSUME NTInv, NEW readable \in SUBSET Alerts, Look(readable)
  PROVE  NTInv'
<1>1. /\ task.at = "due" /\ UNCHANGED <<rule, wrong, table, told, forgot>>
      /\ task' = [task EXCEPT !.at = "post", !.keys = Unsent \cap readable]
      /\ stops' \in Nat /\ stops' >= stops
      /\ readable = Alerts \/ (rule = "quality" /\ stops' = stops + 1)
  BY DEF Look, NTInv, NTTypes
<1>2. /\ task'.at = "post" /\ task'.keys = Unsent \cap readable /\ task'.tries = task.tries
      /\ DOMAIN task' = {"at", "keys", "tries"}
  BY <1>1 DEF NTInv, NTTypes
<1>3. /\ Unsent \cap table = {}
      /\ \A r \in wrong : told[r.key] = 0 /\ r.age <= Reach => r.key \in Unsent
  BY DEF Unsent, Candidates, NTInv, NTTypes, Counted
<1>4. NTTypes'
  BY <1>1, <1>2, <1>3 DEF NTInv, NTTypes
<1>5. Counted'
  BY <1>1, <1>2 DEF NTInv, NTTypes, Counted
<1>6. MarketWatched'
  BY <1>1, <1>2, <1>3, NotifierAssumption DEF NTInv, NTTypes, MarketWatched
<1>7. QualityWatched'
  BY <1>1, <1>2, <1>3, NotifierAssumption DEF NTInv, NTTypes, QualityWatched
<1> QED  BY <1>1, <1>2, <1>4, <1>5, <1>6, <1>7 DEF NTInv, NTTypes

LEMMA NotifyStep ==
  ASSUME NTInv, Notify
  PROVE  NTInv'
<1>1. /\ task.at = "post" /\ UNCHANGED <<rule, wrong, table, forgot, stops>>
      /\ told' = [k \in Alerts |-> IF k \in task.keys THEN told[k] + 1 ELSE told[k]]
      /\ task' = [task EXCEPT !.at = "record"]
  BY DEF Notify
<1>2. /\ task'.at = "record" /\ task'.keys = task.keys /\ task'.tries = task.tries
      /\ DOMAIN task' = {"at", "keys", "tries"}
  BY <1>1 DEF NTInv, NTTypes
<1>3. NTTypes' /\ Counted'
  BY <1>1, <1>2 DEF NTInv, NTTypes, Counted
<1>4. MarketWatched' /\ QualityWatched'
  <2>1. \A r \in wrong : told'[r.key] = 0 => told[r.key] = 0 /\ r.key \notin task.keys
    BY <1>1 DEF NTInv, NTTypes
  <2> QED  BY <1>1, <1>2, <2>1, NotifierAssumption DEF NTInv, NTTypes, MarketWatched, QualityWatched
<1> QED  BY <1>1, <1>2, <1>3, <1>4 DEF NTInv

LEMMA EnterStep ==
  ASSUME NTInv, Enter
  PROVE  NTInv'
<1>1. /\ task.at = "record" /\ UNCHANGED <<rule, wrong, told, forgot, stops>>
      /\ table' = table \cup task.keys
      /\ task' = [at |-> "over", keys |-> {}, tries |-> 0]
  BY DEF Enter, Quiet
<1>2. /\ task'.at = "over" /\ task'.keys = {} /\ task'.tries = 0
      /\ DOMAIN task' = {"at", "keys", "tries"}
  BY <1>1
<1>3. NTTypes'
  BY <1>1, <1>2 DEF NTInv, NTTypes
<1>4. Counted'
  BY <1>1, <1>2 DEF NTInv, NTTypes, Counted
<1>5. MarketWatched' /\ QualityWatched'
  BY <1>1, <1>2, NotifierAssumption DEF NTInv, NTTypes, MarketWatched, QualityWatched
<1> QED  BY <1>1, <1>2, <1>3, <1>4, <1>5 DEF NTInv

LEMMA StoppedStep ==
  ASSUME NTInv, Stopped
  PROVE  NTInv'
<1>1. /\ task.at \in {"due", "post", "record"} /\ stops' = stops + 1
      /\ UNCHANGED <<rule, wrong, table, told>>
      /\ forgot' = [k \in Alerts |-> forgot[k] + (IF task.at = "record" /\ k \in task.keys THEN 1 ELSE 0)]
  BY DEF Stopped
<1>2. /\ IF task.tries = 0 THEN task'.at = "due" /\ task'.tries = 1 ELSE task'.at = "over" /\ task'.tries = 0
      /\ task'.keys = {} /\ DOMAIN task' = {"at", "keys", "tries"}
  BY DEF Stopped, Quiet
<1>3. NTTypes'
  BY <1>1, <1>2 DEF NTInv, NTTypes
<1>4. Counted'
  BY <1>1, <1>2 DEF NTInv, NTTypes, Counted
<1>5. MarketWatched'
  BY <1>1, <1>2, NotifierAssumption DEF NTInv, NTTypes, MarketWatched
<1>6. QualityWatched'
  BY <1>1, <1>2, NotifierAssumption DEF NTInv, NTTypes, QualityWatched
<1> QED  BY <1>1, <1>2, <1>3, <1>4, <1>5, <1>6 DEF NTInv, NTTypes

LEMMA PeriodStep ==
  ASSUME NTInv, NEW ticks \in 1..(Reach + 1), Period(ticks)
  PROVE  NTInv'
<1> DEFINE older(r) == [r EXCEPT !.age = Aged(@, ticks), !.runs = IF r.age <= Reach THEN @ + 1 ELSE @]
<1>1. /\ task.at = "over" /\ UNCHANGED <<rule, table, told, forgot, stops>>
      /\ wrong' = {older(r) : r \in wrong}
      /\ task' = [at |-> "due", keys |-> {}, tries |-> 0]
  BY DEF Period, Quiet
<1>2. task'.at = "due" /\ task'.keys = {} /\ task'.tries = 0 /\ DOMAIN task' = {"at", "keys", "tries"}
  BY <1>1
<1>3. \A r \in wrong : /\ DOMAIN older(r) = {"n", "key", "age", "runs"} /\ older(r).key = r.key
                       /\ older(r).age = Aged(r.age, ticks)
                       /\ older(r).runs = IF r.age <= Reach THEN r.runs + 1 ELSE r.runs
  BY DEF NTInv, NTTypes
<1>4. \A r \in wrong : /\ older(r).age \in 0..(Reach + 1) /\ older(r).runs \in Nat
                       /\ older(r).age <= Reach => r.age <= Reach
  BY <1>3, NotifierAssumption DEF Aged, NTInv, NTTypes
<1> HIDE DEF older
<1>5. NTTypes'
  BY <1>1, <1>2, <1>3, <1>4, NotifierAssumption DEF NTInv, NTTypes
<1>6. Counted'
  BY <1>1, <1>2 DEF NTInv, NTTypes, Counted
<1>7. MarketWatched'
  BY <1>1, <1>2, <1>3, <1>4, NotifierAssumption DEF NTInv, NTTypes, MarketWatched
<1>8. QualityWatched'
  BY <1>1, <1>2, <1>3, <1>4, NotifierAssumption DEF NTInv, NTTypes, QualityWatched
<1> QED  BY <1>1, <1>2, <1>5, <1>6, <1>7, <1>8 DEF NTInv, NTTypes

LEMMA NTKeeps ==
  ASSUME NTInv, NTNext \/ UNCHANGED ntVars
  PROVE  NTInv'
<1>1. CASE \E k \in Alerts, age \in 0..(Reach + 1) : GoesWrong(k, age)
  BY <1>1, GoesWrongStep
<1>2. CASE \E readable \in SUBSET Alerts : Look(readable)
  BY <1>2, LookStep
<1>3. CASE UNCHANGED ntVars
  BY <1>3 DEF NTInv, NTTypes, Counted, MarketWatched, QualityWatched, ntVars
<1>4. CASE \E ticks \in 1..(Reach + 1) : Period(ticks)
  BY <1>4, PeriodStep
<1>5. Look(Alerts) => \E readable \in SUBSET Alerts : Look(readable)
  OBVIOUS
<1>6. \A k \in Alerts : Look(Alerts \ {k}) => \E readable \in SUBSET Alerts : Look(readable)
  OBVIOUS
<1> QED  BY <1>1, <1>2, <1>3, <1>4, <1>5, <1>6, NotifyStep, EnterStep, StoppedStep DEF NTNext

LEMMA NotifiedByInv == NTInv => NotifiedOnce
<1> SUFFICES ASSUME NTInv PROVE NotifiedOnce
  OBVIOUS
<1>1. \A k \in Alerts : told[k] <= 1 + forgot[k]
  BY DEF NTInv, NTTypes, Counted
<1>2. ASSUME NEW r \in wrong, told[r.key] = 0
      PROVE  stops >= (IF rule = "market" THEN 2 ELSE 1) * r.runs
  <2>1. rule \in {"market", "quality"} /\ r.runs \in Nat
    BY DEF NTInv, NTTypes
  <2>2. CASE rule = "market"
    BY <1>2, <2>2 DEF NTInv, MarketWatched
  <2>3. CASE rule = "quality"
    <3>1. stops >= r.runs
      BY <1>2, <2>3 DEF NTInv, QualityWatched
    <3> QED  BY <2>1, <2>3, <3>1
  <2> QED  BY <2>1, <2>2, <2>3
<1> QED  BY <1>1, <1>2 DEF NotifiedOnce

-----------------------------------------------------------------------------
(* The swap of the trade table *)

Early == {"start", "past copied", "copied", "verified", "numbered"}
Later == {"renamed", "swapped", "copied back", "rolled back"}

SWTypes ==
  /\ phase \in Early \cup Later /\ live \in {"old", "new"} /\ (phase \in Early => live = "old")
  /\ oldmax \in Nat /\ DOMAIN next = {"old", "new"} /\ next.old \in Nat \ {0} /\ next.new \in Nat \ {0}
  /\ \A r \in old \cup new : r.id \in Nat \ {0} /\ r.day \in {1, 2}
  /\ \A r \in old : r.id < next.old
  /\ \A r \in new : r.id < next.new

\* Until the names are put back an id stands for one row, in both tables.
Consistent == \A q, r \in old \cup new : q.id = r.id => q = r

\* The last id of the old table is there.
OldIds == next.old = 1 \/ \E r \in old : r.id = next.old - 1

\* What a table has that it does not owe to the producer has its trade in the
\* other table, unless the retention took it there.
Copied(rows) == \A q \in rows : q.trade \in Trades(old) \cup removed

\* The trades of a table, and those nobody asks for.
Kept(S) == Trades(S) \cup removed \cup late

\* The copies, apart from the rows the producer put into the new table.
Low == {q \in new : q.id < oldmax + Gap}

\* The new table has not had the name.
BeforeInv ==
  live = "old" /\ phase # "rolled back" =>
    /\ Consistent /\ OldIds /\ Copied(new) /\ \A q \in new : q.id < next.old
    /\ phase = "numbered" /\ "number" \notin undone =>
         /\ next.old <= oldmax + Gap /\ next.new = oldmax + Gap
         /\ \A q \in new : q.id <= oldmax

RenamedInv ==
  live = "new" /\ phase \in {"renamed", "swapped"} /\ "number" \notin undone =>
    /\ Consistent /\ OldIds /\ Copied(Low) /\ next.old <= oldmax + Gap /\ oldmax + Gap <= next.new
    /\ phase = "renamed" => \A q \in Low : q.id <= oldmax

\* A row of the old table is copied, or behind every copy, if the copies were made.
CopiesInv ==
  /\ phase = "past copied" /\ "copy past" \notin undone =>
       \A r \in old : r.day = 1 => r.trade \in Kept(new)
  /\ live = "old" /\ phase \in {"copied", "verified", "numbered", "renamed", "swapped"}
     /\ "copy past" \notin undone /\ "copy today" \notin undone =>
       \A r \in old : r.trade \in Kept(new) \/ \A q \in new : q.id < r.id
  /\ live = "new" /\ phase = "renamed"
     /\ "copy past" \notin undone /\ "copy today" \notin undone /\ "number" \notin undone =>
       \A r \in old : r.trade \in Kept(new) \/ \A q \in Low : q.id < r.id

\* A table has what the other has, once what it needs is done.
CoveredInv ==
  /\ live = "new" /\ "copy past" \notin undone /\ "copy today" \notin undone
     /\ "number" \notin undone /\ "delta" \notin undone =>
       \A r \in old : r.trade \in Kept(new)
  /\ phase \in {"copied back", "rolled back"} /\ "number" \notin undone /\ "back" \notin undone =>
       \A q \in new : q.trade \in Kept(old)
  /\ phase = "renamed" => "delta" \in undone
  /\ phase \in {"renamed", "swapped"} => "back" \in undone

SWInv == SWTypes /\ BeforeInv /\ RenamedInv /\ CopiesInv /\ CoveredInv

-----------------------------------------------------------------------------
\* MaxId names the largest id when a row is known to have it, or there is none.
LEMMA MaxIdIs ==
  ASSUME NEW S, NEW m \in Nat, \A r \in S : r.id \in Nat /\ r.id <= m,
         m = 0 \/ \E r \in S : r.id = m
  PROVE  MaxId(S) = m
<1>1. m \in {r.id : r \in S} \cup {0} /\ \A r \in S : r.id <= m
  OBVIOUS
<1>2. ASSUME NEW i \in {r.id : r \in S} \cup {0}, \A r \in S : r.id <= i
      PROVE  i = m
  BY <1>2
<1> QED  BY <1>1, <1>2 DEF MaxId

\* The ids of a set of rows with bounded ids have a largest one, MaxId.
LEMMA MaxIdBounds ==
  ASSUME NEW S, NEW n \in Nat, \A r \in S : r.id \in 0..n
  PROVE  /\ MaxId(S) \in {r.id : r \in S} \cup {0}
         /\ \A r \in S : r.id <= MaxId(S)
<1> DEFINE I == {r.id : r \in S} \cup {0}
<1>1. I \in SUBSET (0..n) /\ I # {}
  OBVIOUS
<1>2. Max(I) \in I /\ \A i \in I : Max(I) >= i
  <2> HIDE DEF I
  <2> QED  BY <1>1, MaxInSet
<1>3. \E i \in {r.id : r \in S} \cup {0} : \A r \in S : r.id <= i
  <2>1. \A r \in S : r.id \in I /\ r.id \in Nat
    OBVIOUS
  <2>2. Max(I) \in Nat
    BY <1>1, <1>2
  <2>3. \A r \in S : r.id <= Max(I)
    BY <1>2, <2>1, <2>2
  <2> QED  BY <1>2, <2>3
<1> QED  BY <1>3 DEF MaxId

\* The counter of a table goes up only as far as its ids ask for.
LEMMA CounterIs ==
  ASSUME NEW S, NEW n \in Nat \ {0}, NEW m \in Nat, \A r \in S : r.id \in Nat /\ r.id <= m
  PROVE  /\ Counter(n, S) \in Nat \ {0} /\ Counter(n, S) >= n
         /\ \A r \in S : r.id < Counter(n, S)
         /\ (\A r \in S : r.id < n) => Counter(n, S) = n
<1>1. /\ MaxId(S) \in {r.id : r \in S} \cup {0}
      /\ \A r \in S : r.id <= MaxId(S)
  <2>1. \A r \in S : r.id \in 0..m
    OBVIOUS
  <2> QED  BY <2>1, MaxIdBounds
<1>2. MaxId(S) \in Nat /\ ((\A r \in S : r.id < n) => MaxId(S) < n)
  BY <1>1
<1> QED  BY <1>1, <1>2 DEF Counter

\* INSERT IGNORE of rows whose ids stand for one row: afterwards the target has
\* their trades, and nothing it had is lost.
LEMMA IgnoringHasTrades ==
  ASSUME NEW into, NEW rows,
         \A r \in rows, q \in into : q.id = r.id => q = r
  PROVE  /\ Trades(into) \subseteq Trades(Ignoring(into, rows))
         /\ Trades(rows) \subseteq Trades(Ignoring(into, rows))
         /\ Ignoring(into, rows) \subseteq into \cup rows
         /\ into \subseteq Ignoring(into, rows)
BY DEF Ignoring, Trades

LEMMA IgnoringAdds ==
  ASSUME NEW into, NEW rows
  PROVE  /\ Ignoring(into, rows) \subseteq into \cup rows
         /\ into \subseteq Ignoring(into, rows)
BY DEF Ignoring

LEMMA MarkIs ==
  ASSUME NEW statement, NEW done \in BOOLEAN, Mark(statement, done)
  PROVE  /\ \A s : s # statement => (s \in undone' <=> s \in undone)
         /\ statement \in undone' <=> ~done
BY DEF Mark

LEMMA SWStarts == SWInit => SWInv
BY DEF SWInit, SWInv, SWTypes, BeforeInv, RenamedInv, CopiesInv, CoveredInv, Early, Later, Consistent, OldIds, Copied, Trades

\* The largest id of the old table is the one before its AUTO_INCREMENT.
LEMMA NewestRow ==
  ASSUME SWTypes, OldIds
  PROVE  MaxId(old) = next.old - 1
<1>1. next.old - 1 \in Nat /\ \A r \in old : r.id \in Nat /\ r.id <= next.old - 1
  BY DEF SWTypes
<1>2. next.old - 1 = 0 \/ \E r \in old : r.id = next.old - 1
  BY DEF SWTypes, OldIds
<1> QED  BY <1>1, <1>2, MaxIdIs

\* A row of the producer goes into the old table, behind everything.
LEMMA ProduceOldStep ==
  ASSUME SWInv, NEW t, NEW d \in 1..2, Produce(t, d), live = "old"
  PROVE  SWInv'
<1> DEFINE row == [trade |-> t, day |-> d, id |-> next.old]
<1>1. old' = old \cup {row} /\ new' = new /\ live' = "old"
  BY DEF Produce
<1>2. phase' = phase /\ oldmax' = oldmax /\ removed' = removed /\ undone' = undone /\ phase # "rolled back"
  BY DEF Produce
<1>3. late \subseteq late' /\ (phase = "past copied" /\ d = 1 => t \in late')
  BY DEF Produce
<1>4. next' = [next EXCEPT !.old = @ + 1] /\ (phase = "numbered" => next.old < oldmax + Gap)
  BY DEF Produce
<1>5. row.id = next.old /\ row.day = d /\ row.trade = t
  OBVIOUS
<1>6. /\ next'.old = next.old + 1 /\ next'.new = next.new /\ DOMAIN next' = {"old", "new"}
      /\ next.old \in Nat \ {0} /\ next.new \in Nat \ {0} /\ oldmax \in Nat /\ Gap \in Nat
  BY <1>4, SwapAssumption DEF SWInv, SWTypes
<1> HIDE DEF row
<1>7. Trades(old') = Trades(old) \cup {t} /\ Kept(old) \subseteq Kept(old)' /\ Kept(new) \subseteq Kept(new)'
  BY <1>1, <1>2, <1>3, <1>5 DEF Trades, Kept
<1>8. \A q \in old \cup new : q.id < row.id /\ q.id \in Nat
  BY <1>2, <1>5 DEF SWInv, SWTypes, BeforeInv
<1>9. SWTypes'
  <2>1. row.id \in Nat \ {0} /\ row.day \in {1, 2} /\ row.id < next'.old
    BY <1>5, <1>6
  <2>2. ASSUME NEW r \in old' \cup new' PROVE r.id \in Nat \ {0} /\ r.day \in {1, 2}
    BY <1>1, <2>1, <2>2 DEF SWInv, SWTypes
  <2>3. next'.old \in Nat \ {0} /\ next'.new \in Nat \ {0}
    BY <1>6
  <2>4. \A r \in old' : r.id < next'.old
    BY <1>1, <1>5, <1>6, <1>8
  <2> QED  BY <1>1, <1>2, <1>6, <2>2, <2>3, <2>4 DEF SWInv, SWTypes
<1>10. Consistent'
  <2>1. \A q, r \in old \cup new : q.id = r.id => q = r
    BY <1>1, <1>2 DEF SWInv, BeforeInv, Consistent
  <2>2. \A q \in old' \cup new' : q = row \/ q \in old \cup new
    BY <1>1
  <2>3. \A q \in old \cup new : q.id # row.id
    BY <1>5, <1>6, <1>8
  <2>4. \A q, r \in old' \cup new' : q.id = r.id => q = r
    BY <2>1, <2>2, <2>3
  <2> QED  BY <2>4 DEF Consistent
<1>11. OldIds'
  <2>1. row \in old' /\ row.id = next'.old - 1
    BY <1>1, <1>5, <1>6
  <2> QED  BY <2>1 DEF OldIds
<1>12. Copied(new)'
  <2>1. \A q \in new : q.trade \in Trades(old) \cup removed
    BY <1>2 DEF SWInv, BeforeInv, Copied
  <2>2. \A q \in new' : q.trade \in Trades(old)' \cup removed'
    BY <1>1, <1>2, <1>7, <2>1
  <2> QED  BY <2>2 DEF Copied
<1>13. BeforeInv'
  <2>1. \A q \in new' : q.id < next'.old
    BY <1>1, <1>5, <1>6, <1>8
  <2>2. phase' = "numbered" /\ "number" \notin undone' =>
          /\ next'.old <= oldmax' + Gap /\ next'.new = oldmax' + Gap
          /\ \A q \in new' : q.id <= oldmax'
    BY <1>1, <1>2, <1>4, <1>6 DEF SWInv, BeforeInv
  <2> QED  BY <1>10, <1>11, <1>12, <2>1, <2>2 DEF BeforeInv
<1>14. RenamedInv'
  BY <1>1 DEF RenamedInv
<1>15. CopiesInv'
  <2>1. /\ phase = "past copied" /\ "copy past" \notin undone => \A r \in old : r.day = 1 => r.trade \in Kept(new)'
        /\ phase = "past copied" /\ row.day = 1 => row.trade \in Kept(new)'
    BY <1>3, <1>5, <1>7 DEF SWInv, CopiesInv, Kept
  <2>2. /\ phase \in {"copied", "verified", "numbered", "renamed", "swapped"}
           /\ "copy past" \notin undone /\ "copy today" \notin undone =>
             \A r \in old : r.trade \in Kept(new)' \/ \A q \in new : q.id < r.id
        /\ \A q \in new : q.id < row.id
    BY <1>7, <1>8 DEF SWInv, CopiesInv
  <2> QED  BY <1>1, <1>2, <2>1, <2>2 DEF CopiesInv
<1>16. CoveredInv'
  BY <1>1, <1>2, <1>7 DEF SWInv, CoveredInv
<1> QED  BY <1>9, <1>13, <1>14, <1>15, <1>16 DEF SWInv

\* A row of the producer goes into the new table, Gap behind the copies.
LEMMA ProduceNewStep ==
  ASSUME SWInv, NEW t, NEW d \in 1..2, Produce(t, d), live = "new"
  PROVE  SWInv'
<1> DEFINE row == [trade |-> t, day |-> d, id |-> next.new]
<1>1. new' = new \cup {row} /\ old' = old /\ live' = "new"
  BY DEF Produce
<1>2. phase' = phase /\ oldmax' = oldmax /\ removed' = removed /\ undone' = undone /\ phase # "rolled back"
  BY DEF Produce
<1>3. late \subseteq late' /\ (phase = "copied back" => t \in late')
  BY DEF Produce
<1>4. next' = [next EXCEPT !.new = @ + 1]
  BY DEF Produce
<1>5. row.id = next.new /\ row.day = d /\ row.trade = t
  OBVIOUS
<1>6. /\ next'.new = next.new + 1 /\ next'.old = next.old /\ DOMAIN next' = {"old", "new"}
      /\ next.old \in Nat \ {0} /\ next.new \in Nat \ {0} /\ oldmax \in Nat /\ Gap \in Nat
  BY <1>4, SwapAssumption DEF SWInv, SWTypes
<1> HIDE DEF row
<1>7. Trades(new') = Trades(new) \cup {t} /\ Kept(old) \subseteq Kept(old)' /\ Kept(new) \subseteq Kept(new)'
  BY <1>1, <1>2, <1>3, <1>5 DEF Trades, Kept
<1>8. \A q \in new : q.id < row.id /\ q.id \in Nat
  BY <1>5 DEF SWInv, SWTypes
<1>9. SWTypes'
  <2>1. row.id \in Nat \ {0} /\ row.day \in {1, 2}
    BY <1>5, <1>6
  <2>2. ASSUME NEW r \in old' \cup new' PROVE r.id \in Nat \ {0} /\ r.day \in {1, 2}
    BY <1>1, <2>1, <2>2 DEF SWInv, SWTypes
  <2>3. next'.old \in Nat \ {0} /\ next'.new \in Nat \ {0}
    BY <1>6
  <2>4. \A r \in new' : r.id < next'.new
    BY <1>1, <1>5, <1>6, <1>8
  <2>5. phase \notin Early
    BY DEF SWInv, SWTypes
  <2> QED  BY <1>1, <1>2, <1>6, <2>2, <2>3, <2>4, <2>5 DEF SWInv, SWTypes
<1>10. BeforeInv'
  BY <1>1 DEF BeforeInv
<1> DEFINE set == phase \in {"renamed", "swapped"} /\ "number" \notin undone
<1>11. set => /\ Consistent /\ OldIds /\ Copied(Low) /\ next.old <= oldmax + Gap /\ oldmax + Gap <= next.new
              /\ phase = "renamed" => \A q \in Low : q.id <= oldmax
  BY DEF SWInv, RenamedInv
<1>12. set => Low' = Low
  <2>1. ~(next.new < oldmax + Gap) => {q \in new \cup {row} : q.id < oldmax + Gap} = {q \in new : q.id < oldmax + Gap}
    BY <1>5
  <2>2. set => ~(next.new < oldmax + Gap)
    BY <1>6, <1>11
  <2> QED  BY <1>1, <1>2, <2>1, <2>2 DEF Low
<1>13. RenamedInv'
  <2> SUFFICES ASSUME set PROVE RenamedInv'
    BY <1>2 DEF RenamedInv
  <2>1. \A q \in old \cup new : q.id < row.id /\ q.id \in Nat
    BY <1>5, <1>6, <1>8, <1>11 DEF SWInv, SWTypes
  <2>2. Consistent'
    <3>1. \A q, r \in old \cup new : q.id = r.id => q = r
      BY <1>11 DEF Consistent
    <3>2. \A q \in old' \cup new' : q = row \/ q \in old \cup new
      BY <1>1
    <3>3. \A q \in old \cup new : q.id # row.id
      BY <1>5, <1>6, <2>1
    <3>4. \A q, r \in old' \cup new' : q.id = r.id => q = r
      BY <3>1, <3>2, <3>3
    <3> QED  BY <3>4 DEF Consistent
  <2>3. OldIds'
    BY <1>1, <1>6, <1>11 DEF OldIds
  <2>4. Copied(Low)'
    <3>1. \A q \in Low : q.trade \in Trades(old) \cup removed
      BY <1>11 DEF Copied
    <3>2. \A q \in Low' : q.trade \in Trades(old)' \cup removed'
      BY <1>1, <1>2, <1>12, <3>1
    <3> QED  BY <3>2 DEF Copied
  <2>5. next'.old <= oldmax' + Gap /\ oldmax' + Gap <= next'.new
    <3>1. next.old <= oldmax + Gap /\ oldmax + Gap <= next.new
      BY <1>11
    <3>2. next.old <= oldmax + Gap /\ oldmax + Gap <= next.new + 1
      BY <1>6, <3>1
    <3> QED  BY <1>2, <1>6, <3>2
  <2>6. phase' = "renamed" => \A q \in Low' : q.id <= oldmax'
    BY <1>2, <1>11, <1>12
  <2> QED  BY <2>2, <2>3, <2>4, <2>5, <2>6 DEF RenamedInv
<1>14. CopiesInv'
  <2>1. phase # "past copied"
    BY DEF SWInv, SWTypes, Early
  <2>2. phase = "renamed" /\ "copy past" \notin undone /\ "copy today" \notin undone /\ "number" \notin undone =>
          \A r \in old : r.trade \in Kept(new)' \/ \A q \in Low' : q.id < r.id
    BY <1>7, <1>12 DEF SWInv, CopiesInv
  <2> QED  BY <1>1, <1>2, <2>1, <2>2 DEF CopiesInv
<1>15. CoveredInv'
  <2>1. phase = "copied back" /\ "number" \notin undone /\ "back" \notin undone => \A q \in new' : q.trade \in Kept(old)'
    <3>1. phase = "copied back" => row.trade \in Kept(old)'
      BY <1>3, <1>5 DEF Kept
    <3> QED  BY <1>1, <1>7, <3>1 DEF SWInv, CoveredInv
  <2> QED  BY <1>1, <1>2, <1>7, <2>1 DEF SWInv, CoveredInv
<1> QED  BY <1>9, <1>10, <1>13, <1>14, <1>15 DEF SWInv

\* The retention takes a trade, but not the newest row, from the table that has
\* the name.
LEMMA CleanupStep ==
  ASSUME SWInv, NEW t, Cleanup(t)
  PROVE  SWInv'
<1>1. /\ IF live = "new" THEN new' = {r \in new : r.trade # t} /\ old' = old
         ELSE old' = {r \in old : r.trade # t} /\ new' = new
      /\ removed' = removed \cup {t}
  BY DEF Cleanup
<1>2. UNCHANGED <<live, phase, oldmax, next, late, undone>>
  BY DEF Cleanup
<1>3. old' \subseteq old /\ new' \subseteq new
  BY <1>1
<1>4. /\ Trades(old) \cup removed \subseteq Trades(old') \cup removed'
      /\ Kept(old) \subseteq Kept(old)' /\ Kept(new) \subseteq Kept(new)'
  BY <1>1, <1>2 DEF Trades, Kept
<1>5. SWTypes'
  BY <1>2, <1>3 DEF SWInv, SWTypes
<1>6. Consistent => Consistent'
  BY <1>3 DEF Consistent
<1>7. live = "old" /\ OldIds => OldIds'
  <2> SUFFICES ASSUME live = "old", OldIds PROVE OldIds'
    OBVIOUS
  <2>1. MaxId(old) = next.old - 1 /\ next.old \in Nat
    BY NewestRow DEF SWInv, SWTypes
  <2>2. \A r \in old : r.trade = t => r.id < next.old - 1
    BY <2>1 DEF Cleanup, Live
  <2>3. \A r \in old : r.id = next.old - 1 => r \in old'
    BY <1>1, <2>1, <2>2
  <2> QED  BY <1>2, <2>3 DEF OldIds
<1>8. BeforeInv'
  <2> SUFFICES ASSUME live = "old", phase # "rolled back" PROVE BeforeInv'
    BY <1>2 DEF BeforeInv
  <2>1. Consistent' /\ OldIds'
    BY <1>6, <1>7 DEF SWInv, BeforeInv
  <2>2. Copied(new)'
    <3>1. \A q \in new : q.trade \in Trades(old) \cup removed
      BY DEF SWInv, BeforeInv, Copied
    <3>2. \A q \in new' : q.trade \in Trades(old)' \cup removed'
      BY <1>3, <1>4, <3>1
    <3> QED  BY <3>2 DEF Copied
  <2>3. \A q \in new' : q.id < next'.old
    BY <1>2, <1>3 DEF SWInv, BeforeInv
  <2>4. phase' = "numbered" /\ "number" \notin undone' =>
          /\ next'.old <= oldmax' + Gap /\ next'.new = oldmax' + Gap
          /\ \A q \in new' : q.id <= oldmax'
    BY <1>2, <1>3 DEF SWInv, BeforeInv
  <2> QED  BY <2>1, <2>2, <2>3, <2>4 DEF BeforeInv
<1>9. Low' \subseteq Low
  BY <1>2, <1>3 DEF Low
<1>10. RenamedInv'
  <2> SUFFICES ASSUME live = "new", phase \in {"renamed", "swapped"}, "number" \notin undone PROVE RenamedInv'
    BY <1>2 DEF RenamedInv
  <2>1. Consistent' /\ next'.old <= oldmax' + Gap /\ oldmax' + Gap <= next'.new
    BY <1>2, <1>6 DEF SWInv, RenamedInv
  <2>2. OldIds'
    BY <1>1, <1>2 DEF SWInv, RenamedInv, OldIds
  <2>3. Copied(Low)'
    <3>1. \A q \in Low : q.trade \in Trades(old) \cup removed
      BY DEF SWInv, RenamedInv, Copied
    <3>2. \A q \in Low' : q.trade \in Trades(old)' \cup removed'
      BY <1>4, <1>9, <3>1
    <3> QED  BY <3>2 DEF Copied
  <2>4. phase' = "renamed" => \A q \in Low' : q.id <= oldmax'
    BY <1>2, <1>9 DEF SWInv, RenamedInv
  <2> QED  BY <2>1, <2>2, <2>3, <2>4 DEF RenamedInv
<1>11. CopiesInv'
  BY <1>2, <1>3, <1>4, <1>9 DEF SWInv, CopiesInv
<1>12. CoveredInv'
  BY <1>2, <1>3, <1>4 DEF SWInv, CoveredInv
<1> QED  BY <1>5, <1>8, <1>10, <1>11, <1>12 DEF SWInv

\* A day is copied, or not: of a row of the day the new table then has the trade,
\* and it gets rows of the old table only.
LEMMA CopyStep ==
  ASSUME SWInv, NEW d \in 1..2, NEW done \in BOOLEAN, Copy(d, done)
  PROVE  SWInv'
<1>1. /\ new' = IF done THEN Ignoring(new, Day(old, d)) ELSE new
      /\ old' = old /\ live' = live /\ oldmax' = oldmax /\ removed' = removed
      /\ next' = [next EXCEPT !.new = Counter(@, new')]
      /\ phase' = IF d = 1 THEN "past copied" ELSE "copied"
      /\ IF d = 1 THEN phase \in {"start", "copied"} ELSE phase = "past copied"
      /\ late' = IF d = 1 /\ done THEN {} ELSE late
  BY DEF Copy
<1>0. d = 2 => d # 1
  OBVIOUS
<1>2. phase \in Early /\ live = "old" /\ phase # "rolled back"
  BY <1>1 DEF Early, SWInv, SWTypes
<1>3. /\ d = 1 => ("copy past" \in undone' <=> ~done)
      /\ d = 2 => ("copy today" \in undone' <=> ~done) /\ ("copy past" \in undone' <=> "copy past" \in undone)
  <2>1. Mark(IF d = 1 THEN "copy past" ELSE "copy today", done)
    BY DEF Copy
  <2>2. ASSUME Mark("copy past", done) PROVE "copy past" \in undone' <=> ~done
    BY <2>2, MarkIs
  <2>3. ASSUME Mark("copy today", done)
        PROVE  ("copy today" \in undone' <=> ~done) /\ ("copy past" \in undone' <=> "copy past" \in undone)
    <3>1. \A s : s # "copy today" => (s \in undone' <=> s \in undone)
      BY <2>3 DEF Mark
    <3>2. "copy today" \in undone' <=> ~done
      BY <2>3 DEF Mark
    <3>3. "copy past" # "copy today"
      OBVIOUS
    <3> QED  BY <3>1, <3>2, <3>3
  <2>4. d = 1 => Mark("copy past", done)
    BY <2>1
  <2>5. d # 1 => Mark("copy today", done)
    BY <2>1
  <2>6. d = 2 => Mark("copy today", done)
    BY <2>5, <1>0
  <2>7. d = 1 => ("copy past" \in undone' <=> ~done)
    BY <2>4, <2>2
  <2>8. d = 2 => ("copy today" \in undone' <=> ~done) /\ ("copy past" \in undone' <=> "copy past" \in undone)
    BY <2>6, <2>3
  <2> QED  BY <2>7, <2>8
<1>4. Consistent /\ OldIds /\ Copied(new) /\ \A q \in new : q.id < next.old
  BY <1>2 DEF SWInv, BeforeInv
<1>5. /\ Trades(new) \subseteq Trades(new') /\ new' \subseteq new \cup old
      /\ done => Trades(Day(old, d)) \subseteq Trades(new')
  <2> DEFINE rows == Day(old, d)
  <2>1. rows \subseteq old /\ \A r \in rows, q \in new : q.id = r.id => q = r
    BY <1>4 DEF Day, Consistent
  <2> HIDE DEF rows
  <2>2. /\ Trades(new) \subseteq Trades(Ignoring(new, rows))
        /\ Trades(rows) \subseteq Trades(Ignoring(new, rows))
        /\ Ignoring(new, rows) \subseteq new \cup rows
    BY <2>1, IgnoringHasTrades
  <2> USE DEF rows
  <2> QED  BY <1>1, <2>1, <2>2
<1>6. \A q \in new' : q.id \in Nat /\ q.id < next.old
  BY <1>4, <1>5 DEF SWInv, SWTypes
<1>7. /\ next'.old = next.old /\ DOMAIN next' = {"old", "new"} /\ next'.new \in Nat \ {0}
      /\ \A q \in new' : q.id < next'.new
  <2>1. next.old \in Nat /\ next.new \in Nat \ {0}
    BY DEF SWInv, SWTypes
  <2>2. \A q \in new' : q.id \in Nat /\ q.id <= next.old
    BY <1>6, <2>1
  <2>3. Counter(next.new, new') \in Nat \ {0} /\ \A q \in new' : q.id < Counter(next.new, new')
    BY <2>1, <2>2, CounterIs
  <2>4. next'.new = Counter(next.new, new') /\ next'.old = next.old /\ DOMAIN next' = DOMAIN next
    BY <1>1 DEF SWInv, SWTypes
  <2> QED  BY <2>3, <2>4 DEF SWInv, SWTypes
<1>8. SWTypes'
  <2>1. phase' \in Early
    BY <1>1 DEF Early
  <2>2. \A r \in old' \cup new' : r.id \in Nat \ {0} /\ r.day \in {1, 2}
    BY <1>1, <1>5 DEF SWInv, SWTypes
  <2>3. \A r \in old' : r.id < next'.old
    BY <1>1, <1>7 DEF SWInv, SWTypes
  <2>4. oldmax' \in Nat /\ next'.old \in Nat \ {0} /\ live' \in {"old", "new"} /\ live' = "old"
    BY <1>1, <1>2, <1>7 DEF SWInv, SWTypes
  <2> QED  BY <1>7, <2>1, <2>2, <2>3, <2>4 DEF SWTypes
<1>9. BeforeInv'
  <2>1. Consistent'
    BY <1>1, <1>4, <1>5 DEF Consistent
  <2>2. OldIds'
    BY <1>1, <1>4, <1>7 DEF OldIds
  <2>3. Copied(new)'
    <3>1. \A q \in new \cup old : q.trade \in Trades(old) \cup removed
      BY <1>4 DEF Copied, Trades
    <3>2. \A q \in new' : q.trade \in Trades(old)' \cup removed'
      BY <1>1, <1>5, <3>1
    <3> QED  BY <3>2 DEF Copied
  <2>4. \A q \in new' : q.id < next'.old
    BY <1>6, <1>7
  <2>5. phase' # "numbered"
    BY <1>1
  <2> QED  BY <2>1, <2>2, <2>3, <2>4, <2>5 DEF BeforeInv
<1>10. RenamedInv' /\ CoveredInv'
  BY <1>1, <1>2 DEF RenamedInv, CoveredInv
<1>11. CopiesInv'
  <2>1. done => \A r \in old : r.day = d => r.trade \in Kept(new)'
    BY <1>5 DEF Day, Trades, Kept
  <2>2. CASE d = 1
    BY <1>1, <1>2, <1>3, <2>1, <2>2 DEF CopiesInv
  <2>3. CASE d = 2
    <3>1. "copy past" \notin undone => \A r \in old : r.day = 1 => r.trade \in Kept(new)
      BY <1>0, <1>1, <2>3 DEF SWInv, CopiesInv
    <3>2. Kept(new) \subseteq Kept(new)'
      BY <1>0, <1>1, <1>5, <2>3 DEF Kept
    <3>3. "copy past" \notin undone' /\ done => \A r \in old' : r.trade \in Kept(new)'
      BY <1>1, <1>3, <2>1, <2>3, <3>1, <3>2 DEF SWInv, SWTypes
    <3> QED  BY <1>0, <1>1, <1>2, <1>3, <2>3, <3>3 DEF CopiesInv
  <2> QED  BY <2>2, <2>3
<1> QED  BY <1>8, <1>9, <1>10, <1>11 DEF SWInv

LEMMA VerifyStep ==
  ASSUME SWInv, Verify
  PROVE  SWInv'
<1>1. /\ phase = "copied" /\ phase' = "verified" /\ old' = old /\ new' = new /\ live' = live
      /\ oldmax' = oldmax /\ next' = next /\ removed' = removed /\ late' = late /\ undone' = undone
  BY DEF Verify
<1>2. live = "old"
  BY <1>1 DEF SWInv, SWTypes, Early
<1> QED  BY <1>1, <1>2 DEF SWInv, SWTypes, BeforeInv, RenamedInv, CopiesInv, CoveredInv, Consistent, OldIds, Copied, Kept, Early, Later

\* Every row is at or below OLDMAX, the new numbers are Gap beyond - if they are.
LEMMA NumberStep ==
  ASSUME SWInv, NEW failed \in SUBSET {"disable", "number"}, Number(failed)
  PROVE  SWInv'
<1>1. /\ phase' = "numbered" /\ old' = old /\ new' = new /\ live' = live /\ removed' = removed /\ late' = late
      /\ phase = "verified" \/ (phase = "swapped" /\ live = "old")
  BY DEF Number, Starts
<1>2. live = "old" /\ phase # "rolled back"
  BY <1>1 DEF SWInv, SWTypes, Early
<1>3. Consistent /\ OldIds /\ Copied(new) /\ \A q \in new : q.id < next.old /\ q.id \in Nat
  BY <1>2 DEF SWInv, BeforeInv, SWTypes
<1>4. oldmax' = next.old - 1 /\ next.old \in Nat \ {0} /\ Gap \in Nat \ {0}
  BY <1>3, NewestRow, SwapAssumption DEF Number, SWInv, SWTypes
<1>5. /\ next'.old = next.old /\ DOMAIN next' = {"old", "new"}
      /\ next'.new = IF "number" \in failed THEN next.new ELSE oldmax' + Gap
  BY DEF Number, SWInv, SWTypes
<1>6. /\ "number" \notin undone' => "number" \notin failed
      /\ "copy past" \in undone' <=> "copy past" \in undone
      /\ "copy today" \in undone' <=> "copy today" \in undone
  BY DEF Number
<1>7. SWTypes'
  <2>1. oldmax' \in Nat /\ next'.new \in Nat \ {0}
    BY <1>4, <1>5 DEF SWInv, SWTypes
  <2>2. \A q \in new' : q.id < next'.new
    BY <1>1, <1>3, <1>4, <1>5 DEF SWInv, SWTypes
  <2>3. \A r \in old' : r.id < next'.old
    BY <1>1, <1>5 DEF SWInv, SWTypes
  <2> QED  BY <1>1, <1>2, <1>4, <1>5, <2>1, <2>2, <2>3 DEF SWInv, SWTypes, Early
<1>8. Consistent' /\ OldIds' /\ Copied(new)'
  BY <1>1, <1>3, <1>5 DEF Consistent, OldIds, Copied
<1>9. (\A q \in new : q.id <= oldmax') /\ next.old <= oldmax' + Gap
  BY <1>3, <1>4
<1>10. BeforeInv'
  <2>1. \A q \in new' : q.id < next'.old
    BY <1>1, <1>3, <1>5
  <2>2. "number" \notin undone' =>
          /\ next'.old <= oldmax' + Gap /\ next'.new = oldmax' + Gap
          /\ \A q \in new' : q.id <= oldmax'
    BY <1>1, <1>5, <1>6, <1>9
  <2> QED  BY <1>8, <2>1, <2>2 DEF BeforeInv
<1>11. RenamedInv' /\ CoveredInv'
  BY <1>1, <1>2 DEF RenamedInv, CoveredInv
<1>12. CopiesInv'
  <2>1. Kept(new)' = Kept(new)
    BY <1>1 DEF Kept
  <2>2. "copy past" \notin undone /\ "copy today" \notin undone =>
          \A r \in old : r.trade \in Kept(new) \/ \A q \in new : q.id < r.id
    BY <1>1, <1>2 DEF SWInv, CopiesInv
  <2> QED  BY <1>1, <1>2, <1>6, <2>1, <2>2 DEF CopiesInv
<1> QED  BY <1>7, <1>10, <1>11, <1>12 DEF SWInv

LEMMA RenameStep ==
  ASSUME SWInv, NEW done \in BOOLEAN, Rename(done)
  PROVE  SWInv'
<1>1. /\ phase = "numbered" /\ phase' = "renamed" /\ old' = old /\ new' = new
      /\ oldmax' = oldmax /\ next' = next /\ removed' = removed /\ late' = late
      /\ live' = IF done THEN "new" ELSE live
      /\ undone' = undone \cup {"delta", "back"}
  BY DEF Rename
<1>2. live = "old"
  BY <1>1 DEF SWInv, SWTypes, Early
<1>3. /\ Consistent /\ OldIds /\ Copied(new) /\ \A q \in new : q.id < next.old
      /\ "number" \notin undone => /\ next.old <= oldmax + Gap /\ next.new = oldmax + Gap
                                   /\ \A q \in new : q.id <= oldmax
      /\ Gap \in Nat \ {0} /\ oldmax \in Nat /\ \A q \in new : q.id \in Nat
  BY <1>1, <1>2, SwapAssumption DEF SWInv, BeforeInv, SWTypes
<1>4. /\ "number" \in undone' <=> "number" \in undone
      /\ "copy past" \in undone' <=> "copy past" \in undone
      /\ "copy today" \in undone' <=> "copy today" \in undone
      /\ "delta" \in undone' /\ "back" \in undone'
  BY <1>1
<1>5. Consistent' /\ OldIds' /\ Copied(new)'
  BY <1>1, <1>3 DEF Consistent, OldIds, Copied
<1>6. SWTypes'
  BY <1>1, <1>2 DEF SWInv, SWTypes, Early, Later
<1>7. BeforeInv'
  BY <1>1, <1>3, <1>5 DEF BeforeInv
<1>8. Low' = Low /\ ("number" \notin undone => Low = new)
  BY <1>1, <1>3 DEF Low
<1>9. RenamedInv'
  <2> SUFFICES ASSUME "number" \notin undone PROVE RenamedInv'
    BY <1>4 DEF RenamedInv
  <2>1. Copied(Low)'
    <3>1. \A q \in new : q.trade \in Trades(old) \cup removed
      BY <1>3 DEF Copied
    <3>2. \A q \in Low' : q.trade \in Trades(old)' \cup removed'
      BY <1>1, <1>8, <3>1
    <3> QED  BY <3>2 DEF Copied
  <2>2. \A q \in Low' : q.id <= oldmax'
    BY <1>1, <1>3, <1>8
  <2>3. next'.old <= oldmax' + Gap /\ oldmax' + Gap <= next'.new
    BY <1>1, <1>3
  <2> QED  BY <1>5, <2>1, <2>2, <2>3 DEF RenamedInv
<1>10. CopiesInv'
  <2>1. Kept(new)' = Kept(new)
    BY <1>1 DEF Kept
  <2>2. "copy past" \notin undone /\ "copy today" \notin undone =>
          \A r \in old : r.trade \in Kept(new) \/ \A q \in new : q.id < r.id
    BY <1>1, <1>2 DEF SWInv, CopiesInv
  <2> QED  BY <1>1, <1>4, <1>8, <2>1, <2>2 DEF CopiesInv
<1>11. CoveredInv'
  BY <1>1, <1>4 DEF CoveredInv
<1> QED  BY <1>6, <1>7, <1>9, <1>10, <1>11 DEF SWInv

\* The difference is copied: what is behind the copies is beyond the largest of them.
LEMMA CopyDeltaStep ==
  ASSUME SWInv, NEW done \in BOOLEAN, CopyDelta(done)
  PROVE  SWInv'
<1>1. /\ new' = IF done THEN Ignoring(new, Delta) ELSE new
      /\ phase = "renamed" /\ phase' = "swapped" /\ (done => live = "new")
      /\ old' = old /\ live' = live /\ oldmax' = oldmax /\ removed' = removed /\ late' = late
      /\ next' = [next EXCEPT !.new = Counter(@, new')]
  BY DEF CopyDelta
<1>2. /\ \A s : s # "delta" => (s \in undone' <=> s \in undone)
      /\ "delta" \in undone' <=> ~done
  BY MarkIs DEF CopyDelta
<1>3. /\ \A r \in old \cup new : r.id \in Nat \ {0}
      /\ oldmax \in Nat /\ Gap \in Nat \ {0} /\ next.old \in Nat /\ next.new \in Nat \ {0}
  BY SwapAssumption DEF SWInv, SWTypes
<1>4. new \subseteq new' /\ new' \subseteq new \cup old
  <2>1. Delta \subseteq old
    BY DEF Delta
  <2> HIDE DEF Delta
  <2> QED  BY <1>1, <2>1, IgnoringAdds
<1>5. /\ next'.old = next.old /\ DOMAIN next' = {"old", "new"} /\ next'.new \in Nat \ {0}
      /\ next'.new >= next.new /\ \A q \in new' : q.id < next'.new
  <2> DEFINE m == next.old + next.new
  <2>1. m \in Nat /\ \A q \in new' : q.id \in Nat /\ q.id <= m
    BY <1>3, <1>4 DEF SWInv, SWTypes
  <2> HIDE DEF m
  <2>2. /\ Counter(next.new, new') \in Nat \ {0} /\ Counter(next.new, new') >= next.new
        /\ \A q \in new' : q.id < Counter(next.new, new')
    BY <1>3, <2>1, CounterIs
  <2>3. next'.new = Counter(next.new, new') /\ next'.old = next.old /\ DOMAIN next' = DOMAIN next
    BY <1>1 DEF SWInv, SWTypes
  <2> QED  BY <2>2, <2>3 DEF SWInv, SWTypes
<1>6. Kept(new) \subseteq Kept(new)' /\ Kept(old)' = Kept(old)
  BY <1>1, <1>4 DEF Kept, Trades
<1>7. SWTypes'
  <2>1. \A r \in old' \cup new' : r.id \in Nat \ {0} /\ r.day \in {1, 2}
    BY <1>1, <1>4 DEF SWInv, SWTypes
  <2>2. \A r \in old' : r.id < next'.old
    BY <1>1, <1>5 DEF SWInv, SWTypes
  <2>3. phase' \in Later /\ phase' \notin Early /\ live' \in {"old", "new"} /\ oldmax' \in Nat /\ next'.old \in Nat \ {0}
    BY <1>1, <1>5 DEF SWInv, SWTypes, Early, Later
  <2> QED  BY <1>5, <2>1, <2>2, <2>3 DEF SWTypes
<1>8. BeforeInv'
  <2> SUFFICES ASSUME live = "old" PROVE BeforeInv'
    BY <1>1 DEF BeforeInv
  <2>1. new' = new
    BY <1>1
  <2>2. Consistent /\ OldIds /\ Copied(new) /\ \A q \in new : q.id < next.old
    BY <1>1 DEF SWInv, BeforeInv
  <2>3. Consistent' /\ OldIds' /\ Copied(new)' /\ \A q \in new' : q.id < next'.old
    BY <1>1, <1>5, <2>1, <2>2 DEF Consistent, OldIds, Copied
  <2> QED  BY <1>1, <2>3 DEF BeforeInv
<1>9. live = "new" /\ "number" \notin undone =>
        /\ Consistent /\ OldIds /\ Copied(Low) /\ next.old <= oldmax + Gap /\ oldmax + Gap <= next.new
        /\ \A q \in Low : q.id <= oldmax
  BY <1>1 DEF SWInv, RenamedInv
<1>10. RenamedInv'
  <2> SUFFICES ASSUME live = "new", "number" \notin undone PROVE RenamedInv'
    BY <1>1, <1>2 DEF RenamedInv
  <2>1. Consistent'
    BY <1>1, <1>4, <1>9 DEF Consistent
  <2>2. OldIds'
    BY <1>1, <1>5, <1>9 DEF OldIds
  <2>3. Copied(Low)'
    <3>1. \A q \in old \cup Low : q.trade \in Trades(old) \cup removed
      BY <1>9 DEF Copied, Trades
    <3>2. Low' \subseteq old \cup Low
      BY <1>1, <1>4 DEF Low
    <3>3. \A q \in Low' : q.trade \in Trades(old)' \cup removed'
      BY <1>1, <3>1, <3>2
    <3> QED  BY <3>3 DEF Copied
  <2>4. next'.old <= oldmax' + Gap /\ oldmax' + Gap <= next'.new
    <3>1. next.old <= oldmax + Gap /\ oldmax + Gap <= next.new
      BY <1>9
    <3>2. oldmax + Gap <= next'.new
      BY <1>3, <1>5, <3>1
    <3> QED  BY <1>1, <1>5, <3>1, <3>2
  <2> QED  BY <1>1, <2>1, <2>2, <2>3, <2>4 DEF RenamedInv
<1>11. CopiesInv'
  <2> SUFFICES ASSUME live = "old", "copy past" \notin undone, "copy today" \notin undone
               PROVE  \A r \in old : r.trade \in Kept(new)' \/ \A q \in new' : q.id < r.id
    BY <1>1, <1>2 DEF CopiesInv
  <2>1. new' = new
    BY <1>1
  <2>2. \A r \in old : r.trade \in Kept(new) \/ \A q \in new : q.id < r.id
    BY <1>1 DEF SWInv, CopiesInv
  <2> QED  BY <1>6, <2>1, <2>2
<1>12. CoveredInv'
  <2>1. ASSUME live = "new", "copy past" \notin undone, "copy today" \notin undone, "number" \notin undone, done
        PROVE  \A r \in old : r.trade \in Kept(new)'
    <3>1. {q \in new : q.id <= oldmax} = Low
      <4>1. \A q \in new : q.id <= oldmax => q.id < oldmax + Gap
        BY <1>3
      <4>2. \A q \in Low : q.id <= oldmax
        BY <1>9, <2>1
      <4> QED  BY <4>1, <4>2 DEF Low
    <3>2. MaxId(Low) \in {r.id : r \in Low} \cup {0}
      <4>1. \A q \in Low : q.id <= oldmax /\ q.id \in Nat \ {0}
        BY <1>3, <1>9, <2>1 DEF Low
      <4>3. \A q \in Low : q.id \in 0..oldmax
        BY <1>3, <4>1
      <4> QED  BY <1>3, <4>3, MaxIdBounds
    <3>3. ASSUME NEW r \in old, \A q \in Low : q.id < r.id
          PROVE  r \in Delta
      <4>1. r.id > MaxId(Low)
        BY <1>3, <3>2, <3>3
      <4> QED  BY <3>1, <4>1 DEF Delta
    <3>4. \A r \in old : r.trade \in Kept(new) \/ \A q \in Low : q.id < r.id
      BY <1>1, <2>1 DEF SWInv, CopiesInv
    <3>5. Trades(Delta) \subseteq Trades(new')
      <4>1. Delta \subseteq old
        BY DEF Delta
      <4>2. \A r \in Delta, q \in new : q.id = r.id => q = r
        BY <1>9, <2>1, <4>1 DEF Consistent
      <4> HIDE DEF Delta
      <4> QED  BY <1>1, <2>1, <4>1, <4>2, IgnoringHasTrades
    <3>6. \A r \in Delta : r.trade \in Kept(new)'
      BY <3>5 DEF Trades, Kept
    <3> QED  BY <1>6, <3>3, <3>4, <3>6
  <2>2. "back" \in undone'
    BY <1>1, <1>2 DEF SWInv, CoveredInv
  <2> QED  BY <1>1, <1>2, <2>1, <2>2 DEF CoveredInv
<1> QED  BY <1>7, <1>8, <1>10, <1>11, <1>12 DEF SWInv

\* Rows of the producer are beyond every id of the old table, so they are copied
\* back; of the others the old table has the trade.
LEMMA CopyBackStep ==
  ASSUME SWInv, NEW done \in BOOLEAN, CopyBack(done)
  PROVE  SWInv'
<1> DEFINE rows == {r \in new : r.id > MaxId(old)}
<1>1. /\ old' = IF done THEN Ignoring(old, rows) ELSE old
      /\ phase \in {"renamed", "swapped"} /\ phase' = "copied back" /\ (done => live = "new")
      /\ new' = new /\ live' = live /\ oldmax' = oldmax /\ removed' = removed /\ late' = late
      /\ next' = [next EXCEPT !.old = Counter(@, old')]
  BY DEF CopyBack
<1>2. /\ \A s : s # "back" => (s \in undone' <=> s \in undone)
      /\ "back" \in undone' <=> ~done
  BY MarkIs DEF CopyBack
<1>3. rows \subseteq new
  OBVIOUS
<1>4. old \subseteq old' /\ old' \subseteq old \cup new /\ old' \subseteq old \cup rows
  <2> HIDE DEF rows
  <2> QED  BY <1>1, <1>3, IgnoringAdds
<1>5. /\ \A r \in old \cup new : r.id \in Nat \ {0}
      /\ oldmax \in Nat /\ Gap \in Nat \ {0} /\ next.old \in Nat \ {0} /\ next.new \in Nat \ {0}
  BY SwapAssumption DEF SWInv, SWTypes
<1>6. /\ next'.new = next.new /\ DOMAIN next' = {"old", "new"} /\ next'.old \in Nat \ {0}
      /\ (\A q \in old' : q.id < next'.old) /\ (old' = old => next'.old = next.old)
  <2> DEFINE m == next.old + next.new
  <2>1. m \in Nat /\ \A q \in old' : q.id \in Nat /\ q.id <= m
    BY <1>4, <1>5 DEF SWInv, SWTypes
  <2> HIDE DEF m
  <2>2. /\ Counter(next.old, old') \in Nat \ {0}
        /\ \A q \in old' : q.id < Counter(next.old, old')
        /\ (\A q \in old' : q.id < next.old) => Counter(next.old, old') = next.old
    BY <1>5, <2>1, CounterIs
  <2>3. next'.old = Counter(next.old, old') /\ next'.new = next.new /\ DOMAIN next' = DOMAIN next
    BY <1>1 DEF SWInv, SWTypes
  <2>4. \A q \in old : q.id < next.old
    BY DEF SWInv, SWTypes
  <2> QED  BY <2>2, <2>3, <2>4 DEF SWInv, SWTypes
<1>7. Kept(old) \subseteq Kept(old)' /\ Kept(new)' = Kept(new)
  BY <1>1, <1>4 DEF Kept, Trades
<1>8. SWTypes'
  <2>1. \A r \in old' \cup new' : r.id \in Nat \ {0} /\ r.day \in {1, 2}
    BY <1>1, <1>4 DEF SWInv, SWTypes
  <2>2. \A r \in new' : r.id < next'.new
    BY <1>1, <1>6 DEF SWInv, SWTypes
  <2>3. phase' \in Later /\ phase' \notin Early /\ live' \in {"old", "new"} /\ oldmax' \in Nat /\ next'.new \in Nat \ {0}
    BY <1>1, <1>6 DEF SWInv, SWTypes, Early, Later
  <2> QED  BY <1>6, <2>1, <2>2, <2>3 DEF SWTypes
<1>9. BeforeInv'
  <2> SUFFICES ASSUME live = "old" PROVE BeforeInv'
    BY <1>1 DEF BeforeInv
  <2>1. old' = old
    BY <1>1
  <2>2. Consistent /\ OldIds /\ Copied(new) /\ \A q \in new : q.id < next.old
    BY <1>1 DEF SWInv, BeforeInv
  <2>3. Consistent' /\ OldIds' /\ Copied(new)' /\ \A q \in new' : q.id < next'.old
    BY <1>1, <1>6, <2>1, <2>2 DEF Consistent, OldIds, Copied
  <2> QED  BY <1>1, <2>3 DEF BeforeInv
<1>10. RenamedInv' /\ CopiesInv'
  BY <1>1 DEF RenamedInv, CopiesInv
<1>11. ASSUME live = "new", "number" \notin undone, done
       PROVE  \A q \in new' : q.trade \in Kept(old)'
  <2>1. Consistent /\ OldIds /\ Copied(Low) /\ next.old <= oldmax + Gap
    BY <1>1, <1>11 DEF SWInv, RenamedInv
  <2>2. MaxId(old) = next.old - 1
    BY <2>1, NewestRow DEF SWInv
  <2>3. \A r \in rows, q \in old : q.id = r.id => q = r
    BY <2>1 DEF Consistent
  <2>4. \A q \in new : q \in rows \/ q \in Low
    BY <1>5, <2>1, <2>2 DEF Low
  <2> HIDE DEF rows
  <2>5. Trades(rows) \subseteq Trades(old')
    BY <1>1, <1>11, <2>3, IgnoringHasTrades
  <2>6. \A q \in rows : q.trade \in Kept(old)'
    BY <2>5 DEF Trades, Kept
  <2>7. \A q \in Low : q.trade \in Kept(old)
    BY <2>1 DEF Copied, Kept
  <2> QED  BY <1>1, <1>7, <2>4, <2>6, <2>7
<1>12. CoveredInv'
  <2>1. ASSUME live = "new", "copy past" \notin undone, "copy today" \notin undone,
               "number" \notin undone, "delta" \notin undone
        PROVE  \A r \in old' : r.trade \in Kept(new)
    <3>1. \A r \in old : r.trade \in Kept(new)
      BY <2>1 DEF SWInv, CoveredInv
    <3>2. \A r \in new : r.trade \in Kept(new)
      BY DEF Kept, Trades
    <3> QED  BY <1>4, <3>1, <3>2
  <2> QED  BY <1>1, <1>2, <1>7, <1>11, <2>1 DEF CoveredInv
<1> QED  BY <1>8, <1>9, <1>10, <1>12 DEF SWInv

LEMMA RenameBackStep ==
  ASSUME SWInv, NEW done \in BOOLEAN, RenameBack(done)
  PROVE  SWInv'
<1>1. /\ phase = "copied back" /\ phase' = "rolled back" /\ old' = old /\ new' = new
      /\ live' = IF done THEN "old" ELSE live
      /\ oldmax' = oldmax /\ next' = next /\ removed' = removed /\ late' = late /\ undone' = undone
  BY DEF RenameBack
<1>2. Kept(old)' = Kept(old) /\ Kept(new)' = Kept(new)
  BY <1>1 DEF Kept
<1>3. SWTypes'
  BY <1>1 DEF SWInv, SWTypes, Early, Later
<1>4. BeforeInv' /\ RenamedInv' /\ CopiesInv'
  BY <1>1 DEF BeforeInv, RenamedInv, CopiesInv
<1>5. CoveredInv'
  BY <1>1, <1>2 DEF SWInv, CoveredInv
<1> QED  BY <1>3, <1>4, <1>5 DEF SWInv

LEMMA SWKeeps ==
  ASSUME SWInv, SWNext \/ UNCHANGED swVars
  PROVE  SWInv'
<1>1. CASE \E t \in 1..MaxTrades : Cleanup(t)
  BY <1>1, CleanupStep
<1>2. CASE \E t \in 1..MaxTrades, d \in 1..2 : Produce(t, d)
  <2>1. live \in {"old", "new"}
    BY DEF SWInv, SWTypes
  <2> QED  BY <1>2, <2>1, ProduceOldStep, ProduceNewStep
<1>3. CASE \E d \in 1..2, done \in BOOLEAN : Copy(d, done)
  BY <1>3, CopyStep
<1>4. CASE \E failed \in SUBSET {"disable", "number"} : Number(failed)
  BY <1>4, NumberStep
<1>5. CASE \E done \in BOOLEAN : Rename(done) \/ CopyDelta(done) \/ CopyBack(done) \/ RenameBack(done)
  BY <1>5, RenameStep, CopyDeltaStep, CopyBackStep, RenameBackStep
<1>6. CASE UNCHANGED swVars
  <2>1. /\ phase' = phase /\ old' = old /\ new' = new /\ live' = live /\ undone' = undone
        /\ oldmax' = oldmax /\ next' = next /\ removed' = removed /\ late' = late
    BY <1>6 DEF swVars
  <2> QED  BY <2>1 DEF SWInv, SWTypes, BeforeInv, RenamedInv, CopiesInv, CoveredInv, Consistent, OldIds, Copied, Kept, Low
<1> QED  BY <1>1, <1>2, <1>3, <1>4, <1>5, <1>6, VerifyStep DEF SWNext

LEMMA SwappedByInv == SWInv => SwapLosesNothing
<1> SUFFICES ASSUME SWInv, phase \in {"swapped", "rolled back"}, undone \cap Needed = {}
             PROVE  Trades(old \cup new) \ (removed \cup late) \subseteq Trades(Live)
  BY DEF SwapLosesNothing
<1>1. Trades(old \cup new) = Trades(old) \cup Trades(new)
  BY DEF Trades
<1>2. CASE live = "new"
  <2>1. "copy past" \notin undone /\ "copy today" \notin undone /\ "number" \notin undone /\ "delta" \notin undone
    BY <1>2 DEF Needed
  <2>2. \A r \in old : r.trade \in Kept(new)
    BY <1>2, <2>1 DEF SWInv, CoveredInv
  <2>3. Trades(old) \subseteq Trades(new) \cup removed \cup late
    BY <2>2 DEF Kept, Trades
  <2>4. Live = new
    BY <1>2 DEF Live
  <2> QED  BY <1>1, <2>3, <2>4
<1>3. CASE live = "old"
  <2>1. Live = old
    BY <1>3 DEF Live
  <2>2. \A q \in new : q.trade \in Kept(old)
    <3>1. CASE phase = "swapped"
      BY <1>3, <3>1 DEF SWInv, BeforeInv, Copied, Kept
    <3>2. CASE phase = "rolled back"
      <4>1. "number" \notin undone /\ "back" \notin undone
        BY <1>3, <3>2 DEF Needed
      <4> QED  BY <3>2, <4>1 DEF SWInv, CoveredInv
    <3> QED  BY <3>1, <3>2
  <2>3. Trades(new) \subseteq Trades(old) \cup removed \cup late
    BY <2>2 DEF Kept, Trades
  <2> QED  BY <1>1, <2>1, <2>3
<1> QED  BY <1>2, <1>3 DEF SWInv, SWTypes

-----------------------------------------------------------------------------
(* The onboarding of a table *)

Events == [op : {"c", "u", "d", "r"}, key : Keys, version : Nat \ {0}]
Rows == [key : Keys, version : Nat \ {0}]

OBTypes ==
  /\ source \in [Keys -> Nat] /\ buried \in [Keys -> Nat]
  /\ feed \in Seq(Events) /\ got \in 0..Len(feed)
  /\ target \in [Keys -> [version : Nat, deleted : BOOLEAN]]
  /\ DOMAIN scan = {"keys", "rows"} /\ scan.keys \subseteq Keys /\ scan.rows \subseteq Rows

\* A version of the row is the present one or less, or its deletion was published.
Past(src, log, k, v) ==
  \/ v <= src[k]
  \/ \E i \in 1..Len(log) : log[i].op = "d" /\ log[i].key = k /\ log[i].version >= v

\* The events published, and the rows about to be.
Truthful ==
  /\ \A i \in 1..Len(feed) : IF feed[i].op = "d" THEN feed[i].version <= buried[feed[i].key]
                             ELSE Past(source, feed, feed[i].key, feed[i].version)
  /\ \A r \in scan.rows : Past(source, feed, r.key, r.version)

\* Nothing is published and nothing is read before the table is in the list.
Included == "included" \in made \/ (feed = <<>> /\ scan = NoScan /\ script \notin {"signal", "wait", "done"})

\* From the signal on the present version of a row is published, or about to be,
\* or the row is still to be read.
Found(log, k, v) == \E i \in 1..Len(log) : log[i].op # "d" /\ log[i].key = k /\ log[i].version = v

Scanned ==
  script \in {"wait", "done"} =>
    \A k \in Keys \ scan.keys : source[k] > 0 =>
      Found(feed, k, source[k]) \/ [key |-> k, version |-> source[k]] \in scan.rows

\* The view holds, of what it has read, an event of the highest rank.
Highest ==
  /\ \A i \in 1..got : Rank(feed[i]) <= target[feed[i].key].version
  /\ \A k \in Keys : \/ target[k] = [version |-> 0, deleted |-> TRUE]
                     \/ \E i \in 1..got : feed[i].key = k /\ target[k] = [version |-> Rank(feed[i]), deleted |-> feed[i].op = "d"]

OBInv == OBTypes /\ Truthful /\ Included /\ Scanned /\ Highest

LEMMA OBStarts == OBInit => OBInv
BY DEF OBInit, OBInv, OBTypes, Truthful, Included, Scanned, Highest, NoScan

\* The feed keeps what it has and may get one event more.
LEMMA Published ==
  ASSUME OBTypes, NEW e \in Events,
         feed' = IF "included" \in made THEN Append(feed, e) ELSE feed
  PROVE  /\ feed' \in Seq(Events) /\ Len(feed') \in Nat /\ Len(feed) \in Nat /\ Len(feed') >= Len(feed)
         /\ \A i \in 1..Len(feed) : feed'[i] = feed[i]
         /\ \A i \in 1..Len(feed') : i \in 1..Len(feed) \/ ("included" \in made /\ feed'[i] = e)
         /\ "included" \in made => Len(feed') \in 1..Len(feed') /\ feed'[Len(feed')] = e
<1>1. CASE "included" \in made
  <2>1. feed' = Append(feed, e) /\ feed \in Seq(Events)
    BY <1>1 DEF OBTypes
  <2>2. feed' \in Seq(Events) /\ Len(feed') = Len(feed) + 1 /\ Len(feed) \in Nat
    BY <2>1
  <2>3. \A i \in 1..Len(feed') : feed'[i] = IF i <= Len(feed) THEN feed[i] ELSE e
    BY <2>1
  <2> QED  BY <1>1, <2>2, <2>3
<1>2. CASE "included" \notin made
  BY <1>2 DEF OBTypes
<1> QED  BY <1>1, <1>2

\* The view reads on as the feed grows.
LEMMA HighestKept ==
  ASSUME OBInv, NEW e \in Events, feed' = IF "included" \in made THEN Append(feed, e) ELSE feed,
         got' = got, target' = target
  PROVE  Highest' /\ got' \in 0..Len(feed')
<1>1. /\ Len(feed) \in Nat /\ Len(feed') \in Nat /\ Len(feed') >= Len(feed)
      /\ \A i \in 1..Len(feed) : feed'[i] = feed[i]
  BY Published DEF OBInv
<1>2. got \in 0..Len(feed)
  BY DEF OBInv, OBTypes
<1>3. \A i \in 1..got : i \in 1..Len(feed) /\ feed'[i] = feed[i]
  BY <1>1, <1>2
<1>4. got' \in 0..Len(feed')
  BY <1>1, <1>2
<1>5. Highest'
  <2>1. ASSUME NEW i \in 1..got PROVE Rank(feed'[i]) <= target[feed'[i].key].version
    BY <1>3, <2>1 DEF OBInv, Highest
  <2>2. ASSUME NEW k \in Keys
        PROVE  \/ target[k] = [version |-> 0, deleted |-> TRUE]
               \/ \E i \in 1..got : feed'[i].key = k /\ target[k] = [version |-> Rank(feed'[i]), deleted |-> feed'[i].op = "d"]
    <3>1. CASE \E i \in 1..got : feed[i].key = k /\ target[k] = [version |-> Rank(feed[i]), deleted |-> feed[i].op = "d"]
      <4>1. PICK i \in 1..got : feed[i].key = k /\ target[k] = [version |-> Rank(feed[i]), deleted |-> feed[i].op = "d"]
        BY <3>1
      <4>2. feed'[i] = feed[i]
        BY <1>3
      <4>3. feed'[i].key = k /\ target[k] = [version |-> Rank(feed'[i]), deleted |-> feed'[i].op = "d"]
        BY <4>1, <4>2
      <4> QED  BY <4>3
    <3> QED  BY <3>1 DEF OBInv, Highest
  <2> QED  BY <2>1, <2>2 DEF Highest
<1> QED  BY <1>4, <1>5

\* What was past stays past when the row stays or gets a higher version.
LEMMA PastKept ==
  ASSUME OBInv, NEW e \in Events, feed' = IF "included" \in made THEN Append(feed, e) ELSE feed,
         NEW k \in Keys, NEW v \in Nat, Past(source, feed, k, v), source'[k] \in Nat,
         source'[k] >= source[k] \/ (feed' = Append(feed, e) /\ e.op = "d" /\ e.key = k /\ e.version = source[k])
  PROVE  Past(source', feed', k, v)
<1>1. /\ Len(feed) \in Nat /\ Len(feed') \in Nat /\ Len(feed') >= Len(feed)
      /\ \A i \in 1..Len(feed) : i \in 1..Len(feed') /\ feed'[i] = feed[i]
  BY Published DEF OBInv
<1>2. source[k] \in Nat
  BY DEF OBInv, OBTypes
<1>3. CASE \E i \in 1..Len(feed) : feed[i].op = "d" /\ feed[i].key = k /\ feed[i].version >= v
  BY <1>1, <1>3 DEF Past
<1>4. CASE v <= source[k] /\ source'[k] >= source[k]
  BY <1>2, <1>4 DEF Past
<1>5. CASE v <= source[k] /\ feed' = Append(feed, e) /\ e.op = "d" /\ e.key = k /\ e.version = source[k]
  <2>1. Len(feed') \in 1..Len(feed') /\ feed'[Len(feed')] = e
    BY <1>5 DEF OBInv, OBTypes
  <2> QED  BY <1>5, <2>1 DEF Past
<1> QED  BY <1>3, <1>4, <1>5 DEF Past

LEMMA FoundKept ==
  ASSUME OBInv, NEW e \in Events, feed' = IF "included" \in made THEN Append(feed, e) ELSE feed,
         NEW k, NEW v, Found(feed, k, v)
  PROVE  Found(feed', k, v)
<1>1. \A i \in 1..Len(feed) : i \in 1..Len(feed') /\ feed'[i] = feed[i]
  BY Published DEF OBInv
<1> QED  BY <1>1 DEF Found

LEMMA TruthfulKept ==
  ASSUME OBInv, NEW e \in Events, feed' = IF "included" \in made THEN Append(feed, e) ELSE feed,
         buried' \in [Keys -> Nat], \A c \in Keys : buried'[c] >= buried[c],
         \A c \in Keys, v \in Nat : Past(source, feed, c, v) => Past(source', feed', c, v),
         IF e.op = "d" THEN e.version <= buried'[e.key] ELSE Past(source', feed', e.key, e.version),
         scan'.rows \subseteq scan.rows
  PROVE  Truthful'
<1>1. /\ \A i \in 1..Len(feed) : feed'[i] = feed[i]
      /\ \A i \in 1..Len(feed') : i \in 1..Len(feed) \/ feed'[i] = e
  BY Published DEF OBInv
<1>2. ASSUME NEW i \in 1..Len(feed')
      PROVE  IF feed'[i].op = "d" THEN feed'[i].version <= buried'[feed'[i].key]
             ELSE Past(source', feed', feed'[i].key, feed'[i].version)
  <2>1. CASE i \in 1..Len(feed)
    <3>1. feed[i] \in Events /\ feed'[i] = feed[i]
      BY <1>1, <2>1 DEF OBInv, OBTypes
    <3>2. feed[i].key \in Keys /\ feed[i].version \in Nat
      BY <3>1 DEF Events
    <3>3. IF feed[i].op = "d" THEN feed[i].version <= buried[feed[i].key] ELSE Past(source, feed, feed[i].key, feed[i].version)
      BY <2>1 DEF OBInv, Truthful
    <3>4. CASE feed[i].op = "d"
      <4>1. buried[feed[i].key] \in Nat /\ buried'[feed[i].key] \in Nat
        BY <3>2 DEF OBInv, OBTypes
      <4> QED  BY <3>1, <3>2, <3>3, <3>4, <4>1
    <3>5. CASE feed[i].op # "d"
      BY <3>1, <3>2, <3>3, <3>5
    <3> QED  BY <3>4, <3>5
  <2>2. CASE feed'[i] = e
    BY <2>2
  <2> QED  BY <1>1, <2>1, <2>2
<1>3. \A r \in scan'.rows : Past(source', feed', r.key, r.version)
  BY DEF OBInv, OBTypes, Truthful, Rows
<1> QED  BY <1>2, <1>3 DEF Truthful

\* A row is inserted or gets a higher version.
LEMMA WriteRowStep ==
  ASSUME OBInv, NEW k \in Keys, NEW op \in {"c", "u"},
         source' = [source EXCEPT ![k] = @ + 1], Event(op, k, source[k] + 1),
         UNCHANGED <<made, got, target, script, scan, buried, aborts>>
  PROVE  OBInv'
<1> DEFINE e == [op |-> op, key |-> k, version |-> source[k] + 1]
<1>1. /\ e \in Events /\ feed' = (IF "included" \in made THEN Append(feed, e) ELSE feed)
      /\ e.op = op /\ e.key = k /\ e.version = source[k] + 1 /\ source[k] \in Nat
  BY DEF Event, Events, OBInv, OBTypes
<1> HIDE DEF e
<1>2. /\ source' \in [Keys -> Nat] /\ source'[k] = source[k] + 1
      /\ \A c \in Keys : source'[c] \in Nat /\ source[c] \in Nat /\ source'[c] >= source[c]
      /\ \A c \in Keys \ {k} : source'[c] = source[c]
  BY <1>1 DEF OBInv, OBTypes
<1>3. /\ feed' \in Seq(Events)
      /\ \A i \in 1..Len(feed) : feed'[i] = feed[i]
      /\ \A i \in 1..Len(feed') : i \in 1..Len(feed) \/ ("included" \in made /\ feed'[i] = e)
      /\ "included" \in made => Len(feed') \in 1..Len(feed') /\ feed'[Len(feed')] = e
  BY <1>1, Published DEF OBInv
<1>4. OBTypes' /\ Highest'
  BY <1>1, <1>2, <1>3, HighestKept DEF OBInv, OBTypes
<1>5. \A c \in Keys, v \in Nat : Past(source, feed, c, v) => Past(source', feed', c, v)
  BY <1>1, <1>2, PastKept
<1>6. Truthful'
  <2>1. Past(source', feed', e.key, e.version)
    BY <1>1, <1>2 DEF Past
  <2>2. buried' \in [Keys -> Nat] /\ \A c \in Keys : buried'[c] >= buried[c]
    BY DEF OBInv, OBTypes
  <2>3. e.op # "d" /\ scan'.rows \subseteq scan.rows
    BY <1>1
  <2> QED  BY <1>1, <1>5, <2>1, <2>2, <2>3, TruthfulKept
<1>7. Included'
  BY <1>1 DEF OBInv, Included
<1>8. Scanned'
  <2>1. \A c \in Keys, v \in Nat : Found(feed, c, v) => Found(feed', c, v)
    BY <1>1, FoundKept
  <2>2. "included" \in made => Found(feed', k, source'[k])
    BY <1>1, <1>2, <1>3 DEF Found
  <2>3. script \in {"wait", "done"} => "included" \in made
    BY DEF OBInv, Included
  <2> QED  BY <1>2, <2>1, <2>2, <2>3 DEF OBInv, Scanned
<1> QED  BY <1>4, <1>6, <1>7, <1>8 DEF OBInv

\* A row is deleted: its deletion is published above every version it had.
LEMMA DeleteRowStep ==
  ASSUME OBInv, NEW k \in Keys, source[k] > 0,
         source' = [source EXCEPT ![k] = 0], Event("d", k, source[k]),
         buried' = [buried EXCEPT ![k] = IF source[k] > @ THEN source[k] ELSE @],
         UNCHANGED <<made, got, target, script, scan, aborts>>
  PROVE  OBInv'
<1> DEFINE e == [op |-> "d", key |-> k, version |-> source[k]]
<1>1. /\ e \in Events /\ feed' = (IF "included" \in made THEN Append(feed, e) ELSE feed)
      /\ e.op = "d" /\ e.key = k /\ e.version = source[k] /\ source[k] \in Nat
  BY DEF Event, Events, OBInv, OBTypes
<1> HIDE DEF e
<1>2. /\ source' \in [Keys -> Nat] /\ source'[k] = 0
      /\ \A c \in Keys \ {k} : source'[c] = source[c] /\ source[c] \in Nat
  BY <1>1 DEF OBInv, OBTypes
<1>3. /\ buried' \in [Keys -> Nat] /\ buried'[k] >= source[k]
      /\ \A c \in Keys : buried'[c] >= buried[c] /\ buried[c] \in Nat
  BY <1>1 DEF OBInv, OBTypes
<1>4. /\ feed' \in Seq(Events)
      /\ \A i \in 1..Len(feed) : feed'[i] = feed[i]
      /\ \A i \in 1..Len(feed') : i \in 1..Len(feed) \/ ("included" \in made /\ feed'[i] = e)
  BY <1>1, Published DEF OBInv
<1>5. OBTypes' /\ Highest'
  BY <1>1, <1>2, <1>3, <1>4, HighestKept DEF OBInv, OBTypes
<1>6. Truthful'
  <2>0. CASE "included" \notin made
    <3>1. feed' = <<>> /\ scan'.rows = {}
      BY <1>1, <2>0 DEF OBInv, Included, NoScan
    <3> QED  BY <3>1 DEF Truthful
  <2>1. CASE "included" \in made
    <3>1. \A c \in Keys, v \in Nat : Past(source, feed, c, v) => Past(source', feed', c, v)
      <4> SUFFICES ASSUME NEW c \in Keys, NEW v \in Nat, Past(source, feed, c, v) PROVE Past(source', feed', c, v)
        OBVIOUS
      <4>1. source'[c] \in Nat
        BY <1>2
      <4>2. source'[c] >= source[c] \/ (feed' = Append(feed, e) /\ e.op = "d" /\ e.key = c /\ e.version = source[c])
        BY <1>1, <1>2, <2>1
      <4> QED  BY <1>1, <4>1, <4>2, PastKept
    <3>2. e.version <= buried'[e.key] /\ scan'.rows \subseteq scan.rows
      BY <1>1, <1>3
    <3> QED  BY <1>1, <1>3, <3>1, <3>2, TruthfulKept
  <2> QED  BY <2>0, <2>1
<1>7. Included'
  BY <1>1 DEF OBInv, Included
<1>8. Scanned'
  <2>1. \A c \in Keys, v \in Nat : Found(feed, c, v) => Found(feed', c, v)
    BY <1>1, FoundKept
  <2> QED  BY <1>2, <2>1 DEF OBInv, Scanned
<1> QED  BY <1>5, <1>6, <1>7, <1>8 DEF OBInv

LEMMA ChangeStep ==
  ASSUME OBInv, NEW k \in Keys, Change(k)
  PROVE  OBInv'
<1>1. UNCHANGED <<made, got, target, script, scan, aborts>>
  BY DEF Change
<1>2. CASE /\ source' = [source EXCEPT ![k] = @ + 1]
           /\ Event(IF source[k] = 0 THEN "c" ELSE "u", k, source[k] + 1) /\ UNCHANGED buried
  <2>1. PICK op \in {"c", "u"} : Event(op, k, source[k] + 1)
    BY <1>2
  <2> QED  BY <1>1, <1>2, <2>1, WriteRowStep
<1>3. CASE /\ source[k] > 0
           /\ source' = [source EXCEPT ![k] = 0] /\ Event("d", k, source[k])
           /\ buried' = [buried EXCEPT ![k] = IF source[k] > @ THEN source[k] ELSE @]
  BY <1>1, <1>3, DeleteRowStep
<1> QED  BY <1>2, <1>3 DEF Change

-----------------------------------------------------------------------------
\* Steps of the script that only move it on.
LEMMA ScriptStep ==
  ASSUME OBInv, Admit \/ Make("topic", "topic", "views") \/ Make("views", "views", "connector")
                \/ Include \/ Conclude \/ Abort \/ UNCHANGED obVars
  PROVE  OBInv'
<1>1. UNCHANGED <<source, feed, got, target, scan, buried>>
  BY DEF Admit, Make, Include, Conclude, Abort, obVars
<1>2. OBTypes' /\ Truthful' /\ Highest'
  BY <1>1 DEF OBInv, OBTypes, Truthful, Past, Highest, Rank
<1>3. Included'
  BY <1>1 DEF OBInv, Included, Admit, Make, Include, Conclude, Abort, obVars
<1>4. script' \in {"wait", "done"} => script \in {"wait", "done"}
  BY DEF Admit, Make, Include, Conclude, Abort, obVars
<1>5. Scanned'
  BY <1>1, <1>4 DEF OBInv, Scanned, Found
<1> QED  BY <1>2, <1>3, <1>5 DEF OBInv

LEMMA SignalStep ==
  ASSUME OBInv, Signal
  PROVE  OBInv'
<1>1. /\ script = "signal" /\ script' = "wait" /\ made' = made /\ source' = source /\ feed' = feed
      /\ got' = got /\ target' = target /\ buried' = buried
      /\ DOMAIN scan' = {"keys", "rows"} /\ scan'.keys = Keys /\ scan'.rows = scan.rows
  BY DEF Signal, OBInv, OBTypes
<1>2. OBTypes' /\ Truthful' /\ Highest'
  BY <1>1 DEF OBInv, OBTypes, Truthful, Past, Highest, Rank
<1>3. Included' /\ Scanned'
  BY <1>1 DEF OBInv, Included, Scanned
<1> QED  BY <1>2, <1>3 DEF OBInv

LEMMA ReadRowStep ==
  ASSUME OBInv, NEW k \in Keys, ReadRow(k)
  PROVE  OBInv'
<1> DEFINE row == [key |-> k, version |-> source[k]]
<1>1. /\ script' = script /\ made' = made /\ source' = source /\ feed' = feed
      /\ got' = got /\ target' = target /\ buried' = buried /\ k \in scan.keys
  BY DEF ReadRow
<1>2. /\ DOMAIN scan' = {"keys", "rows"} /\ scan'.keys = scan.keys \ {k}
      /\ scan'.rows = scan.rows \cup (IF source[k] = 0 THEN {} ELSE {row})
  BY DEF ReadRow
<1>3. source[k] \in Nat /\ row.key = k /\ row.version = source[k] /\ (source[k] # 0 => row \in Rows)
  BY DEF OBInv, OBTypes, Rows
<1>4. OBTypes' /\ Highest'
  BY <1>1, <1>2, <1>3 DEF OBInv, OBTypes, Highest, Rank
<1>5. Truthful'
  <2>1. \A r \in scan'.rows : Past(source, feed, r.key, r.version)
    <3>1. Past(source, feed, row.key, row.version)
      BY <1>3 DEF Past
    <3> HIDE DEF row
    <3> QED  BY <1>2, <3>1 DEF OBInv, Truthful
  <2> QED  BY <1>1, <2>1 DEF OBInv, Truthful, Past
<1>6. Included'
  <2>1. scan # NoScan
    BY <1>1 DEF NoScan
  <2> QED  BY <1>1, <2>1 DEF OBInv, Included
<1>7. Scanned'
  BY <1>1, <1>2, <1>3 DEF OBInv, Scanned, Found
<1> QED  BY <1>4, <1>5, <1>6, <1>7 DEF OBInv

LEMMA PublishRowStep ==
  ASSUME OBInv, PublishRow
  PROVE  OBInv'
<1>1. PICK r \in scan.rows : /\ scan' = [scan EXCEPT !.rows = @ \ {r}] /\ Event("r", r.key, r.version)
  BY DEF PublishRow
<1>2. script' = script /\ made' = made /\ source' = source /\ got' = got /\ target' = target /\ buried' = buried
  BY DEF PublishRow
<1> DEFINE e == [op |-> "r", key |-> r.key, version |-> r.version]
<1>3. /\ e \in Events /\ feed' = (IF "included" \in made THEN Append(feed, e) ELSE feed)
      /\ e.op = "r" /\ e.key = r.key /\ e.version = r.version
  BY <1>1 DEF Event, Events, OBInv, OBTypes, Rows
<1> HIDE DEF e
<1>4. "included" \in made
  BY <1>1 DEF OBInv, Included, NoScan
<1>5. /\ feed' \in Seq(Events)
      /\ \A i \in 1..Len(feed) : feed'[i] = feed[i]
      /\ \A i \in 1..Len(feed') : i \in 1..Len(feed) \/ feed'[i] = e
      /\ Len(feed') \in 1..Len(feed') /\ feed'[Len(feed')] = e
  BY <1>3, <1>4, Published DEF OBInv
<1>6. DOMAIN scan' = {"keys", "rows"} /\ scan'.keys = scan.keys /\ scan'.rows = scan.rows \ {r}
  BY <1>1 DEF OBInv, OBTypes
<1>7. OBTypes' /\ Highest'
  BY <1>2, <1>3, <1>5, <1>6, HighestKept DEF OBInv, OBTypes
<1>8. \A c \in Keys, v \in Nat : Past(source, feed, c, v) => Past(source', feed', c, v)
  <2>1. \A c \in Keys : source'[c] \in Nat /\ source'[c] >= source[c]
    BY <1>2 DEF OBInv, OBTypes
  <2> QED  BY <1>3, <2>1, PastKept
<1>9. Truthful'
  <2>1. Past(source', feed', e.key, e.version)
    BY <1>3, <1>8 DEF OBInv, OBTypes, Truthful, Rows
  <2>2. buried' \in [Keys -> Nat] /\ \A c \in Keys : buried'[c] >= buried[c]
    BY <1>2 DEF OBInv, OBTypes
  <2>3. e.op # "d" /\ scan'.rows \subseteq scan.rows
    BY <1>3, <1>6
  <2> QED  BY <1>3, <1>8, <2>1, <2>2, <2>3, TruthfulKept
<1>10. Included'
  BY <1>2, <1>4 DEF Included
<1>11. Scanned'
  <2>1. \A c \in Keys, v \in Nat : Found(feed, c, v) => Found(feed', c, v)
    BY <1>3, FoundKept
  <2>2. Found(feed', r.key, r.version)
    BY <1>3, <1>5 DEF Found
  <2>3. ASSUME NEW c \in Keys \ scan.keys, source[c] > 0, script \in {"wait", "done"}
        PROVE  Found(feed', c, source[c]) \/ [key |-> c, version |-> source[c]] \in scan'.rows
    <3>1. Found(feed, c, source[c]) \/ [key |-> c, version |-> source[c]] \in scan.rows
      BY <2>3 DEF OBInv, Scanned
    <3>2. [key |-> c, version |-> source[c]] = r => r.key = c /\ r.version = source[c]
      OBVIOUS
    <3> QED  BY <1>6, <2>1, <2>2, <3>1, <3>2 DEF OBInv, OBTypes
  <2> QED  BY <1>2, <1>6, <2>3 DEF Scanned
<1> QED  BY <1>7, <1>9, <1>10, <1>11 DEF OBInv

LEMMA ApplyStep ==
  ASSUME OBInv, Apply
  PROVE  OBInv'
<1> DEFINE e == feed[got + 1]
<1>1. /\ script' = script /\ made' = made /\ source' = source /\ feed' = feed
      /\ scan' = scan /\ buried' = buried /\ got' = got + 1 /\ got < Len(feed)
  BY DEF Apply
<1>2. target' = IF Rank(e) >= target[e.key].version
                THEN [target EXCEPT ![e.key] = [version |-> Rank(e), deleted |-> e.op = "d"]]
                ELSE target
  BY <1>1 DEF Apply
<1>3. got \in Nat /\ got + 1 \in 1..Len(feed) /\ e \in Events
  BY <1>1 DEF OBInv, OBTypes
<1>4. e.key \in Keys /\ Rank(e) \in Nat /\ (e.op = "d") \in BOOLEAN
  BY <1>3 DEF Events, Rank
<1>5. target \in [Keys -> [version : Nat, deleted : BOOLEAN]]
  BY DEF OBInv, OBTypes
<1>6. OBTypes'
  <2>1. target' \in [Keys -> [version : Nat, deleted : BOOLEAN]]
    <3> HIDE DEF e
    <3> QED  BY <1>2, <1>4, <1>5
  <2> QED  BY <1>1, <1>3, <2>1 DEF OBInv, OBTypes
<1>7. \A k \in Keys : target'[k].version >= target[k].version
  <2> HIDE DEF e
  <2> QED  BY <1>2, <1>4, <1>5
<1>8. Rank(e) <= target'[e.key].version
  <2> HIDE DEF e
  <2> QED  BY <1>2, <1>4, <1>5
<1>9. \A k \in Keys : target'[k] = target[k] \/ (k = e.key /\ target'[k] = [version |-> Rank(e), deleted |-> e.op = "d"])
  <2> HIDE DEF e
  <2> QED  BY <1>2, <1>4, <1>5
<1>10. Highest'
  <2>1. ASSUME NEW i \in 1..got' PROVE Rank(feed[i]) <= target'[feed[i].key].version
    <3>1. CASE i = got + 1
      BY <1>8, <3>1
    <3>2. CASE i # got + 1
      <4>1. i \in 1..got /\ feed[i] \in Events
        BY <1>1, <1>3, <3>2 DEF OBInv, OBTypes
      <4>2. Rank(feed[i]) <= target[feed[i].key].version /\ feed[i].key \in Keys /\ Rank(feed[i]) \in Nat
        BY <4>1 DEF OBInv, Highest, Events, Rank
      <4>3. target[feed[i].key].version \in Nat /\ target'[feed[i].key].version \in Nat
        BY <1>6, <4>2 DEF OBInv, OBTypes
      <4> QED  BY <1>7, <4>2, <4>3
    <3> QED  BY <3>1, <3>2
  <2>2. ASSUME NEW k \in Keys
        PROVE  \/ target'[k] = [version |-> 0, deleted |-> TRUE]
               \/ \E i \in 1..got' : feed[i].key = k /\ target'[k] = [version |-> Rank(feed[i]), deleted |-> feed[i].op = "d"]
    <3>1. got + 1 \in 1..got' /\ \A i \in 1..got : i \in 1..got'
      BY <1>1, <1>3
    <3> QED  BY <1>9, <3>1 DEF OBInv, Highest
  <2> QED  BY <1>1, <2>1, <2>2 DEF Highest, Rank
<1>11. Truthful' /\ Included' /\ Scanned'
  BY <1>1 DEF OBInv, Truthful, Past, Included, Scanned, Found
<1> QED  BY <1>6, <1>10, <1>11 DEF OBInv

LEMMA OBKeeps ==
  ASSUME OBInv, OBNext \/ UNCHANGED obVars
  PROVE  OBInv'
BY ChangeStep, ScriptStep, SignalStep, ReadRowStep, PublishRowStep, ApplyStep DEF OBNext

\* Of a row that is gone the highest rank is a deletion's; of one that is there,
\* above its deletions, it is the present version's.
LEMMA MirroredByInv == OBInv => OnboardedMirrors
<1> SUFFICES ASSUME OBInv, script = "done", scan = NoScan, got = Len(feed), NEW k \in Keys
             PROVE  IF source[k] = 0 THEN target[k].deleted
                    ELSE \/ ~target[k].deleted /\ target[k].version = source[k]
                         \/ source[k] <= buried[k] + 1
  BY DEF OnboardedMirrors
<1>1. /\ source[k] \in Nat /\ buried[k] \in Nat /\ target[k] \in [version : Nat, deleted : BOOLEAN]
      /\ Len(feed) \in Nat /\ \A i \in 1..Len(feed) : feed[i] \in Events
  BY DEF OBInv, OBTypes
<1>2. \A i \in 1..Len(feed) : feed[i].key = k => Rank(feed[i]) <= target[k].version
  BY DEF OBInv, Highest
<1>3. \/ target[k].version = 0 /\ target[k].deleted
      \/ \E i \in 1..Len(feed) : feed[i].key = k /\ target[k].version = Rank(feed[i]) /\ target[k].deleted = (feed[i].op = "d")
  <2>1. CASE target[k] = [version |-> 0, deleted |-> TRUE]
    BY <2>1
  <2>2. CASE \E i \in 1..Len(feed) : feed[i].key = k /\ target[k] = [version |-> Rank(feed[i]), deleted |-> feed[i].op = "d"]
    <3>1. PICK i \in 1..Len(feed) : feed[i].key = k /\ target[k] = [version |-> Rank(feed[i]), deleted |-> feed[i].op = "d"]
      BY <2>2
    <3>2. target[k].version = Rank(feed[i]) /\ target[k].deleted = (feed[i].op = "d")
      BY <3>1
    <3> QED  BY <3>1, <3>2
  <2> QED  BY <2>1, <2>2 DEF OBInv, Highest
<1>4. CASE source[k] = 0
  <2> SUFFICES ASSUME ~target[k].deleted PROVE FALSE
    BY <1>4
  <2>1. PICK i \in 1..Len(feed) : feed[i].key = k /\ target[k].version = Rank(feed[i]) /\ feed[i].op # "d"
    BY <1>1, <1>3
  <2>2. feed[i].version \in Nat \ {0} /\ Rank(feed[i]) = feed[i].version
    BY <1>1, <2>1 DEF Events, Rank
  <2>3. PICK j \in 1..Len(feed) : feed[j].op = "d" /\ feed[j].key = k /\ feed[j].version >= feed[i].version
    BY <1>4, <2>1, <2>2 DEF OBInv, Truthful, Past
  <2>4. feed[j].version \in Nat /\ Rank(feed[j]) = feed[j].version + 1
    BY <1>1, <2>3 DEF Events, Rank
  <2> QED  BY <1>1, <1>2, <2>1, <2>2, <2>3, <2>4
<1>5. CASE source[k] > buried[k] + 1
  <2>1. Found(feed, k, source[k])
    <3>1. k \notin scan.keys /\ scan.rows = {}
      BY DEF NoScan
    <3>2. source[k] > 0
      BY <1>1, <1>5
    <3> QED  BY <3>1, <3>2 DEF OBInv, Scanned
  <2>2. source[k] <= target[k].version
    <3>1. PICK i \in 1..Len(feed) : feed[i].op # "d" /\ feed[i].key = k /\ feed[i].version = source[k]
      BY <2>1 DEF Found
    <3>2. Rank(feed[i]) = source[k]
      BY <1>1, <3>1 DEF Rank
    <3> QED  BY <1>2, <3>1, <3>2
  <2>3. PICK i \in 1..Len(feed) : feed[i].key = k /\ target[k].version = Rank(feed[i]) /\ target[k].deleted = (feed[i].op = "d")
    BY <1>1, <1>3, <1>5, <2>2
  <2>4. feed[i].version \in Nat
    BY <1>1 DEF Events
  <2>5. feed[i].op # "d"
    <3> SUFFICES ASSUME feed[i].op = "d" PROVE FALSE
      OBVIOUS
    <3>1. Rank(feed[i]) = feed[i].version + 1 /\ feed[i].version <= buried[k]
      BY <2>3 DEF OBInv, Truthful, Rank
    <3> QED  BY <1>1, <1>5, <2>2, <2>3, <2>4, <3>1
  <2>6. Rank(feed[i]) = feed[i].version
    BY <2>4, <2>5 DEF Rank
  <2>7. feed[i].version <= source[k]
    <3> SUFFICES ASSUME ~(feed[i].version <= source[k]) PROVE FALSE
      OBVIOUS
    <3>1. PICK j \in 1..Len(feed) : feed[j].op = "d" /\ feed[j].key = k /\ feed[j].version >= feed[i].version
      BY <2>3, <2>5 DEF OBInv, Truthful, Past
    <3>2. feed[j].version <= buried[k] /\ feed[j].version \in Nat
      BY <1>1, <3>1 DEF OBInv, Truthful, Events
    <3> QED  BY <1>1, <1>5, <2>4, <3>1, <3>2
  <2> QED  BY <1>1, <1>5, <2>2, <2>3, <2>4, <2>5, <2>6, <2>7
<1> QED  BY <1>1, <1>4, <1>5

-----------------------------------------------------------------------------
(* The backup chain *)

\* The directories of both sides.
AllDirs == local \cup remote
Busy == {"export", "free", "sync", "retain", "prune"}
Tasks == Busy \cup {"backup", "verify"}
Ids == [full : BOOLEAN, day : Nat]
Dirs == [id : Ids, chain : SUBSET Ids, whole : BOOLEAN]

\* A directory is built upon one full backup or is one, and upon none of later days.
Linked(b) ==
  /\ b.id \in b.chain /\ 1 <= b.id.day /\ b.id.day <= day
  /\ \E i \in b.chain : i.full
  /\ b.id.full => b.chain = {b.id}
  /\ \A i \in b.chain : i.day <= b.id.day

BKTypes == day \in Nat \ {0} /\ dag \in [task : Tasks, tries : Nat] /\ \A b \in AllDirs : b \in Dirs /\ Linked(b)

\* No full backup of any chain is newer than f.
Leads(f) == f \in local /\ f.id.full /\ \A b \in AllDirs : \A i \in b.chain : i.full => i.day <= f.id.day

\* Nothing is built past a full backup.
NotPast == \A g \in Fulls(AllDirs) : \A b \in AllDirs : g <= b.id.day => \A i \in b.chain : g <= i.day

\* A name means the same on both sides, and the remote copy is no better.
Copies ==
  /\ \A b, c \in AllDirs : b.id = c.id => b.chain = c.chain
  /\ \A b \in remote, c \in local : b.id = c.id /\ b.whole => c.whole
  /\ \A b, c \in local : b.id = c.id => b = c

\* The full backup below an increment was complete when it was built.
Founded == \A b, c \in local : c.id \in b.chain /\ c.id.full /\ ~b.id.full => c.whole


BKInv ==
  /\ BKTypes /\ NotPast /\ Copies /\ Founded
  /\ AllDirs = {} \/ \E f \in local : Leads(f)
  /\ (\E b \in AllDirs : b.id.day = day) => ~FullDue
  /\ dag.task = "backup" => \A b \in remote : b.id.day < day
  /\ dag.task \in Busy => \E f \in local : Leads(f) /\ f.whole
  /\ dag.task = "retain" => local \subseteq remote

-----------------------------------------------------------------------------
(* Newest, points *)

LEMMA NewestIs ==
  ASSUME NEW n \in Nat, NEW D \in SUBSET (0..n), D # {}
  PROVE  Newest(D) \in D /\ \A e \in D : e <= Newest(D)
<1>1. PICK d \in D : \A y \in D : d >= y
  BY MaxInSet
<1>2. \A y \in D : y <= d
  BY <1>1
<1> QED  BY <1>2 DEF Newest

\* A newer point in T when the newest of S has a counterpart there.
LEMMA PointHolds ==
  ASSUME NEW n \in Nat, NEW S, NEW T,
         \A b \in S \cup T : b.id.day \in 0..n,
         \A b \in S : Restorable(b, S) /\ (\A c \in S : Restorable(c, S) => c.id.day <= b.id.day)
                      => \E c \in T : c.id.day >= b.id.day /\ Restorable(c, T)
  PROVE  Point(T) >= Point(S)
<1> DEFINE PS == {0} \cup {b.id.day : b \in {c \in S : Restorable(c, S)}}
           PT == {0} \cup {b.id.day : b \in {c \in T : Restorable(c, T)}}
<1>1. PS \in SUBSET (0..n) /\ PS # {} /\ PT \in SUBSET (0..n) /\ PT # {}
  OBVIOUS
<1>2. Point(S) = Newest(PS) /\ Point(T) = Newest(PT)
  BY DEF Point
<1>3. Newest(PS) \in PS /\ \A e \in PS : e <= Newest(PS)
  <2> HIDE DEF PS, PT
  <2> QED  BY <1>1, NewestIs
<1>4. Newest(PT) \in PT /\ \A e \in PT : e <= Newest(PT)
  <2> HIDE DEF PS, PT
  <2> QED  BY <1>1, NewestIs
<1>5. CASE Newest(PS) = 0
  BY <1>1, <1>2, <1>4, <1>5
<1>6. CASE Newest(PS) # 0
  <2>1. PICK b \in S : Restorable(b, S) /\ b.id.day = Newest(PS)
    BY <1>3, <1>6
  <2>2. \A c \in S : Restorable(c, S) => c.id.day <= b.id.day
    BY <1>3, <2>1
  <2>3. PICK c \in T : c.id.day >= b.id.day /\ Restorable(c, T)
    BY <2>1, <2>2
  <2>4. c.id.day \in PT
    BY <2>3
  <2>5. c.id.day <= Newest(PT) /\ c.id.day \in 0..n /\ Newest(PT) \in 0..n /\ Newest(PS) \in 0..n
    BY <1>1, <1>3, <1>4, <2>4
  <2> QED  BY <1>2, <2>1, <2>3, <2>5
<1> QED  BY <1>5, <1>6

\* A set with a whole copy of all that S has whole, and of each directory.
LEMMA PointCopied ==
  ASSUME NEW n \in Nat, NEW S, NEW T,
         \A b \in S \cup T : b.id.day \in 0..n,
         \A b \in S : \E c \in T : c.id = b.id /\ c.chain = b.chain /\ (b.whole => c.whole)
  PROVE  Point(T) >= Point(S)
<1> SUFFICES ASSUME NEW b \in S, Restorable(b, S)
             PROVE  \E c \in T : c.id.day >= b.id.day /\ Restorable(c, T)
  BY PointHolds
<1>1. PICK c \in T : c.id = b.id /\ c.chain = b.chain
  OBVIOUS
<1>2. \A i \in c.chain : \E e \in T : e.id = i /\ e.whole
  <2> SUFFICES ASSUME NEW i \in c.chain PROVE \E e \in T : e.id = i /\ e.whole
    OBVIOUS
  <2>1. PICK a \in S : a.id = i /\ a.whole
    BY <1>1 DEF Restorable
  <2> QED  BY <2>1
<1>3. b.id.day \in 0..n
  OBVIOUS
<1> QED  BY <1>1, <1>2, <1>3 DEF Restorable

\* Types and rules of every directory.
LEMMA DirsLinked == BKInv => day \in Nat /\ \A b \in AllDirs : b \in Dirs /\ Linked(b) /\ b.id.day \in 0..day
BY DEF BKInv, BKTypes, Linked, Dirs, Ids

\* Deletions below its newest full backup, when that is complete, do not cost a
\* set its newest point.
LEMMA PointKeeps ==
  ASSUME BKInv, NEW S \in SUBSET AllDirs, NEW T \in SUBSET S,
         NEW f \in S, f.id.full, f.whole,
         \A b \in S : b \notin T => b.id.day < f.id.day
  PROVE  Point(T) >= Point(S)
<1>1. \A b \in AllDirs : b \in Dirs /\ Linked(b) /\ b.id.day \in 0..day
  BY DEF BKInv, BKTypes, Linked, Dirs, Ids
<1>2. day \in Nat
  BY DEF BKInv, BKTypes
<1>3. f.id.day \in Fulls(AllDirs)
  BY DEF Fulls
<1>4. Restorable(f, S)
  <2>1. f.chain = {f.id}
    BY <1>1 DEF Linked
  <2> QED  BY <2>1 DEF Restorable
<1>5. ASSUME NEW b \in S, Restorable(b, S), \A c \in S : Restorable(c, S) => c.id.day <= b.id.day
      PROVE  \E c \in T : c.id.day >= b.id.day /\ Restorable(c, T)
  <2>1. f.id.day <= b.id.day
    BY <1>4, <1>5
  <2>2. b \in T
    BY <1>1, <2>1
  <2>3. \A i \in b.chain : f.id.day <= i.day
    BY <1>3, <2>1 DEF BKInv, NotPast
  <2>4. ASSUME NEW i \in b.chain PROVE \E c \in T : c.id = i /\ c.whole
    <3>1. PICK c \in S : c.id = i /\ c.whole
      BY <1>5 DEF Restorable
    <3>2. f.id.day <= c.id.day /\ f.id.day \in Nat /\ c.id.day \in Nat
      BY <1>1, <2>3, <3>1
    <3> QED  BY <3>1, <3>2
  <2>5. b.id.day >= b.id.day
    BY <1>1
  <2> QED  BY <2>2, <2>4, <2>5 DEF Restorable
<1>6. \A b \in S \cup T : b.id.day \in 0..day
  BY <1>1
<1> QED  BY <1>2, <1>5, <1>6, PointHolds

\* The newest full backups of a set are among the last n of it.
LEMMA LastKept ==
  ASSUME NEW n \in Nat \ {0}, NEW D, NEW d \in D, \A e \in D : ~(e > d)
  PROVE  d \in LastOf(n, D)
<1>1. {e \in D : e > d} = {}
  OBVIOUS
<1>2. Cardinality({e \in D : e > d}) = 0
  BY <1>1, FS_EmptySet
<1> QED  BY <1>2 DEF LastOf

\* What retention takes is older than the newest full backup of the set.
LEMMA OutdatedIsOld ==
  ASSUME BKInv, NEW S \in SUBSET AllDirs, NEW n \in Nat \ {0}, NEW f \in S, f.id.full, Leads(f)
  PROVE  \A b \in Outdated(S, LastOf(n, Fulls(S))) : b \in S /\ b.id.day < f.id.day
<1> DEFINE K == LastOf(n, Fulls(S))
<1>1. \A b \in AllDirs : b \in Dirs /\ Linked(b) /\ b.id.day \in 0..day
  BY DEF BKInv, BKTypes, Linked, Dirs, Ids
<1>2. day \in Nat
  BY DEF BKInv, BKTypes
<1>3. \A b \in S : b.id.full => b.id.day <= f.id.day
  BY <1>1 DEF Leads, Linked
<1>4. f.id.day \in Fulls(S) /\ Fulls(S) \in SUBSET (0..day) /\ \A e \in Fulls(S) : e <= f.id.day
  BY <1>1, <1>3 DEF Fulls
<1>5. f.id.day \in K
  <2>1. \A e \in Fulls(S) : ~(e > f.id.day)
    BY <1>4
  <2> QED  BY <1>4, <2>1, LastKept
<1>6. K \in SUBSET Fulls(S)
  BY DEF LastOf
<1>7. Newest(K) <= f.id.day
  <2> HIDE DEF K
  <2>1. K \in SUBSET (0..day) /\ K # {}
    BY <1>4, <1>5, <1>6
  <2>2. Newest(K) \in K
    BY <1>2, <2>1, NewestIs
  <2> QED  BY <1>4, <1>6, <2>2
<1>8. Newest(K) \in Nat
  <2> HIDE DEF K
  <2>1. K \in SUBSET (0..day) /\ K # {}
    BY <1>4, <1>5, <1>6
  <2>2. Newest(K) \in K
    BY <1>2, <2>1, NewestIs
  <2>3. \A e \in K : e \in Nat
    BY <1>2, <2>1
  <2> QED  BY <2>2, <2>3
<1>9. ASSUME NEW b \in Outdated(S, K) PROVE b \in S /\ b.id.day < f.id.day
  <2>1. b \in S
    BY DEF Outdated
  <2>2. b.id.day \in Nat /\ f.id.day \in Nat
    BY <1>1, <2>1
  <2>3. CASE b.id.full
    <3>1. b.id.day \notin K
      BY <2>3 DEF Outdated
    <3>2. b.id.day # f.id.day
      BY <1>5, <3>1
    <3> QED  BY <1>3, <2>1, <2>2, <2>3, <3>2
  <2>4. CASE ~b.id.full
    <3>1. b.id.day < Newest(K)
      BY <2>4 DEF Outdated
    <3> QED  BY <1>7, <1>8, <2>1, <2>2, <3>1
  <2> QED  BY <2>3, <2>4
<1> QED  BY <1>9
-----------------------------------------------------------------------------
(* The invariant *)

LEMMA BKStarts == BKInit => BKInv
<1> SUFFICES ASSUME BKInit PROVE BKInv
  OBVIOUS
<1>1. AllDirs = {} /\ local = {} /\ remote = {} /\ day \in Nat \ {0}
  BY DEF BKInit, AllDirs
<1>2. dag \in [task : Tasks, tries : Nat] /\ dag.task = "backup"
  BY DEF BKInit, Task, Tasks
<1>3. Copies /\ Founded
  BY <1>1 DEF Copies, Founded, AllDirs
<1>5. NotPast
  <2>1. \A b \in AllDirs : FALSE
    BY <1>1
  <2> QED  BY <2>1 DEF NotPast
<1>4. BKTypes
  BY <1>1, <1>2, <1>5 DEF BKTypes
<1>6. dag.task \notin Busy /\ dag.task # "retain" /\ \A b \in AllDirs : FALSE
  BY <1>1, <1>2 DEF Busy
<1> QED  BY <1>1, <1>2, <1>3, <1>4, <1>5, <1>6 DEF BKInv

\* Today's backup is full when the newest full backup is old, and only then.
LEMMA DueBy ==
  ASSUME BKInv, NEW f, Leads(f)
  PROVE  Newest(Fulls(local)) = f.id.day /\ (FullDue <=> day - f.id.day >= FullEvery)
<1>1. f.id.day \in Fulls(local) /\ Fulls(local) \in SUBSET (0..day) /\ day \in Nat
  BY DirsLinked DEF Fulls, Leads, AllDirs
<1>2. \A e \in Fulls(local) : e <= f.id.day
  BY DirsLinked DEF Fulls, Leads, AllDirs, Linked
<1>3. Newest(Fulls(local)) \in Fulls(local) /\ \A e \in Fulls(local) : e <= Newest(Fulls(local))
  BY <1>1, NewestIs
<1>4. Newest(Fulls(local)) = f.id.day
  BY <1>1, <1>2, <1>3
<1>5. Fulls(local) # {}
  BY <1>1
<1> QED  BY <1>4, <1>5 DEF FullDue

\* An increment is built upon a directory made since the newest full backup.
LEMMA BaseIs ==
  ASSUME BKInv, NEW f, Leads(f)
  PROVE  Base \in local /\ Base.id.day >= f.id.day
<1> DEFINE full == Newest(Fulls(local))
           since == {b.id.day : b \in {c \in local : ~c.id.full /\ c.id.day >= full}}
           name == IF since = {} THEN [full |-> TRUE, day |-> full] ELSE [full |-> FALSE, day |-> Newest(since)]
<1>1. Base = CHOOSE b \in local : b.id = name
  BY Zenon DEF Base
<1>0. full = f.id.day
  BY DueBy
<1> HIDE DEF full
<1>2. \A b \in local : b \in Dirs /\ b.id \in Ids /\ b.id.day \in 0..day
  BY DirsLinked DEF AllDirs, Dirs
<1>3. f \in local /\ f.id.full /\ f.id.day \in Nat
  BY <1>2 DEF Leads, Ids
<1>4. \E b \in local : b.id = name /\ b.id.day >= f.id.day
  <2>1. CASE since = {}
    <3>1. f.id = [full |-> TRUE, day |-> full]
      BY <1>0, <1>2, <1>3 DEF Ids
    <3> HIDE DEF since
    <3> QED  BY <1>3, <2>1, <3>1
  <2>2. CASE since # {}
    <3>1. since \in SUBSET (0..day)
      BY <1>2
    <3>2. Newest(since) \in since
      <4> HIDE DEF since
      <4> QED  BY <2>2, <3>1, NewestIs, DirsLinked
    <3>3. PICK b \in local : ~b.id.full /\ b.id.day >= full /\ b.id.day = Newest(since)
      BY <3>2
    <3>4. b.id = [full |-> FALSE, day |-> Newest(since)]
      BY <1>2, <3>3 DEF Ids
    <3> HIDE DEF since
    <3> QED  BY <1>0, <2>2, <3>3, <3>4
  <2> QED  BY <2>1, <2>2
<1> HIDE DEF name
<1>5. Base \in local /\ Base.id = name
  BY <1>1, <1>4
<1> QED  BY <1>4, <1>5

\* The directory of the day.
LEMMA DirIs ==
  ASSUME BKInv, dag.task = "backup", ~Exists, NEW w \in BOOLEAN
  PROVE  /\ Dir(w) = [id |-> Today, whole |-> w, chain |-> Dir(w).chain]
         /\ Today = [full |-> FullDue, day |-> day] /\ FullDue \in BOOLEAN
         /\ FullDue => Dir(w).chain = {Today} /\ \A b \in AllDirs : b.id.day < day
         /\ ~FullDue => /\ Dir(w).chain = {Today} \cup Base.chain
                        /\ \E f \in local : Leads(f) /\ Base \in local /\ Base.id.day >= f.id.day
         /\ \A b \in AllDirs : b.id # Today
<1>1. FullDue \in BOOLEAN /\ Today = [full |-> FullDue, day |-> day]
  BY DEF FullDue, Today
<1>2. Dir(w) = [id |-> Today, whole |-> w, chain |-> Dir(w).chain]
  BY DEF Dir
<1>3. ASSUME FullDue PROVE Dir(w).chain = {Today} /\ \A b \in AllDirs : b.id.day < day
  <2>1. \A b \in AllDirs : b.id.day <= day /\ b.id.day # day /\ b.id.day \in Nat
    BY <1>3, DirsLinked DEF BKInv
  <2>2. day \in Nat
    BY DirsLinked
  <2> QED  BY <1>3, <2>1, <2>2 DEF Dir
<1>4. ASSUME ~FullDue
      PROVE  /\ Dir(w).chain = {Today} \cup Base.chain
             /\ \E f \in local : Leads(f) /\ Base \in local /\ Base.id.day >= f.id.day
  <2>1. Dir(w).chain = {Today} \cup Base.chain
    BY <1>4 DEF Dir
  <2>2. AllDirs # {}
    BY <1>4 DEF FullDue, Fulls, AllDirs
  <2>3. PICK f \in local : Leads(f)
    BY <2>2 DEF BKInv
  <2> QED  BY <2>1, <2>3, BaseIs
<1>5. \A b \in AllDirs : b.id # Today
  <2> SUFFICES ASSUME NEW b \in AllDirs, b.id = Today PROVE FALSE
    OBVIOUS
  <2>1. CASE b \in local
    BY <2>1 DEF Exists
  <2>2. CASE b \in remote
    BY <1>1, <2>2, DirsLinked DEF BKInv
  <2> QED  BY <2>1, <2>2 DEF AllDirs
<1> QED  BY <1>1, <1>2, <1>3, <1>4, <1>5

\* The directory of the day keeps to the rules of the others.
LEMMA DirFits ==
  ASSUME BKInv, dag.task = "backup", ~Exists, Buildable, NEW w \in BOOLEAN, NEW d, d = Dir(w)
  PROVE  /\ d \in Dirs /\ d.id = Today /\ d.id.day = day /\ d.whole = w /\ Linked(d)
         /\ \A g \in Fulls(AllDirs) : \A i \in d.chain : g <= i.day
         /\ ~d.id.full => \A c \in local : c.id \in d.chain /\ c.id.full => c.whole
         /\ ~d.id.full => \E f \in local : Leads(f) /\ \A i \in d.chain : i.full => i.day <= f.id.day
         /\ \A i \in d.chain : i.day <= day
<1>1. \A b \in AllDirs : b \in Dirs /\ Linked(b) /\ b.id.day \in 0..day /\ b.id \in Ids /\ b.chain \in SUBSET Ids
  BY DirsLinked DEF Dirs
<1>2. /\ d = [id |-> Today, whole |-> w, chain |-> d.chain]
      /\ Today = [full |-> FullDue, day |-> day] /\ FullDue \in BOOLEAN /\ day \in Nat
  BY DirIs, DirsLinked
<1>3. d.id = Today /\ d.whole = w /\ d.id.day = day /\ Today \in Ids /\ Today.day = day /\ (Today.full <=> FullDue)
  BY <1>2 DEF Ids
<1>4. day >= 1
  BY DEF BKInv, BKTypes
<1>5. CASE FullDue
  <2>1. d.chain = {Today} /\ \A b \in AllDirs : b.id.day < day
    BY <1>5, DirIs
  <2>2. d \in Dirs
    BY <1>2, <1>3, <2>1 DEF Dirs
  <2>3. Linked(d)
    <3>1. \A i \in d.chain : i.day <= day
      BY <1>2, <1>3, <2>1
    <3>2. day <= day /\ 1 <= day
      BY <1>2, <1>4
    <3> QED  BY <1>3, <1>5, <2>1, <3>1, <3>2 DEF Linked
  <2>4. \A g \in Fulls(AllDirs) : g <= day
    BY <1>1, <1>2, <2>1 DEF Fulls
  <2> QED  BY <1>2, <1>3, <1>5, <2>1, <2>2, <2>3, <2>4
<1>6. CASE ~FullDue
  <2>1. d.chain = {Today} \cup Base.chain
    BY <1>6, DirIs
  <2>2. PICK f \in local : Leads(f) /\ Base \in local /\ Base.id.day >= f.id.day
    BY <1>6, DirIs
  <2>3. Base \in AllDirs /\ f \in AllDirs
    BY <2>2 DEF AllDirs
  <2>4. \A i \in d.chain : i \in Ids /\ i.day <= day
    <3>1. \A i \in Base.chain : i \in Ids /\ i.day <= Base.id.day /\ Base.id.day <= day /\ Base.id.day \in Nat
      BY <1>1, <1>2, <2>3 DEF Linked
    <3>2. \A i \in Base.chain : i.day \in Nat
      BY <3>1 DEF Ids
    <3> QED  BY <1>2, <1>3, <2>1, <3>1, <3>2
  <2>5. d \in Dirs
    <3>1. d.chain \in SUBSET Ids
      BY <2>4
    <3> QED  BY <1>2, <1>3, <3>1 DEF Dirs
  <2>6. Linked(d)
    <3>1. \E i \in d.chain : i.full
      BY <1>1, <2>1, <2>3 DEF Linked
    <3> QED  BY <1>2, <1>3, <1>4, <1>6, <2>1, <2>4, <3>1 DEF Linked
  <2>7. \A g \in Fulls(AllDirs) : g <= f.id.day
    <3> TAKE g \in Fulls(AllDirs)
    <3>1. PICK b \in AllDirs : b.id.full /\ b.id.day = g
      BY DEF Fulls
    <3>2. b.id \in b.chain
      BY <1>1 DEF Linked
    <3> QED  BY <2>2, <3>1, <3>2 DEF Leads
  <2>8. \A g \in Fulls(AllDirs) : \A i \in d.chain : g <= i.day
    <3> TAKE g \in Fulls(AllDirs)
    <3> TAKE i \in d.chain
    <3>1. g \in Nat /\ f.id.day \in Nat /\ Base.id.day \in Nat /\ g <= Base.id.day /\ g <= day
      <4>1. g \in 0..day
        BY <1>1 DEF Fulls
      <4>2. f.id.day \in 0..day /\ Base.id.day \in 0..day
        BY <1>1, <2>3
      <4> QED  BY <1>2, <2>2, <2>7, <4>1, <4>2
    <3>2. i \in Base.chain => g <= i.day
      BY <2>3, <3>1 DEF BKInv, NotPast
    <3> QED  BY <1>3, <2>1, <3>1, <3>2
  <2>9. \A c \in local : c.id \in d.chain /\ c.id.full => c.whole
    <3> SUFFICES ASSUME NEW c \in local, c.id \in d.chain, c.id.full PROVE c.whole
      OBVIOUS
    <3>1. c.id \in Base.chain
      BY <1>3, <1>6, <2>1
    <3>2. CASE Base.id.full
      <4>1. c.id = Base.id
        BY <1>1, <2>3, <3>1, <3>2 DEF Linked
      <4>2. c = Base
        BY <2>2, <4>1 DEF BKInv, Copies
      <4> QED  BY <1>6, <4>2 DEF Buildable
    <3>3. CASE ~Base.id.full
      BY <2>2, <3>1, <3>3 DEF BKInv, Founded
    <3> QED  BY <3>2, <3>3
  <2>10. \A i \in d.chain : i.full => i.day <= f.id.day
    <3>1. \A i \in Base.chain : i.full => i.day <= f.id.day
      BY <2>2, <2>3 DEF Leads
    <3> QED  BY <1>3, <1>6, <2>1, <3>1
  <2> QED  BY <1>2, <1>3, <2>2, <2>4, <2>5, <2>6, <2>8, <2>9, <2>10
<1> QED  BY <1>5, <1>6

\* A leading full backup below today's increment is complete.
LEMMA LeadWhole ==
  ASSUME BKInv, dag.task = "backup", Exists
  PROVE  \E f \in local : Leads(f) /\ f.whole
<1>1. PICK b \in local : b.id = Today
  BY DEF Exists
<1>2. b \in AllDirs /\ b.id.day = day /\ (b.id.full <=> FullDue)
  <2>1. b.id.day = day /\ (b.id.full <=> FullDue)
    BY <1>1 DEF Today
  <2> QED  BY <2>1 DEF AllDirs
<1>3. ~FullDue
  BY <1>2 DEF BKInv
<1>4. PICK f \in local : Leads(f)
  BY <1>2 DEF BKInv
<1>5. f \in AllDirs /\ f.id.day \in Fulls(AllDirs) /\ f.id.full
  BY <1>4 DEF Leads, Fulls, AllDirs
<1>6. PICK i \in b.chain : i.full
  BY <1>2, DirsLinked DEF Linked
<1>7. i \in Ids /\ f.id \in Ids
  BY <1>2, <1>5, DirsLinked DEF Dirs
<1>8. f.id.day <= i.day
  <2>1. f.id.day <= b.id.day
    BY <1>2, <1>5, DirsLinked
  <2> QED  BY <1>2, <1>5, <2>1 DEF BKInv, NotPast
<1>9. i.day <= f.id.day
  BY <1>2, <1>4, <1>6 DEF Leads
<1>10. i = f.id
  <2>1. i.day = f.id.day
    BY <1>7, <1>8, <1>9 DEF Ids
  <2> QED  BY <1>5, <1>6, <1>7, <2>1 DEF Ids
<1> QED  BY <1>2, <1>3, <1>4, <1>5, <1>10 DEF BKInv, Founded

-----------------------------------------------------------------------------
(* Steps *)

\* Steps that make no new name, and no copy that is better than the local one: the
\* newest full backup stays in the staging directory.
LEMMA LessKeeps ==
  ASSUME BKInv, dag' \in [task : Tasks, tries : Nat], day' \in Nat, day' >= day,
         \A b \in AllDirs' : b \in Dirs /\ \E a \in AllDirs : a.id = b.id /\ a.chain = b.chain,
         \A b \in remote' : b.whole => b \in AllDirs,
         local' \in SUBSET local, \A f \in local : Leads(f) => f \in local',
         dag'.task = "backup" => day' > day \/ (dag.task = "backup" /\ remote' = remote /\ day' = day),
         dag'.task \in Busy => \E f \in local : Leads(f) /\ f.whole,
         dag'.task = "retain" => local' \subseteq remote'
  PROVE  BKInv'
<1>1. \A b \in AllDirs : b \in Dirs /\ Linked(b) /\ b.id.day \in 0..day /\ b.id \in Ids /\ b.chain \in SUBSET Ids
  BY DirsLinked DEF Dirs
<1>2. day \in Nat \ {0} /\ day' \in Nat \ {0}
  BY DEF BKInv, BKTypes
<1>3. \A b \in AllDirs' : Linked(b)'
  <2> TAKE b \in AllDirs'
  <2>1. PICK a \in AllDirs : a.id = b.id /\ a.chain = b.chain
    OBVIOUS
  <2>2. Linked(a)
    BY <1>1
  <2>3. b.id.day <= day /\ b.id.day \in Nat
    BY <1>1, <2>1, <2>2 DEF Linked
  <2>4. b.id.day <= day'
    BY <1>2, <2>3
  <2> QED  BY <2>1, <2>2, <2>4 DEF Linked
<1>4. BKTypes'
  BY <1>2, <1>3 DEF BKTypes
<1>5. NotPast'
  <2>1. \A g \in Fulls(AllDirs') : g \in Fulls(AllDirs)
    BY DEF Fulls
  <2>2. \A g \in Fulls(AllDirs') : \A b \in AllDirs' : g <= b.id.day => \A i \in b.chain : g <= i.day
    BY <2>1 DEF BKInv, NotPast
  <2> QED  BY <2>2 DEF NotPast
<1>6. Copies'
  <2>1. \A b, c \in AllDirs' : b.id = c.id => b.chain = c.chain
    BY DEF BKInv, Copies
  <2>2. \A b, c \in local' : b.id = c.id => b = c
    BY DEF BKInv, Copies
  <2>3. \A b \in remote', c \in local' : b.id = c.id /\ b.whole => c.whole
    <3> SUFFICES ASSUME NEW b \in remote', NEW c \in local', b.id = c.id, b.whole PROVE c.whole
      OBVIOUS
    <3>1. b \in local \/ b \in remote
      BY DEF AllDirs
    <3> QED  BY <3>1 DEF BKInv, Copies
  <2> QED  BY <2>1, <2>2, <2>3 DEF Copies
<1>7. Founded'
  BY DEF BKInv, Founded
<1>8. \A f \in local : Leads(f) => f \in local' /\ Leads(f)'
  <2> SUFFICES ASSUME NEW f \in local, Leads(f) PROVE f \in local' /\ Leads(f)'
    OBVIOUS
  <2>1. \A b \in AllDirs' : \A i \in b.chain : i.full => i.day <= f.id.day
    BY DEF Leads
  <2> QED  BY <2>1 DEF Leads
<1>9. AllDirs' = {} \/ \E f \in local' : Leads(f)'
  <2>1. CASE AllDirs' = {}
    BY <2>1
  <2>2. CASE AllDirs' # {}
    <3>1. AllDirs # {}
      BY <2>2
    <3>2. PICK f \in local : Leads(f)
      BY <3>1 DEF BKInv
    <3> QED  BY <1>8, <3>2
  <2> QED  BY <2>1, <2>2
<1>10. (\E b \in AllDirs' : b.id.day = day') => ~FullDue'
  <2> SUFFICES ASSUME NEW b \in AllDirs', b.id.day = day' PROVE ~FullDue'
    OBVIOUS
  <2>1. PICK a \in AllDirs : a.id.day = day'
    OBVIOUS
  <2>2. day' = day
    BY <1>1, <1>2, <2>1
  <2>3. ~FullDue
    BY <2>1, <2>2 DEF BKInv
  <2>4. PICK f \in local : Leads(f)
    BY <2>1 DEF BKInv
  <2>5. ~(day - f.id.day >= FullEvery)
    BY <2>3, <2>4, DueBy
  <2>6. f.id.day \in Fulls(local') /\ Fulls(local') \in SUBSET (0..day) /\ \A e \in Fulls(local') : e <= f.id.day
    <3>1. f \in local' /\ f.id.full
      BY <2>4 DEF Leads
    <3>2. \A c \in local' : c \in AllDirs /\ c.id \in c.chain /\ c.id.day \in 0..day
      BY <1>1 DEF AllDirs, Linked
    <3> QED  BY <2>4, <3>1, <3>2 DEF Fulls, Leads
  <2>7. Newest(Fulls(local')) \in Fulls(local') /\ \A e \in Fulls(local') : e <= Newest(Fulls(local'))
    <3>1. Fulls(local') # {}
      BY <2>6
    <3> QED  BY <1>2, <2>6, <3>1, NewestIs
  <2>8. Newest(Fulls(local')) = f.id.day
    BY <1>2, <2>6, <2>7
  <2>9. Fulls(local') # {}
    BY <2>6
  <2> QED  BY <2>2, <2>5, <2>8, <2>9 DEF FullDue
<1>11. dag'.task = "backup" => \A b \in remote' : b.id.day < day'
  <2> SUFFICES ASSUME dag'.task = "backup", NEW b \in remote' PROVE b.id.day < day'
    OBVIOUS
  <2>1. CASE day' > day
    <3>1. b \in AllDirs'
      BY DEF AllDirs
    <3>2. PICK a \in AllDirs : a.id = b.id
      BY <3>1
    <3> QED  BY <1>1, <1>2, <2>1, <3>2
  <2>2. CASE dag.task = "backup" /\ remote' = remote /\ day' = day
    BY <2>2 DEF BKInv
  <2> QED  BY <2>1, <2>2
<1>12. dag'.task \in Busy => \E f \in local' : Leads(f)' /\ f.whole
  BY <1>8
<1> QED  BY <1>4, <1>5, <1>6, <1>7, <1>9, <1>10, <1>11, <1>12 DEF BKInv

LEMMA AddKeeps ==
  ASSUME BKInv, dag.task = "backup", ~Exists, Buildable, NEW w \in BOOLEAN,
         local' = local \cup {Dir(w)}, day' = day, remote' = remote, dag' \in [task : Tasks, tries : Nat],
         dag'.task \in {"backup", "export", "verify"}, dag'.task = "export" => w
  PROVE  BKInv'
<1> DEFINE d == Dir(w)
<1>0. PICK e : e = d
  OBVIOUS
<1>1. /\ e \in Dirs /\ e.id = Today /\ e.id.day = day /\ e.whole = w /\ Linked(e)
      /\ \A g \in Fulls(AllDirs) : \A i \in e.chain : g <= i.day
      /\ ~e.id.full => \A c \in local : c.id \in e.chain /\ c.id.full => c.whole
      /\ ~e.id.full => \E f \in local : Leads(f) /\ \A i \in e.chain : i.full => i.day <= f.id.day
      /\ \A i \in e.chain : i.day <= day
  BY <1>0, DirFits
<1>2. /\ e.id.full <=> FullDue
      /\ FullDue => e.chain = {e.id} /\ \A b \in AllDirs : b.id.day < day
      /\ \A b \in AllDirs : b.id # e.id
  BY <1>0, <1>1, DirIs DEF Today
<1>3. local' = local \cup {e} /\ AllDirs' = AllDirs \cup {e}
  BY <1>0 DEF AllDirs
<1> HIDE DEF d
<1>4. \A b \in AllDirs : b \in Dirs /\ Linked(b) /\ b.id.day \in 0..day
  BY DirsLinked
<1>5. day \in Nat \ {0} /\ day' = day
  BY DEF BKInv, BKTypes
<1>6. BKTypes'
  <2>1. \A b \in AllDirs' : b \in Dirs /\ Linked(b)'
    BY <1>1, <1>3, <1>4, <1>5 DEF Linked
  <2> QED  BY <1>5, <2>1 DEF BKTypes
<1>7. Fulls(AllDirs') = Fulls(AllDirs) \cup (IF e.id.full THEN {day} ELSE {})
  BY <1>1, <1>3 DEF Fulls
<1>8. NotPast'
  <2> SUFFICES ASSUME NEW g \in Fulls(AllDirs'), NEW b \in AllDirs', g <= b.id.day, NEW i \in b.chain PROVE g <= i.day
    BY DEF NotPast
  <2>1. CASE g \in Fulls(AllDirs) /\ b \in AllDirs
    BY <2>1 DEF BKInv, NotPast
  <2>2. CASE g \in Fulls(AllDirs) /\ b = e
    BY <1>1, <2>2
  <2>3. CASE e.id.full /\ g = day /\ b \in AllDirs
    BY <1>2, <1>4, <1>5, <2>3
  <2>4. CASE e.id.full /\ g = day /\ b = e
    <3>1. i = e.id
      BY <1>2, <2>4
    <3> QED  BY <1>1, <1>5, <2>4, <3>1
  <2> QED  BY <1>3, <1>7, <2>1, <2>2, <2>3, <2>4
<1>9. Copies'
  <2>1. \A b, c \in AllDirs' : b.id = c.id => b.chain = c.chain
    BY <1>2, <1>3 DEF BKInv, Copies
  <2>2. \A b, c \in local' : b.id = c.id => b = c
    BY <1>2, <1>3 DEF BKInv, Copies, AllDirs
  <2>3. \A b \in remote', c \in local' : b.id = c.id /\ b.whole => c.whole
    BY <1>2, <1>3 DEF BKInv, Copies, AllDirs
  <2> QED  BY <2>1, <2>2, <2>3 DEF Copies
<1>10. Founded'
  <2> SUFFICES ASSUME NEW b \in local', NEW c \in local', c.id \in b.chain, c.id.full, ~b.id.full PROVE c.whole
    BY DEF Founded
  <2>1. CASE b \in local /\ c \in local
    BY <2>1 DEF BKInv, Founded
  <2>2. CASE b = e /\ c \in local
    BY <1>1, <2>2
  <2>3. CASE b = e /\ c = e
    BY <2>3
  <2>4. CASE b \in local /\ c = e
    <3>1. FullDue /\ b \in AllDirs
      BY <1>2, <2>4 DEF AllDirs
    <3>2. b.id.day < day /\ e.id.day <= b.id.day
      BY <1>2, <1>4, <2>4, <3>1 DEF Linked
    <3> QED  BY <1>1, <1>4, <1>5, <3>1, <3>2
  <2> QED  BY <1>3, <2>1, <2>2, <2>3, <2>4
<1>11. \E f \in local' : Leads(f)' /\ ((e.id.full /\ f = e) \/ (~e.id.full /\ Leads(f)))
  <2>1. CASE e.id.full
    <3>1. \A b \in AllDirs' : \A i \in b.chain : i.full => i.day <= e.id.day
      <4> SUFFICES ASSUME NEW b \in AllDirs', NEW i \in b.chain PROVE i.day <= e.id.day
        OBVIOUS
      <4>1. CASE b = e
        BY <1>1, <4>1
      <4>2. CASE b \in AllDirs
        <5>1. i.day <= b.id.day /\ b.id.day <= day /\ b.id.day \in Nat /\ i \in Ids
          BY <1>4, <4>2 DEF Linked, Dirs
        <5> QED  BY <1>1, <1>5, <5>1 DEF Ids
      <4> QED  BY <1>3, <4>1, <4>2
    <3> QED  BY <1>3, <2>1, <3>1 DEF Leads
  <2>2. CASE ~e.id.full
    <3>1. PICK f \in local : Leads(f) /\ \A i \in e.chain : i.full => i.day <= f.id.day
      BY <1>1, <2>2
    <3>2. \A b \in AllDirs' : \A i \in b.chain : i.full => i.day <= f.id.day
      BY <1>3, <3>1 DEF Leads
    <3> QED  BY <1>3, <2>2, <3>1, <3>2 DEF Leads
  <2> QED  BY <2>1, <2>2
<1>12. ~FullDue'
  <2>1. CASE e.id.full
    <3>1. Fulls(local') \in SUBSET (0..day) /\ day \in Fulls(local')
      BY <1>1, <1>3, <1>4, <1>5, <2>1 DEF Fulls, AllDirs
    <3>2. Newest(Fulls(local')) \in Fulls(local') /\ \A g \in Fulls(local') : g <= Newest(Fulls(local'))
      <4>1. Fulls(local') # {}
        BY <3>1
      <4> QED  BY <1>5, <3>1, <4>1, NewestIs
    <3>3. Newest(Fulls(local')) = day
      BY <1>5, <3>1, <3>2
    <3>4. ~(day - day >= FullEvery)
      BY <1>5, BackupAssumption
    <3>5. Fulls(local') # {}
      BY <3>1
    <3> QED  BY <1>5, <3>3, <3>4, <3>5 DEF FullDue
  <2>2. CASE ~e.id.full
    <3>1. Fulls(local') = Fulls(local)
      BY <1>3, <2>2 DEF Fulls
    <3> QED  BY <1>2, <1>5, <2>2, <3>1 DEF FullDue
  <2> QED  BY <2>1, <2>2
<1>13. \A b \in remote' : b.id.day < day'
  BY <1>5 DEF BKInv
<1>14. dag'.task \in Busy => \E f \in local' : Leads(f)' /\ f.whole
  <2> SUFFICES ASSUME dag'.task \in Busy PROVE \E f \in local' : Leads(f)' /\ f.whole
    OBVIOUS
  <2>1. w
    BY DEF Busy
  <2>2. PICK f \in local' : Leads(f)' /\ ((e.id.full /\ f = e) \/ (~e.id.full /\ Leads(f)))
    BY <1>11
  <2>3. CASE e.id.full
    BY <1>1, <2>1, <2>2, <2>3
  <2>4. CASE ~e.id.full
    <3>2. f.id.full /\ f \in local
      BY <2>2, <2>4 DEF Leads
    <3>1. f.id \in e.chain
      <4>1. PICK i \in e.chain : i.full
        BY <1>1 DEF Linked
      <4>2. i \in Ids /\ f.id \in Ids
        BY <1>1, <1>4, <3>2 DEF Dirs, AllDirs
      <4>3. i.day <= f.id.day
        BY <1>3, <2>2, <4>1 DEF Leads
      <4>4. f.id.day <= i.day
        BY <1>1, <3>2 DEF Fulls, AllDirs
      <4>5. i.day = f.id.day
        BY <4>2, <4>3, <4>4 DEF Ids
      <4> QED  BY <3>2, <4>1, <4>2, <4>5 DEF Ids
    <3> QED  BY <1>1, <2>2, <2>4, <3>1, <3>2
  <2> QED  BY <2>3, <2>4
<1>15. dag'.task # "retain"
  OBVIOUS
<1> QED  BY <1>6, <1>8, <1>9, <1>10, <1>11, <1>12, <1>13, <1>14, <1>15 DEF BKInv
LEMMA BackupSteps == ASSUME BKInv, Backup \/ BackupFails PROVE BKInv'
<1>1. dag \in [task : Tasks, tries : Nat] /\ day \in Nat /\ day >= day
  BY DEF BKInv, BKTypes
<1>2. \A b \in AllDirs : b \in Dirs
  BY DirsLinked
<1>3. CASE Backup
  <2>1. dag.task = "backup" /\ dag' = Task("export") /\ day' = day /\ remote' = remote
    BY <1>3 DEF Backup
  <2>2. dag' \in [task : Tasks, tries : Nat] /\ dag'.task = "export"
    BY <2>1 DEF Task, Tasks, Busy
  <2>3. CASE Exists
    <3>1. local' = local
      BY <1>3, <2>3 DEF Backup
    <3>2. AllDirs' = AllDirs
      BY <2>1, <3>1 DEF AllDirs
    <3>3. \E f \in local : Leads(f) /\ f.whole
      BY <2>1, <2>3, LeadWhole
    <3>4. \A b \in remote' : b.whole => b \in AllDirs
      BY <2>1 DEF AllDirs
    <3> QED  BY <1>1, <1>2, <2>1, <2>2, <3>1, <3>2, <3>3, <3>4, LessKeeps
  <2>4. CASE ~Exists
    <3>1. Buildable /\ local' = local \cup {Dir(TRUE)}
      BY <1>3, <2>4 DEF Backup
    <3> QED  BY <2>1, <2>2, <2>4, <3>1, AddKeeps
  <2> QED  BY <2>3, <2>4
<1>4. CASE BackupFails
  <2>1. dag.task = "backup" /\ ~Exists /\ day' = day /\ remote' = remote
    BY <1>4 DEF BackupFails
  <2>2. FailTask
    BY <1>4 DEF BackupFails
  <2>3. dag' \in [task : Tasks, tries : Nat] /\ dag'.task \in {"backup", "verify"}
    BY <1>1, <2>1, <2>2 DEF FailTask, Task, Tasks, Busy
  <2>4. dag'.task \notin Busy /\ dag'.task # "retain"
    BY <2>3 DEF Busy
  <2>5. CASE local' = local
    <3>1. AllDirs' = AllDirs
      BY <2>1, <2>5 DEF AllDirs
    <3>2. \A b \in remote' : b.whole => b \in AllDirs
      BY <2>1 DEF AllDirs
    <3> QED  BY <1>1, <1>2, <2>1, <2>3, <2>4, <2>5, <3>1, <3>2, LessKeeps
  <2>6. CASE local' # local
    <3>1. Buildable
      BY <1>4, <2>6 DEF BackupFails
    <3>2. PICK w \in BOOLEAN : local' = local \cup {Dir(w)}
      BY <1>4, <2>6, <3>1 DEF BackupFails
    <3> QED  BY <2>1, <2>3, <3>1, <3>2, AddKeeps
  <2> QED  BY <2>5, <2>6
<1> QED  BY <1>3, <1>4

\* What rsync leaves on the remote: a copy of each name that was there or came.
LEMMA SyncIs ==
  ASSUME BKInv, NEW done \in SUBSET local, NEW begun \in SUBSET local,
         NEW R, R = {b \in remote : \A c \in done : c.id # b.id} \cup done
                    \cup {[b EXCEPT !.whole = FALSE] : b \in begun}
  PROVE  /\ \A b \in R : b \in Dirs /\ \E a \in AllDirs : a.id = b.id /\ a.chain = b.chain
         /\ \A b \in R : b.whole => b \in AllDirs
         /\ \A b \in remote : \E c \in R : c.id = b.id /\ c.chain = b.chain /\ (b.whole => c.whole)
<1>1. \A b \in AllDirs : b \in Dirs
  BY DirsLinked
<1>2. \A b \in begun : LET c == [b EXCEPT !.whole = FALSE] IN
        c \in Dirs /\ c.id = b.id /\ c.chain = b.chain /\ ~c.whole
  <2> TAKE b \in begun
  <2>1. b \in [id : Ids, chain : SUBSET Ids, whole : BOOLEAN]
    BY <1>1 DEF Dirs, AllDirs
  <2> QED  BY <2>1 DEF Dirs
<1>3. ASSUME NEW b \in R
      PROVE  b \in AllDirs \/ (b \in Dirs /\ ~b.whole /\ \E a \in AllDirs : a.id = b.id /\ a.chain = b.chain)
  <2>1. CASE b \in AllDirs
    BY <2>1
  <2>2. CASE b \notin AllDirs
    <3>1. PICK a \in begun : b = [a EXCEPT !.whole = FALSE]
      BY <2>2 DEF AllDirs
    <3>2. a \in AllDirs
      BY DEF AllDirs
    <3> QED  BY <1>2, <3>1, <3>2
  <2> QED  BY <2>1, <2>2
<1>4. ASSUME NEW b \in remote
      PROVE  \E c \in R : c.id = b.id /\ c.chain = b.chain /\ (b.whole => c.whole)
  <2>1. CASE \A c \in done : c.id # b.id
    BY <2>1
  <2>2. CASE \E c \in done : c.id = b.id
    <3>1. PICK c \in done : c.id = b.id
      BY <2>2
    <3>2. c \in local /\ c \in AllDirs /\ b \in AllDirs
      BY DEF AllDirs
    <3>3. c.chain = b.chain /\ (b.whole => c.whole)
      BY <3>1, <3>2 DEF BKInv, Copies
    <3> QED  BY <3>1, <3>3
  <2> QED  BY <2>1, <2>2
<1> QED  BY <1>1, <1>3, <1>4

\* Either rsync: all of the directories have arrived, or some.
LEMMA SyncsAs ==
  ASSUME BKInv, Sync \/ SyncFails
  PROVE  \E done \in SUBSET local : \E begun \in SUBSET local :
           remote' = {b \in remote : \A c \in done : c.id # b.id} \cup done
                     \cup {[b EXCEPT !.whole = FALSE] : b \in begun}
<1>1. CASE Sync
  <2>1. remote' = {b \in remote : \A c \in local : c.id # b.id} \cup local \cup {[b EXCEPT !.whole = FALSE] : b \in {}}
    BY <1>1 DEF Sync
  <2> QED  BY <2>1
<1>2. CASE SyncFails
  <2>1. PICK done \in SUBSET Pending : \E begun \in SUBSET (Pending \ done) :
          remote' = {b \in remote : \A c \in done : c.id # b.id} \cup done
                    \cup {[b EXCEPT !.whole = FALSE] : b \in begun}
    BY <1>2 DEF SyncFails
  <2>2. PICK begun \in SUBSET (Pending \ done) :
          remote' = {b \in remote : \A c \in done : c.id # b.id} \cup done
                    \cup {[b EXCEPT !.whole = FALSE] : b \in begun}
    BY <2>1
  <2>3. done \in SUBSET local /\ begun \in SUBSET local
    BY DEF Pending
  <2> QED  BY <2>2, <2>3
<1> QED  BY <1>1, <1>2
\* What the tasks that delete leave: the leading full backup and what is newer.
LEMMA TakenIsOld ==
  ASSUME BKInv, Free \/ Retain \/ Prune
  PROVE  \E f \in local : /\ Leads(f) /\ f.whole /\ (dag.task = "retain" => f \in remote)
                          /\ local' \in SUBSET local /\ remote' \in SUBSET remote
                          /\ \A b \in local : b \notin local' => b.id.day < f.id.day
                          /\ \A b \in remote : b \notin remote' => b.id.day < f.id.day
<1>1. dag.task \in Busy
  BY DEF Free, Retain, Prune, Busy
<1>2. PICK f \in local : Leads(f) /\ f.whole
  BY <1>1 DEF BKInv
<1>3. f.id.full
  BY <1>2 DEF Leads
<1>4. KeepFulls \in Nat \ {0} /\ 1 \in Nat \ {0}
  BY BackupAssumption
<1>5. CASE Free
  <2> DEFINE D == Fulls(local) \cup Fulls(remote)
  <2>1. \A b \in AllDirs : b.id.day \in Nat /\ (b.id.full => b.id.day <= f.id.day)
    BY <1>2, DirsLinked DEF Leads, Linked
  <2>2. f.id.day \in D /\ f.id.day \in Nat /\ \A e \in D : e <= f.id.day /\ e \in Nat
    BY <1>3, <2>1 DEF Fulls, AllDirs
  <2>3. \A e \in D : ~(e > f.id.day)
    BY <2>2
  <2>4. f.id.day \in LastOf(KeepFulls, D)
    <3> HIDE DEF D
    <3> QED  BY <1>4, <2>2, <2>3, LastKept
  <2>5. \A b \in Freed : b \in remote /\ b.id.full /\ b.id.day # f.id.day
    BY <2>4 DEF Freed
  <2>6. \A b \in Freed : b.id.day < f.id.day
    BY <2>1, <2>2, <2>5 DEF AllDirs
  <2>7. remote' = remote \ Freed /\ local' = local /\ dag.task = "free"
    BY <1>5 DEF Free
  <2> QED  BY <1>2, <2>6, <2>7
<1>6. CASE Retain
  <2>1. f \in remote
    BY <1>2, <1>6 DEF Retain, BKInv
  <2>2. \A b \in Outdated(remote, LastOf(KeepFulls, Fulls(remote))) : b \in remote /\ b.id.day < f.id.day
    <3>1. remote \in SUBSET AllDirs
      BY DEF AllDirs
    <3> QED  BY <1>2, <1>3, <1>4, <2>1, <3>1, OutdatedIsOld
  <2>3. remote' = remote \ Outdated(remote, LastOf(KeepFulls, Fulls(remote))) /\ local' = local
    BY <1>6 DEF Retain
  <2> QED  BY <1>2, <2>1, <2>2, <2>3
<1>7. CASE Prune
  <2>1. \A b \in Outdated(local, LastOf(1, Fulls(local))) : b \in local /\ b.id.day < f.id.day
    <3>1. local \in SUBSET AllDirs
      BY DEF AllDirs
    <3> QED  BY <1>2, <1>3, <1>4, <3>1, OutdatedIsOld
  <2>2. local' = local \ Outdated(local, LastOf(1, Fulls(local))) /\ remote' = remote /\ dag.task = "prune"
    BY <1>7 DEF Prune
  <2> QED  BY <1>2, <2>1, <2>2
<1> QED  BY <1>5, <1>6, <1>7

LEMMA OtherSteps == ASSUME BKInv, BKNext, ~Backup, ~BackupFails PROVE BKInv'
<1>1. dag \in [task : Tasks, tries : Nat] /\ day \in Nat /\ day >= day /\ day + 1 \in Nat /\ day + 1 > day /\ day + 1 >= day
  BY DEF BKInv, BKTypes
<1>2. \A b \in AllDirs : b \in Dirs
  BY DirsLinked
<1>3. dag.task \in Busy => \E f \in local : Leads(f) /\ f.whole
  BY DEF BKInv
<1>4. dag' \in [task : Tasks, tries : Nat] /\ (dag'.task = "backup" => NextDay) /\ (dag'.task \in Busy => dag.task \in Busy)
  <2>1. CASE Export \/ Free \/ Sync \/ Retain \/ Prune
    BY <2>1 DEF Export, Free, Sync, Retain, Prune, Task, Tasks, Busy
  <2>2. CASE SyncFails \/ StepFails
    <3>1. FailTask /\ dag.task \in Busy
      BY <2>2 DEF SyncFails, StepFails, Busy
    <3> QED  BY <1>1, <3>1 DEF FailTask, Task, Tasks, Busy
  <2>3. CASE NextDay
    BY <2>3 DEF NextDay, Task, Tasks, Busy
  <2> QED  BY <2>1, <2>2, <2>3 DEF BKNext
<1>5. CASE Free \/ Retain \/ Prune
  <2>1. PICK f \in local : /\ Leads(f) /\ f.whole /\ local' \in SUBSET local /\ remote' \in SUBSET remote
                           /\ \A b \in local : b \notin local' => b.id.day < f.id.day
    BY <1>5, TakenIsOld
  <2>2. day' = day /\ dag'.task \in {"sync", "prune", "verify"}
    BY <1>5 DEF Free, Retain, Prune, Task
  <2>3. \A g \in local : Leads(g) => g \in local'
    <3> SUFFICES ASSUME NEW g \in local, Leads(g) PROVE g \in local'
      OBVIOUS
    <3>1. f.id.day <= g.id.day
      BY <2>1, DirsLinked DEF Leads, Linked, AllDirs
    <3>2. f.id.day \in Nat /\ g.id.day \in Nat
      BY <1>2 DEF Dirs, Ids, AllDirs
    <3> QED  BY <2>1, <3>1, <3>2
  <2>4. \A b \in AllDirs' : b \in AllDirs
    BY <2>1 DEF AllDirs
  <2>5. ~NextDay
    BY <1>1, <2>2 DEF NextDay
  <2>6. \A b \in remote' : b.whole => b \in AllDirs
    BY <2>1 DEF AllDirs
  <2> QED  BY <1>1, <1>2, <1>3, <1>4, <2>1, <2>2, <2>3, <2>4, <2>5, <2>6, LessKeeps
<1>6. CASE Sync \/ SyncFails
  <2>1. PICK done \in SUBSET local, begun \in SUBSET local :
           remote' = {b \in remote : \A c \in done : c.id # b.id} \cup done
                     \cup {[b EXCEPT !.whole = FALSE] : b \in begun}
    BY <1>6, SyncsAs
  <2>2. day' = day /\ local' = local /\ (dag'.task = "retain" => local' \subseteq remote')
    <3>1. CASE Sync
      BY <3>1 DEF Sync
    <3>2. CASE SyncFails
      <4>1. dag'.task # "retain"
        BY <1>1, <3>2 DEF SyncFails, FailTask, Task
      <4> QED  BY <3>2, <4>1 DEF SyncFails
    <3> QED  BY <1>6, <3>1, <3>2
  <2>3. /\ \A b \in remote' : b \in Dirs /\ \E a \in AllDirs : a.id = b.id /\ a.chain = b.chain
        /\ \A b \in remote' : b.whole => b \in AllDirs
    BY <2>1, SyncIs
  <2>4. \A b \in AllDirs' : b \in Dirs /\ \E a \in AllDirs : a.id = b.id /\ a.chain = b.chain
    <3>1. \A b \in local' : b \in AllDirs
      BY <2>2 DEF AllDirs
    <3> QED  BY <1>2, <2>3, <3>1 DEF AllDirs
  <2>5. ~NextDay
    BY <1>1, <2>2 DEF NextDay
  <2> QED  BY <1>1, <1>3, <1>4, <2>2, <2>3, <2>4, <2>5, LessKeeps
<1>7. CASE Export \/ StepFails \/ NextDay
  <2>1. local' = local /\ remote' = remote /\ AllDirs' = AllDirs
    BY <1>7 DEF Export, StepFails, NextDay, AllDirs
  <2>2. day' \in Nat /\ day' >= day /\ (NextDay => day' > day)
    <3>1. CASE NextDay
      BY <1>1, <3>1 DEF NextDay
    <3>2. CASE ~NextDay
      BY <1>1, <1>7, <3>2 DEF Export, StepFails
    <3> QED  BY <3>1, <3>2
  <2>3. dag'.task = "retain" => local' \subseteq remote'
    <3>1. dag'.task = "retain" => dag.task = "retain"
      BY <1>1, <1>7 DEF Export, StepFails, NextDay, FailTask, Task
    <3> QED  BY <2>1, <3>1 DEF BKInv
  <2>4. \A b \in remote' : b.whole => b \in AllDirs
    BY <2>1 DEF AllDirs
  <2> QED  BY <1>2, <1>3, <1>4, <2>1, <2>2, <2>3, <2>4, LessKeeps
<1> QED  BY <1>5, <1>6, <1>7 DEF BKNext

LEMMA BKKeeps == ASSUME BKInv, BKNext \/ UNCHANGED bkVars PROVE BKInv'
<1>1. CASE UNCHANGED bkVars
  <2>1. day' = day /\ dag' = dag /\ local' = local /\ remote' = remote
    BY <1>1 DEF bkVars
  <2> QED  BY <2>1 DEF BKInv, BKTypes, NotPast, Copies, Founded, AllDirs, Linked, Leads, FullDue
<1> QED  BY <1>1, BackupSteps, OtherSteps
\* What free_remote_space deletes does not cost the remote its newest point while
\* fewer full backups are missing there than it keeps.
LEMMA FreeKeepsRemote ==
  ASSUME BKInv, Free, Cardinality(Missing) < KeepFulls
  PROVE  Point(remote') >= Point(remote)
<1>1. \A b \in AllDirs : b \in Dirs /\ Linked(b) /\ b.id \in b.chain /\ b.id.day \in 0..day
  BY DirsLinked DEF Linked
<1>2. day \in Nat /\ KeepFulls \in Nat
  BY DirsLinked, BackupAssumption
<1>3. remote' = remote \ Freed
  BY DEF Free
<1>4. Missing \in SUBSET (0..day) /\ IsFiniteSet(Missing)
  <2>1. Missing \in SUBSET (0..day)
    BY <1>1 DEF Missing, Fulls, AllDirs
  <2>2. IsFiniteSet(0..day)
    BY <1>2, FS_Interval
  <2> QED  BY <2>1, <2>2, FS_Subset
<1>5. ASSUME NEW b \in remote, Restorable(b, remote), \A c \in remote : Restorable(c, remote) => c.id.day <= b.id.day
      PROVE  \E c \in remote' : c.id.day >= b.id.day /\ Restorable(c, remote')
  <2>1. ASSUME NEW c \in remote, c.id \in b.chain PROVE c \in remote'
    <3> DEFINE D == Fulls(local) \cup Fulls(remote)
               newer == {e \in D : e > c.id.day}
    <3>1. CASE ~c.id.full
      BY <1>3, <3>1 DEF Freed
    <3>2. CASE c.id.full
      <4>1. newer \subseteq Missing
        <5> SUFFICES ASSUME NEW e \in newer PROVE e \in Missing
          OBVIOUS
        <5>1. e \in Fulls(local \cup remote) /\ e \in Nat
          BY <1>1, <1>2 DEF Fulls, AllDirs
        <5>2. ASSUME NEW a \in remote, a.id.day = e, a.id.full, a.whole PROVE FALSE
          <6>1. a.chain = {a.id}
            BY <1>1, <5>2 DEF Linked, AllDirs
          <6>2. Restorable(a, remote)
            BY <5>2, <6>1 DEF Restorable
          <6>3. e <= b.id.day
            BY <1>5, <5>2, <6>2
          <6>4. e <= c.id.day
            BY <2>1, <5>1, <6>3 DEF BKInv, NotPast, AllDirs
          <6>5. c.id.day \in Nat /\ e > c.id.day
            BY <1>1, <1>2 DEF AllDirs
          <6> QED  BY <5>1, <6>4, <6>5
        <5> QED  BY <5>1, <5>2 DEF Missing
      <4>2. Cardinality(newer) < KeepFulls
        <5> HIDE DEF newer
        <5>1. Cardinality(newer) <= Cardinality(Missing) /\ IsFiniteSet(newer)
          BY <1>4, <4>1, FS_Subset
        <5>2. Cardinality(newer) \in Nat /\ Cardinality(Missing) \in Nat
          BY <1>4, <5>1, FS_CardinalityType
        <5> QED  BY <1>2, <5>1, <5>2
      <4>3. c.id.day \in D
        BY <3>2 DEF Fulls
      <4>4. c.id.day \in LastOf(KeepFulls, D)
        BY <4>2, <4>3 DEF LastOf
      <4> QED  BY <1>3, <4>4 DEF Freed
    <3> QED  BY <3>1, <3>2
  <2>2. b \in remote'
    BY <1>1, <2>1 DEF AllDirs
  <2>3. ASSUME NEW i \in b.chain PROVE \E c \in remote' : c.id = i /\ c.whole
    <3>1. PICK c \in remote : c.id = i /\ c.whole
      BY <1>5 DEF Restorable
    <3> QED  BY <2>1, <3>1
  <2>4. b.id.day >= b.id.day
    BY <1>1, <1>2 DEF AllDirs
  <2> QED  BY <2>2, <2>3, <2>4 DEF Restorable
<1>6. \A b \in remote \cup remote' : b.id.day \in 0..day
  BY <1>1, <1>3 DEF AllDirs
<1> QED  BY <1>2, <1>5, <1>6, PointHolds

LEMMA PointSteps ==
  ASSUME BKInv, BKNext
  PROVE  Point(AllDirs') >= Point(AllDirs) /\ (Cardinality(Missing) < KeepFulls => Point(remote') >= Point(remote))
<1>1. \A b \in AllDirs : b \in Dirs /\ Linked(b) /\ b.id.day \in 0..day
  BY DirsLinked
<1>2. day \in Nat /\ day' \in Nat /\ \A b \in AllDirs' : b.id.day \in 0..day'
  <2>1. BKInv'
    BY BKKeeps
  <2>2. \A b \in AllDirs' : Linked(b)' /\ b \in Dirs
    BY <2>1 DEF BKInv, BKTypes
  <2>3. day' \in Nat
    BY <2>1 DEF BKInv, BKTypes
  <2>4. \A b \in AllDirs' : b.id.day \in Nat /\ b.id.day <= day'
    BY <2>2 DEF Linked, Dirs, Ids
  <2> QED  BY <1>1, <2>3, <2>4, DirsLinked
<1>3. day' >= day
  <2>1. day' = day \/ day' = day + 1
    BY DEF BKNext, Backup, BackupFails, Export, Free, Sync, SyncFails, Retain, Prune, StepFails, NextDay
  <2> QED  BY <1>2, <2>1
<1>4. \A b \in AllDirs \cup AllDirs' : b.id.day \in 0..day'
  BY <1>1, <1>2, <1>3
<1>5. \A b \in remote \cup remote' : b.id.day \in 0..day'
  BY <1>4 DEF AllDirs
<1>6. CASE Backup \/ BackupFails \/ Export \/ StepFails \/ NextDay
  <2>1. remote' = remote /\ local \subseteq local'
    BY <1>6 DEF Backup, BackupFails, Export, StepFails, NextDay
  <2>2. \A b \in AllDirs : b \in AllDirs'
    BY <2>1 DEF AllDirs
  <2>3. Point(AllDirs') >= Point(AllDirs)
    BY <1>2, <1>4, <2>2, PointCopied
  <2>4. Point(remote') >= Point(remote)
    BY <1>2, <1>5, <2>1, PointCopied
  <2> QED  BY <2>3, <2>4
<1>7. CASE Sync \/ SyncFails
  <2>1. PICK done \in SUBSET local, begun \in SUBSET local :
           remote' = {b \in remote : \A c \in done : c.id # b.id} \cup done
                     \cup {[b EXCEPT !.whole = FALSE] : b \in begun}
    BY <1>7, SyncsAs
  <2>2. \A b \in remote : \E c \in remote' : c.id = b.id /\ c.chain = b.chain /\ (b.whole => c.whole)
    BY <2>1, SyncIs
  <2>3. local' = local
    BY <1>7 DEF Sync, SyncFails
  <2>4. \A b \in AllDirs : \E c \in AllDirs' : c.id = b.id /\ c.chain = b.chain /\ (b.whole => c.whole)
    BY <2>2, <2>3 DEF AllDirs
  <2>5. Point(AllDirs') >= Point(AllDirs)
    BY <1>2, <1>4, <2>4, PointCopied
  <2>6. Point(remote') >= Point(remote)
    BY <1>2, <1>5, <2>2, PointCopied
  <2> QED  BY <2>5, <2>6
<1>8. CASE Free \/ Retain \/ Prune
  <2>1. PICK f \in local : /\ Leads(f) /\ f.whole /\ (dag.task = "retain" => f \in remote)
                           /\ local' \in SUBSET local /\ remote' \in SUBSET remote
                           /\ \A b \in local : b \notin local' => b.id.day < f.id.day
                           /\ \A b \in remote : b \notin remote' => b.id.day < f.id.day
    BY <1>8, TakenIsOld
  <2>2. f.id.full /\ f \in AllDirs
    BY <2>1 DEF Leads, AllDirs
  <2>3. AllDirs' \in SUBSET AllDirs /\ \A b \in AllDirs : b \notin AllDirs' => b.id.day < f.id.day
    BY <2>1 DEF AllDirs
  <2>4. Point(AllDirs') >= Point(AllDirs)
    <3>1. AllDirs \in SUBSET AllDirs
      OBVIOUS
    <3> QED  BY <2>1, <2>2, <2>3, <3>1, PointKeeps
  <2>5. CASE Free
    BY <2>4, <2>5, FreeKeepsRemote
  <2>6. CASE Retain
    <3>1. remote \in SUBSET AllDirs /\ f \in remote
      BY <2>1, <2>6 DEF AllDirs, Retain
    <3> QED  BY <2>1, <2>2, <2>4, <3>1, PointKeeps
  <2>7. CASE Prune
    <3>1. remote' = remote
      BY <2>7 DEF Prune
    <3>2. Point(remote') >= Point(remote)
      BY <1>2, <1>5, <3>1, PointCopied
    <3> QED  BY <2>4, <3>2
  <2> QED  BY <1>8, <2>5, <2>6, <2>7
<1> QED  BY <1>6, <1>7, <1>8 DEF BKNext

-----------------------------------------------------------------------------
(* The theorems *)

LEMMA OneOfSix ==
  ASSUME [Next]_vars
  PROVE  /\ (LBNext \/ UNCHANGED lbVars) /\ (DRNext \/ UNCHANGED drVars) /\ (NTNext \/ UNCHANGED ntVars)
         /\ (SWNext \/ UNCHANGED swVars) /\ (OBNext \/ UNCHANGED obVars) /\ (BKNext \/ UNCHANGED bkVars)
BY DEF Next, vars, rest, BackupStep, RunStep, NotifierStep, LabelStep, SwapStep, OnboardingStep

\* After a run that saw every market the table says of each what the run saw, and
\* of no other that it is alive: for any number of markets, partial snapshots,
\* failed inserts and lost or torn state files (poll_market_state.py).
THEOREM LabelsAreCurrent == Spec => []LabelsCurrent
<1>1. Init => LBInv
  BY LBStarts DEF Init
<1>2. LBInv /\ [Next]_vars => LBInv'
  BY LBKeeps, OneOfSix
<1>3. LBInv => LabelsCurrent
  BY DEF LBInv, LabelsCurrent, Agrees
<1> QED  BY <1>1, <1>2, <1>3, PTL DEF Spec

\* A day is judged, for any number of markets, whatever tasks fail, whichever posts
\* Slack swallows and however the data change under a run: no report for a day that
\* did not pass, an alarm where there is no report, and every lost cell whose candle
\* was fetched is told of or its message swallowed (daily_pipeline.py,
\* reconcile_trades.py, slack_callbacks.py).
THEOREM DaysAreJudged == Spec => []DayJudged
<1>1. Init => DRInv
  BY DRStarts DEF Init
<1>2. DRInv /\ [Next]_vars => DRInv'
  BY DRKeeps, OneOfSix
<1> QED  BY <1>1, <1>2, JudgedByInv, PTL DEF Spec

\* For any number of alerts, however late their rows come, whichever runs are not
\* made or stop and whatever entries are lost: an alert is told of once, and again
\* only after a post that was not recorded; it leaves the window untold only when
\* no run found it there, or every run that did stopped
\* (market_alerts_notify.py, quality_alerts.py).
THEOREM AlertsAreNotified == Spec => []NotifiedOnce
<1>1. Init => NTInv
  BY NTStarts DEF Init
<1>2. NTInv /\ [Next]_vars => NTInv'
  BY NTKeeps, OneOfSix
<1> QED  BY <1>1, <1>2, NotifiedByInv, PTL DEF Spec

\* For any trades, batches and days, wherever inserts and retention come between the
\* statements of the script and of its rollback, and whichever statements fail
\* without the script seeing it: the live table has every trade, unless one of the
\* statements that this takes (Needed) was not carried out
\* (mysql-trades-partition-swap.sh).
THEOREM SwapIsLossless == Spec => []SwapLosesNothing
<1>1. Init => SWInv
  BY SWStarts DEF Init
<1>2. SWInv /\ [Next]_vars => SWInv'
  BY SWKeeps, OneOfSix
<1> QED  BY <1>1, <1>2, SwappedByInv, PTL DEF Spec

\* For any keys, versions and chunks, however snapshot and change events overtake each
\* other, ClickHouse shows the onboarded table at the end, but for a row put again
\* under the key of a deleted one (the onboarding script, ReplacingMergeTree).
THEOREM OnboardedTablesMirror == Spec => []OnboardedMirrors
<1>1. Init => OBInv
  BY OBStarts DEF Init
<1>2. OBInv /\ [Next]_vars => OBInv'
  BY OBKeeps, OneOfSix
<1> QED  BY <1>1, <1>2, MirroredByInv, PTL DEF Spec

\* For any number of days and mishaps, any interval of full backups and any number
\* of them kept, no task of backup_daily costs the newest restore point: not both
\* sides together, and not the remote while it lacks fewer full backups than it
\* keeps.
THEOREM NewestPointKept == Spec => PointKept
<1>1. Init => BKInv
  BY BKStarts DEF Init
<1>2. BKInv /\ [Next]_vars => BKInv'
  BY BKKeeps, OneOfSix
<1>3. BKInv /\ [Next]_vars =>
        [/\ Point(local' \cup remote') >= Point(local \cup remote)
         /\ Cardinality(Missing) < KeepFulls => Point(remote') >= Point(remote)]_bkVars
  BY PointSteps, OneOfSix DEF AllDirs
<1> QED  BY <1>1, <1>2, <1>3, PTL DEF Spec, PointKept
=============================================================================
