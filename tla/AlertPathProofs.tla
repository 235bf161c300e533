---------------------------- MODULE AlertPathProofs ----------------------------
(* Proofs about AlertPath, for every value of its constants: types, and what the
   health check promises of messages, escalations and all-clears, through failed
   lookups, statements and posts, killed tasks and a dead host. *)
EXTENDS AlertPath, Maxima, TLAPS

-----------------------------------------------------------------------------
(* The invariant *)

Trails == [since : 0..(Hour + 1), inc : 0..(Window + 2), fresh : BOOLEAN, esc : 0..2,
           open : BOOLEAN]

\* The records have these fields, whatever the results of the checks.
RunForm ==
  /\ run = [at |-> run.at, res |-> run.res, names |-> run.names, send |-> run.send,
            out |-> run.out, tries |-> run.tries]
  /\ run.out \in [esc : SUBSET Names, rec : SUBSET Names]
WorldForm == world = [host |-> world.host, store |-> world.store, feed |-> world.feed,
                      conn |-> world.conn, rest |-> world.rest]
GuardForm == /\ beat = [age |-> beat.age, says |-> beat.says]
             /\ wd = [level |-> wd.level, since |-> wd.since, ran |-> wd.ran]
TrailForm == trail \in [Names -> Trails]
RunShape == RunForm /\ WorldForm /\ GuardForm /\ TrailForm

\* A dead host runs nothing.
Firm == ~world.host => run = Idle

\* What the steps of a run know of the history.
Sending == run.at \in {"post", "record"} => \A n \in run.send : trail[n].since = 0
Named == run.at \in {"post", "record", "escalate", "stamp"} =>
           \A n \in Names : trail[n].inc >= 1 <=> n \in run.names
Outgoing == run.at = "stamp" => /\ run.out.esc \subseteq run.names
                                /\ run.out.rec \cap run.names = {}

\* What was sent since the last fault of the table is in the table, or about to be.
SentRows ==
  \A n \in Names : trail[n].since <= Hour /\ trail[n].since < calm =>
    \/ trail[n].since \in Ages(n, "health_check")
    \/ run.at \in {"post", "record"} /\ n \in run.send

\* An undisturbed incident: its first row is as old as it is, nothing is older, and
\* it has been escalated if and only if it is old enough.
Live(n) == trail[n].fresh /\ trail[n].inc \in 1..(Window + 1)
Age(n) == trail[n].inc - 1
Due(n) == IF run.at \in {"stamp", "done"} THEN Age(n) >= EscalateAfter ELSE Age(n) > EscalateAfter
Stamping(n) == run.at = "stamp" /\ n \in run.out.esc

Incident(n) ==
  /\ Ages(n, "recovery") = {}
  /\ \A a \in Ages(n, "health_check") \cup Ages(n, "escalation") : a <= Age(n)
  /\ \/ Age(n) \in Ages(n, "health_check")
     \/ run.at \in {"post", "record"} /\ n \in run.send /\ Age(n) = 0
  /\ trail[n].esc = IF Ages(n, "escalation") # {} \/ Stamping(n) THEN 1 ELSE 0
  /\ trail[n].esc = IF Due(n) THEN 1 ELSE 0

Incidents == \A n \in Critical : Live(n) => Incident(n)
Calmly == run.at = "failed" => \A n \in Names : ~Live(n)
Healthy == \A n \in Names : trail[n].inc = 0 => trail[n].esc = 0

\* No row of this tick yet, before the run has stamped.
Unstamped ==
  run.at \in {"due", "judge", "post", "record", "escalate", "stamp"} /\ calm > 0 =>
    \A n \in Names : 0 \notin Ages(n, "escalation") /\ 0 \notin Ages(n, "recovery")

\* The newest of the rows written since the last fault tells what is open.
Opens(n) ==
  /\ \A a \in Ages(n, "escalation") :
       a < calm /\ (\A b \in Ages(n, "recovery") : b > a) => trail[n].open
  /\ \A b \in Ages(n, "recovery") :
       b < calm /\ (\A a \in Ages(n, "escalation") : a > b) => ~trail[n].open
Distinct(n) == \A a \in Ages(n, "escalation") : a < calm => a \notin Ages(n, "recovery")

Openness ==
  \A n \in Names :
    /\ Distinct(n)
    /\ ~(run.at = "stamp" /\ calm > 0 /\ n \in run.out.esc \cup run.out.rec) => Opens(n)
    /\ run.at = "stamp" /\ calm > 0 /\ n \in run.out.esc => trail[n].open
    /\ run.at = "stamp" /\ calm > 0 /\ n \in run.out.rec => ~trail[n].open
    /\ calm > Window /\ trail[n].open => Ages(n, "escalation") # {} \/ Stamping(n)

\* What run, table and history say of each other.
Agreed == /\ Sending /\ Named /\ Outgoing /\ SentRows
          /\ Incidents /\ Calmly /\ Healthy /\ Unstamped /\ Openness

AInv == TypeOK /\ RunShape /\ Firm /\ Agreed

-----------------------------------------------------------------------------
(* Operators *)

LEMMA HealthConstants ==
  /\ Hour \in Nat /\ EscalateAfter \in Nat /\ Window \in Nat /\ MaxFaults \in Nat
  /\ EscalateAfter <= Hour /\ Hour < Window /\ DownAfter \in Nat /\ Repeat \in Nat
BY HealthAssumption, WatchdogAssumption

LEMMA InterruptedIs ==
  ASSUME NEW t \in Trails
  PROVE  /\ Interrupted(t) \in Trails
         /\ Interrupted(t).since = t.since /\ Interrupted(t).inc = t.inc
         /\ Interrupted(t).esc = t.esc /\ Interrupted(t).open = t.open
         /\ Interrupted(t).fresh <=> (t.fresh /\ t.inc = 0)
BY DEF Trails, Interrupted

LEMMA AtMostIs ==
  ASSUME NEW k \in Nat, NEW cap \in Nat
  PROVE  /\ AtMost(k, cap) \in 0..cap
         /\ k <= cap => AtMost(k, cap) = k
         /\ k > cap => AtMost(k, cap) = cap
BY DEF AtMost

LEMMA UnhealthyNames == \A res : Unhealthy(res) \subseteq Names
BY DEF Unhealthy, Names

LEMMA AgesType ==
  ASSUME TypeOK
  PROVE  \A n, src : \A a \in Ages(n, src) : a \in 0..Window
BY DEF TypeOK, Ages

LEMMA AgesSame ==
  ASSUME alerts' = alerts
  PROVE  \A n, src : Ages(n, src)' = Ages(n, src)
BY DEF Ages

LEMMA AgesMore ==
  ASSUME NEW S, NEW s0, alerts' = alerts \cup [name : S, source : {s0}, age : {0}]
  PROVE  \A n, src, a : a \in Ages(n, src)' <=> a \in Ages(n, src) \/ (a = 0 /\ n \in S /\ src = s0)
<1> DEFINE X == [name : S, source : {s0}, age : {0}]
<1>1. SUFFICES ASSUME NEW n, NEW src, NEW a
      PROVE  a \in Ages(n, src)' <=> a \in Ages(n, src) \/ (a = 0 /\ n \in S /\ src = s0)
  OBVIOUS
<1>2. a \in Ages(n, src) <=> \E r \in alerts : r.name = n /\ r.source = src /\ r.age = a
  BY DEF Ages
<1>3. a \in Ages(n, src)' <=> \E r \in alerts' : r.name = n /\ r.source = src /\ r.age = a
  BY DEF Ages
<1>4. (\E r \in X : r.name = n /\ r.source = src /\ r.age = a) <=> (a = 0 /\ n \in S /\ src = s0)
  <2>1. ASSUME NEW r \in X, r.name = n /\ r.source = src /\ r.age = a
        PROVE  a = 0 /\ n \in S /\ src = s0
    BY <2>1
  <2>2. ASSUME a = 0, n \in S, src = s0 PROVE \E r \in X : r.name = n /\ r.source = src /\ r.age = a
    <3>1. [name |-> n, source |-> src, age |-> 0] \in X
      BY <2>2
    <3> QED  BY <2>2, <3>1
  <2> QED  BY <2>1, <2>2
<1> HIDE DEF X
<1>5. alerts' = alerts \cup X
  BY DEF X
<1> QED  BY <1>2, <1>3, <1>4, <1>5

LEMMA AgesTick ==
  ASSUME TypeOK, alerts' = {[r EXCEPT !.age = @ + 1] : r \in {q \in alerts : q.age < Window}}
  PROVE  \A n, src, a : a \in Ages(n, src)' <=> \E b \in Ages(n, src) : b < Window /\ a = b + 1
<1>1. SUFFICES ASSUME NEW n, NEW src, NEW a
      PROVE  a \in Ages(n, src)' <=> \E b \in Ages(n, src) : b < Window /\ a = b + 1
  OBVIOUS
<1>2. \A b : b \in Ages(n, src) <=> \E r \in alerts : r.name = n /\ r.source = src /\ r.age = b
  BY DEF Ages
<1>3. a \in Ages(n, src)' <=> \E r \in alerts' : r.name = n /\ r.source = src /\ r.age = a
  BY DEF Ages
<1>4. \A r \in alerts : LET o == [r EXCEPT !.age = @ + 1]
                        IN  o.name = r.name /\ o.source = r.source /\ o.age = r.age + 1
  BY DEF TypeOK
<1>5. ASSUME NEW r \in alerts', r.name = n /\ r.source = src /\ r.age = a
      PROVE  \E b \in Ages(n, src) : b < Window /\ a = b + 1
  <2>1. PICK q \in alerts : q.age < Window /\ r = [q EXCEPT !.age = @ + 1]
    OBVIOUS
  <2>2. q.name = n /\ q.source = src /\ a = q.age + 1
    BY <1>4, <1>5, <2>1
  <2>3. q.age \in Ages(n, src)
    BY <1>2, <2>2
  <2> QED  BY <2>1, <2>2, <2>3
<1>6. ASSUME NEW b \in Ages(n, src), b < Window, a = b + 1
      PROVE  \E r \in alerts' : r.name = n /\ r.source = src /\ r.age = a
  <2>1. PICK q \in alerts : q.name = n /\ q.source = src /\ q.age = b
    BY <1>2
  <2>2. [q EXCEPT !.age = @ + 1] \in alerts'
    BY <1>6, <2>1
  <2> QED  BY <1>4, <1>6, <2>1, <2>2
<1> QED  BY <1>3, <1>5, <1>6

-----------------------------------------------------------------------------
(* Steps that leave the table as it is *)

LEMMA TrailIs ==
  ASSUME RunShape
  PROVE  \A n \in Names :
           /\ trail[n] \in Trails /\ trail[n].since \in Nat /\ trail[n].inc \in Nat
           /\ trail[n].esc \in Nat /\ trail[n].open \in BOOLEAN /\ trail[n].fresh \in BOOLEAN
<1> SUFFICES ASSUME NEW n \in Names
             PROVE  /\ trail[n] \in Trails /\ trail[n].since \in Nat /\ trail[n].inc \in Nat
                    /\ trail[n].esc \in Nat
                    /\ trail[n].open \in BOOLEAN /\ trail[n].fresh \in BOOLEAN
  OBVIOUS
<1>1. trail[n] \in Trails
  BY DEF RunShape, TrailForm
<1> QED  BY <1>1, HealthConstants DEF Trails

\* The run goes on without touching table or history.
LEMMA TableKept ==
  ASSUME AInv, alerts' = alerts, trail' = trail, calm' = calm,
         \/ run'.at = run.at /\ run'.send = run.send /\ run'.names = run.names /\ run'.out = run.out
         \/ /\ run.at = "post" /\ run'.at = "record"
            /\ run'.send = run.send /\ run'.names = run.names
         \/ run.at = "due" /\ run'.at = "judge"
         \/ run.at = "failed" /\ run'.at = "done"
  PROVE  Agreed'
<1>1. \A n, src : Ages(n, src)' = Ages(n, src)
  BY AgesSame
<1>2. Sending' /\ Named' /\ Outgoing'
  BY DEF AInv, Agreed, Sending, Named, Outgoing
<1>3. SentRows'
  BY <1>1 DEF AInv, Agreed, SentRows
<1>4. \A n : Live(n)' <=> Live(n)
  BY DEF Live
<1>5. Calmly'
  BY <1>4 DEF AInv, Agreed, Calmly
<1>6. Healthy' /\ Unstamped'
  BY <1>1 DEF AInv, Agreed, Healthy, Unstamped
<1>7. Incidents'
  <2> SUFFICES ASSUME NEW n \in Critical, Live(n) PROVE Incident(n)'
    BY <1>4 DEF Incidents, Critical
  <2>1. Incident(n) /\ run.at # "failed"
    BY DEF AInv, Agreed, Incidents, Calmly, Critical
  <2>2. Age(n)' = Age(n)
    BY DEF Age
  <2>3. Due(n)' <=> Due(n)
    BY <2>1, <2>2 DEF Due
  <2>4. Stamping(n)' <=> Stamping(n)
    BY <2>1 DEF Stamping
  <2>5. trail[n]' = trail[n]
    OBVIOUS
  <2> QED  BY <1>1, <2>1, <2>2, <2>3, <2>4, <2>5 DEF Incident
<1>8. Openness'
  <2> SUFFICES ASSUME NEW n \in Names
      PROVE ( /\ Distinct(n)
              /\ ~(run.at = "stamp" /\ calm > 0 /\ n \in run.out.esc \cup run.out.rec) => Opens(n)
              /\ run.at = "stamp" /\ calm > 0 /\ n \in run.out.esc => trail[n].open
              /\ run.at = "stamp" /\ calm > 0 /\ n \in run.out.rec => ~trail[n].open
              /\ calm > Window /\ trail[n].open => Ages(n, "escalation") # {} \/ Stamping(n) )'
    BY DEF Openness
  <2>1. (Distinct(n)' <=> Distinct(n)) /\ (Opens(n)' <=> Opens(n))
    BY <1>1 DEF Distinct, Opens
  <2>2. Stamping(n)' <=> Stamping(n)
    BY DEF Stamping
  <2> QED  BY <1>1, <2>1, <2>2 DEF AInv, Agreed, Openness
<1> QED  BY <1>2, <1>3, <1>5, <1>6, <1>7, <1>8 DEF Agreed

\* A step that fails interrupts what is under way and says nothing of the table.
LEMMA Disturbed ==
  ASSUME AInv, alerts' = alerts, trail' = [n \in Names |-> Interrupted(trail[n])],
         \/ calm' = 0 /\ run'.at \in {"judge", "failed", "done"}
         \/ calm' = 0 /\ run.at = "record" /\ run'.at = "escalate" /\ run'.names = run.names
         \/ calm' = calm /\ run.at = "due" /\ run'.at = "failed"
  PROVE  Agreed' /\ TrailForm'
<1>0. Window \in Nat
  BY HealthConstants
<1>1. \A n, src : Ages(n, src)' = Ages(n, src)
  BY AgesSame
<1>2. \A n, src : \A a \in Ages(n, src) : a \in Nat
  BY AgesType, <1>0 DEF AInv
<1>3. \A n \in Names :
        /\ trail'[n] \in Trails /\ trail[n] \in Trails
        /\ trail'[n].since = trail[n].since /\ trail'[n].inc = trail[n].inc
        /\ trail'[n].esc = trail[n].esc /\ trail'[n].open = trail[n].open
        /\ trail'[n].fresh <=> (trail[n].fresh /\ trail[n].inc = 0)
  <2> TAKE n \in Names
  <2>1. trail[n] \in Trails /\ trail'[n] = Interrupted(trail[n])
    BY TrailIs DEF AInv
  <2> QED  BY <2>1, InterruptedIs
<1>4. \A n \in Names : trail'[n].since \in Nat /\ trail'[n].inc \in Nat
  BY <1>3, TrailIs DEF AInv
<1>5. \A n \in Names : ~Live(n)'
  BY <1>3, <1>4 DEF Live
<1>6. Calmly' /\ Incidents'
  BY <1>5 DEF Calmly, Incidents, Critical
<1>7. Healthy'
  BY <1>3 DEF AInv, Agreed, Healthy
<1>8. Sending' /\ Outgoing'
  BY DEF Sending, Outgoing
<1>9. Named'
  BY <1>3 DEF AInv, Agreed, Named
<1>10. SentRows'
  <2>1. CASE calm' = 0
    BY <1>4, <2>1 DEF SentRows
  <2>2. CASE calm' = calm /\ run.at = "due"
    BY <1>1, <1>3, <2>2 DEF AInv, Agreed, SentRows
  <2> QED  BY <2>1, <2>2
<1>11. Unstamped'
  BY DEF Unstamped
<1>12. Openness'
  <2> SUFFICES ASSUME NEW n \in Names
      PROVE ( /\ Distinct(n)
              /\ ~(run.at = "stamp" /\ calm > 0 /\ n \in run.out.esc \cup run.out.rec) => Opens(n)
              /\ run.at = "stamp" /\ calm > 0 /\ n \in run.out.esc => trail[n].open
              /\ run.at = "stamp" /\ calm > 0 /\ n \in run.out.rec => ~trail[n].open
              /\ calm > Window /\ trail[n].open => Ages(n, "escalation") # {} \/ Stamping(n) )'
    BY DEF Openness
  <2>1. run'.at # "stamp"
    OBVIOUS
  <2>2. CASE calm' = 0
    <3>1. Distinct(n)' /\ Opens(n)'
      BY <1>1, <1>2, <2>2 DEF Distinct, Opens
    <3> QED  BY <1>0, <2>1, <2>2, <3>1
  <2>3. CASE calm' = calm /\ run.at = "due"
    <3>1. (Distinct(n)' <=> Distinct(n)) /\ (Opens(n)' <=> Opens(n))
      BY <1>1, <1>3, <2>3 DEF Distinct, Opens
    <3>2. ~Stamping(n)
      BY <2>3 DEF Stamping
    <3> QED  BY <1>1, <1>3, <2>1, <2>3, <3>1, <3>2 DEF AInv, Agreed, Openness
  <2> QED  BY <2>2, <2>3
<1>13. TrailForm'
  BY <1>3 DEF TrailForm
<1> QED  BY <1>6, <1>7, <1>8, <1>9, <1>10, <1>11, <1>12, <1>13 DEF Agreed

-----------------------------------------------------------------------------
(* The verdict *)

\* The conjuncts of Openness for one name.
LEMMA OpennessOf ==
  ASSUME \A n \in Names :
           ( /\ Distinct(n)
             /\ ~(run.at = "stamp" /\ calm > 0 /\ n \in run.out.esc \cup run.out.rec) => Opens(n)
             /\ run.at = "stamp" /\ calm > 0 /\ n \in run.out.esc => trail[n].open
             /\ run.at = "stamp" /\ calm > 0 /\ n \in run.out.rec => ~trail[n].open
             /\ calm > Window /\ trail[n].open => Ages(n, "escalation") # {} \/ Stamping(n) )'
  PROVE  Openness'
BY DEF Openness

LEMMA AgesAreNumbers ==
  ASSUME AInv
  PROVE  \A n, src : \A a \in Ages(n, src) : a \in Nat /\ a <= Window
BY AgesType, HealthConstants DEF AInv

\* No row that counts is younger than the fault.
LEMMA NoCalm ==
  ASSUME AInv, calm' = 0, run'.at # "stamp",
         \A n, src : Ages(n, src)' = Ages(n, src)
  PROVE  Openness'
<1>1. \A n, src : \A a \in Ages(n, src) : a \in Nat
  BY AgesAreNumbers
<1>2. ASSUME NEW n \in Names PROVE Distinct(n)' /\ Opens(n)'
  BY <1>1 DEF Distinct, Opens
<1> QED  BY <1>2, HealthConstants, OpennessOf

LEMMA CalmKept ==
  ASSUME AInv, calm' = calm, run.at # "stamp", run'.at # "stamp",
         \A n \in Names : trail'[n].open <=> trail[n].open,
         \A n, src : src \in {"escalation", "recovery"} => Ages(n, src)' = Ages(n, src)
  PROVE  Openness'
<1>1. ASSUME NEW n \in Names PROVE (Distinct(n)' <=> Distinct(n)) /\ (Opens(n)' <=> Opens(n))
  BY DEF Distinct, Opens
<1>2. ASSUME NEW n \in Names PROVE ~Stamping(n)
  BY DEF Stamping
<1> QED  BY <1>1, <1>2, OpennessOf DEF AInv, Agreed, Openness

LEMMA EvaluateKeeps ==
  ASSUME AInv, NEW found \in BOOLEAN, NEW works \in BOOLEAN, Evaluate(found, works)
  PROVE  Agreed' /\ RunForm' /\ WorldForm' /\ TrailForm' /\ run'.at \in {"escalate", "post"}
         /\ run'.send \subseteq run'.names /\ run'.names \subseteq Names /\ run'.tries = run.tries
         /\ \A n \in Names : trail'[n].since = trail[n].since \/ trail'[n].since = 0
<1>1. PICK names : names = Unhealthy(run.res)
  OBVIOUS
<1>2. PICK send : send = IF found THEN names \ Recent ELSE names
  OBVIOUS
<1>3. /\ run.at = "judge" /\ alerts' = alerts
      /\ run' = [run EXCEPT !.at = IF names = {} THEN "escalate" ELSE "post",
                            !.names = names, !.send = send]
      /\ trail' = [n \in Names |-> Noted(n, names, send)]
      /\ calm' = IF found THEN calm ELSE 0
      /\ world' = world \/ world' = Restarted(works)
  BY <1>1, <1>2 DEF Evaluate
<1>4. names \subseteq Names /\ send \subseteq names
  BY <1>1, <1>2, UnhealthyNames
<1>5. /\ run'.at = (IF names = {} THEN "escalate" ELSE "post")
      /\ run'.names = names /\ run'.send = send /\ run'.out = run.out /\ run'.tries = run.tries
      /\ run' = [at |-> run'.at, res |-> run'.res, names |-> run'.names, send |-> run'.send,
                 out |-> run'.out, tries |-> run'.tries]
  BY <1>3 DEF AInv, RunShape, RunForm
<1>6. \A n \in Names :
        /\ trail'[n] \in Trails
        /\ trail'[n].since = IF n \in send THEN 0 ELSE trail[n].since
        /\ trail'[n].inc = IF n \notin names THEN 0 ELSE IF trail[n].inc = 0 THEN 1 ELSE trail[n].inc
        /\ trail'[n].fresh <=> (n \notin names
             \/ (trail[n].fresh /\ (trail[n].inc = 0 => \A r \in alerts : r.name # n)))
        /\ trail'[n].esc = IF n \in names THEN trail[n].esc ELSE 0
        /\ trail'[n].open <=> trail[n].open
  <2> TAKE n \in Names
  <2>1. trail[n] \in Trails
    BY TrailIs DEF AInv
  <2>2. trail'[n] = Noted(n, names, send)
    BY <1>3
  <2>3. PICK t : t = trail[n]
    OBVIOUS
  <2>4. PICK f : f = (n \notin names \/ (t.fresh /\ (t.inc = 0 => \A r \in alerts : r.name # n)))
    OBVIOUS
  <2>5. trail'[n] = [since |-> IF n \in send THEN 0 ELSE t.since,
                     inc   |-> IF n \notin names THEN 0 ELSE IF t.inc = 0 THEN 1 ELSE t.inc,
                     fresh |-> f, esc |-> IF n \in names THEN t.esc ELSE 0, open |-> t.open]
    BY <2>2, <2>3, <2>4 DEF Noted
  <2>6. f \in BOOLEAN
    BY <2>4
  <2>7. t \in Trails
    BY <2>1, <2>3
  <2>8. trail'[n] \in Trails
    BY <2>5, <2>6, <2>7, HealthConstants DEF Trails
  <2>9. trail'[n].fresh <=> (n \notin names
             \/ (trail[n].fresh /\ (trail[n].inc = 0 => \A r \in alerts : r.name # n)))
    <3>1. trail'[n].fresh = f
      BY <2>5
    <3> QED  BY <2>3, <2>4, <3>1, Zenon
  <2>10. /\ trail'[n].since = (IF n \in send THEN 0 ELSE t.since)
         /\ trail'[n].inc = (IF n \notin names THEN 0 ELSE IF t.inc = 0 THEN 1 ELSE t.inc)
         /\ trail'[n].esc = (IF n \in names THEN t.esc ELSE 0) /\ trail'[n].open = t.open
    BY <2>5
  <2> QED  BY <2>3, <2>8, <2>9, <2>10
<1>7. \A n \in Names : trail'[n].since \in Nat /\ trail'[n].inc \in Nat /\ trail[n].inc \in Nat
  BY <1>6, TrailIs DEF AInv
<1>8. \A n, src : Ages(n, src)' = Ages(n, src)
  BY <1>3, AgesSame
<1>9. Sending'
  BY <1>4, <1>5, <1>6 DEF Sending
<1>10. Named'
  BY <1>5, <1>6, <1>7 DEF Named
<1>11. Outgoing' /\ Calmly'
  BY <1>5 DEF Outgoing, Calmly
<1>12. SentRows'
  <2> SUFFICES ASSUME NEW n \in Names, trail'[n].since <= Hour, trail'[n].since < calm'
               PROVE  trail'[n].since \in Ages(n, "health_check")
                      \/ (run'.at \in {"post", "record"} /\ n \in run'.send)
    BY <1>8 DEF SentRows
  <2>1. CASE n \in send
    BY <1>4, <1>5, <2>1
  <2>2. CASE n \notin send
    <3>1. trail'[n].since = trail[n].since /\ calm' = calm
      BY <1>3, <1>6, <1>7, <2>2
    <3> QED  BY <1>3, <3>1 DEF AInv, Agreed, SentRows
  <2> QED  BY <2>1, <2>2
<1>13. Incidents'
  <2> SUFFICES ASSUME NEW n \in Critical, Live(n)' PROVE Incident(n)'
    BY DEF Incidents, Critical
  <2>0. n \in Names
    BY DEF Critical
  <2>1. trail'[n].fresh /\ trail'[n].inc \in 1..(Window + 1)
    BY DEF Live
  <2>2. n \in names /\ trail[n].fresh
    BY <1>6, <2>0, <2>1
  <2>3. run'.at = "post" /\ ~Stamping(n)' /\ ~Stamping(n)
    BY <1>3, <1>5, <2>2 DEF Stamping
  <2>4. CASE trail[n].inc = 0
    <3>1. trail'[n].inc = 1 /\ \A r \in alerts : r.name # n
      BY <1>6, <2>0, <2>1, <2>2, <2>4
    <3>2. \A src : Ages(n, src) = {}
      BY <3>1 DEF Ages
    <3>3. n \in send
      <4>1. n \notin Recent
        BY <3>2 DEF Recent
      <4> QED  BY <1>2, <2>2, <4>1
    <3>4. trail'[n].esc = 0
      BY <1>6, <2>0, <2>2, <2>4 DEF AInv, Agreed, Healthy
    <3>5. Age(n)' = 0
      BY <3>1 DEF Age
    <3>6. ~Due(n)'
      BY <2>3, <3>5, HealthConstants DEF Due
    <3> QED  BY <1>5, <1>8, <2>3, <3>2, <3>3, <3>4, <3>5, <3>6 DEF Incident
  <2>5. CASE trail[n].inc # 0
    <3>1. trail'[n].inc = trail[n].inc /\ trail'[n].esc = trail[n].esc
      BY <1>6, <2>0, <2>2, <2>5
    <3>2. Incident(n)
      BY <2>1, <2>2, <3>1 DEF AInv, Agreed, Incidents, Live
    <3>3. Age(n)' = Age(n)
      BY <3>1 DEF Age
    <3>4. Due(n)' <=> Due(n)
      BY <1>3, <2>3, <3>3 DEF Due
    <3>5. Age(n) \in Ages(n, "health_check")
      BY <1>3, <3>2 DEF Incident
    <3> QED  BY <1>8, <2>3, <3>1, <3>2, <3>3, <3>4, <3>5 DEF Incident
  <2> QED  BY <2>4, <2>5
<1>14. Healthy'
  BY <1>6 DEF AInv, Agreed, Healthy
<1>15. Unstamped'
  BY <1>3, <1>8 DEF AInv, Agreed, Unstamped
<1>16. Openness'
  <2>1. run'.at # "stamp"
    BY <1>5
  <2>2. CASE found
    BY <1>3, <1>6, <1>8, <2>1, <2>2, CalmKept
  <2>3. CASE ~found
    BY <1>3, <1>8, <2>1, <2>3, NoCalm
  <2> QED  BY <2>2, <2>3
<1>17. Agreed'
  BY <1>9, <1>10, <1>11, <1>12, <1>13, <1>14, <1>15, <1>16 DEF Agreed
<1>18. TrailForm'
  BY <1>3, <1>6 DEF TrailForm
<1>19. RunForm'
  BY <1>5 DEF AInv, RunShape, RunForm
<1>20. WorldForm'
  BY <1>3 DEF AInv, RunShape, WorldForm, Restarted
<1> QED  BY <1>4, <1>5, <1>6, <1>17, <1>18, <1>19, <1>20

-----------------------------------------------------------------------------
(* The record of what was sent *)

\* The last conjunct of TypeOK.
Younger == \A n \in Names, a \in 0..Hour : a \in Ages(n, "health_check") => trail[n].since <= a

LEMMA RecordKeeps ==
  ASSUME AInv, NEW ok \in BOOLEAN, Record(ok)
  PROVE  Agreed' /\ RunForm' /\ TrailForm' /\ Younger'
<1>1. /\ run.at = "record" /\ run'.at = "escalate"
      /\ run'.names = run.names /\ run'.send = run.send /\ run'.out = run.out
      /\ run' = [at |-> run'.at, res |-> run'.res, names |-> run'.names, send |-> run'.send,
                 out |-> run'.out, tries |-> run'.tries]
  BY DEF AInv, RunShape, RunForm, Record
<1>2. RunForm'
  BY <1>1 DEF AInv, RunShape, RunForm
<1>3. Younger
  BY DEF AInv, TypeOK, Younger
<1>4. CASE ok = FALSE
  <2>1. alerts' = alerts /\ calm' = 0 /\ trail' = [n \in Names |-> Interrupted(trail[n])]
    BY <1>4 DEF Record, Keep
  <2>2. Agreed' /\ TrailForm'
    BY <1>1, <2>1, Disturbed
  <2>3. \A n \in Names : trail'[n].since = trail[n].since
    BY <2>1, TrailIs, InterruptedIs DEF AInv
  <2>4. \A n, src : Ages(n, src)' = Ages(n, src)
    BY <2>1, AgesSame
  <2>5. Younger'
    BY <1>3, <2>3, <2>4 DEF Younger
  <2> QED  BY <1>2, <2>2, <2>5
<1>5. CASE ok = TRUE
  <2>0. trail' = trail /\ calm' = calm
        /\ alerts' = alerts \cup [name : run.send, source : {"health_check"}, age : {0}]
    BY <1>5 DEF Record, Keep, Insert
  <2>1. PICK send : send = run.send
    OBVIOUS
  <2>2. \A n, src, a : a \in Ages(n, src)' <=>
                         a \in Ages(n, src) \/ (a = 0 /\ n \in send /\ src = "health_check")
    BY <2>0, <2>1, AgesMore
  <2>3. \A n, src : src \in {"escalation", "recovery"} => Ages(n, src)' = Ages(n, src)
    <3> SUFFICES ASSUME NEW n, NEW src, src \in {"escalation", "recovery"}
                 PROVE  Ages(n, src)' = Ages(n, src)
      OBVIOUS
    <3>1. \A a : a \in Ages(n, src)' <=> a \in Ages(n, src)
      BY <2>2
    <3> QED  BY <3>1
  <2>4. \A n \in send : n \in Names /\ trail[n].since = 0
    BY <1>1, <2>1 DEF AInv, Agreed, Sending, TypeOK
  <2>5. Sending' /\ Named' /\ Outgoing' /\ Calmly'
    BY <1>1, <2>0 DEF AInv, Agreed, Sending, Named, Outgoing, Calmly
  <2>6. SentRows'
    <3> SUFFICES ASSUME NEW n \in Names, trail'[n].since <= Hour, trail'[n].since < calm'
                 PROVE  trail'[n].since \in Ages(n, "health_check")'
      BY DEF SentRows
    <3>1. trail[n].since \in Ages(n, "health_check") \/ n \in send
      BY <2>0, <2>1 DEF AInv, Agreed, SentRows
    <3> QED  BY <2>0, <2>2, <2>4, <3>1
  <2>7. Incidents'
    <3> SUFFICES ASSUME NEW n \in Critical, Live(n)' PROVE Incident(n)'
      BY DEF Incidents, Critical
    <3>1. trail'[n] = trail[n] /\ Live(n) /\ n \in Names
      BY <2>0 DEF Live, Critical
    <3>2. Incident(n)
      BY <3>1 DEF AInv, Agreed, Incidents
    <3>3. Age(n)' = Age(n) /\ (Due(n)' <=> Due(n)) /\ ~Stamping(n) /\ ~Stamping(n)'
      BY <1>1, <3>1 DEF Age, Due, Stamping
    <3>4. Age(n) \in Nat
      BY <3>1, HealthConstants DEF Age, Live
    <3>5. Age(n) \in Ages(n, "health_check")'
      BY <1>1, <2>1, <2>2, <3>2 DEF Incident
    <3>6. \A a \in Ages(n, "health_check")' : a <= Age(n)
      BY <2>2, <3>2, <3>4 DEF Incident
    <3>7. Ages(n, "recovery")' = {} /\ \A a \in Ages(n, "escalation")' : a <= Age(n)
      BY <2>3, <3>2 DEF Incident
    <3>8. trail'[n].esc = IF Ages(n, "escalation")' # {} THEN 1 ELSE 0
      BY <2>3, <3>1, <3>2, <3>3 DEF Incident
    <3>9. trail'[n].esc = IF Due(n)' THEN 1 ELSE 0
      BY <3>1, <3>2, <3>3 DEF Incident
    <3> QED  BY <3>3, <3>5, <3>6, <3>7, <3>8, <3>9 DEF Incident
  <2>8. Healthy' /\ Unstamped'
    BY <1>1, <2>0, <2>3 DEF AInv, Agreed, Healthy, Unstamped
  <2>9. Openness'
    BY <1>1, <2>0, <2>3, CalmKept
  <2>10. Agreed'
    BY <2>5, <2>6, <2>7, <2>8, <2>9 DEF Agreed
  <2>11. Younger'
    <3> SUFFICES ASSUME NEW n \in Names, NEW a \in 0..Hour, a \in Ages(n, "health_check")'
                 PROVE  trail'[n].since <= a
      BY DEF Younger
    <3> QED  BY <1>3, <2>0, <2>2, <2>4, HealthConstants DEF Younger
  <2>12. TrailForm'
    BY <2>0 DEF AInv, RunShape, TrailForm
  <2> QED  BY <1>2, <2>10, <2>11, <2>12
<1> QED  BY <1>4, <1>5

-----------------------------------------------------------------------------
(* The escalation *)

\* The first alert of an undisturbed incident is its oldest row.
LEMMA StartIs ==
  ASSUME NEW n, NEW k \in Nat, Ages(n, "recovery") = {}, k \in Ages(n, "health_check"),
         \A a \in Ages(n, "health_check") : a \in Nat /\ a <= k
  PROVE  Start(n) = k
<1>1. PICK S : S = Ages(n, "health_check")
  OBVIOUS
<1>2. Start(n) = First(S)
  BY <1>1 DEF Start
<1>3. First(S) \in S /\ \A b \in S : b <= First(S)
  <2>1. \E a \in S : \A b \in S : b <= a
    BY <1>1
  <2> QED  BY <2>1 DEF First
<1>4. PICK f : f = First(S)
  OBVIOUS
<1>5. f \in S /\ k <= f /\ f \in Nat /\ f <= k
  BY <1>1, <1>3, <1>4
<1> QED  BY <1>2, <1>4, <1>5

LEMMA EscalateKeeps ==
  ASSUME AInv, NEW ok \in BOOLEAN, Escalate(ok)
  PROVE  Agreed' /\ RunForm' /\ TrailForm' /\ Younger' /\ run'.at \in {"done", "stamp"}
<1>1. PICK esc : esc = IF ok THEN ToEscalate(run.names) ELSE {}
  OBVIOUS
<1>2. PICK rec : rec = IF ok THEN ToRecover(run.names) ELSE {}
  OBVIOUS
<1>3. /\ run.at = "escalate"
      /\ run' = [run EXCEPT !.at = IF esc \cup rec = {} THEN "done" ELSE "stamp",
                            !.out = [esc |-> esc, rec |-> rec]]
      /\ trail' = [n \in Names |->
              [trail[n] EXCEPT !.esc = IF n \in esc THEN AtMost(@ + 1, 2) ELSE @,
                               !.open = (@ \/ n \in esc) /\ n \notin rec,
                               !.fresh = @ /\ ok]]
      /\ alerts' = alerts /\ calm' = IF ok THEN calm ELSE 0
  BY <1>1, <1>2 DEF Escalate, Keep
<1>20. run.at = "escalate" /\ alerts' = alerts /\ calm' = IF ok THEN calm ELSE 0
  BY <1>3
<1>4. run.names \subseteq Names
  BY DEF AInv, TypeOK
<1>5. esc \subseteq run.names /\ rec \subseteq Names /\ rec \cap run.names = {}
  BY <1>1, <1>2 DEF ToEscalate, ToRecover
<1>6. /\ run'.at = (IF esc \cup rec = {} THEN "done" ELSE "stamp")
      /\ run'.names = run.names /\ run'.send = run.send /\ run'.out = [esc |-> esc, rec |-> rec]
      /\ run' = [at |-> run'.at, res |-> run'.res, names |-> run'.names, send |-> run'.send,
                 out |-> run'.out, tries |-> run'.tries]
  BY <1>3 DEF AInv, RunShape, RunForm
<1>7. RunForm'
  BY <1>4, <1>5, <1>6 DEF RunForm
<1>8. \A n \in Names :
        /\ trail'[n] \in Trails
        /\ trail'[n].since = trail[n].since /\ trail'[n].inc = trail[n].inc
        /\ trail'[n].fresh <=> (trail[n].fresh /\ ok)
        /\ trail'[n].esc = IF n \in esc THEN AtMost(trail[n].esc + 1, 2) ELSE trail[n].esc
        /\ trail'[n].open <=> ((trail[n].open \/ n \in esc) /\ n \notin rec)
  <2> TAKE n \in Names
  <2>1. PICK t : t = trail[n]
    OBVIOUS
  <2>2. t \in Trails
    BY <2>1, TrailIs DEF AInv
  <2>3. PICK f : f = (t.fresh /\ ok)
    OBVIOUS
  <2>4. PICK o : o = ((t.open \/ n \in esc) /\ n \notin rec)
    OBVIOUS
  <2>5. PICK e : e = IF n \in esc THEN AtMost(t.esc + 1, 2) ELSE t.esc
    OBVIOUS
  <2>6. trail'[n] = [t EXCEPT !.esc = IF n \in esc THEN AtMost(@ + 1, 2) ELSE @,
                              !.open = (@ \/ n \in esc) /\ n \notin rec, !.fresh = @ /\ ok]
    BY <1>3, <2>1
  <2>7. trail'[n] = [t EXCEPT !.esc = e, !.open = o, !.fresh = f]
    BY <2>2, <2>3, <2>4, <2>5, <2>6 DEF Trails
  <2>8. e \in 0..2 /\ f \in BOOLEAN /\ o \in BOOLEAN
    <3>1. t.esc + 1 \in Nat /\ t.esc \in 0..2
      BY <2>2 DEF Trails
    <3>2. AtMost(t.esc + 1, 2) \in 0..2
      BY <3>1, AtMostIs
    <3> QED  BY <2>3, <2>4, <2>5, <3>1, <3>2
  <2>9. trail'[n] \in Trails /\ trail'[n].since = t.since /\ trail'[n].inc = t.inc
        /\ trail'[n].esc = e /\ trail'[n].fresh = f /\ trail'[n].open = o
    BY <2>2, <2>7, <2>8 DEF Trails
  <2>10. trail'[n].fresh <=> (trail[n].fresh /\ ok)
    BY <2>1, <2>3, <2>9, Zenon
  <2>11. trail'[n].open <=> ((trail[n].open \/ n \in esc) /\ n \notin rec)
    BY <2>1, <2>4, <2>9, Zenon
  <2> QED  BY <2>1, <2>5, <2>9, <2>10, <2>11
<1>9. TrailForm'
  BY <1>3, <1>8 DEF TrailForm
<1>10. \A n, src : Ages(n, src)' = Ages(n, src)
  BY <1>20, AgesSame
<1>11. Younger'
  BY <1>8, <1>10 DEF AInv, TypeOK, Younger
<1>12. Sending' /\ Calmly' /\ Unstamped'
  <2>1. calm' > 0 => calm > 0
    BY <1>20
  <2> QED  BY <1>20, <1>6, <1>10, <2>1 DEF AInv, Agreed, Sending, Calmly, Unstamped
<1>13. Named' /\ Outgoing'
  BY <1>20, <1>5, <1>6, <1>8 DEF AInv, Agreed, Named, Outgoing
<1>14. SentRows'
  <2> SUFFICES ASSUME NEW n \in Names, trail'[n].since <= Hour, trail'[n].since < calm'
               PROVE  trail'[n].since \in Ages(n, "health_check")'
    BY DEF SentRows
  <2>1. trail[n].since \in Nat /\ trail'[n].since = trail[n].since
    BY <1>8, TrailIs DEF AInv
  <2>2. ok
    BY <1>20, <2>1
  <2> QED  BY <1>20, <1>10, <2>1, <2>2 DEF AInv, Agreed, SentRows
<1>15. Healthy'
  <2> SUFFICES ASSUME NEW n \in Names, trail'[n].inc = 0 PROVE trail'[n].esc = 0
    BY DEF Healthy
  <2>1. trail[n].inc = 0 /\ trail[n].esc = 0
    BY <1>8 DEF AInv, Agreed, Healthy
  <2>2. n \notin run.names
    BY <1>20, <2>1 DEF AInv, Agreed, Named
  <2> QED  BY <1>5, <1>8, <2>1, <2>2
<1>16. Incidents'
  <2> SUFFICES ASSUME NEW n \in Critical, Live(n)' PROVE Incident(n)'
    BY DEF Incidents, Critical
  <2>1. n \in Names /\ n \in CriticalNames
    BY DEF Critical
  <2>2. ok /\ Live(n) /\ trail'[n].inc = trail[n].inc
    BY <1>8, <2>1 DEF Live
  <2>3. Incident(n)
    BY <2>2 DEF AInv, Agreed, Incidents
  <2>4. PICK k : k = Age(n)
    OBVIOUS
  <2>5. k \in Nat /\ Age(n)' = k
    BY <2>2, <2>4, HealthConstants DEF Age, Live
  <2>6. PICK E : E = Ages(n, "escalation")
    OBVIOUS
  <2>7. \A a \in E : a \in Nat /\ a <= k
    BY <2>3, <2>4, <2>6, AgesAreNumbers DEF Incident
  <2>8. Start(n) = k /\ Ages(n, "health_check") # {}
    <3>1. Ages(n, "recovery") = {} /\ k \in Ages(n, "health_check")
      BY <1>20, <2>3, <2>4 DEF Incident
    <3>2. \A a \in Ages(n, "health_check") : a \in Nat /\ a <= k
      BY <2>3, <2>4, AgesAreNumbers DEF Incident
    <3> QED  BY <2>5, <3>1, <3>2, StartIs
  <2>9. n \in run.names
    <3>1. trail[n].inc >= 1
      BY <2>2, HealthConstants DEF Live
    <3> QED  BY <1>20, <2>1, <3>1 DEF AInv, Agreed, Named
  <2>10. n \in esc <=> k >= EscalateAfter /\ E = {}
    <3>1. n \in esc <=> k >= EscalateAfter /\ \A a \in E : a > k
      BY <1>1, <2>1, <2>2, <2>6, <2>8, <2>9 DEF ToEscalate
    <3>2. \A a \in E : ~(a > k)
      BY <2>5, <2>7
    <3> QED  BY <3>1, <3>2
  <2>11. trail[n].esc = (IF E # {} THEN 1 ELSE 0) /\ trail[n].esc = IF k > EscalateAfter THEN 1 ELSE 0
    <3>1. ~Stamping(n) /\ (Due(n) <=> k > EscalateAfter)
      BY <1>20, <2>4 DEF Stamping, Due
    <3> QED  BY <2>3, <2>6, <3>1 DEF Incident
  <2>12. (Due(n)' <=> k >= EscalateAfter) /\ (Stamping(n)' <=> n \in esc)
    BY <1>6, <2>5 DEF Due, Stamping
  <2>13. trail'[n].esc = IF n \in esc THEN AtMost(trail[n].esc + 1, 2) ELSE trail[n].esc
    BY <1>8, <2>1
  <2>14. AtMost(0 + 1, 2) = 1
    BY DEF AtMost
  <2>15. trail'[n].esc = (IF E # {} \/ n \in esc THEN 1 ELSE 0)
         /\ trail'[n].esc = IF k >= EscalateAfter THEN 1 ELSE 0
    BY <2>5, <2>10, <2>11, <2>13, <2>14, HealthConstants
  <2>16. /\ Ages(n, "recovery")' = {} /\ k \in Ages(n, "health_check")'
         /\ \A a \in Ages(n, "health_check")' \cup Ages(n, "escalation")' : a <= k
    BY <1>20, <1>10, <2>3, <2>4 DEF Incident
  <2>17. Ages(n, "escalation")' = E
    BY <1>10, <2>6
  <2> QED  BY <2>5, <2>12, <2>15, <2>16, <2>17 DEF Incident
<1>17. Openness'
  <2>1. CASE ~ok
    <3>1. run'.at # "stamp" /\ calm' = 0
      BY <1>1, <1>2, <1>20, <1>6, <2>1
    <3> QED  BY <1>10, <3>1, NoCalm
  <2>2. CASE ok
    <3>0. calm' = calm
      BY <1>20, <2>2
    <3>1. ASSUME NEW n \in Names
          PROVE ( /\ Distinct(n)
                  /\ ~(run.at = "stamp" /\ calm > 0 /\ n \in run.out.esc \cup run.out.rec) => Opens(n)
                  /\ run.at = "stamp" /\ calm > 0 /\ n \in run.out.esc => trail[n].open
                  /\ run.at = "stamp" /\ calm > 0 /\ n \in run.out.rec => ~trail[n].open
                  /\ calm > Window /\ trail[n].open => Ages(n, "escalation") # {} \/ Stamping(n) )'
      <4>1. Distinct(n) /\ Opens(n) /\ ~Stamping(n)
            /\ (calm > Window /\ trail[n].open => Ages(n, "escalation") # {})
        BY <1>20 DEF AInv, Agreed, Openness, Stamping
      <4>2. trail'[n].open <=> ((trail[n].open \/ n \in esc) /\ n \notin rec)
        BY <1>8
      <4>3. Distinct(n)'
        BY <1>10, <3>0, <4>1 DEF Distinct
      <4>4. n \in esc => n \notin rec
        BY <1>5
      <4>5. n \in esc \cup rec => run'.at = "stamp" /\ run'.out.esc = esc /\ run'.out.rec = rec
        BY <1>6
      <4>6. run'.out.esc = esc /\ run'.out.rec = rec
        BY <1>6
      <4>7. Stamping(n)' <=> n \in esc
        BY <4>5, <4>6 DEF Stamping
      <4>8. ASSUME ~(run'.at = "stamp" /\ calm' > 0 /\ n \in esc \cup rec) PROVE Opens(n)'
        <5>1. CASE n \in esc \cup rec
          <6>1. ~(calm' > 0)
            BY <4>5, <4>8, <5>1
          <6>2. \A src : \A a \in Ages(n, src)' : ~(a < calm')
            <7>1. \A src : \A a \in Ages(n, src)' : a \in Nat
              BY <1>10, AgesAreNumbers
            <7>2. calm' \in Nat
              BY <3>0, HealthConstants DEF AInv, TypeOK
            <7> QED  BY <6>1, <7>1, <7>2
          <6> QED  BY <6>2 DEF Opens
        <5>2. CASE n \notin esc \cup rec
          <6>1. trail'[n].open <=> trail[n].open
            BY <4>2, <5>2
          <6> QED  BY <1>10, <3>0, <4>1, <6>1 DEF Opens
        <5> QED  BY <5>1, <5>2
      <4>9. calm' > Window /\ trail'[n].open => Ages(n, "escalation")' # {} \/ Stamping(n)'
        BY <1>10, <3>0, <4>1, <4>2, <4>7
      <4> QED  BY <4>2, <4>3, <4>4, <4>6, <4>8, <4>9
    <3> QED  BY <3>1, OpennessOf
  <2> QED  BY <2>1, <2>2
<1>18. Agreed'
  BY <1>12, <1>13, <1>14, <1>15, <1>16, <1>17 DEF Agreed
<1> QED  BY <1>6, <1>7, <1>9, <1>11, <1>18

-----------------------------------------------------------------------------
(* The stamp, and the other steps of a run *)

LEMMA AgesStamped ==
  ASSUME NEW S, NEW T,
         alerts' = alerts \cup [name : S, source : {"escalation"}, age : {0}]
                          \cup [name : T, source : {"recovery"}, age : {0}]
  PROVE  \A n, src, a : a \in Ages(n, src)' <=>
           \/ a \in Ages(n, src)
           \/ a = 0 /\ n \in S /\ src = "escalation"
           \/ a = 0 /\ n \in T /\ src = "recovery"
<1> DEFINE X == [name : S, source : {"escalation"}, age : {0}]
           Y == [name : T, source : {"recovery"}, age : {0}]
<1>1. SUFFICES ASSUME NEW n, NEW src, NEW a
      PROVE  a \in Ages(n, src)' <=>
               \/ a \in Ages(n, src)
               \/ a = 0 /\ n \in S /\ src = "escalation"
               \/ a = 0 /\ n \in T /\ src = "recovery"
  OBVIOUS
<1>2. a \in Ages(n, src) <=> \E r \in alerts : r.name = n /\ r.source = src /\ r.age = a
  BY DEF Ages
<1>3. a \in Ages(n, src)' <=> \E r \in alerts' : r.name = n /\ r.source = src /\ r.age = a
  BY DEF Ages
<1>4. (\E r \in X : r.name = n /\ r.source = src /\ r.age = a)
        <=> (a = 0 /\ n \in S /\ src = "escalation")
  <2>1. ASSUME a = 0, n \in S, src = "escalation"
        PROVE  \E r \in X : r.name = n /\ r.source = src /\ r.age = a
    <3>1. [name |-> n, source |-> src, age |-> 0] \in X
      BY <2>1
    <3> QED  BY <2>1, <3>1
  <2> QED  BY <2>1
<1>5. (\E r \in Y : r.name = n /\ r.source = src /\ r.age = a)
        <=> (a = 0 /\ n \in T /\ src = "recovery")
  <2>1. ASSUME a = 0, n \in T, src = "recovery"
        PROVE  \E r \in Y : r.name = n /\ r.source = src /\ r.age = a
    <3>1. [name |-> n, source |-> src, age |-> 0] \in Y
      BY <2>1
    <3> QED  BY <2>1, <3>1
  <2> QED  BY <2>1
<1>6. alerts' = alerts \cup X \cup Y
  OBVIOUS
<1> HIDE DEF X, Y
<1> QED  BY <1>2, <1>3, <1>4, <1>5, <1>6

LEMMA StampKeeps ==
  ASSUME AInv, NEW ok \in BOOLEAN, Stamp(ok)
  PROVE  Agreed' /\ RunForm' /\ TrailForm' /\ Younger'
<1>1. /\ run.at = "stamp" /\ run'.at = "done"
      /\ run'.names = run.names /\ run'.send = run.send /\ run'.out = run.out
      /\ run' = [at |-> run'.at, res |-> run'.res, names |-> run'.names, send |-> run'.send,
                 out |-> run'.out, tries |-> run'.tries]
  BY DEF AInv, RunShape, RunForm, Stamp
<1>2. RunForm'
  BY <1>1 DEF AInv, RunShape, RunForm
<1>3. Younger
  BY DEF AInv, TypeOK, Younger
<1>4. CASE ok = FALSE
  <2>1. alerts' = alerts /\ calm' = 0 /\ trail' = [n \in Names |-> Interrupted(trail[n])]
    BY <1>4 DEF Stamp, Keep
  <2>2. Agreed' /\ TrailForm'
    BY <1>1, <2>1, Disturbed
  <2>3. \A n \in Names : trail'[n].since = trail[n].since
    BY <2>1, TrailIs, InterruptedIs DEF AInv
  <2>4. \A n, src : Ages(n, src)' = Ages(n, src)
    BY <2>1, AgesSame
  <2>5. Younger'
    BY <1>3, <2>3, <2>4 DEF Younger
  <2> QED  BY <1>2, <2>2, <2>5
<1>5. CASE ok = TRUE
  <2>1. PICK esc : esc = run.out.esc
    OBVIOUS
  <2>2. PICK rec : rec = run.out.rec
    OBVIOUS
  <2>3. trail' = trail /\ calm' = calm
        /\ alerts' = alerts \cup [name : esc, source : {"escalation"}, age : {0}]
                            \cup [name : rec, source : {"recovery"}, age : {0}]
    BY <1>5, <2>1, <2>2 DEF Stamp, Keep
  <2>4. \A n, src, a : a \in Ages(n, src)' <=>
           \/ a \in Ages(n, src)
           \/ a = 0 /\ n \in esc /\ src = "escalation"
           \/ a = 0 /\ n \in rec /\ src = "recovery"
    BY <2>3, AgesStamped
  <2>5. \A n : Ages(n, "health_check")' = Ages(n, "health_check")
    <3> TAKE n
    <3>1. \A a : a \in Ages(n, "health_check")' <=> a \in Ages(n, "health_check")
      BY <2>4
    <3> QED  BY <3>1
  <2>6. esc \subseteq run.names /\ rec \cap run.names = {}
    BY <1>1, <2>1, <2>2 DEF AInv, Agreed, Outgoing
  <2>7. Sending' /\ Named' /\ Outgoing' /\ Calmly' /\ Unstamped'
    BY <1>1 DEF Sending, Named, Outgoing, Calmly, Unstamped
  <2>8. SentRows' /\ Healthy'
    BY <1>1, <2>3, <2>5 DEF AInv, Agreed, SentRows, Healthy
  <2>9. Younger'
    BY <1>3, <2>3, <2>5 DEF Younger
  <2>10. Incidents'
    <3> SUFFICES ASSUME NEW n \in Critical, Live(n)' PROVE Incident(n)'
      BY DEF Incidents, Critical
    <3>1. trail'[n] = trail[n] /\ Live(n) /\ n \in Names
      BY <2>3 DEF Live, Critical
    <3>2. Incident(n)
      BY <3>1 DEF AInv, Agreed, Incidents
    <3>3. Age(n)' = Age(n) /\ (Due(n)' <=> Due(n)) /\ ~Stamping(n)'
      BY <1>1, <3>1 DEF Age, Due, Stamping
    <3>4. Age(n) \in Nat
      BY <3>1, HealthConstants DEF Age, Live
    <3>5. n \in run.names
      <4>1. trail[n].inc >= 1
        BY <3>1, HealthConstants DEF Live
      <4> QED  BY <1>1, <3>1, <4>1 DEF AInv, Agreed, Named
    <3>6. Ages(n, "recovery")' = {}
      <4>1. \A a : a \in Ages(n, "recovery")' <=> a \in Ages(n, "recovery")
        BY <2>4, <2>6, <3>5
      <4> QED  BY <3>2, <4>1 DEF Incident
    <3>7. \A a \in Ages(n, "escalation")' : a <= Age(n)
      BY <2>4, <3>2, <3>4 DEF Incident
    <3>8. Ages(n, "escalation")' # {} <=> (Ages(n, "escalation") # {} \/ Stamping(n))
      BY <1>1, <2>1, <2>4 DEF Stamping
    <3>9. Age(n) \in Ages(n, "health_check") /\ \A a \in Ages(n, "health_check") : a <= Age(n)
      BY <1>1, <3>2 DEF Incident
    <3>10. trail'[n].esc = (IF Ages(n, "escalation")' # {} THEN 1 ELSE 0)
           /\ trail'[n].esc = IF Due(n)' THEN 1 ELSE 0
      BY <3>1, <3>2, <3>3, <3>8 DEF Incident
    <3> QED  BY <2>5, <3>3, <3>6, <3>7, <3>9, <3>10 DEF Incident
  <2>11. \A n, src : \A a \in Ages(n, src) : a \in Nat
    BY AgesAreNumbers
  <2>12. calm' \in Nat
    BY <2>3, HealthConstants DEF AInv, TypeOK
  <2>13. Openness'
    <3>1. CASE calm = 0
      <4>1. \A n, src : \A a \in Ages(n, src)' : ~(a < calm')
        BY <2>3, <2>4, <2>11, <3>1
      <4>2. ASSUME NEW n \in Names PROVE Distinct(n)' /\ Opens(n)'
        BY <4>1 DEF Distinct, Opens
      <4> QED  BY <1>1, <2>3, <3>1, <4>2, HealthConstants, OpennessOf
    <3>2. CASE calm > 0
      <4>0. ASSUME NEW n \in Names
            PROVE  Distinct(n)' /\ Opens(n)'
                   /\ (calm' > Window /\ trail'[n].open => Ages(n, "escalation")' # {})
        <5>0. PICK E : E = Ages(n, "escalation")
          OBVIOUS
        <5>1. PICK R : R = Ages(n, "recovery")
          OBVIOUS
        <5>2. 0 \notin E /\ 0 \notin R
          BY <1>1, <3>2, <5>0, <5>1 DEF AInv, Agreed, Unstamped
        <5>3. \A a \in E \cup R : a \in Nat /\ a > 0
          <6>1. \A a \in E \cup R : a \in Nat /\ a # 0
            BY <2>11, <5>0, <5>1, <5>2
          <6> QED  BY <6>1
        <5>4. /\ Distinct(n)
              /\ n \notin esc \cup rec => Opens(n)
              /\ n \in esc => trail[n].open
              /\ n \in rec => ~trail[n].open
              /\ calm > Window /\ trail[n].open => E # {} \/ n \in esc
          BY <1>1, <2>1, <2>2, <3>2, <5>0 DEF AInv, Agreed, Openness, Stamping
        <5>5. \A a : a \in Ages(n, "escalation")' <=> a \in E \/ (a = 0 /\ n \in esc)
          BY <2>4, <5>0
        <5>6. \A a : a \in Ages(n, "recovery")' <=> a \in R \/ (a = 0 /\ n \in rec)
          BY <2>4, <5>1
        <5>7. \A a \in E : a < calm => a \notin R
          BY <5>0, <5>1, <5>4 DEF Distinct
        <5>8. ~(n \in esc /\ n \in rec)
          BY <2>6
        <5>9. Distinct(n)'
          <6>1. ASSUME NEW a, a \in Ages(n, "escalation")', a < calm'
                PROVE  a \notin Ages(n, "recovery")'
            BY <2>3, <5>2, <5>3, <5>5, <5>6, <5>7, <5>8, <6>1
          <6> QED  BY <6>1 DEF Distinct
        <5>10. Opens(n)'
          <6>1. CASE n \in esc
            <7>1. \A a : a \in Ages(n, "recovery")' <=> a \in R
              BY <5>6, <5>8, <6>1
            <7>2. 0 \in Ages(n, "escalation")' /\ \A b \in R : ~(0 > b)
              BY <5>3, <5>5, <6>1
            <7>3. trail'[n].open
              BY <2>3, <5>4, <6>1
            <7> QED  BY <7>1, <7>2, <7>3 DEF Opens
          <6>2. CASE n \in rec
            <7>1. \A a : a \in Ages(n, "escalation")' <=> a \in E
              BY <5>5, <5>8, <6>2
            <7>2. 0 \in Ages(n, "recovery")' /\ \A b \in E : ~(0 > b)
              BY <5>3, <5>6, <6>2
            <7>3. ~trail'[n].open
              BY <2>3, <5>4, <6>2
            <7> QED  BY <7>1, <7>2, <7>3 DEF Opens
          <6>3. CASE n \notin esc \cup rec
            <7>1. \A a : a \in Ages(n, "recovery")' <=> a \in Ages(n, "recovery")
              BY <5>1, <5>6, <6>3
            <7>2. \A a : a \in Ages(n, "escalation")' <=> a \in Ages(n, "escalation")
              BY <5>0, <5>5, <6>3
            <7>3. Ages(n, "recovery")' = Ages(n, "recovery")
                  /\ Ages(n, "escalation")' = Ages(n, "escalation")
              BY <7>1, <7>2
            <7> QED  BY <2>3, <5>4, <6>3, <7>3 DEF Opens
          <6> QED  BY <6>1, <6>2, <6>3
        <5> QED  BY <2>3, <5>4, <5>5, <5>9, <5>10
      <4> QED  BY <1>1, <4>0, OpennessOf
    <3> QED  BY <2>3, <2>12, <3>1, <3>2
  <2>14. Agreed'
    BY <2>7, <2>8, <2>10, <2>13 DEF Agreed
  <2>15. TrailForm'
    BY <2>3 DEF AInv, RunShape, TrailForm
  <2> QED  BY <1>2, <2>9, <2>14, <2>15
<1> QED  BY <1>4, <1>5

\* Steps of a run that leave the table as it is.
LEMMA OthersKeep ==
  ASSUME AInv,
         \/ \E works \in BOOLEAN : RunChecks(works)
         \/ \E ok \in BOOLEAN : Post(ok) \/ Callback(ok)
         \/ Killed
  PROVE  Agreed' /\ RunForm' /\ TrailForm' /\ Younger'
<1>0. run.out.esc \subseteq Names /\ run.out.rec \subseteq Names /\ Younger
      /\ run.out \in [esc : SUBSET Names, rec : SUBSET Names]
  BY DEF AInv, RunShape, RunForm, TypeOK, Younger
<1>1. alerts' = alerts
  BY DEF RunChecks, Post, Callback, Killed
<1>2. \A n, src : Ages(n, src)' = Ages(n, src)
  BY <1>1, AgesSame
<1>3. CASE \E ok \in BOOLEAN : Post(ok) \/ Callback(ok)
  <2>1. trail' = trail /\ calm' = calm
    BY <1>3 DEF Post, Callback
  <2>2. /\ run'.send = run.send /\ run'.names = run.names /\ run'.out = run.out
        /\ (run.at = "post" /\ run'.at = "record") \/ (run.at = "failed" /\ run'.at = "done")
        /\ run' = [at |-> run'.at, res |-> run'.res, names |-> run'.names, send |-> run'.send,
                   out |-> run'.out, tries |-> run'.tries]
    BY <1>3 DEF AInv, RunShape, RunForm, Post, Callback
  <2>3. Agreed'
    BY <1>1, <2>1, <2>2, TableKept
  <2> QED  BY <1>0, <1>2, <2>1, <2>2, <2>3 DEF AInv, RunShape, RunForm, TrailForm, Younger
<1>4. CASE Killed
  <2>1. trail' = [n \in Names |-> Interrupted(trail[n])] /\ calm' = 0
    BY <1>4 DEF Killed, Keep
  <2>2. /\ run'.at \in {"judge", "failed"} /\ run'.out = [esc |-> {}, rec |-> {}]
        /\ run' = [at |-> run'.at, res |-> run'.res, names |-> run'.names, send |-> run'.send,
                   out |-> run'.out, tries |-> run'.tries]
    BY <1>4 DEF AInv, RunShape, RunForm, Killed, Idle
  <2>3. Agreed' /\ TrailForm'
    BY <1>1, <2>1, <2>2, Disturbed
  <2>4. \A n \in Names : trail'[n].since = trail[n].since
    BY <2>1, TrailIs, InterruptedIs DEF AInv
  <2>5. RunForm'
    BY <2>2 DEF RunForm
  <2> QED  BY <1>0, <1>2, <2>3, <2>4, <2>5 DEF Younger
<1>5. CASE \E works \in BOOLEAN : RunChecks(works)
  <2>1. PICK raised : raised = (\E c \in Checks : Results[c] = "raised")
    OBVIOUS
  <2>2. /\ run.at = "due" /\ calm' = calm
        /\ run' = [Idle EXCEPT !.at = IF raised THEN "failed" ELSE "judge", !.res = Results]
        /\ trail' = IF raised THEN [n \in Names |-> Interrupted(trail[n])] ELSE trail
    BY <1>5, <2>1 DEF RunChecks
  <2>3. /\ run'.at = (IF raised THEN "failed" ELSE "judge") /\ run'.out = [esc |-> {}, rec |-> {}]
        /\ run' = [at |-> run'.at, res |-> run'.res, names |-> run'.names, send |-> run'.send,
                   out |-> run'.out, tries |-> run'.tries]
    BY <2>2 DEF Idle
  <2>4. RunForm'
    BY <2>3 DEF RunForm
  <2>5. CASE raised
    <3>1. trail' = [n \in Names |-> Interrupted(trail[n])] /\ run'.at = "failed"
      BY <2>2, <2>3, <2>5
    <3>2. Agreed' /\ TrailForm'
      BY <1>1, <2>2, <3>1, Disturbed
    <3>3. \A n \in Names : trail'[n].since = trail[n].since
      BY <3>1, TrailIs, InterruptedIs DEF AInv
    <3> QED  BY <1>0, <1>2, <2>4, <3>2, <3>3 DEF Younger
  <2>6. CASE ~raised
    <3>1. trail' = trail /\ run'.at = "judge"
      BY <2>2, <2>3, <2>6
    <3>2. Agreed'
      BY <1>1, <2>2, <3>1, TableKept
    <3> QED  BY <1>0, <1>2, <2>4, <3>1, <3>2 DEF Younger, AInv, RunShape, TrailForm
  <2> QED  BY <2>5, <2>6
<1> QED  BY <1>3, <1>4, <1>5

-----------------------------------------------------------------------------
(* Ten minutes pass *)

LEMMA TickKeeps ==
  ASSUME AInv, HCTick, run.at = "done" \/ run = Idle
  PROVE  Agreed' /\ RunForm' /\ TrailForm' /\ Younger'
<1>0. Hour \in Nat /\ Window \in Nat /\ Hour < Window /\ EscalateAfter \in Nat /\ calm \in Nat
  BY HealthConstants DEF AInv, TypeOK
<1>1. run' = Idle /\ run'.at = "due" /\ run'.names = {} /\ run'.send = {}
      /\ run'.out = [esc |-> {}, rec |-> {}]
      /\ run' = [at |-> run'.at, res |-> run'.res, names |-> run'.names, send |-> run'.send,
                 out |-> run'.out, tries |-> run'.tries]
  BY DEF HCTick, Idle
<1>2. run.at = "done" \/ run.at = "due"
  BY DEF Idle
<1>3. RunForm'
  BY <1>1 DEF RunForm
<1>4. \A n, src, a : a \in Ages(n, src)' <=> \E b \in Ages(n, src) : b < Window /\ a = b + 1
  BY AgesTick DEF HCTick, AInv
<1>5. \A n, src : \A b \in Ages(n, src) : b \in Nat /\ b <= Window
  BY AgesAreNumbers
<1>6. calm' = AtMost(calm + 1, Window + 1) /\ calm' \in Nat
      /\ \A k \in Nat : (k + 1 < calm' => k < calm) /\ (calm' > Window => calm >= Window)
  <2>1. calm' = AtMost(calm + 1, Window + 1)
    BY DEF HCTick
  <2> QED  BY <1>0, <2>1 DEF AtMost
<1>7. \A n \in Names :
        /\ trail'[n] \in Trails
        /\ trail'[n].since = AtMost(trail[n].since + 1, Hour + 1)
        /\ trail'[n].inc = IF trail[n].inc = 0 THEN 0 ELSE AtMost(trail[n].inc + 1, Window + 2)
        /\ trail'[n].esc = trail[n].esc
        /\ trail'[n].fresh => trail[n].fresh /\ (run.at = "done" \/ trail[n].inc = 0)
        /\ trail'[n].open <=> (trail[n].open /\ \E a \in Ages(n, "escalation") : a < Window)
  <2> TAKE n \in Names
  <2>1. PICK t : t = IF run.at = "done" THEN trail[n] ELSE Interrupted(trail[n])
    OBVIOUS
  <2>2. /\ t \in Trails
        /\ t.since = trail[n].since /\ t.inc = trail[n].inc /\ t.esc = trail[n].esc
        /\ t.open = trail[n].open
        /\ t.fresh => trail[n].fresh /\ (run.at = "done" \/ trail[n].inc = 0)
    <3>1. trail[n] \in Trails
      BY TrailIs DEF AInv
    <3>2. CASE run.at = "done"
      BY <2>1, <3>1, <3>2
    <3>3. CASE run.at # "done"
      BY <2>1, <3>1, <3>3, InterruptedIs
    <3> QED  BY <3>2, <3>3
  <2>3. PICK o : o = (t.open /\ \E a \in Ages(n, "escalation") : a < Window)
    OBVIOUS
  <2>4. PICK s : s = AtMost(t.since + 1, Hour + 1)
    OBVIOUS
  <2>5. PICK i : i = IF t.inc = 0 THEN 0 ELSE AtMost(t.inc + 1, Window + 2)
    OBVIOUS
  <2>6. trail'[n] = [t EXCEPT !.since = AtMost(@ + 1, Hour + 1),
                 !.inc = IF @ = 0 THEN 0 ELSE AtMost(@ + 1, Window + 2),
                 !.open = @ /\ \E a \in Ages(n, "escalation") : a < Window]
    BY <2>1 DEF HCTick
  <2>7. trail'[n] = [t EXCEPT !.since = s, !.inc = i, !.open = o]
    BY <2>2, <2>3, <2>4, <2>5, <2>6 DEF Trails
  <2>8. s \in 0..(Hour + 1) /\ i \in 0..(Window + 2) /\ o \in BOOLEAN
    <3>1. t.since + 1 \in Nat /\ t.inc + 1 \in Nat
      BY <1>0, <2>2 DEF Trails
    <3>2. AtMost(t.since + 1, Hour + 1) \in 0..(Hour + 1)
      BY <1>0, <3>1 DEF AtMost
    <3>3. AtMost(t.inc + 1, Window + 2) \in 0..(Window + 2)
      BY <1>0, <3>1 DEF AtMost
    <3> QED  BY <1>0, <2>3, <2>4, <2>5, <3>2, <3>3
  <2>9. trail'[n] \in Trails /\ trail'[n].since = s /\ trail'[n].inc = i
        /\ trail'[n].esc = t.esc /\ trail'[n].fresh = t.fresh /\ trail'[n].open = o
    BY <2>2, <2>7, <2>8 DEF Trails
  <2>10. trail'[n].open <=> (trail[n].open /\ \E a \in Ages(n, "escalation") : a < Window)
    BY <2>2, <2>3, <2>9, Zenon
  <2> QED  BY <2>2, <2>4, <2>5, <2>9, <2>10
<1>8. TrailForm'
  <2>1. \A n \in Names : trail'[n] \in Trails
    BY <1>7
  <2>2. trail' = [n \in Names |->
       [(IF run.at = "done" THEN trail[n] ELSE Interrupted(trail[n]))
          EXCEPT !.since = AtMost(@ + 1, Hour + 1),
                 !.inc = IF @ = 0 THEN 0 ELSE AtMost(@ + 1, Window + 2),
                 !.open = @ /\ \E a \in Ages(n, "escalation") : a < Window]]
    BY DEF HCTick
  <2>3. DOMAIN trail' = Names /\ trail' = [n \in DOMAIN trail' |-> trail'[n]]
    BY <2>2
  <2> QED  BY <2>1, <2>3 DEF TrailForm
<1>9. \A n \in Names : trail[n].since \in Nat /\ trail[n].inc \in Nat
                       /\ trail[n].since <= Hour + 1 /\ trail[n].inc <= Window + 2
  <2> TAKE n \in Names
  <2>1. trail[n] \in Trails
    BY TrailIs DEF AInv
  <2> QED  BY <1>0, <2>1 DEF Trails
<1>10. \A n \in Names :
         /\ trail'[n].since <= Hour => trail'[n].since = trail[n].since + 1
         /\ trail'[n].since <= trail[n].since + 1
         /\ trail'[n].inc = 0 => trail[n].inc = 0
         /\ trail'[n].inc # 0 /\ trail'[n].inc <= Window + 1 =>
              trail'[n].inc = trail[n].inc + 1 /\ trail[n].inc # 0
  <2> TAKE n \in Names
  <2> QED  BY <1>0, <1>7, <1>9 DEF AtMost
<1>11. Sending' /\ Named' /\ Outgoing' /\ Calmly'
  BY <1>1 DEF Sending, Named, Outgoing, Calmly
<1>12. Unstamped'
  <2>1. \A n, src : 0 \notin Ages(n, src)'
    BY <1>4, <1>5
  <2> QED  BY <2>1 DEF Unstamped
<1>13. Healthy'
  BY <1>7, <1>10 DEF AInv, Agreed, Healthy
<1>14. SentRows'
  <2> SUFFICES ASSUME NEW n \in Names, trail'[n].since <= Hour, trail'[n].since < calm'
               PROVE  trail'[n].since \in Ages(n, "health_check")'
    BY DEF SentRows
  <2>1. trail'[n].since = trail[n].since + 1 /\ trail[n].since \in Nat
    BY <1>9, <1>10
  <2>2. trail[n].since < Hour /\ trail[n].since < calm
    BY <1>0, <1>6, <2>1
  <2>3. trail[n].since \in Ages(n, "health_check")
    BY <1>0, <1>2, <2>1, <2>2 DEF AInv, Agreed, SentRows
  <2> QED  BY <1>0, <1>4, <2>1, <2>2, <2>3
<1>15. Younger'
  <2> SUFFICES ASSUME NEW n \in Names, NEW a \in 0..Hour, a \in Ages(n, "health_check")'
               PROVE  trail'[n].since <= a
    BY DEF Younger
  <2>1. PICK b \in Ages(n, "health_check") : b < Window /\ a = b + 1
    BY <1>4
  <2>2. b \in 0..Hour
    BY <1>0, <1>5, <2>1
  <2>3. trail[n].since <= b
    BY <2>1, <2>2 DEF AInv, TypeOK
  <2> QED  BY <1>0, <1>5, <1>7, <1>9, <1>10, <2>1, <2>3 DEF AtMost
<1>16. Incidents'
  <2> SUFFICES ASSUME NEW n \in Critical, Live(n)' PROVE Incident(n)'
    BY DEF Incidents, Critical
  <2>1. n \in Names
    BY DEF Critical
  <2>2. trail'[n].fresh /\ trail'[n].inc \in Nat /\ trail'[n].inc # 0 /\ trail'[n].inc <= Window + 1
    BY <1>0 DEF Live
  <2>3. trail'[n].inc = trail[n].inc + 1 /\ trail[n].inc # 0 /\ trail[n].fresh /\ run.at = "done"
        /\ trail'[n].esc = trail[n].esc
    BY <1>7, <1>10, <2>1, <2>2
  <2>4. trail[n].inc \in 1..Window
    BY <1>0, <1>9, <2>1, <2>2, <2>3
  <2>5. Incident(n)
    BY <1>0, <2>3, <2>4 DEF AInv, Agreed, Incidents, Live
  <2>6. PICK k : k = Age(n)
    OBVIOUS
  <2>7. k \in Nat /\ k < Window /\ Age(n)' = k + 1
    BY <1>0, <2>3, <2>4, <2>6 DEF Age
  <2>8. ~Stamping(n) /\ ~Stamping(n)' /\ (Due(n) <=> k >= EscalateAfter)
        /\ (Due(n)' <=> k + 1 > EscalateAfter)
    BY <1>1, <2>3, <2>6, <2>7 DEF Stamping, Due
  <2>9. Due(n)' <=> Due(n)
    BY <1>0, <2>7, <2>8
  <2>10. /\ Ages(n, "recovery") = {} /\ k \in Ages(n, "health_check")
         /\ \A a \in Ages(n, "health_check") \cup Ages(n, "escalation") : a <= k
         /\ trail[n].esc = IF Ages(n, "escalation") # {} THEN 1 ELSE 0
         /\ trail[n].esc = IF Due(n) THEN 1 ELSE 0
    BY <2>3, <2>5, <2>6, <2>8 DEF Incident
  <2>11. Ages(n, "recovery")' = {}
    BY <1>4, <2>10
  <2>12. k + 1 \in Ages(n, "health_check")'
    BY <1>4, <2>7, <2>10
  <2>13. \A a \in Ages(n, "health_check")' \cup Ages(n, "escalation")' : a <= k + 1
    <3>1. ASSUME NEW src \in {"health_check", "escalation"}, NEW a \in Ages(n, src)'
          PROVE  a <= k + 1
      <4>1. PICK b \in Ages(n, src) : a = b + 1
        BY <1>4
      <4>2. b \in Nat
        BY <1>5
      <4>3. b \in Ages(n, "health_check") \cup Ages(n, "escalation")
        OBVIOUS
      <4>4. b <= k
        BY <2>10, <4>3
      <4> QED  BY <2>7, <4>1, <4>2, <4>4
    <3> QED  BY <3>1
  <2>14. Ages(n, "escalation")' # {} <=> Ages(n, "escalation") # {}
    <3>1. ASSUME NEW b \in Ages(n, "escalation") PROVE b + 1 \in Ages(n, "escalation")'
      <4>1. b \in Ages(n, "health_check") \cup Ages(n, "escalation") /\ b \in Nat
        BY <1>5
      <4>2. b <= k
        BY <2>10, <4>1
      <4>3. b < Window
        BY <1>0, <2>7, <4>1, <4>2
      <4> QED  BY <1>4, <4>3
    <3>2. ASSUME NEW b \in Ages(n, "escalation")' PROVE Ages(n, "escalation") # {}
      BY <1>4, <3>2
    <3> QED  BY <3>1, <3>2
  <2> QED  BY <2>3, <2>7, <2>8, <2>9, <2>10, <2>11, <2>12, <2>13, <2>14 DEF Incident
<1>17. Openness'
  <2>1. ASSUME NEW n \in Names
        PROVE  Distinct(n)' /\ Opens(n)'
               /\ (calm' > Window /\ trail'[n].open => Ages(n, "escalation")' # {})
    <3>1. PICK E : E = Ages(n, "escalation")
      OBVIOUS
    <3>2. PICK R : R = Ages(n, "recovery")
      OBVIOUS
    <3>3. Distinct(n) /\ Opens(n)
      BY <1>2 DEF AInv, Agreed, Openness
    <3>4. (\A a \in E : a \in Nat /\ a <= Window) /\ (\A a \in R : a \in Nat /\ a <= Window)
      BY <1>5, <3>1, <3>2
    <3>5. \A a : a \in Ages(n, "escalation")' <=> \E b \in E : b < Window /\ a = b + 1
      BY <1>4, <3>1
    <3>6. \A a : a \in Ages(n, "recovery")' <=> \E b \in R : b < Window /\ a = b + 1
      BY <1>4, <3>2
    <3>7. trail'[n].open <=> (trail[n].open /\ \E a \in E : a < Window)
      BY <1>7, <3>1
    <3>8. \A a \in E : a < calm => a \notin R
      BY <3>1, <3>2, <3>3 DEF Distinct
    <3>9. Distinct(n)'
      <4>1. ASSUME NEW a, a \in Ages(n, "escalation")', a < calm'
            PROVE  a \notin Ages(n, "recovery")'
        <5>1. PICK b \in E : b < Window /\ a = b + 1
          BY <3>5, <4>1
        <5>2. b \in Nat /\ b < calm
          BY <1>6, <3>4, <4>1, <5>1
        <5>3. \A c \in R : a = c + 1 => c = b
          BY <3>4, <5>1, <5>2
        <5> QED  BY <3>6, <3>8, <5>1, <5>2, <5>3
      <4> QED  BY <4>1 DEF Distinct
    <3>10. ASSUME NEW a, a \in Ages(n, "escalation")', a < calm',
                  \A b \in Ages(n, "recovery")' : b > a
           PROVE  trail'[n].open
      <4>1. PICK c \in E : c < Window /\ a = c + 1
        BY <3>5, <3>10
      <4>2. c \in Nat /\ c < calm
        BY <1>6, <3>4, <3>10, <4>1
      <4>3. \A b \in R : b > c
        <5>1. TAKE b \in R
        <5>2. CASE b < Window
          <6>1. b + 1 > a
            BY <3>6, <3>10, <5>2
          <6> QED  BY <3>4, <4>1, <4>2, <6>1
        <5>3. CASE ~(b < Window)
          BY <1>0, <3>4, <4>1, <4>2, <5>3
        <5> QED  BY <5>2, <5>3
      <4>4. trail[n].open
        BY <3>1, <3>2, <3>3, <4>2, <4>3 DEF Opens
      <4> QED  BY <3>7, <4>1, <4>4
    <3>11. ASSUME NEW a, a \in Ages(n, "recovery")', a < calm',
                  \A b \in Ages(n, "escalation")' : b > a
           PROVE  ~trail'[n].open
      <4>1. PICK c \in R : c < Window /\ a = c + 1
        BY <3>6, <3>11
      <4>2. c \in Nat /\ c < calm
        BY <1>6, <3>4, <3>11, <4>1
      <4>3. \A b \in E : b > c
        <5>1. TAKE b \in E
        <5>2. CASE b < Window
          <6>1. b + 1 > a
            BY <3>5, <3>11, <5>2
          <6> QED  BY <3>4, <4>1, <4>2, <6>1
        <5>3. CASE ~(b < Window)
          BY <1>0, <3>4, <4>1, <4>2, <5>3
        <5> QED  BY <5>2, <5>3
      <4>4. ~trail[n].open
        BY <3>1, <3>2, <3>3, <4>2, <4>3 DEF Opens
      <4> QED  BY <3>7, <4>4
    <3>12. Opens(n)'
      BY <3>10, <3>11 DEF Opens
    <3>13. trail'[n].open => Ages(n, "escalation")' # {}
      BY <3>5, <3>7
    <3> QED  BY <3>9, <3>12, <3>13
  <2> QED  BY <1>1, <2>1, OpennessOf
<1>18. Agreed'
  BY <1>11, <1>12, <1>13, <1>14, <1>16, <1>17 DEF Agreed
<1> QED  BY <1>3, <1>8, <1>15, <1>18

-----------------------------------------------------------------------------
(* The parts of the types *)

(* TypeOK in parts *)
Sources == {"health_check", "escalation", "recovery"}
WorldOK ==
  /\ world.host \in BOOLEAN /\ world.store \in BOOLEAN /\ world.feed \in BOOLEAN
  /\ world.conn \in {"running", "failed", "ghost"}
  /\ \A c \in DOMAIN world.rest : world.rest[c] \in Outcomes(c)
TableOK == alerts \subseteq [name : Names, age : 0..Window, source : Sources]
RunOK ==
  /\ run.at \in {"due", "judge", "post", "record", "escalate", "stamp", "failed", "done"}
  /\ run.send \subseteq run.names /\ run.names \subseteq Names /\ run.tries \in 0..1
GuardOK ==
  /\ beat.age \in 0..(DownAfter + 1) /\ beat.says \in Levels \ {"down"}
  /\ wd.level \in Levels /\ wd.since \in 0..Repeat /\ wd.ran \in BOOLEAN
CountsOK == calm \in 0..(Window + 1) /\ faults \in 0..MaxFaults /\ changes \in 0..MaxChanges

LEMMA TypeParts ==
  TypeOK <=> WorldOK /\ TableOK /\ RunOK /\ GuardOK /\ CountsOK /\ Younger
BY DEF TypeOK, WorldOK, TableOK, RunOK, GuardOK, CountsOK, Younger, Sources

LEMMA AInvParts ==
  AInv <=> /\ WorldOK /\ TableOK /\ RunOK /\ GuardOK /\ CountsOK /\ Younger
           /\ RunForm /\ WorldForm /\ GuardForm /\ TrailForm /\ Firm /\ Agreed
BY TypeParts DEF AInv, RunShape

\* A failure is counted while there are failures left.
LEMMA PayCounts ==
  ASSUME faults \in 0..MaxFaults, NEW b \in BOOLEAN, Pay(b)
  PROVE  faults' \in 0..MaxFaults
BY HealthConstants DEF Pay

LEMMA IdleIsDue == run = Idle => run.at = "due"
BY DEF Idle

LEMMA KeptWorld ==
  ASSUME AInv, world' = world PROVE WorldOK' /\ WorldForm'
BY AInvParts DEF WorldOK, WorldForm, Outcomes

LEMMA RestartedWorld ==
  ASSUME AInv, NEW works \in BOOLEAN, world' = Restarted(works)
  PROVE  WorldOK' /\ WorldForm' /\ world'.host = world.host
<1>1. PICK c : c = IF works THEN "running" ELSE world.conn
  OBVIOUS
<1>2. WorldOK /\ WorldForm
  BY AInvParts
<1>3. world' = [host |-> world.host, store |-> world.store, feed |-> world.feed,
                conn |-> c, rest |-> world.rest]
  BY <1>1, <1>2 DEF Restarted, WorldForm
<1>4. c \in {"running", "failed", "ghost"}
  BY <1>1, <1>2 DEF WorldOK
<1> HIDE DEF WorldForm
<1>5. world'.host = world.host /\ world'.store = world.store /\ world'.feed = world.feed
      /\ world'.conn = c /\ world'.rest = world.rest
  BY <1>3
<1>6. WorldOK'
  BY <1>2, <1>4, <1>5 DEF WorldOK, Outcomes
<1>7. WorldForm'
  BY <1>3, <1>5 DEF WorldForm
<1> QED  BY <1>5, <1>6, <1>7

\* A run under way is a run of a live host.
LEMMA FirmKept ==
  ASSUME AInv, run # Idle, world'.host = world.host
  PROVE  Firm'
BY AInvParts DEF Firm

LEMMA TableGrows ==
  ASSUME AInv, NEW S, NEW src \in Sources, S \subseteq Names,
         alerts' = alerts \cup [name : S, source : {src}, age : {0}]
  PROVE  TableOK'
<1>1. TableOK /\ 0 \in 0..Window
  BY AInvParts, HealthConstants
<1>2. ASSUME NEW r \in [name : S, source : {src}, age : {0}]
      PROVE  r \in [name : Names, age : 0..Window, source : Sources]
  <2>1. r.name \in Names /\ r.age \in 0..Window /\ r.source \in Sources
    BY <1>1
  <2>2. r = [name |-> r.name, source |-> r.source, age |-> r.age]
    OBVIOUS
  <2> QED  BY <2>1, <2>2
<1> QED  BY <1>1, <1>2 DEF TableOK

\* Statement and fault budget of a step of the run, the watchdog waiting.
LEMMA RunStep ==
  ASSUME AInv, UNCHANGED <<wdVars, changes>>, WorldOK', WorldForm', TableOK', RunOK',
         calm' \in {0, calm}, faults' \in 0..MaxFaults, Firm',
         Agreed', RunForm', TrailForm', Younger'
  PROVE  AInv'
<1>1. GuardOK' /\ GuardForm'
  BY AInvParts DEF GuardOK, GuardForm, wdVars
<1>2. CountsOK'
  BY AInvParts, HealthConstants DEF CountsOK
<1> QED  BY <1>1, <1>2 DEF AInv, TypeOK, WorldOK, TableOK, RunOK, GuardOK, CountsOK, Younger,
                           RunShape, Sources

-----------------------------------------------------------------------------
(* Each action keeps the invariant *)

LEMMA CheckKeeps ==
  ASSUME AInv, NEW works \in BOOLEAN, Check(works)
  PROVE  AInv'
<1>1. RunChecks(works) /\ UNCHANGED <<wdVars, changes>>
  BY DEF Check
<1>2. PICK raised : raised = (\E c \in Checks : Results[c] = "raised")
  OBVIOUS
<1>3. /\ world.host /\ (world' = world \/ world' = Restarted(works))
      /\ run' = [Idle EXCEPT !.at = IF raised THEN "failed" ELSE "judge", !.res = Results]
      /\ alerts' = alerts /\ calm' = calm /\ Pay(works)
  BY <1>1, <1>2 DEF RunChecks
<1>4. Agreed' /\ RunForm' /\ TrailForm' /\ Younger'
  BY <1>1, OthersKeep
<1>5. WorldOK' /\ WorldForm' /\ world'.host = world.host
  BY <1>3, KeptWorld, RestartedWorld
<1>6. TableOK'
  BY <1>3, AInvParts DEF TableOK
<1>7. RunOK'
  BY <1>3 DEF RunOK, Idle
<1>8. faults' \in 0..MaxFaults
  BY <1>3, AInvParts, PayCounts DEF CountsOK
<1>9. Firm'
  BY <1>3, <1>5 DEF Firm
<1> QED  BY <1>1, <1>3, <1>4, <1>5, <1>6, <1>7, <1>8, <1>9, RunStep

LEMMA JudgeKeeps ==
  ASSUME AInv, NEW found \in BOOLEAN, NEW works \in BOOLEAN, Judge(found, works)
  PROVE  AInv'
<1>1. Evaluate(found, works) /\ UNCHANGED <<wdVars, changes>>
  BY DEF Judge
<1>2. run.at = "judge" /\ (world' = world \/ world' = Restarted(works)) /\ alerts' = alerts
      /\ calm' \in {0, calm} /\ Pay(found /\ works)
  BY <1>1 DEF Evaluate
<1>3. Agreed' /\ RunForm' /\ WorldForm' /\ TrailForm' /\ run'.at \in {"escalate", "post"}
      /\ run'.send \subseteq run'.names /\ run'.names \subseteq Names /\ run'.tries = run.tries
      /\ \A n \in Names : trail'[n].since = trail[n].since \/ trail'[n].since = 0
  BY <1>1, EvaluateKeeps
<1>4. WorldOK' /\ WorldForm' /\ world'.host = world.host
  BY <1>2, KeptWorld, RestartedWorld
<1>5. TableOK' /\ RunOK'
  BY <1>2, <1>3, AInvParts DEF TableOK, RunOK
<1>6. faults' \in 0..MaxFaults
  <2>1. (found /\ works) \in BOOLEAN
    OBVIOUS
  <2> QED  BY <1>2, <2>1, AInvParts, PayCounts DEF CountsOK
<1>7. Firm'
  BY <1>2, <1>4, FirmKept, IdleIsDue
<1>8. Younger'
  <2>1. \A n, src : Ages(n, src)' = Ages(n, src)
    BY <1>2, AgesSame
  <2>2. \A n \in Names, a \in 0..Hour : trail[n].since <= a => trail'[n].since <= a
    BY <1>3, HealthConstants
  <2> QED  BY <2>1, <2>2, AInvParts DEF Younger
<1> QED  BY <1>1, <1>2, <1>3, <1>4, <1>5, <1>6, <1>7, <1>8, RunStep

\* Post, callback and a killed task.
LEMMA PlainKeeps ==
  ASSUME AInv, UNCHANGED <<wdVars, changes>>,
         (\E ok \in BOOLEAN : Post(ok) \/ Callback(ok)) \/ Killed
  PROVE  AInv'
<1>1. /\ world' = world /\ alerts' = alerts /\ calm' \in {0, calm}
      /\ run.at # "due"
  BY DEF Post, Callback, Killed, Keep
<1>2. RunOK'
  <2>1. RunOK /\ RunForm
    BY AInvParts
  <2>2. /\ run'.at \in {"record", "done", "judge", "failed"}
        /\ run'.send = run.send /\ run'.names = run.names /\ run'.tries \in {run.tries, 1}
    BY <2>1 DEF RunForm, Post, Callback, Killed
  <2> QED  BY <2>1, <2>2 DEF RunOK
<1>3. Agreed' /\ RunForm' /\ TrailForm' /\ Younger'
  BY OthersKeep
<1>4. faults' \in 0..MaxFaults
  <2>1. \E b \in BOOLEAN : Pay(b)
    BY DEF Post, Callback, Killed, Keep
  <2> QED  BY <2>1, AInvParts, PayCounts DEF CountsOK
<1>5. WorldOK' /\ WorldForm' /\ Firm'
  BY <1>1, KeptWorld, FirmKept, IdleIsDue
<1>6. TableOK'
  BY <1>1, AInvParts DEF TableOK
<1> QED  BY <1>1, <1>2, <1>3, <1>4, <1>5, <1>6, RunStep

LEMMA RememberKeeps ==
  ASSUME AInv, NEW ok \in BOOLEAN, Remember(ok)
  PROVE  AInv'
<1>1. Record(ok) /\ UNCHANGED <<wdVars, changes>>
  BY DEF Remember
<1>2. run.at = "record" /\ world' = world /\ calm' \in {0, calm} /\ Pay(ok)
  BY <1>1 DEF Record, Keep
<1>3. RunOK /\ RunForm /\ TableOK
  BY AInvParts
<1>4. RunOK'
  <2>1. /\ run'.at = "escalate"
        /\ run'.send = run.send /\ run'.names = run.names /\ run'.tries = run.tries
    BY <1>1, <1>3 DEF RunForm, Record
  <2> QED  BY <1>3, <2>1 DEF RunOK
<1>5. TableOK'
  <2>1. CASE alerts' = alerts
    BY <1>3, <2>1 DEF TableOK
  <2>2. CASE alerts' = alerts \cup [name : run.send, source : {"health_check"}, age : {0}]
    <3>1. PICK S : S = run.send
      OBVIOUS
    <3>2. S \subseteq Names
      BY <1>3, <3>1 DEF RunOK
    <3> QED  BY <2>2, <3>1, <3>2, TableGrows DEF Sources
  <2> QED  BY <1>1, <2>1, <2>2 DEF Record, Insert
<1>6. Agreed' /\ RunForm' /\ TrailForm' /\ Younger'
  BY <1>1, RecordKeeps
<1>7. WorldOK' /\ WorldForm' /\ Firm'
  BY <1>2, KeptWorld, FirmKept, IdleIsDue
<1>8. faults' \in 0..MaxFaults
  BY <1>2, AInvParts, PayCounts DEF CountsOK
<1> QED  BY <1>1, <1>2, <1>4, <1>5, <1>6, <1>7, <1>8, RunStep

LEMMA RaiseKeeps ==
  ASSUME AInv, NEW ok \in BOOLEAN, Raise(ok)
  PROVE  AInv'
<1>1. Escalate(ok) /\ UNCHANGED <<wdVars, changes>>
  BY DEF Raise
<1>2. run.at = "escalate" /\ world' = world /\ alerts' = alerts /\ calm' \in {0, calm} /\ Pay(ok)
  BY <1>1 DEF Escalate, Keep
<1>3. Agreed' /\ RunForm' /\ TrailForm' /\ Younger' /\ run'.at \in {"done", "stamp"}
  BY <1>1, EscalateKeeps
<1>4. RunOK' /\ TableOK'
  <2>1. RunOK /\ RunForm /\ TableOK
    BY AInvParts
  <2>2. run'.send = run.send /\ run'.names = run.names /\ run'.tries = run.tries
    BY <1>1, <2>1 DEF RunForm, Escalate
  <2> QED  BY <1>2, <1>3, <2>1, <2>2 DEF RunOK, TableOK
<1>5. WorldOK' /\ WorldForm' /\ Firm'
  BY <1>2, KeptWorld, FirmKept, IdleIsDue
<1>6. faults' \in 0..MaxFaults
  BY <1>2, AInvParts, PayCounts DEF CountsOK
<1> QED  BY <1>1, <1>2, <1>3, <1>4, <1>5, <1>6, RunStep

LEMMA MarkKeeps ==
  ASSUME AInv, NEW ok \in BOOLEAN, Mark(ok)
  PROVE  AInv'
<1>1. Stamp(ok) /\ UNCHANGED <<wdVars, changes>>
  BY DEF Mark
<1>2. run.at = "stamp" /\ world' = world /\ calm' \in {0, calm} /\ Pay(ok)
  BY <1>1 DEF Stamp, Keep
<1>3. RunOK /\ RunForm /\ TableOK
  BY AInvParts
<1>4. RunOK'
  <2>1. /\ run'.at = "done"
        /\ run'.send = run.send /\ run'.names = run.names /\ run'.tries = run.tries
    BY <1>1, <1>3 DEF RunForm, Stamp
  <2> QED  BY <1>3, <2>1 DEF RunOK
<1>5. TableOK'
  <2>1. CASE alerts' = alerts
    BY <1>3, <2>1 DEF TableOK
  <2>2. CASE alerts' = alerts \cup [name : run.out.esc, source : {"escalation"}, age : {0}]
                              \cup [name : run.out.rec, source : {"recovery"}, age : {0}]
    <3>1. PICK S : S = run.out.esc
      OBVIOUS
    <3>2. PICK T : T = run.out.rec
      OBVIOUS
    <3>3. S \subseteq Names /\ T \subseteq Names /\ 0 \in 0..Window
      BY <1>3, <3>1, <3>2, HealthConstants DEF RunForm
    <3>4. ASSUME NEW U, U \subseteq Names, NEW src \in Sources,
                 NEW r \in [name : U, source : {src}, age : {0}]
          PROVE  r \in [name : Names, age : 0..Window, source : Sources]
      <4>1. r.name \in Names /\ r.age \in 0..Window /\ r.source \in Sources
        BY <3>3, <3>4
      <4>2. r = [name |-> r.name, source |-> r.source, age |-> r.age]
        BY <3>4
      <4> QED  BY <4>1, <4>2
    <3>5. [name : S, source : {"escalation"}, age : {0}]
            \subseteq [name : Names, age : 0..Window, source : Sources]
      BY <3>3, <3>4 DEF Sources
    <3>6. [name : T, source : {"recovery"}, age : {0}]
            \subseteq [name : Names, age : 0..Window, source : Sources]
      BY <3>3, <3>4 DEF Sources
    <3> QED  BY <1>3, <2>2, <3>1, <3>2, <3>5, <3>6 DEF TableOK
  <2> QED  BY <1>1, <2>1, <2>2 DEF Stamp
<1>6. Agreed' /\ RunForm' /\ TrailForm' /\ Younger'
  BY <1>1, StampKeeps
<1>7. WorldOK' /\ WorldForm' /\ Firm'
  BY <1>2, KeptWorld, FirmKept, IdleIsDue
<1>8. faults' \in 0..MaxFaults
  BY <1>2, AInvParts, PayCounts DEF CountsOK
<1> QED  BY <1>1, <1>2, <1>4, <1>5, <1>6, <1>7, <1>8, RunStep

LEMMA GuardKeeps ==
  ASSUME AInv, NEW ok \in BOOLEAN, Guard(ok)
  PROVE  AInv'
<1>1. Watch /\ Pay(ok) /\ UNCHANGED <<world, alerts, run, trail, calm, changes>>
  BY DEF Guard
<1>2. Agreed'
  BY <1>1, TableKept
<1>3. \A n, src : Ages(n, src)' = Ages(n, src)
  BY <1>1, AgesSame
<1>4. Younger'
  BY <1>1, <1>3, AInvParts DEF Younger
<1>5. WorldOK' /\ WorldForm'
  BY <1>1, KeptWorld
<1>6. RunForm' /\ TrailForm' /\ Firm' /\ TableOK' /\ RunOK'
  BY <1>1, AInvParts DEF RunForm, TrailForm, Firm, TableOK, RunOK
<1>7. faults' \in 0..MaxFaults
  BY <1>1, AInvParts, PayCounts DEF CountsOK
<1>8. CountsOK'
  BY <1>1, <1>7, AInvParts DEF CountsOK
<1>9. GuardOK' /\ GuardForm'
  <2>1. GuardOK /\ GuardForm /\ Repeat \in Nat
    BY AInvParts, HealthConstants
  <2>2. PICK s : s = ShouldSend(Level)
    OBVIOUS
  <2>3. Level \in Levels
    BY <2>1 DEF GuardOK, Level, Levels
  <2>4. beat' = beat /\ wd' = IF s THEN [level |-> Level, since |-> 0, ran |-> TRUE]
                                   ELSE [wd EXCEPT !.ran = TRUE]
    BY <1>1, <2>2 DEF Watch
  <2>5. /\ wd' = [level |-> wd'.level, since |-> wd'.since, ran |-> wd'.ran]
        /\ wd'.level \in Levels /\ wd'.since \in 0..Repeat /\ wd'.ran \in BOOLEAN
    <3>1. CASE s
      BY <2>1, <2>3, <2>4, <3>1
    <3>2. CASE ~s
      BY <2>1, <2>4, <3>2 DEF GuardOK, GuardForm
    <3> QED  BY <3>1, <3>2
  <2> QED  BY <2>1, <2>4, <2>5 DEF GuardOK, GuardForm
<1> QED  BY <1>2, <1>4, <1>5, <1>6, <1>8, <1>9, AInvParts DEF AInv, TypeOK, WorldOK, TableOK,
            RunOK, GuardOK, CountsOK, Younger, RunShape, Sources

LEMMA TickKeepsAll ==
  ASSUME AInv, Tick
  PROVE  AInv'
<1>1. Ended /\ HCTick /\ changes' = changes
  BY DEF Tick
<1>2. run.at = "done" \/ run = Idle
  BY <1>1, AInvParts DEF Ended, Firm
<1>3. Agreed' /\ RunForm' /\ TrailForm' /\ Younger'
  BY <1>1, <1>2, TickKeeps
<1>4. world' = world /\ faults' = faults /\ run' = Idle /\ calm' = AtMost(calm + 1, Window + 1)
  BY <1>1 DEF HCTick
<1>5. WorldOK' /\ WorldForm' /\ Firm'
  BY <1>4, KeptWorld DEF Firm
<1>6. RunOK'
  BY <1>4 DEF RunOK, Idle
<1>7. CountsOK'
  <2>1. CountsOK /\ Window \in Nat
    BY AInvParts, HealthConstants
  <2>2. calm' \in 0..(Window + 1)
    BY <1>4, <2>1 DEF AtMost, CountsOK
  <2> QED  BY <1>1, <1>4, <2>1, <2>2 DEF CountsOK
<1>8. TableOK'
  <2>0. TableOK /\ Window \in Nat
    BY AInvParts, HealthConstants
  <2>1. alerts' = {[r EXCEPT !.age = @ + 1] : r \in {q \in alerts : q.age < Window}}
    BY <1>1 DEF HCTick
  <2>2. ASSUME NEW o \in alerts' PROVE o \in [name : Names, age : 0..Window, source : Sources]
    <3>1. PICK r \in alerts : r.age < Window /\ o = [r EXCEPT !.age = @ + 1]
      BY <2>1
    <3>2. r \in [name : Names, age : 0..Window, source : Sources]
      BY <2>0 DEF TableOK
    <3>3. r.age + 1 \in 0..Window
      BY <2>0, <3>1, <3>2
    <3> QED  BY <3>1, <3>2, <3>3
  <2> QED  BY <2>2 DEF TableOK
<1>9. GuardOK' /\ GuardForm'
  <2>1. GuardOK /\ GuardForm /\ Repeat \in Nat /\ DownAfter \in Nat
    BY AInvParts, HealthConstants
  <2>2. PICK s : s = Older(wd.since, Repeat)
    OBVIOUS
  <2>3. PICK g : g = Older(beat.age, DownAfter + 1)
    OBVIOUS
  <2>4. s \in 0..Repeat /\ g \in 0..(DownAfter + 1)
    BY <2>1, <2>2, <2>3 DEF GuardOK, Older
  <2>5. wd' = [wd EXCEPT !.ran = FALSE, !.since = Older(@, Repeat)]
    BY DEF Tick, WDTick
  <2>6. wd' = [level |-> wd.level, since |-> s, ran |-> FALSE]
    BY <2>1, <2>2, <2>5 DEF GuardForm
  <2>7. \/ beat' = Pushed(world.store, Flowing)
        \/ beat' = [beat EXCEPT !.age = Older(@, DownAfter + 1)]
    BY DEF Tick, WDTick
  <2>8. CASE beat' = Pushed(world.store, Flowing)
    <3>1. PICK v : v = Verdict(world.store, Flowing)
      OBVIOUS
    <3>2. v \in Levels \ {"down"}
      BY <3>1 DEF Verdict, Levels
    <3>3. beat' = [age |-> 0, says |-> v]
      BY <2>8, <3>1 DEF Pushed
    <3> QED  BY <2>1, <2>4, <2>6, <3>2, <3>3 DEF GuardOK, GuardForm
  <2>9. CASE beat' = [beat EXCEPT !.age = Older(@, DownAfter + 1)]
    <3>1. beat' = [age |-> g, says |-> beat.says]
      BY <2>1, <2>3, <2>9 DEF GuardForm
    <3> QED  BY <2>1, <2>4, <2>6, <3>1 DEF GuardOK, GuardForm
  <2> QED  BY <2>7, <2>8, <2>9
<1> QED  BY <1>3, <1>5, <1>6, <1>7, <1>8, <1>9 DEF AInv, TypeOK, WorldOK, TableOK,
            RunOK, GuardOK, CountsOK, Younger, RunShape, Sources

LEMMA ChangeKeeps ==
  ASSUME AInv, Change
  PROVE  AInv'
<1>1. run = Idle /\ changes < MaxChanges /\ changes' = changes + 1
      /\ UNCHANGED <<alerts, run, trail, calm, faults, wdVars>>
  BY DEF Change
<1>2. Agreed'
  BY <1>1, TableKept
<1>3. \A n, src : Ages(n, src)' = Ages(n, src)
  BY <1>1, AgesSame
<1>4. Younger'
  BY <1>1, <1>3, AInvParts DEF Younger
<1>5. RunForm' /\ TrailForm' /\ Firm' /\ TableOK' /\ RunOK' /\ GuardOK' /\ GuardForm'
  BY <1>1, AInvParts DEF RunForm, TrailForm, Firm, TableOK, RunOK, GuardOK, GuardForm, wdVars, Idle
<1>6. CountsOK'
  BY <1>1, AInvParts, ChangesAssumption DEF CountsOK
<1>7. WorldOK' /\ WorldForm'
  <2>1. WorldOK /\ WorldForm
    BY AInvParts
  <2>2. CASE world' = [world EXCEPT !.host = ~@]
    BY <2>1, <2>2 DEF WorldOK, WorldForm, Outcomes
  <2>3. CASE world' = [world EXCEPT !.store = ~@]
    BY <2>1, <2>3 DEF WorldOK, WorldForm, Outcomes
  <2>4. CASE world' = [world EXCEPT !.feed = ~@]
    BY <2>1, <2>4 DEF WorldOK, WorldForm, Outcomes
  <2>5. CASE \E s \in {"running", "failed", "ghost"} \ {world.conn} :
               world' = [world EXCEPT !.conn = s]
    BY <2>1, <2>5 DEF WorldOK, WorldForm, Outcomes
  <2>6. CASE \E c \in DOMAIN world.rest : \E r \in Outcomes(c) \ {world.rest[c]} :
               world' = [world EXCEPT !.rest[c] = r]
    <3>0. PICK c \in DOMAIN world.rest :
            \E r \in Outcomes(c) \ {world.rest[c]} : world' = [world EXCEPT !.rest[c] = r]
      BY <2>6
    <3>1. PICK r \in Outcomes(c) : world' = [world EXCEPT !.rest[c] = r]
      BY <3>0
    <3>2. PICK rest : rest = [world.rest EXCEPT ![c] = r]
      OBVIOUS
    <3>3. world' = [host |-> world.host, store |-> world.store, feed |-> world.feed,
                    conn |-> world.conn, rest |-> rest]
      BY <2>1, <3>1, <3>2 DEF WorldForm
    <3>4. \A d \in DOMAIN rest : rest[d] \in Outcomes(d)
      BY <2>1, <3>1, <3>2 DEF WorldOK
    <3> QED  BY <2>1, <3>3, <3>4 DEF WorldOK, WorldForm, Outcomes
  <2> QED  BY <2>2, <2>3, <2>4, <2>5, <2>6 DEF Change
<1> QED  BY <1>2, <1>4, <1>5, <1>6, <1>7 DEF AInv, TypeOK, WorldOK, TableOK,
            RunOK, GuardOK, CountsOK, Younger, RunShape, Sources

-----------------------------------------------------------------------------
(* The invariant, types and incidents *)

LEMMA LastIs ==
  ASSUME NEW S, S # {}, \A a \in S : a \in Nat
  PROVE  Last(S) \in S /\ \A b \in S : Last(S) <= b
<1>1. \E a \in S : \A b \in S : a <= b
  BY LeastInSet
<1> QED  BY <1>1 DEF Last

LEMMA AInvInit == ASSUME Init PROVE AInv
<1>0. /\ Hour \in Nat /\ EscalateAfter \in Nat /\ Window \in Nat /\ MaxFaults \in Nat
      /\ DownAfter \in Nat /\ Repeat \in Nat /\ MaxChanges \in Nat
  BY HealthConstants, ChangesAssumption
<1>1. alerts = {} /\ run = Idle /\ calm = Window + 1 /\ faults = 0 /\ changes = 0
      /\ trail = [n \in Names |-> Blank]
      /\ world = [host |-> TRUE, store |-> TRUE, feed |-> TRUE, conn |-> "running",
                  rest |-> [c \in Checks \ {"producer", "connect"} |-> "good"]]
      /\ beat = [age |-> DownAfter + 1, says |-> "ok"]
      /\ wd = [level |-> "ok", since |-> Repeat, ran |-> FALSE]
  BY DEF Init, HCInit, WDInit
<1>2. \A n, src : Ages(n, src) = {}
  BY <1>1 DEF Ages
<1>3. WorldOK /\ WorldForm
  BY <1>1 DEF WorldOK, WorldForm, Outcomes
<1>4. TableOK /\ GuardOK /\ GuardForm
  BY <1>0, <1>1 DEF TableOK, GuardOK, GuardForm, Levels
<1>5. RunOK /\ RunForm /\ Firm /\ run.at = "due" /\ run.send = {}
  BY <1>1 DEF RunOK, RunForm, Firm, Idle
<1>6. CountsOK /\ Younger
  BY <1>0, <1>1, <1>2 DEF CountsOK, Younger
<1>7. \A n \in Names : trail[n] \in Trails /\ trail[n].since = Hour + 1 /\ trail[n].inc = 0
                       /\ trail[n].esc = 0 /\ trail[n].open = FALSE
  BY <1>0, <1>1 DEF Blank, Trails
<1>8. TrailForm
  BY <1>1, <1>7 DEF TrailForm
<1>9. Sending /\ Named /\ Outgoing /\ Calmly /\ Healthy /\ Unstamped
  BY <1>2, <1>5, <1>7 DEF Sending, Named, Outgoing, Calmly, Healthy, Unstamped
<1>10. SentRows
  BY <1>0, <1>7 DEF SentRows
<1>11. Incidents
  BY <1>0, <1>7 DEF Incidents, Live, Critical
<1>12. Openness
  BY <1>2, <1>5, <1>7 DEF Openness, Distinct, Opens
<1> QED  BY <1>3, <1>4, <1>5, <1>6, <1>8, <1>9, <1>10, <1>11, <1>12, AInvParts DEF Agreed

LEMMA AInvStep == ASSUME AInv, [Next]_vars PROVE AInv'
<1>1. CASE \E ok, works \in BOOLEAN : Judge(ok, works)
  BY <1>1, JudgeKeeps
<1>2. CASE \E ok \in BOOLEAN : Check(ok)
  BY <1>2, CheckKeeps
<1>3. CASE (\E ok \in BOOLEAN : Report(ok) \/ Fail(ok)) \/ Kill
  BY <1>3, PlainKeeps DEF Report, Fail, Kill
<1>4. CASE \E ok \in BOOLEAN : Remember(ok)
  BY <1>4, RememberKeeps
<1>5. CASE \E ok \in BOOLEAN : Raise(ok)
  BY <1>5, RaiseKeeps
<1>6. CASE \E ok \in BOOLEAN : Mark(ok)
  BY <1>6, MarkKeeps
<1>7. CASE \E ok \in BOOLEAN : Guard(ok)
  BY <1>7, GuardKeeps
<1>8. CASE Tick
  BY <1>8, TickKeepsAll
<1>9. CASE Change
  BY <1>9, ChangeKeeps
<1>10. CASE UNCHANGED vars
  <2>0. world' = world /\ alerts' = alerts /\ run' = run /\ trail' = trail /\ calm' = calm
        /\ faults' = faults /\ beat' = beat /\ wd' = wd /\ changes' = changes
    BY <1>10 DEF vars, hcVars, wdVars
  <2>1. Agreed'
    BY <2>0, TableKept
  <2>2. \A n, src : Ages(n, src)' = Ages(n, src)
    BY <2>0, AgesSame
  <2>3. Younger'
    BY <2>0, <2>2, AInvParts DEF Younger
  <2>4. WorldOK' /\ WorldForm'
    BY <2>0, KeptWorld
  <2>5. RunForm' /\ TrailForm' /\ Firm' /\ TableOK' /\ RunOK' /\ GuardOK' /\ GuardForm' /\ CountsOK'
    BY <2>0, AInvParts DEF RunForm, TrailForm, Firm, TableOK, RunOK, GuardOK, GuardForm, CountsOK, Idle
  <2> QED  BY <2>1, <2>3, <2>4, <2>5 DEF AInv, TypeOK, WorldOK, TableOK,
              RunOK, GuardOK, CountsOK, Younger, RunShape, Sources
<1> QED  BY <1>1, <1>2, <1>3, <1>4, <1>5, <1>6, <1>7, <1>8, <1>9, <1>10 DEF Next, Step

LEMMA AInvariance == Spec => []AInv
<1>1. Init => AInv
  BY AInvInit
<1>2. AInv /\ [Next]_vars => AInv'
  BY AInvStep
<1> QED  BY <1>1, <1>2, PTL DEF Spec

\* The state of health check, table, world and watchdog has its types in every run,
\* and no row of the table is younger than the last message of its name.
THEOREM AlertPathTypeCorrect == Spec => []TypeOK
<1>1. AInv => TypeOK
  BY DEF AInv
<1> QED  BY <1>1, AInvariance, PTL

\* A critical incident that the table knew nothing of is escalated at the first run
\* after EscalateAfter, not earlier and once, for any set of checks and any window
\* (escalate_persistent).
THEOREM EscalationInTime == Spec => []EscalatedInTime
<1>1. AInv => EscalatedInTime
  <2> SUFFICES ASSUME AInv, run.at = "done", NEW n \in Critical, trail[n].fresh,
                      trail[n].inc \in 1..(Window + 1)
               PROVE  trail[n].esc = IF trail[n].inc > EscalateAfter THEN 1 ELSE 0
    BY DEF EscalatedInTime
  <2>1. Incident(n)
    BY DEF AInv, Agreed, Incidents, Live
  <2>2. trail[n].esc = IF trail[n].inc - 1 >= EscalateAfter THEN 1 ELSE 0
    BY <2>1 DEF Incident, Due, Age
  <2> QED  BY <2>2, HealthConstants
<1> QED  BY <1>1, AInvariance, PTL

\* Only the judge acts on a run that is to be judged, only the escalation on one
\* that is to be escalated, unless the task is killed.
LEMMA WhoActs ==
  ASSUME AInv, Next
  PROVE  /\ run.at = "judge" => \E ok, works \in BOOLEAN : Judge(ok, works)
         /\ run.at = "escalate" => Kill \/ \E ok \in BOOLEAN : Raise(ok)
<1>1. run.at \in {"judge", "escalate"} => ~Ended /\ run # Idle
  BY IdleIsDue, AInvParts DEF Ended, Firm
<1>3. \A ok \in BOOLEAN : /\ Check(ok) => run.at = "due"
                          /\ Report(ok) => run.at = "post"
                          /\ Remember(ok) => run.at = "record"
                          /\ Raise(ok) => run.at = "escalate"
                          /\ Mark(ok) => run.at = "stamp"
                          /\ Fail(ok) => run.at = "failed"
                          /\ Guard(ok) => Ended
  BY DEF Check, RunChecks, Report, Post, Remember, Record, Raise, Escalate, Mark, Stamp, Fail,
         Callback, Guard
<1>4. \A ok, works \in BOOLEAN : Judge(ok, works) => run.at = "judge"
  BY DEF Judge, Evaluate
<1>5. (Tick => Ended) /\ (Change => run = Idle)
      /\ (Kill => run.at \in {"post", "record", "escalate", "stamp"})
  BY DEF Tick, Change, Kill, Killed
<1> QED  BY <1>1, <1>3, <1>4, <1>5 DEF Next, Step

LEMMA JudgedHourly ==
  ASSUME AInv, NEW found \in BOOLEAN, NEW works \in BOOLEAN, Judge(found, works), calm' > Hour,
         NEW n \in run'.names
  PROVE  n \in run'.send <=> trail[n].since > Hour
<1>0. Hour \in Nat
  BY HealthConstants
<1>1. PICK names : names = Unhealthy(run.res)
  OBVIOUS
<1>2. PICK send : send = IF found THEN names \ Recent ELSE names
  OBVIOUS
<1>3. /\ run.at = "judge" /\ calm' = (IF found THEN calm ELSE 0)
      /\ run' = [run EXCEPT !.at = IF names = {} THEN "escalate" ELSE "post",
                            !.names = names, !.send = send]
  BY <1>1, <1>2 DEF Judge, Evaluate
<1>4. run'.names = names /\ run'.send = send
  BY <1>3, AInvParts DEF RunForm
<1>5. found /\ calm > Hour
  BY <1>0, <1>3
<1>6. n \in Names /\ n \in names
  BY <1>1, <1>4, UnhealthyNames
<1>7. trail[n].since \in Nat
  BY <1>6, TrailIs DEF AInv
<1>8. n \in Recent <=> \E a \in Ages(n, "health_check") : a <= Hour
  BY <1>6 DEF Recent
<1>9. ASSUME trail[n].since <= Hour PROVE n \in Recent
  <2>1. trail[n].since < calm
    BY <1>0, <1>5, <1>7, <1>9, AInvParts, HealthConstants DEF CountsOK
  <2>2. trail[n].since \in Ages(n, "health_check")
    BY <1>3, <1>6, <1>9, <2>1 DEF AInv, Agreed, SentRows
  <2> QED  BY <1>8, <1>9, <2>2
<1>10. ASSUME n \in Recent PROVE trail[n].since <= Hour
  <2>1. PICK a \in Ages(n, "health_check") : a <= Hour
    BY <1>8, <1>10
  <2>2. a \in 0..Hour
    BY <1>0, <2>1, AgesAreNumbers
  <2>3. trail[n].since <= a
    BY <1>6, <2>2, AInvParts DEF Younger
  <2> QED  BY <1>0, <1>7, <2>1, <2>2, <2>3
<1>11. n \in run'.send <=> n \notin Recent
  BY <1>2, <1>4, <1>5, <1>6
<1> QED  BY <1>0, <1>7, <1>9, <1>10, <1>11

\* _evaluate_health sends a name if and only if it was not sent within the last hour,
\* unless within that hour a lookup or an insert failed or the task was killed.
THEOREM NamesSentHourly == Spec => SentHourly
<1>1. AInv /\ [Next]_vars =>
        [run.at = "judge" /\ calm' > Hour =>
           \A n \in run'.names : n \in run'.send <=> trail[n].since > Hour]_hcVars
  <2> SUFFICES ASSUME AInv, [Next]_vars, ~UNCHANGED hcVars, run.at = "judge", calm' > Hour,
                      NEW n \in run'.names
               PROVE  n \in run'.send <=> trail[n].since > Hour
    OBVIOUS
  <2>1. Next
    BY DEF vars
  <2> QED  BY <2>1, WhoActs, JudgedHourly
<1> QED  BY <1>1, AInvariance, PTL DEF Spec, SentHourly

-----------------------------------------------------------------------------
(* The all-clear *)

\* What the answer to an escalation depends on, for one name.
LEMMA OpenIs ==
  ASSUME AInv, run.at = "escalate", calm > Window, NEW n \in Names
  PROVE  /\ trail[n].open =>
              /\ Ages(n, "escalation") # {}
              /\ \/ Ages(n, "recovery") = {}
                 \/ Last(Ages(n, "recovery")) > Last(Ages(n, "escalation"))
         /\ Ages(n, "escalation") # {} =>
              \/ ~(\/ Ages(n, "recovery") = {}
                   \/ Last(Ages(n, "recovery")) > Last(Ages(n, "escalation")))
              \/ trail[n].open
<1>0. PICK E : E = Ages(n, "escalation")
  OBVIOUS
<1>1. PICK R : R = Ages(n, "recovery")
  OBVIOUS
<1>2. /\ \A a \in E : a \in Nat /\ a < calm
      /\ \A b \in R : b \in Nat /\ b < calm
  <2>1. Window \in Nat /\ calm \in Nat
    BY AInvParts, HealthConstants DEF CountsOK
  <2>2. (\A a \in E : a \in Nat /\ a <= Window) /\ (\A b \in R : b \in Nat /\ b <= Window)
    BY <1>0, <1>1, AgesAreNumbers
  <2> QED  BY <2>1, <2>2
<1>3. /\ \A a \in E : a \notin R
      /\ \A a \in E : (\A b \in R : b > a) => trail[n].open
      /\ \A b \in R : (\A a \in E : a > b) => ~trail[n].open
      /\ trail[n].open => E # {}
  <2>1. Distinct(n) /\ Opens(n) /\ (trail[n].open => E # {})
    BY <1>0 DEF AInv, Agreed, Openness, Stamping
  <2> QED  BY <1>0, <1>1, <1>2, <2>1 DEF Distinct, Opens
<1>4. E # {} => Last(E) \in E /\ \A a \in E : Last(E) <= a
  BY <1>2, LastIs
<1>5. R # {} => Last(R) \in R /\ \A b \in R : Last(R) <= b
  BY <1>2, LastIs
<1>6. PICK e : e = Last(E)
  OBVIOUS
<1>7. PICK r : r = Last(R)
  OBVIOUS
<1>8. ASSUME trail[n].open, R # {} PROVE r > e
  <2>1. E # {} /\ e \in E /\ r \in R /\ r # e /\ e \in Nat /\ r \in Nat
    BY <1>2, <1>3, <1>4, <1>5, <1>6, <1>7, <1>8
  <2>2. ~(r < e)
    <3>1. ASSUME r < e PROVE \A a \in E : a > r
      <4>1. \A a \in E : a \in Nat /\ e <= a
        BY <1>2, <1>4, <1>6, <2>1
      <4> QED  BY <2>1, <3>1, <4>1
    <3> QED  BY <1>3, <1>8, <2>1, <3>1
  <2> QED  BY <2>1, <2>2
<1>9. ASSUME E # {}, R = {} \/ r > e PROVE trail[n].open
  <2>1. e \in E /\ e \in Nat
    BY <1>2, <1>4, <1>6, <1>9
  <2>2. ASSUME NEW b \in R PROVE b > e
    <3>1. r \in R /\ r <= b /\ r > e /\ r \in Nat /\ b \in Nat
      BY <1>2, <1>5, <1>7, <1>9, <2>2
    <3> QED  BY <2>1, <3>1
  <2> QED  BY <1>3, <2>1, <2>2
<1> QED  BY <1>0, <1>1, <1>3, <1>6, <1>7, <1>8, <1>9

LEMMA RaisedOnce ==
  ASSUME AInv, NEW ok \in BOOLEAN, Raise(ok), calm' > Window
  PROVE  /\ run'.at = "done" => \A n \in Names : trail'[n].open => n \in run.names
         /\ run'.at = "stamp" => \A n \in run'.out.rec : trail[n].open
<1>0. Window \in Nat /\ run.at = "escalate" /\ RunForm
  BY AInvParts, HealthConstants DEF Raise, Escalate
<1>1. PICK esc : esc = IF ok THEN ToEscalate(run.names) ELSE {}
  OBVIOUS
<1>2. PICK rec : rec = IF ok THEN ToRecover(run.names) ELSE {}
  OBVIOUS
<1>3. /\ run' = [run EXCEPT !.at = IF esc \cup rec = {} THEN "done" ELSE "stamp",
                            !.out = [esc |-> esc, rec |-> rec]]
      /\ calm' = IF ok THEN calm ELSE 0
  BY <1>1, <1>2 DEF Raise, Escalate, Keep
<1>4. run'.at = (IF esc \cup rec = {} THEN "done" ELSE "stamp") /\ run'.out.rec = rec
  BY <1>0, <1>3 DEF RunForm
<1>5. ok /\ calm > Window
  <2>1. ok
    BY <1>0, <1>3
  <2> QED  BY <1>3, <2>1
<1>6. rec = ToRecover(run.names)
  BY <1>2, <1>5
<1>7. ASSUME run'.at = "done", NEW n \in Names, trail'[n].open PROVE n \in run.names
  <2>1. esc = {} /\ rec = {}
    BY <1>4, <1>7
  <2>2. trail[n].open
    <3>1. trail' = [m \in Names |->
              [trail[m] EXCEPT !.esc = IF m \in esc THEN AtMost(@ + 1, 2) ELSE @,
                               !.open = (@ \/ m \in esc) /\ m \notin rec,
                               !.fresh = @ /\ ok]]
      BY <1>1, <1>2 DEF Raise, Escalate
    <3>2. trail[n] \in Trails
      BY TrailIs DEF AInv
    <3>3. trail'[n].open = ((trail[n].open \/ n \in esc) /\ n \notin rec)
      BY <3>1, <3>2 DEF Trails
    <3> QED  BY <1>7, <2>1, <3>3
  <2>3. /\ Ages(n, "escalation") # {}
        /\ \/ Ages(n, "recovery") = {}
           \/ Last(Ages(n, "recovery")) > Last(Ages(n, "escalation"))
    BY <1>0, <1>5, <2>2, OpenIs
  <2>4. n \notin ToRecover(run.names)
    BY <1>6, <2>1
  <2> QED  BY <2>3, <2>4 DEF ToRecover
<1>8. ASSUME NEW n \in rec PROVE trail[n].open
  <2>1. n \in Names
    BY <1>6 DEF ToRecover
  <2>2. /\ Ages(n, "escalation") # {}
        /\ \/ Ages(n, "recovery") = {}
           \/ Last(Ages(n, "recovery")) > Last(Ages(n, "escalation"))
    BY <1>6 DEF ToRecover
  <2> QED  BY <1>0, <1>5, <2>1, <2>2, OpenIs
<1> QED  BY <1>4, <1>7, <1>8

\* An undisturbed run leaves no escalation of a healthy name open, and sends an
\* all-clear only for an open escalation (escalate_persistent).
THEOREM ClearsAnswerEscalations == Spec => ClearedOnce
<1> DEFINE A == /\ run.at = "escalate" /\ run'.at = "done" /\ calm' > Window
                     => \A n \in Names : trail'[n].open => n \in run.names
                /\ run.at = "escalate" /\ run'.at = "stamp" /\ calm' > Window
                     => \A n \in run'.out.rec : trail[n].open
<1>1. AInv /\ [Next]_vars => [A]_hcVars
  <2> SUFFICES ASSUME AInv, [Next]_vars, ~UNCHANGED hcVars, run.at = "escalate", calm' > Window,
                      run'.at \in {"done", "stamp"}
               PROVE  A
    OBVIOUS
  <2>1. Next
    BY DEF vars
  <2>2. ~Kill
    BY DEF Kill, Killed, AInv, RunShape, RunForm
  <2>3. \E ok \in BOOLEAN : Raise(ok)
    BY <2>1, <2>2, WhoActs
  <2> QED  BY <2>3, RaisedOnce
<1> QED  BY <1>1, AInvariance, PTL DEF Spec, ClearedOnce
=============================================================================
