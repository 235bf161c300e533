------------------------------- MODULE AlertPath ------------------------------
(* Who tells the operator that something is wrong: the health check on the host
   (HealthCheck) and the watchdog outside it (Watchdog), over one Slack that
   may refuse any message, for a world in which the host, ClickHouse, the feed,
   the connector and the other checked things go wrong and recover. *)
EXTENDS HealthCheck, Watchdog

CONSTANT MaxChanges  \* bound: changes of the world

ASSUME ChangesAssumption == MaxChanges \in Nat

VARIABLES changes, heard  \* heard: a message about what is worst now was taken

vars == <<hcVars, wdVars, changes, heard>>

\* What is worst now.  A dead host hides the store, a dead store the trades.
Worst == IF ~world.host THEN "host"
         ELSE IF ~world.store THEN "store"
         ELSE IF ~Flowing THEN "trades" ELSE "none"

Init == HCInit /\ WDInit /\ changes = 0 /\ heard = FALSE

\* A message about the given causes is taken in this step, if any.
Told(causes) ==
  heard' = IF Worst' = Worst THEN heard \/ Worst \in causes ELSE FALSE

-----------------------------------------------------------------------------
(* What a message is about, for who reads it *)

\* The names that stand for missing trades, whatever else is in the message.
TradeNames == {"Upbit Producer", "Kafka Connect"}

About(names) == IF names \cap TradeNames # {} THEN {"trades"} ELSE {}

\* The failure of a task names the check that raised.
AboutRaised(res) ==
  IF \E c \in StoreChecks : res[c] = "raised" THEN {"store"} ELSE {}

\* The watchdog: "down" says that nothing is heard of the host and all on it.
AboutLevel(level) ==
  CASE level = "down" -> {"host", "store", "trades"}
    [] level = "degraded" -> {"store"}
    [] level = "stale" -> {"trades"}
    [] level = "ok" -> {}

-----------------------------------------------------------------------------
Check(works) == RunChecks(works) /\ Told({}) /\ UNCHANGED <<wdVars, changes>>

Judge(found, works) ==
  Evaluate(found, works) /\ Told({}) /\ UNCHANGED <<wdVars, changes>>

Report(ok) ==
  Post(ok) /\ Told(IF ok THEN About(run.send) ELSE {}) /\ UNCHANGED <<wdVars, changes>>

Remember(ok) == Record(ok) /\ UNCHANGED <<wdVars, changes, heard>>

Raise(ok) == Escalate(ok) /\ UNCHANGED <<wdVars, changes, heard>>

Mark(ok) == Stamp(ok) /\ UNCHANGED <<wdVars, changes, heard>>

Kill == Killed /\ UNCHANGED <<wdVars, changes, heard>>

Fail(ok) ==
  /\ Callback(ok)
  /\ Told(IF ok THEN AboutRaised(run.res) ELSE {})
  /\ UNCHANGED <<wdVars, changes>>

\* The watchdog runs when the host's run of this tick is over.
Ended == run.at = "done" \/ ~world.host

Guard(ok) ==
  /\ Ended /\ Watch
  /\ ok \/ ShouldSend(Level)
  /\ UNCHANGED <<world, alerts, run, trail, calm, changes>>
  /\ Told(IF ok /\ ShouldSend(Level) THEN AboutLevel(Level) ELSE {}) /\ Pay(ok)

\* A dead host sends no heartbeat; a live one may fail to (the tunnel is down).
Tick ==
  /\ Ended /\ wd.ran
  /\ HCTick
  /\ \/ WDTick(world.host, Pushed(world.store, Flowing))
     \/ WDTick(FALSE, beat)
  /\ UNCHANGED <<changes, heard>>

\* Between two ticks the world changes.
Change ==
  /\ run = Idle /\ ~wd.ran /\ changes < MaxChanges
  /\ changes' = changes + 1
  /\ \/ world' = [world EXCEPT !.host = ~@]
     \/ world' = [world EXCEPT !.store = ~@]
     \/ world' = [world EXCEPT !.feed = ~@]
     \/ \E s \in {"running", "failed", "ghost"} \ {world.conn} :
          world' = [world EXCEPT !.conn = s]
     \/ \E c \in DOMAIN world.rest : \E r \in Outcomes(c) \ {world.rest[c]} :
          world' = [world EXCEPT !.rest[c] = r]
  /\ Told({})
  /\ UNCHANGED <<alerts, run, trail, calm, faults, wdVars>>

Step ==
  \/ \E ok, works \in BOOLEAN : Judge(ok, works)
  \/ \E ok \in BOOLEAN : \/ Check(ok) \/ Report(ok) \/ Remember(ok) \/ Raise(ok)
                         \/ Mark(ok) \/ Fail(ok) \/ Guard(ok)
  \/ Tick

Next == Step \/ Kill \/ Change

\* Both schedulers keep running; the world owes nothing.
Spec == Init /\ [][Next]_vars /\ WF_vars(Step)

-----------------------------------------------------------------------------
(* Properties *)

\* Types; a row of the table is never younger than the last post of its name.
TypeOK ==
  /\ world.host \in BOOLEAN /\ world.store \in BOOLEAN /\ world.feed \in BOOLEAN
  /\ world.conn \in {"running", "failed", "ghost"}
  /\ \A c \in DOMAIN world.rest : world.rest[c] \in Outcomes(c)
  /\ alerts \subseteq [name : Names, age : 0..Window,
                       source : {"health_check", "escalation", "recovery"}]
  /\ run.at \in {"due", "judge", "post", "record", "escalate", "stamp", "failed", "done"}
  /\ run.send \subseteq run.names /\ run.names \subseteq Names /\ run.tries \in 0..1
  /\ beat.age \in 0..(DownAfter + 1) /\ beat.says \in Levels \ {"down"}
  /\ wd.level \in Levels /\ wd.since \in 0..Repeat /\ wd.ran \in BOOLEAN
  /\ calm \in 0..(Window + 1) /\ faults \in 0..MaxFaults /\ changes \in 0..MaxChanges
  /\ \A n \in Names, a \in 0..Hour :
       a \in Ages(n, "health_check") => trail[n].since <= a

\* Whatever is worst - the host, ClickHouse, or trades that do not come - and
\* whatever messages Slack refuses and heartbeats are lost, somebody's message
\* about it is taken or it is not the worst any more.  All-clears and alerts of
\* other checks do not count: a health check that is silent, fails or has no
\* verdict is covered by the watchdog and the failure callback, a refused message
\* by the hourly repetition of both.
OutageHeard ==
  \A cause \in {"host", "store", "trades"} :
    Worst = cause ~> heard \/ Worst # cause

\* A connector that reports RUNNING and publishes nothing is restarted, unless
\* the host or ClickHouse is down and nobody sees it (check_kafka_connect looks
\* at the reported state; _evaluate_health restarts on a minute without trades).
GhostEnds == world.conn # "running" ~> (world.conn = "running" \/ ~world.host \/ ~world.store)
=============================================================================
