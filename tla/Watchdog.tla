------------------------------- MODULE Watchdog -------------------------------
(* The watchdog outside the host: heartbeat-push.sh sends a file from the host
   every few minutes, cdc-watchdog.py on another machine looks at nothing but
   that file, decides a level and reports changes of it and bad levels that
   last.  One tick is one period of both. *)
EXTENDS Naturals

CONSTANTS
  DownAfter,  \* WD_DOWN_SEC in ticks: an older heartbeat means down
  Repeat      \* WD_REPEAT_SEC in ticks: a bad level is reported again

ASSUME WatchdogAssumption == DownAfter \in Nat /\ Repeat \in Nat

VARIABLES
  beat,   \* heartbeat.json: age in ticks and what it says
  wd      \* state.json: level and age of sent_at; has it run in this tick

wdVars == <<beat, wd>>

Levels == {"ok", "stale", "degraded", "down"}

WDInit ==
  /\ beat = [age |-> DownAfter + 1, says |-> "ok"]  \* no file yet judges as an old one
  /\ wd = [level |-> "ok", since |-> Repeat, ran |-> FALSE]

\* heartbeat-push.sh: ClickHouse unreadable, no trades in five minutes, or ok.
\* The file is replaced at once (tmp and mv), so it is never half written.
Verdict(store, flowing) ==
  IF ~store THEN "degraded" ELSE IF ~flowing THEN "stale" ELSE "ok"

Pushed(store, flowing) == [age |-> 0, says |-> Verdict(store, flowing)]

\* judge()
Level == IF beat.age > DownAfter THEN "down" ELSE beat.says

\* Faulty variant: only a change of the level is reported.
ShouldSendOnce(level) == level # wd.level

\* should_send()
ShouldSend(level) ==
  level # wd.level \/ (level # "ok" /\ wd.since >= Repeat)

\* main(): the state is written whether or not Slack took the message.
Watch ==
  /\ ~wd.ran
  /\ wd' = IF ShouldSend(Level)
           THEN [level |-> Level, since |-> 0, ran |-> TRUE]
           ELSE [wd EXCEPT !.ran = TRUE]
  /\ UNCHANGED beat

Older(b, cap) == IF b >= cap THEN cap ELSE b + 1

\* A tick: a heartbeat arrives (new) or the file gets older.
WDTick(arrives, new) ==
  /\ beat' = IF arrives THEN new ELSE [beat EXCEPT !.age = Older(@, DownAfter + 1)]
  /\ wd' = [wd EXCEPT !.ran = FALSE, !.since = Older(@, Repeat)]

=============================================================================
