------------------------------ MODULE LabelPoller ------------------------------
(* poll_market_state.py, run by cron: the state of every listed market, compared
   with the state file of the last run; changes and disappearances become rows of
   upbit_market_state_events, whose last row per market is what readers take for
   its state. *)
EXTENDS Naturals, FiniteSets

CONSTANTS
  Codes,  \* markets
  MaxMoves, MaxBreaks  \* bounds: changes at the exchange, failures

ASSUME PollerAssumption == MaxMoves \in Nat /\ MaxBreaks \in Nat

VARIABLES
  real,    \* the exchange: a state per market, "none" when it is not listed
  book,    \* the last row of each market in the table, "none" without one
  file,    \* the state file: market -> state; Torn when it cannot be read
  poll,    \* the run: step, what it saw, the rows it made
  astray,  \* history: markets whose last row the state file may not know of
  moves, breaks

lbVars == <<real, book, file, poll, astray, moves, breaks>>

States == {"active", "suspended"}

Torn == [c \in {} |-> "active"]

Asleep == [at |-> "cron", cur |-> Torn, rows |-> Torn, all |-> FALSE]

LBInit ==
  /\ real \in [Codes -> States \cup {"none"}]
  /\ book = [c \in Codes |-> "none"] /\ file = Torn /\ poll = Asleep
  /\ astray = {} /\ moves = 0 /\ breaks = 0

\* A market is listed, changes its state or disappears.
Move(c) ==
  /\ moves < MaxMoves /\ moves' = moves + 1
  /\ \E s \in (States \cup {"none"}) \ {real[c]} : real' = [real EXCEPT ![c] = s]
  /\ UNCHANGED <<book, file, poll, astray, breaks>>

Break == breaks < MaxBreaks /\ breaks' = breaks + 1

Listed == {c \in Codes : real[c] # "none"}

\* snapshot(): of the listed markets those that answered before the timeout; the
\* rows: new and changed ones, and "gone" for every market of the file that is
\* not among them.  Nothing at all ends the run.
Snapshot(got) ==
  /\ poll.at = "cron" /\ got \subseteq Listed /\ got # {}
  /\ LET cur == [c \in got |-> real[c]]
         changed == {c \in got : c \notin DOMAIN file \/ file[c] # cur[c]}
         gone == DOMAIN file \ got
     IN  poll' = [at |-> "insert", cur |-> cur, all |-> got = Listed,
                  rows |-> [c \in changed \cup gone |-> IF c \in gone THEN "gone" ELSE cur[c]]]
  /\ IF got = Listed THEN UNCHANGED breaks ELSE Break
  /\ UNCHANGED <<real, book, file, astray, moves>>

Labelled(r) == [c \in Codes |-> IF c \in DOMAIN r THEN r[c] ELSE book[c]]

Write ==
  /\ poll.at = "insert"
  /\ book' = Labelled(poll.rows)
  /\ poll' = [poll EXCEPT !.at = "save"] /\ astray' = astray \ DOMAIN poll.rows
  /\ UNCHANGED <<real, file, moves, breaks>>

\* Faulty variant: the state file is written before the insert.
WriteFailsAfterSave ==
  /\ poll.at = "insert" /\ Break /\ poll' = Asleep
  /\ file' = poll.cur
  /\ UNCHANGED <<real, book, astray, moves>>

\* The insert fails: the state file stays, the next run makes the rows again.
WriteFails ==
  /\ poll.at = "insert" /\ Break /\ poll' = Asleep
  /\ UNCHANGED <<real, book, file, astray, moves>>

\* The state file is written after the insert.
Save ==
  /\ poll.at = "save"
  /\ file' = poll.cur
  /\ poll' = [poll EXCEPT !.at = "saved"]
  /\ UNCHANGED <<real, book, astray, moves, breaks>>

\* The run dies before the file is written, or in the middle of it: an unreadable
\* file counts as none.
SaveFails ==
  /\ poll.at = "save" /\ Break /\ poll' = Asleep
  /\ \/ UNCHANGED file /\ astray' = astray \cup DOMAIN poll.rows
     \/ file' = Torn /\ astray' = astray \cup {c \in Codes : book[c] \in States}
  /\ UNCHANGED <<real, book, moves>>

\* The heartbeat, and the wait for cron.
Sleep ==
  /\ poll.at = "saved" /\ poll' = Asleep
  /\ UNCHANGED <<real, book, file, astray, moves, breaks>>

LBNext ==
  \/ \E c \in Codes : Move(c)
  \/ \E got \in SUBSET Codes : Snapshot(got)
  \/ Write \/ WriteFails \/ Save \/ SaveFails \/ Sleep

-----------------------------------------------------------------------------
(* Properties *)

\* After a run that saw every market the table says of each what the run saw, and
\* of no other that it is alive: what a failed insert kept back or a partial
\* snapshot got wrong is made good by the next run.  Excused until its next row: a
\* market whose row was written by a run that could not write the file, and, when
\* that run left the file torn, every market that was alive in the table: the next
\* run has no file to find it gone by.
LabelsCurrent ==
  poll.at = "saved" /\ poll.all =>
    \A c \in Codes \ astray :
      IF c \in DOMAIN poll.cur THEN book[c] = poll.cur[c] ELSE book[c] \notin States
=============================================================================
