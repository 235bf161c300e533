----------------------------- MODULE PartitionSwap -----------------------------
(* mysql-trades-partition-swap.sh: the table of trades is replaced by a
   partitioned copy under a running producer - copy day by day, verify, rename,
   copy what came meanwhile - or put back.  Copies are INSERT IGNORE: a row whose
   trade_id or whose trade the target has is passed over.  MY() swallows the
   failure of a statement and the script goes on. *)
EXTENDS Naturals, FiniteSets

CONSTANTS
  Gap,      \* the distance of the new AUTO_INCREMENT (100000)
  MaxTrades, MaxRemoved  \* bounds

ASSUME SwapAssumption == Gap \in Nat \ {0} /\ MaxTrades \in Nat /\ MaxRemoved \in Nat

VARIABLES
  old, new,  \* rows [trade, day, id]; days 1 (past) and 2 (today)
  live,      \* which of them the name crypto_trades stands for
  phase,     \* the script: what it has gone through
  oldmax,    \* $OLDMAX
  next,      \* AUTO_INCREMENT of both tables
  removed,   \* history: trades the retention took
  late,      \* history: trades no copy of the script looks at
  undone     \* history: statements that failed silently, or are still to come

swVars == <<old, new, live, phase, oldmax, next, removed, late, undone>>

SWInit ==
  /\ old = {} /\ new = {} /\ live = "old" /\ phase = "start" /\ oldmax = 0
  /\ next = [old |-> 1, new |-> 1] /\ removed = {} /\ late = {} /\ undone = {}

MaxId(S) == CHOOSE i \in {r.id : r \in S} \cup {0} : \A r \in S : r.id <= i

Trades(S) == {r.trade : r \in S}

\* INSERT IGNORE ... SELECT; both keys are unique.  The key of the new table holds
\* the instant too: rows of one id are taken to be of one instant, the worse case.
Ignoring(target, rows) ==
  target \cup {r \in rows : \A q \in target : q.id # r.id /\ q.trade # r.trade}

\* AUTO_INCREMENT after an insert of given ids.
Counter(n, S) == IF MaxId(S) < n THEN n ELSE MaxId(S) + 1

Live == IF live = "new" THEN new ELSE old

\* What a statement leaves undone: the script does not see it fail.
Mark(statement, done) ==
  undone' = IF done THEN undone \ {statement} ELSE undone \cup {statement}

\* The producer inserts a trade of today, or one of yesterday that a gap fill
\* finds; a trade it sends again gets a row only if the table has none.  Assumed:
\* fewer than Gap rows come between two statements of the script.
Produce(t, d) ==
  /\ t <= Cardinality(Trades(old \cup new) \cup removed) + 1 /\ t <= MaxTrades
  /\ phase = "numbered" => next.old < oldmax + Gap
  /\ phase # "rolled back" /\ t \notin Trades(Live) /\ \A r \in old \cup new : r.trade = t => r.day = d
  /\ IF live = "new"
     THEN new' = new \cup {[trade |-> t, day |-> d, id |-> next.new]} /\ UNCHANGED old
     ELSE old' = old \cup {[trade |-> t, day |-> d, id |-> next.old]} /\ UNCHANGED new
  /\ next' = [next EXCEPT ![live] = @ + 1]
  /\ late' = IF (phase = "past copied" /\ d = 1) \/ phase = "copied back"
             THEN late \cup {t} ELSE late
  /\ UNCHANGED <<live, phase, oldmax, removed, undone>>

\* cleanup_old_trades deletes by the name, until the swap disables it - if that
\* worked - and after a rollback.  It goes by created_at, so the newest row is
\* never among what it takes.
Cleanup(t) ==
  /\ phase \in {"numbered", "renamed", "swapped", "copied back"} => "disable" \in undone
  /\ Cardinality(removed) < MaxRemoved /\ t \in Trades(Live)
  /\ \A r \in Live : r.trade = t => r.id < MaxId(Live)
  /\ IF live = "new"
     THEN new' = {r \in new : r.trade # t} /\ UNCHANGED old
     ELSE old' = {r \in old : r.trade # t} /\ UNCHANGED new
  /\ removed' = removed \cup {t}
  /\ UNCHANGED <<live, phase, oldmax, next, late, undone>>

Day(S, d) == {r \in S : r.day = d}

\* copy, one day after the other, each under a snapshot of its own.
Copy(d, done) ==
  /\ IF d = 1 THEN phase \in {"start", "copied"} ELSE phase = "past copied"
  /\ new' = IF done THEN Ignoring(new, Day(old, d)) ELSE new
  /\ next' = [next EXCEPT !.new = Counter(@, new')]
  /\ phase' = IF d = 1 THEN "past copied" ELSE "copied"
  /\ late' = IF d = 1 /\ done THEN {} ELSE late
  /\ Mark(IF d = 1 THEN "copy past" ELSE "copy today", done)
  /\ UNCHANGED <<old, live, oldmax, removed>>

\* verify counts: today the old table may have more rows, on other days the new.
Verify ==
  /\ phase = "copied"
  /\ LET n(S, d) == Cardinality(Day(S, d))
     IN  n(new, 1) >= n(old, 1) /\ n(old, 2) >= n(new, 2)
  /\ phase' = "verified" /\ UNCHANGED <<old, new, live, oldmax, next, removed, late, undone>>

\* swap starts, and again after a RENAME that failed.
Starts == (phase = "verified" \/ (phase = "swapped" /\ live = "old")) /\ old # {}

\* Faulty variant: the new table counts on right behind the old one.
NumberNoGap(failed) ==
  /\ Starts /\ phase' = "numbered"
  /\ oldmax' = MaxId(old)
  /\ next' = IF "number" \in failed THEN next ELSE [next EXCEPT !.new = oldmax' + 1]
  /\ undone' = (undone \ {"disable", "number"}) \cup failed
  /\ UNCHANGED <<old, new, live, removed, late>>

\* The event is disabled, OLDMAX read - of an empty table it is no number, and the
\* script ends -, the new table numbered beyond it.
Number(failed) ==
  /\ Starts /\ phase' = "numbered"
  /\ oldmax' = MaxId(old)
  /\ next' = IF "number" \in failed THEN next ELSE [next EXCEPT !.new = oldmax' + Gap]
  /\ undone' = (undone \ {"disable", "number"}) \cup failed
  /\ UNCHANGED <<old, new, live, removed, late>>

Rename(done) ==
  /\ phase = "numbered" /\ phase' = "renamed"
  /\ live' = IF done THEN "new" ELSE live
  /\ undone' = undone \cup {"delta", "back"}
  /\ UNCHANGED <<old, new, oldmax, next, removed, late>>

\* Rows beyond the largest copied id, of which the new rows are no part.
Delta == {r \in old : r.id > MaxId({q \in new : q.id <= oldmax})}

\* Without the rename there is no table to copy from.
CopyDelta(done) ==
  /\ phase = "renamed" /\ phase' = "swapped" /\ (done => live = "new")
  /\ new' = IF done THEN Ignoring(new, Delta) ELSE new
  /\ next' = [next EXCEPT !.new = Counter(@, new')]
  /\ Mark("delta", done)
  /\ UNCHANGED <<old, live, oldmax, removed, late>>

\* rollback: what the new table got is copied, then the names are put back.
CopyBack(done) ==
  /\ phase \in {"renamed", "swapped"} /\ phase' = "copied back" /\ (done => live = "new")
  /\ old' = IF done THEN Ignoring(old, {r \in new : r.id > MaxId(old)}) ELSE old
  /\ next' = [next EXCEPT !.old = Counter(@, old')]
  /\ Mark("back", done)
  /\ UNCHANGED <<new, live, oldmax, removed, late>>

RenameBack(done) ==
  /\ phase = "copied back" /\ phase' = "rolled back"
  /\ live' = IF done THEN "old" ELSE live
  /\ UNCHANGED <<old, new, oldmax, next, removed, late, undone>>

SWNext ==
  \/ \E t \in 1..MaxTrades : Cleanup(t) \/ \E d \in 1..2 : Produce(t, d)
  \/ \E failed \in SUBSET {"disable", "number"} : Number(failed)
  \/ Verify
  \/ \E done \in BOOLEAN :
       \/ \E d \in 1..2 : Copy(d, done)
       \/ Rename(done) \/ CopyDelta(done) \/ CopyBack(done) \/ RenameBack(done)

-----------------------------------------------------------------------------
(* Properties *)

\* The statements whose silent failure may cost the live table trades.  As long as
\* the names are the old ones nothing can, whatever failed; after a rollback the
\* delta no longer matters, nor the copies.
Needed ==
  IF live = "new" THEN {"copy past", "copy today", "number", "delta"}
  ELSE IF phase = "swapped" THEN {} ELSE {"number", "back"}

\* The swap and its rollback lose no trade: the live table has every one that was
\* inserted and that the retention has not taken, unless a statement it needs failed
\* behind the || true of mysql-trades-partition-swap.sh:6 - disabling the retention
\* and the two renames are not among them.  Excused too: a trade of a past day that
\* came after the copy of its day and before the last one, when rows that the
\* retention took hide it from verify; and what came between the two statements of
\* a rollback (mysql-trades-partition-swap.sh:92-93).
SwapLosesNothing ==
  phase \in {"swapped", "rolled back"} /\ undone \cap Needed = {} =>
    Trades(old \cup new) \ (removed \cup late) \subseteq Trades(Live)
=============================================================================
