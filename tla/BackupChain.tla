------------------------------ MODULE BackupChain ------------------------------
(* The DAG backup_daily: a backup a day in the staging directory - a full one
   when the latest is FullEvery days old, otherwise an increment over the latest
   backup - then room on the remote, rsync without deletion, the retention on
   both sides and a check.  Directories are what the shell sees: a name; that a
   directory is incomplete shows only when it is restored or built upon. *)
EXTENDS Naturals, FiniteSets

CONSTANTS
  FullEvery,    \* FULL_EVERY_DAYS
  KeepFulls,    \* FULL_KEEP_REMOTE
  TaskRetries,  \* default_args["retries"]
  MaxDays, MaxMishaps  \* bounds

ASSUME BackupAssumption ==
  /\ FullEvery \in Nat \ {0} /\ KeepFulls \in Nat \ {0} /\ TaskRetries \in Nat
  /\ MaxDays \in Nat /\ MaxMishaps \in Nat

VARIABLES
  day, dag,       \* today; the run of the day: task and retries of it
  local, remote,  \* directories: [id, chain, whole]; a chain ends in the id itself
  mishaps

bkVars == <<day, dag, local, remote, mishaps>>

Task(t) == [task |-> t, tries |-> 0]

BKInit == day = 1 /\ dag = Task("backup") /\ local = {} /\ remote = {} /\ mishaps = 0

Fulls(S) == {b.id.day : b \in {c \in S : c.id.full}}

Newest(D) == CHOOSE d \in D : \A e \in D : e <= d

\* The last n of them (sort | tail -n).
LastOf(n, D) == {d \in D : Cardinality({e \in D : e > d}) < n}

\* Increments older than the latest full backup, and fulls that are not kept.
Outdated(S, keep) ==
  {b \in S : IF b.id.full THEN b.id.day \notin keep
             ELSE keep # {} /\ b.id.day < Newest(keep)}

Restorable(b, S) == \A i \in b.chain : \E c \in S : c.id = i /\ c.whole

\* The day of the newest restore point in S, 0 when there is none.
Point(S) == Newest({0} \cup {b.id.day : b \in {c \in S : Restorable(c, S)}})

-----------------------------------------------------------------------------
(* Tasks *)

\* What the run of today makes: a full backup, or an increment over _latest_backup_since.
FullDue == Fulls(local) = {} \/ day - Newest(Fulls(local)) >= FullEvery

Base ==
  LET full == Newest(Fulls(local))
      incr == {b.id.day : b \in {c \in local : ~c.id.full /\ c.id.day >= full}}
  IN  CHOOSE b \in local :
        b.id = IF incr = {} THEN [full |-> TRUE, day |-> full]
               ELSE [full |-> FALSE, day |-> Newest(incr)]

Today == [full |-> FullDue, day |-> day]

Dir(whole) ==
  [id |-> Today, whole |-> whole,
   chain |-> {Today} \cup (IF FullDue THEN {} ELSE Base.chain)]

Exists == \E b \in local : b.id = Today

\* Nothing can be built upon an incomplete base.
Buildable == IF FullDue THEN TRUE ELSE Base.whole

\* A failed task is tried again; in the end its downstream does not run, except
\* for verify_remote_in_sync (all_done).
FailTask == dag' = IF dag.tries < TaskRetries THEN [dag EXCEPT !.tries = @ + 1] ELSE Task("verify")

Mishap == mishaps < MaxMishaps /\ mishaps' = mishaps + 1

\* _clickhouse_backup; a directory of that name counts as done.  The retry of a
\* failed full backup is an increment over its remains.
Backup ==
  /\ dag.task = "backup"
  /\ IF Exists THEN UNCHANGED local ELSE Buildable /\ local' = local \cup {Dir(TRUE)}
  /\ dag' = Task("export") /\ UNCHANGED <<day, remote, mishaps>>

\* ClickHouse fails before it starts, dies at work, or finishes after the
\* client gave up.
BackupFails ==
  /\ dag.task = "backup" /\ ~Exists
  /\ IF Buildable
     THEN Mishap /\ (local' = local \/ \E w \in BOOLEAN : local' = local \cup {Dir(w)})
     ELSE UNCHANGED <<local, mishaps>>
  /\ FailTask /\ UNCHANGED <<day, remote>>

\* The Parquet export, joined with the backup.
Export ==
  /\ dag.task = "export"
  /\ dag' = Task("free") /\ UNCHANGED <<day, local, remote, mishaps>>

\* Faulty variant: only the newest local full backup is spared.
FreedButNewest == {b \in remote : b.id.full /\ b.id.day \notin LastOf(1, Fulls(local))}

\* Before the transfer the remote keeps the newest fulls of both sides by name,
\* and all increments.
Freed == {b \in remote : b.id.full /\ b.id.day \notin LastOf(KeepFulls, Fulls(local) \cup Fulls(remote))}

Free ==
  /\ dag.task = "free" /\ remote' = remote \ Freed
  /\ dag' = Task("sync") /\ UNCHANGED <<day, local, mishaps>>

\* What rsync would still transfer.
Pending == local \ remote

Sync ==
  /\ dag.task = "sync"
  /\ remote' = {b \in remote : \A c \in local : c.id # b.id} \cup local
  /\ dag' = Task("retain") /\ UNCHANGED <<day, local, mishaps>>

\* Some directories have arrived, of others a part; rsync takes up there again.
SyncFails ==
  /\ dag.task = "sync" /\ Pending # {} /\ Mishap
  /\ \E done \in SUBSET Pending : \E begun \in SUBSET (Pending \ done) :
       remote' = {b \in remote : \A c \in done : c.id # b.id} \cup done
                 \cup {[b EXCEPT !.whole = FALSE] : b \in begun}
  /\ FailTask /\ UNCHANGED <<day, local>>

Retain ==
  /\ dag.task = "retain"
  /\ remote' = remote \ Outdated(remote, LastOf(KeepFulls, Fulls(remote)))
  /\ dag' = Task("prune") /\ UNCHANGED <<day, local, mishaps>>

Prune ==
  /\ dag.task = "prune"
  /\ local' = local \ Outdated(local, LastOf(1, Fulls(local)))
  /\ dag' = Task("verify") /\ UNCHANGED <<day, remote, mishaps>>

\* One of the steps that need the network or the rights to delete.
StepFails ==
  /\ dag.task \in {"export", "free", "retain", "prune"} /\ Mishap
  /\ FailTask /\ UNCHANGED <<day, local, remote>>

\* The check changes nothing; the next day comes.
NextDay ==
  /\ dag.task = "verify" /\ day < MaxDays
  /\ day' = day + 1 /\ dag' = Task("backup") /\ UNCHANGED <<local, remote, mishaps>>

BKNext ==
  \/ Backup \/ BackupFails \/ Export \/ Free \/ Sync \/ SyncFails \/ Retain \/ Prune
  \/ StepFails \/ NextDay

-----------------------------------------------------------------------------
(* Properties *)

\* Full backups the remote has no complete copy of.
Missing == {d \in Fulls(local \cup remote) : \A b \in remote : b.id.day = d => ~(b.id.full /\ b.whole)}

\* No step of the chain costs the newest restore point: not of both sides
\* together, and not of the remote alone unless it lacks as many full backups as
\* it keeps (free_remote_space counts names: when the transfer of a full backup
\* failed until the next one was due, it frees the last one that is complete).
PointKept ==
  [][/\ Point(local' \cup remote') >= Point(local \cup remote)
     /\ Cardinality(Missing) < KeepFulls => Point(remote') >= Point(remote)]_bkVars
=============================================================================
