------------------------------- MODULE Operations -------------------------------
(* What runs beside the data path by the clock or by hand: backups (BackupChain),
   the daily verdicts (DailyRuns), the notifiers (Notifiers), a label poller
   (LabelPoller), the swap of the trade table (PartitionSwap) and the onboarding
   of a table (TableOnboarding).  They share no state, so a behaviour looks at one
   of them. *)
EXTENDS BackupChain, DailyRuns, Notifiers, LabelPoller, PartitionSwap, TableOnboarding

CONSTANT Parts  \* which of them the instance looks at

VARIABLE part

rest == <<bkVars, drVars, ntVars, lbVars, swVars, obVars>>
vars == <<rest, part>>

Init ==
  /\ part \in Parts /\ BKInit /\ DRInit /\ NTInit /\ LBInit /\ SWInit /\ OBInit
  /\ part # "runs" => kinds = "daily" /\ data = [traded |-> {}, bad |-> {}, dup |-> FALSE, lost |-> {}]
  /\ part # "notifier" => rule = "market"
  /\ part # "labels" => \A c \in Codes : real[c] = "none"
  /\ part # "onboarding" => \A k \in Keys : source[k] = 0

\* A step of one part leaves the others alone.
BackupStep ==
  part = "backup" /\ BKNext /\ UNCHANGED <<drVars, ntVars, lbVars, swVars, obVars, part>>
RunStep ==
  part = "runs" /\ DRNext /\ UNCHANGED <<bkVars, ntVars, lbVars, swVars, obVars, part>>
NotifierStep ==
  part = "notifier" /\ NTNext /\ UNCHANGED <<bkVars, drVars, lbVars, swVars, obVars, part>>
LabelStep ==
  part = "labels" /\ LBNext /\ UNCHANGED <<bkVars, drVars, ntVars, swVars, obVars, part>>
SwapStep ==
  part = "swap" /\ SWNext /\ UNCHANGED <<bkVars, drVars, ntVars, lbVars, obVars, part>>
OnboardingStep ==
  part = "onboarding" /\ OBNext /\ UNCHANGED <<bkVars, drVars, ntVars, lbVars, swVars, part>>

Next == BackupStep \/ RunStep \/ NotifierStep \/ LabelStep \/ SwapStep \/ OnboardingStep

Spec == Init /\ [][Next]_vars
=============================================================================
