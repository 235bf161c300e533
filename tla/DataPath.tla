-------------------------------- MODULE DataPath --------------------------------
(* What carries data into ClickHouse besides the producers: the Flink jobs and
   the reprocessing script (Reprocess over StreamJob), the order-book collector
   (OrderbookCollector) and the mirror of the ledger (LedgerMirror).  These
   parts share no state - they meet in topics and tables of their own - so a
   behaviour looks at one of them. *)
EXTENDS Reprocess, OrderbookCollector, LedgerMirror

CONSTANT Parts  \* a subset of {"jobs", "collector", "mirror"}

VARIABLE part

vars == <<sjVars, rpVars, ocVars, lmVars, part>>

\* One job is enough for the parts in which no job moves.
Init ==
  /\ part \in Parts /\ SJInit /\ RPInit /\ OCInit /\ LMInit
  /\ part # "jobs" => kind = CHOOSE k \in Jobs : TRUE

JobStep(step) == part = "jobs" /\ step /\ UNCHANGED <<ocVars, lmVars, part>>
CollectorStep(step) ==
  part = "collector" /\ step /\ UNCHANGED <<sjVars, rpVars, lmVars, part>>
MirrorStep(step) ==
  part = "mirror" /\ step /\ UNCHANGED <<sjVars, rpVars, ocVars, part>>

Step ==
  \/ JobStep(SJStep /\ UNCHANGED rpVars) \/ JobStep(RPStep)
  \/ CollectorStep(OCStep) \/ MirrorStep(LMStep)

Next ==
  \/ JobStep(SJNext /\ UNCHANGED rpVars) \/ JobStep(RPNext)
  \/ CollectorStep(OCNext) \/ MirrorStep(LMNext)

\* Jobs, collector and the Kafka engine keep running; Kafka, the exchange and
\* the operators owe nothing.
Spec == Init /\ [][Next]_vars /\ WF_vars(Step)

-----------------------------------------------------------------------------
(* Properties *)

\* Types and bounds; a job never has a window open that its watermark closed.
TypeOK ==
  /\ SJTypeOK
  /\ rp.at \in {"idle", "waiting", "passed", "short", "differs"}
  /\ rp.job \in {"none", "running", "finished", "failed"}
  /\ coll.at \in {"starting", "connecting", "connected", "backoff"}
  /\ sub \subseteq coll.markets /\ (coll.at # "connected" => sub = {})
  /\ queue \in 0..QueueCap /\ coll.backoff \in 0..MaxBackoff
  /\ read.pos \in 0..read.far /\ read.far <= Len(events)

\* A market listed while the collector runs is received in the end, without a
\* restart of it, whatever answers failed, or fell short and made it reconnect
\* (the refresh of collector.py:207-217 against the whole list of 87-104).
NewMarketHeard == (part = "collector") => <>[](listed \subseteq sub)
=============================================================================
