---------------------------- MODULE TradeIngest ----------------------------
(***************************************************************************)
(* producer/producer.py: Upbit trades from the WebSocket, and from REST    *)
(* gap fills, into the MySQL ledger crypto_trades.                         *)
(*                                                                         *)
(* Time is counted in trades: trade t is the one the exchange makes at     *)
(* time t, so 1..now are the trades made so far and a window of times is a *)
(* window of trades.  All markets share one connection, one buffer and one *)
(* loop, so markets appear only as the order in which trades arrive.       *)
(***************************************************************************)
EXTENDS Integers, FiniteSets, SequencesExt

CONSTANTS Margin,      \* GAPFILL_MARGIN_MS
          StartupMax,  \* GAPFILL_STARTUP_MAX_MS
          Reorder,     \* how far a trade may overtake another on its way
          BatchSize,   \* BATCH_SIZE
          MaxBatches,  \* MAX_BATCHES_PER_FLUSH
          MaxTime,     \* bound: trades made
          MaxFaults    \* bound: disconnections, failures, crashes, restarts

ASSUME IngestAssumption ==
  /\ Margin \in Nat /\ StartupMax \in Nat /\ Reorder \in Nat
  /\ BatchSize \in Nat \ {0} /\ MaxBatches \in Nat \ {0}
  /\ MaxTime \in Nat \ {0} /\ MaxFaults \in Nat

VARIABLES now,          \* the last trade made
          conn,         \* "down" (no process), "off" (no WebSocket), "on"
          wire,         \* trades sent on the connection, not yet received
          buffer,       \* MySQLWriter.buffer
          db,           \* rows of crypto_trades
          lastRow,      \* time of the row with the largest trade_id, 0: none
          lastEvent,    \* last_event_ms of subscribe_upbit, 0: None
          disconnected, \* disconnected_ms, 0: None
          startup,      \* pending_startup_fill, {}: None
          fills,        \* running gap_fill tasks
          faults,       \* faults so far
          forsaken      \* history: trades a named step has given up on

table == <<db, lastRow>>
session == <<lastEvent, disconnected, startup>>
vars == <<now, conn, wire, buffer, db, lastRow, lastEvent, disconnected,
          startup, fills, faults, forsaken>>

Made == 1..now
Times(lo, hi) == {t \in Made : lo <= t /\ t < hi}

\* What a task still has to bring: its window, or the rows REST returned.
Window(f) == IF f.fetched THEN f.rows ELSE Times(f.lo, f.hi)
Filling == UNION {Window(f) : f \in fills}

Init ==
  /\ now = 1 /\ conn = "down"
  /\ \E old \in SUBSET {1} :
       /\ db = old
       /\ lastRow = Cardinality(old)
  /\ wire = {} /\ buffer = << >> /\ fills = {}
  /\ lastEvent = 0 /\ disconnected = 0 /\ startup = {}
  /\ faults = 0 /\ forsaken = {}

Fault == faults < MaxFaults /\ faults' = faults + 1
NoFault == UNCHANGED faults

-----------------------------------------------------------------------------
(* MySQLWriter *)

\* Where a sequence of rows has one that the table has not.
NewRows(rows) == {i \in DOMAIN rows : rows[i] \notin db}

\* Faulty variant: the id of the last row is taken for its time.
InsertRowsById(rows) ==
  db' = db \cup ToSet(rows) /\ lastRow' = lastRow + Cardinality(NewRows(rows))

\* INSERT IGNORE of rows in order; only new rows get a trade_id.
InsertRows(rows) ==
  /\ db' = db \cup ToSet(rows)
  /\ lastRow' = IF NewRows(rows) = {} THEN lastRow ELSE rows[Max(NewRows(rows))]

Taken(n) == SubSeq(buffer, 1, n)
Left(n) == SubSeq(buffer, n + 1, Len(buffer))
UpTo(n) == IF n < Len(buffer) THEN n ELSE Len(buffer)

\* flush() succeeds: at most MaxBatches batches.
FlushOk ==
  LET n == UpTo(MaxBatches * BatchSize)
  IN  InsertRows(Taken(n)) /\ buffer' = Left(n)

\* Faulty variant: the failed batch is not put back.
FlushRequeueLost ==
  \E b \in 0..(MaxBatches - 1) :
    /\ b * BatchSize < Len(buffer)
    /\ InsertRows(Taken(b * BatchSize))
    /\ buffer' = Left(UpTo((b + 1) * BatchSize))

\* Batch b + 1 fails, before or after the server committed it: it is put back
\* at the front and the flush stops.
FlushRequeue ==
  \E b \in 0..(MaxBatches - 1) :
    /\ b * BatchSize < Len(buffer)
    /\ \E n \in {b * BatchSize, UpTo((b + 1) * BatchSize)} : InsertRows(Taken(n))
    /\ buffer' = Left(b * BatchSize)

Flush(bad) == IF bad THEN FlushRequeue ELSE FlushOk

-----------------------------------------------------------------------------
(* The exchange and the connection *)

\* A process that may not fill the past and has not connected yet sees nothing.
Unattended == conn = "off" /\ startup = {} /\ disconnected = 0

Tick ==
  /\ now < MaxTime
  /\ now' = now + 1
  /\ wire' = IF conn = "on" THEN wire \cup {now'} ELSE wire
  /\ forsaken' = IF Unattended THEN forsaken \cup {now'} ELSE forsaken
  /\ UNCHANGED <<conn, buffer, table, session, fills, faults>>

\* A trade message is parsed and buffered.
Receive(t) ==
  /\ conn = "on" /\ t \in wire
  /\ \A w \in wire : t - w <= Reorder
  /\ wire' = wire \ {t}
  /\ buffer' = Append(buffer, t)
  /\ lastEvent' = IF lastEvent < t THEN t ELSE lastEvent
  /\ UNCHANGED <<now, conn, table, disconnected, startup, fills, faults, forsaken>>

\* The flush every BATCH_INTERVAL_SEC of the receive loop.
PeriodicFlush(bad) ==
  /\ conn = "on" /\ buffer # << >>
  /\ Flush(bad)
  /\ IF bad THEN Fault ELSE NoFault
  /\ UNCHANGED <<now, conn, wire, session, fills, forsaken>>

\* Where the reconnect fill would start.
FillFromLate(e, d) == d - Margin                    \* faulty variant
FillFrom(e, d) == (IF e # 0 /\ e < d THEN e ELSE d) - Margin

\* ConnectionClosed or any exception: the time is noted, the buffer flushed.
\* Trades still on the wire are left to the fill that FillFrom describes.
Drop(bad) ==
  /\ conn = "on" /\ Fault
  /\ conn' = "off" /\ wire' = {}
  /\ disconnected' = now
  /\ forsaken' = forsaken \cup
       {t \in wire \ (db \cup Filling) : t < FillFrom(lastEvent, now)}
  /\ Flush(bad)
  /\ UNCHANGED <<now, lastEvent, startup, fills>>

\* flush() raises inside the receive loop (reconnect() gives up after 30
\* attempts): the popped batch, rows n + 1 to m, is gone.  The loop takes it for
\* a disconnection, and the flush after it gets up to row k.
FlushRaises ==
  /\ conn = "on" /\ Fault
  /\ conn' = "off" /\ wire' = {}
  /\ disconnected' = now
  /\ \E b, c \in 0..MaxBatches :
       LET n == b * BatchSize
           m == UpTo(n + BatchSize)
           k == UpTo(m + c * BatchSize)
       IN  /\ b < MaxBatches /\ n < Len(buffer)
           /\ InsertRows(Taken(n) \o SubSeq(buffer, m + 1, k))
           /\ buffer' = Left(k)
           /\ forsaken' = forsaken \cup
                {t \in (wire \cup ToSet(SubSeq(buffer, n + 1, m)))
                          \ (db' \cup Filling) : t < FillFrom(lastEvent, now)}
  /\ UNCHANGED <<now, lastEvent, startup, fills>>

\* A connection attempt fails; disconnected_ms is overwritten.
FailConnect(bad) ==
  /\ conn = "off" /\ Fault
  /\ disconnected' = now
  /\ forsaken' = forsaken \cup
       IF disconnected # 0 /\ startup = {}
       THEN Times(FillFrom(lastEvent, disconnected), FillFrom(lastEvent, now)) \ db
       ELSE {}
  /\ Flush(bad)
  /\ UNCHANGED <<now, conn, wire, lastEvent, startup, fills>>

FillTask(lo, hi) == [lo |-> lo, hi |-> hi, fetched |-> FALSE, rows |-> {}]

FillToNow == now                                     \* faulty variant
FillTo == now + Margin

\* Connected and subscribed: the startup fill has precedence.
Connect ==
  /\ conn = "off"
  /\ conn' = "on"
  /\ \/ /\ startup # {}
        /\ fills' = fills \cup {FillTask(lo, FillTo) : lo \in startup}
        /\ startup' = {}
        /\ UNCHANGED disconnected
     \/ /\ startup = {} /\ disconnected # 0
        /\ fills' = fills \cup {FillTask(FillFrom(lastEvent, disconnected), FillTo)}
        /\ disconnected' = 0
        /\ UNCHANGED startup
     \/ /\ startup = {} /\ disconnected = 0
        /\ UNCHANGED <<fills, startup, disconnected>>
  /\ UNCHANGED <<now, wire, buffer, table, lastEvent, faults, forsaken>>

-----------------------------------------------------------------------------
(* gap_fill *)

\* fetch_gap_rows returns; the pages of some markets may have failed.
FetchGap(f, missed) ==
  /\ f \in fills /\ ~f.fetched
  /\ missed \subseteq Window(f) \ db
  /\ IF missed = {} THEN NoFault ELSE Fault
  /\ fills' = (fills \ {f}) \cup
       {[f EXCEPT !.fetched = TRUE, !.rows = Window(f) \ missed]}
  /\ forsaken' = forsaken \cup missed
  /\ UNCHANGED <<now, conn, wire, buffer, table, session>>

\* insert_direct: a batch that fails is dropped, and all later ones when the
\* reconnection raises.  Rows come market by market, newest first.
InsertGap(f, failed) ==
  /\ f \in fills /\ f.fetched
  /\ failed \subseteq f.rows \ db
  /\ IF failed = {} THEN NoFault ELSE Fault
  /\ fills' = fills \ {f}
  /\ forsaken' = forsaken \cup failed
  /\ db' = db \cup (f.rows \ failed)
  /\ IF db' = db THEN UNCHANGED lastRow ELSE lastRow' \in db' \ db
  /\ UNCHANGED <<now, conn, wire, buffer, session>>

-----------------------------------------------------------------------------
(* Start, stop and crash *)

\* What the next start will not ask for again.
Behind(row, s) == {t \in s : t < row - Margin}

ProcessEnds ==
  /\ conn # "down" /\ Fault
  /\ conn' = "down" /\ wire' = {} /\ buffer' = << >> /\ fills' = {}
  /\ lastEvent' = 0 /\ disconnected' = 0 /\ startup' = {}
  /\ UNCHANGED now

\* The process is killed, or flush() raises outside the loop's try.
Crash ==
  /\ ProcessEnds
  /\ forsaken' = forsaken \cup
       Behind(lastRow, (wire \cup ToSet(buffer) \cup Filling) \ db)
  /\ UNCHANGED table

\* SIGTERM: close() flushes the whole buffer; running gap fills are cancelled.
Stop ==
  /\ ProcessEnds
  /\ InsertRows(buffer)
  /\ forsaken' = forsaken \cup Behind(lastRow', (wire \cup Filling) \ db')

\* Faulty variant: the fill starts at the last row itself.
StartFromNoMargin == lastRow + 1
StartFrom == lastRow - Margin

\* subscribe_upbit begins: the startup fill is planned, or skipped when the
\* table is empty or the hole too long, or because last_event_ms could not be
\* read, whatever the table holds.
Start(known) ==
  /\ conn = "down"
  /\ conn' = "off"
  /\ IF known THEN NoFault ELSE Fault
  /\ \/ /\ known /\ lastRow # 0 /\ now - lastRow <= StartupMax
        /\ startup' = {StartFrom}
        /\ UNCHANGED forsaken
     \/ /\ ~known \/ lastRow = 0 \/ now - lastRow > StartupMax
        /\ startup' = {}
        /\ forsaken' = forsaken \cup (Made \ db)
  /\ UNCHANGED <<now, wire, buffer, table, lastEvent, disconnected, fills>>

-----------------------------------------------------------------------------
Next ==
  \/ Tick \/ Connect \/ Stop \/ Crash \/ FlushRaises
  \/ \E known \in BOOLEAN : Start(known)
  \/ \E t \in wire : Receive(t)
  \/ \E bad \in BOOLEAN : PeriodicFlush(bad) \/ Drop(bad) \/ FailConnect(bad)
  \/ \E f \in fills : \E s \in SUBSET Window(f) : FetchGap(f, s) \/ InsertGap(f, s)

Spec == Init /\ [][Next]_vars

\* The loop keeps receiving, flushing and reconnecting; tasks run to their
\* end; the container is restarted (restart: unless-stopped).
Fairness ==
  /\ WF_vars(Start(TRUE)) /\ WF_vars(Connect) /\ WF_vars(PeriodicFlush(FALSE))
  /\ WF_vars(\E t \in wire : Receive(t))
  /\ WF_vars(\E f \in fills : FetchGap(f, {}) \/ InsertGap(f, {}))

FairSpec == Spec /\ Fairness

-----------------------------------------------------------------------------
(* Properties *)

FillTasks ==
  [lo : (-Margin)..MaxTime, hi : 1..(MaxTime + Margin), fetched : BOOLEAN,
   rows : SUBSET (1..MaxTime)]

\* Types of all variables.
TypeOK ==
  /\ now \in 1..MaxTime /\ conn \in {"down", "off", "on"}
  /\ wire \in SUBSET Made /\ buffer \in Seq(Made) /\ db \in SUBSET Made
  /\ lastRow \in {0} \cup db /\ (lastRow = 0) = (db = {})
  /\ lastEvent \in 0..now /\ disconnected \in 0..now
  /\ startup \in SUBSET ((-Margin)..MaxTime) /\ Cardinality(startup) <= 1
  /\ fills \in SUBSET FillTasks
  /\ faults \in 0..MaxFaults /\ forsaken \in SUBSET Made

\* What the next connection or start is going to ask REST for.
Owed ==
  CASE conn = "on" -> {}
    [] conn = "down" -> Times(StartFrom, now + 1)
    [] conn = "off" /\ startup # {} -> UNION {Times(lo, now + 1) : lo \in startup}
    [] conn = "off" /\ startup = {} /\ disconnected # 0 ->
         Times(FillFrom(lastEvent, disconnected), now + 1)
    [] OTHER -> {}

\* Every trade is in the ledger, on its way to it, or inside a window that a
\* running or future gap fill asks for, except those that a lossy step gave up
\* by name (among them all of a stop at whose end last_event_ms is not read, the
\* table is empty or the hole is too long): no other combination of reordering,
\* outages, failed flushes and restarts opens a hole that nobody asks for
\* (subscribe_upbit, flush, gap_fill).
EveryTradeAccounted ==
  Made \subseteq db \cup ToSet(buffer) \cup wire \cup Filling \cup Owed \cup forsaken

\* Once the process has received a trade, an outage of any length, with any
\* number of failed connection attempts in it, costs at most the trades that
\* had been overtaken by more than Margin (disconnected_ms, last_event_ms).
OutageCostsStragglersOnly ==
  [][\A t \in forsaken' \ forsaken :
       (\E bad \in BOOLEAN : Drop(bad) \/ FailConnect(bad)) /\ lastEvent # 0
         => t < lastEvent - Margin]_vars

\* When faults stop, all that was not given up by name, in a lossy step or at a
\* start without a startup fill, is in the ledger in the end: buffers drain and
\* owed windows are fetched and inserted.
EverythingLands == <>[](Made \subseteq db \cup forsaken)

\* A clean restart of the container loses nothing that was not lost before:
\* the comment above GAPFILL_ENABLED ("the same result, 0 missing").
CleanRestartLosesNothing == [][Stop => forsaken' = forsaken]_vars
=============================================================================
