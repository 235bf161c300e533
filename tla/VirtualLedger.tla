---------------------------- MODULE VirtualLedger ----------------------------
(***************************************************************************)
(* virtual-trader/trader.py: orders of one symbol on the Binance testnet   *)
(* and the ledger of them in MySQL (virtual_orders, virtual_fills,         *)
(* binance_user_events).  The exchange, its user data stream and its       *)
(* resets are external.                                                    *)
(*                                                                         *)
(* An execution id is an index of log.  Quantities are counted in fills;   *)
(* sides and prices, which nothing here depends on, are left out.          *)
(***************************************************************************)
EXTENDS Integers, FiniteSets, SequencesExt

CONSTANTS MaxOrders, \* bound: orders placed
          MaxExecs,  \* bound: events of the exchange, cancellations apart
          MaxResets, \* bound: resets of the testnet
          MaxFaults  \* bound: disconnections, failures, crashes, late events

ASSUME LedgerAssumption ==
  /\ MaxOrders \in Nat /\ MaxExecs \in Nat /\ MaxResets \in Nat
  /\ MaxFaults \in Nat

VARIABLES log,    \* execution reports of the exchange
          placed, \* placed[o]: the era and kind of order o
          era,    \* resets of the testnet so far
          conn,   \* "down" (no process), "off", "on", and two states in which
                  \* WsApi.ws is set and nothing reconnects: "deaf" (connected,
                  \* but no events are subscribed to), "dead" (closed)
          wire,   \* execution ids sent and not delivered for the last time
          rows,   \* virtual_orders
          fills,  \* virtual_fills, by execution id
          seen,   \* dedup keys of binance_user_events
          epoch,  \* Ledger.epoch
          tasks,  \* amend_then_cancel: order and phase
          probed, \* check_reset: what it found missing, "none", "open" or "filled"
          faults, \* faults so far
          harmed  \* history: orders one of the faults has hit

exchange == <<log, placed, era>>
ledger == <<rows, fills, seen, epoch>>
vars == <<log, placed, era, conn, wire, rows, fills, seen, epoch, tasks,
          probed, faults, harmed>>

Execs(o) == {i \in DOMAIN log : log[i].order = o}
Final == {"FILLED", "CANCELED"}

\* The exchange knows an order until the reset after it was placed.
Known(o) == placed[o].era = era
Live(o) == Known(o) /\ log[Max(Execs(o))].status \notin Final

Row(i, version, e) ==
  [status |-> log[i].status, done |-> log[i].done, last_exec_id |-> i,
   version |-> version, reset_epoch |-> e]

IsOpen(o) == o \in DOMAIN rows /\ rows[o].status \notin Final
OpenRows == {o \in DOMAIN rows : IsOpen(o) /\ rows[o].reset_epoch = epoch}

Init ==
  /\ log = << >> /\ placed = << >> /\ era = 0
  /\ conn = "down" /\ wire = {}
  /\ rows = [o \in {} |-> 0] /\ fills = {} /\ seen = {} /\ epoch = 0
  /\ tasks = {} /\ probed = "none" /\ faults = 0 /\ harmed = {}

Fault == faults < MaxFaults /\ faults' = faults + 1
FaultIf(bad, hit) ==
  IF bad THEN Fault /\ harmed' = harmed \cup hit ELSE UNCHANGED <<faults, harmed>>

\* The bound leaves room for the cancellation of every order.
Room(n) == Len(log) + n <= MaxExecs

\* Calls may reach the exchange; in vain if it was the logon that failed.
Linked == conn \in {"on", "deaf"}

\* The exchange reports events of an order; without a subscription they are lost.
Report(o, events) ==
  LET ids == (Len(log) + 1)..(Len(log) + Len(events))
  IN  /\ log' = log \o [k \in DOMAIN events |->
                          [order |-> o, status |-> events[k][1], done |-> events[k][2]]]
      /\ wire' = IF conn = "on" THEN wire \cup ids ELSE wire

-----------------------------------------------------------------------------
(* cycle and place *)

\* A LIMIT GTC order; when the answer is lost there is no amend_then_cancel, and
\* without a subscription it never becomes a row that the task would cancel.
PlaceMaker(answered) ==
  /\ Linked /\ probed = "none" /\ Len(placed) < MaxOrders
  /\ placed' = Append(placed, [era |-> era, maker |-> TRUE])
  /\ LET o == Len(placed')
     IN  /\ Room(1)
         /\ log' = Append(log, [order |-> o, status |-> "NEW", done |-> 0])
         /\ wire' = IF conn = "on" THEN wire \cup {Len(log')} ELSE wire
         /\ IF answered THEN UNCHANGED faults ELSE Fault
         /\ harmed' = IF answered /\ conn = "on" THEN harmed ELSE harmed \cup {o}
         /\ tasks' = IF answered THEN tasks \cup {<<o, 1>>} ELSE tasks
  /\ UNCHANGED <<era, conn, ledger, probed>>

\* A LIMIT IOC order ends at once.
PlaceTaker(status) ==
  /\ Linked /\ probed = "none" /\ Len(placed) < MaxOrders /\ Room(2)
  /\ placed' = Append(placed, [era |-> era, maker |-> FALSE])
  /\ Report(Len(placed'), <<<<"NEW", 0>>, <<status, IF status = "FILLED" THEN 1 ELSE 0>>>>)
  /\ UNCHANGED <<era, conn, ledger, tasks, probed, faults, harmed>>

\* The exchange fills a resting order.
Match(o, status) ==
  /\ Live(o) /\ log[Max(Execs(o))].done < 2 /\ Room(1)
  /\ Report(o, <<<<status, log[Max(Execs(o))].done + 1>>>>)
  /\ UNCHANGED <<placed, era, conn, ledger, tasks, probed, faults, harmed>>

-----------------------------------------------------------------------------
(* on_event *)

\* Faulty variant: the older event overwrites the row.
UpsertUnguarded(i) ==
  LET o == log[i].order
  IN  [p \in (DOMAIN rows) \cup {o} |->
         IF p # o THEN rows[p]
         ELSE IF o \notin DOMAIN rows THEN Row(i, 1, epoch)
         ELSE Row(i, rows[o].version + 1, rows[o].reset_epoch)]

\* Faulty variant: executed_qty is assigned after last_exec_id, unguarded.
UpsertMixed(i) ==
  LET o == log[i].order
  IN  [p \in (DOMAIN rows) \cup {o} |->
         IF p # o THEN rows[p]
         ELSE IF o \notin DOMAIN rows THEN Row(i, 1, epoch)
         ELSE IF i > rows[o].last_exec_id
              THEN Row(i, rows[o].version + 1, rows[o].reset_epoch)
              ELSE [rows[o] EXCEPT !.done = log[i].done]]

\* UPSERT_ORDER: every column is guarded by the execution id.
Upsert(i) ==
  LET o == log[i].order
  IN  [p \in (DOMAIN rows) \cup {o} |->
         IF p # o THEN rows[p]
         ELSE IF o \notin DOMAIN rows THEN Row(i, 1, epoch)
         ELSE IF i > rows[o].last_exec_id
              THEN Row(i, rows[o].version + 1, rows[o].reset_epoch)
              ELSE rows[o]]

\* x = TRADE: the event before it of the same order had done one less.
IsTrade(i) ==
  \E j \in Execs(log[i].order) : j < i /\ log[j].done < log[i].done
                                 /\ \A k \in Execs(log[i].order) : k < i => k <= j

\* The statements that follow the record of the event, in order.
Statements(i) == IF IsTrade(i) THEN 3 ELSE 2

\* Faulty variant: the fill goes in first.
ApplyFillFirst(i, n) ==
  /\ rows' = IF n >= Statements(i) THEN Upsert(i) ELSE rows
  /\ fills' = IF n >= 2 /\ IsTrade(i) THEN fills \cup {i} ELSE fills

\* apply_report, of which statements 2..n succeed (each commits by itself).
Apply(i, n) ==
  /\ rows' = IF n >= 2 THEN Upsert(i) ELSE rows
  /\ fills' = IF n >= 3 THEN fills \cup {i} ELSE fills

\* Events come in any order and may come again.  record_event is statement 1;
\* an exception after it is swallowed, the event stays recorded.
OnEvent(i, n, again) ==
  /\ conn = "on" /\ i \in wire
  /\ wire' = IF again THEN wire ELSE wire \ {i}
  /\ \/ i \in seen /\ n = 0 /\ UNCHANGED <<rows, fills, seen, faults, harmed>>
     \/ /\ i \notin seen /\ n <= Statements(i)
        /\ FaultIf(n < Statements(i), {log[i].order} \ DOMAIN rows)
        /\ seen' = IF n >= 1 THEN seen \cup {i} ELSE seen
        /\ Apply(i, n)
  /\ UNCHANGED <<exchange, conn, epoch, tasks, probed>>

-----------------------------------------------------------------------------
(* amend_then_cancel, one step per sleep *)

\* The order is not open in the ledger: the task ends.  If that is because its
\* events are late, nobody will cancel the order.
Abandon(o, phase) ==
  /\ <<o, phase>> \in tasks /\ ~IsOpen(o)
  /\ tasks' = tasks \ {<<o, phase>>}
  /\ FaultIf(o \notin DOMAIN rows /\ Execs(o) \cap (wire \ seen) # {}, {o})
  /\ UNCHANGED <<exchange, conn, wire, ledger, probed>>

\* Skipped when half the quantity is too small; a failure is logged.
Amend(o, sent) ==
  /\ <<o, 1>> \in tasks /\ IsOpen(o)
  /\ tasks' = (tasks \ {<<o, 1>>}) \cup {<<o, 2>>}
  /\ IF sent
     THEN /\ Linked /\ Live(o) /\ Room(1)
          /\ LET last == log[Max(Execs(o))] IN Report(o, <<<<last.status, last.done>>>>)
     ELSE UNCHANGED <<log, wire>>
  /\ UNCHANGED <<placed, era, conn, ledger, probed, faults, harmed>>

\* The one and only attempt; "cancel failed" is logged, also while disconnected
\* or not logged on.
Cancel(o, works) ==
  /\ <<o, 2>> \in tasks /\ IsOpen(o)
  /\ tasks' = tasks \ {<<o, 2>>}
  /\ IF works
     THEN /\ Linked /\ Live(o)
          /\ Report(o, <<<<"CANCELED", log[Max(Execs(o))].done>>>>)
          /\ UNCHANGED <<faults, harmed>>
     ELSE /\ UNCHANGED <<log, wire>>
          /\ IF conn = "on" THEN FaultIf(Live(o), {o})
                            ELSE harmed' = harmed \cup {o} /\ UNCHANGED faults
  /\ UNCHANGED <<placed, era, conn, ledger, probed>>

-----------------------------------------------------------------------------
(* Connection, restarts, resets *)

MaxEpoch == Max({0} \cup {rows[o].reset_epoch : o \in DOMAIN rows})

\* What is on the wire when the connection goes is lost; tasks run on.
Lost == {log[i].order : i \in wire \ seen} \ DOMAIN rows

\* Anything but a clean close sets ws to None.
Disconnect(clean) ==
  /\ Linked /\ Fault
  /\ conn' = IF clean THEN "dead" ELSE "off"
  /\ wire' = {}
  /\ harmed' = harmed \cup Lost
  /\ UNCHANGED <<exchange, ledger, tasks, probed>>

\* WsApi.connect sets ws before it logs on and subscribes: when either is refused
\* or not answered in time, run() goes on with a connection that has no events.
Connects(subscribed) ==
  /\ conn' = IF subscribed THEN "on" ELSE "deaf"
  /\ FaultIf(~subscribed, {})

Reconnect(subscribed) ==
  /\ conn = "off" /\ probed = "none"
  /\ Connects(subscribed)
  /\ UNCHANGED <<exchange, wire, ledger, tasks, probed>>

Crash ==
  /\ conn # "down" /\ Fault
  /\ conn' = "down" /\ wire' = {} /\ tasks' = {} /\ probed' = "none"
  /\ harmed' = harmed \cup Lost
  /\ UNCHANGED <<exchange, ledger>>

\* Faulty variant: nobody takes over the open orders.
StartNoAdoption(subscribed) ==
  /\ conn = "down"
  /\ Connects(subscribed)
  /\ epoch' = MaxEpoch
  /\ UNCHANGED <<exchange, wire, rows, fills, seen, tasks, probed>>

\* Faulty variant: the epoch is not read back.
StartForgetsEpoch(subscribed) ==
  /\ conn = "down"
  /\ Connects(subscribed)
  /\ epoch' = 0
  /\ tasks' = {<<o, 1>> : o \in {p \in DOMAIN rows : IsOpen(p) /\ placed[p].maker}}
  /\ UNCHANGED <<exchange, wire, rows, fills, seen, probed>>

\* Ledger.connect, WsApi.connect, adopt_open_orders.
Start(subscribed) ==
  /\ conn = "down"
  /\ Connects(subscribed)
  /\ epoch' = MaxEpoch
  /\ tasks' = {<<o, 1>> : o \in {p \in DOMAIN rows : IsOpen(p) /\ placed[p].maker}}
  /\ UNCHANGED <<exchange, wire, rows, fills, seen, probed>>

\* _cur: the ping fails three times and connect() reads the epoch again.
ReloadEpoch ==
  /\ conn # "down" /\ Fault
  /\ epoch' = MaxEpoch
  /\ UNCHANGED <<exchange, conn, wire, rows, fills, seen, tasks, probed, harmed>>

\* The testnet forgets all orders, without an event.
Reset ==
  /\ era < MaxResets
  /\ era' = era + 1
  /\ UNCHANGED <<log, placed, conn, wire, ledger, tasks, probed, faults, harmed>>

\* last_filled of the current epoch.
LastFilled ==
  LET filled == {o \in DOMAIN rows : rows[o].status = "FILLED"
                                     /\ rows[o].reset_epoch = epoch}
  IN  {o \in filled : \A p \in filled : rows[p].last_exec_id <= rows[o].last_exec_id}

\* check_reset, which the main loop waits for while events and tasks go on:
\* the first open order is unknown to the exchange (-2013), ...
MissOpen ==
  /\ Linked /\ probed = "none"
  /\ OpenRows # {} /\ ~Known(Min(OpenRows))
  /\ probed' = "open"
  /\ UNCHANGED <<exchange, conn, wire, ledger, tasks, faults, harmed>>

\* ... and so is the order filled last.
FilledIsMissing == LastFilled # {} /\ \A o \in LastFilled : ~Known(o)

MissFilled ==
  /\ Linked /\ probed = "open"
  /\ FilledIsMissing
  /\ probed' = "filled"
  /\ UNCHANGED <<exchange, conn, wire, ledger, tasks, faults, harmed>>

\* The order is known, there is none, or the answer does not come.
ProbeEnds ==
  /\ \/ probed = "open" /\ ~FilledIsMissing
     \/ probed # "none" /\ conn # "on"
  /\ probed' = "none"
  /\ UNCHANGED <<exchange, conn, wire, ledger, tasks, faults, harmed>>

Gone == {o \in DOMAIN rows : rows[o].reset_epoch = epoch}
Kept(o) == o \notin Gone

\* Faulty variant: the orders go first.
DeleteOrdersFirst(n) ==
  /\ rows' = [o \in (DOMAIN rows) \ Gone |-> rows[o]]
  /\ fills' = IF n = 2 THEN {i \in fills : Kept(log[i].order)} ELSE fills

\* apply_reset deletes the fills and then the orders of the epoch; n of the two
\* statements succeed.  Orders placed after the reset go with them.
DeleteEpoch(n) ==
  /\ fills' = {i \in fills : Kept(log[i].order)}
  /\ rows' = IF n = 2 THEN [o \in (DOMAIN rows) \ Gone |-> rows[o]] ELSE rows

ApplyReset ==
  /\ probed = "filled"
  /\ probed' = "none"
  /\ DeleteEpoch(2)
  /\ epoch' = epoch + 1
  /\ harmed' = harmed \cup Gone
  /\ UNCHANGED <<exchange, conn, wire, seen, tasks, faults>>

\* A statement fails: the exception leaves run() and ends the process.
FailReset(n) ==
  /\ probed = "filled" /\ Fault
  /\ DeleteEpoch(n)
  /\ conn' = "down" /\ wire' = {} /\ tasks' = {} /\ probed' = "none"
  /\ harmed' = harmed \cup Lost \cup Gone
  /\ UNCHANGED <<exchange, seen, epoch>>

-----------------------------------------------------------------------------
TaskStep ==
  \E o \in DOMAIN placed :
    \/ \E phase \in {1, 2} : Abandon(o, phase)
    \/ \E ok \in BOOLEAN : Amend(o, ok) \/ Cancel(o, ok)

CheckReset == MissFilled \/ ProbeEnds \/ ApplyReset

Next ==
  \/ \E ok \in BOOLEAN : PlaceMaker(ok) \/ Disconnect(ok) \/ Reconnect(ok) \/ Start(ok)
  \/ \E status \in Final : PlaceTaker(status)
  \/ \E o \in DOMAIN placed : \E status \in {"PARTIALLY_FILLED", "FILLED"} : Match(o, status)
  \/ \E i \in wire, n \in 0..3, again \in BOOLEAN : OnEvent(i, n, again)
  \/ TaskStep
  \/ Crash \/ ReloadEpoch \/ Reset
  \/ MissOpen \/ CheckReset \/ \E n \in {1, 2} : FailReset(n)

Spec == Init /\ [][Next]_vars

\* Events arrive, tasks wake up, the loop reconnects and checks for resets, the
\* container is restarted.  Nothing makes the exchange fill an order.
Fairness ==
  /\ WF_vars(\E i \in wire : OnEvent(i, Statements(i), FALSE) \/ OnEvent(i, 0, FALSE))
  /\ WF_vars(TaskStep) /\ WF_vars(Reconnect(TRUE) \/ Start(TRUE)) /\ WF_vars(CheckReset)

FairSpec == Spec /\ Fairness

-----------------------------------------------------------------------------
(* Properties *)

Statuses == {"NEW", "PARTIALLY_FILLED"} \cup Final

\* Types of all variables.
TypeOK ==
  /\ log \in Seq([order : DOMAIN placed, status : Statuses, done : 0..2])
  /\ placed \in Seq([era : 0..MaxResets, maker : BOOLEAN])
  /\ era \in 0..MaxResets /\ conn \in {"down", "off", "on", "deaf", "dead"}
  /\ wire \subseteq DOMAIN log /\ DOMAIN rows \subseteq DOMAIN placed
  /\ \A o \in DOMAIN rows :
       rows[o] \in [status : Statuses, done : 0..2, last_exec_id : DOMAIN log,
                    version : Nat \ {0}, reset_epoch : 0..epoch]
  /\ fills \subseteq DOMAIN log /\ seen \subseteq DOMAIN log
  /\ epoch \in Nat
  /\ tasks \subseteq (DOMAIN placed) \X {1, 2}
  /\ probed \in {"none", "open", "filled"}
  /\ faults \in 0..MaxFaults /\ harmed \subseteq DOMAIN placed

\* Whatever is lost, repeated or out of order, a row is the state the exchange
\* reported for that order in one single event, never a mixture (UPSERT_ORDER).
RowIsOneReport ==
  \A o \in DOMAIN rows :
    LET e == log[rows[o].last_exec_id]
    IN  e.order = o /\ e.status = rows[o].status /\ e.done = rows[o].done

\* A row that stays never goes back: a finished order never opens again, and
\* its version, by which ClickHouse picks the row, grows with every change.
RowNeverBack ==
  [][\A o \in (DOMAIN rows) \cap (DOMAIN rows') :
       /\ rows[o].status \in Final => rows'[o].status = rows[o].status
       /\ rows'[o] # rows[o] => rows'[o].version > rows[o].version]_vars

\* Every fill has its order, through partial failures and resets: net_qty and
\* the reconciliation never count fills of orders that are gone.
FillsHaveOrders == \A i \in fills : log[i].order \in DOMAIN rows

\* In the end only orders hit by a fault, or placed on a connection that was left
\* without its subscription, rest on the exchange.  A crash or an outage after
\* the NEW event is no such fault: the orders are adopted, and can be canceled
\* also where no event comes.
MakersAreCanceled ==
  <>[](\A o \in DOMAIN placed : Live(o) => o \in harmed)

\* The documented deletion: what apply_reset deletes are orders and fills of the
\* generation before the reset, which the exchange no longer knows.
OnlyOldGenerationDeleted ==
  [][\A o \in (DOMAIN rows) \ (DOMAIN rows') : ~Known(o)]_vars
=============================================================================
