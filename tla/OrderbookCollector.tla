--------------------------- MODULE OrderbookCollector ---------------------------
(* The order-book collector of Upbit (orderbook-collector/collector.py): one
   WebSocket connection, a subscription that follows the list of markets without
   reconnecting, and a producer whose local queue is bounded.  Frames are only
   counted. *)
EXTENDS Naturals, FiniteSets

CONSTANTS
  Markets,    \* all markets; those listed at first are Markets \ NewMarkets
  NewMarkets,
  Few,        \* an abnormally short answer (fewer than 100 markets)
  QueueCap,   \* queue.buffering.max.messages
  MaxBackoff, \* doublings of the pause before a reconnection
  MaxFrames, MaxTroubles  \* bounds

ASSUME CollectorAssumption ==
  /\ NewMarkets \subseteq Markets /\ Few \subseteq Markets
  /\ QueueCap \in Nat /\ MaxBackoff \in Nat /\ MaxFrames \in Nat /\ MaxTroubles \in Nat

VARIABLES
  listed,   \* the markets of the exchange
  coll,     \* the process: step, its list of markets, backoff, refresh due
  sub,      \* what the exchange sends on this connection
  stats,    \* received, produced, errors, reconnects
  queue,    \* messages in the producer's queue
  troubles

ocVars == <<listed, coll, sub, stats, queue, troubles>>

Zero == [received |-> 0, produced |-> 0, errors |-> 0, reconnects |-> 0]

Fresh == [at |-> "starting", markets |-> {}, backoff |-> 0, due |-> FALSE]

OCInit ==
  /\ listed = Markets \ NewMarkets /\ coll = Fresh /\ sub = {}
  /\ stats = Zero /\ queue = 0 /\ troubles = 0

Costs(ok) == /\ ok \/ troubles < MaxTroubles
             /\ troubles' = IF ok THEN troubles ELSE troubles + 1

\* A new market is listed.
List ==
  /\ listed # Markets /\ listed' = Markets
  /\ UNCHANGED <<coll, sub, stats, queue, troubles>>

\* fetch_markets(): strict, it takes any answer; a failure ends the process,
\* which is started again.
Start(answer) ==
  /\ coll.at = "starting" /\ answer \in {listed, Few}
  /\ coll' = [coll EXCEPT !.at = "connecting", !.markets = answer]
  /\ Costs(answer = listed) /\ UNCHANGED <<listed, sub, stats, queue>>

Broken == [coll EXCEPT !.at = "backoff"]

\* The handshake and the subscription to what the process knows.
Connect(ok) ==
  /\ coll.at = "connecting"
  /\ coll' = IF ok THEN [coll EXCEPT !.at = "connected", !.backoff = 0] ELSE Broken
  /\ sub' = IF ok THEN coll.markets ELSE {}
  /\ Costs(ok) /\ UNCHANGED <<listed, stats, queue>>

\* 1, 2, 4 ... 30 seconds between two attempts.
Pause ==
  /\ coll.at = "backoff"
  /\ coll' = [coll EXCEPT !.at = "connecting",
                          !.backoff = IF @ < MaxBackoff THEN @ + 1 ELSE @]
  /\ stats' = [stats EXCEPT !.reconnects = @ + 1]
  /\ UNCHANGED <<listed, sub, queue, troubles>>

Disconnect ==
  /\ coll.at = "connected"
  /\ coll' = Broken /\ sub' = {}
  /\ Costs(FALSE) /\ UNCHANGED <<listed, stats, queue>>

Received == [stats EXCEPT !.received = @ + 1]

Receive == coll.at = "connected" /\ sub # {} /\ stats.received < MaxFrames

\* produce() takes the frame, at once or after a BufferError and a poll.
Enqueue ==
  /\ Receive /\ queue < QueueCap
  /\ queue' = queue + 1 /\ stats' = Received
  /\ UNCHANGED <<listed, coll, sub, troubles>>

\* Faulty variant: a refused frame is not counted.
RefuseSilently ==
  /\ Receive /\ (queue = QueueCap \/ troubles < MaxTroubles)
  /\ stats' = Received
  /\ Costs(queue = QueueCap) /\ UNCHANGED <<listed, coll, sub, queue>>

\* The queue is full twice in a row, or the broker has just come back and the
\* topic is unknown (KafkaException): the frame is lost and counted.
Refuse ==
  /\ Receive /\ (queue = QueueCap \/ troubles < MaxTroubles)
  /\ stats' = [Received EXCEPT !.errors = @ + 1]
  /\ Costs(queue = QueueCap) /\ UNCHANGED <<listed, coll, sub, queue>>

\* A KafkaException in the second attempt is raised inside the handler of the
\* first: it leaves the receive loop and costs the connection, and the frame is
\* not counted.
RefuseTwice ==
  /\ Receive /\ queue = QueueCap
  /\ stats' = Received /\ coll' = Broken /\ sub' = {}
  /\ Costs(FALSE) /\ UNCHANGED <<listed, queue>>

\* on_delivery: the broker has it, or message.timeout.ms is over.
Delivered(ok) ==
  /\ queue > 0 /\ coll.at # "starting"
  /\ queue' = queue - 1
  /\ stats' = IF ok THEN [stats EXCEPT !.produced = @ + 1] ELSE [stats EXCEPT !.errors = @ + 1]
  /\ Costs(ok) /\ UNCHANGED <<listed, coll, sub>>

\* MARKET_REFRESH_SEC is over.
Due ==
  /\ coll.at = "connected" /\ ~coll.due
  /\ coll' = [coll EXCEPT !.due = TRUE]
  /\ UNCHANGED <<listed, sub, stats, queue, troubles>>

\* Faulty variant: the new list is taken over and not subscribed to.
RefreshListOnly(answer, works) ==
  /\ coll.at = "connected" /\ coll.due /\ answer \in {listed, Few}
  /\ LET latest == IF answer = listed THEN answer ELSE coll.markets
         known == [coll EXCEPT !.markets = latest, !.due = FALSE]
     IN  /\ works \/ latest # coll.markets
         /\ coll' = IF works THEN known ELSE [known EXCEPT !.at = "backoff"]
         /\ sub' = IF works THEN sub ELSE {}
  /\ Costs(answer = listed /\ works) /\ UNCHANGED <<listed, stats, queue>>

\* The list is fetched again; no answer or a short one changes nothing, a new
\* one is subscribed to on the same connection.
Refresh(answer, works) ==
  /\ coll.at = "connected" /\ coll.due /\ answer \in {listed, Few}
  /\ LET latest == IF answer = listed THEN answer ELSE coll.markets
         known == [coll EXCEPT !.markets = latest, !.due = FALSE]
         changed == latest # coll.markets
     IN  /\ works \/ changed
         /\ coll' = IF works THEN known ELSE [known EXCEPT !.at = "backoff"]
         /\ sub' = IF ~works THEN {} ELSE IF changed THEN latest ELSE sub
  /\ Costs(answer = listed /\ works) /\ UNCHANGED <<listed, stats, queue>>

\* The process dies and is started again: the queue and the counters are gone.
Die ==
  /\ coll' = Fresh /\ sub' = {} /\ stats' = Zero /\ queue' = 0
  /\ Costs(FALSE) /\ UNCHANGED listed

OCStep ==
  \/ Start(listed) \/ Connect(TRUE) \/ Pause \/ Delivered(TRUE)
  \/ Due \/ Refresh(listed, TRUE)

OCNext ==
  \/ OCStep \/ List \/ Disconnect \/ Enqueue \/ Refuse \/ RefuseTwice \/ Die
  \/ Start(Few) \/ Connect(FALSE) \/ Delivered(FALSE)
  \/ Refresh(Few, TRUE) \/ Refresh(listed, FALSE)

-----------------------------------------------------------------------------
(* Properties *)

\* No silent loss: a received frame is in Kafka, in the queue or counted as an
\* error; what is not has at least cost a reconnection (the nested produce of
\* collector.py:183-188 and the handlers around it).
NoSilentLoss ==
  LET silent == stats.received - (stats.produced + stats.errors + queue)
  IN  silent <= stats.reconnects + (IF coll.at = "backoff" THEN 1 ELSE 0)
=============================================================================
