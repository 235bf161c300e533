----------------------------- MODULE BookMirror -----------------------------
(***************************************************************************)
(* What the order-book reconstruction promises its readers (ClickHouse     *)
(* tables binance_orderbook_raw / _1m), independent of how it gets there:  *)
(* the mirror shows either nothing or the exact book the exchange had at   *)
(* some version, restricted to the price levels it has been told about;    *)
(* while it keeps showing, the version never goes back.  Only a restart of *)
(* the stream job may rewind it.                                           *)
(*                                                                         *)
(* One symbol, one side of the book (Flink keys the state by symbol, and   *)
(* bids and asks are handled by the same code).                            *)
(***************************************************************************)
EXTENDS Naturals

CONSTANTS Levels,      \* price levels
          Qty,         \* non-zero quantities
          MaxUpdates   \* bound on the exchange's update ids

VARIABLES hist,    \* hist[i]: the exchange's book at update id i
          head,    \* the exchange's current update id
          shown,   \* what a reader of the mirror sees
          era      \* number of restarts of the mirror

mirrorVars == <<hist, head, shown, era>>

Empty == [l \in Levels |-> 0]

Hidden == [on |-> FALSE, ver |-> 0, cov |-> {}, book |-> Empty]

\* The exchange's book at version v as far as the levels of K are concerned.
View(v, K) ==
  [on |-> TRUE, ver |-> v, cov |-> K,
   book |-> [l \in Levels |-> IF l \in K THEN hist[v][l] ELSE 0]]

MirrorInit ==
  /\ hist \in [0..MaxUpdates -> [Levels -> Qty \cup {0}]]
  /\ head = 0
  /\ shown = Hidden
  /\ era = 0

\* The exchange moves on; the mirror may lag.
Move ==
  /\ head < MaxUpdates
  /\ head' = head + 1
  /\ \E l \in Levels, q \in Qty \cup {0} :
        hist' = [hist EXCEPT ![head'] = [hist[head] EXCEPT ![l] = q]]
  /\ UNCHANGED <<shown, era>>

\* The mirror shows a book of the exchange, never an older one than it shows.
Show ==
  /\ \E v \in 0..head, K \in SUBSET Levels :
        /\ shown.on => shown.ver <= v
        /\ shown' = View(v, K)
  /\ UNCHANGED <<hist, head, era>>

\* The mirror notices it has missed something and shows nothing.
Hide ==
  /\ shown' = Hidden
  /\ UNCHANGED <<hist, head, era>>

\* A restart may rewind to an older book, but still to a real one.
Rewind ==
  /\ era' = era + 1
  /\ \/ shown' = Hidden
     \/ \E v \in 0..head, K \in SUBSET Levels : shown' = View(v, K)
  /\ UNCHANGED <<hist, head>>

MirrorNext == Move \/ Show \/ Hide \/ Rewind

MirrorSpec == MirrorInit /\ [][MirrorNext]_mirrorVars
=============================================================================
