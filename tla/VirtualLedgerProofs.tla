------------------------ MODULE VirtualLedgerProofs ------------------------
(***************************************************************************)
(* Proofs about VirtualLedger for all constants: types, rows that are one  *)
(* report, fills that have their order, and rows that never go back.       *)
(*                                                                         *)
(* What the ledger rests on is a fact about the exchange, LogGood: each    *)
(* order has been reported, and nothing follows its final report.  That    *)
(* the guard on execution ids keeps a finished order finished is a         *)
(* consequence of it.                                                      *)
(***************************************************************************)
EXTENDS VirtualLedger, Maxima, SequenceTheorems, TLAPS

Reports(D) == [order : D, status : Statuses, done : 0..2]

\* A log of the exchange about the orders of D.
LogGood(L, D) ==
  /\ L \in Seq(Reports(D))
  /\ \A o \in D : \E i \in DOMAIN L : L[i].order = o
  /\ \A i, j \in DOMAIN L :
       L[i].status \in Final /\ L[j].order = L[i].order => j <= i

IInv ==
  TypeOK /\ LogGood(log, DOMAIN placed) /\ RowIsOneReport /\ FillsHaveOrders

-----------------------------------------------------------------------------
(* The exchange's log *)

\* Each report is about one of the orders.
LEMMA LogElement ==
  ASSUME NEW D, NEW L, LogGood(L, D), NEW i \in DOMAIN L
  PROVE  L[i] \in Reports(D) /\ L[i].order \in D
<1>1. L \in Seq(Reports(D)) /\ i \in 1..Len(L)
  BY DEF LogGood
<1>2. L[i] \in Reports(D)
  BY <1>1, ElementOfSeq
<1>3. QED
  BY <1>2 DEF Reports

\* One more report keeps the log good, unless its order was finished.
LEMMA AppendReport ==
  ASSUME NEW D, NEW E, NEW L, LogGood(L, D),
         NEW e \in Reports(E), E = D \cup {e.order},
         \A i \in DOMAIN L : L[i].order = e.order => L[i].status \notin Final
  PROVE  /\ LogGood(Append(L, e), E)
         /\ DOMAIN Append(L, e) = (DOMAIN L) \cup {Len(L) + 1}
         /\ \A i \in DOMAIN L : Append(L, e)[i] = L[i]
         /\ Append(L, e)[Len(L) + 1] = e
<1> DEFINE M == Append(L, e)
<1>1. L \in Seq(Reports(D)) /\ Len(L) \in Nat /\ DOMAIN L = 1..Len(L)
  BY DEF LogGood
<1>2. Reports(D) \subseteq Reports(E)
  BY DEF Reports
<1>3. L \in Seq(Reports(E))
  BY <1>1, <1>2, SeqMonotonic
<1>4. /\ M \in Seq(Reports(E)) /\ Len(M) = Len(L) + 1
      /\ DOMAIN M = 1..(Len(L) + 1)
      /\ \A i \in DOMAIN L : M[i] = L[i]
      /\ M[Len(L) + 1] = e
  BY <1>1, <1>2, <1>3
<1>5. DOMAIN M = (DOMAIN L) \cup {Len(L) + 1}
  BY <1>1, <1>4
<1>6. \A p \in E : \E i \in DOMAIN M : M[i].order = p
  BY <1>4, <1>5 DEF LogGood
<1>7. ASSUME NEW i \in DOMAIN M, NEW j \in DOMAIN M,
             M[i].status \in Final, M[j].order = M[i].order
      PROVE  j <= i
  <2>1. CASE i = Len(L) + 1
    BY <1>4, <2>1, <1>1
  <2>2. CASE i \in DOMAIN L /\ j \in DOMAIN L
    BY <1>4, <1>7, <2>2 DEF LogGood
  <2>3. CASE i \in DOMAIN L /\ j = Len(L) + 1
    BY <1>4, <1>7, <2>3
  <2>4. QED
    BY <1>5, <2>1, <2>2, <2>3
<1>8. QED
  BY <1>4, <1>5, <1>6, <1>7 DEF LogGood

\* The last report of an order, which Live and the actions read.
LEMMA LastReport ==
  ASSUME LogGood(log, DOMAIN placed), NEW o \in DOMAIN placed
  PROVE  /\ Max(Execs(o)) \in Execs(o)
         /\ Max(Execs(o)) \in DOMAIN log
         /\ log[Max(Execs(o))] \in Reports(DOMAIN placed)
         /\ \A i \in Execs(o) : i <= Max(Execs(o))
<1>1. /\ log \in Seq(Reports(DOMAIN placed)) /\ Len(log) \in Nat
      /\ DOMAIN log = 1..Len(log)
  BY DEF LogGood
<1>2. Execs(o) \in SUBSET (0..Len(log)) /\ Execs(o) # {}
  BY <1>1 DEF Execs, LogGood
<1>3. Max(Execs(o)) \in Execs(o) /\ \A y \in Execs(o) : Max(Execs(o)) >= y
  BY <1>1, <1>2, MaxInSet
<1>4. Max(Execs(o)) \in DOMAIN log
  BY <1>3 DEF Execs
<1>5. QED
  BY <1>1, <1>2, <1>3, <1>4

\* A live order has no final report at all.
LEMMA LiveIsUnfinished ==
  ASSUME LogGood(log, DOMAIN placed), NEW o \in DOMAIN placed, Live(o)
  PROVE  \A i \in DOMAIN log : log[i].order = o => log[i].status \notin Final
<1> DEFINE m == Max(Execs(o))
<1>1. m \in Execs(o) /\ m \in DOMAIN log /\ \A i \in Execs(o) : i <= m
  BY LastReport
<1>2. log[m].order = o /\ log[m].status \notin Final
  BY <1>1 DEF Execs, Live
<1> HIDE DEF m
<1>3. ASSUME NEW i \in DOMAIN log, log[i].order = o, log[i].status \in Final
      PROVE  FALSE
  <2>1. i \in Execs(o) /\ i \in Nat /\ m \in Nat
    BY <1>1, <1>3 DEF Execs, LogGood
  <2>2. i <= m /\ m <= i
    BY <1>1, <1>2, <1>3, <2>1 DEF LogGood
  <2>3. QED
    BY <1>2, <1>3, <2>1, <2>2
<1>4. QED
  BY <1>3

\* Report with one event.
LEMMA OneReport ==
  ASSUME LogGood(log, DOMAIN placed), wire \subseteq DOMAIN log,
         NEW o \in DOMAIN placed, Live(o),
         NEW s \in Statuses, NEW d \in 0..2, Report(o, <<<<s, d>>>>)
  PROVE  /\ LogGood(log', DOMAIN placed)
         /\ DOMAIN log \subseteq DOMAIN log'
         /\ \A i \in DOMAIN log : log'[i] = log[i]
         /\ wire' \subseteq DOMAIN log'
<1> DEFINE e == [order |-> o, status |-> s, done |-> d]
<1>1. /\ log \in Seq(Reports(DOMAIN placed)) /\ Len(log) \in Nat
      /\ DOMAIN log = 1..Len(log)
  BY DEF LogGood
<1>2. log' = Append(log, e)
  <2> DEFINE news == [k \in DOMAIN <<<<s, d>>>> |->
                        [order |-> o, status |-> <<<<s, d>>>>[k][1],
                         done |-> <<<<s, d>>>>[k][2]]]
  <2>1. news = <<e>>
    OBVIOUS
  <2>2. log' = log \o news
    BY DEF Report
  <2>3. QED
    BY <1>1, <2>1, <2>2
<1>3. wire' \subseteq wire \cup {Len(log) + 1}
  BY <1>1 DEF Report
<1>4. \A i \in DOMAIN log : log[i].order = o => log[i].status \notin Final
  BY LiveIsUnfinished
<1>5. /\ e \in Reports(DOMAIN placed) /\ e.order = o
      /\ DOMAIN placed = (DOMAIN placed) \cup {e.order}
  BY DEF Reports
<1> HIDE DEF e
<1>6. /\ LogGood(Append(log, e), DOMAIN placed)
      /\ DOMAIN Append(log, e) = (DOMAIN log) \cup {Len(log) + 1}
      /\ \A i \in DOMAIN log : Append(log, e)[i] = log[i]
  BY <1>4, <1>5, AppendReport
<1>7. QED
  BY <1>2, <1>3, <1>6

-----------------------------------------------------------------------------
(* Steps of the exchange: the log grows, the ledger stays. *)

Orders == [era : 0..MaxResets, maker : BOOLEAN]

LEMMA GrowStep ==
  ASSUME IInv, UNCHANGED <<rows, fills, seen, epoch, probed>>,
         placed' \in Seq(Orders), LogGood(log', DOMAIN placed'),
         DOMAIN placed \subseteq DOMAIN placed',
         DOMAIN log \subseteq DOMAIN log',
         \A i \in DOMAIN log : log'[i] = log[i],
         wire' \subseteq DOMAIN log', era' \in 0..MaxResets,
         conn' \in {"down", "off", "on", "deaf", "dead"},
         tasks' \subseteq (DOMAIN placed') \X {1, 2},
         faults' \in 0..MaxFaults, harmed' \subseteq DOMAIN placed'
  PROVE  IInv'
<1>1. \A o \in DOMAIN rows :
        /\ rows[o] \in [status : Statuses, done : 0..2, last_exec_id : DOMAIN log,
                        version : Nat \ {0}, reset_epoch : 0..epoch]
        /\ rows[o].last_exec_id \in DOMAIN log
  BY DEF IInv, TypeOK
<1>2. \A o \in DOMAIN rows :
        rows[o] \in [status : Statuses, done : 0..2, last_exec_id : DOMAIN log',
                     version : Nat \ {0}, reset_epoch : 0..epoch]
  BY <1>1
<1>3. log' \in Seq([order : DOMAIN placed', status : Statuses, done : 0..2])
  BY DEF LogGood, Reports
<1>4. /\ DOMAIN rows \subseteq DOMAIN placed'
      /\ fills \subseteq DOMAIN log' /\ seen \subseteq DOMAIN log'
      /\ epoch \in Nat /\ probed' \in {"none", "open", "filled"}
  BY DEF IInv, TypeOK
<1>5. TypeOK'
  BY <1>2, <1>3, <1>4 DEF TypeOK, Orders
<1>6. RowIsOneReport'
  BY <1>1 DEF IInv, RowIsOneReport
<1>7. FillsHaveOrders'
  BY DEF IInv, TypeOK, FillsHaveOrders
<1>8. QED
  BY <1>5, <1>6, <1>7 DEF IInv

\* What the helpers on faults do to the two variables they change.
LEMMA FaultFacts ==
  ASSUME TypeOK, NEW bad, NEW hit, hit \subseteq DOMAIN placed, FaultIf(bad, hit)
  PROVE  faults' \in 0..MaxFaults /\ harmed' \subseteq DOMAIN placed
BY LedgerAssumption DEF TypeOK, FaultIf, Fault

LEMMA PlaceMakerStep ==
  ASSUME IInv, NEW answered, PlaceMaker(answered)
  PROVE  IInv'
<1> DEFINE o == Len(placed) + 1
           e == [order |-> o, status |-> "NEW", done |-> 0]
           r == [era |-> era, maker |-> TRUE]
<1>1. /\ placed \in Seq(Orders) /\ Len(placed) \in Nat
      /\ DOMAIN placed = 1..Len(placed) /\ r \in Orders
  BY DEF IInv, TypeOK, Orders
<1>2. /\ placed' = Append(placed, r) /\ placed' \in Seq(Orders)
      /\ Len(placed') = o /\ DOMAIN placed' = (DOMAIN placed) \cup {o}
  BY <1>1 DEF PlaceMaker
<1>3. /\ log' = Append(log, e) /\ wire' \subseteq wire \cup {Len(log')}
      /\ UNCHANGED faults \/ Fault
      /\ harmed' \subseteq harmed \cup {o}
      /\ tasks' = IF answered THEN tasks \cup {<<o, 1>>} ELSE tasks
      /\ UNCHANGED <<era, conn, rows, fills, seen, epoch, probed>>
  BY <1>2 DEF PlaceMaker, ledger
<1>4. log \in Seq(Reports(DOMAIN placed)) /\ Len(log) \in Nat
  BY DEF IInv, LogGood
<1>5. \A i \in DOMAIN log : log[i].order \in DOMAIN placed
  BY LogElement DEF IInv
<1>6. /\ e \in Reports(DOMAIN placed') /\ e.order = o
      /\ DOMAIN placed' = (DOMAIN placed) \cup {e.order}
  BY <1>2 DEF Reports, Statuses
<1>7. \A i \in DOMAIN log : log[i].order # o
  BY <1>1, <1>5
<1> HIDE DEF e
<1>8. /\ LogGood(log', DOMAIN placed')
      /\ DOMAIN log' = (DOMAIN log) \cup {Len(log) + 1}
      /\ \A i \in DOMAIN log : log'[i] = log[i]
  BY <1>3, <1>6, <1>7, AppendReport DEF IInv
<1>9. Len(log') = Len(log) + 1
  BY <1>3, <1>4, <1>8 DEF LogGood
<1>10. wire' \subseteq DOMAIN log'
  BY <1>3, <1>8, <1>9 DEF IInv, TypeOK
<1>11. faults' \in 0..MaxFaults /\ harmed' \subseteq DOMAIN placed'
  BY <1>2, <1>3, LedgerAssumption DEF IInv, TypeOK, Fault
<1>12. tasks' \subseteq (DOMAIN placed') \X {1, 2}
  BY <1>2, <1>3 DEF IInv, TypeOK
<1>13. era' \in 0..MaxResets /\ conn' \in {"down", "off", "on", "deaf", "dead"}
  BY <1>3 DEF IInv, TypeOK
<1>14. QED
  BY <1>2, <1>3, <1>8, <1>10, <1>11, <1>12, <1>13, GrowStep

LEMMA PlaceTakerStep ==
  ASSUME IInv, NEW status \in Final, PlaceTaker(status)
  PROVE  IInv'
<1> DEFINE o == Len(placed) + 1
           d == IF status = "FILLED" THEN 1 ELSE 0
           e == [order |-> o, status |-> "NEW", done |-> 0]
           f == [order |-> o, status |-> status, done |-> d]
           r == [era |-> era, maker |-> FALSE]
           L == Append(log, e)
<1>1. /\ placed \in Seq(Orders) /\ Len(placed) \in Nat
      /\ DOMAIN placed = 1..Len(placed) /\ r \in Orders
  BY DEF IInv, TypeOK, Orders
<1>2. /\ placed' = Append(placed, r) /\ placed' \in Seq(Orders)
      /\ Len(placed') = o /\ DOMAIN placed' = (DOMAIN placed) \cup {o}
  BY <1>1 DEF PlaceTaker
<1>3. log \in Seq(Reports(DOMAIN placed)) /\ Len(log) \in Nat
  BY DEF IInv, LogGood
<1>4. /\ e \in Reports(DOMAIN placed') /\ e.order = o /\ e.status \notin Final
      /\ f \in Reports(DOMAIN placed') /\ f.order = o
  BY <1>2 DEF Reports, Statuses, Final
<1>5. log' = Append(L, f)
  <2> DEFINE events == <<<<"NEW", 0>>, <<status, d>>>>
             news == [k \in DOMAIN events |->
                        [order |-> o, status |-> events[k][1], done |-> events[k][2]]]
  <2>1. news = <<e, f>>
    OBVIOUS
  <2>2. Report(o, events)
    BY <1>2 DEF PlaceTaker
  <2>3. log' = log \o news
    BY <2>2 DEF Report
  <2> HIDE DEF e, f, news
  <2>4. QED
    BY <1>3, <1>4, <2>1, <2>3
<1>6. \A i \in DOMAIN log : log[i].order # o
  <2>1. \A i \in DOMAIN log : log[i].order \in DOMAIN placed
    BY LogElement DEF IInv
  <2>2. QED
    BY <1>1, <2>1
<1>7. wire' \subseteq wire \cup {Len(log) + 1, Len(log) + 2}
  BY <1>2, <1>3 DEF PlaceTaker, Report
<1>8. /\ DOMAIN placed' = (DOMAIN placed) \cup {e.order}
      /\ DOMAIN placed' = (DOMAIN placed') \cup {f.order}
  BY <1>2, <1>4
<1> HIDE DEF e, f
<1>9. /\ LogGood(L, DOMAIN placed')
      /\ DOMAIN L = (DOMAIN log) \cup {Len(log) + 1}
      /\ \A i \in DOMAIN log : L[i] = log[i]
      /\ L[Len(log) + 1] = e
  BY <1>4, <1>6, <1>8, AppendReport DEF IInv
<1>10. \A i \in DOMAIN L : L[i].order = f.order => L[i].status \notin Final
  BY <1>4, <1>6, <1>9
<1>11. Len(L) = Len(log) + 1
  BY <1>3, <1>9 DEF LogGood
<1> HIDE DEF L
<1>12. /\ LogGood(log', DOMAIN placed')
       /\ DOMAIN log' = (DOMAIN L) \cup {Len(L) + 1}
       /\ \A i \in DOMAIN L : log'[i] = L[i]
  BY <1>4, <1>5, <1>8, <1>9, <1>10, AppendReport
<1>13. wire' \subseteq DOMAIN log'
  BY <1>3, <1>7, <1>9, <1>11, <1>12 DEF IInv, TypeOK
<1>14. /\ UNCHANGED <<era, conn, rows, fills, seen, epoch, tasks, probed, faults, harmed>>
       /\ era' \in 0..MaxResets /\ conn' \in {"down", "off", "on", "deaf", "dead"}
       /\ tasks' \subseteq (DOMAIN placed') \X {1, 2}
       /\ faults' \in 0..MaxFaults /\ harmed' \subseteq DOMAIN placed'
  BY <1>2 DEF PlaceTaker, ledger, IInv, TypeOK
<1>15. QED
  BY <1>2, <1>9, <1>12, <1>13, <1>14, GrowStep

\* Reports about an order that is live already.
LEMMA ReportStep ==
  ASSUME IInv, NEW o \in DOMAIN placed, Live(o),
         NEW s \in Statuses, NEW d \in 0..2, Report(o, <<<<s, d>>>>),
         UNCHANGED <<placed, era, conn, rows, fills, seen, epoch, probed>>,
         tasks' \subseteq (DOMAIN placed) \X {1, 2},
         UNCHANGED <<faults, harmed>>
  PROVE  IInv'
<1>1. LogGood(log, DOMAIN placed) /\ wire \subseteq DOMAIN log
  BY DEF IInv, TypeOK
<1>2. /\ LogGood(log', DOMAIN placed)
      /\ DOMAIN log \subseteq DOMAIN log'
      /\ \A i \in DOMAIN log : log'[i] = log[i]
      /\ wire' \subseteq DOMAIN log'
  BY <1>1, OneReport
<1>3. /\ placed' \in Seq(Orders) /\ era' \in 0..MaxResets
      /\ conn' \in {"down", "off", "on", "deaf", "dead"}
      /\ faults' \in 0..MaxFaults /\ harmed' \subseteq DOMAIN placed'
  BY DEF IInv, TypeOK, Orders
<1>4. QED
  BY <1>2, <1>3, GrowStep

LEMMA MatchStep ==
  ASSUME IInv, NEW o \in DOMAIN placed,
         NEW status \in {"PARTIALLY_FILLED", "FILLED"}, Match(o, status)
  PROVE  IInv'
<1> DEFINE last == log[Max(Execs(o))]
<1>1. last \in Reports(DOMAIN placed)
  BY LastReport DEF IInv
<1>2. /\ Live(o) /\ last.done < 2 /\ Report(o, <<<<status, last.done + 1>>>>)
      /\ UNCHANGED <<placed, era, conn, rows, fills, seen, epoch, tasks, probed>>
      /\ UNCHANGED <<faults, harmed>>
  BY DEF Match, ledger
<1>3. last.done + 1 \in 0..2 /\ status \in Statuses
  BY <1>1, <1>2 DEF Reports, Statuses, Final
<1>4. tasks' \subseteq (DOMAIN placed) \X {1, 2}
  BY <1>2 DEF IInv, TypeOK
<1> HIDE DEF last
<1>5. QED
  BY <1>2, <1>3, <1>4, ReportStep

-----------------------------------------------------------------------------
(* Steps that leave the log and the tables alone. *)

LEMMA QuietStep ==
  ASSUME IInv, UNCHANGED <<log, placed, rows, fills, seen>>,
         epoch' \in Nat, \A o \in DOMAIN rows : rows[o].reset_epoch <= epoch',
         wire' \subseteq DOMAIN log, era' \in 0..MaxResets,
         conn' \in {"down", "off", "on", "deaf", "dead"},
         tasks' \subseteq (DOMAIN placed) \X {1, 2},
         probed' \in {"none", "open", "filled"},
         faults' \in 0..MaxFaults, harmed' \subseteq DOMAIN placed
  PROVE  IInv'
<1>1. \A o \in DOMAIN rows :
        rows[o] \in [status : Statuses, done : 0..2, last_exec_id : DOMAIN log,
                     version : Nat \ {0}, reset_epoch : 0..epoch]
  BY DEF IInv, TypeOK
<1>2. \A o \in DOMAIN rows :
        rows[o] \in [status : Statuses, done : 0..2, last_exec_id : DOMAIN log,
                     version : Nat \ {0}, reset_epoch : 0..epoch']
  BY <1>1 DEF IInv, TypeOK
<1>3. TypeOK'
  BY <1>2 DEF IInv, TypeOK
<1>4. QED
  BY <1>3 DEF IInv, LogGood, RowIsOneReport, FillsHaveOrders

LEMMA EpochOfRows ==
  ASSUME TypeOK, NEW o \in DOMAIN rows
  PROVE  rows[o].reset_epoch \in 0..epoch
BY DEF TypeOK

\* What the variables that the tables do not show are bounded by.
LEMMA Bounds ==
  ASSUME IInv
  PROVE  /\ epoch \in Nat /\ \A o \in DOMAIN rows : rows[o].reset_epoch <= epoch
         /\ wire \subseteq DOMAIN log /\ era \in 0..MaxResets
         /\ conn \in {"down", "off", "on", "deaf", "dead"}
         /\ tasks \subseteq (DOMAIN placed) \X {1, 2}
         /\ probed \in {"none", "open", "filled"}
         /\ faults \in 0..MaxFaults /\ harmed \subseteq DOMAIN placed
<1>1. \A o \in DOMAIN rows : rows[o].reset_epoch \in 0..epoch
  BY EpochOfRows DEF IInv
<1>2. epoch \in Nat
  BY DEF IInv, TypeOK
<1>3. QED
  BY <1>1, <1>2 DEF IInv, TypeOK

\* The largest epoch in the table covers that of each row.
LEMMA MaxEpochCovers ==
  ASSUME IInv
  PROVE  MaxEpoch \in Nat /\ \A o \in DOMAIN rows : rows[o].reset_epoch <= MaxEpoch
<1> DEFINE S == {0} \cup {rows[o].reset_epoch : o \in DOMAIN rows}
<1>1. S \in SUBSET (0..epoch) /\ S # {} /\ epoch \in Nat
  BY EpochOfRows DEF IInv, TypeOK
<1>2. Max(S) \in S /\ \A y \in S : Max(S) >= y
  <2> HIDE DEF S
  <2>1. QED
    BY <1>1, MaxInSet
<1>3. \A y \in S : y <= Max(S)
  BY <1>1, <1>2
<1>4. QED
  BY <1>1, <1>2, <1>3 DEF MaxEpoch

LEMMA AbandonStep ==
  ASSUME IInv, NEW o \in DOMAIN placed, NEW phase \in {1, 2}, Abandon(o, phase)
  PROVE  IInv'
<1>1. faults' \in 0..MaxFaults /\ harmed' \subseteq DOMAIN placed
  BY FaultFacts DEF IInv, Abandon
<1>2. /\ UNCHANGED <<log, placed, era, conn, wire, rows, fills, seen, epoch, probed>>
      /\ tasks' \subseteq tasks
  BY DEF Abandon, exchange, ledger
<1>3. QED
  BY <1>1, <1>2, Bounds, QuietStep

LEMMA AmendStep ==
  ASSUME IInv, NEW o \in DOMAIN placed, NEW sent \in BOOLEAN, Amend(o, sent)
  PROVE  IInv'
<1> DEFINE last == log[Max(Execs(o))]
<1>1. /\ UNCHANGED <<placed, era, conn, rows, fills, seen, epoch, probed>>
      /\ UNCHANGED <<faults, harmed>>
      /\ tasks' \subseteq (DOMAIN placed) \X {1, 2}
  BY DEF Amend, ledger, IInv, TypeOK
<1>2. CASE sent
  <2>1. last \in Reports(DOMAIN placed)
    BY LastReport DEF IInv
  <2>2. Live(o) /\ Report(o, <<<<last.status, last.done>>>>)
    BY <1>2 DEF Amend
  <2>3. last.status \in Statuses /\ last.done \in 0..2
    BY <2>1 DEF Reports
  <2> HIDE DEF last
  <2>4. QED
    BY <1>1, <2>2, <2>3, ReportStep
<1>3. CASE ~sent
  <2>1. UNCHANGED <<log, wire>>
    BY <1>3 DEF Amend
  <2>2. QED
    BY <1>1, <2>1, Bounds, QuietStep
<1>4. QED
  BY <1>2, <1>3

LEMMA CancelStep ==
  ASSUME IInv, NEW o \in DOMAIN placed, NEW works \in BOOLEAN, Cancel(o, works)
  PROVE  IInv'
<1> DEFINE last == log[Max(Execs(o))]
<1>1. /\ UNCHANGED <<placed, era, conn, rows, fills, seen, epoch, probed>>
      /\ tasks' \subseteq (DOMAIN placed) \X {1, 2}
  BY DEF Cancel, ledger, IInv, TypeOK
<1>2. CASE works
  <2>1. last \in Reports(DOMAIN placed)
    BY LastReport DEF IInv
  <2>2. Live(o) /\ Report(o, <<<<"CANCELED", last.done>>>>) /\ UNCHANGED <<faults, harmed>>
    BY <1>2 DEF Cancel
  <2>3. "CANCELED" \in Statuses /\ last.done \in 0..2
    BY <2>1 DEF Reports, Statuses, Final
  <2> HIDE DEF last
  <2>4. QED
    BY <1>1, <2>2, <2>3, ReportStep
<1>3. CASE ~works
  <2>1. UNCHANGED <<log, wire>>
    BY <1>3 DEF Cancel
  <2>2. faults' \in 0..MaxFaults /\ harmed' \subseteq DOMAIN placed
    BY <1>3, LedgerAssumption DEF Cancel, FaultIf, Fault, IInv, TypeOK
  <2>3. QED
    BY <1>1, <2>1, <2>2, Bounds, QuietStep
<1>4. QED
  BY <1>2, <1>3

LEMMA LostOrders ==
  ASSUME IInv
  PROVE  Lost \subseteq DOMAIN placed
BY LogElement DEF Lost, IInv, TypeOK

LEMMA DisconnectStep ==
  ASSUME IInv, NEW clean \in BOOLEAN, Disconnect(clean)
  PROVE  IInv'
<1>1. /\ UNCHANGED <<log, placed, era, rows, fills, seen, epoch, tasks, probed>>
      /\ wire' = {} /\ conn' \in {"off", "dead"} /\ harmed' = harmed \cup Lost
      /\ faults < MaxFaults /\ faults' = faults + 1
  BY DEF Disconnect, exchange, ledger, Fault
<1>2. QED
  BY <1>1, LostOrders, Bounds, LedgerAssumption, QuietStep

LEMMA CrashStep ==
  ASSUME IInv, Crash
  PROVE  IInv'
<1>1. /\ UNCHANGED <<log, placed, era, rows, fills, seen, epoch>>
      /\ wire' = {} /\ tasks' = {} /\ probed' = "none"
      /\ conn' = "down" /\ harmed' = harmed \cup Lost
      /\ faults < MaxFaults /\ faults' = faults + 1
  BY DEF Crash, exchange, ledger, Fault
<1>2. QED
  BY <1>1, LostOrders, Bounds, LedgerAssumption, QuietStep

\* A connection is made, with its subscription or without.
LEMMA ConnectsFacts ==
  ASSUME TypeOK, NEW subscribed \in BOOLEAN, Connects(subscribed)
  PROVE  /\ conn' \in {"on", "deaf"}
         /\ faults' \in 0..MaxFaults /\ harmed' \subseteq DOMAIN placed
<1>1. FaultIf(~subscribed, {})
  BY DEF Connects
<1> QED  BY <1>1, FaultFacts DEF Connects

LEMMA ReconnectStep ==
  ASSUME IInv, NEW subscribed \in BOOLEAN, Reconnect(subscribed)
  PROVE  IInv'
<1>1. /\ UNCHANGED <<log, placed, era, wire, rows, fills, seen, epoch, tasks, probed>>
      /\ Connects(subscribed)
  BY DEF Reconnect, exchange, ledger
<1>2. /\ conn' \in {"on", "deaf"}
      /\ faults' \in 0..MaxFaults /\ harmed' \subseteq DOMAIN placed
  BY <1>1, ConnectsFacts DEF IInv
<1>3. QED
  BY <1>1, <1>2, Bounds, QuietStep

LEMMA StartStep ==
  ASSUME IInv, NEW subscribed \in BOOLEAN, Start(subscribed)
  PROVE  IInv'
<1>1. /\ UNCHANGED <<log, placed, era, wire, rows, fills, seen, probed>>
      /\ Connects(subscribed) /\ epoch' = MaxEpoch
      /\ tasks' \subseteq (DOMAIN placed) \X {1, 2}
  BY DEF Start, exchange, IInv, TypeOK
<1>2. /\ conn' \in {"on", "deaf"}
      /\ faults' \in 0..MaxFaults /\ harmed' \subseteq DOMAIN placed
  BY <1>1, ConnectsFacts DEF IInv
<1>3. QED
  BY <1>1, <1>2, Bounds, MaxEpochCovers, QuietStep

LEMMA ReloadEpochStep ==
  ASSUME IInv, ReloadEpoch
  PROVE  IInv'
<1>1. /\ UNCHANGED <<log, placed, era, conn, wire, rows, fills, seen, tasks, probed, harmed>>
      /\ epoch' = MaxEpoch /\ faults < MaxFaults /\ faults' = faults + 1
  BY DEF ReloadEpoch, exchange, Fault
<1>2. QED
  BY <1>1, Bounds, MaxEpochCovers, LedgerAssumption, QuietStep

LEMMA ResetStep ==
  ASSUME IInv, Reset
  PROVE  IInv'
<1>1. /\ UNCHANGED <<log, placed, conn, wire, rows, fills, seen, epoch, tasks>>
      /\ UNCHANGED <<probed, faults, harmed>>
      /\ era' = era + 1 /\ era < MaxResets
  BY DEF Reset, ledger
<1>2. QED
  BY <1>1, Bounds, LedgerAssumption, QuietStep

LEMMA ProbeStep ==
  ASSUME IInv, MissOpen \/ MissFilled \/ ProbeEnds
  PROVE  IInv'
<1>1. /\ UNCHANGED <<log, placed, era, conn, wire, rows, fills, seen, epoch, tasks>>
      /\ UNCHANGED <<faults, harmed>> /\ probed' \in {"none", "open", "filled"}
  BY DEF MissOpen, MissFilled, ProbeEnds, exchange, ledger
<1>2. QED
  BY <1>1, Bounds, QuietStep

-----------------------------------------------------------------------------
(* Steps of the ledger *)

RowType == [status : Statuses, done : 0..2, last_exec_id : DOMAIN log,
            version : Nat \ {0}, reset_epoch : 0..epoch]

\* Row p of the table R is the order's state in one report.
IsReported(R, p) ==
  LET e == log[R[p].last_exec_id]
  IN  e.order = p /\ e.status = R[p].status /\ e.done = R[p].done

\* R follows the rows without taking order p back.
Forward(R, p) ==
  /\ rows[p].status \in Final => R[p].status = rows[p].status
  /\ R[p] # rows[p] => R[p].version > rows[p].version

\* UPSERT_ORDER keeps every row a report and takes no order back.
LEMMA UpsertFacts ==
  ASSUME IInv, NEW i \in DOMAIN log
  PROVE  /\ DOMAIN Upsert(i) = (DOMAIN rows) \cup {log[i].order}
         /\ \A p \in DOMAIN Upsert(i) :
              Upsert(i)[p] \in RowType /\ IsReported(Upsert(i), p)
         /\ \A p \in DOMAIN rows : Forward(Upsert(i), p)
<1> DEFINE o == log[i].order
           R == Upsert(i)
<1>1. DOMAIN R = (DOMAIN rows) \cup {o}
  BY DEF Upsert
<1>2. \A p \in DOMAIN rows : rows[p] \in RowType /\ IsReported(rows, p)
  BY DEF IInv, TypeOK, RowIsOneReport, RowType, IsReported
<1>3. /\ log[i].status \in Statuses /\ log[i].done \in 0..2 /\ i \in Nat
      /\ epoch \in Nat
  <2>1. log[i] \in Reports(DOMAIN placed)
    BY LogElement DEF IInv
  <2>2. i \in Nat /\ epoch \in Nat
    BY DEF IInv, LogGood, TypeOK
  <2>3. QED
    BY <2>1, <2>2 DEF Reports
<1>4. \A v \in Nat \ {0}, e \in 0..epoch : Row(i, v, e) \in RowType
  BY <1>3 DEF Row, RowType
<1>5. ASSUME NEW p \in DOMAIN rows, p # o
      PROVE  R[p] = rows[p]
  BY <1>5 DEF Upsert
<1>6. CASE o \notin DOMAIN rows
  <2>1. R[o] = Row(i, 1, epoch)
    BY <1>6 DEF Upsert
  <2>2. R[o] \in RowType
    BY <1>3, <1>4, <2>1
  <2>3. IsReported(R, o)
    BY <2>1 DEF IsReported, Row
  <2>4. \A p \in DOMAIN rows : R[p] = rows[p]
    BY <1>5, <1>6
  <2> HIDE DEF R, o
  <2>5. \A p \in DOMAIN R : R[p] \in RowType /\ IsReported(R, p)
    BY <1>1, <1>2, <2>2, <2>3, <2>4 DEF IsReported
  <2>6. \A p \in DOMAIN rows : Forward(R, p)
    BY <2>4 DEF Forward
  <2>7. QED
    BY <1>1, <2>5, <2>6 DEF R, o
<1>7. CASE o \in DOMAIN rows /\ ~(i > rows[o].last_exec_id)
  <2>1. \A p \in DOMAIN rows : R[p] = rows[p]
    BY <1>5, <1>7 DEF Upsert
  <2>2. DOMAIN R = DOMAIN rows
    BY <1>1, <1>7
  <2> HIDE DEF R, o
  <2>3. \A p \in DOMAIN R : R[p] \in RowType /\ IsReported(R, p)
    BY <1>2, <2>1, <2>2 DEF IsReported
  <2>4. \A p \in DOMAIN rows : Forward(R, p)
    BY <2>1 DEF Forward
  <2>5. QED
    BY <1>1, <2>3, <2>4 DEF R, o
<1>8. CASE o \in DOMAIN rows /\ i > rows[o].last_exec_id
  <2> DEFINE old == rows[o]
  <2>1. /\ old.version \in Nat \ {0} /\ old.reset_epoch \in 0..epoch
        /\ old.last_exec_id \in DOMAIN log /\ log[old.last_exec_id].order = o
        /\ log[old.last_exec_id].status = old.status
    BY <1>2, <1>8 DEF RowType, IsReported
  <2>2. R[o] = Row(i, old.version + 1, old.reset_epoch)
    BY <1>8 DEF Upsert
  <2>3. R[o] \in RowType
    BY <1>4, <2>1, <2>2
  <2>4. IsReported(R, o)
    BY <2>2 DEF IsReported, Row
  <2>5. old.status \notin Final
    <3>1. old.last_exec_id \in Nat
      BY <2>1 DEF IInv, LogGood
    <3>2. ~(i <= old.last_exec_id)
      BY <1>3, <1>8, <3>1
    <3>3. QED
      BY <2>1, <3>2 DEF IInv, LogGood
  <2>6. Forward(R, o)
    <3>1. R[o].version = old.version + 1
      BY <2>2 DEF Row
    <3>2. QED
      BY <2>1, <2>5, <3>1 DEF Forward
  <2> HIDE DEF R, o, old
  <2>7. \A p \in DOMAIN R : R[p] \in RowType /\ IsReported(R, p)
    BY <1>1, <1>2, <1>5, <2>3, <2>4 DEF IsReported
  <2>8. \A p \in DOMAIN rows : Forward(R, p)
    BY <1>5, <2>6 DEF Forward
  <2>9. QED
    BY <1>1, <2>7, <2>8 DEF R, o
<1>9. QED
  BY <1>6, <1>7, <1>8

\* A step that changes the three tables only.
LEMMA TableStep ==
  ASSUME IInv, UNCHANGED <<log, placed, era, conn, epoch, tasks, probed>>,
         DOMAIN rows' \subseteq DOMAIN placed,
         \A p \in DOMAIN rows' : rows'[p] \in RowType /\ IsReported(rows', p),
         fills' \subseteq DOMAIN log,
         \A i \in fills' : log[i].order \in DOMAIN rows',
         seen' \subseteq DOMAIN log, wire' \subseteq wire,
         faults' \in 0..MaxFaults, harmed' \subseteq DOMAIN placed
  PROVE  IInv'
<1>1. TypeOK'
  BY DEF IInv, TypeOK, RowType
<1>2. RowIsOneReport' /\ FillsHaveOrders'
  BY DEF RowIsOneReport, FillsHaveOrders, IsReported
<1>3. LogGood(log, DOMAIN placed)'
  BY DEF IInv
<1>4. QED
  BY <1>1, <1>2, <1>3 DEF IInv

\* What apply_report leaves in the tables, however far it gets.
LEMMA ApplyFacts ==
  ASSUME IInv, NEW i \in DOMAIN log, NEW n \in 0..3, Apply(i, n)
  PROVE  /\ DOMAIN rows \subseteq DOMAIN rows'
         /\ DOMAIN rows' \subseteq DOMAIN placed
         /\ \A p \in DOMAIN rows' : rows'[p] \in RowType /\ IsReported(rows', p)
         /\ fills' \subseteq DOMAIN log
         /\ \A j \in fills' : log[j].order \in DOMAIN rows'
         /\ \A p \in DOMAIN rows : Forward(rows', p)
<1>1. /\ DOMAIN rows \subseteq DOMAIN placed /\ fills \subseteq DOMAIN log
      /\ \A j \in fills : log[j].order \in DOMAIN rows
      /\ \A p \in DOMAIN rows : rows[p] \in RowType /\ IsReported(rows, p)
  BY DEF IInv, TypeOK, RowIsOneReport, FillsHaveOrders, RowType, IsReported
<1>2. CASE n >= 2
  <2>1. rows' = Upsert(i) /\ fills' \subseteq fills \cup {i}
    BY <1>2 DEF Apply
  <2>2. log[i].order \in DOMAIN placed
    BY LogElement DEF IInv
  <2>3. /\ DOMAIN rows' = (DOMAIN rows) \cup {log[i].order}
        /\ \A p \in DOMAIN rows' : rows'[p] \in RowType /\ IsReported(rows', p)
        /\ \A p \in DOMAIN rows : Forward(rows', p)
    BY <2>1, UpsertFacts
  <2>4. QED
    BY <1>1, <2>1, <2>2, <2>3
<1>3. CASE ~(n >= 2)
  <2>1. rows' = rows /\ fills' = fills
    BY <1>3 DEF Apply
  <2>2. QED
    BY <1>1, <2>1 DEF Forward
<1>4. QED
  BY <1>2, <1>3

LEMMA OnEventStep ==
  ASSUME IInv, NEW i \in wire, NEW n \in 0..3, NEW again \in BOOLEAN,
         OnEvent(i, n, again)
  PROVE  IInv' /\ \A p \in (DOMAIN rows) \cap (DOMAIN rows') : Forward(rows', p)
<1>1. /\ UNCHANGED <<log, placed, era, conn, epoch, tasks, probed>>
      /\ wire' \subseteq wire
      /\ i \in DOMAIN log
  BY DEF OnEvent, exchange, IInv, TypeOK
<1>2. CASE i \in seen /\ UNCHANGED <<rows, fills, seen, faults, harmed>>
  <2>1. /\ UNCHANGED <<log, placed, rows, fills, seen>>
        /\ epoch' \in Nat /\ \A o \in DOMAIN rows : rows[o].reset_epoch <= epoch'
        /\ wire' \subseteq DOMAIN log /\ era' \in 0..MaxResets
        /\ conn' \in {"down", "off", "on", "deaf", "dead"}
        /\ tasks' \subseteq (DOMAIN placed) \X {1, 2}
        /\ probed' \in {"none", "open", "filled"}
        /\ faults' \in 0..MaxFaults /\ harmed' \subseteq DOMAIN placed
    BY <1>1, <1>2, Bounds
  <2>2. IInv'
    BY <2>1, QuietStep
  <2>3. QED
    BY <2>1, <2>2 DEF Forward
<1>3. CASE /\ FaultIf(n < Statements(i), {log[i].order} \ DOMAIN rows)
           /\ seen' = IF n >= 1 THEN seen \cup {i} ELSE seen
           /\ Apply(i, n)
  <2>1. log[i].order \in DOMAIN placed
    BY <1>1, LogElement DEF IInv
  <2>2. faults' \in 0..MaxFaults /\ harmed' \subseteq DOMAIN placed
    BY <1>3, <2>1, FaultFacts DEF IInv
  <2>3. seen' \subseteq DOMAIN log
    BY <1>1, <1>3 DEF IInv, TypeOK
  <2>4. /\ DOMAIN rows' \subseteq DOMAIN placed
        /\ \A p \in DOMAIN rows' : rows'[p] \in RowType /\ IsReported(rows', p)
        /\ fills' \subseteq DOMAIN log
        /\ \A j \in fills' : log[j].order \in DOMAIN rows'
        /\ \A p \in DOMAIN rows : Forward(rows', p)
    BY <1>1, <1>3, ApplyFacts
  <2>5. IInv'
    BY <1>1, <2>2, <2>3, <2>4, TableStep
  <2>6. QED
    BY <2>4, <2>5
<1>4. QED
  BY <1>2, <1>3 DEF OnEvent

\* What apply_reset leaves in the tables, whether or not its second statement
\* succeeds: no fill without its order.
LEMMA DeleteFacts ==
  ASSUME IInv, NEW n \in {1, 2}, DeleteEpoch(n)
  PROVE  /\ DOMAIN rows' \subseteq DOMAIN rows
         /\ \A p \in DOMAIN rows' : rows'[p] = rows[p]
         /\ fills' \subseteq fills
         /\ \A j \in fills' : log[j].order \in DOMAIN rows'
<1>1. \A j \in fills : log[j].order \in DOMAIN rows
  BY DEF IInv, FillsHaveOrders
<1>2. fills' = {j \in fills : log[j].order \notin Gone}
  BY DEF DeleteEpoch, Kept
<1>3. CASE n = 2
  <2>1. rows' = [o \in (DOMAIN rows) \ Gone |-> rows[o]]
    BY <1>3 DEF DeleteEpoch
  <2>2. DOMAIN rows' = (DOMAIN rows) \ Gone
    BY <2>1
  <2>3. QED
    BY <1>1, <1>2, <2>1, <2>2
<1>4. CASE n = 1
  <2>1. rows' = rows
    BY <1>4 DEF DeleteEpoch
  <2>2. QED
    BY <1>1, <1>2, <2>1
<1>5. QED
  BY <1>3, <1>4

\* A step that takes rows and fills out of the tables.
LEMMA DeletionStep ==
  ASSUME IInv, NEW n \in {1, 2}, DeleteEpoch(n),
         UNCHANGED <<log, placed, era, seen>>,
         epoch' \in Nat, epoch' >= epoch, wire' \subseteq wire,
         conn' \in {"down", "off", "on", "deaf", "dead"},
         tasks' \subseteq tasks, probed' = "none",
         faults' \in 0..MaxFaults, harmed' \subseteq DOMAIN placed
  PROVE  IInv' /\ \A p \in (DOMAIN rows) \cap (DOMAIN rows') : Forward(rows', p)
<1>1. /\ DOMAIN rows' \subseteq DOMAIN rows
      /\ \A p \in DOMAIN rows' : rows'[p] = rows[p]
      /\ fills' \subseteq fills
      /\ \A j \in fills' : log[j].order \in DOMAIN rows'
  BY DeleteFacts
<1>2. /\ \A p \in DOMAIN rows : rows[p] \in RowType /\ IsReported(rows, p)
      /\ DOMAIN rows \subseteq DOMAIN placed /\ epoch \in Nat
      /\ fills \subseteq DOMAIN log
  BY DEF IInv, TypeOK, RowIsOneReport, RowType, IsReported
<1>3. \A p \in DOMAIN rows' :
        rows'[p] \in [status : Statuses, done : 0..2, last_exec_id : DOMAIN log,
                      version : Nat \ {0}, reset_epoch : 0..epoch']
  <2>1. \A e \in 0..epoch : e \in 0..epoch'
    BY <1>2
  <2>2. QED
    BY <1>1, <1>2, <2>1 DEF RowType
<1>4. TypeOK'
  BY <1>1, <1>2, <1>3 DEF IInv, TypeOK
<1>5. RowIsOneReport'
  BY <1>1, <1>2 DEF RowIsOneReport, IsReported
<1>6. FillsHaveOrders'
  BY <1>1 DEF FillsHaveOrders
<1>7. LogGood(log, DOMAIN placed)'
  BY DEF IInv
<1>8. QED
  BY <1>1, <1>4, <1>5, <1>6, <1>7 DEF IInv, Forward

LEMMA ApplyResetStep ==
  ASSUME IInv, ApplyReset
  PROVE  IInv' /\ \A p \in (DOMAIN rows) \cap (DOMAIN rows') : Forward(rows', p)
<1>1. /\ DeleteEpoch(2) /\ UNCHANGED <<log, placed, era, seen, conn, wire, tasks, faults>>
      /\ epoch' = epoch + 1 /\ probed' = "none" /\ harmed' = harmed \cup Gone
  BY DEF ApplyReset, exchange
<1>2. Gone \subseteq DOMAIN placed
  BY DEF Gone, IInv, TypeOK
<1>3. QED
  BY <1>1, <1>2, Bounds, DeletionStep

LEMMA FailResetStep ==
  ASSUME IInv, NEW n \in {1, 2}, FailReset(n)
  PROVE  IInv' /\ \A p \in (DOMAIN rows) \cap (DOMAIN rows') : Forward(rows', p)
<1>1. /\ DeleteEpoch(n) /\ UNCHANGED <<log, placed, era, seen, epoch>>
      /\ conn' = "down" /\ wire' = {} /\ tasks' = {} /\ probed' = "none"
      /\ harmed' = harmed \cup Lost \cup Gone
      /\ faults < MaxFaults /\ faults' = faults + 1
  BY DEF FailReset, exchange, Fault
<1>2. Gone \subseteq DOMAIN placed
  BY DEF Gone, IInv, TypeOK
<1>3. QED
  BY <1>1, <1>2, Bounds, LostOrders, LedgerAssumption, DeletionStep

-----------------------------------------------------------------------------
(* The theorems *)

LEMMA Initially == Init => IInv
<1> SUFFICES ASSUME Init PROVE IInv
  OBVIOUS
<1>1. log = << >> /\ placed = << >> /\ DOMAIN rows = {} /\ fills = {}
  BY DEF Init
<1>2. TypeOK
  BY <1>1, LedgerAssumption DEF Init, TypeOK
<1>3. LogGood(log, DOMAIN placed)
  BY <1>1 DEF LogGood
<1>4. QED
  BY <1>1, <1>2, <1>3 DEF IInv, RowIsOneReport, FillsHaveOrders

\* Every step keeps the invariant, and no step takes a row back: the body of
\* RowNeverBack.
LEMMA Step ==
  ASSUME IInv, [Next]_vars
  PROVE  IInv' /\ \A p \in (DOMAIN rows) \cap (DOMAIN rows') : Forward(rows', p)
<1>1. ASSUME rows' = rows
      PROVE  \A p \in (DOMAIN rows) \cap (DOMAIN rows') : Forward(rows', p)
  BY <1>1 DEF Forward
<1>2. ASSUME NEW ok \in BOOLEAN,
             PlaceMaker(ok) \/ Disconnect(ok) \/ Reconnect(ok) \/ Start(ok)
      PROVE  IInv' /\ rows' = rows
  <2>1. IInv'
    BY <1>2, PlaceMakerStep, DisconnectStep, ReconnectStep, StartStep
  <2>2. QED
    BY <1>2, <2>1 DEF PlaceMaker, Disconnect, Reconnect, Start, ledger
<1>3. ASSUME NEW status \in Final, PlaceTaker(status)
      PROVE  IInv' /\ rows' = rows
  BY <1>3, PlaceTakerStep DEF PlaceTaker, ledger
<1>4. ASSUME NEW o \in DOMAIN placed,
             NEW status \in {"PARTIALLY_FILLED", "FILLED"}, Match(o, status)
      PROVE  IInv' /\ rows' = rows
  BY <1>4, MatchStep DEF Match, ledger
<1>5. ASSUME TaskStep
      PROVE  IInv' /\ rows' = rows
  <2>1. PICK o \in DOMAIN placed :
          \/ \E phase \in {1, 2} : Abandon(o, phase)
          \/ \E ok \in BOOLEAN : Amend(o, ok) \/ Cancel(o, ok)
    BY <1>5 DEF TaskStep
  <2>2. CASE \E phase \in {1, 2} : Abandon(o, phase)
    BY <2>2, AbandonStep DEF Abandon, ledger
  <2>3. CASE \E ok \in BOOLEAN : Amend(o, ok) \/ Cancel(o, ok)
    BY <2>3, AmendStep, CancelStep DEF Amend, Cancel, ledger
  <2>4. QED
    BY <2>1, <2>2, <2>3
<1>6. ASSUME Crash \/ ReloadEpoch \/ Reset
      PROVE  IInv' /\ rows' = rows
  <2>1. IInv'
    BY <1>6, CrashStep, ReloadEpochStep, ResetStep
  <2>2. QED
    BY <1>6, <2>1 DEF Crash, ReloadEpoch, Reset, ledger
<1>7. ASSUME UNCHANGED vars
      PROVE  IInv' /\ rows' = rows
  <2>1. /\ UNCHANGED <<log, placed, era, conn, wire, rows, fills, seen, epoch>>
        /\ UNCHANGED <<tasks, probed, faults, harmed>>
    BY <1>7 DEF vars
  <2>2. QED
    BY <2>1, Bounds, QuietStep
<1>8. ASSUME MissOpen \/ CheckReset \/ \E n \in {1, 2} : FailReset(n)
      PROVE  IInv' /\ \A p \in (DOMAIN rows) \cap (DOMAIN rows') : Forward(rows', p)
  <2>1. CASE MissOpen \/ MissFilled \/ ProbeEnds
    <3>1. rows' = rows
      BY <2>1 DEF MissOpen, MissFilled, ProbeEnds, ledger
    <3>2. QED
      BY <1>1, <2>1, <3>1, ProbeStep
  <2>2. CASE ApplyReset
    BY <2>2, ApplyResetStep
  <2>3. CASE \E n \in {1, 2} : FailReset(n)
    BY <2>3, FailResetStep
  <2>4. QED
    BY <1>8, <2>1, <2>2, <2>3 DEF CheckReset
<1>9. QED
  BY <1>1, <1>2, <1>3, <1>4, <1>5, <1>6, <1>7, <1>8, OnEventStep DEF Next

\* The invariant holds in every state of every behaviour, for any number of
\* orders, events, resets and faults.
THEOREM LedgerInvariance == Spec => []IInv
<1>1. IInv /\ [Next]_vars => IInv'
  BY Step
<1>2. QED
  BY Initially, <1>1, PTL DEF Spec

\* The variables of the trader and its tables keep their types; in particular
\* no row carries an epoch above the trader's, which Start reads back.
THEOREM LedgerTypeCorrect == Spec => []TypeOK
<1>1. IInv => TypeOK
  BY DEF IInv
<1>2. QED
  BY LedgerInvariance, <1>1, PTL

\* Every row of virtual_orders is the state the exchange reported in one
\* event, whatever is repeated, lost or reordered (UPSERT_ORDER).
THEOREM RowsAreReports == Spec => []RowIsOneReport
<1>1. IInv => RowIsOneReport
  BY DEF IInv
<1>2. QED
  BY LedgerInvariance, <1>1, PTL

\* No fill without its order, through partial failures and resets
\* (apply_report, apply_reset).
THEOREM FillsKeepOrders == Spec => []FillsHaveOrders
<1>1. IInv => FillsHaveOrders
  BY DEF IInv
<1>2. QED
  BY LedgerInvariance, <1>1, PTL

\* A finished order stays finished and the version of a row grows with each
\* change of it: the guard on the execution id is enough for both.
THEOREM RowsGoForward == Spec => RowNeverBack
<1> DEFINE Body ==
      \A o \in (DOMAIN rows) \cap (DOMAIN rows') :
        /\ rows[o].status \in Final => rows'[o].status = rows[o].status
        /\ rows'[o] # rows[o] => rows'[o].version > rows[o].version
<1>1. IInv /\ [Next]_vars => [Body]_vars
  BY Step DEF Forward
<1>2. Spec => [][Body]_vars
  BY LedgerInvariance, <1>1, PTL DEF Spec
<1>3. QED
  BY <1>2 DEF RowNeverBack
=============================================================================
