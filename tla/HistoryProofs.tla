---------------------------- MODULE HistoryProofs ----------------------------
(***************************************************************************)
(* What the history can be relied on for, with any number of orders, lanes *)
(* and reports. Every behaviour with a history is one of OrderDelivery, so *)
(* Inv holds in it. Each step moves one row at most, except for the sweep; *)
(* money moves only in transactions, which write posting and event with    *)
(* one stamp; and what is written without a transaction concerns no money. *)
(***************************************************************************)
EXTENDS History, OrderDeliveryProofs, WellFoundedInduction

------------------------------------------------------------------------------
(* The rows a step moves.                                                  *)

LEMMA RowOf ==
  /\ \A o \in Orders : o \in Rows /\ o \notin Items /\ StatusOf(o) = orderStatus[o]
  /\ \A i \in Items : i \in Rows /\ i \notin Orders /\ StatusOf(i) = itemStatus[i]
  BY HistoryAssumption DEF Rows, StatusOf

LEMMA StatusType ==
  ASSUME TypeOK, NEW r \in Rows
  PROVE  StatusOf(r) \in Status
  BY DEF TypeOK, Rows, StatusOf, Status

LEMMA MovesType ==
  ASSUME TypeOK, TypeOK'
  PROVE  Moves \subseteq Rows \X Status \X Status
<1>1. \A r \in Rows : StatusOf(r) \in Status /\ StatusOf(r)' \in Status
  BY DEF TypeOK, Rows, StatusOf, Status
<1> QED
  BY <1>1 DEF Moves

LEMMA NothingMoves ==
  ASSUME UNCHANGED <<orderStatus, itemStatus>>
  PROVE  Moves = {}
  BY DEF Moves, StatusOf

LEMMA ItemMoves ==
  ASSUME TypeOK, NEW i \in Items, NEW s, s # itemStatus[i], orderStatus' = orderStatus,
         itemStatus' = [itemStatus EXCEPT ![i] = s]
  PROVE  Moves = {<<i, itemStatus[i], s>>}
<1>1. \A r \in Rows : r # i => StatusOf(r)' = StatusOf(r)
  BY DEF TypeOK, StatusOf, Rows
<1>2. i \in Rows /\ StatusOf(i) = itemStatus[i] /\ StatusOf(i)' = s
  BY HistoryAssumption DEF TypeOK, StatusOf, Rows
<1> QED
  BY <1>1, <1>2 DEF Moves

LEMMA OrderMoves ==
  ASSUME TypeOK, NEW o \in Orders, NEW s, s # orderStatus[o], itemStatus' = itemStatus,
         orderStatus' = [orderStatus EXCEPT ![o] = s]
  PROVE  Moves = {<<o, orderStatus[o], s>>}
<1>1. \A r \in Rows : r # o => StatusOf(r)' = StatusOf(r)
  BY DEF TypeOK, StatusOf, Rows
<1>2. o \in Rows /\ StatusOf(o) = orderStatus[o] /\ StatusOf(o)' = s
  BY DEF TypeOK, StatusOf, Rows
<1> QED
  BY <1>1, <1>2 DEF Moves

\* A transaction of a lane: nothing, a claim, a delivery, or a refund.
Takes(o) ==
  /\ orderStatus[o] = "paid" /\ orderStatus' = [orderStatus EXCEPT ![o] = "delivering"]
  /\ UNCHANGED <<itemStatus, ledger>>

SettlesItem(i, from, to, p) ==
  /\ itemStatus[i] = from /\ itemStatus' = [itemStatus EXCEPT ![i] = to]
  /\ p \notin ledger /\ ledger' = ledger \cup {p}
  /\ orderStatus' = orderStatus

LEMMA TogetherEffect ==
  ASSUME Inv, NEW l \in Lanes, Together(l)
  PROVE  \/ UNCHANGED <<orderStatus, itemStatus, ledger>>
         \/ \E o \in Orders : Takes(o)
         \/ \E i \in Items : \/ SettlesItem(i, "pending", "delivered", <<"delivery", i>>)
                             \/ SettlesItem(i, "refunding", "refunded", <<"refund", i>>)
<1>1. CASE Claim(l)
  <2>1. PICK k \in DOMAIN paidLine :
          /\ Claimable(paidLine[k])
          /\ orderStatus' = [orderStatus EXCEPT ![paidLine[k]] = "delivering"]
    BY <1>1 DEF Claim
  <2>2. paidLine[k] \in Orders
    BY <2>1 DEF Inv, TypeOK
  <2> QED
    BY <1>1, <2>1, <2>2 DEF Claim, Claimable, Takes
<1>2. CASE Complete(l)
  <2>1. PICK t \in lane[l].todo : At(l, t) /\
          (\/ /\ Completes(t.item, lane[l].code)
              /\ itemStatus' = [itemStatus EXCEPT ![t.item] = "delivered"]
              /\ ledger' = ledger \cup {<<"delivery", t.item>>}
              /\ orderStatus' = orderStatus
           \/ UNCHANGED <<orderStatus, itemStatus, ledger>>)
    BY <1>2 DEF Complete, Throw, tables
  <2>2. t.item \in Items
    BY TodoType DEF Inv, TypeOK
  <2> QED
    BY <2>1, <2>2 DEF Completes, SettlesItem
<1>3. CASE BookRefund(l)
  <2>1. PICK t \in lane[l].todo : At(l, t) /\
          (\/ /\ Books(t.item)
              /\ itemStatus' = [itemStatus EXCEPT ![t.item] = "refunded"]
              /\ ledger' = ledger \cup {<<"refund", t.item>>}
              /\ orderStatus' = orderStatus
           \/ UNCHANGED <<orderStatus, itemStatus, ledger>>)
    BY <1>3 DEF BookRefund, Throw, tables
  <2>2. t.item \in Items
    BY TodoType DEF Inv, TypeOK
  <2> QED
    BY <2>1, <2>2 DEF Books, SettlesItem
<1> QED
  BY <1>1, <1>2, <1>3 DEF Together

\* Without a transaction: nothing, a decision to refund, or an order's move
\* that leads away from "created".
Decided(i) ==
  /\ itemStatus[i] = "pending" /\ itemStatus' = [itemStatus EXCEPT ![i] = "refunding"]
  /\ orderStatus' = orderStatus

Verdicts(o) ==
  /\ orderStatus[o] \in {"delivering", "delivery_failed"}
  /\ \E s \in OrderStatus : s # orderStatus[o] /\ orderStatus' = [orderStatus EXCEPT ![o] = s]
  /\ itemStatus' = itemStatus

LEMMA ApartEffect ==
  ASSUME Inv, (\E l \in Lanes : Apart(l)) \/ (\E o \in Orders : RetryDelivery(o))
  PROVE  /\ ledger' = ledger
         /\ \/ UNCHANGED <<orderStatus, itemStatus>>
            \/ \E i \in Items : Decided(i)
            \/ \E o \in Orders : Verdicts(o)
<1>1. ASSUME NEW l \in Lanes, DecideRefund(l)
      PROVE  /\ ledger' = ledger
             /\ UNCHANGED <<orderStatus, itemStatus>> \/ \E i \in Items : Decided(i)
  <2>1. PICK t \in lane[l].todo : At(l, t) /\ ledger' = ledger /\
          (\/ /\ itemStatus[t.item] = "pending"
              /\ itemStatus' = [itemStatus EXCEPT ![t.item] = "refunding"]
              /\ orderStatus' = orderStatus
           \/ UNCHANGED <<orderStatus, itemStatus>>)
    BY <1>1 DEF DecideRefund, Refuses, Throw, tables
  <2>2. t.item \in Items
    BY TodoType DEF Inv, TypeOK
  <2> QED
    BY <2>1, <2>2 DEF Decided
<1>2. ASSUME NEW l \in Lanes, Finish(l)
      PROVE  /\ ledger' = ledger
             /\ UNCHANGED <<orderStatus, itemStatus>> \/ \E o \in Orders : Verdicts(o)
  <2>1. CASE UNCHANGED tables
    BY <2>1 DEF tables
  <2>2. CASE /\ orderStatus[lane[l].order] = "delivering"
             /\ orderStatus' = [orderStatus EXCEPT ![lane[l].order] = lane[l].verdict]
             /\ UNCHANGED <<itemStatus, ledger>>
    <3>1. lane[l].pc = "verdict" /\ lane[l].pc # "idle"
      BY <1>2 DEF Finish
    <3>2. lane[l].verdict \in {"paid", "delivery_failed"} \cup Settled /\ lane[l].order # NoOrder
      BY <3>1 DEF Inv, LanesInv, LaneOK
    <3>3. lane[l].order \in Orders
      BY <3>2 DEF Inv, TypeOK, LaneState
    <3>4. lane[l].verdict \in OrderStatus /\ lane[l].verdict # "delivering"
      BY <3>2 DEF OrderStatus, Settled
    <3> QED
      BY <2>2, <3>3, <3>4 DEF Verdicts
  <2> QED
    BY <1>2, <2>1, <2>2 DEF Finish, Throw
<1>3. ASSUME NEW o \in Orders, RetryDelivery(o)
      PROVE  ledger' = ledger /\ Verdicts(o)
  <2>1. "paid" \in OrderStatus
    BY DEF OrderStatus
  <2> QED
    BY <1>3, <2>1 DEF RetryDelivery, Verdicts
<1> QED
  BY <1>1, <1>2, <1>3 DEF Apart

LEMMA SilentEffect ==
  ASSUME \/ \E l \in Lanes : Silent(l) \/ Abandon(l)
         \/ \E o \in Orders : SlotOpens(o)
         \/ \E old \in SUBSET Orders : SweepSelects(old)
         \/ UNCHANGED vars
  PROVE  UNCHANGED <<orderStatus, itemStatus, ledger>>
  BY DEF Silent, ReadItems, Issued, Refused, NoAnswer, PspRefunds, PspFails, ReadVerdict,
     Abandon, Throw, SlotOpens, SweepSelects, vars, tables
------------------------------------------------------------------------------
(* The history takes no part in what it records.                           *)

LEMMA HistoryMoves == [HistoryNext]_allVars => [Next]_vars
<1> SUFFICES ASSUME [HistoryNext]_allVars PROVE [Next]_vars
  OBVIOUS
<1>1. ASSUME NEW l \in Lanes, LaneStep(l) \/ LaneDies(l) PROVE Next
  <2>1. Works(l) \/ NoAnswer(l) \/ PspFails(l) \/ Abandon(l)
    BY <1>1 DEF LaneStep, LaneDies, Together, Apart, Silent, Works
  <2> QED
    BY <2>1 DEF Next
<1>2. CASE \/ \E e \in Events : WebhookCommits(e)
           \/ \E o \in Orders : Retries(o) \/ TimePasses(o)
           \/ \E old \in SUBSET Orders : SweepBegins(old)
           \/ SweepCommits
  BY <1>2 DEF WebhookCommits, Retries, TimePasses, SweepBegins, SweepCommits, Next
<1>3. CASE \/ \E a \in Lanes \cup Events : Begins(a)
           \/ \E a \in Lanes \cup Orders : WritesEvent(a) \/ LosesEvent(a)
           \/ \E l \in Lanes : NothingToClaim(l)
           \/ Tick
           \/ \E from, to \in Moments : ReadsMoved(from, to)
           \/ ReadsEvents \/ ReadsOpening \/ ReadsClosing
           \/ UNCHANGED allVars
  BY <1>3 DEF Begins, WritesEvent, LosesEvent, NothingToClaim, Tick, ReadsMoved, Reads,
     ReadsEvents, ReadsOpening, ReadsClosing, allVars
<1> QED
  BY <1>1, <1>2, <1>3 DEF HistoryNext

THEOREM HistoryOnlyWatches == HistorySpec => Spec
<1>1. HistoryInit => Init
  BY DEF HistoryInit
<1> QED
  BY <1>1, HistoryMoves, PTL DEF HistorySpec, Spec

\* What was true of an item's events stays true.
LEMMA SaysStays ==
  ASSUME Inv, [Next]_vars, NEW i \in Items, NEW to, Says(i, to)
  PROVE  Says(i, to)'
<1>1. DecisionsHold
  BY DecisionsStep
<1> QED
  BY <1>1 DEF DecisionsHold, Says

------------------------------------------------------------------------------
(* Money and its events.                                                   *)

LEMMA EventsType ==
  ASSUME HistoryTypeOK, NEW moves, moves \subseteq Rows \X Status \X Status, NEW at \in Moments
  PROVE  EventsOf(moves, at) \subseteq EventRow
  BY DEF EventsOf, EventRow, HistoryTypeOK

LEMMA MoneyTypes ==
  /\ \A e \in EventRow : MoneyIn(e) \subseteq Money
  /\ \A p \in Postings : p[1] \in {"payment", "delivery", "refund"}
  BY DEF MoneyIn, Money, Postings

\* An event that tells of no money.
LEMMA NoMoney ==
  ASSUME NEW e, e.row \in Items => e.to = "refunding",
         e.row \in Orders => e.from # "created" \/ e.to # "paid"
  PROVE  MoneyIn(e) = {}
  BY DEF MoneyIn

LEMMA PaymentMoney ==
  ASSUME NEW e, e.row \in Orders, e.from = "created", e.to = "paid"
  PROVE  MoneyIn(e) = {<<"payment", e.row>>}
  BY HistoryAssumption DEF MoneyIn

LEMMA SettlementMoney ==
  ASSUME NEW e, e.row \in Items
  PROVE  /\ e.to = "delivered" => MoneyIn(e) = {<<"delivery", e.row>>}
         /\ e.to = "refunded" => MoneyIn(e) = {<<"refund", e.row>>}
  BY HistoryAssumption DEF MoneyIn

\* What a step adds, all of it stamped with one moment.
Adds(at) ==
  /\ log \subseteq log' /\ ledger \subseteq ledger'
  /\ \A e \in log' \ log : MoneyIn(e) = {} \/ e.at = at
  /\ \A p \in ledger : postedAt'[p] = postedAt[p]
  /\ \A p \in ledger' \ ledger : postedAt'[p] = at

\* What is stamped from t on does not show in any period that ends at t.
LEMMA PeriodFrozen ==
  ASSUME HistoryTypeOK, HistoryTypeOK', ledger \subseteq Postings, ledger' \subseteq Postings,
         NEW at \in Nat, Adds(at), NEW t \in Nat, t <= at, NEW from \in Nat
  PROVE  Posted(from, t)' = Posted(from, t) /\ Recorded(from, t)' = Recorded(from, t)
<1>1. {q \in ledger' : from <= postedAt'[q] /\ postedAt'[q] < t}
        = {q \in ledger : from <= postedAt[q] /\ postedAt[q] < t}
  BY DEF Adds
<1>2. Posted(from, t)' = Posted(from, t)
  BY <1>1 DEF Posted
<1>3. ASSUME NEW m
      PROVE  m \in Recorded(from, t)' <=> m \in Recorded(from, t)
  <2>1. m \in Recorded(from, t) <=> \E e \in log : from <= e.at /\ e.at < t /\ m \in MoneyIn(e)
    BY DEF Recorded
  <2>2. m \in Recorded(from, t)' <=> \E e \in log' : from <= e.at /\ e.at < t /\ m \in MoneyIn(e)
    BY DEF Recorded
  <2>3. ASSUME NEW e \in log', e \notin log, e.at < t, m \in MoneyIn(e) PROVE FALSE
    <3>1. e.at = at
      BY <2>3 DEF Adds
    <3> QED
      BY <2>3, <3>1
  <2> QED
    BY <2>1, <2>2, <2>3 DEF Adds
<1> QED
  BY <1>2, <1>3
------------------------------------------------------------------------------
(* The parts of the invariant, each under what a step may do to it.        *)

\* A step of OrderDelivery, with or without a history.
Step == Inv /\ [Next]_vars /\ Inv' /\ HistoryInv

LEMMA RecordsKept ==
  ASSUME Step, HistoryTypeOK', clock <= clock', serial <= serial', log \subseteq log',
         \A e \in log' \ log : e.at <= clock' /\ e.id <= serial' /\
                               (e.row \in Items => Says(e.row, e.to)'),
         \A a \in Lanes \cup Orders : \A m \in unwritten'[a] :
           m \in unwritten[a] \/ (IF m[1] \in Items THEN m[3] = "refunding" /\ Says(m[1], m[3])'
                                                    ELSE m[2] # "created"),
         \A a \in Lanes \cup Events : began'[a] <= clock',
         sweptAt' <= clock', swept' # {} => sweptAt' # 0
  PROVE  RecordsInv'
<1>1. \A e \in log' : e.at <= clock' /\ e.id <= serial' /\ (e.row \in Items => Says(e.row, e.to)')
  <2>1. ASSUME NEW e \in log
        PROVE  e.at <= clock' /\ e.id <= serial' /\ (e.row \in Items => Says(e.row, e.to)')
    <3>1. /\ e.at \in Nat /\ e.id \in Nat /\ clock \in Nat /\ clock' \in Nat
          /\ serial \in Nat /\ serial' \in Nat
      BY DEF Step, HistoryInv, HistoryTypeOK, EventRow, Moments
    <3>2. e.at <= clock /\ e.id <= serial /\ (e.row \in Items => Says(e.row, e.to))
      BY DEF Step, HistoryInv, RecordsInv
    <3>3. e.row \in Items => Says(e.row, e.to)'
      BY <3>2, SaysStays DEF Step
    <3> QED
      BY <3>1, <3>2, <3>3
  <2> QED
    BY <2>1
<1>2. ASSUME NEW a \in Lanes \cup Orders, NEW m \in unwritten'[a]
      PROVE  IF m[1] \in Items THEN m[3] = "refunding" /\ Says(m[1], m[3])' ELSE m[2] # "created"
  <2>1. CASE m \in unwritten[a]
    <3>1. IF m[1] \in Items THEN m[3] = "refunding" /\ Says(m[1], m[3]) ELSE m[2] # "created"
      BY <2>1 DEF Step, HistoryInv, RecordsInv
    <3>2. m[1] \in Items => Says(m[1], m[3])'
      BY <3>1, SaysStays DEF Step
    <3> QED
      BY <3>1, <3>2
  <2> QED
    BY <2>1
<1> QED
  BY <1>1, <1>2 DEF RecordsInv

LEMMA PostingsKept ==
  ASSUME HistoryTypeOK, HistoryTypeOK', PostingsInv, ledger \subseteq Postings,
         UNCHANGED <<ledger, postedAt>>, log \subseteq log',
         \A e \in log' \ log : MoneyIn(e) = {}, clock <= clock'
  PROVE  PostingsInv'
<1>1. \A p \in ledger : postedAt[p] \in Nat /\ clock \in Nat /\ clock' \in Nat
  BY DEF HistoryTypeOK, Stamp, Moments
<1>2. \A p \in ledger' : postedAt'[p] # 0 /\ postedAt'[p] <= clock'
  BY <1>1 DEF PostingsInv
<1>3. \A p \in ledger' : \E e \in log' : e.at = postedAt'[p] /\ MoneyOf(p) \in MoneyIn(e)
  BY DEF PostingsInv
<1>4. \A e \in log' : \A m \in MoneyIn(e) : \E p \in ledger' : MoneyOf(p) = m /\ postedAt'[p] = e.at
  BY DEF PostingsInv
<1> QED
  BY <1>2, <1>3, <1>4 DEF PostingsInv

LEMMA PostingsAdded ==
  ASSUME HistoryTypeOK, HistoryTypeOK', PostingsInv, ledger \subseteq Postings,
         clock' = clock, NEW at \in Moments, at <= clock, Posts(at),
         NEW p \in Postings, p \notin ledger, ledger' = ledger \cup {p},
         NEW e, log' = log \cup {e}, e.at = at, MoneyIn(e) = {MoneyOf(p)}
  PROVE  PostingsInv'
<1>1. postedAt'[p] = at /\ \A q \in ledger : postedAt'[q] = postedAt[q]
  BY DEF Posts
<1>2. \A q \in ledger' : postedAt'[q] # 0 /\ postedAt'[q] <= clock'
  BY <1>1 DEF PostingsInv, Moments
<1>3. \A q \in ledger' : \E f \in log' : f.at = postedAt'[q] /\ MoneyOf(q) \in MoneyIn(f)
  BY <1>1 DEF PostingsInv
<1>4. \A f \in log' : \A m \in MoneyIn(f) : \E q \in ledger' : MoneyOf(q) = m /\ postedAt'[q] = f.at
  BY <1>1 DEF PostingsInv
<1> QED
  BY <1>2, <1>3, <1>4 DEF PostingsInv

LEMMA ReportKept ==
  ASSUME Step, HistoryTypeOK', report' = report, clock <= clock',
         \A a \in Lanes \cup Events : began'[a] \in {began[a], 0, clock},
         NEW at \in Nat, Adds(at),
         report.pc # "idle" /\ report.closed => at >= report.to
  PROVE  ReportInv'
<1> SUFFICES ASSUME report.pc # "idle", report.closed
             PROVE  ReportInv'
  BY DEF ReportInv
<1>1. /\ report.from \in Nat /\ report.to \in Nat /\ clock \in Nat /\ clock' \in Nat
      /\ report.from < report.to /\ Closed(report.to)
      /\ 1 \in Nat /\ report.to <= at /\ report.from <= at
  BY DEF Step, HistoryInv, HistoryTypeOK, Report, Moments, ReportInv
<1>2. HistoryTypeOK /\ HistoryTypeOK' /\ ledger \subseteq Postings /\ ledger' \subseteq Postings
  BY DEF Step, HistoryInv, Inv, TypeOK
<1>3. Closed(report.to)'
  BY <1>1 DEF Closed
<1>4. /\ Posted(report.from, report.to)' = Posted(report.from, report.to)
      /\ Recorded(report.from, report.to)' = Recorded(report.from, report.to)
      /\ Posted(1, report.from)' = Posted(1, report.from)
      /\ Posted(1, report.to)' = Posted(1, report.to)
  <2>1. PICK f \in Nat, t \in Nat : f = report.from /\ t = report.to /\ f <= at /\ t <= at
    BY <1>1
  <2>2. /\ Posted(f, t)' = Posted(f, t) /\ Recorded(f, t)' = Recorded(f, t)
        /\ Posted(1, f)' = Posted(1, f) /\ Posted(1, t)' = Posted(1, t)
    BY <1>1, <1>2, <2>1, PeriodFrozen
  <2>3. f = report'.from /\ t = report'.to
    BY <2>1
  <2> QED
    BY <2>1, <2>2, <2>3
<1> QED
  BY <1>1, <1>3, <1>4 DEF ReportInv, Step, HistoryInv
------------------------------------------------------------------------------
(* The steps.                                                              *)

\* Nothing is written: the clock, a BEGIN, a report, or a step that moves no row.
LEMMA PlainStep ==
  ASSUME Step, UNCHANGED <<ledger, log, serial, postedAt, report>>,
         clock' \in Moments, clock <= clock',
         began' \in [Lanes \cup Events -> Stamp], lost' \in 0..MaxLost, reports' \in 0..MaxReports,
         \A a \in Lanes \cup Events : began'[a] \in {began[a], 0, clock},
         sweptAt' \in {sweptAt, clock},
         swept' # {} => (swept' = swept /\ sweptAt' = sweptAt) \/ sweptAt' = clock,
         unwritten' \in [Lanes \cup Orders -> SUBSET (Rows \X Status \X Status)],
         \A a \in Lanes \cup Orders : unwritten'[a] \subseteq unwritten[a]
  PROVE  HistoryInv'
<1>1. HistoryTypeOK /\ RecordsInv /\ PostingsInv /\ ReportInv /\ ledger \subseteq Postings
  BY DEF Step, HistoryInv, Inv, TypeOK
<1>2. clock \in Stamp /\ clock # 0 /\ clock \in Nat /\ clock' \in Nat /\ serial \in Nat
  BY <1>1 DEF HistoryTypeOK, Moments, Stamp
<1>3. HistoryTypeOK'
  BY <1>1, <1>2 DEF HistoryTypeOK
<1>4. \A a \in Lanes \cup Events : began'[a] <= clock'
  BY <1>1, <1>2 DEF RecordsInv, HistoryTypeOK, Stamp
<1>5. sweptAt' <= clock' /\ (swept' # {} => sweptAt' # 0)
  BY <1>1, <1>2 DEF RecordsInv, HistoryTypeOK, Stamp
<1>6. RecordsInv'
  BY <1>2, <1>3, <1>4, <1>5, RecordsKept
<1>7. PostingsInv'
  BY <1>1, <1>3, PostingsKept
<1>8. Adds(clock)
  BY DEF Adds
<1>9. report.pc # "idle" /\ report.closed => clock >= report.to
  BY <1>1, <1>2 DEF ReportInv, Closed, HistoryTypeOK, Report, Moments
<1>10. ReportInv'
  BY <1>2, <1>3, <1>8, <1>9, ReportKept
<1> QED
  BY <1>3, <1>6, <1>7, <1>10 DEF HistoryInv

\* Events that tell of no money are written.
LEMMA WritingStep ==
  ASSUME Step, UNCHANGED <<ledger, postedAt, clock, lost, report, reports>>,
         began' \in [Lanes \cup Events -> Stamp],
         \A a \in Lanes \cup Events : began'[a] \in {began[a], 0},
         sweptAt' \in Stamp, sweptAt' \in {sweptAt, 0},
         swept' # {} => swept' = swept /\ sweptAt' = sweptAt,
         unwritten' \in [Lanes \cup Orders -> SUBSET (Rows \X Status \X Status)],
         \A a \in Lanes \cup Orders : unwritten'[a] \subseteq unwritten[a],
         NEW at \in Moments, at <= clock,
         NEW moves, moves \subseteq Rows \X Status \X Status, Writes(moves, at),
         \A m \in moves : IF m[1] \in Items THEN m[3] = "refunding" /\ Says(m[1], m[3])'
                          ELSE m[2] # "created" \/ m[3] # "paid"
  PROVE  HistoryInv'
<1>1. HistoryTypeOK /\ RecordsInv /\ PostingsInv /\ ReportInv /\ ledger \subseteq Postings
  BY DEF Step, HistoryInv, Inv, TypeOK
<1>2. /\ clock \in Nat /\ serial \in Nat /\ serial' \in Nat /\ serial <= serial'
      /\ moves # {} => serial' = serial + 1
  BY <1>1 DEF HistoryTypeOK, Moments, Writes
<1>3. log \subseteq log' /\ log' \subseteq EventRow
  BY <1>1, EventsType DEF Writes, HistoryTypeOK
<1>4. HistoryTypeOK'
  BY <1>1, <1>2, <1>3 DEF HistoryTypeOK
<1>5. ASSUME NEW e \in log', e \notin log
      PROVE  /\ e.at <= clock' /\ e.id <= serial' /\ (e.row \in Items => Says(e.row, e.to)')
             /\ MoneyIn(e) = {}
  <2>1. PICK m \in moves :
          e = [id |-> serial + 1, row |-> m[1], from |-> m[2], to |-> m[3], at |-> at]
    BY <1>5 DEF Writes, EventsOf
  <2>2. /\ e.row = m[1] /\ e.from = m[2] /\ e.to = m[3] /\ e.at = at /\ e.id = serial + 1
        /\ m[1] \in Rows
    BY <2>1
  <2>3. MoneyIn(e) = {}
    BY <2>2, NoMoney, RowOf
  <2>4. serial' = serial + 1
    BY <1>2, <2>1
  <2> QED
    BY <1>2, <2>2, <2>3, <2>4
<1>6. /\ \A a \in Lanes \cup Events : began'[a] <= clock'
      /\ sweptAt' <= clock' /\ (swept' # {} => sweptAt' # 0)
  BY <1>1, <1>2 DEF RecordsInv, HistoryTypeOK, Stamp
<1>7. RecordsInv'
  BY <1>2, <1>3, <1>4, <1>5, <1>6, RecordsKept
<1>8. PostingsInv'
  BY <1>1, <1>2, <1>3, <1>4, <1>5, PostingsKept
<1>9. Adds(clock)
  BY <1>3, <1>5 DEF Adds
<1>10. report.pc # "idle" /\ report.closed => clock >= report.to
  BY <1>1, <1>2 DEF ReportInv, Closed, HistoryTypeOK, Report, Moments
<1>11. ReportInv'
  BY <1>2, <1>4, <1>9, <1>10, ReportKept
<1> QED
  BY <1>4, <1>7, <1>8, <1>11 DEF HistoryInv

\* A row moves, its event is still to come.
LEMMA LeavingStep ==
  ASSUME Step, UNCHANGED <<ledger, swept, clock, report, reports>>,
         NEW a \in Lanes \cup Orders, LeavesEvent(a),
         \A m \in Moves : IF m[1] \in Items THEN m[3] = "refunding" /\ Says(m[1], m[3])'
                          ELSE m[2] # "created"
  PROVE  HistoryInv'
<1>1. HistoryTypeOK /\ RecordsInv /\ PostingsInv /\ ReportInv /\ ledger \subseteq Postings
  BY DEF Step, HistoryInv, Inv, TypeOK
<1>2. clock \in Nat /\ clock' = clock /\ serial \in Nat
  BY <1>1 DEF HistoryTypeOK, Moments
<1>3. UNCHANGED <<began, sweptAt, log, serial, postedAt, lost>>
  BY DEF LeavesEvent
<1>4. HistoryTypeOK'
  <2>1. Moves \subseteq Rows \X Status \X Status
    BY MovesType DEF Step, Inv
  <2>2. unwritten' \in [Lanes \cup Orders -> SUBSET (Rows \X Status \X Status)]
    BY <1>1, <2>1 DEF LeavesEvent, HistoryTypeOK
  <2> QED
    BY <1>1, <1>2, <1>3, <2>2 DEF HistoryTypeOK
<1>5. \A b \in Lanes \cup Orders : unwritten'[b] = IF b = a THEN Moves ELSE unwritten[b]
  BY <1>1 DEF LeavesEvent, HistoryTypeOK
<1>6. /\ \A b \in Lanes \cup Events : began'[b] <= clock'
      /\ sweptAt' <= clock' /\ (swept' # {} => sweptAt' # 0)
  BY <1>1, <1>2, <1>3 DEF RecordsInv
<1>7. RecordsInv'
  BY <1>2, <1>3, <1>4, <1>5, <1>6, RecordsKept
<1>8. PostingsInv'
  BY <1>1, <1>2, <1>3, <1>4, PostingsKept
<1>9. Adds(clock)
  BY <1>3 DEF Adds
<1>10. report.pc # "idle" /\ report.closed => clock >= report.to
  BY <1>1, <1>2 DEF ReportInv, Closed, HistoryTypeOK, Report, Moments
<1>11. ReportInv'
  BY <1>2, <1>3, <1>4, <1>9, <1>10, ReportKept
<1> QED
  BY <1>4, <1>7, <1>8, <1>11 DEF HistoryInv

\* Money moves, in a transaction.
LEMMA MoneyCommits ==
  ASSUME Step, UNCHANGED <<swept, clock, report, reports>>,
         NEW a \in Lanes \cup Events, Commits(a),
         NEW p \in Postings, p \notin ledger, ledger' = ledger \cup {p},
         NEW r \in Rows, NEW from \in Status, NEW to \in Status, Moves = {<<r, from, to>>},
         r \in Items => Says(r, to)',
         \A e : e.row = r /\ e.from = from /\ e.to = to => MoneyIn(e) = {MoneyOf(p)}
  PROVE  HistoryInv'
<1>1. HistoryTypeOK /\ RecordsInv /\ PostingsInv /\ ReportInv /\ ledger \subseteq Postings
  BY DEF Step, HistoryInv, Inv, TypeOK
<1>2. PICK at \in Moments : at = began[a] /\ at <= clock
  BY <1>1 DEF Commits, RecordsInv, HistoryTypeOK, Stamp, Moments
<1>3. clock \in Nat /\ clock' = clock /\ serial \in Nat /\ serial' = serial + 1
  <2>1. Moves # {}
    OBVIOUS
  <2>2. serial' = IF Moves = {} THEN serial ELSE serial + 1
    BY Zenon DEF Commits, Writes
  <2>3. serial' = serial + 1
    BY <2>1, <2>2, Zenon
  <2> QED
    BY <1>1, <2>3 DEF HistoryTypeOK, Moments
<1>4. PICK e \in EventRow : /\ log' = log \cup {e} /\ e.at = at /\ e.id = serial + 1
                            /\ e.row = r /\ e.from = from /\ e.to = to
  <2> DEFINE q == [id |-> serial + 1, row |-> r, from |-> from, to |-> to, at |-> at]
  <2>1. EventsOf(Moves, at) = {q}
    BY DEF EventsOf
  <2>2. q \in EventRow
    BY <1>3 DEF EventRow
  <2>3. log' = log \cup {q}
    BY <1>2, <2>1 DEF Commits, Writes
  <2> QED
    BY <2>2, <2>3
<1>5. MoneyIn(e) = {MoneyOf(p)}
  BY <1>4
<1>6. Posts(at) /\ UNCHANGED <<sweptAt, unwritten, lost>>
  BY <1>2 DEF Commits
<1>7. HistoryTypeOK'
  <2>1. began' \in [Lanes \cup Events -> Stamp]
    BY <1>1, HistoryAssumption DEF Commits, HistoryTypeOK, Stamp
  <2>2. postedAt' \in [Postings -> Stamp]
    BY <1>1, <1>6 DEF Posts, HistoryTypeOK, Stamp, Moments
  <2>3. log' \subseteq EventRow
    BY <1>1, <1>4 DEF HistoryTypeOK
  <2> QED
    BY <1>1, <1>3, <1>6, <2>1, <2>2, <2>3 DEF HistoryTypeOK
<1>8. \A b \in Lanes \cup Events : began'[b] \in {began[b], 0}
  BY <1>1 DEF Commits, HistoryTypeOK
<1>9. /\ \A b \in Lanes \cup Events : began'[b] <= clock'
      /\ sweptAt' <= clock' /\ (swept' # {} => sweptAt' # 0)
  BY <1>1, <1>3, <1>6, <1>8 DEF RecordsInv, HistoryTypeOK, Stamp
<1>10. RecordsInv'
  BY <1>2, <1>3, <1>4, <1>6, <1>7, <1>9, RecordsKept
<1>11. PostingsInv'
  BY <1>1, <1>2, <1>4, <1>5, <1>6, <1>7, PostingsAdded
<1>12. Adds(at)
  BY <1>1, <1>4, <1>6 DEF Adds, Posts
<1>13. report.pc # "idle" /\ report.closed => at >= report.to
  BY <1>1, <1>2 DEF ReportInv, Closed, HistoryTypeOK, Report, Moments
<1>14. ReportInv'
  BY <1>2, <1>3, <1>7, <1>8, <1>12, <1>13, ReportKept DEF Moments
<1> QED
  BY <1>7, <1>10, <1>11, <1>14 DEF HistoryInv
\* A transaction that moves no money.
LEMMA PlainCommits ==
  ASSUME Step, UNCHANGED <<ledger, swept, clock, report, reports>>,
         NEW a \in Lanes \cup Events, Commits(a),
         \A m \in Moves : m[1] \in Orders /\ (m[2] # "created" \/ m[3] # "paid")
  PROVE  HistoryInv'
<1>1. HistoryTypeOK /\ RecordsInv
  BY DEF Step, HistoryInv
<1>2. PICK at \in Moments : at = began[a] /\ at <= clock
  BY <1>1 DEF Commits, RecordsInv, HistoryTypeOK, Stamp, Moments
<1>3. /\ began' \in [Lanes \cup Events -> Stamp]
      /\ \A b \in Lanes \cup Events : began'[b] \in {began[b], 0}
  BY <1>1, HistoryAssumption DEF Commits, HistoryTypeOK, Stamp
<1>4. UNCHANGED <<sweptAt, unwritten, lost>> /\ Writes(Moves, at) /\ Posts(at)
  BY <1>2 DEF Commits
<1>5. postedAt' = postedAt
  BY <1>1, <1>4 DEF Posts, HistoryTypeOK
<1>6. Moves \subseteq Rows \X Status \X Status
  BY MovesType DEF Step, Inv
<1>7. \A m \in Moves : IF m[1] \in Items THEN m[3] = "refunding" /\ Says(m[1], m[3])'
                       ELSE m[2] # "created" \/ m[3] # "paid"
  BY RowOf
<1>8. sweptAt' \in Stamp /\ unwritten' \in [Lanes \cup Orders -> SUBSET (Rows \X Status \X Status)]
  BY <1>1, <1>4 DEF HistoryTypeOK
<1> DEFINE moves == Moves
<1>9. moves \subseteq Rows \X Status \X Status /\ Writes(moves, at)
      /\ \A m \in moves : IF m[1] \in Items THEN m[3] = "refunding" /\ Says(m[1], m[3])'
                          ELSE m[2] # "created" \/ m[3] # "paid"
  BY <1>4, <1>6, <1>7
<1> HIDE DEF moves
<1> QED
  BY <1>2, <1>3, <1>4, <1>5, <1>8, <1>9, WritingStep

LEMMA SweptKept ==
  ASSUME \/ \E l \in Lanes : Together(l) \/ Apart(l) \/ Silent(l) \/ Abandon(l)
         \/ \E e \in Events : Webhook(e)
         \/ \E o \in Orders : RetryDelivery(o) \/ SlotOpens(o)
  PROVE  swept' = swept
  BY DEF Together, Claim, Complete, BookRefund, Apart, DecideRefund, Finish, Silent, ReadItems,
     Issued, Refused, NoAnswer, PspRefunds, PspFails, ReadVerdict, Abandon, Webhook,
     RetryDelivery, SlotOpens

LEMMA StatusNames ==
  {"created", "paid", "payment_failed", "pending", "delivered", "refunding", "refunded"}
    \subseteq Status
  BY DEF Status, OrderStatus, Unpaid, Settled, ItemStatus, Open

LEMMA TogetherStep ==
  ASSUME Step, NEW l \in Lanes, Together(l), Commits(l), UNCHANGED <<clock, report, reports>>
  PROVE  HistoryInv'
<1>0. TypeOK /\ swept' = swept
  BY SweptKept DEF Step, Inv
<1>1. CASE UNCHANGED <<orderStatus, itemStatus, ledger>>
  <2>1. Moves = {}
    BY <1>1, NothingMoves
  <2> QED
    BY <1>0, <1>1, <2>1, PlainCommits
<1>2. ASSUME NEW o \in Orders, Takes(o) PROVE HistoryInv'
  <2>1. Moves = {<<o, "paid", "delivering">>}
    BY <1>0, <1>2, OrderMoves DEF Takes
  <2>2. ledger' = ledger
    BY <1>2 DEF Takes
  <2> QED
    BY <1>0, <2>1, <2>2, PlainCommits
<1>3. ASSUME NEW i \in Items, SettlesItem(i, "pending", "delivered", <<"delivery", i>>)
      PROVE  HistoryInv'
  <2>1. Moves = {<<i, "pending", "delivered">>}
    BY <1>0, <1>3, ItemMoves DEF SettlesItem
  <2>2. Says(i, "delivered")'
    BY <1>0, <1>3 DEF SettlesItem, Says, TypeOK
  <2>3. PICK p \in Postings : p = <<"delivery", i>> /\ MoneyOf(p) = p
                              /\ p \notin ledger /\ ledger' = ledger \cup {p}
    BY <1>3 DEF Postings, MoneyOf, SettlesItem
  <2>4. \A e : e.row = i /\ e.from = "pending" /\ e.to = "delivered" => MoneyIn(e) = {MoneyOf(p)}
    BY <2>3, SettlementMoney
  <2> QED
    BY <1>0, <2>1, <2>2, <2>3, <2>4, RowOf, StatusNames, MoneyCommits
<1>4. ASSUME NEW i \in Items, SettlesItem(i, "refunding", "refunded", <<"refund", i>>)
      PROVE  HistoryInv'
  <2>1. Moves = {<<i, "refunding", "refunded">>}
    BY <1>0, <1>4, ItemMoves DEF SettlesItem
  <2>2. Says(i, "refunded")'
    BY <1>0, <1>4 DEF SettlesItem, Says, TypeOK
  <2>3. PICK p \in Postings : p = <<"refund", i>> /\ MoneyOf(p) = p
                              /\ p \notin ledger /\ ledger' = ledger \cup {p}
    BY <1>4 DEF Postings, MoneyOf, SettlesItem
  <2>4. \A e : e.row = i /\ e.from = "refunding" /\ e.to = "refunded" => MoneyIn(e) = {MoneyOf(p)}
    BY <2>3, SettlementMoney
  <2> QED
    BY <1>0, <2>1, <2>2, <2>3, <2>4, RowOf, StatusNames, MoneyCommits
<1> QED
  BY <1>1, <1>2, <1>3, <1>4, TogetherEffect DEF Step

LEMMA WebhookStep ==
  ASSUME Step, NEW e \in Events, WebhookCommits(e)
  PROVE  HistoryInv'
<1>0. /\ TypeOK /\ swept' = swept /\ Webhook(e) /\ Commits(e)
      /\ itemStatus' = itemStatus /\ UNCHANGED <<clock, report, reports>>
  BY SweptKept DEF Step, Inv, WebhookCommits, Webhook
<1>1. CASE UNCHANGED <<orderStatus, ledger>>
  <2>1. Moves = {}
    BY <1>0, <1>1, NothingMoves
  <2> QED
    BY <1>0, <1>1, <2>1, PlainCommits
<1>2. CASE /\ EventOrder[e] \in Orders /\ orderStatus[EventOrder[e]] = "created"
           /\ orderStatus' = [orderStatus EXCEPT ![EventOrder[e]] = "payment_failed"]
           /\ ledger' = ledger
  <2>1. Moves = {<<EventOrder[e], "created", "payment_failed">>}
    BY <1>0, <1>2, OrderMoves
  <2> QED
    BY <1>0, <1>2, <2>1, PlainCommits
<1>3. CASE /\ EventOrder[e] \in Orders /\ orderStatus[EventOrder[e]] = "created"
           /\ orderStatus' = [orderStatus EXCEPT ![EventOrder[e]] = "paid"]
           /\ ledger' = ledger \cup {<<"payment", e>>} /\ <<"payment", e>> \notin ledger
  <2>1. PICK o \in Orders : o = EventOrder[e]
    BY <1>3
  <2>2. Moves = {<<o, "created", "paid">>}
    BY <1>0, <1>3, <2>1, OrderMoves
  <2>3. PICK p \in Postings : p = <<"payment", e>> /\ MoneyOf(p) = <<"payment", o>>
                              /\ p \notin ledger /\ ledger' = ledger \cup {p}
    BY <1>3, <2>1 DEF Postings, MoneyOf
  <2>4. \A f : f.row = o /\ f.from = "created" /\ f.to = "paid" => MoneyIn(f) = {MoneyOf(p)}
    BY <2>3, PaymentMoney
  <2> QED
    BY <1>0, <2>2, <2>3, <2>4, RowOf, StatusNames, MoneyCommits
<1> QED
  BY <1>0, <1>1, <1>2, <1>3, WebhookEffect DEF Step

LEMMA ApartStep ==
  ASSUME Step, NEW a \in Lanes \cup Orders, LeavesEvent(a), UNCHANGED <<clock, report, reports>>,
         (\E l \in Lanes : Apart(l)) \/ (\E o \in Orders : RetryDelivery(o))
  PROVE  HistoryInv'
<1>0. TypeOK /\ TypeOK' /\ swept' = swept /\ ledger' = ledger
  BY SweptKept, ApartEffect DEF Step, Inv
<1>1. CASE UNCHANGED <<orderStatus, itemStatus>>
  <2>1. Moves = {}
    BY <1>1, NothingMoves
  <2> QED
    BY <1>0, <2>1, LeavingStep
<1>2. ASSUME NEW i \in Items, Decided(i) PROVE HistoryInv'
  <2>1. Moves = {<<i, "pending", "refunding">>}
    BY <1>0, <1>2, ItemMoves DEF Decided
  <2>2. Says(i, "refunding")'
    BY <1>0, <1>2 DEF Decided, Says, TypeOK
  <2> QED
    BY <1>0, <2>1, <2>2, LeavingStep
<1>3. ASSUME NEW o \in Orders, Verdicts(o) PROVE HistoryInv'
  <2>1. PICK s \in OrderStatus : s # orderStatus[o] /\ orderStatus' = [orderStatus EXCEPT ![o] = s]
    BY <1>3 DEF Verdicts
  <2>2. Moves = {<<o, orderStatus[o], s>>} /\ orderStatus[o] # "created"
    BY <1>0, <1>3, <2>1, OrderMoves DEF Verdicts
  <2> QED
    BY <1>0, <2>2, RowOf, LeavingStep
<1> QED
  BY <1>1, <1>2, <1>3, ApartEffect DEF Step

LEMMA UnwrittenEmptied ==
  ASSUME HistoryTypeOK, NEW a \in Lanes \cup Orders,
         unwritten' = [unwritten EXCEPT ![a] = {}]
  PROVE  /\ unwritten' \in [Lanes \cup Orders -> SUBSET (Rows \X Status \X Status)]
         /\ \A b \in Lanes \cup Orders : unwritten'[b] \subseteq unwritten[b]
  BY DEF HistoryTypeOK

\* The steps that write nothing.
LEMMA QuietStep ==
  ASSUME Step,
         \/ \E l \in Lanes : Silent(l) /\ UNCHANGED <<historyVars, clock, report, reports>>
         \/ \E o \in Orders : TimePasses(o)
         \/ \E old \in SUBSET Orders : SweepBegins(old)
         \/ \E a \in Lanes \cup Events : Begins(a)
         \/ \E l \in Lanes : NothingToClaim(l) \/ LaneDies(l)
         \/ \E a \in Lanes \cup Orders : LosesEvent(a)
         \/ Tick
         \/ UNCHANGED allVars
  PROVE  HistoryInv'
<1>1. HistoryTypeOK
  BY DEF Step, HistoryInv
<1>2. /\ clock \in Moments /\ clock \in Nat /\ clock \in Stamp /\ 0 \in Stamp /\ clock <= clock
      /\ lost \in 0..MaxLost /\ reports \in 0..MaxReports
      /\ began \in [Lanes \cup Events -> Stamp]
      /\ unwritten \in [Lanes \cup Orders -> SUBSET (Rows \X Status \X Status)]
  BY <1>1, HistoryAssumption DEF HistoryTypeOK, Moments, Stamp
<1>3. CASE \/ \E l \in Lanes : Silent(l) /\ UNCHANGED <<historyVars, clock, report, reports>>
           \/ \E o \in Orders : TimePasses(o)
           \/ UNCHANGED allVars
  <2>1. UNCHANGED <<historyVars, clock, report, reports>>
    BY <1>3 DEF TimePasses, allVars
  <2>2. UNCHANGED <<ledger, swept>>
    BY <1>3, SilentEffect, SweptKept DEF TimePasses, allVars, vars, tables
  <2> QED
    BY <1>2, <2>1, <2>2, PlainStep DEF historyVars
<1>4. ASSUME NEW old \in SUBSET Orders, SweepBegins(old) PROVE HistoryInv'
  <2>1. ledger' = ledger
    BY <1>4 DEF SweepBegins, SweepSelects, tables
  <2> QED
    BY <1>2, <1>4, <2>1, PlainStep DEF SweepBegins
<1>5. ASSUME NEW a \in Lanes \cup Events, Begins(a) PROVE HistoryInv'
  <2>1. UNCHANGED <<ledger, swept, clock, sweptAt, log, serial, postedAt, unwritten, lost,
                    report, reports>>
    BY <1>5 DEF Begins, vars, tables
  <2>2. began' \in [Lanes \cup Events -> Stamp]
        /\ \A b \in Lanes \cup Events : began'[b] \in {began[b], 0, clock}
    BY <1>2, <1>5 DEF Begins
  <2> QED
    BY <1>2, <2>1, <2>2, PlainStep
<1>6. ASSUME NEW l \in Lanes, NothingToClaim(l) PROVE HistoryInv'
  <2>1. UNCHANGED <<ledger, swept, clock, sweptAt, log, serial, postedAt, unwritten, lost,
                    report, reports>>
    BY <1>6 DEF NothingToClaim, vars, tables
  <2>2. began' \in [Lanes \cup Events -> Stamp]
        /\ \A b \in Lanes \cup Events : began'[b] \in {began[b], 0, clock}
    BY <1>2, <1>6 DEF NothingToClaim
  <2> QED
    BY <1>2, <2>1, <2>2, PlainStep
<1>7. ASSUME NEW l \in Lanes, LaneDies(l) PROVE HistoryInv'
  <2>1. UNCHANGED <<ledger, swept>>
    BY <1>7, SilentEffect, SweptKept DEF LaneDies
  <2>2. UNCHANGED <<clock, sweptAt, log, serial, postedAt, report, reports>>
    BY <1>7 DEF LaneDies
  <2>3. began' \in [Lanes \cup Events -> Stamp]
        /\ \A b \in Lanes \cup Events : began'[b] \in {began[b], 0, clock}
    BY <1>2, <1>7 DEF LaneDies
  <2>4. unwritten' \in [Lanes \cup Orders -> SUBSET (Rows \X Status \X Status)]
        /\ \A b \in Lanes \cup Orders : unwritten'[b] \subseteq unwritten[b]
    BY <1>1, <1>7, UnwrittenEmptied DEF LaneDies, Forgets
  <2>5. lost' \in 0..MaxLost
    BY <1>2, <1>7, HistoryAssumption DEF LaneDies, Forgets
  <2> QED
    BY <1>2, <2>1, <2>2, <2>3, <2>4, <2>5, PlainStep
<1>8. ASSUME NEW a \in Lanes \cup Orders, LosesEvent(a) PROVE HistoryInv'
  <2>1. UNCHANGED <<ledger, swept, clock, began, sweptAt, log, serial, postedAt, report, reports>>
    BY <1>8 DEF LosesEvent, vars, tables
  <2>2. unwritten' \in [Lanes \cup Orders -> SUBSET (Rows \X Status \X Status)]
        /\ \A b \in Lanes \cup Orders : unwritten'[b] \subseteq unwritten[b]
    BY <1>1, <1>8, UnwrittenEmptied DEF LosesEvent, Forgets
  <2>3. lost' \in 0..MaxLost
    BY <1>2, <1>8, HistoryAssumption DEF LosesEvent, Forgets
  <2> QED
    BY <1>2, <2>1, <2>2, <2>3, PlainStep
<1>9. CASE Tick
  <2>1. UNCHANGED <<ledger, swept, historyVars, report, reports>>
    BY <1>9 DEF Tick, vars, tables
  <2>2. clock' \in Moments /\ clock <= clock'
    BY <1>2, <1>9, HistoryAssumption DEF Tick, Moments
  <2> QED
    BY <1>2, <2>1, <2>2, PlainStep DEF historyVars
<1> QED
  BY <1>3, <1>4, <1>5, <1>6, <1>7, <1>8, <1>9

\* The INSERT that follows an UPDATE on its own.
LEMMA WritesEventStep ==
  ASSUME Step, NEW a \in Lanes \cup Orders, WritesEvent(a)
  PROVE  HistoryInv'
<1>1. HistoryTypeOK /\ RecordsInv
  BY DEF Step, HistoryInv
<1>2. /\ UNCHANGED <<ledger, swept, postedAt, clock, lost, report, reports, began, sweptAt>>
      /\ [Next]_vars /\ Inv
  BY DEF WritesEvent, vars, tables, Step
<1>3. /\ clock \in Moments /\ clock <= clock
      /\ began' \in [Lanes \cup Events -> Stamp] /\ sweptAt' \in Stamp
  BY <1>1, <1>2 DEF HistoryTypeOK, Moments
<1>4. unwritten' \in [Lanes \cup Orders -> SUBSET (Rows \X Status \X Status)]
      /\ \A b \in Lanes \cup Orders : unwritten'[b] \subseteq unwritten[b]
  BY <1>1, UnwrittenEmptied DEF WritesEvent
<1> DEFINE moves == unwritten[a]
<1>5. moves \subseteq Rows \X Status \X Status /\ Writes(moves, clock)
  BY <1>1 DEF WritesEvent, HistoryTypeOK
<1>6. ASSUME NEW m \in moves
      PROVE  IF m[1] \in Items THEN m[3] = "refunding" /\ Says(m[1], m[3])'
             ELSE m[2] # "created" \/ m[3] # "paid"
  <2>1. IF m[1] \in Items THEN m[3] = "refunding" /\ Says(m[1], m[3]) ELSE m[2] # "created"
    BY <1>1 DEF RecordsInv
  <2>2. m[1] \in Items => Says(m[1], m[3])'
    BY <1>2, <2>1, SaysStays
  <2> QED
    BY <2>1, <2>2
<1> HIDE DEF moves
<1> QED
  BY <1>2, <1>3, <1>4, <1>5, <1>6, WritingStep

\* The sweep's statement commits.
LEMMA SweepStep ==
  ASSUME Step, SweepCommits
  PROVE  HistoryInv'
<1>1. HistoryTypeOK /\ RecordsInv
  BY DEF Step, HistoryInv
<1>2. swept # {} /\ swept \subseteq Orders
  BY DEF SweepCommits, SweepMoves, Step, Inv, TypeOK
<1>3. /\ UNCHANGED <<ledger, postedAt, clock, lost, report, reports, began, unwritten>>
      /\ sweptAt' = 0 /\ swept' = {}
  BY DEF SweepCommits, SweepMoves
<1>4. /\ sweptAt \in Moments /\ sweptAt <= clock /\ sweptAt' \in Stamp
      /\ began' \in [Lanes \cup Events -> Stamp]
      /\ unwritten' \in [Lanes \cup Orders -> SUBSET (Rows \X Status \X Status)]
  BY <1>1, <1>2, <1>3, HistoryAssumption DEF HistoryTypeOK, RecordsInv, Moments, Stamp
<1>5. PICK from \in SweptStatuses : Writes({<<o, from, "paid">> : o \in swept}, sweptAt)
  BY DEF SweepCommits
<1> DEFINE moves == {<<o, from, "paid">> : o \in swept}
<1>6. from \in Status /\ from # "created"
  BY DEF SweptStatuses, Status, OrderStatus
<1>7. moves \subseteq Rows \X Status \X Status /\ Writes(moves, sweptAt)
  BY <1>2, <1>5, <1>6, StatusNames DEF Rows
<1>8. \A m \in moves : IF m[1] \in Items THEN m[3] = "refunding" /\ Says(m[1], m[3])'
                       ELSE m[2] # "created" \/ m[3] # "paid"
  BY <1>2, <1>6, RowOf
<1> HIDE DEF moves
<1> QED
  BY <1>3, <1>4, <1>7, <1>8, WritingStep

\* A query of the report changes the report alone.
LEMMA QueryStep ==
  ASSUME Step, UNCHANGED <<vars, historyVars, clock>>, report' \in Report,
         reports' \in 0..MaxReports, ReportInv'
  PROVE  HistoryInv'
<1>1. HistoryTypeOK /\ RecordsInv /\ PostingsInv
  BY DEF Step, HistoryInv
<1>2. UNCHANGED <<itemStatus, swept, ledger, began, sweptAt, log, serial, postedAt, unwritten,
                  lost, clock>>
  BY DEF vars, tables, historyVars
<1>3. HistoryTypeOK'
  BY <1>1, <1>2 DEF HistoryTypeOK
<1>4. RecordsInv'
  BY <1>1, <1>2 DEF RecordsInv, Says
<1>5. PostingsInv'
  BY <1>1, <1>2 DEF PostingsInv
<1> QED
  BY <1>3, <1>4, <1>5 DEF HistoryInv

\* What the queries say does not depend on the report.
LEMMA QueriesStay ==
  ASSUME UNCHANGED <<vars, historyVars, clock>>, NEW from, NEW to
  PROVE  /\ Posted(from, to)' = Posted(from, to) /\ Recorded(from, to)' = Recorded(from, to)
         /\ Closed(to)' = Closed(to)
<1>1. UNCHANGED <<ledger, log, postedAt, began, clock>>
  BY DEF vars, tables, historyVars
<1> QED
  BY <1>1 DEF Posted, Recorded, Closed

LEMMA PostedType ==
  ASSUME Inv, NEW from, NEW to
  PROVE  Posted(from, to) \subseteq Money
<1>1. ASSUME NEW p \in ledger PROVE MoneyOf(p) \in Money
  <2>1. p \in Postings
    BY DEF Inv, TypeOK
  <2>2. CASE p[1] = "payment"
    <3>1. PICK e \in Events : p = <<"payment", e>>
      BY <2>1, <2>2 DEF Postings
    <3>2. EventOrder[e] \in Orders
      BY <1>1, <3>1 DEF Inv, RowsInv
    <3> QED
      BY <3>1, <3>2 DEF MoneyOf, Money
  <2>3. CASE p[1] # "payment"
    BY <2>1, <2>3 DEF Postings, Money, MoneyOf
  <2> QED
    BY <2>2, <2>3
<1> QED
  BY <1>1 DEF Posted

LEMMA RecordedType ==
  ASSUME HistoryTypeOK, NEW from, NEW to
  PROVE  Recorded(from, to) \subseteq Money
  BY MoneyTypes DEF Recorded, HistoryTypeOK

LEMMA ReadsMovedStep ==
  ASSUME Step, NEW from \in Moments, NEW to \in Moments, from < to, ReadsMoved(from, to)
  PROVE  HistoryInv'
<1>1. UNCHANGED <<vars, historyVars, clock>>
  BY DEF ReadsMoved
<1> DEFINE moved == Posted(from, to)
           closed == Closed(to)
<1>2. moved \subseteq Money /\ closed \in BOOLEAN /\ NoReport \in Report
  BY PostedType, HistoryAssumption DEF Step, Closed, NoReport, Report, Moments
<1>3. moved' = moved /\ closed' = closed
  BY <1>1, QueriesStay
<1>4. report' = [NoReport EXCEPT !.pc = "events", !.from = from, !.to = to,
                                 !.closed = closed, !.moved = moved]
  BY DEF ReadsMoved
<1>5. moved' = Posted(from, to)' /\ closed' = Closed(to)'
  OBVIOUS
<1> HIDE DEF moved, closed
<1>6. report' \in Report
  BY <1>2, <1>4 DEF Report
<1>7. /\ report'.pc = "events" /\ report'.from = from /\ report'.to = to
      /\ report'.closed = closed /\ report'.moved = moved
  BY <1>2, <1>4 DEF Report
<1>8. ReportInv'
  BY <1>3, <1>5, <1>7 DEF ReportInv
<1>9. reports' \in 0..MaxReports
  BY HistoryAssumption DEF ReadsMoved, Step, HistoryInv, HistoryTypeOK
<1> QED
  BY <1>1, <1>6, <1>8, <1>9, QueryStep

LEMMA ReadsStep ==
  ASSUME Step, ReadsEvents \/ ReadsOpening \/ ReadsClosing
  PROVE  HistoryInv'
<1>1. UNCHANGED <<vars, historyVars, clock>> /\ reports' \in 0..MaxReports /\ report \in Report
  BY DEF ReadsEvents, ReadsOpening, ReadsClosing, Reads, Step, HistoryInv, HistoryTypeOK
<1>2. PICK from \in Moments, to \in Moments : from = report.from /\ to = report.to
  BY <1>1 DEF Report
<1>3. ReportInv
  BY DEF Step, HistoryInv
<1>4. /\ Posted(from, to)' = Posted(from, to) /\ Recorded(from, to)' = Recorded(from, to)
      /\ Posted(1, from)' = Posted(1, from) /\ Posted(1, to)' = Posted(1, to)
      /\ Closed(to)' = Closed(to)
  BY <1>1, QueriesStay
<1>5. CASE ReadsEvents
  <2> DEFINE read == Recorded(from, to)
  <2>1. read \subseteq Money
    BY RecordedType DEF Step, HistoryInv
  <2>2. report.pc = "events" /\ report' = [report EXCEPT !.pc = "opening", !.events = read]
    BY <1>2, <1>5 DEF ReadsEvents, Reads
  <2>3. read = Recorded(from, to)
    OBVIOUS
  <2> HIDE DEF read
  <2>4. report' \in Report
    BY <1>1, <2>1, <2>2 DEF Report
  <2>5. /\ report'.pc = "opening" /\ report'.from = from /\ report'.to = to
        /\ report'.closed = report.closed /\ report'.moved = report.moved /\ report'.events = read
    BY <1>1, <1>2, <2>2 DEF Report
  <2>6. ReportInv'
    BY <1>2, <1>3, <1>4, <2>2, <2>3, <2>5 DEF ReportInv
  <2> QED
    BY <1>1, <2>4, <2>6, QueryStep
<1>6. CASE ReadsOpening
  <2> DEFINE read == Posted(1, from)
  <2>1. read \subseteq Money
    BY PostedType DEF Step
  <2>2. report.pc = "opening" /\ report' = [report EXCEPT !.pc = "closing", !.opening = read]
    BY <1>2, <1>6 DEF ReadsOpening, Reads
  <2>3. read = Posted(1, from)
    OBVIOUS
  <2> HIDE DEF read
  <2>4. report' \in Report
    BY <1>1, <2>1, <2>2 DEF Report
  <2>5. /\ report'.pc = "closing" /\ report'.from = from /\ report'.to = to
        /\ report'.closed = report.closed /\ report'.moved = report.moved
        /\ report'.events = report.events /\ report'.opening = read
    BY <1>1, <1>2, <2>2 DEF Report
  <2>6. ReportInv'
    BY <1>2, <1>3, <1>4, <2>2, <2>3, <2>5 DEF ReportInv
  <2> QED
    BY <1>1, <2>4, <2>6, QueryStep
<1>7. CASE ReadsClosing
  <2> DEFINE read == Posted(1, to)
  <2>1. read \subseteq Money
    BY PostedType DEF Step
  <2>2. report.pc = "closing" /\ report' = [report EXCEPT !.pc = "done", !.closing = read]
    BY <1>2, <1>7 DEF ReadsClosing, Reads
  <2>3. read = Posted(1, to)
    OBVIOUS
  <2> HIDE DEF read
  <2>4. report' \in Report
    BY <1>1, <2>1, <2>2 DEF Report
  <2>5. /\ report'.pc = "done" /\ report'.from = from /\ report'.to = to
        /\ report'.closed = report.closed /\ report'.moved = report.moved
        /\ report'.events = report.events /\ report'.opening = report.opening
        /\ report'.closing = read
    BY <1>1, <1>2, <2>2 DEF Report
  <2>6. ReportInv'
    BY <1>2, <1>3, <1>4, <2>2, <2>3, <2>5 DEF ReportInv
  <2> QED
    BY <1>1, <2>4, <2>6, QueryStep
<1> QED
  BY <1>5, <1>6, <1>7

------------------------------------------------------------------------------
(* The invariant.                                                          *)

LEMMA HistoryInvInit == HistoryInit => HistoryInv
<1> SUFFICES ASSUME HistoryInit PROVE HistoryInv
  OBVIOUS
<1>1. ledger = {} /\ swept = {}
  BY DEF HistoryInit, Init
<1>2. HistoryTypeOK
  BY HistoryAssumption DEF HistoryInit, HistoryTypeOK, Moments, Stamp, NoReport, Report
<1>3. RecordsInv
  BY <1>1 DEF HistoryInit, RecordsInv
<1>4. PostingsInv
  BY <1>1 DEF HistoryInit, PostingsInv
<1>5. ReportInv
  BY DEF HistoryInit, ReportInv, NoReport
<1> QED
  BY <1>2, <1>3, <1>4, <1>5 DEF HistoryInv

LEMMA HistoryInvNext ==
  ASSUME Inv, HistoryInv, [HistoryNext]_allVars
  PROVE  HistoryInv'
<1>1. Step
  <2>1. [Next]_vars
    BY HistoryMoves
  <2>2. Inv'
    BY <2>1, InvNext
  <2> QED
    BY <2>1, <2>2 DEF Step
<1>2. ASSUME NEW l \in Lanes, LaneStep(l) PROVE HistoryInv'
  <2>1. UNCHANGED <<clock, report, reports>>
    BY <1>2 DEF LaneStep
  <2>2. CASE Together(l) /\ Commits(l)
    BY <1>1, <2>1, <2>2, TogetherStep
  <2>3. CASE Apart(l) /\ LeavesEvent(l)
    BY <1>1, <2>1, <2>3, ApartStep
  <2>4. CASE Silent(l) /\ UNCHANGED historyVars
    BY <1>1, <2>1, <2>4, QuietStep
  <2> QED
    BY <1>2, <2>2, <2>3, <2>4 DEF LaneStep
<1>3. ASSUME NEW o \in Orders, Retries(o) PROVE HistoryInv'
  BY <1>1, <1>3, ApartStep DEF Retries
<1>4. CASE \/ \E o \in Orders : TimePasses(o)
           \/ \E old \in SUBSET Orders : SweepBegins(old)
           \/ \E a \in Lanes \cup Events : Begins(a)
           \/ \E l \in Lanes : NothingToClaim(l) \/ LaneDies(l)
           \/ \E a \in Lanes \cup Orders : LosesEvent(a)
           \/ Tick
           \/ UNCHANGED allVars
  BY <1>1, <1>4, QuietStep
<1> QED
  BY <1>1, <1>2, <1>3, <1>4, WebhookStep, WritesEventStep, SweepStep, ReadsMovedStep, ReadsStep
     DEF HistoryNext

\* The history's own invariant: postings and events go together, and what is
\* written late, or never, concerns no money.
THEOREM HistoryCorrect == HistorySpec => []HistoryInv
<1>1. HistorySpec => []Inv
  BY HistoryOnlyWatches, InvCorrect, PTL
<1>2. HistoryInit => HistoryInv
  BY HistoryInvInit
<1>3. Inv /\ HistoryInv /\ [HistoryNext]_allVars => HistoryInv'
  BY HistoryInvNext
<1> QED
  BY <1>1, <1>2, <1>3, PTL DEF HistorySpec

------------------------------------------------------------------------------
(* What follows from it.                                                   *)

LEMMA QueriesSay ==
  ASSUME NEW from, NEW to, NEW m
  PROVE  /\ m \in Posted(from, to) <=>
              \E p \in ledger : from <= postedAt[p] /\ postedAt[p] < to /\ m = MoneyOf(p)
         /\ m \in Recorded(from, to) <=>
              \E e \in log : from <= e.at /\ e.at < to /\ m \in MoneyIn(e)
  BY DEF Posted, Recorded

LEMMA PostingsAgree ==
  ASSUME PostingsInv, NEW from, NEW to
  PROVE  Posted(from, to) = Recorded(from, to)
<1> SUFFICES ASSUME NEW m
             PROVE  m \in Posted(from, to) <=> m \in Recorded(from, to)
  OBVIOUS
<1>1. ASSUME m \in Posted(from, to) PROVE m \in Recorded(from, to)
  <2>1. PICK p \in ledger : from <= postedAt[p] /\ postedAt[p] < to /\ m = MoneyOf(p)
    BY <1>1, QueriesSay
  <2>2. PICK e \in log : e.at = postedAt[p] /\ MoneyOf(p) \in MoneyIn(e)
    BY DEF PostingsInv
  <2> QED
    BY <2>1, <2>2, QueriesSay
<1>2. ASSUME m \in Recorded(from, to) PROVE m \in Posted(from, to)
  <2>1. PICK e \in log : from <= e.at /\ e.at < to /\ m \in MoneyIn(e)
    BY <1>2, QueriesSay
  <2>2. PICK p \in ledger : MoneyOf(p) = m /\ postedAt[p] = e.at
    BY <2>1 DEF PostingsInv
  <2> QED
    BY <2>1, <2>2, QueriesSay
<1> QED
  BY <1>1, <1>2

\* Postings and events tell of the same money, for every period and at every
\* instant, whatever crashed and however passes overlapped.
THEOREM MoneyAlwaysRecorded == HistorySpec => []MoneyIsRecorded
<1>1. HistoryInv => MoneyIsRecorded
  BY PostingsAgree DEF HistoryInv, MoneyIsRecorded
<1> QED
  BY <1>1, HistoryCorrect, PTL

\* An order is paid for once, and an item settled once: money is not counted twice.
LEMMA MoneyOnce ==
  ASSUME Inv, NEW p \in ledger, NEW q \in ledger, MoneyOf(p) = MoneyOf(q)
  PROVE  p = q
<1>1. p \in Postings /\ q \in Postings
  BY DEF Inv, TypeOK
<1>2. CASE p[1] = "payment" /\ q[1] = "payment"
  <2>1. PICK e \in Events, f \in Events : p = <<"payment", e>> /\ q = <<"payment", f>>
    BY <1>1, <1>2 DEF Postings
  <2>2. EventOrder[e] = EventOrder[f] /\ EventOrder[e] \in Orders
    BY <2>1 DEF MoneyOf, Inv, RowsInv
  <2> DEFINE payments ==
        {g \in Events : EventOrder[g] = EventOrder[e] /\ <<"payment", g>> \in ledger}
  <2>3. payments = {} \/ \E g \in payments : payments = {g}
    BY <2>2 DEF Inv, BooksBalance
  <2>4. e \in payments /\ f \in payments
    BY <2>1, <2>2
  <2> QED
    BY <2>1, <2>3, <2>4
<1>3. CASE p[1] # "payment" \/ q[1] # "payment"
  BY <1>1, <1>3 DEF MoneyOf, Postings
<1> QED
  BY <1>2, <1>3

\* A report on a period that nobody can still write to balances and agrees with
\* the events, whatever commits between its queries.
THEOREM ClosedReportsAlwaysHold == HistorySpec => []ClosedReportsHold
<1>1. Inv /\ HistoryInv => ClosedReportsHold
  <2> SUFFICES ASSUME Inv, HistoryInv, report.pc = "done", report.closed
               PROVE  Balanced /\ EventsAgree
    BY DEF ClosedReportsHold
  <2>1. PICK from \in Nat, to \in Nat : /\ from = report.from /\ to = report.to
                                        /\ 1 <= from /\ from < to
    BY DEF HistoryInv, HistoryTypeOK, Report, Moments, ReportInv
  <2>2. /\ report.moved = Posted(from, to) /\ report.events = Recorded(from, to)
        /\ report.opening = Posted(1, from) /\ report.closing = Posted(1, to)
    BY <2>1 DEF HistoryInv, ReportInv
  <2>3. \A p \in ledger : postedAt[p] \in Nat /\ 1 <= postedAt[p]
    BY DEF Inv, TypeOK, HistoryInv, HistoryTypeOK, Stamp, PostingsInv
  <2>4. Posted(1, to) = Posted(1, from) \cup Posted(from, to)
    <3> SUFFICES ASSUME NEW m
                 PROVE  m \in Posted(1, to) <=> m \in Posted(1, from) \/ m \in Posted(from, to)
      OBVIOUS
    <3> QED
      BY <2>1, <2>3, QueriesSay
  <2>5. Posted(1, from) \cap Posted(from, to) = {}
    <3> SUFFICES ASSUME NEW m, m \in Posted(1, from), m \in Posted(from, to)
                 PROVE  FALSE
      OBVIOUS
    <3>1. PICK p \in ledger : postedAt[p] < from /\ m = MoneyOf(p)
      BY QueriesSay
    <3>2. PICK q \in ledger : from <= postedAt[q] /\ m = MoneyOf(q)
      BY QueriesSay
    <3>3. p = q
      BY <3>1, <3>2, MoneyOnce
    <3> QED
      BY <2>1, <2>3, <3>1, <3>2, <3>3
  <2>6. Posted(from, to) = Recorded(from, to)
    BY PostingsAgree DEF HistoryInv
  <2> QED
    BY <2>2, <2>4, <2>5, <2>6 DEF Balanced, EventsAgree
<1>2. HistorySpec => []Inv
  BY HistoryOnlyWatches, InvCorrect, PTL
<1> QED
  BY <1>1, <1>2, HistoryCorrect, PTL

\* Among a row's events up to now there is a last one.
LEMMA LastEvent ==
  ASSUME HistoryInv, NEW r, NEW first \in log, first.row = r
  PROVE  \E e \in log : e.row = r /\ \A g \in log : g.row = r => g.id <= e.id
<1> DEFINE rest == {serial - e.id : e \in {f \in log : f.row = r}}
<1>1. serial \in Nat /\ \A e \in log : e.id \in Nat /\ e.id <= serial
  BY DEF HistoryInv, HistoryTypeOK, RecordsInv, EventRow
<1>2. rest \subseteq Nat /\ rest # {}
  BY <1>1
<1>3. \E n \in rest : \A k \in rest : ~(<<k, n>> \in OpToRel(<, Nat))
  BY <1>2, NatLessThanWellFounded, WFMin, Zenon
<1>4. PICK n \in rest : \A k \in rest : ~(k < n)
  BY <1>2, <1>3, Zenon DEF OpToRel
<1>5. PICK e \in log : e.row = r /\ n = serial - e.id
  OBVIOUS
<1>6. ASSUME NEW g \in log, g.row = r PROVE g.id <= e.id
  <2>1. serial - g.id \in rest
    BY <1>6
  <2>2. ~(serial - g.id < serial - e.id)
    BY <1>4, <1>5, <2>1
  <2>3. g.id \in Nat /\ e.id \in Nat
    BY <1>1
  <2> QED
    BY <1>1, <2>2, <2>3
<1> QED
  BY <1>5, <1>6

\* A replay of an item's events says that it is delivered exactly if it is, and
\* that it is refunded only if it is, however late other events come.
THEOREM ReplayKnowsSettlements == HistorySpec => []ReplayedSettlements
<1>1. Inv /\ HistoryInv => ReplayedSettlements
  <2> SUFFICES ASSUME Inv, HistoryInv, NEW i \in Items
               PROVE  /\ Replayed(i, clock) = {"delivered"} <=> itemStatus[i] = "delivered"
                      /\ "refunded" \in Replayed(i, clock) => itemStatus[i] = "refunded"
    BY DEF ReplayedSettlements
  <2>1. \A e \in log : e.at <= clock /\ (e.row = i => Says(i, e.to))
    BY DEF HistoryInv, RecordsInv
  <2>2. \A to : to \in Replayed(i, clock) <=>
          \E e \in log : e.row = i /\ e.to = to /\ \A g \in log : g.row = i => g.id <= e.id
    BY <2>1 DEF Replayed
  <2>3. \A to \in Replayed(i, clock) : Says(i, to)
    BY <2>1, <2>2
  <2>4. ASSUME itemStatus[i] = "delivered" PROVE Replayed(i, clock) = {"delivered"}
    <3>1. <<"delivery", i>> \in ledger /\ MoneyOf(<<"delivery", i>>) = <<"delivery", i>>
      BY <2>4 DEF Inv, BooksBalance, MoneyOf
    <3>2. PICK e \in log : <<"delivery", i>> \in MoneyIn(e)
      BY <3>1 DEF HistoryInv, PostingsInv
    <3>3. e.row = i
      BY <3>2 DEF MoneyIn
    <3>4. PICK f \in log : f.row = i /\ \A g \in log : g.row = i => g.id <= f.id
      BY <3>3, LastEvent
    <3>5. f.to \in Replayed(i, clock)
      BY <2>2, <3>4
    <3>6. \A to \in Replayed(i, clock) : to = "delivered"
      BY <2>3, <2>4 DEF Says
    <3> QED
      BY <3>5, <3>6
  <2>5. ASSUME NEW to \in Replayed(i, clock), to # "refunding" PROVE itemStatus[i] = to
    BY <2>3, <2>5 DEF Says
  <2> QED
    BY <2>4, <2>5
<1>2. HistorySpec => []Inv
  BY HistoryOnlyWatches, InvCorrect, PTL
<1> QED
  BY <1>1, <1>2, HistoryCorrect, PTL
=============================================================================
