------------------------------- MODULE History -------------------------------
(***************************************************************************)
(* The history of OrderDelivery's orders: order_events, what a replay of   *)
(* them says, and the report on the money that moved in a period.          *)
(*                                                                         *)
(* Where the code passes a transaction's manager to transition(), status,  *)
(* posting and event commit together, stamped with the moment the          *)
(* transaction began. Where it passes the connection's, the UPDATE is      *)
(* committed first and the INSERT follows on its own; the actor does       *)
(* nothing else in between, but everybody else goes on.                    *)
(***************************************************************************)
EXTENDS OrderDelivery

CONSTANTS
  MaxTime,   \* bound: the last moment
  MaxLost,   \* bound: how many events a dying process leaves unwritten
  MaxReports \* bound: how many reports are made

Rows == Orders \cup Items

ASSUME HistoryAssumption ==
  /\ Orders \cap Items = {}
  /\ MaxTime \in Nat \ {0} /\ MaxLost \in Nat /\ MaxReports \in Nat

VARIABLES
  clock,     \* now()
  began,     \* when the open transaction of a lane or a webhook began, or 0
  sweptAt,   \* when the running requeue statement began, or 0
  log,       \* order_events
  serial,    \* the last id given to an event
  postedAt,  \* ledger_entries.created_at, 0 for what is not posted
  unwritten, \* status changes committed without their event, by lane or operator
  lost,      \* events never written so far
  report,    \* what moneyBetween holds in memory
  reports    \* reports so far

historyVars == <<began, sweptAt, log, serial, postedAt, unwritten, lost>>
allVars == <<vars, historyVars, clock, report, reports>>

Moments == 1..MaxTime
Stamp == 0..MaxTime
Status == OrderStatus \cup ItemStatus

EventRow == [id : Nat, row : Rows, from : Status, to : Status, at : Moments]

\* Money as the report counts it: payments of orders, settlements of items.
Money == ({"payment"} \X Orders) \cup ({"delivery", "refund"} \X Items)

Report == [pc : {"idle", "events", "opening", "closing", "done"},
           from : Moments, to : Moments, closed : BOOLEAN,
           moved : SUBSET Money, events : SUBSET Money,
           opening : SUBSET Money, closing : SUBSET Money]

NoReport == [pc |-> "idle", from |-> 1, to |-> 1, closed |-> FALSE,
             moved |-> {}, events |-> {}, opening |-> {}, closing |-> {}]

HistoryTypeOK ==
  /\ clock \in Moments
  /\ began \in [Lanes \cup Events -> Stamp]
  /\ sweptAt \in Stamp
  /\ log \subseteq EventRow
  /\ serial \in Nat
  /\ postedAt \in [Postings -> Stamp]
  /\ unwritten \in [Lanes \cup Orders -> SUBSET (Rows \X Status \X Status)]
  /\ lost \in 0..MaxLost
  /\ report \in Report
  /\ reports \in 0..MaxReports

HistoryInit ==
  /\ Init
  /\ clock = 1
  /\ began = [a \in Lanes \cup Events |-> 0]
  /\ sweptAt = 0
  /\ log = {}
  /\ serial = 0
  /\ postedAt = [p \in Postings |-> 0]
  /\ unwritten = [a \in Lanes \cup Orders |-> {}]
  /\ lost = 0
  /\ report = NoReport
  /\ reports = 0

------------------------------------------------------------------------------
(* Who writes what: transition(), in a transaction or on its own.          *)

StatusOf(r) == IF r \in Orders THEN orderStatus[r] ELSE itemStatus[r]

\* The rows this step moves, each with its old and its new status.
Moves == {<<r, StatusOf(r), StatusOf(r)'>> : r \in {q \in Rows : StatusOf(q)' # StatusOf(q)}}

EventsOf(moves, at) ==
  {[id |-> serial + 1, row |-> m[1], from |-> m[2], to |-> m[3], at |-> at] : m \in moves}

\* Each INSERT takes the next id. The row lock of the UPDATE is held until
\* the commit, so ids follow the commits as far as one row goes.
Writes(moves, at) ==
  /\ log' = log \cup EventsOf(moves, at)
  /\ serial' = IF moves = {} THEN serial ELSE serial + 1

Posts(at) ==
  postedAt' = [p \in Postings |-> IF p \in ledger' \ ledger THEN at ELSE postedAt[p]]

\* BEGIN: what now() will say until the end of the transaction.
Begins(a) ==
  /\ began[a] = 0
  /\ \/ a \in Lanes /\ lane[a].pc \in {"idle", "complete", "book"} /\ unwritten[a] = {}
     \/ a \in Events /\ eventOutcome[a] = "absent"
  /\ began' = [began EXCEPT ![a] = clock]
  /\ UNCHANGED <<vars, clock, sweptAt, log, serial, postedAt, unwritten, lost,
                 report, reports>>

\* Faulty variant: the event goes over the connection, not the transaction.
CommitsLeavingEvent(a) ==
  /\ began[a] # 0
  /\ began' = [began EXCEPT ![a] = 0]
  /\ unwritten' = [unwritten EXCEPT ![a] = Moves]
  /\ Posts(began[a])
  /\ UNCHANGED <<sweptAt, log, serial, lost>>

\* COMMIT, or ROLLBACK when the step has moved nothing.
Commits(a) ==
  /\ began[a] # 0
  /\ began' = [began EXCEPT ![a] = 0]
  /\ Writes(Moves, began[a])
  /\ Posts(began[a])
  /\ UNCHANGED <<sweptAt, unwritten, lost>>

\* The UPDATE has committed, its INSERT is still to come.
LeavesEvent(a) ==
  /\ unwritten' = [unwritten EXCEPT ![a] = Moves]
  /\ UNCHANGED <<began, sweptAt, log, serial, postedAt, lost>>

WritesEvent(a) ==
  /\ unwritten[a] # {}
  /\ Writes(unwritten[a], clock)
  /\ unwritten' = [unwritten EXCEPT ![a] = {}]
  /\ UNCHANGED <<vars, clock, began, sweptAt, postedAt, lost, report, reports>>

\* The process dies, or the INSERT fails: there is no event.
Forgets(a) ==
  /\ unwritten' = [unwritten EXCEPT ![a] = {}]
  /\ IF unwritten[a] = {} THEN UNCHANGED lost ELSE lost < MaxLost /\ lost' = lost + 1

------------------------------------------------------------------------------
(* The actors of OrderDelivery.                                            *)

\* claim, complete and the booking of a refund run in transactions ...
Together(l) == Claim(l) \/ Complete(l) \/ BookRefund(l)

\* ... the decision to refund and the verdict on the order do not.
Apart(l) == DecideRefund(l) \/ Finish(l)

Silent(l) == \/ ReadItems(l) \/ Issued(l) \/ Refused(l) \/ NoAnswer(l)
             \/ PspRefunds(l) \/ PspFails(l) \/ ReadVerdict(l)

LaneStep(l) ==
  /\ unwritten[l] = {}
  /\ \/ Together(l) /\ Commits(l)
     \/ Apart(l) /\ LeavesEvent(l)
     \/ Silent(l) /\ UNCHANGED historyVars
  /\ UNCHANGED <<clock, report, reports>>

\* claim() finds nothing: its transaction ends.
NothingToClaim(l) ==
  /\ lane[l].pc = "idle" /\ began[l] # 0
  /\ began' = [began EXCEPT ![l] = 0]
  /\ UNCHANGED <<vars, clock, sweptAt, log, serial, postedAt, unwritten, lost,
                 report, reports>>

LaneDies(l) ==
  /\ Abandon(l)
  /\ Forgets(l)
  /\ began' = [began EXCEPT ![l] = 0]
  /\ UNCHANGED <<clock, sweptAt, log, serial, postedAt, report, reports>>

\* A lane that has let go of its order, or an operator's request, dies.
LosesEvent(a) ==
  /\ unwritten[a] # {}
  /\ a \in Lanes => lane[a].pc = "idle"
  /\ Forgets(a)
  /\ UNCHANGED <<vars, clock, began, sweptAt, log, serial, postedAt, report, reports>>

WebhookCommits(e) ==
  Webhook(e) /\ Commits(e) /\ UNCHANGED <<clock, report, reports>>

Retries(o) ==
  /\ unwritten[o] = {}
  /\ RetryDelivery(o)
  /\ LeavesEvent(o)
  /\ UNCHANGED <<clock, report, reports>>

\* requeue: one statement; its events say which status the rows were selected
\* with, whatever they had become when they were moved.
SweepBegins(old) ==
  /\ SweepSelects(old)
  /\ sweptAt' = clock
  /\ UNCHANGED <<began, log, serial, postedAt, unwritten, lost, clock, report, reports>>

SweepCommits ==
  /\ SweepMoves
  /\ \E from \in SweptStatuses : Writes({<<o, from, "paid">> : o \in swept}, sweptAt)
  /\ sweptAt' = 0
  /\ UNCHANGED <<began, postedAt, unwritten, lost, clock, report, reports>>

TimePasses(o) == SlotOpens(o) /\ UNCHANGED <<historyVars, clock, report, reports>>

Tick ==
  /\ clock < MaxTime
  /\ clock' = clock + 1
  /\ UNCHANGED <<vars, historyVars, report, reports>>

------------------------------------------------------------------------------
(* moneyBetween: four queries, each with a snapshot of its own.            *)

MoneyOf(p) == IF p[1] = "payment" THEN <<"payment", EventOrder[p[2]]>> ELSE p

\* Faulty variant: the end of a period belongs to it.
PostedThrough(from, to) ==
  {MoneyOf(p) : p \in {q \in ledger : from <= postedAt[q] /\ postedAt[q] <= to}}

Posted(from, to) ==
  {MoneyOf(p) : p \in {q \in ledger : from <= postedAt[q] /\ postedAt[q] < to}}

\* The money an event tells of: an order paid for, an item delivered or refunded.
MoneyIn(e) ==
  {<<"payment", r>> : r \in {e.row} \cap {o \in Orders : e.from = "created" /\ e.to = "paid"}}
  \cup {<<"delivery", r>> : r \in {e.row} \cap {i \in Items : e.to = "delivered"}}
  \cup {<<"refund", r>> : r \in {e.row} \cap {i \in Items : e.to = "refunded"}}

Recorded(from, to) == UNION {MoneyIn(e) : e \in {f \in log : from <= f.at /\ f.at < to}}

\* No transaction that is still open will be stamped before t.
Closed(t) == t <= clock /\ \A a \in Lanes \cup Events : began[a] = 0 \/ began[a] >= t

ReadsMoved(from, to) ==
  /\ report.pc \in {"idle", "done"} /\ reports < MaxReports
  /\ reports' = reports + 1
  /\ report' = [NoReport EXCEPT !.pc = "events", !.from = from, !.to = to,
                                !.closed = Closed(to), !.moved = Posted(from, to)]
  /\ UNCHANGED <<vars, historyVars, clock>>

Reads(pc, next) ==
  /\ report.pc = pc
  /\ report' = next
  /\ UNCHANGED <<vars, historyVars, clock, reports>>

ReadsEvents ==
  Reads("events", [report EXCEPT !.pc = "opening",
                                 !.events = Recorded(report.from, report.to)])
ReadsOpening ==
  Reads("opening", [report EXCEPT !.pc = "closing", !.opening = Posted(1, report.from)])
ReadsClosing ==
  Reads("closing", [report EXCEPT !.pc = "done", !.closing = Posted(1, report.to)])

------------------------------------------------------------------------------

HistoryNext ==
  \/ \E a \in Lanes \cup Events : Begins(a)
  \/ \E a \in Lanes \cup Orders : WritesEvent(a) \/ LosesEvent(a)
  \/ \E l \in Lanes : LaneStep(l) \/ NothingToClaim(l) \/ LaneDies(l)
  \/ \E e \in Events : WebhookCommits(e)
  \/ \E o \in Orders : Retries(o) \/ TimePasses(o)
  \/ \E old \in SUBSET Orders : SweepBegins(old)
  \/ SweepCommits
  \/ Tick
  \/ \E from, to \in Moments : from < to /\ ReadsMoved(from, to)
  \/ ReadsEvents \/ ReadsOpening \/ ReadsClosing

HistorySpec == HistoryInit /\ [][HistoryNext]_allVars

------------------------------------------------------------------------------
(* Properties.                                                             *)

\* What stateAt replays for a row at t: the last of its events up to t.
Replayed(r, t) ==
  {e.to : e \in {f \in log : f.row = r /\ f.at <= t /\
                    \A g \in log : g.row = r /\ g.at <= t => g.id <= f.id}}

\* No money moves without its event, and none is told of that did not move:
\* at every instant, for every period, the postings and the events agree, also
\* after crashes and with lanes that overlap (transition, complete, refund).
MoneyIsRecorded ==
  \A from, to \in 1..(MaxTime + 1) : Posted(from, to) = Recorded(from, to)

\* The replay never gets a settlement wrong: it says that an item is delivered
\* exactly if it is, and never that one was refunded that was not, however
\* late other events of that item are written, or if they never are (stateAt).
ReplayedSettlements ==
  \A i \in Items :
    /\ Replayed(i, clock) = {"delivered"} <=> itemStatus[i] = "delivered"
    /\ "refunded" \in Replayed(i, clock) => itemStatus[i] = "refunded"

\* balanced and eventsAgree, for sets of money instead of sums and counts.
Balanced == report.closing = report.opening \cup report.moved
            /\ report.opening \cap report.moved = {}
EventsAgree == report.events = report.moved

\* A report on a period that no open transaction can still write to balances,
\* and agrees with the events, whatever commits between its queries
\* (moneyBetween).
ClosedReportsHold == report.pc = "done" /\ report.closed => Balanced /\ EventsAgree

\* What events and pending events say of an item is consistent with its row.
Says(i, to) ==
  /\ to \in {"refunding", "refunded", "delivered"}
  /\ to = "refunding" => itemStatus[i] \in {"refunding", "refunded"}
  /\ to # "refunding" => itemStatus[i] = to

RecordsInv ==
  /\ \A e \in log : e.at <= clock /\ e.id <= serial /\ (e.row \in Items => Says(e.row, e.to))
  /\ \A a \in Lanes \cup Orders : \A m \in unwritten[a] :
       IF m[1] \in Items THEN m[3] = "refunding" /\ Says(m[1], m[3]) ELSE m[2] # "created"
  /\ \A a \in Lanes \cup Events : began[a] <= clock
  /\ sweptAt <= clock /\ (swept # {} => sweptAt # 0)

\* Every posting has its event with the same stamp, and the other way round.
PostingsInv ==
  /\ \A p \in ledger : postedAt[p] # 0 /\ postedAt[p] <= clock
  /\ \A p \in ledger : \E e \in log : e.at = postedAt[p] /\ MoneyOf(p) \in MoneyIn(e)
  /\ \A e \in log : \A m \in MoneyIn(e) :
       \E p \in ledger : MoneyOf(p) = m /\ postedAt[p] = e.at

\* What a report on a closed period has read is what a query would read now.
ReportInv ==
  report.pc # "idle" /\ report.closed =>
    /\ report.from < report.to /\ Closed(report.to)
    /\ report.moved = Posted(report.from, report.to)
    /\ report.pc # "events" => report.events = Recorded(report.from, report.to)
    /\ report.pc \in {"closing", "done"} => report.opening = Posted(1, report.from)
    /\ report.pc = "done" => report.closing = Posted(1, report.to)

\* The inductive invariant.
HistoryInv == HistoryTypeOK /\ RecordsInv /\ PostingsInv /\ ReportInv

Quiet == /\ \A l \in Lanes : lane[l].pc = "idle"
         /\ \A a \in Lanes \cup Orders : unwritten[a] = {}
         /\ swept = {}

Initially(r) == IF r \in Orders THEN "created" ELSE "pending"

\* Said by order-transition.ts: "Every transition that goes through also leaves
\* an event in the same transaction, which is what makes the history complete".
HistoryIsComplete ==
  Quiet => \A r \in Rows :
             StatusOf(r) = Initially(r) \/ \E e \in log : e.row = r /\ e.to = StatusOf(r)

\* Said by order-event.entity.ts: "Folding the rows up to a moment in time gives
\* the order's state at that moment".
ReplayIsState ==
  Quiet => \A r \in Rows :
             Replayed(r, clock) = IF StatusOf(r) = Initially(r) THEN {} ELSE {StatusOf(r)}

\* Said by the comment on moneyBetween: closing balances equal opening ones plus
\* the movements, and the same comes out of the events.
ReportsHold == report.pc = "done" => Balanced /\ EventsAgree
=============================================================================
