---------------------------- MODULE Reconciliation ----------------------------
(***************************************************************************)
(* The operator's reconciliation report, made while webhooks and lanes go  *)
(* on: ReconciliationService.report sends its queries together, and each   *)
(* sees the tables at its own moment; LedgerService.balances is two of     *)
(* them, one after the other. The queries on a supplier's book are in      *)
(* SupplierAudit. A list is cut at a cap; which rows are left is open here *)
(* (the code sorts them by age). Amounts are left out: a balance is the    *)
(* set of payments, deliveries and refunds it adds up, and two balances    *)
(* agree when they add up the same.                                        *)
(***************************************************************************)
EXTENDS OrderDelivery, FiniteSets

CONSTANTS
  Canonical, \* the events that spell their order's id as the database prints it
  ListCap    \* LIMIT

ASSUME ReconAssumption == Canonical \subseteq Events /\ ListCap \in Nat \ {0}

VARIABLE recon \* what a report has read so far

Queries == {"paidNotDelivered", "deliveredNotPaid", "moneyMismatches", "unmatchedEvents",
            "paidAfterFailure", "ledger", "tables"}

Expected == [paid : SUBSET Orders, delivered : SUBSET Items,
             refunded : SUBSET Items, outstanding : SUBSET Items]

\* known is not in the code: the events recorded when the report was asked for.
Recon == [asked : BOOLEAN, left : SUBSET Queries, known : SUBSET Events,
          paidNotDelivered : SUBSET Orders, deliveredNotPaid : SUBSET Items,
          moneyMismatches : SUBSET Orders, unmatchedEvents : SUBSET Events,
          paidAfterFailure : SUBSET Events, actual : SUBSET Postings, expected : Expected]

NoRecon == [asked |-> FALSE, left |-> Queries, known |-> {},
            paidNotDelivered |-> {}, deliveredNotPaid |-> {},
            moneyMismatches |-> {}, unmatchedEvents |-> {},
            paidAfterFailure |-> {}, actual |-> {},
            expected |-> [paid |-> {}, delivered |-> {}, refunded |-> {}, outstanding |-> {}]]

ReconInit == recon = NoRecon

------------------------------------------------------------------------------
(* What each query answers in the state it sees.                           *)

\* payment_events.status = 'paid': whatever the amount.
SaysPaid(e) == EventKind[e] # "failed"

\* Faulty variant: parked orders are not listed.
PaidOrDelivering == {o \in Orders : orderStatus[o] \in {"paid", "delivering"}}

PaidNotDelivered ==
  {o \in Orders : orderStatus[o] \in {"paid", "delivering", "delivery_failed"}}

\* The paid events applied to an order.
Applied(o) == {e \in Events : /\ EventOrder[e] = o /\ SaysPaid(e)
                              /\ eventOutcome[e] = "applied"}

\* payment_events keeps the id as the webhook spelled it, and it is compared as
\* text; the webhook itself finds the order whatever the case of the letters.
DeliveredNotPaid ==
  {i \in Items :
     \/ itemStatus[i] = "delivered" /\ deliveries[i] = NoCode
     \/ deliveries[i] # NoCode /\ Applied(OrderOf[i]) \cap Canonical = {}}

\* The payments posted for an order.
Paid(o, postings) == {e \in Events : EventOrder[e] = o /\ <<"payment", e>> \in postings}

OnePayment(o, postings) == \E e \in Events : Paid(o, postings) = {e}

\* The units with a posting of a kind.
PostedAs(reason, postings) == {i \in Items : <<reason, i>> \in postings}

ItemsIn(statuses) == {i \in Items : itemStatus[i] \in statuses}

\* Paid is delivered, refunded and open together; cash is what was paid less
\* what was refunded, revenue is what was delivered; final is nothing open.
MoneyMismatches ==
  {o \in Orders :
     /\ orderStatus[o] \notin Unpaid
     /\ \/ ~OnePayment(o, ledger)
        \/ PostedAs("refund", ledger) \cap ItemsOf(o) # ItemsIn({"refunded"}) \cap ItemsOf(o)
        \/ PostedAs("delivery", ledger) \cap ItemsOf(o) # ItemsIn({"delivered"}) \cap ItemsOf(o)
        \/ orderStatus[o] \in Settled /\ OpenItems(o) # {}}

UnmatchedEvents ==
  {e \in Events : eventOutcome[e] \in {"order_not_found", "amount_mismatch"}}

\* outcome 'ignored_payment_failed': of an order that failed, which is final.
PaidAfterFailure ==
  {e \in Events : /\ SaysPaid(e) /\ eventOutcome[e] = "ignored"
                  /\ orderStatus[EventOrder[e]] = "payment_failed"}

\* The units of orders that were paid.
PaidFor == {i \in Items : orderStatus[OrderOf[i]] \notin Unpaid}

\* Faulty variant: a refund that is decided is no longer counted as owed.
BalancesOfTablesPending ==
  [paid |-> {o \in Orders : orderStatus[o] \notin Unpaid},
   delivered |-> PaidFor \cap ItemsIn({"delivered"}),
   refunded |-> PaidFor \cap ItemsIn({"refunded"}),
   outstanding |-> PaidFor \cap ItemsIn({"pending"})]

BalancesOfTables ==
  [paid |-> {o \in Orders : orderStatus[o] \notin Unpaid},
   delivered |-> PaidFor \cap ItemsIn({"delivered"}),
   refunded |-> PaidFor \cap ItemsIn({"refunded"}),
   outstanding |-> PaidFor \cap ItemsIn(Open)]

------------------------------------------------------------------------------
(* The report.                                                             *)

AsksReport ==
  /\ ~recon.asked
  /\ recon' = [recon EXCEPT !.asked = TRUE,
                            !.known = {e \in Events : eventOutcome[e] # "absent"}]
  /\ UNCHANGED vars

\* LIMIT: everything found, or as many rows of it as the cap.
Capped(found) ==
  {rows \in SUBSET found : \/ rows = found /\ Cardinality(found) <= ListCap
                           \/ Cardinality(rows) = ListCap}

Answers(query, answered) ==
  /\ recon.asked /\ query \in recon.left
  /\ recon' = [answered EXCEPT !.left = @ \ {query}]
  /\ UNCHANGED vars

ListsUnsettled ==
  \E rows \in Capped(PaidNotDelivered) :
    Answers("paidNotDelivered", [recon EXCEPT !.paidNotDelivered = rows])
ListsUnpaid ==
  \E rows \in Capped(DeliveredNotPaid) :
    Answers("deliveredNotPaid", [recon EXCEPT !.deliveredNotPaid = rows])
ListsMismatches ==
  \E rows \in Capped(MoneyMismatches) :
    Answers("moneyMismatches", [recon EXCEPT !.moneyMismatches = rows])
ListsUnmatched ==
  \E rows \in Capped(UnmatchedEvents) :
    Answers("unmatchedEvents", [recon EXCEPT !.unmatchedEvents = rows])
ListsAfterFailure ==
  \E rows \in Capped(PaidAfterFailure) :
    Answers("paidAfterFailure", [recon EXCEPT !.paidAfterFailure = rows])

\* balances(): the ledger first, then the tables.
AddsUpLedger == Answers("ledger", [recon EXCEPT !.actual = ledger])
AddsUpTables ==
  /\ "ledger" \notin recon.left
  /\ Answers("tables", [recon EXCEPT !.expected = BalancesOfTables])

ReconStep == \/ AsksReport \/ ListsUnsettled \/ ListsUnpaid \/ ListsMismatches
             \/ ListsUnmatched \/ ListsAfterFailure \/ AddsUpLedger \/ AddsUpTables

ReconNext == (Next /\ UNCHANGED recon) \/ ReconStep

ReconSpec == Init /\ ReconInit /\ [][ReconNext]_<<vars, recon>>

\* The accounts: cash and refunded, revenue, and the liability that is left.
BooksAgree ==
  LET a == recon.actual  x == recon.expected
      settled == PostedAs("delivery", a) \cup PostedAs("refund", a) IN
  /\ \A o \in Orders : IF o \in x.paid THEN OnePayment(o, a) ELSE Paid(o, a) = {}
  /\ PostedAs("refund", a) = x.refunded
  /\ PostedAs("delivery", a) = x.delivered
  /\ {i \in Items : Paid(OrderOf[i], a) # {}} \ settled = x.outstanding

Done == recon.asked /\ recon.left = {}

Healthy == recon.deliveredNotPaid = {} /\ recon.moneyMismatches = {} /\ BooksAgree

------------------------------------------------------------------------------
(* Properties.                                                             *)

\* The units whose payment was spelled otherwise than the database prints it.
Misspelled == {i \in Items : Applied(OrderOf[i]) \ Canonical # {}}

\* A report alarms nobody without a cause. The lists that must be empty are,
\* but for units whose payment event spelled the order's id in another way; and
\* the two balances, read one after the other, differ only if something was
\* posted since the first one was read (report, balances).
HealthyWhenStill ==
  Done => /\ recon.deliveredNotPaid \subseteq Misspelled /\ recon.moneyMismatches = {}
          /\ recon.actual = ledger => BooksAgree /\ (Misspelled = {} => Healthy)

\* A list has a row, or is as long as a list can be: rows may have been cut off.
Shows(rows, row) == row \in rows \/ Cardinality(rows) = ListCap

\* No money is lost from sight as long as no list is full, although no two lists
\* are of the same moment: a payment recorded before the report was asked for
\* is listed as not applied, or as come after the order failed, or its order
\* was paid for and is listed as not settled or owes nothing by now. A full
\* list vouches for the rows it has only, and hides only its own kind (report).
MoneyInSight ==
  Done => \A e \in recon.known :
    SaysPaid(e) =>
      \/ /\ eventOutcome[e] \in {"order_not_found", "amount_mismatch"}
         /\ Shows(recon.unmatchedEvents, e)
      \/ /\ eventOutcome[e] \in {"applied", "ignored"}
         /\ IF orderStatus[EventOrder[e]] \in Unpaid
            THEN Shows(recon.paidAfterFailure, e)
            ELSE \/ Shows(recon.paidNotDelivered, EventOrder[e])
                 \/ OpenItems(EventOrder[e]) = {}

\* "Must be empty: ... a delivery for an order that never had a paid event
\* applied" (deliveredNotPaid, which the report's health rests on).
NothingUnpaidDelivered == recon.deliveredNotPaid = {}

\* "Lists are capped; counts are exact": what is counted is the list.
CountsExact ==
  [][ListsAfterFailure =>
       Cardinality(recon'.paidAfterFailure) = Cardinality(PaidAfterFailure)]_recon

\* What recorded events say of their orders.
EventsInv ==
  \A e \in Events :
    /\ eventOutcome[e] \in {"applied", "ignored"} =>
         EventOrder[e] \in Orders /\ orderStatus[EventOrder[e]] # "created"
    /\ eventOutcome[e] = "applied" /\ SaysPaid(e) => orderStatus[EventOrder[e]] \notin Unpaid
    /\ <<"payment", e>> \in ledger => SaysPaid(e)

\* What the lists read so far say of the events known, now and for good.
ListsInv ==
  \A e \in recon.known : eventOutcome[e] # "absent" /\ (SaysPaid(e) =>
    /\ "unmatchedEvents" \notin recon.left
         /\ eventOutcome[e] \in {"order_not_found", "amount_mismatch"}
         => Shows(recon.unmatchedEvents, e)
    /\ "paidAfterFailure" \notin recon.left /\ eventOutcome[e] = "ignored"
         /\ orderStatus[EventOrder[e]] = "payment_failed"
         => Shows(recon.paidAfterFailure, e)
    /\ "paidNotDelivered" \notin recon.left /\ eventOutcome[e] \in {"applied", "ignored"}
         /\ orderStatus[EventOrder[e]] \notin Unpaid
         => \/ Shows(recon.paidNotDelivered, EventOrder[e])
            \/ OpenItems(EventOrder[e]) = {})

\* The ledger as it was read is behind the ledger, or the same.
BalancesInv ==
  /\ recon.actual \subseteq ledger
  /\ "tables" \notin recon.left /\ recon.actual = ledger => BooksAgree

\* Nothing is read before it is asked for, and the ledger before the tables.
ReconShape ==
  /\ recon \in Recon
  /\ ~recon.asked => recon = NoRecon
  /\ "ledger" \in recon.left => "tables" \in recon.left

NothingAlarming ==
  recon.deliveredNotPaid \subseteq Misspelled /\ recon.moneyMismatches = {}

\* The inductive invariant, beside that of OrderDelivery.
ReconInv == ReconShape /\ EventsInv /\ ListsInv /\ BalancesInv /\ NothingAlarming
=============================================================================
