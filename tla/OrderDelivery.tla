---------------------------- MODULE OrderDelivery ----------------------------
(***************************************************************************)
(* The life of a paid order: payment webhooks, the delivery worker's       *)
(* lanes, the pass over one order's items, refunds, the recovery sweep and *)
(* the operator's retry, over the tables they share.                       *)
(*                                                                         *)
(* One action is one database statement or transaction, or one call to     *)
(* another service; everything a lane keeps between two of them is in its  *)
(* record lane[l] and is lost when the pass throws or the process dies.    *)
(* The supplier chain of one item is abstracted to the answer it ends      *)
(* with: a code, "no", a rate limit, or no definite answer.                *)
(* order_events rows are in module History: nothing here reads them.       *)
(***************************************************************************)
EXTENDS Naturals, Sequences

CONSTANTS
  Orders, Items, Skus, Codes,
  OrderOf,      \* [Items -> Orders]: the order a unit belongs to
  Position,     \* [Items -> Nat]: its line number inside the order
  SkuOf,        \* [Items -> Skus]
  InitialStock, \* [Skus -> Nat]
  Events,       \* the payment provider's event ids
  EventOrder,   \* [Events -> Orders \cup {NoOrder}]: the order an event names
  EventKind,    \* [Events -> EventKinds]
  Lanes,        \* DELIVERY_CONCURRENCY, over all instances
  NoOrder, NoCode,
  MaxTrouble    \* bound: how often the outside world may disturb delivery

EventKinds == {"paid", "paid_other_amount", "failed"}

Unpaid      == {"created", "payment_failed"}
Settled     == {"delivered", "partially_delivered", "refunded"}
OrderStatus == Unpaid \cup {"paid", "delivering", "delivery_failed"} \cup Settled

Open       == {"pending", "refunding"}
ItemStatus == Open \cup {"delivered", "refunded"}

ASSUME ConstantsAssumption ==
  /\ OrderOf \in [Items -> Orders]
  /\ Position \in [Items -> Nat]
  /\ SkuOf \in [Items -> Skus]
  /\ InitialStock \in [Skus -> Nat]
  /\ EventOrder \in [Events -> Orders \cup {NoOrder}]
  /\ EventKind \in [Events -> EventKinds]
  /\ NoOrder \notin Orders
  /\ NoCode \notin Codes
  /\ MaxTrouble \in Nat

\* orders.service.ts refuses an order without lines, and numbers the lines.
ASSUME OrdersHaveItems ==
  /\ \A o \in Orders : \E i \in Items : OrderOf[i] = o
  /\ \A i, j \in Items : OrderOf[i] = OrderOf[j] /\ Position[i] = Position[j] => i = j

VARIABLES
  orderStatus,  \* orders.status
  paidLine,     \* the paid orders by orders.paid_at
  notBefore,    \* orders.not_before still lies ahead
  eventOutcome, \* payment_events: absent, or the outcome stored
  itemStatus,   \* order_items.status
  deliveries,   \* deliveries: the code an item was delivered with
  refunds,      \* refunds: the items that have a row
  ledger,       \* ledger_entries: <<reason, reference>> of each posting
  stock,        \* product_stock.available
  pspRefunds,   \* items whose money the payment provider has sent back
  lane,         \* what each lane holds in memory
  swept,        \* the rows the running requeue statement has selected
  trouble       \* disturbances so far

tables == <<orderStatus, paidLine, notBefore, eventOutcome, itemStatus,
            deliveries, refunds, ledger, stock>>
vars == <<tables, pspRefunds, lane, swept, trouble>>

ItemsOf(o) == {i \in Items : OrderOf[i] = o}

PC == {"idle", "claimed", "items", "complete", "refuse", "refund", "book", "verdict"}

Todo == [item : Items, seen : Open]

LaneState == [pc : PC, order : Orders \cup {NoOrder}, todo : SUBSET Todo,
              code : Codes \cup {NoCode}, deferred : BOOLEAN, unresolved : BOOLEAN,
              verdict : OrderStatus]

Idle == [pc |-> "idle", order |-> NoOrder, todo |-> {}, code |-> NoCode,
         deferred |-> FALSE, unresolved |-> FALSE, verdict |-> "delivering"]

Postings == ({"payment"} \X Events) \cup ({"delivery", "refund"} \X Items)

TypeOK ==
  /\ orderStatus \in [Orders -> OrderStatus]
  /\ paidLine \in Seq(Orders)
  /\ notBefore \in [Orders -> BOOLEAN]
  /\ eventOutcome \in [Events -> {"absent", "applied", "ignored",
                                  "order_not_found", "amount_mismatch"}]
  /\ itemStatus \in [Items -> ItemStatus]
  /\ deliveries \in [Items -> Codes \cup {NoCode}]
  /\ refunds \subseteq Items
  /\ ledger \subseteq Postings
  /\ stock \in [Skus -> Nat]
  /\ pspRefunds \subseteq Items
  /\ lane \in [Lanes -> LaneState]
  /\ swept \subseteq Orders
  /\ trouble \in 0..MaxTrouble

Init ==
  /\ orderStatus = [o \in Orders |-> "created"]
  /\ paidLine = <<>>
  /\ notBefore = [o \in Orders |-> FALSE]
  /\ eventOutcome = [e \in Events |-> "absent"]
  /\ itemStatus = [i \in Items |-> "pending"]
  /\ deliveries = [i \in Items |-> NoCode]
  /\ refunds = {}
  /\ ledger = {}
  /\ stock = InitialStock
  /\ pspRefunds = {}
  /\ lane = [l \in Lanes |-> Idle]
  /\ swept = {}
  /\ trouble = 0

\* The outside world disturbs a pass: counted, so that it is bounded.
Disturb == trouble < MaxTrouble /\ trouble' = trouble + 1

------------------------------------------------------------------------------
(* Payment webhooks: PaymentsService.handle, one transaction.              *)

\* Faulty variant: only an order that is final ignores payment events.
OutcomeInFlight(e) ==
  IF EventOrder[e] = NoOrder THEN "order_not_found"
  ELSE IF orderStatus[EventOrder[e]] \in Settled \cup {"payment_failed"} THEN "ignored"
  ELSE IF EventKind[e] = "paid_other_amount" THEN "amount_mismatch"
  ELSE "applied"

\* A redelivered event_id inserts nothing and ends as 'duplicate': no step.
Outcome(e) ==
  IF EventOrder[e] = NoOrder THEN "order_not_found"
  ELSE IF orderStatus[EventOrder[e]] # "created" THEN "ignored"
  ELSE IF EventKind[e] = "paid_other_amount" THEN "amount_mismatch"
  ELSE "applied"

Webhook(e) ==
  /\ eventOutcome[e] = "absent"
  /\ eventOutcome' = [eventOutcome EXCEPT ![e] = Outcome(e)]
  /\ LET o == EventOrder[e] IN
       \/ /\ Outcome(e) # "applied"
          /\ UNCHANGED <<orderStatus, paidLine, ledger>>
       \/ /\ Outcome(e) = "applied" /\ EventKind[e] = "failed"
          /\ orderStatus' = [orderStatus EXCEPT ![o] = "payment_failed"]
          /\ UNCHANGED <<paidLine, ledger>>
       \/ /\ Outcome(e) = "applied" /\ EventKind[e] = "paid"
          /\ orderStatus' = [orderStatus EXCEPT ![o] = "paid"]
          /\ paidLine' = Append(paidLine, o)
          /\ ledger' = ledger \cup {<<"payment", e>>}
  /\ UNCHANGED <<notBefore, itemStatus, deliveries, refunds, stock,
                 pspRefunds, lane, swept, trouble>>

------------------------------------------------------------------------------
(* The lanes: DeliveryWorker.lane and claim, DeliveryService.deliver.      *)

Claimable(o) == orderStatus[o] = "paid" /\ ~notBefore[o]

\* The earliest-paid order whose turn has come, marked delivering.
Claim(l) ==
  /\ lane[l].pc = "idle"
  /\ \E k \in DOMAIN paidLine :
       /\ Claimable(paidLine[k])
       /\ \A j \in 1..(k - 1) : ~Claimable(paidLine[j])
       /\ orderStatus' = [orderStatus EXCEPT ![paidLine[k]] = "delivering"]
       /\ lane' = [lane EXCEPT ![l] = [@ EXCEPT !.pc = "claimed", !.order = paidLine[k]]]
  /\ UNCHANGED <<paidLine, notBefore, eventOutcome, itemStatus, deliveries, refunds,
                 ledger, stock, pspRefunds, swept, trouble>>

\* The items are read once; the pass works from this copy.
ReadItems(l) ==
  /\ lane[l].pc = "claimed"
  /\ LET copy == {[item |-> i, seen |-> itemStatus[i]] :
                     i \in {j \in ItemsOf(lane[l].order) : itemStatus[j] \in Open}}
     IN lane' = [lane EXCEPT ![l] = [@ EXCEPT !.pc = "items", !.todo = copy]]
  /\ UNCHANGED <<tables, pspRefunds, swept, trouble>>

\* The item the lane is at: the first one left, in line order.
At(l, t) ==
  /\ t \in lane[l].todo
  /\ \A u \in lane[l].todo : Position[t.item] <= Position[u.item]

\* On to the next item, with what this one left for the order's verdict.
NextItem(l, t, deferred, unresolved) ==
  LET s == lane[l] IN
    lane' = [lane EXCEPT ![l] = [s EXCEPT !.pc = "items",
                                          !.todo = s.todo \ {t},
                                          !.code = NoCode,
                                          !.deferred = s.deferred \/ deferred,
                                          !.unresolved = s.unresolved \/ unresolved]]

\* The pass throws: the lane logs it and lets go, the order stays as it is.
Throw(l) == lane' = [lane EXCEPT ![l] = Idle] /\ UNCHANGED tables

\* Faulty variant: deliveries.code without its unique constraint.
TakenCodeUnchecked(c) == FALSE

\* The unique constraint on deliveries.code.
TakenCode(c) == \E j \in Items : deliveries[j] = c

\* The supplier chain ends with a code. One that is already delivered is a
\* lie of the supplier's, hence a disturbance.
Issued(l) ==
  \E t \in lane[l].todo, c \in Codes :
    /\ lane[l].pc = "items" /\ At(l, t) /\ t.seen = "pending"
    /\ IF TakenCode(c) THEN Disturb ELSE UNCHANGED trouble
    /\ lane' = [lane EXCEPT ![l] = [@ EXCEPT !.pc = "complete", !.code = c]]
    /\ UNCHANGED <<tables, pspRefunds, swept>>

\* Every supplier gave a definite "no".
Refused(l) ==
  \E t \in lane[l].todo :
    /\ lane[l].pc = "items" /\ At(l, t) /\ t.seen = "pending"
    /\ lane' = [lane EXCEPT ![l] = [@ EXCEPT !.pc = "refuse"]]
    /\ UNCHANGED <<tables, pspRefunds, swept, trouble>>

\* The chain stops at a spent rate limit, or at a supplier that gave no
\* definite answer: the item stays pending.
NoAnswer(l) ==
  \E t \in lane[l].todo :
    /\ lane[l].pc = "items" /\ At(l, t) /\ t.seen = "pending"
    /\ Disturb
    /\ \/ NextItem(l, t, TRUE, FALSE)
       \/ NextItem(l, t, FALSE, TRUE)
    /\ UNCHANGED <<tables, pspRefunds, swept>>

------------------------------------------------------------------------------
(* Making one item's delivery final: DeliveryService.complete, one         *)
(* transaction. In this order it finds the item's delivery, inserts one    *)
(* (a unique code, one row an item), moves the item, posts, takes stock.   *)

\* Faulty variant: the item is moved whatever its status.
CompletesAnyway(i, c) == deliveries[i] = NoCode /\ ~TakenCode(c)

Completes(i, c) == /\ deliveries[i] = NoCode
                   /\ ~TakenCode(c)
                   /\ itemStatus[i] = "pending"
                   /\ <<"delivery", i>> \notin ledger

\* Faulty variant: the counter is not kept from going below zero.
TakeUnitBlindly(sku) == stock' = [stock EXCEPT ![sku] = @ - 1]

\* CatalogService.decrementStock.
TakeUnit(sku) == stock' = [stock EXCEPT ![sku] = IF @ > 0 THEN @ - 1 ELSE 0]

Complete(l) ==
  \E t \in lane[l].todo :
    LET i == t.item  c == lane[l].code IN
    /\ lane[l].pc = "complete" /\ At(l, t)
    /\ \/ /\ Completes(i, c)
          /\ deliveries' = [deliveries EXCEPT ![i] = c]
          /\ itemStatus' = [itemStatus EXCEPT ![i] = "delivered"]
          /\ ledger' = ledger \cup {<<"delivery", i>>}
          /\ TakeUnit(SkuOf[i])
          /\ NextItem(l, t, FALSE, FALSE)
          /\ UNCHANGED <<orderStatus, paidLine, notBefore, eventOutcome, refunds>>
       \/ \* the code is another item's: rejected, the next round asks again
          /\ deliveries[i] = NoCode /\ TakenCode(c)
          /\ lane' = [lane EXCEPT ![l] = [@ EXCEPT !.pc = "items", !.code = NoCode]]
          /\ UNCHANGED tables
       \/ \* the item holds a code already, or is no longer pending
          /\ deliveries[i] # NoCode \/ (~TakenCode(c) /\ ~Completes(i, c))
          /\ Throw(l)
    /\ UNCHANGED <<pspRefunds, swept, trouble>>

------------------------------------------------------------------------------
(* Refunds: the decision, the provider's call, the booking.                *)

\* Faulty variant: the decision overwrites whatever another lane did.
RefusesAnyway(i) == TRUE

Refuses(i) == itemStatus[i] = "pending"

\* deliverItem writes the decision down before any money moves.
DecideRefund(l) ==
  \E t \in lane[l].todo :
    /\ lane[l].pc = "refuse" /\ At(l, t)
    /\ \/ /\ Refuses(t.item)
          /\ itemStatus' = [itemStatus EXCEPT ![t.item] = "refunding"]
          /\ lane' = [lane EXCEPT ![l] = [@ EXCEPT !.pc = "refund"]]
          /\ UNCHANGED <<orderStatus, paidLine, notBefore, eventOutcome,
                         deliveries, refunds, ledger, stock>>
       \/ ~Refuses(t.item) /\ Throw(l)
    /\ UNCHANGED <<pspRefunds, swept, trouble>>

\* Decided in this pass, or in an earlier one.
RefundDue(l, t) == /\ At(l, t)
                   /\ \/ lane[l].pc = "refund"
                      \/ lane[l].pc = "items" /\ t.seen = "refunding"

\* The provider keys the refund by the item: repeating it moves no money.
PspRefunds(l) ==
  \E t \in lane[l].todo :
    /\ RefundDue(l, t)
    /\ pspRefunds' = pspRefunds \cup {t.item}
    /\ lane' = [lane EXCEPT ![l] = [@ EXCEPT !.pc = "book"]]
    /\ UNCHANGED <<tables, swept, trouble>>

\* Refused, or carried out with the answer lost: the client cannot tell.
PspFails(l) ==
  \E t \in lane[l].todo :
    /\ RefundDue(l, t)
    /\ Disturb
    /\ pspRefunds' \in {pspRefunds, pspRefunds \cup {t.item}}
    /\ NextItem(l, t, FALSE, TRUE)
    /\ UNCHANGED <<tables, swept>>

Books(i) == itemStatus[i] = "refunding" /\ <<"refund", i>> \notin ledger

BookRefund(l) ==
  \E t \in lane[l].todo :
    LET i == t.item IN
    /\ lane[l].pc = "book" /\ At(l, t)
    /\ \/ /\ Books(i)
          /\ refunds' = refunds \cup {i}
          /\ itemStatus' = [itemStatus EXCEPT ![i] = "refunded"]
          /\ ledger' = ledger \cup {<<"refund", i>>}
          /\ NextItem(l, t, FALSE, FALSE)
          /\ UNCHANGED <<orderStatus, paidLine, notBefore, eventOutcome, deliveries, stock>>
       \/ ~Books(i) /\ Throw(l)
    /\ UNCHANGED <<pspRefunds, swept, trouble>>

------------------------------------------------------------------------------
(* The verdict on the order: DeliveryService.finish.                       *)

OpenItems(o) == {i \in ItemsOf(o) : itemStatus[i] \in Open}

SettledAs(o) ==
  IF \A i \in ItemsOf(o) : itemStatus[i] = "delivered" THEN "delivered"
  ELSE IF \A i \in ItemsOf(o) : itemStatus[i] # "delivered" THEN "refunded"
  ELSE "partially_delivered"

\* Faulty variant: an item whose refund is still due does not count as open.
VerdictForgetsRefunds(l) ==
  LET o == lane[l].order IN
    IF \A i \in ItemsOf(o) : itemStatus[i] # "pending" THEN SettledAs(o)
    ELSE IF lane[l].deferred /\ ~lane[l].unresolved THEN "paid"
    ELSE "delivery_failed"

Verdict(l) ==
  LET o == lane[l].order IN
    IF OpenItems(o) = {} THEN SettledAs(o)
    ELSE IF lane[l].deferred /\ ~lane[l].unresolved THEN "paid"
    ELSE "delivery_failed"

\* The items are read again ...
ReadVerdict(l) ==
  /\ lane[l].pc = "items" /\ lane[l].todo = {}
  /\ lane' = [lane EXCEPT ![l] = [@ EXCEPT !.pc = "verdict", !.verdict = Verdict(l)]]
  /\ UNCHANGED <<tables, pspRefunds, swept, trouble>>

\* ... and the order is moved, if it is still delivering.
Finish(l) ==
  LET o == lane[l].order IN
    /\ lane[l].pc = "verdict"
    /\ \/ /\ orderStatus[o] = "delivering"
          /\ orderStatus' = [orderStatus EXCEPT ![o] = lane[l].verdict]
          /\ notBefore' = [notBefore EXCEPT ![o] = @ \/ lane[l].verdict = "paid"]
          /\ lane' = [lane EXCEPT ![l] = Idle]
          /\ UNCHANGED <<paidLine, eventOutcome, itemStatus, deliveries, refunds,
                         ledger, stock>>
       \/ orderStatus[o] # "delivering" /\ Throw(l)
    /\ UNCHANGED <<pspRefunds, swept, trouble>>

\* A statement fails, or the process dies: nothing of the pass survives.
Abandon(l) ==
  /\ lane[l].pc # "idle"
  /\ Disturb
  /\ Throw(l)
  /\ UNCHANGED <<pspRefunds, swept>>

------------------------------------------------------------------------------
(* Time, the recovery sweep and the operator.                              *)

\* now() passes not_before.
SlotOpens(o) ==
  /\ notBefore[o]
  /\ notBefore' = [notBefore EXCEPT ![o] = FALSE]
  /\ UNCHANGED <<orderStatus, paidLine, eventOutcome, itemStatus, deliveries, refunds,
                 ledger, stock, pspRefunds, lane, swept, trouble>>

Held(o) == \E l \in Lanes : lane[l].order = o

\* Faulty variants: one of the two kinds of order is not swept.
SweptOnlyStale  == {"delivering"}
SweptOnlyParked == {"delivery_failed"}

SweptStatuses == {"delivering", "delivery_failed"}

\* RecoveryService.requeue selects the rows it will move: a status, and
\* updated_at long enough ago. Only the claim writes updated_at while a
\* pass runs, so a long pass looks like a dead worker: a disturbance.
SweepSelects(old) ==
  /\ swept = {} /\ old # {}
  /\ \E status \in SweptStatuses :
       \A o \in old : orderStatus[o] = status
  /\ IF \E o \in old : orderStatus[o] = "delivering" /\ Held(o)
       THEN Disturb ELSE UNCHANGED trouble
  /\ swept' = old
  /\ UNCHANGED <<tables, pspRefunds, lane>>

\* The rows move. The condition on status was the subselect's: a row that
\* another transaction changed in between is not looked at again.
SweepMoves ==
  /\ swept # {}
  /\ orderStatus' = [o \in Orders |-> IF o \in swept THEN "paid" ELSE orderStatus[o]]
  /\ swept' = {}
  /\ UNCHANGED <<paidLine, notBefore, eventOutcome, itemStatus, deliveries, refunds,
                 ledger, stock, pspRefunds, lane, trouble>>

\* OrdersService.retryDelivery: a compare-and-set on the status it read.
RetryDelivery(o) ==
  /\ orderStatus[o] = "delivery_failed"
  /\ orderStatus' = [orderStatus EXCEPT ![o] = "paid"]
  /\ UNCHANGED <<paidLine, notBefore, eventOutcome, itemStatus, deliveries, refunds,
                 ledger, stock, pspRefunds, lane, swept, trouble>>

------------------------------------------------------------------------------

\* What a lane does unless it is disturbed, and what disturbs it.
Works(l) == \/ Claim(l) \/ ReadItems(l) \/ Issued(l) \/ Refused(l)
            \/ Complete(l) \/ DecideRefund(l) \/ PspRefunds(l) \/ BookRefund(l)
            \/ ReadVerdict(l) \/ Finish(l)

Next ==
  \/ \E e \in Events : Webhook(e)
  \/ \E l \in Lanes : Works(l) \/ NoAnswer(l) \/ PspFails(l) \/ Abandon(l)
  \/ \E o \in Orders : SlotOpens(o) \/ RetryDelivery(o)
  \/ \E old \in SUBSET Orders : SweepSelects(old)
  \/ SweepMoves

Spec == Init /\ [][Next]_vars

\* Lanes poll (every 2 s) and their calls return or time out; time passes;
\* the sweep runs (every 30 s) and reaches every row that is old enough.
\* Neither the provider's webhooks nor the operator can be counted on.
Fairness ==
  /\ \A l \in Lanes : WF_vars(Works(l))
  /\ \A o \in Orders : WF_vars(SlotOpens(o))
  /\ \A o \in Orders : WF_vars(\E old \in SUBSET Orders : o \in old /\ SweepSelects(old))
  /\ WF_vars(SweepMoves)

FairSpec == Spec /\ Fairness

------------------------------------------------------------------------------
(* Properties *)

\* A customer never ends up with a code and the money: once the provider
\* has sent the money back (or may have), the item is never delivered, in
\* whatever order two lanes on the same order interleave, and a refund
\* that is booked has really been paid.
NeverCodeAndMoney ==
  \A i \in Items :
    /\ i \in pspRefunds => deliveries[i] = NoCode /\ itemStatus[i] \in {"refunding", "refunded"}
    /\ i \in refunds => i \in pspRefunds

\* No order is announced as final while a unit of it is still owed, and the
\* final status says what its items say, also when the lane that announces
\* it is not the one that settled the items.
FinalMeansSettled ==
  \A o \in Orders :
    orderStatus[o] \in Settled => OpenItems(o) = {} /\ orderStatus[o] = SettledAs(o)

\* The books agree with the orders and the items: one payment for each
\* order that was ever paid, one settlement posting for each settled item
\* and none for an open one, and so paid = delivered + refunded + owed.
BooksBalance ==
  /\ \A o \in Orders :
       LET payments == {e \in Events : EventOrder[e] = o /\ <<"payment", e>> \in ledger} IN
         IF orderStatus[o] \in Unpaid THEN payments = {}
         ELSE \E e \in payments : payments = {e} /\ eventOutcome[e] = "applied"
  /\ \A i \in Items :
       /\ <<"delivery", i>> \in ledger <=> itemStatus[i] = "delivered"
       /\ <<"refund", i>> \in ledger <=> itemStatus[i] = "refunded"
       /\ itemStatus[i] = "delivered" <=> deliveries[i] # NoCode
       /\ itemStatus[i] = "refunded" <=> i \in refunds

\* Nothing happens to an order nobody paid for: no lane, no sweep, no item.
UnpaidUntouched ==
  \A o \in Orders : orderStatus[o] \in Unpaid =>
    /\ ~Held(o) /\ o \notin swept
    /\ \A i \in ItemsOf(o) : itemStatus[i] = "pending" /\ i \notin pspRefunds

\* The inductive invariant behind them. Rows:
RowsInv ==
  /\ \A i, j \in Items : deliveries[i] = deliveries[j] /\ deliveries[i] # NoCode => i = j
  /\ \A e \in Events : <<"payment", e>> \in ledger =>
       eventOutcome[e] = "applied" /\ EventOrder[e] \in Orders
  /\ \A k \in DOMAIN paidLine : orderStatus[paidLine[k]] \notin Unpaid

\* What a lane holds in memory may be stale, but only in harmless ways: its
\* order was paid, an item it is about to refund has been decided, one it
\* books has been paid back, and a final verdict it carries still holds.
LaneOK(l) ==
  LET s == lane[l] IN
    /\ s.pc = "idle" <=> s.order = NoOrder
    /\ \A t \in s.todo :
         /\ OrderOf[t.item] = s.order
         /\ t.seen = "refunding" => itemStatus[t.item] \in {"refunding", "refunded"}
         /\ s.pc = "refund" /\ At(l, t) => itemStatus[t.item] \in {"refunding", "refunded"}
         /\ s.pc = "book" /\ At(l, t) => t.item \in pspRefunds
    /\ s.pc = "complete" => s.code \in Codes
    /\ s.pc = "verdict" =>
         /\ s.verdict \in {"paid", "delivery_failed"} \cup Settled
         /\ s.verdict \in Settled => OpenItems(s.order) = {} /\ s.verdict = SettledAs(s.order)

LanesInv == \A l \in Lanes : LaneOK(l)

Inv == /\ TypeOK /\ RowsInv /\ LanesInv
       /\ NeverCodeAndMoney /\ FinalMeansSettled /\ BooksBalance /\ UnpaidUntouched

\* What an item was settled with is never revised, and a decided refund is
\* never turned into a delivery, whatever copy of the item a lane holds.
DecisionsHold ==
  \A i \in Items :
    /\ itemStatus[i] \in {"delivered", "refunded"} => itemStatus'[i] = itemStatus[i]
    /\ itemStatus[i] = "refunding" => itemStatus'[i] \in {"refunding", "refunded"}
    /\ deliveries[i] # NoCode => deliveries'[i] = deliveries[i]

DecisionsStand == [][DecisionsHold]_vars

\* The shop's promise, carried out: money counts as returned when the
\* provider has sent it, a code as given when the delivery row is there.
PromisedOutcome(i) == IF i \in pspRefunds THEN <<"money">>
                      ELSE IF deliveries[i] # NoCode THEN <<"code", deliveries[i]>>
                      ELSE <<"owed">>

Promise == INSTANCE Settlement WITH
  paid <- {o \in Orders : orderStatus[o] \notin Unpaid},
  outcome <- [i \in Items |-> PromisedOutcome(i)]

\* Every step of the tables and of the provider is a step of the promise.
KeepsPromise == Promise!Spec

\* ... and under FairSpec no unit that was paid for stays owed.
PromiseComesTrue == Promise!FairSpec

\* A paid order ends up final for good, and its items settled, once the
\* outside world stops disturbing it.
PaidIsSettled ==
  \A o \in Orders : [](orderStatus[o] = "paid" => <>[](orderStatus[o] \in Settled))

\* A final order may be reopened, but it never becomes final with another
\* verdict: what a customer was once told of his order still holds (requeue,
\* finish).
VerdictStands ==
  \A o \in Orders, v \in Settled :
    [](orderStatus[o] = v => [](orderStatus[o] \in Settled => orderStatus[o] = v))

\* "A final order stays final" (suppliers.e2e-spec.ts), "leaves healthy and
\* final orders alone" (recovery.e2e-spec.ts).
FinalStaysFinal ==
  [][\A o \in Orders : orderStatus[o] \in Settled => orderStatus'[o] = orderStatus[o]]_vars

=============================================================================
