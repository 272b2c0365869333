------------------------------ MODULE OrderView ------------------------------
(***************************************************************************)
(* What a customer is shown of an order while lanes, webhooks and the      *)
(* sweep go on: OrdersService.get, which reads the order and then, each    *)
(* with a snapshot of its own and in any order, its items, its deliveries  *)
(* and its refunds. Nothing is locked and nothing is written.              *)
(***************************************************************************)
EXTENDS OrderDelivery

VARIABLE view \* what a request for an order has read so far

Parts == {"order", "items", "deliveries", "refunds"}

View == [order : Orders \cup {NoOrder}, left : SUBSET Parts,
         status : OrderStatus, items : [Items -> ItemStatus],
         codes : [Items -> Codes \cup {NoCode}], refunds : SUBSET Items]

NoView == [order |-> NoOrder, left |-> Parts,
           status |-> "created", items |-> [i \in Items |-> "pending"],
           codes |-> [i \in Items |-> NoCode], refunds |-> {}]

ViewInit == view = NoView

Asks(o) ==
  /\ view.order = NoOrder
  /\ view' = [view EXCEPT !.order = o]
  /\ UNCHANGED vars

\* Faulty variant: the order is read along with the rest.
MayReadAtOnce(part) == view.order # NoOrder /\ part \in view.left

\* find() is awaited before the other queries are sent.
MayRead(part) ==
  /\ view.order # NoOrder /\ part \in view.left
  /\ part # "order" => "order" \notin view.left

Reads(part, seen) ==
  /\ MayRead(part)
  /\ view' = [seen EXCEPT !.left = @ \ {part}]
  /\ UNCHANGED vars

FindsOrder == Reads("order", [view EXCEPT !.status = orderStatus[view.order]])

ReadsOrderItems == Reads("items", [view EXCEPT !.items =
  [i \in Items |-> IF OrderOf[i] = view.order THEN itemStatus[i] ELSE "pending"]])

ReadsOrderDeliveries == Reads("deliveries", [view EXCEPT !.codes =
  [i \in Items |-> IF OrderOf[i] = view.order THEN deliveries[i] ELSE NoCode]])

ReadsOrderRefunds == Reads("refunds", [view EXCEPT !.refunds =
  {i \in refunds : OrderOf[i] = view.order}])

ViewStep == \/ \E o \in Orders : Asks(o)
            \/ FindsOrder \/ ReadsOrderItems \/ ReadsOrderDeliveries \/ ReadsOrderRefunds

ViewNext == (Next /\ UNCHANGED view) \/ ViewStep

ViewSpec == Init /\ ViewInit /\ [][ViewNext]_<<vars, view>>

------------------------------------------------------------------------------
(* What is shown, and the properties of it.                                *)

Shown == view.order # NoOrder /\ view.left = {}

\* The units a view says are settled, each in the way it says.
ShownAs(status) == {i \in Items : OrderOf[i] = view.order /\ view.items[i] = status}

\* A customer who is told that the order is over sees every unit of it either
\* delivered, with its code, or refunded, with its refund, although four
\* queries see four states of the tables (get: the order is read first).
FinalViewIsComplete ==
  Shown /\ view.status \in Settled =>
    \A i \in ItemsOf(view.order) :
      \/ view.items[i] = "delivered" /\ view.codes[i] # NoCode
      \/ view.items[i] = "refunded" /\ i \in view.refunds

\* What a view shows of a unit stays true: a code in it is the unit's for
\* good, a refund in it was paid back, and no unit is shown with both,
\* whatever lanes did between the queries and do afterwards (get).
ViewStaysTrue ==
  \A i \in Items :
    /\ view.codes[i] # NoCode => deliveries[i] = view.codes[i] /\ i \notin view.refunds
    /\ i \in view.refunds => i \in pspRefunds
    /\ view.items[i] \in {"delivered", "refunded"} => itemStatus[i] = view.items[i]

\* The inductive invariant. What has not been read is blank ...
ViewShape ==
  /\ view \in View
  /\ view.order = NoOrder => view = NoView
  /\ "order" \in view.left => view = [NoView EXCEPT !.order = view.order]

\* ... a refund shown is of a refunded unit ...
RefundsShown == \A i \in view.refunds : itemStatus[i] = "refunded"

\* ... and once the order was read as final, its units are as they are shown.
FinalShown ==
  view.status \in Settled =>
    \A i \in ItemsOf(view.order) :
      /\ itemStatus[i] \notin Open
      /\ "items" \notin view.left => view.items[i] = itemStatus[i]
      /\ "deliveries" \notin view.left => view.codes[i] = deliveries[i]
      /\ "refunds" \notin view.left => (i \in view.refunds <=> i \in refunds)

ViewInv == ViewShape /\ ViewStaysTrue /\ RefundsShown /\ FinalShown

\* Said by the comment on "money": "What the customer paid, and where every
\* rouble of it is right now": a unit is only shown as settled if it is paid for.
ViewAddsUp ==
  Shown /\ view.status \in Unpaid => \A i \in Items : view.items[i] \in Open
=============================================================================
