---------------------------- MODULE ReadersProofs ----------------------------
(***************************************************************************)
(* What readers of the tables can rely on, with any number of orders and   *)
(* lanes: a customer who looks at his order, the operator who asks for the *)
(* reconciliation report, a visitor who turns the pages of the storefront. *)
(* Every behaviour with a view or a report is one of OrderDelivery, so Inv *)
(* holds in it.                                                            *)
(*   View. What was decided about a unit stands, so what was read of it    *)
(* stays true; a final order has no open unit, so what is read of it after *)
(* its status is all there will ever be.                                   *)
(*   Report. A recorded event keeps its outcome, a failed payment stays    *)
(* failed, a paid order stays paid and a settled one settled, so what a    *)
(* list left out at its moment it rightly left out; the ledger only grows, *)
(* so a ledger that is unchanged at the end was the ledger when the tables *)
(* were read.                                                              *)
(*   Storefront. The next page begins after the cursor, and nothing is     *)
(* passed over up to it, whatever comes and goes elsewhere.                *)
(*   Composed, with an operator who sets the stock beside them, the three  *)
(* invariants and Inv hold together: only the storefront looks at stock.   *)
(***************************************************************************)
EXTENDS Readers, OrderDeliveryProofs, SequenceTheorems

------------------------------------------------------------------------------
(* A view: how it starts.                                                  *)

LEMMA ViewStarts == Init /\ ViewInit => ViewInv
<1> SUFFICES ASSUME Init, ViewInit PROVE ViewInv
  OBVIOUS
<1>1. view = NoView /\ view.order = NoOrder /\ view.status = "created"
  BY DEF ViewInit, NoView
<1>2. NoView \in View
  BY DEF NoView, View, Parts, OrderStatus, Unpaid, ItemStatus, Open
<1>3. view = [NoView EXCEPT !.order = view.order]
  BY <1>1 DEF NoView
<1>4. ViewShape
  BY <1>1, <1>2, <1>3 DEF ViewShape
<1>5. ViewStaysTrue /\ RefundsShown
  BY <1>1 DEF NoView, ViewStaysTrue, RefundsShown
<1>6. FinalShown
  BY <1>1 DEF FinalShown, Settled
<1> QED
  BY <1>4, <1>5, <1>6 DEF ViewInv

------------------------------------------------------------------------------
(* Steps of the shop beside a view: what was read stands.                  *)

\* A unit that is settled keeps its code and its refund, or the lack of them.
LEMMA SettledUnitStands ==
  ASSUME Inv, Inv', [Next]_vars, NEW i \in Items, itemStatus[i] \notin Open
  PROVE  /\ itemStatus'[i] = itemStatus[i] /\ deliveries'[i] = deliveries[i]
         /\ i \in refunds' <=> i \in refunds
<1>1. itemStatus[i] \in {"delivered", "refunded"}
  BY DEF Inv, TypeOK, ItemStatus
<1>2. itemStatus'[i] = itemStatus[i]
  BY <1>1, DecisionsStep DEF DecisionsHold
<1>3. /\ itemStatus[i] = "delivered" <=> deliveries[i] # NoCode
      /\ itemStatus[i] = "refunded" <=> i \in refunds
  BY DEF Inv, BooksBalance
<1>4. /\ itemStatus'[i] = "delivered" <=> deliveries'[i] # NoCode
      /\ itemStatus'[i] = "refunded" <=> i \in refunds'
  BY DEF Inv, BooksBalance
<1>5. deliveries[i] # NoCode => deliveries'[i] = deliveries[i]
  BY DecisionsStep DEF DecisionsHold
<1> QED
  BY <1>2, <1>3, <1>4, <1>5

LEMMA ViewOutlivesStep ==
  ASSUME Inv, Inv', ViewInv, [Next]_vars, UNCHANGED view
  PROVE  ViewInv'
<1>1. view' = view /\ view \in View
  BY DEF ViewInv, ViewShape
<1>2. ViewShape'
  BY <1>1 DEF ViewInv, ViewShape
<1>3. DecisionsHold /\ pspRefunds \subseteq pspRefunds'
  BY DecisionsStep
<1>4. RefundsShown'
  BY <1>1, <1>3 DEF ViewInv, RefundsShown, DecisionsHold, View
<1>5. ViewStaysTrue'
  <2> SUFFICES ASSUME NEW i \in Items
               PROVE  /\ view.codes[i] # NoCode => deliveries'[i] = view.codes[i] /\ i \notin view.refunds
                      /\ i \in view.refunds => i \in pspRefunds'
                      /\ view.items[i] \in {"delivered", "refunded"} => itemStatus'[i] = view.items[i]
    BY <1>1 DEF ViewStaysTrue
  <2>1. /\ view.codes[i] # NoCode => deliveries[i] = view.codes[i] /\ i \notin view.refunds
        /\ i \in view.refunds => i \in pspRefunds
        /\ view.items[i] \in {"delivered", "refunded"} => itemStatus[i] = view.items[i]
    BY DEF ViewInv, ViewStaysTrue
  <2> QED
    BY <2>1, <1>3 DEF DecisionsHold
<1>6. FinalShown'
  <2> SUFFICES ASSUME view.status \in Settled, NEW i \in ItemsOf(view.order)
               PROVE  /\ itemStatus'[i] \notin Open
                      /\ "items" \notin view.left => view.items[i] = itemStatus'[i]
                      /\ "deliveries" \notin view.left => view.codes[i] = deliveries'[i]
                      /\ "refunds" \notin view.left => (i \in view.refunds <=> i \in refunds')
    BY <1>1 DEF FinalShown, ItemsOf
  <2>1. /\ itemStatus[i] \notin Open
        /\ "items" \notin view.left => view.items[i] = itemStatus[i]
        /\ "deliveries" \notin view.left => view.codes[i] = deliveries[i]
        /\ "refunds" \notin view.left => (i \in view.refunds <=> i \in refunds)
    BY DEF ViewInv, FinalShown
  <2>2. i \in Items
    BY DEF ItemsOf
  <2> QED
    BY <2>1, <2>2, SettledUnitStands
<1> QED
  BY <1>2, <1>4, <1>5, <1>6 DEF ViewInv

------------------------------------------------------------------------------
(* Steps of the view: each query reads what Inv says of the tables.        *)

\* A part is struck off, and the view stays in its shape.
LEMMA PartRead ==
  ASSUME ViewInv, NEW part \in Parts, MayRead(part), NEW seen \in View,
         seen.order = view.order, seen.left = view.left, Reads(part, seen)
  PROVE  /\ view' = [seen EXCEPT !.left = view.left \ {part}]
         /\ view'.left = view.left \ {part} /\ view'.order = view.order
         /\ view'.status = seen.status /\ view'.items = seen.items
         /\ view'.codes = seen.codes /\ view'.refunds = seen.refunds
         /\ UNCHANGED vars
         /\ ViewShape'
<1> DEFINE q == [seen EXCEPT !.left = view.left \ {part}]
<1>1. view' = q /\ UNCHANGED vars
  BY DEF Reads
<1>2. q \in View
  BY DEF View, ViewInv, ViewShape
<1>3. /\ q.left = view.left \ {part} /\ q.order = view.order
      /\ q.status = seen.status /\ q.items = seen.items
      /\ q.codes = seen.codes /\ q.refunds = seen.refunds
  BY DEF View
<1>4. view.order # NoOrder /\ "order" \notin q.left
  BY <1>3 DEF MayRead
<1> HIDE DEF q
<1>5. ViewShape'
  BY <1>1, <1>2, <1>3, <1>4 DEF ViewShape
<1> QED
  BY <1>1, <1>3, <1>5 DEF q

LEMMA AsksStep ==
  ASSUME Inv, ViewInv, NEW o \in Orders, Asks(o)
  PROVE  ViewInv'
<1> DEFINE q == [NoView EXCEPT !.order = o]
<1>1. view' = q /\ UNCHANGED vars
  BY DEF Asks, ViewInv, ViewShape
<1>2. NoView \in View
  BY DEF NoView, View, Parts, OrderStatus, Unpaid, ItemStatus, Open
<1>3. q \in View /\ q.order = o /\ q.status = "created"
  BY <1>2 DEF View, NoView
<1>4. q.refunds = {} /\ \A i \in Items : q.items[i] = "pending" /\ q.codes[i] = NoCode
  BY DEF NoView
<1>5. q = [NoView EXCEPT !.order = q.order]
  BY <1>3
<1>6. o # NoOrder
  BY ConstantsAssumption
<1> HIDE DEF q
<1>7. ViewShape'
  BY <1>1, <1>3, <1>5, <1>6 DEF ViewShape
<1>8. ViewStaysTrue' /\ RefundsShown'
  BY <1>1, <1>4 DEF ViewStaysTrue, RefundsShown
<1>9. FinalShown'
  BY <1>1, <1>3 DEF FinalShown, Settled
<1> QED
  BY <1>7, <1>8, <1>9 DEF ViewInv

LEMMA FindsStep ==
  ASSUME Inv, ViewInv, FindsOrder
  PROVE  ViewInv'
<1> DEFINE seen == [view EXCEPT !.status = orderStatus[view.order]]
<1>1. /\ MayRead("order") /\ "order" \in Parts
      /\ view \in View /\ view = [NoView EXCEPT !.order = view.order]
  BY DEF FindsOrder, Reads, MayRead, ViewInv, ViewShape, Parts
<1>2. view.order \in Orders /\ orderStatus[view.order] \in OrderStatus
  BY <1>1 DEF View, MayRead, Inv, TypeOK
<1>3. /\ seen \in View /\ seen.order = view.order /\ seen.left = view.left
      /\ seen.status = orderStatus[view.order]
      /\ seen.items = view.items /\ seen.codes = view.codes /\ seen.refunds = view.refunds
  BY <1>1, <1>2 DEF View
<1>4. Reads("order", seen)
  BY DEF FindsOrder
<1>5. view.left = Parts /\ view.refunds = {}
      /\ \A i \in Items : view.items[i] = "pending" /\ view.codes[i] = NoCode
  BY <1>1 DEF NoView
<1> HIDE DEF seen
<1>6. /\ view'.left = Parts \ {"order"} /\ view'.order = view.order
      /\ view'.status = orderStatus[view.order] /\ view'.refunds = {}
      /\ \A i \in Items : view'.items[i] = "pending" /\ view'.codes[i] = NoCode
      /\ UNCHANGED vars /\ ViewShape'
  BY <1>1, <1>3, <1>4, <1>5, PartRead
<1>7. ViewStaysTrue' /\ RefundsShown'
  BY <1>6 DEF ViewStaysTrue, RefundsShown
<1>8. FinalShown'
  <2> SUFFICES ASSUME orderStatus[view.order] \in Settled, NEW i \in ItemsOf(view.order)
               PROVE  itemStatus[i] \notin Open
    BY <1>6 DEF FinalShown, ItemsOf, Parts, vars, tables
  <2> QED
    BY <1>2 DEF Inv, FinalMeansSettled, OpenItems
<1> QED
  BY <1>6, <1>7, <1>8 DEF ViewInv

LEMMA ItemsStep ==
  ASSUME Inv, ViewInv, ReadsOrderItems
  PROVE  ViewInv'
<1> DEFINE read == [i \in Items |-> IF OrderOf[i] = view.order THEN itemStatus[i] ELSE "pending"]
           seen == [view EXCEPT !.items = read]
<1>1. MayRead("items") /\ "items" \in Parts /\ view \in View
  BY DEF ReadsOrderItems, Reads, ViewInv, ViewShape, Parts
<1>2. read \in [Items -> ItemStatus]
  BY DEF Inv, TypeOK, ItemStatus, Open
<1>3. \A i \in Items : /\ read[i] # "pending" => read[i] = itemStatus[i]
                       /\ i \in ItemsOf(view.order) => read[i] = itemStatus[i]
  BY DEF ItemsOf
<1>4. Reads("items", seen)
  BY DEF ReadsOrderItems
<1> HIDE DEF read
<1>5. /\ seen \in View /\ seen.order = view.order /\ seen.left = view.left
      /\ seen.status = view.status
      /\ seen.items = read /\ seen.codes = view.codes /\ seen.refunds = view.refunds
  BY <1>1, <1>2 DEF View
<1> HIDE DEF seen
<1>6. /\ view'.left = view.left \ {"items"} /\ view'.order = view.order
      /\ view'.status = view.status /\ view'.items = read
      /\ view'.codes = view.codes /\ view'.refunds = view.refunds
      /\ UNCHANGED vars /\ ViewShape'
  BY <1>1, <1>4, <1>5, PartRead
<1>7. ViewStaysTrue'
  BY <1>3, <1>6 DEF ViewInv, ViewStaysTrue, vars, tables
<1>8. RefundsShown'
  BY <1>6 DEF ViewInv, RefundsShown, vars, tables
<1>9. FinalShown'
  BY <1>3, <1>6 DEF ViewInv, FinalShown, ItemsOf, vars, tables
<1> QED
  BY <1>6, <1>7, <1>8, <1>9 DEF ViewInv

LEMMA DeliveriesStep ==
  ASSUME Inv, ViewInv, ReadsOrderDeliveries
  PROVE  ViewInv'
<1> DEFINE read == [i \in Items |-> IF OrderOf[i] = view.order THEN deliveries[i] ELSE NoCode]
           seen == [view EXCEPT !.codes = read]
<1>1. MayRead("deliveries") /\ "deliveries" \in Parts /\ view \in View
  BY DEF ReadsOrderDeliveries, Reads, ViewInv, ViewShape, Parts
<1>2. read \in [Items -> Codes \cup {NoCode}]
  BY DEF Inv, TypeOK
<1>3. \A i \in Items : /\ read[i] # NoCode => read[i] = deliveries[i]
                       /\ i \in ItemsOf(view.order) => read[i] = deliveries[i]
  BY DEF ItemsOf
<1>4. Reads("deliveries", seen)
  BY DEF ReadsOrderDeliveries
<1> HIDE DEF read
<1>5. /\ seen \in View /\ seen.order = view.order /\ seen.left = view.left
      /\ seen.status = view.status
      /\ seen.items = view.items /\ seen.codes = read /\ seen.refunds = view.refunds
  BY <1>1, <1>2 DEF View
<1> HIDE DEF seen
<1>6. /\ view'.left = view.left \ {"deliveries"} /\ view'.order = view.order
      /\ view'.status = view.status /\ view'.items = view.items
      /\ view'.codes = read /\ view'.refunds = view.refunds
      /\ UNCHANGED vars /\ ViewShape'
  BY <1>1, <1>4, <1>5, PartRead
\* A refund that is shown is of a unit that was given no code.
<1>7. \A i \in Items : i \in view.refunds => deliveries[i] = NoCode
  BY DEF Inv, BooksBalance, ViewInv, RefundsShown
<1>8. ViewStaysTrue'
  BY <1>3, <1>6, <1>7 DEF ViewInv, ViewStaysTrue, vars, tables
<1>9. RefundsShown'
  BY <1>6 DEF ViewInv, RefundsShown, vars, tables
<1>10. FinalShown'
  BY <1>3, <1>6 DEF ViewInv, FinalShown, ItemsOf, vars, tables
<1> QED
  BY <1>6, <1>8, <1>9, <1>10 DEF ViewInv

LEMMA RefundsStep ==
  ASSUME Inv, ViewInv, ReadsOrderRefunds
  PROVE  ViewInv'
<1> DEFINE read == {i \in refunds : OrderOf[i] = view.order}
           seen == [view EXCEPT !.refunds = read]
<1>1. MayRead("refunds") /\ "refunds" \in Parts /\ view \in View
  BY DEF ReadsOrderRefunds, Reads, ViewInv, ViewShape, Parts
<1>2. read \subseteq Items /\ read \subseteq refunds
  BY DEF Inv, TypeOK
<1>3. \A i \in ItemsOf(view.order) : i \in read <=> i \in refunds
  BY DEF ItemsOf
<1>4. Reads("refunds", seen)
  BY DEF ReadsOrderRefunds
<1> HIDE DEF read
<1>5. /\ seen \in View /\ seen.order = view.order /\ seen.left = view.left
      /\ seen.status = view.status
      /\ seen.items = view.items /\ seen.codes = view.codes /\ seen.refunds = read
  BY <1>1, <1>2 DEF View
<1> HIDE DEF seen
<1>6. /\ view'.left = view.left \ {"refunds"} /\ view'.order = view.order
      /\ view'.status = view.status /\ view'.items = view.items
      /\ view'.codes = view.codes /\ view'.refunds = read
      /\ UNCHANGED vars /\ ViewShape'
  BY <1>1, <1>4, <1>5, PartRead
\* A unit with a refund has no code, and its money is sent back.
<1>7. \A i \in read : itemStatus[i] = "refunded" /\ deliveries[i] = NoCode /\ i \in pspRefunds
  BY <1>2 DEF Inv, BooksBalance, NeverCodeAndMoney
<1>8. ViewStaysTrue'
  BY <1>6, <1>7 DEF ViewInv, ViewStaysTrue, vars, tables
<1>9. RefundsShown'
  BY <1>6, <1>7 DEF RefundsShown, vars, tables
<1>10. FinalShown'
  BY <1>3, <1>6 DEF ViewInv, FinalShown, ItemsOf, vars, tables
<1> QED
  BY <1>6, <1>8, <1>9, <1>10 DEF ViewInv

------------------------------------------------------------------------------
(* Theorems of views.                                                      *)

LEMMA ViewNextStep == Inv /\ Inv' /\ ViewInv /\ [ViewNext]_<<vars, view>> => ViewInv'
<1> SUFFICES ASSUME Inv, Inv', ViewInv, [ViewNext]_<<vars, view>> PROVE ViewInv'
  OBVIOUS
<1>1. CASE (Next \/ UNCHANGED vars) /\ UNCHANGED view
  BY <1>1, ViewOutlivesStep
<1>2. CASE ViewStep
  BY <1>2, AsksStep, FindsStep, ItemsStep, DeliveriesStep, RefundsStep DEF ViewStep
<1> QED
  BY <1>1, <1>2 DEF ViewNext

\* A view only reads: what the shop does beside it is what it does anyway.
THEOREM ViewOnlyWatches == ViewSpec => Spec
<1>1. [ViewNext]_<<vars, view>> => [Next]_vars
  BY DEF ViewNext, ViewStep, Asks, FindsOrder, ReadsOrderItems, ReadsOrderDeliveries,
         ReadsOrderRefunds, Reads
<1> QED
  BY <1>1, PTL DEF ViewSpec, Spec

\* The invariant of views holds in every reachable state.
THEOREM ViewCorrect == ViewSpec => []ViewInv
<1>1. ViewSpec => []Inv
  BY ViewOnlyWatches, InvCorrect, PTL
<1> QED
  BY <1>1, ViewStarts, ViewNextStep, PTL DEF ViewSpec

\* What a view shows of a unit is true of it from then on.
THEOREM ViewsStayTrue == ViewSpec => []ViewStaysTrue
<1>1. ViewInv => ViewStaysTrue
  BY DEF ViewInv
<1> QED
  BY <1>1, ViewCorrect, PTL

LEMMA FinalViewFollows == Inv /\ ViewInv => FinalViewIsComplete
<1> SUFFICES ASSUME Inv, ViewInv, Shown, view.status \in Settled,
                    NEW i \in ItemsOf(view.order)
             PROVE  \/ view.items[i] = "delivered" /\ view.codes[i] # NoCode
                    \/ view.items[i] = "refunded" /\ i \in view.refunds
  BY DEF FinalViewIsComplete
<1>1. i \in Items /\ itemStatus[i] \in ItemStatus \ Open
  BY DEF ViewInv, FinalShown, Inv, TypeOK, ItemsOf
<1>2. /\ view.items[i] = itemStatus[i] /\ view.codes[i] = deliveries[i]
      /\ i \in view.refunds <=> i \in refunds
  BY DEF Shown, ViewInv, FinalShown
<1>3. /\ itemStatus[i] = "delivered" <=> deliveries[i] # NoCode
      /\ itemStatus[i] = "refunded" <=> i \in refunds
  BY <1>1 DEF Inv, BooksBalance
<1> QED
  BY <1>1, <1>2, <1>3 DEF ItemStatus

\* A view of an order as final shows every unit with its code or its refund.
THEOREM FinalViewComplete == ViewSpec => []FinalViewIsComplete
<1>1. ViewSpec => []Inv
  BY ViewOnlyWatches, InvCorrect, PTL
<1> QED
  BY <1>1, FinalViewFollows, ViewCorrect, PTL

------------------------------------------------------------------------------
(* A report: how it starts.                                                *)

LEMMA ReconStarts == Init /\ ReconInit => ReconInv
<1> SUFFICES ASSUME Init, ReconInit PROVE ReconInv
  OBVIOUS
<1>1. recon = NoRecon
  BY DEF ReconInit
<1>2. NoRecon \in Recon /\ NoRecon.known = {} /\ NoRecon.actual = {} /\ "tables" \in NoRecon.left
      /\ NoRecon.deliveredNotPaid = {} /\ NoRecon.moneyMismatches = {}
  BY DEF NoRecon, Recon, Queries, Expected
<1>3. EventsInv
  BY DEF Init, EventsInv
<1>4. ReconShape /\ ListsInv /\ BalancesInv /\ NothingAlarming
  BY <1>1, <1>2 DEF ReconShape, ListsInv, BalancesInv, NothingAlarming
<1> QED
  BY <1>3, <1>4 DEF ReconInv

\* A list shows nothing that was not found, and hides a row only by being full.
LEMMA CappedShows ==
  ASSUME NEW found, NEW rows \in Capped(found)
  PROVE  rows \subseteq found /\ \A row \in found : Shows(rows, row)
  BY DEF Capped, Shows

------------------------------------------------------------------------------
(* Steps of the shop beside a report.                                      *)

LEMMA EventType ==
  ASSUME Inv
  PROVE  /\ orderStatus \in [Orders -> OrderStatus]
         /\ eventOutcome \in [Events -> {"absent", "applied", "ignored",
                                         "order_not_found", "amount_mismatch"}]
  BY DEF Inv, TypeOK

\* The ledger only grows.
LEMMA LedgerGrows ==
  ASSUME Inv, [Next]_vars
  PROVE  ledger \subseteq ledger'
<1>1. \A i \in Items : /\ <<"delivery", i>> \in ledger => <<"delivery", i>> \in ledger'
                       /\ <<"refund", i>> \in ledger => <<"refund", i>> \in ledger'
  <2>1. CASE ItemsKept
    BY <2>1 DEF ItemsKept
  <2>2. ASSUME NEW l \in Lanes, NEW t \in lane[l].todo,
               Gives(l, t) \/ Decides(l, t) \/ PaysBack(l, t) \/ BooksIt(l, t)
        PROVE  ledger \subseteq ledger'
    BY <2>2 DEF Gives, Decides, PaysBack, BooksIt
  <2> QED
    BY <2>1, <2>2, ItemEffects
<1>2. \A e \in Events : <<"payment", e>> \in ledger => <<"payment", e>> \in ledger'
  <2>1. ASSUME NEW f \in Events, Webhook(f) PROVE ledger \subseteq ledger'
    BY <2>1, WebhookEffect
  <2>2. CASE PaymentsKept
    BY <2>2 DEF PaymentsKept
  <2> QED
    BY <2>1, <2>2, OnlyWebhooksPay
<1>3. ledger \subseteq Postings
  BY DEF Inv, TypeOK
<1>4. ASSUME NEW p \in ledger PROVE p \in ledger'
  <2>1. CASE p \in {"payment"} \X Events
    <3>1. PICK e \in Events : p = <<"payment", e>>
      BY <2>1
    <3> QED
      BY <1>2, <1>4, <3>1
  <2>2. CASE p \in {"delivery", "refund"} \X Items
    <3>1. PICK i \in Items : p = <<"delivery", i>> \/ p = <<"refund", i>>
      BY <2>2
    <3> QED
      BY <1>1, <1>4, <3>1
  <2> QED
    BY <1>3, <1>4, <2>1, <2>2 DEF Postings
<1> QED
  BY <1>4

\* A step posts the payment of an event only if it records the event.
LEMMA PostedWhenRecorded ==
  ASSUME Inv, [Next]_vars, NEW e \in Events, ~Webhook(e)
  PROVE  /\ eventOutcome'[e] = eventOutcome[e]
         /\ <<"payment", e>> \in ledger' => <<"payment", e>> \in ledger
<1>1. ASSUME NEW f \in Events, Webhook(f)
      PROVE  /\ eventOutcome'[e] = eventOutcome[e]
             /\ <<"payment", e>> \in ledger' => <<"payment", e>> \in ledger
  <2>1. f # e
    BY <1>1
  <2>2. ledger' = ledger \/ ledger' = ledger \cup {<<"payment", f>>}
    BY <1>1, WebhookEffect
  <2>3. <<"payment", e>> # <<"payment", f>>
    BY <2>1
  <2>4. eventOutcome' = [eventOutcome EXCEPT ![f] = Outcome(f)]
    BY <1>1 DEF Webhook
  <2> QED
    BY <2>1, <2>2, <2>3, <2>4, EventType
<1>2. CASE PaymentsKept
  BY <1>2 DEF PaymentsKept
<1> QED
  BY <1>1, <1>2, OnlyWebhooksPay

\* The outcome of a recorded event is final.
LEMMA OutcomeStands ==
  ASSUME Inv, [Next]_vars, NEW e \in Events, eventOutcome[e] # "absent"
  PROVE  eventOutcome'[e] = eventOutcome[e]
  BY PostedWhenRecorded DEF Webhook

\* A unit whose payment was misspelled remains one.
LEMMA MisspelledStays ==
  ASSUME Inv, [Next]_vars
  PROVE  Misspelled \subseteq Misspelled'
<1> SUFFICES ASSUME NEW i \in Items, NEW e \in Events, EventOrder[e] = OrderOf[i], SaysPaid(e),
                    eventOutcome[e] = "applied", e \notin Canonical
             PROVE  i \in Misspelled'
  BY DEF Misspelled, Applied
<1>1. eventOutcome'[e] = "applied"
  BY OutcomeStands
<1> QED
  BY <1>1 DEF Misspelled, Applied, SaysPaid

LEMMA EventsStep ==
  ASSUME Inv, EventsInv, [Next]_vars
  PROVE  EventsInv'
<1> SUFFICES ASSUME NEW e \in Events
             PROVE  /\ eventOutcome'[e] \in {"applied", "ignored"} =>
                         EventOrder[e] \in Orders /\ orderStatus'[EventOrder[e]] # "created"
                    /\ eventOutcome'[e] = "applied" /\ SaysPaid(e) =>
                         orderStatus'[EventOrder[e]] \notin Unpaid
                    /\ <<"payment", e>> \in ledger' => SaysPaid(e)
  BY DEF EventsInv, SaysPaid
<1>1. CASE eventOutcome[e] # "absent"
  <2>1. eventOutcome'[e] = eventOutcome[e]
    BY <1>1, OutcomeStands
  <2>2. ASSUME EventOrder[e] \in Orders, orderStatus[EventOrder[e]] # "created"
        PROVE  /\ orderStatus'[EventOrder[e]] # "created"
               /\ orderStatus[EventOrder[e]] \notin Unpaid => orderStatus'[EventOrder[e]] \notin Unpaid
    BY <2>2, OrderEffects DEF OrderEffect, Unpaid, Settled
  <2>3. <<"payment", e>> \in ledger' => <<"payment", e>> \in ledger
    BY <1>1, PostedWhenRecorded DEF Webhook
  <2> QED
    BY <2>1, <2>2, <2>3 DEF EventsInv
<1>2. CASE eventOutcome[e] = "absent" /\ Webhook(e)
  <2>1. eventOutcome'[e] = Outcome(e)
    BY <1>2, EventType DEF Webhook
  <2>2. Outcome(e) \in {"applied", "ignored"} => EventOrder[e] \in Orders
    BY ConstantsAssumption DEF Outcome
  <2>3. ASSUME Outcome(e) = "ignored" PROVE orderStatus'[EventOrder[e]] # "created"
    BY <1>2, <2>3, EventType DEF Webhook, Outcome
  <2>4. ASSUME Outcome(e) = "applied"
        PROVE  /\ orderStatus'[EventOrder[e]] \in {"payment_failed", "paid"}
               /\ SaysPaid(e) => orderStatus'[EventOrder[e]] = "paid"
    BY <1>2, <2>2, <2>4, EventType DEF Webhook, SaysPaid
  <2>5. <<"payment", e>> \in ledger' => SaysPaid(e)
    BY <1>2 DEF Webhook, SaysPaid, EventsInv
  <2> QED
    BY <2>1, <2>2, <2>3, <2>4, <2>5 DEF Unpaid
<1>3. CASE eventOutcome[e] = "absent" /\ ~Webhook(e)
  <2>1. /\ eventOutcome'[e] = "absent"
        /\ <<"payment", e>> \in ledger' => <<"payment", e>> \in ledger
    BY <1>3, PostedWhenRecorded
  <2> QED
    BY <2>1 DEF EventsInv
<1> QED
  BY <1>1, <1>2, <1>3

\* What a list of known events left out, it need not show later either.
LEMMA ListsOutlive ==
  ASSUME Inv, EventsInv, ListsInv, recon \in Recon, [Next]_vars, UNCHANGED recon
  PROVE  ListsInv'
<1> SUFFICES ASSUME NEW e \in recon.known
             PROVE  /\ eventOutcome'[e] # "absent"
                    /\ SaysPaid(e) =>
                      /\ "unmatchedEvents" \notin recon.left
                           /\ eventOutcome'[e] \in {"order_not_found", "amount_mismatch"}
                           => Shows(recon.unmatchedEvents, e)
                      /\ "paidAfterFailure" \notin recon.left /\ eventOutcome'[e] = "ignored"
                           /\ orderStatus'[EventOrder[e]] = "payment_failed"
                           => Shows(recon.paidAfterFailure, e)
                      /\ "paidNotDelivered" \notin recon.left
                           /\ eventOutcome'[e] \in {"applied", "ignored"}
                           /\ orderStatus'[EventOrder[e]] \notin Unpaid
                           => \/ Shows(recon.paidNotDelivered, EventOrder[e])
                              \/ OpenItems(EventOrder[e])' = {}
  BY DEF ListsInv, SaysPaid, Shows
<1>1. e \in Events
  BY DEF Recon
<1>2. eventOutcome[e] # "absent"
  BY DEF ListsInv
<1>3. eventOutcome'[e] = eventOutcome[e]
  BY <1>1, <1>2, OutcomeStands
<1>4. eventOutcome[e] \in {"applied", "ignored"} =>
        EventOrder[e] \in Orders /\ orderStatus[EventOrder[e]] # "created"
  BY <1>1 DEF EventsInv
<1>5. ASSUME EventOrder[e] \in Orders, orderStatus[EventOrder[e]] # "created"
      PROVE  orderStatus[EventOrder[e]] = "payment_failed"
               <=> orderStatus'[EventOrder[e]] = "payment_failed"
  BY <1>5, OrderEffects DEF OrderEffect, Unpaid, Settled
<1>6. ASSUME EventOrder[e] \in Orders, OpenItems(EventOrder[e]) = {}
      PROVE  OpenItems(EventOrder[e])' = {}
  BY <1>6, SettledStays
<1>7. ASSUME SaysPaid(e), "unmatchedEvents" \notin recon.left,
             eventOutcome'[e] \in {"order_not_found", "amount_mismatch"}
      PROVE  Shows(recon.unmatchedEvents, e)
  BY <1>3, <1>7 DEF ListsInv
<1>8. ASSUME SaysPaid(e), "paidAfterFailure" \notin recon.left, eventOutcome'[e] = "ignored",
             orderStatus'[EventOrder[e]] = "payment_failed"
      PROVE  Shows(recon.paidAfterFailure, e)
  BY <1>3, <1>4, <1>5, <1>8 DEF ListsInv
<1>9. ASSUME SaysPaid(e), "paidNotDelivered" \notin recon.left,
             eventOutcome'[e] \in {"applied", "ignored"},
             orderStatus'[EventOrder[e]] \notin Unpaid
      PROVE  Shows(recon.paidNotDelivered, EventOrder[e]) \/ OpenItems(EventOrder[e])' = {}
  <2>1. orderStatus[EventOrder[e]] \notin Unpaid
    BY <1>3, <1>4, <1>5, <1>9 DEF Unpaid
  <2>2. Shows(recon.paidNotDelivered, EventOrder[e]) \/ OpenItems(EventOrder[e]) = {}
    BY <1>3, <1>9, <2>1 DEF ListsInv
  <2> QED
    BY <1>3, <1>4, <1>6, <1>9, <2>2
<1> QED
  BY <1>2, <1>3, <1>7, <1>8, <1>9

LEMMA ReconOutlivesStep ==
  ASSUME Inv, ReconInv, [Next]_vars, UNCHANGED recon
  PROVE  ReconInv'
<1>1. ReconShape' /\ NothingAlarming'
  BY MisspelledStays DEF ReconInv, ReconShape, NothingAlarming
<1>2. EventsInv' /\ ListsInv'
  BY EventsStep, ListsOutlive DEF ReconInv, ReconShape
<1>3. recon.actual \subseteq ledger /\ ledger \subseteq ledger'
  BY LedgerGrows DEF ReconInv, BalancesInv
<1>4. BooksAgree' = BooksAgree
  BY DEF BooksAgree, OnePayment, Paid, PostedAs
<1>5. BalancesInv'
  BY <1>3, <1>4 DEF ReconInv, BalancesInv
<1> QED
  BY <1>1, <1>2, <1>5 DEF ReconInv

------------------------------------------------------------------------------
(* What each query finds in a state of the shop.                           *)

\* An order that was paid for has one payment, applied, and a unit that is
\* settled, or being refunded, belongs to such an order.
LEMMA PaidOrdersHavePayment ==
  ASSUME Inv, EventsInv, NEW o \in Orders
  PROVE  IF orderStatus[o] \in Unpaid THEN Paid(o, ledger) = {}
         ELSE \E e \in Events : /\ Paid(o, ledger) = {e} /\ EventOrder[e] = o
                                /\ SaysPaid(e) /\ eventOutcome[e] = "applied"
<1>1. PaymentBooked(o) /\ PaymentsOf(o) = Paid(o, ledger)
  BY BooksSplit DEF Inv, PaymentsOf, Paid
<1> QED
  BY <1>1 DEF PaymentBooked, EventsInv, Paid

LEMMA UnitsAreBooked ==
  ASSUME Inv, NEW i \in Items
  PROVE  /\ OrderOf[i] \in Orders /\ itemStatus[i] \in ItemStatus
         /\ <<"delivery", i>> \in ledger <=> itemStatus[i] = "delivered"
         /\ <<"refund", i>> \in ledger <=> itemStatus[i] = "refunded"
         /\ deliveries[i] # NoCode <=> itemStatus[i] = "delivered"
         /\ itemStatus[i] # "pending" => orderStatus[OrderOf[i]] \notin Unpaid
<1>1. OrderOf[i] \in Orders
  BY ConstantsAssumption
<1> QED
  BY <1>1 DEF Inv, TypeOK, BooksBalance, UnpaidUntouched, ItemsOf

\* What was delivered was paid for, so only the spelling can hide the payment.
LEMMA NothingDeliveredUnpaid ==
  ASSUME Inv, EventsInv
  PROVE  DeliveredNotPaid \subseteq Misspelled
<1> SUFFICES ASSUME NEW i \in Items, deliveries[i] # NoCode,
                    Applied(OrderOf[i]) \cap Canonical = {}
             PROVE  i \in Misspelled
  BY UnitsAreBooked DEF DeliveredNotPaid
<1>1. OrderOf[i] \in Orders /\ orderStatus[OrderOf[i]] \notin Unpaid
  BY UnitsAreBooked
<1>2. PICK e \in Events : e \in Applied(OrderOf[i])
  BY <1>1, PaidOrdersHavePayment DEF Applied
<1> QED
  BY <1>2 DEF Misspelled

LEMMA NoMismatch ==
  ASSUME Inv, EventsInv
  PROVE  MoneyMismatches = {}
<1> SUFFICES ASSUME NEW o \in Orders, orderStatus[o] \notin Unpaid
             PROVE  /\ OnePayment(o, ledger)
                    /\ PostedAs("refund", ledger) \cap ItemsOf(o) = ItemsIn({"refunded"}) \cap ItemsOf(o)
                    /\ PostedAs("delivery", ledger) \cap ItemsOf(o) = ItemsIn({"delivered"}) \cap ItemsOf(o)
                    /\ orderStatus[o] \in Settled => OpenItems(o) = {}
  BY DEF MoneyMismatches
<1>1. OnePayment(o, ledger)
  BY PaidOrdersHavePayment DEF OnePayment
<1>2. /\ PostedAs("refund", ledger) = ItemsIn({"refunded"})
      /\ PostedAs("delivery", ledger) = ItemsIn({"delivered"})
  BY UnitsAreBooked DEF PostedAs, ItemsIn
<1>3. orderStatus[o] \in Settled => OpenItems(o) = {}
  BY DEF Inv, FinalMeansSettled
<1> QED
  BY <1>1, <1>2, <1>3

\* A ledger and tables that are read of one state agree.
LEMMA TablesAgree ==
  ASSUME Inv, EventsInv, recon'.actual = ledger, recon'.expected = BalancesOfTables
  PROVE  BooksAgree'
<1>1. /\ recon'.expected.paid = {o \in Orders : orderStatus[o] \notin Unpaid}
      /\ recon'.expected.delivered = PaidFor \cap ItemsIn({"delivered"})
      /\ recon'.expected.refunded = PaidFor \cap ItemsIn({"refunded"})
      /\ recon'.expected.outstanding = PaidFor \cap ItemsIn(Open)
  BY DEF BalancesOfTables
<1>2. \A o \in Orders : IF o \in recon'.expected.paid THEN OnePayment(o, ledger)
                        ELSE Paid(o, ledger) = {}
  BY <1>1, PaidOrdersHavePayment DEF OnePayment
<1>3. /\ PostedAs("refund", ledger) = recon'.expected.refunded
      /\ PostedAs("delivery", ledger) = recon'.expected.delivered
  BY <1>1, UnitsAreBooked DEF PostedAs, ItemsIn, PaidFor
<1>4. {i \in Items : Paid(OrderOf[i], ledger) # {}} = PaidFor
  <2>1. \A o \in Orders : Paid(o, ledger) # {} <=> orderStatus[o] \notin Unpaid
    BY PaidOrdersHavePayment
  <2> QED
    BY <2>1, UnitsAreBooked DEF PaidFor
<1>5. PaidFor \ (PostedAs("delivery", ledger) \cup PostedAs("refund", ledger)) = PaidFor \cap ItemsIn(Open)
  <2>1. \A i \in Items : itemStatus[i] \in Open <=> /\ <<"delivery", i>> \notin ledger
                                                    /\ <<"refund", i>> \notin ledger
    BY UnitsAreBooked DEF ItemStatus, Open
  <2> QED
    BY <2>1 DEF PostedAs, ItemsIn, PaidFor
<1> QED
  BY <1>1, <1>2, <1>3, <1>4, <1>5 DEF BooksAgree, OnePayment, Paid, PostedAs

------------------------------------------------------------------------------
(* Steps of the report.                                                    *)

LEMMA AsksReportStep ==
  ASSUME Inv, ReconInv, AsksReport
  PROVE  ReconInv'
<1> DEFINE known == {e \in Events : eventOutcome[e] # "absent"}
           q == [NoRecon EXCEPT !.asked = TRUE, !.known = known]
<1>1. recon' = q /\ UNCHANGED vars
  BY DEF AsksReport, ReconInv, ReconShape
<1>2. NoRecon \in Recon
  BY DEF NoRecon, Recon, Queries, Expected
<1>3. /\ q \in Recon /\ q.asked /\ q.known = known /\ q.left = Queries /\ q.actual = {}
      /\ q.deliveredNotPaid = {} /\ q.moneyMismatches = {}
  BY <1>2 DEF NoRecon, Recon
<1> HIDE DEF q
<1>4. ReconShape' /\ NothingAlarming'
  BY <1>1, <1>3 DEF ReconShape, NothingAlarming, Queries
<1>5. EventsInv'
  BY <1>1 DEF ReconInv, EventsInv, SaysPaid, vars, tables
<1>6. ListsInv'
  BY <1>1, <1>3 DEF ListsInv, Queries, vars, tables
<1>7. BalancesInv'
  BY <1>1, <1>3 DEF BalancesInv, Queries
<1> QED
  BY <1>4, <1>5, <1>6, <1>7 DEF ReconInv

\* A query changes no event.
LEMMA SpellingKept ==
  ASSUME UNCHANGED vars
  PROVE  Misspelled' = Misspelled
  BY DEF Misspelled, Applied, SaysPaid, vars, tables

\* A query that leaves the two balances alone.
LEMMA QueryAnswered ==
  ASSUME ReconInv, NEW query \in Queries \ {"ledger", "tables"}, NEW seen \in Recon,
         Answers(query, seen), seen.asked = recon.asked, seen.left = recon.left,
         seen.actual = recon.actual, seen.expected = recon.expected
  PROVE  /\ recon' = [seen EXCEPT !.left = recon.left \ {query}] /\ recon' \in Recon
         /\ recon'.left = recon.left \ {query}
         /\ UNCHANGED vars /\ ReconShape' /\ EventsInv' /\ BalancesInv'
<1> DEFINE q == [seen EXCEPT !.left = recon.left \ {query}]
<1>1. recon' = q /\ UNCHANGED vars /\ recon.asked
  BY DEF Answers
<1>2. q \in Recon /\ q.left = recon.left \ {query} /\ q.asked
      /\ q.actual = recon.actual /\ q.expected = recon.expected
  BY <1>1 DEF Recon, ReconInv, ReconShape
<1> HIDE DEF q
<1>3. ReconShape'
  BY <1>1, <1>2 DEF ReconInv, ReconShape
<1>4. EventsInv'
  BY <1>1 DEF ReconInv, EventsInv, SaysPaid, vars, tables
<1>5. BooksAgree' = BooksAgree
  BY <1>1, <1>2 DEF BooksAgree, OnePayment, Paid, PostedAs
<1>6. BalancesInv'
  BY <1>1, <1>2, <1>5 DEF ReconInv, BalancesInv, vars, tables
<1> QED
  BY <1>1, <1>2, <1>3, <1>4, <1>6 DEF q

LEMMA UnsettledStep ==
  ASSUME Inv, ReconInv, ListsUnsettled
  PROVE  ReconInv'
<1>0. PICK rows \in Capped(PaidNotDelivered) : Answers("paidNotDelivered", [recon EXCEPT !.paidNotDelivered = rows])
  BY DEF ListsUnsettled
<1> DEFINE seen == [recon EXCEPT !.paidNotDelivered = rows]
<1>1. /\ seen \in Recon /\ seen.asked = recon.asked /\ seen.left = recon.left
      /\ seen.actual = recon.actual /\ seen.expected = recon.expected
  BY CappedShows DEF ReconInv, ReconShape, Recon, PaidNotDelivered
<1>2. Answers("paidNotDelivered", seen) /\ "paidNotDelivered" \in Queries \ {"ledger", "tables"}
  BY <1>0 DEF Queries
<1>3. /\ recon' = [seen EXCEPT !.left = recon.left \ {"paidNotDelivered"}] /\ recon' \in Recon
      /\ recon'.left = recon.left \ {"paidNotDelivered"}
      /\ UNCHANGED vars /\ ReconShape' /\ EventsInv' /\ BalancesInv'
  BY <1>1, <1>2, QueryAnswered
<1>4. /\ recon'.known = recon.known /\ recon'.unmatchedEvents = recon.unmatchedEvents
      /\ recon'.paidAfterFailure = recon.paidAfterFailure
      /\ recon'.deliveredNotPaid = recon.deliveredNotPaid
      /\ recon'.moneyMismatches = recon.moneyMismatches
      /\ recon'.paidNotDelivered = rows
  BY <1>3 DEF ReconInv, ReconShape, Recon
<1>5. NothingAlarming'
  BY <1>3, <1>4, SpellingKept DEF ReconInv, NothingAlarming
\* An order that is paid for and not found is final.
<1>6. ASSUME NEW o \in Orders, orderStatus[o] \notin Unpaid, o \notin PaidNotDelivered
      PROVE  OpenItems(o) = {}
  <2>1. orderStatus[o] \in Settled
    BY <1>6, EventType DEF PaidNotDelivered, OrderStatus, Unpaid
  <2> QED
    BY <2>1 DEF Inv, FinalMeansSettled
<1>7. ListsInv'
  <2> SUFFICES ASSUME NEW e \in recon.known
               PROVE  /\ eventOutcome[e] # "absent"
                      /\ SaysPaid(e) =>
                        /\ "unmatchedEvents" \notin recon.left
                             /\ eventOutcome[e] \in {"order_not_found", "amount_mismatch"}
                             => Shows(recon.unmatchedEvents, e)
                        /\ "paidAfterFailure" \notin recon.left /\ eventOutcome[e] = "ignored"
                             /\ orderStatus[EventOrder[e]] = "payment_failed"
                             => Shows(recon.paidAfterFailure, e)
                        /\ eventOutcome[e] \in {"applied", "ignored"}
                             /\ orderStatus[EventOrder[e]] \notin Unpaid
                             => Shows(rows, EventOrder[e]) \/ OpenItems(EventOrder[e]) = {}
    BY <1>3, <1>4 DEF ListsInv, SaysPaid, Shows, OpenItems, vars, tables
  <2>1. e \in Events
    BY DEF ReconInv, ReconShape, Recon
  <2>2. ASSUME eventOutcome[e] \in {"applied", "ignored"}, orderStatus[EventOrder[e]] \notin Unpaid
        PROVE  Shows(rows, EventOrder[e]) \/ OpenItems(EventOrder[e]) = {}
    <3>1. EventOrder[e] \in Orders
      BY <2>1, <2>2 DEF ReconInv, EventsInv
    <3>2. \A o \in PaidNotDelivered : Shows(rows, o)
      BY CappedShows
    <3> QED
      BY <1>6, <2>2, <3>1, <3>2
  <2> QED
    BY <2>2 DEF ReconInv, ListsInv
<1> QED
  BY <1>3, <1>5, <1>7 DEF ReconInv

\* A query of another list than that of the orders not settled.
LEMMA UnmatchedStep ==
  ASSUME Inv, ReconInv, ListsUnmatched
  PROVE  ReconInv'
<1>0. PICK rows \in Capped(UnmatchedEvents) : Answers("unmatchedEvents", [recon EXCEPT !.unmatchedEvents = rows])
  BY DEF ListsUnmatched
<1> DEFINE seen == [recon EXCEPT !.unmatchedEvents = rows]
<1>1. /\ seen \in Recon /\ seen.asked = recon.asked /\ seen.left = recon.left
      /\ seen.actual = recon.actual /\ seen.expected = recon.expected
  BY CappedShows DEF ReconInv, ReconShape, Recon, UnmatchedEvents
<1>2. Answers("unmatchedEvents", seen) /\ "unmatchedEvents" \in Queries \ {"ledger", "tables"}
  BY <1>0 DEF Queries
<1>3. /\ recon' = [seen EXCEPT !.left = recon.left \ {"unmatchedEvents"}] /\ recon' \in Recon
      /\ recon'.left = recon.left \ {"unmatchedEvents"}
      /\ UNCHANGED vars /\ ReconShape' /\ EventsInv' /\ BalancesInv'
  BY <1>1, <1>2, QueryAnswered
<1>4. /\ recon'.known = recon.known /\ recon'.unmatchedEvents = rows
      /\ recon'.paidAfterFailure = recon.paidAfterFailure
      /\ recon'.deliveredNotPaid = recon.deliveredNotPaid
      /\ recon'.moneyMismatches = recon.moneyMismatches
      /\ recon'.paidNotDelivered = recon.paidNotDelivered
  BY <1>3 DEF ReconInv, ReconShape, Recon
<1>5. NothingAlarming'
  BY <1>3, <1>4, SpellingKept DEF ReconInv, NothingAlarming
<1>6. \A e \in recon.known : eventOutcome[e] \in {"order_not_found", "amount_mismatch"}
                               => Shows(rows, e)
  BY CappedShows DEF ReconInv, ReconShape, Recon, UnmatchedEvents
<1>7. ListsInv'
  BY <1>3, <1>4, <1>6 DEF ReconInv, ListsInv, SaysPaid, Shows, OpenItems, vars, tables
<1> QED
  BY <1>3, <1>5, <1>7 DEF ReconInv

LEMMA AfterFailureStep ==
  ASSUME Inv, ReconInv, ListsAfterFailure
  PROVE  ReconInv'
<1>0. PICK rows \in Capped(PaidAfterFailure) : Answers("paidAfterFailure", [recon EXCEPT !.paidAfterFailure = rows])
  BY DEF ListsAfterFailure
<1> DEFINE seen == [recon EXCEPT !.paidAfterFailure = rows]
<1>1. /\ seen \in Recon /\ seen.asked = recon.asked /\ seen.left = recon.left
      /\ seen.actual = recon.actual /\ seen.expected = recon.expected
  BY CappedShows DEF ReconInv, ReconShape, Recon, PaidAfterFailure
<1>2. Answers("paidAfterFailure", seen) /\ "paidAfterFailure" \in Queries \ {"ledger", "tables"}
  BY <1>0 DEF Queries
<1>3. /\ recon' = [seen EXCEPT !.left = recon.left \ {"paidAfterFailure"}] /\ recon' \in Recon
      /\ recon'.left = recon.left \ {"paidAfterFailure"}
      /\ UNCHANGED vars /\ ReconShape' /\ EventsInv' /\ BalancesInv'
  BY <1>1, <1>2, QueryAnswered
<1>4. /\ recon'.known = recon.known /\ recon'.unmatchedEvents = recon.unmatchedEvents
      /\ recon'.paidAfterFailure = rows
      /\ recon'.deliveredNotPaid = recon.deliveredNotPaid
      /\ recon'.moneyMismatches = recon.moneyMismatches
      /\ recon'.paidNotDelivered = recon.paidNotDelivered
  BY <1>3 DEF ReconInv, ReconShape, Recon
<1>5. NothingAlarming'
  BY <1>3, <1>4, SpellingKept DEF ReconInv, NothingAlarming
<1>6. \A e \in recon.known :
        SaysPaid(e) /\ eventOutcome[e] = "ignored" /\ orderStatus[EventOrder[e]] = "payment_failed"
          => Shows(rows, e)
  BY CappedShows DEF ReconInv, ReconShape, Recon, PaidAfterFailure
<1>7. ListsInv'
  BY <1>3, <1>4, <1>6 DEF ReconInv, ListsInv, SaysPaid, Shows, OpenItems, vars, tables
<1> QED
  BY <1>3, <1>5, <1>7 DEF ReconInv

\* Steps that read no list of payments.
LEMMA ListsUnread ==
  ASSUME ListsInv, UNCHANGED vars, NEW query \in {"deliveredNotPaid", "moneyMismatches", "ledger", "tables"},
         recon'.left = recon.left \ {query}, recon'.known = recon.known,
         recon'.unmatchedEvents = recon.unmatchedEvents,
         recon'.paidAfterFailure = recon.paidAfterFailure,
         recon'.paidNotDelivered = recon.paidNotDelivered
  PROVE  ListsInv'
  BY DEF ListsInv, SaysPaid, Shows, OpenItems, vars, tables

LEMMA DeliveredUnpaidStep ==
  ASSUME Inv, ReconInv, ListsUnpaid
  PROVE  ReconInv'
<1>1. PICK rows \in Capped(DeliveredNotPaid) :
        Answers("deliveredNotPaid", [recon EXCEPT !.deliveredNotPaid = rows])
  BY DEF ListsUnpaid
<1>2. rows \subseteq DeliveredNotPaid /\ DeliveredNotPaid \subseteq Misspelled
  BY CappedShows, NothingDeliveredUnpaid DEF ReconInv
<1> DEFINE seen == [recon EXCEPT !.deliveredNotPaid = rows]
<1>3. /\ seen \in Recon /\ seen.asked = recon.asked /\ seen.left = recon.left
      /\ seen.actual = recon.actual /\ seen.expected = recon.expected
  BY <1>2 DEF ReconInv, ReconShape, Recon, DeliveredNotPaid
<1>4. /\ recon' = [seen EXCEPT !.left = recon.left \ {"deliveredNotPaid"}] /\ recon' \in Recon
      /\ recon'.left = recon.left \ {"deliveredNotPaid"}
      /\ UNCHANGED vars /\ ReconShape' /\ EventsInv' /\ BalancesInv'
  BY <1>1, <1>3, QueryAnswered DEF Queries
<1>5. /\ recon'.known = recon.known /\ recon'.unmatchedEvents = recon.unmatchedEvents
      /\ recon'.paidAfterFailure = recon.paidAfterFailure
      /\ recon'.deliveredNotPaid = rows
      /\ recon'.moneyMismatches = recon.moneyMismatches
      /\ recon'.paidNotDelivered = recon.paidNotDelivered
  BY <1>4 DEF ReconInv, ReconShape, Recon
<1>6. NothingAlarming'
  BY <1>2, <1>4, <1>5, SpellingKept DEF ReconInv, NothingAlarming
<1>7. ListsInv'
  BY <1>4, <1>5, ListsUnread DEF ReconInv
<1> QED
  BY <1>4, <1>6, <1>7 DEF ReconInv

LEMMA MismatchesStep ==
  ASSUME Inv, ReconInv, ListsMismatches
  PROVE  ReconInv'
<1>1. PICK rows \in Capped(MoneyMismatches) :
        Answers("moneyMismatches", [recon EXCEPT !.moneyMismatches = rows])
  BY DEF ListsMismatches
<1>2. rows = {} /\ recon.moneyMismatches = {} /\ recon \in Recon
  BY CappedShows, NoMismatch DEF ReconInv, NothingAlarming, ReconShape
\* The list is empty before and after, so nothing is written at all.
<1>3. [recon EXCEPT !.moneyMismatches = rows] = recon
  BY <1>2 DEF Recon
<1>4. Answers("moneyMismatches", recon) /\ "moneyMismatches" \in Queries \ {"ledger", "tables"}
  BY <1>1, <1>3 DEF Queries
<1>5. /\ recon' = [recon EXCEPT !.left = recon.left \ {"moneyMismatches"}] /\ recon' \in Recon
      /\ recon'.left = recon.left \ {"moneyMismatches"}
      /\ UNCHANGED vars /\ ReconShape' /\ EventsInv' /\ BalancesInv'
  BY <1>2, <1>4, QueryAnswered
<1>6. /\ recon'.known = recon.known /\ recon'.unmatchedEvents = recon.unmatchedEvents
      /\ recon'.paidAfterFailure = recon.paidAfterFailure
      /\ recon'.deliveredNotPaid = recon.deliveredNotPaid
      /\ recon'.moneyMismatches = recon.moneyMismatches
      /\ recon'.paidNotDelivered = recon.paidNotDelivered
  BY <1>2, <1>5 DEF Recon
<1>7. ListsInv' /\ NothingAlarming'
  BY <1>5, <1>6, ListsUnread, SpellingKept DEF ReconInv, NothingAlarming
<1> QED
  BY <1>5, <1>7 DEF ReconInv

LEMMA LedgerStep ==
  ASSUME Inv, ReconInv, AddsUpLedger
  PROVE  ReconInv'
<1> DEFINE q == [recon EXCEPT !.actual = ledger, !.left = recon.left \ {"ledger"}]
<1>1. /\ recon' = q /\ UNCHANGED vars /\ recon.asked /\ recon \in Recon
      /\ "ledger" \in recon.left /\ "tables" \in recon.left
  BY DEF AddsUpLedger, Answers, ReconInv, ReconShape
<1>2. /\ q \in Recon /\ q.asked /\ q.actual = ledger /\ q.left = recon.left \ {"ledger"}
      /\ q.known = recon.known /\ q.unmatchedEvents = recon.unmatchedEvents
      /\ q.paidAfterFailure = recon.paidAfterFailure
      /\ q.paidNotDelivered = recon.paidNotDelivered
      /\ q.deliveredNotPaid = recon.deliveredNotPaid
      /\ q.moneyMismatches = recon.moneyMismatches
  BY <1>1 DEF Recon, Inv, TypeOK
<1> HIDE DEF q
<1>3. ReconShape' /\ NothingAlarming'
  BY <1>1, <1>2, SpellingKept DEF ReconInv, ReconShape, NothingAlarming
<1>4. EventsInv'
  BY <1>1 DEF ReconInv, EventsInv, SaysPaid, vars, tables
<1>5. ListsInv'
  BY <1>1, <1>2, ListsUnread DEF ReconInv
<1>6. BalancesInv'
  BY <1>1, <1>2 DEF BalancesInv, vars, tables
<1> QED
  BY <1>3, <1>4, <1>5, <1>6 DEF ReconInv

LEMMA TablesStep ==
  ASSUME Inv, ReconInv, AddsUpTables
  PROVE  ReconInv'
<1> DEFINE q == [recon EXCEPT !.expected = BalancesOfTables, !.left = recon.left \ {"tables"}]
<1>1. /\ recon' = q /\ UNCHANGED vars /\ recon.asked /\ recon \in Recon
      /\ "ledger" \notin recon.left
  BY DEF AddsUpTables, Answers, ReconInv, ReconShape
<1>2. BalancesOfTables \in Expected
  BY DEF BalancesOfTables, Expected, PaidFor
<1>3. /\ q \in Recon /\ q.asked /\ q.actual = recon.actual /\ q.left = recon.left \ {"tables"}
      /\ q.known = recon.known /\ q.unmatchedEvents = recon.unmatchedEvents
      /\ q.paidAfterFailure = recon.paidAfterFailure
      /\ q.paidNotDelivered = recon.paidNotDelivered
      /\ q.deliveredNotPaid = recon.deliveredNotPaid
      /\ q.moneyMismatches = recon.moneyMismatches
      /\ q.expected = BalancesOfTables
  BY <1>1, <1>2 DEF Recon
<1> HIDE DEF q
<1>4. ReconShape' /\ NothingAlarming'
  BY <1>1, <1>3, SpellingKept DEF ReconInv, ReconShape, NothingAlarming
<1>5. EventsInv'
  BY <1>1 DEF ReconInv, EventsInv, SaysPaid, vars, tables
<1>6. ListsInv'
  BY <1>1, <1>3, ListsUnread DEF ReconInv
<1>7. ASSUME recon.actual = ledger PROVE BooksAgree'
  BY <1>1, <1>3, <1>7, TablesAgree DEF ReconInv
<1>8. BalancesInv'
  BY <1>1, <1>3, <1>7 DEF ReconInv, BalancesInv, vars, tables
<1> QED
  BY <1>4, <1>5, <1>6, <1>8 DEF ReconInv

------------------------------------------------------------------------------
(* Theorems of reports.                                                    *)

LEMMA ReconNextStep == Inv /\ ReconInv /\ [ReconNext]_<<vars, recon>> => ReconInv'
<1> SUFFICES ASSUME Inv, ReconInv, [ReconNext]_<<vars, recon>> PROVE ReconInv'
  OBVIOUS
<1>1. CASE (Next \/ UNCHANGED vars) /\ UNCHANGED recon
  BY <1>1, ReconOutlivesStep
<1>2. CASE ReconStep
  BY <1>2, AsksReportStep, UnsettledStep, UnmatchedStep, AfterFailureStep, DeliveredUnpaidStep,
     MismatchesStep, LedgerStep, TablesStep DEF ReconStep
<1> QED
  BY <1>1, <1>2 DEF ReconNext

\* A report only reads: what the shop does beside it is what it does anyway.
THEOREM ReconOnlyWatches == ReconSpec => Spec
<1>1. [ReconNext]_<<vars, recon>> => [Next]_vars
  BY DEF ReconNext, ReconStep, AsksReport, ListsUnsettled, ListsUnpaid, ListsMismatches,
         ListsUnmatched, ListsAfterFailure, AddsUpLedger, AddsUpTables, Answers
<1> QED
  BY <1>1, PTL DEF ReconSpec, Spec

\* The invariant of reports holds in every reachable state.
THEOREM ReconCorrect == ReconSpec => []ReconInv
<1>1. ReconSpec => []Inv
  BY ReconOnlyWatches, InvCorrect, PTL
<1> QED
  BY <1>1, ReconStarts, ReconNextStep, PTL DEF ReconSpec

LEMMA HealthFollows == ReconInv => HealthyWhenStill
<1>1. ASSUME ReconInv, Done
      PROVE  /\ recon.deliveredNotPaid \subseteq Misspelled /\ recon.moneyMismatches = {}
             /\ recon.actual = ledger => BooksAgree
  BY <1>1 DEF ReconInv, NothingAlarming, BalancesInv, Done
<1> QED
  BY <1>1 DEF HealthyWhenStill, Healthy

\* A report raises no alarm without a cause: the lists that must be empty are,
\* but for units whose payment spelled the order's id in another way.
THEOREM HealthyReports == ReconSpec => []HealthyWhenStill
  BY HealthFollows, ReconCorrect, PTL

LEMMA SightFollows == Inv /\ ReconInv => MoneyInSight
<1> SUFFICES ASSUME Inv, ReconInv, Done, NEW e \in recon.known, SaysPaid(e)
             PROVE  \/ /\ eventOutcome[e] \in {"order_not_found", "amount_mismatch"}
                       /\ Shows(recon.unmatchedEvents, e)
                    \/ /\ eventOutcome[e] \in {"applied", "ignored"}
                       /\ IF orderStatus[EventOrder[e]] \in Unpaid
                          THEN Shows(recon.paidAfterFailure, e)
                          ELSE \/ Shows(recon.paidNotDelivered, EventOrder[e])
                               \/ OpenItems(EventOrder[e]) = {}
  BY DEF MoneyInSight
<1>1. e \in Events /\ eventOutcome[e] # "absent"
  BY DEF ReconInv, ReconShape, Recon, ListsInv
<1>2. eventOutcome[e] \in {"applied", "ignored", "order_not_found", "amount_mismatch"}
  BY <1>1, EventType
<1>3. CASE eventOutcome[e] \in {"order_not_found", "amount_mismatch"}
  BY <1>3 DEF ReconInv, ListsInv, Done
<1>4. CASE eventOutcome[e] \in {"applied", "ignored"}
  <2>1. ASSUME orderStatus[EventOrder[e]] \in Unpaid
        PROVE  eventOutcome[e] = "ignored" /\ orderStatus[EventOrder[e]] = "payment_failed"
    BY <1>1, <1>4, <2>1 DEF ReconInv, EventsInv, Unpaid
  <2>2. ASSUME eventOutcome[e] = "ignored", orderStatus[EventOrder[e]] = "payment_failed"
        PROVE  Shows(recon.paidAfterFailure, e)
    BY <2>2 DEF ReconInv, ListsInv, Done
  <2>3. ASSUME orderStatus[EventOrder[e]] \notin Unpaid
        PROVE  Shows(recon.paidNotDelivered, EventOrder[e]) \/ OpenItems(EventOrder[e]) = {}
    BY <1>4, <2>3 DEF ReconInv, ListsInv, Done
  <2> QED
    BY <1>4, <2>1, <2>2, <2>3
<1> QED
  BY <1>2, <1>3, <1>4

\* A payment that a report could know of is in it or owes nothing by its end,
\* unless the list of its kind is full.
THEOREM MoneyStaysInSight == ReconSpec => []MoneyInSight
<1>1. ReconSpec => []Inv
  BY ReconOnlyWatches, InvCorrect, PTL
<1> QED
  BY <1>1, SightFollows, ReconCorrect, PTL

------------------------------------------------------------------------------
(* A listing: how it starts, and what goes on beside it.                   *)

LEMMA ListingStarts == Init /\ StorefrontInit => ListingInv
<1> SUFFICES ASSUME Init, StorefrontInit PROVE ListingInv
  OBVIOUS
<1>1. listing = NoListing /\ sets = 0
  BY DEF StorefrontInit
<1>2. /\ NoListing.pc = "idle" /\ NoListing.shown = <<>> /\ NoListing.always = {}
      /\ NoListing \in [pc : {"idle", "paging", "done"}, cursor : Nat,
                        shown : Seq(Skus), always : SUBSET InStock]
  BY DEF NoListing
<1>3. ListingShape
  BY <1>1, <1>2, StorefrontAssumption DEF ListingShape
<1>4. ListedInOrder /\ ShownUpToCursor /\ NothingPassedOver
  BY <1>1, <1>2 DEF ListedInOrder, Ordered, ShownUpToCursor, NothingPassedOver
<1> QED
  BY <1>1, <1>3, <1>4 DEF ListingInv

\* What is sold out meanwhile is no longer asked of the listing; the rest is.
LEMMA ListingWatches ==
  ASSUME ListingInv, Watches, sets' \in 0 .. MaxSets
  PROVE  ListingInv'
<1> DEFINE left == listing.always \cap {s \in Skus : stock'[s] > 0}
<1>1. listing' = [listing EXCEPT !.always = left]
  BY DEF Watches
<1>2. listing \in [pc : {"idle", "paging", "done"}, cursor : Nat,
                   shown : Seq(Skus), always : SUBSET InStock]
  BY DEF ListingInv, ListingShape
<1>3. /\ listing'.pc = listing.pc /\ listing'.cursor = listing.cursor
      /\ listing'.shown = listing.shown /\ listing'.always = left
  BY <1>1, <1>2
<1>4. left \subseteq listing.always /\ left \in SUBSET {s \in Skus : stock'[s] > 0}
  OBVIOUS
<1> HIDE DEF left
<1>5. listing' \in [pc : {"idle", "paging", "done"}, cursor : Nat,
                    shown : Seq(Skus), always : SUBSET {s \in Skus : stock'[s] > 0}]
  BY <1>1, <1>2, <1>4
<1>6. ListingShape'
  BY <1>5 DEF ListingShape, InStock
<1>7. ShownUpToCursor' /\ NothingPassedOver' /\ ListedInOrder'
  BY <1>3, <1>4 DEF ListingInv, ShownUpToCursor, NothingPassedOver, ListedInOrder
<1>8. ASSUME listing'.pc = "idle" PROVE listing' = NoListing
  <2>1. listing = NoListing /\ NoListing.always = {}
    BY <1>3, <1>8 DEF ListingInv, NoListing
  <2>2. left = {} /\ listing.always = {}
    BY <1>4, <2>1
  <2> QED
    BY <1>1, <2>1, <2>2 DEF NoListing
<1> QED
  BY <1>6, <1>7, <1>8 DEF ListingInv

LEMMA BeginsStep ==
  ASSUME ListingInv, Begins
  PROVE  ListingInv'
<1> DEFINE q == [NoListing EXCEPT !.pc = "paging", !.always = InStock]
<1>1. listing' = q /\ stock' = stock /\ sets' = sets
  BY DEF Begins, vars, tables
<1>2. /\ q.pc = "paging" /\ q.cursor = 0 /\ q.shown = <<>> /\ q.always = InStock
      /\ q \in [pc : {"idle", "paging", "done"}, cursor : Nat,
                shown : Seq(Skus), always : SUBSET InStock]
  <2>1. /\ NoListing.cursor = 0 /\ NoListing.shown = <<>>
        /\ NoListing \in [pc : {"idle", "paging", "done"}, cursor : Nat,
                          shown : Seq(Skus), always : SUBSET InStock]
    BY DEF NoListing
  <2> QED
    BY <2>1
<1> HIDE DEF q
<1>3. ListingShape'
  BY <1>1, <1>2 DEF ListingInv, ListingShape, InStock
<1>4. \A s \in InStock : ~(Rank[s] <= 0)
  BY StorefrontAssumption DEF InStock
<1>5. ShownUpToCursor' /\ NothingPassedOver' /\ ListedInOrder'
  BY <1>1, <1>2, <1>4 DEF ShownUpToCursor, NothingPassedOver, ListedInOrder, Ordered
<1> QED
  BY <1>1, <1>2, <1>3, <1>5 DEF ListingInv

------------------------------------------------------------------------------
(* A page. What the client keeps of it are the first of its rows: all of   *)
(* them if there is no cursor, else those up to the cursor.                *)

Kept(rows) == IF Len(rows) > PageLimit THEN PageLimit ELSE Len(rows)

\* Pages are joined: those kept are put behind what was shown.
LEMMA PageJoined ==
  ASSUME NEW shown \in Seq(Skus), NEW rows \in Seq(Skus), Len(rows) <= PageLimit + 1
  PROVE  /\ shown \o PageOf(rows) \in Seq(Skus)
         /\ Len(shown \o PageOf(rows)) = Len(shown) + Kept(rows)
         /\ \A k \in 1 .. Len(shown) + Kept(rows) :
              (shown \o PageOf(rows))[k] = IF k <= Len(shown) THEN shown[k] ELSE rows[k - Len(shown)]
<1> DEFINE page == PageOf(rows)
<1>1. PageLimit \in Nat \ {0} /\ Len(rows) \in Nat /\ Len(shown) \in Nat
  BY StorefrontAssumption
<1>2. page \in Seq(Skus) /\ Len(page) = Kept(rows) /\ \A j \in 1 .. Kept(rows) : page[j] = rows[j]
  <2>1. CASE Len(rows) > PageLimit
    <3>1. \A i \in 1 .. PageLimit : rows[i] \in Skus
      BY <1>1, <2>1
    <3>2. /\ SubSeq(rows, 1, PageLimit) \in Seq(Skus)
          /\ Len(SubSeq(rows, 1, PageLimit)) = PageLimit
          /\ \A i \in 1 .. PageLimit : SubSeq(rows, 1, PageLimit)[i] = rows[i]
      BY <1>1, <3>1, SubSeqProperties
    <3> QED
      BY <2>1, <3>2 DEF Kept, PageOf
  <2>2. CASE ~(Len(rows) > PageLimit)
    BY <2>2 DEF Kept, PageOf
  <2> QED
    BY <2>1, <2>2
<1> HIDE DEF page
<1>3. /\ shown \o page \in Seq(Skus) /\ Len(shown \o page) = Len(shown) + Len(page)
      /\ \A k \in 1 .. Len(shown) + Len(page) :
           (shown \o page)[k] = IF k <= Len(shown) THEN shown[k] ELSE page[k - Len(shown)]
  BY <1>2, ConcatProperties, Zenon
<1>4. ASSUME NEW k \in 1 .. Len(shown) + Kept(rows)
      PROVE  (shown \o page)[k] = IF k <= Len(shown) THEN shown[k] ELSE rows[k - Len(shown)]
  <2>1. CASE k <= Len(shown)
    BY <1>2, <1>3, <2>1
  <2>2. CASE ~(k <= Len(shown))
    <3>1. Kept(rows) \in Nat
      BY <1>1 DEF Kept
    <3>2. k - Len(shown) \in 1 .. Kept(rows)
      BY <1>1, <2>2, <3>1
    <3> QED
      BY <1>2, <1>3, <2>2, <3>2
  <2> QED
    BY <2>1, <2>2
<1> QED
  BY <1>2, <1>3, <1>4 DEF page

\* What the client has after a page, of what the query found after the cursor.
LEMMA PageTurned ==
  ASSUME ListingInv, NextPage
  PROVE  \E rows \in Seq(Skus) :
           /\ Len(rows) <= PageLimit + 1 /\ Ordered(rows)
           /\ \A k \in 1 .. Len(rows) : rows[k] \in InStock /\ Rank[rows[k]] > listing.cursor
           /\ \A s \in InStock : Rank[s] > listing.cursor /\ ~Among(s, rows) =>
                Len(rows) = PageLimit + 1 /\ Rank[rows[PageLimit + 1]] < Rank[s]
           /\ listing'.shown = listing.shown \o PageOf(rows)
           /\ listing'.always = listing.always
           /\ IF Len(rows) > PageLimit
              THEN listing'.pc = "paging" /\ listing'.cursor = CursorOf(rows)
              ELSE listing'.pc = "done" /\ listing'.cursor = 0
           /\ stock' = stock /\ sets' = sets
<1>1. PICK n \in 0 .. PageLimit + 1 : \E rows \in [1 .. n -> FoundAfter(listing.cursor)] :
        Selects(rows, FoundAfter(listing.cursor)) /\ listing' = Turned(rows)
  BY DEF NextPage
<1>2. PICK rows \in [1 .. n -> FoundAfter(listing.cursor)] :
        Selects(rows, FoundAfter(listing.cursor)) /\ listing' = Turned(rows)
  BY <1>1
<1>3. PageLimit \in Nat \ {0} /\ n \in Nat
  BY StorefrontAssumption
<1>4. rows \in Seq(Skus) /\ Len(rows) = n /\ DOMAIN rows = 1 .. n
  BY <1>2, <1>3 DEF FoundAfter, InStock
<1>5. \A k \in 1 .. Len(rows) : rows[k] \in InStock /\ Rank[rows[k]] > listing.cursor
  BY <1>2, <1>4 DEF FoundAfter
<1>6. /\ Ordered(rows)
      /\ \A s \in InStock : Rank[s] > listing.cursor /\ ~Among(s, rows) =>
           Len(rows) = PageLimit + 1 /\ Rank[rows[PageLimit + 1]] < Rank[s]
  BY <1>2 DEF Selects, FoundAfter
<1>7. listing \in [pc : {"idle", "paging", "done"}, cursor : Nat,
                   shown : Seq(Skus), always : SUBSET InStock]
  BY DEF ListingInv, ListingShape
<1>8. /\ listing'.shown = listing.shown \o PageOf(rows)
      /\ listing'.always = listing.always
      /\ IF Len(rows) > PageLimit
         THEN listing'.pc = "paging" /\ listing'.cursor = CursorOf(rows)
         ELSE listing'.pc = "done" /\ listing'.cursor = 0
  <2>1. listing' = [listing EXCEPT
          !.pc = IF Len(rows) > PageLimit THEN "paging" ELSE "done",
          !.cursor = IF Len(rows) > PageLimit THEN CursorOf(rows) ELSE 0,
          !.shown = listing.shown \o PageOf(rows)]
    BY <1>2 DEF Turned
  <2> QED
    BY <1>7, <2>1
<1>9. stock' = stock /\ sets' = sets
  BY DEF NextPage, vars, tables
<1>10. Len(rows) <= PageLimit + 1
  BY <1>3, <1>4
<1> QED
  BY <1>4, <1>5, <1>6, <1>8, <1>9, <1>10, Zenon

LEMMA NextPageStep ==
  ASSUME ListingInv, NextPage
  PROVE  ListingInv'
<1>1. PICK rows \in Seq(Skus) :
           /\ Len(rows) <= PageLimit + 1 /\ Ordered(rows)
           /\ \A k \in 1 .. Len(rows) : rows[k] \in InStock /\ Rank[rows[k]] > listing.cursor
           /\ \A s \in InStock : Rank[s] > listing.cursor /\ ~Among(s, rows) =>
                Len(rows) = PageLimit + 1 /\ Rank[rows[PageLimit + 1]] < Rank[s]
           /\ listing'.shown = listing.shown \o PageOf(rows)
           /\ listing'.always = listing.always
           /\ IF Len(rows) > PageLimit
              THEN listing'.pc = "paging" /\ listing'.cursor = CursorOf(rows)
              ELSE listing'.pc = "done" /\ listing'.cursor = 0
           /\ stock' = stock /\ sets' = sets
  BY PageTurned
<1> DEFINE shown == listing.shown
           joined == listing'.shown
           kept == Kept(rows)
<1>2. /\ listing.pc = "paging" /\ listing.cursor \in Nat /\ shown \in Seq(Skus)
      /\ listing.always \subseteq InStock
  BY DEF ListingInv, ListingShape, NextPage
<1>3. /\ PageLimit \in Nat \ {0} /\ Rank \in [Skus -> Nat \ {0}]
      /\ \A s, t \in Skus : Rank[s] = Rank[t] => s = t
      /\ InStock \subseteq Skus
  BY StorefrontAssumption DEF InStock
<1>4. Len(rows) \in Nat /\ Len(shown) \in Nat /\ DOMAIN rows = 1 .. Len(rows)
      /\ DOMAIN shown = 1 .. Len(shown)
  BY <1>2
<1>5. /\ joined \in Seq(Skus) /\ Len(joined) = Len(shown) + kept
      /\ \A k \in 1 .. Len(joined) :
           joined[k] = IF k <= Len(shown) THEN shown[k] ELSE rows[k - Len(shown)]
  <2>1. joined = shown \o PageOf(rows) /\ Len(rows) <= PageLimit + 1
    BY <1>1
  <2> HIDE DEF joined, shown
  <2>2. /\ shown \o PageOf(rows) \in Seq(Skus)
        /\ Len(shown \o PageOf(rows)) = Len(shown) + kept
        /\ \A k \in 1 .. Len(shown) + kept :
             (shown \o PageOf(rows))[k] = IF k <= Len(shown) THEN shown[k] ELSE rows[k - Len(shown)]
    BY <1>2, <2>1, PageJoined, Zenon
  <2> QED
    BY <2>1, <2>2, Zenon
<1>6. /\ Len(shown) \in Nat /\ kept \in Nat /\ kept <= Len(rows)
      /\ Len(rows) \in Nat /\ Len(joined) = Len(shown) + kept
      /\ IF Len(rows) > PageLimit THEN kept = PageLimit /\ Len(rows) = PageLimit + 1
                                  ELSE kept = Len(rows)
  <2>1. Len(rows) <= PageLimit + 1 /\ Len(joined) = Len(shown) + kept
    BY <1>1, <1>5
  <2>2. Len(shown) \in Nat /\ Len(rows) \in Nat /\ PageLimit \in Nat
    BY <1>3, <1>4
  <2>3. kept = IF Len(rows) > PageLimit THEN PageLimit ELSE Len(rows)
    BY DEF Kept
  <2> HIDE DEF joined, shown, kept
  <2> QED
    BY <2>1, <2>2, <2>3
<1>17. DOMAIN joined = 1 .. Len(joined)
  BY <1>5
<1> HIDE DEF shown, joined, kept
<1>7. \A j \in 1 .. Len(shown) : shown[j] \in Skus /\ Rank[shown[j]] <= listing.cursor
  BY <1>2, <1>4 DEF ListingInv, ShownUpToCursor, shown
<1>8. \A j, k \in 1 .. Len(shown) : j < k => Rank[shown[j]] < Rank[shown[k]]
  BY <1>4 DEF ListingInv, ListedInOrder, Ordered, shown
<1>9. \A j, k \in 1 .. Len(rows) : j < k => Rank[rows[j]] < Rank[rows[k]]
  BY <1>1, <1>4 DEF Ordered
\* What was shown stays where it was, and what is kept comes behind it.
<1>10. /\ \A s : Among(s, shown) => Among(s, joined)
       /\ \A j \in 1 .. kept : Among(rows[j], joined)
  <2>1. ASSUME NEW s, Among(s, shown) PROVE Among(s, joined)
    <3>1. PICK k \in 1 .. Len(shown) : shown[k] = s
      BY <1>4, <2>1 DEF Among
    <3>2. k \in 1 .. Len(joined) /\ k <= Len(shown)
      BY <1>6
    <3> QED
      BY <1>5, <3>1, <3>2, <1>17 DEF Among
  <2>2. ASSUME NEW j \in 1 .. kept PROVE Among(rows[j], joined)
    <3> DEFINE k == Len(shown) + j
    <3>1. k \in 1 .. Len(joined) /\ ~(k <= Len(shown)) /\ k - Len(shown) = j
      BY <1>6
    <3> QED
      BY <1>5, <3>1, <1>17 DEF Among
  <2> QED
    BY <2>1, <2>2
<1>11. ListedInOrder'
  <2> SUFFICES ASSUME NEW j \in 1 .. Len(joined), NEW k \in 1 .. Len(joined), j < k
               PROVE  Rank[joined[j]] < Rank[joined[k]]
    BY <1>17 DEF ListedInOrder, Ordered, joined
  <2>1. CASE k <= Len(shown)
    <3>1. j \in 1 .. Len(shown) /\ k \in 1 .. Len(shown) /\ j <= Len(shown)
      BY <1>6, <2>1
    <3> QED
      BY <1>5, <1>8, <2>1, <3>1
  <2>2. CASE ~(k <= Len(shown)) /\ j <= Len(shown)
    <3>1. k - Len(shown) \in 1 .. Len(rows) /\ j \in 1 .. Len(shown)
      BY <1>6, <2>2
    <3>2. Rank[shown[j]] <= listing.cursor /\ Rank[rows[k - Len(shown)]] > listing.cursor
          /\ Rank[shown[j]] \in Nat /\ Rank[rows[k - Len(shown)]] \in Nat
      BY <1>1, <1>3, <1>7, <3>1
    <3>3. joined[j] = shown[j] /\ joined[k] = rows[k - Len(shown)]
      BY <1>5, <2>2
    <3> QED
      BY <1>2, <3>2, <3>3
  <2>3. CASE ~(j <= Len(shown))
    <3>1. /\ ~(k <= Len(shown)) /\ j - Len(shown) < k - Len(shown)
          /\ j - Len(shown) \in 1 .. Len(rows) /\ k - Len(shown) \in 1 .. Len(rows)
      BY <1>6, <2>3
    <3>2. joined[j] = rows[j - Len(shown)] /\ joined[k] = rows[k - Len(shown)]
      BY <1>5, <2>3, <3>1
    <3> QED
      BY <1>9, <3>1, <3>2
  <2> QED
    BY <2>1, <2>2, <2>3
\* A product that was always in stock and is not yet shown is among the rows,
\* or comes after the last of them, which is not kept.
<1>12. ASSUME NEW s \in listing.always, ~Among(s, joined)
       PROVE  /\ Len(rows) > PageLimit
              /\ Rank[rows[PageLimit]] < Rank[s]
  <2>1. s \in InStock /\ s \in Skus /\ Rank[s] \in Nat
    BY <1>2, <1>3
  <2>2. Rank[s] > listing.cursor
    <3>1. ~Among(s, shown)
      BY <1>10, <1>12
    <3> QED
      BY <1>2, <2>1, <3>1 DEF ListingInv, ShownUpToCursor, shown
  <2>3. CASE ~Among(s, rows)
    <3>1. Len(rows) = PageLimit + 1 /\ Rank[rows[PageLimit + 1]] < Rank[s]
      BY <1>1, <2>1, <2>2, <2>3
    <3>2. PageLimit \in 1 .. Len(rows) /\ PageLimit + 1 \in 1 .. Len(rows) /\ PageLimit < PageLimit + 1
          /\ Len(rows) > PageLimit
      BY <1>3, <3>1
    <3>3. rows[PageLimit] \in Skus /\ rows[PageLimit + 1] \in Skus
      BY <1>1, <1>3, <3>2
    <3>4. Rank[rows[PageLimit]] \in Nat /\ Rank[rows[PageLimit + 1]] \in Nat
      BY <1>3, <3>3
    <3>5. Rank[rows[PageLimit]] < Rank[rows[PageLimit + 1]]
      BY <1>9, <3>2
    <3> QED
      BY <2>1, <3>1, <3>2, <3>4, <3>5
  <2>4. CASE Among(s, rows)
    <3>1. PICK j \in 1 .. Len(rows) : rows[j] = s
      BY <1>4, <2>4 DEF Among
    <3>2. j \notin 1 .. kept
      BY <1>10, <1>12, <3>1
    <3>3. Len(rows) > PageLimit /\ j = PageLimit + 1 /\ PageLimit \in 1 .. Len(rows) /\ PageLimit < j
      BY <1>3, <1>6, <3>2
    <3> QED
      BY <1>9, <3>1, <3>3
  <2> QED
    BY <2>3, <2>4
<1>13. NothingPassedOver'
  <2> SUFFICES ASSUME listing'.pc = "done", NEW s \in listing.always
               PROVE  Among(s, joined)
    BY <1>1 DEF NothingPassedOver, joined
  <2>1. ~(Len(rows) > PageLimit)
    BY <1>1
  <2> QED
    BY <1>12, <2>1
<1>14. ShownUpToCursor'
  <2> SUFFICES ASSUME listing'.pc = "paging"
               PROVE  /\ \A k \in 1 .. Len(joined) : Rank[joined[k]] <= CursorOf(rows)
                      /\ \A s \in listing.always : Rank[s] <= CursorOf(rows) => Among(s, joined)
    BY <1>1, <1>17 DEF ShownUpToCursor, joined
  <2>1. Len(rows) > PageLimit /\ kept = PageLimit /\ PageLimit \in 1 .. Len(rows)
    BY <1>1, <1>3, <1>6
  <2>2. rows[PageLimit] \in Skus /\ Rank[rows[PageLimit]] > listing.cursor
    BY <1>1, <1>3, <2>1
  <2>3. Rank[rows[PageLimit]] \in Nat /\ Rank[rows[PageLimit]] > listing.cursor
    BY <1>3, <2>2
  <2>4. ASSUME NEW k \in 1 .. Len(joined) PROVE Rank[joined[k]] <= CursorOf(rows)
    <3>1. CASE k <= Len(shown)
      <4>1. k \in 1 .. Len(shown) /\ joined[k] = shown[k]
        BY <1>5, <1>6, <3>1
      <4>2. Rank[shown[k]] <= listing.cursor /\ Rank[shown[k]] \in Nat
        BY <1>3, <1>7, <4>1
      <4> QED
        BY <1>2, <2>3, <4>1, <4>2 DEF CursorOf
    <3>2. CASE ~(k <= Len(shown))
      <4>1. k - Len(shown) \in 1 .. PageLimit /\ joined[k] = rows[k - Len(shown)]
        BY <1>5, <1>6, <2>1, <3>2
      <4>2. k - Len(shown) \in 1 .. Len(rows)
            /\ (k - Len(shown) < PageLimit \/ k - Len(shown) = PageLimit)
        <5>1. PageLimit <= Len(rows) /\ PageLimit \in Nat /\ Len(rows) \in Nat
          BY <1>3, <1>6, <2>1
        <5> DEFINE j == k - Len(shown)
        <5>2. j \in 1 .. PageLimit
          BY <4>1
        <5> HIDE DEF j
        <5>3. j \in 1 .. Len(rows) /\ (j < PageLimit \/ j = PageLimit)
          BY <5>1, <5>2
        <5> QED
          BY <5>3 DEF j
      <4>3. rows[k - Len(shown)] \in Skus
        BY <1>1, <1>3, <4>2
      <4>4. Rank[rows[k - Len(shown)]] \in Nat
        BY <1>3, <4>3
      <4> QED
        BY <1>9, <2>1, <2>3, <4>1, <4>2, <4>4 DEF CursorOf
    <3> QED
      BY <3>1, <3>2
  <2>5. ASSUME NEW s \in listing.always, Rank[s] <= CursorOf(rows) PROVE Among(s, joined)
    <3>1. Rank[s] \in Nat
      BY <1>2, <1>3
    <3> QED
      BY <1>12, <2>3, <2>5, <3>1 DEF CursorOf
  <2> QED
    BY <2>4, <2>5
<1>15. ListingShape'
  <2>1. listing' = [pc |-> listing'.pc, cursor |-> listing'.cursor,
                    shown |-> listing'.shown, always |-> listing'.always]
    <3>1. PICK r \in Seq(Skus) : listing' = Turned(r)
      BY StorefrontAssumption DEF NextPage, FoundAfter, InStock
    <3>2. listing \in [pc : {"idle", "paging", "done"}, cursor : Nat,
                       shown : Seq(Skus), always : SUBSET InStock]
      BY DEF ListingInv, ListingShape
    <3> QED
      BY <3>1, <3>2 DEF Turned
  <2>2. listing'.pc \in {"idle", "paging", "done"}
    BY <1>1
  <2>3. listing'.cursor \in Nat
    <3>1. CASE Len(rows) > PageLimit
      <4>1. PageLimit \in 1 .. Len(rows)
        BY <1>3, <1>4, <3>1
      <4>2. rows[PageLimit] \in Skus
        BY <1>1, <1>3, <4>1
      <4> QED
        BY <1>1, <1>3, <3>1, <4>2 DEF CursorOf
    <3>2. CASE ~(Len(rows) > PageLimit)
      BY <1>1, <3>2
    <3> QED
      BY <3>1, <3>2
  <2>4. listing'.shown \in Seq(Skus)
    BY <1>5 DEF joined
  <2>5. listing'.always \in SUBSET {s \in Skus : stock'[s] > 0}
    BY <1>1, <1>2 DEF InStock
  <2>6. sets' \in 0 .. MaxSets
    BY <1>1 DEF ListingInv, ListingShape
  <2> QED
    BY <2>1, <2>2, <2>3, <2>4, <2>5, <2>6 DEF ListingShape, InStock
<1>16. listing'.pc # "idle"
  BY <1>1
<1> QED
  BY <1>11, <1>13, <1>14, <1>15, <1>16 DEF ListingInv

\* Only the counter changes, and the client notes what is sold out.
LEMMA SetStockKeeps ==
  ASSUME NEW s \in Skus, NEW n \in Levels, SetStock(s, n)
  PROVE  /\ orderStatus' = orderStatus /\ paidLine' = paidLine /\ notBefore' = notBefore
         /\ eventOutcome' = eventOutcome /\ itemStatus' = itemStatus
         /\ deliveries' = deliveries /\ refunds' = refunds /\ ledger' = ledger
         /\ pspRefunds' = pspRefunds /\ lane' = lane /\ swept' = swept /\ trouble' = trouble
         /\ stock' = [stock EXCEPT ![s] = n] /\ Watches /\ sets < MaxSets /\ sets' = sets + 1
  BY DEF SetStock

LEMMA SetStockListing ==
  ASSUME ListingInv, NEW s \in Skus, NEW n \in Levels, SetStock(s, n)
  PROVE  ListingInv'
<1>1. sets' \in 0 .. MaxSets
  BY SetStockKeeps, StorefrontAssumption DEF ListingInv, ListingShape
<1> QED
  BY <1>1, SetStockKeeps, ListingWatches

LEMMA ListingStepStep == ListingInv /\ ListingStep => ListingInv'
  BY BeginsStep, NextPageStep, SetStockListing DEF ListingStep

------------------------------------------------------------------------------
(* The three composed, with the operator who sets the stock.               *)

\* What the shop relies on says nothing of the counters but their type.
LEMMA SetStockInv ==
  ASSUME Inv, NEW s \in Skus, NEW n \in Levels, SetStock(s, n)
  PROVE  Inv'
<1>1. TypeOK'
  <2>1. stock' \in [Skus -> Nat]
    BY SetStockKeeps, StorefrontAssumption DEF Inv, TypeOK
  <2> QED
    BY <2>1, SetStockKeeps DEF Inv, TypeOK
<1>2. LanesInv'
  BY SetStockKeeps DEF Inv, LanesInv, LaneOK, At, OpenItems, SettledAs
<1>3. NeverCodeAndMoney' /\ RowsInv'
  BY SetStockKeeps DEF Inv, NeverCodeAndMoney, RowsInv
<1>6. BooksBalance'
  <2>1. /\ orderStatus' = orderStatus /\ eventOutcome' = eventOutcome /\ ledger' = ledger
        /\ itemStatus' = itemStatus /\ deliveries' = deliveries /\ refunds' = refunds
    BY SetStockKeeps
  <2>2. ASSUME NEW i \in Items
        PROVE  /\ <<"delivery", i>> \in ledger <=> itemStatus[i] = "delivered"
               /\ <<"refund", i>> \in ledger <=> itemStatus[i] = "refunded"
               /\ itemStatus[i] = "delivered" <=> deliveries[i] # NoCode
               /\ itemStatus[i] = "refunded" <=> i \in refunds
    BY DEF Inv, BooksBalance
  <2>3. ASSUME NEW o \in Orders
        PROVE  LET payments == {e \in Events : EventOrder[e] = o /\ <<"payment", e>> \in ledger} IN
                 IF orderStatus[o] \in Unpaid THEN payments = {}
                 ELSE \E e \in payments : payments = {e} /\ eventOutcome[e] = "applied"
    BY DEF Inv, BooksBalance
  <2>4. ASSUME NEW i \in Items
        PROVE  /\ <<"delivery", i>> \in ledger' <=> itemStatus'[i] = "delivered"
               /\ <<"refund", i>> \in ledger' <=> itemStatus'[i] = "refunded"
               /\ itemStatus'[i] = "delivered" <=> deliveries'[i] # NoCode
               /\ itemStatus'[i] = "refunded" <=> i \in refunds'
    BY <2>1, <2>2
  <2>5. ASSUME NEW o \in Orders
        PROVE  LET payments == {e \in Events : EventOrder[e] = o /\ <<"payment", e>> \in ledger'} IN
                 IF orderStatus'[o] \in Unpaid THEN payments = {}
                 ELSE \E e \in payments : payments = {e} /\ eventOutcome'[e] = "applied"
    BY <2>1, <2>3
  <2> QED
    BY <2>4, <2>5, Zenon DEF BooksBalance
<1>4. FinalMeansSettled'
  BY SetStockKeeps DEF Inv, FinalMeansSettled, OpenItems, SettledAs
<1>5. UnpaidUntouched'
  BY SetStockKeeps DEF Inv, UnpaidUntouched, Held
<1> QED
  BY <1>1, <1>2, <1>3, <1>4, <1>5, <1>6 DEF Inv

\* Nor does a view or a report ...
LEMMA SetStockReaders ==
  ASSUME ViewInv, ReconInv, NEW s \in Skus, NEW n \in Levels, SetStock(s, n),
         view' = view, recon' = recon
  PROVE  ViewInv' /\ ReconInv'
<1>1. ViewInv'
  BY SetStockKeeps DEF ViewInv, ViewShape, ViewStaysTrue, RefundsShown, FinalShown
<1>2. EventsInv' /\ BalancesInv'
  BY SetStockKeeps DEF ReconInv, EventsInv, BalancesInv, BooksAgree
<1>3. ReconShape' /\ NothingAlarming' /\ ListsInv'
  BY SetStockKeeps DEF ReconInv, ReconShape, NothingAlarming, Misspelled, Applied, SaysPaid,
       ListsInv, Shows, OpenItems
<1> QED
  BY <1>1, <1>2, <1>3 DEF ReconInv

LEMMA ReadersStart == ReadersInit => ReadersInv
  BY InvInit, ViewStarts, ReconStarts, ListingStarts DEF ReadersInit, ReadersInv

\* A reader of the tables changes none of them.
LEMMA ReadersReadOnly ==
  /\ ViewStep => UNCHANGED vars
  /\ ReconStep => UNCHANGED vars
  /\ Begins \/ NextPage => UNCHANGED vars
<1>1. ViewStep => UNCHANGED vars
  BY DEF ViewStep, Asks, FindsOrder, ReadsOrderItems, ReadsOrderDeliveries,
         ReadsOrderRefunds, Reads
<1>2. ReconStep => UNCHANGED vars
  BY DEF ReconStep, AsksReport, ListsUnsettled, ListsUnpaid, ListsMismatches,
         ListsUnmatched, ListsAfterFailure, AddsUpLedger, AddsUpTables, Answers
<1>3. Begins \/ NextPage => UNCHANGED vars
  BY DEF Begins, NextPage
<1> QED
  BY <1>1, <1>2, <1>3

LEMMA StockUnwatched == UNCHANGED <<vars, listing, sets>> /\ ListingInv => ListingInv'
  BY DEF ListingInv, ListingShape, ShownUpToCursor, ListedInOrder, NothingPassedOver,
         InStock, vars, tables

LEMMA ReadersStepKeeps == ReadersInv /\ [ReadersNext]_<<vars, readers>> => ReadersInv'
<1> SUFFICES ASSUME Inv, ViewInv, ReconInv, ListingInv, [ReadersNext]_<<vars, readers>>
             PROVE  Inv' /\ ViewInv' /\ ReconInv' /\ ListingInv'
  BY DEF ReadersInv
<1>1. CASE Next /\ Watches /\ UNCHANGED <<view, recon, sets>>
  <2>1. Inv'
    BY <1>1, InvNext
  <2>2. ViewInv' /\ ReconInv'
    BY <1>1, <2>1, ViewNextStep, ReconNextStep DEF ViewNext, ReconNext
  <2>3. sets' \in 0 .. MaxSets
    BY <1>1 DEF ListingInv, ListingShape
  <2> QED
    BY <1>1, <2>1, <2>2, <2>3, ListingWatches
<1>2. CASE ViewStep /\ UNCHANGED <<recon, listing, sets>>
  <2>1. UNCHANGED vars /\ Inv'
    BY <1>2, ReadersReadOnly, InvNext
  <2> QED
    BY <1>2, <2>1, ViewNextStep, ReconNextStep, StockUnwatched DEF ViewNext, ReconNext
<1>3. CASE ReconStep /\ UNCHANGED <<view, listing, sets>>
  <2>1. UNCHANGED vars /\ Inv'
    BY <1>3, ReadersReadOnly, InvNext
  <2> QED
    BY <1>3, <2>1, ViewNextStep, ReconNextStep, StockUnwatched DEF ViewNext, ReconNext
<1>4. CASE ListingStep /\ UNCHANGED <<view, recon>>
  <2>1. ListingInv'
    BY <1>4, ListingStepStep
  <2>2. CASE Begins \/ NextPage
    <3>1. UNCHANGED vars /\ Inv'
      BY <2>2, ReadersReadOnly, InvNext
    <3> QED
      BY <1>4, <2>1, <3>1, ViewNextStep, ReconNextStep DEF ViewNext, ReconNext
  <2>3. CASE \E s \in Skus, n \in Levels : SetStock(s, n)
    BY <1>4, <2>1, <2>3, SetStockInv, SetStockReaders
  <2> QED
    BY <1>4, <2>2, <2>3 DEF ListingStep
<1>5. CASE UNCHANGED <<vars, readers>>
  <2>1. UNCHANGED vars /\ UNCHANGED <<view, recon, listing, sets>> /\ Inv'
    BY <1>5, InvNext DEF readers
  <2> QED
    BY <2>1, ViewNextStep, ReconNextStep, StockUnwatched DEF ViewNext, ReconNext
<1> QED
  BY <1>1, <1>2, <1>3, <1>4, <1>5 DEF ReadersNext

------------------------------------------------------------------------------
(* Theorems of the three composed.                                         *)

\* The shop's invariant and its readers' hold side by side, whoever reads and
\* whatever the operator sets the stock to.
THEOREM ReadersCorrect == ReadersSpec => []ReadersInv
  BY ReadersStart, ReadersStepKeeps, PTL DEF ReadersSpec

\* The pages of a listing, joined, are in order and without repetition.
THEOREM ListingsInOrder == ReadersSpec => []ListedInOrder
<1>1. ReadersInv => ListedInOrder
  BY DEF ReadersInv, ListingInv
<1> QED
  BY <1>1, ReadersCorrect, PTL

\* No product that was in stock all the time is missing from a whole listing.
THEOREM NoProductPassedOver == ReadersSpec => []NothingPassedOver
<1>1. ReadersInv => NothingPassedOver
  BY DEF ReadersInv, ListingInv
<1> QED
  BY <1>1, ReadersCorrect, PTL

\* What views and reports say can be relied on no less with the others there.
THEOREM ReadersRely ==
  ReadersSpec => [](ViewStaysTrue /\ FinalViewIsComplete /\ HealthyWhenStill /\ MoneyInSight)
<1>1. ReadersInv => ViewStaysTrue /\ FinalViewIsComplete /\ HealthyWhenStill /\ MoneyInSight
  BY FinalViewFollows, HealthFollows, SightFollows DEF ReadersInv, ViewInv
<1> QED
  BY <1>1, ReadersCorrect, PTL

==============================================================================
