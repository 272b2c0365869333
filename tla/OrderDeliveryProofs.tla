------------------------- MODULE OrderDeliveryProofs -------------------------
(***************************************************************************)
(* Proofs about OrderDelivery for any number of orders, items, codes,      *)
(* events and lanes, and any amount of trouble.                            *)
(***************************************************************************)
EXTENDS OrderDelivery, TLAPS

USE DEF Unpaid, Settled, OrderStatus, Open, ItemStatus, EventKinds

------------------------------------------------------------------------------
(* Types: what a lane writes into its record is a lane's record.           *)

LEMMA IdleType == Idle \in LaneState
  BY DEF Idle, LaneState, PC

LEMMA LaneUpdate ==
  ASSUME lane \in [Lanes -> LaneState], NEW l \in Lanes, NEW s \in LaneState,
         lane' = [lane EXCEPT ![l] = s]
  PROVE  lane' \in [Lanes -> LaneState]
  OBVIOUS

LEMMA MoveType ==
  ASSUME lane \in [Lanes -> LaneState], NEW l \in Lanes, NEW pc \in PC,
         lane' = [lane EXCEPT ![l] = [@ EXCEPT !.pc = pc]]
  PROVE  lane' \in [Lanes -> LaneState]
<1>1. [lane[l] EXCEPT !.pc = pc] \in LaneState
  BY DEF LaneState
<1> QED
  BY <1>1, LaneUpdate

LEMMA NextItemType ==
  ASSUME lane \in [Lanes -> LaneState], NEW l \in Lanes, NEW t,
         NEW d \in BOOLEAN, NEW u \in BOOLEAN, NextItem(l, t, d, u)
  PROVE  lane' \in [Lanes -> LaneState]
<1> DEFINE s == lane[l]
<1> DEFINE n == [s EXCEPT !.pc = "items", !.todo = s.todo \ {t}, !.code = NoCode,
                          !.deferred = s.deferred \/ d, !.unresolved = s.unresolved \/ u]
<1>1. s \in LaneState
  OBVIOUS
<1>2. (s.deferred \/ d) \in BOOLEAN /\ (s.unresolved \/ u) \in BOOLEAN
  OBVIOUS
<1>3. n \in LaneState
  BY <1>1, <1>2 DEF LaneState, PC
<1> QED
  BY <1>3, LaneUpdate DEF NextItem

LEMMA ThrowType ==
  ASSUME lane \in [Lanes -> LaneState], NEW l \in Lanes, Throw(l)
  PROVE  lane' \in [Lanes -> LaneState]
  BY IdleType, LaneUpdate DEF Throw

LEMMA TodoType ==
  ASSUME lane \in [Lanes -> LaneState], NEW l \in Lanes, NEW t \in lane[l].todo
  PROVE  t \in Todo /\ t.item \in Items /\ t.seen \in Open
<1>1. lane[l].todo \subseteq Todo
  BY DEF LaneState
<1> QED
  BY <1>1 DEF Todo

LEMMA OrderType ==
  ASSUME lane \in [Lanes -> LaneState], NEW l \in Lanes
  PROVE  /\ lane[l].pc \in PC /\ lane[l].order \in Orders \cup {NoOrder}
         /\ lane[l].code \in Codes \cup {NoCode} /\ lane[l].verdict \in OrderStatus
  BY DEF LaneState

LEMMA DisturbType == TypeOK /\ Disturb => trouble' \in 0..MaxTrouble
  BY ConstantsAssumption DEF TypeOK, Disturb

LEMMA PostingType ==
  /\ \A e \in Events : <<"payment", e>> \in Postings
  /\ \A i \in Items : <<"delivery", i>> \in Postings /\ <<"refund", i>> \in Postings
  BY DEF Postings

LEMMA TypeInit == Init => TypeOK
  BY ConstantsAssumption, IdleType DEF Init, TypeOK

LEMMA TypeNext == TypeOK /\ [Next]_vars => TypeOK'
<1> SUFFICES ASSUME TypeOK, [Next]_vars PROVE TypeOK'
  OBVIOUS
<1>0. lane \in [Lanes -> LaneState]
  BY DEF TypeOK
<1>1. ASSUME NEW e \in Events, Webhook(e) PROVE TypeOK'
  <2>1. Outcome(e) \in {"applied", "ignored", "order_not_found", "amount_mismatch"}
    BY DEF Outcome
  <2>2. Outcome(e) = "applied" => EventOrder[e] \in Orders
    BY ConstantsAssumption DEF Outcome
  <2> QED
    <3>1. eventOutcome' \in [Events -> {"absent", "applied", "ignored",
                                       "order_not_found", "amount_mismatch"}]
      BY <1>1, <2>1, ConstantsAssumption DEF Webhook, TypeOK
    <3>2. orderStatus' \in [Orders -> OrderStatus]
      BY <1>1, <2>2 DEF Webhook, TypeOK
    <3>3. paidLine' \in Seq(Orders)
      <4>1. paidLine' = paidLine \/ \E o \in Orders : paidLine' = Append(paidLine, o)
        BY <1>1, <2>2 DEF Webhook
      <4>2. paidLine \in Seq(Orders)
        BY DEF TypeOK
      <4> QED
        BY <4>1, <4>2
    <3>4. ledger' \subseteq Postings
      BY <1>1, PostingType DEF Webhook, TypeOK
    <3> QED
      BY <1>1, <3>1, <3>2, <3>3, <3>4 DEF Webhook, TypeOK
<1>2. ASSUME NEW l \in Lanes, Claim(l) PROVE TypeOK'
  <2> PICK k \in DOMAIN paidLine : Claim(l)!2!(k)
    BY <1>2 DEF Claim
  <2>1. paidLine[k] \in Orders
    BY DEF TypeOK
  <2>2. [lane[l] EXCEPT !.pc = "claimed", !.order = paidLine[k]] \in LaneState
    BY <1>0, <2>1 DEF LaneState, PC
  <2>3. lane' \in [Lanes -> LaneState]
    BY <1>0, <2>2, LaneUpdate
  <2> QED
    BY <1>2, <2>1, <2>3 DEF Claim, TypeOK
<1>3. ASSUME NEW l \in Lanes, ReadItems(l) PROVE TypeOK'
  <2> DEFINE copy == {[item |-> i, seen |-> itemStatus[i]] :
                        i \in {j \in ItemsOf(lane[l].order) : itemStatus[j] \in Open}}
  <2>1. copy \in SUBSET Todo
    BY DEF Todo, ItemsOf
  <2>2. [lane[l] EXCEPT !.pc = "items", !.todo = copy] \in LaneState
    BY <1>0, <2>1 DEF LaneState, PC
  <2>3. lane' \in [Lanes -> LaneState]
    BY <1>0, <1>3, <2>2, LaneUpdate DEF ReadItems
  <2> QED
    BY <1>3, <2>3 DEF ReadItems, TypeOK, tables
<1>4. ASSUME NEW l \in Lanes, Issued(l) PROVE TypeOK'
  <2> PICK t \in lane[l].todo, c \in Codes : Issued(l)!(t, c)
    BY <1>4 DEF Issued
  <2>1. [lane[l] EXCEPT !.pc = "complete", !.code = c] \in LaneState
    BY <1>0 DEF LaneState, PC
  <2>2. lane' \in [Lanes -> LaneState]
    BY <1>0, <2>1, LaneUpdate
  <2> QED
    BY <2>2, DisturbType DEF TypeOK, tables
<1>5. ASSUME NEW l \in Lanes, Refused(l) PROVE TypeOK'
  <2>1. lane' \in [Lanes -> LaneState]
    BY <1>0, <1>5, MoveType DEF Refused, PC
  <2> QED
    BY <1>5, <2>1 DEF Refused, TypeOK, tables
<1>6. ASSUME NEW l \in Lanes, NoAnswer(l) PROVE TypeOK'
  <2>1. lane' \in [Lanes -> LaneState]
    BY <1>0, <1>6, NextItemType DEF NoAnswer
  <2> QED
    BY <1>6, <2>1, DisturbType DEF NoAnswer, TypeOK, tables
<1>7. ASSUME NEW l \in Lanes, Complete(l) PROVE TypeOK'
  <2> PICK t \in lane[l].todo : Complete(l)!(t)
    BY <1>7 DEF Complete
  <2>1. t.item \in Items /\ lane[l].code \in Codes \cup {NoCode}
    BY <1>0, TodoType, OrderType
  <2>2. lane' \in [Lanes -> LaneState]
    <3>1. ASSUME lane' = [lane EXCEPT ![l] = [@ EXCEPT !.pc = "items", !.code = NoCode]]
          PROVE  lane' \in [Lanes -> LaneState]
      <4>1. [lane[l] EXCEPT !.pc = "items", !.code = NoCode] \in LaneState
        BY <1>0 DEF LaneState, PC
      <4> QED
        BY <1>0, <3>1, <4>1, LaneUpdate
    <3> QED
      BY <1>0, <3>1, NextItemType, ThrowType
  <2> QED
    <3>1. itemStatus' \in [Items -> ItemStatus]
      BY <2>1 DEF TypeOK, Throw, tables
    <3>2. deliveries' \in [Items -> Codes \cup {NoCode}]
      BY <2>1 DEF TypeOK, Throw, tables
    <3>3. ledger' \subseteq Postings
      <4>1. ledger' = ledger \/ ledger' = ledger \cup {<<"delivery", t.item>>}
        BY DEF Throw, tables
      <4> QED
        BY <2>1, <4>1, PostingType DEF TypeOK
    <3>4. stock' \in [Skus -> Nat]
      <4>1. stock \in [Skus -> Nat] /\ SkuOf[t.item] \in Skus
        BY <2>1, ConstantsAssumption DEF TypeOK
      <4>2. stock' = stock \/ TakeUnit(SkuOf[t.item])
        BY DEF Throw, tables
      <4> QED
        BY <4>1, <4>2 DEF TakeUnit
    <3> QED
      BY <2>2, <3>1, <3>2, <3>3, <3>4 DEF TypeOK, Throw, tables
<1>8. ASSUME NEW l \in Lanes, DecideRefund(l) PROVE TypeOK'
  <2>1. lane' \in [Lanes -> LaneState]
    BY <1>0, <1>8, MoveType, ThrowType DEF DecideRefund, PC
  <2> QED
    BY <1>0, <1>8, <2>1, TodoType DEF DecideRefund, TypeOK, Throw, tables
<1>9. ASSUME NEW l \in Lanes, PspRefunds(l) PROVE TypeOK'
  <2>1. lane' \in [Lanes -> LaneState]
    BY <1>0, <1>9, MoveType DEF PspRefunds, PC
  <2> QED
    BY <1>0, <1>9, <2>1, TodoType DEF PspRefunds, TypeOK, tables
<1>10. ASSUME NEW l \in Lanes, PspFails(l) PROVE TypeOK'
  <2>1. lane' \in [Lanes -> LaneState]
    BY <1>0, <1>10, NextItemType DEF PspFails
  <2>2. pspRefunds' \subseteq Items
    BY <1>0, <1>10, TodoType DEF PspFails, TypeOK
  <2> QED
    <3>1. trouble' \in 0..MaxTrouble
      BY <1>10, DisturbType DEF PspFails
    <3> QED
      BY <1>10, <2>1, <2>2, <3>1 DEF PspFails, Disturb, TypeOK, tables
<1>11. ASSUME NEW l \in Lanes, BookRefund(l) PROVE TypeOK'
  <2> PICK t \in lane[l].todo : BookRefund(l)!(t)
    BY <1>11 DEF BookRefund
  <2>1. lane' \in [Lanes -> LaneState]
    BY <1>0, NextItemType, ThrowType
  <2> QED
    <3>1. t.item \in Items
      BY <1>0, TodoType
    <3>2. itemStatus' \in [Items -> ItemStatus]
      BY <3>1 DEF TypeOK, Throw, tables
    <3>3. refunds' \subseteq Items
      BY <3>1 DEF TypeOK, Throw, tables
    <3>4. ledger' \subseteq Postings
      <4>1. ledger' = ledger \/ ledger' = ledger \cup {<<"refund", t.item>>}
        BY DEF Throw, tables
      <4> QED
        BY <3>1, <4>1, PostingType DEF TypeOK
    <3> QED
      BY <2>1, <3>2, <3>3, <3>4 DEF TypeOK, Throw, tables
<1>12. ASSUME NEW l \in Lanes, ReadVerdict(l) PROVE TypeOK'
  <2>1. Verdict(l) \in OrderStatus
    BY DEF Verdict, SettledAs
  <2>2. [lane[l] EXCEPT !.pc = "verdict", !.verdict = Verdict(l)] \in LaneState
    BY <1>0, <2>1 DEF LaneState, PC
  <2>3. lane' \in [Lanes -> LaneState]
    BY <1>0, <1>12, <2>2, LaneUpdate DEF ReadVerdict
  <2> QED
    BY <1>12, <2>3 DEF ReadVerdict, TypeOK, tables
<1>13. ASSUME NEW l \in Lanes, Finish(l) PROVE TypeOK'
  <2>1. lane' \in [Lanes -> LaneState]
    BY <1>0, <1>13, IdleType, LaneUpdate, ThrowType DEF Finish
  <2> QED
    BY <1>0, <1>13, <2>1, OrderType DEF Finish, Throw, TypeOK, tables
<1>14. ASSUME NEW l \in Lanes, Abandon(l) PROVE TypeOK'
  <2>1. lane' \in [Lanes -> LaneState]
    BY <1>0, <1>14, ThrowType DEF Abandon
  <2> QED
    BY <1>14, <2>1, DisturbType DEF Abandon, Throw, TypeOK, tables
<1>15. ASSUME NEW o \in Orders, SlotOpens(o) \/ RetryDelivery(o) PROVE TypeOK'
  BY <1>15 DEF SlotOpens, RetryDelivery, TypeOK
<1>16. ASSUME NEW old \in SUBSET Orders, SweepSelects(old) PROVE TypeOK'
  BY <1>16, DisturbType DEF SweepSelects, TypeOK, tables
<1>17. ASSUME SweepMoves PROVE TypeOK'
  BY <1>17 DEF SweepMoves, TypeOK
<1>18. ASSUME UNCHANGED vars PROVE TypeOK'
  BY <1>18 DEF vars, tables, TypeOK
<1> QED
  BY <1>1, <1>2, <1>3, <1>4, <1>5, <1>6, <1>7, <1>8, <1>9, <1>10, <1>11, <1>12, <1>13,
     <1>14, <1>15, <1>16, <1>17, <1>18 DEF Next, Works

\* Every reachable state is well typed.
THEOREM TypeCorrect == Spec => []TypeOK
<1>1. Init => TypeOK
  BY TypeInit
<1>2. TypeOK /\ [Next]_vars => TypeOK'
  BY TypeNext
<1> QED
  BY <1>1, <1>2, PTL DEF Spec
------------------------------------------------------------------------------
(* What a step does to the items: nothing, or one of four things to the    *)
(* item some lane is at.                                                   *)

ItemsKept ==
  /\ UNCHANGED <<itemStatus, deliveries, refunds, pspRefunds>>
  /\ \A i \in Items : /\ <<"delivery", i>> \in ledger' <=> <<"delivery", i>> \in ledger
                      /\ <<"refund", i>> \in ledger' <=> <<"refund", i>> \in ledger

Gives(l, t) ==
  /\ At(l, t) /\ lane[l].pc = "complete" /\ Completes(t.item, lane[l].code)
  /\ deliveries' = [deliveries EXCEPT ![t.item] = lane[l].code]
  /\ itemStatus' = [itemStatus EXCEPT ![t.item] = "delivered"]
  /\ ledger' = ledger \cup {<<"delivery", t.item>>}
  /\ UNCHANGED <<refunds, pspRefunds, orderStatus, eventOutcome, paidLine>>

Decides(l, t) ==
  /\ At(l, t) /\ lane[l].pc = "refuse" /\ itemStatus[t.item] = "pending"
  /\ itemStatus' = [itemStatus EXCEPT ![t.item] = "refunding"]
  /\ UNCHANGED <<deliveries, refunds, pspRefunds, ledger, orderStatus, eventOutcome, paidLine>>

PaysBack(l, t) ==
  /\ RefundDue(l, t)
  /\ pspRefunds' = pspRefunds \cup {t.item}
  /\ UNCHANGED <<itemStatus, deliveries, refunds, ledger, orderStatus, eventOutcome, paidLine>>

BooksIt(l, t) ==
  /\ At(l, t) /\ lane[l].pc = "book" /\ itemStatus[t.item] = "refunding"
  /\ refunds' = refunds \cup {t.item}
  /\ itemStatus' = [itemStatus EXCEPT ![t.item] = "refunded"]
  /\ ledger' = ledger \cup {<<"refund", t.item>>}
  /\ UNCHANGED <<deliveries, pspRefunds, orderStatus, eventOutcome, paidLine>>

LEMMA ItemEffects ==
  ASSUME [Next]_vars
  PROVE  \/ ItemsKept
         \/ \E l \in Lanes : \E t \in lane[l].todo :
              Gives(l, t) \/ Decides(l, t) \/ PaysBack(l, t) \/ BooksIt(l, t)
<1> DEFINE Effect == \E l \in Lanes : \E t \in lane[l].todo :
                       Gives(l, t) \/ Decides(l, t) \/ PaysBack(l, t) \/ BooksIt(l, t)
<1>1. ASSUME NEW e \in Events, Webhook(e) PROVE ItemsKept
  <2>1. ledger' = ledger \/ ledger' = ledger \cup {<<"payment", e>>}
    BY <1>1 DEF Webhook
  <2>2. UNCHANGED <<itemStatus, deliveries, refunds, pspRefunds>>
    BY <1>1 DEF Webhook
  <2> QED
    BY <2>1, <2>2 DEF ItemsKept
<1>2. ASSUME NEW l \in Lanes,
             \/ Claim(l) \/ ReadItems(l) \/ Issued(l) \/ Refused(l) \/ NoAnswer(l)
             \/ ReadVerdict(l) \/ Finish(l) \/ Abandon(l)
      PROVE  ItemsKept
  <2>1. UNCHANGED <<itemStatus, deliveries, refunds, ledger, pspRefunds>>
    BY <1>2 DEF Claim, ReadItems, Issued, Refused, NoAnswer, ReadVerdict, Finish,
                Abandon, Throw, tables
  <2> QED
    BY <2>1 DEF ItemsKept
<1>3. ASSUME NEW l \in Lanes, Complete(l) PROVE ItemsKept \/ Effect
  <2> PICK t \in lane[l].todo : Complete(l)!(t)
    BY <1>3 DEF Complete
  <2>1. UNCHANGED <<tables, pspRefunds>> \/ Gives(l, t)
    BY DEF Gives, Throw, tables
  <2> QED
    BY <2>1 DEF ItemsKept, tables
<1>4. ASSUME NEW l \in Lanes, DecideRefund(l) PROVE ItemsKept \/ Effect
  <2> PICK t \in lane[l].todo : DecideRefund(l)!(t)
    BY <1>4 DEF DecideRefund
  <2>1. UNCHANGED <<tables, pspRefunds>> \/ Decides(l, t)
    BY DEF Decides, Refuses, Throw, tables
  <2> QED
    BY <2>1 DEF ItemsKept, tables
<1>5. ASSUME NEW l \in Lanes, PspRefunds(l) PROVE Effect
  BY <1>5 DEF PspRefunds, PaysBack, tables
<1>6. ASSUME NEW l \in Lanes, PspFails(l) PROVE ItemsKept \/ Effect
  <2> PICK t \in lane[l].todo : PspFails(l)!(t)
    BY <1>6 DEF PspFails
  <2>1. UNCHANGED <<tables, pspRefunds>> \/ PaysBack(l, t)
    BY DEF PaysBack, tables
  <2> QED
    BY <2>1 DEF ItemsKept, tables
<1>7. ASSUME NEW l \in Lanes, BookRefund(l) PROVE ItemsKept \/ Effect
  <2> PICK t \in lane[l].todo : BookRefund(l)!(t)
    BY <1>7 DEF BookRefund
  <2>1. UNCHANGED <<tables, pspRefunds>> \/ BooksIt(l, t)
    BY DEF BooksIt, Books, Throw, tables
  <2> QED
    BY <2>1 DEF ItemsKept, tables
<1>8. ASSUME \/ \E o \in Orders : SlotOpens(o) \/ RetryDelivery(o)
             \/ \E old \in SUBSET Orders : SweepSelects(old)
             \/ SweepMoves
             \/ UNCHANGED vars
      PROVE  ItemsKept
  <2>1. UNCHANGED <<itemStatus, deliveries, refunds, ledger, pspRefunds>>
    BY <1>8 DEF SlotOpens, RetryDelivery, SweepSelects, SweepMoves, vars, tables
  <2> QED
    BY <2>1 DEF ItemsKept
<1> QED
  BY <1>1, <1>2, <1>3, <1>4, <1>5, <1>6, <1>7, <1>8 DEF Next, Works
------------------------------------------------------------------------------
(* What a step does to an order's status.                                  *)

OrderEffect(o) ==
  \/ orderStatus'[o] = orderStatus[o]
  \/ orderStatus[o] = "created" /\ orderStatus'[o] \in {"payment_failed", "paid"}
  \/ orderStatus[o] \notin Unpaid /\ orderStatus'[o] \in {"paid", "delivering", "delivery_failed"}
  \/ /\ orderStatus[o] = "delivering" /\ orderStatus'[o] \in Settled
     /\ OpenItems(o) = {} /\ orderStatus'[o] = SettledAs(o)

LEMMA OrderEffects ==
  ASSUME Inv, [Next]_vars, NEW o \in Orders
  PROVE  OrderEffect(o)
<1>0. orderStatus \in [Orders -> OrderStatus] /\ lane \in [Lanes -> LaneState]
  BY DEF Inv, TypeOK
<1>1. ASSUME NEW e \in Events, Webhook(e) PROVE OrderEffect(o)
  <2>1. Outcome(e) = "applied" => EventOrder[e] \in Orders /\ orderStatus[EventOrder[e]] = "created"
    BY ConstantsAssumption DEF Outcome
  <2>2. \/ orderStatus' = orderStatus
        \/ /\ orderStatus[EventOrder[e]] = "created"
           /\ \E s \in {"payment_failed", "paid"} :
                orderStatus' = [orderStatus EXCEPT ![EventOrder[e]] = s]
    BY <1>1, <2>1 DEF Webhook
  <2> QED
    BY <1>0, <2>2 DEF OrderEffect
<1>2. ASSUME NEW l \in Lanes, Claim(l) PROVE OrderEffect(o)
  <2>1. \E k \in DOMAIN paidLine :
          /\ orderStatus[paidLine[k]] = "paid"
          /\ orderStatus' = [orderStatus EXCEPT ![paidLine[k]] = "delivering"]
    BY <1>2 DEF Claim, Claimable
  <2> QED
    BY <1>0, <2>1 DEF OrderEffect
<1>3. ASSUME NEW l \in Lanes, Finish(l) PROVE OrderEffect(o)
  <2> DEFINE s == lane[l]
  <2>1. /\ s.pc = "verdict"
        /\ \/ orderStatus' = orderStatus
           \/ /\ orderStatus[s.order] = "delivering"
              /\ orderStatus' = [orderStatus EXCEPT ![s.order] = s.verdict]
    BY <1>3 DEF Finish, Throw, tables
  <2>2. /\ s.verdict \in {"paid", "delivery_failed"} \cup Settled
        /\ s.verdict \in Settled => OpenItems(s.order) = {} /\ s.verdict = SettledAs(s.order)
    BY <2>1 DEF Inv, LanesInv, LaneOK
  <2> QED
    BY <1>0, <2>1, <2>2 DEF OrderEffect
<1>4. ASSUME NEW p \in Orders, RetryDelivery(p) PROVE OrderEffect(o)
  BY <1>0, <1>4 DEF RetryDelivery, OrderEffect
<1>5. ASSUME SweepMoves PROVE OrderEffect(o)
  <2>1. o \in swept => orderStatus[o] \notin Unpaid
    BY DEF Inv, UnpaidUntouched
  <2> QED
    BY <1>5, <2>1 DEF SweepMoves, OrderEffect
<1>6. ASSUME NEW l \in Lanes,
             \/ ReadItems(l) \/ Issued(l) \/ Refused(l) \/ NoAnswer(l) \/ ReadVerdict(l)
             \/ PspRefunds(l) \/ PspFails(l) \/ Abandon(l)
      PROVE  OrderEffect(o)
  <2>1. orderStatus' = orderStatus
    BY <1>6 DEF ReadItems, Issued, Refused, NoAnswer, ReadVerdict, PspRefunds, PspFails,
                Abandon, Throw, tables
  <2> QED
    BY <2>1 DEF OrderEffect
<1>7. ASSUME NEW l \in Lanes, Complete(l) \/ DecideRefund(l) \/ BookRefund(l)
      PROVE  OrderEffect(o)
  <2>1. orderStatus' = orderStatus
    BY <1>7 DEF Complete, DecideRefund, BookRefund, Throw, tables
  <2> QED
    BY <2>1 DEF OrderEffect
<1>8. ASSUME \/ \E p \in Orders : SlotOpens(p)
             \/ \E old \in SUBSET Orders : SweepSelects(old)
             \/ UNCHANGED vars
      PROVE  OrderEffect(o)
  <2>1. orderStatus' = orderStatus
    BY <1>8 DEF SlotOpens, SweepSelects, vars, tables
  <2> QED
    BY <2>1 DEF OrderEffect
<1> QED
  BY <1>1, <1>2, <1>3, <1>4, <1>5, <1>6, <1>7, <1>8 DEF Next, Works

\* An order that was paid is never unpaid again.
LEMMA PaidStays ==
  ASSUME Inv, [Next]_vars, NEW o \in Orders, orderStatus[o] \notin Unpaid
  PROVE  orderStatus'[o] \notin Unpaid
  BY OrderEffects DEF OrderEffect

------------------------------------------------------------------------------
(* What was decided about an item stands.                                  *)

\* The item a lane is at belongs to the paid order the lane holds.
LEMMA AtItem ==
  ASSUME Inv, NEW l \in Lanes, NEW t \in lane[l].todo, lane[l].pc # "idle"
  PROVE  /\ t.item \in Items /\ OrderOf[t.item] = lane[l].order
         /\ OrderOf[t.item] \in Orders /\ orderStatus[OrderOf[t.item]] \notin Unpaid
<1>1. lane \in [Lanes -> LaneState]
  BY DEF Inv, TypeOK
<1>2. t.item \in Items /\ OrderOf[t.item] \in Orders
  BY <1>1, TodoType, ConstantsAssumption
<1>3. OrderOf[t.item] = lane[l].order
  BY DEF Inv, LanesInv, LaneOK
<1>4. Held(OrderOf[t.item])
  BY <1>3 DEF Held
<1> QED
  BY <1>2, <1>3, <1>4 DEF Inv, UnpaidUntouched

\* A refund is asked for only once it has been decided.
LEMMA RefundIsDecided ==
  ASSUME Inv, NEW l \in Lanes, NEW t \in lane[l].todo, RefundDue(l, t)
  PROVE  itemStatus[t.item] \in {"refunding", "refunded"}
  BY DEF RefundDue, Inv, LanesInv, LaneOK

LEMMA DecisionsStep ==
  ASSUME Inv, [Next]_vars
  PROVE  DecisionsHold /\ pspRefunds \subseteq pspRefunds'
<1>0. itemStatus \in [Items -> ItemStatus] /\ deliveries \in [Items -> Codes \cup {NoCode}]
  BY DEF Inv, TypeOK
<1>1. CASE ItemsKept
  BY <1>1 DEF ItemsKept, DecisionsHold
<1>2. ASSUME NEW l \in Lanes, NEW t \in lane[l].todo,
             Gives(l, t) \/ Decides(l, t) \/ PaysBack(l, t) \/ BooksIt(l, t)
      PROVE  DecisionsHold /\ pspRefunds \subseteq pspRefunds'
  BY <1>0, <1>2 DEF Gives, Completes, Decides, PaysBack, BooksIt, DecisionsHold
<1> QED
  BY <1>1, <1>2, ItemEffects

\* A settled order stays settled, in the same way.
LEMMA SettledStays ==
  ASSUME Inv, [Next]_vars, NEW o \in Orders, OpenItems(o) = {}
  PROVE  OpenItems(o)' = {} /\ SettledAs(o)' = SettledAs(o)
<1>1. \A i \in ItemsOf(o) : itemStatus[i] \in {"delivered", "refunded"}
  BY DEF OpenItems, Inv, TypeOK, ItemsOf
<1>2. \A i \in ItemsOf(o) : itemStatus'[i] = itemStatus[i]
  BY <1>1, DecisionsStep DEF DecisionsHold, ItemsOf
<1> QED
  BY <1>1, <1>2 DEF OpenItems, SettledAs, ItemsOf

LEMMA FinalStep ==
  ASSUME Inv, [Next]_vars
  PROVE  FinalMeansSettled'
<1> SUFFICES ASSUME NEW o \in Orders, orderStatus'[o] \in Settled
             PROVE  OpenItems(o)' = {} /\ orderStatus'[o] = SettledAs(o)'
  BY DEF FinalMeansSettled
<1>1. OpenItems(o) = {} /\ orderStatus'[o] = SettledAs(o)
  BY OrderEffects DEF OrderEffect, Inv, FinalMeansSettled
<1> QED
  BY <1>1, SettledStays
------------------------------------------------------------------------------
(* The books.                                                              *)

LEMMA MoneyStep ==
  ASSUME Inv, [Next]_vars
  PROVE  NeverCodeAndMoney'
<1>0. itemStatus \in [Items -> ItemStatus] /\ deliveries \in [Items -> Codes \cup {NoCode}]
  BY DEF Inv, TypeOK
<1>00. /\ NeverCodeAndMoney
       /\ \A i \in Items : itemStatus[i] = "delivered" <=> deliveries[i] # NoCode
  BY DEF Inv, BooksBalance
<1>1. CASE ItemsKept
  BY <1>1, <1>00 DEF ItemsKept, NeverCodeAndMoney
<1>2. ASSUME NEW l \in Lanes, NEW t \in lane[l].todo, Gives(l, t) PROVE NeverCodeAndMoney'
  BY <1>0, <1>00, <1>2 DEF Gives, Completes, NeverCodeAndMoney
<1>3. ASSUME NEW l \in Lanes, NEW t \in lane[l].todo, Decides(l, t) PROVE NeverCodeAndMoney'
  BY <1>0, <1>00, <1>3 DEF Decides, NeverCodeAndMoney
<1>4. ASSUME NEW l \in Lanes, NEW t \in lane[l].todo, PaysBack(l, t) PROVE NeverCodeAndMoney'
  BY <1>0, <1>00, <1>4, RefundIsDecided DEF PaysBack, NeverCodeAndMoney
<1>5. ASSUME NEW l \in Lanes, NEW t \in lane[l].todo, BooksIt(l, t) PROVE NeverCodeAndMoney'
  <2>1. t.item \in pspRefunds
    BY <1>5 DEF BooksIt, Inv, LanesInv, LaneOK
  <2> QED
    BY <1>0, <1>00, <1>5, <2>1 DEF BooksIt, NeverCodeAndMoney
<1> QED
  BY <1>1, <1>2, <1>3, <1>4, <1>5, ItemEffects

\* BooksBalance is about payments, order by order, and settlements, item by item.
PaymentsOf(o) == {e \in Events : EventOrder[e] = o /\ <<"payment", e>> \in ledger}

PaymentBooked(o) ==
  IF orderStatus[o] \in Unpaid THEN PaymentsOf(o) = {}
  ELSE \E e \in PaymentsOf(o) : PaymentsOf(o) = {e} /\ eventOutcome[e] = "applied"

SettlementBooked(i) ==
  /\ <<"delivery", i>> \in ledger <=> itemStatus[i] = "delivered"
  /\ <<"refund", i>> \in ledger <=> itemStatus[i] = "refunded"
  /\ itemStatus[i] = "delivered" <=> deliveries[i] # NoCode
  /\ itemStatus[i] = "refunded" <=> i \in refunds

LEMMA BooksSplit == BooksBalance <=> /\ \A o \in Orders : PaymentBooked(o)
                                     /\ \A i \in Items : SettlementBooked(i)
  BY DEF BooksBalance, PaymentBooked, PaymentsOf, SettlementBooked

LEMMA SettlementStep ==
  ASSUME Inv, [Next]_vars, NEW i \in Items
  PROVE  SettlementBooked(i)'
<1>0. /\ itemStatus \in [Items -> ItemStatus] /\ deliveries \in [Items -> Codes \cup {NoCode}]
      /\ lane \in [Lanes -> LaneState]
  BY DEF Inv, TypeOK
<1>1. SettlementBooked(i)
  BY BooksSplit DEF Inv
<1>2. CASE ItemsKept
  BY <1>1, <1>2 DEF ItemsKept, SettlementBooked
<1>3. ASSUME NEW l \in Lanes, NEW t \in lane[l].todo, Gives(l, t) PROVE SettlementBooked(i)'
  <2>1. lane[l].code \in Codes
    BY <1>3 DEF Gives, Inv, LanesInv, LaneOK
  <2>2. lane[l].code # NoCode
    BY <2>1, ConstantsAssumption
  <2> QED
    BY <1>0, <1>1, <1>3, <2>2 DEF Gives, Completes, SettlementBooked
<1>4. ASSUME NEW l \in Lanes, NEW t \in lane[l].todo, Decides(l, t) PROVE SettlementBooked(i)'
  BY <1>0, <1>1, <1>4 DEF Decides, SettlementBooked
<1>5. ASSUME NEW l \in Lanes, NEW t \in lane[l].todo, PaysBack(l, t) PROVE SettlementBooked(i)'
  BY <1>1, <1>5 DEF PaysBack, SettlementBooked
<1>6. ASSUME NEW l \in Lanes, NEW t \in lane[l].todo, BooksIt(l, t) PROVE SettlementBooked(i)'
  BY <1>0, <1>1, <1>6 DEF BooksIt, SettlementBooked
<1> QED
  BY <1>2, <1>3, <1>4, <1>5, <1>6, ItemEffects

\* Nothing but a webhook touches payments or an order that is not paid.
PaymentsKept ==
  /\ UNCHANGED <<eventOutcome, paidLine>>
  /\ \A e \in Events : <<"payment", e>> \in ledger' <=> <<"payment", e>> \in ledger
  /\ \A o \in Orders : orderStatus[o] \in Unpaid => orderStatus'[o] = orderStatus[o]

LEMMA OnlyWebhooksPay ==
  ASSUME Inv, [Next]_vars
  PROVE  (\E e \in Events : Webhook(e)) \/ PaymentsKept
<1>0. orderStatus \in [Orders -> OrderStatus]
  BY DEF Inv, TypeOK
<1>1. ASSUME NEW l \in Lanes, Claim(l) PROVE PaymentsKept
  <2>1. /\ UNCHANGED <<eventOutcome, paidLine, ledger>>
        /\ \E k \in DOMAIN paidLine :
             /\ orderStatus[paidLine[k]] = "paid"
             /\ orderStatus' = [orderStatus EXCEPT ![paidLine[k]] = "delivering"]
    BY <1>1 DEF Claim, Claimable
  <2> QED
    BY <1>0, <2>1 DEF PaymentsKept
<1>2. ASSUME NEW l \in Lanes, Finish(l) PROVE PaymentsKept
  <2>1. /\ UNCHANGED <<eventOutcome, paidLine, ledger>>
        /\ \/ orderStatus' = orderStatus
           \/ /\ orderStatus[lane[l].order] = "delivering"
              /\ orderStatus' = [orderStatus EXCEPT ![lane[l].order] = lane[l].verdict]
    BY <1>2 DEF Finish, Throw, tables
  <2> QED
    BY <1>0, <2>1 DEF PaymentsKept
<1>3. ASSUME NEW o \in Orders, RetryDelivery(o) PROVE PaymentsKept
  BY <1>0, <1>3 DEF RetryDelivery, PaymentsKept
<1>4. ASSUME SweepMoves PROVE PaymentsKept
  <2>1. \A o \in Orders : o \in swept => orderStatus[o] \notin Unpaid
    BY DEF Inv, UnpaidUntouched
  <2> QED
    BY <1>4, <2>1 DEF SweepMoves, PaymentsKept
<1>5. ASSUME NEW l \in Lanes,
             \/ ReadItems(l) \/ Issued(l) \/ Refused(l) \/ NoAnswer(l) \/ ReadVerdict(l)
             \/ PspRefunds(l) \/ PspFails(l) \/ Abandon(l) \/ DecideRefund(l)
      PROVE  PaymentsKept
  <2>1. UNCHANGED <<eventOutcome, paidLine, ledger, orderStatus>>
    BY <1>5 DEF ReadItems, Issued, Refused, NoAnswer, ReadVerdict, PspRefunds, PspFails,
                Abandon, DecideRefund, Throw, tables
  <2> QED
    BY <2>1 DEF PaymentsKept
<1>6. ASSUME NEW l \in Lanes, Complete(l) PROVE PaymentsKept
  <2>1. /\ UNCHANGED <<eventOutcome, paidLine, orderStatus>>
        /\ \/ ledger' = ledger
           \/ \E i : ledger' = ledger \cup {<<"delivery", i>>}
    BY <1>6 DEF Complete, Throw, tables
  <2> QED
    BY <2>1 DEF PaymentsKept
<1>7. ASSUME NEW l \in Lanes, BookRefund(l) PROVE PaymentsKept
  <2>1. /\ UNCHANGED <<eventOutcome, paidLine, orderStatus>>
        /\ \/ ledger' = ledger
           \/ \E i : ledger' = ledger \cup {<<"refund", i>>}
    BY <1>7 DEF BookRefund, Throw, tables
  <2> QED
    BY <2>1 DEF PaymentsKept
<1>8. ASSUME \/ \E o \in Orders : SlotOpens(o)
             \/ \E old \in SUBSET Orders : SweepSelects(old)
             \/ UNCHANGED vars
      PROVE  PaymentsKept
  <2>1. UNCHANGED <<eventOutcome, paidLine, ledger, orderStatus>>
    BY <1>8 DEF SlotOpens, SweepSelects, vars, tables
  <2> QED
    BY <2>1 DEF PaymentsKept
<1> QED
  BY <1>1, <1>2, <1>3, <1>4, <1>5, <1>6, <1>7, <1>8 DEF Next, Works
\* A webhook that applies finds an order without any payment.
LEMMA WebhookEffect ==
  ASSUME Inv, NEW e \in Events, Webhook(e)
  PROVE  /\ eventOutcome[e] = "absent" /\ <<"payment", e>> \notin ledger
         /\ eventOutcome' = [eventOutcome EXCEPT ![e] = Outcome(e)]
         /\ \/ UNCHANGED <<orderStatus, paidLine, ledger>>
            \/ /\ EventOrder[e] \in Orders /\ orderStatus[EventOrder[e]] = "created"
               /\ orderStatus' = [orderStatus EXCEPT ![EventOrder[e]] = "payment_failed"]
               /\ UNCHANGED <<paidLine, ledger>>
            \/ /\ EventOrder[e] \in Orders /\ orderStatus[EventOrder[e]] = "created"
               /\ Outcome(e) = "applied"
               /\ orderStatus' = [orderStatus EXCEPT ![EventOrder[e]] = "paid"]
               /\ paidLine' = Append(paidLine, EventOrder[e])
               /\ ledger' = ledger \cup {<<"payment", e>>}
<1>1. eventOutcome[e] = "absent" /\ eventOutcome' = [eventOutcome EXCEPT ![e] = Outcome(e)]
  BY DEF Webhook
<1>2. <<"payment", e>> \notin ledger
  BY <1>1 DEF Inv, RowsInv
<1>3. Outcome(e) = "applied" => EventOrder[e] \in Orders /\ orderStatus[EventOrder[e]] = "created"
  BY ConstantsAssumption DEF Outcome
<1> QED
  BY <1>1, <1>2, <1>3 DEF Webhook

LEMMA PaymentStep ==
  ASSUME Inv, [Next]_vars, NEW o \in Orders
  PROVE  PaymentBooked(o)'
<1>0. /\ orderStatus \in [Orders -> OrderStatus]
      /\ eventOutcome \in [Events -> {"absent", "applied", "ignored",
                                      "order_not_found", "amount_mismatch"}]
  BY DEF Inv, TypeOK
<1>1. PaymentBooked(o)
  BY BooksSplit DEF Inv
<1>2. CASE PaymentsKept
  <2>1. PaymentsOf(o)' = PaymentsOf(o) /\ eventOutcome' = eventOutcome
    BY <1>2 DEF PaymentsKept, PaymentsOf
  <2>2. orderStatus[o] \in Unpaid <=> orderStatus'[o] \in Unpaid
    BY <1>2, PaidStays DEF PaymentsKept
  <2> QED
    BY <1>1, <2>1, <2>2 DEF PaymentBooked
<1>3. ASSUME NEW e \in Events, Webhook(e) PROVE PaymentBooked(o)'
  <2>1. \A f \in PaymentsOf(o) : f # e
    BY <1>3, WebhookEffect DEF PaymentsOf
  <2>2. \A f \in PaymentsOf(o) : eventOutcome'[f] = eventOutcome[f]
    BY <1>0, <1>3, <2>1, WebhookEffect DEF PaymentsOf
  <2>3. CASE ledger' = ledger
    <3>1. PaymentsOf(o)' = PaymentsOf(o)
      BY <2>3 DEF PaymentsOf
    <3>2. orderStatus[o] \in Unpaid <=> orderStatus'[o] \in Unpaid
      BY <1>0, <1>3, <2>3, WebhookEffect
    <3> QED
      BY <1>1, <2>2, <3>1, <3>2 DEF PaymentBooked
  <2>4. CASE /\ EventOrder[e] \in Orders /\ orderStatus[EventOrder[e]] = "created"
             /\ Outcome(e) = "applied"
             /\ orderStatus' = [orderStatus EXCEPT ![EventOrder[e]] = "paid"]
             /\ ledger' = ledger \cup {<<"payment", e>>}
    <3>1. CASE EventOrder[e] = o
      <4>1. PaymentsOf(o) = {}
        BY <1>1, <2>4, <3>1 DEF PaymentBooked
      <4>2. PaymentsOf(o)' = {e}
        BY <2>4, <3>1, <4>1 DEF PaymentsOf
      <4>3. eventOutcome'[e] = "applied" /\ orderStatus'[o] = "paid"
        <5>1. eventOutcome' = [eventOutcome EXCEPT ![e] = Outcome(e)]
          BY <1>3, WebhookEffect
        <5> QED
          BY <1>0, <2>4, <3>1, <5>1
      <4> QED
        BY <4>2, <4>3 DEF PaymentBooked
    <3>2. CASE EventOrder[e] # o
      <4>1. PaymentsOf(o)' = PaymentsOf(o) /\ orderStatus'[o] = orderStatus[o]
        BY <1>0, <2>4, <3>2 DEF PaymentsOf
      <4> QED
        BY <1>1, <2>2, <4>1 DEF PaymentBooked
    <3> QED
      BY <3>1, <3>2
  <2> QED
    BY <1>3, <2>3, <2>4, WebhookEffect
<1> QED
  BY <1>2, <1>3, OnlyWebhooksPay

LEMMA BooksStep ==
  ASSUME Inv, [Next]_vars
  PROVE  BooksBalance'
<1>1. /\ \A o \in Orders : PaymentBooked(o)'
      /\ \A i \in Items : SettlementBooked(i)'
  BY PaymentStep, SettlementStep
<1> QED
  BY <1>1 DEF BooksBalance, PaymentBooked, PaymentsOf, SettlementBooked

LEMMA RowsStep ==
  ASSUME Inv, [Next]_vars
  PROVE  RowsInv'
<1>0. /\ deliveries \in [Items -> Codes \cup {NoCode}] /\ paidLine \in Seq(Orders)
      /\ eventOutcome \in [Events -> {"absent", "applied", "ignored",
                                      "order_not_found", "amount_mismatch"}]
      /\ orderStatus \in [Orders -> OrderStatus]
  BY DEF Inv, TypeOK
<1>00. RowsInv
  BY DEF Inv
<1>1. \A i, j \in Items : deliveries'[i] = deliveries'[j] /\ deliveries'[i] # NoCode => i = j
  <2>1. CASE deliveries' = deliveries
    BY <1>00, <2>1 DEF RowsInv
  <2>2. ASSUME NEW l \in Lanes, NEW t \in lane[l].todo, Gives(l, t)
        PROVE  \A i, j \in Items : deliveries'[i] = deliveries'[j] /\ deliveries'[i] # NoCode => i = j
    BY <1>0, <1>00, <2>2 DEF Gives, Completes, TakenCode, RowsInv
  <2> QED
    BY <2>1, <2>2, ItemEffects DEF ItemsKept, Decides, PaysBack, BooksIt
<1>2. \A e \in Events : <<"payment", e>> \in ledger' =>
        eventOutcome'[e] = "applied" /\ EventOrder[e] \in Orders
  <2>1. CASE PaymentsKept
    BY <1>00, <2>1 DEF PaymentsKept, RowsInv
  <2>2. ASSUME NEW e \in Events, Webhook(e)
        PROVE  \A f \in Events : <<"payment", f>> \in ledger' =>
                 eventOutcome'[f] = "applied" /\ EventOrder[f] \in Orders
    <3>1. /\ <<"payment", e>> \notin ledger
          /\ eventOutcome' = [eventOutcome EXCEPT ![e] = Outcome(e)]
          /\ \/ ledger' = ledger
             \/ /\ EventOrder[e] \in Orders /\ Outcome(e) = "applied"
                /\ ledger' = ledger \cup {<<"payment", e>>}
      BY <2>2, WebhookEffect
    <3> QED
      BY <1>0, <1>00, <3>1 DEF RowsInv
  <2> QED
    BY <2>1, <2>2, OnlyWebhooksPay
<1>3. \A k \in DOMAIN paidLine' : orderStatus'[paidLine'[k]] \notin Unpaid
  <2>1. \A k \in DOMAIN paidLine : paidLine[k] \in Orders /\ orderStatus'[paidLine[k]] \notin Unpaid
    BY <1>0, <1>00, PaidStays DEF RowsInv
  <2>2. CASE paidLine' = paidLine
    BY <2>1, <2>2
  <2>3. ASSUME NEW o \in Orders, paidLine' = Append(paidLine, o), orderStatus'[o] = "paid"
        PROVE  \A k \in DOMAIN paidLine' : orderStatus'[paidLine'[k]] \notin Unpaid
    BY <1>0, <2>1, <2>3
  <2>4. ASSUME NEW e \in Events, Webhook(e)
        PROVE  \/ paidLine' = paidLine
               \/ \E o \in Orders : paidLine' = Append(paidLine, o) /\ orderStatus'[o] = "paid"
    <3>1. \/ paidLine' = paidLine
          \/ /\ EventOrder[e] \in Orders /\ paidLine' = Append(paidLine, EventOrder[e])
             /\ orderStatus' = [orderStatus EXCEPT ![EventOrder[e]] = "paid"]
      BY <2>4, WebhookEffect
    <3> QED
      BY <1>0, <3>1
  <2> QED
    BY <2>2, <2>3, <2>4, OnlyWebhooksPay DEF PaymentsKept
<1> QED
  BY <1>1, <1>2, <1>3 DEF RowsInv

------------------------------------------------------------------------------
(* Unpaid orders.                                                          *)

\* A lane takes up an order only by claiming it, a sweep only if it was paid.
LEMMA HeldOrders ==
  ASSUME Inv, [Next]_vars
  PROVE  /\ \A l \in Lanes : \/ lane'[l].order \in {lane[l].order, NoOrder}
                             \/ orderStatus[lane'[l].order] = "paid"
         /\ \A o \in swept' : o \in swept \/ orderStatus[o] \notin Unpaid
<1>0. lane \in [Lanes -> LaneState]
  BY DEF Inv, TypeOK
<1> DEFINE Goal == /\ \A l \in Lanes : \/ lane'[l].order \in {lane[l].order, NoOrder}
                                       \/ orderStatus[lane'[l].order] = "paid"
                   /\ \A o \in swept' : o \in swept \/ orderStatus[o] \notin Unpaid
<1> SUFFICES Goal
  OBVIOUS
<1>1. ASSUME NEW m \in Lanes, NEW s,
             lane' = [lane EXCEPT ![m] = s], s.order \in {lane[m].order, NoOrder},
             swept' = swept
      PROVE  Goal
  BY <1>0, <1>1
<1>2. ASSUME NEW m \in Lanes, Claim(m) PROVE Goal
  <2> PICK k \in DOMAIN paidLine : Claim(m)!2!(k)
    BY <1>2 DEF Claim
  <2>1. lane'[m].order = paidLine[k] /\ orderStatus[paidLine[k]] = "paid"
    BY <1>0 DEF Claimable, LaneState
  <2> QED
    BY <1>0, <1>2, <2>1 DEF Claim
<1>3. ASSUME NEW m \in Lanes, NEW pc \in PC, swept' = swept,
             lane' = [lane EXCEPT ![m] = [@ EXCEPT !.pc = pc]]
      PROVE  Goal
  BY <1>0, <1>3, <1>1 DEF LaneState
<1>4. ASSUME NEW m \in Lanes, NEW t, NEW d, NEW u, NextItem(m, t, d, u), swept' = swept PROVE Goal
  BY <1>0, <1>4, <1>1 DEF NextItem, LaneState
<1>5. ASSUME NEW m \in Lanes, Throw(m), swept' = swept PROVE Goal
  BY <1>0, <1>5, <1>1 DEF Throw, Idle
<1>6. ASSUME UNCHANGED <<lane, swept>> PROVE Goal
  BY <1>6
<1>7. ASSUME NEW m \in Lanes, ReadItems(m) \/ Issued(m) \/ ReadVerdict(m) PROVE Goal
  <2>1. ASSUME NEW pc, NEW todo, swept' = swept,
               lane' = [lane EXCEPT ![m] = [@ EXCEPT !.pc = pc, !.todo = todo]]
        PROVE  Goal
    <3>1. [lane[m] EXCEPT !.pc = pc, !.todo = todo].order = lane[m].order
      BY <1>0 DEF LaneState
    <3> QED
      BY <2>1, <3>1, <1>1
  <2>2. ASSUME NEW c, swept' = swept,
               lane' = [lane EXCEPT ![m] = [@ EXCEPT !.pc = "complete", !.code = c]]
        PROVE  Goal
    <3>1. [lane[m] EXCEPT !.pc = "complete", !.code = c].order = lane[m].order
      BY <1>0 DEF LaneState
    <3> QED
      BY <2>2, <3>1, <1>1
  <2>3. ASSUME NEW v, swept' = swept,
               lane' = [lane EXCEPT ![m] = [@ EXCEPT !.pc = "verdict", !.verdict = v]]
        PROVE  Goal
    <3>1. [lane[m] EXCEPT !.pc = "verdict", !.verdict = v].order = lane[m].order
      BY <1>0 DEF LaneState
    <3> QED
      BY <2>3, <3>1, <1>1
  <2> QED
    <3>1. CASE ReadItems(m)
      BY <3>1, <2>1 DEF ReadItems
    <3>2. CASE Issued(m)
      BY <3>2, <2>2 DEF Issued
    <3>3. CASE ReadVerdict(m)
      BY <3>3, <2>3 DEF ReadVerdict
    <3> QED
      BY <1>7, <3>1, <3>2, <3>3
<1>8. ASSUME NEW m \in Lanes, Refused(m) \/ PspRefunds(m) PROVE Goal
  BY <1>8, <1>3 DEF Refused, PspRefunds, PC
<1>9. ASSUME NEW m \in Lanes, NoAnswer(m) \/ PspFails(m) PROVE Goal
  BY <1>9, <1>4 DEF NoAnswer, PspFails
<1>10. ASSUME NEW m \in Lanes, Complete(m) PROVE Goal
  <2>1. ASSUME lane' = [lane EXCEPT ![m] = [@ EXCEPT !.pc = "items", !.code = NoCode]],
               swept' = swept
        PROVE  Goal
    BY <1>0, <2>1, <1>1 DEF LaneState
  <2> QED
    BY <1>10, <2>1, <1>4, <1>5 DEF Complete
<1>11. ASSUME NEW m \in Lanes, DecideRefund(m) PROVE Goal
  BY <1>11, <1>3, <1>5 DEF DecideRefund, PC
<1>12. ASSUME NEW m \in Lanes, BookRefund(m) PROVE Goal
  BY <1>12, <1>4, <1>5 DEF BookRefund
<1>13. ASSUME NEW m \in Lanes, Finish(m) PROVE Goal
  BY <1>13, <1>0, <1>1, <1>5 DEF Finish, Idle
<1>14. ASSUME NEW m \in Lanes, Abandon(m) PROVE Goal
  BY <1>14, <1>5 DEF Abandon
<1>15. ASSUME NEW old \in SUBSET Orders, SweepSelects(old) PROVE Goal
  BY <1>15 DEF SweepSelects, SweptStatuses
<1>16. ASSUME SweepMoves PROVE Goal
  BY <1>16 DEF SweepMoves
<1>17. ASSUME \/ \E e \in Events : Webhook(e)
              \/ \E o \in Orders : SlotOpens(o) \/ RetryDelivery(o)
              \/ UNCHANGED vars
       PROVE  Goal
  BY <1>17, <1>6 DEF Webhook, SlotOpens, RetryDelivery, vars
<1> QED
  BY <1>2, <1>7, <1>8, <1>9, <1>10, <1>11, <1>12, <1>13, <1>14, <1>15, <1>16, <1>17
     DEF Next, Works

LEMMA UnpaidStep ==
  ASSUME Inv, [Next]_vars
  PROVE  UnpaidUntouched'
<1> SUFFICES ASSUME NEW o \in Orders, orderStatus'[o] \in Unpaid
             PROVE  /\ ~Held(o)' /\ o \notin swept'
                    /\ \A i \in ItemsOf(o) : itemStatus'[i] = "pending" /\ i \notin pspRefunds'
  BY DEF UnpaidUntouched, ItemsOf
<1>1. orderStatus[o] \in Unpaid
  BY PaidStays
<1>2. /\ ~Held(o) /\ o \notin swept
      /\ \A i \in ItemsOf(o) : itemStatus[i] = "pending" /\ i \notin pspRefunds
  BY <1>1 DEF Inv, UnpaidUntouched
<1>3. ~Held(o)'
  <2> SUFFICES ASSUME NEW l \in Lanes, lane'[l].order = o PROVE FALSE
    BY DEF Held
  <2>1. lane[l].order # o
    BY <1>2 DEF Held
  <2>2. o # NoOrder
    BY ConstantsAssumption
  <2>3. orderStatus[o] = "paid"
    BY <2>1, <2>2, HeldOrders
  <2> QED
    BY <1>1, <2>3
<1>4. o \notin swept'
  BY <1>1, <1>2, HeldOrders
<1>5. ASSUME NEW i \in ItemsOf(o) PROVE itemStatus'[i] = "pending" /\ i \notin pspRefunds'
  <2>0. i \in Items /\ OrderOf[i] = o /\ itemStatus \in [Items -> ItemStatus]
    BY DEF ItemsOf, Inv, TypeOK
  <2>1. CASE ItemsKept
    BY <1>2, <2>0, <2>1 DEF ItemsKept
  <2>2. ASSUME NEW l \in Lanes, NEW t \in lane[l].todo,
               Gives(l, t) \/ Decides(l, t) \/ PaysBack(l, t) \/ BooksIt(l, t)
        PROVE  itemStatus'[i] = "pending" /\ i \notin pspRefunds'
    <3>1. lane[l].pc # "idle"
      BY <2>2 DEF Gives, Decides, PaysBack, RefundDue, BooksIt
    <3>2. t.item # i
      BY <1>1, <2>0, <3>1, AtItem
    <3> QED
      BY <1>2, <2>0, <2>2, <3>2 DEF Gives, Decides, PaysBack, BooksIt
  <2> QED
    BY <2>1, <2>2, ItemEffects
<1> QED
  BY <1>3, <1>4, <1>5

------------------------------------------------------------------------------
(* What the lanes hold in memory.                                          *)

\* A lane is at one item: the lines of an order are numbered.
LEMMA AtUnique ==
  ASSUME Inv, NEW l \in Lanes, NEW t, NEW u, At(l, t), At(l, u)
  PROVE  t.item = u.item
<1>1. t \in lane[l].todo /\ u \in lane[l].todo
  BY DEF At
<1>2. t.item \in Items /\ u.item \in Items
  BY <1>1, TodoType DEF Inv, TypeOK
<1>3. OrderOf[t.item] = OrderOf[u.item]
  BY <1>1 DEF Inv, LanesInv, LaneOK
<1>4. Position[t.item] \in Nat /\ Position[u.item] \in Nat
  BY <1>2, ConstantsAssumption
<1>5. Position[t.item] = Position[u.item]
  BY <1>1, <1>4 DEF At
<1> QED
  BY <1>2, <1>3, <1>5, OrdersHaveItems

\* A lane that does not act is none the worse for what the others do.
LEMMA OtherLane ==
  ASSUME Inv, [Next]_vars, NEW l \in Lanes, lane'[l] = lane[l]
  PROVE  LaneOK(l)'
<1>1. LaneOK(l)
  BY DEF Inv, LanesInv
<1>2. \A t : At(l, t)' <=> At(l, t)
  BY DEF At
<1>3. ASSUME NEW t \in lane[l].todo, itemStatus[t.item] \in {"refunding", "refunded"}
      PROVE  itemStatus'[t.item] \in {"refunding", "refunded"}
  <2>1. t.item \in Items
    BY TodoType DEF Inv, TypeOK
  <2> QED
    BY <1>3, <2>1, DecisionsStep DEF DecisionsHold
<1>4. pspRefunds \subseteq pspRefunds'
  BY DecisionsStep
<1>5. ASSUME lane[l].pc = "verdict", lane[l].verdict \in Settled
      PROVE  OpenItems(lane[l].order)' = {} /\ SettledAs(lane[l].order)' = SettledAs(lane[l].order)
  <2>1. OpenItems(lane[l].order) = {}
    BY <1>1, <1>5 DEF LaneOK
  <2>2. lane[l].order \in Orders
    BY <1>1, <1>5, OrderType DEF LaneOK, Inv, TypeOK
  <2> DEFINE o == lane[l].order
  <2> HIDE DEF o
  <2>3. o \in Orders /\ OpenItems(o) = {} /\ o' = o
    BY <2>1, <2>2 DEF o
  <2>4. OpenItems(o)' = {} /\ SettledAs(o)' = SettledAs(o)
    BY <2>3, SettledStays
  <2> QED
    BY <2>4 DEF o
<1> QED
  BY <1>1, <1>2, <1>3, <1>4, <1>5 DEF LaneOK

\* A lane that is in the middle of its items, or at nothing special.
LEMMA LaneCarries ==
  ASSUME Inv, [Next]_vars, NEW l \in Lanes, lane[l].pc # "idle",
         lane'[l].order = lane[l].order, lane'[l].todo \subseteq lane[l].todo,
         lane'[l].pc \notin {"idle", "refund", "book", "verdict"},
         lane'[l].pc = "complete" => lane'[l].code \in Codes
  PROVE  LaneOK(l)'
<1>1. LaneOK(l)
  BY DEF Inv, LanesInv
<1>2. ASSUME NEW t \in lane[l].todo, t.seen = "refunding"
      PROVE  itemStatus'[t.item] \in {"refunding", "refunded"}
  <2>1. t.item \in Items
    BY TodoType DEF Inv, TypeOK
  <2>2. itemStatus[t.item] \in {"refunding", "refunded"}
    BY <1>1, <1>2 DEF LaneOK
  <2> QED
    BY <2>1, <2>2, DecisionsStep DEF DecisionsHold
<1> QED
  BY <1>1, <1>2 DEF LaneOK

LEMMA LaneRests ==
  ASSUME NEW l \in Lanes, lane'[l] = Idle
  PROVE  LaneOK(l)'
<1>1. /\ lane'[l].pc = "idle" /\ lane'[l].order = NoOrder /\ lane'[l].todo = {}
  BY DEF Idle
<1> QED
  BY <1>1 DEF LaneOK

\* The three ways a lane's record is written.
LEMMA LaneWritten ==
  ASSUME Inv, [Next]_vars, NEW m \in Lanes, NEW r, lane' = [lane EXCEPT ![m] = r],
         NEW l \in Lanes, lane'[m] = r => LaneOK(m)'
  PROVE  LaneOK(l)'
<1>1. lane'[m] = r /\ (l # m => lane'[l] = lane[l])
  BY DEF Inv, TypeOK
<1> QED
  BY <1>1, OtherLane

LEMMA ThrowOK ==
  ASSUME Inv, [Next]_vars, NEW m \in Lanes, lane' = [lane EXCEPT ![m] = Idle], NEW l \in Lanes
  PROVE  LaneOK(l)'
  BY LaneRests, LaneWritten

LEMMA NextItemOK ==
  ASSUME Inv, [Next]_vars, NEW m \in Lanes, NEW t, NEW d, NEW u, NextItem(m, t, d, u),
         lane[m].pc # "idle", NEW l \in Lanes
  PROVE  LaneOK(l)'
<1> DEFINE s == lane[m]
<1> DEFINE r == [s EXCEPT !.pc = "items", !.todo = s.todo \ {t}, !.code = NoCode,
                          !.deferred = s.deferred \/ d, !.unresolved = s.unresolved \/ u]
<1>1. s \in LaneState
  BY DEF Inv, TypeOK
<1>2. r.pc = "items" /\ r.order = s.order /\ r.todo \subseteq s.todo
  BY <1>1 DEF LaneState
<1>3. lane'[m] = r => LaneOK(m)'
  BY <1>2, LaneCarries
<1> QED
  BY <1>3, LaneWritten DEF NextItem

LEMMA LanesStep ==
  ASSUME Inv, [Next]_vars, NEW l \in Lanes
  PROVE  LaneOK(l)'
<1>0. lane \in [Lanes -> LaneState]
  BY DEF Inv, TypeOK
<1>1. ASSUME NEW m \in Lanes, Claim(m) PROVE LaneOK(l)'
  <2> PICK k \in DOMAIN paidLine : Claim(m)!2!(k)
    BY <1>1 DEF Claim
  <2> DEFINE r == [lane[m] EXCEPT !.pc = "claimed", !.order = paidLine[k]]
  <2>1. lane[m] \in LaneState /\ lane[m].pc = "idle"
    BY <1>0, <1>1 DEF Claim
  <2>2. paidLine[k] \in Orders
    BY DEF Inv, TypeOK
  <2>3. lane[m].todo = {}
    <3>1. lane[m].order = NoOrder
      BY <2>1 DEF Inv, LanesInv, LaneOK
    <3>2. ASSUME NEW t \in lane[m].todo PROVE FALSE
      <4>1. OrderOf[t.item] \in Orders
        BY <1>0, TodoType, ConstantsAssumption
      <4>2. OrderOf[t.item] = NoOrder
        BY <3>1 DEF Inv, LanesInv, LaneOK
      <4> QED
        BY <4>1, <4>2, ConstantsAssumption
    <3> QED
      BY <3>2
  <2>4. r.pc = "claimed" /\ r.order \in Orders /\ r.todo = {}
    BY <2>1, <2>2, <2>3 DEF LaneState
  <2>5. r.order # NoOrder
    BY <2>4, ConstantsAssumption
  <2>6. lane'[m] = r => LaneOK(m)'
    BY <2>4, <2>5 DEF LaneOK
  <2> QED
    BY <2>6, LaneWritten
<1>2. ASSUME NEW m \in Lanes, ReadItems(m) PROVE LaneOK(l)'
  <2> DEFINE copy == {[item |-> i, seen |-> itemStatus[i]] :
                        i \in {j \in ItemsOf(lane[m].order) : itemStatus[j] \in Open}}
  <2> DEFINE r == [lane[m] EXCEPT !.pc = "items", !.todo = copy]
  <2>1. /\ lane[m].pc = "claimed" /\ lane' = [lane EXCEPT ![m] = r]
        /\ itemStatus' = itemStatus
    BY <1>2 DEF ReadItems, tables
  <2>2. lane[m].order # NoOrder
    BY <2>1 DEF Inv, LanesInv, LaneOK
  <2>3. r.pc = "items" /\ r.order = lane[m].order /\ r.todo = copy
    BY <1>0 DEF LaneState
  <2>4. \A t \in copy : /\ OrderOf[t.item] = lane[m].order
                        /\ t.seen = "refunding" => itemStatus[t.item] = "refunding"
    BY DEF ItemsOf
  <2>5. lane'[m] = r => LaneOK(m)'
    <3> HIDE DEF copy, r
    <3> QED
      BY <2>1, <2>2, <2>3, <2>4 DEF LaneOK
  <2> QED
    BY <2>1, <2>5, LaneWritten
<1>3. ASSUME NEW m \in Lanes, Issued(m) PROVE LaneOK(l)'
  <2> PICK t \in lane[m].todo, c \in Codes : Issued(m)!(t, c)
    BY <1>3 DEF Issued
  <2> DEFINE r == [lane[m] EXCEPT !.pc = "complete", !.code = c]
  <2>1. /\ r.pc = "complete" /\ r.order = lane[m].order /\ r.todo = lane[m].todo
        /\ r.code = c
    BY <1>0 DEF LaneState
  <2>2. lane'[m] = r => LaneOK(m)'
    BY <2>1, LaneCarries
  <2> QED
    BY <2>2, LaneWritten
<1>4. ASSUME NEW m \in Lanes, Refused(m) PROVE LaneOK(l)'
  <2> DEFINE r == [lane[m] EXCEPT !.pc = "refuse"]
  <2>1. lane[m].pc = "items" /\ lane' = [lane EXCEPT ![m] = r]
    BY <1>4 DEF Refused
  <2>2. r.pc = "refuse" /\ r.order = lane[m].order /\ r.todo = lane[m].todo
    BY <1>0 DEF LaneState
  <2>3. lane'[m] = r => LaneOK(m)'
    BY <2>1, <2>2, LaneCarries
  <2> QED
    BY <2>1, <2>3, LaneWritten
<1>5. ASSUME NEW m \in Lanes, NoAnswer(m) PROVE LaneOK(l)'
  <2>1. \E t, d, u : lane[m].pc = "items" /\ NextItem(m, t, d, u)
    BY <1>5 DEF NoAnswer
  <2> QED
    BY <2>1, NextItemOK
<1>6. ASSUME NEW m \in Lanes, Complete(m) PROVE LaneOK(l)'
  <2> DEFINE r == [lane[m] EXCEPT !.pc = "items", !.code = NoCode]
  <2>1. /\ lane[m].pc = "complete"
        /\ \/ \E t : NextItem(m, t, FALSE, FALSE)
           \/ lane' = [lane EXCEPT ![m] = r]
           \/ lane' = [lane EXCEPT ![m] = Idle]
    BY <1>6 DEF Complete, Throw
  <2>2. r.pc = "items" /\ r.order = lane[m].order /\ r.todo = lane[m].todo
    BY <1>0 DEF LaneState
  <2>3. lane'[m] = r => LaneOK(m)'
    BY <2>1, <2>2, LaneCarries
  <2> QED
    BY <2>1, <2>3, LaneWritten, NextItemOK, ThrowOK
<1>7. ASSUME NEW m \in Lanes, DecideRefund(m) PROVE LaneOK(l)'
  <2> DEFINE r == [lane[m] EXCEPT !.pc = "refund"]
  <2> PICK t \in lane[m].todo : DecideRefund(m)!(t)
    BY <1>7 DEF DecideRefund
  <2>1. CASE Throw(m)
    BY <2>1, ThrowOK DEF Throw
  <2>2. CASE /\ itemStatus' = [itemStatus EXCEPT ![t.item] = "refunding"]
             /\ lane' = [lane EXCEPT ![m] = r]
    <3>1. /\ r.pc = "refund" /\ r.order = lane[m].order /\ r.todo = lane[m].todo
          /\ t.item \in Items /\ itemStatus'[t.item] = "refunding"
      BY <1>0, <2>2, TodoType DEF LaneState, Inv, TypeOK
    <3>2. ASSUME NEW u \in r.todo, lane'[m] = r, At(m, u)'
          PROVE  u.item = t.item
      <4>1. At(m, u)
        BY <3>1, <3>2 DEF At
      <4> QED
        BY <4>1, AtUnique
    <3>3. ASSUME NEW u \in r.todo
          PROVE  /\ OrderOf[u.item] = lane[m].order
                 /\ u.seen = "refunding" => itemStatus'[u.item] \in {"refunding", "refunded"}
      <4>1. /\ OrderOf[u.item] = lane[m].order /\ u.item \in Items
            /\ u.seen = "refunding" => itemStatus[u.item] \in {"refunding", "refunded"}
        BY <1>0, <3>1, TodoType DEF Inv, LanesInv, LaneOK
      <4> QED
        BY <4>1, DecisionsStep DEF DecisionsHold
    <3>4. lane[m].order # NoOrder
      BY DEF Inv, LanesInv, LaneOK
    <3>5. lane'[m] = r => LaneOK(m)'
      <4> HIDE DEF r
      <4> QED
        BY <3>1, <3>2, <3>3, <3>4 DEF LaneOK
    <3> QED
      BY <2>2, <3>5, LaneWritten
  <2> QED
    BY <2>1, <2>2
<1>8. ASSUME NEW m \in Lanes, PspRefunds(m) PROVE LaneOK(l)'
  <2> DEFINE r == [lane[m] EXCEPT !.pc = "book"]
  <2> PICK t \in lane[m].todo : PspRefunds(m)!(t)
    BY <1>8 DEF PspRefunds
  <2>1. /\ r.pc = "book" /\ r.order = lane[m].order /\ r.todo = lane[m].todo
        /\ t.item \in pspRefunds' /\ lane[m].pc # "idle" /\ At(m, t)
    BY <1>0 DEF LaneState, RefundDue
  <2>2. ASSUME NEW u \in r.todo, lane'[m] = r, At(m, u)'
        PROVE  u.item = t.item
    <3>1. At(m, u)
      BY <2>1, <2>2 DEF At
    <3> QED
      BY <2>1, <3>1, AtUnique
  <2>3. ASSUME NEW u \in r.todo
        PROVE  /\ OrderOf[u.item] = lane[m].order
               /\ u.seen = "refunding" => itemStatus'[u.item] \in {"refunding", "refunded"}
    <3>1. /\ OrderOf[u.item] = lane[m].order /\ u.item \in Items
          /\ u.seen = "refunding" => itemStatus[u.item] \in {"refunding", "refunded"}
      BY <1>0, <2>1, TodoType DEF Inv, LanesInv, LaneOK
    <3> QED
      BY <3>1, DecisionsStep DEF DecisionsHold
  <2>4. lane[m].order # NoOrder
    BY <2>1 DEF Inv, LanesInv, LaneOK
  <2>5. lane'[m] = r => LaneOK(m)'
    <3> HIDE DEF r
    <3> QED
      BY <2>1, <2>2, <2>3, <2>4 DEF LaneOK
  <2> QED
    BY <2>5, LaneWritten
<1>9. ASSUME NEW m \in Lanes, PspFails(m) PROVE LaneOK(l)'
  <2>1. \E t, d, u : lane[m].pc # "idle" /\ NextItem(m, t, d, u)
    BY <1>9 DEF PspFails, RefundDue
  <2> QED
    BY <2>1, NextItemOK
<1>10. ASSUME NEW m \in Lanes, BookRefund(m) PROVE LaneOK(l)'
  <2>1. /\ lane[m].pc # "idle"
        /\ \/ \E t : NextItem(m, t, FALSE, FALSE)
           \/ lane' = [lane EXCEPT ![m] = Idle]
    BY <1>10 DEF BookRefund, Throw
  <2> QED
    BY <2>1, NextItemOK, ThrowOK
<1>11. ASSUME NEW m \in Lanes, ReadVerdict(m) PROVE LaneOK(l)'
  <2> DEFINE r == [lane[m] EXCEPT !.pc = "verdict", !.verdict = Verdict(m)]
  <2> DEFINE o == lane[m].order
  <2>1. /\ lane' = [lane EXCEPT ![m] = r] /\ itemStatus' = itemStatus
        /\ lane[m].todo = {} /\ o # NoOrder
    BY <1>11 DEF ReadVerdict, tables, Inv, LanesInv, LaneOK
  <2>2. /\ Verdict(m) \in {"paid", "delivery_failed"} \cup Settled
        /\ Verdict(m) \in Settled => OpenItems(o) = {} /\ Verdict(m) = SettledAs(o)
    BY DEF Verdict, SettledAs
  <2>3. r.pc = "verdict" /\ r.order = o /\ r.todo = {} /\ r.verdict = Verdict(m)
    BY <1>0, <2>1 DEF LaneState
  <2>4. lane'[m] = r => LaneOK(m)'
    <3> HIDE DEF r
    <3> QED
      BY <2>1, <2>2, <2>3 DEF LaneOK, OpenItems, SettledAs, ItemsOf
  <2> QED
    BY <2>1, <2>4, LaneWritten
<1>12. ASSUME NEW m \in Lanes, Finish(m) \/ Abandon(m) PROVE LaneOK(l)'
  <2>1. lane' = [lane EXCEPT ![m] = Idle]
    BY <1>12 DEF Finish, Abandon, Throw
  <2> QED
    BY <2>1, ThrowOK
<1>13. ASSUME \/ \E e \in Events : Webhook(e)
              \/ \E o \in Orders : SlotOpens(o) \/ RetryDelivery(o)
              \/ \E old \in SUBSET Orders : SweepSelects(old)
              \/ SweepMoves
              \/ UNCHANGED vars
       PROVE  LaneOK(l)'
  <2>1. lane' = lane
    BY <1>13 DEF Webhook, SlotOpens, RetryDelivery, SweepSelects, SweepMoves, vars
  <2> QED
    BY <2>1, OtherLane
<1> QED
  BY <1>1, <1>2, <1>3, <1>4, <1>5, <1>6, <1>7, <1>8, <1>9, <1>10, <1>11, <1>12, <1>13
     DEF Next, Works

------------------------------------------------------------------------------
(* The invariant and what follows from it.                                 *)

LEMMA InvInit == Init => Inv
<1> SUFFICES ASSUME Init PROVE Inv
  OBVIOUS
<1>1. TypeOK
  BY TypeInit
<1>2. RowsInv
  BY DEF Init, RowsInv
<1>3. LanesInv
  BY DEF Init, LanesInv, LaneOK, Idle
<1>4. NeverCodeAndMoney /\ BooksBalance
  BY DEF Init, NeverCodeAndMoney, BooksBalance
<1>5. FinalMeansSettled
  BY DEF Init, FinalMeansSettled
<1>6. UnpaidUntouched
  BY ConstantsAssumption DEF Init, UnpaidUntouched, Held, Idle, ItemsOf
<1> QED
  BY <1>1, <1>2, <1>3, <1>4, <1>5, <1>6 DEF Inv

LEMMA InvNext == Inv /\ [Next]_vars => Inv'
<1> SUFFICES ASSUME Inv, [Next]_vars PROVE Inv'
  OBVIOUS
<1>1. TypeOK'
  BY TypeNext DEF Inv
<1>2. LanesInv'
  BY LanesStep DEF LanesInv
<1> QED
  BY <1>1, <1>2, RowsStep, MoneyStep, FinalStep, BooksStep, UnpaidStep DEF Inv

\* The inductive invariant holds in every reachable state.
THEOREM InvCorrect == Spec => []Inv
  BY InvInit, InvNext, PTL DEF Spec

\* No interleaving of lanes, sweeps, crashes and lost answers gives a
\* customer a code and the money for the same unit.
THEOREM NoCodeAndMoney == Spec => []NeverCodeAndMoney
<1>1. Inv => NeverCodeAndMoney
  BY DEF Inv
<1> QED
  BY <1>1, InvCorrect, PTL

\* An order in a final status owes nothing and says what its items say,
\* although the sweep may take it out of that status again.
THEOREM FinalIsTrue == Spec => []FinalMeansSettled
<1>1. Inv => FinalMeansSettled
  BY DEF Inv
<1> QED
  BY <1>1, InvCorrect, PTL

\* The ledger agrees with the orders and the items after every statement.
THEOREM BooksAlwaysBalance == Spec => []BooksBalance
<1>1. Inv => BooksBalance
  BY DEF Inv
<1> QED
  BY <1>1, InvCorrect, PTL

\* An order nobody paid for is never held, swept or delivered.
THEOREM NothingForUnpaid == Spec => []UnpaidUntouched
<1>1. Inv => UnpaidUntouched
  BY DEF Inv
<1> QED
  BY <1>1, InvCorrect, PTL

\* A settlement is never revised, nor a decided refund turned into a code.
THEOREM DecisionsNeverRevised == Spec => DecisionsStand
<1>1. Inv /\ [Next]_vars => DecisionsHold
  BY DecisionsStep
<1>2. Inv /\ [Next]_vars => [DecisionsHold]_vars
  BY <1>1
<1> QED
  BY <1>2, InvInit, InvNext, PTL DEF Spec, DecisionsStand

------------------------------------------------------------------------------
(* The detailed specification keeps the promise of Settlement.             *)

paidOrders == {o \in Orders : orderStatus[o] \notin Unpaid}
promised == [i \in Items |-> PromisedOutcome(i)]

LEMMA PaidOrdersStep ==
  ASSUME Inv, [Next]_vars
  PROVE  paidOrders' = paidOrders \/ \E o \in Orders : paidOrders' = paidOrders \cup {o}
<1>0. orderStatus \in [Orders -> OrderStatus]
  BY DEF Inv, TypeOK
<1>1. CASE PaymentsKept
  BY <1>1, PaidStays DEF PaymentsKept, paidOrders
<1>2. ASSUME NEW e \in Events, Webhook(e)
      PROVE  paidOrders' = paidOrders \/ \E o \in Orders : paidOrders' = paidOrders \cup {o}
  <2>1. \/ orderStatus' = orderStatus
        \/ /\ EventOrder[e] \in Orders /\ orderStatus[EventOrder[e]] = "created"
           /\ \/ orderStatus' = [orderStatus EXCEPT ![EventOrder[e]] = "payment_failed"]
              \/ orderStatus' = [orderStatus EXCEPT ![EventOrder[e]] = "paid"]
    BY <1>2, WebhookEffect
  <2>2. CASE orderStatus' = orderStatus
    BY <2>2 DEF paidOrders
  <2>3. CASE /\ EventOrder[e] \in Orders /\ orderStatus[EventOrder[e]] = "created"
             /\ orderStatus' = [orderStatus EXCEPT ![EventOrder[e]] = "payment_failed"]
    BY <1>0, <2>3 DEF paidOrders
  <2>4. CASE /\ EventOrder[e] \in Orders /\ orderStatus[EventOrder[e]] = "created"
             /\ orderStatus' = [orderStatus EXCEPT ![EventOrder[e]] = "paid"]
    <3>1. paidOrders' = paidOrders \cup {EventOrder[e]}
      BY <1>0, <2>4 DEF paidOrders
    <3> QED
      BY <2>4, <3>1
  <2> QED
    BY <2>1, <2>2, <2>3, <2>4
<1> QED
  BY <1>1, <1>2, OnlyWebhooksPay

LEMMA GivesKeepsPromise ==
  ASSUME Inv, [Next]_vars, NEW l \in Lanes, NEW t \in lane[l].todo, Gives(l, t)
  PROVE  Promise!GiveCode(t.item, lane[l].code)
<1> DEFINE i == t.item
           c == lane[l].code
<1>1. /\ i \in Items /\ OrderOf[i] \in paidOrders /\ paidOrders' = paidOrders
      /\ deliveries \in [Items -> Codes \cup {NoCode}] /\ c \in Codes /\ c # NoCode
  BY AtItem, ConstantsAssumption DEF Gives, paidOrders, Inv, TypeOK, LanesInv, LaneOK
<1>2. /\ i \notin pspRefunds /\ deliveries[i] = NoCode
      /\ \A j \in Items : deliveries[j] # c
  BY <1>1 DEF Gives, Completes, TakenCode, Inv, NeverCodeAndMoney
<1>3. promised[i] = <<"owed">>
  BY <1>1, <1>2 DEF promised, PromisedOutcome
<1>4. \A j \in Items : promised[j] # <<"code", c>>
  BY <1>1, <1>2 DEF promised, PromisedOutcome
<1>5. promised' = [promised EXCEPT ![i] = <<"code", c>>]
  BY <1>1, <1>2 DEF Gives, promised, PromisedOutcome
<1> QED
  BY <1>1, <1>3, <1>4, <1>5 DEF Promise!GiveCode, Promise!Owed, Promise!Code, paidOrders, promised

LEMMA PaysBackKeepsPromise ==
  ASSUME Inv, [Next]_vars, NEW l \in Lanes, NEW t \in lane[l].todo, PaysBack(l, t)
  PROVE  Promise!GiveMoney(t.item) \/ UNCHANGED <<paidOrders, promised>>
<1> DEFINE i == t.item
<1>1. lane[l].pc # "idle"
  BY DEF PaysBack, RefundDue
<1>2. i \in Items /\ OrderOf[i] \in paidOrders /\ paidOrders' = paidOrders
  BY <1>1, AtItem DEF PaysBack, paidOrders
<1>3. CASE i \in pspRefunds
  BY <1>2, <1>3 DEF PaysBack, promised, PromisedOutcome
<1>4. CASE i \notin pspRefunds
  <2>1. itemStatus[i] \in {"refunding", "refunded"}
    BY RefundIsDecided DEF PaysBack
  <2>2. itemStatus[i] = "refunding" /\ deliveries[i] = NoCode
    BY <1>2, <1>4, <2>1 DEF Inv, NeverCodeAndMoney, BooksBalance
  <2>3. promised[i] = <<"owed">>
    BY <1>2, <1>4, <2>2 DEF promised, PromisedOutcome
  <2>4. promised' = [promised EXCEPT ![i] = <<"money">>]
    BY <1>2 DEF PaysBack, promised, PromisedOutcome
  <2> QED
    BY <1>2, <2>3, <2>4 DEF Promise!GiveMoney, Promise!Owed, Promise!Money, paidOrders, promised
<1> QED
  BY <1>3, <1>4

LEMMA PromiseInit == Init => Promise!Init
  BY DEF Init, Promise!Init, Promise!Owed, PromisedOutcome

LEMMA PromiseNext == Inv /\ [Next]_vars => [Promise!Next]_(Promise!vars)
<1> SUFFICES ASSUME Inv, [Next]_vars PROVE Promise!Next \/ UNCHANGED <<paidOrders, promised>>
  BY DEF Promise!vars, paidOrders, promised
<1>1. CASE ItemsKept
  <2>1. promised' = promised
    BY <1>1 DEF ItemsKept, promised, PromisedOutcome
  <2>2. ASSUME NEW o \in Orders, paidOrders' = paidOrders \cup {o} PROVE Promise!Next
    BY <2>1, <2>2 DEF Promise!Next, Promise!Pay, paidOrders, promised
  <2> QED
    BY <2>1, <2>2, PaidOrdersStep
<1>2. ASSUME NEW l \in Lanes, NEW t \in lane[l].todo, Gives(l, t) PROVE Promise!Next
  <2>1. t.item \in Items /\ lane[l].code \in Codes
    BY <1>2, AtItem DEF Gives, Inv, LanesInv, LaneOK
  <2> QED
    BY <1>2, <2>1, GivesKeepsPromise DEF Promise!Next, Promise!Settle
<1>3. ASSUME NEW l \in Lanes, NEW t \in lane[l].todo, PaysBack(l, t)
      PROVE  Promise!Next \/ UNCHANGED <<paidOrders, promised>>
  <2>1. t.item \in Items
    BY <1>3, AtItem DEF PaysBack, RefundDue
  <2> QED
    BY <1>3, <2>1, PaysBackKeepsPromise DEF Promise!Next, Promise!Settle
<1>4. ASSUME NEW l \in Lanes, NEW t \in lane[l].todo, Decides(l, t) \/ BooksIt(l, t)
      PROVE  UNCHANGED <<paidOrders, promised>>
  BY <1>4 DEF Decides, BooksIt, paidOrders, promised, PromisedOutcome
<1> QED
  BY <1>1, <1>2, <1>3, <1>4, ItemEffects

\* Every behaviour of the detailed specification is one of the promise:
\* each unit of a paid order is settled once, with a code of its own or
\* with its money.
THEOREM PromiseKept == Spec => KeepsPromise
<1>1. Init => Promise!Init
  BY PromiseInit
<1>2. Inv /\ [Next]_vars => [Promise!Next]_(Promise!vars)
  BY PromiseNext
<1> QED
  BY <1>1, <1>2, InvInit, InvNext, PTL DEF Spec, KeepsPromise, Promise!Spec

\* All units of an order are settled, and add up to a verdict.
Concluded(o, v) == OpenItems(o) = {} /\ SettledAs(o) = v

LEMMA ConcludedStays ==
  ASSUME NEW o \in Orders, NEW v, Inv, Concluded(o, v), [Next]_vars
  PROVE  Concluded(o, v)'
BY SettledStays DEF Concluded

\* Whatever reopens a final order, the customer is never told otherwise than
\* before (requeue, finish).
THEOREM VerdictsStand == Spec => VerdictStands
<1>1. ASSUME NEW o \in Orders, NEW v \in Settled
      PROVE  Spec => [](orderStatus[o] = v =>
                        [](orderStatus[o] \in Settled => orderStatus[o] = v))
  <2>1. Inv /\ orderStatus[o] = v => Concluded(o, v)
    BY DEF Inv, FinalMeansSettled, Concluded
  <2>2. Inv /\ Concluded(o, v) => (orderStatus[o] \in Settled => orderStatus[o] = v)
    BY DEF Inv, FinalMeansSettled, Concluded
  <2>3. Inv /\ Concluded(o, v) /\ [Next]_vars => Concluded(o, v)'
    BY ConcludedStays
  <2> QED
    BY <2>1, <2>2, <2>3, InvCorrect, PTL DEF Spec
<1> QED
  BY <1>1 DEF VerdictStands
=============================================================================
