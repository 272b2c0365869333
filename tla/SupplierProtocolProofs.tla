----------------------- MODULE SupplierProtocolProofs -----------------------
(***************************************************************************)
(* What SupplierProtocol guarantees for every number of units, suppliers,  *)
(* keys, rounds and attempts.                                              *)
(*                                                                         *)
(* ChainInv is inductive under every disturbance: it ties the open         *)
(* question in the tables to the supplier the pass is talking to.          *)
(* HoldInv is inductive when the untraced disturbances do not happen: it   *)
(* bounds the suppliers that hold, or may yet book, a code for a unit.     *)
(***************************************************************************)
EXTENDS SupplierProtocol, TLAPS

Busy == {"ask", "record", "lookup", "verify", "complete"}

Current(i, s) == <<i, s, Round(i, s)>>

\* The pass over i and the open question of i agree.
QuestionOK(i) ==
  LET p == pass[i] IN
    /\ \A s, t \in open[i] : s = t
    /\ \A s \in open[i] : Round(i, s) <= MaxRounds
    /\ \A s, t \in p.doubt : s = t
    /\ p.pc = "turn" => open[i] \subseteq p.doubt /\ open[i] \subseteq p.left
    /\ p.pc \in Busy => open[i] \subseteq {p.at}
    /\ p.pc \in {"ask", "record"} /\ open[i] # {} => p.unknown
    /\ itemStatus[i] = "refunding" => open[i] = {}

\* The pass over i works on a pending unit, under a request_id that exists,
\* and what it is about to deliver is booked.
PassOK(i) ==
  LET p == pass[i] IN
    /\ p.pc # "idle" => itemStatus[i] = "pending"
    /\ p.pc \in Busy => p.at \in Suppliers /\ Round(i, p.at) <= MaxRounds
    /\ p.pc = "complete" => p.code = book[Req(i)] /\ p.code # NoCode

\* A unit holds a code exactly when it is delivered, and it is the booked one.
DeliveryOK(i) ==
  /\ deliveries[i] # NoCode <=> itemStatus[i] = "delivered"
  /\ itemStatus[i] = "delivered" =>
       /\ source[i] \in Suppliers
       /\ Round(i, source[i]) <= MaxRounds
       /\ deliveries[i] = book[Current(i, source[i])]

DistinctCodes ==
  \A i, j \in Items : i # j /\ deliveries[i] # NoCode => deliveries[i] # deliveries[j]

ChainInv ==
  /\ TypeOK
  /\ \A i \in Items : QuestionOK(i)
  /\ \A i \in Items : PassOK(i)
  /\ \A i \in Items : DeliveryOK(i)
  /\ DistinctCodes

\* A request given up on that may still be booked, and counts.
MayBook(i, s) == /\ Round(i, s) <= MaxRounds
                 /\ Current(i, s) \in flight
                 /\ free[s] # {}

MayHold(i) == {s \in Suppliers : s \in Holders(i) \/ MayBook(i, s)}

\* No request of a round still to come has been sent.
RoundsOK(i) ==
  \A s \in Suppliers, n \in 1..MaxRounds :
    n > Round(i, s) => book[<<i, s, n>>] = NoCode /\ <<i, s, n>> \notin flight

\* Who may hold a code for i, by where the pass is.
HoldOK(i) ==
  LET p == pass[i] IN
    /\ itemStatus[i] = "pending" /\ p.pc \in {"idle", "turn", "ask"}
         => MayHold(i) \subseteq open[i]
    /\ p.pc \in Busy => MayHold(i) \subseteq {p.at}
    /\ p.pc = "record" /\ p.answer = "unreachable" => MayHold(i) \subseteq open[i]
    /\ p.pc = "record" /\ p.answer = "out_of_stock" => MayHold(i) = {}
    /\ itemStatus[i] = "delivered" => MayHold(i) \subseteq {source[i]}
    /\ itemStatus[i] = "refunding" => MayHold(i) = {}

\* During a pass, only a timeout of this very pass can have left a request
\* in flight, with the supplier being asked, and the pass knows it.
FlightOK(i) ==
  LET p == pass[i] IN
    /\ p.pc \in {"ask", "record"} /\ p.sawTimeout => p.unknown
    /\ p.pc # "idle" => \A s \in Suppliers : MayBook(i, s) =>
         /\ p.pc \in Busy /\ p.at = s /\ s \notin p.doubt
         /\ p.sawTimeout \/ (p.pc = "record" /\ p.answer = "timeout")

HoldInv == \A i \in Items : RoundsOK(i) /\ HoldOK(i) /\ FlightOK(i)

------------------------------------------------------------------------------
(* Types.                                                                  *)

LEMMA IdleType == Idle \in PassState
BY SupplierAssumption DEF Idle, PassState, PC, Answers

LEMMA AskingType ==
  ASSUME NEW p \in PassState, NEW s \in Suppliers
  PROVE  Asking(p, s) \in PassState
<1>1. /\ 1 \in 1..MaxAttempts /\ "ask" \in PC /\ "none" \in Answers
      /\ p.left \ {s} \in SUBSET Suppliers
      /\ (s \in p.doubt) \in BOOLEAN
  BY SupplierAssumption DEF PassState, PC, Answers
<1> QED
  BY <1>1 DEF Asking, PassState

LEMMA StartType ==
  ASSUME NEW d \in SUBSET Suppliers
  PROVE  [Idle EXCEPT !.pc = "turn", !.left = Suppliers, !.doubt = d] \in PassState
<1>1. "turn" \in PC /\ Suppliers \in SUBSET Suppliers
  BY DEF PC
<1> QED
  BY <1>1, IdleType DEF PassState

LEMMA PcType ==
  ASSUME NEW p \in PassState, NEW c \in PC
  PROVE  [p EXCEPT !.pc = c] \in PassState
BY DEF PassState

LEMMA SkipType ==
  ASSUME NEW p \in PassState, NEW s
  PROVE  [p EXCEPT !.left = @ \ {s}] \in PassState
BY DEF PassState

LEMMA AnsweredType ==
  ASSUME NEW p \in PassState, NEW a \in Answers, NEW c \in Codes \cup {NoCode}
  PROVE  [p EXCEPT !.pc = "record", !.answer = a, !.code = c] \in PassState
BY DEF PassState, PC

LEMMA CompleteType ==
  ASSUME NEW p \in PassState, NEW c \in Codes \cup {NoCode}
  PROVE  [p EXCEPT !.pc = "complete", !.code = c] \in PassState
BY DEF PassState, PC

\* What RecordNoAnswer notes before it decides how to go on.
Noted(p) == [p EXCEPT !.unknown = @ \/ p.answer # "unreachable",
                      !.sawTimeout = @ \/ p.answer = "timeout"]

LEMMA NotedType ==
  ASSUME NEW p \in PassState
  PROVE  /\ Noted(p) \in PassState
         /\ Noted(p).pc = p.pc /\ Noted(p).at = p.at /\ Noted(p).left = p.left
         /\ Noted(p).doubt = p.doubt /\ Noted(p).attempt = p.attempt
         /\ Noted(p).answer = p.answer /\ Noted(p).code = p.code
         /\ Noted(p).unknown = (p.unknown \/ p.answer # "unreachable")
         /\ Noted(p).sawTimeout = (p.sawTimeout \/ p.answer = "timeout")
BY DEF Noted, PassState

LEMMA AgainType ==
  ASSUME NEW p \in PassState, p.attempt < MaxAttempts
  PROVE  [p EXCEPT !.pc = "ask", !.attempt = @ + 1] \in PassState
<1>1. p.attempt \in 1..MaxAttempts
  BY DEF PassState
<1>2. p.attempt + 1 \in 1..MaxAttempts
  BY <1>1, SupplierAssumption
<1> QED
  BY <1>2 DEF PassState, PC

\* A pass is moved, and no other one.
LEMMA MovesEffect ==
  ASSUME NEW i \in Items, NEW p \in PassState,
         pass \in [Items -> PassState], Moves(i, p)
  PROVE  /\ pass' \in [Items -> PassState]
         /\ pass'[i] = p
         /\ \A j \in Items : j # i => pass'[j] = pass[j]
BY DEF Moves

LEMMA DisturbType ==
  ASSUME TypeOK, NEW k, Disturb(k)
  PROVE  trouble' \in TroubleState
BY SupplierAssumption DEF TypeOK, TroubleState, Disturb

------------------------------------------------------------------------------
(* What the steps have in common.                                          *)

\* At most the request r is booked, and nothing booked is changed.
BooksOnly(r) ==
  /\ book' \in [Requests -> Codes \cup {NoCode}]
  /\ free' \in [Suppliers -> SUBSET Codes]
  /\ \A q \in Requests : q # r \/ book[q] # NoCode => book'[q] = book[q]
  /\ \A s \in Suppliers : free'[s] \subseteq free[s]

LEMMA ReserveBooks ==
  ASSUME TypeOK, NEW r \in Requests, Reserve(r)
  PROVE  /\ BooksOnly(r)
         /\ book'[r] \in Codes
         /\ book[r] = NoCode => free[r[2]] # {}
<1>1. r[2] \in Suppliers
  BY DEF Requests
<1>2. CASE book[r] # NoCode /\ UNCHANGED <<book, free>>
  BY <1>2 DEF TypeOK, BooksOnly
<1>3. CASE book[r] = NoCode /\ \E c \in free[r[2]] :
             /\ book' = [book EXCEPT ![r] = c]
             /\ free' = [free EXCEPT ![r[2]] = @ \ {c}]
  <2>1. PICK c \in free[r[2]] : /\ book' = [book EXCEPT ![r] = c]
                                /\ free' = [free EXCEPT ![r[2]] = @ \ {c}]
    BY <1>3
  <2>2. c \in Codes
    BY <1>1, <2>1 DEF TypeOK
  <2>3. book' \in [Requests -> Codes \cup {NoCode}] /\ book'[r] = c
    BY <2>1, <2>2 DEF TypeOK
  <2>4. free' \in [Suppliers -> SUBSET Codes]
    BY <1>1, <2>1 DEF TypeOK
  <2>5. \A q \in Requests : q # r \/ book[q] # NoCode => book'[q] = book[q]
    BY <1>3, <2>1 DEF TypeOK
  <2>6. \A s \in Suppliers : free'[s] \subseteq free[s]
    BY <1>1, <2>1 DEF TypeOK
  <2> QED
    BY <1>3, <2>1, <2>2, <2>3, <2>4, <2>5, <2>6 DEF BooksOnly
<1> QED
  BY <1>2, <1>3 DEF Reserve

LEMMA BookTwiceBooks ==
  ASSUME TypeOK, NEW r \in Requests, BookTwice(r)
  PROVE  BooksOnly(r) /\ book'[r] \in Codes \cup {NoCode}
<1>1. PICK q \in Requests : book' = [book EXCEPT ![r] = book[q]]
  BY DEF BookTwice
<1>2. book' \in [Requests -> Codes \cup {NoCode}] /\ book'[r] = book[q]
  BY <1>1 DEF TypeOK
<1>3. book[r] = NoCode /\ free' = free
  BY DEF BookTwice
<1>4. \A x \in Requests : x # r \/ book[x] # NoCode => book'[x] = book[x]
  BY <1>1, <1>3 DEF TypeOK
<1> QED
  BY <1>2, <1>3, <1>4 DEF BooksOnly, TypeOK

LEMMA NothingBooked ==
  ASSUME TypeOK, NEW r, UNCHANGED <<book, free>>
  PROVE  BooksOnly(r)
BY DEF TypeOK, BooksOnly

LEMMA ReqType ==
  ASSUME TypeOK, NEW i \in Items, PassOK(i), pass[i].pc \in Busy
  PROVE  /\ Req(i) \in Requests
         /\ pass[i].at \in Suppliers
         /\ Req(i)[1] = i /\ Req(i)[2] = pass[i].at
         /\ Round(i, pass[i].at) \in 1..MaxRounds
         /\ rejected[i][pass[i].at] \in 0..MaxRounds
         /\ Req(i) = Current(i, pass[i].at)
<1>1. pass[i].at \in Suppliers /\ Round(i, pass[i].at) <= MaxRounds
  BY DEF PassOK
<1>2. rejected[i][pass[i].at] \in 0..MaxRounds
  BY <1>1 DEF TypeOK
<1>3. Round(i, pass[i].at) \in 1..MaxRounds
  BY <1>1, <1>2, SupplierAssumption DEF Round
<1> QED
  BY <1>1, <1>2, <1>3 DEF Req, Requests, Current

\* Any answer to a request that is being asked.
AskStep(i) ==
  /\ pass[i].pc = "ask"
  /\ UNCHANGED tables
  /\ BooksOnly(Req(i))
  /\ flight' \in {flight, flight \cup {Req(i)}}
  /\ \E a \in Answers, c \in Codes \cup {NoCode} : Answered(i, a, c)
  /\ trouble' \in TroubleState

\* The pass ends and changes nothing.
DropStep(i) ==
  /\ pass[i].pc # "idle"
  /\ UNCHANGED <<tables, suppliersSide>>
  /\ Ends(i)
  /\ trouble' \in TroubleState

LEMMA AsksAre ==
  ASSUME TypeOK, NEW i \in Items, PassOK(i),
         \/ Issues(i) \/ OutOfStock(i) \/ Fails(i) \/ TooLate(i) \/ LeftInFlight(i)
         \/ Unreachable(i) \/ AnswersForeign(i) \/ AnswersBookedTwice(i)
  PROVE  AskStep(i)
<1> DEFINE Some == \E a \in Answers, c \in Codes \cup {NoCode} : Answered(i, a, c)
<1>1. pass[i].pc = "ask" /\ UNCHANGED tables
  BY DEF Issues, OutOfStock, Fails, TooLate, LeftInFlight, Unreachable,
         AnswersForeign, AnswersBookedTwice
<1>2. Req(i) \in Requests
  BY <1>1, ReqType DEF Busy
<1>3. trouble' \in TroubleState
  BY DisturbType DEF Issues, OutOfStock, Fails, TooLate, LeftInFlight, Unreachable,
         AnswersForeign, AnswersBookedTwice, TypeOK
<1>4. flight' \in {flight, flight \cup {Req(i)}}
  BY DEF Issues, OutOfStock, Fails, TooLate, LeftInFlight, Unreachable,
         AnswersForeign, AnswersBookedTwice, suppliersSide
<1>5. BooksOnly(Req(i))
  BY <1>2, ReserveBooks, BookTwiceBooks, NothingBooked
     DEF Issues, OutOfStock, Fails, TooLate, LeftInFlight, Unreachable,
         AnswersForeign, AnswersBookedTwice, suppliersSide
<1>6. book'[Req(i)] \in Codes \cup {NoCode}
  BY <1>2, <1>5 DEF BooksOnly
<1>7. {"ok", "out_of_stock", "error", "timeout", "unreachable"} \subseteq Answers
  BY DEF Answers
<1>8. Issues(i) => Some
  BY <1>6, <1>7 DEF Issues
<1>9. OutOfStock(i) => Some
  BY <1>7 DEF OutOfStock
<1>10. Fails(i) => Some
  BY <1>7 DEF Fails
<1>11. TooLate(i) => Some
  BY <1>7 DEF TooLate
<1>12. LeftInFlight(i) => Some
  BY <1>7 DEF LeftInFlight
<1>13. Unreachable(i) => Some
  BY <1>7 DEF Unreachable
<1>14. AnswersForeign(i) => Some
  BY <1>7 DEF AnswersForeign
<1>15. AnswersBookedTwice(i) => Some
  BY <1>6, <1>7 DEF AnswersBookedTwice
<1>16. Some
  BY <1>8, <1>9, <1>10, <1>11, <1>12, <1>13, <1>14, <1>15
<1> QED
  BY <1>1, <1>3, <1>4, <1>5, <1>16 DEF AskStep

LEMMA DropsAre ==
  ASSUME TypeOK, NEW i \in Items, Limited(i) \/ LookupLimited(i) \/ Crash(i)
  PROVE  DropStep(i)
BY DisturbType DEF Limited, LookupLimited, Crash, DropStep

------------------------------------------------------------------------------
(* ChainInv, unit by unit. A step of one unit's pass, or of the suppliers, *)
(* does not disturb another unit.                                          *)

\* What a step leaves alone for the unit j.
Kept(j) ==
  /\ pass'[j] = pass[j]
  /\ itemStatus'[j] = itemStatus[j] /\ open'[j] = open[j]
  /\ rejected'[j] = rejected[j]
  /\ deliveries'[j] = deliveries[j] /\ source'[j] = source[j]

BookKept == \A r \in Requests : book[r] # NoCode => book'[r] = book[r]

UnitOK(i) == QuestionOK(i) /\ PassOK(i) /\ DeliveryOK(i)

LEMMA KeptOK ==
  ASSUME TypeOK, NEW j \in Items, UnitOK(j), Kept(j), BookKept
  PROVE  UnitOK(j)'
<1>1. \A s : Round(j, s)' = Round(j, s)
  BY DEF Kept, Round
<1>2. QuestionOK(j)'
  BY <1>1 DEF UnitOK, QuestionOK, Kept
<1>3. PassOK(j)'
  <2>1. CASE pass[j].pc = "complete"
    <3>1. Req(j) \in Requests /\ Req(j)' = Req(j)
      BY <1>1, <2>1, ReqType DEF UnitOK, Busy, Req, Kept
    <3>2. book[Req(j)] # NoCode
      BY <2>1 DEF UnitOK, PassOK
    <3>3. book'[Req(j)'] = book[Req(j)]
      BY <3>1, <3>2 DEF BookKept
    <3> QED
      BY <1>1, <3>1, <3>3 DEF UnitOK, PassOK, Kept
  <2>2. CASE pass[j].pc # "complete"
    BY <1>1, <2>2 DEF UnitOK, PassOK, Kept
  <2> QED
    BY <2>1, <2>2
<1>4. DeliveryOK(j)'
  <2>1. CASE itemStatus[j] = "delivered"
    <3> DEFINE s == source[j]
    <3>1. s \in Suppliers /\ Round(j, s) <= MaxRounds /\ deliveries[j] = book[Current(j, s)]
          /\ deliveries[j] # NoCode
      BY <2>1 DEF UnitOK, DeliveryOK
    <3>2. Round(j, s) \in 1..MaxRounds
      BY <3>1, SupplierAssumption DEF Round, TypeOK
    <3>3. Current(j, s) \in Requests /\ Current(j, s)' = Current(j, s)
      BY <1>1, <3>1, <3>2 DEF Current, Requests, Kept
    <3>4. book'[Current(j, s)] = book[Current(j, s)]
      BY <3>1, <3>3 DEF BookKept
    <3> QED
      BY <1>1, <2>1, <3>1, <3>3, <3>4 DEF UnitOK, DeliveryOK, Kept
  <2>2. CASE itemStatus[j] # "delivered"
    BY <2>2 DEF UnitOK, DeliveryOK, Kept
  <2> QED
    BY <2>1, <2>2
<1> QED
  BY <1>2, <1>3, <1>4 DEF UnitOK

\* Only the pass over i moves, to p, and i's open question to o.
LEMMA UnitStep ==
  ASSUME TypeOK, NEW i \in Items, NEW p \in PassState, NEW o \in SUBSET Suppliers,
         Moves(i, p),
         open' = [open EXCEPT ![i] = o]
  PROVE  /\ pass' \in [Items -> PassState] /\ pass'[i] = p
         /\ open' \in [Items -> SUBSET Suppliers] /\ open'[i] = o
         /\ \A j \in Items : j # i => pass'[j] = pass[j] /\ open'[j] = open[j]
BY MovesEffect DEF TypeOK

LEMMA OpensEffect ==
  ASSUME TypeOK, NEW i \in Items, pass[i].at \in Suppliers, Opens(i)
  PROVE  open' = [open EXCEPT ![i] = open[i] \cup {pass[i].at}]
         /\ open[i] \cup {pass[i].at} \in SUBSET Suppliers
BY DEF Opens, TypeOK

LEMMA ClosesEffect ==
  ASSUME TypeOK, NEW i \in Items, Closes(i)
  PROVE  open' = [open EXCEPT ![i] = open[i] \ {pass[i].at}]
         /\ open[i] \ {pass[i].at} \in SUBSET Suppliers
BY DEF Closes, TypeOK

LEMMA OpenSame ==
  ASSUME TypeOK, NEW i \in Items, UNCHANGED open
  PROVE  open' = [open EXCEPT ![i] = open[i]] /\ open[i] \in SUBSET Suppliers
BY DEF TypeOK

\* All the invariant says of a step of i's pass.
Good(i) ==
  /\ TypeOK'
  /\ \A j \in Items : j # i => Kept(j)
  /\ BookKept
  /\ UnitOK(i)'

\* A step that only moves the pass and the open question of i.
Inner(i) ==
  /\ UNCHANGED <<itemStatus, deliveries, source, rejected, suppliersSide>>
  /\ trouble' \in TroubleState

LEMMA InnerGood ==
  ASSUME TypeOK, NEW i \in Items, DeliveryOK(i), Inner(i),
         NEW p \in PassState, NEW o \in SUBSET Suppliers,
         Moves(i, p), open' = [open EXCEPT ![i] = o],
         QuestionOK(i)', PassOK(i)'
  PROVE  Good(i)
<1>1. /\ pass' \in [Items -> PassState]
      /\ open' \in [Items -> SUBSET Suppliers]
      /\ \A j \in Items : j # i => pass'[j] = pass[j] /\ open'[j] = open[j]
  BY UnitStep
<1>2. TypeOK'
  BY <1>1 DEF TypeOK, Inner, suppliersSide
<1>3. \A j \in Items : j # i => Kept(j)
  BY <1>1 DEF Kept, Inner
<1>4. BookKept
  BY DEF BookKept, Inner, suppliersSide
<1>5. DeliveryOK(i)'
  BY DEF DeliveryOK, Inner, suppliersSide, Current, Round
<1> QED
  BY <1>2, <1>3, <1>4, <1>5 DEF Good, UnitOK

LEMMA BeginGood ==
  ASSUME TypeOK, NEW i \in Items, UnitOK(i), Begin(i)
  PROVE  Good(i)
<1> DEFINE p == [Idle EXCEPT !.pc = "turn", !.left = Suppliers, !.doubt = open[i]]
<1>1. open[i] \in SUBSET Suppliers /\ UNCHANGED open
  BY DEF TypeOK, Begin, tables
<1>2. p \in PassState /\ Moves(i, p)
  BY <1>1, StartType DEF Begin
<1>3. p.pc = "turn" /\ p.left = Suppliers /\ p.doubt = open[i]
  BY DEF Idle
<1>4. open' = [open EXCEPT ![i] = open[i]]
  BY <1>1, OpenSame
<1> HIDE DEF p
<1>5. pass'[i] = p /\ open'[i] = open[i]
  BY <1>1, <1>2, MovesEffect DEF TypeOK
<1>6. Inner(i)
  BY DisturbType DEF Inner, Begin, tables, suppliersSide, TypeOK
<1>7. \A s : Round(i, s)' = Round(i, s)
  BY <1>6 DEF Inner, Round
<1>8. QuestionOK(i)'
  BY <1>1, <1>3, <1>5, <1>6, <1>7 DEF UnitOK, QuestionOK, Busy, Inner
<1>9. PassOK(i)'
  BY <1>3, <1>5, <1>6 DEF Begin, PassOK, Busy, Inner
<1> QED
  BY <1>1, <1>2, <1>4, <1>6, <1>8, <1>9, InnerGood DEF UnitOK

LEMMA AskingFields ==
  ASSUME NEW p \in PassState, NEW s
  PROVE  /\ Asking(p, s).pc = "ask" /\ Asking(p, s).at = s
         /\ Asking(p, s).doubt = p.doubt
         /\ Asking(p, s).unknown = (s \in p.doubt)
         /\ Asking(p, s).sawTimeout = FALSE
BY DEF Asking, PassState

LEMMA NextInLineType ==
  ASSUME TypeOK, NEW i \in Items, NEW s \in NextInLine(i)
  PROVE  /\ s \in Suppliers
         /\ s \in pass[i].left
         /\ pass[i].left \cap pass[i].doubt # {} => s \in pass[i].doubt
<1>1. pass[i].left \in SUBSET Suppliers
  BY DEF TypeOK, PassState
<1> QED
  BY <1>1 DEF NextInLine

LEMMA TurnGood ==
  ASSUME TypeOK, NEW i \in Items, UnitOK(i), Turn(i)
  PROVE  Good(i)
<1> DEFINE p == pass[i]
<1>1. p \in PassState /\ p.pc = "turn" /\ itemStatus[i] = "pending"
  BY DEF TypeOK, Turn, UnitOK, PassOK
<1>2. PICK s \in NextInLine(i) :
        Moves(i, IF Round(i, s) <= MaxRounds
                   THEN Asking(p, s)
                   ELSE [p EXCEPT !.left = @ \ {s}])
  BY DEF Turn
<1>3. s \in Suppliers /\ s \in p.left
      /\ (p.left \cap p.doubt # {} => s \in p.doubt)
  BY <1>2, NextInLineType
<1>4. UNCHANGED open /\ open[i] \in SUBSET Suppliers
      /\ open' = [open EXCEPT ![i] = open[i]]
  BY OpenSame DEF Turn, tables
<1>5. Inner(i)
  BY DEF Inner, Turn, tables, suppliersSide, TypeOK
<1>6. \A t : Round(i, t)' = Round(i, t)
  BY <1>5 DEF Inner, Round
<1>7. \A t \in open[i] : t \in p.doubt /\ t \in p.left
  BY <1>1 DEF UnitOK, QuestionOK
<1>8. \A t, u \in p.doubt : t = u
  BY DEF UnitOK, QuestionOK
<1>9. open[i] \subseteq {s}
  BY <1>3, <1>7, <1>8
<1>10. CASE Round(i, s) <= MaxRounds
  <2> DEFINE q == Asking(p, s)
  <2>1. q \in PassState /\ Moves(i, q)
    BY <1>1, <1>2, <1>3, <1>10, AskingType
  <2>2. /\ q.pc = "ask" /\ q.at = s /\ q.doubt = p.doubt
        /\ q.unknown = (s \in p.doubt)
    BY <1>1, AskingFields, Zenon
  <2> HIDE DEF q
  <2>3. pass'[i] = q
    BY <2>1, MovesEffect DEF TypeOK
  <2>4. open[i] # {} => q.unknown
    BY <1>7, <1>9, <2>2
  <2>5. QuestionOK(i)'
    BY <1>1, <1>4, <1>5, <1>6, <1>9, <2>2, <2>3, <2>4
       DEF UnitOK, QuestionOK, Busy, Inner
  <2>6. PassOK(i)'
    BY <1>1, <1>3, <1>5, <1>6, <1>10, <2>2, <2>3 DEF PassOK, Busy, Inner
  <2> QED
    BY <1>4, <1>5, <2>1, <2>5, <2>6, InnerGood DEF UnitOK
<1>11. CASE ~(Round(i, s) <= MaxRounds)
  <2> DEFINE q == [p EXCEPT !.left = @ \ {s}]
  <2>1. q \in PassState /\ Moves(i, q)
    BY <1>1, <1>2, <1>11, SkipType
  <2>2. q.pc = "turn" /\ q.left = p.left \ {s} /\ q.doubt = p.doubt
    BY <1>1 DEF PassState
  <2> HIDE DEF q
  <2>3. pass'[i] = q
    BY <2>1, MovesEffect DEF TypeOK
  <2>4. s \notin open[i]
    BY <1>11 DEF UnitOK, QuestionOK
  <2>5. open[i] = {}
    BY <1>9, <2>4
  <2>6. QuestionOK(i)'
    BY <1>1, <1>4, <1>5, <1>6, <1>8, <2>2, <2>3, <2>5 DEF QuestionOK, Busy, Inner
  <2>7. PassOK(i)'
    BY <1>1, <1>5, <2>2, <2>3 DEF PassOK, Busy, Inner
  <2> QED
    BY <1>4, <1>5, <2>1, <2>6, <2>7, InnerGood DEF UnitOK
<1> QED
  BY <1>10, <1>11

LEMMA DropGood ==
  ASSUME TypeOK, NEW i \in Items, UnitOK(i), DropStep(i)
  PROVE  Good(i)
<1>1. /\ UNCHANGED open /\ open[i] \in SUBSET Suppliers
      /\ open' = [open EXCEPT ![i] = open[i]]
  BY OpenSame DEF DropStep, tables
<1>2. Idle \in PassState /\ Moves(i, Idle)
  BY IdleType DEF DropStep, Ends
<1>3. pass'[i] = Idle /\ Idle.pc = "idle" /\ Idle.doubt = {}
  BY <1>2, MovesEffect DEF TypeOK, Idle
<1>4. Inner(i)
  BY DEF Inner, DropStep, tables
<1>5. \A t : Round(i, t)' = Round(i, t)
  BY <1>4 DEF Inner, Round
<1>6. QuestionOK(i)'
  BY <1>1, <1>3, <1>4, <1>5 DEF UnitOK, QuestionOK, Busy, Inner
<1>7. PassOK(i)'
  BY <1>3, <1>4 DEF PassOK, Busy, Inner
<1> QED
  BY <1>1, <1>2, <1>4, <1>6, <1>7, InnerGood DEF UnitOK

\* The question to the supplier asked is closed: nothing is open then.
LEMMA ClosedGood ==
  ASSUME TypeOK, NEW i \in Items, UnitOK(i), pass[i].pc \in Busy,
         Closes(i), Inner(i), NEW p \in PassState, Moves(i, p),
         p.doubt = pass[i].doubt,
         p.pc \in Busy => p.at = pass[i].at,
         p.pc = "complete" => p.code = book[Req(i)] /\ p.code # NoCode
  PROVE  Good(i) /\ open'[i] = {}
<1>1. open[i] \subseteq {pass[i].at}
  BY DEF UnitOK, QuestionOK
<1>2. /\ open' = [open EXCEPT ![i] = open[i] \ {pass[i].at}]
      /\ open[i] \ {pass[i].at} \in SUBSET Suppliers
  BY ClosesEffect
<1>3. pass'[i] = p /\ open'[i] = {}
  BY <1>1, <1>2, UnitStep
<1>4. \A t : Round(i, t)' = Round(i, t)
  BY DEF Inner, Round
<1>5. QuestionOK(i)'
  BY <1>3 DEF UnitOK, QuestionOK
<1>6. itemStatus'[i] = "pending" /\ book' = book
  BY DEF UnitOK, PassOK, Inner, Busy, suppliersSide
<1>7. p.at = pass[i].at => Req(i)' = Req(i)
  BY <1>3, <1>4 DEF Req
<1>8. PassOK(i)'
  BY <1>3, <1>4, <1>6, <1>7 DEF UnitOK, PassOK, Busy
<1> QED
  BY <1>2, <1>3, <1>5, <1>8, InnerGood DEF UnitOK

\* It is opened, and the pass stays with that supplier or ends.
LEMMA OpenedGood ==
  ASSUME TypeOK, NEW i \in Items, UnitOK(i), pass[i].pc \in Busy,
         Opens(i), Inner(i), NEW p \in PassState, Moves(i, p),
         p.doubt \subseteq pass[i].doubt,
         p.pc \in {"idle", "ask", "lookup"},
         p.pc # "idle" => p.at = pass[i].at,
         p.pc = "ask" => p.unknown
  PROVE  Good(i) /\ open'[i] = {pass[i].at}
<1>1. open[i] \subseteq {pass[i].at} /\ pass[i].at \in Suppliers
  BY DEF UnitOK, QuestionOK, PassOK
<1>2. /\ open' = [open EXCEPT ![i] = open[i] \cup {pass[i].at}]
      /\ open[i] \cup {pass[i].at} \in SUBSET Suppliers
  BY <1>1, OpensEffect
<1>3. pass'[i] = p /\ open'[i] = {pass[i].at}
  BY <1>1, <1>2, UnitStep
<1>4. \A t : Round(i, t)' = Round(i, t)
  BY DEF Inner, Round
<1>5. itemStatus'[i] = "pending"
  BY DEF UnitOK, PassOK, Inner, Busy
<1>6. Round(i, pass[i].at) <= MaxRounds
  BY DEF UnitOK, PassOK
<1>7. QuestionOK(i)'
  BY <1>3, <1>4, <1>5, <1>6 DEF UnitOK, QuestionOK, Busy
<1>8. PassOK(i)'
  BY <1>3, <1>4, <1>5 DEF UnitOK, PassOK, Busy
<1> QED
  BY <1>2, <1>3, <1>7, <1>8, InnerGood DEF UnitOK

\* It stays as it is, and the pass stays with the supplier.
LEMMA UnchangedGood ==
  ASSUME TypeOK, NEW i \in Items, UnitOK(i), pass[i].pc \in Busy,
         UNCHANGED open, Inner(i), NEW p \in PassState, Moves(i, p),
         p.doubt = pass[i].doubt, p.at = pass[i].at,
         p.pc \in Busy \/ (p.pc = "turn" /\ open[i] = {}),
         p.pc \in {"ask", "record"} /\ open[i] # {} => p.unknown,
         p.pc = "complete" => p.code = book[Req(i)] /\ p.code # NoCode
  PROVE  Good(i)
<1>1. open' = [open EXCEPT ![i] = open[i]] /\ open[i] \in SUBSET Suppliers
  BY OpenSame
<1>2. pass'[i] = p /\ open'[i] = open[i]
  BY <1>1, UnitStep
<1>3. \A t : Round(i, t)' = Round(i, t)
  BY DEF Inner, Round
<1>4. itemStatus'[i] = "pending" /\ book' = book
  BY DEF UnitOK, PassOK, Inner, Busy, suppliersSide
<1>5. Req(i)' = Req(i)
  BY <1>2, <1>3 DEF Req
<1>6. QuestionOK(i)'
  BY <1>2, <1>3, <1>4 DEF UnitOK, QuestionOK, Busy
<1>7. PassOK(i)'
  BY <1>2, <1>3, <1>4, <1>5 DEF UnitOK, PassOK, Busy
<1> QED
  BY <1>1, <1>6, <1>7, InnerGood DEF UnitOK

LEMMA RecordGood ==
  ASSUME TypeOK, NEW i \in Items, UnitOK(i), RecordOk(i) \/ RecordOutOfStock(i)
  PROVE  Good(i)
<1>1. pass[i] \in PassState /\ pass[i].pc \in Busy
  BY DEF TypeOK, RecordOk, RecordOutOfStock, Busy
<1>2. Closes(i) /\ Inner(i)
  BY DEF RecordOk, RecordOutOfStock, Inner, TypeOK
<1>3. PICK c \in {"verify", "turn"} : Moves(i, [pass[i] EXCEPT !.pc = c])
  BY DEF RecordOk, RecordOutOfStock
<1> DEFINE p == [pass[i] EXCEPT !.pc = c]
<1>4. p \in PassState
  BY <1>1, PcType DEF PC
<1>5. p.doubt = pass[i].doubt /\ p.at = pass[i].at /\ p.pc # "complete"
  BY <1>1 DEF PassState
<1> HIDE DEF p
<1> QED
  BY <1>1, <1>2, <1>3, <1>4, <1>5, ClosedGood DEF p

\* The three ways on after no answer.
LEMMA NoAnswerCases ==
  ASSUME TypeOK, NEW i \in Items, RecordNoAnswer(i)
  PROVE  /\ pass[i].pc = "record"
         /\ pass[i].answer \in {"unreachable", "error", "timeout"}
         /\ IF pass[i].answer = "unreachable" THEN UNCHANGED open ELSE Opens(i)
         /\ \/ /\ Noted(pass[i]).attempt < MaxAttempts
               /\ Moves(i, [Noted(pass[i]) EXCEPT !.pc = "ask", !.attempt = @ + 1])
            \/ /\ Noted(pass[i]).unknown
               /\ Moves(i, [Noted(pass[i]) EXCEPT !.pc = "lookup"])
            \/ /\ ~Noted(pass[i]).unknown
               /\ Moves(i, [Noted(pass[i]) EXCEPT !.pc = "turn"])
         /\ UNCHANGED <<itemStatus, deliveries, source, rejected, suppliersSide, trouble>>
<1> DEFINE q == [pass[i] EXCEPT !.unknown = @ \/ pass[i].answer # "unreachable",
                                !.sawTimeout = @ \/ pass[i].answer = "timeout"]
<1>1. /\ q.pc = "record" /\ q.answer \in {"unreachable", "error", "timeout"}
      /\ IF q.answer = "unreachable" THEN UNCHANGED open ELSE Opens(i)
      /\ \/ /\ AttemptsLeft(q)
            /\ Moves(i, [q EXCEPT !.pc = "ask", !.attempt = @ + 1])
         \/ /\ ~AttemptsLeft(q)
            /\ Moves(i, [q EXCEPT !.pc = IF q.unknown THEN "lookup" ELSE "turn"])
      /\ UNCHANGED <<itemStatus, deliveries, source, rejected, suppliersSide, trouble>>
  BY DEF RecordNoAnswer
<1>2. q = Noted(pass[i]) /\ pass[i] \in PassState
  BY DEF Noted, TypeOK
<1> HIDE DEF q
<1>3. q.pc = pass[i].pc /\ q.answer = pass[i].answer
  BY <1>2, NotedType
<1>4. \/ q.unknown /\ [q EXCEPT !.pc = IF q.unknown THEN "lookup" ELSE "turn"]
                        = [q EXCEPT !.pc = "lookup"]
      \/ ~q.unknown /\ [q EXCEPT !.pc = IF q.unknown THEN "lookup" ELSE "turn"]
                         = [q EXCEPT !.pc = "turn"]
  OBVIOUS
<1> QED
  BY <1>1, <1>2, <1>3, <1>4 DEF AttemptsLeft

LEMMA NoAnswerGood ==
  ASSUME TypeOK, NEW i \in Items, UnitOK(i), RecordNoAnswer(i)
  PROVE  Good(i)
<1> DEFINE q == Noted(pass[i])
<1>1. /\ pass[i] \in PassState /\ pass[i].pc = "record" /\ pass[i].pc \in Busy
      /\ Inner(i)
  BY NoAnswerCases DEF TypeOK, Busy, Inner
<1>2. /\ q \in PassState /\ q.at = pass[i].at /\ q.doubt = pass[i].doubt
      /\ q.attempt = pass[i].attempt
      /\ q.unknown = (pass[i].unknown \/ pass[i].answer # "unreachable")
  BY <1>1, NotedType
<1>3. open[i] # {} => pass[i].unknown
  BY <1>1 DEF UnitOK, QuestionOK
<1> HIDE DEF q
<1>4. PICK p \in PassState :
        /\ Moves(i, p) /\ p.at = q.at /\ p.doubt = q.doubt /\ p.unknown = q.unknown
        /\ \/ p.pc = "ask"
           \/ p.pc = "lookup" /\ q.unknown
           \/ p.pc = "turn" /\ ~q.unknown
  <2>1. CASE /\ q.attempt < MaxAttempts
             /\ Moves(i, [q EXCEPT !.pc = "ask", !.attempt = @ + 1])
    <3> DEFINE p == [q EXCEPT !.pc = "ask", !.attempt = @ + 1]
    <3>1. p \in PassState
      BY <1>2, <2>1, AgainType
    <3>2. p.at = q.at /\ p.doubt = q.doubt /\ p.unknown = q.unknown /\ p.pc = "ask"
      BY <1>2 DEF PassState
    <3> QED
      BY <2>1, <3>1, <3>2
  <2>2. CASE q.unknown /\ Moves(i, [q EXCEPT !.pc = "lookup"])
    <3> DEFINE p == [q EXCEPT !.pc = "lookup"]
    <3>1. p \in PassState
      BY <1>2, PcType DEF PC
    <3>2. p.at = q.at /\ p.doubt = q.doubt /\ p.unknown = q.unknown /\ p.pc = "lookup"
      BY <1>2 DEF PassState
    <3> QED
      BY <2>2, <3>1, <3>2
  <2>3. CASE ~q.unknown /\ Moves(i, [q EXCEPT !.pc = "turn"])
    <3> DEFINE p == [q EXCEPT !.pc = "turn"]
    <3>1. p \in PassState
      BY <1>2, PcType DEF PC
    <3>2. p.at = q.at /\ p.doubt = q.doubt /\ p.unknown = q.unknown /\ p.pc = "turn"
      BY <1>2 DEF PassState
    <3> QED
      BY <2>3, <3>1, <3>2
  <2> QED
    BY <2>1, <2>2, <2>3, NoAnswerCases DEF q
<1>5. CASE pass[i].answer = "unreachable"
  <2>1. UNCHANGED open
    BY <1>5, NoAnswerCases
  <2> QED
    BY <1>1, <1>2, <1>3, <1>4, <1>5, <2>1, UnchangedGood DEF Busy
<1>6. CASE pass[i].answer # "unreachable"
  <2>1. Opens(i) /\ q.unknown
    BY <1>2, <1>6, NoAnswerCases
  <2> QED
    BY <1>1, <1>2, <1>4, <2>1, OpenedGood
<1> QED
  BY <1>5, <1>6

LEMMA LookupFindsGood ==
  ASSUME TypeOK, NEW i \in Items, UnitOK(i), LookupFinds(i) \/ VerifyFinds(i)
  PROVE  Good(i)
<1> DEFINE p == [pass[i] EXCEPT !.pc = "complete", !.code = book[Req(i)]]
<1>1. pass[i] \in PassState /\ pass[i].pc \in Busy
  BY DEF TypeOK, LookupFinds, VerifyFinds, Busy
<1>2. book[Req(i)] \in Codes /\ book[Req(i)] # NoCode
  BY <1>1, ReqType DEF UnitOK, TypeOK, LookupFinds, VerifyFinds
<1>3. p \in PassState /\ Moves(i, p)
  BY <1>1, <1>2, CompleteType DEF LookupFinds, VerifyFinds
<1>4. /\ p.pc = "complete" /\ p.code = book[Req(i)]
      /\ p.doubt = pass[i].doubt /\ p.at = pass[i].at
  BY <1>1 DEF PassState
<1>5. Inner(i)
  BY DEF LookupFinds, VerifyFinds, Inner, TypeOK, tables, suppliersSide
<1> HIDE DEF p
<1>6. CASE LookupFinds(i)
  BY <1>1, <1>2, <1>3, <1>4, <1>5, <1>6, ClosedGood DEF LookupFinds
<1>7. CASE VerifyFinds(i)
  <2>1. UNCHANGED open
    BY <1>7 DEF VerifyFinds, tables
  <2> QED
    BY <1>1, <1>2, <1>3, <1>4, <1>5, <2>1, UnchangedGood DEF Busy
<1> QED
  BY <1>6, <1>7

LEMMA LookupFailsGood ==
  ASSUME TypeOK, NEW i \in Items, UnitOK(i),
         pass[i].pc \in Busy, Opens(i), Ends(i), Inner(i)
  PROVE  Good(i) /\ open'[i] = {pass[i].at}
<1>1. Idle \in PassState /\ Moves(i, Idle)
  BY IdleType DEF Ends
<1>2. Idle.pc = "idle" /\ Idle.doubt = {}
  BY DEF Idle
<1> QED
  BY <1>1, <1>2, OpenedGood

LEMMA LookupEmptyGood ==
  ASSUME TypeOK, NEW i \in Items, UnitOK(i), LookupEmpty(i) \/ LookupFails(i)
  PROVE  Good(i)
<1>1. pass[i] \in PassState /\ pass[i].pc \in Busy /\ Inner(i)
  BY DisturbType DEF TypeOK, LookupEmpty, LookupFails, Busy, Inner
<1>2. CASE Closes(i) /\ Moves(i, [pass[i] EXCEPT !.pc = "turn"])
  <2> DEFINE p == [pass[i] EXCEPT !.pc = "turn"]
  <2>1. p \in PassState
    BY <1>1, PcType DEF PC
  <2>2. p.doubt = pass[i].doubt /\ p.pc = "turn"
    BY <1>1 DEF PassState
  <2> HIDE DEF p
  <2> QED
    BY <1>1, <1>2, <2>1, <2>2, ClosedGood DEF p, Busy
<1>3. CASE Opens(i) /\ Ends(i)
  BY <1>1, <1>3, LookupFailsGood
<1> QED
  BY <1>2, <1>3 DEF LookupEmpty, LookupFails

LEMMA DecideRefundGood ==
  ASSUME TypeOK, NEW i \in Items, UnitOK(i), DecideRefund(i)
  PROVE  Good(i) /\ open[i] = {}
<1>1. Idle \in PassState /\ Moves(i, Idle) /\ Idle.pc = "idle" /\ Idle.doubt = {}
  BY IdleType DEF DecideRefund, Ends, Idle
<1>2. /\ pass' \in [Items -> PassState] /\ pass'[i] = Idle
      /\ \A j \in Items : j # i => pass'[j] = pass[j]
  BY <1>1, MovesEffect DEF TypeOK
<1>3. /\ itemStatus' \in [Items -> {"pending", "delivered", "refunding"}]
      /\ itemStatus'[i] = "refunding" /\ itemStatus[i] = "pending"
      /\ \A j \in Items : j # i => itemStatus'[j] = itemStatus[j]
  BY DEF DecideRefund, TypeOK, UnitOK, PassOK
<1>4. UNCHANGED <<deliveries, source, open, rejected, book, free, flight, trouble>>
  BY DEF DecideRefund, suppliersSide
<1>5. open[i] = {}
  BY DEF DecideRefund, UnitOK, QuestionOK
<1>6. TypeOK'
  BY <1>2, <1>3, <1>4 DEF TypeOK
<1>7. \A j \in Items : j # i => Kept(j)
  BY <1>2, <1>3, <1>4 DEF Kept
<1>8. BookKept
  BY <1>4 DEF BookKept
<1>9. QuestionOK(i)'
  BY <1>1, <1>2, <1>4, <1>5 DEF QuestionOK, Busy
<1>10. PassOK(i)'
  BY <1>1, <1>2 DEF PassOK, Busy
<1>11. DeliveryOK(i)'
  BY <1>3, <1>4 DEF DeliveryOK, UnitOK
<1> QED
  BY <1>5, <1>6, <1>7, <1>8, <1>9, <1>10, <1>11 DEF Good, UnitOK

LEMMA AskGood ==
  ASSUME TypeOK, NEW i \in Items, UnitOK(i), AskStep(i)
  PROVE  Good(i)
<1>1. pass[i] \in PassState /\ pass[i].pc = "ask" /\ itemStatus[i] = "pending"
  BY DEF TypeOK, AskStep, UnitOK, PassOK
<1>2. Req(i) \in Requests
  BY <1>1, ReqType DEF UnitOK, Busy
<1>3. PICK a \in Answers, c \in Codes \cup {NoCode} : Answered(i, a, c)
  BY DEF AskStep
<1> DEFINE p == [pass[i] EXCEPT !.pc = "record", !.answer = a, !.code = c]
<1>4. p \in PassState /\ Moves(i, p)
  BY <1>1, <1>3, AnsweredType DEF Answered
<1>5. /\ p.pc = "record" /\ p.at = pass[i].at /\ p.doubt = pass[i].doubt
      /\ p.unknown = pass[i].unknown
  BY <1>1 DEF PassState
<1> HIDE DEF p
<1>6. /\ pass' \in [Items -> PassState] /\ pass'[i] = p
      /\ \A j \in Items : j # i => pass'[j] = pass[j]
  BY <1>4, MovesEffect DEF TypeOK
<1>7. UNCHANGED <<itemStatus, deliveries, source, open, rejected>>
  BY DEF AskStep, tables
<1>8. flight' \subseteq Requests
  BY <1>2 DEF AskStep, TypeOK
<1>9. TypeOK'
  BY <1>6, <1>7, <1>8 DEF TypeOK, AskStep, BooksOnly
<1>10. \A j \in Items : j # i => Kept(j)
  BY <1>6, <1>7 DEF Kept
<1>11. BookKept
  BY DEF AskStep, BooksOnly, BookKept
<1>12. \A t : Round(i, t)' = Round(i, t)
  BY <1>7 DEF Round
<1>13. QuestionOK(i)'
  BY <1>1, <1>5, <1>6, <1>7, <1>12 DEF UnitOK, QuestionOK, Busy
<1>14. PassOK(i)'
  BY <1>1, <1>5, <1>6, <1>7, <1>12 DEF UnitOK, PassOK, Busy
<1>15. DeliveryOK(i)'
  BY <1>1, <1>7 DEF UnitOK, DeliveryOK
<1> QED
  BY <1>9, <1>10, <1>11, <1>13, <1>14, <1>15 DEF Good, UnitOK

\* A rejected round closes the question and leads to the next request_id.
LEMMA RejectEffect ==
  ASSUME TypeOK, NEW i \in Items, UnitOK(i), pass[i].pc \in Busy, Reject(i),
         NEW s \in Suppliers, s = pass[i].at
  PROVE  /\ Good(i)
         /\ open'[i] = {} /\ itemStatus'[i] = "pending"
         /\ \A t \in Suppliers : t # s => rejected'[i][t] = rejected[i][t]
         /\ rejected'[i][s] = rejected[i][s] + 1
         /\ pass'[i].pc \in {"ask", "turn"}
         /\ pass'[i].pc = "ask" => ~pass'[i].sawTimeout
         /\ UNCHANGED <<book, free, flight>>
<1> DEFINE p == IF Round(i, s) < MaxRounds
                  THEN Asking(pass[i], s)
                  ELSE [pass[i] EXCEPT !.pc = "turn"]
<1>1. pass[i] \in PassState /\ itemStatus[i] = "pending"
  BY DEF TypeOK, UnitOK, PassOK, Busy
<1>2. /\ rejected[i][s] \in 0..MaxRounds
      /\ Round(i, s) \in 1..MaxRounds
  BY ReqType DEF UnitOK
<1>3. p \in PassState /\ Moves(i, p)
  <2>1. Moves(i, p)
    BY DEF Reject
  <2>2. Asking(pass[i], s) \in PassState /\ [pass[i] EXCEPT !.pc = "turn"] \in PassState
    BY <1>1, AskingType, PcType DEF PC
  <2> QED
    BY <2>1, <2>2
<1>4. /\ p.doubt = pass[i].doubt
      /\ \/ p.pc = "ask" /\ p.at = s /\ ~p.sawTimeout /\ Round(i, s) < MaxRounds
         \/ p.pc = "turn"
  <2>1. CASE Round(i, s) < MaxRounds
    <3>1. p = Asking(pass[i], s)
      BY <2>1
    <3>2. /\ Asking(pass[i], s).pc = "ask" /\ Asking(pass[i], s).at = s
          /\ Asking(pass[i], s).doubt = pass[i].doubt
          /\ ~Asking(pass[i], s).sawTimeout
      BY <1>1, AskingFields
    <3> QED
      BY <2>1, <3>1, <3>2
  <2>2. CASE ~(Round(i, s) < MaxRounds)
    <3>1. p = [pass[i] EXCEPT !.pc = "turn"]
      BY <2>2
    <3> QED
      BY <1>1, <3>1 DEF PassState
  <2> QED
    BY <2>1, <2>2
<1> HIDE DEF p
<1>5. /\ pass' \in [Items -> PassState] /\ pass'[i] = p
      /\ \A j \in Items : j # i => pass'[j] = pass[j]
  BY <1>3, MovesEffect DEF TypeOK
<1>6. /\ open' = [open EXCEPT ![i] = open[i] \ {s}]
      /\ open[i] \ {s} \in SUBSET Suppliers /\ open[i] \subseteq {s}
  BY ClosesEffect DEF Reject, UnitOK, QuestionOK
<1>7. /\ open' \in [Items -> SUBSET Suppliers] /\ open'[i] = {}
      /\ \A j \in Items : j # i => open'[j] = open[j]
  BY <1>6 DEF TypeOK
<1>8. rejected[i][s] + 1 \in 0..MaxRounds
  BY <1>2, SupplierAssumption DEF Round
<1>9. rejected' = [rejected EXCEPT ![i] = [rejected[i] EXCEPT ![s] = rejected[i][s] + 1]]
  <2> DEFINE f(t) == [rejected EXCEPT ![i] = [rejected[i] EXCEPT ![t] = rejected[i][t] + 1]]
  <2>1. rejected' = f(pass[i].at)
    BY DEF Reject
  <2>2. f(pass[i].at) = f(s)
    OBVIOUS
  <2> QED
    BY <2>1, <2>2
<1>10. [rejected[i] EXCEPT ![s] = rejected[i][s] + 1] \in [Suppliers -> 0..MaxRounds]
  BY <1>2, <1>8 DEF TypeOK
<1>11. /\ rejected' \in [Items -> [Suppliers -> 0..MaxRounds]]
       /\ rejected'[i] = [rejected[i] EXCEPT ![s] = rejected[i][s] + 1]
       /\ \A j \in Items : j # i => rejected'[j] = rejected[j]
  BY <1>9, <1>10 DEF TypeOK
<1>12. /\ rejected'[i][s] = rejected[i][s] + 1
       /\ \A t \in Suppliers : t # s => rejected'[i][t] = rejected[i][t]
  BY <1>2, <1>11 DEF TypeOK
<1>13. UNCHANGED <<itemStatus, deliveries, source, book, free, flight, trouble>>
  BY DEF Reject, suppliersSide
<1>14. TypeOK'
  BY <1>5, <1>7, <1>11, <1>13 DEF TypeOK
<1>15. \A j \in Items : j # i => Kept(j)
  BY <1>5, <1>7, <1>11, <1>13 DEF Kept
<1>16. BookKept
  BY <1>13 DEF BookKept
<1>17. QuestionOK(i)'
  BY <1>4, <1>5, <1>7 DEF UnitOK, QuestionOK
<1>18. PassOK(i)'
  <2>1. Round(i, s) < MaxRounds => 1 + rejected'[i][s] <= MaxRounds
    BY <1>2, <1>12, SupplierAssumption DEF Round
  <2> QED
    BY <1>1, <1>4, <1>5, <1>13, <2>1 DEF PassOK, Busy, Round
<1>19. DeliveryOK(i)'
  BY <1>1, <1>13 DEF UnitOK, DeliveryOK
<1>20. Good(i)
  BY <1>14, <1>15, <1>16, <1>17, <1>18, <1>19 DEF Good, UnitOK
<1> QED
  BY <1>1, <1>4, <1>5, <1>7, <1>12, <1>13, <1>20

LEMMA CompleteGood ==
  ASSUME TypeOK, NEW i \in Items, UnitOK(i), Complete(i), DistinctCodes
  PROVE  Good(i) /\ DistinctCodes'
<1>1. /\ pass[i] \in PassState /\ pass[i].pc = "complete" /\ itemStatus[i] = "pending"
      /\ pass[i].code = book[Req(i)] /\ pass[i].code # NoCode
  BY DEF TypeOK, UnitOK, PassOK, Complete
<1>2. PICK s \in Suppliers : s = pass[i].at
  BY <1>1 DEF UnitOK, PassOK, Busy
<1>3. Round(i, s) <= MaxRounds /\ Req(i) = Current(i, s)
  BY <1>1, <1>2, ReqType DEF UnitOK, Busy
<1>4. PICK c \in Codes : c = pass[i].code
  BY <1>1 DEF PassState
<1>5. Idle \in PassState /\ Moves(i, Idle) /\ Idle.pc = "idle" /\ Idle.doubt = {}
  BY IdleType DEF Complete, Ends, Idle
<1>6. /\ pass' \in [Items -> PassState] /\ pass'[i] = Idle
      /\ \A j \in Items : j # i => pass'[j] = pass[j]
  BY <1>5, MovesEffect DEF TypeOK
<1>7. /\ itemStatus' \in [Items -> {"pending", "delivered", "refunding"}]
      /\ itemStatus'[i] = "delivered"
      /\ \A j \in Items : j # i => itemStatus'[j] = itemStatus[j]
  BY DEF Complete, TypeOK
<1>8. /\ deliveries' \in [Items -> Codes \cup {NoCode}] /\ deliveries'[i] = c
      /\ \A j \in Items : j # i => deliveries'[j] = deliveries[j]
  BY <1>4 DEF Complete, TypeOK
<1>9. /\ source' \in [Items -> Suppliers \cup {NoSupplier}] /\ source'[i] = s
      /\ \A j \in Items : j # i => source'[j] = source[j]
  BY <1>2 DEF Complete, TypeOK
<1>10. UNCHANGED <<open, rejected, book, free, flight, trouble>>
  BY DEF Complete, suppliersSide
<1>11. \A j \in Items : deliveries[j] # c
  BY <1>4 DEF Complete, TakenCode
<1>12. TypeOK'
  BY <1>6, <1>7, <1>8, <1>9, <1>10 DEF TypeOK
<1>13. \A j \in Items : j # i => Kept(j)
  BY <1>6, <1>7, <1>8, <1>9, <1>10 DEF Kept
<1>14. BookKept
  BY <1>10 DEF BookKept
<1>15. QuestionOK(i)'
  BY <1>5, <1>6, <1>7, <1>10 DEF UnitOK, QuestionOK, Busy, Round
<1>16. PassOK(i)'
  BY <1>5, <1>6 DEF PassOK, Busy
<1>17. DeliveryOK(i)'
  <2>1. c # NoCode
    BY <1>1, <1>4
  <2>2. c = book[Current(i, s)]
    BY <1>1, <1>3, <1>4
  <2> QED
    BY <1>3, <1>7, <1>8, <1>9, <1>10, <2>1, <2>2 DEF DeliveryOK, Current, Round
<1>18. DistinctCodes'
  BY <1>8, <1>11 DEF DistinctCodes
<1> QED
  BY <1>12, <1>13, <1>14, <1>15, <1>16, <1>17, <1>18 DEF Good, UnitOK

\* What Lands may do to the book.
LEMMA LandsEffect ==
  ASSUME TypeOK, NEW r \in flight, Lands(r)
  PROVE  /\ r \in Requests /\ BooksOnly(r) /\ flight' = flight \ {r}
         /\ UNCHANGED <<tables, pass>> /\ trouble' \in TroubleState
<1>1. r \in Requests
  BY DEF TypeOK
<1> QED
  BY <1>1, ReserveBooks, BookTwiceBooks, NothingBooked, DisturbType DEF Lands, TypeOK

LEMMA LandsKeeps ==
  ASSUME TypeOK, NEW r \in flight, Lands(r)
  PROVE  TypeOK' /\ BookKept /\ \A j \in Items : Kept(j)
BY LandsEffect DEF TypeOK, BookKept, BooksOnly, Kept, tables

------------------------------------------------------------------------------
(* ChainInv is inductive.                                                  *)

LEMMA ChainInit == Init => ChainInv
<1> SUFFICES ASSUME Init PROVE ChainInv
  OBVIOUS
<1>1. TypeOK
  <2>1. [s \in Suppliers |-> 0] \in [Suppliers -> 0..MaxRounds]
    BY SupplierAssumption
  <2>2. trouble \in TroubleState
    BY SupplierAssumption DEF Init, TroubleState
  <2> QED
    BY <2>1, <2>2, IdleType, SupplierAssumption DEF Init, TypeOK
<1>2. \A i \in Items : pass[i].pc = "idle" /\ pass[i].doubt = {}
  BY DEF Init, Idle
<1>3. \A i \in Items : QuestionOK(i) /\ PassOK(i) /\ DeliveryOK(i)
  BY <1>2 DEF Init, QuestionOK, PassOK, DeliveryOK, Busy
<1>4. DistinctCodes
  BY DEF Init, DistinctCodes
<1> QED
  BY <1>1, <1>3, <1>4 DEF ChainInv

\* A step of i's pass, whatever it is.
LEMMA ChainStepUnit ==
  ASSUME ChainInv, NEW i \in Items, Undisturbed(i) \/ Disturbed(i)
  PROVE  Good(i) /\ DistinctCodes'
<1>1. TypeOK /\ DistinctCodes /\ UnitOK(i) /\ PassOK(i)
  BY DEF ChainInv, UnitOK
<1>2. CASE Complete(i)
  BY <1>1, <1>2, CompleteGood
<1>3. CASE ~Complete(i)
  <2>1. UNCHANGED deliveries
    BY <1>3 DEF Undisturbed, Disturbed, Begin, Turn, DecideRefund, Issues,
         OutOfStock, RecordOk, RecordOutOfStock, RecordNoAnswer, LookupFinds,
         LookupEmpty, VerifyEmpty, VerifyFinds, RejectTaken, Reject, Fails, TooLate,
         LeftInFlight, Unreachable, AnswersForeign, AnswersBookedTwice, Limited,
         LookupLimited, LookupFails, Crash, tables
  <2>2. DistinctCodes'
    BY <1>1, <2>1 DEF DistinctCodes
  <2>3. CASE Begin(i) \/ Turn(i) \/ DecideRefund(i)
    BY <1>1, <2>2, <2>3, BeginGood, TurnGood, DecideRefundGood
  <2>4. CASE \/ Issues(i) \/ OutOfStock(i) \/ Fails(i) \/ TooLate(i)
             \/ LeftInFlight(i) \/ Unreachable(i) \/ AnswersForeign(i)
             \/ AnswersBookedTwice(i)
    BY <1>1, <2>2, <2>4, AsksAre, AskGood
  <2>5. CASE RecordOk(i) \/ RecordOutOfStock(i) \/ RecordNoAnswer(i)
    BY <1>1, <2>2, <2>5, RecordGood, NoAnswerGood
  <2>6. CASE \/ LookupFinds(i) \/ VerifyFinds(i) \/ LookupEmpty(i) \/ LookupFails(i)
    BY <1>1, <2>2, <2>6, LookupFindsGood, LookupEmptyGood
  <2>7. CASE VerifyEmpty(i) \/ RejectTaken(i)
    <3>1. Reject(i) /\ pass[i].pc \in Busy
      BY <2>7 DEF VerifyEmpty, RejectTaken, Busy
    <3>2. pass[i].at \in Suppliers
      BY <1>1, <3>1, ReqType
    <3> QED
      BY <1>1, <2>2, <3>1, <3>2, RejectEffect
  <2>8. CASE Limited(i) \/ LookupLimited(i) \/ Crash(i)
    BY <1>1, <2>2, <2>8, DropsAre, DropGood
  <2> QED
    BY <1>3, <2>3, <2>4, <2>5, <2>6, <2>7, <2>8 DEF Undisturbed, Disturbed
<1> QED
  BY <1>2, <1>3

\* Every step is a step of one unit's pass, or the landing of a request.
LEMMA ChainStep ==
  ASSUME ChainInv, [Next]_vars
  PROVE  ChainInv'
<1>1. /\ TypeOK /\ DistinctCodes
      /\ \A i \in Items : UnitOK(i)
  BY DEF ChainInv, UnitOK
<1>2. ASSUME NEW i \in Items, Good(i), DistinctCodes'
      PROVE  ChainInv'
  <2>1. \A j \in Items : UnitOK(j)'
    BY <1>1, <1>2, KeptOK DEF Good
  <2> QED
    BY <1>2, <2>1 DEF ChainInv, UnitOK, Good
<1>3. ASSUME NEW i \in Items, Undisturbed(i) \/ Disturbed(i)
      PROVE  Good(i) /\ DistinctCodes'
  BY <1>3, ChainStepUnit
<1>4. ASSUME NEW r \in flight, Lands(r)
      PROVE  ChainInv'
  <2>1. TypeOK' /\ \A j \in Items : UnitOK(j)'
    BY <1>1, <1>4, LandsKeeps, KeptOK
  <2>2. DistinctCodes'
    BY <1>1, <1>4, LandsEffect DEF DistinctCodes, tables
  <2> QED
    BY <2>1, <2>2 DEF ChainInv, UnitOK
<1>5. CASE UNCHANGED vars
  <2>1. TypeOK' /\ BookKept /\ \A j \in Items : Kept(j)
    BY <1>1, <1>5 DEF vars, tables, suppliersSide, TypeOK, BookKept, Kept
  <2>2. DistinctCodes'
    BY <1>1, <1>5 DEF vars, tables, DistinctCodes
  <2> QED
    BY <1>1, <2>1, <2>2, KeptOK DEF ChainInv, UnitOK
<1> QED
  BY <1>2, <1>3, <1>4, <1>5 DEF Next

\* The inductive invariant holds whatever goes wrong outside.
THEOREM ChainCorrect == Spec => []ChainInv
<1>1. Init => ChainInv
  BY ChainInit
<1>2. ChainInv /\ [Next]_vars => ChainInv'
  BY ChainStep
<1> QED
  BY <1>1, <1>2, PTL DEF Spec

\* Every reachable state is well typed: no round beyond SUPPLIER_MAX_ROUNDS is
\* counted, no attempt beyond SUPPLIER_MAX_ATTEMPTS is made.
THEOREM ChainTypes == Spec => []TypeOK
<1>1. ChainInv => TypeOK
  BY DEF ChainInv
<1> QED
  BY <1>1, ChainCorrect, PTL

\* The customer gets the booked code, and nobody else gets it (accept, complete).
THEOREM BookedIsDelivered == Spec => []DeliveredAsBooked
<1>1. ASSUME ChainInv PROVE DeliveredAsBooked
  <2>1. ASSUME NEW i \in Items, itemStatus[i] = "delivered"
        PROVE  /\ source[i] \in Suppliers
               /\ Round(i, source[i]) \in 1..MaxRounds
               /\ deliveries[i] = book[<<i, source[i], Round(i, source[i])>>]
               /\ deliveries[i] # NoCode
    <3>1. DeliveryOK(i) /\ TypeOK
      BY <1>1 DEF ChainInv
    <3>2. source[i] \in Suppliers /\ Round(i, source[i]) <= MaxRounds
      BY <2>1, <3>1 DEF DeliveryOK
    <3>3. Round(i, source[i]) \in 1..MaxRounds
      BY <3>1, <3>2, SupplierAssumption DEF Round, TypeOK
    <3> QED
      BY <2>1, <3>1, <3>2, <3>3 DEF DeliveryOK, Current
  <2>2. \A i, j \in Items : i # j /\ deliveries[i] # NoCode => deliveries[i] # deliveries[j]
    BY <1>1 DEF ChainInv, DistinctCodes
  <2> QED
    BY <2>1, <2>2 DEF DeliveredAsBooked
<1> QED
  BY <1>1, ChainCorrect, PTL

\* An open question is settled before anybody else is asked and before money
\* goes back (supplierChain, deliverItem).
THEOREM OpenFirst == Spec => []OpenComesFirst
<1>1. ASSUME ChainInv PROVE OpenComesFirst
  <2>1. ASSUME NEW i \in Items
        PROVE  /\ \A s, t \in open[i] : s = t
               /\ pass[i].pc \notin {"idle", "turn"} => open[i] \subseteq {pass[i].at}
               /\ itemStatus[i] = "refunding" => open[i] = {}
    <3>1. QuestionOK(i) /\ pass[i].pc \in PC
      BY <1>1 DEF ChainInv, TypeOK, PassState
    <3> QED
      BY <3>1 DEF QuestionOK, PC, Busy
  <2> QED
    BY <2>1 DEF OpenComesFirst
<1> QED
  BY <1>1, ChainCorrect, PTL

------------------------------------------------------------------------------
(* HoldInv, as long as no untraced disturbance happens.                    *)

HoldUnit(i) == RoundsOK(i) /\ HoldOK(i) /\ FlightOK(i)

\* No code more is booked, or may be booked, for the unit j.
NoMore(j) ==
  /\ \A s \in Suppliers, n \in 1..MaxRounds :
       /\ book'[<<j, s, n>>] # NoCode =>
            book[<<j, s, n>>] # NoCode \/ (<<j, s, n>> \in flight /\ free[s] # {})
       /\ <<j, s, n>> \in flight' => <<j, s, n>> \in flight
  /\ \A s \in Suppliers : free'[s] \subseteq free[s]

LEMMA RoundType ==
  ASSUME TypeOK, NEW i \in Items, NEW s \in Suppliers
  PROVE  Round(i, s) \in 1..(MaxRounds + 1)
BY SupplierAssumption DEF TypeOK, Round

LEMMA LessHeld ==
  ASSUME TypeOK, NEW j \in Items, NoMore(j), rejected'[j] = rejected[j]
  PROVE  /\ \A s \in Suppliers : MayBook(j, s)' => MayBook(j, s)
         /\ MayHold(j)' \subseteq MayHold(j)
         /\ RoundsOK(j) => RoundsOK(j)'
<1>1. \A s : Round(j, s)' = Round(j, s)
  BY DEF Round
<1>2. ASSUME NEW s \in Suppliers, Round(j, s) <= MaxRounds
      PROVE  Round(j, s) \in 1..MaxRounds
  BY <1>2, RoundType, SupplierAssumption
<1>3. ASSUME NEW s \in Suppliers, MayBook(j, s)'
      PROVE  MayBook(j, s)
  BY <1>1, <1>2, <1>3 DEF MayBook, Current, NoMore
<1>4. ASSUME NEW s \in Suppliers, s \in Holders(j)'
      PROVE  s \in Holders(j) \/ MayBook(j, s)
  BY <1>1, <1>2, <1>4 DEF Holders, MayBook, Current, NoMore
<1>5. MayHold(j)' \subseteq MayHold(j)
  BY <1>3, <1>4 DEF MayHold
<1>6. ASSUME RoundsOK(j), NEW s \in Suppliers, NEW n \in 1..MaxRounds, n > Round(j, s)'
      PROVE  book'[<<j, s, n>>] = NoCode /\ <<j, s, n>> \notin flight'
  <2>1. book[<<j, s, n>>] = NoCode /\ <<j, s, n>> \notin flight
    BY <1>1, <1>6 DEF RoundsOK
  <2> QED
    BY <2>1 DEF NoMore
<1> QED
  BY <1>3, <1>5, <1>6 DEF RoundsOK

LEMMA KeptHold ==
  ASSUME TypeOK, NEW j \in Items, HoldUnit(j), Kept(j), NoMore(j)
  PROVE  HoldUnit(j)'
<1>1. /\ \A s \in Suppliers : MayBook(j, s)' => MayBook(j, s)
      /\ MayHold(j)' \subseteq MayHold(j)
      /\ RoundsOK(j)'
  BY LessHeld DEF HoldUnit, Kept
<1>2. HoldOK(j)'
  BY <1>1 DEF HoldUnit, HoldOK, Kept
<1>3. FlightOK(j)'
  BY <1>1 DEF HoldUnit, FlightOK, Kept
<1> QED
  BY <1>1, <1>2, <1>3 DEF HoldUnit

\* When nothing is booked or sent, nobody holds more.
LEMMA SuppliersIdle ==
  ASSUME TypeOK, NEW i \in Items, UNCHANGED <<book, free, flight>>
  PROVE  NoMore(i)
BY DEF NoMore

LEMMA MayBookHolds ==
  ASSUME NEW i, NEW s \in Suppliers, MayBook(i, s)
  PROVE  s \in MayHold(i)
BY DEF MayHold

LEMMA DisturbTraces ==
  ASSUME NEW k, Disturb(k), Traced'
  PROVE  Traced /\ k \notin Untraced
<1>1. trouble'.untraced = (trouble.untraced \/ k \in Untraced)
  BY DEF Disturb
<1> QED
  BY <1>1, Zenon DEF Traced

LEMMA NotDisturbed ==
  ASSUME Traced', NEW k \in Untraced
  PROVE  ~Disturb(k)
BY DisturbTraces

LEMMA BeginHold ==
  ASSUME TypeOK, Traced', NEW i \in Items, UnitOK(i), HoldUnit(i), Begin(i), NoMore(i)
  PROVE  HoldUnit(i)'
<1> DEFINE p == [Idle EXCEPT !.pc = "turn", !.left = Suppliers, !.doubt = open[i]]
<1>1. /\ pass[i].pc = "idle" /\ itemStatus[i] = "pending"
      /\ UNCHANGED <<itemStatus, open, rejected, flight>>
  BY DEF Begin, tables, suppliersSide
<1>2. open[i] \in SUBSET Suppliers
  BY DEF TypeOK
<1>3. p \in PassState /\ Moves(i, p) /\ p.pc = "turn"
  BY <1>2, StartType DEF Begin, Idle
<1> HIDE DEF p
<1>4. pass'[i].pc = "turn"
  BY <1>3, MovesEffect DEF TypeOK
<1>5. \A r \in flight : r[1] # i
  BY NotDisturbed DEF Begin, Untraced
<1>6. \A s \in Suppliers : ~MayBook(i, s)
  BY <1>5 DEF MayBook, Current
<1>7. /\ \A s \in Suppliers : MayBook(i, s)' => MayBook(i, s)
      /\ MayHold(i)' \subseteq MayHold(i)
      /\ RoundsOK(i)'
  BY <1>1, LessHeld DEF HoldUnit
<1>8. MayHold(i) \subseteq open[i]
  BY <1>1 DEF HoldUnit, HoldOK
<1>9. HoldOK(i)'
  BY <1>1, <1>4, <1>7, <1>8 DEF HoldOK, Busy
<1>10. FlightOK(i)'
  BY <1>4, <1>6, <1>7 DEF FlightOK
<1> QED
  BY <1>7, <1>9, <1>10 DEF HoldUnit

LEMMA TurnHold ==
  ASSUME TypeOK, NEW i \in Items, UnitOK(i), HoldUnit(i), Turn(i), NoMore(i), UnitOK(i)'
  PROVE  HoldUnit(i)'
<1>1. /\ pass[i] \in PassState /\ pass[i].pc = "turn" /\ itemStatus[i] = "pending"
      /\ UNCHANGED <<itemStatus, open, rejected>>
  BY DEF TypeOK, UnitOK, PassOK, Turn, tables
<1>2. PICK s \in NextInLine(i) :
        Moves(i, IF Round(i, s) <= MaxRounds
                   THEN Asking(pass[i], s)
                   ELSE [pass[i] EXCEPT !.left = @ \ {s}])
  BY DEF Turn
<1>3. s \in Suppliers
  BY <1>2, NextInLineType
<1>4. \/ pass'[i].pc = "ask" /\ ~pass'[i].sawTimeout
      \/ pass'[i].pc = "turn"
  <2>1. CASE Round(i, s) <= MaxRounds
    <3>1. /\ Asking(pass[i], s) \in PassState
          /\ Asking(pass[i], s).pc = "ask" /\ ~Asking(pass[i], s).sawTimeout
      BY <1>1, <1>3, AskingType, AskingFields
    <3>2. Moves(i, Asking(pass[i], s))
      BY <1>2, <2>1
    <3>3. pass'[i] = Asking(pass[i], s)
      BY <3>1, <3>2, MovesEffect DEF TypeOK
    <3> QED
      BY <3>1, <3>3
  <2>2. CASE ~(Round(i, s) <= MaxRounds)
    <3> DEFINE q == [pass[i] EXCEPT !.left = @ \ {s}]
    <3>1. q \in PassState /\ q.pc = "turn" /\ Moves(i, q)
      BY <1>1, <1>2, <2>2, SkipType DEF PassState
    <3> HIDE DEF q
    <3>2. pass'[i] = q
      BY <3>1, MovesEffect DEF TypeOK
    <3> QED
      BY <3>1, <3>2
  <2> QED
    BY <2>1, <2>2
<1>5. /\ \A t \in Suppliers : MayBook(i, t)' => MayBook(i, t)
      /\ MayHold(i)' \subseteq MayHold(i)
      /\ RoundsOK(i)'
  BY <1>1, LessHeld DEF HoldUnit
<1>6. \A t \in Suppliers : ~MayBook(i, t)
  BY <1>1 DEF HoldUnit, FlightOK, Busy
<1>7. MayHold(i) \subseteq open[i]
  BY <1>1 DEF HoldUnit, HoldOK
<1>8. pass'[i].pc = "ask" => open'[i] \subseteq {pass'[i].at}
  BY DEF UnitOK, QuestionOK, Busy
<1>9. HoldOK(i)'
  BY <1>1, <1>4, <1>5, <1>7, <1>8 DEF HoldOK, Busy
<1>10. FlightOK(i)'
  BY <1>4, <1>5, <1>6 DEF FlightOK
<1> QED
  BY <1>5, <1>9, <1>10 DEF HoldUnit

\* A pass that ends while its unit is pending: whoever may hold a code is open.
LEMMA EndHold ==
  ASSUME TypeOK, NEW i \in Items, HoldUnit(i), Ends(i), NoMore(i),
         rejected'[i] = rejected[i], itemStatus'[i] = "pending",
         MayHold(i) \subseteq open'[i]
  PROVE  HoldUnit(i)'
<1>1. Idle \in PassState /\ Idle.pc = "idle" /\ Moves(i, Idle)
  BY IdleType DEF Ends, Idle
<1>2. pass'[i].pc = "idle"
  BY <1>1, MovesEffect DEF TypeOK
<1>3. MayHold(i)' \subseteq MayHold(i) /\ RoundsOK(i)'
  BY LessHeld DEF HoldUnit
<1>4. HoldOK(i)'
  BY <1>2, <1>3 DEF HoldOK, Busy
<1>5. FlightOK(i)'
  BY <1>2 DEF FlightOK
<1> QED
  BY <1>3, <1>4, <1>5 DEF HoldUnit

\* A definite "no": nobody holds a code, and the chain goes on.
LEMMA NoneHold ==
  ASSUME TypeOK, NEW i \in Items, HoldUnit(i), NoMore(i),
         rejected'[i] = rejected[i], pass'[i].pc = "turn", MayHold(i) = {}
  PROVE  HoldUnit(i)'
<1>1. /\ \A t \in Suppliers : MayBook(i, t)' => MayBook(i, t)
      /\ MayHold(i)' = {} /\ RoundsOK(i)'
  BY LessHeld DEF HoldUnit
<1>2. \A t \in Suppliers : ~MayBook(i, t)
  BY MayBookHolds
<1>3. HoldOK(i)'
  BY <1>1 DEF HoldOK
<1>4. FlightOK(i)'
  BY <1>1, <1>2 DEF FlightOK
<1> QED
  BY <1>1, <1>3, <1>4 DEF HoldUnit

\* The pass stays with the supplier that may hold a code.
LEMMA StaysHold ==
  ASSUME TypeOK, NEW i \in Items, UnitOK(i), HoldUnit(i), NoMore(i),
         rejected'[i] = rejected[i], itemStatus'[i] = "pending",
         pass[i].pc \in Busy, pass'[i].pc \in {"ask", "lookup", "verify", "complete"},
         pass'[i].at = pass[i].at, pass'[i].doubt = pass[i].doubt,
         (pass[i].sawTimeout \/ (pass[i].pc = "record" /\ pass[i].answer = "timeout"))
           => pass'[i].sawTimeout,
         pass'[i].pc = "ask" /\ pass'[i].sawTimeout => pass'[i].unknown,
         pass'[i].pc = "ask" => MayHold(i) \subseteq open'[i]
  PROVE  HoldUnit(i)'
<1>1. /\ \A t \in Suppliers : MayBook(i, t)' => MayBook(i, t)
      /\ MayHold(i)' \subseteq MayHold(i) /\ RoundsOK(i)'
  BY LessHeld DEF HoldUnit
<1>2. MayHold(i) \subseteq {pass[i].at}
  BY DEF HoldUnit, HoldOK
<1>3. HoldOK(i)'
  BY <1>1, <1>2 DEF HoldOK, Busy
<1>4. FlightOK(i)'
  BY <1>1 DEF HoldUnit, FlightOK, Busy
<1> QED
  BY <1>1, <1>3, <1>4 DEF HoldUnit

\* The answers. An answer of "unreachable" leaves the supplier as it was, one
\* of "out_of_stock" shows that it has booked nothing and can book nothing.
LEMMA AnsweredHold ==
  ASSUME TypeOK, NEW i \in Items, UnitOK(i), HoldUnit(i), AskStep(i),
         NEW a \in Answers, NEW c \in Codes \cup {NoCode}, Answered(i, a, c),
         a = "unreachable" => UNCHANGED <<book, free, flight>>,
         a = "out_of_stock" => /\ UNCHANGED <<book, free, flight>>
                               /\ book[Req(i)] = NoCode /\ free[pass[i].at] = {},
         flight' = flight \/ (a = "timeout" /\ pass[i].at \notin pass[i].doubt)
  PROVE  HoldUnit(i)'
<1>1. /\ pass[i] \in PassState /\ pass[i].pc = "ask" /\ itemStatus[i] = "pending"
      /\ UNCHANGED <<itemStatus, open, rejected>>
  BY DEF TypeOK, AskStep, UnitOK, PassOK, tables
<1>2. PICK s \in Suppliers : s = pass[i].at
  BY <1>1, ReqType DEF UnitOK, Busy
<1>3. Req(i) = <<i, s, Round(i, s)>> /\ Req(i) \in Requests /\ Round(i, s) \in 1..MaxRounds
  BY <1>1, <1>2, ReqType DEF UnitOK, Busy, Current
<1> DEFINE p == [pass[i] EXCEPT !.pc = "record", !.answer = a, !.code = c]
<1>4. p \in PassState /\ Moves(i, p)
  BY <1>1, AnsweredType DEF Answered
<1>5. /\ p.pc = "record" /\ p.answer = a /\ p.at = s /\ p.doubt = pass[i].doubt
      /\ p.unknown = pass[i].unknown /\ p.sawTimeout = pass[i].sawTimeout
  BY <1>1, <1>2 DEF PassState
<1> HIDE DEF p
<1>6. pass'[i] = p
  BY <1>4, MovesEffect DEF TypeOK
<1>7. \A t : Round(i, t)' = Round(i, t)
  BY <1>1 DEF Round
<1>8. MayHold(i) \subseteq open[i] /\ open[i] \subseteq {s}
  BY <1>1, <1>2 DEF HoldUnit, HoldOK, UnitOK, QuestionOK, Busy
<1>9. ASSUME NEW t \in Suppliers, NEW n \in 1..MaxRounds, <<t, n>> # <<s, Round(i, s)>>
      PROVE  /\ book'[<<i, t, n>>] = book[<<i, t, n>>]
             /\ <<i, t, n>> \in flight' <=> <<i, t, n>> \in flight
  <2>1. <<i, t, n>> \in Requests /\ <<i, t, n>> # Req(i)
    BY <1>3, <1>9 DEF Requests
  <2> QED
    BY <2>1 DEF AskStep, BooksOnly
<1>10. ASSUME NEW t \in Suppliers, t # s
       PROVE  t \notin MayHold(i)'
  <2>1. Round(i, t) <= MaxRounds => Round(i, t) \in 1..MaxRounds
    BY RoundType, SupplierAssumption
  <2>2. free'[t] \subseteq free[t]
    BY DEF AskStep, BooksOnly
  <2>3. t \notin MayHold(i)
    BY <1>8, <1>10
  <2> QED
    BY <1>7, <1>9, <1>10, <2>1, <2>2, <2>3 DEF MayHold, Holders, MayBook, Current
<1>11. MayHold(i)' \subseteq {s}
  <2>1. \A t \in MayHold(i)' : t \in Suppliers
    BY DEF MayHold
  <2> QED
    BY <1>10, <2>1
<1>12. UNCHANGED <<book, free, flight>> => MayHold(i)' \subseteq MayHold(i)
  BY <1>1, LessHeld, SuppliersIdle
<1>13. a = "out_of_stock" => s \notin MayHold(i)
  BY <1>2, <1>3 DEF MayHold, Holders, MayBook
<1>14. RoundsOK(i)'
  <2>1. ASSUME NEW t \in Suppliers, NEW n \in 1..MaxRounds, n > Round(i, t)'
        PROVE  book'[<<i, t, n>>] = NoCode /\ <<i, t, n>> \notin flight'
    <3>1. n > Round(i, t) /\ n \in Nat /\ Round(i, t) \in Nat
      BY <1>7, <2>1, RoundType, SupplierAssumption
    <3>2. <<t, n>> # <<s, Round(i, s)>>
      BY <3>1
    <3>3. book[<<i, t, n>>] = NoCode /\ <<i, t, n>> \notin flight
      BY <3>1 DEF HoldUnit, RoundsOK
    <3> QED
      BY <1>9, <3>2, <3>3
  <2> QED
    BY <2>1 DEF RoundsOK
<1>15. HoldOK(i)'
  <2>1. a = "unreachable" => MayHold(i)' \subseteq open'[i]
    BY <1>1, <1>8, <1>12
  <2>2. a = "out_of_stock" => MayHold(i)' = {}
    BY <1>8, <1>12, <1>13
  <2> QED
    BY <1>1, <1>5, <1>6, <1>11, <2>1, <2>2 DEF HoldOK, Busy
<1>16. ASSUME NEW t \in Suppliers, MayBook(i, t)'
       PROVE  /\ t = s /\ s \notin pass[i].doubt
              /\ pass[i].sawTimeout \/ a = "timeout"
  <2>1. t = s
    BY <1>11, <1>16 DEF MayHold
  <2>2. CASE flight' = flight
    <3>1. free'[s] \subseteq free[s]
      BY DEF AskStep, BooksOnly
    <3>2. MayBook(i, s)
      BY <1>7, <1>16, <2>1, <2>2, <3>1 DEF MayBook, Current
    <3> QED
      BY <1>1, <1>2, <2>1, <3>2 DEF HoldUnit, FlightOK, Busy
  <2>3. CASE a = "timeout" /\ pass[i].at \notin pass[i].doubt
    BY <1>2, <2>1, <2>3
  <2> QED
    BY <2>2, <2>3
<1>17. FlightOK(i)'
  <2>1. pass[i].sawTimeout => pass[i].unknown
    BY <1>1 DEF HoldUnit, FlightOK
  <2> QED
    BY <1>5, <1>6, <1>16, <2>1 DEF FlightOK, Busy
<1> QED
  BY <1>14, <1>15, <1>17 DEF HoldUnit

LEMMA AskHold ==
  ASSUME TypeOK, Traced', NEW i \in Items, UnitOK(i), HoldUnit(i), AskStep(i),
         \/ Issues(i) \/ OutOfStock(i) \/ Fails(i) \/ TooLate(i) \/ LeftInFlight(i)
         \/ Unreachable(i) \/ AnswersForeign(i) \/ AnswersBookedTwice(i)
  PROVE  HoldUnit(i)'
<1> DEFINE Ok(a, c) ==
      /\ Answered(i, a, c)
      /\ a = "unreachable" => UNCHANGED <<book, free, flight>>
      /\ a = "out_of_stock" => /\ UNCHANGED <<book, free, flight>>
                               /\ book[Req(i)] = NoCode /\ free[pass[i].at] = {}
      /\ flight' = flight \/ (a = "timeout" /\ pass[i].at \notin pass[i].doubt)
<1>1. /\ "ok" \in Answers /\ "out_of_stock" \in Answers /\ "error" \in Answers
      /\ "timeout" \in Answers /\ "unreachable" \in Answers
  BY DEF Answers
<1>2. Req(i) \in Requests
  BY ReqType DEF AskStep, UnitOK, Busy
<1>3. book'[Req(i)] \in Codes \cup {NoCode}
  BY <1>2 DEF AskStep, BooksOnly
<1>4. CASE Issues(i)
  <2>1. Ok("ok", book'[Req(i)])
    BY <1>4 DEF Issues
  <2> QED
    BY <1>1, <1>3, <2>1, AnsweredHold
<1>5. CASE OutOfStock(i)
  <2>1. ~Disturb("unavailable")
    BY NotDisturbed DEF Untraced
  <2>2. Ok("out_of_stock", NoCode)
    BY <1>5, <2>1 DEF OutOfStock, suppliersSide
  <2> QED
    BY <1>1, <2>2, AnsweredHold
<1>6. CASE Fails(i)
  <2>1. Ok("error", NoCode)
    BY <1>6 DEF Fails
  <2> QED
    BY <1>1, <2>1, AnsweredHold
<1>7. CASE TooLate(i)
  <2>1. Ok("timeout", NoCode)
    BY <1>7 DEF TooLate
  <2> QED
    BY <1>1, <2>1, AnsweredHold
<1>8. CASE LeftInFlight(i)
  <2>1. ~Disturb("broken") /\ ~Disturb("slow_again")
    BY NotDisturbed DEF Untraced
  <2>2. Ok("timeout", NoCode)
    BY <1>8, <2>1 DEF LeftInFlight
  <2> QED
    BY <1>1, <2>2, AnsweredHold
<1>9. CASE Unreachable(i)
  <2>1. Ok("unreachable", NoCode)
    BY <1>9 DEF Unreachable, suppliersSide
  <2> QED
    BY <1>1, <2>1, AnsweredHold
<1>10. CASE AnswersForeign(i)
  <2>1. PICK c \in Codes : Ok("ok", c)
    BY <1>10 DEF AnswersForeign
  <2> QED
    BY <1>1, <2>1, AnsweredHold
<1>11. CASE AnswersBookedTwice(i)
  <2>1. Ok("ok", book'[Req(i)])
    BY <1>11 DEF AnswersBookedTwice
  <2> QED
    BY <1>1, <1>3, <2>1, AnsweredHold
<1> QED
  BY <1>4, <1>5, <1>6, <1>7, <1>8, <1>9, <1>10, <1>11

LEMMA RecordHold ==
  ASSUME TypeOK, NEW i \in Items, UnitOK(i), HoldUnit(i), NoMore(i),
         RecordOk(i) \/ RecordOutOfStock(i)
  PROVE  HoldUnit(i)'
<1>1. /\ pass[i] \in PassState /\ pass[i].pc = "record" /\ itemStatus[i] = "pending"
      /\ UNCHANGED <<itemStatus, rejected>>
  BY DEF TypeOK, UnitOK, PassOK, RecordOk, RecordOutOfStock
<1>2. CASE RecordOk(i)
  <2> DEFINE p == [pass[i] EXCEPT !.pc = "verify"]
  <2>1. p \in PassState /\ Moves(i, p)
    BY <1>1, <1>2, PcType DEF RecordOk, PC
  <2>2. /\ p.pc = "verify" /\ p.at = pass[i].at /\ p.doubt = pass[i].doubt
        /\ p.sawTimeout = pass[i].sawTimeout
    BY <1>1 DEF PassState
  <2> HIDE DEF p
  <2>3. pass'[i] = p
    BY <2>1, MovesEffect DEF TypeOK
  <2>4. pass[i].answer # "timeout"
    BY <1>2 DEF RecordOk
  <2> QED
    BY <1>1, <2>2, <2>3, <2>4, StaysHold DEF Busy
<1>3. CASE RecordOutOfStock(i)
  <2> DEFINE p == [pass[i] EXCEPT !.pc = "turn"]
  <2>1. p \in PassState /\ Moves(i, p)
    BY <1>1, <1>3, PcType DEF RecordOutOfStock, PC
  <2>5. p.pc = "turn"
    BY <1>1 DEF PassState
  <2> HIDE DEF p
  <2>2. pass'[i] = p
    BY <2>1, MovesEffect DEF TypeOK
  <2>3. MayHold(i) = {}
    BY <1>1, <1>3 DEF RecordOutOfStock, HoldUnit, HoldOK
  <2> QED
    BY <1>1, <2>2, <2>3, <2>5, NoneHold
<1> QED
  BY <1>2, <1>3

LEMMA NoAnswerHold ==
  ASSUME TypeOK, NEW i \in Items, UnitOK(i), HoldUnit(i), NoMore(i), RecordNoAnswer(i)
  PROVE  HoldUnit(i)'
<1> DEFINE q == Noted(pass[i])
<1>1. /\ pass[i] \in PassState /\ pass[i].pc = "record" /\ itemStatus[i] = "pending"
      /\ pass[i].answer \in {"unreachable", "error", "timeout"}
      /\ UNCHANGED <<itemStatus, rejected>>
  BY NoAnswerCases DEF TypeOK, UnitOK, PassOK
<1>2. /\ q \in PassState /\ q.at = pass[i].at /\ q.doubt = pass[i].doubt
      /\ q.attempt = pass[i].attempt
      /\ q.unknown = (pass[i].unknown \/ pass[i].answer # "unreachable")
      /\ q.sawTimeout = (pass[i].sawTimeout \/ pass[i].answer = "timeout")
  BY <1>1, NotedType
<1> HIDE DEF q
<1>3. PICK p \in PassState :
        /\ Moves(i, p) /\ p.at = q.at /\ p.doubt = q.doubt
        /\ p.unknown = q.unknown /\ p.sawTimeout = q.sawTimeout
        /\ \/ p.pc = "ask"
           \/ p.pc = "lookup" /\ q.unknown
           \/ p.pc = "turn" /\ ~q.unknown
  <2>1. CASE /\ q.attempt < MaxAttempts
             /\ Moves(i, [q EXCEPT !.pc = "ask", !.attempt = @ + 1])
    <3> DEFINE p == [q EXCEPT !.pc = "ask", !.attempt = @ + 1]
    <3>1. p \in PassState
      BY <1>2, <2>1, AgainType
    <3>2. /\ p.at = q.at /\ p.doubt = q.doubt /\ p.unknown = q.unknown
          /\ p.sawTimeout = q.sawTimeout /\ p.pc = "ask"
      BY <1>2 DEF PassState
    <3> QED
      BY <2>1, <3>1, <3>2
  <2>2. ASSUME NEW c \in {"lookup", "turn"}, Moves(i, [q EXCEPT !.pc = c]),
               c = "lookup" => q.unknown, c = "turn" => ~q.unknown
        PROVE  \E p \in PassState :
                 /\ Moves(i, p) /\ p.at = q.at /\ p.doubt = q.doubt
                 /\ p.unknown = q.unknown /\ p.sawTimeout = q.sawTimeout
                 /\ \/ p.pc = "ask"
                    \/ p.pc = "lookup" /\ q.unknown
                    \/ p.pc = "turn" /\ ~q.unknown
    <3> DEFINE p == [q EXCEPT !.pc = c]
    <3>1. p \in PassState
      BY <1>2, PcType DEF PC
    <3>2. /\ p.at = q.at /\ p.doubt = q.doubt /\ p.unknown = q.unknown
          /\ p.sawTimeout = q.sawTimeout /\ p.pc = c
      BY <1>2 DEF PassState
    <3> QED
      BY <2>2, <3>1, <3>2
  <2> QED
    BY <2>1, <2>2, NoAnswerCases DEF q
<1>4. pass'[i] = p
  BY <1>3, MovesEffect DEF TypeOK
<1>5. MayHold(i) \subseteq {pass[i].at} /\ pass[i].at \in Suppliers
  BY <1>1 DEF HoldUnit, HoldOK, UnitOK, PassOK, Busy
<1>6. pass[i].sawTimeout => pass[i].unknown
  BY <1>1 DEF HoldUnit, FlightOK
<1>7. CASE p.pc = "turn"
  <2>1. ~pass[i].unknown /\ pass[i].answer = "unreachable"
    BY <1>2, <1>3, <1>7
  <2>2. open[i] = {} /\ MayHold(i) \subseteq open[i]
    BY <1>1, <2>1 DEF UnitOK, QuestionOK, HoldUnit, HoldOK
  <2> QED
    BY <1>1, <1>4, <1>7, <2>2, NoneHold
<1>8. CASE p.pc \in {"ask", "lookup"}
  <2>1. MayHold(i) \subseteq open'[i]
    <3>1. CASE pass[i].answer = "unreachable"
      BY <1>1, <3>1, NoAnswerCases DEF HoldUnit, HoldOK
    <3>2. CASE pass[i].answer # "unreachable"
      <4>1. Opens(i)
        BY <3>2, NoAnswerCases
      <4>2. open'[i] = open[i] \cup {pass[i].at}
        BY <1>5, <4>1, OpensEffect, UnitStep DEF Opens, TypeOK
      <4> QED
        BY <1>5, <4>2
    <3> QED
      BY <3>1, <3>2
  <2> QED
    BY <1>1, <1>2, <1>3, <1>4, <1>6, <1>8, <2>1, StaysHold DEF Busy
<1> QED
  BY <1>3, <1>7, <1>8

LEMMA LookupFindsHold ==
  ASSUME TypeOK, NEW i \in Items, UnitOK(i), HoldUnit(i), NoMore(i),
         LookupFinds(i) \/ VerifyFinds(i)
  PROVE  HoldUnit(i)'
<1> DEFINE p == [pass[i] EXCEPT !.pc = "complete", !.code = book[Req(i)]]
<1>1. /\ pass[i] \in PassState /\ pass[i].pc \in {"lookup", "verify"}
      /\ pass[i].pc \in Busy /\ itemStatus[i] = "pending"
      /\ UNCHANGED <<itemStatus, rejected>>
  BY DEF TypeOK, UnitOK, PassOK, LookupFinds, VerifyFinds, Busy, tables
<1>2. book[Req(i)] \in Codes \cup {NoCode}
  BY <1>1, ReqType DEF UnitOK, TypeOK
<1>3. p \in PassState /\ Moves(i, p)
  BY <1>1, <1>2, CompleteType DEF LookupFinds, VerifyFinds
<1>4. /\ p.pc = "complete" /\ p.at = pass[i].at /\ p.doubt = pass[i].doubt
      /\ p.sawTimeout = pass[i].sawTimeout
  BY <1>1 DEF PassState
<1> HIDE DEF p
<1>5. pass'[i] = p
  BY <1>3, MovesEffect DEF TypeOK
<1> QED
  BY <1>1, <1>4, <1>5, StaysHold

LEMMA LookupEmptyHold ==
  ASSUME TypeOK, NEW i \in Items, UnitOK(i), HoldUnit(i), NoMore(i),
         LookupEmpty(i) \/ LookupFails(i)
  PROVE  HoldUnit(i)'
<1>1. /\ pass[i] \in PassState /\ pass[i].pc \in {"lookup", "verify"}
      /\ pass[i].pc \in Busy /\ itemStatus[i] = "pending"
      /\ UNCHANGED <<itemStatus, rejected>>
  BY DEF TypeOK, UnitOK, PassOK, LookupEmpty, LookupFails, Busy
<1>2. MayHold(i) \subseteq {pass[i].at} /\ pass[i].at \in Suppliers
  BY <1>1 DEF HoldUnit, HoldOK, UnitOK, PassOK
<1>3. CASE Opens(i) /\ Ends(i)
  <2>1. open'[i] = open[i] \cup {pass[i].at}
    BY <1>2, <1>3 DEF Opens, TypeOK
  <2> QED
    BY <1>1, <1>2, <1>3, <2>1, EndHold
<1>4. CASE /\ LookupEmpty(i) /\ EmptyIsFinal(pass[i])
           /\ Moves(i, [pass[i] EXCEPT !.pc = "turn"])
  <2> DEFINE p == [pass[i] EXCEPT !.pc = "turn"]
  <2>1. p \in PassState /\ Moves(i, p)
    BY <1>1, <1>4, PcType DEF PC
  <2>5. p.pc = "turn"
    BY <1>1 DEF PassState
  <2> HIDE DEF p
  <2>2. pass'[i] = p
    BY <2>1, MovesEffect DEF TypeOK
  <2>3. pass[i].at \notin MayHold(i)
    <3>1. ~MayBook(i, pass[i].at)
      BY <1>1, <1>2, <1>4 DEF LookupEmpty, EmptyIsFinal, HoldUnit, FlightOK
    <3>2. book[Req(i)] = NoCode
      BY <1>4 DEF LookupEmpty
    <3> QED
      BY <3>1, <3>2 DEF MayHold, Holders, Req
  <2>4. MayHold(i) = {}
    BY <1>2, <2>3
  <2> QED
    BY <1>1, <2>2, <2>4, <2>5, NoneHold
<1> QED
  BY <1>3, <1>4 DEF LookupEmpty, LookupFails

LEMMA RejectHold ==
  ASSUME TypeOK, NEW i \in Items, UnitOK(i), HoldUnit(i),
         pass[i].pc \in Busy, Reject(i)
  PROVE  HoldUnit(i)'
<1>1. PICK s \in Suppliers : s = pass[i].at
  BY ReqType DEF UnitOK
<1>2. /\ open'[i] = {} /\ itemStatus'[i] = "pending"
      /\ \A t \in Suppliers : t # s => rejected'[i][t] = rejected[i][t]
      /\ rejected'[i][s] = rejected[i][s] + 1
      /\ pass'[i].pc \in {"ask", "turn"}
      /\ pass'[i].pc = "ask" => ~pass'[i].sawTimeout
      /\ UNCHANGED <<book, free, flight>>
  BY <1>1, RejectEffect
<1>3. /\ \A t \in Suppliers : t # s => Round(i, t)' = Round(i, t)
      /\ 1 + rejected'[i][s] = Round(i, s) + 1
      /\ Round(i, s) \in 1..MaxRounds
  BY <1>1, <1>2, ReqType DEF Round, UnitOK
<1>4. MayHold(i) \subseteq {s}
  BY <1>1 DEF HoldUnit, HoldOK
<1>5. ASSUME NEW t \in Suppliers
      PROVE  t \notin MayHold(i)' /\ ~MayBook(i, t)'
  <2>1. CASE t # s
    <3>1. t \notin MayHold(i)
      BY <1>4, <2>1
    <3> QED
      BY <1>2, <1>3, <2>1, <3>1 DEF MayHold, Holders, MayBook, Current
  <2>2. CASE t = s
    <3> DEFINE n == Round(i, s) + 1
    <3>1. n \in 1..MaxRounds => book[<<i, s, n>>] = NoCode /\ <<i, s, n>> \notin flight
      BY <1>3 DEF HoldUnit, RoundsOK
    <3>2. Round(i, t)' = n
      BY <1>2, <1>3, <2>2 DEF Round
    <3>3. n <= MaxRounds => n \in 1..MaxRounds
      BY <1>3, SupplierAssumption
    <3> HIDE DEF n
    <3> QED
      BY <1>2, <2>2, <3>1, <3>2, <3>3 DEF MayHold, Holders, MayBook, Current
  <2> QED
    BY <2>1, <2>2
<1>6. MayHold(i)' = {}
  BY <1>5 DEF MayHold
<1>7. RoundsOK(i)'
  <2>1. ASSUME NEW t \in Suppliers, NEW n \in 1..MaxRounds, n > Round(i, t)'
        PROVE  book'[<<i, t, n>>] = NoCode /\ <<i, t, n>> \notin flight'
    <3>1. Round(i, t) \in Nat /\ Round(i, t)' \in {Round(i, t), Round(i, t) + 1}
      BY <1>2, <1>3, RoundType, SupplierAssumption DEF Round
    <3>2. n > Round(i, t)
      BY <2>1, <3>1
    <3> QED
      BY <1>2, <3>2 DEF HoldUnit, RoundsOK
  <2> QED
    BY <2>1 DEF RoundsOK
<1>8. HoldOK(i)'
  BY <1>6 DEF HoldOK
<1>9. FlightOK(i)'
  BY <1>2, <1>5 DEF FlightOK
<1> QED
  BY <1>7, <1>8, <1>9 DEF HoldUnit

LEMMA DecideRefundHold ==
  ASSUME TypeOK, NEW i \in Items, UnitOK(i), HoldUnit(i), NoMore(i), DecideRefund(i)
  PROVE  HoldUnit(i)'
<1>1. /\ pass[i].pc = "turn" /\ itemStatus[i] = "pending" /\ UNCHANGED rejected
      /\ itemStatus'[i] = "refunding"
  BY DEF UnitOK, PassOK, DecideRefund, TypeOK
<1>2. Idle \in PassState /\ Idle.pc = "idle" /\ Moves(i, Idle)
  BY IdleType DEF DecideRefund, Ends, Idle
<1>3. pass'[i].pc = "idle"
  BY <1>2, MovesEffect DEF TypeOK
<1>4. MayHold(i) = {}
  BY <1>1, DecideRefundGood DEF HoldUnit, HoldOK
<1>5. MayHold(i)' = {} /\ RoundsOK(i)'
  BY <1>1, <1>4, LessHeld DEF HoldUnit
<1>6. HoldOK(i)'
  BY <1>5 DEF HoldOK
<1>7. FlightOK(i)'
  BY <1>3 DEF FlightOK
<1> QED
  BY <1>5, <1>6, <1>7 DEF HoldUnit

LEMMA CompleteHold ==
  ASSUME TypeOK, NEW i \in Items, UnitOK(i), HoldUnit(i), NoMore(i), Complete(i)
  PROVE  HoldUnit(i)'
<1>1. /\ pass[i].pc \in Busy /\ UNCHANGED rejected
      /\ itemStatus'[i] = "delivered" /\ source'[i] = pass[i].at
  BY DEF Complete, TypeOK, Busy
<1>2. Idle \in PassState /\ Idle.pc = "idle" /\ Moves(i, Idle)
  BY IdleType DEF Complete, Ends, Idle
<1>3. pass'[i].pc = "idle"
  BY <1>2, MovesEffect DEF TypeOK
<1>4. MayHold(i)' \subseteq {pass[i].at} /\ RoundsOK(i)'
  BY <1>1, LessHeld DEF HoldUnit, HoldOK
<1>5. HoldOK(i)'
  BY <1>1, <1>3, <1>4 DEF HoldOK, Busy
<1>6. FlightOK(i)'
  BY <1>3 DEF FlightOK
<1> QED
  BY <1>4, <1>5, <1>6 DEF HoldUnit

LEMMA LandsHold ==
  ASSUME TypeOK, Traced', NEW r \in flight, Lands(r), NEW j \in Items
  PROVE  NoMore(j)
<1>1. r \in Requests /\ BooksOnly(r) /\ flight' = flight \ {r}
  BY LandsEffect
<1>2. ~Disturb("late_lie")
  BY NotDisturbed DEF Untraced
<1>3. book[r] = NoCode /\ book'[r] # NoCode => free[r[2]] # {}
  BY <1>1, <1>2, ReserveBooks DEF Lands
<1>4. ASSUME NEW s \in Suppliers, NEW n \in 1..MaxRounds, book'[<<j, s, n>>] # NoCode
      PROVE  book[<<j, s, n>>] # NoCode \/ (<<j, s, n>> \in flight /\ free[s] # {})
  <2>1. CASE <<j, s, n>> = r
    BY <1>3, <1>4, <2>1
  <2>2. CASE <<j, s, n>> # r
    BY <1>1, <1>4, <2>2 DEF BooksOnly, Requests
  <2> QED
    BY <2>1, <2>2
<1> QED
  BY <1>1, <1>4 DEF NoMore, BooksOnly

\* A request of another unit does not matter to j.
LEMMA AskOthers ==
  ASSUME TypeOK, NEW i \in Items, UnitOK(i), AskStep(i), NEW j \in Items, j # i
  PROVE  NoMore(j)
<1>1. Req(i) \in Requests /\ Req(i)[1] = i
  BY ReqType DEF AskStep, UnitOK, Busy
<1>2. ASSUME NEW s \in Suppliers, NEW n \in 1..MaxRounds
      PROVE  <<j, s, n>> \in Requests /\ <<j, s, n>> # Req(i)
  BY <1>1 DEF Requests
<1> QED
  BY <1>2 DEF NoMore, AskStep, BooksOnly

------------------------------------------------------------------------------
(* HoldInv is inductive, given ChainInv.                                   *)

LEMMA HoldInit == Init => HoldInv
<1> SUFFICES ASSUME Init, NEW i \in Items PROVE HoldUnit(i)
  BY DEF HoldInv, HoldUnit
<1>1. /\ itemStatus[i] = "pending" /\ pass[i].pc = "idle" /\ flight = {}
      /\ \A r \in Requests : book[r] = NoCode
  BY DEF Init, Idle
<1>2. TypeOK
  BY ChainInit DEF ChainInv
<1>3. RoundsOK(i)
  BY <1>1 DEF RoundsOK, Requests
<1>4. \A s \in Suppliers : Round(i, s) <= MaxRounds => Current(i, s) \in Requests
  BY <1>2, RoundType, SupplierAssumption DEF Current, Requests
<1>5. MayHold(i) = {}
  BY <1>1, <1>4 DEF MayHold, MayBook, Holders, Current
<1>6. HoldOK(i) /\ FlightOK(i)
  BY <1>1, <1>5 DEF HoldOK, FlightOK, Busy
<1> QED
  BY <1>3, <1>6 DEF HoldUnit

LEMMA UnitHolds ==
  ASSUME Traced', ChainInv, ChainInv', HoldInv, NEW i \in Items,
         Undisturbed(i) \/ Disturbed(i)
  PROVE  HoldUnit(i)' /\ \A j \in Items : j # i => NoMore(j)
<1>1. /\ TypeOK /\ UnitOK(i) /\ PassOK(i) /\ HoldUnit(i) /\ UnitOK(i)'
  BY DEF ChainInv, UnitOK, HoldInv, HoldUnit
<1>2. UNCHANGED <<book, free, flight>> => \A j \in Items : NoMore(j)
  BY <1>1, SuppliersIdle
<1>3. CASE Begin(i) \/ Turn(i) \/ DecideRefund(i) \/ Complete(i)
  <2>1. \A j \in Items : NoMore(j)
    BY <1>2, <1>3 DEF Begin, Turn, DecideRefund, Complete, suppliersSide
  <2> QED
    BY <1>1, <1>3, <2>1, BeginHold, TurnHold, DecideRefundHold, CompleteHold
<1>4. CASE \/ Issues(i) \/ OutOfStock(i) \/ Fails(i) \/ TooLate(i) \/ LeftInFlight(i)
           \/ Unreachable(i) \/ AnswersForeign(i) \/ AnswersBookedTwice(i)
  <2>1. AskStep(i)
    BY <1>1, <1>4, AsksAre
  <2> QED
    BY <1>1, <1>4, <2>1, AskHold, AskOthers
<1>5. CASE RecordOk(i) \/ RecordOutOfStock(i) \/ RecordNoAnswer(i)
  <2>1. \A j \in Items : NoMore(j)
    BY <1>2, <1>5 DEF RecordOk, RecordOutOfStock, RecordNoAnswer, suppliersSide
  <2> QED
    BY <1>1, <1>5, <2>1, RecordHold, NoAnswerHold
<1>6. CASE LookupFinds(i) \/ VerifyFinds(i) \/ LookupEmpty(i) \/ LookupFails(i)
  <2>1. \A j \in Items : NoMore(j)
    BY <1>2, <1>6 DEF LookupFinds, VerifyFinds, LookupEmpty, LookupFails, suppliersSide
  <2> QED
    BY <1>1, <1>6, <2>1, LookupFindsHold, LookupEmptyHold
<1>7. CASE VerifyEmpty(i) \/ RejectTaken(i)
  <2>1. Reject(i) /\ pass[i].pc \in Busy
    BY <1>7 DEF VerifyEmpty, RejectTaken, Busy
  <2>2. \A j \in Items : NoMore(j)
    BY <1>2, <2>1 DEF Reject, suppliersSide
  <2> QED
    BY <1>1, <2>1, <2>2, RejectHold
<1>8. CASE Limited(i) \/ LookupLimited(i) \/ Crash(i)
  <2>1. ~Disturb("lookup_limit") /\ ~Disturb("crash")
    BY NotDisturbed DEF Untraced
  <2>2. /\ pass[i].pc = "ask" /\ Ends(i)
        /\ UNCHANGED <<tables, suppliersSide>>
    BY <1>8, <2>1 DEF Limited, LookupLimited, Crash
  <2>3. \A j \in Items : NoMore(j)
    BY <1>2, <2>2 DEF suppliersSide
  <2>4. itemStatus[i] = "pending" /\ MayHold(i) \subseteq open[i]
    BY <1>1, <2>2 DEF PassOK, HoldUnit, HoldOK
  <2> QED
    BY <1>1, <2>2, <2>3, <2>4, EndHold DEF tables
<1> QED
  BY <1>3, <1>4, <1>5, <1>6, <1>7, <1>8 DEF Undisturbed, Disturbed

\* A step of i's pass leaves the other units' rows and passes alone.
LEMMA OthersKept ==
  ASSUME ChainInv, NEW i \in Items, Undisturbed(i) \/ Disturbed(i)
  PROVE  \A j \in Items : j # i => Kept(j)
BY ChainStepUnit DEF Good

\* What was untraced remains so.
LEMMA TracedBefore ==
  ASSUME [Next]_vars, Traced'
  PROVE  Traced
<1>1. ASSUME NEW i \in Items, Undisturbed(i)
      PROVE  UNCHANGED trouble \/ \E k : Disturb(k)
  <2>1. CASE Begin(i) \/ Turn(i) \/ DecideRefund(i) \/ Issues(i) \/ OutOfStock(i)
    BY <2>1 DEF Begin, Turn, DecideRefund, Issues, OutOfStock
  <2>2. CASE RecordOk(i) \/ RecordOutOfStock(i) \/ RecordNoAnswer(i) \/ Complete(i)
    BY <2>2 DEF RecordOk, RecordOutOfStock, RecordNoAnswer, Complete, vars
  <2>3. CASE LookupFinds(i) \/ LookupEmpty(i) \/ VerifyEmpty(i) \/ VerifyFinds(i) \/ RejectTaken(i)
    BY <2>3 DEF LookupFinds, LookupEmpty, VerifyEmpty, VerifyFinds, RejectTaken, Reject
  <2> QED
    BY <1>1, <2>1, <2>2, <2>3 DEF Undisturbed
<1>2. ASSUME NEW i \in Items, Disturbed(i)
      PROVE  UNCHANGED trouble \/ \E k : Disturb(k)
  BY <1>2 DEF Disturbed, Fails, TooLate, LeftInFlight, Unreachable, AnswersForeign,
              AnswersBookedTwice, Limited, LookupLimited, LookupFails, Crash
<1>3. ASSUME NEW r \in flight, Lands(r)
      PROVE  UNCHANGED trouble \/ \E k : Disturb(k)
  BY <1>3 DEF Lands
<1>4. UNCHANGED trouble \/ \E k : Disturb(k)
  BY <1>1, <1>2, <1>3 DEF Next, vars
<1> QED
  BY <1>4, DisturbTraces DEF Traced

LEMMA HoldStep ==
  ASSUME Traced', ChainInv, HoldInv, [Next]_vars
  PROVE  HoldInv'
<1>1. ChainInv' /\ TypeOK /\ \A j \in Items : HoldUnit(j)
  BY ChainStep DEF ChainInv, HoldInv, HoldUnit
<1>2. ASSUME NEW i \in Items, Undisturbed(i) \/ Disturbed(i)
      PROVE  HoldInv'
  <2>1. HoldUnit(i)' /\ \A j \in Items : j # i => NoMore(j) /\ Kept(j)
    BY <1>1, <1>2, UnitHolds, OthersKept
  <2>2. \A j \in Items : HoldUnit(j)'
    BY <1>1, <2>1, KeptHold
  <2> QED
    BY <2>2 DEF HoldInv, HoldUnit
<1>3. ASSUME NEW r \in flight, Lands(r)
      PROVE  HoldInv'
  <2>1. \A j \in Items : Kept(j) /\ NoMore(j)
    BY <1>1, <1>3, LandsKeeps, LandsHold
  <2>2. \A j \in Items : HoldUnit(j)'
    BY <1>1, <2>1, KeptHold
  <2> QED
    BY <2>2 DEF HoldInv, HoldUnit
<1>4. CASE UNCHANGED vars
  <2>1. \A j \in Items : Kept(j) /\ NoMore(j)
    BY <1>1, <1>4, SuppliersIdle DEF vars, tables, suppliersSide, Kept
  <2>2. \A j \in Items : HoldUnit(j)'
    BY <1>1, <2>1, KeptHold
  <2> QED
    BY <2>2 DEF HoldInv, HoldUnit
<1> QED
  BY <1>2, <1>3, <1>4 DEF Next

LEMMA HeldOnce ==
  ASSUME ChainInv, HoldInv
  PROVE  OneHolder
<1>1. ASSUME NEW i \in Items
      PROVE  /\ \A s, t \in Holders(i) : s = t
             /\ itemStatus[i] = "refunding" => Holders(i) = {}
  <2>1. HoldOK(i) /\ QuestionOK(i) /\ itemStatus[i] \in {"pending", "delivered", "refunding"}
        /\ pass[i].pc \in PC
    BY DEF ChainInv, HoldInv, TypeOK, PassState
  <2>2. Holders(i) \subseteq MayHold(i)
    BY DEF Holders, MayHold
  <2>3. CASE itemStatus[i] = "pending" /\ pass[i].pc \in {"idle", "turn", "ask"}
    BY <2>1, <2>2, <2>3 DEF HoldOK, QuestionOK
  <2>4. CASE pass[i].pc \in Busy
    BY <2>1, <2>2, <2>4 DEF HoldOK
  <2>5. CASE itemStatus[i] # "pending"
    BY <2>1, <2>2, <2>5 DEF HoldOK
  <2>6. itemStatus[i] = "refunding" => Holders(i) = {}
    BY <2>1, <2>2 DEF HoldOK
  <2> QED
    BY <2>1, <2>3, <2>4, <2>5, <2>6 DEF PC, Busy
<1> QED
  BY <1>1 DEF OneHolder

TracedInv == ChainInv /\ (Traced => HoldInv)

LEMMA TracedStep == TracedInv /\ [Next]_vars => TracedInv'
<1> SUFFICES ASSUME ChainInv, Traced => HoldInv, [Next]_vars
             PROVE  ChainInv' /\ (Traced' => HoldInv')
  BY DEF TracedInv
<1>1. ChainInv'
  BY ChainStep
<1>2. ASSUME Traced' PROVE HoldInv'
  BY <1>2, TracedBefore, HoldStep
<1> QED
  BY <1>1, <1>2

\* As long as every disturbance is traced, never two suppliers hold a code for
\* one unit, and none does where the money goes back (issue, deliverItem).
THEOREM NeverTwoCodes == Spec => []OneHolderWhileTraced
<1>1. Init => TracedInv
  BY ChainInit, HoldInit DEF TracedInv
<1>2. TracedInv => OneHolderWhileTraced
  BY HeldOnce DEF TracedInv, OneHolderWhileTraced
<1> QED
  BY <1>1, <1>2, TracedStep, PTL DEF Spec

------------------------------------------------------------------------------
(* What a step does to the books and the units: it books at most one       *)
(* request, sent for the current round, or it moves one unit on.           *)

\* Neither the books nor what became of the units.
QuietStep == UNCHANGED <<itemStatus, deliveries, rejected, book, flight>>

\* A supplier works on a request of the current round, or one given up on.
SupplierStep(r) ==
  /\ UNCHANGED <<itemStatus, deliveries, rejected>>
  /\ BooksOnly(r)
  /\ flight' \subseteq flight \cup {r}
  /\ r \in flight \/ \E i \in Items, s \in Suppliers : r = Current(i, s)

LEMMA StepShapes ==
  ASSUME ChainInv, [Next]_vars
  PROVE  \/ QuietStep
         \/ \E r \in Requests : SupplierStep(r)
         \/ \E i \in Items : Reject(i) /\ pass[i].pc \in Busy
         \/ \E i \in Items : Complete(i) \/ DecideRefund(i)
<1>1. TypeOK /\ \A i \in Items : PassOK(i)
  BY DEF ChainInv
<1>2. CASE UNCHANGED vars
  BY <1>2 DEF vars, tables, suppliersSide, QuietStep
<1>3. ASSUME NEW r \in flight, Lands(r) PROVE \E q \in Requests : SupplierStep(q)
  <2>1. r \in Requests /\ BooksOnly(r) /\ flight' = flight \ {r} /\ UNCHANGED tables
    BY <1>1, <1>3, LandsEffect
  <2> QED
    BY <2>1 DEF SupplierStep, tables
<1>4. ASSUME NEW i \in Items,
             \/ Issues(i) \/ OutOfStock(i) \/ Fails(i) \/ TooLate(i) \/ LeftInFlight(i)
             \/ Unreachable(i) \/ AnswersForeign(i) \/ AnswersBookedTwice(i)
      PROVE  \E q \in Requests : SupplierStep(q)
  <2>1. AskStep(i)
    BY <1>1, <1>4, AsksAre
  <2>2. /\ Req(i) \in Requests /\ pass[i].at \in Suppliers
        /\ Req(i) = Current(i, pass[i].at)
    BY <1>1, <2>1, ReqType DEF AskStep, Busy
  <2>3. flight' \subseteq flight \cup {Req(i)} /\ BooksOnly(Req(i)) /\ UNCHANGED tables
    BY <2>1 DEF AskStep
  <2> QED
    BY <2>2, <2>3 DEF SupplierStep, tables
<1>5. ASSUME NEW i \in Items,
             \/ Begin(i) \/ Turn(i) \/ RecordOk(i) \/ RecordOutOfStock(i) \/ RecordNoAnswer(i)
             \/ LookupFinds(i) \/ LookupEmpty(i) \/ VerifyFinds(i) \/ LookupFails(i)
             \/ Limited(i) \/ LookupLimited(i) \/ Crash(i)
      PROVE  QuietStep
  BY <1>5 DEF Begin, Turn, RecordOk, RecordOutOfStock, RecordNoAnswer, LookupFinds,
              LookupEmpty, VerifyFinds, LookupFails, Limited, LookupLimited, Crash,
              tables, suppliersSide, QuietStep
<1>6. ASSUME NEW i \in Items, VerifyEmpty(i) \/ RejectTaken(i)
      PROVE  Reject(i) /\ pass[i].pc \in Busy
  BY <1>6 DEF VerifyEmpty, RejectTaken, Busy
<1> QED
  BY <1>2, <1>3, <1>4, <1>5, <1>6 DEF Next, Undisturbed, Disturbed

\* A request of a round to come has never been sent, whatever went wrong.
LEMMA RoundsStep ==
  ASSUME ChainInv, [Next]_vars, \A i \in Items : RoundsOK(i)
  PROVE  \A i \in Items : RoundsOK(i)'
<1>1. TypeOK /\ \A i \in Items : UnitOK(i)
  BY DEF ChainInv, UnitOK
<1>2. ASSUME NEW j \in Items, rejected'[j] = rejected[j],
             \A s \in Suppliers, n \in 1..MaxRounds : n > Round(j, s) =>
               /\ book'[<<j, s, n>>] = book[<<j, s, n>>]
               /\ <<j, s, n>> \in flight' => <<j, s, n>> \in flight
      PROVE  RoundsOK(j)'
  BY <1>2 DEF RoundsOK, Round
<1>3. CASE QuietStep
  BY <1>2, <1>3 DEF QuietStep
<1>4. ASSUME NEW r \in Requests, SupplierStep(r), NEW j \in Items
      PROVE  RoundsOK(j)'
  <2>1. ASSUME NEW s \in Suppliers, NEW n \in 1..MaxRounds, n > Round(j, s)
        PROVE  /\ book'[<<j, s, n>>] = book[<<j, s, n>>]
               /\ <<j, s, n>> \in flight' => <<j, s, n>> \in flight
    <3>1. <<j, s, n>> \in Requests /\ <<j, s, n>> \notin flight
      BY <2>1 DEF Requests, RoundsOK
    <3>2. Round(j, s) \in 1..(MaxRounds + 1)
      BY <1>1, RoundType
    <3>3. <<j, s, n>> # Current(j, s) /\ n # Round(j, s)
      BY <2>1, <3>2 DEF Current
    <3>4. <<j, s, n>> # r
      BY <1>4, <3>1, <3>3 DEF SupplierStep, Current
    <3> QED
      BY <1>4, <3>1, <3>4 DEF SupplierStep, BooksOnly
  <2> QED
    BY <1>2, <1>4, <2>1 DEF SupplierStep
<1>5. ASSUME NEW i \in Items, Reject(i), pass[i].pc \in Busy, NEW j \in Items
      PROVE  RoundsOK(j)'
  <2>1. pass[i].at \in Suppliers
    BY <1>1, <1>5, ReqType DEF UnitOK
  <2>2. /\ Good(i) /\ UNCHANGED <<book, free, flight>>
        /\ \A t \in Suppliers : t # pass[i].at => rejected'[i][t] = rejected[i][t]
        /\ rejected'[i][pass[i].at] = rejected[i][pass[i].at] + 1
    BY <1>1, <1>5, <2>1, RejectEffect
  <2>3. CASE j # i
    BY <1>2, <2>2, <2>3 DEF Good, Kept
  <2>4. CASE j = i
    <3>1. ASSUME NEW s \in Suppliers, NEW n \in 1..MaxRounds, n > Round(i, s)'
          PROVE  book'[<<i, s, n>>] = NoCode /\ <<i, s, n>> \notin flight'
      <4>1. rejected[i][s] \in 0..MaxRounds
        BY <1>1 DEF TypeOK
      <4>2. n > Round(i, s)
        BY <2>2, <3>1, <4>1 DEF Round
      <4> QED
        BY <2>2, <4>2 DEF RoundsOK
    <3> QED
      BY <2>4, <3>1 DEF RoundsOK
  <2> QED
    BY <2>3, <2>4
<1>6. ASSUME NEW i \in Items, Complete(i) \/ DecideRefund(i)
      PROVE  QuietStep \/ UNCHANGED <<rejected, book, flight>>
  BY <1>6 DEF Complete, DecideRefund, suppliersSide
<1>7. CASE UNCHANGED <<rejected, book, flight>>
  BY <1>2, <1>7
<1> QED
  BY <1>3, <1>4, <1>5, <1>6, <1>7, StepShapes

------------------------------------------------------------------------------
(* The refinement: every step is one of Procurement, or changes nothing    *)
(* that Procurement speaks of.                                             *)

BoughtInv == TracedInv /\ \A i \in Items : RoundsOK(i)

LEMMA BoughtInvStep == BoughtInv /\ [Next]_vars => BoughtInv'
<1> SUFFICES ASSUME TracedInv, \A i \in Items : RoundsOK(i), [Next]_vars
             PROVE  TracedInv' /\ \A i \in Items : RoundsOK(i)'
  BY DEF BoughtInv
<1>1. ChainInv
  BY DEF TracedInv
<1> QED
  BY <1>1, TracedStep, RoundsStep

LEMMA BillsAre ==
  ASSUME NEW i \in Items
  PROVE  /\ bills[i] = {<<s, book[<<i, s, Round(i, s)>>]>> : s \in Holders(i)}
         /\ bills'[i] = {<<s, book'[<<i, s, Round(i, s)'>>]>> : s \in Holders(i)'}
BY DEF bills

\* Whose books and rounds are as they were is billed as it was.
LEMMA BilledAsBefore ==
  ASSUME \A i \in Items, s \in Suppliers : Round(i, s) <= MaxRounds =>
           book'[<<i, s, Round(i, s)>>] = book[<<i, s, Round(i, s)>>],
         UNCHANGED rejected
  PROVE  bills' = bills
<1>1. \A i, s : Round(i, s)' = Round(i, s)
  BY DEF Round
<1>2. ASSUME NEW i \in Items
      PROVE  {<<s, book'[<<i, s, Round(i, s)'>>]>> : s \in Holders(i)'}
             = {<<s, book[<<i, s, Round(i, s)>>]>> : s \in Holders(i)}
  BY <1>1 DEF Holders
<1> QED
  BY <1>2 DEF bills

LEMMA OutcomeKept ==
  ASSUME UNCHANGED <<itemStatus, deliveries>>
  PROVE  outcome' = outcome
BY DEF outcome

\* A supplier books a request: the unit is charged for it, if it is of the
\* current round and was not booked before.
LEMMA SupplierCharges ==
  ASSUME ChainInv, ChainInv', (Traced => OneHolder)', NEW r \in Requests, SupplierStep(r)
  PROVE  \/ UNCHANGED <<outcome, bills>>
         \/ \E i \in Items, s \in Suppliers, c \in Codes : Bought!Charge(i, s, c)
<1>1. PICK i \in Items, s \in Suppliers, n \in 1..MaxRounds : r = <<i, s, n>>
  BY DEF Requests
<1>2. /\ TypeOK /\ UNCHANGED <<itemStatus, deliveries, rejected>> /\ outcome' = outcome
      /\ \A q \in Requests : q # r \/ book[q] # NoCode => book'[q] = book[q]
      /\ book'[r] \in Codes \cup {NoCode}
  BY OutcomeKept DEF ChainInv, SupplierStep, BooksOnly
<1>3. /\ \A j, t : Round(j, t)' = Round(j, t)
      /\ \A j \in Items, t \in Suppliers : Round(j, t) <= MaxRounds =>
           <<j, t, Round(j, t)>> \in Requests
  <2>1. \A j, t : Round(j, t)' = Round(j, t)
    BY <1>2 DEF Round
  <2>2. \A j \in Items, t \in Suppliers : Round(j, t) <= MaxRounds =>
          Round(j, t) \in 1..MaxRounds
    BY <1>2, RoundType, SupplierAssumption
  <2> QED
    BY <2>1, <2>2 DEF Requests
<1>4. CASE book'[r] = book[r] \/ n # Round(i, s)
  <2>1. ASSUME NEW j \in Items, NEW t \in Suppliers, Round(j, t) <= MaxRounds
        PROVE  book'[<<j, t, Round(j, t)>>] = book[<<j, t, Round(j, t)>>]
    BY <1>1, <1>2, <1>3, <1>4, <2>1
  <2> QED
    BY <1>2, <2>1, BilledAsBefore
<1>5. CASE book'[r] # book[r] /\ n = Round(i, s)
  <2> DEFINE c == book'[r]
  <2>1. book[r] = NoCode /\ c \in Codes /\ c # NoCode
    BY <1>2, <1>5, SupplierAssumption
  <2>2. /\ Round(i, s) <= MaxRounds /\ r = <<i, s, Round(i, s)>>
        /\ s \in Holders(i)' /\ s \notin Holders(i)
    <3>1. Round(i, s) <= MaxRounds /\ r = <<i, s, Round(i, s)>>
      BY <1>1, <1>5
    <3> QED
      BY <1>3, <2>1, <3>1 DEF Holders
  <2>3. Holders(i) \subseteq Holders(i)'
    BY <1>2, <1>3 DEF Holders
  <2>4. Holders(i)' = Holders(i) \cup {s}
    <3>1. ASSUME NEW t \in Suppliers, t # s, t \in Holders(i)' PROVE t \in Holders(i)
      <4>1. Round(i, t) <= MaxRounds /\ book'[<<i, t, Round(i, t)>>] # NoCode
        BY <1>3, <3>1 DEF Holders
      <4>2. <<i, t, Round(i, t)>> \in Requests /\ <<i, t, Round(i, t)>> # r
        BY <1>1, <1>3, <3>1, <4>1
      <4> QED
        BY <1>2, <4>1, <4>2 DEF Holders
    <3> QED
      BY <2>2, <2>3, <3>1 DEF Holders
  <2>5. bills'[i] = bills[i] \cup {<<s, c>>}
    <3>1. \A t \in Holders(i) : book'[<<i, t, Round(i, t)>>] = book[<<i, t, Round(i, t)>>]
      BY <1>2, <1>3 DEF Holders
    <3>2. bills'[i] = {<<t, book'[<<i, t, Round(i, t)>>]>> : t \in Holders(i) \cup {s}}
      BY <1>3, <2>4, BillsAre
    <3>3. bills[i] = {<<t, book[<<i, t, Round(i, t)>>]>> : t \in Holders(i)}
      BY BillsAre
    <3> QED
      BY <2>2, <3>1, <3>2, <3>3
  <2>6. \A j \in Items : j # i => bills'[j] = bills[j]
    <3> SUFFICES ASSUME NEW j \in Items, j # i
                 PROVE  {<<t, book'[<<j, t, Round(j, t)'>>]>> : t \in Holders(j)'}
                        = {<<t, book[<<j, t, Round(j, t)>>]>> : t \in Holders(j)}
      BY BillsAre
    <3>1. \A t \in Suppliers : Round(j, t) <= MaxRounds =>
            book'[<<j, t, Round(j, t)>>] = book[<<j, t, Round(j, t)>>]
      BY <1>1, <1>2, <1>3
    <3> QED
      BY <1>3, <3>1 DEF Holders
  <2>7. bills' = [bills EXCEPT ![i] = bills[i] \cup {<<s, c>>}]
    BY <2>5, <2>6 DEF bills
  <2>8. ASSUME NEW d \in Codes PROVE <<s, d>> \notin bills[i]
    <3> SUFFICES ASSUME <<s, d>> \in bills[i] PROVE FALSE
      OBVIOUS
    <3>1. PICK t \in Holders(i) : <<s, d>> = <<t, book[<<i, t, Round(i, t)>>]>>
      BY BillsAre
    <3> QED
      BY <2>2, <3>1
  <2>9. ASSUME Traced' PROVE outcome[i] = Bought!Undecided /\ bills[i] = {}
    <3>1. \A t, u \in Holders(i)' : t = u
      BY <2>9 DEF OneHolder
    <3>2. itemStatus'[i] # "refunding"
      BY <2>2, <2>9 DEF OneHolder
    <3>3. Holders(i) = {}
      BY <2>2, <2>3, <3>1
    <3>4. itemStatus[i] # "delivered"
      <4> SUFFICES ASSUME itemStatus[i] = "delivered" PROVE FALSE
        OBVIOUS
      <4>1. /\ source[i] \in Suppliers /\ Round(i, source[i]) <= MaxRounds
            /\ deliveries[i] = book[Current(i, source[i])] /\ deliveries[i] # NoCode
        BY DEF ChainInv, DeliveryOK
      <4> QED
        BY <3>3, <4>1 DEF Holders, Current
    <3> QED
      BY <1>2, <3>2, <3>3, <3>4, BillsAre DEF outcome, Bought!Undecided
  <2> QED
    BY <1>2, <2>1, <2>7, <2>8, <2>9 DEF Bought!Charge, Bought!Bill
<1> QED
  BY <1>4, <1>5

\* A rejected round writes the supplier's code off, if it had booked one.
LEMMA RejectWritesOff ==
  ASSUME ChainInv, \A j \in Items : RoundsOK(j),
         NEW i \in Items, Reject(i), pass[i].pc \in Busy
  PROVE  \E s \in Suppliers : Bought!WriteOff(i, s)
<1>0. /\ TypeOK /\ UnitOK(i) /\ PassOK(i) /\ pass[i].at \in Suppliers
      /\ itemStatus[i] = "pending"
  BY ReqType DEF ChainInv, UnitOK, PassOK, Busy
<1> PICK s \in Suppliers : s = pass[i].at
  BY <1>0
<1>1. TypeOK /\ UnitOK(i) /\ PassOK(i) /\ itemStatus[i] = "pending"
  BY <1>0
<1>2. /\ UNCHANGED <<itemStatus, deliveries, book>>
      /\ rejected' = [rejected EXCEPT ![i][s] = rejected[i][s] + 1]
  BY DEF Reject, suppliersSide
<1>3. /\ \A j \in Items, t \in Suppliers : j # i \/ t # s => Round(j, t)' = Round(j, t)
      /\ Round(i, s)' = Round(i, s) + 1
      /\ Round(i, s) \in 1..MaxRounds
  <2>1. /\ rejected \in [Items -> [Suppliers -> 0..MaxRounds]]
        /\ rejected[i] \in [Suppliers -> 0..MaxRounds] /\ rejected[i][s] \in 0..MaxRounds
    BY <1>1 DEF TypeOK
  <2>2. rejected'[i][s] = rejected[i][s] + 1
    BY <1>1, <1>2, <2>1
  <2>3. \A j \in Items, t \in Suppliers : j # i \/ t # s => rejected'[j][t] = rejected[j][t]
    BY <1>1, <1>2, <2>1
  <2>4. Round(i, s) <= MaxRounds
    BY <1>1 DEF PassOK, Busy
  <2>5. Round(i, s)' = Round(i, s) + 1
    BY <2>1, <2>2 DEF Round
  <2> QED
    BY <2>1, <2>3, <2>4, <2>5 DEF Round
<1>4. s \notin Holders(i)'
  <2> DEFINE n == Round(i, s) + 1
  <2>1. book' = book /\ Round(i, s)' = n
    BY <1>2, <1>3
  <2>2. ASSUME n <= MaxRounds PROVE book[<<i, s, n>>] = NoCode
    <3>1. n \in 1..MaxRounds /\ n > Round(i, s)
      BY <1>3, <2>2, SupplierAssumption
    <3> QED
      BY <1>1, <3>1 DEF RoundsOK
  <2> HIDE DEF n
  <2> QED
    BY <2>1, <2>2 DEF Holders
<1>5. Holders(i)' = Holders(i) \ {s}
  <2>1. \A t \in Suppliers : t # s => (t \in Holders(i)' <=> t \in Holders(i))
    BY <1>2, <1>3 DEF Holders
  <2> QED
    BY <1>4, <2>1 DEF Holders
<1>6. bills'[i] = {b \in bills[i] : b[1] # s}
  <2>1. bills'[i] = {<<t, book[<<i, t, Round(i, t)>>]>> : t \in Holders(i) \ {s}}
    <3>1. bills'[i] = {<<t, book'[<<i, t, Round(i, t)'>>]>> : t \in Holders(i)'}
      BY BillsAre
    <3>2. \A t \in Holders(i) \ {s} : Round(i, t)' = Round(i, t)
      BY <1>3 DEF Holders
    <3> QED
      BY <1>2, <1>5, <3>1, <3>2
  <2>2. bills[i] = {<<t, book[<<i, t, Round(i, t)>>]>> : t \in Holders(i)}
    BY BillsAre
  <2>3. ASSUME NEW b \in bills'[i] PROVE b \in bills[i] /\ b[1] # s
    <3>1. PICK t \in Holders(i) \ {s} : b = <<t, book[<<i, t, Round(i, t)>>]>>
      BY <2>1, <2>3
    <3> QED
      BY <2>2, <3>1
  <2>4. ASSUME NEW b \in bills[i], b[1] # s PROVE b \in bills'[i]
    <3>1. PICK t \in Holders(i) : b = <<t, book[<<i, t, Round(i, t)>>]>>
      BY <2>2
    <3>2. t \in Holders(i) \ {s}
      BY <2>4, <3>1
    <3> QED
      BY <2>1, <3>1, <3>2
  <2> QED
    BY <2>3, <2>4
<1>7. \A j \in Items : j # i => bills'[j] = bills[j]
  <2> SUFFICES ASSUME NEW j \in Items, j # i
               PROVE  {<<t, book'[<<j, t, Round(j, t)'>>]>> : t \in Holders(j)'}
                      = {<<t, book[<<j, t, Round(j, t)>>]>> : t \in Holders(j)}
    BY BillsAre
  <2> QED
    BY <1>2, <1>3 DEF Holders
<1>8. bills' = [bills EXCEPT ![i] = {b \in bills[i] : b[1] # s}]
  BY <1>6, <1>7 DEF bills
<1>9. outcome' = outcome /\ outcome[i] = Bought!Undecided
  BY <1>1, <1>2, OutcomeKept DEF outcome, Bought!Undecided
<1> QED
  BY <1>1, <1>8, <1>9 DEF Bought!WriteOff

\* A delivery gives the code the supplier bills the unit for, to nobody else.
LEMMA CompleteGives ==
  ASSUME ChainInv, NEW i \in Items, Complete(i)
  PROVE  \E s \in Suppliers, c \in Codes : Bought!GiveCode(i, s, c)
<1> DEFINE s == pass[i].at
           c == pass[i].code
<1>1. /\ TypeOK /\ UnitOK(i) /\ PassOK(i) /\ s \in Suppliers
      /\ itemStatus[i] = "pending" /\ Round(i, s) <= MaxRounds
      /\ c = book[Req(i)] /\ c # NoCode /\ c \in Codes
  <2>1. /\ TypeOK /\ UnitOK(i) /\ PassOK(i) /\ pass[i].pc = "complete" /\ pass[i] \in PassState
    BY DEF ChainInv, UnitOK, Complete, TypeOK
  <2> QED
    BY <2>1 DEF PassOK, Busy, PassState
<1>2. /\ itemStatus' = [itemStatus EXCEPT ![i] = "delivered"]
      /\ deliveries' = [deliveries EXCEPT ![i] = c]
      /\ UNCHANGED <<book, rejected>> /\ ~TakenCode(c)
  BY DEF Complete, suppliersSide
<1>3. bills' = bills
  BY <1>2, BilledAsBefore
<1>4. <<s, c>> \in bills[i]
  <2>1. s \in Holders(i) /\ c = book[<<i, s, Round(i, s)>>]
    BY <1>1 DEF Holders, Req
  <2> QED
    BY <2>1, BillsAre
<1>5. outcome[i] = Bought!Undecided
  BY <1>1 DEF outcome, Bought!Undecided
<1>6. \A j \in Items : outcome[j] # Bought!Code(c)
  BY <1>2 DEF outcome, Bought!Code, TakenCode
<1>7. outcome' = [outcome EXCEPT ![i] = Bought!Code(c)]
  <2>1. outcome'[i] = Bought!Code(c)
    BY <1>1, <1>2 DEF outcome, Bought!Code, TypeOK
  <2>2. \A j \in Items : j # i => outcome'[j] = outcome[j]
    BY <1>1, <1>2 DEF outcome, TypeOK
  <2> QED
    BY <2>1, <2>2 DEF outcome
<1> QED
  BY <1>1, <1>3, <1>4, <1>5, <1>6, <1>7 DEF Bought!GiveCode, Bought!Bill

\* A unit is given up when, the trace kept, nobody bills it.
LEMMA RefundGivesUp ==
  ASSUME ChainInv, (Traced => OneHolder)', NEW i \in Items, DecideRefund(i)
  PROVE  Bought!GiveUp(i)
<1>1. TypeOK /\ itemStatus[i] = "pending"
  BY DEF ChainInv, PassOK, DecideRefund
<1>2. /\ itemStatus' = [itemStatus EXCEPT ![i] = "refunding"]
      /\ UNCHANGED <<deliveries, book, rejected>>
  BY DEF DecideRefund, suppliersSide
<1>3. bills' = bills
  BY <1>2, BilledAsBefore
<1>4. ASSUME Traced' PROVE bills[i] = {}
  <2>1. itemStatus'[i] = "refunding"
    BY <1>1, <1>2 DEF TypeOK
  <2>2. Holders(i)' = {}
    BY <1>4, <2>1 DEF OneHolder
  <2> QED
    BY <1>3, <2>2, BillsAre
<1>5. outcome[i] = Bought!Undecided
  BY <1>1 DEF outcome, Bought!Undecided
<1>6. outcome' = [outcome EXCEPT ![i] = Bought!GivenUp]
  <2>1. outcome'[i] = Bought!GivenUp
    BY <1>1, <1>2 DEF outcome, Bought!GivenUp, TypeOK
  <2>2. \A j \in Items : j # i => outcome'[j] = outcome[j]
    BY <1>1, <1>2 DEF outcome, TypeOK
  <2> QED
    BY <2>1, <2>2 DEF outcome
<1> QED
  BY <1>3, <1>4, <1>5, <1>6 DEF Bought!GiveUp

LEMMA BoughtInit == Init => Bought!Init
<1> SUFFICES ASSUME Init PROVE Bought!Init
  OBVIOUS
<1>1. outcome = [i \in Items |-> Bought!Undecided] /\ Traced
  BY DEF Init, outcome, Bought!Undecided, Traced
<1>2. ASSUME NEW i \in Items PROVE Holders(i) = {}
  <2>1. TypeOK /\ \A r \in Requests : book[r] = NoCode
    BY ChainInit DEF ChainInv, Init
  <2>2. \A s \in Suppliers : Round(i, s) <= MaxRounds => <<i, s, Round(i, s)>> \in Requests
    BY <2>1, RoundType, SupplierAssumption DEF Requests
  <2> QED
    BY <2>1, <2>2 DEF Holders
<1>3. bills = [i \in Items |-> {}]
  BY <1>2 DEF bills
<1> QED
  BY <1>1, <1>3 DEF Bought!Init

\* In the step as in the state.
LEMMA HeldOnceThen == BoughtInv' => (Traced => OneHolder)'
<1>1. BoughtInv => (Traced => OneHolder)
  BY HeldOnce DEF BoughtInv, TracedInv
<1> QED
  BY <1>1, PTL

LEMMA BoughtNext == BoughtInv /\ [Next]_vars => [Bought!Next]_(Bought!vars)
<1> SUFFICES ASSUME BoughtInv, [Next]_vars PROVE Bought!Next \/ UNCHANGED Bought!vars
  OBVIOUS
<1>1. /\ ChainInv /\ \A i \in Items : RoundsOK(i)
      /\ ChainInv' /\ (Traced => OneHolder)'
  <2>1. BoughtInv'
    BY BoughtInvStep
  <2> QED
    BY <2>1, HeldOnceThen DEF BoughtInv, TracedInv
<1>2. Traced' \in {Traced, FALSE}
  <2>1. Traced \in BOOLEAN /\ Traced' \in BOOLEAN
    BY DEF Traced
  <2> QED
    BY <2>1, TracedBefore
<1>3. ASSUME \/ UNCHANGED <<outcome, bills>>
             \/ \E i \in Items : Bought!Buys(i)
      PROVE  Bought!Next
  BY <1>2, <1>3 DEF Bought!Next
<1>4. CASE QuietStep
  <2>1. bills' = bills
    BY <1>4, BilledAsBefore DEF QuietStep
  <2> QED
    BY <1>3, <1>4, <2>1, OutcomeKept DEF QuietStep
<1>5. ASSUME NEW r \in Requests, SupplierStep(r) PROVE Bought!Next
  BY <1>1, <1>3, <1>5, SupplierCharges DEF Bought!Buys
<1>6. ASSUME NEW i \in Items, Reject(i), pass[i].pc \in Busy PROVE Bought!Next
  BY <1>1, <1>3, <1>6, RejectWritesOff DEF Bought!Buys
<1>7. ASSUME NEW i \in Items, Complete(i) \/ DecideRefund(i) PROVE Bought!Next
  BY <1>1, <1>3, <1>7, CompleteGives, RefundGivesUp DEF Bought!Buys
<1> QED
  BY <1>1, <1>4, <1>5, <1>6, <1>7, StepShapes

\* Every behaviour of the protocol, whatever goes wrong outside, buys as
\* Procurement promises (issue, accept, supplierChain, deliverItem).
THEOREM PromiseToBuyKept == Spec => BuysAsPromised
<1>1. Init => BoughtInv
  BY ChainInit, HoldInit DEF BoughtInv, TracedInv, HoldInv
<1> QED
  BY <1>1, BoughtInit, BoughtInvStep, BoughtNext, PTL DEF Spec, BuysAsPromised, Bought!Spec

------------------------------------------------------------------------------
(* No pass goes round in circles.                                          *)

\* Answering, or recording, or looking up leads to a later stage.
LEMMA NextStage ==
  ASSUME TypeOK, NEW i \in Items, UNCHANGED rejected,
         NEW q, pass' = [pass EXCEPT ![i] = q],
         q.left = pass[i].left, q.at = pass[i].at, q.attempt = pass[i].attempt,
         Stage[q.pc] > Stage[pass[i].pc]
  PROVE  Advances(i)
BY DEF Advances, TypeOK

LEMMA AnswerAdvances ==
  ASSUME TypeOK, NEW i \in Items, UNCHANGED rejected, pass[i].pc = "ask",
         NEW a, NEW c, Answered(i, a, c)
  PROVE  Advances(i)
<1> DEFINE q == [pass[i] EXCEPT !.pc = "record", !.answer = a, !.code = c]
<1>1. pass[i] \in PassState
  BY DEF TypeOK
<1>2. /\ q.left = pass[i].left /\ q.at = pass[i].at /\ q.attempt = pass[i].attempt
      /\ q.pc = "record"
  BY <1>1 DEF PassState
<1>3. Stage[q.pc] > Stage[pass[i].pc]
  BY <1>2 DEF Stage
<1>4. pass' = [pass EXCEPT ![i] = q]
  BY DEF Answered, Moves
<1> HIDE DEF q
<1> QED
  BY <1>2, <1>3, <1>4, NextStage

\* A verdict on the answer: on to the next stage, or over.
LEMMA VerdictAdvances ==
  ASSUME TypeOK, NEW i \in Items, UNCHANGED rejected,
         pass[i].pc \in {"record", "lookup", "verify"},
         NEW c \in {"lookup", "verify", "complete", "turn"}, NEW d,
         Stage[c] > Stage[pass[i].pc],
         \/ Moves(i, [pass[i] EXCEPT !.pc = c])
         \/ Moves(i, [pass[i] EXCEPT !.pc = c, !.code = d])
  PROVE  Advances(i)
<1>1. pass[i] \in PassState
  BY DEF TypeOK
<1>2. PICK q : /\ pass' = [pass EXCEPT ![i] = q]
               /\ q = [pass[i] EXCEPT !.pc = c] \/ q = [pass[i] EXCEPT !.pc = c, !.code = d]
  BY DEF Moves
<1>3. /\ q.left = pass[i].left /\ q.at = pass[i].at /\ q.attempt = pass[i].attempt
      /\ q.pc = c
  BY <1>1, <1>2 DEF PassState
<1> QED
  BY <1>2, <1>3, NextStage

\* Another supplier's turn: one fewer is left.
LEMMA TurnAdvances ==
  ASSUME TypeOK, NEW i \in Items, Turn(i)
  PROVE  Advances(i)
<1>1. PICK s \in NextInLine(i) :
        pass' = [pass EXCEPT ![i] = IF Round(i, s) <= MaxRounds
                                      THEN Asking(pass[i], s)
                                      ELSE [pass[i] EXCEPT !.left = @ \ {s}]]
  BY DEF Turn, Moves
<1>2. s \in pass[i].left /\ pass[i] \in PassState /\ pass \in [Items -> PassState]
  BY <1>1 DEF NextInLine, TypeOK
<1>3. pass'[i].left = pass[i].left \ {s}
  BY <1>1, <1>2 DEF Asking, PassState
<1> QED
  BY <1>2, <1>3 DEF Advances

\* No answer: another attempt, or the last stage of this one.
LEMMA NoAnswerAdvances ==
  ASSUME TypeOK, NEW i \in Items, RecordNoAnswer(i)
  PROVE  Advances(i)
<1> DEFINE p == [pass[i] EXCEPT !.unknown = @ \/ pass[i].answer # "unreachable",
                                !.sawTimeout = @ \/ pass[i].answer = "timeout"]
<1>1. pass[i] \in PassState /\ pass[i].attempt \in 1..MaxAttempts /\ pass[i].attempt \in Nat
  BY SupplierAssumption DEF TypeOK, PassState
<1>2. /\ p.left = pass[i].left /\ p.at = pass[i].at /\ p.attempt = pass[i].attempt
      /\ p.pc = pass[i].pc /\ DOMAIN p = DOMAIN pass[i]
      /\ {"pc", "attempt", "left", "at"} \subseteq DOMAIN pass[i]
  BY <1>1 DEF PassState
<1>3. /\ p.pc = "record" /\ rejected' = rejected
      /\ \/ pass' = [pass EXCEPT ![i] = [p EXCEPT !.pc = "ask", !.attempt = @ + 1]]
         \/ pass' = [pass EXCEPT ![i] = [p EXCEPT !.pc = IF p.unknown THEN "lookup"
                                                                     ELSE "turn"]]
  BY DEF RecordNoAnswer, Moves
<1> HIDE DEF p
<1>4. ASSUME NEW q, q = [p EXCEPT !.pc = "ask", !.attempt = @ + 1],
             pass' = [pass EXCEPT ![i] = q]
      PROVE  Advances(i)
  <2>1. q.left = p.left /\ q.at = p.at /\ q.attempt = p.attempt + 1
    BY <1>2, <1>4
  <2>2. q.attempt > pass[i].attempt
    BY <1>1, <1>2, <2>1
  <2>3. pass'[i] = q
    BY <1>4 DEF TypeOK
  <2> QED
    BY <1>2, <1>3, <2>1, <2>2, <2>3 DEF Advances
<1>5. ASSUME NEW q, q = [p EXCEPT !.pc = IF p.unknown THEN "lookup" ELSE "turn"],
             pass' = [pass EXCEPT ![i] = q]
      PROVE  Advances(i)
  <2>1. q.left = p.left /\ q.at = p.at /\ q.attempt = p.attempt
        /\ q.pc \in {"lookup", "turn"}
    BY <1>2, <1>5
  <2>2. Stage[q.pc] > Stage[pass[i].pc]
    BY <1>2, <1>3, <2>1 DEF Stage
  <2> QED
    BY <1>2, <1>3, <1>5, <2>1, <2>2, NextStage
<1> QED
  BY <1>3, <1>4, <1>5

\* A rejected round is used up for good.
LEMMA RejectAdvances ==
  ASSUME ChainInv, NEW i \in Items, Reject(i), pass[i].pc \in Busy
  PROVE  Advances(i)
<1>1. /\ TypeOK /\ pass[i] \in PassState /\ pass \in [Items -> PassState]
      /\ pass[i].at \in Suppliers
  BY DEF ChainInv, TypeOK, PassOK
<1> PICK s \in Suppliers : s = pass[i].at
  BY <1>1
<1>2. rejected[i] \in [Suppliers -> 0..MaxRounds] /\ rejected[i][s] \in 0..MaxRounds
      /\ rejected \in [Items -> [Suppliers -> 0..MaxRounds]]
  BY <1>1 DEF TypeOK
<1>3. rejected' = [rejected EXCEPT ![i][s] = @ + 1]
  BY DEF Reject
<1>4. rejected'[i][s] = rejected[i][s] + 1
  BY <1>2, <1>3
<1>5. rejected'[i][s] > rejected[i][s]
  BY <1>2, <1>4
<1>6. \/ pass' = [pass EXCEPT ![i] = Asking(pass[i], s)]
      \/ pass' = [pass EXCEPT ![i] = [pass[i] EXCEPT !.pc = "turn"]]
  BY DEF Reject, Moves
<1>7. CASE pass' = [pass EXCEPT ![i] = Asking(pass[i], s)]
  <2>1. pass'[i].left = pass[i].left \ {s} /\ pass'[i].at = s
    BY <1>1, <1>7 DEF Asking, PassState
  <2> QED
    BY <1>5, <2>1 DEF Advances
<1>8. CASE pass' = [pass EXCEPT ![i] = [pass[i] EXCEPT !.pc = "turn"]]
  <2>1. pass'[i].left = pass[i].left /\ pass'[i].at = s
    BY <1>1, <1>8 DEF PassState
  <2> QED
    BY <1>5, <2>1 DEF Advances
<1> QED
  BY <1>6, <1>7, <1>8

\* Whoever takes a step moves one pass at most.
LEMMA OnePassMoves ==
  ASSUME TypeOK, NEW i \in Items, Undisturbed(i) \/ Disturbed(i)
  PROVE  \E q : pass' = [pass EXCEPT ![i] = q]
BY DEF Undisturbed, Disturbed, Begin, Turn, DecideRefund, Issues, OutOfStock, RecordOk,
       RecordOutOfStock, RecordNoAnswer, LookupFinds, LookupEmpty, VerifyEmpty,
       VerifyFinds, Complete, RejectTaken, Reject, Fails, TooLate, LeftInFlight,
       Unreachable, AnswersForeign, AnswersBookedTwice, Limited, LookupLimited,
       LookupFails, Crash, Answered, Ends, Moves

LEMMA OwnStepAdvances ==
  ASSUME ChainInv, NEW i \in Items, Undisturbed(i) \/ Disturbed(i), Continues(i)
  PROVE  Advances(i)
<1>1. TypeOK /\ pass[i].pc # "idle" /\ pass'[i].pc # "idle"
  BY DEF ChainInv, Continues
<1>2. ASSUME Ends(i) PROVE FALSE
  BY <1>1, <1>2 DEF Ends, Moves, Idle, TypeOK
<1>3. ASSUME \/ Issues(i) \/ OutOfStock(i) \/ Fails(i) \/ TooLate(i) \/ LeftInFlight(i)
             \/ Unreachable(i) \/ AnswersForeign(i) \/ AnswersBookedTwice(i)
      PROVE  Advances(i)
  <2>1. UNCHANGED rejected /\ pass[i].pc = "ask" /\ \E a, c : Answered(i, a, c)
    BY <1>3 DEF Issues, OutOfStock, Fails, TooLate, LeftInFlight, Unreachable,
                AnswersForeign, AnswersBookedTwice, tables
  <2> QED
    BY <1>1, <2>1, AnswerAdvances
<1>4. CASE RecordOk(i)
  <2>1. "verify" \in {"lookup", "verify", "complete", "turn"} /\ Stage["verify"] > Stage["record"]
    BY DEF Stage
  <2> QED
    BY <1>1, <1>4, <2>1, VerdictAdvances DEF RecordOk
<1>5. CASE RecordOutOfStock(i)
  <2>1. "turn" \in {"lookup", "verify", "complete", "turn"} /\ Stage["turn"] > Stage["record"]
    BY DEF Stage
  <2> QED
    BY <1>1, <1>5, <2>1, VerdictAdvances DEF RecordOutOfStock
<1>6. CASE LookupFinds(i)
  <2>1. "complete" \in {"lookup", "verify", "complete", "turn"}
        /\ Stage["complete"] > Stage["lookup"]
    BY DEF Stage
  <2> QED
    BY <1>1, <1>6, <2>1, VerdictAdvances DEF LookupFinds
<1>7. CASE LookupEmpty(i)
  <2>1. "turn" \in {"lookup", "verify", "complete", "turn"} /\ Stage["turn"] > Stage["lookup"]
    BY DEF Stage
  <2> QED
    BY <1>1, <1>2, <1>7, <2>1, VerdictAdvances DEF LookupEmpty
<1>8. CASE VerifyFinds(i)
  <2>1. "complete" \in {"lookup", "verify", "complete", "turn"}
        /\ Stage["complete"] > Stage["verify"]
    BY DEF Stage
  <2> QED
    BY <1>1, <1>8, <2>1, VerdictAdvances DEF VerifyFinds, tables
<1>9. CASE VerifyEmpty(i) \/ RejectTaken(i)
  BY <1>9, RejectAdvances DEF VerifyEmpty, RejectTaken, Busy
<1>10. CASE Turn(i)
  BY <1>1, <1>10, TurnAdvances
<1>11. CASE RecordNoAnswer(i)
  BY <1>1, <1>11, NoAnswerAdvances
<1>12. CASE Begin(i)
  BY <1>1, <1>12 DEF Begin
<1>13. CASE \/ DecideRefund(i) \/ Complete(i) \/ Limited(i) \/ LookupLimited(i)
            \/ LookupFails(i) \/ Crash(i)
  BY <1>2, <1>13 DEF DecideRefund, Complete, Limited, LookupLimited, LookupFails, Crash
<1> QED
  BY <1>3, <1>4, <1>5, <1>6, <1>7, <1>8, <1>9, <1>10, <1>11, <1>12, <1>13
     DEF Undisturbed, Disturbed

LEMMA EachStepAdvances ==
  ChainInv /\ [Next]_vars => [\A i \in Items : Continues(i) => Advances(i)]_vars
<1> SUFFICES ASSUME ChainInv, Next, NEW i \in Items, Continues(i)
             PROVE  Advances(i)
  BY DEF vars
<1>1. ASSUME NEW j \in Items, Undisturbed(j) \/ Disturbed(j) PROVE Advances(i)
  <2>1. CASE j = i
    BY <1>1, <2>1, OwnStepAdvances
  <2>2. CASE j # i
    <3>1. TypeOK
      BY DEF ChainInv
    <3>2. pass'[i] = pass[i]
      BY <1>1, <2>2, <3>1, OnePassMoves DEF TypeOK
    <3> QED
      BY <3>2 DEF Continues
  <2> QED
    BY <2>1, <2>2
<1>2. ASSUME NEW r \in flight, Lands(r) PROVE Advances(i)
  BY <1>2 DEF Lands, Continues
<1> QED
  BY <1>1, <1>2 DEF Next

\* No pass goes round in circles, for any number of suppliers, rounds and
\* attempts, and whatever is answered (supplierChain, trySupplier, issue, accept).
THEOREM PassesEnd == Spec => EveryPassEnds
<1> QED
  BY ChainCorrect, EachStepAdvances, PTL DEF Spec, EveryPassEnds

=============================================================================
