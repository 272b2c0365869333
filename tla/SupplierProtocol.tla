-------------------------- MODULE SupplierProtocol --------------------------
(***************************************************************************)
(* How one unit is bought: the chain of suppliers, the rounds and retries  *)
(* under one request_id, the supplier's book as the arbiter, and what is   *)
(* written down in delivery_attempts for the next pass.                    *)
(*                                                                         *)
(* What OrderDelivery calls Issued, Refused and NoAnswer is played out     *)
(* here. At most one pass works on a unit (two lanes on one order are in   *)
(* OrderDelivery); passes over different units interleave. A pass ends at  *)
(* a delivery, at the decision to refund, at a spent rate limit, at an     *)
(* open question, or at a crash, and a later pass starts from the tables.  *)
(*                                                                         *)
(* A request is identified by the unit, the supplier and the round.        *)
(***************************************************************************)
EXTENDS Naturals

CONSTANTS
  Items, Suppliers, Codes,
  Preferred,   \* [Items -> Suppliers]: who stocks the unit's SKU
  KeysOf,      \* [Suppliers -> SUBSET Codes]: the supplier's free keys at first
  MaxRounds,   \* SUPPLIER_MAX_ROUNDS
  MaxAttempts, \* SUPPLIER_MAX_ATTEMPTS
  NoCode, NoSupplier,
  Faults,      \* the disturbances that may happen
  MaxTrouble   \* bound: how many of them

\* What may go wrong: a spent rate limit at issue or at lookup; a supplier that
\* cannot be reached, answers 5xx, answers too late, is too slow to have booked
\* (in a pass that began without or with a question open to it), breaks the
\* connection, has no book to show, lies (at once, or on a request given up
\* on), or calls a unit out of stock before it looks the request_id up; an
\* operator's early retry; a crash.
FaultKinds == {"limit", "lookup_limit", "unreachable", "error", "late", "slow",
               "slow_again", "broken", "no_lookup", "lie", "late_lie",
               "unavailable", "hasty", "crash"}

\* Those after which delivery_attempts may not tell who holds a code.
Untraced == {"lookup_limit", "slow_again", "broken", "late_lie", "unavailable",
             "hasty", "crash"}

ASSUME SupplierAssumption ==
  /\ Preferred \in [Items -> Suppliers]
  /\ KeysOf \in [Suppliers -> SUBSET Codes]
  /\ MaxRounds \in Nat \ {0}
  /\ MaxAttempts \in Nat \ {0}
  /\ NoCode \notin Codes
  /\ NoSupplier \notin Suppliers
  /\ Faults \subseteq FaultKinds
  /\ MaxTrouble \in Nat

Requests == Items \X Suppliers \X (1..MaxRounds)

VARIABLES
  itemStatus, \* order_items.status
  deliveries, \* deliveries.code of an item
  source,     \* deliveries.supplier of an item
  open,       \* delivery_attempts: the suppliers whose last word for an item
              \* is a timeout or an error
  rejected,   \* supplier_discrepancies: the rounds rejected, by item and supplier
  book,       \* the suppliers' books: the code under a request_id
  free,       \* the suppliers' keys nobody has
  flight,     \* requests given up on that a supplier still works on
  pass,       \* what the pass over an item holds in memory
  trouble     \* disturbances so far: how many, and whether one was untraced

suppliersSide == <<book, free, flight>>
tables == <<itemStatus, deliveries, source, open, rejected>>
vars == <<tables, suppliersSide, pass, trouble>>

PC == {"idle", "turn", "ask", "record", "lookup", "verify", "complete"}
Answers == {"none", "ok", "out_of_stock", "unreachable", "error", "timeout"}

PassState == [pc : PC, at : Suppliers \cup {NoSupplier},
              left : SUBSET Suppliers, doubt : SUBSET Suppliers,
              attempt : 1..MaxAttempts, unknown : BOOLEAN, sawTimeout : BOOLEAN,
              answer : Answers, code : Codes \cup {NoCode}]

Idle == [pc |-> "idle", at |-> NoSupplier, left |-> {}, doubt |-> {},
         attempt |-> 1, unknown |-> FALSE, sawTimeout |-> FALSE,
         answer |-> "none", code |-> NoCode]

TroubleState == [times : 0..MaxTrouble, untraced : BOOLEAN]

TypeOK ==
  /\ itemStatus \in [Items -> {"pending", "delivered", "refunding"}]
  /\ deliveries \in [Items -> Codes \cup {NoCode}]
  /\ source \in [Items -> Suppliers \cup {NoSupplier}]
  /\ open \in [Items -> SUBSET Suppliers]
  /\ rejected \in [Items -> [Suppliers -> 0..MaxRounds]]
  /\ book \in [Requests -> Codes \cup {NoCode}]
  /\ free \in [Suppliers -> SUBSET Codes]
  /\ flight \subseteq Requests
  /\ pass \in [Items -> PassState]
  /\ trouble \in TroubleState

Init ==
  /\ itemStatus = [i \in Items |-> "pending"]
  /\ deliveries = [i \in Items |-> NoCode]
  /\ source = [i \in Items |-> NoSupplier]
  /\ open = [i \in Items |-> {}]
  /\ rejected = [i \in Items |-> [s \in Suppliers |-> 0]]
  /\ book = [r \in Requests |-> NoCode]
  /\ free = KeysOf
  /\ flight = {}
  /\ pass = [i \in Items |-> Idle]
  /\ trouble = [times |-> 0, untraced |-> FALSE]

\* The outside world does something of this kind: counted, so it is bounded.
Disturb(kind) ==
  /\ kind \in Faults /\ trouble.times < MaxTrouble
  /\ trouble' = [times |-> trouble.times + 1,
                 untraced |-> trouble.untraced \/ kind \in Untraced]

\* So far delivery_attempts has told all there was to tell.
Traced == ~trouble.untraced

Moves(i, p) == pass' = [pass EXCEPT ![i] = p]

Ends(i) == Moves(i, Idle)

\* An attempt row: the last word of the supplier opens or closes its question.
Opens(i) == open' = [open EXCEPT ![i] = @ \cup {pass[i].at}]
Closes(i) == open' = [open EXCEPT ![i] = @ \ {pass[i].at}]

Round(i, s) == 1 + rejected[i][s]

\* The request the pass over i is busy with.
Req(i) == <<i, pass[i].at, Round(i, pass[i].at)>>

------------------------------------------------------------------------------
(* The chain: supplierChain, deliverItem, the rounds of trySupplier.       *)

\* A pass starts. The worker or the recovery cooldown leaves a request that
\* was given up on the time to finish; an operator's retry need not.
Begin(i) ==
  /\ pass[i].pc = "idle" /\ itemStatus[i] = "pending"
  /\ IF \E r \in flight : r[1] = i THEN Disturb("hasty") ELSE UNCHANGED trouble
  /\ Moves(i, [Idle EXCEPT !.pc = "turn", !.left = Suppliers, !.doubt = open[i]])
  /\ UNCHANGED <<tables, suppliersSide>>

\* Faulty variant: the supplier that stocks the SKU always goes first.
PreferredFirst(i) ==
  LET p == pass[i] IN
    IF Preferred[i] \in p.left THEN {Preferred[i]} ELSE p.left

\* Open questions first, then the supplier that stocks the SKU.
NextInLine(i) ==
  LET p == pass[i] IN
    IF p.left \cap p.doubt # {} THEN p.left \cap p.doubt
    ELSE IF Preferred[i] \in p.left THEN {Preferred[i]}
    ELSE p.left

\* issue() starts afresh for every request_id.
Asking(p, s) == [p EXCEPT !.pc = "ask", !.at = s, !.left = @ \ {s}, !.attempt = 1,
                          !.unknown = s \in p.doubt, !.sawTimeout = FALSE,
                          !.answer = "none", !.code = NoCode]

Turn(i) ==
  /\ pass[i].pc = "turn"
  /\ \E s \in NextInLine(i) :
       Moves(i, IF Round(i, s) <= MaxRounds
                  THEN Asking(pass[i], s)
                  ELSE [pass[i] EXCEPT !.left = @ \ {s}])
  /\ UNCHANGED <<tables, suppliersSide, trouble>>

\* Everybody gave a definite "no".
DecideRefund(i) ==
  /\ pass[i].pc = "turn" /\ pass[i].left = {}
  /\ itemStatus' = [itemStatus EXCEPT ![i] = "refunding"]
  /\ Ends(i)
  /\ UNCHANGED <<deliveries, source, open, rejected, suppliersSide, trouble>>

------------------------------------------------------------------------------
(* The supplier's side of POST /issue. Each action ends with the answer    *)
(* the client gets; the attempt row is written in a later step.            *)

Answered(i, answer, code) ==
  Moves(i, [pass[i] EXCEPT !.pc = "record", !.answer = answer, !.code = code])

\* reserve: what is booked stays booked, else a free key is.
Reserve(r) ==
  \/ book[r] # NoCode /\ UNCHANGED <<book, free>>
  \/ /\ book[r] = NoCode
     /\ \E c \in free[r[2]] :
          /\ book' = [book EXCEPT ![r] = c]
          /\ free' = [free EXCEPT ![r[2]] = @ \ {c}]

\* A lie: the code booked is already booked under another request_id.
BookTwice(r) ==
  /\ book[r] = NoCode
  /\ \E q \in Requests : /\ q[2] = r[2] /\ book[q] # NoCode
                         /\ book' = [book EXCEPT ![r] = book[q]]
  /\ UNCHANGED free

Issues(i) ==
  /\ pass[i].pc = "ask"
  /\ Reserve(Req(i))
  /\ Answered(i, "ok", book'[Req(i)])
  /\ UNCHANGED <<tables, flight, trouble>>

\* Nothing is booked and no key is free. "unavailable": refused for the SKU,
\* before the request_id is looked up.
OutOfStock(i) ==
  /\ pass[i].pc = "ask"
  /\ IF book[Req(i)] = NoCode /\ free[pass[i].at] = {}
       THEN UNCHANGED trouble ELSE Disturb("unavailable")
  /\ Answered(i, "out_of_stock", NoCode)
  /\ UNCHANGED <<tables, suppliersSide>>

\* 5xx before or after booking.
Fails(i) ==
  /\ pass[i].pc = "ask"
  /\ Disturb("error")
  /\ Reserve(Req(i)) \/ UNCHANGED <<book, free>>
  /\ Answered(i, "error", NoCode)
  /\ UNCHANGED <<tables, flight>>

\* Booked, but the answer comes after the client has given up.
TooLate(i) ==
  /\ pass[i].pc = "ask"
  /\ Disturb("late")
  /\ Reserve(Req(i))
  /\ Answered(i, "timeout", NoCode)
  /\ UNCHANGED <<tables, flight>>

\* The client gives up while the supplier still works on the request. A
\* connection that breaks is classified as an error, like a 5xx.
LeftInFlight(i) ==
  /\ pass[i].pc = "ask"
  /\ \/ /\ Disturb(IF pass[i].at \in pass[i].doubt THEN "slow_again" ELSE "slow")
        /\ Answered(i, "timeout", NoCode)
     \/ Disturb("broken") /\ Answered(i, "error", NoCode)
  /\ flight' = flight \cup {Req(i)}
  /\ UNCHANGED <<tables, book, free>>

\* The supplier is done with a request given up on; it may have failed it.
Lands(r) ==
  /\ r \in flight
  /\ flight' = flight \ {r}
  /\ \/ Reserve(r) /\ UNCHANGED trouble
     \/ UNCHANGED <<book, free, trouble>>
     \/ BookTwice(r) /\ Disturb("late_lie")
  /\ UNCHANGED <<tables, pass>>

\* The request never left.
Unreachable(i) ==
  /\ pass[i].pc = "ask"
  /\ Disturb("unreachable")
  /\ Answered(i, "unreachable", NoCode)
  /\ UNCHANGED <<tables, suppliersSide>>

\* It answers with a code it did not book: somebody else's, or a made-up one;
\* it may have booked one, or none.
AnswersForeign(i) ==
  /\ pass[i].pc = "ask"
  /\ Disturb("lie")
  /\ Reserve(Req(i)) \/ UNCHANGED <<book, free>>
  /\ \E c \in Codes \ {book'[Req(i)]} : Answered(i, "ok", c)
  /\ UNCHANGED <<tables, flight>>

AnswersBookedTwice(i) ==
  /\ pass[i].pc = "ask"
  /\ Disturb("lie")
  /\ BookTwice(Req(i))
  /\ Answered(i, "ok", book'[Req(i)])
  /\ UNCHANGED <<tables, flight>>

\* The rate limit is spent, nothing was sent: the unit waits for its slot.
Limited(i) ==
  /\ pass[i].pc = "ask"
  /\ Disturb("limit")
  /\ Ends(i)
  /\ UNCHANGED <<tables, suppliersSide>>

------------------------------------------------------------------------------
(* The attempt loop of issue(): every answer is written down first.        *)

\* Faulty variant: the answered code is delivered unverified.
RecordOkUnverified(i) ==
  /\ pass[i].pc = "record" /\ pass[i].answer = "ok"
  /\ Closes(i)
  /\ Moves(i, [pass[i] EXCEPT !.pc = "complete"])
  /\ UNCHANGED <<itemStatus, deliveries, source, rejected, suppliersSide, trouble>>

RecordOk(i) ==
  /\ pass[i].pc = "record" /\ pass[i].answer = "ok"
  /\ Closes(i)
  /\ Moves(i, [pass[i] EXCEPT !.pc = "verify"])
  /\ UNCHANGED <<itemStatus, deliveries, source, rejected, suppliersSide, trouble>>

RecordOutOfStock(i) ==
  /\ pass[i].pc = "record" /\ pass[i].answer = "out_of_stock"
  /\ Closes(i)
  /\ Moves(i, [pass[i] EXCEPT !.pc = "turn"])
  /\ UNCHANGED <<itemStatus, deliveries, source, rejected, suppliersSide, trouble>>

\* Faulty variant: one attempt too many.
AttemptsLeftPlusOne(p) == p.attempt <= MaxAttempts

AttemptsLeft(p) == p.attempt < MaxAttempts

\* Retry under the same request_id; after the last attempt, the book decides,
\* unless nothing was ever sent.
RecordNoAnswer(i) ==
  LET p == [pass[i] EXCEPT !.unknown = @ \/ pass[i].answer # "unreachable",
                           !.sawTimeout = @ \/ pass[i].answer = "timeout"]
  IN /\ p.pc = "record" /\ p.answer \in {"unreachable", "error", "timeout"}
     /\ IF p.answer = "unreachable" THEN UNCHANGED open ELSE Opens(i)
     /\ \/ /\ AttemptsLeft(p)
           /\ Moves(i, [p EXCEPT !.pc = "ask", !.attempt = @ + 1])
        \/ /\ ~AttemptsLeft(p)
           /\ Moves(i, [p EXCEPT !.pc = IF p.unknown THEN "lookup" ELSE "turn"])
     /\ UNCHANGED <<itemStatus, deliveries, source, rejected, suppliersSide, trouble>>

------------------------------------------------------------------------------
(* The book: after no definite answer (issue), or to verify one (accept).  *)

LookupLimited(i) ==
  /\ pass[i].pc \in {"lookup", "verify"}
  /\ Disturb("lookup_limit")
  /\ Ends(i)
  /\ UNCHANGED <<tables, suppliersSide>>

\* No book: the question stays open, the pass ends.
LookupFails(i) ==
  /\ pass[i].pc \in {"lookup", "verify"}
  /\ Disturb("no_lookup")
  /\ Opens(i)
  /\ Ends(i)
  /\ UNCHANGED <<itemStatus, deliveries, source, rejected, suppliersSide>>

LookupFinds(i) ==
  /\ pass[i].pc = "lookup" /\ book[Req(i)] # NoCode
  /\ Closes(i)
  /\ Moves(i, [pass[i] EXCEPT !.pc = "complete", !.code = book[Req(i)]])
  /\ UNCHANGED <<itemStatus, deliveries, source, rejected, suppliersSide, trouble>>

\* Faulty variant: an empty book is always final.
AlwaysFinal(p) == TRUE

\* An empty book is final unless this pass timed out on a supplier that had
\* no question open before: that request may still be in flight.
EmptyIsFinal(p) == ~p.sawTimeout \/ p.at \in p.doubt

LookupEmpty(i) ==
  /\ pass[i].pc = "lookup" /\ book[Req(i)] = NoCode
  /\ \/ /\ EmptyIsFinal(pass[i])
        /\ Closes(i)
        /\ Moves(i, [pass[i] EXCEPT !.pc = "turn"])
     \/ /\ ~EmptyIsFinal(pass[i])
        /\ Opens(i)
        /\ Ends(i)
  /\ UNCHANGED <<itemStatus, deliveries, source, rejected, suppliersSide, trouble>>

\* Faulty variant: asked again under the same request_id.
RejectSameRequest(i) ==
  /\ Closes(i)
  /\ Moves(i, Asking(pass[i], pass[i].at))
  /\ UNCHANGED <<itemStatus, deliveries, source, rejected, suppliersSide, trouble>>

\* The code is not delivered; the next round asks under a fresh request_id.
Reject(i) ==
  LET s == pass[i].at IN
    /\ rejected' = [rejected EXCEPT ![i][s] = @ + 1]
    /\ Closes(i)
    /\ Moves(i, IF Round(i, s) < MaxRounds
                  THEN Asking(pass[i], s)
                  ELSE [pass[i] EXCEPT !.pc = "turn"])
    /\ UNCHANGED <<itemStatus, deliveries, source, suppliersSide, trouble>>

VerifyEmpty(i) ==
  /\ pass[i].pc = "verify" /\ book[Req(i)] = NoCode
  /\ Reject(i)

\* The booked code is delivered, whatever was answered.
VerifyFinds(i) ==
  /\ pass[i].pc = "verify" /\ book[Req(i)] # NoCode
  /\ Moves(i, [pass[i] EXCEPT !.pc = "complete", !.code = book[Req(i)]])
  /\ UNCHANGED <<tables, suppliersSide, trouble>>

------------------------------------------------------------------------------
(* The delivery, against the unique constraint on deliveries.code.         *)

TakenCode(c) == \E j \in Items : deliveries[j] = c

Complete(i) ==
  /\ pass[i].pc = "complete" /\ ~TakenCode(pass[i].code)
  /\ itemStatus' = [itemStatus EXCEPT ![i] = "delivered"]
  /\ deliveries' = [deliveries EXCEPT ![i] = pass[i].code]
  /\ source' = [source EXCEPT ![i] = pass[i].at]
  /\ Ends(i)
  /\ UNCHANGED <<open, rejected, suppliersSide, trouble>>

RejectTaken(i) ==
  /\ pass[i].pc = "complete" /\ TakenCode(pass[i].code)
  /\ Reject(i)

\* The process dies, or a statement fails: what the pass knew is lost.
Crash(i) ==
  /\ pass[i].pc # "idle"
  /\ Disturb("crash")
  /\ Ends(i)
  /\ UNCHANGED <<tables, suppliersSide>>

------------------------------------------------------------------------------
Undisturbed(i) ==
  \/ Begin(i) \/ Turn(i) \/ DecideRefund(i)
  \/ Issues(i) \/ OutOfStock(i)
  \/ RecordOk(i) \/ RecordOutOfStock(i) \/ RecordNoAnswer(i)
  \/ LookupFinds(i) \/ LookupEmpty(i)
  \/ VerifyEmpty(i) \/ VerifyFinds(i)
  \/ Complete(i) \/ RejectTaken(i)

Disturbed(i) ==
  \/ Fails(i) \/ TooLate(i) \/ LeftInFlight(i) \/ Unreachable(i)
  \/ AnswersForeign(i) \/ AnswersBookedTwice(i) \/ Limited(i)
  \/ LookupLimited(i) \/ LookupFails(i) \/ Crash(i)

Next == \/ \E i \in Items : Undisturbed(i) \/ Disturbed(i)
        \/ \E r \in flight : Lands(r)

Spec == Init /\ [][Next]_vars

\* Every call and statement ends (the client's timeout sees to it), a pending
\* unit gets another pass (the worker, the recovery sweep), and a supplier
\* comes to an end with every request.
Fairness == /\ \A i \in Items : WF_vars(Undisturbed(i))
            /\ \A r \in Requests : WF_vars(Lands(r))

FairSpec == Spec /\ Fairness

------------------------------------------------------------------------------
(* Properties.                                                             *)

\* What a customer gets is the code the supplier has booked, and will bill,
\* for that very unit, and no two customers get the same one: whatever the
\* suppliers answer and wherever the process dies (accept, complete).
DeliveredAsBooked ==
  /\ \A i \in Items : itemStatus[i] = "delivered" =>
       /\ source[i] \in Suppliers
       /\ Round(i, source[i]) \in 1..MaxRounds
       /\ deliveries[i] = book[<<i, source[i], Round(i, source[i])>>]
       /\ deliveries[i] # NoCode
  /\ \A i, j \in Items : i # j /\ deliveries[i] # NoCode => deliveries[i] # deliveries[j]

\* A supplier with an open question is settled before anybody else is asked,
\* across passes and crashes: at most one is ever open, no other is being
\* talked to meanwhile, and no money goes back (supplierChain, deliverItem).
OpenComesFirst ==
  \A i \in Items :
    /\ \A s, t \in open[i] : s = t
    /\ pass[i].pc \notin {"idle", "turn"} => open[i] \subseteq {pass[i].at}
    /\ itemStatus[i] = "refunding" => open[i] = {}

\* The suppliers whose book holds a code for the unit that was not rejected.
Holders(i) == {s \in Suppliers : /\ Round(i, s) <= MaxRounds
                                 /\ book[<<i, s, Round(i, s)>>] # NoCode}

\* Never two codes for one unit, and none where the money goes back: no
\* fallback and no refund while a supplier may hold a code (issue,
\* deliverItem; DECISIONS.md section 4).
OneHolder ==
  \A i \in Items :
    /\ \A s, t \in Holders(i) : s = t
    /\ itemStatus[i] = "refunding" => Holders(i) = {}

\* It holds as long as everything that happened left its attempt row: through
\* timeouts, retries, parking, empty books and lies (issue, deliverItem).
OneHolderWhileTraced == Traced => OneHolder

\* What became of a unit, and the codes it is billed for.
outcome == [i \in Items |->
  IF itemStatus[i] = "delivered" THEN <<"code", deliveries[i]>>
  ELSE IF itemStatus[i] = "refunding" THEN <<"given_up">> ELSE <<"undecided">>]

bills == [i \in Items |-> {<<s, book[<<i, s, Round(i, s)>>]>> : s \in Holders(i)}]

Bought == INSTANCE Procurement WITH traced <- Traced

\* The whole protocol buys as Procurement promises: only a billed code is given,
\* to one customer; with the trace kept a unit is billed at most once, and never
\* after it was given up; a code once given or written off is not taken back
\* (issue, accept, supplierChain, deliverItem).
BuysAsPromised == Bought!Spec

\* How far a pass is with one attempt.
Stage == [ask |-> 0, record |-> 1, lookup |-> 2, verify |-> 2, complete |-> 3, turn |-> 4]

\* The pass over i takes a step and is not over.
Continues(i) == pass[i].pc # "idle" /\ pass'[i].pc # "idle" /\ pass'[i] # pass[i]

\* Fewer suppliers to ask; or one more round of this one; or one more attempt in
\* this round; or a later stage of this attempt.
Advances(i) ==
  LET p == pass[i]
      q == pass'[i]
  IN \/ q.left \subseteq p.left /\ q.left # p.left
     \/ /\ q.left = p.left /\ q.at = p.at
        /\ \/ rejected'[i][p.at] > rejected[i][p.at]
           \/ /\ rejected'[i] = rejected[i]
              /\ \/ q.attempt > p.attempt
                 \/ q.attempt = p.attempt /\ Stage[q.pc] > Stage[p.pc]

\* No pass goes round in circles, whatever the suppliers answer: its steps use
\* up the chain, the rounds, the attempts and the stages of an attempt, all of
\* them limited by TypeOK (supplierChain, trySupplier, issue, accept).
EveryPassEnds == [][\A i \in Items : Continues(i) => Advances(i)]_vars

\* Every unit is decided in the end: rounds, retries, parking and lies do not
\* go on forever.
EveryItemDecided == \A i \in Items : <>(itemStatus[i] # "pending")
=============================================================================
