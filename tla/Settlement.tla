----------------------------- MODULE Settlement -----------------------------
(* The money of an order: the amounts kept in the order document and the      *)
(* payment documents, as paymentService writes them in Firestore transactions *)
(* and as the order services write them when an order is placed, repriced by  *)
(* a partial cancellation, cancelled or completed.  Those last writes are not *)
(* transactions in the code: each follows a read made earlier, so here they   *)
(* may happen at any time, whatever the order has become since that read.     *)
EXTENDS OrderStates, Integers, FiniteSets

CONSTANTS
  Orders, Payments,  \* document ids, each used for one document at most
  PayKeys,           \* idempotency keys of payment requests
  MaxTotal,          \* bound on the grand total, in units of account
  RepeatRefunds,     \* whether a refund request may be sent again
  LaterDiscounts,    \* whether a later submission may discount the whole bill
  NoOrder, NoPayKey

ASSUME MaxTotalIsNatural == MaxTotal \in Nat

ASSUME NoOrderIsNoOrder == NoOrder \notin Orders

ASSUME NoPayKeyIsFresh == NoPayKey \notin PayKeys \union Payments

ASSUME RepeatRefundsIsBoolean == RepeatRefunds \in BOOLEAN

ASSUME LaterDiscountsIsBoolean == LaterDiscounts \in BOOLEAN

VARIABLES
  order,      \* restaurants/R/orders: status and money of each order
  payment,    \* restaurants/R/payments
  payKey,     \* restaurants/R/idempotency: records of operation record_payment
  writtenOff  \* history: orders whose balance a cancellation closed

settleVars == <<order, payment, payKey, writtenOff>>

Money == 0..MaxTotal

PayStatus == {"unpaid", "partially_paid", "paid", "cancelled"}

OrderDoc == [status : OrderStatus \union {"none"}, grand : Nat, paid : Nat, due : Nat,
             payStatus : PayStatus]

PaymentDoc == [status : PaymentStatus \union {"none"}, order : Orders \union {NoOrder},
               amount : Nat, key : PayKeys \union {NoPayKey}]

(* "none" as a status marks a document that does not exist.                   *)
Placed(o) == order[o].status # "none"

SettleTypeOK ==
  /\ order \in [Orders -> OrderDoc]
  /\ payment \in [Payments -> PaymentDoc]
  /\ payKey \in [PayKeys -> Payments \union {NoPayKey}]
  /\ writtenOff \subseteq Orders

SettleInit ==
  /\ order = [o \in Orders |-> [status |-> "none", grand |-> 0, paid |-> 0, due |-> 0,
                                payStatus |-> "unpaid"]]
  /\ payment = [p \in Payments |-> [status |-> "none", order |-> NoOrder, amount |-> 0,
                                    key |-> NoPayKey]]
  /\ payKey = [k \in PayKeys |-> NoPayKey]
  /\ writtenOff = {}

-----------------------------------------------------------------------------
DueSwapped(grand, paid) == paid - grand         \* a bug: the operands are swapped

(* The part of a bill not paid yet; never negative in the code either.        *)
Due(grand, paid) == IF paid < grand THEN grand - paid ELSE 0

PayStatusOf(due, paid) ==
  IF due = 0 THEN "paid" ELSE IF paid > 0 THEN "partially_paid" ELSE "unpaid"

(* The order document after a payment transaction left it with this paid sum. *)
Settled(ord, paid) ==
  LET due == Due(ord.grand, paid) IN
  [ord EXCEPT !.paid = paid, !.due = due, !.payStatus = PayStatusOf(due, paid)]

FitsBefore(ord, amount) == ord.paid <= ord.grand       \* a bug: the amount is not added

(* The overpayment rejection: paidAmountMinor would not exceed the total.     *)
Fits(ord, amount) == ord.paid + amount <= ord.grand

(* submitServerPosOrder creates an order: nothing paid, all of it due.        *)
PlaceOrder(o, grand, st) ==
  /\ ~Placed(o)
  /\ st \in {"confirmed", "sentToKitchen"}
  /\ order' = [order EXCEPT ![o] = [status |-> st, grand |-> grand, paid |-> 0,
                                    due |-> grand, payStatus |-> PayStatusOf(grand, 0)]]
  /\ UNCHANGED <<payment, payKey, writtenOff>>

(* submitServerPosOrder adds items to the bill it found, when nothing happened *)
(* to that bill between its read and its write (DineIn has the other case).   *)
(* An order discount that comes with the new items is taken off the merged    *)
(* bill, so the total may fall below what was paid: nothing compares them.    *)
Extended(ord, grand) == Settled([ord EXCEPT !.grand = grand], ord.paid)

ExtendOrder(o, grand) ==
  /\ Placed(o) /\ order[o].status \notin TerminalOrder
  /\ LaterDiscounts \/ grand >= order[o].grand
  /\ order' = [order EXCEPT ![o] = Extended(@, grand)]
  /\ UNCHANGED <<payment, payKey, writtenOff>>

NotYetSet(p) == TRUE                            \* a bug: an id may be written twice

(* The payment document does not exist.  A retry of the transaction after a   *)
(* lost acknowledgement reuses the id it drew, and the rules deny turning the *)
(* existing document into a new payment.                                      *)
IsNewPayment(p) == payment[p].status = "none"

(* A key with a record returns the cached payment, or throws if the payload   *)
(* differs: either way nothing is written.                                    *)
PayKeyIsNew(k) == k # NoPayKey => payKey[k] = NoPayKey

(* recordPayment: one transaction over the key record, the order, the payment.*)
RecordPayment(o, amount, st, k, p) ==
  /\ PayKeyIsNew(k)
  /\ IsNewPayment(p)
  /\ Placed(o) /\ order[o].status # "cancelled"
  /\ st = "completed" => Fits(order[o], amount)
  /\ payment' = [payment EXCEPT ![p] = [status |-> st, order |-> o, amount |-> amount,
                                        key |-> k]]
  /\ order' = [order EXCEPT ![o] =
                 Settled(@, @.paid + (IF st = "completed" THEN amount ELSE 0))]
  /\ payKey' = IF k = NoPayKey THEN payKey ELSE [payKey EXCEPT ![k] = p]
  /\ UNCHANGED writtenOff

(* validatePaymentStatusTransition, which accepts the status a payment has.   *)
PaymentMove(from, to) == from = to \/ to \in NextPaymentStatus[from]

(* updatePaymentStatus: a pending payment completes or fails, a completed one *)
(* is refunded; the order is looked at whatever its status is.                *)
UpdatePaymentStatus(p, st) ==
  LET o     == payment[p].order
      a     == payment[p].amount
      delta == IF st = "completed" THEN a
               ELSE IF payment[p].status = "completed" THEN -a ELSE 0
  IN  /\ payment[p].status # "none"
      /\ payment[p].status # st
      /\ PaymentMove(payment[p].status, st)
      /\ st = "completed" => Fits(order[o], a)
      /\ payment' = [payment EXCEPT ![p].status = st]
      /\ order' = [order EXCEPT ![o] =
                     Settled(@, IF @.paid + delta < 0 THEN 0 ELSE @.paid + delta)]
      /\ UNCHANGED <<payKey, writtenOff>>

(* refundPayment.  A refunded payment passes the transition check too, since  *)
(* refunded -> refunded is the same status, and unlike updatePaymentStatus    *)
(* there is no early return for it: the amount is deducted once more.         *)
RefundPayment(p) ==
  LET o    == payment[p].order
      left == order[o].paid - payment[p].amount
  IN  /\ payment[p].status # "none"
      /\ PaymentMove(payment[p].status, "refunded")
      /\ payment[p].status = "refunded" => RepeatRefunds
      /\ payment' = [payment EXCEPT ![p].status = "refunded"]
      /\ order' = [order EXCEPT ![o] = Settled(@, IF left < 0 THEN 0 ELSE left)]
      /\ UNCHANGED <<payKey, writtenOff>>

-----------------------------------------------------------------------------
(* The writes of the order services.                                          *)

(* A partial cancellation may not take the bill below what is already paid.   *)
CoversPaid(ord, grand) == ord.paid <= grand

(* partiallyCancelKOTItemsWithAdmin: no larger bill; one without items is     *)
(* cancelled (its payment status is not written), and otherwise st is the     *)
(* status read before the transaction, which does not look at it again.       *)
Repriced(ord, grand, st) ==
  [ord EXCEPT !.grand = grand, !.due = Due(grand, ord.paid), !.status = st]

RepriceOrder(o, grand, st) ==
  /\ Placed(o) /\ order[o].status \notin TerminalOrder
  /\ st \in TerminalOrder => st = "cancelled" /\ grand = 0
  /\ grand <= order[o].grand
  /\ CoversPaid(order[o], grand)
  /\ order' = [order EXCEPT ![o] = Repriced(@, grand, st)]
  /\ UNCHANGED <<payment, payKey, writtenOff>>

(* updateOrderStatus(cancelled): the outstanding balance is closed.           *)
Cancelled(ord) == [ord EXCEPT !.status = "cancelled", !.due = 0, !.payStatus = "cancelled"]

CancelOrderWrite(o) ==
  /\ Placed(o)
  /\ order' = [order EXCEPT ![o] = Cancelled(@)]
  /\ writtenOff' = writtenOff \union {o}
  /\ UNCHANGED <<payment, payKey>>

(* completeOrder and the finalization service.                                *)
Completed(ord) == [ord EXCEPT !.status = "completed", !.payStatus = "paid"]

CompleteOrderWrite(o) ==
  /\ Placed(o)
  /\ order' = [order EXCEPT ![o] = Completed(@)]
  /\ UNCHANGED <<payment, payKey, writtenOff>>

(* Kitchen progress, and the completion written by closeSession: the status   *)
(* alone.                                                                     *)
StatusWrite(o, st) ==
  /\ Placed(o)
  /\ order' = [order EXCEPT ![o].status = st]
  /\ UNCHANGED <<payment, payKey, writtenOff>>

SettleNext ==
  \/ \E o \in Orders, g \in Money, st \in OrderStatus : PlaceOrder(o, g, st)
  \/ \E o \in Orders, a \in Money \ {0}, st \in PaymentStatus \ {"refunded"},
        k \in PayKeys \union {NoPayKey}, p \in Payments : RecordPayment(o, a, st, k, p)
  \/ \E p \in Payments, st \in PaymentStatus : UpdatePaymentStatus(p, st)
  \/ \E p \in Payments : RefundPayment(p)
  \/ \E o \in Orders, g \in Money : ExtendOrder(o, g)
  \/ \E o \in Orders, g \in Money, st \in OrderStatus : RepriceOrder(o, g, st)
  \/ \E o \in Orders : CancelOrderWrite(o) \/ CompleteOrderWrite(o)
  \/ \E o \in Orders, st \in OrderStatus : StatusWrite(o, st)

SettleSpec == SettleInit /\ [][SettleNext]_settleVars

-----------------------------------------------------------------------------
(* The completed payments of an order, and the units of money they took: the  *)
(* size of Till(o) is the sum of their amounts.                               *)
CompletedPayments(o) ==
  {p \in Payments : payment[p].order = o /\ payment[p].status = "completed"}

Till(o) == UNION {{p} \X (1..payment[p].amount) : p \in CompletedPayments(o)}

(* The amount an order says was paid is the sum of its completed payments     *)
(* (settlement.ts, invariants 5 and 6): every interleaving of payments,       *)
(* completions of pending payments, refunds, partial and full cancellations   *)
(* keeps the two documents in step.                                           *)
LedgerBalanced == \A o \in Orders : order[o].paid = Cardinality(Till(o))

(* No order is ever overpaid (paymentService, invariant 6), also when it is   *)
(* made smaller after it was paid; unless a later submission discounts it.    *)
NeverOverpaid == \A o \in Orders : order[o].paid <= order[o].grand

(* paid + due = total (settlement.ts, invariant 4), unless a cancellation     *)
(* closed the balance or a discount took the total below what was paid: no    *)
(* other path makes a debt disappear.                                         *)
DueIsRemainder ==
  \A o \in Orders :
     \/ order[o].paid + order[o].due = order[o].grand
     \/ order[o].due = 0 /\ (o \in writtenOff \/ order[o].paid > order[o].grand)

(* A payment request that carries a key is taken once, however often it is    *)
(* repeated.                                                                  *)
KeyPaysOnce ==
  \A p, q \in Payments :
     payment[p].key \in PayKeys /\ payment[p].key = payment[q].key => p = q

(* Payment documents are append-only facts: the amount and the order never    *)
(* change and a failed or refunded payment never counts again ("Payment       *)
(* records are never hard-deleted", paymentService, invariant 8).             *)
PaymentsAreRecords ==
  [][\A p \in Payments : payment[p].status # "none" =>
        /\ payment'[p].order = payment[p].order /\ payment'[p].amount = payment[p].amount
        /\ payment[p].status \in {"failed", "refunded"} =>
             payment'[p].status = payment[p].status]_settleVars
=============================================================================
