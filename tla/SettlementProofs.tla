-------------------------- MODULE SettlementProofs --------------------------
(* The ledger of an order, for any number of orders, payments, keys and any   *)
(* totals.  The sum of the completed payments is the size of the set of units *)
(* they took, Till(o), so that library facts about finite sets replace an     *)
(* induction over a sum.                                                      *)
EXTENDS Settlement, FiniteSetTheorems, TLAPS

(* A payment belongs to an order that was placed, and its key is recorded.    *)
PaymentsNamed ==
  \A p \in Payments : payment[p].status # "none" =>
     payment[p].order \in Orders /\ Placed(payment[p].order)

KeysRecorded ==
  /\ payment \in [Payments -> PaymentDoc]
  /\ payKey \in [PayKeys -> Payments \union {NoPayKey}]
  /\ \A p \in Payments : payment[p].status = "none" => payment[p].key = NoPayKey
  /\ \A p \in Payments : payment[p].key \in PayKeys => payKey[payment[p].key] # NoPayKey
  /\ KeyPaysOnce

Ledger == \A o \in Orders :
  IsFiniteSet(Till(o)) /\ order[o].paid = Cardinality(Till(o))

(* Only a discount that comes late can leave an order overpaid.               *)
NoneOverpaid == LaterDiscounts \/ NeverOverpaid

IInv ==
  /\ SettleTypeOK
  /\ PaymentsNamed
  /\ NoneOverpaid
  /\ DueIsRemainder
  /\ Ledger

-----------------------------------------------------------------------------
(* What Till does when one payment starts or stops counting, or none does.    *)

LEMMA TillMembers ==
  \A o, x : (x \in Till(o)) <=>
     (\E q \in CompletedPayments(o) : \E i \in 1..payment[q].amount : x = <<q, i>>)
BY DEF Till

LEMMA TillMembersNext ==
  \A o, x : (x \in Till(o)') <=>
     (\E q \in CompletedPayments(o)' : \E i \in 1..(payment'[q].amount) : x = <<q, i>>)
BY DEF Till

LEMMA TillSame ==
  ASSUME NEW o, CompletedPayments(o)' = CompletedPayments(o),
         \A q \in CompletedPayments(o) : payment'[q].amount = payment[q].amount
  PROVE  Till(o)' = Till(o)
<1>1. \A x : (x \in Till(o)') <=> (x \in Till(o))
  BY TillMembers, TillMembersNext
<1> QED BY <1>1

LEMMA UnitsOf ==
  ASSUME NEW p, NEW a \in Nat
  PROVE  IsFiniteSet({p} \X (1..a)) /\ Cardinality({p} \X (1..a)) = a
<1>1. IsFiniteSet({p}) /\ Cardinality({p}) = 1
  BY FS_Singleton
<1>2. IsFiniteSet(1..a) /\ Cardinality(1..a) = a
  BY FS_Interval
<1>3. /\ IsFiniteSet({p} \X (1..a))
      /\ Cardinality({p} \X (1..a)) = Cardinality({p}) * Cardinality(1..a)
  BY <1>1, <1>2, FS_Product
<1> QED BY <1>1, <1>2, <1>3

LEMMA TillGrows ==
  ASSUME NEW o, NEW p, NEW a \in Nat, IsFiniteSet(Till(o)),
         p \notin CompletedPayments(o),
         CompletedPayments(o)' = CompletedPayments(o) \union {p},
         \A q \in CompletedPayments(o) : payment'[q].amount = payment[q].amount,
         payment'[p].amount = a
  PROVE  IsFiniteSet(Till(o)') /\ Cardinality(Till(o)') = Cardinality(Till(o)) + a
<1> DEFINE U == {p} \X (1..a)
<1>1. Till(o)' = Till(o) \union U
  <2>1. \A x : (x \in U) <=> (\E i \in 1..a : x = <<p, i>>)
    OBVIOUS
  <2>2. \A x : (x \in Till(o)') <=> (x \in Till(o) \/ x \in U)
    BY <2>1, TillMembers, TillMembersNext
  <2> QED BY <2>2
<1>2. Till(o) \cap U = {}
  BY TillMembers
<1>3. IsFiniteSet(U) /\ Cardinality(U) = a
  BY UnitsOf
<1>4. Cardinality(Till(o)) \in Nat
  BY FS_CardinalityType
<1>5. Cardinality(Till(o) \cap U) = 0
  BY <1>2, FS_EmptySet
<1>6. /\ IsFiniteSet(Till(o) \union U)
      /\ Cardinality(Till(o) \union U) =
           Cardinality(Till(o)) + Cardinality(U) - Cardinality(Till(o) \cap U)
  BY <1>3, FS_Union
<1>7. Cardinality(Till(o) \union U) = Cardinality(Till(o)) + a
  <2> HIDE DEF U
  <2> QED BY <1>3, <1>4, <1>5, <1>6
<1> QED BY <1>1, <1>6, <1>7

LEMMA TillShrinks ==
  ASSUME NEW o, NEW p \in CompletedPayments(o), NEW a \in Nat, IsFiniteSet(Till(o)),
         payment[p].amount = a,
         CompletedPayments(o)' = CompletedPayments(o) \ {p},
         \A q \in CompletedPayments(o) : payment'[q].amount = payment[q].amount
  PROVE  /\ IsFiniteSet(Till(o)')
         /\ Cardinality(Till(o)') = Cardinality(Till(o)) - a
         /\ a <= Cardinality(Till(o))
<1> DEFINE U == {p} \X (1..a)
<1>1. \A x : (x \in U) <=> (\E i \in 1..a : x = <<p, i>>)
  OBVIOUS
<1>2. Till(o)' = Till(o) \ U
  <2>1. \A x : (x \in Till(o)') <=> (x \in Till(o) /\ x \notin U)
    BY <1>1, TillMembers, TillMembersNext
  <2> QED BY <2>1
<1>3. U \subseteq Till(o)
  BY <1>1, TillMembers
<1>4. IsFiniteSet(U) /\ Cardinality(U) = a
  BY UnitsOf
<1>5. Till(o) \cap U = U
  BY <1>3
<1>6. Cardinality(U) <= Cardinality(Till(o))
  BY <1>3, FS_Subset
<1>7. /\ IsFiniteSet(Till(o) \ U)
      /\ Cardinality(Till(o) \ U) = Cardinality(Till(o)) - Cardinality(Till(o) \cap U)
  BY FS_Difference
<1> QED BY <1>2, <1>4, <1>5, <1>6, <1>7

LEMMA PaymentsSame ==
  ASSUME payment' = payment
  PROVE  \A o : Till(o)' = Till(o)
<1>1. \A o : CompletedPayments(o)' = CompletedPayments(o)
  BY DEF CompletedPayments
<1> QED BY <1>1, TillSame

(* An order nobody placed has nothing in the till.                            *)
LEMMA NothingPaidYet ==
  ASSUME IInv, NEW o \in Orders, ~Placed(o)
  PROVE  order[o].paid = 0
<1>1. CompletedPayments(o) = {}
  BY DEF IInv, PaymentsNamed, CompletedPayments
<1>2. Till(o) = {}
  BY <1>1, TillMembers
<1> QED BY <1>2, FS_EmptySet DEF IInv, Ledger

-----------------------------------------------------------------------------
(* The order document after a payment transaction.                            *)
LEMMA SettledDoc ==
  ASSUME NEW ord \in OrderDoc, NEW paid \in Nat
  PROVE  /\ Settled(ord, paid) \in OrderDoc
         /\ Settled(ord, paid).status = ord.status
         /\ Settled(ord, paid).grand = ord.grand
         /\ Settled(ord, paid).paid = paid
         /\ Settled(ord, paid).due = Due(ord.grand, paid)
<1>1. Due(ord.grand, paid) \in Nat
  BY DEF Due, OrderDoc
<1>2. PayStatusOf(Due(ord.grand, paid), paid) \in PayStatus
  BY DEF PayStatusOf, PayStatus
<1> QED BY <1>1, <1>2 DEF Settled, OrderDoc

(* One write leaves order o with this paid sum.                               *)
SettledTo(o, paid) == order' = [order EXCEPT ![o] = Settled(order[o], paid)]

(* A payment transaction that leaves no more paid than the total, if no order *)
(* is overpaid, keeps every fact about the order documents.                   *)
LEMMA SettleOrder ==
  ASSUME IInv, NEW o \in Orders, Placed(o), NEW paid \in Nat,
         LaterDiscounts \/ paid <= order[o].grand,
         SettledTo(o, paid), UNCHANGED writtenOff
  PROVE  /\ order' \in [Orders -> OrderDoc]
         /\ NoneOverpaid'
         /\ DueIsRemainder'
         /\ \A q \in Orders : Placed(q) => Placed(q)'
         /\ order'[o].paid = paid
         /\ \A q \in Orders \ {o} : order'[q].paid = order[q].paid
<1>1. order \in [Orders -> OrderDoc]
  BY DEF IInv, SettleTypeOK
<1>2. /\ Settled(order[o], paid) \in OrderDoc
      /\ Settled(order[o], paid).status = order[o].status
      /\ Settled(order[o], paid).grand = order[o].grand
      /\ Settled(order[o], paid).paid = paid
      /\ Settled(order[o], paid).due = Due(order[o].grand, paid)
  BY <1>1, SettledDoc
<1>3. order' \in [Orders -> OrderDoc]
  BY <1>1, <1>2 DEF SettledTo
<1>4. order'[o] = Settled(order[o], paid) /\ \A q \in Orders \ {o} : order'[q] = order[q]
  BY <1>1 DEF SettledTo
<1>5. NoneOverpaid'
  BY <1>2, <1>4 DEF NoneOverpaid, NeverOverpaid, IInv
<1>6. DueIsRemainder'
  <2>1. \/ paid + Due(order[o].grand, paid) = order[o].grand
        \/ Due(order[o].grand, paid) = 0 /\ paid > order[o].grand
    BY <1>1 DEF Due, OrderDoc
  <2> QED BY <1>2, <1>4, <2>1 DEF DueIsRemainder, IInv
<1> QED BY <1>2, <1>3, <1>4, <1>5, <1>6 DEF Placed

-----------------------------------------------------------------------------
LEMMA InitIInv == SettleInit => IInv
<1> SUFFICES ASSUME SettleInit PROVE IInv
  OBVIOUS
<1>1. SettleTypeOK
  BY DEF SettleInit, SettleTypeOK, OrderDoc, PaymentDoc, PayStatus
<1>2. PaymentsNamed /\ NoneOverpaid /\ DueIsRemainder
  BY DEF SettleInit, PaymentsNamed, NoneOverpaid, NeverOverpaid, DueIsRemainder
<1>3. Ledger
  <2>1. \A o \in Orders : CompletedPayments(o) = {}
    BY DEF SettleInit, CompletedPayments
  <2>2. \A o \in Orders : Till(o) = {}
    BY <2>1, TillMembers
  <2> QED BY <2>2, FS_EmptySet DEF SettleInit, Ledger
<1> QED BY <1>1, <1>2, <1>3 DEF IInv

LEMMA RecordStep ==
  ASSUME IInv, NEW o \in Orders, NEW a \in Money \ {0},
         NEW st \in PaymentStatus \ {"refunded"}, NEW k \in PayKeys \union {NoPayKey},
         NEW p \in Payments, RecordPayment(o, a, st, k, p)
  PROVE  IInv'
<1> DEFINE more == IF st = "completed" THEN a ELSE 0
<1>1. /\ payment[p].status = "none"
      /\ Placed(o)
      /\ st = "completed" => order[o].paid + a <= order[o].grand
      /\ payment' = [payment EXCEPT ![p] = [status |-> st, order |-> o, amount |-> a,
                                            key |-> k]]
      /\ SettledTo(o, order[o].paid + more)
      /\ UNCHANGED writtenOff
  BY DEF RecordPayment, IsNewPayment, Fits, SettledTo
<1>2. /\ order \in [Orders -> OrderDoc]
      /\ payment \in [Payments -> PaymentDoc]
      /\ payKey \in [PayKeys -> Payments \union {NoPayKey}]
  BY DEF IInv, SettleTypeOK
<1>3. a \in Nat /\ more \in Nat /\ order[o].paid \in Nat /\ order[o].grand \in Nat
  BY <1>2, MaxTotalIsNatural DEF Money, OrderDoc
<1>4. /\ order[o].paid + more \in Nat
      /\ LaterDiscounts \/ order[o].paid + more <= order[o].grand
  BY <1>1, <1>3 DEF IInv, NoneOverpaid, NeverOverpaid
<1>5. /\ order' \in [Orders -> OrderDoc] /\ NoneOverpaid' /\ DueIsRemainder'
      /\ \A q \in Orders : Placed(q) => Placed(q)'
      /\ order'[o].paid = order[o].paid + more
      /\ \A q \in Orders \ {o} : order'[q].paid = order[q].paid
  <2> HIDE DEF more
  <2> QED BY <1>1, <1>4, SettleOrder
<1>6. SettleTypeOK'
  <2>1. payment' \in [Payments -> PaymentDoc]
    BY <1>1, <1>2, <1>3 DEF PaymentDoc
  <2>2. payKey' \in [PayKeys -> Payments \union {NoPayKey}]
    BY <1>2 DEF RecordPayment
  <2> QED BY <1>1, <1>5, <2>1, <2>2 DEF SettleTypeOK, IInv
<1>7. PaymentsNamed'
  BY <1>1, <1>2, <1>5 DEF PaymentsNamed, IInv, PaymentDoc
<1>8. /\ payment'[p] = [status |-> st, order |-> o, amount |-> a, key |-> k]
      /\ \A q \in Payments \ {p} : payment'[q] = payment[q]
      /\ \A r : p \notin CompletedPayments(r)
  BY <1>1, <1>2 DEF CompletedPayments
<1>9. Ledger'
  <2>1. ASSUME NEW r \in Orders, r # o \/ st # "completed"
        PROVE  /\ IsFiniteSet(Till(r)')
               /\ Cardinality(Till(r)') = order'[r].paid
    <3>1. CompletedPayments(r)' = CompletedPayments(r)
      BY <1>8, <2>1 DEF CompletedPayments
    <3>2. \A q \in CompletedPayments(r) : payment'[q].amount = payment[q].amount
      BY <1>8 DEF CompletedPayments
    <3>3. Till(r)' = Till(r)
      BY <3>1, <3>2, TillSame
    <3>4. order'[r].paid = order[r].paid
      BY <1>3, <1>5, <2>1
    <3> QED BY <3>3, <3>4 DEF IInv, Ledger
  <2>2. ASSUME st = "completed"
        PROVE  /\ IsFiniteSet(Till(o)')
               /\ Cardinality(Till(o)') = order'[o].paid
    <3>1. CompletedPayments(o)' = CompletedPayments(o) \union {p}
      BY <1>8, <2>2 DEF CompletedPayments
    <3>2. \A q \in CompletedPayments(o) : payment'[q].amount = payment[q].amount
      BY <1>8 DEF CompletedPayments
    <3>3. IsFiniteSet(Till(o)) /\ Cardinality(Till(o)) = order[o].paid
      BY DEF IInv, Ledger
    <3>4. payment'[p].amount = a
      BY <1>8
    <3>5. IsFiniteSet(Till(o)') /\ Cardinality(Till(o)') = Cardinality(Till(o)) + a
      BY <1>3, <1>8, <3>1, <3>2, <3>3, <3>4, TillGrows
    <3> QED BY <1>5, <2>2, <3>3, <3>5
  <2> QED BY <2>1, <2>2 DEF Ledger
<1> QED BY <1>5, <1>6, <1>7, <1>9 DEF IInv

(* What the till of its order gains when payment p becomes st.                *)
Delta(p, st) == IF st = "completed" THEN payment[p].amount
                ELSE IF payment[p].status = "completed" THEN -payment[p].amount ELSE 0

(* One write gives payment p the status st.                                   *)
Marked(p, st) == payment' = [payment EXCEPT ![p].status = st]

(* A payment that changes its status puts its amount in the till of its order,*)
(* takes it out, or changes nothing there.                                    *)
LEMMA MarkPayment ==
  ASSUME IInv, NEW p \in Payments, payment[p].status # "none",
         NEW st \in PaymentStatus, st # payment[p].status,
         Marked(p, st), NEW o, o = payment[p].order, NEW a, a = payment[p].amount,
         NEW delta, delta = Delta(p, st)
  PROVE  /\ payment' \in [Payments -> PaymentDoc]
         /\ \A q \in Payments : /\ payment'[q].order = payment[q].order
                                /\ payment'[q].amount = payment[q].amount
                                /\ payment'[q].key = payment[q].key
                                /\ payment'[q].status = "none" <=> payment[q].status = "none"
         /\ a \in Nat /\ delta \in Int
         /\ order[o].paid + delta >= 0
         /\ IsFiniteSet(Till(o)') /\ Cardinality(Till(o)') = order[o].paid + delta
         /\ \A r \in Orders \ {o} : Till(r)' = Till(r)
<1>1. payment \in [Payments -> PaymentDoc]
  BY DEF IInv, SettleTypeOK
<1>2. o \in Orders /\ a \in Nat
  BY <1>1 DEF IInv, PaymentsNamed, PaymentDoc
<1>3. [payment[p] EXCEPT !.status = st] \in PaymentDoc
  BY <1>1 DEF PaymentDoc
<1>4. payment' \in [Payments -> PaymentDoc]
  BY <1>1, <1>3 DEF Marked
<1>5. /\ \A q \in Payments : /\ payment'[q].order = payment[q].order
                             /\ payment'[q].amount = payment[q].amount
                             /\ payment'[q].key = payment[q].key
      /\ \A q \in Payments \ {p} : payment'[q].status = payment[q].status
      /\ payment'[p].status = st
  BY <1>1 DEF PaymentDoc, Marked
<1>6. \A q \in Payments : payment'[q].status = "none" <=> payment[q].status = "none"
  BY <1>5 DEF PaymentStatus
<1>7. IsFiniteSet(Till(o)) /\ Cardinality(Till(o)) = order[o].paid /\ order[o].paid \in Nat
  BY <1>2 DEF IInv, Ledger, SettleTypeOK, OrderDoc
<1>8. \A r : \A q \in CompletedPayments(r) : payment'[q].amount = payment[q].amount
  BY <1>5 DEF CompletedPayments
<1>9. \A r \in Orders \ {o} : Till(r)' = Till(r)
  <2> SUFFICES ASSUME NEW r \in Orders \ {o} PROVE Till(r)' = Till(r)
    OBVIOUS
  <2>1. CompletedPayments(r)' = CompletedPayments(r)
    BY <1>5 DEF CompletedPayments
  <2> QED BY <1>8, <2>1, TillSame
<1>10. /\ order[o].paid + delta >= 0 /\ delta \in Int
       /\ IsFiniteSet(Till(o)') /\ Cardinality(Till(o)') = order[o].paid + delta
  <2>1. CASE st = "completed"
    <3>1. /\ p \notin CompletedPayments(o)
          /\ CompletedPayments(o)' = CompletedPayments(o) \union {p}
      BY <1>5, <2>1 DEF CompletedPayments
    <3>2. IsFiniteSet(Till(o)') /\ Cardinality(Till(o)') = Cardinality(Till(o)) + a
      BY <1>2, <1>5, <1>7, <1>8, <3>1, TillGrows
    <3> QED BY <1>2, <1>7, <2>1, <3>2 DEF Delta
  <2>2. CASE st # "completed" /\ payment[p].status = "completed"
    <3>1. /\ p \in CompletedPayments(o)
          /\ CompletedPayments(o)' = CompletedPayments(o) \ {p}
      BY <1>5, <2>2 DEF CompletedPayments
    <3>2. /\ IsFiniteSet(Till(o)')
          /\ Cardinality(Till(o)') = Cardinality(Till(o)) - a
          /\ a <= Cardinality(Till(o))
      BY <1>2, <1>7, <1>8, <3>1, TillShrinks
    <3> QED BY <1>2, <1>7, <2>2, <3>2 DEF Delta
  <2>3. CASE st # "completed" /\ payment[p].status # "completed"
    <3>1. CompletedPayments(o)' = CompletedPayments(o)
      BY <1>5, <2>3 DEF CompletedPayments
    <3>2. Till(o)' = Till(o)
      BY <1>8, <3>1, TillSame
    <3> QED BY <1>7, <2>3, <3>2 DEF Delta
  <2> QED BY <2>1, <2>2, <2>3
<1> QED BY <1>2, <1>4, <1>5, <1>6, <1>9, <1>10

LEMMA MarkedInv ==
  ASSUME IInv, NEW p \in Payments, payment[p].status # "none",
         NEW st \in PaymentStatus, st # payment[p].status,
         Marked(p, st), NEW o, o = payment[p].order, NEW a, a = payment[p].amount,
         NEW delta, delta = Delta(p, st),
         st = "completed" => Fits(order[o], a),
         SettledTo(o, IF order[o].paid + delta < 0 THEN 0 ELSE order[o].paid + delta),
         UNCHANGED <<payKey, writtenOff>>
  PROVE  IInv'
<1> DEFINE paid == order[o].paid + delta
<1>1. /\ payment' \in [Payments -> PaymentDoc]
      /\ \A q \in Payments : /\ payment'[q].order = payment[q].order
                             /\ payment'[q].amount = payment[q].amount
                             /\ payment'[q].key = payment[q].key
                             /\ payment'[q].status = "none" <=> payment[q].status = "none"
      /\ a \in Nat /\ delta \in Int
      /\ order[o].paid + delta >= 0
      /\ IsFiniteSet(Till(o)') /\ Cardinality(Till(o)') = order[o].paid + delta
      /\ \A r \in Orders \ {o} : Till(r)' = Till(r)
  BY MarkPayment
<1>2. o \in Orders /\ Placed(o)
  BY DEF IInv, PaymentsNamed
<1>3. order[o].paid \in Nat /\ order[o].grand \in Nat
  BY <1>2 DEF IInv, SettleTypeOK, OrderDoc
<1>4. paid \in Nat
  BY <1>1, <1>3
<1>5. LaterDiscounts \/ paid <= order[o].grand
  <2>1. LaterDiscounts \/ order[o].paid <= order[o].grand
    BY <1>2 DEF IInv, NoneOverpaid, NeverOverpaid
  <2>2. CASE st = "completed"
    BY <2>2 DEF Fits, Delta
  <2>3. CASE st # "completed"
    <3>1. delta <= 0
      BY <1>1, <2>3 DEF Delta
    <3> QED BY <1>1, <1>3, <2>1, <3>1
  <2> QED BY <2>2, <2>3
<1>6. SettledTo(o, paid)
  <2>1. (IF order[o].paid + delta < 0 THEN 0 ELSE order[o].paid + delta) = paid
    BY <1>1, <1>3
  <2> QED BY <2>1
<1>7. /\ order' \in [Orders -> OrderDoc] /\ NoneOverpaid' /\ DueIsRemainder'
      /\ \A q \in Orders : Placed(q) => Placed(q)'
      /\ order'[o].paid = paid
      /\ \A q \in Orders \ {o} : order'[q].paid = order[q].paid
  <2> HIDE DEF paid
  <2> QED BY <1>2, <1>4, <1>5, <1>6, SettleOrder
<1>8. SettleTypeOK'
  BY <1>1, <1>7 DEF IInv, SettleTypeOK
<1>9. PaymentsNamed'
  BY <1>1, <1>7 DEF IInv, PaymentsNamed
<1>10. Ledger'
  BY <1>1, <1>7 DEF IInv, Ledger
<1> QED BY <1>7, <1>8, <1>9, <1>10 DEF IInv

LEMMA UpdateStep ==
  ASSUME IInv, NEW p \in Payments, NEW st \in PaymentStatus, UpdatePaymentStatus(p, st)
  PROVE  IInv'
<1> DEFINE o == payment[p].order
           a == payment[p].amount
           delta == Delta(p, st)
<1>1. /\ payment[p].status # "none"
      /\ st # payment[p].status
      /\ st = "completed" => Fits(order[o], a)
      /\ Marked(p, st)
      /\ SettledTo(o, IF order[o].paid + delta < 0 THEN 0 ELSE order[o].paid + delta)
      /\ UNCHANGED <<payKey, writtenOff>>
  BY DEF UpdatePaymentStatus, Delta, Marked, SettledTo
<1> QED BY <1>1, MarkedInv

(* A refund is taken out of the till once, if it is not requested again.      *)
LEMMA RefundStep ==
  ASSUME ~RepeatRefunds, IInv, NEW p \in Payments, RefundPayment(p)
  PROVE  IInv'
<1> DEFINE o == payment[p].order
           a == payment[p].amount
           delta == Delta(p, "refunded")
<1>1. payment[p].status = "completed"
  BY DEF RefundPayment, PaymentMove, NextPaymentStatus, IInv, SettleTypeOK, PaymentDoc,
         PaymentStatus
<1>2. order[o].paid \in Nat /\ a \in Nat
  BY <1>1 DEF IInv, PaymentsNamed, SettleTypeOK, OrderDoc, PaymentDoc
<1>3. order[o].paid + delta = order[o].paid - a
  BY <1>1, <1>2 DEF Delta
<1>4. /\ Marked(p, "refunded")
      /\ SettledTo(o, IF order[o].paid + delta < 0 THEN 0 ELSE order[o].paid + delta)
      /\ UNCHANGED <<payKey, writtenOff>>
  BY <1>3 DEF RefundPayment, Marked, SettledTo
<1>5. "refunded" \in PaymentStatus
  BY DEF PaymentStatus
<1> QED BY <1>1, <1>4, <1>5, MarkedInv

-----------------------------------------------------------------------------
(* A write of an order service that touches no payment keeps the invariant if *)
(* the amounts it leaves in the order document are in order.                  *)
LEMMA OrderWrite ==
  ASSUME IInv, UNCHANGED <<payment, payKey>>, writtenOff' \subseteq Orders,
         order' \in [Orders -> OrderDoc], NoneOverpaid', DueIsRemainder',
         \A o \in Orders : order'[o].paid = order[o].paid /\ (Placed(o) => Placed(o)')
  PROVE  IInv'
<1>1. \A o : Till(o)' = Till(o)
  BY PaymentsSame
<1>2. Ledger'
  BY <1>1 DEF IInv, Ledger
<1>3. SettleTypeOK' /\ PaymentsNamed'
  BY DEF IInv, SettleTypeOK, PaymentsNamed
<1> QED BY <1>2, <1>3 DEF IInv

LEMMA PlaceStep ==
  ASSUME IInv, NEW o \in Orders, NEW g \in Money, NEW st \in OrderStatus,
         PlaceOrder(o, g, st)
  PROVE  IInv'
<1> DEFINE new == [status |-> st, grand |-> g, paid |-> 0, due |-> g,
                   payStatus |-> PayStatusOf(g, 0)]
<1>1. /\ ~Placed(o)
      /\ st \in {"confirmed", "sentToKitchen"}
      /\ order' = [order EXCEPT ![o] = new]
      /\ UNCHANGED <<payment, payKey, writtenOff>>
  BY DEF PlaceOrder
<1>2. order \in [Orders -> OrderDoc] /\ writtenOff \subseteq Orders /\ g \in Nat
  BY MaxTotalIsNatural DEF IInv, SettleTypeOK, Money
<1>3. new \in OrderDoc
  BY <1>2 DEF OrderDoc, PayStatusOf, PayStatus
<1>4. order'[o] = new /\ \A q \in Orders \ {o} : order'[q] = order[q]
  BY <1>1, <1>2
<1>5. order' \in [Orders -> OrderDoc]
  BY <1>1, <1>2, <1>3
<1>6. new.status # "none" /\ new.paid = 0 /\ new.paid <= new.grand
      /\ new.paid + new.due = new.grand
  BY <1>1, <1>2
<1> HIDE DEF new
<1>7. NoneOverpaid' /\ DueIsRemainder'
  BY <1>1, <1>4, <1>6 DEF IInv, NoneOverpaid, NeverOverpaid, DueIsRemainder
<1>8. \A q \in Orders : order'[q].paid = order[q].paid /\ (Placed(q) => Placed(q)')
  BY <1>1, <1>4, <1>6, NothingPaidYet DEF Placed
<1> QED BY <1>1, <1>2, <1>5, <1>7, <1>8, OrderWrite

LEMMA ExtendStep ==
  ASSUME IInv, NEW o \in Orders, NEW g \in Money, ExtendOrder(o, g)
  PROVE  IInv'
<1> DEFINE doc == Extended(order[o], g)
<1>1. /\ Placed(o)
      /\ LaterDiscounts \/ order[o].grand <= g
      /\ order' = [order EXCEPT ![o] = doc]
      /\ UNCHANGED <<payment, payKey, writtenOff>>
  <2>1. order[o].grand \in Nat /\ g \in Int
    BY MaxTotalIsNatural DEF IInv, SettleTypeOK, OrderDoc, Money
  <2> QED BY <2>1 DEF ExtendOrder
<1>2. order \in [Orders -> OrderDoc] /\ writtenOff \subseteq Orders /\ g \in Nat
  BY MaxTotalIsNatural DEF IInv, SettleTypeOK, Money
<1>3. order[o].paid \in Nat /\ (LaterDiscounts \/ order[o].paid <= g)
  BY <1>1, <1>2 DEF IInv, NoneOverpaid, NeverOverpaid, OrderDoc
<1>4. /\ Due(g, order[o].paid) \in Nat
      /\ \/ order[o].paid + Due(g, order[o].paid) = g
         \/ Due(g, order[o].paid) = 0 /\ order[o].paid > g
  BY <1>2, <1>3 DEF Due
<1>5. /\ doc \in OrderDoc
      /\ doc.status # "none"
      /\ doc.paid = order[o].paid
      /\ doc.grand = g
      /\ doc.due = Due(g, order[o].paid)
  BY <1>1, <1>2, <1>3, <1>4 DEF Extended, Settled, OrderDoc, Placed, PayStatusOf, PayStatus
<1> HIDE DEF doc
<1>6. order'[o] = doc /\ \A q \in Orders \ {o} : order'[q] = order[q]
  BY <1>1, <1>2
<1>7. order' \in [Orders -> OrderDoc]
  BY <1>1, <1>2, <1>5
<1>8. NoneOverpaid' /\ DueIsRemainder'
  BY <1>1, <1>3, <1>4, <1>5, <1>6 DEF IInv, NoneOverpaid, NeverOverpaid, DueIsRemainder
<1>9. \A q \in Orders : order'[q].paid = order[q].paid /\ (Placed(q) => Placed(q)')
  BY <1>5, <1>6 DEF Placed
<1> QED BY <1>1, <1>2, <1>7, <1>8, <1>9, OrderWrite

LEMMA RepriceStep ==
  ASSUME IInv, NEW o \in Orders, NEW g \in Money, NEW st \in OrderStatus,
         RepriceOrder(o, g, st)
  PROVE  IInv'
<1>1. /\ Placed(o)
      /\ order[o].paid <= g
      /\ order' = [order EXCEPT ![o] = Repriced(order[o], g, st)]
      /\ UNCHANGED <<payment, payKey, writtenOff>>
  BY DEF RepriceOrder, CoversPaid
<1>2. order \in [Orders -> OrderDoc] /\ writtenOff \subseteq Orders /\ g \in Nat
  BY MaxTotalIsNatural DEF IInv, SettleTypeOK, Money
<1>3. Due(g, order[o].paid) \in Nat /\ order[o].paid + Due(g, order[o].paid) = g
  BY <1>1, <1>2 DEF Due, OrderDoc
<1>4. /\ Repriced(order[o], g, st) \in OrderDoc
      /\ Repriced(order[o], g, st).status # "none"
      /\ Repriced(order[o], g, st).paid = order[o].paid
      /\ Repriced(order[o], g, st).grand = g
      /\ Repriced(order[o], g, st).due = Due(g, order[o].paid)
  BY <1>1, <1>2, <1>3 DEF Repriced, OrderDoc, Placed, OrderStatus
<1>5. order'[o] = Repriced(order[o], g, st) /\ \A q \in Orders \ {o} : order'[q] = order[q]
  BY <1>1, <1>2
<1>6. order' \in [Orders -> OrderDoc]
  BY <1>1, <1>2, <1>4
<1>7. NoneOverpaid' /\ DueIsRemainder'
  BY <1>1, <1>3, <1>4, <1>5 DEF IInv, NoneOverpaid, NeverOverpaid, DueIsRemainder
<1>8. \A q \in Orders : order'[q].paid = order[q].paid /\ (Placed(q) => Placed(q)')
  BY <1>4, <1>5 DEF Placed
<1> QED BY <1>1, <1>2, <1>6, <1>7, <1>8, OrderWrite

LEMMA CancelStep ==
  ASSUME IInv, NEW o \in Orders, CancelOrderWrite(o)
  PROVE  IInv'
<1>1. /\ order' = [order EXCEPT ![o] = Cancelled(order[o])]
      /\ writtenOff' = writtenOff \union {o}
      /\ UNCHANGED <<payment, payKey>>
  BY DEF CancelOrderWrite
<1>2. order \in [Orders -> OrderDoc] /\ writtenOff \subseteq Orders
  BY DEF IInv, SettleTypeOK
<1>3. /\ Cancelled(order[o]) \in OrderDoc
      /\ Cancelled(order[o]).status = "cancelled"
      /\ Cancelled(order[o]).paid = order[o].paid
      /\ Cancelled(order[o]).grand = order[o].grand
      /\ Cancelled(order[o]).due = 0
  BY <1>2 DEF Cancelled, OrderDoc, OrderStatus, PayStatus
<1>4. order'[o] = Cancelled(order[o]) /\ \A q \in Orders \ {o} : order'[q] = order[q]
  BY <1>1, <1>2
<1>5. order' \in [Orders -> OrderDoc]
  BY <1>1, <1>2, <1>3
<1>6. NoneOverpaid' /\ DueIsRemainder'
  BY <1>1, <1>3, <1>4 DEF IInv, NoneOverpaid, NeverOverpaid, DueIsRemainder
<1>7. \A q \in Orders : order'[q].paid = order[q].paid /\ (Placed(q) => Placed(q)')
  BY <1>3, <1>4 DEF Placed
<1> QED BY <1>1, <1>2, <1>5, <1>6, <1>7, OrderWrite

(* Completion and kitchen progress write no amount.                           *)
LEMMA StatusStep ==
  ASSUME IInv, NEW o \in Orders,
         CompleteOrderWrite(o) \/ (\E st \in OrderStatus : StatusWrite(o, st))
  PROVE  IInv'
<1>1. PICK doc : /\ order' = [order EXCEPT ![o] = doc]
                 /\ doc \in OrderDoc /\ doc.status # "none"
                 /\ doc.paid = order[o].paid /\ doc.grand = order[o].grand
                 /\ doc.due = order[o].due
  <2>1. order[o] \in OrderDoc
    BY DEF IInv, SettleTypeOK
  <2>2. CASE CompleteOrderWrite(o)
    <3>1. /\ Completed(order[o]) \in OrderDoc
          /\ Completed(order[o]).status = "completed"
          /\ Completed(order[o]).paid = order[o].paid
          /\ Completed(order[o]).grand = order[o].grand
          /\ Completed(order[o]).due = order[o].due
      BY <2>1 DEF Completed, OrderDoc, OrderStatus, PayStatus
    <3>2. order' = [order EXCEPT ![o] = Completed(order[o])]
      BY <2>2 DEF CompleteOrderWrite
    <3> QED BY <3>1, <3>2
  <2>3. ASSUME NEW st \in OrderStatus, StatusWrite(o, st)
        PROVE  \E doc : /\ order' = [order EXCEPT ![o] = doc]
                        /\ doc \in OrderDoc /\ doc.status # "none"
                        /\ doc.paid = order[o].paid /\ doc.grand = order[o].grand
                        /\ doc.due = order[o].due
    <3> DEFINE doc == [order[o] EXCEPT !.status = st]
    <3>1. /\ doc \in OrderDoc /\ doc.status # "none"
          /\ doc.paid = order[o].paid /\ doc.grand = order[o].grand
          /\ doc.due = order[o].due
      BY <2>1 DEF OrderDoc, OrderStatus
    <3>2. order' = [order EXCEPT ![o] = doc]
      BY <2>3 DEF StatusWrite
    <3> HIDE DEF doc
    <3> QED BY <3>1, <3>2
  <2> QED BY <2>2, <2>3
<1>2. order \in [Orders -> OrderDoc] /\ writtenOff \subseteq Orders
  BY DEF IInv, SettleTypeOK
<1>3. UNCHANGED <<payment, payKey, writtenOff>>
  BY DEF CompleteOrderWrite, StatusWrite
<1>4. order'[o] = doc /\ \A q \in Orders \ {o} : order'[q] = order[q]
  BY <1>1, <1>2
<1>5. order' \in [Orders -> OrderDoc]
  BY <1>1, <1>2
<1>6. NoneOverpaid' /\ DueIsRemainder'
  BY <1>1, <1>3, <1>4 DEF IInv, NoneOverpaid, NeverOverpaid, DueIsRemainder
<1>7. \A q \in Orders : order'[q].paid = order[q].paid /\ (Placed(q) => Placed(q)')
  BY <1>1, <1>4 DEF Placed
<1> QED BY <1>2, <1>3, <1>5, <1>6, <1>7, OrderWrite

(* Every step keeps the ledger, provided no refund is requested twice.        *)
LEMMA LedgerStep ==
  ASSUME ~RepeatRefunds, IInv, [SettleNext]_settleVars
  PROVE  IInv'
<1>1. CASE UNCHANGED settleVars
  <2>1. UNCHANGED <<payment, payKey>> /\ order' = order /\ writtenOff' = writtenOff
    BY <1>1 DEF settleVars
  <2>2. /\ writtenOff' \subseteq Orders /\ order' \in [Orders -> OrderDoc]
        /\ NoneOverpaid' /\ DueIsRemainder'
        /\ \A o \in Orders : order'[o].paid = order[o].paid /\ (Placed(o) => Placed(o)')
    BY <2>1 DEF IInv, SettleTypeOK, NoneOverpaid, NeverOverpaid, DueIsRemainder, Placed
  <2> QED BY <2>1, <2>2, OrderWrite
<1> QED BY <1>1, PlaceStep, ExtendStep, RecordStep, UpdateStep, RefundStep, RepriceStep,
           CancelStep, StatusStep DEF SettleNext

(* The strengthening behind the three theorems on amounts.                    *)
THEOREM LedgerInvariant == ASSUME ~RepeatRefunds PROVE SettleSpec => []IInv
<1>1. SettleInit => IInv
  BY InitIInv
<1>2. IInv /\ [SettleNext]_settleVars => IInv'
  BY LedgerStep
<1> QED BY <1>1, <1>2, PTL DEF SettleSpec

(* The paid amount of every order is the sum of its completed payments, as    *)
(* long as a refund is not requested again for a refunded payment.            *)
THEOREM LedgerIsBalanced == ASSUME ~RepeatRefunds PROVE SettleSpec => []LedgerBalanced
<1>1. IInv => LedgerBalanced
  BY DEF IInv, Ledger, LedgerBalanced
<1> QED BY <1>1, LedgerInvariant, PTL

(* No interleaving of payments, late completions of pending payments and      *)
(* partial cancellations leaves an order overpaid, if no discount comes late. *)
THEOREM NoOverpayment ==
  ASSUME ~RepeatRefunds, ~LaterDiscounts
  PROVE  SettleSpec => []NeverOverpaid
<1>1. IInv => NeverOverpaid
  BY DEF IInv, NoneOverpaid
<1> QED BY <1>1, LedgerInvariant, PTL

(* What an order still owes is its total less what was paid, unless a         *)
(* cancellation wrote it off or a late discount left the order overpaid.      *)
THEOREM DueAddsUp == ASSUME ~RepeatRefunds PROVE SettleSpec => []DueIsRemainder
<1>1. IInv => DueIsRemainder
  BY DEF IInv
<1> QED BY <1>1, LedgerInvariant, PTL

-----------------------------------------------------------------------------
(* Types alone need no assumption on refunds.                                 *)
TotalsBounded == \A o \in Orders : order[o].grand \in Money

MoneyTypes == SettleTypeOK /\ PaymentsNamed /\ TotalsBounded

LEMMA InitMoneyTypes == SettleInit => MoneyTypes
<1> SUFFICES ASSUME SettleInit PROVE MoneyTypes
  OBVIOUS
<1>1. SettleTypeOK
  BY DEF SettleInit, SettleTypeOK, OrderDoc, PaymentDoc, PayStatus
<1>2. PaymentsNamed /\ TotalsBounded
  BY MaxTotalIsNatural DEF SettleInit, PaymentsNamed, TotalsBounded, Money
<1> QED BY <1>1, <1>2 DEF MoneyTypes

(* One order gets a new document, of which the payments take notice or not.   *)
LEMMA DocWrite ==
  ASSUME MoneyTypes, NEW o \in Orders, NEW doc \in OrderDoc,
         doc.status # "none", doc.grand \in Money,
         order' = [order EXCEPT ![o] = doc],
         payment' \in [Payments -> PaymentDoc],
         \A p \in Payments : payment'[p].status # "none" =>
            \/ payment'[p].order = o
            \/ payment[p].status # "none" /\ payment'[p].order = payment[p].order,
         payKey' \in [PayKeys -> Payments \union {NoPayKey}], writtenOff' \subseteq Orders
  PROVE  MoneyTypes' /\ \A q \in Orders : Placed(q) => Placed(q)'
<1>1. order \in [Orders -> OrderDoc]
  BY DEF MoneyTypes, SettleTypeOK
<1>2. order'[o] = doc /\ \A q \in Orders \ {o} : order'[q] = order[q]
  BY <1>1
<1>3. order' \in [Orders -> OrderDoc]
  BY <1>1
<1>4. \A q \in Orders : Placed(q) => Placed(q)'
  BY <1>2 DEF Placed
<1>5. SettleTypeOK'
  BY <1>3 DEF SettleTypeOK
<1>6. PaymentsNamed'
  BY <1>2, <1>4 DEF PaymentsNamed, MoneyTypes, Placed
<1>7. TotalsBounded'
  BY <1>2 DEF TotalsBounded, MoneyTypes
<1> QED BY <1>2, <1>4, <1>5, <1>6, <1>7 DEF MoneyTypes

(* A payment transaction: the order gets its new amounts, the payment is new  *)
(* or marked.                                                                 *)
LEMMA SettledWrite ==
  ASSUME MoneyTypes, NEW o \in Orders, Placed(o), NEW paid \in Nat, SettledTo(o, paid),
         payment' \in [Payments -> PaymentDoc],
         \A p \in Payments : payment'[p].status # "none" =>
            \/ payment'[p].order = o
            \/ payment[p].status # "none" /\ payment'[p].order = payment[p].order,
         payKey' \in [PayKeys -> Payments \union {NoPayKey}], UNCHANGED writtenOff
  PROVE  MoneyTypes' /\ \A q \in Orders : Placed(q) => Placed(q)'
<1>1. order[o] \in OrderDoc /\ order[o].grand \in Money /\ writtenOff \subseteq Orders
  BY DEF MoneyTypes, SettleTypeOK, TotalsBounded
<1> DEFINE doc == Settled(order[o], paid)
<1>2. doc \in OrderDoc /\ doc.status # "none" /\ doc.grand \in Money
  BY <1>1, SettledDoc DEF Placed
<1>3. order' = [order EXCEPT ![o] = doc]
  BY DEF SettledTo
<1> HIDE DEF doc
<1> QED BY <1>1, <1>2, <1>3, DocWrite

LEMMA MarkedTypes ==
  ASSUME MoneyTypes, NEW p \in Payments, payment[p].status # "none",
         NEW st \in PaymentStatus, Marked(p, st), NEW left \in Int,
         SettledTo(payment[p].order, IF left < 0 THEN 0 ELSE left),
         UNCHANGED <<payKey, writtenOff>>
  PROVE  MoneyTypes' /\ \A q \in Orders : Placed(q) => Placed(q)'
<1>1. payment \in [Payments -> PaymentDoc] /\ payKey \in [PayKeys -> Payments \union {NoPayKey}]
  BY DEF MoneyTypes, SettleTypeOK
<1>2. payment[p].order \in Orders /\ Placed(payment[p].order)
  BY DEF MoneyTypes, PaymentsNamed
<1>3. [payment[p] EXCEPT !.status = st] \in PaymentDoc
  BY <1>1 DEF PaymentDoc
<1>4. payment' \in [Payments -> PaymentDoc]
  BY <1>1, <1>3 DEF Marked
<1>5. \A q \in Payments : /\ payment'[q].order = payment[q].order
                          /\ q # p => payment'[q].status = payment[q].status
  BY <1>1 DEF Marked, PaymentDoc
<1>6. (IF left < 0 THEN 0 ELSE left) \in Nat
  OBVIOUS
<1> QED BY <1>1, <1>2, <1>4, <1>5, <1>6, SettledWrite

LEMMA MoneyTypesStep ==
  ASSUME MoneyTypes, [SettleNext]_settleVars
  PROVE  MoneyTypes' /\ \A q \in Orders : Placed(q) => Placed(q)'
<1>1. /\ order \in [Orders -> OrderDoc] /\ payment \in [Payments -> PaymentDoc]
      /\ payKey \in [PayKeys -> Payments \union {NoPayKey}] /\ writtenOff \subseteq Orders
      /\ \A p \in Payments : payment[p].status # "none" =>
           payment[p].order \in Orders /\ Placed(payment[p].order)
      /\ \A o \in Orders : order[o].grand \in Money
      /\ Money \subseteq Nat
  BY MaxTotalIsNatural DEF MoneyTypes, SettleTypeOK, PaymentsNamed, TotalsBounded, Money
<1>2. ASSUME NEW o \in Orders, NEW doc \in OrderDoc, doc.status # "none", doc.grand \in Money,
             order' = [order EXCEPT ![o] = doc], UNCHANGED <<payment, payKey>>,
             writtenOff' \subseteq Orders
      PROVE  MoneyTypes' /\ \A q \in Orders : Placed(q) => Placed(q)'
  BY <1>1, <1>2, DocWrite
<1>3. ASSUME NEW o \in Orders, NEW g \in Money, NEW st \in OrderStatus, PlaceOrder(o, g, st)
      PROVE  MoneyTypes' /\ \A q \in Orders : Placed(q) => Placed(q)'
  <2> DEFINE doc == [status |-> st, grand |-> g, paid |-> 0, due |-> g,
                     payStatus |-> PayStatusOf(g, 0)]
  <2>1. doc \in OrderDoc /\ doc.status # "none" /\ doc.grand \in Money
    BY <1>1 DEF OrderDoc, OrderStatus, PayStatusOf, PayStatus
  <2>2. order' = [order EXCEPT ![o] = doc] /\ UNCHANGED <<payment, payKey, writtenOff>>
    BY <1>3 DEF PlaceOrder
  <2> HIDE DEF doc
  <2> QED BY <1>1, <1>2, <2>1, <2>2
<1>4. ASSUME NEW o \in Orders, NEW g \in Money, ExtendOrder(o, g)
      PROVE  MoneyTypes' /\ \A q \in Orders : Placed(q) => Placed(q)'
  <2> DEFINE old == [order[o] EXCEPT !.grand = g]
             doc == Settled(old, order[o].paid)
  <2>1. old \in OrderDoc /\ old.status # "none" /\ old.grand = g /\ order[o].paid \in Nat
    BY <1>1, <1>4 DEF ExtendOrder, Placed, OrderDoc
  <2>2. order' = [order EXCEPT ![o] = doc] /\ UNCHANGED <<payment, payKey, writtenOff>>
    BY <1>4 DEF ExtendOrder, Extended
  <2> HIDE DEF old
  <2>3. doc \in OrderDoc /\ doc.status # "none" /\ doc.grand \in Money
    BY <2>1, SettledDoc
  <2> HIDE DEF doc
  <2> QED BY <1>1, <1>2, <2>2, <2>3
<1>5. ASSUME NEW o \in Orders, NEW g \in Money, NEW st \in OrderStatus, RepriceOrder(o, g, st)
      PROVE  MoneyTypes' /\ \A q \in Orders : Placed(q) => Placed(q)'
  <2> DEFINE doc == Repriced(order[o], g, st)
  <2>1. order[o].paid \in Nat /\ g \in Nat
    BY <1>1 DEF OrderDoc
  <2>2. Due(g, order[o].paid) \in Nat
    BY <2>1 DEF Due
  <2>3. doc \in OrderDoc /\ doc.status # "none" /\ doc.grand \in Money
    BY <1>1, <2>2 DEF Repriced, OrderDoc, OrderStatus
  <2>4. order' = [order EXCEPT ![o] = doc] /\ UNCHANGED <<payment, payKey, writtenOff>>
    BY <1>5 DEF RepriceOrder
  <2> HIDE DEF doc
  <2> QED BY <1>1, <1>2, <2>3, <2>4
<1>6. ASSUME NEW o \in Orders, CancelOrderWrite(o) \/ CompleteOrderWrite(o)
      PROVE  MoneyTypes' /\ \A q \in Orders : Placed(q) => Placed(q)'
  <2>1. CASE CancelOrderWrite(o)
    <3> DEFINE doc == Cancelled(order[o])
    <3>1. doc \in OrderDoc /\ doc.status # "none" /\ doc.grand \in Money
      BY <1>1 DEF Cancelled, OrderDoc, OrderStatus, PayStatus
    <3>2. /\ order' = [order EXCEPT ![o] = doc] /\ UNCHANGED <<payment, payKey>>
          /\ writtenOff' \subseteq Orders
      BY <1>1, <2>1 DEF CancelOrderWrite
    <3> HIDE DEF doc
    <3> QED BY <1>2, <3>1, <3>2
  <2>2. CASE CompleteOrderWrite(o)
    <3> DEFINE doc == Completed(order[o])
    <3>1. doc \in OrderDoc /\ doc.status # "none" /\ doc.grand \in Money
      BY <1>1 DEF Completed, OrderDoc, OrderStatus, PayStatus
    <3>2. /\ order' = [order EXCEPT ![o] = doc] /\ UNCHANGED <<payment, payKey>>
          /\ writtenOff' \subseteq Orders
      BY <1>1, <2>2 DEF CompleteOrderWrite
    <3> HIDE DEF doc
    <3> QED BY <1>2, <3>1, <3>2
  <2> QED BY <1>6, <2>1, <2>2
<1>7. ASSUME NEW o \in Orders, NEW st \in OrderStatus, StatusWrite(o, st)
      PROVE  MoneyTypes' /\ \A q \in Orders : Placed(q) => Placed(q)'
  <2> DEFINE doc == [order[o] EXCEPT !.status = st]
  <2>1. doc \in OrderDoc /\ doc.status # "none" /\ doc.grand \in Money
    BY <1>1 DEF OrderDoc, OrderStatus
  <2>2. order' = [order EXCEPT ![o] = doc] /\ UNCHANGED <<payment, payKey, writtenOff>>
    BY <1>7 DEF StatusWrite
  <2> HIDE DEF doc
  <2> QED BY <1>1, <1>2, <2>1, <2>2
<1>8. ASSUME NEW o \in Orders, NEW a \in Money \ {0}, NEW st \in PaymentStatus \ {"refunded"},
             NEW k \in PayKeys \union {NoPayKey}, NEW p \in Payments,
             RecordPayment(o, a, st, k, p)
      PROVE  MoneyTypes' /\ \A q \in Orders : Placed(q) => Placed(q)'
  <2> DEFINE new == [status |-> st, order |-> o, amount |-> a, key |-> k]
             paid == order[o].paid + (IF st = "completed" THEN a ELSE 0)
  <2>1. /\ Placed(o) /\ SettledTo(o, paid) /\ payment' = [payment EXCEPT ![p] = new]
        /\ payKey' = IF k = NoPayKey THEN payKey ELSE [payKey EXCEPT ![k] = p]
        /\ UNCHANGED writtenOff
    BY <1>8 DEF RecordPayment, SettledTo
  <2>2. paid \in Nat /\ new \in PaymentDoc
    BY <1>1, <1>8 DEF OrderDoc, PaymentDoc
  <2>3. payKey' \in [PayKeys -> Payments \union {NoPayKey}]
    BY <1>1, <2>1
  <2>4. new.order = o
    OBVIOUS
  <2> HIDE DEF new, paid
  <2>5. /\ payment' \in [Payments -> PaymentDoc]
        /\ payment'[p] = new /\ \A q \in Payments \ {p} : payment'[q] = payment[q]
    BY <1>1, <2>1, <2>2
  <2> QED BY <2>1, <2>2, <2>3, <2>4, <2>5, SettledWrite
<1>9. ASSUME NEW p \in Payments, NEW st \in PaymentStatus, UpdatePaymentStatus(p, st)
      PROVE  MoneyTypes' /\ \A q \in Orders : Placed(q) => Placed(q)'
  <2> DEFINE o == payment[p].order
             left == order[o].paid + Delta(p, st)
  <2>1. /\ payment[p].status # "none" /\ Marked(p, st)
        /\ SettledTo(o, IF left < 0 THEN 0 ELSE left) /\ UNCHANGED <<payKey, writtenOff>>
    BY <1>9 DEF UpdatePaymentStatus, Delta, Marked, SettledTo
  <2>2. left \in Int
    BY <1>1, <2>1 DEF Delta, OrderDoc, PaymentDoc
  <2> HIDE DEF left
  <2> QED BY <2>1, <2>2, MarkedTypes
<1>10. ASSUME NEW p \in Payments, RefundPayment(p)
       PROVE  MoneyTypes' /\ \A q \in Orders : Placed(q) => Placed(q)'
  <2> DEFINE o == payment[p].order
             left == order[o].paid - payment[p].amount
  <2>1. /\ payment[p].status # "none" /\ Marked(p, "refunded") /\ "refunded" \in PaymentStatus
        /\ SettledTo(o, IF left < 0 THEN 0 ELSE left) /\ UNCHANGED <<payKey, writtenOff>>
    BY <1>10 DEF RefundPayment, Marked, SettledTo, PaymentStatus
  <2>2. left \in Int
    BY <1>1, <2>1 DEF OrderDoc, PaymentDoc
  <2> HIDE DEF left
  <2> QED BY <2>1, <2>2, MarkedTypes
<1>11. CASE UNCHANGED settleVars
  BY <1>11 DEF settleVars, MoneyTypes, SettleTypeOK, PaymentsNamed, TotalsBounded, Placed
<1> QED BY <1>3, <1>4, <1>5, <1>6, <1>7, <1>8, <1>9, <1>10, <1>11 DEF SettleNext

(* The documents keep their shape, refunds repeated or not.                   *)
THEOREM SettleTypes == SettleSpec => []SettleTypeOK
<1>1. SettleInit => MoneyTypes
  BY InitMoneyTypes
<1>2. MoneyTypes /\ [SettleNext]_settleVars => MoneyTypes'
  BY MoneyTypesStep
<1>3. MoneyTypes => SettleTypeOK
  BY DEF MoneyTypes
<1> QED BY <1>1, <1>2, <1>3, PTL DEF SettleSpec

-----------------------------------------------------------------------------
(* Keys and records, whether or not refunds are repeated.                     *)
LEMMA InitKeys == SettleInit => KeysRecorded
  BY NoPayKeyIsFresh DEF SettleInit, KeysRecorded, KeyPaysOnce, PaymentDoc

(* Giving an existing payment another status keeps every key.                 *)
LEMMA MarkedKeys ==
  ASSUME KeysRecorded, NEW p \in Payments, payment[p].status # "none",
         NEW st \in PaymentStatus, Marked(p, st), UNCHANGED payKey
  PROVE  KeysRecorded'
<1>1. payment \in [Payments -> PaymentDoc]
  BY DEF KeysRecorded
<1>2. [payment[p] EXCEPT !.status = st] \in PaymentDoc
  BY <1>1 DEF PaymentDoc
<1>3. payment' \in [Payments -> PaymentDoc]
  BY <1>1, <1>2 DEF Marked
<1>4. \A q \in Payments : /\ payment'[q].key = payment[q].key
                          /\ payment'[q].status = "none" => payment[q].status = "none"
  BY <1>1 DEF Marked, PaymentDoc, PaymentStatus
<1> QED BY <1>3, <1>4 DEF KeysRecorded, KeyPaysOnce

LEMMA KeysStep == ASSUME KeysRecorded, [SettleNext]_settleVars PROVE KeysRecorded'
<1>1. ASSUME NEW o \in Orders, NEW a \in Money \ {0},
             NEW st \in PaymentStatus \ {"refunded"}, NEW k \in PayKeys \union {NoPayKey},
             NEW p \in Payments, RecordPayment(o, a, st, k, p)
      PROVE  KeysRecorded'
  <2> DEFINE new == [status |-> st, order |-> o, amount |-> a, key |-> k]
  <2>1. /\ k # NoPayKey => payKey[k] = NoPayKey
        /\ payment[p].status = "none"
        /\ payment' = [payment EXCEPT ![p] = new]
        /\ payKey' = IF k = NoPayKey THEN payKey ELSE [payKey EXCEPT ![k] = p]
    BY <1>1 DEF RecordPayment, PayKeyIsNew, IsNewPayment
  <2>2. /\ payment \in [Payments -> PaymentDoc]
        /\ payKey \in [PayKeys -> Payments \union {NoPayKey}]
    BY DEF KeysRecorded
  <2>3. new \in PaymentDoc
    BY <1>1, MaxTotalIsNatural DEF PaymentDoc, Money
  <2>4. payment' \in [Payments -> PaymentDoc]
    BY <2>1, <2>2, <2>3
  <2>5. payKey' \in [PayKeys -> Payments \union {NoPayKey}]
    BY <2>1, <2>2
  <2>6. payment'[p] = new /\ \A q \in Payments \ {p} : payment'[q] = payment[q]
    BY <2>1, <2>2
  <2>7. new.status # "none" /\ new.key = k
    BY DEF PaymentStatus
  <2> HIDE DEF new
  <2> QED
    <3>1. \A q \in Payments : payment'[q].status = "none" => payment'[q].key = NoPayKey
      BY <2>6, <2>7 DEF KeysRecorded
    <3>2. \A q \in Payments : payment[q].key \in PayKeys => payment[q].key # k
      BY <2>1, NoPayKeyIsFresh DEF KeysRecorded
    <3>3. \A j \in PayKeys : payKey[j] # NoPayKey => payKey'[j] = payKey[j]
      BY <2>1, <2>2
    <3>4. \A q \in Payments : payment'[q].key \in PayKeys => payKey'[payment'[q].key] # NoPayKey
      <4> SUFFICES ASSUME NEW q \in Payments, payment'[q].key \in PayKeys
                   PROVE  payKey'[payment'[q].key] # NoPayKey
        OBVIOUS
      <4>1. CASE q # p
        BY <2>6, <3>3, <4>1 DEF KeysRecorded
      <4>2. CASE q = p
        <5>1. k \in PayKeys /\ payKey'[k] = p
          BY <2>1, <2>2, <2>6, <2>7, <4>2, NoPayKeyIsFresh
        <5>2. p # NoPayKey
          BY NoPayKeyIsFresh
        <5> QED BY <2>6, <2>7, <4>2, <5>1, <5>2
      <4> QED BY <4>1, <4>2
    <3>5. KeyPaysOnce'
      BY <2>6, <2>7, <3>2 DEF KeysRecorded, KeyPaysOnce
    <3> QED BY <2>4, <2>5, <3>1, <3>4, <3>5 DEF KeysRecorded
<1>2. ASSUME NEW p \in Payments, NEW st \in PaymentStatus, UpdatePaymentStatus(p, st)
      PROVE  KeysRecorded'
  BY <1>2, MarkedKeys DEF UpdatePaymentStatus, Marked
<1>3. ASSUME NEW p \in Payments, RefundPayment(p)
      PROVE  KeysRecorded'
  <2>1. "refunded" \in PaymentStatus
    BY DEF PaymentStatus
  <2> QED BY <1>3, <2>1, MarkedKeys DEF RefundPayment, Marked
<1>4. CASE UNCHANGED <<payment, payKey>>
  BY <1>4 DEF KeysRecorded, KeyPaysOnce
<1> QED BY <1>1, <1>2, <1>3, <1>4
        DEF SettleNext, settleVars, PlaceOrder, ExtendOrder, RepriceOrder,
            CancelOrderWrite, CompleteOrderWrite, StatusWrite

(* However often a keyed payment request is repeated, also around refunds and *)
(* failed payments, its key pays once.                                        *)
THEOREM KeyPaysOnlyOnce == SettleSpec => []KeyPaysOnce
<1>1. SettleInit => KeysRecorded
  BY InitKeys
<1>2. KeysRecorded /\ [SettleNext]_settleVars => KeysRecorded'
  BY KeysStep
<1>3. KeysRecorded => KeyPaysOnce
  BY DEF KeysRecorded
<1> QED BY <1>1, <1>2, <1>3, PTL DEF SettleSpec

(* A payment document never changes its amount or its order, and one that     *)
(* failed or was refunded never counts again.                                 *)
THEOREM PaymentsStayRecords == SettleSpec => PaymentsAreRecords
<1>1. ASSUME KeysRecorded, [SettleNext]_settleVars, NEW p \in Payments,
             payment[p].status # "none"
      PROVE  /\ payment'[p].order = payment[p].order
             /\ payment'[p].amount = payment[p].amount
             /\ payment[p].status \in {"failed", "refunded"} =>
                  payment'[p].status = payment[p].status
  <2>1. payment \in [Payments -> PaymentDoc]
    BY <1>1 DEF KeysRecorded
  <2>2. ASSUME NEW o \in Orders, NEW a \in Money \ {0},
               NEW st \in PaymentStatus \ {"refunded"}, NEW k \in PayKeys \union {NoPayKey},
               NEW q \in Payments, RecordPayment(o, a, st, k, q)
        PROVE  payment'[p] = payment[p]
    BY <1>1, <2>1, <2>2 DEF RecordPayment, IsNewPayment
  <2>3. ASSUME NEW q \in Payments, NEW st \in PaymentStatus, Marked(q, st),
               PaymentMove(payment[q].status, st)
        PROVE  /\ payment'[p].order = payment[p].order
               /\ payment'[p].amount = payment[p].amount
               /\ payment[p].status \in {"failed", "refunded"} =>
                    payment'[p].status = payment[p].status
    BY <2>1, <2>3 DEF Marked, PaymentDoc, PaymentMove, NextPaymentStatus, PaymentStatus
  <2>4. ASSUME NEW q \in Payments, NEW st \in PaymentStatus, UpdatePaymentStatus(q, st)
        PROVE  Marked(q, st) /\ PaymentMove(payment[q].status, st)
    BY <2>4 DEF UpdatePaymentStatus, Marked
  <2>5. ASSUME NEW q \in Payments, RefundPayment(q)
        PROVE  /\ Marked(q, "refunded") /\ PaymentMove(payment[q].status, "refunded")
               /\ "refunded" \in PaymentStatus
    BY <2>5 DEF RefundPayment, Marked, PaymentStatus
  <2>6. CASE UNCHANGED payment
    BY <2>6
  <2> QED BY <1>1, <2>2, <2>3, <2>4, <2>5, <2>6
          DEF SettleNext, settleVars, PlaceOrder, ExtendOrder, RepriceOrder,
              CancelOrderWrite, CompleteOrderWrite, StatusWrite
<1>2. KeysRecorded /\ [SettleNext]_settleVars =>
        [\A p \in Payments : payment[p].status # "none" =>
           /\ payment'[p].order = payment[p].order /\ payment'[p].amount = payment[p].amount
           /\ payment[p].status \in {"failed", "refunded"} =>
                payment'[p].status = payment[p].status]_settleVars
  BY <1>1
<1>3. SettleInit => KeysRecorded
  BY InitKeys
<1>4. KeysRecorded /\ [SettleNext]_settleVars => KeysRecorded'
  BY KeysStep
<1> QED BY <1>2, <1>3, <1>4, PTL DEF SettleSpec, PaymentsAreRecords
=============================================================================
