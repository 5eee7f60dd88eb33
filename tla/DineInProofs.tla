---------------------------- MODULE DineInProofs ----------------------------
(* The handlers of a dine-in bill, for any number of orders, tickets, tables, *)
(* payments and handlers in flight.  What a handler has read is data of the   *)
(* invariant: it is typed by the await the handler stands at, and the orders  *)
(* it names were placed and stay so.                                          *)
EXTENDS DineIn, SettlementProofs, TableSessionsProofs

PlacedOrders == {o \in Orders : Placed(o)}

By == Staff \union {"server"}

PosKeyOrNone == PosKeys \union {NoPosKey}

(* What a closing has read of an order, and a ticket with at least n items.   *)
SeenOrder(P) == [o : P, status : OrderStatus, due : Nat]

TicketWith(n, P) ==
  {d \in KotDoc : d.status \in KotStatus \ TerminalKot /\ d.order \in P /\ n <= d.qty}

(* A bill about to be written, and one that n items may be taken off.         *)
NewBill == {d \in OrderDoc : d.status \in OrderStatus /\ d.grand \in Money}

BillWith(n) == {d \in OrderDoc : /\ d.status \in OrderStatus \ TerminalOrder
                                 /\ n <= d.grand /\ d.paid <= d.grand - n}

(* A call that goes on with the finalization or ends.                         *)
FinCall(P) == {Idle} \union [at : {"fin"}, o : P]

OnOrderCall(at, P) ==
  [at : at, s : Sessions, by : By, auto : BOOLEAN, todo : SUBSET SeenOrder(P), x : SeenOrder(P)]

(* The calls by the await they stand at; P are the orders placed so far.      *)
SubmitOK(b, P) ==
  /\ b.at = "lookup" => b \in [at : {"lookup"}, s : Sessions, q : 1..MaxQty, k : PosKeyOrNone,
                               cook : BOOLEAN, active : P \union {NoOrder}]
  /\ b.at = "commit" => b \in [at : {"commit"}, s : Sessions, q : 1..MaxQty, k : PosKeyOrNone,
                               o : Orders, t : Kots \union {NoKot}, bill : NewBill]
  /\ b.at = "reply" => b \in [at : {"reply"}, k : PosKeys]

SyncOK(b, P) ==
  /\ b.at = "sync" => b \in [at : {"sync"}, o : P, by : By, next : FinCall(P)]
  /\ b.at = "syncKots" => b \in [at : {"syncKots"}, o : P, by : By, next : FinCall(P),
                                 seen : OrderStatus]
  /\ b.at = "syncWrite" => b \in [at : {"syncWrite"}, o : P, by : By, next : FinCall(P),
                                  new : OrderStatus]
  /\ b.at = "dropKot" => b \in [at : {"dropKot"}, k : Kots, by : By]

OrderLabels == {"fin", "finKots", "finWrite", "compKots", "compPay", "compWrite", "sendStatus",
                "reopen"}

FinOK(b, P) ==
  /\ b.at \in OrderLabels => b \in [at : OrderLabels, o : P]
  /\ b.at = "finPay" => b \in [at : {"finPay"}, o : P, grand : Nat]
  /\ b.at \in {"finSession", "finOrders"} =>
       b \in [at : {"finSession", "finOrders"}, o : P, done : BOOLEAN]
  /\ b.at = "finTickets" => b \in [at : {"finTickets"}, s : Sessions, todo : SUBSET P]

CloseOK(b, P) ==
  /\ b.at \in {"close", "closeOrders"} =>
       b \in [at : {"close", "closeOrders"}, s : Sessions, by : By, auto : BOOLEAN]
  /\ b.at = "closeNext" => b \in [at : {"closeNext"}, s : Sessions, by : By, auto : BOOLEAN,
                                  todo : SUBSET SeenOrder(P)]
  /\ b.at \in {"closeComplete", "closeTickets", "closePay"} =>
       b \in OnOrderCall({"closeComplete", "closeTickets", "closePay"}, P)
  /\ b.at = "closeServe" => b \in [at : {"closeServe"}, then : OnOrderCall({"closePay"}, P),
                                   ks : SUBSET Kots]
  /\ b.at = "closeTx" => b \in [at : {"closeTx"}, s : Sessions]

PartOK(b, P) ==
  /\ b.at \in {"partOrder", "partTx"} => b.n \in 1..MaxQty
  /\ b.at = "partOrder" => b \in [at : {"partOrder"}, k : Kots, n : Nat,
                                  ticket : TicketWith(b.n, P)]
  /\ b.at = "partTx" => b \in [at : {"partTx"}, k : Kots, n : Nat, ticket : TicketWith(b.n, P),
                               bill : BillWith(b.n), cut : Nat]

CancelOK(b, P) ==
  /\ b.at \in {"cancelKots", "cancelWrite"} =>
       b \in [at : {"cancelKots", "cancelWrite"}, o : P, by : By]
  /\ b.at = "cancelNext" => b \in [at : {"cancelNext"}, o : P, by : By, ks : SUBSET Kots]
  /\ b.at = "sendKots" => b \in [at : {"sendKots"}, o : P, seen : OrderStatus, q : Nat,
                                 whole : BOOLEAN]
  /\ b.at = "sendWrite" => b \in [at : {"sendWrite"}, o : P, seen : OrderStatus, q : Nat]

CallOK(b, P) ==
  /\ SubmitOK(b, P) /\ SyncOK(b, P) /\ FinOK(b, P) /\ CloseOK(b, P)
  /\ PartOK(b, P) /\ CancelOK(b, P)

CallsTyped == DOMAIN call = Calls /\ \A c \in Calls : CallOK(call[c], PlacedOrders)

(* Orders have a session as soon as they are placed, and what names an order  *)
(* names a placed one.                                                        *)
BillsNamed ==
  /\ \A o \in Orders : Placed(o) <=> sessOf[o] \in Sessions
  /\ \A s \in Sessions : activeOrder[s] # NoOrder => activeOrder[s] \in PlacedOrders
  /\ \A k \in Kots : kot[k].status # "none" => kot[k].order \in PlacedOrders

(* The ticket of a partial cancellation exists; the one a submission has drawn *)
(* does not yet, and belongs to no other submission.                          *)
TicketsHeld ==
  \A c \in Calls :
     /\ call[c].at \in {"partOrder", "partTx"} =>
          kot[call[c].k].status # "none" /\ kot[call[c].k].order = call[c].ticket.order
     /\ In(c, "commit") /\ call[c].t # NoKot =>
          /\ kot[call[c].t].status = "none"
          /\ \A d \in Calls : In(d, "commit") /\ d # c => call[d].t # call[c].t

DineBase ==
  DineTypeOK /\ MoneyTypes /\ SessionsInv /\ BillsNamed /\ CallsTyped /\ TicketsHeld

-----------------------------------------------------------------------------
(* The steps by what they write.                                              *)
Asks(c) ==
  \/ \E s \in Sessions, q \in 1..MaxQty, k \in PosKeyOrNone, cook \in Kitchens :
        StartSubmit(c, s, q, k, cook)
  \/ \E s \in Sessions, by \in Staff, auto \in BOOLEAN : StartClose(c, s, by, auto)
  \/ \E k \in Kots, by \in Staff : StartDropKot(c, k, by)
  \/ \E k \in Kots, n \in 1..MaxQty : StartPartial(c, k, n)
  \/ \E o \in Orders : StartComplete(c, o) \/ StartSend(c, o)
  \/ \E o \in Orders, by \in Staff : StartCancel(c, o, by) \/ StartReopen(c, o, by)

Reads(c) ==
  \/ \E o \in Orders, t \in Kots \union {NoKot} : ReadBill(c, o, t)
  \/ SyncRead(c) \/ SyncKots(c)
  \/ FinRead(c) \/ FinPay(c) \/ FinKots(c) \/ FinSession(c) \/ FinOrders(c) \/ FinTickets(c)
  \/ CloseRead(c) \/ CloseOrders(c) \/ CloseNext(c) \/ CloseTickets(c) \/ ClosePay(c)
  \/ PartOrder(c) \/ CompKots(c) \/ CompPay(c) \/ CancelKots(c) \/ SendKots(c)
  \/ Crash(c)

KotWrites(c) ==
  \/ \E d \in Calls, k \in Kots, st \in KotStatus, by \in Staff : TapKot(c, d, k, st, by)
  \/ CloseServe(c) \/ DropKot(c) \/ CancelNext(c)
  \/ \E t \in Kots : SendWrite(c, t)

Pays(c) ==
  \E o \in Orders, a \in 1..MaxTotal, st \in {"completed", "pending"},
     k \in PayKeys \union {NoPayKey}, p \in Payments : Pay(c, o, a, st, k, p)

OrderWrites(c) ==
  \/ SyncWrite(c) \/ FinWrite(c) \/ CloseComplete(c) \/ CompWrite(c) \/ CancelWrite(c)
  \/ SendStatus(c) \/ ReopenWrite(c)

Corrects == \E p \in Payments : Refund(p) \/ \E st \in {"completed", "failed"} : Resolve(p, st)

LEMMA StepKinds ==
  ASSUME DineNext
  PROVE  \/ Seat \/ Corrects
         \/ \E c \in Calls : \/ Asks(c) \/ Reads(c) \/ KotWrites(c) \/ OrderWrites(c) \/ Pays(c)
                             \/ CommitBill(c) \/ ReplyBill(c) \/ PartTx(c) \/ CloseTx(c)
BY DEF DineNext, Request, Work, Asks, Reads, KotWrites, OrderWrites, Pays, Corrects, PosKeyOrNone

LEMMA ReadsOnly ==
  ASSUME NEW c \in Calls, Asks(c) \/ Reads(c)
  PROVE  UNCHANGED <<settleVars, tsVars, billVars>>
<1>1. CASE Asks(c)
  BY <1>1 DEF Asks, StartSubmit, StartClose, StartDropKot, StartPartial, StartComplete,
              StartSend, StartCancel, StartReopen
<1>2. CASE Reads(c)
  BY <1>2 DEF Reads, ReadBill, SyncRead, SyncKots, FinRead, FinPay, FinKots, FinSession,
              FinOrders, FinTickets, CloseRead, CloseOrders, CloseNext, CloseTickets, ClosePay,
              PartOrder, CompKots, CompPay, CancelKots, SendKots, Crash
<1> QED BY <1>1, <1>2

LEMMA KotsOnly ==
  ASSUME NEW c \in Calls, KotWrites(c)
  PROVE  UNCHANGED <<settleVars, tsVars, sessOf, activeOrder, cut, posKey>>
BY DEF KotWrites, TapKot, CloseServe, DropKot, CancelNext, SendWrite

LEMMA OrdersOnly ==
  ASSUME (\E c \in Calls : OrderWrites(c) \/ Pays(c)) \/ Corrects
  PROVE  UNCHANGED <<tsVars, billVars>>
BY DEF OrderWrites, Pays, Corrects, SyncWrite, FinWrite, CloseComplete, CompWrite, CancelWrite,
       SendStatus, ReopenWrite, Pay, Refund, Resolve

LEMMA TablesOnly ==
  ASSUME Seat \/ \E c \in Calls : CloseTx(c)
  PROVE  UNCHANGED <<settleVars, billVars>>
BY DEF Seat, CloseTx

-----------------------------------------------------------------------------
(* The documents of tables and sessions change by their own operations only.  *)
LEMMA TablesStep ==
  ASSUME DineBase, DineNext
  PROVE  [TSNext]_tsVars
<1>1. CASE Seat
  <2>1. MaxGuests \in Guests /\ 1 \in Guests /\ TRUE \in BOOLEAN /\ NoKey \in Keys \union {NoKey}
    BY MaxGuestsIsPositive DEF Guests
  <2> QED BY <1>1, <2>1 DEF Seat, TSNext
<1>2. ASSUME NEW c \in Calls, CloseTx(c)
      PROVE  [TSNext]_tsVars
  <2>1. call[c].s \in Sessions
    BY <1>2 DEF CloseTx, In, DineBase, CallsTyped, CallOK, CloseOK
  <2> QED BY <1>2, <2>1 DEF CloseTx, TSNext, tsVars
<1>3. ASSUME NEW c \in Calls, CommitBill(c) \/ ReplyBill(c) \/ PartTx(c)
      PROVE  UNCHANGED tsVars
  BY <1>3 DEF CommitBill, ReplyBill, PartTx
<1> QED BY <1>1, <1>2, <1>3, StepKinds, ReadsOnly, KotsOnly, OrdersOnly

(* What an order of the bill may be replaced by: the status of a placed order.*)
LEMMA PlacedStatus ==
  ASSUME MoneyTypes, NEW o \in PlacedOrders
  PROVE  order[o].status \in OrderStatus /\ order[o] \in OrderDoc /\ order[o].grand \in Money
BY DEF MoneyTypes, SettleTypeOK, TotalsBounded, PlacedOrders, Placed, OrderDoc

(* The steps of Settlement that place and extend no order.                    *)
Changes ==
  \/ \E o \in Orders, a \in Money \ {0}, st \in PaymentStatus \ {"refunded"},
        k \in PayKeys \union {NoPayKey}, p \in Payments : RecordPayment(o, a, st, k, p)
  \/ \E p \in Payments, st \in PaymentStatus : UpdatePaymentStatus(p, st)
  \/ \E p \in Payments : RefundPayment(p)
  \/ \E o \in Orders, g \in Money, st \in OrderStatus : RepriceOrder(o, g, st)
  \/ \E o \in Orders : CancelOrderWrite(o) \/ CompleteOrderWrite(o)
  \/ \E o \in Orders, st \in OrderStatus : StatusWrite(o, st)

LEMMA ChangesSettle == Changes => SettleNext
BY DEF Changes, SettleNext

LEMMA ChangesPlaceNothing ==
  ASSUME MoneyTypes, Changes
  PROVE  PlacedOrders' = PlacedOrders
<1>1. \A o \in Orders : Placed(o)' => Placed(o)
  <2>1. order \in [Orders -> OrderDoc]
    BY DEF MoneyTypes, SettleTypeOK
  <2>2. PICK o \in Orders : \E doc : Placed(o) /\ order' = [order EXCEPT ![o] = doc]
    <3>1. \A p \in Payments : payment[p].status # "none" =>
            payment[p].order \in Orders /\ Placed(payment[p].order)
      BY DEF MoneyTypes, PaymentsNamed
    <3> QED BY <3>1 DEF Changes, RecordPayment, UpdatePaymentStatus, RefundPayment, RepriceOrder,
                        CancelOrderWrite, CompleteOrderWrite, StatusWrite
  <2> QED BY <2>1, <2>2 DEF Placed
<1>2. \A q \in Orders : Placed(q) => Placed(q)'
  BY MoneyTypesStep, ChangesSettle
<1> QED BY <1>1, <1>2 DEF PlacedOrders

(* Apart from the writing of a submission, the money changes as Settlement    *)
(* says, whatever the handlers had read.                                      *)
LEMMA MoneyStep ==
  ASSUME DineBase, DineNext
  PROVE  [Changes]_settleVars \/ \E c \in Calls : CommitBill(c)
<1>1. \A c \in Calls : CallOK(call[c], PlacedOrders)
  BY DEF DineBase, CallsTyped
<1>2. ASSUME NEW c \in Calls, OrderWrites(c)
      PROVE  [Changes]_settleVars
  <2>1. CASE SyncWrite(c)
    <3>1. call[c].o \in Orders /\ call[c].new \in OrderStatus
      BY <1>1, <2>1 DEF SyncWrite, In, CallOK, SyncOK, PlacedOrders
    <3> QED BY <2>1, <3>1 DEF SyncWrite, Changes, settleVars
  <2>2. CASE FinWrite(c) \/ CompWrite(c)
    <3>1. call[c].o \in Orders
      BY <1>1, <2>2 DEF FinWrite, CompWrite, In, CallOK, FinOK, OrderLabels, PlacedOrders
    <3> QED BY <2>2, <3>1 DEF FinWrite, CompWrite, Changes
  <2>3. CASE CloseComplete(c)
    <3>1. call[c].x.o \in Orders
      BY <1>1, <2>3 DEF CloseComplete, In, CallOK, CloseOK, OnOrderCall, SeenOrder, PlacedOrders
    <3>2. "completed" \in OrderStatus
      BY DEF OrderStatus
    <3> QED BY <2>3, <3>1, <3>2 DEF CloseComplete, Changes, settleVars
  <2>4. CASE CancelWrite(c)
    <3>1. call[c].o \in Orders
      BY <1>1, <2>4 DEF CancelWrite, In, CallOK, CancelOK, PlacedOrders
    <3> QED BY <2>4, <3>1 DEF CancelWrite, Changes, settleVars
  <2>5. CASE SendStatus(c) \/ ReopenWrite(c)
    <3>1. call[c].o \in Orders /\ "sentToKitchen" \in OrderStatus /\ "served" \in OrderStatus
      BY <1>1, <2>5 DEF SendStatus, ReopenWrite, In, CallOK, FinOK, OrderLabels, PlacedOrders,
                        OrderStatus
    <3> QED BY <2>5, <3>1 DEF SendStatus, ReopenWrite, Changes
  <2> QED BY <1>2, <2>1, <2>2, <2>3, <2>4, <2>5 DEF OrderWrites
<1>3. ASSUME NEW c \in Calls, Pays(c)
      PROVE  Changes
  <2>1. /\ 1..MaxTotal \subseteq Money \ {0}
        /\ {"completed", "pending"} \subseteq PaymentStatus \ {"refunded"}
    BY MaxTotalIsNatural DEF Money, PaymentStatus
  <2>2. PICK o \in Orders, a \in 1..MaxTotal, st \in {"completed", "pending"},
             k \in PayKeys \union {NoPayKey}, p \in Payments : RecordPayment(o, a, st, k, p)
    BY <1>3 DEF Pays, Pay
  <2>3. a \in Money \ {0} /\ st \in PaymentStatus \ {"refunded"}
    BY <2>1
  <2> QED BY <2>2, <2>3 DEF Changes
<1>4. CASE Corrects
  <2>1. {"completed", "failed"} \subseteq PaymentStatus
    BY DEF PaymentStatus
  <2> QED BY <1>4, <2>1 DEF Corrects, Refund, Resolve, Changes
<1>5. ASSUME NEW c \in Calls, PartTx(c)
      PROVE  [Changes]_settleVars
  <2> DEFINE b == call[c]
             o == b.ticket.order
             g == b.bill.grand - b.n
             st == IF g = 0 THEN "cancelled" ELSE b.bill.status
  <2>1. /\ b.n \in 1..MaxQty /\ o \in PlacedOrders /\ b.bill \in OrderDoc
        /\ b.bill.status \in OrderStatus \ TerminalOrder
        /\ b.n <= b.bill.grand /\ b.bill.paid <= b.bill.grand - b.n
    BY <1>1, <1>5 DEF PartTx, In, CallOK, PartOK, TicketWith, BillWith
  <2>2. CASE StillOpen(b) /\ BillUnchanged(b)
    <3>1. /\ order[o].grand = b.bill.grand /\ order[o].paid = b.bill.paid
          /\ order[o].status \notin TerminalOrder
      BY <2>2 DEF BillUnchanged, StillOpen, OrderOpen
    <3>2. order[o].grand \in 0..MaxTotal /\ b.n \in Nat /\ o \in Orders /\ Placed(o)
      BY <2>1, PlacedStatus, MaxQtyIsNatural DEF DineBase, Money, PlacedOrders
    <3>3. g \in Money /\ g <= order[o].grand /\ CoversPaid(order[o], g)
      BY <2>1, <3>1, <3>2, MaxTotalIsNatural, MaxQtyIsNatural DEF Money, CoversPaid
    <3>4. /\ st \in OrderStatus
          /\ st \in TerminalOrder => st = "cancelled" /\ g = 0
      BY <2>1 DEF OrderStatus, TerminalOrder
    <3>5. /\ order' = [order EXCEPT ![o] = Repriced(order[o], g, st)]
          /\ UNCHANGED <<payment, payKey, writtenOff>>
      BY <1>5, <2>2 DEF PartTx
    <3>6. RepriceOrder(o, g, st)
      BY <3>1, <3>2, <3>3, <3>4, <3>5 DEF RepriceOrder
    <3> HIDE DEF g, st, o
    <3> QED BY <3>2, <3>3, <3>4, <3>6 DEF Changes
  <2>3. CASE ~(StillOpen(b) /\ BillUnchanged(b))
    BY <1>5, <2>3 DEF PartTx, settleVars
  <2> QED BY <2>2, <2>3
<1>6. ASSUME NEW c \in Calls, ReplyBill(c)
      PROVE  UNCHANGED settleVars
  BY <1>6 DEF ReplyBill
<1>7. CASE \E c \in Calls : Asks(c) \/ Reads(c) \/ KotWrites(c) \/ CloseTx(c)
  BY <1>7, ReadsOnly, KotsOnly, TablesOnly
<1>8. CASE Seat
  BY <1>8, TablesOnly
<1> QED BY <1>2, <1>3, <1>4, <1>5, <1>6, <1>7, <1>8, StepKinds

LEMMA CommitDoc ==
  ASSUME DineBase, NEW c \in Calls, CommitBill(c)
  PROVE  /\ call[c] \in [at : {"commit"}, s : Sessions, q : 1..MaxQty, k : PosKeyOrNone,
                         o : Orders, t : Kots \union {NoKot}, bill : NewBill]
         /\ call[c].o \in Orders /\ call[c].bill \in OrderDoc /\ call[c].bill.status # "none"
         /\ call[c].bill.grand \in Money
<1>1. call[c] \in [at : {"commit"}, s : Sessions, q : 1..MaxQty, k : PosKeyOrNone,
                   o : Orders, t : Kots \union {NoKot}, bill : NewBill]
  BY DEF CommitBill, In, DineBase, CallsTyped, CallOK, SubmitOK
<1> QED BY <1>1 DEF NewBill, OrderStatus

LEMMA MoneyTypesKept ==
  ASSUME DineBase, DineNext
  PROVE  MoneyTypes' /\ PlacedOrders \subseteq PlacedOrders'
<1>1. MoneyTypes' /\ \A q \in Orders : Placed(q) => Placed(q)'
  <2>1. CASE [Changes]_settleVars
    BY <2>1, MoneyTypesStep, ChangesSettle DEF DineBase
  <2>2. ASSUME NEW c \in Calls, CommitBill(c), ~[Changes]_settleVars
        PROVE  MoneyTypes' /\ \A q \in Orders : Placed(q) => Placed(q)'
    <3>1. /\ order' = [order EXCEPT ![call[c].o] = call[c].bill]
          /\ UNCHANGED <<payment, payKey, writtenOff>>
      BY <2>2 DEF CommitBill, settleVars
    <3>2. /\ payment \in [Payments -> PaymentDoc] /\ writtenOff \subseteq Orders
          /\ payKey \in [PayKeys -> Payments \union {NoPayKey}]
      BY DEF DineBase, MoneyTypes, SettleTypeOK
    <3>3. /\ call[c].o \in Orders /\ call[c].bill \in OrderDoc /\ call[c].bill.status # "none"
          /\ call[c].bill.grand \in Money
      BY <2>2, CommitDoc
    <3> QED BY <3>1, <3>2, <3>3, DocWrite DEF DineBase
  <2> QED BY <2>1, <2>2, MoneyStep
<1> QED BY <1>1 DEF PlacedOrders

(* Only a submission places an order.                                         *)
LEMMA PlacedByCommit ==
  ASSUME DineBase, DineNext, \A c \in Calls : ~CommitBill(c)
  PROVE  PlacedOrders' = PlacedOrders
<1>1. CASE Changes
  BY <1>1, ChangesPlaceNothing DEF DineBase
<1>2. CASE UNCHANGED settleVars
  BY <1>2 DEF settleVars, PlacedOrders, Placed
<1> QED BY <1>1, <1>2, MoneyStep

LEMMA CommitPlaces ==
  ASSUME DineBase, NEW c \in Calls, CommitBill(c)
  PROVE  IF KeyAllowsCommit(call[c].k)
         THEN PlacedOrders' = PlacedOrders \union {call[c].o}
         ELSE PlacedOrders' = PlacedOrders
<1>1. /\ order \in [Orders -> OrderDoc] /\ call[c].o \in Orders /\ call[c].bill.status # "none"
  BY CommitDoc DEF DineBase, MoneyTypes, SettleTypeOK
<1>2. CASE KeyAllowsCommit(call[c].k)
  <2>1. order' = [order EXCEPT ![call[c].o] = call[c].bill]
    BY <1>2 DEF CommitBill
  <2> QED BY <1>1, <1>2, <2>1 DEF PlacedOrders, Placed
<1>3. CASE ~KeyAllowsCommit(call[c].k)
  BY <1>3 DEF CommitBill, PlacedOrders, Placed
<1> QED BY <1>2, <1>3

-----------------------------------------------------------------------------
(* The records of bills and tickets: their types, and what they name.         *)
BillTypes ==
  /\ sessOf \in [Orders -> Sessions \union {NoSession}]
  /\ activeOrder \in [Sessions -> Orders \union {NoOrder}]
  /\ kot \in [Kots -> KotDoc]
  /\ cut \in [Orders -> Nat]
  /\ posKey \in [PosKeys -> {"none", "pending", "completed"}]

KotsNamed == \A k \in Kots : kot[k].status # "none" => kot[k].order \in PlacedOrders

(* A ticket that exists stays one of its order, and the ids drawn stay free.  *)
KotsKept ==
  \A k \in Kots :
     /\ kot[k].status # "none" =>
          /\ kot'[k].status # "none"
          /\ kot'[k].order = kot[k].order /\ kot'[k].key = kot[k].key
     /\ kot[k].status = "none" /\ k \in Drawn => kot'[k].status = "none"

LEMMA KotWrite ==
  ASSUME DineBase, NEW c \in Calls, KotWrites(c)
  PROVE  kot' \in [Kots -> KotDoc] /\ KotsNamed' /\ KotsKept
<1>1. /\ kot \in [Kots -> KotDoc] /\ CallOK(call[c], PlacedOrders)
      /\ \A k \in Kots : kot[k].status # "none" => kot[k].order \in PlacedOrders
      /\ PlacedOrders' = PlacedOrders
  BY KotsOnly DEF DineBase, DineTypeOK, CallsTyped, BillsNamed, settleVars, PlacedOrders, Placed
<1>2. ASSUME NEW k \in Kots, NEW st \in KotStatus, kot[k].status # "none",
             kot' = [kot EXCEPT ![k].status = st]
      PROVE  kot' \in [Kots -> KotDoc] /\ KotsNamed' /\ KotsKept
  <2>1. [kot[k] EXCEPT !.status = st] \in KotDoc
    BY <1>1 DEF KotDoc
  <2>2. kot' \in [Kots -> KotDoc]
    BY <1>1, <1>2, <2>1
  <2>3. \A j \in Kots : /\ kot'[j].order = kot[j].order /\ kot'[j].key = kot[j].key
                        /\ j # k => kot'[j].status = kot[j].status
    BY <1>1, <1>2 DEF KotDoc
  <2>4. kot'[k].status # "none"
    BY <1>1, <1>2 DEF KotDoc, KotStatus, OrderStatus
  <2> QED BY <1>1, <1>2, <2>2, <2>3, <2>4 DEF KotsNamed, KotsKept
<1>3. CASE UNCHANGED kot
  BY <1>1, <1>3 DEF KotsNamed, KotsKept
<1>4. ASSUME NEW d \in Calls, NEW k \in Kots, NEW st \in KotStatus, NEW by \in Staff,
             TapKot(c, d, k, st, by)
      PROVE  kot' \in [Kots -> KotDoc] /\ KotsNamed' /\ KotsKept
  BY <1>2, <1>4 DEF TapKot
<1>5. "served" \in KotStatus /\ "cancelled" \in KotStatus
  BY DEF KotStatus, OrderStatus
<1>6. \A by, k : /\ MayWriteKot(by, kot[k].status, "served") => kot[k].status # "none"
                 /\ MayCancelKot(by, kot[k].status) => kot[k].status # "none"
  BY DEF MayWriteKot, MayCancelKot, RulesMove
<1>7. CASE CloseServe(c)
  <2>1. call[c].ks \subseteq Kots
    BY <1>1, <1>7 DEF CloseServe, In, CallOK, CloseOK
  <2> QED BY <1>2, <1>3, <1>5, <1>6, <1>7, <2>1 DEF CloseServe
<1>8. CASE DropKot(c)
  <2>1. call[c].k \in Kots
    BY <1>1, <1>8 DEF DropKot, In, CallOK, SyncOK
  <2> QED BY <1>2, <1>3, <1>5, <1>6, <1>8, <2>1 DEF DropKot
<1>9. CASE CancelNext(c)
  <2>1. call[c].ks \subseteq Kots
    BY <1>1, <1>9 DEF CancelNext, In, CallOK, CancelOK
  <2> QED BY <1>2, <1>3, <1>5, <1>6, <1>9, <2>1 DEF CancelNext
<1>10. ASSUME NEW t \in Kots, SendWrite(c, t)
       PROVE  kot' \in [Kots -> KotDoc] /\ KotsNamed' /\ KotsKept
  <2> DEFINE new == [status |-> "sentToKitchen", order |-> call[c].o, qty |-> call[c].q,
                     key |-> NoPosKey]
  <2>1. call[c].o \in PlacedOrders /\ call[c].q \in Nat
    BY <1>1, <1>10 DEF SendWrite, In, CallOK, CancelOK
  <2>2. new \in KotDoc /\ new.order = call[c].o
    BY <2>1 DEF KotDoc, KotStatus, OrderStatus, PlacedOrders
  <2>3. kot' = [kot EXCEPT ![t] = new] /\ kot[t].status = "none" /\ t \notin Drawn
    BY <1>10 DEF SendWrite, FreeKot
  <2> HIDE DEF new
  <2>4. kot' \in [Kots -> KotDoc]
    BY <1>1, <2>2, <2>3
  <2> QED BY <1>1, <2>1, <2>2, <2>3, <2>4 DEF KotsNamed, KotsKept
<1> QED BY <1>4, <1>7, <1>8, <1>9, <1>10 DEF KotWrites

(* The same for all steps, but for the ticket a submission writes.            *)
KotsStay ==
  /\ \A k \in Kots : kot[k].status # "none" =>
       /\ kot'[k].status # "none"
       /\ kot'[k].order = kot[k].order /\ kot'[k].key = kot[k].key
  /\ \A d \in Calls : In(d, "commit") /\ ~CommitBill(d) /\ call[d].t # NoKot =>
       kot'[call[d].t].status = "none"

LEMMA DrawnFree ==
  ASSUME DineBase, NEW d \in Calls, In(d, "commit"), call[d].t # NoKot
  PROVE  call[d].t \in Kots /\ call[d].t \in Drawn /\ kot[call[d].t].status = "none"
<1>1. call[d].t \in Kots
  BY DEF In, DineBase, CallsTyped, CallOK, SubmitOK
<1> QED BY <1>1 DEF Drawn, DineBase, TicketsHeld

LEMMA BillsStep ==
  ASSUME DineBase, DineNext
  PROVE  BillTypes' /\ BillsNamed' /\ KotsStay
<1>1. /\ BillTypes /\ KotsNamed
      /\ \A o \in Orders : Placed(o) <=> sessOf[o] \in Sessions
      /\ \A s \in Sessions : activeOrder[s] # NoOrder => activeOrder[s] \in PlacedOrders
  BY DEF DineBase, DineTypeOK, BillTypes, BillsNamed, KotsNamed
<1>2. PlacedOrders \subseteq PlacedOrders'
  BY MoneyTypesKept
<1>3. ASSUME UNCHANGED billVars, PlacedOrders' = PlacedOrders
      PROVE  BillTypes' /\ BillsNamed' /\ KotsStay
  <2>1. \A o \in Orders : Placed(o)' <=> Placed(o)
    BY <1>3 DEF PlacedOrders
  <2> QED BY <1>1, <1>3, <2>1, DrawnFree DEF billVars, BillTypes, BillsNamed, KotsNamed, KotsStay
<1>4. ASSUME NEW c \in Calls, KotWrites(c)
      PROVE  BillTypes' /\ BillsNamed' /\ KotsStay
  <2>1. UNCHANGED <<order, sessOf, activeOrder, cut, posKey>>
    BY <1>4, KotsOnly DEF settleVars
  <2>2. kot' \in [Kots -> KotDoc] /\ KotsNamed' /\ KotsKept
    BY <1>4, KotWrite
  <2>3. KotsStay
    BY <2>2, DrawnFree DEF KotsStay, KotsKept
  <2> QED BY <1>1, <2>1, <2>2, <2>3 DEF BillTypes, BillsNamed, KotsNamed, Placed, PlacedOrders
<1>5. ASSUME NEW c \in Calls, CommitBill(c)
      PROVE  BillTypes' /\ BillsNamed' /\ KotsStay
  <2> DEFINE b == call[c]
  <2>1. /\ b.s \in Sessions /\ b.q \in Nat /\ b.k \in PosKeyOrNone
        /\ b.o \in Orders /\ b.t \in Kots \union {NoKot}
    BY <1>5, CommitDoc, MaxQtyIsNatural
  <2>2. CASE KeyAllowsCommit(b.k)
    <3>1. /\ cut' = [cut EXCEPT ![b.o] = 0]
          /\ sessOf' = [sessOf EXCEPT ![b.o] = b.s]
          /\ activeOrder' = [activeOrder EXCEPT ![b.s] = b.o]
          /\ kot' = IF b.t = NoKot THEN kot ELSE [kot EXCEPT ![b.t] = Ticket(b)]
          /\ posKey' = IF b.k = NoPosKey THEN posKey ELSE [posKey EXCEPT ![b.k] = "pending"]
      BY <1>5, <2>2 DEF CommitBill
    <3>2. PlacedOrders' = PlacedOrders \union {b.o}
      BY <1>5, <2>2, CommitPlaces
    <3>3. Ticket(b) \in KotDoc /\ Ticket(b).order = b.o
      BY <2>1 DEF Ticket, KotDoc, KotStatus, OrderStatus, PosKeyOrNone
    <3> HIDE DEF b
    <3>4. kot' \in [Kots -> KotDoc]
      BY <1>1, <2>1, <3>1, <3>3 DEF BillTypes
    <3>5. BillTypes'
      BY <1>1, <2>1, <3>1, <3>4 DEF BillTypes, PosKeyOrNone
    <3>6. \A k \in Kots : kot'[k].status # "none" => kot'[k].order \in PlacedOrders'
      BY <1>1, <2>1, <3>1, <3>2, <3>3 DEF KotsNamed, BillTypes
    <3>7. \A s \in Sessions : activeOrder'[s] # NoOrder => activeOrder'[s] \in PlacedOrders'
      BY <1>1, <2>1, <3>1, <3>2 DEF BillTypes
    <3>8. \A o \in Orders : Placed(o)' <=> sessOf'[o] \in Sessions
      <4>1. \A o \in Orders : Placed(o)' <=> (Placed(o) \/ o = b.o)
        BY <3>2 DEF PlacedOrders
      <4> QED BY <1>1, <2>1, <3>1, <4>1 DEF BillTypes
    <3>9. KotsStay
      <4>1. b.t # NoKot => kot[b.t].status = "none"
        BY <1>5, DrawnFree DEF CommitBill, b
      <4>2. ASSUME NEW d \in Calls, In(d, "commit"), ~CommitBill(d), call[d].t # NoKot
            PROVE  kot'[call[d].t].status = "none"
        <5>1. d # c /\ In(c, "commit")
          BY <1>5, <4>2 DEF CommitBill
        <5>2. call[d].t # b.t
          BY <4>2, <5>1 DEF DineBase, TicketsHeld, b
        <5>3. kot[call[d].t].status = "none" /\ call[d].t \in Kots
          BY <4>2, DrawnFree
        <5> QED BY <1>1, <3>1, <5>2, <5>3 DEF BillTypes
      <4> QED BY <1>1, <2>1, <3>1, <3>3, <4>1, <4>2 DEF KotsStay, BillTypes
    <3> QED BY <3>5, <3>6, <3>7, <3>8, <3>9 DEF BillsNamed
  <2>3. CASE ~KeyAllowsCommit(b.k)
    <3>1. UNCHANGED billVars /\ PlacedOrders' = PlacedOrders
      BY <1>5, <2>3, CommitPlaces DEF CommitBill
    <3> QED BY <1>3, <3>1
  <2> QED BY <2>2, <2>3
<1>6. ASSUME NEW c \in Calls, ReplyBill(c)
      PROVE  BillTypes' /\ BillsNamed' /\ KotsStay
  <2>1. call[c].k \in PosKeys
    BY <1>6 DEF ReplyBill, In, DineBase, CallsTyped, CallOK, SubmitOK
  <2>2. /\ posKey' = [posKey EXCEPT ![call[c].k] = "completed"]
        /\ UNCHANGED <<order, sessOf, activeOrder, kot, cut>>
    BY <1>6 DEF ReplyBill, settleVars
  <2>3. KotsStay
    BY <2>2, DrawnFree DEF KotsStay
  <2> QED BY <1>1, <2>1, <2>2, <2>3 DEF BillTypes, BillsNamed, KotsNamed, Placed, PlacedOrders
<1>7. ASSUME NEW c \in Calls, PartTx(c)
      PROVE  BillTypes' /\ BillsNamed' /\ KotsStay
  <2> DEFINE b == call[c]
             o == b.ticket.order
             left == b.ticket.qty - b.n
             g == b.bill.grand - b.n
             s == sessOf[o]
  <2>1. /\ b.n \in 1..MaxQty /\ b.k \in Kots /\ o \in PlacedOrders /\ b.ticket \in KotDoc
        /\ b.n <= b.ticket.qty /\ b.ticket.status \in KotStatus
    BY <1>7 DEF PartTx, In, DineBase, CallsTyped, CallOK, PartOK, TicketWith
  <2>2. left \in Nat /\ b.n \in Nat /\ o \in Orders /\ s \in Sessions
    BY <1>1, <2>1, MaxQtyIsNatural DEF KotDoc, PlacedOrders
  <2>3. CASE StillOpen(b) /\ BillUnchanged(b)
    <3>1. /\ kot' = [kot EXCEPT ![b.k].qty = left,
                              ![b.k].status = IF left = 0 THEN "cancelled" ELSE b.ticket.status]
          /\ order' = [order EXCEPT ![o] = Repriced(order[o], g, IF g = 0 THEN "cancelled"
                                                                ELSE b.bill.status)]
          /\ cut' = [cut EXCEPT ![o] = cut[o] + b.n]
          /\ activeOrder' = IF g = 0 /\ activeOrder[s] = o
                            THEN [activeOrder EXCEPT ![s] = NoOrder] ELSE activeOrder
          /\ UNCHANGED <<sessOf, posKey>>
      BY <1>7, <2>3 DEF PartTx
    <3>2. kot[b.k].status # "none" /\ kot[b.k].order = o
      BY <1>7 DEF PartTx, In, DineBase, TicketsHeld
    <3>3. "cancelled" \in KotStatus \union {"none"} /\ "cancelled" # "none"
      BY DEF KotStatus, OrderStatus
    <3> DEFINE new == [kot[b.k] EXCEPT !.qty = left,
                          !.status = IF left = 0 THEN "cancelled" ELSE b.ticket.status]
    <3>4. /\ new \in KotDoc /\ new.order = o /\ new.key = kot[b.k].key
          /\ new.status \in KotStatus
      BY <1>1, <2>1, <2>2, <3>2, <3>3 DEF BillTypes, KotDoc
    <3>5. kot' = [kot EXCEPT ![b.k] = new]
      BY <1>1, <2>1, <3>1 DEF BillTypes, KotDoc
    <3>6. /\ kot' \in [Kots -> KotDoc] /\ kot'[b.k] = new /\ "none" \notin KotStatus
          /\ \A k \in Kots \ {b.k} : kot'[k] = kot[k]
      <4> HIDE DEF new
      <4> QED BY <1>1, <2>1, <3>4, <3>5 DEF BillTypes, KotStatus, OrderStatus
    <3>7. PlacedOrders' = PlacedOrders
      <4>1. Placed(o) /\ order \in [Orders -> OrderDoc]
        BY <2>1 DEF PlacedOrders, DineBase, MoneyTypes, SettleTypeOK
      <4>2. \A q \in Orders : Placed(q)' => Placed(q)
        BY <3>1, <4>1 DEF Placed
      <4> QED BY <1>2, <4>2 DEF PlacedOrders
    <3>8. KotsStay
      <4>1. ASSUME NEW d \in Calls, In(d, "commit"), call[d].t # NoKot
            PROVE  kot'[call[d].t].status = "none"
        BY <3>2, <3>6, <4>1, DrawnFree
      <4>2. kot'[b.k].status # "none" /\ kot'[b.k].order = kot[b.k].order
            /\ kot'[b.k].key = kot[b.k].key
        <5> HIDE DEF new
        <5> QED BY <3>2, <3>4, <3>6
      <4> QED BY <3>6, <4>1, <4>2 DEF KotsStay
    <3>9. KotsNamed'
      <4> HIDE DEF new
      <4> QED BY <1>1, <2>1, <3>4, <3>6, <3>7 DEF KotsNamed
    <3>10. /\ cut' \in [Orders -> Nat]
           /\ activeOrder' \in [Sessions -> Orders \union {NoOrder}]
           /\ \A r \in Sessions : activeOrder'[r] # NoOrder => activeOrder'[r] = activeOrder[r]
      BY <1>1, <2>2, <3>1 DEF BillTypes
    <3>11. BillTypes'
      BY <1>1, <3>1, <3>6, <3>10 DEF BillTypes
    <3>12. \A q \in Orders : Placed(q)' <=> Placed(q)
      BY <3>7 DEF PlacedOrders
    <3> QED BY <1>1, <3>1, <3>7, <3>8, <3>9, <3>10, <3>11, <3>12 DEF BillsNamed, KotsNamed
  <2>4. CASE ~(StillOpen(b) /\ BillUnchanged(b))
    <3>1. UNCHANGED <<order, billVars>>
      BY <1>7, <2>4 DEF PartTx, billVars
    <3>2. PlacedOrders' = PlacedOrders
      BY <3>1 DEF PlacedOrders, Placed
    <3> QED BY <1>3, <3>1, <3>2
  <2> QED BY <2>3, <2>4
<1>8. CASE \/ Seat \/ Corrects
           \/ \E c \in Calls : Asks(c) \/ Reads(c) \/ CloseTx(c) \/ OrderWrites(c) \/ Pays(c)
  <2>1. UNCHANGED billVars
    BY <1>8, ReadsOnly, OrdersOnly, TablesOnly
  <2>2. CASE \A c \in Calls : ~CommitBill(c)
    BY <1>3, <2>1, <2>2, PlacedByCommit
  <2>3. CASE \E c \in Calls : CommitBill(c)
    BY <1>5, <2>3
  <2> QED BY <2>2, <2>3
<1> QED BY <1>4, <1>5, <1>6, <1>7, <1>8, StepKinds

-----------------------------------------------------------------------------
(* The handlers: every step leads to a call that may stand there.             *)
LEMMA CallsGrow ==
  ASSUME NEW P, NEW Q, P \subseteq Q, NEW b, CallOK(b, P)
  PROVE  CallOK(b, Q)
<1>1. FinCall(P) \subseteq FinCall(Q)
  BY DEF FinCall
<1>2. SeenOrder(P) \subseteq SeenOrder(Q)
  BY DEF SeenOrder
<1>3. \A n : TicketWith(n, P) \subseteq TicketWith(n, Q)
  BY DEF TicketWith
<1>4. \A at : OnOrderCall(at, P) \subseteq OnOrderCall(at, Q)
  BY <1>2 DEF OnOrderCall
<1>5. SubmitOK(b, Q)
  BY DEF CallOK, SubmitOK
<1>6. SyncOK(b, Q)
  BY <1>1 DEF CallOK, SyncOK
<1>7. FinOK(b, Q)
  BY DEF CallOK, FinOK
<1>8. CloseOK(b, Q)
  BY <1>2, <1>4 DEF CallOK, CloseOK
<1>9. PartOK(b, Q)
  BY <1>3 DEF CallOK, PartOK
<1>10. CancelOK(b, Q)
  BY DEF CallOK, CancelOK
<1> QED BY <1>5, <1>6, <1>7, <1>8, <1>9, <1>10 DEF CallOK

(* Most awaits hold neither a ticket nor a submission.                        *)
Plain(b) == b.at \notin {"lookup", "commit", "reply", "partOrder", "partTx"}

Moved(c) ==
  /\ DOMAIN call' = Calls /\ \A d \in Calls \ {c} : call'[d] = call[d]
  /\ CallOK(call'[c], PlacedOrders) /\ Plain(call'[c])

LEMMA MovedBy ==
  ASSUME CallsTyped, NEW c \in Calls, NEW n, Goto(c, n), CallOK(n, PlacedOrders), Plain(n)
  PROVE  Moved(c)
BY DEF CallsTyped, Goto, Moved

LEMMA IdleOK == CallOK(Idle, PlacedOrders) /\ Plain(Idle)
BY DEF Idle, CallOK, SubmitOK, SyncOK, FinOK, CloseOK, PartOK, CancelOK, OrderLabels, Plain

LEMMA FinalizeOK ==
  ASSUME NEW o \in PlacedOrders
  PROVE  CallOK(Finalize(o), PlacedOrders) /\ Plain(Finalize(o))
BY DEF Finalize, CallOK, SubmitOK, SyncOK, FinOK, CloseOK, PartOK, CancelOK, OrderLabels, Plain

(* The call a synchronisation ends in.                                        *)
LEMMA NextOK ==
  ASSUME NEW n \in FinCall(PlacedOrders)
  PROVE  CallOK(n, PlacedOrders) /\ Plain(n)
BY IdleOK DEF FinCall, CallOK, SubmitOK, SyncOK, FinOK, CloseOK, PartOK, CancelOK,
              OrderLabels, Plain

LEMMA SyncMoves ==
  ASSUME DineBase, NEW c \in Calls, SyncRead(c) \/ SyncKots(c) \/ SyncWrite(c)
  PROVE  Moved(c)
<1> USE DEF CallOK, SubmitOK, SyncOK, FinOK, CloseOK, PartOK, CancelOK, OrderLabels, Plain
<1>1. CallsTyped /\ CallOK(call[c], PlacedOrders)
  BY DEF DineBase, CallsTyped
<1>2. CASE SyncRead(c)
  <2>1. call[c] \in [at : {"sync"}, o : PlacedOrders, by : By, next : FinCall(PlacedOrders)]
    BY <1>1, <1>2 DEF SyncRead, In
  <2> DEFINE n == [at |-> "syncKots", o |-> call[c].o, by |-> call[c].by,
                   next |-> call[c].next, seen |-> order[call[c].o].status]
  <2>2. order[call[c].o].status \in OrderStatus
    BY <2>1, PlacedStatus DEF DineBase
  <2>3. CallOK(n, PlacedOrders) /\ Plain(n)
    BY <2>1, <2>2
  <2>4. CallOK(call[c].next, PlacedOrders) /\ Plain(call[c].next)
    BY <2>1, NextOK
  <2>5. Goto(c, n) \/ Goto(c, call[c].next)
    BY <1>2 DEF SyncRead
  <2> HIDE DEF n, CallOK, Plain
  <2> QED BY <1>1, <2>3, <2>4, <2>5, MovedBy
<1>3. CASE SyncKots(c)
  <2>1. call[c] \in [at : {"syncKots"}, o : PlacedOrders, by : By,
                     next : FinCall(PlacedOrders), seen : OrderStatus]
    BY <1>1, <1>3 DEF SyncKots, In
  <2> DEFINE new == AggregateStatus(call[c].seen, {kot[k].status : k \in KotsOf(call[c].o)})
             n == [at |-> "syncWrite", o |-> call[c].o, by |-> call[c].by,
                   next |-> call[c].next, new |-> new]
  <2>2. new \in OrderStatus
    BY <2>1 DEF AggregateStatus, OrderStatus
  <2>3. CallOK(n, PlacedOrders) /\ Plain(n)
    <3> HIDE DEF new
    <3> QED BY <2>1, <2>2
  <2>4. CallOK(call[c].next, PlacedOrders) /\ Plain(call[c].next)
    BY <2>1, NextOK
  <2>5. Goto(c, n) \/ Goto(c, call[c].next)
    BY <1>3 DEF SyncKots
  <2> HIDE DEF n, CallOK, Plain
  <2> QED BY <1>1, <2>3, <2>4, <2>5, MovedBy
<1>4. CASE SyncWrite(c)
  <2>1. call[c] \in [at : {"syncWrite"}, o : PlacedOrders, by : By,
                     next : FinCall(PlacedOrders), new : OrderStatus]
    BY <1>1, <1>4 DEF SyncWrite, In
  <2>2. CallOK(call[c].next, PlacedOrders) /\ Plain(call[c].next)
    BY <2>1, NextOK
  <2> HIDE DEF CallOK, Plain
  <2> QED BY <1>1, <1>4, <2>2, MovedBy DEF SyncWrite
<1> QED BY <1>2, <1>3, <1>4

LEMMA FinMoves ==
  ASSUME DineBase, NEW c \in Calls,
         \/ FinRead(c) \/ FinPay(c) \/ FinKots(c) \/ FinWrite(c)
         \/ FinSession(c) \/ FinOrders(c) \/ FinTickets(c)
  PROVE  Moved(c)
<1> USE DEF CallOK, SubmitOK, SyncOK, FinOK, CloseOK, PartOK, CancelOK, OrderLabels, Plain
<1> DEFINE b == call[c]
<1>1. CallsTyped /\ CallOK(b, PlacedOrders)
  BY DEF DineBase, CallsTyped
<1>2. ASSUME NEW o \in PlacedOrders, NEW done \in BOOLEAN, Goto(c, SessionCheck(o, done))
      PROVE  Moved(c)
  <2>1. CallOK(SessionCheck(o, done), PlacedOrders) /\ Plain(SessionCheck(o, done))
    BY DEF SessionCheck
  <2> HIDE DEF CallOK, Plain
  <2> QED BY <1>1, <1>2, <2>1, MovedBy
<1>3. ASSUME Goto(c, Idle)
      PROVE  Moved(c)
  BY <1>1, <1>3, IdleOK, MovedBy
<1>4. ASSUME NEW o \in PlacedOrders, NEW at \in OrderLabels, Goto(c, [at |-> at, o |-> o])
      PROVE  Moved(c)
  <2>1. CallOK([at |-> at, o |-> o], PlacedOrders) /\ Plain([at |-> at, o |-> o])
    OBVIOUS
  <2> HIDE DEF CallOK, Plain
  <2> QED BY <1>1, <1>4, <2>1, MovedBy
<1>5. CASE FinRead(c)
  <2>1. b.o \in PlacedOrders
    BY <1>1, <1>5 DEF FinRead, In
  <2> DEFINE n == [at |-> "finPay", o |-> b.o, grand |-> order[b.o].grand]
  <2>2. order[b.o].grand \in Nat
    BY <2>1, PlacedStatus DEF DineBase, OrderDoc
  <2>3. CallOK(n, PlacedOrders) /\ Plain(n)
    BY <2>1, <2>2
  <2>4. Goto(c, n) \/ \E done \in BOOLEAN : Goto(c, SessionCheck(b.o, done))
    BY <1>5 DEF FinRead
  <2> HIDE DEF n, CallOK, Plain
  <2> QED BY <1>1, <1>2, <2>1, <2>3, <2>4, MovedBy
<1>6. CASE FinPay(c)
  <2>1. b.o \in PlacedOrders
    BY <1>1, <1>6 DEF FinPay, In
  <2> QED BY <1>2, <1>4, <1>6, <2>1 DEF FinPay
<1>7. CASE FinKots(c)
  <2>1. b.o \in PlacedOrders
    BY <1>1, <1>7 DEF FinKots, In
  <2> QED BY <1>2, <1>4, <1>7, <2>1 DEF FinKots
<1>8. CASE FinWrite(c)
  <2>1. b.o \in PlacedOrders
    BY <1>1, <1>8 DEF FinWrite, In
  <2> QED BY <1>2, <1>8, <2>1 DEF FinWrite
<1>9. CASE FinSession(c)
  <2>1. b.o \in PlacedOrders /\ b.done \in BOOLEAN
    BY <1>1, <1>9 DEF FinSession, In
  <2> DEFINE n == [at |-> "finOrders", o |-> b.o, done |-> b.done]
  <2>2. CallOK(n, PlacedOrders) /\ Plain(n)
    BY <2>1
  <2>3. Goto(c, n) \/ Goto(c, Idle)
    BY <1>9 DEF FinSession
  <2> HIDE DEF n, CallOK, Plain
  <2> QED BY <1>1, <1>3, <2>2, <2>3, MovedBy
<1>10. CASE FinOrders(c)
  <2> DEFINE s == sessOf[b.o]
             n == [at |-> "finTickets", s |-> s, todo |-> OrdersOf(s)]
  <2>1. b.o \in PlacedOrders
    BY <1>1, <1>10 DEF FinOrders, In
  <2>2. s \in Sessions /\ OrdersOf(s) \subseteq PlacedOrders
    BY <2>1 DEF DineBase, BillsNamed, PlacedOrders, OrdersOf
  <2>3. CallOK(n, PlacedOrders) /\ Plain(n)
    BY <2>2
  <2>4. Goto(c, n) \/ Goto(c, Idle)
    BY <1>10 DEF FinOrders
  <2> HIDE DEF n, CallOK, Plain
  <2> QED BY <1>1, <1>3, <2>3, <2>4, MovedBy
<1>11. CASE FinTickets(c)
  <2>1. b \in [at : {"finTickets"}, s : Sessions, todo : SUBSET PlacedOrders]
    BY <1>1, <1>11 DEF FinTickets, In
  <2>2. PICK o \in b.todo :
           \/ Goto(c, Idle) \/ Goto(c, Close(b.s, "server", TRUE))
           \/ Goto(c, [b EXCEPT !.todo = @ \ {o}])
    BY <1>11 DEF FinTickets
  <2>3. /\ CallOK(Close(b.s, "server", TRUE), PlacedOrders)
        /\ Plain(Close(b.s, "server", TRUE))
    BY <2>1 DEF Close, By
  <2>4. /\ CallOK([b EXCEPT !.todo = @ \ {o}], PlacedOrders)
        /\ Plain([b EXCEPT !.todo = @ \ {o}])
    BY <2>1
  <2> HIDE DEF CallOK, Plain
  <2> QED BY <1>1, <1>3, <2>2, <2>3, <2>4, MovedBy
<1> QED BY <1>5, <1>6, <1>7, <1>8, <1>9, <1>10, <1>11

LEMMA CloseMoves ==
  ASSUME DineBase, NEW c \in Calls,
         \/ CloseRead(c) \/ CloseOrders(c) \/ CloseNext(c) \/ CloseComplete(c)
         \/ CloseTickets(c) \/ CloseServe(c) \/ ClosePay(c) \/ CloseTx(c)
  PROVE  Moved(c)
<1> USE DEF CallOK, SubmitOK, SyncOK, FinOK, CloseOK, PartOK, CancelOK, OrderLabels, Plain
<1> DEFINE b == call[c]
           Labels == {"closeComplete", "closeTickets", "closePay"}
<1>1. CallsTyped /\ CallOK(b, PlacedOrders)
  BY DEF DineBase, CallsTyped
<1>2. ASSUME Goto(c, Idle)
      PROVE  Moved(c)
  BY <1>1, <1>2, IdleOK, MovedBy
<1>3. ASSUME NEW s \in Sessions, Goto(c, [at |-> "closeTx", s |-> s])
      PROVE  Moved(c)
  <2>1. CallOK([at |-> "closeTx", s |-> s], PlacedOrders) /\ Plain([at |-> "closeTx", s |-> s])
    OBVIOUS
  <2> HIDE DEF CallOK, Plain
  <2> QED BY <1>1, <1>3, <2>1, MovedBy
<1>4. ASSUME NEW r, r.s \in Sessions, r.by \in By, r.auto \in BOOLEAN,
             r.todo \in SUBSET SeenOrder(PlacedOrders),
             NEW at \in Labels, NEW x \in SeenOrder(PlacedOrders)
      PROVE  OnOrder(r, at, x) \in OnOrderCall({at}, PlacedOrders)
  BY <1>4 DEF OnOrder, OnOrderCall
<1>5. ASSUME NEW at \in Labels, NEW n \in OnOrderCall({at}, PlacedOrders), Goto(c, n)
      PROVE  Moved(c)
  <2>1. CallOK(n, PlacedOrders) /\ Plain(n)
    BY DEF OnOrderCall
  <2> HIDE DEF CallOK, Plain
  <2> QED BY <1>1, <1>5, <2>1, MovedBy
<1>6. CASE CloseRead(c)
  <2> DEFINE n == [b EXCEPT !.at = "closeOrders"]
  <2>1. b \in [at : {"close", "closeOrders"}, s : Sessions, by : By, auto : BOOLEAN]
    BY <1>1, <1>6 DEF CloseRead, In
  <2>2. CallOK(n, PlacedOrders) /\ Plain(n)
    BY <2>1
  <2>3. Goto(c, n) \/ Goto(c, Idle)
    BY <1>6 DEF CloseRead
  <2> HIDE DEF n, CallOK, Plain
  <2> QED BY <1>1, <1>2, <2>2, <2>3, MovedBy
<1>7. CASE CloseOrders(c)
  <2> DEFINE read == {[o |-> o, status |-> order[o].status, due |-> order[o].due] :
                        o \in OrdersOf(b.s)}
             n == [at |-> "closeNext", s |-> b.s, by |-> b.by, auto |-> b.auto, todo |-> read]
  <2>1. b \in [at : {"close", "closeOrders"}, s : Sessions, by : By, auto : BOOLEAN]
    BY <1>1, <1>7 DEF CloseOrders, In
  <2>2. \A o \in OrdersOf(b.s) :
           [o |-> o, status |-> order[o].status, due |-> order[o].due] \in SeenOrder(PlacedOrders)
    <3>1. OrdersOf(b.s) \subseteq PlacedOrders
      BY <2>1 DEF DineBase, BillsNamed, PlacedOrders, OrdersOf
    <3>2. \A o \in PlacedOrders : order[o].status \in OrderStatus /\ order[o].due \in Nat
      BY PlacedStatus DEF DineBase, OrderDoc
    <3> QED BY <3>1, <3>2 DEF SeenOrder
  <2>3. read \in SUBSET SeenOrder(PlacedOrders)
    BY <2>2
  <2>4. CallOK(n, PlacedOrders) /\ Plain(n)
    <3> HIDE DEF read
    <3> QED BY <2>1, <2>3
  <2>5. Goto(c, n)
    BY <1>7 DEF CloseOrders
  <2> HIDE DEF n, CallOK, Plain
  <2> QED BY <1>1, <2>4, <2>5, MovedBy
<1>8. CASE CloseNext(c)
  <2>1. b \in [at : {"closeNext"}, s : Sessions, by : By, auto : BOOLEAN,
               todo : SUBSET SeenOrder(PlacedOrders)]
    BY <1>1, <1>8 DEF CloseNext, In
  <2>2. CASE Goto(c, [at |-> "closeTx", s |-> b.s])
    BY <1>3, <2>1, <2>2
  <2>3. ASSUME NEW x \in b.todo, NEW at \in Labels,
               Goto(c, OnOrder([b EXCEPT !.todo = @ \ {x}], at, x))
        PROVE  Moved(c)
    <3> DEFINE r == [b EXCEPT !.todo = @ \ {x}]
    <3>1. /\ r.s \in Sessions /\ r.by \in By /\ r.auto \in BOOLEAN
          /\ r.todo \in SUBSET SeenOrder(PlacedOrders) /\ x \in SeenOrder(PlacedOrders)
      BY <2>1
    <3> HIDE DEF r
    <3>2. OnOrder(r, at, x) \in OnOrderCall({at}, PlacedOrders)
      BY <1>4, <3>1
    <3>3. Goto(c, OnOrder(r, at, x))
      BY <2>3 DEF r
    <3> QED BY <1>5, <3>2, <3>3
  <2>4. \/ Goto(c, [at |-> "closeTx", s |-> b.s])
        \/ Goto(c, Idle)
        \/ \E x \in b.todo, at \in Labels : Goto(c, OnOrder([b EXCEPT !.todo = @ \ {x}], at, x))
    BY <1>8 DEF CloseNext
  <2> QED BY <1>2, <2>2, <2>3, <2>4
<1>9. CASE CloseComplete(c) \/ CloseTickets(c)
  <2>1. b \in OnOrderCall(Labels, PlacedOrders)
    BY <1>1, <1>9 DEF CloseComplete, CloseTickets, In
  <2>2. /\ b.s \in Sessions /\ b.by \in By /\ b.auto \in BOOLEAN
        /\ b.todo \in SUBSET SeenOrder(PlacedOrders) /\ b.x \in SeenOrder(PlacedOrders)
    BY <2>1 DEF OnOrderCall
  <2>3. [b.x EXCEPT !.status = "completed"] \in SeenOrder(PlacedOrders)
    BY <2>2 DEF SeenOrder, OrderStatus
  <2>4. CASE CloseComplete(c)
    <3>1. \/ Goto(c, OnOrder(b, "closeTickets", [b.x EXCEPT !.status = "completed"]))
          \/ Goto(c, OnOrder(b, "closeTickets", b.x))
      BY <2>4 DEF CloseComplete
    <3> QED BY <1>4, <1>5, <2>2, <2>3, <3>1
  <2>5. CASE CloseTickets(c)
    <3> DEFINE n == [at |-> "closeServe", then |-> OnOrder(b, "closePay", b.x),
                     ks |-> LiveKots(b.x.o)]
    <3>1. OnOrder(b, "closePay", b.x) \in OnOrderCall({"closePay"}, PlacedOrders)
      BY <1>4, <2>2
    <3>2. LiveKots(b.x.o) \subseteq Kots
      BY DEF LiveKots, KotsOf
    <3>3. CallOK(n, PlacedOrders) /\ Plain(n)
      BY <3>1, <3>2
    <3>4. Goto(c, n) \/ Goto(c, OnOrder(b, "closePay", b.x))
      BY <2>5 DEF CloseTickets
    <3> HIDE DEF n, CallOK, Plain
    <3> QED BY <1>1, <1>5, <3>1, <3>3, <3>4, MovedBy
  <2> QED BY <1>9, <2>4, <2>5
<1>10. CASE CloseServe(c)
  <2>1. b \in [at : {"closeServe"}, then : OnOrderCall({"closePay"}, PlacedOrders),
               ks : SUBSET Kots]
    BY <1>1, <1>10 DEF CloseServe, In
  <2>2. PICK k \in b.ks : Goto(c, b.then) \/ Goto(c, [b EXCEPT !.ks = @ \ {k}])
    BY <1>10 DEF CloseServe
  <2> DEFINE n == [b EXCEPT !.ks = @ \ {k}]
  <2>3. CallOK(n, PlacedOrders) /\ Plain(n)
    BY <2>1
  <2>4. b.then \in OnOrderCall({"closePay"}, PlacedOrders)
    BY <2>1
  <2>5. Goto(c, b.then) \/ Goto(c, n)
    BY <2>2
  <2> HIDE DEF n, CallOK, Plain
  <2> QED BY <1>1, <1>5, <2>3, <2>4, <2>5, MovedBy
<1>11. CASE ClosePay(c)
  <2>1. b \in OnOrderCall(Labels, PlacedOrders)
    BY <1>1, <1>11 DEF ClosePay, In
  <2> DEFINE n == [at |-> "closeNext", s |-> b.s, by |-> b.by, auto |-> b.auto, todo |-> b.todo]
  <2>2. CallOK(n, PlacedOrders) /\ Plain(n) /\ b.s \in Sessions
    BY <2>1 DEF OnOrderCall
  <2>3. Goto(c, n) \/ Goto(c, Idle) \/ Goto(c, [at |-> "closeTx", s |-> b.s])
    BY <1>11 DEF ClosePay
  <2> HIDE DEF n, CallOK, Plain
  <2> QED BY <1>1, <1>2, <1>3, <2>2, <2>3, MovedBy
<1>12. CASE CloseTx(c)
  BY <1>2, <1>12 DEF CloseTx, End
<1> QED BY <1>6, <1>7, <1>8, <1>9, <1>10, <1>11, <1>12

LEMMA OtherMoves ==
  ASSUME DineBase, NEW c \in Calls,
         \/ CancelKots(c) \/ CancelNext(c) \/ CancelWrite(c)
         \/ SendKots(c) \/ (\E t \in Kots : SendWrite(c, t)) \/ SendStatus(c) \/ ReopenWrite(c)
         \/ CompKots(c) \/ CompPay(c) \/ CompWrite(c)
         \/ DropKot(c) \/ PartTx(c) \/ ReplyBill(c) \/ Crash(c)
  PROVE  Moved(c)
<1> USE DEF CallOK, SubmitOK, SyncOK, FinOK, CloseOK, PartOK, CancelOK, OrderLabels, Plain
<1> DEFINE b == call[c]
<1>1. CallsTyped /\ CallOK(b, PlacedOrders)
  BY DEF DineBase, CallsTyped
<1>2. ASSUME Goto(c, Idle)
      PROVE  Moved(c)
  BY <1>1, <1>2, IdleOK, MovedBy
<1>3. ASSUME NEW o \in PlacedOrders, Goto(c, Finalize(o))
      PROVE  Moved(c)
  BY <1>1, <1>3, FinalizeOK, MovedBy
<1>4. ASSUME NEW o \in PlacedOrders, NEW at \in OrderLabels, Goto(c, [at |-> at, o |-> o])
      PROVE  Moved(c)
  <2>1. CallOK([at |-> at, o |-> o], PlacedOrders) /\ Plain([at |-> at, o |-> o])
    OBVIOUS
  <2> HIDE DEF CallOK, Plain
  <2> QED BY <1>1, <1>4, <2>1, MovedBy
<1>5. CASE CancelKots(c)
  <2> DEFINE n == [at |-> "cancelNext", o |-> b.o, by |-> b.by, ks |-> LiveKots(b.o)]
  <2>1. b.o \in PlacedOrders /\ b.by \in By /\ LiveKots(b.o) \subseteq Kots
    BY <1>1, <1>5 DEF CancelKots, In, LiveKots, KotsOf
  <2>2. CallOK(n, PlacedOrders) /\ Plain(n)
    BY <2>1
  <2>3. Goto(c, n)
    BY <1>5 DEF CancelKots
  <2> HIDE DEF n, CallOK, Plain
  <2> QED BY <1>1, <2>2, <2>3, MovedBy
<1>6. CASE CancelNext(c)
  <2> DEFINE n == [at |-> "cancelWrite", o |-> b.o, by |-> b.by]
  <2>1. b \in [at : {"cancelNext"}, o : PlacedOrders, by : By, ks : SUBSET Kots]
    BY <1>1, <1>6 DEF CancelNext, In
  <2>2. CallOK(n, PlacedOrders) /\ Plain(n)
    BY <2>1
  <2>3. \A k : CallOK([b EXCEPT !.ks = @ \ {k}], PlacedOrders) /\ Plain([b EXCEPT !.ks = @ \ {k}])
    BY <2>1
  <2>4. Goto(c, n) \/ \E k \in b.ks : Goto(c, [b EXCEPT !.ks = @ \ {k}])
    BY <1>6 DEF CancelNext
  <2> HIDE DEF n, CallOK, Plain
  <2> QED BY <1>1, <2>2, <2>3, <2>4, MovedBy
<1>7. CASE CancelWrite(c)
  <2>1. b.o \in PlacedOrders
    BY <1>1, <1>7 DEF CancelWrite, In
  <2> QED BY <1>2, <1>3, <1>7, <2>1 DEF CancelWrite, End
<1>8. CASE SendKots(c)
  <2> DEFINE n == [at |-> "sendWrite", o |-> b.o, seen |-> b.seen, q |-> b.q]
  <2>1. b \in [at : {"sendKots"}, o : PlacedOrders, seen : OrderStatus, q : Nat,
               whole : BOOLEAN]
    BY <1>1, <1>8 DEF SendKots, In
  <2>2. CallOK(n, PlacedOrders) /\ Plain(n)
    BY <2>1
  <2>3. Goto(c, n) \/ Goto(c, Idle)
    BY <1>8 DEF SendKots, End
  <2> HIDE DEF n, CallOK, Plain
  <2> QED BY <1>1, <1>2, <2>2, <2>3, MovedBy
<1>9. ASSUME NEW t \in Kots, SendWrite(c, t)
      PROVE  Moved(c)
  <2>1. b.o \in PlacedOrders
    BY <1>1, <1>9 DEF SendWrite, In
  <2> QED BY <1>2, <1>4, <1>9, <2>1 DEF SendWrite
<1>10. CASE SendStatus(c) \/ ReopenWrite(c) \/ PartTx(c) \/ ReplyBill(c) \/ Crash(c)
  BY <1>2, <1>10 DEF SendStatus, ReopenWrite, PartTx, ReplyBill, Crash, End
<1>11. CASE CompKots(c) \/ CompPay(c)
  <2>1. b.o \in PlacedOrders
    BY <1>1, <1>11 DEF CompKots, CompPay, In
  <2> QED BY <1>2, <1>4, <1>11, <2>1 DEF CompKots, CompPay
<1>12. CASE CompWrite(c)
  <2>1. b.o \in PlacedOrders
    BY <1>1, <1>12 DEF CompWrite, In
  <2> QED BY <1>3, <1>12, <2>1 DEF CompWrite
<1>13. CASE DropKot(c)
  <2> DEFINE o == kot[b.k].order
             n == Sync(o, b.by, Finalize(o))
  <2>1. b.k \in Kots /\ b.by \in By
    BY <1>1, <1>13 DEF DropKot, In
  <2>2. CASE MayCancelKot(b.by, kot[b.k].status)
    <3>1. o \in PlacedOrders
      BY <2>1, <2>2 DEF MayCancelKot, MayWriteKot, RulesMove, DineBase, BillsNamed
    <3>2. CallOK(n, PlacedOrders) /\ Plain(n)
      <4> HIDE DEF o
      <4> QED BY <2>1, <3>1 DEF Sync, Finalize, FinCall
    <3>3. Goto(c, n)
      BY <1>13, <2>2 DEF DropKot
    <3> HIDE DEF n, CallOK, Plain
    <3> QED BY <1>1, <3>2, <3>3, MovedBy
  <2>3. CASE ~MayCancelKot(b.by, kot[b.k].status)
    BY <1>2, <1>13, <2>3 DEF DropKot, End
  <2> QED BY <2>2, <2>3
<1> QED BY <1>5, <1>6, <1>7, <1>8, <1>9, <1>10, <1>11, <1>12, <1>13

(* The requests that begin with a plain await.                                *)
PlainAsks(c) ==
  \/ \E s \in Sessions, by \in Staff, auto \in BOOLEAN : StartClose(c, s, by, auto)
  \/ \E k \in Kots, by \in Staff : StartDropKot(c, k, by)
  \/ \E o \in Orders : StartComplete(c, o) \/ StartSend(c, o)
  \/ \E o \in Orders, by \in Staff : StartCancel(c, o, by) \/ StartReopen(c, o, by)

LEMMA AskMoves ==
  ASSUME DineBase, NEW c \in Calls, PlainAsks(c)
  PROVE  Moved(c)
<1> USE DEF CallOK, SubmitOK, SyncOK, FinOK, CloseOK, PartOK, CancelOK, OrderLabels, Plain
<1>1. CallsTyped
  BY DEF DineBase
<1>2. ASSUME NEW s \in Sessions, NEW by \in Staff, NEW auto \in BOOLEAN,
             StartClose(c, s, by, auto)
      PROVE  Moved(c)
  <2>1. CallOK(Close(s, by, auto), PlacedOrders) /\ Plain(Close(s, by, auto))
    BY DEF Close, By
  <2>2. Goto(c, Close(s, by, auto))
    BY <1>2 DEF StartClose
  <2> HIDE DEF CallOK, Plain
  <2> QED BY <1>1, <2>1, <2>2, MovedBy
<1>3. ASSUME NEW k \in Kots, NEW by \in Staff, StartDropKot(c, k, by)
      PROVE  Moved(c)
  <2> DEFINE n == [at |-> "dropKot", k |-> k, by |-> by]
  <2>1. CallOK(n, PlacedOrders) /\ Plain(n)
    BY DEF By
  <2>2. Goto(c, n)
    BY <1>3 DEF StartDropKot
  <2> HIDE DEF n, CallOK, Plain
  <2> QED BY <1>1, <2>1, <2>2, MovedBy
<1>4. ASSUME NEW o \in PlacedOrders, NEW at \in OrderLabels, Goto(c, [at |-> at, o |-> o])
      PROVE  Moved(c)
  <2>1. CallOK([at |-> at, o |-> o], PlacedOrders) /\ Plain([at |-> at, o |-> o])
    OBVIOUS
  <2> HIDE DEF CallOK, Plain
  <2> QED BY <1>1, <1>4, <2>1, MovedBy
<1>5. ASSUME NEW o \in Orders, StartComplete(c, o)
      PROVE  Moved(c)
  <2>1. o \in PlacedOrders
    BY <1>5 DEF StartComplete, PlacedOrders
  <2> QED BY <1>4, <1>5, <2>1 DEF StartComplete
<1>6. ASSUME NEW o \in Orders, StartSend(c, o)
      PROVE  Moved(c)
  <2> DEFINE n == [at |-> "sendKots", o |-> o, seen |-> order[o].status, q |-> order[o].grand,
                   whole |-> cut[o] = 0]
  <2>1. o \in PlacedOrders
    BY <1>6 DEF StartSend, PlacedOrders
  <2>2. order[o].status \in OrderStatus /\ order[o].grand \in Nat
    BY <2>1, PlacedStatus DEF DineBase, OrderDoc
  <2>3. CallOK(n, PlacedOrders) /\ Plain(n)
    BY <2>1, <2>2
  <2>4. Goto(c, n)
    BY <1>6 DEF StartSend
  <2> HIDE DEF n, CallOK, Plain
  <2> QED BY <1>1, <2>3, <2>4, MovedBy
<1>7. ASSUME NEW o \in Orders, NEW by \in Staff, StartCancel(c, o, by)
      PROVE  Moved(c)
  <2> DEFINE n == [at |-> "cancelKots", o |-> o, by |-> by]
  <2>1. CallOK(n, PlacedOrders) /\ Plain(n)
    BY <1>7 DEF StartCancel, PlacedOrders, By
  <2>2. Goto(c, n)
    BY <1>7 DEF StartCancel
  <2> HIDE DEF n, CallOK, Plain
  <2> QED BY <1>1, <2>1, <2>2, MovedBy
<1>8. ASSUME NEW o \in Orders, NEW by \in Staff, StartReopen(c, o, by)
      PROVE  Moved(c)
  <2>1. o \in PlacedOrders
    BY <1>8 DEF StartReopen, PlacedOrders, Placed
  <2> QED BY <1>4, <1>8, <2>1 DEF StartReopen
<1> QED BY <1>2, <1>3, <1>5, <1>6, <1>7, <1>8 DEF PlainAsks

-----------------------------------------------------------------------------
(* A call that has moved, and what the one it became has drawn or read.       *)
Fresh(d) ==
  /\ CallOK(call'[d], PlacedOrders)
  /\ call'[d].at \in {"partOrder", "partTx"} =>
       /\ call'[d].k \in Kots
       /\ kot[call'[d].k].status # "none" /\ kot[call'[d].k].order = call'[d].ticket.order
  /\ call'[d].at = "commit" =>
       /\ \A e \in Calls \ {d} : call'[e] = call[e]
       /\ call'[d].t # NoKot => /\ kot'[call'[d].t].status = "none"
                                /\ call'[d].t \notin Drawn

LEMMA CallsKept ==
  ASSUME DineBase, DineNext, DOMAIN call' = Calls,
         \A d \in Calls : call'[d] = call[d] \/ Fresh(d)
  PROVE  CallsTyped' /\ TicketsHeld'
<1>1. PlacedOrders \subseteq PlacedOrders' /\ KotsStay
  BY MoneyTypesKept, BillsStep
<1>2. ASSUME NEW d \in Calls
      PROVE  CallOK(call'[d], PlacedOrders')
  <2>1. CallOK(call'[d], PlacedOrders)
    BY DEF Fresh, DineBase, CallsTyped
  <2> QED BY <1>1, <2>1, CallsGrow
<1>3. ASSUME NEW d \in Calls, call'[d] = call[d], In(d, "commit")
      PROVE  ~CommitBill(d)
  <2>1. CommitBill(d) => Goto(d, IF call[d].k = NoPosKey THEN Idle
                                 ELSE [at |-> "reply", k |-> call[d].k])
    BY DEF CommitBill
  <2>2. DOMAIN call = Calls
    BY DEF DineBase, CallsTyped
  <2> QED BY <1>3, <2>1, <2>2 DEF Goto, In, Idle
<1>4. ASSUME NEW d \in Calls, call'[d].at \in {"partOrder", "partTx"}
      PROVE  kot'[call'[d].k].status # "none" /\ kot'[call'[d].k].order = call'[d].ticket.order
  <2>1. /\ call'[d].k \in Kots
        /\ kot[call'[d].k].status # "none" /\ kot[call'[d].k].order = call'[d].ticket.order
    BY <1>4 DEF Fresh, DineBase, CallsTyped, CallOK, PartOK, TicketsHeld
  <2> QED BY <1>1, <2>1 DEF KotsStay
<1>5. ASSUME NEW d \in Calls, call'[d].at = "commit", call'[d].t # NoKot
      PROVE  /\ kot'[call'[d].t].status = "none"
             /\ \A e \in Calls : call'[e].at = "commit" /\ e # d => call'[e].t # call'[d].t
  <2>1. CASE call'[d] = call[d]
    <3>1. kot'[call[d].t].status = "none" /\ call[d].t \in Drawn
      BY <1>1, <1>3, <1>5, <2>1, DrawnFree DEF KotsStay, In
    <3>2. ASSUME NEW e \in Calls, call'[e].at = "commit", e # d, call'[e].t = call[d].t
          PROVE  FALSE
      <4>1. CASE call'[e] = call[e]
        BY <1>5, <2>1, <3>2, <4>1 DEF DineBase, TicketsHeld, In
      <4>2. CASE Fresh(e)
        BY <1>5, <2>1, <3>1, <3>2, <4>2 DEF Fresh
      <4> QED BY <4>1, <4>2
    <3> QED BY <2>1, <3>1, <3>2
  <2>2. CASE Fresh(d)
    <3>1. ASSUME NEW e \in Calls, call'[e].at = "commit", e # d
          PROVE  call'[e].t # call'[d].t
      <4>1. call'[e] = call[e] /\ In(e, "commit") /\ call'[d].t \notin Drawn
        BY <1>5, <2>2, <3>1 DEF Fresh, In
      <4> QED BY <4>1 DEF Drawn
    <3> QED BY <1>5, <2>2, <3>1 DEF Fresh
  <2> QED BY <2>1, <2>2
<1>6. CallsTyped'
  BY <1>2 DEF CallsTyped
<1> QED BY <1>4, <1>5, <1>6 DEF TicketsHeld, In

(* A call that moves to a plain await, and one that ends beside another.      *)
LEMMA PlainFresh ==
  ASSUME NEW c \in Calls, Moved(c)
  PROVE  DOMAIN call' = Calls /\ \A d \in Calls : call'[d] = call[d] \/ Fresh(d)
BY DEF Moved, Plain, Fresh

LEMMA FreshBy ==
  ASSUME CallsTyped, NEW c \in Calls, NEW n, Goto(c, n), call'[c] = n => Fresh(c)
  PROVE  DOMAIN call' = Calls /\ \A d \in Calls : call'[d] = call[d] \/ Fresh(d)
BY DEF CallsTyped, Goto

(* The steps that lead to an await holding a ticket or a submission.          *)
Submits(c) ==
  \/ \E s \in Sessions, q \in 1..MaxQty, k \in PosKeyOrNone, cook \in Kitchens :
        StartSubmit(c, s, q, k, cook)
  \/ \E o \in Orders, t \in Kots \union {NoKot} : ReadBill(c, o, t)
  \/ CommitBill(c)

Partials(c) == (\E k \in Kots, n \in 1..MaxQty : StartPartial(c, k, n)) \/ PartOrder(c)

Taps(c) ==
  \E d \in Calls, k \in Kots, st \in KotStatus, by \in Staff : TapKot(c, d, k, st, by)

LEMMA SubmitFresh ==
  ASSUME DineBase, NEW c \in Calls, Submits(c)
  PROVE  DOMAIN call' = Calls /\ \A d \in Calls : call'[d] = call[d] \/ Fresh(d)
<1> USE DEF CallOK, SubmitOK, SyncOK, FinOK, CloseOK, PartOK, CancelOK, OrderLabels
<1> DEFINE b == call[c]
<1>1. CallsTyped /\ CallOK(b, PlacedOrders)
  BY DEF DineBase, CallsTyped
<1>2. ASSUME NEW s \in Sessions, NEW q \in 1..MaxQty, NEW k \in PosKeyOrNone,
             NEW cook \in Kitchens, StartSubmit(c, s, q, k, cook)
      PROVE  DOMAIN call' = Calls /\ \A d \in Calls : call'[d] = call[d] \/ Fresh(d)
  <2> DEFINE n == [at |-> "lookup", s |-> s, q |-> q, k |-> k, cook |-> cook,
                   active |-> activeOrder[s]]
  <2>1. activeOrder[s] \in PlacedOrders \union {NoOrder} /\ cook \in BOOLEAN
    BY SwitchesAreBoolean DEF DineBase, BillsNamed
  <2>2. CallOK(n, PlacedOrders)
    BY <2>1
  <2>3. Goto(c, n)
    BY <1>2 DEF StartSubmit
  <2>4. n.at = "lookup"
    OBVIOUS
  <2> HIDE DEF n, CallOK
  <2>5. call'[c] = n => Fresh(c)
    BY <2>2, <2>4 DEF Fresh
  <2> QED BY <1>1, <2>3, <2>5, FreshBy
<1>3. ASSUME NEW o \in Orders, NEW t \in Kots \union {NoKot}, ReadBill(c, o, t)
      PROVE  DOMAIN call' = Calls /\ \A d \in Calls : call'[d] = call[d] \/ Fresh(d)
  <2> DEFINE live == BillsFound(b.s, b.active)
             new  == [status |-> IF b.cook THEN "sentToKitchen" ELSE "confirmed", grand |-> 0,
                      paid |-> 0]
             base == IF live = {} THEN new ELSE order[o]
             bill == Settled([status |-> base.status, grand |-> base.grand + b.q,
                              paid |-> 0, due |-> 0, payStatus |-> "unpaid"], base.paid)
             n == [at |-> "commit", s |-> b.s, q |-> b.q, k |-> b.k, o |-> o, t |-> t,
                   bill |-> bill]
  <2>1. b \in [at : {"lookup"}, s : Sessions, q : 1..MaxQty, k : PosKeyOrNone, cook : BOOLEAN,
               active : PlacedOrders \union {NoOrder}]
    BY <1>1, <1>3 DEF ReadBill, In
  <2>2. live = {} \/ o \in PlacedOrders
    <3>1. o \in BillsFound(b.s, b.active) => o \in PlacedOrders
      BY <2>1 DEF BillsFound, OrdersOf, DineBase, BillsNamed, PlacedOrders
    <3>2. live = {} \/ o \in BillsFound(b.s, b.active)
      BY <1>3 DEF ReadBill
    <3> QED BY <3>1, <3>2
  <2>3. base.status \in OrderStatus /\ base.grand \in Nat /\ base.paid \in Nat
    BY <2>2, PlacedStatus DEF DineBase, OrderStatus, OrderDoc
  <2>4. base.grand + b.q \in Money
    <3>1. base.grand + b.q <= MaxTotal
      BY <1>3 DEF ReadBill
    <3> HIDE DEF base
    <3> QED BY <2>1, <2>3, <3>1, MaxQtyIsNatural, MaxTotalIsNatural DEF Money
  <2>5. bill \in NewBill
    <3> DEFINE g == base.grand + b.q
               blank == [status |-> base.status, grand |-> g, paid |-> 0, due |-> 0,
                         payStatus |-> "unpaid"]
    <3>1. g \in Money /\ g \in Nat
      BY <2>4, MaxTotalIsNatural DEF Money
    <3> HIDE DEF g, base
    <3>2. blank \in OrderDoc /\ blank.status = base.status /\ blank.grand = g
      BY <2>3, <3>1 DEF OrderDoc, PayStatus
    <3>3. bill = Settled(blank, base.paid)
      BY DEF g
    <3> HIDE DEF blank, bill
    <3> QED BY <2>3, <3>1, <3>2, <3>3, SettledDoc DEF NewBill
  <2>6. CallOK(n, PlacedOrders)
    <3> HIDE DEF bill
    <3> QED BY <2>1, <2>5
  <2>7. Goto(c, n) /\ UNCHANGED kot /\ (t # NoKot => FreeKot(t))
    BY <1>3 DEF ReadBill, billVars
  <2>8. /\ call'[c] = n => /\ call'[c].at = "commit" /\ call'[c].t = t
                           /\ \A e \in Calls \ {c} : call'[e] = call[e]
    BY <1>1, <2>7 DEF Goto, CallsTyped
  <2> HIDE DEF n, CallOK
  <2>9. call'[c] = n => Fresh(c)
    BY <2>6, <2>7, <2>8 DEF Fresh, FreeKot
  <2> QED BY <1>1, <2>7, <2>9, FreshBy
<1>4. CASE CommitBill(c)
  <2> DEFINE n == [at |-> "reply", k |-> b.k]
  <2>1. b.k \in PosKeyOrNone
    BY <1>4, CommitDoc
  <2>2. Goto(c, IF b.k = NoPosKey THEN Idle ELSE n)
    BY <1>4 DEF CommitBill
  <2>3. b.k # NoPosKey => CallOK(n, PlacedOrders) /\ n.at = "reply"
    BY <2>1 DEF PosKeyOrNone
  <2> HIDE DEF n, CallOK
  <2>4. call'[c] = (IF b.k = NoPosKey THEN Idle ELSE n) => Fresh(c)
    BY <2>3, IdleOK DEF Fresh, Plain
  <2> QED BY <1>1, <2>2, <2>4, FreshBy
<1> QED BY <1>2, <1>3, <1>4 DEF Submits

LEMMA PartFresh ==
  ASSUME DineBase, NEW c \in Calls, Partials(c)
  PROVE  DOMAIN call' = Calls /\ \A d \in Calls : call'[d] = call[d] \/ Fresh(d)
<1> USE DEF CallOK, SubmitOK, SyncOK, FinOK, CloseOK, PartOK, CancelOK, OrderLabels
<1> DEFINE b == call[c]
<1>1. CallsTyped /\ CallOK(b, PlacedOrders) /\ 1..MaxQty \subseteq Nat
  BY MaxQtyIsNatural DEF DineBase, CallsTyped
<1>2. ASSUME NEW k \in Kots, NEW q \in 1..MaxQty, StartPartial(c, k, q)
      PROVE  DOMAIN call' = Calls /\ \A d \in Calls : call'[d] = call[d] \/ Fresh(d)
  <2> DEFINE n == [at |-> "partOrder", k |-> k, n |-> q, ticket |-> kot[k]]
  <2>1. kot[k].status # "none" /\ kot[k] \in TicketWith(q, PlacedOrders)
    BY <1>2 DEF StartPartial, TicketWith, KotDoc, DineBase, DineTypeOK, BillsNamed
  <2>2. CallOK(n, PlacedOrders)
    BY <1>1, <2>1
  <2>3. Goto(c, n)
    BY <1>2 DEF StartPartial
  <2>4. n.at = "partOrder" /\ n.k = k /\ n.ticket = kot[k]
    OBVIOUS
  <2> HIDE DEF n, CallOK
  <2>5. call'[c] = n => Fresh(c)
    BY <2>1, <2>2, <2>4 DEF Fresh
  <2> QED BY <1>1, <2>3, <2>5, FreshBy
<1>3. CASE PartOrder(c)
  <2> DEFINE o == b.ticket.order
             n == [at |-> "partTx", k |-> b.k, n |-> b.n, ticket |-> b.ticket,
                   bill |-> order[o], cut |-> cut[o]]
  <2>1. /\ b \in [at : {"partOrder"}, k : Kots, n : Nat, ticket : TicketWith(b.n, PlacedOrders)]
        /\ b.n \in 1..MaxQty
    BY <1>1, <1>3 DEF PartOrder, In
  <2>2. o \in PlacedOrders /\ kot[b.k].status # "none" /\ kot[b.k].order = o
    BY <1>3, <2>1 DEF PartOrder, In, TicketWith, DineBase, TicketsHeld
  <2>3. CASE Goto(c, Idle)
    BY <1>1, <2>3, IdleOK, MovedBy, PlainFresh
  <2>4. CASE /\ OrderOpen(o) /\ b.n <= order[o].grand
             /\ CoversPaid(order[o], order[o].grand - b.n)
             /\ Goto(c, n)
    <3>1. order[o] \in BillWith(b.n) /\ cut[o] \in Nat
      BY <2>1, <2>2, <2>4, PlacedStatus
         DEF BillWith, OrderOpen, CoversPaid, DineBase, DineTypeOK, PlacedOrders
    <3>2. CallOK(n, PlacedOrders)
      <4> HIDE DEF o
      <4> QED BY <2>1, <3>1
    <3>3. n.at = "partTx" /\ n.k = b.k /\ n.ticket.order = o /\ b.k \in Kots
      BY <2>1
    <3>4. Goto(c, n)
      BY <2>4
    <3> HIDE DEF n, CallOK
    <3>5. call'[c] = n => Fresh(c)
      BY <2>2, <3>2, <3>3 DEF Fresh
    <3> QED BY <1>1, <3>4, <3>5, FreshBy
  <2> QED BY <1>3, <2>3, <2>4 DEF PartOrder
<1> QED BY <1>2, <1>3 DEF Partials

LEMMA TapFresh ==
  ASSUME DineBase, NEW c \in Calls, NEW e \in Calls, NEW k \in Kots, NEW st \in KotStatus,
         NEW by \in Staff, TapKot(c, e, k, st, by)
  PROVE  DOMAIN call' = Calls /\ \A d \in Calls : call'[d] = call[d] \/ Fresh(d)
<1> DEFINE o == kot[k].order
<1>1. o \in PlacedOrders /\ CallsTyped
  BY DEF TapKot, DineBase, BillsNamed
<1>2. CallOK(Sync(o, by, Idle), PlacedOrders) /\ Plain(Sync(o, by, Idle))
  BY <1>1 DEF Sync, By, FinCall, CallOK, SubmitOK, SyncOK, FinOK, CloseOK, PartOK, CancelOK,
              OrderLabels, Plain
<1>3. CallOK(Finalize(o), PlacedOrders) /\ Plain(Finalize(o))
  BY <1>1, FinalizeOK
<1>4. \/ e # c /\ call' = [call EXCEPT ![c] = Sync(o, by, Idle), ![e] = Finalize(o)]
      \/ Goto(c, Sync(o, by, Idle))
  BY DEF TapKot
<1> QED BY <1>1, <1>2, <1>3, <1>4, MovedBy, PlainFresh DEF CallsTyped, Fresh, Plain

(* What a step does to the handlers: nothing, or one moves to a plain await,  *)
(* or one of the steps above.                                                 *)
LEMMA CallKinds ==
  ASSUME DineBase, DineNext
  PROVE  \/ UNCHANGED call
         \/ \E c \in Calls : Moved(c) \/ Submits(c) \/ Partials(c) \/ Taps(c)
<1>1. CASE Seat \/ Corrects
  BY <1>1 DEF Seat, Corrects, Refund, Resolve
<1>2. ASSUME NEW c \in Calls, Asks(c)
      PROVE  Moved(c) \/ Submits(c) \/ Partials(c)
  <2>1. Submits(c) \/ Partials(c) \/ PlainAsks(c)
    BY <1>2 DEF Asks, PlainAsks, Submits, Partials
  <2> QED BY <2>1, AskMoves
<1>3. ASSUME NEW c \in Calls, Reads(c) \/ CommitBill(c) \/ ReplyBill(c) \/ PartTx(c) \/ CloseTx(c)
      PROVE  Moved(c) \/ Submits(c) \/ Partials(c)
  <2>1. CASE (\E o \in Orders, t \in Kots \union {NoKot} : ReadBill(c, o, t)) \/ CommitBill(c)
    BY <2>1 DEF Submits
  <2>2. CASE PartOrder(c)
    BY <2>2 DEF Partials
  <2>3. CASE SyncRead(c) \/ SyncKots(c)
    BY <2>3, SyncMoves
  <2>4. CASE FinRead(c) \/ FinPay(c) \/ FinKots(c) \/ FinSession(c) \/ FinOrders(c) \/ FinTickets(c)
    BY <2>4, FinMoves
  <2>5. CASE \/ CloseRead(c) \/ CloseOrders(c) \/ CloseNext(c) \/ CloseTickets(c) \/ ClosePay(c)
             \/ CloseTx(c)
    BY <2>5, CloseMoves
  <2>6. CASE \/ CompKots(c) \/ CompPay(c) \/ CancelKots(c) \/ SendKots(c) \/ Crash(c)
             \/ ReplyBill(c) \/ PartTx(c)
    BY <2>6, OtherMoves
  <2> QED BY <1>3, <2>1, <2>2, <2>3, <2>4, <2>5, <2>6 DEF Reads
<1>4. ASSUME NEW c \in Calls, KotWrites(c) \/ OrderWrites(c)
      PROVE  Moved(c) \/ Taps(c)
  <2>1. CASE CloseServe(c) \/ CloseComplete(c)
    BY <2>1, CloseMoves
  <2>2. CASE \/ DropKot(c) \/ CancelNext(c) \/ (\E t \in Kots : SendWrite(c, t))
             \/ CompWrite(c) \/ CancelWrite(c) \/ SendStatus(c) \/ ReopenWrite(c)
    BY <2>2, OtherMoves
  <2>3. CASE SyncWrite(c)
    BY <2>3, SyncMoves
  <2>4. CASE FinWrite(c)
    BY <2>4, FinMoves
  <2> QED BY <1>4, <2>1, <2>2, <2>3, <2>4 DEF KotWrites, OrderWrites, Taps
<1>5. ASSUME NEW c \in Calls, Pays(c)
      PROVE  UNCHANGED call \/ Moved(c)
  <2>1. PICK o \in Orders, a \in 1..MaxTotal, st \in {"completed", "pending"},
             k \in PayKeys \union {NoPayKey}, p \in Payments : Pay(c, o, a, st, k, p)
    BY <1>5 DEF Pays
  <2>2. o \in PlacedOrders
    BY <2>1 DEF Pay, RecordPayment, PlacedOrders
  <2>3. UNCHANGED call \/ Goto(c, Finalize(o))
    BY <2>1 DEF Pay
  <2>4. CallsTyped
    BY DEF DineBase
  <2> QED BY <2>2, <2>3, <2>4, FinalizeOK, MovedBy
<1> QED BY <1>1, <1>2, <1>3, <1>4, <1>5, StepKinds

LEMMA CallsStep ==
  ASSUME DineBase, DineNext
  PROVE  CallsTyped' /\ TicketsHeld'
<1>1. CASE UNCHANGED call
  BY <1>1, CallsKept DEF DineBase, CallsTyped
<1>2. CASE \E c \in Calls : Moved(c) \/ Submits(c) \/ Partials(c)
  BY <1>2, PlainFresh, SubmitFresh, PartFresh, CallsKept
<1>3. CASE \E c \in Calls : Taps(c)
  BY <1>3, TapFresh, CallsKept DEF Taps
<1> QED BY <1>1, <1>2, <1>3, CallKinds

-----------------------------------------------------------------------------
LEMMA InitDineBase == DineInit => DineBase
<1> SUFFICES ASSUME DineInit PROVE DineBase
  OBVIOUS
<1>1. MoneyTypes /\ SettleTypeOK
  BY InitMoneyTypes DEF DineInit, MoneyTypes
<1>2. SessionsInv /\ TSTypeOK
  BY InitSessionsInv DEF DineInit, SessionsInv
<1>3. DineTypeOK
  BY <1>1, <1>2 DEF DineInit, DineTypeOK, KotDoc
<1>4. BillsNamed
  BY SentinelsAreFresh DEF DineInit, SettleInit, BillsNamed, Placed
<1>5. CallsTyped
  BY IdleOK DEF DineInit, CallsTyped
<1>6. TicketsHeld
  BY DEF DineInit, TicketsHeld, In, Idle
<1> QED BY <1>1, <1>2, <1>3, <1>4, <1>5, <1>6 DEF DineBase

LEMMA DineBaseStep == ASSUME DineBase, [DineNext]_vars PROVE DineBase'
<1>1. CASE DineNext
  <2>1. MoneyTypes'
    BY <1>1, MoneyTypesKept
  <2>2. SessionsInv'
    BY <1>1, TablesStep, TypeStep, LockStep, KeyStep DEF DineBase, SessionsInv, LockInv
  <2>3. BillTypes' /\ BillsNamed'
    BY <1>1, BillsStep
  <2>4. CallsTyped' /\ TicketsHeld'
    BY <1>1, CallsStep
  <2>5. DineTypeOK'
    BY <2>1, <2>2, <2>3, <2>4 DEF DineTypeOK, MoneyTypes, SessionsInv, BillTypes, CallsTyped
  <2> QED BY <2>1, <2>2, <2>3, <2>4, <2>5 DEF DineBase
<1>2. CASE UNCHANGED vars
  <2>1. UNCHANGED <<order, payment, payKey, writtenOff>>
    BY <1>2 DEF vars, settleVars
  <2>2. UNCHANGED <<table, session, openKey, rejected>>
    BY <1>2 DEF vars, tsVars
  <2>3. UNCHANGED <<sessOf, activeOrder, kot, cut, posKey, call>>
    BY <1>2 DEF vars, billVars
  <2>4. MoneyTypes'
    BY <2>1, MoneyTypesStep DEF settleVars, DineBase
  <2>5. SessionsInv'
    BY <2>2, TypeStep, LockStep, KeyStep DEF DineBase, SessionsInv, LockInv, tsVars
  <2>6. PlacedOrders' = PlacedOrders /\ \A o \in Orders : Placed(o)' <=> Placed(o)
    BY <2>1 DEF PlacedOrders, Placed
  <2>7. BillsNamed' /\ CallsTyped' /\ TicketsHeld'
    BY <2>3, <2>6 DEF DineBase, BillsNamed, CallsTyped, TicketsHeld, In
  <2>8. DineTypeOK'
    BY <2>3, <2>4, <2>5 DEF DineBase, DineTypeOK, MoneyTypes, SessionsInv
  <2> QED BY <2>4, <2>5, <2>7, <2>8 DEF DineBase
<1> QED BY <1>1, <1>2

(* What every handler in flight has read is of the type its next step needs,  *)
(* and the orders and tickets it names exist.                                 *)
THEOREM DineInvariant == DineSpec => []DineBase
BY InitDineBase, DineBaseStep, PTL DEF DineSpec

(* The documents and the handlers are well-typed, with any number of handlers *)
(* in flight, whichever of them crash.                                        *)
THEOREM DineTypes == DineSpec => []DineTypeOK
<1>1. DineBase => DineTypeOK
  BY DEF DineBase
<1> QED BY <1>1, DineInvariant, PTL

(* Whatever the handlers of bills do, the tables and sessions behave as their *)
(* services alone: no handler writes one except through their operations.     *)
THEOREM TablesUndisturbed == DineSpec => TSSpec
<1>1. DineInit => TSInit
  BY DEF DineInit
<1>2. DineBase /\ [DineNext]_vars => [TSNext]_tsVars
  BY TablesStep DEF vars
<1> QED BY <1>1, <1>2, DineInvariant, PTL DEF DineSpec, TSSpec

(* So a table never seats two parties, also while bills are written, settled  *)
(* and closed around it.                                                      *)
THEOREM OneSessionWithBills == DineSpec => []OneOpenSessionPerTable
BY TablesUndisturbed, OneOpenSession, PTL

-----------------------------------------------------------------------------
(* Who writes the status of a ticket, and which one it had.                   *)
StatusTo(k, st) == kot' = [kot EXCEPT ![k].status = st]

LEMMA KotWriters ==
  ASSUME DineBase, NEW c \in Calls, KotWrites(c)
  PROVE  \/ UNCHANGED kot
         \/ \E k \in Kots, st \in KotStatus :
              /\ StatusTo(k, st) /\ kot[k].status # "none" /\ KotMove(kot[k].status, st)
              /\ st # kot[k].status => kot[k].status \notin TerminalKot
         \/ \E t \in Kots : SendWrite(c, t)
<1> USE DEF KotStatus, OrderStatus
<1>1. /\ CallOK(call[c], PlacedOrders)
      /\ \A k \in Kots : kot[k].status \in KotStatus \union {"none"}
  BY DEF DineBase, DineTypeOK, CallsTyped, KotDoc
<1>2. ASSUME NEW from \in KotStatus \union {"none"}, NEW by
      PROVE  /\ MayWriteKot(by, from, "served") =>
                  from # "none" /\ KotMove(from, "served") /\ from # "cancelled"
             /\ MayCancelKot(by, from) =>
                  from # "none" /\ KotMove(from, "cancelled") /\ from # "served"
  BY DEF MayWriteKot, MayCancelKot, RulesMove, KotMove, NextKotStatus
<1>3. CASE CloseServe(c)
  <2>1. call[c].ks \subseteq Kots
    BY <1>1, <1>3 DEF CloseServe, In, CallOK, CloseOK
  <2> QED BY <1>1, <1>2, <1>3, <2>1 DEF CloseServe, StatusTo, TerminalKot
<1>4. CASE DropKot(c)
  <2>1. call[c].k \in Kots
    BY <1>1, <1>4 DEF DropKot, In, CallOK, SyncOK
  <2> QED BY <1>1, <1>2, <1>4, <2>1 DEF DropKot, StatusTo, TerminalKot
<1>5. CASE CancelNext(c)
  <2>1. call[c].ks \subseteq Kots
    BY <1>1, <1>5 DEF CancelNext, In, CallOK, CancelOK
  <2> QED BY <1>1, <1>2, <1>5, <2>1 DEF CancelNext, StatusTo, TerminalKot
<1>6. ASSUME NEW d \in Calls, NEW k \in Kots, NEW st \in KotStatus, NEW by \in Staff,
             TapKot(c, d, k, st, by)
      PROVE  /\ StatusTo(k, st) /\ kot[k].status # "none" /\ KotMove(kot[k].status, st)
             /\ st # kot[k].status => kot[k].status \notin TerminalKot
  <2>1. kot[k].status \in KotStatus
    BY <1>1, <1>6 DEF TapKot
  <2> QED BY <1>6, <2>1 DEF TapKot, StatusTo, KotMove, NextKotStatus, TerminalKot
<1> QED BY <1>3, <1>4, <1>5, <1>6 DEF KotWrites

(* Apart from the transaction of a partial cancellation.                      *)
LEMMA KotSteps ==
  ASSUME DineBase, DineNext, \A c \in Calls : ~PartTx(c), NEW k \in Kots, kot[k].status # "none"
  PROVE  /\ KotMove(kot[k].status, kot'[k].status)
         /\ kot[k].status \in TerminalKot => kot'[k] = kot[k]
<1>1. kot \in [Kots -> KotDoc]
  BY DEF DineBase, DineTypeOK
<1>2. CASE kot'[k] = kot[k]
  BY <1>2 DEF KotMove
<1>3. ASSUME NEW c \in Calls, KotWrites(c)
      PROVE  /\ KotMove(kot[k].status, kot'[k].status)
             /\ kot[k].status \in TerminalKot => kot'[k] = kot[k]
  <2>1. ASSUME NEW j \in Kots, NEW st \in KotStatus, StatusTo(j, st), j = k,
               KotMove(kot[k].status, st),
               st # kot[k].status => kot[k].status \notin TerminalKot
        PROVE  /\ KotMove(kot[k].status, kot'[k].status)
               /\ kot[k].status \in TerminalKot => kot'[k] = kot[k]
    <3>1. kot'[k] = [kot[k] EXCEPT !.status = st] /\ kot[k] \in KotDoc
      BY <1>1, <2>1 DEF StatusTo
    <3>2. st = kot[k].status => kot'[k] = kot[k]
      BY <3>1 DEF KotDoc
    <3>3. kot'[k].status = st
      BY <3>1 DEF KotDoc
    <3> QED BY <2>1, <3>2, <3>3
  <2>2. ASSUME NEW j \in Kots, NEW st \in KotStatus, StatusTo(j, st), j # k
        PROVE  kot'[k] = kot[k]
    BY <1>1, <2>2 DEF StatusTo
  <2>3. ASSUME NEW t \in Kots, SendWrite(c, t)
        PROVE  kot'[k] = kot[k]
    BY <1>1, <2>3 DEF SendWrite, FreeKot
  <2> QED BY <1>2, <1>3, <2>1, <2>2, <2>3, KotWriters
<1>4. ASSUME NEW c \in Calls, CommitBill(c)
      PROVE  kot'[k] = kot[k]
  <2>1. call[c].t # NoKot => call[c].t # k
    BY <1>4, DrawnFree DEF CommitBill
  <2>2. \/ kot' = kot
        \/ call[c].t # NoKot /\ kot' = [kot EXCEPT ![call[c].t] = Ticket(call[c])]
    BY <1>4 DEF CommitBill, billVars
  <2> QED BY <1>1, <2>1, <2>2
<1>5. ASSUME \/ Seat \/ Corrects
             \/ \E c \in Calls : \/ Asks(c) \/ Reads(c) \/ OrderWrites(c) \/ Pays(c)
                                 \/ ReplyBill(c) \/ CloseTx(c)
      PROVE  kot' = kot
  BY <1>5, ReadsOnly, OrdersOnly, TablesOnly DEF billVars, ReplyBill
<1> QED BY <1>2, <1>3, <1>4, <1>5, StepKinds

(* Every plain write of a finished ticket is refused by the rules, and the    *)
(* transactions look again.                                                   *)
LEMMA TerminalKotSame ==
  ASSUME DineBase, DineNext, NEW k \in Kots, kot[k].status \in TerminalKot
  PROVE  kot'[k] = kot[k]
<1>1. kot \in [Kots -> KotDoc] /\ kot[k].status # "none"
  BY DEF DineBase, DineTypeOK, TerminalKot
<1>2. ASSUME NEW c \in Calls, PartTx(c)
      PROVE  kot'[k] = kot[k]
  <2>1. CASE StillOpen(call[c]) /\ BillUnchanged(call[c])
    <3> DEFINE left == call[c].ticket.qty - call[c].n
               st   == IF left = 0 THEN "cancelled" ELSE call[c].ticket.status
    <3>1. call[c].k # k
      BY <2>1 DEF StillOpen
    <3>2. kot' = [kot EXCEPT ![call[c].k].qty = left, ![call[c].k].status = st]
      BY <1>2, <2>1 DEF PartTx
    <3> HIDE DEF left, st
    <3> QED BY <1>1, <3>1, <3>2
  <2>2. CASE ~(StillOpen(call[c]) /\ BillUnchanged(call[c]))
    BY <1>2, <2>2 DEF PartTx
  <2> QED BY <2>1, <2>2
<1> QED BY <1>1, <1>2, KotSteps

(* So no handler writes a ticket that was served or cancelled.                *)
THEOREM TerminalKotStays == DineSpec => TerminalKotIsFinal
<1>1. DineBase /\ [DineNext]_vars =>
        [\A k \in Kots : kot[k].status \in TerminalKot => kot'[k] = kot[k]]_vars
  BY TerminalKotSame
<1> QED BY <1>1, DineInvariant, PTL DEF DineSpec, TerminalKotIsFinal

(* Without partial cancellations no call stands at one of their awaits.       *)
NoPartials == \A c \in Calls : call[c].at \notin {"partOrder", "partTx"}

LEMMA NoPartialsStep ==
  ASSUME "partial" \notin Ops, DineBase, NoPartials, [DineNext]_vars
  PROVE  NoPartials'
<1>1. CASE UNCHANGED call
  BY <1>1 DEF NoPartials
<1>2. ASSUME NEW c \in Calls, Moved(c)
      PROVE  NoPartials'
  BY <1>2 DEF Moved, Plain, NoPartials
<1>3. ASSUME NEW c \in Calls, NEW n, Goto(c, n), n.at \notin {"partOrder", "partTx"}
      PROVE  NoPartials'
  BY <1>3 DEF Goto, NoPartials, DineBase, CallsTyped
<1>4. ASSUME NEW c \in Calls, Submits(c)
      PROVE  NoPartials'
  <2>1. ASSUME NEW s \in Sessions, NEW q \in 1..MaxQty, NEW k \in PosKeyOrNone,
               NEW cook \in Kitchens, StartSubmit(c, s, q, k, cook)
        PROVE  NoPartials'
    BY <1>3, <2>1 DEF StartSubmit
  <2>2. ASSUME NEW o \in Orders, NEW t \in Kots \union {NoKot}, ReadBill(c, o, t)
        PROVE  NoPartials'
    BY <1>3, <2>2 DEF ReadBill
  <2>3. CASE CommitBill(c)
    BY <1>3, <2>3 DEF CommitBill, Idle
  <2> QED BY <1>4, <2>1, <2>2, <2>3 DEF Submits
<1>5. ASSUME NEW c \in Calls
      PROVE  ~Partials(c)
  BY DEF Partials, StartPartial, Begin, May, PartOrder, NoPartials, In
<1>6. ASSUME NEW c \in Calls, Taps(c)
      PROVE  NoPartials'
  BY <1>6 DEF Taps, TapKot, Goto, Sync, Finalize, NoPartials, DineBase, CallsTyped
<1> QED BY <1>1, <1>2, <1>4, <1>5, <1>6, CallKinds DEF vars

(* Without them tickets follow the kitchen's lifecycle, whoever cancels bills *)
(* or closes tables around them and whatever crashes: only a partial          *)
(* cancellation writes a status it read before its transaction.               *)
THEOREM KotsFollowLifecycle ==
  ASSUME "partial" \notin Ops
  PROVE  DineSpec => KotLifecycle
<1>1. DineInit => NoPartials
  BY DEF DineInit, NoPartials, Idle
<1>2. DineBase /\ NoPartials /\ [DineNext]_vars => NoPartials'
  BY NoPartialsStep
<1>3. ASSUME DineBase, NoPartials, DineNext, NEW k \in Kots, kot[k].status # "none"
      PROVE  KotMove(kot[k].status, kot'[k].status)
  <2>1. \A c \in Calls : ~PartTx(c)
    BY <1>3 DEF PartTx, In, NoPartials
  <2> QED BY <1>3, <2>1, KotSteps
<1>4. DineBase /\ NoPartials /\ [DineNext]_vars =>
        [\A k \in Kots : kot[k].status # "none" =>
           KotMove(kot[k].status, kot'[k].status)]_vars
  BY <1>3
<1> QED BY <1>1, <1>2, <1>4, DineInvariant, PTL DEF DineSpec, KotLifecycle

-----------------------------------------------------------------------------
(* With Quiet a submission is the only call in flight, so the bill it carries *)
(* to its transaction is still the one its order would be extended to.        *)
SubmitLabels == {"lookup", "commit", "reply"}

Alone ==
  \A c, d \in Calls : call[c].at \in SubmitLabels /\ d # c => In(d, "idle")

NewDoc(b) ==
  [status |-> IF b.t = NoKot THEN "confirmed" ELSE "sentToKitchen", grand |-> b.q,
   paid |-> 0, due |-> b.q, payStatus |-> "unpaid"]

Carried(b) ==
  IF Placed(b.o) THEN /\ OrderOpen(b.o)
                      /\ b.bill = Extended(order[b.o], order[b.o].grand + b.q)
                 ELSE b.bill = NewDoc(b)

CarriedBills == \A c \in Calls : In(c, "commit") => Carried(call[c])

QuietInv == DineBase /\ Alone /\ CarriedBills

(* While a submission is in flight, only it moves, and tables.                *)
LEMMA OnlySubmission ==
  ASSUME Quiet, DineBase, Alone, DineNext, NEW c \in Calls, call[c].at \in SubmitLabels
  PROVE  \/ Seat \/ Crash(c) \/ CommitBill(c) \/ ReplyBill(c)
         \/ \E o \in Orders, t \in Kots \union {NoKot} : ReadBill(c, o, t)
<1>1. \A op : ~May(op)
  BY DEF May, Submitting, SubmitLabels
<1>2. \A d \in Calls : d # c => In(d, "idle")
  BY DEF Alone
<1>3. ASSUME NEW d \in Calls
      PROVE  ~Request(d)
  BY <1>1 DEF Request, StartSubmit, StartClose, TapKot, StartDropKot, StartPartial, StartComplete,
              StartSend, StartCancel, StartReopen, Pay, Begin
<1>4. ASSUME NEW d \in Calls, d # c
      PROVE  ~Work(d) /\ ~Crash(d)
  BY <1>2, <1>4
     DEF Work, CommitBill, ReplyBill, ReadBill, SyncRead, SyncKots, SyncWrite, FinRead, FinPay,
         FinKots, FinWrite, FinSession, FinOrders, FinTickets, CloseRead, CloseOrders, CloseNext,
         CloseComplete, CloseTickets, CloseServe, ClosePay, CloseTx, DropKot, PartOrder, PartTx,
         CompKots, CompPay, CompWrite, CancelKots, CancelNext, CancelWrite, SendKots, SendWrite,
         SendStatus, ReopenWrite, Crash, In
<1>5. ASSUME Work(c)
      PROVE  \/ CommitBill(c) \/ ReplyBill(c)
             \/ \E o \in Orders, t \in Kots \union {NoKot} : ReadBill(c, o, t)
  BY <1>5
     DEF Work, SubmitLabels, SyncRead, SyncKots, SyncWrite, FinRead, FinPay,
         FinKots, FinWrite, FinSession, FinOrders, FinTickets, CloseRead, CloseOrders, CloseNext,
         CloseComplete, CloseTickets, CloseServe, ClosePay, CloseTx, DropKot, PartOrder, PartTx,
         CompKots, CompPay, CompWrite, CancelKots, CancelNext, CancelWrite, SendKots, SendWrite,
         SendStatus, ReopenWrite, In
<1>6. \A p \in Payments : \A st : ~Refund(p) /\ ~Resolve(p, st)
  BY <1>1 DEF Refund, Resolve
<1> QED BY <1>3, <1>4, <1>5, <1>6 DEF DineNext

(* If none is in flight, one may begin beside nothing else.                   *)
LEMMA NoSubmission ==
  ASSUME Quiet, DineBase, DineNext, \A c \in Calls : call[c].at \notin SubmitLabels
  PROVE  \/ \A c \in Calls : call'[c].at \notin SubmitLabels
         \/ \E c \in Calls : /\ call'[c].at = "lookup"
                             /\ \A d \in Calls : d # c => call'[d].at = "idle"
                             /\ Submits(c)
<1>1. DOMAIN call = Calls
  BY DEF DineBase, CallsTyped
<1> DEFINE None == \A c \in Calls : call'[c].at \notin SubmitLabels
<1>2. ASSUME NEW c \in Calls, Moved(c)
      PROVE  None
  BY <1>2 DEF Moved, Plain, SubmitLabels
<1>3. ASSUME NEW c \in Calls, NEW n, Goto(c, n), n.at \notin SubmitLabels
      PROVE  None
  BY <1>1, <1>3 DEF Goto
<1>4. ASSUME NEW c \in Calls, NEW s \in Sessions, NEW q \in 1..MaxQty, NEW k \in PosKeyOrNone,
             NEW cook \in Kitchens, StartSubmit(c, s, q, k, cook)
      PROVE  /\ call'[c].at = "lookup" /\ Submits(c)
             /\ \A d \in Calls : d # c => call'[d].at = "idle"
  BY <1>1, <1>4 DEF StartSubmit, Goto, In, Submits
<1>5. ASSUME NEW c \in Calls, Partials(c)
      PROVE  None
  <2>1. ASSUME NEW k \in Kots, NEW n \in 1..MaxQty, StartPartial(c, k, n)
        PROVE  None
    BY <1>3, <2>1 DEF StartPartial, SubmitLabels
  <2>2. CASE PartOrder(c)
    BY <1>3, <2>2 DEF PartOrder, SubmitLabels, Idle
  <2> QED BY <1>5, <2>1, <2>2 DEF Partials
<1>6. ASSUME NEW c \in Calls, Taps(c)
      PROVE  None
  BY <1>1, <1>6 DEF Taps, TapKot, Goto, Sync, Finalize, SubmitLabels
<1>7. ASSUME NEW c \in Calls
      PROVE  /\ ~CommitBill(c)
             /\ \A o \in Orders, t \in Kots \union {NoKot} : ~ReadBill(c, o, t)
  BY DEF CommitBill, ReadBill, In, SubmitLabels
<1> QED BY <1>2, <1>4, <1>5, <1>6, <1>7, CallKinds DEF Submits

LEMMA AloneStep == ASSUME Quiet, DineBase, Alone, [DineNext]_vars PROVE Alone'
<1>1. DOMAIN call = Calls
  BY DEF DineBase, CallsTyped
<1>2. CASE UNCHANGED call
  BY <1>2 DEF Alone, In
<1>3. ASSUME NEW c \in Calls, call[c].at \in SubmitLabels, DineNext
      PROVE  Alone'
  <2>1. \A d \in Calls : d # c => In(d, "idle")
    BY <1>3 DEF Alone
  <2>2. UNCHANGED call \/ \E n : Goto(c, n)
    <3>1. CASE Seat \/ Crash(c) \/ ReplyBill(c)
      BY <3>1 DEF Seat, Crash, ReplyBill, End
    <3>2. CASE CommitBill(c)
      BY <3>2 DEF CommitBill
    <3>3. CASE \E o \in Orders, t \in Kots \union {NoKot} : ReadBill(c, o, t)
      BY <3>3 DEF ReadBill
    <3> QED BY <1>3, <3>1, <3>2, <3>3, OnlySubmission
  <2>3. \A d \in Calls : d # c => call'[d] = call[d]
    BY <1>1, <2>2 DEF Goto
  <2> QED BY <2>1, <2>3 DEF Alone, In, SubmitLabels
<1>4. CASE DineNext /\ \A c \in Calls : call[c].at \notin SubmitLabels
  BY <1>4, NoSubmission DEF Alone, In, SubmitLabels
<1> QED BY <1>2, <1>3, <1>4 DEF vars

LEMMA SameDoc ==
  ASSUME NEW a \in OrderDoc, NEW b \in OrderDoc, a.status = b.status, a.grand = b.grand,
         a.paid = b.paid, a.due = b.due, a.payStatus = b.payStatus
  PROVE  a = b
BY DEF OrderDoc

LEMMA SettledStatus ==
  ASSUME NEW ord \in OrderDoc, NEW paid
  PROVE  Settled(ord, paid).payStatus = PayStatusOf(Due(ord.grand, paid), paid)
BY DEF Settled, OrderDoc

(* The bill a submission computes from what it has read.                      *)
LEMMA ReadCarries ==
  ASSUME DineBase, NEW c \in Calls, NEW o \in Orders, NEW t \in Kots \union {NoKot},
         ReadBill(c, o, t)
  PROVE  Carried(call[c])'
<1> DEFINE b == call[c]
           live == BillsFound(b.s, b.active)
           Doc(st, g) == [status |-> st, grand |-> g, paid |-> 0, due |-> 0,
                          payStatus |-> "unpaid"]
<1>1. b \in [at : {"lookup"}, s : Sessions, q : 1..MaxQty, k : PosKeyOrNone, cook : BOOLEAN,
             active : PlacedOrders \union {NoOrder}]
  BY DEF ReadBill, In, DineBase, CallsTyped, CallOK, SubmitOK
<1>2. b.q \in Nat \ {0} /\ order' = order /\ call' = [call EXCEPT ![c] = call'[c]]
  BY <1>1, MaxQtyIsNatural DEF ReadBill, settleVars, Goto, DineBase, CallsTyped
<1>3. CASE live # {}
  <2> DEFINE bill == Settled(Doc(order[o].status, order[o].grand + b.q), order[o].paid)
  <2>1. /\ o \in live
        /\ call'[c] = [at |-> "commit", s |-> b.s, q |-> b.q, k |-> b.k, o |-> o, t |-> t,
                       bill |-> bill]
    BY <1>3 DEF ReadBill, Goto, DineBase, CallsTyped
  <2>2. o \in PlacedOrders /\ OrderOpen(o)
    BY <1>1, <2>1 DEF BillsFound, OrdersOf, DineBase, BillsNamed, PlacedOrders
  <2>3. order[o] \in OrderDoc
    BY <2>2, PlacedStatus DEF DineBase
  <2>4. bill = Extended(order[o], order[o].grand + b.q)
    <3> DEFINE doc == Doc(order[o].status, order[o].grand + b.q)
               ext == [order[o] EXCEPT !.grand = order[o].grand + b.q]
    <3>1. /\ doc \in OrderDoc /\ doc.status = order[o].status
          /\ doc.grand = order[o].grand + b.q
      BY <1>2, <2>3 DEF OrderDoc, PayStatus
    <3>2. /\ ext \in OrderDoc /\ ext.status = order[o].status /\ ext.paid = order[o].paid
          /\ ext.grand = order[o].grand + b.q /\ order[o].paid \in Nat
      BY <1>2, <2>3 DEF OrderDoc
    <3>3. Extended(order[o], order[o].grand + b.q) = Settled(ext, order[o].paid)
      BY DEF Extended
    <3> HIDE DEF doc, ext, Doc
    <3>4. bill = Settled(doc, order[o].paid)
      BY DEF doc
    <3> HIDE DEF bill
    <3> QED BY <3>1, <3>2, <3>3, <3>4, SettledDoc, SettledStatus, SameDoc
  <2>5. call'[c].o = o /\ call'[c].q = b.q /\ call'[c].bill = bill
    BY <2>1
  <2>6. Placed(o)' /\ OrderOpen(o)'
    BY <1>2, <2>2 DEF PlacedOrders, Placed, OrderOpen
  <2> HIDE DEF bill
  <2> QED BY <1>2, <2>4, <2>5, <2>6 DEF Carried, Placed, OrderOpen
<1>4. CASE live = {}
  <2> DEFINE st == IF b.cook THEN "sentToKitchen" ELSE "confirmed"
             bill == Settled(Doc(st, 0 + b.q), 0)
  <2>1. /\ ~Placed(o)
        /\ call'[c] = [at |-> "commit", s |-> b.s, q |-> b.q, k |-> b.k, o |-> o, t |-> t,
                       bill |-> bill]
    BY <1>4 DEF ReadBill, Goto, DineBase, CallsTyped
  <2>2. b.cook <=> t # NoKot
    BY <1>1, NoKotIsNoTicket DEF ReadBill, FreeKot
  <2>3. Due(0 + b.q, 0) = b.q /\ PayStatusOf(b.q, 0) = "unpaid"
    BY <1>2 DEF Due, PayStatusOf
  <2>4. bill = [status |-> st, grand |-> b.q, paid |-> 0, due |-> b.q, payStatus |-> "unpaid"]
    <3> DEFINE doc == Doc(st, 0 + b.q)
               new == [status |-> st, grand |-> b.q, paid |-> 0, due |-> b.q,
                       payStatus |-> "unpaid"]
    <3>1. doc \in OrderDoc /\ doc.status = st /\ doc.grand = 0 + b.q
      BY <1>2 DEF OrderDoc, PayStatus, OrderStatus
    <3>2. new \in OrderDoc
      BY <1>2 DEF OrderDoc, PayStatus, OrderStatus
    <3>3. /\ new.status = st /\ new.grand = b.q /\ new.paid = 0 /\ new.due = b.q
          /\ new.payStatus = "unpaid" /\ 0 + b.q = b.q
      BY <1>2
    <3> HIDE DEF doc, new, Doc, st
    <3>4. bill = Settled(doc, 0)
      BY DEF doc
    <3>5. bill = new
      <4> HIDE DEF bill
      <4> QED BY <2>3, <3>1, <3>2, <3>3, <3>4, SettledDoc, SettledStatus, SameDoc
    <3> QED BY <3>5 DEF new
  <2>5. call'[c].o = o /\ call'[c].q = b.q /\ call'[c].t = t /\ call'[c].bill = bill
    BY <2>1
  <2>6. ~Placed(o)'
    BY <1>2, <2>1 DEF Placed
  <2> HIDE DEF bill
  <2> QED BY <2>2, <2>4, <2>5, <2>6 DEF Carried, NewDoc
<1> QED BY <1>3, <1>4

LEMMA CarriedStep ==
  ASSUME Quiet, QuietInv, [DineNext]_vars
  PROVE  CarriedBills'
<1>1. DineBase /\ Alone /\ CarriedBills /\ DOMAIN call = Calls
  BY DEF QuietInv, DineBase, CallsTyped
<1>2. CASE UNCHANGED <<order, call>>
  BY <1>1, <1>2 DEF CarriedBills, Carried, Placed, OrderOpen, In
<1>3. ASSUME DineNext, \A c \in Calls : call[c].at \notin SubmitLabels
      PROVE  CarriedBills'
  BY <1>1, <1>3, NoSubmission DEF CarriedBills, In, SubmitLabels
<1>4. ASSUME DineNext, NEW c \in Calls, call[c].at \in SubmitLabels
      PROVE  CarriedBills'
  <2>1. \A d \in Calls : d # c => In(d, "idle")
    BY <1>1, <1>4 DEF Alone
  <2>2. ASSUME NEW n, Goto(c, n), n.at = "commit" => Carried(call[c])'
        PROVE  CarriedBills'
    <3>1. call'[c] = n /\ \A d \in Calls : d # c => call'[d] = call[d]
      BY <1>1, <2>2 DEF Goto
    <3> QED BY <2>1, <2>2, <3>1 DEF CarriedBills, In
  <2>3. CASE Seat
    BY <1>2, <2>3 DEF Seat, settleVars
  <2>4. CASE Crash(c) \/ ReplyBill(c)
    BY <2>2, <2>4 DEF Crash, ReplyBill, End, Idle
  <2>5. CASE CommitBill(c)
    BY <2>2, <2>5 DEF CommitBill, Idle
  <2>6. ASSUME NEW o \in Orders, NEW t \in Kots \union {NoKot}, ReadBill(c, o, t)
        PROVE  CarriedBills'
    <3>1. PICK n : Goto(c, n)
      BY <2>6 DEF ReadBill
    <3>2. Carried(call[c])'
      BY <1>1, <2>6, ReadCarries
    <3> QED BY <2>2, <3>1, <3>2
  <2> QED BY <1>1, <1>4, <2>3, <2>4, <2>5, <2>6, OnlySubmission
<1> QED BY <1>2, <1>3, <1>4 DEF vars, settleVars

(* The write of such a submission places or extends an order.                 *)
LEMMA CommitSettles ==
  ASSUME QuietInv, NEW c \in Calls, CommitBill(c)
  PROVE  [SettleNext]_settleVars
<1> DEFINE b == call[c]
           g == order[b.o].grand + b.q
<1>1. DineBase /\ Carried(b)
  BY DEF QuietInv, CarriedBills, CommitBill
<1>2. /\ b.q \in Nat \ {0} /\ b.o \in Orders /\ b.bill \in OrderDoc /\ b.bill.grand \in Money
      /\ order \in [Orders -> OrderDoc]
  BY <1>1, CommitDoc, MaxQtyIsNatural DEF DineBase, MoneyTypes, SettleTypeOK
<1>3. CASE ~KeyAllowsCommit(b.k)
  BY <1>3 DEF CommitBill, settleVars
<1>4. CASE KeyAllowsCommit(b.k)
  <2>1. /\ order' = [order EXCEPT ![b.o] = b.bill]
        /\ UNCHANGED <<payment, payKey, writtenOff>>
    BY <1>4 DEF CommitBill
  <2>2. CASE Placed(b.o)
    <3>1. b.bill = Extended(order[b.o], g) /\ order[b.o].status \notin TerminalOrder
      BY <1>1, <2>2 DEF Carried, OrderOpen
    <3>2. g \in Money /\ g >= order[b.o].grand
      <4> DEFINE ext == [order[b.o] EXCEPT !.grand = g]
      <4>1. ext \in OrderDoc /\ ext.grand = g /\ order[b.o].paid \in Nat
        BY <1>2 DEF OrderDoc
      <4>2. b.bill = Settled(ext, order[b.o].paid)
        BY <3>1 DEF Extended
      <4>3. b.bill.grand = g
        <5> HIDE DEF ext, g
        <5> QED BY <4>1, <4>2, SettledDoc
      <4> QED BY <1>2, <4>3 DEF OrderDoc
    <3>3. ExtendOrder(b.o, g)
      BY <1>2, <2>1, <2>2, <3>1, <3>2 DEF ExtendOrder
    <3> HIDE DEF g
    <3> QED BY <1>2, <3>2, <3>3 DEF SettleNext
  <2>3. CASE ~Placed(b.o)
    <3> DEFINE st == IF b.t = NoKot THEN "confirmed" ELSE "sentToKitchen"
    <3>1. b.bill = [status |-> st, grand |-> b.q, paid |-> 0, due |-> b.q,
                    payStatus |-> "unpaid"]
      BY <1>1, <2>3 DEF Carried, NewDoc
    <3>2. PayStatusOf(b.q, 0) = "unpaid"
      BY <1>2 DEF PayStatusOf
    <3>3. b.q \in Money
      BY <1>2, <3>1
    <3>4. PlaceOrder(b.o, b.q, st)
      BY <2>1, <2>3, <3>1, <3>2 DEF PlaceOrder
    <3>5. st \in OrderStatus
      BY DEF OrderStatus
    <3> HIDE DEF st
    <3> QED BY <1>2, <3>3, <3>4, <3>5 DEF SettleNext
  <2> QED BY <2>2, <2>3
<1> QED BY <1>3, <1>4

THEOREM QuietInvariant == ASSUME Quiet PROVE DineSpec => []QuietInv
<1>1. DineInit => QuietInv
  BY InitDineBase DEF DineInit, QuietInv, Alone, CarriedBills, In, Idle, SubmitLabels
<1>2. QuietInv /\ [DineNext]_vars => QuietInv'
  BY DineBaseStep, AloneStep, CarriedStep DEF QuietInv
<1> QED BY <1>1, <1>2, PTL DEF DineSpec

(* When nothing else runs beside a submission, the handlers of a bill, however *)
(* their steps interleave, change its amounts as Settlement says.             *)
THEOREM BillsAreLedgers == ASSUME Quiet PROVE DineSpec => BillsKeepLedger
<1>1. DineInit => SettleInit
  BY DEF DineInit
<1>2. QuietInv /\ [DineNext]_vars => [SettleNext]_settleVars
  <2>1. ASSUME QuietInv, DineNext
        PROVE  [SettleNext]_settleVars
    BY <2>1, MoneyStep, ChangesSettle, CommitSettles DEF QuietInv
  <2> QED BY <2>1 DEF vars, settleVars
<1> QED BY <1>1, <1>2, QuietInvariant, PTL DEF DineSpec, SettleSpec, BillsKeepLedger

(* So the amount an order says was paid is the sum of its completed payments, *)
(* with any number of handlers in flight; without Quiet it is not.            *)
THEOREM LedgerWithHandlers ==
  ASSUME Quiet, ~RepeatRefunds
  PROVE  DineSpec => []LedgerBalanced
BY BillsAreLedgers, LedgerIsBalanced, PTL DEF BillsKeepLedger

(* ... and no order is overpaid, also when items are cancelled while it is    *)
(* being paid.                                                                *)
THEOREM NoOverpaymentWithHandlers ==
  ASSUME Quiet, ~RepeatRefunds, ~LaterDiscounts
  PROVE  DineSpec => []NeverOverpaid
BY BillsAreLedgers, NoOverpayment, PTL DEF BillsKeepLedger

-----------------------------------------------------------------------------
(* A key that reached the kitchen is completed, or its submission is about to *)
(* say so.                                                                    *)
Answered(k) == posKey[k] = "completed" \/ \E c \in Calls : In(c, "reply") /\ call[c].k = k

KeyInv ==
  /\ \A k \in Kots : kot[k].status = "none" => kot[k].key = NoPosKey
  /\ \A k \in Kots : kot[k].key \in PosKeys => Answered(kot[k].key)
  /\ KeySubmitsOnce

(* Only a submission gives a ticket a key.                                    *)
LEMMA KeysStay ==
  ASSUME DineBase, DineNext, KeyInv, \A c \in Calls : ~CommitBill(c)
  PROVE  \A k \in Kots : /\ kot'[k].key = kot[k].key
                         /\ kot'[k].status = "none" => kot[k].status = "none"
<1>1. /\ kot \in [Kots -> KotDoc]
      /\ \A k \in Kots : kot[k].status # "none" =>
           kot'[k].status # "none" /\ kot'[k].key = kot[k].key
  BY BillsStep DEF DineBase, DineTypeOK, KotsStay
<1>2. ASSUME NEW k \in Kots, kot[k].status = "none"
      PROVE  kot'[k].key = kot[k].key
  <2>1. ASSUME NEW c \in Calls, KotWrites(c)
        PROVE  kot'[k].key = kot[k].key
    <3>1. ASSUME NEW t \in Kots, SendWrite(c, t)
          PROVE  kot'[k].key = kot[k].key
      BY <1>1, <1>2, <3>1 DEF SendWrite, KeyInv
    <3>2. ASSUME NEW j \in Kots, NEW st, kot' = [kot EXCEPT ![j].status = st]
          PROVE  kot'[k].key = kot[k].key
      BY <1>1, <3>2 DEF KotDoc
    <3> QED BY <2>1, <3>1, <3>2, KotWriters DEF StatusTo
  <2>2. ASSUME NEW c \in Calls, PartTx(c)
        PROVE  kot'[k] = kot[k]
    <3>1. call[c].k # k
      BY <1>2, <2>2 DEF PartTx, In, DineBase, TicketsHeld
    <3>2. \/ kot' = kot
          \/ \E left, st : kot' = [kot EXCEPT ![call[c].k].qty = left, ![call[c].k].status = st]
      BY <2>2 DEF PartTx
    <3> QED BY <1>1, <3>1, <3>2
  <2>3. ASSUME \/ Seat \/ Corrects
               \/ \E c \in Calls : \/ Asks(c) \/ Reads(c) \/ OrderWrites(c) \/ Pays(c)
                                   \/ ReplyBill(c) \/ CloseTx(c)
        PROVE  kot' = kot
    BY <2>3, ReadsOnly, OrdersOnly, TablesOnly DEF billVars, ReplyBill
  <2> QED BY <2>1, <2>2, <2>3, StepKinds
<1> QED BY <1>1, <1>2

LEMMA PosKeyStays ==
  ASSUME DineBase, DineNext, \A c \in Calls : ~CommitBill(c) /\ ~ReplyBill(c)
  PROVE  posKey' = posKey
<1>1. ASSUME NEW c \in Calls, PartTx(c) \/ KotWrites(c)
      PROVE  posKey' = posKey
  BY <1>1, KotsOnly DEF PartTx
<1> QED BY <1>1, StepKinds, ReadsOnly, OrdersOnly, TablesOnly DEF billVars

LEMMA KeyInvStep ==
  ASSUME Quiet, ~Crashes, QuietInv, KeyInv, [DineNext]_vars
  PROVE  KeyInv'
<1>1. /\ DineBase /\ Alone /\ DOMAIN call = Calls /\ kot \in [Kots -> KotDoc]
      /\ posKey \in [PosKeys -> {"none", "pending", "completed"}]
  BY DEF QuietInv, DineBase, DineTypeOK, CallsTyped
<1>2. ASSUME UNCHANGED kot, \A k \in PosKeys : Answered(k) => Answered(k)'
      PROVE  KeyInv'
  BY <1>1, <1>2 DEF KeyInv, KeySubmitsOnce
<1>3. ASSUME NEW c \in Calls, CommitBill(c)
      PROVE  KeyInv'
  <2> DEFINE b == call[c]
  <2>1. /\ b.k \in PosKeyOrNone /\ In(c, "commit") /\ b.t \in Kots \union {NoKot}
        /\ \A d \in Calls : ~In(d, "reply")
    BY <1>1, <1>3, CommitDoc DEF CommitBill, Alone, In, SubmitLabels
  <2>2. \A k : Answered(k) => posKey[k] = "completed"
    BY <2>1 DEF Answered
  <2>3. ASSUME NEW k \in PosKeys, k = b.k
        PROVE  Answered(k)'
    <3>1. b.k # NoPosKey
      BY <2>3, NoPosKeyIsFresh
    <3>2. call'[c] = [at |-> "reply", k |-> b.k]
      BY <1>1, <1>3, <3>1 DEF CommitBill, Goto
    <3> QED BY <2>3, <3>2 DEF Answered, In
  <2>4. CASE KeyAllowsCommit(b.k)
    <3>1. /\ kot' = IF b.t = NoKot THEN kot ELSE [kot EXCEPT ![b.t] = Ticket(b)]
          /\ posKey' = IF b.k = NoPosKey THEN posKey ELSE [posKey EXCEPT ![b.k] = "pending"]
      BY <1>3, <2>4 DEF CommitBill
    <3>2. \A k \in PosKeys : Answered(k) => Answered(k)'
      <4>1. \A k \in PosKeys : k # b.k /\ posKey[k] = "completed" => posKey'[k] = "completed"
        BY <1>1, <2>1, <3>1
      <4>2. ASSUME NEW k \in PosKeys, Answered(k), k # b.k
            PROVE  Answered(k)'
        <5>1. posKey'[k] = "completed"
          BY <2>2, <4>1, <4>2
        <5> QED BY <5>1 DEF Answered
      <4> QED BY <2>3, <4>2
    <3>3. \A k \in Kots : kot[k].key \in PosKeys => kot[k].key # b.k
      <4>1. b.k # NoPosKey => posKey[b.k] # "completed"
        BY <2>4 DEF KeyAllowsCommit
      <4> QED BY <2>2, <4>1, NoPosKeyIsFresh DEF KeyInv
    <3>4. CASE b.t = NoKot
      BY <1>2, <3>1, <3>2, <3>4
    <3>5. CASE b.t # NoKot
      <4>1. Ticket(b).key = b.k /\ Ticket(b).status # "none"
        BY DEF Ticket
      <4>2. /\ b.t \in Kots /\ kot'[b.t] = Ticket(b)
            /\ \A k \in Kots \ {b.t} : kot'[k] = kot[k]
        BY <1>1, <2>1, <3>1, <3>5
      <4>3. \A k \in Kots : kot'[k].status = "none" => k # b.t /\ kot[k].status = "none"
        BY <4>1, <4>2
      <4>4. \A k \in Kots : kot'[k].status = "none" => kot'[k].key = NoPosKey
        BY <4>2, <4>3 DEF KeyInv
      <4>5. \A k \in Kots : kot'[k].key = IF k = b.t THEN b.k ELSE kot[k].key
        BY <4>1, <4>2
      <4>6. ASSUME NEW k \in Kots, NEW q \in PosKeys, kot'[k].key = q
            PROVE  Answered(q)'
        <5>1. CASE k = b.t
          BY <2>3, <4>5, <4>6, <5>1
        <5>2. CASE k # b.t
          BY <3>2, <4>5, <4>6, <5>2 DEF KeyInv
        <5> QED BY <5>1, <5>2
      <4>7. KeySubmitsOnce'
        BY <3>3, <4>5 DEF KeyInv, KeySubmitsOnce
      <4> QED BY <4>4, <4>6, <4>7 DEF KeyInv
    <3> QED BY <3>4, <3>5
  <2>5. CASE ~KeyAllowsCommit(b.k)
    <3>1. UNCHANGED <<kot, posKey>>
      BY <1>3, <2>5 DEF CommitBill, billVars
    <3> QED BY <1>2, <2>2, <3>1 DEF Answered
  <2> QED BY <2>4, <2>5
<1>4. ASSUME NEW c \in Calls, ReplyBill(c)
      PROVE  KeyInv'
  <2>1. call[c].k \in PosKeys /\ kot' = kot /\ posKey' = [posKey EXCEPT ![call[c].k] = "completed"]
    BY <1>1, <1>4 DEF ReplyBill, In, DineBase, CallsTyped, CallOK, SubmitOK
  <2>2. \A d \in Calls : In(d, "reply") => d = c
    BY <1>1, <1>4 DEF ReplyBill, Alone, In, SubmitLabels
  <2> QED BY <1>1, <1>2, <2>1, <2>2 DEF Answered
<1>5. ASSUME DineNext, \A c \in Calls : ~CommitBill(c) /\ ~ReplyBill(c)
      PROVE  KeyInv'
  <2>1. posKey' = posKey
    BY <1>1, <1>5, PosKeyStays
  <2>2. \A k \in Kots : /\ kot'[k].key = kot[k].key
                        /\ kot'[k].status = "none" => kot[k].status = "none"
    BY <1>1, <1>5, KeysStay
  <2>3. ASSUME NEW c \in Calls, In(c, "reply")
        PROVE  call'[c] = call[c]
    <3>1. ASSUME NEW o \in Orders, NEW t \in Kots \union {NoKot}, ReadBill(c, o, t)
          PROVE  FALSE
      BY <2>3, <3>1 DEF ReadBill, In
    <3>2. Seat
      BY <1>1, <1>5, <2>3, <3>1, OnlySubmission DEF In, SubmitLabels, Crash
    <3> QED BY <3>2 DEF Seat
  <2>4. \A k : Answered(k) => Answered(k)'
    BY <2>1, <2>3 DEF Answered, In
  <2> QED BY <2>2, <2>4 DEF KeyInv, KeySubmitsOnce
<1>6. CASE UNCHANGED vars
  BY <1>2, <1>6 DEF vars, billVars, Answered, In
<1> QED BY <1>3, <1>4, <1>5, <1>6

(* A clientRequestId reaches the kitchen at most once, however often it is    *)
(* sent, if submissions run alone and none stops between its transaction and  *)
(* the completion of its record.                                              *)
THEOREM KeyReachesKitchenOnce ==
  ASSUME Quiet, ~Crashes
  PROVE  DineSpec => []KeySubmitsOnce
<1>1. DineInit => KeyInv
  BY NoPosKeyIsFresh DEF DineInit, KeyInv, KeySubmitsOnce
<1>2. QuietInv /\ KeyInv /\ [DineNext]_vars => KeyInv'
  BY KeyInvStep
<1>3. KeyInv => KeySubmitsOnce
  BY DEF KeyInv
<1> QED BY <1>1, <1>2, <1>3, QuietInvariant, PTL DEF DineSpec

-----------------------------------------------------------------------------
(* The items on the tickets of an order, one element for each; the tickets    *)
(* are a parameter, so that the lemmas serve both states of a step.           *)
Items(d, o) == UNION {{k} \X (1..d[k].qty) : k \in {j \in Kots : d[j].order = o}}

LEMMA ItemsMembers ==
  \A d, o, x : x \in Items(d, o) <=>
     \E k \in Kots : d[k].order = o /\ \E i \in 1..d[k].qty : x = <<k, i>>
BY DEF Items

LEMMA ItemsSame ==
  ASSUME NEW d, NEW e, NEW o,
         \A k \in Kots : e[k].qty = d[k].qty /\ (e[k].order = d[k].order \/ d[k].qty = 0)
  PROVE  Items(e, o) = Items(d, o)
<1>1. \A k \in Kots : d[k].qty = 0 => 1..d[k].qty = {}
  OBVIOUS
<1>2. \A x : x \in Items(e, o) <=> x \in Items(d, o)
  BY <1>1, ItemsMembers
<1> QED BY <1>2

(* One ticket is written: the items of its order change by as many as its own.*)
LEMMA ItemsChange ==
  ASSUME NEW d, NEW e, NEW k \in Kots, NEW o, e[k].order = o,
         NEW m \in Nat, d[k].qty = m, NEW n \in Nat, e[k].qty = n,
         d[k].order = o \/ m = 0,
         \A j \in Kots \ {k} : e[j].qty = d[j].qty /\ e[j].order = d[j].order
  PROVE  /\ IsFiniteSet(Items(d, o)) =>
              /\ IsFiniteSet(Items(e, o))
              /\ Cardinality(Items(e, o)) = (Cardinality(Items(d, o)) - m) + n
         /\ \A r : r # o => Items(e, r) = Items(d, r)
<1> DEFINE U == {k} \X (1..m)
           V == {k} \X (1..n)
           Rest == Items(d, o) \ U
<1>1. /\ \A x : x \in U <=> \E i \in 1..m : x = <<k, i>>
      /\ \A x : x \in V <=> \E i \in 1..n : x = <<k, i>>
  OBVIOUS
<1>2. m = 0 => 1..m = {}
  OBVIOUS
<1>3. ASSUME NEW r, r # o
      PROVE  Items(e, r) = Items(d, r)
  <2>1. \A x : x \in Items(e, r) <=> x \in Items(d, r)
    BY <1>2, <1>3, ItemsMembers
  <2> QED BY <2>1
<1>4. ASSUME IsFiniteSet(Items(d, o))
      PROVE  /\ IsFiniteSet(Items(e, o))
             /\ Cardinality(Items(e, o)) = (Cardinality(Items(d, o)) - m) + n
  <2>1. U \subseteq Items(d, o)
    BY <1>1, <1>2, ItemsMembers
  <2>2. Items(e, o) = Rest \union V
    <3>1. \A x : x \in Items(e, o) <=> (x \in Items(d, o) /\ x \notin U) \/ x \in V
      BY <1>1, ItemsMembers
    <3> QED BY <3>1
  <2>3. Rest \cap V = {}
    <3>1. ASSUME NEW x, x \in Rest, x \in V
          PROVE  FALSE
      BY <1>1, <3>1, ItemsMembers
    <3> QED BY <3>1
  <2>4. /\ IsFiniteSet(U) /\ Cardinality(U) = m
        /\ IsFiniteSet(V) /\ Cardinality(V) = n
    BY UnitsOf
  <2>5. Items(d, o) \cap U = U
    BY <2>1
  <2>6. IsFiniteSet(Rest) /\ Cardinality(Rest) = Cardinality(Items(d, o)) - m
    <3>1. /\ IsFiniteSet(Rest)
          /\ Cardinality(Rest) = Cardinality(Items(d, o)) - Cardinality(Items(d, o) \cap U)
      BY <1>4, FS_Difference
    <3> HIDE DEF U, Rest
    <3> QED BY <2>4, <2>5, <3>1
  <2>7. /\ IsFiniteSet(Rest \union V)
        /\ Cardinality(Rest \union V) =
             Cardinality(Rest) + Cardinality(V) - Cardinality(Rest \cap V)
    BY <2>4, <2>6, FS_Union
  <2>8. Cardinality(Rest \cap V) = 0
    BY <2>3, FS_EmptySet
  <2>9. Cardinality(Items(d, o)) \in Nat
    BY <1>4, FS_CardinalityType
  <2> HIDE DEF U, V, Rest
  <2> QED BY <2>2, <2>4, <2>6, <2>7, <2>8, <2>9
<1> QED BY <1>3, <1>4

-----------------------------------------------------------------------------
TicketsCounted ==
  \A o \in Orders : IsFiniteSet(Items(kot, o)) /\ order[o].grand = Cardinality(Items(kot, o))

(* A ticket that was not cancelled lists an item; one not printed yet lists    *)
(* none and belongs to no order.                                              *)
KotsCarry ==
  \A k \in Kots : /\ kot[k].status = "none" => kot[k].qty = 0 /\ kot[k].order = NoOrder
                  /\ kot[k].status \notin {"none", "cancelled"} => kot[k].qty > 0

(* The one partial cancellation in flight knows how many its ticket lists.    *)
Partial(c) == call[c].at \in {"partOrder", "partTx"}

PartialsHeld ==
  \A c \in Calls : Partial(c) =>
     /\ kot[call[c].k].qty = call[c].ticket.qty
     /\ \A d \in Calls : Partial(d) => d = c

(* Every submission prints a ticket, and no bill is sent to the kitchen again.*)
Cooked ==
  \A c \in Calls : /\ In(c, "lookup") => call[c].cook
                   /\ In(c, "commit") => call[c].t # NoKot
                   /\ call[c].at \notin {"sendKots", "sendWrite"}

TicketsInv == TicketsCounted /\ KotsCarry /\ PartialsHeld /\ Cooked

(* What a step does to the tickets, but for a submission, the transaction of a *)
(* partial cancellation and a bill sent again.                                *)
LEMMA KotsWritten ==
  ASSUME DineBase, DineNext, \A c \in Calls : ~CommitBill(c) /\ ~PartTx(c),
         \A c \in Calls : \A t \in Kots : ~SendWrite(c, t)
  PROVE  \/ kot' = kot
         \/ \E k \in Kots, st \in KotStatus :
              /\ StatusTo(k, st) /\ kot[k].status # "none"
              /\ kot[k].status = "cancelled" => st = "cancelled"
<1>1. ASSUME NEW c \in Calls, KotWrites(c)
      PROVE  \/ kot' = kot
             \/ \E k \in Kots, st \in KotStatus :
                  StatusTo(k, st) /\ kot[k].status # "none" /\ KotMove(kot[k].status, st)
  BY <1>1, KotWriters
<1>2. \A st : KotMove("cancelled", st) => st = "cancelled"
  BY DEF KotMove, NextKotStatus, KotStatus, OrderStatus
<1>3. ASSUME \/ Seat \/ Corrects
             \/ \E c \in Calls : \/ Asks(c) \/ Reads(c) \/ OrderWrites(c) \/ Pays(c)
                                 \/ ReplyBill(c) \/ CloseTx(c)
      PROVE  kot' = kot
  BY <1>3, ReadsOnly, OrdersOnly, TablesOnly DEF billVars, ReplyBill
<1> QED BY <1>1, <1>2, <1>3, StepKinds

(* ... and the totals stay.                                                   *)
LEMMA GrandsStay ==
  ASSUME DineBase, DineNext, \A c \in Calls : ~CommitBill(c) /\ ~PartTx(c)
  PROVE  \A o \in Orders : order'[o].grand = order[o].grand
<1>1. order \in [Orders -> OrderDoc] /\ \A c \in Calls : CallOK(call[c], PlacedOrders)
  BY DEF DineBase, MoneyTypes, SettleTypeOK, CallsTyped
<1>2. ASSUME NEW o, NEW doc, doc.grand = order[o].grand, order' = [order EXCEPT ![o] = doc]
      PROVE  \A q \in Orders : order'[q].grand = order[q].grand
  BY <1>1, <1>2
<1>3. \A q \in Orders : /\ \A st : [order[q] EXCEPT !.status = st].grand = order[q].grand
                        /\ Cancelled(order[q]).grand = order[q].grand
                        /\ Completed(order[q]).grand = order[q].grand
                         /\ \A n : Settled(order[q], n).grand = order[q].grand
  BY <1>1 DEF OrderDoc, Cancelled, Completed, Settled
<1>4. ASSUME NEW o \in Orders, \/ \E st : StatusWrite(o, st)
                               \/ CompleteOrderWrite(o) \/ CancelOrderWrite(o)
      PROVE  \A q \in Orders : order'[q].grand = order[q].grand
  <2>1. ASSUME NEW st, StatusWrite(o, st)
        PROVE  \A q \in Orders : order'[q].grand = order[q].grand
    BY <1>1, <2>1 DEF StatusWrite, OrderDoc
  <2>2. CASE CompleteOrderWrite(o)
    BY <1>1, <1>3, <2>2 DEF CompleteOrderWrite
  <2>3. CASE CancelOrderWrite(o)
    BY <1>1, <1>3, <2>3 DEF CancelOrderWrite
  <2> QED BY <1>4, <2>1, <2>2, <2>3
<1>5. ASSUME NEW c \in Calls, OrderWrites(c)
      PROVE  \A q \in Orders : order'[q].grand = order[q].grand
  <2>1. CASE SyncWrite(c)
    <3>1. call[c].o \in Orders
      BY <1>1, <2>1 DEF SyncWrite, In, CallOK, SyncOK, PlacedOrders
    <3> QED BY <1>4, <2>1, <3>1 DEF SyncWrite, settleVars
  <2>2. CASE FinWrite(c) \/ CompWrite(c) \/ SendStatus(c) \/ ReopenWrite(c)
    <3>1. call[c].o \in Orders
      BY <1>1, <2>2 DEF FinWrite, CompWrite, SendStatus, ReopenWrite, In, CallOK, FinOK,
                        OrderLabels, PlacedOrders
    <3> QED BY <1>4, <2>2, <3>1 DEF FinWrite, CompWrite, SendStatus, ReopenWrite
  <2>3. CASE CloseComplete(c)
    <3>1. call[c].x.o \in Orders
      BY <1>1, <2>3 DEF CloseComplete, In, CallOK, CloseOK, OnOrderCall, SeenOrder, PlacedOrders
    <3> QED BY <1>4, <2>3, <3>1 DEF CloseComplete, settleVars
  <2>4. CASE CancelWrite(c)
    <3>1. call[c].o \in Orders
      BY <1>1, <2>4 DEF CancelWrite, In, CallOK, CancelOK, PlacedOrders
    <3> QED BY <1>4, <2>4, <3>1 DEF CancelWrite, settleVars
  <2> QED BY <1>5, <2>1, <2>2, <2>3, <2>4 DEF OrderWrites
<1>6. ASSUME NEW o, NEW n, o \in Orders, order' = [order EXCEPT ![o] = Settled(order[o], n)]
      PROVE  \A q \in Orders : order'[q].grand = order[q].grand
  <2>1. Settled(order[o], n).grand = order[o].grand
    BY <1>3, <1>6
  <2> QED BY <1>1, <1>6, <2>1
<1>7. ASSUME NEW c \in Calls, Pays(c)
      PROVE  \A q \in Orders : order'[q].grand = order[q].grand
  <2>1. PICK o \in Orders, a \in 1..MaxTotal, st \in {"completed", "pending"},
             k \in PayKeys \union {NoPayKey}, p \in Payments : RecordPayment(o, a, st, k, p)
    BY <1>7 DEF Pays, Pay
  <2>2. \E n : order' = [order EXCEPT ![o] = Settled(order[o], n)]
    BY <2>1 DEF RecordPayment
  <2> QED BY <1>6, <2>2
<1>8. CASE Corrects
  <2>1. \A p \in Payments : payment[p].status # "none" => payment[p].order \in Orders
    BY DEF DineBase, MoneyTypes, PaymentsNamed
  <2> QED BY <1>6, <1>8, <2>1 DEF Corrects, Refund, Resolve, RefundPayment, UpdatePaymentStatus
<1>9. ASSUME \/ Seat
             \/ \E c \in Calls : \/ Asks(c) \/ Reads(c) \/ KotWrites(c)
                                 \/ ReplyBill(c) \/ CloseTx(c)
      PROVE  order' = order
  BY <1>9, ReadsOnly, KotsOnly, TablesOnly DEF settleVars, ReplyBill
<1> QED BY <1>5, <1>7, <1>8, <1>9, StepKinds

-----------------------------------------------------------------------------
(* The awaits of the corrections: a bill sent to the kitchen again, an order  *)
(* cancelled or reopened; and the steps that lead there.                      *)
LabelsOf(op) ==
  CASE op = "send"   -> {"sendKots", "sendWrite", "sendStatus"}
    [] op = "cancel" -> {"cancelKots", "cancelNext", "cancelWrite"}
    [] op = "reopen" -> {"reopen"}

Corrections == {"send", "cancel", "reopen"}

CorrectionLabels == UNION {LabelsOf(op) : op \in Corrections}

NoCorrection(op) == \A c \in Calls : call[c].at \notin LabelsOf(op)

CorrectionMoves(c) ==
  \/ \E o \in Orders : StartSend(c, o)
  \/ SendKots(c)
  \/ \E t \in Kots : SendWrite(c, t)
  \/ \E o \in Orders, by \in Staff : StartCancel(c, o, by) \/ StartReopen(c, o, by)
  \/ CancelKots(c) \/ CancelNext(c)

LEMMA CorrectionArrivals ==
  ASSUME DineBase, DineNext, NEW d \in Calls, call'[d].at \in CorrectionLabels
  PROVE  call'[d] = call[d] \/ CorrectionMoves(d)
<1> DEFINE Goal == call'[d] = call[d] \/ CorrectionMoves(d)
           Ordinary(n) == n.at \notin CorrectionLabels
<1>1. DOMAIN call = Calls /\ \A c \in Calls : CallOK(call[c], PlacedOrders)
  BY DEF DineBase, CallsTyped
<1>2. CorrectionLabels = {"sendKots", "sendWrite", "sendStatus", "cancelKots", "cancelNext",
                          "cancelWrite", "reopen"}
  BY DEF CorrectionLabels, LabelsOf, Corrections
<1>3. ASSUME NEW c \in Calls, NEW n, Goto(c, n), Ordinary(n)
      PROVE  Goal
  BY <1>1, <1>3 DEF Goto
<1>4. ASSUME NEW c \in Calls, CorrectionMoves(c)
      PROVE  Goal
  <2>1. \E n : Goto(c, n)
    BY <1>4 DEF CorrectionMoves, StartSend, SendKots, SendWrite, StartCancel, StartReopen,
                CancelKots, CancelNext, End
  <2> QED BY <1>1, <1>4, <2>1 DEF Goto
<1>5. Ordinary(Idle) /\ \A n \in FinCall(PlacedOrders) : Ordinary(n)
  BY <1>2 DEF Idle, FinCall
<1>6. ASSUME NEW c \in Calls, Asks(c)
      PROVE  Goal
  <2>1. ASSUME NEW s \in Sessions, NEW q \in 1..MaxQty, NEW k \in PosKeyOrNone,
               NEW cook \in Kitchens, StartSubmit(c, s, q, k, cook)
        PROVE  Goal
    BY <1>2, <1>3, <2>1 DEF StartSubmit
  <2>2. ASSUME NEW s \in Sessions, NEW by \in Staff, NEW auto \in BOOLEAN,
               StartClose(c, s, by, auto)
        PROVE  Goal
    BY <1>2, <1>3, <2>2 DEF StartClose, Close
  <2>3. ASSUME NEW k \in Kots, NEW by \in Staff, StartDropKot(c, k, by)
        PROVE  Goal
    BY <1>2, <1>3, <2>3 DEF StartDropKot
  <2>4. ASSUME NEW k \in Kots, NEW n \in 1..MaxQty, StartPartial(c, k, n)
        PROVE  Goal
    BY <1>2, <1>3, <2>4 DEF StartPartial
  <2>5. ASSUME NEW o \in Orders, StartComplete(c, o)
        PROVE  Goal
    BY <1>2, <1>3, <2>5 DEF StartComplete
  <2> QED BY <1>4, <1>6, <2>1, <2>2, <2>3, <2>4, <2>5 DEF Asks, CorrectionMoves
<1>7. ASSUME NEW c \in Calls,
             \/ CommitBill(c) \/ ReplyBill(c) \/ Crash(c)
             \/ \E o \in Orders, t \in Kots \union {NoKot} : ReadBill(c, o, t)
      PROVE  Goal
  <2>1. CASE CommitBill(c)
    BY <1>2, <1>3, <1>5, <2>1 DEF CommitBill
  <2>2. CASE ReplyBill(c) \/ Crash(c)
    BY <1>3, <1>5, <2>2 DEF ReplyBill, Crash, End
  <2>3. ASSUME NEW o \in Orders, NEW t \in Kots \union {NoKot}, ReadBill(c, o, t)
        PROVE  Goal
    BY <1>2, <1>3, <2>3 DEF ReadBill
  <2> QED BY <1>7, <2>1, <2>2, <2>3
<1>8. ASSUME NEW c \in Calls, SyncRead(c) \/ SyncKots(c) \/ SyncWrite(c)
      PROVE  Goal
  <2>1. call[c].next \in FinCall(PlacedOrders)
    BY <1>1, <1>8 DEF SyncRead, SyncKots, SyncWrite, In, CallOK, SyncOK
  <2>2. Ordinary(call[c].next)
    BY <1>5, <2>1
  <2>3. CASE SyncRead(c)
    BY <1>2, <1>3, <2>2, <2>3 DEF SyncRead
  <2>4. CASE SyncKots(c)
    BY <1>2, <1>3, <2>2, <2>4 DEF SyncKots
  <2>5. CASE SyncWrite(c)
    BY <1>3, <2>2, <2>5 DEF SyncWrite
  <2> QED BY <1>8, <2>3, <2>4, <2>5
<1>9. ASSUME NEW c \in Calls, FinRead(c) \/ FinPay(c) \/ FinKots(c) \/ FinWrite(c)
      PROVE  Goal
  BY <1>2, <1>3, <1>9 DEF FinRead, FinPay, FinKots, FinWrite, SessionCheck
<1>10. ASSUME NEW c \in Calls, FinSession(c) \/ FinOrders(c) \/ FinTickets(c)
       PROVE  Goal
  <2>1. CASE FinSession(c)
    BY <1>2, <1>3, <1>5, <2>1 DEF FinSession
  <2>2. CASE FinTickets(c)
    <3>1. call[c].at = "finTickets" /\ \A t : [call[c] EXCEPT !.todo = t].at = call[c].at
      BY <1>1, <2>2 DEF FinTickets, In, CallOK, FinOK
    <3>2. Ordinary(Close(call[c].s, "server", TRUE))
      BY <1>2 DEF Close
    <3>3. \A o : Ordinary([call[c] EXCEPT !.todo = @ \ {o}])
      BY <1>2, <3>1
    <3>4. PICK o \in call[c].todo :
            Goto(c, IF ~KitchenDone(o) THEN Idle
                    ELSE IF call[c].todo = {o} THEN Close(call[c].s, "server", TRUE)
                    ELSE [call[c] EXCEPT !.todo = @ \ {o}])
      BY <2>2 DEF FinTickets
    <3> QED BY <1>3, <1>5, <3>2, <3>3, <3>4
  <2>3. CASE FinOrders(c)
    <3>1. \A s, t : Ordinary([at |-> "finTickets", s |-> s, todo |-> t])
      BY <1>2
    <3>2. \E s, t : Goto(c, [at |-> "finTickets", s |-> s, todo |-> t]) \/ Goto(c, Idle)
      BY <2>3 DEF FinOrders
    <3> QED BY <1>3, <1>5, <3>1, <3>2
  <2> QED BY <1>10, <2>1, <2>2, <2>3
<1>11. ASSUME NEW c \in Calls, CloseRead(c) \/ CloseOrders(c) \/ CloseNext(c) \/ CloseTx(c)
       PROVE  Goal
  <2>1. CASE CloseRead(c)
    <3>1. [call[c] EXCEPT !.at = "closeOrders"].at = "closeOrders"
      BY <1>1, <2>1 DEF CloseRead, In, CallOK, CloseOK
    <3>2. Goto(c, [call[c] EXCEPT !.at = "closeOrders"]) \/ Goto(c, Idle)
      BY <2>1 DEF CloseRead
    <3>3. Ordinary([call[c] EXCEPT !.at = "closeOrders"])
      BY <1>2, <3>1
    <3> QED BY <1>3, <1>5, <3>2, <3>3
  <2>2. CASE CloseOrders(c)
    BY <1>2, <1>3, <2>2 DEF CloseOrders
  <2>3. CASE CloseNext(c)
    BY <1>2, <1>3, <1>5, <2>3 DEF CloseNext, OnOrder
  <2>4. CASE CloseTx(c)
    BY <1>3, <1>5, <2>4 DEF CloseTx, End
  <2> QED BY <1>11, <2>1, <2>2, <2>3, <2>4
<1>12. ASSUME NEW c \in Calls,
              CloseComplete(c) \/ CloseTickets(c) \/ CloseServe(c) \/ ClosePay(c)
       PROVE  Goal
  <2>1. CASE CloseComplete(c)
    BY <1>2, <1>3, <2>1 DEF CloseComplete, OnOrder
  <2>3. CASE CloseTickets(c)
    BY <1>2, <1>3, <2>3 DEF CloseTickets, OnOrder
  <2>4. CASE ClosePay(c)
    BY <1>2, <1>3, <1>5, <2>4 DEF ClosePay
  <2>2. CASE CloseServe(c)
    <3>1. call[c].then.at = "closePay" /\ \A k : [call[c] EXCEPT !.ks = k].at = call[c].at
      BY <1>1, <2>2 DEF CloseServe, In, CallOK, CloseOK, OnOrderCall
    <3>2. \/ Goto(c, call[c].then)
          \/ \E k : Goto(c, [call[c] EXCEPT !.ks = @ \ {k}])
      BY <2>2 DEF CloseServe
    <3>3. call[c].at = "closeServe"
      BY <2>2 DEF CloseServe, In
    <3>4. \A k : Ordinary([call[c] EXCEPT !.ks = @ \ {k}])
      BY <1>2, <3>1, <3>3
    <3>5. Ordinary(call[c].then)
      BY <1>2, <3>1
    <3> QED BY <1>3, <3>2, <3>4, <3>5
  <2> QED BY <1>12, <2>1, <2>2, <2>3, <2>4
<1>13. ASSUME NEW c \in Calls, \/ DropKot(c) \/ PartOrder(c) \/ PartTx(c)
                               \/ CompKots(c) \/ CompPay(c) \/ CompWrite(c)
       PROVE  Goal
  BY <1>2, <1>3, <1>5, <1>13 DEF DropKot, PartOrder, PartTx, CompKots, CompPay, CompWrite,
                                 End, Sync, Finalize
<1>14. ASSUME NEW c \in Calls, CancelWrite(c) \/ SendStatus(c) \/ ReopenWrite(c)
       PROVE  Goal
  BY <1>2, <1>3, <1>5, <1>14 DEF CancelWrite, SendStatus, ReopenWrite, End, Finalize
<1>15. ASSUME NEW c \in Calls, Taps(c)
       PROVE  Goal
  BY <1>1, <1>2, <1>15 DEF Taps, TapKot, Goto, Sync, Finalize
<1>16. ASSUME NEW c \in Calls, Pays(c)
       PROVE  Goal
  BY <1>2, <1>3, <1>16 DEF Pays, Pay, Finalize
<1>17. CASE Seat \/ Corrects
  BY <1>17 DEF Seat, Corrects, Refund, Resolve
<1> QED
  BY <1>4, <1>6, <1>7, <1>8, <1>9, <1>10, <1>11, <1>12, <1>13, <1>14, <1>15, <1>16, <1>17,
     StepKinds DEF Reads, KotWrites, OrderWrites, Taps, CorrectionMoves

(* A correction that is never requested is never under way.                   *)
LEMMA NoCorrectionStep ==
  ASSUME DineBase, DineNext, NEW op \in Corrections \ Ops, NoCorrection(op)
  PROVE  NoCorrection(op)'
<1> SUFFICES ASSUME NEW d \in Calls, call'[d].at \in LabelsOf(op) PROVE FALSE
  BY DEF NoCorrection
<1>1. call'[d] # call[d] /\ call[d].at \notin LabelsOf(op)
  BY DEF NoCorrection
<1>2. CorrectionMoves(d)
  BY <1>1, CorrectionArrivals DEF CorrectionLabels
<1>3. DOMAIN call = Calls
  BY DEF DineBase, CallsTyped
<1>4. CallOK(call[d], PlacedOrders)
  BY DEF DineBase, CallsTyped
<1>5. CASE op = "send"
  BY <1>1, <1>2, <1>3, <1>4, <1>5
     DEF CorrectionMoves, LabelsOf, StartSend, SendKots, SendWrite, StartCancel, StartReopen,
         CancelKots, CancelNext, Begin, May, In, Goto, End, Idle, CallOK, CancelOK
<1>6. CASE op = "cancel"
  BY <1>1, <1>2, <1>3, <1>4, <1>6
     DEF CorrectionMoves, LabelsOf, StartSend, SendKots, SendWrite, StartCancel, StartReopen,
         CancelKots, CancelNext, Begin, May, In, Goto, End, Idle, CallOK, CancelOK
<1>7. CASE op = "reopen"
  BY <1>1, <1>2, <1>3, <1>4, <1>7
     DEF CorrectionMoves, LabelsOf, StartSend, SendKots, SendWrite, StartCancel, StartReopen,
         CancelKots, CancelNext, Begin, May, In, Goto, End, Idle, CallOK, CancelOK
<1> QED BY <1>5, <1>6, <1>7 DEF Corrections

(* The calls: only a request begins a submission or a partial cancellation.   *)
LEMMA CallsCarry ==
  ASSUME Quiet, OnePartial, Kitchens \subseteq {TRUE}, "send" \notin Ops,
         QuietInv, PartialsHeld, Cooked, DineNext,
         \A c \in Calls : Partial(c) /\ ~PartTx(c) =>
           kot'[call[c].k].qty = kot[call[c].k].qty
  PROVE  PartialsHeld' /\ Cooked'
<1>1. /\ DineBase /\ Alone /\ DOMAIN call = Calls
      /\ \A c \in Calls : CallOK(call[c], PlacedOrders)
  BY DEF QuietInv, DineBase, CallsTyped
<1>2. \A c \in Calls : call'[c].at \notin {"sendKots", "sendWrite"}
  <2>1. ASSUME NEW d \in Calls, call'[d].at \in {"sendKots", "sendWrite"}
        PROVE  FALSE
    <3>1. call'[d] = call[d] \/ CorrectionMoves(d)
      BY <1>1, <2>1, CorrectionArrivals DEF CorrectionLabels, Corrections, LabelsOf
    <3>2. call[d].at \notin {"sendKots", "sendWrite"}
      BY DEF Cooked
    <3>3. CorrectionMoves(d)
      BY <2>1, <3>1, <3>2
    <3> QED BY <1>1, <2>1, <3>2, <3>3
            DEF CorrectionMoves, StartSend, SendKots, SendWrite, StartCancel, StartReopen,
                CancelKots, CancelNext, Begin, May, In, Goto, End, Idle, CallOK, CancelOK
  <2> QED BY <2>1
(* What the calls that have moved must show; the others stay as they were.    *)
<1> DEFINE Shows(c) ==
             /\ call'[c].at = "lookup" => call'[c].cook
             /\ call'[c].at = "commit" => call'[c].t # NoKot
             /\ call'[c].at \in {"partOrder", "partTx"} =>
                  /\ kot'[call'[c].k].qty = call'[c].ticket.qty
                  /\ \A d \in Calls \ {c} : ~Partial(d) /\ call'[d] = call[d]
<1>3. ASSUME \A c \in Calls : call'[c] = call[c] \/ Shows(c)
      PROVE  PartialsHeld' /\ Cooked'
  <2>1. ASSUME NEW c \in Calls, call'[c] = call[c], Partial(c)
        PROVE  kot'[call[c].k].qty = call[c].ticket.qty
    <3>1. ~PartTx(c)
      BY <1>1, <2>1 DEF PartTx, Partial, In, End, Goto, Idle
    <3> QED BY <2>1, <3>1 DEF PartialsHeld
  <2>2. Cooked'
    BY <1>2, <1>3 DEF Cooked, In
  <2>3. ASSUME NEW c \in Calls, NEW d \in Calls, Partial(c)', Partial(d)'
        PROVE  d = c
    BY <1>3, <2>3 DEF Partial, PartialsHeld
  <2> QED BY <1>3, <2>1, <2>2, <2>3 DEF PartialsHeld, Partial
<1>4. ASSUME NEW c \in Calls, NEW n, Goto(c, n), call'[c] = n => Shows(c)
      PROVE  PartialsHeld' /\ Cooked'
  <2>1. \A d \in Calls : call'[d] = call[d] \/ Shows(d)
    <3> HIDE DEF Shows
    <3> QED BY <1>1, <1>4 DEF Goto
  <2> QED BY <1>3, <2>1
<1>5. ASSUME NEW c \in Calls, Moved(c)
      PROVE  PartialsHeld' /\ Cooked'
  BY <1>3, <1>5 DEF Moved, Plain
<1>6. CASE UNCHANGED call
  BY <1>3, <1>6
<1>7. ASSUME NEW c \in Calls, Submits(c)
      PROVE  PartialsHeld' /\ Cooked'
  <2>1. ASSUME NEW s \in Sessions, NEW q \in 1..MaxQty, NEW k \in PosKeyOrNone,
               NEW cook \in Kitchens, StartSubmit(c, s, q, k, cook)
        PROVE  PartialsHeld' /\ Cooked'
    <3> DEFINE n == [at |-> "lookup", s |-> s, q |-> q, k |-> k, cook |-> cook,
                     active |-> activeOrder[s]]
    <3>1. Goto(c, n) /\ n.cook /\ n.at = "lookup"
      BY <2>1 DEF StartSubmit
    <3> HIDE DEF n
    <3> QED BY <1>4, <3>1
  <2>2. ASSUME NEW o \in Orders, NEW t \in Kots \union {NoKot}, ReadBill(c, o, t)
        PROVE  PartialsHeld' /\ Cooked'
    <3>1. call[c].cook
      BY <2>2 DEF ReadBill, Cooked
    <3>2. t # NoKot
      BY <2>2, <3>1, NoKotIsNoTicket DEF ReadBill, FreeKot
    <3>3. \E bill : Goto(c, [at |-> "commit", s |-> call[c].s, q |-> call[c].q, k |-> call[c].k,
                            o |-> o, t |-> t, bill |-> bill])
      BY <2>2 DEF ReadBill
    <3> QED BY <1>4, <3>2, <3>3
  <2>3. CASE CommitBill(c)
    BY <1>4, <2>3 DEF CommitBill, Idle
  <2> QED BY <1>7, <2>1, <2>2, <2>3 DEF Submits
<1>8. ASSUME NEW c \in Calls, Partials(c)
      PROVE  PartialsHeld' /\ Cooked'
  <2>1. ASSUME NEW k \in Kots, NEW n \in 1..MaxQty, StartPartial(c, k, n)
        PROVE  PartialsHeld' /\ Cooked'
    <3>1. /\ Goto(c, [at |-> "partOrder", k |-> k, n |-> n, ticket |-> kot[k]])
          /\ kot' = kot /\ \A d \in Calls : ~Partial(d)
      BY <2>1 DEF StartPartial, billVars, Partial
    <3>2. /\ call'[c] = [at |-> "partOrder", k |-> k, n |-> n, ticket |-> kot[k]]
          /\ \A d \in Calls \ {c} : call'[d] = call[d]
      BY <1>1, <3>1 DEF Goto
    <3> QED BY <1>3, <3>1, <3>2
  <2>2. CASE PartOrder(c)
    <3> DEFINE b == call[c]
               n == [at |-> "partTx", k |-> b.k, n |-> b.n, ticket |-> b.ticket,
                     bill |-> order[b.ticket.order], cut |-> cut[b.ticket.order]]
    <3>1. /\ Goto(c, n) \/ Goto(c, Idle)
          /\ kot' = kot /\ Partial(c)
      BY <2>2 DEF PartOrder, billVars, Partial, In
    <3>2. kot[b.k].qty = b.ticket.qty /\ \A d \in Calls : Partial(d) => d = c
      BY <3>1 DEF PartialsHeld
    <3>3. \A d \in Calls \ {c} : ~Partial(d) /\ call'[d] = call[d]
      BY <1>1, <3>1, <3>2 DEF Goto
    <3>4. call'[c] = n \/ call'[c] = Idle
      BY <1>1, <3>1 DEF Goto
    <3>5. Shows(c)
      BY <3>1, <3>2, <3>3, <3>4 DEF Idle
    <3> QED BY <1>3, <3>3, <3>5
  <2> QED BY <1>8, <2>1, <2>2 DEF Partials
<1>9. ASSUME NEW c \in Calls, Taps(c)
      PROVE  PartialsHeld' /\ Cooked'
  <2>1. \A d \in Calls : call'[d] = call[d] \/ call'[d].at \in {"sync", "fin"}
    BY <1>1, <1>9 DEF Taps, TapKot, Goto, Sync, Finalize
  <2> QED BY <1>3, <2>1
<1> QED BY <1>1, <1>5, <1>6, <1>7, <1>8, <1>9, CallKinds

LEMMA TicketsInvStep ==
  ASSUME Quiet, OnePartial, Kitchens \subseteq {TRUE}, "send" \notin Ops,
         QuietInv, TicketsInv, [DineNext]_vars
  PROVE  TicketsInv'
<1>1. /\ DineBase /\ Alone /\ DOMAIN call = Calls /\ kot \in [Kots -> KotDoc]
      /\ kot' \in [Kots -> KotDoc] /\ order \in [Orders -> OrderDoc]
      /\ order' \in [Orders -> OrderDoc]
      /\ TicketsCounted /\ KotsCarry /\ PartialsHeld /\ Cooked
  BY DineBaseStep DEF QuietInv, DineBase, DineTypeOK, SettleTypeOK, CallsTyped, TicketsInv
<1>2. CASE UNCHANGED vars
  <2>1. order' = order /\ kot' = kot /\ call' = call
    BY <1>2 DEF vars, settleVars, billVars
  <2>2. \A o \in Orders : Items(kot, o)' = Items(kot, o)
    BY <2>1 DEF Items
  <2> QED BY <1>1, <2>1, <2>2
          DEF TicketsInv, TicketsCounted, KotsCarry, PartialsHeld, Partial, Cooked, In
<1>3. \A c \in Calls : \A t \in Kots : ~SendWrite(c, t)
  BY <1>1 DEF SendWrite, Cooked, In
<1>4. \A o \in Orders : Items(kot, o)' = Items(kot', o)
  BY DEF Items
<1>5. ASSUME NEW c \in Calls, CommitBill(c), DineNext
      PROVE  TicketsInv'
  <2> DEFINE b == call[c]
  <2>1. \A d \in Calls : ~Partial(d)
    BY <1>1, <1>5 DEF CommitBill, Alone, In, SubmitLabels, Partial
  <2>2. PartialsHeld' /\ Cooked'
    BY <1>1, <1>5, <2>1, CallsCarry
  <2>3. CASE ~KeyAllowsCommit(b.k)
    <3>1. kot' = kot /\ order' = order
      BY <1>5, <2>3 DEF CommitBill, billVars
    <3> QED BY <1>1, <1>4, <2>2, <3>1 DEF TicketsInv, TicketsCounted, KotsCarry
  <2>4. CASE KeyAllowsCommit(b.k)
    <3>1. /\ b.o \in Orders /\ b.t \in Kots /\ b.q \in Nat \ {0} /\ Carried(b)
          /\ kot[b.t].status = "none" /\ kot[b.t].qty = 0
      <4>1. b.t # NoKot /\ In(c, "commit") /\ Carried(b)
        BY <1>1, <1>5 DEF CommitBill, Cooked, QuietInv, CarriedBills
      <4> QED BY <1>1, <1>5, <4>1, CommitDoc, DrawnFree, MaxQtyIsNatural DEF KotsCarry
    <3>2. kot' = [kot EXCEPT ![b.t] = Ticket(b)] /\ order' = [order EXCEPT ![b.o] = b.bill]
      BY <1>1, <1>5, <2>4 DEF CommitBill, Cooked
    <3>3. /\ kot'[b.t] = Ticket(b) /\ kot'[b.t].order = b.o /\ kot'[b.t].qty = b.q
          /\ kot'[b.t].status = "sentToKitchen"
          /\ \A j \in Kots \ {b.t} : kot'[j] = kot[j]
      BY <1>1, <3>1, <3>2 DEF Ticket
    <3>4. /\ IsFiniteSet(Items(kot', b.o))
          /\ Cardinality(Items(kot', b.o)) = (Cardinality(Items(kot, b.o)) - 0) + b.q
          /\ \A r : r # b.o => Items(kot', r) = Items(kot, r)
      <4> DEFINE t == b.t
                 o == b.o
                 m == kot[t].qty
                 n == b.q
      <4>1. /\ t \in Kots /\ m \in Nat /\ m = 0 /\ n \in Nat
            /\ kot'[t].order = o /\ kot'[t].qty = n /\ kot[t].qty = m
            /\ \A j \in Kots \ {t} : kot'[j].qty = kot[j].qty /\ kot'[j].order = kot[j].order
        BY <3>1, <3>3
      <4>2. IsFiniteSet(Items(kot, o))
        BY <1>1, <3>1 DEF TicketsCounted
      <4> HIDE DEF t, o, m, n
      <4>3. /\ IsFiniteSet(Items(kot', o))
            /\ Cardinality(Items(kot', o)) = (Cardinality(Items(kot, o)) - m) + n
            /\ \A r : r # o => Items(kot', r) = Items(kot, r)
        BY <4>1, <4>2, ItemsChange
      <4> QED BY <4>1, <4>3 DEF o, n
    <3>5. b.bill.grand = Cardinality(Items(kot, b.o)) + b.q
      <4>1. CASE Placed(b.o)
        <5> DEFINE ext == [order[b.o] EXCEPT !.grand = order[b.o].grand + b.q]
        <5>1. /\ ext \in OrderDoc /\ ext.grand = order[b.o].grand + b.q
              /\ order[b.o].paid \in Nat
          BY <1>1, <3>1 DEF OrderDoc
        <5>2. b.bill = Settled(ext, order[b.o].paid)
          BY <3>1, <4>1 DEF Carried, Extended
        <5>3. b.bill.grand = order[b.o].grand + b.q
          <6> HIDE DEF ext
          <6> QED BY <5>1, <5>2, SettledDoc
        <5> QED BY <1>1, <3>1, <5>3 DEF TicketsCounted
      <4>2. CASE ~Placed(b.o)
        <5>1. \A k \in Kots : kot[k].order = b.o => kot[k].qty = 0
          BY <1>1, <4>2 DEF DineBase, BillsNamed, PlacedOrders, KotsCarry
        <5>2. \A k \in Kots : kot[k].order = b.o => 1..kot[k].qty = {}
          BY <5>1
        <5>3. Items(kot, b.o) = {}
          BY <5>2, ItemsMembers
        <5>4. b.bill.grand = b.q
          BY <3>1, <4>2 DEF Carried, NewDoc
        <5> QED BY <3>1, <5>3, <5>4, FS_EmptySet
      <4> QED BY <4>1, <4>2
    <3>6. /\ order'[b.o].grand = Cardinality(Items(kot', b.o))
          /\ \A r \in Orders \ {b.o} : order'[r] = order[r]
      <4>1. Cardinality(Items(kot, b.o)) \in Nat
        BY <1>1, <3>1, FS_CardinalityType DEF TicketsCounted
      <4>2. order'[b.o] = b.bill /\ \A r \in Orders \ {b.o} : order'[r] = order[r]
        BY <1>1, <3>1, <3>2
      <4> HIDE DEF b
      <4> QED BY <3>1, <3>4, <3>5, <4>1, <4>2
    <3>7. TicketsCounted'
      <4> HIDE DEF b
      <4> QED BY <1>1, <1>4, <3>4, <3>6 DEF TicketsCounted
    <3>8. KotsCarry'
      <4> HIDE DEF b
      <4> QED BY <1>1, <3>1, <3>3 DEF KotsCarry
    <3> QED BY <2>2, <3>7, <3>8 DEF TicketsInv
  <2> QED BY <2>3, <2>4
<1>6. ASSUME NEW c \in Calls, PartTx(c), DineNext
      PROVE  TicketsInv'
  <2> DEFINE b == call[c]
             o == b.ticket.order
             left == b.ticket.qty - b.n
             g == b.bill.grand - b.n
  <2>1. /\ b.n \in Nat \ {0} /\ b.k \in Kots /\ o \in Orders /\ b.n <= b.ticket.qty
        /\ b.ticket.qty \in Nat /\ b.n <= b.bill.grand /\ b.bill.grand \in Nat
        /\ b.ticket.status \in KotStatus \ TerminalKot
    <3>1. CallOK(b, PlacedOrders) /\ b.at = "partTx"
      BY <1>1, <1>6 DEF DineBase, CallsTyped, PartTx, In
    <3> QED BY <3>1, MaxQtyIsNatural
            DEF CallOK, PartOK, TicketWith, BillWith, KotDoc, OrderDoc, PlacedOrders
  <2>2. /\ kot[b.k].order = o /\ kot[b.k].qty = b.ticket.qty
        /\ \A d \in Calls : Partial(d) => d = c
    <3>1. Partial(c) /\ b.at = "partTx"
      BY <1>6 DEF PartTx, In, Partial
    <3> QED BY <1>1, <3>1 DEF DineBase, TicketsHeld, PartialsHeld
  <2>3. PartialsHeld' /\ Cooked'
    BY <1>1, <1>6, <2>2, CallsCarry
  <2>4. CASE ~(StillOpen(b) /\ BillUnchanged(b))
    <3>1. kot' = kot /\ order' = order
      BY <1>6, <2>4 DEF PartTx
    <3> QED BY <1>1, <1>4, <2>3, <3>1 DEF TicketsInv, TicketsCounted, KotsCarry
  <2>5. CASE StillOpen(b) /\ BillUnchanged(b)
    <3>1. /\ \E st : order' = [order EXCEPT ![o] = Repriced(order[o], g, st)]
          /\ kot' = [kot EXCEPT ![b.k].qty = left,
                               ![b.k].status = IF left = 0 THEN "cancelled" ELSE b.ticket.status]
          /\ b.bill.grand = order[o].grand
      BY <1>6, <2>5 DEF PartTx, BillUnchanged
    <3>2. left \in Nat
      BY <2>1
    <3>3. /\ kot'[b.k].qty = left /\ kot'[b.k].order = o
          /\ kot'[b.k].status = IF left = 0 THEN "cancelled" ELSE b.ticket.status
          /\ \A j \in Kots \ {b.k} : kot'[j] = kot[j]
      <4> DEFINE new == [kot[b.k] EXCEPT !.qty = left,
                            !.status = IF left = 0 THEN "cancelled" ELSE b.ticket.status]
      <4>1. kot' = [kot EXCEPT ![b.k] = new]
        BY <1>1, <2>1, <3>1 DEF KotDoc
      <4>2. /\ new.qty = left /\ new.order = o
            /\ new.status = IF left = 0 THEN "cancelled" ELSE b.ticket.status
        BY <1>1, <2>1, <2>2 DEF KotDoc
      <4> HIDE DEF new, left, o
      <4> QED BY <1>1, <2>1, <4>1, <4>2
    <3>4. /\ IsFiniteSet(Items(kot', o))
          /\ Cardinality(Items(kot', o)) = (Cardinality(Items(kot, o)) - b.ticket.qty) + left
          /\ \A r : r # o => Items(kot', r) = Items(kot, r)
      <4>1. IsFiniteSet(Items(kot, o))
        BY <1>1, <2>1 DEF TicketsCounted
      <4> DEFINE k == b.k
                 m == b.ticket.qty
      <4>2. /\ k \in Kots /\ kot'[k].order = o /\ kot[k].order = o
            /\ m \in Nat /\ kot[k].qty = m /\ left \in Nat /\ kot'[k].qty = left
            /\ \A j \in Kots \ {k} : kot'[j].qty = kot[j].qty /\ kot'[j].order = kot[j].order
        BY <2>1, <2>2, <3>2, <3>3
      <4> HIDE DEF k, m, o, left, b
      <4>3. /\ IsFiniteSet(Items(kot', o))
            /\ Cardinality(Items(kot', o)) = (Cardinality(Items(kot, o)) - m) + left
            /\ \A r : r # o => Items(kot', r) = Items(kot, r)
        BY <4>1, <4>2, ItemsChange
      <4> QED BY <4>3 DEF m
    <3>5. order'[o].grand = g /\ \A r \in Orders \ {o} : order'[r] = order[r]
      <4>1. \A st : Repriced(order[o], g, st).grand = g
        BY <1>1, <2>1 DEF Repriced, OrderDoc
      <4> HIDE DEF g, o
      <4> QED BY <1>1, <2>1, <3>1, <4>1
    <3>6. order'[o].grand = Cardinality(Items(kot', o))
      <4>1. order[o].grand = Cardinality(Items(kot, o))
        BY <1>1, <2>1 DEF TicketsCounted
      <4>2. Cardinality(Items(kot, o)) \in Nat
        BY <1>1, <2>1, FS_CardinalityType DEF TicketsCounted
      <4> HIDE DEF b, o
      <4> QED BY <2>1, <3>1, <3>4, <3>5, <4>1, <4>2
    <3>7. TicketsCounted'
      <4> HIDE DEF o
      <4> QED BY <1>1, <1>4, <3>4, <3>5, <3>6 DEF TicketsCounted
    <3>8. KotsCarry'
      <4>1. left > 0 \/ left = 0
        BY <3>2
      <4>2. b.ticket.status # "none" /\ "cancelled" # "none"
        BY <2>1 DEF KotStatus, OrderStatus
      <4> HIDE DEF b, left, o
      <4> QED BY <1>1, <3>3, <4>1, <4>2 DEF KotsCarry
    <3> QED BY <2>3, <3>7, <3>8 DEF TicketsInv
  <2> QED BY <2>4, <2>5
<1>7. ASSUME DineNext, \A c \in Calls : ~CommitBill(c) /\ ~PartTx(c)
      PROVE  TicketsInv'
  <2>1. \A o \in Orders : order'[o].grand = order[o].grand
    BY <1>1, <1>7, GrandsStay
  <2>2. /\ \A k \in Kots : kot'[k].qty = kot[k].qty /\ kot'[k].order = kot[k].order
        /\ KotsCarry'
    <3>1. CASE kot' = kot
      BY <1>1, <3>1 DEF KotsCarry
    <3>2. ASSUME NEW k \in Kots, NEW st \in KotStatus, StatusTo(k, st),
                 kot[k].status # "none", kot[k].status = "cancelled" => st = "cancelled"
          PROVE  /\ \A j \in Kots : kot'[j].qty = kot[j].qty /\ kot'[j].order = kot[j].order
                 /\ KotsCarry'
      <4>1. /\ \A j \in Kots \ {k} : kot'[j] = kot[j]
            /\ kot'[k].qty = kot[k].qty /\ kot'[k].order = kot[k].order /\ kot'[k].status = st
        BY <1>1, <3>2 DEF StatusTo, KotDoc
      <4>2. st # "none"
        BY DEF KotStatus, OrderStatus
      <4> QED BY <1>1, <3>2, <4>1, <4>2 DEF KotsCarry
    <3> QED BY <1>1, <1>3, <1>7, <3>1, <3>2, KotsWritten
  <2>3. \A o \in Orders : Items(kot', o) = Items(kot, o)
    BY <2>2, ItemsSame
  <2>4. TicketsCounted'
    BY <1>1, <1>4, <2>1, <2>3 DEF TicketsCounted
  <2>5. PartialsHeld' /\ Cooked'
    <3>1. \A c \in Calls : Partial(c) => call[c].k \in Kots
      BY <1>1 DEF DineBase, CallsTyped, CallOK, PartOK, Partial
    <3> QED BY <1>1, <1>7, <2>2, <3>1, CallsCarry
  <2> QED BY <2>2, <2>4, <2>5 DEF TicketsInv
<1> QED BY <1>2, <1>5, <1>6, <1>7

(* A bill charges what its tickets list, whatever is cancelled, paid or closed *)
(* around it and whatever crashes: if submissions run alone and print their    *)
(* tickets, one partial cancellation runs at a time and no bill is sent again. *)
THEOREM TicketsInvariant ==
  ASSUME Quiet, OnePartial, Kitchens \subseteq {TRUE}, "send" \notin Ops
  PROVE  DineSpec => [](QuietInv /\ TicketsInv)
<1>1. DineInit => TicketsInv
  <2> SUFFICES ASSUME DineInit PROVE TicketsInv
    OBVIOUS
  <2>1. \A k \in Kots : /\ kot[k].qty = 0 /\ kot[k].status = "none" /\ 1..kot[k].qty = {}
                        /\ kot[k].order = NoOrder
    BY DEF DineInit
  <2>2. \A o \in Orders : Items(kot, o) = {} /\ order[o].grand = 0
    BY <2>1, ItemsMembers DEF DineInit, SettleInit
  <2>3. TicketsCounted /\ KotsCarry
    BY <2>1, <2>2, FS_EmptySet DEF TicketsCounted, KotsCarry
  <2>4. PartialsHeld /\ Cooked
    BY DEF DineInit, PartialsHeld, Partial, Cooked, In, Idle
  <2> QED BY <2>3, <2>4 DEF TicketsInv
<1>2. QuietInv /\ TicketsInv /\ [DineNext]_vars => TicketsInv'
  BY TicketsInvStep
<1> QED BY <1>1, <1>2, QuietInvariant, PTL DEF DineSpec

(* So nothing is charged that the kitchen was not asked for, and nothing is    *)
(* cooked that the bill leaves out.                                           *)
THEOREM BillChargesTickets ==
  ASSUME Quiet, OnePartial, Kitchens \subseteq {TRUE}, "send" \notin Ops
  PROVE  DineSpec => []TicketsMatchBill
<1>1. TicketsInv => TicketsMatchBill
  BY DEF TicketsInv, TicketsCounted, TicketsMatchBill, Items, KotsOf
<1> QED BY <1>1, TicketsInvariant, PTL

-----------------------------------------------------------------------------
(* A service without corrections: submissions run alone, nobody cancels or    *)
(* reopens an order, refunds a payment or sends a bill again, and no manager  *)
(* is on duty, whose writes the rules let pass whatever the order is by then. *)
Undisturbed ==
  /\ Quiet /\ ~RepeatRefunds /\ ~LaterDiscounts /\ "manager" \notin Staff
  /\ {"send", "cancel", "reopen", "refund"} \cap Ops = {}

ServiceInv == QuietInv /\ IInv /\ \A op \in Corrections : NoCorrection(op)

LEMMA ServiceInvariant == ASSUME Undisturbed PROVE DineSpec => []ServiceInv
<1> DEFINE None == \A op \in Corrections : NoCorrection(op)
<1>1. Quiet /\ ~RepeatRefunds /\ \A op \in Corrections : op \in Corrections \ Ops
  BY DEF Undisturbed, Corrections
<1>2. DineInit => None
  <2>1. \A op \in Corrections : "idle" \notin LabelsOf(op)
    BY DEF Corrections, LabelsOf
  <2> QED BY <2>1 DEF DineInit, NoCorrection, Idle
<1>3. QuietInv /\ None /\ [DineNext]_vars => None'
  <2> SUFFICES ASSUME QuietInv, None, [DineNext]_vars, NEW op \in Corrections
               PROVE  NoCorrection(op)'
    OBVIOUS
  <2>1. CASE DineNext
    BY <1>1, <2>1, NoCorrectionStep DEF QuietInv
  <2>2. CASE UNCHANGED vars
    BY <2>2 DEF vars, NoCorrection
  <2> QED BY <2>1, <2>2
<1>4. DineSpec => []QuietInv
  BY <1>1, QuietInvariant
<1>5. DineSpec => []IInv
  BY <1>1, BillsAreLedgers, LedgerInvariant, PTL DEF BillsKeepLedger
<1>6. QuietInv /\ IInv /\ None => ServiceInv
  BY DEF ServiceInv
<1> QED BY <1>2, <1>3, <1>4, <1>5, <1>6, PTL DEF DineSpec

(* What a service keeps of the amounts.                                       *)
LEMMA ServiceFacts ==
  ASSUME Undisturbed, ServiceInv
  PROVE  /\ DineBase /\ DOMAIN call = Calls /\ \A c \in Calls : CallOK(call[c], PlacedOrders)
         /\ order \in [Orders -> OrderDoc] /\ kot \in [Kots -> KotDoc]
         /\ \A c \in Calls : call[c].at \notin {"sendKots", "sendWrite", "sendStatus",
                                                "cancelKots", "cancelNext", "cancelWrite", "reopen"}
         /\ \A o \in Orders : /\ order[o].paid <= order[o].grand
                              /\ order[o].paid = Cardinality(Till(o))
                              /\ order[o].paid \in Nat /\ order[o].grand \in Nat
         /\ "server" \notin Staff
<1>1. DineBase /\ IInv
  BY DEF ServiceInv, QuietInv
<1>2. \A c \in Calls : call[c].at \notin {"sendKots", "sendWrite", "sendStatus",
                                          "cancelKots", "cancelNext", "cancelWrite", "reopen"}
  <2>1. \A op \in {"send", "cancel", "reopen"} : \A c \in Calls : call[c].at \notin LabelsOf(op)
    BY DEF ServiceInv, Corrections, NoCorrection
  <2> QED BY <2>1 DEF LabelsOf
<1>3. \A o \in Orders : /\ order[o].paid <= order[o].grand
                        /\ order[o].paid = Cardinality(Till(o))
  BY <1>1 DEF IInv, NoneOverpaid, NeverOverpaid, Ledger, Undisturbed
<1>4. "server" \notin Staff
  BY StaffAndRequests DEF Roles
<1>5. order \in [Orders -> OrderDoc] /\ kot \in [Kots -> KotDoc]
  BY <1>1 DEF DineBase, MoneyTypes, SettleTypeOK, DineTypeOK
<1>6. \A o \in Orders : order[o].paid \in Nat /\ order[o].grand \in Nat
  BY <1>5 DEF OrderDoc
<1>7. DOMAIN call = Calls /\ \A c \in Calls : CallOK(call[c], PlacedOrders)
  BY <1>1 DEF DineBase, CallsTyped
<1> QED BY <1>1, <1>2, <1>3, <1>4, <1>5, <1>6, <1>7

(* A bill is settled, and out of the kitchen.                                 *)
PaidFor(o) == order[o].grand > 0 /\ order[o].paid = order[o].grand

Done(o) == PaidFor(o) /\ LiveKots(o) = {}

SessionDone(s) == \A o \in OrdersOf(s) : ~OrderOpen(o)

-----------------------------------------------------------------------------
(* What the handlers in flight rely on: it was read before and nothing takes  *)
(* it back.  The finalization and the completion of a bill:                   *)
FinTrue(b) ==
  /\ b.at = "finPay" => b.grand > 0 /\ order[b.o].grand <= b.grand
  /\ b.at \in {"finKots", "compKots"} => PaidFor(b.o)
  /\ b.at \in {"finWrite", "compPay", "compWrite"} => Done(b.o)
  /\ b.at \in {"finSession", "finOrders"} /\ b.done => order[b.o].status = "completed"
  /\ b.at = "finTickets" => SessionDone(b.s)

(* The synchronisation of a bill with its tickets never completes it.         *)
SyncTrue(b) ==
  /\ b.at \in {"sync", "syncKots", "syncWrite", "dropKot"} => b.by \in Staff
  /\ b.at = "syncKots" => b.seen \notin TerminalOrder
  /\ b.at = "syncWrite" => b.new # "completed"

(* The closing of a session: the readings it has not judged yet cover the     *)
(* orders still open.  The server closes only what it has found settled; a    *)
(* captain, who may not read the payments, closes unseen.                     *)
AtOrder == {"closeComplete", "closeTickets", "closePay"}

Left(b) == IF b.at = "closeNext" THEN b.todo ELSE b.todo \union {b.x}

Covered(s, X) == \A o \in OrdersOf(s) : ~OrderOpen(o) \/ \E x \in X : x.o = o

Seen(X) == \A x \in X : x.status \in TerminalOrder => ~OrderOpen(x.o)

Closing(b) ==
  /\ b.at \in {"close", "closeOrders", "closeNext"} \union AtOrder => b.by # "kitchen"
  /\ b.at \in {"close", "closeOrders"} /\ b.by = "server" => SessionDone(b.s)
  /\ b.at = "closeComplete" => b.by # "server"
  /\ b.at \in {"closeNext"} \union AtOrder =>
       /\ b.by = "server" => \A x \in Left(b) : x.status \in TerminalOrder
       /\ "captain" \notin Staff => Covered(b.s, Left(b)) /\ Seen(Left(b))
  /\ b.at = "closeTx" /\ "captain" \notin Staff => SessionDone(b.s)

CloseTrue(b) == Closing(b) /\ (b.at = "closeServe" => Closing(b.then))

CallTrue(b) == FinTrue(b) /\ SyncTrue(b) /\ CloseTrue(b)

(* A submission: its session is open, and either the order it extends is one  *)
(* of the session or the session has no open order.                           *)
SubmitTrue(b) ==
  /\ b.at = "lookup" => b.active = activeOrder[b.s] /\ IsOpen(b.s)
  /\ b.at = "commit" => /\ IsOpen(b.s)
                        /\ IF Placed(b.o) THEN sessOf[b.o] = b.s ELSE SessionDone(b.s)

(* The orders: the open one of a session is the one its pointer names.        *)
OrdersTrue ==
  \A o \in Orders :
     /\ order[o].status = "cancelled" => order[o].grand = 0
     /\ Placed(o) /\ OrderOpen(o) => order[o].grand > 0 /\ activeOrder[sessOf[o]] = o
     /\ order[o].status = "completed" => Done(o)

PointersTrue == \A s \in Sessions : activeOrder[s] # NoOrder => sessOf[activeOrder[s]] = s

ClosedDone ==
  "captain" \notin Staff => \A s \in Sessions : session[s].status = "closed" => SessionDone(s)

BillsInv ==
  /\ OrdersTrue /\ PointersTrue /\ ClosedDone /\ writtenOff = {}
  /\ \A c \in Calls : CallTrue(call[c]) /\ SubmitTrue(call[c])

-----------------------------------------------------------------------------
(* What a step other than the writing of a submission does to an order: it    *)
(* keeps it, and completes it only if it is done; or it cuts it down, not     *)
(* below what was paid.                                                       *)
Kept(o) ==
  /\ order'[o].grand = order[o].grand /\ order'[o].paid >= order[o].paid
  /\ \/ order'[o].status = order[o].status
     \/ /\ Placed(o) /\ OrderOpen(o) /\ order'[o].status # "cancelled"
        /\ order'[o].status = "completed" => Done(o)

Cut(o) ==
  /\ Placed(o) /\ OrderOpen(o)
  /\ order'[o].paid = order[o].paid /\ order'[o].paid <= order'[o].grand
  /\ order'[o].grand < order[o].grand
  /\ order'[o].status # "completed"
  /\ (order'[o].status = "cancelled") <=> (order'[o].grand = 0)

LEMMA KeptBy ==
  ASSUME order \in [Orders -> OrderDoc], NEW o \in Orders, NEW doc,
         order' = [order EXCEPT ![o] = doc],
         doc.grand = order[o].grand, doc.paid >= order[o].paid,
         \/ doc.status = order[o].status
         \/ /\ Placed(o) /\ OrderOpen(o) /\ doc.status # "cancelled"
            /\ doc.status = "completed" => Done(o)
  PROVE  \A q \in Orders : Kept(q)
<1>1. \A q \in Orders : order[q].paid \in Nat
  BY DEF OrderDoc
<1>2. order'[o] = doc /\ \A q \in Orders \ {o} : order'[q] = order[q]
  OBVIOUS
<1>3. \A q \in Orders \ {o} : Kept(q)
  BY <1>1, <1>2 DEF Kept
<1>4. Kept(o)
  BY <1>2 DEF Kept
<1> QED BY <1>3, <1>4

LEMMA KeptSame ==
  ASSUME order \in [Orders -> OrderDoc], order' = order
  PROVE  \A q \in Orders : Kept(q)
BY DEF Kept, OrderDoc

LEMMA KeptStatus ==
  ASSUME order \in [Orders -> OrderDoc], NEW o \in Orders, NEW st, StatusWrite(o, st),
         \/ order[o].status = st
         \/ OrderOpen(o) /\ st \notin TerminalOrder
  PROVE  \A q \in Orders : Kept(q)
<1> DEFINE doc == [order[o] EXCEPT !.status = st]
<1>1. order' = [order EXCEPT ![o] = doc] /\ Placed(o)
  BY DEF StatusWrite
<1>2. doc.grand = order[o].grand /\ doc.paid = order[o].paid /\ doc.status = st
  BY DEF OrderDoc
<1>3. doc.paid >= order[o].paid
  BY <1>2 DEF OrderDoc
<1>4. "cancelled" \in TerminalOrder /\ "completed" \in TerminalOrder
  BY DEF TerminalOrder
<1>5. \/ doc.status = order[o].status
      \/ /\ Placed(o) /\ OrderOpen(o) /\ doc.status # "cancelled"
         /\ doc.status = "completed" => Done(o)
  BY <1>1, <1>2, <1>4
<1> HIDE DEF doc
<1> QED BY <1>1, <1>2, <1>3, <1>5, KeptBy

LEMMA KeptCompleted ==
  ASSUME order \in [Orders -> OrderDoc], NEW o \in Orders, CompleteOrderWrite(o),
         Done(o), order[o].status = "cancelled" => order[o].grand = 0
  PROVE  (\A q \in Orders : Kept(q)) /\ order'[o].status = "completed"
<1> DEFINE doc == Completed(order[o])
<1>1. order' = [order EXCEPT ![o] = doc] /\ Placed(o)
  BY DEF CompleteOrderWrite
<1>2. doc.grand = order[o].grand /\ doc.paid = order[o].paid /\ doc.status = "completed"
  BY DEF OrderDoc, Completed
<1>3. order[o].paid \in Nat /\ order[o].grand > 0
  BY DEF OrderDoc, Done, PaidFor
<1>4. order[o].status # "cancelled"
  BY <1>3
<1>5. order[o].status = "completed" \/ OrderOpen(o)
  BY <1>4 DEF OrderOpen, TerminalOrder
<1>6. doc.paid >= order[o].paid
  BY <1>2, <1>3
<1>7. \/ doc.status = order[o].status
      \/ /\ Placed(o) /\ OrderOpen(o) /\ doc.status # "cancelled"
         /\ doc.status = "completed" => Done(o)
  BY <1>1, <1>2, <1>5
<1> HIDE DEF doc
<1>8. \A q \in Orders : Kept(q)
  BY <1>1, <1>2, <1>6, <1>7, KeptBy
<1> QED BY <1>1, <1>2, <1>8

LEMMA KeptSettled ==
  ASSUME order \in [Orders -> OrderDoc], NEW o \in Orders, NEW n \in Nat,
         n >= order[o].paid, order' = [order EXCEPT ![o] = Settled(order[o], n)]
  PROVE  \A q \in Orders : Kept(q)
<1>1. order[o] \in OrderDoc
  OBVIOUS
<1> DEFINE doc == Settled(order[o], n)
<1>2. doc.grand = order[o].grand /\ doc.paid = n /\ doc.status = order[o].status
  BY <1>1, SettledDoc
<1>3. order' = [order EXCEPT ![o] = doc]
  OBVIOUS
<1> HIDE DEF doc
<1> QED BY <1>2, <1>3, KeptBy

LEMMA WriteKeeps ==
  ASSUME Undisturbed, ServiceInv, BillsInv, NEW c \in Calls, OrderWrites(c)
  PROVE  \A q \in Orders : Kept(q)
<1>1. /\ order \in [Orders -> OrderDoc] /\ CallOK(call[c], PlacedOrders)
      /\ CallTrue(call[c]) /\ OrdersTrue /\ "server" \notin Staff /\ "manager" \notin Staff
  BY ServiceFacts DEF BillsInv, Undisturbed
<1>2. CASE SyncWrite(c)
  <2> DEFINE b == call[c]
             from == order[b.o].status
  <2>1. b.o \in Orders /\ b.by \in Staff /\ b.new # "completed"
    BY <1>1, <1>2 DEF SyncWrite, In, CallOK, SyncOK, PlacedOrders, CallTrue, SyncTrue
  <2>2. CASE ~MayWriteOrder(b.by, from, b.new)
    BY <1>1, <1>2, <2>2, KeptSame DEF SyncWrite, settleVars
  <2>3. CASE MayWriteOrder(b.by, from, b.new)
    <3>1. StatusWrite(b.o, b.new)
      BY <1>2, <2>3 DEF SyncWrite
    <3>2. b.new \notin TerminalOrder /\ RulesMove(from, b.new)
      <4>1. b.by # "manager" /\ b.by # "server"
        BY <1>1, <2>1
      <4> QED BY <2>1, <2>3, <4>1 DEF MayWriteOrder, TerminalOrder
    <3>3. from = b.new \/ from \notin TerminalOrder
      BY <3>2 DEF RulesMove, TerminalOrder
    <3> HIDE DEF b
    <3> QED BY <1>1, <2>1, <3>1, <3>2, <3>3, KeptStatus DEF OrderOpen
  <2> QED BY <2>2, <2>3
<1>3. CASE FinWrite(c) \/ CompWrite(c)
  <2> DEFINE o == call[c].o
  <2>1. o \in Orders /\ Done(o)
    BY <1>1, <1>3 DEF FinWrite, CompWrite, In, CallOK, FinOK, OrderLabels, PlacedOrders,
                      CallTrue, FinTrue
  <2>2. CompleteOrderWrite(o)
    BY <1>3 DEF FinWrite, CompWrite
  <2> HIDE DEF o
  <2> QED BY <1>1, <2>1, <2>2, KeptCompleted DEF OrdersTrue
<1>4. CASE CloseComplete(c)
  <2>1. call[c].by \notin {"manager", "server", "kitchen"}
    BY <1>1, <1>4 DEF CloseComplete, In, CallOK, CloseOK, OnOrderCall, By, CallTrue, CloseTrue,
                      Closing, AtOrder
  <2>2. \A from : ~MayWriteOrder(call[c].by, from, "completed")
    BY <2>1 DEF MayWriteOrder, TerminalOrder
  <2> QED BY <1>1, <1>4, <2>2, KeptSame DEF CloseComplete, settleVars
<1>5. ~CancelWrite(c) /\ ~SendStatus(c) /\ ~ReopenWrite(c)
  BY ServiceFacts DEF CancelWrite, SendStatus, ReopenWrite, In
<1> QED BY <1>2, <1>3, <1>4, <1>5 DEF OrderWrites

LEMMA PaymentKeeps ==
  ASSUME Undisturbed, ServiceInv, Corrects \/ \E c \in Calls : Pays(c)
  PROVE  (\A q \in Orders : Kept(q)) /\ writtenOff' = writtenOff
<1>1. /\ order \in [Orders -> OrderDoc] /\ \A o \in Orders : order[o].paid \in Nat
      /\ payment \in [Payments -> PaymentDoc]
      /\ \A p \in Payments : payment[p].status # "none" => payment[p].order \in Orders
  BY ServiceFacts DEF DineBase, MoneyTypes, PaymentsNamed, SettleTypeOK
<1>2. ASSUME NEW c \in Calls, Pays(c)
      PROVE  (\A q \in Orders : Kept(q)) /\ writtenOff' = writtenOff
  <2>1. PICK o \in Orders, a \in 1..MaxTotal, st \in {"completed", "pending"},
             k \in PayKeys \union {NoPayKey}, p \in Payments : RecordPayment(o, a, st, k, p)
    BY <1>2 DEF Pays, Pay
  <2> DEFINE n == order[o].paid + (IF st = "completed" THEN a ELSE 0)
  <2>2. order' = [order EXCEPT ![o] = Settled(order[o], n)] /\ writtenOff' = writtenOff
    BY <2>1 DEF RecordPayment
  <2>3. n \in Nat /\ n >= order[o].paid
    BY <1>1, MaxTotalIsNatural
  <2> HIDE DEF n
  <2> QED BY <1>1, <2>2, <2>3, KeptSettled
<1>3. CASE Corrects
  <2>1. \A p \in Payments : ~Refund(p)
    BY DEF Refund, May, Undisturbed
  <2>2. PICK p \in Payments, st \in {"completed", "failed"} : Resolve(p, st)
    BY <1>3, <2>1 DEF Corrects
  <2> DEFINE o == payment[p].order
             a == payment[p].amount
             delta == IF st = "completed" THEN a
                      ELSE IF payment[p].status = "completed" THEN -a ELSE 0
             n == IF order[o].paid + delta < 0 THEN 0 ELSE order[o].paid + delta
  <2>3. /\ o \in Orders /\ a \in Nat /\ payment[p].status = "pending"
        /\ order' = [order EXCEPT ![o] = Settled(order[o], n)] /\ writtenOff' = writtenOff
    <3>1. UpdatePaymentStatus(p, st) /\ payment[p].status = "pending"
      BY <2>2 DEF Resolve
    <3> QED BY <1>1, <3>1 DEF UpdatePaymentStatus, PaymentDoc
  <2>4. delta \in Nat
    BY <2>3
  <2>5. n \in Nat /\ n >= order[o].paid
    <3> HIDE DEF delta, o
    <3> QED BY <1>1, <2>3, <2>4
  <2> HIDE DEF n, o, a, delta
  <2> QED BY <1>1, <2>3, <2>5, KeptSettled
<1> QED BY <1>2, <1>3

LEMMA PartCuts ==
  ASSUME Undisturbed, ServiceInv, NEW c \in Calls, PartTx(c)
  PROVE  /\ \A q \in Orders : Kept(q) \/ Cut(q)
         /\ \A s \in Sessions : \/ activeOrder'[s] = activeOrder[s]
                                \/ /\ activeOrder'[s] = NoOrder
                                   /\ order'[activeOrder[s]].status = "cancelled"
<1> DEFINE b  == call[c]
           o  == b.ticket.order
           g  == b.bill.grand - b.n
           st == IF g = 0 THEN "cancelled" ELSE b.bill.status
<1>1. /\ order \in [Orders -> OrderDoc] /\ \A q \in Orders : order[q].paid <= order[q].grand
      /\ CallOK(b, PlacedOrders) /\ activeOrder \in [Sessions -> Orders \union {NoOrder}]
  BY ServiceFacts DEF DineBase, DineTypeOK
<1>2. CASE ~(StillOpen(b) /\ BillUnchanged(b))
  <2>1. order' = order /\ activeOrder' = activeOrder
    BY <1>2 DEF PartTx
  <2> QED BY <1>1, <2>1, KeptSame
<1>3. CASE StillOpen(b) /\ BillUnchanged(b)
  <2>1. /\ b.n \in 1..MaxQty /\ o \in PlacedOrders /\ b.bill \in OrderDoc
        /\ b.bill.status \notin TerminalOrder
        /\ b.n <= b.bill.grand /\ b.bill.paid <= b.bill.grand - b.n
    BY <1>1 DEF PartTx, In, CallOK, PartOK, TicketWith, BillWith
  <2>2. /\ order[o].grand = b.bill.grand /\ order[o].paid = b.bill.paid /\ OrderOpen(o)
        /\ order' = [order EXCEPT ![o] = Repriced(order[o], g, st)]
        /\ \/ activeOrder' = activeOrder
           \/ /\ g = 0 /\ activeOrder[sessOf[o]] = o
              /\ activeOrder' = [activeOrder EXCEPT ![sessOf[o]] = NoOrder]
    BY <1>3 DEF PartTx, BillUnchanged, StillOpen
  <2>3. o \in Orders /\ Placed(o) /\ order[o].paid \in Nat /\ order[o].grand \in Nat
    BY <1>1, <2>1 DEF PlacedOrders, OrderDoc
  <2>4. g \in Nat /\ g < order[o].grand /\ order[o].paid <= g
    BY <2>1, <2>2, <2>3, MaxQtyIsNatural
  <2>5. st # "completed" /\ (st = "cancelled" <=> g = 0)
    BY <2>1 DEF TerminalOrder
  <2>6. /\ order'[o].grand = g /\ order'[o].paid = order[o].paid /\ order'[o].status = st
        /\ \A q \in Orders \ {o} : order'[q] = order[q]
    <3> HIDE DEF g, st, o
    <3> QED BY <1>1, <2>2, <2>3 DEF Repriced, OrderDoc
  <2>7. Cut(o)
    <3> HIDE DEF g, st, o
    <3> QED BY <2>2, <2>3, <2>4, <2>5, <2>6 DEF Cut
  <2>8. \A q \in Orders \ {o} : Kept(q)
    <3> HIDE DEF g, st, o
    <3> QED BY <1>1, <2>6 DEF Kept, OrderDoc
  <2>9. \A s \in Sessions : \/ activeOrder'[s] = activeOrder[s]
                            \/ /\ activeOrder'[s] = NoOrder
                               /\ order'[activeOrder[s]].status = "cancelled"
    <3> HIDE DEF g, st, o
    <3> QED BY <1>1, <2>2, <2>5, <2>6
  <2> QED BY <2>7, <2>8, <2>9
<1> QED BY <1>2, <1>3

LEMMA OrderStep ==
  ASSUME Undisturbed, ServiceInv, BillsInv, DineNext, \A c \in Calls : ~CommitBill(c)
  PROVE  /\ \A q \in Orders : Kept(q) \/ Cut(q)
         /\ \A s \in Sessions : \/ activeOrder'[s] = activeOrder[s]
                                \/ /\ activeOrder'[s] = NoOrder
                                   /\ order'[activeOrder[s]].status = "cancelled"
         /\ sessOf' = sessOf /\ writtenOff' = writtenOff
<1>1. order \in [Orders -> OrderDoc]
  BY ServiceFacts
<1>2. ASSUME NEW c \in Calls, PartTx(c)
      PROVE  sessOf' = sessOf /\ writtenOff' = writtenOff
  BY <1>2 DEF PartTx
<1>3. ASSUME NEW c \in Calls, OrderWrites(c)
      PROVE  /\ \A q \in Orders : Kept(q)
             /\ UNCHANGED <<sessOf, activeOrder, writtenOff>>
  <2>1. ~CancelWrite(c) /\ ~SendStatus(c) /\ ~ReopenWrite(c)
    BY ServiceFacts DEF CancelWrite, SendStatus, ReopenWrite, In
  <2>2. writtenOff' = writtenOff
    BY <1>3, <2>1 DEF OrderWrites, SyncWrite, FinWrite, CompWrite, CloseComplete, StatusWrite,
                      CompleteOrderWrite, settleVars
  <2> QED BY <1>3, <2>2, WriteKeeps, OrdersOnly DEF billVars
<1>4. CASE Corrects \/ \E c \in Calls : Pays(c)
  BY <1>4, PaymentKeeps, OrdersOnly DEF billVars
<1>5. ASSUME \/ Seat
             \/ \E c \in Calls : \/ Asks(c) \/ Reads(c) \/ KotWrites(c) \/ ReplyBill(c)
                                 \/ CloseTx(c)
      PROVE  UNCHANGED <<order, writtenOff, sessOf, activeOrder>>
  BY <1>5, ReadsOnly, KotsOnly, TablesOnly DEF settleVars, billVars, ReplyBill
<1> QED BY <1>1, <1>2, <1>3, <1>4, <1>5, PartCuts, KeptSame, StepKinds

(* The kitchen gets no work but by a submission.                              *)
LEMMA LiveShrink ==
  ASSUME NEW o,
         \A k \in Kots : \/ kot'[k] = kot[k]
                         \/ kot'[k].order # o
                         \/ kot'[k].order = kot[k].order /\ kot[k].status \notin TerminalKot
  PROVE  LiveKots(o)' \subseteq LiveKots(o)
BY DEF LiveKots, KotsOf

LEMMA KitchenStep ==
  ASSUME Undisturbed, ServiceInv, DineNext, \A c \in Calls : ~CommitBill(c)
  PROVE  \A o \in Orders : LiveKots(o)' \subseteq LiveKots(o)
<1>1. DineBase /\ kot \in [Kots -> KotDoc] /\ \A c \in Calls : \A t \in Kots : ~SendWrite(c, t)
  BY ServiceFacts DEF SendWrite, In
<1>2. ASSUME NEW k \in Kots
      PROVE  \/ kot'[k] = kot[k]
             \/ kot'[k].order = kot[k].order /\ kot[k].status \notin TerminalKot
  <2>1. kot[k].status \in TerminalKot => kot'[k] = kot[k]
    BY <1>1, TerminalKotSame
  <2>2. ASSUME NEW c \in Calls, PartTx(c)
        PROVE  kot'[k] = kot[k] \/ kot'[k].order = kot[k].order
    <3>1. ASSUME NEW j, NEW left, NEW st, kot' = [kot EXCEPT ![j].qty = left, ![j].status = st]
          PROVE  kot'[k].order = kot[k].order
      <4>1. j = k => kot'[k] = [kot[k] EXCEPT !.qty = left, !.status = st]
        BY <1>1, <3>1 DEF KotDoc
      <4>2. j # k => kot'[k] = kot[k]
        BY <1>1, <3>1
      <4> QED BY <1>1, <4>1, <4>2 DEF KotDoc
    <3>2. \/ kot' = kot
          \/ \E left, st : kot' = [kot EXCEPT ![call[c].k].qty = left, ![call[c].k].status = st]
      BY <2>2 DEF PartTx
    <3> QED BY <3>1, <3>2
  <2>3. CASE \A c \in Calls : ~PartTx(c)
    <3>1. ASSUME NEW j \in Kots, NEW st \in KotStatus, StatusTo(j, st)
          PROVE  kot'[k].order = kot[k].order
      BY <1>1, <3>1 DEF StatusTo, KotDoc
    <3>2. kot' = kot \/ \E j \in Kots, st \in KotStatus : StatusTo(j, st)
      BY <1>1, <2>3, KotsWritten
    <3> QED BY <2>1, <3>1, <3>2
  <2> QED BY <2>1, <2>2, <2>3
<1> QED BY <1>2, LiveShrink

-----------------------------------------------------------------------------
(* So what the handlers rely on stays.                                        *)
Steady ==
  /\ sessOf' = sessOf
  /\ \A o \in Orders : /\ order[o].grand \in Nat /\ order'[o].grand \in Nat
                       /\ order'[o].grand <= order[o].grand
                       /\ order[o].status \in TerminalOrder =>
                            order'[o].status = order[o].status
                       /\ PaidFor(o) => PaidFor(o)'
                       /\ Done(o) => Done(o)'

LEMMA StepIsSteady ==
  ASSUME Undisturbed, ServiceInv, ServiceInv', BillsInv, DineNext,
         \A c \in Calls : ~CommitBill(c)
  PROVE  Steady
<1>1. \A o \in Orders : order'[o].paid <= order'[o].grand /\ order'[o].grand \in Nat
                        /\ order'[o].paid \in Nat
  <2>1. order' \in [Orders -> OrderDoc] /\ NeverOverpaid'
    BY DEF ServiceInv, IInv, NoneOverpaid, Undisturbed, SettleTypeOK
  <2> QED BY <2>1 DEF NeverOverpaid, OrderDoc
<1>2. \A o \in Orders : order[o].paid \in Nat /\ order[o].grand \in Nat
  BY ServiceFacts
<1>3. sessOf' = sessOf /\ \A o \in Orders : Kept(o) \/ Cut(o)
  BY OrderStep
<1>4. \A o \in Orders : LiveKots(o)' \subseteq LiveKots(o)
  BY KitchenStep
<1>5. ASSUME NEW o \in Orders
      PROVE  /\ order'[o].grand <= order[o].grand
             /\ order[o].status \in TerminalOrder => order'[o].status = order[o].status
             /\ PaidFor(o) => PaidFor(o)'
  <2>1. Kept(o) \/ Cut(o)
    BY <1>3
  <2>2. /\ order'[o].paid <= order'[o].grand /\ order'[o].grand \in Nat /\ order'[o].paid \in Nat
        /\ order[o].paid \in Nat /\ order[o].grand \in Nat
    BY <1>1, <1>2
  <2> QED BY <2>1, <2>2 DEF Kept, Cut, PaidFor, OrderOpen
<1>6. \A o \in Orders : Done(o) => Done(o)'
  BY <1>4, <1>5 DEF Done
<1> QED BY <1>1, <1>2, <1>3, <1>5, <1>6 DEF Steady

LEMMA SessionStays ==
  ASSUME Steady, NEW s
  PROVE  /\ SessionDone(s) => SessionDone(s)'
         /\ \A X : Covered(s, X) => Covered(s, X)'
<1>1. OrdersOf(s)' = OrdersOf(s) /\ OrdersOf(s) \subseteq Orders
  BY DEF Steady, OrdersOf
<1>2. \A o \in Orders : ~OrderOpen(o) => ~OrderOpen(o)'
  BY DEF Steady, OrderOpen
<1>3. SessionDone(s) => SessionDone(s)'
  BY <1>1, <1>2 DEF SessionDone
<1>4. ASSUME NEW X, Covered(s, X)
      PROVE  Covered(s, X)'
  BY <1>1, <1>2, <1>4 DEF Covered
<1> QED BY <1>3, <1>4

LEMMA SeenStays ==
  ASSUME Steady, NEW X, \A x \in X : x.o \in Orders, Seen(X)
  PROVE  Seen(X)'
BY DEF Steady, Seen, OrderOpen

LEMMA ClosingStays ==
  ASSUME Steady, NEW b, CloseOK(b, PlacedOrders), Closing(b)
  PROVE  Closing(b)'
<1>1. SessionDone(b.s) => SessionDone(b.s)'
  BY SessionStays
<1>2. ASSUME b.at \in {"closeNext"} \union AtOrder
      PROVE  /\ Covered(b.s, Left(b)) => Covered(b.s, Left(b))'
             /\ Seen(Left(b)) => Seen(Left(b))'
  <2>1. \A x \in Left(b) : x.o \in Orders
    BY <1>2 DEF CloseOK, OnOrderCall, SeenOrder, AtOrder, Left, PlacedOrders
  <2> DEFINE X == Left(b)
  <2>2. X' = X
    BY DEF Left
  <2>3. Seen(X) => Seen(X)'
    <3> HIDE DEF X
    <3> QED BY <2>1, <2>2, SeenStays DEF X
  <2>4. Covered(b.s, X) => Covered(b.s, X)'
    BY SessionStays
  <2> QED BY <2>3, <2>4
<1> QED BY <1>1, <1>2 DEF Closing

LEMMA RelyStays ==
  ASSUME Steady, NEW b, CallOK(b, PlacedOrders), CallTrue(b)
  PROVE  CallTrue(b)'
<1>1. FinTrue(b)'
  <2>1. b.at \in {"finPay", "finKots", "compKots", "finWrite", "compPay", "compWrite",
                  "finSession", "finOrders"} => b.o \in Orders
    BY DEF CallOK, FinOK, OrderLabels, PlacedOrders
  <2>2. b.at = "finPay" => b.grand > 0 /\ order'[b.o].grand <= b.grand
    <3>1. b.at = "finPay" => b.grand \in Nat
      BY DEF CallOK, FinOK
    <3>2. b.at = "finPay" => order[b.o].grand \in Nat
      BY <2>1 DEF Steady
    <3> QED BY <2>1, <3>1, <3>2 DEF Steady, CallTrue, FinTrue
  <2>3. b.at \in {"finKots", "compKots"} => PaidFor(b.o)'
    BY <2>1 DEF Steady, CallTrue, FinTrue
  <2>4. b.at \in {"finWrite", "compPay", "compWrite"} => Done(b.o)'
    BY <2>1 DEF Steady, CallTrue, FinTrue
  <2>5. b.at \in {"finSession", "finOrders"} /\ b.done => order'[b.o].status = "completed"
    BY <2>1 DEF Steady, CallTrue, FinTrue, TerminalOrder
  <2>6. b.at = "finTickets" => SessionDone(b.s)'
    BY SessionStays DEF CallTrue, FinTrue
  <2> QED BY <2>2, <2>3, <2>4, <2>5, <2>6 DEF FinTrue
<1>2. SyncTrue(b)'
  BY DEF CallTrue, SyncTrue
<1>3. CloseTrue(b)'
  <2>1. Closing(b)'
    BY ClosingStays DEF CallTrue, CloseTrue, CallOK
  <2>2. ASSUME b.at = "closeServe"
        PROVE  Closing(b.then)'
    <3>1. b.then \in OnOrderCall({"closePay"}, PlacedOrders) /\ Closing(b.then)
      BY <2>2 DEF CallTrue, CloseTrue, CallOK, CloseOK
    <3>2. CloseOK(b.then, PlacedOrders)
      BY <3>1 DEF CloseOK, OnOrderCall
    <3> QED BY <3>1, <3>2, ClosingStays
  <2> QED BY <2>1, <2>2 DEF CloseTrue
<1> QED BY <1>1, <1>2, <1>3 DEF CallTrue

LEMMA TrueNow ==
  ASSUME NEW c, NEW n, call'[c] = n, CallTrue(n)'
  PROVE  CallTrue(call[c])'
BY DEF CallTrue, FinTrue, SyncTrue, CloseTrue, Closing, Left, AtOrder

-----------------------------------------------------------------------------
(* The awaits that rely on something, by what they rely on.                   *)
FinClaims == {"finPay", "finKots", "compKots", "finWrite", "compPay", "compWrite", "finSession",
              "finOrders", "finTickets"}

SyncClaims == {"sync", "syncKots", "syncWrite", "dropKot"}

CloseClaims == {"close", "closeOrders", "closeNext", "closeTx", "closeServe"} \union AtOrder

LEMMA NoClaim ==
  ASSUME NEW n, n.at \notin FinClaims \union SyncClaims \union CloseClaims
  PROVE  CallTrue(n)
BY DEF FinClaims, SyncClaims, CloseClaims, CallTrue, FinTrue, SyncTrue, CloseTrue, Closing, AtOrder

LEMMA FinClaim == ASSUME NEW n, n.at \in FinClaims, FinTrue(n) PROVE CallTrue(n)
BY DEF FinClaims, CallTrue, SyncTrue, CloseTrue, Closing, AtOrder

LEMMA SyncClaim == ASSUME NEW n, n.at \in SyncClaims, SyncTrue(n) PROVE CallTrue(n)
BY DEF SyncClaims, CallTrue, FinTrue, CloseTrue, Closing, AtOrder

LEMMA CloseClaim == ASSUME NEW n, n.at \in CloseClaims, CloseTrue(n) PROVE CallTrue(n)
BY DEF CloseClaims, CallTrue, FinTrue, SyncTrue, AtOrder

LEMMA NextClaim ==
  ASSUME NEW n \in FinCall(PlacedOrders)
  PROVE  CallTrue(n)
BY NoClaim DEF FinCall, Idle, FinClaims, SyncClaims, CloseClaims, AtOrder

LEMMA IdleClaim == CallTrue(Idle) /\ \A o : CallTrue(Finalize(o))
BY NoClaim DEF Finalize, Idle, FinClaims, SyncClaims, CloseClaims, AtOrder

LEMMA Lands ==
  ASSUME DOMAIN call = Calls, NEW c \in Calls, NEW n, Goto(c, n)
  PROVE  call'[c] = n /\ \A d \in Calls \ {c} : call'[d] = call[d]
BY DEF Goto

LEMMA Arrives ==
  ASSUME DOMAIN call = Calls, NEW c \in Calls, NEW n, Goto(c, n), CallTrue(n)
  PROVE  CallTrue(call'[c])
BY Lands

-----------------------------------------------------------------------------
(* Every step of a handler leaves it relying on what it has just read.        *)
LEMMA SyncRelies ==
  ASSUME Undisturbed, ServiceInv, BillsInv, NEW c \in Calls,
         SyncRead(c) \/ SyncKots(c) \/ SyncWrite(c)
  PROVE  CallTrue(call'[c])
<1> DEFINE b == call[c]
<1>1. DOMAIN call = Calls /\ CallOK(b, PlacedOrders) /\ CallTrue(b)
  BY ServiceFacts DEF BillsInv
<1>2. b.by \in Staff /\ b.next \in FinCall(PlacedOrders) /\ CallTrue(b.next)
  <2>1. b.at \in {"sync", "syncKots", "syncWrite"}
    BY DEF SyncRead, SyncKots, SyncWrite, In
  <2>2. b.next \in FinCall(PlacedOrders) /\ b.by \in Staff
    BY <1>1, <2>1 DEF CallOK, SyncOK, CallTrue, SyncTrue
  <2> QED BY <2>2, NextClaim
<1>3. CASE SyncRead(c)
  <2> DEFINE n == [at |-> "syncKots", o |-> b.o, by |-> b.by, next |-> b.next,
                   seen |-> order[b.o].status]
  <2>1. CASE OrderOpen(b.o)
    <3>1. Goto(c, n)
      BY <1>3, <2>1 DEF SyncRead
    <3>2. n.at \in SyncClaims /\ SyncTrue(n)
      BY <1>2, <2>1 DEF SyncClaims, SyncTrue, OrderOpen
    <3>3. CallTrue(n)
      <4> HIDE DEF n
      <4> QED BY <3>2, SyncClaim
    <3> HIDE DEF n
    <3> QED BY <1>1, <3>1, <3>3, Lands
  <2>2. CASE ~OrderOpen(b.o)
    <3>1. Goto(c, b.next)
      BY <1>3, <2>2 DEF SyncRead
    <3> QED BY <1>1, <1>2, <3>1, Lands
  <2> QED BY <2>1, <2>2
<1>4. CASE SyncKots(c)
  <2> DEFINE new == AggregateStatus(b.seen, {kot[k].status : k \in KotsOf(b.o)})
             n == [at |-> "syncWrite", o |-> b.o, by |-> b.by, next |-> b.next, new |-> new]
  <2>1. b.seen \notin TerminalOrder
    BY <1>1, <1>4 DEF SyncKots, In, CallTrue, SyncTrue
  <2>2. new # "completed"
    BY <2>1 DEF AggregateStatus, TerminalOrder
  <2>3. Goto(c, n) \/ Goto(c, b.next)
    BY <1>4 DEF SyncKots
  <2>4. n.at \in SyncClaims /\ SyncTrue(n)
    <3> HIDE DEF new
    <3> QED BY <1>2, <2>2 DEF SyncClaims, SyncTrue
  <2>5. CallTrue(n)
    <3> HIDE DEF n
    <3> QED BY <2>4, SyncClaim
  <2> HIDE DEF n
  <2> QED BY <1>1, <1>2, <2>3, <2>5, Lands
<1>5. CASE SyncWrite(c)
  <2>1. Goto(c, b.next)
    BY <1>5 DEF SyncWrite
  <2> QED BY <1>1, <1>2, <2>1, Lands
<1> QED BY <1>3, <1>4, <1>5

LEMMA CheckClaim ==
  ASSUME NEW o, NEW done, done => order[o].status = "completed"
  PROVE  CallTrue(SessionCheck(o, done))
<1> DEFINE n == SessionCheck(o, done)
<1>1. n.at \in FinClaims /\ FinTrue(n)
  BY DEF SessionCheck, FinClaims, FinTrue
<1> HIDE DEF n
<1>2. CallTrue(n)
  BY <1>1, FinClaim
<1> QED BY <1>2 DEF n

LEMMA FinRelies ==
  ASSUME Undisturbed, ServiceInv, BillsInv, NEW c \in Calls,
         FinRead(c) \/ FinPay(c) \/ FinKots(c)
  PROVE  CallTrue(call'[c])
<1> DEFINE b == call[c]
           o == b.o
<1>1. /\ DOMAIN call = Calls /\ CallOK(b, PlacedOrders) /\ CallTrue(b)
      /\ OrdersTrue
  BY ServiceFacts DEF BillsInv
<1>2. o \in Orders /\ Placed(o)
  BY <1>1 DEF FinRead, FinPay, FinKots, In, CallOK, FinOK, OrderLabels, PlacedOrders
<1>3. /\ order[o].grand \in Nat /\ order[o].paid \in Nat /\ order[o].paid <= order[o].grand
      /\ order[o].paid = Cardinality(Till(o))
  BY <1>2, ServiceFacts
<1>4. CASE FinRead(c)
  <2> DEFINE n == [at |-> "finPay", o |-> o, grand |-> order[o].grand]
  <2>1. CASE OrderOpen(o)
    <3>1. Goto(c, n)
      BY <1>4, <2>1 DEF FinRead
    <3>2. n.at \in FinClaims /\ FinTrue(n)
      BY <1>1, <1>2, <1>3, <2>1 DEF FinClaims, FinTrue, OrdersTrue
    <3> HIDE DEF n
    <3>3. CallTrue(n)
      BY <3>2, FinClaim
    <3> QED BY <1>1, <3>1, <3>3, Lands
  <2>2. CASE ~OrderOpen(o)
    <3> DEFINE m == SessionCheck(o, order[o].status = "completed")
    <3>1. Goto(c, m)
      BY <1>4, <2>2 DEF FinRead
    <3>2. CallTrue(m)
      BY CheckClaim
    <3> HIDE DEF m
    <3> QED BY <1>1, <3>1, <3>2, Lands
  <2> QED BY <2>1, <2>2
<1>5. CallTrue(SessionCheck(o, FALSE))
  BY CheckClaim
<1>6. CASE FinPay(c)
  <2> DEFINE n == [at |-> "finKots", o |-> o]
  <2>1. CASE Cardinality(Till(o)) = b.grand /\ ~PendingPayment(o)
    <3>1. Goto(c, n)
      BY <1>6, <2>1 DEF FinPay
    <3>2. b.grand > 0 /\ order[o].grand <= b.grand
      BY <1>1, <1>6 DEF FinPay, In, CallTrue, FinTrue
    <3>3. PaidFor(o)
      BY <1>3, <2>1, <3>2 DEF PaidFor
    <3>4. n.at \in FinClaims /\ FinTrue(n)
      BY <3>3 DEF FinClaims, FinTrue
    <3> HIDE DEF n
    <3>5. CallTrue(n)
      BY <3>4, FinClaim
    <3> QED BY <1>1, <3>1, <3>5, Lands
  <2>2. CASE ~(Cardinality(Till(o)) = b.grand /\ ~PendingPayment(o))
    <3>1. Goto(c, SessionCheck(o, FALSE))
      BY <1>6, <2>2 DEF FinPay
    <3> QED BY <1>1, <1>5, <3>1, Lands
  <2> QED BY <2>1, <2>2
<1>7. CASE FinKots(c)
  <2> DEFINE n == [at |-> "finWrite", o |-> o]
  <2>1. CASE KitchenDone(o)
    <3>1. Goto(c, n)
      BY <1>7, <2>1 DEF FinKots
    <3>2. Done(o)
      BY <1>1, <1>7, <2>1 DEF FinKots, In, CallTrue, FinTrue, Done, KitchenDone
    <3>3. n.at \in FinClaims /\ FinTrue(n)
      BY <3>2 DEF FinClaims, FinTrue
    <3> HIDE DEF n
    <3>4. CallTrue(n)
      BY <3>3, FinClaim
    <3> QED BY <1>1, <3>1, <3>4, Lands
  <2>2. CASE ~KitchenDone(o)
    <3>1. Goto(c, SessionCheck(o, FALSE))
      BY <1>7, <2>2 DEF FinKots
    <3> QED BY <1>1, <1>5, <3>1, Lands
  <2> QED BY <2>1, <2>2
<1> QED BY <1>4, <1>6, <1>7

LEMMA TableRelies ==
  ASSUME Undisturbed, ServiceInv, BillsInv, NEW c \in Calls,
         FinSession(c) \/ FinOrders(c) \/ FinTickets(c)
  PROVE  CallTrue(call'[c])
<1> DEFINE b == call[c]
<1>1. DOMAIN call = Calls /\ CallOK(b, PlacedOrders) /\ CallTrue(b)
  BY ServiceFacts DEF BillsInv
<1>2. CASE FinSession(c)
  <2> DEFINE n == [at |-> "finOrders", o |-> b.o, done |-> b.done]
  <2>1. Goto(c, n) \/ Goto(c, Idle)
    BY <1>2 DEF FinSession
  <2>2. n.at \in FinClaims /\ FinTrue(n)
    BY <1>1, <1>2 DEF FinSession, In, CallTrue, FinTrue, FinClaims
  <2> HIDE DEF n
  <2>3. CallTrue(n)
    BY <2>2, FinClaim
  <2> QED BY <1>1, <2>1, <2>3, IdleClaim, Lands
<1>3. CASE FinOrders(c)
  <2> DEFINE s == sessOf[b.o]
             n == [at |-> "finTickets", s |-> s, todo |-> OrdersOf(s)]
  <2>1. CASE AllSettled(s, IF b.done THEN {b.o} ELSE {})
    <3>1. Goto(c, n)
      BY <1>3, <2>1 DEF FinOrders
    <3>2. b.done => order[b.o].status = "completed"
      BY <1>1, <1>3 DEF FinOrders, In, CallTrue, FinTrue
    <3>3. SessionDone(s)
      <4> HIDE DEF s
      <4> QED BY <2>1, <3>2 DEF AllSettled, SessionDone, OrderOpen, TerminalOrder
    <3>4. n.at \in FinClaims /\ FinTrue(n)
      BY <3>3 DEF FinClaims, FinTrue
    <3> HIDE DEF n
    <3>5. CallTrue(n)
      BY <3>4, FinClaim
    <3> QED BY <1>1, <3>1, <3>5, Lands
  <2>2. CASE ~AllSettled(s, IF b.done THEN {b.o} ELSE {})
    <3>1. Goto(c, Idle)
      BY <1>3, <2>2 DEF FinOrders
    <3> QED BY <1>1, <3>1, IdleClaim, Lands
  <2> QED BY <2>1, <2>2
<1>4. CASE FinTickets(c)
  <2> DEFINE m == Close(b.s, "server", TRUE)
  <2>1. SessionDone(b.s) /\ b \in [at : {"finTickets"}, s : Sessions, todo : SUBSET PlacedOrders]
    BY <1>1, <1>4 DEF FinTickets, In, CallTrue, FinTrue, CallOK, FinOK
  <2>2. CallTrue(m)
    <3>1. m.at \in CloseClaims /\ CloseTrue(m)
      BY <2>1 DEF Close, CloseClaims, CloseTrue, Closing, AtOrder
    <3> HIDE DEF m
    <3> QED BY <3>1, CloseClaim
  <2>3. ASSUME NEW X
        PROVE  CallTrue([b EXCEPT !.todo = X])
    <3> DEFINE n == [b EXCEPT !.todo = X]
    <3>1. n.at = "finTickets" /\ n.s = b.s
      BY <2>1
    <3>2. n.at \in FinClaims /\ FinTrue(n)
      BY <2>1, <3>1 DEF FinClaims, FinTrue
    <3> HIDE DEF n
    <3>3. CallTrue(n)
      BY <3>2, FinClaim
    <3> QED BY <3>3 DEF n
  <2>4. Goto(c, Idle) \/ Goto(c, m) \/ \E X : Goto(c, [b EXCEPT !.todo = X])
    BY <1>4 DEF FinTickets
  <2>5. CASE \E X : Goto(c, [b EXCEPT !.todo = X])
    <3>1. PICK X : Goto(c, [b EXCEPT !.todo = X])
      BY <2>5
    <3> QED BY <1>1, <2>3, <3>1, Arrives
  <2>6. CASE Goto(c, Idle) \/ Goto(c, m)
    <3> HIDE DEF m
    <3> QED BY <1>1, <2>2, <2>6, IdleClaim, Arrives
  <2> QED BY <2>4, <2>5, <2>6
<1> QED BY <1>2, <1>3, <1>4

(* The closing of a session, await by await.                                  *)
LEMMA OrderClaim ==
  ASSUME NEW n, n.at \in {"closeNext"} \union AtOrder, n.by # "kitchen",
         n.at = "closeComplete" => n.by # "server",
         n.by = "server" => \A x \in Left(n) : x.status \in TerminalOrder,
         "captain" \notin Staff => Covered(n.s, Left(n)) /\ Seen(Left(n))
  PROVE  Closing(n) /\ CallTrue(n)
<1>1. Closing(n)
  BY DEF Closing, AtOrder
<1>2. n.at \in CloseClaims /\ CloseTrue(n)
  BY <1>1 DEF CloseClaims, CloseTrue, AtOrder
<1> QED BY <1>1, <1>2, CloseClaim

LEMMA TxClaim ==
  ASSUME NEW s, "captain" \notin Staff => SessionDone(s)
  PROVE  CallTrue([at |-> "closeTx", s |-> s])
<1> DEFINE n == [at |-> "closeTx", s |-> s]
<1>1. n.at \in CloseClaims /\ CloseTrue(n)
  BY DEF CloseClaims, CloseTrue, Closing, AtOrder
<1> HIDE DEF n
<1>2. CallTrue(n)
  BY <1>1, CloseClaim
<1> QED BY <1>2 DEF n

(* The order at hand is one of those left.                                    *)
LEMMA HandClaim ==
  ASSUME NEW r, NEW at \in AtOrder, NEW x, r.by # "kitchen",
         at = "closeComplete" => r.by # "server",
         LET X == r.todo \union {x}
         IN  /\ r.by = "server" => \A y \in X : y.status \in TerminalOrder
             /\ "captain" \notin Staff => Covered(r.s, X) /\ Seen(X)
  PROVE  Closing(OnOrder(r, at, x)) /\ CallTrue(OnOrder(r, at, x))
<1> DEFINE n == OnOrder(r, at, x)
<1>1. n.at = at /\ n.by = r.by /\ n.s = r.s /\ n.todo = r.todo /\ n.x = x
  BY DEF OnOrder
<1> HIDE DEF n
<1>2. Left(n) = r.todo \union {x}
  BY <1>1 DEF Left, AtOrder
<1>3. Closing(n) /\ CallTrue(n)
  BY <1>1, <1>2, OrderClaim
<1> QED BY <1>3 DEF n

LEMMA ReadingRelies ==
  ASSUME Undisturbed, ServiceInv, BillsInv, NEW c \in Calls, CloseRead(c) \/ CloseOrders(c)
  PROVE  CallTrue(call'[c])
<1> DEFINE b == call[c]
<1>1. DOMAIN call = Calls /\ CallOK(b, PlacedOrders) /\ CallTrue(b)
  BY ServiceFacts DEF BillsInv
<1>2. /\ b \in [at : {"close", "closeOrders"}, s : Sessions, by : By, auto : BOOLEAN]
      /\ b.by # "kitchen" /\ (b.by = "server" => SessionDone(b.s))
  BY <1>1 DEF CloseRead, CloseOrders, In, CallOK, CloseOK, CallTrue, CloseTrue, Closing
<1>3. CASE CloseRead(c)
  <2> DEFINE n == [b EXCEPT !.at = "closeOrders"]
  <2>1. n.at = "closeOrders" /\ n.s = b.s /\ n.by = b.by
    BY <1>2
  <2>2. n.at \in CloseClaims /\ CloseTrue(n)
    <3> HIDE DEF n
    <3> QED BY <1>2, <2>1 DEF CloseClaims, CloseTrue, Closing, AtOrder
  <2>3. Goto(c, n) \/ Goto(c, Idle)
    BY <1>3 DEF CloseRead
  <2> HIDE DEF n
  <2>4. CallTrue(n)
    BY <2>2, CloseClaim
  <2> QED BY <1>1, <2>3, <2>4, IdleClaim, Arrives
<1>4. CASE CloseOrders(c)
  <2> DEFINE read == {[o |-> o, status |-> order[o].status, due |-> order[o].due] :
                        o \in OrdersOf(b.s)}
             n == [at |-> "closeNext", s |-> b.s, by |-> b.by, auto |-> b.auto, todo |-> read]
  <2>1. Goto(c, n)
    BY <1>4 DEF CloseOrders
  <2>2. /\ b.by = "server" => \A x \in read : x.status \in TerminalOrder
        /\ Covered(b.s, read) /\ Seen(read)
    <3>1. \A x \in read : \E o \in OrdersOf(b.s) : x.o = o /\ x.status = order[o].status
      OBVIOUS
    <3>2. \A o \in OrdersOf(b.s) :
             \E x \in read : x = [o |-> o, status |-> order[o].status, due |-> order[o].due]
      OBVIOUS
    <3>3. \A o \in OrdersOf(b.s) : \E x \in read : x.o = o
      BY <3>2
    <3> HIDE DEF read
    <3> QED BY <1>2, <3>1, <3>3 DEF SessionDone, Covered, Seen, OrderOpen
  <2>3. n.at = "closeNext" /\ n.by = b.by /\ n.s = b.s /\ Left(n) = read
    BY DEF Left
  <2> HIDE DEF n, read
  <2>4. CallTrue(n)
    BY <1>2, <2>2, <2>3, OrderClaim
  <2> QED BY <1>1, <2>1, <2>4, Arrives
<1> QED BY <1>3, <1>4

LEMMA NextRelies ==
  ASSUME Undisturbed, ServiceInv, BillsInv, NEW c \in Calls, CloseNext(c)
  PROVE  CallTrue(call'[c])
<1> DEFINE b == call[c]
<1>1. DOMAIN call = Calls /\ CallOK(b, PlacedOrders) /\ CallTrue(b)
  BY ServiceFacts DEF BillsInv
<1>2. /\ b \in [at : {"closeNext"}, s : Sessions, by : By, auto : BOOLEAN,
                todo : SUBSET SeenOrder(PlacedOrders)]
      /\ b.by # "kitchen"
      /\ b.by = "server" => \A x \in b.todo : x.status \in TerminalOrder
      /\ "captain" \notin Staff => Covered(b.s, b.todo) /\ Seen(b.todo)
  BY <1>1 DEF CloseNext, In, CallOK, CloseOK, CallTrue, CloseTrue, Closing, Left
<1>3. CASE b.todo = {} /\ Goto(c, [at |-> "closeTx", s |-> b.s])
  <2>1. "captain" \notin Staff => SessionDone(b.s)
    BY <1>2, <1>3 DEF Covered, SessionDone
  <2> QED BY <1>1, <1>3, <2>1, TxClaim, Arrives
<1>4. ASSUME NEW x \in b.todo, NEW at \in {"closeComplete", "closeTickets"},
             at = "closeComplete" => x.status \notin TerminalOrder,
             Goto(c, OnOrder([b EXCEPT !.todo = @ \ {x}], at, x))
      PROVE  CallTrue(call'[c])
  <2> DEFINE r == [b EXCEPT !.todo = @ \ {x}]
  <2>1. r.s = b.s /\ r.by = b.by /\ r.todo \union {x} = b.todo
    BY <1>2
  <2>2. Goto(c, OnOrder(r, at, x))
    BY <1>4
  <2> HIDE DEF r
  <2>3. CallTrue(OnOrder(r, at, x))
    BY <1>2, <1>4, <2>1, HandClaim DEF AtOrder
  <2> QED BY <1>1, <2>2, <2>3, Arrives
<1>5. CASE Goto(c, Idle)
  BY <1>1, <1>5, IdleClaim, Arrives
<1>6. \/ b.todo = {} /\ Goto(c, [at |-> "closeTx", s |-> b.s])
      \/ Goto(c, Idle)
      \/ \E x \in b.todo, at \in {"closeComplete", "closeTickets"} :
           /\ at = "closeComplete" => x.status \notin TerminalOrder
           /\ Goto(c, OnOrder([b EXCEPT !.todo = @ \ {x}], at, x))
  BY DEF CloseNext
<1> QED BY <1>3, <1>4, <1>5, <1>6

LEMMA HandRelies ==
  ASSUME Undisturbed, ServiceInv, BillsInv, NEW c \in Calls,
         CloseComplete(c) \/ CloseTickets(c) \/ ClosePay(c)
  PROVE  CallTrue(call'[c])
<1> DEFINE b == call[c]
<1>1. DOMAIN call = Calls /\ CallOK(b, PlacedOrders) /\ CallTrue(b)
  BY ServiceFacts DEF BillsInv
<1>2. b.at \in AtOrder
  BY DEF CloseComplete, CloseTickets, ClosePay, In, AtOrder
<1>3. b \in OnOrderCall(AtOrder, PlacedOrders)
  BY <1>1, <1>2 DEF CallOK, CloseOK, AtOrder
<1>4. /\ b.by # "kitchen" /\ (b.at = "closeComplete" => b.by # "server")
      /\ LET X == b.todo \union {b.x}
         IN  /\ b.by = "server" => \A y \in X : y.status \in TerminalOrder
             /\ "captain" \notin Staff => Covered(b.s, X) /\ Seen(X)
  BY <1>1, <1>2 DEF CallTrue, CloseTrue, Closing, Left, AtOrder
<1>5. CASE CloseComplete(c)
  <2>1. b.by \notin {"manager", "server", "kitchen"}
    BY <1>3, <1>4, <1>5 DEF CloseComplete, In, OnOrderCall, By, Undisturbed
  <2>2. \A from : ~MayWriteOrder(b.by, from, "completed")
    BY <2>1 DEF MayWriteOrder, TerminalOrder
  <2>3. Goto(c, OnOrder(b, "closeTickets", b.x))
    BY <1>5, <2>2 DEF CloseComplete
  <2> HIDE DEF b
  <2>4. CallTrue(OnOrder(b, "closeTickets", b.x))
    BY <1>4, HandClaim DEF AtOrder
  <2> QED BY <1>1, <2>3, <2>4, Arrives
<1>6. CASE CloseTickets(c)
  <2> DEFINE then == OnOrder(b, "closePay", b.x)
             n == [at |-> "closeServe", then |-> then, ks |-> LiveKots(b.x.o)]
  <2>1. Goto(c, then) \/ Goto(c, n)
    BY <1>6 DEF CloseTickets
  <2>2. Closing(then) /\ CallTrue(then)
    <3> HIDE DEF b
    <3> QED BY <1>4, HandClaim DEF AtOrder
  <2>3. n.at \in CloseClaims /\ CloseTrue(n)
    <3> HIDE DEF then
    <3> QED BY <2>2 DEF CloseClaims, CloseTrue, Closing, AtOrder
  <2> HIDE DEF n, then
  <2>4. CallTrue(n)
    BY <2>3, CloseClaim
  <2> QED BY <1>1, <2>1, <2>2, <2>4, Arrives
<1>7. CASE ClosePay(c)
  <2> DEFINE n == [at |-> "closeNext", s |-> b.s, by |-> b.by, auto |-> b.auto, todo |-> b.todo]
  <2>1. CASE ~MayReadPayments(b.by)
    <3>1. "captain" \in Staff
      BY <1>3, <1>4, <2>1, StaffAndRequests DEF OnOrderCall, By, Roles, MayReadPayments
    <3>2. Goto(c, [at |-> "closeTx", s |-> b.s])
      BY <1>7, <2>1 DEF ClosePay
    <3> QED BY <1>1, <3>1, <3>2, TxClaim, Arrives
  <2>2. CASE b.x.status \in TerminalOrder
    <3>1. Goto(c, n) \/ Goto(c, Idle) \/ ~MayReadPayments(b.by)
      BY <1>7 DEF ClosePay
    <3>2. "captain" \notin Staff => Covered(b.s, b.todo) /\ Seen(b.todo)
      BY <1>4, <2>2 DEF Covered, Seen
    <3>3. n.at = "closeNext" /\ n.by = b.by /\ n.s = b.s /\ Left(n) = b.todo
      BY DEF Left
    <3> HIDE DEF n
    <3>4. CallTrue(n)
      BY <1>4, <3>2, <3>3, OrderClaim
    <3> QED BY <1>1, <2>1, <3>1, <3>4, IdleClaim, Arrives
  <2>3. CASE MayReadPayments(b.by) /\ b.x.status \notin TerminalOrder
    <3>1. Goto(c, Idle)
      BY <1>7, <2>3 DEF ClosePay
    <3> QED BY <1>1, <3>1, IdleClaim, Arrives
  <2> QED BY <2>1, <2>2, <2>3
<1> QED BY <1>5, <1>6, <1>7

LEMMA ServeRelies ==
  ASSUME Undisturbed, ServiceInv, BillsInv, NEW c \in Calls, CloseServe(c) \/ CloseTx(c)
  PROVE  CallTrue(call'[c])
<1> DEFINE b == call[c]
<1>1. DOMAIN call = Calls /\ CallOK(b, PlacedOrders) /\ CallTrue(b)
  BY ServiceFacts DEF BillsInv
<1>2. CASE CloseServe(c)
  <2>1. /\ b \in [at : {"closeServe"}, then : OnOrderCall({"closePay"}, PlacedOrders),
                  ks : SUBSET Kots]
        /\ Closing(b.then)
    BY <1>1, <1>2 DEF CloseServe, In, CallOK, CloseOK, CallTrue, CloseTrue
  <2> DEFINE m == b.then
  <2>2. CallTrue(m)
    <3>1. m.at = "closePay"
      BY <2>1 DEF OnOrderCall
    <3>2. m.at \in CloseClaims /\ CloseTrue(m)
      BY <2>1, <3>1 DEF CloseClaims, CloseTrue, AtOrder
    <3> HIDE DEF m
    <3> QED BY <3>2, CloseClaim
  <2>3. PICK k \in b.ks : Goto(c, m) \/ Goto(c, [b EXCEPT !.ks = @ \ {k}])
    BY <1>2 DEF CloseServe
  <2> DEFINE n == [b EXCEPT !.ks = @ \ {k}]
  <2>4. n.at = "closeServe" /\ n.then = m
    BY <2>1
  <2>5. Goto(c, m) \/ Goto(c, n)
    BY <2>3
  <2>6. Closing(m)
    BY <2>1
  <2> HIDE DEF n, m
  <2>7. n.at \in CloseClaims /\ CloseTrue(n)
    BY <2>4, <2>6 DEF CloseClaims, CloseTrue, Closing, AtOrder
  <2>8. CallTrue(n)
    BY <2>7, CloseClaim
  <2> QED BY <1>1, <2>2, <2>5, <2>8, Arrives
<1>3. CASE CloseTx(c)
  BY <1>1, <1>3, IdleClaim, Arrives DEF CloseTx, End
<1> QED BY <1>2, <1>3

(* The completion by hand, and what is begun or ends without relying on much. *)
LEMMA CompRelies ==
  ASSUME Undisturbed, ServiceInv, BillsInv, NEW c \in Calls,
         CompKots(c) \/ CompPay(c) \/ CompWrite(c)
  PROVE  CallTrue(call'[c])
<1> DEFINE b == call[c]
<1>1. DOMAIN call = Calls /\ CallTrue(b)
  BY ServiceFacts DEF BillsInv
<1>2. ASSUME NEW at \in {"compPay", "compWrite"}, Done(b.o)
      PROVE  CallTrue([at |-> at, o |-> b.o])
  <2> DEFINE n == [at |-> at, o |-> b.o]
  <2>1. n.at \in FinClaims /\ FinTrue(n)
    BY <1>2 DEF FinClaims, FinTrue
  <2> HIDE DEF n
  <2>2. CallTrue(n)
    BY <2>1, FinClaim
  <2> QED BY <2>2 DEF n
<1>3. CASE CompKots(c)
  <2>1. CASE KitchenDone(b.o)
    <3>1. Done(b.o)
      BY <1>1, <1>3, <2>1 DEF CompKots, In, CallTrue, FinTrue, Done, KitchenDone
    <3>2. Goto(c, [at |-> "compPay", o |-> b.o])
      BY <1>3, <2>1 DEF CompKots
    <3> QED BY <1>1, <1>2, <3>1, <3>2, Arrives
  <2>2. CASE ~KitchenDone(b.o)
    <3>1. Goto(c, Idle)
      BY <1>3, <2>2 DEF CompKots
    <3> QED BY <1>1, <3>1, IdleClaim, Arrives
  <2> QED BY <2>1, <2>2
<1>4. CASE CompPay(c)
  <2>1. Done(b.o)
    BY <1>1, <1>4 DEF CompPay, In, CallTrue, FinTrue
  <2>2. Goto(c, [at |-> "compWrite", o |-> b.o]) \/ Goto(c, Idle)
    BY <1>4 DEF CompPay
  <2> QED BY <1>1, <1>2, <2>1, <2>2, IdleClaim, Arrives
<1>5. CASE CompWrite(c)
  BY <1>1, <1>5, IdleClaim, Arrives DEF CompWrite
<1> QED BY <1>3, <1>4, <1>5

LEMMA AskRelies ==
  ASSUME Undisturbed, ServiceInv, BillsInv, NEW c \in Calls, Asks(c)
  PROVE  CallTrue(call'[c])
<1>1. DOMAIN call = Calls /\ "server" \notin Staff
  BY ServiceFacts
<1>2. ASSUME NEW n, Goto(c, n), n.at \notin FinClaims \union SyncClaims \union CloseClaims
      PROVE  CallTrue(call'[c])
  BY <1>1, <1>2, NoClaim, Arrives
<1>3. ASSUME NEW s \in Sessions, NEW q \in 1..MaxQty, NEW k \in PosKeyOrNone,
             NEW cook \in Kitchens, StartSubmit(c, s, q, k, cook)
      PROVE  CallTrue(call'[c])
  BY <1>2, <1>3 DEF StartSubmit, FinClaims, SyncClaims, CloseClaims, AtOrder
<1>4. ASSUME NEW k \in Kots, NEW n \in 1..MaxQty, StartPartial(c, k, n)
      PROVE  CallTrue(call'[c])
  BY <1>2, <1>4 DEF StartPartial, FinClaims, SyncClaims, CloseClaims, AtOrder
<1>5. ASSUME NEW s \in Sessions, NEW by \in Staff, NEW auto \in BOOLEAN,
             StartClose(c, s, by, auto)
      PROVE  CallTrue(call'[c])
  <2> DEFINE n == Close(s, by, auto)
  <2>1. Goto(c, n) /\ by # "kitchen" /\ by # "server"
    BY <1>1, <1>5 DEF StartClose
  <2>2. n.at \in CloseClaims /\ CloseTrue(n)
    BY <2>1 DEF Close, CloseClaims, CloseTrue, Closing, AtOrder
  <2> HIDE DEF n
  <2> QED BY <1>1, <2>1, <2>2, CloseClaim, Arrives
<1>6. ASSUME NEW k \in Kots, NEW by \in Staff, StartDropKot(c, k, by)
      PROVE  CallTrue(call'[c])
  <2> DEFINE n == [at |-> "dropKot", k |-> k, by |-> by]
  <2>1. Goto(c, n)
    BY <1>6 DEF StartDropKot
  <2>2. n.at \in SyncClaims /\ SyncTrue(n)
    BY DEF SyncClaims, SyncTrue
  <2> HIDE DEF n
  <2> QED BY <1>1, <2>1, <2>2, SyncClaim, Arrives
<1>7. ASSUME NEW o \in Orders, StartComplete(c, o)
      PROVE  CallTrue(call'[c])
  <2> DEFINE n == [at |-> "compKots", o |-> o]
  <2>1. Goto(c, n) /\ Placed(o) /\ OrderOpen(o) /\ order[o].due = 0
    BY <1>7 DEF StartComplete
  <2>2. order[o].grand > 0 /\ o \notin writtenOff
    BY <2>1 DEF BillsInv, OrdersTrue
  <2>3. order[o].paid <= order[o].grand /\ order[o].paid \in Nat /\ order[o].grand \in Nat
    BY ServiceFacts
  <2>4. \/ order[o].paid + order[o].due = order[o].grand
        \/ order[o].due = 0 /\ (o \in writtenOff \/ order[o].paid > order[o].grand)
    BY DEF ServiceInv, IInv, DueIsRemainder
  <2>5. PaidFor(o)
    BY <2>1, <2>2, <2>3, <2>4 DEF PaidFor
  <2>6. n.at \in FinClaims /\ FinTrue(n)
    BY <2>5 DEF FinClaims, FinTrue
  <2> HIDE DEF n
  <2> QED BY <1>1, <2>1, <2>6, FinClaim, Arrives
<1>8. \A op \in {"send", "cancel", "reopen"} : ~May(op)
  BY DEF May, Undisturbed
<1>9. /\ \A o \in Orders : ~StartSend(c, o)
      /\ \A o \in Orders, by \in Staff : ~StartCancel(c, o, by) /\ ~StartReopen(c, o, by)
  BY <1>8 DEF StartSend, StartCancel, StartReopen, Begin
<1> QED BY <1>3, <1>4, <1>5, <1>6, <1>7, <1>9 DEF Asks

LEMMA OtherRelies ==
  ASSUME Undisturbed, ServiceInv, BillsInv, NEW c \in Calls,
         \/ \E o \in Orders, t \in Kots \union {NoKot} : ReadBill(c, o, t)
         \/ PartOrder(c) \/ PartTx(c) \/ ReplyBill(c) \/ Crash(c) \/ DropKot(c)
  PROVE  CallTrue(call'[c])
<1> DEFINE b == call[c]
<1>1. DOMAIN call = Calls /\ CallTrue(b)
  BY ServiceFacts DEF BillsInv
<1>2. ASSUME NEW n, Goto(c, n), n.at \notin FinClaims \union SyncClaims \union CloseClaims
      PROVE  CallTrue(call'[c])
  BY <1>1, <1>2, NoClaim, Arrives
<1>3. ASSUME NEW o \in Orders, NEW t \in Kots \union {NoKot}, ReadBill(c, o, t)
      PROVE  CallTrue(call'[c])
  <2>1. PICK n : Goto(c, n) /\ n.at = "commit"
    BY <1>3 DEF ReadBill
  <2> QED BY <1>2, <2>1 DEF FinClaims, SyncClaims, CloseClaims, AtOrder
<1>4. CASE PartOrder(c)
  <2>1. PICK n : Goto(c, n) /\ n.at \in {"partTx", "idle"}
    BY <1>4 DEF PartOrder, Idle
  <2> QED BY <1>2, <2>1 DEF FinClaims, SyncClaims, CloseClaims, AtOrder
<1>5. CASE PartTx(c) \/ ReplyBill(c) \/ Crash(c)
  BY <1>1, <1>5, IdleClaim, Arrives DEF PartTx, ReplyBill, Crash, End
<1>6. CASE DropKot(c)
  <2> DEFINE o == kot[b.k].order
             n == Sync(o, b.by, Finalize(o))
  <2>1. Goto(c, n) \/ Goto(c, Idle)
    BY <1>6 DEF DropKot, End
  <2>2. b.by \in Staff
    BY <1>1, <1>6 DEF DropKot, In, CallTrue, SyncTrue
  <2>3. n.at \in SyncClaims /\ SyncTrue(n)
    BY <2>2 DEF Sync, SyncClaims, SyncTrue
  <2> HIDE DEF n
  <2> QED BY <1>1, <2>1, <2>3, IdleClaim, SyncClaim, Arrives
<1> QED BY <1>3, <1>4, <1>5, <1>6

LEMMA TapRelies ==
  ASSUME Undisturbed, ServiceInv, BillsInv, NEW c \in Calls, NEW e \in Calls, NEW k \in Kots,
         NEW st \in KotStatus, NEW by \in Staff, TapKot(c, e, k, st, by)
  PROVE  \A d \in Calls : CallTrue(call'[d])
<1> DEFINE o == kot[k].order
           n == Sync(o, by, Idle)
<1>1. DOMAIN call = Calls /\ \A d \in Calls : CallTrue(call[d])
  BY ServiceFacts DEF BillsInv
<1>2. n.at \in SyncClaims /\ SyncTrue(n)
  BY DEF Sync, SyncClaims, SyncTrue
<1>3. \/ call' = [call EXCEPT ![c] = n, ![e] = Finalize(o)]
      \/ call' = [call EXCEPT ![c] = n]
  BY DEF TapKot, Goto
<1>4. CallTrue(n) /\ CallTrue(Finalize(o))
  <2> HIDE DEF n
  <2> QED BY <1>2, SyncClaim, IdleClaim
<1>5. \A d \in Calls : call'[d] \in {call[d], n, Finalize(o)}
  <2> HIDE DEF n, o
  <2> QED BY <1>1, <1>3
<1> HIDE DEF n, o
<1> QED BY <1>1, <1>4, <1>5

(* All handlers, after any step but the writing of a submission: what each    *)
(* relies on was true before the step.                                        *)
LEMMA StepRelies ==
  ASSUME Undisturbed, ServiceInv, BillsInv, DineNext, \A c \in Calls : ~CommitBill(c),
         NEW d \in Calls
  PROVE  CallTrue(call'[d]) \/ FinWrite(d)
<1>1. DOMAIN call = Calls /\ \A c \in Calls : CallTrue(call[c])
  BY ServiceFacts DEF BillsInv
<1>2. ASSUME NEW c \in Calls, \E n : Goto(c, n), CallTrue(call'[c]) \/ FinWrite(c)
      PROVE  CallTrue(call'[d]) \/ FinWrite(d)
  BY <1>1, <1>2, Lands
<1>3. ASSUME NEW c \in Calls, Asks(c)
      PROVE  CallTrue(call'[d]) \/ FinWrite(d)
  <2>1. \E n : Goto(c, n)
    BY <1>3 DEF Asks, StartSubmit, StartClose, StartDropKot, StartPartial, StartComplete,
                StartSend, StartCancel, StartReopen
  <2> QED BY <1>2, <1>3, <2>1, AskRelies
<1>4. ASSUME NEW c \in Calls, Reads(c) \/ ReplyBill(c) \/ PartTx(c) \/ CloseTx(c)
      PROVE  CallTrue(call'[d]) \/ FinWrite(d)
  <2>1. ~CancelKots(c) /\ ~SendKots(c)
    BY ServiceFacts DEF CancelKots, SendKots, In
  <2>2. CASE \/ SyncRead(c) \/ SyncKots(c)
             \/ FinRead(c) \/ FinPay(c) \/ FinKots(c) \/ FinSession(c) \/ FinOrders(c)
    <3>1. \E n : Goto(c, n)
      BY <2>2 DEF SyncRead, SyncKots, FinRead, FinPay, FinKots, FinSession, FinOrders
    <3> QED BY <1>2, <2>2, <3>1, SyncRelies, FinRelies, TableRelies
  <2>3. CASE FinTickets(c) \/ CloseNext(c)
    <3>1. \E n : Goto(c, n)
      BY <2>3 DEF FinTickets, CloseNext
    <3> QED BY <1>2, <2>3, <3>1, TableRelies, NextRelies
  <2>4. CASE CloseRead(c) \/ CloseOrders(c) \/ CloseTickets(c) \/ ClosePay(c) \/ CloseTx(c)
    <3>1. \E n : Goto(c, n)
      BY <2>4 DEF CloseRead, CloseOrders, CloseTickets, ClosePay, CloseTx, End
    <3> QED BY <1>2, <2>4, <3>1, ReadingRelies, HandRelies, ServeRelies
  <2>5. CASE CompKots(c) \/ CompPay(c)
    <3>1. \E n : Goto(c, n)
      BY <2>5 DEF CompKots, CompPay
    <3> QED BY <1>2, <2>5, <3>1, CompRelies
  <2>6. CASE \/ \E o \in Orders, t \in Kots \union {NoKot} : ReadBill(c, o, t)
             \/ PartOrder(c) \/ PartTx(c) \/ ReplyBill(c) \/ Crash(c)
    <3>1. \E n : Goto(c, n)
      BY <2>6 DEF ReadBill, PartOrder, PartTx, ReplyBill, Crash, End
    <3> QED BY <1>2, <2>6, <3>1, OtherRelies
  <2> QED BY <1>4, <2>1, <2>2, <2>3, <2>4, <2>5, <2>6 DEF Reads
<1>5. ASSUME NEW c \in Calls, KotWrites(c) \/ OrderWrites(c)
      PROVE  CallTrue(call'[d]) \/ FinWrite(d)
  <2>1. /\ ~CancelNext(c) /\ ~CancelWrite(c) /\ ~SendStatus(c) /\ ~ReopenWrite(c)
        /\ \A t \in Kots : ~SendWrite(c, t)
    BY ServiceFacts DEF CancelNext, CancelWrite, SendStatus, ReopenWrite, SendWrite, In
  <2>2. CASE \E e \in Calls, k \in Kots, st \in KotStatus, by \in Staff : TapKot(c, e, k, st, by)
    BY <2>2, TapRelies
  <2>3. CASE DropKot(c)
    <3>1. \E n : Goto(c, n)
      BY <2>3 DEF DropKot, End
    <3> QED BY <1>2, <2>3, <3>1, OtherRelies
  <2>4. CASE CloseServe(c)
    <3>1. \E n : Goto(c, n)
      BY <2>4 DEF CloseServe
    <3> QED BY <1>2, <2>4, <3>1, ServeRelies
  <2>5. CASE SyncWrite(c) \/ FinWrite(c) \/ CloseComplete(c) \/ CompWrite(c)
    <3>1. \E n : Goto(c, n)
      BY <2>5 DEF SyncWrite, FinWrite, CloseComplete, CompWrite
    <3> QED BY <1>2, <2>5, <3>1, SyncRelies, HandRelies, CompRelies
  <2> QED BY <1>5, <2>1, <2>2, <2>3, <2>4, <2>5 DEF KotWrites, OrderWrites
<1>6. ASSUME NEW c \in Calls, Pays(c)
      PROVE  CallTrue(call'[d]) \/ FinWrite(d)
  <2>1. UNCHANGED call \/ \E o : Goto(c, Finalize(o))
    BY <1>6 DEF Pays, Pay
  <2> QED BY <1>1, <1>2, <2>1, IdleClaim, Arrives
<1>7. CASE Seat \/ Corrects
  <2>1. UNCHANGED call
    BY <1>7 DEF Seat, Corrects, Refund, Resolve
  <2> QED BY <1>1, <2>1
<1> QED BY <1>3, <1>4, <1>5, <1>6, <1>7, StepKinds

LEMMA RelyStep ==
  ASSUME Undisturbed, ServiceInv, ServiceInv', BillsInv, DineNext,
         \A c \in Calls : ~CommitBill(c)
  PROVE  \A d \in Calls : CallTrue(call[d])'
<1> SUFFICES ASSUME NEW d \in Calls PROVE CallTrue(call[d])'
  OBVIOUS
<1>1. Steady /\ DOMAIN call = Calls
  BY StepIsSteady, ServiceFacts
<1>2. PICK n : n = call'[d]
  OBVIOUS
<1>3. CASE CallTrue(call'[d])
  <2>1. CallOK(n, PlacedOrders) /\ CallTrue(n)
    <3>1. CallOK(call'[d], PlacedOrders')
      BY DEF ServiceInv, QuietInv, DineBase, CallsTyped
    <3>2. PlacedOrders' = PlacedOrders
      BY PlacedByCommit DEF ServiceInv, QuietInv
    <3> QED BY <1>2, <1>3, <3>1, <3>2
  <2>2. CallTrue(n)'
    BY <1>1, <2>1, RelyStays
  <2> QED BY <1>2, <2>2, TrueNow
<1>4. CASE FinWrite(d)
  <2> DEFINE o == call[d].o
             m == SessionCheck(o, TRUE)
  <2>1. order \in [Orders -> OrderDoc] /\ CallOK(call[d], PlacedOrders) /\ CallTrue(call[d])
    BY ServiceFacts DEF BillsInv
  <2>2. o \in Orders /\ Done(o) /\ CompleteOrderWrite(o) /\ Goto(d, m)
    BY <1>4, <2>1 DEF FinWrite, In, CallOK, FinOK, OrderLabels, PlacedOrders, CallTrue, FinTrue
  <2>3. order'[o].status = "completed"
    <3> HIDE DEF o, m
    <3> QED BY <2>1, <2>2, KeptCompleted DEF BillsInv, OrdersTrue
  <2>4. n = [at |-> "finSession", o |-> o, done |-> TRUE]
    BY <1>1, <1>2, <2>2, Lands DEF SessionCheck
  <2>5. CallTrue(n)'
    <3> HIDE DEF o
    <3> QED BY <2>3, <2>4 DEF CallTrue, FinTrue, SyncTrue, CloseTrue, Closing, AtOrder
  <2> QED BY <1>2, <2>5, TrueNow
<1> QED BY <1>3, <1>4, StepRelies

-----------------------------------------------------------------------------
(* What the orders, their pointers and the closed sessions keep in any step   *)
(* but the writing of a submission.                                           *)
LEMMA OrdersStep ==
  ASSUME Undisturbed, ServiceInv, ServiceInv', BillsInv, DineNext,
         \A c \in Calls : ~CommitBill(c)
  PROVE  OrdersTrue' /\ PointersTrue' /\ writtenOff' = {}
<1>1. /\ \A q \in Orders : Kept(q) \/ Cut(q)
      /\ \A s \in Sessions : \/ activeOrder'[s] = activeOrder[s]
                             \/ /\ activeOrder'[s] = NoOrder
                                /\ order'[activeOrder[s]].status = "cancelled"
      /\ sessOf' = sessOf /\ writtenOff' = writtenOff
  BY OrderStep
<1>2. Steady /\ OrdersTrue /\ PointersTrue /\ writtenOff = {}
  BY StepIsSteady DEF BillsInv
<1>3. ASSUME NEW o \in Orders
      PROVE  /\ order'[o].status = "cancelled" => order'[o].grand = 0
             /\ order'[o].status = "completed" => Done(o)'
             /\ Placed(o)' /\ OrderOpen(o)' => Placed(o) /\ OrderOpen(o) /\ order'[o].grand > 0
  <2>1. CASE Kept(o)
    BY <1>2, <2>1 DEF Kept, OrdersTrue, Steady, Placed, OrderOpen
  <2>2. CASE Cut(o)
    BY <1>2, <2>2 DEF Cut, Steady, OrderOpen, TerminalOrder
  <2> QED BY <1>1, <2>1, <2>2
<1>4. ASSUME NEW o \in Orders, Placed(o)', OrderOpen(o)'
      PROVE  activeOrder'[sessOf'[o]] = o
  <2>1. activeOrder[sessOf[o]] = o /\ sessOf[o] \in Sessions
    BY <1>2, <1>3, <1>4 DEF OrdersTrue, ServiceInv, QuietInv, DineBase, BillsNamed
  <2>2. order'[o].status # "cancelled"
    BY <1>4 DEF OrderOpen, TerminalOrder
  <2> QED BY <1>1, <2>1, <2>2
<1>5. OrdersTrue'
  BY <1>3, <1>4 DEF OrdersTrue
<1>6. PointersTrue'
  BY <1>1, <1>2 DEF PointersTrue
<1> QED BY <1>1, <1>2, <1>5, <1>6

LEMMA SessionWrite ==
  ASSUME DineBase, DineNext
  PROVE  \/ session' = session
         \/ \E c \in Calls :
              CloseTx(c) /\ session' = [session EXCEPT ![call[c].s].status = "closed"]
         \/ \E t \in Tables, s \in Sessions :
              /\ session[s].status = "none" /\ UNCHANGED <<settleVars, billVars, call>>
              /\ session' = [session EXCEPT ![s] = [status |-> "open", tableId |-> t,
                                                    guestCount |-> 1, key |-> NoKey]]
<1>1. CASE Seat
  BY <1>1 DEF Seat, CreateTable, OpenSession
<1>2. ASSUME NEW c \in Calls, CloseTx(c)
      PROVE  session' = session \/ session' = [session EXCEPT ![call[c].s].status = "closed"]
  BY <1>2 DEF CloseTx, CloseSession, tsVars
<1>3. ASSUME NEW c \in Calls, CommitBill(c) \/ ReplyBill(c) \/ PartTx(c)
      PROVE  session' = session
  BY <1>3 DEF CommitBill, ReplyBill, PartTx, tsVars
<1>4. ASSUME \/ Corrects
             \/ \E c \in Calls : Asks(c) \/ Reads(c) \/ KotWrites(c) \/ OrderWrites(c) \/ Pays(c)
      PROVE  session' = session
  BY <1>4, ReadsOnly, KotsOnly, OrdersOnly DEF tsVars
<1> QED BY <1>1, <1>2, <1>3, <1>4, StepKinds

LEMMA ClosedStep ==
  ASSUME Undisturbed, ServiceInv, ServiceInv', BillsInv, DineNext,
         \A c \in Calls : ~CommitBill(c)
  PROVE  ClosedDone'
<1> SUFFICES ASSUME "captain" \notin Staff, NEW s \in Sessions, session'[s].status = "closed"
             PROVE  SessionDone(s)'
  BY DEF ClosedDone
<1>1. DineBase /\ Steady
  BY StepIsSteady DEF ServiceInv, QuietInv
<1>2. SessionDone(s)
  <2>1. CASE session[s].status = "closed"
    BY <2>1 DEF BillsInv, ClosedDone
  <2>2. ASSUME NEW c \in Calls, CloseTx(c),
               session' = [session EXCEPT ![call[c].s].status = "closed"],
               session[s].status # "closed"
        PROVE  SessionDone(s)
    <3>1. call[c].s = s
      BY <2>2
    <3>2. CallTrue(call[c]) /\ call[c].at = "closeTx"
      BY <2>2 DEF BillsInv, CloseTx, In
    <3> QED BY <3>1, <3>2 DEF CallTrue, CloseTrue, Closing
  <2>3. ASSUME NEW t \in Tables, NEW r \in Sessions,
               session' = [session EXCEPT ![r] = [status |-> "open", tableId |-> t,
                                                  guestCount |-> 1, key |-> NoKey]]
        PROVE  session[s].status = "closed"
    <3>1. session \in [Sessions -> SessionDoc]
      BY <1>1 DEF DineBase, DineTypeOK, TSTypeOK
    <3>2. r = s => session'[s].status = "open"
      BY <2>3, <3>1
    <3> QED BY <2>3, <3>1, <3>2
  <2> QED BY <1>1, <2>1, <2>2, <2>3, SessionWrite
<1> QED BY <1>1, <1>2, SessionStays

-----------------------------------------------------------------------------
(* A submission in flight: nothing but it and the seating of guests moves.    *)
LEMMA OpenStays ==
  ASSUME Seat, NEW s, s \in Sessions, session \in [Sessions -> SessionDoc], IsOpen(s)
  PROVE  IsOpen(s)'
<1>1. CASE session' = session
  BY <1>1 DEF IsOpen
<1>2. ASSUME NEW r \in Sessions, NEW doc, session[r].status = "none",
             session' = [session EXCEPT ![r] = doc]
      PROVE  IsOpen(s)'
  BY <1>2 DEF IsOpen
<1> QED BY <1>1, <1>2 DEF Seat, CreateTable, OpenSession

LEMMA ReadSubmits ==
  ASSUME Undisturbed, ServiceInv, BillsInv, NEW c \in Calls, NEW o \in Orders,
         NEW t \in Kots \union {NoKot}, ReadBill(c, o, t)
  PROVE  SubmitTrue(call[c])'
<1> DEFINE b == call[c]
           live == BillsFound(b.s, b.active)
<1>1. /\ DOMAIN call = Calls /\ DineBase /\ OrdersTrue /\ PointersTrue
      /\ SubmitTrue(b) /\ CallOK(b, PlacedOrders) /\ b.at = "lookup"
  BY ServiceFacts DEF BillsInv, ReadBill, In
<1>2. b.s \in Sessions /\ b.active = activeOrder[b.s] /\ IsOpen(b.s)
  BY <1>1 DEF CallOK, SubmitOK, SubmitTrue
<1>3. /\ UNCHANGED <<order, sessOf, activeOrder, session>>
      /\ call'[c].at = "commit" /\ call'[c].s = b.s /\ call'[c].o = o
  <2>1. PICK n : Goto(c, n) /\ n.at = "commit" /\ n.s = b.s /\ n.o = o
    BY DEF ReadBill
  <2> QED BY <1>1, <2>1, Lands DEF ReadBill, settleVars, tsVars, billVars
<1>4. \A q \in Orders : /\ sessOf[q] \in Sessions <=> Placed(q)
                        /\ Placed(q) /\ OrderOpen(q) => activeOrder[sessOf[q]] = q
  BY <1>1 DEF DineBase, BillsNamed, OrdersTrue
<1>5. CASE live = {}
  <2>1. ~Placed(o)
    BY <1>5 DEF ReadBill
  <2>2. ASSUME NEW q \in OrdersOf(b.s), OrderOpen(q)
        PROVE  FALSE
    <3>1. q \in Orders /\ sessOf[q] = b.s
      BY DEF OrdersOf
    <3>2. activeOrder[b.s] = q /\ q # NoOrder
      BY <1>2, <1>4, <2>2, <3>1, NoOrderIsNoOrder
    <3>3. q \in live
      BY <1>2, <2>2, <3>2 DEF BillsFound
    <3> QED BY <1>5, <3>3
  <2>3. SessionDone(b.s)
    BY <2>2 DEF SessionDone
  <2> HIDE DEF b
  <2> QED BY <1>2, <1>3, <2>1, <2>3
          DEF SubmitTrue, Placed, IsOpen, SessionDone, OrdersOf, OrderOpen
<1>6. CASE live # {}
  <2>1. o \in live
    BY <1>6 DEF ReadBill
  <2>2. sessOf[o] = b.s
    BY <1>1, <1>2, <2>1 DEF BillsFound, PointersTrue, OrdersOf
  <2> HIDE DEF b
  <2> QED BY <1>2, <1>3, <1>4, <2>2 DEF SubmitTrue, Placed, IsOpen
<1> QED BY <1>5, <1>6

LEMMA SubmitStep ==
  ASSUME Undisturbed, ServiceInv, BillsInv, DineNext
  PROVE  \A d \in Calls : SubmitTrue(call[d])'
<1>1. /\ DOMAIN call = Calls /\ DineBase /\ Alone /\ Quiet
      /\ \A d \in Calls : SubmitTrue(call[d])
  BY ServiceFacts DEF BillsInv, ServiceInv, QuietInv, Undisturbed
<1>2. ASSUME NEW d \in Calls, call'[d].at \notin {"lookup", "commit"}
      PROVE  SubmitTrue(call[d])'
  BY <1>2 DEF SubmitTrue
<1>3. ASSUME NEW c \in Calls, call[c].at \in SubmitLabels
      PROVE  \A d \in Calls : SubmitTrue(call[d])'
  <2>1. \A d \in Calls \ {c} : call[d].at = "idle"
    BY <1>1, <1>3 DEF Alone, In
  <2>2. ASSUME NEW n, Goto(c, n), SubmitTrue(call[c])'
        PROVE  \A d \in Calls : SubmitTrue(call[d])'
    <3>1. \A d \in Calls \ {c} : call'[d].at = "idle"
      BY <1>1, <2>1, <2>2, Lands
    <3> QED BY <1>2, <2>2, <3>1
  <2>3. ASSUME NEW n, Goto(c, n), n.at \notin {"lookup", "commit"}
        PROVE  \A d \in Calls : SubmitTrue(call[d])'
    <3>1. call'[c] = n
      BY <1>1, <2>3, Lands
    <3> QED BY <1>2, <2>2, <2>3, <3>1
  <2>4. CASE Seat
    <3>1. UNCHANGED <<order, sessOf, activeOrder, call>>
      BY <2>4 DEF Seat, settleVars, billVars
    <3>2. ASSUME NEW d \in Calls, call[d].at \in {"lookup", "commit"}
          PROVE  IsOpen(call[d].s)'
      <4>1. call[d].s \in Sessions /\ IsOpen(call[d].s)
        BY <1>1, <3>2 DEF DineBase, CallsTyped, CallOK, SubmitOK, SubmitTrue
      <4>2. PICK s \in Sessions : s = call[d].s
        BY <4>1
      <4>3. IsOpen(s)'
        BY <1>1, <2>4, <4>1, <4>2, OpenStays DEF DineBase, DineTypeOK, TSTypeOK
      <4> QED BY <3>1, <4>2, <4>3 DEF IsOpen
    <3> QED BY <1>1, <3>1, <3>2 DEF SubmitTrue, Placed, SessionDone, OrdersOf, OrderOpen
  <2>5. CASE Crash(c) \/ ReplyBill(c)
    BY <2>3, <2>5 DEF Crash, ReplyBill, End, Idle
  <2>6. CASE CommitBill(c)
    <3>1. PICK n : Goto(c, n) /\ n.at \in {"idle", "reply"}
      BY <2>6 DEF CommitBill, Idle
    <3> QED BY <2>3, <3>1
  <2>7. ASSUME NEW o \in Orders, NEW t \in Kots \union {NoKot}, ReadBill(c, o, t)
        PROVE  \A d \in Calls : SubmitTrue(call[d])'
    <3>1. \E n : Goto(c, n)
      BY <2>7 DEF ReadBill
    <3> QED BY <2>2, <2>7, <3>1, ReadSubmits
  <2> QED BY <1>1, <1>3, <2>4, <2>5, <2>6, <2>7, OnlySubmission
<1>4. CASE \A c \in Calls : call[c].at \notin SubmitLabels
  <2>1. CASE \A c \in Calls : call'[c].at \notin SubmitLabels
    BY <1>2, <2>1 DEF SubmitLabels
  <2>2. CASE \E c \in Calls : /\ call'[c].at = "lookup"
                              /\ \A d \in Calls : d # c => call'[d].at = "idle"
                              /\ Submits(c)
    <3>0. PICK c \in Calls : /\ call'[c].at = "lookup"
                             /\ \A d \in Calls : d # c => call'[d].at = "idle"
                             /\ Submits(c)
      BY <2>2
    <3>1. ~CommitBill(c) /\ \A o \in Orders, t \in Kots \union {NoKot} : ~ReadBill(c, o, t)
      BY <1>4 DEF CommitBill, ReadBill, In, SubmitLabels
    <3>2. \E s \in Sessions, q \in 1..MaxQty, k \in PosKeyOrNone, cook \in Kitchens :
            StartSubmit(c, s, q, k, cook)
      <4>1. Submits(c)
        BY <3>0
      <4> QED BY <3>1, <4>1 DEF Submits
    <3>3. PICK s \in Sessions :
             /\ IsOpen(s) /\ session' = session /\ activeOrder' = activeOrder
             /\ call'[c].s = s /\ call'[c].active = activeOrder[s]
      <4>0. PICK s \in Sessions, q \in 1..MaxQty, k \in PosKeyOrNone, cook \in Kitchens :
              StartSubmit(c, s, q, k, cook)
        BY <3>2
      <4>1. PICK n : Goto(c, n) /\ n.s = s /\ n.active = activeOrder[s]
        BY <4>0 DEF StartSubmit
      <4> QED BY <1>1, <4>0, <4>1, Lands DEF StartSubmit, tsVars, billVars
    <3>4. SubmitTrue(call[c])'
      BY <3>0, <3>3 DEF SubmitTrue, IsOpen
    <3> QED BY <1>2, <3>0, <3>4
  <2>3. \/ \A c \in Calls : call'[c].at \notin SubmitLabels
        \/ \E c \in Calls : /\ call'[c].at = "lookup"
                            /\ \A d \in Calls : d # c => call'[d].at = "idle"
                            /\ Submits(c)
    BY <1>1, <1>4, NoSubmission
  <2> QED BY <2>1, <2>2, <2>3
<1> QED BY <1>3, <1>4

(* The writing of a submission extends the open order of the session, or      *)
(* places the one order that will be open.                                    *)
LEMMA CommitWrites ==
  ASSUME Undisturbed, ServiceInv, BillsInv, NEW c \in Calls, CommitBill(c),
         KeyAllowsCommit(call[c].k)
  PROVE  LET b == call[c]
         IN  /\ b.o \in Orders /\ b.s \in Sessions /\ IsOpen(b.s)
             /\ Placed(b.o) => OrderOpen(b.o) /\ sessOf[b.o] = b.s
             /\ ~Placed(b.o) => SessionDone(b.s)
             /\ order' = [order EXCEPT ![b.o] = b.bill]
             /\ b.bill.grand > 0 /\ b.bill.status \notin TerminalOrder
             /\ sessOf' = [sessOf EXCEPT ![b.o] = b.s]
             /\ activeOrder' = [activeOrder EXCEPT ![b.s] = b.o]
             /\ \A k \in Kots : kot'[k] = kot[k] \/ kot'[k].order = b.o
             /\ UNCHANGED <<payment, writtenOff, tsVars>>
<1> DEFINE b == call[c]
           g == order[b.o].grand + b.q
<1>1. DineBase /\ Carried(b) /\ SubmitTrue(b) /\ kot \in [Kots -> KotDoc] /\ In(c, "commit")
  BY ServiceFacts DEF ServiceInv, QuietInv, CarriedBills, CommitBill, BillsInv
<1>2. /\ b \in [at : {"commit"}, s : Sessions, q : 1..MaxQty, k : PosKeyOrNone, o : Orders,
                t : Kots \union {NoKot}, bill : NewBill]
      /\ order \in [Orders -> OrderDoc]
  BY <1>1, ServiceFacts DEF In, CallOK, SubmitOK
<1>3. b.o \in Orders /\ b.s \in Sessions /\ b.q \in Nat \ {0}
  BY <1>2, MaxQtyIsNatural
<1>4. /\ IsOpen(b.s) /\ (Placed(b.o) => OrderOpen(b.o) /\ sessOf[b.o] = b.s)
      /\ ~Placed(b.o) => SessionDone(b.s)
  BY <1>1, <1>2 DEF SubmitTrue, Carried
<1>5. b.bill.grand > 0 /\ b.bill.status \notin TerminalOrder
  <2>1. CASE Placed(b.o)
    <3> DEFINE ext == [order[b.o] EXCEPT !.grand = g]
    <3>1. /\ ext \in OrderDoc /\ ext.grand = g /\ g > 0 /\ ext.status = order[b.o].status
          /\ order[b.o].paid \in Nat
      BY <1>2, <1>3 DEF OrderDoc
    <3>2. b.bill = Settled(ext, order[b.o].paid) /\ order[b.o].status \notin TerminalOrder
      BY <1>1, <2>1 DEF Carried, Extended, OrderOpen
    <3>3. b.bill.grand = g /\ b.bill.status = order[b.o].status
      <4> HIDE DEF ext, g
      <4> QED BY <3>1, <3>2, SettledDoc
    <3> QED BY <3>1, <3>2, <3>3
  <2>2. CASE ~Placed(b.o)
    BY <1>1, <1>3, <2>2 DEF Carried, NewDoc, TerminalOrder
  <2> QED BY <2>1, <2>2
<1>6. /\ order' = [order EXCEPT ![b.o] = b.bill]
      /\ sessOf' = [sessOf EXCEPT ![b.o] = b.s]
      /\ activeOrder' = [activeOrder EXCEPT ![b.s] = b.o]
      /\ kot' = IF b.t = NoKot THEN kot ELSE [kot EXCEPT ![b.t] = Ticket(b)]
      /\ UNCHANGED <<payment, writtenOff, tsVars>>
  BY DEF CommitBill
<1>7. \A k \in Kots : kot'[k] = kot[k] \/ kot'[k].order = b.o
  <2>1. Ticket(b).order = b.o
    BY DEF Ticket
  <2> DEFINE doc == Ticket(b)
  <2>2. kot' = kot \/ kot' = [kot EXCEPT ![b.t] = doc]
    BY <1>6
  <2>3. doc.order = b.o
    BY <2>1
  <2> HIDE DEF doc, b
  <2> QED BY <1>1, <2>2, <2>3
<1> HIDE DEF b
<1> QED BY <1>3, <1>4, <1>5, <1>6, <1>7 DEF b

LEMMA CommitKeeps ==
  ASSUME Undisturbed, ServiceInv, BillsInv, NEW c \in Calls, CommitBill(c)
  PROVE  /\ OrdersTrue' /\ PointersTrue' /\ ClosedDone' /\ writtenOff' = {}
         /\ \A o \in Orders : order[o].status \in TerminalOrder =>
                                order'[o].status = order[o].status
<1>1. /\ OrdersTrue /\ PointersTrue /\ ClosedDone /\ writtenOff = {}
      /\ DineBase /\ order \in [Orders -> OrderDoc]
  BY ServiceFacts DEF BillsInv
<1>2. CASE ~KeyAllowsCommit(call[c].k)
  <2>1. UNCHANGED <<order, payment, writtenOff, session, sessOf, activeOrder, kot>>
    BY <1>2 DEF CommitBill, billVars, tsVars
  <2>2. \A o \in Orders : order'[o] = order[o] /\ LiveKots(o)' = LiveKots(o)
    BY <2>1 DEF LiveKots, KotsOf
  <2>3. OrdersTrue'
    BY <1>1, <2>1, <2>2 DEF OrdersTrue, Placed, OrderOpen, Done, PaidFor
  <2>4. ClosedDone'
    BY <1>1, <2>1 DEF ClosedDone, SessionDone, OrdersOf, OrderOpen
  <2> QED BY <1>1, <2>1, <2>3, <2>4 DEF PointersTrue
<1>3. CASE KeyAllowsCommit(call[c].k)
  <2>1. PICK b : b = call[c]
    OBVIOUS
  <2>2. /\ b.o \in Orders /\ b.s \in Sessions /\ IsOpen(b.s)
        /\ Placed(b.o) => OrderOpen(b.o) /\ sessOf[b.o] = b.s
        /\ ~Placed(b.o) => SessionDone(b.s)
        /\ order' = [order EXCEPT ![b.o] = b.bill]
        /\ b.bill.grand > 0 /\ b.bill.status \notin TerminalOrder
        /\ sessOf' = [sessOf EXCEPT ![b.o] = b.s]
        /\ activeOrder' = [activeOrder EXCEPT ![b.s] = b.o]
        /\ \A k \in Kots : kot'[k] = kot[k] \/ kot'[k].order = b.o
        /\ writtenOff' = writtenOff /\ session' = session
    BY <1>3, <2>1, CommitWrites DEF tsVars
  <2>3. /\ sessOf \in [Orders -> Sessions \union {NoSession}]
        /\ activeOrder \in [Sessions -> Orders \union {NoOrder}]
        /\ \A o \in Orders : Placed(o) <=> sessOf[o] \in Sessions
        /\ \A s \in Sessions : activeOrder[s] # NoOrder => Placed(activeOrder[s])
    BY <1>1 DEF DineBase, DineTypeOK, BillsNamed, PlacedOrders
  <2>4. /\ order'[b.o] = b.bill /\ sessOf'[b.o] = b.s /\ activeOrder'[b.s] = b.o
        /\ \A o \in Orders \ {b.o} : order'[o] = order[o] /\ sessOf'[o] = sessOf[o]
        /\ \A s \in Sessions \ {b.s} : activeOrder'[s] = activeOrder[s]
    BY <1>1, <2>2, <2>3
  <2>5. "cancelled" \in TerminalOrder /\ "completed" \in TerminalOrder
    BY DEF TerminalOrder
  <2>6. ASSUME NEW o \in Orders \ {b.o}, Placed(o), OrderOpen(o)
        PROVE  activeOrder'[sessOf[o]] = o
    <3>1. activeOrder[sessOf[o]] = o /\ sessOf[o] \in Sessions
      BY <1>1, <2>3, <2>6 DEF OrdersTrue
    <3>2. sessOf[o] # b.s
      <4>1. CASE Placed(b.o)
        BY <1>1, <2>2, <2>6, <3>1, <4>1 DEF OrdersTrue
      <4>2. CASE ~Placed(b.o)
        BY <2>2, <2>6, <4>2 DEF SessionDone, OrdersOf
      <4> QED BY <4>1, <4>2
    <3> QED BY <2>4, <3>1, <3>2
  <2>7. ASSUME NEW o \in Orders \ {b.o}, order[o].status = "completed"
        PROVE  Done(o)'
    <3>1. LiveKots(o)' \subseteq LiveKots(o)
      BY <2>2, <2>7, LiveShrink
    <3> QED BY <1>1, <2>4, <2>7, <3>1 DEF OrdersTrue, Done, PaidFor
  <2>8. OrdersTrue'
    <3>1. ASSUME NEW o \in Orders \ {b.o}
          PROVE  /\ order'[o].status = "cancelled" => order'[o].grand = 0
                 /\ Placed(o)' /\ OrderOpen(o)' => /\ order'[o].grand > 0
                                                   /\ activeOrder'[sessOf'[o]] = o
                 /\ order'[o].status = "completed" => Done(o)'
      BY <1>1, <2>4, <2>6, <2>7 DEF OrdersTrue, Placed, OrderOpen
    <3>2. /\ order'[b.o].status \notin TerminalOrder /\ order'[b.o].grand > 0
          /\ activeOrder'[sessOf'[b.o]] = b.o
      BY <2>2, <2>4
    <3> QED BY <2>5, <3>1, <3>2 DEF OrdersTrue
  <2>9. PointersTrue'
    <3> SUFFICES ASSUME NEW s \in Sessions, activeOrder'[s] # NoOrder
                 PROVE  sessOf'[activeOrder'[s]] = s
      BY DEF PointersTrue
    <3>1. CASE s = b.s
      BY <2>4, <3>1
    <3>2. CASE s # b.s
      <4>1. sessOf[activeOrder[s]] = s /\ Placed(activeOrder[s]) /\ activeOrder[s] \in Orders
        BY <1>1, <2>3, <2>4, <3>2 DEF PointersTrue
      <4>2. activeOrder[s] # b.o
        BY <2>2, <3>2, <4>1
      <4> QED BY <2>4, <3>2, <4>1, <4>2
    <3> QED BY <3>1, <3>2
  <2>10. ClosedDone'
    <3> SUFFICES ASSUME "captain" \notin Staff, NEW s \in Sessions,
                        session'[s].status = "closed", NEW o \in Orders, sessOf'[o] = s
                 PROVE  ~OrderOpen(o)'
      BY DEF ClosedDone, SessionDone, OrdersOf
    <3>1. s # b.s /\ session[s].status = "closed"
      BY <2>2 DEF IsOpen
    <3>2. o # b.o
      BY <2>4, <3>1
    <3>3. ~OrderOpen(o)
      BY <1>1, <2>4, <3>1, <3>2 DEF ClosedDone, SessionDone, OrdersOf
    <3> QED BY <2>4, <3>2, <3>3 DEF OrderOpen
  <2>11. ASSUME NEW o \in Orders, order[o].status \in TerminalOrder
         PROVE  order'[o].status = order[o].status
    <3>1. o = b.o => Placed(b.o) /\ ~OrderOpen(b.o)
      BY <2>11 DEF OrderOpen, Placed, TerminalOrder
    <3> QED BY <2>2, <2>4, <3>1
  <2> QED BY <1>1, <2>2, <2>8, <2>9, <2>10, <2>11
<1> QED BY <1>2, <1>3

LEMMA CommitRelies ==
  ASSUME Undisturbed, ServiceInv, BillsInv, NEW c \in Calls, CommitBill(c), NEW d \in Calls
  PROVE  CallTrue(call[d])'
<1>1. DOMAIN call = Calls /\ call[c].at = "commit"
  BY ServiceFacts DEF CommitBill, In
<1>2. \A e \in Calls \ {c} : call[e].at = "idle"
  BY <1>1 DEF ServiceInv, QuietInv, Alone, SubmitLabels, In
<1>3. PICK n : Goto(c, n) /\ n.at \in {"idle", "reply"}
  BY DEF CommitBill, Idle
<1>4. call'[d].at \in {"idle", "reply"}
  BY <1>1, <1>2, <1>3, Lands
<1> QED BY <1>4 DEF CallTrue, FinTrue, SyncTrue, CloseTrue, Closing, AtOrder

LEMMA BillsSame ==
  ASSUME BillsInv, UNCHANGED vars
  PROVE  BillsInv'
<1>1. UNCHANGED <<order, payment, writtenOff, session, sessOf, activeOrder, kot, call>>
  BY DEF vars, settleVars, tsVars, billVars
<1>2. \A o : LiveKots(o)' = LiveKots(o)
  BY <1>1 DEF LiveKots, KotsOf
<1>3. \A s : SessionDone(s)' <=> SessionDone(s)
  BY <1>1 DEF SessionDone, OrdersOf, OrderOpen
<1>4. OrdersTrue' /\ PointersTrue'
  BY <1>1, <1>2 DEF BillsInv, OrdersTrue, PointersTrue, Placed, OrderOpen, Done, PaidFor
<1>5. ClosedDone'
  BY <1>1, <1>3 DEF BillsInv, ClosedDone
<1>6. ASSUME NEW b, Closing(b)
      PROVE  Closing(b)'
  <2>1. \A s, X : Covered(s, X)' <=> Covered(s, X)
    BY <1>1 DEF Covered, OrdersOf, OrderOpen
  <2>2. \A X : Seen(X)' <=> Seen(X)
    BY <1>1 DEF Seen, OrderOpen
  <2>3. Left(b)' = Left(b)
    BY DEF Left
  <2> QED BY <1>3, <1>6, <2>1, <2>2, <2>3 DEF Closing
<1>7. ASSUME NEW b, CallTrue(b) /\ SubmitTrue(b)
      PROVE  CallTrue(b)' /\ SubmitTrue(b)'
  <2>1. FinTrue(b)'
    BY <1>1, <1>2, <1>3, <1>7 DEF CallTrue, FinTrue, Done, PaidFor
  <2>2. SyncTrue(b)' /\ CloseTrue(b)'
    BY <1>6, <1>7 DEF CallTrue, SyncTrue, CloseTrue
  <2>3. SubmitTrue(b)'
    BY <1>1, <1>3, <1>7 DEF SubmitTrue, Placed, IsOpen
  <2> QED BY <2>1, <2>2, <2>3 DEF CallTrue
<1>8. ASSUME NEW c \in Calls
      PROVE  CallTrue(call[c])' /\ SubmitTrue(call[c])'
  <2>1. PICK b : b = call[c]
    OBVIOUS
  <2>2. CallTrue(b)' /\ SubmitTrue(b)' /\ call'[c] = b
    BY <1>1, <1>7, <2>1 DEF BillsInv
  <2>3. CallTrue(call[c])'
    BY <2>2, TrueNow
  <2> QED BY <2>2, <2>3 DEF SubmitTrue
<1> QED BY <1>1, <1>4, <1>5, <1>8 DEF BillsInv

LEMMA BillsInvStep ==
  ASSUME Undisturbed, ServiceInv, ServiceInv', BillsInv, [DineNext]_vars
  PROVE  BillsInv'
<1>1. CASE UNCHANGED vars
  BY <1>1, BillsSame
<1>2. CASE DineNext /\ \A c \in Calls : ~CommitBill(c)
  <2>1. OrdersTrue' /\ PointersTrue' /\ writtenOff' = {} /\ ClosedDone'
    BY <1>2, OrdersStep, ClosedStep
  <2>2. \A d \in Calls : CallTrue(call[d])'
    BY <1>2, RelyStep
  <2>3. \A d \in Calls : SubmitTrue(call[d])'
    BY <1>2, SubmitStep
  <2> QED BY <2>1, <2>2, <2>3 DEF BillsInv
<1>3. CASE DineNext /\ \E c \in Calls : CommitBill(c)
  <2>1. PICK c \in Calls : CommitBill(c)
    BY <1>3
  <2>2. OrdersTrue' /\ PointersTrue' /\ writtenOff' = {} /\ ClosedDone'
    BY <2>1, CommitKeeps
  <2>3. \A d \in Calls : CallTrue(call[d])'
    BY <2>1, CommitRelies
  <2>4. \A d \in Calls : SubmitTrue(call[d])'
    BY <1>3, SubmitStep
  <2> QED BY <2>2, <2>3, <2>4 DEF BillsInv
<1> QED BY <1>1, <1>2, <1>3

LEMMA InitBills == ASSUME DineInit PROVE BillsInv
<1>1. /\ \A o \in Orders : order[o].status = "none"
      /\ writtenOff = {} /\ \A s \in Sessions : activeOrder[s] = NoOrder
      /\ \A s \in Sessions : session[s].status = "none"
      /\ \A c \in Calls : call[c].at = "idle"
  BY DEF DineInit, SettleInit, TSInit, Idle
<1>2. OrdersTrue /\ PointersTrue /\ ClosedDone
  BY <1>1 DEF OrdersTrue, PointersTrue, ClosedDone, Placed
<1>3. \A c \in Calls : CallTrue(call[c]) /\ SubmitTrue(call[c])
  BY <1>1, NoClaim DEF SubmitTrue, FinClaims, SyncClaims, CloseClaims, AtOrder
<1> QED BY <1>1, <1>2, <1>3 DEF BillsInv

(* What holds of bills, pointers and handlers as long as nothing is corrected.*)
THEOREM BillsInvariant == ASSUME Undisturbed PROVE DineSpec => []BillsInv
<1>1. DineInit => BillsInv
  BY InitBills
<1>2. ServiceInv /\ ServiceInv' /\ BillsInv /\ [DineNext]_vars => BillsInv'
  BY BillsInvStep
<1>3. DineSpec => []ServiceInv
  BY ServiceInvariant
<1> QED BY <1>1, <1>2, <1>3, PTL DEF DineSpec

(* A completed order is paid and out of the kitchen, although the handler that *)
(* completes it read its payments and its tickets at different times: what    *)
(* was paid stays paid, and only a submission, which would have reopened the  *)
(* question, gives the kitchen new work.                                      *)
THEOREM CompletedOrderIsDone == ASSUME Undisturbed PROVE DineSpec => []CompletedIsDone
<1>1. ServiceInv /\ BillsInv => CompletedIsDone
  <2> SUFFICES ASSUME ServiceInv, BillsInv, NEW o \in Orders, order[o].status = "completed"
               PROVE  order[o].due = 0 /\ LiveKots(o) = {}
    BY DEF CompletedIsDone
  <2>1. PaidFor(o) /\ LiveKots(o) = {}
    BY DEF BillsInv, OrdersTrue, Done
  <2>2. /\ \/ order[o].paid + order[o].due = order[o].grand
           \/ order[o].due = 0
        /\ order[o] \in OrderDoc
    BY ServiceFacts DEF ServiceInv, IInv, DueIsRemainder
  <2> QED BY <2>1, <2>2 DEF PaidFor, OrderDoc
<1> QED BY <1>1, ServiceInvariant, BillsInvariant, PTL

(* One bill per session: an open order of a session is the one its pointer    *)
(* names.                                                                     *)
THEOREM SessionHasOneBill == ASSUME Undisturbed PROVE DineSpec => []OneBillPerSession
<1>1. ServiceInv /\ BillsInv => OneBillPerSession
  BY DEF ServiceInv, QuietInv, DineBase, BillsNamed, BillsInv, OrdersTrue, OneBillPerSession
<1> QED BY <1>1, ServiceInvariant, BillsInvariant, PTL

(* Completed and cancelled orders stay so, against every handler that still   *)
(* holds what it read of them when they were open.                            *)
THEOREM TerminalOrderStays == ASSUME Undisturbed PROVE DineSpec => TerminalOrderIsFinal
<1>1. /\ ServiceInv /\ ServiceInv' /\ BillsInv /\ [DineNext]_vars
      => [\A o \in Orders :
            order[o].status \in TerminalOrder => order'[o].status = order[o].status]_vars
  <2> SUFFICES ASSUME ServiceInv, ServiceInv', BillsInv, DineNext, NEW o \in Orders,
                      order[o].status \in TerminalOrder
               PROVE  order'[o].status = order[o].status
    OBVIOUS
  <2>1. CASE \A c \in Calls : ~CommitBill(c)
    BY <2>1, StepIsSteady DEF Steady
  <2>2. CASE \E c \in Calls : CommitBill(c)
    BY <2>2, CommitKeeps
  <2> QED BY <2>1, <2>2
<1> QED BY <1>1, ServiceInvariant, BillsInvariant, PTL DEF DineSpec, TerminalOrderIsFinal

(* A closed table owes nothing, leaves no order open and no ticket in the     *)
(* kitchen, although closing reads the session, its orders, their tickets and *)
(* payments one after the other.  A captain may not read the payments, and    *)
(* the closing goes on without them.                                          *)
THEOREM ClosedTableOwesNothing ==
  ASSUME Undisturbed, OnePartial, Kitchens \subseteq {TRUE}, "captain" \notin Staff
  PROVE  DineSpec => []ClosedSessionSettled
<1>1. ServiceInv /\ TicketsInv /\ BillsInv => ClosedSessionSettled
  <2> SUFFICES ASSUME ServiceInv, TicketsInv, BillsInv, NEW s \in Sessions,
                      session[s].status = "closed", NEW o \in OrdersOf(s)
               PROVE  ~OrderOpen(o) /\ order[o].due = 0 /\ LiveKots(o) = {}
    BY DEF ClosedSessionSettled
  <2>1. o \in Orders /\ sessOf[o] = s /\ Placed(o)
    BY DEF OrdersOf, ServiceInv, QuietInv, DineBase, BillsNamed
  <2>2. ~OrderOpen(o)
    BY DEF BillsInv, ClosedDone, SessionDone
  <2>3. order[o].status \in {"completed", "cancelled"}
    BY <2>2 DEF OrderOpen, TerminalOrder
  <2>4. /\ \/ order[o].paid + order[o].due = order[o].grand
           \/ order[o].due = 0
        /\ order[o] \in OrderDoc /\ order[o].paid <= order[o].grand
    BY <2>1, ServiceFacts DEF ServiceInv, IInv, DueIsRemainder
  <2>5. CASE order[o].status = "completed"
    <3>1. PaidFor(o) /\ LiveKots(o) = {}
      BY <2>1, <2>5 DEF BillsInv, OrdersTrue, Done
    <3> QED BY <2>2, <2>4, <3>1 DEF PaidFor, OrderDoc
  <2>6. CASE order[o].status = "cancelled"
    <3>1. order[o].grand = 0
      BY <2>1, <2>6 DEF BillsInv, OrdersTrue
    <3>2. order[o].due = 0
      BY <2>4, <3>1 DEF OrderDoc
    <3>3. Items(kot, o) = {}
      BY <2>1, <3>1, FS_EmptySet DEF TicketsInv, TicketsCounted
    <3>4. ASSUME NEW k \in Kots, kot[k].order = o
          PROVE  kot[k].status = "cancelled"
      <4>1. kot[k].qty \in Nat /\ kot[k].status \in KotStatus \union {"none"}
        BY ServiceFacts DEF KotDoc
      <4>2. ~(kot[k].qty > 0)
        <5>1. kot[k].qty > 0 => 1 \in 1..kot[k].qty
          BY <4>1
        <5>2. 1 \in 1..kot[k].qty => <<k, 1>> \in Items(kot, o)
          BY <3>4, ItemsMembers
        <5> QED BY <3>3, <5>1, <5>2
      <4>3. kot[k].status # "none"
        BY <2>1, <3>4, NoOrderIsNoOrder DEF TicketsInv, KotsCarry
      <4> QED BY <4>2, <4>3 DEF TicketsInv, KotsCarry
    <3>5. LiveKots(o) = {}
      BY <3>4 DEF LiveKots, KotsOf, TerminalKot
    <3> QED BY <2>2, <3>2, <3>5
  <2> QED BY <2>3, <2>5, <2>6
<1>2. Quiet /\ "send" \notin Ops
  BY DEF Undisturbed
<1> QED BY <1>1, <1>2, ServiceInvariant, TicketsInvariant, BillsInvariant, PTL
=============================================================================
