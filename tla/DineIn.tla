------------------------------- MODULE DineIn -------------------------------
(* A dine-in bill from the first item to the closed table: orders, kitchen    *)
(* tickets (KOTs), payments and table sessions together.                      *)
(*                                                                            *)
(* Every staff device and every server request runs its own code against the  *)
(* shared documents.  Only single documents and Firestore transactions are    *)
(* atomic, so a handler that reads, awaits and writes is several steps here:  *)
(* a call holds what it has read, and everything else may happen in between.  *)
(* The unit price is one, so a bill's total is its number of items.           *)
EXTENDS Settlement, TableSessions

CONSTANTS
  Kots,        \* ticket ids
  Calls,       \* slots for handlers in flight
  PosKeys,     \* clientRequestId values of order submissions
  Staff,       \* the roles on duty
  Ops,         \* the requests enabled in this instance
  Kitchens,    \* may hold TRUE: a kitchen at work, FALSE: the operating mode has none
  Quiet,       \* TRUE: while an order is submitted nothing else runs
  OnePartial,  \* TRUE: one partial cancellation at a time
  Crashes,     \* TRUE: a handler may stop between two steps
  MaxQty,      \* bound on the quantity of one submission
  NoPosKey, NoKot

Roles == {"manager", "captain", "cashier", "kitchen"}

Requests == {"submit", "tap", "dropKot", "partial", "complete", "pay", "pend", "refund",
             "close", "cancel", "send", "reopen"}

ASSUME StaffAndRequests == Staff \subseteq Roles /\ Ops \subseteq Requests

ASSUME SwitchesAreBoolean == {Quiet, OnePartial, Crashes} \union Kitchens \subseteq BOOLEAN

ASSUME NoKotIsNoTicket == NoKot \notin Kots

ASSUME NoPosKeyIsFresh == NoPosKey \notin PosKeys

ASSUME MaxQtyIsNatural == MaxQty \in Nat

VARIABLES
  sessOf,      \* orders: tableSessionId
  activeOrder, \* tableSessions: activeOrderId, the canonical bill of the session
  kot,         \* restaurants/R/kots
  cut,         \* orders: cancelledQuantity of the bill's line
  posKey,      \* restaurants/R/idempotency: records of create_order_with_kot
  call         \* the handlers in flight: what each has read and does next

billVars == <<sessOf, activeOrder, kot, cut, posKey>>

vars == <<settleVars, tsVars, billVars, call>>

KotDoc == [status : KotStatus \union {"none"}, order : Orders \union {NoOrder}, qty : Nat,
           key : PosKeys \union {NoPosKey}]

DineTypeOK ==
  /\ SettleTypeOK /\ TSTypeOK
  /\ sessOf \in [Orders -> Sessions \union {NoSession}]
  /\ activeOrder \in [Sessions -> Orders \union {NoOrder}]
  /\ kot \in [Kots -> KotDoc]
  /\ cut \in [Orders -> Nat]
  /\ posKey \in [PosKeys -> {"none", "pending", "completed"}]
  /\ DOMAIN call = Calls

Idle == [at |-> "idle"]

DineInit ==
  /\ SettleInit /\ TSInit
  /\ sessOf = [o \in Orders |-> NoSession]
  /\ activeOrder = [s \in Sessions |-> NoOrder]
  /\ kot = [k \in Kots |-> [status |-> "none", order |-> NoOrder, qty |-> 0, key |-> NoPosKey]]
  /\ cut = [o \in Orders |-> 0]
  /\ posKey = [k \in PosKeys |-> "none"]
  /\ call = [c \in Calls |-> Idle]

-----------------------------------------------------------------------------
In(c, at) == call[c].at = at

Goto(c, next) == call' = [call EXCEPT ![c] = next]

End(c) == Goto(c, Idle)

Submitting == \E c \in Calls : call[c].at \in {"lookup", "commit", "reply"}

(* A request may start: with Quiet, not beside the submission of an order.    *)
May(op) == op \in Ops /\ (Quiet => ~Submitting)

Begin(c, op) == May(op) /\ In(c, "idle")

OrderOpen(o) == order[o].status \notin TerminalOrder

KotsOf(o) == {k \in Kots : kot[k].order = o}

LiveKots(o) == {k \in KotsOf(o) : kot[k].status \notin TerminalKot}

OrdersOf(s) == {o \in Orders : sessOf[o] = s}

PendingPayment(o) == \E p \in Payments : payment[p].order = o /\ payment[p].status = "pending"

AnyOrderWriter(by, from, to) == by # "kitchen" \/ to # "cancelled"       \* a bug: any move

(* firestore.rules: who may write the status of an order.  The server signs   *)
(* in with a claim of its own.                                                *)
MayWriteOrder(by, from, to) ==
  \/ by \in {"manager", "server"}
  \/ by \in {"cashier", "captain"} /\ to \notin TerminalOrder /\ RulesMove(from, to)
  \/ by = "kitchen" /\ to # "cancelled" /\ RulesMove(from, to)

AnyKotWriter(by, from, to) == by \in {"manager", "captain", "kitchen"}   \* a bug: any move

(* firestore.rules: who may write the status of a ticket, from its current one*)
MayWriteKot(by, from, to) ==
  by \in {"manager", "captain", "kitchen"} /\ RulesMove(from, to)

MayCancelKotLoose(by, from) == by \in {"manager", "captain", "kitchen"}  \* a bug: served too

MayCancelKot(by, from) == MayWriteKot(by, from, "cancelled") /\ from # "served"

(* Reading the payments is left to these roles and the server.                *)
MayReadPayments(by) == by \in {"manager", "cashier", "server"}

-----------------------------------------------------------------------------
(* submitServerPosOrder: the session is read, then the bill to extend, then   *)
(* one transaction writes order, session pointer, ticket and key record.      *)
(* Without a kitchen no ticket is printed.                                    *)
StartSubmit(c, s, q, k, cook) ==
  /\ Begin(c, "submit")
  /\ Quiet => \A d \in Calls : In(d, "idle")
  /\ IsOpen(s)
  /\ Goto(c, [at |-> "lookup", s |-> s, q |-> q, k |-> k, cook |-> cook,
              active |-> activeOrder[s]])
  /\ UNCHANGED <<settleVars, tsVars, billVars>>

BillsForgotten(s, active) == {}                 \* a bug: every submission is a new bill

BillsClosed(s, active) ==                       \* a bug: a settled bill is extended
  IF active # NoOrder THEN {active} ELSE OrdersOf(s)

(* One bill per session: the session's pointer decides if there is one; if    *)
(* not, an order of the session that is still open (the latest one).          *)
BillsFound(s, active) ==
  {o \in (IF active # NoOrder THEN {active} ELSE OrdersOf(s)) : OrderOpen(o)}

(* Ids drawn by a submission in flight, before its documents exist.           *)
Drawn == UNION {{call[c].o, call[c].t} : c \in {d \in Calls : In(d, "commit")}}

FreeKot(t) == t \in Kots \ Drawn /\ kot[t].status = "none"

ReadBill(c, o, t) ==
  LET b    == call[c]
      live == BillsFound(b.s, b.active)
      new  == [status |-> IF b.cook THEN "sentToKitchen" ELSE "confirmed", grand |-> 0,
               paid |-> 0]
      base == IF live = {} THEN new ELSE order[o]
  IN  /\ In(c, "lookup")
      /\ IF live = {} THEN ~Placed(o) /\ o \notin Drawn ELSE o \in live
      /\ IF b.cook THEN FreeKot(t) ELSE t = NoKot
      /\ base.grand + b.q <= MaxTotal
      /\ Goto(c, [at |-> "commit", s |-> b.s, q |-> b.q, k |-> b.k, o |-> o, t |-> t,
                  bill |-> Settled([status |-> base.status, grand |-> base.grand + b.q,
                                    paid |-> 0, due |-> 0, payStatus |-> "unpaid"],
                                   base.paid)])
      /\ UNCHANGED <<settleVars, tsVars, billVars>>

KeyUnread(k) == TRUE                            \* a bug: the key record is not read

(* Only a completed record stops the transaction, a pending one does not.     *)
KeyAllowsCommit(k) == k # NoPosKey => posKey[k] # "completed"

TicketOfBill(b) ==                              \* a bug: the ticket repeats the whole bill
  [status |-> "sentToKitchen", order |-> b.o, qty |-> b.bill.grand, key |-> b.k]

(* The ticket lists the items of this submission only.                        *)
Ticket(b) == [status |-> "sentToKitchen", order |-> b.o, qty |-> b.q, key |-> b.k]

(* Of all this the transaction reads the key record only: the bill written is *)
(* the one computed from the earlier reads.                                   *)
CommitBill(c) ==
  LET b == call[c] IN
  /\ In(c, "commit")
  /\ IF KeyAllowsCommit(b.k)
     THEN /\ order' = [order EXCEPT ![b.o] = b.bill]
          /\ cut' = [cut EXCEPT ![b.o] = 0]
          /\ sessOf' = [sessOf EXCEPT ![b.o] = b.s]
          /\ activeOrder' = [activeOrder EXCEPT ![b.s] = b.o]
          /\ kot' = IF b.t = NoKot THEN kot ELSE [kot EXCEPT ![b.t] = Ticket(b)]
          /\ posKey' = IF b.k = NoPosKey THEN posKey ELSE [posKey EXCEPT ![b.k] = "pending"]
     ELSE UNCHANGED <<order, billVars>>
  /\ Goto(c, IF b.k = NoPosKey THEN Idle ELSE [at |-> "reply", k |-> b.k])
  /\ UNCHANGED <<payment, payKey, writtenOff, tsVars>>

(* The record is marked completed in a write of its own.                      *)
ReplyBill(c) ==
  /\ In(c, "reply")
  /\ posKey' = [posKey EXCEPT ![call[c].k] = "completed"]
  /\ End(c)
  /\ UNCHANGED <<settleVars, tsVars, sessOf, activeOrder, kot, cut>>

-----------------------------------------------------------------------------
(* syncParentOrderStatus: the bill's status follows its tickets.  next is     *)
(* what the caller awaits after it.                                           *)
Sync(o, by, next) == [at |-> "sync", o |-> o, by |-> by, next |-> next]

SyncRead(c) ==
  LET b == call[c] IN
  /\ In(c, "sync")
  /\ Goto(c, IF OrderOpen(b.o)
             THEN [at |-> "syncKots", o |-> b.o, by |-> b.by, next |-> b.next,
                   seen |-> order[b.o].status]
             ELSE b.next)
  /\ UNCHANGED <<settleVars, tsVars, billVars>>

SyncKots(c) ==
  LET b == call[c]
      new == AggregateStatus(b.seen, {kot[k].status : k \in KotsOf(b.o)})
  IN  /\ In(c, "syncKots")
      /\ Goto(c, IF new # b.seen /\ OrderMove(b.seen, new)
                 THEN [at |-> "syncWrite", o |-> b.o, by |-> b.by, next |-> b.next, new |-> new]
                 ELSE b.next)
      /\ UNCHANGED <<settleVars, tsVars, billVars>>

(* A plain update: the rules are all that stands between it and whatever the  *)
(* order has become; a denial is swallowed.                                   *)
SyncWrite(c) ==
  LET b == call[c] IN
  /\ In(c, "syncWrite")
  /\ IF MayWriteOrder(b.by, order[b.o].status, b.new)
     THEN StatusWrite(b.o, b.new) ELSE UNCHANGED settleVars
  /\ Goto(c, b.next)
  /\ UNCHANGED <<tsVars, billVars>>

-----------------------------------------------------------------------------
NoFinalize(o) == Idle                           \* a bug: nobody evaluates the bill

(* evaluateAndFinalizeOrderAndSession, run by the trusted server.             *)
Finalize(o) == [at |-> "fin", o |-> o]

SessionCheck(o, done) == [at |-> "finSession", o |-> o, done |-> done]

FinRead(c) ==
  LET o == call[c].o IN
  /\ In(c, "fin")
  /\ Goto(c, IF OrderOpen(o) THEN [at |-> "finPay", o |-> o, grand |-> order[o].grand]
             ELSE SessionCheck(o, order[o].status = "completed"))
  /\ UNCHANGED <<settleVars, tsVars, billVars>>

(* Payment documents are authoritative, not the amounts in the order.         *)
FinPay(c) ==
  LET b == call[c] IN
  /\ In(c, "finPay")
  /\ Goto(c, IF Cardinality(Till(b.o)) = b.grand /\ ~PendingPayment(b.o)
             THEN [at |-> "finKots", o |-> b.o] ELSE SessionCheck(b.o, FALSE))
  /\ UNCHANGED <<settleVars, tsVars, billVars>>

KitchenIgnored(o) == TRUE                       \* a bug: tickets are not looked at

KitchenDone(o) == LiveKots(o) = {}

FinKots(c) ==
  LET o == call[c].o IN
  /\ In(c, "finKots")
  /\ Goto(c, IF KitchenDone(o) THEN [at |-> "finWrite", o |-> o] ELSE SessionCheck(o, FALSE))
  /\ UNCHANGED <<settleVars, tsVars, billVars>>

FinWrite(c) ==
  /\ In(c, "finWrite")
  /\ CompleteOrderWrite(call[c].o)
  /\ Goto(c, SessionCheck(call[c].o, TRUE))
  /\ UNCHANGED <<tsVars, billVars>>

FinSession(c) ==
  LET b == call[c] IN
  /\ In(c, "finSession")
  /\ Goto(c, IF IsOpen(sessOf[b.o]) THEN [at |-> "finOrders", o |-> b.o, done |-> b.done]
             ELSE Idle)
  /\ UNCHANGED <<settleVars, tsVars, billVars>>

(* Every order of the session is completed and paid, or cancelled; the order  *)
(* just completed counts as completed whatever the query returns.             *)
AllSettled(s, mine) ==
  \A o \in OrdersOf(s) \ mine :
     order[o].status = "cancelled" \/ (order[o].status = "completed" /\ order[o].due = 0)

FinOrders(c) ==
  LET b == call[c]
      s == sessOf[b.o]
  IN  /\ In(c, "finOrders")
      /\ Goto(c, IF AllSettled(s, IF b.done THEN {b.o} ELSE {})
                 THEN [at |-> "finTickets", s |-> s, todo |-> OrdersOf(s)] ELSE Idle)
      /\ UNCHANGED <<settleVars, tsVars, billVars>>

NoClose(s, by, auto) == Idle                    \* a bug: the session is left open

Close(s, by, auto) == [at |-> "close", s |-> s, by |-> by, auto |-> auto]

FinTickets(c) ==
  LET b == call[c] IN
  /\ In(c, "finTickets")
  /\ \E o \in b.todo :
        Goto(c, IF ~KitchenDone(o) THEN Idle
                ELSE IF b.todo = {o} THEN Close(b.s, "server", TRUE)
                ELSE [b EXCEPT !.todo = @ \ {o}])
  /\ UNCHANGED <<settleVars, tsVars, billVars>>

-----------------------------------------------------------------------------
(* closeSession.  The screens ask it to complete settled orders (auto), the   *)
(* replay of offline requests does not.                                       *)
StartClose(c, s, by, auto) ==
  /\ Begin(c, "close")
  /\ by \in Staff \ {"kitchen"}
  /\ session[s].status # "none"
  /\ Goto(c, Close(s, by, auto))
  /\ UNCHANGED <<settleVars, tsVars, billVars>>

CloseRead(c) ==
  /\ In(c, "close")
  /\ Goto(c, IF IsOpen(call[c].s) THEN [call[c] EXCEPT !.at = "closeOrders"] ELSE Idle)
  /\ UNCHANGED <<settleVars, tsVars, billVars>>

(* The orders are read once, and judged by that reading.                      *)
CloseOrders(c) ==
  LET b == call[c]
      read == {[o |-> o, status |-> order[o].status, due |-> order[o].due] : o \in OrdersOf(b.s)}
  IN  /\ In(c, "closeOrders")
      /\ Goto(c, [at |-> "closeNext", s |-> b.s, by |-> b.by, auto |-> b.auto, todo |-> read])
      /\ UNCHANGED <<settleVars, tsVars, billVars>>

(* The work on one order of the session; the rest stays in todo.              *)
OnOrder(b, label, x) ==
  [at |-> label, s |-> b.s, by |-> b.by, auto |-> b.auto, todo |-> b.todo, x |-> x]

Unpaid(x) == x.status # "cancelled" /\ x.due > 0

CloseNext(c) ==
  LET b == call[c] IN
  /\ In(c, "closeNext")
  /\ \/ b.todo = {} /\ Goto(c, [at |-> "closeTx", s |-> b.s])
     \/ \E x \in b.todo :
          LET rest  == [b EXCEPT !.todo = @ \ {x}]
              ripe  == b.auto /\ x.status \notin TerminalOrder /\ x.due = 0
          IN  Goto(c, IF Unpaid(x) \/ (ripe /\ ~KitchenDone(x.o)) THEN Idle
                      ELSE OnOrder(rest, IF ripe THEN "closeComplete" ELSE "closeTickets", x))
  /\ UNCHANGED <<settleVars, tsVars, billVars>>

CloseComplete(c) ==
  LET b  == call[c]
      ok == MayWriteOrder(b.by, order[b.x.o].status, "completed")
  IN  /\ In(c, "closeComplete")
      /\ IF ok THEN StatusWrite(b.x.o, "completed") ELSE UNCHANGED settleVars
      /\ Goto(c, OnOrder(b, "closeTickets",
                         IF ok THEN [b.x EXCEPT !.status = "completed"] ELSE b.x))
      /\ UNCHANGED <<tsVars, billVars>>

(* Tickets still open are served, one write each; a denial is swallowed.      *)
CloseTickets(c) ==
  LET b == call[c]
      live == LiveKots(b.x.o)
  IN  /\ In(c, "closeTickets")
      /\ Goto(c, IF live = {} THEN OnOrder(b, "closePay", b.x)
                 ELSE [at |-> "closeServe", then |-> OnOrder(b, "closePay", b.x), ks |-> live])
      /\ UNCHANGED <<settleVars, tsVars, billVars>>

CloseServe(c) ==
  LET b == call[c] IN
  /\ In(c, "closeServe")
  /\ \E k \in b.ks :
       /\ kot' = IF MayWriteKot(b.then.by, kot[k].status, "served")
                 THEN [kot EXCEPT ![k].status = "served"] ELSE kot
       /\ Goto(c, IF b.ks = {k} THEN b.then ELSE [b EXCEPT !.ks = @ \ {k}])
  /\ UNCHANGED <<settleVars, tsVars, sessOf, activeOrder, cut, posKey>>

(* A role that may not read payments gets an error here, which the handler    *)
(* takes for a transient one: it skips all checks left and closes.            *)
ClosePay(c) ==
  LET b == call[c] IN
  /\ In(c, "closePay")
  /\ Goto(c, IF ~MayReadPayments(b.by) THEN [at |-> "closeTx", s |-> b.s]
             ELSE IF PendingPayment(b.x.o) \/ b.x.status \notin TerminalOrder THEN Idle
             ELSE [at |-> "closeNext", s |-> b.s, by |-> b.by, auto |-> b.auto,
                   todo |-> b.todo])
  /\ UNCHANGED <<settleVars, tsVars, billVars>>

CloseTx(c) ==
  LET s == call[c].s IN
  /\ In(c, "closeTx")
  /\ IF IsOpen(s) THEN CloseSession(s) ELSE UNCHANGED tsVars
  /\ End(c)
  /\ UNCHANGED <<settleVars, billVars>>

-----------------------------------------------------------------------------
(* updateKOTStatus: a transaction, then the synchronisation of the bill and,  *)
(* for a finished ticket, the finalization, side by side in the background.   *)
TapKot(c, d, k, st, by) ==
  LET o == kot[k].order IN
  /\ Begin(c, "tap")
  /\ by \in Staff
  /\ kot[k].status \notin {"none", st}
  /\ KotMove(kot[k].status, st) /\ MayWriteKot(by, kot[k].status, st)
  /\ kot' = [kot EXCEPT ![k].status = st]
  /\ IF st \in TerminalKot
     THEN /\ d # c /\ In(d, "idle")
          /\ call' = [call EXCEPT ![c] = Sync(o, by, Idle), ![d] = Finalize(o)]
     ELSE d = c /\ Goto(c, Sync(o, by, Idle))
  /\ UNCHANGED <<settleVars, tsVars, sessOf, activeOrder, cut, posKey>>

(* cancelKOT: read, check, then a plain update which the rules may refuse.    *)
StartDropKot(c, k, by) ==
  /\ Begin(c, "dropKot")
  /\ by \in Staff \ {"cashier"}
  /\ kot[k].status # "none" /\ KotMove(kot[k].status, "cancelled")
  /\ Goto(c, [at |-> "dropKot", k |-> k, by |-> by])
  /\ UNCHANGED <<settleVars, tsVars, billVars>>

DropKot(c) ==
  LET b == call[c]
      o == kot[b.k].order
  IN  /\ In(c, "dropKot")
      /\ IF MayCancelKot(b.by, kot[b.k].status)
         THEN /\ kot' = [kot EXCEPT ![b.k].status = "cancelled"]
              /\ Goto(c, Sync(o, b.by, Finalize(o)))
         ELSE UNCHANGED kot /\ End(c)
      /\ UNCHANGED <<settleVars, tsVars, sessOf, activeOrder, cut, posKey>>

-----------------------------------------------------------------------------
(* partiallyCancelKOTItemsWithAdmin: n items of a ticket are cancelled.       *)
StartPartial(c, k, n) ==
  /\ Begin(c, "partial")
  /\ OnePartial => \A d \in Calls : call[d].at \notin {"partOrder", "partTx"}
  /\ kot[k].status \notin TerminalKot \union {"none"}
  /\ n <= kot[k].qty
  /\ Goto(c, [at |-> "partOrder", k |-> k, n |-> n, ticket |-> kot[k]])
  /\ UNCHANGED <<settleVars, tsVars, billVars>>

PartOrder(c) ==
  LET b == call[c]
      o == b.ticket.order
  IN  /\ In(c, "partOrder")
      /\ Goto(c, IF /\ OrderOpen(o) /\ b.n <= order[o].grand
                    /\ CoversPaid(order[o], order[o].grand - b.n)
                 THEN [at |-> "partTx", k |-> b.k, n |-> b.n, ticket |-> b.ticket,
                       bill |-> order[o], cut |-> cut[o]]
                 ELSE Idle)
      /\ UNCHANGED <<settleVars, tsVars, billVars>>

(* The transaction's check that the bill is the one the totals were computed  *)
(* from.                                                                      *)
BillUnchanged(b) ==
  LET now == order[b.ticket.order] IN
  /\ now.grand = b.bill.grand /\ now.paid = b.bill.paid
  /\ cut[b.ticket.order] = b.cut

TicketUnread(b) == OrderOpen(b.ticket.order)    \* a bug: the ticket may be served meanwhile

StillOpen(b) == kot[b.k].status \notin TerminalKot /\ OrderOpen(b.ticket.order)

(* An empty bill is cancelled and the session's pointer to it dropped.        *)
PartTx(c) ==
  LET b    == call[c]
      o    == b.ticket.order
      g    == b.bill.grand - b.n
      left == b.ticket.qty - b.n
      s    == sessOf[o]
  IN  /\ In(c, "partTx")
      /\ IF StillOpen(b) /\ BillUnchanged(b)
         THEN /\ kot' = [kot EXCEPT ![b.k].qty = left,
                                    ![b.k].status = IF left = 0 THEN "cancelled"
                                                    ELSE b.ticket.status]
              /\ order' = [order EXCEPT ![o] = Repriced(@, g, IF g = 0 THEN "cancelled"
                                                                ELSE b.bill.status)]
              /\ cut' = [cut EXCEPT ![o] = @ + b.n]
              /\ activeOrder' = IF g = 0 /\ activeOrder[s] = o
                                THEN [activeOrder EXCEPT ![s] = NoOrder] ELSE activeOrder
         ELSE UNCHANGED <<kot, order, cut, activeOrder>>
      /\ End(c)
      /\ UNCHANGED <<payment, payKey, writtenOff, tsVars, sessOf, posKey>>

-----------------------------------------------------------------------------
(* completeOrder, run by the trusted server.                                  *)
StartComplete(c, o) ==
  /\ Begin(c, "complete")
  /\ Placed(o) /\ OrderOpen(o) /\ OrderMove(order[o].status, "completed")
  /\ order[o].due = 0
  /\ Goto(c, [at |-> "compKots", o |-> o])
  /\ UNCHANGED <<settleVars, tsVars, billVars>>

CompKots(c) ==
  LET o == call[c].o IN
  /\ In(c, "compKots")
  /\ Goto(c, IF KitchenDone(o) THEN [at |-> "compPay", o |-> o] ELSE Idle)
  /\ UNCHANGED <<settleVars, tsVars, billVars>>

CompPay(c) ==
  LET o == call[c].o IN
  /\ In(c, "compPay")
  /\ Goto(c, IF PendingPayment(o) THEN Idle ELSE [at |-> "compWrite", o |-> o])
  /\ UNCHANGED <<settleVars, tsVars, billVars>>

CompWrite(c) ==
  /\ In(c, "compWrite")
  /\ CompleteOrderWrite(call[c].o)
  /\ Goto(c, Finalize(call[c].o))
  /\ UNCHANGED <<tsVars, billVars>>

-----------------------------------------------------------------------------
(* recordPayment: only the payment that settles a bill runs the finalization. *)
Pay(c, o, a, st, k, p) ==
  /\ May(IF st = "completed" THEN "pay" ELSE "pend")
  /\ RecordPayment(o, a, st, k, p)
  /\ IF st = "completed" /\ order'[o].due = 0
     THEN In(c, "idle") /\ Goto(c, Finalize(o)) ELSE UNCHANGED call
  /\ UNCHANGED <<tsVars, billVars>>

(* Neither of these evaluates the bill again.                                 *)
Resolve(p, st) ==
  /\ May("pend")
  /\ payment[p].status = "pending"
  /\ UpdatePaymentStatus(p, st)
  /\ UNCHANGED <<tsVars, billVars, call>>

Refund(p) ==
  /\ May("refund")
  /\ RefundPayment(p)
  /\ UNCHANGED <<tsVars, billVars, call>>

-----------------------------------------------------------------------------
(* updateOrderStatus(cancelled).  A captain may do it for two minutes.        *)
StartCancel(c, o, by) ==
  /\ Begin(c, "cancel")
  /\ by \in Staff \intersect {"manager", "captain"}
  /\ Placed(o) /\ OrderMove(order[o].status, "cancelled")
  /\ Goto(c, [at |-> "cancelKots", o |-> o, by |-> by])
  /\ UNCHANGED <<settleVars, tsVars, billVars>>

CancelKots(c) ==
  LET b == call[c] IN
  /\ In(c, "cancelKots")
  /\ Goto(c, [at |-> "cancelNext", o |-> b.o, by |-> b.by, ks |-> LiveKots(b.o)])
  /\ UNCHANGED <<settleVars, tsVars, billVars>>

(* One write per ticket; the first one refused ends the loop, not the request.*)
CancelNext(c) ==
  LET b == call[c]
      write == [at |-> "cancelWrite", o |-> b.o, by |-> b.by]
  IN  /\ In(c, "cancelNext")
      /\ \/ b.ks = {} /\ Goto(c, write) /\ UNCHANGED kot
         \/ \E k \in b.ks :
              IF MayCancelKot(b.by, kot[k].status)
              THEN /\ kot' = [kot EXCEPT ![k].status = "cancelled"]
                   /\ Goto(c, [b EXCEPT !.ks = @ \ {k}])
              ELSE UNCHANGED kot /\ Goto(c, write)
      /\ UNCHANGED <<settleVars, tsVars, sessOf, activeOrder, cut, posKey>>

(* The rules let a captain write the status, but not the balance and payment  *)
(* status that are part of the same update.  The session's pointer stays: the *)
(* reference built for it does not name the session, and the error is ignored.*)
CancelWrite(c) ==
  LET b == call[c] IN
  /\ In(c, "cancelWrite")
  /\ IF b.by = "manager" THEN CancelOrderWrite(b.o) /\ Goto(c, Finalize(b.o))
     ELSE UNCHANGED settleVars /\ End(c)
  /\ UNCHANGED <<tsVars, billVars>>

-----------------------------------------------------------------------------
(* createKOTFromOrder, the captain's "Send KOT" button: the bill is sent to   *)
(* the kitchen once more, unless a ticket of as many lines is there already.  *)
(* Every press draws a new key.                                               *)
StartSend(c, o) ==
  /\ Begin(c, "send")
  /\ Staff \ {"kitchen"} # {}
  /\ Placed(o) /\ OrderOpen(o)
  /\ Goto(c, [at |-> "sendKots", o |-> o, seen |-> order[o].status, q |-> order[o].grand,
              whole |-> cut[o] = 0])
  /\ UNCHANGED <<settleVars, tsVars, billVars>>

(* Lines are counted, not items: a ticket of the whole bill has all of them,  *)
(* one of a part of it may.                                                   *)
SendKots(c) ==
  LET b     == call[c]
      sent  == {k \in KotsOf(b.o) : kot[k].status # "cancelled"}
      whole == b.whole /\ \E k \in sent : kot[k].qty = b.q
  IN  /\ In(c, "sendKots")
      /\ \/ sent # {} /\ End(c)
         \/ ~whole /\ Goto(c, [at |-> "sendWrite", o |-> b.o, seen |-> b.seen, q |-> b.q])
      /\ UNCHANGED <<settleVars, tsVars, billVars>>

SendWrite(c, t) ==
  LET b == call[c] IN
  /\ In(c, "sendWrite")
  /\ FreeKot(t)
  /\ kot' = [kot EXCEPT ![t] = [status |-> "sentToKitchen", order |-> b.o, qty |-> b.q,
                                key |-> NoPosKey]]
  /\ Goto(c, IF b.seen = "confirmed" THEN [at |-> "sendStatus", o |-> b.o] ELSE Idle)
  /\ UNCHANGED <<settleVars, tsVars, sessOf, activeOrder, cut, posKey>>

(* A plain update by the server, whatever the order has become since.         *)
SendStatus(c) ==
  /\ In(c, "sendStatus")
  /\ StatusWrite(call[c].o, "sentToKitchen")
  /\ End(c)
  /\ UNCHANGED <<tsVars, billVars>>

-----------------------------------------------------------------------------
(* reopenOrder: offered for completed orders; checks only that the order is   *)
(* not cancelled.  Of the roles, the rules let a manager take a status back.  *)
StartReopen(c, o, by) ==
  /\ Begin(c, "reopen")
  /\ by = "manager"
  /\ order[o].status = "completed"
  /\ Goto(c, [at |-> "reopen", o |-> o])
  /\ UNCHANGED <<settleVars, tsVars, billVars>>

ReopenWrite(c) ==
  /\ In(c, "reopen")
  /\ StatusWrite(call[c].o, "served")
  /\ End(c)
  /\ UNCHANGED <<tsVars, billVars>>

-----------------------------------------------------------------------------
Work(c) ==
  \/ CommitBill(c) \/ ReplyBill(c)
  \/ \E o \in Orders, t \in Kots \union {NoKot} : ReadBill(c, o, t)
  \/ SyncRead(c) \/ SyncKots(c) \/ SyncWrite(c)
  \/ FinRead(c) \/ FinPay(c) \/ FinKots(c) \/ FinWrite(c)
  \/ FinSession(c) \/ FinOrders(c) \/ FinTickets(c)
  \/ CloseRead(c) \/ CloseOrders(c) \/ CloseNext(c) \/ CloseComplete(c) \/ CloseTickets(c)
  \/ CloseServe(c) \/ ClosePay(c) \/ CloseTx(c)
  \/ DropKot(c) \/ PartOrder(c) \/ PartTx(c)
  \/ CompKots(c) \/ CompPay(c) \/ CompWrite(c)
  \/ CancelKots(c) \/ CancelNext(c) \/ CancelWrite(c)
  \/ SendKots(c) \/ (\E t \in Kots : SendWrite(c, t)) \/ SendStatus(c)
  \/ ReopenWrite(c)

Request(c) ==
  \/ \E s \in Sessions, q \in 1..MaxQty, k \in PosKeys \union {NoPosKey}, cook \in Kitchens :
        StartSubmit(c, s, q, k, cook)
  \/ \E s \in Sessions, by \in Staff, auto \in BOOLEAN : StartClose(c, s, by, auto)
  \/ \E d \in Calls, k \in Kots, st \in KotStatus, by \in Staff : TapKot(c, d, k, st, by)
  \/ \E k \in Kots, by \in Staff : StartDropKot(c, k, by)
  \/ \E k \in Kots, n \in 1..MaxQty : StartPartial(c, k, n)
  \/ \E o \in Orders : StartComplete(c, o) \/ StartSend(c, o)
  \/ \E o \in Orders, by \in Staff : StartCancel(c, o, by) \/ StartReopen(c, o, by)
  \/ \E o \in Orders, a \in 1..MaxTotal, st \in {"completed", "pending"},
        k \in PayKeys \union {NoPayKey}, p \in Payments : Pay(c, o, a, st, k, p)

(* The browser tab is closed or the server instance replaced.                 *)
Crash(c) ==
  /\ Crashes /\ ~In(c, "idle")
  /\ End(c)
  /\ UNCHANGED <<settleVars, tsVars, billVars>>

(* Tables and sessions: of their operations, those a bill depends on.         *)
Seat ==
  /\ \/ \E t \in Tables : CreateTable(t, MaxGuests, TRUE)
     \/ \E t \in Tables, s \in Sessions : OpenSession(t, 1, NoKey, s)
  /\ UNCHANGED <<settleVars, billVars, call>>

DineNext ==
  \/ Seat
  \/ \E c \in Calls : Request(c) \/ Work(c) \/ Crash(c)
  \/ \E p \in Payments : Refund(p) \/ \E st \in {"completed", "failed"} : Resolve(p, st)

DineSpec == DineInit /\ [][DineNext]_vars

(* A handler that does not crash takes its next step: the requests are awaited*)
(* by the browser or the server's event loop.  Nobody has to make a request.  *)
FairDineSpec == DineSpec /\ \A c \in Calls : WF_vars(Work(c))
-----------------------------------------------------------------------------
(* Tickets follow the kitchen's lifecycle whoever writes them: the tap in a   *)
(* transaction, cancellations and the closing of a table by plain writes that *)
(* rest on an earlier read ("following the strict KOT lifecycle state         *)
(* machine", kotService).                                                     *)
KotLifecycle ==
  [][\A k \in Kots : kot[k].status # "none" => KotMove(kot[k].status, kot'[k].status)]_vars

(* A ticket that was served or cancelled is never written again, also not by  *)
(* a partial cancellation, a cancelled order or the closing of the table that *)
(* read it when it was still open.                                            *)
TerminalKotIsFinal ==
  [][\A k \in Kots : kot[k].status \in TerminalKot => kot'[k] = kot[k]]_vars

(* The bill charges the items the kitchen was asked for: submissions and      *)
(* partial cancellations change tickets and total together.                   *)
TicketsMatchBill ==
  \A o \in Orders :
     order[o].grand = Cardinality(UNION {{k} \X (1..kot[k].qty) : k \in KotsOf(o)})

(* A completed order is paid and out of the kitchen: "Full financial          *)
(* settlement", "No active KOT remaining" (completeOrder).                    *)
CompletedIsDone ==
  \A o \in Orders : order[o].status = "completed" => order[o].due = 0 /\ LiveKots(o) = {}

(* Completed and cancelled orders stay so ("Never regress or overwrite        *)
(* terminal order states", kotQueueHelpers).                                  *)
TerminalOrderIsFinal ==
  [][\A o \in Orders :
       order[o].status \in TerminalOrder => order'[o].status = order[o].status]_vars

(* A closed table owes nothing: "no unpaid orders or active KOTs"             *)
(* (closeSession), and no order is left open behind it.                       *)
ClosedSessionSettled ==
  \A s \in Sessions : session[s].status = "closed" =>
     \A o \in OrdersOf(s) : ~OrderOpen(o) /\ order[o].due = 0 /\ LiveKots(o) = {}

(* "One canonical dine-in bill per open table session" (onlineOrderService).  *)
OneBillPerSession ==
  \A o, q \in Orders :
     sessOf[o] \in Sessions /\ sessOf[o] = sessOf[q] /\ OrderOpen(o) /\ OrderOpen(q) => o = q

(* A submission repeated with its clientRequestId reaches the kitchen once:   *)
(* the key "prevents ... multiple kitchen print runs during network retries"  *)
(* (PROJECT_DECISIONS).                                                       *)
KeySubmitsOnce ==
  \A k, l \in Kots : kot[k].key \in PosKeys /\ kot[k].key = kot[l].key => k = l

(* "A cancelled order must never remain collectible" (orderService).          *)
CancelledIsClosed == \A o \in Orders : order[o].status = "cancelled" => order[o].due = 0

(* The steps of all handlers, taken together, are steps of Settlement: what   *)
(* is proved of its amounts holds of this module too.                         *)
BillsKeepLedger == SettleSpec

Paid(o) == Placed(o) /\ Cardinality(Till(o)) = order[o].grand /\ ~PendingPayment(o)

(* A partial cancellation took all that was left of one of the tickets.       *)
CutAway(o) == \E k \in KotsOf(o) : kot[k].qty = 0

(* A bill that is paid and out of the kitchen does not stay open: its last    *)
(* payment and its last ticket, served or dropped, each look for the other.   *)
(* Two things that settle a bill look for nothing: a partial cancellation that*)
(* takes the last ticket away, and a pending payment that is resolved.  The   *)
(* first is excepted here, the second cannot happen without "pend" in Ops.    *)
SettledBillCompletes ==
  \A o \in Orders : []<>(Paid(o) /\ OrderOpen(o) => LiveKots(o) # {} \/ CutAway(o))

(* ... and the table is freed without anyone closing it, unless its bill was  *)
(* cut to nothing, which cancels the bill and looks at no table.              *)
SettledTableCloses ==
  \A s \in Sessions : []<>(IsOpen(s) /\ OrdersOf(s) # {} =>
     \E o \in OrdersOf(s) :
        OrderOpen(o) \/ order[o].due > 0 \/ LiveKots(o) # {} \/ order[o].grand = 0)
=============================================================================
