----------------------------- MODULE OnlineOrders -----------------------------
(* One online order from the counter's queue to the handover                  *)
(* (OnlineOrdersQueue; acceptServerOnlineOrder; the online-handover route;    *)
(* orderService), with the kitchen that cooks it and the guest who follows it *)
(* on a phone (customerOrderTrackingService).  A handler that awaits is       *)
(* several steps, and only the desks are kept from doing two things at once.  *)
(* The kitchen moves tickets on, cancels them (kotService) and takes single   *)
(* items off them (partialCancellationService).                               *)
EXTENDS OrderStates, Naturals, FiniteSets

CONSTANTS
  Desks,      \* browsers with the queue of online orders open
  Chores,     \* slots for handlers of the kitchen display
  Adjusts,    \* slots for partial cancellations at work on the server
  Slips,      \* kitchen ticket ids
  Portions,   \* items ordered; all of them cost something
  Cook,       \* the role of whoever uses the kitchen display
  Duties,     \* <<desk, operation, role>>: who does what at which desk
  CollectAt,  \* stages at which the desks collect what is due
  LateFirst,  \* may the page's first fetch and its polls overtake each other?
  CrashAt     \* at which steps may the server stop while it works for a desk?

ASSUME DutiesKnown ==
  /\ Duties \subseteq Desks \X {"accept", "reject", "ready", "handover", "collect"}
                           \X {"manager", "cashier", "captain"}
  /\ CollectAt \subseteq OrderStatus /\ LateFirst \in BOOLEAN
  /\ Portions \in Nat \ {0} /\ Cook \in {"kitchen", "captain", "manager"}
  /\ CrashAt \subseteq {"accept", "acceptWrite", "acceptSlip", "handover", "handoverKots",
                         "serve", "complete", "completeKots", "completeWrite"}

VARIABLES
  bill,    \* the order: its status, whether something is due, the items left on it
  slip,    \* its kitchen tickets: their states
  dish,    \* and the items left on each
  desk,    \* what each desk's handler has read and does next
  chore,   \* the same of the kitchen display
  adjust,  \* the same of partial cancellations
  setBack, \* history: has one of them put back a status the order had left?
  guest    \* the tracking page: polling?, its poll and its first fetch under way,
           \* the stage shown

kitchenVars == <<dish, chore, adjust, setBack>>

onlineVars == <<bill, slip, desk, kitchenVars, guest>>

Stages == OrderStatus \union {"none"}

OnlineTypeOK ==
  /\ bill \in [st : OrderStatus, due : BOOLEAN, left : 0..Portions]
  /\ slip \in [Slips -> KotStatus \union {"none"}]
  /\ dish \in [Slips -> 0..Portions]
  /\ \A d \in Desks : /\ desk[d].by \in {"nobody", "manager", "cashier", "captain"}
                      /\ desk[d].todo \subseteq Slips
                      /\ desk[d].todo # {} <=> desk[d].at \in {"rejectKot", "readyKot", "serve"}
  /\ \A c \in Chores : chore[c].at \in {"rest", "drop", "sync", "aggregate", "follow",
                                        "final", "finalKots", "finalWrite"}
  /\ \A a \in Adjusts : /\ adjust[a].at \in {"rest", "order", "write"}
                        /\ adjust[a].at # "rest" => adjust[a].n \in 1..adjust[a].had
  /\ setBack \in BOOLEAN
  /\ guest \in [polling : BOOLEAN, heard : Stages, first : Stages \union {"asked"},
                shown : Stages]

AtRest == [at |-> "rest", by |-> "nobody", todo |-> {}]

Idle == [at |-> "rest"]

OnlineInit ==
  /\ bill = [st |-> "confirmed", due |-> TRUE, left |-> Portions]
  /\ slip = [k \in Slips |-> "none"]
  /\ dish = [k \in Slips |-> 0]
  /\ desk = [d \in Desks |-> AtRest]
  /\ chore = [c \in Chores |-> Idle]
  /\ adjust = [a \in Adjusts |-> Idle] /\ setBack = FALSE
  /\ guest = [polling |-> FALSE, heard |-> "none", first |-> "none", shown |-> "none"]

Made == {k \in Slips : slip[k] # "none"}

Unserved == {k \in Made : slip[k] \notin TerminalKot}

(* firestore.rules, for the roles that write from a browser.                  *)
MayMoveOrder(by, to) ==
  \/ by = "manager"
  \/ to \notin TerminalOrder /\ RulesMove(bill.st, to)

MayMoveSlip(by, k, to) == by # "cashier" /\ RulesMove(slip[k], to)

-----------------------------------------------------------------------------
(* The desks.  A button acts on the order as the queue shows it; while it is  *)
(* at work the other buttons of that browser are disabled.                    *)
Doing(d, at) == desk[d].at = at

Turn(d, next) == desk' = [desk EXCEPT ![d] = next]

Then(d, at) == Turn(d, [desk[d] EXCEPT !.at = at])

Rest(d) == Turn(d, AtRest)

PendingTooLong == bill.st \in {"draft", "confirmed", "sentToKitchen"}   \* a bug: accepted ones too

Pending == bill.st \in {"draft", "confirmed"}

InKitchen == bill.st \in {"sentToKitchen", "preparing"}

Offered(op) ==
  CASE op \in {"accept", "reject"} -> Pending
    [] op = "ready"                -> InKitchen
    [] op = "handover"             -> bill.st = "ready" /\ ~bill.due
    [] OTHER                       -> bill.due /\ bill.st \in CollectAt

(* The rules let only the manager write a rejection.                          *)
PressButton(d, op, by) ==
  /\ Doing(d, "rest")
  /\ <<d, op, by>> \in Duties
  /\ Offered(op)
  /\ op = "reject" => by = "manager"
  /\ Turn(d, [at |-> op, by |-> by, todo |-> {}])
  /\ UNCHANGED <<bill, slip, kitchenVars, guest>>

AcceptRead(d) ==
  /\ Doing(d, "accept")
  /\ IF Pending THEN Then(d, "acceptWrite") ELSE Rest(d)
  /\ UNCHANGED <<bill, slip, kitchenVars, guest>>

AcceptWrite(d) ==
  /\ Doing(d, "acceptWrite")
  /\ bill' = [bill EXCEPT !.st = "sentToKitchen"]
  /\ Then(d, "acceptSlip")
  /\ UNCHANGED <<slip, kitchenVars, guest>>

(* Tickets in state draft or confirmed would be sent instead, but none is     *)
(* ever made.  The items are those of the pending order, of which nothing has *)
(* been cancelled yet.                                                        *)
AcceptSlip(d) ==
  LET k == CHOOSE k \in Slips : slip[k] = "none"
  IN  /\ Doing(d, "acceptSlip") /\ Made # Slips
      /\ slip' = [slip EXCEPT ![k] = "sentToKitchen"]
      /\ dish' = [dish EXCEPT ![k] = Portions]
      /\ Rest(d)
      /\ UNCHANGED <<bill, chore, adjust, setBack, guest>>

(* The server stops: the desk hears an error, and may press again.            *)
ServerGone(d) ==
  /\ desk[d].at \in CrashAt
  /\ Rest(d)
  /\ UNCHANGED <<bill, slip, kitchenVars, guest>>

RejectRead(d) ==
  /\ Doing(d, "reject")
  /\ IF bill.st \in TerminalOrder THEN Rest(d) ELSE Then(d, "rejectWrite")
  /\ UNCHANGED <<bill, slip, kitchenVars, guest>>

RejectWrite(d) ==
  /\ Doing(d, "rejectWrite")
  /\ bill' = [bill EXCEPT !.st = "cancelled"]
  /\ Then(d, "rejectKots")
  /\ UNCHANGED <<slip, kitchenVars, guest>>

ReadyWrite(d) ==
  /\ Doing(d, "ready")
  /\ IF MayMoveOrder(desk[d].by, "ready")
     THEN bill' = [bill EXCEPT !.st = "ready"] /\ Then(d, "readyKots")
     ELSE Rest(d) /\ UNCHANGED bill
  /\ UNCHANGED <<slip, kitchenVars, guest>>

(* Tickets follow, one after another; the first refusal ends the loop.        *)
Follows(d) == IF desk[d].at \in {"rejectKots", "rejectKot"} THEN "cancelled" ELSE "ready"

LoopOverNone(d, at, todo) ==            \* a bug: there may be no ticket to follow
  Turn(d, [desk[d] EXCEPT !.at = at, !.todo = todo])

LoopOver(d, at, todo) ==
  Turn(d, IF todo = {} THEN AtRest ELSE [desk[d] EXCEPT !.at = at, !.todo = todo])

FindSlips(d) ==
  LET rejecting == Doing(d, "rejectKots")
      todo == {k \in Made : slip[k] # "cancelled" /\ (rejecting \/ slip[k] \notin {"ready", "served"})}
  IN  /\ Doing(d, "rejectKots") \/ Doing(d, "readyKots")
      /\ LoopOver(d, IF rejecting THEN "rejectKot" ELSE "readyKot", todo)
      /\ UNCHANGED <<bill, slip, kitchenVars, guest>>

MoveSlip(d) ==
  /\ Doing(d, "rejectKot") \/ Doing(d, "readyKot")
  /\ \E k \in desk[d].todo :
       IF MayMoveSlip(desk[d].by, k, Follows(d))
       THEN /\ slip' = [slip EXCEPT ![k] = Follows(d)]
            /\ Turn(d, IF desk[d].todo = {k} THEN AtRest ELSE [desk[d] EXCEPT !.todo = @ \ {k}])
       ELSE Rest(d) /\ UNCHANGED slip
  /\ UNCHANGED <<bill, kitchenVars, guest>>

(* The online-handover route.                                                 *)
HandoverRead(d) ==
  /\ Doing(d, "handover")
  /\ IF bill.st \in TerminalOrder \/ bill.due THEN Rest(d) ELSE Then(d, "handoverKots")
  /\ UNCHANGED <<bill, slip, kitchenVars, guest>>

AllCooked == \A k \in Unserved : slip[k] = "ready"

HandoverKots(d) ==
  LET packed == {k \in Made : slip[k] = "ready"}
  IN  /\ Doing(d, "handoverKots")
      /\ Turn(d, IF ~AllCooked THEN AtRest
                 ELSE IF packed = {} THEN [desk[d] EXCEPT !.at = "complete"]
                 ELSE [desk[d] EXCEPT !.at = "serve", !.todo = packed])
      /\ UNCHANGED <<bill, slip, kitchenVars, guest>>

(* One batch, written whatever the tickets have become.                       *)
ServeSlips(d) ==
  /\ Doing(d, "serve")
  /\ slip' = [k \in Slips |-> IF k \in desk[d].todo THEN "served" ELSE slip[k]]
  /\ Turn(d, [desk[d] EXCEPT !.at = "complete", !.todo = {}])
  /\ UNCHANGED <<bill, kitchenVars, guest>>

(* completeOrder.  An online order belongs to no table session.               *)
CompleteRead(d) ==
  /\ Doing(d, "complete")
  /\ IF bill.st \in TerminalOrder \/ ~OrderMove(bill.st, "completed") \/ bill.due
     THEN Rest(d) ELSE Then(d, "completeKots")
  /\ UNCHANGED <<bill, slip, kitchenVars, guest>>

CookedIgnored == TRUE                           \* a bug: tickets are not looked at

NothingCooking == Unserved = {}

CompleteKots(d) ==
  /\ Doing(d, "completeKots")
  /\ IF NothingCooking THEN Then(d, "completeWrite") ELSE Rest(d)
  /\ UNCHANGED <<bill, slip, kitchenVars, guest>>

CompleteWrite(d) ==
  /\ Doing(d, "completeWrite") \/ Doing(d, "settledWrite")
  /\ bill' = [bill EXCEPT !.st = "completed"]
  /\ Rest(d)
  /\ UNCHANGED <<slip, kitchenVars, guest>>

(* recordPayment of all that is due, and the finalization it awaits.          *)
Collect(d) ==
  /\ Doing(d, "collect")
  /\ IF bill.st = "cancelled" \/ ~bill.due
     THEN Rest(d) /\ UNCHANGED bill
     ELSE Then(d, "settled") /\ bill' = [bill EXCEPT !.due = FALSE]
  /\ UNCHANGED <<slip, kitchenVars, guest>>

SettledRead(d) ==
  /\ Doing(d, "settled")
  /\ IF bill.st \in TerminalOrder THEN Rest(d) ELSE Then(d, "settledKots")
  /\ UNCHANGED <<bill, slip, kitchenVars, guest>>

SettledKots(d) ==
  /\ Doing(d, "settledKots")
  /\ IF NothingCooking THEN Then(d, "settledWrite") ELSE Rest(d)
  /\ UNCHANGED <<bill, slip, kitchenVars, guest>>

DeskStep(d) ==
  \/ AcceptRead(d) \/ AcceptWrite(d) \/ AcceptSlip(d)
  \/ RejectRead(d) \/ RejectWrite(d)
  \/ ReadyWrite(d) \/ FindSlips(d) \/ MoveSlip(d)
  \/ HandoverRead(d) \/ HandoverKots(d) \/ ServeSlips(d)
  \/ CompleteRead(d) \/ CompleteKots(d) \/ CompleteWrite(d)
  \/ Collect(d) \/ SettledRead(d) \/ SettledKots(d)

-----------------------------------------------------------------------------
(* The kitchen.                                                               *)
Resting(c) == chore[c].at = "rest"

Task(at) == [at |-> at]

Sync(next) == [at |-> "sync", next |-> next]    \* next: what its caller does after it

Goes(c, task) == chore' = [chore EXCEPT ![c] = task]

(* updateKOTStatus: the tap moves a ticket in a transaction and leaves the    *)
(* order's status, and what a finished ticket may finish, to the background.  *)
TapSlip(k, to, c, f) ==
  /\ slip[k] \notin {"none", to} /\ to \in {"preparing", "ready", "served"}
  /\ KotMove(slip[k], to) /\ RulesMove(slip[k], to)
  /\ slip' = [slip EXCEPT ![k] = to]
  /\ Resting(c)
  /\ IF to = "served"
     THEN /\ f # c /\ Resting(f)
          /\ chore' = [chore EXCEPT ![c] = Sync("rest"), ![f] = Task("final")]
     ELSE f = c /\ Goes(c, Sync("rest"))
  /\ UNCHANGED <<bill, dish, desk, adjust, setBack, guest>>

(* cancelKOT: the ticket is read, written by a plain update, and then the     *)
(* handler waits for what a tap leaves to the background.                     *)
PressCancel(k, c) ==
  /\ slip[k] # "none" /\ KotMove(slip[k], "cancelled")
  /\ Resting(c) /\ Goes(c, [at |-> "drop", k |-> k])
  /\ UNCHANGED <<bill, slip, dish, desk, adjust, setBack, guest>>

DropSlip(c) ==
  LET k == chore[c].k
  IN  /\ chore[c].at = "drop"
      /\ IF RulesMove(slip[k], "cancelled")
         THEN slip' = [slip EXCEPT ![k] = "cancelled"] /\ Goes(c, Sync("final"))
         ELSE Goes(c, Idle) /\ UNCHANGED slip
      /\ UNCHANGED <<bill, dish, desk, adjust, setBack, guest>>

(* syncParentOrderStatus.                                                     *)
SyncOrder(c) ==
  LET next == chore[c].next
  IN  /\ chore[c].at = "sync"
      /\ Goes(c, IF bill.st \in TerminalOrder THEN Task(next)
                 ELSE [at |-> "aggregate", next |-> next, seen |-> bill.st])
      /\ UNCHANGED <<bill, slip, dish, desk, adjust, setBack, guest>>

Aggregate(c) ==
  LET next == chore[c].next
      seen == chore[c].seen
      new  == AggregateStatus(seen, {slip[k] : k \in Made})
  IN  /\ chore[c].at = "aggregate"
      /\ Goes(c, IF new # seen /\ OrderMove(seen, new)
                 THEN [at |-> "follow", next |-> next, seen |-> new] ELSE Task(next))
      /\ UNCHANGED <<bill, slip, dish, desk, adjust, setBack, guest>>

AnyMove(to) == TRUE                             \* a bug: the rules let a stale write pass

KitchenMayWrite(to) == Cook = "manager" \/ (to # "cancelled" /\ RulesMove(bill.st, to))

FollowKots(c) ==
  /\ chore[c].at = "follow"
  /\ bill' = IF KitchenMayWrite(chore[c].seen) THEN [bill EXCEPT !.st = chore[c].seen] ELSE bill
  /\ Goes(c, Task(chore[c].next))
  /\ UNCHANGED <<slip, dish, desk, adjust, setBack, guest>>

(* evaluateAndFinalizeOrderAndSession: order and payments, then tickets.      *)
Final(c) ==
  /\ chore[c].at = "final"
  /\ Goes(c, IF bill.st \in TerminalOrder \/ bill.due THEN Idle ELSE Task("finalKots"))
  /\ UNCHANGED <<bill, slip, dish, desk, adjust, setBack, guest>>

FinalKots(c) ==
  /\ chore[c].at = "finalKots"
  /\ Goes(c, IF NothingCooking THEN Task("finalWrite") ELSE Idle)
  /\ UNCHANGED <<bill, slip, dish, desk, adjust, setBack, guest>>

FinalWrite(c) ==
  /\ chore[c].at = "finalWrite"
  /\ bill' = [bill EXCEPT !.st = "completed"]
  /\ Goes(c, Idle)
  /\ UNCHANGED <<slip, dish, desk, adjust, setBack, guest>>

ChoreStep(c) ==
  \/ DropSlip(c) \/ SyncOrder(c) \/ Aggregate(c) \/ FollowKots(c)
  \/ Final(c) \/ FinalKots(c) \/ FinalWrite(c)

-----------------------------------------------------------------------------
(* partiallyCancelKOTItemsWithAdmin: n items are taken off a ticket and off   *)
(* the order.  The server reads the ticket, then the order, and compares in   *)
(* its transaction the items and amounts with what it read, not the states.   *)
StartAdjust(a, k, n) ==
  /\ adjust[a] = Idle
  /\ slip[k] \notin TerminalKot \union {"none"} /\ n <= dish[k]
  /\ adjust' = [adjust EXCEPT ![a] =
                  [at |-> "order", k |-> k, n |-> n, kot |-> slip[k], had |-> dish[k]]]
  /\ UNCHANGED <<bill, slip, dish, desk, chore, setBack, guest>>

(* What is paid cannot be made smaller: the whole is paid at once.            *)
AdjustRead(a) ==
  LET b == adjust[a]
  IN  /\ b.at = "order"
      /\ adjust' = [adjust EXCEPT ![a] =
                      IF bill.st \in TerminalOrder \/ b.n > bill.left \/ ~bill.due THEN Idle
                      ELSE [at |-> "write", k |-> b.k, n |-> b.n, kot |-> b.kot, had |-> b.had,
                            st |-> bill.st, left |-> bill.left]]
      /\ UNCHANGED <<bill, slip, dish, desk, chore, setBack, guest>>

StillAsRead(b) ==
  /\ slip[b.k] \notin TerminalKot /\ bill.st \notin TerminalOrder
  /\ bill.left = b.left /\ bill.due

(* Both documents are written whole, with the states that were read.          *)
AdjustWrite(a) ==
  LET b    == adjust[a]
      kept == b.left # b.n
  IN  /\ b.at = "write"
      /\ IF StillAsRead(b)
         THEN /\ dish' = [dish EXCEPT ![b.k] = b.had - b.n]
              /\ slip' = [slip EXCEPT ![b.k] = IF b.had = b.n THEN "cancelled" ELSE b.kot]
              /\ bill' = [st |-> IF kept THEN b.st ELSE "cancelled", due |-> kept,
                          left |-> b.left - b.n]
              /\ setBack' = (setBack \/ (kept /\ bill.st # b.st))
         ELSE UNCHANGED <<dish, slip, bill, setBack>>
      /\ adjust' = [adjust EXCEPT ![a] = Idle]
      /\ UNCHANGED <<desk, chore, guest>>

AdjustStep(a) == AdjustRead(a) \/ AdjustWrite(a)

-----------------------------------------------------------------------------
(* The guest's phone.                                                         *)
restaurantVars == <<bill, slip, desk, kitchenVars>>

(* The tracking page is opened: it fetches the order once and starts to poll. *)
Follow ==
  /\ ~guest.polling /\ guest.heard = "none" /\ guest.first = "none"
  /\ guest' = [guest EXCEPT !.polling = TRUE, !.first = "asked"]
  /\ UNCHANGED restaurantVars

(* The first fetch: the server reads; the answer arrives, or none.            *)
FirstRead ==
  /\ guest.first = "asked"
  /\ guest' = [guest EXCEPT !.first = bill.st]
  /\ UNCHANGED restaurantVars

FirstHear ==
  /\ guest.first \in OrderStatus
  /\ guest' \in {[guest EXCEPT !.first = "none", !.shown = guest.first],
                 [guest EXCEPT !.first = "none"]}
  /\ UNCHANGED restaurantVars

StopsEarly(st) == st \in {"ready", "served", "completed", "cancelled"}  \* a bug: ready is taken for the end

StopsAt(st) == st \in {"served", "completed", "cancelled"}

(* Every 20 seconds, unless a poll is under way; the server reads.            *)
Poll ==
  /\ guest.polling /\ guest.heard = "none"
  /\ LateFirst \/ guest.first = "none"
  /\ guest' = [guest EXCEPT !.heard = bill.st]
  /\ UNCHANGED restaurantVars

(* The answer, or none.  A terminal state ends the polling.                   *)
Hear ==
  /\ guest.heard # "none"
  /\ guest' = [guest EXCEPT !.heard = "none", !.shown = guest.heard,
                            !.polling = ~StopsAt(guest.heard)]
  /\ UNCHANGED restaurantVars

HearNothing ==
  /\ guest.heard # "none"
  /\ guest' = [guest EXCEPT !.heard = "none"]
  /\ UNCHANGED restaurantVars

-----------------------------------------------------------------------------
OnlineNext ==
  \/ \E d \in Desks : DeskStep(d) \/ ServerGone(d)
  \/ \E duty \in Duties : PressButton(duty[1], duty[2], duty[3])
  \/ \E k \in Slips, to \in KotStatus, c, f \in Chores : TapSlip(k, to, c, f)
  \/ \E k \in Slips, c \in Chores : PressCancel(k, c)
  \/ \E c \in Chores : ChoreStep(c)
  \/ \E a \in Adjusts, k \in Slips, n \in 1..Portions : StartAdjust(a, k, n)
  \/ \E a \in Adjusts : AdjustStep(a)
  \/ Follow \/ FirstRead \/ FirstHear \/ Poll \/ Hear \/ HearNothing

OnlineSpec == OnlineInit /\ [][OnlineNext]_onlineVars

(* Handlers end, the interval goes on, and some of its answers arrive.        *)
OnlineFairness ==
  /\ \A d \in Desks : WF_onlineVars(DeskStep(d))
  /\ \A c \in Chores : WF_onlineVars(ChoreStep(c))
  /\ \A a \in Adjusts : WF_onlineVars(AdjustStep(a))
  /\ WF_onlineVars(FirstRead) /\ WF_onlineVars(FirstHear)
  /\ WF_onlineVars(Poll) /\ SF_onlineVars(Hear) /\ WF_onlineVars(HearNothing)

OnlineFairSpec == OnlineSpec /\ OnlineFairness

-----------------------------------------------------------------------------
(* Properties.                                                                *)

(* An accepted order is cooked once: it never has two tickets.                *)
OneSlipPerOrder == Cardinality(Made) <= 1

(* An order the kitchen should have, and its desk is done with, has a ticket. *)
AcceptedHasSlip ==
  (InKitchen /\ \A d \in Desks : ~Doing(d, "acceptSlip")) => Made # {}

(* A completed order has been accepted, it still has items and they are paid, *)
(* and the kitchen is done with it: the desk, the payment, the last served    *)
(* ticket and a cancelled one each complete it on what they have read, while  *)
(* items are taken off.  A cancelled ticket counts as done.                   *)
CompletedIsFinished ==
  bill.st = "completed" => ~bill.due /\ bill.left > 0 /\ Made # {} /\ Unserved = {}

(* A rejected order is not cooked.                                            *)
RejectedIsNotCooked ==
  (bill.st = "cancelled" /\ \A d \in Desks : Doing(d, "rest")) => Unserved = {}

Step(st) ==
  CASE st = "none" -> 0
    [] st \in {"draft", "confirmed"} -> 1
    [] st = "sentToKitchen" -> 2
    [] st = "preparing" -> 3
    [] st = "ready" -> 4
    [] st = "served" -> 5
    [] OTHER -> 6

(* What a guest sees of the order moves on and never back, though desks and   *)
(* kitchen write the status from what they read before, unless a partial      *)
(* cancellation has put back a status the order had left.                     *)
GuestSeesProgress ==
  [][setBack \/ Step(guest'.shown) >= Step(guest.shown)]_onlineVars

(* Liveness: a guest who keeps the page open learns that the order is done.   *)
GuestLearnsTheEnd ==
  (bill.st \in TerminalOrder /\ (guest.polling \/ guest.shown # "none")) ~>
    guest.shown \in {"served", "completed", "cancelled"}
=============================================================================
