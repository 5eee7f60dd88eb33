--------------------------- MODULE OnlineCheckout ---------------------------
(* A customer's phone places an order from the public menu                    *)
(* (CustomerCheckoutModal, submitCustomerOnlineOrder) over a network that     *)
(* loses requests and answers; the server executes it once per key            *)
(* (submitServerOnlineOrder); and the counter's browser rings for it          *)
(* (subscribeToNewOnlineOrders).                                              *)
EXTENDS Naturals, FiniteSets

CONSTANTS
  Checkouts,    \* idempotency keys: one for every opening of the checkout
  Requests,     \* slots for requests the server works on
  OrderIds,     \* ids the server may draw for an order
  SlowServer,   \* may a request outlast the lease of 15 minutes?
  LostCommits,  \* may a transaction commit and yet report an error?
  NoCheckout, NoOrderId

ASSUME CheckoutConstants ==
  /\ SlowServer \in BOOLEAN /\ LostCommits \in BOOLEAN
  /\ NoCheckout \notin Checkouts /\ NoOrderId \notin OrderIds

VARIABLES
  phone,     \* the checkout on the customer's screen, and its key
  basket,    \* are there items in the cart?
  keysUsed,  \* keys drawn so far
  wire,      \* a request under way to the server, and whether its answer is awaited
  web,       \* the requests the server works on
  claim,     \* restaurants/R/idempotency: the record of each key
  placed,    \* restaurants/R/orders: the checkout an order comes from
  tracked,   \* orders the phone keeps a reference to
  bell,      \* the counter's listener: its state, and the orders it has seen
  rung       \* history: how often an order was announced; stops at two

checkoutVars == <<phone, basket, keysUsed, wire, web, claim, placed, tracked, bell, rung>>
bellVars == <<bell, rung>>

Screens == {"closed", "form", "sending", "failed", "thanks"}

Idle == [at |-> "idle", key |-> NoCheckout, order |-> NoOrderId, awaited |-> FALSE]

CheckoutTypeOK ==
  /\ phone \in [screen : Screens, key : Checkouts \union {NoCheckout}]
  /\ basket \in BOOLEAN
  /\ keysUsed \subseteq Checkouts
  /\ wire \in [Checkouts -> {"none", "awaited", "forgotten"}]
  /\ web \in [Requests -> [at : {"idle", "claim", "commit", "mark", "reply"},
                           key : Checkouts \union {NoCheckout},
                           order : OrderIds \union {NoOrderId}, awaited : BOOLEAN]]
  /\ claim \in [Checkouts -> [st : {"none", "pending", "completed", "failed"},
                              fresh : BOOLEAN, order : OrderIds \union {NoOrderId}]]
  /\ \A k \in Checkouts : claim[k].st = "completed" => claim[k].order # NoOrderId
  /\ placed \in [OrderIds -> Checkouts \union {NoCheckout}]
  /\ tracked \subseteq OrderIds
  /\ bell \in [state : {"off", "first", "live"}, seen : SUBSET OrderIds]
  /\ rung \in [OrderIds -> 0..2]

CheckoutInit ==
  /\ phone = [screen |-> "closed", key |-> NoCheckout]
  /\ basket = TRUE
  /\ keysUsed = {}
  /\ wire = [k \in Checkouts |-> "none"]
  /\ web = [r \in Requests |-> Idle]
  /\ claim = [k \in Checkouts |-> [st |-> "none", fresh |-> FALSE, order |-> NoOrderId]]
  /\ placed = [o \in OrderIds |-> NoCheckout]
  /\ tracked = {}
  /\ bell = [state |-> "off", seen |-> {}]
  /\ rung = [o \in OrderIds |-> 0]

Exists(o) == placed[o] # NoCheckout

-----------------------------------------------------------------------------
(* The phone.                                                                 *)

(* Each opening of the checkout draws a key of its own.                       *)
OpenCheckout(k) ==
  /\ phone.screen = "closed" /\ basket
  /\ k \notin keysUsed
  /\ keysUsed' = keysUsed \union {k}
  /\ phone' = [screen |-> "form", key |-> k]
  /\ UNCHANGED <<basket, wire, web, claim, placed, tracked, bellVars>>

(* The button, also after a failure; at most one request per key on its way.  *)
Press ==
  /\ phone.screen \in {"form", "failed"} /\ basket
  /\ wire[phone.key] = "none"
  /\ phone' = [phone EXCEPT !.screen = "sending"]
  /\ wire' = [wire EXCEPT ![phone.key] = "awaited"]
  /\ UNCHANGED <<basket, keysUsed, web, claim, placed, tracked, bellVars>>

(* The connection breaks: no answer will come, wherever the request is.       *)
GiveUp ==
  /\ phone.screen = "sending"
  /\ phone' = [phone EXCEPT !.screen = "failed"]
  /\ wire' = [wire EXCEPT ![phone.key] = IF @ = "none" THEN "none" ELSE "forgotten"]
  /\ web' = [r \in Requests |-> IF web[r].key = phone.key
                                THEN [web[r] EXCEPT !.awaited = FALSE] ELSE web[r]]
  /\ UNCHANGED <<basket, keysUsed, claim, placed, tracked, bellVars>>

(* The sheet is closed; a request under way goes on.                          *)
CloseCheckout ==
  /\ phone.screen # "closed"
  /\ phone' = [phone EXCEPT !.screen = "closed"]
  /\ UNCHANGED <<basket, keysUsed, wire, web, claim, placed, tracked, bellVars>>

FillBasket ==
  /\ ~basket
  /\ basket' = TRUE
  /\ UNCHANGED <<phone, keysUsed, wire, web, claim, placed, tracked, bellVars>>

(* The answer reaches the phone.  Success is shown on whatever checkout is    *)
(* open by then; an error ends the waiting.                                   *)
Deliver(r) ==
  /\ web[r].at = "reply"
  /\ web' = [web EXCEPT ![r] = Idle]
  /\ IF web[r].awaited /\ web[r].order # NoOrderId
     THEN /\ tracked' = tracked \union {web[r].order}
          /\ basket' = FALSE
          /\ phone' = [phone EXCEPT !.screen = IF @ = "closed" THEN @ ELSE "thanks"]
     ELSE /\ phone' = [phone EXCEPT !.screen =
                         IF web[r].awaited /\ @ = "sending" THEN "failed" ELSE @]
          /\ UNCHANGED <<tracked, basket>>
  /\ UNCHANGED <<keysUsed, wire, claim, placed, bellVars>>

-----------------------------------------------------------------------------
(* The network and the server.                                                *)

LoseRequest(k) ==
  /\ wire[k] # "none"
  /\ wire' = [wire EXCEPT ![k] = "none"]
  /\ UNCHANGED <<phone, basket, keysUsed, web, claim, placed, tracked, bellVars>>

To(r, next) == web' = [web EXCEPT ![r] = next]

Answer(r, o) == [web[r] EXCEPT !.at = "reply", !.order = o]

(* The request arrives.  Restaurant, menu, plan or input may refuse it.       *)
Arrive(r, k) ==
  /\ web[r].at = "idle" /\ wire[k] # "none"
  /\ wire' = [wire EXCEPT ![k] = "none"]
  /\ \E at \in {"claim", "reply"} :
       To(r, [at |-> at, key |-> k, order |-> NoOrderId, awaited |-> wire[k] = "awaited"])
  /\ UNCHANGED <<phone, basket, keysUsed, claim, placed, tracked, bellVars>>

Drawn == {web[r].order : r \in Requests}

NeverBusy(k) == FALSE                 \* a bug: a second request joins in
AlwaysBusy(k) == claim[k].st = "pending"        \* a bug: the lease has no end

(* A request that is being worked on, as far as its lease tells.              *)
Busy(k) == claim[k].st = "pending" /\ claim[k].fresh

Claimed == [st |-> "pending", fresh |-> TRUE, order |-> NoOrderId]

(* The transaction that claims the key.  The server then draws the order's id.*)
Claim(r) ==
  LET k == web[r].key IN
  /\ web[r].at = "claim"
  /\ \/ claim[k].st = "completed" /\ To(r, Answer(r, claim[k].order)) /\ UNCHANGED claim
     \/ Busy(k) /\ To(r, Answer(r, NoOrderId)) /\ UNCHANGED claim
     \/ /\ claim[k].st # "completed" /\ ~Busy(k)
        /\ claim' = [claim EXCEPT ![k] = Claimed]
        /\ \E o \in OrderIds : /\ ~Exists(o) /\ o \notin Drawn
                               /\ To(r, [web[r] EXCEPT !.at = "commit", !.order = o])
  /\ UNCHANGED <<phone, basket, keysUsed, wire, placed, tracked, bellVars>>

ClaimFails(r) ==
  LET k == web[r].key IN
  /\ web[r].at = "claim"
  /\ To(r, Answer(r, NoOrderId))
  /\ \/ UNCHANGED claim
     \/ /\ LostCommits /\ claim[k].st # "completed" /\ ~Busy(k)
        /\ claim' = [claim EXCEPT ![k] = Claimed]
  /\ UNCHANGED <<phone, basket, keysUsed, wire, placed, tracked, bellVars>>

CompletedBy(o) == [st |-> "completed", fresh |-> FALSE, order |-> o]

(* Order and record are written in one transaction, which does not ask        *)
(* whether the claim is still this request's.                                 *)
WriteOrder(r) ==
  /\ web[r].at = "commit"
  /\ placed' = [placed EXCEPT ![web[r].order] = web[r].key]
  /\ claim' = [claim EXCEPT ![web[r].key] = CompletedBy(web[r].order)]

Commit(r) ==
  /\ WriteOrder(r)
  /\ To(r, Answer(r, web[r].order))
  /\ UNCHANGED <<phone, basket, keysUsed, wire, tracked, bellVars>>

CommitFails(r) ==
  /\ web[r].at = "commit"
  /\ \/ LostCommits /\ WriteOrder(r)
     \/ UNCHANGED <<placed, claim>>
  /\ To(r, [web[r] EXCEPT !.at = "mark"])
  /\ UNCHANGED <<phone, basket, keysUsed, wire, tracked, bellVars>>

(* The catch block marks the record failed, whatever it says by now; the      *)
(* write itself may fail.                                                     *)
Mark(r) ==
  /\ web[r].at = "mark"
  /\ To(r, Answer(r, NoOrderId))
  /\ \/ claim' = [claim EXCEPT ![web[r].key].st = "failed"]
     \/ UNCHANGED claim
  /\ UNCHANGED <<phone, basket, keysUsed, wire, placed, tracked, bellVars>>

(* The server's instance goes away; its customers hear nothing.               *)
ServerStops(r) ==
  /\ web[r].at # "idle"
  /\ To(r, Idle)
  /\ UNCHANGED <<phone, basket, keysUsed, wire, claim, placed, tracked, bellVars>>

InHand(k) == \E r \in Requests : web[r].key = k /\ web[r].at \in {"commit", "mark"}

(* Fifteen minutes have passed.                                               *)
LeaseEnds(k) ==
  /\ Busy(k)
  /\ SlowServer \/ ~InHand(k)
  /\ claim' = [claim EXCEPT ![k].fresh = FALSE]
  /\ UNCHANGED <<phone, basket, keysUsed, wire, web, placed, tracked, bellVars>>

-----------------------------------------------------------------------------
(* The bell at the counter.                                                   *)
phoneAndServer == <<phone, basket, keysUsed, wire, web, claim, placed, tracked>>

Listen ==
  /\ bell.state = "off"
  /\ bell' = [bell EXCEPT !.state = "first"]
  /\ UNCHANGED rung /\ UNCHANGED phoneAndServer

SeenNothing(seen) == seen              \* a bug: the first snapshot is not indexed

IndexAll(seen) == seen \union {o \in OrderIds : Exists(o)}

(* What is there when the listener starts counts as known.                    *)
FirstSnapshot ==
  /\ bell.state = "first"
  /\ bell' = [state |-> "live", seen |-> IndexAll(bell.seen)]
  /\ UNCHANGED rung /\ UNCHANGED phoneAndServer

News == {o \in OrderIds : Exists(o) /\ o \notin bell.seen}

Ring ==
  /\ bell.state = "live" /\ News # {}
  /\ bell' = [bell EXCEPT !.seen = @ \union News]
  /\ rung' = [o \in OrderIds |-> IF o \in News /\ rung[o] < 2 THEN rung[o] + 1 ELSE rung[o]]
  /\ UNCHANGED phoneAndServer

(* The page is left, the connection denied, or the browser reloaded, which    *)
(* forgets what was seen.                                                     *)
StopListening ==
  /\ bell.state # "off"
  /\ \E seen \in {{}, bell.seen} : bell' = [state |-> "off", seen |-> seen]
  /\ UNCHANGED rung /\ UNCHANGED phoneAndServer

-----------------------------------------------------------------------------
(* An answer may still come.                                                  *)
Answerable ==
  \/ wire[phone.key] = "awaited"
  \/ \E r \in Requests : web[r].at # "idle" /\ web[r].key = phone.key /\ web[r].awaited

(* Network, server and database do what they are there for.                   *)
Working ==
  \/ Press \/ (GiveUp /\ ~Answerable) \/ CloseCheckout \/ FillBasket
  \/ Listen \/ FirstSnapshot \/ Ring \/ StopListening
  \/ \E k \in Checkouts : OpenCheckout(k) \/ LeaseEnds(k)
  \/ \E r \in Requests :
       \/ Claim(r) \/ Commit(r) \/ Mark(r) \/ Deliver(r)
       \/ \E k \in Checkouts : Arrive(r, k) /\ web'[r].at = "claim"

Failing ==
  \/ GiveUp
  \/ \E k \in Checkouts : LoseRequest(k)
  \/ \E r \in Requests : \/ ClaimFails(r) \/ CommitFails(r) \/ ServerStops(r)
                         \/ \E k \in Checkouts : Arrive(r, k)

CheckoutNext == Working \/ Failing

CheckoutSpec == CheckoutInit /\ [][CheckoutNext]_checkoutVars

(* The customer keeps trying until the faults have ended, however many there  *)
(* were and whatever they left behind.                                        *)
CheckoutFairness ==
  /\ <>[][Working]_checkoutVars
  /\ WF_checkoutVars(Press) /\ WF_checkoutVars(GiveUp /\ ~Answerable)
  /\ \A k \in Checkouts : WF_checkoutVars(LeaseEnds(k))
  /\ \A r \in Requests :
       /\ WF_checkoutVars(\E k \in Checkouts : Arrive(r, k) /\ web'[r].at = "claim")
       /\ WF_checkoutVars(Claim(r)) /\ WF_checkoutVars(Commit(r))
       /\ WF_checkoutVars(Mark(r)) /\ WF_checkoutVars(Deliver(r))

CheckoutFairSpec == CheckoutSpec /\ CheckoutFairness

-----------------------------------------------------------------------------
(* Properties.                                                                *)

OrdersFrom(k) == {o \in OrderIds : placed[o] = k}

Given(k) == {o \in tracked : placed[o] = k}

(* However often a customer presses the button, one opening of the checkout   *)
(* places one order at most ("deterministic ... idempotent for                *)
(* clientRequestId/idempotencyKey", customerCheckoutService).                 *)
OneOrderPerKey == \A k \in Checkouts : Cardinality(OrdersFrom(k)) <= 1

(* What the phone tracks and the emptied cart stand for is an order the       *)
(* kitchen can see: success is never reported without one.                    *)
ToldIsPlaced ==
  /\ \A o \in tracked : Exists(o)
  /\ (~basket \/ phone.screen = "thanks") => tracked # {}

(* The counter hears of an order once, across reconnects and reloads.         *)
AnnouncedOnce == \A o \in OrderIds : rung[o] <= 1

(* The server's records, requests and orders together implement a request     *)
(* that has one result, told as often as asked for.                           *)
Promise == INSTANCE OnceOnly WITH
  Keys <- Checkouts, Results <- OrderIds,
  result <- [k \in Checkouts |-> OrdersFrom(k)], told <- [k \in Checkouts |-> Given(k)]

PlacesOnce == Promise!Spec

(* Liveness: who keeps pressing gets an order, also when the server stopped   *)
(* between its claim and its commit.                                          *)
PressedIsPlaced ==
  \A k \in Checkouts :
    (phone.key = k /\ phone.screen = "sending") ~>
       (phone.key # k \/ phone.screen \in {"thanks", "closed"})
=============================================================================
