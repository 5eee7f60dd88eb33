----------------------------- MODULE MCRequests -----------------------------
(* Requests that are repeated: the checkout of a guest's phone and the queue  *)
(* of a browser that was offline, side by side.  A behaviour belongs to one   *)
(* of them and leaves the other alone.  Nothing the fairness of the checkout  *)
(* asks for is enabled before a checkout is opened, so it does not touch the  *)
(* behaviours of the queue.                                                   *)
EXTENDS OnlineCheckout, OfflineQueue, TLC

CONSTANT Scenes      \* the components that run

VARIABLE scene       \* the one this behaviour is about

requestVars == <<checkoutVars, queueVars, scene>>

RequestsInit == CheckoutInit /\ OQInit /\ scene \in Scenes

RequestsNext ==
  \/ scene = "checkout" /\ CheckoutNext /\ UNCHANGED <<queueVars, scene>>
  \/ scene = "queue" /\ OQNext /\ UNCHANGED <<checkoutVars, scene>>

RequestsSpec == RequestsInit /\ [][RequestsNext]_requestVars

RequestsFairSpec == RequestsSpec /\ CheckoutFairness

(* Type correctness of both: a completed record names its order, and an item  *)
(* of the queue has one of the statuses the code knows.                       *)
RequestsTypeOK == CheckoutTypeOK /\ OQTypeOK
=============================================================================
