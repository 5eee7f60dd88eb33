--------------------------- MODULE MCSubscription ----------------------------
(* Instances of Subscription.                                                 *)
EXTENDS Subscription, TLC

Interchangeable == Permutations(Calls) \union Permutations(Payments)
=============================================================================
