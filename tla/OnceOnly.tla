------------------------------ MODULE OnceOnly ------------------------------
(* What a request with an idempotency key promises: the first execution       *)
(* decides its result, there is no second one, and whoever is told a result   *)
(* is told that one.                                                          *)
CONSTANTS Keys, Results

VARIABLES result, told   \* by key: the results there are, the results given

Init == result = [k \in Keys |-> {}] /\ told = [k \in Keys |-> {}]

Decide(k) ==
  /\ result[k] = {}
  /\ \E r \in Results : result' = [result EXCEPT ![k] = {r}]
  /\ UNCHANGED told

Tell(k) ==
  /\ result[k] # {}
  /\ told' = [told EXCEPT ![k] = result[k]]
  /\ UNCHANGED result

Next == \E k \in Keys : Decide(k) \/ Tell(k)

Spec == Init /\ [][Next]_<<result, told>>
=============================================================================
