------------------------ MODULE OnlineCheckoutProofs ------------------------
(* For any number of checkouts, requests and orders: a checkout places one    *)
(* order at most and hears of no other, as long as no request outlasts its    *)
(* lease and a commit that reports an error has not happened.                 *)
EXTENDS OnlineCheckout, FiniteSetTheorems, TLAPS

Task == [at : {"idle", "claim", "commit", "mark", "reply"},
         key : Checkouts \union {NoCheckout}, order : OrderIds \union {NoOrderId},
         awaited : BOOLEAN]

Record == [st : {"none", "pending", "completed", "failed"}, fresh : BOOLEAN,
           order : OrderIds \union {NoOrderId}]

Executing(r) == web[r].at \in {"commit", "mark"}

(* A request that is worked on has a key, and an order once it claimed it.    *)
TasksNameKeys ==
  \A r \in Requests :
    /\ web[r].at # "idle" => web[r].key \in Checkouts
    /\ web[r].at = "commit" => web[r].order \in OrderIds /\ ~Exists(web[r].order)

(* Ids are drawn for one request each.                                        *)
DrawnOnce ==
  \A r, s \in Requests :
    (web[r].at = "commit" /\ web[s].at = "commit" /\ web[r].order = web[s].order) => r = s

(* What is told, or stored as a result, is an order that exists; what the     *)
(* phone keeps is one of these.                                               *)
ToldExists ==
  /\ \A r \in Requests : web[r].at = "reply" /\ web[r].order # NoOrderId => Exists(web[r].order)
  /\ \A k \in Checkouts : claim[k].st = "completed" => Exists(claim[k].order)
  /\ ToldIsPlaced

CheckoutInv == CheckoutTypeOK /\ TasksNameKeys /\ DrawnOnce /\ ToldExists

(* Whoever executes holds the claim, alone, while its lease runs.             *)
ClaimHeld ==
  \A r \in Requests :
    Executing(r) => /\ claim[web[r].key].st = "pending" /\ claim[web[r].key].fresh
                    /\ \A s \in Requests : Executing(s) /\ web[s].key = web[r].key => s = r

(* The record of a checkout that placed an order is completed and names it.   *)
RecordNamesOrder ==
  \A o \in OrderIds :
    Exists(o) => claim[placed[o]].st = "completed" /\ claim[placed[o]].order = o

(* What is told is the order of the key it is told for.                       *)
OnceInv == ClaimHeld /\ RecordNamesOrder

-----------------------------------------------------------------------------
LEMMA InitCheckout == CheckoutInit => CheckoutInv /\ OnceInv
<1> SUFFICES ASSUME CheckoutInit PROVE CheckoutInv /\ OnceInv
  OBVIOUS
<1>1. CheckoutTypeOK
  BY DEF CheckoutInit, CheckoutTypeOK, Screens, Idle
<1>2. TasksNameKeys /\ DrawnOnce /\ ToldExists /\ OnceInv
  BY CheckoutConstants
     DEF CheckoutInit, TasksNameKeys, DrawnOnce, ToldExists, ToldIsPlaced, OnceInv, ClaimHeld,
         RecordNamesOrder, Executing, Exists, Idle
<1> QED BY <1>1, <1>2 DEF CheckoutInv

LEMMA Tasks == ASSUME CheckoutTypeOK PROVE \A r \in Requests : web[r] \in Task
BY DEF CheckoutTypeOK, Task

LEMMA AnswerIsTask ==
  ASSUME CheckoutTypeOK, NEW r \in Requests, NEW o \in OrderIds \union {NoOrderId}
  PROVE  Answer(r, o) \in Task
<1>1. web[r] \in Task
  BY Tasks
<1> QED BY <1>1 DEF Answer, Task

LEMMA ToTask ==
  ASSUME CheckoutTypeOK, NEW r \in Requests, NEW next \in Task, To(r, next)
  PROVE  web' \in [Requests -> Task]
BY DEF To, CheckoutTypeOK, Task

LEMMA ToRecord ==
  ASSUME CheckoutTypeOK, NEW k \in Checkouts, NEW c \in Record,
         c.st = "completed" => c.order # NoOrderId, claim' = [claim EXCEPT ![k] = c]
  PROVE  /\ claim' \in [Checkouts -> Record]
         /\ \A j \in Checkouts : claim'[j].st = "completed" => claim'[j].order # NoOrderId
BY DEF CheckoutTypeOK, Record

(* Type correctness is preserved by phone, network, server and bell.          *)
LEMMA CheckoutTypeStep ==
  ASSUME CheckoutInv, [CheckoutNext]_checkoutVars PROVE CheckoutTypeOK'
<1>a. CheckoutTypeOK /\ NoOrderId \notin OrderIds
  BY CheckoutConstants DEF CheckoutInv
<1>b. ASSUME web' \in [Requests -> Task], UNCHANGED bell, UNCHANGED rung, UNCHANGED placed,
             UNCHANGED keysUsed, UNCHANGED wire, UNCHANGED phone, UNCHANGED basket,
             UNCHANGED tracked,
             claim' \in [Checkouts -> Record],
             \A k \in Checkouts : claim'[k].st = "completed" => claim'[k].order # NoOrderId
      PROVE  CheckoutTypeOK'
  BY <1>a, <1>b DEF CheckoutTypeOK, Task, Record
<1>c. claim \in [Checkouts -> Record]
      /\ \A k \in Checkouts : claim[k].st = "completed" => claim[k].order # NoOrderId
  BY <1>a DEF CheckoutTypeOK, Record
<1>d. Claimed \in Record /\ Claimed.st # "completed"
  BY DEF Claimed, Record
<1>1. ASSUME NEW k \in Checkouts, OpenCheckout(k) PROVE CheckoutTypeOK'
  BY <1>a, <1>1 DEF OpenCheckout, CheckoutTypeOK, Screens, bellVars
<1>2. CASE Press
  BY <1>a, <1>2 DEF Press, CheckoutTypeOK, Screens, bellVars
<1>3. CASE GiveUp
  <2>1. web' \in [Requests -> Task]
    <3>1. \A r \in Requests : [web[r] EXCEPT !.awaited = FALSE] \in Task
      BY <1>a, Tasks DEF Task
    <3> QED BY <1>a, <1>3, <3>1, Tasks DEF GiveUp
  <2>2. wire' \in [Checkouts -> {"none", "awaited", "forgotten"}]
    BY <1>a, <1>3 DEF GiveUp, CheckoutTypeOK
  <2> QED BY <1>a, <1>3, <2>1, <2>2 DEF GiveUp, Task, CheckoutTypeOK, Screens, bellVars
<1>4. CASE CloseCheckout \/ FillBasket
  BY <1>a, <1>4 DEF CloseCheckout, FillBasket, CheckoutTypeOK, Screens, bellVars
<1>5. ASSUME NEW r \in Requests, Deliver(r) PROVE CheckoutTypeOK'
  <2>0. web[r] \in Task /\ Idle \in Task
    BY <1>a, Tasks DEF Idle, Task
  <2>1. web' \in [Requests -> Task]
    BY <1>a, <1>5, <2>0 DEF Deliver, CheckoutTypeOK, Task
  <2>2. phone' \in [screen : Screens, key : Checkouts \union {NoCheckout}]
    BY <1>a, <1>5 DEF Deliver, CheckoutTypeOK, Screens
  <2>3. basket' \in BOOLEAN
    BY <1>a, <1>5, Zenon DEF Deliver, CheckoutTypeOK
  <2>4. web[r].order \in OrderIds \union {NoOrderId} /\ tracked \subseteq OrderIds
    BY <1>a, <2>0 DEF CheckoutTypeOK, Task
  <2>5. tracked' \subseteq OrderIds
    BY <1>5, <2>4 DEF Deliver
  <2> QED BY <1>a, <1>5, <2>1, <2>2, <2>3, <2>5 DEF Deliver, Task, CheckoutTypeOK, bellVars
<1>6. ASSUME NEW k \in Checkouts, LoseRequest(k) PROVE CheckoutTypeOK'
  BY <1>a, <1>6 DEF LoseRequest, CheckoutTypeOK, bellVars
<1>7. ASSUME NEW r \in Requests, NEW k \in Checkouts, Arrive(r, k) PROVE CheckoutTypeOK'
  <2>1. \A at \in {"claim", "reply"} :
          [at |-> at, key |-> k, order |-> NoOrderId, awaited |-> wire[k] = "awaited"] \in Task
    BY DEF Task
  <2>2. web' \in [Requests -> Task]
    BY <1>a, <1>7, <2>1, ToTask DEF Arrive
  <2> QED BY <1>a, <1>7, <2>2 DEF Arrive, Task, CheckoutTypeOK, bellVars
<1>8. ASSUME NEW r \in Requests, Claim(r) PROVE CheckoutTypeOK'
  <2>0. web[r] \in Task /\ web[r].key \in Checkouts
    BY <1>a, <1>8, Tasks DEF Claim, CheckoutInv, TasksNameKeys
  <2>1. claim[web[r].key] \in Record
    BY <1>c, <2>0
  <2>2. /\ Answer(r, claim[web[r].key].order) \in Task /\ Answer(r, NoOrderId) \in Task
        /\ \A o \in OrderIds : [web[r] EXCEPT !.at = "commit", !.order = o] \in Task
    BY <1>a, <2>0, <2>1, AnswerIsTask DEF Task, Record
  <2>3. web' \in [Requests -> Task]
    BY <1>a, <1>8, <2>2, ToTask DEF Claim
  <2>4. claim' \in [Checkouts -> Record]
        /\ \A k \in Checkouts : claim'[k].st = "completed" => claim'[k].order # NoOrderId
    BY <1>a, <1>c, <1>d, <1>8, <2>0, ToRecord DEF Claim
  <2> QED BY <1>8, <1>b, <2>3, <2>4 DEF Claim, bellVars
<1>9. ASSUME NEW r \in Requests, ClaimFails(r) \/ Mark(r) \/ ServerStops(r)
      PROVE  CheckoutTypeOK'
  <2>0. web[r].key \in Checkouts /\ Idle \in Task /\ Answer(r, NoOrderId) \in Task
    BY <1>a, <1>9, AnswerIsTask
       DEF ClaimFails, Mark, ServerStops, CheckoutInv, TasksNameKeys, Idle, Task
  <2>1. web' \in [Requests -> Task]
    BY <1>a, <1>9, <2>0, ToTask DEF ClaimFails, Mark, ServerStops
  <2>2. [claim[web[r].key] EXCEPT !.st = "failed"] \in Record
    BY <1>c, <2>0 DEF Record
  <2>3. claim' \in [Checkouts -> Record]
        /\ \A k \in Checkouts : claim'[k].st = "completed" => claim'[k].order # NoOrderId
    <3>1. CASE Mark(r)
      <4>1. [claim[web[r].key] EXCEPT !.st = "failed"].st # "completed"
        BY <1>c, <2>0 DEF Record
      <4> QED BY <1>a, <1>c, <3>1, <2>0, <2>2, <4>1, ToRecord DEF Mark
    <3>2. CASE ClaimFails(r) \/ ServerStops(r)
      BY <1>a, <1>c, <1>d, <3>2, <2>0, ToRecord DEF ClaimFails, ServerStops
    <3> QED BY <1>9, <3>1, <3>2
  <2> QED BY <1>9, <1>b, <2>1, <2>3 DEF ClaimFails, Mark, ServerStops, bellVars
<1>10. ASSUME NEW r \in Requests, Commit(r) \/ CommitFails(r) PROVE CheckoutTypeOK'
  <2>0. web[r] \in Task /\ web[r].order \in OrderIds /\ web[r].key \in Checkouts
    BY <1>a, <1>10, Tasks DEF Commit, CommitFails, WriteOrder, CheckoutInv, TasksNameKeys
  <2>1. Answer(r, web[r].order) \in Task /\ [web[r] EXCEPT !.at = "mark"] \in Task
    BY <1>a, <2>0, AnswerIsTask DEF Task
  <2>2. web' \in [Requests -> Task]
    BY <1>a, <1>10, <2>1, ToTask DEF Commit, CommitFails
  <2>3. CompletedBy(web[r].order) \in Record /\ CompletedBy(web[r].order).order # NoOrderId
    BY <1>a, <2>0 DEF CompletedBy, Record
  <2>4. claim' \in [Checkouts -> Record]
        /\ \A k \in Checkouts : claim'[k].st = "completed" => claim'[k].order # NoOrderId
    BY <1>a, <1>c, <1>10, <2>0, <2>3, ToRecord DEF Commit, CommitFails, WriteOrder
  <2>5. placed' \in [OrderIds -> Checkouts \union {NoCheckout}]
    BY <1>a, <1>10, <2>0 DEF Commit, CommitFails, WriteOrder, CheckoutTypeOK
  <2> QED BY <1>a, <1>10, <2>2, <2>4, <2>5
          DEF Commit, CommitFails, Task, Record, CheckoutTypeOK, bellVars
<1>11. ASSUME NEW k \in Checkouts, LeaseEnds(k) PROVE CheckoutTypeOK'
  <2>1. [claim[k] EXCEPT !.fresh = FALSE] \in Record
        /\ [claim[k] EXCEPT !.fresh = FALSE].st # "completed"
    BY <1>c, <1>11 DEF LeaseEnds, Busy, Record
  <2>2. claim' \in [Checkouts -> Record]
        /\ \A j \in Checkouts : claim'[j].st = "completed" => claim'[j].order # NoOrderId
    BY <1>a, <1>11, <2>1, ToRecord DEF LeaseEnds
  <2> QED BY <1>a, <1>11, <2>2 DEF LeaseEnds, CheckoutTypeOK, Record, bellVars
<1>12. CASE Listen \/ FirstSnapshot \/ Ring \/ StopListening
  <2>1. rung' \in [OrderIds -> 0..2]
    BY <1>a, <1>12 DEF Listen, FirstSnapshot, Ring, StopListening, CheckoutTypeOK
  <2>2. bell' \in [state : {"off", "first", "live"}, seen : SUBSET OrderIds]
    BY <1>a, <1>12
       DEF Listen, FirstSnapshot, Ring, StopListening, IndexAll, News, CheckoutTypeOK
  <2> QED BY <1>a, <1>12, <2>1, <2>2
          DEF Listen, FirstSnapshot, Ring, StopListening, phoneAndServer, CheckoutTypeOK
<1>13. CASE UNCHANGED checkoutVars
  BY <1>a, <1>13 DEF checkoutVars, CheckoutTypeOK
<1> QED BY <1>1, <1>2, <1>3, <1>4, <1>5, <1>6, <1>7, <1>8, <1>9, <1>10, <1>11, <1>12, <1>13
        DEF CheckoutNext, Working, Failing

-----------------------------------------------------------------------------
LEMMA OnlyThisTask ==
  ASSUME CheckoutTypeOK, NEW r \in Requests, NEW next, To(r, next)
  PROVE  web'[r] = next /\ \A s \in Requests \ {r} : web'[s] = web[s]
BY DEF To, CheckoutTypeOK

LEMMA OnlyThisRecord ==
  ASSUME CheckoutTypeOK, NEW k \in Checkouts, NEW c, claim' = [claim EXCEPT ![k] = c]
  PROVE  claim'[k] = c /\ \A j \in Checkouts \ {k} : claim'[j] = claim[j]
BY DEF CheckoutTypeOK

LEMMA AnswerFields ==
  ASSUME CheckoutTypeOK, NEW r \in Requests, NEW o
  PROVE  Answer(r, o).at = "reply" /\ Answer(r, o).key = web[r].key /\ Answer(r, o).order = o
<1>1. web[r] \in Task
  BY Tasks
<1> QED BY <1>1 DEF Answer, Task

(* The phone and the clock leave the tasks of the server as they are.         *)
LEMMA PhoneStep ==
  ASSUME CheckoutInv,
         \/ Press \/ GiveUp \/ CloseCheckout \/ FillBasket
         \/ Listen \/ FirstSnapshot \/ Ring \/ StopListening
         \/ \E k \in Checkouts : OpenCheckout(k) \/ LeaseEnds(k) \/ LoseRequest(k)
         \/ UNCHANGED checkoutVars
  PROVE  /\ \A r \in Requests : /\ web'[r].at = web[r].at /\ web'[r].key = web[r].key
                                /\ web'[r].order = web[r].order
         /\ UNCHANGED placed /\ UNCHANGED tracked
         /\ \A k \in Checkouts : claim'[k].st = claim[k].st /\ claim'[k].order = claim[k].order
         /\ (~basket \/ phone.screen = "thanks")' => (~basket \/ phone.screen = "thanks")
         /\ UNCHANGED claim \/ \E k \in Checkouts : LeaseEnds(k)
<1>1. CASE GiveUp
  <2>1. \A r \in Requests : web[r] \in Task
    BY Tasks DEF CheckoutInv
  <2>2. \A r \in Requests : /\ web'[r].at = web[r].at /\ web'[r].key = web[r].key
                          /\ web'[r].order = web[r].order
    BY <1>1, <2>1 DEF GiveUp, Task
  <2>3. phone'.screen = "failed"
    BY <1>1 DEF GiveUp, CheckoutInv, CheckoutTypeOK
  <2> QED BY <1>1, <2>2, <2>3 DEF GiveUp
<1>2. ASSUME NEW k \in Checkouts, LeaseEnds(k)
      PROVE  /\ UNCHANGED <<web, placed, tracked, basket, phone>>
             /\ \A j \in Checkouts : claim'[j].st = claim[j].st /\ claim'[j].order = claim[j].order
  BY <1>2 DEF LeaseEnds, CheckoutInv, CheckoutTypeOK
<1>3. ASSUME \/ Press \/ CloseCheckout \/ FillBasket \/ Listen \/ FirstSnapshot \/ Ring
             \/ StopListening \/ UNCHANGED checkoutVars
             \/ \E k \in Checkouts : OpenCheckout(k) \/ LoseRequest(k)
      PROVE  /\ UNCHANGED <<web, placed, tracked, claim>>
             /\ UNCHANGED basket \/ basket'
             /\ phone'.screen = "thanks" => phone.screen = "thanks"
  BY <1>3 DEF Press, CloseCheckout, OpenCheckout, CheckoutInv, CheckoutTypeOK, FillBasket,
              Listen, FirstSnapshot, Ring, StopListening, LoseRequest, phoneAndServer, checkoutVars
<1> QED BY <1>1, <1>2, <1>3

(* Tasks keep their keys and ids, and what is told exists.                    *)
LEMMA CheckoutStep == ASSUME CheckoutInv, [CheckoutNext]_checkoutVars PROVE CheckoutInv'
<1>a. CheckoutTypeOK /\ CheckoutTypeOK'
  BY CheckoutTypeStep DEF CheckoutInv
<1>b. NoOrderId \notin OrderIds /\ NoCheckout \notin Checkouts
  BY CheckoutConstants
<1>c. \A r \in Requests : web[r] \in Task
  BY <1>a, Tasks
<1>1. CASE \/ Press \/ GiveUp \/ CloseCheckout \/ FillBasket
           \/ Listen \/ FirstSnapshot \/ Ring \/ StopListening
           \/ \E k \in Checkouts : OpenCheckout(k) \/ LeaseEnds(k) \/ LoseRequest(k)
           \/ UNCHANGED checkoutVars
  <2>1. TasksNameKeys' /\ DrawnOnce'
    BY <1>1, PhoneStep DEF CheckoutInv, TasksNameKeys, DrawnOnce, Exists
  <2>2. ToldExists'
    BY <1>1, PhoneStep DEF CheckoutInv, ToldExists, ToldIsPlaced, Exists
  <2> QED BY <1>a, <2>1, <2>2 DEF CheckoutInv
<1>2. ASSUME NEW r \in Requests, NEW k \in Checkouts, Arrive(r, k) PROVE CheckoutInv'
  <2>1. PICK at \in {"claim", "reply"} :
          To(r, [at |-> at, key |-> k, order |-> NoOrderId, awaited |-> wire[k] = "awaited"])
    BY <1>2 DEF Arrive
  <2>2. /\ web'[r].at \in {"claim", "reply"} /\ web'[r].key = k /\ web'[r].order = NoOrderId
        /\ \A s \in Requests \ {r} : web'[s] = web[s]
    BY <1>a, <2>1, OnlyThisTask
  <2>3. TasksNameKeys' /\ DrawnOnce' /\ ToldExists'
    BY <1>2, <2>2 DEF Arrive, CheckoutInv, TasksNameKeys, DrawnOnce, ToldExists, ToldIsPlaced,
                      Exists, bellVars
  <2> QED BY <1>a, <2>3 DEF CheckoutInv
<1>3. ASSUME NEW r \in Requests, Claim(r) PROVE CheckoutInv'
  <2>1. web[r].at = "claim" /\ web[r].key \in Checkouts
    BY <1>3 DEF Claim, CheckoutInv, TasksNameKeys
  <2>2. /\ \A s \in Requests \ {r} : web'[s] = web[s]
        /\ web'[r].key = web[r].key
        /\ \/ /\ web'[r].at = "reply" /\ UNCHANGED claim
              /\ \/ web'[r].order = NoOrderId
                 \/ /\ claim[web[r].key].st = "completed"
                    /\ web'[r].order = claim[web[r].key].order
           \/ /\ web'[r].at = "commit" /\ web'[r].order \in OrderIds
              /\ ~Exists(web'[r].order) /\ web'[r].order \notin Drawn
              /\ claim' = [claim EXCEPT ![web[r].key] = Claimed]
    <3>1. ASSUME NEW o, To(r, Answer(r, o))
          PROVE  /\ \A s \in Requests \ {r} : web'[s] = web[s]
                 /\ web'[r].key = web[r].key /\ web'[r].at = "reply" /\ web'[r].order = o
      <4>1. Answer(r, o).at = "reply" /\ Answer(r, o).key = web[r].key /\ Answer(r, o).order = o
        BY <1>a, AnswerFields
      <4> QED BY <1>a, <3>1, <4>1 DEF To, CheckoutTypeOK
    <3>2. ASSUME claim' = [claim EXCEPT ![web[r].key] = Claimed], NEW o \in OrderIds,
                 ~Exists(o), o \notin Drawn, To(r, [web[r] EXCEPT !.at = "commit", !.order = o])
          PROVE  /\ \A s \in Requests \ {r} : web'[s] = web[s]
                 /\ web'[r].key = web[r].key /\ web'[r].at = "commit" /\ web'[r].order = o
      BY <1>a, <1>c, <3>2 DEF To, CheckoutTypeOK, Task
    <3>3. CASE \E o \in OrderIds :
                 /\ claim' = [claim EXCEPT ![web[r].key] = Claimed]
                 /\ ~Exists(o) /\ o \notin Drawn
                 /\ To(r, [web[r] EXCEPT !.at = "commit", !.order = o])
      BY <3>2, <3>3
    <3>4. CASE claim[web[r].key].st = "completed" /\ To(r, Answer(r, claim[web[r].key].order))
               /\ UNCHANGED claim
      BY <3>1, <3>4
    <3>5. CASE To(r, Answer(r, NoOrderId)) /\ UNCHANGED claim
      BY <3>1, <3>5
    <3> QED BY <1>3, <3>3, <3>4, <3>5 DEF Claim
  <2>3. \A k \in Checkouts : claim'[k].st = "completed" => claim'[k] = claim[k]
    BY <1>a, <2>1, <2>2, OnlyThisRecord DEF Claimed
  <2>4. TasksNameKeys'
    BY <1>3, <2>1, <2>2 DEF Claim, CheckoutInv, TasksNameKeys, Exists
  <2>5. DrawnOnce'
    BY <1>3, <2>2 DEF CheckoutInv, DrawnOnce, Drawn
  <2>6. ToldExists'
    BY <1>3, <2>1, <2>2, <2>3 DEF Claim, CheckoutInv, ToldExists, ToldIsPlaced, Exists
  <2> QED BY <1>a, <2>4, <2>5, <2>6 DEF CheckoutInv
<1>4. ASSUME NEW r \in Requests, ClaimFails(r) \/ Mark(r) \/ ServerStops(r) PROVE CheckoutInv'
  <2>1. /\ \A s \in Requests \ {r} : web'[s] = web[s]
        /\ web[r].key \in Checkouts
        /\ \/ web'[r].at = "reply" /\ web'[r].key = web[r].key /\ web'[r].order = NoOrderId
           \/ web'[r].at = "idle"
    BY <1>a, <1>4, AnswerFields
       DEF ClaimFails, Mark, ServerStops, To, Idle, CheckoutTypeOK, CheckoutInv, TasksNameKeys
  <2>2. \A k \in Checkouts : claim'[k].st = "completed" => claim'[k] = claim[k]
    <3>1. [claim[web[r].key] EXCEPT !.st = "failed"].st = "failed"
      BY <1>a, <2>1 DEF CheckoutTypeOK
    <3> QED BY <1>a, <1>4, <2>1, <3>1 DEF ClaimFails, Mark, ServerStops, Claimed, CheckoutTypeOK
  <2>3. TasksNameKeys' /\ DrawnOnce' /\ ToldExists'
    BY <1>4, <2>1, <2>2 DEF ClaimFails, Mark, ServerStops, CheckoutInv, TasksNameKeys, DrawnOnce,
                            ToldExists, ToldIsPlaced, Exists
  <2> QED BY <1>a, <2>3 DEF CheckoutInv
<1>5. ASSUME NEW r \in Requests, Commit(r) \/ CommitFails(r) PROVE CheckoutInv'
  <2>1. /\ web[r].at = "commit" /\ web[r].key \in Checkouts /\ web[r].order \in OrderIds
        /\ ~Exists(web[r].order)
    BY <1>5 DEF Commit, CommitFails, WriteOrder, CheckoutInv, TasksNameKeys
  <2>2. /\ \A s \in Requests \ {r} : web'[s] = web[s]
        /\ web'[r].key = web[r].key /\ web'[r].at \in {"reply", "mark"}
        /\ web'[r].order = web[r].order
        /\ web'[r].at = "reply" => WriteOrder(r)
    <3>1. LET n == [web[r] EXCEPT !.at = "mark"]
          IN  n.at = "mark" /\ n.key = web[r].key /\ n.order = web[r].order
      BY <1>c DEF Task
    <3> QED BY <1>a, <1>5, <3>1, AnswerFields DEF Commit, CommitFails, To, CheckoutTypeOK
  <2>3. UNCHANGED <<placed, claim>> \/ WriteOrder(r)
    BY <1>5 DEF Commit, CommitFails
  <2>4. \A o \in OrderIds : Exists(o) => Exists(o)'
    BY <1>a, <2>1, <2>3 DEF WriteOrder, Exists, CheckoutTypeOK
  <2>5. WriteOrder(r) => placed'[web[r].order] # NoCheckout
    BY <1>a, <1>b, <2>1 DEF WriteOrder, Exists, CheckoutTypeOK
  <2>6. \A s \in Requests : web'[s].at = "commit" => placed'[web'[s].order] = NoCheckout
    BY <1>a, <2>1, <2>2, <2>3
       DEF WriteOrder, Exists, CheckoutTypeOK, CheckoutInv, TasksNameKeys, DrawnOnce
  <2>7. TasksNameKeys' /\ DrawnOnce'
    BY <2>1, <2>2, <2>6 DEF CheckoutInv, TasksNameKeys, DrawnOnce, Exists
  <2>8. \A k \in Checkouts : claim'[k].st = "completed" => placed'[claim'[k].order] # NoCheckout
    <3>1. CASE UNCHANGED <<placed, claim>>
      BY <3>1 DEF CheckoutInv, ToldExists, Exists
    <3>2. CASE WriteOrder(r)
      <4>1. /\ claim'[web[r].key] = CompletedBy(web[r].order)
            /\ \A j \in Checkouts \ {web[r].key} : claim'[j] = claim[j]
        BY <1>a, <3>2, <2>1, OnlyThisRecord DEF WriteOrder
      <4>2. \A j \in Checkouts : claim[j].st = "completed" => claim[j].order \in OrderIds
        BY <1>a DEF CheckoutTypeOK
      <4> QED BY <4>1, <4>2, <2>4, <2>5, <3>2 DEF CompletedBy, CheckoutInv, ToldExists, Exists
    <3> QED BY <2>3, <3>1, <3>2
  <2>9. \A s \in Requests : web'[s].at = "reply" /\ web'[s].order # NoOrderId
                             => placed'[web'[s].order] # NoCheckout
    BY <1>a, <1>c, <2>1, <2>2, <2>4, <2>5 DEF CheckoutInv, ToldExists, Task, Exists
  <2>10. ToldIsPlaced'
    BY <1>a, <1>5, <2>4
       DEF Commit, CommitFails, CheckoutInv, ToldExists, ToldIsPlaced, CheckoutTypeOK
  <2> QED BY <1>a, <2>7, <2>8, <2>9, <2>10 DEF CheckoutInv, ToldExists, Exists
<1>6. ASSUME NEW r \in Requests, Deliver(r) PROVE CheckoutInv'
  <2>1. web'[r] = Idle /\ \A s \in Requests \ {r} : web'[s] = web[s]
    BY <1>a, <1>6, OnlyThisTask DEF Deliver, To
  <2>2. TasksNameKeys' /\ DrawnOnce'
    BY <1>6, <2>1 DEF Deliver, Idle, CheckoutInv, TasksNameKeys, DrawnOnce, Exists
  <2>3. ToldIsPlaced'
    <3>1. CASE web[r].awaited /\ web[r].order # NoOrderId
      BY <1>6, <3>1 DEF Deliver, CheckoutInv, ToldExists, ToldIsPlaced, Exists
    <3>2. CASE ~(web[r].awaited /\ web[r].order # NoOrderId)
      <4>1. phone'.screen = "thanks" => phone.screen = "thanks"
        BY <1>a, <1>6, <3>2 DEF Deliver, CheckoutTypeOK
      <4> QED BY <1>6, <3>2, <4>1 DEF Deliver, CheckoutInv, ToldExists, ToldIsPlaced, Exists
    <3> QED BY <3>1, <3>2
  <2>4. ToldExists'
    BY <1>6, <2>1, <2>3 DEF Deliver, Idle, CheckoutInv, ToldExists, Exists
  <2> QED BY <1>a, <2>2, <2>4 DEF CheckoutInv
<1> QED BY <1>1, <1>2, <1>3, <1>4, <1>5, <1>6 DEF CheckoutNext, Working, Failing

-----------------------------------------------------------------------------
(* A claim is taken only when nobody executes, and held until it is settled.  *)
LEMMA OnceStep ==
  ASSUME ~SlowServer, ~LostCommits, CheckoutInv, OnceInv, [CheckoutNext]_checkoutVars
  PROVE  OnceInv'
<1>a. CheckoutTypeOK
  BY DEF CheckoutInv
<1>b. NoOrderId \notin OrderIds /\ NoCheckout \notin Checkouts
  BY CheckoutConstants
<1>c. \A r \in Requests : web[r] \in Task
  BY <1>a, Tasks
<1>1. CASE /\ \/ Press \/ GiveUp \/ CloseCheckout \/ FillBasket
              \/ Listen \/ FirstSnapshot \/ Ring \/ StopListening
              \/ \E k \in Checkouts : OpenCheckout(k) \/ LeaseEnds(k) \/ LoseRequest(k)
              \/ UNCHANGED checkoutVars
  <2>1. RecordNamesOrder'
    BY <1>1, <1>a, PhoneStep DEF OnceInv, RecordNamesOrder, Exists, CheckoutTypeOK
  <2>2. CASE UNCHANGED claim
    BY <1>1, <2>1, <2>2, PhoneStep DEF OnceInv, ClaimHeld, Executing
  <2>3. ASSUME NEW k \in Checkouts, LeaseEnds(k) PROVE ClaimHeld'
    <3>1. \A r \in Requests : Executing(r) => web[r].key # k
      BY <2>3 DEF LeaseEnds, InHand, Executing
    <3>2. \A j \in Checkouts \ {k} : claim'[j] = claim[j]
      BY <1>a, <2>3 DEF LeaseEnds, CheckoutTypeOK
    <3> QED BY <3>1, <3>2, <1>1, PhoneStep, <2>3
            DEF OnceInv, ClaimHeld, Executing, CheckoutInv, TasksNameKeys
  <2> QED BY <1>1, <2>1, <2>2, <2>3, PhoneStep DEF OnceInv
<1>2. ASSUME NEW r \in Requests, \/ \E k \in Checkouts : Arrive(r, k)
                               \/ Deliver(r) \/ ServerStops(r) \/ ClaimFails(r)
      PROVE  OnceInv'
  <2>1. /\ \A s \in Requests \ {r} : web'[s] = web[s]
        /\ web'[r].at \notin {"commit", "mark"}
    BY <1>2, <1>a, AnswerFields
       DEF Arrive, Deliver, ServerStops, ClaimFails, To, Idle, CheckoutTypeOK
  <2>2. UNCHANGED <<placed, claim>>
    BY <1>2 DEF Arrive, Deliver, ServerStops, ClaimFails
  <2> QED BY <2>1, <2>2 DEF OnceInv, ClaimHeld, RecordNamesOrder, Executing, Exists
<1>3. ASSUME NEW r \in Requests, Claim(r) PROVE OnceInv'
  <2>0. web[r].key \in Checkouts /\ web[r].at = "claim" /\ UNCHANGED placed
    BY <1>3 DEF Claim, CheckoutInv, TasksNameKeys
  <2>1. ASSUME NEW o, To(r, Answer(r, o)), UNCHANGED claim PROVE OnceInv'
    <3>1. Answer(r, o).at = "reply"
      BY <1>a, AnswerFields
    <3>2. web'[r].at = "reply" /\ \A s \in Requests \ {r} : web'[s] = web[s]
      BY <1>a, <2>1, <3>1 DEF To, CheckoutTypeOK
    <3> QED BY <2>0, <2>1, <3>2 DEF OnceInv, ClaimHeld, RecordNamesOrder, Executing, Exists
  <2>2. ASSUME NEW o \in OrderIds, To(r, [web[r] EXCEPT !.at = "commit", !.order = o]),
               claim' = [claim EXCEPT ![web[r].key] = Claimed],
               claim[web[r].key].st # "completed", ~Busy(web[r].key)
        PROVE  OnceInv'
    <3>1. /\ web'[r].key = web[r].key /\ web'[r].at = "commit"
          /\ \A s \in Requests \ {r} : web'[s] = web[s]
      BY <1>a, <1>c, <2>2 DEF To, CheckoutTypeOK, Task
    <3>2. /\ claim'[web[r].key].st = "pending" /\ claim'[web[r].key].fresh
          /\ \A j \in Checkouts \ {web[r].key} : claim'[j] = claim[j]
      BY <1>a, <2>0, <2>2 DEF Claimed, CheckoutTypeOK
    <3>3. \A s \in Requests : Executing(s) => web[s].key # web[r].key
      BY <2>2 DEF Busy, OnceInv, ClaimHeld
    <3>4. ClaimHeld'
      BY <2>0, <3>1, <3>2, <3>3
         DEF OnceInv, ClaimHeld, Executing, CheckoutInv, TasksNameKeys
    <3>5. RecordNamesOrder'
      BY <1>a, <2>0, <2>2, <3>2 DEF OnceInv, RecordNamesOrder, Exists, CheckoutTypeOK
    <3> QED BY <3>4, <3>5 DEF OnceInv
  <2>3. CASE To(r, Answer(r, NoOrderId)) /\ UNCHANGED claim
    BY <2>1, <2>3
  <2>4. CASE To(r, Answer(r, claim[web[r].key].order)) /\ UNCHANGED claim
    BY <2>1, <2>4
  <2> QED BY <1>3, <2>2, <2>3, <2>4 DEF Claim
<1>4. ASSUME NEW r \in Requests, Commit(r) PROVE OnceInv'
  <2>1. /\ web[r].at = "commit" /\ web[r].key \in Checkouts /\ web[r].order \in OrderIds
        /\ ~Exists(web[r].order)
    BY <1>4 DEF Commit, WriteOrder, CheckoutInv, TasksNameKeys
  <2>2. web'[r].at = "reply" /\ \A s \in Requests \ {r} : web'[s] = web[s]
    BY <1>a, <1>4, AnswerFields DEF Commit, To, CheckoutTypeOK
  <2>3. /\ claim'[web[r].key].st = "completed" /\ claim'[web[r].key].order = web[r].order
        /\ \A j \in Checkouts \ {web[r].key} : claim'[j] = claim[j]
    BY <1>a, <1>4, <2>1 DEF Commit, WriteOrder, CompletedBy, CheckoutTypeOK
  <2>4. /\ placed'[web[r].order] = web[r].key
        /\ \A o \in OrderIds \ {web[r].order} : placed'[o] = placed[o]
    BY <1>a, <1>4, <2>1 DEF Commit, WriteOrder, CheckoutTypeOK
  <2>5. \A s \in Requests \ {r} : Executing(s) => web[s].key # web[r].key
    BY <2>1 DEF OnceInv, ClaimHeld, Executing
  <2>6. ClaimHeld'
    BY <2>1, <2>2, <2>3, <2>5 DEF OnceInv, ClaimHeld, Executing, CheckoutInv, TasksNameKeys
  <2>7. \A o \in OrderIds : Exists(o) => placed[o] # web[r].key
    BY <2>1 DEF OnceInv, ClaimHeld, RecordNamesOrder, Executing
  <2>8. RecordNamesOrder'
    BY <1>a, <2>1, <2>3, <2>4, <2>7 DEF OnceInv, RecordNamesOrder, Exists, CheckoutTypeOK
  <2> QED BY <2>6, <2>8 DEF OnceInv
<1>5. ASSUME NEW r \in Requests, CommitFails(r) PROVE OnceInv'
  <2>1. web'[r].at = "mark" /\ web'[r].key = web[r].key
        /\ \A s \in Requests \ {r} : web'[s] = web[s]
    BY <1>a, <1>c, <1>5 DEF CommitFails, To, CheckoutTypeOK, Task
  <2>2. web[r].at = "commit" \/ WriteOrder(r)
    BY <1>5 DEF CommitFails
  <2>3. web[r].at = "commit" /\ UNCHANGED <<placed, claim>>
    BY <1>5 DEF CommitFails, WriteOrder
  <2> QED BY <2>1, <2>3 DEF OnceInv, ClaimHeld, RecordNamesOrder, Executing, Exists
<1>6. ASSUME NEW r \in Requests, Mark(r) PROVE OnceInv'
  <2>1. /\ web[r].at = "mark" /\ web[r].key \in Checkouts /\ UNCHANGED placed
        /\ UNCHANGED claim \/ claim' = [claim EXCEPT ![web[r].key].st = "failed"]
    BY <1>6 DEF Mark, CheckoutInv, TasksNameKeys
  <2>2. web'[r].at = "reply" /\ \A s \in Requests \ {r} : web'[s] = web[s]
    BY <1>a, <1>6, AnswerFields DEF Mark, To, CheckoutTypeOK
  <2>3. \A j \in Checkouts \ {web[r].key} : claim'[j] = claim[j]
    BY <1>a, <2>1 DEF CheckoutTypeOK
  <2>4. \A s \in Requests \ {r} : Executing(s) => web[s].key # web[r].key
    BY <2>1 DEF OnceInv, ClaimHeld, Executing
  <2>5. ClaimHeld'
    BY <2>1, <2>2, <2>3, <2>4 DEF OnceInv, ClaimHeld, Executing, CheckoutInv, TasksNameKeys
  <2>6. \A o \in OrderIds : Exists(o) => placed[o] # web[r].key
    BY <2>1 DEF OnceInv, ClaimHeld, RecordNamesOrder, Executing
  <2>7. RecordNamesOrder'
    BY <1>a, <2>1, <2>3, <2>6 DEF OnceInv, RecordNamesOrder, Exists, CheckoutTypeOK
  <2> QED BY <2>5, <2>7 DEF OnceInv
<1> QED BY <1>1, <1>2, <1>3, <1>4, <1>5, <1>6 DEF CheckoutNext, Working, Failing

-----------------------------------------------------------------------------
LEMMA CheckoutInvariant == CheckoutSpec => []CheckoutInv
BY InitCheckout, CheckoutStep, PTL DEF CheckoutSpec

(* Also with slow servers and commits that report an error: the values of all *)
(* variables stay in their types.                                             *)
THEOREM CheckoutTyped == CheckoutSpec => []CheckoutTypeOK
BY CheckoutInvariant, PTL DEF CheckoutInv

(* However many checkouts, requests and faults: success is never reported     *)
(* without an order.                                                          *)
THEOREM ToldOrdersArePlaced == CheckoutSpec => []ToldIsPlaced
BY CheckoutInvariant, PTL DEF CheckoutInv, ToldExists

LEMMA OnceInvariant ==
  ASSUME ~SlowServer, ~LostCommits PROVE CheckoutSpec => [](CheckoutInv /\ OnceInv)
<1>1. CheckoutInv /\ OnceInv /\ [CheckoutNext]_checkoutVars => (CheckoutInv /\ OnceInv)'
  BY CheckoutStep, OnceStep
<1> QED BY <1>1, InitCheckout, PTL DEF CheckoutSpec

(* For every number of checkouts and repeated requests: if requests end       *)
(* within their lease and a commit that reports an error did not happen, a    *)
(* checkout places one order at most.                                         *)
THEOREM OneOrderForEachKey ==
  ASSUME ~SlowServer, ~LostCommits PROVE CheckoutSpec => []OneOrderPerKey
<1>1. CheckoutInv /\ OnceInv => OneOrderPerKey
  <2> SUFFICES ASSUME CheckoutInv, OnceInv, NEW k \in Checkouts
               PROVE  Cardinality(OrdersFrom(k)) <= 1
    BY DEF OneOrderPerKey
  <2>1. OrdersFrom(k) \subseteq {claim[k].order}
    BY CheckoutConstants DEF OrdersFrom, OnceInv, RecordNamesOrder, Exists
  <2>2. IsFiniteSet({claim[k].order}) /\ Cardinality({claim[k].order}) = 1
    BY FS_Singleton
  <2>3. Cardinality(OrdersFrom(k)) <= Cardinality({claim[k].order})
    BY <2>1, <2>2, FS_Subset
  <2> QED BY <2>2, <2>3
<1> QED BY <1>1, OnceInvariant, PTL

-----------------------------------------------------------------------------
Results == [k \in Checkouts |-> OrdersFrom(k)]
Told == [k \in Checkouts |-> Given(k)]

(* The commit decides the result of its key.                                  *)
LEMMA CommitDecides ==
  ASSUME CheckoutInv, OnceInv, NEW r \in Requests, Commit(r),
         NEW k \in Checkouts, k = web[r].key, NEW o, o = web[r].order
  PROVE  Promise!Decide(k)
<1>1. /\ web[r].at = "commit" /\ k \in Checkouts /\ o \in OrderIds /\ ~Exists(o)
      /\ CheckoutTypeOK
  BY DEF Commit, WriteOrder, CheckoutInv, TasksNameKeys
<1>2. placed'[o] = k /\ \A p \in OrderIds \ {o} : placed'[p] = placed[p]
  BY <1>1 DEF Commit, WriteOrder, CheckoutTypeOK
<1>3. OrdersFrom(k) = {}
  BY <1>1, CheckoutConstants DEF OrdersFrom, OnceInv, ClaimHeld, RecordNamesOrder, Executing, Exists
<1>4. OrdersFrom(k)' = {o}
  BY <1>1, <1>2, <1>3 DEF OrdersFrom
<1>5. \A j \in Checkouts \ {k} : OrdersFrom(j)' = OrdersFrom(j)
  BY <1>1, <1>2, CheckoutConstants DEF OrdersFrom, Exists
<1>6. Results' = [Results EXCEPT ![k] = {o}]
  BY <1>1, <1>4, <1>5 DEF Results
<1>7. tracked' = tracked /\ \A p \in tracked : p \in OrderIds /\ p # o
  BY <1>1 DEF Commit, CheckoutInv, ToldExists, ToldIsPlaced, CheckoutTypeOK
<1>8. \A j \in Checkouts : Given(j)' = Given(j)
  BY <1>2, <1>7 DEF Given
<1>9. Told' = Told
  BY <1>8 DEF Told
<1> QED BY <1>1, <1>3, <1>6, <1>9 DEF Promise!Decide, Results, Told

(* The answer that reaches the phone tells the one result of its key.         *)
LEMMA DeliverTells ==
  ASSUME CheckoutInv, OnceInv, NEW r \in Requests, Deliver(r),
         web[r].awaited /\ web[r].order # NoOrderId,
         NEW k \in Checkouts, NEW o, o = web[r].order, k = placed[o]
  PROVE  Promise!Tell(k)
<1>1. CheckoutTypeOK /\ o \in OrderIds /\ Exists(o) /\ k \in Checkouts
  BY Tasks DEF Deliver, CheckoutInv, ToldExists, Task, CheckoutTypeOK, Exists
<1>2. UNCHANGED placed /\ tracked' = tracked \union {o}
  BY DEF Deliver
<1>3. \A p \in OrderIds : placed[p] = k => p = o
  BY <1>1 DEF OnceInv, RecordNamesOrder, Exists
<1>4. OrdersFrom(k) = {o} /\ Given(k)' = {o}
  BY <1>1, <1>2, <1>3 DEF OrdersFrom, Given, CheckoutTypeOK
<1>5. \A j \in Checkouts \ {k} : Given(j)' = Given(j)
  BY <1>2 DEF Given
<1>6. Told' = [Told EXCEPT ![k] = Results[k]]
  BY <1>1, <1>4, <1>5 DEF Told, Results
<1>7. Results' = Results
  BY <1>2 DEF Results, OrdersFrom
<1> QED BY <1>1, <1>4, <1>6, <1>7 DEF Promise!Tell, Results, Told

(* For any number of checkouts, requests and faults, records, requests and    *)
(* orders implement a request with one result, told as often as asked for.    *)
THEOREM CheckoutPlacesOnce ==
  ASSUME ~SlowServer, ~LostCommits PROVE CheckoutSpec => PlacesOnce
<1>1. CheckoutInit => Promise!Init
  BY CheckoutConstants DEF CheckoutInit, Promise!Init, OrdersFrom, Given
<1>2. ASSUME CheckoutInv, OnceInv, [CheckoutNext]_checkoutVars
      PROVE  [Promise!Next]_<<Results, Told>>
  <2>1. ASSUME UNCHANGED <<placed, tracked>> PROVE UNCHANGED <<Results, Told>>
    BY <2>1 DEF Results, Told, OrdersFrom, Given
  <2>2. ASSUME NEW r \in Requests, Commit(r) PROVE Promise!Next
    <3>1. web[r].key \in Checkouts
      BY <1>2, <2>2 DEF Commit, WriteOrder, CheckoutInv, TasksNameKeys
    <3> QED BY <1>2, <2>2, <3>1, CommitDecides DEF Promise!Next
  <2>3. ASSUME NEW r \in Requests, Deliver(r) PROVE [Promise!Next]_<<Results, Told>>
    <3>1. CASE web[r].awaited /\ web[r].order # NoOrderId
      <4>1. placed[web[r].order] \in Checkouts
        BY <1>2, <2>3, <3>1, Tasks
           DEF Deliver, CheckoutInv, ToldExists, Task, CheckoutTypeOK, Exists
      <4> QED BY <1>2, <2>3, <3>1, <4>1, DeliverTells DEF Promise!Next
    <3>2. CASE ~(web[r].awaited /\ web[r].order # NoOrderId)
      BY <2>1, <2>3, <3>2 DEF Deliver
    <3> QED BY <3>1, <3>2
  <2>4. ASSUME NEW r \in Requests, CommitFails(r) PROVE UNCHANGED <<placed, tracked>>
    BY <2>4 DEF CommitFails
  <2>5. CASE \/ Press \/ GiveUp \/ CloseCheckout \/ FillBasket
             \/ Listen \/ FirstSnapshot \/ Ring \/ StopListening
             \/ \E k \in Checkouts : OpenCheckout(k) \/ LeaseEnds(k) \/ LoseRequest(k)
             \/ UNCHANGED checkoutVars
    BY <1>2, <2>1, <2>5, PhoneStep
  <2>6. ASSUME NEW r \in Requests, \/ \E k \in Checkouts : Arrive(r, k)
                                 \/ Claim(r) \/ ClaimFails(r) \/ Mark(r) \/ ServerStops(r)
        PROVE  UNCHANGED <<placed, tracked>>
    BY <2>6 DEF Arrive, Claim, ClaimFails, Mark, ServerStops
  <2> QED BY <1>2, <2>1, <2>2, <2>3, <2>4, <2>5, <2>6 DEF CheckoutNext, Working, Failing
<1>3. CheckoutInv /\ OnceInv /\ [CheckoutNext]_checkoutVars => [Promise!Next]_<<Results, Told>>
  BY <1>2
<1> QED BY <1>1, <1>3, OnceInvariant, PTL DEF CheckoutSpec, PlacesOnce, Promise!Spec, Results, Told
-----------------------------------------------------------------------------
(* The bell: what it rang for exists, and a listener that is live knows it.    *)
BellInv ==
  \A o \in OrderIds :
    /\ rung[o] <= 1
    /\ rung[o] = 1 => Exists(o) /\ (bell.state = "live" => o \in bell.seen)

(* Orders come into being and stay; the phone and the server leave the bell.   *)
LEMMA OrdersStay ==
  ASSUME CheckoutInv, [CheckoutNext]_checkoutVars
  PROVE  \A o \in OrderIds : Exists(o) => Exists(o)'
<1>a. CheckoutTypeOK /\ NoCheckout \notin Checkouts
  BY CheckoutConstants DEF CheckoutInv
<1>1. ASSUME NEW r \in Requests, WriteOrder(r)
      PROVE  \A o \in OrderIds : Exists(o) => Exists(o)'
  <2>1. web[r].key \in Checkouts
    BY <1>1 DEF WriteOrder, CheckoutInv, TasksNameKeys
  <2> QED BY <1>a, <1>1, <2>1 DEF WriteOrder, Exists, CheckoutTypeOK
<1>2. CASE \E r \in Requests : Commit(r) \/ CommitFails(r)
  BY <1>1, <1>2 DEF Commit, CommitFails, Exists
<1>3. CASE \/ Press \/ GiveUp \/ CloseCheckout \/ FillBasket
           \/ Listen \/ FirstSnapshot \/ Ring \/ StopListening
           \/ \E k \in Checkouts : OpenCheckout(k) \/ LeaseEnds(k) \/ LoseRequest(k)
           \/ UNCHANGED checkoutVars
  BY <1>3, PhoneStep DEF Exists
<1>4. CASE \E r \in Requests : \/ Claim(r) \/ ClaimFails(r) \/ Mark(r) \/ Deliver(r)
                               \/ ServerStops(r) \/ \E k \in Checkouts : Arrive(r, k)
  BY <1>4 DEF Claim, ClaimFails, Mark, Deliver, ServerStops, Arrive, Exists
<1> QED BY <1>2, <1>3, <1>4 DEF CheckoutNext, Working, Failing

LEMMA BellStep == ASSUME CheckoutInv, BellInv, [CheckoutNext]_checkoutVars PROVE BellInv'
<1>a. CheckoutTypeOK /\ \A o \in OrderIds : Exists(o) => Exists(o)'
  BY OrdersStay DEF CheckoutInv
<1>1. CASE UNCHANGED bellVars
  BY <1>a, <1>1 DEF BellInv, bellVars
<1>2. CASE Listen
  BY <1>a, <1>2 DEF Listen, BellInv, CheckoutTypeOK
<1>3. CASE FirstSnapshot
  BY <1>a, <1>3 DEF FirstSnapshot, IndexAll, BellInv, CheckoutTypeOK
<1>4. CASE Ring
  <2>1. /\ bell'.seen = bell.seen \union News /\ bell.state = "live"
        /\ \A o \in OrderIds : rung'[o] = IF o \in News /\ rung[o] < 2 THEN rung[o] + 1 ELSE rung[o]
    BY <1>4, <1>a DEF Ring, CheckoutTypeOK
  <2>2. \A o \in News : Exists(o) /\ rung[o] = 0
    BY <1>a, <2>1 DEF News, BellInv, CheckoutTypeOK
  <2> QED BY <1>a, <2>1, <2>2 DEF BellInv, News, CheckoutTypeOK
<1>5. CASE StopListening
  BY <1>a, <1>5 DEF StopListening, BellInv, CheckoutTypeOK
<1>6. ASSUME NEW r \in Requests,
             \/ Claim(r) \/ ClaimFails(r) \/ Commit(r) \/ CommitFails(r) \/ Mark(r) \/ Deliver(r)
             \/ ServerStops(r) \/ \E k \in Checkouts : Arrive(r, k)
      PROVE  UNCHANGED bellVars
  BY <1>6 DEF Claim, ClaimFails, Commit, CommitFails, Mark, Deliver, ServerStops, Arrive
<1>7. ASSUME \/ Press \/ GiveUp \/ CloseCheckout \/ FillBasket \/ UNCHANGED checkoutVars
             \/ \E k \in Checkouts : OpenCheckout(k) \/ LeaseEnds(k) \/ LoseRequest(k)
      PROVE  UNCHANGED bellVars
  BY <1>7 DEF Press, GiveUp, CloseCheckout, FillBasket, OpenCheckout, LeaseEnds, LoseRequest,
              checkoutVars, bellVars
<1> QED BY <1>1, <1>2, <1>3, <1>4, <1>5, <1>6, <1>7 DEF CheckoutNext, Working, Failing

(* For every number of orders and listeners that come, go and forget: the      *)
(* counter hears of an order once, since what is there when a listener starts  *)
(* counts as known and orders are never deleted.                               *)
THEOREM OrdersAreAnnouncedOnce == CheckoutSpec => []AnnouncedOnce
<1>1. CheckoutInit => BellInv
  BY DEF CheckoutInit, BellInv
<1>2. BellInv => AnnouncedOnce
  BY DEF BellInv, AnnouncedOnce
<1> QED BY <1>1, <1>2, BellStep, CheckoutInvariant, PTL DEF CheckoutSpec
=============================================================================
