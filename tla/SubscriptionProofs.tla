-------------------------- MODULE SubscriptionProofs --------------------------
(* What is proved of Subscription for any payments, webhooks and handlers.    *)
EXTENDS Subscription, TLAPS

Activates(kind) == kind \in PaidKinds \union {"subscription.charged"}

(* Webhooks that activate are those of payments Razorpay has.                 *)
WebhooksAreTrue == \A e \in unanswered : Activates(e.kind) => charge[e.pay] \in Bought

(* So are the payments of the activations in flight.                          *)
WorkIsBought ==
  \A c \in Calls : work[c].at \in {"read", "write"} =>
    work[c].p \in Payments /\ charge[work[c].p] \in Bought

(* Who activates, expires or records has a payment to name.                   *)
WorkNamesPayment ==
  \A c \in Calls : work[c].at \in {"read", "write", "expire", "audit"} => work[c].p \in Payments

TypeInv == SubTypeOK /\ WorkNamesPayment

BoughtInv == TypeInv /\ WebhooksAreTrue /\ WorkIsBought /\ ActiveIsBought

(* A worker has its event to itself as long as its lease is not over.         *)
ClaimsAreHeld ==
  \A c \in Calls : work[c].e # NoEvent =>
    event[work[c].e].status = "processing" /\ event[work[c].e].fresh

ClaimInv == TypeInv /\ ClaimsAreHeld /\ OneWorkerPerEvent

-----------------------------------------------------------------------------
USE DEF At, Goto, End, Idle, docs, Fault, NoFault, Bought, Verifiable

LEMMA Constants == TrialLength \in Nat /\ Period \in Nat /\ NoEvent \notin Events
  BY BoundsAreNatural, SentinelsAreNew

LEMMA IdleIsWork == Idle \in Work
  BY DEF Work, Steps, LogType, Final

LEMMA FirstStepIsStep == \A k : FirstStep(k) \in Steps /\ LogOf(k) \in LogType
  BY DEF FirstStep, LogOf, Steps, LogType, PaidKinds

(* The record of a handler that goes on from step to step.                    *)
LEMMA SteppedIsWork ==
  ASSUME NEW w \in Work, NEW s \in Steps
  PROVE  LET v == [w EXCEPT !.at = s] IN v \in Work /\ v.at = s /\ v.e = w.e /\ v.p = w.p
  BY DEF Work

LEMMA OnwardIsWork ==
  ASSUME NEW c \in Calls, work[c] \in Work
  PROVE  /\ Onward(c) \in Work
         /\ Onward(c).at \in {"idle", "complete"}
         /\ Onward(c).e = work[c].e
<1>1. CASE work[c].e = NoEvent
  BY <1>1, IdleIsWork DEF Onward
<1>2. CASE work[c].e # NoEvent
  BY <1>2, SteppedIsWork DEF Onward, Work, Steps
<1> QED
  BY <1>1, <1>2

(* A step that puts a well-typed record in one slot keeps the slots well      *)
(* typed, and those that name a payment naming one.                           *)
LEMMA GotoTyped ==
  ASSUME SubTypeOK, WorkNamesPayment, NEW c \in Calls, NEW w \in Work, Goto(c, w),
         w.at \in {"read", "write", "expire", "audit"} => w.p \in Payments
  PROVE  work' \in [Calls -> Work] /\ WorkNamesPayment'
  BY DEF SubTypeOK, WorkNamesPayment

LEMMA MishapsCount == mishaps \in Nat /\ (NoFault \/ Fault) => mishaps' \in Nat
  OBVIOUS

LEMMA TypesStep == TypeInv /\ [SubNext]_vars => TypeInv'
<1> SUFFICES ASSUME SubTypeOK, WorkNamesPayment, [SubNext]_vars PROVE TypeInv'
  BY DEF TypeInv
<1> DEFINE SlotsTyped == work' \in [Calls -> Work] /\ WorkNamesPayment'
<1> USE DEF SubTypeOK
<1>w. \A c \in Calls : work[c] \in Work
  OBVIOUS
<1>1. CASE Tick
  BY <1>1 DEF Tick, TypeInv, WorkNamesPayment
<1>2. ASSUME NEW p \in Payments, Authorize(p) \/ Capture(p) \/ Decline(p) \/ Renew(p) \/ Halt(p)
      PROVE TypeInv'
  BY <1>2 DEF Authorize, Capture, Decline, Renew, Halt, Razorpay, Sends, TypeInv, WorkNamesPayment
<1>3. ASSUME NEW c \in Calls, StartTrial(c) PROVE TypeInv'
  <2> DEFINE w == [Idle EXCEPT !.at = "trial", !.renew = (sub.status = "none")]
  <2>1. w \in Work /\ w.at = "trial"
    BY DEF Work, Steps, LogType, Final
  <2>2. SlotsTyped
    BY <1>3, <2>1, GotoTyped DEF StartTrial
  <2> QED
    BY <1>3, <2>2 DEF StartTrial, TypeInv
<1>4. ASSUME NEW c \in Calls, AskServer(c) \/ NoAnswer(c) \/ WriteTrial(c) PROVE TypeInv'
  <2>1. sub' \in Sub
    BY <1>4, Constants DEF AskServer, NoAnswer, WriteTrial, EnsureTrial, NewTrial, Sub
  <2> DEFINE Fallback == [work[c] EXCEPT !.at = "fallback"]
  <2>a. Fallback \in Work /\ Fallback.at = "fallback"
    <3>1. work[c] \in Work /\ "fallback" \in Steps
      BY <1>w DEF Steps
    <3> QED
      BY <3>1, SteppedIsWork
  <2>b. Idle \in Work /\ Idle.at = "idle"
    BY IdleIsWork
  <2>c. Goto(c, Idle) \/ Goto(c, Fallback)
    <3>1. AskServer(c) \/ WriteTrial(c) => Goto(c, Idle)
      BY DEF AskServer, WriteTrial
    <3>2. NoAnswer(c) /\ work[c].renew => Goto(c, Fallback)
      BY DEF NoAnswer
    <3>3. NoAnswer(c) /\ ~work[c].renew => Goto(c, Idle)
      BY DEF NoAnswer
    <3> QED
      BY <1>4, <3>1, <3>2, <3>3
  <2> HIDE DEF Fallback
  <2>4. SlotsTyped
    BY <2>a, <2>b, <2>c, GotoTyped
  <2>5. mishaps' \in Nat
    BY <1>4 DEF AskServer, NoAnswer, WriteTrial
  <2> QED
    BY <1>4, <2>1, <2>4, <2>5 DEF AskServer, NoAnswer, WriteTrial, TypeInv
<1>5. ASSUME NEW c \in Calls, NEW p \in Payments, Verify(c, p) PROVE TypeInv'
  <2> DEFINE w == [Idle EXCEPT !.at = "read", !.p = p]
  <2>1. w \in Work /\ w.p \in Payments
    BY DEF Work, Steps, LogType, Final
  <2>2. SlotsTyped
    BY <1>5, <2>1, GotoTyped DEF Verify
  <2> QED
    BY <1>5, <2>2 DEF Verify, TypeInv
<1>6. ASSUME NEW c \in Calls, NEW e \in Events, Claim(c, e) PROVE TypeInv'
  <2> DEFINE out == IF e.kind = "other" THEN "ignored" ELSE "processed"
             w == [Idle EXCEPT !.at = FirstStep(e.kind), !.e = e, !.p = e.pay,
                               !.renew = (e.kind = "subscription.charged"),
                               !.log = LogOf(e.kind), !.out = out]
  <2>a. Goto(c, w)
    BY <1>6 DEF Claim
  <2>b. e.pay \in Payments
    BY DEF Events
  <2>c. FirstStep(e.kind) \in Steps /\ LogOf(e.kind) \in LogType
    BY FirstStepIsStep
  <2>1. w \in Work /\ w.p = e.pay
    BY <2>b, <2>c DEF Work, Final
  <2>2. e.pay \in Payments
    BY DEF Events
  <2>3. SlotsTyped
    BY <2>a, <2>1, <2>2, GotoTyped
  <2> QED
    BY <1>6, <2>3 DEF Claim, TypeInv
<1>7. ASSUME NEW e \in Events, Refuse(e) \/ LeaseEnds(e) PROVE TypeInv'
  <2>1. CASE Refuse(e)
    <3>1. mishaps' \in Nat
      BY <2>1, MishapsCount DEF Refuse
    <3> QED
      BY <2>1, <3>1 DEF Refuse, TypeInv, WorkNamesPayment
  <2>2. CASE LeaseEnds(e)
    BY <2>2 DEF LeaseEnds, TypeInv, WorkNamesPayment
  <2> QED
    BY <1>7, <2>1, <2>2
<1>8. ASSUME NEW c \in Calls, Complete(c) PROVE TypeInv'
  <2>1. work[c].out \in Final \union {"failed"}
    BY <1>w DEF Work
  <2>2. event' \in [Events -> [status : {"none", "processing", "failed"} \union Final, fresh : BOOLEAN]]
    BY <1>8, <2>1 DEF Complete
  <2>3. SlotsTyped
    BY <1>8, IdleIsWork, GotoTyped DEF Complete
  <2>4. mishaps' \in Nat /\ unanswered' \in SUBSET Events
    BY <1>8 DEF Complete
  <2> QED
    BY <1>8, <2>2, <2>3, <2>4 DEF Complete, TypeInv
<1>9. ASSUME NEW c \in Calls, Read(c) PROVE TypeInv'
  <2>1. KeptTrialEnd(sub) \in Nat /\ now + TrialLength \in Nat
    BY Constants DEF KeptTrialEnd, Sub
  <2>2. \A k \in Nat : Activating(c, k) \in Work /\ Activating(c, k).p = work[c].p
    BY <1>w DEF Activating, Work, Steps
  <2>3. PICK w \in Work : Goto(c, w) /\ (w.at \in {"idle", "complete"} \/ w.p = work[c].p)
    BY <1>9, <1>w, <2>1, <2>2, OnwardIsWork DEF Read
  <2>4. work[c].p \in Payments
    BY <1>9 DEF Read, WorkNamesPayment
  <2>5. SlotsTyped
    BY <2>3, <2>4, GotoTyped
  <2>6. mishaps' \in Nat
    BY <1>9 DEF Read
  <2> QED
    BY <1>9, <2>5, <2>6 DEF Read, TypeInv
<1>10. ASSUME NEW c \in Calls, Write(c) \/ Expire(c) PROVE TypeInv'
  <2> DEFINE w == [work[c] EXCEPT !.at = "audit"]
  <2>a. work[c].p \in Payments /\ work[c].from + Period \in Nat /\ work[c].keep \in Nat
    BY <1>10, <1>w, Constants DEF Write, Expire, Work, WorkNamesPayment
  <2>b. Write(c) => sub' \in Sub
    BY <2>a DEF Write, Sub
  <2>c. Expire(c) => sub' \in Sub
    BY DEF Expire, Sub
  <2>1. sub' \in Sub
    BY <1>10, <2>b, <2>c
  <2>2. w \in Work
    BY <1>w, SteppedIsWork DEF Steps
  <2>3. w.p = work[c].p /\ work[c].p \in Payments
    BY <1>10, <1>w DEF Write, Expire, WorkNamesPayment, Work
  <2>4. SlotsTyped
    BY <1>10, <2>2, <2>3, GotoTyped DEF Write, Expire
  <2> QED
    BY <1>10, <2>1, <2>4 DEF Write, Expire, TypeInv
<1>11. ASSUME NEW c \in Calls, StoreFails(c) PROVE TypeInv'
  <2>a. Onward(c) \in Work /\ Onward(c).at \in {"idle", "complete"}
    BY <1>w, OnwardIsWork
  <2>b. \A out \in Final \union {"failed"} :
          LET w == [Onward(c) EXCEPT !.out = out] IN w \in Work /\ w.at \in {"idle", "complete"}
    BY <2>a DEF Work
  <2>c. Onward(c).out \in Final \union {"failed"}
    BY <2>a DEF Work
  <2>1. PICK w \in Work : Goto(c, w) /\ w.at \in {"idle", "complete"}
    BY <1>11, <2>b, <2>c DEF StoreFails
  <2>2. SlotsTyped
    BY <2>1, GotoTyped
  <2>3. mishaps' \in Nat
    BY <1>11 DEF StoreFails
  <2> QED
    BY <1>11, <2>2, <2>3 DEF StoreFails, TypeInv
<1>12. ASSUME NEW c \in Calls, Audit(c) PROVE TypeInv'
  <2>1. work[c].log \in LogType /\ work[c].p \in Payments
    BY <1>12, <1>w DEF Audit, Work, WorkNamesPayment
  <2>a. [type |-> work[c].log, pay |-> work[c].p] \in [type : LogType, pay : Payments]
    BY <2>1
  <2>b. mishaps' \in Nat
    BY <1>12, MishapsCount DEF Audit
  <2> DEFINE entry == [type |-> work[c].log, pay |-> work[c].p]
             Entries == [type : LogType, pay : Payments]
  <2>d. history' = Append(history, entry) \/ history' = history
    BY <1>12 DEF Audit
  <2>e. history \in Seq(Entries) /\ entry \in Entries
    BY <2>a
  <2> HIDE DEF entry, Entries
  <2>f. history' \in Seq(Entries)
    BY <2>d, <2>e
  <2>c. history' \in Seq([type : LogType, pay : Payments])
    BY <2>f DEF Entries
  <2>2. history' \in Seq([type : LogType, pay : Payments]) /\ mishaps' \in Nat
    BY <2>b, <2>c
  <2>3. SlotsTyped
    BY <1>12, <1>w, OnwardIsWork, GotoTyped DEF Audit
  <2> QED
    BY <1>12, <2>2, <2>3 DEF Audit, TypeInv
<1>13. ASSUME NEW c \in Calls, Crash(c) PROVE TypeInv'
  <2>1. SlotsTyped
    BY <1>13, IdleIsWork, GotoTyped DEF Crash
  <2> QED
    BY <1>13, <2>1 DEF Crash, TypeInv
<1>14. CASE UNCHANGED vars
  BY <1>14 DEF vars, TypeInv, WorkNamesPayment
<1> QED
  BY <1>1, <1>2, <1>3, <1>4, <1>5, <1>6, <1>7, <1>8, <1>9, <1>10, <1>11, <1>12, <1>13, <1>14
  DEF SubNext, Step

LEMMA TypesInit == SubInit => TypeInv
  BY Constants, IdleIsWork DEF SubInit, SubTypeOK, Sub, TypeInv, WorkNamesPayment

(* Type correctness: the documents, the charges and the handlers in flight    *)
(* stay within their types, and what is recorded names a payment.             *)
THEOREM SubTypes == SubSpec => []SubTypeOK
<1>1. TypeInv => SubTypeOK
  BY DEF TypeInv
<1> QED
  BY <1>1, TypesInit, TypesStep, PTL DEF SubSpec

-----------------------------------------------------------------------------
(* Razorpay never takes a payment back, so what was bought stays bought.      *)
LEMMA BoughtStays ==
  ASSUME TypeInv, [SubNext]_vars, NEW p \in Payments, charge[p] \in Bought
  PROVE  charge'[p] \in Bought
<1>1. ASSUME NEW q \in Payments, Authorize(q) \/ Capture(q) \/ Decline(q) \/ Renew(q) \/ Halt(q)
      PROVE charge'[p] \in Bought
  BY <1>1 DEF Authorize, Capture, Decline, Renew, Halt, Razorpay, TypeInv, SubTypeOK
<1>2. ASSUME UNCHANGED charge PROVE charge'[p] \in Bought
  BY <1>2
<1>3. ASSUME NEW c \in Calls, StartTrial(c) \/ Step(c) \/ Crash(c) PROVE UNCHANGED charge
  BY <1>3 DEF StartTrial, Step, AskServer, NoAnswer, WriteTrial, Read, Write, Expire, Audit,
              StoreFails, Complete, Crash
<1>4. ASSUME NEW c \in Calls, NEW q \in Payments, Verify(c, q) PROVE UNCHANGED charge
  BY <1>4 DEF Verify
<1>5. ASSUME NEW c \in Calls, NEW e \in Events, Claim(c, e) PROVE UNCHANGED charge
  BY <1>5 DEF Claim
<1>6. ASSUME NEW e \in Events, Refuse(e) \/ LeaseEnds(e) PROVE UNCHANGED charge
  BY <1>6 DEF Refuse, LeaseEnds
<1>7. Tick \/ UNCHANGED vars => UNCHANGED charge
  BY DEF Tick, vars
<1> QED
  BY <1>1, <1>2, <1>3, <1>4, <1>5, <1>6, <1>7 DEF SubNext

(* A webhook that activates is sent with the payment it reports.              *)
LEMMA WebhooksStayTrue ==
  ASSUME BoughtInv, [SubNext]_vars
  PROVE  WebhooksAreTrue'
<1> SUFFICES ASSUME NEW e \in unanswered', Activates(e.kind) PROVE charge'[e.pay] \in Bought
  BY DEF WebhooksAreTrue
<1>1. e \in Events /\ e.pay \in Payments
  <2>1. TypeInv'
    BY TypesStep DEF BoughtInv
  <2> QED
    BY <2>1 DEF TypeInv, SubTypeOK, Events
<1>2. CASE e \in unanswered
  BY <1>1, <1>2, BoughtStays DEF BoughtInv, WebhooksAreTrue
<1>3. CASE e \notin unanswered
  <2>1. PICK q \in Payments : Authorize(q) \/ Capture(q) \/ Decline(q) \/ Renew(q) \/ Halt(q)
    BY <1>3 DEF SubNext, vars, Tick, StartTrial, Step, AskServer, NoAnswer, WriteTrial, Read, Write,
                Expire, Audit, StoreFails, Complete, Crash, Verify, Claim, Refuse, LeaseEnds
  <2>2. CASE Capture(q) \/ Renew(q)
    BY <1>3, <2>2 DEF Capture, Renew, Razorpay, Sends, BoughtInv, TypeInv, SubTypeOK
  <2>3. CASE Authorize(q) \/ Decline(q) \/ Halt(q)
    BY <1>3, <2>3 DEF Authorize, Decline, Halt, Razorpay, Sends, Activates, PaidKinds
  <2> QED
    BY <2>1, <2>2, <2>3
<1> QED
  BY <1>2, <1>3

(* Setting up a trial leads to no activation and takes no event.              *)
LEMMA TrialSlots ==
  ASSUME TypeInv, NEW c \in Calls,
         StartTrial(c) \/ AskServer(c) \/ NoAnswer(c) \/ WriteTrial(c) \/ Complete(c) \/ Crash(c)
  PROVE  work'[c].at \in {"trial", "fallback", "idle"} /\ work'[c].e \in {work[c].e, NoEvent}
<1>t. work \in [Calls -> Work] /\ work[c] \in Work
  BY DEF TypeInv, SubTypeOK
<1>1. ASSUME Goto(c, Idle) PROVE work'[c].at = "idle" /\ work'[c].e = NoEvent
  BY <1>1, <1>t
<1>2. ASSUME AskServer(c) \/ WriteTrial(c) \/ Complete(c) \/ Crash(c) PROVE Goto(c, Idle)
  BY <1>2 DEF AskServer, WriteTrial, Complete, Crash
<1>3. ASSUME StartTrial(c) PROVE work'[c].at = "trial" /\ work'[c].e = NoEvent
  BY <1>3, <1>t DEF StartTrial
<1>4. ASSUME NoAnswer(c), ~work[c].renew PROVE Goto(c, Idle)
  BY <1>4 DEF NoAnswer
<1>5. ASSUME NoAnswer(c), work[c].renew PROVE work'[c].at = "fallback" /\ work'[c].e = work[c].e
  <2>1. work'[c] = [work[c] EXCEPT !.at = "fallback"]
    BY <1>5, <1>t DEF NoAnswer
  <2>2. "fallback" \in Steps
    BY DEF Steps
  <2> QED
    BY <2>1, <2>2, <1>t, SteppedIsWork
<1> QED
  BY <1>1, <1>2, <1>3, <1>4, <1>5

LEMMA FirstReadActivates == \A k : FirstStep(k) \in {"read", "write"} => Activates(k)
  BY DEF FirstStep, Activates, PaidKinds

(* A handler comes to an activation by verifying a payment, by claiming a     *)
(* webhook, or from the reading before it.                                    *)
LEMMA WorkStaysBought ==
  ASSUME BoughtInv, [SubNext]_vars
  PROVE  WorkIsBought'
<1> SUFFICES ASSUME NEW d \in Calls, work'[d].at \in {"read", "write"}
             PROVE work'[d].p \in Payments /\ charge'[work'[d].p] \in Bought
  BY DEF WorkIsBought
<1>t. TypeInv /\ work \in [Calls -> Work]
  BY DEF BoughtInv, TypeInv, SubTypeOK
<1>1. ASSUME work'[d] = work[d] PROVE work'[d].p \in Payments /\ charge'[work'[d].p] \in Bought
  BY <1>1, <1>t, BoughtStays DEF BoughtInv, WorkIsBought
<1>2. ASSUME NEW p \in Payments, Verify(d, p)
      PROVE work'[d].p \in Payments /\ charge'[work'[d].p] \in Bought
  BY <1>2, <1>t DEF Verify
<1>3. ASSUME NEW e \in Events, Claim(d, e)
      PROVE work'[d].p \in Payments /\ charge'[work'[d].p] \in Bought
  <2>1. work'[d].at = FirstStep(e.kind) /\ work'[d].p = e.pay /\ e.pay \in Payments
    BY <1>3, <1>t DEF Claim, Events
  <2>2. Activates(e.kind)
    BY <2>1, FirstReadActivates
  <2> QED
    BY <1>3, <1>t, <2>1, <2>2, BoughtStays DEF Claim, BoughtInv, WebhooksAreTrue
<1>4. ASSUME Read(d) PROVE work'[d].p \in Payments /\ charge'[work'[d].p] \in Bought
  <2>1. work[d] \in Work /\ Onward(d).at \in {"idle", "complete"}
    BY <1>t, OnwardIsWork
  <2>2. \A k : Activating(d, k).p = work[d].p
    BY <2>1 DEF Activating, Work
  <2>3. work'[d].p = work[d].p
    BY <1>4, <1>t, <2>1, <2>2 DEF Read
  <2>4. work[d].p \in Payments /\ charge[work[d].p] \in Bought
    BY <1>4 DEF Read, BoughtInv, WorkIsBought
  <2> QED
    BY <1>t, <2>3, <2>4, BoughtStays
<1>5. ASSUME StartTrial(d) \/ AskServer(d) \/ NoAnswer(d) \/ WriteTrial(d) \/ Complete(d) \/ Crash(d)
      PROVE FALSE
  <2>1. work'[d].at \in {"trial", "fallback", "idle"}
    BY <1>5, <1>t, TrialSlots
  <2> QED
    BY <2>1
<1>6. ASSUME Write(d) \/ Expire(d) \/ Audit(d) \/ StoreFails(d) PROVE FALSE
  <2>1. Onward(d) \in Work /\ Onward(d).at \in {"idle", "complete"} /\ work[d] \in Work
    BY <1>t, OnwardIsWork
  <2>2. work'[d].at \in {"audit", "idle", "complete"}
    BY <1>6, <1>t, <2>1 DEF Write, Expire, Audit, StoreFails, Work
  <2> QED
    BY <2>2
<1>7. ASSUME NEW c \in Calls, c # d,
             \/ StartTrial(c) \/ Step(c) \/ Crash(c)
             \/ \E p \in Payments : Verify(c, p)
             \/ \E e \in Events : Claim(c, e)
      PROVE work'[d] = work[d]
  BY <1>7, <1>t DEF StartTrial, Step, AskServer, NoAnswer, WriteTrial, Read, Write, Expire, Audit,
                    StoreFails, Complete, Crash, Verify, Claim
<1>8. ASSUME \/ \E p \in Payments : Authorize(p) \/ Capture(p) \/ Decline(p) \/ Renew(p) \/ Halt(p)
             \/ \E e \in Events : Refuse(e) \/ LeaseEnds(e)
             \/ Tick \/ UNCHANGED vars
      PROVE work'[d] = work[d]
  BY <1>8 DEF Authorize, Capture, Decline, Renew, Halt, Razorpay, Refuse, LeaseEnds, Tick, vars
<1> QED
  BY <1>1, <1>2, <1>3, <1>4, <1>5, <1>6, <1>7, <1>8 DEF SubNext, Step

(* Only the write of an activation makes a subscription active.               *)
LEMMA ActiveStaysBought ==
  ASSUME BoughtInv, [SubNext]_vars
  PROVE  ActiveIsBought'
<1> SUFFICES ASSUME sub'.status = "active"
             PROVE sub'.paid \in Payments /\ charge'[sub'.paid] \in Bought
  BY DEF ActiveIsBought
<1>t. TypeInv /\ sub \in Sub
  BY DEF BoughtInv, TypeInv, SubTypeOK
<1>1. ASSUME sub'.status = sub.status, sub'.paid = sub.paid
      PROVE sub'.paid \in Payments /\ charge'[sub'.paid] \in Bought
  BY <1>1, <1>t, BoughtStays DEF BoughtInv, ActiveIsBought
<1>2. ASSUME NEW c \in Calls, Write(c)
      PROVE sub'.paid \in Payments /\ charge'[sub'.paid] \in Bought
  BY <1>2, <1>t, BoughtStays DEF Write, BoughtInv, WorkIsBought
<1>3. ASSUME NEW c \in Calls, Expire(c) \/ WriteTrial(c) PROVE FALSE
  BY <1>3, <1>t DEF Expire, WriteTrial, NewTrial, Sub
<1>4. ASSUME NEW c \in Calls, AskServer(c) \/ NoAnswer(c)
      PROVE sub'.status = sub.status /\ sub'.paid = sub.paid
  <2>1. EnsureTrial \/ UNCHANGED sub
    BY <1>4 DEF AskServer, NoAnswer
  <2> QED
    BY <2>1, <1>t DEF EnsureTrial, NewTrial, Sub
<1>5. ASSUME \/ \E p \in Payments : Authorize(p) \/ Capture(p) \/ Decline(p) \/ Renew(p) \/ Halt(p)
             \/ \E c \in Calls : \/ StartTrial(c) \/ Read(c) \/ Audit(c) \/ StoreFails(c)
                                 \/ Complete(c) \/ Crash(c)
             \/ \E c \in Calls, p \in Payments : Verify(c, p)
             \/ \E c \in Calls, e \in Events : Claim(c, e)
             \/ \E e \in Events : Refuse(e) \/ LeaseEnds(e)
             \/ Tick \/ UNCHANGED vars
      PROVE sub' = sub
  BY <1>5 DEF Authorize, Capture, Decline, Renew, Halt, Razorpay, StartTrial, Read, Audit, StoreFails,
              Complete, Crash, Verify, Claim, Refuse, LeaseEnds, Tick, vars
<1> QED
  BY <1>1, <1>2, <1>3, <1>4, <1>5 DEF SubNext, Step

(* The restaurant has a paid subscription only by a payment that Razorpay     *)
(* has: activateSubscriptionInFirestore is reached by no other way.           *)
THEOREM ActiveWasBought == SubSpec => []ActiveIsBought
<1>1. SubInit => BoughtInv
  BY TypesInit DEF SubInit, BoughtInv, WebhooksAreTrue, WorkIsBought, ActiveIsBought
<1>2. BoughtInv /\ [SubNext]_vars => BoughtInv'
  BY TypesStep, WebhooksStayTrue, WorkStaysBought, ActiveStaysBought DEF BoughtInv
<1>3. BoughtInv => ActiveIsBought
  BY DEF BoughtInv
<1> QED
  BY <1>1, <1>2, <1>3, PTL DEF SubSpec

-----------------------------------------------------------------------------
(* The step at which a worker may lose its event is the end of the lease,     *)
(* which Prompt puts after the worker's.                                      *)
LEMMA ClaimStep ==
  ASSUME Prompt, ClaimInv, [SubNext]_vars
  PROVE  ClaimsAreHeld' /\ OneWorkerPerEvent'
<1>t. /\ work \in [Calls -> Work]
      /\ event \in [Events -> [status : {"none", "processing", "failed"} \union Final, fresh : BOOLEAN]]
  BY DEF ClaimInv, TypeInv, SubTypeOK
<1> DEFINE Kept == \A c \in Calls : work'[c].e \in {work[c].e, NoEvent}
<1>1. ASSUME Kept, event' = event PROVE ClaimsAreHeld' /\ OneWorkerPerEvent'
  BY <1>1 DEF ClaimInv, ClaimsAreHeld, OneWorkerPerEvent
<1>2. ASSUME NEW c \in Calls, Complete(c) PROVE ClaimsAreHeld' /\ OneWorkerPerEvent'
  <2>1. \A d \in Calls : work'[d].e # NoEvent => d # c /\ work'[d].e = work[d].e
    BY <1>2, <1>t DEF Complete
  <2>2. ASSUME NEW d \in Calls, work'[d].e # NoEvent PROVE event'[work'[d].e] = event[work'[d].e]
    <3>1. work[d].e # NoEvent /\ work'[d].e = work[d].e /\ work[d].e # work[c].e
      BY <2>1, <2>2 DEF ClaimInv, OneWorkerPerEvent
    <3>2. work[d].e \in Events
      BY <1>t, <3>1 DEF Work
    <3>3. \A f \in Events : f # work[c].e => event'[f] = event[f]
      BY <1>2, <1>t DEF Complete
    <3> QED
      BY <3>1, <3>2, <3>3
  <2> QED
    BY <2>1, <2>2 DEF ClaimInv, ClaimsAreHeld, OneWorkerPerEvent
<1>3. ASSUME NEW e \in Events, LeaseEnds(e) PROVE ClaimsAreHeld' /\ OneWorkerPerEvent'
  <2>1. \A d \in Calls : work[d].e # e
    BY <1>3 DEF LeaseEnds
  <2> QED
    BY <1>3, <1>t, <2>1 DEF LeaseEnds, ClaimInv, ClaimsAreHeld, OneWorkerPerEvent
<1>4. ASSUME NEW c \in Calls, NEW e \in Events, Claim(c, e) PROVE ClaimsAreHeld' /\ OneWorkerPerEvent'
  <2>1. \A d \in Calls : work[d].e # e
    BY <1>4, SentinelsAreNew DEF Claim, Claimable, ClaimInv, ClaimsAreHeld
  <2>2. work'[c].e = e /\ \A d \in Calls : d # c => work'[d] = work[d]
    BY <1>4, <1>t DEF Claim
  <2>3. /\ event'[e].status = "processing" /\ event'[e].fresh
        /\ \A f \in Events : f # e => event'[f] = event[f]
    BY <1>4, <1>t DEF Claim
  <2>4. \A d \in Calls : work[d].e # NoEvent => work[d].e \in Events
    BY <1>t DEF Work
  <2> QED
    BY <2>1, <2>2, <2>3, <2>4 DEF ClaimInv, ClaimsAreHeld, OneWorkerPerEvent
<1>5. ASSUME NEW c \in Calls,
             \/ StartTrial(c) \/ AskServer(c) \/ NoAnswer(c) \/ WriteTrial(c) \/ Crash(c)
             \/ \E p \in Payments : Verify(c, p)
      PROVE Kept /\ event' = event
  <2>1. (\E p \in Payments : Verify(c, p)) => work'[c].e = NoEvent
    BY <1>t DEF Verify
  <2>2. work'[c].e \in {work[c].e, NoEvent}
    BY <1>5, <2>1, TrialSlots DEF ClaimInv
  <2>3. \A d \in Calls : d # c => work'[d] = work[d]
    BY <1>5, <1>t DEF StartTrial, AskServer, NoAnswer, WriteTrial, Crash, Verify
  <2>4. event' = event
    BY <1>5 DEF StartTrial, AskServer, NoAnswer, WriteTrial, Crash, Verify
  <2> QED
    BY <2>2, <2>3, <2>4
<1>6. ASSUME NEW c \in Calls, Read(c) \/ Write(c) \/ Expire(c) \/ Audit(c) \/ StoreFails(c)
      PROVE Kept /\ event' = event
  <2>1. Onward(c) \in Work /\ Onward(c).e = work[c].e /\ work[c] \in Work
    BY <1>t, OnwardIsWork
  <2>2. \A k : Activating(c, k).e = work[c].e
    BY <2>1 DEF Activating, Work
  <2>3. work'[c].e = work[c].e
    BY <1>6, <1>t, <2>1, <2>2 DEF Read, Write, Expire, Audit, StoreFails, Work
  <2>4. \A d \in Calls : d # c => work'[d] = work[d]
    BY <1>6, <1>t DEF Read, Write, Expire, Audit, StoreFails
  <2>5. event' = event
    BY <1>6 DEF Read, Write, Expire, Audit, StoreFails
  <2> QED
    BY <2>3, <2>4, <2>5
<1>7. ASSUME \/ \E p \in Payments : Authorize(p) \/ Capture(p) \/ Decline(p) \/ Renew(p) \/ Halt(p)
             \/ \E e \in Events : Refuse(e)
             \/ Tick \/ UNCHANGED vars
      PROVE Kept /\ event' = event
  BY <1>7 DEF Authorize, Capture, Decline, Renew, Halt, Razorpay, Refuse, Tick, vars
<1> QED
  BY <1>1, <1>2, <1>3, <1>4, <1>5, <1>6, <1>7 DEF SubNext, Step

LEMMA ClaimHolds == ASSUME Prompt PROVE SubSpec => []ClaimInv
<1>1. SubInit => ClaimInv
  BY TypesInit DEF SubInit, ClaimInv, ClaimsAreHeld, OneWorkerPerEvent
<1>2. ClaimInv /\ [SubNext]_vars => ClaimInv'
  BY TypesStep, ClaimStep DEF ClaimInv
<1> QED
  BY <1>1, <1>2, PTL DEF SubSpec

(* claimWebhookEventIdempotently gives an event to one worker at a time, if   *)
(* no worker outlasts its lease.                                              *)
THEOREM ClaimsExclude == ASSUME Prompt PROVE SubSpec => []OneWorkerPerEvent
<1>1. ClaimInv => OneWorkerPerEvent
  BY DEF ClaimInv
<1> QED
  BY <1>1, ClaimHolds, PTL

(* An event that was processed or ignored is never taken up again: nobody     *)
(* claims it, and no worker of an earlier delivery is left to complete it.    *)
THEOREM FinalEventsStay == ASSUME Prompt PROVE SubSpec => EventIsFinal
<1>1. ASSUME ClaimInv, [SubNext]_vars, NEW e \in Events, event[e].status \in Final
      PROVE event'[e].status = event[e].status
  <2>t. event \in [Events -> [status : {"none", "processing", "failed"} \union Final, fresh : BOOLEAN]]
    BY <1>1 DEF ClaimInv, TypeInv, SubTypeOK
  <2>1. ASSUME NEW c \in Calls, NEW f \in Events, Claim(c, f) PROVE event'[e] = event[e]
    BY <1>1, <2>1, <2>t DEF Claim, Claimable, Final
  <2>2. ASSUME NEW f \in Events, LeaseEnds(f) PROVE event'[e].status = event[e].status
    BY <2>2, <2>t DEF LeaseEnds
  <2>3. ASSUME NEW c \in Calls, Complete(c) PROVE event'[e] = event[e]
    <3>1. work[c].e # e
      BY <1>1, SentinelsAreNew DEF ClaimInv, ClaimsAreHeld, Final
    <3> QED
      BY <2>3, <2>t, <3>1 DEF Complete
  <2>4. ASSUME \/ \E p \in Payments : Authorize(p) \/ Capture(p) \/ Decline(p) \/ Renew(p) \/ Halt(p)
               \/ \E c \in Calls : \/ StartTrial(c) \/ AskServer(c) \/ NoAnswer(c) \/ WriteTrial(c)
                                   \/ Read(c) \/ Write(c) \/ Expire(c) \/ Audit(c)
                                   \/ StoreFails(c) \/ Crash(c)
               \/ \E c \in Calls, p \in Payments : Verify(c, p)
               \/ \E f \in Events : Refuse(f)
               \/ Tick \/ UNCHANGED vars
        PROVE event' = event
    BY <2>4 DEF Authorize, Capture, Decline, Renew, Halt, Razorpay, StartTrial, AskServer, NoAnswer,
                WriteTrial, Read, Write, Expire, Audit, StoreFails, Crash, Verify, Refuse, Tick, vars
  <2> QED
    BY <1>1, <2>1, <2>2, <2>3, <2>4 DEF SubNext, Step
<1>2. ClaimInv /\ [SubNext]_vars =>
        [\A e \in Events : event[e].status \in Final => event'[e].status = event[e].status]_vars
  BY <1>1
<1> QED
  BY <1>2, ClaimHolds, PTL DEF SubSpec, EventIsFinal

-----------------------------------------------------------------------------
(* A restaurant with a document has the end of its trial there, whoever is    *)
(* about to ask for a trial has found the document, and whoever is about to   *)
(* activate has read that end.                                                *)
TrialIsKept ==
  /\ sub.status # "none" /\ sub.trialEnd = TrialLength
  /\ \A c \in Calls : /\ work[c].at # "fallback"
                      /\ work[c].at = "trial" => ~work[c].renew
                      /\ work[c].at = "write" => work[c].keep = TrialLength

TrialInv == TypeInv /\ TrialIsKept

LEMMA NothingClaimedIsTrial == \A k : FirstStep(k) \notin {"trial", "fallback", "write"}
  BY DEF FirstStep, PaidKinds

(* The handlers: none falls back, asks for a second trial or would write      *)
(* another end.                                                               *)
LEMMA SlotsKeepTrial ==
  ASSUME ~Faults, TrialLength > 0, TrialInv, [SubNext]_vars, NEW d \in Calls
  PROVE  /\ work'[d].at # "fallback"
         /\ work'[d].at = "trial" => ~work'[d].renew
         /\ work'[d].at = "write" => work'[d].keep = TrialLength
<1> DEFINE Goal == /\ work'[d].at # "fallback"
                   /\ work'[d].at = "trial" => ~work'[d].renew
                   /\ work'[d].at = "write" => work'[d].keep = TrialLength
<1>t. /\ TypeInv /\ work \in [Calls -> Work] /\ sub \in Sub /\ work[d] \in Work
      /\ sub.status # "none" /\ sub.trialEnd = TrialLength
      /\ work[d].at # "fallback" /\ (work[d].at = "trial" => ~work[d].renew)
      /\ (work[d].at = "write" => work[d].keep = TrialLength)
  BY DEF TrialInv, TrialIsKept, TypeInv, SubTypeOK
<1>n. Faults = FALSE /\ TrialLength \in Nat /\ TrialLength # 0
  BY SwitchesAreTruth, Constants
<1>1. ASSUME work'[d] = work[d] PROVE Goal
  BY <1>1, <1>t
<1>2. ASSUME NEW p \in Payments, Verify(d, p) PROVE Goal
  <2>1. work'[d].at = "read"
    BY <1>2, <1>t DEF Verify
  <2> QED
    BY <2>1
<1>3. ASSUME NEW e \in Events, Claim(d, e) PROVE Goal
  <2>1. work'[d].at = FirstStep(e.kind)
    BY <1>3, <1>t DEF Claim
  <2> QED
    BY <2>1, NothingClaimedIsTrial
<1>4. ASSUME Read(d) PROVE Goal
  <2>1. Onward(d) \in Work /\ Onward(d).at \in {"idle", "complete"}
    BY <1>t, OnwardIsWork
  <2>2. KeptTrialEnd(sub) = TrialLength
    BY <1>t, <1>n DEF KeptTrialEnd
  <2>3. Activating(d, TrialLength).at = "write" /\ Activating(d, TrialLength).keep = TrialLength
    BY <1>t DEF Activating, Work
  <2>4. work'[d] = Onward(d) \/ work'[d] = Activating(d, TrialLength)
    BY <1>4, <1>t, <1>n, <2>2 DEF Read
  <2> QED
    BY <2>1, <2>3, <2>4
<1>5. ASSUME Write(d) \/ Expire(d) \/ Audit(d) \/ StoreFails(d) PROVE Goal
  <2>1. Onward(d) \in Work /\ Onward(d).at \in {"idle", "complete"}
    BY <1>t, OnwardIsWork
  <2>2. work'[d].at \in {"audit", "idle", "complete"}
    BY <1>5, <1>t, <2>1 DEF Write, Expire, Audit, StoreFails, Work
  <2> QED
    BY <2>2
<1>6. ASSUME AskServer(d) \/ NoAnswer(d) \/ WriteTrial(d) \/ Complete(d) \/ Crash(d) PROVE Goal
  <2>1. Goto(d, Idle)
    BY <1>6, <1>t DEF AskServer, NoAnswer, WriteTrial, Complete, Crash
  <2>2. work'[d].at = "idle"
    BY <2>1, <1>t
  <2> QED
    BY <2>2
<1>7. ASSUME StartTrial(d) PROVE Goal
  <2>1. work'[d].at = "trial" /\ work'[d].renew = (sub.status = "none")
    BY <1>7, <1>t DEF StartTrial
  <2> QED
    BY <2>1, <1>t
<1>8. ASSUME NEW c \in Calls, c # d,
             \/ StartTrial(c) \/ Step(c) \/ Crash(c)
             \/ \E p \in Payments : Verify(c, p)
             \/ \E e \in Events : Claim(c, e)
      PROVE work'[d] = work[d]
  BY <1>8, <1>t DEF StartTrial, Step, AskServer, NoAnswer, WriteTrial, Read, Write, Expire, Audit,
                    StoreFails, Complete, Crash, Verify, Claim
<1>9. ASSUME \/ \E p \in Payments : Authorize(p) \/ Capture(p) \/ Decline(p) \/ Renew(p) \/ Halt(p)
             \/ \E e \in Events : Refuse(e) \/ LeaseEnds(e)
             \/ Tick \/ UNCHANGED vars
      PROVE work'[d] = work[d]
  BY <1>9 DEF Authorize, Capture, Decline, Renew, Halt, Razorpay, Refuse, LeaseEnds, Tick, vars
<1> HIDE DEF Goal
<1>10. Goal
  BY <1>1, <1>2, <1>3, <1>4, <1>5, <1>6, <1>7, <1>8, <1>9 DEF SubNext, Step
<1> QED
  BY <1>10 DEF Goal

(* The document: a first trial is the only one, and activations write the end *)
(* they found.                                                                *)
LEMMA DocumentKeepsTrial ==
  ASSUME TrialInv, [SubNext]_vars
  PROVE  /\ sub'.trialEnd = sub.trialEnd /\ sub'.status # "none"
         /\ sub'.status = "trial" => sub.status = "trial"
<1> DEFINE Goal == /\ sub'.trialEnd = sub.trialEnd /\ sub'.status # "none"
                   /\ sub'.status = "trial" => sub.status = "trial"
<1>t. /\ work \in [Calls -> Work] /\ sub \in Sub
      /\ sub.status # "none" /\ sub.trialEnd = TrialLength
  BY DEF TrialInv, TrialIsKept, TypeInv, SubTypeOK
<1>1. ASSUME sub' = sub PROVE Goal
  BY <1>1, <1>t
<1>2. ASSUME NEW c \in Calls, Write(c) PROVE Goal
  <2>1. work[c].keep = TrialLength
    BY <1>2 DEF Write, TrialInv, TrialIsKept
  <2> QED
    BY <1>2, <1>t, <2>1 DEF Write
<1>3. ASSUME NEW c \in Calls, Expire(c) PROVE Goal
  BY <1>3, <1>t DEF Expire, Sub
<1>4. ASSUME NEW c \in Calls, WriteTrial(c) PROVE FALSE
  BY <1>4 DEF WriteTrial, TrialInv, TrialIsKept
<1>5. ASSUME NEW c \in Calls, AskServer(c) \/ NoAnswer(c) PROVE Goal
  <2>1. EnsureTrial \/ UNCHANGED sub
    BY <1>5 DEF AskServer, NoAnswer
  <2>2. sub' = sub \/ sub' = [sub EXCEPT !.until = sub.trialEnd]
    BY <2>1, <1>t DEF EnsureTrial
  <2> QED
    BY <2>2, <1>t DEF Sub
<1>6. ASSUME \/ \E p \in Payments : Authorize(p) \/ Capture(p) \/ Decline(p) \/ Renew(p) \/ Halt(p)
             \/ \E c \in Calls : \/ StartTrial(c) \/ Read(c) \/ Audit(c) \/ StoreFails(c)
                                 \/ Complete(c) \/ Crash(c)
             \/ \E c \in Calls, p \in Payments : Verify(c, p)
             \/ \E c \in Calls, e \in Events : Claim(c, e)
             \/ \E e \in Events : Refuse(e) \/ LeaseEnds(e)
             \/ Tick \/ UNCHANGED vars
      PROVE sub' = sub
  BY <1>6 DEF Authorize, Capture, Decline, Renew, Halt, Razorpay, StartTrial, Read, Audit, StoreFails,
              Complete, Crash, Verify, Claim, Refuse, LeaseEnds, Tick, vars
<1> HIDE DEF Goal
<1>7. Goal
  BY <1>1, <1>2, <1>3, <1>4, <1>5, <1>6 DEF SubNext, Step
<1> QED
  BY <1>7 DEF Goal

(* The trial is given once.  The restaurant must have its document from the   *)
(* start and the store must answer every read: a browser that finds none may  *)
(* write a second trial, and an activation that cannot read the document      *)
(* starts one anew (getSubscription and activateSubscriptionInFirestore go on *)
(* as if it were missing).  Handlers may still stop at any step.              *)
THEOREM TrialIsGivenOnce ==
  ASSUME ~Newborn, ~Faults, TrialLength > 0
  PROVE  SubSpec => TrialOnlyOnce
<1>1. SubInit => TrialInv
  <2>1. Newborn = FALSE
    BY SwitchesAreTruth
  <2>2. SubInit => TrialIsKept
    BY <2>1 DEF SubInit, TrialIsKept
  <2> QED
    BY <2>2, TypesInit DEF TrialInv
<1>2. TrialInv /\ [SubNext]_vars => TrialInv'
  BY TypesStep, SlotsKeepTrial, DocumentKeepsTrial DEF TrialInv, TrialIsKept
<1>3. TrialInv /\ [SubNext]_vars
        => [sub.status # "none" => /\ sub'.trialEnd = sub.trialEnd
                                   /\ sub'.status = "trial" => sub.status = "trial"]_vars
  BY DocumentKeepsTrial
<1> QED
  BY <1>1, <1>2, <1>3, PTL DEF SubSpec, TrialOnlyOnce
=============================================================================
