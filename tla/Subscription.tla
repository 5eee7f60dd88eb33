----------------------------- MODULE Subscription -----------------------------
(* The subscription of one restaurant: its trial, and its activation by       *)
(* payments that Razorpay confirms twice, to the browser that paid and in     *)
(* webhooks which it repeats until they are answered.                         *)
(*                                                                            *)
(* Server handlers (and the browser that sets up a trial) are slots that read,*)
(* await and write; anything may happen between two steps of a slot.  Plans,  *)
(* prices and signatures are left out: a payment here is one whose notes name *)
(* the restaurant and a plan on sale.                                         *)
EXTENDS Naturals, Sequences, FiniteSets

CONSTANTS
  Payments,     \* ids of Razorpay payments
  Kinds,        \* the kinds of webhook enabled in this instance
  Calls,        \* slots for handlers in flight
  Ops,          \* "trial": browsers look after it, "verify": they confirm payments
  Newborn,      \* TRUE: there is no subscription document yet
  Prompt,       \* TRUE: no live handler outlasts the lease on its event
  Patient,      \* TRUE: the provider repeats a webhook only after the lease
  Faults,       \* TRUE: single reads and writes of the store may fail
  MaxMishaps,   \* bound on such failures and on handlers that stop half-way
  MaxLog,       \* bound on the history, beyond which no verification starts
  MaxTime,      \* bound on the clock
  TrialLength, Period,
  NoEvent, NoPayment

PaidKinds == {"order.paid", "payment.captured"}

AllKinds == PaidKinds \union
  {"payment.failed", "subscription.charged", "subscription.cancelled", "other"}

Events == [kind : Kinds, pay : Payments]

ASSUME KindsAndOps == Kinds \subseteq AllKinds /\ Ops \subseteq {"trial", "verify"}

ASSUME SwitchesAreTruth == {Newborn, Prompt, Patient, Faults} \subseteq BOOLEAN

ASSUME BoundsAreNatural == {MaxMishaps, MaxLog, MaxTime, TrialLength, Period} \subseteq Nat

ASSUME SentinelsAreNew == NoEvent \notin Events /\ NoPayment \notin Payments

VARIABLES
  sub,        \* restaurants/R/subscription/current
  history,    \* restaurants/R/subscriptionHistory, without the checkouts
  event,      \* subscriptionWebhookEvents
  charge,     \* what Razorpay did with each payment
  unanswered, \* webhooks Razorpay still delivers
  work,       \* the handlers in flight
  now, mishaps

vars == <<sub, history, event, charge, unanswered, work, now, mishaps>>

docs == <<sub, history, event>>

(* The verification also takes a payment that is only authorized.             *)
Verifiable == {"authorized", "captured"}

Bought == Verifiable \union {"charged"}

Steps == {"idle", "trial", "fallback", "read", "write", "expire", "audit", "complete"}

LogType == {"activated", "renewed", "failed", "cancelled"}

Final == {"processed", "ignored"}

Sub == [status : {"none", "trial", "active", "expired"}, paid : Payments \union {NoPayment},
        until : Nat, trialEnd : Nat]

Work == [at : Steps, e : Events \union {NoEvent}, p : Payments \union {NoPayment},
         renew : BOOLEAN, keep : Nat, from : Nat, log : LogType, out : Final \union {"failed"}]

SubTypeOK ==
  /\ sub \in Sub
  /\ history \in Seq([type : LogType, pay : Payments])
  /\ event \in [Events -> [status : {"none", "processing", "failed"} \union Final, fresh : BOOLEAN]]
  /\ charge \in [Payments -> {"none", "failed"} \union Bought]
  /\ unanswered \in SUBSET Events
  /\ work \in [Calls -> Work]
  /\ now \in Nat /\ mishaps \in Nat

Idle == [at |-> "idle", e |-> NoEvent, p |-> NoPayment, renew |-> FALSE, keep |-> 0,
         from |-> 0, log |-> "activated", out |-> "processed"]

(* A document older than operationalAccessUntil has a trial and no such field.*)
SubInit ==
  /\ sub = [status |-> IF Newborn THEN "none" ELSE "trial", paid |-> NoPayment, until |-> 0,
            trialEnd |-> IF Newborn THEN 0 ELSE TrialLength]
  /\ history = <<>>
  /\ event = [e \in Events |-> [status |-> "none", fresh |-> FALSE]]
  /\ charge = [p \in Payments |-> "none"]
  /\ unanswered = {}
  /\ work = [c \in Calls |-> Idle]
  /\ now = 0 /\ mishaps = 0

-----------------------------------------------------------------------------
At(c, step) == work[c].at = step

Goto(c, w) == work' = [work EXCEPT ![c] = w]

End(c) == Goto(c, Idle)

Fault == Faults /\ mishaps < MaxMishaps /\ mishaps' = mishaps + 1

NoFault == UNCHANGED mishaps

Tick ==
  /\ now < MaxTime
  /\ now' = now + 1
  /\ UNCHANGED <<docs, charge, unanswered, work, mishaps>>

(* Razorpay. A payment is captured, or fails, or renews a subscription, which *)
(* may end later; each of these is told in webhooks with ids of their own.    *)
Sends(kinds, p) == unanswered' = unanswered \union {e \in Events : e.kind \in kinds /\ e.pay = p}

Razorpay(p, from, to, kinds) ==
  /\ charge[p] \in from
  /\ charge' = [charge EXCEPT ![p] = to]
  /\ Sends(kinds, p)
  /\ UNCHANGED <<docs, work, now, mishaps>>

Authorize(p) == "verify" \in Ops /\ Razorpay(p, {"none"}, "authorized", {"other"})

Capture(p) == Razorpay(p, {"none", "authorized"}, "captured", PaidKinds \union {"other"})

Decline(p) == "payment.failed" \in Kinds /\ Razorpay(p, {"none"}, "failed", {"payment.failed"})

Renew(p) == "subscription.charged" \in Kinds /\ Razorpay(p, {"none"}, "charged", {"subscription.charged"})

Halt(p) ==
  /\ "subscription.cancelled" \in Kinds
  /\ \A e \in Events : e.kind = "subscription.cancelled" /\ e.pay = p => event[e].status = "none"
  /\ Razorpay(p, {"charged"}, "charged", {"subscription.cancelled"})

-----------------------------------------------------------------------------
(* The trial.  ensureRestaurantTrialInFirestore is one transaction.           *)

NewTrial(t) == [status |-> "trial", paid |-> sub.paid, until |-> t + TrialLength,
                trialEnd |-> t + TrialLength]

EnsureTrial ==
  CASE sub.status = "none"                      -> sub' = NewTrial(now)
    [] sub.status = "trial" /\ sub.until = 0 -> sub' = [sub EXCEPT !.until = sub.trialEnd]
    [] OTHER                                    -> UNCHANGED sub

StartTrial(c) ==
  /\ "trial" \in Ops /\ At(c, "idle")
  /\ sub.status = "none" \/ sub.until = 0
  /\ Goto(c, [Idle EXCEPT !.at = "trial", !.renew = (sub.status = "none")])
  /\ UNCHANGED <<docs, charge, unanswered, now, mishaps>>

(* The request to the server, whose answer the browser gets; a transaction    *)
(* that fails is answered with a trial nobody keeps.                          *)
AskServer(c) ==
  /\ At(c, "trial")
  /\ \/ EnsureTrial /\ NoFault
     \/ UNCHANGED sub /\ Fault
  /\ End(c)
  /\ UNCHANGED <<history, event, charge, unanswered, now>>

(* No answer, whether the server did it or not: a browser that had found no   *)
(* document writes one itself.                                                *)
NoAnswer(c) ==
  /\ At(c, "trial")
  /\ EnsureTrial \/ UNCHANGED sub
  /\ Goto(c, IF work[c].renew THEN [work[c] EXCEPT !.at = "fallback"] ELSE Idle)
  /\ UNCHANGED <<history, event, charge, unanswered, now, mishaps>>

WriteTrial(c) ==
  /\ At(c, "fallback")
  /\ sub' = NewTrial(now)
  /\ End(c)
  /\ UNCHANGED <<history, event, charge, unanswered, now, mishaps>>

-----------------------------------------------------------------------------
(* Webhooks: claimWebhookEventIdempotently is a transaction on the event.     *)

ClaimableAnyway(e) == event[e].status \notin Final       \* a bug: a claim excludes nobody

ClaimableOnce(e) == event[e].status \in {"none", "failed", "ignored"}   \* a bug: ignored again

ClaimedForGood(e) == event[e].status \in {"none", "failed"}   \* a bug: no lease ends

Claimable(e) ==
  \/ event[e].status \in {"none", "failed"}
  \/ event[e].status = "processing" /\ ~event[e].fresh

FirstStepFailed(kind) == IF kind = "other" THEN "complete" ELSE "read"  \* a bug: no case for failures

FirstStep(kind) ==
  CASE kind \in PaidKinds \union {"subscription.charged"} -> "read"
    [] kind = "payment.failed"                            -> "audit"
    [] kind = "subscription.cancelled"                    -> "expire"
    [] OTHER                                              -> "complete"

LogOf(kind) ==
  CASE kind = "subscription.charged"   -> "renewed"
    [] kind = "payment.failed"         -> "failed"
    [] kind = "subscription.cancelled" -> "cancelled"
    [] OTHER                           -> "activated"

Claim(c, e) ==
  /\ At(c, "idle") /\ e \in unanswered /\ Claimable(e)
  /\ event' = [event EXCEPT ![e] = [status |-> "processing", fresh |-> TRUE]]
  /\ Goto(c, [Idle EXCEPT !.at = FirstStep(e.kind), !.e = e, !.p = e.pay,
                          !.renew = (e.kind = "subscription.charged"), !.log = LogOf(e.kind),
                          !.out = IF e.kind = "other" THEN "ignored" ELSE "processed"])
  /\ UNCHANGED <<sub, history, charge, unanswered, now, mishaps>>

(* Claimed before: answered at once, and Razorpay is content.  A claim whose  *)
(* transaction fails is taken for this when the record can be read.           *)
Refuse(e) ==
  /\ e \in unanswered
  /\ \/ ~Claimable(e) /\ NoFault
     \/ event[e].status # "none" /\ Fault
  /\ Patient => event[e].status # "processing"
  /\ unanswered' = unanswered \ {e}
  /\ UNCHANGED <<docs, charge, work, now>>

LeaseEnds(e) ==
  /\ event[e].status = "processing" /\ event[e].fresh
  /\ Prompt => \A c \in Calls : work[c].e # e
  /\ event' = [event EXCEPT ![e].fresh = FALSE]
  /\ UNCHANGED <<sub, history, charge, unanswered, work, now, mishaps>>

(* completeWebhookEvent, then the answer, which may be lost; that the record  *)
(* cannot be written is not an error.                                         *)
Complete(c) ==
  /\ At(c, "complete")
  /\ \/ event' = [event EXCEPT ![work[c].e].status = work[c].out] /\ NoFault
     \/ UNCHANGED event /\ Fault
  /\ unanswered' \in {unanswered, unanswered \ {work[c].e}}
  /\ End(c)
  /\ UNCHANGED <<sub, history, charge, now>>

-----------------------------------------------------------------------------
(* activateSubscriptionInFirestore, called by a webhook and by                *)
(* /api/subscription/verify-and-activate: it reads, writes and records.       *)

Verify(c, p) ==
  /\ "verify" \in Ops /\ Len(history) < MaxLog
  /\ At(c, "idle") /\ charge[p] \in Verifiable
  /\ Goto(c, [Idle EXCEPT !.at = "read", !.p = p])
  /\ UNCHANGED <<docs, charge, unanswered, now, mishaps>>

(* A webhook still has its event to complete.                                 *)
Onward(c) == IF work[c].e = NoEvent THEN Idle ELSE [work[c] EXCEPT !.at = "complete"]

AlreadyActive(c) ==
  ~work[c].renew /\ sub.status = "active" /\ sub.paid = work[c].p

NewTrialEnd(s) == now + TrialLength               \* a bug: the trial starts again

KeptTrialEnd(s) == IF s.trialEnd = 0 THEN now + TrialLength ELSE s.trialEnd

Activating(c, keep) == [work[c] EXCEPT !.at = "write", !.keep = keep, !.from = now]

(* Whoever cannot read the document goes on as if there were none.            *)
Read(c) ==
  /\ At(c, "read")
  /\ \/ AlreadyActive(c) /\ Goto(c, Onward(c)) /\ NoFault
     \/ ~AlreadyActive(c) /\ Goto(c, Activating(c, KeptTrialEnd(sub))) /\ NoFault
     \/ Goto(c, Activating(c, now + TrialLength)) /\ Fault
  /\ UNCHANGED <<docs, charge, unanswered, now>>

Write(c) ==
  /\ At(c, "write")
  /\ sub' = [status |-> "active", paid |-> work[c].p, until |-> work[c].from + Period,
             trialEnd |-> work[c].keep]
  /\ Goto(c, [work[c] EXCEPT !.at = "audit"])
  /\ UNCHANGED <<history, event, charge, unanswered, now, mishaps>>

(* subscription.cancelled and subscription.halted merge into the document.    *)
Expire(c) ==
  /\ At(c, "expire")
  /\ sub' = [sub EXCEPT !.status = "expired"]
  /\ Goto(c, [work[c] EXCEPT !.at = "audit"])
  /\ UNCHANGED <<history, event, charge, unanswered, now, mishaps>>

(* A write that fails ends a webhook as failed, though answered.              *)
StoreFails(c) ==
  /\ Fault /\ work[c].at \in {"write", "expire"}
  /\ Goto(c, [Onward(c) EXCEPT !.out = IF work[c].e = NoEvent THEN @ ELSE "failed"])
  /\ UNCHANGED <<docs, charge, unanswered, now>>

(* recordSubscriptionAudit: a record that cannot be written is given up.      *)
Audit(c) ==
  /\ At(c, "audit")
  /\ \/ history' = Append(history, [type |-> work[c].log, pay |-> work[c].p]) /\ NoFault
     \/ UNCHANGED history /\ Fault
  /\ Goto(c, Onward(c))
  /\ UNCHANGED <<sub, event, charge, unanswered, now>>

Crash(c) ==
  /\ mishaps < MaxMishaps /\ ~At(c, "idle")
  /\ mishaps' = mishaps + 1
  /\ End(c)
  /\ UNCHANGED <<docs, charge, unanswered, now>>

-----------------------------------------------------------------------------
Step(c) ==
  \/ AskServer(c) \/ NoAnswer(c) \/ WriteTrial(c)
  \/ Read(c) \/ Write(c) \/ Expire(c) \/ Audit(c) \/ StoreFails(c) \/ Complete(c)

SubNext ==
  \/ Tick
  \/ \E p \in Payments : Authorize(p) \/ Capture(p) \/ Decline(p) \/ Renew(p) \/ Halt(p)
  \/ \E c \in Calls : StartTrial(c) \/ Step(c) \/ Crash(c)
  \/ \E c \in Calls, p \in Payments : Verify(c, p)
  \/ \E c \in Calls, e \in Events : Claim(c, e)
  \/ \E e \in Events : Refuse(e) \/ LeaseEnds(e)

SubSpec == SubInit /\ [][SubNext]_vars

(* Handlers go on unless they crash, leases end, and Razorpay delivers again  *)
(* what was not answered.                                                     *)
FairSubSpec ==
  /\ SubSpec
  /\ \A c \in Calls : WF_vars(Step(c))
  /\ \A e \in Events : WF_vars(LeaseEnds(e)) /\ SF_vars(\E c \in Calls : Claim(c, e))

-----------------------------------------------------------------------------
(* The restaurant has a paid subscription only by a payment that Razorpay     *)
(* has: no failed, foreign or forgotten payment activates it, whichever       *)
(* handlers overlap, crash or fail (activateSubscriptionInFirestore).         *)
ActiveIsBought == sub.status = "active" => sub.paid \in Payments /\ charge[sub.paid] \in Bought

(* claimWebhookEventIdempotently: only one worker can claim and process an    *)
(* event, and a lease that ran out is not one of a worker still at it.        *)
OneWorkerPerEvent ==
  \A c, d \in Calls : work[c].e # NoEvent /\ work[c].e = work[d].e => c = d

(* An event that was processed or ignored is never taken up again.            *)
EventIsFinal ==
  [][\A e \in Events : event[e].status \in Final => event'[e].status = event[e].status]_vars

(* The trial is given once: a restaurant that has a document keeps the end of *)
(* its trial and never goes back to it, whatever is paid, renewed, cancelled. *)
TrialOnlyOnce ==
  [][sub.status # "none" =>
       /\ sub'.trialEnd = sub.trialEnd
       /\ sub'.status = "trial" => sub.status = "trial"]_vars

(* A payment activates once: one record in the history, though the browser's  *)
(* verification and two webhooks report it.                                   *)
ActivatedOnce ==
  \A i, j \in DOMAIN history : history[i].type = "activated" /\ history[i] = history[j] => i = j

(* A captured payment becomes a subscription though the browser that paid is  *)
(* gone and handlers crash: the webhooks and their lease see to it.           *)
PaidIsActivated ==
  \A p \in Payments : <>(charge[p] = "captured") => <>(sub.status = "active" /\ sub.paid = p)
=============================================================================
