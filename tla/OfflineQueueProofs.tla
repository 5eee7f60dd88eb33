------------------------ MODULE OfflineQueueProofs ------------------------
(* For any number of tabs, items, retries and faults: a payment or a seating  *)
(* is carried out at most once, and what a browser reports as completed has   *)
(* been carried out.  A tab tries its items for the first time in the order   *)
(* they were queued in.  In a browser with one tab, what was queued stays on  *)
(* the shelf until it is reported, and what is shown as syncing is being sent *)
(* unless the tab was closed on it.                                           *)
EXTENDS OfflineQueue, FiniteSetTheorems, WellFoundedInduction, TLAPS

Keyed == Payments \union Seatings

(* A keyed operation that took effect left a record, and a completed record   *)
(* stands for an effect.                                                      *)
KeyGuards ==
  /\ done \in [Items -> 0..2]
  /\ record \in [Items -> RecordStates]
  /\ \A i \in Keyed : /\ done[i] <= 1
                      /\ done[i] = 1 => record[i] # "none"
                      /\ record[i] = "completed" => done[i] = 1

(* A success the loop waits for has happened.                                 *)
SuccessHappened ==
  \A t \in Tabs :
    (sending[t].at = "answer" /\ sending[t].res = "ok" /\ sending[t].item \in Keyed \union Leased)
      => done[sending[t].item] >= 1

(* Only leased operations acquire their key first.                            *)
OnlyLeasedAcquire ==
  \A t \in Tabs : /\ sending[t].at = "acquire" => sending[t].item \in Leased
                  /\ tapped[t].at = "acquire" => tapped[t].item \in Leased

(* The memory of a tab has its fields, and an item in it has a known status.  *)
Statused(b) ==
  /\ DOMAIN b = {"open", "queue", "obj", "waiting", "busy", "left", "barred", "live"}
  /\ b.obj \in [Items -> Obj]

-----------------------------------------------------------------------------
LEMMA KeyedIsNotLeased == Keyed \subseteq Items /\ Keyed \intersect Leased = {}
BY ItemSetsAreDisjoint DEF Keyed

(* An operation of a service keeps the guard of its key.                      *)
LEMMA ActKeepsGuard ==
  ASSUME KeyGuards, NEW i, NEW after, Act(i, after) PROVE KeyGuards'
<1>1. CASE i \in Leased
  <2>1. ActLeased(i, after) /\ i \notin Keyed
    BY <1>1, KeyedIsNotLeased DEF Act
  <2>2. done' \in [Items -> 0..2] /\ \A j \in Items \ {i} : done'[j] = done[j]
    BY <2>1 DEF ActLeased, Once, KeyGuards
  <2>3. record' \in [Items -> RecordStates] /\ \A j \in Items \ {i} : record'[j] = record[j]
    BY <2>1 DEF ActLeased, KeyGuards, RecordStates, Errors
  <2> QED BY <2>1, <2>2, <2>3, KeyedIsNotLeased DEF KeyGuards
<1>2. CASE i \notin Leased /\ i \in Keyed
  <2>1. ActAtomic(i, after)
    BY <1>2 DEF Act, Keyed
  <2>2. done' \in [Items -> 0..2] /\ \A j \in Items \ {i} : done'[j] = done[j]
    BY <2>1 DEF ActAtomic, Once, KeyGuards
  <2>3. record' \in [Items -> RecordStates] /\ \A j \in Items \ {i} : record'[j] = record[j]
    BY <2>1 DEF ActAtomic, AfterLostAnswer, KeyGuards, RecordStates, Errors
  <2>4. /\ done'[i] <= 1
        /\ done'[i] = 1 => record'[i] # "none"
        /\ record'[i] = "completed" => done'[i] = 1
    BY <1>2, <2>1 DEF ActAtomic, AfterLostAnswer, KeyUnused, Once, KeyGuards, Errors, RecordStates
  <2> QED BY <2>2, <2>3, <2>4, KeyedIsNotLeased DEF KeyGuards
<1>3. CASE i \notin Leased /\ i \notin Keyed
  <2>1. ActPlain(i, after)
    BY <1>3 DEF Act, Keyed
  <2>2. done' \in [Items -> 0..2] /\ \A j \in Items \ {i} : done'[j] = done[j]
    BY <2>1 DEF ActPlain, Once, KeyGuards
  <2> QED BY <1>3, <2>1, <2>2, KeyedIsNotLeased DEF ActPlain, KeyGuards
<1> QED BY <1>1, <1>2, <1>3

(* A success is only answered for what was done.                              *)
LEMMA SuccessIsDone ==
  ASSUME KeyGuards, NEW i \in Keyed \union Leased, NEW after, Act(i, after), after.res = "ok"
  PROVE  done'[i] >= 1
<1>0. i \in Items
  BY ItemSetsAreDisjoint DEF Keyed
<1>1. \A e \in Errors : Reply(i, e).res # "ok"
  BY DEF Reply, Errors
<1>2. CASE i \in Leased
  BY <1>0, <1>1, <1>2 DEF Act, ActLeased, Once, KeyGuards
<1>3. CASE i \notin Leased
  <2>1. i \in Keyed /\ ActAtomic(i, after)
    BY <1>3 DEF Act, Keyed
  <2> QED BY <1>0, <1>1, <2>1 DEF ActAtomic, KeyUnused, Once, KeyGuards, Reply, Errors
<1> QED BY <1>2, <1>3

LEMMA EffectsStay ==
  ASSUME KeyGuards, NEW i, NEW after, Act(i, after)
  PROVE  \A j \in Items : done'[j] >= done[j]
BY DEF Act, ActLeased, ActAtomic, ActPlain, Once, KeyGuards

LEMMA AcquireKeepsGuard ==
  ASSUME KeyGuards, NEW i \in Leased, NEW after, Acquire(i, after), UNCHANGED done
  PROVE  KeyGuards'
<1>1. i \notin Keyed
  BY KeyedIsNotLeased
<1>2. record' \in [Items -> RecordStates] /\ \A j \in Items \ {i} : record'[j] = record[j]
  BY DEF Acquire, KeyGuards, RecordStates, Errors
<1> QED BY <1>1, <1>2, KeyedIsNotLeased DEF KeyGuards

-----------------------------------------------------------------------------
Known ==
  /\ DOMAIN sending = Tabs /\ DOMAIN tapped = Tabs /\ DOMAIN tab = Tabs
  /\ OnlyLeasedAcquire

LEMMA BeginLeased ==
  ASSUME NEW i PROVE /\ BeginOrRest(i).at = "acquire" => BeginOrRest(i).item \in Leased
                     /\ Begin(i).at = "acquire" => Begin(i).item \in Leased
                     /\ BeginOrRest(i).at # "answer" /\ Begin(i).at # "answer"
BY DEF BeginOrRest, Begin, NoCall

LEMMA OutcomeNotAcquire == ASSUME NEW i, NEW o \in Outcomes(i) PROVE o.at # "acquire"
BY DEF Outcomes, Reply

(* Every step that is no answer of the service starts calls from the start.   *)
LEMMA KnownStep == ASSUME Known, [OQNext]_queueVars PROVE Known'
<1> USE DEF Known, OnlyLeasedAcquire
<1>1. ASSUME NEW t \in Tabs, NEW b, SaveAndProcess(t, b) \/ RunOn(t, b), UNCHANGED tapped
      PROVE  Known'
  BY <1>1, BeginLeased DEF SaveAndProcess, RunOn
<1>2. ASSUME NEW t \in Tabs, NEW b, SaveAndProcess(t, b), tapped' = [tapped EXCEPT ![t] = NoCall]
      PROVE  Known'
  BY <1>2, BeginLeased DEF SaveAndProcess, RunOn, NoCall
<1>3. ASSUME UNCHANGED <<sending, tapped>>, DOMAIN tab' = DOMAIN tab PROVE Known'
  BY <1>3
<1>4. ASSUME NEW t \in Tabs, OpenTab(t) PROVE Known'
  BY <1>1, <1>3, <1>4 DEF OpenTab
<1>5. ASSUME NEW t \in Tabs, CloseTab(t) PROVE Known'
  BY <1>5 DEF CloseTab, NoCall
<1>6. ASSUME NEW t \in Tabs, NEW i \in Items,
             Enqueue(t, i) \/ RetryItem(t, i) \/ ResolveConflict(t, i) \/ BackoffEnds(t, i)
      PROVE  Known'
  BY <1>1, <1>3, <1>6 DEF Enqueue, Put, RetryItem, ResolveConflict, BackoffEnds
<1>7. ASSUME NEW t \in Tabs, NEW i \in Items, Tap(t, i) PROVE Known'
  BY <1>7, BeginLeased DEF Tap
<1>8. ASSUME NEW t \in Tabs, TapAnswered(t) PROVE Known'
  BY <1>2, <1>8 DEF TapAnswered, Put, NoCall
<1>9. ASSUME NEW t \in Tabs, ServeLoop(t) \/ ServeTap(t) PROVE Known'
  BY <1>9, OutcomeNotAcquire DEF ServeLoop, ServeTap
<1>10. CASE GoOffline
  BY <1>10 DEF GoOffline
<1>11. CASE GoOnline
  BY <1>11, BeginLeased DEF GoOnline
<1>12. CASE UNCHANGED queueVars
  BY <1>12 DEF queueVars
<1>13. ASSUME NEW t \in Tabs, ClearCompleted(t) \/ SyncNow(t) \/ Answered(t) PROVE Known'
  BY <1>1, <1>3, <1>13 DEF ClearCompleted, SyncNow, Answered
<1> QED BY <1>4, <1>5, <1>6, <1>7, <1>8, <1>9, <1>10, <1>11, <1>12, <1>13 DEF OQNext

(* Only the services write records and take effect.                           *)
LEMMA OthersDoNothing ==
  ASSUME [OQNext]_queueVars, \A t \in Tabs : ~ServeLoop(t) /\ ~ServeTap(t)
  PROVE  UNCHANGED <<done, record>>
<1>1. CASE GoOffline \/ GoOnline \/ UNCHANGED queueVars
  BY <1>1 DEF GoOffline, GoOnline, queueVars
<1>2. ASSUME NEW t \in Tabs, OpenTab(t) \/ CloseTab(t) \/ ClearCompleted(t) \/ SyncNow(t)
      PROVE  UNCHANGED <<done, record>>
  BY <1>2 DEF OpenTab, CloseTab, ClearCompleted, SyncNow
<1>3. ASSUME NEW t \in Tabs, Answered(t) \/ TapAnswered(t) PROVE UNCHANGED <<done, record>>
  BY <1>3 DEF Answered, TapAnswered
<1>4. ASSUME NEW t \in Tabs, NEW i \in Items,
             Enqueue(t, i) \/ Tap(t, i) \/ ResolveConflict(t, i) \/ RetryItem(t, i) \/ BackoffEnds(t, i)
      PROVE  UNCHANGED <<done, record>>
  BY <1>4 DEF Enqueue, Tap, ResolveConflict, RetryItem, BackoffEnds
<1> QED BY <1>1, <1>2, <1>3, <1>4 DEF OQNext

LEMMA ServeKeepsGuard ==
  ASSUME KeyGuards, NEW call, NEW after, Serve(call, after),
         call.at = "acquire" => call.item \in Leased
  PROVE  KeyGuards' /\ \A j \in Items : done'[j] >= done[j]
<1>1. CASE call.at = "acquire" /\ Acquire(call.item, after) /\ UNCHANGED done
  BY <1>1, AcquireKeepsGuard DEF KeyGuards
<1>2. CASE call.at = "act" /\ Act(call.item, after)
  BY <1>2, ActKeepsGuard, EffectsStay
<1> QED BY <1>1, <1>2 DEF Serve

LEMMA GuardStep ==
  ASSUME Known, KeyGuards, [OQNext]_queueVars
  PROVE  KeyGuards' /\ \A j \in Items : done'[j] >= done[j]
<1>1. ASSUME NEW t \in Tabs, ServeLoop(t) \/ ServeTap(t)
      PROVE  KeyGuards' /\ \A j \in Items : done'[j] >= done[j]
  BY <1>1, ServeKeepsGuard DEF ServeLoop, ServeTap, Known, OnlyLeasedAcquire
<1>2. CASE \A t \in Tabs : ~ServeLoop(t) /\ ~ServeTap(t)
  BY <1>2, OthersDoNothing DEF KeyGuards
<1> QED BY <1>1, <1>2

LEMMA InitGuards == OQInit => Known /\ KeyGuards
<1> SUFFICES ASSUME OQInit PROVE Known /\ KeyGuards
  OBVIOUS
<1>1. Known
  BY DEF OQInit, Known, OnlyLeasedAcquire, NoCall
<1>2. KeyGuards
  BY KeyedIsNotLeased DEF OQInit, KeyGuards, RecordStates, Errors
<1> QED BY <1>1, <1>2

LEMMA GuardInvariant == OQSpec => [](Known /\ KeyGuards)
<1>1. Known /\ KeyGuards /\ [OQNext]_queueVars => (Known /\ KeyGuards)'
  BY KnownStep, GuardStep
<1> QED BY <1>1, InitGuards, PTL DEF OQSpec

(* In however many tabs and however often it is retried, a queued payment or  *)
(* seating takes effect at most once.                                         *)
THEOREM KeyedItemsActOnce == OQSpec => []KeyedActsOnce
<1>1. KeyGuards => KeyedActsOnce
  BY DEF KeyGuards, KeyedActsOnce, Keyed
<1> QED BY <1>1, GuardInvariant, PTL

-----------------------------------------------------------------------------
(* What the loop does to the memory of a tab keeps its fields and statuses.   *)
LEMMA ClosedIsStatused == Statused(ClosedTab)
BY DEF Statused, ClosedTab, NewObj, Obj, Statuses

LEMMA EnteredIsStatused == ASSUME NEW b, Statused(b) PROVE Statused(Entered(b))
BY DEF Statused, Entered

LEMMA WalkIsStatused == ASSUME NEW b, Statused(b) PROVE Statused(Walk(b))
<1>1. CASE NextUp(b) = {}
  BY <1>1 DEF Statused, Walk
<1>2. CASE NextUp(b) # {}
  <2>1. PICK n : Walk(b) = [b EXCEPT !.obj[b.left[n]].st = "syncing",
                                     !.left = SubSeq(b.left, n + 1, Len(b.left))]
    BY <1>2 DEF Walk
  <2>2. \A i \in Items : [b.obj[i] EXCEPT !.st = "syncing"] \in Obj
    BY DEF Statused, Obj, Statuses
  <2>3. [b.obj EXCEPT ![b.left[n]].st = "syncing"] \in [Items -> Obj]
    BY <2>2 DEF Statused
  <2> QED BY <2>1, <2>3 DEF Statused
<1> QED BY <1>1, <1>2

LEMMA PushedIsStatused == ASSUME NEW b, NEW i, Statused(b) PROVE Statused(Pushed(b, i))
BY DEF Statused, Pushed, NewObj, Obj, Statuses

LEMMA StatusAfterKnown ==
  ASSUME NEW r, NEW n PROVE StatusAfter(r, n) \in Statuses \ {"completed"}
BY DEF StatusAfter, Statuses

LEMMA AnswerIsStatused ==
  ASSUME NEW b, NEW i, NEW r, Statused(b)
  PROVE  /\ Statused(AfterAnswer(b, i, r))
         /\ i \in Items /\ r # "ok" => AfterAnswer(b, i, r).obj[i].st # "completed"
<1>1. CASE r = "ok"
  <2>1. \A j \in Items : [b.obj[j] EXCEPT !.st = "completed"] \in Obj
    BY DEF Statused, Obj, Statuses
  <2>2. [b.obj EXCEPT ![i].st = "completed"] \in [Items -> Obj]
    BY <2>1 DEF Statused
  <2> QED BY <1>1, <2>2 DEF Statused, AfterAnswer
<1>2. CASE r # "ok"
  <2> DEFINE n == b.obj[i].tries + 1
             o == [b.obj EXCEPT ![i] = [st |-> StatusAfter(r, n), tries |-> n]]
  <2>1. i \in Items => n \in Nat
    BY DEF Statused, Obj
  <2>2. i \in Items => [st |-> StatusAfter(r, n), tries |-> n] \in Obj
    BY <2>1, StatusAfterKnown DEF Obj
  <2>3. o \in [Items -> Obj] /\ (i \in Items => o[i].st # "completed")
    BY <2>2, StatusAfterKnown DEF Statused
  <2>4. /\ AfterAnswer(b, i, r).obj = o
        /\ DOMAIN AfterAnswer(b, i, r) = DOMAIN b
    BY <1>2 DEF AfterAnswer, Statused
  <2> QED BY <2>3, <2>4, <1>2 DEF Statused
<1> QED BY <1>1, <1>2

LEMMA SavedIsStatused == ASSUME NEW b, Statused(b) PROVE Saved(b).obj \in [Items -> Obj]
BY DEF Statused, Saved, NewObj, Obj, Statuses

AllStatused == (\A t \in Tabs : Statused(tab[t])) /\ shelf.obj \in [Items -> Obj]

(* Memories and shelf keep known statuses in every step.                      *)
LEMMA StatusedStep ==
  ASSUME Known, AllStatused, [OQNext]_queueVars PROVE AllStatused'
<1>1. ASSUME NEW t \in Tabs, NEW b, Statused(b), SaveAndProcess(t, b) \/ RunOn(t, b)
      PROVE  AllStatused'
  <2>1. Statused(Walk(b)) /\ Statused(Walk(Entered(b)))
    BY <1>1, WalkIsStatused, EnteredIsStatused
  <2>2. \E c : Statused(c) /\ tab' = [tab EXCEPT ![t] = c] /\ shelf' = Saved(c)
    BY <1>1, <2>1 DEF SaveAndProcess, RunOn
  <2> QED BY <2>2, SavedIsStatused DEF AllStatused, Known
<1>2. ASSUME NEW t \in Tabs, NEW b, Statused(b), tab' = [tab EXCEPT ![t] = b],
             shelf' = Saved(b) \/ UNCHANGED shelf
      PROVE  AllStatused'
  BY <1>2, SavedIsStatused DEF AllStatused, Known
<1>3. ASSUME NEW t \in Tabs, NEW i \in Items, Put(t, i) PROVE AllStatused'
  BY <1>1, <1>3, PushedIsStatused DEF Put, AllStatused
<1>4. ASSUME NEW t \in Tabs, OpenTab(t) PROVE AllStatused'
  <2>1. PICK w : LET b == [ClosedTab EXCEPT !.open = TRUE, !.queue = shelf.order,
                                            !.obj = shelf.obj, !.waiting = w]
                 IN  RunOn(t, Entered(b)) \/ (tab' = [tab EXCEPT ![t] = b] /\ UNCHANGED shelf)
    BY <1>4 DEF OpenTab
  <2>2. Statused([ClosedTab EXCEPT !.open = TRUE, !.queue = shelf.order,
                                   !.obj = shelf.obj, !.waiting = w])
    BY DEF ClosedTab, Statused, AllStatused
  <2> QED BY <1>1, <1>2, <2>1, <2>2, EnteredIsStatused
<1>5. ASSUME NEW t \in Tabs, CloseTab(t) PROVE AllStatused'
  BY <1>2, <1>5, ClosedIsStatused DEF CloseTab
<1>6. ASSUME NEW t \in Tabs, NEW i \in Items, Enqueue(t, i) PROVE AllStatused'
  BY <1>3, <1>6 DEF Enqueue
<1>7. ASSUME NEW t \in Tabs, NEW i \in Items, RetryItem(t, i) PROVE AllStatused'
  <2>1. Statused([tab[t] EXCEPT !.obj[i] = NewObj, !.waiting = @ \ {i}])
    BY DEF AllStatused, Statused, NewObj, Obj, Statuses
  <2> QED BY <1>1, <1>7, <2>1 DEF RetryItem
<1>8. ASSUME NEW t \in Tabs, NEW i \in Items, ResolveConflict(t, i) PROVE AllStatused'
  <2>1. [tab[t].obj[i] EXCEPT !.st = "completed"] \in Obj
    BY DEF AllStatused, Statused, Obj, Statuses
  <2>2. Statused([tab[t] EXCEPT !.obj[i].st = "completed"])
    BY <2>1 DEF AllStatused, Statused
  <2> QED BY <1>2, <1>8, <2>2 DEF ResolveConflict
<1>9. ASSUME NEW t \in Tabs, NEW i, BackoffEnds(t, i) PROVE AllStatused'
  <2>1. Statused([tab[t] EXCEPT !.waiting = @ \ {i}])
    BY DEF AllStatused, Statused
  <2> QED BY <1>2, <1>9, <2>1 DEF BackoffEnds
<1>10. ASSUME NEW t \in Tabs, ClearCompleted(t) PROVE AllStatused'
  <2>1. PICK q : LET b == [tab[t] EXCEPT !.queue = q, !.live = FALSE]
                 IN  tab' = [tab EXCEPT ![t] = b] /\ shelf' = Saved(b)
    BY <1>10 DEF ClearCompleted
  <2>2. Statused([tab[t] EXCEPT !.queue = q, !.live = FALSE])
    BY DEF AllStatused, Statused
  <2> QED BY <1>2, <2>1, <2>2
<1>11. ASSUME NEW t \in Tabs, SyncNow(t) PROVE AllStatused'
  BY <1>1, <1>11, EnteredIsStatused DEF SyncNow, AllStatused
<1>12. ASSUME NEW t \in Tabs, Answered(t) PROVE AllStatused'
  BY <1>1, <1>12, AnswerIsStatused DEF Answered, AllStatused
<1>13. ASSUME NEW t \in Tabs, TapAnswered(t) PROVE AllStatused'
  <2>1. CASE Put(t, tapped[t].item)
    BY <1>1, <2>1, PushedIsStatused DEF Put, AllStatused
  <2>2. CASE UNCHANGED <<tab, shelf>>
    BY <2>2 DEF AllStatused
  <2> QED BY <1>13, <2>1, <2>2 DEF TapAnswered
<1>14. CASE GoOnline
  <2>1. \A t \in Tabs : Statused(Walk(Entered(tab[t])))
    BY WalkIsStatused, EnteredIsStatused DEF AllStatused
  <2>2. \A t \in Tabs : Statused(tab'[t])
    BY <1>14, <2>1 DEF GoOnline, AllStatused
  <2>3. shelf' = shelf \/ \E t \in Tabs : shelf' = Saved(Walk(Entered(tab[t])))
    BY <1>14 DEF GoOnline
  <2> QED BY <2>1, <2>2, <2>3, SavedIsStatused DEF AllStatused
<1>15. ASSUME UNCHANGED <<tab, shelf>> PROVE AllStatused'
  BY <1>15 DEF AllStatused
<1>16. ASSUME NEW t \in Tabs, NEW i \in Items, Tap(t, i) PROVE UNCHANGED <<tab, shelf>>
  BY <1>16 DEF Tap
<1>17. ASSUME NEW t \in Tabs, ServeLoop(t) \/ ServeTap(t) PROVE UNCHANGED <<tab, shelf>>
  BY <1>17 DEF ServeLoop, ServeTap
<1>18. CASE GoOffline \/ UNCHANGED queueVars
  BY <1>15, <1>18 DEF GoOffline, queueVars
<1> QED BY <1>4, <1>5, <1>6, <1>7, <1>8, <1>9, <1>10, <1>11, <1>12, <1>13, <1>14, <1>15, <1>16,
           <1>17, <1>18 DEF OQNext

-----------------------------------------------------------------------------
Lockable == Keyed \union Leased

ReportedHappened ==
  /\ DOMAIN fate = Items
  /\ \A i \in Lockable : fate[i] = "sent" => done[i] >= 1

DoneInv == Known /\ KeyGuards /\ AllStatused /\ SuccessHappened /\ ReportedHappened

(* A success the loop waits for was answered by the service, and effects stay.*)
LEMMA SuccessStep ==
  ASSUME Known, KeyGuards, SuccessHappened, [OQNext]_queueVars PROVE SuccessHappened'
<1> USE DEF Known
<1>a. Lockable \subseteq Items /\ \A j \in Items : done'[j] >= done[j]
  BY GuardStep, ItemSetsAreDisjoint DEF Lockable, Keyed
<1>b. \A j \in Items : done[j] \in Nat /\ done'[j] \in Nat
  BY GuardStep DEF KeyGuards
<1>1. ASSUME \A t \in Tabs : sending'[t] = sending[t] \/ sending'[t].at # "answer"
      PROVE  SuccessHappened'
  BY <1>a, <1>b, <1>1 DEF SuccessHappened, Lockable
<1>2. ASSUME NEW t \in Tabs, NEW b,
             SaveAndProcess(t, b) \/ RunOn(t, b)
      PROVE  SuccessHappened'
  BY <1>1, <1>2, BeginLeased DEF SaveAndProcess, RunOn
<1>3. ASSUME NEW t \in Tabs, ServeLoop(t) PROVE SuccessHappened'
  <2>1. PICK after \in Outcomes(sending[t].item) :
          Serve(sending[t], after) /\ sending' = [sending EXCEPT ![t] = after]
    BY <1>3 DEF ServeLoop
  <2>2. after.item = sending[t].item /\ (after.at = "answer" \/ after.at = "act")
    BY DEF Outcomes, Reply
  <2>3. CASE Act(sending[t].item, after)
    BY <1>a, <1>b, <2>1, <2>2, <2>3, SuccessIsDone DEF SuccessHappened, Lockable
  <2>4. CASE Acquire(sending[t].item, after)
    <3>1. after.at = "answer" => after.res # "ok"
      BY <2>4 DEF Acquire, Reply, Errors
    <3> QED BY <1>a, <1>b, <2>1, <2>2, <3>1 DEF SuccessHappened, Lockable
  <2> QED BY <2>1, <2>3, <2>4 DEF Serve
<1>4. ASSUME NEW t \in Tabs, OpenTab(t) \/ CloseTab(t) \/ ClearCompleted(t) PROVE SuccessHappened'
  <2>1. CASE OpenTab(t)
    BY <1>1, <1>2, <2>1 DEF OpenTab
  <2>2. CASE CloseTab(t)
    BY <1>1, <2>2 DEF CloseTab, NoCall
  <2>3. CASE ClearCompleted(t)
    BY <1>1, <2>3 DEF ClearCompleted
  <2> QED BY <1>4, <2>1, <2>2, <2>3
<1>5. ASSUME NEW t \in Tabs, SyncNow(t) \/ Answered(t) \/ TapAnswered(t) PROVE SuccessHappened'
  BY <1>1, <1>2, <1>5 DEF SyncNow, Answered, TapAnswered, Put
<1>6. ASSUME NEW t \in Tabs, NEW i \in Items, Enqueue(t, i) \/ RetryItem(t, i) PROVE SuccessHappened'
  BY <1>2, <1>6 DEF Enqueue, RetryItem, Put
<1>7. ASSUME NEW t \in Tabs, NEW i \in Items,
             Tap(t, i) \/ ResolveConflict(t, i) \/ BackoffEnds(t, i)
      PROVE  UNCHANGED sending
  BY <1>7 DEF Tap, ResolveConflict, BackoffEnds
<1>8. ASSUME NEW t \in Tabs, ServeTap(t) PROVE UNCHANGED sending
  BY <1>8 DEF ServeTap
<1>9. CASE GoOffline \/ GoOnline \/ UNCHANGED queueVars
  BY <1>1, <1>9, BeginLeased DEF GoOffline, GoOnline, queueVars
<1> QED BY <1>1, <1>3, <1>4, <1>5, <1>6, <1>7, <1>8, <1>9 DEF OQNext

(* An item is reported completed only on the answer of its service.           *)
LEMMA ReportStep ==
  ASSUME DoneInv, [OQNext]_queueVars PROVE ReportedHappened'
<1> USE DEF DoneInv, ReportedHappened
<1>a. Lockable \subseteq Items /\ \A j \in Items : done'[j] >= done[j]
  BY GuardStep, ItemSetsAreDisjoint DEF Lockable, Keyed
<1>b. \A j \in Items : done[j] \in Nat /\ done'[j] \in Nat
  BY GuardStep DEF KeyGuards
<1>1. ASSUME UNCHANGED fate PROVE ReportedHappened'
  BY <1>a, <1>b, <1>1
<1>2. ASSUME NEW t \in Tabs, Answered(t) PROVE ReportedHappened'
  <2>1. PICK i, r : /\ i = sending[t].item /\ r = sending[t].res /\ sending[t].at = "answer"
                    /\ fate' = IF AfterAnswer(tab[t], i, r).obj[i].st = "completed"
                               THEN [fate EXCEPT ![i] = "sent"] ELSE fate
    BY <1>2 DEF Answered
  <2>2. CASE UNCHANGED fate
    BY <1>1, <2>2
  <2>3. CASE fate' = [fate EXCEPT ![i] = "sent"] /\ (i \in Items => r = "ok")
    BY <1>a, <1>b, <2>1, <2>3 DEF SuccessHappened, Lockable
  <2>4. i \in Items /\ r # "ok" => UNCHANGED fate
    BY <2>1, AnswerIsStatused DEF AllStatused
  <2> QED BY <2>1, <2>2, <2>3, <2>4
<1>3. ASSUME NEW t \in Tabs, NEW i \in Items, ResolveConflict(t, i) PROVE ReportedHappened'
  BY <1>a, <1>b, <1>3 DEF ResolveConflict
<1>4. ASSUME NEW t \in Tabs, \/ OpenTab(t) \/ CloseTab(t) \/ ClearCompleted(t) \/ SyncNow(t)
                           \/ ServeLoop(t) \/ ServeTap(t) \/ TapAnswered(t)
      PROVE  UNCHANGED fate
  BY <1>4 DEF OpenTab, CloseTab, ClearCompleted, SyncNow, ServeLoop, ServeTap, TapAnswered, histVars
<1>5. ASSUME NEW t \in Tabs, NEW i \in Items,
             Enqueue(t, i) \/ Tap(t, i) \/ RetryItem(t, i) \/ BackoffEnds(t, i)
      PROVE  UNCHANGED fate
  BY <1>5 DEF Enqueue, Tap, RetryItem, BackoffEnds, histVars
<1>6. CASE GoOffline \/ GoOnline \/ UNCHANGED queueVars
  BY <1>1, <1>6 DEF GoOffline, GoOnline, histVars, queueVars
<1> QED BY <1>1, <1>2, <1>3, <1>4, <1>5, <1>6 DEF OQNext

LEMMA InitDone == OQInit => DoneInv
<1> SUFFICES ASSUME OQInit PROVE DoneInv
  OBVIOUS
<1>1. AllStatused
  BY ClosedIsStatused, SavedIsStatused DEF OQInit, AllStatused
<1>2. SuccessHappened /\ ReportedHappened
  BY ItemSetsAreDisjoint DEF OQInit, SuccessHappened, ReportedHappened, NoCall, Lockable, Keyed
<1> QED BY <1>1, <1>2, InitGuards DEF DoneInv

(* Whatever is lost, retried or reloaded, in any number of tabs: an item with *)
(* a key that the queue reports completed has been carried out.               *)
THEOREM CompletedItemsWereDone == OQSpec => []CompletedWasDone
<1>1. DoneInv /\ [OQNext]_queueVars => DoneInv'
  BY KnownStep, GuardStep, StatusedStep, SuccessStep, ReportStep DEF DoneInv
<1>2. DoneInv => CompletedWasDone
  BY DEF DoneInv, ReportedHappened, CompletedWasDone, Lockable, Keyed
<1> QED BY <1>1, <1>2, InitDone, PTL DEF OQSpec

-----------------------------------------------------------------------------
(* What a filter leaves.  The steps of its recursion are counted, and every   *)
(* nonempty set of numbers has a least one: there is no first step at which   *)
(* the filter could go wrong.                                                 *)
LEMMA LeastNumber ==
  ASSUME NEW T \in SUBSET Nat, T # {} PROVE \E n \in T : \A m \in T : n <= m
<1> DEFINE R == OpToRel(<, Nat)
<1>1. IsWellFoundedOn(R, Nat)
  BY NatLessThanWellFounded
<1>2. T \subseteq Nat
  OBVIOUS
<1> HIDE DEF R
<1>3. PICK n \in T : \A m \in T : ~(<<m, n>> \in R)
  BY <1>1, <1>2, WFMin
<1> USE DEF R
<1>4. \A m \in T : ~(m < n)
  BY <1>3 DEF OpToRel
<1> QED BY <1>4

(* F is the recursion of Only up to the n-th member of s.                     *)
Filters(s, K, F, n) ==
  F = [m \in 0..n |-> IF m = 0 THEN << >>
                      ELSE IF s[m] \in K THEN Append(F[m - 1], s[m]) ELSE F[m - 1]]

LEMMA FilterGoesOn ==
  ASSUME NEW s, NEW K, NEW m \in Nat, m # 0, NEW F, Filters(s, K, F, m - 1)
  PROVE  \E G : Filters(s, K, G, m)
<1> DEFINE Last == IF s[m] \in K THEN Append(F[m - 1], s[m]) ELSE F[m - 1]
           G == [k \in 0..m |-> IF k < m THEN F[k] ELSE Last]
<1>1. F = [k \in 0..(m - 1) |-> IF k = 0 THEN << >>
                      ELSE IF s[k] \in K THEN Append(F[k - 1], s[k]) ELSE F[k - 1]]
  BY DEF Filters
<1>2. \A k \in 0..(m - 1) : F[k] = IF k = 0 THEN << >>
                      ELSE IF s[k] \in K THEN Append(F[k - 1], s[k]) ELSE F[k - 1]
  BY <1>1
<1>3. G[m] = Last /\ \A k \in 0..(m - 1) : G[k] = F[k]
  OBVIOUS
<1>4. ASSUME NEW k \in 0..m
      PROVE  G[k] = IF k = 0 THEN << >>
                    ELSE IF s[k] \in K THEN Append(G[k - 1], s[k]) ELSE G[k - 1]
  <2> HIDE DEF G
  <2>1. CASE k = m
    <3>1. G[k - 1] = F[m - 1]
      BY <2>1, <1>3
    <3> QED BY <2>1, <3>1, <1>3
  <2>2. CASE k # m /\ k = 0
    BY <2>2, <1>2, <1>3
  <2>3. CASE k # m /\ k # 0
    <3>1. k \in 0..(m - 1) /\ k - 1 \in 0..(m - 1)
      BY <2>3
    <3>2. G[k - 1] = F[k - 1] /\ G[k] = F[k]
      BY <3>1, <1>3
    <3> QED BY <3>1, <3>2, <2>3, <1>2
  <2> QED BY <2>1, <2>2, <2>3
<1>5. DOMAIN G = 0..m /\ G = [k \in 0..m |-> G[k]]
  OBVIOUS
<1>6. Filters(s, K, G, m)
  <2> HIDE DEF G
  <2> QED BY <1>4, <1>5 DEF Filters
<1> QED BY <1>6

LEMMA FilterExists == ASSUME NEW s, NEW K, NEW n \in Nat PROVE \E F : Filters(s, K, F, n)
<1> DEFINE Bad == {m \in Nat : ~\E F : Filters(s, K, F, m)}
<1>1. SUFFICES ASSUME n \in Bad PROVE FALSE
  OBVIOUS
<1>2. PICK m \in Bad : \A k \in Bad : m <= k
  <2>1. Bad \in SUBSET Nat
    OBVIOUS
  <2> HIDE DEF Bad
  <2> QED BY <1>1, <2>1, LeastNumber
<1>3. m # 0
  <2>1. Filters(s, K, [k \in 0..0 |-> << >>], 0)
    BY DEF Filters
  <2> QED BY <2>1
<1>4. m - 1 \in Nat /\ m - 1 \notin Bad
  BY <1>2, <1>3
<1>5. PICK F : Filters(s, K, F, m - 1)
  BY <1>4
<1>6. m \in Nat /\ ~\E G : Filters(s, K, G, m)
  OBVIOUS
<1> QED BY <1>3, <1>5, <1>6, FilterGoesOn

LEMMA OnlyIsFilter ==
  ASSUME NEW S, NEW s \in Seq(S), NEW K
  PROVE  \E F : Filters(s, K, F, Len(s)) /\ Only(s, K) = F[Len(s)]
<1>1. Only(s, K) = (CHOOSE F : Filters(s, K, F, Len(s)))[Len(s)]
  BY DEF Only, Filters
<1>2. \E F : Filters(s, K, F, Len(s))
  <2>1. Len(s) \in Nat
    OBVIOUS
  <2> QED BY <2>1, FilterExists
<1>3. Filters(s, K, CHOOSE F : Filters(s, K, F, Len(s)), Len(s))
  BY <1>2
<1> QED BY <1>1, <1>3

LEMMA AppendMembers ==
  ASSUME NEW S, NEW q \in Seq(S), NEW x \in S
  PROVE  Append(q, x) \in Seq(S) /\ Members(Append(q, x)) = Members(q) \union {x}
<1>1. DOMAIN Append(q, x) = DOMAIN q \union {Len(q) + 1}
  OBVIOUS
<1>2. \A k \in DOMAIN q : Append(q, x)[k] = q[k]
  OBVIOUS
<1>3. Append(q, x)[Len(q) + 1] = x
  OBVIOUS
<1> QED BY <1>1, <1>2, <1>3 DEF Members

LEMMA OnlyKeeps ==
  ASSUME NEW S, NEW s \in Seq(S), NEW K
  PROVE  Only(s, K) \in Seq(S) /\ Members(Only(s, K)) = Members(s) \intersect K
<1>1. PICK F : Filters(s, K, F, Len(s)) /\ Only(s, K) = F[Len(s)]
  BY OnlyIsFilter
<1> DEFINE Right(n) == F[n] \in Seq(S) /\ Members(F[n]) = {s[m] : m \in 1..n} \intersect K
           Bad == {n \in Nat : n <= Len(s) /\ ~Right(n)}
<1>2. Len(s) \in Nat
  OBVIOUS
<1>3. \A n \in 0..Len(s) : F[n] = IF n = 0 THEN << >>
           ELSE IF s[n] \in K THEN Append(F[n - 1], s[n]) ELSE F[n - 1]
  BY <1>1 DEF Filters
<1>4. ASSUME Bad # {} PROVE FALSE
  <2>1. PICK n \in Bad : \A k \in Bad : n <= k
    <3>1. Bad \in SUBSET Nat
      OBVIOUS
    <3> HIDE DEF Bad
    <3> QED BY <1>4, <3>1, LeastNumber
  <2>2. n \in Nat /\ n <= Len(s) /\ ~Right(n)
    OBVIOUS
  <2>3. n # 0
    <3>1. F[0] = << >>
      BY <1>2, <1>3
    <3>2. Right(0)
      BY <3>1 DEF Members
    <3> QED BY <2>2, <3>2
  <2>4. n - 1 \in Nat /\ n - 1 <= Len(s) /\ n - 1 \notin Bad
    <3>1. n - 1 \in Nat /\ n - 1 <= Len(s) /\ ~(n <= n - 1)
      BY <2>2, <2>3, <1>2
    <3> HIDE DEF Bad
    <3> QED BY <2>1, <3>1
  <2>5. Right(n - 1)
    BY <2>4
  <2>6. n \in 0..Len(s) /\ n \in 1..Len(s) /\ s[n] \in S
    BY <2>2, <2>3, <1>2
  <2>7. {s[m] : m \in 1..n} = {s[m] : m \in 1..(n - 1)} \union {s[n]}
    BY <2>2, <2>3, <1>2
  <2>8. CASE s[n] \in K
    <3>1. F[n - 1] \in Seq(S)
      BY <2>5
    <3>2. F[n] = Append(F[n - 1], s[n])
      <4> HIDE DEF Right, Bad
      <4> QED BY <1>3, <2>3, <2>6, <2>8
    <3>3. F[n] \in Seq(S) /\ Members(F[n]) = Members(F[n - 1]) \union {s[n]}
      <4> HIDE DEF Right, Bad
      <4> QED BY <3>1, <3>2, <2>6, AppendMembers
    <3> QED BY <2>2, <2>5, <3>3, <2>7, <2>8
  <2>9. CASE s[n] \notin K
    <3>1. F[n] = F[n - 1]
      BY <1>3, <2>3, <2>6, <2>9
    <3> QED BY <2>2, <2>5, <3>1, <2>7, <2>9
  <2> QED BY <2>8, <2>9
<1>5. Right(Len(s))
  BY <1>2, <1>4
<1>6. {s[m] : m \in 1..Len(s)} = Members(s)
  BY DEF Members
<1> QED BY <1>1, <1>5, <1>6

-----------------------------------------------------------------------------
(* Types.  A call that is under way is about an item.                         *)
TypedMemory ==
  /\ tab \in [Tabs -> TabMemory]
  /\ shelf \in [order : Seq(Items), obj : [Items -> Obj]]
  /\ sending \in [Tabs -> Calls]
  /\ \A t \in Tabs : sending[t].at # "idle" => sending[t].item \in Items

TypedRest ==
  /\ online \in BOOLEAN
  /\ tapped \in [Tabs -> Calls]
  /\ \A t \in Tabs : tapped[t].at # "idle" => tapped[t].item \in Items
  /\ asked \in Seq(Items)
  /\ fate \in [Items -> {"open", "sent", "resolved"}]
  /\ pressed \in [Items -> 0..MaxPresses]
  /\ opened \subseteq Tabs
  /\ cutOff \subseteq Items

LEMMA MembersTyped == ASSUME NEW S, NEW s \in Seq(S) PROVE Members(s) \subseteq S
BY DEF Members

LEMMA ClosedTyped == ClosedTab \in TabMemory
BY DEF ClosedTab, TabMemory, NewObj, Obj, Statuses

LEMMA EnteredTyped ==
  ASSUME NEW b \in TabMemory
  PROVE  /\ Entered(b) \in TabMemory
         /\ Entered(b).queue = b.queue /\ Entered(b).open = b.open /\ Entered(b).obj = b.obj
BY DEF TabMemory, Entered

(* The loop stops at an item of the array it runs over.                       *)
LEMMA NextUpTyped ==
  ASSUME NEW b \in TabMemory, NextUp(b) # {}
  PROVE  LET n == CHOOSE n \in NextUp(b) : TRUE
         IN  n \in 1..Len(b.left) /\ b.left[n] \in Items /\ Sends(b) = b.left[n]
<1> DEFINE n == CHOOSE n \in NextUp(b) : TRUE
<1>1. n \in NextUp(b)
  OBVIOUS
<1>2. b.left \in Seq(Items)
  BY DEF TabMemory
<1>3. n \in 1..Len(b.left)
  BY <1>1, <1>2 DEF NextUp
<1> HIDE DEF n
<1>4. b.left[n] \in Items
  BY <1>2, <1>3
<1> USE DEF n
<1>5. Sends(b) = b.left[n]
  BY DEF Sends
<1> QED BY <1>3, <1>4, <1>5

LEMMA WalkTyped ==
  ASSUME NEW b \in TabMemory
  PROVE  /\ Walk(b) \in TabMemory
         /\ Walk(b).queue = b.queue /\ Walk(b).open = b.open
         /\ \A i \in Items : Walk(b).obj[i].st = "completed" => b.obj[i].st = "completed"
<1>1. CASE NextUp(b) = {}
  <2>1. Walk(b) = [b EXCEPT !.busy = FALSE, !.left = <<>>, !.barred = {}, !.live = FALSE]
    BY <1>1 DEF Walk
  <2>2. <<>> \in Seq(Items)
    OBVIOUS
  <2> QED BY <2>1, <2>2 DEF TabMemory
<1>2. CASE NextUp(b) # {}
  <2>1. PICK n \in 1..Len(b.left) :
          /\ b.left[n] \in Items
          /\ Walk(b) = [b EXCEPT !.obj[b.left[n]].st = "syncing",
                                 !.left = SubSeq(b.left, n + 1, Len(b.left))]
    BY <1>2, NextUpTyped DEF Walk
  <2>2. b.left \in Seq(Items) /\ b.obj \in [Items -> Obj]
    BY DEF TabMemory
  <2>3. SubSeq(b.left, n + 1, Len(b.left)) \in Seq(Items)
    BY <2>2
  <2>4. \A i \in Items : [b.obj[i] EXCEPT !.st = "syncing"] \in Obj
    BY <2>2 DEF Obj, Statuses
  <2>5. [b.obj EXCEPT ![b.left[n]].st = "syncing"] \in [Items -> Obj]
    BY <2>2, <2>4
  <2>6. \A i \in Items : [b.obj EXCEPT ![b.left[n]].st = "syncing"][i].st = "completed"
                           => b.obj[i].st = "completed"
    BY <2>1, <2>2 DEF Obj
  <2> QED BY <2>1, <2>3, <2>5, <2>6 DEF TabMemory
<1> QED BY <1>1, <1>2

LEMMA SendsTyped ==
  ASSUME NEW b \in TabMemory
  PROVE  LET c == BeginOrRest(Sends(b)) IN c \in Calls /\ (c.at # "idle" => c.item \in Items)
<1>1. CASE NextUp(b) = {}
  BY <1>1 DEF Sends, BeginOrRest, NoCall, Calls, Answers
<1>2. CASE NextUp(b) # {}
  <2>1. Sends(b) \in Items
    BY <1>2, NextUpTyped
  <2> QED BY <2>1 DEF BeginOrRest, Begin, NoCall, Calls, Answers
<1> QED BY <1>1, <1>2

LEMMA PushedTyped ==
  ASSUME NEW b \in TabMemory, NEW i \in Items
  PROVE  /\ Pushed(b, i) \in TabMemory
         /\ Pushed(b, i).queue = Append(b.queue, i) /\ Pushed(b, i).open = b.open
         /\ \A j \in Items : Pushed(b, i).obj[j].st = "completed" => b.obj[j].st = "completed"
<1>1. Append(b.queue, i) \in Seq(Items) /\ Append(b.left, i) \in Seq(Items)
  BY DEF TabMemory
<1>2. [b.obj EXCEPT ![i] = NewObj] \in [Items -> Obj]
  BY DEF TabMemory, NewObj, Obj, Statuses
<1>3. \A j \in Items : [b.obj EXCEPT ![i] = NewObj][j].st = "completed" => b.obj[j].st = "completed"
  BY DEF TabMemory, NewObj
<1> QED BY <1>1, <1>2, <1>3 DEF TabMemory, Pushed

LEMMA AnswerTyped ==
  ASSUME NEW b \in TabMemory, NEW i \in Items, NEW r
  PROVE  /\ AfterAnswer(b, i, r) \in TabMemory
         /\ AfterAnswer(b, i, r).queue = b.queue /\ AfterAnswer(b, i, r).open = b.open
         /\ \A j \in Items \ {i} : AfterAnswer(b, i, r).obj[j] = b.obj[j]
<1>1. Statused(b)
  BY DEF Statused, TabMemory
<1>2. AfterAnswer(b, i, r).obj \in [Items -> Obj]
  BY <1>1, AnswerIsStatused DEF Statused
<1> QED BY <1>2 DEF AfterAnswer, TabMemory

LEMMA SavedTyped ==
  ASSUME NEW b \in TabMemory
  PROVE  /\ Saved(b) \in [order : Seq(Items), obj : [Items -> Obj]]
         /\ Saved(b).order = b.queue
         /\ \A i \in Items : Saved(b).obj[i].st = "completed" => b.obj[i].st = "completed"
BY DEF Saved, TabMemory, NewObj, Obj, Statuses

LEMMA BeginTyped ==
  ASSUME NEW i \in Items
  PROVE  Begin(i) \in Calls /\ Begin(i).item = i
BY DEF Begin, Calls, Answers

LEMMA OutcomesTyped ==
  ASSUME NEW i \in Items, NEW o \in Outcomes(i) PROVE o \in Calls /\ o.item = i
BY DEF Outcomes, Reply, Calls, Answers

Saves(t, c) == tab' = [tab EXCEPT ![t] = c] /\ shelf' = Saved(c)

(* To process a queue is to save its memory, on which the loop may have       *)
(* marked an item.                                                            *)
LEMMA ProcessSaves ==
  ASSUME TypedMemory, NEW t \in Tabs, NEW b \in TabMemory, SaveAndProcess(t, b) \/ RunOn(t, b)
  PROVE  /\ TypedMemory'
         /\ sending'[t] # sending[t] => b.open \/ RunOn(t, b)
         /\ \A u \in Tabs \ {t} : sending'[u] = sending[u]
         /\ \E c \in TabMemory :
              /\ Saves(t, c) /\ c.queue = b.queue /\ c.open = b.open
              /\ \A i \in Items : c.obj[i].st = "completed" => b.obj[i].st = "completed"
<1> DEFINE Good(c) ==
      /\ c \in TabMemory /\ Saves(t, c) /\ c.queue = b.queue /\ c.open = b.open
      /\ \A i \in Items : c.obj[i].st = "completed" => b.obj[i].st = "completed"
<1>1. CASE RunOn(t, b)
  <2>1. Good(Walk(b))
    BY <1>1, WalkTyped DEF RunOn, Saves
  <2>2. sending' = [sending EXCEPT ![t] = BeginOrRest(Sends(b))]
    BY <1>1 DEF RunOn
  <2>3. TypedMemory'
    BY <2>1, <2>2, SendsTyped, SavedTyped DEF TypedMemory, Saves
  <2> QED BY <1>1, <2>1, <2>2, <2>3 DEF TypedMemory
<1>2. CASE SaveAndProcess(t, b) /\ MayEnter(b, online)
  <2>1. Entered(b) \in TabMemory /\ RunOn(t, Entered(b)) /\ b.open
    BY <1>2, EnteredTyped DEF SaveAndProcess, MayEnter
  <2>2. Good(Walk(Entered(b)))
    <3>1. Saves(t, Walk(Entered(b)))
      BY <2>1 DEF RunOn, Saves
    <3>2. /\ Walk(Entered(b)) \in TabMemory
          /\ Walk(Entered(b)).queue = b.queue /\ Walk(Entered(b)).open = b.open
          /\ \A i \in Items : Walk(Entered(b)).obj[i].st = "completed" => b.obj[i].st = "completed"
      <4>1. /\ Entered(b).queue = b.queue /\ Entered(b).open = b.open
            /\ Entered(b).obj = b.obj
        BY EnteredTyped
      <4>2. /\ Walk(Entered(b)) \in TabMemory
            /\ Walk(Entered(b)).queue = Entered(b).queue /\ Walk(Entered(b)).open = Entered(b).open
            /\ \A i \in Items : Walk(Entered(b)).obj[i].st = "completed"
                                  => Entered(b).obj[i].st = "completed"
        BY <2>1, WalkTyped
      <4> QED BY <4>1, <4>2
    <3> QED BY <3>1, <3>2
  <2>3. sending' = [sending EXCEPT ![t] = BeginOrRest(Sends(Entered(b)))]
    BY <2>1 DEF RunOn
  <2>4. TypedMemory'
    BY <2>1, <2>2, <2>3, SendsTyped, SavedTyped DEF TypedMemory, Saves
  <2> QED BY <2>1, <2>2, <2>3, <2>4 DEF TypedMemory
<1>3. CASE SaveAndProcess(t, b) /\ ~MayEnter(b, online)
  <2>1. Good(b) /\ UNCHANGED sending
    BY <1>3 DEF SaveAndProcess, Saves
  <2>2. TypedMemory'
    BY <2>1, SavedTyped DEF TypedMemory, Saves
  <2> QED BY <2>1, <2>2
<1> QED BY <1>1, <1>2, <1>3

(* The step saves tab t with the array q, and what it marks completed it      *)
(* reports.                                                                   *)
Rewrites(t, q) ==
  \E c \in TabMemory :
    /\ Saves(t, c) /\ c.queue = q /\ c.open = tab[t].open
    /\ \A i \in Items : c.obj[i].st = "completed"
                          => tab[t].obj[i].st = "completed" \/ fate'[i] # "open"

OnlySends(t) == \A u \in Tabs \ {t} : sending'[u] = sending[u]

LEMMA ProcessRewrites ==
  ASSUME TypedMemory, NEW t \in Tabs, NEW b \in TabMemory, SaveAndProcess(t, b) \/ RunOn(t, b),
         b.open = tab[t].open,
         \A i \in Items : b.obj[i].st = "completed"
                            => tab[t].obj[i].st = "completed" \/ fate'[i] # "open"
  PROVE  TypedMemory' /\ OnlySends(t) /\ Rewrites(t, b.queue)
<1>1. PICK c \in TabMemory :
        /\ Saves(t, c) /\ c.queue = b.queue /\ c.open = b.open
        /\ \A i \in Items : c.obj[i].st = "completed" => b.obj[i].st = "completed"
  BY ProcessSaves
<1>2. TypedMemory' /\ OnlySends(t)
  BY ProcessSaves DEF OnlySends
<1> QED BY <1>1, <1>2 DEF Rewrites

LEMMA PutRewrites ==
  ASSUME TypedMemory, NEW t \in Tabs, NEW i \in Items, Put(t, i)
  PROVE  TypedMemory' /\ OnlySends(t) /\ Rewrites(t, Append(tab[t].queue, i))
<1>1. tab[t] \in TabMemory /\ SaveAndProcess(t, Pushed(tab[t], i))
  BY DEF TypedMemory, Put
<1> QED BY <1>1, PushedTyped, ProcessRewrites

LEMMA RetryRewrites ==
  ASSUME TypedMemory, NEW t \in Tabs, NEW i \in Items, RetryItem(t, i)
  PROVE  TypedMemory' /\ OnlySends(t) /\ Rewrites(t, tab[t].queue)
<1> DEFINE b == [tab[t] EXCEPT !.obj[i] = NewObj, !.waiting = @ \ {i}]
<1>1. tab[t] \in TabMemory
  BY DEF TypedMemory
<1>2. b \in TabMemory /\ b.queue = tab[t].queue /\ b.open = tab[t].open
  BY <1>1 DEF TabMemory, NewObj, Obj, Statuses
<1>3. \A j \in Items : b.obj[j].st = "completed" => tab[t].obj[j].st = "completed"
  BY <1>1 DEF TabMemory, NewObj
<1>4. SaveAndProcess(t, b)
  BY DEF RetryItem
<1> HIDE DEF b
<1> QED BY <1>2, <1>3, <1>4, ProcessRewrites

LEMMA SyncRewrites ==
  ASSUME TypedMemory, NEW t \in Tabs, SyncNow(t)
  PROVE  TypedMemory' /\ OnlySends(t) /\ Rewrites(t, tab[t].queue)
<1>1. tab[t] \in TabMemory /\ RunOn(t, Entered(tab[t]))
  BY DEF TypedMemory, SyncNow
<1> QED BY <1>1, EnteredTyped, ProcessRewrites

LEMMA AnsweredRewrites ==
  ASSUME TypedMemory, TypedRest, NEW t \in Tabs, Answered(t)
  PROVE  /\ TypedMemory' /\ OnlySends(t) /\ Rewrites(t, tab[t].queue)
         /\ \A j \in Items : fate[j] # "open" => fate'[j] # "open"
<1>1. PICK i, b :
        /\ i = sending[t].item /\ b = AfterAnswer(tab[t], i, sending[t].res)
        /\ RunOn(t, b)
        /\ fate' = IF b.obj[i].st = "completed" THEN [fate EXCEPT ![i] = "sent"] ELSE fate
  BY DEF Answered
<1>2. i \in Items /\ tab[t] \in TabMemory
  BY <1>1 DEF TypedMemory, Answered
<1>3. /\ b \in TabMemory /\ b.queue = tab[t].queue /\ b.open = tab[t].open
      /\ \A j \in Items \ {i} : b.obj[j] = tab[t].obj[j]
  BY <1>1, <1>2, AnswerTyped
<1>4. \A j \in Items : b.obj[j].st = "completed"
                         => tab[t].obj[j].st = "completed" \/ fate'[j] # "open"
  BY <1>1, <1>2, <1>3 DEF TypedRest
<1>5. \A j \in Items : fate[j] # "open" => fate'[j] # "open"
  BY <1>1, <1>2 DEF TypedRest
<1> QED BY <1>1, <1>3, <1>4, <1>5, ProcessRewrites

(* Steps that save without processing.                                        *)
LEMMA SaveRewrites ==
  ASSUME TypedMemory, NEW t \in Tabs, NEW c \in TabMemory, Saves(t, c), UNCHANGED sending,
         c.open = tab[t].open,
         \A i \in Items : c.obj[i].st = "completed"
                            => tab[t].obj[i].st = "completed" \/ fate'[i] # "open"
  PROVE  TypedMemory' /\ OnlySends(t) /\ Rewrites(t, c.queue)
<1>1. Rewrites(t, c.queue)
  BY DEF Rewrites
<1>2. TypedMemory'
  BY SavedTyped DEF TypedMemory, Saves
<1> QED BY <1>1, <1>2 DEF OnlySends

LEMMA ResolveRewrites ==
  ASSUME TypedMemory, TypedRest, NEW t \in Tabs, NEW i \in Items, ResolveConflict(t, i)
  PROVE  /\ TypedMemory' /\ OnlySends(t) /\ Rewrites(t, tab[t].queue)
         /\ \A j \in Items : fate[j] # "open" => fate'[j] # "open"
<1> DEFINE c == [tab[t] EXCEPT !.obj[i].st = "completed"]
<1>1. tab[t] \in TabMemory
  BY DEF TypedMemory
<1>2. [tab[t].obj EXCEPT ![i].st = "completed"] \in [Items -> Obj]
  BY <1>1 DEF TabMemory, Obj, Statuses
<1>3. c \in TabMemory /\ c.queue = tab[t].queue /\ c.open = tab[t].open
  BY <1>1, <1>2 DEF TabMemory
<1>4. fate' = [fate EXCEPT ![i] = "resolved"] /\ Saves(t, c) /\ UNCHANGED sending
  BY DEF ResolveConflict, Saves
<1>5. \A j \in Items : (fate[j] # "open" => fate'[j] # "open") /\ (j = i => fate'[j] # "open")
  BY <1>4 DEF TypedRest
<1>6. \A j \in Items \ {i} : c.obj[j] = tab[t].obj[j]
  BY <1>1 DEF TabMemory
<1> HIDE DEF c
<1> QED BY <1>3, <1>4, <1>5, <1>6, SaveRewrites

LEMMA ClearRewrites ==
  ASSUME TypedMemory, NEW t \in Tabs, ClearCompleted(t)
  PROVE  /\ TypedMemory' /\ OnlySends(t)
         /\ Rewrites(t, Only(tab[t].queue, Unfinished(tab[t])))
<1> DEFINE q == Only(tab[t].queue, Unfinished(tab[t]))
           c == [tab[t] EXCEPT !.queue = q, !.live = FALSE]
<1>1. tab[t] \in TabMemory /\ tab[t].queue \in Seq(Items)
  BY DEF TypedMemory, TabMemory
<1>2. q \in Seq(Items)
  BY <1>1, OnlyKeeps
<1>3. Saves(t, c) /\ UNCHANGED sending
  BY DEF ClearCompleted, Saves
<1> HIDE DEF q
<1>4. c \in TabMemory /\ c.queue = q /\ c.open = tab[t].open /\ c.obj = tab[t].obj
  BY <1>1, <1>2 DEF TabMemory
<1> HIDE DEF c
<1>5. TypedMemory' /\ OnlySends(t) /\ Rewrites(t, q)
  BY <1>3, <1>4, SaveRewrites
<1> QED BY <1>5 DEF q

-----------------------------------------------------------------------------
(* Nothing is lost.                                                           *)

Told(b) == \A i \in Items : b.obj[i].st = "completed" => fate[i] # "open"

(* What a memory or the shelf shows as completed was reported.                *)
AllTold == (\A t \in Tabs : Told(tab[t])) /\ Told(shelf)

(* A closed tab holds and sends nothing.                                      *)
ShutIsEmpty ==
  \A t \in Tabs :
    IF tab[t].open THEN t \in opened
    ELSE tab[t].queue = <<>> /\ sending[t].at = "idle" /\ tapped[t].at = "idle"

OneTab == \A t, u \in opened : t = u

(* The only tab has the array of the shelf, which holds what is unreported.   *)
OnShelf ==
  OneTab =>
    /\ \A t \in Tabs : tab[t].open => tab[t].queue = shelf.order
    /\ \A i \in Members(asked) : fate[i] = "open" => i \in Members(shelf.order)

LossInv == AllTold /\ ShutIsEmpty /\ OnShelf

(* A step of an open tab that saves drops nothing that is unreported.         *)
LEMMA SaveLosesNothing ==
  ASSUME TypedMemory, TypedRest, LossInv, NEW t \in Tabs, NEW q,
         tab[t].open, Rewrites(t, q), OnlySends(t), UNCHANGED opened,
         \A u \in Tabs \ {t} : tapped'[u] = tapped[u],
         \A i \in Items : fate[i] # "open" => fate'[i] # "open",
         \A i \in Members(tab[t].queue) : fate'[i] = "open" => i \in Members(q),
         \A i \in Members(asked') : i \in Members(asked) \/ i \in Members(q)
  PROVE  LossInv'
<1>1. PICK c \in TabMemory :
        /\ Saves(t, c) /\ c.queue = q /\ c.open = tab[t].open
        /\ \A i \in Items : c.obj[i].st = "completed"
                              => tab[t].obj[i].st = "completed" \/ fate'[i] # "open"
  BY DEF Rewrites
<1>2. tab'[t] = c /\ \A u \in Tabs \ {t} : tab'[u] = tab[u]
  BY <1>1 DEF Saves, TypedMemory
<1>3. \A i \in Items : c.obj[i].st = "completed" => fate'[i] # "open"
  BY <1>1 DEF LossInv, AllTold, Told
<1>4. shelf'.order = q /\ \A i \in Items : shelf'.obj[i].st = "completed" => fate'[i] # "open"
  BY <1>1, <1>3, SavedTyped DEF Saves
<1>5. AllTold'
  BY <1>2, <1>3, <1>4 DEF LossInv, AllTold, Told
<1>6. ShutIsEmpty'
  BY <1>1, <1>2 DEF LossInv, ShutIsEmpty, OnlySends
<1>7. ASSUME OneTab'
      PROVE  /\ \A u \in Tabs : tab'[u].open => tab'[u].queue = shelf'.order
             /\ \A i \in Members(asked') : fate'[i] = "open" => i \in Members(shelf'.order)
  <2>1. OneTab /\ tab[t].queue = shelf.order /\ \A u \in Tabs : tab[u].open => u = t
    BY <1>7 DEF OneTab, LossInv, OnShelf, ShutIsEmpty
  <2>2. \A u \in Tabs : tab'[u].open => tab'[u].queue = shelf'.order
    BY <1>1, <1>2, <1>4, <2>1
  <2>3. \A i \in Members(asked) : i \in Items
    BY MembersTyped DEF TypedRest
  <2>4. \A i \in Members(asked) : fate[i] = "open" => i \in Members(tab[t].queue)
    BY <2>1 DEF LossInv, OnShelf
  <2>5. ASSUME NEW i \in Members(asked'), fate'[i] = "open" PROVE i \in Members(q)
    BY <2>3, <2>4, <2>5
  <2> QED BY <1>4, <2>2, <2>5
<1>8. OnShelf'
  BY <1>7 DEF OnShelf
<1> QED BY <1>5, <1>6, <1>8 DEF LossInv

(* Other steps leave the arrays, the shelf and the reports as they are.       *)
LEMMA RestLosesNothing ==
  ASSUME LossInv, UNCHANGED <<shelf, asked, fate, opened>>,
         \A t \in Tabs : /\ tab'[t].queue = tab[t].queue /\ tab'[t].open = tab[t].open
                         /\ \A i \in Items : tab'[t].obj[i].st = "completed"
                                               => tab[t].obj[i].st = "completed"
                         /\ ~tab[t].open => sending'[t].at = "idle" /\ tapped'[t].at = "idle"
  PROVE  LossInv'
<1>1. AllTold'
  BY DEF LossInv, AllTold, Told
<1>2. ShutIsEmpty'
  BY DEF LossInv, ShutIsEmpty
<1>3. OnShelf'
  BY DEF LossInv, OnShelf, OneTab
<1> QED BY <1>1, <1>2, <1>3 DEF LossInv

(* What is done with the items of a tab is done in an open one.               *)
LEMMA WhoActsIsOpen ==
  ASSUME LossInv, NEW t \in Tabs,
         \/ Members(tab[t].queue) # {} \/ sending[t].at # "idle" \/ tapped[t].at # "idle"
  PROVE  tab[t].open
BY DEF LossInv, ShutIsEmpty, Members

(* A tab opens with the array of the shelf.                                   *)
LEMMA OpenLosesNothing ==
  ASSUME TypedMemory, TypedRest, LossInv, NEW t \in Tabs, OpenTab(t)
  PROVE  TypedMemory' /\ LossInv'
<1>1. PICK w \in SUBSET Items :
        LET b == [ClosedTab EXCEPT !.open = TRUE, !.queue = shelf.order, !.obj = shelf.obj,
                                   !.waiting = w]
        IN  RunOn(t, Entered(b)) \/ (tab' = [tab EXCEPT ![t] = b] /\ UNCHANGED <<shelf, sending>>)
  <2>1. \A due \in SUBSET Items :
          {i \in Members(shelf.order) : shelf.obj[i].st = "failed" /\ i \notin due} \in SUBSET Items
    BY MembersTyped DEF TypedMemory
  <2>2. {i \in Members(shelf.order) : shelf.obj[i].st = "failed"} \subseteq Items
    BY MembersTyped DEF TypedMemory
  <2> QED BY <2>1, <2>2 DEF OpenTab
<1> DEFINE b == [ClosedTab EXCEPT !.open = TRUE, !.queue = shelf.order, !.obj = shelf.obj,
                                  !.waiting = w]
<1>2. b \in TabMemory /\ b.queue = shelf.order /\ b.open = TRUE /\ b.obj = shelf.obj
  BY ClosedTyped DEF TabMemory, ClosedTab, TypedMemory
<1>3. opened' = opened \union {t} /\ UNCHANGED <<tapped, asked, fate>> /\ ~tab[t].open
  BY DEF OpenTab
<1> HIDE DEF b
<1>4. PICK c \in TabMemory :
        /\ tab' = [tab EXCEPT ![t] = c] /\ (shelf' = Saved(c) \/ UNCHANGED shelf)
        /\ c.queue = shelf.order /\ c.open = TRUE /\ OnlySends(t) /\ TypedMemory'
        /\ \A i \in Items : c.obj[i].st = "completed" => shelf.obj[i].st = "completed"
  <2>1. CASE RunOn(t, Entered(b))
    <3>1. /\ Entered(b) \in TabMemory /\ Entered(b).queue = b.queue
          /\ Entered(b).open = b.open /\ Entered(b).obj = b.obj
      BY <1>2, EnteredTyped
    <3>2. TypedMemory' /\ OnlySends(t)
      BY <2>1, <3>1, ProcessSaves DEF OnlySends
    <3>3. PICK c \in TabMemory :
            /\ Saves(t, c) /\ c.queue = Entered(b).queue /\ c.open = Entered(b).open
            /\ \A i \in Items : c.obj[i].st = "completed" => Entered(b).obj[i].st = "completed"
      BY <2>1, <3>1, ProcessSaves
    <3> QED BY <1>2, <3>1, <3>2, <3>3 DEF Saves
  <2>2. CASE tab' = [tab EXCEPT ![t] = b] /\ UNCHANGED <<shelf, sending>>
    <3>1. TypedMemory' /\ OnlySends(t)
      BY <1>2, <2>2 DEF TypedMemory, OnlySends
    <3> QED BY <1>2, <2>2, <3>1
  <2> QED BY <1>1, <2>1, <2>2 DEF b
<1>5. tab'[t] = c /\ \A u \in Tabs \ {t} : tab'[u] = tab[u]
  BY <1>4 DEF TypedMemory
<1>6. shelf'.order = shelf.order
      /\ \A i \in Items : shelf'.obj[i].st = "completed" => shelf.obj[i].st = "completed"
  BY <1>4, SavedTyped
<1>7. AllTold'
  BY <1>3, <1>4, <1>5, <1>6 DEF LossInv, AllTold, Told
<1>8. ShutIsEmpty'
  BY <1>3, <1>4, <1>5 DEF LossInv, ShutIsEmpty, OnlySends
<1>9. OnShelf'
  <2>1. OneTab' => OneTab
    BY <1>3 DEF OneTab
  <2> QED BY <1>3, <1>4, <1>5, <1>6, <2>1 DEF LossInv, OnShelf
<1> QED BY <1>4, <1>7, <1>8, <1>9 DEF LossInv

(* Closing a tab takes its memory and its calls, never the shelf.             *)
LEMMA CloseLosesNothing ==
  ASSUME TypedMemory, TypedRest, LossInv, NEW t \in Tabs, CloseTab(t)
  PROVE  TypedMemory' /\ LossInv'
<1>1. /\ tab' = [tab EXCEPT ![t] = ClosedTab] /\ sending' = [sending EXCEPT ![t] = NoCall]
      /\ tapped' = [tapped EXCEPT ![t] = NoCall] /\ UNCHANGED <<shelf, asked, fate, opened>>
  BY DEF CloseTab
<1>2. TypedMemory'
  BY <1>1, ClosedTyped DEF TypedMemory, NoCall, Calls, Answers
<1>3. /\ tab'[t] = ClosedTab /\ sending'[t] = NoCall /\ tapped'[t] = NoCall
      /\ \A u \in Tabs \ {t} : tab'[u] = tab[u] /\ sending'[u] = sending[u] /\ tapped'[u] = tapped[u]
  BY <1>1 DEF TypedMemory, TypedRest
<1>4. AllTold'
  BY <1>1, <1>3 DEF LossInv, AllTold, Told, ClosedTab, NewObj
<1>5. ShutIsEmpty'
  BY <1>1, <1>3 DEF LossInv, ShutIsEmpty, ClosedTab, NoCall
<1>6. OnShelf'
  BY <1>1, <1>3 DEF LossInv, OnShelf, OneTab, ClosedTab
<1> QED BY <1>2, <1>4, <1>5, <1>6 DEF LossInv

LEMMA BackoffLosesNothing ==
  ASSUME TypedMemory, LossInv, NEW t \in Tabs, NEW i, BackoffEnds(t, i)
  PROVE  TypedMemory' /\ LossInv'
<1>1. tab' = [tab EXCEPT ![t].waiting = @ \ {i}] /\ UNCHANGED <<shelf, sending, tapped, asked, fate, opened>>
  BY DEF BackoffEnds, histVars
<1>2. TypedMemory'
  <2>1. tab[t] \in TabMemory
    BY DEF TypedMemory
  <2>2. [tab[t] EXCEPT !.waiting = @ \ {i}] \in TabMemory
    BY <2>1 DEF TabMemory
  <2> QED BY <1>1, <2>2 DEF TypedMemory
<1>3. \A u \in Tabs : /\ tab'[u].queue = tab[u].queue /\ tab'[u].open = tab[u].open
                      /\ tab'[u].obj = tab[u].obj
  BY <1>1 DEF TypedMemory, TabMemory
<1>4. LossInv'
  BY <1>1, <1>3, RestLosesNothing DEF LossInv, ShutIsEmpty
<1> QED BY <1>2, <1>4

(* Back online, the loops of all tabs start; one of them saves last.          *)
LEMMA OnlineLosesNothing ==
  ASSUME TypedMemory, TypedRest, LossInv, GoOnline
  PROVE  TypedMemory' /\ LossInv'
<1> DEFINE Starts(t) == MayEnter(tab[t], TRUE) /\ NextUp(Entered(tab[t])) # {}
           W(t) == Walk(Entered(tab[t]))
<1>1. /\ tab' = [t \in Tabs |-> IF Starts(t) THEN W(t) ELSE tab[t]]
      /\ sending' = [t \in Tabs |-> IF Starts(t) THEN Begin(Sends(Entered(tab[t]))) ELSE sending[t]]
      /\ \/ \E t \in Tabs : Starts(t) /\ shelf' = Saved(W(t))
         \/ UNCHANGED shelf
      /\ UNCHANGED <<tapped, asked, fate, opened>>
  BY DEF GoOnline, histVars
<1>2. \A t \in Tabs :
        /\ W(t) \in TabMemory /\ W(t).queue = tab[t].queue /\ W(t).open = tab[t].open
        /\ \A i \in Items : W(t).obj[i].st = "completed" => tab[t].obj[i].st = "completed"
  <2>1. SUFFICES ASSUME NEW t \in Tabs
        PROVE  /\ W(t) \in TabMemory /\ W(t).queue = tab[t].queue /\ W(t).open = tab[t].open
               /\ \A i \in Items : W(t).obj[i].st = "completed" => tab[t].obj[i].st = "completed"
    OBVIOUS
  <2>2. /\ Entered(tab[t]) \in TabMemory /\ Entered(tab[t]).queue = tab[t].queue
        /\ Entered(tab[t]).open = tab[t].open /\ Entered(tab[t]).obj = tab[t].obj
    BY EnteredTyped DEF TypedMemory
  <2>3. /\ W(t) \in TabMemory /\ W(t).queue = Entered(tab[t]).queue
        /\ W(t).open = Entered(tab[t]).open
        /\ \A i \in Items : W(t).obj[i].st = "completed" => Entered(tab[t]).obj[i].st = "completed"
    BY <2>2, WalkTyped
  <2> QED BY <2>2, <2>3
<1>3. \A t \in Tabs : Starts(t) => /\ Begin(Sends(Entered(tab[t]))) \in Calls
                                   /\ Begin(Sends(Entered(tab[t]))).item \in Items
                                   /\ tab[t].open
  <2>1. SUFFICES ASSUME NEW t \in Tabs, Starts(t)
        PROVE  /\ Begin(Sends(Entered(tab[t]))) \in Calls
               /\ Begin(Sends(Entered(tab[t]))).item \in Items
               /\ tab[t].open
    OBVIOUS
  <2>2. Entered(tab[t]) \in TabMemory
    BY EnteredTyped DEF TypedMemory
  <2>3. Sends(Entered(tab[t])) \in Items
    BY <2>1, <2>2, NextUpTyped
  <2>4. tab[t].open
    BY <2>1 DEF MayEnter
  <2> QED BY <2>3, <2>4, BeginTyped
<1> HIDE DEF W
<1>4. \A t \in Tabs :
        /\ tab'[t] \in TabMemory /\ tab'[t].queue = tab[t].queue /\ tab'[t].open = tab[t].open
        /\ \A i \in Items : tab'[t].obj[i].st = "completed" => tab[t].obj[i].st = "completed"
  BY <1>1, <1>2 DEF TypedMemory
<1>5. /\ shelf' \in [order : Seq(Items), obj : [Items -> Obj]]
      /\ shelf' = shelf \/ \E t \in Tabs : tab[t].open /\ shelf'.order = tab[t].queue
      /\ \A i \in Items : shelf'.obj[i].st = "completed" => fate[i] # "open"
  <2>1. CASE UNCHANGED shelf
    BY <2>1 DEF TypedMemory, LossInv, AllTold, Told
  <2>2. ASSUME NEW t \in Tabs, Starts(t), shelf' = Saved(W(t))
        PROVE  /\ shelf' \in [order : Seq(Items), obj : [Items -> Obj]]
               /\ tab[t].open /\ shelf'.order = tab[t].queue
               /\ \A i \in Items : shelf'.obj[i].st = "completed" => fate[i] # "open"
    <3>1. tab[t].open /\ W(t) \in TabMemory /\ W(t).queue = tab[t].queue
      BY <1>2, <1>3, <2>2
    <3>2. /\ Saved(W(t)) \in [order : Seq(Items), obj : [Items -> Obj]]
          /\ Saved(W(t)).order = W(t).queue
          /\ \A i \in Items : Saved(W(t)).obj[i].st = "completed" => W(t).obj[i].st = "completed"
      BY <3>1, SavedTyped
    <3>3. \A i \in Items : tab[t].obj[i].st = "completed" => fate[i] # "open"
      BY DEF LossInv, AllTold, Told
    <3> HIDE DEF Starts
    <3> QED BY <1>2, <2>2, <3>1, <3>2, <3>3
  <2> QED BY <1>1, <2>1, <2>2
<1>6. TypedMemory'
  BY <1>1, <1>3, <1>4, <1>5 DEF TypedMemory
<1>7. AllTold'
  BY <1>1, <1>4, <1>5 DEF LossInv, AllTold, Told
<1>8. ShutIsEmpty'
  BY <1>1, <1>3, <1>4 DEF LossInv, ShutIsEmpty
<1>9. OnShelf'
  <2>1. OneTab' => shelf'.order = shelf.order
    BY <1>1, <1>5 DEF LossInv, OnShelf, OneTab
  <2>2. OneTab' => OneTab
    BY <1>1 DEF OneTab
  <2> QED BY <1>1, <1>4, <2>1, <2>2 DEF LossInv, OnShelf
<1> QED BY <1>6, <1>7, <1>8, <1>9 DEF LossInv

(* Every step keeps the memories and loses nothing.                           *)
LEMMA LossStep ==
  ASSUME TypedMemory, TypedRest, LossInv, [OQNext]_queueVars
  PROVE  TypedMemory' /\ LossInv'
<1>1. ASSUME NEW t \in Tabs, NEW i \in Items, Put(t, i), tab[t].open, UNCHANGED <<fate, opened>>,
             \A u \in Tabs \ {t} : tapped'[u] = tapped[u]
      PROVE  TypedMemory' /\ LossInv'
  <2>1. TypedMemory' /\ OnlySends(t) /\ Rewrites(t, Append(tab[t].queue, i))
    BY <1>1, PutRewrites
  <2>2. tab[t].queue \in Seq(Items) /\ asked \in Seq(Items) /\ asked' = Append(asked, i)
    BY <1>1 DEF TypedMemory, TabMemory, TypedRest, Put
  <2>3. /\ Members(Append(tab[t].queue, i)) = Members(tab[t].queue) \union {i}
        /\ Members(asked') = Members(asked) \union {i}
    BY <2>2, AppendMembers
  <2> QED BY <1>1, <2>1, <2>3, SaveLosesNothing
<1>2. ASSUME NEW t \in Tabs, tab[t].open, Rewrites(t, tab[t].queue), OnlySends(t),
             UNCHANGED <<tapped, asked, opened>>,
             \A i \in Items : fate[i] # "open" => fate'[i] # "open"
      PROVE  LossInv'
  BY <1>2, SaveLosesNothing
<1>3. ASSUME UNCHANGED <<tab, shelf, sending>> PROVE TypedMemory'
  BY <1>3 DEF TypedMemory
<1>4. ASSUME NEW t \in Tabs, NEW i \in Items, Enqueue(t, i) PROVE TypedMemory' /\ LossInv'
  BY <1>1, <1>4 DEF Enqueue
<1>5. ASSUME NEW t \in Tabs, TapAnswered(t) PROVE TypedMemory' /\ LossInv'
  <2>1. /\ tapped[t].item \in Items /\ tab[t].open /\ tapped' = [tapped EXCEPT ![t] = NoCall]
        /\ UNCHANGED <<fate, opened>>
    BY <1>5, WhoActsIsOpen DEF TapAnswered, TypedRest
  <2>2. CASE Put(t, tapped[t].item)
    BY <1>1, <2>1, <2>2 DEF TypedRest
  <2>3. CASE UNCHANGED <<tab, shelf, sending, asked>>
    BY <1>3, <2>1, <2>3, RestLosesNothing DEF LossInv, ShutIsEmpty, TypedRest, NoCall
  <2> QED BY <1>5, <2>2, <2>3 DEF TapAnswered
<1>6. ASSUME NEW t \in Tabs, NEW i \in Items, RetryItem(t, i) PROVE TypedMemory' /\ LossInv'
  <2>1. tab[t].open /\ UNCHANGED <<tapped, asked, fate, opened>>
    BY <1>6, WhoActsIsOpen DEF RetryItem
  <2> QED BY <1>2, <1>6, <2>1, RetryRewrites
<1>7. ASSUME NEW t \in Tabs, NEW i \in Items, ResolveConflict(t, i) PROVE TypedMemory' /\ LossInv'
  <2>1. tab[t].open /\ UNCHANGED <<tapped, asked, opened>>
    BY <1>7, WhoActsIsOpen DEF ResolveConflict
  <2> QED BY <1>2, <1>7, <2>1, ResolveRewrites
<1>8. ASSUME NEW t \in Tabs, SyncNow(t) PROVE TypedMemory' /\ LossInv'
  <2>1. tab[t].open /\ UNCHANGED <<tapped, asked, fate, opened>>
    BY <1>8 DEF SyncNow, MayEnter, histVars
  <2> QED BY <1>2, <1>8, <2>1, SyncRewrites
<1>9. ASSUME NEW t \in Tabs, Answered(t) PROVE TypedMemory' /\ LossInv'
  <2>1. tab[t].open /\ UNCHANGED <<tapped, asked, opened>>
    BY <1>9, WhoActsIsOpen DEF Answered
  <2> QED BY <1>2, <1>9, <2>1, AnsweredRewrites
<1>10. ASSUME NEW t \in Tabs, ClearCompleted(t) PROVE TypedMemory' /\ LossInv'
  <2> DEFINE q == Only(tab[t].queue, Unfinished(tab[t]))
  <2>1. Members(tab[t].queue) # {} /\ UNCHANGED <<tapped, asked, fate, opened>>
    BY <1>10 DEF ClearCompleted, Unfinished
  <2>2. tab[t].open
    BY <2>1, WhoActsIsOpen
  <2>3. TypedMemory' /\ OnlySends(t) /\ Rewrites(t, q)
    BY <1>10, ClearRewrites
  <2>4. tab[t].queue \in Seq(Items)
    BY DEF TypedMemory, TabMemory
  <2>5. Members(q) = Members(tab[t].queue) \intersect Unfinished(tab[t])
    BY <2>4, OnlyKeeps
  <2>6. \A i \in Members(tab[t].queue) : fate[i] = "open" => i \in Unfinished(tab[t])
    BY <2>4, MembersTyped DEF LossInv, AllTold, Told, Unfinished
  <2>7. \A i \in Members(tab[t].queue) : fate'[i] = "open" => i \in Members(q)
    BY <2>1, <2>5, <2>6
  <2> HIDE DEF q
  <2> QED BY <2>1, <2>2, <2>3, <2>7, SaveLosesNothing
<1>11. ASSUME NEW t \in Tabs, NEW i \in Items, Tap(t, i) PROVE TypedMemory' /\ LossInv'
  <2>1. tapped' = [tapped EXCEPT ![t] = Begin(i)] /\ tab[t].open
        /\ UNCHANGED <<tab, shelf, sending, asked, fate, opened>>
    BY <1>11 DEF Tap
  <2>2. \A u \in Tabs : ~tab[u].open => tapped'[u].at = "idle"
    BY <2>1 DEF LossInv, ShutIsEmpty, TypedRest
  <2> QED BY <1>3, <2>1, <2>2, RestLosesNothing DEF LossInv, ShutIsEmpty
<1>12. ASSUME NEW t \in Tabs, ServeTap(t) PROVE TypedMemory' /\ LossInv'
  <2>1. PICK o : tapped' = [tapped EXCEPT ![t] = o]
    BY <1>12 DEF ServeTap
  <2>2. tab[t].open /\ UNCHANGED <<tab, shelf, sending, asked, fate, opened>>
    BY <1>12, WhoActsIsOpen DEF ServeTap, histVars
  <2>3. \A u \in Tabs : ~tab[u].open => tapped'[u].at = "idle"
    BY <2>1, <2>2 DEF LossInv, ShutIsEmpty, TypedRest
  <2> QED BY <1>3, <2>2, <2>3, RestLosesNothing DEF LossInv, ShutIsEmpty
<1>13. ASSUME NEW t \in Tabs, ServeLoop(t) PROVE TypedMemory' /\ LossInv'
  <2>1. PICK o \in Outcomes(sending[t].item) : sending' = [sending EXCEPT ![t] = o]
    BY <1>13 DEF ServeLoop
  <2>2. tab[t].open /\ UNCHANGED <<tab, shelf, tapped, asked, fate, opened>>
    BY <1>13, WhoActsIsOpen DEF ServeLoop, histVars
  <2>3. o \in Calls /\ o.item \in Items
    BY <1>13, OutcomesTyped DEF ServeLoop, TypedMemory
  <2>4. TypedMemory'
    BY <2>1, <2>2, <2>3 DEF TypedMemory
  <2>5. \A u \in Tabs : ~tab[u].open => sending'[u].at = "idle"
    BY <2>1, <2>2 DEF LossInv, ShutIsEmpty, TypedMemory
  <2> QED BY <2>2, <2>4, <2>5, RestLosesNothing DEF LossInv, ShutIsEmpty
<1>14. CASE GoOffline \/ UNCHANGED queueVars
  <2>1. UNCHANGED <<tab, shelf, sending, tapped, asked, fate, opened>>
    BY <1>14 DEF GoOffline, queueVars, histVars
  <2> QED BY <1>3, <2>1, RestLosesNothing DEF LossInv, ShutIsEmpty
<1>15. ASSUME NEW t \in Tabs, OpenTab(t) \/ CloseTab(t) PROVE TypedMemory' /\ LossInv'
  BY <1>15, OpenLosesNothing, CloseLosesNothing
<1>16. ASSUME NEW t \in Tabs, NEW i \in Items, BackoffEnds(t, i) PROVE TypedMemory' /\ LossInv'
  BY <1>16, BackoffLosesNothing
<1>17. CASE GoOnline
  BY <1>17, OnlineLosesNothing
<1> QED BY <1>4, <1>5, <1>6, <1>7, <1>8, <1>9, <1>10, <1>11, <1>12, <1>13, <1>14, <1>15, <1>16,
           <1>17 DEF OQNext

(* The histories and the calls of the pages keep their types.                 *)
LEMMA RestStep ==
  ASSUME TypedMemory, TypedRest, [OQNext]_queueVars PROVE TypedRest'
<1> USE DEF TypedRest
<1>1. CASE GoOffline \/ GoOnline \/ UNCHANGED queueVars
  BY <1>1 DEF GoOffline, GoOnline, histVars, queueVars
<1>2. ASSUME NEW t \in Tabs, OpenTab(t) \/ ClearCompleted(t) \/ SyncNow(t) PROVE TypedRest'
  BY <1>2 DEF OpenTab, ClearCompleted, SyncNow, histVars
<1>3. ASSUME NEW t \in Tabs, CloseTab(t) PROVE TypedRest'
  <2>1. sending[t].at # "idle" => sending[t].item \in Items
    BY DEF TypedMemory
  <2> QED BY <1>3, <2>1 DEF CloseTab, NoCall, Calls, Answers
<1>4. ASSUME NEW t \in Tabs, ServeLoop(t) PROVE TypedRest'
  BY <1>4 DEF ServeLoop, histVars
<1>5. ASSUME NEW t \in Tabs, ServeTap(t) PROVE TypedRest'
  <2>1. PICK o \in Outcomes(tapped[t].item) : tapped' = [tapped EXCEPT ![t] = o]
    BY <1>5 DEF ServeTap
  <2>2. o \in Calls /\ o.item \in Items
    BY <1>5, OutcomesTyped DEF ServeTap
  <2> QED BY <1>5, <2>1, <2>2 DEF ServeTap, histVars
<1>6. ASSUME NEW t \in Tabs, Answered(t) PROVE TypedRest'
  <2>1. fate' = fate \/ fate' = [fate EXCEPT ![sending[t].item] = "sent"]
    BY <1>6 DEF Answered
  <2> QED BY <1>6, <2>1 DEF Answered
<1>7. ASSUME NEW t \in Tabs, TapAnswered(t) PROVE TypedRest'
  <2>1. tapped[t].item \in Items /\ tapped' = [tapped EXCEPT ![t] = NoCall]
    BY <1>7 DEF TapAnswered
  <2>2. asked' = asked \/ asked' = Append(asked, tapped[t].item)
    BY <1>7 DEF TapAnswered, Put
  <2>3. asked' \in Seq(Items)
    BY <2>1, <2>2, AppendMembers
  <2> QED BY <1>7, <2>1, <2>3 DEF TapAnswered, NoCall, Calls, Answers
<1>8. ASSUME NEW t \in Tabs, NEW i \in Items, Enqueue(t, i) PROVE TypedRest'
  <2>1. asked' \in Seq(Items)
    BY <1>8 DEF Enqueue, Put
  <2> QED BY <1>8, <2>1 DEF Enqueue
<1>9. ASSUME NEW t \in Tabs, NEW i \in Items, Tap(t, i) PROVE TypedRest'
  BY <1>9, BeginTyped DEF Tap
<1>10. ASSUME NEW t \in Tabs, NEW i \in Items, ResolveConflict(t, i) \/ BackoffEnds(t, i)
       PROVE  TypedRest'
  BY <1>10 DEF ResolveConflict, BackoffEnds, histVars
<1>11. ASSUME NEW t \in Tabs, NEW i \in Items, RetryItem(t, i) PROVE TypedRest'
  <2>1. pressed[i] + 1 \in 0..MaxPresses
    BY <1>11, QueueBounds DEF RetryItem
  <2> QED BY <1>11, <2>1 DEF RetryItem
<1> QED BY <1>1, <1>2, <1>3, <1>4, <1>5, <1>6, <1>7, <1>8, <1>9, <1>10, <1>11 DEF OQNext

(* Tabs are opened one at a time.                                             *)
LEMMA FinitelyManyOpened ==
  ASSUME IsFiniteSet(opened), [OQNext]_queueVars PROVE IsFiniteSet(opened)'
<1>1. ASSUME NEW t \in Tabs, OpenTab(t) PROVE IsFiniteSet(opened')
  BY <1>1, FS_AddElement DEF OpenTab
<1>2. CASE GoOffline \/ GoOnline \/ UNCHANGED queueVars
  BY <1>2 DEF GoOffline, GoOnline, histVars, queueVars
<1>3. ASSUME NEW t \in Tabs, \/ CloseTab(t) \/ ClearCompleted(t) \/ SyncNow(t) \/ ServeLoop(t)
                           \/ ServeTap(t) \/ Answered(t) \/ TapAnswered(t)
      PROVE  UNCHANGED opened
  BY <1>3 DEF CloseTab, ClearCompleted, SyncNow, ServeLoop, ServeTap, Answered, TapAnswered, histVars
<1>4. ASSUME NEW t \in Tabs, NEW i \in Items,
             Enqueue(t, i) \/ Tap(t, i) \/ ResolveConflict(t, i) \/ RetryItem(t, i) \/ BackoffEnds(t, i)
      PROVE  UNCHANGED opened
  BY <1>4 DEF Enqueue, Tap, ResolveConflict, RetryItem, BackoffEnds, histVars
<1> QED BY <1>1, <1>2, <1>3, <1>4 DEF OQNext

QueueInv ==
  /\ Known /\ KeyGuards
  /\ TypedMemory /\ TypedRest /\ LossInv /\ IsFiniteSet(opened)

LEMMA InitQueue == OQInit => QueueInv
<1> SUFFICES ASSUME OQInit PROVE QueueInv
  OBVIOUS
<1>1. TypedMemory
  BY ClosedTyped, SavedTyped DEF OQInit, TypedMemory, NoCall, Calls, Answers
<1>2. TypedRest
  <2>1. <<>> \in Seq(Items) /\ 0 \in 0..MaxPresses
    BY QueueBounds
  <2>2. NoCall \in Calls /\ NoCall.at = "idle"
    BY DEF NoCall, Calls, Answers
  <2> QED BY <2>1, <2>2 DEF OQInit, TypedRest
<1>3. Saved(ClosedTab).order = <<>> /\ \A i \in Items : Saved(ClosedTab).obj[i].st # "completed"
  BY DEF Saved, ClosedTab, NewObj, Members
<1>4. AllTold
  BY <1>3 DEF OQInit, AllTold, Told, ClosedTab, NewObj
<1>5. ShutIsEmpty
  BY DEF OQInit, ShutIsEmpty, ClosedTab, NoCall
<1>6. OnShelf
  BY DEF OQInit, OnShelf, ClosedTab, Members
<1>7. IsFiniteSet(opened)
  BY FS_EmptySet DEF OQInit
<1> QED BY <1>1, <1>2, <1>4, <1>5, <1>6, <1>7, InitGuards DEF QueueInv, LossInv

LEMMA QueueInvariant == OQSpec => []QueueInv
<1>1. QueueInv /\ [OQNext]_queueVars => QueueInv'
  BY KnownStep, GuardStep, LossStep, RestStep, FinitelyManyOpened DEF QueueInv
<1> QED BY <1>1, InitQueue, PTL DEF OQSpec

(* The memories of the tabs, the shelf, the calls and the records keep their  *)
(* types; a loop only ever stops at an item of its array.                     *)
THEOREM QueueTyped == OQSpec => []OQTypeOK
<1>1. QueueInv => OQTypeOK
  BY DEF QueueInv, KeyGuards, TypedMemory, TypedRest, OQTypeOK
<1> QED BY <1>1, QueueInvariant, PTL

LEMMA FewIsOneTab ==
  ASSUME IsFiniteSet(opened), Cardinality(opened) <= 1 PROVE OneTab
<1> SUFFICES ASSUME NEW t \in opened, NEW u \in opened, t # u PROVE FALSE
  BY DEF OneTab
<1>1. IsFiniteSet({u}) /\ Cardinality({u}) = 1
  BY FS_Singleton
<1>2. IsFiniteSet({t, u}) /\ Cardinality({t, u}) = 2
  <2>1. {t, u} = {u} \union {t} /\ t \notin {u}
    OBVIOUS
  <2> QED BY <1>1, <2>1, FS_AddElement
<1>3. Cardinality({t, u}) <= Cardinality(opened) /\ Cardinality(opened) \in Nat
  BY FS_Subset, FS_CardinalityType
<1> QED BY <1>2, <1>3

(* While no second tab was ever opened, what was queued and not reported      *)
(* completed is in localStorage, at every point at which the tab may crash.   *)
THEOREM QueuedIsOnShelf == OQSpec => []NothingLost
<1>1. QueueInv => NothingLost
  BY FewIsOneTab DEF QueueInv, LossInv, OnShelf, NothingLost
<1> QED BY <1>1, QueueInvariant, PTL

-----------------------------------------------------------------------------
(* The order of first attempts.  A filter keeps the order of what it leaves.  *)
LEMMA OnlyInOrder ==
  ASSUME NEW S, NEW s \in Seq(S), NEW K
  PROVE  \A m \in DOMAIN Only(s, K) : \A k \in 1..(m - 1) :
            \E n \in DOMAIN s : \E h \in 1..(n - 1) :
               s[n] = Only(s, K)[m] /\ s[h] = Only(s, K)[k]
<1>1. PICK F : Filters(s, K, F, Len(s)) /\ Only(s, K) = F[Len(s)]
  BY OnlyIsFilter
<1> DEFINE Ranged(q, n) == q \in Seq(S) /\ \A m \in DOMAIN q : \E h \in 1..n : s[h] = q[m]
           Ordered(q, n) == \A m \in DOMAIN q : \A k \in 1..(m - 1) :
                              \E h \in 1..n : \E g \in 1..(h - 1) : s[h] = q[m] /\ s[g] = q[k]
           Right(n) == Ranged(F[n], n) /\ Ordered(F[n], n)
           Bad == {n \in Nat : n <= Len(s) /\ ~Right(n)}
<1>2. Len(s) \in Nat
  OBVIOUS
<1>3. \A n \in 0..Len(s) : F[n] = IF n = 0 THEN << >>
           ELSE IF s[n] \in K THEN Append(F[n - 1], s[n]) ELSE F[n - 1]
  BY <1>1 DEF Filters
<1>4. ASSUME Bad # {} PROVE FALSE
  <2>1. PICK n \in Bad : \A k \in Bad : n <= k
    <3>1. Bad \in SUBSET Nat
      OBVIOUS
    <3> HIDE DEF Bad
    <3> QED BY <1>4, <3>1, LeastNumber
  <2>2. n \in Nat /\ n <= Len(s) /\ ~Right(n)
    OBVIOUS
  <2>3. n # 0
    <3>1. F[0] = << >>
      BY <1>2, <1>3
    <3>2. Right(0)
      BY <3>1
    <3> QED BY <2>2, <3>2
  <2>4. n - 1 \in Nat /\ n - 1 <= Len(s) /\ n - 1 \notin Bad
    <3>1. n - 1 \in Nat /\ n - 1 <= Len(s) /\ ~(n <= n - 1)
      BY <2>2, <2>3, <1>2
    <3> HIDE DEF Bad
    <3> QED BY <2>1, <3>1
  <2>5. Right(n - 1)
    BY <2>4
  <2> DEFINE q == F[n - 1]
  <2>6. Ranged(q, n - 1) /\ Ordered(q, n - 1)
    BY <2>5
  <2>7. n \in 0..Len(s) /\ n \in 1..Len(s) /\ s[n] \in S
    BY <2>2, <2>3, <1>2
  <2>8. F[n] = q \/ F[n] = Append(q, s[n])
    <3> HIDE DEF Right, Bad
    <3> QED BY <1>3, <2>3, <2>7
  <2>9. Ranged(q, n) /\ Ordered(q, n)
    <3>1. 1..(n - 1) \subseteq 1..n
      BY <2>2
    <3> HIDE DEF q
    <3> QED BY <2>6, <3>1
  <2>10. CASE F[n] = Append(q, s[n])
    <3> DEFINE r == Append(q, s[n])
    <3>1. q \in Seq(S) /\ Len(q) \in Nat
      BY <2>6
    <3> HIDE DEF q, Right, Bad
    <3>2. /\ r \in Seq(S) /\ DOMAIN r = 1..(Len(q) + 1) /\ DOMAIN q = 1..Len(q)
          /\ r[Len(q) + 1] = s[n] /\ \A m \in 1..Len(q) : r[m] = q[m]
      BY <3>1, <2>7
    <3> HIDE DEF r
    <3>3. Ranged(r, n)
      <4>1. \A m \in DOMAIN r : m = Len(q) + 1 \/ m \in DOMAIN q
        BY <3>1, <3>2
      <4>2. n \in 1..n
        BY <2>2, <2>3
      <4> QED BY <2>9, <3>2, <4>1, <4>2
    <3>4. ASSUME NEW m \in DOMAIN r, NEW k \in 1..(m - 1)
          PROVE  \E h \in 1..n : \E g \in 1..(h - 1) : s[h] = r[m] /\ s[g] = r[k]
      <4>1. CASE m = Len(q) + 1
        <5>1. k \in DOMAIN q /\ r[k] = q[k] /\ r[m] = s[n]
          BY <3>1, <3>2, <4>1
        <5>2. PICK g \in 1..(n - 1) : s[g] = q[k]
          BY <2>6, <5>1
        <5>3. n \in 1..n
          BY <2>2, <2>3
        <5> QED BY <5>1, <5>2, <5>3
      <4>2. CASE m # Len(q) + 1
        <5>1. m \in DOMAIN q /\ k \in 1..(m - 1) /\ k \in DOMAIN q
          BY <3>1, <3>2, <4>2
        <5>2. r[m] = q[m] /\ r[k] = q[k]
          BY <3>2, <5>1
        <5>3. \E h \in 1..n : \E g \in 1..(h - 1) : s[h] = q[m] /\ s[g] = q[k]
          BY <2>9, <5>1
        <5> QED BY <5>2, <5>3
      <4> QED BY <4>1, <4>2
    <3>5. Ordered(r, n)
      BY <3>4
    <3>6. Ranged(F[n], n) /\ Ordered(F[n], n)
      BY <2>10, <3>3, <3>5 DEF r
    <3> QED BY <2>2, <3>6 DEF Right
  <2>11. CASE F[n] = q
    BY <2>2, <2>9, <2>11
  <2> QED BY <2>8, <2>10, <2>11
<1>5. Right(Len(s))
  BY <1>2, <1>4
<1>6. DOMAIN s = 1..Len(s)
  OBVIOUS
<1>7. Ordered(Only(s, K), Len(s))
  BY <1>1, <1>5
<1> QED BY <1>6, <1>7

(* No item is in an array twice, and the loop has before it, in their order,  *)
(* the items that nothing was done with yet: over the array a tab has, all of *)
(* them; over an older one, those that are before another.  P counts how      *)
(* often items were put back by hand, A are the items that were ever queued.  *)
Distinct(s) == \A n \in DOMAIN s : \A k \in 1..(n - 1) : s[k] # s[n]

Untried(b, P, j) == b.obj[j].st = "queued" /\ P[j] = 0

InOrder(b, P) ==
  \A n \in DOMAIN b.queue, m \in DOMAIN b.left :
     b.left[m] = b.queue[n] =>
       \A k \in 1..(n - 1) :
         Untried(b, P, b.queue[k]) => \E h \in 1..(m - 1) : b.left[h] = b.queue[k]

Covered(b, P) ==
  b.busy /\ b.live =>
    \A k \in DOMAIN b.queue : Untried(b, P, b.queue[k]) => b.queue[k] \in Members(b.left)

OrderOK(b, P, A) ==
  /\ Distinct(b.queue) /\ InOrder(b, P) /\ Covered(b, P)
  /\ Members(b.queue) \subseteq A /\ Members(b.left) \subseteq A

(* The item the loop waits for is marked.                                     *)
Marked(b, c, A) == c.at # "idle" => c.item \in A /\ b.obj[c.item].st = "syncing"

OrderInv ==
  /\ Distinct(shelf.order) /\ Members(shelf.order) \subseteq Members(asked)
  /\ \A t \in Tabs : /\ OrderOK(tab[t], pressed, Members(asked))
                     /\ Marked(tab[t], sending[t], Members(asked))

(* It stays while no item of the array becomes untried.                       *)
LEMMA OrderStays ==
  ASSUME NEW b \in TabMemory, NEW P, NEW A, OrderOK(b, P, A),
         NEW c \in TabMemory, NEW Q, NEW B, A \subseteq B,
         c.queue = b.queue, c.left = b.left, c.busy = b.busy, c.live = b.live,
         \A j \in A : Untried(c, Q, j) => Untried(b, P, j)
  PROVE  OrderOK(c, Q, B)
<1>1. \A k \in DOMAIN b.queue : Untried(c, Q, b.queue[k]) => Untried(b, P, b.queue[k])
  BY DEF OrderOK, Members
<1>2. Covered(c, Q)
  BY <1>1 DEF OrderOK, Covered
<1>3. InOrder(c, Q)
  <2> SUFFICES ASSUME NEW n \in DOMAIN b.queue, NEW m \in DOMAIN b.left, b.left[m] = b.queue[n],
                      NEW k \in 1..(n - 1), Untried(c, Q, b.queue[k])
               PROVE  \E h \in 1..(m - 1) : b.left[h] = b.queue[k]
    BY DEF InOrder
  <2>1. b.queue \in Seq(Items)
    BY DEF TabMemory
  <2>2. k \in DOMAIN b.queue
    BY <2>1
  <2> QED BY <1>1, <2>2 DEF OrderOK, InOrder
<1> QED BY <1>2, <1>3 DEF OrderOK

(* The loop enters the array a tab has.                                       *)
LEMMA EnteredInOrder ==
  ASSUME NEW b \in TabMemory, NEW P, NEW A, Distinct(b.queue), Members(b.queue) \subseteq A
  PROVE  OrderOK(Entered(b), P, A)
<1> DEFINE c == Entered(b)
<1>1. c.queue = b.queue /\ c.left = b.queue /\ b.queue \in Seq(Items)
  BY DEF Entered, TabMemory
<1> HIDE DEF c
<1>2. Covered(c, P)
  BY <1>1 DEF Covered, Members
<1>3. InOrder(c, P)
  <2> SUFFICES ASSUME NEW n \in DOMAIN b.queue, NEW m \in DOMAIN b.queue,
                      b.queue[m] = b.queue[n], NEW k \in 1..(n - 1)
               PROVE  \E h \in 1..(m - 1) : b.queue[h] = b.queue[k]
    BY <1>1 DEF InOrder
  <2>1. n \in 1..Len(b.queue) /\ m \in 1..Len(b.queue) /\ Len(b.queue) \in Nat
    BY <1>1
  <2>2. ~(m < n) /\ ~(n < m)
    <3>1. m < n => m \in 1..(n - 1)
      BY <2>1
    <3>2. n < m => n \in 1..(m - 1)
      BY <2>1
    <3> QED BY <3>1, <3>2 DEF Distinct
  <2>3. m = n
    BY <2>1, <2>2
  <2> QED BY <2>3
<1> QED BY <1>1, <1>2, <1>3 DEF OrderOK, c

(* The item the loop takes up leaves no untried one behind that is before it. *)
LEMMA TakenInOrder ==
  ASSUME NEW b \in TabMemory, NEW P, NEW A, OrderOK(b, P, A), NextUp(b) # {},
         NEW n \in DOMAIN b.queue, b.queue[n] = Sends(b), NEW k \in 1..(n - 1)
  PROVE  ~Untried(b, P, b.queue[k])
<1> DEFINE m == CHOOSE m \in NextUp(b) : TRUE
<1>1. m \in NextUp(b)
  OBVIOUS
<1>2. m \in 1..Len(b.left) /\ b.left \in Seq(Items) /\ Len(b.left) \in Nat
  BY NextUpTyped DEF TabMemory
<1>3. Sends(b) = b.left[m]
  BY NextUpTyped
<1> HIDE DEF m
<1>4. SUFFICES ASSUME Untried(b, P, b.queue[k]) PROVE FALSE
  OBVIOUS
<1>5. PICK h \in 1..(m - 1) : b.left[h] = b.queue[k]
  BY <1>2, <1>3, <1>4 DEF OrderOK, InOrder
<1>6. h \in DOMAIN b.left /\ ~(m <= h)
  BY <1>2
<1>7. Eligible(b, b.left[h])
  BY <1>4, <1>5 DEF Untried, Eligible
<1> QED BY <1>1, <1>6, <1>7 DEF NextUp

LEMMA WalkInOrder ==
  ASSUME NEW b \in TabMemory, NEW P, NEW A, OrderOK(b, P, A)
  PROVE  OrderOK(Walk(b), P, A) /\ Marked(Walk(b), BeginOrRest(Sends(b)), A)
<1> DEFINE c == Walk(b)
<1>0. /\ b.queue \in Seq(Items) /\ b.left \in Seq(Items) /\ Len(b.left) \in Nat
      /\ b.obj \in [Items -> Obj]
  BY DEF TabMemory
<1>1. CASE NextUp(b) = {}
  <2>1. /\ c.queue = b.queue /\ c.left = <<>> /\ c.busy = FALSE
    BY <1>1 DEF Walk, TabMemory
  <2>2. BeginOrRest(Sends(b)).at = "idle"
    BY <1>1 DEF Sends, BeginOrRest, NoCall
  <2> HIDE DEF c
  <2>3. OrderOK(c, P, A)
    BY <2>1 DEF OrderOK, InOrder, Covered, Members
  <2> QED BY <2>2, <2>3 DEF Marked, c
<1>2. CASE NextUp(b) # {}
  <2> DEFINE d == CHOOSE n \in NextUp(b) : TRUE
             rest == SubSeq(b.left, d + 1, Len(b.left))
             i == b.left[d]
  <2>1. d \in 1..Len(b.left) /\ i \in Items /\ Sends(b) = i
    BY <1>2, NextUpTyped
  <2>2. d \in NextUp(b)
    BY <1>2
  <2>3. c = [b EXCEPT !.obj[i].st = "syncing", !.left = rest]
    BY <1>2 DEF Walk
  <2>4. /\ Len(rest) = Len(b.left) - d /\ DOMAIN rest = 1..(Len(b.left) - d)
        /\ \A m \in 1..(Len(b.left) - d) : rest[m] = b.left[d + m]
    <3> HIDE DEF d
    <3> QED BY <1>0, <2>1
  <2>5. /\ c.queue = b.queue /\ c.left = rest /\ c.busy = b.busy /\ c.live = b.live
        /\ c.obj[i].st = "syncing" /\ \A j \in Items \ {i} : c.obj[j] = b.obj[j]
    <3> HIDE DEF d, rest
    <3>1. c.obj = [b.obj EXCEPT ![i].st = "syncing"]
      BY <2>1, <2>3 DEF TabMemory
    <3> QED BY <1>0, <2>1, <2>3, <3>1 DEF TabMemory, Obj
  <2>6. \A h \in 1..(d - 1) : ~Untried(b, P, b.left[h])
    <3> HIDE DEF d
    <3>1. \A h \in 1..(d - 1) : h \in DOMAIN b.left /\ ~(d <= h)
      BY <1>0, <2>1
    <3>2. \A h \in DOMAIN b.left : Eligible(b, b.left[h]) => d <= h
      BY <2>2 DEF NextUp
    <3> QED BY <3>1, <3>2 DEF Untried, Eligible
  <2> HIDE DEF c, d, rest
  <2>7. \A k \in DOMAIN b.queue : Untried(c, P, b.queue[k])
           => b.queue[k] # i /\ Untried(b, P, b.queue[k])
    <3>1. \A k \in DOMAIN b.queue : b.queue[k] \in Items
      BY <1>0
    <3> QED BY <2>5, <3>1 DEF Untried
  (* What is before an item of the rest is in the rest, if it is untried.     *)
  <2>8. ASSUME NEW k \in DOMAIN b.queue, Untried(c, P, b.queue[k]),
               NEW h \in 1..Len(b.left), b.left[h] = b.queue[k]
        PROVE  h > d /\ h - d \in DOMAIN rest /\ rest[h - d] = b.queue[k]
    <3>1. ~(h <= d)
      <4>1. h # d
        BY <2>7, <2>8
      <4>2. h \notin 1..(d - 1)
        BY <2>6, <2>7, <2>8
      <4> QED BY <2>1, <4>1, <4>2
    <3>2. h > d /\ h - d \in 1..(Len(b.left) - d) /\ d + (h - d) = h
      BY <1>0, <2>1, <3>1
    <3> QED BY <2>4, <2>8, <3>2
  <2>9. InOrder(c, P)
    <3> SUFFICES ASSUME NEW n \in DOMAIN b.queue, NEW m \in DOMAIN rest, rest[m] = b.queue[n],
                        NEW k \in 1..(n - 1), Untried(c, P, b.queue[k])
                 PROVE  \E h \in 1..(m - 1) : rest[h] = b.queue[k]
      BY <2>5 DEF InOrder
    <3>1. k \in DOMAIN b.queue
      BY <1>0
    <3>2. m \in 1..(Len(b.left) - d) /\ rest[m] = b.left[d + m]
      BY <2>4
    <3>3. /\ m \in Nat /\ d \in Nat /\ d + m \in 1..Len(b.left) /\ d + m \in DOMAIN b.left
      BY <1>0, <2>1, <3>2
    <3>4. b.left[d + m] = b.queue[n]
      BY <3>2
    <3>5. PICK h \in 1..((d + m) - 1) : b.left[h] = b.queue[k]
      BY <2>7, <3>1, <3>3, <3>4 DEF OrderOK, InOrder
    <3>6. h \in 1..Len(b.left)
      BY <1>0, <3>3, <3>5
    <3>7. h > d /\ rest[h - d] = b.queue[k]
      BY <2>8, <3>1, <3>5, <3>6
    <3>8. h - d \in 1..(m - 1)
      BY <3>3, <3>5, <3>7
    <3> QED BY <3>7, <3>8
  <2>10. Covered(c, P)
    <3> SUFFICES ASSUME b.busy, b.live, NEW k \in DOMAIN b.queue, Untried(c, P, b.queue[k])
                 PROVE  b.queue[k] \in Members(rest)
      BY <2>5 DEF Covered
    <3>1. PICK h \in DOMAIN b.left : b.left[h] = b.queue[k]
      BY <2>7 DEF OrderOK, Covered, Members
    <3>2. h \in 1..Len(b.left)
      BY <1>0, <3>1
    <3>3. h - d \in DOMAIN rest /\ rest[h - d] = b.queue[k]
      BY <2>8, <3>1, <3>2
    <3> QED BY <3>3 DEF Members
  <2>11. Members(rest) \subseteq Members(b.left) /\ i \in Members(b.left)
    <3>1. \A m \in DOMAIN rest : d + m \in DOMAIN b.left /\ rest[m] = b.left[d + m]
      BY <1>0, <2>1, <2>4
    <3>2. d \in DOMAIN b.left
      BY <1>0, <2>1
    <3> QED BY <3>1, <3>2 DEF Members
  <2>12. OrderOK(c, P, A)
    BY <2>5, <2>9, <2>10, <2>11 DEF OrderOK
  <2>13. Begin(i).item = i /\ i \in A
    BY <2>1, <2>11, BeginTyped DEF OrderOK
  <2>14. BeginOrRest(Sends(b)) = Begin(i)
    BY <2>1, ItemSetsAreDisjoint DEF BeginOrRest
  <2>15. Marked(c, BeginOrRest(Sends(b)), A)
    BY <2>5, <2>13, <2>14 DEF Marked
  <2> QED BY <2>12, <2>15 DEF c
<1> QED BY <1>1, <1>2

(* A new item comes last, also for the loop if it runs over the array.        *)
LEMMA PushedInOrder ==
  ASSUME NEW b \in TabMemory, NEW P, NEW A, OrderOK(b, P, A), NEW i \in Items \ A,
         NEW B, B = A \union {i}
  PROVE  OrderOK(Pushed(b, i), P, B)
<1> DEFINE c == Pushed(b, i)
<1>0. /\ b.queue \in Seq(Items) /\ Len(b.queue) \in Nat /\ DOMAIN b.queue = 1..Len(b.queue)
      /\ b.left \in Seq(Items) /\ Len(b.left) \in Nat /\ DOMAIN b.left = 1..Len(b.left)
  BY DEF TabMemory
<1>1. /\ c.queue = Append(b.queue, i) /\ c.obj = [b.obj EXCEPT ![i] = NewObj]
      /\ c.left = IF b.busy /\ b.live THEN Append(b.left, i) ELSE b.left
      /\ c.busy = b.busy /\ c.live = b.live
  BY DEF Pushed, TabMemory
<1>2. /\ DOMAIN c.queue = 1..(Len(b.queue) + 1) /\ c.queue[Len(b.queue) + 1] = i
      /\ \A n \in DOMAIN b.queue : c.queue[n] = b.queue[n] /\ b.queue[n] \in A
  BY <1>0, <1>1 DEF OrderOK, Members
<1>3. /\ Members(c.queue) = Members(b.queue) \union {i}
      /\ Members(c.left) \subseteq Members(b.left) \union {i}
      /\ Members(b.left) \subseteq Members(c.left)
      /\ b.busy /\ b.live => i \in Members(c.left)
  BY <1>0, <1>1, AppendMembers
<1>4. \A m \in DOMAIN b.left : m \in DOMAIN c.left /\ c.left[m] = b.left[m] /\ b.left[m] \in A
  <2>1. \A m \in DOMAIN b.left : b.left[m] \in A
    BY DEF OrderOK, Members
  <2>2. CASE b.busy /\ b.live
    BY <1>0, <1>1, <2>1, <2>2
  <2>3. CASE ~(b.busy /\ b.live)
    BY <1>1, <2>1, <2>3
  <2> QED BY <2>2, <2>3
<1>5. \A m \in DOMAIN c.left : m \notin DOMAIN b.left =>
        m = Len(b.left) + 1 /\ c.left[m] = i /\ b.busy /\ b.live
  BY <1>0, <1>1
<1>6. \A j \in A : Untried(c, P, j) => Untried(b, P, j)
  BY <1>1 DEF Untried, TabMemory
<1> HIDE DEF c
<1>7. Distinct(c.queue)
  <2> SUFFICES ASSUME NEW n \in DOMAIN c.queue, NEW k \in 1..(n - 1) PROVE c.queue[k] # c.queue[n]
    BY DEF Distinct
  <2>1. k \in DOMAIN b.queue /\ (n = Len(b.queue) + 1 \/ n \in DOMAIN b.queue)
    BY <1>0, <1>2
  <2> QED BY <1>2, <2>1 DEF OrderOK, Distinct
<1>8. Covered(c, P)
  <2> SUFFICES ASSUME b.busy, b.live, NEW n \in DOMAIN c.queue, Untried(c, P, c.queue[n])
               PROVE  c.queue[n] \in Members(c.left)
    BY <1>1 DEF Covered
  <2>1. n = Len(b.queue) + 1 \/ n \in DOMAIN b.queue
    BY <1>0, <1>2
  <2>2. CASE n \in DOMAIN b.queue
    BY <1>2, <1>3, <1>6, <2>2 DEF OrderOK, Covered
  <2> QED BY <1>2, <1>3, <2>1, <2>2
<1>9. InOrder(c, P)
  <2> SUFFICES ASSUME NEW n \in DOMAIN c.queue, NEW m \in DOMAIN c.left, c.left[m] = c.queue[n],
                      NEW k \in 1..(n - 1), Untried(c, P, c.queue[k])
               PROVE  \E h \in 1..(m - 1) : c.left[h] = c.queue[k]
    BY DEF InOrder
  <2>1. k \in DOMAIN b.queue /\ (n = Len(b.queue) + 1 \/ n \in DOMAIN b.queue)
    BY <1>0, <1>2
  <2>2. c.queue[k] = b.queue[k] /\ Untried(b, P, b.queue[k])
    BY <1>2, <1>6, <2>1
  <2>3. CASE n \in DOMAIN b.queue
    <3>1. c.left[m] = b.queue[n] /\ c.left[m] \in A
      BY <1>2, <2>3
    <3>2. m \in DOMAIN b.left /\ b.left[m] = b.queue[n]
      BY <1>4, <1>5, <3>1
    <3>3. PICK h \in 1..(m - 1) : b.left[h] = b.queue[k]
      BY <2>2, <2>3, <3>2 DEF OrderOK, InOrder
    <3>4. h \in DOMAIN b.left
      BY <1>0, <3>2, <3>3
    <3> QED BY <1>4, <2>2, <3>3, <3>4
  <2>4. CASE n = Len(b.queue) + 1
    <3>1. m \notin DOMAIN b.left
      BY <1>2, <1>4, <2>4
    <3>2. m = Len(b.left) + 1 /\ b.busy /\ b.live
      BY <1>5, <3>1
    <3>3. PICK h \in DOMAIN b.left : b.left[h] = b.queue[k]
      BY <2>1, <2>2, <3>2 DEF OrderOK, Covered, Members
    <3>4. h \in 1..(m - 1)
      BY <1>0, <3>2
    <3> QED BY <1>4, <2>2, <3>3, <3>4
  <2> QED BY <2>1, <2>3, <2>4
<1> QED BY <1>3, <1>7, <1>8, <1>9 DEF OrderOK, c

(* A filtered copy takes the place of the array; the loop has the old one.    *)
LEMMA ClearedInOrder ==
  ASSUME NEW b \in TabMemory, NEW P, NEW A, OrderOK(b, P, A), NEW K,
         NEW c \in TabMemory, c.queue = Only(b.queue, K), c.left = b.left, ~c.live, c.obj = b.obj
  PROVE  OrderOK(c, P, A)
<1>1. b.queue \in Seq(Items)
  BY DEF TabMemory
<1>2. \A m \in DOMAIN c.queue : \A k \in 1..(m - 1) :
         \E n \in DOMAIN b.queue : \E h \in 1..(n - 1) :
            b.queue[n] = c.queue[m] /\ b.queue[h] = c.queue[k]
  BY <1>1, OnlyInOrder
<1>3. Distinct(c.queue)
  BY <1>2 DEF OrderOK, Distinct
<1>4. InOrder(c, P)
  <2> SUFFICES ASSUME NEW n \in DOMAIN c.queue, NEW m \in DOMAIN b.left, b.left[m] = c.queue[n],
                      NEW k \in 1..(n - 1), Untried(c, P, c.queue[k])
               PROVE  \E h \in 1..(m - 1) : b.left[h] = c.queue[k]
    BY DEF InOrder
  <2>1. PICK g \in DOMAIN b.queue : \E h \in 1..(g - 1) :
               b.queue[g] = c.queue[n] /\ b.queue[h] = c.queue[k]
    BY <1>2
  <2>2. PICK h \in 1..(g - 1) : b.queue[g] = c.queue[n] /\ b.queue[h] = c.queue[k]
    BY <2>1
  <2>3. Untried(b, P, b.queue[h])
    BY <2>2 DEF Untried
  <2> QED BY <2>2, <2>3 DEF OrderOK, InOrder
<1>5. Members(c.queue) \subseteq Members(b.queue)
  BY <1>1, OnlyKeeps
<1> QED BY <1>3, <1>4, <1>5 DEF OrderOK, Covered

(* What FirstTriesInOrder says of one tab.                                    *)
TakesInOrder(t) ==
  \A n \in DOMAIN tab[t].queue :
    LET i == tab[t].queue[n]
    IN  (sending[t].item # i /\ sending'[t].item = i) =>
          \A k \in 1..(n - 1) :
            LET j == tab[t].queue[k]
            IN  tab[t].obj[j].st = "queued" => pressed'[j] > 0

(* The memory b has the array of tab t, perhaps with more at its end, and     *)
(* what is queued there is queued in b.                                       *)
Continues(t, b) ==
  \A n \in DOMAIN tab[t].queue :
    /\ n \in DOMAIN b.queue /\ b.queue[n] = tab[t].queue[n]
    /\ tab[t].obj[tab[t].queue[n]].st = "queued" => b.obj[tab[t].queue[n]].st = "queued"

NoneForgotten ==
  /\ Members(asked) \subseteq Members(asked')
  /\ \A j \in Members(asked) : pressed[j] # 0 => pressed'[j] # 0

(* A loop that runs on from b takes up items in order.                        *)
LEMMA TakesNext ==
  ASSUME TypedMemory, TypedRest', NEW t \in Tabs, NEW b \in TabMemory,
         OrderOK(b, pressed', Members(asked')), Continues(t, b),
         sending'[t] = BeginOrRest(Sends(b))
  PROVE  TakesInOrder(t)
<1> SUFFICES ASSUME NEW n \in DOMAIN tab[t].queue, sending'[t].item = tab[t].queue[n],
                    NEW k \in 1..(n - 1), tab[t].obj[tab[t].queue[k]].st = "queued"
             PROVE  pressed'[tab[t].queue[k]] > 0
  BY DEF TakesInOrder
<1>1. tab[t].queue \in Seq(Items)
  BY DEF TypedMemory, TabMemory
<1>2. k \in DOMAIN tab[t].queue /\ tab[t].queue[n] \in Items /\ tab[t].queue[k] \in Items
  BY <1>1
<1>3. NextUp(b) # {}
  BY <1>2, ItemSetsAreDisjoint DEF Sends, BeginOrRest, NoCall
<1>4. Sends(b) = tab[t].queue[n]
  <2>1. Sends(b) \in Items
    BY <1>3, NextUpTyped
  <2>2. BeginOrRest(Sends(b)) = Begin(Sends(b)) /\ Begin(Sends(b)).item = Sends(b)
    BY <2>1, BeginTyped, ItemSetsAreDisjoint DEF BeginOrRest
  <2> QED BY <2>2
<1>5. /\ n \in DOMAIN b.queue /\ b.queue[n] = tab[t].queue[n] /\ b.queue[k] = tab[t].queue[k]
      /\ b.obj[b.queue[k]].st = "queued"
  BY <1>2 DEF Continues
<1>6. ~Untried(b, pressed', b.queue[k])
  BY <1>3, <1>4, <1>5, TakenInOrder
<1>7. pressed'[tab[t].queue[k]] # 0 /\ pressed'[tab[t].queue[k]] \in Nat
  BY <1>2, <1>5, <1>6, QueueBounds DEF Untried, TypedRest
<1> QED BY <1>7

(* The other tabs do as before.                                               *)
LEMMA OthersStayInOrder ==
  ASSUME TypedMemory, OrderInv, NoneForgotten, NEW u \in Tabs,
         tab'[u] = tab[u], sending'[u] = sending[u]
  PROVE  /\ OrderOK(tab'[u], pressed', Members(asked'))
         /\ Marked(tab'[u], sending'[u], Members(asked'))
         /\ TakesInOrder(u)
<1>1. /\ OrderOK(tab[u], pressed, Members(asked)) /\ Marked(tab[u], sending[u], Members(asked))
      /\ tab[u] \in TabMemory
  BY DEF OrderInv, TypedMemory
<1>2. \A j \in Members(asked) : Untried(tab[u], pressed', j) => Untried(tab[u], pressed, j)
  BY DEF Untried, NoneForgotten
<1>3. OrderOK(tab[u], pressed', Members(asked'))
  BY <1>1, <1>2, OrderStays DEF NoneForgotten
<1>4. Marked(tab[u], sending[u], Members(asked'))
  BY <1>1 DEF Marked, NoneForgotten
<1>5. TakesInOrder(u)
  BY DEF TakesInOrder
<1> QED BY <1>3, <1>4, <1>5

Ordered == OrderInv' /\ \A u \in Tabs : TakesInOrder(u)

(* A tab saves a memory in order, and goes on with it or not.                 *)
LEMMA ProcessInOrder ==
  ASSUME TypedMemory, TypedRest', OrderInv, NoneForgotten, NEW t \in Tabs, NEW b \in TabMemory,
         \/ SaveAndProcess(t, b) \/ RunOn(t, b)
         \/ Saves(t, b) /\ UNCHANGED sending,
         OrderOK(b, pressed', Members(asked')), Continues(t, b) \/ UNCHANGED sending,
         ~RunOn(t, b) => Marked(b, sending[t], Members(asked'))
  PROVE  Ordered
<1> DEFINE A == Members(asked')
           Good(d) == /\ d \in TabMemory /\ d.queue = b.queue /\ Saves(t, d)
                      /\ OrderOK(d, pressed', A) /\ Marked(d, sending'[t], A)
<1>1. ASSUME NEW d \in TabMemory, d.queue = b.queue, d.obj = b.obj, RunOn(t, d),
             OrderOK(d, pressed', A)
      PROVE  Good(Walk(d)) /\ TakesInOrder(t) /\ \A u \in Tabs \ {t} : sending'[u] = sending[u]
  <2>1. /\ Saves(t, Walk(d)) /\ sending' = [sending EXCEPT ![t] = BeginOrRest(Sends(d))]
    BY <1>1 DEF RunOn, Saves
  <2>2. /\ sending'[t] = BeginOrRest(Sends(d)) /\ \A u \in Tabs \ {t} : sending'[u] = sending[u]
    BY <2>1 DEF TypedMemory
  <2>3. Walk(d) \in TabMemory /\ Walk(d).queue = d.queue
    BY <1>1, WalkTyped
  <2>4. OrderOK(Walk(d), pressed', A) /\ Marked(Walk(d), BeginOrRest(Sends(d)), A)
    BY <1>1, WalkInOrder
  <2>5. Continues(t, b) => Continues(t, d)
    BY <1>1 DEF Continues
  <2>6. TakesInOrder(t)
    <3>1. CASE UNCHANGED sending
      BY <3>1 DEF TakesInOrder
    <3> QED BY <1>1, <2>2, <2>5, <3>1, TakesNext
  <2> QED BY <1>1, <2>1, <2>2, <2>3, <2>4, <2>6
<1>2. PICK c : Good(c) /\ TakesInOrder(t) /\ \A u \in Tabs \ {t} : sending'[u] = sending[u]
  <2>1. CASE RunOn(t, b)
    BY <1>1, <2>1
  <2>2. CASE SaveAndProcess(t, b) /\ MayEnter(b, online)
    <3>1. Entered(b) \in TabMemory /\ Entered(b).queue = b.queue /\ Entered(b).obj = b.obj
      BY EnteredTyped
    <3>2. OrderOK(Entered(b), pressed', A)
      BY EnteredInOrder DEF OrderOK
    <3>3. RunOn(t, Entered(b))
      BY <2>2 DEF SaveAndProcess
    <3> HIDE DEF Good, A
    <3> QED BY <1>1, <3>1, <3>2, <3>3
  <2>3. CASE Saves(t, b) /\ UNCHANGED sending /\ ~RunOn(t, b)
    BY <2>3 DEF TakesInOrder
  <2> QED BY <2>1, <2>2, <2>3 DEF SaveAndProcess, Saves
<1>3. /\ tab'[t] = c /\ \A u \in Tabs \ {t} : tab'[u] = tab[u]
      /\ shelf'.order = c.queue
  BY <1>2, SavedTyped DEF Saves, TypedMemory
<1>4. \A u \in Tabs : /\ OrderOK(tab'[u], pressed', A) /\ Marked(tab'[u], sending'[u], A)
                      /\ TakesInOrder(u)
  <2>1. TAKE u \in Tabs
  <2>2. CASE u = t
    BY <1>2, <1>3, <2>2
  <2>3. CASE u # t
    <3>1. tab'[u] = tab[u] /\ sending'[u] = sending[u]
      BY <1>2, <1>3, <2>3
    <3> QED BY <3>1, OthersStayInOrder
  <2> QED BY <2>2, <2>3
<1>5. Distinct(shelf'.order) /\ Members(shelf'.order) \subseteq A
  BY <1>2, <1>3 DEF OrderOK
<1>6. OrderInv'
  BY <1>4, <1>5 DEF OrderInv
<1> QED BY <1>4, <1>6 DEF Ordered

(* Steps that leave arrays and statuses alone, and call no further item.      *)
LEMMA RestInOrder ==
  ASSUME TypedMemory, TypedMemory', OrderInv, UNCHANGED <<shelf, asked, pressed>>,
         \A u \in Tabs : /\ tab'[u].queue = tab[u].queue /\ tab'[u].obj = tab[u].obj
                         /\ tab'[u].left = tab[u].left
                         /\ tab'[u].busy = tab[u].busy /\ tab'[u].live = tab[u].live
                         /\ sending'[u].item = sending[u].item
                         /\ sending'[u].at # "idle" => sending[u].at # "idle"
  PROVE  Ordered
<1>1. ASSUME NEW u \in Tabs
      PROVE  /\ OrderOK(tab'[u], pressed', Members(asked'))
             /\ Marked(tab'[u], sending'[u], Members(asked'))
             /\ TakesInOrder(u)
  <2>1. /\ OrderOK(tab[u], pressed, Members(asked)) /\ Marked(tab[u], sending[u], Members(asked))
        /\ tab[u] \in TabMemory /\ tab'[u] \in TabMemory
    BY DEF OrderInv, TypedMemory
  <2>2. \A j \in Members(asked) : Untried(tab'[u], pressed', j) => Untried(tab[u], pressed, j)
    BY DEF Untried
  <2>3. OrderOK(tab'[u], pressed', Members(asked))
    BY <2>1, <2>2, OrderStays
  <2>4. Marked(tab'[u], sending'[u], Members(asked))
    BY <2>1 DEF Marked
  <2>5. TakesInOrder(u)
    BY DEF TakesInOrder
  <2> QED BY <2>3, <2>4, <2>5
<1> QED BY <1>1 DEF Ordered, OrderInv

(* One lemma per operation that touches the arrays or calls items.            *)
LEMMA PutInOrder ==
  ASSUME TypedMemory, TypedRest, TypedRest', OrderInv, NEW t \in Tabs, NEW i \in Items, Put(t, i),
         UNCHANGED pressed
  PROVE  Ordered
<1> DEFINE a == tab[t]
           b == Pushed(a, i)
           A == Members(asked)
<1>1. /\ a \in TabMemory /\ OrderOK(a, pressed, A) /\ Marked(a, sending[t], A)
      /\ i \notin A /\ asked' = Append(asked, i) /\ SaveAndProcess(t, b)
  BY DEF TypedMemory, OrderInv, Put
<1>2. Members(asked') = A \union {i}
  BY <1>1, AppendMembers DEF TypedRest
<1>3. b \in TabMemory /\ b.queue = Append(a.queue, i) /\ b.obj = [a.obj EXCEPT ![i] = NewObj]
  BY <1>1, PushedTyped DEF Pushed, TabMemory
<1>4. OrderOK(b, pressed, Members(asked'))
  BY <1>1, <1>2, PushedInOrder
<1>5. Continues(t, b)
  <2>1. \A n \in DOMAIN a.queue : n \in DOMAIN b.queue /\ b.queue[n] = a.queue[n]
    BY <1>1, <1>3 DEF TabMemory
  <2>2. \A n \in DOMAIN a.queue : b.obj[a.queue[n]] = a.obj[a.queue[n]]
    <3>1. \A n \in DOMAIN a.queue : a.queue[n] \in A
      BY <1>1 DEF OrderOK, Members
    <3>2. \A n \in DOMAIN a.queue : a.queue[n] \in Items
      BY <1>1 DEF TabMemory
    <3> QED BY <1>1, <1>3, <3>1, <3>2 DEF TabMemory
  <2> HIDE DEF b
  <2> QED BY <2>1, <2>2 DEF Continues
<1>6. Marked(b, sending[t], Members(asked'))
  BY <1>1, <1>2, <1>3 DEF Marked, TabMemory, TypedMemory
<1>7. NoneForgotten
  BY <1>2 DEF NoneForgotten
<1> HIDE DEF b
<1> QED BY <1>1, <1>3, <1>4, <1>5, <1>6, <1>7, ProcessInOrder

LEMMA RetryInOrder ==
  ASSUME TypedMemory, TypedRest, TypedRest', OrderInv, NEW t \in Tabs, NEW i \in Items,
         RetryItem(t, i)
  PROVE  Ordered
<1> DEFINE a == tab[t]
           b == [a EXCEPT !.obj[i] = NewObj, !.waiting = @ \ {i}]
           A == Members(asked)
<1>1. /\ a \in TabMemory /\ OrderOK(a, pressed, A) /\ Marked(a, sending[t], A)
      /\ asked' = asked /\ SaveAndProcess(t, b)
      /\ a.obj[i].st \in {"dead_letter", "failed", "conflict", "stale"}
      /\ pressed' = [pressed EXCEPT ![i] = @ + 1]
  BY DEF TypedMemory, OrderInv, RetryItem
<1>2. /\ b \in TabMemory /\ b.queue = a.queue /\ b.left = a.left /\ b.busy = a.busy
      /\ b.live = a.live /\ b.obj = [a.obj EXCEPT ![i] = NewObj]
  BY <1>1 DEF TabMemory, NewObj, Obj, Statuses
<1>3. /\ pressed'[i] # 0 /\ \A j \in Items \ {i} : pressed'[j] = pressed[j]
  BY <1>1, QueueBounds DEF TypedRest
<1>4. A \subseteq Items
  BY MembersTyped DEF TypedRest
<1>5. b.obj[i] = NewObj /\ \A j \in Items \ {i} : b.obj[j] = a.obj[j]
  BY <1>1, <1>2 DEF TabMemory
<1> HIDE DEF b
<1>6. OrderOK(b, pressed', A)
  <2>1. \A j \in A : Untried(b, pressed', j) => Untried(a, pressed, j)
    BY <1>3, <1>4, <1>5 DEF Untried
  <2> QED BY <1>1, <1>2, <2>1, OrderStays
<1>7. Continues(t, b)
  <2>1. \A n \in DOMAIN a.queue : a.queue[n] \in Items
    BY <1>1 DEF TabMemory
  <2> QED BY <1>2, <1>5, <2>1 DEF Continues, NewObj
<1>8. Marked(b, sending[t], A)
  BY <1>1, <1>4, <1>5 DEF Marked
<1>9. NoneForgotten
  BY <1>1, <1>3, <1>4 DEF NoneForgotten
<1> QED BY <1>1, <1>2, <1>6, <1>7, <1>8, <1>9, ProcessInOrder

LEMMA AnsweredInOrder ==
  ASSUME TypedMemory, TypedRest, TypedRest', OrderInv, NEW t \in Tabs, Answered(t)
  PROVE  Ordered
<1> DEFINE a == tab[t]
           i == sending[t].item
           b == AfterAnswer(a, i, sending[t].res)
           A == Members(asked)
<1>1. /\ a \in TabMemory /\ OrderOK(a, pressed, A) /\ i \in Items /\ a.obj[i].st = "syncing"
      /\ asked' = asked /\ pressed' = pressed /\ RunOn(t, b)
  BY DEF TypedMemory, OrderInv, Answered, Marked
<1>2. /\ b \in TabMemory /\ b.queue = a.queue /\ \A j \in Items \ {i} : b.obj[j] = a.obj[j]
  BY <1>1, AnswerTyped
<1>3. b.left = a.left /\ b.busy = a.busy /\ b.live = a.live
  BY <1>1 DEF AfterAnswer, TabMemory
<1>4. b.obj[i].st # "queued"
  BY <1>1 DEF AfterAnswer, StatusAfter, TabMemory, Obj
<1>5. A \subseteq Items
  BY MembersTyped DEF TypedRest
<1> HIDE DEF b, i
<1>6. OrderOK(b, pressed', A)
  <2>1. \A j \in A : Untried(b, pressed', j) => Untried(a, pressed, j)
    BY <1>1, <1>2, <1>4, <1>5 DEF Untried
  <2> QED BY <1>1, <1>2, <1>3, <2>1, OrderStays
<1>7. Continues(t, b)
  <2>1. \A n \in DOMAIN a.queue : a.queue[n] \in Items
    BY <1>1 DEF TabMemory
  <2> QED BY <1>1, <1>2, <2>1 DEF Continues
<1>8. NoneForgotten
  BY <1>1 DEF NoneForgotten
<1> QED BY <1>1, <1>2, <1>6, <1>7, <1>8, ProcessInOrder

LEMMA SyncInOrder ==
  ASSUME TypedMemory, TypedRest, TypedRest', OrderInv, NEW t \in Tabs, SyncNow(t)
  PROVE  Ordered
<1> DEFINE b == Entered(tab[t])
<1>1. /\ tab[t] \in TabMemory /\ OrderOK(tab[t], pressed, Members(asked)) /\ RunOn(t, b)
      /\ UNCHANGED <<asked, pressed>>
  BY DEF TypedMemory, OrderInv, SyncNow, histVars
<1>2. b \in TabMemory /\ b.queue = tab[t].queue /\ b.obj = tab[t].obj
  BY <1>1, EnteredTyped
<1>3. OrderOK(b, pressed, Members(asked))
  BY <1>1, EnteredInOrder DEF OrderOK
<1> HIDE DEF b
<1>4. Continues(t, b)
  BY <1>2 DEF Continues
<1>5. NoneForgotten
  BY <1>1 DEF NoneForgotten
<1> QED BY <1>1, <1>2, <1>3, <1>4, <1>5, ProcessInOrder

LEMMA ResolveInOrder ==
  ASSUME TypedMemory, TypedRest, TypedRest', OrderInv, NEW t \in Tabs, NEW i \in Items,
         ResolveConflict(t, i)
  PROVE  Ordered
<1> DEFINE a == tab[t]
           b == [a EXCEPT !.obj[i].st = "completed"]
           A == Members(asked)
<1>1. /\ a \in TabMemory /\ OrderOK(a, pressed, A) /\ Marked(a, sending[t], A)
      /\ a.obj[i].st \in {"conflict", "stale"}
      /\ UNCHANGED <<asked, pressed, sending>> /\ Saves(t, b)
  BY DEF TypedMemory, OrderInv, ResolveConflict, Saves
<1>2. [a.obj EXCEPT ![i].st = "completed"] \in [Items -> Obj]
  BY <1>1 DEF TabMemory, Obj, Statuses
<1>3. /\ b \in TabMemory /\ b.queue = a.queue /\ b.left = a.left /\ b.busy = a.busy
      /\ b.live = a.live /\ b.obj = [a.obj EXCEPT ![i].st = "completed"]
  BY <1>1, <1>2 DEF TabMemory
<1>4. b.obj[i].st = "completed" /\ \A j \in Items \ {i} : b.obj[j] = a.obj[j]
  BY <1>1, <1>3 DEF TabMemory, Obj
<1>5. A \subseteq Items
  BY MembersTyped DEF TypedRest
<1> HIDE DEF b
<1>6. OrderOK(b, pressed', A)
  <2>1. \A j \in A : Untried(b, pressed', j) => Untried(a, pressed, j)
    BY <1>1, <1>4, <1>5 DEF Untried
  <2> QED BY <1>1, <1>3, <2>1, OrderStays
<1>7. Marked(b, sending[t], A)
  BY <1>1, <1>4, <1>5 DEF Marked
<1>8. NoneForgotten
  BY <1>1 DEF NoneForgotten
<1> QED BY <1>1, <1>3, <1>6, <1>7, <1>8, ProcessInOrder

LEMMA ClearInOrder ==
  ASSUME TypedMemory, TypedRest, TypedRest', OrderInv, NEW t \in Tabs, ClearCompleted(t)
  PROVE  Ordered
<1> DEFINE a == tab[t]
           q == Only(a.queue, Unfinished(a))
           b == [a EXCEPT !.queue = q, !.live = FALSE]
           A == Members(asked)
<1>1. /\ a \in TabMemory /\ OrderOK(a, pressed, A) /\ Marked(a, sending[t], A)
      /\ UNCHANGED <<asked, pressed, sending>> /\ Saves(t, b)
  BY DEF TypedMemory, OrderInv, ClearCompleted, Saves
<1>2. q \in Seq(Items)
  BY <1>1, OnlyKeeps DEF TabMemory
<1> HIDE DEF q
<1>3. /\ b \in TabMemory /\ b.queue = q /\ b.left = a.left /\ ~b.live /\ b.obj = a.obj
  BY <1>1, <1>2 DEF TabMemory
<1> HIDE DEF b
<1>4. OrderOK(b, pressed, A)
  BY <1>1, <1>3, ClearedInOrder DEF q
<1>5. Marked(b, sending[t], A)
  BY <1>1, <1>3 DEF Marked
<1>6. NoneForgotten
  BY <1>1 DEF NoneForgotten
<1> QED BY <1>1, <1>3, <1>4, <1>5, <1>6, ProcessInOrder

LEMMA OpenInOrder ==
  ASSUME TypedMemory, TypedRest, TypedRest', LossInv, OrderInv, NEW t \in Tabs, OpenTab(t)
  PROVE  Ordered
<1>1. PICK w \in SUBSET Items :
        LET b == [ClosedTab EXCEPT !.open = TRUE, !.queue = shelf.order, !.obj = shelf.obj,
                                   !.waiting = w]
        IN  RunOn(t, Entered(b)) \/ (tab' = [tab EXCEPT ![t] = b] /\ UNCHANGED <<shelf, sending>>)
  <2>1. \A due \in SUBSET Items :
          {i \in Members(shelf.order) : shelf.obj[i].st = "failed" /\ i \notin due} \in SUBSET Items
    BY MembersTyped DEF TypedMemory
  <2>2. {i \in Members(shelf.order) : shelf.obj[i].st = "failed"} \subseteq Items
    BY MembersTyped DEF TypedMemory
  <2> QED BY <2>1, <2>2 DEF OpenTab
<1> DEFINE b == [ClosedTab EXCEPT !.open = TRUE, !.queue = shelf.order, !.obj = shelf.obj,
                                  !.waiting = w]
           A == Members(asked)
<1>2. b \in TabMemory /\ b.queue = shelf.order /\ b.left = <<>> /\ b.busy = FALSE
  BY ClosedTyped DEF TabMemory, ClosedTab, TypedMemory
<1>3. UNCHANGED <<asked, pressed>> /\ tab[t].queue = <<>> /\ sending[t].at = "idle"
  BY DEF OpenTab, LossInv, ShutIsEmpty
<1>4. Distinct(b.queue) /\ Members(b.queue) \subseteq A
  BY <1>2 DEF OrderInv
<1>5. RunOn(t, Entered(b)) \/ (tab' = [tab EXCEPT ![t] = b] /\ UNCHANGED <<shelf, sending>>)
  BY <1>1
<1> HIDE DEF b
<1>6. NoneForgotten
  BY <1>3 DEF NoneForgotten
<1>7. CASE RunOn(t, Entered(b))
  <2>1. Entered(b) \in TabMemory /\ OrderOK(Entered(b), pressed', Members(asked'))
    BY <1>2, <1>3, <1>4, EnteredTyped, EnteredInOrder
  <2>2. Continues(t, Entered(b))
    BY <1>3 DEF Continues
  <2> QED BY <1>6, <1>7, <2>1, <2>2, ProcessInOrder
<1>8. CASE tab' = [tab EXCEPT ![t] = b] /\ UNCHANGED <<shelf, sending>>
  <2>1. tab'[t] = b /\ \A u \in Tabs \ {t} : tab'[u] = tab[u] /\ sending'[u] = sending[u]
    BY <1>8 DEF TypedMemory
  <2>2. OrderOK(b, pressed', A)
    BY <1>2, <1>4 DEF OrderOK, InOrder, Covered, Members
  <2>3. Marked(b, sending'[t], A)
    BY <1>3, <1>8 DEF Marked
  <2>4. TakesInOrder(t)
    BY <1>8 DEF TakesInOrder
  <2>5. ASSUME NEW u \in Tabs
        PROVE  /\ OrderOK(tab'[u], pressed', Members(asked'))
               /\ Marked(tab'[u], sending'[u], Members(asked'))
               /\ TakesInOrder(u)
    <3>1. CASE u = t
      BY <1>3, <2>1, <2>2, <2>3, <2>4, <3>1
    <3> QED BY <1>6, <2>1, <3>1, OthersStayInOrder
  <2> QED BY <1>3, <1>8, <2>5 DEF Ordered, OrderInv
<1> QED BY <1>5, <1>7, <1>8

LEMMA CloseInOrder ==
  ASSUME TypedMemory, TypedRest, OrderInv, NEW t \in Tabs, CloseTab(t)
  PROVE  Ordered
<1>1. /\ tab' = [tab EXCEPT ![t] = ClosedTab] /\ sending' = [sending EXCEPT ![t] = NoCall]
      /\ UNCHANGED <<shelf, asked, pressed>>
  BY DEF CloseTab
<1>2. /\ tab'[t] = ClosedTab /\ sending'[t] = NoCall
      /\ \A u \in Tabs \ {t} : tab'[u] = tab[u] /\ sending'[u] = sending[u]
  BY <1>1 DEF TypedMemory
<1>3. NoneForgotten
  BY <1>1 DEF NoneForgotten
<1>4. OrderOK(ClosedTab, pressed', Members(asked')) /\ Marked(ClosedTab, NoCall, Members(asked'))
  BY DEF OrderOK, Distinct, InOrder, Covered, Members, ClosedTab, Marked, NoCall
<1>5. TakesInOrder(t)
  <2>1. \A n \in DOMAIN tab[t].queue : tab[t].queue[n] # NoItem
    BY ItemSetsAreDisjoint DEF TypedMemory, TabMemory
  <2> QED BY <1>2, <2>1 DEF TakesInOrder, NoCall
<1>6. ASSUME NEW u \in Tabs
      PROVE  /\ OrderOK(tab'[u], pressed', Members(asked'))
             /\ Marked(tab'[u], sending'[u], Members(asked'))
             /\ TakesInOrder(u)
  <2>1. CASE u = t
    BY <1>2, <1>4, <1>5, <2>1
  <2> QED BY <1>2, <1>3, <2>1, OthersStayInOrder
<1> QED BY <1>1, <1>6 DEF Ordered, OrderInv

LEMMA OnlineInOrder ==
  ASSUME TypedMemory, TypedRest, TypedRest', OrderInv, GoOnline
  PROVE  Ordered
<1> DEFINE Starts(t) == MayEnter(tab[t], TRUE) /\ NextUp(Entered(tab[t])) # {}
           W(t) == Walk(Entered(tab[t]))
           A == Members(asked)
<1>1. /\ tab' = [t \in Tabs |-> IF Starts(t) THEN W(t) ELSE tab[t]]
      /\ sending' = [t \in Tabs |-> IF Starts(t) THEN Begin(Sends(Entered(tab[t]))) ELSE sending[t]]
      /\ \/ \E t \in Tabs : Starts(t) /\ shelf' = Saved(W(t))
         \/ UNCHANGED shelf
      /\ UNCHANGED <<asked, pressed>>
  BY DEF GoOnline, histVars
<1>2. NoneForgotten
  BY <1>1 DEF NoneForgotten
<1>3. ASSUME NEW t \in Tabs, Starts(t)
      PROVE  /\ W(t) \in TabMemory /\ W(t).queue = tab[t].queue
             /\ OrderOK(tab'[t], pressed', Members(asked'))
             /\ Marked(tab'[t], sending'[t], Members(asked'))
             /\ TakesInOrder(t)
  <2> DEFINE b == Entered(tab[t])
  <2>1. tab[t] \in TabMemory /\ OrderOK(tab[t], pressed, A)
    BY DEF TypedMemory, OrderInv
  <2>2. b \in TabMemory /\ b.queue = tab[t].queue /\ b.obj = tab[t].obj
    BY <2>1, EnteredTyped
  <2>3. OrderOK(b, pressed, A)
    BY <2>1, EnteredInOrder DEF OrderOK
  <2>4. NextUp(b) # {} /\ tab'[t] = Walk(b) /\ sending'[t] = Begin(Sends(b))
    BY <1>1, <1>3
  <2> HIDE DEF b
  <2>5. Begin(Sends(b)) = BeginOrRest(Sends(b))
    BY <2>2, <2>4, NextUpTyped, ItemSetsAreDisjoint DEF BeginOrRest
  <2>6. OrderOK(Walk(b), pressed, A) /\ Marked(Walk(b), BeginOrRest(Sends(b)), A)
    BY <2>2, <2>3, WalkInOrder
  <2>7. Continues(t, b)
    BY <2>2 DEF Continues
  <2>8. TakesInOrder(t)
    BY <1>1, <2>2, <2>3, <2>4, <2>5, <2>7, TakesNext
  <2>9. Walk(b) \in TabMemory /\ Walk(b).queue = tab[t].queue
    BY <2>2, WalkTyped
  <2>10. W(t) = Walk(b)
    BY DEF b
  <2> HIDE DEF W
  <2> QED BY <1>1, <2>4, <2>5, <2>6, <2>8, <2>9, <2>10
<1>4. ASSUME NEW t \in Tabs, ~Starts(t)
      PROVE  /\ OrderOK(tab'[t], pressed', Members(asked'))
             /\ Marked(tab'[t], sending'[t], Members(asked'))
             /\ TakesInOrder(t)
  <2>1. tab'[t] = tab[t] /\ sending'[t] = sending[t]
    BY <1>1, <1>4
  <2> QED BY <1>2, <2>1, OthersStayInOrder
<1>5. Distinct(shelf'.order) /\ Members(shelf'.order) \subseteq A
  <2>1. CASE UNCHANGED shelf
    BY <2>1 DEF OrderInv
  <2>2. ASSUME NEW t \in Tabs, Starts(t), shelf' = Saved(W(t))
        PROVE  Distinct(shelf'.order) /\ Members(shelf'.order) \subseteq A
    <3>1. W(t) \in TabMemory /\ W(t).queue = tab[t].queue
      BY <1>3, <2>2
    <3> HIDE DEF W
    <3>2. shelf'.order = tab[t].queue
      BY <2>2, <3>1, SavedTyped
    <3> QED BY <3>2 DEF OrderInv, OrderOK
  <2> HIDE DEF Starts, W
  <2> QED BY <1>1, <2>1, <2>2
<1> HIDE DEF Starts
<1> QED BY <1>1, <1>3, <1>4, <1>5 DEF Ordered, OrderInv

LEMMA OrderStep ==
  ASSUME TypedMemory, TypedMemory', TypedRest, TypedRest', LossInv, OrderInv, [OQNext]_queueVars
  PROVE  Ordered
<1>1. ASSUME UNCHANGED <<tab, shelf, sending, asked, pressed>> PROVE Ordered
  BY <1>1, RestInOrder
<1>2. ASSUME NEW t \in Tabs, NEW i \in Items, Enqueue(t, i) PROVE Ordered
  BY <1>2, PutInOrder DEF Enqueue
<1>3. ASSUME NEW t \in Tabs, TapAnswered(t) PROVE Ordered
  <2>1. tapped[t].item \in Items /\ UNCHANGED pressed
    BY <1>3 DEF TapAnswered, TypedRest
  <2>2. CASE Put(t, tapped[t].item)
    BY <2>1, <2>2, PutInOrder
  <2> QED BY <1>1, <1>3, <2>1, <2>2 DEF TapAnswered
<1>4. ASSUME NEW t \in Tabs, NEW i \in Items, RetryItem(t, i) \/ ResolveConflict(t, i)
      PROVE  Ordered
  BY <1>4, RetryInOrder, ResolveInOrder
<1>5. ASSUME NEW t \in Tabs, Answered(t) \/ SyncNow(t) \/ ClearCompleted(t) PROVE Ordered
  BY <1>5, AnsweredInOrder, SyncInOrder, ClearInOrder
<1>6. ASSUME NEW t \in Tabs, OpenTab(t) \/ CloseTab(t) PROVE Ordered
  BY <1>6, OpenInOrder, CloseInOrder
<1>7. ASSUME NEW t \in Tabs, NEW i \in Items, Tap(t, i) PROVE Ordered
  BY <1>1, <1>7 DEF Tap
<1>8. ASSUME NEW t \in Tabs, ServeTap(t) PROVE Ordered
  BY <1>1, <1>8 DEF ServeTap, histVars
<1>9. ASSUME NEW t \in Tabs, ServeLoop(t) PROVE Ordered
  <2>1. PICK o \in Outcomes(sending[t].item) : sending' = [sending EXCEPT ![t] = o]
    BY <1>9 DEF ServeLoop
  <2>2. UNCHANGED <<tab, shelf, asked, pressed>> /\ sending[t].at # "idle"
    BY <1>9 DEF ServeLoop, histVars
  <2>3. o.item = sending[t].item
    BY <2>2, OutcomesTyped DEF TypedMemory
  <2>4. \A u \in Tabs : /\ sending'[u].item = sending[u].item
                        /\ sending'[u].at # "idle" => sending[u].at # "idle"
    BY <2>1, <2>2, <2>3 DEF TypedMemory
  <2> QED BY <2>2, <2>4, RestInOrder
<1>10. ASSUME NEW t \in Tabs, NEW i \in Items, BackoffEnds(t, i) PROVE Ordered
  <2>1. /\ tab' = [tab EXCEPT ![t].waiting = @ \ {i}]
        /\ UNCHANGED <<shelf, sending, asked, pressed>>
    BY <1>10 DEF BackoffEnds, histVars
  <2>2. \A u \in Tabs : /\ tab'[u].queue = tab[u].queue /\ tab'[u].obj = tab[u].obj
                        /\ tab'[u].left = tab[u].left
                        /\ tab'[u].busy = tab[u].busy /\ tab'[u].live = tab[u].live
    BY <2>1 DEF TypedMemory, TabMemory
  <2> QED BY <2>1, <2>2, RestInOrder
<1>11. CASE GoOffline \/ UNCHANGED queueVars
  BY <1>1, <1>11 DEF GoOffline, queueVars, histVars
<1>12. CASE GoOnline
  BY <1>12, OnlineInOrder
<1> QED BY <1>2, <1>3, <1>4, <1>5, <1>6, <1>7, <1>8, <1>9, <1>10, <1>11, <1>12 DEF OQNext

LEMMA OrderInvariant == OQSpec => []OrderInv
<1>1. OQInit => OrderInv
  BY DEF OQInit, OrderInv, OrderOK, Distinct, InOrder, Covered, Members, ClosedTab, Saved, Marked,
         NoCall
<1>2. QueueInv /\ QueueInv' /\ OrderInv /\ [OQNext]_queueVars => OrderInv'
  BY OrderStep DEF QueueInv, Ordered
<1> QED BY <1>1, <1>2, QueueInvariant, PTL DEF OQSpec

(* Whatever is retried, cleared, reloaded or sent from several tabs, a loop   *)
(* takes up an item for the first time only after those that were queued      *)
(* before it (FirstTriesInOrder).                                             *)
THEOREM FirstTriesAreInOrder == OQSpec => FirstTriesInOrder
<1>1. QueueInv /\ QueueInv' /\ OrderInv /\ [OQNext]_queueVars
        => [\A t \in Tabs : \A n \in DOMAIN tab[t].queue :
              LET i == tab[t].queue[n]
              IN  (sending[t].item # i /\ sending'[t].item = i) =>
                    \A k \in 1..(n - 1) :
                      LET j == tab[t].queue[k]
                      IN  tab[t].obj[j].st = "queued" => pressed'[j] > 0]_queueVars
  BY OrderStep DEF QueueInv, Ordered, TakesInOrder
<1> QED BY <1>1, QueueInvariant, OrderInvariant, PTL DEF OQSpec, FirstTriesInOrder

-----------------------------------------------------------------------------
(* What is shown as syncing.                                                  *)
Underway(t, i) == sending[t].at # "idle" /\ sending[t].item = i

Synced ==
  /\ \A t \in Tabs : \A i \in Items :
       tab[t].obj[i].st = "syncing" => Underway(t, i) \/ i \in cutOff
  /\ \A i \in Items :
       shelf.obj[i].st = "syncing" => i \in cutOff \/ \E t \in Tabs : Underway(t, i)

(* A tab sends only while its loop runs.  The only tab, and the shelf, mark   *)
(* as syncing what is being sent, or was when the tab was closed.             *)
SyncInv ==
  /\ \A t \in Tabs : sending[t].at # "idle" => tab[t].busy
  /\ OneTab => Synced

(* A loop that runs on marks what it sends, and nothing else.                 *)
LEMMA RunMarksOne ==
  ASSUME NEW b \in TabMemory, b.busy
  PROVE  LET c == BeginOrRest(Sends(b))
         IN  /\ c.at # "idle" => Walk(b).busy
             /\ \A i \in Items : Walk(b).obj[i].st = "syncing"
                                   => b.obj[i].st = "syncing" \/ (c.at # "idle" /\ c.item = i)
<1>1. CASE NextUp(b) = {}
  <2>1. Walk(b).obj = b.obj /\ BeginOrRest(Sends(b)) = NoCall
    BY <1>1 DEF Walk, Sends, BeginOrRest, TabMemory
  <2> QED BY <2>1 DEF NoCall
<1>2. CASE NextUp(b) # {}
  <2>1. PICK n \in 1..Len(b.left) :
          /\ b.left[n] \in Items /\ Sends(b) = b.left[n]
          /\ Walk(b) = [b EXCEPT !.obj[b.left[n]].st = "syncing",
                                 !.left = SubSeq(b.left, n + 1, Len(b.left))]
    BY <1>2, NextUpTyped DEF Walk
  <2>2. BeginOrRest(Sends(b)) = Begin(b.left[n])
    BY <2>1, ItemSetsAreDisjoint DEF BeginOrRest
  <2>3. Begin(b.left[n]).at # "idle" /\ Begin(b.left[n]).item = b.left[n]
    BY DEF Begin
  <2>4. Walk(b).busy /\ \A i \in Items \ {b.left[n]} : Walk(b).obj[i] = b.obj[i]
    BY <2>1 DEF TabMemory
  <2> QED BY <2>2, <2>3, <2>4
<1> QED BY <1>1, <1>2

(* A tab saves a memory whose marks are true.                                 *)
LEMMA SaveStaysSynced ==
  ASSUME TypedMemory, SyncInv, NEW t \in Tabs, NEW c \in TabMemory, Saves(t, c), OnlySends(t),
         UNCHANGED cutOff, OneTab' => OneTab,
         sending'[t].at # "idle" => c.busy,
         OneTab' => \A i \in Items : c.obj[i].st = "syncing" => Underway(t, i)' \/ i \in cutOff
  PROVE  SyncInv'
<1>1. tab'[t] = c /\ \A u \in Tabs \ {t} : tab'[u] = tab[u] /\ sending'[u] = sending[u]
  BY DEF TypedMemory, Saves, OnlySends
<1>2. \A i \in Items : shelf'.obj[i].st = "syncing" => c.obj[i].st = "syncing"
  BY DEF Saves, Saved, NewObj
<1>3. \A u \in Tabs : sending'[u].at # "idle" => tab'[u].busy
  BY <1>1 DEF SyncInv
<1>4. ASSUME OneTab' PROVE Synced'
  BY <1>1, <1>2, <1>4 DEF SyncInv, Synced, Underway
<1> QED BY <1>3, <1>4 DEF SyncInv

LEMMA RunStaysSynced ==
  ASSUME TypedMemory, SyncInv, NEW t \in Tabs, NEW b \in TabMemory, RunOn(t, b), b.busy,
         UNCHANGED cutOff, OneTab' => OneTab,
         OneTab' => \A i \in Items : b.obj[i].st = "syncing" => i \in cutOff
  PROVE  SyncInv'
<1>1. Saves(t, Walk(b)) /\ sending' = [sending EXCEPT ![t] = BeginOrRest(Sends(b))]
  BY DEF RunOn, Saves
<1>2. sending'[t] = BeginOrRest(Sends(b)) /\ OnlySends(t)
  BY <1>1 DEF TypedMemory, OnlySends
<1>3. Walk(b) \in TabMemory
  BY WalkTyped
<1>4. /\ sending'[t].at # "idle" => Walk(b).busy
      /\ \A i \in Items : Walk(b).obj[i].st = "syncing"
                            => b.obj[i].st = "syncing" \/ Underway(t, i)'
  BY <1>2, RunMarksOne DEF Underway
<1> QED BY <1>1, <1>2, <1>3, <1>4, SaveStaysSynced

(* A tab marks nothing, saves, and goes on if it may.                         *)
LEMMA ProcessStaysSynced ==
  ASSUME TypedMemory, SyncInv, NEW t \in Tabs, NEW b \in TabMemory, b.busy = tab[t].busy,
         SaveAndProcess(t, b) \/ (Saves(t, b) /\ UNCHANGED sending), UNCHANGED <<cutOff, opened>>,
         \A i \in Items : b.obj[i].st = "syncing" => tab[t].obj[i].st = "syncing"
  PROVE  SyncInv'
<1>1. OneTab' => OneTab
  BY DEF OneTab
<1>2. CASE SaveAndProcess(t, b) /\ MayEnter(b, online)
  <2>1. Entered(b) \in TabMemory /\ Entered(b).obj = b.obj /\ Entered(b).busy
    BY EnteredTyped DEF Entered, TabMemory
  <2>2. RunOn(t, Entered(b)) /\ sending[t].at = "idle"
    BY <1>2 DEF SaveAndProcess, MayEnter, SyncInv
  <2>3. OneTab' => \A i \in Items : Entered(b).obj[i].st = "syncing" => i \in cutOff
    BY <1>1, <2>1, <2>2 DEF SyncInv, Synced, Underway
  <2> QED BY <1>1, <2>1, <2>2, <2>3, RunStaysSynced
<1>3. CASE Saves(t, b) /\ UNCHANGED sending
  <2>1. sending'[t].at # "idle" => b.busy
    BY <1>3 DEF SyncInv
  <2>2. OneTab' => \A i \in Items : b.obj[i].st = "syncing" => Underway(t, i)' \/ i \in cutOff
    BY <1>1, <1>3 DEF SyncInv, Synced, Underway
  <2>3. OnlySends(t)
    BY <1>3 DEF OnlySends
  <2> QED BY <1>1, <1>3, <2>1, <2>2, <2>3, SaveStaysSynced
<1> QED BY <1>2, <1>3 DEF SaveAndProcess, Saves

(* Steps that leave the marks alone and end no call.                          *)
LEMMA RestStaysSynced ==
  ASSUME SyncInv, UNCHANGED <<shelf, cutOff, opened>>,
         \A u \in Tabs : /\ tab'[u].obj = tab[u].obj /\ tab'[u].busy = tab[u].busy
                         /\ sending'[u].item = sending[u].item
                         /\ sending'[u].at # "idle" <=> sending[u].at # "idle"
  PROVE  SyncInv'
<1>1. \A u \in Tabs : sending'[u].at # "idle" => tab'[u].busy
  BY DEF SyncInv
<1>2. OneTab' => Synced
  BY DEF SyncInv, OneTab
<1>3. \A u \in Tabs, i \in Items : Underway(u, i) => Underway(u, i)'
  BY DEF Underway
<1>4. ASSUME OneTab' PROVE Synced'
  BY <1>2, <1>3, <1>4 DEF Synced
<1> QED BY <1>1, <1>4 DEF SyncInv

(* The loop marks what has been answered as something else.                   *)
LEMMA AnswerEndsSyncing ==
  ASSUME NEW b \in TabMemory, NEW i \in Items, NEW r
  PROVE  AfterAnswer(b, i, r).obj[i].st # "syncing" /\ AfterAnswer(b, i, r).busy = b.busy
<1>1. b.obj \in [Items -> Obj]
  BY DEF TabMemory
<1>2. CASE r = "ok"
  BY <1>1, <1>2 DEF AfterAnswer, TabMemory, Obj
<1>3. CASE r # "ok"
  <2>1. \A n : StatusAfter(r, n) # "syncing"
    BY DEF StatusAfter
  <2> QED BY <1>1, <1>3, <2>1 DEF AfterAnswer, TabMemory
<1> QED BY <1>2, <1>3

LEMMA AnsweredStaysSynced ==
  ASSUME TypedMemory, SyncInv, NEW t \in Tabs, Answered(t)
  PROVE  SyncInv'
<1>1. PICK i, b :
        /\ i = sending[t].item /\ b = AfterAnswer(tab[t], i, sending[t].res)
        /\ RunOn(t, b)
  BY DEF Answered
<1>2. i \in Items /\ tab[t] \in TabMemory /\ tab[t].busy /\ UNCHANGED <<cutOff, opened>>
  BY <1>1 DEF TypedMemory, Answered, SyncInv
<1>3. /\ b \in TabMemory /\ b.busy /\ b.obj[i].st # "syncing"
      /\ \A j \in Items \ {i} : b.obj[j] = tab[t].obj[j]
  BY <1>1, <1>2, AnswerTyped, AnswerEndsSyncing
<1>4. OneTab' => OneTab
  BY <1>2 DEF OneTab
<1>5. OneTab' => \A j \in Items : b.obj[j].st = "syncing" => j \in cutOff
  BY <1>1, <1>3, <1>4 DEF SyncInv, Synced, Underway
<1> QED BY <1>1, <1>2, <1>3, <1>4, <1>5, RunStaysSynced

(* The tab that opens finds marks only of what was cut off before.            *)
LEMMA OpenStaysSynced ==
  ASSUME TypedMemory, TypedRest, LossInv, SyncInv, NEW t \in Tabs, OpenTab(t)
  PROVE  SyncInv'
<1>1. PICK w \in SUBSET Items :
        LET b == [ClosedTab EXCEPT !.open = TRUE, !.queue = shelf.order, !.obj = shelf.obj,
                                   !.waiting = w]
        IN  RunOn(t, Entered(b)) \/ (tab' = [tab EXCEPT ![t] = b] /\ UNCHANGED <<shelf, sending>>)
  <2>1. \A due \in SUBSET Items :
          {i \in Members(shelf.order) : shelf.obj[i].st = "failed" /\ i \notin due} \in SUBSET Items
    BY MembersTyped DEF TypedMemory
  <2>2. {i \in Members(shelf.order) : shelf.obj[i].st = "failed"} \subseteq Items
    BY MembersTyped DEF TypedMemory
  <2> QED BY <2>1, <2>2 DEF OpenTab
<1> DEFINE b == [ClosedTab EXCEPT !.open = TRUE, !.queue = shelf.order, !.obj = shelf.obj,
                                  !.waiting = w]
<1>2. b \in TabMemory /\ b.obj = shelf.obj
  BY ClosedTyped DEF TabMemory, ClosedTab, TypedMemory
<1>3. opened' = opened \union {t} /\ UNCHANGED cutOff /\ sending[t].at = "idle"
  BY DEF OpenTab, LossInv, ShutIsEmpty
<1>4. OneTab' => OneTab
  BY <1>3 DEF OneTab
<1>5. OneTab' => \A u \in Tabs : sending[u].at = "idle"
  BY <1>3 DEF OneTab, LossInv, ShutIsEmpty
<1>6. OneTab' => \A i \in Items : b.obj[i].st = "syncing" => i \in cutOff
  BY <1>2, <1>4, <1>5 DEF SyncInv, Synced, Underway
<1>7. RunOn(t, Entered(b)) \/ (tab' = [tab EXCEPT ![t] = b] /\ UNCHANGED <<shelf, sending>>)
  BY <1>1
<1> HIDE DEF b
<1>8. CASE RunOn(t, Entered(b))
  <2>1. Entered(b) \in TabMemory /\ Entered(b).obj = b.obj /\ Entered(b).busy
    BY <1>2, EnteredTyped DEF Entered, TabMemory
  <2> QED BY <1>3, <1>4, <1>6, <1>8, <2>1, RunStaysSynced
<1>9. CASE tab' = [tab EXCEPT ![t] = b] /\ UNCHANGED <<shelf, sending>>
  <2>1. tab'[t] = b /\ \A u \in Tabs \ {t} : tab'[u] = tab[u]
    BY <1>9 DEF TypedMemory
  <2>2. \A u \in Tabs : sending'[u].at # "idle" => tab'[u].busy
    BY <1>3, <1>9, <2>1 DEF SyncInv
  <2>3. ASSUME OneTab' PROVE Synced'
    BY <1>3, <1>4, <1>6, <1>9, <2>1, <2>3 DEF SyncInv, Synced, Underway
  <2> QED BY <2>2, <2>3 DEF SyncInv
<1> QED BY <1>7, <1>8, <1>9

(* What a closing tab was sending is cut off.                                 *)
LEMMA CloseStaysSynced ==
  ASSUME TypedMemory, TypedRest, SyncInv, NEW t \in Tabs, CloseTab(t)
  PROVE  SyncInv'
<1>1. /\ tab' = [tab EXCEPT ![t] = ClosedTab] /\ sending' = [sending EXCEPT ![t] = NoCall]
      /\ cutOff' = IF sending[t].at = "idle" THEN cutOff ELSE cutOff \union {sending[t].item}
      /\ UNCHANGED <<shelf, opened>>
  BY DEF CloseTab
<1>2. /\ tab'[t] = ClosedTab /\ sending'[t] = NoCall
      /\ \A u \in Tabs \ {t} : tab'[u] = tab[u] /\ sending'[u] = sending[u]
  BY <1>1 DEF TypedMemory
<1>3. cutOff \subseteq cutOff' /\ \A i \in Items : Underway(t, i) => i \in cutOff'
  BY <1>1 DEF Underway
<1>4. \A i \in Items : ClosedTab.obj[i].st # "syncing"
  BY DEF ClosedTab, NewObj
<1>5. \A u \in Tabs : sending'[u].at # "idle" => tab'[u].busy
  BY <1>2 DEF SyncInv, NoCall
<1>6. OneTab' => Synced
  BY <1>1 DEF SyncInv, OneTab
<1>7. \A u \in Tabs \ {t} : \A i \in Items : Underway(u, i) => Underway(u, i)'
  BY <1>2 DEF Underway
<1>8. ASSUME OneTab' PROVE Synced'
  BY <1>1, <1>2, <1>3, <1>4, <1>6, <1>7, <1>8 DEF Synced
<1> QED BY <1>5, <1>8 DEF SyncInv

(* Back online, every loop that starts had nothing under way.                 *)
LEMMA OnlineStaysSynced ==
  ASSUME TypedMemory, SyncInv, GoOnline
  PROVE  SyncInv'
<1> DEFINE Starts(t) == MayEnter(tab[t], TRUE) /\ NextUp(Entered(tab[t])) # {}
           W(t) == Walk(Entered(tab[t]))
<1>1. /\ tab' = [t \in Tabs |-> IF Starts(t) THEN W(t) ELSE tab[t]]
      /\ sending' = [t \in Tabs |-> IF Starts(t) THEN Begin(Sends(Entered(tab[t]))) ELSE sending[t]]
      /\ \/ \E t \in Tabs : Starts(t) /\ shelf' = Saved(W(t))
         \/ (\A t \in Tabs : ~Starts(t)) /\ UNCHANGED shelf
      /\ UNCHANGED <<cutOff, opened>>
  BY DEF GoOnline, histVars
<1>2. OneTab' => Synced
  BY <1>1 DEF SyncInv, OneTab
<1>3. ASSUME NEW t \in Tabs, Starts(t)
      PROVE  /\ tab'[t] = W(t) /\ (sending'[t].at # "idle" => W(t).busy)
             /\ OneTab' => \A i \in Items : W(t).obj[i].st = "syncing"
                                              => Underway(t, i)' \/ i \in cutOff
  <2> DEFINE b == Entered(tab[t])
  <2>1. b \in TabMemory /\ b.obj = tab[t].obj /\ b.busy
    <3>1. tab[t] \in TabMemory
      BY DEF TypedMemory
    <3>2. b.busy
      BY <3>1 DEF Entered, TabMemory
    <3> QED BY <3>1, <3>2, EnteredTyped
  <2>2. sending[t].at = "idle"
    BY <1>3 DEF MayEnter, SyncInv
  <2>3. NextUp(b) # {} /\ tab'[t] = Walk(b) /\ sending'[t] = Begin(Sends(b))
    BY <1>1, <1>3
  <2>4. W(t) = Walk(b)
    OBVIOUS
  <2> HIDE DEF b, W
  <2>5. Begin(Sends(b)) = BeginOrRest(Sends(b))
    BY <2>1, <2>3, NextUpTyped, ItemSetsAreDisjoint DEF BeginOrRest
  <2>6. /\ sending'[t].at # "idle" => Walk(b).busy
        /\ \A i \in Items : Walk(b).obj[i].st = "syncing"
                              => b.obj[i].st = "syncing" \/ Underway(t, i)'
    BY <2>1, <2>3, <2>5, RunMarksOne DEF Underway
  <2>7. OneTab' => \A i \in Items : tab[t].obj[i].st = "syncing" => i \in cutOff
    BY <1>2, <2>2 DEF Synced, Underway
  <2> QED BY <2>1, <2>3, <2>4, <2>6, <2>7
<1>4. \A t \in Tabs : ~Starts(t) => tab'[t] = tab[t] /\ sending'[t] = sending[t]
  BY <1>1
<1>5. \/ \E t \in Tabs : Starts(t) /\ shelf' = Saved(W(t))
      \/ (\A t \in Tabs : ~Starts(t)) /\ UNCHANGED shelf
  BY <1>1
<1> HIDE DEF Starts, W
<1>6. \A t \in Tabs : sending'[t].at # "idle" => tab'[t].busy
  BY <1>3, <1>4 DEF SyncInv
<1>7. ASSUME OneTab'
      PROVE  /\ \A t \in Tabs : \A i \in Items :
                  tab'[t].obj[i].st = "syncing" => Underway(t, i)' \/ i \in cutOff
             /\ \A i \in Items :
                  shelf'.obj[i].st = "syncing" => i \in cutOff \/ \E t \in Tabs : Underway(t, i)'
  <2>1. \A t \in Tabs : \A i \in Items :
          tab'[t].obj[i].st = "syncing" => Underway(t, i)' \/ i \in cutOff
    BY <1>2, <1>3, <1>4, <1>7 DEF Synced, Underway
  <2>2. CASE (\A t \in Tabs : ~Starts(t)) /\ UNCHANGED shelf
    BY <1>2, <1>4, <1>7, <2>1, <2>2 DEF Synced, Underway
  <2>3. ASSUME NEW t \in Tabs, Starts(t), shelf' = Saved(W(t))
        PROVE  \A i \in Items :
                 shelf'.obj[i].st = "syncing" => i \in cutOff \/ \E u \in Tabs : Underway(u, i)'
    <3>1. \A i \in Items : shelf'.obj[i].st = "syncing" => W(t).obj[i].st = "syncing"
      BY <2>3 DEF Saved, NewObj
    <3> QED BY <1>3, <1>7, <2>3, <3>1
  <2> QED BY <1>5, <2>1, <2>2, <2>3
<1>8. OneTab' => Synced'
  BY <1>1, <1>7 DEF Synced
<1> QED BY <1>6, <1>8 DEF SyncInv

LEMMA SyncStep ==
  ASSUME TypedMemory, TypedRest, LossInv, SyncInv, [OQNext]_queueVars PROVE SyncInv'
<1>1. ASSUME NEW t \in Tabs PROVE tab[t] \in TabMemory /\ sending[t] \in Calls
  BY DEF TypedMemory
<1>2. ASSUME NEW t \in Tabs, NEW i \in Items, Put(t, i), UNCHANGED <<cutOff, opened>>
      PROVE  SyncInv'
  <2>1. SaveAndProcess(t, Pushed(tab[t], i)) /\ Pushed(tab[t], i) \in TabMemory
    BY <1>1, <1>2, PushedTyped DEF Put
  <2>2. /\ Pushed(tab[t], i).busy = tab[t].busy
        /\ \A j \in Items : Pushed(tab[t], i).obj[j].st = "syncing" => tab[t].obj[j].st = "syncing"
    BY <1>1 DEF Pushed, NewObj, TabMemory
  <2> QED BY <1>2, <2>1, <2>2, ProcessStaysSynced
<1>3. ASSUME NEW t \in Tabs, NEW i \in Items, RetryItem(t, i) PROVE SyncInv'
  <2> DEFINE b == [tab[t] EXCEPT !.obj[i] = NewObj, !.waiting = @ \ {i}]
  <2>1. /\ b \in TabMemory /\ b.busy = tab[t].busy
        /\ \A j \in Items : b.obj[j].st = "syncing" => tab[t].obj[j].st = "syncing"
    BY <1>1 DEF TabMemory, NewObj, Obj, Statuses
  <2>2. SaveAndProcess(t, b) /\ UNCHANGED <<cutOff, opened>>
    BY <1>3 DEF RetryItem
  <2> HIDE DEF b
  <2> QED BY <2>1, <2>2, ProcessStaysSynced
<1>4. ASSUME NEW t \in Tabs, NEW i \in Items, ResolveConflict(t, i) PROVE SyncInv'
  <2> DEFINE b == [tab[t] EXCEPT !.obj[i].st = "completed"]
  <2>1. [tab[t].obj EXCEPT ![i].st = "completed"] \in [Items -> Obj]
    <3>1. tab[t].obj \in [Items -> Obj]
      BY <1>1 DEF TabMemory
    <3> QED BY <3>1 DEF Obj, Statuses
  <2>2. /\ b \in TabMemory /\ b.busy = tab[t].busy
        /\ \A j \in Items : b.obj[j].st = "syncing" => tab[t].obj[j].st = "syncing"
    BY <1>1, <2>1 DEF TabMemory, Obj
  <2>3. Saves(t, b) /\ UNCHANGED <<sending, cutOff, opened>>
    BY <1>4 DEF ResolveConflict, Saves
  <2> HIDE DEF b
  <2> QED BY <2>2, <2>3, ProcessStaysSynced
<1>5. ASSUME NEW t \in Tabs, ClearCompleted(t) PROVE SyncInv'
  <2> DEFINE q == Only(tab[t].queue, Unfinished(tab[t]))
             b == [tab[t] EXCEPT !.queue = q, !.live = FALSE]
  <2>1. q \in Seq(Items)
    BY <1>1, OnlyKeeps DEF TabMemory
  <2>2. Saves(t, b) /\ UNCHANGED <<sending, cutOff, opened>>
    BY <1>5 DEF ClearCompleted, Saves
  <2> HIDE DEF q
  <2>3. b \in TabMemory /\ b.busy = tab[t].busy /\ b.obj = tab[t].obj
    BY <1>1, <2>1 DEF TabMemory
  <2> HIDE DEF b
  <2> QED BY <2>2, <2>3, ProcessStaysSynced
<1>6. ASSUME NEW t \in Tabs, SyncNow(t) PROVE SyncInv'
  <2>1. /\ Entered(tab[t]) \in TabMemory /\ Entered(tab[t]).obj = tab[t].obj
        /\ Entered(tab[t]).busy
    BY <1>1, EnteredTyped DEF Entered, TabMemory
  <2>2. RunOn(t, Entered(tab[t])) /\ sending[t].at = "idle" /\ UNCHANGED <<cutOff, opened>>
    BY <1>6 DEF SyncNow, MayEnter, SyncInv, histVars
  <2>3. OneTab' => OneTab
    BY <2>2 DEF OneTab
  <2>4. OneTab' => \A i \in Items : Entered(tab[t]).obj[i].st = "syncing" => i \in cutOff
    BY <2>1, <2>2, <2>3 DEF SyncInv, Synced, Underway
  <2> QED BY <2>1, <2>2, <2>3, <2>4, RunStaysSynced
<1>7. ASSUME NEW t \in Tabs, ServeLoop(t) PROVE SyncInv'
  <2>1. PICK o \in Outcomes(sending[t].item) : sending' = [sending EXCEPT ![t] = o]
    BY <1>7 DEF ServeLoop
  <2>2. o.at # "idle" /\ o.item = sending[t].item /\ sending[t].at # "idle"
    BY <1>7 DEF Outcomes, Reply, ServeLoop
  <2>3. UNCHANGED <<tab, shelf, cutOff, opened>>
    BY <1>7 DEF ServeLoop, histVars
  <2>4. sending'[t] = o /\ \A u \in Tabs \ {t} : sending'[u] = sending[u]
    BY <2>1 DEF TypedMemory
  <2> QED BY <2>2, <2>3, <2>4, RestStaysSynced
<1>8. ASSUME NEW t \in Tabs, TapAnswered(t) PROVE SyncInv'
  <2>1. tapped[t].item \in Items /\ UNCHANGED <<cutOff, opened>>
    BY <1>8 DEF TapAnswered, TypedRest
  <2>2. CASE Put(t, tapped[t].item)
    BY <1>2, <2>1, <2>2
  <2>3. CASE UNCHANGED <<tab, shelf, sending, asked>>
    BY <2>1, <2>3, RestStaysSynced
  <2> QED BY <1>8, <2>2, <2>3 DEF TapAnswered
<1>9. ASSUME NEW t \in Tabs, NEW i \in Items, Enqueue(t, i) PROVE SyncInv'
  BY <1>2, <1>9 DEF Enqueue
<1>10. ASSUME UNCHANGED <<tab, shelf, sending, cutOff, opened>> PROVE SyncInv'
  BY <1>10, RestStaysSynced
<1>11. ASSUME NEW t \in Tabs, ServeTap(t) \/ \E i \in Items : Tap(t, i) PROVE SyncInv'
  BY <1>10, <1>11 DEF ServeTap, Tap, histVars
<1>12. ASSUME NEW t \in Tabs, NEW i \in Items, BackoffEnds(t, i) PROVE SyncInv'
  <2>1. tab' = [tab EXCEPT ![t].waiting = @ \ {i}]
    BY <1>12 DEF BackoffEnds
  <2>2. \A u \in Tabs : tab'[u].obj = tab[u].obj /\ tab'[u].busy = tab[u].busy
    BY <2>1 DEF TypedMemory, TabMemory
  <2>3. UNCHANGED <<shelf, sending, cutOff, opened>>
    BY <1>12 DEF BackoffEnds, histVars
  <2> QED BY <2>2, <2>3, RestStaysSynced
<1>13. CASE GoOffline \/ UNCHANGED queueVars
  BY <1>10, <1>13 DEF GoOffline, queueVars, histVars
<1>14. CASE GoOnline
  BY <1>14, OnlineStaysSynced
<1>15. ASSUME NEW t \in Tabs, OpenTab(t) \/ CloseTab(t) \/ Answered(t) PROVE SyncInv'
  BY <1>15, OpenStaysSynced, CloseStaysSynced, AnsweredStaysSynced
<1> QED BY <1>3, <1>4, <1>5, <1>6, <1>7, <1>8, <1>9, <1>11, <1>12, <1>13, <1>14, <1>15 DEF OQNext

(* While no second tab was ever opened, an item that is shown as syncing is   *)
(* being sent, unless a tab was closed on it: no loop that ends, fails or     *)
(* runs on over an old array leaves an item behind in that state, from which  *)
(* nothing would take it up again (SyncingIsSent).                            *)
THEOREM SyncingItemsAreSent == OQSpec => []SyncingIsSent
<1>1. OQInit => SyncInv
  BY DEF OQInit, SyncInv, Synced, ClosedTab, Saved, Members, NewObj, NoCall
<1>2. QueueInv /\ SyncInv /\ [OQNext]_queueVars => SyncInv'
  BY SyncStep DEF QueueInv
<1>3. QueueInv /\ SyncInv => SyncingIsSent
  <2> SUFFICES ASSUME QueueInv, SyncInv, NEW t \in Tabs, NEW i \in Members(tab[t].queue),
                      tab[t].obj[i].st = "syncing", ~(Cardinality(opened) > 1)
               PROVE  sending[t].item = i \/ i \in cutOff
    BY DEF SyncingIsSent
  <2>1. Cardinality(opened) <= 1
    BY FS_CardinalityType DEF QueueInv
  <2>2. OneTab
    BY <2>1, FewIsOneTab DEF QueueInv
  <2>3. i \in Items
    BY MembersTyped DEF QueueInv, TypedMemory, TabMemory
  <2> QED BY <2>2, <2>3 DEF SyncInv, Synced, Underway
<1> QED BY <1>1, <1>2, <1>3, QueueInvariant, PTL DEF OQSpec
=============================================================================
