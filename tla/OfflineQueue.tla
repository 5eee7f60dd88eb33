----------------------------- MODULE OfflineQueue -----------------------------
(* The queue of operations a browser keeps while it is offline                *)
(* (offlineSyncService), with the idempotency records its requests carry      *)
(* (idempotencyService).  Every tab holds the queue in memory and saves it    *)
(* whole to localStorage, which the tabs of one browser share.  A loop sends  *)
(* the items one after another; between two awaits it runs undisturbed, so a  *)
(* step below goes from one await of the loop to the next.                    *)
EXTENDS Naturals, Sequences, FiniteSets

CONSTANTS
  Tabs,         \* tabs of one browser
  Items,        \* requests of the staff, each with an idempotency key of its own
  Payments,     \* items of operation record_payment ...
  Digital,      \* ... by card or UPI
  Seatings,     \* items of operation open_session
  Leased,       \* items whose key is acquired in a transaction of its own:
                \* orders, tickets and what is done to tickets; the others have no key
  MaxRetries,   \* maxRetries of an item
  QueueLimit,   \* MAX_OFFLINE_QUEUE_CAPACITY
  MaxPresses,   \* bound on how often one item is retried by hand
  TabsClose,    \* may a tab be closed or crash?
  NoItem

ASSUME ItemSetsAreDisjoint ==
  /\ Payments \subseteq Items /\ Seatings \subseteq Items /\ Leased \subseteq Items
  /\ Digital \subseteq Payments
  /\ Payments \intersect Seatings = {} /\ Payments \intersect Leased = {}
  /\ Seatings \intersect Leased = {}
  /\ NoItem \notin Items

ASSUME QueueBounds ==
  /\ MaxRetries \in Nat \ {0} /\ QueueLimit \in Nat \ {0} /\ MaxPresses \in Nat
  /\ TabsClose \in BOOLEAN

VARIABLES
  online,     \* navigator.onLine
  tab,        \* the memory of each tab
  shelf,      \* localStorage: the queue as last saved
  sending,    \* the service call each tab's loop waits for
  tapped,     \* the service call a page makes itself, before queueing
  record,     \* restaurants/R/idempotency, by item
  done,       \* how often the body of the operation took effect; stops at two
  asked,      \* history: the items ever queued, in order
  fate,       \* history: how an item was last reported completed
  pressed,    \* history: how often an item was put back by hand
  opened,     \* history: the tabs that were ever open
  cutOff      \* history: items being sent when their tab was closed

queueVars == <<online, tab, shelf, sending, tapped, record, done,
               asked, fate, pressed, opened, cutOff>>
histVars == <<asked, fate, pressed, opened, cutOff>>

-----------------------------------------------------------------------------
(* Error messages, by what the loop makes of them.                            *)
Errors == {"transient", "collision", "stale", "fatal"}

Answers == Errors \union {"ok"}

(* A record that failed keeps its error message, which a later attempt        *)
(* throws again inside its own.                                               *)
RecordStates == {"none", "pending", "completed"} \union Errors

Statuses == {"queued", "syncing", "completed", "failed", "dead_letter", "conflict", "stale"}

Obj == [st : Statuses, tries : Nat]

NewObj == [st |-> "queued", tries |-> 0]

Calls == [at : {"idle", "acquire", "act", "answer"}, item : Items \union {NoItem},
          res : Answers]

NoCall == [at |-> "idle", item |-> NoItem, res |-> "ok"]

(* A call starts with its acquisition, if it has one.                         *)
Begin(i) == [at |-> IF i \in Leased THEN "acquire" ELSE "act", item |-> i, res |-> "ok"]

BeginOrRest(i) == IF i = NoItem THEN NoCall ELSE Begin(i)

Members(s) == {s[n] : n \in DOMAIN s}

(* What a filter leaves of the array s: its members in K, in their order.     *)
Only(s, K) ==
  LET kept[n \in 0..Len(s)] ==
        IF n = 0 THEN << >>
        ELSE IF s[n] \in K THEN Append(kept[n - 1], s[n]) ELSE kept[n - 1]
  IN  kept[Len(s)]

(* queue is the array; left is what the iterator of the running loop has not  *)
(* visited yet; live says that the loop runs over this array and not over one *)
(* that has been replaced; waiting are the items whose nextRetryAt is to      *)
(* come; barred is waiting as it was when the loop read the clock.            *)
TabMemory == [open : BOOLEAN, queue : Seq(Items), obj : [Items -> Obj],
              waiting : SUBSET Items, busy : BOOLEAN, left : Seq(Items),
              barred : SUBSET Items, live : BOOLEAN]

ClosedTab == [open |-> FALSE, queue |-> <<>>, obj |-> [i \in Items |-> NewObj],
              waiting |-> {}, busy |-> FALSE, left |-> <<>>, barred |-> {}, live |-> FALSE]

SavedActive(b) ==                      \* a bug: what waits for the staff is not saved
  LET stays == {i \in Members(b.queue) : b.obj[i].st \in {"queued", "syncing", "failed"}}
  IN  [order |-> Only(b.queue, stays),
       obj |-> [i \in Items |-> IF i \in stays THEN b.obj[i] ELSE NewObj]]

(* saveToStorage.                                                             *)
Saved(b) == [order |-> b.queue,
             obj |-> [i \in Items |-> IF i \in Members(b.queue) THEN b.obj[i] ELSE NewObj]]

OQTypeOK ==
  /\ online \in BOOLEAN
  /\ tab \in [Tabs -> TabMemory]
  /\ shelf \in [order : Seq(Items), obj : [Items -> Obj]]
  /\ sending \in [Tabs -> Calls]
  /\ tapped \in [Tabs -> Calls]
  /\ record \in [Items -> RecordStates]
  /\ done \in [Items -> 0..2]
  /\ asked \in Seq(Items)
  /\ fate \in [Items -> {"open", "sent", "resolved"}]
  /\ pressed \in [Items -> 0..MaxPresses]
  /\ opened \subseteq Tabs
  /\ cutOff \subseteq Items

OQInit ==
  /\ online = FALSE
  /\ tab = [t \in Tabs |-> ClosedTab]
  /\ shelf = Saved(ClosedTab)
  /\ sending = [t \in Tabs |-> NoCall]
  /\ tapped = [t \in Tabs |-> NoCall]
  /\ record = [i \in Items |-> "none"]
  /\ done = [i \in Items |-> 0]
  /\ asked = <<>>
  /\ fate = [i \in Items |-> "open"]
  /\ pressed = [i \in Items |-> 0]
  /\ opened = {}
  /\ cutOff = {}

-----------------------------------------------------------------------------
(* The loop.                                                                  *)

EligibleOnce(b, i) == b.obj[i].st = "queued"    \* a bug: failed items wait for the button

Eligible(b, i) ==
  \/ b.obj[i].st = "queued"
  \/ b.obj[i].st = "failed" /\ i \notin b.barred

NextUpLast(b) ==                                \* a bug: the newest item is sent first
  {n \in DOMAIN b.left : /\ Eligible(b, b.left[n])
                         /\ \A k \in DOMAIN b.left : Eligible(b, b.left[k]) => k <= n}

(* The position of the item the loop stops at next, if there is one.          *)
NextUp(b) ==
  {n \in DOMAIN b.left : /\ Eligible(b, b.left[n])
                         /\ \A k \in DOMAIN b.left : Eligible(b, b.left[k]) => n <= k}

(* What the loop sends next, from a given memory.                             *)
Sends(b) == IF NextUp(b) = {} THEN NoItem ELSE b.left[CHOOSE n \in NextUp(b) : TRUE]

(* From one await to the next: the item is marked syncing, or the loop ends.  *)
Walk(b) ==
  IF NextUp(b) = {}
  THEN [b EXCEPT !.busy = FALSE, !.left = <<>>, !.barred = {}, !.live = FALSE]
  ELSE LET n == CHOOSE n \in NextUp(b) : TRUE
       IN  [b EXCEPT !.obj[b.left[n]].st = "syncing",
                     !.left = SubSeq(b.left, n + 1, Len(b.left))]

(* The memory with which processQueue enters its loop.                        *)
Entered(b) == [b EXCEPT !.busy = TRUE, !.left = b.queue, !.barred = b.waiting, !.live = TRUE]

MayEnter(b, on) == on /\ b.open /\ ~b.busy

(* The tab runs its loop on from memory b and saves.                          *)
RunOn(t, b) ==
  /\ tab' = [tab EXCEPT ![t] = Walk(b)]
  /\ sending' = [sending EXCEPT ![t] = BeginOrRest(Sends(b))]
  /\ shelf' = Saved(Walk(b))

(* The tab saves memory b and calls processQueue.                             *)
SaveAndProcess(t, b) ==
  IF MayEnter(b, online)
  THEN RunOn(t, Entered(b))
  ELSE tab' = [tab EXCEPT ![t] = b] /\ shelf' = Saved(b) /\ UNCHANGED sending

-----------------------------------------------------------------------------
(* What the staff do.                                                         *)

(* A tab is opened: the constructor loads the queue, of which some failed     *)
(* items may be due by now, and processes it.  It looks for queued and failed *)
(* items first, without which the loop has nothing to do either.              *)
OpenTab(t) ==
  /\ ~tab[t].open
  /\ TabsClose \/ t \notin opened
  /\ \E due \in SUBSET {i \in Members(shelf.order) : shelf.obj[i].st = "failed"} :
       LET b == [ClosedTab EXCEPT !.open = TRUE, !.queue = shelf.order, !.obj = shelf.obj,
                   !.waiting = {i \in Members(shelf.order) :
                                  shelf.obj[i].st = "failed" /\ i \notin due}]
       IN  IF MayEnter(b, online) /\ NextUp(Entered(b)) # {}
           THEN RunOn(t, Entered(b))
           ELSE tab' = [tab EXCEPT ![t] = b] /\ UNCHANGED <<shelf, sending>>
  /\ opened' = opened \union {t}
  /\ UNCHANGED <<online, tapped, record, done, asked, fate, pressed, cutOff>>

(* A tab is closed, reloaded or crashes: its memory and its calls are gone.   *)
CloseTab(t) ==
  /\ TabsClose
  /\ tab[t].open
  /\ tab' = [tab EXCEPT ![t] = ClosedTab]
  /\ cutOff' = IF sending[t].at = "idle" THEN cutOff ELSE cutOff \union {sending[t].item}
  /\ sending' = [sending EXCEPT ![t] = NoCall]
  /\ tapped' = [tapped EXCEPT ![t] = NoCall]
  /\ UNCHANGED <<online, shelf, record, done, asked, fate, pressed, opened>>

Active(b) == {i \in Members(b.queue) : b.obj[i].st \notin {"completed", "dead_letter"}}

(* The array with a new item at its end; a loop over it will come to it.      *)
Pushed(b, i) ==
  [b EXCEPT !.queue = Append(b.queue, i), !.obj[i] = NewObj,
            !.left = IF b.busy /\ b.live THEN Append(b.left, i) ELSE b.left]

(* enqueue: refused when the queue is full, and for money the device cannot   *)
(* know to have been received.                                                *)
Put(t, i) ==
  /\ i \notin Members(asked)
  /\ Cardinality(Active(tab[t])) < QueueLimit
  /\ ~(~online /\ i \in Digital)
  /\ SaveAndProcess(t, Pushed(tab[t], i))
  /\ asked' = Append(asked, i)

(* The pages queue what they are asked for while the browser is offline,      *)
(* except payments.                                                           *)
Enqueue(t, i) ==
  /\ tab[t].open /\ ~online
  /\ i \notin Payments
  /\ \A u \in Tabs : tapped[u].item # i
  /\ Put(t, i)
  /\ UNCHANGED <<online, tapped, record, done, fate, pressed, opened, cutOff>>

(* Online, the kitchen display calls the service itself, with a key drawn for *)
(* this tap; the payment dialog does so in any case, and again at every press *)
(* of its button, with the key drawn when it was opened.                      *)
Tap(t, i) ==
  /\ tab[t].open
  /\ tapped[t].at = "idle"
  /\ i \notin Members(asked)
  /\ \/ i \in Leased /\ online /\ record[i] = "none"
     \/ i \in Payments
  /\ \A u \in Tabs : tapped[u].item # i
  /\ tapped' = [tapped EXCEPT ![t] = Begin(i)]
  /\ UNCHANGED <<online, tab, shelf, sending, record, done, asked, fate, pressed, opened, cutOff>>

(* Its answer: what looks like a network error is queued, with that key, by   *)
(* the dialog only when asked to, and never a payment by card or UPI.         *)
TapAnswered(t) ==
  /\ tapped[t].at = "answer"
  /\ tapped' = [tapped EXCEPT ![t] = NoCall]
  /\ \/ /\ tapped[t].res = "transient" \/ (tapped[t].res # "ok" /\ tapped[t].item \in Payments)
        /\ tapped[t].item \notin Digital
        /\ Put(t, tapped[t].item)
     \/ UNCHANGED <<tab, shelf, sending, asked>>
  /\ UNCHANGED <<online, record, done, fate, pressed, opened, cutOff>>

(* resolveConflict with server_wins, the button of a conflicting item: it is  *)
(* dropped, and counts as completed.                                          *)
ResolveConflict(t, i) ==
  /\ i \in Members(tab[t].queue)
  /\ tab[t].obj[i].st \in {"conflict", "stale"}
  /\ LET b == [tab[t] EXCEPT !.obj[i].st = "completed"]
     IN  tab' = [tab EXCEPT ![t] = b] /\ shelf' = Saved(b)
  /\ fate' = [fate EXCEPT ![i] = "resolved"]
  /\ UNCHANGED <<online, sending, tapped, record, done, asked, pressed, opened, cutOff>>

(* retryItem; resolveConflict with retry_with_refresh does the same.          *)
RetryItem(t, i) ==
  /\ i \in Members(tab[t].queue)
  /\ tab[t].obj[i].st \in {"dead_letter", "failed", "conflict", "stale"}
  /\ pressed[i] < MaxPresses
  /\ pressed' = [pressed EXCEPT ![i] = @ + 1]
  /\ SaveAndProcess(t, [tab[t] EXCEPT !.obj[i] = NewObj, !.waiting = @ \ {i}])
  /\ UNCHANGED <<online, tapped, record, done, asked, fate, opened, cutOff>>

Unfinished(b) == {i \in Members(b.queue) : b.obj[i].st # "completed"}

(* clearCompleted: a filtered copy takes the place of the array, and a loop   *)
(* goes on over the old one.                                                  *)
ClearCompleted(t) ==
  /\ Unfinished(tab[t]) # Members(tab[t].queue)
  /\ LET b == [tab[t] EXCEPT !.queue = Only(@, Unfinished(tab[t])), !.live = FALSE]
     IN  tab' = [tab EXCEPT ![t] = b] /\ shelf' = Saved(b)
  /\ UNCHANGED <<online, sending, tapped, record, done, asked, fate, pressed, opened, cutOff>>

(* The button of the sync indicator: processQueue for all.                    *)
SyncNow(t) ==
  /\ MayEnter(tab[t], online)
  /\ NextUp(Entered(tab[t])) # {}
  /\ RunOn(t, Entered(tab[t]))
  /\ UNCHANGED <<online, tapped, record, done>>
  /\ UNCHANGED histVars

-----------------------------------------------------------------------------
(* The network and the clock.                                                 *)

GoOffline ==
  /\ online
  /\ online' = FALSE
  /\ UNCHANGED <<tab, shelf, sending, tapped, record, done>>
  /\ UNCHANGED histVars

(* The online event reaches every tab.  With several tabs the last to save    *)
(* has its queue on the shelf.                                                *)
GoOnline ==
  /\ ~online
  /\ online' = TRUE
  /\ LET Starts(t) == MayEnter(tab[t], TRUE) /\ NextUp(Entered(tab[t])) # {}
     IN  /\ tab' = [t \in Tabs |-> IF Starts(t) THEN Walk(Entered(tab[t])) ELSE tab[t]]
         /\ sending' = [t \in Tabs |-> IF Starts(t) THEN Begin(Sends(Entered(tab[t])))
                                       ELSE sending[t]]
         /\ IF \E t \in Tabs : Starts(t)
            THEN \E t \in Tabs : Starts(t) /\ shelf' = Saved(Walk(Entered(tab[t])))
            ELSE UNCHANGED shelf
  /\ UNCHANGED <<tapped, record, done>>
  /\ UNCHANGED histVars

(* nextRetryAt has passed.  Nothing wakes the loop.                           *)
BackoffEnds(t, i) ==
  /\ i \in tab[t].waiting
  /\ tab' = [tab EXCEPT ![t].waiting = @ \ {i}]
  /\ UNCHANGED <<online, shelf, sending, tapped, record, done>>
  /\ UNCHANGED histVars

-----------------------------------------------------------------------------
(* The services, as far as their keys go.  after is what becomes of the call. *)

Once(i) == IF done[i] < 2 THEN done[i] + 1 ELSE 2

Reply(i, r) == [at |-> "answer", item |-> i, res |-> r]

(* checkOrAcquire reports execute for a key without a record and in_flight    *)
(* for a pending one; no caller tells them apart.                             *)
Acquires(i) == record[i] \in {"none", "pending"}

(* checkOrAcquire in a transaction of its own.                                *)
Acquire(i, after) ==
  \/ /\ online /\ Acquires(i)
     /\ record' = [record EXCEPT ![i] = "pending"]
     /\ after \in {[at |-> "act", item |-> i, res |-> "ok"], Reply(i, "transient")}
  \/ /\ online /\ record[i] \in Errors
     /\ after = Reply(i, record[i])
     /\ UNCHANGED record
  \/ /\ after = Reply(i, "transient")
     /\ UNCHANGED record

(* The body of a leased operation and what follows it.  The rules refuse      *)
(* recordSuccess, which rewrites createdAt, so the record stays pending; they *)
(* let recordFailure pass, if it comes through.                               *)
ActLeased(i, after) ==
  \/ /\ online
     /\ done' = [done EXCEPT ![i] = Once(i)]
     /\ after = Reply(i, "ok")
     /\ UNCHANGED record
  \/ \E e \in Errors :
       /\ online \/ e = "transient"
       /\ done' \in {done} \union
                    (IF online /\ e = "transient" THEN {[done EXCEPT ![i] = Once(i)]} ELSE {})
       /\ after = Reply(i, e)
       /\ record' \in {record, [record EXCEPT ![i] = e]}

KeyForgotten(i) == record[i] \notin Errors      \* a bug: a completed record executes

KeyUnused(i) == record[i] = "none"

(* A lost answer sends openSession to its catch block, whose recordFailure    *)
(* overwrites even a completed record; recordPayment has none.                *)
AfterLostAnswer(i, r) ==
  {[record EXCEPT ![i] = r]} \union
  (IF i \in Seatings /\ r = "completed" THEN {[record EXCEPT ![i] = "transient"]} ELSE {})

(* Operations whose record is written in the transaction of their effect.     *)
ActAtomic(i, after) ==
  \/ /\ online /\ KeyUnused(i)
     /\ done' = [done EXCEPT ![i] = Once(i)]
     /\ \/ after = Reply(i, "ok") /\ record' = [record EXCEPT ![i] = "completed"]
        \/ after = Reply(i, "transient") /\ record' \in AfterLostAnswer(i, "completed")
  \/ /\ online /\ record[i] = "completed"
     /\ UNCHANGED done
     /\ \/ after = Reply(i, "ok") /\ UNCHANGED record
        \/ after = Reply(i, "transient") /\ record' \in AfterLostAnswer(i, "completed")
  \/ /\ online /\ record[i] \in Errors
     /\ after = Reply(i, record[i])
     /\ UNCHANGED <<record, done>>
  \/ /\ online /\ record[i] = "none"
     /\ \E e \in Errors : after = Reply(i, e)
     /\ UNCHANGED <<record, done>>
  \/ /\ after = Reply(i, "transient")
     /\ UNCHANGED <<record, done>>

(* Operations without a key: update_order_status, close_session, ...          *)
ActPlain(i, after) ==
  /\ \/ /\ online
        /\ done' = [done EXCEPT ![i] = Once(i)]
        /\ after \in {Reply(i, "ok"), Reply(i, "transient")}
     \/ /\ UNCHANGED done
        /\ \E e \in Errors : (online \/ e = "transient") /\ after = Reply(i, e)
  /\ UNCHANGED record

Act(i, after) ==
  IF i \in Leased THEN ActLeased(i, after)
  ELSE IF i \in Payments \union Seatings THEN ActAtomic(i, after)
  ELSE ActPlain(i, after)

(* One step of a service call, whoever made it.                               *)
Serve(call, after) ==
  \/ call.at = "acquire" /\ Acquire(call.item, after) /\ UNCHANGED done
  \/ call.at = "act" /\ Act(call.item, after)

Outcomes(i) == {Reply(i, r) : r \in Answers} \union {[at |-> "act", item |-> i, res |-> "ok"]}

ServeLoop(t) ==
  /\ sending[t].at \in {"acquire", "act"}
  /\ \E after \in Outcomes(sending[t].item) :
       /\ Serve(sending[t], after)
       /\ sending' = [sending EXCEPT ![t] = after]
  /\ UNCHANGED <<online, tab, shelf, tapped>>
  /\ UNCHANGED histVars

ServeTap(t) ==
  /\ tapped[t].at \in {"acquire", "act"}
  /\ \E after \in Outcomes(tapped[t].item) :
       /\ Serve(tapped[t], after)
       /\ tapped' = [tapped EXCEPT ![t] = after]
  /\ UNCHANGED <<online, tab, shelf, sending>>
  /\ UNCHANGED histVars

-----------------------------------------------------------------------------
(* The loop hears from the service.                                           *)

RetriesSpent(n) == n >= MaxRetries

(* The branches of the catch block, in the order of the code.                 *)
StatusAfter(e, n) ==
  CASE e = "collision" -> "conflict"
    [] e = "stale"     -> "stale"
    [] e = "fatal"     -> "dead_letter"
    [] OTHER           -> IF RetriesSpent(n) THEN "dead_letter" ELSE "failed"

KnownIsDone(b, i, r) ==       \* a bug: an error that names the key counts as success
  IF r \in {"ok", "collision"} THEN [b EXCEPT !.obj[i].st = "completed"]
  ELSE LET n == b.obj[i].tries + 1
       IN  [b EXCEPT !.obj[i] = [st |-> StatusAfter(r, n), tries |-> n],
                     !.waiting = IF StatusAfter(r, n) = "failed" THEN @ \union {i} ELSE @]

AfterAnswer(b, i, r) ==
  IF r = "ok" THEN [b EXCEPT !.obj[i].st = "completed"]
  ELSE LET n  == b.obj[i].tries + 1
           st == StatusAfter(r, n)
       IN  [b EXCEPT !.obj[i] = [st |-> st, tries |-> n],
                     !.waiting = IF st = "failed" THEN @ \union {i} ELSE @ \ {i}]

Answered(t) ==
  /\ sending[t].at = "answer"
  /\ LET i == sending[t].item
         b == AfterAnswer(tab[t], i, sending[t].res)
     IN  /\ RunOn(t, b)
         /\ fate' = IF b.obj[i].st = "completed" THEN [fate EXCEPT ![i] = "sent"] ELSE fate
  /\ UNCHANGED <<online, tapped, record, done, asked, pressed, opened, cutOff>>

-----------------------------------------------------------------------------
OQNext ==
  \/ GoOffline \/ GoOnline
  \/ \E t \in Tabs :
       \/ OpenTab(t) \/ CloseTab(t) \/ ClearCompleted(t) \/ SyncNow(t)
       \/ ServeLoop(t) \/ ServeTap(t) \/ Answered(t) \/ TapAnswered(t)
       \/ \E i \in Items : \/ Enqueue(t, i) \/ Tap(t, i) \/ ResolveConflict(t, i)
                           \/ RetryItem(t, i) \/ BackoffEnds(t, i)

OQSpec == OQInit /\ [][OQNext]_queueVars

(* Service calls end, the clock and the network go on, and the loop is called *)
(* again and again: no timer of the code does that, but reconnecting, another *)
(* item, or the button.                                                       *)
OQFairness ==
  /\ WF_queueVars(GoOnline)
  /\ \A t \in Tabs :
       /\ WF_queueVars(ServeLoop(t)) /\ WF_queueVars(Answered(t))
       /\ SF_queueVars(SyncNow(t))
       /\ \A i \in Items : WF_queueVars(BackoffEnds(t, i))

OQFairSpec == OQSpec /\ OQFairness

-----------------------------------------------------------------------------
(* Properties.                                                                *)

(* A payment or the seating of a party, queued once, happens at most once,    *)
(* whatever is retried, reloaded or sent from two tabs at a time.             *)
KeyedActsOnce == \A i \in Payments \union Seatings : done[i] <= 1

(* In a browser with one tab, what was queued is on the shelf, however often  *)
(* the tab is closed, until it is reported completed.                         *)
NothingLost ==
  Cardinality(opened) <= 1 =>
    \A i \in Members(asked) : fate[i] = "open" => i \in Members(shelf.order)

(* An item the loop reports completed, if it has a key, has been carried out. *)
CompletedWasDone ==
  \A i \in Payments \union Seatings \union Leased : fate[i] = "sent" => done[i] >= 1

(* An item shown as syncing is being sent, or was when its tab was closed.    *)
SyncingIsSent ==
  \A t \in Tabs : \A i \in Members(tab[t].queue) :
    tab[t].obj[i].st = "syncing" =>
      \/ sending[t].item = i
      \/ i \in cutOff
      \/ Cardinality(opened) > 1

(* The first attempts are made in the order the staff asked in: an item taken *)
(* up overtakes only what was tried before or put back by hand.               *)
FirstTriesInOrder ==
  [][\A t \in Tabs : \A n \in DOMAIN tab[t].queue :
       LET i == tab[t].queue[n]
       IN  (sending[t].item # i /\ sending'[t].item = i) =>
             \A k \in 1..(n - 1) :
               LET j == tab[t].queue[k]
               IN  tab[t].obj[j].st = "queued" => pressed'[j] > 0]_queueVars

(* A comment in checkOrAcquire: two retries cannot both find the key unused,  *)
(* so that a leased operation is carried out once.                            *)
LeasedActsOnce == \A i \in Leased : done[i] <= 1

(* Liveness: a queued item is completed, or ends where the staff see it,      *)
(* unless its tab is closed, while it is sent even for good.                  *)
Ended(t, i) ==
  \/ tab[t].obj[i].st \in {"completed", "dead_letter", "conflict", "stale"}
  \/ ~tab[t].open \/ i \in cutOff

QueuedSettles ==
  \A t \in Tabs : \A i \in Items :
    (i \in Members(tab[t].queue)) ~> Ended(t, i)
=============================================================================
