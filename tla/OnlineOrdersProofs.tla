------------------------ MODULE OnlineOrdersProofs ------------------------
(* For any number of desks, chores, partial cancellations and slips: an       *)
(* accepted online order gets one kitchen ticket, is completed only when it   *)
(* is paid and the kitchen is done with it, and what a guest sees of it never *)
(* goes back unless a partial cancellation has put a status back.             *)
EXTENDS OnlineOrders, FiniteSetTheorems, TLAPS

Accepting == {"accept", "acceptWrite", "acceptSlip"}

Rejecting == {"reject", "rejectWrite", "rejectKots", "rejectKot"}

Settling == {"settled", "settledKots", "settledWrite"}

HandingOver == {"handoverKots", "serve", "complete", "completeKots", "completeWrite"}

(* Steps to which a handler goes on without a list of tickets.                *)
PlainSteps == {"acceptWrite", "acceptSlip", "rejectWrite", "rejectKots", "readyKots"}
                \union Settling \union (HandingOver \ {"serve"})

DeskTask == [at : {"rest", "ready", "readyKots", "readyKot", "collect", "handover"}
                    \union Accepting \union Rejecting \union Settling \union HandingOver,
             by : {"nobody", "manager", "cashier", "captain"},
             todo : SUBSET Slips]

ChoreTask ==
  [at : {"rest", "final", "finalKots", "finalWrite"}]
    \union [at : {"drop"}, k : Slips]
    \union [at : {"sync"}, next : {"rest", "final"}]
    \union [at : {"aggregate", "follow"}, next : {"rest", "final"}, seen : OrderStatus]

AdjustTask ==
  {Idle}
    \union [at : {"order"}, k : Slips, n : 1..Portions, kot : KotStatus \ TerminalKot,
            had : 0..Portions]
    \union [at : {"write"}, k : Slips, n : 1..Portions, kot : KotStatus \ TerminalKot,
            had : 0..Portions, st : OrderStatus \ TerminalOrder, left : 0..Portions]

BillType == [st : OrderStatus, due : BOOLEAN, left : 0..Portions]

GuestType == [polling : BOOLEAN, heard : Stages, first : Stages \union {"asked"}, shown : Stages]

(* A loop over tickets has tickets left, and nothing else carries any.        *)
LoopsGoOn ==
  \A d \in Desks : desk[d].todo # {} <=> desk[d].at \in {"rejectKot", "readyKot", "serve"}

(* No more is taken off than was read.                                        *)
NoneTooMany ==
  \A a \in Adjusts : /\ adjust[a].at # "rest" => adjust[a].n <= adjust[a].had
                     /\ adjust[a].at = "write" => adjust[a].n <= adjust[a].left

OnlineTypes ==
  /\ bill \in BillType
  /\ slip \in [Slips -> KotStatus \union {"none"}]
  /\ dish \in [Slips -> 0..Portions]
  /\ desk \in [Desks -> DeskTask] /\ LoopsGoOn
  /\ chore \in [Chores -> ChoreTask]
  /\ adjust \in [Adjusts -> AdjustTask] /\ NoneTooMany
  /\ setBack \in BOOLEAN
  /\ guest \in GuestType

-----------------------------------------------------------------------------
(* Types.                                                                     *)
LEMMA OnlineTypesInit == OnlineInit => OnlineTypes
<1> SUFFICES ASSUME OnlineInit PROVE OnlineTypes
  OBVIOUS
<1>1. bill \in BillType /\ dish \in [Slips -> 0..Portions]
  BY DutiesKnown DEF OnlineInit, BillType, OrderStatus
<1>2. AtRest \in DeskTask /\ AtRest.todo = {} /\ AtRest.at = "rest"
  BY DEF AtRest, DeskTask
<1>3. Idle \in ChoreTask /\ Idle \in AdjustTask /\ Idle.at = "rest"
  BY DEF Idle, ChoreTask, AdjustTask
<1>4. desk \in [Desks -> DeskTask] /\ LoopsGoOn
  BY <1>2 DEF OnlineInit, LoopsGoOn
<1>5. chore \in [Chores -> ChoreTask] /\ adjust \in [Adjusts -> AdjustTask] /\ NoneTooMany
  BY <1>3 DEF OnlineInit, NoneTooMany
<1>6. guest \in GuestType /\ slip \in [Slips -> KotStatus \union {"none"}] /\ setBack \in BOOLEAN
  BY DEF OnlineInit, GuestType, Stages, KotStatus, OrderStatus
<1> QED BY <1>1, <1>4, <1>5, <1>6 DEF OnlineTypes

(* What a task of a desk, of the kitchen, of a cancellation carries.          *)
LEMMA TaskFields ==
  ASSUME OnlineTypes
  PROVE  /\ bill.st \in OrderStatus /\ bill.due \in BOOLEAN /\ bill.left \in 0..Portions
         /\ \A c \in Chores :
              /\ chore[c].at \in {"rest", "final", "finalKots", "finalWrite", "drop", "sync",
                                  "aggregate", "follow"}
              /\ chore[c].at = "drop" => chore[c].k \in Slips
              /\ chore[c].at \in {"sync", "aggregate", "follow"} => chore[c].next \in {"rest", "final"}
              /\ chore[c].at \in {"aggregate", "follow"} => chore[c].seen \in OrderStatus
         /\ \A a \in Adjusts :
              /\ adjust[a].at \in {"rest", "order", "write"}
              /\ adjust[a].at = "rest" <=> adjust[a] = Idle
              /\ adjust[a].at # "rest" =>
                   /\ adjust[a].k \in Slips /\ adjust[a].n \in 1..Portions
                   /\ adjust[a].kot \in KotStatus \ TerminalKot /\ adjust[a].had \in 0..Portions
                   /\ adjust[a].n <= adjust[a].had
              /\ adjust[a].at = "write" =>
                   /\ adjust[a].st \in OrderStatus \ TerminalOrder
                   /\ adjust[a].left \in 0..Portions /\ adjust[a].n <= adjust[a].left
<1>1. bill.st \in OrderStatus /\ bill.due \in BOOLEAN /\ bill.left \in 0..Portions
  BY DEF OnlineTypes, BillType
<1>2. ASSUME NEW c \in Chores
      PROVE  /\ chore[c].at \in {"rest", "final", "finalKots", "finalWrite", "drop", "sync",
                                  "aggregate", "follow"}
             /\ chore[c].at = "drop" => chore[c].k \in Slips
             /\ chore[c].at \in {"sync", "aggregate", "follow"} => chore[c].next \in {"rest", "final"}
             /\ chore[c].at \in {"aggregate", "follow"} => chore[c].seen \in OrderStatus
  <2>1. chore[c] \in ChoreTask
    BY DEF OnlineTypes
  <2> QED BY <2>1 DEF ChoreTask
<1>3. ASSUME NEW a \in Adjusts
      PROVE  /\ adjust[a].at \in {"rest", "order", "write"}
             /\ adjust[a].at = "rest" <=> adjust[a] = Idle
             /\ adjust[a].at # "rest" =>
                  /\ adjust[a].k \in Slips /\ adjust[a].n \in 1..Portions
                  /\ adjust[a].kot \in KotStatus \ TerminalKot /\ adjust[a].had \in 0..Portions
             /\ adjust[a].at = "write" =>
                  /\ adjust[a].st \in OrderStatus \ TerminalOrder
                  /\ adjust[a].left \in 0..Portions
  <2>1. adjust[a] \in AdjustTask
    BY DEF OnlineTypes
  <2>2. CASE adjust[a] = Idle
    BY <2>2 DEF Idle
  <2>3. CASE adjust[a] \in [at : {"order"}, k : Slips, n : 1..Portions, kot : KotStatus \ TerminalKot,
                            had : 0..Portions]
    BY <2>3 DEF Idle
  <2>4. CASE adjust[a] \in [at : {"write"}, k : Slips, n : 1..Portions, kot : KotStatus \ TerminalKot,
                            had : 0..Portions, st : OrderStatus \ TerminalOrder, left : 0..Portions]
    BY <2>4 DEF Idle
  <2> QED BY <2>1, <2>2, <2>3, <2>4 DEF AdjustTask
<1> QED BY <1>1, <1>2, <1>3 DEF OnlineTypes, NoneTooMany

LEMMA OneDeskTurns ==
  ASSUME OnlineTypes, NEW d \in Desks, NEW next, Turn(d, next)
  PROVE  desk'[d] = next /\ \A e \in Desks \ {d} : desk'[e] = desk[e]
BY DEF Turn, OnlineTypes

LEMMA TurnTyped ==
  ASSUME OnlineTypes, NEW d \in Desks, NEW next \in DeskTask, Turn(d, next),
         next.todo # {} <=> next.at \in {"rejectKot", "readyKot", "serve"}
  PROVE  desk' \in [Desks -> DeskTask] /\ LoopsGoOn'
<1>1. desk' \in [Desks -> DeskTask]
  BY DEF Turn, OnlineTypes
<1>2. desk'[d] = next /\ \A e \in Desks \ {d} : desk'[e] = desk[e]
  BY OneDeskTurns
<1> QED BY <1>1, <1>2 DEF LoopsGoOn, OnlineTypes

LEMMA RestTyped ==
  ASSUME OnlineTypes, NEW d \in Desks, Rest(d) PROVE desk' \in [Desks -> DeskTask] /\ LoopsGoOn'
<1>1. AtRest \in DeskTask /\ AtRest.todo = {} /\ AtRest.at = "rest"
  BY DEF AtRest, DeskTask
<1> QED BY <1>1, TurnTyped DEF Rest

(* Going on to a step that is no loop.                                        *)
LEMMA ThenTyped ==
  ASSUME OnlineTypes, NEW d \in Desks, NEW at, Then(d, at),
         desk[d].at \notin {"rejectKot", "readyKot", "serve"},
         at \in PlainSteps
  PROVE  /\ desk' \in [Desks -> DeskTask] /\ LoopsGoOn'
         /\ desk'[d].at = at /\ desk'[d].by = desk[d].by /\ desk'[d].todo = {}
<1>1. desk[d] \in DeskTask /\ desk[d].todo = {}
  BY DEF OnlineTypes, LoopsGoOn
<1> DEFINE next == [desk[d] EXCEPT !.at = at]
<1>2. /\ next \in DeskTask /\ next.at = at /\ next.by = desk[d].by /\ next.todo = {}
      /\ at \notin {"rejectKot", "readyKot", "serve"}
  BY <1>1 DEF DeskTask, PlainSteps, Accepting, Rejecting, Settling, HandingOver
<1>3. Turn(d, next)
  BY DEF Then
<1> HIDE DEF next
<1>4. desk' \in [Desks -> DeskTask] /\ LoopsGoOn'
  BY <1>2, <1>3, TurnTyped
<1> QED BY <1>2, <1>3, <1>4, OneDeskTurns

LEMMA AggregateIsStatus ==
  ASSUME NEW seen \in OrderStatus, NEW kots PROVE AggregateStatus(seen, kots) \in OrderStatus
BY DEF AggregateStatus, OrderStatus, TerminalOrder

LEMMA GoesTyped ==
  ASSUME OnlineTypes, NEW c \in Chores, NEW task \in ChoreTask, Goes(c, task)
  PROVE  /\ chore' \in [Chores -> ChoreTask] /\ chore'[c] = task
         /\ \A b \in Chores \ {c} : chore'[b] = chore[b]
BY DEF Goes, OnlineTypes

LEMMA AcceptTyped ==
  ASSUME OnlineTypes, NEW d \in Desks, AcceptSlip(d)
  PROVE  \E k \in Slips : /\ slip[k] = "none"
                          /\ slip' = [slip EXCEPT ![k] = "sentToKitchen"]
                          /\ dish' = [dish EXCEPT ![k] = Portions]
<1> DEFINE k == CHOOSE k \in Slips : slip[k] = "none"
<1>1. \E j \in Slips : slip[j] = "none"
  BY DEF AcceptSlip, Made
<1>2. k \in Slips /\ slip[k] = "none"
  BY <1>1
<1>3. slip' = [slip EXCEPT ![k] = "sentToKitchen"] /\ dish' = [dish EXCEPT ![k] = Portions]
  BY DEF AcceptSlip
<1> QED BY <1>2, <1>3

LEMMA DeskTypesStep ==
  ASSUME OnlineTypes, NEW d \in Desks, DeskStep(d) \/ ServerGone(d) PROVE OnlineTypes'
<1>1. /\ UNCHANGED <<chore, adjust, setBack, guest>>
      /\ bill' \in BillType
      /\ slip' \in [Slips -> KotStatus \union {"none"}]
      /\ dish' \in [Slips -> 0..Portions]
  <2>1. CASE AcceptSlip(d)
    <3>1. PICK k \in Slips : /\ slip' = [slip EXCEPT ![k] = "sentToKitchen"]
                             /\ dish' = [dish EXCEPT ![k] = Portions]
      BY <2>1, AcceptTyped
    <3>2. Portions \in 0..Portions /\ "sentToKitchen" \in KotStatus
      BY DutiesKnown DEF KotStatus, OrderStatus
    <3>3. UNCHANGED <<bill, chore, adjust, setBack, guest>>
      BY <2>1 DEF AcceptSlip
    <3> QED BY <3>1, <3>2, <3>3 DEF OnlineTypes
  <2>2. CASE ~AcceptSlip(d)
    <3>1. UNCHANGED <<kitchenVars, guest>>
      BY <2>2 DEF DeskStep, ServerGone, AcceptRead, AcceptWrite, RejectRead, RejectWrite,
            ReadyWrite, FindSlips, MoveSlip, HandoverRead, HandoverKots, ServeSlips, CompleteRead,
            CompleteKots, CompleteWrite, Collect, SettledRead, SettledKots
    <3>2. bill' \in BillType
      BY <2>2 DEF DeskStep, OnlineTypes, BillType, ServerGone, AcceptRead, AcceptWrite, RejectRead,
            RejectWrite, ReadyWrite, FindSlips, MoveSlip, HandoverRead, HandoverKots, ServeSlips,
            CompleteRead, CompleteKots, CompleteWrite, Collect, SettledRead, SettledKots, OrderStatus
    <3>3. slip' \in [Slips -> KotStatus \union {"none"}]
      BY <2>2 DEF DeskStep, OnlineTypes, ServerGone, AcceptRead, AcceptWrite, RejectRead,
            RejectWrite, ReadyWrite, FindSlips, MoveSlip, HandoverRead, HandoverKots, ServeSlips,
            CompleteRead, CompleteKots, CompleteWrite, Collect, SettledRead, SettledKots, Follows,
            OrderStatus, KotStatus
    <3> QED BY <3>1, <3>2, <3>3 DEF kitchenVars, OnlineTypes
  <2> QED BY <2>1, <2>2
<1>2. ASSUME Rest(d) PROVE desk' \in [Desks -> DeskTask] /\ LoopsGoOn'
  BY <1>2, RestTyped
<1>3. ASSUME NEW at, Then(d, at), desk[d].at \notin {"rejectKot", "readyKot", "serve"},
             at \in PlainSteps
      PROVE  desk' \in [Desks -> DeskTask] /\ LoopsGoOn'
  BY <1>3, ThenTyped
<1>4. desk[d] \in DeskTask
  BY DEF OnlineTypes
<1> SUFFICES desk' \in [Desks -> DeskTask] /\ LoopsGoOn'
  BY <1>1 DEF OnlineTypes, NoneTooMany
<1>5. CASE ServerGone(d) \/ AcceptSlip(d) \/ CompleteWrite(d)
  BY <1>2, <1>5 DEF ServerGone, AcceptSlip, CompleteWrite
<1>6. CASE AcceptRead(d) \/ AcceptWrite(d) \/ RejectRead(d) \/ RejectWrite(d)
  BY <1>2, <1>3, <1>6 DEF AcceptRead, AcceptWrite, RejectRead, RejectWrite, Doing, PlainSteps
<1>7. CASE ReadyWrite(d) \/ HandoverRead(d) \/ CompleteRead(d) \/ CompleteKots(d)
  BY <1>2, <1>3, <1>7 DEF ReadyWrite, HandoverRead, CompleteRead, CompleteKots, Doing,
                          HandingOver, PlainSteps
<1>8. CASE Collect(d) \/ SettledRead(d) \/ SettledKots(d)
  BY <1>2, <1>3, <1>8 DEF Collect, SettledRead, SettledKots, Doing, Settling, PlainSteps
<1>9. ASSUME NEW at \in {"rejectKot", "readyKot", "serve"}, NEW todo \in SUBSET Slips, todo # {},
             Turn(d, [desk[d] EXCEPT !.at = at, !.todo = todo])
      PROVE  desk' \in [Desks -> DeskTask] /\ LoopsGoOn'
  <2>1. /\ [desk[d] EXCEPT !.at = at, !.todo = todo] \in DeskTask
        /\ [desk[d] EXCEPT !.at = at, !.todo = todo].at = at
        /\ [desk[d] EXCEPT !.at = at, !.todo = todo].todo = todo
    BY <1>4 DEF DeskTask, Accepting, Rejecting, Settling, HandingOver
  <2> QED BY <1>9, <2>1, TurnTyped
<1>10. CASE FindSlips(d)
  <2> DEFINE rejecting == Doing(d, "rejectKots")
             todo == {k \in Made :
                       slip[k] # "cancelled" /\ (rejecting \/ slip[k] \notin {"ready", "served"})}
  <2>1. LoopOver(d, IF rejecting THEN "rejectKot" ELSE "readyKot", todo) /\ todo \in SUBSET Slips
    BY <1>10 DEF FindSlips, Made
  <2> HIDE DEF rejecting, todo
  <2> QED BY <1>2, <1>9, <2>1 DEF LoopOver, Rest
<1>11. CASE MoveSlip(d)
  <2>1. CASE Rest(d)
    BY <1>2, <2>1
  <2>2. CASE ~Rest(d)
    <3>1. PICK k \in desk[d].todo :
            /\ desk[d].todo # {k}
            /\ Turn(d, [desk[d] EXCEPT !.todo = @ \ {k}])
      BY <1>11, <2>2 DEF MoveSlip, Rest
    <3> DEFINE next == [desk[d] EXCEPT !.todo = desk[d].todo \ {k}]
    <3>2. next \in DeskTask /\ next.at = desk[d].at /\ next.todo = desk[d].todo \ {k}
      BY <1>4 DEF DeskTask
    <3>3. desk[d].at \in {"rejectKot", "readyKot"} /\ next.todo # {}
      BY <1>11, <3>1, <3>2 DEF MoveSlip, Doing
    <3>4. Turn(d, next)
      BY <3>1
    <3> HIDE DEF next
    <3> QED BY <3>2, <3>3, <3>4, TurnTyped
  <2> QED BY <2>1, <2>2
<1>12. CASE HandoverKots(d)
  <2> DEFINE packed == {k \in Made : slip[k] = "ready"}
  <2>1. /\ packed \in SUBSET Slips
        /\ Turn(d, IF ~AllCooked THEN AtRest
                   ELSE IF packed = {} THEN [desk[d] EXCEPT !.at = "complete"]
                   ELSE [desk[d] EXCEPT !.at = "serve", !.todo = packed])
        /\ Doing(d, "handoverKots")
    BY <1>12 DEF HandoverKots, Made
  <2> HIDE DEF packed
  <2> QED BY <1>2, <1>3, <1>9, <2>1 DEF Rest, Then, Doing, HandingOver, PlainSteps
<1>13. CASE ServeSlips(d)
  <2> DEFINE next == [desk[d] EXCEPT !.at = "complete", !.todo = {}]
  <2>1. next \in DeskTask /\ next.at = "complete" /\ next.todo = {}
    BY <1>4 DEF DeskTask, HandingOver
  <2>2. Turn(d, next)
    BY <1>13 DEF ServeSlips
  <2> HIDE DEF next
  <2> QED BY <2>1, <2>2, TurnTyped
<1> QED BY <1>5, <1>6, <1>7, <1>8, <1>10, <1>11, <1>12, <1>13 DEF DeskStep

(* What a task of the kitchen goes on to, and what it leaves alone.           *)
LEMMA ChoreTypesStep ==
  ASSUME OnlineTypes, NEW c \in Chores, ChoreStep(c)
  PROVE  /\ OnlineTypes' /\ UNCHANGED <<dish, desk, adjust, setBack, guest>>
         /\ \A b \in Chores \ {c} : chore'[b] = chore[b]
<1>1. UNCHANGED <<dish, desk, adjust, setBack, guest>>
  BY DEF ChoreStep, DropSlip, SyncOrder, Aggregate, FollowKots, Final, FinalKots, FinalWrite
<1>2. slip' \in [Slips -> KotStatus \union {"none"}] /\ bill' \in BillType
  <2>1. CASE DropSlip(c)
    BY <2>1 DEF DropSlip, OnlineTypes, KotStatus, OrderStatus
  <2>2. CASE FollowKots(c)
    <3>1. chore[c].seen \in OrderStatus
      BY <2>2, TaskFields DEF FollowKots
    <3> QED BY <2>2, <3>1 DEF FollowKots, OnlineTypes, BillType
  <2>3. CASE FinalWrite(c)
    BY <2>3 DEF FinalWrite, OnlineTypes, BillType, OrderStatus
  <2>4. CASE SyncOrder(c) \/ Aggregate(c) \/ Final(c) \/ FinalKots(c)
    BY <2>4 DEF SyncOrder, Aggregate, Final, FinalKots, OnlineTypes
  <2> QED BY <2>1, <2>2, <2>3, <2>4 DEF ChoreStep
<1>3. \E task \in ChoreTask : Goes(c, task)
  <2>a. /\ Idle \in ChoreTask
        /\ \A at \in {"rest", "final", "finalKots", "finalWrite"} : Task(at) \in ChoreTask
        /\ Sync("final") \in ChoreTask
    BY DEF Idle, Task, Sync, ChoreTask
  <2>b. ASSUME NEW at \in {"aggregate", "follow"}, NEW next \in {"rest", "final"}, NEW seen \in OrderStatus
        PROVE  [at |-> at, next |-> next, seen |-> seen] \in ChoreTask
    BY DEF ChoreTask
  <2>1. CASE DropSlip(c)
    BY <2>1, <2>a DEF DropSlip
  <2>2. CASE SyncOrder(c)
    BY <2>2, <2>a, <2>b, TaskFields DEF SyncOrder
  <2>3. CASE Aggregate(c)
    <3>1. chore[c].next \in {"rest", "final"} /\ chore[c].seen \in OrderStatus
      BY <2>3, TaskFields DEF Aggregate
    <3>2. AggregateStatus(chore[c].seen, {slip[k] : k \in Made}) \in OrderStatus
      BY <3>1, AggregateIsStatus
    <3> QED BY <2>3, <2>a, <2>b, <3>1, <3>2 DEF Aggregate
  <2>4. CASE FollowKots(c)
    BY <2>4, <2>a, TaskFields DEF FollowKots
  <2>5. CASE Final(c) \/ FinalKots(c) \/ FinalWrite(c)
    BY <2>5, <2>a DEF Final, FinalKots, FinalWrite
  <2> QED BY <2>1, <2>2, <2>3, <2>4, <2>5 DEF ChoreStep
<1>4. chore' \in [Chores -> ChoreTask] /\ \A b \in Chores \ {c} : chore'[b] = chore[b]
  BY <1>3, GoesTyped
<1> QED BY <1>1, <1>2, <1>4 DEF OnlineTypes, LoopsGoOn, NoneTooMany

LEMMA GuestTypesStep ==
  ASSUME OnlineTypes, Follow \/ FirstRead \/ FirstHear \/ Poll \/ Hear \/ HearNothing
  PROVE  OnlineTypes' /\ UNCHANGED restaurantVars
<1>1. UNCHANGED restaurantVars
  BY DEF Follow, FirstRead, FirstHear, Poll, Hear, HearNothing
<1>2. guest' \in GuestType
  BY TaskFields DEF OnlineTypes, GuestType, Follow, FirstRead, FirstHear, Poll, Hear, HearNothing, Stages, StopsAt
<1> QED BY <1>1, <1>2 DEF OnlineTypes, restaurantVars, kitchenVars, LoopsGoOn, NoneTooMany

LEMMA TapTypesStep ==
  ASSUME OnlineTypes, NEW k \in Slips, NEW to \in KotStatus, NEW c \in Chores, NEW f \in Chores,
         TapSlip(k, to, c, f)
  PROVE  /\ OnlineTypes' /\ UNCHANGED <<bill, dish, desk, adjust, setBack, guest>>
         /\ \A j \in Slips : slip'[j] = IF j = k THEN to ELSE slip[j]
         /\ \A b \in Chores : chore'[b] # chore[b] => chore'[b].at \in {"sync", "final"}
<1>1. /\ slip' \in [Slips -> KotStatus \union {"none"}]
      /\ \A j \in Slips : slip'[j] = IF j = k THEN to ELSE slip[j]
  BY DEF TapSlip, OnlineTypes
<1>2. /\ Sync("rest") \in ChoreTask /\ Sync("rest").at = "sync"
      /\ Task("final") \in ChoreTask /\ Task("final").at = "final"
  BY DEF Sync, Task, ChoreTask
<1>3. /\ chore' \in [Chores -> ChoreTask]
      /\ \A b \in Chores : chore'[b] # chore[b] => chore'[b].at \in {"sync", "final"}
  <2>1. \/ chore' = [chore EXCEPT ![c] = Sync("rest"), ![f] = Task("final")]
        \/ chore' = [chore EXCEPT ![c] = Sync("rest")]
    BY DEF TapSlip, Goes
  <2> QED BY <1>2, <2>1 DEF OnlineTypes
<1> QED BY <1>1, <1>3 DEF TapSlip, OnlineTypes, LoopsGoOn, NoneTooMany

LEMMA CancelTypesStep ==
  ASSUME OnlineTypes, NEW k \in Slips, NEW c \in Chores, PressCancel(k, c)
  PROVE  /\ OnlineTypes' /\ UNCHANGED <<bill, slip, dish, desk, adjust, setBack, guest>>
         /\ slip[k] # "none"
         /\ chore'[c].at = "drop" /\ chore'[c].k = k
         /\ \A b \in Chores \ {c} : chore'[b] = chore[b]
<1> DEFINE task == [at |-> "drop", k |-> k]
<1>1. task \in ChoreTask /\ task.at = "drop" /\ task.k = k
  BY DEF ChoreTask
<1>2. Goes(c, task) /\ UNCHANGED <<bill, slip, dish, desk, adjust, setBack, guest>>
  BY DEF PressCancel
<1> HIDE DEF task
<1>3. /\ chore' \in [Chores -> ChoreTask] /\ chore'[c] = task
      /\ \A b \in Chores \ {c} : chore'[b] = chore[b]
  BY <1>1, <1>2, GoesTyped
<1> QED BY <1>1, <1>2, <1>3 DEF OnlineTypes, LoopsGoOn, NoneTooMany, PressCancel

(* A partial cancellation reads the ticket, then the order, then writes both. *)
LEMMA StartTypesStep ==
  ASSUME OnlineTypes, NEW a \in Adjusts, NEW k \in Slips, NEW n \in 1..Portions, StartAdjust(a, k, n)
  PROVE  /\ OnlineTypes' /\ UNCHANGED <<bill, slip, dish, desk, chore, setBack, guest>>
         /\ slip[k] \notin TerminalKot \union {"none"}
         /\ adjust'[a] = [at |-> "order", k |-> k, n |-> n, kot |-> slip[k], had |-> dish[k]]
         /\ \A b \in Adjusts \ {a} : adjust'[b] = adjust[b]
<1> DEFINE task == [at |-> "order", k |-> k, n |-> n, kot |-> slip[k], had |-> dish[k]]
<1>1. /\ slip[k] \in KotStatus \ TerminalKot /\ dish[k] \in 0..Portions /\ n <= dish[k]
      /\ slip[k] \notin TerminalKot \union {"none"}
  BY DEF StartAdjust, OnlineTypes
<1>2. task \in AdjustTask /\ task.at = "order" /\ task.n <= task.had
  BY <1>1 DEF AdjustTask
<1>3. adjust' = [adjust EXCEPT ![a] = task] /\ UNCHANGED <<bill, slip, dish, desk, chore, setBack, guest>>
  BY DEF StartAdjust
<1> HIDE DEF task
<1>4. /\ adjust' \in [Adjusts -> AdjustTask] /\ adjust'[a] = task
      /\ \A b \in Adjusts \ {a} : adjust'[b] = adjust[b]
  BY <1>2, <1>3 DEF OnlineTypes
<1>5. NoneTooMany'
  BY <1>2, <1>4 DEF OnlineTypes, NoneTooMany
<1> QED BY <1>1, <1>3, <1>4, <1>5 DEF OnlineTypes, LoopsGoOn, task

LEMMA ReadTypesStep ==
  ASSUME OnlineTypes, NEW a \in Adjusts, AdjustRead(a)
  PROVE  /\ OnlineTypes' /\ UNCHANGED <<bill, slip, dish, desk, chore, setBack, guest>>
         /\ \A b \in Adjusts \ {a} : adjust'[b] = adjust[b]
         /\ \/ adjust'[a] = Idle
            \/ /\ adjust[a].at = "order" /\ adjust'[a].at = "write"
               /\ adjust'[a].k = adjust[a].k /\ adjust'[a].n = adjust[a].n
               /\ adjust'[a].kot = adjust[a].kot /\ adjust'[a].had = adjust[a].had
               /\ adjust'[a].st = bill.st /\ adjust'[a].left = bill.left
<1> DEFINE b == adjust[a]
           task == [at |-> "write", k |-> b.k, n |-> b.n, kot |-> b.kot, had |-> b.had,
                    st |-> bill.st, left |-> bill.left]
<1>1. b.at = "order" /\ UNCHANGED <<bill, slip, dish, desk, chore, setBack, guest>>
  BY DEF AdjustRead
<1>2. CASE adjust' = [adjust EXCEPT ![a] = Idle]
  <2>1. Idle \in AdjustTask /\ Idle.at = "rest"
    BY DEF Idle, AdjustTask
  <2>2. /\ adjust' \in [Adjusts -> AdjustTask] /\ adjust'[a] = Idle
        /\ \A e \in Adjusts \ {a} : adjust'[e] = adjust[e]
    BY <1>2, <2>1 DEF OnlineTypes
  <2> QED BY <1>1, <2>1, <2>2 DEF OnlineTypes, LoopsGoOn, NoneTooMany
<1>3. CASE /\ adjust' = [adjust EXCEPT ![a] = task]
           /\ bill.st \notin TerminalOrder /\ ~(b.n > bill.left)
  <2>1. /\ b.k \in Slips /\ b.n \in 1..Portions /\ b.kot \in KotStatus \ TerminalKot
        /\ b.had \in 0..Portions /\ b.n <= b.had
        /\ bill.st \in OrderStatus /\ bill.left \in 0..Portions
    BY <1>1, TaskFields
  <2>2. /\ task \in AdjustTask /\ task.at = "write" /\ task.n <= task.had /\ task.n <= task.left
        /\ task.k = b.k /\ task.n = b.n /\ task.kot = b.kot /\ task.had = b.had
        /\ task.st = bill.st /\ task.left = bill.left
    <3> HIDE DEF b
    <3> QED BY <1>3, <2>1 DEF AdjustTask
  <2> HIDE DEF task, b
  <2>3. /\ adjust' \in [Adjusts -> AdjustTask] /\ adjust'[a] = task
        /\ \A e \in Adjusts \ {a} : adjust'[e] = adjust[e]
    BY <1>3, <2>2 DEF OnlineTypes
  <2>4. NoneTooMany'
    BY <2>2, <2>3 DEF OnlineTypes, NoneTooMany
  <2> QED BY <1>1, <2>2, <2>3, <2>4 DEF OnlineTypes, LoopsGoOn, b
<1> QED BY <1>2, <1>3 DEF AdjustRead

LEMMA WriteTypesStep ==
  ASSUME OnlineTypes, NEW a \in Adjusts, AdjustWrite(a)
  PROVE  /\ OnlineTypes' /\ UNCHANGED <<desk, chore, guest>>
         /\ \A b \in Adjusts \ {a} : adjust'[b] = adjust[b]
         /\ adjust'[a] = Idle /\ adjust[a].at = "write"
         /\ \/ UNCHANGED <<dish, slip, bill, setBack>>
            \/ /\ StillAsRead(adjust[a])
               /\ \A j \in Slips \ {adjust[a].k} : slip'[j] = slip[j] /\ dish'[j] = dish[j]
               /\ slip'[adjust[a].k] =
                    IF adjust[a].had = adjust[a].n THEN "cancelled" ELSE adjust[a].kot
               /\ dish'[adjust[a].k] = adjust[a].had - adjust[a].n
               /\ bill'.left = adjust[a].left - adjust[a].n
               /\ \/ /\ adjust[a].left = adjust[a].n /\ bill'.st = "cancelled" /\ ~bill'.due
                     /\ setBack' = setBack
                  \/ /\ adjust[a].left # adjust[a].n /\ bill'.st = adjust[a].st /\ bill'.due
                     /\ setBack' = (setBack \/ bill.st # adjust[a].st)
<1> DEFINE b == adjust[a]
<1>1. /\ b.at = "write" /\ UNCHANGED <<desk, chore, guest>> /\ adjust' = [adjust EXCEPT ![a] = Idle]
  BY DEF AdjustWrite
<1>2. /\ Idle \in AdjustTask /\ Idle.at = "rest"
  BY DEF Idle, AdjustTask
<1>3. /\ adjust' \in [Adjusts -> AdjustTask] /\ adjust'[a] = Idle
      /\ \A e \in Adjusts \ {a} : adjust'[e] = adjust[e]
  BY <1>1, <1>2 DEF OnlineTypes
<1>4. NoneTooMany'
  BY <1>2, <1>3 DEF OnlineTypes, NoneTooMany
<1>5. CASE UNCHANGED <<dish, slip, bill, setBack>>
  BY <1>1, <1>3, <1>4, <1>5 DEF OnlineTypes, LoopsGoOn
<1>6. CASE ~UNCHANGED <<dish, slip, bill, setBack>>
  <2>1. /\ b.k \in Slips /\ b.n \in 1..Portions /\ b.kot \in KotStatus \ TerminalKot
        /\ b.had \in 0..Portions /\ b.n <= b.had
        /\ b.st \in OrderStatus \ TerminalOrder /\ b.left \in 0..Portions /\ b.n <= b.left
    BY <1>1, TaskFields
  <2>2. /\ StillAsRead(b)
        /\ dish' = [dish EXCEPT ![b.k] = b.had - b.n]
        /\ slip' = [slip EXCEPT ![b.k] = IF b.had = b.n THEN "cancelled" ELSE b.kot]
        /\ bill' = [st |-> IF b.left # b.n THEN b.st ELSE "cancelled", due |-> b.left # b.n,
                    left |-> b.left - b.n]
        /\ setBack' = (setBack \/ (b.left # b.n /\ bill.st # b.st))
    BY <1>6 DEF AdjustWrite
  <2> HIDE DEF b
  <2>3. Portions \in Nat
    BY DutiesKnown
  <2>4. b.had - b.n \in 0..Portions /\ b.left - b.n \in 0..Portions
    BY <2>1, <2>3
  <2>5. /\ dish' \in [Slips -> 0..Portions] /\ slip' \in [Slips -> KotStatus \union {"none"}]
        /\ \A j \in Slips \ {b.k} : slip'[j] = slip[j] /\ dish'[j] = dish[j]
        /\ slip'[b.k] = (IF b.had = b.n THEN "cancelled" ELSE b.kot)
        /\ dish'[b.k] = b.had - b.n
    BY <2>1, <2>2, <2>4 DEF OnlineTypes, KotStatus, OrderStatus
  <2>6. /\ bill' \in BillType /\ bill'.left = b.left - b.n
        /\ bill'.st = (IF b.left # b.n THEN b.st ELSE "cancelled") /\ bill'.due = (b.left # b.n)
    BY <2>1, <2>2, <2>4 DEF BillType, OrderStatus
  <2>7. setBack' \in BOOLEAN
    BY <2>2 DEF OnlineTypes
  <2>8. OnlineTypes'
    BY <1>1, <1>3, <1>4, <2>5, <2>6, <2>7 DEF OnlineTypes, LoopsGoOn
  <2>9. \/ b.left = b.n /\ bill'.st = "cancelled" /\ ~bill'.due /\ setBack' = setBack
        \/ /\ b.left # b.n /\ bill'.st = b.st /\ bill'.due
           /\ setBack' = (setBack \/ bill.st # b.st)
    <3>1. CASE b.left = b.n
      BY <2>2, <2>6, <3>1 DEF OnlineTypes
    <3>2. CASE b.left # b.n
      BY <2>2, <2>6, <3>2
    <3> QED BY <3>1, <3>2
  <2> QED BY <1>1, <1>3, <2>2, <2>5, <2>6, <2>8, <2>9 DEF b
<1> QED BY <1>5, <1>6

LEMMA PressTyped ==
  ASSUME OnlineTypes, NEW d, NEW op, NEW by, <<d, op, by>> \in Duties, PressButton(d, op, by)
  PROVE  /\ OnlineTypes' /\ UNCHANGED <<bill, slip, kitchenVars, guest>>
         /\ d \in Desks /\ op \in {"accept", "reject", "ready", "handover", "collect"}
         /\ desk'[d] = [at |-> op, by |-> by, todo |-> {}]
         /\ \A e \in Desks \ {d} : desk'[e] = desk[e]
<1>1. /\ d \in Desks /\ op \in {"accept", "reject", "ready", "handover", "collect"}
      /\ by \in {"manager", "cashier", "captain"}
  BY DutiesKnown
<1> DEFINE next == [at |-> op, by |-> by, todo |-> {}]
<1>2. next \in DeskTask /\ next.at = op /\ next.todo = {}
  BY <1>1 DEF DeskTask, Accepting, Rejecting
<1>3. Turn(d, next) /\ UNCHANGED <<bill, slip, kitchenVars, guest>>
  BY DEF PressButton
<1> HIDE DEF next
<1>4. desk' \in [Desks -> DeskTask] /\ LoopsGoOn'
  BY <1>1, <1>2, <1>3, TurnTyped
<1>5. desk'[d] = next /\ \A e \in Desks \ {d} : desk'[e] = desk[e]
  BY <1>1, <1>3, OneDeskTurns
<1> QED BY <1>1, <1>3, <1>4, <1>5 DEF OnlineTypes, NoneTooMany, kitchenVars, next

LEMMA OnlineTypesStep == ASSUME OnlineTypes, [OnlineNext]_onlineVars PROVE OnlineTypes'
<1>1. CASE UNCHANGED onlineVars
  BY <1>1 DEF OnlineTypes, onlineVars, kitchenVars, LoopsGoOn, NoneTooMany
<1>2. CASE \E duty \in Duties : PressButton(duty[1], duty[2], duty[3])
  <2>1. PICK duty \in Duties : PressButton(duty[1], duty[2], duty[3])
    BY <1>2
  <2>2. <<duty[1], duty[2], duty[3]>> \in Duties
    BY DutiesKnown
  <2> QED BY <2>1, <2>2, PressTyped
<1>3. CASE \E a \in Adjusts : AdjustStep(a)
  BY <1>3, ReadTypesStep, WriteTypesStep DEF AdjustStep
<1> QED
  BY <1>1, <1>2, <1>3, DeskTypesStep, ChoreTypesStep, GuestTypesStep, TapTypesStep, CancelTypesStep,
     StartTypesStep
  DEF OnlineNext

(* Whatever the desks, the kitchen and the guest do and in whatever order,    *)
(* order, tickets, handlers and page stay in their types.                     *)
THEOREM OnlineTyped == OnlineSpec => []OnlineTypeOK
<1>1. OnlineTypes => OnlineTypeOK
  <2> SUFFICES ASSUME OnlineTypes PROVE OnlineTypeOK
    OBVIOUS
  <2>1. ASSUME NEW d \in Desks
        PROVE  /\ desk[d].by \in {"nobody", "manager", "cashier", "captain"}
               /\ desk[d].todo \subseteq Slips
    BY DEF OnlineTypes, DeskTask
  <2>2. ASSUME NEW a \in Adjusts, adjust[a].at # "rest" PROVE adjust[a].n \in 1..adjust[a].had
    <3>1. /\ adjust[a].n \in 1..Portions /\ adjust[a].had \in 0..Portions
          /\ adjust[a].n <= adjust[a].had
      BY <2>2, TaskFields
    <3> QED BY <3>1, DutiesKnown
  <2> QED BY <2>1, <2>2, TaskFields DEF OnlineTypes, OnlineTypeOK, LoopsGoOn, BillType, GuestType
<1> QED BY <1>1, OnlineTypesInit, OnlineTypesStep, PTL DEF OnlineSpec

-----------------------------------------------------------------------------
(* What a step of a desk does: to the desk, to the order, to the tickets.     *)
GoesOn(d, from, to) == desk[d].at = from /\ desk'[d].at = to /\ desk'[d].todo = {}

DeskGoes(d) ==
  \/ desk'[d].at = "rest" /\ desk'[d].todo = {}
  \/ GoesOn(d, "accept", "acceptWrite") /\ Pending
  \/ GoesOn(d, "acceptWrite", "acceptSlip") /\ bill' = [bill EXCEPT !.st = "sentToKitchen"]
  \/ GoesOn(d, "reject", "rejectWrite")
  \/ GoesOn(d, "rejectWrite", "rejectKots") /\ bill' = [bill EXCEPT !.st = "cancelled"]
  \/ GoesOn(d, "ready", "readyKots")
  \/ /\ <<desk[d].at, desk'[d].at>> \in {<<"rejectKots", "rejectKot">>, <<"readyKots", "readyKot">>}
     /\ desk'[d].todo \subseteq Made /\ desk'[d].todo # {}
  \/ /\ desk[d].at \in {"rejectKot", "readyKot"} /\ desk'[d].at = desk[d].at
     /\ desk'[d].todo \subseteq desk[d].todo
  \/ GoesOn(d, "handover", "handoverKots") /\ ~bill.due
  \/ desk[d].at = "handoverKots" /\ desk'[d].at = "serve" /\ desk'[d].todo \subseteq Made
  \/ GoesOn(d, "handoverKots", "complete")
  \/ GoesOn(d, "serve", "complete")
  \/ GoesOn(d, "complete", "completeKots")
  \/ GoesOn(d, "completeKots", "completeWrite") /\ Unserved = {}
  \/ GoesOn(d, "collect", "settled") /\ bill.st # "cancelled" /\ bill' = [bill EXCEPT !.due = FALSE]
  \/ GoesOn(d, "settled", "settledKots")
  \/ GoesOn(d, "settledKots", "settledWrite") /\ Unserved = {}

DeskWrites(d) ==
  \/ UNCHANGED bill
  \/ desk[d].at = "acceptWrite" /\ bill' = [bill EXCEPT !.st = "sentToKitchen"]
  \/ desk[d].at = "rejectWrite" /\ bill' = [bill EXCEPT !.st = "cancelled"]
  \/ ReadyWrite(d) /\ MayMoveOrder(desk[d].by, "ready") /\ bill' = [bill EXCEPT !.st = "ready"]
  \/ desk[d].at \in {"completeWrite", "settledWrite"} /\ bill' = [bill EXCEPT !.st = "completed"]
  \/ desk[d].at = "collect" /\ bill' = [bill EXCEPT !.due = FALSE]

DeskMoves(d) ==
  \/ UNCHANGED slip
  \/ AcceptSlip(d)
  \/ /\ desk[d].at = "rejectKot"
     /\ \E k \in desk[d].todo : slip' = [slip EXCEPT ![k] = "cancelled"]
  \/ /\ desk[d].at = "readyKot"
     /\ \E k \in desk[d].todo : RulesMove(slip[k], "ready") /\ slip' = [slip EXCEPT ![k] = "ready"]
  \/ /\ desk[d].at = "serve"
     /\ slip' = [k \in Slips |-> IF k \in desk[d].todo THEN "served" ELSE slip[k]]

LEMMA DeskEffect ==
  ASSUME OnlineTypes, NEW d \in Desks, DeskStep(d) \/ ServerGone(d)
  PROVE  /\ DeskGoes(d) /\ DeskWrites(d) /\ DeskMoves(d)
         /\ \A e \in Desks \ {d} : desk'[e] = desk[e]
         /\ UNCHANGED <<chore, adjust, setBack, guest>>
<1>a. desk[d] \in DeskTask
  BY DEF OnlineTypes
<1>1. \A e \in Desks \ {d} : desk'[e] = desk[e]
  BY OneDeskTurns
     DEF DeskStep, ServerGone, Rest, Then, AcceptRead, AcceptWrite, AcceptSlip, RejectRead,
         RejectWrite, ReadyWrite, FindSlips, MoveSlip, HandoverRead, HandoverKots, ServeSlips,
         CompleteRead, CompleteKots, CompleteWrite, Collect, SettledRead, SettledKots, LoopOver
<1>2. DeskWrites(d) /\ UNCHANGED <<chore, adjust, setBack, guest>>
  BY DEF DeskStep, ServerGone, AcceptRead, AcceptWrite, AcceptSlip, RejectRead, RejectWrite,
         ReadyWrite, FindSlips, MoveSlip, HandoverRead, HandoverKots, ServeSlips, CompleteRead,
         CompleteKots, CompleteWrite, Collect, SettledRead, SettledKots, DeskWrites, Doing,
         kitchenVars
<1>3. DeskMoves(d)
  BY DEF DeskStep, ServerGone, AcceptRead, AcceptWrite, RejectRead, RejectWrite,
         ReadyWrite, FindSlips, MoveSlip, HandoverRead, HandoverKots, ServeSlips, CompleteRead,
         CompleteKots, CompleteWrite, Collect, SettledRead, SettledKots, DeskMoves, Doing,
         Follows, MayMoveSlip
<1>4. ASSUME Rest(d) PROVE DeskGoes(d)
  <2>1. desk'[d] = AtRest
    BY <1>4, OneDeskTurns DEF Rest
  <2> QED BY <2>1 DEF AtRest, DeskGoes
<1>5. ASSUME NEW from, NEW to, Then(d, to), desk[d].at = from,
             from \notin {"rejectKot", "readyKot", "serve"},
             to \in PlainSteps
      PROVE  GoesOn(d, from, to)
  BY <1>5, ThenTyped DEF GoesOn
<1> SUFFICES DeskGoes(d)
  BY <1>1, <1>2, <1>3
<1>6. CASE ServerGone(d) \/ AcceptSlip(d) \/ CompleteWrite(d)
  BY <1>4, <1>6 DEF ServerGone, AcceptSlip, CompleteWrite
<1>7. CASE AcceptRead(d) \/ AcceptWrite(d)
  BY <1>4, <1>5, <1>7 DEF AcceptRead, AcceptWrite, Doing, DeskGoes, PlainSteps
<1>8. CASE RejectRead(d) \/ RejectWrite(d) \/ ReadyWrite(d)
  BY <1>4, <1>5, <1>8 DEF RejectRead, RejectWrite, ReadyWrite, Doing, DeskGoes, PlainSteps
<1>9. CASE HandoverRead(d) \/ CompleteRead(d) \/ CompleteKots(d)
  BY <1>4, <1>5, <1>9 DEF HandoverRead, CompleteRead, CompleteKots, Doing, HandingOver, DeskGoes,
                          PlainSteps, NothingCooking
<1>10. CASE Collect(d) \/ SettledRead(d) \/ SettledKots(d)
  BY <1>4, <1>5, <1>10 DEF Collect, SettledRead, SettledKots, Doing, Settling, DeskGoes,
                           PlainSteps, NothingCooking
<1>11. ASSUME NEW next, Turn(d, next) PROVE desk'[d] = next
  BY <1>11, OneDeskTurns
<1>12. CASE FindSlips(d)
  <2> DEFINE rejecting == Doing(d, "rejectKots")
             todo == {k \in Made :
                       slip[k] # "cancelled" /\ (rejecting \/ slip[k] \notin {"ready", "served"})}
  <2>1. /\ LoopOver(d, IF rejecting THEN "rejectKot" ELSE "readyKot", todo) /\ todo \subseteq Made
        /\ desk[d].at \in {"rejectKots", "readyKots"} /\ (rejecting <=> desk[d].at = "rejectKots")
    BY <1>12 DEF FindSlips, Doing
  <2> HIDE DEF rejecting, todo
  <2>2. CASE todo = {}
    BY <1>4, <2>1, <2>2 DEF LoopOver, Rest
  <2>3. CASE todo # {}
    <3>1. desk'[d] = [desk[d] EXCEPT !.at = IF rejecting THEN "rejectKot" ELSE "readyKot", !.todo = todo]
      BY <1>11, <2>1, <2>3 DEF LoopOver
    <3>2. desk'[d].at = (IF rejecting THEN "rejectKot" ELSE "readyKot") /\ desk'[d].todo = todo
      BY <1>a, <3>1 DEF DeskTask
    <3> QED BY <2>1, <2>3, <3>2 DEF DeskGoes
  <2> QED BY <2>2, <2>3
<1>13. CASE MoveSlip(d)
  <2>1. CASE Rest(d)
    BY <1>4, <2>1
  <2>2. CASE ~Rest(d)
    <3>1. PICK k \in desk[d].todo : Turn(d, [desk[d] EXCEPT !.todo = @ \ {k}])
      BY <1>13, <2>2 DEF MoveSlip, Rest
    <3>2. desk'[d] = [desk[d] EXCEPT !.todo = desk[d].todo \ {k}]
      BY <1>11, <3>1
    <3>3. desk'[d].at = desk[d].at /\ desk'[d].todo = desk[d].todo \ {k}
      BY <1>a, <3>2 DEF DeskTask
    <3> QED BY <1>13, <3>3 DEF DeskGoes, MoveSlip, Doing
  <2> QED BY <2>1, <2>2
<1>14. CASE HandoverKots(d)
  <2> DEFINE packed == {k \in Made : slip[k] = "ready"}
  <2>1. /\ packed \subseteq Made /\ Doing(d, "handoverKots")
        /\ Turn(d, IF ~AllCooked THEN AtRest
                   ELSE IF packed = {} THEN [desk[d] EXCEPT !.at = "complete"]
                   ELSE [desk[d] EXCEPT !.at = "serve", !.todo = packed])
    BY <1>14 DEF HandoverKots
  <2> HIDE DEF packed
  <2>2. CASE ~AllCooked \/ packed = {}
    BY <1>4, <1>5, <2>1, <2>2 DEF Rest, Then, Doing, HandingOver, DeskGoes, PlainSteps
  <2>3. CASE ~(~AllCooked \/ packed = {})
    <3>1. desk'[d] = [desk[d] EXCEPT !.at = "serve", !.todo = packed]
      BY <1>11, <2>1, <2>3
    <3>2. desk'[d].at = "serve" /\ desk'[d].todo = packed
      BY <1>a, <3>1 DEF DeskTask
    <3> QED BY <2>1, <3>2 DEF DeskGoes, Doing
  <2> QED BY <2>2, <2>3
<1>15. CASE ServeSlips(d)
  <2>1. desk'[d] = [desk[d] EXCEPT !.at = "complete", !.todo = {}]
    BY <1>11, <1>15 DEF ServeSlips
  <2>2. desk'[d].at = "complete" /\ desk'[d].todo = {}
    BY <1>a, <2>1 DEF DeskTask
  <2> QED BY <1>15, <2>2 DEF DeskGoes, ServeSlips, Doing, GoesOn
<1> QED BY <1>6, <1>7, <1>8, <1>9, <1>10, <1>12, <1>13, <1>14, <1>15 DEF DeskStep

-----------------------------------------------------------------------------
(* One ticket.                                                                *)

(* Orders are accepted at one desk, as they are where one counter serves.     *)
OneAccepts == \A x, y \in Duties : x[2] = "accept" /\ y[2] = "accept" => x[1] = y[1]

MayAccept(d) == \E duty \in Duties : duty[1] = d /\ duty[2] = "accept"

(* While an acceptance is about to write there is no ticket yet, and once it  *)
(* has written the order is pending no more; nor is any status that the       *)
(* kitchen or a partial cancellation has read of it and may write back.       *)
SlipInv ==
  /\ \A d \in Desks :
       /\ desk[d].at \in Accepting => MayAccept(d)
       /\ desk[d].todo \subseteq Made
       /\ desk[d].at \in {"acceptWrite", "acceptSlip"} => Made = {}
       /\ desk[d].at = "acceptSlip" => ~Pending
  /\ \A c \in Chores :
       /\ chore[c].at # "rest" => Made # {}
       /\ chore[c].at = "drop" => chore[c].k \in Made
       /\ chore[c].at \in {"aggregate", "follow"} => chore[c].seen \notin {"draft", "confirmed"}
  /\ \A a \in Adjusts :
       /\ adjust[a].at # "rest" => adjust[a].k \in Made
       /\ adjust[a].at = "write" => adjust[a].st \notin {"draft", "confirmed"}
  /\ Made # {} => ~Pending
  /\ \A k, l \in Made : k = l

LEMMA SlipInit == OnlineInit => SlipInv
BY DEF OnlineInit, SlipInv, AtRest, Idle, Made, Accepting


LEMMA MadeByAcceptance ==
  ASSUME OnlineTypes, SlipInv, NEW d \in Desks, DeskMoves(d)
  PROVE  \/ Made' = Made
         \/ desk[d].at = "acceptSlip" /\ Made = {} /\ \E k \in Slips : Made' = {k}
<1>1. CASE UNCHANGED slip
  BY <1>1 DEF Made
<1>2. CASE AcceptSlip(d)
  <2>1. Made = {} /\ desk[d].at = "acceptSlip"
    BY <1>2 DEF AcceptSlip, SlipInv, Doing
  <2>2. PICK k \in Slips : slip' = [slip EXCEPT ![k] = "sentToKitchen"]
    BY <1>2, AcceptTyped
  <2>3. Made' = {k}
    BY <2>1, <2>2 DEF Made, OnlineTypes
  <2> QED BY <2>1, <2>3
<1>3. ASSUME NEW k \in desk[d].todo, NEW st \in {"cancelled", "ready"},
             slip' = [slip EXCEPT ![k] = st]
      PROVE  Made' = Made
  BY <1>3 DEF Made, SlipInv, OnlineTypes
<1>4. CASE slip' = [k \in Slips |-> IF k \in desk[d].todo THEN "served" ELSE slip[k]]
  BY <1>4 DEF Made, SlipInv, OnlineTypes
<1> QED BY <1>1, <1>2, <1>3, <1>4 DEF DeskMoves

LEMMA PendingNoMore ==
  ASSUME OnlineTypes, SlipInv, ~Pending,
         \/ UNCHANGED bill
         \/ \E d \in Desks : DeskWrites(d)
         \/ \E c \in Chores : ChoreStep(c)
         \/ \E a \in Adjusts : AdjustStep(a)
  PROVE  ~Pending'
<1>1. CASE \E d \in Desks : DeskWrites(d)
  BY <1>1 DEF DeskWrites, Pending, OnlineTypes, BillType
<1>2. CASE \E c \in Chores : ChoreStep(c)
  <2>1. PICK c \in Chores : ChoreStep(c)
    BY <1>2
  <2>2. CASE FollowKots(c)
    BY <2>2 DEF FollowKots, SlipInv, Pending, OnlineTypes, BillType
  <2>3. CASE ~FollowKots(c)
    BY <2>1, <2>3 DEF ChoreStep, DropSlip, SyncOrder, Aggregate, Final, FinalKots, FinalWrite, Pending,
                      OnlineTypes, BillType
  <2> QED BY <2>2, <2>3
<1>3. CASE \E a \in Adjusts : AdjustStep(a)
  <2>1. PICK a \in Adjusts : AdjustStep(a)
    BY <1>3
  <2>2. CASE UNCHANGED bill
    BY <2>2 DEF Pending
  <2>3. CASE ~UNCHANGED bill
    <3>1. AdjustWrite(a)
      BY <2>1, <2>3 DEF AdjustStep, AdjustRead
    <3> QED BY <2>3, <3>1, WriteTypesStep DEF SlipInv, Pending
  <2> QED BY <2>2, <2>3
<1> QED BY <1>1, <1>2, <1>3 DEF Pending

(* No task of the kitchen and no cancellation makes a ticket or unmakes one.  *)
LEMMA SlipChoreStep ==
  ASSUME OnlineTypes, SlipInv, NEW c \in Chores, ChoreStep(c)
  PROVE  SlipInv' /\ Made' = Made
<1>1. /\ UNCHANGED <<desk, adjust>>
      /\ \A b \in Chores \ {c} : chore'[b] = chore[b]
  BY ChoreTypesStep
<1>2. ~Pending => ~Pending'
  BY PendingNoMore
<1>3. Made' = Made
  <2>1. CASE UNCHANGED slip
    BY <2>1 DEF Made
  <2>2. CASE ~UNCHANGED slip
    <3>1. /\ slip' = [slip EXCEPT ![chore[c].k] = "cancelled"]
          /\ chore[c].at = "drop"
      BY <2>2 DEF ChoreStep, DropSlip, SyncOrder, Aggregate, FollowKots, Final, FinalKots, FinalWrite
    <3> QED BY <3>1 DEF Made, SlipInv, OnlineTypes
  <2> QED BY <2>1, <2>2
<1>4. chore[c].at # "rest" /\ Made # {}
  BY DEF SlipInv, ChoreStep, DropSlip, SyncOrder, Aggregate, FollowKots, Final, FinalKots, FinalWrite
<1>5. /\ chore'[c].at # "drop"
      /\ chore'[c].at \in {"aggregate", "follow"} => chore'[c].seen \notin {"draft", "confirmed"}
  <2>1. \A task \in ChoreTask : Goes(c, task) => chore'[c] = task
    BY GoesTyped
  <2>2. /\ Idle \in ChoreTask /\ Idle.at = "rest"
        /\ \A at \in {"rest", "final", "finalKots", "finalWrite"} :
             Task(at) \in ChoreTask /\ Task(at).at = at
        /\ Sync("final") \in ChoreTask /\ Sync("final").at = "sync"
    BY DEF Idle, Task, Sync, ChoreTask
  <2>3. ASSUME NEW at \in {"aggregate", "follow"}, NEW next \in {"rest", "final"}, NEW seen \in OrderStatus,
               Goes(c, [at |-> at, next |-> next, seen |-> seen])
        PROVE  chore'[c].at = at /\ chore'[c].seen = seen
    <3>1. [at |-> at, next |-> next, seen |-> seen] \in ChoreTask
      BY DEF ChoreTask
    <3>2. chore'[c] = [at |-> at, next |-> next, seen |-> seen]
      BY <2>1, <2>3, <3>1
    <3> QED BY <3>2
  <2>4. CASE DropSlip(c)
    BY <2>1, <2>2, <2>4 DEF DropSlip
  <2>5. CASE SyncOrder(c)
    <3>1. chore[c].next \in {"rest", "final"} /\ bill.st \in OrderStatus
      BY <2>5, TaskFields DEF SyncOrder
    <3>2. ~Pending
      BY <1>4 DEF SlipInv
    <3>3. CASE Goes(c, Task(chore[c].next))
      BY <2>1, <2>2, <3>1, <3>3
    <3>4. CASE Goes(c, [at |-> "aggregate", next |-> chore[c].next, seen |-> bill.st])
      BY <2>3, <3>1, <3>2, <3>4 DEF Pending
    <3> QED BY <2>5, <3>3, <3>4 DEF SyncOrder
  <2>6. CASE Aggregate(c)
    <3> DEFINE new == AggregateStatus(chore[c].seen, {slip[k] : k \in Made})
    <3>1. chore[c].next \in {"rest", "final"} /\ chore[c].seen \in OrderStatus \ {"draft", "confirmed"}
      BY <2>6, TaskFields DEF Aggregate, SlipInv
    <3>2. new \in OrderStatus \ {"draft", "confirmed"}
      BY <3>1, AggregateIsStatus DEF AggregateStatus
    <3>3. \/ Goes(c, Task(chore[c].next))
          \/ Goes(c, [at |-> "follow", next |-> chore[c].next, seen |-> new])
      BY <2>6 DEF Aggregate
    <3> HIDE DEF new
    <3> QED BY <2>1, <2>2, <2>3, <3>1, <3>2, <3>3
  <2>7. CASE FollowKots(c)
    BY <2>1, <2>2, <2>7, TaskFields DEF FollowKots
  <2>8. CASE Final(c) \/ FinalKots(c) \/ FinalWrite(c)
    BY <2>1, <2>2, <2>8 DEF Final, FinalKots, FinalWrite
  <2> QED BY <2>4, <2>5, <2>6, <2>7, <2>8 DEF ChoreStep
<1> QED BY <1>1, <1>2, <1>3, <1>4, <1>5 DEF SlipInv, MayAccept

LEMMA SlipAdjustStep ==
  ASSUME OnlineTypes, SlipInv, NEW a \in Adjusts, AdjustStep(a)
  PROVE  SlipInv' /\ Made' = Made
<1>1. ~Pending => ~Pending'
  BY PendingNoMore
<1>2. CASE AdjustRead(a)
  <2>1. /\ UNCHANGED <<bill, slip, desk, chore>>
        /\ \A b \in Adjusts \ {a} : adjust'[b] = adjust[b]
        /\ \/ adjust'[a] = Idle
           \/ /\ adjust[a].at = "order" /\ adjust'[a].k = adjust[a].k /\ adjust'[a].st = bill.st
    BY <1>2, ReadTypesStep
  <2>2. Made' = Made /\ Pending' = Pending
    BY <2>1 DEF Made, Pending
  <2>3. Idle.at = "rest"
    BY DEF Idle
  <2> QED BY <2>1, <2>2, <2>3 DEF SlipInv, MayAccept, Pending
<1>3. CASE AdjustWrite(a)
  <2>1. /\ UNCHANGED <<desk, chore>>
        /\ \A b \in Adjusts \ {a} : adjust'[b] = adjust[b]
        /\ adjust'[a].at = "rest"
    BY <1>3, WriteTypesStep DEF Idle
  <2>2. Made' = Made
    <3>1. CASE UNCHANGED slip
      BY <3>1 DEF Made
    <3>2. CASE ~UNCHANGED slip
      <4>1. /\ \A j \in Slips \ {adjust[a].k} : slip'[j] = slip[j]
            /\ slip'[adjust[a].k] \in {"cancelled", adjust[a].kot}
            /\ adjust[a].at = "write"
        BY <1>3, <3>2, WriteTypesStep
      <4>2. adjust[a].k \in Made /\ adjust[a].kot # "none"
        BY <4>1, TaskFields DEF SlipInv, KotStatus, OrderStatus
      <4> QED BY <4>1, <4>2 DEF Made
    <3> QED BY <3>1, <3>2
  <2> QED BY <1>1, <2>1, <2>2 DEF SlipInv, MayAccept
<1> QED BY <1>2, <1>3 DEF AdjustStep

LEMMA SlipStep ==
  ASSUME OneAccepts, OnlineTypes, SlipInv, [OnlineNext]_onlineVars PROVE SlipInv'
<1>1. ASSUME NEW d \in Desks, DeskStep(d) \/ ServerGone(d) PROVE SlipInv'
  <2>1. /\ DeskGoes(d) /\ DeskWrites(d) /\ DeskMoves(d) /\ \A e \in Desks \ {d} : desk'[e] = desk[e]
        /\ UNCHANGED <<chore, adjust>>
    BY <1>1, DeskEffect
  <2>2. \/ Made' = Made
        \/ desk[d].at = "acceptSlip" /\ \E k \in Slips : Made' = {k}
    BY <2>1, MadeByAcceptance
  <2>3. ~Pending => ~Pending'
    BY <2>1, PendingNoMore
  <2>4. (Made # {} => ~Pending)' /\ \A k, l \in Made' : k = l
    BY <2>2, <2>3 DEF SlipInv
  <2>5. Made \subseteq Made'
    BY <2>2 DEF SlipInv
  <2>6. /\ desk'[d].at \in Accepting => desk[d].at \in Accepting
        /\ desk'[d].todo \subseteq Made'
        /\ desk'[d].at = "acceptWrite" => Made = {} /\ desk[d].at = "accept"
        /\ desk'[d].at = "acceptSlip" =>
             Made = {} /\ desk[d].at = "acceptWrite" /\ bill'.st = "sentToKitchen"
    <3>1. desk'[d].at \in Accepting => desk[d].at \in Accepting
      BY <2>1 DEF DeskGoes, GoesOn, Accepting
    <3>2. desk'[d].todo \subseteq Made'
      BY <2>1, <2>5 DEF DeskGoes, GoesOn, SlipInv
    <3>3. desk'[d].at = "acceptWrite" => Made = {} /\ desk[d].at = "accept"
      BY <2>1 DEF DeskGoes, GoesOn, SlipInv
    <3>4. desk'[d].at = "acceptSlip" => Made = {} /\ desk[d].at = "acceptWrite"
      BY <2>1 DEF DeskGoes, GoesOn, SlipInv
    <3>5. ASSUME desk'[d].at = "acceptSlip" PROVE bill'.st = "sentToKitchen"
      <4>1. bill' = [bill EXCEPT !.st = "sentToKitchen"]
        BY <2>1, <3>5 DEF DeskGoes, GoesOn
      <4> QED BY <4>1 DEF OnlineTypes
    <3> QED BY <3>1, <3>2, <3>3, <3>4, <3>5
  <2>7. ASSUME NEW e \in Desks \ {d}
        PROVE  /\ desk'[e].at \in Accepting => MayAccept(e)
               /\ desk'[e].todo \subseteq Made'
               /\ desk'[e].at \in {"acceptWrite", "acceptSlip"} => Made' = {}
               /\ desk'[e].at = "acceptSlip" => ~Pending'
    <3>1. desk'[e] = desk[e]
      BY <2>1
    <3>2. desk[d].at = "acceptSlip" => desk[e].at \notin Accepting
      BY DEF SlipInv, MayAccept, OneAccepts, Accepting
    <3> QED BY <2>2, <2>3, <2>5, <3>1, <3>2 DEF SlipInv, Accepting
  <2>8. desk'[d].at \in {"acceptWrite", "acceptSlip"} => Made' = {}
    BY <2>2, <2>6
  <2>9. /\ \A c \in Chores :
             /\ chore'[c].at # "rest" => Made' # {}
             /\ chore'[c].at = "drop" => chore'[c].k \in Made'
             /\ chore'[c].at \in {"aggregate", "follow"} => chore'[c].seen \notin {"draft", "confirmed"}
        /\ \A a \in Adjusts :
             /\ adjust'[a].at # "rest" => adjust'[a].k \in Made'
             /\ adjust'[a].at = "write" => adjust'[a].st \notin {"draft", "confirmed"}
    BY <2>1, <2>5 DEF SlipInv
  <2> QED BY <2>4, <2>6, <2>7, <2>8, <2>9 DEF SlipInv, Pending, MayAccept
<1>2. ASSUME NEW duty \in Duties, PressButton(duty[1], duty[2], duty[3]) PROVE SlipInv'
  <2>1. <<duty[1], duty[2], duty[3]>> \in Duties
    BY DutiesKnown
  <2>2. /\ UNCHANGED <<bill, slip, chore, adjust>> /\ duty[1] \in Desks
        /\ duty[2] \in {"accept", "reject", "ready", "handover", "collect"}
        /\ desk'[duty[1]].at = duty[2] /\ desk'[duty[1]].todo = {}
        /\ \A e \in Desks \ {duty[1]} : desk'[e] = desk[e]
    <3>1. desk'[duty[1]] = [at |-> duty[2], by |-> duty[3], todo |-> {}]
      BY <1>2, <2>1, PressTyped
    <3> QED BY <1>2, <2>1, <3>1, PressTyped DEF kitchenVars
  <2>3. desk'[duty[1]].at \in Accepting => MayAccept(duty[1])
    BY <2>2 DEF MayAccept, Accepting
  <2> QED BY <2>2, <2>3 DEF SlipInv, Made, Pending, MayAccept
<1>3. ASSUME NEW c \in Chores, ChoreStep(c) PROVE SlipInv'
  BY <1>3, SlipChoreStep
<1>4. ASSUME NEW k \in Slips, NEW to \in KotStatus, NEW c \in Chores, NEW f \in Chores,
             TapSlip(k, to, c, f)
      PROVE  SlipInv'
  <2>1. /\ UNCHANGED <<bill, desk, adjust>>
        /\ \A j \in Slips : slip'[j] = IF j = k THEN to ELSE slip[j]
        /\ \A b \in Chores : chore'[b] # chore[b] => chore'[b].at \in {"sync", "final"}
    BY <1>4, TapTypesStep
  <2>2. Made' = Made /\ Made # {}
    BY <1>4, <2>1 DEF Made, TapSlip
  <2> QED BY <2>1, <2>2 DEF SlipInv, Pending, MayAccept
<1>5. CASE Follow \/ FirstRead \/ FirstHear \/ Poll \/ Hear \/ HearNothing \/ UNCHANGED onlineVars
  <2>1. UNCHANGED restaurantVars
    BY <1>5, GuestTypesStep DEF onlineVars, restaurantVars
  <2> QED BY <2>1 DEF restaurantVars, kitchenVars, SlipInv, Made, Pending, MayAccept
<1>6. ASSUME NEW k \in Slips, NEW c \in Chores, PressCancel(k, c) PROVE SlipInv'
  <2>1. /\ UNCHANGED <<bill, slip, desk, adjust>> /\ slip[k] # "none"
        /\ chore'[c].at = "drop" /\ chore'[c].k = k
        /\ \A b \in Chores \ {c} : chore'[b] = chore[b]
    BY <1>6, CancelTypesStep
  <2>2. Made' = Made /\ k \in Made
    BY <2>1 DEF Made
  <2> QED BY <2>1, <2>2 DEF SlipInv, Pending, MayAccept
<1>7. ASSUME NEW a \in Adjusts, NEW k \in Slips, NEW n \in 1..Portions, StartAdjust(a, k, n)
      PROVE  SlipInv'
  <2>1. /\ UNCHANGED <<bill, slip, desk, chore>> /\ slip[k] # "none"
        /\ adjust'[a].at = "order" /\ adjust'[a].k = k
        /\ \A b \in Adjusts \ {a} : adjust'[b] = adjust[b]
    <3>1. adjust'[a] = [at |-> "order", k |-> k, n |-> n, kot |-> slip[k], had |-> dish[k]]
      BY <1>7, StartTypesStep
    <3> QED BY <1>7, <3>1, StartTypesStep
  <2>2. Made' = Made /\ k \in Made
    BY <2>1 DEF Made
  <2> QED BY <2>1, <2>2 DEF SlipInv, Pending, MayAccept
<1>8. ASSUME NEW a \in Adjusts, AdjustStep(a) PROVE SlipInv'
  BY <1>8, SlipAdjustStep
<1> QED BY <1>1, <1>2, <1>3, <1>4, <1>5, <1>6, <1>7, <1>8 DEF OnlineNext

LEMMA SlipInvariant ==
  ASSUME OneAccepts PROVE OnlineSpec => [](OnlineTypes /\ SlipInv)
<1>1. OnlineTypes /\ SlipInv /\ [OnlineNext]_onlineVars => (OnlineTypes /\ SlipInv)'
  BY OnlineTypesStep, SlipStep
<1> QED BY <1>1, OnlineTypesInit, SlipInit, PTL DEF OnlineSpec

(* If orders are accepted at one desk, an order never has two kitchen         *)
(* tickets, wherever the server stops and whatever managers, payments and the *)
(* kitchen do to it meanwhile: acceptServerOnlineOrder reads the order again, *)
(* and no stale status brings it back to pending.                             *)
THEOREM OneSlipOnly == ASSUME OneAccepts PROVE OnlineSpec => []OneSlipPerOrder
<1>1. SlipInv => OneSlipPerOrder
  <2> SUFFICES ASSUME SlipInv PROVE Cardinality(Made) <= 1
    BY DEF OneSlipPerOrder
  <2>1. CASE Made = {}
    BY <2>1, FS_EmptySet
  <2>2. CASE Made # {}
    <3>1. PICK k \in Made : TRUE
      BY <2>2
    <3>2. Made = {k}
      BY <3>1 DEF SlipInv
    <3> QED BY <3>2, FS_Singleton
  <2> QED BY <2>1, <2>2
<1> QED BY <1>1, SlipInvariant, PTL


-----------------------------------------------------------------------------
(* Paid, and done with.                                                       *)

(* One counter accepts, rejects and collects, and collects only for orders it *)
(* has accepted; a server that accepted also writes the ticket; and no status *)
(* is written by a manager, whom the rules let write any.                     *)
CounterDuties == {"accept", "reject", "collect"}

OneCounter ==
  /\ \A x, y \in Duties : {x[2], y[2]} \subseteq CounterDuties => x[1] = y[1]
  /\ \A x \in Duties : x[2] = "ready" => x[3] # "manager"
  /\ Cook # "manager"
  /\ CollectAt \cap {"draft", "confirmed"} = {}
  /\ "acceptSlip" \notin CrashAt

AtCounter(d) == \E duty \in Duties : duty[1] = d /\ duty[2] \in CounterDuties

CounterSteps == Accepting \union Rejecting \union {"collect"} \union Settling

Paid == ~bill.due /\ bill.left > 0

(* What a handler at a desk relies on, at each of its awaits.                 *)
Relies(d) ==
  /\ desk[d].at \in CounterSteps => AtCounter(d)
  /\ desk[d].at \in {"acceptWrite", "reject", "rejectWrite"} => Pending
  /\ desk[d].at = "acceptSlip" => bill.st = "sentToKitchen"
  /\ desk[d].at = "rejectKots" => Made = {}
  /\ desk[d].at # "rejectKot"
  /\ desk[d].at = "ready" => desk[d].by # "manager"
  /\ desk[d].at = "collect" => ~Pending
  /\ desk[d].at \in {"handover"} \union HandingOver \union Settling => Made # {}
  /\ desk[d].at \in HandingOver \union Settling => Paid
  /\ desk[d].at \in {"completeWrite", "settledWrite"} => Unserved = {}

ChoreRelies(c) ==
  /\ chore[c].at = "follow" => chore[c].seen # "completed"
  /\ chore[c].at \in {"finalKots", "finalWrite"} => Paid
  /\ chore[c].at = "finalWrite" => Unserved = {}

(* An order without a ticket waits, is rejected, or the desk that accepted it *)
(* is about to write the ticket.                                              *)
OrderFollowsSlip ==
  Made = {} => \/ bill.st \in {"confirmed", "cancelled"}
               \/ bill.st = "sentToKitchen" /\ \E d \in Desks : Doing(d, "acceptSlip")

ItemsLeft == bill.st # "cancelled" => bill.left > 0

DoneIsDone == bill.st = "completed" => Paid /\ Made # {} /\ Unserved = {}

ServiceInv ==
  /\ \A d \in Desks : Relies(d)
  /\ \A c \in Chores : ChoreRelies(c)
  /\ OrderFollowsSlip /\ ItemsLeft /\ DoneIsDone

LEMMA ServiceInit == OnlineInit => ServiceInv
<1> SUFFICES ASSUME OnlineInit PROVE ServiceInv
  OBVIOUS
<1>1. bill.st = "confirmed" /\ bill.left > 0
  BY DutiesKnown DEF OnlineInit
<1>2. \A d \in Desks : desk[d].at = "rest"
  BY DEF OnlineInit, AtRest
<1>3. \A c \in Chores : chore[c].at = "rest"
  BY DEF OnlineInit, Idle
<1> QED BY <1>1, <1>2, <1>3
        DEF ServiceInv, Relies, ChoreRelies, OrderFollowsSlip, ItemsLeft, DoneIsDone,
            CounterSteps, Accepting, Rejecting, Settling, HandingOver

(* What no step takes back.                                                   *)
Kept ==
  /\ Made # {} => Made' = Made
  /\ Paid => Paid'
  /\ Made # {} /\ Unserved = {} => Unserved' = {}
  /\ ~Pending => ~Pending'

(* With the reliances of its desk a step writes the order as its stage        *)
(* allows, or completes one that is done.                                     *)
BillGoes(d) ==
  \/ bill'.st = bill.st
  \/ desk[d].at = "acceptWrite" /\ bill'.st = "sentToKitchen"
  \/ desk[d].at = "rejectWrite" /\ bill'.st = "cancelled"
  \/ bill.st \in {"preparing", "ready"} /\ bill'.st = "ready"
  \/ /\ desk[d].at \in {"completeWrite", "settledWrite"} /\ bill'.st = "completed"
     /\ Paid /\ Made # {} /\ Unserved = {}

LEMMA DeskKeeps ==
  ASSUME OnlineTypes, SlipInv, ServiceInv, NEW d \in Desks, DeskWrites(d), DeskMoves(d)
  PROVE  Kept /\ BillGoes(d) /\ bill'.left = bill.left
<1>1. BillGoes(d) /\ (bill'.due => bill.due) /\ bill'.left = bill.left
  <2>1. CASE ReadyWrite(d) /\ MayMoveOrder(desk[d].by, "ready") /\ bill' = [bill EXCEPT !.st = "ready"]
    <3>1. RulesMove(bill.st, "ready")
      BY <2>1 DEF ReadyWrite, Doing, MayMoveOrder, ServiceInv, Relies
    <3>2. bill.st \in {"preparing", "ready"}
      BY <3>1 DEF RulesMove
    <3> QED BY <2>1, <3>2 DEF OnlineTypes, BillType, BillGoes
  <2>2. CASE desk[d].at \in {"completeWrite", "settledWrite"} /\ bill' = [bill EXCEPT !.st = "completed"]
    <3>1. Paid /\ Made # {} /\ Unserved = {}
      BY <2>2 DEF ServiceInv, Relies, HandingOver, Settling
    <3> QED BY <2>2, <3>1 DEF BillGoes, OnlineTypes, BillType
  <2>3. CASE \/ UNCHANGED bill
             \/ desk[d].at = "acceptWrite" /\ bill' = [bill EXCEPT !.st = "sentToKitchen"]
             \/ desk[d].at = "rejectWrite" /\ bill' = [bill EXCEPT !.st = "cancelled"]
             \/ desk[d].at = "collect" /\ bill' = [bill EXCEPT !.due = FALSE]
    BY <2>3 DEF BillGoes, OnlineTypes, BillType
  <2> QED BY <2>1, <2>2, <2>3 DEF DeskWrites
<1>2. Made # {} => Made' = Made
  BY MadeByAcceptance DEF SlipInv
<1>3. ~Pending => ~Pending'
  BY PendingNoMore
<1>4. ASSUME Made # {}, Unserved = {} PROVE Unserved' = {}
  <2>1. \A k \in Made : slip[k] \in TerminalKot
    BY <1>4 DEF Unserved
  <2>2. \A k \in Made : slip'[k] \in TerminalKot
    <3>1. ~AcceptSlip(d) /\ desk[d].at # "rejectKot"
      BY <1>4 DEF AcceptSlip, Doing, SlipInv, ServiceInv, Relies
    <3>2. CASE desk[d].at = "readyKot"
      BY <2>1, <3>1, <3>2 DEF DeskMoves, SlipInv, RulesMove, TerminalKot
    <3>3. CASE desk[d].at = "serve"
      BY <2>1, <3>1, <3>3 DEF DeskMoves, TerminalKot, Made
    <3> QED BY <2>1, <3>1, <3>2, <3>3 DEF DeskMoves
  <2> QED BY <1>2, <1>4, <2>2 DEF Unserved
<1> QED BY <1>1, <1>2, <1>3, <1>4 DEF Kept, Paid

(* Whoever waits may go on relying on what it read.                           *)
LEMMA OthersRely ==
  ASSUME OneCounter, OnlineTypes, SlipInv, ServiceInv, NEW d \in Desks, DeskStep(d) \/ ServerGone(d),
         NEW e \in Desks \ {d}
  PROVE  Relies(e)'
<1>1. /\ Kept /\ BillGoes(d) /\ DeskMoves(d)
      /\ desk'[e] = desk[e]
  BY DeskEffect, DeskKeeps
<1>2. ASSUME desk[e].at \in {"acceptWrite", "acceptSlip", "reject", "rejectWrite", "rejectKots"}
      PROVE  bill'.st = bill.st /\ Made' = {}
  <2>1. AtCounter(e) /\ Relies(e)
    BY <1>2 DEF ServiceInv, Relies, CounterSteps, Accepting, Rejecting
  <2>2. desk[d].at \notin CounterSteps
    BY <2>1 DEF ServiceInv, Relies, AtCounter, OneCounter
  <2>3. Made = {} /\ bill.st \notin {"preparing", "ready"}
    BY <1>2, <2>1 DEF Relies, SlipInv, Pending, ServiceInv, OrderFollowsSlip
  <2>4. Made' = {}
    BY <1>1, <2>2, <2>3, MadeByAcceptance DEF CounterSteps, Accepting
  <2> QED BY <1>1, <2>2, <2>3, <2>4 DEF BillGoes, CounterSteps, Accepting, Rejecting
<1>3. Relies(e)
  BY DEF ServiceInv
<1> QED BY <1>1, <1>2, <1>3 DEF Relies, Kept, Pending, AtCounter, HandingOver, Settling

LEMMA ItselfRelies ==
  ASSUME OneCounter, OnlineTypes, SlipInv, ServiceInv, NEW d \in Desks, DeskStep(d) \/ ServerGone(d)
  PROVE  Relies(d)'
<1>1. DeskGoes(d) /\ DeskWrites(d) /\ DeskMoves(d) /\ Kept /\ BillGoes(d)
  BY DeskEffect, DeskKeeps
<1>2. Relies(d) /\ OrderFollowsSlip /\ bill \in BillType
  BY DEF ServiceInv, OnlineTypes
<1>3. desk'[d].at \in CounterSteps => desk[d].at \in CounterSteps
  BY <1>1 DEF DeskGoes, GoesOn, CounterSteps, Accepting, Rejecting, Settling
<1>4. desk'[d].at \in {"acceptWrite", "reject", "rejectWrite"} => Pending'
  <2>1. desk'[d].at \in {"acceptWrite", "reject", "rejectWrite"} =>
          Pending /\ desk[d].at \in {"accept", "reject"}
    BY <1>1, <1>2 DEF DeskGoes, GoesOn, Relies
  <2>2. desk[d].at \in {"accept", "reject"} /\ Pending => bill'.st = bill.st
    BY <1>1 DEF BillGoes, Pending
  <2> QED BY <2>1, <2>2 DEF Pending
<1>5. desk'[d].at = "acceptSlip" => bill'.st = "sentToKitchen"
  BY <1>1, <1>2 DEF DeskGoes, GoesOn, BillType
<1>6. desk'[d].at = "rejectKots" => Made' = {}
  <2>1. desk'[d].at = "rejectKots" => desk[d].at = "rejectWrite"
    BY <1>1 DEF DeskGoes, GoesOn
  <2>2. desk[d].at = "rejectWrite" => Made = {}
    BY <1>2 DEF Relies, SlipInv
  <2>3. desk[d].at = "rejectWrite" => Made' = Made
    BY <1>1, MadeByAcceptance
  <2> QED BY <2>1, <2>2, <2>3
<1>7. /\ desk'[d].at # "ready" /\ desk'[d].at # "collect"
      /\ desk'[d].at # "rejectKot"
  BY <1>1, <1>2 DEF DeskGoes, GoesOn, Relies
<1>8. desk'[d].at \in {"handover"} \union HandingOver \union Settling => Made # {}
  <2>1. desk[d].at = "collect" /\ bill.st # "cancelled" => Made # {}
    <3>1. ASSUME desk[d].at = "collect" PROVE \A e \in Desks : ~Doing(e, "acceptSlip")
      BY <1>2, <3>1 DEF ServiceInv, Relies, CounterSteps, Accepting, AtCounter, OneCounter, Doing
    <3> QED BY <1>2, <3>1 DEF Relies, OrderFollowsSlip, Pending
  <2> QED BY <1>1, <1>2, <2>1 DEF DeskGoes, GoesOn, Relies, HandingOver, Settling
<1>9. desk'[d].at \in HandingOver \union Settling => Paid'
  <2>1. bill' = [bill EXCEPT !.due = FALSE] /\ bill.st # "cancelled" => Paid'
    BY <1>2 DEF ServiceInv, ItemsLeft, Paid, BillType
  <2>2. desk[d].at = "handover" /\ desk'[d].at = "handoverKots" => Paid
    <3>1. ASSUME desk[d].at = "handover", desk'[d].at = "handoverKots"
          PROVE  bill.st \notin TerminalOrder /\ ~bill.due
      <4>1. ~ServerGone(d)
        BY <3>1, OneDeskTurns DEF ServerGone, Rest, AtRest
      <4>2. HandoverRead(d)
        BY <3>1, <4>1 DEF DeskStep, AcceptRead, AcceptWrite, AcceptSlip, RejectRead, RejectWrite,
              ReadyWrite, FindSlips, MoveSlip, HandoverKots, ServeSlips, CompleteRead,
              CompleteKots, CompleteWrite, Collect, SettledRead, SettledKots, Doing
      <4>3. Rest(d) => desk'[d].at = "rest"
        BY OneDeskTurns DEF Rest, AtRest
      <4> QED BY <3>1, <4>2, <4>3 DEF HandoverRead
    <3> QED BY <3>1 DEF ServiceInv, ItemsLeft, Paid, TerminalOrder
  <2>3. ASSUME desk'[d].at \in HandingOver \union Settling
        PROVE  \/ desk[d].at \in HandingOver \union Settling
               \/ desk[d].at = "handover" /\ desk'[d].at = "handoverKots"
               \/ bill' = [bill EXCEPT !.due = FALSE] /\ bill.st # "cancelled"
    BY <1>1, <2>3 DEF DeskGoes, GoesOn, HandingOver, Settling
  <2> QED BY <1>1, <1>2, <2>1, <2>2, <2>3 DEF Relies, Kept
<1>10. desk'[d].at \in {"completeWrite", "settledWrite"} => Unserved = {}
  BY <1>1 DEF DeskGoes, GoesOn
<1> QED BY <1>1, <1>2, <1>3, <1>4, <1>5, <1>6, <1>7, <1>8, <1>9, <1>10
        DEF Relies, Kept, AtCounter, HandingOver, Settling

LEMMA ServiceDeskStep ==
  ASSUME OneCounter, OnlineTypes, SlipInv, ServiceInv, NEW d \in Desks, DeskStep(d) \/ ServerGone(d)
  PROVE  ServiceInv'
<1>1. /\ Kept /\ BillGoes(d) /\ DeskMoves(d) /\ UNCHANGED chore /\ bill'.left = bill.left
      /\ \A e \in Desks \ {d} : desk'[e] = desk[e]
  BY DeskEffect, DeskKeeps
<1>2. \A e \in Desks : Relies(e)'
  BY OthersRely, ItselfRelies
<1>3. \A c \in Chores : ChoreRelies(c)'
  <2>1. \A c \in Chores : chore'[c].at # "rest" => Made # {}
    BY <1>1 DEF SlipInv
  <2> QED BY <1>1, <2>1 DEF ServiceInv, ChoreRelies, Kept
<1>4. OrderFollowsSlip'
  <2> SUFFICES ASSUME Made' = {}
               PROVE  \/ bill'.st \in {"confirmed", "cancelled"}
                      \/ bill'.st = "sentToKitchen" /\ \E e \in Desks : Doing(e, "acceptSlip")'
    BY DEF OrderFollowsSlip
  <2>1. Made = {}
    BY <1>1 DEF Kept
  <2>2. desk[d].at # "acceptSlip"
    <3>1. ASSUME desk[d].at = "acceptSlip" PROVE FALSE
      <4>1. AcceptSlip(d)
        BY <3>1 DEF OneCounter, DeskStep, ServerGone, AcceptRead, AcceptWrite, RejectRead, RejectWrite,
              ReadyWrite, FindSlips, MoveSlip, HandoverRead, HandoverKots, ServeSlips, CompleteRead,
              CompleteKots, CompleteWrite, Collect, SettledRead, SettledKots, Doing
      <4>2. PICK k \in Slips : slip' = [slip EXCEPT ![k] = "sentToKitchen"]
        BY <4>1, AcceptTyped
      <4> QED BY <4>2 DEF Made, OnlineTypes
    <3> QED BY <3>1
  <2>3. CASE bill'.st = bill.st
    <3>1. \A e \in Desks : Doing(e, "acceptSlip") => Doing(e, "acceptSlip")'
      BY <1>1, <2>2 DEF Doing
    <3> QED BY <2>1, <2>3, <3>1 DEF ServiceInv, OrderFollowsSlip
  <2>4. CASE desk[d].at = "acceptWrite" /\ bill'.st = "sentToKitchen"
    <3>1. DeskGoes(d) /\ (ServerGone(d) => UNCHANGED bill)
      BY DeskEffect DEF ServerGone
    <3>2. Pending
      BY <2>4 DEF ServiceInv, Relies
    <3>3. ~ServerGone(d)
      BY <2>4, <3>1, <3>2 DEF Pending
    <3>4. AcceptWrite(d)
      BY <2>4, <3>3 DEF DeskStep, AcceptRead, AcceptSlip, RejectRead, RejectWrite,
            ReadyWrite, FindSlips, MoveSlip, HandoverRead, HandoverKots, ServeSlips, CompleteRead,
            CompleteKots, CompleteWrite, Collect, SettledRead, SettledKots, Doing
    <3>5. Doing(d, "acceptSlip")'
      BY <3>4, ThenTyped DEF AcceptWrite, Doing, PlainSteps
    <3> QED BY <2>4, <3>5
  <2>5. ~(bill.st \in {"preparing", "ready"})
    BY <2>1 DEF ServiceInv, OrderFollowsSlip
  <2> QED BY <1>1, <2>1, <2>3, <2>4, <2>5 DEF BillGoes
<1>5. DoneIsDone'
  BY <1>1 DEF ServiceInv, DoneIsDone, BillGoes, Kept
<1>6. ItemsLeft'
  <2>1. bill.st = "cancelled" /\ bill'.st # "cancelled" => bill'.st = "completed" /\ Paid
    BY <1>1 DEF BillGoes, ServiceInv, Relies, Pending
  <2> QED BY <1>1, <2>1 DEF ServiceInv, ItemsLeft, Paid
<1> QED BY <1>2, <1>3, <1>4, <1>5, <1>6 DEF ServiceInv


LEMMA ServicePressStep ==
  ASSUME OneCounter, OnlineTypes, SlipInv, ServiceInv, NEW duty \in Duties,
         PressButton(duty[1], duty[2], duty[3])
  PROVE  ServiceInv'
<1> DEFINE d == duty[1]
           op == duty[2]
<1>1. /\ UNCHANGED <<bill, slip, chore>> /\ d \in Desks
      /\ op \in {"accept", "reject", "ready", "handover", "collect"}
      /\ desk'[d].at = op /\ desk'[d].by = duty[3]
      /\ \A e \in Desks \ {d} : desk'[e] = desk[e]
  <2>1. <<duty[1], duty[2], duty[3]>> \in Duties
    BY DutiesKnown
  <2>2. desk'[d] = [at |-> op, by |-> duty[3], todo |-> {}]
    BY <2>1, PressTyped
  <2> QED BY <2>1, <2>2, PressTyped DEF kitchenVars
<1>2. Made' = Made /\ Unserved' = Unserved /\ (Pending <=> Pending') /\ (Paid <=> Paid')
  BY <1>1 DEF Made, Unserved, Pending, Paid
<1>3. Offered(op) /\ desk[d].at = "rest"
  BY DEF PressButton, Doing
<1>4. op \in CounterDuties => AtCounter(d)
  BY DEF AtCounter
<1>5. op = "ready" => duty[3] # "manager"
  BY DEF OneCounter
<1>6. op = "reject" => Pending
  BY <1>3 DEF Offered
<1>7. op = "handover" => Made # {}
  BY <1>3 DEF Offered, ServiceInv, OrderFollowsSlip
<1>8. op = "collect" => ~Pending
  BY <1>3 DEF Offered, OneCounter, Pending
<1>9. Relies(d)'
  <2> HIDE DEF d, op
  <2> QED BY <1>1, <1>2, <1>4, <1>5, <1>6, <1>7, <1>8
          DEF Relies, CounterSteps, CounterDuties, Accepting, Rejecting, Settling, HandingOver, AtCounter
<1>10. ASSUME NEW e \in Desks \ {d} PROVE Relies(e)'
  BY <1>1, <1>2 DEF ServiceInv, Relies, AtCounter
<1>11. \A e \in Desks : Doing(e, "acceptSlip") => Doing(e, "acceptSlip")'
  BY <1>1, <1>3 DEF Doing
<1>12. OrderFollowsSlip'
  BY <1>1, <1>2, <1>11 DEF ServiceInv, OrderFollowsSlip
<1>13. DoneIsDone' /\ ItemsLeft' /\ \A c \in Chores : ChoreRelies(c)'
  BY <1>1, <1>2 DEF ServiceInv, DoneIsDone, ItemsLeft, ChoreRelies
<1> QED BY <1>9, <1>10, <1>12, <1>13 DEF ServiceInv

(* The kitchen and the server take back nothing a handler relies on: a status *)
(* goes on, ends, or is put back, and what is paid stays as it is.            *)
KitchenKeeps ==
  /\ UNCHANGED <<desk, guest>>
  /\ Kept /\ Made' = Made /\ (Made = {} => UNCHANGED bill)
  /\ \A c \in Chores : ChoreRelies(c)'
  /\ ItemsLeft' /\ DoneIsDone'
  /\ \/ bill'.st = bill.st \/ RulesMove(bill.st, bill'.st)
     \/ bill'.st \in TerminalOrder \/ setBack'
  /\ setBack => setBack'

LEMMA TapKeeps ==
  ASSUME OnlineTypes, SlipInv, ServiceInv, NEW k \in Slips, NEW to \in KotStatus,
         NEW c \in Chores, NEW f \in Chores, TapSlip(k, to, c, f)
  PROVE  KitchenKeeps
<1>1. /\ UNCHANGED <<bill, desk, setBack, guest>>
      /\ \A j \in Slips : slip'[j] = IF j = k THEN to ELSE slip[j]
      /\ \A b \in Chores : chore'[b] # chore[b] => chore'[b].at \in {"sync", "final"}
  BY TapTypesStep
<1>2. slip[k] \notin {"none", "served", "cancelled"} /\ to \in {"preparing", "ready", "served"}
  BY DEF TapSlip, RulesMove
<1>3. Made' = Made /\ k \in Made /\ k \in Unserved
  BY <1>1, <1>2 DEF Made, Unserved, TerminalKot
<1>4. \A b \in Chores : ChoreRelies(b)'
  BY <1>1, <1>3 DEF ServiceInv, ChoreRelies, Paid
<1> QED BY <1>1, <1>3, <1>4 DEF KitchenKeeps, Kept, Paid, Pending, ServiceInv, ItemsLeft, DoneIsDone

LEMMA CancelKeeps ==
  ASSUME OnlineTypes, SlipInv, ServiceInv, NEW k \in Slips, NEW c \in Chores, PressCancel(k, c)
  PROVE  KitchenKeeps
<1>1. /\ UNCHANGED <<bill, slip, desk, setBack, guest>> /\ chore'[c].at = "drop"
      /\ \A b \in Chores \ {c} : chore'[b] = chore[b]
  BY CancelTypesStep
<1>2. Made' = Made /\ Unserved' = Unserved
  BY <1>1 DEF Made, Unserved
<1>3. \A b \in Chores : ChoreRelies(b)'
  BY <1>1, <1>2 DEF ServiceInv, ChoreRelies, Paid
<1> QED BY <1>1, <1>2, <1>3 DEF KitchenKeeps, Kept, Paid, Pending, ServiceInv, ItemsLeft, DoneIsDone

(* The background goes on by what it read; the rules refuse what is stale.    *)
LEMMA ChoreKeeps ==
  ASSUME OneCounter, OnlineTypes, SlipInv, ServiceInv, NEW c \in Chores, ChoreStep(c)
  PROVE  KitchenKeeps
<1>1. /\ UNCHANGED <<dish, desk, adjust, setBack, guest>>
      /\ \A b \in Chores \ {c} : chore'[b] = chore[b]
  BY ChoreTypesStep
<1>2. Made' = Made /\ (~Pending => ~Pending') /\ Made # {}
  BY SlipChoreStep, PendingNoMore
     DEF SlipInv, ChoreStep, DropSlip, SyncOrder, Aggregate, FollowKots, Final, FinalKots, FinalWrite
<1>3. \A task \in ChoreTask : Goes(c, task) => chore'[c] = task
  BY GoesTyped
<1>4. /\ Idle \in ChoreTask /\ Idle.at = "rest"
      /\ \A at \in {"rest", "final", "finalKots", "finalWrite"} :
           Task(at) \in ChoreTask /\ Task(at).at = at
      /\ Sync("final") \in ChoreTask /\ Sync("final").at = "sync"
  BY DEF Idle, Task, Sync, ChoreTask
<1>5. \A b \in Chores \ {c} : ChoreRelies(b)
  BY DEF ServiceInv
<1> DEFINE Stays == UNCHANGED <<bill, slip>>
<1>6. ASSUME Stays, ChoreRelies(c)' PROVE KitchenKeeps
  <2>1. Unserved' = Unserved
    BY <1>2, <1>6 DEF Unserved
  <2> QED BY <1>1, <1>2, <1>5, <1>6, <2>1
          DEF KitchenKeeps, Kept, Paid, ServiceInv, ItemsLeft, DoneIsDone, ChoreRelies
<1>7. CASE DropSlip(c)
  <2>1. \/ UNCHANGED slip
        \/ /\ RulesMove(slip[chore[c].k], "cancelled")
           /\ slip' = [slip EXCEPT ![chore[c].k] = "cancelled"]
    BY <1>7 DEF DropSlip
  <2>2. Unserved = {} => Unserved' = {}
    BY <1>2, <2>1 DEF Unserved, Made, TerminalKot, OnlineTypes
  <2>3. chore'[c].at \in {"rest", "sync"}
    BY <1>3, <1>4, <1>7 DEF DropSlip
  <2>4. UNCHANGED bill
    BY <1>7 DEF DropSlip
  <2> QED BY <1>1, <1>2, <1>5, <2>2, <2>3, <2>4
          DEF KitchenKeeps, Kept, Paid, ServiceInv, ItemsLeft, DoneIsDone, ChoreRelies
<1>8. CASE SyncOrder(c)
  <2>1. chore[c].next \in {"rest", "final"} /\ bill.st \in OrderStatus
    BY <1>8, TaskFields DEF SyncOrder
  <2>2. [at |-> "aggregate", next |-> chore[c].next, seen |-> bill.st] \in ChoreTask
    BY <2>1 DEF ChoreTask
  <2>3. chore'[c].at \in {"rest", "final", "aggregate"}
    BY <1>3, <1>4, <1>8, <2>1, <2>2 DEF SyncOrder
  <2> QED BY <1>6, <1>8, <2>3 DEF SyncOrder, ChoreRelies
<1>9. CASE Aggregate(c)
  <2> DEFINE new == AggregateStatus(chore[c].seen, {slip[k] : k \in Made})
             task == [at |-> "follow", next |-> chore[c].next, seen |-> new]
  <2>1. chore[c].next \in {"rest", "final"} /\ chore[c].seen \in OrderStatus
    BY <1>9, TaskFields DEF Aggregate
  <2>2. new \in OrderStatus /\ (new # chore[c].seen => new # "completed")
    BY <2>1, AggregateIsStatus DEF AggregateStatus
  <2>3. \/ Goes(c, Task(chore[c].next))
        \/ Goes(c, task) /\ new # chore[c].seen
    BY <1>9 DEF Aggregate
  <2>4. task \in ChoreTask /\ task.at = "follow" /\ task.seen = new
    <3> HIDE DEF new
    <3> QED BY <2>1, <2>2 DEF ChoreTask
  <2> HIDE DEF new, task
  <2>5. chore'[c].at \in {"rest", "final"} \/ (chore'[c].at = "follow" /\ chore'[c].seen # "completed")
    BY <1>3, <1>4, <2>1, <2>2, <2>3, <2>4
  <2> QED BY <1>6, <1>9, <2>5 DEF Aggregate, ChoreRelies
<1>10. CASE FollowKots(c)
  <2>1. chore[c].next \in {"rest", "final"} /\ chore[c].seen \in OrderStatus /\ chore[c].seen # "completed"
    BY <1>10, TaskFields DEF FollowKots, ServiceInv, ChoreRelies
  <2>2. chore'[c].at \in {"rest", "final"}
    BY <1>3, <1>4, <1>10, <2>1 DEF FollowKots
  <2>3. CASE UNCHANGED bill
    BY <1>6, <1>10, <2>2, <2>3 DEF FollowKots, ChoreRelies
  <2>4. CASE /\ chore[c].seen # "cancelled" /\ RulesMove(bill.st, chore[c].seen)
             /\ bill' = [bill EXCEPT !.st = chore[c].seen]
    <3>1. /\ bill'.st = chore[c].seen /\ bill'.due = bill.due /\ bill'.left = bill.left
          /\ bill.st # "cancelled"
      BY <2>1, <2>4 DEF OnlineTypes, BillType, RulesMove
    <3>2. Unserved' = Unserved
      BY <1>2, <1>10 DEF FollowKots, Unserved
    <3> QED BY <1>1, <1>2, <1>5, <2>1, <2>2, <2>4, <3>1, <3>2
            DEF KitchenKeeps, Kept, Paid, ServiceInv, ItemsLeft, DoneIsDone, ChoreRelies
  <2> QED BY <1>10, <2>3, <2>4 DEF FollowKots, KitchenMayWrite, OneCounter
<1>11. CASE Final(c)
  <2>1. UNCHANGED <<bill, slip>>
    BY <1>11 DEF Final
  <2>2. chore'[c].at = "finalKots" => Paid
    BY <1>3, <1>4, <1>11 DEF Final, ServiceInv, ItemsLeft, Paid, TerminalOrder
  <2>3. chore'[c].at \in {"rest", "finalKots"}
    BY <1>3, <1>4, <1>11 DEF Final
  <2> QED BY <1>6, <2>1, <2>2, <2>3 DEF ChoreRelies, Paid
<1>12. CASE FinalKots(c)
  <2>1. UNCHANGED <<bill, slip>> /\ chore[c].at = "finalKots"
    BY <1>12 DEF FinalKots
  <2>2. Paid /\ Unserved' = Unserved
    BY <1>2, <2>1 DEF ServiceInv, ChoreRelies, Unserved
  <2>3. chore'[c].at = "rest" \/ (chore'[c].at = "finalWrite" /\ Unserved = {})
    <3>1. CASE NothingCooking
      BY <1>3, <1>4, <1>12, <3>1 DEF FinalKots, NothingCooking
    <3>2. CASE ~NothingCooking
      BY <1>3, <1>4, <1>12, <3>2 DEF FinalKots
    <3> QED BY <3>1, <3>2
  <2> QED BY <1>6, <2>1, <2>2, <2>3 DEF ChoreRelies, Paid
<1>13. CASE FinalWrite(c)
  <2>1. chore'[c].at = "rest" /\ UNCHANGED slip
    BY <1>3, <1>4, <1>13 DEF FinalWrite
  <2>2. Paid /\ Unserved = {} /\ Unserved' = Unserved
    BY <1>2, <1>13 DEF FinalWrite, ServiceInv, ChoreRelies, Unserved
  <2>3. bill'.st = "completed" /\ bill'.due = bill.due /\ bill'.left = bill.left
    BY <1>13 DEF FinalWrite, OnlineTypes, BillType
  <2> QED BY <1>1, <1>2, <1>5, <2>1, <2>2, <2>3
          DEF KitchenKeeps, Kept, Paid, ServiceInv, ItemsLeft, DoneIsDone, ChoreRelies, TerminalOrder
<1> QED BY <1>7, <1>8, <1>9, <1>10, <1>11, <1>12, <1>13 DEF ChoreStep

LEMMA AdjustKeeps ==
  ASSUME OnlineTypes, SlipInv, ServiceInv, NEW a \in Adjusts,
         \/ AdjustStep(a)
         \/ \E k \in Slips, n \in 1..Portions : StartAdjust(a, k, n)
  PROVE  KitchenKeeps
<1>1. CASE AdjustRead(a) \/ \E k \in Slips, n \in 1..Portions : StartAdjust(a, k, n)
  <2>1. UNCHANGED <<bill, slip, desk, chore, setBack, guest>>
    BY <1>1, ReadTypesStep, StartTypesStep
  <2>2. Made' = Made /\ Unserved' = Unserved
    BY <2>1 DEF Made, Unserved
  <2>3. \A c \in Chores : ChoreRelies(c)'
    BY <2>1, <2>2 DEF ServiceInv, ChoreRelies, Paid
  <2> QED BY <2>1, <2>2, <2>3 DEF KitchenKeeps, Kept, Paid, Pending, ServiceInv, ItemsLeft, DoneIsDone
<1>2. CASE AdjustWrite(a)
  <2> DEFINE b == adjust[a]
  <2>1. /\ UNCHANGED <<desk, chore, guest>> /\ b.at = "write"
        /\ \/ UNCHANGED <<dish, slip, bill, setBack>>
           \/ /\ StillAsRead(b)
              /\ bill'.left = b.left - b.n
              /\ \/ b.left = b.n /\ bill'.st = "cancelled" /\ ~bill'.due /\ setBack' = setBack
                 \/ /\ b.left # b.n /\ bill'.st = b.st /\ bill'.due
                    /\ setBack' = (setBack \/ bill.st # b.st)
    BY <1>2, WriteTypesStep
  <2>2. Made' = Made /\ (~Pending => ~Pending')
    BY <1>2, SlipAdjustStep, PendingNoMore DEF AdjustStep
  <2>3. /\ b.k \in Made /\ b.n \in 1..Portions /\ b.left \in 0..Portions /\ b.n <= b.left
        /\ b.st \in OrderStatus \ TerminalOrder
    BY <2>1, TaskFields DEF SlipInv
  <2>4. CASE UNCHANGED <<dish, slip, bill, setBack>>
    <3>1. Unserved' = Unserved
      BY <2>2, <2>4 DEF Unserved
    <3>2. \A c \in Chores : ChoreRelies(c)'
      BY <2>1, <2>4, <3>1 DEF ServiceInv, ChoreRelies, Paid
    <3> QED BY <2>1, <2>2, <2>4, <3>1, <3>2
            DEF KitchenKeeps, Kept, Paid, ServiceInv, ItemsLeft, DoneIsDone
  <2>5. CASE ~UNCHANGED <<dish, slip, bill, setBack>>
    <3>1. StillAsRead(b)
      BY <2>1, <2>5
    <3>2. ~Paid /\ Unserved # {} /\ Made # {}
      BY <2>3, <3>1 DEF StillAsRead, Paid, Unserved
    <3>3. \A c \in Chores : ChoreRelies(c)'
      BY <2>1, <3>2 DEF ServiceInv, ChoreRelies
    <3>4. ItemsLeft'
      <4> HIDE DEF b
      <4> QED BY <2>1, <2>3, <2>5, DutiesKnown DEF ItemsLeft
    <3>5. bill'.st # "completed"
      BY <2>1, <2>3, <2>5 DEF TerminalOrder
    <3>6. \/ bill'.st = bill.st \/ bill'.st \in TerminalOrder \/ setBack'
      BY <2>1, <2>5 DEF TerminalOrder
    <3>7. setBack => setBack'
      BY <2>1
    <3> QED BY <2>1, <2>2, <3>2, <3>3, <3>4, <3>5, <3>6, <3>7 DEF KitchenKeeps, Kept, DoneIsDone
  <2> QED BY <2>4, <2>5
<1> QED BY <1>1, <1>2 DEF AdjustStep

LEMMA ServiceKitchenStep ==
  ASSUME SlipInv, ServiceInv, KitchenKeeps PROVE ServiceInv'
<1>1. ASSUME NEW d \in Desks PROVE Relies(d)'
  <2>1. Relies(d) /\ desk'[d] = desk[d]
    BY DEF ServiceInv, KitchenKeeps
  <2>2. desk[d].at \in {"acceptWrite", "acceptSlip", "reject", "rejectWrite"} => Made = {}
    BY <2>1 DEF Relies, SlipInv
  <2> QED BY <2>1, <2>2 DEF Relies, AtCounter, Pending, KitchenKeeps, Kept, HandingOver, Settling
<1>2. OrderFollowsSlip'
  BY DEF KitchenKeeps, ServiceInv, OrderFollowsSlip, Doing
<1> QED BY <1>1, <1>2 DEF ServiceInv, KitchenKeeps

(* Every step is one of a desk, of the kitchen, or touches neither.           *)
LEMMA ServiceStep ==
  ASSUME OneCounter, OnlineTypes, SlipInv, ServiceInv, [OnlineNext]_onlineVars
  PROVE  /\ ServiceInv'
         /\ \/ \E d \in Desks : DeskStep(d) \/ ServerGone(d)
            \/ KitchenKeeps
            \/ UNCHANGED <<bill, setBack>>
<1>1. CASE Follow \/ FirstRead \/ FirstHear \/ Poll \/ Hear \/ HearNothing \/ UNCHANGED onlineVars
  <2>1. UNCHANGED restaurantVars
    BY <1>1, GuestTypesStep DEF onlineVars, restaurantVars
  <2> QED BY <2>1 DEF restaurantVars, kitchenVars, ServiceInv, Relies, ChoreRelies, OrderFollowsSlip,
                      ItemsLeft, DoneIsDone, Paid, Made, Unserved, Pending, AtCounter, Doing
<1>2. CASE \E duty \in Duties : PressButton(duty[1], duty[2], duty[3])
  BY <1>2, ServicePressStep DEF PressButton, kitchenVars
<1>3. CASE \/ \E k \in Slips, to \in KotStatus, c, f \in Chores : TapSlip(k, to, c, f)
           \/ \E k \in Slips, c \in Chores : PressCancel(k, c)
           \/ \E c \in Chores : ChoreStep(c)
           \/ \E a \in Adjusts, k \in Slips, n \in 1..Portions : StartAdjust(a, k, n)
           \/ \E a \in Adjusts : AdjustStep(a)
  <2>1. KitchenKeeps
    BY <1>3, TapKeeps, CancelKeeps, ChoreKeeps, AdjustKeeps
  <2> QED BY <2>1, ServiceKitchenStep
<1>4. CASE \E d \in Desks : DeskStep(d) \/ ServerGone(d)
  BY <1>4, ServiceDeskStep
<1> QED BY <1>1, <1>2, <1>3, <1>4 DEF OnlineNext

LEMMA ServiceInvariant ==
  ASSUME OneCounter PROVE OnlineSpec => [](OnlineTypes /\ SlipInv /\ ServiceInv)
<1>1. OneAccepts
  BY DEF OneCounter, OneAccepts, CounterDuties
<1>2. OnlineTypes /\ SlipInv /\ ServiceInv /\ [OnlineNext]_onlineVars =>
        (OnlineTypes /\ SlipInv /\ ServiceInv)'
  BY <1>1, OnlineTypesStep, SlipStep, ServiceStep
<1> QED BY <1>2, OnlineTypesInit, SlipInit, ServiceInit, PTL DEF OnlineSpec

(* If one counter accepts, rejects and collects for accepted orders, no       *)
(* manager writes a status and no server stops between an acceptance and its  *)
(* ticket: whoever completes an order, from the handover, the payment, the    *)
(* last served ticket or a cancelled one, completes one that was accepted,    *)
(* still has items, all of them paid, and has no ticket the kitchen works on, *)
(* whatever the kitchen cancels or takes off it meanwhile.                    *)
THEOREM CompletedOnlineOrderIsDone == ASSUME OneCounter PROVE OnlineSpec => []CompletedIsFinished
<1>1. ServiceInv => CompletedIsFinished
  BY DEF ServiceInv, DoneIsDone, CompletedIsFinished, Paid
<1> QED BY <1>1, ServiceInvariant, PTL


(* Items are taken off by one request at a time.                              *)
OneCuts == \A a, b \in Adjusts : a = b

(* A ticket the kitchen works on has the items of the order, and a partial    *)
(* cancellation goes by what both still have.                                 *)
CutInv ==
  /\ Made = {} => bill.left = Portions
  /\ bill.st = "cancelled" => Unserved = {}
  /\ \A k \in Unserved : dish[k] = bill.left
  /\ \A a \in Adjusts :
       /\ adjust[a].at # "rest" /\ adjust[a].k \in Unserved => adjust[a].had = dish[adjust[a].k]

LEMMA CutStep ==
  ASSUME OneCounter, OneCuts, OnlineTypes, SlipInv, ServiceInv, CutInv, [OnlineNext]_onlineVars
  PROVE  CutInv'
<1>a. /\ ServiceInv'
      /\ \/ \E d \in Desks : DeskStep(d) \/ ServerGone(d)
         \/ KitchenKeeps
         \/ UNCHANGED <<bill, setBack>>
  BY ServiceStep
<1>b. \A k \in Unserved : Made = {k}
  BY DEF SlipInv, Unserved
<1>1. CASE UNCHANGED <<bill, slip, dish, adjust>>
  BY <1>1 DEF CutInv, Made, Unserved
<1>2. ASSUME UNCHANGED <<dish, adjust>>, bill'.left = bill.left, Unserved' \subseteq Unserved,
             Made' = Made, bill'.st = "cancelled" => bill.st = "cancelled" \/ Unserved = {}
      PROVE  CutInv'
  <2>1. Made' = {} => bill'.left = Portions
    BY <1>2 DEF CutInv
  <2>2. bill'.st = "cancelled" => Unserved' = {}
    BY <1>2 DEF CutInv
  <2>3. \A k \in Unserved' : dish'[k] = bill'.left
    BY <1>2 DEF CutInv
  <2>4. ASSUME NEW a \in Adjusts, adjust'[a].at # "rest", adjust'[a].k \in Unserved'
        PROVE  adjust'[a].had = dish'[adjust'[a].k]
    BY <1>2, <2>4 DEF CutInv
  <2> QED BY <2>1, <2>2, <2>3, <2>4 DEF CutInv
<1>3. ASSUME NEW d \in Desks, DeskStep(d) \/ ServerGone(d) PROVE CutInv'
  <2>1. /\ DeskMoves(d) /\ UNCHANGED adjust /\ BillGoes(d) /\ bill'.left = bill.left
        /\ Kept
    BY <1>3, DeskEffect, DeskKeeps
  <2>2. CASE AcceptSlip(d)
    <3>1. PICK k \in Slips : /\ slip[k] = "none" /\ slip' = [slip EXCEPT ![k] = "sentToKitchen"]
                             /\ dish' = [dish EXCEPT ![k] = Portions]
      BY <2>2, AcceptTyped
    <3>2. Made = {} /\ bill.st # "cancelled" /\ UNCHANGED <<bill, adjust>>
      BY <2>2 DEF AcceptSlip, Doing, SlipInv, ServiceInv, Relies
    <3>3. Made' = {k} /\ Unserved' = {k} /\ dish'[k] = Portions
      BY <3>1, <3>2 DEF Made, Unserved, OnlineTypes, TerminalKot
    <3>4. \A a \in Adjusts : adjust'[a].at = "rest"
      BY <3>2 DEF SlipInv
    <3> QED BY <3>2, <3>3, <3>4 DEF CutInv
  <2>3. CASE ~AcceptSlip(d)
    <3>1. UNCHANGED dish
      BY <1>3, <2>3 DEF DeskStep, ServerGone, AcceptRead, AcceptWrite, RejectRead, RejectWrite,
            ReadyWrite, FindSlips, MoveSlip, HandoverRead, HandoverKots, ServeSlips, CompleteRead,
            CompleteKots, CompleteWrite, Collect, SettledRead, SettledKots, kitchenVars
    <3>2. Made' = Made
      <4>1. CASE Made = {}
        <5>1. desk[d].todo = {}
          BY <4>1 DEF SlipInv
        <5>2. UNCHANGED slip
          BY <2>1, <2>3, <5>1 DEF DeskMoves, OnlineTypes
        <5> QED BY <5>2 DEF Made
      <4>2. CASE Made # {}
        BY <2>1, <4>2 DEF Kept
      <4> QED BY <4>1, <4>2
    <3>3. Unserved' \subseteq Unserved
      <4>1. CASE Unserved = {}
        BY <2>1, <3>2, <4>1 DEF Kept, Unserved
      <4>2. CASE Unserved # {}
        BY <1>b, <3>2, <4>2 DEF Unserved
      <4> QED BY <4>1, <4>2
    <3>4. bill'.st = "cancelled" => bill.st = "cancelled" \/ Unserved = {}
      <4>1. desk[d].at = "rejectWrite" => Made = {}
        BY DEF ServiceInv, Relies, SlipInv
      <4> QED BY <2>1, <4>1 DEF BillGoes, Unserved
    <3> QED BY <1>2, <2>1, <3>1, <3>2, <3>3, <3>4
  <2> QED BY <2>2, <2>3
<1>4. ASSUME KitchenKeeps, UNCHANGED <<dish, adjust>>, bill'.left = bill.left,
             bill'.st = "cancelled" => bill.st = "cancelled" \/ Unserved = {}
      PROVE  CutInv'
  <2>1. Unserved' \subseteq Unserved
    <3>1. CASE Unserved = {}
      BY <1>4, <3>1 DEF KitchenKeeps, Kept, Unserved
    <3>2. CASE Unserved # {}
      BY <1>4, <1>b, <3>2 DEF KitchenKeeps, Unserved
    <3> QED BY <3>1, <3>2
  <2> QED BY <1>2, <1>4, <2>1 DEF KitchenKeeps
<1>5. ASSUME NEW k \in Slips, NEW to \in KotStatus, NEW c \in Chores, NEW f \in Chores,
             TapSlip(k, to, c, f)
      PROVE  CutInv'
  BY <1>4, <1>5, TapKeeps, TapTypesStep
<1>6. ASSUME NEW c \in Chores, ChoreStep(c) PROVE CutInv'
  <2>1. UNCHANGED <<dish, adjust>> /\ KitchenKeeps
    BY <1>6, ChoreTypesStep, ChoreKeeps
  <2>2. bill'.left = bill.left /\ (bill'.st = "cancelled" => bill.st = "cancelled")
    <3>1. CASE FollowKots(c)
      BY <3>1 DEF FollowKots, OneCounter, KitchenMayWrite, OnlineTypes, BillType
    <3>2. CASE FinalWrite(c)
      BY <3>2 DEF FinalWrite, OnlineTypes, BillType
    <3>3. CASE DropSlip(c) \/ SyncOrder(c) \/ Aggregate(c) \/ Final(c) \/ FinalKots(c)
      BY <3>3 DEF DropSlip, SyncOrder, Aggregate, Final, FinalKots
    <3> QED BY <1>6, <3>1, <3>2, <3>3 DEF ChoreStep
  <2> QED BY <1>4, <2>1, <2>2
<1>7. ASSUME NEW a \in Adjusts, NEW k \in Slips, NEW n \in 1..Portions, StartAdjust(a, k, n)
      PROVE  CutInv'
  <2>1. /\ UNCHANGED <<bill, slip, dish>>
        /\ adjust'[a] = [at |-> "order", k |-> k, n |-> n, kot |-> slip[k], had |-> dish[k]]
        /\ \A b \in Adjusts \ {a} : adjust'[b] = adjust[b]
    BY <1>7, StartTypesStep
  <2>2. adjust'[a].k = k /\ adjust'[a].had = dish[k]
    BY <2>1
  <2>3. Made' = Made /\ Unserved' = Unserved
    BY <2>1 DEF Made, Unserved
  <2>4. ASSUME NEW b \in Adjusts, adjust'[b].at # "rest", adjust'[b].k \in Unserved'
        PROVE  adjust'[b].had = dish'[adjust'[b].k]
    BY <2>1, <2>2, <2>3, <2>4 DEF CutInv
  <2> QED BY <2>1, <2>3, <2>4 DEF CutInv
<1>8. ASSUME NEW a \in Adjusts, AdjustRead(a) PROVE CutInv'
  <2>1. /\ UNCHANGED <<bill, slip, dish>>
        /\ \A b \in Adjusts \ {a} : adjust'[b] = adjust[b]
        /\ \/ adjust'[a].at = "rest"
           \/ /\ adjust[a].at = "order" /\ adjust'[a].k = adjust[a].k /\ adjust'[a].had = adjust[a].had
    BY <1>8, ReadTypesStep DEF Idle
  <2>2. Made' = Made /\ Unserved' = Unserved
    BY <2>1 DEF Made, Unserved
  <2>3. ASSUME NEW b \in Adjusts, adjust'[b].at # "rest", adjust'[b].k \in Unserved'
        PROVE  adjust'[b].had = dish'[adjust'[b].k]
    BY <2>1, <2>2, <2>3 DEF CutInv
  <2> QED BY <2>1, <2>2, <2>3 DEF CutInv
<1>9. ASSUME NEW a \in Adjusts, AdjustWrite(a) PROVE CutInv'
  <2> DEFINE b == adjust[a]
  <2>1. /\ adjust'[a].at = "rest" /\ b.at = "write"
        /\ \/ UNCHANGED <<dish, slip, bill, setBack>>
           \/ /\ StillAsRead(b)
              /\ slip'[b.k] = IF b.had = b.n THEN "cancelled" ELSE b.kot
              /\ dish'[b.k] = b.had - b.n
              /\ bill'.left = b.left - b.n
              /\ \/ b.left = b.n /\ bill'.st = "cancelled"
                 \/ b.left # b.n /\ bill'.st = b.st
    BY <1>9, WriteTypesStep DEF Idle
  <2>2. Made' = Made /\ b.k \in Made /\ Made = {b.k}
    BY <1>9, <2>1, SlipAdjustStep DEF AdjustStep, SlipInv
  <2>3. \A e \in Adjusts : adjust'[e].at = "rest"
    BY <2>1 DEF OneCuts
  <2>4. CASE UNCHANGED <<dish, slip, bill, setBack>>
    <3>1. Unserved' = Unserved
      BY <2>2, <2>4 DEF Unserved
    <3> QED BY <2>2, <2>3, <2>4, <3>1 DEF CutInv
  <2>5. CASE ~UNCHANGED <<dish, slip, bill, setBack>>
    <3>1. b.k \in Unserved /\ bill.left = b.left
      BY <2>1, <2>2, <2>5 DEF StillAsRead, Unserved
    <3>2. b.had = b.left
      BY <2>1, <3>1 DEF CutInv
    <3>3. b.st # "cancelled" /\ b.n \in Nat /\ b.left \in Nat
      BY <2>1, TaskFields, DutiesKnown DEF TerminalOrder
    <3>4. CASE b.left = b.n
      <4>1. slip'[b.k] = "cancelled"
        BY <2>1, <2>5, <3>2, <3>4
      <4>2. Unserved' = {}
        BY <2>2, <4>1 DEF Unserved, TerminalKot
      <4> QED BY <2>2, <2>3, <4>2 DEF CutInv
    <3>5. CASE b.left # b.n
      <4>1. bill'.st # "cancelled" /\ dish'[b.k] = bill'.left
        BY <2>1, <2>5, <3>2, <3>3, <3>5
      <4>2. Unserved' \subseteq {b.k}
        BY <2>2 DEF Unserved
      <4> QED BY <2>2, <2>3, <4>1, <4>2 DEF CutInv
    <3> QED BY <3>4, <3>5
  <2> QED BY <2>4, <2>5
<1>10. ASSUME \/ \E duty \in Duties : PressButton(duty[1], duty[2], duty[3])
              \/ \E k \in Slips, c \in Chores : PressCancel(k, c)
              \/ Follow \/ FirstRead \/ FirstHear \/ Poll \/ Hear \/ HearNothing
              \/ UNCHANGED onlineVars
       PROVE  UNCHANGED <<bill, slip, dish, adjust>>
  BY <1>10, CancelTypesStep, GuestTypesStep DEF PressButton, restaurantVars, onlineVars, kitchenVars
<1> QED BY <1>1, <1>3, <1>5, <1>6, <1>7, <1>8, <1>9, <1>10 DEF OnlineNext, AdjustStep

(* Under the assumptions of CompletedOnlineOrderIsDone an accepted order has  *)
(* its ticket as soon as its desk is done; and if items are taken off by one  *)
(* request at a time, a cancelled order is not cooked.                        *)
THEOREM KitchenKnowsOrder ==
  ASSUME OneCounter
  PROVE  OnlineSpec => [](AcceptedHasSlip /\ (OneCuts => RejectedIsNotCooked))
<1>1. ServiceInv => AcceptedHasSlip
  BY DEF ServiceInv, OrderFollowsSlip, AcceptedHasSlip, InKitchen
<1>2. OnlineInit => (OneCuts => CutInv)
  BY DEF OnlineInit, CutInv, Made, Unserved, Idle
<1>3. OnlineTypes /\ SlipInv /\ ServiceInv /\ (OneCuts => CutInv) /\ [OnlineNext]_onlineVars =>
        (OneCuts => CutInv)'
  BY CutStep DEF OneCuts
<1>4. (OneCuts => CutInv) => (OneCuts => RejectedIsNotCooked)
  BY DEF CutInv, RejectedIsNotCooked
<1> QED BY <1>1, <1>2, <1>3, <1>4, ServiceInvariant, PTL DEF OnlineSpec

-----------------------------------------------------------------------------
(* The guest.                                                                 *)

(* The page has seen no more than the order has become, and of what it has    *)
(* asked twice the answers come one after the other.                          *)
GuestInv ==
  /\ guest.first # "none" => guest.heard = "none"
  /\ ~setBack =>
       /\ Step(guest.shown) <= Step(bill.st)
       /\ \A st \in OrderStatus \cap {guest.first, guest.heard} :
            Step(guest.shown) <= Step(st) /\ Step(st) <= Step(bill.st)

LEMMA GuestInit == OnlineInit => GuestInv
BY DEF OnlineInit, GuestInv, Step, OrderStatus

LEMMA OrderProgresses ==
  ASSUME OneCounter, OnlineTypes, SlipInv, ServiceInv, [OnlineNext]_onlineVars
  PROVE  /\ Step(bill.st) \in Nat /\ Step(bill'.st) \in Nat
         /\ setBack => setBack'
         /\ setBack' \/ Step(bill.st) <= Step(bill'.st)
<1>1. bill.st \in OrderStatus /\ bill'.st \in OrderStatus
  BY OnlineTypesStep DEF OnlineTypes, BillType
<1>2. ASSUME NEW d \in Desks, DeskStep(d) \/ ServerGone(d)
      PROVE  Step(bill.st) <= Step(bill'.st) /\ UNCHANGED setBack
  <2>1. BillGoes(d) /\ UNCHANGED setBack
    BY <1>2, DeskEffect, DeskKeeps
  <2>2. desk[d].at = "acceptWrite" => Pending
    BY DEF ServiceInv, Relies
  <2> QED BY <1>1, <2>1, <2>2 DEF BillGoes, Pending, Step, OrderStatus
<1>3. ASSUME KitchenKeeps
      PROVE  (setBack => setBack') /\ (setBack' \/ Step(bill.st) <= Step(bill'.st))
  BY <1>1, <1>3 DEF KitchenKeeps, RulesMove, Step, OrderStatus, TerminalOrder
<1>4. CASE UNCHANGED <<bill, setBack>>
  BY <1>1, <1>4 DEF Step, OrderStatus
<1>5. (setBack => setBack') /\ (setBack' \/ Step(bill.st) <= Step(bill'.st))
  BY <1>2, <1>3, <1>4, ServiceStep, <1>1 DEF Step
<1> QED BY <1>1, <1>5 DEF Step

LEMMA GuestStep ==
  ASSUME OneCounter, ~LateFirst, OnlineTypes, SlipInv, ServiceInv, GuestInv,
         [OnlineNext]_onlineVars
  PROVE  GuestInv' /\ (setBack \/ Step(guest'.shown) >= Step(guest.shown))
<1>1. /\ Step(bill.st) \in Nat /\ Step(bill'.st) \in Nat
      /\ setBack => setBack'
      /\ setBack' \/ Step(bill.st) <= Step(bill'.st)
  BY OrderProgresses
<1>2. \A st \in Stages : Step(st) \in Nat
  BY DEF Step
<1>3. /\ guest \in GuestType
      /\ bill.st \in OrderStatus /\ OrderStatus \subseteq Stages
      /\ "none" \notin OrderStatus /\ "asked" \notin OrderStatus
  BY DEF OnlineTypes, BillType, Stages, OrderStatus
<1>4. CASE UNCHANGED guest
  <2>1. guest.shown \in Stages /\ OrderStatus \subseteq Stages
    BY <1>3 DEF GuestType
  <2> QED BY <1>1, <1>2, <1>4, <2>1 DEF GuestInv
<1>5. CASE Follow
  BY <1>1, <1>2, <1>3, <1>5 DEF Follow, restaurantVars, kitchenVars, GuestInv, GuestType
<1>6. CASE FirstRead
  BY <1>1, <1>2, <1>3, <1>6 DEF FirstRead, restaurantVars, kitchenVars, GuestInv, GuestType
<1>7. CASE FirstHear
  <2>1. /\ guest'.first = "none" /\ guest'.heard = guest.heard
        /\ guest'.shown \in {guest.shown, guest.first} /\ UNCHANGED <<bill, setBack>>
        /\ guest.heard = "none" /\ guest.first \in OrderStatus
    BY <1>3, <1>7 DEF FirstHear, restaurantVars, kitchenVars, GuestInv, GuestType
  <2> QED BY <1>1, <1>2, <1>3, <2>1 DEF GuestInv, GuestType
<1>8. CASE Poll
  BY <1>1, <1>2, <1>3, <1>8 DEF Poll, restaurantVars, kitchenVars, GuestInv, GuestType
<1>9. CASE Hear
  <2>1. guest.heard \in OrderStatus
    BY <1>3, <1>9 DEF Hear, Stages, GuestType
  <2> QED BY <1>1, <1>2, <1>3, <1>9, <2>1 DEF Hear, restaurantVars, kitchenVars, GuestInv, GuestType
<1>10. CASE HearNothing
  BY <1>1, <1>2, <1>3, <1>10 DEF HearNothing, restaurantVars, kitchenVars, GuestInv, GuestType
<1>11. ASSUME \/ \E d \in Desks : DeskStep(d) \/ ServerGone(d)
              \/ \E duty \in Duties : PressButton(duty[1], duty[2], duty[3])
              \/ \E k \in Slips, to \in KotStatus, c, f \in Chores : TapSlip(k, to, c, f)
              \/ \E k \in Slips, c \in Chores : PressCancel(k, c)
              \/ \E c \in Chores : ChoreStep(c)
              \/ \E a \in Adjusts, k \in Slips, n \in 1..Portions : StartAdjust(a, k, n)
              \/ \E a \in Adjusts : AdjustStep(a)
              \/ UNCHANGED onlineVars
       PROVE  UNCHANGED guest
  BY <1>11, DeskEffect, ChoreTypesStep, TapTypesStep, CancelTypesStep, StartTypesStep, ReadTypesStep,
     WriteTypesStep
  DEF PressButton, AdjustStep, onlineVars
<1> QED BY <1>4, <1>5, <1>6, <1>7, <1>8, <1>9, <1>10, <1>11 DEF OnlineNext

(* Under the same assumptions, and if the first fetch of the page is answered *)
(* before it polls: as long as no partial cancellation has put back a status  *)
(* the order had left, what a guest sees of it never goes back, though desks  *)
(* and kitchen write the status from what they read before, orders are        *)
(* cancelled, and answers arrive late or never.                               *)
THEOREM GuestSeesOnlyProgress ==
  ASSUME OneCounter, ~LateFirst PROVE OnlineSpec => GuestSeesProgress
<1>1. OnlineTypes /\ SlipInv /\ ServiceInv /\ GuestInv /\ [OnlineNext]_onlineVars =>
        GuestInv' /\ [setBack \/ Step(guest'.shown) >= Step(guest.shown)]_onlineVars
  BY GuestStep
<1> QED BY <1>1, ServiceInvariant, GuestInit, PTL DEF OnlineSpec, GuestSeesProgress

=============================================================================
