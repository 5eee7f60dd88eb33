--------------------------- MODULE MCOnlineOrders ---------------------------
(* Instances of OnlineOrders, with one desk that accepts, rejects and         *)
(* collects, and one that hands over, unless said otherwise.  All at once is  *)
(* too much for one run: in each scene some of them stay away.                *)
EXTENDS OnlineOrders, TLC

CONSTANTS d1, d2, Scenes

VARIABLE scene       \* the one this behaviour is about

OneDeskEach ==
  {<<d1, "accept", "cashier">>, <<d1, "reject", "manager">>, <<d1, "collect", "cashier">>,
   <<d2, "ready", "captain">>, <<d2, "handover", "cashier">>}

(* Two cashiers look at one queue.                                            *)
TwoAccept == {<<d1, "accept", "cashier">>, <<d2, "accept", "cashier">>}

(* One accepts what the other rejects.                                        *)
TwoDecide == {<<d1, "accept", "cashier">>, <<d2, "reject", "manager">>}

(* A manager presses what the captain presses elsewhere.                      *)
ManagerHelps == OneDeskEach \union {<<d2, "ready", "manager">>}

(* The server stops wherever it works, but not between an acceptance and its  *)
(* ticket; or there, too.                                                     *)
CrashAfterwards ==
  {"accept", "acceptWrite", "handover", "handoverKots", "serve", "complete",
   "completeKots", "completeWrite"}

CrashAnywhere == CrashAfterwards \union {"acceptSlip"}

AfterAcceptance == OrderStatus \ {"draft", "confirmed"}

AtOnce == OrderStatus \ {"draft"}

-----------------------------------------------------------------------------
sceneVars == <<onlineVars, scene>>

NothingDropped == \A c \in Chores : chore'[c].at # "drop"

OneChore == Cardinality({c \in Chores : chore'[c] # Idle}) <= 1

NobodyAt(d) == desk'[d] = AtRest

(* served: a guest follows an order nothing of which is cancelled; watched:   *)
(* the same guest while items are taken off it, but whole tickets are not     *)
(* cancelled and nobody hands over; kitchen: no guest, and nobody hands over; *)
(* counter: no guest, and the kitchen does one thing at a time; all: nobody   *)
(* stays away.  A tap that serves a ticket starts two handlers, so with       *)
(* OneChore tickets are served by the handover only.                          *)
Stays(s) ==
  CASE s = "served"  -> NothingDropped /\ UNCHANGED adjust
    [] s = "watched" -> NothingDropped /\ OneChore /\ NobodyAt(d2)
    [] s = "kitchen" -> NobodyAt(d2) /\ UNCHANGED guest
    [] s = "counter" -> OneChore /\ UNCHANGED guest
    [] OTHER         -> TRUE

ScenesInit == OnlineInit /\ scene \in Scenes

ScenesNext == OnlineNext /\ Stays(scene) /\ UNCHANGED scene

ScenesSpec == ScenesInit /\ [][ScenesNext]_sceneVars

ScenesFairSpec == ScenesSpec /\ OnlineFairness

(* Nothing the guest sees ever goes back: what a partial cancellation breaks. *)
GuestNeverGoesBack ==
  [][Step(guest'.shown) >= Step(guest.shown)]_onlineVars
=============================================================================
