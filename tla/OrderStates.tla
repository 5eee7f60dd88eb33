---------------------------- MODULE OrderStates ----------------------------
(* The lifecycles the services and the security rules agree (or disagree) on: *)
(* orders, kitchen tickets (KOTs), table sessions and payments, and the       *)
(* aggregation of a bill's ticket states into the state of the bill.          *)
(* Only operators: the modules with state use them as guards.                 *)

OrderStatus == {"draft", "confirmed", "sentToKitchen", "preparing", "ready",
                "served", "completed", "cancelled"}

KotStatus == OrderStatus \ {"completed"}

PaymentStatus == {"pending", "completed", "failed", "refunded"}

TerminalOrder == {"completed", "cancelled"}

TerminalKot == {"served", "cancelled"}

(* ALLOWED_ORDER_TRANSITIONS: a stage may be skipped, never taken back. *)
NextOrderStatus ==
  [st \in OrderStatus |->
     CASE st = "draft"         -> {"confirmed", "cancelled"}
       [] st = "confirmed"     -> {"sentToKitchen", "preparing", "ready", "served",
                                   "completed", "cancelled"}
       [] st = "sentToKitchen" -> {"preparing", "ready", "served", "completed", "cancelled"}
       [] st = "preparing"     -> {"ready", "served", "completed", "cancelled"}
       [] st = "ready"         -> {"served", "completed", "cancelled"}
       [] st = "served"        -> {"completed", "cancelled"}
       [] OTHER                -> {}]

(* validateOrderStatusTransition *)
OrderMove(from, to) == from = to \/ to \in NextOrderStatus[from]

(* ALLOWED_KOT_TRANSITIONS: tickets move one stage at a time, a confirmed one *)
(* may start cooking directly, and any ticket not yet served may be cancelled.*)
NextKotStatus ==
  [st \in KotStatus |->
     CASE st = "draft"         -> {"confirmed", "cancelled"}
       [] st = "confirmed"     -> {"sentToKitchen", "preparing", "cancelled"}
       [] st = "sentToKitchen" -> {"preparing", "cancelled"}
       [] st = "preparing"     -> {"ready", "cancelled"}
       [] st = "ready"         -> {"served", "cancelled"}
       [] OTHER                -> {}]

(* validateKOTStatusTransition *)
KotMove(from, to) == from = to \/ to \in NextKotStatus[from]

(* ALLOWED_PAYMENT_TRANSITIONS *)
NextPaymentStatus ==
  [st \in PaymentStatus |->
     CASE st = "pending"   -> {"completed", "failed"}
       [] st = "completed" -> {"refunded"}
       [] OTHER            -> {}]

(* isAllowedOrderStatusTransition of firestore.rules: stricter than the       *)
(* services, one stage at a time, and a served order cannot be cancelled.     *)
RulesMove(from, to) ==
  \/ from = to
  \/ from = "draft"         /\ to \in {"confirmed", "cancelled"}
  \/ from = "confirmed"     /\ to \in {"sentToKitchen", "cancelled"}
  \/ from = "sentToKitchen" /\ to \in {"preparing", "cancelled"}
  \/ from = "preparing"     /\ to \in {"ready", "cancelled"}
  \/ from = "ready"         /\ to \in {"served", "cancelled"}
  \/ from = "served"        /\ to = "completed"

(* calculateAggregateOrderStatus: the bill's status implied by the set of the *)
(* statuses of its tickets (cancelled and draft ones are dropped first).      *)
AggregateStatus(current, kots) ==
  LET active  == kots \ {"cancelled", "draft"}
      waiting == active \cap {"confirmed", "sentToKitchen"}
  IN  IF current \in TerminalOrder THEN current
      ELSE IF active = {}
           THEN IF kots = {"cancelled"} THEN "cancelled" ELSE current
      ELSE IF active = {"served"} THEN "served"
      ELSE IF active \subseteq {"ready", "served"} THEN "ready"
      ELSE IF \/ "preparing" \in active
              \/ "ready" \in active /\ waiting # {}
           THEN "preparing"
      ELSE IF active = waiting THEN "sentToKitchen"
      ELSE current
=============================================================================
