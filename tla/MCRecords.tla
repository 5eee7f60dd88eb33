------------------------------ MODULE MCRecords ------------------------------
(* TableSessions and Bills on small instances, side by side: a behaviour      *)
(* belongs to one of them and leaves the other alone, so that one run visits  *)
(* the states of both.  Two tables and three sessions let a table be reused   *)
(* while the other is busy; two items, one with its tax inside the price and  *)
(* one without, make a discount fall on several lines; a payment may stay     *)
(* pending while the bill it is for grows or shrinks.                         *)
EXTENDS TableSessions, Bills, TLC

CONSTANT Scenes      \* the components that run

VARIABLE scene       \* the one this behaviour is about

Rates == [i \in {1, 2} |-> IF i = 1 THEN 18 ELSE 28]

SomeDiscounts ==
  {[kind |-> "none", value |-> 0], [kind |-> "percentage", value |-> 30],
   [kind |-> "fixed", value |-> 3]}

recordVars == <<tsVars, settleVars, billVars, scene>>

RecordsInit ==
  /\ TSInit /\ BillsInit /\ scene \in Scenes
  /\ scene = "tables" => menu = [i \in Items |-> CHOOSE p \in Prices : TRUE]

RecordsNext ==
  \/ scene = "tables" /\ TSNext /\ UNCHANGED <<settleVars, billVars, scene>>
  \/ scene = "bills" /\ BillsNext /\ UNCHANGED <<tsVars, scene>>

RecordsSpec == RecordsInit /\ [][RecordsNext]_recordVars

Symmetric == Permutations(Tables) \union Permutations(Sessions) \union Permutations(Payments)
=============================================================================
