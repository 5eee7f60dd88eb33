----------------------------- MODULE TableLock -----------------------------
(* What the rest of the system relies on from tables and sessions: a table is *)
(* a lock.  A party that was never seated before takes a free table; the      *)
(* table is free again only when that same party leaves; nobody is seated     *)
(* twice.                                                                     *)
CONSTANTS Tables, Parties, NoParty

VARIABLES
  holder,   \* holder[t]: the party seated at t, or NoParty
  spent     \* parties that are or were seated

lockVars == <<holder, spent>>

Init ==
  /\ holder = [t \in Tables |-> NoParty]
  /\ spent = {}

Seat(t, p) ==
  /\ holder[t] = NoParty
  /\ p \notin spent
  /\ holder' = [holder EXCEPT ![t] = p]
  /\ spent' = spent \union {p}

Leave(t) ==
  /\ holder[t] # NoParty
  /\ holder' = [holder EXCEPT ![t] = NoParty]
  /\ UNCHANGED spent

Next == \E t \in Tables : Leave(t) \/ \E p \in Parties : Seat(t, p)

Spec == Init /\ [][Next]_lockVars
=============================================================================
