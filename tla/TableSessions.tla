--------------------------- MODULE TableSessions ---------------------------
(* Tables and their sessions, as kept by tableService and                     *)
(* tableSessionService.  A session is one party's stay at a table.  The table *)
(* document carries a lock, activeSessionId, which the two Firestore          *)
(* transactions of the session service (open, close) keep in step with the    *)
(* status of the session documents.  Opening may carry a client request key:  *)
(* a record per key makes a repeated request return the first one's session.  *)
EXTENDS Naturals, FiniteSets

CONSTANTS
  Tables, Sessions,   \* document ids, each used for one document at most
  Keys,               \* clientRequestId values; a key belongs to one client
  MaxGuests,          \* bound on party sizes and capacities
  NoSession, NoKey, NoTable

ASSUME SentinelsAreFresh ==
  NoSession \notin Sessions /\ NoKey \notin Keys /\ NoTable \notin Tables

ASSUME MaxGuestsIsPositive == MaxGuests \in Nat \ {0}

VARIABLES
  table,      \* restaurants/R/tables: the table documents
  session,    \* restaurants/R/tableSessions: the session documents
  openKey,    \* restaurants/R/idempotency: records of operation open_session
  rejected    \* keys whose rejected attempt has yet to run recordFailure

tsVars == <<table, session, openKey, rejected>>

Guests == 1..MaxGuests

(* The requestSignature of an open: the hash of {tableId, guestCount}.        *)
Signature == Tables \X Guests

NoSignature == <<NoTable, 0>>

TableDoc == [doc : {"none", "present", "deleted"}, isActive : BOOLEAN,
             capacity : Guests, status : {"available", "occupied"},
             activeSessionId : Sessions \union {NoSession}]

(* "none" is the id of a document not created yet; key is a history field:    *)
(* the request key the session was opened with.                               *)
SessionDoc == [status : {"none", "open", "closed"}, tableId : Tables \union {NoTable},
               guestCount : Guests, key : Keys \union {NoKey}]

KeyRecord == [status : {"none", "completed", "failed"},
              sig : Signature \union {NoSignature}, sess : Sessions \union {NoSession}]

TSTypeOK ==
  /\ table \in [Tables -> TableDoc]
  /\ session \in [Sessions -> SessionDoc]
  /\ openKey \in [Keys -> KeyRecord]
  /\ rejected \subseteq Keys

TSInit ==
  /\ table = [t \in Tables |-> [doc |-> "none", isActive |-> FALSE, capacity |-> 1,
                                status |-> "available", activeSessionId |-> NoSession]]
  /\ session = [s \in Sessions |-> [status |-> "none", tableId |-> NoTable,
                                    guestCount |-> 1, key |-> NoKey]]
  /\ openKey = [k \in Keys |-> [status |-> "none", sig |-> NoSignature, sess |-> NoSession]]
  /\ rejected = {}

-----------------------------------------------------------------------------
(* The guards of the openSession transaction, in the order of the code.       *)

Divergent(k, t, g) == openKey[k].status # "none" /\ openKey[k].sig # <<t, g>>

(* A key without a record executes; return_cached and the thrown replies of   *)
(* checkOrAcquire do not open anything.                                       *)
KeyIsNewOrFailed(k) == k # NoKey => openKey[k].status # "completed"   \* a bug: failed is retried

KeyIsNew(k) == k # NoKey => openKey[k].status = "none"

LockUnchecked(t) == TRUE                        \* a bug: the lock is not read

(* The lock is free, or it names a session that has been closed since.  A     *)
(* lock naming a missing session document counts as held.                     *)
LockFree(t) ==
  \/ table[t].activeSessionId = NoSession
  \/ /\ table[t].activeSessionId \in Sessions
     /\ session[table[t].activeSessionId].status = "closed"

CanSeat(t, g) ==
  /\ table[t].doc = "present"
  /\ table[t].isActive
  /\ g <= table[t].capacity
  /\ LockFree(t)

(* openSession without a key, or with one that has no record yet: the session *)
(* document, the table's lock and the key's record are one transaction.       *)
OpenSession(t, g, k, s) ==
  /\ KeyIsNew(k)
  /\ CanSeat(t, g)
  /\ session[s].status = "none"
  /\ session' = [session EXCEPT ![s] = [status |-> "open", tableId |-> t,
                                        guestCount |-> g, key |-> k]]
  /\ table' = [table EXCEPT ![t].activeSessionId = s, ![t].status = "occupied"]
  /\ openKey' = IF k = NoKey THEN openKey
                ELSE [openKey EXCEPT ![k] = [status |-> "completed",
                                             sig |-> <<t, g>>, sess |-> s]]
  /\ UNCHANGED rejected

(* A keyed attempt whose transaction throws: the key was used with another    *)
(* payload, its record is marked failed, or the table cannot be taken.  The   *)
(* catch block then writes a failure record in a call of its own.             *)
OpenRejected(t, g, k) ==
  /\ k \in Keys
  /\ \/ Divergent(k, t, g)
     \/ openKey[k].status = "failed"
     \/ openKey[k].status = "none" /\ ~CanSeat(t, g)
  /\ rejected' = rejected \union {k}
  /\ UNCHANGED <<table, session, openKey>>

(* recordFailure: a merge write.  The rules let a client update the status of *)
(* its own record but deny creating one without the other fields, and the     *)
(* denial is swallowed.                                                       *)
RecordOpenFailure(k) ==
  /\ k \in rejected
  /\ rejected' = rejected \ {k}
  /\ openKey' = IF openKey[k].status = "none" THEN openKey
                ELSE [openKey EXCEPT ![k].status = "failed"]
  /\ UNCHANGED <<table, session>>

Exists(s) == session[s].status # "none"         \* a bug: closed sessions pass

IsOpen(s) == session[s].status = "open"

(* The table document after session s closed: the lock is cleared only if the *)
(* table still exists and the lock still names this session.                  *)
Released(t, s) ==
  IF table[t].doc = "present" /\ table[t].activeSessionId = s
  THEN [table[t] EXCEPT !.activeSessionId = NoSession, !.status = "available"]
  ELSE table[t]

(* The transaction of closeSession, which refuses a session already closed.   *)
CloseSession(s) ==
  /\ IsOpen(s)
  /\ session' = [session EXCEPT ![s].status = "closed"]
  /\ table' = [table EXCEPT ![session[s].tableId] = Released(session[s].tableId, s)]
  /\ UNCHANGED <<openKey, rejected>>

(* updateGuestCount: only open sessions, within the capacity of the table if  *)
(* the table still exists; the count it already has is accepted and unwritten.*)
UpdateGuestCount(s, g) ==
  /\ IsOpen(s)
  /\ session[s].guestCount # g
  /\ table[session[s].tableId].doc = "present" => g <= table[session[s].tableId].capacity
  /\ session' = [session EXCEPT ![s].guestCount = g]
  /\ UNCHANGED <<table, openKey, rejected>>

(* createTable writes neither activeSessionId nor status: a free table.       *)
CreateTable(t, c, a) ==
  /\ table[t].doc = "none"
  /\ table' = [table EXCEPT ![t].doc = "present", ![t].capacity = c, ![t].isActive = a]
  /\ UNCHANGED <<session, openKey, rejected>>

(* updateTable: no look at the session seated there.                          *)
UpdateTable(t, c, a) ==
  /\ table[t].doc = "present"
  /\ table' = [table EXCEPT ![t].capacity = c, ![t].isActive = a]
  /\ UNCHANGED <<session, openKey, rejected>>

(* deleteTable: the document and its lock are gone, the id is not reused.     *)
DeleteTable(t) ==
  /\ table[t].doc = "present"
  /\ table' = [table EXCEPT ![t].doc = "deleted"]
  /\ UNCHANGED <<session, openKey, rejected>>

TSNext ==
  \/ \E t \in Tables, g \in Guests, k \in Keys \union {NoKey}, s \in Sessions :
        OpenSession(t, g, k, s)
  \/ \E t \in Tables, g \in Guests, k \in Keys : OpenRejected(t, g, k)
  \/ \E k \in Keys : RecordOpenFailure(k)
  \/ \E s \in Sessions : CloseSession(s)
  \/ \E s \in Sessions, g \in Guests : UpdateGuestCount(s, g)
  \/ \E t \in Tables, c \in Guests, a \in BOOLEAN : CreateTable(t, c, a) \/ UpdateTable(t, c, a)
  \/ \E t \in Tables : DeleteTable(t)

TSSpec == TSInit /\ [][TSNext]_tsVars

-----------------------------------------------------------------------------
(* Seated(t): the sessions open at table t.                                   *)
Seated(t) == {s \in Sessions : session[s].status = "open" /\ session[s].tableId = t}

(* A table seats one party: two devices opening it, a retry and a reopening   *)
(* after a close never leave two open sessions at one table ("Atomically      *)
(* enforces ... no existing open session", tableSessionService).              *)
OneOpenSessionPerTable ==
  \A r, s \in Sessions :
     session[r].status = "open" /\ session[s].status = "open"
        /\ session[r].tableId = session[s].tableId => r = s

(* The lock is neither leaked nor lost: while a table exists its lock names   *)
(* the open session there, is free when there is none, and the status shown   *)
(* on the floor plan says the same.                                           *)
LockMatchesSession ==
  \A t \in Tables : table[t].doc = "present" =>
     /\ \A s \in Sessions : (s \in Seated(t)) <=> (table[t].activeSessionId = s)
     /\ (table[t].status = "occupied") <=> (table[t].activeSessionId # NoSession)

(* A request key opens at most one session, however often the request is      *)
(* repeated, answered late or repeated with another payload.                  *)
KeyOpensOnce ==
  \A r, s \in Sessions :
     session[r].key \in Keys /\ session[r].key = session[s].key => r = s

(* A closed session is never written again: "Closed sessions cannot be        *)
(* reopened; a new session must be created" (transactionValidation).          *)
ClosedIsFinal ==
  [][\A s \in Sessions : session[s].status = "closed" => session'[s] = session[s]]_tsVars

-----------------------------------------------------------------------------
(* What the sessions promise, in the terms of TableLock: each table is a lock *)
(* held by the session open at it.                                            *)
Holder == [t \in Tables |->
             IF Seated(t) = {} THEN NoSession ELSE CHOOSE s \in Seated(t) : TRUE]

Spent == {s \in Sessions : session[s].status # "none"}

Lock == INSTANCE TableLock WITH Parties <- Sessions, NoParty <- NoSession,
                                holder <- Holder, spent <- Spent

(* Every step of the session service is a step of the lock or leaves it as it *)
(* is: a party is seated only at a free table, by a session never used        *)
(* before, and only its own close frees the table.                            *)
ImplementsLock == Lock!Spec
=============================================================================
