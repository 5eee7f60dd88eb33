------------------------ MODULE TableSessionsProofs ------------------------
(* For any number of tables, sessions, keys and any party size: the lock on   *)
(* the table document and the session documents never disagree, and the       *)
(* session service implements TableLock.                                      *)
EXTENDS TableSessions, TLAPS

(* The lock of an open session's table names it, even after the table was     *)
(* deleted (its last contents are kept in the model).                         *)
OpenHoldsLock ==
  \A s \in Sessions : session[s].status = "open" =>
     /\ session[s].tableId \in Tables
     /\ table[session[s].tableId].doc # "none"
     /\ table[session[s].tableId].activeSessionId = s

(* The lock of an existing table names nothing, or a session open there.      *)
LockIsLive ==
  \A t \in Tables :
     /\ table[t].doc = "present" /\ table[t].activeSessionId # NoSession =>
          table[t].activeSessionId \in Seated(t)
     /\ (table[t].status = "occupied") <=> (table[t].activeSessionId # NoSession)
     /\ table[t].doc = "none" => table[t].activeSessionId = NoSession

(* A key that opened a session has a record, and opened only that one.        *)
OpenKeysRecorded ==
  /\ \A s \in Sessions : session[s].status = "none" => session[s].key = NoKey
  /\ \A s \in Sessions : session[s].key \in Keys => openKey[session[s].key].status # "none"
  /\ KeyOpensOnce

LockInv == OpenHoldsLock /\ LockIsLive

SessionsInv == TSTypeOK /\ LockInv /\ OpenKeysRecorded

-----------------------------------------------------------------------------
LEMMA InitSessionsInv == TSInit => SessionsInv
<1> SUFFICES ASSUME TSInit PROVE SessionsInv
  OBVIOUS
<1>1. TSTypeOK
  BY MaxGuestsIsPositive DEF TSInit, TSTypeOK, TableDoc, SessionDoc, KeyRecord, Guests
<1>2. LockInv
  BY DEF TSInit, LockInv, OpenHoldsLock, LockIsLive, Seated
<1>3. OpenKeysRecorded
  BY SentinelsAreFresh DEF TSInit, OpenKeysRecorded, KeyOpensOnce
<1> QED BY <1>1, <1>2, <1>3 DEF SessionsInv

(* Type correctness is preserved by every operation of the two services.      *)
LEMMA TypeStep == ASSUME TSTypeOK, OpenHoldsLock, [TSNext]_tsVars PROVE TSTypeOK'
<1>1. ASSUME NEW t \in Tables, NEW g \in Guests, NEW k \in Keys \union {NoKey},
             NEW s \in Sessions, OpenSession(t, g, k, s)
      PROVE  TSTypeOK'
  <2>1. table' \in [Tables -> TableDoc]
    BY <1>1 DEF OpenSession, TSTypeOK, TableDoc
  <2>2. session' \in [Sessions -> SessionDoc]
    BY <1>1 DEF OpenSession, TSTypeOK, SessionDoc
  <2>3. [status |-> "completed", sig |-> <<t, g>>, sess |-> s] \in KeyRecord
    BY DEF KeyRecord, Signature
  <2>4. openKey' \in [Keys -> KeyRecord] /\ rejected' \subseteq Keys
    BY <1>1, <2>3 DEF OpenSession, TSTypeOK
  <2> QED BY <2>1, <2>2, <2>4 DEF TSTypeOK
<1>2. ASSUME NEW t \in Tables, NEW g \in Guests, NEW k \in Keys, OpenRejected(t, g, k)
      PROVE  TSTypeOK'
  BY <1>2 DEF OpenRejected, TSTypeOK
<1>3. ASSUME NEW t \in Tables, NEW g \in Guests, NEW a \in BOOLEAN,
             CreateTable(t, g, a) \/ UpdateTable(t, g, a)
      PROVE  TSTypeOK'
  <2>1. table' \in [Tables -> TableDoc]
    BY <1>3 DEF CreateTable, UpdateTable, TSTypeOK, TableDoc
  <2> QED BY <1>3, <2>1 DEF CreateTable, UpdateTable, TSTypeOK
<1>4. ASSUME NEW k \in Keys, RecordOpenFailure(k)
      PROVE  TSTypeOK'
  <2>1. [openKey[k] EXCEPT !.status = "failed"] \in KeyRecord
    BY DEF TSTypeOK, KeyRecord
  <2>2. openKey' \in [Keys -> KeyRecord]
    BY <1>4, <2>1 DEF RecordOpenFailure, TSTypeOK
  <2> QED BY <1>4, <2>2 DEF RecordOpenFailure, TSTypeOK
<1>5. ASSUME NEW s \in Sessions, CloseSession(s)
      PROVE  TSTypeOK'
  <2>1. session[s].tableId \in Tables
    BY <1>5 DEF CloseSession, IsOpen, OpenHoldsLock
  <2>2. \A t \in Tables : Released(t, s) \in TableDoc
    <3> SUFFICES ASSUME NEW t \in Tables PROVE Released(t, s) \in TableDoc
      OBVIOUS
    <3>1. table[t] \in TableDoc
      BY DEF TSTypeOK
    <3>2. [table[t] EXCEPT !.activeSessionId = NoSession, !.status = "available"] \in TableDoc
      BY <3>1 DEF TableDoc
    <3> QED BY <3>1, <3>2 DEF Released
  <2>3. table' \in [Tables -> TableDoc]
    BY <1>5, <2>1, <2>2 DEF CloseSession, TSTypeOK
  <2>4. session' \in [Sessions -> SessionDoc]
    BY <1>5 DEF CloseSession, TSTypeOK, SessionDoc
  <2> QED BY <1>5, <2>3, <2>4 DEF CloseSession, TSTypeOK
<1>6. ASSUME NEW s \in Sessions, NEW g \in Guests, UpdateGuestCount(s, g)
      PROVE  TSTypeOK'
  <2>1. session' \in [Sessions -> SessionDoc]
    BY <1>6 DEF UpdateGuestCount, TSTypeOK, SessionDoc
  <2> QED BY <1>6, <2>1 DEF UpdateGuestCount, TSTypeOK
<1>7. ASSUME NEW t \in Tables, DeleteTable(t)
      PROVE  TSTypeOK'
  <2>1. table' \in [Tables -> TableDoc]
    BY <1>7 DEF DeleteTable, TSTypeOK, TableDoc
  <2> QED BY <1>7, <2>1 DEF DeleteTable, TSTypeOK
<1>8. CASE UNCHANGED tsVars
  BY <1>8 DEF tsVars, TSTypeOK
<1> QED BY <1>1, <1>2, <1>3, <1>4, <1>5, <1>6, <1>7, <1>8 DEF TSNext

(* The lock and the sessions keep agreeing.                                   *)
LEMMA LockStep == ASSUME TSTypeOK, LockInv, [TSNext]_tsVars PROVE LockInv'
<1> USE SentinelsAreFresh
    DEF TSTypeOK, TableDoc, SessionDoc, LockInv, OpenHoldsLock, LockIsLive, Seated
<1>1. ASSUME NEW t \in Tables, NEW g \in Guests, NEW k \in Keys \union {NoKey},
             NEW s \in Sessions, OpenSession(t, g, k, s)
      PROVE  LockInv'
  <2>1. /\ session' = [session EXCEPT ![s] = [status |-> "open", tableId |-> t,
                                              guestCount |-> g, key |-> k]]
        /\ table' = [table EXCEPT ![t].activeSessionId = s, ![t].status = "occupied"]
    BY <1>1 DEF OpenSession
  <2>2. table[t].doc = "present" /\ table[t].activeSessionId = NoSession
    BY <1>1 DEF OpenSession, CanSeat, LockFree
  <2>3. ASSUME NEW r \in Sessions, session[r].status = "open"
        PROVE  session[r].tableId # t
    BY <2>2, <2>3
  <2>4. OpenHoldsLock'
    BY <2>1, <2>2, <2>3
  <2>5. LockIsLive'
    <3>1. session[s].status = "none"
      BY <1>1 DEF OpenSession
    <3> QED BY <2>1, <2>2, <2>3, <3>1
  <2> QED BY <2>4, <2>5
<1>2. ASSUME NEW t \in Tables, NEW g \in Guests, NEW k \in Keys, OpenRejected(t, g, k)
      PROVE  LockInv'
  BY <1>2 DEF OpenRejected
<1>3. ASSUME NEW t \in Tables, NEW g \in Guests, NEW a \in BOOLEAN,
             CreateTable(t, g, a) \/ UpdateTable(t, g, a)
      PROVE  LockInv'
  <2>1. CASE CreateTable(t, g, a)
    BY <2>1 DEF CreateTable
  <2>2. CASE UpdateTable(t, g, a)
    BY <2>2 DEF UpdateTable
  <2> QED BY <1>3, <2>1, <2>2
<1>4. ASSUME NEW k \in Keys, RecordOpenFailure(k)
      PROVE  LockInv'
  BY <1>4 DEF RecordOpenFailure
<1>5. ASSUME NEW s \in Sessions, CloseSession(s)
      PROVE  LockInv'
  <2> DEFINE t == session[s].tableId
  <2>1. t \in Tables /\ table[t].activeSessionId = s /\ session[s].status = "open"
    BY <1>5 DEF CloseSession, IsOpen
  <2>2. /\ session' = [session EXCEPT ![s].status = "closed"]
        /\ table' = [table EXCEPT ![t] = Released(t, s)]
    BY <1>5 DEF CloseSession
  <2>3. OpenHoldsLock'
    BY <2>1, <2>2 DEF Released
  <2>4. LockIsLive'
    BY <2>1, <2>2 DEF Released
  <2> QED BY <2>3, <2>4
<1>6. ASSUME NEW s \in Sessions, NEW g \in Guests, UpdateGuestCount(s, g)
      PROVE  LockInv'
  BY <1>6 DEF UpdateGuestCount, IsOpen
<1>7. ASSUME NEW t \in Tables, DeleteTable(t)
      PROVE  LockInv'
  BY <1>7 DEF DeleteTable
<1>8. CASE UNCHANGED tsVars
  BY <1>8 DEF tsVars
<1> QED BY <1>1, <1>2, <1>3, <1>4, <1>5, <1>6, <1>7, <1>8 DEF TSNext

(* A recorded key is never executed again.                                    *)
LEMMA KeyStep == ASSUME TSTypeOK, OpenHoldsLock, OpenKeysRecorded, [TSNext]_tsVars
                 PROVE  OpenKeysRecorded'
<1> USE SentinelsAreFresh DEF TSTypeOK, SessionDoc, KeyRecord, OpenKeysRecorded, KeyOpensOnce
<1>1. ASSUME NEW t \in Tables, NEW g \in Guests, NEW k \in Keys \union {NoKey},
             NEW s \in Sessions, OpenSession(t, g, k, s)
      PROVE  OpenKeysRecorded'
  BY <1>1 DEF OpenSession, KeyIsNew
<1>2. ASSUME NEW t \in Tables, NEW g \in Guests, NEW k \in Keys, OpenRejected(t, g, k)
      PROVE  OpenKeysRecorded'
  BY <1>2 DEF OpenRejected
<1>3. ASSUME NEW t \in Tables, NEW g \in Guests, NEW a \in BOOLEAN,
             CreateTable(t, g, a) \/ UpdateTable(t, g, a)
      PROVE  OpenKeysRecorded'
  BY <1>3 DEF CreateTable, UpdateTable
<1>4. ASSUME NEW k \in Keys, RecordOpenFailure(k)
      PROVE  OpenKeysRecorded'
  BY <1>4 DEF RecordOpenFailure
<1>5. ASSUME NEW s \in Sessions, CloseSession(s)
      PROVE  OpenKeysRecorded'
  BY <1>5 DEF CloseSession, IsOpen
<1>6. ASSUME NEW s \in Sessions, NEW g \in Guests, UpdateGuestCount(s, g)
      PROVE  OpenKeysRecorded'
  BY <1>6 DEF UpdateGuestCount, IsOpen
<1>7. ASSUME NEW t \in Tables, DeleteTable(t)
      PROVE  OpenKeysRecorded'
  BY <1>7 DEF DeleteTable
<1>8. CASE UNCHANGED tsVars
  BY <1>8 DEF tsVars
<1> QED BY <1>1, <1>2, <1>3, <1>4, <1>5, <1>6, <1>7, <1>8 DEF TSNext

(* The strengthening every theorem below rests on.                            *)
THEOREM SessionInvariant == TSSpec => []SessionsInv
<1>1. TSInit => SessionsInv
  BY InitSessionsInv
<1>2. SessionsInv /\ [TSNext]_tsVars => SessionsInv'
  BY TypeStep, LockStep, KeyStep DEF SessionsInv, LockInv
<1> QED BY <1>1, <1>2, PTL DEF TSSpec

-----------------------------------------------------------------------------
(* A table never seats two open sessions: the lock in the table document,     *)
(* read and written in the transactions of openSession and closeSession, is   *)
(* enough for any number of devices.                                          *)
THEOREM OneOpenSession == TSSpec => []OneOpenSessionPerTable
<1>1. SessionsInv => OneOpenSessionPerTable
  BY DEF SessionsInv, LockInv, OpenHoldsLock, OneOpenSessionPerTable
<1> QED BY <1>1, SessionInvariant, PTL

(* The lock of an existing table names exactly the session open there, and    *)
(* the status the floor plan shows agrees with it.                            *)
THEOREM LockAgrees == TSSpec => []LockMatchesSession
<1>1. SessionsInv => LockMatchesSession
  BY SentinelsAreFresh DEF SessionsInv, TSTypeOK, TableDoc, LockInv, OpenHoldsLock, LockIsLive,
                           LockMatchesSession, Seated
<1> QED BY <1>1, SessionInvariant, PTL

(* However a keyed request is repeated, the key opens one session at most.    *)
THEOREM KeyOpensOneSession == TSSpec => []KeyOpensOnce
<1>1. SessionsInv => KeyOpensOnce
  BY DEF SessionsInv, OpenKeysRecorded
<1> QED BY <1>1, SessionInvariant, PTL

(* No operation writes a session that is closed.                              *)
THEOREM ClosedStaysClosed == TSSpec => ClosedIsFinal
<1>1. ASSUME SessionsInv, [TSNext]_tsVars, NEW s \in Sessions, session[s].status = "closed"
      PROVE  session'[s] = session[s]
  BY <1>1 DEF SessionsInv, TSTypeOK, TSNext, tsVars, OpenSession, OpenRejected, CreateTable,
              UpdateTable, RecordOpenFailure, CloseSession, UpdateGuestCount,
              DeleteTable, IsOpen
<1>2. SessionsInv /\ [TSNext]_tsVars =>
        [\A s \in Sessions : session[s].status = "closed" => session'[s] = session[s]]_tsVars
  BY <1>1
<1> QED BY <1>2, SessionInvariant, PTL DEF TSSpec, ClosedIsFinal
-----------------------------------------------------------------------------
(* The refinement: under the invariant the holder of a table is the session   *)
(* open there, and no other.                                                  *)
LEMMA HolderIsSeated ==
  ASSUME OpenHoldsLock, NEW t \in Tables
  PROVE  /\ Seated(t) = {} => Holder[t] = NoSession
         /\ \A s \in Seated(t) : Holder[t] = s
<1>1. \A r, s \in Seated(t) : r = s
  BY DEF OpenHoldsLock, Seated
<1> QED BY <1>1 DEF Holder

LEMMA HolderIsSeatedNext ==
  ASSUME OpenHoldsLock', NEW t \in Tables
  PROVE  /\ Seated(t)' = {} => Holder'[t] = NoSession
         /\ \A s \in Seated(t)' : Holder'[t] = s
<1>1. \A r, s \in Seated(t)' : r = s
  BY DEF OpenHoldsLock, Seated
<1> QED BY <1>1 DEF Holder

LEMMA SameSeatedSameHolder ==
  ASSUME OpenHoldsLock, OpenHoldsLock', NEW t \in Tables, Seated(t)' = Seated(t)
  PROVE  Holder'[t] = Holder[t]
<1>1. CASE Seated(t) = {}
  BY <1>1, HolderIsSeated, HolderIsSeatedNext
<1>2. CASE Seated(t) # {}
  <2>1. PICK s : s \in Seated(t)
    BY <1>2
  <2>2. Holder[t] = s
    BY <2>1, HolderIsSeated
  <2>3. Holder'[t] = s
    BY <2>1, HolderIsSeatedNext
  <2> QED BY <2>2, <2>3
<1> QED BY <1>1, <1>2

(* Opening a session seats it at a table that was free.                       *)
LEMMA OpenSeats ==
  ASSUME SessionsInv, SessionsInv',
         NEW t \in Tables, NEW g \in Guests, NEW k \in Keys \union {NoKey},
         NEW s \in Sessions, OpenSession(t, g, k, s)
  PROVE  Lock!Seat(t, s)
<1> USE DEF SessionsInv, LockInv
<1>1. session' = [session EXCEPT ![s] = [status |-> "open", tableId |-> t,
                                         guestCount |-> g, key |-> k]]
      /\ session[s].status = "none"
  BY DEF OpenSession
<1>2. session \in [Sessions -> SessionDoc]
  BY DEF TSTypeOK
<1>3. Seated(t) = {}
  BY SentinelsAreFresh DEF OpenSession, CanSeat, LockFree, Seated, OpenHoldsLock, LockIsLive
<1>4. Seated(t)' = {s}
  BY <1>1, <1>2, <1>3 DEF Seated
<1>5. \A u \in Tables \ {t} : Seated(u)' = Seated(u)
  BY <1>1, <1>2 DEF Seated
<1>6. Holder' = [Holder EXCEPT ![t] = s]
  <2>1. Holder'[t] = s
    BY <1>4, HolderIsSeatedNext
  <2>2. \A u \in Tables \ {t} : Holder'[u] = Holder[u]
    BY <1>5, SameSeatedSameHolder
  <2>3. Holder = [u \in Tables |-> Holder[u]] /\ Holder' = [u \in Tables |-> Holder'[u]]
    BY DEF Holder
  <2> QED BY <2>1, <2>2, <2>3
<1>7. Holder[t] = NoSession
  BY <1>3, HolderIsSeated
<1>8. Spent' = Spent \union {s} /\ s \notin Spent
  BY <1>1, <1>2 DEF Spent
<1> QED BY <1>6, <1>7, <1>8 DEF Lock!Seat

(* Closing a session frees the table it held.                                 *)
LEMMA CloseLeaves ==
  ASSUME SessionsInv, SessionsInv', NEW s \in Sessions, CloseSession(s),
         NEW t \in Tables, session[s].tableId = t
  PROVE  Lock!Leave(t)
<1> USE DEF SessionsInv, LockInv
<1>1. session' = [session EXCEPT ![s].status = "closed"] /\ session[s].status = "open"
  BY DEF CloseSession, IsOpen
<1>2. session \in [Sessions -> SessionDoc]
  BY DEF TSTypeOK
<1>4. s \in Seated(t) /\ Seated(t)' = {}
  BY <1>1, <1>2 DEF Seated, OpenHoldsLock
<1>5. \A u \in Tables \ {t} : Seated(u)' = Seated(u)
  BY <1>1, <1>2 DEF Seated
<1>6. Holder' = [Holder EXCEPT ![t] = NoSession]
  <2>1. Holder'[t] = NoSession
    BY <1>4, HolderIsSeatedNext
  <2>2. \A u \in Tables \ {t} : Holder'[u] = Holder[u]
    BY <1>5, SameSeatedSameHolder
  <2>3. Holder = [u \in Tables |-> Holder[u]] /\ Holder' = [u \in Tables |-> Holder'[u]]
    BY DEF Holder
  <2> QED BY <2>1, <2>2, <2>3
<1>7. Holder[t] # NoSession
  BY <1>4, HolderIsSeated, SentinelsAreFresh DEF Seated
<1>8. Spent' = Spent
  BY <1>1, <1>2 DEF Spent, SessionDoc
<1> QED BY <1>6, <1>7, <1>8 DEF Lock!Leave

(* The other operations leave who sits where as it is.                        *)
LEMMA OthersStutter ==
  ASSUME SessionsInv, SessionsInv', \A s \in Sessions : session'[s].status = session[s].status
                                  /\ session'[s].tableId = session[s].tableId
  PROVE  UNCHANGED <<Holder, Spent>>
<1>1. \A t \in Tables : Seated(t)' = Seated(t)
  BY DEF Seated
<1>2. Holder' = Holder
  <2>1. \A t \in Tables : Holder'[t] = Holder[t]
    BY <1>1, SameSeatedSameHolder DEF SessionsInv, LockInv
  <2>2. Holder = [t \in Tables |-> Holder[t]] /\ Holder' = [t \in Tables |-> Holder'[t]]
    BY DEF Holder
  <2> QED BY <2>1, <2>2
<1>3. Spent' = Spent
  BY DEF Spent
<1> QED BY <1>2, <1>3

(* For every number of tables, sessions and devices the session service is a  *)
(* lock per table: parties are seated only at free tables and leave once.     *)
THEOREM SessionsImplementLock == TSSpec => ImplementsLock
<1>1. TSInit => Lock!Init
  <2> SUFFICES ASSUME TSInit PROVE Lock!Init
    OBVIOUS
  <2>1. \A t \in Tables : Seated(t) = {}
    BY DEF TSInit, Seated
  <2> QED BY <2>1 DEF TSInit, Lock!Init, Holder, Spent
<1>2. ASSUME SessionsInv, SessionsInv', [TSNext]_tsVars PROVE [Lock!Next]_(Lock!lockVars)
  <2>1. ASSUME NEW t \in Tables, NEW g \in Guests, NEW k \in Keys \union {NoKey},
               NEW s \in Sessions, OpenSession(t, g, k, s)
        PROVE  Lock!Next
    BY <1>2, <2>1, OpenSeats DEF Lock!Next
  <2>2. ASSUME NEW s \in Sessions, CloseSession(s)
        PROVE  Lock!Next
    <3>1. session[s].tableId \in Tables
      BY <1>2, <2>2 DEF CloseSession, IsOpen, SessionsInv, LockInv, OpenHoldsLock
    <3> QED BY <1>2, <2>2, <3>1, CloseLeaves DEF Lock!Next
  <2>3. ASSUME NEW s \in Sessions, NEW g \in Guests, UpdateGuestCount(s, g)
        PROVE  UNCHANGED <<Holder, Spent>>
    <3>1. session' = [session EXCEPT ![s].guestCount = g] /\ session \in [Sessions -> SessionDoc]
      BY <1>2, <2>3 DEF UpdateGuestCount, SessionsInv, TSTypeOK
    <3>2. \A r \in Sessions : session'[r].status = session[r].status
                            /\ session'[r].tableId = session[r].tableId
      BY <3>1 DEF SessionDoc
    <3> QED BY <1>2, <3>2, OthersStutter
  <2>4. ASSUME UNCHANGED session
        PROVE  UNCHANGED <<Holder, Spent>>
    BY <1>2, <2>4, OthersStutter
  <2> QED BY <1>2, <2>1, <2>2, <2>3, <2>4
        DEF TSNext, tsVars, OpenRejected, RecordOpenFailure, CreateTable, UpdateTable,
            DeleteTable, Lock!lockVars
<1> QED BY <1>1, <1>2, SessionInvariant, PTL DEF TSSpec, ImplementsLock, Lock!Spec
=============================================================================
