------------------------ MODULE ReadingProgress_proofs ------------------------
(***************************************************************************)
(* What holds of ReadingProgress for every number of requests, versions    *)
(* and failures.                                                           *)
(***************************************************************************)
EXTENDS ReadingProgress, TLAPS

USE ProgressAssumption

-----------------------------------------------------------------------------
\* A stored position has a version, and one only.
LEMMA StoredVersion ==
  ASSUME NEW p \in Stored
  PROVE  /\ p.version \in Int /\ p.version >= 0
         /\ p.version \in 0..MaxVersion
         /\ p.place \in Requests \cup {Before, Nowhere}
         /\ p # NoPosition <=> p.version > 0
         /\ p = NoPosition <=> p.place = Nowhere
         /\ p = [place |-> p.place, version |-> p.version]
  BY DEF Stored, Position, NoPosition, Versions

\* A pass that has read nothing is well formed at every step without a read.
LEMMA AtTyped ==
  ASSUME NEW st \in {"rest", "next", "drop", "place", "unmark"}
  PROVE  /\ At(st) \in [step : {"rest", "next", "drop", "place", "version",
                               "write", "unmark"},
                       read : [place : Requests \cup {Before, Nowhere},
                               version : 0..MaxVersion]]
         /\ At(st).step = st
  BY DEF At, NoPosition

LEMMA TypeInit == Init => TypeOK /\ WellFormed
<1> SUFFICES ASSUME Init PROVE TypeOK /\ WellFormed
  OBVIOUS
<1>1. hash \in Stored /\ mongo \in Stored /\ ttl \in BOOLEAN /\ dirty \in BOOLEAN
  BY DEF Init, Stored, Position, Versions
<1> QED
  BY <1>1 DEF Init, TypeOK, WellFormed, Stored, NoPosition, At

LEMMA TypeStep == TypeOK /\ WellFormed /\ [Next]_vars => TypeOK' /\ WellFormed'
<1> SUFFICES ASSUME TypeOK, WellFormed, [Next]_vars PROVE TypeOK' /\ WellFormed'
  OBVIOUS
<1> USE DEF TypeOK, WellFormed, storeVars, reqVars, GoTo, Moves, End, Ended
<1>1. ASSUME NEW r \in Requests, NEW v \in Versions, BeginSave(r, v)
      PROVE  TypeOK' /\ WellFormed'
  BY <1>1 DEF BeginSave, Begin, Versions
<1>2. ASSUME NEW r \in Requests, BeginGet(r) \/ BeginDelete(r)
      PROVE  TypeOK' /\ WellFormed'
  BY <1>2 DEF BeginGet, BeginDelete, Begin
<1>3. ASSUME NEW r \in Requests, CheckRedis(r) PROVE TypeOK' /\ WellFormed'
  BY <1>3 DEF CheckRedis, Stored
<1>4. ASSUME NEW r \in Requests, CheckMongo(r) PROVE TypeOK' /\ WellFormed'
  BY <1>4 DEF CheckMongo
<1>5. ASSUME NEW r \in Requests, WriteHash(r) PROVE TypeOK' /\ WellFormed'
  BY <1>5 DEF WriteHash, PutHash, Overtakes, Stored, Position
<1>6. ASSUME NEW r \in Requests, SetExpiry(r) PROVE TypeOK' /\ WellFormed'
  BY <1>6 DEF SetExpiry
<1>7. ASSUME NEW r \in Requests, MarkDirty(r) PROVE TypeOK' /\ WellFormed'
  BY <1>7 DEF MarkDirty, Stored
<1>8. ASSUME NEW r \in Requests, Lookup(r) PROVE TypeOK' /\ WellFormed'
  BY <1>8 DEF Lookup, Stored
<1>9. ASSUME NEW r \in Requests, CacheBack(r) PROVE TypeOK' /\ WellFormed'
  BY <1>9 DEF CacheBack, PutHash, Overtakes
<1>10. ASSUME NEW r \in Requests, CacheExpiry(r) PROVE TypeOK' /\ WellFormed'
  BY <1>10 DEF CacheExpiry, Stored
<1>11. ASSUME NEW r \in Requests, DeleteDocument(r) \/ DeleteHash(r)
       PROVE  TypeOK' /\ WellFormed'
  BY <1>11 DEF DeleteDocument, DeleteHash, Stored
<1>12. ASSUME NEW r \in Requests, DeleteMark(r) PROVE TypeOK' /\ WellFormed'
  <2>1. dirty' \in BOOLEAN
    BY <1>12 DEF DeleteMark
  <2> QED
    BY <1>12, <2>1 DEF DeleteMark, Stored
<1>13. ASSUME NEW r \in Requests, RequestFails(r) PROVE TypeOK' /\ WellFormed'
  BY <1>13 DEF RequestFails, Stored
<1>14. CASE HashExpires
  BY <1>14 DEF HashExpires, Stored
<1>15. CASE DropMark \/ Unmark
  <2>1. dirty' \in BOOLEAN
    BY <1>15 DEF DropMark, Unmark
  <2> QED
    BY <1>15, <2>1, AtTyped DEF DropMark, Unmark
<1>21. CASE StartPass \/ TakeKey
  BY <1>21, AtTyped DEF StartPass, TakeKey
<1>16. CASE ReadPlace
  BY <1>16, StoredVersion DEF ReadPlace, At, NoPosition
<1>17. CASE ReadVersion
  BY <1>17, StoredVersion DEF ReadVersion, Position, Versions
<1>18. CASE WriteDocument
  BY <1>18 DEF WriteDocument, At, NoPosition, Stored
<1>19. CASE PassFails
  BY <1>19 DEF PassFails, At, NoPosition
<1>20. CASE UNCHANGED vars
  BY <1>20 DEF vars
<1> QED
  BY <1>1, <1>2, <1>3, <1>4, <1>5, <1>6, <1>7, <1>8, <1>9, <1>10, <1>11,
     <1>12, <1>13, <1>14, <1>15, <1>16, <1>17, <1>18, <1>19, <1>20, <1>21
  DEF Next, Proceed, Sync

\* Every state satisfies the type invariant: each store holds a whole
\* position or none, each request is at a line of its handler.
THEOREM ProgressTypes == Spec => []TypeOK
<1>1. TypeOK /\ WellFormed => TypeOK
  OBVIOUS
<1> QED
  BY <1>1, TypeInit, TypeStep, PTL DEF Spec

-----------------------------------------------------------------------------
\* When requests come one at a time, a request that takes a step leaves no
\* other one that is being served.
LEMMA Alone ==
  ASSUME TypeOK, OneAtATime, NEW r \in Requests, NEW q,
         Served(r) \/ ~InFlight, stage' = [stage EXCEPT ![r] = q]
  PROVE  /\ OneAtATime' /\ stage'[r] = q
         /\ \A s \in Requests : s # r => /\ stage[s] \in {"idle"} \cup Ended
                                         /\ stage'[s] = stage[s]
  BY DEF TypeOK, OneAtATime, Served, InFlight

LEMMA InvInit == Init => ProgressInv
<1> SUFFICES ASSUME Init PROVE ProgressInv
  OBVIOUS
<1>1. WellFormed
  BY TypeInit
<1>2. OneAtATime /\ Checked
  BY DEF Init, OneAtATime, Served, Checked
<1>3. VersionsInOrder
  BY DEF Init, VersionsInOrder, At, NoPosition, Versions
<1>4. NothingLost
  BY DEF Init, NothingLost, At
<1> QED
  BY <1>1, <1>2, <1>3, <1>4 DEF ProgressInv

\* A save's comparison survives its awaits, and a GET's, whatever the worker
\* does and whenever the hash expires.
LEMMA CheckedStep ==
  ASSUME OneDevice, TypeOK, OneAtATime, Checked, [Next]_vars
  PROVE  OneAtATime' /\ Checked'
<1> DEFINE G == OneAtATime' /\ Checked'
<1>1. /\ NoPosition.version = 0
      /\ hash.version \in Int /\ mongo.version \in Int
      /\ \A s \in Requests : /\ version[s] \in Int /\ version[s] >= 0
                             /\ found[s].version \in Int /\ found[s].version >= 0
  BY StoredVersion DEF TypeOK, NoPosition
<1>2. ASSUME NEW r \in Requests, NEW q, Served(r) \/ ~InFlight,
             stage' = [stage EXCEPT ![r] = q],
             q \in {"mongo", "write"} => hash'.version <= version'[r],
             q = "back" => hash'.version <= found'[r].version,
             q \in {"lookup", "deleteMark"} => hash' = NoPosition
      PROVE  G
  <2>1. /\ OneAtATime' /\ stage'[r] = q
        /\ \A s \in Requests : s # r => stage'[s] \in {"idle"} \cup Ended
    BY <1>2, Alone
  <2> QED
    BY <1>2, <2>1 DEF Checked, Ended
<1> USE DEF GoTo, Moves, End, storeVars
<1>3. ASSUME NEW r \in Requests, NEW v \in Versions, BeginSave(r, v) PROVE G
  BY <1>2, <1>3 DEF BeginSave, Begin
<1>4. ASSUME NEW r \in Requests, BeginGet(r) \/ BeginDelete(r) PROVE G
  BY <1>2, <1>4 DEF BeginGet, BeginDelete, Begin
<1>5. ASSUME NEW r \in Requests, CheckRedis(r) PROVE G
  <2>1. Served(r)
    BY <1>5 DEF CheckRedis, Served, Ended
  <2> QED
    BY <1>2, <1>5, <2>1 DEF CheckRedis
<1>6. ASSUME NEW r \in Requests, CheckMongo(r) PROVE G
  <2>1. Served(r) /\ hash.version <= version[r]
    BY <1>6 DEF CheckMongo, Served, Ended, Checked
  <2>2. CASE version[r] < mongo.version
    <3>1. stage' = [stage EXCEPT ![r] = "back"] /\ found'[r] = mongo /\ hash' = hash
      BY <1>1, <1>6, <2>2 DEF CheckMongo, TypeOK
    <3>2. hash'.version <= found'[r].version
      BY <1>1, <2>1, <2>2, <3>1
    <3> QED
      BY <1>2, <2>1, <3>1, <3>2
  <2>3. CASE version[r] >= mongo.version
    <3>1. /\ stage' = [stage EXCEPT ![r] = "write"]
          /\ version' = version /\ hash' = hash
      BY <1>1, <1>6, <2>3 DEF CheckMongo
    <3> QED
      BY <1>2, <2>1, <3>1
  <2> QED
    BY <1>6, <2>2, <2>3 DEF CheckMongo
<1>7. ASSUME NEW r \in Requests,
             \/ WriteHash(r) \/ SetExpiry(r) \/ MarkDirty(r) \/ CacheBack(r)
             \/ CacheExpiry(r) \/ DeleteDocument(r) \/ DeleteHash(r) \/ DeleteMark(r)
      PROVE  G
  <2>1. Served(r)
    BY <1>7 DEF WriteHash, SetExpiry, MarkDirty, CacheBack, CacheExpiry,
       DeleteDocument, DeleteHash, DeleteMark, Served, Ended
  <2> QED
    BY <1>2, <1>7, <2>1 DEF WriteHash, SetExpiry, MarkDirty, CacheBack,
       CacheExpiry, DeleteDocument, DeleteHash, DeleteMark
<1>8. ASSUME NEW r \in Requests, Lookup(r) PROVE G
  <2>1. Served(r) /\ hash = NoPosition /\ hash' = hash
    BY <1>8 DEF Lookup, Served, Ended, Checked
  <2>2. found' = [found EXCEPT ![r] = mongo] => found'[r] = mongo
    BY DEF TypeOK
  <2>3. mongo.version >= 0
    BY StoredVersion DEF TypeOK
  <2> QED
    BY <1>1, <1>2, <1>8, <2>1, <2>2, <2>3 DEF Lookup
<1>9. ASSUME NEW r \in Requests, RequestFails(r) PROVE G
  BY <1>2, <1>9 DEF RequestFails
<1>10. CASE HashExpires \/ Sync \/ PassFails \/ UNCHANGED vars
  <2>1. UNCHANGED <<stage, version, found>> /\ hash' \in {hash, NoPosition}
    BY <1>10 DEF HashExpires, Sync, PassFails, StartPass, TakeKey, DropMark,
       ReadPlace, ReadVersion, WriteDocument, Unmark, vars, reqVars
  <2> QED
    BY <1>1, <2>1 DEF OneAtATime, Served, Checked
<1> QED
  BY <1>3, <1>4, <1>5, <1>6, <1>7, <1>8, <1>9, <1>10 DEF Next, Proceed

LEMMA InvStep ==
  ASSUME OneDevice, SyncWithinTtl, TypeOK, ProgressInv, [Next]_vars
  PROVE  ProgressInv'
<1>1. WellFormed /\ OneAtATime /\ Checked /\ VersionsInOrder /\ NothingLost
  BY DEF ProgressInv
<1>2. TypeOK' /\ WellFormed'
  BY <1>1, TypeStep
<1>3. /\ hash.version \in Int /\ hash.version >= 0
      /\ mongo.version \in Int /\ mongo.version >= 0
      /\ hash # NoPosition <=> hash.version > 0
      /\ mongo # NoPosition <=> mongo.version > 0
      /\ NoPosition.version = 0
      /\ hash = [place |-> hash.place, version |-> hash.version]
      /\ \A s \in Requests :
           /\ version[s] \in Int /\ version[s] >= 0
           /\ found[s].version \in Int /\ found[s].version >= 0
           /\ found[s] # NoPosition <=> found[s].version > 0
  BY StoredVersion DEF TypeOK, NoPosition
<1> DEFINE G == VersionsInOrder' /\ NothingLost'
<1> SUFFICES G
  BY <1>1, <1>2, CheckedStep DEF ProgressInv
<1> USE DEF storeVars, reqVars, GoTo, Moves, End
<1>4. ASSUME NEW r \in Requests, NEW v \in Versions, BeginSave(r, v) PROVE G
  <2>1. ~InFlight /\ stage' = [stage EXCEPT ![r] = "redis"]
    BY <1>4 DEF BeginSave, Begin
  <2>2. UNCHANGED <<found, storeVars, worker, disturbed>>
    BY <1>4 DEF BeginSave, Begin
  <2>3. /\ OneAtATime' /\ stage'[r] = "redis"
        /\ \A s \in Requests : s # r => /\ stage[s] \in {"idle"} \cup Ended
                                        /\ stage'[s] = stage[s]
    BY <1>1, <2>1, Alone
  <2>4. stage[r] = "idle"
    BY <1>4 DEF BeginSave, Begin
  <2>6. VersionsInOrder'
    BY <1>1, <2>2, <2>3 DEF VersionsInOrder, Ended
  <2>7. NothingLost'
    BY <1>1, <2>2, <2>3, <2>4 DEF NothingLost, Ended
  <2> QED
    BY <2>3, <2>6, <2>7
<1>5. ASSUME NEW r \in Requests, BeginGet(r) PROVE G
  <2>1. stage[r] = "idle" /\ ~InFlight /\ stage' = [stage EXCEPT ![r] = "lookup"]
    BY <1>5 DEF BeginGet, Begin
  <2>2. hash = NoPosition /\ UNCHANGED <<version, found, storeVars, worker, disturbed>>
    BY <1>5 DEF BeginGet, Begin
  <2>3. /\ OneAtATime' /\ stage'[r] = "lookup"
        /\ \A s \in Requests : s # r => /\ stage[s] \in {"idle"} \cup Ended
                                        /\ stage'[s] = stage[s]
    BY <1>1, <2>1, Alone
  <2>5. VersionsInOrder'
    BY <1>1, <1>3, <2>2, <2>1, <2>3 DEF VersionsInOrder, Checked, WorkerHolds, Ended, TypeOK
  <2>6. NothingLost'
    BY <1>1, <1>3, <2>2, <2>1, <2>3 DEF NothingLost, VersionsInOrder, Checked, WorkerHolds, Ended, TypeOK
  <2> QED
    BY <2>3, <2>5, <2>6
<1>6. ASSUME NEW r \in Requests, BeginDelete(r) PROVE G
  <2>1. stage[r] = "idle" /\ ~InFlight /\ stage' = [stage EXCEPT ![r] = "delete"]
    BY <1>6 DEF BeginDelete, Begin
  <2>2. UNCHANGED <<version, found, storeVars, worker, disturbed>>
    BY <1>6 DEF BeginDelete, Begin
  <2>3. /\ OneAtATime' /\ stage'[r] = "delete"
        /\ \A s \in Requests : s # r => /\ stage[s] \in {"idle"} \cup Ended
                                        /\ stage'[s] = stage[s]
    BY <1>1, <2>1, Alone
  <2>5. VersionsInOrder'
    BY <1>1, <1>3, <2>2, <2>1, <2>3 DEF VersionsInOrder, Checked, WorkerHolds, Ended, TypeOK
  <2>6. NothingLost'
    BY <1>1, <1>3, <2>2, <2>1, <2>3 DEF NothingLost, VersionsInOrder, Checked, WorkerHolds, Ended, TypeOK
  <2> QED
    BY <2>3, <2>5, <2>6
<1>7. ASSUME NEW r \in Requests, CheckRedis(r) PROVE G
  <2>1. CASE version[r] < hash.version
    <3>1. stage[r] = "redis" /\ Served(r) /\ stage' = [stage EXCEPT ![r] = "refused"]
      BY <1>7, <1>3, <2>1 DEF CheckRedis, Served, Ended
    <3>2. UNCHANGED <<storeVars, worker, disturbed>>
      BY <1>7, <1>3, <2>1 DEF CheckRedis
    <3>3. /\ OneAtATime' /\ stage'[r] = "refused"
          /\ \A s \in Requests : s # r => /\ stage[s] \in {"idle"} \cup Ended
                                          /\ stage'[s] = stage[s]
      BY <1>1, <3>1, Alone
    <3>5. VersionsInOrder'
      BY <1>1, <1>3, <3>2, <3>1, <3>3 DEF VersionsInOrder, Checked, WorkerHolds, Ended, TypeOK
    <3>6. NothingLost'
      BY <1>1, <1>3, <3>2, <3>1, <3>3 DEF NothingLost, VersionsInOrder, Checked, WorkerHolds, Ended, TypeOK
    <3> QED
      BY <3>3, <3>5, <3>6
  <2>2. CASE version[r] >= hash.version
    <3>1. stage[r] = "redis" /\ Served(r) /\ stage' = [stage EXCEPT ![r] = "mongo"]
      BY <1>7, <1>3, <2>2 DEF CheckRedis, Served, Ended
    <3>2. UNCHANGED <<version, found, storeVars, worker, disturbed>>
      BY <1>7, <1>3, <2>2 DEF CheckRedis
    <3>3. /\ OneAtATime' /\ stage'[r] = "mongo"
          /\ \A s \in Requests : s # r => /\ stage[s] \in {"idle"} \cup Ended
                                          /\ stage'[s] = stage[s]
      BY <1>1, <3>1, Alone
    <3>5. VersionsInOrder'
      BY <1>1, <1>3, <3>2, <3>1, <3>3 DEF VersionsInOrder, Checked, WorkerHolds, Ended, TypeOK
    <3>6. NothingLost'
      BY <1>1, <1>3, <3>2, <3>1, <3>3 DEF NothingLost, VersionsInOrder, Checked, WorkerHolds, Ended, TypeOK
    <3> QED
      BY <3>3, <3>5, <3>6
  <2> QED
    BY <2>1, <2>2, <1>3, <1>7 DEF CheckRedis, TypeOK
<1>8. ASSUME NEW r \in Requests, CheckMongo(r) PROVE G
  <2>1. CASE version[r] < mongo.version
    <3>1. stage[r] = "mongo" /\ Served(r) /\ stage' = [stage EXCEPT ![r] = "back"]
      BY <1>8, <1>3, <2>1 DEF CheckMongo, TypeOK, Served, Ended
    <3>2. found'[r] = mongo /\ UNCHANGED <<storeVars, worker, disturbed>>
      BY <1>8, <1>3, <2>1 DEF CheckMongo, TypeOK
    <3>3. /\ OneAtATime' /\ stage'[r] = "back"
          /\ \A s \in Requests : s # r => /\ stage[s] \in {"idle"} \cup Ended
                                          /\ stage'[s] = stage[s]
      BY <1>1, <3>1, Alone
    <3>5. VersionsInOrder'
      BY <1>1, <1>3, <3>2, <3>1, <3>3 DEF VersionsInOrder, Checked, WorkerHolds, Ended, TypeOK
    <3>6. NothingLost'
      BY <1>1, <1>3, <3>2, <3>1, <3>3, <2>1 DEF NothingLost, VersionsInOrder, Checked, WorkerHolds, Ended, TypeOK
    <3> QED
      BY <3>3, <3>5, <3>6
  <2>2. CASE version[r] >= mongo.version
    <3>1. stage[r] = "mongo" /\ Served(r) /\ stage' = [stage EXCEPT ![r] = "write"]
      BY <1>8, <1>3, <2>2 DEF CheckMongo, TypeOK, Served, Ended
    <3>2. UNCHANGED <<version, found, storeVars, worker, disturbed>>
      BY <1>8, <1>3, <2>2 DEF CheckMongo, TypeOK
    <3>3. /\ OneAtATime' /\ stage'[r] = "write"
          /\ \A s \in Requests : s # r => /\ stage[s] \in {"idle"} \cup Ended
                                          /\ stage'[s] = stage[s]
      BY <1>1, <3>1, Alone
    <3>5. VersionsInOrder'
      BY <1>1, <1>3, <3>2, <3>1, <3>3, <2>2 DEF VersionsInOrder, Checked, WorkerHolds, Ended, TypeOK
    <3>6. NothingLost'
      BY <1>1, <1>3, <3>2, <3>1, <3>3 DEF NothingLost, VersionsInOrder, Checked, WorkerHolds, Ended, TypeOK
    <3> QED
      BY <3>3, <3>5, <3>6
  <2> QED
    BY <2>1, <2>2, <1>3, <1>8 DEF CheckMongo, TypeOK
<1>9. ASSUME NEW r \in Requests, WriteHash(r) PROVE G
  <2>1. stage[r] = "write" /\ Served(r) /\ stage' = [stage EXCEPT ![r] = "expire"]
    BY <1>9 DEF WriteHash, PutHash, Served, Ended
  <2>2. hash' = [place |-> r, version |-> version[r]]
        /\ UNCHANGED <<version, found, dirty, mongo, worker>>
        /\ disturbed' = disturbed \cup IF WorkerHolds THEN {"save"} ELSE {}
    BY <1>9 DEF WriteHash, PutHash
  <2>3. /\ OneAtATime' /\ stage'[r] = "expire"
        /\ \A s \in Requests : s # r => /\ stage[s] \in {"idle"} \cup Ended
                                        /\ stage'[s] = stage[s]
    BY <1>1, <2>1, Alone
  <2>5. VersionsInOrder'
    BY <1>1, <1>3, <2>2, <2>1, <2>3 DEF VersionsInOrder, Checked, WorkerHolds, Ended, TypeOK
  <2>6. NothingLost'
    BY <1>1, <1>3, <2>2, <2>1, <2>3 DEF NothingLost, VersionsInOrder, Checked, WorkerHolds, Ended, TypeOK
  <2> QED
    BY <2>3, <2>5, <2>6
<1>10. ASSUME NEW r \in Requests, SetExpiry(r) PROVE G
  <2>1. stage[r] = "expire" /\ Served(r) /\ stage' = [stage EXCEPT ![r] = "mark"]
    BY <1>10 DEF SetExpiry, Served, Ended
  <2>2. UNCHANGED <<version, found, hash, dirty, mongo, worker, disturbed>>
    BY <1>10 DEF SetExpiry
  <2>3. /\ OneAtATime' /\ stage'[r] = "mark"
        /\ \A s \in Requests : s # r => /\ stage[s] \in {"idle"} \cup Ended
                                        /\ stage'[s] = stage[s]
    BY <1>1, <2>1, Alone
  <2>5. VersionsInOrder'
    BY <1>1, <1>3, <2>2, <2>1, <2>3 DEF VersionsInOrder, Checked, WorkerHolds, Ended, TypeOK
  <2>6. NothingLost'
    BY <1>1, <1>3, <2>2, <2>1, <2>3 DEF NothingLost, VersionsInOrder, Checked, WorkerHolds, Ended, TypeOK
  <2> QED
    BY <2>3, <2>5, <2>6
<1>11. ASSUME NEW r \in Requests, MarkDirty(r) PROVE G
  <2>1. stage[r] = "mark" /\ Served(r) /\ stage' = [stage EXCEPT ![r] = "done"]
    BY <1>11 DEF MarkDirty, Served, Ended
  <2>2. dirty' /\ UNCHANGED <<hash, mongo, worker>>
        /\ disturbed' = IF WorkerHolds THEN disturbed ELSE disturbed \ {"save"}
    BY <1>11 DEF MarkDirty
  <2>3. /\ OneAtATime' /\ stage'[r] = "done"
        /\ \A s \in Requests : s # r => /\ stage[s] \in {"idle"} \cup Ended
                                        /\ stage'[s] = stage[s]
    BY <1>1, <2>1, Alone
  <2>5. VersionsInOrder'
    BY <1>1, <1>3, <2>2, <2>1, <2>3 DEF VersionsInOrder, Checked, WorkerHolds, Ended, TypeOK
  <2>6. NothingLost'
    BY <1>1, <1>3, <2>2, <2>1, <2>3 DEF NothingLost, VersionsInOrder, Checked, WorkerHolds, Ended, TypeOK
  <2> QED
    BY <2>3, <2>5, <2>6
<1>12. ASSUME NEW r \in Requests, Lookup(r) PROVE G
  <2>1. CASE mongo = NoPosition
    <3>1. stage[r] = "lookup" /\ Served(r) /\ stage' = [stage EXCEPT ![r] = "done"]
      BY <1>12, <1>3, <2>1 DEF Lookup, TypeOK, Served, Ended
    <3>2. UNCHANGED <<storeVars, worker, disturbed>>
      BY <1>12, <1>3, <2>1 DEF Lookup, TypeOK
    <3>3. /\ OneAtATime' /\ stage'[r] = "done"
          /\ \A s \in Requests : s # r => /\ stage[s] \in {"idle"} \cup Ended
                                          /\ stage'[s] = stage[s]
      BY <1>1, <3>1, Alone
    <3>5. VersionsInOrder'
      BY <1>1, <1>3, <3>2, <3>1, <3>3 DEF VersionsInOrder, Checked, WorkerHolds, Ended, TypeOK
    <3>6. NothingLost'
      BY <1>1, <1>3, <3>2, <3>1, <3>3 DEF NothingLost, VersionsInOrder, Checked, WorkerHolds, Ended, TypeOK
    <3> QED
      BY <3>3, <3>5, <3>6
  <2>2. CASE mongo # NoPosition
    <3>1. stage[r] = "lookup" /\ Served(r) /\ stage' = [stage EXCEPT ![r] = "back"]
      BY <1>12, <1>3, <2>2 DEF Lookup, TypeOK, Served, Ended
    <3>2. found'[r] = mongo /\ UNCHANGED <<storeVars, worker, disturbed>>
      BY <1>12, <1>3, <2>2 DEF Lookup, TypeOK
    <3>3. /\ OneAtATime' /\ stage'[r] = "back"
          /\ \A s \in Requests : s # r => /\ stage[s] \in {"idle"} \cup Ended
                                          /\ stage'[s] = stage[s]
      BY <1>1, <3>1, Alone
    <3>5. VersionsInOrder'
      BY <1>1, <1>3, <3>2, <3>1, <3>3 DEF VersionsInOrder, Checked, WorkerHolds, Ended, TypeOK
    <3>6. NothingLost'
      BY <1>1, <1>3, <3>2, <3>1, <3>3 DEF NothingLost, VersionsInOrder, Checked, WorkerHolds, Ended, TypeOK
    <3> QED
      BY <3>3, <3>5, <3>6
  <2> QED
    BY <2>1, <2>2, <1>3, <1>12 DEF Lookup, TypeOK
<1>13. ASSUME NEW r \in Requests, CacheBack(r) PROVE G
  <2>1. stage[r] = "back" /\ Served(r) /\ stage' = [stage EXCEPT ![r] = "backExpire"]
    BY <1>13 DEF CacheBack, PutHash, Served, Ended
  <2>2. hash' = found[r] /\ UNCHANGED <<version, found, dirty, mongo, worker, disturbed>>
    BY <1>13 DEF CacheBack, PutHash
  <2>3. /\ OneAtATime' /\ stage'[r] = "backExpire"
        /\ \A s \in Requests : s # r => /\ stage[s] \in {"idle"} \cup Ended
                                        /\ stage'[s] = stage[s]
    BY <1>1, <2>1, Alone
  <2>5. VersionsInOrder'
    BY <1>1, <1>3, <2>2, <2>1, <2>3 DEF VersionsInOrder, Checked, WorkerHolds, Ended, TypeOK
  <2>6. NothingLost'
    BY <1>1, <1>3, <2>2, <2>1, <2>3 DEF NothingLost, VersionsInOrder, Checked, WorkerHolds, Ended, TypeOK
  <2> QED
    BY <2>3, <2>5, <2>6
<1>14. ASSUME NEW r \in Requests, CacheExpiry(r) PROVE G
  <2>1. stage[r] = "backExpire" /\ Served(r) /\ stage' = [stage EXCEPT ![r] = "done"]
    BY <1>14 DEF CacheExpiry, Served, Ended
  <2>2. UNCHANGED <<hash, dirty, mongo, worker, disturbed>>
    BY <1>14 DEF CacheExpiry
  <2>3. /\ OneAtATime' /\ stage'[r] = "done"
        /\ \A s \in Requests : s # r => /\ stage[s] \in {"idle"} \cup Ended
                                        /\ stage'[s] = stage[s]
    BY <1>1, <2>1, Alone
  <2>5. VersionsInOrder'
    BY <1>1, <1>3, <2>2, <2>1, <2>3 DEF VersionsInOrder, Checked, WorkerHolds, Ended, TypeOK
  <2>6. NothingLost'
    BY <1>1, <1>3, <2>2, <2>1, <2>3 DEF NothingLost, VersionsInOrder, Checked, WorkerHolds, Ended, TypeOK
  <2> QED
    BY <2>3, <2>5, <2>6
<1>15. ASSUME NEW r \in Requests, DeleteDocument(r) PROVE G
  <2>1. stage[r] = "delete" /\ Served(r) /\ stage' = [stage EXCEPT ![r] = "deleteHash"]
    BY <1>15 DEF DeleteDocument, Served, Ended
  <2>2. mongo' = NoPosition /\ UNCHANGED <<version, found, hash, dirty, worker, disturbed>>
    BY <1>15 DEF DeleteDocument
  <2>3. /\ OneAtATime' /\ stage'[r] = "deleteHash"
        /\ \A s \in Requests : s # r => /\ stage[s] \in {"idle"} \cup Ended
                                        /\ stage'[s] = stage[s]
    BY <1>1, <2>1, Alone
  <2>5. VersionsInOrder'
    BY <1>1, <1>3, <2>2, <2>1, <2>3 DEF VersionsInOrder, Checked, WorkerHolds, Ended, TypeOK
  <2>6. NothingLost'
    BY <1>1, <1>3, <2>2, <2>1, <2>3 DEF NothingLost, VersionsInOrder, Checked, WorkerHolds, Ended, TypeOK
  <2> QED
    BY <2>3, <2>5, <2>6
<1>16. ASSUME NEW r \in Requests, DeleteHash(r) PROVE G
  <2>1. stage[r] = "deleteHash" /\ Served(r) /\ stage' = [stage EXCEPT ![r] = "deleteMark"]
    BY <1>16 DEF DeleteHash, Served, Ended
  <2>2. hash' = NoPosition /\ UNCHANGED <<version, found, dirty, mongo, worker>>
        /\ disturbed' = IF WorkerHolds \/ mongo # NoPosition
                        THEN disturbed \cup {"delete"} ELSE {}
    BY <1>16 DEF DeleteHash
  <2>3. /\ OneAtATime' /\ stage'[r] = "deleteMark"
        /\ \A s \in Requests : s # r => /\ stage[s] \in {"idle"} \cup Ended
                                        /\ stage'[s] = stage[s]
    BY <1>1, <2>1, Alone
  <2>5. VersionsInOrder'
    BY <1>1, <1>3, <2>2, <2>1, <2>3 DEF VersionsInOrder, Checked, WorkerHolds, Ended, TypeOK
  <2>6. NothingLost'
    BY <1>1, <1>3, <2>2, <2>1, <2>3 DEF NothingLost, VersionsInOrder, Checked, WorkerHolds, Ended, TypeOK
  <2> QED
    BY <2>3, <2>5, <2>6
<1>17. ASSUME NEW r \in Requests, DeleteMark(r) PROVE G
  <2>1. stage[r] = "deleteMark" /\ Served(r) /\ stage' = [stage EXCEPT ![r] = "done"]
    BY <1>17 DEF DeleteMark, Served, Ended
  <2>2. dirty' = FALSE /\ UNCHANGED <<hash, mongo, worker, disturbed>>
    BY <1>17 DEF DeleteMark
  <2>3. /\ OneAtATime' /\ stage'[r] = "done"
        /\ \A s \in Requests : s # r => /\ stage[s] \in {"idle"} \cup Ended
                                        /\ stage'[s] = stage[s]
    BY <1>1, <2>1, Alone
  <2>5. VersionsInOrder'
    BY <1>1, <1>3, <2>2, <2>1, <2>3 DEF VersionsInOrder, Checked, WorkerHolds, Ended, TypeOK
  <2>6. NothingLost'
    BY <1>1, <1>3, <2>2, <2>1, <2>3 DEF NothingLost, VersionsInOrder, Checked, WorkerHolds, Ended, TypeOK
  <2> QED
    BY <2>3, <2>5, <2>6
<1>18. ASSUME NEW r \in Requests, RequestFails(r) PROVE G
  <2>1. Served(r) /\ stage' = [stage EXCEPT ![r] = "failed"]
    BY <1>18 DEF RequestFails
  <2>2. UNCHANGED <<hash, dirty, mongo, worker>> /\ disturbed \subseteq disturbed'
    BY <1>18 DEF RequestFails
  <2>3. /\ OneAtATime' /\ stage'[r] = "failed"
        /\ \A s \in Requests : s # r => /\ stage[s] \in {"idle"} \cup Ended
                                        /\ stage'[s] = stage[s]
    BY <1>1, <2>1, Alone
  <2>4. /\ stage[r] \in {"expire", "mark"} => "save" \in disturbed'
        /\ stage[r] = "deleteHash" => "delete" \in disturbed'
        /\ disturbed' = {} => disturbed = {}
    BY <1>18 DEF RequestFails
  <2>6. VersionsInOrder'
    BY <1>1, <2>2, <2>3, <2>4 DEF VersionsInOrder, Ended
  <2>7. NothingLost'
    BY <1>1, <2>2, <2>3, <2>4 DEF NothingLost, Ended
  <2> QED
    BY <2>3, <2>6, <2>7
<1>19. CASE HashExpires
  <2>1. /\ hash' = NoPosition /\ worker.step = "rest" /\ ~dirty
        /\ UNCHANGED <<dirty, mongo, reqVars, worker>>
    BY <1>19 DEF HashExpires
  <2>2. /\ "delete" \in disturbed' <=> "delete" \in disturbed
        /\ disturbed' = {} =>
             /\ disturbed = {}
             /\ ~\E r \in Requests : stage[r] \in {"expire", "mark"}
    BY <1>19 DEF HashExpires
  <2>5. VersionsInOrder'
    BY <1>1, <1>3, <2>1, <2>2 DEF VersionsInOrder, Checked, TypeOK
  <2>6. NothingLost'
    BY <1>1, <1>3, <2>1, <2>2 DEF NothingLost, VersionsInOrder
  <2> QED
    BY <2>5, <2>6
<1>20. CASE StartPass
  <2>1. worker'.step = "next" /\ UNCHANGED <<storeVars, reqVars, disturbed>>
    BY <1>20 DEF StartPass, At
  <2>4. VersionsInOrder'
    BY <1>1, <1>3, <2>1 DEF VersionsInOrder, Checked, TypeOK
  <2>5. NothingLost'
    BY <1>1, <1>3, <2>1 DEF NothingLost, VersionsInOrder
  <2> QED
    BY <2>4, <2>5
<1>21. CASE TakeKey
  <2>1. /\ worker'.step = IF hash = NoPosition THEN "drop" ELSE "place"
        /\ UNCHANGED <<storeVars, reqVars, disturbed>>
    BY <1>21 DEF TakeKey, At
  <2>4. VersionsInOrder'
    BY <1>1, <1>3, <2>1 DEF VersionsInOrder, Checked, TypeOK
  <2>5. NothingLost'
    BY <1>1, <1>3, <2>1 DEF NothingLost, VersionsInOrder
  <2> QED
    BY <2>4, <2>5
<1>22. CASE DropMark
  <2>1. /\ worker.step = "drop" /\ worker'.step = "rest"
        /\ UNCHANGED <<hash, mongo, reqVars, disturbed>>
    BY <1>22 DEF DropMark, At
  <2>4. VersionsInOrder'
    BY <1>1, <1>3, <2>1 DEF VersionsInOrder, Checked, TypeOK
  <2>5. NothingLost'
    BY <1>1, <1>3, <2>1 DEF NothingLost, VersionsInOrder
  <2> QED
    BY <2>4, <2>5
<1>23. CASE ReadPlace
  <2>1. /\ \/ worker'.step = "rest"
           \/ /\ hash # NoPosition /\ worker'.step = "version"
              /\ worker'.read.place = hash.place
        /\ UNCHANGED <<storeVars, reqVars, disturbed>>
    BY <1>23 DEF ReadPlace, At
  <2>4. VersionsInOrder'
    BY <1>1, <1>3, <2>1 DEF VersionsInOrder, Checked, TypeOK
  <2>5. NothingLost'
    BY <1>1, <1>3, <2>1 DEF NothingLost, VersionsInOrder
  <2> QED
    BY <2>4, <2>5
<1>24. CASE ReadVersion
  <2>1. /\ worker.step = "version" /\ worker'.step = "write"
        /\ worker'.read = [place |-> worker.read.place,
                           version |-> IF hash = NoPosition THEN 1 ELSE hash.version]
        /\ UNCHANGED <<storeVars, reqVars, disturbed>>
    BY <1>24 DEF ReadVersion
  <2>4. VersionsInOrder'
    BY <1>1, <1>3, <2>1 DEF VersionsInOrder, Checked, TypeOK
  <2>5. NothingLost'
    BY <1>1, <1>3, <2>1 DEF NothingLost, VersionsInOrder
  <2> QED
    BY <2>4, <2>5
<1>25. CASE WriteDocument
  <2>1. /\ worker.step = "write" /\ worker'.step = "unmark" /\ mongo' = worker.read
        /\ UNCHANGED <<hash, dirty, reqVars, disturbed>>
    BY <1>25 DEF WriteDocument, At
  <2>4. VersionsInOrder'
    BY <1>1, <1>3, <2>1 DEF VersionsInOrder, Checked, TypeOK
  <2>5. NothingLost'
    BY <1>1, <1>3, <2>1 DEF NothingLost, VersionsInOrder
  <2> QED
    BY <2>4, <2>5
<1>26. CASE Unmark
  <2>1. /\ worker.step = "unmark" /\ worker'.step = "rest"
        /\ UNCHANGED <<hash, mongo, reqVars, disturbed>>
    BY <1>26 DEF Unmark, At
  <2>4. VersionsInOrder'
    BY <1>1, <1>3, <2>1 DEF VersionsInOrder, Checked, TypeOK
  <2>5. NothingLost'
    BY <1>1, <1>3, <2>1 DEF NothingLost, VersionsInOrder
  <2> QED
    BY <2>4, <2>5
<1>27. CASE PassFails
  <2>1. worker'.step = "rest" /\ UNCHANGED <<storeVars, reqVars, disturbed>>
    BY <1>27 DEF PassFails, At
  <2>4. VersionsInOrder'
    BY <1>1, <1>3, <2>1 DEF VersionsInOrder, Checked, TypeOK
  <2>5. NothingLost'
    BY <1>1, <1>3, <2>1 DEF NothingLost, VersionsInOrder
  <2> QED
    BY <2>4, <2>5
<1>28. CASE UNCHANGED vars
  <2>1. UNCHANGED <<storeVars, reqVars, worker, disturbed>>
    BY <1>28 DEF vars
  <2>4. VersionsInOrder'
    BY <1>1, <1>3, <2>1 DEF VersionsInOrder, Checked, TypeOK
  <2>5. NothingLost'
    BY <1>1, <1>3, <2>1 DEF NothingLost, VersionsInOrder
  <2> QED
    BY <2>4, <2>5
<1> QED
  BY <1>4, <1>5, <1>6, <1>7, <1>8, <1>9, <1>10, <1>11, <1>12, <1>13, <1>14,
     <1>15, <1>16, <1>17, <1>18, <1>19, <1>20, <1>21, <1>22, <1>23, <1>24, <1>25,
     <1>26, <1>27, <1>28
  DEF Next, Proceed, Sync

-----------------------------------------------------------------------------
\* The inductive invariant, for a member who reads on one device and hashes
\* that outlive their sync.
THEOREM ProgressInvariance ==
  ASSUME OneDevice, SyncWithinTtl
  PROVE  Spec => []ProgressInv
<1> DEFINE Inv == TypeOK /\ ProgressInv
<1>1. Init => Inv
  BY TypeInit, InvInit
<1>2. Inv /\ [Next]_vars => Inv'
  BY TypeStep, InvStep DEF ProgressInv
<1>3. Inv => ProgressInv
  OBVIOUS
<1> QED
  BY <1>1, <1>2, <1>3, PTL DEF Spec

\* No saved position is left unmarked and unwritten, however requests, passes
\* and failures interleave, but by the two races recorded in disturbed.
THEOREM LossNeedsARaceHolds ==
  ASSUME OneDevice, SyncWithinTtl
  PROVE  Spec => []LossNeedsARace
<1>1. ProgressInv => LossNeedsARace
  BY DEF ProgressInv, NothingLost, LossNeedsARace, InFlight, Served, Ended
<1> QED
  BY <1>1, ProgressInvariance, PTL

\* The hash GetProgressAsync answers from is never behind MongoDB.
THEOREM CacheNotBehindHolds ==
  ASSUME OneDevice, SyncWithinTtl
  PROVE  Spec => []CacheNotBehind
<1>1. TypeOK /\ ProgressInv => CacheNotBehind
  BY StoredVersion DEF ProgressInv, VersionsInOrder, CacheNotBehind, TypeOK
<1> QED
  BY <1>1, ProgressTypes, ProgressInvariance, PTL

\* What a request has compared still holds when it acts on it.
LEMMA CheckedHolds ==
  ASSUME OneDevice
  PROVE  Spec => [](TypeOK /\ OneAtATime /\ Checked)
<1> DEFINE Inv == TypeOK /\ WellFormed /\ OneAtATime /\ Checked
<1>1. Init => Inv
  BY TypeInit, InvInit DEF ProgressInv
<1>2. Inv /\ [Next]_vars => Inv'
  BY TypeStep, CheckedStep
<1>3. Inv => TypeOK /\ OneAtATime /\ Checked
  OBVIOUS
<1> QED
  BY <1>1, <1>2, <1>3, PTL DEF Spec

\* Neither a save nor a cache write-back takes the hash to a lower version,
\* whenever it expires.
LEMMA HashVersionsRiseHolds ==
  ASSUME OneDevice
  PROVE  Spec => HashVersionsRise
<1> DEFINE Rises == hash # NoPosition /\ hash' # NoPosition
                      => hash'.version >= hash.version
<1>1. TypeOK /\ Checked /\ [Next]_vars => [Rises]_vars
  <2> SUFFICES ASSUME TypeOK, Checked, [Next]_vars PROVE Rises
    OBVIOUS
  <2>1. hash.version \in Int /\ \A s \in Requests : found[s].version \in Int
                             /\ version[s] \in Int
    BY StoredVersion DEF TypeOK
  <2>3. ASSUME NEW r \in Requests, WriteHash(r) PROVE Rises
    <3>1. hash' = [place |-> r, version |-> version[r]] /\ stage[r] = "write"
      BY <2>3 DEF WriteHash, PutHash, Moves
    <3> QED
      BY <2>1, <3>1 DEF Checked
  <2>4. ASSUME NEW r \in Requests, CacheBack(r) PROVE Rises
    <3>1. hash' = found[r] /\ stage[r] = "back"
      BY <2>4 DEF CacheBack, PutHash, Moves
    <3> QED
      BY <2>1, <3>1 DEF Checked
  <2>5. CASE hash' = hash \/ hash' = NoPosition
    BY <2>1, <2>5
  <2> QED
    BY <2>3, <2>4, <2>5
    DEF Next, Proceed, Sync, storeVars, vars, BeginSave, BeginGet, BeginDelete,
        Begin, CheckRedis, CheckMongo, SetExpiry, MarkDirty, Lookup,
        CacheExpiry, DeleteDocument, DeleteHash, DeleteMark, RequestFails,
        HashExpires, StartPass, TakeKey, DropMark, ReadPlace, ReadVersion,
        WriteDocument, Unmark, PassFails
<1> QED
  BY <1>1, CheckedHolds, PTL DEF Spec, HashVersionsRise

\* No pass takes the document to a lower version, unless a deletion fell into
\* a pass.
THEOREM DocumentVersionsRiseHolds ==
  ASSUME OneDevice, SyncWithinTtl
  PROVE  Spec => DocumentVersionsRise
<1> DEFINE Rises == mongo # NoPosition /\ mongo' # NoPosition /\ "delete" \notin disturbed
                      => mongo'.version >= mongo.version
<1>1. TypeOK /\ ProgressInv /\ [Next]_vars => [Rises]_vars
  <2> SUFFICES ASSUME TypeOK, ProgressInv, [Next]_vars PROVE Rises
    OBVIOUS
  <2>1. mongo.version \in Int /\ worker.read.version \in Int
    BY StoredVersion DEF TypeOK
  <2>2. CASE WriteDocument
    BY <2>1, <2>2 DEF WriteDocument, ProgressInv, VersionsInOrder
  <2>3. CASE mongo' = mongo \/ mongo' = NoPosition
    BY <2>1, <2>3
  <2> QED
    BY <2>2, <2>3
    DEF Next, Proceed, Sync, storeVars, vars, BeginSave, BeginGet, BeginDelete,
        Begin, CheckRedis, CheckMongo, WriteHash, SetExpiry, MarkDirty, Lookup,
        CacheBack, CacheExpiry, DeleteDocument, DeleteHash, DeleteMark,
        RequestFails, HashExpires, StartPass, TakeKey, DropMark, ReadPlace,
        ReadVersion, Unmark, PassFails
<1> QED
  BY <1>1, ProgressTypes, ProgressInvariance, PTL DEF Spec, DocumentVersionsRise

\* Versions rise in both stores (ReadingProgressService.cs:53-74,
\* ReadingProgressRepository.cs:56-84).
THEOREM VersionsRiseHolds ==
  ASSUME OneDevice, SyncWithinTtl
  PROVE  Spec => VersionsRise
BY HashVersionsRiseHolds, DocumentVersionsRiseHolds DEF VersionsRise

-----------------------------------------------------------------------------
(***************************************************************************)
(* Requests of several devices, as they come.                              *)
(***************************************************************************)
LEMMA LookInit == Init => LookHolds
  BY DEF Init, LookHolds

\* Between a request's look at the hash and its write, nothing but another
\* request's write makes the look untrue.
LEMMA LookStep ==
  ASSUME TypeOK, LookHolds, [Next]_vars
  PROVE  LookHolds'
<1>1. /\ NoPosition.version = 0
      /\ hash.version \in Int /\ hash.version >= 0 /\ mongo.version \in Int
      /\ \A s \in Requests : /\ version[s] \in Int /\ version[s] >= 0
                             /\ found[s].version \in Int /\ found[s].version >= 0
  BY StoredVersion DEF TypeOK, NoPosition
<1>2. ASSUME NEW r \in Requests, NEW q, stage' = [stage EXCEPT ![r] = q],
             \A s \in Requests : s # r => version'[s] = version[s] /\ found'[s] = found[s],
             overtaken \ {r} \subseteq overtaken', hash' \in {hash, NoPosition},
             r \notin overtaken' /\ q \in {"mongo", "write"} => hash'.version <= version'[r],
             r \notin overtaken' /\ q = "back" => hash'.version <= found'[r].version,
             r \notin overtaken' /\ q = "lookup" => hash' = NoPosition
      PROVE  LookHolds'
  <2> SUFFICES ASSUME NEW s \in Requests, s \notin overtaken'
               PROVE  /\ stage'[s] \in {"mongo", "write"} => hash'.version <= version'[s]
                      /\ stage'[s] = "back" => hash'.version <= found'[s].version
                      /\ stage'[s] = "lookup" => hash' = NoPosition
    BY DEF LookHolds
  <2>1. CASE s = r
    BY <1>2, <2>1 DEF TypeOK
  <2>2. CASE s # r
    <3>1. /\ stage'[s] = stage[s] /\ s \notin overtaken
          /\ version'[s] = version[s] /\ found'[s] = found[s]
      BY <1>2, <2>2 DEF TypeOK
    <3> QED
      BY <1>1, <1>2, <3>1 DEF LookHolds
  <2> QED
    BY <2>1, <2>2
<1>3. ASSUME NEW r \in Requests, NEW q, stage' = [stage EXCEPT ![r] = q],
             q \notin {"mongo", "write", "lookup", "back"}, Overtakes(r)
      PROVE  LookHolds'
  <2> SUFFICES ASSUME NEW s \in Requests, s \notin overtaken'
               PROVE  stage'[s] \notin {"mongo", "write", "lookup", "back"}
    BY DEF LookHolds
  <2> QED
    BY <1>3 DEF Overtakes, HasLooked, TypeOK
<1> USE DEF GoTo, Moves, End, storeVars
<1>4. ASSUME NEW r \in Requests, NEW v \in Versions, BeginSave(r, v) PROVE LookHolds'
  BY <1>2, <1>4 DEF BeginSave, Begin, TypeOK
<1>5. ASSUME NEW r \in Requests, BeginGet(r) \/ BeginDelete(r) PROVE LookHolds'
  BY <1>2, <1>5 DEF BeginGet, BeginDelete, Begin
<1>6. ASSUME NEW r \in Requests, CheckRedis(r) PROVE LookHolds'
  BY <1>1, <1>2, <1>6 DEF CheckRedis, TypeOK
<1>7. ASSUME NEW r \in Requests, CheckMongo(r) PROVE LookHolds'
  <2>1. r \notin overtaken => hash.version <= version[r]
    BY <1>7 DEF CheckMongo, LookHolds
  <2>2. CASE version[r] < mongo.version
    <3>1. /\ stage' = [stage EXCEPT ![r] = "back"] /\ found' = [found EXCEPT ![r] = mongo]
          /\ hash' = hash /\ overtaken' = overtaken /\ version' = version
      BY <1>1, <1>7, <2>2 DEF CheckMongo
    <3>2. found'[r] = mongo /\ \A s \in Requests : s # r => found'[s] = found[s]
      BY <3>1 DEF TypeOK
    <3>3. r \notin overtaken => hash.version <= mongo.version
      BY <1>1, <2>1, <2>2
    <3> QED
      BY <1>2, <3>1, <3>2, <3>3
  <2>3. CASE version[r] >= mongo.version
    <3>1. /\ stage' = [stage EXCEPT ![r] = "write"]
          /\ UNCHANGED <<version, found, hash, overtaken>>
      BY <1>1, <1>7, <2>3 DEF CheckMongo
    <3> QED
      BY <1>2, <2>1, <3>1
  <2> QED
    BY <1>7, <2>2, <2>3 DEF CheckMongo
<1>8. ASSUME NEW r \in Requests, WriteHash(r) \/ CacheBack(r) PROVE LookHolds'
  BY <1>3, <1>8 DEF WriteHash, CacheBack
<1>9. ASSUME NEW r \in Requests,
             \/ SetExpiry(r) \/ MarkDirty(r) \/ CacheExpiry(r)
             \/ DeleteDocument(r) \/ DeleteHash(r) \/ DeleteMark(r) \/ RequestFails(r)
      PROVE  LookHolds'
  BY <1>2, <1>9 DEF SetExpiry, MarkDirty, CacheExpiry, DeleteDocument, DeleteHash,
     DeleteMark, RequestFails, TypeOK
<1>10. ASSUME NEW r \in Requests, Lookup(r) PROVE LookHolds'
  <2>1. r \notin overtaken => hash = NoPosition
    BY <1>10 DEF Lookup, LookHolds
  <2>2. CASE mongo = NoPosition
    BY <1>2, <1>10, <2>2 DEF Lookup, TypeOK
  <2>3. CASE mongo # NoPosition
    <3>1. /\ stage' = [stage EXCEPT ![r] = "back"] /\ found' = [found EXCEPT ![r] = mongo]
          /\ hash' = hash /\ overtaken' = overtaken /\ version' = version
      BY <1>10, <2>3 DEF Lookup
    <3>2. found'[r] = mongo /\ \A s \in Requests : s # r => found'[s] = found[s]
      BY <3>1 DEF TypeOK
    <3>3. mongo.version >= 0
      BY StoredVersion DEF TypeOK
    <3> QED
      BY <1>1, <1>2, <2>1, <3>1, <3>2, <3>3
  <2> QED
    BY <2>2, <2>3
<1>11. CASE HashExpires \/ Sync \/ PassFails \/ UNCHANGED vars
  <2>1. UNCHANGED <<stage, version, found, overtaken>> /\ hash' \in {hash, NoPosition}
    BY <1>11 DEF HashExpires, Sync, PassFails, StartPass, TakeKey, DropMark,
       ReadPlace, ReadVersion, WriteDocument, Unmark, vars, reqVars
  <2> QED
    BY <1>1, <2>1 DEF LookHolds
<1> QED
  BY <1>4, <1>5, <1>6, <1>7, <1>8, <1>9, <1>10, <1>11 DEF Next, Proceed

\* However many devices save, read and delete at once, the cached position goes
\* back to a lower version only by a request that looked at the hash before
\* another one wrote it (ReadingProgressService.cs:53-88, 108-128).
THEOREM RollbackNeedsOverlapHolds == Spec => RollbackNeedsOverlap
<1> DEFINE Act == hash # NoPosition /\ hash' # NoPosition /\ hash'.version < hash.version
                    => \E r \in overtaken : HasLooked(r) /\ ~HasLooked(r)'
<1>1. TypeOK /\ LookHolds /\ [Next]_vars => [Act]_vars
  <2> SUFFICES ASSUME TypeOK, LookHolds, [Next]_vars PROVE Act
    OBVIOUS
  <2>1. hash.version \in Int /\ \A s \in Requests : found[s].version \in Int
                             /\ version[s] \in Int
    BY StoredVersion DEF TypeOK
  <2>2. ASSUME NEW r \in Requests, WriteHash(r) PROVE Act
    <3>1. hash'.version = version[r] /\ stage[r] = "write" /\ stage'[r] = "expire"
      BY <2>2 DEF WriteHash, PutHash, Moves, GoTo, TypeOK
    <3> QED
      BY <2>1, <3>1 DEF LookHolds, HasLooked
  <2>3. ASSUME NEW r \in Requests, CacheBack(r) PROVE Act
    <3>1. hash' = found[r] /\ stage[r] = "back" /\ stage'[r] = "backExpire"
      BY <2>3 DEF CacheBack, PutHash, Moves, GoTo, TypeOK
    <3> QED
      BY <2>1, <3>1 DEF LookHolds, HasLooked
  <2>4. CASE hash' = hash \/ hash' = NoPosition
    BY <2>1, <2>4
  <2> QED
    BY <2>2, <2>3, <2>4
    DEF Next, Proceed, Sync, storeVars, vars, BeginSave, BeginGet, BeginDelete,
        Begin, CheckRedis, CheckMongo, SetExpiry, MarkDirty, Lookup,
        CacheExpiry, DeleteDocument, DeleteHash, DeleteMark, RequestFails,
        HashExpires, StartPass, TakeKey, DropMark, ReadPlace, ReadVersion,
        WriteDocument, Unmark, PassFails
<1>2. Init => TypeOK /\ WellFormed /\ LookHolds
  BY TypeInit, LookInit
<1>3. TypeOK /\ WellFormed /\ LookHolds /\ [Next]_vars
        => (TypeOK /\ WellFormed /\ LookHolds)'
  BY TypeStep, LookStep
<1> QED
  BY <1>1, <1>2, <1>3, PTL DEF Spec, RollbackNeedsOverlap

-----------------------------------------------------------------------------
(***************************************************************************)
(* ReadingProgress implements Bookmark.                                    *)
(***************************************************************************)
\* What a request's step is to the reader.
LEMMA Moving ==
  ASSUME TypeOK, NEW r \in Requests, NEW q, stage' = [stage EXCEPT ![r] = q]
  PROVE  /\ q \in {"idle", "redis", "mongo", "write"} => Over' = Over \ {r}
         /\ q \notin {"idle", "redis", "mongo", "write"} => Over' = Over \cup {r}
         /\ q \in {"delete", "deleteHash"} => Deleting' = Deleting \cup {r}
         /\ q \notin {"delete", "deleteHash"} => Deleting' = Deleting \ {r}
<1>1. stage'[r] = q /\ \A s \in Requests : s # r => stage'[s] = stage[s]
  BY DEF TypeOK
<1> QED
  BY <1>1 DEF Over, Deleting

\* The same, by where the request goes.
LEMMA MovingOver ==
  ASSUME TypeOK, NEW r \in Requests, NEW q, stage' = [stage EXCEPT ![r] = q],
         q \notin {"idle", "redis", "mongo", "write", "delete", "deleteHash"}
  PROVE  Over' = Over \cup {r} /\ Deleting' = Deleting \ {r}
  BY Moving

LEMMA MovingDelete ==
  ASSUME TypeOK, NEW r \in Requests, NEW q, stage' = [stage EXCEPT ![r] = q],
         q \in {"delete", "deleteHash"}
  PROVE  Over' = Over \cup {r} /\ Deleting' = Deleting \cup {r}
  BY Moving

\* What a request is to the reader.
LEMMA Standing ==
  ASSUME NEW r \in Requests
  PROVE  /\ r \in Over <=> stage[r] \notin {"idle", "redis", "mongo", "write"}
         /\ r \in Deleting <=> stage[r] \in {"delete", "deleteHash"}
  BY DEF Over, Deleting

\* One request at a time is over, and it stays so.
LEMMA OverGrows ==
  ASSUME TypeOK, [Next]_vars
  PROVE  Over' = Over \/ \E r \in Requests : r \notin Over /\ Over' = Over \cup {r}
<1> DEFINE G == Over' = Over \/ \E r \in Requests : r \notin Over /\ Over' = Over \cup {r}
<1>1. ASSUME NEW r \in Requests, NEW q,
             q \in {"redis", "mongo", "write"} => r \notin Over,
             q # "idle", stage' = [stage EXCEPT ![r] = q]
      PROVE  G
  <2>1. CASE q \in {"redis", "mongo", "write"}
    <3>1. Over' = Over \ {r}
      BY <1>1, <2>1, Moving
    <3> QED
      BY <1>1, <2>1, <3>1
  <2>2. CASE q \notin {"redis", "mongo", "write"}
    <3>1. Over' = Over \cup {r}
      BY <1>1, <2>2, Moving
    <3> QED
      BY <3>1
  <2> QED
    BY <2>1, <2>2
<1>2. ASSUME NEW r \in Requests, NEW v \in Versions, BeginSave(r, v) PROVE G
  BY <1>2, <1>1 DEF BeginSave, Begin, GoTo, Over
<1>3. ASSUME NEW r \in Requests, BeginGet(r) \/ BeginDelete(r) PROVE G
  BY <1>3, <1>1 DEF BeginGet, BeginDelete, Begin, GoTo
<1>4. ASSUME NEW r \in Requests, CheckRedis(r) PROVE G
  BY <1>4, <1>1 DEF CheckRedis, GoTo, Moves, End, Over
<1>5. ASSUME NEW r \in Requests, CheckMongo(r) PROVE G
  BY <1>5, <1>1 DEF CheckMongo, GoTo, Moves, Over
<1>6. ASSUME NEW r \in Requests,
             \/ WriteHash(r) \/ SetExpiry(r) \/ MarkDirty(r) \/ Lookup(r)
             \/ CacheBack(r) \/ CacheExpiry(r)
      PROVE  G
  BY <1>6, <1>1 DEF WriteHash, SetExpiry, MarkDirty, Lookup, CacheBack,
     CacheExpiry, GoTo, Moves, End
<1>7. ASSUME NEW r \in Requests,
             DeleteDocument(r) \/ DeleteHash(r) \/ DeleteMark(r) \/ RequestFails(r)
      PROVE  G
  BY <1>7, <1>1 DEF DeleteDocument, DeleteHash, DeleteMark, RequestFails, GoTo,
     Moves, End
<1>8. CASE HashExpires \/ Sync \/ PassFails \/ UNCHANGED vars
  <2>1. stage' = stage
    BY <1>8 DEF HashExpires, Sync, PassFails, StartPass, TakeKey, DropMark,
       ReadPlace, ReadVersion, WriteDocument, Unmark, vars, reqVars
  <2> QED
    BY <2>1 DEF Over
<1> QED
  BY <1>2, <1>3, <1>4, <1>5, <1>6, <1>7, <1>8 DEF Next, Proceed

LEMMA SourcedInit == Init => Sourced
<1> SUFFICES ASSUME Init PROVE Sourced
  OBVIOUS
<1>1. hash.place \in {Before, Nowhere} /\ mongo.place \in {Before, Nowhere}
  BY DEF Init, NoPosition
<1> QED
  BY <1>1 DEF Init, Sourced, At, NoPosition

LEMMA SourcedStep == TypeOK /\ Sourced /\ [Next]_vars => Sourced'
<1> SUFFICES ASSUME TypeOK, Sourced, [Next]_vars PROVE Sourced'
  OBVIOUS
<1> DEFINE Known == Over \cup {Before, Nowhere}
<1>1. Over \subseteq Over'
  BY OverGrows
<1>2. /\ hash.place \in Known' /\ mongo.place \in Known'
      /\ worker.read.place \in Known'
      /\ \A r \in Requests : found[r].place \in Known'
      /\ Nowhere \in Known'
  BY <1>1 DEF Sourced
<1>3. hash'.place \in Known'
  <2>1. ASSUME NEW r \in Requests, WriteHash(r) PROVE hash'.place \in Known'
    <3>1. hash'.place = r /\ stage' = [stage EXCEPT ![r] = "expire"]
      BY <2>1 DEF WriteHash, PutHash, Moves, GoTo
    <3>2. Over' = Over \cup {r}
      BY <3>1, MovingOver
    <3> QED
      BY <3>1, <3>2
  <2>2. ASSUME NEW r \in Requests, CacheBack(r) PROVE hash'.place \in Known'
    BY <2>2, <1>2 DEF CacheBack, PutHash
  <2>3. CASE hash' \in {hash, NoPosition}
    BY <2>3, <1>2 DEF NoPosition
  <2> QED
    BY <2>1, <2>2, <2>3
    DEF Next, Proceed, Sync, storeVars, vars, BeginSave, BeginGet, BeginDelete,
        Begin, CheckRedis, CheckMongo, SetExpiry, MarkDirty, Lookup,
        CacheExpiry, DeleteDocument, DeleteHash, DeleteMark, RequestFails,
        HashExpires, StartPass, TakeKey, DropMark, ReadPlace, ReadVersion,
        WriteDocument, Unmark, PassFails
<1>4. mongo'.place \in Known'
  <2>1. CASE WriteDocument
    BY <2>1, <1>2 DEF WriteDocument
  <2>2. CASE mongo' \in {mongo, NoPosition}
    BY <2>2, <1>2 DEF NoPosition
  <2> QED
    BY <2>1, <2>2
    DEF Next, Proceed, Sync, storeVars, vars, BeginSave, BeginGet, BeginDelete,
        Begin, CheckRedis, CheckMongo, WriteHash, SetExpiry, MarkDirty, Lookup,
        CacheBack, CacheExpiry, DeleteDocument, DeleteHash, DeleteMark,
        RequestFails, HashExpires, StartPass, TakeKey, DropMark, ReadPlace,
        ReadVersion, Unmark, PassFails
<1>5. worker'.read.place \in Known'
  <2>1. CASE ReadPlace
    BY <2>1, <1>2 DEF ReadPlace, At, NoPosition
  <2>2. CASE ReadVersion
    BY <2>2, <1>2 DEF ReadVersion
  <2>3. CASE \E s : worker' = At(s)
    BY <2>3, <1>2 DEF At, NoPosition
  <2>4. CASE worker' = worker
    BY <2>4, <1>2
  <2> QED
    BY <2>1, <2>2, <2>3, <2>4
    DEF Next, Proceed, Sync, storeVars, vars, BeginSave, BeginGet, BeginDelete,
        Begin, CheckRedis, CheckMongo, WriteHash, SetExpiry, MarkDirty, Lookup,
        CacheBack, CacheExpiry, DeleteDocument, DeleteHash, DeleteMark,
        RequestFails, HashExpires, StartPass, TakeKey, DropMark,
        WriteDocument, Unmark, PassFails
<1>6. \A r \in Requests : found'[r].place \in Known'
  <2>1. ASSUME NEW r \in Requests, NEW p \in {mongo, NoPosition},
               found' = [found EXCEPT ![r] = p]
        PROVE  \A s \in Requests : found'[s].place \in Known'
    BY <2>1, <1>2 DEF TypeOK, NoPosition
  <2>2. CASE found' = found
    BY <2>2, <1>2
  <2>3. ASSUME NEW r \in Requests, CheckRedis(r) \/ CheckMongo(r) \/ Lookup(r)
        PROVE  \A s \in Requests : found'[s].place \in Known'
    BY <2>1, <2>2, <2>3 DEF CheckRedis, CheckMongo, Lookup, Moves, End
  <2>4. ASSUME NEW r \in Requests,
               MarkDirty(r) \/ CacheExpiry(r) \/ DeleteMark(r) \/ RequestFails(r)
        PROVE  \A s \in Requests : found'[s].place \in Known'
    BY <2>1, <2>4 DEF MarkDirty, CacheExpiry, DeleteMark, RequestFails, End
  <2>5. ASSUME NEW r \in Requests,
               \/ \E v \in Versions : BeginSave(r, v)
               \/ BeginGet(r) \/ BeginDelete(r) \/ WriteHash(r) \/ SetExpiry(r)
               \/ CacheBack(r) \/ DeleteDocument(r) \/ DeleteHash(r)
        PROVE  found' = found
    BY <2>5 DEF BeginSave, BeginGet, BeginDelete, Begin, WriteHash, SetExpiry,
       CacheBack, DeleteDocument, DeleteHash, Moves
  <2>6. CASE HashExpires \/ Sync \/ PassFails \/ UNCHANGED vars
    BY <2>6, <1>2 DEF HashExpires, Sync, PassFails, StartPass, TakeKey, DropMark,
       ReadPlace, ReadVersion, WriteDocument, Unmark, vars, reqVars
  <2> QED
    BY <2>2, <2>3, <2>4, <2>5, <2>6 DEF Next, Proceed
<1> QED
  BY <1>3, <1>4, <1>5, <1>6 DEF Sourced

\* A step in which the promise has lapsed, or lapses.
LEMMA AstrayStep ==
  ASSUME TypeOK, TypeOK', Sourced', [Next]_vars, disturbed # {} \/ disturbed' # {}
  PROVE  Reader!Astray
<1>1. Over' = Over \/ \E r \in Requests : r \notin Over /\ Over' = Over \cup {r}
  BY OverGrows
<1>2. Deleting' \subseteq Over'
  BY DEF Deleting, Over
<1>3. Opens' = NoPosition \/ Opens'.place \in Over' \cup {Before}
  <2>1. Opens' \in Stored /\ Opens'.place \in Over' \cup {Before, Nowhere}
    BY DEF Opens, TypeOK, Sourced
  <2> QED
    BY <2>1 DEF Stored, Position
<1>4. NoPosition = Reader!None
  BY DEF NoPosition, Reader!None
<1>5. (disturbed = {}) = FALSE \/ (disturbed' = {}) = FALSE
  OBVIOUS
<1> QED
  BY <1>1, <1>2, <1>3, <1>4, <1>5 DEF Reader!Astray, Reader!Used

\* A step of the reading progress while the promise stands is one of the
\* bookmark's steps, or none.
LEMMA KeptStep ==
  ASSUME OneDevice, SyncWithinTtl, TypeOK, ProgressInv, [Next]_vars,
         disturbed = {}, disturbed' = {}
  PROVE  [Reader!Next]_Reader!promised
<1> DEFINE G == [Reader!Next]_Reader!promised
           early == {"idle", "redis", "mongo", "write"}
<1>1. WellFormed /\ OneAtATime /\ Checked /\ VersionsInOrder /\ NothingLost
  BY DEF ProgressInv
<1>2. (disturbed = {}) = TRUE /\ (disturbed' = {}) = TRUE
  OBVIOUS
<1>3. NoPosition = Reader!None
  BY DEF NoPosition, Reader!None
<1>4. UNCHANGED <<hash, mongo>> => Opens' = Opens
  BY DEF Opens
<1>5. ASSUME Opens' = Opens, Over' = Over, Deleting' = Deleting PROVE G
  BY <1>2, <1>5 DEF Reader!promised
<1>6. Deleting \subseteq Over
  BY DEF Deleting, Over
\* The steps of a request that the reader does not see.
<1>7. ASSUME NEW r \in Requests, NEW q, stage' = [stage EXCEPT ![r] = q],
             \/ stage[r] \in early /\ q \in early
             \/ /\ stage[r] \notin early \cup {"delete", "deleteHash"}
                /\ q \notin early \cup {"delete", "deleteHash"},
             Opens' = Opens
      PROVE  G
  <2>1. CASE stage[r] \in early /\ q \in early
    <3>1. Over' = Over \ {r} /\ Deleting' = Deleting \ {r} /\ r \notin Over
      BY <1>7, <2>1, Moving, Standing
    <3> QED
      BY <1>5, <1>6, <1>7, <3>1
  <2>2. CASE stage[r] \notin early \cup {"delete", "deleteHash"}
    <3>1. Over' = Over \cup {r} /\ Deleting' = Deleting \ {r} /\ r \in Over /\ r \notin Deleting
      BY <1>7, <2>2, MovingOver, MovingDelete, Standing
    <3> QED
      BY <1>5, <1>7, <3>1
  <2> QED
    BY <1>7, <2>1, <2>2
\* A request that will not write.
<1>8. ASSUME NEW r \in Requests, NEW q, stage' = [stage EXCEPT ![r] = q],
             stage[r] \in early, q \notin early \cup {"delete", "deleteHash"},
             Opens' = Opens
      PROVE  G
  <2>1. Over' = Over \cup {r} /\ Deleting' = Deleting \ {r} /\ r \notin Over
    BY <1>8, MovingOver, MovingDelete, Standing
  <2>2. Reader!GiveUp(r)
    BY <1>2, <1>6, <1>8, <2>1 DEF Reader!GiveUp, Reader!Used
  <2> QED
    BY <2>2 DEF Reader!Next
<1>9. ASSUME NEW r \in Requests, NEW v \in Versions, BeginSave(r, v) PROVE G
  BY <1>4, <1>7, <1>9 DEF BeginSave, Begin, GoTo, storeVars
<1>10. ASSUME NEW r \in Requests, BeginGet(r) PROVE G
  BY <1>4, <1>8, <1>10 DEF BeginGet, Begin, GoTo, storeVars
<1>11. ASSUME NEW r \in Requests, BeginDelete(r) PROVE G
  <2>1. /\ stage[r] = "idle" /\ stage' = [stage EXCEPT ![r] = "delete"]
        /\ Opens' = Opens
    BY <1>4, <1>11 DEF BeginDelete, Begin, GoTo, storeVars
  <2>2. Over' = Over \cup {r} /\ Deleting' = Deleting \cup {r} /\ r \notin Over
    BY <2>1, MovingOver, MovingDelete, Standing
  <2>3. Reader!BeginDelete(r)
    BY <1>2, <2>1, <2>2 DEF Reader!BeginDelete, Reader!Used
  <2> QED
    BY <2>3 DEF Reader!Next
<1>12. ASSUME NEW r \in Requests, CheckRedis(r) PROVE G
  BY <1>4, <1>7, <1>8, <1>12 DEF CheckRedis, GoTo, Moves, End, storeVars
<1>13. ASSUME NEW r \in Requests, CheckMongo(r) PROVE G
  BY <1>4, <1>7, <1>8, <1>13 DEF CheckMongo, GoTo, Moves, storeVars
<1>14. ASSUME NEW r \in Requests, WriteHash(r) PROVE G
  <2>1. /\ stage[r] = "write" /\ stage' = [stage EXCEPT ![r] = "expire"]
        /\ hash' = [place |-> r, version |-> version[r]] /\ mongo' = mongo
    BY <1>14 DEF WriteHash, Moves, GoTo, PutHash
  <2>2. Over' = Over \cup {r} /\ Deleting' = Deleting \ {r} /\ r \notin Over
    BY <2>1, MovingOver, MovingDelete, Standing
  <2>3. version[r] \in Versions /\ version[r] >= Opens.version
    BY <1>1, <2>1 DEF WellFormed, Checked, VersionsInOrder, Opens
  <2>4. Opens' = [place |-> r, version |-> version[r]]
    BY <2>1 DEF Opens, NoPosition
  <2>5. Reader!Save(r, version[r])
    BY <1>2, <1>6, <2>2, <2>3, <2>4 DEF Reader!Save, Reader!Used
  <2> QED
    BY <2>3, <2>5 DEF Reader!Next
<1>15. ASSUME NEW r \in Requests, SetExpiry(r) \/ MarkDirty(r) \/ CacheExpiry(r)
       PROVE  G
  BY <1>4, <1>7, <1>15 DEF SetExpiry, MarkDirty, CacheExpiry, GoTo, Moves, End
<1>16. ASSUME NEW r \in Requests, Lookup(r) PROVE G
  BY <1>4, <1>7, <1>16 DEF Lookup, GoTo, End, storeVars
<1>17. ASSUME NEW r \in Requests, CacheBack(r) PROVE G
  <2>1. hash = NoPosition /\ hash' = mongo /\ mongo' = mongo
    BY <1>1, <1>17 DEF CacheBack, Moves, PutHash, NothingLost
  <2>2. Opens' = Opens
    BY <2>1 DEF Opens
  <2> QED
    BY <1>7, <1>17, <2>2 DEF CacheBack, Moves, GoTo
<1>18. ASSUME NEW r \in Requests, DeleteDocument(r) PROVE G
  <2>1. /\ stage[r] = "delete" /\ stage' = [stage EXCEPT ![r] = "deleteHash"]
        /\ mongo' = NoPosition /\ hash' = hash
    BY <1>18 DEF DeleteDocument, Moves, GoTo
  <2>2. Over' = Over \cup {r} /\ Deleting' = Deleting \cup {r}
        /\ r \in Over /\ r \in Deleting
    BY <2>1, MovingOver, MovingDelete, Standing
  <2>3. CASE hash = NoPosition
    <3>1. Opens' = NoPosition
      BY <2>1, <2>3 DEF Opens
    <3>2. Reader!TakeOut
      BY <1>2, <1>3, <2>2, <3>1 DEF Reader!TakeOut
    <3> QED
      BY <3>2 DEF Reader!Next
  <2>4. CASE hash # NoPosition
    <3>1. Opens' = Opens
      BY <2>1, <2>4 DEF Opens
    <3> QED
      BY <1>5, <2>2, <3>1
  <2> QED
    BY <2>3, <2>4
<1>19. ASSUME NEW r \in Requests, DeleteHash(r) PROVE G
  <2>1. /\ stage[r] = "deleteHash" /\ stage' = [stage EXCEPT ![r] = "deleteMark"]
        /\ mongo = NoPosition /\ mongo' = mongo /\ hash' = NoPosition
    BY <1>19 DEF DeleteHash, Moves, GoTo
  <2>2. Over' = Over \cup {r} /\ Deleting' = Deleting \ {r}
        /\ r \in Over /\ r \in Deleting
    BY <2>1, MovingOver, MovingDelete, Standing
  <2>3. Opens' = NoPosition
    BY <2>1 DEF Opens
  <2>4. Reader!EndDelete(r)
    BY <1>2, <1>3, <2>2, <2>3 DEF Reader!EndDelete
  <2> QED
    BY <2>4 DEF Reader!Next
<1>20. ASSUME NEW r \in Requests, DeleteMark(r) PROVE G
  BY <1>4, <1>7, <1>20 DEF DeleteMark, GoTo, End
<1>21. ASSUME NEW r \in Requests, RequestFails(r) PROVE G
  <2>1. /\ Served(r) /\ stage' = [stage EXCEPT ![r] = "failed"]
        /\ Opens' = Opens
        /\ stage[r] # "deleteHash"
    BY <1>4, <1>21 DEF RequestFails, End, GoTo, storeVars
  <2>2. CASE stage[r] = "delete"
    <3>1. Over' = Over \cup {r} /\ Deleting' = Deleting \ {r}
          /\ r \in Over /\ r \in Deleting
      BY <2>1, <2>2, MovingOver, MovingDelete, Standing
    <3>2. Reader!AbandonDelete(r)
      BY <1>2, <2>1, <3>1 DEF Reader!AbandonDelete
    <3> QED
      BY <3>2 DEF Reader!Next
  <2>3. CASE stage[r] \in early
    BY <1>8, <2>1, <2>3
  <2>4. CASE stage[r] \notin early \cup {"delete", "deleteHash"}
    BY <1>7, <2>1, <2>4
  <2> QED
    BY <2>1, <2>2, <2>3, <2>4
<1>22. CASE HashExpires
  <2>1. /\ hash' = NoPosition /\ mongo' = mongo /\ stage' = stage /\ ~dirty
        /\ ~\E r \in Requests : stage[r] \in {"expire", "mark"}
    BY <1>22 DEF HashExpires, reqVars
  <2>2. Over' = Over /\ Deleting' = Deleting
    BY <2>1 DEF Over, Deleting
  <2>3. CASE hash \in {NoPosition, mongo}
    <3>1. Opens' = Opens
      BY <2>1, <2>3 DEF Opens
    <3> QED
      BY <1>5, <2>2, <3>1
  <2>4. ASSUME NEW r \in Requests, stage[r] = "deleteHash", hash \notin {NoPosition, mongo}
        PROVE  G
    <3>1. mongo = NoPosition
      BY <1>1, <2>4 DEF NothingLost
    <3>2. r \in Deleting
      BY <2>4 DEF Deleting
    <3>3. Opens' = NoPosition
      BY <2>1, <3>1 DEF Opens
    <3>4. Reader!TakeOut
      BY <1>2, <1>3, <2>2, <3>2, <3>3 DEF Reader!TakeOut
    <3> QED
      BY <3>4 DEF Reader!Next
  <2> QED
    BY <1>1, <2>1, <2>3, <2>4 DEF NothingLost
<1>23. CASE WriteDocument
  <2>1. hash # NoPosition /\ hash' = hash /\ stage' = stage
    BY <1>1, <1>23 DEF WriteDocument, VersionsInOrder, reqVars
  <2>2. Opens' = Opens /\ Over' = Over /\ Deleting' = Deleting
    BY <2>1 DEF Opens, Over, Deleting
  <2> QED
    BY <1>5, <2>2
<1>24. CASE \/ StartPass \/ TakeKey \/ DropMark \/ ReadPlace \/ ReadVersion
            \/ Unmark \/ PassFails \/ UNCHANGED vars
  <2>1. UNCHANGED <<hash, mongo, stage>>
    BY <1>24 DEF StartPass, TakeKey, DropMark, ReadPlace, ReadVersion, Unmark,
       PassFails, vars, storeVars, reqVars
  <2>2. Opens' = Opens /\ Over' = Over /\ Deleting' = Deleting
    BY <2>1 DEF Opens, Over, Deleting
  <2> QED
    BY <1>5, <2>2
<1> QED
  BY <1>9, <1>10, <1>11, <1>12, <1>13, <1>14, <1>15, <1>16, <1>17, <1>18, <1>19,
     <1>20, <1>21, <1>22, <1>23, <1>24
  DEF Next, Proceed, Sync

LEMMA BookmarkInit == Init => Reader!Init
<1> SUFFICES ASSUME Init PROVE Reader!Init
  OBVIOUS
<1>1. Opens \in {NoPosition} \cup [place : {Before}, version : Versions]
  BY DEF Init, Opens
<1>2. Over = {} /\ Deleting = {}
  BY DEF Init, Over, Deleting
<1>3. (disturbed = {}) = TRUE
  BY DEF Init
<1> QED
  BY <1>1, <1>2, <1>3 DEF Reader!Init, Reader!None, NoPosition

\* A member who reads on one device finds the book open where it was last
\* left: cache, database, worker, expiry and failures keep the promise of a
\* bookmark, but for the races and the cuts that disturbed records.
THEOREM BookmarkHolds ==
  ASSUME OneDevice, SyncWithinTtl
  PROVE  Spec => BookmarkSpec
<1> DEFINE Inv == TypeOK /\ ProgressInv /\ Sourced
<1>1. Init => Inv /\ Reader!Init
  BY TypeInit, InvInit, SourcedInit, BookmarkInit
<1>2. Inv /\ [Next]_vars => Inv'
  BY TypeStep, InvStep, SourcedStep DEF ProgressInv
<1>3. Inv /\ Inv' /\ [Next]_vars => [Reader!Next]_Reader!promised
  <2> SUFFICES ASSUME Inv, Inv', [Next]_vars PROVE [Reader!Next]_Reader!promised
    OBVIOUS
  <2>1. CASE disturbed = {} /\ disturbed' = {}
    BY <2>1, KeptStep
  <2>2. CASE disturbed # {} \/ disturbed' # {}
    <3>1. Reader!Astray
      BY <2>2, AstrayStep
    <3> QED
      BY <3>1 DEF Reader!Next
  <2> QED
    BY <2>1, <2>2
<1> QED
  BY <1>1, <1>2, <1>3, PTL DEF Spec, BookmarkSpec, Reader!Spec
=============================================================================
