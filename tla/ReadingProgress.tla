--------------------------- MODULE ReadingProgress ---------------------------
(***************************************************************************)
(* Where a member stopped reading a book: ReadingProgressService in front  *)
(* of a Redis hash, and the ReadingProgressSyncWorker that carries marked  *)
(* hashes to MongoDB every 30 seconds.                                     *)
(*                                                                         *)
(* The module follows one (user, book) key.  No handler touches two keys,  *)
(* and the other keys of a worker's pass only make it longer, or end it    *)
(* with their exception.                                                   *)
(*                                                                         *)
(* A position is the version the client gave it and its place, which       *)
(* stands for the other six fields and is named after the request that     *)
(* sent it.  An action is the code between two awaits.  HSET writes all    *)
(* fields at once, but the worker reads them by seven HGETs; two reads, of *)
(* the place and of the version, show what can happen between them.        *)
(*                                                                         *)
(* Left out: the buffer endpoints (progress/buffer, progress/flush), which *)
(* no page calls and which write the document without looking at versions. *)
(***************************************************************************)
EXTENDS Integers

CONSTANTS
  Requests,    \* save, get and delete requests, each served once
  Before,      \* the place saved before the first of these requests
  Nowhere,     \* no place
  MaxVersion,  \* bound: versions a client sends
  MaxFaults    \* bound: requests and worker passes that are cut short

\* What is assumed of clients and of the deployment.
CONSTANTS
  OneDevice,     \* requests for the key are served one after the other
  SyncWithinTtl  \* a hash the worker has to sync, or is syncing, does not
                 \* reach the end of its 7 days

ASSUME ProgressAssumption ==
  /\ Before \notin Requests /\ Nowhere \notin Requests /\ Before # Nowhere
  /\ MaxVersion \in Nat \ {0} /\ MaxFaults \in Nat
  /\ {OneDevice, SyncWithinTtl} \subseteq BOOLEAN

VARIABLES
  hash,      \* the Redis hash reading_progress:{userId}:{bookId}
  ttl,       \* it has an expiry
  dirty,     \* reading_progress:dirty holds the key
  mongo,     \* the document in collection reading_progress
  stage,     \* where each request is
  version,   \* dto.Version of a save
  found,     \* the MongoDB document a request read
  worker,    \* the worker's pass: its step and what it read of the hash
  disturbed, \* history: what fell into a pass, was cut short or expired unmarked
  overtaken, \* history: requests whose look at the hash another one has outdated
  faults

storeVars == <<hash, ttl, dirty, mongo>>
reqVars == <<stage, version, found>>
vars == <<storeVars, reqVars, worker, disturbed, overtaken, faults>>

Versions == 1..MaxVersion
Position == [place : Requests \cup {Before}, version : Versions]
NoPosition == [place |-> Nowhere, version |-> 0]
Stored == Position \cup {NoPosition}

Ended == {"done", "refused", "failed"}
Served(r) == stage[r] \notin {"idle"} \cup Ended
InFlight == \E r \in Requests : Served(r)

\* The worker has looked at the hash in this pass and is not done with it.
WorkerHolds == worker.step \in {"drop", "place", "version", "write", "unmark"}

At(step) == [step |-> step, read |-> NoPosition]

TypeOK ==
  /\ hash \in Stored /\ mongo \in Stored
  /\ ttl \in BOOLEAN /\ dirty \in BOOLEAN
  /\ stage \in [Requests ->
       {"idle", "redis", "mongo", "write", "expire", "mark", "lookup", "back",
        "backExpire", "delete", "deleteHash", "deleteMark"} \cup Ended]
  /\ version \in [Requests -> 0..MaxVersion]
  /\ found \in [Requests -> Stored]
  /\ worker \in [step : {"rest", "next", "drop", "place", "version", "write",
                         "unmark"},
                 read : [place : Requests \cup {Before, Nowhere},
                         version : 0..MaxVersion]]
  /\ disturbed \subseteq {"save", "delete"}
  /\ overtaken \subseteq Requests
  /\ faults \in 0..MaxFaults

\* What was saved before is in MongoDB or still marked in Redis.
Init ==
  /\ \/ /\ mongo \in {NoPosition} \cup [place : {Before}, version : Versions]
        /\ hash = NoPosition /\ ttl = FALSE /\ dirty = FALSE
     \/ /\ mongo = NoPosition
        /\ hash \in [place : {Before}, version : Versions]
        /\ ttl = TRUE /\ dirty = TRUE
  /\ stage = [r \in Requests |-> "idle"]
  /\ version = [r \in Requests |-> 0]
  /\ found = [r \in Requests |-> NoPosition]
  /\ worker = At("rest")
  /\ disturbed = {}
  /\ overtaken = {}
  /\ faults = 0

(***************************************************************************)
(* Requests                                                                *)
(***************************************************************************)
GoTo(r, s) == stage' = [stage EXCEPT ![r] = s]

\* A request that has reached s goes on to t.
Moves(r, s, t) == stage[r] = s /\ GoTo(r, t) /\ UNCHANGED <<version, found>>

\* Requests that have looked at the hash and have yet to write it.
HasLooked(r) == stage[r] \in {"mongo", "write", "lookup", "back"}
Overtakes(r) ==
  overtaken' = overtaken \cup {s \in Requests \ {r} : HasLooked(s)}

\* The request is over and its memory gone.
End(r, how) ==
  /\ GoTo(r, how)
  /\ version' = [version EXCEPT ![r] = 0]
  /\ found' = [found EXCEPT ![r] = NoPosition]
  /\ overtaken' = overtaken \ {r}

Begin(r, first) ==
  /\ stage[r] = "idle"
  /\ OneDevice => ~InFlight
  /\ GoTo(r, first)
  /\ UNCHANGED <<found, storeVars, worker, disturbed, overtaken, faults>>

\* SaveProgressAsync, its book and chapter found.
BeginSave(r, v) ==
  /\ Begin(r, "redis")
  /\ version' = [version EXCEPT ![r] = v]

\* Mutant: the version of the hash is not looked at.
SkipRedisVersion(r) ==
  /\ Moves(r, "redis", "mongo")
  /\ UNCHANGED <<storeVars, worker, disturbed, overtaken, faults>>

\* A hash with a higher version refuses the save and is the answer.
CheckRedis(r) ==
  /\ stage[r] = "redis"
  /\ \/ version[r] < hash.version /\ End(r, "refused")
     \/ /\ version[r] >= hash.version /\ Moves(r, "redis", "mongo")
        /\ UNCHANGED overtaken
  /\ UNCHANGED <<storeVars, worker, disturbed, faults>>

\* Mutant: the version in MongoDB is not looked at.
SkipMongoVersion(r) ==
  /\ Moves(r, "mongo", "write")
  /\ UNCHANGED <<storeVars, worker, disturbed, overtaken, faults>>

\* A document with a higher version refuses the save and goes to the cache.
CheckMongo(r) ==
  /\ stage[r] = "mongo"
  /\ \/ /\ version[r] < mongo.version
        /\ GoTo(r, "back")
        /\ found' = [found EXCEPT ![r] = mongo]
        /\ UNCHANGED version
     \/ version[r] >= mongo.version /\ Moves(r, "mongo", "write")
  /\ UNCHANGED <<storeVars, worker, disturbed, overtaken, faults>>

\* HSET keeps the expiry of a hash and gives a new one none.
PutHash(position) ==
  /\ hash' = position
  /\ ttl' = (hash # NoPosition /\ ttl)

\* A save may fall into a pass, which may then take away its mark unread.
WriteHash(r) ==
  /\ Moves(r, "write", "expire")
  /\ PutHash([place |-> r, version |-> version[r]])
  /\ Overtakes(r)
  /\ disturbed' = disturbed \cup IF WorkerHolds THEN {"save"} ELSE {}
  /\ UNCHANGED <<dirty, mongo, worker, faults>>

SetExpiry(r) ==
  /\ Moves(r, "expire", "mark")
  /\ ttl' = (hash # NoPosition)
  /\ UNCHANGED <<hash, dirty, mongo, worker, disturbed, overtaken, faults>>

\* Mutant: the save ends without a mark.
ForgetMark(r) ==
  /\ stage[r] = "mark"
  /\ End(r, "done")
  /\ UNCHANGED <<storeVars, worker, disturbed, faults>>

MarkDirty(r) ==
  /\ stage[r] = "mark"
  /\ dirty' = TRUE
  /\ disturbed' = IF WorkerHolds THEN disturbed ELSE disturbed \ {"save"}
  /\ End(r, "done")
  /\ UNCHANGED <<hash, ttl, mongo, worker, faults>>

\* GetProgressAsync: a hash is the answer, otherwise MongoDB is asked.
BeginGet(r) ==
  /\ hash = NoPosition
  /\ Begin(r, "lookup")
  /\ UNCHANGED version

Lookup(r) ==
  /\ stage[r] = "lookup"
  /\ \/ mongo = NoPosition /\ End(r, "done")
     \/ /\ mongo # NoPosition
        /\ GoTo(r, "back")
        /\ found' = [found EXCEPT ![r] = mongo]
        /\ UNCHANGED <<version, overtaken>>
  /\ UNCHANGED <<storeVars, worker, disturbed, faults>>

\* SaveProgressToRedisCacheAsync: what was read from MongoDB, without a mark.
CacheBack(r) ==
  /\ Moves(r, "back", "backExpire")
  /\ PutHash(found[r])
  /\ Overtakes(r)
  /\ UNCHANGED <<dirty, mongo, worker, disturbed, faults>>

CacheExpiry(r) ==
  /\ stage[r] = "backExpire"
  /\ ttl' = (hash # NoPosition)
  /\ End(r, "done")
  /\ UNCHANGED <<hash, dirty, mongo, worker, disturbed, faults>>

\* DeleteProgressAsync: document, hash, mark.
BeginDelete(r) ==
  /\ Begin(r, "delete")
  /\ UNCHANGED version

DeleteDocument(r) ==
  /\ Moves(r, "delete", "deleteHash")
  /\ mongo' = NoPosition
  /\ UNCHANGED <<hash, ttl, dirty, worker, disturbed, overtaken, faults>>

\* A pass that read the hash before writes the document again.
DeleteHash(r) ==
  /\ Moves(r, "deleteHash", "deleteMark")
  /\ hash' = NoPosition /\ ttl' = FALSE
  /\ disturbed' = IF WorkerHolds \/ mongo # NoPosition
                  THEN disturbed \cup {"delete"} ELSE {}
  /\ UNCHANGED <<dirty, mongo, worker, overtaken, faults>>

DeleteMark(r) ==
  /\ stage[r] = "deleteMark"
  /\ dirty' = FALSE
  /\ End(r, "done")
  /\ UNCHANGED <<hash, ttl, mongo, worker, disturbed, faults>>

\* An await throws or the process dies.  A save that has written the hash
\* leaves it unmarked; a deletion leaves the hash of a deleted document.
RequestFails(r) ==
  /\ Served(r) /\ faults < MaxFaults
  /\ faults' = faults + 1
  /\ disturbed' = disturbed
       \cup (IF stage[r] \in {"expire", "mark"} THEN {"save"} ELSE {})
       \cup (IF stage[r] = "deleteHash" THEN {"delete"} ELSE {})
  /\ End(r, "failed")
  /\ UNCHANGED <<storeVars, worker>>

\* The 7 days are over, perhaps of an older hash that a save has just written
\* to and not yet given 7 more.
HashExpires ==
  /\ ttl
  /\ SyncWithinTtl => ~dirty /\ worker.step = "rest"
  /\ hash' = NoPosition /\ ttl' = FALSE
  /\ disturbed' = disturbed \cup
       IF \E r \in Requests : stage[r] \in {"expire", "mark"} THEN {"save"} ELSE {}
  /\ UNCHANGED <<dirty, mongo, reqVars, worker, overtaken, faults>>

(***************************************************************************)
(* ReadingProgressSyncWorker                                               *)
(***************************************************************************)
\* SMEMBERS finds the key.
StartPass ==
  /\ worker.step = "rest" /\ dirty
  /\ worker' = At("next")
  /\ UNCHANGED <<storeVars, reqVars, disturbed, overtaken, faults>>

\* EXISTS.
TakeKey ==
  /\ worker.step = "next"
  /\ worker' = At(IF hash = NoPosition THEN "drop" ELSE "place")
  /\ UNCHANGED <<storeVars, reqVars, disturbed, overtaken, faults>>

\* A mark without a hash is removed.
DropMark ==
  /\ worker.step = "drop"
  /\ dirty' = FALSE
  /\ worker' = At("rest")
  /\ UNCHANGED <<hash, ttl, mongo, reqVars, disturbed, overtaken, faults>>

\* HGET of the chapter and the rest; a hash gone meanwhile is skipped.
ReadPlace ==
  /\ worker.step = "place"
  /\ \/ hash = NoPosition /\ worker' = At("rest")
     \/ /\ hash # NoPosition
        /\ worker' = [step |-> "version",
                      read |-> [place |-> hash.place, version |-> 0]]
  /\ UNCHANGED <<storeVars, reqVars, disturbed, overtaken, faults>>

\* Mutant: the mark is removed before the document is written.
ReadAndUnmark ==
  /\ worker.step = "version" /\ hash # NoPosition
  /\ worker' = [step |-> "write",
                read |-> [place |-> worker.read.place, version |-> hash.version]]
  /\ dirty' = FALSE
  /\ UNCHANGED <<hash, ttl, mongo, reqVars, disturbed, overtaken, faults>>

\* HGET of the version; 1 when the hash has gone.
ReadVersion ==
  /\ worker.step = "version"
  /\ worker' = [step |-> "write",
                read |-> [place |-> worker.read.place,
                          version |-> IF hash = NoPosition THEN 1
                                      ELSE hash.version]]
  /\ UNCHANGED <<storeVars, reqVars, disturbed, overtaken, faults>>

\* The upsert of the BulkWrite, whatever version the document has.
WriteDocument ==
  /\ worker.step = "write"
  /\ mongo' = worker.read
  /\ worker' = At("unmark")
  /\ UNCHANGED <<hash, ttl, dirty, reqVars, disturbed, overtaken, faults>>

\* SREM, whatever was marked meanwhile.
Unmark ==
  /\ worker.step = "unmark"
  /\ dirty' = FALSE
  /\ worker' = At("rest")
  /\ UNCHANGED <<hash, ttl, mongo, reqVars, disturbed, overtaken, faults>>

\* An await throws, of this key or another one's, or the process dies: the
\* next pass starts over.
PassFails ==
  /\ worker.step # "rest" /\ faults < MaxFaults
  /\ faults' = faults + 1
  /\ worker' = At("rest")
  /\ UNCHANGED <<storeVars, reqVars, disturbed, overtaken>>

(***************************************************************************)
(* Specification                                                           *)
(***************************************************************************)
Proceed(r) ==
  \/ CheckRedis(r) \/ CheckMongo(r) \/ WriteHash(r) \/ SetExpiry(r)
  \/ MarkDirty(r) \/ Lookup(r) \/ CacheBack(r) \/ CacheExpiry(r)
  \/ DeleteDocument(r) \/ DeleteHash(r) \/ DeleteMark(r)

Sync ==
  \/ StartPass \/ TakeKey \/ DropMark \/ ReadPlace \/ ReadVersion
  \/ WriteDocument \/ Unmark

Next ==
  \/ \E r \in Requests :
       \/ \E v \in Versions : BeginSave(r, v)
       \/ BeginGet(r)
       \/ BeginDelete(r)
       \/ Proceed(r)
       \/ RequestFails(r)
  \/ HashExpires
  \/ Sync
  \/ PassFails

Spec == Init /\ [][Next]_vars

\* A request that is being served goes on, and the worker's loop goes round;
\* no client has to send anything, and no hash has to expire.
FairSpec ==
  /\ Spec
  /\ \A r \in Requests : WF_vars(Proceed(r))
  /\ WF_vars(Sync)

(***************************************************************************)
(* Properties                                                              *)
(***************************************************************************)
\* A hash never goes back to a lower version: SaveProgressAsync compares the
\* version with Redis and with MongoDB before it writes, and what GET or a
\* refused save puts back into the cache is never older than what is there.
HashVersionsRise ==
  [][hash # NoPosition /\ hash' # NoPosition
       => hash'.version >= hash.version]_vars

\* Requests come as they like, of one device or of several: the hash goes back
\* to a lower version only by the hand of a save or a cache refill that looked
\* at it before another request wrote it.  Whatever else happens between its
\* look and its write - deletions, expiry, the worker, failures - the versions
\* SaveProgressAsync compares, and the empty hash GetProgressAsync found, are
\* guard enough.
RollbackNeedsOverlap ==
  [][hash # NoPosition /\ hash' # NoPosition /\ hash'.version < hash.version
       => \E r \in overtaken : HasLooked(r) /\ ~HasLooked(r)']_vars

\* Nor does the document go back, although the worker upserts without looking
\* at the version it replaces and may have read the hash long before.  Only a
\* deletion that fell into a pass is different: the pass writes again what
\* was deleted, and a later save may be older than that.
DocumentVersionsRise ==
  [][mongo # NoPosition /\ mongo' # NoPosition /\ "delete" \notin disturbed
       => mongo'.version >= mongo.version]_vars

\* Versions rise in both stores.
VersionsRise == HashVersionsRise /\ DocumentVersionsRise

\* Whenever the hash differs from the document, the worker will hear of it:
\* what a save wrote, what a pass read, wrote and unmarked never leaves a
\* newer hash unmarked - unless the save fell into a pass or was cut short,
\* and then the next save makes up for it.
LossNeedsARace ==
  hash # NoPosition /\ ~InFlight /\ ~WorkerHolds /\ disturbed = {}
    => hash = mongo \/ dirty

\* What the project's README says of the worker: a hash that changed is in
\* the dirty set until it is in MongoDB, so nothing saved is left behind.
ChangedHashIsMarked ==
  hash # NoPosition /\ ~InFlight /\ ~WorkerHolds => hash = mongo \/ dirty

\* The cache is never behind the database, which is why GetProgressAsync may
\* answer from the hash without asking MongoDB.
CacheNotBehind ==
  hash # NoPosition /\ "delete" \notin disturbed
    => hash.version >= mongo.version

\* Where the book opens, which is what GetProgressAsync answers.
Opens == IF hash # NoPosition THEN hash ELSE mongo

\* Requests that will not save any more, and deletions that may still delete
\* something of what was there.
Over == {r \in Requests : stage[r] \notin {"idle", "redis", "mongo", "write"}}
Deleting == {r \in Requests : stage[r] \in {"delete", "deleteHash"}}

Reader == INSTANCE Bookmark
            WITH mark <- Opens, over <- Over, deleting <- Deleting,
                 kept <- disturbed = {}

\* The two stores, the awaits between them, the worker and their failures
\* keep the promise of a bookmark, but for a save or a deletion that falls
\* into a pass or is cut short.
BookmarkSpec == Reader!Spec

\* A save carries a version, and the worker writes what it has read.
WellFormed ==
  /\ \A r \in Requests :
       stage[r] \in {"redis", "mongo", "write"} => version[r] \in Versions
  /\ worker.step = "version" => worker.read.place # Nowhere
  /\ worker.step = "write" => worker.read \in Position

\* What a request has established of the hash still holds while it is alone.
Checked ==
  \A r \in Requests :
    /\ stage[r] \in {"mongo", "write"} => hash.version <= version[r]
    /\ stage[r] = "back" => hash.version <= found[r].version
    /\ stage[r] \in {"lookup", "deleteMark"} => hash = NoPosition

\* What a request has established of the hash holds until another writes it.
LookHolds ==
  \A r \in Requests \ overtaken :
    /\ stage[r] \in {"mongo", "write"} => hash.version <= version[r]
    /\ stage[r] = "back" => hash.version <= found[r].version
    /\ stage[r] = "lookup" => hash = NoPosition

\* Versions only grow from MongoDB to what the worker read, to the hash, to
\* what a request is about to write.
VersionsInOrder ==
  "delete" \notin disturbed =>
    /\ hash # NoPosition => mongo.version <= hash.version
    /\ worker.step \in {"place", "version", "write", "unmark"} => hash # NoPosition
    /\ worker.step = "write" =>
         mongo.version <= worker.read.version /\ worker.read.version <= hash.version
    /\ \A r \in Requests :
         /\ stage[r] = "write" => mongo.version <= version[r]
         /\ stage[r] = "back" => mongo.version <= found[r].version

\* What the hash is to the document, to the mark and to what the worker read.
NothingLost ==
  LET deleting == \E r \in Requests : stage[r] = "deleteHash"
  IN  disturbed = {} =>
        /\ \/ hash \in {NoPosition, mongo} \/ dirty \/ deleting
           \/ \E r \in Requests : stage[r] \in {"expire", "mark"}
        /\ worker.step = "version" => worker.read.place = hash.place
        /\ worker.step = "write" => worker.read = hash
        /\ worker.step = "unmark" => hash = mongo \/ deleting
        /\ worker.step = "drop" => hash \in {NoPosition, mongo} \/ deleting
        /\ \A r \in Requests :
             /\ stage[r] = "back" => hash = NoPosition /\ found[r] = mongo
             /\ stage[r] = "deleteHash" =>
                  mongo = NoPosition \/ hash \in {NoPosition, mongo}

\* Nothing is read or stored but what a save has written or was there before.
Sourced ==
  LET Known == Over \cup {Before, Nowhere}
  IN  /\ {hash.place, mongo.place, worker.read.place} \subseteq Known
      /\ \A r \in Requests : found[r].place \in Known

OneAtATime ==
  \A r, s \in Requests : Served(r) /\ Served(s) => r = s

\* Inductive when requests come one after the other and hashes outlive their
\* sync: it has LossNeedsARace and CacheNotBehind as consequences.
ProgressInv ==
  WellFormed /\ OneAtATime /\ Checked /\ VersionsInOrder /\ NothingLost

\* A marked position reaches MongoDB, or one at least as new does, or it was
\* deleted first; the races aside that LossNeedsARace names.
SavedReachesMongo ==
  \A v \in Versions :
    (dirty /\ hash.version = v)
      ~> mongo.version >= v \/ hash = NoPosition \/ disturbed # {}

\* Every mark is taken away some time, by the worker or a deletion.
MarksServed == dirty ~> ~dirty

\* The worker does both for whatever the requests leave behind.
SavesReachMongo == SavedReachesMongo /\ MarksServed
=============================================================================
