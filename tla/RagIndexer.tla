------------------------------ MODULE RagIndexer ------------------------------
(***************************************************************************)
(* The vector index of one bucket, kept in step with the bucket's objects. *)
(*                                                                         *)
(* A worker walks the bucket a page of its listing at a time, compares     *)
(* each object's ETag with the manifest, and writes the vectors of what    *)
(* changed and then its manifest entry.  It records a checkpoint after     *)
(* every page, so that a worker out of time, or killed, is taken up by the *)
(* next.  Only a walk from the first page to the last removes what it has  *)
(* not seen.  Nothing stops two workers from walking one bucket.           *)
(*                                                                         *)
(* Meanwhile objects are put and deleted, a member turns indexing on and   *)
(* off, and the organization may be deleted: its teardown destroys rows    *)
(* and index, and starts over when it fails.                               *)
(*                                                                         *)
(* An operator named Bug... is a definition broken on purpose, and no part *)
(* of Next.                                                                *)
(***************************************************************************)
EXTENDS Integers, FiniteSets

CONSTANTS
    Workers,      \* invocations that may be at work at once
    LastKey,      \* the bucket's keys are 1..LastKey, listed in that order
    LastVersion,  \* an object's contents are 1..LastVersion, its ETag is which
    Chunks,       \* how many chunks the text of a content has; 0 is no text
    MaxChunks,
    PageSize,     \* objects of a page of the listing
    Fresh,        \* whether an object never has an earlier content again
    Deletes,      \* whether the organization may be deleted
    MaxPuts,      \* puts and deletions of objects (a bound)
    MaxToggles,   \* requests that turn indexing on or off (a bound)
    MaxFaults     \* calls that fail, deaths and invocations out of time (a bound)

Keys == 1..LastKey
Versions == 1..LastVersion

ASSUME ConstantsAssumption ==
    /\ LastKey \in Nat /\ LastVersion \in Nat \ {0} /\ MaxChunks \in Nat
    /\ Chunks \in [Versions -> 0..MaxChunks]
    /\ PageSize \in Nat \ {0}
    /\ Fresh \in BOOLEAN /\ Deletes \in BOOLEAN
    /\ MaxPuts \in Nat /\ MaxToggles \in Nat /\ MaxFaults \in Nat

VARIABLES
    object,      \* the content under each key; 0 is none
    newest,      \* the latest content each key had (history)
    index,       \* whether the vector index exists
    vectors,     \* the content each chunk of the index is of; 0 is no chunk
    manifest,    \* the manifest rows
    checkpoint,  \* the checkpoint row
    row,         \* the enablement row
    org,         \* the organization: live, fenced, or torn down
    worker,      \* where each worker is, and what it has in memory
    absent,      \* keys without an object at some time of the walk (history)
    toggle,      \* a request that turns indexing on or off
    purge,       \* where the teardown is
    astray,      \* workers at work when the fence went up (history)
    puts, toggles, faults

vars == <<object, newest, index, vectors, manifest, checkpoint, row, org, worker,
          absent, toggle, purge, astray, puts, toggles, faults>>

bucketVars == <<object, newest, puts>>
storeVars == <<index, vectors>>
teardownVars == <<org, purge, astray>>
requestVars == <<toggle, toggles>>

\* A manifest row names the ETag listed and the chunk keys 1..chunks.
Entries == [etag : 0..LastVersion, chunks : 0..MaxChunks]
NoEntry == [etag |-> 0, chunks |-> 0]
Listed(entries) == {k \in Keys : entries[k] # NoEntry}

\* A token is the last key of a page; a checkpoint row without one has 0.
NoCheckpoint == -1
Tokens == 0..LastKey

Rows == [exists : BOOLEAN, active : BOOLEAN, sync : {"never", "syncing", "idle", "error"}]
NoRow == [exists |-> FALSE, active |-> FALSE, sync |-> "never"]

Stages == {"idle", "fence", "ensure", "mark", "load", "resume", "page", "object",
           "drop", "read", "forget", "upsert", "save", "next", "remove", "unchunk",
           "unlist", "clear", "tell", "error"}

\* page has what is left of the page and etag what it listed; key is the object
\* at hand and bytes its content; left has what is to be removed.
Walks == [pc : Stages, entries : [Keys -> Entries], token : Tokens, full : BOOLEAN,
          seen : SUBSET Keys, page : SUBSET Keys, etag : [Keys -> 0..LastVersion],
          next : Tokens, key : 0..LastKey, bytes : 0..LastVersion, left : SUBSET Keys]

NoWalk == [pc |-> "idle", entries |-> [k \in Keys |-> NoEntry], token |-> 0,
           full |-> FALSE, seen |-> {}, page |-> {}, etag |-> [k \in Keys |-> 0],
           next |-> 0, key |-> 0, bytes |-> 0, left |-> {}]

TypeOK ==
    /\ object \in [Keys -> 0..LastVersion] /\ newest \in [Keys -> 0..LastVersion]
    /\ index \in BOOLEAN
    /\ vectors \in [Keys -> [1..MaxChunks -> 0..LastVersion]]
    /\ manifest \in [Keys -> Entries]
    /\ checkpoint \in {NoCheckpoint} \cup Tokens
    /\ row \in Rows
    /\ org \in {"live", "fenced", "gone"}
    /\ worker \in [Workers -> Walks]
    /\ absent \in [Workers -> SUBSET Keys]
    /\ toggle \in [pc : {"idle", "write"}, read : Rows, active : BOOLEAN]
    /\ purge \in [pc : {"idle", "rows", "row", "checkpoint", "index"}, left : SUBSET Keys]
    /\ astray \subseteq Workers
    /\ puts \in 0..MaxPuts /\ toggles \in 0..MaxToggles /\ faults \in 0..MaxFaults

Init ==
    /\ object = [k \in Keys |-> 1] /\ newest = object
    /\ index = FALSE
    /\ vectors = [k \in Keys |-> [i \in 1..MaxChunks |-> 0]]
    /\ manifest = [k \in Keys |-> NoEntry]
    /\ checkpoint = NoCheckpoint
    /\ row = NoRow
    /\ org = "live"
    /\ worker = [w \in Workers |-> NoWalk]
    /\ absent = [w \in Workers |-> {}]
    /\ toggle = [pc |-> "idle", read |-> NoRow, active |-> FALSE]
    /\ purge = [pc |-> "idle", left |-> {}]
    /\ astray = {}
    /\ puts = 0 /\ toggles = 0 /\ faults = 0

Fault == faults < MaxFaults /\ faults' = faults + 1

-----------------------------------------------------------------------------
(* What the calls do *)

\* Deleting a key that is not there is no error.
DropsChunks(k, entry) ==
    vectors' = [vectors EXCEPT ![k] =
                  [i \in 1..MaxChunks |-> IF i <= entry.chunks THEN 0 ELSE vectors[k][i]]]

Upserts(k, content) ==
    vectors' = [vectors EXCEPT ![k] =
                  [i \in 1..MaxChunks |-> IF i <= Chunks[content] THEN content
                                          ELSE vectors[k][i]]]

Lists(k, entry) == manifest' = [manifest EXCEPT ![k] = entry]

\* An update of a row that is not there changes nothing.
Tells(sync) == row' = IF row.exists THEN [row EXCEPT !.sync = sync] ELSE row

Goes(w, pc) == worker' = [worker EXCEPT ![w].pc = pc]
Leaves(w) == worker' = [worker EXCEPT ![w] = NoWalk]

\* On to the next object of the page, or the next to be removed.
Passes(w, pc) ==
    worker' = [worker EXCEPT
        ![w] = [worker[w] EXCEPT !.pc = pc, !.key = 0, !.bytes = 0,
                                 !.etag[worker[w].key] = 0]]

PassesListed(w, pc, entry) ==
    worker' = [worker EXCEPT
        ![w] = [worker[w] EXCEPT !.pc = pc, !.key = 0, !.bytes = 0,
                                 !.etag[worker[w].key] = 0,
                                 !.entries[worker[w].key] = entry]]

\* What the manifest said of the object at hand when it was loaded.
Known(w) == worker[w].entries[worker[w].key]

\* The entry of the object at hand: the ETag is the listing's, the chunks are
\* those of the bytes, which were read later.
BugEntry(w) == [etag |-> object[worker[w].key], chunks |-> Chunks[worker[w].bytes]]

EntryOf(w) == [etag |-> worker[w].etag[worker[w].key], chunks |-> Chunks[worker[w].bytes]]

-----------------------------------------------------------------------------
(* A walk begins *)

walkUnchanged == <<bucketVars, requestVars, teardownVars>>

\* The scan found the row active.  Its invocation may come late.
Dispatch(w) ==
    /\ worker[w].pc = "idle" /\ row.exists /\ row.active
    /\ Goes(w, "fence")
    /\ UNCHANGED <<storeVars, manifest, checkpoint, row, absent, faults, walkUnchanged>>

\* No work for an organization that is being deleted.
ReadFence(w) ==
    /\ worker[w].pc = "fence"
    /\ IF org = "live" THEN Goes(w, "ensure") ELSE Leaves(w)
    /\ UNCHANGED <<storeVars, manifest, checkpoint, row, absent, faults, walkUnchanged>>

EnsureIndex(w) ==
    /\ worker[w].pc = "ensure"
    /\ index' = TRUE
    /\ Goes(w, "mark")
    /\ UNCHANGED <<vectors, manifest, checkpoint, row, absent, faults, walkUnchanged>>

Mark(w) ==
    /\ worker[w].pc = "mark"
    /\ Tells("syncing")
    /\ Goes(w, "load")
    /\ UNCHANGED <<storeVars, manifest, checkpoint, absent, faults, walkUnchanged>>

LoadManifest(w) ==
    /\ worker[w].pc = "load"
    /\ worker' = [worker EXCEPT ![w] = [NoWalk EXCEPT !.pc = "resume", !.entries = manifest]]
    /\ absent' = [absent EXCEPT ![w] = {k \in Keys : object[k] = 0}]
    /\ UNCHANGED <<storeVars, manifest, checkpoint, row, faults, walkUnchanged>>

BugLoadCheckpoint(w) ==
    /\ worker[w].pc = "resume"
    /\ worker' = [worker EXCEPT ![w].pc = "page", ![w].token = checkpoint,
                                ![w].full = (checkpoint = NoCheckpoint)]
    /\ UNCHANGED <<storeVars, manifest, checkpoint, row, absent, faults, walkUnchanged>>

\* full: the walk is from the first page.
LoadCheckpoint(w) ==
    /\ worker[w].pc = "resume"
    /\ LET token == IF checkpoint = NoCheckpoint THEN 0 ELSE checkpoint
       IN worker' = [worker EXCEPT ![w].pc = "page", ![w].token = token,
                                   ![w].full = (token = 0)]
    /\ UNCHANGED <<storeVars, manifest, checkpoint, row, absent, faults, walkUnchanged>>

-----------------------------------------------------------------------------
(* A page *)

\* Out of time before another page.
Deadline(w) ==
    /\ worker[w].pc = "page"
    /\ Fault
    /\ checkpoint' = worker[w].token
    /\ Leaves(w)
    /\ UNCHANGED <<storeVars, manifest, row, absent, walkUnchanged>>

\* A page of the listing starts after the token and ends at the next; at 0 it is
\* the last.
Page(w, next) ==
    {k \in Keys : object[k] # 0 /\ worker[w].token < k /\ (next # 0 => k <= next)}

EndsPage(w, next) ==
    IF next = 0 THEN Cardinality(Page(w, 0)) <= PageSize
    ELSE /\ next \in Page(w, 0) /\ Page(w, next) # Page(w, 0)
         /\ Cardinality(Page(w, next)) = PageSize

ListPage(w) ==
    /\ worker[w].pc = "page"
    /\ \E next \in Tokens :
          /\ EndsPage(w, next)
          /\ worker' = [worker EXCEPT
                ![w] = [worker[w] EXCEPT !.pc = "object", !.next = next,
                                         !.page = Page(w, next),
                                         !.etag = [k \in Keys |->
                                            IF k \in Page(w, next) THEN object[k] ELSE 0],
                                         !.seen = worker[w].seen \cup Page(w, next)]]
    /\ UNCHANGED <<storeVars, manifest, checkpoint, row, absent, faults, walkUnchanged>>

\* The same ETag is the same content.
Pick(w) ==
    /\ worker[w].pc = "object"
    /\ \/ /\ worker[w].page = {}
          /\ Goes(w, "next")
       \/ \E k \in worker[w].page :
             worker' = [worker EXCEPT
                ![w] = IF worker[w].entries[k].etag = worker[w].etag[k]
                       THEN [worker[w] EXCEPT !.page = worker[w].page \ {k}, !.etag[k] = 0]
                       ELSE [worker[w] EXCEPT
                               !.page = worker[w].page \ {k}, !.key = k,
                               !.pc = IF worker[w].entries[k] = NoEntry THEN "read"
                                      ELSE "drop"]]
    /\ UNCHANGED <<storeVars, manifest, checkpoint, row, absent, faults, walkUnchanged>>

\* The old chunks go first.
DropOld(w) ==
    /\ worker[w].pc = "drop"
    /\ IF index THEN DropsChunks(worker[w].key, Known(w)) /\ Goes(w, "read")
       ELSE Passes(w, "object") /\ UNCHANGED vectors
    /\ UNCHANGED <<index, manifest, checkpoint, row, absent, faults, walkUnchanged>>

\* The bytes are those of now.  An object that is gone is an error, one without
\* text is not indexed.
Read(w) ==
    /\ worker[w].pc = "read"
    /\ LET content == object[worker[w].key] IN
       CASE content # 0 /\ Chunks[content] > 0 ->
              worker' = [worker EXCEPT ![w].pc = "upsert", ![w].bytes = content]
         [] content # 0 /\ Chunks[content] = 0 /\ Known(w) # NoEntry -> Goes(w, "forget")
         [] OTHER -> Passes(w, "object")
    /\ UNCHANGED <<storeVars, manifest, checkpoint, row, absent, faults, walkUnchanged>>

Forget(w) ==
    /\ worker[w].pc = "forget"
    /\ Lists(worker[w].key, NoEntry)
    /\ PassesListed(w, "object", NoEntry)
    /\ UNCHANGED <<storeVars, checkpoint, row, absent, faults, walkUnchanged>>

Upsert(w) ==
    /\ worker[w].pc = "upsert"
    /\ IF index THEN Upserts(worker[w].key, worker[w].bytes) /\ Goes(w, "save")
       ELSE Passes(w, "object") /\ UNCHANGED vectors
    /\ UNCHANGED <<index, manifest, checkpoint, row, absent, faults, walkUnchanged>>

Save(w) ==
    /\ worker[w].pc = "save"
    /\ Lists(worker[w].key, EntryOf(w))
    /\ PassesListed(w, "object", EntryOf(w))
    /\ UNCHANGED <<storeVars, checkpoint, row, absent, faults, walkUnchanged>>

\* An object's failure is the object's alone.  A call that fails after it took
\* effect is one that succeeds, or one before another that fails.
ObjectFails(w) ==
    /\ worker[w].pc \in {"drop", "read", "forget", "upsert", "save"}
    /\ Fault
    /\ Passes(w, "object")
    /\ UNCHANGED <<storeVars, manifest, checkpoint, row, absent, walkUnchanged>>

-----------------------------------------------------------------------------
(* After a page *)

\* What is in the manifest and was not seen.
Unseen(w) == Listed(worker[w].entries) \ worker[w].seen

BugNextPage(w) ==
    /\ worker[w].pc = "next"
    /\ \/ /\ worker[w].next # 0
          /\ checkpoint' = worker[w].next
          /\ worker' = [worker EXCEPT ![w].pc = "page", ![w].token = worker[w].next]
       \/ /\ worker[w].next = 0
          /\ worker' = [worker EXCEPT ![w].pc = "remove", ![w].left = Unseen(w)]
          /\ UNCHANGED checkpoint
    /\ UNCHANGED <<storeVars, manifest, row, absent, faults, walkUnchanged>>

\* Progress is recorded; after the last page a full walk removes.
NextPage(w) ==
    /\ worker[w].pc = "next"
    /\ \/ /\ worker[w].next # 0
          /\ checkpoint' = worker[w].next
          /\ worker' = [worker EXCEPT ![w].pc = "page", ![w].token = worker[w].next]
       \/ /\ worker[w].next = 0 /\ worker[w].full
          /\ worker' = [worker EXCEPT ![w].pc = "remove", ![w].left = Unseen(w)]
          /\ UNCHANGED checkpoint
       \/ /\ worker[w].next = 0 /\ ~worker[w].full
          /\ Goes(w, "clear")
          /\ UNCHANGED checkpoint
    /\ UNCHANGED <<storeVars, manifest, row, absent, faults, walkUnchanged>>

PickUnseen(w) ==
    /\ worker[w].pc = "remove"
    /\ \/ /\ worker[w].left = {}
          /\ Goes(w, "clear")
       \/ \E k \in worker[w].left :
             worker' = [worker EXCEPT ![w].pc = "unchunk", ![w].key = k,
                                      ![w].left = worker[w].left \ {k}]
    /\ UNCHANGED <<storeVars, manifest, checkpoint, row, absent, faults, walkUnchanged>>

RemoveChunks(w) ==
    /\ worker[w].pc = "unchunk"
    /\ IF index THEN DropsChunks(worker[w].key, Known(w)) /\ Goes(w, "unlist")
       ELSE Passes(w, "remove") /\ UNCHANGED vectors
    /\ UNCHANGED <<index, manifest, checkpoint, row, absent, faults, walkUnchanged>>

RemoveEntry(w) ==
    /\ worker[w].pc = "unlist"
    /\ Lists(worker[w].key, NoEntry)
    /\ PassesListed(w, "remove", NoEntry)
    /\ UNCHANGED <<storeVars, checkpoint, row, absent, faults, walkUnchanged>>

RemovalFails(w) ==
    /\ worker[w].pc \in {"unchunk", "unlist"}
    /\ Fault
    /\ Passes(w, "remove")
    /\ UNCHANGED <<storeVars, manifest, checkpoint, row, absent, walkUnchanged>>

BugClear(w) ==
    /\ worker[w].pc = "clear"
    /\ IF worker[w].full THEN Goes(w, "tell") ELSE Leaves(w)
    /\ UNCHANGED <<storeVars, manifest, checkpoint, row, absent, faults, walkUnchanged>>

\* The next walk starts from the top.  Only a full one reports.
Clear(w) ==
    /\ worker[w].pc = "clear"
    /\ checkpoint' = NoCheckpoint
    /\ IF worker[w].full THEN Goes(w, "tell") ELSE Leaves(w)
    /\ UNCHANGED <<storeVars, manifest, row, absent, faults, walkUnchanged>>

Tell(w) ==
    /\ worker[w].pc = "tell"
    /\ Tells("idle")
    /\ Leaves(w)
    /\ UNCHANGED <<storeVars, manifest, checkpoint, absent, faults, walkUnchanged>>

-----------------------------------------------------------------------------
(* A walk is cut off *)

\* A call fails outside any object: the walk ends with an error to report.
WalkFails(w) ==
    /\ worker[w].pc \in {"ensure", "mark", "load", "resume", "page", "next", "clear", "tell"}
    /\ Fault
    /\ Goes(w, "error")
    /\ UNCHANGED <<storeVars, manifest, checkpoint, row, absent, walkUnchanged>>

TellError(w) ==
    /\ worker[w].pc = "error"
    /\ Tells("error")
    /\ Leaves(w)
    /\ UNCHANGED <<storeVars, manifest, checkpoint, absent, faults, walkUnchanged>>

\* A kill or a timeout.
Dies(w) ==
    /\ worker[w].pc # "idle"
    /\ Fault
    /\ Leaves(w)
    /\ UNCHANGED <<storeVars, manifest, checkpoint, row, absent, walkUnchanged>>

\* A checkpoint outlives its time.
Expire ==
    /\ checkpoint # NoCheckpoint
    /\ checkpoint' = NoCheckpoint
    /\ UNCHANGED <<storeVars, manifest, row, worker, absent, faults, walkUnchanged>>

-----------------------------------------------------------------------------
(* The bucket *)

bucketUnchanged == <<storeVars, manifest, checkpoint, row, worker, requestVars,
                     teardownVars, faults>>

Put(k, content) ==
    /\ puts < MaxPuts
    /\ Fresh => newest[k] < content
    /\ object' = [object EXCEPT ![k] = content]
    /\ newest' = [newest EXCEPT ![k] = content]
    /\ puts' = puts + 1
    /\ UNCHANGED <<absent, bucketUnchanged>>

Remove(k) ==
    /\ puts < MaxPuts /\ object[k] # 0
    /\ object' = [object EXCEPT ![k] = 0]
    /\ absent' = [w \in Workers |-> absent[w] \cup {k}]
    /\ puts' = puts + 1
    /\ UNCHANGED <<newest, bucketUnchanged>>

-----------------------------------------------------------------------------
(* Turning indexing on and off *)

toggleUnchanged == <<bucketVars, storeVars, manifest, checkpoint, worker, absent,
                     teardownVars, faults>>

\* Reads the row it will write back.
ReadRow(active) ==
    /\ toggle.pc = "idle" /\ toggles < MaxToggles /\ org = "live"
    /\ toggle' = [pc |-> "write", read |-> row, active |-> active]
    /\ toggles' = toggles + 1
    /\ UNCHANGED <<row, toggleUnchanged>>

Toggled == [toggle.read EXCEPT !.exists = TRUE, !.active = toggle.active]

BugWriteRow ==
    /\ toggle.pc = "write"
    /\ row' = Toggled
    /\ toggle' = [toggle EXCEPT !.pc = "idle"]
    /\ UNCHANGED <<toggles, toggleUnchanged>>

\* Not on an organization that is being deleted.
WriteRow ==
    /\ toggle.pc = "write"
    /\ row' = IF org = "live" THEN Toggled ELSE row
    /\ toggle' = [toggle EXCEPT !.pc = "idle"]
    /\ UNCHANGED <<toggles, toggleUnchanged>>

-----------------------------------------------------------------------------
(* The teardown *)

purgeUnchanged == <<bucketVars, requestVars, worker, absent>>

Fence ==
    /\ Deletes /\ org = "live"
    /\ org' = "fenced"
    /\ astray' = {w \in Workers : worker[w].pc # "idle"}
    /\ UNCHANGED <<purge, storeVars, manifest, checkpoint, row, faults, purgeUnchanged>>

\* The rows say which bucket there is an index of.  Without any there is nothing
\* to do, and the deletion goes on to its end.
ScanRows ==
    /\ org = "fenced" /\ purge.pc = "idle"
    /\ IF row.exists \/ Listed(manifest) # {} \/ checkpoint # NoCheckpoint
       THEN /\ purge' = [pc |-> "rows", left |-> Listed(manifest)]
            /\ UNCHANGED org
       ELSE org' = "gone" /\ UNCHANGED purge
    /\ UNCHANGED <<astray, storeVars, manifest, checkpoint, row, faults, purgeUnchanged>>

PurgeEntry ==
    /\ purge.pc = "rows"
    /\ \/ /\ purge.left = {}
          /\ purge' = [purge EXCEPT !.pc = "row"]
          /\ UNCHANGED manifest
       \/ \E k \in purge.left :
             /\ Lists(k, NoEntry)
             /\ purge' = [purge EXCEPT !.left = purge.left \ {k}]
    /\ UNCHANGED <<org, astray, storeVars, checkpoint, row, faults, purgeUnchanged>>

PurgeRow ==
    /\ purge.pc = "row"
    /\ row' = NoRow
    /\ purge' = [purge EXCEPT !.pc = "checkpoint"]
    /\ UNCHANGED <<org, astray, storeVars, manifest, checkpoint, faults, purgeUnchanged>>

PurgeCheckpoint ==
    /\ purge.pc = "checkpoint"
    /\ checkpoint' = NoCheckpoint
    /\ purge' = [purge EXCEPT !.pc = "index"]
    /\ UNCHANGED <<org, astray, storeVars, manifest, row, faults, purgeUnchanged>>

\* The deletion goes on to its end, or a later step fails and all runs again.
DropIndex ==
    /\ purge.pc = "index"
    /\ index' = FALSE
    /\ vectors' = [k \in Keys |-> [i \in 1..MaxChunks |-> 0]]
    /\ purge' = [purge EXCEPT !.pc = "idle"]
    /\ org' \in {"fenced", "gone"}
    /\ UNCHANGED <<astray, manifest, checkpoint, row, faults, purgeUnchanged>>

\* The pass ends; the sweeper has another one start over.
PurgeFails ==
    /\ purge.pc # "idle"
    /\ Fault
    /\ purge' = [pc |-> "idle", left |-> {}]
    /\ UNCHANGED <<org, astray, storeVars, manifest, checkpoint, row, purgeUnchanged>>

-----------------------------------------------------------------------------

WalkStep(w) ==
    \/ ReadFence(w) \/ EnsureIndex(w) \/ Mark(w) \/ LoadManifest(w)
    \/ LoadCheckpoint(w) \/ ListPage(w) \/ Pick(w) \/ DropOld(w) \/ Read(w)
    \/ Forget(w) \/ Upsert(w) \/ Save(w) \/ NextPage(w) \/ PickUnseen(w)
    \/ RemoveChunks(w) \/ RemoveEntry(w) \/ Clear(w) \/ Tell(w) \/ TellError(w)

WalkCut(w) ==
    Deadline(w) \/ ObjectFails(w) \/ RemovalFails(w) \/ WalkFails(w) \/ Dies(w)

ToggleStep == WriteRow \/ \E active \in BOOLEAN : ReadRow(active)

PurgeStep ==
    \/ Fence \/ ScanRows \/ PurgeEntry \/ PurgeRow \/ PurgeCheckpoint \/ DropIndex
    \/ PurgeFails

BucketStep == \E k \in Keys : Remove(k) \/ \E content \in Versions : Put(k, content)

Next ==
    \/ \E w \in Workers : Dispatch(w) \/ WalkStep(w) \/ WalkCut(w)
    \/ Expire \/ BucketStep \/ ToggleStep \/ PurgeStep

Spec == Init /\ [][Next]_vars

\* The schedule comes round, what runs comes to its end, and a request is
\* answered.
FairSpec ==
    /\ Spec
    /\ WF_vars(WriteRow)
    /\ \A w \in Workers : WF_vars(Dispatch(w) \/ WalkStep(w))

-----------------------------------------------------------------------------
(* Properties *)

AtWork(w) == worker[w].pc # "idle"

\* reconcileRemovals: whatever is removed as unseen was not in the bucket at some
\* time of the walk, however the walks before it were cut off and resumed, and
\* whatever checkpoint another worker left.
OnlyTheGoneAreRemoved ==
    \A w \in Workers :
        worker[w].pc \in {"unchunk", "unlist"} => worker[w].key \in absent[w]

\* classifyAndIndexObject: an object that a walk will skip has its vectors.  Its
\* bytes are read after its ETag, its old chunks are deleted before its new ones
\* are written, and any call may fail; an ETag that never recurs and one worker
\* at a time are what it takes.
SkippedIsIndexed ==
    org = "live" =>
        \A k \in Keys :
            object[k] # 0 /\ manifest[k].etag = object[k] =>
                \A i \in 1..Chunks[object[k]] : vectors[k][i] = object[k]

\* setBucketRagEnablement: no enablement row outlives the teardown, whatever
\* request or worker was under way.
NoRowOutlivesTeardown == org = "gone" => ~row.exists

\* The index is what the bucket has: each object with text is listed with its
\* chunks, and nothing else is listed.
InStep ==
    \A k \in Keys :
        IF object[k] = 0 \/ (object[k] # 0 /\ Chunks[object[k]] = 0)
        THEN manifest[k] = NoEntry
        ELSE /\ manifest[k].etag = object[k]
             /\ \A i \in 1..Chunks[object[k]] : vectors[k][i] = object[k]

\* The worker and its schedule: once the bucket is left alone and while indexing
\* is on, the index catches up for good.
CatchesUp == <>[](row.exists /\ row.active /\ org = "live") => <>[]InStep

\* ObjectChunkManifestRecord: "the authoritative list of vector-store keys for an
\* object, so the system can delete/reindex an object's chunks by explicit key".
\* The code does not keep it: chunks whose entry was not saved are in no list, and
\* stay when their object goes.
ManifestListsAll ==
    row.sync = "idle" /\ (\A w \in Workers : ~AtWork(w)) =>
        \A k \in Keys, i \in 1..MaxChunks :
            object[k] = 0 /\ vectors[k][i] # 0 => i <= manifest[k].chunks

\* Account deletion: "The destroyed rows go after every step that needs them".
\* The code does not keep it: a teardown that fails between the rows and the index
\* finds no row the next time, and is done.
NoIndexOutlivesTeardown == org = "gone" /\ astray = {} => ~index

\* setBucketRagEnablement: "toggling enablement never disturbs the indexer's sync
\* state".  The code does not keep it: it writes back the row it read.
ToggleSparesTelemetry ==
    [][toggle.pc = "write" /\ toggle'.pc = "idle" /\ row.exists => row'.sync = row.sync]_vars

=============================================================================
