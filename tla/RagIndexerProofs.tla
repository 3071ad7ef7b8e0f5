--------------------------- MODULE RagIndexerProofs ---------------------------
(***************************************************************************)
(* Proofs about RagIndexer, for any workers, keys, contents, page size and *)
(* bounds: only what was gone is removed, no enablement row outlives the   *)
(* teardown, and, where an ETag never recurs and one worker is at work,    *)
(* what a walk skips is indexed.                                           *)
(*                                                                         *)
(* What carries the last is an order: the content a manifest entry names   *)
(* is older than the one a walk has listed, which is no newer than the one *)
(* in the bucket.                                                          *)
(***************************************************************************)
EXTENDS RagIndexer, TLAPS

AtObject == {"drop", "read", "forget", "upsert", "save"}
AtRemoval == {"remove", "unchunk", "unlist"}
InPage == {"object", "next"} \cup AtObject
Loaded == {"resume", "page", "clear", "tell"} \cup InPage \cup AtRemoval

\* Of a walk: what it has at hand is there.
AtHand(walk) ==
    /\ walk.pc \in AtObject \cup {"unchunk", "unlist"} => walk.key \in Keys
    /\ walk.pc \in {"upsert", "save"} => walk.bytes \in Versions

\* Of a walk and the keys that were absent in its time: a full walk has seen, up to
\* where it is, what was there all along.
Enumerated(walk, gone) ==
    /\ walk.pc \in Loaded => \A k \in Keys : object[k] = 0 => k \in gone
    /\ walk.pc = "page" /\ walk.full =>
         \A k \in Keys : k <= walk.token => k \in walk.seen \cup gone
    /\ walk.pc \in InPage /\ walk.full =>
         \A k \in Keys : walk.next = 0 \/ k <= walk.next => k \in walk.seen \cup gone
    /\ walk.pc \in AtRemoval => walk.left \subseteq gone
    /\ walk.pc \in {"unchunk", "unlist"} => walk.key \in gone

HandInv == \A w \in Workers : AtHand(worker[w])
WalkInv == \A w \in Workers : Enumerated(worker[w], absent[w])

\* Where the enablement row is gone for good.
RowInv ==
    /\ org = "live" => purge.pc = "idle"
    /\ purge.pc \in {"checkpoint", "index"} => ~row.exists
    /\ org = "gone" => ~row.exists

\* Of a walk and the keys that were absent in its time: entries are older than what
\* was listed, and than what came back after it was gone.
Ordered(walk, gone) ==
    /\ walk.pc \in Loaded => \A k \in Keys : walk.entries[k].etag <= newest[k]
    /\ walk.pc \in InPage =>
         \A k \in walk.page : k \in walk.seen /\ walk.etag[k] <= newest[k]
                              /\ walk.etag[k] # 0 /\ walk.entries[k].etag <= walk.etag[k]
    /\ walk.pc \in AtObject =>
         /\ walk.key \in walk.seen /\ walk.key \notin walk.page
         /\ walk.etag[walk.key] <= newest[walk.key]
         /\ walk.entries[walk.key].etag < walk.etag[walk.key]
    /\ walk.pc \in Loaded =>
         \A k \in gone \ walk.seen : object[k] # 0 => walk.entries[k].etag < object[k]
    /\ walk.pc \in AtRemoval => walk.left \cap walk.seen = {}
    /\ walk.pc \in {"unchunk", "unlist"} => walk.key \notin walk.seen

\* Of the one walk: it knows the manifest, and what it is about to list is there.
Backed(walk) ==
    /\ walk.pc \in Loaded /\ org = "live" => walk.entries = manifest
    /\ walk.pc \in {"upsert", "save"} /\ walk.etag[walk.key] = object[walk.key] =>
         walk.bytes = object[walk.key]
    /\ walk.pc = "save" /\ org = "live" =>
         \A i \in 1..Chunks[walk.bytes] : vectors[walk.key][i] = walk.bytes

OneFresh == Fresh /\ \A v, w \in Workers : v = w

-----------------------------------------------------------------------------
(* What a step does to the walk at hand *)

\* The walk of w becomes walk, and no other changes.
Becomes(w, walk) ==
    /\ worker' \in [Workers -> Walks]
    /\ worker'[w] = walk
    /\ \A v \in Workers : v # w => worker'[v] = worker[v]

LEMMA BecomesWalk ==
    ASSUME TypeOK, NEW w \in Workers, NEW walk \in Walks,
           worker' = [worker EXCEPT ![w] = walk]
    PROVE  Becomes(w, walk)
BY DEF TypeOK, Becomes

LEMMA EntryTypes ==
    /\ NoEntry \in Entries
    /\ [k \in Keys |-> NoEntry] \in [Keys -> Entries]
    /\ 0 \in Tokens /\ 0 \in 0..LastVersion /\ 0 \in 0..LastKey
    /\ \A e \in Entries : e.etag \in 0..LastVersion /\ e.chunks \in 0..MaxChunks
    /\ Keys \subseteq Tokens /\ Keys \subseteq 0..LastKey /\ Versions \subseteq 0..LastVersion
BY ConstantsAssumption DEF Entries, NoEntry, Tokens, Keys, Versions

LEMMA NoWalkType == NoWalk \in Walks
BY EntryTypes DEF NoWalk, Walks, Stages

LEMMA LeavesBecomes ==
    ASSUME TypeOK, NEW w \in Workers, Leaves(w)
    PROVE  Becomes(w, NoWalk)
BY NoWalkType, BecomesWalk DEF Leaves

LEMMA GoesBecomes ==
    ASSUME TypeOK, NEW w \in Workers, NEW pc \in Stages, Goes(w, pc)
    PROVE  Becomes(w, [worker[w] EXCEPT !.pc = pc])
<1>1. worker[w] \in Walks
  BY DEF TypeOK
<1>2. [worker[w] EXCEPT !.pc = pc] \in Walks
  BY <1>1 DEF Walks
<1>3. worker' = [worker EXCEPT ![w] = [worker[w] EXCEPT !.pc = pc]]
  BY DEF Goes
<1> QED
  BY <1>2, <1>3, BecomesWalk

LEMMA PassesBecomes ==
    ASSUME TypeOK, NEW w \in Workers, NEW pc \in Stages, Passes(w, pc)
    PROVE  Becomes(w, [worker[w] EXCEPT !.pc = pc, !.key = 0, !.bytes = 0,
                                        !.etag[worker[w].key] = 0])
<1>1. worker[w] \in Walks
  BY DEF TypeOK
<1>2. [worker[w].etag EXCEPT ![worker[w].key] = 0] \in [Keys -> 0..LastVersion]
  BY <1>1, EntryTypes DEF Walks
<1>3. [worker[w] EXCEPT !.pc = pc, !.key = 0, !.bytes = 0,
                        !.etag[worker[w].key] = 0] \in Walks
  BY <1>1, <1>2, EntryTypes DEF Walks
<1> QED
  BY <1>3, BecomesWalk DEF Passes

LEMMA PassesListedBecomes ==
    ASSUME TypeOK, NEW w \in Workers, NEW pc \in Stages, NEW entry \in Entries,
           PassesListed(w, pc, entry)
    PROVE  Becomes(w, [worker[w] EXCEPT !.pc = pc, !.key = 0, !.bytes = 0,
                                        !.etag[worker[w].key] = 0,
                                        !.entries[worker[w].key] = entry])
<1>1. worker[w] \in Walks
  BY DEF TypeOK
<1>2. /\ [worker[w].etag EXCEPT ![worker[w].key] = 0] \in [Keys -> 0..LastVersion]
      /\ [worker[w].entries EXCEPT ![worker[w].key] = entry] \in [Keys -> Entries]
  BY <1>1, EntryTypes DEF Walks
<1>3. [worker[w] EXCEPT !.pc = pc, !.key = 0, !.bytes = 0,
                        !.etag[worker[w].key] = 0,
                        !.entries[worker[w].key] = entry] \in Walks
  BY <1>1, <1>2, EntryTypes DEF Walks
<1> QED
  BY <1>3, BecomesWalk DEF PassesListed

LEMMA LoadsBecomes ==
    ASSUME TypeOK, NEW w \in Workers, LoadManifest(w)
    PROVE  Becomes(w, [NoWalk EXCEPT !.pc = "resume", !.entries = manifest])
<1>1. [NoWalk EXCEPT !.pc = "resume", !.entries = manifest] \in Walks
  BY NoWalkType DEF TypeOK, NoWalk, Walks, Stages
<1> QED
  BY <1>1, BecomesWalk DEF LoadManifest

LEMMA ResumesBecomes ==
    ASSUME TypeOK, NEW w \in Workers, LoadCheckpoint(w)
    PROVE  \E token \in Tokens :
             Becomes(w, [worker[w] EXCEPT !.pc = "page", !.token = token,
                                          !.full = (token = 0)])
<1> DEFINE token == IF checkpoint = NoCheckpoint THEN 0 ELSE checkpoint
           walk == [worker[w] EXCEPT !.pc = "page", !.token = token, !.full = (token = 0)]
<1>1. token \in Tokens
  BY EntryTypes DEF TypeOK
<1>2. worker' = [worker EXCEPT ![w] = walk]
  BY DEF LoadCheckpoint
<1>3. worker[w] \in Walks
  BY DEF TypeOK
<1> HIDE DEF token
<1>4. walk \in Walks
  BY <1>1, <1>3 DEF Walks, Stages
<1> QED
  BY <1>1, <1>2, <1>4, BecomesWalk

LEMMA ListsBecomes ==
    ASSUME TypeOK, NEW w \in Workers, NEW next \in Tokens,
           worker' = [worker EXCEPT
                ![w] = [worker[w] EXCEPT !.pc = "object", !.next = next,
                                         !.page = Page(w, next),
                                         !.etag = [k \in Keys |->
                                            IF k \in Page(w, next) THEN object[k] ELSE 0],
                                         !.seen = worker[w].seen \cup Page(w, next)]]
    PROVE  Becomes(w, [worker[w] EXCEPT !.pc = "object", !.next = next,
                                        !.page = Page(w, next),
                                        !.etag = [k \in Keys |->
                                            IF k \in Page(w, next) THEN object[k] ELSE 0],
                                        !.seen = worker[w].seen \cup Page(w, next)])
<1> DEFINE page == Page(w, next)
           etag == [k \in Keys |-> IF k \in Page(w, next) THEN object[k] ELSE 0]
<1>1. worker[w] \in Walks
  BY DEF TypeOK
<1>2. page \subseteq Keys
  BY DEF Page
<1>3. etag \in [Keys -> 0..LastVersion]
  BY EntryTypes DEF TypeOK
<1> HIDE DEF page, etag
<1>4. [worker[w] EXCEPT !.pc = "object", !.next = next, !.page = page, !.etag = etag,
                        !.seen = worker[w].seen \cup page] \in Walks
  BY <1>1, <1>2, <1>3 DEF Walks, Stages
<1> QED
  BY <1>4, BecomesWalk DEF page, etag

\* An object is skipped, or is the one at hand.
LEMMA PicksBecomes ==
    ASSUME TypeOK, NEW w \in Workers, NEW k \in worker[w].page,
           worker' = [worker EXCEPT
                ![w] = IF worker[w].entries[k].etag = worker[w].etag[k]
                       THEN [worker[w] EXCEPT !.page = worker[w].page \ {k}, !.etag[k] = 0]
                       ELSE [worker[w] EXCEPT
                               !.page = worker[w].page \ {k}, !.key = k,
                               !.pc = IF worker[w].entries[k] = NoEntry THEN "read"
                                      ELSE "drop"]]
    PROVE  \/ Becomes(w, [worker[w] EXCEPT !.page = worker[w].page \ {k}, !.etag[k] = 0])
           \/ /\ worker[w].entries[k].etag # worker[w].etag[k]
              /\ \E pc \in {"read", "drop"} :
                   Becomes(w, [worker[w] EXCEPT !.page = worker[w].page \ {k}, !.key = k,
                                                !.pc = pc])
<1>1. worker[w] \in Walks /\ k \in Keys
  BY DEF TypeOK, Walks
<1>2. CASE worker[w].entries[k].etag = worker[w].etag[k]
  <2>1. [worker[w].etag EXCEPT ![k] = 0] \in [Keys -> 0..LastVersion]
    BY <1>1, EntryTypes DEF Walks
  <2>2. [worker[w] EXCEPT !.page = worker[w].page \ {k}, !.etag[k] = 0] \in Walks
    BY <1>1, <2>1 DEF Walks
  <2> QED
    BY <1>2, <2>2, BecomesWalk
<1>3. CASE worker[w].entries[k].etag # worker[w].etag[k]
  <2> DEFINE pc == IF worker[w].entries[k] = NoEntry THEN "read" ELSE "drop"
  <2>1. pc \in {"read", "drop"} /\ pc \in Stages
    BY DEF Stages
  <2>2. worker' = [worker EXCEPT ![w] =
                     [worker[w] EXCEPT !.page = worker[w].page \ {k}, !.key = k, !.pc = pc]]
    BY <1>3
  <2> HIDE DEF pc
  <2>3. [worker[w] EXCEPT !.page = worker[w].page \ {k}, !.key = k, !.pc = pc] \in Walks
    BY <1>1, <2>1, EntryTypes DEF Walks
  <2> QED
    BY <1>3, <2>1, <2>2, <2>3, BecomesWalk
<1> QED
  BY <1>2, <1>3

LEMMA ReadsBecomes ==
    ASSUME TypeOK, NEW w \in Workers, NEW content \in Versions,
           worker' = [worker EXCEPT ![w].pc = "upsert", ![w].bytes = content]
    PROVE  Becomes(w, [worker[w] EXCEPT !.pc = "upsert", !.bytes = content])
<1>1. worker[w] \in Walks
  BY DEF TypeOK
<1>2. [worker[w] EXCEPT !.pc = "upsert", !.bytes = content] \in Walks
  BY <1>1, EntryTypes DEF Walks, Stages
<1>3. worker' = [worker EXCEPT ![w] = [worker[w] EXCEPT !.pc = "upsert", !.bytes = content]]
  OBVIOUS
<1> QED
  BY <1>2, <1>3, BecomesWalk

\* To the next page, or to the removals.
LEMMA NextBecomes ==
    ASSUME TypeOK, NEW w \in Workers, NextPage(w)
    PROVE  \/ /\ worker[w].next # 0
              /\ Becomes(w, [worker[w] EXCEPT !.pc = "page", !.token = worker[w].next])
           \/ /\ worker[w].next = 0 /\ worker[w].full
              /\ Becomes(w, [worker[w] EXCEPT !.pc = "remove", !.left = Unseen(w)])
           \/ /\ worker[w].next = 0 /\ ~worker[w].full
              /\ Becomes(w, [worker[w] EXCEPT !.pc = "clear"])
<1>1. worker[w] \in Walks
  BY DEF TypeOK
<1>2. [worker[w] EXCEPT !.pc = "page", !.token = worker[w].next] \in Walks
  BY <1>1 DEF Walks, Stages
<1>3. [worker[w] EXCEPT !.pc = "remove", !.left = Unseen(w)] \in Walks
  BY <1>1 DEF Walks, Stages, Unseen, Listed
<1>4. CASE worker' = [worker EXCEPT ![w].pc = "page", ![w].token = worker[w].next]
           /\ worker[w].next # 0
  <2>1. worker' = [worker EXCEPT
                     ![w] = [worker[w] EXCEPT !.pc = "page", !.token = worker[w].next]]
    BY <1>4
  <2> QED
    BY <1>2, <1>4, <2>1, BecomesWalk
<1>5. CASE worker' = [worker EXCEPT ![w].pc = "remove", ![w].left = Unseen(w)]
           /\ worker[w].next = 0 /\ worker[w].full
  <2>1. worker' = [worker EXCEPT ![w] = [worker[w] EXCEPT !.pc = "remove", !.left = Unseen(w)]]
    BY <1>5
  <2> QED
    BY <1>3, <1>5, <2>1, BecomesWalk
<1>6. CASE Goes(w, "clear") /\ worker[w].next = 0 /\ ~worker[w].full
  BY <1>6, GoesBecomes DEF Stages
<1> QED
  BY <1>4, <1>5, <1>6 DEF NextPage

LEMMA RemovesBecomes ==
    ASSUME TypeOK, NEW w \in Workers, NEW k \in worker[w].left,
           worker' = [worker EXCEPT ![w].pc = "unchunk", ![w].key = k,
                                    ![w].left = worker[w].left \ {k}]
    PROVE  Becomes(w, [worker[w] EXCEPT !.pc = "unchunk", !.key = k,
                                        !.left = worker[w].left \ {k}])
<1>1. worker[w] \in Walks /\ k \in Keys
  BY DEF TypeOK, Walks
<1>2. [worker[w] EXCEPT !.pc = "unchunk", !.key = k, !.left = worker[w].left \ {k}] \in Walks
  BY <1>1, EntryTypes DEF Walks, Stages
<1>3. worker' = [worker EXCEPT ![w] = [worker[w] EXCEPT !.pc = "unchunk", !.key = k,
                                                        !.left = worker[w].left \ {k}]]
  OBVIOUS
<1> QED
  BY <1>2, <1>3, BecomesWalk

-----------------------------------------------------------------------------
(* Type correctness *)

LEMMA CallTypes ==
    ASSUME TypeOK, NEW k \in Keys
    PROVE  /\ \A entry \in Entries :
                DropsChunks(k, entry) =>
                  vectors' \in [Keys -> [1..MaxChunks -> 0..LastVersion]]
           /\ \A content \in Versions :
                Upserts(k, content) => vectors' \in [Keys -> [1..MaxChunks -> 0..LastVersion]]
           /\ \A entry \in Entries : Lists(k, entry) => manifest' \in [Keys -> Entries]
<1>1. ASSUME NEW entry \in Entries, DropsChunks(k, entry)
      PROVE  vectors' \in [Keys -> [1..MaxChunks -> 0..LastVersion]]
  <2> DEFINE chunks == [i \in 1..MaxChunks |-> IF i <= entry.chunks THEN 0 ELSE vectors[k][i]]
  <2>0. vectors[k] \in [1..MaxChunks -> 0..LastVersion]
    BY DEF TypeOK
  <2>1. \A i \in 1..MaxChunks : vectors[k][i] \in 0..LastVersion
    BY <2>0
  <2>2. chunks \in [1..MaxChunks -> 0..LastVersion]
    BY <2>1, EntryTypes
  <2> HIDE DEF chunks
  <2>3. vectors' = [vectors EXCEPT ![k] = chunks]
    BY <1>1 DEF DropsChunks, chunks
  <2> QED
    BY <2>2, <2>3 DEF TypeOK
<1>2. ASSUME NEW content \in Versions, Upserts(k, content)
      PROVE  vectors' \in [Keys -> [1..MaxChunks -> 0..LastVersion]]
  <2> DEFINE chunks == [i \in 1..MaxChunks |-> IF i <= Chunks[content] THEN content ELSE vectors[k][i]]
  <2>0. vectors[k] \in [1..MaxChunks -> 0..LastVersion]
    BY DEF TypeOK
  <2>1. \A i \in 1..MaxChunks : vectors[k][i] \in 0..LastVersion
    BY <2>0
  <2>2. chunks \in [1..MaxChunks -> 0..LastVersion]
    BY <2>1, EntryTypes
  <2> HIDE DEF chunks
  <2>3. vectors' = [vectors EXCEPT ![k] = chunks]
    BY <1>2 DEF Upserts, chunks
  <2> QED
    BY <2>2, <2>3 DEF TypeOK
<1>3. ASSUME NEW entry \in Entries, Lists(k, entry) PROVE manifest' \in [Keys -> Entries]
  BY <1>3 DEF Lists, TypeOK
<1> QED
  BY <1>1, <1>2, <1>3

LEMMA TellsType ==
    ASSUME TypeOK, NEW sync \in {"never", "syncing", "idle", "error"}, Tells(sync)
    PROVE  row' \in Rows
BY DEF TypeOK, Tells, Rows

LEMMA FaultType ==
    ASSUME TypeOK, Fault
    PROVE  faults' \in 0..MaxFaults
BY ConstantsAssumption DEF TypeOK, Fault

\* What a step of a walk leaves alone.
LEMMA WalkFrame ==
    ASSUME TypeOK, UNCHANGED walkUnchanged,
           index' \in BOOLEAN, vectors' \in [Keys -> [1..MaxChunks -> 0..LastVersion]],
           manifest' \in [Keys -> Entries], checkpoint' \in {NoCheckpoint} \cup Tokens,
           row' \in Rows, worker' \in [Workers -> Walks],
           absent' \in [Workers -> SUBSET Keys], faults' \in 0..MaxFaults
    PROVE  TypeOK'
BY DEF TypeOK, walkUnchanged, bucketVars, requestVars, teardownVars

LEMMA BecomesHand ==
    ASSUME HandInv, NEW w \in Workers, NEW walk, Becomes(w, walk), AtHand(walk)
    PROVE  HandInv'
<1> SUFFICES ASSUME NEW v \in Workers PROVE AtHand(worker'[v])
  BY DEF HandInv, AtHand
<1>1. CASE v = w
  BY <1>1 DEF Becomes
<1>2. CASE v # w
  BY <1>2 DEF Becomes, HandInv
<1> QED
  BY <1>1, <1>2

LEMMA EntryOfType ==
    ASSUME TypeOK, NEW w \in Workers, worker[w].key \in Keys, worker[w].bytes \in Versions
    PROVE  EntryOf(w) \in Entries
<1>1. worker[w].etag[worker[w].key] \in 0..LastVersion
  BY DEF TypeOK, Walks
<1>2. Chunks[worker[w].bytes] \in 0..MaxChunks
  BY ConstantsAssumption
<1> QED
  BY <1>1, <1>2 DEF EntryOf, Entries

LEMMA KnownType ==
    ASSUME TypeOK, NEW w \in Workers, worker[w].key \in Keys
    PROVE  Known(w) \in Entries
BY DEF TypeOK, Walks, Known

LEMMA WalkStepType ==
    ASSUME TypeOK, HandInv, NEW w \in Workers, WalkStep(w)
    PROVE  TypeOK' /\ HandInv'
<1> USE DEF storeVars
<1>w. worker[w] \in Walks /\ AtHand(worker[w])
  BY DEF TypeOK, HandInv
<1>h. ASSUME NEW walk, Becomes(w, walk), AtHand(walk),
             UNCHANGED <<index, absent, faults, walkUnchanged>>,
             vectors' \in [Keys -> [1..MaxChunks -> 0..LastVersion]],
             manifest' \in [Keys -> Entries],
             checkpoint' \in {NoCheckpoint} \cup Tokens, row' \in Rows
      PROVE  TypeOK' /\ HandInv'
  <2>1. TypeOK'
    BY <1>h, WalkFrame DEF TypeOK, Becomes
  <2> QED
    BY <1>h, <2>1, BecomesHand
<1>t. /\ vectors \in [Keys -> [1..MaxChunks -> 0..LastVersion]]
      /\ manifest \in [Keys -> Entries] /\ checkpoint \in {NoCheckpoint} \cup Tokens
      /\ row \in Rows
  BY DEF TypeOK
<1>l. AtHand(NoWalk)
  BY DEF AtHand, NoWalk, AtObject
<1>g. \A pc \in Stages \ (AtObject \cup {"unchunk", "unlist"}) :
        /\ AtHand([worker[w] EXCEPT !.pc = pc])
        /\ AtHand([worker[w] EXCEPT !.pc = pc, !.key = 0, !.bytes = 0,
                                    !.etag[worker[w].key] = 0])
        /\ \A entry \in Entries :
             AtHand([worker[w] EXCEPT !.pc = pc, !.key = 0, !.bytes = 0,
                                      !.etag[worker[w].key] = 0,
                                      !.entries[worker[w].key] = entry])
  BY <1>w DEF Walks, AtHand, AtObject
<1>p. ASSUME NEW pc \in {"object", "remove"}, Passes(w, pc)
      PROVE  \E walk : Becomes(w, walk) /\ AtHand(walk)
  <2> DEFINE walk == [worker[w] EXCEPT !.pc = pc, !.key = 0, !.bytes = 0,
                                       !.etag[worker[w].key] = 0]
  <2>1. pc \in Stages /\ pc \notin AtObject \cup {"unchunk", "unlist"}
    BY DEF Stages, AtObject
  <2>2. Becomes(w, walk)
    BY <1>p, <2>1, PassesBecomes
  <2>3. AtHand(walk)
    BY <1>g, <2>1
  <2> QED
    BY <2>2, <2>3
<1>q. ASSUME NEW pc \in {"object", "remove"}, NEW entry \in Entries,
             PassesListed(w, pc, entry)
      PROVE  \E walk : Becomes(w, walk) /\ AtHand(walk)
  <2> DEFINE walk == [worker[w] EXCEPT !.pc = pc, !.key = 0, !.bytes = 0,
                                       !.etag[worker[w].key] = 0,
                                       !.entries[worker[w].key] = entry]
  <2>1. pc \in Stages /\ pc \notin AtObject \cup {"unchunk", "unlist"}
    BY DEF Stages, AtObject
  <2>2. Becomes(w, walk)
    BY <1>q, <2>1, PassesListedBecomes
  <2>3. AtHand(walk)
    BY <1>g, <2>1
  <2> QED
    BY <2>2, <2>3
<1>1. CASE ReadFence(w)
  <2>1. Goes(w, "ensure") \/ Leaves(w)
    BY <1>1 DEF ReadFence
  <2>2. \E walk : Becomes(w, walk) /\ AtHand(walk)
    BY <1>g, <1>l, <2>1, GoesBecomes, LeavesBecomes DEF Stages, AtObject
  <2> QED
    BY <1>1, <1>h, <1>t, <2>2 DEF ReadFence
<1>2. CASE EnsureIndex(w)
  <2>1. Becomes(w, [worker[w] EXCEPT !.pc = "mark"]) /\ AtHand([worker[w] EXCEPT !.pc = "mark"])
    BY <1>2, <1>g, GoesBecomes DEF EnsureIndex, Stages, AtObject
  <2>2. HandInv'
    BY <2>1, BecomesHand
  <2>3. TypeOK'
    BY <1>2, <2>1, WalkFrame DEF EnsureIndex, TypeOK, Becomes
  <2> QED
    BY <2>2, <2>3
<1>3. CASE Mark(w)
  <2>1. Becomes(w, [worker[w] EXCEPT !.pc = "load"]) /\ AtHand([worker[w] EXCEPT !.pc = "load"])
    BY <1>3, <1>g, GoesBecomes DEF Mark, Stages, AtObject
  <2> QED
    BY <1>3, <1>h, <1>t, <2>1, TellsType DEF Mark
<1>4. CASE LoadManifest(w)
  <2> DEFINE walk == [NoWalk EXCEPT !.pc = "resume", !.entries = manifest]
  <2>1. Becomes(w, walk) /\ AtHand(walk)
    BY <1>4, LoadsBecomes DEF AtHand, NoWalk, AtObject
  <2>2. HandInv'
    BY <2>1, BecomesHand
  <2>3. absent' \in [Workers -> SUBSET Keys]
    BY <1>4 DEF LoadManifest, TypeOK
  <2>4. TypeOK'
    BY <1>4, <2>1, <2>3, WalkFrame DEF LoadManifest, TypeOK, Becomes
  <2> QED
    BY <2>2, <2>4
<1>5. CASE LoadCheckpoint(w)
  <2>1. PICK token \in Tokens :
          Becomes(w, [worker[w] EXCEPT !.pc = "page", !.token = token, !.full = (token = 0)])
    BY <1>5, ResumesBecomes
  <2>2. AtHand([worker[w] EXCEPT !.pc = "page", !.token = token, !.full = (token = 0)])
    BY <1>w DEF Walks, AtHand, AtObject
  <2> QED
    BY <1>5, <1>h, <1>t, <2>1, <2>2 DEF LoadCheckpoint
<1>6. CASE ListPage(w)
  <2>1. PICK next \in Tokens :
          worker' = [worker EXCEPT
                ![w] = [worker[w] EXCEPT !.pc = "object", !.next = next,
                                         !.page = Page(w, next),
                                         !.etag = [k \in Keys |->
                                            IF k \in Page(w, next) THEN object[k] ELSE 0],
                                         !.seen = worker[w].seen \cup Page(w, next)]]
    BY <1>6 DEF ListPage
  <2> DEFINE walk == [worker[w] EXCEPT !.pc = "object", !.next = next,
                                       !.page = Page(w, next),
                                       !.etag = [k \in Keys |->
                                          IF k \in Page(w, next) THEN object[k] ELSE 0],
                                       !.seen = worker[w].seen \cup Page(w, next)]
  <2>2. Becomes(w, walk)
    BY <2>1, ListsBecomes
  <2>3. AtHand(walk)
    BY <1>w DEF Walks, AtHand, AtObject
  <2> QED
    BY <1>6, <1>h, <1>t, <2>2, <2>3 DEF ListPage
<1>7. CASE Pick(w)
  <2>1. CASE Goes(w, "next")
    <3>1. Becomes(w, [worker[w] EXCEPT !.pc = "next"])
          /\ AtHand([worker[w] EXCEPT !.pc = "next"])
      BY <1>g, <2>1, GoesBecomes DEF Stages, AtObject
    <3> QED
      BY <1>7, <1>h, <1>t, <3>1 DEF Pick
  <2>2. ASSUME NEW k \in worker[w].page,
               worker' = [worker EXCEPT
                 ![w] = IF worker[w].entries[k].etag = worker[w].etag[k]
                        THEN [worker[w] EXCEPT !.page = worker[w].page \ {k}, !.etag[k] = 0]
                        ELSE [worker[w] EXCEPT
                                !.page = worker[w].page \ {k}, !.key = k,
                                !.pc = IF worker[w].entries[k] = NoEntry THEN "read"
                                       ELSE "drop"]]
        PROVE  \E walk : Becomes(w, walk) /\ AtHand(walk)
    <3>1. k \in Keys
      BY <1>w DEF Walks
    <3>2. CASE Becomes(w, [worker[w] EXCEPT !.page = worker[w].page \ {k}, !.etag[k] = 0])
      <4>1. worker[w].pc = "object"
        BY <1>7 DEF Pick
      <4>2. AtHand([worker[w] EXCEPT !.page = worker[w].page \ {k}, !.etag[k] = 0])
        BY <1>w, <4>1 DEF Walks, AtHand, AtObject
      <4> QED
        BY <3>2, <4>2
    <3>3. ASSUME NEW pc \in {"read", "drop"},
                 Becomes(w, [worker[w] EXCEPT !.page = worker[w].page \ {k}, !.key = k,
                                              !.pc = pc])
          PROVE  \E walk : Becomes(w, walk) /\ AtHand(walk)
      <4>1. AtHand([worker[w] EXCEPT !.page = worker[w].page \ {k}, !.key = k, !.pc = pc])
        BY <1>w, <3>1, <3>3 DEF Walks, AtHand, AtObject
      <4> QED
        BY <3>3, <4>1
    <3> QED
      BY <2>2, <3>2, <3>3, PicksBecomes
  <2> QED
    BY <1>7, <1>h, <1>t, <2>1, <2>2 DEF Pick
<1>8. CASE DropOld(w)
  <2>1. worker[w].key \in Keys
    BY <1>8, <1>w DEF DropOld, AtHand, AtObject
  <2>2. CASE DropsChunks(worker[w].key, Known(w)) /\ Goes(w, "read")
    <3>1. Becomes(w, [worker[w] EXCEPT !.pc = "read"])
      BY <2>2, GoesBecomes DEF Stages
    <3>2. AtHand([worker[w] EXCEPT !.pc = "read"])
      BY <1>w, <2>1 DEF Walks, AtHand, AtObject
    <3> QED
      BY <1>8, <1>h, <1>t, <2>1, <2>2, <3>1, <3>2, CallTypes, KnownType DEF DropOld
  <2>3. CASE Passes(w, "object") /\ UNCHANGED vectors
    <3>1. \E walk : Becomes(w, walk) /\ AtHand(walk)
      BY <1>p, <2>3
    <3> QED
      BY <1>8, <1>h, <1>t, <2>3, <3>1 DEF DropOld
  <2> QED
    BY <1>8, <2>2, <2>3 DEF DropOld
<1>9. CASE Read(w)
  <2>1. worker[w].key \in Keys
    BY <1>9, <1>w DEF Read, AtHand, AtObject
  <2> DEFINE content == object[worker[w].key]
  <2>2. content \in 0..LastVersion
    BY <2>1 DEF TypeOK
  <2>3. \/ /\ content # 0 
           /\ worker' = [worker EXCEPT ![w].pc = "upsert", ![w].bytes = content]
        \/ Goes(w, "forget")
        \/ Passes(w, "object")
    BY <1>9 DEF Read
  <2>4. CASE content # 0 /\ worker' = [worker EXCEPT ![w].pc = "upsert", ![w].bytes = content]
    <3>1. content \in Versions
      BY <2>2, <2>4 DEF Versions
    <3>2. Becomes(w, [worker[w] EXCEPT !.pc = "upsert", !.bytes = content])
      BY <2>4, <3>1, ReadsBecomes
    <3>3. AtHand([worker[w] EXCEPT !.pc = "upsert", !.bytes = content])
      BY <1>w, <2>1, <3>1 DEF Walks, AtHand, AtObject
    <3> QED
      BY <1>9, <1>h, <1>t, <3>2, <3>3 DEF Read
  <2>5. CASE Goes(w, "forget")
    <3>1. Becomes(w, [worker[w] EXCEPT !.pc = "forget"])
      BY <2>5, GoesBecomes DEF Stages
    <3>2. AtHand([worker[w] EXCEPT !.pc = "forget"])
      BY <1>w, <2>1 DEF Walks, AtHand, AtObject
    <3> QED
      BY <1>9, <1>h, <1>t, <3>1, <3>2 DEF Read
  <2>6. CASE Passes(w, "object")
    <3>1. \E walk : Becomes(w, walk) /\ AtHand(walk)
      BY <1>p, <2>6
    <3> QED
      BY <1>9, <1>h, <1>t, <3>1 DEF Read
  <2> QED
    BY <2>3, <2>4, <2>5, <2>6
<1>10. CASE Forget(w) \/ RemoveEntry(w)
  <2>1. worker[w].key \in Keys
    BY <1>10, <1>w DEF Forget, RemoveEntry, AtHand, AtObject
  <2>2. /\ Lists(worker[w].key, NoEntry)
        /\ PassesListed(w, "object", NoEntry) \/ PassesListed(w, "remove", NoEntry)
    BY <1>10 DEF Forget, RemoveEntry
  <2>3. \E walk : Becomes(w, walk) /\ AtHand(walk)
    BY <1>q, <2>2, EntryTypes
  <2> QED
    BY <1>10, <1>h, <1>t, <2>1, <2>2, <2>3, CallTypes, EntryTypes DEF Forget, RemoveEntry
<1>11. CASE Upsert(w)
  <2>1. worker[w].key \in Keys /\ worker[w].bytes \in Versions
    BY <1>11, <1>w DEF Upsert, AtHand, AtObject
  <2>2. CASE Upserts(worker[w].key, worker[w].bytes) /\ Goes(w, "save")
    <3>1. Becomes(w, [worker[w] EXCEPT !.pc = "save"])
      BY <2>2, GoesBecomes DEF Stages
    <3>2. AtHand([worker[w] EXCEPT !.pc = "save"])
      BY <1>w, <2>1 DEF Walks, AtHand, AtObject
    <3> QED
      BY <1>11, <1>h, <1>t, <2>1, <2>2, <3>1, <3>2, CallTypes DEF Upsert
  <2>3. CASE Passes(w, "object") /\ UNCHANGED vectors
    <3>1. \E walk : Becomes(w, walk) /\ AtHand(walk)
      BY <1>p, <2>3
    <3> QED
      BY <1>11, <1>h, <1>t, <2>3, <3>1 DEF Upsert
  <2> QED
    BY <1>11, <2>2, <2>3 DEF Upsert
<1>12. CASE Save(w)
  <2>1. worker[w].key \in Keys /\ worker[w].bytes \in Versions
    BY <1>12, <1>w DEF Save, AtHand, AtObject
  <2>2. EntryOf(w) \in Entries
    BY <2>1, EntryOfType
  <2>3. \E walk : Becomes(w, walk) /\ AtHand(walk)
    BY <1>12, <1>q, <2>2 DEF Save
  <2> QED
    BY <1>12, <1>h, <1>t, <2>1, <2>2, <2>3, CallTypes DEF Save
<1>13. CASE NextPage(w)
  <2>1. \E walk : Becomes(w, walk) /\ AtHand(walk)
    <3>1. /\ AtHand([worker[w] EXCEPT !.pc = "page", !.token = worker[w].next])
          /\ AtHand([worker[w] EXCEPT !.pc = "remove", !.left = Unseen(w)])
          /\ AtHand([worker[w] EXCEPT !.pc = "clear"])
      BY <1>w DEF Walks, AtHand, AtObject
    <3> QED
      BY <1>13, <3>1, NextBecomes
  <2>2. checkpoint' \in {NoCheckpoint} \cup Tokens
    BY <1>13, <1>w, <1>t DEF NextPage, Walks
  <2> QED
    BY <1>13, <1>h, <1>t, <2>1, <2>2 DEF NextPage
<1>14. CASE PickUnseen(w)
  <2>1. CASE Goes(w, "clear")
    <3>1. \E walk : Becomes(w, walk) /\ AtHand(walk)
      BY <1>g, <2>1, GoesBecomes DEF Stages, AtObject
    <3> QED
      BY <1>14, <1>h, <1>t, <3>1 DEF PickUnseen
  <2>2. ASSUME NEW k \in worker[w].left,
               worker' = [worker EXCEPT ![w].pc = "unchunk", ![w].key = k,
                                        ![w].left = worker[w].left \ {k}]
        PROVE  \E walk : Becomes(w, walk) /\ AtHand(walk)
    <3>1. AtHand([worker[w] EXCEPT !.pc = "unchunk", !.key = k,
                                   !.left = worker[w].left \ {k}])
      BY <1>w DEF Walks, AtHand, AtObject
    <3> QED
      BY <2>2, <3>1, RemovesBecomes
  <2> QED
    BY <1>14, <1>h, <1>t, <2>1, <2>2 DEF PickUnseen
<1>15. CASE RemoveChunks(w)
  <2>1. worker[w].key \in Keys
    BY <1>15, <1>w DEF RemoveChunks, AtHand
  <2>2. CASE DropsChunks(worker[w].key, Known(w)) /\ Goes(w, "unlist")
    <3>1. Becomes(w, [worker[w] EXCEPT !.pc = "unlist"])
      BY <2>2, GoesBecomes DEF Stages
    <3>2. AtHand([worker[w] EXCEPT !.pc = "unlist"])
      BY <1>w, <2>1 DEF Walks, AtHand, AtObject
    <3> QED
      BY <1>15, <1>h, <1>t, <2>1, <2>2, <3>1, <3>2, CallTypes, KnownType DEF RemoveChunks
  <2>3. CASE Passes(w, "remove") /\ UNCHANGED vectors
    <3>1. \E walk : Becomes(w, walk) /\ AtHand(walk)
      BY <1>p, <2>3
    <3> QED
      BY <1>15, <1>h, <1>t, <2>3, <3>1 DEF RemoveChunks
  <2> QED
    BY <1>15, <2>2, <2>3 DEF RemoveChunks
<1>16. CASE Clear(w)
  <2>1. \E walk : Becomes(w, walk) /\ AtHand(walk)
    BY <1>16, <1>g, <1>l, GoesBecomes, LeavesBecomes DEF Clear, Stages, AtObject
  <2> QED
    BY <1>16, <1>h, <1>t, <2>1 DEF Clear
<1>17. CASE Tell(w) \/ TellError(w)
  <2>1. Becomes(w, NoWalk)
    BY <1>17, LeavesBecomes DEF Tell, TellError
  <2>2. row' \in Rows
    BY <1>17, TellsType DEF Tell, TellError
  <2> QED
    BY <1>17, <1>h, <1>l, <1>t, <2>1, <2>2 DEF Tell, TellError
<1> QED
  BY <1>1, <1>2, <1>3, <1>4, <1>5, <1>6, <1>7, <1>8, <1>9, <1>10, <1>11, <1>12, <1>13,
     <1>14, <1>15, <1>16, <1>17 DEF WalkStep

LEMMA WalkCutType ==
    ASSUME TypeOK, HandInv, NEW w \in Workers, Dispatch(w) \/ WalkCut(w)
    PROVE  TypeOK' /\ HandInv'
<1> USE DEF storeVars
<1>w. worker[w] \in Walks /\ AtHand(worker[w])
  BY DEF TypeOK, HandInv
<1>h. ASSUME NEW walk, Becomes(w, walk), AtHand(walk),
             UNCHANGED <<index, vectors, manifest, absent, walkUnchanged>>,
             checkpoint' \in {NoCheckpoint} \cup Tokens, row' \in Rows,
             faults' \in 0..MaxFaults
      PROVE  TypeOK' /\ HandInv'
  <2>1. TypeOK'
    BY <1>h, WalkFrame DEF TypeOK, Becomes
  <2> QED
    BY <1>h, <2>1, BecomesHand
<1>t. checkpoint \in {NoCheckpoint} \cup Tokens /\ row \in Rows /\ faults \in 0..MaxFaults
  BY DEF TypeOK
<1>l. AtHand(NoWalk)
  BY DEF AtHand, NoWalk, AtObject
<1>1. CASE Dispatch(w)
  <2>1. AtHand([worker[w] EXCEPT !.pc = "fence"])
    BY <1>w DEF Walks, AtHand, AtObject
  <2>2. Becomes(w, [worker[w] EXCEPT !.pc = "fence"])
    BY <1>1, GoesBecomes DEF Dispatch, Stages
  <2> QED
    BY <1>1, <1>h, <1>t, <2>1, <2>2 DEF Dispatch
<1>2. CASE Deadline(w) \/ Dies(w)
  <2>1. Becomes(w, NoWalk)
    BY <1>2, LeavesBecomes DEF Deadline, Dies
  <2>2. faults' \in 0..MaxFaults
    BY <1>2, FaultType DEF Deadline, Dies
  <2>3. checkpoint' \in {NoCheckpoint} \cup Tokens
    BY <1>2, <1>w, <1>t DEF Deadline, Dies, Walks
  <2> QED
    BY <1>2, <1>h, <1>l, <1>t, <2>1, <2>2, <2>3 DEF Deadline, Dies
<1>3. CASE ObjectFails(w) \/ RemovalFails(w)
  <2>1. PICK pc \in {"object", "remove"} : Passes(w, pc)
    BY <1>3 DEF ObjectFails, RemovalFails
  <2> DEFINE walk == [worker[w] EXCEPT !.pc = pc, !.key = 0, !.bytes = 0,
                                       !.etag[worker[w].key] = 0]
  <2>2. Becomes(w, walk)
    BY <2>1, PassesBecomes DEF Stages
  <2>3. AtHand(walk)
    BY <1>w DEF Walks, AtHand, AtObject
  <2>4. faults' \in 0..MaxFaults
    BY <1>3, FaultType DEF ObjectFails, RemovalFails
  <2> QED
    BY <1>3, <1>h, <1>t, <2>2, <2>3, <2>4 DEF ObjectFails, RemovalFails
<1>4. CASE WalkFails(w)
  <2>1. AtHand([worker[w] EXCEPT !.pc = "error"])
    BY <1>w DEF Walks, AtHand, AtObject
  <2>2. Becomes(w, [worker[w] EXCEPT !.pc = "error"])
    BY <1>4, GoesBecomes DEF WalkFails, Stages
  <2>3. faults' \in 0..MaxFaults
    BY <1>4, FaultType DEF WalkFails
  <2> QED
    BY <1>4, <1>h, <1>t, <2>1, <2>2, <2>3 DEF WalkFails
<1> QED
  BY <1>1, <1>2, <1>3, <1>4 DEF WalkCut

\* What is not a step of a walk leaves every walk alone.
LEMMA OtherType ==
    ASSUME TypeOK, HandInv, Expire \/ BucketStep \/ ToggleStep \/ PurgeStep
    PROVE  TypeOK' /\ HandInv' /\ worker' = worker
<1> USE DEF bucketVars, storeVars, requestVars, teardownVars, bucketUnchanged,
            toggleUnchanged, purgeUnchanged, walkUnchanged
<1>h. ASSUME worker' = worker PROVE HandInv'
  BY <1>h DEF HandInv, AtHand
<1>1. CASE Expire
  BY <1>1, <1>h DEF Expire, TypeOK
<1>2. ASSUME NEW k \in Keys, NEW content \in Versions, Put(k, content) PROVE TypeOK' /\ worker' = worker
  <2>1. puts' \in 0..MaxPuts
    BY <1>2, ConstantsAssumption DEF Put, TypeOK
  <2>2. content \in 0..LastVersion
    BY EntryTypes
  <2> QED
    BY <1>2, <2>1, <2>2 DEF Put, TypeOK
<1>3. ASSUME NEW k \in Keys, Remove(k) PROVE TypeOK' /\ worker' = worker
  <2>1. puts' \in 0..MaxPuts
    BY <1>3, ConstantsAssumption DEF Remove, TypeOK
  <2>2. absent' \in [Workers -> SUBSET Keys]
    BY <1>3 DEF Remove, TypeOK
  <2> QED
    BY <1>3, <2>1, <2>2, EntryTypes DEF Remove, TypeOK
<1>4. CASE WriteRow
  <2>1. Toggled \in Rows
    BY DEF TypeOK, Toggled, Rows
  <2>2. toggle' \in [pc : {"idle", "write"}, read : Rows, active : BOOLEAN]
    BY <1>4 DEF WriteRow, TypeOK
  <2>3. row' \in Rows
    BY <1>4, <2>1 DEF WriteRow, TypeOK
  <2> QED
    BY <1>4, <1>h, <2>2, <2>3 DEF WriteRow, TypeOK
<1>5. ASSUME NEW active \in BOOLEAN, ReadRow(active) PROVE TypeOK' /\ worker' = worker
  <2>1. toggles' \in 0..MaxToggles
    BY <1>5, ConstantsAssumption DEF ReadRow, TypeOK
  <2>2. toggle' \in [pc : {"idle", "write"}, read : Rows, active : BOOLEAN]
    BY <1>5 DEF ReadRow, TypeOK
  <2> QED
    BY <1>5, <2>1, <2>2 DEF ReadRow, TypeOK
<1>6. CASE Fence
  BY <1>6, <1>h DEF Fence, TypeOK
<1>7. CASE ScanRows
  BY <1>7, <1>h DEF ScanRows, TypeOK, Listed
<1>8. CASE PurgeEntry
  <2>1. manifest' \in [Keys -> Entries]
    BY <1>8, CallTypes, EntryTypes DEF PurgeEntry, TypeOK
  <2>2. purge' \in [pc : {"idle", "rows", "row", "checkpoint", "index"}, left : SUBSET Keys]
    <3>1. purge \in [pc : {"idle", "rows", "row", "checkpoint", "index"}, left : SUBSET Keys]
      BY DEF TypeOK
    <3>2. \/ purge' = [purge EXCEPT !.pc = "row"]
          \/ \E k \in Keys : purge' = [purge EXCEPT !.left = purge.left \ {k}]
      BY <1>8, <3>1 DEF PurgeEntry
    <3> QED
      BY <3>1, <3>2
  <2> QED
    BY <1>8, <1>h, <2>1, <2>2 DEF PurgeEntry, TypeOK
<1>9. CASE PurgeRow
  <2>1. NoRow \in Rows
    BY DEF NoRow, Rows
  <2> QED
    BY <1>9, <1>h, <2>1 DEF PurgeRow, TypeOK
<1>10. CASE PurgeCheckpoint
  BY <1>10, <1>h DEF PurgeCheckpoint, TypeOK
<1>11. CASE DropIndex
  BY <1>11, <1>h, EntryTypes DEF DropIndex, TypeOK
<1>12. CASE PurgeFails
  <2>1. faults' \in 0..MaxFaults
    BY <1>12, FaultType DEF PurgeFails
  <2> QED
    BY <1>12, <1>h, <2>1 DEF PurgeFails, TypeOK
<1> QED
  BY <1>1, <1>2, <1>3, <1>4, <1>5, <1>6, <1>7, <1>8, <1>9, <1>10, <1>11, <1>12, <1>h
     DEF BucketStep, ToggleStep, PurgeStep

LEMMA InitType == Init => TypeOK /\ HandInv
<1> SUFFICES ASSUME Init PROVE TypeOK /\ HandInv
  OBVIOUS
<1>1. worker \in [Workers -> Walks] /\ HandInv
  BY NoWalkType DEF Init, HandInv, AtHand, NoWalk, AtObject
<1>2. row \in Rows /\ toggle \in [pc : {"idle", "write"}, read : Rows, active : BOOLEAN]
  BY DEF Init, NoRow, Rows
<1>3. object \in [Keys -> 0..LastVersion] /\ newest \in [Keys -> 0..LastVersion]
  BY ConstantsAssumption DEF Init
<1>4. vectors \in [Keys -> [1..MaxChunks -> 0..LastVersion]] /\ manifest \in [Keys -> Entries]
  BY EntryTypes DEF Init
<1>5. toggles \in 0..MaxToggles /\ puts \in 0..MaxPuts /\ faults \in 0..MaxFaults
  BY ConstantsAssumption DEF Init
<1>6. purge \in [pc : {"idle", "rows", "row", "checkpoint", "index"}, left : SUBSET Keys]
  BY DEF Init
<1>7. absent \in [Workers -> SUBSET Keys] /\ astray \subseteq Workers
  BY DEF Init
<1> QED
  BY <1>1, <1>2, <1>3, <1>4, <1>5, <1>6, <1>7 DEF Init, TypeOK

LEMMA TypeStep ==
    ASSUME TypeOK, HandInv, [Next]_vars
    PROVE  TypeOK' /\ HandInv'
<1>1. CASE UNCHANGED vars
  BY <1>1 DEF vars, TypeOK, HandInv, AtHand
<1> QED
  BY <1>1, WalkStepType, WalkCutType, OtherType DEF Next

\* Every variable keeps its type, and what a walk says it has at hand it has.
THEOREM TypeCorrect == Spec => [](TypeOK /\ HandInv)
BY InitType, TypeStep, PTL DEF Spec

-----------------------------------------------------------------------------
(* The enablement row *)

LEMMA RowStep ==
    ASSUME TypeOK, RowInv, [Next]_vars
    PROVE  RowInv'
<1> USE DEF bucketVars, storeVars, requestVars, teardownVars, bucketUnchanged,
            toggleUnchanged, purgeUnchanged, walkUnchanged
<1>t. ASSUME NEW sync, Tells(sync), UNCHANGED teardownVars PROVE RowInv'
  BY <1>t DEF Tells, RowInv
<1>1. CASE UNCHANGED vars
  BY <1>1 DEF vars, RowInv
<1>2. ASSUME NEW w \in Workers, Mark(w) \/ Tell(w) \/ TellError(w) PROVE RowInv'
  BY <1>2, <1>t DEF Mark, Tell, TellError
<1>3. ASSUME NEW w \in Workers, Dispatch(w) \/ WalkStep(w) \/ WalkCut(w),
             ~(Mark(w) \/ Tell(w) \/ TellError(w))
      PROVE  RowInv'
  <2>1. UNCHANGED <<row, org, purge>>
    BY <1>3 DEF Dispatch, WalkStep, WalkCut, ReadFence, EnsureIndex, LoadManifest,
                LoadCheckpoint, ListPage, Pick, DropOld, Read, Forget, Upsert, Save,
                NextPage, PickUnseen, RemoveChunks, RemoveEntry, Clear, Deadline,
                ObjectFails, RemovalFails, WalkFails, Dies
  <2> QED
    BY <2>1 DEF RowInv
<1>4. CASE Expire \/ BucketStep
  <2>1. UNCHANGED <<row, org, purge>>
    BY <1>4 DEF Expire, BucketStep, Put, Remove
  <2> QED
    BY <2>1 DEF RowInv
<1>5. CASE ToggleStep
  BY <1>5 DEF ToggleStep, WriteRow, ReadRow, RowInv
<1>6. CASE Fence \/ ScanRows
  BY <1>6 DEF Fence, ScanRows, RowInv
<1>7. CASE PurgeEntry
  <2>1. UNCHANGED <<row, org>> /\ purge.pc = "rows" /\ purge'.pc \in {"rows", "row"}
    BY <1>7 DEF PurgeEntry, TypeOK
  <2> QED
    BY <2>1 DEF RowInv
<1>8. CASE PurgeRow \/ PurgeCheckpoint
  BY <1>8 DEF PurgeRow, PurgeCheckpoint, NoRow, RowInv
<1>9. CASE DropIndex \/ PurgeFails
  BY <1>9 DEF DropIndex, PurgeFails, RowInv
<1> QED
  BY <1>1, <1>2, <1>3, <1>4, <1>5, <1>6, <1>7, <1>8, <1>9 DEF Next, PurgeStep, WalkStep

\* Whatever request was under way when the fence went up, and whatever worker, no
\* enablement row is left of an organization whose teardown is over.
THEOREM RowsGo == Spec => []NoRowOutlivesTeardown
<1>1. Init => RowInv
  BY DEF Init, RowInv
<1>2. RowInv => NoRowOutlivesTeardown
  BY DEF RowInv, NoRowOutlivesTeardown
<1> QED
  BY <1>1, <1>2, RowStep, TypeCorrect, PTL DEF Spec

-----------------------------------------------------------------------------
(* What is removed as unseen was gone *)

LEMMA BecomesEnumerated ==
    ASSUME WalkInv, NEW w \in Workers, NEW walk, Becomes(w, walk), object' = object,
           Enumerated(walk, absent'[w]),
           \A v \in Workers : v # w => absent'[v] = absent[v]
    PROVE  WalkInv'
<1> SUFFICES ASSUME NEW v \in Workers PROVE Enumerated(worker[v], absent[v])'
  BY DEF WalkInv
<1>1. CASE v = w
  BY <1>1 DEF Becomes, Enumerated
<1>2. CASE v # w
  <2>1. Enumerated(worker[v], absent[v])
    BY DEF WalkInv
  <2> QED
    BY <1>2, <2>1 DEF Becomes, Enumerated
<1> QED
  BY <1>1, <1>2

LEMMA EnumeratedStep ==
    ASSUME TypeOK, HandInv, WalkInv, NEW w \in Workers, WalkStep(w)
    PROVE  WalkInv'
<1> USE DEF storeVars, walkUnchanged, bucketVars
<1>w. worker[w] \in Walks /\ Enumerated(worker[w], absent[w])
  BY DEF TypeOK, WalkInv
<1>h. ASSUME NEW walk, Becomes(w, walk), Enumerated(walk, absent[w]),
             UNCHANGED <<absent, object>>
      PROVE  WalkInv'
  BY <1>h, BecomesEnumerated
<1>l. Enumerated(NoWalk, absent[w])
  BY DEF Enumerated, NoWalk, Loaded, InPage, AtObject, AtRemoval
\* From one pc to another where the same is known of the walk.
<1>g. ASSUME NEW pc \in Stages, Goes(w, pc), UNCHANGED <<absent, object>>,
             \/ pc \notin Loaded
             \/ worker[w].pc \in InPage /\ pc \in InPage
             \/ worker[w].pc \in {"unchunk", "unlist"} /\ pc \in {"unchunk", "unlist"}
             \/ worker[w].pc \in Loaded /\ pc \in {"clear", "tell"}
      PROVE  WalkInv'
  <2>1. Becomes(w, [worker[w] EXCEPT !.pc = pc])
    BY <1>g, GoesBecomes
  <2>2. Enumerated([worker[w] EXCEPT !.pc = pc], absent[w])
    BY <1>g, <1>w DEF Walks, Enumerated, Loaded, InPage, AtObject, AtRemoval
  <2> QED
    BY <1>g, <1>h, <2>1, <2>2
<1>p. ASSUME NEW pc \in {"object", "remove"}, Passes(w, pc), UNCHANGED <<absent, object>>,
             \/ worker[w].pc \in AtObject /\ pc = "object"
             \/ worker[w].pc \in {"unchunk", "unlist"} /\ pc = "remove"
      PROVE  WalkInv'
  <2> DEFINE walk == [worker[w] EXCEPT !.pc = pc, !.key = 0, !.bytes = 0,
                                       !.etag[worker[w].key] = 0]
  <2>1. Becomes(w, walk)
    BY <1>p, PassesBecomes DEF Stages
  <2>2. Enumerated(walk, absent[w])
    BY <1>p, <1>w DEF Walks, Enumerated, Loaded, InPage, AtObject, AtRemoval
  <2> QED
    BY <1>p, <1>h, <2>1, <2>2
<1>q. ASSUME NEW pc \in {"object", "remove"}, NEW entry \in Entries,
             PassesListed(w, pc, entry), UNCHANGED <<absent, object>>,
             \/ worker[w].pc \in AtObject /\ pc = "object"
             \/ worker[w].pc \in {"unchunk", "unlist"} /\ pc = "remove"
      PROVE  WalkInv'
  <2> DEFINE walk == [worker[w] EXCEPT !.pc = pc, !.key = 0, !.bytes = 0,
                                       !.etag[worker[w].key] = 0,
                                       !.entries[worker[w].key] = entry]
  <2>0. pc \in Stages
    BY DEF Stages
  <2>1. Becomes(w, walk)
    BY <1>q, <2>0, PassesListedBecomes
  <2>2. Enumerated(walk, absent[w])
    BY <1>q, <1>w DEF Walks, Enumerated, Loaded, InPage, AtObject, AtRemoval
  <2> QED
    BY <1>q, <1>h, <2>1, <2>2
<1>1. CASE ReadFence(w) \/ EnsureIndex(w) \/ Mark(w)
  <2>1. \/ Goes(w, "ensure") \/ Goes(w, "mark") \/ Goes(w, "load") \/ Leaves(w)
    BY <1>1 DEF ReadFence, EnsureIndex, Mark
  <2>2. UNCHANGED <<absent, object>>
    BY <1>1 DEF ReadFence, EnsureIndex, Mark
  <2>3. {"ensure", "mark", "load"} \subseteq Stages \ Loaded
    BY DEF Stages, Loaded, InPage, AtObject, AtRemoval
  <2> QED
    BY <1>g, <1>h, <1>l, <2>1, <2>2, <2>3, LeavesBecomes
<1>4. CASE LoadManifest(w)
  <2> DEFINE walk == [NoWalk EXCEPT !.pc = "resume", !.entries = manifest]
             gone == {k \in Keys : object[k] = 0}
  <2>1. Becomes(w, walk)
    BY <1>4, LoadsBecomes
  <2>2. absent'[w] = gone /\ \A v \in Workers : v # w => absent'[v] = absent[v]
    BY <1>4 DEF LoadManifest, TypeOK
  <2>3. Enumerated(walk, gone)
    BY DEF Enumerated, NoWalk, Loaded, InPage, AtObject, AtRemoval
  <2> QED
    BY <1>4, <2>1, <2>2, <2>3, BecomesEnumerated DEF LoadManifest
<1>5. CASE LoadCheckpoint(w)
  <2>1. PICK token \in Tokens :
          Becomes(w, [worker[w] EXCEPT !.pc = "page", !.token = token, !.full = (token = 0)])
    BY <1>5, ResumesBecomes
  <2>2. Enumerated([worker[w] EXCEPT !.pc = "page", !.token = token, !.full = (token = 0)],
                   absent[w])
    <3>1. token = 0 => \A k \in Keys : ~(k <= token)
      BY DEF Keys
    <3>2. worker[w].pc = "resume"
      BY <1>5 DEF LoadCheckpoint
    <3> QED
      BY <1>w, <3>1, <3>2 DEF Walks, Enumerated, Loaded, InPage, AtObject, AtRemoval
  <2> QED
    BY <1>5, <1>h, <2>1, <2>2 DEF LoadCheckpoint
<1>6. CASE ListPage(w)
  <2>1. PICK next \in Tokens :
          worker' = [worker EXCEPT
                ![w] = [worker[w] EXCEPT !.pc = "object", !.next = next,
                                         !.page = Page(w, next),
                                         !.etag = [k \in Keys |->
                                            IF k \in Page(w, next) THEN object[k] ELSE 0],
                                         !.seen = worker[w].seen \cup Page(w, next)]]
    BY <1>6 DEF ListPage
  <2> DEFINE walk == [worker[w] EXCEPT !.pc = "object", !.next = next,
                                       !.page = Page(w, next),
                                       !.etag = [k \in Keys |->
                                          IF k \in Page(w, next) THEN object[k] ELSE 0],
                                       !.seen = worker[w].seen \cup Page(w, next)]
  <2>2. Becomes(w, walk)
    BY <2>1, ListsBecomes
  <2>3. walk.seen = worker[w].seen \cup Page(w, next) /\ walk.next = next
        /\ walk.pc = "object" /\ walk.full = worker[w].full
    BY <1>w DEF Walks
  <2>4. worker[w].pc = "page"
    BY <1>6 DEF ListPage
  <2>5. \A k \in Keys : object[k] = 0 => k \in absent[w]
    BY <1>w, <2>4 DEF Enumerated, Loaded
  <2>6. worker[w].full => \A k \in Keys : k <= worker[w].token => k \in worker[w].seen \cup absent[w]
    BY <1>w, <2>4 DEF Enumerated
  <2>7. ASSUME worker[w].full, NEW k \in Keys, next = 0 \/ k <= next
        PROVE  k \in walk.seen \cup absent[w]
    <3>1. worker[w].token \in Int /\ k \in Int
      BY <1>w DEF Walks, Tokens, Keys
    <3>2. CASE k <= worker[w].token
      BY <2>3, <2>6, <2>7, <3>2
    <3>3. CASE object[k] = 0
      BY <2>5, <3>3
    <3>4. CASE worker[w].token < k /\ object[k] # 0
      BY <2>3, <2>7, <3>4 DEF Page
    <3> QED
      BY <3>1, <3>2, <3>3, <3>4
  <2> HIDE DEF walk
  <2>8. Enumerated(walk, absent[w])
    BY <2>3, <2>5, <2>7 DEF Enumerated, Loaded, InPage, AtObject, AtRemoval
  <2> QED
    BY <1>6, <1>h, <2>2, <2>8 DEF ListPage, walk
<1>7. CASE Pick(w)
  <2>0. worker[w].pc = "object" /\ UNCHANGED <<absent, object>>
    BY <1>7 DEF Pick
  <2>1. CASE Goes(w, "next")
    BY <1>g, <2>0, <2>1 DEF Stages, InPage
  <2>2. ASSUME NEW k \in worker[w].page,
               worker' = [worker EXCEPT
                 ![w] = IF worker[w].entries[k].etag = worker[w].etag[k]
                        THEN [worker[w] EXCEPT !.page = worker[w].page \ {k}, !.etag[k] = 0]
                        ELSE [worker[w] EXCEPT
                                !.page = worker[w].page \ {k}, !.key = k,
                                !.pc = IF worker[w].entries[k] = NoEntry THEN "read"
                                       ELSE "drop"]]
        PROVE  \E walk : Becomes(w, walk) /\ Enumerated(walk, absent[w])
    <3>1. Enumerated([worker[w] EXCEPT !.page = worker[w].page \ {k}, !.etag[k] = 0], absent[w])
      BY <1>w, <2>0 DEF Walks, Enumerated, Loaded, InPage, AtObject, AtRemoval
    <3>2. \A pc \in {"read", "drop"} :
            Enumerated([worker[w] EXCEPT !.page = worker[w].page \ {k}, !.key = k,
                                         !.pc = pc], absent[w])
      BY <1>w, <2>0 DEF Walks, Enumerated, Loaded, InPage, AtObject, AtRemoval
    <3> QED
      BY <2>2, <3>1, <3>2, PicksBecomes
  <2> QED
    BY <1>7, <1>h, <2>0, <2>1, <2>2 DEF Pick
<1>8. CASE DropOld(w) \/ Upsert(w)
  <2>0. worker[w].pc \in AtObject /\ UNCHANGED <<absent, object>>
    BY <1>8 DEF DropOld, Upsert, AtObject
  <2>1. Goes(w, "read") \/ Goes(w, "save") \/ Passes(w, "object")
    BY <1>8 DEF DropOld, Upsert
  <2>2. {"read", "save"} \subseteq Stages \cap InPage /\ AtObject \subseteq InPage
    BY DEF Stages, InPage, AtObject
  <2> QED
    BY <1>g, <1>p, <2>0, <2>1, <2>2
<1>9. CASE Read(w)
  <2>0. worker[w].pc = "read" /\ UNCHANGED <<absent, object>>
    BY <1>9 DEF Read
  <2> DEFINE content == object[worker[w].key]
  <2>1. \/ /\ content # 0
           /\ worker' = [worker EXCEPT ![w].pc = "upsert", ![w].bytes = content]
        \/ Goes(w, "forget")
        \/ Passes(w, "object")
    BY <1>9 DEF Read
  <2>2. CASE content # 0 /\ worker' = [worker EXCEPT ![w].pc = "upsert", ![w].bytes = content]
    <3>1. worker[w].key \in Keys
      BY <2>0 DEF HandInv, AtHand, AtObject
    <3>2. content \in Versions
      BY <2>2, <3>1 DEF TypeOK, Versions
    <3>3. Becomes(w, [worker[w] EXCEPT !.pc = "upsert", !.bytes = content])
      BY <2>2, <3>2, ReadsBecomes
    <3>4. Enumerated([worker[w] EXCEPT !.pc = "upsert", !.bytes = content], absent[w])
      BY <1>w, <2>0 DEF Walks, Enumerated, Loaded, InPage, AtObject, AtRemoval
    <3> QED
      BY <1>h, <2>0, <3>3, <3>4
  <2>3. CASE Goes(w, "forget")
    BY <1>g, <2>0, <2>3 DEF Stages, InPage, AtObject
  <2>4. CASE Passes(w, "object")
    BY <1>p, <2>0, <2>4 DEF AtObject
  <2> QED
    BY <2>1, <2>2, <2>3, <2>4
<1>10. CASE Forget(w) \/ RemoveEntry(w)
  BY <1>10, <1>q, EntryTypes DEF Forget, RemoveEntry, AtObject
<1>12. CASE Save(w)
  <2>1. worker[w].key \in Keys /\ worker[w].bytes \in Versions
    BY <1>12 DEF Save, HandInv, AtHand, AtObject
  <2>2. EntryOf(w) \in Entries
    BY <2>1, EntryOfType
  <2> QED
    BY <1>12, <1>q, <2>2 DEF Save, AtObject
<1>13. CASE NextPage(w)
  <2>0. worker[w].pc = "next" /\ UNCHANGED <<absent, object>>
    BY <1>13 DEF NextPage
  <2>1. worker[w].next # 0 =>
          Enumerated([worker[w] EXCEPT !.pc = "page", !.token = worker[w].next], absent[w])
    BY <1>w, <2>0 DEF Walks, Enumerated, Loaded, InPage, AtObject, AtRemoval
  <2>2. worker[w].next = 0 /\ worker[w].full =>
          Enumerated([worker[w] EXCEPT !.pc = "remove", !.left = Unseen(w)], absent[w])
    <3> DEFINE left == Unseen(w)
    <3>1. worker[w].next = 0 /\ worker[w].full => left \subseteq absent[w]
      BY <1>w, <2>0 DEF Enumerated, InPage, Unseen, Listed
    <3> HIDE DEF left
    <3>2. worker[w].next = 0 /\ worker[w].full =>
            Enumerated([worker[w] EXCEPT !.pc = "remove", !.left = left], absent[w])
      BY <1>w, <2>0, <3>1 DEF Walks, Enumerated, Loaded, InPage, AtObject, AtRemoval
    <3> QED
      BY <3>2 DEF left
  <2>3. Enumerated([worker[w] EXCEPT !.pc = "clear"], absent[w])
    BY <1>w, <2>0 DEF Walks, Enumerated, Loaded, InPage, AtObject, AtRemoval
  <2> QED
    BY <1>13, <1>h, <2>0, <2>1, <2>2, <2>3, NextBecomes
<1>14. CASE PickUnseen(w)
  <2>0. worker[w].pc = "remove" /\ UNCHANGED <<absent, object>>
    BY <1>14 DEF PickUnseen
  <2>1. CASE Goes(w, "clear")
    BY <1>g, <2>0, <2>1 DEF Stages, Loaded, AtRemoval
  <2>2. ASSUME NEW k \in worker[w].left,
               worker' = [worker EXCEPT ![w].pc = "unchunk", ![w].key = k,
                                        ![w].left = worker[w].left \ {k}]
        PROVE  \E walk : Becomes(w, walk) /\ Enumerated(walk, absent[w])
    <3>1. Enumerated([worker[w] EXCEPT !.pc = "unchunk", !.key = k,
                                       !.left = worker[w].left \ {k}], absent[w])
      BY <1>w, <2>0 DEF Walks, Enumerated, Loaded, InPage, AtObject, AtRemoval
    <3> QED
      BY <2>2, <3>1, RemovesBecomes
  <2> QED
    BY <1>14, <1>h, <2>0, <2>1, <2>2 DEF PickUnseen
<1>15. CASE RemoveChunks(w)
  BY <1>15, <1>g, <1>p DEF RemoveChunks, Stages
<1>16. CASE Clear(w)
  <2>1. Goes(w, "tell") \/ Leaves(w)
    BY <1>16 DEF Clear
  <2> QED
    BY <1>16, <1>g, <1>h, <1>l, <2>1, LeavesBecomes DEF Clear, Stages, Loaded
<1>17. CASE Tell(w) \/ TellError(w)
  BY <1>17, <1>h, <1>l, LeavesBecomes DEF Tell, TellError
<1> QED
  BY <1>1, <1>4, <1>5, <1>6, <1>7, <1>8, <1>9, <1>10, <1>12, <1>13, <1>14, <1>15, <1>16,
     <1>17 DEF WalkStep

LEMMA EnumeratedCut ==
    ASSUME TypeOK, WalkInv, NEW w \in Workers, Dispatch(w) \/ WalkCut(w)
    PROVE  WalkInv'
<1> USE DEF storeVars, walkUnchanged, bucketVars
<1>w. worker[w] \in Walks /\ Enumerated(worker[w], absent[w])
  BY DEF TypeOK, WalkInv
<1>0. UNCHANGED <<absent, object>>
  BY DEF Dispatch, WalkCut, Deadline, ObjectFails, RemovalFails, WalkFails, Dies
<1>1. CASE Leaves(w)
  <2>1. Enumerated(NoWalk, absent[w])
    BY DEF Enumerated, NoWalk, Loaded, InPage, AtObject, AtRemoval
  <2> QED
    BY <1>0, <1>1, <2>1, LeavesBecomes, BecomesEnumerated
<1>2. CASE Goes(w, "fence") \/ Goes(w, "error")
  <2>1. PICK pc \in {"fence", "error"} : Goes(w, pc)
    BY <1>2
  <2>2. Becomes(w, [worker[w] EXCEPT !.pc = pc])
    BY <2>1, GoesBecomes DEF Stages
  <2>3. Enumerated([worker[w] EXCEPT !.pc = pc], absent[w])
    BY <1>w DEF Walks, Enumerated, Loaded, InPage, AtObject, AtRemoval
  <2> QED
    BY <1>0, <2>2, <2>3, BecomesEnumerated
<1>3. CASE ObjectFails(w) \/ RemovalFails(w)
  <2>1. PICK pc \in {"object", "remove"} :
          /\ Passes(w, pc)
          /\ \/ worker[w].pc \in AtObject /\ pc = "object"
             \/ worker[w].pc \in {"unchunk", "unlist"} /\ pc = "remove"
    BY <1>3 DEF ObjectFails, RemovalFails, AtObject
  <2> DEFINE walk == [worker[w] EXCEPT !.pc = pc, !.key = 0, !.bytes = 0,
                                       !.etag[worker[w].key] = 0]
  <2>2. Becomes(w, walk)
    BY <2>1, PassesBecomes DEF Stages
  <2>3. Enumerated(walk, absent[w])
    BY <2>1, <1>w DEF Walks, Enumerated, Loaded, InPage, AtObject, AtRemoval
  <2> QED
    BY <1>0, <2>2, <2>3, BecomesEnumerated
<1> QED
  BY <1>1, <1>2, <1>3 DEF Dispatch, WalkCut, Deadline, WalkFails, Dies

LEMMA EnumeratedOther ==
    ASSUME TypeOK, HandInv, WalkInv, Expire \/ BucketStep \/ ToggleStep \/ PurgeStep
    PROVE  WalkInv'
<1> USE DEF bucketUnchanged, toggleUnchanged, purgeUnchanged, walkUnchanged, bucketVars
<1>w. worker' = worker
  BY OtherType
<1>1. CASE UNCHANGED <<absent, object>>
  BY <1>w, <1>1 DEF WalkInv, Enumerated
<1>2. ASSUME NEW k \in Keys, NEW content \in Versions, Put(k, content) PROVE WalkInv'
  <2>1. absent' = absent /\ content # 0 /\ object' = [object EXCEPT ![k] = content]
    BY <1>2 DEF Put, Versions
  <2>2. \A j \in Keys : object'[j] = 0 => object[j] = 0
    BY <2>1 DEF TypeOK
  <2> QED
    BY <1>w, <2>1, <2>2 DEF WalkInv, Enumerated
<1>3. ASSUME NEW k \in Keys, Remove(k) PROVE WalkInv'
  <2>1. /\ object' = [object EXCEPT ![k] = 0]
        /\ absent' = [w \in Workers |-> absent[w] \cup {k}]
    BY <1>3 DEF Remove
  <2> SUFFICES ASSUME NEW w \in Workers PROVE Enumerated(worker[w], absent[w])'
    BY DEF WalkInv
  <2>2. absent'[w] = absent[w] \cup {k} /\ Enumerated(worker[w], absent[w])
    BY <2>1 DEF WalkInv
  <2>3. \A j \in Keys : object'[j] = 0 => object[j] = 0 \/ j = k
    BY <2>1 DEF TypeOK
  <2> QED
    BY <1>w, <2>2, <2>3 DEF Enumerated
<1>4. Expire \/ ToggleStep \/ PurgeStep => UNCHANGED <<absent, object>>
  BY DEF Expire, ToggleStep, ReadRow, WriteRow, PurgeStep, Fence, ScanRows, PurgeEntry,
         PurgeRow, PurgeCheckpoint, DropIndex, PurgeFails
<1> QED
  BY <1>1, <1>2, <1>3, <1>4 DEF BucketStep

LEMMA WalkAlways == Spec => [](TypeOK /\ HandInv /\ WalkInv)
<1>1. Init => WalkInv
  BY DEF Init, WalkInv, Enumerated, NoWalk, Loaded, InPage, AtObject, AtRemoval
<1>2. TypeOK /\ HandInv /\ WalkInv /\ [Next]_vars => WalkInv'
  <2>1. ASSUME TypeOK, HandInv, WalkInv, [Next]_vars PROVE WalkInv'
    <3>1. CASE UNCHANGED vars
      BY <2>1, <3>1 DEF vars, WalkInv, Enumerated
    <3> QED
      BY <2>1, <3>1, EnumeratedStep, EnumeratedCut, EnumeratedOther DEF Next
  <2> QED
    BY <2>1
<1> QED
  BY <1>1, <1>2, TypeCorrect, PTL DEF Spec

\* However the walks before it were cut off and resumed, whatever checkpoint
\* another worker left, and whatever became of the bucket meanwhile, a walk removes
\* only what was not in the bucket at some time while it was under way.
THEOREM GoneBeforeRemoved == Spec => []OnlyTheGoneAreRemoved
<1>1. WalkInv => OnlyTheGoneAreRemoved
  BY DEF WalkInv, Enumerated, OnlyTheGoneAreRemoved
<1> QED
  BY <1>1, WalkAlways, PTL

-----------------------------------------------------------------------------
(* What is listed is older than what was seen *)

OrderInv ==
    /\ \A k \in Keys : object[k] \in {0, newest[k]} /\ manifest[k].etag <= newest[k]
    /\ \A w \in Workers : Ordered(worker[w], absent[w])

LEMMA BecomesOrdered ==
    ASSUME NEW w \in Workers, \A v \in Workers : Ordered(worker[v], absent[v]),
           NEW walk, Becomes(w, walk), UNCHANGED <<object, newest>>,
           Ordered(walk, absent'[w]),
           \A v \in Workers : v # w => absent'[v] = absent[v]
    PROVE  \A v \in Workers : Ordered(worker[v], absent[v])'
<1> SUFFICES ASSUME NEW v \in Workers PROVE Ordered(worker[v], absent[v])'
  OBVIOUS
<1>1. CASE v = w
  BY <1>1 DEF Becomes, Ordered
<1>2. CASE v # w
  BY <1>2 DEF Becomes, Ordered
<1> QED
  BY <1>1, <1>2

LEMMA Numbers ==
    ASSUME TypeOK, NEW w \in Workers, NEW k \in Keys
    PROVE  /\ object[k] \in Nat /\ newest[k] \in Nat /\ manifest[k].etag \in Nat
           /\ worker[w].entries[k].etag \in Nat /\ worker[w].etag[k] \in Nat
<1>1. worker[w] \in Walks /\ manifest[k] \in Entries
  BY DEF TypeOK
<1>2. worker[w].entries[k] \in Entries /\ worker[w].etag[k] \in 0..LastVersion
  BY <1>1 DEF Walks
<1>3. object[k] \in 0..LastVersion /\ newest[k] \in 0..LastVersion
  BY DEF TypeOK
<1> QED
  BY <1>1, <1>2, <1>3, EntryTypes

LEMMA OrderedStep ==
    ASSUME TypeOK, HandInv, OrderInv, NEW w \in Workers, WalkStep(w)
    PROVE  \A v \in Workers : Ordered(worker[v], absent[v])'
<1> DEFINE Goal == \A v \in Workers : Ordered(worker[v], absent[v])'
<1> USE DEF storeVars, walkUnchanged, bucketVars
<1>w. worker[w] \in Walks /\ Ordered(worker[w], absent[w])
  BY DEF TypeOK, OrderInv
<1>o. UNCHANGED <<object, newest>>
  BY DEF WalkStep, ReadFence, EnsureIndex, Mark, LoadManifest, LoadCheckpoint, ListPage,
         Pick, DropOld, Read, Forget, Upsert, Save, NextPage, PickUnseen, RemoveChunks,
         RemoveEntry, Clear, Tell, TellError
<1>h. ASSUME NEW walk, Becomes(w, walk), Ordered(walk, absent[w]), absent' = absent
      PROVE  Goal
  BY <1>h, <1>o, BecomesOrdered DEF OrderInv
<1>l. Ordered(NoWalk, absent[w])
  BY DEF Ordered, NoWalk, Loaded, InPage, AtObject, AtRemoval
<1>g. ASSUME NEW pc \in Stages, Goes(w, pc), absent' = absent,
             \/ pc \notin Loaded
             \/ worker[w].pc \in {"object", "next"} \cup AtObject /\ pc = "next"
             \/ worker[w].pc \in AtObject /\ pc \in AtObject
             \/ worker[w].pc \in {"unchunk", "unlist"} /\ pc \in {"unchunk", "unlist"}
             \/ worker[w].pc \in Loaded /\ pc \in {"clear", "tell"}
      PROVE  Goal
  <2>1. Becomes(w, [worker[w] EXCEPT !.pc = pc])
    BY <1>g, GoesBecomes
  <2>2. Ordered([worker[w] EXCEPT !.pc = pc], absent[w])
    BY <1>g, <1>w DEF Walks, Ordered, Loaded, InPage, AtObject, AtRemoval
  <2> QED
    BY <1>g, <1>h, <2>1, <2>2
<1>p. ASSUME NEW pc \in {"object", "remove"}, Passes(w, pc), absent' = absent,
             \/ worker[w].pc \in AtObject /\ pc = "object"
             \/ worker[w].pc \in {"unchunk", "unlist"} /\ pc = "remove"
      PROVE  Goal
  <2> DEFINE walk == [worker[w] EXCEPT !.pc = pc, !.key = 0, !.bytes = 0,
                                       !.etag[worker[w].key] = 0]
  <2>0. pc \in Stages
    BY DEF Stages
  <2>1. Becomes(w, walk)
    BY <1>p, <2>0, PassesBecomes
  <2>2. Ordered(walk, absent[w])
    BY <1>p, <1>w DEF Walks, Ordered, Loaded, InPage, AtObject, AtRemoval
  <2> QED
    BY <1>p, <1>h, <2>1, <2>2
\* An entry may be replaced by one that is no newer than what is listed.
<1>q. ASSUME NEW pc \in {"object", "remove"}, NEW entry \in Entries,
             PassesListed(w, pc, entry), absent' = absent, worker[w].key \in Keys,
             entry.etag <= newest[worker[w].key],
             \/ worker[w].pc \in AtObject /\ pc = "object"
             \/ /\ worker[w].pc \in {"unchunk", "unlist"} /\ pc = "remove"
                /\ entry.etag = 0
      PROVE  Goal
  <2> DEFINE key == worker[w].key
             walk == [worker[w] EXCEPT !.pc = pc, !.key = 0, !.bytes = 0,
                                       !.etag[worker[w].key] = 0,
                                       !.entries[worker[w].key] = entry]
  <2>0. pc \in Stages
    BY DEF Stages
  <2>1. Becomes(w, walk)
    BY <1>q, <2>0, PassesListedBecomes
  <2>2. /\ walk.pc = pc /\ walk.seen = worker[w].seen /\ walk.page = worker[w].page
        /\ walk.left = worker[w].left
        /\ \A k \in Keys : walk.entries[k] = IF k = key THEN entry ELSE worker[w].entries[k]
        /\ \A k \in Keys : walk.etag[k] = IF k = key THEN 0 ELSE worker[w].etag[k]
    BY <1>w DEF Walks
  <2> HIDE DEF walk
  <2>3. walk.page \subseteq Keys
    BY <1>w, <2>2 DEF Walks
  <2>4. worker[w].pc \in Loaded
    BY <1>q DEF Loaded, InPage, AtObject, AtRemoval
  <2>5. \A k \in Keys : walk.entries[k].etag <= newest[k]
    BY <1>q, <1>w, <2>2, <2>4 DEF Ordered
  <2>6. ASSUME NEW k \in absent[w] \ walk.seen, object[k] # 0, k \in Keys
        PROVE  walk.entries[k].etag < object[k]
    <3>1. CASE k = key
      <4>1. entry.etag = 0
        BY <1>q, <1>w, <2>2, <2>6, <3>1 DEF Ordered
      <4> QED
        BY <2>2, <2>6, <3>1, <4>1, Numbers
    <3>2. CASE k # key
      BY <1>w, <2>2, <2>4, <2>6, <3>2 DEF Ordered
    <3> QED
      BY <3>1, <3>2
  <2>7. absent[w] \subseteq Keys
    BY DEF TypeOK
  <2>8. pc = "object" =>
          \A k \in walk.page : k \in walk.seen /\ walk.etag[k] <= newest[k]
                               /\ walk.etag[k] # 0 /\ walk.entries[k].etag <= walk.etag[k]
    BY <1>q, <1>w, <2>2, <2>3 DEF Ordered, InPage
  <2>9. pc = "remove" => walk.left \cap walk.seen = {}
    BY <1>q, <1>w, <2>2 DEF Ordered, AtRemoval, AtObject
  <2>10. pc = "object" \/ pc = "remove"
    OBVIOUS
  <2>11. Ordered(walk, absent[w])
    BY <2>2, <2>5, <2>6, <2>7, <2>8, <2>9, <2>10 DEF Ordered, Loaded, InPage, AtObject, AtRemoval
  <2> QED
    BY <1>q, <1>h, <2>1, <2>11
<1>1. CASE ReadFence(w) \/ EnsureIndex(w) \/ Mark(w)
  <2>1. /\ \/ Goes(w, "ensure") \/ Goes(w, "mark") \/ Goes(w, "load") \/ Leaves(w)
        /\ absent' = absent
    BY <1>1 DEF ReadFence, EnsureIndex, Mark
  <2>2. {"ensure", "mark", "load"} \subseteq Stages \ Loaded
    BY DEF Stages, Loaded, InPage, AtObject, AtRemoval
  <2> QED
    BY <1>g, <1>h, <1>l, <2>1, <2>2, LeavesBecomes
<1>4. CASE LoadManifest(w)
  <2> DEFINE walk == [NoWalk EXCEPT !.pc = "resume", !.entries = manifest]
             gone == {k \in Keys : object[k] = 0}
  <2>1. Becomes(w, walk)
    BY <1>4, LoadsBecomes
  <2>2. absent'[w] = gone /\ \A v \in Workers : v # w => absent'[v] = absent[v]
    BY <1>4 DEF LoadManifest, TypeOK
  <2>3. Ordered(walk, gone)
    BY DEF OrderInv, Ordered, NoWalk, Loaded, InPage, AtObject, AtRemoval
  <2> QED
    BY <1>o, <2>1, <2>2, <2>3, BecomesOrdered DEF OrderInv
<1>5. CASE LoadCheckpoint(w)
  <2>1. PICK token \in Tokens :
          Becomes(w, [worker[w] EXCEPT !.pc = "page", !.token = token, !.full = (token = 0)])
    BY <1>5, ResumesBecomes
  <2>2. worker[w].pc = "resume" /\ absent' = absent
    BY <1>5 DEF LoadCheckpoint
  <2>3. Ordered([worker[w] EXCEPT !.pc = "page", !.token = token, !.full = (token = 0)],
                absent[w])
    BY <1>w, <2>2 DEF Walks, Ordered, Loaded, InPage, AtObject, AtRemoval
  <2> QED
    BY <1>h, <2>1, <2>2, <2>3
<1>6. CASE ListPage(w)
  <2>1. PICK next \in Tokens :
          worker' = [worker EXCEPT
                ![w] = [worker[w] EXCEPT !.pc = "object", !.next = next,
                                         !.page = Page(w, next),
                                         !.etag = [k \in Keys |->
                                            IF k \in Page(w, next) THEN object[k] ELSE 0],
                                         !.seen = worker[w].seen \cup Page(w, next)]]
    BY <1>6 DEF ListPage
  <2> DEFINE walk == [worker[w] EXCEPT !.pc = "object", !.next = next,
                                       !.page = Page(w, next),
                                       !.etag = [k \in Keys |->
                                          IF k \in Page(w, next) THEN object[k] ELSE 0],
                                       !.seen = worker[w].seen \cup Page(w, next)]
  <2>2. Becomes(w, walk)
    BY <2>1, ListsBecomes
  <2>3. /\ walk.seen = worker[w].seen \cup Page(w, next) /\ walk.page = Page(w, next)
        /\ walk.pc = "object" /\ walk.entries = worker[w].entries
        /\ walk.etag = [k \in Keys |-> IF k \in Page(w, next) THEN object[k] ELSE 0]
    BY <1>w DEF Walks
  <2> HIDE DEF walk
  <2>4. worker[w].pc = "page" /\ absent' = absent
    BY <1>6 DEF ListPage
  <2>5. /\ \A k \in Keys : walk.entries[k].etag <= newest[k]
        /\ \A k \in absent[w] \ walk.seen : object[k] # 0 => walk.entries[k].etag < object[k]
    BY <1>w, <2>3, <2>4 DEF Ordered, Loaded
  <2>6. \A k \in walk.page : k \in Keys /\ object[k] # 0 /\ walk.etag[k] = object[k]
    BY <2>3 DEF Page
  <2>7. \A k \in walk.page : walk.etag[k] = newest[k]
    BY <2>6 DEF OrderInv
  <2>8. \A k \in walk.page : k \in walk.seen /\ walk.etag[k] <= newest[k]
                             /\ walk.etag[k] # 0 /\ walk.entries[k].etag <= walk.etag[k]
    <3> SUFFICES ASSUME NEW k \in walk.page
                 PROVE  k \in walk.seen /\ walk.etag[k] <= newest[k]
                        /\ walk.etag[k] # 0 /\ walk.entries[k].etag <= walk.etag[k]
      OBVIOUS
    <3>1. k \in Keys /\ newest[k] \in Nat
      BY <2>6, Numbers
    <3>2. k \in walk.seen
      BY <2>3
    <3>3. walk.etag[k] = newest[k] /\ walk.etag[k] # 0 /\ walk.entries[k].etag <= newest[k]
      BY <2>5, <2>6, <2>7
    <3> QED
      BY <3>1, <3>2, <3>3
  <2>9. Ordered(walk, absent[w])
    BY <2>3, <2>5, <2>8 DEF Ordered, Loaded, InPage, AtObject, AtRemoval
  <2> QED
    BY <1>h, <2>2, <2>4, <2>9
<1>7. CASE Pick(w)
  <2>0. worker[w].pc = "object" /\ absent' = absent
    BY <1>7 DEF Pick
  <2>1. CASE Goes(w, "next")
    BY <1>g, <2>0, <2>1 DEF Stages
  <2>2. ASSUME NEW k \in worker[w].page,
               worker' = [worker EXCEPT
                 ![w] = IF worker[w].entries[k].etag = worker[w].etag[k]
                        THEN [worker[w] EXCEPT !.page = worker[w].page \ {k}, !.etag[k] = 0]
                        ELSE [worker[w] EXCEPT
                                !.page = worker[w].page \ {k}, !.key = k,
                                !.pc = IF worker[w].entries[k] = NoEntry THEN "read"
                                       ELSE "drop"]]
        PROVE  \E walk : Becomes(w, walk) /\ Ordered(walk, absent[w])
    <3>1. Ordered([worker[w] EXCEPT !.page = worker[w].page \ {k}, !.etag[k] = 0], absent[w])
      BY <1>w, <2>0 DEF Walks, Ordered, Loaded, InPage, AtObject, AtRemoval
    <3>2. ASSUME worker[w].entries[k].etag # worker[w].etag[k], NEW pc \in {"read", "drop"}
          PROVE  Ordered([worker[w] EXCEPT !.page = worker[w].page \ {k}, !.key = k,
                                           !.pc = pc], absent[w])
      <4>1. k \in Keys /\ k \in worker[w].seen /\ worker[w].etag[k] <= newest[k]
            /\ worker[w].entries[k].etag <= worker[w].etag[k]
        BY <1>w, <2>0 DEF Walks, Ordered, InPage
      <4>2. worker[w].entries[k].etag < worker[w].etag[k]
        BY <3>2, <4>1, Numbers
      <4> QED
        BY <1>w, <2>0, <4>1, <4>2 DEF Walks, Ordered, Loaded, InPage, AtObject, AtRemoval
    <3> QED
      BY <2>2, <3>1, <3>2, PicksBecomes
  <2> QED
    BY <1>7, <1>h, <2>0, <2>1, <2>2 DEF Pick
<1>8. CASE DropOld(w) \/ Upsert(w)
  <2>0. worker[w].pc \in AtObject /\ absent' = absent
    BY <1>8 DEF DropOld, Upsert, AtObject
  <2>1. Goes(w, "read") \/ Goes(w, "save") \/ Passes(w, "object")
    BY <1>8 DEF DropOld, Upsert
  <2>2. {"read", "save"} \subseteq Stages \cap AtObject
    BY DEF Stages, AtObject
  <2> QED
    BY <1>g, <1>p, <2>0, <2>1, <2>2
<1>9. CASE Read(w)
  <2>0. worker[w].pc = "read" /\ absent' = absent
    BY <1>9 DEF Read
  <2> DEFINE content == object[worker[w].key]
  <2>1. \/ /\ content # 0
           /\ worker' = [worker EXCEPT ![w].pc = "upsert", ![w].bytes = content]
        \/ Goes(w, "forget")
        \/ Passes(w, "object")
    BY <1>9 DEF Read
  <2>2. CASE content # 0 /\ worker' = [worker EXCEPT ![w].pc = "upsert", ![w].bytes = content]
    <3>1. worker[w].key \in Keys
      BY <2>0 DEF HandInv, AtHand, AtObject
    <3>2. content \in Versions
      BY <2>2, <3>1 DEF TypeOK, Versions
    <3>3. Becomes(w, [worker[w] EXCEPT !.pc = "upsert", !.bytes = content])
      BY <2>2, <3>2, ReadsBecomes
    <3>4. Ordered([worker[w] EXCEPT !.pc = "upsert", !.bytes = content], absent[w])
      BY <1>w, <2>0 DEF Walks, Ordered, Loaded, InPage, AtObject, AtRemoval
    <3> QED
      BY <1>h, <2>0, <3>3, <3>4
  <2>3. CASE Goes(w, "forget")
    BY <1>g, <2>0, <2>3 DEF Stages, AtObject
  <2>4. CASE Passes(w, "object")
    BY <1>p, <2>0, <2>4 DEF AtObject
  <2> QED
    BY <2>1, <2>2, <2>3, <2>4
<1>10. CASE Forget(w) \/ RemoveEntry(w)
  <2>1. worker[w].key \in Keys
    BY <1>10 DEF Forget, RemoveEntry, HandInv, AtHand, AtObject
  <2>2. NoEntry.etag = 0 /\ NoEntry.etag <= newest[worker[w].key]
    BY <2>1, Numbers DEF NoEntry
  <2> QED
    BY <1>10, <1>q, <2>1, <2>2, EntryTypes DEF Forget, RemoveEntry, AtObject
<1>12. CASE Save(w)
  <2>1. worker[w].key \in Keys /\ worker[w].bytes \in Versions
    BY <1>12 DEF Save, HandInv, AtHand, AtObject
  <2>2. EntryOf(w) \in Entries
    BY <2>1, EntryOfType
  <2>3. EntryOf(w).etag <= newest[worker[w].key]
    BY <1>12, <1>w DEF Save, Ordered, AtObject, EntryOf
  <2> QED
    BY <1>12, <1>q, <2>1, <2>2, <2>3 DEF Save, AtObject
<1>13. CASE NextPage(w)
  <2>0. worker[w].pc = "next" /\ absent' = absent
    BY <1>13 DEF NextPage
  <2>1. Ordered([worker[w] EXCEPT !.pc = "page", !.token = worker[w].next], absent[w])
    BY <1>w, <2>0 DEF Walks, Ordered, Loaded, InPage, AtObject, AtRemoval
  <2>2. Ordered([worker[w] EXCEPT !.pc = "remove", !.left = Unseen(w)], absent[w])
    <3> DEFINE left == Unseen(w)
    <3>1. left \cap worker[w].seen = {}
      BY DEF Unseen
    <3> HIDE DEF left
    <3>2. Ordered([worker[w] EXCEPT !.pc = "remove", !.left = left], absent[w])
      BY <1>w, <2>0, <3>1 DEF Walks, Ordered, Loaded, InPage, AtObject, AtRemoval
    <3> QED
      BY <3>2 DEF left
  <2>3. Ordered([worker[w] EXCEPT !.pc = "clear"], absent[w])
    BY <1>w, <2>0 DEF Walks, Ordered, Loaded, InPage, AtObject, AtRemoval
  <2> QED
    BY <1>13, <1>h, <2>0, <2>1, <2>2, <2>3, NextBecomes
<1>14. CASE PickUnseen(w)
  <2>0. worker[w].pc = "remove" /\ absent' = absent
    BY <1>14 DEF PickUnseen
  <2>1. CASE Goes(w, "clear")
    BY <1>g, <2>0, <2>1 DEF Stages, Loaded, AtRemoval
  <2>2. ASSUME NEW k \in worker[w].left,
               worker' = [worker EXCEPT ![w].pc = "unchunk", ![w].key = k,
                                        ![w].left = worker[w].left \ {k}]
        PROVE  \E walk : Becomes(w, walk) /\ Ordered(walk, absent[w])
    <3>1. Ordered([worker[w] EXCEPT !.pc = "unchunk", !.key = k,
                                    !.left = worker[w].left \ {k}], absent[w])
      BY <1>w, <2>0 DEF Walks, Ordered, Loaded, InPage, AtObject, AtRemoval
    <3> QED
      BY <2>2, <3>1, RemovesBecomes
  <2> QED
    BY <1>14, <1>h, <2>0, <2>1, <2>2 DEF PickUnseen
<1>15. CASE RemoveChunks(w)
  BY <1>15, <1>g, <1>p DEF RemoveChunks, Stages
<1>16. CASE Clear(w)
  <2>1. Goes(w, "tell") \/ Leaves(w)
    BY <1>16 DEF Clear
  <2> QED
    BY <1>16, <1>g, <1>h, <1>l, <2>1, LeavesBecomes DEF Clear, Stages, Loaded
<1>17. CASE Tell(w) \/ TellError(w)
  BY <1>17, <1>h, <1>l, LeavesBecomes DEF Tell, TellError
<1> QED
  BY <1>1, <1>4, <1>5, <1>6, <1>7, <1>8, <1>9, <1>10, <1>12, <1>13, <1>14, <1>15, <1>16,
     <1>17 DEF WalkStep

LEMMA OrderedCut ==
    ASSUME TypeOK, OrderInv, NEW w \in Workers, Dispatch(w) \/ WalkCut(w)
    PROVE  \A v \in Workers : Ordered(worker[v], absent[v])'
<1> USE DEF storeVars, walkUnchanged, bucketVars
<1>w. worker[w] \in Walks /\ Ordered(worker[w], absent[w])
  BY DEF TypeOK, OrderInv
<1>0. UNCHANGED <<absent, object, newest>>
  BY DEF Dispatch, WalkCut, Deadline, ObjectFails, RemovalFails, WalkFails, Dies
<1>1. CASE Leaves(w)
  <2>1. Ordered(NoWalk, absent[w])
    BY DEF Ordered, NoWalk, Loaded, InPage, AtObject, AtRemoval
  <2> QED
    BY <1>0, <1>1, <2>1, LeavesBecomes, BecomesOrdered DEF OrderInv
<1>2. CASE Goes(w, "fence") \/ Goes(w, "error")
  <2>1. PICK pc \in {"fence", "error"} : Goes(w, pc)
    BY <1>2
  <2>2. Becomes(w, [worker[w] EXCEPT !.pc = pc])
    BY <2>1, GoesBecomes DEF Stages
  <2>3. Ordered([worker[w] EXCEPT !.pc = pc], absent[w])
    BY <1>w DEF Walks, Ordered, Loaded, InPage, AtObject, AtRemoval
  <2> QED
    BY <1>0, <2>2, <2>3, BecomesOrdered DEF OrderInv
<1>3. CASE ObjectFails(w) \/ RemovalFails(w)
  <2>1. PICK pc \in {"object", "remove"} :
          /\ Passes(w, pc)
          /\ \/ worker[w].pc \in AtObject /\ pc = "object"
             \/ worker[w].pc \in {"unchunk", "unlist"} /\ pc = "remove"
    BY <1>3 DEF ObjectFails, RemovalFails, AtObject
  <2> DEFINE walk == [worker[w] EXCEPT !.pc = pc, !.key = 0, !.bytes = 0,
                                       !.etag[worker[w].key] = 0]
  <2>2. Becomes(w, walk)
    BY <2>1, PassesBecomes DEF Stages
  <2>3. Ordered(walk, absent[w])
    BY <2>1, <1>w DEF Walks, Ordered, Loaded, InPage, AtObject, AtRemoval
  <2> QED
    BY <1>0, <2>2, <2>3, BecomesOrdered DEF OrderInv
<1> QED
  BY <1>1, <1>2, <1>3 DEF Dispatch, WalkCut, Deadline, WalkFails, Dies

LEMMA OrderedOther ==
    ASSUME Fresh, TypeOK, HandInv, OrderInv,
           Expire \/ BucketStep \/ ToggleStep \/ PurgeStep
    PROVE  OrderInv'
<1> USE DEF bucketUnchanged, toggleUnchanged, purgeUnchanged, walkUnchanged, bucketVars
<1>w. worker' = worker
  BY OtherType
<1>1. CASE UNCHANGED <<absent, object, newest, manifest>>
  BY <1>w, <1>1 DEF OrderInv, Ordered
<1>2. ASSUME NEW k \in Keys, NEW content \in Versions, Put(k, content) PROVE OrderInv'
  <2>1. /\ absent' = absent /\ manifest' = manifest
        /\ newest[k] < content
        /\ object' = [object EXCEPT ![k] = content]
        /\ newest' = [newest EXCEPT ![k] = content]
    BY <1>2 DEF Put
  <2>2. /\ object'[k] = content /\ newest'[k] = content
        /\ \A j \in Keys : j # k => object'[j] = object[j] /\ newest'[j] = newest[j]
    BY <2>1 DEF TypeOK
  <2>3. content \in Nat
    BY EntryTypes, ConstantsAssumption DEF Versions
  <2>4. ASSUME NEW j \in Keys, NEW n \in Nat, n <= newest[j] PROVE n <= newest'[j]
    BY <2>1, <2>2, <2>3, <2>4, Numbers DEF OrderInv, TypeOK
  <2>5. \A j \in Keys : object'[j] \in {0, newest'[j]} /\ manifest'[j].etag <= newest'[j]
    <3> SUFFICES ASSUME NEW j \in Keys
                 PROVE  object'[j] \in {0, newest'[j]} /\ manifest'[j].etag <= newest'[j]
      OBVIOUS
    <3>1. object'[j] \in {0, newest'[j]}
      BY <2>2 DEF OrderInv
    <3>2. manifest[j].etag <= newest[j] /\ manifest[j].etag \in Nat
      BY EntryTypes DEF OrderInv, TypeOK
    <3> QED
      BY <2>1, <2>4, <3>1, <3>2
  <2>6. ASSUME NEW w \in Workers PROVE Ordered(worker[w], absent[w])'
    <3> DEFINE walk == worker[w]
               gone == absent[w]
    <3>1. walk \in Walks /\ gone \subseteq Keys /\ Ordered(walk, gone) /\ AtHand(walk)
      BY DEF TypeOK, OrderInv, HandInv
    <3>2. \A j \in Keys : walk.entries[j].etag \in Nat /\ walk.etag[j] \in Nat
      BY Numbers
    <3>3. walk.page \subseteq Keys
      BY <3>1 DEF Walks
    <3> HIDE DEF walk, gone
    <3>4. walk.pc \in Loaded => \A j \in Keys : walk.entries[j].etag <= newest'[j]
      BY <2>4, <3>1, <3>2 DEF Ordered
    <3>5. walk.pc \in InPage => \A j \in walk.page : walk.etag[j] <= newest'[j]
      BY <2>4, <3>1, <3>2, <3>3 DEF Ordered
    <3>6. walk.pc \in AtObject => walk.etag[walk.key] <= newest'[walk.key]
      BY <2>4, <3>1, <3>2 DEF Ordered, AtHand
    <3>7. walk.pc \in Loaded =>
            \A j \in gone \ walk.seen : object'[j] # 0 => walk.entries[j].etag < object'[j]
      <4> SUFFICES ASSUME walk.pc \in Loaded, NEW j \in gone \ walk.seen, object'[j] # 0
                   PROVE  walk.entries[j].etag < object'[j]
        OBVIOUS
      <4>0. j \in Keys
        BY <3>1
      <4>1. CASE j = k
        <5>1. walk.entries[k].etag <= newest[k]
          BY <3>1 DEF Ordered
        <5>2. newest[k] \in Nat
          BY DEF TypeOK
        <5> QED
          BY <2>1, <2>2, <2>3, <3>2, <4>1, <5>1, <5>2
      <4>2. CASE j # k
        BY <2>2, <3>1, <4>0, <4>2 DEF Ordered
      <4> QED
        BY <4>1, <4>2
    <3>8. worker'[w] = walk /\ absent'[w] = gone
      BY <1>w, <2>1 DEF walk, gone
    <3> QED
      BY <3>1, <3>4, <3>5, <3>6, <3>7, <3>8 DEF Ordered
  <2> QED
    BY <2>5, <2>6 DEF OrderInv
<1>3. ASSUME NEW k \in Keys, Remove(k) PROVE OrderInv'
  <2>1. /\ object' = [object EXCEPT ![k] = 0]
        /\ absent' = [w \in Workers |-> absent[w] \cup {k}]
        /\ newest' = newest /\ manifest' = manifest
    BY <1>3 DEF Remove
  <2>2. object'[k] = 0 /\ \A j \in Keys : j # k => object'[j] = object[j]
    BY <2>1 DEF TypeOK
  <2>3. \A j \in Keys : object'[j] \in {0, newest'[j]} /\ manifest'[j].etag <= newest'[j]
    BY <2>1, <2>2 DEF OrderInv
  <2>4. ASSUME NEW w \in Workers PROVE Ordered(worker[w], absent[w])'
    <3>1. absent'[w] = absent[w] \cup {k} /\ Ordered(worker[w], absent[w])
          /\ absent[w] \subseteq Keys
      BY <2>1 DEF OrderInv, TypeOK
    <3>2. \A j \in absent'[w] : object'[j] # 0 => j \in absent[w] /\ object'[j] = object[j]
      BY <2>2, <3>1
    <3> QED
      BY <1>w, <2>1, <3>1, <3>2 DEF Ordered
  <2> QED
    BY <2>3, <2>4 DEF OrderInv
<1>4. CASE PurgeEntry
  <2>1. UNCHANGED <<absent, object, newest>>
    BY <1>4 DEF PurgeEntry
  <2>2. manifest' = manifest \/ \E k \in Keys : Lists(k, NoEntry)
    BY <1>4 DEF PurgeEntry, TypeOK
  <2>3. \A k \in Keys : manifest'[k].etag <= newest'[k]
    <3>1. \A k \in Keys : manifest[k].etag <= newest[k] /\ 0 <= newest[k]
      BY Numbers DEF OrderInv, TypeOK
    <3>2. NoEntry.etag = 0
      BY DEF NoEntry
    <3> QED
      BY <2>1, <2>2, <3>1, <3>2 DEF Lists, TypeOK
  <2> QED
    BY <1>w, <2>1, <2>3 DEF OrderInv, Ordered
<1>5. Expire \/ ToggleStep \/ (PurgeStep /\ ~PurgeEntry) =>
        UNCHANGED <<absent, object, newest, manifest>>
  BY DEF Expire, ToggleStep, ReadRow, WriteRow, PurgeStep, Fence, ScanRows,
         PurgeRow, PurgeCheckpoint, DropIndex, PurgeFails
<1> QED
  BY <1>1, <1>2, <1>3, <1>4, <1>5 DEF BucketStep

LEMMA OrderStep ==
    ASSUME Fresh, TypeOK, HandInv, OrderInv, [Next]_vars
    PROVE  OrderInv'
<1>1. CASE UNCHANGED vars
  BY <1>1 DEF vars, OrderInv, Ordered
<1>2. CASE Expire \/ BucketStep \/ ToggleStep \/ PurgeStep
  BY <1>2, OrderedOther
<1>3. ASSUME NEW w \in Workers, Dispatch(w) \/ WalkStep(w) \/ WalkCut(w) PROVE OrderInv'
  <2> USE DEF storeVars, walkUnchanged, bucketVars
  <2>1. \A v \in Workers : Ordered(worker[v], absent[v])'
    BY <1>3, OrderedStep, OrderedCut
  <2>2. UNCHANGED <<object, newest>>
    BY <1>3 DEF Dispatch, WalkStep, WalkCut, ReadFence, EnsureIndex, Mark, LoadManifest,
                LoadCheckpoint, ListPage, Pick, DropOld, Read, Forget, Upsert, Save,
                NextPage, PickUnseen, RemoveChunks, RemoveEntry, Clear, Tell, TellError,
                Deadline, ObjectFails, RemovalFails, WalkFails, Dies
  <2>3. CASE Save(w)
    <3>1. worker[w].key \in Keys /\ EntryOf(w).etag <= newest[worker[w].key]
      BY <2>3 DEF Save, HandInv, AtHand, AtObject, OrderInv, Ordered, EntryOf
    <3>2. manifest' = [manifest EXCEPT ![worker[w].key] = EntryOf(w)]
      BY <2>3 DEF Save, Lists
    <3>3. \A k \in Keys : manifest'[k].etag <= newest[k]
      BY <3>1, <3>2 DEF OrderInv, TypeOK
    <3> QED
      BY <2>1, <2>2, <3>3 DEF OrderInv
  <2>4. CASE Forget(w) \/ RemoveEntry(w)
    <3>1. manifest' = [manifest EXCEPT ![worker[w].key] = NoEntry]
      BY <2>4 DEF Forget, RemoveEntry, Lists
    <3>2. \A k \in Keys : manifest[k].etag <= newest[k] /\ 0 <= newest[k]
      BY Numbers DEF OrderInv
    <3>3. \A k \in Keys : manifest'[k].etag <= newest[k]
      BY <3>1, <3>2 DEF TypeOK, NoEntry
    <3> QED
      BY <2>1, <2>2, <3>3 DEF OrderInv
  <2>5. CASE ~(Save(w) \/ Forget(w) \/ RemoveEntry(w))
    <3>1. manifest' = manifest
      BY <1>3, <2>5
         DEF Dispatch, WalkStep, WalkCut, ReadFence, EnsureIndex, Mark, LoadManifest,
             LoadCheckpoint, ListPage, Pick, DropOld, Read, Upsert, NextPage, PickUnseen,
             RemoveChunks, Clear, Tell, TellError, Deadline, ObjectFails, RemovalFails,
             WalkFails, Dies
    <3> QED
      BY <2>1, <2>2, <3>1 DEF OrderInv
  <2> QED
    BY <2>3, <2>4, <2>5
<1> QED
  BY <1>1, <1>2, <1>3 DEF Next

-----------------------------------------------------------------------------
(* What is skipped is indexed *)

BackedInv == (\A w \in Workers : Backed(worker[w])) /\ SkippedIsIndexed

\* The object at hand is one that the next walk would not skip.
LEMMA AtHandIsBehind ==
    ASSUME TypeOK, HandInv, WalkInv, OrderInv, BackedInv, NEW w \in Workers,
           worker[w].pc \in AtObject \cup {"unchunk", "unlist"}, org = "live",
           object[worker[w].key] # 0
    PROVE  manifest[worker[w].key].etag # object[worker[w].key]
<1> DEFINE key == worker[w].key
<1>1. key \in Keys /\ worker[w].entries = manifest
  BY DEF HandInv, AtHand, BackedInv, Backed, Loaded, InPage, AtRemoval
<1>2. object[key] = newest[key]
  BY <1>1 DEF OrderInv
<1>3. manifest[key].etag \in Nat /\ object[key] \in Nat /\ worker[w].etag[key] \in Nat
  BY <1>1, Numbers
<1>4. CASE worker[w].pc \in AtObject
  <2>1. worker[w].etag[key] <= newest[key] /\ manifest[key].etag < worker[w].etag[key]
    BY <1>1, <1>4 DEF OrderInv, Ordered
  <2> QED
    BY <1>2, <1>3, <2>1
<1>5. CASE worker[w].pc \in {"unchunk", "unlist"}
  <2>1. key \in absent[w] /\ key \notin worker[w].seen
    BY <1>5 DEF WalkInv, Enumerated, OrderInv, Ordered
  <2>2. manifest[key].etag < object[key]
    BY <1>1, <1>5, <2>1 DEF OrderInv, Ordered, Loaded, AtRemoval
  <2> QED
    BY <1>3, <2>2
<1> QED
  BY <1>4, <1>5

LEMMA BehindIsFree ==
    ASSUME TypeOK, HandInv, WalkInv, OrderInv, BackedInv, NEW w \in Workers,
           worker[w].pc \in AtObject \cup {"unchunk", "unlist"},
           UNCHANGED <<object, manifest, org>>,
           \A k \in Keys : k # worker[w].key => vectors'[k] = vectors[k]
    PROVE  SkippedIsIndexed'
BY AtHandIsBehind DEF BackedInv, SkippedIsIndexed

LEMMA UnlistedIsFree ==
    ASSUME TypeOK, BackedInv, NEW k \in Keys, Lists(k, NoEntry),
           UNCHANGED <<object, vectors, org>>
    PROVE  SkippedIsIndexed'
<1>1. manifest'[k] = NoEntry /\ \A j \in Keys : j # k => manifest'[j] = manifest[j]
  BY DEF Lists, TypeOK
<1> QED
  BY <1>1 DEF BackedInv, SkippedIsIndexed, NoEntry

LEMMA BecomesBacked ==
    ASSUME \A v, w \in Workers : v = w, NEW w \in Workers, NEW walk, Becomes(w, walk),
           UNCHANGED <<object, org>>, SkippedIsIndexed',
           walk.pc \in Loaded /\ org = "live" => walk.entries = manifest',
           walk.pc \in {"upsert", "save"} /\ walk.etag[walk.key] = object[walk.key] =>
             walk.bytes = object[walk.key],
           walk.pc = "save" /\ org = "live" =>
             \A i \in 1..Chunks[walk.bytes] : vectors'[walk.key][i] = walk.bytes
    PROVE  BackedInv'
<1>1. \A v \in Workers : v = w
  OBVIOUS
<1>2. worker'[w] = walk
  BY DEF Becomes
<1> QED
  BY <1>1, <1>2 DEF BackedInv, Backed

LEMMA BackedStep ==
    ASSUME OneFresh, TypeOK, HandInv, WalkInv, OrderInv, BackedInv,
           NEW w \in Workers, WalkStep(w)
    PROVE  BackedInv'
<1> USE DEF storeVars, walkUnchanged, bucketVars, teardownVars
<1>u. \A v, z \in Workers : v = z
  BY DEF OneFresh
<1>w. worker[w] \in Walks /\ Backed(worker[w])
  BY DEF TypeOK, BackedInv
<1>s. ASSUME UNCHANGED <<object, manifest, vectors, org>> PROVE SkippedIsIndexed'
  BY <1>s DEF BackedInv, SkippedIsIndexed
<1>l. ASSUME Leaves(w), UNCHANGED <<object, manifest, vectors, org>> PROVE BackedInv'
  <2>1. NoWalk.pc \notin Loaded \cup {"upsert", "save"}
    BY DEF NoWalk, Loaded, InPage, AtObject, AtRemoval
  <2>2. Becomes(w, NoWalk)
    BY <1>l, LeavesBecomes
  <2> QED
    BY <1>l, <1>s, <1>u, <2>1, <2>2, BecomesBacked
<1>g. ASSUME NEW pc \in Stages \ {"upsert", "save"}, Goes(w, pc),
             UNCHANGED <<object, manifest, org>>, SkippedIsIndexed',
             pc \in Loaded => worker[w].pc \in Loaded
      PROVE  BackedInv'
  <2> DEFINE walk == [worker[w] EXCEPT !.pc = pc]
  <2>1. Becomes(w, walk)
    BY <1>g, GoesBecomes
  <2>2. walk.pc = pc /\ walk.entries = worker[w].entries
    BY <1>w DEF Walks
  <2> HIDE DEF walk
  <2> QED
    BY <1>g, <1>u, <1>w, <2>1, <2>2, BecomesBacked DEF Backed
<1>p. ASSUME NEW pc \in {"object", "remove"}, Passes(w, pc), worker[w].pc \in Loaded,
             UNCHANGED <<object, manifest, vectors, org>>
      PROVE  BackedInv'
  <2> DEFINE walk == [worker[w] EXCEPT !.pc = pc, !.key = 0, !.bytes = 0,
                                       !.etag[worker[w].key] = 0]
  <2>0. pc \in Stages
    BY DEF Stages
  <2>1. Becomes(w, walk)
    BY <1>p, <2>0, PassesBecomes
  <2>2. walk.pc = pc /\ walk.entries = worker[w].entries
    BY <1>w DEF Walks
  <2> HIDE DEF walk
  <2> QED
    BY <1>p, <1>s, <1>u, <1>w, <2>1, <2>2, BecomesBacked DEF Backed
<1>q. ASSUME NEW pc \in {"object", "remove"}, NEW entry \in Entries, worker[w].key \in Keys,
             PassesListed(w, pc, entry), Lists(worker[w].key, entry),
             worker[w].pc \in Loaded, SkippedIsIndexed', UNCHANGED <<object, org>>
      PROVE  BackedInv'
  <2> DEFINE walk == [worker[w] EXCEPT !.pc = pc, !.key = 0, !.bytes = 0,
                                       !.etag[worker[w].key] = 0,
                                       !.entries[worker[w].key] = entry]
  <2>0. pc \in Stages
    BY DEF Stages
  <2>1. Becomes(w, walk)
    BY <1>q, <2>0, PassesListedBecomes
  <2>2. walk.pc = pc /\ walk.entries = [worker[w].entries EXCEPT ![worker[w].key] = entry]
    BY <1>w DEF Walks
  <2> HIDE DEF walk
  <2>3. org = "live" => walk.entries = manifest'
    BY <1>q, <1>w, <2>2 DEF Backed, Lists
  <2> QED
    BY <1>q, <1>u, <2>1, <2>2, <2>3, BecomesBacked
<1>1. CASE ReadFence(w) \/ EnsureIndex(w) \/ Mark(w)
  <2>1. /\ Goes(w, "ensure") \/ Goes(w, "mark") \/ Goes(w, "load") \/ Leaves(w)
        /\ UNCHANGED <<object, manifest, vectors, org>>
    BY <1>1 DEF ReadFence, EnsureIndex, Mark
  <2>2. {"ensure", "mark", "load"} \subseteq Stages \ (Loaded \cup {"upsert", "save"})
    BY DEF Stages, Loaded, InPage, AtObject, AtRemoval
  <2> QED
    BY <1>g, <1>l, <1>s, <2>1, <2>2
<1>4. CASE LoadManifest(w)
  <2> DEFINE walk == [NoWalk EXCEPT !.pc = "resume", !.entries = manifest]
  <2>1. Becomes(w, walk)
    BY <1>4, LoadsBecomes
  <2>2. walk.pc = "resume" /\ walk.entries = manifest
    BY DEF NoWalk
  <2> HIDE DEF walk
  <2>3. UNCHANGED <<object, manifest, vectors, org>>
    BY <1>4 DEF LoadManifest
  <2> QED
    BY <1>s, <1>u, <2>1, <2>2, <2>3, BecomesBacked
<1>5. CASE LoadCheckpoint(w)
  <2>1. PICK token \in Tokens :
          Becomes(w, [worker[w] EXCEPT !.pc = "page", !.token = token, !.full = (token = 0)])
    BY <1>5, ResumesBecomes
  <2> DEFINE walk == [worker[w] EXCEPT !.pc = "page", !.token = token, !.full = (token = 0)]
  <2>2. walk.pc = "page" /\ walk.entries = worker[w].entries
    BY <1>w DEF Walks
  <2>3. Becomes(w, walk)
    BY <2>1
  <2> HIDE DEF walk
  <2>4. worker[w].pc \in Loaded /\ UNCHANGED <<object, manifest, vectors, org>>
    BY <1>5 DEF LoadCheckpoint, Loaded
  <2> QED
    BY <1>s, <1>u, <1>w, <2>2, <2>3, <2>4, BecomesBacked DEF Backed
<1>6. CASE ListPage(w)
  <2>1. PICK next \in Tokens :
          worker' = [worker EXCEPT
                ![w] = [worker[w] EXCEPT !.pc = "object", !.next = next,
                                         !.page = Page(w, next),
                                         !.etag = [k \in Keys |->
                                            IF k \in Page(w, next) THEN object[k] ELSE 0],
                                         !.seen = worker[w].seen \cup Page(w, next)]]
    BY <1>6 DEF ListPage
  <2> DEFINE walk == [worker[w] EXCEPT !.pc = "object", !.next = next,
                                       !.page = Page(w, next),
                                       !.etag = [k \in Keys |->
                                          IF k \in Page(w, next) THEN object[k] ELSE 0],
                                       !.seen = worker[w].seen \cup Page(w, next)]
  <2>2. Becomes(w, walk)
    BY <2>1, ListsBecomes
  <2>3. walk.pc = "object" /\ walk.entries = worker[w].entries
    BY <1>w DEF Walks
  <2> HIDE DEF walk
  <2>4. worker[w].pc \in Loaded /\ UNCHANGED <<object, manifest, vectors, org>>
    BY <1>6 DEF ListPage, Loaded
  <2> QED
    BY <1>s, <1>u, <1>w, <2>2, <2>3, <2>4, BecomesBacked DEF Backed
<1>7. CASE Pick(w)
  <2>0. /\ worker[w].pc = "object" /\ worker[w].pc \in Loaded
        /\ UNCHANGED <<object, manifest, vectors, org>>
    BY <1>7 DEF Pick, Loaded, InPage
  <2>1. CASE Goes(w, "next")
    BY <1>g, <1>s, <2>0, <2>1 DEF Stages
  <2>2. ASSUME NEW k \in worker[w].page,
               worker' = [worker EXCEPT
                 ![w] = IF worker[w].entries[k].etag = worker[w].etag[k]
                        THEN [worker[w] EXCEPT !.page = worker[w].page \ {k}, !.etag[k] = 0]
                        ELSE [worker[w] EXCEPT
                                !.page = worker[w].page \ {k}, !.key = k,
                                !.pc = IF worker[w].entries[k] = NoEntry THEN "read"
                                       ELSE "drop"]]
        PROVE  \E walk : /\ Becomes(w, walk) /\ walk.pc \notin {"upsert", "save"}
                         /\ walk.entries = worker[w].entries
    <3>1. LET walk == [worker[w] EXCEPT !.page = worker[w].page \ {k}, !.etag[k] = 0]
          IN  walk.pc \notin {"upsert", "save"} /\ walk.entries = worker[w].entries
      BY <1>w, <2>0 DEF Walks
    <3>2. \A pc \in {"read", "drop"} :
            LET walk == [worker[w] EXCEPT !.page = worker[w].page \ {k}, !.key = k, !.pc = pc]
            IN  walk.pc \notin {"upsert", "save"} /\ walk.entries = worker[w].entries
      BY <1>w DEF Walks
    <3> QED
      BY <2>2, <3>1, <3>2, PicksBecomes
  <2>3. ASSUME NEW walk, Becomes(w, walk), walk.pc \notin {"upsert", "save"},
               walk.entries = worker[w].entries
        PROVE  BackedInv'
    BY <1>s, <1>u, <1>w, <2>0, <2>3, BecomesBacked DEF Backed
  <2> QED
    BY <1>7, <2>1, <2>2, <2>3 DEF Pick
<1>8. CASE DropOld(w) \/ RemoveChunks(w)
  <2>0. /\ worker[w].pc \in AtObject \cup {"unchunk", "unlist"}
        /\ worker[w].pc \in Loaded
        /\ UNCHANGED <<object, manifest, org>>
    BY <1>8 DEF DropOld, RemoveChunks, Loaded, InPage, AtObject, AtRemoval
  <2>1. CASE DropsChunks(worker[w].key, Known(w)) /\ (Goes(w, "read") \/ Goes(w, "unlist"))
    <3>1. \A k \in Keys : k # worker[w].key => vectors'[k] = vectors[k]
      BY <2>1 DEF DropsChunks, TypeOK
    <3>2. SkippedIsIndexed'
      BY <2>0, <3>1, BehindIsFree
    <3> QED
      BY <1>g, <2>0, <2>1, <3>2 DEF Stages
  <2>2. CASE (Passes(w, "object") \/ Passes(w, "remove")) /\ UNCHANGED vectors
    BY <1>p, <2>0, <2>2
  <2> QED
    BY <1>8, <2>1, <2>2 DEF DropOld, RemoveChunks
<1>9. CASE Read(w)
  <2>0. /\ worker[w].pc = "read" /\ worker[w].pc \in Loaded
        /\ UNCHANGED <<object, manifest, vectors, org>>
    BY <1>9 DEF Read, Loaded, InPage, AtObject
  <2> DEFINE content == object[worker[w].key]
  <2>1. \/ /\ content # 0
           /\ worker' = [worker EXCEPT ![w].pc = "upsert", ![w].bytes = content]
        \/ Goes(w, "forget")
        \/ Passes(w, "object")
    BY <1>9 DEF Read
  <2>2. CASE content # 0 /\ worker' = [worker EXCEPT ![w].pc = "upsert", ![w].bytes = content]
    <3> DEFINE walk == [worker[w] EXCEPT !.pc = "upsert", !.bytes = content]
    <3>1. worker[w].key \in Keys
      BY <2>0 DEF HandInv, AtHand, AtObject
    <3>2. content \in Versions
      BY <2>2, <3>1 DEF TypeOK, Versions
    <3>3. Becomes(w, walk)
      BY <2>2, <3>2, ReadsBecomes
    <3>4. /\ walk.pc = "upsert" /\ walk.entries = worker[w].entries
          /\ walk.key = worker[w].key /\ walk.bytes = object[walk.key]
      BY <1>w DEF Walks
    <3> HIDE DEF walk
    <3> QED
      BY <1>s, <1>u, <1>w, <2>0, <3>3, <3>4, BecomesBacked DEF Backed
  <2>3. CASE Goes(w, "forget")
    BY <1>g, <1>s, <2>0, <2>3 DEF Stages
  <2>4. CASE Passes(w, "object")
    BY <1>p, <2>0, <2>4
  <2> QED
    BY <2>1, <2>2, <2>3, <2>4
<1>10. CASE Forget(w) \/ RemoveEntry(w)
  <2>1. /\ worker[w].key \in Keys /\ worker[w].pc \in Loaded
        /\ UNCHANGED <<object, vectors, org>> /\ Lists(worker[w].key, NoEntry)
        /\ PassesListed(w, "object", NoEntry) \/ PassesListed(w, "remove", NoEntry)
    BY <1>10 DEF Forget, RemoveEntry, HandInv, AtHand, AtObject, Loaded, InPage, AtRemoval
  <2>2. SkippedIsIndexed'
    BY <2>1, UnlistedIsFree
  <2> QED
    BY <1>q, <2>1, <2>2, EntryTypes
<1>11. CASE Upsert(w)
  <2>0. /\ worker[w].pc = "upsert" /\ worker[w].pc \in Loaded
        /\ worker[w].pc \in AtObject \cup {"unchunk", "unlist"}
        /\ UNCHANGED <<object, manifest, org>>
    BY <1>11 DEF Upsert, Loaded, InPage, AtObject
  <2>1. CASE Upserts(worker[w].key, worker[w].bytes) /\ Goes(w, "save")
    <3> DEFINE walk == [worker[w] EXCEPT !.pc = "save"]
    <3>1. worker[w].key \in Keys /\ worker[w].bytes \in Versions
      BY <2>0 DEF HandInv, AtHand, AtObject
    <3>2. \A k \in Keys : k # worker[w].key => vectors'[k] = vectors[k]
      BY <2>1 DEF Upserts, TypeOK
    <3>3. SkippedIsIndexed'
      BY <2>0, <3>2, BehindIsFree
    <3>4. Becomes(w, walk)
      BY <2>1, GoesBecomes DEF Stages
    <3>5. /\ walk.pc = "save" /\ walk.entries = worker[w].entries
          /\ walk.etag = worker[w].etag
          /\ walk.key = worker[w].key /\ walk.bytes = worker[w].bytes
      BY <1>w DEF Walks
    <3> HIDE DEF walk
    <3>6. \A i \in 1..Chunks[walk.bytes] : vectors'[walk.key][i] = walk.bytes
      <4>1. Chunks[walk.bytes] \in 0..MaxChunks
        BY <3>1, <3>5, ConstantsAssumption
      <4>2. vectors'[walk.key] = [i \in 1..MaxChunks |->
                IF i <= Chunks[walk.bytes] THEN walk.bytes ELSE vectors[walk.key][i]]
        BY <2>1, <3>1, <3>5 DEF Upserts, TypeOK
      <4> QED
        BY <4>1, <4>2, ConstantsAssumption
    <3> QED
      BY <1>u, <1>w, <2>0, <3>3, <3>4, <3>5, <3>6, BecomesBacked DEF Backed
  <2>2. CASE Passes(w, "object") /\ UNCHANGED vectors
    BY <1>p, <2>0, <2>2
  <2> QED
    BY <1>11, <2>1, <2>2 DEF Upsert
<1>12. CASE Save(w)
  <2> DEFINE key == worker[w].key
             entry == EntryOf(w)
  <2>1. /\ key \in Keys /\ worker[w].bytes \in Versions
        /\ worker[w].pc = "save" /\ worker[w].pc \in Loaded
        /\ Lists(key, entry) /\ PassesListed(w, "object", entry)
        /\ UNCHANGED <<object, vectors, org>>
    BY <1>12 DEF Save, HandInv, AtHand, AtObject, Loaded, InPage
  <2>2. entry \in Entries /\ entry.etag = worker[w].etag[key]
    BY <2>1, EntryOfType DEF EntryOf
  <2>3. manifest'[key] = entry /\ \A k \in Keys : k # key => manifest'[k] = manifest[k]
    BY <2>1 DEF Lists, TypeOK
  <2>4. ASSUME org = "live", object[key] # 0, entry.etag = object[key]
        PROVE  \A i \in 1..Chunks[object[key]] : vectors[key][i] = object[key]
    <3>1. worker[w].bytes = object[key]
      BY <1>w, <2>1, <2>2, <2>4 DEF Backed
    <3>2. \A i \in 1..Chunks[worker[w].bytes] : vectors[key][i] = worker[w].bytes
      BY <1>w, <2>1, <2>4 DEF Backed
    <3> QED
      BY <3>1, <3>2
  <2> HIDE DEF entry, key
  <2>5. SkippedIsIndexed'
    BY <2>1, <2>3, <2>4 DEF SkippedIsIndexed, BackedInv
  <2> QED
    BY <1>q, <2>1, <2>2, <2>5 DEF key
<1>13. CASE NextPage(w)
  <2>0. worker[w].pc \in Loaded /\ UNCHANGED <<object, manifest, vectors, org>>
    BY <1>13 DEF NextPage, Loaded, InPage
  <2>1. \E walk : /\ Becomes(w, walk) /\ walk.pc \notin {"upsert", "save"}
                  /\ walk.entries = worker[w].entries
    <3>1. LET walk == [worker[w] EXCEPT !.pc = "page", !.token = worker[w].next]
          IN  walk.pc \notin {"upsert", "save"} /\ walk.entries = worker[w].entries
      BY <1>w DEF Walks
    <3>2. LET walk == [worker[w] EXCEPT !.pc = "remove", !.left = Unseen(w)]
          IN  walk.pc \notin {"upsert", "save"} /\ walk.entries = worker[w].entries
      BY <1>w DEF Walks
    <3>3. LET walk == [worker[w] EXCEPT !.pc = "clear"]
          IN  walk.pc \notin {"upsert", "save"} /\ walk.entries = worker[w].entries
      BY <1>w DEF Walks
    <3> QED
      BY <1>13, <3>1, <3>2, <3>3, NextBecomes
  <2> QED
    BY <1>s, <1>u, <1>w, <2>0, <2>1, BecomesBacked DEF Backed
<1>14. CASE PickUnseen(w)
  <2>0. worker[w].pc \in Loaded /\ UNCHANGED <<object, manifest, vectors, org>>
    BY <1>14 DEF PickUnseen, Loaded, AtRemoval
  <2>1. CASE Goes(w, "clear")
    BY <1>g, <1>s, <2>0, <2>1 DEF Stages
  <2>2. ASSUME NEW k \in worker[w].left,
               worker' = [worker EXCEPT ![w].pc = "unchunk", ![w].key = k,
                                        ![w].left = worker[w].left \ {k}]
        PROVE  BackedInv'
    <3> DEFINE walk == [worker[w] EXCEPT !.pc = "unchunk", !.key = k,
                                         !.left = worker[w].left \ {k}]
    <3>1. Becomes(w, walk)
      BY <2>2, RemovesBecomes
    <3>2. walk.pc = "unchunk" /\ walk.entries = worker[w].entries
      BY <1>w DEF Walks
    <3> HIDE DEF walk
    <3> QED
      BY <1>s, <1>u, <1>w, <2>0, <3>1, <3>2, BecomesBacked DEF Backed
  <2> QED
    BY <1>14, <2>1, <2>2 DEF PickUnseen
<1>16. CASE Clear(w)
  <2>1. /\ Goes(w, "tell") \/ Leaves(w)
        /\ worker[w].pc \in Loaded /\ UNCHANGED <<object, manifest, vectors, org>>
    BY <1>16 DEF Clear, Loaded
  <2> QED
    BY <1>g, <1>l, <1>s, <2>1 DEF Stages
<1>17. CASE Tell(w) \/ TellError(w)
  BY <1>17, <1>l DEF Tell, TellError
<1> QED
  BY <1>1, <1>4, <1>5, <1>6, <1>7, <1>8, <1>9, <1>10, <1>11, <1>12, <1>13, <1>14, <1>16,
     <1>17 DEF WalkStep

LEMMA BackedCut ==
    ASSUME OneFresh, TypeOK, BackedInv, NEW w \in Workers, Dispatch(w) \/ WalkCut(w)
    PROVE  BackedInv'
<1> USE DEF storeVars, walkUnchanged, bucketVars, teardownVars
<1>u. \A v, z \in Workers : v = z
  BY DEF OneFresh
<1>w. worker[w] \in Walks /\ Backed(worker[w])
  BY DEF TypeOK, BackedInv
<1>0. UNCHANGED <<object, manifest, vectors, org>>
  BY DEF Dispatch, WalkCut, Deadline, ObjectFails, RemovalFails, WalkFails, Dies
<1>s. SkippedIsIndexed'
  BY <1>0 DEF BackedInv, SkippedIsIndexed
<1>1. CASE Leaves(w)
  <2>1. NoWalk.pc \notin Loaded \cup {"upsert", "save"}
    BY DEF NoWalk, Loaded, InPage, AtObject, AtRemoval
  <2> QED
    BY <1>0, <1>1, <1>s, <1>u, <2>1, LeavesBecomes, BecomesBacked
<1>2. CASE Goes(w, "fence") \/ Goes(w, "error")
  <2>1. PICK pc \in {"fence", "error"} : Goes(w, pc)
    BY <1>2
  <2> DEFINE walk == [worker[w] EXCEPT !.pc = pc]
  <2>2. Becomes(w, walk)
    BY <2>1, GoesBecomes DEF Stages
  <2>3. walk.pc \notin Loaded \cup {"upsert", "save"}
    BY <1>w DEF Walks, Loaded, InPage, AtObject, AtRemoval
  <2> HIDE DEF walk
  <2> QED
    BY <1>0, <1>s, <1>u, <2>2, <2>3, BecomesBacked
<1>3. CASE ObjectFails(w) \/ RemovalFails(w)
  <2>1. worker[w].pc \in Loaded /\ \E pc \in {"object", "remove"} : Passes(w, pc)
    BY <1>3 DEF ObjectFails, RemovalFails, Loaded, InPage, AtObject, AtRemoval
  <2>2. PICK pc \in {"object", "remove"} : Passes(w, pc)
    BY <2>1
  <2> DEFINE walk == [worker[w] EXCEPT !.pc = pc, !.key = 0, !.bytes = 0,
                                       !.etag[worker[w].key] = 0]
  <2>3. Becomes(w, walk)
    BY <2>2, PassesBecomes DEF Stages
  <2>4. walk.pc = pc /\ walk.entries = worker[w].entries
    BY <1>w DEF Walks
  <2> HIDE DEF walk
  <2> QED
    BY <1>0, <1>s, <1>u, <1>w, <2>1, <2>3, <2>4, BecomesBacked DEF Backed
<1> QED
  BY <1>1, <1>2, <1>3 DEF Dispatch, WalkCut, Deadline, WalkFails, Dies

LEMMA BackedOther ==
    ASSUME Fresh, TypeOK, HandInv, RowInv, OrderInv, BackedInv,
           Expire \/ BucketStep \/ ToggleStep \/ PurgeStep
    PROVE  BackedInv'
<1> USE DEF bucketUnchanged, toggleUnchanged, purgeUnchanged, walkUnchanged, bucketVars,
            storeVars, teardownVars
<1>w. worker' = worker
  BY OtherType
<1>1. CASE org # "live" /\ org' # "live" /\ object' = object
  BY <1>w, <1>1 DEF BackedInv, Backed, SkippedIsIndexed
<1>2. ASSUME NEW k \in Keys, NEW content \in Versions, Put(k, content) PROVE BackedInv'
  <2>1. /\ newest[k] < content
        /\ object'[k] = content /\ \A j \in Keys : j # k => object'[j] = object[j]
        /\ UNCHANGED <<manifest, vectors, org>>
    BY <1>2 DEF Put, TypeOK
  <2>2. content \in Nat
    BY EntryTypes, ConstantsAssumption DEF Versions
  <2>3. manifest[k].etag # content
    <3>1. manifest[k].etag <= newest[k]
      BY DEF OrderInv
    <3>2. manifest[k].etag \in Nat /\ newest[k] \in Nat
      BY EntryTypes DEF TypeOK
    <3> QED
      BY <2>1, <2>2, <3>1, <3>2
  <2>4. SkippedIsIndexed'
    BY <2>1, <2>3 DEF BackedInv, SkippedIsIndexed
  <2>5. ASSUME NEW w \in Workers PROVE Backed(worker[w])'
    <3>1. worker[w].pc \in AtObject =>
            worker[w].key \in Keys /\ worker[w].etag[worker[w].key] <= newest[worker[w].key]
      BY DEF HandInv, AtHand, OrderInv, Ordered
    <3>2. worker[w].pc \in AtObject /\ worker[w].key = k => worker[w].etag[k] # content
      BY <2>1, <2>2, <3>1, Numbers
    <3>3. worker[w].pc \in {"upsert", "save"} => worker[w].pc \in AtObject
      BY DEF AtObject
    <3> QED
      BY <1>w, <2>1, <3>1, <3>2, <3>3 DEF BackedInv, Backed
  <2> QED
    BY <2>4, <2>5 DEF BackedInv
<1>3. ASSUME NEW k \in Keys, Remove(k) PROVE BackedInv'
  <2>1. /\ object'[k] = 0 /\ \A j \in Keys : j # k => object'[j] = object[j]
        /\ UNCHANGED <<manifest, vectors, org>>
    BY <1>3 DEF Remove, TypeOK
  <2>2. SkippedIsIndexed'
    BY <2>1 DEF BackedInv, SkippedIsIndexed
  <2>3. ASSUME NEW w \in Workers PROVE Backed(worker[w])'
    <3>1. worker[w].pc \in AtObject =>
            worker[w].key \in Keys
            /\ worker[w].entries[worker[w].key].etag < worker[w].etag[worker[w].key]
      BY DEF HandInv, AtHand, OrderInv, Ordered
    <3>2. worker[w].pc \in AtObject => worker[w].etag[worker[w].key] # 0
      BY <3>1, Numbers
    <3>3. worker[w].pc \in {"upsert", "save"} => worker[w].pc \in AtObject
      BY DEF AtObject
    <3> QED
      BY <1>w, <2>1, <3>1, <3>2, <3>3 DEF BackedInv, Backed
  <2> QED
    BY <2>2, <2>3 DEF BackedInv
<1>4. CASE Expire \/ ToggleStep
  <2>1. UNCHANGED <<object, manifest, vectors, org>>
    BY <1>4 DEF Expire, ToggleStep, ReadRow, WriteRow
  <2> QED
    BY <1>w, <2>1 DEF BackedInv, Backed, SkippedIsIndexed
<1>5. CASE Fence
  BY <1>w, <1>5 DEF Fence, BackedInv, Backed, SkippedIsIndexed
<1>6. CASE PurgeStep /\ ~Fence
  <2>1. org # "live" /\ org' # "live" /\ object' = object
    BY <1>6 DEF PurgeStep, ScanRows, PurgeEntry, PurgeRow, PurgeCheckpoint, DropIndex,
                PurgeFails, RowInv
  <2> QED
    BY <1>1, <2>1
<1> QED
  BY <1>2, <1>3, <1>4, <1>5, <1>6 DEF BucketStep

LEMMA IndexInit ==
    ASSUME Init
    PROVE  RowInv /\ OrderInv /\ BackedInv
<1>1. RowInv
  BY DEF Init, RowInv
<1>2. NoWalk.pc \notin Loaded \cup {"upsert", "save"} /\ NoWalk.pc = "idle"
  BY DEF NoWalk, Loaded, InPage, AtObject, AtRemoval
<1>3. OrderInv
  BY <1>2 DEF Init, OrderInv, Ordered, Loaded, InPage, AtRemoval, AtObject, NoEntry
<1>4. BackedInv
  BY <1>2 DEF Init, BackedInv, Backed, SkippedIsIndexed, NoEntry
<1> QED
  BY <1>1, <1>3, <1>4

LEMMA IndexStep ==
    ASSUME OneFresh, TypeOK, HandInv, WalkInv, RowInv, OrderInv, BackedInv, [Next]_vars
    PROVE  RowInv' /\ OrderInv' /\ BackedInv'
<1>1. RowInv' /\ OrderInv'
  BY RowStep, OrderStep DEF OneFresh
<1>2. ASSUME UNCHANGED vars PROVE BackedInv'
  <2>1. UNCHANGED <<object, manifest, vectors, org, worker>>
    BY <1>2 DEF vars
  <2>2. SkippedIsIndexed'
    BY <2>1 DEF BackedInv, SkippedIsIndexed
  <2>3. ASSUME NEW w \in Workers PROVE Backed(worker[w])'
    BY <2>1 DEF BackedInv, Backed
  <2> QED
    BY <2>2, <2>3 DEF BackedInv
<1>3. ASSUME NEW w \in Workers, WalkStep(w) PROVE BackedInv'
  BY <1>3, BackedStep
<1>4. ASSUME NEW w \in Workers, Dispatch(w) \/ WalkCut(w) PROVE BackedInv'
  BY <1>4, BackedCut
<1>5. ASSUME Expire \/ BucketStep \/ ToggleStep \/ PurgeStep PROVE BackedInv'
  <2>1. Fresh
    BY DEF OneFresh
  <2> QED
    BY <1>5, <2>1, BackedOther
<1> QED
  BY <1>1, <1>2, <1>3, <1>4, <1>5 DEF Next

\* One worker at a time, and an ETag that never recurs: what a walk will skip has
\* its vectors, whatever failed and wherever the walks before it were cut off.
THEOREM SkippedAreIndexed ==
    ASSUME OneFresh
    PROVE  Spec => []SkippedIsIndexed
<1>1. Init => RowInv /\ OrderInv /\ BackedInv
  BY IndexInit
<1>2. TypeOK /\ HandInv /\ WalkInv /\ RowInv /\ OrderInv /\ BackedInv /\ [Next]_vars =>
        RowInv' /\ OrderInv' /\ BackedInv'
  BY IndexStep
<1>3. BackedInv => SkippedIsIndexed
  BY DEF BackedInv
<1> QED
  BY <1>1, <1>2, <1>3, WalkAlways, PTL DEF Spec

=============================================================================
