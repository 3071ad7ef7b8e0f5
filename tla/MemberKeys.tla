----------------------------- MODULE MemberKeys -----------------------------
(***************************************************************************)
(* Access keys against membership changes, in one organization.            *)
(*                                                                         *)
(* A key is a credential held by a storage vendor plus a row in DynamoDB   *)
(* that lists it.  Minting writes the vendor first and the row second;     *)
(* revoking deletes at the vendor first and the row second; a narrowing of *)
(* a member's role (or their removal) revokes the keys the new role could  *)
(* not hold BEFORE it writes the role, and fences that write on the        *)
(* member's mint sequence.  None of these requests holds a lock.           *)
(*                                                                         *)
(* Each HTTP request is a record in req, and each call it makes to DynamoDB*)
(* or to a vendor is one action, so requests interleave between calls.     *)
(*                                                                         *)
(* An operator named Bug... is a definition broken on purpose: it is not   *)
(* part of Next, and shows which property notices that mistake.            *)
(***************************************************************************)
EXTENDS Integers, FiniteSets

CONSTANTS
    Members,      \* user ids that may be members of the organization
    Keys,         \* the vendor's key ids
    Names,        \* key names a caller may ask for
    Reqs,         \* request slots: each serves one request (a bound)
    NameOf,       \* the key name the create request in a slot asks for
    Roles,        \* the roles in use, a subset of the four
    Grants,       \* what keys may carry, a subset of AllGrants
    Faults,       \* which failures happen: "crash", "vendor", "store"
    Nobody, NoKey, NoName

AllRoles == {"owner", "admin", "member", "read_only"}
NoRole == ""

\* What a key row says its key carries.  "principal" is a key bound to its
\* member's principal; the others are service keys, by the least role that may
\* mint them: a member mints "objects" keys, an admin "bucket_admin" keys (and
\* every service key of an iam region), an owner "retention" keys.  "unrecorded"
\* is a row that records no permission set.
AllGrants == {"objects", "bucket_admin", "retention", "principal"}
RowGrants == AllGrants \union {"unrecorded"}

ASSUME ConstantsAssumption ==
    /\ NoKey \notin Keys
    /\ Nobody \notin Members
    /\ NoName \notin Names
    /\ NameOf \in [Reqs -> Names]
    /\ Roles \subseteq AllRoles
    /\ Grants \subseteq AllGrants
    /\ Faults \subseteq {"crash", "vendor", "store"}

VARIABLES
    role,      \* the role on each member's canonical membership row
    mintSeq,   \* each member's mint counter; 0 stands for an absent row
    vendor,    \* the credentials, as the storage vendor holds them
    row,       \* the key rows of UserInfoTable
    req        \* the requests in flight and finished

vars == <<role, mintSeq, vendor, row, req>>

-----------------------------------------------------------------------------
(* The capability matrix, as far as keys are concerned.                    *)

Rank == [x \in AllRoles \union {NoRole} |->
            CASE x = "owner" -> 4 [] x = "admin" -> 3 [] x = "member" -> 2
              [] x = "read_only" -> 1 [] OTHER -> 0]

RoleNarrows(from, to) == Rank[to] < Rank[from]

\* The rank a role needs to mint a key carrying a grant; no role mints an
\* unrecorded one.
RankToMint == [g \in RowGrants |->
            CASE g = "retention" -> 4 [] g = "bucket_admin" -> 3
              [] g = "unrecorded" -> 5 [] OTHER -> 2]

CanRoleHoldKey(x, g) == Rank[x] >= RankToMint[g]

\* What a role change keeps: a principal-bound key follows the bucket policies
\* and only a removal revokes it.
Retained(x, g) == IF g = "principal" THEN x # NoRole ELSE CanRoleHoldKey(x, g)

ManagesAllKeys(x) == Rank[x] >= Rank["admin"]

-----------------------------------------------------------------------------
\* A create whose name the vendor already holds goes on as a "recover".
Kinds == {"none", "create", "recover", "rotate", "delete", "change"}

\* Where a request is.  "revoke", "undo" and "supersede" are the three passes
\* of vendor revocations: a membership change's or a user's, the discard of a
\* key just recorded, and a rotation taking the key it replaced.
Phases == {"idle", "name", "mint", "recover", "find", "record", "recheck", "hand_back",
           "undo", "release", "supersede", "read_seq", "list", "principal",
           "revoke", "commit", "done", "crashed"}
Revoking == {"revoke", "undo", "supersede"}

\* The audit correlation a mint opens before it calls the vendor.
Intents == {"none", "open", "succeeded", "failed", "cleanup_failed"}

Outcomes == {"none", "created", "refused", "conflict", "cancelled", "fenced",
             "changed", "deleted", "error"}

NoRow == [listed |-> FALSE, createdBy |-> Nobody, grant |-> "unrecorded",
          name |-> NoName, recovered |-> FALSE, replacedBy |-> NoKey]

NoCredential == [state |-> "absent", grant |-> "objects", name |-> NoName,
                 principal |-> Nobody]

IdleRequest ==
    [kind |-> "none", pc |-> "idle", by |-> Nobody, owner |-> Nobody,
     grant |-> "unrecorded", name |-> NoName, key |-> NoKey, src |-> NoKey,
     recovered |-> FALSE, intent |-> "none",
     from |-> NoRole, to |-> NoRole, seen |-> 0,
     todo |-> {}, gone |-> {}, refused |-> {}, outcome |-> "none"]

Credentials == [state : {"absent", "live", "deleted"}, grant : AllGrants,
                name : Names \union {NoName}, principal : Members \union {Nobody}]

KeyRows == [listed : BOOLEAN, createdBy : Members \union {Nobody},
            grant : RowGrants, name : Names \union {NoName},
            recovered : BOOLEAN, replacedBy : Keys \union {NoKey}]

Requests == [kind : Kinds, pc : Phases, by : Members \union {Nobody},
             owner : Members \union {Nobody}, grant : RowGrants,
             name : Names \union {NoName}, key : Keys \union {NoKey},
             src : Keys \union {NoKey}, recovered : BOOLEAN, intent : Intents,
             from : Roles \union {NoRole}, to : Roles \union {NoRole},
             seen : Nat, todo : SUBSET Keys, gone : SUBSET Keys,
             refused : SUBSET Keys, outcome : Outcomes]

TypeOK ==
    /\ role \in [Members -> Roles \union {NoRole}]
    /\ mintSeq \in [Members -> Nat]
    /\ vendor \in [Keys -> Credentials]
    /\ row \in [Keys -> KeyRows]
    /\ req \in [Reqs -> Requests]

Init ==
    /\ role \in [Members -> Roles \union {NoRole}]
    /\ mintSeq = [m \in Members |-> 0]
    /\ vendor = [k \in Keys |-> NoCredential]
    /\ row = [k \in Keys |-> NoRow]
    /\ req = [r \in Reqs |-> IdleRequest]

-----------------------------------------------------------------------------
Live(k) == vendor[k].state = "live"

\* orgAlreadyShowsKeyName: some row of the org shows the name.
Shown(n) == \E k \in Keys : row[k].listed /\ row[k].name = n

\* The vendor keeps a name unique among the live service keys of the tenant,
\* and among one principal's keys.
Principal(g, m) == IF g = "principal" THEN m ELSE Nobody
HoldsName(k, n, p) == Live(k) /\ vendor[k].name = n /\ vendor[k].principal = p

WithinScope(m, k) ==
    \/ ManagesAllKeys(role[m])
    \/ /\ CanRoleHoldKey(role[m], "objects")
       /\ row[k].createdBy = m
       /\ ~row[k].recovered

At(r, pc) == req[r].pc = pc

\* The step leaves request r at q, and every other request where it was.
Becomes(r, q) == req' = [req EXCEPT ![r] = q]

\* It goes on to another phase, or ends with its answer.
Goes(r, pc) == Becomes(r, [req[r] EXCEPT !.pc = pc])
Answers(r, o) == Becomes(r, [req[r] EXCEPT !.pc = "done", !.outcome = o])

\* Closing a correlation is a write of its own, and it may fail: the intent then
\* stays open.
Closed(i) == {i} \union (IF "store" \in Faults THEN {"open"} ELSE {})
ClosesAndAnswers(r, i, o) ==
    \E c \in Closed(i) :
        Becomes(r, [req[r] EXCEPT !.pc = "done", !.outcome = o, !.intent = c])

-----------------------------------------------------------------------------
(* POST /api/access-keys: create-access-key.ts                             *)

\* The request arrives: the membership snapshot clears keys.create and the
\* creator-authority cap.
CreateKey(r, m, g) ==
    /\ At(r, "idle")
    /\ CanRoleHoldKey(role[m], g)
    /\ Becomes(r, [req[r] EXCEPT !.kind = "create", !.pc = "name",
                 !.by = m, !.owner = m, !.grant = g, !.name = NameOf[r]])
    /\ UNCHANGED <<role, mintSeq, vendor, row>>

\* A name the org shows is refused; a free one lets the fail-closed intent land.
CheckName(r) ==
    /\ At(r, "name")
    /\ IF Shown(req[r].name)
         THEN Answers(r, "conflict")
         ELSE Becomes(r, [req[r] EXCEPT !.pc = "mint", !.intent = "open"])
    /\ UNCHANGED <<role, mintSeq, vendor, row>>

\* A replacement is minted under a name of its own, so it never conflicts.
NameTaken(r) ==
    /\ req[r].kind = "create"
    /\ \E k \in Keys : HoldsName(k, req[r].name, Principal(req[r].grant, req[r].owner))

Issue(r, k) ==
    /\ ~NameTaken(r)
    /\ vendor[k].state = "absent"
    /\ req[r].grant # "unrecorded"
    /\ vendor' = [vendor EXCEPT ![k] =
         [state |-> "live", grant |-> req[r].grant,
          name |-> IF req[r].kind = "rotate" THEN NoName ELSE req[r].name,
          principal |-> Principal(req[r].grant, req[r].owner)]]

\* issueAccessKey answers with a credential.
VendorMints(r, k) ==
    /\ At(r, "mint")
    /\ Issue(r, k)
    /\ Becomes(r, [req[r] EXCEPT !.key = k, !.pc = "record"])
    /\ UNCHANGED <<role, mintSeq, row>>

\* The vendor already holds the name.
VendorConflict(r) ==
    /\ At(r, "mint")
    /\ NameTaken(r)
    /\ Goes(r, "recover")
    /\ UNCHANGED <<role, mintSeq, vendor, row>>

\* A validation error closes the correlation; nothing was minted.
VendorRejects(r) ==
    /\ At(r, "mint")
    /\ "vendor" \in Faults
    /\ ClosesAndAnswers(r, "failed", "refused")
    /\ UNCHANGED <<role, mintSeq, vendor, row>>

\* Any other error is rethrown: a credential may exist, and the intent dangles.
VendorUnknown(r) ==
    /\ At(r, "mint")
    /\ "vendor" \in Faults
    /\ \/ /\ Answers(r, "error")
          /\ UNCHANGED vendor
       \/ \E k \in Keys :
            /\ Issue(r, k)
            /\ Becomes(r, [req[r] EXCEPT !.pc = "done",
                         !.key = k, !.outcome = "error"])
    /\ UNCHANGED <<role, mintSeq, row>>

\* recoverDuplicateKey lists again: a row showing the name is a plain duplicate.
RecoverList(r) ==
    /\ At(r, "recover")
    /\ IF Shown(req[r].name)
         THEN ClosesAndAnswers(r, "failed", "conflict")
         ELSE Goes(r, "find")
    /\ UNCHANGED <<role, mintSeq, vendor, row>>

\* findAccessKeyByName: the credential an earlier attempt left behind, or none.
RecoverFind(r) ==
    /\ At(r, "find")
    /\ \/ \E k \in Keys :
            /\ HoldsName(k, req[r].name, Principal(req[r].grant, req[r].owner))
            /\ Becomes(r, [req[r] EXCEPT !.kind = "recover",
                         !.pc = "record", !.key = k, !.recovered = TRUE])
       \/ /\ ~NameTaken(r)
          /\ ClosesAndAnswers(r, "failed", "conflict")
    /\ UNCHANGED <<role, mintSeq, vendor, row>>

-----------------------------------------------------------------------------
(* recordMintedKey: the row, the sequence bump and the completion, in one  *)
(* transaction.                                                            *)

\* claimSourceRow: one replacement per key.
BugSourceUnclaimed(r) == row[req[r].src].listed
SourceUnclaimed(r) ==
    /\ row[req[r].src].listed
    /\ row[req[r].src].replacedBy = NoKey

\* The conditions the transaction carries: the owner's role on file may hold
\* the requested key; a rotation also claims its source row, and asserts the
\* rotator's authority when the key is somebody else's.
MayRecord(r) ==
    LET q == req[r]
    IN  /\ CanRoleHoldKey(role[q.owner], q.grant)
        /\ q.kind = "rotate" =>
             /\ SourceUnclaimed(r)
             /\ q.by # q.owner => /\ ManagesAllKeys(role[q.by])
                                  /\ CanRoleHoldKey(role[q.by], q.grant)

BugMintedRow(r) ==
    [listed |-> TRUE, createdBy |-> req[r].name, grant |-> req[r].grant,
     name |-> req[r].name, recovered |-> req[r].recovered, replacedBy |-> NoKey]

\* A recovered service key's row records no permission set; a replacement's row
\* keeps its owner and whether that owner was a guess.
MintedRow(r) ==
    [listed |-> TRUE, createdBy |-> req[r].owner,
     grant |-> IF req[r].kind = "recover" /\ req[r].grant # "principal"
                 THEN "unrecorded" ELSE req[r].grant,
     name |-> req[r].name, recovered |-> req[r].recovered, replacedBy |-> NoKey]

\* The rows after the transaction: the Put is unconditional, and a rotation's
\* claim names the replacement on the source row.
RowsRecorded(r) ==
    [k \in Keys |->
        IF k = req[r].key THEN MintedRow(r)
        ELSE IF req[r].kind = "rotate" /\ k = req[r].src
               THEN [row[k] EXCEPT !.replacedBy = req[r].key]
        ELSE row[k]]

WriteMint(r) ==
    /\ mintSeq' = [mintSeq EXCEPT ![req[r].owner] = @ + 1]
    /\ row' = RowsRecorded(r)

Record(r) ==
    /\ At(r, "record")
    /\ MayRecord(r)
    /\ WriteMint(r)
    /\ \/ /\ req[r].kind = "recover"
          /\ Becomes(r, [req[r] EXCEPT !.pc = "done", !.outcome = "conflict",
                                       !.intent = "succeeded"])
       \/ /\ req[r].kind # "recover"
          /\ Becomes(r, [req[r] EXCEPT !.pc = "recheck", !.intent = "succeeded"])
    /\ UNCHANGED <<role, vendor>>

\* Two transactions in flight on one member's rows or on one key's row: the
\* store may cancel one of them for contention.
Touches(r) == {req[r].owner, req[r].by, req[r].key, req[r].src} \ {Nobody, NoKey}
Contends(r) ==
    \E q \in Reqs \ {r} :
        /\ req[q].pc \in {"record", "commit"}
        /\ Touches(q) \intersect Touches(r) # {}

\* minter_role_changed, condition_failed or write_conflict: nothing landed.
RecordRefused(r) ==
    /\ At(r, "record")
    /\ ~MayRecord(r) \/ Contends(r)
    /\ Goes(r, "hand_back")
    /\ UNCHANGED <<role, mintSeq, vendor, row>>

\* The write throws something else: it may or may not have committed, and the
\* request answers an error with the intent as the transaction left it.
RecordUnknown(r) ==
    /\ At(r, "record")
    /\ "store" \in Faults
    /\ \/ /\ MayRecord(r)
          /\ WriteMint(r)
          /\ Becomes(r, [req[r] EXCEPT !.pc = "done",
                       !.intent = "succeeded", !.outcome = "error"])
       \/ /\ Answers(r, "error")
          /\ UNCHANGED <<mintSeq, row>>
    /\ UNCHANGED <<role, vendor>>

\* discardUnrecordedKey: the credential goes back, then the correlation closes,
\* saying so when the vendor refused to take it.
HandBack(r) ==
    /\ At(r, "hand_back")
    /\ \/ /\ vendor' = [vendor EXCEPT ![req[r].key].state = "deleted"]
          /\ ClosesAndAnswers(r, "failed", "refused")
       \/ /\ "vendor" \in Faults
          /\ ClosesAndAnswers(r, "cleanup_failed", "refused")
          /\ UNCHANGED vendor
    /\ UNCHANGED <<role, mintSeq, row>>

\* keyExceedsCurrentRole, the read after the write, and what follows it: the
\* 201 of a create, the revocation of the replaced key, or the discard.
Recheck(r) ==
    /\ At(r, "recheck")
    /\ IF ~CanRoleHoldKey(role[req[r].owner], req[r].grant)
         THEN Becomes(r, [req[r] EXCEPT !.pc = "undo", !.todo = {req[r].key}])
       ELSE IF req[r].kind = "rotate"
         THEN Becomes(r, [req[r] EXCEPT !.pc = "supersede", !.todo = {req[r].src}])
       ELSE Answers(r, "created")
    /\ UNCHANGED <<role, mintSeq, vendor, row>>

-----------------------------------------------------------------------------
(* POST .../rotate: rotate-access-key.ts, up to the mint it shares.        *)

RotateKey(r, m, k) ==
    /\ At(r, "idle")
    /\ row[k].listed
    /\ WithinScope(m, k)
    /\ row[k].grant # "unrecorded"
    /\ row[k].replacedBy = NoKey
    /\ CanRoleHoldKey(role[m], row[k].grant)
    /\ Becomes(r, [req[r] EXCEPT !.kind = "rotate", !.pc = "mint",
                 !.by = m, !.owner = row[k].createdBy, !.grant = row[k].grant,
                 !.name = row[k].name, !.recovered = row[k].recovered,
                 !.src = k, !.intent = "open"])
    /\ UNCHANGED <<role, mintSeq, vendor, row>>

BugReleaseClaim(r) ==
    /\ At(r, "release")
    /\ Answers(r, "refused")
    /\ UNCHANGED <<role, mintSeq, vendor, row>>

\* releaseSourceClaim: the replacement is gone, so the old row may be rotated.
ReleaseClaim(r) ==
    /\ At(r, "release")
    /\ \/ row' = [row EXCEPT ![req[r].src].replacedBy =
                    IF @ = req[r].key THEN NoKey ELSE @]
       \/ "store" \in Faults /\ UNCHANGED row
    /\ Answers(r, "refused")
    /\ UNCHANGED <<role, mintSeq, vendor>>

-----------------------------------------------------------------------------
(* DELETE /api/access-keys/{keyId}: delete-access-key.ts                   *)

DeleteKey(r, m, k) ==
    /\ At(r, "idle")
    /\ row[k].listed
    /\ WithinScope(m, k)
    /\ Becomes(r, [req[r] EXCEPT !.kind = "delete", !.pc = "revoke",
                 !.by = m, !.todo = {k}])
    /\ UNCHANGED <<role, mintSeq, vendor, row>>

-----------------------------------------------------------------------------
(* revokeAccessKey, for every key of a pass in parallel.                   *)

\* The vendor deletes the credential; one already deleted answers the same.
RevokeAtVendor(r, k) ==
    /\ req[r].pc \in Revoking
    /\ k \in req[r].todo
    /\ vendor' = [vendor EXCEPT ![k].state = "deleted"]
    /\ Becomes(r, [req[r] EXCEPT !.todo = req[r].todo \ {k}, !.gone = req[r].gone \union {k}])
    /\ UNCHANGED <<role, mintSeq, row>>

\* The vendor refuses: the credential and its row stay.
RevokeRefused(r, k) ==
    /\ req[r].pc \in Revoking
    /\ "vendor" \in Faults
    /\ k \in req[r].todo
    /\ Becomes(r, [req[r] EXCEPT !.todo = req[r].todo \ {k},
                 !.refused = req[r].refused \union {k}])
    /\ UNCHANGED <<role, mintSeq, vendor, row>>

BugDropRow(r, k) ==
    /\ req[r].pc \in Revoking
    /\ k \in req[r].todo \union req[r].gone
    /\ row' = [row EXCEPT ![k] = NoRow]
    /\ Becomes(r, [req[r] EXCEPT !.gone = req[r].gone \ {k}])
    /\ UNCHANGED <<role, mintSeq, vendor>>

\* The row goes with the completion; when that write fails the row survives
\* a dead credential, which still counts as revoked.
DropRow(r, k) ==
    /\ req[r].pc \in Revoking
    /\ k \in req[r].gone
    /\ \/ row' = [row EXCEPT ![k] = NoRow]
       \/ "store" \in Faults /\ UNCHANGED row
    /\ Becomes(r, [req[r] EXCEPT !.gone = req[r].gone \ {k}])
    /\ UNCHANGED <<role, mintSeq, vendor>>

\* Every key has settled.  A refused key ends a membership change with nothing
\* written; the other passes only report it.
PassDone(r) ==
    /\ req[r].pc \in Revoking
    /\ req[r].todo = {} /\ req[r].gone = {}
    /\ CASE req[r].kind = "change" /\ req[r].refused = {} -> Goes(r, "commit")
         [] req[r].kind = "delete" /\ req[r].refused = {} -> Answers(r, "deleted")
         [] req[r].pc = "supersede" -> Answers(r, "created")
         [] req[r].pc = "undo" /\ req[r].kind = "rotate" /\ req[r].refused = {} ->
              Goes(r, "release")
         [] OTHER -> Answers(r, "refused")
    /\ UNCHANGED <<role, mintSeq, vendor, row>>

-----------------------------------------------------------------------------
(* A membership change: update-member-role.ts, remove-member.ts and the    *)
(* outgoing owner's half of transfer-ownership.ts.                         *)

\* The target's role is read; a widening strands no key and is not fenced.
ChangeRole(r, m, to) ==
    /\ At(r, "idle")
    /\ role[m] # NoRole
    /\ to # role[m]
    /\ Becomes(r, [req[r] EXCEPT !.kind = "change", !.owner = m,
                 !.from = role[m], !.to = to,
                 !.pc = IF RoleNarrows(role[m], to) THEN "read_seq" ELSE "commit"])
    /\ UNCHANGED <<role, mintSeq, vendor, row>>

\* reviewKeysForRoleChange: the sequence first, then the listing.
ReadSeq(r) ==
    /\ At(r, "read_seq")
    /\ Becomes(r, [req[r] EXCEPT !.pc = "list",
                 !.seen = mintSeq[req[r].owner]])
    /\ UNCHANGED <<role, mintSeq, vendor, row>>

KeysToRevoke(m, to) ==
    {k \in Keys : /\ row[k].listed
                  /\ row[k].createdBy = m
                  /\ ~Retained(to, row[k].grant)}

ListKeys(r) ==
    /\ At(r, "list")
    /\ Becomes(r, [req[r] EXCEPT
                 !.todo = KeysToRevoke(req[r].owner, req[r].to),
                 !.pc = IF req[r].to = NoRole THEN "principal" ELSE "revoke"])
    /\ UNCHANGED <<role, mintSeq, vendor, row>>

PrincipalKeys(m) == {k \in Keys : Live(k) /\ vendor[k].principal = m}

\* A removal first takes the member's principal in every region at once, and its
\* keys with it.  A region that refuses ends the request; the others have gone.
RemovePrincipal(r) ==
    /\ At(r, "principal")
    /\ \E S \in SUBSET PrincipalKeys(req[r].owner) :
         /\ vendor' = [k \in Keys |->
                IF k \in S THEN [vendor[k] EXCEPT !.state = "deleted"] ELSE vendor[k]]
         /\ \/ /\ S = PrincipalKeys(req[r].owner)
               /\ Goes(r, "revoke")
            \/ /\ "vendor" \in Faults
               /\ Becomes(r, [req[r] EXCEPT !.pc = "done", !.todo = {},
                            !.outcome = "error"])
    /\ UNCHANGED <<role, mintSeq, row>>

RoleUnmoved(r) == role[req[r].owner] = req[r].from

BugSeqUnmoved(r) == TRUE
SeqUnmoved(r) ==
    RoleNarrows(req[r].from, req[r].to) => mintSeq[req[r].owner] = req[r].seen

\* commitAfterRevokingKeys: the membership rows, behind the fence.  A write that
\* throws after it committed answers an error.
CommitChange(r) ==
    /\ At(r, "commit")
    /\ RoleUnmoved(r)
    /\ SeqUnmoved(r)
    /\ role' = [role EXCEPT ![req[r].owner] = req[r].to]
    /\ \E o \in {"changed"} \union (IF "store" \in Faults THEN {"error"} ELSE {}) :
         Answers(r, o)
    /\ UNCHANGED <<mintSeq, vendor, row>>

\* The transaction does not land.  keyMinted ("fenced") is the answer only when
\* the fence is the one item that failed.
CommitCancelled(r) ==
    /\ At(r, "commit")
    /\ ~RoleUnmoved(r) \/ ~SeqUnmoved(r) \/ Contends(r) \/ "store" \in Faults
    /\ Becomes(r, [req[r] EXCEPT !.pc = "done", !.outcome =
                 IF RoleUnmoved(r) /\ ~SeqUnmoved(r) THEN "fenced" ELSE "cancelled"])
    /\ UNCHANGED <<role, mintSeq, vendor, row>>

-----------------------------------------------------------------------------
\* A user joins (accept-invitation.ts): the mint sequence keeps counting.
Join(m, x) ==
    /\ role[m] = NoRole
    /\ role' = [role EXCEPT ![m] = x]
    /\ UNCHANGED <<mintSeq, vendor, row, req>>

\* A Lambda dies between two calls; nothing runs for the request again.
Crash(r) ==
    /\ "crash" \in Faults
    /\ req[r].pc \notin {"idle", "done", "crashed"}
    /\ Becomes(r, [req[r] EXCEPT !.pc = "crashed", !.todo = {}, !.gone = {}])
    /\ UNCHANGED <<role, mintSeq, vendor, row>>

-----------------------------------------------------------------------------
MintStep(r) ==
    \/ \E m \in Members, g \in Grants : CreateKey(r, m, g)
    \/ \E m \in Members, k \in Keys : RotateKey(r, m, k)
    \/ CheckName(r)
    \/ \E k \in Keys : VendorMints(r, k)
    \/ VendorConflict(r)
    \/ VendorRejects(r)
    \/ VendorUnknown(r)
    \/ RecoverList(r)
    \/ RecoverFind(r)
    \/ Record(r)
    \/ RecordRefused(r)
    \/ RecordUnknown(r)
    \/ HandBack(r)
    \/ Recheck(r)
    \/ ReleaseClaim(r)

RevokeStep(r) ==
    \/ \E m \in Members, k \in Keys : DeleteKey(r, m, k)
    \/ \E k \in Keys : RevokeAtVendor(r, k)
    \/ \E k \in Keys : RevokeRefused(r, k)
    \/ \E k \in Keys : DropRow(r, k)
    \/ PassDone(r)

ChangeStep(r) ==
    \/ \E m \in Members, to \in Roles \union {NoRole} : ChangeRole(r, m, to)
    \/ ReadSeq(r)
    \/ ListKeys(r)
    \/ RemovePrincipal(r)
    \/ CommitChange(r)
    \/ CommitCancelled(r)

Next ==
    \/ \E r \in Reqs : MintStep(r) \/ RevokeStep(r) \/ ChangeStep(r) \/ Crash(r)
    \/ \E m \in Members, x \in Roles : Join(m, x)

Spec == Init /\ [][Next]_vars

-----------------------------------------------------------------------------
(* Properties.                                                             *)

\* What a role may leave standing: a row that records no permission set was
\* recovered by somebody whose role minted keys, and goes with that role.
Entitled(x, g) ==
    IF g = "unrecorded" THEN CanRoleHoldKey(x, "objects") ELSE Retained(x, g)

\* A live key never exceeds the role its owner holds, at any moment: not between
\* a narrowing's listing and its commit, not after a crash, a refusing vendor or
\* a write whose answer was lost, and not for a member who has left.
\* (commit-after-revoking-keys.ts: "a member is never wider at a storage vendor
\* than the role the console records for them".)
LiveRowWithinRole ==
    \A k \in Keys :
        Live(k) /\ row[k].listed /\ row[k].createdBy \in Members
            => Entitled(role[row[k].createdBy], row[k].grant)

\* A credential no row lists is never invisible: a mint's audit intent is still
\* open on it, or says its cleanup failed.  (discardUnrecordedKey: "A dangling
\* intent is the better failure: it is visible, and an orphan credential is not".)
OrphansAreVisible ==
    \A k \in Keys :
        Live(k) /\ ~row[k].listed =>
            \E r \in Reqs : /\ req[r].key = k
                            /\ req[r].intent \in {"open", "cleanup_failed"}

\* Two rotations of one key never both leave a replacement behind, however their
\* mints, discards and claims interleave (rotate-access-key.ts, claimSourceRow).
OneReplacement ==
    \A r, q \in Reqs :
        /\ r # q
        /\ req[r].kind = "rotate" /\ req[q].kind = "rotate"
        /\ req[r].src = req[q].src
        /\ req[r].intent = "succeeded" /\ req[q].intent = "succeeded"
        => ~(Live(req[r].key) /\ Live(req[q].key))

Settled == \A r \in Reqs : req[r].pc \in {"idle", "done"}

\* Where nothing fails, no key is left claimed by a rotation once every request
\* is answered: it was revoked, or its claim was released, so a listed key can
\* always be rotated again (rotate-access-key.ts, releaseSourceClaim).
ClaimsSettle ==
    Settled => \A k \in Keys : row[k].listed => row[k].replacedBy = NoKey

\* A key a member was handed in a 201 does not outlive the role that minted it.
\* (remove-member.ts: "a key does not outlive the membership that created it, so
\* every attributed key the member minted is revoked at its orchestrator before
\* the membership rows go".)
HandedOutKeysWithinRole ==
    \A r \in Reqs :
        req[r].kind = "create" /\ req[r].outcome = "created" /\ Live(req[r].key)
            => Retained(role[req[r].owner], req[r].grant)

\* A key is discarded as unrecorded only while nobody holds its secret.
\* (key-mint.ts: "It is deleted here rather than left for the non-conforming-key
\* review: the secret has not been returned to anybody.")
DiscardsNoHandedOutKey ==
    [][\A r, q \in Reqs :
          /\ req[q].pc = "hand_back" /\ Live(req[q].key)
          /\ vendor'[req[q].key].state = "deleted" /\ req'[q].pc = "done"
          => ~(req[r].outcome = "created" /\ req[r].key = req[q].key)]_vars
=============================================================================
