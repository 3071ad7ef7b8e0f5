---------------------- MODULE MemberKeysRotationProofs ----------------------
(***************************************************************************)
(* More proofs about MemberKeys: what becomes of a credential no row lists *)
(* and of a key that is being rotated.                                     *)
(*                                                                         *)
(*  - OrphanInv: an unlisted live credential is the one its own minter     *)
(*    still has an open intent on, because a row is only dropped for a     *)
(*    credential that was deleted first.                                   *)
(*  - ClaimInv: where nothing fails, a claim on a row belongs to a rotation*)
(*    that still has to end it.                                            *)
(*  - ReplacementInv: while its replacement lives, a recorded rotation is  *)
(*    the one its source row names.                                        *)
(***************************************************************************)
EXTENDS MemberKeysProofs

-----------------------------------------------------------------------------
(* What each step leaves of the request it belongs to.                     *)

OthersStay(r) == \A s \in Reqs \ {r} : req'[s] = req[s]

SameIdentity(r) ==
    /\ req'[r].kind = req[r].kind /\ req'[r].name = req[r].name
    /\ req'[r].key = req[r].key /\ req'[r].src = req[r].src

SameWork(r) ==
    /\ req'[r].todo = req[r].todo /\ req'[r].gone = req[r].gone
    /\ req'[r].refused = req[r].refused

SameIntent(r) == req'[r].intent = req[r].intent

\* Only the phase, the answer, or what a change has seen differs.
MovesOn(r, p) ==
    /\ OthersStay(r) /\ SameIdentity(r) /\ SameWork(r) /\ SameIntent(r)
    /\ req'[r].pc = p

LEMMA AnswersEffect ==
    ASSUME TypeOK, NEW r \in Reqs, NEW o, Answers(r, o)
    PROVE  MovesOn(r, "done")
<1>1. req[r] \in Requests
  BY DEF TypeOK
<1>2. req'[r] = [req[r] EXCEPT !.pc = "done", !.outcome = o] /\ OthersStay(r)
  BY StepFields DEF Answers, OthersStay
<1> QED
  BY <1>1, <1>2 DEF Requests, MovesOn, SameIdentity, SameWork, SameIntent

LEMMA GoesEffect ==
    ASSUME TypeOK, NEW r \in Reqs, NEW p, Goes(r, p)
    PROVE  MovesOn(r, p)
<1>1. req[r] \in Requests
  BY DEF TypeOK
<1>2. req'[r] = [req[r] EXCEPT !.pc = p] /\ OthersStay(r)
  BY StepFields DEF Goes, OthersStay
<1> QED
  BY <1>1, <1>2 DEF Requests, MovesOn, SameIdentity, SameWork, SameIntent

LEMMA ClosesEffect ==
    ASSUME TypeOK, NEW r \in Reqs, NEW i, NEW o, ClosesAndAnswers(r, i, o)
    PROVE  /\ OthersStay(r) /\ SameIdentity(r) /\ SameWork(r)
           /\ req'[r].pc = "done" /\ req'[r].intent \in {i, "open"}
<1>1. req[r] \in Requests
  BY DEF TypeOK
<1>2. PICK c \in {i, "open"} :
        Becomes(r, [req[r] EXCEPT !.pc = "done", !.outcome = o, !.intent = c])
  BY DEF ClosesAndAnswers, Closed
<1>3. /\ req'[r] = [req[r] EXCEPT !.pc = "done", !.outcome = o, !.intent = c]
      /\ OthersStay(r)
  BY <1>2, StepFields DEF OthersStay
<1> QED
  BY <1>1, <1>3 DEF Requests, SameIdentity, SameWork

LEMMA CreateKeyEffect ==
    ASSUME TypeOK, NEW r \in Reqs, NEW m \in Members, NEW g \in Grants, CreateKey(r, m, g)
    PROVE  /\ OthersStay(r) /\ SameWork(r) /\ SameIntent(r)
           /\ req[r].pc = "idle" /\ req'[r].pc = "name"
           /\ req'[r].kind = "create" /\ req'[r].name = NameOf[r]
           /\ req'[r].key = req[r].key /\ req'[r].src = req[r].src
<1>1. req[r] \in Requests
  BY DEF TypeOK
<1>2. /\ req'[r] = [req[r] EXCEPT !.kind = "create", !.pc = "name", !.by = m,
                       !.owner = m, !.grant = g, !.name = NameOf[r]]
      /\ OthersStay(r)
  BY StepFields DEF CreateKey, OthersStay
<1> QED
  BY <1>1, <1>2 DEF CreateKey, At, Requests, SameWork, SameIntent

LEMMA RotateKeyEffect ==
    ASSUME TypeOK, NEW r \in Reqs, NEW m \in Members, NEW k \in Keys, RotateKey(r, m, k)
    PROVE  /\ OthersStay(r) /\ SameWork(r)
           /\ req[r].pc = "idle" /\ req'[r].pc = "mint" /\ req'[r].intent = "open"
           /\ req'[r].kind = "rotate" /\ req'[r].src = k /\ req'[r].key = req[r].key
<1>1. req[r] \in Requests
  BY DEF TypeOK
<1>2. /\ req'[r] = [req[r] EXCEPT !.kind = "rotate", !.pc = "mint", !.by = m,
                !.owner = row[k].createdBy, !.grant = row[k].grant,
                !.name = row[k].name, !.recovered = row[k].recovered,
                !.src = k, !.intent = "open"]
      /\ OthersStay(r)
  BY StepFields DEF RotateKey, OthersStay
<1> QED
  BY <1>1, <1>2 DEF RotateKey, At, Requests, SameWork

LEMMA CheckNameEffect ==
    ASSUME TypeOK, NEW r \in Reqs, CheckName(r)
    PROVE  /\ OthersStay(r) /\ SameIdentity(r) /\ SameWork(r) /\ req[r].pc = "name"
           /\ \/ req'[r].pc = "done" /\ SameIntent(r)
              \/ req'[r].pc = "mint" /\ req'[r].intent = "open"
<1>1. req[r] \in Requests
  BY DEF TypeOK
<1>2. CASE Answers(r, "conflict")
  BY <1>2, AnswersEffect DEF MovesOn, CheckName, At
<1>3. CASE Becomes(r, [req[r] EXCEPT !.pc = "mint", !.intent = "open"])
  <2>1. /\ req'[r] = [req[r] EXCEPT !.pc = "mint", !.intent = "open"]
        /\ OthersStay(r)
    BY <1>3, StepFields DEF OthersStay
  <2> QED
    BY <1>1, <2>1 DEF CheckName, At, Requests, SameIdentity, SameWork
<1> QED
  BY <1>2, <1>3 DEF CheckName

\* What a request that has just been given a credential looks like.
GivenKey(r, k) ==
    /\ OthersStay(r) /\ SameWork(r) /\ SameIntent(r)
    /\ req'[r].key = k /\ req'[r].src = req[r].src /\ req'[r].name = req[r].name

LEMMA VendorMintsEffect ==
    ASSUME TypeOK, NEW r \in Reqs, NEW k \in Keys, VendorMints(r, k)
    PROVE  /\ GivenKey(r, k) /\ req'[r].kind = req[r].kind
           /\ req[r].pc = "mint" /\ req'[r].pc = "record"
<1>1. req[r] \in Requests
  BY DEF TypeOK
<1>2. req'[r] = [req[r] EXCEPT !.key = k, !.pc = "record"] /\ OthersStay(r)
  BY StepFields DEF VendorMints, OthersStay
<1> QED
  BY <1>1, <1>2 DEF VendorMints, At, Requests, GivenKey, SameWork, SameIntent

LEMMA VendorUnknownEffect ==
    ASSUME TypeOK, NEW r \in Reqs, VendorUnknown(r)
    PROVE  /\ req[r].pc = "mint" /\ req'[r].pc = "done" /\ req'[r].kind = req[r].kind
           /\ \/ MovesOn(r, "done") /\ UNCHANGED vendor
              \/ \E k \in Keys : Issue(r, k) /\ GivenKey(r, k)
<1>1. req[r] \in Requests
  BY DEF TypeOK
<1>2. CASE Answers(r, "error") /\ UNCHANGED vendor
  BY <1>2, AnswersEffect DEF MovesOn, SameIdentity, VendorUnknown, At
<1>3. ASSUME NEW k \in Keys, Issue(r, k),
             Becomes(r, [req[r] EXCEPT !.pc = "done", !.key = k, !.outcome = "error"])
      PROVE  GivenKey(r, k) /\ req'[r].pc = "done" /\ req'[r].kind = req[r].kind
  <2>1. /\ req'[r] = [req[r] EXCEPT !.pc = "done", !.key = k, !.outcome = "error"]
        /\ OthersStay(r)
    BY <1>3, StepFields DEF OthersStay
  <2> QED
    BY <1>1, <2>1 DEF Requests, GivenKey, SameWork, SameIntent
<1> QED
  BY <1>2, <1>3 DEF VendorUnknown, At

LEMMA RecoverFindEffect ==
    ASSUME TypeOK, NEW r \in Reqs, RecoverFind(r)
    PROVE  /\ req[r].pc = "find"
           /\ \/ /\ req'[r].kind = "recover" /\ req'[r].pc = "record"
                 /\ \E k \in Keys : GivenKey(r, k) /\ Live(k)
              \/ /\ OthersStay(r) /\ SameIdentity(r) /\ SameWork(r)
                 /\ req'[r].pc = "done"
<1>1. req[r] \in Requests
  BY DEF TypeOK
<1>2. ASSUME NEW k \in Keys, Live(k),
             Becomes(r, [req[r] EXCEPT !.kind = "recover", !.pc = "record",
                                       !.key = k, !.recovered = TRUE])
      PROVE  GivenKey(r, k) /\ req'[r].kind = "recover" /\ req'[r].pc = "record"
  <2>1. /\ req'[r] = [req[r] EXCEPT !.kind = "recover", !.pc = "record",
                                    !.key = k, !.recovered = TRUE]
        /\ OthersStay(r)
    BY <1>2, StepFields DEF OthersStay
  <2> QED
    BY <1>1, <2>1 DEF Requests, GivenKey, SameWork, SameIntent
<1>3. ASSUME ClosesAndAnswers(r, "failed", "conflict")
      PROVE  /\ OthersStay(r) /\ SameIdentity(r) /\ SameWork(r) /\ req'[r].pc = "done"
  BY <1>3, ClosesEffect
<1> QED
  BY <1>2, <1>3 DEF RecoverFind, HoldsName, At

LEMMA RecoverListEffect ==
    ASSUME TypeOK, NEW r \in Reqs, RecoverList(r)
    PROVE  /\ OthersStay(r) /\ SameIdentity(r) /\ SameWork(r)
           /\ req[r].pc = "recover" /\ req'[r].pc \in {"find", "done"}
BY ClosesEffect, GoesEffect DEF RecoverList, At, MovesOn

\* A transaction that landed: the row, the claim and the intent.
Recorded(r) ==
    /\ MayRecord(r) /\ row' = RowsRecorded(r)
    /\ OthersStay(r) /\ SameIdentity(r) /\ SameWork(r)
    /\ req'[r].intent = "succeeded"

LEMMA RecordEffect ==
    ASSUME TypeOK, NEW r \in Reqs, Record(r)
    PROVE  /\ Recorded(r) /\ req[r].pc = "record" /\ UNCHANGED vendor
           /\ \/ req[r].kind = "recover" /\ req'[r].pc = "done"
              \/ req[r].kind # "recover" /\ req'[r].pc = "recheck"
<1>1. req[r] \in Requests
  BY DEF TypeOK
<1>2. CASE Becomes(r, [req[r] EXCEPT !.pc = "done", !.outcome = "conflict",
                                     !.intent = "succeeded"])
            /\ req[r].kind = "recover"
  <2>1. /\ req'[r] = [req[r] EXCEPT !.pc = "done", !.outcome = "conflict",
                                    !.intent = "succeeded"]
        /\ OthersStay(r)
    BY <1>2, StepFields DEF OthersStay
  <2> QED
    BY <1>1, <1>2, <2>1 DEF Record, WriteMint, At, Requests, Recorded, SameIdentity, SameWork
<1>3. CASE Becomes(r, [req[r] EXCEPT !.pc = "recheck", !.intent = "succeeded"])
            /\ req[r].kind # "recover"
  <2>1. /\ req'[r] = [req[r] EXCEPT !.pc = "recheck", !.intent = "succeeded"]
        /\ OthersStay(r)
    BY <1>3, StepFields DEF OthersStay
  <2> QED
    BY <1>1, <1>3, <2>1 DEF Record, WriteMint, At, Requests, Recorded, SameIdentity, SameWork
<1> QED
  BY <1>2, <1>3 DEF Record

LEMMA RecordUnknownEffect ==
    ASSUME TypeOK, NEW r \in Reqs, RecordUnknown(r)
    PROVE  /\ req[r].pc = "record" /\ req'[r].pc = "done" /\ "store" \in Faults
           /\ UNCHANGED vendor
           /\ \/ Recorded(r)
              \/ MovesOn(r, "done") /\ UNCHANGED row
<1>1. req[r] \in Requests
  BY DEF TypeOK
<1>u. req[r].pc = "record" /\ "store" \in Faults /\ UNCHANGED vendor
  BY DEF RecordUnknown, At
<1>2. CASE Answers(r, "error") /\ UNCHANGED <<mintSeq, row>>
  BY <1>u, <1>2, AnswersEffect DEF MovesOn
<1>3. CASE /\ MayRecord(r) /\ WriteMint(r)
           /\ Becomes(r, [req[r] EXCEPT !.pc = "done", !.intent = "succeeded",
                                        !.outcome = "error"])
  <2>1. /\ req'[r] = [req[r] EXCEPT !.pc = "done", !.intent = "succeeded",
                                    !.outcome = "error"]
        /\ OthersStay(r)
    BY <1>3, StepFields DEF OthersStay
  <2>2. /\ req'[r].pc = "done" /\ req'[r].intent = "succeeded"
        /\ SameIdentity(r) /\ SameWork(r)
    BY <1>1, <2>1 DEF Requests, SameIdentity, SameWork
  <2>3. Recorded(r)
    BY <1>3, <2>1, <2>2 DEF WriteMint, Recorded
  <2> QED
    BY <1>u, <2>2, <2>3
<1> QED
  BY <1>2, <1>3 DEF RecordUnknown

\* The credential goes back, or the vendor keeps it and the intent says so.
LEMMA HandBackEffect ==
    ASSUME TypeOK, NEW r \in Reqs, HandBack(r)
    PROVE  /\ OthersStay(r) /\ SameIdentity(r) /\ SameWork(r) /\ UNCHANGED row
           /\ req[r].pc = "hand_back" /\ req'[r].pc = "done"
           /\ \/ /\ vendor' = [vendor EXCEPT ![req[r].key].state = "deleted"]
                 /\ req'[r].intent \in {"failed", "open"}
              \/ /\ UNCHANGED vendor
                 /\ req'[r].intent \in {"cleanup_failed", "open"}
BY ClosesEffect DEF HandBack, At

LEMMA RecheckEffect ==
    ASSUME TypeOK, NEW r \in Reqs, Recheck(r)
    PROVE  /\ OthersStay(r) /\ SameIdentity(r) /\ SameIntent(r)
           /\ req[r].pc = "recheck" /\ UNCHANGED <<vendor, row>>
           /\ req'[r].gone = req[r].gone /\ req'[r].refused = req[r].refused
           /\ \/ req'[r].pc = "undo" /\ req'[r].todo = {req[r].key}
              \/ req'[r].pc = "supersede" /\ req'[r].todo = {req[r].src}
              \/ /\ req'[r].pc = "done" /\ req'[r].todo = req[r].todo
                 /\ req[r].kind # "rotate"
<1>1. req[r] \in Requests
  BY DEF TypeOK
<1>2. CASE Answers(r, "created") /\ req[r].kind # "rotate"
  BY <1>2, AnswersEffect DEF MovesOn, Recheck, At, SameWork
<1>3. ASSUME NEW p \in {"undo", "supersede"}, NEW t,
             Becomes(r, [req[r] EXCEPT !.pc = p, !.todo = t])
      PROVE  /\ OthersStay(r) /\ SameIdentity(r) /\ SameIntent(r)
             /\ req'[r].gone = req[r].gone /\ req'[r].refused = req[r].refused
             /\ req'[r].pc = p /\ req'[r].todo = t
  <2>1. req'[r] = [req[r] EXCEPT !.pc = p, !.todo = t] /\ OthersStay(r)
    BY <1>3, StepFields DEF OthersStay
  <2> QED
    BY <1>1, <2>1 DEF Requests, SameIdentity, SameIntent
<1> QED
  BY <1>2, <1>3 DEF Recheck, At

LEMMA DeleteKeyEffect ==
    ASSUME TypeOK, NEW r \in Reqs, NEW m \in Members, NEW k \in Keys, DeleteKey(r, m, k)
    PROVE  /\ OthersStay(r) /\ SameIntent(r)
           /\ req[r].pc = "idle" /\ req'[r].pc = "revoke" /\ req'[r].kind = "delete"
           /\ req'[r].key = req[r].key /\ req'[r].src = req[r].src
           /\ req'[r].gone = req[r].gone /\ req'[r].refused = req[r].refused
<1>1. req[r] \in Requests
  BY DEF TypeOK
<1>2. /\ req'[r] = [req[r] EXCEPT !.kind = "delete", !.pc = "revoke", !.by = m, !.todo = {k}]
      /\ OthersStay(r)
  BY StepFields DEF DeleteKey, OthersStay
<1> QED
  BY <1>1, <1>2 DEF DeleteKey, At, Requests, SameIntent

LEMMA RevokeAtVendorEffect ==
    ASSUME TypeOK, NEW r \in Reqs, NEW k \in Keys, RevokeAtVendor(r, k)
    PROVE  /\ OthersStay(r) /\ SameIdentity(r) /\ SameIntent(r) /\ UNCHANGED row
           /\ req'[r].pc = req[r].pc /\ req[r].pc \in Revoking
           /\ req'[r].todo = req[r].todo \ {k}
           /\ req'[r].gone = req[r].gone \union {k}
           /\ req'[r].refused = req[r].refused
           /\ vendor' = [vendor EXCEPT ![k].state = "deleted"]
<1>1. req[r] \in Requests
  BY DEF TypeOK
<1>2. /\ req'[r] = [req[r] EXCEPT !.todo = req[r].todo \ {k},
                                  !.gone = req[r].gone \union {k}]
      /\ OthersStay(r)
  BY StepFields DEF RevokeAtVendor, OthersStay
<1> QED
  BY <1>1, <1>2 DEF RevokeAtVendor, Requests, SameIdentity, SameIntent

LEMMA RevokeRefusedEffect ==
    ASSUME TypeOK, NEW r \in Reqs, NEW k \in Keys, RevokeRefused(r, k)
    PROVE  /\ OthersStay(r) /\ SameIdentity(r) /\ SameIntent(r) /\ "vendor" \in Faults
           /\ req'[r].pc = req[r].pc /\ req[r].pc \in Revoking
           /\ req'[r].todo = req[r].todo \ {k} /\ req'[r].gone = req[r].gone
           /\ req'[r].refused = req[r].refused \union {k}
<1>1. req[r] \in Requests
  BY DEF TypeOK
<1>2. /\ req'[r] = [req[r] EXCEPT !.todo = req[r].todo \ {k},
                                  !.refused = req[r].refused \union {k}]
      /\ OthersStay(r)
  BY StepFields DEF RevokeRefused, OthersStay
<1> QED
  BY <1>1, <1>2 DEF RevokeRefused, Requests, SameIdentity, SameIntent

LEMMA DropRowEffect ==
    ASSUME TypeOK, NEW r \in Reqs, NEW k \in Keys, DropRow(r, k)
    PROVE  /\ OthersStay(r) /\ SameIdentity(r) /\ SameIntent(r) /\ UNCHANGED vendor
           /\ req'[r].pc = req[r].pc /\ req[r].pc \in Revoking /\ k \in req[r].gone
           /\ req'[r].todo = req[r].todo /\ req'[r].gone = req[r].gone \ {k}
           /\ req'[r].refused = req[r].refused
           /\ \/ row' = [row EXCEPT ![k] = NoRow]
              \/ "store" \in Faults /\ UNCHANGED row
<1>1. req[r] \in Requests
  BY DEF TypeOK
<1>2. req'[r] = [req[r] EXCEPT !.gone = req[r].gone \ {k}] /\ OthersStay(r)
  BY StepFields DEF DropRow, OthersStay
<1> QED
  BY <1>1, <1>2 DEF DropRow, Requests, SameIdentity, SameIntent

\* Where a finished pass goes.
LEMMA PassDoneEffect ==
    ASSUME TypeOK, NEW r \in Reqs, PassDone(r)
    PROVE  /\ req[r].pc \in Revoking /\ req[r].todo = {} /\ req[r].gone = {}
           /\ \/ MovesOn(r, "commit") /\ req[r].kind = "change"
              \/ /\ MovesOn(r, "release") /\ req[r].pc = "undo"
                 /\ req[r].kind = "rotate" /\ req[r].refused = {}
              \/ /\ MovesOn(r, "done")
                 /\ ~(req[r].pc = "undo" /\ req[r].kind = "rotate" /\ req[r].refused = {})
BY AnswersEffect, GoesEffect DEF PassDone

LEMMA ChangeRoleEffect ==
    ASSUME TypeOK, NEW r \in Reqs, NEW m \in Members, NEW to \in Roles \union {NoRole},
           ChangeRole(r, m, to)
    PROVE  /\ OthersStay(r) /\ SameWork(r) /\ SameIntent(r)
           /\ req[r].pc = "idle" /\ req'[r].pc \in {"read_seq", "commit"}
           /\ req'[r].kind = "change"
           /\ req'[r].key = req[r].key /\ req'[r].src = req[r].src
<1>1. req[r] \in Requests
  BY DEF TypeOK
<1>2. /\ req'[r] = [req[r] EXCEPT !.kind = "change", !.owner = m,
                          !.from = role[m], !.to = to,
                          !.pc = IF RoleNarrows(role[m], to) THEN "read_seq" ELSE "commit"]
      /\ OthersStay(r)
  BY StepFields DEF ChangeRole, OthersStay
<1> QED
  BY <1>1, <1>2 DEF ChangeRole, At, Requests, SameWork, SameIntent

\* A change's reads and its commit carry no key of their own.
LEMMA ChangeEffect ==
    ASSUME TypeOK, NEW r \in Reqs,
           ReadSeq(r) \/ ListKeys(r) \/ CommitChange(r) \/ CommitCancelled(r)
    PROVE  /\ OthersStay(r) /\ SameIdentity(r) /\ SameIntent(r)
           /\ req[r].pc \in {"read_seq", "list", "commit"}
           /\ req'[r].pc \in {"list", "principal", "revoke", "done"}
           /\ req'[r].gone = req[r].gone /\ req'[r].refused = req[r].refused
           /\ UNCHANGED <<vendor, row>>
<1>1. req[r] \in Requests
  BY DEF TypeOK
<1>2. CASE ReadSeq(r)
  <2>1. /\ req'[r] = [req[r] EXCEPT !.pc = "list", !.seen = mintSeq[req[r].owner]]
        /\ OthersStay(r)
    BY <1>2, StepFields DEF ReadSeq, OthersStay
  <2> QED
    BY <1>1, <1>2, <2>1 DEF ReadSeq, At, Requests, SameIdentity, SameIntent
<1>3. CASE ListKeys(r)
  <2>1. /\ req'[r] = [req[r] EXCEPT !.todo = KeysToRevoke(req[r].owner, req[r].to),
                          !.pc = IF req[r].to = NoRole THEN "principal" ELSE "revoke"]
        /\ OthersStay(r)
    BY <1>3, StepFields DEF ListKeys, OthersStay
  <2> QED
    BY <1>1, <1>3, <2>1 DEF ListKeys, At, Requests, SameIdentity, SameIntent
<1>4. CASE CommitChange(r)
  BY <1>4, AnswersEffect DEF CommitChange, At, MovesOn, SameWork
<1>5. CASE CommitCancelled(r)
  <2>1. \E o : Answers(r, o)
    BY <1>5 DEF CommitCancelled, Answers
  <2> QED
    BY <1>5, <2>1, AnswersEffect DEF CommitCancelled, At, MovesOn, SameWork
<1> QED
  BY <1>2, <1>3, <1>4, <1>5

\* A credential is left alone or deleted.
OnlyDeleted(k) ==
    \/ vendor'[k] = vendor[k]
    \/ vendor'[k].state = "deleted" /\ vendor'[k].name = vendor[k].name

\* The principal goes with its keys, or with some of them.
LEMMA RemovePrincipalEffect ==
    ASSUME TypeOK, NEW r \in Reqs, RemovePrincipal(r)
    PROVE  /\ OthersStay(r) /\ SameIdentity(r) /\ SameIntent(r) /\ UNCHANGED row
           /\ req[r].pc = "principal" /\ req'[r].pc \in {"revoke", "done"}
           /\ req'[r].gone = req[r].gone /\ req'[r].refused = req[r].refused
           /\ \A k \in Keys : OnlyDeleted(k)
<1>1. req[r] \in Requests
  BY DEF TypeOK
<1>2. \A k \in Keys : OnlyDeleted(k)
  BY DEF RemovePrincipal, TypeOK, Credentials, OnlyDeleted
<1>3. CASE Goes(r, "revoke")
  BY <1>2, <1>3, GoesEffect DEF RemovePrincipal, At, MovesOn, SameWork
<1>4. CASE Becomes(r, [req[r] EXCEPT !.pc = "done", !.todo = {}, !.outcome = "error"])
  <2>1. /\ req'[r] = [req[r] EXCEPT !.pc = "done", !.todo = {}, !.outcome = "error"]
        /\ OthersStay(r)
    BY <1>4, StepFields DEF OthersStay
  <2> QED
    BY <1>1, <1>2, <2>1 DEF RemovePrincipal, At, Requests, SameIdentity, SameIntent
<1> QED
  BY <1>3, <1>4 DEF RemovePrincipal

LEMMA CrashEffect ==
    ASSUME TypeOK, NEW r \in Reqs, Crash(r)
    PROVE  /\ OthersStay(r) /\ SameIdentity(r) /\ SameIntent(r)
           /\ "crash" \in Faults /\ req[r].pc # "idle" /\ req'[r].pc = "crashed"
           /\ req'[r].gone = {} /\ req'[r].refused = req[r].refused
<1>1. req[r] \in Requests
  BY DEF TypeOK
<1>2. /\ req'[r] = [req[r] EXCEPT !.pc = "crashed", !.todo = {}, !.gone = {}]
      /\ OthersStay(r)
  BY StepFields DEF Crash, OthersStay
<1> QED
  BY <1>1, <1>2 DEF Crash, Requests, SameIdentity, SameIntent

-----------------------------------------------------------------------------
(* Orphans.                                                                *)

\* An intent that shows its credential to whoever reviews the audit log.
Visible == {"open", "cleanup_failed"}

\* A request has no credential before its mint answers.
Keyless(r) ==
    req[r].pc \in {"idle", "name", "mint", "recover", "find"} => req[r].key = NoKey

MintingIsOpen(r) == req[r].pc = "mint" => req[r].intent = "open"

\* A row is dropped for a credential the vendor no longer holds.
GoneIsDead(r) == \A k \in req[r].gone : vendor[k].state = "deleted"

\* In a phase where a request may still be given a key, or lists none gone.
TraceInv(r) == Keyless(r) /\ MintingIsOpen(r) /\ GoneIsDead(r)

OrphanInv == OrphansAreVisible /\ \A r \in Reqs : TraceInv(r)

\* A request stays a witness for its credential, or had none to witness.
StaysVisible(r) ==
    \/ req[r].key = NoKey
    \/ /\ req'[r].key = req[r].key
       /\ req[r].intent \in Visible => req'[r].intent \in Visible

\* A step of one request keeps the invariant when it leaves no credential
\* unlisted that was listed, and lets nobody forget one that is not.
LEMMA OrphanFrame ==
    ASSUME OrphanInv, NEW r \in Reqs, OthersStay(r), TraceInv(r)',
           \A k \in Keys : vendor[k].state = "deleted" => vendor'[k].state = "deleted",
           \A s \in Reqs : req[s].gone \subseteq Keys,
           \A k \in Keys : vendor'[k].state = "live" /\ ~row'[k].listed =>
              \/ /\ Live(k) /\ ~row[k].listed
                 /\ req[r].key = k => StaysVisible(r)
              \/ req'[r].key = k /\ req'[r].intent \in Visible
    PROVE  OrphanInv'
<1>1. \A s \in Reqs : TraceInv(s)'
  BY DEF OthersStay, OrphanInv, TraceInv, Keyless, MintingIsOpen, GoneIsDead
<1>2. ASSUME NEW k \in Keys, vendor'[k].state = "live", ~row'[k].listed
      PROVE  \E s \in Reqs : req'[s].key = k /\ req'[s].intent \in Visible
  <2>1. CASE req'[r].key = k /\ req'[r].intent \in Visible
    BY <2>1
  <2>2. CASE /\ Live(k) /\ ~row[k].listed
             /\ req[r].key = k => StaysVisible(r)
    <3>1. PICK s \in Reqs : req[s].key = k /\ req[s].intent \in Visible
      BY <2>2 DEF OrphanInv, OrphansAreVisible, Visible
    <3>2. req'[s].key = k /\ req'[s].intent \in Visible
      BY <2>2, <3>1, ConstantsAssumption DEF OthersStay, StaysVisible
    <3> QED
      BY <3>2
  <2> QED
    BY <1>2, <2>1, <2>2
<1> QED
  BY <1>1, <1>2 DEF OrphanInv, OrphansAreVisible, Live, Visible

LEMMA OrphanQuiet ==
    ASSUME TypeOK, OrphanInv, NEW r \in Reqs, OthersStay(r), UNCHANGED <<vendor, row>>,
           StaysVisible(r), TraceInv(r)'
    PROVE  OrphanInv'
<1>1. \A s \in Reqs : req[s].gone \subseteq Keys
  BY DEF TypeOK, Requests
<1> QED
  BY <1>1, OrphanFrame DEF Live

LEMMA OrphanMintSteps ==
    ASSUME TypeOK, OrphanInv, NEW r \in Reqs, MintStep(r)
    PROVE  OrphanInv'
<1>1. TraceInv(r) /\ \A s \in Reqs : req[s].gone \subseteq Keys
  BY DEF OrphanInv, TypeOK, Requests
<1> USE DEF TraceInv, Keyless, MintingIsOpen, GoneIsDead, StaysVisible,
            SameIdentity, SameWork, SameIntent
<1>2. ASSUME NEW m \in Members, NEW g \in Grants, CreateKey(r, m, g)
      PROVE  OrphanInv'
  BY <1>1, <1>2, CreateKeyEffect, OrphanQuiet DEF CreateKey
<1>3. ASSUME NEW m \in Members, NEW k \in Keys, RotateKey(r, m, k)
      PROVE  OrphanInv'
  <2>1. TraceInv(r)' /\ OthersStay(r) /\ req[r].key = NoKey
    BY <1>1, <1>3, RotateKeyEffect DEF RotateKey
  <2> QED
    BY <1>3, <2>1, OrphanQuiet DEF RotateKey
<1>4. CASE CheckName(r)
  BY <1>1, <1>4, CheckNameEffect, OrphanQuiet DEF CheckName
<1>5. ASSUME NEW k \in Keys, Issue(r, k), GivenKey(r, k), row' = row,
             req[r].pc = "mint", req'[r].pc \in {"record", "done"}
      PROVE  OrphanInv'
  <2>1. \A j \in Keys \ {k} : vendor'[j] = vendor[j]
    BY <1>5 DEF Issue, TypeOK
  <2>2. vendor[k].state = "absent"
    BY <1>5 DEF Issue
  <2>3. req'[r].key = k /\ req'[r].intent \in Visible /\ OthersStay(r) /\ req[r].key = NoKey
          /\ req'[r].gone = req[r].gone
    BY <1>1, <1>5 DEF GivenKey, Visible
  <2>4. \A j \in req[r].gone : vendor'[j].state = "deleted"
    BY <1>1, <2>1, <2>2
  <2>5. TraceInv(r)'
    BY <1>5, <2>3, <2>4
  <2> QED
    BY <1>1, <1>5, <2>1, <2>2, <2>3, <2>5, OrphanFrame DEF Live
<1>6. ASSUME NEW k \in Keys, VendorMints(r, k)
      PROVE  OrphanInv'
  BY <1>5, <1>6, VendorMintsEffect DEF VendorMints
<1>7. CASE VendorUnknown(r)
  <2>1. CASE MovesOn(r, "done") /\ UNCHANGED vendor
    BY <1>1, <1>7, <2>1, OrphanQuiet DEF VendorUnknown, MovesOn
  <2>2. CASE \E k \in Keys : Issue(r, k) /\ GivenKey(r, k)
    BY <1>5, <1>7, <2>2, VendorUnknownEffect DEF VendorUnknown
  <2> QED
    BY <1>7, <2>1, <2>2, VendorUnknownEffect
<1>8. CASE VendorConflict(r)
  BY <1>1, <1>8, GoesEffect, OrphanQuiet DEF VendorConflict, At, MovesOn
<1>9. CASE VendorRejects(r)
  BY <1>1, <1>9, ClosesEffect, OrphanQuiet DEF VendorRejects, At
<1>10. CASE RecoverList(r)
  BY <1>1, <1>10, RecoverListEffect, OrphanQuiet DEF RecoverList
<1>11. CASE RecoverFind(r)
  <2>1. OthersStay(r) /\ SameWork(r) /\ req'[r].pc \in {"record", "done"} /\ req[r].pc = "find"
    BY <1>11, RecoverFindEffect DEF GivenKey
  <2> QED
    BY <1>1, <1>11, <2>1, OrphanQuiet DEF RecoverFind
<1>12. ASSUME Recorded(r), UNCHANGED vendor, req'[r].pc \in {"done", "recheck"}
       PROVE  OrphanInv'
  <2>1. /\ \A k \in Keys : row[k].listed => row'[k].listed
        /\ req[r].key \in Keys => row'[req[r].key].listed
    BY <1>12 DEF Recorded, RowsRecorded, MintedRow, TypeOK, KeyRows
  <2>2. TraceInv(r)' /\ OthersStay(r)
    BY <1>1, <1>12 DEF Recorded
  <2> QED
    BY <1>1, <1>12, <2>1, <2>2, OrphanFrame DEF Live
<1>13. CASE Record(r)
  BY <1>12, <1>13, RecordEffect
<1>14. CASE RecordRefused(r)
  BY <1>1, <1>14, GoesEffect, OrphanQuiet DEF RecordRefused, At, MovesOn
<1>15. CASE RecordUnknown(r)
  BY <1>1, <1>12, <1>15, RecordUnknownEffect, OrphanQuiet DEF MovesOn
<1>16. CASE HandBack(r)
  <2>1. CASE UNCHANGED vendor /\ req'[r].intent \in Visible
    BY <1>1, <1>16, <2>1, HandBackEffect, OrphanQuiet
  <2>2. CASE vendor' = [vendor EXCEPT ![req[r].key].state = "deleted"]
    <3>1. \A k \in Keys : \/ vendor'[k] = vendor[k] /\ req[r].key # k
                          \/ vendor'[k].state = "deleted"
      BY <2>2 DEF TypeOK, Credentials
    <3>2. \A k \in Keys : vendor[k].state = "deleted" => vendor'[k].state = "deleted"
      BY <3>1
    <3>3. TraceInv(r)' /\ OthersStay(r) /\ row' = row
      BY <1>1, <1>16, <3>2, HandBackEffect
    <3> QED
      BY <1>1, <3>1, <3>2, <3>3, OrphanFrame DEF Live
  <2> QED
    BY <1>16, <2>1, <2>2, HandBackEffect DEF Visible
<1>17. CASE Recheck(r)
  BY <1>1, <1>17, RecheckEffect, OrphanQuiet
<1>18. CASE ReleaseClaim(r)
  <2>1. MovesOn(r, "done") /\ UNCHANGED vendor
    BY <1>18, AnswersEffect DEF ReleaseClaim
  <2>2. \A k \in Keys : row'[k].listed = row[k].listed
    BY <1>18 DEF ReleaseClaim, TypeOK, KeyRows
  <2> QED
    BY <1>1, <2>1, <2>2, OrphanFrame DEF MovesOn, Live
<1> QED
  BY <1>2, <1>3, <1>4, <1>6, <1>7, <1>8, <1>9, <1>10, <1>11, <1>13, <1>14, <1>15,
     <1>16, <1>17, <1>18 DEF MintStep

LEMMA OrphanOtherSteps ==
    ASSUME TypeOK, OrphanInv, NEW r \in Reqs, RevokeStep(r) \/ ChangeStep(r) \/ Crash(r)
    PROVE  OrphanInv'
<1>1. TraceInv(r) /\ \A s \in Reqs : req[s].gone \subseteq Keys
  BY DEF OrphanInv, TypeOK, Requests
<1> USE DEF TraceInv, Keyless, MintingIsOpen, GoneIsDead, StaysVisible,
            SameIdentity, SameWork, SameIntent
<1>2. ASSUME NEW m \in Members, NEW k \in Keys, DeleteKey(r, m, k)
      PROVE  OrphanInv'
  BY <1>1, <1>2, DeleteKeyEffect, OrphanQuiet DEF DeleteKey
<1>3. ASSUME NEW k \in Keys, RevokeAtVendor(r, k)
      PROVE  OrphanInv'
  <2>1. \A j \in Keys : vendor'[j].state = "deleted" \/ (j # k /\ vendor'[j] = vendor[j])
    BY <1>3, RevokeAtVendorEffect DEF TypeOK, Credentials
  <2>2. TraceInv(r)'
    BY <1>1, <1>3, <2>1, RevokeAtVendorEffect DEF Revoking
  <2> QED
    BY <1>1, <1>3, <2>1, <2>2, RevokeAtVendorEffect, OrphanFrame DEF Live
<1>4. ASSUME NEW k \in Keys, RevokeRefused(r, k)
      PROVE  OrphanInv'
  BY <1>1, <1>4, RevokeRefusedEffect, OrphanQuiet DEF RevokeRefused, Revoking
<1>5. ASSUME NEW k \in Keys, DropRow(r, k)
      PROVE  OrphanInv'
  <2>1. \A j \in Keys \ {k} : row'[j] = row[j]
    BY <1>5, DropRowEffect DEF TypeOK
  <2>2. vendor'[k].state = "deleted" /\ TraceInv(r)'
    BY <1>1, <1>5, DropRowEffect DEF Revoking
  <2> QED
    BY <1>1, <1>5, <2>1, <2>2, DropRowEffect, OrphanFrame DEF Live
<1>6. CASE PassDone(r)
  BY <1>1, <1>6, PassDoneEffect, OrphanQuiet DEF PassDone, MovesOn
<1>7. ASSUME NEW m \in Members, NEW to \in Roles \union {NoRole}, ChangeRole(r, m, to)
      PROVE  OrphanInv'
  BY <1>1, <1>7, ChangeRoleEffect, OrphanQuiet DEF ChangeRole
<1>8. CASE ReadSeq(r) \/ ListKeys(r) \/ CommitChange(r) \/ CommitCancelled(r)
  BY <1>1, <1>8, ChangeEffect, OrphanQuiet
<1>9. CASE RemovePrincipal(r)
  <2>1. \A j \in Keys : vendor'[j].state = "deleted" \/ vendor'[j] = vendor[j]
    BY <1>9, RemovePrincipalEffect DEF OnlyDeleted
  <2>2. TraceInv(r)'
    BY <1>1, <1>9, <2>1, RemovePrincipalEffect
  <2> QED
    BY <1>1, <1>9, <2>1, <2>2, RemovePrincipalEffect, OrphanFrame DEF Live
<1>10. CASE Crash(r)
  BY <1>1, <1>10, CrashEffect, OrphanQuiet DEF Crash
<1> QED
  BY <1>2, <1>3, <1>4, <1>5, <1>6, <1>7, <1>8, <1>9, <1>10 DEF RevokeStep, ChangeStep

\* A credential no row lists is always visible in the audit log, for any number
\* of requests, whatever names they ask for and whatever fails: every path that
\* gives a minted credential up (discardUnrecordedKey, a crash, a lost answer)
\* leaves its minter's intent open or says its cleanup failed.
THEOREM OrphansStayVisible == Spec => []OrphansAreVisible
<1>1. Init => OrphanInv
  BY DEF Init, OrphanInv, OrphansAreVisible, TraceInv, Keyless, MintingIsOpen, GoneIsDead,
     Live, NoCredential, IdleRequest
<1>2. TypeOK /\ OrphanInv /\ [Next]_vars => OrphanInv'
  <2> SUFFICES ASSUME TypeOK, OrphanInv, [Next]_vars
               PROVE  OrphanInv'
    OBVIOUS
  <2>1. CASE UNCHANGED <<vendor, row, req>>
    BY <2>1 DEF OrphanInv, OrphansAreVisible, TraceInv, Keyless, MintingIsOpen,
       GoneIsDead, Live
  <2> QED
    BY <2>1, OrphanMintSteps, OrphanOtherSteps DEF Next, Join, vars
<1>3. OrphanInv => OrphansAreVisible
  BY DEF OrphanInv
<1> QED
  BY <1>1, <1>2, <1>3, TypeCorrect, PTL DEF Spec

-----------------------------------------------------------------------------
(* Claims, where nothing fails.                                            *)

\* A rotation that recorded its replacement and still has its source to settle.
Settling(r) ==
    \/ req[r].pc \in {"recheck", "undo", "release"}
    \/ req[r].pc = "supersede" /\ req[r].src \in req[r].todo \union req[r].gone

\* The request r claims row k for its replacement, and has yet to settle it.
Holds(r, k) ==
    /\ req[r].kind = "rotate" /\ req[r].src = k
    /\ req[r].key = row[k].replacedBy /\ Settling(r)

ClaimInv ==
    /\ \A k \in Keys : row[k].replacedBy # NoKey => \E r \in Reqs : Holds(r, k)
    /\ \A r \in Reqs : req[r].refused = {}

\* A step leaves the claims standing when the rows it writes claim nothing new
\* and its request goes on holding what it held.
LEMMA ClaimFrame ==
    ASSUME ClaimInv, NEW r \in Reqs, OthersStay(r), req'[r].refused = {},
           \A k \in Keys : \/ row'[k].replacedBy = row[k].replacedBy
                           \/ row'[k].replacedBy = NoKey
                           \/ Holds(r, k)',
           \A k \in Keys : Holds(r, k) => Holds(r, k)' \/ row'[k].replacedBy = NoKey
    PROVE  ClaimInv'
<1>1. \A s \in Reqs : req'[s].refused = {}
  BY DEF OthersStay, ClaimInv
<1>2. ASSUME NEW k \in Keys, row'[k].replacedBy # NoKey
      PROVE  \E s \in Reqs : Holds(s, k)'
  <2>1. CASE Holds(r, k)'
    BY <2>1
  <2>2. CASE ~Holds(r, k)'
    <3>1. row'[k].replacedBy = row[k].replacedBy /\ ~Holds(r, k)
      BY <1>2, <2>2
    <3>2. PICK s \in Reqs : Holds(s, k)
      BY <1>2, <3>1 DEF ClaimInv
    <3> QED
      BY <3>1, <3>2 DEF OthersStay, Holds, Settling
  <2> QED
    BY <2>1, <2>2
<1> QED
  BY <1>1, <1>2 DEF ClaimInv

\* In particular when it writes no row and its request holds nothing, or as much.
LEMMA ClaimQuiet ==
    ASSUME ClaimInv, NEW r \in Reqs, OthersStay(r), req'[r].refused = {}, UNCHANGED row,
           \/ ~Settling(r)
           \/ req[r].kind # "rotate"
           \/ SameIdentity(r) /\ Settling(r)'
    PROVE  ClaimInv'
<1>1. \A k \in Keys : Holds(r, k) => Holds(r, k)'
  BY DEF Holds, Settling, SameIdentity
<1> QED
  BY <1>1, ClaimFrame

LEMMA ClaimMintSteps ==
    ASSUME Faults = {}, TypeOK, ClaimInv, NEW r \in Reqs, MintStep(r)
    PROVE  ClaimInv'
<1>1. req[r].refused = {}
  BY DEF ClaimInv
<1> USE DEF SameIdentity, SameWork, Settling
<1>2. ASSUME NEW m \in Members, NEW g \in Grants, CreateKey(r, m, g)
      PROVE  ClaimInv'
  BY <1>1, <1>2, CreateKeyEffect, ClaimQuiet DEF CreateKey
<1>3. ASSUME NEW m \in Members, NEW k \in Keys, RotateKey(r, m, k)
      PROVE  ClaimInv'
  BY <1>1, <1>3, RotateKeyEffect, ClaimQuiet DEF RotateKey
<1>4. CASE CheckName(r)
  BY <1>1, <1>4, CheckNameEffect, ClaimQuiet DEF CheckName
<1>5. ASSUME NEW k \in Keys, VendorMints(r, k)
      PROVE  ClaimInv'
  BY <1>1, <1>5, VendorMintsEffect, ClaimQuiet DEF VendorMints, GivenKey
<1>6. CASE VendorConflict(r)
  BY <1>1, <1>6, GoesEffect, ClaimQuiet DEF VendorConflict, At, MovesOn
<1>7. ~VendorRejects(r) /\ ~VendorUnknown(r) /\ ~RecordUnknown(r)
  BY DEF VendorRejects, VendorUnknown, RecordUnknown
<1>8. CASE RecoverList(r)
  BY <1>1, <1>8, RecoverListEffect, ClaimQuiet DEF RecoverList
<1>9. CASE RecoverFind(r)
  BY <1>1, <1>9, RecoverFindEffect, ClaimQuiet DEF RecoverFind, GivenKey
<1>10. CASE Record(r)
  <2>1. /\ Recorded(r) /\ req[r].pc = "record"
        /\ req[r].kind = "rotate" => req'[r].pc = "recheck"
    BY <1>10, RecordEffect
  <2>2. ASSUME NEW k \in Keys
        PROVE  \/ row'[k].replacedBy = row[k].replacedBy
               \/ row'[k].replacedBy = NoKey
               \/ Holds(r, k)'
    <3>1. CASE k = req[r].key
      BY <2>1, <3>1 DEF Recorded, RowsRecorded, MintedRow
    <3>2. CASE k # req[r].key /\ req[r].kind = "rotate" /\ k = req[r].src
      <4>1. row'[k].replacedBy = req[r].key
        BY <2>1, <3>2 DEF Recorded, RowsRecorded, TypeOK, KeyRows
      <4> QED
        BY <2>1, <3>2, <4>1 DEF Recorded, Holds
    <3>3. CASE k # req[r].key /\ ~(req[r].kind = "rotate" /\ k = req[r].src)
      BY <2>1, <3>3 DEF Recorded, RowsRecorded
    <3> QED
      BY <3>1, <3>2, <3>3
  <2>3. ~Settling(r) /\ OthersStay(r) /\ req'[r].refused = {}
    BY <1>1, <2>1 DEF Recorded
  <2> QED
    BY <2>2, <2>3, ClaimFrame DEF Holds
<1>11. CASE RecordRefused(r)
  BY <1>1, <1>11, GoesEffect, ClaimQuiet DEF RecordRefused, At, MovesOn
<1>12. CASE HandBack(r)
  BY <1>1, <1>12, HandBackEffect, ClaimQuiet
<1>13. CASE Recheck(r)
  BY <1>1, <1>13, RecheckEffect, ClaimQuiet
<1>14. CASE ReleaseClaim(r)
  <2>1. MovesOn(r, "done") /\ req[r].pc = "release"
    BY <1>14, AnswersEffect DEF ReleaseClaim, At
  <2>2. row' = [row EXCEPT ![req[r].src].replacedBy =
                    IF row[req[r].src].replacedBy = req[r].key
                      THEN NoKey ELSE row[req[r].src].replacedBy]
    BY <1>14 DEF ReleaseClaim
  <2>3. ASSUME NEW k \in Keys
        PROVE  /\ \/ row'[k].replacedBy = row[k].replacedBy
                  \/ row'[k].replacedBy = NoKey
               /\ Holds(r, k) => row'[k].replacedBy = NoKey
    BY <2>2 DEF TypeOK, KeyRows, Holds
  <2> QED
    BY <1>1, <2>1, <2>3, ClaimFrame DEF MovesOn
<1> QED
  BY <1>2, <1>3, <1>4, <1>5, <1>6, <1>7, <1>8, <1>9, <1>10, <1>11, <1>12, <1>13, <1>14
     DEF MintStep

LEMMA ClaimOtherSteps ==
    ASSUME Faults = {}, TypeOK, ClaimInv, NEW r \in Reqs,
           RevokeStep(r) \/ ChangeStep(r) \/ Crash(r)
    PROVE  ClaimInv'
<1>1. req[r].refused = {}
  BY DEF ClaimInv
<1> USE DEF SameIdentity, SameWork, Settling
<1>2. ASSUME NEW m \in Members, NEW k \in Keys, DeleteKey(r, m, k)
      PROVE  ClaimInv'
  BY <1>1, <1>2, DeleteKeyEffect, ClaimQuiet DEF DeleteKey
<1>3. ASSUME NEW k \in Keys, RevokeAtVendor(r, k)
      PROVE  ClaimInv'
  BY <1>1, <1>3, RevokeAtVendorEffect, ClaimQuiet
<1>4. /\ \A k \in Keys : ~RevokeRefused(r, k)
      /\ ~Crash(r)
  BY DEF RevokeRefused, Crash
<1>5. ASSUME NEW k \in Keys, DropRow(r, k)
      PROVE  ClaimInv'
  <2>1. row' = [row EXCEPT ![k] = NoRow]
    BY <1>5 DEF DropRow
  <2>2. \A j \in Keys : (j # k /\ row'[j] = row[j]) \/ row'[j].replacedBy = NoKey
    BY <2>1 DEF TypeOK, NoRow
  <2>3. \A j \in Keys \ {k} : Holds(r, j) /\ row'[j] = row[j] => Holds(r, j)'
    BY <1>5, DropRowEffect DEF Holds
  <2>4. OthersStay(r) /\ req'[r].refused = {}
    BY <1>1, <1>5, DropRowEffect
  <2> QED
    BY <2>2, <2>3, <2>4, ClaimFrame
<1>6. CASE PassDone(r)
  <2>1. /\ OthersStay(r) /\ req'[r].refused = {} /\ SameIdentity(r)
        /\ row' = row
    BY <1>1, <1>6, PassDoneEffect DEF PassDone, MovesOn
  <2>2. Settling(r) /\ req[r].kind = "rotate" => req'[r].pc = "release"
    BY <1>1, <1>6, PassDoneEffect DEF Revoking, MovesOn
  <2> QED
    BY <2>1, <2>2, ClaimQuiet
<1>7. ASSUME NEW m \in Members, NEW to \in Roles \union {NoRole}, ChangeRole(r, m, to)
      PROVE  ClaimInv'
  BY <1>1, <1>7, ChangeRoleEffect, ClaimQuiet DEF ChangeRole
<1>8. CASE ReadSeq(r) \/ ListKeys(r) \/ CommitChange(r) \/ CommitCancelled(r)
  BY <1>1, <1>8, ChangeEffect, ClaimQuiet
<1>9. CASE RemovePrincipal(r)
  BY <1>1, <1>9, RemovePrincipalEffect, ClaimQuiet
<1> QED
  BY <1>2, <1>3, <1>4, <1>5, <1>6, <1>7, <1>8, <1>9 DEF RevokeStep, ChangeStep

\* Where nothing fails, every claim a rotation puts on a row is ended by that
\* rotation: the source goes with its row, or releaseSourceClaim takes the claim
\* back.  (With a refusing vendor, a failed write or a crash it may stay: the
\* row then cannot be rotated again, only deleted.)
THEOREM ClaimsAlwaysSettle ==
    ASSUME Faults = {}
    PROVE  Spec => []ClaimsSettle
<1>1. Init => ClaimInv
  BY DEF Init, ClaimInv, NoRow, IdleRequest
<1>2. TypeOK /\ ClaimInv /\ [Next]_vars => ClaimInv'
  <2> SUFFICES ASSUME TypeOK, ClaimInv, [Next]_vars
               PROVE  ClaimInv'
    OBVIOUS
  <2>1. CASE UNCHANGED <<row, req>>
    BY <2>1 DEF ClaimInv, Holds, Settling
  <2> QED
    BY <2>1, ClaimMintSteps, ClaimOtherSteps DEF Next, Join, vars
<1>3. ClaimInv => ClaimsSettle
  BY DEF ClaimInv, ClaimsSettle, Settled, Holds, Settling
<1> QED
  BY <1>1, <1>2, <1>3, TypeCorrect, PTL DEF Spec

-----------------------------------------------------------------------------
(* Replacements, where every create asks for a name of its own.            *)

\* No two requests ask for one name, so no create finds its name at the vendor
\* and recovers another's credential.
DistinctNames == \A r, q \in Reqs : NameOf[r] = NameOf[q] => r = q

\* A credential was given to one request.
OneKeyEach ==
    \A r, q \in Reqs : r # q /\ req[r].key = req[q].key => req[r].key = NoKey

\* A name the vendor holds is its minter's.
NamesHaveMinters ==
    \A k \in Keys : vendor[k].name # NoName =>
        \E q \in Reqs : req[q].key = k /\ NameOf[q] = vendor[k].name

AsksOwnName(r) ==
    /\ req[r].kind = "create" => req[r].name = NameOf[r]
    /\ req[r].pc \in {"name", "mint"} => req[r].kind \in {"create", "rotate"}

NeverRecovers(r) == req[r].pc \notin {"recover", "find"} /\ req[r].kind # "recover"

\* The keys a request knows were minted.
KeysIssued(r) ==
    /\ req[r].key # NoKey => req[r].key \in Keys /\ vendor[req[r].key].state # "absent"
    /\ req[r].kind = "rotate" => req[r].src \in Keys /\ vendor[req[r].src].state # "absent"
    /\ req[r].intent = "succeeded" => req[r].key \in Keys

\* A key about to be recorded has no row, and nobody can have begun to rotate it.
NotYetListed(r) ==
    req[r].pc = "record" =>
        /\ req[r].key \in Keys
        /\ ~row[req[r].key].listed
        /\ \A q \in Reqs : req[q].kind = "rotate" => req[q].src # req[r].key

\* An undone replacement is dead by the time its claim is released.
Undone(r) ==
    /\ req[r].pc = "undo" => \/ req[r].key \in req[r].todo \union req[r].refused
                             \/ vendor[req[r].key].state = "deleted"
    /\ req[r].pc = "release" => vendor[req[r].key].state = "deleted"
    /\ req[r].pc \in {"recheck", "undo", "release"} => req[r].key \in Keys

\* The rotation r was recorded, and its replacement lives.
Replaces(r) ==
    /\ req[r].kind = "rotate" /\ req[r].intent = "succeeded"
    /\ req[r].key \in Keys /\ Live(req[r].key)

\* While its replacement lives, a recorded rotation is the one the source names.
ClaimStands(r) ==
    Replaces(r) /\ row[req[r].src].listed => row[req[r].src].replacedBy = req[r].key

SlotInv(r) ==
    /\ Keyless(r) /\ MintingIsOpen(r)
    /\ AsksOwnName(r) /\ NeverRecovers(r)
    /\ KeysIssued(r) /\ NotYetListed(r) /\ Undone(r) /\ ClaimStands(r)

SourcesDiffer ==
    \A r, q \in Reqs : Replaces(r) /\ Replaces(q) /\ req[r].src = req[q].src => r = q

ReplacementInv ==
    /\ OneKeyEach /\ NamesHaveMinters /\ SourcesDiffer
    /\ \A r \in Reqs : SlotInv(r)

\* A step that mints nothing and records nothing keeps the invariant when its
\* request keeps its part and no claim of another rotation is taken away.
LEMMA ReplacementFrame ==
    ASSUME TypeOK, ReplacementInv, NEW r \in Reqs, OthersStay(r), SlotInv(r)',
           req'[r].key = req[r].key,
           Replaces(r)' => Replaces(r) /\ req'[r].src = req[r].src,
           req'[r].kind = "rotate" =>
              \/ req[r].kind = "rotate" /\ req'[r].src = req[r].src
              \/ row[req'[r].src].listed,
           \A k \in Keys : OnlyDeleted(k),
           \A k \in Keys : row'[k].listed => row[k].listed,
           \A s \in Reqs \ {r} :
              Replaces(s) /\ row'[req[s].src].listed
                => row'[req[s].src].replacedBy = row[req[s].src].replacedBy
    PROVE  ReplacementInv'
<1>1. ASSUME NEW s \in Reqs \ {r}
      PROVE  SlotInv(s)' /\ (Replaces(s)' => Replaces(s)) /\ req'[s] = req[s]
  <2>1. req'[s] = req[s] /\ SlotInv(s)
    BY DEF OthersStay, ReplacementInv
  <2>2. Replaces(s)' => Replaces(s)
    BY <2>1 DEF Replaces, Live, OnlyDeleted
  <2>3. Keyless(s)' /\ MintingIsOpen(s)' /\ AsksOwnName(s)' /\ NeverRecovers(s)'
    BY <2>1 DEF SlotInv, Keyless, MintingIsOpen, AsksOwnName, NeverRecovers
  <2>4. KeysIssued(s)'
    BY <2>1 DEF SlotInv, KeysIssued, OnlyDeleted
  <2>5. NotYetListed(s)'
    <3> SUFFICES ASSUME req[s].pc = "record"
                 PROVE  /\ req[s].key \in Keys
                        /\ ~row'[req[s].key].listed
                        /\ \A q \in Reqs : req'[q].kind = "rotate" => req'[q].src # req[s].key
      BY <2>1 DEF NotYetListed
    <3>1. /\ req[s].key \in Keys /\ ~row[req[s].key].listed
          /\ \A q \in Reqs : req[q].kind = "rotate" => req[q].src # req[s].key
      BY <2>1 DEF SlotInv, NotYetListed
    <3>2. \A q \in Reqs : req'[q].kind = "rotate" => req'[q].src # req[s].key
      BY <3>1 DEF OthersStay
    <3> QED
      BY <3>1, <3>2
  <2>6. Undone(s)'
    BY <2>1 DEF SlotInv, Undone, OnlyDeleted
  <2>7. ClaimStands(s)'
    <3>1. Replaces(s) => req[s].src \in Keys
      BY <2>1 DEF SlotInv, KeysIssued, Replaces
    <3> QED
      BY <2>1, <2>2, <3>1 DEF SlotInv, ClaimStands
  <2> QED
    BY <2>1, <2>2, <2>3, <2>4, <2>5, <2>6, <2>7 DEF SlotInv
<1>2. \A s \in Reqs : req'[s].key = req[s].key
  BY <1>1
<1>3. OneKeyEach'
  BY <1>2 DEF ReplacementInv, OneKeyEach
<1>4. NamesHaveMinters'
  BY <1>2 DEF ReplacementInv, NamesHaveMinters, OnlyDeleted
<1>5. SourcesDiffer'
  BY <1>1 DEF ReplacementInv, SourcesDiffer
<1> QED
  BY <1>1, <1>3, <1>4, <1>5 DEF ReplacementInv

\* A step of a request that writes neither a credential nor a row.
LEMMA ReplacementQuiet ==
    ASSUME TypeOK, ReplacementInv, NEW r \in Reqs, OthersStay(r), SlotInv(r)',
           UNCHANGED <<vendor, row>>, req'[r].key = req[r].key,
           Replaces(r)' => Replaces(r) /\ req'[r].src = req[r].src,
           req'[r].kind = "rotate" =>
              \/ req[r].kind = "rotate" /\ req'[r].src = req[r].src
              \/ row[req'[r].src].listed
    PROVE  ReplacementInv'
<1>1. \A k \in Keys : OnlyDeleted(k)
  BY DEF OnlyDeleted
<1> QED
  BY <1>1, ReplacementFrame

\* A create that has not been answered never finds its name taken.
LEMMA NameIsFree ==
    ASSUME DistinctNames, ReplacementInv, NEW r \in Reqs, req[r].pc = "mint"
    PROVE  ~NameTaken(r)
<1> SUFFICES ASSUME req[r].kind = "create", NEW k \in Keys, Live(k),
                    vendor[k].name = req[r].name
             PROVE  FALSE
  BY DEF NameTaken, HoldsName
<1>1. SlotInv(r)
  BY DEF ReplacementInv
<1>2. req[r].key = NoKey /\ vendor[k].name = NameOf[r]
  BY <1>1 DEF SlotInv, Keyless, AsksOwnName
<1>3. NameOf[r] # NoName
  BY ConstantsAssumption
<1>4. PICK q \in Reqs : req[q].key = k /\ NameOf[q] = NameOf[r]
  BY <1>2, <1>3 DEF ReplacementInv, NamesHaveMinters
<1> QED
  BY <1>2, <1>4, ConstantsAssumption DEF DistinctNames

\* A credential issued to a request is nobody else's.
LEMMA ReplacementIssue ==
    ASSUME IInv, ReplacementInv, NEW r \in Reqs, NEW k \in Keys,
           Issue(r, k), GivenKey(r, k), row' = row, req'[r].kind = req[r].kind,
           req[r].pc = "mint", req'[r].pc \in {"record", "done"}
    PROVE  ReplacementInv'
<1>1. TypeOK /\ RowsHaveCredentials /\ SlotInv(r)
  BY DEF IInv, ReplacementInv
<1>2. /\ \A j \in Keys \ {k} : vendor'[j] = vendor[j]
      /\ vendor[k].state = "absent" /\ vendor'[k].state = "live"
      /\ vendor'[k].name = IF req[r].kind = "rotate" THEN NoName ELSE req[r].name
  BY <1>1 DEF Issue, TypeOK
<1>3. /\ req[r].key = NoKey /\ req'[r].key = k /\ req'[r].intent = "open"
      /\ req'[r].src = req[r].src /\ req'[r].name = req[r].name /\ OthersStay(r)
      /\ req[r].kind \in {"create", "rotate"}
  BY <1>1 DEF GivenKey, SlotInv, Keyless, MintingIsOpen, AsksOwnName, SameIntent
<1>4. \A s \in Reqs : /\ req[s].key # k
                      /\ req[s].kind = "rotate" => req[s].src # k
  BY <1>2, ConstantsAssumption DEF ReplacementInv, SlotInv, KeysIssued
<1>5. ~row[k].listed
  BY <1>1, <1>2 DEF RowsHaveCredentials
<1>6. \A s \in Reqs : req'[s].kind = req[s].kind /\ req'[s].src = req[s].src
  BY <1>3 DEF OthersStay
<1>7. SlotInv(r)'
  <2>1. Keyless(r)' /\ MintingIsOpen(r)' /\ AsksOwnName(r)' /\ NeverRecovers(r)'
    BY <1>1, <1>3 DEF SlotInv, Keyless, MintingIsOpen, AsksOwnName, NeverRecovers
  <2>2. KeysIssued(r)'
    BY <1>1, <1>2, <1>3 DEF SlotInv, KeysIssued
  <2>3. NotYetListed(r)'
    BY <1>3, <1>4, <1>5, <1>6 DEF NotYetListed
  <2>4. Undone(r)' /\ ClaimStands(r)'
    BY <1>3 DEF Undone, ClaimStands, Replaces
  <2> QED
    BY <2>1, <2>2, <2>3, <2>4 DEF SlotInv
<1>8. ASSUME NEW s \in Reqs \ {r}
      PROVE  SlotInv(s)' /\ (Replaces(s)' => Replaces(s)) /\ req'[s] = req[s]
  <2>1. req'[s] = req[s] /\ SlotInv(s) /\ req[s].key # k
    BY <1>3, <1>4 DEF OthersStay, ReplacementInv
  <2>2. Replaces(s)' => Replaces(s)
    BY <1>2, <2>1 DEF Replaces, Live
  <2>3. Keyless(s)' /\ MintingIsOpen(s)' /\ AsksOwnName(s)' /\ NeverRecovers(s)'
    BY <2>1 DEF SlotInv, Keyless, MintingIsOpen, AsksOwnName, NeverRecovers
  <2>4. KeysIssued(s)'
    BY <1>2, <2>1 DEF SlotInv, KeysIssued
  <2>5. NotYetListed(s)'
    BY <1>6, <2>1 DEF SlotInv, NotYetListed
  <2>6. Undone(s)'
    BY <1>2, <2>1 DEF SlotInv, Undone
  <2>7. ClaimStands(s)'
    BY <2>1, <2>2 DEF SlotInv, ClaimStands
  <2> QED
    BY <2>1, <2>2, <2>3, <2>4, <2>5, <2>6, <2>7 DEF SlotInv
<1>9. OneKeyEach'
  BY <1>3, <1>4, <1>8 DEF ReplacementInv, OneKeyEach
<1>10. NamesHaveMinters'
  <2> SUFFICES ASSUME NEW j \in Keys, vendor'[j].name # NoName
               PROVE  \E q \in Reqs : req'[q].key = j /\ NameOf[q] = vendor'[j].name
    BY DEF NamesHaveMinters
  <2>1. CASE j = k
    BY <1>1, <1>2, <1>3, <2>1 DEF SlotInv, AsksOwnName
  <2>2. CASE j # k
    <3>1. PICK q \in Reqs : req[q].key = j /\ NameOf[q] = vendor'[j].name
      BY <1>2, <2>2 DEF ReplacementInv, NamesHaveMinters
    <3> QED
      BY <1>3, <1>8, <3>1, ConstantsAssumption
  <2> QED
    BY <2>1, <2>2
<1>11. SourcesDiffer'
  <2>1. ~Replaces(r)'
    BY <1>3 DEF Replaces
  <2> QED
    BY <1>8, <2>1 DEF ReplacementInv, SourcesDiffer
<1> QED
  BY <1>7, <1>8, <1>9, <1>10, <1>11 DEF ReplacementInv

\* The claim a rotation records is the only one its source carries.
LEMMA ReplacementRecorded ==
    ASSUME TypeOK, ReplacementInv, NEW r \in Reqs, Recorded(r), UNCHANGED vendor,
           req[r].pc = "record", req'[r].pc \in {"recheck", "done"}
    PROVE  ReplacementInv'
<1>1. SlotInv(r) /\ OthersStay(r) /\ SameIdentity(r) /\ row' = RowsRecorded(r)
  BY DEF ReplacementInv, Recorded
<1>2. /\ req[r].key \in Keys /\ ~row[req[r].key].listed
      /\ \A q \in Reqs : req[q].kind = "rotate" => req[q].src # req[r].key
  BY <1>1 DEF SlotInv, NotYetListed
<1>3. req[r].kind = "rotate" => /\ req[r].src \in Keys /\ row[req[r].src].listed
                                /\ row[req[r].src].replacedBy = NoKey
  BY <1>1 DEF Recorded, MayRecord, SourceUnclaimed, SlotInv, KeysIssued
<1>4. \A k \in Keys :
         /\ k # req[r].key => row'[k].listed = row[k].listed
         /\ k # req[r].key /\ ~(req[r].kind = "rotate" /\ k = req[r].src)
              => row'[k] = row[k]
         /\ k # req[r].key /\ req[r].kind = "rotate" /\ k = req[r].src
              => row'[k].replacedBy = req[r].key
  BY <1>1 DEF RowsRecorded, TypeOK, KeyRows
<1>5. ASSUME NEW s \in Reqs \ {r}, req[r].kind = "rotate", Replaces(s)
      PROVE  req[s].src # req[r].src
  <2>1. ClaimStands(s) /\ req[s].key # NoKey
    BY <1>5, ConstantsAssumption DEF ReplacementInv, SlotInv, Replaces
  <2> QED
    BY <1>3, <1>5, <2>1 DEF ClaimStands
<1>6. SlotInv(r)'
  <2>1. Keyless(r)' /\ MintingIsOpen(r)' /\ AsksOwnName(r)' /\ NeverRecovers(r)'
    BY <1>1 DEF SlotInv, Keyless, MintingIsOpen, AsksOwnName, NeverRecovers, SameIdentity
  <2>2. KeysIssued(r)' /\ NotYetListed(r)' /\ Undone(r)'
    BY <1>1, <1>2 DEF SlotInv, KeysIssued, NotYetListed, Undone, SameIdentity
  <2>3. ClaimStands(r)'
    BY <1>1, <1>2, <1>3, <1>4 DEF ClaimStands, Replaces, SameIdentity
  <2> QED
    BY <2>1, <2>2, <2>3 DEF SlotInv
<1>7. ASSUME NEW s \in Reqs \ {r}
      PROVE  SlotInv(s)' /\ (Replaces(s)' <=> Replaces(s)) /\ req'[s] = req[s]
  <2>1. req'[s] = req[s] /\ SlotInv(s)
    BY <1>1 DEF OthersStay, ReplacementInv
  <2>2. Replaces(s)' <=> Replaces(s)
    BY <2>1 DEF Replaces, Live
  <2>3. Keyless(s)' /\ MintingIsOpen(s)' /\ AsksOwnName(s)' /\ NeverRecovers(s)'
    BY <2>1 DEF SlotInv, Keyless, MintingIsOpen, AsksOwnName, NeverRecovers
  <2>4. KeysIssued(s)' /\ Undone(s)'
    BY <2>1 DEF SlotInv, KeysIssued, Undone
  <2>5. NotYetListed(s)'
    <3>1. req[s].key \in Keys => req[s].key # req[r].key
      BY ConstantsAssumption DEF ReplacementInv, OneKeyEach
    <3>2. \A q \in Reqs : req'[q].kind = req[q].kind /\ req'[q].src = req[q].src
      BY <1>1 DEF OthersStay, SameIdentity
    <3> QED
      BY <1>4, <2>1, <3>1, <3>2 DEF SlotInv, NotYetListed
  <2>6. ClaimStands(s)'
    <3> SUFFICES ASSUME Replaces(s), row'[req[s].src].listed
                 PROVE  row'[req[s].src].replacedBy = req[s].key
      BY <2>1, <2>2 DEF ClaimStands
    <3>1. req[s].src \in Keys /\ req[s].src # req[r].key
      BY <1>2, <2>1 DEF Replaces, SlotInv, KeysIssued
    <3>2. row'[req[s].src] = row[req[s].src]
      BY <1>4, <1>5, <3>1
    <3> QED
      BY <2>1, <3>2 DEF SlotInv, ClaimStands
  <2> QED
    BY <2>1, <2>2, <2>3, <2>4, <2>5, <2>6 DEF SlotInv
<1>8. OneKeyEach' /\ NamesHaveMinters'
  <2>1. \A s \in Reqs : req'[s].key = req[s].key
    BY <1>1, <1>7 DEF SameIdentity
  <2> QED
    BY <2>1 DEF ReplacementInv, OneKeyEach, NamesHaveMinters
<1>9. SourcesDiffer'
  <2>1. Replaces(r)' => req[r].kind = "rotate" /\ req'[r].src = req[r].src
    BY <1>1 DEF Replaces, SameIdentity
  <2> QED
    BY <1>5, <1>7, <2>1 DEF ReplacementInv, SourcesDiffer
<1> QED
  BY <1>6, <1>7, <1>8, <1>9 DEF ReplacementInv

\* The parts of SlotInv a step usually keeps by keeping the fields they read.
LEMMA SlotKeeps ==
    ASSUME NEW r \in Reqs, SlotInv(r), SameIdentity(r), SameIntent(r),
           \A k \in Keys : OnlyDeleted(k),
           req'[r].pc \notin {"idle", "name", "mint", "recover", "find", "record"},
           Undone(r)', ClaimStands(r)'
    PROVE  SlotInv(r)'
BY DEF SlotInv, Keyless, MintingIsOpen, AsksOwnName, NeverRecovers, KeysIssued,
       NotYetListed, SameIdentity, SameIntent, OnlyDeleted

LEMMA ReplacementMintSteps ==
    ASSUME DistinctNames, IInv, ReplacementInv, NEW r \in Reqs, MintStep(r)
    PROVE  ReplacementInv'
<1>1. SlotInv(r) /\ TypeOK
  BY DEF ReplacementInv, IInv
<1> USE DEF SameIdentity, SameWork, SameIntent
<1>d. UNCHANGED vendor => \A k \in Keys : OnlyDeleted(k)
  BY DEF OnlyDeleted
<1>2. ASSUME NEW m \in Members, NEW g \in Grants, CreateKey(r, m, g)
      PROVE  ReplacementInv'
  <2>1. SlotInv(r)'
    BY <1>1, <1>2, CreateKeyEffect DEF CreateKey, SlotInv, Keyless, MintingIsOpen,
       AsksOwnName, NeverRecovers, KeysIssued, NotYetListed, Undone, ClaimStands, Replaces
  <2> QED
    BY <1>1, <1>2, <2>1, CreateKeyEffect, ReplacementQuiet DEF CreateKey, Replaces
<1>3. ASSUME NEW m \in Members, NEW k \in Keys, RotateKey(r, m, k)
      PROVE  ReplacementInv'
  <2>1. row[k].listed /\ UNCHANGED <<vendor, row>> /\ vendor[k].state # "absent"
    BY <1>3 DEF RotateKey, IInv, RowsHaveCredentials
  <2>2. SlotInv(r)'
    BY <1>1, <1>3, <2>1, RotateKeyEffect DEF SlotInv, Keyless, MintingIsOpen,
       AsksOwnName, NeverRecovers, KeysIssued, NotYetListed, Undone, ClaimStands, Replaces
  <2>3. OthersStay(r) /\ req'[r].key = req[r].key /\ req'[r].src = k /\ ~Replaces(r)'
    BY <1>1, <1>3, RotateKeyEffect DEF Replaces
  <2> QED
    BY <1>1, <2>1, <2>2, <2>3, ReplacementQuiet
<1>4. CASE CheckName(r)
  <2>1. SlotInv(r)'
    BY <1>1, <1>4, CheckNameEffect DEF CheckName, SlotInv, Keyless, MintingIsOpen,
       AsksOwnName, NeverRecovers, KeysIssued, NotYetListed, Undone, ClaimStands, Replaces, Live
  <2>2. Replaces(r)' => Replaces(r)
    BY <1>1, <1>4, CheckNameEffect DEF CheckName, Replaces, Live
  <2> QED
    BY <1>1, <1>4, <2>1, <2>2, CheckNameEffect, ReplacementQuiet DEF CheckName
<1>5. ASSUME NEW k \in Keys, VendorMints(r, k)
      PROVE  ReplacementInv'
  BY <1>5, VendorMintsEffect, ReplacementIssue, <1>1 DEF VendorMints
\* A step that only moves on to a phase outside the mint keeps everything.
<1>m. ASSUME NEW p \in {"done", "hand_back"}, MovesOn(r, p), UNCHANGED <<vendor, row>>
      PROVE  ReplacementInv'
  <2>1. Undone(r)' /\ ClaimStands(r)' /\ (Replaces(r)' => Replaces(r))
    BY <1>1, <1>m DEF MovesOn, SlotInv, Undone, ClaimStands, Replaces, Live
  <2>2. SlotInv(r)'
    BY <1>1, <1>d, <1>m, <2>1, SlotKeeps DEF MovesOn
  <2> QED
    BY <1>1, <1>m, <2>1, <2>2, ReplacementQuiet DEF MovesOn
<1>6. CASE VendorUnknown(r)
  <2>1. CASE MovesOn(r, "done") /\ UNCHANGED vendor
    BY <1>6, <1>m, <2>1 DEF VendorUnknown
  <2>2. CASE \E k \in Keys : Issue(r, k) /\ GivenKey(r, k)
    BY <1>1, <1>6, <2>2, VendorUnknownEffect, ReplacementIssue DEF VendorUnknown
  <2> QED
    BY <1>1, <1>6, <2>1, <2>2, VendorUnknownEffect
<1>7. ~VendorConflict(r) /\ ~RecoverList(r) /\ ~RecoverFind(r)
  BY <1>1, NameIsFree DEF VendorConflict, RecoverList, RecoverFind, At, SlotInv, NeverRecovers
<1>8. CASE VendorRejects(r)
  <2>1. /\ OthersStay(r) /\ SameIdentity(r) /\ req[r].pc = "mint" /\ req'[r].pc = "done"
        /\ req'[r].intent \in {"failed", "open"} /\ UNCHANGED <<vendor, row>>
    BY <1>1, <1>8, ClosesEffect DEF VendorRejects, At
  <2>2. SlotInv(r)' /\ ~Replaces(r)'
    BY <1>1, <2>1 DEF SlotInv, Keyless, MintingIsOpen, AsksOwnName, NeverRecovers,
       KeysIssued, NotYetListed, Undone, ClaimStands, Replaces
  <2> QED
    BY <1>1, <2>1, <2>2, ReplacementQuiet
<1>9. CASE Record(r)
  BY <1>1, <1>9, RecordEffect, ReplacementRecorded
<1>10. CASE RecordRefused(r)
  BY <1>1, <1>10, <1>m, GoesEffect DEF RecordRefused
<1>11. CASE RecordUnknown(r)
  BY <1>1, <1>11, <1>m, RecordUnknownEffect, ReplacementRecorded
<1>12. CASE HandBack(r)
  <2>1. /\ OthersStay(r) /\ SameIdentity(r) /\ row' = row
        /\ req[r].pc = "hand_back" /\ req'[r].pc = "done"
        /\ req'[r].intent \in {"failed", "cleanup_failed", "open"}
    BY <1>1, <1>12, HandBackEffect
  <2>2. \A k \in Keys : OnlyDeleted(k)
    <3>1. CASE UNCHANGED vendor
      BY <1>d, <3>1
    <3>2. CASE vendor' = [vendor EXCEPT ![req[r].key].state = "deleted"]
      BY <1>1, <3>2 DEF OnlyDeleted, TypeOK, Credentials
    <3> QED
      BY <1>1, <1>12, <3>1, <3>2, HandBackEffect
  <2>3. SlotInv(r)' /\ ~Replaces(r)'
    BY <1>1, <2>1, <2>2 DEF SlotInv, Keyless, MintingIsOpen, AsksOwnName, NeverRecovers,
       KeysIssued, NotYetListed, Undone, ClaimStands, Replaces, OnlyDeleted
  <2> QED
    BY <1>1, <2>1, <2>2, <2>3, ReplacementFrame
<1>13. CASE Recheck(r)
  <2>1. /\ OthersStay(r) /\ SameIdentity(r) /\ SameIntent(r) /\ UNCHANGED <<vendor, row>>
        /\ req'[r].pc \in {"undo", "supersede", "done"} /\ req[r].pc = "recheck"
        /\ req'[r].pc = "undo" => req'[r].todo = {req[r].key}
    BY <1>1, <1>13, RecheckEffect
  <2>2. Undone(r)' /\ ClaimStands(r)' /\ (Replaces(r)' => Replaces(r))
    BY <1>1, <2>1 DEF SlotInv, Undone, ClaimStands, Replaces, Live
  <2>3. SlotInv(r)'
    BY <1>1, <1>d, <2>1, <2>2, SlotKeeps
  <2> QED
    BY <1>1, <2>1, <2>2, <2>3, ReplacementQuiet
<1>14. CASE ReleaseClaim(r)
  <2>1. MovesOn(r, "done") /\ req[r].pc = "release" /\ UNCHANGED vendor
    BY <1>1, <1>14, AnswersEffect DEF ReleaseClaim, At
  <2>2. /\ ~Replaces(r) /\ ~Replaces(r)' /\ req[r].key \in Keys
    BY <1>1, <2>1 DEF MovesOn, SlotInv, Undone, Replaces, Live
  <2>3. /\ \A k \in Keys : row'[k].listed = row[k].listed
        /\ \A k \in Keys : \/ row'[k].replacedBy = row[k].replacedBy
                           \/ row[k].replacedBy = req[r].key
    BY <1>1, <1>14 DEF ReleaseClaim, TypeOK, KeyRows
  <2>4. ASSUME NEW s \in Reqs \ {r}, Replaces(s), row'[req[s].src].listed
        PROVE  row'[req[s].src].replacedBy = row[req[s].src].replacedBy
    <3>1. req[s].src \in Keys /\ req[s].key \in Keys /\ ClaimStands(s)
      BY <2>4 DEF ReplacementInv, SlotInv, KeysIssued, Replaces
    <3>2. req[s].key # req[r].key
      BY <3>1, ConstantsAssumption DEF ReplacementInv, OneKeyEach
    <3> QED
      BY <2>3, <2>4, <3>1, <3>2 DEF ClaimStands
  <2>5. SlotInv(r)'
    BY <1>1, <1>d, <2>1, <2>2, SlotKeeps DEF MovesOn, Undone, ClaimStands
  <2> QED
    BY <1>1, <1>d, <2>1, <2>2, <2>3, <2>4, <2>5, ReplacementFrame DEF MovesOn
<1> QED
  BY <1>2, <1>3, <1>4, <1>5, <1>6, <1>7, <1>8, <1>9, <1>10, <1>11, <1>12, <1>13, <1>14
     DEF MintStep

LEMMA ReplacementOtherSteps ==
    ASSUME IInv, ReplacementInv, NEW r \in Reqs,
           RevokeStep(r) \/ ChangeStep(r) \/ Crash(r)
    PROVE  ReplacementInv'
<1>1. SlotInv(r) /\ TypeOK
  BY DEF ReplacementInv, IInv
<1> USE DEF SameIdentity, SameWork, SameIntent
<1>d. UNCHANGED vendor => \A k \in Keys : OnlyDeleted(k)
  BY DEF OnlyDeleted
\* A step that leaves the rows alone, and at most deletes credentials.
<1>q. ASSUME OthersStay(r), SameIdentity(r), SameIntent(r), row' = row,
             \A k \in Keys : OnlyDeleted(k), Undone(r)',
             req'[r].pc \notin {"idle", "name", "mint", "recover", "find", "record"}
      PROVE  ReplacementInv'
  <2>1. ClaimStands(r)' /\ (Replaces(r)' => Replaces(r))
    BY <1>1, <1>q DEF SlotInv, ClaimStands, Replaces, Live, OnlyDeleted
  <2>2. SlotInv(r)'
    BY <1>1, <1>q, <2>1, SlotKeeps
  <2> QED
    BY <1>1, <1>q, <2>1, <2>2, ReplacementFrame
<1>2. ASSUME NEW m \in Members, NEW k \in Keys, DeleteKey(r, m, k)
      PROVE  ReplacementInv'
  <2>1. SlotInv(r)'
    BY <1>1, <1>2, DeleteKeyEffect DEF DeleteKey, SlotInv, Keyless, MintingIsOpen,
       AsksOwnName, NeverRecovers, KeysIssued, NotYetListed, Undone, ClaimStands, Replaces
  <2> QED
    BY <1>1, <1>2, <2>1, DeleteKeyEffect, ReplacementQuiet DEF DeleteKey, Replaces
<1>3. ASSUME NEW k \in Keys, RevokeAtVendor(r, k)
      PROVE  ReplacementInv'
  <2>1. \A j \in Keys : OnlyDeleted(j) /\ (j = k => vendor'[j].state = "deleted")
    BY <1>1, <1>3, RevokeAtVendorEffect DEF OnlyDeleted, TypeOK, Credentials
  <2>2. Undone(r)'
    BY <1>1, <1>3, <2>1, RevokeAtVendorEffect DEF SlotInv, Undone, OnlyDeleted
  <2> QED
    BY <1>1, <1>3, <1>q, <2>1, <2>2, RevokeAtVendorEffect DEF Revoking
<1>4. ASSUME NEW k \in Keys, RevokeRefused(r, k)
      PROVE  ReplacementInv'
  <2>1. UNCHANGED <<vendor, row>>
    BY <1>4 DEF RevokeRefused
  <2>2. Undone(r)'
    BY <1>1, <1>4, <2>1, RevokeRefusedEffect DEF SlotInv, Undone
  <2> QED
    BY <1>1, <1>4, <1>d, <1>q, <2>1, <2>2, RevokeRefusedEffect DEF Revoking
<1>5. ASSUME NEW k \in Keys, DropRow(r, k)
      PROVE  ReplacementInv'
  <2>1. /\ OthersStay(r) /\ SameIdentity(r) /\ SameIntent(r) /\ UNCHANGED vendor
        /\ req'[r].pc = req[r].pc /\ req[r].pc \in Revoking
        /\ req'[r].todo = req[r].todo /\ req'[r].refused = req[r].refused
    BY <1>1, <1>5, DropRowEffect
  <2>2. \A j \in Keys : row'[j] = row[j] \/ ~row'[j].listed
    BY <1>1, <1>5, DropRowEffect DEF TypeOK, NoRow
  <2>3. Undone(r)' /\ (Replaces(r)' <=> Replaces(r))
    BY <1>1, <2>1 DEF SlotInv, Undone, Replaces, Live
  <2>4. \A s \in Reqs : Replaces(s) => req[s].src \in Keys
    BY DEF ReplacementInv, SlotInv, KeysIssued, Replaces
  <2>5. ClaimStands(r)'
    BY <1>1, <2>1, <2>2, <2>3, <2>4 DEF SlotInv, ClaimStands
  <2>6. SlotInv(r)'
    BY <1>1, <1>d, <2>1, <2>3, <2>5, SlotKeeps DEF Revoking
  <2> QED
    BY <1>1, <1>d, <2>1, <2>2, <2>3, <2>4, <2>6, ReplacementFrame
<1>6. CASE PassDone(r)
  <2>1. UNCHANGED <<vendor, row>>
    BY <1>6 DEF PassDone
  <2>2. /\ OthersStay(r) /\ SameIdentity(r) /\ SameWork(r) /\ SameIntent(r)
        /\ req'[r].pc \in {"commit", "release", "done"}
        /\ req'[r].pc = "release" => /\ req[r].pc = "undo" /\ req[r].refused = {}
                                     /\ req[r].todo = {}
    BY <1>1, <1>6, PassDoneEffect DEF MovesOn
  <2>3. Undone(r)'
    BY <1>1, <2>1, <2>2 DEF SlotInv, Undone
  <2> QED
    BY <1>d, <1>q, <2>1, <2>2, <2>3
<1>7. ASSUME NEW m \in Members, NEW to \in Roles \union {NoRole}, ChangeRole(r, m, to)
      PROVE  ReplacementInv'
  <2>1. SlotInv(r)'
    BY <1>1, <1>7, ChangeRoleEffect DEF ChangeRole, SlotInv, Keyless, MintingIsOpen,
       AsksOwnName, NeverRecovers, KeysIssued, NotYetListed, Undone, ClaimStands, Replaces
  <2> QED
    BY <1>1, <1>7, <2>1, ChangeRoleEffect, ReplacementQuiet DEF ChangeRole, Replaces
<1>8. CASE ReadSeq(r) \/ ListKeys(r) \/ CommitChange(r) \/ CommitCancelled(r)
  <2>1. Undone(r)'
    BY <1>1, <1>8, ChangeEffect DEF Undone
  <2> QED
    BY <1>1, <1>8, <1>d, <1>q, <2>1, ChangeEffect
<1>9. CASE RemovePrincipal(r)
  <2>1. Undone(r)'
    BY <1>1, <1>9, RemovePrincipalEffect DEF Undone
  <2> QED
    BY <1>1, <1>9, <1>q, <2>1, RemovePrincipalEffect
<1>10. CASE Crash(r)
  <2>1. Undone(r)' /\ UNCHANGED <<vendor, row>>
    BY <1>1, <1>10, CrashEffect DEF Undone, Crash
  <2> QED
    BY <1>1, <1>10, <1>d, <1>q, <2>1, CrashEffect
<1> QED
  BY <1>2, <1>3, <1>4, <1>5, <1>6, <1>7, <1>8, <1>9, <1>10 DEF RevokeStep, ChangeStep

\* Two rotations of one key never both leave a replacement behind, for any number
\* of concurrent rotations and whatever fails (claimSourceRow), where no create
\* recovers a credential another minted.  The hypothesis is needed: a recovered
\* row is put over the row on file, with the claim it carried.
THEOREM ReplacedOnce ==
    ASSUME DistinctNames
    PROVE  Spec => []OneReplacement
<1>1. Init => ReplacementInv
  <2> SUFFICES ASSUME Init
               PROVE  ReplacementInv
    OBVIOUS
  <2>1. \A r \in Reqs : req[r] = IdleRequest
    BY DEF Init
  <2>2. OneKeyEach /\ SourcesDiffer /\ NamesHaveMinters
    BY <2>1 DEF Init, OneKeyEach, SourcesDiffer, Replaces, NamesHaveMinters,
       NoCredential, IdleRequest
  <2>3. \A r \in Reqs : SlotInv(r)
    BY <2>1 DEF SlotInv, Keyless, MintingIsOpen, AsksOwnName, NeverRecovers, KeysIssued,
       NotYetListed, Undone, ClaimStands, Replaces, IdleRequest
  <2> QED
    BY <2>2, <2>3 DEF ReplacementInv
<1>2. IInv /\ ReplacementInv /\ [Next]_vars => ReplacementInv'
  <2> SUFFICES ASSUME IInv, ReplacementInv, [Next]_vars
               PROVE  ReplacementInv'
    OBVIOUS
  <2>1. CASE UNCHANGED <<vendor, row, req>>
    BY <2>1 DEF ReplacementInv, OneKeyEach, NamesHaveMinters, SourcesDiffer, SlotInv,
       Keyless, MintingIsOpen, AsksOwnName, NeverRecovers, KeysIssued, NotYetListed,
       Undone, ClaimStands, Replaces, Live
  <2> QED
    BY <2>1, ReplacementMintSteps, ReplacementOtherSteps DEF Next, Join, vars
<1>3. IInv /\ ReplacementInv => OneReplacement
  BY DEF ReplacementInv, SourcesDiffer, OneReplacement, Replaces, SlotInv, KeysIssued
<1> QED
  BY <1>1, <1>2, <1>3, InductiveInvariant, PTL DEF Spec
=============================================================================
