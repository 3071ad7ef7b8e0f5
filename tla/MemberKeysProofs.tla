-------------------------- MODULE MemberKeysProofs --------------------------
(***************************************************************************)
(* Proofs about MemberKeys, for any members, keys, requests and faults:    *)
(* its type invariant, and that no live key ever exceeds its owner's role. *)
(*                                                                         *)
(* LiveRowWithinRole is not inductive: a role is written by CommitChange,  *)
(* and what makes that write safe is what the change still has to revoke.  *)
(* RequestInv says it: while the owner's mint sequence is the one a        *)
(* narrowing read, every key the new role could not keep is on the         *)
(* narrowing's list, and at the commit the list is empty.                  *)
(***************************************************************************)
EXTENDS MemberKeys, TLAPS

Narrowing(r) == req[r].kind = "change" /\ RoleNarrows(req[r].from, req[r].to)

\* A request knows the keys its next writes are about.
KeysBound(r) ==
    /\ req[r].pc \in {"record", "recheck"} => req[r].key \in Keys
    /\ req[r].kind = "rotate" => req[r].src \in Keys

\* A key is minted before its row is written.
MintedBeforeRecord(r) ==
    req[r].pc = "record" => vendor[req[r].key].state # "absent"

\* Only a membership change reaches these phases, and it has a target.
ChangePhases(r) ==
    req[r].pc \in {"read_seq", "list", "principal", "commit"} =>
        req[r].kind = "change" /\ req[r].owner \in Members

\* A change knows its target, and read a sequence that has only grown since.
SeqSeen(r) ==
    req[r].kind = "change" =>
        /\ req[r].owner \in Members
        /\ req[r].pc \in {"list", "principal", "revoke", "commit"}
              /\ RoleNarrows(req[r].from, req[r].to)
             => req[r].seen <= mintSeq[req[r].owner]

\* With the sequence unmoved, the list holds every key the new role cannot keep.
ListComplete(r) ==
    /\ Narrowing(r)
    /\ req[r].pc \in {"principal", "revoke", "commit"}
    /\ mintSeq[req[r].owner] = req[r].seen
    => \A k \in Keys :
          /\ Live(k) /\ row[k].listed /\ row[k].createdBy = req[r].owner
          /\ ~Retained(req[r].to, row[k].grant)
          => k \in req[r].todo \union req[r].refused

\* A change has phases of its own, and none of a mint's.
OwnPhases(r) ==
    req[r].kind = "change" => req[r].pc \in {"read_seq", "list", "principal", "revoke",
                                            "commit", "done", "crashed"}

ListSpent(r) ==
    Narrowing(r) /\ req[r].pc = "commit" => req[r].todo = {} /\ req[r].refused = {}

RequestInv(r) ==
    /\ KeysBound(r)
    /\ MintedBeforeRecord(r)
    /\ ChangePhases(r)
    /\ SeqSeen(r)
    /\ ListComplete(r)
    /\ ListSpent(r)
    /\ OwnPhases(r)

\* A row is written for a credential the vendor has minted.
RowsHaveCredentials ==
    \A k \in Keys : row[k].listed => vendor[k].state # "absent"

IInv ==
    /\ TypeOK
    /\ RowsHaveCredentials
    /\ LiveRowWithinRole
    /\ \A r \in Reqs : RequestInv(r)

-----------------------------------------------------------------------------
(* Type correctness.                                                       *)

\* A step that leaves its request a request record keeps req well typed.
LEMMA BecomesType ==
    ASSUME TypeOK, NEW r \in Reqs, NEW q \in Requests, Becomes(r, q)
    PROVE  req' \in [Reqs -> Requests]
BY DEF TypeOK, Becomes

LEMMA GoesType ==
    ASSUME TypeOK, NEW r \in Reqs, NEW p \in Phases, Goes(r, p)
    PROVE  req' \in [Reqs -> Requests]
<1>1. req[r] \in Requests
  BY DEF TypeOK
<1>2. [req[r] EXCEPT !.pc = p] \in Requests
  BY <1>1 DEF Requests
<1> QED
  BY <1>2, BecomesType DEF Goes

LEMMA AnswersType ==
    ASSUME TypeOK, NEW r \in Reqs, NEW o \in Outcomes, Answers(r, o)
    PROVE  req' \in [Reqs -> Requests]
<1>1. req[r] \in Requests
  BY DEF TypeOK
<1>2. [req[r] EXCEPT !.pc = "done", !.outcome = o] \in Requests
  BY <1>1 DEF Requests, Phases
<1> QED
  BY <1>2, BecomesType DEF Answers

LEMMA ClosesType ==
    ASSUME TypeOK, NEW r \in Reqs, NEW o \in Outcomes, NEW i \in Intents,
           ClosesAndAnswers(r, i, o)
    PROVE  req' \in [Reqs -> Requests]
<1>1. req[r] \in Requests
  BY DEF TypeOK
<1>2. PICK c \in Intents :
        Becomes(r, [req[r] EXCEPT !.pc = "done", !.outcome = o, !.intent = c])
  BY DEF ClosesAndAnswers, Closed, Intents
<1>3. [req[r] EXCEPT !.pc = "done", !.outcome = o, !.intent = c] \in Requests
  BY <1>1 DEF Requests, Phases
<1> QED
  BY <1>2, <1>3, BecomesType

\* The rows a recorded mint leaves are rows.
LEMMA RowsRecordedType ==
    ASSUME TypeOK, NEW r \in Reqs
    PROVE  RowsRecorded(r) \in [Keys -> KeyRows]
<1>1. req[r] \in Requests
  BY DEF TypeOK
<1>2. MintedRow(r) \in KeyRows
  BY <1>1 DEF MintedRow, KeyRows, Requests, RowGrants
<1>3. ASSUME NEW k \in Keys
      PROVE  [row[k] EXCEPT !.replacedBy = req[r].key] \in KeyRows
  <2>1. row[k] \in KeyRows /\ req[r].key \in Keys \union {NoKey}
    BY <1>1 DEF TypeOK, Requests
  <2> QED
    BY <2>1 DEF KeyRows
<1>4. \A k \in Keys : RowsRecorded(r)[k] \in KeyRows
  BY <1>2, <1>3 DEF RowsRecorded, TypeOK
<1> QED
  BY <1>4 DEF RowsRecorded

\* The types of what a mint reads and writes.
LEMMA IssueType ==
    ASSUME TypeOK, NEW r \in Reqs, NEW k \in Keys, Issue(r, k)
    PROVE  vendor' \in [Keys -> Credentials]
<1>1. req[r] \in Requests
  BY DEF TypeOK
<1>2. PICK c \in Credentials : vendor' = [vendor EXCEPT ![k] = c]
  <2> DEFINE c == [state |-> "live", grant |-> req[r].grant,
                   name |-> IF req[r].kind = "rotate" THEN NoName ELSE req[r].name,
                   principal |-> Principal(req[r].grant, req[r].owner)]
  <2>1. c \in Credentials
    BY <1>1 DEF Issue, Credentials, Requests, RowGrants, Principal
  <2> QED BY <2>1 DEF Issue
<1> QED
  BY <1>2 DEF TypeOK

LEMMA MintStepType ==
    ASSUME TypeOK, NEW r \in Reqs, KeysBound(r), ChangePhases(r), MintStep(r)
    PROVE  TypeOK'
<1> USE ConstantsAssumption
<1>1. req[r] \in Requests
  BY DEF TypeOK
<1>c. \A k \in Keys : [vendor[k] EXCEPT !.state = "deleted"] \in Credentials
  BY DEF TypeOK, Credentials
<1>m. [mintSeq EXCEPT ![req[r].owner] = mintSeq[req[r].owner] + 1] \in [Members -> Nat]
  <2>1. ASSUME NEW m \in Members
        PROVE  (IF m = req[r].owner THEN mintSeq[req[r].owner] + 1 ELSE mintSeq[m]) \in Nat
    <3>1. mintSeq[m] \in Nat /\ mintSeq[m] + 1 \in Nat
      BY DEF TypeOK
    <3> QED BY <3>1
  <2> QED
    BY <2>1 DEF TypeOK
<1>2. ASSUME NEW m \in Members, NEW g \in Grants, CreateKey(r, m, g)
      PROVE  TypeOK'
  <2>1. "create" \in Kinds /\ "name" \in Phases
    BY DEF Kinds, Phases
  <2>2. [req[r] EXCEPT !.kind = "create", !.pc = "name", !.by = m,
             !.owner = m, !.grant = g, !.name = NameOf[r]] \in Requests
    BY <2>1, <1>1 DEF Requests, RowGrants
  <2>3. req' \in [Reqs -> Requests]
    BY <2>2, BecomesType, <1>2 DEF CreateKey
  <2> QED
    BY <1>2, <2>3 DEF CreateKey, TypeOK
<1>3. ASSUME NEW m \in Members, NEW k \in Keys, RotateKey(r, m, k)
      PROVE  TypeOK'
  <2>1. "rotate" \in Kinds /\ "mint" \in Phases /\ "open" \in Intents
    BY DEF Kinds, Phases, Intents
  <2>2. row[k] \in KeyRows
    BY DEF TypeOK
  <2>3. [req[r] EXCEPT !.kind = "rotate", !.pc = "mint",
             !.by = m, !.owner = row[k].createdBy, !.grant = row[k].grant,
             !.name = row[k].name, !.recovered = row[k].recovered,
             !.src = k, !.intent = "open"] \in Requests
    BY <2>1, <2>2, <1>1 DEF Requests, KeyRows
  <2>4. req' \in [Reqs -> Requests]
    BY <2>3, BecomesType, <1>3 DEF RotateKey
  <2> QED
    BY <1>3, <2>4 DEF RotateKey, TypeOK
<1>4. ASSUME CheckName(r)
      PROVE  TypeOK'
  <2>1. "mint" \in Phases /\ "open" \in Intents
    BY DEF Phases, Intents
  <2>2. [req[r] EXCEPT !.pc = "mint", !.intent = "open"] \in Requests
    BY <2>1, <1>1 DEF Requests
  <2>3. req' \in [Reqs -> Requests]
    BY <2>2, BecomesType, AnswersType, <1>4 DEF CheckName, Outcomes
  <2> QED
    BY <1>4, <2>3 DEF CheckName, TypeOK
<1>5. ASSUME NEW k \in Keys, VendorMints(r, k)
      PROVE  TypeOK'
  <2>1. [req[r] EXCEPT !.key = k, !.pc = "record"] \in Requests
    BY <1>1 DEF Requests, Phases
  <2>2. req' \in [Reqs -> Requests]
    BY <2>1, BecomesType, <1>5 DEF VendorMints
  <2>3. vendor' \in [Keys -> Credentials]
    BY IssueType, <1>5 DEF VendorMints
  <2> QED
    BY <1>5, <2>2, <2>3 DEF VendorMints, TypeOK
<1>6. ASSUME VendorConflict(r)
      PROVE  TypeOK'
  <2>1. req' \in [Reqs -> Requests]
    BY GoesType, <1>6 DEF VendorConflict, Phases
  <2> QED
    BY <1>6, <2>1 DEF VendorConflict, TypeOK
<1>7. ASSUME VendorRejects(r)
      PROVE  TypeOK'
  <2>1. req' \in [Reqs -> Requests]
    BY ClosesType, <1>7 DEF VendorRejects, Outcomes, Intents
  <2> QED
    BY <1>7, <2>1 DEF VendorRejects, TypeOK
<1>8. ASSUME VendorUnknown(r)
      PROVE  TypeOK'
  <2>1. "done" \in Phases /\ "error" \in Outcomes
    BY DEF Phases, Outcomes
  <2>2. \A k \in Keys :
           [req[r] EXCEPT !.pc = "done", !.key = k, !.outcome = "error"] \in Requests
    BY <2>1, <1>1 DEF Requests
  <2>3. req' \in [Reqs -> Requests]
    BY <2>2, BecomesType, AnswersType, <1>8 DEF VendorUnknown, Outcomes
  <2>4. vendor' \in [Keys -> Credentials]
    BY IssueType, <1>8 DEF VendorUnknown, TypeOK
  <2> QED
    BY <1>8, <2>3, <2>4 DEF VendorUnknown, TypeOK
<1>9. ASSUME RecoverList(r)
      PROVE  TypeOK'
  <2>1. req' \in [Reqs -> Requests]
    BY ClosesType, GoesType, <1>9 DEF RecoverList, Outcomes, Intents, Phases
  <2> QED
    BY <1>9, <2>1 DEF RecoverList, TypeOK
<1>10. ASSUME RecoverFind(r)
      PROVE  TypeOK'
  <2>1. "recover" \in Kinds /\ "record" \in Phases
    BY DEF Kinds, Phases
  <2>2. \A k \in Keys :
           [req[r] EXCEPT !.kind = "recover", !.pc = "record",
                           !.key = k, !.recovered = TRUE] \in Requests
    BY <2>1, <1>1 DEF Requests
  <2>3. req' \in [Reqs -> Requests]
    BY <2>2, BecomesType, ClosesType, <1>10 DEF RecoverFind, Outcomes, Intents
  <2> QED
    BY <1>10, <2>3 DEF RecoverFind, TypeOK
<1>11. ASSUME Record(r)
      PROVE  TypeOK'
  <2>1. "done" \in Phases /\ "succeeded" \in Intents /\ "conflict" \in Outcomes /\ "recheck" \in Phases
    BY DEF Phases, Intents, Outcomes
  <2>2. [req[r] EXCEPT !.pc = "done", !.outcome = "conflict", !.intent = "succeeded"] \in Requests
    BY <2>1, <1>1 DEF Requests
  <2>3. [req[r] EXCEPT !.pc = "recheck", !.intent = "succeeded"] \in Requests
    BY <2>1, <1>1 DEF Requests
  <2>4. req' \in [Reqs -> Requests]
    BY <2>2, <2>3, BecomesType, <1>11 DEF Record
  <2>5. mintSeq' \in [Members -> Nat]
    BY <1>11, <1>m DEF Record, WriteMint, TypeOK
  <2>6. row' \in [Keys -> KeyRows]
    BY <1>11, RowsRecordedType DEF Record, WriteMint, TypeOK
  <2> QED
    BY <1>11, <2>4, <2>5, <2>6 DEF Record, TypeOK
<1>12. ASSUME RecordRefused(r)
      PROVE  TypeOK'
  <2>1. req' \in [Reqs -> Requests]
    BY GoesType, <1>12 DEF RecordRefused, Phases
  <2> QED
    BY <1>12, <2>1 DEF RecordRefused, TypeOK
<1>13. ASSUME RecordUnknown(r)
      PROVE  TypeOK'
  <2>1. "done" \in Phases /\ "succeeded" \in Intents /\ "error" \in Outcomes
    BY DEF Phases, Intents, Outcomes
  <2>2. [req[r] EXCEPT !.pc = "done", !.intent = "succeeded", !.outcome = "error"] \in Requests
    BY <2>1, <1>1 DEF Requests
  <2>3. req' \in [Reqs -> Requests]
    BY <2>2, BecomesType, AnswersType, <1>13 DEF RecordUnknown, Outcomes
  <2>4. mintSeq' \in [Members -> Nat]
    BY <1>13, <1>m DEF RecordUnknown, WriteMint, TypeOK
  <2>5. row' \in [Keys -> KeyRows]
    BY <1>13, RowsRecordedType DEF RecordUnknown, WriteMint, TypeOK
  <2> QED
    BY <1>13, <2>3, <2>4, <2>5 DEF RecordUnknown, TypeOK
<1>14. ASSUME HandBack(r)
      PROVE  TypeOK'
  <2>1. req' \in [Reqs -> Requests]
    BY ClosesType, <1>14 DEF HandBack, Outcomes, Intents
  <2>2. vendor' \in [Keys -> Credentials]
    BY <1>14, <1>c DEF HandBack, TypeOK
  <2> QED
    BY <1>14, <2>1, <2>2 DEF HandBack, TypeOK
<1>15. ASSUME Recheck(r)
      PROVE  TypeOK'
  <2>1. req[r].key \in Keys /\ (req[r].kind = "rotate" => req[r].src \in Keys)
    BY <1>15 DEF Recheck, At, KeysBound
  <2>2. [req[r] EXCEPT !.pc = "undo", !.todo = {req[r].key}] \in Requests
    BY <2>1, <1>1 DEF Requests, Phases
  <2>3. req[r].kind = "rotate" =>
           [req[r] EXCEPT !.pc = "supersede", !.todo = {req[r].src}] \in Requests
    BY <2>1, <1>1 DEF Requests, Phases
  <2>4. req' \in [Reqs -> Requests]
    BY <2>2, <2>3, BecomesType, AnswersType, <1>15 DEF Recheck, Outcomes
  <2> QED
    BY <1>15, <2>4 DEF Recheck, TypeOK
<1>16. ASSUME ReleaseClaim(r)
      PROVE  TypeOK'
  <2>1. req' \in [Reqs -> Requests]
    BY AnswersType, <1>16 DEF ReleaseClaim, Outcomes
  <2>2. row' \in [Keys -> KeyRows]
    BY <1>1, <1>16 DEF ReleaseClaim, TypeOK, KeyRows
  <2> QED
    BY <1>16, <2>1, <2>2 DEF ReleaseClaim, TypeOK
<1> QED
  BY <1>2, <1>3, <1>4, <1>5, <1>6, <1>7, <1>8, <1>9, <1>10, <1>11, <1>12, <1>13, <1>14, <1>15, <1>16 DEF MintStep

LEMMA RevokeStepType ==
    ASSUME TypeOK, NEW r \in Reqs, KeysBound(r), ChangePhases(r), RevokeStep(r)
    PROVE  TypeOK'
<1> USE ConstantsAssumption
<1>1. req[r] \in Requests
  BY DEF TypeOK
<1>c. \A k \in Keys : [vendor[k] EXCEPT !.state = "deleted"] \in Credentials
  BY DEF TypeOK, Credentials
<1>2. ASSUME NEW m \in Members, NEW k \in Keys, DeleteKey(r, m, k)
      PROVE  TypeOK'
  <2>1. "delete" \in Kinds /\ "revoke" \in Phases
    BY DEF Kinds, Phases
  <2>2. [req[r] EXCEPT !.kind = "delete", !.pc = "revoke",
             !.by = m, !.todo = {k}] \in Requests
    BY <2>1, <1>1 DEF Requests
  <2>3. req' \in [Reqs -> Requests]
    BY <2>2, BecomesType, <1>2 DEF DeleteKey
  <2> QED
    BY <1>2, <2>3 DEF DeleteKey, TypeOK
<1>3. ASSUME NEW k \in Keys, RevokeAtVendor(r, k)
      PROVE  TypeOK'
  <2>1. [req[r] EXCEPT !.todo = req[r].todo \ {k},
             !.gone = req[r].gone \union {k}] \in Requests
    BY <1>1 DEF Requests
  <2>2. req' \in [Reqs -> Requests]
    BY <2>1, BecomesType, <1>3 DEF RevokeAtVendor
  <2>3. vendor' \in [Keys -> Credentials]
    BY <1>3, <1>c DEF RevokeAtVendor, TypeOK
  <2> QED
    BY <1>3, <2>2, <2>3 DEF RevokeAtVendor, TypeOK
<1>4. ASSUME NEW k \in Keys, RevokeRefused(r, k)
      PROVE  TypeOK'
  <2>1. [req[r] EXCEPT !.todo = req[r].todo \ {k},
             !.refused = req[r].refused \union {k}] \in Requests
    BY <1>1 DEF Requests
  <2>2. req' \in [Reqs -> Requests]
    BY <2>1, BecomesType, <1>4 DEF RevokeRefused
  <2> QED
    BY <1>4, <2>2 DEF RevokeRefused, TypeOK
<1>5. ASSUME NEW k \in Keys, DropRow(r, k)
      PROVE  TypeOK'
  <2>1. [req[r] EXCEPT !.gone = req[r].gone \ {k}] \in Requests
    BY <1>1 DEF Requests
  <2>2. req' \in [Reqs -> Requests]
    BY <2>1, BecomesType, <1>5 DEF DropRow
  <2>3. NoRow \in KeyRows
    BY ConstantsAssumption DEF KeyRows, NoRow, RowGrants
  <2>4. row' \in [Keys -> KeyRows]
    BY <2>3, <1>5 DEF DropRow, TypeOK
  <2> QED
    BY <1>5, <2>2, <2>3, <2>4 DEF DropRow, TypeOK
<1>6. ASSUME PassDone(r)
      PROVE  TypeOK'
  <2>1. req' \in [Reqs -> Requests]
    BY GoesType, AnswersType, <1>6 DEF PassDone, Phases, Outcomes
  <2> QED
    BY <1>6, <2>1 DEF PassDone, TypeOK
<1> QED
  BY <1>2, <1>3, <1>4, <1>5, <1>6 DEF RevokeStep

LEMMA ChangeStepType ==
    ASSUME TypeOK, NEW r \in Reqs, KeysBound(r), ChangePhases(r), ChangeStep(r)
    PROVE  TypeOK'
<1> USE ConstantsAssumption
<1>1. req[r] \in Requests
  BY DEF TypeOK
<1>c. \A k \in Keys : [vendor[k] EXCEPT !.state = "deleted"] \in Credentials
  BY DEF TypeOK, Credentials
<1>2. ASSUME NEW m \in Members, NEW to \in Roles \union {NoRole}, ChangeRole(r, m, to)
      PROVE  TypeOK'
  <2>1. \A p \in Phases :
           [req[r] EXCEPT !.kind = "change", !.owner = m,
             !.from = role[m], !.to = to, !.pc = p] \in Requests
    BY <1>1 DEF Requests, Kinds, TypeOK
  <2>2. req' \in [Reqs -> Requests]
    BY <2>1, BecomesType, <1>2 DEF ChangeRole, Phases
  <2> QED
    BY <1>2, <2>2 DEF ChangeRole, TypeOK
<1>3. ASSUME ReadSeq(r)
      PROVE  TypeOK'
  <2>1. mintSeq[req[r].owner] \in Nat
    BY <1>3 DEF ReadSeq, At, ChangePhases, TypeOK
  <2>2. [req[r] EXCEPT !.pc = "list", !.seen = mintSeq[req[r].owner]] \in Requests
    BY <2>1, <1>1 DEF Requests, Phases, TypeOK
  <2>3. req' \in [Reqs -> Requests]
    BY <2>2, BecomesType, <1>3 DEF ReadSeq
  <2> QED
    BY <1>3, <2>3 DEF ReadSeq, TypeOK
<1>4. ASSUME ListKeys(r)
      PROVE  TypeOK'
  <2>1. \A p \in Phases :
           [req[r] EXCEPT !.todo = KeysToRevoke(req[r].owner, req[r].to),
                           !.pc = p] \in Requests
    BY <1>1 DEF Requests, KeysToRevoke
  <2>2. req' \in [Reqs -> Requests]
    BY <2>1, BecomesType, <1>4 DEF ListKeys, Phases
  <2> QED
    BY <1>4, <2>2 DEF ListKeys, TypeOK
<1>5. ASSUME RemovePrincipal(r)
      PROVE  TypeOK'
  <2>1. "done" \in Phases /\ "error" \in Outcomes
    BY DEF Phases, Outcomes
  <2>2. [req[r] EXCEPT !.pc = "done", !.todo = {}, !.outcome = "error"] \in Requests
    BY <2>1, <1>1 DEF Requests
  <2>3. req' \in [Reqs -> Requests]
    BY <2>2, BecomesType, GoesType, <1>5 DEF RemovePrincipal, Phases
  <2>4. vendor' \in [Keys -> Credentials]
    BY <1>5, <1>c DEF RemovePrincipal, TypeOK
  <2> QED
    BY <1>5, <2>3, <2>4 DEF RemovePrincipal, TypeOK
<1>6. ASSUME CommitChange(r)
      PROVE  TypeOK'
  <2>1. req' \in [Reqs -> Requests]
    BY AnswersType, <1>6 DEF CommitChange, Outcomes
  <2>2. role' \in [Members -> Roles \union {NoRole}]
    BY <1>1, <1>6 DEF CommitChange, TypeOK, Requests
  <2> QED
    BY <1>6, <2>1, <2>2 DEF CommitChange, TypeOK
<1>7. ASSUME CommitCancelled(r)
      PROVE  TypeOK'
  <2>1. \A o \in Outcomes :
           [req[r] EXCEPT !.pc = "done", !.outcome = o] \in Requests
    BY <1>1 DEF Requests, Phases
  <2>2. req' \in [Reqs -> Requests]
    BY <2>1, BecomesType, <1>7 DEF CommitCancelled, Outcomes
  <2> QED
    BY <1>7, <2>2 DEF CommitCancelled, TypeOK
<1> QED
  BY <1>2, <1>3, <1>4, <1>5, <1>6, <1>7 DEF ChangeStep

-----------------------------------------------------------------------------
(* The inductive invariant.                                                *)

\* What a step that answers the request leaves of its record.
LEMMA AnswersFields ==
    ASSUME TypeOK, NEW r \in Reqs,
           \/ \E o : Answers(r, o)
           \/ \E i, o : ClosesAndAnswers(r, i, o)
    PROVE  /\ req'[r].pc = "done" /\ req'[r].kind = req[r].kind
           /\ req'[r].src = req[r].src /\ req'[r].owner = req[r].owner
           /\ \A s \in Reqs \ {r} : req'[s] = req[s]
<1>1. req[r] \in Requests
  BY DEF TypeOK
<1>2. CASE \E o : Answers(r, o)
  <2>1. PICK o : req' = [req EXCEPT ![r] = [req[r] EXCEPT !.pc = "done", !.outcome = o]]
    BY <1>2 DEF Answers, Becomes
  <2>2. req'[r] = [req[r] EXCEPT !.pc = "done", !.outcome = o]
    BY <2>1 DEF TypeOK
  <2> QED
    BY <1>1, <2>1, <2>2 DEF TypeOK, Requests
<1>3. CASE \E i, o : ClosesAndAnswers(r, i, o)
  <2>1. PICK c, o : req' = [req EXCEPT ![r] =
                      [req[r] EXCEPT !.pc = "done", !.outcome = o, !.intent = c]]
    BY <1>3 DEF ClosesAndAnswers, Becomes
  <2>2. req'[r] = [req[r] EXCEPT !.pc = "done", !.outcome = o, !.intent = c]
    BY <2>1 DEF TypeOK
  <2> QED
    BY <1>1, <2>1, <2>2 DEF TypeOK, Requests
<1> QED
  BY <1>2, <1>3

\* Outside the phases RequestInv speaks of, a request keeps it by knowing its
\* target or its source.
PlainPhases == Phases \ {"record", "recheck", "read_seq", "list", "principal",
                         "revoke", "undo", "supersede", "commit"}

LEMMA PlainPhase ==
    ASSUME NEW r \in Reqs, req'[r].pc \in PlainPhases,
           req'[r].kind = "rotate" => req'[r].src \in Keys,
           req'[r].kind = "change" => /\ req'[r].owner \in Members
                                      /\ req'[r].pc \in {"done", "crashed"}
    PROVE  RequestInv(r)'
BY DEF PlainPhases, RequestInv, KeysBound, MintedBeforeRecord, ChangePhases, SeqSeen,
       ListComplete, ListSpent, Narrowing, OwnPhases

\* What a step of one request leaves of the others: no credential is unminted,
\* and a live listed key is either an old one or bumped its owner's sequence.
NothingUnseen ==
    /\ \A k \in Keys : vendor'[k].state = "absent" => vendor[k].state = "absent"
    /\ \A m \in Members : mintSeq'[m] \in {mintSeq[m], mintSeq[m] + 1}
    /\ \A k \in Keys :
          /\ vendor'[k].state = "live" /\ row'[k].listed
          /\ row'[k].createdBy \in Members
          => \/ /\ Live(k) /\ row[k].listed
                /\ row'[k].createdBy = row[k].createdBy
                /\ row'[k].grant = row[k].grant
             \/ mintSeq'[row'[k].createdBy] = mintSeq[row'[k].createdBy] + 1

LEMMA OthersKeep ==
    ASSUME TypeOK, TypeOK', NothingUnseen, NEW s \in Reqs, RequestInv(s), req'[s] = req[s]
    PROVE  RequestInv(s)'
<1>1. req[s] \in Requests
  BY DEF TypeOK
<1>2. KeysBound(s)' /\ MintedBeforeRecord(s)' /\ ChangePhases(s)'
        /\ ListSpent(s)' /\ OwnPhases(s)'
  BY DEF NothingUnseen, RequestInv, KeysBound, MintedBeforeRecord, ChangePhases, SeqSeen,
       ListComplete, ListSpent, Narrowing, OwnPhases
<1>3. ASSUME req[s].owner \in Members
      PROVE  /\ mintSeq[req[s].owner] \in Nat /\ mintSeq'[req[s].owner] \in Nat
             /\ mintSeq'[req[s].owner] \in {mintSeq[req[s].owner], mintSeq[req[s].owner] + 1}
             /\ req[s].seen \in Nat
  BY <1>1, <1>3 DEF NothingUnseen, TypeOK, Requests
<1>4. SeqSeen(s)'
  BY <1>3 DEF RequestInv, SeqSeen
<1>5. ListComplete(s)'
  <2> SUFFICES ASSUME Narrowing(s), req[s].pc \in {"principal", "revoke", "commit"},
                      mintSeq'[req[s].owner] = req[s].seen, NEW k \in Keys,
                      vendor'[k].state = "live", row'[k].listed,
                      row'[k].createdBy = req[s].owner,
                      ~Retained(req[s].to, row'[k].grant)
               PROVE  k \in req[s].todo \union req[s].refused
    BY DEF ListComplete, Narrowing, Live
  <2>1. req[s].owner \in Members /\ req[s].seen <= mintSeq[req[s].owner]
    BY DEF RequestInv, SeqSeen, Narrowing
  <2>2. mintSeq'[req[s].owner] = mintSeq[req[s].owner]
    BY <1>3, <2>1
  <2>3. mintSeq[req[s].owner] # mintSeq[req[s].owner] + 1
    BY <1>3, <2>1
  <2>4. /\ Live(k) /\ row[k].listed /\ row[k].createdBy = req[s].owner
        /\ row'[k].grant = row[k].grant
    BY <2>1, <2>2, <2>3 DEF NothingUnseen
  <2> QED
    BY <2>2, <2>4 DEF RequestInv, ListComplete
<1> QED
  BY <1>2, <1>4, <1>5 DEF RequestInv

\* A step that writes nothing but its own request keeps the invariant when that
\* request keeps its part.
LEMMA QuietStep ==
    ASSUME IInv, TypeOK', NEW r \in Reqs, UNCHANGED <<role, mintSeq, vendor, row>>,
           \A s \in Reqs \ {r} : req'[s] = req[s],
           RequestInv(r)'
    PROVE  IInv'
<1>1. RowsHaveCredentials' /\ LiveRowWithinRole'
  BY DEF IInv, RowsHaveCredentials, LiveRowWithinRole, Live
<1>2. NothingUnseen
  BY DEF NothingUnseen, Live
<1>3. \A s \in Reqs \ {r} : RequestInv(s)'
  BY <1>2, OthersKeep DEF IInv
<1> QED
  BY <1>1, <1>3 DEF IInv


\* The type invariant, for every step.
LEMMA TypeStep ==
    ASSUME TypeOK, \A r \in Reqs : KeysBound(r) /\ ChangePhases(r), [Next]_vars
    PROVE  TypeOK'
<1>1. ASSUME NEW r \in Reqs, Crash(r)
      PROVE  TypeOK'
  <2>1. req[r] \in Requests
    BY DEF TypeOK
  <2>2. [req[r] EXCEPT !.pc = "crashed", !.todo = {}, !.gone = {}] \in Requests
    BY <2>1 DEF Requests, Phases
  <2> QED
    BY <1>1, <2>2, BecomesType DEF Crash, TypeOK
<1>2. ASSUME NEW m \in Members, NEW x \in Roles, Join(m, x)
      PROVE  TypeOK'
  BY <1>2 DEF Join, TypeOK
<1>3. CASE UNCHANGED vars
  BY <1>3 DEF vars, TypeOK
<1> QED
  BY <1>1, <1>2, <1>3, MintStepType, RevokeStepType, ChangeStepType DEF Next

\* What is left of a request by a step on it.
LEMMA StepFields ==
    ASSUME TypeOK, NEW r \in Reqs, NEW q, Becomes(r, q)
    PROVE  req'[r] = q /\ \A s \in Reqs \ {r} : req'[s] = req[s]
BY DEF TypeOK, Becomes

\* An answered request keeps its part of the invariant.
LEMMA AnswersKeeps ==
    ASSUME TypeOK, NEW r \in Reqs, RequestInv(r),
           \/ \E o : Answers(r, o)
           \/ \E i, o : ClosesAndAnswers(r, i, o)
    PROVE  RequestInv(r)' /\ \A s \in Reqs \ {r} : req'[s] = req[s]
BY AnswersFields, PlainPhase DEF RequestInv, KeysBound, SeqSeen, PlainPhases, Phases

LEMMA GoesKeeps ==
    ASSUME TypeOK, NEW r \in Reqs, RequestInv(r), NEW p \in PlainPhases, Goes(r, p),
           req[r].kind # "change"
    PROVE  RequestInv(r)' /\ \A s \in Reqs \ {r} : req'[s] = req[s]
<1>1. req[r] \in Requests
  BY DEF TypeOK
<1>2. req'[r] = [req[r] EXCEPT !.pc = p] /\ \A s \in Reqs \ {r} : req'[s] = req[s]
  BY StepFields DEF Goes
<1>3. req'[r].pc = p /\ req'[r].kind = req[r].kind /\ req'[r].src = req[r].src
         /\ req'[r].owner = req[r].owner
  BY <1>1, <1>2 DEF Requests
<1> QED
  BY <1>2, <1>3, PlainPhase DEF RequestInv, KeysBound, SeqSeen

LEMMA QuietMintSteps ==
    ASSUME IInv, TypeOK', NEW r \in Reqs,
           \/ \E m \in Members, g \in Grants : CreateKey(r, m, g)
           \/ \E m \in Members, k \in Keys : RotateKey(r, m, k)
           \/ CheckName(r)
           \/ VendorConflict(r)
           \/ VendorRejects(r)
           \/ RecoverList(r)
           \/ RecoverFind(r)
           \/ RecordRefused(r)
           \/ Recheck(r)
    PROVE  IInv'
<1> DEFINE Kept == RequestInv(r)' /\ \A s \in Reqs \ {r} : req'[s] = req[s]
<1>1. req[r] \in Requests /\ RequestInv(r) /\ TypeOK
  BY DEF IInv, TypeOK
<1>0. req[r].pc \in {"name", "mint", "recover", "find", "record", "recheck"}
         => req[r].kind # "change"
  BY <1>1 DEF RequestInv, OwnPhases
<1>2. ASSUME NEW m \in Members, NEW g \in Grants, CreateKey(r, m, g)
      PROVE  Kept
  <2>1. /\ req'[r] = [req[r] EXCEPT !.kind = "create", !.pc = "name", !.by = m,
                !.owner = m, !.grant = g, !.name = NameOf[r]]
        /\ \A s \in Reqs \ {r} : req'[s] = req[s]
    BY <1>1, <1>2, StepFields DEF CreateKey
  <2> QED
    BY <1>1, <1>2, <2>1, PlainPhase DEF CreateKey, Requests, RequestInv, KeysBound, SeqSeen,
       PlainPhases, Phases
<1>3. ASSUME NEW m \in Members, NEW k \in Keys, RotateKey(r, m, k)
      PROVE  Kept
  <2>1. /\ req'[r] = [req[r] EXCEPT !.kind = "rotate", !.pc = "mint", !.by = m,
                !.owner = row[k].createdBy, !.grant = row[k].grant,
                !.name = row[k].name, !.recovered = row[k].recovered,
                !.src = k, !.intent = "open"]
        /\ \A s \in Reqs \ {r} : req'[s] = req[s]
    BY <1>1, <1>3, StepFields DEF RotateKey
  <2>2. req'[r].kind = "rotate" /\ req'[r].pc = "mint" /\ req'[r].src = k
    BY <1>1, <2>1 DEF Requests
  <2> QED
    BY <2>1, <2>2, PlainPhase DEF PlainPhases, Phases
<1>4. ASSUME CheckName(r)
      PROVE  Kept
  <2>1. CASE Answers(r, "conflict")
    BY <1>1, <2>1, AnswersKeeps
  <2>2. CASE Becomes(r, [req[r] EXCEPT !.pc = "mint", !.intent = "open"])
    <3>1. /\ req'[r] = [req[r] EXCEPT !.pc = "mint", !.intent = "open"]
          /\ \A s \in Reqs \ {r} : req'[s] = req[s]
      BY <1>1, <2>2, StepFields
    <3> QED
      BY <1>1, <1>0, <1>4, <3>1, PlainPhase DEF CheckName, At, Requests, RequestInv,
         KeysBound, PlainPhases, Phases
  <2> QED
    BY <1>4, <2>1, <2>2 DEF CheckName
<1>5. ASSUME VendorConflict(r)
      PROVE  Kept
  BY <1>1, <1>0, <1>5, GoesKeeps DEF VendorConflict, At, PlainPhases, Phases
<1>6. ASSUME VendorRejects(r)
      PROVE  Kept
  BY <1>1, <1>6, AnswersKeeps DEF VendorRejects
<1>7. ASSUME RecoverList(r)
      PROVE  Kept
  BY <1>1, <1>0, <1>7, AnswersKeeps, GoesKeeps DEF RecoverList, At, PlainPhases, Phases
<1>8. ASSUME RecoverFind(r)
      PROVE  Kept
  <2>1. CASE ClosesAndAnswers(r, "failed", "conflict")
    BY <1>1, <2>1, AnswersKeeps
  <2>2. ASSUME NEW k \in Keys, Live(k),
               Becomes(r, [req[r] EXCEPT !.kind = "recover", !.pc = "record",
                                         !.key = k, !.recovered = TRUE])
        PROVE  Kept
    <3>1. /\ req'[r] = [req[r] EXCEPT !.kind = "recover", !.pc = "record",
                                      !.key = k, !.recovered = TRUE]
          /\ \A s \in Reqs \ {r} : req'[s] = req[s]
      BY <1>1, <2>2, StepFields
    <3>2. vendor'[k].state # "absent"
      BY <1>8, <2>2 DEF RecoverFind, Live
    <3> QED
      BY <1>1, <3>1, <3>2 DEF Requests, RequestInv, KeysBound, MintedBeforeRecord, ChangePhases, SeqSeen,
       ListComplete, ListSpent, Narrowing, OwnPhases
  <2> QED
    BY <1>8, <2>1, <2>2 DEF RecoverFind, HoldsName
<1>9. ASSUME RecordRefused(r)
      PROVE  Kept
  BY <1>1, <1>0, <1>9, GoesKeeps DEF RecordRefused, At, PlainPhases, Phases
<1>10. ASSUME Recheck(r)
      PROVE  Kept
  <2>1. CASE Answers(r, "created")
    BY <1>1, <2>1, AnswersKeeps
  <2>2. ASSUME NEW p \in {"undo", "supersede"}, NEW t,
               Becomes(r, [req[r] EXCEPT !.pc = p, !.todo = t])
        PROVE  Kept
    <3>1. /\ req'[r] = [req[r] EXCEPT !.pc = p, !.todo = t]
          /\ \A s \in Reqs \ {r} : req'[s] = req[s]
      BY <1>1, <2>2, StepFields
    <3>2. /\ req'[r].pc = p /\ req'[r].kind = req[r].kind /\ req'[r].src = req[r].src
          /\ req[r].pc = "recheck"
      BY <1>1, <3>1, <1>10 DEF Requests, Recheck, At
    <3> QED
      BY <1>1, <3>1, <3>2 DEF RequestInv, KeysBound, MintedBeforeRecord, ChangePhases, SeqSeen,
       ListComplete, ListSpent, Narrowing, OwnPhases
  <2> QED
    BY <1>10, <2>1, <2>2 DEF Recheck
<1>11. Kept /\ UNCHANGED <<role, mintSeq, vendor, row>>
  BY <1>2, <1>3, <1>4, <1>5, <1>6, <1>7, <1>8, <1>9, <1>10 DEF CreateKey, RotateKey, CheckName, VendorConflict, VendorRejects, RecoverList, RecoverFind, RecordRefused, Recheck
<1> QED
  BY <1>11, QuietStep

LEMMA QuietOtherSteps ==
    ASSUME IInv, TypeOK', NEW r \in Reqs,
           \/ \E m \in Members, k \in Keys : DeleteKey(r, m, k)
           \/ \E k \in Keys : RevokeRefused(r, k)
           \/ PassDone(r)
           \/ \E m \in Members, to \in Roles \union {NoRole} : ChangeRole(r, m, to)
           \/ ReadSeq(r)
           \/ ListKeys(r)
           \/ CommitCancelled(r)
           \/ Crash(r)
    PROVE  IInv'
<1> DEFINE Kept == RequestInv(r)' /\ \A s \in Reqs \ {r} : req'[s] = req[s]
<1>1. req[r] \in Requests /\ RequestInv(r) /\ TypeOK
  BY DEF IInv, TypeOK
<1>2. ASSUME NEW m \in Members, NEW k \in Keys, DeleteKey(r, m, k)
      PROVE  Kept
  <2>1. /\ req'[r] = [req[r] EXCEPT !.kind = "delete", !.pc = "revoke", !.by = m, !.todo = {k}]
        /\ \A s \in Reqs \ {r} : req'[s] = req[s]
    BY <1>1, <1>2, StepFields DEF DeleteKey
  <2> QED
    BY <1>1, <2>1 DEF Requests, RequestInv, KeysBound, MintedBeforeRecord, ChangePhases, SeqSeen,
       ListComplete, ListSpent, Narrowing, OwnPhases
<1>3. ASSUME NEW k \in Keys, RevokeRefused(r, k)
      PROVE  Kept
  <2>1. /\ req'[r] = [req[r] EXCEPT !.todo = req[r].todo \ {k},
                                    !.refused = req[r].refused \union {k}]
        /\ \A s \in Reqs \ {r} : req'[s] = req[s]
    BY <1>1, <1>3, StepFields DEF RevokeRefused
  <2>2. /\ req'[r].pc = req[r].pc /\ req[r].pc \in Revoking /\ req'[r].kind = req[r].kind
        /\ req'[r].src = req[r].src /\ req'[r].owner = req[r].owner
        /\ req'[r].from = req[r].from /\ req'[r].to = req[r].to
        /\ req'[r].seen = req[r].seen
        /\ req'[r].todo \union req'[r].refused = req[r].todo \union req[r].refused
    BY <1>1, <2>1, <1>3 DEF Requests, RevokeRefused
  <2> QED
    BY <1>1, <2>1, <2>2, <1>3 DEF RevokeRefused, Revoking, Live, RequestInv, KeysBound, MintedBeforeRecord, ChangePhases, SeqSeen,
       ListComplete, ListSpent, Narrowing, OwnPhases
<1>4. ASSUME PassDone(r)
      PROVE  Kept
  <2>1. CASE \E o : Answers(r, o)
    BY <1>1, <2>1, AnswersKeeps
  <2>2. CASE Goes(r, "release") /\ req[r].kind = "rotate"
    BY <1>1, <2>2, GoesKeeps DEF PlainPhases, Phases
  <2>3. CASE Goes(r, "commit") /\ req[r].kind = "change" /\ req[r].refused = {}
    <3>1. /\ req'[r] = [req[r] EXCEPT !.pc = "commit"]
          /\ \A s \in Reqs \ {r} : req'[s] = req[s]
      BY <1>1, <2>3, StepFields DEF Goes
    <3>2. /\ req'[r].pc = "commit" /\ req'[r].kind = "change"
          /\ req'[r].owner = req[r].owner /\ req'[r].from = req[r].from
          /\ req'[r].to = req[r].to /\ req'[r].seen = req[r].seen
          /\ req'[r].todo = {} /\ req'[r].refused = {}
      BY <1>1, <2>3, <3>1, <1>4 DEF Requests, PassDone
    <3>3. req[r].pc = "revoke" => RequestInv(r)'
      BY <1>1, <2>3, <3>2, <1>4 DEF PassDone, Live, RequestInv, KeysBound, MintedBeforeRecord, ChangePhases, SeqSeen,
       ListComplete, ListSpent, Narrowing, OwnPhases
    <3> QED
      BY <1>1, <2>3, <3>1, <3>3, <1>4 DEF PassDone, Revoking, RequestInv, OwnPhases
  <2> QED
    BY <1>4, <2>1, <2>2, <2>3 DEF PassDone
<1>5. ASSUME NEW m \in Members, NEW to \in Roles \union {NoRole}, ChangeRole(r, m, to)
      PROVE  Kept
  <2> DEFINE p == IF RoleNarrows(role[m], to) THEN "read_seq" ELSE "commit"
  <2>1. /\ req'[r] = [req[r] EXCEPT !.kind = "change", !.owner = m,
                                    !.from = role[m], !.to = to, !.pc = p]
        /\ \A s \in Reqs \ {r} : req'[s] = req[s]
    BY <1>1, <1>5, StepFields DEF ChangeRole
  <2>2. /\ req'[r].kind = "change" /\ req'[r].owner = m /\ req'[r].from = role[m]
        /\ req'[r].to = to /\ req'[r].pc = p
    BY <1>1, <2>1 DEF Requests
  <2>3. CASE RoleNarrows(role[m], to)
    BY <2>1, <2>2, <2>3 DEF RequestInv, KeysBound, MintedBeforeRecord, ChangePhases, SeqSeen,
       ListComplete, ListSpent, Narrowing, OwnPhases
  <2>4. CASE ~RoleNarrows(role[m], to)
    BY <2>1, <2>2, <2>4 DEF RequestInv, KeysBound, MintedBeforeRecord, ChangePhases, SeqSeen,
       ListComplete, ListSpent, Narrowing, OwnPhases
  <2> QED
    BY <2>3, <2>4
<1>6. ASSUME ReadSeq(r)
      PROVE  Kept
  <2>1. /\ req'[r] = [req[r] EXCEPT !.pc = "list", !.seen = mintSeq[req[r].owner]]
        /\ \A s \in Reqs \ {r} : req'[s] = req[s]
    BY <1>1, <1>6, StepFields DEF ReadSeq
  <2>2. req[r].owner \in Members /\ req[r].kind = "change"
    BY <1>1, <1>6 DEF ReadSeq, At, RequestInv, ChangePhases
  <2>3. mintSeq[req[r].owner] \in Nat /\ mintSeq[req[r].owner] <= mintSeq[req[r].owner]
    BY <1>1, <2>2 DEF TypeOK
  <2> QED
    BY <1>1, <2>1, <2>2, <2>3, <1>6 DEF ReadSeq, Requests, RequestInv, KeysBound, MintedBeforeRecord, ChangePhases, SeqSeen,
       ListComplete, ListSpent, Narrowing, OwnPhases
<1>7. ASSUME ListKeys(r)
      PROVE  Kept
  <2> DEFINE p == IF req[r].to = NoRole THEN "principal" ELSE "revoke"
             q == req[r]
  <2>1. /\ req'[r] = [q EXCEPT !.todo = KeysToRevoke(q.owner, q.to), !.pc = p]
        /\ \A s \in Reqs \ {r} : req'[s] = req[s]
    BY <1>1, <1>7, StepFields DEF ListKeys
  <2>2. /\ req'[r].kind = q.kind /\ req'[r].owner = q.owner /\ req'[r].from = q.from
        /\ req'[r].to = q.to /\ req'[r].seen = q.seen /\ req'[r].pc = p
        /\ req'[r].todo = KeysToRevoke(q.owner, q.to) /\ req'[r].refused = q.refused
    BY <1>1, <2>1 DEF Requests
  <2>3. q.pc = "list" /\ q.kind = "change" /\ q.owner \in Members
    BY <1>1, <1>7 DEF ListKeys, At, RequestInv, ChangePhases
  <2>4. p \in {"principal", "revoke"}
    OBVIOUS
  <2>5. ListComplete(r)'
    BY <2>2, <1>7 DEF ListKeys, ListComplete, KeysToRevoke
  <2>6. SeqSeen(r)'
    BY <1>1, <2>2, <2>3, <2>4, <1>7 DEF ListKeys, RequestInv, SeqSeen
  <2> HIDE DEF p
  <2> QED
    BY <2>1, <2>2, <2>3, <2>4, <2>5, <2>6
       DEF RequestInv, KeysBound, MintedBeforeRecord, ChangePhases, ListSpent, OwnPhases
<1>8. ASSUME CommitCancelled(r)
      PROVE  Kept
  <2>1. \E o : Answers(r, o)
    BY <1>8 DEF CommitCancelled, Answers
  <2> QED
    BY <1>1, <2>1, AnswersKeeps
<1>9. ASSUME Crash(r)
      PROVE  Kept
  <2>1. /\ req'[r] = [req[r] EXCEPT !.pc = "crashed", !.todo = {}, !.gone = {}]
        /\ \A s \in Reqs \ {r} : req'[s] = req[s]
    BY <1>1, <1>9, StepFields DEF Crash
  <2> QED
    BY <1>1, <2>1, PlainPhase DEF Requests, RequestInv, KeysBound, SeqSeen, PlainPhases, Phases
<1>10. Kept /\ UNCHANGED <<role, mintSeq, vendor, row>>
  BY <1>2, <1>3, <1>4, <1>5, <1>6, <1>7, <1>8, <1>9 DEF DeleteKey, RevokeRefused, PassDone, ChangeRole, ReadSeq, ListKeys, CommitCancelled, Crash
<1> QED
  BY <1>10, QuietStep

-----------------------------------------------------------------------------
(* The steps that write a credential, a row or a role.                     *)

\* A step after which every live listed key is one that was there before.
NoNewKeys ==
    /\ \A k \in Keys : vendor'[k].state = "absent" => vendor[k].state = "absent"
    /\ \A k \in Keys : row'[k].listed => vendor'[k].state # "absent"
    /\ \A k \in Keys :
          vendor'[k].state = "live" /\ row'[k].listed =>
             /\ Live(k) /\ row[k].listed
             /\ row'[k].createdBy = row[k].createdBy
             /\ row'[k].grant = row[k].grant

LEMMA NoNewKeysStep ==
    ASSUME IInv, TypeOK', NEW r \in Reqs, UNCHANGED <<role, mintSeq>>, NoNewKeys,
           \A s \in Reqs \ {r} : req'[s] = req[s],
           RequestInv(r)'
    PROVE  IInv'
<1>1. RowsHaveCredentials' /\ LiveRowWithinRole'
  BY DEF IInv, RowsHaveCredentials, LiveRowWithinRole, Live, NoNewKeys
<1>2. NothingUnseen
  BY DEF NothingUnseen, NoNewKeys
<1>3. \A s \in Reqs \ {r} : RequestInv(s)'
  BY <1>2, OthersKeep DEF IInv
<1> QED
  BY <1>1, <1>3 DEF IInv

\* The key a mint issues has no row yet, so it adds nothing that is listed.
LEMMA IssueAddsNoListedKey ==
    ASSUME IInv, NEW r \in Reqs, NEW k \in Keys, Issue(r, k), row' = row
    PROVE  NoNewKeys /\ vendor'[k].state # "absent"
<1>1. \A j \in Keys \ {k} : vendor'[j] = vendor[j]
  BY DEF Issue, IInv, TypeOK
<1>2. vendor'[k].state = "live" /\ vendor[k].state = "absent"
  BY DEF Issue, IInv, TypeOK
<1>3. ~row[k].listed
  BY <1>2 DEF IInv, RowsHaveCredentials
<1> QED
  BY <1>1, <1>2, <1>3 DEF NoNewKeys, IInv, RowsHaveCredentials, Live

LEMMA VendorSteps ==
    ASSUME IInv, TypeOK', NEW r \in Reqs,
           (\E k \in Keys : VendorMints(r, k)) \/ VendorUnknown(r)
    PROVE  IInv'
<1>1. req[r] \in Requests /\ RequestInv(r) /\ TypeOK
  BY DEF IInv, TypeOK
<1>2. ASSUME NEW k \in Keys, VendorMints(r, k)
      PROVE  IInv'
  <2>1. /\ req'[r] = [req[r] EXCEPT !.key = k, !.pc = "record"]
        /\ \A s \in Reqs \ {r} : req'[s] = req[s]
    BY <1>1, <1>2, StepFields DEF VendorMints
  <2>2. /\ req'[r].key = k /\ req'[r].pc = "record" /\ req'[r].kind = req[r].kind
        /\ req'[r].src = req[r].src /\ req'[r].owner = req[r].owner
    BY <1>1, <2>1 DEF Requests
  <2>3. NoNewKeys /\ vendor'[k].state # "absent"
    BY <1>2, IssueAddsNoListedKey DEF VendorMints
  <2>4. RequestInv(r)'
    BY <1>1, <1>2, <2>2, <2>3 DEF VendorMints, At, RequestInv, KeysBound, MintedBeforeRecord, ChangePhases,
       SeqSeen, ListComplete, ListSpent, Narrowing, OwnPhases
  <2> QED
    BY <1>2, <2>1, <2>3, <2>4, NoNewKeysStep DEF VendorMints
<1>3. CASE Answers(r, "error") /\ UNCHANGED vendor /\ VendorUnknown(r)
  <2>1. UNCHANGED <<role, mintSeq, vendor, row>>
    BY <1>3 DEF VendorUnknown
  <2> QED
    BY <1>1, <1>3, <2>1, AnswersKeeps, QuietStep
<1>4. ASSUME NEW k \in Keys, Issue(r, k), VendorUnknown(r),
             Becomes(r, [req[r] EXCEPT !.pc = "done", !.key = k, !.outcome = "error"])
      PROVE  IInv'
  <2>1. /\ req'[r] = [req[r] EXCEPT !.pc = "done", !.key = k, !.outcome = "error"]
        /\ \A s \in Reqs \ {r} : req'[s] = req[s]
    BY <1>1, <1>4, StepFields
  <2>2. /\ req'[r].pc = "done" /\ req'[r].kind = req[r].kind
        /\ req'[r].src = req[r].src /\ req'[r].owner = req[r].owner
    BY <1>1, <2>1 DEF Requests
  <2>3. RequestInv(r)'
    BY <1>1, <2>2, PlainPhase DEF RequestInv, KeysBound, SeqSeen, PlainPhases, Phases
  <2>4. NoNewKeys /\ UNCHANGED <<role, mintSeq>>
    BY <1>4, IssueAddsNoListedKey DEF VendorUnknown
  <2> QED
    BY <2>1, <2>3, <2>4, NoNewKeysStep
<1> QED
  BY <1>2, <1>3, <1>4 DEF VendorUnknown

\* A credential that is only deleted lists nothing new.
LEMMA DeletionsAddNoKeys ==
    ASSUME IInv, row' = row, vendor' \in [Keys -> Credentials],
           \A k \in Keys : vendor'[k] = vendor[k] \/ vendor'[k].state = "deleted"
    PROVE  NoNewKeys
BY DEF NoNewKeys, IInv, RowsHaveCredentials, Live

LEMMA RevokingSteps ==
    ASSUME IInv, TypeOK', NEW r \in Reqs,
           \/ HandBack(r)
           \/ \E k \in Keys : RevokeAtVendor(r, k)
           \/ RemovePrincipal(r)
    PROVE  IInv'
<1>1. req[r] \in Requests /\ RequestInv(r) /\ TypeOK
  BY DEF IInv, TypeOK
<1>2. CASE HandBack(r)
  <2>1. RequestInv(r)' /\ \A s \in Reqs \ {r} : req'[s] = req[s]
    BY <1>1, <1>2, AnswersKeeps DEF HandBack
  <2>2. \A k \in Keys : vendor'[k] = vendor[k] \/ vendor'[k].state = "deleted"
    BY <1>1, <1>2 DEF HandBack, TypeOK, Credentials
  <2>3. NoNewKeys /\ UNCHANGED <<role, mintSeq>>
    BY <1>2, <2>2, DeletionsAddNoKeys DEF HandBack, TypeOK
  <2> QED
    BY <2>1, <2>3, NoNewKeysStep
<1>3. ASSUME NEW k \in Keys, RevokeAtVendor(r, k)
      PROVE  IInv'
  <2>1. /\ req'[r] = [req[r] EXCEPT !.todo = req[r].todo \ {k},
                                    !.gone = req[r].gone \union {k}]
        /\ \A s \in Reqs \ {r} : req'[s] = req[s]
    BY <1>1, <1>3, StepFields DEF RevokeAtVendor
  <2>2. /\ req'[r].pc = req[r].pc /\ req[r].pc \in Revoking /\ req'[r].kind = req[r].kind
        /\ req'[r].src = req[r].src /\ req'[r].owner = req[r].owner
        /\ req'[r].from = req[r].from /\ req'[r].to = req[r].to
        /\ req'[r].seen = req[r].seen /\ req'[r].todo = req[r].todo \ {k}
        /\ req'[r].refused = req[r].refused
    BY <1>1, <2>1, <1>3 DEF Requests, RevokeAtVendor
  <2>3. /\ vendor'[k].state = "deleted"
        /\ \A j \in Keys \ {k} : vendor'[j] = vendor[j]
    BY <1>1, <1>3 DEF RevokeAtVendor, TypeOK, Credentials
  <2>4. UNCHANGED <<role, mintSeq, row>>
    BY <1>3 DEF RevokeAtVendor
  <2>5. ListComplete(r)'
    BY <1>1, <2>2, <2>3, <2>4 DEF RequestInv, ListComplete, Narrowing, Live
  <2>6. RequestInv(r)'
    BY <1>1, <2>2, <2>4, <2>5 DEF Revoking, RequestInv, KeysBound, MintedBeforeRecord,
       ChangePhases, SeqSeen, ListSpent, Narrowing, OwnPhases
  <2>7. NoNewKeys
    BY <2>3, <2>4, DeletionsAddNoKeys DEF TypeOK
  <2> QED
    BY <2>1, <2>4, <2>6, <2>7, NoNewKeysStep
<1>4. CASE RemovePrincipal(r)
  <2>1. /\ req[r].pc = "principal" /\ req[r].kind = "change" /\ req[r].owner \in Members
        /\ UNCHANGED <<role, mintSeq, row>>
    BY <1>1, <1>4 DEF RemovePrincipal, At, RequestInv, ChangePhases
  <2>2. \A k \in Keys : vendor'[k] = vendor[k] \/ vendor'[k].state = "deleted"
    BY <1>1, <1>4 DEF RemovePrincipal, TypeOK, Credentials
  <2>3. NoNewKeys
    BY <2>1, <2>2, DeletionsAddNoKeys DEF TypeOK
  <2>4. CASE Goes(r, "revoke")
    <3>1. /\ req'[r] = [req[r] EXCEPT !.pc = "revoke"]
          /\ \A s \in Reqs \ {r} : req'[s] = req[s]
      BY <1>1, <2>4, StepFields DEF Goes
    <3>2. /\ req'[r].pc = "revoke" /\ req'[r].kind = "change"
          /\ req'[r].owner = req[r].owner /\ req'[r].from = req[r].from
          /\ req'[r].to = req[r].to /\ req'[r].seen = req[r].seen
          /\ req'[r].todo = req[r].todo /\ req'[r].refused = req[r].refused
      BY <1>1, <2>1, <3>1 DEF Requests
    <3>3. RequestInv(r)'
      BY <1>1, <2>1, <2>2, <3>2 DEF Live, RequestInv, KeysBound, MintedBeforeRecord,
         ChangePhases, SeqSeen, ListComplete, ListSpent, Narrowing, OwnPhases
    <3> QED
      BY <2>1, <2>3, <3>1, <3>3, NoNewKeysStep
  <2>5. CASE Becomes(r, [req[r] EXCEPT !.pc = "done", !.todo = {}, !.outcome = "error"])
    <3>1. /\ req'[r] = [req[r] EXCEPT !.pc = "done", !.todo = {}, !.outcome = "error"]
          /\ \A s \in Reqs \ {r} : req'[s] = req[s]
      BY <1>1, <2>5, StepFields
    <3>2. RequestInv(r)'
      BY <1>1, <2>1, <3>1, PlainPhase DEF Requests, PlainPhases, Phases
    <3> QED
      BY <2>1, <2>3, <3>1, <3>2, NoNewKeysStep
  <2> QED
    BY <1>4, <2>4, <2>5 DEF RemovePrincipal
<1> QED
  BY <1>2, <1>3, <1>4

LEMMA RowSteps ==
    ASSUME IInv, TypeOK', NEW r \in Reqs,
           ReleaseClaim(r) \/ \E k \in Keys : DropRow(r, k)
    PROVE  IInv'
<1>1. req[r] \in Requests /\ RequestInv(r) /\ TypeOK
  BY DEF IInv, TypeOK
<1>2. CASE ReleaseClaim(r)
  <2>1. RequestInv(r)' /\ \A s \in Reqs \ {r} : req'[s] = req[s]
    BY <1>1, <1>2, AnswersKeeps DEF ReleaseClaim
  <2>2. \A k \in Keys : /\ row'[k].listed = row[k].listed
                        /\ row'[k].createdBy = row[k].createdBy
                        /\ row'[k].grant = row[k].grant
    BY <1>1, <1>2 DEF ReleaseClaim, TypeOK, KeyRows
  <2>3. NoNewKeys /\ UNCHANGED <<role, mintSeq>>
    BY <1>2, <2>2 DEF ReleaseClaim, NoNewKeys, IInv, RowsHaveCredentials, Live
  <2> QED
    BY <2>1, <2>3, NoNewKeysStep
<1>3. ASSUME NEW k \in Keys, DropRow(r, k)
      PROVE  IInv'
  <2>1. /\ req'[r] = [req[r] EXCEPT !.gone = req[r].gone \ {k}]
        /\ \A s \in Reqs \ {r} : req'[s] = req[s]
    BY <1>1, <1>3, StepFields DEF DropRow
  <2>2. /\ req'[r].pc = req[r].pc /\ req[r].pc \in Revoking /\ req'[r].kind = req[r].kind
        /\ req'[r].src = req[r].src /\ req'[r].owner = req[r].owner
        /\ req'[r].from = req[r].from /\ req'[r].to = req[r].to
        /\ req'[r].seen = req[r].seen /\ req'[r].todo = req[r].todo
        /\ req'[r].refused = req[r].refused
    BY <1>1, <2>1, <1>3 DEF Requests, DropRow
  <2>3. \A j \in Keys : row'[j] = row[j] \/ ~row'[j].listed
    BY <1>1, <1>3 DEF DropRow, TypeOK, NoRow
  <2>4. UNCHANGED <<role, mintSeq, vendor>>
    BY <1>3 DEF DropRow
  <2>5. ListComplete(r)'
    BY <1>1, <2>2, <2>3, <2>4 DEF RequestInv, ListComplete, Narrowing, Live
  <2>6. RequestInv(r)'
    BY <1>1, <2>2, <2>4, <2>5 DEF Revoking, RequestInv, KeysBound, MintedBeforeRecord,
       ChangePhases, SeqSeen, ListSpent, Narrowing, OwnPhases
  <2>7. NoNewKeys
    BY <2>3, <2>4 DEF NoNewKeys, IInv, RowsHaveCredentials, Live
  <2> QED
    BY <2>1, <2>4, <2>6, <2>7, NoNewKeysStep
<1> QED
  BY <1>2, <1>3

\* The ranks, spelled out.
LEMMA Ranks ==
    /\ \A x \in AllRoles \union {NoRole} :
          Rank[x] \in 0..4 /\ (Rank[x] = 0 <=> x = NoRole)
    /\ \A g \in RowGrants : RankToMint[g] \in 2..5 /\ (RankToMint[g] = 5 <=> g = "unrecorded")
    /\ RankToMint["objects"] = 2 /\ RankToMint["principal"] = 2
    /\ Rank[NoRole] = 0 /\ "objects" \in RowGrants
<1>1. /\ Rank["owner"] = 4 /\ Rank["admin"] = 3 /\ Rank["member"] = 2
      /\ Rank["read_only"] = 1 /\ Rank[NoRole] = 0
  BY DEF Rank, AllRoles, NoRole
<1>2. /\ RankToMint["retention"] = 4 /\ RankToMint["bucket_admin"] = 3
      /\ RankToMint["unrecorded"] = 5 /\ RankToMint["objects"] = 2
      /\ RankToMint["principal"] = 2
  BY DEF RankToMint, RowGrants, AllGrants
<1>3. "owner" # NoRole /\ "admin" # NoRole /\ "member" # NoRole /\ "read_only" # NoRole
  BY DEF NoRole
<1>4. \A x \in AllRoles \union {NoRole} : Rank[x] \in 0..4 /\ (Rank[x] = 0 <=> x = NoRole)
  BY <1>1, <1>3 DEF AllRoles
<1>5. \A g \in RowGrants : RankToMint[g] \in 2..5 /\ (RankToMint[g] = 5 <=> g = "unrecorded")
  BY <1>2 DEF RowGrants, AllGrants
<1> QED
  BY <1>1, <1>2, <1>4, <1>5 DEF RowGrants, AllGrants

\* A role that may mint a grant is entitled to the row its mint writes.
LEMMA MinterIsEntitled ==
    ASSUME NEW x \in AllRoles \union {NoRole}, NEW g \in RowGrants, CanRoleHoldKey(x, g)
    PROVE  Entitled(x, g) /\ Entitled(x, "unrecorded")
<1>1. Rank[x] \in 0..4 /\ (Rank[x] = 0 <=> x = NoRole) /\ RankToMint[g] \in 2..5
  BY Ranks
<1> QED
  BY <1>1, Ranks DEF CanRoleHoldKey, Entitled, Retained

\* A role is entitled to whatever a lesser one is.
LEMMA WiderIsEntitled ==
    ASSUME NEW x \in AllRoles \union {NoRole}, NEW y \in AllRoles \union {NoRole},
           NEW g \in RowGrants, Entitled(x, g), ~RoleNarrows(x, y)
    PROVE  Entitled(y, g)
<1>1. /\ Rank[x] \in 0..4 /\ (Rank[x] = 0 <=> x = NoRole)
      /\ Rank[y] \in 0..4 /\ (Rank[y] = 0 <=> y = NoRole) /\ RankToMint[g] \in 2..5
  BY Ranks
<1>2. Rank[y] >= Rank[x]
  BY <1>1 DEF RoleNarrows
<1> QED
  BY <1>1, <1>2, Ranks DEF CanRoleHoldKey, Entitled, Retained

\* What a role retains it is entitled to, and a user without one is entitled to nothing.
LEMMA RetainedIsEntitled ==
    ASSUME NEW x \in AllRoles \union {NoRole}, NEW g \in RowGrants
    PROVE  (Retained(x, g) => Entitled(x, g)) /\ ~Entitled(NoRole, g)
<1>1. /\ Rank[x] \in 0..4 /\ RankToMint[g] \in 2..5
      /\ (RankToMint[g] = 5 <=> g = "unrecorded")
  BY Ranks
<1> QED
  BY <1>1, Ranks DEF CanRoleHoldKey, Entitled, Retained

\* The one transaction that lists a key bumps its owner's sequence and lists it
\* within the role that sequence guards.
LEMMA WriteMintStep ==
    ASSUME IInv, TypeOK', NEW r \in Reqs, req[r].pc = "record", MayRecord(r),
           WriteMint(r), UNCHANGED <<role, vendor>>,
           \A s \in Reqs \ {r} : req'[s] = req[s],
           RequestInv(r)'
    PROVE  IInv'
<1> DEFINE q == req[r]
<1>1. req[r] \in Requests /\ TypeOK /\ KeysBound(r) /\ MintedBeforeRecord(r)
  BY DEF IInv, TypeOK, RequestInv
<1>2. q.key \in Keys /\ vendor[q.key].state # "absent"
  BY <1>1 DEF KeysBound, MintedBeforeRecord
<1>3. row'[q.key] = MintedRow(r)
  BY <1>2 DEF WriteMint, RowsRecorded
<1>4. ASSUME NEW k \in Keys, k # q.key
      PROVE  /\ row'[k].listed = row[k].listed
             /\ row'[k].createdBy = row[k].createdBy
             /\ row'[k].grant = row[k].grant
  <2>1. row[k] \in KeyRows
    BY <1>1 DEF TypeOK
  <2>2. row'[k] = row[k] \/ row'[k] = [row[k] EXCEPT !.replacedBy = q.key]
    BY <1>4 DEF WriteMint, RowsRecorded
  <2> QED
    BY <2>1, <2>2 DEF KeyRows
<1>5. /\ row'[q.key].createdBy = q.owner
      /\ row'[q.key].grant \in {q.grant, "unrecorded"}
  BY <1>3 DEF MintedRow
<1>6. ASSUME NEW m \in Members
      PROVE  mintSeq'[m] = IF m = q.owner THEN mintSeq[m] + 1 ELSE mintSeq[m]
  BY <1>1, <1>6 DEF WriteMint, TypeOK
<1>7. NothingUnseen
  BY <1>4, <1>5, <1>6 DEF NothingUnseen, Live
<1>8. \A s \in Reqs \ {r} : RequestInv(s)'
  BY <1>7, <1>1, OthersKeep DEF IInv
<1>9. RowsHaveCredentials'
  BY <1>2, <1>4 DEF IInv, RowsHaveCredentials
<1>10. LiveRowWithinRole'
  <2> SUFFICES ASSUME NEW k \in Keys, Live(k), row'[k].listed,
                      row'[k].createdBy \in Members
               PROVE  Entitled(role[row'[k].createdBy], row'[k].grant)
    BY DEF LiveRowWithinRole, Live
  <2>1. CASE k = q.key
    <3>1. role[q.owner] \in AllRoles \union {NoRole} /\ q.grant \in RowGrants
      BY <1>1, <1>5, <2>1, ConstantsAssumption DEF TypeOK, Requests
    <3>2. CanRoleHoldKey(role[q.owner], q.grant)
      BY DEF MayRecord
    <3> QED
      BY <3>1, <3>2, <2>1, <1>5, MinterIsEntitled
  <2>2. CASE k # q.key
    BY <2>2, <1>4 DEF IInv, LiveRowWithinRole
  <2> QED
    BY <2>1, <2>2
<1> QED
  BY <1>8, <1>9, <1>10 DEF IInv

LEMMA RecordSteps ==
    ASSUME IInv, TypeOK', NEW r \in Reqs, Record(r) \/ RecordUnknown(r)
    PROVE  IInv'
<1>1. req[r] \in Requests /\ RequestInv(r) /\ TypeOK
  BY DEF IInv, TypeOK
<1>2. /\ req[r].pc = "record" /\ req[r].key \in Keys
      /\ req[r].kind = "rotate" => req[r].src \in Keys
      /\ req[r].kind = "change" => req[r].owner \in Members
  BY <1>1 DEF Record, RecordUnknown, At, RequestInv, KeysBound, SeqSeen
<1>3. ASSUME NEW o, Becomes(r, [req[r] EXCEPT !.pc = "done", !.outcome = o,
                                              !.intent = "succeeded"])
      PROVE  RequestInv(r)' /\ \A s \in Reqs \ {r} : req'[s] = req[s]
  <2>1. /\ req'[r] = [req[r] EXCEPT !.pc = "done", !.outcome = o, !.intent = "succeeded"]
        /\ \A s \in Reqs \ {r} : req'[s] = req[s]
    BY <1>1, <1>3, StepFields
  <2> QED
    BY <1>1, <1>2, <2>1, PlainPhase DEF Requests, PlainPhases, Phases
<1>4. CASE Record(r)
  <2>1. CASE Becomes(r, [req[r] EXCEPT !.pc = "done", !.outcome = "conflict",
                                       !.intent = "succeeded"])
    BY <1>2, <1>3, <1>4, <2>1, WriteMintStep DEF Record
  <2>2. CASE Becomes(r, [req[r] EXCEPT !.pc = "recheck", !.intent = "succeeded"])
    <3>1. /\ req'[r] = [req[r] EXCEPT !.pc = "recheck", !.intent = "succeeded"]
          /\ \A s \in Reqs \ {r} : req'[s] = req[s]
      BY <1>1, <2>2, StepFields
    <3>2. /\ req'[r].pc = "recheck" /\ req'[r].kind = req[r].kind
          /\ req'[r].key = req[r].key /\ req'[r].src = req[r].src
      BY <1>1, <3>1 DEF Requests
    <3>3. req[r].kind # "change"
      BY <1>1, <1>2, <1>4, <3>2 DEF RequestInv, OwnPhases
    <3>4. RequestInv(r)'
      BY <1>2, <3>2, <3>3 DEF RequestInv, KeysBound, MintedBeforeRecord, ChangePhases,
         SeqSeen, ListComplete, ListSpent, Narrowing, OwnPhases
    <3> QED
      BY <1>2, <1>4, <3>1, <3>4, WriteMintStep DEF Record
  <2> QED
    BY <1>4, <2>1, <2>2 DEF Record
<1>5. CASE RecordUnknown(r)
  <2>1. CASE WriteMint(r) /\ MayRecord(r) /\
             Becomes(r, [req[r] EXCEPT !.pc = "done", !.intent = "succeeded",
                                       !.outcome = "error"])
    <3>1. /\ req'[r] = [req[r] EXCEPT !.pc = "done", !.intent = "succeeded", !.outcome = "error"]
          /\ \A s \in Reqs \ {r} : req'[s] = req[s]
      BY <1>1, <2>1, StepFields
    <3>2. RequestInv(r)'
      BY <1>1, <1>2, <3>1, PlainPhase DEF Requests, PlainPhases, Phases
    <3> QED
      BY <1>2, <1>5, <2>1, <3>1, <3>2, WriteMintStep DEF RecordUnknown
  <2>2. CASE Answers(r, "error") /\ UNCHANGED <<mintSeq, row>>
    BY <1>1, <1>5, <2>2, AnswersKeeps, QuietStep DEF RecordUnknown
  <2> QED
    BY <1>5, <2>1, <2>2 DEF RecordUnknown
<1> QED
  BY <1>4, <1>5

\* A role is written only over keys it may keep.
LEMMA CommitStep ==
    ASSUME IInv, TypeOK', NEW r \in Reqs, CommitChange(r)
    PROVE  IInv'
<1> DEFINE m == req[r].owner
           x == req[r].from
           y == req[r].to
<1>1. req[r] \in Requests /\ RequestInv(r) /\ TypeOK
  BY DEF IInv, TypeOK
<1>2. /\ req[r].pc = "commit" /\ req[r].kind = "change" /\ m \in Members
      /\ role[m] = x /\ SeqUnmoved(r) /\ UNCHANGED <<mintSeq, vendor, row>>
  BY <1>1 DEF CommitChange, At, RoleUnmoved, RequestInv, ChangePhases
<1>3. /\ x \in AllRoles \union {NoRole} /\ y \in AllRoles \union {NoRole}
      /\ role' = [role EXCEPT ![m] = y]
  BY <1>1, ConstantsAssumption DEF CommitChange, Requests
<1>4. ASSUME NEW k \in Keys, Live(k), row[k].listed, row[k].createdBy = m
      PROVE  Entitled(y, row[k].grant)
  <2>1. row[k].grant \in RowGrants
    BY <1>1 DEF TypeOK, KeyRows
  <2>2. CASE RoleNarrows(x, y)
    <3>1. mintSeq[m] = req[r].seen /\ req[r].todo = {} /\ req[r].refused = {}
      BY <1>1, <1>2, <2>2 DEF SeqUnmoved, RequestInv, ListSpent, Narrowing
    <3>2. Retained(y, row[k].grant)
      BY <1>1, <1>2, <1>4, <2>2, <3>1 DEF RequestInv, ListComplete, Narrowing
    <3> QED
      BY <1>3, <2>1, <3>2, RetainedIsEntitled
  <2>3. CASE ~RoleNarrows(x, y)
    <3>1. Entitled(x, row[k].grant)
      BY <1>2, <1>4 DEF IInv, LiveRowWithinRole
    <3> QED
      BY <1>3, <2>1, <2>3, <3>1, WiderIsEntitled
  <2> QED
    BY <2>2, <2>3
<1>5. LiveRowWithinRole' /\ RowsHaveCredentials'
  BY <1>1, <1>2, <1>3, <1>4 DEF IInv, LiveRowWithinRole, RowsHaveCredentials, Live, TypeOK
<1>6. RequestInv(r)' /\ \A s \in Reqs \ {r} : req'[s] = req[s]
  BY <1>1, AnswersKeeps DEF CommitChange
<1>7. NothingUnseen
  BY <1>2 DEF NothingUnseen, Live
<1>8. \A s \in Reqs \ {r} : RequestInv(s)'
  BY <1>1, <1>6, <1>7, OthersKeep DEF IInv
<1> QED
  BY <1>5, <1>6, <1>8 DEF IInv

\* Whoever joins has no live key to be measured against the role.
LEMMA JoinStep ==
    ASSUME IInv, TypeOK', NEW m \in Members, NEW x \in Roles, Join(m, x)
    PROVE  IInv'
<1>1. \A k \in Keys : ~(Live(k) /\ row[k].listed /\ row[k].createdBy = m)
  <2> SUFFICES ASSUME NEW k \in Keys, Live(k), row[k].listed, row[k].createdBy = m
               PROVE  FALSE
    OBVIOUS
  <2>1. row[k].grant \in RowGrants /\ Entitled(NoRole, row[k].grant)
    BY DEF IInv, TypeOK, KeyRows, LiveRowWithinRole, Join
  <2> QED
    BY <2>1, RetainedIsEntitled
<1>2. LiveRowWithinRole' /\ RowsHaveCredentials'
  BY <1>1 DEF IInv, TypeOK, LiveRowWithinRole, RowsHaveCredentials, Live, Join
<1>3. NothingUnseen /\ req' = req
  BY DEF NothingUnseen, Live, Join
<1>4. \A s \in Reqs : RequestInv(s)'
  BY <1>3, OthersKeep DEF IInv
<1> QED
  BY <1>2, <1>4 DEF IInv

LEMMA IInvInit == Init => IInv
<1> SUFFICES ASSUME Init
             PROVE  IInv
  OBVIOUS
<1> USE ConstantsAssumption DEF Init
<1>1. NoCredential \in Credentials
  BY DEF NoCredential, Credentials, AllGrants
<1>2. NoRow \in KeyRows
  BY DEF NoRow, KeyRows, RowGrants
<1>3. IdleRequest \in Requests
  <2>1. "none" \in Kinds /\ "idle" \in Phases /\ "none" \in Intents /\ "none" \in Outcomes
           /\ "unrecorded" \in RowGrants /\ 0 \in Nat
    BY DEF Kinds, Phases, Intents, Outcomes, RowGrants
  <2> QED
    BY <2>1 DEF IdleRequest, Requests
<1>4. TypeOK
  BY <1>1, <1>2, <1>3 DEF TypeOK
<1>5. RowsHaveCredentials /\ LiveRowWithinRole
  BY DEF RowsHaveCredentials, LiveRowWithinRole, Live, NoRow, NoCredential
<1>6. \A r \in Reqs : RequestInv(r)
  BY DEF IdleRequest, RequestInv, KeysBound, MintedBeforeRecord, ChangePhases,
     SeqSeen, ListComplete, ListSpent, Narrowing, OwnPhases
<1> QED
  BY <1>4, <1>5, <1>6 DEF IInv

LEMMA IInvStep ==
    ASSUME IInv, [Next]_vars
    PROVE  IInv'
<1>1. TypeOK'
  BY TypeStep DEF IInv, RequestInv
<1>2. ASSUME NEW r \in Reqs, MintStep(r)
      PROVE  IInv'
  BY <1>1, <1>2, QuietMintSteps, VendorSteps, RecordSteps, RevokingSteps, RowSteps
     DEF MintStep
<1>3. ASSUME NEW r \in Reqs, RevokeStep(r)
      PROVE  IInv'
  BY <1>1, <1>3, QuietOtherSteps, RevokingSteps, RowSteps DEF RevokeStep
<1>4. ASSUME NEW r \in Reqs, ChangeStep(r)
      PROVE  IInv'
  BY <1>1, <1>4, QuietOtherSteps, RevokingSteps, CommitStep DEF ChangeStep
<1>5. ASSUME NEW r \in Reqs, Crash(r)
      PROVE  IInv'
  BY <1>1, <1>5, QuietOtherSteps
<1>6. CASE UNCHANGED vars
  BY <1>6 DEF vars, IInv, TypeOK, RowsHaveCredentials, LiveRowWithinRole, Live,
     RequestInv, KeysBound, MintedBeforeRecord, ChangePhases, SeqSeen, ListComplete,
     ListSpent, Narrowing, OwnPhases
<1> QED
  BY <1>1, <1>2, <1>3, <1>4, <1>5, <1>6, JoinStep DEF Next

-----------------------------------------------------------------------------
(* The theorems.                                                           *)

\* The inductive invariant holds in every reachable state: what the listing of
\* a narrowing (reviewKeysForRoleChange) knows stays true until its commit.
THEOREM InductiveInvariant == Spec => []IInv
<1>1. IInv /\ [Next]_vars => IInv'
  BY IInvStep
<1> QED
  BY IInvInit, <1>1, PTL DEF Spec

\* Every variable keeps its type, for any members, keys and faults.
THEOREM TypeCorrect == Spec => []TypeOK
<1>1. IInv => TypeOK
  BY DEF IInv
<1> QED
  BY InductiveInvariant, <1>1, PTL

\* No live key ever exceeds the role its owner holds, for any number of members,
\* keys and concurrent requests and whatever fails: the promise
\* commitAfterRevokingKeys documents, which rests on the mint-sequence fence.
THEOREM KeysStayWithinRole == Spec => []LiveRowWithinRole
<1>1. IInv => LiveRowWithinRole
  BY DEF IInv
<1> QED
  BY InductiveInvariant, <1>1, PTL
=============================================================================
