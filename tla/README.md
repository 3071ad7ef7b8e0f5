# Fil One: TLA+ models of the backend

Fil One is a console for S3-compatible storage. Its backend
(`packages/backend/src`) is a set of AWS Lambda handlers and scheduled jobs
over DynamoDB tables (OrgTable, UserInfoTable, AuditTable and others), Stripe, Auth0
and several storage vendors (Aurora, FTH, Forge) reached through one
orchestrator interface. There are no locks and no long-lived process: a request
is a sequence of awaited calls, any two requests interleave between their
calls, a Lambda may die after any of them, and what keeps the data right is the
condition each DynamoDB transaction carries. These modules model that.

## 1. Inventory

| Part | State | Operations | What is hard |
|---|---|---|---|
| Access keys | credentials at the vendor; key rows; each member's mint sequence; audit intents | create, rotate, delete, duplicate recovery; the revocations a role change makes | vendor first, row second; a role narrowing races a mint; vendors refuse; a write's answer is lost |
| Membership | canonical and inverse membership rows; META row with the owner counter | change role, remove, leave, transfer ownership, accept | the last-Owner guard under races; sweeps of invitations; roles read before they are written |
| Invitations | invitation and token rows; an address claim per address | invite, replace, revoke, accept, expire | single use; replacement; accept against revoke, removal and demotion |
| Owner-count recount | nothing of its own | scheduled Scan, recount, repair | a paged read that sees a transaction half applied |
| Account deletion | challenge, deletion record, fence on the profile | request code, confirm, worker passes, sweeper | overlapping re-entrant passes; survivors of several organizations |
| Billing | subscription row, trial claim, Stripe objects, event queue and marks, the tenants' status | activate, set up, webhook events, grace enforcement, lazy lapse, manual billing | late, repeated and redriven events; six writers that read the row ahead of writing it |
| Tenant setup | setup status per vendor | re-entrant setup steps, the fence | a setup racing the deletion of its organization |
| Bulk delete jobs | job row with its cursor, FIFO queue, dead letters | create, worker deliveries, watchdog | redelivery of a walk half done, hand-offs, kills, lost answers |
| RAG indexer | enablement, checkpoint and manifest rows; the vector index of each bucket | dispatch, walk a bucket, remove what is gone, toggle, purge | objects that change under a walk; walks cut off and resumed; two workers on one bucket; a toggle or a teardown meanwhile |
| Usage reporting | none durable | fan-out, report, trial limits | duplicate reports; a payload older than the row |
| Audit log | events; two-phase correlations | commitAudited, twoPhaseAudit, query | an intent with no completion |
| Sessions and middleware | cookies, identity row, home organization | callback, refresh, membership snapshot | a snapshot older than the write it authorizes |

The parts meet in few places. Membership changes call the keys part before they
write (`lib/commit-after-revoking-keys.ts`) and sweep invitations in the same
transaction; accepting an invitation is the only way a role appears; deletion
fences everything else through the organization's profile row, and billing asks
that fence before it charges, ends or meters an organization; a customer deleted
in Stripe starts a deletion; the enforcer, the event worker, an activation and
the usage report all set the status of the same tenants; the audit log is written
in every transaction and, for mints, ahead of the vendor.

For each part, what makes it correct:

* keys: a key never outlives the role that could mint it; no invisible orphan;
  one replacement per key; a refused rotation can be retried;
* membership: an organization never loses its last Owner; the counter is exact;
  the repair never makes it worse and does repair it;
* invitations: used once; dead after a committed sweep; one per address;
* deletion: a spent code means a record; teardown finishes and leaves nobody
  listed; nothing of a survivor is torn down, and every survivor has a home;
* billing: an acknowledged event is handled; late and repeated events do no
  harm; what operators and deletions took is theirs; a grace period has the right
  length and ends; one trial per identity;
* bulk delete: what is reported completed is gone; nothing is deleted for a
  member who may not; every job has an outcome;
* RAG indexer: nothing still in a bucket is removed from its index; what a walk
  skips is indexed; the index catches up; nothing is left of a deleted
  organization;
* tenant setup: progress under redelivery, nothing repeated with effect,
  nothing done for a deleted organization.

## 2. Modules

| Module | What it is |
|---|---|
| `MemberKeys` | keys against membership changes: one record per HTTP request, one action per call it makes |
| `MCMemberKeys` | its instances: two members, three requests, three keys |
| `MemberKeysProofs` | its inductive invariant and two theorems |
| `MemberKeysRotationProofs` | orphans, rotations and their claims: three more invariants and theorems |
| `OwnerSeats` | the abstract promise of an organization's Owners |
| `OrgMembership` | members, owner counter, invitations and the recount of one organization |
| `MCOrgMembership` | its instances |
| `OrgMembershipProofs` | its invariants, and the proof that it implements `OwnerSeats` |
| `OrgInvitationProofs` | sweeps, links and the settling of invitations: an invariant and three theorems |
| `AccountDeletion` | organizations deleted by overlapping passes, against the requests that move, join and found |
| `MCAccountDeletion` | its instances |
| `AccountDeletionProofs` | its inductive invariants and six theorems |
| `Billing` | one organization's subscription row, the events about it, everything else that writes it, and its tenants' status |
| `MCBilling` | its instances: the trial and the subscription after it |
| `BillingProofs` | its invariants and five theorems |
| `BulkDelete` | bulk-delete jobs over one bucket: request, queue, worker, watchdog |
| `MCBulkDelete` | its instances |
| `BulkDeleteProofs` | its invariants and five theorems |
| `RagIndexer` | the vector index of one bucket: walks, objects that change, toggles, the purge |
| `MCRagIndexer` | its instances |
| `RagIndexerProofs` | its invariants and four theorems |

### MemberKeys

`vendor` is what the storage vendor holds, `row` the key rows of UserInfoTable,
`role` the canonical membership rows, `mintSeq` the counters of
`lib/access-key-mint-seq.ts`, `req` the requests.

* `CreateKey`, `CheckName`, `VendorMints`/`VendorConflict`/`VendorRejects`/
  `VendorUnknown`, `Record`/`RecordRefused`/`RecordUnknown`, `HandBack`,
  `Recheck` are the calls of `handlers/create-access-key.ts` and
  `lib/key-mint.ts` in their order. The permission checks before the first
  call that matters are one guard. `RecoverList` and `RecoverFind` are
  `recoverDuplicateKey`.
* `RotateKey` enters the same mint with a source key; `SourceUnclaimed` is the
  claim in its transaction; `Recheck` goes on to revoke the source
  ("supersede") or to discard the replacement ("undo"), then `ReleaseClaim`.
* `RevokeAtVendor`, `RevokeRefused`, `DropRow` are `revokeAccessKey` for one key
  of a pass that runs its keys in parallel; `PassDone` is what the caller of
  the pass does with the outcome.
* `ChangeRole`, `ReadSeq`, `ListKeys`, `RemovePrincipal`, the pass,
  `CommitChange`/`CommitCancelled` are a membership change. The last-Owner guard
  and the invitations are in `OrgMembership`: here any member may get any role,
  which is more than the code allows and so covers it.
* `Contends` lets DynamoDB cancel a transaction that another in flight touches;
  `Crash` drops a request between two calls.

Grants are ordered by the least role that mints them, which is all the capability
matrix says of a key: `RankToMint`. A key name is a model value. A row that
records no grant ("unrecorded") is what a recovery writes for a service key.

### OrgMembership

`role`, `meta` (existence, counter, revision), `invite` (with the token, whose
row moves with the status), `claim`, `req` and `checker`. Each request is: the
reads in their order, one transaction, the answer. `DeltaFor`/`CountItem` are
the counter item every owner-set transaction carries. `ListInvitations` and
`ReadClaim` are the two reads `create-invitation.ts` sends together, so they are
answered in either order. `ReadSweep` merges the read of the invitations with
the read of the counter ahead of the keys: the second only refuses earlier what
the transaction's condition would refuse. The keys pass in between is
`MemberKeys`. `StartRecount`, `ReadRow`, `Repair` are `recountOrg` and
`applyRepair`; a page may end anywhere, so rows are read one at a time.

A person has one address, so an address is a user. A request that dies is one
that takes no further step.

### AccountDeletion

Here it is the fence between organizations that matters, so there are several
of them and memberships have no roles. `orgs`, `fenced` and `deletion` are the
PROFILE and DELETION rows, `member` and `inverse` the two rows of a membership
(`lib/org-membership.ts`), `identity` and `profile` the two rows that name an
account's home, `auth0` the users at the identity provider. An account is
`<<sub, n>>`, the n-th account of that subject, because a person who rejoins
gets a new account under the sub of the old one. `slipped` is history: the people
whose acceptance landed without the fence of a home that was being deleted.

* `CommitDeletion` is the transaction of `lib/deletion-confirm-transaction.ts`,
  whether an administrator or Stripe asked for it. `StartPass` is `beginPass`
  and `raiseFence`, for the invoke at confirm, Lambda's retries and the sweeper
  alike: all of them look at the record only, and there is no lock.
* A pass is `jobs/account-deletion-worker.ts` in the order of its calls:
  `ListMembers`, a `CensusMember` per member (`lib/deletion-targets.ts`),
  `MoveIdentity`/`MoveProfile` or `ReadPointers`/`MoveToFloor` per survivor,
  `CheckIdentity`/`DeleteAuth0User` and `ScrubIdentity` per account that ends,
  `ReadRows`, `DestroyInverse`, `DestroyRow`, `MarkDone`. Members of one stage
  are taken in any order. `PassFails` may come after any call and the next pass
  starts over with a census of what is left.
* `SignIn` is `resolveHomeOrg`, `SignInAgain`/`JoinAnew` the rejoining of a
  deleted account (`lib/identity-tombstone.ts`), `ReadAccepter`/`Accept`,
  `CreateOrg` and `Remove` the three handlers, and `Plan`/`ReadHome`/
  `CommitMove` the home move (`lib/home-org-move.ts`) that a removal and a
  sign-in after a deletion share. Each writes in one transaction, under the
  conditions it states. `ReadAccepter` may fail: `readUserProfile` swallows it and
  the acceptance commits with the fence of the inviting organization only.

The membership of `OrgMembership` and that of this module are the same rows,
seen for different questions: there the roles and the counter of one
organization that stays, here who belongs where while organizations go.

### Billing

`row` is the SUBSCRIPTION item, `ended` whether it has a `canceledAt`; `deletion`
is the organization's fence and scrub, as far as billing sees them; `tenant` the
status of the tenant in each region. `stripe`, `gone`, `charged` and `sent` are
Stripe's side, `marks`, `queued`, `handled` and `parked` where an event is, and
`proc` holds one record per writer: the worker, the enforcer, a request, the
usage report, an activation.

* `TrialLapses`, `Cancels`, `PaymentFails`, `Authenticates`, `CustomerGoes` are
  what Stripe does of itself or for its admins; each has an event. An event stays
  in `sent`, so it comes late, in any order, and until it is marked.
* `Receive` is `handlers/stripe-webhook.ts`: enqueue, then the mark, which is
  best effort. `Take`, `Handled` and `Again` are the FIFO queue, which has one
  event of a customer in flight and receives a failed one again up to its limit;
  `Redrive` is an operator putting back what was parked.
* `Update` is `handleSubscriptionUpdate`, one conditional write. `Superseded`,
  `Stored`, `WriteGrace` are the calls of `handleSubscriptionDeleted` in their
  order, `Close` the deletion it and `customer.deleted` start.
  `StartDeletionFromStripe` never throws: a commit that fails is logged, and the
  event is handled with no deletion and nothing that retries it. `Meter` calls it too.
* `Syncing`, `Probe`, `SetTenant`, `SyncFails`, `Synced` are
  `syncTenantStatusInProvisionedRegions`, which four of the writers call: each
  region is probed and updated on its own, and in parallel.
* `Enforce`, `EnforcerSynced`, `Cancel` are the daily enforcer of grace periods;
  `FindLapsed`, `Lapse` the lazy transition in `middleware/subscription-guard.ts`
  and `handlers/get-billing.ts`; `Activate`, `Create`, `EndTrial`, `Refused`,
  `Save`, `ActivationSynced` an activation; `ScanUsage`, `Meter`, `UsageSynced`
  the usage fan-out; `BillManually`, `EndManualBilling` the operators' script;
  `ConfirmDeletion`, `Scrub` the ends of a teardown, whose fence, deleted customer
  and scrubbed row are three steps.

The time is a day. `Window` counts from when Stripe ended the subscription,
as the code does; `Tick` moves the day only while no invocation runs, which is
what a day is to a Lambda of a minute. Two events that say the same of the same
subscription are one.

### BulkDelete

`row` is the job row, `bucket` the keys that have an object, `queue` the messages
of a job's group with how often each was received, `used` the deduplication ids
the queue has seen, `letters` its dead letters. `fresh` and `late` are history.

* `Submit`, `EnqueueFirst`, `FailUnqueued` are
  `handlers/create-bulk-delete-job.ts`.
* `Take` to `Return` are one delivery of `jobs/bulk-delete-worker.ts`: the row is
  read once, then each page is checked, listed, deleted and recorded, until the
  listing is exhausted (`Finalize`) or the time is (`HandOff`, `Enqueue`). The
  time that is left is not in the model: after every page there may be enough or
  not.
* `Throws` is any call that fails, or that was made and lost its answer; `Caught`
  what the catch block does, by the receive count. `Dies` is a kill between any
  two calls. `Returns` is the queue: delivered again, or a dead letter.
* `FindStalled`, `FailStalled` are the watchdog, `Upload` and `Revoke` what others
  do meanwhile.

The cursor is the last key of a page, for tokens and version markers alike: what
comes after it is listed next, and what was put before it is not.

### RagIndexer

`object` is the content under each key, which is its ETag too, `vectors` the
content each chunk in the index was made from, `manifest`, `checkpoint` and `row`
the three kinds of rows of RagIndexerTable, `org` the organization's fence as the
indexer sees it. `worker` holds one record per invocation: the manifest it loaded,
where it is in the listing and what it has seen. `newest`, `absent` and `astray` are
history.

* `Dispatch` is the scan of `jobs/rag-indexer-orchestrator.ts` and the asynchronous
  invoke after it, which may come late; `ReadFence` the check
  `jobs/rag-indexer-worker.ts` makes before each bucket, consistent as its read is.
* `EnsureIndex` to `Tell` are the calls of `indexBucket` in
  `jobs/rag-indexer-helpers.ts`: `ListPage`, then per object `Pick`, `DropOld`,
  `Read`, `Upsert`, `Save` or `Forget`, then `NextPage` with the checkpoint, and
  after the last page of a walk from the first, `PickUnseen`, `RemoveChunks`,
  `RemoveEntry`; then `Clear`.
* `ObjectFails` and `RemovalFails` are the failures the code keeps to one object,
  `WalkFails` and `TellError` those it reports, `Dies` a kill, `Deadline` the end
  of the time before a page, `Expire` the checkpoint's 48 hours.
* `ReadRow` and `WriteRow` are a toggle: the row is read, and after a call to the
  vendor put back whole, under the condition that the organization is not going.
* `Fence` to `DropIndex` are the part of a teardown that purges one bucket
  (`lib/deletion-scrub.ts`); `PurgeFails` ends a pass, and the next starts with the
  scan. The pass around it is `AccountDeletion`.

The order of objects within a page is free. `ScanRows` reads the manifest with the
scan, where the code loads it a call later.

## 3. Runs

| Run | Bounds | What it shows |
|---|---|---|
| `keys_faults` | 2 members, 3 keys, 3 requests, owner/member, service keys, all faults | keys within role, orphans visible, one replacement per key |
| `keys_names` | one key name for every create, owner/read_only, principal keys too, no faults | orphans visible with duplicate recovery taking over credentials; no claim is left behind |
| `keys_recovered` | one name, no faults | **violation**: a handed-out key escapes its creator's removal |
| `org_links` | 2 people, 3 invitations, 3 requests, no recount | counter exact; `OwnerSeats` implemented; sweeps, single use, and the only order that gives two links |
| `org_settles` | 2 people, no invitations, 2 requests, counter wrong or absent, fairness, no symmetry | repairs write the truth; the counter ends right for good |
| `deletion_census` | 2 organizations, both deletable, 1 pass at a time, 2 deaths or failed reads, 2 accounts a person, accept, fairness | but for who joined past the fence of their home: nobody ended still belongs somewhere; survivors have moved; a pass deletes the Auth0 user of the account it ends and of no later one, but where a death left the old account half destroyed. A deletion is done in the end |
| `deletion_overlap` | the same with 2 passes at once, legacy rows, 1 death or failed read | survivors have moved; a late pass stamps no account but its own |
| `deletion_removals` | create and remove, 1 pass | done is empty (proved for any passes and requests) |
| `billing_payments` | the trial and one more subscription, 1 region, 1 activation, all writers, 3 days, 1 receive, 1 fault, 1 move, 2 invocations at once | an acknowledged event is kept; an unpaid trial has a short grace; a cancellation is dated once |
| `billing_ends` | no activation and no usage report; customers deleted, manual billing and back, deletions; 2 receives, 2 faults, 2 moves, 3 invocations at once, fairness | hands off manual and scrubbed rows; the queue drains; a grace period ends |
| `bulk_walks` | 1 job, 4 keys of which 1 is locked, pages of 1, 3 receives, 1 upload, 4 faults, fairness | completed means emptied; failures counted once; refusal within a page; a completion stays; every job has an outcome |
| `rag_walks` | 1 worker, 2 keys, contents of one chunk, of two and without text, pages of 1, contents do not recur, 2 puts or deletions, 1 toggle, 1 fault, teardown, fairness | what a walk skips is indexed; only what was gone is removed; no enablement row is left; the index comes to be what the bucket has |

Why the bounds are enough. Three key requests are the most any known hazard
takes: a mint, a narrowing, and one more that contends, recovers or rotates.
Two members are needed for a rotation of somebody else's key and for a recovery
by somebody else. Two roles, one that holds every grant and one that holds
none of the elevated ones, give every comparison of a role with a grant both
outcomes; `keys_names` takes read_only, the one role that keeps its
principal-bound keys without being able to mint one, which is what makes a
rotation release its claim. Two membership requests make every race on the last
Owner; the third of `org_links` accepts, sweeps or renews a link between them.
Symmetry is used on keys, slots, people and
invitations, which the specifications never compare, and not in the runs with a
liveness property. `org_settles` has no invitations: an acceptance moves the
counter as a promotion does. `org_links` leaves the recount out, whose repairs
`org_settles` checks; that a recount leaves a right counter right, with requests
and invitations around it, is proved (`OwnersCounted`). `CHECK_DEADLOCK` is off
because a slot serves one request and the system may really come to rest when all
are answered.

For the deletions, one person is enough to be ended, kept or moved: a pass
treats its members one by one and no transaction of one person touches the
pointers of another. That person starts in any organizations, joined in any
way, at home in any of them, and comes back once where `Lives` is 2. Two
organizations that are both deleted make the races between teardowns, and
founding makes others to move to. `Orgs` holds two more than at the start for
the organizations to be founded: where the pool runs out, a step that would
found one waits, which loses behaviours and not properties of those that are
left. A death of a pass may come after any of its calls. `Blocked = 0` puts the
attempts past the point where the sweeper raises its alarm, which must not keep
a pass from running. `deletion_overlap` has two deletions: with a third and a
death the code does not keep `SurvivorsHaveMoved` (below).
Passes that do not overlap keep it whatever the bounds, which is proved.

For billing, two subscriptions are the trial and the one an activation creates
after it; a third would stand to the second as the second does to the first. A
trial that ends on the first day and the graces of a day or two leave time to be
inside a grace period, at its end and past it. One receive in `billing_payments`
parks what fails at once, so that the redrive comes early; the two of
`billing_ends` make the retry. A move is what Stripe's customer or an operator
does of their own accord: one besides the lapse of the trial is a subscription
canceled, past due or authenticated, and two take an organization over and hand
it back. One region is enough for what the runs check, which speaks of all
regions or of none; `DisabledIsKept` needs no more either.

For bulk deletes, four keys in pages of one are as many pages as it takes to lose
the first, refuse the second, put an object behind the cursor and have one left;
three receives are the code's, and four faults may spend them all on one message
and still kill the watchdog it is left to, or be spread over hand-offs. Jobs share nothing but the bucket: two of them pass
too (`TwoJobs`, `LastKey = 2`, `MaxFailures = 1`).

For the RAG indexer, two keys in pages of one are a walk with a page behind it and a
page ahead, which is what a resumed walk and a removal turn on. Contents of one
chunk, of two and of none are a text that grows, one that shrinks and one that stops
being indexable; objects do not share vectors or rows. Two puts or deletions change
an object twice under a walk, or change and delete it; one fault cuts a walk off, or
fails a call of it, at any place. Two faults pass too, in more time. The schedule is every six hours and an invocation ends
after 15 minutes, so two workers meet on a bucket only when an asynchronous
invocation is delivered twice or retried late. `SkippedIsIndexed` is stated of one
worker; `OnlyTheGoneAreRemoved` is proved for any number, and holds too in an
instance of two (`TwoWorkers`, `TwoContents`, `Fresh = FALSE`, one put or deletion,
without fairness).

Fairness (`org_settles`). The recount is a scheduled job: for as long as
the service runs it is started again, and its Scan picks an organization whose
settled counter is wrong. So a recount of a counter that stays wrong is
weakly fair, and so are its reads and its repair, a loop that a Lambda runs to its
end. Requests have no fairness: a caller may stop at any point.

Fairness (`deletion_census`). The sweeper runs on a schedule and invokes the
worker for every record that is PENDING, blocked ones too, so starting a pass
is weakly fair for each organization; a worker that is not killed runs on, so
the steps of a pass are. Passes may be killed, and profile reads fail,
`MaxFailures` times in all: if every pass died, no schedule would help.

`EndedAccountsBelongNowhere`, `SurvivorsHaveMoved` and `DeletesOnlyItsOwnUser` are
stated of everybody but `slipped`. The comment of `accepterOrgFence` gives the loss
of the second fence as the price of a profile that cannot be read, and the code
pays it (below). The exception is of the person and not of the account or the
organization, because what follows moves on: a later deletion gives the ended
account a floor organization, and moves with it the identity the person came back
under. In the bounds of `deletion_census` the last two hold without the exception.

Fairness (`billing_ends`). Days pass, and Stripe ends a trial on time and delivers
an event until it is acknowledged, which is what Stripe promises. The queue hands
out what it has. The enforcer runs daily and so is fair, as are the steps of a
worker, an enforcer, a request or a usage report that has begun; failures and
deaths are bounded, since a service that fails every day ends no grace period. No
fairness is put on requests, activations, operators, deletions or redrives.
`GraceEnds` holds with no usage report and no activation in flight: an old usage
payload may set the tenants to active after the end (below), and an activation
unlocks them for good reason.

Fairness (`bulk_walks`). The queues deliver what they hold and a delivery that is
neither killed nor failed runs on; the same for the watchdog. The request has none.

Fairness (`rag_walks`). The orchestrator is a cron job and dispatches every
row that is active, so a dispatch is weakly fair; an invocation that is not killed
runs on, and so does a toggle's write. Puts, toggles and faults are bounded. A walk
with no more faults is long enough for its bucket: a bucket that never fits into
one invocation has no full walk, and what is deleted from it is never removed from
its index, which the bound on `Deadline` leaves out.

### The violation

`keys_recovered`. A mints `n` at the vendor; B asks for `n`, is told it is a
duplicate, lists and sees no row; A records its row and answers 201; B finds
A's credential, takes it for an earlier leftover and Puts its own row over
A's. The row now says B and no grant, so A's removal does not revoke it
(`create-access-key.ts`, `recoverDuplicateKey`).

Other instances, one change away from those that are kept, give these:

* `keys_recovered` with `DiscardsNoHandedOutKey`: B's transaction is cancelled
  for contention and `discardUnrecordedKey` deletes the credential at the vendor
  whose secret A's caller already holds.
* `org_links` with `OneLinkPerAddress`: the list of invitations is answered
  before another invitation to the address lands and the claim after it, so the
  claim's condition holds and nothing is swept. `TwoLinksTakeAnEarlyList`, which
  the run checks, says that this order is the only way to it.
* `deletion_census` with `Kinds` create or remove and
  `EndedAccountsBelongNowhere`: the census decides that the account ends; before
  the stamp it creates an organization, or is removed from the dying one and
  given a floor organization. Neither transaction carries a fence on the
  organization that goes; the account is ended and its new organization has an
  Owner who cannot sign in. Accepting an invitation cannot do this where the home
  is read, because `accepterOrgFence` checks it too; but:
* `deletion_census` with `EndedAccountsBelongNowhere` of everybody, `slipped` too:
  an acceptance cannot read the profile (`lib/user-profile.ts:63` swallows it) and
  commits with one fence, that of the inviting organization, after the census of
  the home has decided that the account ends. One pass, nothing overlaps and nothing
  dies; the account is ended and its new organization has a member who cannot sign in.
* the same with three deletions and `SurvivorsHaveMoved` of everybody: A ends the
  account as it joins B; the person comes back in B under a new account; the deletion
  of B moves the old account, which has nothing else, to a floor organization F, and
  the identity, which is now the new account's, with it; F is deleted and B's pass
  finds the new account's pointers in disagreement, which is logged. F lists the old
  account only and is marked done as the home of the new one.
* `deletion_census` with `Lives = 1`, two passes, no requests and
  `EndedAccountsBelongNowhere`: a member of A and B, both being deleted. One pass
  of A reads both memberships and goes on to give the member a floor
  organization; a pass of B destroys the inverse item there; a second pass of A
  takes its census now, sees A only and decides that the account ends; the first
  commits the floor organization; the second ends the account.
  `jobs/account-deletion-sweeper.ts` says that overlap is harmless.
* `deletion_census` with `Kinds` remove, three organizations and
  `HomeIsMembership`: the move checks that the destination stands, not that the
  survivor still belongs to it. With no deletion and two removals the same: one
  reads that neither pointer names its organization and so puts no condition on
  them; another moves both there; then the first commits.
* `deletion_census` with two passes and `DeletesOnlyItsOwnUser`: between
  `isIdentityReplaced` and the deletion of the user by its sub, an overlapping
  pass marks the deletion done and the person comes back under that sub.
* `deletion_census` with three organizations founded and `DeletesOnlyItsOwnUser`
  without its exception for a half destroyed account: a pass of A dies between the
  inverse items and the membership rows; the deletion of B ends the account and is
  done; a pass of A reads the row that is left, decides that the account ends and
  finds the identity as it was; the person comes back in C; the pass deletes the
  user of the new account. No passes overlap. With no deaths and no unconverted rows
  the property holds without the exception.
* `deletion_overlap` with four organizations founded, three deletions, one death and
  `SurvivorsHaveMoved`: a pass of A moves the identity to B and dies before the
  profile; B is fenced; a pass of B chooses C, which is fenced too, and reads the
  pointers for a floor organization; another pass of A moves the profile to D; the
  floor transaction fails its condition on the profile, which is logged, and B is
  marked done as the home of an account that goes on. Its next sign-in moves it.
* `keys_names` with four requests and `OneReplacement`: a create and another that
  recovers it both record the credential k; between the two a rotation claims k; the
  second record is an unconditional Put (`create-access-key.ts:440`) and takes
  the claim with it, so another rotation of k claims it too and both leave a live
  replacement. It comes of the same recovery as the violation above.
* `billing_payments` with `EndedSubscriptionsStayEnded`: the update of a first
  subscription fails and waits to be received again, its deletion is handled, a
  second subscription takes the row, and the first's update is written over it:
  `updateBillingRecord` compares the event's id with the row's, so an id that is
  not the row's writes.
* `billing_payments` with `DisabledIsKept`: the enforcer probes a tenant as active,
  the usage report disables it, the enforcer brings it to write-locked.
* `billing_payments` with "revert" among the moves and `DatedOnce`: the worker has
  read the row and settled on a date; operators take the organization over and
  hand it back, with a date of its own; the worker writes the older date.
* `rag_walks` with `ManifestListsAll`: the walk writes the vectors of a new object
  and its manifest entry fails, which is that object's failure alone; the object is
  deleted; the next walk lists nothing, its manifest has nothing to remove, and it
  reports idle. The text of the deleted object stays in the index and nothing names
  its vectors. The same happens to the last chunks of a content that a shorter one
  replaced.
* `rag_walks` with `NoIndexOutlivesTeardown`: a pass of the teardown deletes the
  manifest entries, the enablement row and the checkpoint, and the call that drops
  the index fails. The next pass scans the table for the organization's buckets,
  finds none, and marks the deletion done with the index in place.
  `docs/architectural-decisions/2026-08-self-serve-account-deletion.md` says that
  the destroyed rows go after every step that needs them, these keys among them.
* `rag_walks` with two toggles and `ToggleSparesTelemetry`: a toggle reads the row, a
  walk marks it as syncing, the toggle puts back what it read.
* `rag_walks` with `Fresh = FALSE` and `SkippedIsIndexed`: a content A is listed, B
  is put, its bytes are read and indexed under the ETag of A, A is put again and
  every later walk skips it. Two workers do it too: one has dropped an object's old
  chunks or is about to, and the other saves the entry.
* `bulk_walks` with `WorkerOwnsRow`: the enqueue of the first message times out
  and has arrived; the worker takes it up; the request puts failed over its row.

## 4. Proofs

TLAPS checks the theorems for every value of the constants under
`ConstantsAssumption` of the module.

* `MemberKeysProofs!KeysStayWithinRole`: `Spec => []LiveRowWithinRole`. The
  property is not inductive: it says nothing of a narrowing that has listed the
  keys and not yet written the role. `IInv` adds, per request: a key in hand
  belongs to who asked for it and carries what was asked (`KeysBound`,
  `MintedBeforeRecord`); a change past its read of the sequence has seen no more
  than there is (`SeqSeen`); and while the sequence has not moved since, every
  live listed key the new role could not hold is still on the change's list, or
  refused (`ListComplete`, `ListSpent`). At the commit the fence says the
  sequence has not moved and the pass says the list is spent, so nothing is left
  above the new role. That is the argument the comment in
  `lib/access-key-mint-seq.ts` makes.
* `MemberKeysRotationProofs!OrphansStayVisible`, whatever fails. `OrphanInv`: a live
  credential that no row lists is the one its own minter still has an open intent
  on. A request holds no key before it is given one (`Keyless`), its intent is open
  when it mints (`MintingIsOpen`), and the only rows that are dropped are those of
  credentials already deleted at the vendor (`GoneIsDead`).
* `MemberKeysRotationProofs!ClaimsAlwaysSettle`, where no call fails and no request
  dies (`Faults = {}`). `ClaimInv`: every claim on a row is held by a rotation that
  still has to revoke the source or give the claim up. The hypothesis is needed: a
  rotation that dies in between leaves its claim, and nothing expires it.
* `MemberKeysRotationProofs!ReplacedOnce`, where no two requests ask for one name
  (`DistinctNames`), whatever fails. `ReplacementInv`: while its replacement lives,
  a rotation that was recorded is the one its source row names (`ClaimStands`), and
  one row names one. A claim is only released after the replacement died
  (`Undone`), and no row is recorded over one that may be claimed already
  (`NotYetListed`), which is what a recovery by name does not keep (3).
* `OrgMembershipProofs!OwnersCounted`, `!OwnerSeatsImplemented`: with a counter
  that starts right (`~Drifted`), every step of a request changes the owner set
  by at most one seat, moves the counter by the same amount and moves the
  revision (lemma `OwnersStep`), so exactness is preserved and the guard
  `count > 1` is a guard on the number of Owners. Each step then maps to a step
  of `OwnerSeats` or leaves `Owners` alone.
* `OrgMembershipProofs!RepairsAreTrue`: from any counter. While the revision is
  the one the recount read, the owners counted so far are the Owners among the
  rows read (`CheckerInv`); the repair's condition says it still is.
* `OrgInvitationProofs!SweptForGood`, `!EarlyListNeeded`, `!SettledOnce`, without
  hypotheses. The first and the last rest on `Ages`: no step leads an invitation
  out of accepted or revoked, and only writing it makes it usable. For the links
  `LinkInv` says that a claim always names an invitation that was new when it was
  placed (`ClaimsPlaced`). While the claim a creation read is still held, nobody has
  written a link to that address, so a list it read after the claim has every usable
  one (`ListedAll`), and its transaction, which is conditioned on the claim, revokes
  them all. Two working links therefore take a list that was answered before the
  claim.
* `AccountDeletionProofs!DoneMeansEmpty`: `Spec => []DoneIsEmpty`, for any
  number of organizations, people, overlapping passes and requests. The heart is
  `FencedShrinks`: once the fence is up no step adds a membership row or an
  inverse item, whichever request or pass takes it. So what a pass read of the
  rows stays an upper bound of what is left (`Destroying`, one conjunct per
  stage), although other passes and removals delete rows under its hands. The
  pass deletes the inverse items of the rows it read and of its census; that
  these are all of them is `Listed`: an inverse item has a membership row, which
  in turn holds only because rows are destroyed after their inverse items.
  `Begun` and `PassesBegun` say that a pass is of a fenced organization.
* `AccountDeletionProofs!StampedByItsCensus`: `Spec => StampsOnlyItsOwn`, however
  many passes overlap. `Staged` says, stage by stage, that what a pass has left to
  do are verdicts of its own census; the stamp's condition is on the account.
* `AccountDeletionProofs!SurvivorsMove`, `!EndedBelongNowhere`, `!OwnAuth0User`,
  for any organizations, people, deletions, deaths and unconverted rows, where one
  pass is at work at a time (`OneAtATime`) and the requests it races are sign-ins,
  rejoins and acceptances (`OnlyAccepts`). Neither is something the code enforces:
  invocations and the sweeper may overlap, and people create and leave
  organizations. With either of them dropped TLC finds counterexamples (3). The
  argument is two-sided. `RowInv` is what the rows owe an account: one that goes on
  has an inverse item where its home is (`Homed`), one that has ended belongs to
  nothing but the organization that ended it (`Ended`), one that its person
  replaced belongs to nothing (`Current`), and an organization that stands has an
  inverse item for every row (`Synced`). `Running` is what a pass may rely on:
  everybody at home in the organization is among those it has still to move or to
  end (`Covers`), and a verdict stays true until it is acted on (`Sound`,
  `Movable`, `Listing`). For `OwnAuth0User` a third part says that whom the census
  named is listed in the organization until the pass reads the rows (`StillListed`),
  so an account that its person replaced has a row there and no inverse item. An
  acceptance carries the fence of the home it read (`Asked`), which is why it
  cannot land between a verdict and its stamp; one that read nothing either finds
  the home standing, before any verdict, or makes its person one of `slipped`. The
  three invariants are of the others, the properties exempt the same people, and
  `CommittingMove` covers what the moves of a slipped account may do to the rest:
  nothing, since it takes the pointers of its own person only. At the end of the
  pass `Due` is empty, so nobody is left at home there.
* `BillingProofs!AcknowledgedKept` and `!WorkerHandsOff`, from `FlowInv`: the
  worker holds an event exactly while it is busy, of the kind its stage is for, so
  an event leaves the queue only into the worker's hands and leaves those only
  handled, parked or kept. `ElsewhereSparesWorker` and `SyncSparesWorker` say that
  no other writer's step is one of the worker; what the worker writes it writes
  under the conditions of its update, whatever it read before.
* `BillingProofs!UnpaidGraceKeptShort`, where trials lapse on time and nothing is
  reverted from manual billing. `StripeInv`: every event that is sent, queued,
  parked or at the worker is backed by what Stripe did, so a subscription that was
  never charged has no event that makes the row paid, and its deletion says it
  ended by `TrialEnd`. `GraceInv`: a row whose subscription was never charged is
  then trialing, in grace, canceled or manual, with a short date, and so is the
  date the worker has settled on for it. That is why the three statuses of
  `wasTrialing` are the right ones, the last for a redriven event.
* `BillingProofs!CancellationDatedOnce`, where nothing is reverted: between the
  worker's read of the row and its write no one else gives a canceled row a date
  that is neither none nor that of a lapsed trial (`DateInv`).
* `BulkDeleteProofs!CompletedLeftNothing`, `!FailuresCounted`: `InProgress` says of
  a record that, up to its cursor, nothing is left in the bucket but what was put
  since or refuses, and that what refuses up to there is what it counted. It holds
  of every row and of the copies the delivery and the watchdog hold (`WalkInv`),
  because others only delete, or put what is fresh (`MovedKeeps`). `FlowInv` says
  that only the first message of a job is received and that a delivery is of it:
  no two deliveries of one job overlap.
* `BulkDeleteProofs!StoppedWithinAPage`: `PermitInv`, a delivery past its check is
  the only one that may still delete. `!CompletedForGood`: `RunInv`, a delivery at
  work on a row that is completed is past its last write.
* `RagIndexerProofs!GoneBeforeRemoved`, for any number of workers sharing one
  checkpoint: `WalkInv` says of a full walk that every key up to where it is has been
  seen or was absent at some time of the walk, so at the last page that is so of every
  key, and what is neither was never there. A resumed walk is not full, and removes
  nothing: that is all the checkpoint comes into.
* `RagIndexerProofs!SkippedAreIndexed`, with `OneFresh`: contents do not recur and at
  most one worker is at work. `OrderInv`: the ETag a manifest entry names is no newer
  than the object's newest content and, for the object at hand, older than the one
  listed. `BackedInv`: what the worker knows of the manifest is what is there, and
  what it is about to save is in the index. So an entry that names the present content
  was saved with the bytes of that content, and a walk that drops its chunks is one
  that listed a newer one.
* `RagIndexerProofs!RowsGo`: `RowInv`, once the teardown is past the row there is none,
  since the toggle's write is conditioned on the fence and the worker's telemetry on
  the row.
* `TypeCorrect` in the six modules.

Only model-checked: liveness (`CounterSettles`, `DeletionFinishes`, `QueueDrains`,
`GraceEnds`, `JobsSettle`, `CatchesUp`), which this prover does not reach;
`SurvivorsHaveMoved` where passes overlap, under the bounds of `deletion_overlap`.
The violation (`HandedOutKeysWithinRole`) is a counterexample, so there
is nothing to prove.

## 5. What is not modelled

* Keys: rows with no recorded creator; expiry; the tenant's readiness; region
  routing (a vendor is one namespace); the correlations a revocation opens.
* Membership: the deletion fence, inverse rows, the floor org a removal gives
  an account with none left, verified-email checks, revocations deferred
  beyond the transaction's item limit (rows older than replacement). A counter
  stored with another type than a number.
* Deletion: the emailed code with its attempts and expiry (the commit is
  modelled, not the challenge before it); the teardown of Stripe, vendor
  tenants, RAG data and rows nothing else reads; membership rows that cannot be
  decoded and members without a sub, which the code reports and skips; the time
  somebody joined, so the census may choose any live organization where the code
  takes the earliest; first sign-ups. A census of one member is one step,
  although the code lists the memberships and then reads the fences: a fence
  raised in between is caught where the move checks its destination. Overlapping
  passes are checked for `SurvivorsHaveMoved` and `StampsOnlyItsOwn`, and
  `DoneIsEmpty` and `StampsOnlyItsOwn` are proved of them; what they do to `EndedAccountsBelongNowhere` (`deletion-scrub.ts:303`) and to
  `DeletesOnlyItsOwnUser` (the gap between the check and the call,
  `deletion-scrub.ts:238`) no run catches, since the code does not keep either (3).
* Billing: the claim of a trial and the set-up of a payment method; events that
  touch only the payment method; a customer that replaced another; the drift
  checker, which only reads; the mirror in HubSpot; the script that extends a
  trial; the meter events of a usage report; rows and events without an
  organization. Two activations at once are in the module and not in a run.
* Bulk delete: versions and delete markers (a key is one object), the cap on listed
  failures, a tenant that is not ready (`permitted` covers it, since both fail the
  job on the spot), the expiry of job rows and of the deduplication window, the
  retention of dead letters. A page of several batches deletes as one. Jobs queued
  before their starter was recorded have no `startedBy` and skip the permission check
  (`bulk-delete-worker.ts:240`): `StopsWithinAPage` is of the others.
* RAG indexer: the Forge engine, which indexes Forge's buckets itself; extraction,
  chunking and embedding (a content has so many chunks, or no text); the query path,
  RAG API keys and the allowlist; the counts beside the sync state; objects without
  an ETag; the manifest's pages of a query (one read). Its reads are not consistent,
  but what they read was written by a worker that ended hours before. A call that was
  made and lost its answer is one that succeeded before another that fails. A walk
  looks at the enablement once, when it is dispatched: `lib/dynamo-records.ts` and
  `lib/bucket-rag-enablement.ts` speak of a gate per bucket in the worker, and there is
  none, so a bucket turned off in between is walked once more. A resumed walk that
  ends does not set the row to idle.
* Definitions that state what the code does not keep (`HomeIsMembership`,
  `EndedSubscriptionsStayEnded`, `DisabledIsKept`, `WorkerOwnsRow`,
  `ManifestListsAll`, `NoIndexOutlivesTeardown`, `ToggleSparesTelemetry`) are in the
  modules and in no run.
* A list is one atomic read, except in the recount, where page boundaries matter.
* The other parts of the inventory: see the plan.

## 6. Plan

1. (done) Keys against membership changes; membership, counter, invitations.
2. (done) Account deletion: the commit, passes that overlap and die, the sweeper,
   and the requests they race. Next in it: the challenge (a spent code means a
   record), and an abstract specification of one account (kept, moved or ended,
   once) with the pass shown to implement it when passes do not overlap.
3. (done) Billing: events late, repeated and redriven, against the other writers of
   the row and of the tenants' status. Next in it: trial claims and payment set-up,
   and a second region where the tenants disagree.
4. (done) Bulk delete jobs under redelivery, hand-offs and kills.
5. Onboarding: trial claims and tenant setup, re-entrant, against the deletion fence.
6. (done) The RAG indexer: walks, checkpoints and manifests, against objects that change
   and the teardown. Next in it: the Forge engine.
7. The audit log's two phases beyond the mint.
8. (done) Proofs: orphans, claims and replacements of `MemberKeys`; links and single
   use of invitations; stamps, survivors and ends of `AccountDeletion`. Next in
   them: what overlapping passes keep of `EndedAccountsBelongNowhere` when nobody
   is moved to a floor organization.
