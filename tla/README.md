# Verification of the Reqro service

Reqro takes reports from residents (a pothole, a broken light), routes them to
municipal staff, and will deliver them to the municipality's other systems. The
server is NestJS with Kysely over PostgreSQL (`src/server`), the client is React
(`src/react`). The state lives in PostgreSQL; almost everything that can go wrong
does so between two transactions, or between two statements of a transaction
that waits for a lock. These modules model the server at that grain: one action
per transaction, or per stretch of a transaction between two places where another
process may act, with the locks that exclude other actions in between.

All paths below are relative to `src/` unless they name a module of this project.

## 1. Inventory

### Connector registry
- Code: `connector-metadata.ts` and `connector-metadata.repository.ts` in
  `server/src/integration/persistence/`, `connector-capabilities.ts`, and the
  connector migrations with their triggers.
- State: `integration_connector` rows (lifecycle, capabilities, credential
  reference, two revisions) and the append-only audit rows.
- Operations: register, change lifecycle, update capabilities, rotate the
  credential reference. Each locks the row, compares the record revision the
  administrator read, and writes one audit row.
- Interactions: intents pin the *configuration revision* at enqueue; the audit row
  of that revision is the contract the intent is delivered under, forever.
- Hard: stale administrators; two revisions that advance at different rates; a pin
  that must resolve long after the connector changed.
- Correct when: no update is lost, the audit explains the row, every pin resolves
  to exactly one snapshot.

### Integration outbox and the worker functions
- Code: `persistence/outbox.repository.ts` and `delivery-contract.ts` in
  `server/src/integration/`, and the migrations that define the outbox and attempt tables,
  their guards, and `claim_integration_intent`, `mark_integration_dispatch_started` and
  `complete_integration_attempt`.
- State: outbox rows (immutable columns, delivery state, schedule), attempt rows.
- Operations: insert inside the business transaction, claim, mark, complete.
- Interactions: a producer and a claim hold the connector `FOR SHARE`; a claim
  holds its candidate `FOR UPDATE SKIP LOCKED`; unique indexes arbitrate.
- Hard: snapshots taken before a commit; workers that die anywhere; calls that
  execute late; capabilities that change while an effect is unknown.
- Correct when: ordered streams are FIFO, a claim is settled only by its claimer, an
  ambiguous delivery is never blindly repeated, the two tables agree, and the
  states follow the delivery contract.

### Submission idempotency and request creation
- Code: `server/src/service-request/create-service-request.service.ts`,
  `submission-idempotency.ts`, `submission-reservation.ts`, and the repository's
  definition lookup.
- State: requests and their child rows, reservations per client key, the Issue.
- Operations: `POST` of a submission; inside it a read of the batch, a read of the
  form, a transaction that reserves the key, shares the Issue, locks the batch and
  inserts everything.
- Interactions: attachments (the batch), Issue administration (the row lock),
  clients that retry.
- Hard: copies in flight at once, lost responses, evidence replaced between its
  check and its use, a form superseded meanwhile, waits on three kinds of lock.
- Correct when: a key creates one request, a receipt answers the submission it was
  created from, a reservation never names a request that does not exist, the
  evidence is what was verified, every call is answered.

### Request attachments
- Code: `server/src/attachments/`.
- State: batches and attachment rows in the database, objects in a private store.
- Operations: start, upload, remove, prepare, finalize, discard, cleanup, preview.
- Hard: the object is written before the row that records it; cleanup compares an
  inventory with rows; admission counters in memory and under an advisory lock.
- Correct when: no committed evidence is deleted, no object stays without owner,
  limits hold, a finalized batch never changes.

### Request workflow, assignment and ownership
- Code: `server/src/service-request/staff-actions.service.ts`,
  `internal-request-mutations.service.ts`, `request-ownership.service.ts`.
- State: the request's status and revision, assignment rows (at most one open),
  activities.
- Operations: transition, assign, unassign, transfer ownership.
- Hard: two members of staff acting on what they read; permissions that change
  while the action waits for its lock.
- Correct when: one open assignment, revision and activities tell one story,
  terminal statuses stay, authority is judged after the wait.

### Notes, requester communications, tracking credentials
- Code: `request-note.*`, `request-communication.*`, `request-tracking.*` in
  `server/src/service-request/`.
- State: notes and communications with their own submission keys and batches;
  tracking credentials by digest.
- Operations: add a note, publish, reply, issue, rotate, revoke, look up.
- Correct when: a retried note is one note, a rotated credential stops working, one
  credential per request is active.

### Access management, staff authentication, request authorization
- Code: `server/src/access/`, `server/src/auth/`,
  `server/src/service-request/request-authorization.ts`.
- State: an access state row per Organization with its authorization revision, owned
  roles, permission deltas, change sets.
- Operations: bootstrap, assign a role, change permissions, resolve authority.
- Hard: the last administrator; changes racing with mutations they should stop.
- Correct when: somebody can always administer, every change is recorded under its
  own revision, no mutation runs on authority revoked before it took its lock.

### Issue configuration, participation areas, intake settings
- Code: `server/src/admin/`, `server/src/catalog/`.
- State: service definitions with four revisions, published versions, default
  assignment, areas, settings.
- Operations: change, publish, activate, set the action, enable collection.
- Correct when: a stale editor is refused, published versions are immutable, an area
  needed by an enabled collection is not removed.

### Resident experience, tenant domains
- Code: `server/src/resident-experience/`, `server/src/tenancy/`.
- State: drafts, reviews, published versions; hostnames with verification.
- Operations: save, submit, review, publish, roll back; register, verify, activate.
- Correct when: what is published was approved by somebody else in exactly that
  revision; a hostname resolves to one Organization.

### Operator commands
- Code: `tenant-domain-operator-cli.ts` and `migration-cli.ts` in `server/src/database/`,
  and the migrations they apply.
- State: the infrastructure's own record of every command, the artifacts that carry a
  request from one person to the next; the schema and the rows it was given to.
- Hard: a job that dies between its change and its record; rows written under one
  schema and read under another; a rollback over what was recorded since.
- Correct when: every change has the record of its start, an approval has a planner and
  another approver, and the rows written so far let migrations 57 and 58 be applied and an
  unrefused rollback be done (54 and 55 may refuse what older writers left).

### AI router
- Code: `server/src/ai/`.
- State: one usage row for each call, with its audit events.
- Operations: judge a call, admit it against the quota rules, call the provider within
  its time limit, record the outcome.
- Hard: admissions at once; a process or a commit lost around the provider's answer.
- Correct when: no rule's limit is exceeded, the caller is told what the row says.

### Development tools and the disposable gate
- Code: `development-*.ts`, `mixed-access-uat.ts` and `seed-development.ts` in
  `server/src/database/`; `server/scripts/test-db-disposable.mjs`.
- State: one's own staff record, role, teams and permissions; a container, its
  volume, what was seen of both, the evidence directory.
- Operations: give oneself access and return it, prepare a fixture after a dry run, seed;
  run two tiers of tests against a database that is then removed.
- Hard: what a tool gave and what somebody else gave look the same; everything outside
  may fail or answer half.
- Correct when: the tools return exactly what they gave; the gate passes only what
  took place.

### Web client
- Code: `react/src/pages/` and `react/src/admin/`.
- State: what a screen shows, the reads and commands it awaits, the key of a submission.
- Hard: answers out of order, commands given up that still arrive, a second screen.
- Correct when: a report submitted again is recorded once; a screen shows what was asked
  for; a picked target is sent under the revision it was picked on.

### The rest
- Alerts: rows that staff create and change, little interaction.
- Notifications: pure rendering.
- Catalog, geospatial and location eligibility: reads and geometry.
- Observability, health, deployment.
- Legacy frontend under `assets/` and `pages/`: a demo without server.

`PROJECT.json` lists each component with its status, and the hazards with the line
where each bites.

## 2. Plan

The order followed importance: what loses or duplicates a resident's report or a
delivery first, then what changes a request, then what configures an Organization, then
the platform's own tools and the screens. All modules of the plan are written:

1. the connector registry, the outbox with its abstract contract, and their tables under
   their migrations;
2. the creation of requests, and attachments between two stores;
3. commands on a request, its notes and messages, the requester's link;
4. access, Issues, areas, resident experience, domains and the operators' jobs;
5. the AI router, the development tools, the disposable gate;
6. the screens: reporting, the request page and list, the resident experience's editor.

Every safety and action property that a passing run checks is also proved for all values
of the constants; the one liveness property is left to TLC. What is left: further screens
and read models, if they come to hold state that two of them contend for.

Runs stay at two or three actors and one or two contended objects: every hazard listed
is a race between two actors over one row, with a third as witness or as crash.

## 3. Modules and how they correspond to the code

| Module | Models |
| --- | --- |
| `ConnectorRegistry` | the connector and audit rows and the four mutations of `ConnectorMetadataRepository` |
| `ConnectorAdministration` | administrators who read in one transaction and submit in a later one |
| `DeliveryContract` | abstract: delivery states, transitions and capability preconditions of `delivery-contract.ts` |
| `IntegrationDelivery` | the outbox, attempts, producers, worker functions, late calls, and other writers the guard admits |
| `IntegrationMigrations` | the integration tables under migrations 52 to 58, applied and rolled back over the rows |
| `SubmissionIdempotency` | the creation transaction, its keys, batches and the Issue |
| `AttachmentStaging` | batches, uploads, removal, finalization and the cleanup over attachment rows and stored objects |
| `RequestHandling` | every command of staff on a request, its authority, the owning Unit and the activity |
| `RequestCorrespondence` | notes and messages: composer, key, files, late and lost answers |
| `RequesterTracking` | the requester's link: issued, rotated, revoked, expired, resolved in two steps |
| `AccessManagement` | configured access, its editor, bootstrap and provisioning |
| `IssueConfiguration` | an Issue's four revisions, its editor, templates and the handling endpoint |
| `IntakeSettings` | participation areas and the collection of answers |
| `ResidentExperience` | drafts, review requests, decisions, publication and rollback |
| `TenantDomains` | a hostname from registration to service, with DNS lookups outside the lock |
| `OperatorCommands` | the operators' jobs over `TenantDomains`, which it extends |
| `AiRouting` | admission, provider call and record of an AI call |
| `DevelopmentTools` | the commands that prepare a development database |
| `DisposableValidation` | one run of the disposable gate |
| `ReportPage`, `RequestPage`, `RequestList`, `ResidentEditor` | four screens of the web client |
| `MC*` | the instances TLC checks |
| `*Proofs` | theorems and proofs: of `ConnectorRegistry`, `IntegrationDelivery`, `SubmissionIdempotency`, `AttachmentStaging`; `RequestWorkProofs`, `OrganizationAdministrationProofs`, `WebClientProofs` and `PlatformProofs` (connector administration, migrations, AI calls, tools and the gate) of the modules in the composites below |

What interacts is composed by EXTENDS and shares its variables: administrators and
deliveries over the registry, the operators' jobs over the domains. The Issue, the batch
and the request are abstracted in each module to what the others can do to it there.
`MCRequestWork`, `MCOrganizationAdministration`, `MCConnectorAdministration` and
`MCWebClient` put modules that share no variable into one run: `focus`, chosen at the
start, says which of them acts, so a run is the sum of its modules and not their product.

### Connector registry
`connector[c]` is the row of `integration_connector`, `audit[c]` its audit rows in
record-revision order. `Mutate` is the common path of the three mutations: lock,
compare, update, audit, all in one transaction and so in one action; the category
decides whether the configuration revision advances. The Organization is active
throughout. The execution-policy columns are left out, since no operation of the
repository writes them. `project()` hides the credential reference from the
administrator; the view keeps the whole row, which makes `NoLostUpdate` stronger.

### Outbox and worker functions
A producer's insert and a worker's claim are split in two actions each, because both
hold the connector `FOR SHARE` between a read and a commit. `ClaimSelect` takes the
statement's snapshot (kept in `visible`) and the candidate's row lock, `ClaimCommit`
writes, or `ClaimRaise` is the unique index refusing. `Report` puts the settlement
call into `calls`; `Complete` executes any call at any later time, any number of
times, which is delay and duplication of the call at once. `Crash` forgets the
worker. The worker process is not in the repository, only the functions it will call,
so `Worker` is the most general caller: it may report before the boundary, repeat the
boundary, or vanish. Its claim token is its identity and so repeats between claims,
the weakest token a caller may choose. Intents are numbered in `(created_at, id)`
order; attempt number and claim generation coincide with the index in `attempts[i]`.

`ApiSpec` has only the functions. `Spec` adds `GuardedUpdate`: every update of an
outbox row that the table's guard, its schedule constraint and its index admit,
standing for the operator and recovery paths the documents plan. Leases, recovery of
a dead worker's claim, and retry scheduling are later slices of the documents: in the
code a claimed intent of a dead worker stays dispatching, and a transient failure
leaves a retry with no schedule.

### Submissions
A call goes through `sent`, `prepared` (batch and form read, outside the transaction),
`reserved`, `verified` (the Issue is shared), `attached` (the batch is locked) and `done`.
Uncommitted writes are invisible: a reservation appears in `reservation` only with `Create`,
and until then it is the open call itself that excludes others from the key (`HoldsKey`), as
the unique index does. The lock timeout is `ReserveTimeout`. Field validation, reference
allocation, tracking issuance, the default assignment, child rows and activities all commit
or roll back together: `Create` or `Fail`. `Fail` is also the death of the process. A
request is identified with the call that made it, since each call generates its request's
identity. `content` stands for all digested fields but the form version; a key includes its
scope; `NoKey` is staff intake and the trusted path. `files` numbers the successive contents
of a batch, 0 being none; a batch emptied again is just another content. `external_redirect`
is the action that refuses a call when it reads the form; `suspended` is an Issue that is
inactive or not available to the audience, which the call learns of inside its transaction.
A batch is opened for one published version of the form and may expire at any time; a
reservation's window closes only after its batch has expired, since the schema holds batches
to 31 minutes and windows to at least an hour.

### Attachments
`batch`, `row` and `object` are the two tables and the store; an upload's key is fresh,
so `object[u]` is the object of upload `u`, with its modification time. An upload is
`admitted` (its first transaction), `written` (the object exists), `recorded` (its
second transaction has locked the batch and inserted the row, invisibly to others) and
then committed, or `failing` or `surplus` (the file was recorded before), when it removes
its own object before it ends; a failure to remove is ignored, as in the code. `Fail`
stands for every refusal of the second transaction and for its rollback.
`CommitUnreported` is the commit whose answer the connection loses. `Crash` ends all
uploads of the process where they are. A batch is opened in two steps, since admissions
count and insert in one transaction under an advisory lock; the audit that the hourly
count reads outlives the batch, so `opened` stays when the batch is deleted. The
transactions that need no more than the batch's row lock are one action each.

The cleanup command deletes expired batches, takes the inventory, then looks up and
removes object by object, and may fail anywhere; one runs at a time. It is the only
component that relies on time: an object an hour old without a committed row is taken
for an orphan. A batch lives half an hour, so this is sound while a transaction that has
inserted its row ends within the other half hour. The code bounds no transaction;
`MaxCommit` names that assumption, and `TimingAssumption` says what the constants must
satisfy. Clocks of server, database and file system are taken to agree.

`content` is the processed file; sizes are left out and the limit on files per batch is
kept. The claim's token, the authority and the contexts do not change the state machine:
every step is that of a caller who may take it.

### The integration tables under their migrations
`IntegrationMigrations` keeps the rows and drops the functions: a writer is anyone whose
row the guards, constraints and columns of the schema at hand accept. A migration is one
transaction, applied step by step and rolled back one at a time; `schema` starts before
the first of them, at 51, or at 58, the last. A column that does not exist yet is `Null`
in every row. The four values of an execution policy stand as one, and there is one
connector, one aggregate, one attempt; identities, lifecycles and the claim are left to the
two modules above. `RowsNeverBlockMigration` says that the checks a migration adds, or a
rollback restores, hold of whatever rows there can be by then.

### Requests: commands, correspondence, links
`RequestHandling`: a member of staff reads a request; `Authorize` shares the Organization
and its access state, which whoever changes authority has to lock, and resolves authority;
the command then waits for the request's row and is one step with its commit, except that
the earlier assignment path checks its target without a lock and so has a step more, with
the row held. `session[s]` is what was read and how far the command has come. Where the two
routes to the same command differ, the more permissive one is taken. Groups stand for work
groups and operational roles alike; reorganizations end memberships, permissions, units and
groups from outside. `RequestCorrespondence`: `composer` is the dialog with its key, kept
while the draft and the files stay the same; `late` are submissions it gave up on that still
arrive; `intent` counts what the author meant to add. `stream` says whether notes or
messages are meant: they share their code, and a message needs an eligible requester
besides. `RequesterTracking`: managers act on the version their dialog shows; a link is
resolved by a read and then a locked read. Its history of rows is `credentials`, the newest
last.

### What an Organization configures
`AccessManagement`: the editor shows a projection with the revision it was read at; a
directive is a save on its way; `elsewhere` counts the writes of others, which advance the
revision as the triggers make them. `IssueConfiguration`: an Issue is edited under four
revisions at once from what the screen loaded, while the handling endpoint compares that
part's revision alone and a development command writes the requester policy; an Issue is
made from nothing or from the form of another. "internal" availability admits what "both"
does. Names, the validity of categories and targets, and permissions, which
`AccessManagement` covers, are left out. `IntakeSettings`: a session holds the
Organization's row, for share or for update, between its read and its commit.
`ResidentExperience`: draft contents are reduced to the contact details, which whoever
introduced them may not approve. `TenantDomains`: a lookup is made outside the transaction that
records its outcome, against servers that may change meanwhile; `published` is a history
variable. Uniqueness of names is the schema's and left out: there is one hostname.
`OperatorCommands` starts jobs over it, which may die before, during or after their
transaction; `trail` is the infrastructure's record, `artifacts` the requests carried
between people.

### Platform tools
`AiRouting`: admission holds the Organization's advisory lock from the count to the commit;
commits may be lost, processes die, a provider answers late. `place` records the order of
acceptance. No controller calls `generate` yet, and the registry of quota policies is empty
in production, so this is the router as its callers will find it. `DevelopmentTools`: each
command is one transaction under the Organization's row; `before` is a history variable,
what each membership would be without the tool, and `disputed` are units others changed
meanwhile. Commands for branding, an Issue's default and identities are left out.
`DisposableValidation`: one run from its options to its exit code; Docker may leave any
question unanswered, others may remove the container, a tier may end in any way and a file
may not be written. How tests end is reduced to a few results with one defect each.

### Screens
A screen is what is shown, what is awaited and what the user may press; the server is
reduced to revisions, access and verdicts. A command given up on stays in `overdue`,
`strays` or `commands` and may take effect at any later time. In `ReportPage` the answers
and the description are one value, the catalog advances by itself, and an Issue may be a
link; "Try again" repeats the load of the Issue where one is chosen and that of the list
otherwise. In `RequestPage` there is one read of each kind at a time, and reads of activity,
history and watchers are one kind of partial refusal; `panel` remembers the revision a target
or a reason was chosen on, `destination` that of the Unit in the routing form. A picker
closes when another revision is shown; the routing form is filled anew by `read()` only, and
so keeps its Unit, as a workflow form keeps its reason, when a recheck shows another revision. In `RequestList` the address is the
state that counts, as in the code; options are read with the list; how many pages match does
not depend on the filter. In `ResidentEditor` anything may be refused and another editor may
write at any time; a change of account is a start from the beginning.

## 4. Runs

| Run | Instance | Shows |
| --- | --- | --- |
| `connector_registry` | foci: 2 administrators, 1 connector, 2 contracts, 2 credentials, 5 record revisions; the tables with 1 intent and its attempt, or 2 intents of a stream, 3 configuration revisions; the gate; 3 AI calls of 2 members to 2 models of a provider under 4 rules; one's own access in 2 units, 2 changes by others | no lost update, audit and pins tell the connector's story; no rows block a migration and none loses evidence; a pass is earned; quotas hold and answers match records; the tools keep to their own |
| `delivery_api` | 2 workers, 1 connector with 2 contracts, 2 intents of 1 stream, revisions 0..2, 2 attempts | FIFO per stream, tables agree, the connector is held through commits, when only the functions write |
| `delivery_guarded` | 2 workers, 1 intent, 4 record revisions, 2 attempts, every guarded writer | no blind repeat, settlement by the claimer, the refinement of the contract |
| `delivery_streams` | 1 worker, 3 intents of 2 streams, ordered connector | a divergence, below |
| `submission_safety` | 3 calls, 1 key, 2 contents, 1 batch with at most 2 changes of its files | one request per key, own receipts, evidence as verified |
| `submission_progress` | 2 calls, 1 content, 2 form versions | current form only; every call is answered |
| `submission_replay` | as above | a divergence, below |
| `attachment_objects` | 2 uploads, 2 files, 2 batches, 1 parent, the cleanup; `Lifetime` 1, `MaxCommit` 1, `Grace` 2, time 0..3 | rows keep their objects, sweeps are complete, finalized batches keep what was read |
| `attachment_lost_commit` | 1 upload, 1 batch, 1 parent | a divergence, below |
| `request_work` | foci: 2 members of staff, 1 group, 2 units, 3 request revisions; 1 author with 3 drafts, 3 keys, 2 batches; 2 managers, 3 credentials | commands meet what was read, authority and owner hold at the commit; streams hold what was meant; links end seen |
| `organization_administration` | foci: 2 people with each screen, 2 Issues, 2 areas and 3 sessions, 3 editors of residents' pages, 1 hostname with 2 name servers, 3 operators' jobs | a manager remains, saves do as reviewed and replace what was open, answers fit settings, approvals still hold, domains serve as proven, every command is accounted for |
| `web_client` | foci: 1 upload, 3 batches, 2 staged and 2 an hour; 2 Categories with an Issue each; 2 revisions of a request; 3 addresses, 3 pages; 2 revisions of the experience | admissions stay within limits; retries report once; screens show what was chosen and asked for; the editor overwrites nobody |

Bounds, and why they are enough. `MaxRecord` bounds record revisions: five allow a
registration and every pair of mutations interleaved by another administrator's pair; four
and three suffice where only the reconfiguration between two steps matters. `MaxAttempts` is
2, because the fence distinguishes only an attempt from a later one. `NumIntents` is 2 for
ordering (a pair overtakes or does not; the revisions 0, 1 and 2 give null, equal, lower and
higher) and 3 where a second stream is the witness. `MaxFiles` is 2: empty, verified,
replaced. `MaxVersion` is 2: current and superseded. Three calls over one key are a holder,
a waiter and a late replay; the third content of an exchange would behave as the second. A
unit of time is half an hour: `MaxClock` 3 lets a batch expire, its objects pass the grace
and a later cleanup run, 4 lets a third batch be admitted after the hour. Two uploads are a
retry of one file, or two files of one batch, or of two. One content is enough there: an
upload of another content under a recorded file is refused, which `Fail` covers. In
`request_work`, three revisions are a reading, a change in between and the command; three
keys and two batches let a refused, a lost and a retried submission each have their own, and
five intents let all of them differ. Three credentials are the one seen, its successor, and
the one a late command must not end. In `organization_administration`, three changes of an
Issue or of the residents' pages are one save, one behind it and a stale third; binding
revision 5 takes a name through registration, challenge, verification, activation and
deactivation or revocation; three jobs are a planner's, an approver's and the executor's. In
`connector_registry`, `MaxRevision` 3 lets ordering change back and forth between pins;
three AI calls make two of one scope contend and a third exceed the wider rule; `Floor` 2
tells a run below the floor, at it and above it. In `web_client`, two loads are one
overtaken by another; two runs are an attempt and the next after a refusal, with one
overdue; one batch is enough, since a second is staged as the first was; three addresses
allow back, forward and a replaced entry.

Workers, calls and contents are symmetric where the run checks no liveness; in `web_client`,
replies and two of the batches. Deadlock is not checked where the system may stop: when
all calls are answered, or all bounds are used up.

### Divergences found
- `delivery_streams`:
  `docs/features/F062-2D-2C-3-0-worker-execution-policy-function-signatures.md:1380`
  requires that unrelated streams remain concurrently claimable, and line 989 a pre-filter
  over blocking siblings. The claim pre-filters predecessors only and takes the first
  candidate in `created_at` order. An ordered intent that commits later, with a lower
  aggregate revision than the one in flight, has no predecessor; every claim of the
  connector selects it and raises on the stream index, and no other stream is reached until
  the first one settles.
- `submission_replay`: `docs/features/F066-all-submission-idempotency.md:26` and `:73`
  promise an exact replay the original receipt. Creation prepares the batch before it
  looks at the reservation, and an expired batch is refused even when finalized, so a
  replay with attachments between the batch's thirty minutes and the window's end is a
  404. An Issue that became an external redirect refuses replays as well. The code
  follows `docs/features/F046-secure-attachments-photos-foundation.md:158`, which lets
  claims expire for finalized retries too: the two documents disagree.
- `attachment_lost_commit`: the same document, `:168`, defers the removal of objects so
  that "a failed metadata transaction cannot leave a live row missing its object", and
  `:133` compensates a failed commit by deleting the object. An upload whose commit
  took effect but was reported as failed deletes the object of a live row; a parent that
  had read it already finalizes evidence without its object.

### Observed while modelling
No run asserts these; the models contain the behaviour, and no document of the repository
promises otherwise except where quoted.
- Outbox: `outbox.repository.ts:175` projects every row as `pending`, "the only reachable
  value", though migrations since 20261022 reach others. `assertEnvelope` admits aggregate
  revision 0, which the table refuses. The guard lets an ambiguous delivery of an irreversible
  connector be dispatched again when it has an idempotency key, where
  `connector-capabilities.ts:44` says never automatically.
- Operators: `operator-audit.ts:12` says that a refused invocation leaves a record; refusals
  before the audited part leave none.
- Report page: Back and Edit stay enabled during a submission, so its confirmation may name the
  Issue selected since; a refused catalog version re-selects the submitted Issue and may
  leave another Category highlighted.
- Request page: "Try again" during a command leaves the buttons disabled until the page is opened
  again, and an older answer of a recheck may replace newer data after a conflict. The Unit in the
  routing form and the reason in a workflow form outlive a recheck that shows another revision,
  and are then sent under that revision.
- Request list: filters chosen but not applied are dropped when the address changes for another
  reason, and the Audience choice applies all of them.
- Resident experience's editor: a review is asked for the revision the context names, which may be
  newer than the one shown; unsaved edits end with the reload after a decision; a failed preview
  enables Save again after an uncertain one (the server's revision still protects).
- AI router: a process that dies leaves a pending row that counts against the quota; an
  admission whose commit is lost is answered 503 and stays pending.
- Disposable gate: a run that is killed, or `docker run` timing out after it created the
  container, leaves the container behind.
- Development tools: the fixture reactivates every permission deactivated by hand, and
  reports only those it changes; a membership the tool gave is deleted with it even if
  others used it since.

## 5. Fairness

Only `SubmissionIdempotency` assumes fairness: `WF_vars(Serve(h))` for each call. The server
works on every request it received, the database grants a lock when its holders end, and the
wait for a key also ends with its lock timeout (the waits for the Issue and the batch have
none, so that they form no cycle is a property of the lock order); nothing else is promised,
neither that a client sends, nor that anything expires, nor that an administrator acts.
`Fail` may always happen and never has to. No fairness is assumed of workers, since the
repository has none.

## 6. Proofs

Each theorem holds for every value of the constants that satisfies the named `ASSUME`s. The
bounds (`MaxRecord`, `MaxFiles`, `MaxRevision` and the like) are any naturals, positive
where a first row has to fit: the proofs use no other property of them, so they speak of
histories of any length. The other assumptions say that a value standing for no row is no
row (`Nothing`, `NoRole`, `Null`, `Absent`, `None`), that those for nothing read, no reads
and a denial are no views of the editor (`NotAViewAssumption`), that functions given as constants have
their domains, and what the code or its schema fixes: an object's grace covers a batch's
lifetime and a commit (`TimingAssumption`), the calls, batches, files and name servers that
are counted are finite (`AiAssumption`, `LimitAssumption`, `TenantDomainAssumption`),
provider statuses are not the words the usage table reserves, what a reorganization takes are
permissions (`RevocableAssumption`), the floor of a tier exceeds one test. TLC evaluates
all of them for its instances.

Hardly one of the properties is inductive. Each proof has the same shape: an invariant
`...Inv`, checked by TLC over its module before it was proved, holds initially, is kept by
every action (a lemma for each action or group of actions that disturb the same parts), and
gives the property; action properties follow step by step from it. Beyond the types, the
invariants say:

- `PlatformProofs`, connector administration, over `ConnectorRegistryProofs` (`AdminInvariant`,
  `RegistryCorrect`, `ConnectorsAreExplained`, `AdministratorsLoseNoUpdate`): a
  view whose record revision is still the row's *is* the row. That is about the
  revision advancing on every mutation, rotations included, and gives no lost update at
  once. `EveryPinResolves` follows from each audit row's configuration revision moving
  exactly where the row says it advanced.
- `IntegrationDeliveryProofs` (`DeliveryInvariant`, `StreamsKeepOrder`,
  `AmbiguityNeedsKey`, `ClaimersSettle`, `ClaimsStayClear`, `TablesAgree`,
  `ConnectorsAreHeld`, `TablesImplementContract`): a pin resolves (`IntentsStored`); an
  insert holds the connector as it pinned it (`InsertsHold`), which is why no later
  insert is older than what a claim saw; what a claim selected still holds at its commit
  through its row locks (`ClaimsHold`); every attempt was gated by what it saw, and an
  ambiguous one without a key is the last (`AttemptsHold`). Order follows because a
  predecessor that is resolved stays so; it is about the predecessors the claim's snapshot
  showed, since the gate sees no others. `TablesImplementContract` maps each intent to its
  state and its pinned capabilities and shows every action, `GuardedUpdate` included, to be
  a step of `DeliveryContract` or a stutter. `TablesAgree` is about `ApiSpec`: other
  writers may move an intent without an attempt.
- `SubmissionIdempotencyProofs` (`SubmissionInvariant`, `KeysCreateOneRequest`,
  `ReceiptsAreOwn`, `EvidenceIsAsVerified`, `OnlyCurrentForms`): that a key creates one
  request follows only because a request's key is reserved in its name (`RequestInv`),
  which `Create` keeps because an open call holds its key alone and unreserved (`KeyInv`). A
  receipt through the batch is the caller's own because a finalized batch keeps its
  request's digest (`DigestInv`) and a batch once seen finalized stays so
  (`FinalizedInv`). Evidence is as verified because the batch of an open call is
  locked once, staged, and unchanged since it was compared (`LockInv`); the form is
  current because the shared Issue cannot change (`FormInv`). The first theorem also states
  that a reservation names the request of its own key (`ReservationNamesItsRequest`).
- `AttachmentStagingProofs` (`StagingInvariant`, `NoRowLosesItsObject`,
  `SweepsAreComplete`, `FinalizedStaysAsRead`, `AdmissionsStayWithinLimits`): the
  argument is one of time. An object is never older than the opening of its batch
  (`WrittenInv`), a row is recorded only in a live batch and committed within `MaxCommit`
  (`RecordedInv`), so the object of a row being recorded is younger than any inventory
  accepts (`RecordedObjectsAreYoung`), and whatever a sweep condemned stays without a row
  (`CleanupInv`). Conversely only the cleanup deletes rows of old objects, hence its
  sweep is complete. Everything else removes only the object of an upload that holds no
  row (`RowInv`). It holds for any `Lifetime + MaxCommit <= Grace`. Admissions have an
  invariant of their own: who counts holds the lock, and the counts include all.
- `RequestWorkProofs`, three state machines. Commands (`ActionsMatchTheReading`,
  `AuthorityIsCurrent`, `OwnersFollowTheRoute`): what was read is no newer than the
  request and, at an equal revision, is the request (`Trusts`); the resolved authority is
  still the actor's, because whoever changes it must wait for the shared rows; one command
  at a time holds the row; the last ownership event names the owner, unless the legacy path
  wrote the assignment, and eligibility is claimed after a route only. Entries
  (`StreamsHoldWhatWasMeant`): everything sent under a key, recorded or late, is of that
  key's intent and no newer than its composer (`MessageHolds`, `OneKeyPerIntent`), an
  entry's files are its own. Links (`LinksEndAsSeen`): only the newest credential is
  active, and a page that holds the row shows an active one.
- `OrganizationAdministrationProofs`, six of them. Access (`ManagersRemain`,
  `SavesDoAsReviewed`): a projection or a directive of the current revision shows what is
  held (`DetailHolds`); Issues (`SavesReplaceWhatWasOpen`): the same for each of the
  four revisions by itself (`ReadHolds`), so that four equal revisions are an equal
  Issue. Intake (`AnswersFitTheirSettings`): the flag a session read is the flag while it
  holds the row, and who writes is alone. Resident experience
  (`ApprovalsAreSpentAsGiven`): a request at the resource's revision still has the
  published version as its baseline (`RequestsHold`), every draft's contacts were
  introduced by a draft at or before it. Domains (`HostnamesServeTheirOwners`): a lookup's
  agreeing servers have published the current challenge (`LookupHolds`, `ServerHolds`), an
  approval of the current revision is of the current challenge (`ApprovalHolds`).
  Operators (`OperatorsAccountForChanges`, `CommandsAreAccounted`): changes can be
  assigned, one to one, to start records of jobs that have nothing left to do
  (`ChangesExplained`), so that no two changes count on the same record and a job that
  changes the registry brings a record of its own (`JobsRecorded`). Counting follows, as an
  injection into a finite set: no more changes than confirmed starts. An approval is of an
  artifact planned under a recorded request (`ArtifactsPlanned`, `ApprovalsGiven`), and a
  job that is done has left its change (`JobsHold`).
- `WebClientProofs`, four screens and their composition (`ClientInvariant`). The report
  page (`ReportRetriedOnce`, `ReportShowsTheChoice`): all submissions of one run carry one
  key (`OneKeyPerRun`), which the page holds until it is told otherwise or has the receipt
  (`KeyHeld`); an answer that is still the latest is for the choice that stands
  (`AnswersForTheChoice`); files stay with the form they were staged for, also on their way
  (`FilesStay`). The request page (`RequestPageHolds`): what was asked about contact details
  belongs to the open dialog and to a request whose details may be read (`ContactAsked`), a
  target is picked on the revision shown (`PickCurrent`) and sent so (`PickedAsSent`); what was
  refused as stale names a revision behind the request's (`PageBehind`), so the read that ends
  the command clears it before another can be sent (`RefusedUntilRead`, `OneCommand`). Nothing
  is claimed of the revision a Unit was chosen on. The list (`RequestListAnswers`):
  what was read is no older than the press that asked for it, and a read under way began
  with what the view was by then (`ListedAsAsked`, `ListTyped`). The editor
  (`EditorOverwrites`): a draft and a revision, on the screen or in a save that may still
  arrive, were read together (`ReadTogether`), so a save accepted at its revision replaces
  the draft its author had on the screen; one save at most is waited for
  (`SaveIsWaitedFor`).
- `PlatformProofs`, four more. Migrations (`MigrationsMeetTheirRows`, of 57 and 58 and of every
  rollback that is not refused; `EvidenceIsKept`): every
  attempt meets the constraints of the schema that is applied and has no column of a later
  one (`TryHolds`), a category of policy changes has a policy in the history
  (`HistoryHolds`), a contract exists only since its column does (`IntentHolds`). The gate
  (`GatePassesTheEarned`): what was seen absent is gone for good (`TeardownHolds`), the
  tiers run in their turn, an unwritten manifest is a failure. AI (`CallsAreAccounted`):
  up to each accepted row, in order of admission, no rule is exceeded (`PlacesIn`), and
  the row under admission may still join the others whatever is recorded meanwhile
  (`AdmissionHolds`); what a call knows fits its row (`CallFits`). Tools
  (`ToolsKeepTheirOwn`): a membership that nobody disputed is as it would be without the
  tool, or active and recorded with just that (`RecordHolds`); a report of the current
  revision shows the current authority (`ReportHolds`).

`PROJECT.json` lists the theorems with the property each of them states.

Checked by TLC only:
- `EveryCallAnswered`, since fairness and `ENABLED` are out of the prover's reach;
- the three divergences, which are counterexamples.

## 7. Not modelled, and why

Listed per component in `PROJECT.json`. Not modelled at all: Alerts (rows with little
interaction), Notifications (pure rendering), catalog, geometry and location eligibility
(reads), observability and health, the legacy frontend, deployment and documents. Left out of the
components that are partly modelled: verifying tokens, previews and downloads, discovery
lists, the development identity of the earlier request commands, request-time resolution of
hostnames, creating migrations and provisioning database
roles, and the screens that only show what one read returned. Everywhere, the content of
fields, the wording of errors, logging, telemetry and the HTTP layer are left out.
