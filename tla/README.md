# A TLA+ model of EduConsult CRM

EduConsult CRM is a multi-tenant CRM for education consultancies: a FastAPI and
SQLAlchemy backend (`backend/app`), a React frontend (`frontend/src`), and a
harness of autonomous agents that develops the repository itself (`agents`,
`.github/workflows`). This directory models the backend's handlers and the harness. Paths
below are relative to `backend/app` unless they say otherwise.

## How the system runs

One uvicorn process serves synchronous handlers from a thread pool. Every request
has a SQLAlchemy session of its own (`db/`), so a database transaction of its own,
at PostgreSQL's default isolation (READ COMMITTED). No query of the application
takes a lock (`with_for_update` occurs nowhere) and no table has a version column:
between the statement that reads a row and the one that writes it any other request
may commit. What serialises requests is only what the database does by itself: the
row lock an UPDATE takes until its transaction ends, and unique constraints.
Sessions are `autoflush=False`; an UPDATE names only the columns that changed
against the values the session had loaded. Mail is sent synchronously from inside
handlers, blobs are written to storage before the row that names them, and identity
(role, tenant, branch) comes from the JWT.

## Inventory

| Component | State | Operations | Hard parts |
|---|---|---|---|
| Application pipeline (`routers/applications.py`, `services/stage_progression.py`, `pipeline/`) | `Application.stage`, `StageHistory`, rule table | advance, mark enrolled / rejected / withdrawn, reassign counselor, create, loan columns | validation on a stale read; several flushes before one commit |
| Notification creation (`services/notifications.py`, `email/`) | `Notification`, the mailbox outside | `create_notification`, stage, document and meeting hooks | failures inside someone else's transaction; mail before commit |
| Counselor assignment (`services/counselor_assignment.py`) | `assigned_counselor_id` | least-loaded choice on creation | count, then insert |
| Document review (`routers/student_documents.py`, `routers/verifier.py`) | `StudentDocument`, blob store | upload, re-upload, approve, reject | two verifiers; blob and row; supersession chains |
| Visa processing (`routers/visa.py`) | `VisaDetail`, `VisaOutcome` | upsert detail, update outcome | upsert race; stage read and outcome written later |
| Plan limits (`services/plan_limits.py` and the routers that create branches, staff and students) | row counts, `Tenant.plan_id`, plan caps | check-then-create, deactivate / reactivate | count, then insert at the cap |
| Billing (`routers/billing.py`, `billing/`) | `Tenant.plan_id`, orders at Razorpay | create order, webhook, plan assignment | redelivered and reordered webhooks |
| Sign-in (`routers/auth.py`, `auth/`) | reset tokens, JWTs, login attempts in memory | login, refresh, forgot / reset password, rate limit | single use of a token; sliding window limits |
| Tenant onboarding (`routers/tenants.py`, `storage/`, `email/`) | tenant, owner, invitation, logo | create tenant, branding, logo upload; registration competes for addresses | mail before commit, blob before row, two unique indexes |
| Master data (`routers/master_data*.py`, `auth/master_data_validation.py`, `seed/`) | countries, universities, programs | create, change, delete; public lists; registration targets; applications | existence checked, deleted before the commit; names without foreign keys |
| Checklists and templates (`routers/checklist*.py`) | templates; the checklist is computed | template CRUD; checklist, completeness | templates deleted under uploads |
| Meetings, notes, inbox (`routers/meetings.py`, `notes.py`, `notifications.py`) | their tables, the mailbox | book, move, note, edit, delete, list, mark read | two commits; reassignment in between; lists against checks |
| Analytics and exports (`routers/analytics*.py`) | none of its own | funnel, registrations, comparison, platform statistics, lists | date ends, scopes, several statements per report |
| Agent harness (`agents/`, `.github/workflows`) | GitHub labels, branches, workflow runs | pick, develop, test, review, finalize, CI feedback | label edits one by one, cancelled runs, pickers that race |
| Frontend (`frontend/src`) | tokens in the browser | calls of the REST interface | no state of its own beyond the answers |

Interaction is by shared rows. Every handler that changes an application, a
document or a meeting calls the notification hooks of `services/notifications.py`
inside its own transaction; creating an application calls the counselor
assignment; creating a branch, a staff account or a student calls the plan
limits, whose plan billing and the super admin change; the checklist is computed
from the documents; whoever is signed in carries claims copied from the account's
row, which staff changes do not reach until the token expires.

What makes the modelled components correct:

* pipeline: stage and audit trail change together, by moves the rules allow, and
  answers say what the database holds, whichever requests overlap and whichever
  write fails;
* documents: a row is one verifier's verdict, the student is told of it, no row
  lacks its blob, the checklist never shows a replaced file;
* plan: growth stays within the cap but for a bounded race, plans are paid for or
  granted, a captured payment is applied;
* limiter: windows keep their budget, and the wait a client is told is enough;
* counselors: loads stay even, nobody is assigned who may not be;
* access: stale claims die out, a reset link that was mailed works;
* visa and loan: a stored row is well formed, a request leaves what it was asked
  for and nothing else, nothing is recorded long after the stage has moved on;
* onboarding: an invitation opens the account it names or somebody else won it, a
  tenant's logo is in the store;
* communication: the student hears of every committed meeting and of no other,
  lists show what may be opened, deleted notes stay deleted;
* catalog and reports: rows belong to rows that exist, whatever is named was on
  offer, reports of the same data agree;
* harness: no ticket is lost, what is merged is what was judged, retries end.

## Modules

| Module | Models | Composition |
|---|---|---|
| `PipelineStages` | stages, default transitions, `is_valid_transition` with the tenant's rules | used by the next two |
| `AuditedStage` | what the pipeline promises: stage and trail move together | abstract specification |
| `ApplicationPipeline` | the four stage endpoints, counselor reassignment, notifications and mail on the way | implements `AuditedStage` (`KeepsAuditTrail`, `KeepsStrictTrail`) |
| `ApplicationPipelineProofs` | theorems about it | |
| `DocumentReview` | uploads, re-uploads, approvals, rejections; the checklist computed from them | |
| `DocumentReviewProofs` | theorems about it | |
| `VisaProcessing` | visa detail and outcome, loan columns and opt-in, the visa queue, while the stage moves | uses `PipelineStages` |
| `CaseCommunication` | meetings and their announcement, the inbox, notes, the filters of the lists | |
| `CaseCommunicationProofs` | theorems about it | |
| `Server` | the pool of threads and the step each is at | extended by the next two, by `RateLimiter` and `AccountAccess`, and by `CounselorAssignment` and `VisaProcessing` |
| `TenantPlan` | capped creations, plan changes, orders, the webhook | |
| `TenantOnboarding` | tenants with owner and invitation, students who compete for addresses, logos | |
| `TenantProofs` | theorems about `TenantOnboarding` and `TenantPlan` | extends both |
| `RateLimiter` | buckets of the sliding-window limiter, login's two hits | |
| `CounselorAssignment` | round-robin on creation, reassignment, staff changes | |
| `StaffWorkProofs` | theorems about `CounselorAssignment` and `VisaProcessing` | extends both |
| `AccountAccess` | login, refresh, claims, reset links | |
| `SignInProofs` | theorems about `RateLimiter` and `AccountAccess` | extends both |
| `MasterCatalog` | countries, universities, programs, templates and what names them | extended by `Analytics` |
| `Analytics` | the reports, over the tables of `MasterCatalog` while they change | composes with `MasterCatalog` |
| `AnalyticsProofs` | theorems about the two | |
| `AgentHarness` | tickets, their labels, the workflows that read and edit them | |
| `AgentHarnessProofs` | theorems about it | |
| `MC*` | the small instances and symmetries TLC runs | extend the module they name |

### How the modules correspond to the code

All modules share one shape. A thread of the pool runs one request; `at[t]` is the
place in the handler it has reached, `job[t]` (or `read`, `link`, `branch`,
`choice`, `target`) its local variables. **A step ends where other requests can
see or change something**: at a statement that reads, at a flush that takes a row
lock, at a mail or a commit. Everything a handler does between two such points is
one action; what it computes from an old read is computed from `job`, not from the
present row. An early return is a disjunct or an action named after it. Faults
(`Strike`) are the exceptions the code catches, or does not: a database error on
read, flush, commit or reload, a mail server that refuses, an object store that
fails, the death of the process. Committed state and a transaction's own writes
are apart: a rollback forgets the second.

*ApplicationPipeline.* `Load` is the handler up to the stage check;
`FlushStudent` is the first flush of `notify_application_stage_changed`, which
sends the stage's UPDATE, the history row and the student's notification, takes
the row lock and draws the row's id; `MailStudent`, `FlushCounselor`,
`MailCounselor`, `Commit` and `Refresh` follow the code. The `...Fails` actions
are `create_notification`'s rollback of the shared session: the move is lost, the
handler goes on. `Reassign` is the whole reassignment request at its commit.

*DocumentReview.* A review is like a stage request, without a stage. An upload is
a coroutine: it is checked, awaits its body, then stores the blob, inserts the
row and reads it back without an `await`, so no other coroutine and no newly
dispatched request comes in between (`LoopFree`); reviews already running in
threads do. A document's columns are split into what an upload writes and what a
review writes.

*TenantPlan.* A creation counts, checks and inserts in three steps. A plan change
is one UPDATE of one column and is one step. An event for a retired plan is
answered 409 and changes nothing; a change of a staff member's role between
counted roles moves no count. Both are stuttering steps and left out. Deactivated
accounts keep their seat, as in `_count_staff`.

*RateLimiter.* `Arrive` and `ReadClock` read the clock, which the code does before it
takes the lock; `HitClient` and `HitAccount` are `hit`'s critical section,
`RefuseClient` and `RefuseAccount` that of `retry_after`. The history variable `hits`
holds the times of all admitted hits in the order they were recorded, `told` what a
client was told last and whether its window was over when it asked.

*CounselorAssignment.* `ReadCounselors`, `ReadLoads` and `Insert` are the two
queries and the commit of a creation. Staff changes are one step: `update_staff`
writes constants of its request, so that it would leave the same row had it run
at once.

*AccountAccess.* `Login` and `Refresh` read the row, `Issue` signs the tokens.
`StoreLink` commits the reset link before `Mail` sends it. `OpenLink` and
`SetPassword` are the two ends of `reset_password`.

*VisaProcessing.* `db` holds the committed columns of the application, its visa
detail and its outcome. A request loads its row (`job.loaded`), and its commit
writes the attributes whose value differs from the loaded one, as SQLAlchemy's unit
of work does; of two that found no row the second meets the unique constraint. The
stage guard is in the load. The queue is two selects, `QueueCounts` and
`QueueLists`.

*CaseCommunication.* `Book` is the first commit of `schedule_meeting`, `Notify` and
`Mail` are `create_notification` between the two commits, `Confirm` is the second.
`Begin...` actions are the loads and checks of a request, the action named after it
is its commit. `OpensCase`, `OpensMeeting`, `ReachesStudent` are the checks of single
rows; `ListsApplication`, `ListsMeeting`, `ListsNotes` the filters of the lists, from
other code.

*TenantOnboarding.* `FlushTenant` inserts the tenant, so that the unique index on
the slug decides (`holder` is the transaction others wait for); `Invite` mails the
password; `CreateTenant` is the commit, which inserts the owner's row and may find
its address taken. An upload of a logo stores the bytes (`StoreLogo`) and then
commits the key (`NameLogo`).

*MasterCatalog.* `Begin...` resolves what a request names; `Commit...` is its
commit, where the database looks at foreign keys once more (`KeyHolds`): country,
university, program and template have them, an application's university and program
and a student's targets do not. A refused or failed request is `Refuse`. The history
variable `offered` holds every pair of a row and the row it belonged to. What was
entered before the server started (`Earlier`) is assumed to be of the form the requests
leave (`EarlierIsValid`) and to be numbered before the rows they create
(`EarlierIsNumbered`).

*Analytics.* A report of one statement is an operator on the tables; `FunnelTable`,
`RegistrationsTable` and `BranchTable` are the same figures with their row TOTAL, as
they are downloaded, a funnel with its rounded shares. The platform's
statistics and the billing list take several statements, each an action, and other
requests commit in between. Time is counted in ticks of which the first of a day is
midnight, since a date without a time as the end of a range is read as a whole day.

*AgentHarness.* A workflow run is a job; a concurrency group is a running and one
pending request, and a newer pending request replaces an older one, which is
GitHub's rule. Each `gh` call that edits a label is a step (`edits` are those a run
has still to make), so that pickers and other runs see the states in between. What
an agent does is a nondeterministic result: it passes, fails, dies, or leaves no
pull request.

### Properties that hold only when requests do not meet

Several promises of the code's comments hold for requests that run one after the
other and break when two of them read the same row before either writes. They are
stated as what the code guarantees in every run: a history variable marks exactly
the rows on which two requests met (`contested`, `outdated`, `raced`,
`judged = {"disturbed"}` in the harness), and the property speaks of all others; or
the property gives the bound that the number of threads sets (`LoadsNearlyEven`,
`OvershootIsBounded`, `OvertakingIsBounded`, `LinkUsesAreBounded`,
`LateRecordingsAreBounded`, `LateWritesAreBounded`, `CapOvershootIsBounded`), which
for one thread is the promise itself.

## Runs

A property checked by a run may be a conjunction of named parts, each with its
comment; type correctness is one of the parts.

| Run | Instance | Shows |
|---|---|---|
| `pipeline_overlap` | 2 threads, 3 requests, an owner and a counselor, one fault of any of 7 kinds | the inductive `PipelineInv`, `NewestRowNamesStage`, `AnswersAreHonest`, `MovesAreNotified`, `MailsComeTrue` (mail leaves before the commit, and lies only if something fails), `KeepsAuditTrail`, and `RequestsEnd` under fairness |
| `pipeline_serial` | 1 thread, 3 requests, four roles and branches, tenant rules that add and block moves | `KeepsStrictTrail` (each row starts where the last one ended), `TerminalStagesAreFinal` |
| `documents` | 2 threads, 2 verifiers, one document waiting and up to two uploads, one fault of any of 9 kinds | `DocumentInv`; `RowsAreVerdicts` = `RowIsOneVerdict`, `CommentsMatchStatus`; `VerdictsAreTold` = `StudentKnowsVerdicts`, `AnswersAreHonest`; `ReplacementsAreSound` = `ChecklistShowsReplacement`, `SupersededStaysRejected`; `VerdictsStand` = `DecidedStaysDecided`, `FirstVerdictStands`, `CompleteStaysComplete` |
| `visa` | 3 threads, 3 requests, one failed commit, stages that enter and leave visa processing | `RowsAreWellFormed`; `LateRecordingsAreBounded`; `RowsHoldRequests` = `NoColumnIsClobbered`, `UndisturbedRequestsAreStored`, `FirstRecordingStands`, `QueueAgreesUnlessMoved` |
| `communication` | 2 threads, 3 requests, an owner, a manager and two counselors in two branches, one fault | `MeetingsAreAnnounced`; `AccessFollowsAssignment` = `ListsAgreeWithChecks`, `LateWritesAreBounded`; `InboxAnswersAreHonest`; `DeletedNotesStayDeleted` |
| `tenant_plan` | 2 threads, 2 resources, 3 plans, 3 creations, an order, an assignment, a switch, a fault | `OvershootIsBounded`, `PlanIsPaidOrGranted`, `PaymentsAreApplied` under fairness |
| `onboarding` | 2 threads, 4 requests, 2 slugs, 2 addresses, good and bad logo files, one fault | `InvitesOpenAccounts` = `OwnersCanSignIn`, `StrayInvitesLostARace`; `LogosAreInTheStore`; `RequestsEnd` under fairness |
| `limiter` | 2 threads, 4 requests, budget 2, a window of 2 seconds of 2 readings each | `WindowsKeepBudget` = `OvertakingIsBounded`, `OrderedWindowsKeepBudget`; `RetryAfterSuffices` |
| `counselor` | 2 threads, 2 branches, 2 counselors, 4 applications, one reassignment, one staff change | `LoadsNearlyEven`, `AssignedIsEligible` |
| `access` | 2 threads, 2 standings, 3 clock readings, one link, 2 changes | `StaleClaimsExpire` = `StaleAccessExpires`, `StaleClaimsPredateChange`; `LinksWork` = `MailedLinksExist`, `LinkUsesAreBounded` |
| `analytics` | 2 threads, 2 requests, a seeded catalog of two tenants with a template, an upload, a student and two applications, two days | `KeysHold`; `ChoicesAreOffers` = `NamesWereOffered`, `FormsAreAccepted`; `FiguresAgree` = `ReportsAgree`, `StatsAreRecent`; `UploadsOutliveTemplates` |
| `harness` | one ticket, one picker beside Dev, a verifier, finalize and CI, a cap of 2 iterations | `CapOvershootIsBounded`, `NoTicketIsStranded`, `MergesTheJudgedIteration` |

**Bounds.** Two threads are the least that overlap, and every hazard listed is
between two requests, with a third that comes before or after: hence 3 requests
(4 in the limiter, where two fill the budget, 4 creations for the counselors, where
two races in a row must not add up, and 4 in onboarding, where a tenant must exist before
two requests can meet over what is its own). In
`analytics` the seeded tables stand for the requests before, so 2 suffice. `visa`
has 3 threads because its bound speaks of their number less one. One fault per
behavior, since the code handles each fault by ending or abandoning its request; it
may strike anywhere. The clock of the limiter is finer than a second (`Second`
readings), so that rounding shows, and its window longer than one, so that a wait may
end before the window or after; a day of `Analytics` has a midnight and one other
time. The harness is bounded by `MaxLabel`, beyond which Dev starts no iteration. In the
run it is never met: with a cap of 2 and one picker a ticket gets no further than
iteration 4, of the 5 (one more for each misreading) that the property allows. Two
pickers can misread a ticket again and again, up to any `MaxLabel`; that any number of them keeps the
bound is what the proof adds.
Threads, and verifiers, are interchangeable: they are symmetry sets where no liveness is
checked.

**Deadlock** is checked in `pipeline_serial`, where a counselor can always be
reassigned, and in `documents`, where `Quiet` is the only step of a server that
has answered all it was sent, so that requests waiting for each other's locks
would be reported. `pipeline_overlap` and `onboarding` leave that to `RequestsEnd`,
which is stronger. The other modules take no locks: their behaviors stop only when
the bounds are used up. A ticket of `AgentHarness` really may stop: it is merged, or
marked for rework, and waits for a person.

**Fairness.** `ApplicationPipeline` assumes weak fairness of `Proceed(t)`: a
thread that has begun a request goes on with it. The thread pool runs its
threads, SMTP has a timeout and PostgreSQL hands a row lock on. Weak fairness is
enough since every holder of the lock releases it, which is what `RequestsEnd`
shows; it assumes nothing about clients or faults. `TenantOnboarding` assumes the
same of `Serve(t)`, with the wait for a slug's index entry in place of the row lock.
`TenantPlan` assumes that the gateway delivers the event of a captured payment until
a delivery is accepted; the webhook's answer 500 is there to bring that about.

## Proofs

`ApplicationPipelineProofs` proves, for any pool of threads, any staff, tenant
rules and fault budget, from `PipelineAssumption` alone:

* `PipelineInvariant`: `TypeOK` and `PipelineInv` always hold. Neither `TypeOK`
  nor the properties are inductive: a commit writes what the request
  carried, so the invariant must say what requests in flight carry.
  `LockFollowsMove`: the row lock is held exactly while an uncommitted transaction
  holds a move. `RowIdsGrow`: the holder's row is newer than every committed one.
  `RequestsAreNumbered`: no two requests, and no request and an answer, share a
  number. `MovesInFlight`: what was let in is a valid move, and nothing of a
  request is visible before it commits. One lemma per conjunct, one case per
  action.
* `NewestRowIsRight`, `HonestAnswers`, `NotifiedMoves`: the three properties, each
  a small induction above `PipelineInvariant`.
* `TrueMails`: `MailsComeTrue`. A mail's request either is recorded or holds its
  move, which needs `MovesAreHeld`: until something fails, a request past its first
  flush has not lost what it flushed.
* `ImplementsAuditTrail`: the pipeline implements `AuditedStage`. Only a commit
  that holds a move changes stage or history (`OnlyCommitsMove`), and it is an
  abstract `Record` (`CommitRecords`), with the id by `RowIdsGrow` and the
  validity by `MovesInFlight`.
* `OneThreadKeepsStrictTrail`, `OneThreadKeepsTerminalFinal`: with one thread the
  stage read is still the stage at the commit (`ReadIsFresh`), so the trail is a
  chain and terminal stages are final.

`TenantProofs` proves of `TenantPlan`, for any pool of threads, any catalog of plans and
caps and any bound on faults and requests, from `TenantAssumption`:

* `TenantTypes` (with the finiteness of the orders, which their numbering needs) and
  `PlanIsSound`: `PlanIsPaidOrGranted`.
* `OvershootBound`: `OvershootIsBounded`. How far a tenant can still grow depends on
  what the creations under way have counted, so the invariant `GrowthInv` speaks of
  every threshold `k` that no plan the tenant has had exceeds: the rows in use and the
  creations that counted fewer than `k` rows are together at most `k + N - 1`, for `N`
  threads. Below the threshold that is so because there are no more creations
  than threads, and from there on because a new creation counts too many rows to be
  let in (`LetThrough`). The roof of the property is the least such threshold
  (`HasHighest`).

`DocumentReviewProofs` proves every property of the `documents` run, for any pool of
threads, verifiers, templates, number of documents and budget of faults, from
`DocumentAssumption`. Four invariants are built on each other:

* `Base` is `DocumentInv` without the blobs (types, `LocksFollowVerdicts`,
  `JobsAreCurrent`), with `RoomLeft`, which says that the uploads in flight have rows
  left within the bound. `Told` adds `Traces`: a request in flight appears in no
  answer, verdict or document before the step that is its own. `DocumentsAreSound` and
  `TruthIsTold` (`VerdictsAreTold`) follow, the latter because whoever answers was in
  flight.
* `Decided`: a pending row is blank, two reviews of one document have met on it
  (`MeetingsAreContested`), so any other review overwrites exactly the blank row it
  loaded (`ReviewsAreFresh`). `OneVerdictPerRow` is part of it; `FirstVerdictsStand`
  (`VerdictsStand`) follows, since a decided row is not blank. Its third
  part counts: the approved items of a checklist only grow, inside a finite set.
* `Replacing` carries what an upload saw of the document it replaces across its
  await (`UploadsReplaceRejected`) to the row that names it (`ReplacedAreOlder`: rejected,
  with a lower id and no later time). `ReplacementsStand` follows.

`SignInProofs` proves both properties of the `limiter` run, for any pool of threads, any
clients and accounts, any budget, window and resolution of the clock, from
`LimiterAssumption`:

* `Held` relates a bucket to `hits`: the bucket is a run of the newest hits, and those
  that eviction has dropped are followed, within the budget's number of hits, by one
  recorded a window later. `EvictedSuffix` shows that the eviction loop leaves such a run,
  although the times need not be in order: it stops at the first that still counts
  (`Least`: a set of naturals has a least element).
* `RetrySuffices`: `RetryAfterSuffices`. The first time in the bucket has expired when
  the client may come back, and is still the first one then: nothing read earlier than
  the question evicts it while its window is not over (`Waiting`).
* `WindowsHold`: `WindowsKeepBudget`. In order, a hit and the one `MaxHits` later are a
  window apart (`OrderedApart`). Out of order, only a thread that has read the
  clock in the window and not recorded yet can overrun it (`Late`), so the hits of a
  window that has been passed by and the late threads are together bounded (`Overtakes`).

and both properties of the `access` run, for any pool of threads, any lifetimes and clock,
from `AccessAssumption`:

* `ClaimsAreShortLived`: `StaleClaimsExpire`. The invariant `ClaimsInv` speaks of the
  reads in flight as well as of the tokens: a read that no longer matches the row is
  older than the last change, and none exists unless a change raced; a stale access
  token expires at most one access lifetime after the change.
* `LinksAreSound`: `LinksWork`. The uses of a link plus the resets that have it open never
  exceed the threads (`UsesInv`), and an unused link has been used by nobody.

`TenantProofs` also proves both safety properties of the `onboarding` run, for any
pool of threads, any slugs, addresses and files, from `OnboardingAssumption`:

* `JobsOK` says what each request has secured so far: a creation past its flush holds its
  slug, which is on no tenant; one past its mail has sent the invitation; an upload past its
  store has its bytes there. Holding is exclusive, so the commit of one request
  takes nothing from another (`OthersKeep`).
* `InvitationsHold`: `InvitesOpenAccounts`. `OwnersOK` is inductive above `JobsOK`, because a
  new owner's tenant has a number no account has. `Pending` is
  `StrayInvitesLostARace` with the address beside the password: a commit that does not open
  the account can then only have met the address in use, its slug being its own.
* `LogosHold`: `LogosAreInTheStore`.

`StaffWorkProofs` proves both properties of the `counselor` run, for any pool of
threads, any staff and branches and any number of reassignments and staff changes, from
`CounselorAssumption`:

* `EligibleCounselors`: `AssignedIsEligible`, an action property. `Carries` says that
  whoever a request has read may still be assigned, or has changed since and is
  `outdated`.
* `NearlyEvenLoads`: `LoadsNearlyEven`. `Even` counts a thread that has chosen a
  counselor as if its application were there: loads and aims together are no
  further from another's load than there are threads. A choice goes to a least loaded
  counselor (`LeastLoadedIsLeast`), at whom no more than all threads aim, and an insert turns
  an aim into a load.

It proves all three properties of the `visa` run, for any pool of
threads and any budget of faults, from `VisaAssumption`:

* `JobOK` says what a request in flight carries: a body the schema let through
  (`Lets`); the row it found is still there, and a first outcome has a status
  (`Carried`). `Wrote` is what every commit then does: it sets, to what was asked, some
  of the columns the request named. `RowsWellFormed`:
  `RowsAreWellFormed` follows, since what a row must keep (`Lasting`) is never set to null.
* `LateRecordingsBounded`: the recordings since the application left and those in flight
  that may still land (`LateInv`) are together fewer than the threads: the request that
  moves the application out holds a thread itself.
* `RowsHold`: `RowsHoldRequests`. Its parts are action properties, each proved of a step
  from `Wrote` and from who may end in it (`WhoEnds`).

`CaseCommunicationProofs` proves all four properties of the `communication` run, for any
pool of threads, any staff and any branches, from `CommunicationAssumption`:

* `JobsOK` says what the requests in flight carry: the meeting they announce, of which
  the inbox says nothing yet; a counselor near the application; an inbox that has
  only grown since they read it. `Distinct` says that no two announce one meeting. `Grown`
  is what every step leaves as it was. `StepKeeps` proves the three together, one lemma for
  each action.
* `MeetingsAnnounced`: `MeetingsAreAnnounced`. `Announced` is inductive above them: an announcement
  is only dropped once it is heard or something failed.
* `AccessFollows`: `AccessFollowsAssignment`. The lists agree with the checks by
  `MeetingsNear`. `LateInv` adds to the late writes those in flight (`LateSet`): a new request
  is never one of them, and a late write leaves their number one smaller.
* `InboxHonest` and `DeletedStay`: `InboxAnswersAreHonest` and `DeletedNotesStayDeleted`, from
  `JobsOK` and `Grown`.

`AnalyticsProofs` proves, for any pool of threads, any tenants, any valid demo catalog and
any earlier data, from `CatalogAssumption` and `AnalyticsAssumption`:

* `CatalogKeysHold`: `KeysHold`. A request checks that the parent it names is of its
  tenant and commits later, and the database then looks only for the parent's existence. So the
  invariant (`Sound`) says of a request in flight that its parent, if it is still there,
  is of its tenant (`Edited`, `MayBelong`). That rests on rows having numbers given
  before (`Numbered`) and on no other request naming a row that is not there yet
  (`Apart`): a deleted parent's number never comes back as another tenant's row. `Carry`
  proves what all steps but beginnings share.
* `UploadsOutlive`: `UploadsOutliveTemplates`, an action property from `Sound`.
* `ChoicesWereOffers`: `ChoicesAreOffers`. Each pair a request reads is in `offered`
  (`Choosing`, `Chosen`) when it reads it, and `offered` only grows.
* `FiguresAreRecent`: `StatsAreRecent`, one of the two parts of `FiguresAgree`. Each count a
  report has read lies between the count when it began and the present one (`Counting`),
  because students stay and of an application only the stage changes (`Grown`); what has
  become of a tenant's applications adds up by `TallyAdds`.

`AgentHarnessProofs` proves all three properties of the `harness` run, for any number of
tickets and of picker runs that overlap, one verifier or both, any `MaxIterations` and any
`MaxLabel`, from `HarnessAssumption`. None of them is inductive: each label edit is a
step, so that what the labels say holds between two edits only by what is still to be
edited, and any other run may edit or decide in between.

* `HarnessInvariant`: `Inv` always holds. `Typed` says which edits a job can have left at
  each of its steps (`EditsAt`). `LevelInv`: a ticket has at most one iteration label, the
  one Dev works on, or none just where Dev is about to add it; `Level` is the iteration
  in either case, and no branch holds work of a later one. `CapInv` and `PhaseInv` are below.
  `AgentHarness` is taken apart once, into what its record updates do to the jobs
  (`Calm`, `Rest`, `RunGoes`, `RunEnds`, `RunAsked`); then one lemma for each action
  (`...Keeps`) shows that it keeps `Inv`.
* `CapHolds`: `CapOvershootIsBounded`. How far a ticket still goes depends on who has already
  asked for another iteration, so `CapInv` adds to the level of a ticket the `Requests` on
  their way: pickers about to dispatch, the running and the waiting Dev request,
  finalize's retry. A Dev run raises the level by one and uses one of them up. Beyond the cap nobody
  asks anew: `Retryable` and the retry look at the label, and who finds none is
  counted by `misread`.
* `NothingIsStranded`: `NoTicketIsStranded`. The last of the phases of a ticket that is open and
  undisturbed (`HeldPhase`): a ticket that is begun and not marked is `Held`, by Dev, a
  judge, a picker or a request that waits. It rests on the others: while Dev works,
  nobody judges and the old verdicts are gone (`DevPhase`); whoever judges judges the
  present iteration, and a verifier without a verdict is still at work (`JudgePhase`),
  so that finalize, when it joins, either decides or leaves the ticket to somebody.
* `MergesAreJudged`: `MergesTheJudgedIteration`, an action property. Only `FinalizeMerges` closes a
  ticket (`OnlyFinalizeMerges`); by `VerdictPhase` what it merges was passed by each verifier,
  and by `JudgePhase` and `LevelInv` no later iteration has begun.

Only model-checked: `RequestsEnd` and `PaymentsAreApplied`, since liveness under
fairness is out of the prover's reach; and `ReportsAgree`, the other part of `FiguresAgree`,
whose totals are folds, so that they need an induction over data.

`TenantProofs`, `SignInProofs` and `StaffWorkProofs` each extend two components. These share the threads
(`Server`) and nothing else: no definition, variable or other constant of one occurs in the
other, and the proofs about each cite its own assumption only.

## Where the code departs from its comments

Seen while modelling; the properties above are stated so that they hold of the code
as it is.

* A stage request validated against an open stage overwrites a terminal one
  committed meanwhile (`routers/applications.py:376`), although
  `pipeline/stages.py:25` calls terminal stages final. `OneThreadKeepsTerminalFinal`
  says when they are.
* When a notification cannot be inserted, `create_notification` rolls the caller's
  work back with it, and the verifier is answered 200 for a verdict that is gone
  (`routers/verifier.py:237`, against `services/notifications.py:39`). The stage
  endpoints lose the move in the same way, but fail when they read the history row
  back.
* Mail is sent before the commit that makes it true
  (`services/notifications.py:193` says otherwise).
* The webhook applies an event again after the plan was changed by someone else
  (`billing/plan_change.py:158`, against `routers/billing.py:297`).
* Two resets that overlap both use a link (`routers/auth.py:401`, against `:380`).
* Of two reviews that both loaded a pending document the later overwrites the
  earlier, and leaves both comments set (what `contested` marks); a slow approval can
  thereby revive a document that was replaced. An upload that names no predecessor
  hides an approved file of its checklist item.
* Creations that count together overrun a cap by as many as there are threads less
  one. The plan and usage view counts owners as staff, the limit and the owner's own
  page do not (`routers/tenants.py:655`).
* A hit of the limiter is admitted inside the window of an older one while the
  budget lasts (`auth/rate_limit.py:67` describes another rule). A client that asks
  how long to wait after its window is over is told one second
  (`auth/rate_limit.py:108`); a hit that had read the clock before may take its place by
  then, which `RetryAfterSuffices` excepts.
* Two overlapping updates of a visa detail, outcome or loan may leave a mixture
  neither asked for, because each writes only what differs from what it loaded; a
  recording may land after the application has left visa processing.
* A meeting that an owner books with a counselor of another branch is not on that
  counselor's list. Marking all read answers zero unread, whatever came after its
  select.
* An application's university and program and a student's targets have no foreign
  keys: deleting what they name leaves dangling numbers. Deleting a row that others
  refer to by a key, between check and commit, is an uncaught `IntegrityError`.
  `checklist_templates.py` says that uploads become orphans of a deleted template;
  the key is ON DELETE SET NULL. Targets of students whom staff create are not
  validated.
* The exported student list reads a date-only end as that midnight, all other
  reports as the whole day (`routers/analytics.py:43`). Applications without a branch
  are in no row of the branch comparison. The shares of an exported funnel are rounded
  one by one: they add up to 100 % (`routers/analytics.py:877`) but for half a tenth
  of a percent per stage.
* Harness: a ticket can exceed the iteration cap (`agents/queue_picker.py:41`) for as long as
  pickers race with Dev. `start_new_iteration` takes the old iteration label off before it
  puts the new one on (`agents/github_ticket_utils.py:155`), and a picker that looks in
  between reads iteration 0. `agent-harness-queue-picker.yml` has no concurrency group, so
  with two picker runs there is always one that may. `misread` counts these
  readings, and `CapOvershootIsBounded` says that nothing else adds to the overshoot.
* Harness: a verdict of an
  earlier run can land in a newer iteration; a Dev request that is pending is dropped
  for another ticket's; a Dev run that leaves no pull request strands its ticket.

## Plan

What is left, the most consequential first:

1. `ApplicationPipeline` and `VisaProcessing` over one row, so that the two column
   sets the ORM writes are seen in one transaction order.
2. The harness with two tickets and both verifiers under TLC, once its state is small
   enough; the proofs cover them.

## Not modelled

The own profile and the owner's usage pages (reads of the caller's own rows),
single-row reads, the files and columns of exports, the permission table beyond what modelled
requests use, password hashing and its policy, migrations, the web client, and the
scripts people run by hand. `PROJECT.json` lists each with its reason. The bucket
table of the limiter grows with every new identifier (`auth/rate_limit.py:75`): a
model with finitely many identifiers cannot show it. Within the modelled components
the contents of comments, mails and files, and the shape of answers, are left out: a
comment is there or not, a mail is its event and decision, an answer its code.
