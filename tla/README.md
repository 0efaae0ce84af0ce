# Formal models of the RS Recruiting platform

TLA+ models of the stateful parts of this repository. On the server: how jobs
and applications change status, how sessions and passwords live and end, how an
account is registered, approved and activated, how the task queue delivers work
to the worker, and how a candidate's data export is built and mailed. In the
browser: how the session is refreshed and ended, how the administrator triages
applications, works through lists and review queues, and how candidates and
companies fill in forms, move cards and edit what is theirs. Each model is
checked by TLC on small instances; the safety properties of the server's
components, of the triage page, of the browser's session and of the admin pages
are proved by TLAPS for instances of every size, and so are the two refinements.

Paths below are relative to the repository; `rs_shared` stands for
`libs/shared/rs_shared`, `rs_api` for `services/api/rs_api`, and frontend paths
start at `frontend/src`.

## 1. Inventory

The system is a FastAPI service (`rs_api`) over PostgreSQL, a worker process
(`services/worker`) fed by an SQS queue, an object store for resumes, and a
React frontend. The business rules are in `rs_shared/services`, shared by the
API and the worker.

| Component | State it keeps | Operations | What makes it correct |
|---|---|---|---|
| Jobs, applications, match decisions | rows `job`, `application`, `matchsuggestion`, `auditlog` | apply, withdraw, review by an admin, hire or reject by the company, push, dismiss, create / approve / reject / edit / delete a job, close with cascade | one live application per pair, the audit trail lacks the companies' decisions and nothing else, who may move what from where |
| Sessions and passwords | `refreshtoken`, `usedrefreshtoken`, `passwordresettoken`, the password hash | log in, refresh, replay detection, log out, revoke one or all, change and reset the password | a token is used once, a session never splits, a log-out that finds its token's row is final |
| Task queue and worker | the SQS queue and its dead-letter queue, the worker's batch | send, receive, run, delete, redeliver | no task is lost, duplicates are bounded, every message settles |
| Data export | `data_export_request` rows, ZIP objects, two messages | request, build, mail the link, download | one active export, a link never dangles, an active export is mailed |
| Transactions and hooks (`core/infrastructure/transactions.py`) | the hooks deferred by a request | commit, roll back, run the hooks | hooks run after the commit only; a failing hook is logged and lost |
| Log-in lock-out (`services/auth/login.py`) | `failed_login_attempts`, `locked_until` | check, count, lock, clear | parallel attempts cannot exceed the limit unnoticed |
| Registration, approval, activation | `activationtoken`, `user`, `candidateprofile` | register (alone or while applying), resend, approve, reject, activate, delete | a superseded link opens nothing, no company is active unapproved, an active candidate has a profile |
| Invites (`services/admin/invites.py`) | `invitetoken` | issue, resend, revoke, expire, use | one pending invite for an address, one use of each |
| Resume files | object store, keys in `candidateprofile` and `application` | upload, replace, remove, purge | no row names a missing object |
| Matching | embedding columns | embed after a commit, rank | the embedding is that of the current text |
| E-mail quota (`core/services/email_quota.py`) | `emailquota` | count, warn | each threshold is announced once |
| Browser session (`services/api.ts`, `contexts/AuthContext.tsx`, the route guards) | the access token in localStorage and the cookie, both shared by tabs; per tab `isRefreshing`, `refreshQueue`, the user | attach a token, refresh once for many requests, probe the cookie, log in, log out | one refresh at a time, every request settles or its page goes |
| Triage page (`pages/admin/AdminApplicationsTriagePage.tsx`, `useTriageSession.ts`, `useTriageQueue.ts`) | the queue, the index, decisions of the session, the undo, a slide, updates under way | decide, undo, retract, slide, swipe, jump, open a resume | a candidate is on screen, the undo is for a decision that stands, what is shown as decided is saved |
| Admin lists and review queues (`hooks/useInfiniteList.ts`, `components/shared/RecordPane.tsx`, nine pages of `pages/admin`) | pages of rows, cursor, request in flight; selected record, dialogs, pending flags | load, load more, search, select, approve, reject, edit, delete, invite | no skeleton without a request, the pane shows the selected record, a flag lasts as long as its request, answers touch only their row |
| Wizard and forms (`pages/public/ApplicationPage.tsx`, `RegisterPage.tsx`, six more) | entered fields, step, consents, `isSubmitting` | step, validate, prefill, submit, claim | what is sent passed its validators, and takes effect once |
| Company board (`pages/company/components/JobKanban.tsx`) | cards by column, the stored order, a drag | drag, reorder, move, take back | every card is in the column of its status |
| Candidate pages (`ApplicationDetailPage`, profile and dashboard) | the record on screen, edits | edit, withdraw, download, save | what is shown as saved is saved |
| Read-only and presentational parts | none of their own | overview pages, SEO rendering, analytics, pagination of lists, PDF and e-mail templates | |

How they interact: a request handler opens a transaction with
`transactional()`, calls one service, commits, and then runs the hooks the
service deferred with `defer_after_commit`; a hook enqueues a message by
`_sqs_send`. The worker receives messages in batches, runs the named task and
deletes the message. Services share state only through PostgreSQL, at its
default isolation READ COMMITTED and without `SELECT ... FOR UPDATE`; the
frontend shares a cookie between tabs and calls the API over HTTP. In a tab one
handler runs at a time up to its `await`; what it left behind (requests, timers,
animation frames) comes back later, in any order, perhaps to a page that is gone.

The hard behaviours follow from that. Every service reads, decides and
writes by primary key, so what another transaction commits in between is not
seen. A hook is lost when the process dies after its commit. The queue
delivers a message again whenever its visibility timeout passes. In the browser
a handler closes over the state it was rendered with, its answers may be lost or
overtake one another, and flags that disable buttons are rendered after the event.
The full list, each at its line, is under "hazards" in `PROJECT.json`.

## 2. Modules

| Module | What it is |
|---|---|
| `JobApplications` | jobs, applications, decisions, audit trail, and the requests in flight over them |
| `ApplicationLifecycle` | the abstract specification: the same life cycle with every operation atomic |
| `Sessions` | the refresh tokens, consumed tokens, password and reset tokens of one account, and the requests in flight |
| `SessionRegistry` | the abstract specification: a set of open sessions |
| `Accounts` | the accounts, activation tokens and candidate profiles of one e-mail address, and the requests in flight |
| `WorkerPool` | the workers, and how often the queue hands one message to them: shared by the next two |
| `TaskQueue` | the queue, its dead-letter queue and the polling loop of the workers |
| `DataExport` | request, build task, link and download of one candidate's export |
| `BrowserSession` | tokens and cookie shared by tabs; per tab the interceptors, `AuthProvider`, the guards, log-in and log-out; a small server |
| `Triage` | the triage page, the updates it sends and the status of each application on the server |
| `CursorList` | `useInfiniteList`: a list as a record, each callback as an operator |
| `AdminConsole` | what the admin pages share: one list, one record pane, dialogs, flags, requests under way, the rows on the server |
| `AdminPages`, `ReviewQueues` | the handlers of six list pages and of three review queues, over `AdminConsole` |
| `AdminSite` | their composition and properties |
| `ScreenFrame` | what the other screens share: the component on screen, its requests, the rows they are about |
| `ApplyWizard`, `Forms`, `CompanyBoard`, `CandidateDesk` | one group of screens each, over `ScreenFrame` |
| `Screens` | their composition and properties |
| `MC...` | sets, scenes and symmetry for TLC |
| `...Proofs` | the theorems about the module they extend |

### How a request is modelled

In `JobApplications`, `Sessions`, `Accounts` and `DataExport` a handler is a record in a
variable (`req`, `api`) with the operation, the step it has reached and what
it remembers. Its `...Read` action is the SELECT whose result the handler
validates; its guard is the conjunction of the handler's checks, and a check
that fails ends the handler without a step. Its `...Commit` action is the
transaction's COMMIT and contains everything the handler writes: the rows, the
audit row, the decision row. Between the two, any other action may happen.
`Rollback` ends a request at any point: a violated constraint, a lost
connection, a crash. Three facts of PostgreSQL carry the models:

- an UPDATE names its row by primary key and overwrites what is there;
- a unique index admits the row or fails the transaction (`IndexAdmits`,
  `Consume`, `RecordDecision`);
- a flushed UPDATE holds its row's lock until the transaction ends (`Locked`,
  `PasswordLocked`): this is why `update_job`, the two password handlers and
  the second registration of an address have a step between flush and commit.

An UPDATE that finds its row gone fails the transaction, a DELETE that does
merely warns (SQLAlchemy's defaults): that is why a commit of the first kind
has an `Exists` guard and one of the second kind has none.

### JobApplications

`jobs` holds the status of each job row, `apps` the application rows (their
job, candidate, status, and whether an admin pushed them), `suggestions` the
decision on each pair, `trail` what the newest audit row of an application
records: a status and, as a history, whether a company has set the status since
(`overruled`). For a company's decision (`CompanyReviewRead`,
`CompanyReviewCommit`) is made on any application of its job, withdrawn and
closed ones included, and leaves no audit row. `apply` has three steps: the job is read PUBLISHED
(`_get_published_job`), the pair is checked (`check_no_blocking_application`,
after the upload of the resume), the row is inserted. An admin's edit of a
job that closes it is flushed, selects the active applications, and commits
them as JOB_CLOSED with their audit rows. `ApplicationLifecycle` uses the
variables `jobs` and `apps` of the same name.

### Sessions

A session is a chain of refresh tokens: `issued` records for each token the
first token of its chain and the password it rests on. `live` and `used` are
the two tables. The DELETE of all rows of an account, shared by replay
detection, "log out everywhere", password change and password reset, is two
steps: `BulkDelete` fixes the rows its snapshot contains, `BulkDeleteCommit`
removes them, so a row inserted in between escapes. A log-out either finds the
row of its token (`LogoutRead`, `LogoutCommit`) or does not (`LogoutMissed`),
and is answered alike; `loggedOut` is the history of which it was.
`SessionRegistry` sees the chains: its `sessions` are those with a live token.

### Accounts

`users`, `tokens` and `profiles` are the rows of one address; unique columns
leave at most one user and one profile present at a time, but a company that is
rejected or deleted makes room for another account. `latest` names the token
minted by the registration that set the account's password: a link that opens
the account opens it with that password. A second registration of an inactive
candidate (`RecycleFlush`) flushes the new password when it selects the stale
tokens, and so holds the row's lock before it reads them: autoflush, which no
line of the code mentions, is what makes `OnlyLatestLinkOpens` true, and the
mutant `RecycleUnlocked` shows it. Resends and approvals write no account row and
so take no lock. An application without an account (`ApplyAsLead`) is one step:
it is the claim that registers along with it (`_apply_as_claim`) whose two reads
matter. The uploads and the hour's limits are left out; a limit that refuses is a
request that never starts.

### TaskQueue

Each message has a state, a receive count and its last receiver; the
visibility timeout is an action that may happen at any time while a message
is in flight, which covers a timeout shorter than a task and the wait of a
message for its turn in a batch. `Fail` covers a task that raises before or
after taking effect, and a failing `delete_message`. `Crash` loses the batch.

### DataExport

The row of an export is the rate limit: the request and the task both ask
`has_pending_export`. The task's check, the commit of the row and the
enqueueing of the link are three steps, and the worker may be interrupted
between any two. `task` is what each worker is at. The queue is reduced to what the export needs of `TaskQueue`:
a message is delivered again until deleted, at most `MaxReceives` times.

### BrowserSession

A token has the number of its issue. `tab[t]` is what a tab shows (`at`), whether
it has a user, whether `AuthProvider` is still initialising, the half second
after a log-out, `isRefreshing`, and the address it was told to leave for.
`wire` holds requests from their sending to their settling: `first` is the
request whose 401 started a refresh, `queued` those in `refreshQueue`.
`Unauthorized` is the interceptor's 401 branch, `Refreshed` and `RefreshFailed`
its two continuations. Opening an address aborts the tab's requests: the server
may have served them, so `Orphans` stay on the wire, and the browser takes the
new cookie or does not. The server is reduced to rotation with replay detection;
`Sessions` has the rest.

### Triage

`LoadPage` reads one page of NEW applications as they are at that moment, so an
application decided between two pages is missing or not as in the code.
`Decide`, `Retract`, `UndoLast` and `ClearDecision` are `useTriageSession`'s
callbacks, each with the request it leaves behind; `Serve`, `Refuse`,
`LoseAnswer` and `Answer` are the life of that request, whose roll-back is the
handler's `.catch`. `flying` is a slide begun, `timer` whether the effect that
follows (`SlideEffect`) found the carousel to listen to and set its timer: on the
summary, where the keys still work, it does not. `CommitSlide` is the end of an
animation, by `transitionend` or by that timer; `EndSwap` comes two animation
frames later. Pixels are abstracted to whether a drag passed `SWIPE_TRIGGER`.
`doubtful` is a history variable: candidates with two updates under way at once,
with a lost answer, or left behind by a page that went.

### CursorList, AdminConsole, AdminPages, ReviewQueues, AdminSite

A behaviour is about one page (`scene.home`), with its own handlers; list, pane,
dialogs, requests and the way answers come back are shared. A request (`calls`)
remembers what its handler closed over (`saw`), and the rest of the handler runs
on that. A request whose page was left is `AnsweredLate`, where a `navigate()`
still takes effect. The texts of a dialog's form are one edit number.

### ScreenFrame, ApplyWizard, Forms, CompanyBoard, CandidateDesk, Screens

A behaviour tells one story: a screen, how many requests its handlers may send,
and where component and rows start. A field of a form is whether its validator
refuses it (`refused`); a password is absent, weak or strong. The wizard's
prefill, its claim of an earlier registration and the end of its session may come
between any two steps. A column of the board is the set of its cards: a drag is
reduced to the column it ends in, and the order within a column, which localStorage
keeps, is left out, since no code decides by it in which column a card is. The
resume's rename is a state of its own (`renaming`): a failed one leaves the editor
open, with upload and removal at hand. The inline editor of the dashboard is
mounted anew for each section and so forgets a save under way; its closing
animation is left out.

## 3. What the runs check

| Run | Result | What it shows |
|---|---|---|
| `jobs_concurrent` | passes | with two requests overlapping in every way: at most one live application per pair, the audit trail lacks companies' decisions and nothing else, a pushed pair keeps its decision, two closings never tell a candidate twice |
| `jobs_sequential` | passes | one request at a time implements `ApplicationLifecycle` |
| `withdrawal_not_final` | violated | a company's decision, which asks for no status, and an admin's that read the row before, overwrite a withdrawal |
| `sessions_concurrent` | passes | with two requests overlapping: a token is never live and consumed, a session has one live token, a token that logged out is never live again, and a log-out that found its row ends the session |
| `sessions_sequential` | passes | one request at a time implements `SessionRegistry` |
| `accounts_concurrent` | passes | with two requests overlapping: of the links of registrations only the latest opens, no company is active unapproved, an active candidate has its profile unless an admin erased it |
| `task_queue` | passes | no task lost, duplicates bounded, every message settles |
| `export_one_worker` | passes | one active export; a link has its row |
| `browser_session` | passes | one refresh under way exactly while the flag is up, no request left in the queue of a page that stays, every request settles or its page goes |
| `triage` | passes | a candidate is always on screen, the undo offered is for a decision that stands, a decision on screen is in the database unless its updates overlapped or lost an answer, every slide begun on the carousel ends |
| `admin_console` | passes | on nine pages: a skeleton means a page under way and ends, the pane shows the selected record, flags match requests, rows leave for a reason |
| `screens` | passes | forms are sent whole, once; no card is lost and each ends in the column of its status; what is shown as saved is saved |

The violated property states what an error message of the code says ("Cannot
change status of a withdrawn application"); `PROJECT.json` quotes it. It is a
property of the same module and bounds as `jobs_concurrent`, so the properties of
that run hold in spite of it.

Three handlers do less than their texts say. The models follow the handlers, and
the properties next to them are stated as far as they are true:

- A company's decision (`_jobs_applications.py:110-164`) looks at no status and
  writes no audit row. One request turns WITHDRAWN or JOB_CLOSED into HIRED or
  REJECTED (`withdrawal_not_final`), and the timeline of the application ends in
  another status than its row. `ApplicationLifecycle` therefore lets a company
  decide from any status, and `TimelineLacksOnlyCompanies` says that such
  decisions are all the timeline lacks.
- A log-out whose token has been rotated meanwhile, or is not the newest, finds no
  row (`session.py:215`) and is answered with success, though the docstrings say
  "End the session" (`session.py:202`) and "Revoke the current session"
  (`login.py:172`); the session goes on in the token issued in its place.
  `LogoutIsFinal` says that this is the only case: the token presented is never
  live again, and a log-out that found its row, or whose token no rotation
  consumed, leaves no session.
- A slide begun by a key on the triage page's summary gets neither listener nor
  timer (`useTriageSession.ts:214-215`), against the comment above it that a timer
  fires if the event never arrives (`:209-211`). It never ends, and should a decision
  that is refused bring the carousel back, none is taken there until the page is
  opened anew.
  `SlideEnds` is about the slides that have a timer.

Each run keeps to properties that hold of the code as it is. Other races
follow from the same actions and no run isolates them. On the server:

- an application whose job is closed between its last check and its insertion
  stays NEW on a closed job, and nobody is told;
- a log-in that verified the old password, or a refresh in flight, commits after
  a reset or a revocation and leaves a session open on what was revoked;
- a message that becomes visible while it runs is run by a second worker at the
  same time: tasks must bear it;
- a worker that dies between the commit of an export and the enqueueing of its
  link leaves an active export whose link is never mailed, and the redelivered
  task finds nothing to do;
- a company deletes a job approved since it was read; a password change signs
  out the caller whose cookie was refreshed meanwhile; a reset link, or a download
  link, is used by two requests at once; two resends, or two approvals, leave two
  open activation links; a registration replaces the password of an account
  activated since it was read; the deletion of an expired record of a consumed
  token is rolled back with the request that finds it.

In the browser:

- a refresh that fails does not drain `refreshQueue` (`services/api.ts:84`); that
  the requests in it do not hang for good is only due to the page being left;
- a refresh answered after a log-out stores its token again; a refresh aborted by
  a reload may have consumed the token whose successor never arrives; a log-out
  with an expired access token is refused by the server, which keeps the session;
- an undo of the triage page may be carried out before the decision it takes back;
- a reload, or a new filter, while a page is in flight is dropped by
  `useInfiniteList`, and the rows of the old filter stay;
- a rejected job is rewritten from the copy its dialog was opened with; a save
  answered late opens its dialog again; the keyboard shortcut of `JobCreateDialog`
  and `JobDialog` does not look at `isSaving` and may send a form twice;
- a move that fails puts back the order of all cards, other moves included;
- two saves of a profile answered in the other order leave the older one on
  screen; the wizard's prefill overwrites what was typed before it arrived; a
  resume that cannot be downloaded replaces the page by an error; the back button
  of `RegisterPage` works while the form is being sent.

### Bounds, and why they are enough

- Two requests in flight: every property relates the read of one request to
  the commits of others, and a third request adds commits that one of the two
  can make in turn. The proofs need no bound.
- One job and one candidate in `jobs_concurrent`, because the properties are
  about one pair, and two application rows, because they are about a second
  row of that pair. `jobs_sequential` has two candidates so that a cascade
  closes more than one row. In `jobs_concurrent` (1,289,620 states) an admin only
  reopens, with NEW: that is what lets a row be withdrawn or closed a second time,
  while REJECTED and HIRED come from the company; JOB_CLOSED must stay out there,
  as `CascadeTellsOnce` is stated for admins that do not set it by hand.
  `jobs_sequential` has all but WITHDRAWN and JOB_CLOSED, and the proofs have any.
- Three tokens allow a session with two rotations, or two sessions with one
  rotation. One reset token and `MaxPassword` 1 or 2 allow a change and a
  reset to overlap, or to follow one another.
- Two accounts, three tokens and two profiles in `accounts_concurrent`: a
  company that makes room for a candidate, two registrations and a resend of one
  account, a profile deleted and inserted again.
- Two messages, two workers, a batch of two, three receives: a message can
  expire while it runs and while it waits behind another, on either worker, and
  reach the dead-letter queue after a duplicate.
- Two exports, two builds, two deliveries each: a second request, a redelivery
  of each, and an export after an expired one.
- `browser_session` (69,872 states): one tab, two tokens, two requests or opened
  addresses, so that two requests meet one refresh, a refresh fails while one
  waits, and a reload comes in between. The proofs need no bound, and cover any
  number of tabs.
- `triage` (394,104 states): four candidates, the second settled before, pages of
  one of which two are loaded, two updates and two visits: two neighbours to slide
  between, a decision with its undo, and a page left with updates under way.
- `admin_console` (290,930 states): every page with one or two rows in pages of
  one, so that a second page is loaded while another handler acts, and one or two
  requests (`MCAdminSite`); a second visit where late answers matter.
- `screens` (1,472,195 states): every screen with a request that fails and one that
  follows, the profile with three, whose answers can cross, and the board with three
  moves of two cards, so that two moves of one card cross and a failure meets a later
  move (`MCScreens`).

Symmetry is used for the sets no definition orders, and not in the runs that
check liveness. Deadlock is not checked in `task_queue`, `export_one_worker`,
`accounts_concurrent` and the four browser runs, which stop when the bounded
messages, rows, requests and visits are used up.

### Fairness

`TaskQueue` assumes weak fairness of each worker's loop
(`WorkerStep`), since `run` polls without end and each task returns or raises,
and weak fairness of the queue's own steps (`QueueStep`), since SQS lets every
timeout expire and moves an exhausted message. Sending and crashing are nobody's
duty: a message may never be sent, a worker may crash any number of times.

In the browser, `Triage` assumes that the timer behind a slide fires, animation
frames are drawn and a fetch of the queue is answered (`CommitSlide`, `EndSwap`,
`LoadPage`); `AdminSite` that a page of rows under way is served and lands or
fails; `BrowserSession` that every request of a page, and the refresh of a tab, is
answered, refused or lost, and that a document told to leave does. HTTP clients
time out and browsers run their timers, so each of these ends. No user is assumed
to do anything. `Screens` assumes no fairness and states no liveness.

## 4. What is proved

All theorems hold for every value of the constants that meets the assumptions its
module names (`ConstantsAssumption`, `ExportAssumption`, `AppAssumption`,
`BrowserAssumption`, `ConsoleAssumption`, `StoryAssumption`, `NoneAssumption`).
`StoryAssumption` says that a story begins with a screen just mounted and any rows
the server may have by then; `NoneAssumption` that null is no record of the server's.

| Theorem | Argument |
|---|---|
| `JobApplicationsProofs!TypeCorrect` | `TypeInv` adds to the types what a request in flight carries by operation, and that an inserted row has a pair |
| `JobApplicationsProofs!OneLiveApplicationHolds` | every step that makes a row live passes `IndexAdmits`; a closing cascade keeps live rows live |
| `JobApplicationsProofs!TimelineHolds` | an inserted row is NEW and its trail says so; every later write of a status either writes the audit row in the same transaction, or is a company's, sets one of its two statuses and is marked as such until the next audit row |
| `JobApplicationsProofs!PushedPairStays` | the decision row and the pushed application commit together, and only the deletion of the job removes the former, which takes the latter along |
| `JobApplicationsProofs!CascadesTellOnce` | `EditInv`: the lock on the job row admits one edit of it at a time, and a request that selected a batch holds that lock; with it `BatchesOpen`: no row of a batch is closed already. A row that becomes JOB_CLOSED is in the batch of the commit that closes it, whose locks no other batch of that job overlaps. Assumes `"JOB_CLOSED" \notin AdminStatuses`, which is what `jobs_concurrent` instantiates |
| `JobApplicationsProofs!LifecyclePromised` | the refinement, step by step, the company's decision among them: `ReadInv` says that the one request still finds what it read (`ReadsHold`), so that its commit is one operation of `ApplicationLifecycle` on the rows as they are; every other step changes neither jobs nor applications. Assumes `OneRequest`, which is what `jobs_sequential` instantiates |
| `SessionsProofs!TypeCorrect` | needs that the password is set by one request at a time (`OneSetter`): the lock on the user row |
| `SessionsProofs!UsedNeverLiveHolds`, `OneLiveTokenHolds`, `LogoutIsFinalHolds` | `ThreadInv`: of the tokens of one session at most one is not consumed, and every live token is not consumed. A refresh or log-out must consume its token, which the unique constraint allows once, so it is the session's last: after a log-out that found its row none is left. One that did not presents a token that was deleted without a rotation, and then the session has no live token either, or one that was consumed |
| `SessionsProofs!SessionsPromised` | the refinement, step by step: by `ThreadInv` a session has one token that is not consumed, so rotation maps to a stutter, and by `SoloInv` the batch of a bulk deletion is still all that is live but the caller's, so its commit ends exactly the sessions `SessionRegistry` ends. Assumes `OneRequest`, as in `sessions_sequential` |
| `AccountsProofs!TypeCorrect`, `LatestLinkOnly` | `RequestOK`: a registration that holds the lock of an account knows every open link of a registration for it, and `OneLock`: no other holds it. So none is minted that it does not delete |
| `AccountsProofs!ApprovedCompanies` | `TokenOK`: a token of a company exists only after an approval, the role of an account never changes, and `RequestOK` carries this to an activation in flight |
| `AccountsProofs!LinkedProfiles` | an activation links or inserts a profile in the transaction that activates, and only an erasure unlinks one |
| `WorkerProofs!TypeCorrect`, `NoTaskLostHolds`, `DuplicatesBoundedHolds` | each receive hands out one ticket to run a message, and runs plus tickets held never exceed receives |
| `WorkerProofs!ExportTypeCorrect`, `LinkHasRowHolds` | a worker that is about to mail, and a request that serves, name a committed row |
| `WorkerProofs!OneActiveExportHolds` | with one worker, no row is pending while that worker is between its check and its commit |
| `TriageProofs!TypeCorrect`, `IndexInQueueHolds`, `UndoNamesADecidedCandidateHolds` | `SessionInv`: while the queue is empty nothing is decided, nothing slides, no timer runs and every update under way belongs to a page that went; every decision, and every decision an update would bring back, was made at a place of the queue |
| `TriageProofs!ShownDecisionIsSavedHolds` | `SavedInv`: of a candidate that is not `doubtful` at most one update is under way, it belongs to this page, and it is about what the page shows; a refused one brings back what the server has |
| `BrowserSessionProofs!TypeCorrect`, `OneRefreshPerTabHolds` | `TabInv`: the refreshes of a tab are one if `isRefreshing` is up and none otherwise; the server and the network change the state of a refresh, never its number |
| `BrowserSessionProofs!QueueIsServedHolds` | `TabInv`: a tab with a request or a refresh under way has a user and is not on the log-in page, or is being left; so the one page a failed refresh does not leave has nobody waiting |
| `AdminSiteProofs!PaneShowsItsRecordHolds` | `PaneInv`: a pane that is not idle holds the selected record or nothing yet. Every handler of every page follows a new list or selection with the pane (`Look`), leaves both alone, or mounts the page anew |
| `AdminSiteProofs!SkeletonMeansFetchingHolds`, `RowsLeaveForAReasonHolds` | `ListOK`: rows are a sequence, and a list that loads has a page in flight. Every action is one of a few steps on the list (`ListStep`, `ListPaging`); of these only a removal, by the id a request of this visit carries, and a page that replaces all rows let a row go. The lemmas on `RowsAt` say which rows a removal keeps |
| `AdminSiteProofs!FlagsMatchCallsHolds` | `FlagsInv`, over the frame `FrameInv`: a flag is up with one request of its kinds in this visit and down with none. A request is sent while its flag is down and raises it, only its own answer takes it down, and a new visit, with a greater number than any request carries, begins without either. It needs that rows of pending companies and invites have ids (`NamesInv`), or an acting id could be null while a request is under way |
| `ScreensProofs!FormsSubmitWholeAndOnceHolds` | `WizardInv`, `FormInv`: a request under way raises the flag that keeps a second from being sent, and its body passed the checks of the handler that sent it. An effect without an answer yet is either the one request's or makes the story doubtful, and after it the form is gone |
| `ScreensProofs!NoCardIsLostHolds` | `BoardInv`: not only the order on screen but every order a move would put back holds each card (`MoveOK`), and a move under way while a board loads was made on an earlier one |
| `ScreensProofs!ColumnsAgreeWithServerHolds` | `BoardAgrees`, while the story is not doubtful: the columns are those of the statuses shown, no two moves under way are of one card, a card without a move has the server's status, and the last move remembers the board as it was before it, so that taking it back restores just its card |
| `ScreensProofs!ShownRecordIsSavedHolds` | `DetailInv`: what an application on screen differs by from the server is in the answer of a save under way. `ProfileInv`: an answered save carries the record of its rev, and the record of the last rev is on screen or in the answer of a save under way |

The screens share their variables, so each of these invariants speaks of the stories
of its screen, over a frame that holds in all (`FrameInv`: requests are numbered in
the order they are sent, and are of the kinds their screen sends).

The invariants are not inductive as they stand: whether a commit is harmless
depends on what its request read, so each strengthening says what a request in
a given step may still rely on. Most of them were
checked by TLC before they were proved.

The two refinements are proved where they are true: with requests that
overlap, an application is inserted on a job closed meanwhile, and
`withdrawal_not_final` shows, in its second case, a status written over a later one.

Only model-checked: the liveness properties `EveryMessageSettles`, `SlideEnds`,
`LoadingEnds` and `CallsSettle`, as liveness under fairness is beyond the prover.
Every other property of a passing run has a theorem.

## 5. Plan

Done: the three transactional cores, the queue and the export, the browser's
session, the triage page, the admin lists and review queues, the wizard, the
forms, the board and the candidate's pages. Next, in this order:

1. `Invites`: issue, resend, revoke, expiry and use, with an abstract
   specification of a single-use invite, composed with `Accounts` at
   `RegisterCompany`. Property: one pending invite for an address.
2. `Lockout`: the counting of failed log-ins and its clearing by a log-in or a
   reset. Property: how many guesses get through between two locks.
3. `CandidateFiles`: resumes in the object store against the two tables that
   name them, with purge and removal. Property: no row names a missing object.
4. `EmailQuota` and the cursor arithmetic of `pagination.py`, as functions
   checked against a reference definition.
5. `BrowserSession` composed with `Sessions`, so that a tab's refreshes meet the
   races of the server's bulk deletions.

Theorems to add with them: single use of invites and the bound on guesses.

## 6. What is not modelled

Presentation, SEO rendering, analytics, the Sentry tunnel, PDF and e-mail
templates, text extraction from resumes and the calls to the embedding service
keep no state whose order matters or are pure input and output. The contents of
rows (texts, names, addresses) are abstracted wherever no property tells them
apart, and in the browser pixels, animations and wording. The parts of the plan
above are not modelled yet. Of the frontend, the pages that render what they
fetched (home, about, job listings, overview, matches), layout, and the deletion
of an account are left out: no handler of theirs depends on the order of others. Rate limits by IP address belong to a library (`slowapi`). Deployment,
migrations and monitoring are outside the program.
