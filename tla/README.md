# StudyFrame in TLA+

StudyFrame turns a folder of course material into a *snapshot* (source files,
real exam questions, topics, solutions) and lets a learner practise on it; its
server and page grew out of T3 Code, an orchestrator of coding agents. This
directory holds TLA+ models of the parts of the program that have to get
interleavings, failures and stale copies right, the TLC configurations that check
them, and TLAPS proofs for the core of them. Every definition is a translation of
code; `PROJECT.json` (`map`) names the lines.

    tlc -config JobsCrash.cfg MCProcessingJobs.tla     # check a run
    tlapm ProcessingJobsProofs.tla                     # check proofs

Contents: [1 Inventory](#1-inventory) - [2 Plan](#2-plan) -
[3 The modules and the code](#3-the-modules-and-the-code) -
[4 The runs](#4-the-runs) - [5 Disagreements found](#5-disagreements-found) -
[6 The proofs](#6-the-proofs) - [7 What is not covered](#7-what-is-not-covered)

## 1 Inventory

### 1.1 The study path

**Course processing jobs** (`apps/server/src/studyFrame/processFolder.ts`).

- *State*: a durable row per job (status and stage), its events and artifacts;
  in the memory of the server process the sets `runningJobs` and
  `cancelledJobs`; a detached fiber per job with a local copy `job` of the row;
  one fiber per cancel request with a copy of its own.
- *Operations*: start, retry (a new job on the same source root), cancel, and the
  runner: eleven stages, each entered by saving the whole row and appending an
  event, most followed by `throwIfCancelled`; provider resolution; import,
  analysis, redaction; the commit (`saveSnapshot`); completion; the error handler
  and the finalizer.
- *Hard*: rows are loaded, copied and saved whole by several fibers; the cancel
  flag races the last check; each statement may fail alone; a restart loses the
  sets and the fibers, and nothing looks at active rows when the server starts.
- *Correct when*: a job cancelled in time never replaces the course; the final
  status tells what happened to the course; rows do not stay active with nobody
  working on them; a retry does not race its original; every job ends.

**Repository and HTTP API** (`persistence/Layers/StudyFrame.ts`,
`studyFrame/http.ts`). The snapshot is replaced in one transaction; rows, events
and artifacts are single statements. The GET and PUT snapshot routes carry the
complete snapshot with no version.

**Snapshot synchronisation** (`apps/web/src/study/studyServerSync.ts`).

- *State*: the store (also in localStorage), `saveTimer`, `lastSavedJson`,
  requests in flight, the server's snapshot.
- *Operations*: the first load, seeding an empty server, debounced complete saves,
  their answers, page reloads, and the refresh after a processing job.
- *Hard*: saves are not serialised; failures are swallowed; a reload kills timers
  and requests at any moment; jobs replace the server's snapshot behind the page.
- *Correct when*: what was saved stays saved; a page that differs from the server
  knows it; when everything is quiet the two agree; each step reaches the server.
  The first three hold but for saves that were overtaken, and the last as long as the
  debounce ends; the properties say so one by one.

**Study store** (`study/studyStore.ts`, `studyLogic.ts`, `studyVisibility.ts`;
views in `components/study/StudyWorkspace.tsx`).

- *State*: dataset, attempts, completion summaries, generated batches; selection,
  active question, help shown and solutions opened, results dialog, review mode.
- *Operations*: select project, topic, question; direction check, hint, submit,
  reveal; next, results, repeat all or the imperfect ones, review, generate
  similar; provider replies; replace dataset, reset.
- *Hard*: three kinds of provider replies that arrive after the learner moved on,
  reset, or changed topics; a load that replaces half of the state; long legal
  sequences over dialog, review mode and open solutions.
- *Correct when*: no solution is shown before its question was tried; generated
  questions stay locked until every real one was attempted; the summaries, the
  feedback and the revealed marks agree with the attempts.

**Provider feedback and similar questions** (`feedbackWithProvider.ts`,
`generateSimilarWithProvider.ts`): answer from the snapshot the *server* holds, and
re-check there that generation is unlocked. Any failure leaves the page's local
result in place.

**Import and processing dialog** (`components/study/StudySidebar.tsx`).

- *State*: whether it is open, `processingJob`, `importingFolder`,
  `stagingMaterials`, `imported`, `sourceRoot`, `openedMaterials`, the ticket of the
  latest staging request; the polling effect with its interval, its closure and what
  it waits for.
- *Operations*: open, close, type or open a path, drop and stage materials, start,
  retry, cancel; poll the shown job; refresh the dataset once it succeeded.
- *Hard*: late answers after the dialog was closed; staging requests that overtake
  one another; an effect that depends on the job it sets, so that each answer runs
  the cleanup of the effect that asked.
- *Correct when*: what is processed is what is listed; the busy flags fall; the shown
  job is followed to its end; the refresh is not older than the job it follows.

**Course import, analysis, source security** (`importFolder.ts`,
`stageSourceMaterials.ts`, `analyzeProject*.ts`, `sourceSecurity.ts`): sequential
work on one snapshot, no state between calls; they are the work of stages 2, 4 and
10 of a job.

### 1.2 Inherited from T3 Code

**Orchestration engine** (`apps/server/src/orchestration/`): projects, threads and
turns as an event-sourced model.

- *State*: the event log, the projection tables and the command receipts; in memory
  the command queue, the read model commands are decided on, and the hot stream.
- *Operations*: dispatch; the worker's receipt lookup, decision, transaction,
  publication, answer; the reconciliation after an error; bootstrap on startup.
- *Hard*: commands sent again after a lost answer; a commit that went through and
  was reported as failed; events published by the normal way and by the reconciliation.
- *Correct when*: a command takes effect at most once; read model and hot stream
  follow the log; one fiber serves everybody and is never stopped by an error.

**Shell subscription** (`ws.ts`, `apps/web/src/environments/runtime/service.ts`): the
page keeps the list of projects and threads by a snapshot followed by the hot stream.
*Hard*: the gap between the two, rows read later than their event, reconnects.
*Correct when*: the page never goes back and ends with what the tables hold.

Message and turn details, reactors, provider sessions, terminals, authentication,
version control and checkpoints, desktop shell, mobile, telemetry, protocol packages
and scripts are listed in `PROJECT.json` with the reason why they are not modelled
(yet).

### 1.3 How the parts interact

The page calls the HTTP API: snapshot GET and PUT (synchronisation), job routes
(dialog), feedback and generation (store). Jobs and page share **one** durable
snapshot, written by `saveSnapshot` from both sides; that is where SnapshotSync and
ProcessingJobs meet, and `Commit` of SnapshotSync is `Commit` of ProcessingJobs seen
from the page. The store calls the synchronisation through a subscription: every
store event re-enters `scheduleSave`. Provider replies come back to the store as
callbacks that read whatever state there is by then. The dialog calls the job routes
and, when a job succeeded, hands the server's snapshot to the store, which is the
`Refresh` of SnapshotSync. The engine's hot stream is the input of the shell
subscription, so `ShellStream` extends `OrchestrationEngine`: every step of the
engine is a step of the composition.

## 2 Plan

In order of importance. Done:

1. `CourseImport` (abstract) and `ProcessingJobs` (detailed, implements it).
2. `SnapshotSync`: page and server, with the commits of jobs.
3. Proofs for ProcessingJobs: types, safety, trail, refinement.
4. `StudySession`: the store, the conditions of the views, provider replies.
5. `ImportDialog`: staging, polling, start, retry, cancel and close.
6. `CommandLedger` (abstract) and `OrchestrationEngine` (detailed, implements it, with
   proofs); `ShellStream`, the composition of the engine with a page that follows it.
7. Proofs for SnapshotSync, StudySession and ImportDialog, for the engine's hot stream and
   tables, and for the shell: every safety property of the passing runs.

Left:

8. `ReviewQueue`: the full comparator of `orderRealQuestionQueue`, the weighted
   scores and the source selection as operators against reference definitions.
9. `DurableSnapshot`: an abstract versionless register with two writers, which page
   and jobs implement together.
10. The life cycle of a turn (messages, activities, checkpoints, the reactors), the
    provider session directory and its reaper, the desktop backend manager (restart
    with backoff), pairing credentials.

## 3 The modules and the code

| module | models | kind |
|---|---|---|
| `CourseImport` | what the job service promises | abstract specification |
| `ProcessingJobs` | `processFolder.ts` with the job tables | detailed specification |
| `ProcessingJobsProofs` | | proofs |
| `SnapshotSync` | `studyServerSync.ts`, the snapshot routes | detailed specification |
| `SnapshotSyncProofs` | | proofs |
| `StudySession` | `studyStore.ts`, `studyLogic.ts`, `studyVisibility.ts`, conditions of `StudyWorkspace.tsx` | detailed specification |
| `StudySessionProofs` | | proofs |
| `ImportDialog` | the import dialog of `StudySidebar.tsx` | detailed specification |
| `ImportDialogProofs` | | proofs |
| `CommandLedger` | what the engine promises about a command | abstract specification |
| `OrchestrationEngine` | `OrchestrationEngine.ts`, `decider.ts`, `commandInvariants.ts`, projections | detailed specification |
| `OrchestrationEngineProofs` | receipts, ledger, hot stream | proofs |
| `OrchestrationRowsProofs` | log, rows, read model | proofs |
| `ShellStream` | `subscribeShell` of `ws.ts`, the page's environment runtime | composition with `OrchestrationEngine` |
| `ShellStreamProofs` | | proofs |
| `NumberLemmas` | least and greatest numbers of sets, for the proofs | lemmas |
| `MC...` | constants and symmetry for TLC | model checking |

Definitions whose comment begins with "Mutant" are deliberately wrong variants of
the definition that follows. They are not part of any specification; each shows
that a property notices a plausible mistake in that piece of code.

### 3.1 ProcessingJobs

`row`, `trail` and `snapshot` are the tables, `runner` the fibers with their control
point and local `job`, `runningJobs` and `cancelledJobs` the process-wide sets,
`request` the cancel handlers with the copy each loaded. `origin`, `committed` and
`inTime` are history variables: no action reads them except to extend them.

The server takes a retry of any job whose row exists (`RetryJob`), whatever its status;
that only failed ones are retried is the dialog's doing (`RetryOffered`), and `origin`
records the retries that kept to it. `RetryNeverRacesOriginal` is about those: it says
that the condition the dialog goes by is enough.

A step is what happens between two repository calls. `Persist` is `updateJob` or its
kin: save the row, append an event, two statements of which the second may fail
after the first succeeded. The runner walks `enter -> (work ->) check -> enter` over
the stages; `AfterEnter` says what follows each. Stage 11 has no check between its
row update and the commit, as in the code. `failing -> failSave -> finally` is the
handler and `Effect.ensuring`. A cancel request loads (`CancelLoad`), sets the flag
whatever the status (`CancelMark`), and saves its copy as cancelled if the copy was
active (`CancelSave`).

Abstractions: what a job produces is its id; events and artifacts are a set per job
(warnings and errors left out); progress counters and messages are left out; the
provider is there, absent or unreadable by choice.

### 3.2 SnapshotSync

A snapshot is a course and a set of study steps. The store, `timer` and
`lastSaved` are the page's; `wire` holds PUTs in the order they were sent, each
with its state on the server and whether a page still listens (`heard`). `Schedule`
is `scheduleSave` with its early return; `Fire`, `Serve` and `Answer` are the timer
callback, the route and the continuation. `Reload` keeps the store (localStorage)
and drops timers and `lastSaved`; a PUT already sent may still be served. `LoadApply`
may leave `lastSaved` unknown, because the JSON of what the page derives from the
server's snapshot need not equal what it received.

Nothing serialises the requests or gives them a version, so PUTs are served and answered
in any order, also after the page that sent them was reloaded, and the GETs of a load or
of a refresh are answered whatever is still under way. What that order does is recorded,
since the code keeps no mark of it: a PUT is `late` once a later one was served before
it, or the answer of a later one was remembered, or a page loaded; `behind` says that the
server's snapshot is that of a late PUT, and `misled` that `lastSaved` is.

Time is left out: an armed timer may fire at any moment, and need never fire, as any
number of events (`Touch`) may start it anew.

### 3.3 StudySession

One action per store action; `Practising`, `CanMoveNext`, `ResultsReady` and
`Answerable` are the conditions under which the workspace renders the button
that calls it. An answer is the score it is given, by the local grader or by a
reply, chosen from `Scores`. `Heads` keeps the first two keys of the review queue
(attempted, best score) and leaves the others, which compare constants of the
questions, to choice. `summary` holds the latest summary of a topic as the best
attempts it is computed from. `pending` holds requests in flight, each with the
number of its check or the id of its attempt, and `feedback` says which check or attempt
the text on the screen is about; `Reply` handles requests
in any order, or drops them (`NoReply`: no provider, error, unusable answer).
The server's knowledge is `saved`, an earlier snapshot of the page. `Record` is
the part `submitAnswer` and `revealSolution` share.

Generated questions are the `Variants`, each used at most once: in the code they get
fresh UUIDs, so a question that was dropped by a reset or a load never comes back
under the same id. `origin` keeps which topic a variant was made for; it is history,
and needed because feedback and requests about a dropped question may outlive it.

`tried`, `checked` and `strayed` are history variables: what was submitted or
revealed since progress began, the newest direction check of a question since its
last attempt and whether it was made while an earlier one was unanswered (`asked`),
and which topics had an attempt regraded while another topic was selected.

### 3.4 ImportDialog

A variable per React state of the dialog; `job` is `processingJob` reduced to id and
status, queued and running being both active. `server` and `runner` reduce ProcessingJobs
to rows and to whether a runner is at work, past its commit, or over: a runner may save
its copy over a cancelled row (`Patch`, as in `jobs_cancel_undone`), the commit and the
succeeded row are two steps, a cancel looks at the row and saves it later, and a runner
may stop without a last save (`Stop`), which leaves the row active for good (`Stranded`).
`writes` is who wrote the snapshot, in this order: jobs, and the page, whose complete
saves (SnapshotSync) replace it as well. The folder picker is open between `OpenFolder`,
which asks whether the dialog is busy, and `FolderPicked`, which no longer does.
`stagings` are the staging requests in flight, `current` standing for the comparison with
`stageRequestId`.

A start or a retry is answered with its job or fails. The dialog also has a branch for a
retry that is answered with no job (`StudySidebar.tsx:668`); the retry route answers with
the job that `startStudyFrameProcessingJob` returns, or with status 400
(`http.ts:393-403`, `processFolder.ts:65-80`), so the branch is not modelled.

The polling effect has an interval (`timer`), a closure (`polled`) and promises in
flight (`polls`). Setting the job makes it `dirty`; `Render` is React running the
old cleanup, which cancels every promise of the old effect, and the effect anew.
Between the two, answers still reach the old effect, which is why a success may start
a refresh that the next rendering drops; the effect that follows polls once more only
if the job is active. The dialog's handlers read state and refs of the latest
rendering. `onFolderImported` is taken to be stable (the code base is compiled with
the React Compiler); a changed `projectId` is `Rerun`. JSON import, previews,
event lists and messages are left out, but for the closing that the import ends with.

### 3.5 OrchestrationEngine and CommandLedger

`log`, `rows`, `receipts` are the tables; `commandQueue`, `readModel`, `published` the
engine's memory; `worker` is `processEnvelope` with its envelope, the position at which
it began, and the events that wait to be published. `Plans` is the decider: the set of
event sequences a command may append, empty when it is rejected; there is more than
one only for a forced project deletion, which deletes the threads in the order of the
read model. Tables and read model are kept by two pieces of code, and so they are here:
`Apply` and `Project` are the projections of `ProjectionPipeline.ts`, `ProjectEvent` and
`Replay` those of `projector.ts`, and that they agree is checked (`ReadModelCurrent`) and
proved (`ReplayIsProject`). `Commit` is the transaction together with the synchronous
replacement of the read model; `RollBack` and `CommitInDoubt` are its failures without
and with effect. `Reconcile` reads back the events after the start of the envelope.

Abstractions: "thread.update" stands for all commands that need their thread and
append one event to it; which proposed plans a thread holds is left out, so a turn that
names one may be rejected for it (`PlanUnknown`); what a row holds
besides its life cycle is left out. Unlike projects, the code lets a deleted thread
be archived, updated or sent turns; so does the model (`Exists`, not live). A body is
bound to its command id, since callers make a new id for each command. On startup all
projectors have caught up, as they run in the transaction of each command.

The ledger is per command: it enters the log as one batch or never, it may be
refused for good, and callers are told accordingly.

### 3.6 ShellStream

`stream` is one subscription: the snapshot read in one transaction, and then how much of
the hot stream was forwarded. `view` and `version` are the page's. The contents of a row
are the position of the last event of its project or thread. `Deliver` forwards an event
with the row *as it is by then*, or nothing when the row is gone, and the page drops
what is not newer than its version. When two snapshots have one sequence number their
update times decide, which depend on clocks: either may happen. `Attach` is external
knowledge of Effect: `Stream.concat` subscribes the second stream when the first
has ended.

## 4 The runs

| run | question | bounds | distinct states |
|---|---|---|---|
| `jobs_crash` | safety, refinement and liveness of one job with failures | 1 job, 1 cancel request at a time (any number in sequence), 1 restart, 2 failing statements | 37 thousand |
| `jobs_retry` | two jobs, independent or retry, and cancels | 2 jobs, 1 request, no failures | 2.9 million |
| `sync_saves` | what saving loses and when, quiet means equal | 2 steps, 1 committed course, 2 PUTs in flight in any order, 1 reload, 1 reset, 1 failure | 670 thousand |
| `sync_live` | every step reaches the server | 2 steps, 2 PUTs in any order, 1 reload, 2 resets, 1 failure | 180 thousand |
| `session` | attempts, feedback, solutions and summaries with late replies | 2 topics of 1 question, 2 attempts, 2 direction checks, 2 requests in flight | 1.2 million |
| `session_reload` | the same over reload, load and a new start, with generation | 1 topic, 2 questions, 1 variant, 2 attempts, 1 reload, 1 reset | 650 thousand |
| `dialog` | late, crossing and failing answers to the dialog | 2 jobs, 2 sets of materials, 2 polls in flight, 1 save of the page, 3 clicks | 270 thousand |
| `engine` | commands once, log, read model and stream in step | 1 project, 2 threads, 2 commands sent up to twice, 2 faults, 1 restart | 790 thousand |
| `shell` | the page follows the engine | 1 project, 1 thread, 3 commands, 1 fault, 1 restart, 2 subscriptions | 3.3 million |

and three runs of one property each that TLC refutes (section 5):
`jobs_cancel_undone`, `sync_overwrite`, `session_repeat`.

*What they show.* `jobs_crash`: `CancelInTimeNeverCommits`, `FlagOutlivesRunner`,
`StuckOnlyAfterCrash`, `SucceededLeavesFullTrail`, the refinement `ImplementsPromise`,
and under fairness `JobsSettle` and `RowsSettle`. `jobs_retry`:
`RetryNeverRacesOriginal`, `OutcomeMatchesSnapshot`. `sync_saves`:
`UnsavedIsNoticed`, `IdleMeansSaved`, `ServerNotAhead`, `StepsStaySaved`.
`sync_live`: `StepsReachServer`. `session`: `SummaryMatchesAttempts`, `RevealTracked`,
`FeedbackIsCurrent`, `ActiveInTopic`. `session_reload`: `GenerationUnlocked`,
`ResultsAvailable`, `NoSpoilers`, and `RevealTracked` over loads. `dialog`: `StagedIsListed`,
`RefreshIsCurrent` and under fairness `PreparingEnds`, `ShownJobSettles`, `BusyEnds`.
`engine`: `ReceiptsMatchLog`, `ReadModelCurrent`, `HotStreamIsLog`, the action
properties `DeletedProjectIsEmpty` and `CreatedOnceThenUsed`, the refinement
`ImplementsLedger` and under fairness `DispatchSettles`. `shell`: `ViewIsShell`,
`StoreMovesForward`. `TypeOK` of ProcessingJobs, SnapshotSync, StudySession and
OrchestrationEngine is checked once each.

*Why the bounds are enough.* Jobs share nothing but the snapshot and the retry
relation, so failures are checked on one job and relations on two; the safety
properties are also proved for any number (section 6). Two failures allow a
failing statement inside the handler of another. Two PUTs in flight are the
least at which a save overtakes another, or a load overtakes a save; two steps distinguish
an older from a newer snapshot; one course is enough for a save that replaces it and for
a refresh that crosses a save, and the proofs cover more. Two
attempts are the least at which a reply concerns an attempt that is not the newest,
and complete the topic of two questions of `session_reload`; two requests in flight let replies
cross, and two
direction checks let the reply to the first come after the second, with an attempt in
between or not. A
second reload, a third attempt or a third PUT repeats a situation from a state that
is already reached. The single cancel request may be reused any number of times, so
cancels in sequence are covered, overlapping ones are covered by the proofs.
In the dialog two jobs are a job and its retry, or two retries; two polls are an
interval that fires before the last poll was answered; three clicks are enough to
start, close and open again, or to start, cancel and stage something else, and one save of
the page to come between a commit and the refresh. In the engine two commands let each be decided on
what the other left behind, sent again before and after its answer; two faults allow a
doubtful commit and the failure to read it back; two threads make the order of a forced
deletion matter. In the shell a third command is needed for an event that is
overtaken by a newer snapshot of the same thread, two subscriptions for a gap between
them; its commands are interchangeable, which the symmetry uses.

*Deadlock* checking is off everywhere: bounded counters end every behaviour, and a
server with all its jobs done or a learner who stops is legitimately idle.

*Fairness.* `ProcessingJobs`: weak fairness of each runner and each cancel handler.
The Effect runtime schedules every runnable fiber, and import, analysis and
provider calls return or time out. `SnapshotSync`: weak fairness of the page's
promise callbacks and of the server's route handlers. Nothing is assumed of the timer,
which events less than 350 ms apart put off for as long as they last: `StepsReachServer` is
conditional on `[]<>(timer = None)`, that the learner pauses now and then. Nothing is
assumed of the learner, of restarts, of failures, or of jobs being started either. `ImportDialog`: weak fairness of React's rendering, of requests,
stagings and polls being handled and answered *or failing* (fetch does one of the
two), and of runners ending one way or another, which `JobsSettle` shows; that a row is
left active behind a runner that is over is one of the ways. `OrchestrationEngine`: weak
fairness of the worker, a fiber of its own; commits and statements need not succeed.
`StudySession` and `ShellStream` state no liveness.

*Escapes in the properties.* `OutcomeMatchesSnapshot` and `RowsSettle` except
failing statements and restarts where the code does nothing about them:
a failed save of the final row leaves a committed course with a failed job, and a
restart leaves active rows for ever (`StuckOnlyAfterCrash` says that nothing else
does). `SummaryMatchesAttempts` excepts topics regraded while not selected, which
the code leaves at the old grade (`strayed`). `RevealTracked` allows a second reveal
after a new start, because a load of the copy saved before it brings old reveals
back (section 5); its second part and that of `FeedbackIsCurrent` compare with attempts
only while no load replaced them. `IdleMeansSaved` speaks of pages without a new start,
which may leave a stale timer (section 5); `UnsavedIsNoticed` covers what follows.
`StepsStaySaved` excepts resets and committed courses, which are meant to drop steps.
All of these, and `ServerNotAhead` and `StepsReachServer`, except the state in which a late
save leaves the server (`behind`), and `UnsavedIsNoticed` after a reset also a late answer
that was believed (`misled`): the code does nothing about either. The exception ends with
the next save that was not overtaken. `FeedbackIsCurrent` excepts the text of an earlier
direction check in place of a newer one that was made while the earlier was unanswered
(`crossed`): the reply compares tones only.
`ReadModelCurrent`, `HotStreamIsLog` and the action properties of the engine except
events that the worker could not read back after a doubtful commit (`missed`): two
failures in a row, after which the code only logs. `ViewIsShell` excepts what such
events, an unreadable row, or the gap before `Attach` kept from the page (`lost`).
`ShownJobSettles` excepts a failed poll (`gaveUp`), which ends the polling, and
`BusyEnds` a dialog that was closed on an active job (`dropped`); both except a job whose
row no runner will end (`Stranded`), which is polled for ever.

## 5 Disagreements found

Each is a run in which TLC violates what a document, a text or a test says.

- `jobs_cancel_undone`: the runner saves its stale copy over a cancelled row, which
  is running again until the next check makes it *failed*.
- `sync_overwrite`: a save pending when a job commits replaces the course of the job.
- `session_repeat`: a question whose solution was revealed keeps it open for ever;
  repeating it later "without the solution visible" is impossible, since the
  answer field is hidden while it is open.

Two more were met in the same way and are described here without a run: a change undone
within the debounce leaves the timer armed with the undone snapshot, which is then saved
(the early return of `scheduleSave`, `studyServerSync.ts:85`); and two saves in flight
carry no version, so the older may be served last and then stays until the next save.
`canMoveNext` compares a best attempt, `null` when there is none, with `undefined`, so
"Next question" is always offered. Of the generated questions of a batch only the first
becomes active, and nothing leads to the second.

*Behaviours a maintainer may want to know*, as the models have them:

- A learner who starts over and reloads before that is saved gets the old attempts back
  with the first load, but not the opened solutions: a solution that was revealed can be
  revealed, and booked, a second time.
- Events published between the shell snapshot and the attachment of the hot stream reach
  nobody. A later event of the same thread repairs the page; a deletion in the gap leaves
  the thread on the page until the next snapshot.
- After a doubtful commit whose read-back fails as well, the read model stays behind the
  tables until the server restarts, and further commands are decided on it.
- A learner who never pauses for 350 ms never saves: every event starts the debounce anew.
- The reply to a direction check that was made before an attempt replaces that of a check
  made after it, since only the tone of the feedback is compared.
- The course the dialog loads after a success may be one that the page itself has saved
  over the job's in the meantime.
- A success of a job re-runs the effect whose cleanup normally drops the refresh of the
  dataset that the same answer has just begun, unless that is answered first.
- Closing the dialog on an active job leaves `importingFolder` true with nobody polling.
  Start and cancel answers that arrive later set the job of the closed dialog.
- One failed poll ends the polling, and the job stays shown as running. The late answer
  to the cancel of an older job replaces a retried one. Nothing keeps a learner from
  retrying a failed job twice, which starts two jobs; the server would also retry a job that
  is running.

## 6 The proofs

Each holds for every value of the constants that satisfies the named assumptions of its
module (sets are disjoint from `None`, bounds are natural numbers, topics partition the
questions, and the like).

| theorem | states |
|---|---|
| `TypeCorrect` | `Spec => []TypeOK` |
| `CancelInTimeIsSafe` | `Spec => []CancelInTimeNeverCommits` |
| `FlagSurvives` | `Spec => []FlagOutlivesRunner` |
| `OutcomeIsHonest` | `Spec => []OutcomeMatchesSnapshot` |
| `OnlyCrashesStrandJobs` | `Spec => []StuckOnlyAfterCrash` |
| `RetryIsExclusive` | `Spec => []RetryNeverRacesOriginal` |
| `SuccessLeavesTrail` | `Spec => []SucceededLeavesFullTrail` |
| `PromiseIsKept` | `Spec => ImplementsPromise` |
| `SyncTypeCorrect` | `Spec => []TypeOK` (SnapshotSync) |
| `ServerNeverAhead`, `SavedStepsStay`, `QuietPageIsSaved`, `UnsavedPageNotices` | `[]ServerNotAhead`, `StepsStaySaved`, `[]IdleMeansSaved`, `[]UnsavedIsNoticed`, with requests served and answered in any order |
| `StudyAlwaysInOrder`, `StudyTypeCorrect` | `[]StudyInv`, `[]TypeOK` (StudySession) |
| `GenerationStaysUnlocked` | `Spec => []GenerationUnlocked` |
| `ActiveStaysInTopic` | `Spec => []ActiveInTopic` |
| `SolutionsStayHidden` | `Spec => []NoSpoilers` |
| `RevealsAreTracked`, `FeedbackStaysCurrent` | `[]RevealTracked`, `[]FeedbackIsCurrent` |
| `ResultsStayAvailable`, `SummariesMatchAttempts` | `[]ResultsAvailable`, `[]SummaryMatchesAttempts` |
| `ProcessedIsListed`, `RefreshStaysCurrent` | `[]StagedIsListed`, `[]RefreshIsCurrent` (ImportDialog) |
| `SpecIInv`, `ReceiptsAlwaysMatchLog` | `[]IInv`, `[]ReceiptsMatchLog` (OrchestrationEngine) |
| `HotStreamFollowsLog` | `Spec => []HotStreamIsLog` |
| `EngineImplementsLedger` | `Spec => ImplementsLedger` |
| `SpecEngineInv`, `SpecTypeOK` | `[]EngineInv`, `[]TypeOK` (OrchestrationEngine) |
| `ReadModelFollowsDisk` | `Spec => []ReadModelCurrent` |
| `DeletionLeavesNoThread`, `CreationComesFirst` | `DeletedProjectIsEmpty`, `CreatedOnceThenUsed` (action properties) |
| `ShellSpecPageInv` | `ShellSpec => [](EngineInv /\ PageInv)` |
| `StoreNeverGoesBack`, `PageShowsShell` | `StoreMovesForward` (an action property), `[]ViewIsShell` |

*Types of ProcessingJobs* (`ProcessingJobsProofs`). `TypeOK` is not inductive: `Enter` adds one to the
stage of the local copy, so the copy of a runner that is still walking must not be at
stage 12, and a cancel handler past its load must hold a job. `Shape` is `TypeOK`
with `RunnerShape` (which stages go with which control points, rows exist where
runners do) and `RequestShape`. Every runner action has a lemma that reduces it to
one of two forms, `Persisted` (a row was saved, or a statement failed) or `Moved`
(only the control point changed), and `ShapeByJob` does the rest.

*Outcomes* (the same module). `Honesty` adds, per job: a job in
`inTime` has its flag set and a check ahead of it as long as it can commit, and has
not committed (`Withdrawn`); the row says succeeded only after the commit
(`Truthful`), and neither failed nor succeeded before; and while no statement failed
the handler never runs after the commit, and an ended runner leaves a terminal row
that agrees with the commit (`Faultless`). The flag part is the heart
of it: only `Release` and `Restart` remove flags, and both end the runner. The four
safety theorems follow from `Shape /\ Honesty` by cases on the control point.
`RetryIsExclusive` adds that the job an offered retry is for has passed the point where
it can commit, and that this is stable (`Past`).

*Refinement of CourseImport*. Under `OutcomeOf`, inserting a row is
`Request` (or a request abandoned at once when its insertion failed), setting the
flag with a check ahead is `Withdraw`, the commit is `Publish`, each way to the
handler is `Abandon` of one job, a restart is `Abandon` of all pending ones, and
everything else stutters. `Publish` needs `j \notin withdrawn`, which is
`Withdrawn` of the invariant.

*The trail*. The trail only grows, so what matters is that
a job cannot get ahead of it: `TrailedAll` says, for each control point, which events
and artifacts a runner has left by then. A failing append sends the runner to its
handler, from where no success is possible.

*Synchronisation* (`SnapshotSyncProofs`). All four theorems hold of requests that are
served and answered in any order. What the proofs follow are the saves *on time*
(`OnTime`): those the server has still to take that neither a later save nor the load of a
new page overtook. A save that was overtaken may do anything when it is served; the
server is `behind` from then on, until it takes one that was not. As long as nothing was
reset and no course committed (`Quiet`, the only case about which the two theorems on
steps claim something), the steps grow along a chain (`Steady`): the server unless it is
behind, the saves on time in the order they were sent, the armed timer, the store
(`Above`). A save on time that is served holds what the server held, and makes late
everything sent before it. A study step extends the store, a due timer moves to the end of
the wire, a failed request leaves the chain, a reload drops the timer, and a load makes
every save still under way late, so nothing is on time while its body waits to be applied
(`load.at = "read"`). `Waits` keeps the timer away until the load is done, and ties a
refresh to a commit.

`IdleMeansSaved` follows from an invariant of the page and the server together: the
snapshot that the server will hold when the armed timer and the last save on time are
done (`Target`) is the store's, unless the server is behind or a refreshed course is about
to be applied. The steps that could break it are those where `scheduleSave` returns early. A
study step is new, so the page cannot have saved it before, and a refreshed course is one
that was committed and not read, so no snapshot of the page has it (`Known`, `Awaited`). A
reset has no such argument, and does break it. `NoneIsNoSnapshot` keeps an empty timer apart
from an armed one, and `InOrder` says that lateness runs down the wire: what was sent
before a late save, or before one the server has taken, is late as well.

`UnsavedIsNoticed` asks what the page *believes*: it is quiet, differs from the server, and
still `lastSaved` must not be the store. The property allows resets or failures, not both,
and each disjunct has an invariant of its own. Without resets a store that was left is never
come back to, so once the page takes the store for saved, or a save of it can still be
confirmed, whatever is on time and was sent after that is the store itself (`Unmistaken`): a
step makes the store new, and a failed or forgotten save only leaves the page believing
less. Without failures the last save sent is one the page will hear of (`WillHear`, among
the answers it is still to remember, `Expected`), or its content is `lastSaved`, unless the
page takes nothing for saved or an overtaken answer misled it (`HasHeard`, together
`Followed`); so a quiet page is never wrong about what the server holds. `Loading` says what
a reload leaves behind, `NoneFailed` that failures are counted. That a refreshed course is
unlike any snapshot of the page (`Awaited`) had to hold with resets too, which it does as a
reset goes back to `Seed`, a course no job commits.

*Study session* (`StudySessionProofs`). `StudyInv` is `Content` (attempts are of
questions that exist, on their topics; generated questions belong to topics whose real
questions were all attempted), `Server` (the copy on the server satisfies the same,
which is what a load needs), `View` (the active question, the dialog and review mode
fit the selected topic), `Help` (what is open was tried) and `Counters`. One lemma per
action, one step per part it can disturb. The proof led to a correction of the
model: with ids that may be reused, a late reply about a dropped variant would concern a
new question of the same name; in the code ids are never reused (`origin`).

`Shown` adds that a solution is booked once (`Once`), on the page and in every copy a load
may bring back, that what is open is on record (`Opened`), and which attempt or which
direction check the feedback on the screen belongs to (`Advised`). A check's text on the
screen is that of the newest check, or of one that was unanswered when that was sent
(`OfCheck`); the same is kept of the checks still unanswered (`Awaited`), so an answer
that arrives cannot be older than that. `Summary` says that a finished topic has a summary
of its best attempts, on the page and on the server. That a finished topic *has* a newest and
a best attempt of each question is a fact about finite sets of numbers; it is derived
from the well-foundedness of the strict subsets of an interval (`GreatestNumber` of
`NumberLemmas`), because no induction theorem can be instantiated.

*Dialog* (`ImportDialogProofs`). A staging whose ticket is the current one is about the
materials that are listed, and whoever changes the list takes the next ticket or
empties the staged root; so what a start sends is what is listed. A poll or a refresh
that saw a success has the commit of its job among the `writes` of the snapshot, and that
write was there when the refresh read. The saves of the page are writes as well; they
may replace what the job wrote, which is why nothing is claimed of the course itself here
(`CommittedCourseStays`, section 5).

*Engine* (`OrchestrationEngineProofs`). `IInv` is the types of what the steps read, what
the control points say of the receipt of the worker's command (past the lookup, it has
none before the transaction), and `ReceiptsMatchLog`. The heart is that
`Commit` and `CommitInDoubt` append one batch of a command that has no entry. Under
the mapping, both are `Enter`, the filing of a rejection is `Refuse`, an answer is one
of the `Tell` actions, and everything else stutters. For the hot stream, what is
published and what the worker still has to publish form one ascending sequence of
positions; each position up to the read model's was announced or missed, and each beyond
it was missed or is about to be read back.

*Rows* (`OrchestrationRowsProofs`). `RowsInv` says that the rows are `Project` of the log,
and that the read model's are `Project` of the log up to `readModel.seq` unless a missed
event lies before it (`Applied`). `Project` is a recursive function over the events. What it
computes for *every* log would need induction; that it can be computed batch by batch is
enough, and is derived from the least number at which the two ways of computing it
would differ (`LeastNumber`). The in-memory projector and the tables' pipeline are two
functions in the model as in the code; on every sequence of the engine's events they agree
(`ProjectEventIsApply`, `ReplayIsProject`). `ReadModelCurrent` follows, since outside a reconciliation
the read model has no event left to apply (`CurrentModel`).

`DeletedProjectIsEmpty` needs that the order in which a forced deletion goes through the
threads leaves none out: `Plans` takes any enumeration without repetition, and one as long
as the set is onto it, by counting. The plan then deletes each live thread of the
read model, which is that of the tables as nothing was missed, and nothing the batch does
revives one. `CreatedOnceThenUsed` follows from an agreement of rows and log: a row
exists exactly if some event created it, and a command's plan creates only what is not
there and uses only what is, in the plan itself as well.

*Shell* (`ShellStreamProofs`). The steps of the page leave the engine alone, so its
invariants hold in the composition. `PageInv` says that the snapshot of a subscription
shows every row as it was when it was read (`ShownAt`). `StoreMovesForward` follows,
because a forwarded row is the one on disk, whose last event is not before the version;
a snapshot shows its rows as of the sequence number that becomes the version.
For `ViewIsShell` one event of each row matters, `Decisive`: the last event of a row that is
shown, the removal of one that is not. `ViewInv` follows it on its way. What the
snapshot covers it shows as it is, and what came later is waiting to be published or on
the stream (`SnapshotFits`, `Carried`); what the page's version covers is shown (`Seen`);
what it does not is still to come (`StillToCome`); each unless the event was missed or lost.
A drained stream has nothing to come. The one hazard in between is a version that runs
ahead of a row: a snapshot or an event may raise it past the decisive event of *another*
row, which is safe only because the stream is in the order of the log.

*Only model-checked*: liveness, `JobsSettle`, `RowsSettle`, `StepsReachServer`,
`DispatchSettles`, `PreparingEnds`, `ShownJobSettles` and `BusyEnds`. It rests on fairness
and `ENABLED`, which are out of the prover's reach. Every invariant, action property and
refinement of the passing runs is stated by a theorem.

## 7 What is not covered

- The pure operators of the review queue beyond the attempt and best-score keys.
- Messages, activities, turns, checkpoints and the reactors of the engine; thread detail
  subscriptions; retries and backoff of the page's connection.
- Effect itself: that `Stream.concat` attaches to the hot stream when the snapshot was
  consumed, that a queue is first in first out, that a PubSub keeps order, is taken from
  how the code uses them.
- The contents of prompts, texts and files, and therefore whether a provider's
  answer is about the learner's latest draft.
- Two tabs on one server: only one page is modelled; no text says that two may be open.
- The relational layout of the snapshot and the mapping of rows: `saveSnapshot` is
  taken as the transaction it opens.
- Everything listed as `not_modelled` in `PROJECT.json`, with its reason.
