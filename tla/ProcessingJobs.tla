--------------------------- MODULE ProcessingJobs ---------------------------
(***************************************************************************)
(* The provider-required course processing jobs of apps/server             *)
(* (studyFrame/processFolder.ts and the job tables of                      *)
(* persistence/Layers/StudyFrame.ts).                                      *)
(*                                                                         *)
(* A job has a durable row, which every interested fiber loads, copies and *)
(* writes back whole; a detached runner fiber that walks the stages below; *)
(* and two process-wide sets, runningJobs and cancelledJobs.  Cancel       *)
(* requests run in fibers of their own.  Fibers may interleave between any *)
(* two repository calls, a repository call may fail, and the server may    *)
(* restart, which loses the sets and the fibers and keeps the tables.      *)
(*                                                                         *)
(* Stages:  0 queued                   6 build_course_context              *)
(*          1 register_sources         7 cluster_topics                    *)
(*          2 extract_sources          8 generate_topic_modules            *)
(*          3 scan_source_security     9 generate_question_support         *)
(*          4 classify_sources        10 validate_and_correct              *)
(*          5 extract_real_questions  11 commit_snapshot    12 completed   *)
(***************************************************************************)
EXTENDS Naturals, FiniteSets

CONSTANTS Jobs,        \* the job ids the server may hand out
          Requests,    \* cancel requests that may be in flight together
          None,        \* no job
          MaxRestarts, \* bound on server restarts
          MaxFaults    \* bound on failing repository calls

ASSUME NoneNotAJob == None \notin Jobs
ASSUME BoundsAreNat == MaxRestarts \in Nat /\ MaxFaults \in Nat

VARIABLES row,           \* study_processing_jobs; status "absent" before insertion
          trail,         \* study_processing_events and study_processing_artifacts:
                         \* the stages reported as entered, and the stages whose
                         \* artifact is saved (warnings and errors are left out)
          snapshot,      \* the job whose result is the course snapshot on disk
          runner,        \* the detached fibers: control point and local variable `job`
          runningJobs,
          cancelledJobs,
          request,       \* the cancel handlers: control point, job id, loaded copy
          origin,        \* history: the job this one retries, if the dialog offered it
          committed,     \* history: jobs whose saveSnapshot transaction committed
          inTime,        \* history: jobs flagged cancelled before their last check
          restarts, faults

tables  == <<row, trail, snapshot>>
memory  == <<runner, runningJobs, cancelledJobs, request>>
history == <<origin, committed, inTime>>
vars    == <<tables, memory, history, restarts, faults>>

-----------------------------------------------------------------------------
(* Rows, control points *)

Active   == {"queued", "running"}
Terminal == {"succeeded", "failed", "cancelled"}

Row == [status : Active \cup Terminal \cup {"absent"}, stage : 0..12]

AbsentRow == [status |-> "absent", stage |-> 0]
QueuedRow == [status |-> "queued", stage |-> 0]

PC == {"none", "forked", "enter", "check", "provider", "work", "commit", "complete",
       "failLocal", "failing", "failSave", "finally", "ended"}

Idle == [pc |-> "idle", job |-> None, copy |-> AbsentRow]

Entered(k)  == {<<k, "info">>}
Artifact(k) == {<<k, "artifact">>}

TypeOK ==
  /\ row \in [Jobs -> Row]
  /\ trail \in [Jobs -> SUBSET ((0..12) \X {"info", "artifact"})]
  /\ snapshot \in Jobs \cup {None}
  /\ runner \in [Jobs -> [pc : PC, job : Row]]
  /\ runningJobs \subseteq Jobs
  /\ cancelledJobs \subseteq Jobs
  /\ request \in [Requests -> [pc : {"idle", "loaded", "saving"},
                               job : Jobs \cup {None}, copy : Row]]
  /\ origin \in [Jobs -> Jobs \cup {None}]
  /\ committed \subseteq Jobs
  /\ inTime \subseteq Jobs
  /\ restarts \in 0..MaxRestarts
  /\ faults \in 0..MaxFaults

Init ==
  /\ row = [j \in Jobs |-> AbsentRow]
  /\ trail = [j \in Jobs |-> {}]
  /\ snapshot = None
  /\ runner = [j \in Jobs |-> [pc |-> "none", job |-> AbsentRow]]
  /\ runningJobs = {}
  /\ cancelledJobs = {}
  /\ request = [r \in Requests |-> Idle]
  /\ origin = [j \in Jobs |-> None]
  /\ committed = {}
  /\ inTime = {}
  /\ restarts = 0
  /\ faults = 0

-----------------------------------------------------------------------------
(* Repository calls.  A save of the row and the append of its event are    *)
(* two statements: the second may fail when the first went through.        *)

Fault == faults < MaxFaults /\ faults' = faults + 1

\* Mutant: a statement that fails is ignored.
PersistIgnoringErrors(j, new, entries, next, onError) ==
  LET saved == [row EXCEPT ![j] = new] IN
  \/ /\ row' = saved
     /\ trail' = [trail EXCEPT ![j] = @ \cup entries]
     /\ runner' = [runner EXCEPT ![j] = next]
     /\ UNCHANGED faults
  \/ /\ Fault
     /\ row' \in {row, saved}
     /\ runner' = [runner EXCEPT ![j] = next]
     /\ UNCHANGED trail

\* The runner of j saves `new` and appends `entries`, then is at `next`; when a
\* statement fails it is at `onError`.
Persist(j, new, entries, next, onError) ==
  LET saved == [row EXCEPT ![j] = new] IN
  \/ /\ row' = saved
     /\ trail' = [trail EXCEPT ![j] = @ \cup entries]
     /\ runner' = [runner EXCEPT ![j] = next]
     /\ UNCHANGED faults
  \/ /\ Fault
     /\ row' \in {row, saved}
     /\ runner' = [runner EXCEPT ![j] = onError]
     /\ UNCHANGED trail

At(pc, job) == [pc |-> pc, job |-> job]

\* The handler of the `run` effect reloads the row, so the local copy is dropped.
Failing == At("failing", AbsentRow)
Finally == At("finally", AbsentRow)
Ended   == At("ended", AbsentRow)

-----------------------------------------------------------------------------
(* Starting a job *)

\* The row is inserted and its event appended before the runner is forked: when
\* either fails, the row (if it got that far) is left "queued" with no runner.
Insert(j) ==
  /\ row[j].status = "absent"
  /\ runner[j].pc = "none"
  /\ Persist(j, QueuedRow, Entered(0), At("forked", AbsentRow), Ended)
  /\ UNCHANGED <<snapshot, runningJobs, cancelledJobs, request, committed, inTime, restarts>>

StartJob(j) == Insert(j) /\ UNCHANGED origin

\* Mutant: retry also offered for cancelled jobs.
RetryOfferedWhenOver(o) == row[o].status \in {"failed", "cancelled"}

\* The dialog offers a retry for failed jobs only.
RetryOffered(o) == row[o].status = "failed"

\* The retry is a new job on the same source root.  The server takes it for any row
\* there is, whatever its status; `origin` records the retries that were offered.
RetryJob(o, j) ==
  /\ row[o].status # "absent"
  /\ Insert(j)
  /\ origin' = [origin EXCEPT ![j] = IF RetryOffered(o) THEN o ELSE None]

-----------------------------------------------------------------------------
(* The runner *)

RunnerUnchanged == UNCHANGED <<snapshot, runningJobs, cancelledJobs, request, history, restarts>>

\* Mutant: the runner drops a stale cancellation flag when it begins.
BeginForgetsFlag(j) ==
  /\ runner[j].pc = "forked"
  /\ j \notin runningJobs
  /\ runningJobs' = runningJobs \cup {j}
  /\ cancelledJobs' = cancelledJobs \ {j}
  /\ runner' = [runner EXCEPT ![j] = At("enter", row[j])]
  /\ UNCHANGED <<tables, request, history, restarts, faults>>

Begin(j) ==
  /\ runner[j].pc = "forked"
  /\ j \notin runningJobs
  /\ runningJobs' = runningJobs \cup {j}
  /\ \/ /\ runner' = [runner EXCEPT ![j] = At("enter", row[j])]
        /\ UNCHANGED faults
     \/ /\ Fault
        /\ runner' = [runner EXCEPT ![j] = Failing]
  /\ UNCHANGED <<tables, cancelledJobs, request, history, restarts>>

\* updateJob for the next stage, from the local copy: only the first one sets the
\* status.  Stage 11 goes on to the commit with no further check.
EnterRow(job) == [status |-> IF job.stage = 0 THEN "running" ELSE job.status,
                  stage  |-> job.stage + 1]

\* Mutant: the job is completed without its commit.
AfterEnterNoCommit(k) == CASE k = 11              -> "complete"
                           [] k \in {2, 3, 4, 10} -> "work"
                           [] OTHER               -> "check"

AfterEnter(k) == CASE k = 11               -> "commit"
                   [] k \in {2, 3, 4, 10}  -> "work"
                   [] OTHER                -> "check"

Enter(j) ==
  LET new == EnterRow(runner[j].job) IN
  /\ runner[j].pc = "enter"
  /\ Persist(j, new, Entered(new.stage), At(AfterEnter(new.stage), new), Failing)
  /\ RunnerUnchanged

\* The stages that do something: import (2), the security-findings event (3),
\* provider analysis (4), redaction of quarantined evidence (10).  Import and
\* analysis fail on their own account; all but the third save an artifact.
Work(j) ==
  LET job == runner[j].job IN
  /\ runner[j].pc = "work"
  /\ \/ /\ trail' = [trail EXCEPT ![j] = @ \cup IF job.stage = 3 THEN {} ELSE Artifact(job.stage)]
        /\ runner' = [runner EXCEPT ![j] = At("check", job)]
        /\ UNCHANGED faults
     \/ /\ job.stage \in {2, 4}
        /\ runner' = [runner EXCEPT ![j] = Failing]
        /\ UNCHANGED <<trail, faults>>
     \/ /\ Fault
        /\ runner' = [runner EXCEPT ![j] = Failing]
        /\ UNCHANGED trail
  /\ UNCHANGED row
  /\ RunnerUnchanged

\* Mutants: no check between validation and commit; a cancelled run waits.
CheckNotBeforeCommit(j) ==
  LET job == runner[j].job IN
  /\ runner[j].pc = "check"
  /\ runner' = [runner EXCEPT ![j] =
                  IF j \in cancelledJobs /\ job.stage # 10 THEN Failing
                  ELSE At(IF job.stage = 1 THEN "provider" ELSE "enter", job)]
  /\ UNCHANGED <<row, trail, faults>>
  /\ RunnerUnchanged

CheckWaits(j) ==
  LET job == runner[j].job IN
  /\ runner[j].pc = "check"
  /\ j \notin cancelledJobs
  /\ runner' = [runner EXCEPT ![j] = At(IF job.stage = 1 THEN "provider" ELSE "enter", job)]
  /\ UNCHANGED <<row, trail, faults>>
  /\ RunnerUnchanged

\* throwIfCancelled.
Check(j) ==
  LET job == runner[j].job IN
  /\ runner[j].pc = "check"
  /\ runner' = [runner EXCEPT ![j] =
                  IF j \in cancelledJobs THEN Failing
                  ELSE At(IF job.stage = 1 THEN "provider" ELSE "enter", job)]
  /\ UNCHANGED <<row, trail, faults>>
  /\ RunnerUnchanged

\* resolveOptionalStudyFrameTextGeneration: a provider, none, or unreadable settings.
Provider(j) ==
  LET job == runner[j].job IN
  /\ runner[j].pc = "provider"
  /\ \E next \in {At("enter", job), At("failLocal", job), Failing} :
       runner' = [runner EXCEPT ![j] = next]
  /\ UNCHANGED <<row, trail, faults>>
  /\ RunnerUnchanged

\* Mutant: the snapshot is replaced outside of a transaction.
CommitInPieces(j) ==
  /\ runner[j].pc = "commit"
  /\ snapshot' = j
  /\ \/ /\ committed' = committed \cup {j}
        /\ runner' = [runner EXCEPT ![j] = At("complete", @.job)]
        /\ UNCHANGED faults
     \/ /\ Fault
        /\ runner' = [runner EXCEPT ![j] = Failing]
        /\ UNCHANGED committed
  /\ UNCHANGED <<row, trail, runningJobs, cancelledJobs, request, origin, inTime, restarts>>

\* repository.saveSnapshot: one transaction that replaces the whole snapshot.
Commit(j) ==
  /\ runner[j].pc = "commit"
  /\ \/ /\ snapshot' = j
        /\ committed' = committed \cup {j}
        /\ runner' = [runner EXCEPT ![j] = At("complete", @.job)]
        /\ UNCHANGED faults
     \/ /\ Fault
        /\ runner' = [runner EXCEPT ![j] = Failing]
        /\ UNCHANGED <<snapshot, committed>>
  /\ UNCHANGED <<row, trail, runningJobs, cancelledJobs, request, origin, inTime, restarts>>

\* Mutant: a status the table does not know.
CompletedRowUnknown == [status |-> "completed", stage |-> 12]

CompletedRow == [status |-> "succeeded", stage |-> 12]

Complete(j) ==
  /\ runner[j].pc = "complete"
  /\ Persist(j, CompletedRow, Entered(12), Finally, Failing)
  /\ RunnerUnchanged

\* failJob.  With no provider it is called from the run itself, on the local copy,
\* so a statement that fails there reaches the handler.
FailedRow(job) == [job EXCEPT !.status = "failed"]

FailLocal(j) ==
  LET job == runner[j].job IN
  /\ runner[j].pc = "failLocal"
  /\ Persist(j, FailedRow(job), {}, Finally, Failing)
  /\ RunnerUnchanged

\* Mutant: the handler asks the flag, not the row, whether the job was cancelled.
LoadFailingByFlag(j) ==
  /\ runner[j].pc = "failing"
  /\ runner' = [runner EXCEPT ![j] =
                  IF j \in cancelledJobs THEN Finally ELSE At("failSave", row[j])]
  /\ UNCHANGED <<row, trail, faults>>
  /\ RunnerUnchanged

\* The handler: reload, and leave a cancelled row as it is.
LoadFailing(j) ==
  /\ runner[j].pc = "failing"
  /\ \/ /\ runner' = [runner EXCEPT ![j] =
                        IF row[j].status = "cancelled" THEN Finally ELSE At("failSave", row[j])]
        /\ UNCHANGED faults
     \/ /\ Fault
        /\ runner' = [runner EXCEPT ![j] = Finally]
  /\ UNCHANGED <<row, trail>>
  /\ RunnerUnchanged

FailSave(j) ==
  LET job == runner[j].job IN
  /\ runner[j].pc = "failSave"
  /\ Persist(j, FailedRow(job), {}, Finally, Finally)
  /\ RunnerUnchanged

\* Effect.ensuring.
Release(j) ==
  /\ runner[j].pc = "finally"
  /\ runningJobs' = runningJobs \ {j}
  /\ cancelledJobs' = cancelledJobs \ {j}
  /\ runner' = [runner EXCEPT ![j] = Ended]
  /\ UNCHANGED <<tables, request, history, restarts, faults>>

RunnerStep(j) ==
  \/ Begin(j)     \/ Enter(j)       \/ Work(j)     \/ Check(j)  \/ Provider(j) \/ Commit(j)
  \/ Complete(j)  \/ FailLocal(j)   \/ LoadFailing(j) \/ FailSave(j) \/ Release(j)

-----------------------------------------------------------------------------
(* Cancelling a job *)

CancelUnchanged == UNCHANGED <<snapshot, runner, runningJobs, origin, committed, restarts>>

CancelLoad(r, j) ==
  /\ request[r].pc = "idle"
  /\ row[j].status # "absent"
  /\ request' = [request EXCEPT ![r] = [pc |-> "loaded", job |-> j, copy |-> row[j]]]
  /\ UNCHANGED <<row, trail, cancelledJobs, inTime, faults>>
  /\ CancelUnchanged

\* The runner of j has a throwIfCancelled ahead of it.
CheckAhead(j) ==
  \/ runner[j].pc \in {"forked", "check", "provider", "work"}
  \/ runner[j].pc = "enter" /\ runner[j].job.stage < 10

\* The flag is set whatever the status; a job that is over is returned as it is.
CancelMark(r) ==
  LET j == request[r].job IN
  /\ request[r].pc = "loaded"
  /\ cancelledJobs' = cancelledJobs \cup {j}
  /\ inTime' = IF CheckAhead(j) THEN inTime \cup {j} ELSE inTime
  /\ request' = [request EXCEPT ![r] =
                   IF @.copy.status \in Active THEN [@ EXCEPT !.pc = "saving"] ELSE Idle]
  /\ UNCHANGED <<row, trail, faults>>
  /\ CancelUnchanged

CancelledRow(copy) == [copy EXCEPT !.status = "cancelled"]

CancelSave(r) ==
  LET j     == request[r].job
      copy  == request[r].copy
      saved == [row EXCEPT ![j] = CancelledRow(copy)]
  IN
  /\ request[r].pc = "saving"
  /\ \/ row' = saved /\ UNCHANGED faults
     \/ row' \in {row, saved} /\ Fault
  /\ request' = [request EXCEPT ![r] = Idle]
  /\ UNCHANGED <<trail, cancelledJobs, inTime>>
  /\ CancelUnchanged

RequestStep(r) == CancelMark(r) \/ CancelSave(r)

-----------------------------------------------------------------------------
(* The server restarts: nothing at startup looks at the job tables *)

Restart ==
  /\ restarts < MaxRestarts
  /\ restarts' = restarts + 1
  /\ runner' = [j \in Jobs |-> IF runner[j].pc = "none" THEN runner[j] ELSE Ended]
  /\ runningJobs' = {}
  /\ cancelledJobs' = {}
  /\ request' = [r \in Requests |-> Idle]
  /\ UNCHANGED <<tables, history, faults>>

Next ==
  \/ \E j \in Jobs : StartJob(j) \/ RunnerStep(j)
  \/ \E o, j \in Jobs : RetryJob(o, j)
  \/ \E r \in Requests, j \in Jobs : CancelLoad(r, j)
  \/ \E r \in Requests : RequestStep(r)
  \/ Restart

Spec == Init /\ [][Next]_vars

\* The Effect runtime schedules every runnable fiber and provider calls time out;
\* nobody owes the server a start, a retry, a cancel, a fault or a restart.
FairSpec == /\ Spec
            /\ \A j \in Jobs : WF_vars(RunnerStep(j))
            /\ \A r \in Requests : WF_vars(RequestStep(r))

-----------------------------------------------------------------------------
(* Properties *)

\* A job flagged cancelled while its runner still had a throwIfCancelled ahead of
\* it never replaces the course snapshot, whatever is lost, fails or restarts
\* between the flag and the check.
CancelInTimeNeverCommits == \A j \in inTime : j \notin committed /\ snapshot # j

\* What the row tells the learner is what happened to the course: "succeeded" is
\* never written before the commit, and, unless a statement failed, "failed" means
\* that the course is untouched and a job that committed ends as succeeded, or as
\* cancelled by a request that came too late for the last check.
OutcomeMatchesSnapshot ==
  \A j \in Jobs :
    /\ row[j].status = "succeeded" => j \in committed
    /\ row[j].status = "failed" /\ faults = 0 => j \notin committed
    /\ j \in committed /\ runner[j].pc = "ended" /\ faults = 0 /\ restarts = 0
         => \/ row[j].status = "succeeded"
            \/ row[j].status = "cancelled" /\ j \notin inTime

\* A row is left queued or running with nobody working on it only by a restart or
\* by a failed statement: no interleaving of runner and cancel requests does it.
StuckOnlyAfterCrash ==
  \A j \in Jobs :
    row[j].status \in Active /\ runner[j].pc = "ended" => restarts + faults > 0

\* While a retry exists that the dialog offered, the job it retries can no longer reach
\* the snapshot, so a chain of such retries has one runner at most that may still commit.
\* It rests on what "failed" means, not on the server, which checks no status: a retry
\* sent for a job that runs is a second job like any other.
CanCommit(j) ==
  runner[j].pc \in {"forked", "enter", "check", "provider", "work", "commit"}

RetryNeverRacesOriginal == \A j \in Jobs : origin[j] # None => ~CanCommit(origin[j])

\* A job reported as succeeded has left the events of all eleven stages and the
\* artifacts of extraction, analysis and validation: no failed or skipped write on
\* the way is papered over by the final status.
SucceededLeavesFullTrail ==
  \A j \in Jobs : row[j].status = "succeeded" =>
    ((0..11) \X {"info"}) \cup ({2, 4, 10} \X {"artifact"}) \subseteq trail[j]

\* The flag of a job that is being worked on is never lost before its runner ends:
\* only the runner's own finalizer and a restart take it out of cancelledJobs.
FlagOutlivesRunner ==
  \A j \in inTime : CanCommit(j) => j \in cancelledJobs /\ CheckAhead(j)

\* A cancelled job stays cancelled (the title of a test of processFolder.test.ts).
CancelledStaysCancelled ==
  [][\A j \in Jobs : row[j].status = "cancelled" => row'[j].status = "cancelled"]_vars

\* The service keeps the promise of CourseImport.
OutcomeOf(j) == IF j \in committed THEN "published"
                ELSE IF runner[j].pc = "none" THEN "none"
                ELSE IF CanCommit(j) THEN "pending" ELSE "abandoned"

Promise == INSTANCE CourseImport WITH
             outcome   <- [j \in Jobs |-> OutcomeOf(j)],
             withdrawn <- inTime,
             current   <- snapshot

ImplementsPromise == Promise!Spec

\* Every job that is started ends, through any failures and restarts.
JobsSettle == Promise!Settles

\* Unless a statement fails or the server restarts, a job's row ends in a terminal
\* status and stays there: late and overlapping cancel requests may change which one,
\* never bring it back to life.
RowsSettle ==
  \A j \in Jobs : row[j].status \in Active ~>
    \/ [](row[j].status \in Terminal)
    \/ restarts + faults > 0
=============================================================================
