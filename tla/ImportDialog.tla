---------------------------- MODULE ImportDialog ----------------------------
(***************************************************************************)
(* The dialog of apps/web that imports a course (StudyImportDialog in      *)
(* components/study/StudySidebar.tsx): the learner opens a folder or drops *)
(* materials, which are staged on the server; starts, cancels and retries  *)
(* processing jobs; and an effect polls the job that is shown and hands    *)
(* the refreshed course to the store.  Every request is answered later,    *)
(* or fails, and the dialog may have moved on by then.                     *)
(*                                                                         *)
(* The effect depends on the job it sets, so React runs its cleanup and    *)
(* the effect anew after every change of the job.  The cleanup cancels     *)
(* whatever the old effect still waits for, which is why a cancelled       *)
(* poll is modelled as one that is gone.  Between a change of the job and  *)
(* the next rendering, answers still reach the old effect.                 *)
(*                                                                         *)
(* Of the server the dialog sees the rows of the jobs and the snapshot,    *)
(* which jobs commit to and which the page's own saves replace as a whole  *)
(* (SnapshotSync).                                                         *)
(***************************************************************************)
EXTENDS Naturals, Sequences, FiniteSets

CONSTANTS MaxJobs,   \* bound on the processing jobs, numbered as they are asked for
          Materials, \* sets of source files a learner may drop
          Path,      \* a folder path the server can see
          Page,      \* what wrote the snapshot when it was not a job
          None,      \* no job, no materials, no source root
          MaxPolls,  \* bound on the polls of one effect in flight together
          MaxSaves,  \* bound on the page's saves
          MaxClicks  \* bound on what the learner does after opening the dialog

Jobs == 1..MaxJobs

ASSUME RootsDiffer  == /\ Path # None /\ None \notin Jobs /\ Page \notin Jobs
                       /\ Materials \cap {Path, None} = {}
ASSUME BoundsAreNat == /\ MaxJobs \in Nat /\ MaxPolls \in Nat \ {0}
                       /\ MaxSaves \in Nat /\ MaxClicks \in Nat

VARIABLES server,    \* the row of each job; "asked" before it exists
          runner,    \* its fiber: none, running, committed, over
          writes,    \* what wrote the snapshot, in this order: jobs and the page
          asked,     \* start and retry requests in flight: the jobs they create
          cancels,   \* cancel requests in flight, and what they found
          open, importing, staging, imported,
          job,       \* processingJob: its id and status
          root,      \* sourceRoot
          materials, \* openedMaterials
          picking,   \* folder pickers that are open
          drops,     \* dropped files that are still being read
          stagings,  \* staging requests in flight; current: theirs is the latest ticket
          dirty,     \* the job changed and the effect has not run since
          polled,    \* the job of the effect's closure
          timer,     \* the effect's interval is armed
          polls,     \* the polls of the effect in flight
          gaveUp,    \* history: a poll failed since the effect ran
          dropped,   \* history: the dialog was closed on an active job
          clicks

rows   == <<server, runner, writes>>
remote == <<rows, asked, cancels>>
source == <<root, materials, picking, drops, stagings, staging, imported>>
effect == <<dirty, polled, timer, polls>>
history == <<gaveUp, dropped>>
vars   == <<remote, open, importing, job, source, effect, history, clicks>>

-----------------------------------------------------------------------------

Terminal == {"succeeded", "failed", "cancelled"}

NoJob == [id |-> None, status |-> "none"]

Shown(j, status) == [id |-> j, status |-> status]

Free == [at |-> "free", saw |-> "none", course |-> 0]

Poll == [Free EXCEPT !.at = "polling"]

Active == job.status = "active"

Init ==
  /\ server = [j \in Jobs |-> "absent"]
  /\ runner = [j \in Jobs |-> "none"]
  /\ writes = <<>>
  /\ asked = {}
  /\ cancels = [j \in Jobs |-> "none"]
  /\ open = TRUE /\ importing = FALSE /\ staging = FALSE /\ imported = FALSE
  /\ job = NoJob
  /\ root = None /\ materials = None /\ picking = 0 /\ drops = {} /\ stagings = {}
  /\ dirty = FALSE /\ polled = None /\ timer = FALSE
  /\ polls = [n \in 1..MaxPolls |-> Free]
  /\ gaveUp = FALSE /\ dropped = FALSE /\ clicks = 0

-----------------------------------------------------------------------------
(* The server *)

Accept(j) ==
  /\ server[j] = "asked"
  /\ server' = [server EXCEPT ![j] = "active"]
  /\ runner' = [runner EXCEPT ![j] = "running"]
  /\ UNCHANGED <<writes, asked, cancels, open, importing, job, source, effect, history,
                 clicks>>

Runs(j, at) ==
  /\ runner[j] = at
  /\ UNCHANGED <<asked, cancels, open, importing, job, source, effect, history, clicks>>

\* The runner saves its own copy of the row at every stage, over a cancelled one too.
Patch(j) ==
  /\ Runs(j, "running")
  /\ server' = [server EXCEPT ![j] = "active"]
  /\ UNCHANGED <<runner, writes>>

Commit(j) ==
  /\ Runs(j, "running")
  /\ writes' = Append(writes, j)
  /\ runner' = [runner EXCEPT ![j] = "committed"]
  /\ UNCHANGED server

\* Mutant: the row is saved as succeeded before the snapshot is.
SucceedFirst(j) ==
  /\ Runs(j, "running")
  /\ server' = [server EXCEPT ![j] = "succeeded"]
  /\ UNCHANGED <<runner, writes>>

Succeed(j) ==
  /\ Runs(j, "committed")
  /\ server' = [server EXCEPT ![j] = "succeeded"]
  /\ runner' = [runner EXCEPT ![j] = "over"]
  /\ UNCHANGED writes

\* An error, before or after the commit, or the cancel flag; the row of a cancelled job is
\* left alone when the runner looks at it first.
Fail(j) ==
  /\ Runs(j, "running") \/ Runs(j, "committed")
  /\ server' \in {[server EXCEPT ![j] = "failed"]}
                 \cup (IF server[j] = "cancelled" THEN {server} ELSE {})
  /\ runner' = [runner EXCEPT ![j] = "over"]
  /\ UNCHANGED writes

\* The server stops, or cannot save the row of the failure: the row stays as it is.
Stop(j) ==
  /\ Runs(j, "running") \/ Runs(j, "committed")
  /\ runner' = [runner EXCEPT ![j] = "over"]
  /\ UNCHANGED <<server, writes>>

\* The jobs whose rows no runner will end.
Stranded == {j \in Jobs : server[j] = "active" /\ runner[j] = "over"}

\* The flag is set and the row looked at; an active one is then saved as cancelled,
\* whatever became of it meanwhile.
HandleCancel(j) ==
  /\ cancels[j] = "sent"
  /\ cancels' = [cancels EXCEPT ![j] = IF server[j] = "active" THEN "saving" ELSE server[j]]
  /\ UNCHANGED <<rows, asked, open, importing, job, source, effect, history, clicks>>

SaveCancelled(j) ==
  /\ cancels[j] = "saving"
  /\ server' = [server EXCEPT ![j] = "cancelled"]
  /\ cancels' = [cancels EXCEPT ![j] = "cancelled"]
  /\ UNCHANGED <<runner, writes, asked, open, importing, job, source, effect, history, clicks>>

\* A save of the page, pending since before it knew of the commit or not.
SavePage ==
  /\ Cardinality({i \in DOMAIN writes : writes[i] = Page}) < MaxSaves
  /\ writes' = Append(writes, Page)
  /\ UNCHANGED <<server, runner, asked, cancels, open, importing, job, source, effect, history,
                 clicks>>

-----------------------------------------------------------------------------
(* Opening, closing *)

Click == clicks < MaxClicks /\ clicks' = clicks + 1

Open ==
  /\ ~open
  /\ open' = TRUE
  /\ Click
  /\ UNCHANGED <<remote, importing, job, source, effect, history>>

\* Older requests lose their ticket.
Outdated == {[s EXCEPT !.current = FALSE] : s \in stagings}

\* importingFolder is left as it is.
Close ==
  /\ open
  /\ open' = FALSE
  /\ job' = NoJob
  /\ dirty' = (dirty \/ job # NoJob)
  /\ imported' = FALSE /\ staging' = FALSE
  /\ root' = None /\ materials' = None
  /\ stagings' = Outdated
  /\ dropped' = (dropped \/ Active)
  /\ Click
  /\ UNCHANGED <<remote, importing, picking, drops, polled, timer, polls, gaveUp>>

\* Pasted JSON replaces the course and closes the dialog, which keeps its job and polls it.
ImportJson ==
  /\ open
  /\ open' = FALSE
  /\ Click
  /\ UNCHANGED <<remote, importing, job, source, effect, history>>

-----------------------------------------------------------------------------
(* Choosing the sources *)

\* A path typed over materials that are listed is taken as it is.
TypePath ==
  /\ open
  /\ root' = Path /\ imported' = FALSE
  /\ Click
  /\ UNCHANGED <<remote, open, importing, job, materials, picking, drops, stagings, staging,
                 effect, history>>

\* openFolderPath: stagings under way lose their ticket.
OpenFolderPath(path) ==
  /\ root' = path
  /\ stagings' = Outdated
  /\ staging' = FALSE /\ materials' = None /\ imported' = FALSE
  /\ UNCHANGED <<remote, open, importing, job, drops, effect, history>>

OpenPath ==
  /\ open /\ root # None
  /\ OpenFolderPath(root)
  /\ Click
  /\ UNCHANGED picking

OpenFolder ==
  /\ open /\ ~importing /\ ~staging
  /\ picking' = picking + 1
  /\ Click
  /\ UNCHANGED <<remote, open, importing, job, root, materials, drops, stagings, staging,
                 imported, effect, history>>

\* A folder is picked, whatever the dialog does by now; or none.
FolderPicked ==
  /\ picking > 0 /\ picking' = picking - 1
  /\ UNCHANGED clicks
  /\ \/ OpenFolderPath(Path)
     \/ UNCHANGED <<remote, open, importing, job, root, materials, drops, stagings, staging,
                    imported, effect, history>>

Drop(m) ==
  /\ open
  /\ drops' = drops \cup {m}
  /\ Click
  /\ UNCHANGED <<remote, open, importing, job, root, materials, picking, stagings, staging,
                 imported, effect, history>>

\* The dropped files are read and sent to the server, whatever the dialog does by now.
OpenMaterials(m) ==
  /\ m \in drops
  /\ drops' = drops \ {m}
  /\ stagings' = Outdated \cup {[of |-> m, current |-> TRUE]}
  /\ materials' = m /\ root' = None /\ imported' = FALSE /\ staging' = TRUE
  /\ UNCHANGED <<remote, open, importing, job, picking, effect, history, clicks>>

\* Mutant: the answer to an older request is taken for the latest.
StagingAnsweredLate(s) ==
  /\ s \in stagings
  /\ stagings' = stagings \ {s}
  /\ root' = s.of /\ staging' = FALSE
  /\ UNCHANGED <<remote, open, importing, job, materials, picking, drops, imported, effect,
                 history, clicks>>

StagingAnswered(s) ==
  /\ s \in stagings
  /\ stagings' = stagings \ {s}
  /\ root' = IF s.current THEN s.of ELSE root
  /\ staging' = (staging /\ ~s.current)
  /\ UNCHANGED <<remote, open, importing, job, materials, picking, drops, imported, effect,
                 history, clicks>>

\* Mutant: the flag is only lowered by an answer.
StagingFailsQuietly(s) ==
  /\ s \in stagings
  /\ stagings' = stagings \ {s}
  /\ UNCHANGED <<remote, open, importing, job, root, materials, picking, drops, staging, imported,
                 effect, history, clicks>>

StagingFails(s) ==
  /\ s \in stagings
  /\ stagings' = stagings \ {s}
  /\ staging' = (staging /\ ~s.current)
  /\ UNCHANGED <<remote, open, importing, job, root, materials, picking, drops, imported, effect,
                 history, clicks>>

-----------------------------------------------------------------------------
(* Starting, retrying, cancelling *)

Ask(j) ==
  /\ server[j] = "absent" /\ \A i \in 1..(j - 1) : server[i] # "absent"
  /\ server' = [server EXCEPT ![j] = "asked"]
  /\ asked' = asked \cup {j}
  /\ importing' = TRUE
  /\ Click
  /\ UNCHANGED <<runner, writes, cancels, open, job, source, effect, history>>

Start(j) ==
  /\ open /\ ~imported /\ root # None /\ ~importing /\ ~staging
  /\ Ask(j)

\* Nothing keeps the learner from retrying twice.
Retry(j) ==
  /\ open /\ job.status = "failed"
  /\ Ask(j)

Asked(j) ==
  /\ j \in asked /\ server[j] # "asked"
  /\ asked' = asked \ {j}
  /\ job' = Shown(j, "active")
  /\ dirty' = TRUE
  /\ UNCHANGED <<rows, cancels, open, importing, source, polled, timer, polls,
                 history, clicks>>

AskFails(j) ==
  /\ j \in asked
  /\ asked' = asked \ {j}
  /\ importing' = FALSE
  /\ UNCHANGED <<rows, cancels, open, job, source, effect, history, clicks>>

\* Without an active job, Cancel closes the dialog.
Cancel ==
  /\ open /\ Active
  /\ cancels[job.id] = "none"
  /\ cancels' = [cancels EXCEPT ![job.id] = "sent"]
  /\ Click
  /\ UNCHANGED <<rows, asked, open, importing, job, source, effect, history>>

\* Whatever is shown by now, the answer replaces it.
Cancelled(j) ==
  /\ cancels[j] \in Terminal
  /\ cancels' = [cancels EXCEPT ![j] = "none"]
  /\ job' = Shown(j, cancels[j])
  /\ importing' = FALSE
  /\ dirty' = TRUE
  /\ UNCHANGED <<rows, asked, open, source, polled, timer, polls, history,
                 clicks>>

CancelFails(j) ==
  /\ cancels[j] # "none"
  /\ cancels' = [cancels EXCEPT ![j] = "none"]
  /\ UNCHANGED <<rows, asked, open, importing, job, source, effect, history, clicks>>

-----------------------------------------------------------------------------
(* The polling effect *)

\* React runs the cleanup of the old effect and the effect for the job as it is now.
Render ==
  /\ dirty
  /\ dirty' = FALSE /\ gaveUp' = FALSE
  /\ timer' = Active
  /\ polled' = IF Active THEN job.id ELSE None
  /\ polls' = [n \in 1..MaxPolls |-> IF n = 1 /\ Active THEN Poll ELSE Free]
  /\ UNCHANGED <<remote, open, importing, job, source, dropped, clicks>>

\* Another project is selected: projectId is a dependency as well.
Rerun ==
  /\ ~dirty
  /\ dirty' = TRUE
  /\ Click
  /\ UNCHANGED <<remote, open, importing, job, source, polled, timer, polls, history>>

Tick(n) ==
  /\ timer
  /\ polls[n] = Free /\ \A k \in 1..(n - 1) : polls[k] # Free
  /\ polls' = [polls EXCEPT ![n] = Poll]
  /\ UNCHANGED <<remote, open, importing, job, source, dirty, polled, timer, history,
                 clicks>>

\* The server reads the row, or the snapshot.
Read(n) ==
  /\ \/ /\ polls[n].at = "polling"
        /\ polls' = [polls EXCEPT ![n].at = "polled", ![n].saw = server[polled]]
     \/ /\ polls[n].at = "loading"
        /\ polls' = [polls EXCEPT ![n].at = "loaded", ![n].course = Len(writes)]
  /\ UNCHANGED <<remote, open, importing, job, source, dirty, polled, timer, history,
                 clicks>>

Refreshing == [Free EXCEPT !.at = "loading"]

\* Mutant: any answer stops the interval, and an active job is not set again.
PolledOnce(n) ==
  /\ polls[n].at = "polled"
  /\ polls' = [polls EXCEPT ![n] = IF polls[n].saw = "succeeded" THEN Refreshing ELSE Free]
  /\ timer' = FALSE
  /\ job' = Shown(polled, polls[n].saw)
  /\ dirty' = (dirty \/ polls[n].saw \in Terminal)
  /\ importing' = (importing /\ polls[n].saw \notin Terminal)
  /\ imported' = (imported \/ polls[n].saw = "succeeded")
  /\ root' = IF polls[n].saw = "succeeded" THEN None ELSE root
  /\ UNCHANGED <<remote, open, materials, picking, drops, stagings, staging, polled, history, clicks>>

\* The poll is answered: the job is shown, and a success is followed by a refresh.
Polled(n) ==
  /\ polls[n].at = "polled"
  /\ job' = Shown(polled, polls[n].saw)
  /\ dirty' = TRUE
  /\ \/ /\ polls[n].saw = "active"
        /\ polls' = [polls EXCEPT ![n] = Free]
        /\ UNCHANGED <<timer, importing, imported, root>>
     \/ /\ polls[n].saw = "succeeded"
        /\ polls' = [polls EXCEPT ![n] = Refreshing]
        /\ timer' = FALSE /\ importing' = FALSE /\ imported' = TRUE /\ root' = None
     \/ /\ polls[n].saw \in {"failed", "cancelled"}
        /\ polls' = [polls EXCEPT ![n] = Free]
        /\ timer' = FALSE /\ importing' = FALSE
        /\ UNCHANGED <<imported, root>>
  /\ UNCHANGED <<remote, open, materials, picking, drops, stagings, staging, polled, history, clicks>>

\* The course is handed to the store, which takes it as it is.
Refreshed(n) ==
  /\ polls[n].at = "loaded"
  /\ polls' = [polls EXCEPT ![n] = Free]
  /\ UNCHANGED <<remote, open, importing, job, source, dirty, polled, timer, history, clicks>>

\* Mutant: the error is shown and the dialog stays busy.
PollFailsBusy(n) ==
  /\ polls[n] # Free
  /\ polls' = [polls EXCEPT ![n] = Free]
  /\ timer' = FALSE /\ gaveUp' = TRUE
  /\ UNCHANGED <<remote, open, importing, job, source, dirty, polled, dropped, clicks>>

\* The interval ends with the first poll or refresh that fails.
PollFails(n) ==
  /\ polls[n] # Free
  /\ polls' = [polls EXCEPT ![n] = Free]
  /\ timer' = FALSE /\ gaveUp' = TRUE /\ importing' = FALSE
  /\ UNCHANGED <<remote, open, job, source, dirty, polled, dropped, clicks>>

-----------------------------------------------------------------------------

Learner == \/ Open \/ Close \/ ImportJson \/ TypePath \/ OpenPath \/ OpenFolder \/ Cancel
           \/ Rerun
           \/ \E m \in Materials : Drop(m)
           \/ \E j \in Jobs : Start(j) \/ Retry(j)

Reply(j) == Asked(j) \/ AskFails(j) \/ Cancelled(j) \/ CancelFails(j)

Requests == \E j \in Jobs : Accept(j) \/ HandleCancel(j) \/ SaveCancelled(j) \/ Reply(j)

Run(j) == Commit(j) \/ Succeed(j) \/ Fail(j) \/ Stop(j)

Stagings == \E s \in stagings : StagingAnswered(s) \/ StagingFails(s)

Polling == \E n \in 1..MaxPolls : Read(n) \/ Polled(n) \/ Refreshed(n) \/ PollFails(n)

Next == \/ Learner \/ Render \/ Requests \/ Stagings \/ Polling
        \/ \E m \in Materials : OpenMaterials(m)
        \/ FolderPicked \/ SavePage
        \/ \E j \in Jobs : Run(j) \/ Patch(j)
        \/ \E n \in 1..MaxPolls : Tick(n)

Spec == Init /\ [][Next]_vars

\* Requests are handled and answered or fail, runners end one way or another, React renders.
FairSpec == /\ Spec
            /\ WF_vars(Render) /\ WF_vars(Requests) /\ WF_vars(Stagings) /\ WF_vars(Polling)
            /\ WF_vars(\E j \in Jobs : Run(j))

-----------------------------------------------------------------------------
(* Properties *)

\* A learner who processes staged materials processes the ones listed: the root of a
\* staging is never combined with the list of another, in whatever order the stagings are
\* answered.
StagedIsListed == root \in Materials => materials \in {root, None}

\* "Preparing" ends, also when stagings overlap, fail, or the dialog is closed meanwhile.
PreparingEnds == staging ~> ~staging

\* The dialog follows an active job to its end unless a poll fails: although every answer
\* cancels the effect that asked for it.  Only a row that no runner will end is polled for
\* ever.
ShownJobSettles == Active ~> (~Active \/ gaveUp \/ job.id \in Stranded)

\* "Processing", which disables the buttons, ends; unless the dialog was closed on an active
\* job, whose polling the closing ends, or a row is left that no runner will end.
BusyEnds == importing ~> (~importing \/ dropped \/ Stranded # {})

\* The snapshot that is about to replace the learner's course was read after the commit of
\* the job shown as succeeded: it is that job's, or of a later job, or of a save the page
\* made since, never what the server held before, whatever the polls overtook on the way.
RefreshIsCurrent ==
  \A n \in 1..MaxPolls :
    polls[n].at = "loaded" => \E i \in 1..polls[n].course : writes[i] = polled
=============================================================================
