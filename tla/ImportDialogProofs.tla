------------------------- MODULE ImportDialogProofs -------------------------
(***************************************************************************)
(* Proofs about ImportDialog, for any number of jobs, polls and clicks and *)
(* any materials: the staged materials that are processed are the ones     *)
(* listed, and the course that replaces the learner's was read after the   *)
(* job it is shown for had committed.                                      *)
(***************************************************************************)
EXTENDS ImportDialog, TLAPS

-----------------------------------------------------------------------------
(* Staging: whose answers are still waited for is what is listed. *)

Listed == /\ StagedIsListed
          /\ stagings \subseteq [of : Materials, current : BOOLEAN]
          /\ \A s \in stagings : s.current => s.of = materials

LEMMA ListedInit == Init => Listed
BY RootsDiffer DEF Init, Listed, StagedIsListed

LEMMA ListedUnchanged ==
  ASSUME Listed, UNCHANGED <<root, materials, stagings>> PROVE Listed'
BY DEF Listed, StagedIsListed

\* Choosing a path or closing ends the wait for all stagings.
LEMMA ListedPaths == ASSUME Listed, Close \/ TypePath \/ OpenPath \/ FolderPicked PROVE Listed'
<1>1. Outdated \subseteq [of : Materials, current : {FALSE}]
  BY DEF Outdated, Listed
<1>2. CASE Close
  BY <1>1, <1>2, RootsDiffer DEF Close, Listed, StagedIsListed
<1>3. CASE TypePath
  BY <1>3, RootsDiffer DEF TypePath, Listed, StagedIsListed
<1>4. ASSUME NEW path, OpenFolderPath(path) PROVE Listed'
  BY <1>1, <1>4, RootsDiffer DEF OpenFolderPath, Listed, StagedIsListed
<1>5. CASE OpenPath \/ FolderPicked
  BY <1>4, <1>5, ListedUnchanged DEF OpenPath, FolderPicked
<1>6. QED
  BY <1>2, <1>3, <1>5

LEMMA ListedMaterials == ASSUME Listed, NEW m \in Materials, OpenMaterials(m) PROVE Listed'
<1>1. Outdated \subseteq [of : Materials, current : {FALSE}]
  BY DEF Outdated, Listed
<1>2. QED
  <2>1. root' = None /\ None \notin Materials
    BY RootsDiffer DEF OpenMaterials
  <2>2. /\ stagings' = Outdated \cup {[of |-> m, current |-> TRUE]}
        /\ materials' = m
    BY DEF OpenMaterials
  <2>3. StagedIsListed'
    BY <2>1 DEF StagedIsListed
  <2>4. ASSUME NEW s \in stagings'
        PROVE  s \in [of : Materials, current : BOOLEAN] /\ (s.current => s.of = m)
    <3>1. CASE s \in Outdated
      BY <1>1, <3>1
    <3>2. CASE s = [of |-> m, current |-> TRUE]
      BY <3>2
    <3>3. QED
      BY <2>2, <3>1, <3>2
  <2>5. QED
    BY <2>2, <2>3, <2>4 DEF Listed

LEMMA ListedAnswers ==
  ASSUME Listed, NEW s \in stagings, StagingAnswered(s) \/ StagingFails(s) PROVE Listed'
BY DEF StagingAnswered, StagingFails, Listed, StagedIsListed

LEMMA ListedPolls ==
  ASSUME Listed, NEW n \in 1..MaxPolls, Polled(n) PROVE Listed'
<1>1. UNCHANGED <<materials, stagings>> /\ root' \in {root, None}
  BY DEF Polled
<1>2. QED
  BY <1>1, RootsDiffer DEF Listed, StagedIsListed

LEMMA ListedStep == ASSUME Listed, [Next]_vars PROVE Listed'
<1>1. CASE UNCHANGED <<root, materials, stagings>>
  BY <1>1, ListedUnchanged
<1>2. CASE Learner
  <2>1. \/ UNCHANGED <<root, materials, stagings>>
        \/ Close \/ TypePath \/ OpenPath
    BY <1>2 DEF Learner, Open, ImportJson, Cancel, Rerun, Drop, OpenFolder, Start, Retry, Ask, source
  <2>2. QED
    BY <2>1, <1>1, ListedPaths
<1>3. CASE Requests
  BY <1>1, <1>3 DEF Requests, Reply, Accept, HandleCancel, SaveCancelled, Asked, AskFails,
                    Cancelled, CancelFails, source
<1>4. CASE Stagings
  BY <1>4, ListedAnswers DEF Stagings
<1>5. CASE Polling
  <2>1. ASSUME NEW n \in 1..MaxPolls, Read(n) \/ Refreshed(n) \/ PollFails(n) PROVE Listed'
    BY <2>1, <1>1 DEF Read, Refreshed, PollFails, source
  <2>2. QED
    BY <1>5, <2>1, ListedPolls DEF Polling
<1>6. ASSUME NEW m \in Materials, OpenMaterials(m) PROVE Listed'
  BY <1>6, ListedMaterials
<1>7. CASE \/ Render \/ SavePage \/ (\E j \in Jobs : Run(j) \/ Patch(j))
           \/ (\E n \in 1..MaxPolls : Tick(n)) \/ UNCHANGED vars
  BY <1>1, <1>7 DEF Render, SavePage, Run, Patch, Commit, Succeed, Fail, Stop, Runs, Tick, vars,
                    source
<1>8. QED
  BY <1>2, <1>3, <1>4, <1>5, <1>6, <1>7, ListedPaths DEF Next

\* The learner processes the materials that are listed, in whatever order the staging
\* requests are answered, fail or are given up.
THEOREM ProcessedIsListed == Spec => []StagedIsListed
<1>1. Listed => StagedIsListed
  BY DEF Listed
<1>2. QED
  BY <1>1, ListedInit, ListedStep, PTL DEF Spec

-----------------------------------------------------------------------------
(* The refresh: whoever waits for the snapshot has seen the job committed.  *)

Committed(j, n) == \E i \in 1..n : writes[i] = j

Statuses == {"absent", "asked", "active"} \cup Terminal

\* Polls are of a job, and one that follows a success has a commit behind it.
Polls ==
  /\ polls \in [1..MaxPolls -> [at : {"free", "polling", "polled", "loading", "loaded"},
                                saw : Statuses \cup {"none"}, course : Nat]]
  /\ \A n \in 1..MaxPolls :
       /\ polls[n].at # "free" => polled \in Jobs
       /\ polls[n].saw = "succeeded" => polls[n].at = "polled"
       /\ polls[n].saw = "succeeded" \/ polls[n].at = "loading" => Committed(polled, Len(writes))
       /\ polls[n].course <= Len(writes)
       /\ polls[n].at = "loaded" => Committed(polled, polls[n].course)

Rows == /\ writes \in Seq(Jobs \cup {Page})
        /\ server \in [Jobs -> Statuses]
        /\ runner \in [Jobs -> {"none", "running", "committed", "over"}]
        /\ \A j \in Jobs : server[j] = "succeeded" \/ runner[j] = "committed"
                             => Committed(j, Len(writes))

\* What the effect polls, or is going to poll, is a job.
Targets == /\ Active => job.id \in Jobs
           /\ timer => polled \in Jobs

Current == Polls /\ Rows /\ Targets

LEMMA CurrentInit == Init => Current
<1> SUFFICES ASSUME Init PROVE Current
  OBVIOUS
<1>1. Polls
  BY DEF Init, Polls, Free
<1>2. Rows
  BY DEF Init, Rows, Statuses
<1>3. Targets
  BY DEF Init, Targets, Active, NoJob
<1>4. QED
  BY <1>1, <1>2, <1>3 DEF Current

LEMMA PollsUnchanged ==
  ASSUME Current, UNCHANGED <<polls, polled, writes>> PROVE Polls'
BY DEF Current, Polls, Committed

LEMMA RowsUnchanged == ASSUME Current, UNCHANGED rows PROVE Rows'
BY DEF Current, Rows, Committed, rows

LEMMA TargetsUnchanged == ASSUME Current, UNCHANGED <<job, timer, polled>> PROVE Targets'
BY DEF Current, Targets, Active

\* A write keeps those before it.
LEMMA WriteStep ==
  ASSUME Current, NEW w \in Jobs \cup {Page}, writes' = Append(writes, w),
         UNCHANGED <<polls, polled>>
  PROVE  /\ Polls'
         /\ writes' \in Seq(Jobs \cup {Page})
         /\ Committed(w, Len(writes))'
         /\ \A k : Committed(k, Len(writes)) => Committed(k, Len(writes))'
<1>1. writes \in Seq(Jobs \cup {Page}) /\ Len(writes) \in Nat
  BY DEF Current, Rows
<1>2. /\ writes' \in Seq(Jobs \cup {Page}) /\ Len(writes') = Len(writes) + 1
      /\ \A i \in 1..Len(writes) : writes'[i] = writes[i]
      /\ writes'[Len(writes) + 1] = w
  BY <1>1
<1>3. /\ \A k : Committed(k, Len(writes)) => Committed(k, Len(writes))'
      /\ Committed(w, Len(writes))'
  BY <1>1, <1>2 DEF Committed
<1>4. Polls'
  <2>1. polls \in [1..MaxPolls -> [at : {"free", "polling", "polled", "loading", "loaded"},
                                  saw : Statuses \cup {"none"}, course : Nat]]
    BY DEF Current, Polls
  <2>2. ASSUME NEW n \in 1..MaxPolls
        PROVE  /\ polls[n].course <= Len(writes')
               /\ polls[n].at = "loaded" => Committed(polled, polls[n].course)'
    <3>1. polls[n].course \in Nat /\ polls[n].course <= Len(writes)
      BY <2>1 DEF Current, Polls
    <3>2. polls[n].at = "loaded" => Committed(polled, polls[n].course)
      BY DEF Current, Polls
    <3>3. QED
      BY <1>1, <1>2, <3>1, <3>2 DEF Committed
  <2>3. QED
    BY <1>3, <2>1, <2>2 DEF Current, Polls
<1>5. QED
  BY <1>2, <1>3, <1>4

\* A row is saved as succeeded only behind a commit.
LEMMA RunStep ==
  ASSUME Current, NEW j \in Jobs, Run(j) \/ Patch(j) PROVE Current'
<1>1. UNCHANGED <<polls, polled, job, timer>>
  BY DEF Run, Patch, Commit, Succeed, Fail, Stop, Runs, effect
<1>2. Targets'
  BY <1>1, TargetsUnchanged
<1>3. CASE Commit(j)
  <2>1. writes' = Append(writes, j) /\ server' = server
        /\ runner' = [runner EXCEPT ![j] = "committed"]
    BY <1>3 DEF Commit
  <2>2. /\ Polls' /\ writes' \in Seq(Jobs \cup {Page})
        /\ Committed(j, Len(writes))'
        /\ \A k : Committed(k, Len(writes)) => Committed(k, Len(writes))'
    BY <1>1, <2>1, WriteStep
  <2>3. Rows'
    BY <2>1, <2>2 DEF Current, Rows
  <2>4. QED
    BY <1>2, <2>2, <2>3 DEF Current
<1>4. CASE Succeed(j) \/ Fail(j) \/ Stop(j) \/ Patch(j)
  <2>1. /\ writes' = writes /\ runner' \in {runner, [runner EXCEPT ![j] = "over"]}
        /\ server' \in [Jobs -> Statuses]
        /\ \A k \in Jobs \ {j} : server'[k] = server[k]
        /\ server'[j] = "succeeded" => server[j] = "succeeded" \/ runner[j] = "committed"
    BY <1>4 DEF Succeed, Fail, Stop, Patch, Runs, Current, Rows, Statuses, Terminal
  <2>2. \A k, n : Committed(k, n) => Committed(k, n)'
    BY <2>1 DEF Committed
  <2>3. Rows'
    BY <2>1, <2>2 DEF Current, Rows
  <2>4. QED
    BY <1>1, <1>2, <2>1, <2>3, PollsUnchanged DEF Current
<1>5. QED
  BY <1>3, <1>4 DEF Run

\* A save of the page replaces the snapshot and forgets no commit.
LEMMA SavePageStep == ASSUME Current, SavePage PROVE Current'
<1>1. writes' = Append(writes, Page) /\ UNCHANGED <<server, runner, polls, polled, job, timer>>
  BY DEF SavePage, effect
<1>2. /\ Polls' /\ writes' \in Seq(Jobs \cup {Page})
      /\ \A k : Committed(k, Len(writes)) => Committed(k, Len(writes))'
  BY <1>1, WriteStep
<1>3. Rows'
  BY <1>1, <1>2 DEF Current, Rows
<1>4. QED
  BY <1>1, <1>2, <1>3, TargetsUnchanged DEF Current

\* Of all that happens to one poll, what its new record has to satisfy.
PollOK(p) ==
  /\ p \in [at : {"free", "polling", "polled", "loading", "loaded"},
            saw : Statuses \cup {"none"}, course : Nat]
  /\ p.at # "free" => polled \in Jobs
  /\ p.saw = "succeeded" => p.at = "polled"
  /\ p.saw = "succeeded" \/ p.at = "loading" => Committed(polled, Len(writes))
  /\ p.course <= Len(writes)
  /\ p.at = "loaded" => Committed(polled, p.course)

LEMMA PollEffect ==
  ASSUME Current, NEW n \in 1..MaxPolls, NEW p, PollOK(p), polls' = [polls EXCEPT ![n] = p],
         UNCHANGED <<polled, writes>>
  PROVE  Polls'
BY DEF Current, Polls, PollOK, Committed

LEMMA IdlePolls ==
  ASSUME Current
  PROVE  /\ PollOK(Free)
         /\ polled \in Jobs => PollOK(Poll)
         /\ Len(writes) \in Nat
<1>1. Len(writes) \in Nat /\ Len(writes) >= 0
  BY DEF Current, Rows
<1>2. QED
  BY <1>1 DEF PollOK, Free, Poll

LEMMA PollingStep ==
  ASSUME Current, NEW n \in 1..MaxPolls, Read(n) \/ Polled(n) \/ Refreshed(n) \/ PollFails(n)
  PROVE  Current'
<1>1. PollOK(polls[n]) /\ PollOK(Free) /\ Len(writes) \in Nat
  BY IdlePolls DEF Current, Polls, PollOK
<1>2. UNCHANGED <<polled, writes, rows>>
  BY DEF Read, Polled, Refreshed, PollFails, remote, rows
<1>3. CASE Read(n)
  <2>1. CASE polls[n].at = "polling" /\ polls' = [polls EXCEPT ![n].at = "polled", ![n].saw = server[polled]]
    <3>1. PollOK([polls[n] EXCEPT !.at = "polled", !.saw = server[polled]])
      BY <1>1, <2>1 DEF PollOK, Current, Rows
    <3>2. polls' = [polls EXCEPT ![n] = [polls[n] EXCEPT !.at = "polled", !.saw = server[polled]]]
      BY <2>1 DEF Current, Polls
    <3>3. QED
      BY <1>2, <1>3, <3>1, <3>2, PollEffect, RowsUnchanged, TargetsUnchanged DEF Read, Current
  <2>2. CASE polls[n].at = "loading" /\ polls' = [polls EXCEPT ![n].at = "loaded", ![n].course = Len(writes)]
    <3>1. PollOK([polls[n] EXCEPT !.at = "loaded", !.course = Len(writes)])
      <4> DEFINE p == [polls[n] EXCEPT !.at = "loaded", !.course = Len(writes)]
      <4>1. /\ p \in [at : {"loaded"}, saw : Statuses \cup {"none"}, course : {Len(writes)}]
            /\ p.saw = polls[n].saw
        BY <1>1 DEF PollOK
      <4>2. polled \in Jobs /\ Committed(polled, Len(writes)) /\ p.saw # "succeeded"
        BY <1>1, <2>2, <4>1 DEF PollOK
      <4> HIDE DEF p
      <4>3. PollOK(p)
        BY <1>1, <4>1, <4>2 DEF PollOK
      <4>4. QED
        BY <4>3 DEF p
    <3>2. polls' = [polls EXCEPT ![n] = [polls[n] EXCEPT !.at = "loaded", !.course = Len(writes)]]
      BY <2>2 DEF Current, Polls
    <3>3. QED
      BY <1>2, <1>3, <3>1, <3>2, PollEffect, RowsUnchanged, TargetsUnchanged DEF Read, Current
  <2>3. QED
    BY <1>3, <2>1, <2>2 DEF Read
<1>4. CASE Polled(n)
  <2>1. polls[n].at = "polled" /\ polled \in Jobs
    BY <1>1, <1>4 DEF Polled, PollOK
  <2>2. polls[n].saw = "succeeded" => PollOK(Refreshing)
    BY <1>1, <2>1 DEF PollOK, Refreshing, Free
  <2>3. Polls'
    BY <1>1, <1>2, <1>4, <2>2, PollEffect DEF Polled
  <2>4. Targets'
    BY <1>2, <1>4, <2>1 DEF Polled, Targets, Active, Shown, Current
  <2>5. QED
    BY <1>2, <2>3, <2>4, RowsUnchanged DEF Current
<1>5. CASE Refreshed(n)
  BY <1>1, <1>2, <1>5, PollEffect, RowsUnchanged, TargetsUnchanged DEF Refreshed, Current
<1>6. CASE PollFails(n)
  <2>1. Targets'
    BY <1>2, <1>6 DEF PollFails, Targets, Active, Current
  <2>2. QED
    BY <1>1, <1>2, <1>6, <2>1, PollEffect, RowsUnchanged DEF PollFails, Current
<1>7. QED
  BY <1>3, <1>4, <1>5, <1>6

LEMMA TickStep == ASSUME Current, NEW n \in 1..MaxPolls, Tick(n) PROVE Current'
<1>1. PollOK(Poll)
  BY IdlePolls DEF Tick, Current, Targets
<1>2. QED
  BY <1>1, PollEffect, RowsUnchanged, TargetsUnchanged DEF Tick, Current, remote, rows

LEMMA RenderStep == ASSUME Current, Render PROVE Current'
<1>1. Len(writes) \in Nat
  BY IdlePolls
<1>2. Polls'
  <2>1. polls' = [n \in 1..MaxPolls |-> IF n = 1 /\ Active THEN Poll ELSE Free]
    BY DEF Render
  <2>2. Active => polled' \in Jobs
    BY DEF Render, Current, Targets
  <2>3. writes' = writes
    BY DEF Render, remote, rows
  <2>4. QED
    BY <1>1, <2>1, <2>2, <2>3 DEF Polls, Poll, Free
<1>3. Targets'
  BY DEF Render, Current, Targets, Active
<1>4. QED
  BY <1>2, <1>3, RowsUnchanged DEF Render, remote, Current

\* What requests do to a row, short of ending its job.
LEMMA RequestStep ==
  ASSUME Current, NEW j \in Jobs, Accept(j) \/ HandleCancel(j) \/ SaveCancelled(j) \/ Reply(j)
  PROVE  Current'
<1>1. Polls'
  BY PollsUnchanged DEF Accept, HandleCancel, SaveCancelled, Reply, Asked, AskFails, Cancelled,
                        CancelFails, effect, rows
<1>2. Rows'
  <2>1. CASE UNCHANGED rows
    BY <2>1, RowsUnchanged
  <2>2. CASE Accept(j) \/ SaveCancelled(j)
    BY <2>2 DEF Accept, SaveCancelled, Current, Rows, Statuses, Terminal, Committed
  <2>3. QED
    BY <2>1, <2>2 DEF HandleCancel, Reply, Asked, AskFails, Cancelled, CancelFails
<1>3. Targets'
  <2>1. CASE UNCHANGED <<job, timer, polled>>
    BY <2>1, TargetsUnchanged
  <2>2. CASE Asked(j) \/ Cancelled(j)
    BY <2>2 DEF Asked, Cancelled, Current, Targets, Active, Shown
  <2>3. QED
    BY <2>1, <2>2 DEF Accept, HandleCancel, SaveCancelled, Reply, AskFails, CancelFails, effect
<1>4. QED
  BY <1>1, <1>2, <1>3 DEF Current

LEMMA LearnerStep == ASSUME Current, Learner PROVE Current'
<1>1. Polls'
  BY PollsUnchanged DEF Learner, Open, Close, ImportJson, TypePath, OpenPath, OpenFolderPath, OpenFolder, Cancel, Rerun, Drop,
                        Start, Retry, Ask, remote, rows, effect
<1>2. Rows'
  <2>1. CASE UNCHANGED rows
    BY <2>1, RowsUnchanged
  <2>2. ASSUME NEW j \in Jobs, Ask(j) PROVE Rows'
    BY <2>2 DEF Ask, Current, Rows, Statuses, Committed
  <2>3. QED
    BY <2>1, <2>2 DEF Learner, Open, Close, ImportJson, TypePath, OpenPath, OpenFolderPath, OpenFolder, Cancel, Rerun, Drop,
                      Start, Retry, remote
<1>3. Targets'
  <2>1. CASE Close
    BY <2>1 DEF Close, Current, Targets, Active, NoJob
  <2>2. CASE UNCHANGED <<job, timer, polled>>
    BY <2>2, TargetsUnchanged
  <2>3. QED
    BY <2>1, <2>2 DEF Learner, Open, ImportJson, TypePath, OpenPath, OpenFolderPath, OpenFolder, Cancel, Rerun, Drop,
                      Start, Retry, Ask, effect
<1>4. QED
  BY <1>1, <1>2, <1>3 DEF Current

LEMMA CurrentUnchanged ==
  ASSUME Current, UNCHANGED <<polls, polled, rows, job, timer>> PROVE Current'
BY PollsUnchanged, RowsUnchanged, TargetsUnchanged DEF Current, rows

LEMMA CurrentStep == ASSUME Current, [Next]_vars PROVE Current'
<1>1. CASE Requests
  BY <1>1, RequestStep DEF Requests
<1>2. CASE Polling
  BY <1>2, PollingStep DEF Polling
<1>3. CASE \/ Stagings \/ (\E m \in Materials : OpenMaterials(m)) \/ FolderPicked
           \/ UNCHANGED vars
  BY <1>3, CurrentUnchanged DEF Stagings, StagingAnswered, StagingFails, OpenMaterials,
                                FolderPicked, OpenFolderPath, vars, remote, effect
<1>4. QED
  BY <1>1, <1>2, <1>3, LearnerStep, RenderStep, RunStep, SavePageStep, TickStep DEF Next

\* The snapshot that is about to replace the learner's course was read after the commit of
\* the job whose success it follows, whatever polls, cancels, retries, closings and saves of
\* the page came in between (poll, runStudyFrameProcessingJob).
THEOREM RefreshStaysCurrent == Spec => []RefreshIsCurrent
<1>1. Current => RefreshIsCurrent
  BY DEF Current, Polls, Committed, RefreshIsCurrent
<1>2. QED
  BY <1>1, CurrentInit, CurrentStep, PTL DEF Spec
=============================================================================
