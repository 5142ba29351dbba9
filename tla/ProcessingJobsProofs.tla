------------------------ MODULE ProcessingJobsProofs ------------------------
(***************************************************************************)
(* Proofs about ProcessingJobs, for every set of jobs and requests and     *)
(* every bound on failures and restarts.  The inductive invariant is built *)
(* in layers: Shape says which rows, copies and stages go with which       *)
(* control point and contains the type invariant; each further layer       *)
(* assumes Shape and adds what one property needs: the outcome of a job,   *)
(* its trail of events and artifacts, and the promise of CourseImport.     *)
(***************************************************************************)
EXTENDS ProcessingJobs, TLAPS

\* The control points at which the local variable `job` is live.
Walking == {"enter", "check", "provider", "work", "commit", "complete"}

Fiber == [pc : PC, job : Row]

\* The rows and local copies that go with each control point of a runner.
JobShape(saved, fiber) ==
  /\ fiber.pc = "none" => saved.status = "absent"
  /\ fiber.pc = "forked" => saved.stage = 0 /\ saved.status \in {"queued", "cancelled"}
  /\ fiber.pc \in Walking \cup {"failLocal"} =>
       fiber.job.status \in {"queued", "running", "cancelled"}
  /\ fiber.pc = "enter" => fiber.job.stage \in 0..10
  /\ fiber.pc \in {"check", "work"} => fiber.job.stage \in 1..10
  /\ fiber.pc \in {"provider", "failLocal"} => fiber.job.stage = 1
  /\ fiber.pc \in {"commit", "complete"} => fiber.job.stage = 11

RunnerShape == \A j \in Jobs : JobShape(row[j], runner[j])

RequestShape ==
  \A r \in Requests : request[r].pc # "idle" =>
    /\ request[r].job \in Jobs
    /\ request[r].copy.status # "absent"
    /\ runner[request[r].job].pc # "none"
    /\ runner[request[r].job].pc = "forked" =>
         request[r].copy.stage = 0 /\ request[r].copy.status \in {"queued", "cancelled"}

Shape == TypeOK /\ RunnerShape /\ RequestShape

LEMMA ShapeInit == Init => Shape
<1> SUFFICES ASSUME Init PROVE Shape
  OBVIOUS
<1>1. TypeOK
  BY BoundsAreNat DEF Init, TypeOK, AbsentRow, Idle, Row, Active, Terminal, PC
<1>2. RunnerShape
  BY DEF Init, RunnerShape, JobShape, Walking, AbsentRow
<1>3. RequestShape
  BY DEF Init, RequestShape, Idle
<1>4. QED
  BY <1>1, <1>2, <1>3 DEF Shape

\* What a save of a row and its event does to the tables and the runner, job by job.
Entries == SUBSET ((0..12) \X {"info", "artifact"})

Persisted(j, new, entries, next, onError) ==
  /\ row' \in [Jobs -> Row]
  /\ trail' \in [Jobs -> Entries]
  /\ runner' \in [Jobs -> Fiber]
  /\ faults' \in 0..MaxFaults
  /\ \A k \in Jobs \ {j} : row'[k] = row[k] /\ trail'[k] = trail[k] /\ runner'[k] = runner[k]
  /\ \/ /\ row'[j] = new
        /\ trail'[j] = trail[j] \cup entries
        /\ runner'[j] = next
        /\ faults' = faults
     \/ /\ row'[j] \in {row[j], new}
        /\ trail'[j] = trail[j]
        /\ runner'[j] = onError
        /\ faults' = faults + 1

Moved(j, nexts) ==
  /\ runner' \in [Jobs -> Fiber]
  /\ runner'[j] \in nexts
  /\ \A k \in Jobs \ {j} : runner'[k] = runner[k]
  /\ row' = row

LEMMA PersistEffect ==
  ASSUME TypeOK,
         NEW j \in Jobs, NEW new \in Row, NEW entries \in Entries,
         NEW next \in Fiber, NEW onError \in Fiber,
         Persist(j, new, entries, next, onError)
  PROVE  Persisted(j, new, entries, next, onError)
<1> USE BoundsAreNat DEF Entries, Persisted
<1> DEFINE saved == [row EXCEPT ![j] = new]
<1>1. row \in [Jobs -> Row] /\ runner \in [Jobs -> Fiber] /\ faults \in 0..MaxFaults
      /\ trail \in [Jobs -> Entries]
  BY DEF TypeOK, Fiber
<1>2. CASE /\ row' = saved
           /\ trail' = [trail EXCEPT ![j] = @ \cup entries]
           /\ runner' = [runner EXCEPT ![j] = next]
           /\ UNCHANGED faults
  BY <1>1, <1>2
<1>3. CASE /\ Fault
           /\ row' \in {row, saved}
           /\ runner' = [runner EXCEPT ![j] = onError]
           /\ UNCHANGED trail
  BY <1>1, <1>3 DEF Fault
<1>4. QED
  BY <1>2, <1>3 DEF Persist

\* A step that leaves the requests alone and moves one job keeps Shape when it
\* keeps the shape of that job.
LEMMA ShapeByJob ==
  ASSUME Shape, TypeOK', NEW j \in Jobs,
         request' = request,
         \A k \in Jobs \ {j} : row'[k] = row[k] /\ runner'[k] = runner[k],
         JobShape(row'[j], runner'[j]),
         runner'[j].pc # "none",
         runner'[j].pc = "forked" => runner[j].pc = "none"
  PROVE  Shape'
<1>1. RunnerShape'
  <2> SUFFICES ASSUME NEW k \in Jobs PROVE JobShape(row'[k], runner'[k])
    BY DEF RunnerShape
  <2>1. CASE k = j
    BY <2>1
  <2>2. CASE k # j
    BY <2>2 DEF Shape, RunnerShape
  <2>3. QED
    BY <2>1, <2>2
<1>2. RequestShape'
  BY DEF Shape, RequestShape
<1>3. QED
  BY <1>1, <1>2 DEF Shape

LEMMA RowsAndFibers ==
  /\ AbsentRow \in Row /\ QueuedRow \in Row /\ CompletedRow \in Row
  /\ \A job \in Row : FailedRow(job) \in Row /\ CancelledRow(job) \in Row
  /\ \A job \in Row : job.stage # 12 => EnterRow(job) \in Row
  /\ \A pc \in PC, job \in Row : At(pc, job) \in Fiber
  /\ Failing \in Fiber /\ Finally \in Fiber /\ Ended \in Fiber
  /\ \A k \in 0..12 : /\ Entered(k) \in Entries
                     /\ Artifact(k) \in Entries
BY DEF AbsentRow, QueuedRow, CompletedRow, FailedRow, CancelledRow, EnterRow, Row, Active,
       Terminal, At, Failing, Finally, Ended, Fiber, PC, Entered, Artifact, Entries

LEMMA InsertEffect ==
  ASSUME Shape, NEW j \in Jobs, Insert(j)
  PROVE  Persisted(j, QueuedRow, Entered(0), At("forked", AbsentRow), Ended)
<1>1. TypeOK
  BY DEF Shape
<1>2. At("forked", AbsentRow) \in Fiber
  BY RowsAndFibers DEF PC
<1>3. Persist(j, QueuedRow, Entered(0), At("forked", AbsentRow), Ended)
  BY DEF Insert
<1>4. QED
  BY <1>1, <1>2, <1>3, PersistEffect, RowsAndFibers

LEMMA InsertShape ==
  ASSUME Shape, NEW j \in Jobs, Insert(j), origin' \in [Jobs -> Jobs \cup {None}]
  PROVE  Shape'
<1>1. TypeOK
  BY DEF Shape
<1>2. Persisted(j, QueuedRow, Entered(0), At("forked", AbsentRow), Ended)
  BY InsertEffect
<1>3. TypeOK'
  BY <1>1, <1>2 DEF Insert, TypeOK, Persisted, Fiber, Entries
<1>4. JobShape(row'[j], runner'[j])
  BY <1>2 DEF Persisted, JobShape, Walking, At, Ended, AbsentRow, QueuedRow
<1>5. runner[j].pc = "none" /\ runner'[j].pc # "none"
  BY <1>2 DEF Insert, Persisted, At, Ended
<1>6. /\ request' = request
      /\ \A k \in Jobs \ {j} : row'[k] = row[k] /\ runner'[k] = runner[k]
  BY <1>2 DEF Insert, Persisted
<1>7. QED
  BY <1>3, <1>4, <1>5, <1>6, ShapeByJob

LEMMA EnterEffect ==
  ASSUME Shape, NEW j \in Jobs, Enter(j)
  PROVE  Persisted(j, EnterRow(runner[j].job), Entered(EnterRow(runner[j].job).stage),
               At(AfterEnter(EnterRow(runner[j].job).stage), EnterRow(runner[j].job)), Failing)
<1> DEFINE job == runner[j].job
           new == EnterRow(job)
<1>1. TypeOK /\ job \in Row /\ job.stage \in 0..10
  BY DEF Shape, RunnerShape, JobShape, TypeOK, Enter
<1>2. new \in Row /\ new.stage \in 1..11
  BY <1>1, RowsAndFibers DEF EnterRow
<1>3. AfterEnter(new.stage) \in PC
  BY DEF AfterEnter, PC
<1>4. At(AfterEnter(new.stage), new) \in Fiber /\ Entered(new.stage) \in Entries
  BY <1>2, <1>3, RowsAndFibers
<1>5. Persist(j, new, Entered(new.stage), At(AfterEnter(new.stage), new), Failing)
  BY DEF Enter
<1> HIDE DEF new, job
<1>6. QED
  BY <1>1, <1>2, <1>4, <1>5, PersistEffect, RowsAndFibers DEF new, job

LEMMA EnterShape == ASSUME Shape, NEW j \in Jobs, Enter(j) PROVE Shape'
<1> DEFINE job == runner[j].job
<1>1. TypeOK /\ runner[j] \in Fiber /\ job \in Row /\ JobShape(row[j], runner[j])
  BY DEF Shape, RunnerShape, TypeOK, Fiber
<1>2. Persisted(j, EnterRow(job), Entered(EnterRow(job).stage),
               At(AfterEnter(EnterRow(job).stage), EnterRow(job)), Failing)
  BY EnterEffect
<1>3. TypeOK'
  BY <1>1, <1>2 DEF Enter, RunnerUnchanged, history, TypeOK, Persisted, Fiber, Entries
<1>4. JobShape(row'[j], runner'[j])
  BY <1>1, <1>2 DEF Enter, Persisted, JobShape, Walking, At, Failing, AbsentRow, EnterRow, AfterEnter, Row
<1>5. runner'[j].pc \notin {"none", "forked"}
  BY <1>2 DEF Persisted, At, Failing, AbsentRow, EnterRow, AfterEnter, Row
<1>6. /\ request' = request
      /\ \A k \in Jobs \ {j} : row'[k] = row[k] /\ runner'[k] = runner[k]
  BY <1>2 DEF Enter, RunnerUnchanged, Persisted
<1>7. QED
  BY <1>3, <1>4, <1>5, <1>6, ShapeByJob

LEMMA CompleteEffect ==
  ASSUME Shape, NEW j \in Jobs, Complete(j)
  PROVE  Persisted(j, CompletedRow, Entered(12), Finally, Failing)
<1>1. TypeOK
  BY DEF Shape
<1>2. Persist(j, CompletedRow, Entered(12), Finally, Failing)
  BY DEF Complete
<1>3. QED
  BY <1>1, <1>2, PersistEffect, RowsAndFibers

LEMMA CompleteShape == ASSUME Shape, NEW j \in Jobs, Complete(j) PROVE Shape'
<1> DEFINE job == runner[j].job
<1>1. TypeOK /\ runner[j] \in Fiber /\ job \in Row /\ JobShape(row[j], runner[j])
  BY DEF Shape, RunnerShape, TypeOK, Fiber
<1>2. Persisted(j, CompletedRow, Entered(12), Finally, Failing)
  BY CompleteEffect
<1>3. TypeOK'
  BY <1>1, <1>2 DEF Complete, RunnerUnchanged, history, TypeOK, Persisted, Fiber, Entries
<1>4. JobShape(row'[j], runner'[j])
  BY <1>1, <1>2 DEF Complete, Persisted, JobShape, Walking, At, Failing, Finally, AbsentRow, CompletedRow, Row
<1>5. runner'[j].pc \notin {"none", "forked"}
  BY <1>2 DEF Persisted, At, Failing, Finally, AbsentRow, CompletedRow, Row
<1>6. /\ request' = request
      /\ \A k \in Jobs \ {j} : row'[k] = row[k] /\ runner'[k] = runner[k]
  BY <1>2 DEF Complete, RunnerUnchanged, Persisted
<1>7. QED
  BY <1>3, <1>4, <1>5, <1>6, ShapeByJob

LEMMA FailLocalEffect ==
  ASSUME Shape, NEW j \in Jobs, FailLocal(j)
  PROVE  Persisted(j, FailedRow(runner[j].job), {}, Finally, Failing)
<1> DEFINE job == runner[j].job
<1>1. TypeOK /\ job \in Row
  BY DEF Shape, TypeOK
<1>2. FailedRow(job) \in Row /\ {} \in Entries
  BY <1>1, RowsAndFibers DEF Entries
<1>3. Persist(j, FailedRow(job), {}, Finally, Failing)
  BY DEF FailLocal
<1> HIDE DEF job
<1>4. QED
  BY <1>1, <1>2, <1>3, PersistEffect, RowsAndFibers DEF job

LEMMA FailLocalShape == ASSUME Shape, NEW j \in Jobs, FailLocal(j) PROVE Shape'
<1> DEFINE job == runner[j].job
<1>1. TypeOK /\ runner[j] \in Fiber /\ job \in Row /\ JobShape(row[j], runner[j])
  BY DEF Shape, RunnerShape, TypeOK, Fiber
<1>2. Persisted(j, FailedRow(job), {}, Finally, Failing)
  BY FailLocalEffect
<1>3. TypeOK'
  BY <1>1, <1>2 DEF FailLocal, RunnerUnchanged, history, TypeOK, Persisted, Fiber, Entries
<1>4. JobShape(row'[j], runner'[j])
  BY <1>1, <1>2 DEF FailLocal, Persisted, JobShape, Walking, At, Failing, Finally, AbsentRow, FailedRow, Row
<1>5. runner'[j].pc \notin {"none", "forked"}
  BY <1>2 DEF Persisted, At, Failing, Finally, AbsentRow, FailedRow, Row
<1>6. /\ request' = request
      /\ \A k \in Jobs \ {j} : row'[k] = row[k] /\ runner'[k] = runner[k]
  BY <1>2 DEF FailLocal, RunnerUnchanged, Persisted
<1>7. QED
  BY <1>3, <1>4, <1>5, <1>6, ShapeByJob

LEMMA FailSaveEffect ==
  ASSUME Shape, NEW j \in Jobs, FailSave(j)
  PROVE  Persisted(j, FailedRow(runner[j].job), {}, Finally, Finally)
<1> DEFINE job == runner[j].job
<1>1. TypeOK /\ job \in Row
  BY DEF Shape, TypeOK
<1>2. FailedRow(job) \in Row /\ {} \in Entries
  BY <1>1, RowsAndFibers DEF Entries
<1>3. Persist(j, FailedRow(job), {}, Finally, Finally)
  BY DEF FailSave
<1> HIDE DEF job
<1>4. QED
  BY <1>1, <1>2, <1>3, PersistEffect, RowsAndFibers DEF job

LEMMA FailSaveShape == ASSUME Shape, NEW j \in Jobs, FailSave(j) PROVE Shape'
<1> DEFINE job == runner[j].job
<1>1. TypeOK /\ runner[j] \in Fiber /\ job \in Row /\ JobShape(row[j], runner[j])
  BY DEF Shape, RunnerShape, TypeOK, Fiber
<1>2. Persisted(j, FailedRow(job), {}, Finally, Finally)
  BY FailSaveEffect
<1>3. TypeOK'
  BY <1>1, <1>2 DEF FailSave, RunnerUnchanged, history, TypeOK, Persisted, Fiber, Entries
<1>4. JobShape(row'[j], runner'[j])
  BY <1>1, <1>2 DEF FailSave, Persisted, JobShape, Walking, At, Failing, Finally, AbsentRow, FailedRow, Row
<1>5. runner'[j].pc \notin {"none", "forked"}
  BY <1>2 DEF Persisted, At, Failing, Finally, AbsentRow, FailedRow, Row
<1>6. /\ request' = request
      /\ \A k \in Jobs \ {j} : row'[k] = row[k] /\ runner'[k] = runner[k]
  BY <1>2 DEF FailSave, RunnerUnchanged, Persisted
<1>7. QED
  BY <1>3, <1>4, <1>5, <1>6, ShapeByJob

LEMMA BeginEffect ==
  ASSUME Shape, NEW j \in Jobs, Begin(j)
  PROVE  Moved(j, {At("enter", row[j]), Failing})
<1>1. runner \in [Jobs -> Fiber] /\ runner[j].job \in Row /\ row[j] \in Row
  BY DEF Shape, TypeOK, Fiber
<1>2. PICK next \in {At("enter", row[j]), Failing} : runner' = [runner EXCEPT ![j] = next]
  BY DEF Begin
<1>3. next \in Fiber
  BY <1>1, RowsAndFibers DEF PC
<1>4. row' = row
  BY DEF Begin, RunnerUnchanged, tables
<1>5. QED
  BY <1>1, <1>2, <1>3, <1>4 DEF Moved

LEMMA BeginShape == ASSUME Shape, NEW j \in Jobs, Begin(j) PROVE Shape'
<1> DEFINE job == runner[j].job
<1>1. TypeOK /\ runner[j] \in Fiber /\ job \in Row /\ row[j] \in Row /\ JobShape(row[j], runner[j])
  BY DEF Shape, RunnerShape, TypeOK, Fiber
<1>4. Moved(j, {At("enter", row[j]), Failing})
  BY BeginEffect
<1>5. TypeOK'
  BY <1>1, <1>4, BoundsAreNat DEF Begin, Fault, tables, history, Moved, TypeOK, Fiber
<1>6. request' = request
  BY DEF Begin, RunnerUnchanged
<1>7. JobShape(row'[j], runner'[j]) /\ runner'[j].pc \notin {"none", "forked"}
  BY <1>1, <1>4 DEF Begin, Moved, JobShape, Walking, At, Failing, AbsentRow
<1>8. QED
  BY <1>4, <1>5, <1>6, <1>7, ShapeByJob DEF Moved

LEMMA WorkEffect ==
  ASSUME Shape, NEW j \in Jobs, Work(j)
  PROVE  Moved(j, {At("check", runner[j].job), Failing})
<1>1. runner \in [Jobs -> Fiber] /\ runner[j].job \in Row /\ row[j] \in Row
  BY DEF Shape, TypeOK, Fiber
<1>2. PICK next \in {At("check", runner[j].job), Failing} : runner' = [runner EXCEPT ![j] = next]
  BY DEF Work
<1>3. next \in Fiber
  BY <1>1, RowsAndFibers DEF PC
<1>4. row' = row
  BY DEF Work, RunnerUnchanged, tables
<1>5. QED
  BY <1>1, <1>2, <1>3, <1>4 DEF Moved

LEMMA WorkShape == ASSUME Shape, NEW j \in Jobs, Work(j) PROVE Shape'
<1> DEFINE job == runner[j].job
<1>1. TypeOK /\ runner[j] \in Fiber /\ job \in Row /\ row[j] \in Row /\ JobShape(row[j], runner[j])
  BY DEF Shape, RunnerShape, TypeOK, Fiber
<1>4. Moved(j, {At("check", job), Failing})
  BY WorkEffect
<1>5. TypeOK'
  <2>1. Artifact(job.stage) \in Entries /\ {} \in Entries
    BY <1>1, RowsAndFibers DEF Row, Entries
  <2>2. trail \in [Jobs -> Entries]
    BY <1>1 DEF TypeOK, Entries
  <2>3. trail' \in [Jobs -> Entries]
    BY <2>1, <2>2 DEF Work, Entries
  <2>4. QED
    BY <1>1, <1>4, <2>3, BoundsAreNat
       DEF Work, Fault, RunnerUnchanged, history, Moved, TypeOK, Fiber, Entries
<1>6. request' = request
  BY DEF Work, RunnerUnchanged
<1>7. JobShape(row'[j], runner'[j]) /\ runner'[j].pc \notin {"none", "forked"}
  BY <1>1, <1>4 DEF Work, Moved, JobShape, Walking, At, Failing, AbsentRow
<1>8. QED
  BY <1>4, <1>5, <1>6, <1>7, ShapeByJob DEF Moved

LEMMA CheckEffect ==
  ASSUME Shape, NEW j \in Jobs, Check(j)
  PROVE  Moved(j, {At("provider", runner[j].job), At("enter", runner[j].job), Failing})
<1>1. runner \in [Jobs -> Fiber] /\ runner[j].job \in Row /\ row[j] \in Row
  BY DEF Shape, TypeOK, Fiber
<1>2. PICK next \in {At("provider", runner[j].job), At("enter", runner[j].job), Failing} : runner' = [runner EXCEPT ![j] = next]
  BY DEF Check
<1>3. next \in Fiber
  BY <1>1, RowsAndFibers DEF PC
<1>4. row' = row
  BY DEF Check, RunnerUnchanged, tables
<1>5. QED
  BY <1>1, <1>2, <1>3, <1>4 DEF Moved

LEMMA CheckShape == ASSUME Shape, NEW j \in Jobs, Check(j) PROVE Shape'
<1> DEFINE job == runner[j].job
<1>1. TypeOK /\ runner[j] \in Fiber /\ job \in Row /\ row[j] \in Row /\ JobShape(row[j], runner[j])
  BY DEF Shape, RunnerShape, TypeOK, Fiber
<1>4. Moved(j, {At("provider", job), At("enter", job), Failing})
  BY CheckEffect
<1>5. TypeOK'
  BY <1>1, <1>4, BoundsAreNat DEF Check, RunnerUnchanged, history, Moved, TypeOK, Fiber
<1>6. request' = request
  BY DEF Check, RunnerUnchanged
<1>7. JobShape(row'[j], runner'[j]) /\ runner'[j].pc \notin {"none", "forked"}
  BY <1>1, <1>4 DEF Check, Moved, JobShape, Walking, At, Failing, AbsentRow
<1>8. QED
  BY <1>4, <1>5, <1>6, <1>7, ShapeByJob DEF Moved

LEMMA ProviderEffect ==
  ASSUME Shape, NEW j \in Jobs, Provider(j)
  PROVE  Moved(j, {At("enter", runner[j].job), At("failLocal", runner[j].job), Failing})
<1>1. runner \in [Jobs -> Fiber] /\ runner[j].job \in Row /\ row[j] \in Row
  BY DEF Shape, TypeOK, Fiber
<1>2. PICK next \in {At("enter", runner[j].job), At("failLocal", runner[j].job), Failing} : runner' = [runner EXCEPT ![j] = next]
  BY DEF Provider
<1>3. next \in Fiber
  BY <1>1, RowsAndFibers DEF PC
<1>4. row' = row
  BY DEF Provider, RunnerUnchanged, tables
<1>5. QED
  BY <1>1, <1>2, <1>3, <1>4 DEF Moved

LEMMA ProviderShape == ASSUME Shape, NEW j \in Jobs, Provider(j) PROVE Shape'
<1> DEFINE job == runner[j].job
<1>1. TypeOK /\ runner[j] \in Fiber /\ job \in Row /\ row[j] \in Row /\ JobShape(row[j], runner[j])
  BY DEF Shape, RunnerShape, TypeOK, Fiber
<1>4. Moved(j, {At("enter", job), At("failLocal", job), Failing})
  BY ProviderEffect
<1>5. TypeOK'
  BY <1>1, <1>4, BoundsAreNat DEF Provider, RunnerUnchanged, history, Moved, TypeOK, Fiber
<1>6. request' = request
  BY DEF Provider, RunnerUnchanged
<1>7. JobShape(row'[j], runner'[j]) /\ runner'[j].pc \notin {"none", "forked"}
  BY <1>1, <1>4 DEF Provider, Moved, JobShape, Walking, At, Failing, AbsentRow
<1>8. QED
  BY <1>4, <1>5, <1>6, <1>7, ShapeByJob DEF Moved

LEMMA CommitEffect ==
  ASSUME Shape, NEW j \in Jobs, Commit(j)
  PROVE  Moved(j, {At("complete", runner[j].job), Failing})
<1>1. runner \in [Jobs -> Fiber] /\ runner[j].job \in Row /\ row[j] \in Row
  BY DEF Shape, TypeOK, Fiber
<1>2. PICK next \in {At("complete", runner[j].job), Failing} : runner' = [runner EXCEPT ![j] = next]
  BY DEF Commit
<1>3. next \in Fiber
  BY <1>1, RowsAndFibers DEF PC
<1>4. row' = row
  BY DEF Commit, RunnerUnchanged, tables
<1>5. QED
  BY <1>1, <1>2, <1>3, <1>4 DEF Moved

LEMMA CommitShape == ASSUME Shape, NEW j \in Jobs, Commit(j) PROVE Shape'
<1> DEFINE job == runner[j].job
<1>1. TypeOK /\ runner[j] \in Fiber /\ job \in Row /\ row[j] \in Row /\ JobShape(row[j], runner[j])
  BY DEF Shape, RunnerShape, TypeOK, Fiber
<1>4. Moved(j, {At("complete", job), Failing})
  BY CommitEffect
<1>5. TypeOK'
  BY <1>1, <1>4, BoundsAreNat DEF Commit, Fault, Moved, TypeOK, Fiber
<1>6. request' = request
  BY DEF Commit, RunnerUnchanged
<1>7. JobShape(row'[j], runner'[j]) /\ runner'[j].pc \notin {"none", "forked"}
  BY <1>1, <1>4 DEF Commit, Moved, JobShape, Walking, At, Failing, AbsentRow
<1>8. QED
  BY <1>4, <1>5, <1>6, <1>7, ShapeByJob DEF Moved

LEMMA LoadFailingEffect ==
  ASSUME Shape, NEW j \in Jobs, LoadFailing(j)
  PROVE  Moved(j, {Finally, At("failSave", row[j])})
<1>1. runner \in [Jobs -> Fiber] /\ runner[j].job \in Row /\ row[j] \in Row
  BY DEF Shape, TypeOK, Fiber
<1>2. PICK next \in {Finally, At("failSave", row[j])} : runner' = [runner EXCEPT ![j] = next]
  BY DEF LoadFailing
<1>3. next \in Fiber
  BY <1>1, RowsAndFibers DEF PC
<1>4. row' = row
  BY DEF LoadFailing, RunnerUnchanged, tables
<1>5. QED
  BY <1>1, <1>2, <1>3, <1>4 DEF Moved

LEMMA LoadFailingShape == ASSUME Shape, NEW j \in Jobs, LoadFailing(j) PROVE Shape'
<1> DEFINE job == runner[j].job
<1>1. TypeOK /\ runner[j] \in Fiber /\ job \in Row /\ row[j] \in Row /\ JobShape(row[j], runner[j])
  BY DEF Shape, RunnerShape, TypeOK, Fiber
<1>4. Moved(j, {Finally, At("failSave", row[j])})
  BY LoadFailingEffect
<1>5. TypeOK'
  BY <1>1, <1>4, BoundsAreNat DEF LoadFailing, Fault, RunnerUnchanged, history, Moved, TypeOK, Fiber
<1>6. request' = request
  BY DEF LoadFailing, RunnerUnchanged
<1>7. JobShape(row'[j], runner'[j]) /\ runner'[j].pc \notin {"none", "forked"}
  BY <1>1, <1>4 DEF LoadFailing, Moved, JobShape, Walking, At, Failing, Finally, AbsentRow
<1>8. QED
  BY <1>4, <1>5, <1>6, <1>7, ShapeByJob DEF Moved

LEMMA ReleaseEffect ==
  ASSUME Shape, NEW j \in Jobs, Release(j)
  PROVE  Moved(j, {Ended})
<1>1. runner \in [Jobs -> Fiber] /\ runner[j].job \in Row /\ row[j] \in Row
  BY DEF Shape, TypeOK, Fiber
<1>2. PICK next \in {Ended} : runner' = [runner EXCEPT ![j] = next]
  BY DEF Release
<1>3. next \in Fiber
  BY <1>1, RowsAndFibers DEF PC
<1>4. row' = row
  BY DEF Release, RunnerUnchanged, tables
<1>5. QED
  BY <1>1, <1>2, <1>3, <1>4 DEF Moved

LEMMA ReleaseShape == ASSUME Shape, NEW j \in Jobs, Release(j) PROVE Shape'
<1> DEFINE job == runner[j].job
<1>1. TypeOK /\ runner[j] \in Fiber /\ job \in Row /\ row[j] \in Row /\ JobShape(row[j], runner[j])
  BY DEF Shape, RunnerShape, TypeOK, Fiber
<1>4. Moved(j, {Ended})
  BY ReleaseEffect
<1>5. TypeOK'
  BY <1>1, <1>4, BoundsAreNat DEF Release, tables, history, Moved, TypeOK, Fiber
<1>6. request' = request
  BY DEF Release, RunnerUnchanged
<1>7. JobShape(row'[j], runner'[j]) /\ runner'[j].pc \notin {"none", "forked"}
  BY <1>1, <1>4 DEF Release, Moved, JobShape, Walking, At, Ended, AbsentRow
<1>8. QED
  BY <1>4, <1>5, <1>6, <1>7, ShapeByJob DEF Moved

LEMMA RequestMoveShape ==
  ASSUME Shape, TypeOK', NEW r \in Requests,
         runner' = runner,
         \A q \in Requests \ {r} : request'[q] = request[q],
         \/ request'[r].pc = "idle"
         \/ /\ request'[r].job \in Jobs
            /\ request'[r].copy.status # "absent"
            /\ runner[request'[r].job].pc # "none"
            /\ runner[request'[r].job].pc = "forked" =>
                 request'[r].copy.stage = 0 /\ request'[r].copy.status \in {"queued", "cancelled"},
         RunnerShape'
  PROVE  Shape'
<1>1. RequestShape'
  BY DEF Shape, RequestShape
<1>2. QED
  BY <1>1 DEF Shape

LEMMA CancelLoadShape ==
  ASSUME Shape, NEW r \in Requests, NEW j \in Jobs, CancelLoad(r, j) PROVE Shape'
<1>1. TypeOK'
  BY DEF Shape, CancelLoad, CancelUnchanged, TypeOK
<1>2. RunnerShape' /\ runner' = runner
  BY DEF Shape, CancelLoad, CancelUnchanged, RunnerShape
<1>3. /\ request'[r] = [pc |-> "loaded", job |-> j, copy |-> row[j]]
      /\ \A q \in Requests \ {r} : request'[q] = request[q]
  BY DEF Shape, CancelLoad, TypeOK
<1>4. JobShape(row[j], runner[j]) /\ row[j].status # "absent"
  BY DEF Shape, RunnerShape, CancelLoad
<1>5. QED
  BY <1>1, <1>2, <1>3, <1>4, RequestMoveShape DEF JobShape

LEMMA CancelMarkShape ==
  ASSUME Shape, NEW r \in Requests, CancelMark(r) PROVE Shape'
<1>1. request[r].job \in Jobs
  BY DEF Shape, RequestShape, CancelMark
<1>2. TypeOK'
  BY <1>1, RowsAndFibers DEF Shape, CancelMark, CancelUnchanged, TypeOK, Idle
<1>3. RunnerShape' /\ runner' = runner
  BY DEF Shape, CancelMark, CancelUnchanged, RunnerShape
<1>4. /\ request'[r] = IF request[r].copy.status \in Active
                       THEN [request[r] EXCEPT !.pc = "saving"] ELSE Idle
      /\ \A q \in Requests \ {r} : request'[q] = request[q]
  BY DEF Shape, CancelMark, TypeOK
<1>5. CASE request[r].copy.status \in Active
  <2>1. request'[r].job = request[r].job /\ request'[r].copy = request[r].copy
    BY <1>4, <1>5 DEF Shape, TypeOK
  <2>2. /\ request[r].copy.status # "absent"
        /\ runner[request[r].job].pc # "none"
        /\ runner[request[r].job].pc = "forked" =>
             request[r].copy.stage = 0 /\ request[r].copy.status \in {"queued", "cancelled"}
    BY DEF Shape, RequestShape, CancelMark
  <2>3. QED
    BY <1>1, <1>2, <1>3, <1>4, <2>1, <2>2, RequestMoveShape
<1>6. CASE request[r].copy.status \notin Active
  BY <1>2, <1>3, <1>4, <1>6, RequestMoveShape DEF Idle
<1>7. QED
  BY <1>5, <1>6

LEMMA CancelSaveShape ==
  ASSUME Shape, NEW r \in Requests, CancelSave(r) PROVE Shape'
<1> DEFINE j    == request[r].job
           copy == request[r].copy
<1>1. /\ j \in Jobs /\ copy \in Row
      /\ runner[j].pc # "none"
      /\ runner[j].pc = "forked" => copy.stage = 0
  BY DEF Shape, RequestShape, TypeOK, CancelSave
<1>2. /\ row' \in [Jobs -> Row]
      /\ row'[j] \in {row[j], CancelledRow(copy)}
      /\ \A k \in Jobs \ {j} : row'[k] = row[k]
  BY <1>1, RowsAndFibers DEF Shape, TypeOK, CancelSave
<1>3. TypeOK'
  BY <1>2, RowsAndFibers, BoundsAreNat DEF Shape, CancelSave, CancelUnchanged, Fault, TypeOK, Idle
<1>4. runner' = runner
  BY DEF CancelSave, CancelUnchanged
<1>5. RunnerShape'
  <2> SUFFICES ASSUME NEW k \in Jobs PROVE JobShape(row'[k], runner[k])
    BY <1>4 DEF RunnerShape
  <2>1. JobShape(row[k], runner[k])
    BY DEF Shape, RunnerShape
  <2>2. CASE k = j
    BY <1>1, <1>2, <2>1, <2>2 DEF JobShape, CancelledRow, Row
  <2>3. CASE k # j
    BY <1>2, <2>1, <2>3
  <2>4. QED
    BY <2>2, <2>3
<1>6. request'[r].pc = "idle" /\ \A q \in Requests \ {r} : request'[q] = request[q]
  BY DEF Shape, CancelSave, TypeOK, Idle
<1>7. QED
  BY <1>3, <1>4, <1>5, <1>6, RequestMoveShape

LEMMA RestartShape == ASSUME Shape, Restart PROVE Shape'
<1>1. TypeOK'
  BY RowsAndFibers, BoundsAreNat DEF Shape, Restart, tables, history, TypeOK, Fiber, Idle
<1>2. RunnerShape'
  <2> SUFFICES ASSUME NEW j \in Jobs PROVE JobShape(row'[j], runner'[j])
    BY DEF RunnerShape
  <2>1. row' = row /\ (runner'[j] = runner[j] \/ runner'[j] = Ended)
    BY DEF Restart, tables
  <2>2. JobShape(row[j], runner[j]) /\ JobShape(row[j], Ended)
    BY DEF Shape, RunnerShape, JobShape, Walking, Ended, At
  <2>3. QED
    BY <2>1, <2>2
<1>3. RequestShape'
  BY DEF Restart, RequestShape, Idle
<1>4. QED
  BY <1>1, <1>2, <1>3 DEF Shape

LEMMA ShapeStep == Shape /\ [Next]_vars => Shape'
<1> SUFFICES ASSUME Shape, [Next]_vars PROVE Shape'
  OBVIOUS
<1>1. ASSUME NEW j \in Jobs, StartJob(j) PROVE Shape'
  BY <1>1, InsertShape DEF StartJob, Shape, TypeOK
<1>2. ASSUME NEW j \in Jobs, RunnerStep(j) PROVE Shape'
  BY <1>2, BeginShape, EnterShape, WorkShape, CheckShape, ProviderShape, CommitShape,
     CompleteShape, FailLocalShape, LoadFailingShape, FailSaveShape, ReleaseShape DEF RunnerStep
<1>3. ASSUME NEW o \in Jobs, NEW j \in Jobs, RetryJob(o, j) PROVE Shape'
  BY <1>3, InsertShape DEF RetryJob, Shape, TypeOK
<1>4. ASSUME NEW r \in Requests, NEW j \in Jobs, CancelLoad(r, j) PROVE Shape'
  BY <1>4, CancelLoadShape
<1>5. ASSUME NEW r \in Requests, RequestStep(r) PROVE Shape'
  BY <1>5, CancelMarkShape, CancelSaveShape DEF RequestStep
<1>6. CASE Restart
  BY <1>6, RestartShape
<1>7. CASE UNCHANGED vars
  BY <1>7 DEF vars, tables, memory, history, Shape, TypeOK, RunnerShape, RequestShape
<1>8. QED
  BY <1>1, <1>2, <1>3, <1>4, <1>5, <1>6, <1>7 DEF Next

LEMMA ShapeAlways == Spec => []Shape
<1>1. QED
  BY ShapeInit, ShapeStep, PTL DEF Spec

\* Rows, copies, control points and bounds keep their types: for every interleaving of
\* runners and cancel handlers no save writes a row the tables do not allow.
THEOREM TypeCorrect == Spec => []TypeOK
<1>1. Shape => TypeOK
  BY DEF Shape
<1>2. QED
  BY <1>1, ShapeAlways, PTL

-----------------------------------------------------------------------------
(***************************************************************************)
(* What a job's row, its cancellation flag and its retries say about the   *)
(* course snapshot, proved on top of Shape.  Honest(j) is the inductive    *)
(* invariant: it follows job j from the flag to the last check and from    *)
(* the commit to the final row.                                            *)
(***************************************************************************)

\* The cancellation side: a flag set in time is still there, and a check still ahead,
\* as long as the runner may commit.
Withdrawn(j) ==
  /\ j \in inTime => j \notin committed /\ runner[j].pc # "none"
  /\ j \in inTime /\ CanCommit(j) => j \in cancelledJobs /\ CheckAhead(j)

\* The row's side: who has committed is past its commit, and the row never claims
\* more than that.
Truthful(j) ==
  /\ CanCommit(j) \/ runner[j].pc = "none" =>
       j \notin committed /\ row[j].status \notin {"succeeded", "failed"}
  /\ runner[j].pc = "complete" => j \in committed
  /\ row[j].status = "succeeded" => j \in committed

\* Without failing statements, the error handler never runs after the commit.
Faultless(j) ==
  /\ faults = 0 /\ (runner[j].pc \in {"failLocal", "failing", "failSave"} \/ row[j].status = "failed")
       => j \notin committed
  /\ faults = 0 /\ restarts = 0 /\ runner[j].pc \in {"finally", "ended"} =>
       /\ row[j].status \in Terminal
       /\ j \in committed => row[j].status \in {"succeeded", "cancelled"}

\* A job whose retry was offered has been started and is past its commit.
Retried(j) ==
  origin[j] # None => ~CanCommit(origin[j]) /\ runner[origin[j]].pc # "none"

Honest(j) == Withdrawn(j) /\ Truthful(j) /\ Faultless(j)

Honesty == /\ \A j \in Jobs : Honest(j)
           /\ snapshot \in committed \cup {None}

LEMMA HonestyInit == Init => Honesty
BY DEF Init, Honesty, Honest, Withdrawn, Truthful, Faultless, CanCommit, AbsentRow

\* A step that leaves every other job alone keeps Honesty if it keeps Honest for one job.
LEMMA HonestyByJob ==
  ASSUME Honesty, TypeOK, TypeOK', NEW j \in Jobs,
         \A k \in Jobs \ {j} : /\ row'[k] = row[k]
                               /\ runner'[k] = runner[k]
                               /\ k \in committed' <=> k \in committed
                               /\ k \in inTime' <=> k \in inTime
                               /\ k \in cancelledJobs' <=> k \in cancelledJobs,
         faults' >= faults, restarts' >= restarts,
         Honest(j)',
         snapshot' \in committed' \cup {None}
  PROVE  Honesty'
<1>1. ASSUME NEW k \in Jobs \ {j} PROVE Honest(k)'
  <2>1. Honest(k) /\ (faults' = 0 => faults = 0) /\ (restarts' = 0 => restarts = 0)
    BY DEF Honesty, TypeOK
  <2>2. QED
    BY <2>1 DEF Honest, Withdrawn, Truthful, Faultless, CanCommit, CheckAhead
<1>2. QED
  BY <1>1 DEF Honesty

LEMMA InsertHonest == ASSUME Shape, Shape', Honesty, NEW j \in Jobs, Insert(j) PROVE Honesty'
<1>1. TypeOK /\ TypeOK' /\ JobShape(row[j], runner[j]) /\ Honest(j)
  BY DEF Shape, RunnerShape, Honesty
<1>2. Persisted(j, QueuedRow, Entered(0), At("forked", AbsentRow), Ended)
  BY InsertEffect
<1>3. faults' >= faults /\ restarts' >= restarts /\ (faults' = 0 => faults = 0)
  BY <1>1 DEF Insert, TypeOK, Persist, Fault
<1>4. Honest(j)'
  <2>1. Withdrawn(j)'
    BY <1>1, <1>2 DEF Insert, Persisted, QueuedRow, AbsentRow, Ended, Honest, Withdrawn, CanCommit, CheckAhead, At
  <2>2. Truthful(j)'
    BY <1>1, <1>2 DEF Insert, Persisted, QueuedRow, AbsentRow, Ended, Honest, Truthful, CanCommit, At
  <2>3. Faultless(j)'
    BY <1>1, <1>2, <1>3 DEF Insert, Persisted, QueuedRow, AbsentRow, Ended, Honest, Truthful, Faultless, CanCommit, Terminal, At
  <2>4. QED
    BY <2>1, <2>2, <2>3 DEF Honest
<1>5. QED
  BY <1>1, <1>2, <1>3, <1>4, HonestyByJob DEF Insert, Persisted, Honesty

LEMMA EnterHonest == ASSUME Shape, Shape', Honesty, NEW j \in Jobs, Enter(j) PROVE Honesty'
<1>1. TypeOK /\ TypeOK' /\ JobShape(row[j], runner[j]) /\ Honest(j)
  BY DEF Shape, RunnerShape, Honesty
<1>2. Persisted(j, EnterRow(runner[j].job), Entered(EnterRow(runner[j].job).stage),
               At(AfterEnter(EnterRow(runner[j].job).stage), EnterRow(runner[j].job)), Failing)
  BY EnterEffect
<1>3. faults' >= faults /\ restarts' >= restarts /\ (faults' = 0 => faults = 0)
  BY <1>1 DEF Enter, TypeOK, Persist, Fault, RunnerUnchanged, history
<1>4. Honest(j)'
  <2>1. Withdrawn(j)'
    BY <1>1, <1>2 DEF Enter, RunnerUnchanged, history, Persisted, JobShape, Walking, EnterRow, AfterEnter, Failing, AbsentRow, Honest, Withdrawn, CanCommit, CheckAhead, At
  <2>2. Truthful(j)'
    BY <1>1, <1>2 DEF Enter, RunnerUnchanged, history, Persisted, JobShape, Walking, EnterRow, AfterEnter, Failing, AbsentRow, Honest, Truthful, CanCommit, At
  <2>3. Faultless(j)'
    BY <1>1, <1>2, <1>3 DEF Enter, RunnerUnchanged, history, Persisted, JobShape, Walking, EnterRow, AfterEnter, Failing, AbsentRow, Honest, Truthful, Faultless, CanCommit, Terminal, At
  <2>4. QED
    BY <2>1, <2>2, <2>3 DEF Honest
<1>5. QED
  BY <1>1, <1>2, <1>3, <1>4, HonestyByJob DEF Enter, Persisted, RunnerUnchanged, history, Honesty

LEMMA CompleteHonest == ASSUME Shape, Shape', Honesty, NEW j \in Jobs, Complete(j) PROVE Honesty'
<1>1. TypeOK /\ TypeOK' /\ JobShape(row[j], runner[j]) /\ Honest(j)
  BY DEF Shape, RunnerShape, Honesty
<1>2. Persisted(j, CompletedRow, Entered(12), Finally, Failing)
  BY CompleteEffect
<1>3. faults' >= faults /\ restarts' >= restarts /\ (faults' = 0 => faults = 0)
  BY <1>1 DEF Complete, TypeOK, Persist, Fault, RunnerUnchanged, history
<1>4. Honest(j)'
  <2>1. Withdrawn(j)'
    BY <1>1, <1>2 DEF Complete, RunnerUnchanged, history, Persisted, CompletedRow, Failing, Finally, AbsentRow, Honest, Withdrawn, CanCommit, CheckAhead, At
  <2>2. Truthful(j)'
    BY <1>1, <1>2 DEF Complete, RunnerUnchanged, history, Persisted, CompletedRow, Failing, Finally, AbsentRow, Honest, Truthful, CanCommit, At
  <2>3. Faultless(j)'
    BY <1>1, <1>2, <1>3 DEF Complete, RunnerUnchanged, history, Persisted, CompletedRow, Failing, Finally, AbsentRow, Honest, Truthful, Faultless, CanCommit, Terminal, At
  <2>4. QED
    BY <2>1, <2>2, <2>3 DEF Honest
<1>5. QED
  BY <1>1, <1>2, <1>3, <1>4, HonestyByJob DEF Complete, Persisted, RunnerUnchanged, history, Honesty

LEMMA FailLocalHonest == ASSUME Shape, Shape', Honesty, NEW j \in Jobs, FailLocal(j) PROVE Honesty'
<1>1. TypeOK /\ TypeOK' /\ JobShape(row[j], runner[j]) /\ Honest(j)
  BY DEF Shape, RunnerShape, Honesty
<1>2. Persisted(j, FailedRow(runner[j].job), {}, Finally, Failing)
  BY FailLocalEffect
<1>3. faults' >= faults /\ restarts' >= restarts /\ (faults' = 0 => faults = 0)
  BY <1>1 DEF FailLocal, TypeOK, Persist, Fault, RunnerUnchanged, history
<1>4. Honest(j)'
  <2>1. Withdrawn(j)'
    BY <1>1, <1>2 DEF FailLocal, RunnerUnchanged, history, Persisted, FailedRow, Row, Failing, Finally, AbsentRow, Honest, Withdrawn, CanCommit, CheckAhead, At
  <2>2. Truthful(j)'
    BY <1>1, <1>2 DEF FailLocal, RunnerUnchanged, history, Persisted, FailedRow, Row, Failing, Finally, AbsentRow, Honest, Truthful, CanCommit, At
  <2>3. Faultless(j)'
    BY <1>1, <1>2, <1>3 DEF FailLocal, RunnerUnchanged, history, Persisted, FailedRow, Row, Failing, Finally, AbsentRow, Honest, Truthful, Faultless, CanCommit, Terminal, At
  <2>4. QED
    BY <2>1, <2>2, <2>3 DEF Honest
<1>5. QED
  BY <1>1, <1>2, <1>3, <1>4, HonestyByJob DEF FailLocal, Persisted, RunnerUnchanged, history, Honesty

LEMMA FailSaveHonest == ASSUME Shape, Shape', Honesty, NEW j \in Jobs, FailSave(j) PROVE Honesty'
<1>1. TypeOK /\ TypeOK' /\ JobShape(row[j], runner[j]) /\ Honest(j)
  BY DEF Shape, RunnerShape, Honesty
<1>2. Persisted(j, FailedRow(runner[j].job), {}, Finally, Finally)
  BY FailSaveEffect
<1>3. faults' >= faults /\ restarts' >= restarts /\ (faults' = 0 => faults = 0)
  BY <1>1 DEF FailSave, TypeOK, Persist, Fault, RunnerUnchanged, history
<1>4. Honest(j)'
  <2>1. Withdrawn(j)'
    BY <1>1, <1>2 DEF FailSave, RunnerUnchanged, history, Persisted, FailedRow, Row, Failing, Finally, AbsentRow, Honest, Withdrawn, CanCommit, CheckAhead, At
  <2>2. Truthful(j)'
    BY <1>1, <1>2 DEF FailSave, RunnerUnchanged, history, Persisted, FailedRow, Row, Failing, Finally, AbsentRow, Honest, Truthful, CanCommit, At
  <2>3. Faultless(j)'
    BY <1>1, <1>2, <1>3 DEF FailSave, RunnerUnchanged, history, Persisted, FailedRow, Row, Failing, Finally, AbsentRow, Honest, Truthful, Faultless, CanCommit, Terminal, At
  <2>4. QED
    BY <2>1, <2>2, <2>3 DEF Honest
<1>5. QED
  BY <1>1, <1>2, <1>3, <1>4, HonestyByJob DEF FailSave, Persisted, RunnerUnchanged, history, Honesty

LEMMA BeginHonest == ASSUME Shape, Shape', Honesty, NEW j \in Jobs, Begin(j) PROVE Honesty'
<1>1. TypeOK /\ TypeOK' /\ JobShape(row[j], runner[j]) /\ Honest(j)
  BY DEF Shape, RunnerShape, Honesty
<1>2. Moved(j, {At("enter", row[j]), Failing})
  BY BeginEffect
<1>3. faults' >= faults /\ restarts' >= restarts /\ (faults' = 0 => faults = 0)
  BY <1>1 DEF Begin, TypeOK, Fault, tables, history
<1>4. Honest(j)'
  <2>1. Withdrawn(j)'
    BY <1>1, <1>2 DEF Begin, tables, history, Moved, Fault, JobShape, Walking, Failing, Finally, Ended, AbsentRow, Honest, Withdrawn, CanCommit, CheckAhead, At
  <2>2. Truthful(j)'
    BY <1>1, <1>2 DEF Begin, tables, history, Moved, Fault, JobShape, Walking, Failing, Finally, Ended, AbsentRow, Honest, Truthful, CanCommit, At
  <2>3. Faultless(j)'
    BY <1>1, <1>2, <1>3 DEF Begin, tables, history, Moved, Fault, JobShape, Walking, Failing, Finally, Ended, AbsentRow, Honest, Truthful, Faultless, CanCommit, Terminal, At
  <2>4. QED
    BY <2>1, <2>2, <2>3 DEF Honest
<1>5. QED
  BY <1>1, <1>2, <1>3, <1>4, HonestyByJob DEF Begin, Moved, tables, history, Honesty

LEMMA WorkHonest == ASSUME Shape, Shape', Honesty, NEW j \in Jobs, Work(j) PROVE Honesty'
<1>1. TypeOK /\ TypeOK' /\ JobShape(row[j], runner[j]) /\ Honest(j)
  BY DEF Shape, RunnerShape, Honesty
<1>2. Moved(j, {At("check", runner[j].job), Failing})
  BY WorkEffect
<1>3. faults' >= faults /\ restarts' >= restarts /\ (faults' = 0 => faults = 0)
  BY <1>1 DEF Work, TypeOK, Fault, RunnerUnchanged, history
<1>4. Honest(j)'
  <2>1. Withdrawn(j)'
    BY <1>1, <1>2 DEF Work, RunnerUnchanged, history, Moved, Fault, JobShape, Walking, Failing, Finally, Ended, AbsentRow, Honest, Withdrawn, CanCommit, CheckAhead, At
  <2>2. Truthful(j)'
    BY <1>1, <1>2 DEF Work, RunnerUnchanged, history, Moved, Fault, JobShape, Walking, Failing, Finally, Ended, AbsentRow, Honest, Truthful, CanCommit, At
  <2>3. Faultless(j)'
    BY <1>1, <1>2, <1>3 DEF Work, RunnerUnchanged, history, Moved, Fault, JobShape, Walking, Failing, Finally, Ended, AbsentRow, Honest, Truthful, Faultless, CanCommit, Terminal, At
  <2>4. QED
    BY <2>1, <2>2, <2>3 DEF Honest
<1>5. QED
  BY <1>1, <1>2, <1>3, <1>4, HonestyByJob DEF Work, Moved, RunnerUnchanged, history, Honesty

LEMMA CheckHonest == ASSUME Shape, Shape', Honesty, NEW j \in Jobs, Check(j) PROVE Honesty'
<1>1. TypeOK /\ TypeOK' /\ JobShape(row[j], runner[j]) /\ Honest(j)
  BY DEF Shape, RunnerShape, Honesty
<1>2. Moved(j, {At("provider", runner[j].job), At("enter", runner[j].job), Failing})
  BY CheckEffect
<1>3. faults' >= faults /\ restarts' >= restarts /\ (faults' = 0 => faults = 0)
  BY <1>1 DEF Check, TypeOK, Fault, RunnerUnchanged, history
<1>4. Honest(j)'
  <2>1. Withdrawn(j)'
    BY <1>1, <1>2 DEF Check, RunnerUnchanged, history, Moved, Fault, JobShape, Walking, Failing, Finally, Ended, AbsentRow, Honest, Withdrawn, CanCommit, CheckAhead, At
  <2>2. Truthful(j)'
    BY <1>1, <1>2 DEF Check, RunnerUnchanged, history, Moved, Fault, JobShape, Walking, Failing, Finally, Ended, AbsentRow, Honest, Truthful, CanCommit, At
  <2>3. Faultless(j)'
    BY <1>1, <1>2, <1>3 DEF Check, RunnerUnchanged, history, Moved, Fault, JobShape, Walking, Failing, Finally, Ended, AbsentRow, Honest, Truthful, Faultless, CanCommit, Terminal, At
  <2>4. QED
    BY <2>1, <2>2, <2>3 DEF Honest
<1>5. QED
  BY <1>1, <1>2, <1>3, <1>4, HonestyByJob DEF Check, Moved, RunnerUnchanged, history, Honesty

LEMMA ProviderHonest == ASSUME Shape, Shape', Honesty, NEW j \in Jobs, Provider(j) PROVE Honesty'
<1>1. TypeOK /\ TypeOK' /\ JobShape(row[j], runner[j]) /\ Honest(j)
  BY DEF Shape, RunnerShape, Honesty
<1>2. Moved(j, {At("enter", runner[j].job), At("failLocal", runner[j].job), Failing})
  BY ProviderEffect
<1>3. faults' >= faults /\ restarts' >= restarts /\ (faults' = 0 => faults = 0)
  BY <1>1 DEF Provider, TypeOK, Fault, RunnerUnchanged, history
<1>4. Honest(j)'
  <2>1. Withdrawn(j)'
    BY <1>1, <1>2 DEF Provider, RunnerUnchanged, history, Moved, Fault, JobShape, Walking, Failing, Finally, Ended, AbsentRow, Honest, Withdrawn, CanCommit, CheckAhead, At
  <2>2. Truthful(j)'
    BY <1>1, <1>2 DEF Provider, RunnerUnchanged, history, Moved, Fault, JobShape, Walking, Failing, Finally, Ended, AbsentRow, Honest, Truthful, CanCommit, At
  <2>3. Faultless(j)'
    BY <1>1, <1>2, <1>3 DEF Provider, RunnerUnchanged, history, Moved, Fault, JobShape, Walking, Failing, Finally, Ended, AbsentRow, Honest, Truthful, Faultless, CanCommit, Terminal, At
  <2>4. QED
    BY <2>1, <2>2, <2>3 DEF Honest
<1>5. QED
  BY <1>1, <1>2, <1>3, <1>4, HonestyByJob DEF Provider, Moved, RunnerUnchanged, history, Honesty

LEMMA CommitHonest == ASSUME Shape, Shape', Honesty, NEW j \in Jobs, Commit(j) PROVE Honesty'
<1>1. TypeOK /\ TypeOK' /\ JobShape(row[j], runner[j]) /\ Honest(j)
  BY DEF Shape, RunnerShape, Honesty
<1>2. Moved(j, {At("complete", runner[j].job), Failing})
  BY CommitEffect
<1>3. faults' >= faults /\ restarts' >= restarts /\ (faults' = 0 => faults = 0)
  BY <1>1 DEF Commit, TypeOK, Fault, RunnerUnchanged
<1>4. Honest(j)'
  <2>1. Withdrawn(j)'
    BY <1>1, <1>2 DEF Commit, RunnerUnchanged, Moved, Fault, JobShape, Walking, Failing, Finally, Ended, AbsentRow, Honest, Withdrawn, CanCommit, CheckAhead, At
  <2>2. Truthful(j)'
    BY <1>1, <1>2 DEF Commit, RunnerUnchanged, Moved, Fault, JobShape, Walking, Failing, Finally, Ended, AbsentRow, Honest, Truthful, CanCommit, At
  <2>3. Faultless(j)'
    BY <1>1, <1>2, <1>3 DEF Commit, RunnerUnchanged, Moved, Fault, JobShape, Walking, Failing, Finally, Ended, AbsentRow, Honest, Truthful, Faultless, CanCommit, Terminal, At
  <2>4. QED
    BY <2>1, <2>2, <2>3 DEF Honest
<1>5. QED
  BY <1>1, <1>2, <1>3, <1>4, HonestyByJob DEF Commit, Moved, RunnerUnchanged, Honesty

LEMMA LoadFailingHonest == ASSUME Shape, Shape', Honesty, NEW j \in Jobs, LoadFailing(j) PROVE Honesty'
<1>1. TypeOK /\ TypeOK' /\ JobShape(row[j], runner[j]) /\ Honest(j)
  BY DEF Shape, RunnerShape, Honesty
<1>2. Moved(j, {Finally, At("failSave", row[j])})
  BY LoadFailingEffect
<1>3. faults' >= faults /\ restarts' >= restarts /\ (faults' = 0 => faults = 0)
  BY <1>1 DEF LoadFailing, TypeOK, Fault, RunnerUnchanged, history
<1>4. Honest(j)'
  <2>1. Withdrawn(j)'
    BY <1>1, <1>2 DEF LoadFailing, RunnerUnchanged, history, Moved, Fault, JobShape, Walking, Failing, Finally, Ended, AbsentRow, Honest, Withdrawn, CanCommit, CheckAhead, At
  <2>2. Truthful(j)'
    BY <1>1, <1>2 DEF LoadFailing, RunnerUnchanged, history, Moved, Fault, JobShape, Walking, Failing, Finally, Ended, AbsentRow, Honest, Truthful, CanCommit, At
  <2>3. Faultless(j)'
    BY <1>1, <1>2, <1>3 DEF LoadFailing, RunnerUnchanged, history, Moved, Fault, JobShape, Walking, Failing, Finally, Ended, AbsentRow, Honest, Truthful, Faultless, CanCommit, Terminal, At
  <2>4. QED
    BY <2>1, <2>2, <2>3 DEF Honest
<1>5. QED
  BY <1>1, <1>2, <1>3, <1>4, HonestyByJob DEF LoadFailing, Moved, RunnerUnchanged, history, Honesty

LEMMA ReleaseHonest == ASSUME Shape, Shape', Honesty, NEW j \in Jobs, Release(j) PROVE Honesty'
<1>1. TypeOK /\ TypeOK' /\ JobShape(row[j], runner[j]) /\ Honest(j)
  BY DEF Shape, RunnerShape, Honesty
<1>2. Moved(j, {Ended})
  BY ReleaseEffect
<1>3. faults' >= faults /\ restarts' >= restarts /\ (faults' = 0 => faults = 0)
  BY <1>1 DEF Release, TypeOK, Fault, tables, history
<1>4. Honest(j)'
  <2>1. Withdrawn(j)'
    BY <1>1, <1>2 DEF Release, tables, history, Moved, Fault, JobShape, Walking, Failing, Finally, Ended, AbsentRow, Honest, Withdrawn, CanCommit, CheckAhead, At
  <2>2. Truthful(j)'
    BY <1>1, <1>2 DEF Release, tables, history, Moved, Fault, JobShape, Walking, Failing, Finally, Ended, AbsentRow, Honest, Truthful, CanCommit, At
  <2>3. Faultless(j)'
    BY <1>1, <1>2, <1>3 DEF Release, tables, history, Moved, Fault, JobShape, Walking, Failing, Finally, Ended, AbsentRow, Honest, Truthful, Faultless, CanCommit, Terminal, At
  <2>4. QED
    BY <2>1, <2>2, <2>3 DEF Honest
<1>5. QED
  BY <1>1, <1>2, <1>3, <1>4, HonestyByJob DEF Release, Moved, tables, history, Honesty

LEMMA CancelLoadHonest ==
  ASSUME Honesty, NEW r \in Requests, NEW j \in Jobs, CancelLoad(r, j) PROVE Honesty'
BY DEF CancelLoad, CancelUnchanged, Honesty, Honest, Withdrawn, Truthful, Faultless, CanCommit, CheckAhead

LEMMA CancelMarkHonest ==
  ASSUME Shape, Honesty, NEW r \in Requests, CancelMark(r) PROVE Honesty'
<1> DEFINE j == request[r].job
<1>1. j \in Jobs /\ (CheckAhead(j) => CanCommit(j)) /\ runner[j].pc # "none"
  BY DEF Shape, RequestShape, CancelMark, CheckAhead, CanCommit
<1>2. /\ cancelledJobs' = cancelledJobs \cup {j}
      /\ inTime' = IF CheckAhead(j) THEN inTime \cup {j} ELSE inTime
      /\ UNCHANGED <<row, snapshot, runner, committed, restarts, faults>>
  BY DEF CancelMark, CancelUnchanged
<1> HIDE DEF j
<1>3. ASSUME NEW k \in Jobs PROVE Honest(k)'
  <2>1. Honest(k) /\ (CheckAhead(k)' <=> CheckAhead(k)) /\ (CanCommit(k)' <=> CanCommit(k))
    BY <1>2 DEF Honesty, CheckAhead, CanCommit
  <2>2. Withdrawn(k)'
    BY <1>1, <1>2, <2>1 DEF Honest, Withdrawn, Truthful
  <2>3. Truthful(k)' /\ Faultless(k)'
    BY <1>2, <2>1 DEF Honest, Truthful, Faultless
  <2>4. QED
    BY <2>2, <2>3 DEF Honest
<1>4. QED
  BY <1>2, <1>3 DEF Honesty

LEMMA CancelSaveHonest ==
  ASSUME Shape, Shape', Honesty, NEW r \in Requests, CancelSave(r) PROVE Honesty'
<1> DEFINE copy == request[r].copy
<1>0. PICK j \in Jobs : j = request[r].job
  BY DEF Shape, RequestShape, CancelSave
<1>1. copy \in Row /\ TypeOK /\ TypeOK' /\ Honest(j)
  BY DEF Shape, TypeOK, Honesty
<1>2. /\ row'[j] \in {row[j], CancelledRow(copy)}
      /\ \A k \in Jobs \ {j} : row'[k] = row[k]
      /\ UNCHANGED <<runner, committed, inTime, cancelledJobs, snapshot, restarts>>
      /\ faults' >= faults /\ (faults' = 0 => faults = 0)
  BY <1>0, <1>1 DEF CancelSave, CancelUnchanged, Fault, TypeOK
<1>3. CancelledRow(copy).status = "cancelled"
  BY <1>1 DEF CancelledRow, Row
<1> HIDE DEF copy
<1>4. Honest(j)'
  <2>1. runner' = runner /\ (CanCommit(j)' <=> CanCommit(j)) /\ (CheckAhead(j)' <=> CheckAhead(j))
    BY <1>2 DEF CanCommit, CheckAhead
  <2>2. Withdrawn(j)'
    BY <1>1, <1>2, <2>1 DEF Honest, Withdrawn
  <2>3. Truthful(j)'
    BY <1>1, <1>2, <1>3, <2>1 DEF Honest, Truthful
  <2>4. Faultless(j)'
    BY <1>1, <1>2, <1>3, <2>1 DEF Honest, Faultless, Terminal
  <2>5. QED
    BY <2>2, <2>3, <2>4 DEF Honest
<1>5. snapshot' \in committed' \cup {None} /\ restarts' >= restarts
  BY <1>1, <1>2 DEF Honesty, TypeOK
<1>6. QED
  BY <1>1, <1>2, <1>4, <1>5, HonestyByJob

LEMMA RestartHonest == ASSUME Shape, Honesty, Restart PROVE Honesty'
<1>1. ASSUME NEW j \in Jobs PROVE Honest(j)'
  <2>1. /\ row' = row /\ committed' = committed /\ inTime' = inTime /\ faults' = faults
        /\ restarts' = restarts + 1 /\ restarts \in Nat
        /\ \/ runner'[j] = runner[j] /\ runner[j].pc = "none"
           \/ runner'[j].pc = "ended" /\ runner[j].pc # "none"
    BY BoundsAreNat DEF Shape, TypeOK, Restart, tables, history, Ended, At
  <2>2. Honest(j)
    BY DEF Honesty
  <2>3. QED
    BY <2>1, <2>2 DEF Honest, Withdrawn, Truthful, Faultless, CanCommit
<1>2. QED
  BY <1>1 DEF Restart, tables, history, Honesty

LEMMA HonestyStep == Shape /\ Shape' /\ Honesty /\ [Next]_vars => Honesty'
<1> SUFFICES ASSUME Shape, Shape', Honesty, [Next]_vars PROVE Honesty'
  OBVIOUS
<1>1. ASSUME NEW j \in Jobs, StartJob(j) PROVE Honesty'
  BY <1>1, InsertHonest DEF StartJob
<1>2. ASSUME NEW j \in Jobs, RunnerStep(j) PROVE Honesty'
  BY <1>2, BeginHonest, EnterHonest, WorkHonest, CheckHonest, ProviderHonest, CommitHonest,
     CompleteHonest, FailLocalHonest, LoadFailingHonest, FailSaveHonest, ReleaseHonest DEF RunnerStep
<1>3. ASSUME NEW o \in Jobs, NEW j \in Jobs, RetryJob(o, j) PROVE Honesty'
  BY <1>3, InsertHonest DEF RetryJob
<1>4. ASSUME NEW r \in Requests, NEW j \in Jobs, CancelLoad(r, j) PROVE Honesty'
  BY <1>4, CancelLoadHonest
<1>5. ASSUME NEW r \in Requests, RequestStep(r) PROVE Honesty'
  BY <1>5, CancelMarkHonest, CancelSaveHonest DEF RequestStep
<1>6. CASE Restart
  BY <1>6, RestartHonest
<1>7. CASE UNCHANGED vars
  BY <1>7 DEF vars, tables, memory, history, Honesty, Honest, Withdrawn, Truthful, Faultless,
              CanCommit, CheckAhead
<1>8. QED
  BY <1>1, <1>2, <1>3, <1>4, <1>5, <1>6, <1>7 DEF Next

LEMMA HonestyAlways == Spec => [](Shape /\ Honesty)
<1>1. Init => Shape /\ Honesty
  BY ShapeInit, HonestyInit
<1>2. Shape /\ Honesty /\ [Next]_vars => (Shape /\ Honesty)'
  BY ShapeStep, HonestyStep
<1>3. QED
  BY <1>1, <1>2, PTL DEF Spec

\* A job flagged cancelled in time never replaces the course, whatever fails or restarts.
THEOREM CancelInTimeIsSafe == Spec => []CancelInTimeNeverCommits
<1>1. Shape /\ Honesty => CancelInTimeNeverCommits
  <2> SUFFICES ASSUME Shape, Honesty, NEW j \in inTime PROVE j \notin committed /\ snapshot # j
    BY DEF CancelInTimeNeverCommits
  <2>1. j \in Jobs /\ j \notin committed
    BY DEF Shape, TypeOK, Honesty, Honest, Withdrawn
  <2>2. QED
    BY <2>1, NoneNotAJob DEF Honesty
<1>2. QED
  BY <1>1, HonestyAlways, PTL

\* The flag of a job in time outlives its runner's last check.
THEOREM FlagSurvives == Spec => []FlagOutlivesRunner
<1>1. Shape /\ Honesty => FlagOutlivesRunner
  BY DEF Shape, TypeOK, Honesty, Honest, Withdrawn, FlagOutlivesRunner
<1>2. QED
  BY <1>1, HonestyAlways, PTL

\* The status of a job's row matches what the job did to the course snapshot.
THEOREM OutcomeIsHonest == Spec => []OutcomeMatchesSnapshot
<1>1. Shape /\ Honesty => OutcomeMatchesSnapshot
  BY DEF Shape, Honesty, Honest, Withdrawn, Truthful, Faultless, OutcomeMatchesSnapshot
<1>2. QED
  BY <1>1, HonestyAlways, PTL

\* Only a restart or a failed statement leaves a job active with nobody working on it.
THEOREM OnlyCrashesStrandJobs == Spec => []StuckOnlyAfterCrash
<1>1. Shape /\ Honesty => StuckOnlyAfterCrash
  <2> SUFFICES ASSUME Shape, Honesty, NEW j \in Jobs,
                      row[j].status \in Active, runner[j].pc = "ended",
                      ~(restarts + faults > 0)
               PROVE  FALSE
    BY DEF StuckOnlyAfterCrash
  <2>1. faults = 0 /\ restarts = 0
    BY BoundsAreNat DEF Shape, TypeOK
  <2>2. row[j].status \in Terminal
    BY <2>1 DEF Honesty, Honest, Faultless
  <2>3. QED
    BY <2>2 DEF Active, Terminal
<1>2. QED
  BY <1>1, HonestyAlways, PTL

-----------------------------------------------------------------------------
(* Retries *)

RetriedAll == \A j \in Jobs : Retried(j)

Past(o) == ~CanCommit(o) /\ runner[o].pc # "none"

LEMMA PastIsStable ==
  ASSUME Shape, Shape', NEW o \in Jobs, Past(o), [Next]_vars PROVE Past(o)'
<1> USE DEF Past, CanCommit
<1>1. ASSUME NEW j \in Jobs, Insert(j) PROVE Past(o)'
  <2>1. Persisted(j, QueuedRow, Entered(0), At("forked", AbsentRow), Ended)
    BY <1>1, InsertEffect
  <2>2. o # j
    BY <1>1 DEF Insert
  <2>3. QED
    BY <2>1, <2>2 DEF Persisted
<1>2. ASSUME NEW j \in Jobs, RunnerStep(j), j # o PROVE Past(o)'
  <2>1. runner'[o] = runner[o]
    BY <1>2 DEF RunnerStep, Begin, Enter, Work, Check, Provider, Commit, Complete, FailLocal,
                LoadFailing, FailSave, Release, Persist, Shape, TypeOK
  <2>2. QED
    BY <2>1
<1>3. ASSUME RunnerStep(o) PROVE Past(o)'
  <2>1. CASE Complete(o)
    BY <2>1, CompleteEffect DEF Persisted, Failing, Finally, At
  <2>2. CASE FailLocal(o)
    BY <2>2, FailLocalEffect DEF Persisted, Failing, Finally, At
  <2>3. CASE LoadFailing(o)
    BY <2>3, LoadFailingEffect DEF Moved, Finally, At
  <2>4. CASE FailSave(o)
    BY <2>4, FailSaveEffect DEF Persisted, Finally, At
  <2>5. CASE Release(o)
    BY <2>5, ReleaseEffect DEF Moved, Ended, At
  <2>6. QED
    BY <1>3, <2>1, <2>2, <2>3, <2>4, <2>5
       DEF RunnerStep, Begin, Enter, Work, Check, Provider, Commit
<1>4. ASSUME NEW r \in Requests, NEW j \in Jobs, CancelLoad(r, j) \/ RequestStep(r) PROVE Past(o)'
  BY <1>4 DEF CancelLoad, RequestStep, CancelMark, CancelSave, CancelUnchanged
<1>5. CASE Restart
  BY <1>5 DEF Restart, Ended, At
<1>6. CASE UNCHANGED vars
  BY <1>6 DEF vars, memory
<1>7. QED
  BY <1>1, <1>2, <1>3, <1>4, <1>5, <1>6 DEF Next, StartJob, RetryJob

LEMMA RetriedStep == Shape /\ Shape' /\ Honesty /\ RetriedAll /\ [Next]_vars => RetriedAll'
<1> SUFFICES ASSUME Shape, Shape', Honesty, RetriedAll, [Next]_vars, NEW j \in Jobs
             PROVE  Retried(j)'
  BY DEF RetriedAll
<1>1. CASE origin'[j] = origin[j]
  <2>1. CASE origin[j] # None
    <3>1. origin[j] \in Jobs /\ Past(origin[j])
      BY <2>1 DEF Shape, TypeOK, RetriedAll, Retried, Past
    <3>2. Past(origin[j])'
      BY <3>1, <1>1, PastIsStable DEF Past, CanCommit
    <3>3. QED
      BY <1>1, <3>2 DEF Retried, Past, CanCommit
  <2>2. QED
    BY <1>1, <2>1 DEF Retried
<1>2. CASE origin'[j] # origin[j]
  <2>1. PICK o \in Jobs, k \in Jobs : RetryJob(o, k)
    BY <1>2 DEF Next, StartJob, RunnerStep, Begin, Enter, Work, Check, Provider, Commit,
                Complete, FailLocal, LoadFailing, FailSave, Release, CancelLoad, RequestStep,
                CancelMark, CancelSave, CancelUnchanged, RunnerUnchanged, Restart, history, vars
  <2>2. k = j /\ (origin'[j] = None \/ (origin'[j] = o /\ RetryOffered(o)))
    BY <1>2, <2>1 DEF RetryJob, Shape, TypeOK
  <2>0. CASE origin'[j] = None
    BY <2>0 DEF Retried
  <2> SUFFICES ASSUME origin'[j] = o, RetryOffered(o) PROVE Retried(j)'
    BY <2>0, <2>2
  <2>3. Past(o)
    BY <2>1 DEF RetryJob, RetryOffered, Honesty, Honest, Truthful, Past
  <2>4. Past(o)'
    BY <2>3, PastIsStable
  <2>5. QED
    BY <2>2, <2>4 DEF Retried, Past, CanCommit
<1>3. QED
  BY <1>1, <1>2

\* The job that a retry offered by the dialog replaces can no longer reach the snapshot.
THEOREM RetryIsExclusive == Spec => []RetryNeverRacesOriginal
<1>1. Init => RetriedAll
  BY DEF Init, RetriedAll, Retried
<1>2. RetriedAll => RetryNeverRacesOriginal
  BY DEF RetriedAll, Retried, RetryNeverRacesOriginal
<1>3. QED
  BY <1>1, <1>2, RetriedStep, HonestyAlways, PTL DEF Spec

-----------------------------------------------------------------------------
(***************************************************************************)
(* A job reported as succeeded has left the events of every stage and the  *)
(* artifacts of those that make one, for every set of jobs: each control   *)
(* point of a runner tells how far its trail has come.                     *)
(***************************************************************************)

\* The events up to one stage and the artifacts up to another are there.
Written(entries, events, artifacts) ==
  /\ \A k \in 0..events : <<k, "info">> \in entries
  /\ \A k \in {2, 4, 10} : k <= artifacts => <<k, "artifact">> \in entries

Trailed(saved, fiber, entries) ==
  /\ fiber.pc = "forked" => Written(entries, 0, 0)
  /\ fiber.pc = "work" => Written(entries, fiber.job.stage, fiber.job.stage - 1)
  /\ fiber.pc \in Walking \ {"work"} => Written(entries, fiber.job.stage, fiber.job.stage)
  /\ saved.status = "succeeded" => Written(entries, 11, 10)

TrailedAll == \A j \in Jobs : Trailed(row[j], runner[j], trail[j])

LEMMA TrailInit == Init => TrailedAll
BY DEF Init, TrailedAll, Trailed, AbsentRow, Walking

LEMMA TrailByJob ==
  ASSUME TrailedAll, NEW j \in Jobs,
         \A k \in Jobs \ {j} : row'[k] = row[k] /\ runner'[k] = runner[k] /\ trail'[k] = trail[k],
         Trailed(row'[j], runner'[j], trail'[j])
  PROVE  TrailedAll'
<1> SUFFICES ASSUME NEW k \in Jobs PROVE Trailed(row'[k], runner'[k], trail'[k])
  BY DEF TrailedAll
<1>1. CASE k = j
  BY <1>1
<1>2. CASE k # j
  BY <1>2 DEF TrailedAll
<1>3. QED
  BY <1>1, <1>2

LEMMA Facts ==
  ASSUME Shape, TrailedAll, NEW j \in Jobs
  PROVE  /\ JobShape(row[j], runner[j]) /\ Trailed(row[j], runner[j], trail[j])
         /\ row[j] \in Row /\ runner[j].job \in Row /\ runner[j] \in Fiber
         /\ trail \in [Jobs -> Entries]
BY DEF Shape, RunnerShape, TrailedAll, TypeOK, Entries, Fiber

\* A row saved by the insertion, by the handlers of failures or by a completed job.
LEMMA SaveTrail ==
  ASSUME Shape, TrailedAll, NEW j \in Jobs,
         Insert(j) \/ Complete(j) \/ FailLocal(j) \/ FailSave(j)
  PROVE  TrailedAll'
<1>1. JobShape(row[j], runner[j]) /\ Trailed(row[j], runner[j], trail[j]) /\ runner[j].job \in Row
  BY Facts
<1>2. CASE Insert(j)
  <2>1. Persisted(j, QueuedRow, Entered(0), At("forked", AbsentRow), Ended)
    BY <1>2, InsertEffect
  <2>2. Trailed(row'[j], runner'[j], trail'[j])
    BY <1>1, <1>2, <2>1 DEF Persisted, Insert, Trailed, Written, QueuedRow, Entered, At, Ended, Walking
  <2>3. QED
    BY <2>1, <2>2, TrailByJob DEF Persisted
<1>3. CASE Complete(j)
  <2>1. Persisted(j, CompletedRow, Entered(12), Finally, Failing)
    BY <1>3, CompleteEffect
  <2>2. Written(trail[j], 11, 10)
    BY <1>1, <1>3 DEF Complete, JobShape, Trailed, Written, Walking
  <2>3. trail[j] \subseteq trail'[j]
    BY <2>1 DEF Persisted
  <2>4. Written(trail'[j], 11, 10)
    BY <2>2, <2>3 DEF Written
  <2>5. Trailed(row'[j], runner'[j], trail'[j])
    BY <2>1, <2>4 DEF Persisted, Trailed, Finally, Failing, At, Walking
  <2>6. QED
    BY <2>1, <2>5, TrailByJob DEF Persisted
<1>4. ASSUME NEW onError \in {Finally, Failing},
             Persisted(j, FailedRow(runner[j].job), {}, Finally, onError)
      PROVE  TrailedAll'
  <2>1. FailedRow(runner[j].job).status = "failed"
    BY <1>1 DEF FailedRow, Row
  <2>2. Trailed(row'[j], runner'[j], trail'[j])
    BY <1>1, <1>4, <2>1 DEF Persisted, Trailed, Finally, Failing, At, Walking
  <2>3. QED
    BY <1>4, <2>2, TrailByJob DEF Persisted
<1>5. QED
  BY <1>2, <1>3, <1>4, FailLocalEffect, FailSaveEffect

LEMMA EnterTrail == ASSUME Shape, TrailedAll, NEW j \in Jobs, Enter(j) PROVE TrailedAll'
<1> DEFINE new == EnterRow(runner[j].job)
<1>1. /\ JobShape(row[j], runner[j]) /\ Trailed(row[j], runner[j], trail[j])
      /\ runner[j].job \in Row /\ runner[j].pc = "enter"
  BY Facts DEF Enter
<1>2. Persisted(j, new, Entered(new.stage), At(AfterEnter(new.stage), new), Failing)
  BY EnterEffect
<1>3. /\ runner[j].job.stage \in 0..10 /\ new.stage = runner[j].job.stage + 1
      /\ new.status # "succeeded"
  BY <1>1 DEF JobShape, EnterRow, Walking
<1>4. Written(trail[j], new.stage - 1, new.stage - 1)
  BY <1>1, <1>3 DEF Trailed, Walking
<1> HIDE DEF new
<1>5. CASE trail'[j] = trail[j] \cup Entered(new.stage) /\ row'[j] = new
           /\ runner'[j] = At(AfterEnter(new.stage), new)
  <2>1. Written(trail'[j], new.stage, new.stage - 1)
    BY <1>3, <1>4, <1>5 DEF Written, Entered
  <2>2. new.stage \notin {2, 4, 10} => Written(trail'[j], new.stage, new.stage)
    BY <1>3, <2>1 DEF Written
  <2>3. runner'[j].job = new /\ runner'[j].pc = AfterEnter(new.stage)
    BY <1>5 DEF At
  <2>4. /\ AfterEnter(new.stage) \in Walking \cup {"work"}
        /\ AfterEnter(new.stage) # "forked"
        /\ AfterEnter(new.stage) # "work" => new.stage \notin {2, 4, 10}
    BY <1>3 DEF AfterEnter, Walking
  <2>5. Trailed(row'[j], runner'[j], trail'[j])
    BY <1>3, <1>5, <2>1, <2>2, <2>3, <2>4 DEF Trailed
  <2>6. QED
    BY <1>2, <2>5, TrailByJob DEF Persisted
<1>6. CASE row'[j] \in {row[j], new} /\ trail'[j] = trail[j] /\ runner'[j] = Failing
  <2>1. Trailed(row'[j], runner'[j], trail'[j])
    BY <1>1, <1>3, <1>6 DEF Trailed, Failing, At, Walking
  <2>2. QED
    BY <1>2, <2>1, TrailByJob DEF Persisted
<1>7. QED
  BY <1>2, <1>5, <1>6 DEF Persisted

LEMMA WorkTrail == ASSUME Shape, TrailedAll, NEW j \in Jobs, Work(j) PROVE TrailedAll'
<1> DEFINE job == runner[j].job
<1>1. /\ JobShape(row[j], runner[j]) /\ Trailed(row[j], runner[j], trail[j])
      /\ job \in Row /\ runner[j].pc = "work" /\ trail \in [Jobs -> Entries]
  BY Facts DEF Work
<1>2. Moved(j, {At("check", job), Failing}) /\ job.stage \in 1..10
  BY <1>1, WorkEffect DEF JobShape
<1>3. Written(trail[j], job.stage, job.stage - 1)
  BY <1>1 DEF Trailed
<1>4. CASE runner'[j].pc = "check"
  <2>1. trail' = [trail EXCEPT ![j] = @ \cup IF job.stage = 3 THEN {} ELSE Artifact(job.stage)]
    <3>1. runner'[j] # Failing
      BY <1>4 DEF Failing, At
    <3>2. runner' # [runner EXCEPT ![j] = Failing]
      BY <3>1 DEF Shape, TypeOK
    <3>3. QED
      BY <3>2 DEF Work
  <2>2. /\ trail'[j] = trail[j] \cup IF job.stage = 3 THEN {} ELSE Artifact(job.stage)
        /\ \A k \in Jobs \ {j} : trail'[k] = trail[k]
    BY <1>1, <2>1
  <2>3. Written(trail'[j], job.stage, job.stage)
    BY <1>2, <1>3, <2>2 DEF Written, Artifact
  <2>4. runner'[j].job = job /\ row' = row
    BY <1>2, <1>4 DEF Moved, At, Failing
  <2>5. trail[j] \subseteq trail'[j]
    BY <2>2
  <2>6. Trailed(row'[j], runner'[j], trail'[j])
    BY <1>1, <1>4, <2>3, <2>4, <2>5 DEF Trailed, Written
  <2>7. QED
    BY <1>2, <2>2, <2>4, <2>6, TrailByJob DEF Moved
<1>5. CASE runner'[j].pc # "check"
  <2>1. runner'[j] = Failing /\ row' = row
    BY <1>2, <1>5 DEF Moved, At
  <2>2. trail' = trail
    <3>1. At("check", job) # Failing
      BY DEF At, Failing
    <3>2. runner' # [runner EXCEPT ![j] = At("check", job)]
      BY <2>1, <3>1 DEF Shape, TypeOK
    <3>3. QED
      BY <3>2 DEF Work
  <2>3. Trailed(row'[j], runner'[j], trail'[j])
    BY <1>1, <2>1, <2>2 DEF Trailed, Failing, At, Walking
  <2>4. QED
    BY <1>2, <2>1, <2>2, <2>3, TrailByJob DEF Moved
<1>6. QED
  BY <1>4, <1>5

\* The other steps of a runner move it with the trail it has.
LEMMA MoveTrail ==
  ASSUME Shape, TrailedAll, NEW j \in Jobs,
         Begin(j) \/ Check(j) \/ Provider(j) \/ Commit(j) \/ LoadFailing(j) \/ Release(j)
  PROVE  TrailedAll'
<1> DEFINE job == runner[j].job
<1>1. JobShape(row[j], runner[j]) /\ Trailed(row[j], runner[j], trail[j])
  BY Facts
<1>2. row' = row /\ trail' = trail
  BY DEF Begin, Check, Provider, Commit, LoadFailing, Release, tables
<1>3. /\ \A k \in Jobs \ {j} : runner'[k] = runner[k]
      /\ Trailed(row[j], runner'[j], trail[j])
  <2>1. CASE Begin(j)
    <3>1. Moved(j, {At("enter", row[j]), Failing}) /\ runner[j].pc = "forked"
      BY <2>1, BeginEffect DEF Begin
    <3>2. QED
      BY <1>1, <3>1 DEF Moved, JobShape, Trailed, At, Failing, Walking
  <2>2. CASE Check(j)
    <3>1. Moved(j, {At("provider", job), At("enter", job), Failing}) /\ runner[j].pc = "check"
      BY <2>2, CheckEffect DEF Check
    <3>2. QED
      BY <1>1, <3>1 DEF Moved, Trailed, At, Failing, Walking
  <2>3. CASE Provider(j)
    <3>1. Moved(j, {At("enter", job), At("failLocal", job), Failing}) /\ runner[j].pc = "provider"
      BY <2>3, ProviderEffect DEF Provider
    <3>2. QED
      BY <1>1, <3>1 DEF Moved, Trailed, At, Failing, Walking
  <2>4. CASE Commit(j)
    <3>1. Moved(j, {At("complete", job), Failing}) /\ runner[j].pc = "commit"
      BY <2>4, CommitEffect DEF Commit
    <3>2. QED
      BY <1>1, <3>1 DEF Moved, Trailed, At, Failing, Walking
  <2>5. CASE LoadFailing(j) \/ Release(j)
    <3>1. \/ Moved(j, {Finally, At("failSave", row[j])})
          \/ Moved(j, {Ended})
      BY <2>5, LoadFailingEffect, ReleaseEffect
    <3>2. QED
      BY <1>1, <3>1 DEF Moved, Trailed, At, Finally, Ended, Walking
  <2>6. QED
    BY <2>1, <2>2, <2>3, <2>4, <2>5
<1>4. QED
  BY <1>2, <1>3, TrailByJob

\* A cancel writes no trail and no row that says succeeded.
LEMMA CancelTrail ==
  ASSUME Shape, Shape', TrailedAll, NEW r \in Requests,
         RequestStep(r) \/ \E j \in Jobs : CancelLoad(r, j)
  PROVE  TrailedAll'
<1>1. runner' = runner /\ trail' = trail
  BY DEF RequestStep, CancelMark, CancelSave, CancelLoad, CancelUnchanged
<1>2. \A j \in Jobs : row'[j] = row[j] \/ row'[j].status = "cancelled"
  <2>1. CASE row' = row
    BY <2>1
  <2>2. CASE CancelSave(r)
    BY <2>2 DEF CancelSave, CancelledRow, Shape, RequestShape, TypeOK, Row
  <2>3. QED
    BY <2>1, <2>2 DEF RequestStep, CancelMark, CancelLoad
<1>3. QED
  BY <1>1, <1>2 DEF TrailedAll, Trailed

LEMMA TrailStep == Shape /\ Shape' /\ TrailedAll /\ [Next]_vars => TrailedAll'
<1> SUFFICES ASSUME Shape, Shape', TrailedAll, [Next]_vars PROVE TrailedAll'
  OBVIOUS
<1>1. ASSUME NEW j \in Jobs, RunnerStep(j) PROVE TrailedAll'
  BY <1>1, SaveTrail, EnterTrail, WorkTrail, MoveTrail DEF RunnerStep
<1>2. ASSUME NEW j \in Jobs, Insert(j) PROVE TrailedAll'
  BY <1>2, SaveTrail
<1>3. CASE Restart
  <2>1. row' = row /\ trail' = trail
    BY <1>3 DEF Restart, tables
  <2>2. \A j \in Jobs : runner'[j] = runner[j] \/ runner'[j] = Ended
    BY <1>3 DEF Restart
  <2>3. QED
    BY <2>1, <2>2 DEF TrailedAll, Trailed, Ended, At, Walking
<1>4. CASE UNCHANGED vars
  BY <1>4 DEF vars, tables, memory, TrailedAll
<1>5. QED
  BY <1>1, <1>2, <1>3, <1>4, CancelTrail DEF Next, StartJob, RetryJob

\* A job reported as succeeded has left the events of all eleven stages and every artifact,
\* whichever statements failed and whatever cancels wrote over its row on the way.
THEOREM SuccessLeavesTrail == Spec => []SucceededLeavesFullTrail
<1>1. Shape /\ TrailedAll => SucceededLeavesFullTrail
  BY DEF TrailedAll, Trailed, Written, SucceededLeavesFullTrail
<1>2. QED
  BY <1>1, TrailInit, TrailStep, ShapeAlways, PTL DEF Spec

-----------------------------------------------------------------------------
(***************************************************************************)
(* ProcessingJobs implements CourseImport, for every set of jobs: each     *)
(* step of the detailed specification is a step of the promise or leaves   *)
(* it unchanged.                                                           *)
(***************************************************************************)

LEMMA PromiseInit == Init => Promise!Init
BY DEF Init, Promise!Init, OutcomeOf

\* A step that moves one runner, commits nothing and leaves the other jobs alone either
\* leaves the promise unchanged or abandons the job.
LEMMA RunnerMoves ==
  ASSUME NEW j \in Jobs,
         \A k \in Jobs \ {j} : runner'[k] = runner[k],
         runner[j].pc # "none", runner'[j].pc # "none",
         CanCommit(j)' => CanCommit(j),
         UNCHANGED <<committed, inTime, snapshot>>
  PROVE  [Promise!Next]_Promise!vars
<1>1. \A k \in Jobs \ {j} : OutcomeOf(k)' = OutcomeOf(k)
  BY DEF OutcomeOf, CanCommit
<1>2. CASE OutcomeOf(j)' = OutcomeOf(j)
  BY <1>1, <1>2 DEF Promise!vars
<1>3. CASE OutcomeOf(j)' # OutcomeOf(j)
  <2>1. OutcomeOf(j) = "pending" /\ OutcomeOf(j)' = "abandoned"
    BY <1>3 DEF OutcomeOf
  <2>2. Promise!Abandon({j})
    BY <1>1, <2>1 DEF Promise!Abandon
  <2>3. QED
    BY <2>2 DEF Promise!Next
<1>4. QED
  BY <1>2, <1>3

LEMMA InsertRefines ==
  ASSUME Shape, Honesty, NEW j \in Jobs, Insert(j) PROVE [Promise!Next]_Promise!vars
<1>1. Persisted(j, QueuedRow, Entered(0), At("forked", AbsentRow), Ended)
  BY InsertEffect
<1>2. UNCHANGED <<committed, inTime, snapshot>> /\ runner[j].pc = "none"
  BY DEF Insert
<1>3. \A k \in Jobs \ {j} : OutcomeOf(k)' = OutcomeOf(k)
  BY <1>1, <1>2 DEF Persisted, OutcomeOf, CanCommit
<1>4. OutcomeOf(j) = "none" /\ j \notin committed
  BY <1>2 DEF Honesty, Honest, Truthful, OutcomeOf
<1>5. CASE runner'[j] = At("forked", AbsentRow)
  <2>1. OutcomeOf(j)' = "pending"
    BY <1>2, <1>4, <1>5 DEF OutcomeOf, CanCommit, At
  <2>2. Promise!Request(j)
    BY <1>2, <1>3, <1>4, <2>1 DEF Promise!Request
  <2>3. QED
    BY <2>2 DEF Promise!Next
<1>6. CASE runner'[j] = Ended
  <2>1. OutcomeOf(j)' = "abandoned"
    BY <1>2, <1>4, <1>6 DEF OutcomeOf, CanCommit, At, Ended
  <2>2. Promise!Abandon({j})
    BY <1>2, <1>3, <1>4, <2>1 DEF Promise!Abandon
  <2>3. QED
    BY <2>2 DEF Promise!Next
<1>7. QED
  BY <1>1, <1>5, <1>6 DEF Persisted

LEMMA CommitRefines ==
  ASSUME Shape, Honesty, NEW j \in Jobs, Commit(j) PROVE [Promise!Next]_Promise!vars
<1>1. Moved(j, {At("complete", runner[j].job), Failing}) /\ runner[j].pc = "commit"
  BY CommitEffect DEF Commit
<1>2. CASE snapshot' = j /\ committed' = committed \cup {j}
  <2>1. \A k \in Jobs \ {j} : OutcomeOf(k)' = OutcomeOf(k)
    BY <1>1, <1>2 DEF Moved, OutcomeOf, CanCommit
  <2>2. OutcomeOf(j) = "pending" /\ j \notin inTime
    BY <1>1 DEF Honesty, Honest, Truthful, Withdrawn, OutcomeOf, CanCommit, CheckAhead
  <2>3. OutcomeOf(j)' = "published" /\ inTime' = inTime
    BY <1>2 DEF OutcomeOf, Commit
  <2>4. Promise!Publish(j)
    BY <1>2, <2>1, <2>2, <2>3 DEF Promise!Publish
  <2>5. QED
    BY <2>4 DEF Promise!Next
<1>3. CASE UNCHANGED <<snapshot, committed>>
  BY <1>1, <1>3, RunnerMoves DEF Commit, Moved, CanCommit, At, Failing
<1>4. QED
  BY <1>2, <1>3 DEF Commit

LEMMA CancelMarkRefines ==
  ASSUME Shape, Honesty, NEW r \in Requests, CancelMark(r) PROVE [Promise!Next]_Promise!vars
<1>0. PICK j \in Jobs : j = request[r].job
  BY DEF Shape, RequestShape, CancelMark
<1>1. UNCHANGED <<runner, committed, snapshot>>
  BY DEF CancelMark, CancelUnchanged
<1>2. \A k \in Jobs : OutcomeOf(k)' = OutcomeOf(k)
  BY <1>1 DEF OutcomeOf, CanCommit
<1>3. CASE CheckAhead(j)
  <2>1. OutcomeOf(j) = "pending"
    BY <1>3 DEF Honesty, Honest, Truthful, OutcomeOf, CanCommit, CheckAhead
  <2>2. inTime' = inTime \cup {j}
    BY <1>0, <1>3 DEF CancelMark
  <2>3. Promise!Withdraw(j)
    BY <1>1, <1>2, <2>1, <2>2 DEF Promise!Withdraw
  <2>4. QED
    BY <2>3 DEF Promise!Next
<1>4. CASE ~CheckAhead(j)
  BY <1>0, <1>1, <1>2, <1>4 DEF CancelMark, Promise!vars
<1>5. QED
  BY <1>3, <1>4

LEMMA RestartRefines ==
  ASSUME Shape, Honesty, Restart PROVE [Promise!Next]_Promise!vars
<1> DEFINE S == {j \in Jobs : OutcomeOf(j) = "pending"}
<1>1. UNCHANGED <<committed, inTime, snapshot>>
  BY DEF Restart, tables, history
<1>2. ASSUME NEW j \in Jobs
      PROVE  OutcomeOf(j)' = IF j \in S THEN "abandoned" ELSE OutcomeOf(j)
  <2>1. \/ runner[j].pc = "none" /\ runner'[j].pc = "none"
        \/ runner[j].pc # "none" /\ runner'[j].pc = "ended"
    BY DEF Restart, Ended, At
  <2>2. QED
    BY <1>1, <2>1 DEF OutcomeOf, CanCommit
<1>3. Promise!Abandon(S)
  BY <1>1, <1>2 DEF Promise!Abandon
<1>4. QED
  BY <1>3 DEF Promise!Next

LEMMA EnterRefines ==
  ASSUME Shape, NEW j \in Jobs, Enter(j) PROVE [Promise!Next]_Promise!vars
<1>1. Persisted(j, EnterRow(runner[j].job), Entered(EnterRow(runner[j].job).stage),
               At(AfterEnter(EnterRow(runner[j].job).stage), EnterRow(runner[j].job)), Failing)
  BY EnterEffect
<1>2. /\ \A k \in Jobs \ {j} : runner'[k] = runner[k]
      /\ runner[j].pc # "none" /\ runner'[j].pc # "none"
      /\ CanCommit(j)' => CanCommit(j)
  BY <1>1 DEF Enter, Persisted, CanCommit, At, Failing, Finally, EnterRow, AfterEnter
<1>3. QED
  BY <1>2, RunnerMoves DEF Enter, RunnerUnchanged, history

LEMMA CompleteRefines ==
  ASSUME Shape, NEW j \in Jobs, Complete(j) PROVE [Promise!Next]_Promise!vars
<1>1. Persisted(j, CompletedRow, Entered(12), Finally, Failing)
  BY CompleteEffect
<1>2. /\ \A k \in Jobs \ {j} : runner'[k] = runner[k]
      /\ runner[j].pc # "none" /\ runner'[j].pc # "none"
      /\ CanCommit(j)' => CanCommit(j)
  BY <1>1 DEF Complete, Persisted, CanCommit, At, Failing, Finally
<1>3. QED
  BY <1>2, RunnerMoves DEF Complete, RunnerUnchanged, history

LEMMA FailLocalRefines ==
  ASSUME Shape, NEW j \in Jobs, FailLocal(j) PROVE [Promise!Next]_Promise!vars
<1>1. Persisted(j, FailedRow(runner[j].job), {}, Finally, Failing)
  BY FailLocalEffect
<1>2. /\ \A k \in Jobs \ {j} : runner'[k] = runner[k]
      /\ runner[j].pc # "none" /\ runner'[j].pc # "none"
      /\ CanCommit(j)' => CanCommit(j)
  BY <1>1 DEF FailLocal, Persisted, CanCommit, At, Failing, Finally
<1>3. QED
  BY <1>2, RunnerMoves DEF FailLocal, RunnerUnchanged, history

LEMMA FailSaveRefines ==
  ASSUME Shape, NEW j \in Jobs, FailSave(j) PROVE [Promise!Next]_Promise!vars
<1>1. Persisted(j, FailedRow(runner[j].job), {}, Finally, Finally)
  BY FailSaveEffect
<1>2. /\ \A k \in Jobs \ {j} : runner'[k] = runner[k]
      /\ runner[j].pc # "none" /\ runner'[j].pc # "none"
      /\ CanCommit(j)' => CanCommit(j)
  BY <1>1 DEF FailSave, Persisted, CanCommit, At, Failing, Finally
<1>3. QED
  BY <1>2, RunnerMoves DEF FailSave, RunnerUnchanged, history

LEMMA BeginRefines ==
  ASSUME Shape, NEW j \in Jobs, Begin(j) PROVE [Promise!Next]_Promise!vars
<1>1. Moved(j, {At("enter", row[j]), Failing})
  BY BeginEffect
<1>2. /\ \A k \in Jobs \ {j} : runner'[k] = runner[k]
      /\ runner[j].pc # "none" /\ runner'[j].pc # "none"
      /\ CanCommit(j)' => CanCommit(j)
  BY <1>1 DEF Begin, Moved, CanCommit, At, Failing, Finally, Ended
<1>3. QED
  BY <1>2, RunnerMoves DEF Begin, RunnerUnchanged, tables, history

LEMMA WorkRefines ==
  ASSUME Shape, NEW j \in Jobs, Work(j) PROVE [Promise!Next]_Promise!vars
<1>1. Moved(j, {At("check", runner[j].job), Failing})
  BY WorkEffect
<1>2. /\ \A k \in Jobs \ {j} : runner'[k] = runner[k]
      /\ runner[j].pc # "none" /\ runner'[j].pc # "none"
      /\ CanCommit(j)' => CanCommit(j)
  BY <1>1 DEF Work, Moved, CanCommit, At, Failing, Finally, Ended
<1>3. QED
  BY <1>2, RunnerMoves DEF Work, RunnerUnchanged, tables, history

LEMMA CheckRefines ==
  ASSUME Shape, NEW j \in Jobs, Check(j) PROVE [Promise!Next]_Promise!vars
<1>1. Moved(j, {At("provider", runner[j].job), At("enter", runner[j].job), Failing})
  BY CheckEffect
<1>2. /\ \A k \in Jobs \ {j} : runner'[k] = runner[k]
      /\ runner[j].pc # "none" /\ runner'[j].pc # "none"
      /\ CanCommit(j)' => CanCommit(j)
  BY <1>1 DEF Check, Moved, CanCommit, At, Failing, Finally, Ended
<1>3. QED
  BY <1>2, RunnerMoves DEF Check, RunnerUnchanged, tables, history

LEMMA ProviderRefines ==
  ASSUME Shape, NEW j \in Jobs, Provider(j) PROVE [Promise!Next]_Promise!vars
<1>1. Moved(j, {At("enter", runner[j].job), At("failLocal", runner[j].job), Failing})
  BY ProviderEffect
<1>2. /\ \A k \in Jobs \ {j} : runner'[k] = runner[k]
      /\ runner[j].pc # "none" /\ runner'[j].pc # "none"
      /\ CanCommit(j)' => CanCommit(j)
  BY <1>1 DEF Provider, Moved, CanCommit, At, Failing, Finally, Ended
<1>3. QED
  BY <1>2, RunnerMoves DEF Provider, RunnerUnchanged, tables, history

LEMMA LoadFailingRefines ==
  ASSUME Shape, NEW j \in Jobs, LoadFailing(j) PROVE [Promise!Next]_Promise!vars
<1>1. Moved(j, {Finally, At("failSave", row[j])})
  BY LoadFailingEffect
<1>2. /\ \A k \in Jobs \ {j} : runner'[k] = runner[k]
      /\ runner[j].pc # "none" /\ runner'[j].pc # "none"
      /\ CanCommit(j)' => CanCommit(j)
  BY <1>1 DEF LoadFailing, Moved, CanCommit, At, Failing, Finally, Ended
<1>3. QED
  BY <1>2, RunnerMoves DEF LoadFailing, RunnerUnchanged, tables, history

LEMMA ReleaseRefines ==
  ASSUME Shape, NEW j \in Jobs, Release(j) PROVE [Promise!Next]_Promise!vars
<1>1. Moved(j, {Ended})
  BY ReleaseEffect
<1>2. /\ \A k \in Jobs \ {j} : runner'[k] = runner[k]
      /\ runner[j].pc # "none" /\ runner'[j].pc # "none"
      /\ CanCommit(j)' => CanCommit(j)
  BY <1>1 DEF Release, Moved, CanCommit, At, Failing, Finally, Ended
<1>3. QED
  BY <1>2, RunnerMoves DEF Release, RunnerUnchanged, tables, history

LEMMA StepRefines == Shape /\ Honesty /\ [Next]_vars => [Promise!Next]_Promise!vars
<1> SUFFICES ASSUME Shape, Honesty, [Next]_vars PROVE [Promise!Next]_Promise!vars
  OBVIOUS
<1> USE Shape, Honesty
<1>1. ASSUME NEW j \in Jobs, StartJob(j) PROVE [Promise!Next]_Promise!vars
  BY <1>1, InsertRefines DEF StartJob
<1>2. ASSUME NEW j \in Jobs, RunnerStep(j) PROVE [Promise!Next]_Promise!vars
  BY <1>2, BeginRefines, EnterRefines, WorkRefines, CheckRefines, ProviderRefines,
     CommitRefines, CompleteRefines, FailLocalRefines, LoadFailingRefines, FailSaveRefines,
     ReleaseRefines DEF RunnerStep
<1>3. ASSUME NEW o \in Jobs, NEW j \in Jobs, RetryJob(o, j) PROVE [Promise!Next]_Promise!vars
  BY <1>3, InsertRefines DEF RetryJob
<1>4. ASSUME NEW r \in Requests, CancelMark(r) PROVE [Promise!Next]_Promise!vars
  BY <1>4, CancelMarkRefines
<1>5. CASE Restart
  BY <1>5, RestartRefines
<1>6. ASSUME UNCHANGED <<runner, committed, inTime, snapshot>>
      PROVE  [Promise!Next]_Promise!vars
  <2>1. \A k \in Jobs : OutcomeOf(k)' = OutcomeOf(k)
    BY <1>6 DEF OutcomeOf, CanCommit
  <2>2. QED
    BY <1>6, <2>1 DEF Promise!vars
<1>7. ASSUME NEW r \in Requests, NEW j \in Jobs, CancelLoad(r, j) \/ CancelSave(r)
      PROVE  [Promise!Next]_Promise!vars
  BY <1>6, <1>7 DEF CancelLoad, CancelSave, CancelUnchanged
<1>8. ASSUME NEW r \in Requests, CancelSave(r)
      PROVE  [Promise!Next]_Promise!vars
  BY <1>6, <1>8 DEF CancelSave, CancelUnchanged
<1>9. CASE UNCHANGED vars
  BY <1>6, <1>9 DEF vars, tables, memory, history
<1>10. QED
  BY <1>1, <1>2, <1>3, <1>4, <1>5, <1>7, <1>8, <1>9 DEF Next, RequestStep

\* The jobs of processFolder.ts keep the promise of CourseImport: a request is published
\* at most once and never after it was withdrawn in time.
THEOREM PromiseIsKept == Spec => ImplementsPromise
<1>1. QED
  BY PromiseInit, StepRefines, HonestyAlways, PTL DEF Spec, ImplementsPromise, Promise!Spec
=============================================================================
