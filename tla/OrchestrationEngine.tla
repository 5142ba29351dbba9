------------------------- MODULE OrchestrationEngine ------------------------
(***************************************************************************)
(* The command engine of apps/server (orchestration/): callers dispatch    *)
(* commands into one queue; a single worker looks for a receipt, decides   *)
(* the command against its in-memory read model, and in one transaction    *)
(* appends the events, projects them onto the tables and files the         *)
(* receipt; then it replaces the read model, publishes the events one by   *)
(* one and answers the caller.  When any of that fails it reads back what  *)
(* was persisted after all, applies and publishes it, and answers with the *)
(* error.  A statement may fail, a commit may report an error although it  *)
(* went through, and the server may restart, which loses the queue, the    *)
(* worker, the read model and the hot stream, and keeps the tables.        *)
(*                                                                         *)
(* An event is its kind, the project or thread it belongs to, the project  *)
(* a thread is created in, and the command that caused it; its sequence    *)
(* number is its position in the log.                                      *)
(***************************************************************************)
EXTENDS Naturals, Sequences, FiniteSets

CONSTANTS Projects, Threads,
          Commands,    \* command ids
          Bodies,      \* the commands that may be sent under these ids
          None,        \* no project, no command, no body
          Past,        \* the log before the server is first started
          MaxSends,    \* bound on the dispatches of one command id
          MaxFaults,   \* bound on failing statements
          MaxRestarts  \* bound on server restarts

Aggregates == Projects \cup Threads

\* "thread.update" stands for the commands that need their thread and append one event;
\* a turn may be started with a plan that was proposed on a thread (`from`).
AllBodies ==
       [op : {"project.create", "project.meta.update"}, of : Projects]
  \cup [op : {"project.delete"}, of : Projects, force : BOOLEAN]
  \cup [op : {"thread.create"}, of : Threads, in : Projects]
  \cup [op : {"thread.delete", "thread.archive", "thread.unarchive", "thread.update"},
        of : Threads]
  \cup [op : {"thread.turn.start"}, of : Threads, from : Threads \cup {None}]

Kinds == {"project.created", "project.meta-updated", "project.deleted",
          "thread.created", "thread.deleted", "thread.archived", "thread.unarchived",
          "thread.updated", "thread.message-sent", "thread.turn-start-requested"}

Planned == [kind : Kinds, of : Aggregates, in : Projects \cup {None}]

ASSUME SetsAreFinite    == IsFiniteSet(Projects) /\ IsFiniteSet(Threads)
ASSUME AggregatesDiffer == Projects \cap Threads = {}
ASSUME NoneIsNew        == None \notin Aggregates \cup Commands \cup Bodies
ASSUME BodiesAreBodies  == Bodies \subseteq AllBodies
ASSUME PastIsLog        == Past \in Seq([cmd : {None}, event : Planned])
ASSUME BoundsAreNat     == MaxSends \in Nat /\ MaxFaults \in Nat /\ MaxRestarts \in Nat

VARIABLES log,        \* orchestration_events
          rows,       \* projection_projects and projection_threads
          receipts,   \* orchestration_command_receipts
          commandQueue,
          readModel,  \* commandReadModel: its rows and its snapshotSequence
          worker,     \* the envelope being processed and how far it is
          published,  \* positions of the log published on the hot stream since startup
          body,       \* history: what is sent under each command id
          sends,      \* history: dispatches per command id
          told,       \* history: pairs of a command and the answer a caller got
          missed,     \* history: persisted events the worker could not read back
          faults, restarts

tables  == <<log, rows, receipts>>
memory  == <<commandQueue, readModel, worker, published>>
history == <<body, sends, told, missed>>
vars    == <<tables, memory, history, faults, restarts>>

-----------------------------------------------------------------------------
(* Deciding: the event sequences a command may append, none if rejected *)

AbsentRow == [state |-> "absent", in |-> None, archived |-> FALSE]

Row == [state : {"absent", "live", "deleted"}, in : Projects \cup {None}, archived : BOOLEAN]

Event(kind, a) == [kind |-> kind, of |-> a, in |-> None]

Creation(t, p) == [kind |-> "thread.created", of |-> t, in |-> p]

\* Mutant: what was deleted may be created anew.
ExistsLive(model, a) == model[a].state = "live"

Exists(model, a) == model[a].state # "absent"

LiveThreads(model, p) == {t \in Threads : model[t].state = "live" /\ model[t].in = p}

Orders(S) == {s \in [1..Cardinality(S) -> S] :
                \A i, j \in 1..Cardinality(S) : s[i] = s[j] => i = j}

When(guard, events) == IF guard THEN {events} ELSE {}

\* Mutant: force skips the threads.
ProjectDeletionsBare(model, b) ==
  When(LiveThreads(model, b.of) = {} \/ b.force, <<Event("project.deleted", b.of)>>)

\* The threads are deleted in the order of the read model, the project last.
ProjectDeletions(model, b) ==
  IF LiveThreads(model, b.of) # {} /\ ~b.force
  THEN {}
  ELSE {[i \in 1..Len(s) |-> Event("thread.deleted", s[i])]
          \o <<Event("project.deleted", b.of)>> : s \in Orders(LiveThreads(model, b.of))}

ProjectPlans(model, b) ==
  (IF b.op = "project.delete" /\ Exists(model, b.of) THEN ProjectDeletions(model, b) ELSE {})
  \cup When(b.op = "project.create" /\ ~Exists(model, b.of), <<Event("project.created", b.of)>>)
  \cup When(b.op = "project.meta.update" /\ Exists(model, b.of),
            <<Event("project.meta-updated", b.of)>>)

\* A plan comes from a thread of the same project.
SourceFits(model, b) ==
  b.from # None => Exists(model, b.from) /\ model[b.from].in = model[b.of].in

ThreadPlans(model, b) ==
  When(b.op = "thread.create" /\ Exists(model, b.in) /\ ~Exists(model, b.of),
       <<Creation(b.of, b.in)>>)
  \cup When(b.op = "thread.delete" /\ Exists(model, b.of), <<Event("thread.deleted", b.of)>>)
  \cup When(b.op = "thread.archive" /\ Exists(model, b.of) /\ ~model[b.of].archived,
            <<Event("thread.archived", b.of)>>)
  \cup When(b.op = "thread.unarchive" /\ Exists(model, b.of) /\ model[b.of].archived,
            <<Event("thread.unarchived", b.of)>>)
  \cup When(b.op = "thread.update" /\ Exists(model, b.of), <<Event("thread.updated", b.of)>>)
  \cup When(b.op = "thread.turn.start" /\ Exists(model, b.of) /\ SourceFits(model, b),
            <<Event("thread.message-sent", b.of), Event("thread.turn-start-requested", b.of)>>)

Plans(model, b) == ProjectPlans(model, b) \cup ThreadPlans(model, b)

\* The thread may not hold the plan that is named; which plans it holds is left out.
PlanUnknown(b) == b.op = "thread.turn.start" /\ b.from # None

-----------------------------------------------------------------------------
(* Projecting.  The tables and the read model of the worker are kept by    *)
(* two pieces of code: Apply and Project are those of the tables,          *)
(* ProjectEvent and Replay those of the read model.                        *)

Creates(e) == e.kind \in {"project.created", "thread.created"}

Created(e) == [state |-> "live", in |-> e.in, archived |-> FALSE]

\* Mutant: the row of a thread names the thread where its project belongs.
ApplyMisfiled(model, e) ==
  IF e.kind = "thread.created"
  THEN [model EXCEPT ![e.of] = [state |-> "live", in |-> e.of, archived |-> FALSE]]
  ELSE model

\* The row of the event is read, and written back changed.
Apply(model, e) ==
  CASE Creates(e) ->
         [model EXCEPT ![e.of] = Created(e)]
    [] e.kind \in {"project.deleted", "thread.deleted"} /\ Exists(model, e.of) ->
         [model EXCEPT ![e.of].state = "deleted"]
    [] e.kind = "thread.archived" /\ Exists(model, e.of) ->
         [model EXCEPT ![e.of].archived = TRUE]
    [] e.kind = "thread.unarchived" /\ Exists(model, e.of) ->
         [model EXCEPT ![e.of].archived = FALSE]
    [] OTHER -> model

Project(model, entries) ==
  LET after[i \in 0..Len(entries)] ==
        IF i = 0 THEN model ELSE Apply(after[i - 1], entries[i].event)
  IN  after[Len(entries)]

\* The rows with the event's id are replaced, the others stay.
ProjectEvent(model, e) ==
  [a \in Aggregates |->
     IF a = e.of /\ Creates(e) THEN Created(e)
     ELSE IF a = e.of /\ Exists(model, a)
     THEN [model[a] EXCEPT
             !.state    = IF e.kind \in {"project.deleted", "thread.deleted"} THEN "deleted" ELSE @,
             !.archived = (@ \/ e.kind = "thread.archived") /\ e.kind # "thread.unarchived"]
     ELSE model[a]]

Replay(model, entries) ==
  LET after[i \in 0..Len(entries)] ==
        IF i = 0 THEN model ELSE ProjectEvent(after[i - 1], entries[i].event)
  IN  after[Len(entries)]

Entries(c, events) == [i \in 1..Len(events) |-> [cmd |-> c, event |-> events[i]]]

NoReceipt == [status |-> "none", sequence |-> 0]

Idle == [pc |-> "idle", cmd |-> None, start |-> 0, pending |-> <<>>, answer |-> "none"]

Positions(from, to) == [i \in 1..(to - from) |-> from + i]

Init ==
  /\ log = Past
  /\ rows = Project([a \in Aggregates |-> AbsentRow], Past)
  /\ receipts = [c \in Commands |-> NoReceipt]
  /\ commandQueue = <<>>
  /\ readModel = [rows |-> rows, seq |-> Len(Past)]
  /\ worker = Idle
  /\ published = <<>>
  /\ body = [c \in Commands |-> None]
  /\ sends = [c \in Commands |-> 0]
  /\ told = {}
  /\ missed = {}
  /\ faults = 0
  /\ restarts = 0

\* A statement may fail as long as the bound allows.
Fault == faults < MaxFaults /\ faults' = faults + 1

NoFault == UNCHANGED <<faults, restarts>>

-----------------------------------------------------------------------------
(* The engine *)

Dispatch(c) ==
  /\ sends[c] < MaxSends
  /\ \E b \in Bodies : body[c] \in {None, b} /\ body' = [body EXCEPT ![c] = b]
  /\ sends' = [sends EXCEPT ![c] = @ + 1]
  /\ commandQueue' = Append(commandQueue, c)
  /\ UNCHANGED <<tables, readModel, worker, published, told, missed>> /\ NoFault

Take ==
  /\ worker.pc = "idle"
  /\ commandQueue # <<>>
  /\ worker' = [pc |-> "taken", cmd |-> Head(commandQueue), start |-> readModel.seq,
                pending |-> <<>>, answer |-> "none"]
  /\ commandQueue' = Tail(commandQueue)
  /\ UNCHANGED <<tables, readModel, published, history>> /\ NoFault

Settle(answer) == worker' = [worker EXCEPT !.pc = "answer", !.answer = answer]

Fail(answer) == worker' = [worker EXCEPT !.pc = "reconcile", !.answer = answer]

\* Mutant: receipts are filed and never looked at.
FindReceiptNever ==
  /\ worker.pc = "taken"
  /\ worker' = [worker EXCEPT !.pc = "decide"]
  /\ UNCHANGED <<tables, commandQueue, readModel, published, history>> /\ NoFault

\* A receipt answers a command that was processed before.
FindReceipt ==
  /\ worker.pc = "taken"
  /\ \/ receipts[worker.cmd].status = "accepted" /\ Settle("accepted")
     \/ receipts[worker.cmd].status = "rejected" /\ Settle("previously rejected")
     \/ receipts[worker.cmd].status = "none" /\ worker' = [worker EXCEPT !.pc = "decide"]
  /\ UNCHANGED <<tables, commandQueue, readModel, published, history>> /\ NoFault

ReceiptUnreadable ==
  /\ worker.pc = "taken"
  /\ Fail("failed")
  /\ Fault
  /\ UNCHANGED <<tables, commandQueue, readModel, published, history, restarts>>

Reject ==
  /\ worker.pc = "decide"
  /\ Plans(readModel.rows, body[worker.cmd]) = {} \/ PlanUnknown(body[worker.cmd])
  /\ Fail("rejected")
  /\ UNCHANGED <<tables, commandQueue, readModel, published, history>> /\ NoFault

\* The transaction: append, project, file the receipt.
Persist(events) ==
  /\ log' = log \o Entries(worker.cmd, events)
  /\ rows' = Project(rows, Entries(worker.cmd, events))
  /\ receipts' = [receipts EXCEPT ![worker.cmd] =
                    [status |-> "accepted", sequence |-> Len(log')]]

Commit ==
  /\ worker.pc = "decide"
  /\ \E events \in Plans(readModel.rows, body[worker.cmd]) :
       /\ Persist(events)
       /\ readModel' = [rows |-> Replay(readModel.rows, Entries(worker.cmd, events)),
                        seq  |-> Len(log')]
       /\ worker' = [worker EXCEPT !.pc = "publish", !.answer = "accepted",
                                   !.pending = Positions(Len(log), Len(log'))]
  /\ UNCHANGED <<commandQueue, published, history>> /\ NoFault

RollBack ==
  /\ worker.pc = "decide"
  /\ Plans(readModel.rows, body[worker.cmd]) # {}
  /\ Fail("failed")
  /\ Fault
  /\ UNCHANGED <<tables, commandQueue, readModel, published, history, restarts>>

\* The commit went through and the worker is told that it did not.
CommitInDoubt ==
  /\ worker.pc = "decide"
  /\ \E events \in Plans(readModel.rows, body[worker.cmd]) : Persist(events)
  /\ Fail("failed")
  /\ Fault
  /\ UNCHANGED <<commandQueue, readModel, published, history, restarts>>

Publish ==
  /\ worker.pc = "publish"
  /\ worker.pending # <<>>
  /\ published' = Append(published, Head(worker.pending))
  /\ worker' = [worker EXCEPT !.pending = Tail(@)]
  /\ UNCHANGED <<tables, commandQueue, readModel, history>> /\ NoFault

\* Mutants: what was persisted is published and not applied; applied and not published.
ReconcileStreamOnly ==
  /\ worker.pc = "reconcile"
  /\ worker' = [worker EXCEPT !.pc = "publish", !.pending = Positions(worker.start, Len(log))]
  /\ UNCHANGED <<tables, commandQueue, readModel, published, history>> /\ NoFault

ReconcileModelOnly ==
  /\ worker.pc = "reconcile"
  /\ readModel' = [rows |-> rows, seq |-> Len(log)]
  /\ worker' = [worker EXCEPT !.pc = "publish"]
  /\ UNCHANGED <<tables, commandQueue, published, history>> /\ NoFault

\* What was persisted since the envelope was taken is applied and published.
Reconcile ==
  /\ worker.pc = "reconcile"
  /\ IF Len(log) = worker.start
     THEN UNCHANGED readModel
     ELSE readModel' = [rows |-> Replay(readModel.rows, SubSeq(log, worker.start + 1, Len(log))),
                        seq  |-> Len(log)]
  /\ worker' = [worker EXCEPT !.pc = "publish", !.pending = Positions(worker.start, Len(log))]
  /\ missed' = missed \ ((worker.start + 1)..Len(log))
  /\ UNCHANGED <<tables, commandQueue, published, body, sends, told>> /\ NoFault

\* Only logged: the read model stays behind until the next restart.
ReconcileFails ==
  /\ worker.pc = "reconcile"
  /\ worker' = [worker EXCEPT !.pc = "publish"]
  /\ missed' = missed \cup ((worker.start + 1)..Len(log))
  /\ Fault
  /\ UNCHANGED <<tables, commandQueue, readModel, published, body, sends, told, restarts>>

Published == worker.pc = "publish" /\ worker.pending = <<>>

\* Mutant: every error is filed as a rejection.
FileEveryError ==
  /\ Published
  /\ worker.answer \in {"rejected", "failed"}
  /\ receipts' = [receipts EXCEPT ![worker.cmd] =
                    [status |-> "rejected", sequence |-> readModel.seq]]
  /\ Settle(worker.answer)
  /\ UNCHANGED <<log, rows, commandQueue, readModel, published, history>> /\ NoFault

FileRejection ==
  /\ Published
  /\ worker.answer = "rejected"
  /\ receipts' = [receipts EXCEPT ![worker.cmd] =
                    [status |-> "rejected", sequence |-> readModel.seq]]
  /\ Settle("rejected")
  /\ UNCHANGED <<log, rows, commandQueue, readModel, published, history>> /\ NoFault

\* The error of the upsert is dropped.
RejectionUnfiled ==
  /\ Published
  /\ worker.answer = "rejected"
  /\ Settle("rejected")
  /\ Fault
  /\ UNCHANGED <<tables, commandQueue, readModel, published, history, restarts>>

\* Mutant: an error of the database ends the worker.
AnswerUnlessBroken ==
  /\ worker.pc = "answer" \/ (Published /\ worker.answer = "accepted")
  /\ told' = told \cup {<<worker.cmd, worker.answer>>}
  /\ worker' = Idle
  /\ UNCHANGED <<tables, commandQueue, readModel, published, body, sends, missed>> /\ NoFault

Answer ==
  /\ worker.pc = "answer" \/ (Published /\ worker.answer # "rejected")
  /\ told' = told \cup {<<worker.cmd, worker.answer>>}
  /\ worker' = Idle
  /\ UNCHANGED <<tables, commandQueue, readModel, published, body, sends, missed>> /\ NoFault

\* bootstrap finds every projector at the end of the log, the read model is loaded anew.
Restart ==
  /\ restarts < MaxRestarts
  /\ restarts' = restarts + 1
  /\ commandQueue' = <<>>
  /\ readModel' = [rows |-> rows, seq |-> Len(log)]
  /\ worker' = Idle
  /\ published' = <<>>
  /\ missed' = {}
  /\ UNCHANGED <<tables, body, sends, told, faults>>

Work == \/ Take \/ FindReceipt \/ Reject \/ Commit \/ Publish \/ Reconcile
        \/ FileRejection \/ Answer

Failures == \/ ReceiptUnreadable \/ RollBack \/ CommitInDoubt \/ ReconcileFails
            \/ RejectionUnfiled \/ Restart

Next == (\E c \in Commands : Dispatch(c)) \/ Work \/ Failures

Spec == Init /\ [][Next]_vars

\* The worker is a fiber of its own: it goes on whenever it can.
FairSpec == Spec /\ WF_vars(Work)

-----------------------------------------------------------------------------
(* Properties *)

TypeOK ==
  /\ log \in Seq([cmd : Commands \cup {None}, event : Planned])
  /\ rows \in [Aggregates -> Row]
  /\ receipts \in [Commands -> [status : {"none", "accepted", "rejected"}, sequence : Nat]]
  /\ commandQueue \in Seq(Commands)
  /\ readModel \in [rows : [Aggregates -> Row], seq : Nat]
  /\ worker \in [pc : {"idle", "taken", "decide", "reconcile", "publish", "answer"},
                 cmd : Commands \cup {None}, start : Nat, pending : Seq(Nat),
                 answer : {"none", "accepted", "rejected", "previously rejected", "failed"}]
  /\ published \in Seq(Nat)
  /\ body \in [Commands -> Bodies \cup {None}]
  /\ sends \in [Commands -> 0..MaxSends]
  /\ told \subseteq Commands \X {"accepted", "rejected", "previously rejected", "failed"}
  /\ missed \subseteq Nat
  /\ faults \in 0..MaxFaults /\ restarts \in 0..MaxRestarts

EntriesOf(c) == {i \in DOMAIN log : log[i].cmd = c}

\* A command has an accepted receipt exactly when its events are in the log, and they are
\* one batch that ends at the receipt's sequence number: whatever is dispatched again,
\* fails, is left in doubt by a commit or is cut off by a restart.
ReceiptsMatchLog ==
  \A c \in Commands :
    IF receipts[c].status = "accepted"
    THEN \E from \in 1..receipts[c].sequence : EntriesOf(c) = from..receipts[c].sequence
    ELSE EntriesOf(c) = {}

\* Outside a failure that is still being reconciled, the worker decides on the rows as they
\* are on disk, unless reading back what a doubtful commit left behind failed as well.
ReadModelCurrent ==
  missed = {} /\ worker.pc # "reconcile" =>
    readModel = [rows |-> rows, seq |-> Len(log)]

\* The hot stream carries the persisted events in the order of the log, none twice, and
\* between two commands all that were persisted since startup, but for those the worker
\* could not read back.
HotStreamIsLog ==
  /\ \A i, j \in DOMAIN published : i < j => published[i] < published[j]
  /\ worker.pc = "idle" =>
       \E startup \in 0..Len(log) :
         /\ (startup + 1)..Len(log) = missed \cup {published[i] : i \in DOMAIN published}
         /\ \A i \in DOMAIN published : published[i] \notin missed

\* Deleting a project, by force or not, leaves no live thread in it, as the threads are
\* deleted by the same command and decided on the same rows.
DeletedProjectIsEmpty ==
  [][missed = {} =>
       \A p \in Projects :
         rows[p].state = "live" /\ rows'[p].state = "deleted" => LiveThreads(rows', p) = {}]_vars

\* No project or thread is created twice, which would wipe its row, and no event is
\* appended for one that was never created, whatever was sent twice or in doubt.
CreatedOnceThenUsed ==
  [][missed = {} =>
       \A i \in (Len(log) + 1)..Len(log') :
         LET earlier == {j \in 1..(i - 1) : /\ log'[j].event.of = log'[i].event.of
                                           /\ Creates(log'[j].event)}
         IN  IF Creates(log'[i].event) THEN earlier = {} ELSE earlier # {}]_vars

Ledger == INSTANCE CommandLedger
            WITH ledger   <- [i \in 1..Len(log) |-> log[i].cmd],
                 refused  <- {c \in Commands : receipts[c].status = "rejected"},
                 MaxBatch <- Cardinality(Threads) + 2

\* "Dispatch is serialized through an internal queue and deduplicated via command
\* receipts": the engine implements the ledger of commands.
ImplementsLedger == Ledger!Spec

Outstanding(c) == worker.cmd = c \/ \E i \in DOMAIN commandQueue : commandQueue[i] = c

\* Every dispatched command is answered or lost with a restart; nothing that fails stops
\* the worker.
DispatchSettles == \A c \in Commands : Outstanding(c) ~> ~Outstanding(c)
=============================================================================
