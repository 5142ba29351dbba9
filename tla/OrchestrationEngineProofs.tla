---------------------- MODULE OrchestrationEngineProofs ----------------------
(***************************************************************************)
(* Proofs about OrchestrationEngine, for every set of projects, threads    *)
(* and commands, every past log and every bound on dispatches, failures    *)
(* and restarts: a command enters the log at most once, its receipt says   *)
(* whether it did, and the engine implements CommandLedger.                *)
(***************************************************************************)
EXTENDS OrchestrationEngine, TLAPS, FiniteSetTheorems, SequenceTheorems

-----------------------------------------------------------------------------
(* What a command may append *)

\* The largest batch: a project with all threads.
MaxPlan == Cardinality(Threads) + 2

Batch(events) == events \in Seq(Planned) /\ Len(events) \in 1..MaxPlan

LEMMA ThreadsAreCounted == MaxPlan \in Nat /\ MaxPlan >= 2
BY SetsAreFinite, FS_CardinalityType DEF MaxPlan

LEMMA DeletionsAreBatches ==
  ASSUME NEW model, NEW b, b.of \in Projects, NEW events \in ProjectDeletions(model, b)
  PROVE  Batch(events)
<1> DEFINE live == LiveThreads(model, b.of)
<1>1. live \subseteq Threads
  BY DEF LiveThreads
<1>2. Cardinality(live) \in Nat /\ Cardinality(live) <= Cardinality(Threads)
      /\ Cardinality(Threads) \in Nat
  BY <1>1, SetsAreFinite, FS_Subset, FS_CardinalityType
<1>3. PICK s \in Orders(live) :
        events = [i \in 1..Len(s) |-> Event("thread.deleted", s[i])]
                   \o <<Event("project.deleted", b.of)>>
  BY DEF ProjectDeletions
<1>4. s \in [1..Cardinality(live) -> live]
  BY DEF Orders
<1>5. s \in Seq(live) /\ Len(s) = Cardinality(live)
  <2> HIDE DEF live
  <2>1. QED
    BY <1>2, <1>4
<1>6. \A i \in 1..Len(s) : Event("thread.deleted", s[i]) \in Planned
  <2>1. \A i \in 1..Len(s) : s[i] \in Threads
    BY <1>1, <1>5
  <2>2. QED
    BY <2>1 DEF Event, Planned, Kinds, Aggregates
<1>7. Event("project.deleted", b.of) \in Planned
  BY DEF Event, Planned, Kinds, Aggregates
<1> DEFINE deletions == [i \in 1..Len(s) |-> Event("thread.deleted", s[i])]
<1>8. deletions \in Seq(Planned) /\ Len(deletions) = Len(s)
  <2>1. Len(s) \in Nat
    BY <1>2, <1>5
  <2>2. QED
    BY <2>1, <1>6
<1>9. QED
  <2> HIDE DEF deletions, live
  <2>1. events = deletions \o <<Event("project.deleted", b.of)>>
    BY <1>3 DEF deletions
  <2>2. QED
    BY <2>1, <1>2, <1>5, <1>7, <1>8 DEF Batch, MaxPlan

LEMMA PlansAreBatches ==
  ASSUME NEW model, NEW b \in AllBodies, NEW events \in Plans(model, b)
  PROVE  Batch(events)
<1> USE ThreadsAreCounted
<1>1. ASSUME NEW e \in Planned PROVE Batch(<<e>>)
  BY DEF Batch
<1>2. ASSUME NEW e \in Planned, NEW f \in Planned PROVE Batch(<<e, f>>)
  BY DEF Batch
<1>3. ASSUME NEW g, NEW e, NEW x \in When(g, e) PROVE x = e
  BY DEF When
<1>4. ASSUME NEW kind \in Kinds PROVE b.of \in Aggregates /\ Event(kind, b.of) \in Planned
  BY DEF AllBodies, Aggregates, Event, Planned
<1>5. CASE events \in ProjectPlans(model, b)
  <2>1. CASE b.op = "project.delete" /\ events \in ProjectDeletions(model, b)
    <3>1. b.of \in Projects
      BY <2>1 DEF AllBodies
    <3>2. QED
      BY <2>1, <3>1, DeletionsAreBatches
  <2>2. CASE events = <<Event("project.created", b.of)>>
    BY <1>1, <1>4, <2>2 DEF Kinds
  <2>3. CASE events = <<Event("project.meta-updated", b.of)>>
    BY <1>1, <1>4, <2>3 DEF Kinds
  <2>4. QED
    BY <1>5, <2>1, <2>2, <2>3 DEF ProjectPlans, When
<1>6. CASE events \in ThreadPlans(model, b)
  <2>1. CASE b.op = "thread.create"
             /\ events = <<Creation(b.of, b.in)>>
    <3>1. b.of \in Threads /\ b.in \in Projects
      BY <2>1 DEF AllBodies
    <3>2. Creation(b.of, b.in) \in Planned
      BY <3>1 DEF Creation, Planned, Kinds, Aggregates
    <3>3. QED
      BY <1>1, <2>1, <3>2
  <2>2. ASSUME NEW kind \in Kinds, events = <<Event(kind, b.of)>> PROVE Batch(events)
    BY <1>1, <1>4, <2>2
  <2>3. CASE events = <<Event("thread.message-sent", b.of),
                        Event("thread.turn-start-requested", b.of)>>
    BY <1>2, <1>4, <2>3 DEF Kinds
  <2>4. QED
    BY <1>6, <2>1, <2>2, <2>3 DEF ThreadPlans, When, Kinds
<1>7. QED
  BY <1>5, <1>6 DEF Plans

-----------------------------------------------------------------------------
(* The invariant *)

Envelope == [pc : {"idle", "taken", "decide", "reconcile", "publish", "answer"},
             cmd : Commands \cup {None}, start : Nat, pending : Seq(Nat),
             answer : {"none", "accepted", "rejected", "previously rejected", "failed"}]

Receipt == [status : {"none", "accepted", "rejected"}, sequence : Nat]

Entry == [cmd : Commands \cup {None}, event : Planned]

Typed ==
  /\ log \in Seq(Entry)
  /\ receipts \in [Commands -> Receipt]
  /\ commandQueue \in Seq(Commands)
  /\ worker \in Envelope
  /\ body \in [Commands -> Bodies \cup {None}]
  /\ readModel.seq \in Nat

\* What was dispatched has a body, and what the worker is about to answer agrees with
\* the receipts.
Queued == \A i \in DOMAIN commandQueue : body[commandQueue[i]] \in Bodies

Status == receipts[worker.cmd].status

Working ==
  /\ worker.pc # "idle" => worker.cmd \in Commands /\ body[worker.cmd] \in Bodies
  /\ worker.pc = "decide" => Status = "none"
  /\ worker.pc = "reconcile" => worker.answer \in {"rejected", "failed"}
  /\ worker.pc = "publish" => worker.answer \in {"accepted", "rejected", "failed"}
  /\ worker.pc = "answer" => worker.answer \in {"accepted", "rejected", "previously rejected"}
  /\ worker.pc \in {"reconcile", "publish"} /\ worker.answer = "rejected" => Status = "none"
  /\ worker.pc \in {"publish", "answer"} /\ worker.answer = "accepted" => Status = "accepted"
  /\ worker.pc = "answer" /\ worker.answer = "rejected" => Status # "accepted"
  /\ worker.pc = "answer" /\ worker.answer = "previously rejected" => Status = "rejected"

IInv == Typed /\ Queued /\ Working /\ ReceiptsMatchLog

LEMMA IInvInit == Init => IInv
<1> SUFFICES ASSUME Init PROVE IInv
  OBVIOUS
<1>1. Past \in Seq(Entry)
  <2>1. [cmd : {None}, event : Planned] \subseteq Entry
    BY DEF Entry
  <2>2. QED
    BY <2>1, PastIsLog, SeqMonotonic
<1>2. \A i \in DOMAIN Past : Past[i].cmd = None
  <2> SUFFICES ASSUME NEW i \in DOMAIN Past PROVE Past[i].cmd = None
    OBVIOUS
  <2>1. i \in 1..Len(Past)
    BY PastIsLog, LenProperties
  <2>2. Past[i] \in [cmd : {None}, event : Planned]
    BY <2>1, PastIsLog, ElementOfSeq
  <2>3. QED
    BY <2>2
<1>3. Typed
  BY <1>1, LenProperties DEF Init, Typed, NoReceipt, Receipt, Idle, Envelope
<1>4. Queued /\ Working
  BY DEF Init, Queued, Working, Idle
<1>5. ReceiptsMatchLog
  BY <1>2, NoneIsNew DEF Init, ReceiptsMatchLog, NoReceipt, EntriesOf
<1>6. QED
  BY <1>3, <1>4, <1>5 DEF IInv

\* Positions of a command in a log, and the commands of a log.
In(l, c) == {i \in DOMAIN l : l[i].cmd = c}

CommandsOf(l) == [i \in 1..Len(l) |-> l[i].cmd]

Copies(n, c) == [i \in 1..n |-> c]

\* Appending a batch of one command puts it at the end, and moves nothing else.
LEMMA BatchAppended ==
  ASSUME NEW l \in Seq(Entry), NEW new \in Seq(Entry), NEW c \in Commands, Len(new) > 0,
         \A i \in 1..Len(new) : new[i].cmd = c
  PROVE  /\ l \o new \in Seq(Entry)
         /\ In(l, c) = {} => In(l \o new, c) = (Len(l) + 1)..Len(l \o new)
         /\ \A d : d # c => In(l \o new, d) = In(l, d)
         /\ CommandsOf(l \o new) = CommandsOf(l) \o Copies(Len(new), c)
<1> DEFINE m == l \o new
<1>1. /\ Len(l) \in Nat /\ DOMAIN l = 1..Len(l)
      /\ Len(new) \in Nat /\ DOMAIN new = 1..Len(new)
      /\ m \in Seq(Entry) /\ Len(m) = Len(l) + Len(new)
      /\ \A i \in 1..(Len(l) + Len(new)) : m[i] = IF i <= Len(l) THEN l[i] ELSE new[i - Len(l)]
  BY LenProperties, ConcatProperties
<1>2. DOMAIN m = 1..(Len(l) + Len(new))
  <2> HIDE DEF m
  <2>1. QED
    BY <1>1, LenProperties
<1> HIDE DEF m
<1>3. \A i \in (Len(l) + 1)..(Len(l) + Len(new)) : m[i].cmd = c
  <2> SUFFICES ASSUME NEW i \in (Len(l) + 1)..(Len(l) + Len(new)) PROVE m[i].cmd = c
    OBVIOUS
  <2>1. i - Len(l) \in 1..Len(new) /\ m[i] = new[i - Len(l)]
    BY <1>1
  <2>2. QED
    BY <2>1
<1>4. \A i \in 1..Len(l) : m[i] = l[i]
  BY <1>1
<1>5. In(l, c) = {} => In(m, c) = (Len(l) + 1)..Len(m)
  <2> SUFFICES ASSUME In(l, c) = {} PROVE In(m, c) = (Len(l) + 1)..Len(m)
    OBVIOUS
  <2>1. \A i \in 1..Len(l) : m[i].cmd # c
    BY <1>1, <1>4 DEF In
  <2>2. QED
    BY <1>1, <1>2, <1>3, <2>1 DEF In
<1>6. \A d : d # c => In(m, d) = In(l, d)
  <2> SUFFICES ASSUME NEW d, d # c PROVE In(m, d) = In(l, d)
    OBVIOUS
  <2>1. QED
    BY <1>1, <1>2, <1>3, <1>4 DEF In
<1>7. CommandsOf(m) = CommandsOf(l) \o Copies(Len(new), c)
  <2>1. PICK C, old, own, all : /\ C = Commands \cup {None} /\ own = Copies(Len(new), c)
                                /\ old = CommandsOf(l) /\ all = CommandsOf(m)
    OBVIOUS
  <2>2. own \in Seq(C) /\ Len(own) = Len(new) /\ \A i \in 1..Len(new) : own[i] = c
    BY <1>1, <2>1 DEF Copies
  <2>3. \A k \in Seq(Entry) : /\ CommandsOf(k) \in Seq(C) /\ Len(CommandsOf(k)) = Len(k)
                              /\ \A i \in 1..Len(k) : CommandsOf(k)[i] = k[i].cmd
    <3> SUFFICES ASSUME NEW k \in Seq(Entry)
                 PROVE  /\ CommandsOf(k) \in Seq(C) /\ Len(CommandsOf(k)) = Len(k)
                        /\ \A i \in 1..Len(k) : CommandsOf(k)[i] = k[i].cmd
      OBVIOUS
    <3>1. Len(k) \in Nat
      BY LenProperties
    <3>2. ASSUME NEW i \in 1..Len(k) PROVE k[i].cmd \in C
      <4>1. k[i] \in Entry
        BY ElementOfSeq
      <4>2. QED
        BY <2>1, <4>1 DEF Entry
    <3>3. QED
      BY <3>1, <3>2 DEF CommandsOf
  <2>4. old \in Seq(C) /\ Len(old) = Len(l) /\ \A i \in 1..Len(l) : old[i] = l[i].cmd
    BY <2>1, <2>3
  <2>5. all \in Seq(C) /\ Len(all) = Len(m) /\ \A i \in 1..Len(m) : all[i] = m[i].cmd
    BY <1>1, <2>1, <2>3
  <2>6. /\ old \o own \in Seq(C) /\ Len(old \o own) = Len(old) + Len(own)
        /\ \A i \in 1..(Len(old) + Len(own)) : (old \o own)[i] =
              IF i <= Len(old) THEN old[i] ELSE own[i - Len(old)]
    BY <2>2, <2>4, ConcatProperties
  <2>7. ASSUME NEW i \in 1..Len(m) PROVE all[i] = (old \o own)[i]
    <3>1. CASE i <= Len(l)
      <4>1. i \in 1..Len(l) /\ m[i] = l[i]
        BY <1>1, <3>1
      <4>2. (old \o own)[i] = old[i]
        BY <1>1, <2>2, <2>4, <2>6, <4>1
      <4>3. QED
        BY <2>4, <2>5, <4>1, <4>2
    <3>2. CASE ~(i <= Len(l))
      <4>1. i - Len(l) \in 1..Len(new) /\ i \in (Len(l) + 1)..(Len(l) + Len(new))
        BY <1>1, <3>2
      <4>2. (old \o own)[i] = c
        BY <1>1, <2>2, <2>4, <2>6, <3>2, <4>1
      <4>3. QED
        BY <1>3, <2>5, <4>1, <4>2
    <3>3. QED
      BY <3>1, <3>2
  <2>8. all = old \o own
    BY <1>1, <2>2, <2>4, <2>5, <2>6, <2>7, SeqEqual
  <2>9. QED
    BY <2>1, <2>8
<1>8. QED
  BY <1>1, <1>5, <1>6, <1>7 DEF m

\* The transaction appends one batch of the command at hand and leaves the entries of all
\* others where they are.
LEMMA PersistEffect ==
  ASSUME IInv, worker.pc = "decide",
         NEW events \in Plans(readModel.rows, body[worker.cmd]), Persist(events)
  PROVE  /\ log' \in Seq(Entry) /\ receipts' \in [Commands -> Receipt]
         /\ \E n \in 1..MaxPlan :
              CommandsOf(log') = CommandsOf(log) \o Copies(n, worker.cmd)
         /\ receipts'[worker.cmd].status = "accepted"
         /\ \A d \in Commands \ {worker.cmd} : receipts'[d] = receipts[d]
         /\ ReceiptsMatchLog'
<1>1. PICK c \in Commands : c = worker.cmd /\ body[c] \in AllBodies /\ receipts[c].status = "none"
  BY BodiesAreBodies DEF IInv, Working, Status
<1>2. Batch(events)
  BY <1>1, PlansAreBatches
<1>3. PICK new : new = Entries(c, events)
  OBVIOUS
<1>4. Len(events) \in 1..MaxPlan /\ Len(events) \in Nat /\ Len(events) > 0
  BY <1>2, ThreadsAreCounted DEF Batch
<1>5. /\ new \in Seq(Entry) /\ Len(new) = Len(events)
      /\ \A i \in 1..Len(new) : new[i].cmd = c
  <2>1. \A i \in 1..Len(events) : events[i] \in Planned
    BY <1>2, ElementOfSeq DEF Batch
  <2>2. \A i \in 1..Len(events) : [cmd |-> c, event |-> events[i]] \in Entry
    BY <1>1, <2>1 DEF Entry
  <2>3. QED
    BY <1>3, <1>4, <2>2 DEF Entries
<1>6. log \in Seq(Entry) /\ receipts \in [Commands -> Receipt]
  BY DEF IInv, Typed
<1>7. log' = log \o new
      /\ receipts' = [receipts EXCEPT ![c] = [status |-> "accepted", sequence |-> Len(log')]]
  BY <1>1, <1>3 DEF Persist
<1>8. In(log, c) = {}
  BY <1>1 DEF IInv, ReceiptsMatchLog, EntriesOf, In
<1>9. /\ log' \in Seq(Entry)
      /\ In(log', c) = (Len(log) + 1)..Len(log')
      /\ \A d : d # c => In(log', d) = In(log, d)
      /\ CommandsOf(log') = CommandsOf(log) \o Copies(Len(new), c)
  <2>1. Len(new) > 0 /\ c \in Commands
    BY <1>1, <1>4, <1>5
  <2>2. /\ log \o new \in Seq(Entry)
        /\ In(log, c) = {} => In(log \o new, c) = (Len(log) + 1)..Len(log \o new)
        /\ \A d : d # c => In(log \o new, d) = In(log, d)
        /\ CommandsOf(log \o new) = CommandsOf(log) \o Copies(Len(new), c)
    BY <1>5, <1>6, <2>1, BatchAppended
  <2>3. QED
    BY <1>7, <1>8, <2>2
<1>10. Len(log) \in Nat /\ Len(log') \in Nat /\ Len(log) < Len(log')
  <2>1. Len(log) \in Nat /\ Len(new) \in Nat /\ Len(log \o new) = Len(log) + Len(new)
    BY <1>5, <1>6, LenProperties, ConcatProperties
  <2>2. QED
    BY <1>4, <1>5, <1>7, <2>1
<1>11. /\ receipts' \in [Commands -> Receipt]
       /\ receipts'[c] = [status |-> "accepted", sequence |-> Len(log')]
       /\ \A d \in Commands \ {c} : receipts'[d] = receipts[d]
  BY <1>1, <1>6, <1>7, <1>10 DEF Receipt
<1>12. ReceiptsMatchLog'
  <2> SUFFICES ASSUME NEW d \in Commands
               PROVE  IF receipts'[d].status = "accepted"
                      THEN \E from \in 1..receipts'[d].sequence :
                             In(log', d) = from..receipts'[d].sequence
                      ELSE In(log', d) = {}
    BY DEF ReceiptsMatchLog, EntriesOf, In
  <2>1. CASE d = c
    <3>1. receipts'[d].status = "accepted" /\ receipts'[d].sequence = Len(log')
      BY <2>1, <1>11
    <3>2. Len(log) + 1 \in 1..Len(log')
      BY <1>10
    <3>3. In(log', d) = (Len(log) + 1)..Len(log')
      BY <2>1, <1>9
    <3>4. QED
      BY <3>1, <3>2, <3>3
  <2>2. CASE d # c
    <3>1. In(log', d) = In(log, d) /\ receipts'[d] = receipts[d]
      BY <2>2, <1>9, <1>11
    <3>2. IF receipts[d].status = "accepted"
          THEN \E from \in 1..receipts[d].sequence : In(log, d) = from..receipts[d].sequence
          ELSE In(log, d) = {}
      BY DEF IInv, ReceiptsMatchLog, EntriesOf, In
    <3>3. QED
      BY <3>1, <3>2
  <2>3. QED
    BY <2>1, <2>2
<1>13. \E n \in 1..MaxPlan :
         CommandsOf(log') = CommandsOf(log) \o Copies(n, worker.cmd)
  <2>1. CommandsOf(log') = CommandsOf(log) \o Copies(Len(events), c)
    BY <1>5, <1>9
  <2>2. QED
    BY <1>1, <1>4, <2>1
<1>14. receipts'[worker.cmd].status = "accepted"
       /\ \A d \in Commands \ {worker.cmd} : receipts'[d] = receipts[d]
  BY <1>1, <1>11
<1>15. QED
  BY <1>9, <1>11, <1>12, <1>13, <1>14

\* Steps that keep the log, the receipts and the bodies.
Kept == UNCHANGED <<log, receipts, body>>

LEMMA KeptMatches == ASSUME ReceiptsMatchLog, Kept PROVE ReceiptsMatchLog'
BY DEF Kept, ReceiptsMatchLog, EntriesOf

LEMMA DispatchStep == ASSUME IInv, NEW c \in Commands, Dispatch(c) PROVE IInv'
<1>1. PICK b \in Bodies : body[c] \in {None, b} /\ body' = [body EXCEPT ![c] = b]
  BY DEF Dispatch
<1>2. body' \in [Commands -> Bodies \cup {None}] /\ body'[c] = b
      /\ \A d \in Commands \ {c} : body'[d] = body[d]
  BY <1>1 DEF IInv, Typed
<1>3. UNCHANGED <<log, receipts, worker, readModel>>
      /\ commandQueue' = Append(commandQueue, c)
  BY DEF Dispatch, tables
<1>4. commandQueue \in Seq(Commands)
  BY DEF IInv, Typed
<1>5. Typed'
  BY <1>2, <1>3, <1>4 DEF IInv, Typed
<1>6. Queued'
  <2> SUFFICES ASSUME NEW i \in DOMAIN commandQueue' PROVE body'[commandQueue'[i]] \in Bodies
    BY DEF Queued
  <2>1. CASE commandQueue'[i] = c
    BY <2>1, <1>2
  <2>2. CASE commandQueue'[i] # c
    <3>1. i \in DOMAIN commandQueue /\ commandQueue'[i] = commandQueue[i]
          /\ commandQueue[i] \in Commands
      BY <2>2, <1>3, <1>4
    <3>2. QED
      BY <2>2, <3>1, <1>2 DEF IInv, Queued
  <2>3. QED
    BY <2>1, <2>2
<1>7. Working'
  BY <1>2, <1>3 DEF IInv, Working, Status
<1>8. ReceiptsMatchLog'
  BY <1>3 DEF IInv, ReceiptsMatchLog, EntriesOf
<1>9. QED
  BY <1>5, <1>6, <1>7, <1>8 DEF IInv

LEMMA TakeStep == ASSUME IInv, Take PROVE IInv'
<1>1. UNCHANGED <<log, receipts, body, readModel>> /\ commandQueue # <<>>
      /\ commandQueue' = Tail(commandQueue)
      /\ worker' = [pc |-> "taken", cmd |-> Head(commandQueue), start |-> readModel.seq,
                    pending |-> <<>>, answer |-> "none"]
  BY DEF Take, tables, history
<1>2. commandQueue \in Seq(Commands) /\ readModel.seq \in Nat
  BY DEF IInv, Typed
<1>3. Head(commandQueue) \in Commands /\ body[Head(commandQueue)] \in Bodies
  BY <1>1, <1>2 DEF IInv, Queued
<1>4. Typed'
  <2>1. worker' \in Envelope
    BY <1>1, <1>2, <1>3 DEF Envelope
  <2>2. commandQueue' \in Seq(Commands)
    BY <1>1, <1>2
  <2>3. QED
    BY <1>1, <2>1, <2>2 DEF IInv, Typed
<1>5. Queued'
  <2> SUFFICES ASSUME NEW i \in DOMAIN commandQueue' PROVE body[commandQueue'[i]] \in Bodies
    BY <1>1 DEF Queued
  <2>1. i + 1 \in DOMAIN commandQueue /\ commandQueue'[i] = commandQueue[i + 1]
    BY <1>1, <1>2
  <2>2. QED
    BY <2>1 DEF IInv, Queued
<1>6. Working'
  BY <1>1, <1>3 DEF Working
<1>7. QED
  BY <1>1, <1>4, <1>5, <1>6, KeptMatches DEF IInv, Kept

\* Steps of the worker alone.
LEMMA WorkerStep ==
  ASSUME IInv, Kept, UNCHANGED commandQueue, readModel'.seq \in Nat, worker' \in Envelope,
         Working'
  PROVE  IInv'
<1>1. Typed' /\ Queued'
  BY DEF IInv, Typed, Queued, Kept
<1>2. QED
  BY <1>1, KeptMatches DEF IInv

Answers == {"none", "accepted", "rejected", "previously rejected", "failed"}

LEMMA SettleEffect ==
  ASSUME worker \in Envelope, NEW answer \in Answers, Settle(answer)
  PROVE  /\ worker' \in Envelope /\ worker'.pc = "answer" /\ worker'.answer = answer
         /\ worker'.cmd = worker.cmd
BY DEF Settle, Envelope, Answers

LEMMA FailEffect ==
  ASSUME worker \in Envelope, NEW answer \in Answers, Fail(answer)
  PROVE  /\ worker' \in Envelope /\ worker'.pc = "reconcile" /\ worker'.answer = answer
         /\ worker'.cmd = worker.cmd
BY DEF Fail, Envelope, Answers

LEMMA PositionsAreNat == ASSUME NEW from \in Nat, NEW to \in Nat PROVE Positions(from, to) \in Seq(Nat)
<1>1. CASE from <= to
  BY <1>1 DEF Positions
<1>2. CASE ~(from <= to)
  <2>1. 1..(to - from) = 1..0
    BY <1>2
  <2>2. Positions(from, to) = [i \in 1..0 |-> from + i]
    BY <2>1 DEF Positions
  <2>3. QED
    BY <2>2
<1>3. QED
  BY <1>1, <1>2

LEMMA FindReceiptStep == ASSUME IInv, FindReceipt PROVE IInv'
<1>1. Kept /\ UNCHANGED <<commandQueue, readModel>> /\ worker.pc = "taken"
  BY DEF FindReceipt, Kept, tables, history
<1>2. worker \in Envelope /\ readModel.seq \in Nat
  BY DEF IInv, Typed
<1>3. worker.cmd \in Commands /\ body[worker.cmd] \in Bodies
  BY <1>1 DEF IInv, Working
<1>4. CASE Status = "accepted" /\ Settle("accepted")
  <2>1. Working' /\ worker' \in Envelope
    BY <1>1, <1>2, <1>3, <1>4, SettleEffect DEF Working, Status, Kept, Answers
  <2>2. QED
    BY <1>1, <1>2, <2>1, WorkerStep
<1>5. CASE Status = "rejected" /\ Settle("previously rejected")
  <2>1. Working' /\ worker' \in Envelope
    BY <1>1, <1>2, <1>3, <1>5, SettleEffect DEF Working, Status, Kept, Answers
  <2>2. QED
    BY <1>1, <1>2, <2>1, WorkerStep
<1>6. CASE Status = "none" /\ worker' = [worker EXCEPT !.pc = "decide"]
  <2>1. worker' \in Envelope /\ worker'.pc = "decide" /\ worker'.cmd = worker.cmd
    BY <1>2, <1>6 DEF Envelope
  <2>2. Working'
    BY <1>1, <1>3, <1>6, <2>1 DEF Working, Status, Kept
  <2>3. QED
    BY <1>1, <1>2, <2>1, <2>2, WorkerStep
<1>7. QED
  BY <1>4, <1>5, <1>6 DEF FindReceipt, Status

\* What fails before or at the end of the transaction keeps every receipt.
LEMMA FailingStep ==
  ASSUME IInv, ReceiptUnreadable \/ Reject \/ RollBack
  PROVE  IInv'
<1>1. /\ Kept /\ UNCHANGED <<commandQueue, readModel>> /\ worker.pc \in {"taken", "decide"}
      /\ \/ Fail("failed")
         \/ Fail("rejected") /\ worker.pc = "decide"
  BY DEF ReceiptUnreadable, Reject, RollBack, Kept, tables, history
<1>2. worker \in Envelope /\ readModel.seq \in Nat
  BY DEF IInv, Typed
<1>3. worker.cmd \in Commands /\ body[worker.cmd] \in Bodies
      /\ (worker.pc = "decide" => Status = "none")
  BY <1>1 DEF IInv, Working
<1>4. Working' /\ worker' \in Envelope
  BY <1>1, <1>2, <1>3, FailEffect DEF Working, Status, Kept, Answers
<1>5. QED
  BY <1>1, <1>2, <1>4, WorkerStep

LEMMA PersistingStep == ASSUME IInv, Commit \/ CommitInDoubt PROVE IInv'
<1>1. PICK events \in Plans(readModel.rows, body[worker.cmd]) : Persist(events)
  BY DEF Commit, CommitInDoubt
<1>2. worker.pc = "decide" /\ UNCHANGED <<commandQueue, body>>
  BY DEF Commit, CommitInDoubt, history
<1>3. worker \in Envelope /\ worker.cmd \in Commands /\ body[worker.cmd] \in Bodies
      /\ log \in Seq(Entry) /\ readModel.seq \in Nat
  BY <1>2 DEF IInv, Typed, Working
<1>4. /\ log' \in Seq(Entry) /\ receipts' \in [Commands -> Receipt]
      /\ receipts'[worker.cmd].status = "accepted"
      /\ ReceiptsMatchLog'
  BY <1>1, <1>2, PersistEffect
<1>5. Len(log) \in Nat /\ Len(log') \in Nat
  BY <1>3, <1>4, LenProperties
<1>6. worker' \in Envelope /\ readModel'.seq \in Nat /\ worker'.cmd = worker.cmd
      /\ \/ worker'.pc = "publish" /\ worker'.answer = "accepted"
         \/ worker'.pc = "reconcile" /\ worker'.answer = "failed"
  <2>1. CASE Commit
    <3>1. readModel'.seq = Len(log')
          /\ worker' = [worker EXCEPT !.pc = "publish", !.answer = "accepted",
                                      !.pending = Positions(Len(log), Len(log'))]
      BY <2>1 DEF Commit
    <3>2. Positions(Len(log), Len(log')) \in Seq(Nat)
      BY <1>5, PositionsAreNat
    <3>3. QED
      BY <1>3, <1>5, <3>1, <3>2 DEF Envelope
  <2>2. CASE CommitInDoubt
    <3>1. Fail("failed") /\ UNCHANGED readModel
      BY <2>2 DEF CommitInDoubt
    <3>2. QED
      BY <1>3, <3>1, FailEffect DEF Answers
  <2>3. QED
    BY <2>1, <2>2
<1>7. Typed' /\ Queued'
  BY <1>2, <1>4, <1>6 DEF IInv, Typed, Queued
<1>8. Working'
  BY <1>2, <1>3, <1>4, <1>6 DEF Working, Status
<1>9. QED
  BY <1>4, <1>7, <1>8 DEF IInv

LEMMA PublishStep == ASSUME IInv, Publish PROVE IInv'
<1>1. Kept /\ UNCHANGED <<commandQueue, readModel>> /\ worker.pc = "publish"
      /\ worker.pending # <<>> /\ worker' = [worker EXCEPT !.pending = Tail(worker.pending)]
  BY DEF Publish, Kept, tables, history
<1>2. worker \in Envelope /\ worker.pending \in Seq(Nat) /\ readModel.seq \in Nat
  BY DEF IInv, Typed, Envelope
<1>3. Tail(worker.pending) \in Seq(Nat)
  BY <1>1, <1>2, HeadTailProperties
<1>4. /\ worker' \in Envelope /\ worker'.pc = "publish" /\ worker'.cmd = worker.cmd
      /\ worker'.answer = worker.answer
  BY <1>1, <1>2, <1>3 DEF Envelope
<1>5. Working'
  BY <1>1, <1>4 DEF IInv, Working, Status, Kept
<1>6. QED
  BY <1>1, <1>2, <1>4, <1>5, WorkerStep

LEMMA ReconcileStep == ASSUME IInv, Reconcile \/ ReconcileFails PROVE IInv'
<1>1. Kept /\ UNCHANGED commandQueue /\ worker.pc = "reconcile"
  BY DEF Reconcile, ReconcileFails, Kept, tables, history
<1>2. worker \in Envelope /\ worker.start \in Nat /\ readModel.seq \in Nat
      /\ Len(log) \in Nat
  BY LenProperties DEF IInv, Typed, Envelope
<1>3. readModel'.seq \in Nat
  BY <1>2 DEF Reconcile, ReconcileFails
<1>4. /\ worker' \in Envelope /\ worker'.pc = "publish" /\ worker'.cmd = worker.cmd
      /\ worker'.answer = worker.answer
  <2>1. Positions(worker.start, Len(log)) \in Seq(Nat)
    BY <1>2, PositionsAreNat
  <2>2. QED
    BY <1>2, <2>1 DEF Reconcile, ReconcileFails, Envelope
<1>5. Working'
  BY <1>1, <1>4 DEF IInv, Working, Status, Kept
<1>6. QED
  BY <1>1, <1>3, <1>4, <1>5, WorkerStep

\* A rejection is filed for a command that is in no log.
LEMMA RejectionEffect ==
  ASSUME IInv, FileRejection
  PROVE  /\ worker.cmd \in Commands /\ Status = "none" /\ UNCHANGED <<log, body, commandQueue, told>>
         /\ receipts' \in [Commands -> Receipt]
         /\ receipts'[worker.cmd].status = "rejected"
         /\ \A c \in Commands \ {worker.cmd} : receipts'[c] = receipts[c]
<1>1. /\ worker.pc = "publish" /\ worker.answer = "rejected"
      /\ receipts' = [receipts EXCEPT ![worker.cmd] =
                        [status |-> "rejected", sequence |-> readModel.seq]]
      /\ UNCHANGED <<log, body, commandQueue, told>>
  BY DEF FileRejection, Published, history
<1>2. worker.cmd \in Commands /\ Status = "none" /\ receipts \in [Commands -> Receipt]
      /\ [status |-> "rejected", sequence |-> readModel.seq] \in Receipt
  BY <1>1 DEF IInv, Working, Typed, Receipt
<1>3. QED
  BY <1>1, <1>2

LEMMA FileRejectionStep == ASSUME IInv, FileRejection PROVE IInv'
<1>1. /\ worker.cmd \in Commands /\ Status = "none" /\ UNCHANGED <<log, body, commandQueue>>
      /\ receipts' \in [Commands -> Receipt]
      /\ receipts'[worker.cmd].status = "rejected"
      /\ \A c \in Commands \ {worker.cmd} : receipts'[c] = receipts[c]
  BY RejectionEffect
<1>2. worker \in Envelope /\ Settle("rejected") /\ UNCHANGED readModel
      /\ body[worker.cmd] \in Bodies
  BY DEF IInv, Typed, FileRejection, Working, Published
<1>3. worker' \in Envelope /\ worker'.pc = "answer" /\ worker'.answer = "rejected"
      /\ worker'.cmd = worker.cmd
  BY <1>2, SettleEffect DEF Answers
<1>4. Typed' /\ Queued'
  BY <1>1, <1>2, <1>3 DEF IInv, Typed, Queued
<1>5. Working'
  BY <1>1, <1>2, <1>3 DEF Working, Status
<1>6. ReceiptsMatchLog'
  BY <1>1 DEF IInv, ReceiptsMatchLog, EntriesOf, Status
<1>7. QED
  BY <1>4, <1>5, <1>6 DEF IInv

LEMMA RejectionUnfiledStep == ASSUME IInv, RejectionUnfiled PROVE IInv'
<1>1. Kept /\ UNCHANGED <<commandQueue, readModel>> /\ worker.pc = "publish"
      /\ worker.answer = "rejected" /\ Settle("rejected")
  BY DEF RejectionUnfiled, Published, Kept, tables, history
<1>2. worker \in Envelope /\ readModel.seq \in Nat
  BY DEF IInv, Typed
<1>3. Working' /\ worker' \in Envelope
  BY <1>1, <1>2, SettleEffect DEF IInv, Working, Status, Kept, Answers
<1>4. QED
  BY <1>1, <1>2, <1>3, WorkerStep

LEMMA IdleIsEnvelope == Idle \in Envelope /\ Idle.pc = "idle"
BY EmptySeq DEF Idle, Envelope

LEMMA AnswerStep == ASSUME IInv, Answer PROVE IInv'
<1>1. Kept /\ UNCHANGED <<commandQueue, readModel>> /\ worker' = Idle
  BY DEF Answer, Kept, tables
<1>2. worker' \in Envelope /\ Working' /\ readModel.seq \in Nat
  BY <1>1, IdleIsEnvelope DEF Working, IInv, Typed
<1>3. QED
  BY <1>1, <1>2, WorkerStep

LEMMA RestartStep == ASSUME IInv, Restart PROVE IInv'
<1>1. Kept /\ commandQueue' = <<>> /\ readModel'.seq = Len(log) /\ worker' = Idle
  BY DEF Restart, Kept, tables
<1>2. Len(log) \in Nat
  BY LenProperties DEF IInv, Typed
<1>3. Typed' /\ Queued' /\ Working'
  <2>1. Working'
    BY <1>1, IdleIsEnvelope DEF Working
  <2>2. commandQueue' \in Seq(Commands) /\ DOMAIN commandQueue' = {}
    BY <1>1
  <2>3. QED
    BY <1>1, <1>2, <2>1, <2>2, IdleIsEnvelope DEF IInv, Typed, Kept, Queued
<1>4. QED
  BY <1>1, <1>3, KeptMatches DEF IInv

LEMMA IInvNext == ASSUME IInv, [Next]_vars PROVE IInv'
<1>1. CASE \E c \in Commands : Dispatch(c)
  BY <1>1, DispatchStep
<1>2. CASE Work
  BY <1>2, TakeStep, FindReceiptStep, FailingStep, PersistingStep, PublishStep, ReconcileStep,
     FileRejectionStep, AnswerStep DEF Work
<1>3. CASE Failures
  BY <1>3, FailingStep, PersistingStep, ReconcileStep, RejectionUnfiledStep, RestartStep
     DEF Failures
<1>4. CASE UNCHANGED vars
  <2>1. Kept /\ UNCHANGED <<commandQueue, readModel, worker>>
    BY <1>4 DEF vars, Kept, tables, memory, history
  <2>2. worker' \in Envelope /\ readModel'.seq \in Nat /\ Working'
    BY <2>1 DEF IInv, Typed, Working, Status, Kept
  <2>3. QED
    BY <2>1, <2>2, WorkerStep
<1>5. QED
  BY <1>1, <1>2, <1>3, <1>4 DEF Next

\* Whatever is sent twice, fails or restarts: the queue, the worker and the receipts stay
\* as the transaction and the reconciliation need them to be.
THEOREM SpecIInv == Spec => []IInv
<1>1. QED
  BY IInvInit, IInvNext, PTL DEF Spec

\* A command has an accepted receipt exactly when its events are in the log, as one batch:
\* no redispatch, failure, doubtful commit or restart enters it twice.
THEOREM ReceiptsAlwaysMatchLog == Spec => []ReceiptsMatchLog
<1>1. IInv => ReceiptsMatchLog
  BY DEF IInv
<1>2. QED
  BY <1>1, SpecIInv, PTL

-----------------------------------------------------------------------------
(* The engine implements the ledger of commands *)

LEMMA EnteredIsLogged ==
  ASSUME IInv, NEW c \in Commands
  PROVE  c \in Ledger!Entered <=> receipts[c].status = "accepted"
<1>1. c \in Ledger!Entered <=> EntriesOf(c) # {}
  <2>1. DOMAIN log = 1..Len(log)
    BY LenProperties DEF IInv, Typed
  <2>2. QED
    BY <2>1 DEF Ledger!Entered, EntriesOf
<1>2. CASE receipts[c].status = "accepted"
  <2>1. PICK from \in 1..receipts[c].sequence : EntriesOf(c) = from..receipts[c].sequence
    BY <1>2 DEF IInv, ReceiptsMatchLog
  <2>2. from \in EntriesOf(c)
    BY <2>1 DEF IInv, Typed, Receipt
  <2>3. QED
    BY <1>1, <1>2, <2>2
<1>3. CASE receipts[c].status # "accepted"
  BY <1>1, <1>3 DEF IInv, ReceiptsMatchLog
<1>4. QED
  BY <1>2, <1>3

LEMMA LedgerInit == Init => Ledger!Init
<1> SUFFICES ASSUME Init PROVE Ledger!Init
  OBVIOUS
<1>1. \A c \in Commands : receipts[c].status = "none"
  BY DEF Init, NoReceipt
<1>2. Ledger!Entered \cap Commands = {}
  BY <1>1, IInvInit, EnteredIsLogged
<1>3. QED
  BY <1>1, <1>2 DEF Init, Ledger!Init

\* Steps the ledger does not see.
LEMMA LedgerStutters ==
  ASSUME UNCHANGED <<log, receipts, told>> PROVE UNCHANGED Ledger!vars
BY DEF Ledger!vars

LEMMA EnterStep == ASSUME IInv, Commit \/ CommitInDoubt PROVE Ledger!Next
<1>1. PICK events \in Plans(readModel.rows, body[worker.cmd]) : Persist(events)
  BY DEF Commit, CommitInDoubt
<1>2. worker.pc = "decide" /\ told' = told
  BY DEF Commit, CommitInDoubt, history
<1>3. /\ \E n \in 1..MaxPlan :
           CommandsOf(log') = CommandsOf(log) \o Copies(n, worker.cmd)
      /\ receipts'[worker.cmd].status = "accepted"
      /\ \A d \in Commands \ {worker.cmd} : receipts'[d] = receipts[d]
  BY <1>1, <1>2, PersistEffect
<1>4. worker.cmd \in Commands /\ receipts[worker.cmd].status = "none"
  BY <1>2 DEF IInv, Working, Status
<1>5. worker.cmd \notin Ledger!Entered
  BY <1>4, EnteredIsLogged
<1>6. \A c \in Commands : receipts'[c].status = "rejected" <=> receipts[c].status = "rejected"
  BY <1>3, <1>4
<1>7. PICK c \in Commands : c = worker.cmd
  BY <1>4
<1>8. Ledger!Enter(c)
  BY <1>2, <1>3, <1>4, <1>5, <1>6, <1>7 DEF Ledger!Enter, CommandsOf, Copies, MaxPlan
<1>9. QED
  BY <1>8 DEF Ledger!Next

LEMMA RefuseStep == ASSUME IInv, FileRejection PROVE Ledger!Next
<1>1. /\ worker.cmd \in Commands /\ Status = "none" /\ UNCHANGED <<log, told>>
      /\ receipts'[worker.cmd].status = "rejected"
      /\ \A c \in Commands \ {worker.cmd} : receipts'[c] = receipts[c]
  BY RejectionEffect
<1>2. worker.cmd \notin Ledger!Entered
  BY <1>1, EnteredIsLogged DEF Status
<1>3. PICK c \in Commands : c = worker.cmd
  BY <1>1
<1>4. Ledger!Refuse(c)
  BY <1>1, <1>2, <1>3 DEF Ledger!Refuse
<1>5. QED
  BY <1>4 DEF Ledger!Next

LEMMA TellStep == ASSUME IInv, Answer PROVE Ledger!Next
<1>1. /\ UNCHANGED <<log, receipts>> /\ told' = told \cup {<<worker.cmd, worker.answer>>}
      /\ \/ worker.pc = "answer"
         \/ worker.pc = "publish" /\ worker.answer # "rejected"
  BY DEF Answer, Published, tables
<1>2. worker.cmd \in Commands
  BY <1>1 DEF IInv, Working
<1>3. CASE worker.answer = "accepted"
  <2>1. worker.cmd \in Ledger!Entered
    BY <1>1, <1>2, <1>3, EnteredIsLogged DEF IInv, Working, Status
  <2>2. Ledger!TellAccepted(worker.cmd)
    BY <1>1, <1>3, <2>1 DEF Ledger!TellAccepted
  <2>3. QED
    BY <1>2, <2>2 DEF Ledger!Next
<1>4. CASE worker.answer = "rejected"
  <2>1. worker.cmd \notin Ledger!Entered
    BY <1>1, <1>2, <1>4, EnteredIsLogged DEF IInv, Working, Status
  <2>2. Ledger!TellRejected(worker.cmd)
    BY <1>1, <1>4, <2>1 DEF Ledger!TellRejected
  <2>3. QED
    BY <1>2, <2>2 DEF Ledger!Next
<1>5. CASE worker.answer = "previously rejected"
  <2>1. receipts[worker.cmd].status = "rejected"
    BY <1>1, <1>5 DEF IInv, Working, Status
  <2>2. Ledger!TellRefused(worker.cmd)
    BY <1>1, <1>2, <1>5, <2>1 DEF Ledger!TellRefused
  <2>3. QED
    BY <1>2, <2>2 DEF Ledger!Next
<1>6. CASE worker.answer = "failed"
  <2>1. Ledger!TellFailed(worker.cmd)
    BY <1>1, <1>6 DEF Ledger!TellFailed
  <2>2. QED
    BY <1>2, <2>1 DEF Ledger!Next
<1>7. QED
  BY <1>1, <1>3, <1>4, <1>5, <1>6 DEF IInv, Working

LEMMA LedgerNext == ASSUME IInv, [Next]_vars PROVE [Ledger!Next]_(Ledger!vars)
<1>1. CASE \E c \in Commands : Dispatch(c)
  BY <1>1, LedgerStutters DEF Dispatch, tables
<1>2. CASE Take \/ FindReceipt \/ Publish \/ Reconcile \/ ReceiptUnreadable \/ Reject
           \/ RollBack \/ ReconcileFails \/ RejectionUnfiled \/ Restart
  <2>1. UNCHANGED <<log, receipts, told>>
    BY <1>2 DEF Take, FindReceipt, Publish, Reconcile, ReceiptUnreadable, Reject, RollBack,
       ReconcileFails, RejectionUnfiled, Restart, tables, history
  <2>2. QED
    BY <2>1, LedgerStutters
<1>3. CASE Commit \/ CommitInDoubt
  BY <1>3, EnterStep
<1>4. CASE FileRejection
  BY <1>4, RefuseStep
<1>5. CASE Answer
  BY <1>5, TellStep
<1>6. CASE UNCHANGED vars
  BY <1>6, LedgerStutters DEF vars, tables, history
<1>7. QED
  BY <1>1, <1>2, <1>3, <1>4, <1>5, <1>6 DEF Next, Work, Failures

\* The engine implements the ledger: what callers are told of a command is true, and stays
\* true, of what the log holds of it.
THEOREM EngineImplementsLedger == Spec => ImplementsLedger
<1>1. QED
  BY LedgerInit, LedgerNext, SpecIInv, PTL DEF Spec, ImplementsLedger, Ledger!Spec
-----------------------------------------------------------------------------
(* The hot stream follows the log *)

Items(s) == {s[i] : i \in DOMAIN s}

Ascending(s) == \A i, j \in DOMAIN s : i < j => s[i] < s[j]

LEMMA AscendingAppend ==
  ASSUME NEW s \in Seq(Nat), Ascending(s), NEW n \in Nat, \A x \in Items(s) : x < n
  PROVE  /\ Append(s, n) \in Seq(Nat) /\ Ascending(Append(s, n))
         /\ Items(Append(s, n)) = Items(s) \cup {n}
<1>1. /\ DOMAIN s = 1..Len(s) /\ Len(s) \in Nat
      /\ Append(s, n) \in Seq(Nat) /\ DOMAIN Append(s, n) = 1..(Len(s) + 1)
      /\ \A i \in 1..Len(s) : Append(s, n)[i] = s[i]
      /\ Append(s, n)[Len(s) + 1] = n
  OBVIOUS
<1>2. PICK t : t = Append(s, n)
  OBVIOUS
<1>3. Items(t) = Items(s) \cup {n}
  BY <1>1, <1>2 DEF Items
<1>4. Ascending(t)
  BY <1>1, <1>2 DEF Ascending, Items
<1>5. QED
  BY <1>1, <1>2, <1>3, <1>4

LEMMA AscendingTail ==
  ASSUME NEW s \in Seq(Nat), s # <<>>, Ascending(s)
  PROVE  /\ Head(s) \in Nat /\ Ascending(Tail(s))
         /\ Items(s) = {Head(s)} \cup Items(Tail(s))
         /\ \A y \in Items(Tail(s)) : Head(s) < y
<1>1. /\ DOMAIN s = 1..Len(s) /\ Len(s) \in Nat \ {0} /\ Head(s) = s[1] /\ Head(s) \in Nat
      /\ DOMAIN Tail(s) = 1..(Len(s) - 1)
      /\ \A i \in 1..(Len(s) - 1) : Tail(s)[i] = s[i + 1]
  OBVIOUS
<1>2. PICK t : t = Tail(s)
  OBVIOUS
<1>3. Ascending(t) /\ \A y \in Items(t) : Head(s) < y
  <2>1. \A i \in DOMAIN t : i + 1 \in DOMAIN s /\ 1 < i + 1 /\ t[i] = s[i + 1]
    BY <1>1, <1>2
  <2>2. \A i, j \in DOMAIN t : i < j => i + 1 < j + 1
    BY <1>1, <1>2
  <2>3. 1 \in DOMAIN s
    BY <1>1
  <2>4. \A i, j \in DOMAIN s : i < j => s[i] < s[j]
    BY DEF Ascending
  <2>5. \A i, j \in DOMAIN t : i < j => t[i] < t[j]
    BY <2>1, <2>2, <2>4
  <2>6. \A i \in DOMAIN t : Head(s) < t[i]
    BY <1>1, <2>1, <2>3, <2>4
  <2>7. QED
    BY <2>5, <2>6 DEF Ascending, Items
<1>4. Items(s) = {Head(s)} \cup Items(t)
  <2>1. ASSUME NEW i \in 1..Len(s), i # 1 PROVE i - 1 \in DOMAIN t /\ s[i] = t[i - 1]
    BY <1>1, <1>2, <2>1
  <2>2. Items(s) \subseteq {Head(s)} \cup Items(t)
    BY <1>1, <2>1 DEF Items
  <2>3. {Head(s)} \cup Items(t) \subseteq Items(s)
    BY <1>1, <1>2 DEF Items
  <2>4. QED
    BY <2>2, <2>3
<1>5. QED
  BY <1>1, <1>2, <1>3, <1>4

LEMMA PositionsAscend ==
  ASSUME NEW from \in Nat, NEW to \in Nat, from <= to
  PROVE  Ascending(Positions(from, to)) /\ Items(Positions(from, to)) = (from + 1)..to
<1>1. PICK s : s = Positions(from, to)
  OBVIOUS
<1>2. DOMAIN s = 1..(to - from) /\ \A i \in 1..(to - from) : s[i] = from + i
  BY <1>1 DEF Positions
<1>3. Ascending(s)
  BY <1>2 DEF Ascending
<1>4. Items(s) \subseteq (from + 1)..to
  BY <1>2 DEF Items
<1>5. \A x \in (from + 1)..to : x - from \in 1..(to - from) /\ s[x - from] = x
  BY <1>2
<1>6. Items(s) = (from + 1)..to
  BY <1>2, <1>4, <1>5 DEF Items
<1>7. QED
  BY <1>1, <1>3, <1>6

LEMMA NoItems == Items(<<>>) = {} /\ Ascending(<<>>)
BY DEF Items, Ascending

\* What is on the stream and what waits for it, in one ascending sequence.
InOrder == /\ published \in Seq(Nat)
           /\ Ascending(published) /\ Ascending(worker.pending)
           /\ \A x \in Items(published), y \in Items(worker.pending) : x < y

Announced == Items(published) \cup Items(worker.pending)

\* Where the worker stands: what is behind the read model was announced or missed, and what
\* is ahead of it was missed or is about to be read back.
Covers(startup) ==
  /\ missed \subseteq (startup + 1)..Len(log)
  /\ Announced \subseteq (startup + 1)..readModel.seq
  /\ missed \cap Announced = {}
  /\ (startup + 1)..readModel.seq \subseteq missed \cup Announced
  /\ worker.pc # "reconcile" => (readModel.seq + 1)..Len(log) \subseteq missed

Placed == /\ readModel.seq <= Len(log)
          /\ worker.pc \in {"taken", "decide", "reconcile"} => worker.start = readModel.seq
          /\ worker.pc # "publish" => worker.pending = <<>>

Streamed == InOrder /\ Placed /\ \E startup \in 0..readModel.seq : Covers(startup)

LEMMA StreamedInit == Init => Streamed
<1> SUFFICES ASSUME Init PROVE Streamed
  OBVIOUS
<1>1. Len(log) \in Nat /\ readModel.seq = Len(log) /\ worker = Idle /\ published = <<>>
      /\ missed = {}
  BY IInvInit, LenProperties DEF Init, IInv, Typed
<1>2. worker.pc = "idle" /\ worker.pending = <<>>
  BY <1>1 DEF Idle
<1>3. InOrder
  BY <1>1, <1>2, NoItems DEF InOrder
<1>4. Announced = {}
  BY <1>1, <1>2, NoItems DEF Announced
<1>5. Covers(Len(log))
  BY <1>1, <1>2, <1>4 DEF Covers
<1>6. QED
  BY <1>1, <1>2, <1>3, <1>5 DEF Streamed, Placed

LEMMA Numbers ==
  ASSUME IInv
  PROVE  /\ Len(log) \in Nat /\ readModel.seq \in Nat
         /\ worker \in Envelope /\ worker.start \in Nat /\ worker.pending \in Seq(Nat)
BY LenProperties DEF IInv, Typed, Envelope

\* Steps that move only the control point of the worker, or take or drop an envelope.
LEMMA StreamKept ==
  ASSUME IInv, Streamed, UNCHANGED <<log, readModel, published, missed>>,
         worker'.pending = worker.pending, Placed',
         worker.pc # "reconcile" \/ worker'.pc = "reconcile"
  PROVE  Streamed'
<1>1. PICK startup \in 0..readModel.seq : Covers(startup)
  BY DEF Streamed
<1>2. Announced' = Announced
  BY DEF Announced
<1>3. Covers(startup)'
  BY <1>1, <1>2 DEF Covers
<1>4. InOrder'
  BY DEF Streamed, InOrder
<1>5. QED
  BY <1>1, <1>3, <1>4 DEF Streamed

LEMMA QuietStream ==
  ASSUME IInv, Streamed,
         \/ Take \/ FindReceipt \/ Reject \/ FileRejection \/ Answer
         \/ ReceiptUnreadable \/ RollBack \/ RejectionUnfiled
  PROVE  Streamed'
<1>1. UNCHANGED <<log, readModel, published, missed>>
  BY DEF Take, FindReceipt, Reject, FileRejection, Answer, ReceiptUnreadable, RollBack,
         RejectionUnfiled, tables, history
<1>2. worker \in Envelope /\ Placed
  BY Numbers DEF Streamed
<1>3. /\ worker'.pending = worker.pending /\ worker.pc # "reconcile"
      /\ worker'.pc \in {"taken", "decide", "reconcile"} => worker'.start = readModel.seq
      /\ worker'.pc # "publish" => worker'.pending = <<>>
  <2>1. CASE Take
    BY <1>2, <2>1 DEF Take, Placed
  <2>2. CASE FindReceipt \/ Reject \/ ReceiptUnreadable \/ RollBack
    BY <1>2, <2>2 DEF FindReceipt, Reject, ReceiptUnreadable, RollBack, Settle, Fail, Placed,
                      Envelope
  <2>3. CASE FileRejection \/ RejectionUnfiled
    BY <1>2, <2>3 DEF FileRejection, RejectionUnfiled, Published, Settle, Placed, Envelope
  <2>4. CASE Answer
    BY <1>2, <2>4 DEF Answer, Published, Idle, Placed
  <2>5. QED
    BY <2>1, <2>2, <2>3, <2>4
<1>4. QED
  BY <1>1, <1>2, <1>3, StreamKept DEF Placed

\* The log only grows with a transaction.
LEMMA LogGrows ==
  ASSUME IInv, worker.pc = "decide",
         NEW events \in Plans(readModel.rows, body[worker.cmd]), Persist(events)
  PROVE  Len(log') \in Nat /\ Len(log) <= Len(log')
<1>1. /\ log' \in Seq(Entry) /\ worker.cmd \in Commands /\ body[worker.cmd] \in AllBodies
      /\ log \in Seq(Entry)
  BY PersistEffect, BodiesAreBodies DEF IInv, Typed, Working
<1>2. PICK new : new = Entries(worker.cmd, events)
  OBVIOUS
<1>3. Batch(events) /\ log' = log \o new
  BY <1>1, <1>2, PlansAreBatches DEF Persist
<1>4. new \in Seq(Entry)
  <2>1. \A i \in 1..Len(events) : events[i] \in Planned
    BY <1>3, ElementOfSeq DEF Batch
  <2>2. \A i \in 1..Len(events) : [cmd |-> worker.cmd, event |-> events[i]] \in Entry
    BY <1>1, <2>1 DEF Entry
  <2>3. Len(events) \in Nat
    BY <1>3, LenProperties DEF Batch
  <2>4. QED
    BY <1>2, <2>2, <2>3 DEF Entries
<1>5. Len(log) \in Nat /\ Len(new) \in Nat /\ Len(log') = Len(log) + Len(new)
  BY <1>1, <1>3, <1>4, LenProperties, ConcatProperties
<1>6. QED
  BY <1>5

LEMMA CommitStreamed == ASSUME IInv, Streamed, Commit PROVE Streamed'
<1>1. PICK events \in Plans(readModel.rows, body[worker.cmd]) : Persist(events)
  BY DEF Commit
<1>2. /\ worker.pc = "decide" /\ UNCHANGED <<published, missed>>
      /\ readModel'.seq = Len(log')
      /\ worker'.pc = "publish" /\ worker'.pending = Positions(Len(log), Len(log'))
  <2>1. /\ worker' = [worker EXCEPT !.pc = "publish", !.answer = "accepted",
                                    !.pending = Positions(Len(log), Len(log'))]
        /\ worker.pc = "decide" /\ UNCHANGED <<published, missed>>
        /\ readModel'.seq = Len(log')
    BY DEF Commit, history
  <2>2. worker \in Envelope
    BY Numbers
  <2>3. QED
    BY <2>1, <2>2 DEF Envelope
<1>3. Len(log) \in Nat /\ Len(log') \in Nat /\ Len(log) <= Len(log') /\ readModel.seq \in Nat
  BY <1>1, <1>2, LogGrows, Numbers
<1>4. Ascending(worker'.pending) /\ Items(worker'.pending) = (Len(log) + 1)..Len(log')
  BY <1>2, <1>3, PositionsAscend
<1>5. PICK startup \in 0..readModel.seq : Covers(startup)
  BY DEF Streamed
<1>6. readModel.seq <= Len(log) /\ Announced = Items(published)
  BY <1>2, NoItems DEF Streamed, Placed, Announced
<1>7. Items(published) \subseteq (startup + 1)..readModel.seq
  BY <1>5, <1>6 DEF Covers
<1>8. InOrder'
  BY <1>2, <1>3, <1>4, <1>6, <1>7 DEF Streamed, InOrder
<1>9. Announced' = Items(published) \cup ((Len(log) + 1)..Len(log'))
  BY <1>2, <1>4 DEF Announced
<1>10. Covers(startup)'
  BY <1>2, <1>3, <1>5, <1>6, <1>7, <1>9 DEF Covers
<1>11. startup \in 0..readModel'.seq
  BY <1>2, <1>3, <1>5, <1>6
<1>12. QED
  BY <1>2, <1>3, <1>8, <1>10, <1>11 DEF Streamed, Placed

LEMMA DoubtStreamed == ASSUME IInv, Streamed, CommitInDoubt PROVE Streamed'
<1>1. PICK events \in Plans(readModel.rows, body[worker.cmd]) : Persist(events)
  BY DEF CommitInDoubt
<1>2. /\ worker.pc = "decide" /\ UNCHANGED <<published, missed, readModel>>
      /\ worker'.pc = "reconcile" /\ worker'.pending = worker.pending
      /\ worker'.start = worker.start
  BY Numbers DEF CommitInDoubt, history, Fail, Envelope
<1>3. Len(log) \in Nat /\ Len(log') \in Nat /\ Len(log) <= Len(log') /\ readModel.seq \in Nat
  BY <1>1, <1>2, LogGrows, Numbers
<1>4. PICK startup \in 0..readModel.seq : Covers(startup)
  BY DEF Streamed
<1>5. Announced' = Announced /\ InOrder'
  BY <1>2 DEF Announced, Streamed, InOrder
<1>6. Covers(startup)'
  BY <1>2, <1>3, <1>4, <1>5 DEF Covers
<1>7. QED
  BY <1>2, <1>3, <1>4, <1>5, <1>6 DEF Streamed, Placed

LEMMA PublishStreamed == ASSUME IInv, Streamed, Publish PROVE Streamed'
<1>1. /\ worker.pc = "publish" /\ worker.pending # <<>>
      /\ published' = Append(published, Head(worker.pending))
      /\ worker'.pc = "publish" /\ worker'.pending = Tail(worker.pending)
      /\ UNCHANGED <<log, readModel, missed>>
  BY Numbers DEF Publish, Envelope, tables, history
<1>2. PICK h, rest : h = Head(worker.pending) /\ rest = Items(Tail(worker.pending))
  OBVIOUS
<1>3. /\ h \in Nat /\ Ascending(worker'.pending) /\ rest = Items(worker'.pending)
      /\ Items(worker.pending) = {h} \cup rest
      /\ \A y \in rest : h < y
  BY <1>1, <1>2, Numbers, AscendingTail DEF Streamed, InOrder
<1>4. \A x \in Items(published) : x < h /\ \A y \in rest : x < y
  BY <1>3 DEF Streamed, InOrder
<1>5. /\ published' \in Seq(Nat) /\ Ascending(published')
      /\ Items(published') = Items(published) \cup {h}
  BY <1>1, <1>2, <1>3, <1>4, AscendingAppend DEF Streamed, InOrder
<1>6. InOrder'
  BY <1>3, <1>4, <1>5 DEF InOrder
<1>7. Announced' = Announced
  BY <1>3, <1>5 DEF Announced
<1>8. PICK startup \in 0..readModel.seq : Covers(startup)
  BY DEF Streamed
<1>9. Covers(startup)'
  BY <1>1, <1>7, <1>8 DEF Covers
<1>10. QED
  BY <1>1, <1>6, <1>8, <1>9 DEF Streamed, Placed

LEMMA ReconcileStreamed == ASSUME IInv, Streamed, Reconcile PROVE Streamed'
<1>1. /\ worker.pc = "reconcile" /\ UNCHANGED <<log, published>>
      /\ worker'.pc = "publish" /\ worker'.pending = Positions(worker.start, Len(log))
      /\ missed' = missed \ ((worker.start + 1)..Len(log))
  BY Numbers DEF Reconcile, Envelope, tables
<1>2. /\ Len(log) \in Nat /\ readModel.seq \in Nat /\ readModel.seq <= Len(log)
      /\ worker.start = readModel.seq /\ Announced = Items(published)
  BY <1>1, Numbers, NoItems DEF Streamed, Placed, Announced
<1>3. readModel'.seq = Len(log)
  BY <1>2 DEF Reconcile
<1>4. Ascending(worker'.pending) /\ Items(worker'.pending) = (readModel.seq + 1)..Len(log)
  BY <1>1, <1>2, PositionsAscend
<1>5. PICK startup \in 0..readModel.seq : Covers(startup)
  BY DEF Streamed
<1>6. Items(published) \subseteq (startup + 1)..readModel.seq
  BY <1>2, <1>5 DEF Covers
<1>7. InOrder'
  BY <1>1, <1>2, <1>4, <1>6 DEF Streamed, InOrder
<1>8. Announced' = Items(published) \cup ((readModel.seq + 1)..Len(log))
  BY <1>1, <1>4 DEF Announced
<1>9. Covers(startup)'
  <2>1. /\ missed \subseteq (startup + 1)..Len(log) /\ missed \cap Items(published) = {}
        /\ (startup + 1)..readModel.seq \subseteq missed \cup Items(published)
    BY <1>2, <1>5 DEF Covers
  <2>2. missed' = missed \ ((readModel.seq + 1)..Len(log))
    BY <1>1, <1>2
  <2>3. missed' \subseteq (startup + 1)..Len(log)
    BY <2>1, <2>2
  <2>4. Announced' \subseteq (startup + 1)..Len(log)
    BY <1>2, <1>5, <1>6, <1>8
  <2>5. missed' \cap Announced' = {}
    BY <1>8, <2>1, <2>2
  <2>6. ASSUME NEW x \in (startup + 1)..Len(log) PROVE x \in missed' \cup Announced'
    <3>1. x \in (startup + 1)..readModel.seq \/ x \in (readModel.seq + 1)..Len(log)
      BY <1>2, <1>5
    <3>2. QED
      BY <1>8, <2>1, <2>2, <3>1
  <2>7. (Len(log) + 1)..Len(log) = {}
    BY <1>2
  <2>8. QED
    BY <1>1, <1>3, <2>3, <2>4, <2>5, <2>6, <2>7 DEF Covers
<1>10. startup \in 0..readModel'.seq
  BY <1>2, <1>3, <1>5
<1>11. QED
  BY <1>1, <1>2, <1>3, <1>7, <1>9, <1>10 DEF Streamed, Placed

LEMMA UnreadStreamed == ASSUME IInv, Streamed, ReconcileFails PROVE Streamed'
<1>1. /\ worker.pc = "reconcile" /\ UNCHANGED <<log, published, readModel>>
      /\ worker'.pc = "publish" /\ worker'.pending = worker.pending
      /\ missed' = missed \cup ((worker.start + 1)..Len(log))
  BY Numbers DEF ReconcileFails, Envelope, tables
<1>2. /\ Len(log) \in Nat /\ readModel.seq \in Nat /\ readModel.seq <= Len(log)
      /\ worker.start = readModel.seq
  BY <1>1, Numbers DEF Streamed, Placed
<1>3. PICK startup \in 0..readModel.seq : Covers(startup)
  BY DEF Streamed
<1>4. Announced' = Announced /\ InOrder'
  BY <1>1 DEF Announced, Streamed, InOrder
<1>5. Covers(startup)'
  <2>1. missed' = missed \cup ((readModel.seq + 1)..Len(log))
    BY <1>1, <1>2
  <2>2. missed' \subseteq (startup + 1)..Len(log)
    <3>1. (readModel.seq + 1)..Len(log) \subseteq (startup + 1)..Len(log)
      BY <1>2, <1>3
    <3>2. missed \subseteq (startup + 1)..Len(log)
      BY <1>3 DEF Covers
    <3>3. QED
      BY <2>1, <3>1, <3>2
  <2>3. missed' \cap Announced = {}
    <3>1. /\ Announced \subseteq (startup + 1)..readModel.seq
          /\ missed \cap Announced = {}
      BY <1>3 DEF Covers
    <3>2. ((startup + 1)..readModel.seq) \cap ((readModel.seq + 1)..Len(log)) = {}
      BY <1>2, <1>3
    <3>3. QED
      BY <2>1, <3>1, <3>2
  <2>4. QED
    BY <1>1, <1>3, <1>4, <2>1, <2>2, <2>3 DEF Covers
<1>6. QED
  BY <1>1, <1>2, <1>3, <1>4, <1>5 DEF Streamed, Placed

LEMMA RestartStreamed == ASSUME IInv, Streamed, Restart PROVE Streamed'
<1>1. /\ Len(log) \in Nat /\ log' = log /\ readModel'.seq = Len(log) /\ worker' = Idle
      /\ published' = <<>> /\ missed' = {}
  BY Numbers DEF Restart, tables
<1>2. worker'.pc = "idle" /\ worker'.pending = <<>>
  BY <1>1 DEF Idle
<1>3. InOrder' /\ Announced' = {}
  BY <1>1, <1>2, NoItems DEF InOrder, Announced
<1>4. Covers(Len(log))'
  BY <1>1, <1>2, <1>3 DEF Covers
<1>5. QED
  BY <1>1, <1>2, <1>3, <1>4 DEF Streamed, Placed

LEMMA StreamedNext == ASSUME IInv, Streamed, [Next]_vars PROVE Streamed'
<1>1. CASE (\E c \in Commands : Dispatch(c)) \/ UNCHANGED vars
  <2>1. UNCHANGED <<log, readModel, published, missed, worker>>
    BY <1>1 DEF Dispatch, vars, tables, memory, history
  <2>2. Placed'
    BY <2>1 DEF Streamed, Placed
  <2>3. QED
    BY <2>1, <2>2, StreamKept
<1>2. CASE Work
  BY <1>2, QuietStream, CommitStreamed, PublishStreamed, ReconcileStreamed DEF Work
<1>3. CASE Failures
  BY <1>3, QuietStream, DoubtStreamed, UnreadStreamed, RestartStreamed DEF Failures
<1>4. QED
  BY <1>1, <1>2, <1>3 DEF Next

\* Consumers of the hot stream get the persisted events in the order of the log, none
\* twice, and between two commands all since startup but those that could not be read back.
THEOREM HotStreamFollowsLog == Spec => []HotStreamIsLog
<1>1. ASSUME IInv, Streamed PROVE HotStreamIsLog
  <2>1. \A i, j \in DOMAIN published : i < j => published[i] < published[j]
    BY <1>1 DEF Streamed, InOrder, Ascending
  <2>2. ASSUME worker.pc = "idle"
        PROVE  \E startup \in 0..Len(log) :
                 /\ (startup + 1)..Len(log) = missed \cup Items(published)
                 /\ missed \cap Items(published) = {}
    <3>1. PICK startup \in 0..readModel.seq : Covers(startup)
      BY <1>1 DEF Streamed
    <3>2. readModel.seq <= Len(log) /\ Announced = Items(published)
          /\ Len(log) \in Nat /\ readModel.seq \in Nat
      BY <1>1, <2>2, NoItems, Numbers DEF Streamed, Placed, Announced
    <3>3. /\ (startup + 1)..Len(log) = missed \cup Items(published)
          /\ missed \cap Items(published) = {}
      <4>1. /\ missed \subseteq (startup + 1)..Len(log)
            /\ Items(published) \subseteq (startup + 1)..readModel.seq
            /\ missed \cap Items(published) = {}
            /\ (startup + 1)..readModel.seq \subseteq missed \cup Items(published)
            /\ (readModel.seq + 1)..Len(log) \subseteq missed
        BY <2>2, <3>1, <3>2 DEF Covers
      <4>2. \A x \in (startup + 1)..Len(log) :
              x \in (startup + 1)..readModel.seq \/ x \in (readModel.seq + 1)..Len(log)
        BY <3>1, <3>2
      <4>3. (startup + 1)..readModel.seq \subseteq (startup + 1)..Len(log)
        BY <3>1, <3>2
      <4>4. QED
        BY <4>1, <4>2, <4>3
    <3>4. startup \in 0..Len(log)
      BY <3>1, <3>2
    <3>5. QED
      BY <3>3, <3>4
  <2>3. QED
    BY <2>1, <2>2 DEF HotStreamIsLog, Items
<1>2. QED
  BY <1>1, StreamedInit, StreamedNext, SpecIInv, PTL DEF Spec
=============================================================================
