-------------------------- MODULE ShellStreamProofs --------------------------
(***************************************************************************)
(* Proofs about ShellStream, for every set of projects, threads and        *)
(* commands, every past and every bound on failures, restarts and          *)
(* subscriptions: the page never moves back in what it shows, and once the *)
(* stream has run dry it shows the shell as it is on disk, but for events  *)
(* that the stream did not carry.                                          *)
(***************************************************************************)
EXTENDS ShellStream, OrchestrationRowsProofs

-----------------------------------------------------------------------------
(* The engine under its client *)

\* What the invariants of the engine speak of.
LEMMA EngineKept == ASSUME EngineInv, UNCHANGED <<tables, memory, history>> PROVE EngineInv'
<1>1. UNCHANGED <<log, rows, receipts, commandQueue, readModel, worker, published, body, missed>>
  BY DEF tables, memory, history
<1>2. IInv'
  <2>1. Kept /\ UNCHANGED <<commandQueue, readModel, worker>>
    BY <1>1 DEF Kept
  <2>2. worker' \in Envelope /\ readModel'.seq \in Nat /\ Working'
    BY <2>1 DEF EngineInv, IInv, Typed, Working, Status, Kept
  <2>3. QED
    BY <2>1, <2>2, WorkerStep DEF EngineInv
<1>3. Streamed'
  <2>1. Placed'
    BY <1>1 DEF EngineInv, Streamed, Placed
  <2>2. QED
    BY <1>1, <2>1, StreamKept DEF EngineInv
<1>4. RowsInv'
  BY <1>1, RowsQuiet DEF EngineInv
<1>5. QED
  BY <1>2, <1>3, <1>4 DEF EngineInv

LEMMA StepsOfEngine ==
  ASSUME EngineSteps \/ ServerRestarts PROVE [Next]_vars
BY DEF EngineSteps, ServerRestarts, Next, Failures

LEMMA ShellKeepsEngine == ASSUME EngineInv, [ShellNext]_systemVars PROVE EngineInv'
<1>1. CASE EngineSteps \/ ServerRestarts
  BY <1>1, StepsOfEngine, EngineNext
<1>2. CASE Subscribe \/ Attach \/ Deliver \/ DeliverUnreadable \/ Disconnect \/ UNCHANGED systemVars
  <2>1. UNCHANGED <<tables, memory, history>>
    BY <1>2 DEF Subscribe, Attach, Deliver, DeliverUnreadable, Disconnect, systemVars, vars
  <2>2. QED
    BY <2>1, EngineKept
<1>3. QED
  BY <1>1, <1>2 DEF ShellNext

LEMMA ShellInitEngine == ShellInit => EngineInv
BY EngineInit DEF ShellInit

\* The log only grows, and the tables follow it.
LEMMA LogExtends ==
  ASSUME EngineInv, [Next]_vars
  PROVE  \E new \in Seq(Entry) : log' = log \o new /\ rows' = Project(rows, new)
<1>1. log \in Seq(Entry)
  BY DEF EngineInv, IInv, Typed
<1>2. CASE UNCHANGED <<log, rows>>
  <2>1. <<>> \in Seq(Entry) /\ log \o <<>> = log /\ Len(<<>>) = 0
    BY <1>1
  <2>2. Project(rows, <<>>) = rows
    BY <2>1, ProjectNone
  <2>3. QED
    BY <1>2, <2>1, <2>2
<1>3. CASE /\ worker.pc = "decide"
           /\ \E events \in Plans(readModel.rows, body[worker.cmd]) : Persist(events)
  BY <1>3, PersistAppends DEF EngineInv
<1>4. QED
  BY <1>2, <1>3, OnlyTransactionsWrite

LEMMA EarlierEntries ==
  ASSUME IInv, NEW new \in Seq(Entry), log' = log \o new
  PROVE  /\ log \in Seq(Entry) /\ Len(log) \in Nat /\ Len(new) \in Nat
         /\ log' \in Seq(Entry) /\ Len(log') = Len(log) + Len(new)
         /\ \A i \in 1..Len(log) : log'[i] = log[i]
         /\ \A i \in 1..Len(new) : log'[Len(log) + i] = new[i]
<1>1. log \in Seq(Entry)
  BY DEF IInv, Typed
<1>2. \A s, t \in Seq(Entry) :
        /\ Len(s) \in Nat /\ Len(t) \in Nat
        /\ s \o t \in Seq(Entry) /\ Len(s \o t) = Len(s) + Len(t)
        /\ \A i \in 1..Len(s) : (s \o t)[i] = s[i]
        /\ \A i \in 1..Len(t) : (s \o t)[Len(s) + i] = t[i]
  OBVIOUS
<1>3. QED
  BY <1>1, <1>2

-----------------------------------------------------------------------------
(* What is shown of a row *)

\* The greatest number of a set, 0 if there is none.
Greatest(T) == IF T = {} THEN 0 ELSE CHOOSE i \in T : \A j \in T : j <= i

LEMMA GreatestIs ==
  ASSUME NEW n \in Nat, NEW T, T \subseteq 1..n
  PROVE  /\ Greatest(T) \in 0..n
         /\ T # {} => Greatest(T) \in T
         /\ \A j \in T : j <= Greatest(T)
<1>1. CASE T = {}
  BY <1>1 DEF Greatest
<1>2. CASE T # {}
  <2>1. T \subseteq 0..n
    OBVIOUS
  <2>2. \E i \in T : \A j \in T : j <= i
    BY <1>2, <2>1, GreatestNumber
  <2>3. Greatest(T) \in T /\ \A j \in T : j <= Greatest(T)
    BY <1>2, <2>2 DEF Greatest
  <2>4. QED
    BY <2>1, <2>3
<1>3. QED
  BY <1>1, <1>2

\* The events of a row up to a position, and its removals.
Own(a, n) == {i \in 1..n : log[i].event.of = a}

Removals(a) == {i \in DOMAIN log : log[i].event.of = a /\ Removes(log[i].event)}

LEMMA LatestIsGreatest ==
  ASSUME NEW a, NEW n
  PROVE  /\ Latest(a, n) = Greatest(Own(a, n))
         /\ Latest(a, n)' = Greatest(Own(a, n)')
BY DEF Latest, Greatest, Own

\* A row that is shown has an event, and its last one does not remove it.
LEMMA VisibleIsUsed ==
  ASSUME IInv, NEW n \in 0..Len(log), NEW a \in Aggregates, Visible(RowsAt(n), a)
  PROVE  Latest(a, n) \in 1..n /\ log[Latest(a, n)].event.of = a
<1>1. log \in Seq(Entry) /\ Len(log) \in Nat /\ n \in Nat
  BY DEF IInv, Typed
<1>2. PICK s \in Seq(Entry) : s = SubSeq(log, 1, n) /\ Len(s) = n /\ \A i \in 1..n : s[i] = log[i]
  <2>1. \A i \in 1..Len(log) : log[i] \in Entry
    BY <1>1
  <2>2. SubSeq(log, 1, n) \in Seq(Entry) /\ Len(SubSeq(log, 1, n)) = n
        /\ \A i \in 1..n : SubSeq(log, 1, n)[i] = log[i]
    BY <1>1, <2>1
  <2>3. QED
    BY <2>2
<1>3. Exists(Project(Absent, s), a)
  BY <1>2 DEF Visible, RowsAt, Exists
<1>4. PICK j \in 1..n : log[j].event.of = a
  <2>1. PICK j \in 1..Len(s) : s[j].event.of = a
    BY <1>3, ExistsIffCreated
  <2>2. QED
    BY <1>2, <2>1
<1>5. Own(a, n) \subseteq 1..n /\ Own(a, n) # {}
  BY <1>4 DEF Own
<1>6. Latest(a, n) \in Own(a, n)
  BY <1>1, <1>5, GreatestIs, LatestIsGreatest
<1>7. QED
  BY <1>6 DEF Own

LEMMA RemovedIsHidden ==
  ASSUME NEW m \in [Aggregates -> Row], NEW e \in Planned, Removes(e)
  PROVE  ~Visible(Apply(m, e), e.of)
<1>1. e.of \in Aggregates /\ m[e.of] \in Row
  BY DEF Planned
<1>2. QED
  BY <1>1 DEF Apply, Creates, Created, Exists, Removes, Visible, Row

LEMMA UpdateKeepsVisible ==
  ASSUME NEW m \in [Aggregates -> Row], NEW e \in Planned, ~Removes(e), NEW a \in Aggregates,
         Visible(m, a)
  PROVE  Visible(Apply(m, e), a)
<1>1. e.of \in Aggregates /\ m[e.of] \in Row /\ m[a] \in Row
  BY DEF Planned
<1>2. QED
  BY <1>1 DEF Apply, Creates, Created, Exists, Removes, Visible, Row

\* The rows after each event of the log.
LEMMA RowsAfter ==
  ASSUME IInv, NEW n \in 1..Len(log)
  PROVE  /\ log[n].event \in Planned
         /\ RowsAt(n - 1) \in [Aggregates -> Row] /\ RowsAt(n) \in [Aggregates -> Row]
         /\ RowsAt(n) = Apply(RowsAt(n - 1), log[n].event)
<1>1. log \in Seq(Entry) /\ Len(log) \in Nat /\ \A i \in 1..Len(log) : log[i] \in Entry
  BY DEF IInv, Typed
<1>2. SubSeq(log, 1, n) \in Seq(Entry) /\ SubSeq(log, 1, n - 1) \in Seq(Entry)
  BY <1>1
<1>3. RowsAt(n - 1) \in [Aggregates -> Row] /\ RowsAt(n) \in [Aggregates -> Row]
  BY <1>2, AbsentTyped, ProjectTyped DEF RowsAt
<1>4. QED
  BY <1>1, <1>3, ProjectPrefix DEF RowsAt, Entry

LEMMA ShownIs ==
  ASSUME NEW a, NEW n
  PROVE  ShownAt(a, n) = IF Visible(RowsAt(n), a) THEN Latest(a, n) ELSE 0
BY DEF ShownAt, RowsAt, Absent

LEMMA LatestKept ==
  ASSUME IInv, NEW new \in Seq(Entry), log' = log \o new, NEW n \in 0..Len(log), NEW a
  PROVE  Latest(a, n)' = Latest(a, n)
<1>1. \A i \in 1..n : log'[i] = log[i]
  BY EarlierEntries
<1>2. Own(a, n)' = Own(a, n)
  BY <1>1 DEF Own
<1>3. QED
  BY <1>2, LatestIsGreatest

LEMMA ShownAtKept ==
  ASSUME IInv, NEW new \in Seq(Entry), log' = log \o new, NEW n \in 0..Len(log), NEW a
  PROVE  ShownAt(a, n)' = ShownAt(a, n)
<1>1. Latest(a, n)' = Latest(a, n) /\ RowsAt(n)' = RowsAt(n)
  BY LatestKept, RowsAtKept
<1>2. QED
  BY <1>1 DEF ShownAt, RowsAt, Absent

\* The shell on disk shows every row as it is at the end of the log.
LEMMA ShellIs ==
  ASSUME EngineInv
  PROVE  /\ Shell \in [Aggregates -> 0..Len(log)]
         /\ \A a \in Aggregates : Shell[a] = ShownAt(a, Len(log))
         /\ \A a \in Aggregates : Shell[a] # 0 <=> Visible(rows, a)
         /\ \A a \in Aggregates : Shell[a] # 0 => Shell[a] = Latest(a, Len(log))
<1>1. Len(log) \in Nat /\ rows = RowsAt(Len(log))
  BY Numbers, WholeLog DEF EngineInv, RowsInv
<1>2. ASSUME NEW a \in Aggregates, Visible(rows, a) PROVE Latest(a, Len(log)) \in 1..Len(log)
  <2>1. Len(log) \in 0..Len(log)
    BY <1>1
  <2>2. QED
    BY <1>1, <1>2, <2>1, VisibleIsUsed DEF EngineInv
<1>3. QED
  BY <1>1, <1>2, ShownIs DEF Shell

LEMMA PublishedAreEntries ==
  ASSUME EngineInv
  PROVE  /\ published \in Seq(Nat) /\ Len(published) \in Nat
         /\ \A i \in 1..Len(published) :
              published[i] \in 1..Len(log) /\ published[i] <= readModel.seq
<1>1. PICK startup \in 0..readModel.seq : Covers(startup)
  BY DEF EngineInv, Streamed
<1>2. readModel.seq \in Nat /\ readModel.seq <= Len(log) /\ Len(log) \in Nat
  BY Numbers DEF EngineInv, Streamed, Placed
<1>3. published \in Seq(Nat) /\ Len(published) \in Nat
  BY DEF EngineInv, Streamed, InOrder
<1>4. ASSUME NEW i \in 1..Len(published)
      PROVE  published[i] \in 1..Len(log) /\ published[i] <= readModel.seq
  <2>1. published[i] \in Announced
    BY <1>3 DEF Announced, Items
  <2>2. published[i] \in (startup + 1)..readModel.seq
    BY <1>1, <2>1 DEF Covers
  <2>3. QED
    BY <1>2, <2>2
<1>5. QED
  BY <1>3, <1>4

\* The engine's own steps only lengthen the hot stream.
LEMMA StreamLengthens ==
  ASSUME EngineInv, EngineSteps
  PROVE  /\ Len(published') \in Nat /\ Len(published) <= Len(published')
         /\ \A i \in 1..Len(published) : published'[i] = published[i]
<1>1. published \in Seq(Nat) /\ Len(published) \in Nat
  BY PublishedAreEntries
<1>2. CASE Publish
  <2>1. worker.pending \in Seq(Nat) /\ worker.pending # <<>>
        /\ published' = Append(published, Head(worker.pending))
    BY <1>2, Numbers DEF Publish, EngineInv
  <2>2. Head(worker.pending) \in Nat
    BY <2>1
  <2>3. QED
    BY <1>1, <2>1, <2>2
<1>3. CASE published' = published
  BY <1>1, <1>3
<1>4. CASE \E c \in Commands : Dispatch(c)
  BY <1>3, <1>4 DEF Dispatch
<1>5. CASE Work
  <2>1. CASE Take \/ FindReceipt \/ Reject \/ Commit \/ Reconcile \/ FileRejection \/ Answer
    BY <1>3, <2>1 DEF Take, FindReceipt, Reject, Commit, Reconcile, FileRejection, Answer
  <2>2. QED
    BY <1>2, <1>5, <2>1 DEF Work
<1>6. CASE ReceiptUnreadable \/ RollBack \/ CommitInDoubt \/ ReconcileFails \/ RejectionUnfiled
  BY <1>3, <1>6 DEF ReceiptUnreadable, RollBack, CommitInDoubt, ReconcileFails, RejectionUnfiled
<1>7. QED
  BY <1>4, <1>5, <1>6 DEF EngineSteps

-----------------------------------------------------------------------------
(* The page *)

Subscription == [pc : {"off", "snapshot", "live"}, seq : Nat, shell : [Aggregates -> Nat],
                 next : Nat]

PageTyped ==
  /\ stream \in Subscription
  /\ view \in [Aggregates -> Nat]
  /\ version \in 0..Len(log)
  /\ stream.seq \in 0..Len(log)
  /\ stream.pc = "live" => stream.next \in 1..(Len(published) + 1)

\* A snapshot shows every row as it was when the snapshot was read.
SnapshotShown ==
  stream.pc # "off" => \A a \in Aggregates : stream.shell[a] = ShownAt(a, stream.seq)

PageInv == PageTyped /\ SnapshotShown

LEMMA OffIs == Off \in Subscription /\ Off.pc = "off" /\ Off.seq = 0
BY DEF Off, Subscription

LEMMA SubscriptionMoves ==
  ASSUME NEW s \in Subscription, NEW n \in Nat
  PROVE  /\ [s EXCEPT !.next = n] \in Subscription
         /\ [s EXCEPT !.next = n].pc = s.pc /\ [s EXCEPT !.next = n].seq = s.seq
         /\ [s EXCEPT !.next = n].shell = s.shell /\ [s EXCEPT !.next = n].next = n
BY DEF Subscription

LEMMA SubscriptionStarts ==
  ASSUME NEW s \in Subscription
  PROVE  /\ [s EXCEPT !.pc = "live"] \in Subscription
         /\ [s EXCEPT !.pc = "live"].pc = "live" /\ [s EXCEPT !.pc = "live"].seq = s.seq
         /\ [s EXCEPT !.pc = "live"].shell = s.shell
BY DEF Subscription

LEMMA PageInitially == ShellInit => PageInv
<1> SUFFICES ASSUME ShellInit PROVE PageInv
  OBVIOUS
<1>1. Len(log) \in Nat
  BY ShellInitEngine, Numbers DEF EngineInv
<1>2. stream = Off /\ view = [a \in Aggregates |-> 0] /\ version = 0
  BY DEF ShellInit, NoVersion
<1>3. QED
  BY <1>1, <1>2, OffIs DEF PageInv, PageTyped, SnapshotShown

\* The snapshot is of the past, which does not change.
LEMMA SnapshotKept ==
  ASSUME EngineInv, PageInv, NEW new \in Seq(Entry), log' = log \o new,
         UNCHANGED <<stream, view, version>>,
         Len(published') \in Nat, Len(published) <= Len(published')
  PROVE  PageInv'
<1>1. Len(log) \in Nat /\ Len(log') \in Nat /\ Len(log) <= Len(log')
  BY EarlierEntries DEF EngineInv
<1>2. Len(published) \in Nat
  BY PublishedAreEntries
<1>3. PageTyped'
  BY <1>1, <1>2 DEF PageInv, PageTyped
<1>4. PICK n \in 0..Len(log) : n = stream.seq
  BY DEF PageInv, PageTyped
<1>5. ASSUME stream.pc # "off", NEW a \in Aggregates PROVE stream.shell[a] = ShownAt(a, n)'
  <2>1. ShownAt(a, n)' = ShownAt(a, n)
    BY ShownAtKept DEF EngineInv
  <2>2. QED
    BY <1>4, <1>5, <2>1 DEF PageInv, SnapshotShown
<1>6. \A a \in Aggregates : ShownAt(a, stream.seq)' = ShownAt(a, n)'
  BY <1>4 DEF ShownAt, Latest
<1>7. SnapshotShown'
  BY <1>5, <1>6 DEF SnapshotShown
<1>8. QED
  BY <1>3, <1>7 DEF PageInv

\* Whether a forwarded event is applied.
Handles(n) == Forwards(log[n].event) /\ n > version

LEMMA DeliverEffect ==
  ASSUME EngineInv, PageInv, Deliver
  PROVE  \E n \in 1..Len(log) :
           /\ stream.next \in 1..Len(published) /\ n = published[stream.next]
           /\ log[n].event \in Planned /\ log[n].event.of \in Aggregates
           /\ IF Handles(n)
              THEN view' = [view EXCEPT ![log[n].event.of] = Shown(log[n].event)] /\ version' = n
              ELSE UNCHANGED <<view, version>>
<1>1. stream.next \in 1..Len(published)
  BY PublishedAreEntries DEF Deliver, PageInv, PageTyped
<1>2. PICK n \in 1..Len(log) : n = published[stream.next]
  BY <1>1, PublishedAreEntries
<1>3. log[n].event \in Planned /\ log[n].event.of \in Aggregates
  BY RowsAfter DEF EngineInv, Planned
<1>4. QED
  BY <1>1, <1>2, <1>3 DEF Deliver, Handles

\* What the store takes over of an event is how its row is shown, at the event or now.
LEMMA ShownWhenHandled ==
  ASSUME EngineInv, NEW n \in 1..Len(log), Forwards(log[n].event),
         NEW a, a = log[n].event.of
  PROVE  /\ Shown(log[n].event) \in Nat
         /\ \E k \in n..Len(log) : Shown(log[n].event) = ShownAt(a, k)
<1>1. Len(log) \in Nat /\ a \in Aggregates
  BY Numbers, RowsAfter DEF EngineInv, Planned
<1>2. CASE Removes(log[n].event)
  <2>1. ~Visible(RowsAt(n), a)
    BY <1>2, RowsAfter, RemovedIsHidden DEF EngineInv
  <2>2. ShownAt(a, n) = 0 /\ n \in n..Len(log)
    BY <1>1, <2>1, ShownIs
  <2>3. QED
    BY <1>2, <2>2 DEF Shown
<1>3. CASE ~Removes(log[n].event)
  <2>1. Visible(rows, a)
    BY <1>3 DEF Forwards
  <2>2. Shell[a] = Latest(a, Len(log)) /\ Shell[a] = ShownAt(a, Len(log)) /\ Shell[a] \in Nat
    BY <1>1, <2>1, ShellIs
  <2>3. Len(log) \in n..Len(log)
    BY <1>1
  <2>4. QED
    BY <1>3, <2>2, <2>3 DEF Shown
<1>4. QED
  BY <1>2, <1>3

LEMMA PageNext == ASSUME EngineInv, PageInv, [ShellNext]_systemVars PROVE PageInv'
<1>0. Len(log) \in Nat /\ published \in Seq(Nat) /\ Len(published) \in Nat /\ log \in Seq(Entry)
  BY Numbers, PublishedAreEntries DEF EngineInv, IInv, Typed
<1>1. CASE EngineSteps
  <2>1. UNCHANGED <<stream, view, version>>
    BY <1>1 DEF EngineSteps, page
  <2>2. PICK new \in Seq(Entry) : log' = log \o new
    BY <1>1, StepsOfEngine, LogExtends
  <2>3. QED
    BY <1>1, <2>1, <2>2, StreamLengthens, SnapshotKept
<1>2. CASE ServerRestarts
  <2>1. stream' = Off /\ UNCHANGED <<view, version, log>>
    BY <1>2 DEF ServerRestarts, Restart, tables
  <2>2. QED
    BY <1>0, <2>1, OffIs DEF PageInv, PageTyped, SnapshotShown
<1>3. CASE Subscribe
  <2>1. /\ stream' = [pc |-> "snapshot", seq |-> Len(log), shell |-> Shell, next |-> 0]
        /\ UNCHANGED <<view, version, log, published>>
    BY <1>3 DEF Subscribe, vars, tables, memory
  <2>2. Shell \in [Aggregates -> Nat]
    BY <1>0, ShellIs
  <2>3. PageTyped'
    BY <1>0, <2>1, <2>2 DEF PageInv, PageTyped, Subscription
  <2>4. \A a \in Aggregates : Shell[a] = ShownAt(a, Len(log))
    BY ShellIs
  <2>5. \A a \in Aggregates : ShownAt(a, stream.seq)' = ShownAt(a, Len(log))
    BY <2>1 DEF ShownAt, Latest
  <2>6. SnapshotShown'
    BY <2>1, <2>4, <2>5 DEF SnapshotShown
  <2>7. QED
    BY <2>3, <2>6 DEF PageInv
<1>4. CASE Attach
  <2>1. /\ stream.pc = "snapshot" /\ UNCHANGED <<log, published>>
        /\ stream' = [stream EXCEPT !.pc = "live", !.next = Len(published) + 1]
        /\ \/ view' = stream.shell /\ version' = stream.seq
           \/ UNCHANGED <<view, version>>
    BY <1>4 DEF Attach, ApplySnapshot, vars, tables, memory
  <2>2. /\ stream' \in Subscription /\ stream'.pc = "live" /\ stream'.next = Len(published) + 1
        /\ stream'.seq = stream.seq /\ stream'.shell = stream.shell
    <3>1. PICK s : s = [stream EXCEPT !.pc = "live"]
      OBVIOUS
    <3>2. /\ s \in Subscription /\ s.pc = "live" /\ s.seq = stream.seq /\ s.shell = stream.shell
          /\ Len(published) + 1 \in Nat
      BY <1>0, <3>1, SubscriptionStarts DEF PageInv, PageTyped
    <3>3. stream' = [s EXCEPT !.next = Len(published) + 1]
      BY <2>1, <3>1
    <3>4. QED
      BY <3>2, <3>3, SubscriptionMoves
  <2>3. stream.shell \in [Aggregates -> Nat]
    BY DEF PageInv, PageTyped, Subscription
  <2>4. PageTyped'
    BY <1>0, <2>1, <2>2, <2>3 DEF PageInv, PageTyped
  <2>5. \A a \in Aggregates : ShownAt(a, stream.seq)' = ShownAt(a, stream.seq)
    BY <2>1, <2>2 DEF ShownAt, Latest
  <2>6. SnapshotShown'
    BY <2>1, <2>2, <2>5 DEF PageInv, SnapshotShown
  <2>7. QED
    BY <2>4, <2>6 DEF PageInv
<1>5. CASE Deliver \/ DeliverUnreadable
  <2>1. /\ stream.pc = "live" /\ UNCHANGED <<log, published>>
        /\ stream.next <= Len(published) /\ stream' = [stream EXCEPT !.next = @ + 1]
    BY <1>5 DEF Deliver, DeliverUnreadable, vars, tables, memory
  <2>2. /\ stream' \in Subscription /\ stream'.pc = "live"
        /\ stream'.next \in 1..(Len(published) + 1)
        /\ stream'.seq = stream.seq /\ stream'.shell = stream.shell
    <3>1. stream \in Subscription /\ stream.next + 1 \in Nat
          /\ stream.next + 1 \in 1..(Len(published) + 1)
      BY <1>0, <2>1 DEF PageInv, PageTyped
    <3>2. QED
      BY <2>1, <3>1, SubscriptionMoves
  <2>3. view' \in [Aggregates -> Nat] /\ version' \in 0..Len(log)
    <3>1. CASE UNCHANGED <<view, version>>
      BY <3>1 DEF PageInv, PageTyped
    <3>2. CASE Deliver
      <4>1. PICK n \in 1..Len(log) :
              IF Handles(n)
              THEN view' = [view EXCEPT ![log[n].event.of] = Shown(log[n].event)] /\ version' = n
              ELSE UNCHANGED <<view, version>>
        BY <3>2, DeliverEffect
      <4>2. ASSUME Handles(n) PROVE Shown(log[n].event) \in Nat
        BY <4>2, ShownWhenHandled DEF Handles
      <4>3. CASE Handles(n)
        BY <1>0, <4>1, <4>2, <4>3 DEF PageInv, PageTyped
      <4>4. QED
        BY <3>1, <4>1, <4>3
    <3>3. QED
      BY <1>5, <3>1, <3>2 DEF DeliverUnreadable
  <2>4. PageTyped'
    BY <1>0, <2>1, <2>2, <2>3 DEF PageInv, PageTyped
  <2>5. \A a \in Aggregates : ShownAt(a, stream.seq)' = ShownAt(a, stream.seq)
    BY <2>1, <2>2 DEF ShownAt, Latest
  <2>6. SnapshotShown'
    BY <2>1, <2>2, <2>5 DEF PageInv, SnapshotShown
  <2>7. QED
    BY <2>4, <2>6 DEF PageInv
<1>6. CASE Disconnect
  <2>1. stream' = Off /\ UNCHANGED <<view, version, log>>
    BY <1>6 DEF Disconnect, vars, tables
  <2>2. QED
    BY <1>0, <2>1, OffIs DEF PageInv, PageTyped, SnapshotShown
<1>7. CASE UNCHANGED systemVars
  <2>1. UNCHANGED <<stream, view, version, log, published>>
    BY <1>7 DEF systemVars, vars, tables, memory, page
  <2>2. PageTyped'
    BY <2>1 DEF PageInv, PageTyped
  <2>3. SnapshotShown'
    BY <2>1 DEF PageInv, SnapshotShown, ShownAt, Latest
  <2>4. QED
    BY <2>2, <2>3 DEF PageInv
<1>8. QED
  BY <1>1, <1>2, <1>3, <1>4, <1>5, <1>6, <1>7 DEF ShellNext

\* The page leaves the engine's invariant alone, and a snapshot shows the rows as they were
\* when it was read in one transaction.
THEOREM ShellSpecPageInv == ShellSpec => [](EngineInv /\ PageInv)
<1>1. QED
  BY ShellInitEngine, PageInitially, ShellKeepsEngine, PageNext, PTL DEF ShellSpec

\* Whenever the page changes what it shows of a row, it shows the row as it stood at some
\* point not before the version it then claims: what a newer snapshot has overtaken neither
\* brings a thread back nor removes it.
THEOREM StoreNeverGoesBack == ShellSpec => StoreMovesForward
<1>1. ASSUME EngineInv, PageInv, [ShellNext]_systemVars,
             NEW a \in Aggregates, view'[a] # view[a]
      PROVE  \E n \in version'..Len(log) : view'[a] = ShownAt(a, n)
  <2>1. CASE Attach
    <3>1. view' = stream.shell /\ version' = stream.seq /\ stream.pc # "off"
      BY <1>1, <2>1 DEF Attach, ApplySnapshot
    <3>2. stream.seq \in stream.seq..Len(log)
      BY <1>1, Numbers DEF PageInv, PageTyped, EngineInv
    <3>3. QED
      BY <1>1, <3>1, <3>2 DEF PageInv, SnapshotShown
  <2>2. CASE Deliver
    <3>1. PICK n \in 1..Len(log) :
            IF Handles(n)
            THEN view' = [view EXCEPT ![log[n].event.of] = Shown(log[n].event)] /\ version' = n
            ELSE UNCHANGED <<view, version>>
      BY <1>1, <2>2, DeliverEffect
    <3>2. Handles(n) /\ version' = n
      BY <1>1, <3>1
    <3>3. view \in [Aggregates -> Nat]
      BY <1>1 DEF PageInv, PageTyped
    <3>4. a = log[n].event.of /\ view'[a] = Shown(log[n].event)
      BY <1>1, <3>1, <3>2, <3>3
    <3>5. QED
      BY <1>1, <3>2, <3>4, ShownWhenHandled DEF Handles
  <2>3. CASE view' = view
    BY <1>1, <2>3
  <2>4. QED
    BY <1>1, <2>1, <2>2, <2>3
       DEF ShellNext, EngineSteps, ServerRestarts, Subscribe, DeliverUnreadable, Disconnect,
           systemVars, page
<1>2. ASSUME EngineInv, PageInv, [ShellNext]_systemVars
      PROVE  [\A a \in Aggregates :
                view'[a] # view[a] => \E n \in version'..Len(log) : view'[a] = ShownAt(a, n)]_view
  BY <1>1, <1>2
<1>3. QED
  BY <1>2, ShellSpecPageInv, PTL DEF ShellSpec, StoreMovesForward

-----------------------------------------------------------------------------
(* What the engine still has to tell its clients *)

\* An event the worker has yet to publish, or to read back.
Waiting(m) == \/ m \in Items(worker.pending)
              \/ worker.pc = "reconcile" /\ m > readModel.seq

\* An event the stream brings, counted from position k of it, unless it was missed.
Carried(k, m) == \/ m \in missed
                 \/ Waiting(m)
                 \/ \E i \in 1..Len(published) : i >= k /\ published[i] = m

\* What a step of the engine keeps: an event that is on its way stays so or is missed, what
\* the read model is ahead of stays missed, and a new event is on its way.
Carries ==
  /\ \A k \in 1..(Len(published) + 1), m \in 1..Len(log) : Carried(k, m) => Carried(k, m)'
  /\ \A m \in missed : m <= readModel.seq => m \in missed' /\ m <= readModel'.seq
  /\ \A m \in (Len(log) + 1)..Len(log') : Waiting(m)'

LEMMA QuietCarries ==
  ASSUME EngineInv, UNCHANGED <<log, readModel, missed, published>>,
         worker'.pending = worker.pending,
         worker.pc # "reconcile" \/ worker'.pc = "reconcile"
  PROVE  Carries
<1>1. Len(log) \in Nat /\ Len(log') = Len(log)
  BY Numbers DEF EngineInv
<1>2. \A m : Waiting(m) => Waiting(m)'
  BY DEF Waiting
<1>3. \A k, m : Carried(k, m) => Carried(k, m)'
  BY <1>2 DEF Carried
<1>4. QED
  BY <1>1, <1>3 DEF Carries

LEMMA QuietActionsCarry ==
  ASSUME EngineInv,
         \/ \E c \in Commands : Dispatch(c)
         \/ Take \/ FindReceipt \/ Reject \/ FileRejection \/ Answer
         \/ ReceiptUnreadable \/ RollBack \/ RejectionUnfiled
  PROVE  Carries
<1>1. UNCHANGED <<log, readModel, published, missed>>
  BY DEF Dispatch, Take, FindReceipt, Reject, FileRejection, Answer, ReceiptUnreadable, RollBack,
         RejectionUnfiled, tables, history
<1>2. worker \in Envelope /\ (worker.pc # "publish" => worker.pending = <<>>)
  BY Numbers DEF EngineInv, Streamed, Placed
<1>3. worker'.pending = worker.pending /\ (worker.pc # "reconcile" \/ worker'.pc = "reconcile")
  <2>1. CASE (\E c \in Commands : Dispatch(c)) \/ Take
    BY <1>2, <2>1 DEF Dispatch, Take
  <2>2. CASE FindReceipt \/ Reject \/ ReceiptUnreadable \/ RollBack
    BY <1>2, <2>2 DEF FindReceipt, Reject, ReceiptUnreadable, RollBack, Settle, Fail, Envelope
  <2>3. CASE FileRejection \/ RejectionUnfiled
    BY <1>2, <2>3 DEF FileRejection, RejectionUnfiled, Published, Settle, Envelope
  <2>4. CASE Answer
    BY <1>2, <2>4 DEF Answer, Published, Idle
  <2>5. QED
    BY <2>1, <2>2, <2>3, <2>4
<1>4. QED
  BY <1>1, <1>3, QuietCarries

LEMMA CommitCarries == ASSUME EngineInv, Commit PROVE Carries
<1>1. PICK events \in Plans(readModel.rows, body[worker.cmd]) : Persist(events)
  BY DEF Commit
<1>2. /\ worker.pc = "decide" /\ UNCHANGED <<published, missed>> /\ readModel'.seq = Len(log')
      /\ worker'.pending = Positions(Len(log), Len(log')) /\ worker.pending = <<>>
  <2>1. /\ worker' = [worker EXCEPT !.pc = "publish", !.answer = "accepted",
                                    !.pending = Positions(Len(log), Len(log'))]
        /\ worker.pc = "decide" /\ UNCHANGED <<published, missed>>
        /\ readModel'.seq = Len(log')
    BY DEF Commit, history
  <2>2. worker \in Envelope
    BY Numbers DEF EngineInv
  <2>3. QED
    BY <2>1, <2>2 DEF Envelope, EngineInv, Streamed, Placed
<1>3. Len(log) \in Nat /\ Len(log') \in Nat /\ Len(log) <= Len(log')
      /\ readModel.seq \in Nat /\ readModel.seq <= Len(log)
  BY <1>1, <1>2, LogGrows, Numbers DEF EngineInv, Streamed, Placed
<1>4. Items(worker'.pending) = (Len(log) + 1)..Len(log')
  BY <1>2, <1>3, PositionsAscend
<1>5. \A m : ~Waiting(m)
  BY <1>2, NoItems DEF Waiting
<1>6. \A k, m : Carried(k, m) => Carried(k, m)'
  BY <1>2, <1>5 DEF Carried
<1>7. \A m \in missed : m <= readModel.seq => m \in missed' /\ m <= readModel'.seq
  <2>1. missed \subseteq Nat
    BY Numbers DEF EngineInv, Streamed, Covers
  <2>2. QED
    BY <1>2, <1>3, <2>1
<1>8. QED
  BY <1>4, <1>6, <1>7 DEF Carries, Waiting

LEMMA DoubtCarries == ASSUME EngineInv, CommitInDoubt PROVE Carries
<1>1. PICK events \in Plans(readModel.rows, body[worker.cmd]) : Persist(events)
  BY DEF CommitInDoubt
<1>2. /\ worker.pc = "decide" /\ UNCHANGED <<published, missed, readModel>>
      /\ worker'.pc = "reconcile" /\ worker'.pending = worker.pending
  BY Numbers DEF CommitInDoubt, history, Fail, Envelope, EngineInv
<1>3. Len(log) \in Nat /\ Len(log') \in Nat /\ readModel.seq \in Nat /\ readModel.seq <= Len(log)
  BY <1>1, <1>2, LogGrows, Numbers DEF EngineInv, Streamed, Placed
<1>4. \A m : Waiting(m) => Waiting(m)'
  BY <1>2 DEF Waiting
<1>5. \A k, m : Carried(k, m) => Carried(k, m)'
  BY <1>2, <1>4 DEF Carried
<1>6. \A m \in (Len(log) + 1)..Len(log') : Waiting(m)'
  BY <1>2, <1>3 DEF Waiting
<1>7. QED
  BY <1>2, <1>5, <1>6 DEF Carries

LEMMA PublishCarries == ASSUME EngineInv, Publish PROVE Carries
<1>1. /\ worker.pc = "publish" /\ UNCHANGED <<log, readModel, missed>>
      /\ worker.pending \in Seq(Nat) /\ worker.pending # <<>>
      /\ published' = Append(published, Head(worker.pending))
      /\ worker'.pending = Tail(worker.pending) /\ worker'.pc = "publish"
  BY Numbers DEF Publish, EngineInv, tables, history, Envelope
<1>2. Len(log) \in Nat /\ published \in Seq(Nat) /\ Len(published) \in Nat
  BY PublishedAreEntries, Numbers DEF EngineInv
<1>3. /\ Len(published') = Len(published) + 1
      /\ published'[Len(published) + 1] = worker.pending[1]
      /\ \A i \in 1..Len(published) : published'[i] = published[i]
  <2>1. Head(worker.pending) \in Nat /\ Head(worker.pending) = worker.pending[1]
    BY <1>1
  <2>2. QED
    BY <1>1, <1>2, <2>1
<1>4. ASSUME NEW m \in Items(worker.pending), m # worker.pending[1]
      PROVE  m \in Items(worker'.pending)
  <2>1. PICK i \in 1..Len(worker.pending) : worker.pending[i] = m
    BY <1>1 DEF Items
  <2>2. i # 1 /\ i - 1 \in 1..Len(Tail(worker.pending)) /\ Tail(worker.pending)[i - 1] = m
    BY <1>1, <1>4, <2>1
  <2>3. i - 1 \in DOMAIN worker'.pending /\ worker'.pending[i - 1] = m
    <3>1. Tail(worker.pending) \in Seq(Nat)
      BY <1>1
    <3>2. QED
      BY <1>1, <2>2, <3>1
  <2>4. QED
    BY <2>3 DEF Items
<1>5. ASSUME NEW k \in 1..(Len(published) + 1), NEW m, Carried(k, m) PROVE Carried(k, m)'
  <2>1. CASE m \in missed
    BY <1>1, <2>1 DEF Carried
  <2>2. CASE m \in Items(worker.pending) /\ m # worker.pending[1]
    BY <1>4, <2>2 DEF Carried, Waiting
  <2>3. CASE m = worker.pending[1]
    <3>1. Len(published) + 1 \in 1..Len(published') /\ Len(published) + 1 >= k
      BY <1>2, <1>3
    <3>2. QED
      BY <1>3, <2>3, <3>1 DEF Carried
  <2>4. CASE \E i \in 1..Len(published) : i >= k /\ published[i] = m
    <3>1. PICK i \in 1..Len(published) : i >= k /\ published[i] = m
      BY <2>4
    <3>2. i \in 1..Len(published') /\ published'[i] = m
      BY <1>2, <1>3, <3>1
    <3>3. QED
      BY <3>1, <3>2 DEF Carried
  <2>5. QED
    BY <1>1, <1>5, <2>1, <2>2, <2>3, <2>4 DEF Carried, Waiting
<1>6. Len(log') = Len(log) /\ readModel' = readModel /\ missed' = missed
  BY <1>1
<1>7. QED
  BY <1>2, <1>5, <1>6 DEF Carries

LEMMA ReconcileCarries == ASSUME EngineInv, Reconcile \/ ReconcileFails PROVE Carries
<1>1. /\ worker.pc = "reconcile" /\ UNCHANGED <<log, published>> /\ worker.pending = <<>>
      /\ worker.start = readModel.seq /\ worker \in Envelope
      /\ readModel.seq \in Nat /\ readModel.seq <= Len(log) /\ Len(log) \in Nat
  BY Numbers DEF Reconcile, ReconcileFails, tables, EngineInv, Streamed, Placed
<1>2. missed \subseteq Nat
  BY Numbers DEF EngineInv, Streamed, Covers
<1>3. CASE Reconcile
  <2>1. /\ worker'.pending = Positions(readModel.seq, Len(log))
        /\ missed' = missed \ ((readModel.seq + 1)..Len(log))
    BY <1>1, <1>3 DEF Reconcile, Envelope
  <2>2. readModel'.seq \in {readModel.seq, Len(log)}
    BY <1>3 DEF Reconcile
  <2>3. Items(worker'.pending) = (readModel.seq + 1)..Len(log)
    BY <1>1, <2>1, PositionsAscend
  <2>4. ASSUME NEW k, NEW m \in 1..Len(log), Carried(k, m) PROVE Carried(k, m)'
    <3>1. CASE m > readModel.seq
      BY <1>1, <2>3, <3>1 DEF Carried, Waiting
    <3>2. CASE m <= readModel.seq
      <4>1. ~Waiting(m)
        BY <1>1, <3>2, NoItems DEF Waiting
      <4>2. m \in missed => m \in missed'
        BY <1>1, <2>1, <3>2
      <4>3. QED
        BY <1>1, <2>4, <4>1, <4>2 DEF Carried
    <3>3. QED
      BY <1>1, <3>1, <3>2
  <2>5. ASSUME NEW m \in missed, m <= readModel.seq PROVE m \in missed' /\ m <= readModel'.seq
    BY <1>1, <1>2, <2>1, <2>2, <2>5
  <2>6. Len(log') = Len(log)
    BY <1>1
  <2>7. QED
    BY <1>1, <2>4, <2>5, <2>6 DEF Carries
<1>4. CASE ReconcileFails
  <2>1. readModel' = readModel /\ missed' = missed \cup ((readModel.seq + 1)..Len(log))
        /\ worker'.pending = worker.pending
    BY <1>1, <1>4 DEF ReconcileFails, Envelope
  <2>2. ASSUME NEW k, NEW m \in 1..Len(log), Carried(k, m) PROVE Carried(k, m)'
    <3>1. CASE m > readModel.seq
      BY <1>1, <2>1, <3>1 DEF Carried
    <3>2. CASE m <= readModel.seq
      <4>1. ~Waiting(m)
        BY <1>1, <3>2, NoItems DEF Waiting
      <4>2. QED
        BY <1>1, <2>1, <2>2, <4>1 DEF Carried
    <3>3. QED
      BY <1>1, <3>1, <3>2
  <2>3. Len(log') = Len(log)
    BY <1>1
  <2>4. QED
    BY <1>1, <2>1, <2>2, <2>3 DEF Carries
<1>5. QED
  BY <1>3, <1>4

LEMMA EngineCarries == ASSUME EngineInv, EngineSteps PROVE Carries
BY QuietActionsCarry, CommitCarries, DoubtCarries, PublishCarries, ReconcileCarries
   DEF EngineSteps, Work

-----------------------------------------------------------------------------
(* The event that decides how a row is shown *)

LEMMA DecisiveIs ==
  ASSUME NEW a
  PROVE  /\ Decisive(a) = IF Shell[a] # 0 THEN Greatest(Own(a, Len(log))) ELSE Greatest(Removals(a))
         /\ Decisive(a)' = IF Shell'[a] # 0
                           THEN Greatest(Own(a, Len(log))') ELSE Greatest(Removals(a)')
BY DEF Decisive, Latest, Greatest, Own, Removals

\* What is shown now was not removed by its last event.
LEMMA VisibleNotRemoved ==
  ASSUME EngineInv, NEW a \in Aggregates, Visible(rows, a), NEW d \in 1..Len(log),
         log[d].event.of = a, \A j \in 1..Len(log) : log[j].event.of = a => j <= d
  PROVE  ~Removes(log[d].event)
<1> SUFFICES ASSUME Removes(log[d].event) PROVE FALSE
  OBVIOUS
<1>1. log \in Seq(Entry) /\ Len(log) \in Nat /\ rows = Project(Absent, log)
  BY DEF EngineInv, IInv, Typed, RowsInv
<1>2. PICK pre \in Seq(Entry), post \in Seq(Entry) :
        /\ Len(post) = Len(log) - d
        /\ \A i \in 1..Len(post) : post[i] = log[d + i]
        /\ rows = Project(Apply(Project(Absent, pre), log[d].event), post)
  BY <1>1, ProjectAround
<1>3. log[d].event \in Planned /\ Project(Absent, pre) \in [Aggregates -> Row]
  BY RowsAfter, AbsentTyped, ProjectTyped DEF EngineInv
<1> DEFINE then == Apply(Project(Absent, pre), log[d].event)
<1>4. then \in [Aggregates -> Row] /\ ~Visible(then, a)
  BY <1>3, ApplyTyped, RemovedIsHidden
<1>5. ASSUME NEW i \in 1..Len(post) PROVE post[i].event.of # a
  <2>1. d + i \in 1..Len(log) /\ ~(d + i <= d)
    BY <1>1, <1>2
  <2>2. QED
    BY <1>2, <2>1
<1> HIDE DEF then
<1>6. Project(then, post)[a] = then[a]
  BY <1>4, <1>5, ProjectUntouched
<1>7. QED
  BY <1>2, <1>4, <1>6 DEF Visible, then

LEMMA DecisiveFacts ==
  ASSUME EngineInv, NEW a \in Aggregates
  PROVE  /\ Decisive(a) \in 0..Len(log)
         /\ Decisive(a) # 0 => log[Decisive(a)].event.of = a
         /\ Decisive(a) # 0 /\ Shell[a] = 0 => Removes(log[Decisive(a)].event)
         /\ Shell[a] # 0 =>
              /\ Decisive(a) = Latest(a, Len(log)) /\ Decisive(a) # 0
              /\ ~Removes(log[Decisive(a)].event)
              /\ \A j \in 1..Len(log) : log[j].event.of = a => j <= Decisive(a)
<1>1. log \in Seq(Entry) /\ Len(log) \in Nat
  BY DEF EngineInv, IInv, Typed
<1>2. Own(a, Len(log)) \subseteq 1..Len(log) /\ Removals(a) \subseteq 1..Len(log)
  BY <1>1 DEF Own, Removals
<1>3. CASE Shell[a] = 0
  <2>1. Decisive(a) = Greatest(Removals(a))
    BY <1>3, DecisiveIs
  <2>2. Decisive(a) \in 0..Len(log) /\ (Removals(a) # {} => Decisive(a) \in Removals(a))
    BY <1>1, <1>2, <2>1, GreatestIs
  <2>3. Removals(a) = {} => Decisive(a) = 0
    BY <2>1 DEF Greatest
  <2>4. QED
    BY <1>3, <2>2, <2>3 DEF Removals
<1>4. CASE Shell[a] # 0
  <2>1. Decisive(a) = Greatest(Own(a, Len(log))) /\ Decisive(a) = Latest(a, Len(log))
    BY <1>4, DecisiveIs, LatestIsGreatest
  <2>2. Visible(rows, a) /\ Decisive(a) # 0
    BY <1>4, <2>1, ShellIs
  <2>3. Own(a, Len(log)) # {}
    BY <2>1, <2>2 DEF Greatest
  <2>4. Decisive(a) \in Own(a, Len(log)) /\ \A j \in Own(a, Len(log)) : j <= Decisive(a)
    BY <1>1, <1>2, <2>1, <2>3, GreatestIs
  <2>5. /\ Decisive(a) \in 1..Len(log) /\ log[Decisive(a)].event.of = a
        /\ \A j \in 1..Len(log) : log[j].event.of = a => j <= Decisive(a)
    BY <2>4 DEF Own
  <2>6. PICK d \in 1..Len(log) : d = Decisive(a)
    BY <2>5
  <2>7. ~Removes(log[d].event)
    BY <2>2, <2>5, <2>6, VisibleNotRemoved
  <2>8. QED
    BY <1>4, <2>1, <2>2, <2>5, <2>6, <2>7
<1>5. QED
  BY <1>3, <1>4

\* A row with an event is shown when its state says so.
LEMMA UsedIsShown ==
  ASSUME NEW a \in Aggregates, Len(log') \in Nat, Visible(rows', a),
         NEW i \in 1..Len(log'), log'[i].event.of = a
  PROVE  Shell'[a] # 0
<1>1. Own(a, Len(log))' \subseteq 1..Len(log') /\ i \in Own(a, Len(log))'
  BY DEF Own
<1>2. Greatest(Own(a, Len(log))') \in 1..Len(log')
  BY <1>1, GreatestIs
<1>3. Shell'[a] = Greatest(Own(a, Len(log))')
  BY DEF Shell, Latest, Greatest, Own
<1>4. QED
  BY <1>2, <1>3

\* What a transaction changes of a row is decided by one of its events.
LEMMA DecisiveMoves ==
  ASSUME EngineInv, NEW new \in Seq(Entry), log' = log \o new, rows' = Project(rows, new),
         NEW a \in Aggregates
  PROVE  \/ Decisive(a)' = Decisive(a) /\ Shell'[a] = Shell[a]
         \/ Decisive(a)' \in (Len(log) + 1)..Len(log')
<1>1. /\ Len(log) \in Nat /\ Len(new) \in Nat /\ Len(log') = Len(log) + Len(new)
      /\ log \in Seq(Entry) /\ log' \in Seq(Entry)
      /\ \A i \in 1..Len(log) : log'[i] = log[i]
      /\ \A i \in 1..Len(new) : log'[Len(log) + i] = new[i]
  BY EarlierEntries DEF EngineInv
<1>2. /\ \A i \in 1..Len(log') : i \in 1..Len(log) \/ i - Len(log) \in 1..Len(new)
      /\ \A i \in 1..Len(log) : i \in 1..Len(log')
      /\ \A i \in 1..Len(new) : Len(log) + i \in (Len(log) + 1)..Len(log')
  BY <1>1
<1>3. rows \in [Aggregates -> Row]
  BY <1>1, AbsentTyped, ProjectTyped DEF EngineInv, RowsInv
<1>4. /\ Own(a, Len(log))' \subseteq 1..Len(log') /\ Removals(a)' \subseteq 1..Len(log')
      /\ Len(log') \in Nat
  BY <1>1 DEF Own, Removals
<1>5. ASSUME NEW T, T \subseteq 1..Len(log'), NEW i \in 1..Len(new), Len(log) + i \in T
      PROVE  Greatest(T) \in (Len(log) + 1)..Len(log')
  <2>1. Greatest(T) \in 0..Len(log') /\ Len(log) + i <= Greatest(T)
    BY <1>4, <1>5, GreatestIs
  <2>2. QED
    BY <1>1, <2>1
<1>6. \A i \in 1..Len(log') : i \notin 1..Len(log) => log'[i] = new[i - Len(log)]
  <2> SUFFICES ASSUME NEW i \in 1..Len(log'), i \notin 1..Len(log)
               PROVE  log'[i] = new[i - Len(log)]
    OBVIOUS
  <2>1. i - Len(log) \in 1..Len(new) /\ Len(log) + (i - Len(log)) = i
    BY <1>1, <1>2
  <2>2. QED
    BY <1>1, <2>1
<1>7. CASE \A i \in 1..Len(new) : new[i].event.of # a
  <2>1. rows'[a] = rows[a]
    BY <1>3, <1>7, ProjectUntouched
  <2>2. Own(a, Len(log))' = Own(a, Len(log))
    <3>1. \A i \in 1..Len(log') : log'[i].event.of = a <=> i \in 1..Len(log) /\ log[i].event.of = a
      BY <1>1, <1>2, <1>6, <1>7
    <3>2. QED
      BY <1>2, <3>1 DEF Own
  <2>3. Removals(a)' = Removals(a)
    <3>1. \A i \in 1..Len(log') :
            (log'[i].event.of = a /\ Removes(log'[i].event))
              <=> i \in 1..Len(log) /\ log[i].event.of = a /\ Removes(log[i].event)
      BY <1>1, <1>2, <1>6, <1>7
    <3>2. DOMAIN log = 1..Len(log) /\ DOMAIN log' = 1..Len(log')
      BY <1>1
    <3>3. QED
      BY <1>2, <3>1, <3>2 DEF Removals
  <2>4. Shell[a] = (IF Visible(rows, a) THEN Greatest(Own(a, Len(log))) ELSE 0)
        /\ Shell'[a] = (IF Visible(rows', a) THEN Greatest(Own(a, Len(log))') ELSE 0)
    BY DEF Shell, Latest, Greatest, Own
  <2>5. Shell'[a] = Shell[a]
    BY <2>1, <2>2, <2>4 DEF Visible
  <2>6. QED
    BY <2>2, <2>3, <2>5, DecisiveIs
<1>8. CASE \E i \in 1..Len(new) : new[i].event.of = a
  <2>1. PICK i \in 1..Len(new) : new[i].event.of = a
    BY <1>8
  <2>2. CASE Shell'[a] # 0
    <3>1. Len(log) + i \in Own(a, Len(log))'
      <4>1. Len(log) + i \in 1..Len(log') /\ log'[Len(log) + i].event.of = a
        BY <1>1, <2>1
      <4>2. QED
        BY <4>1 DEF Own
    <3>2. QED
      BY <1>4, <1>5, <2>2, <3>1, DecisiveIs
  <2>3. CASE Shell'[a] = 0 /\ \E j \in 1..Len(new) : new[j].event.of = a /\ Removes(new[j].event)
    <3>1. PICK j \in 1..Len(new) : new[j].event.of = a /\ Removes(new[j].event)
      BY <2>3
    <3>2. Len(log) + j \in Removals(a)'
      <4>1. /\ Len(log) + j \in DOMAIN log' /\ log'[Len(log) + j].event.of = a
            /\ Removes(log'[Len(log) + j].event)
        BY <1>1, <3>1
      <4>2. QED
        BY <4>1 DEF Removals
    <3>3. QED
      BY <1>4, <1>5, <2>3, <3>2, DecisiveIs
  <2>4. CASE Shell'[a] = 0 /\ \A j \in 1..Len(new) : new[j].event.of = a => ~Removes(new[j].event)
    <3>1. ~Visible(rows, a)
      <4> SUFFICES ASSUME Visible(rows, a) PROVE FALSE
        OBVIOUS
      <4> DEFINE R == {k \in [Aggregates -> Row] : Visible(k, a)}
      <4>1. \A j \in 1..Len(new) : new[j].event \in Planned
        <5>1. \A j \in 1..Len(new) : new[j] \in Entry
          OBVIOUS
        <5>2. QED
          BY <5>1 DEF Entry
      <4>2. ASSUME NEW j \in 1..Len(new), NEW k \in R PROVE Apply(k, new[j].event) \in R
        <5>1. Apply(k, new[j].event) \in [Aggregates -> Row]
          BY <4>1, ApplyTyped
        <5>2. CASE new[j].event.of = a
          BY <2>4, <4>1, <5>1, <5>2, UpdateKeepsVisible
        <5>3. CASE new[j].event.of # a
          <6>1. Apply(k, new[j].event)[a] = k[a]
            BY <4>1, <5>3, ApplyRow
          <6>2. QED
            BY <5>1, <6>1 DEF Visible
        <5>4. QED
          BY <5>2, <5>3
      <4>3. rows \in R
        BY <1>3
      <4> HIDE DEF R
      <4>4. Project(rows, new) \in R
        BY <1>1, <4>2, <4>3, ProjectInduction
      <4>5. Visible(rows', a)
        BY <4>4 DEF R
      <4>6. Len(log) + i \in 1..Len(log') /\ log'[Len(log) + i].event.of = a
        BY <1>1, <2>1
      <4>7. QED
        BY <1>4, <2>4, <4>5, <4>6, UsedIsShown
    <3>2. Shell[a] = 0
      BY <3>1, ShellIs
    <3>3. Removals(a)' = Removals(a)
      <4>1. \A k \in 1..Len(log') :
              (log'[k].event.of = a /\ Removes(log'[k].event))
                <=> k \in 1..Len(log) /\ log[k].event.of = a /\ Removes(log[k].event)
        BY <1>1, <1>2, <1>6, <2>4
      <4>2. DOMAIN log = 1..Len(log) /\ DOMAIN log' = 1..Len(log')
        BY <1>1
      <4>3. QED
        BY <1>2, <4>1, <4>2 DEF Removals
    <3>4. QED
      BY <2>4, <3>2, <3>3, DecisiveIs
  <2>5. QED
    BY <2>2, <2>3, <2>4
<1>9. QED
  BY <1>7, <1>8

-----------------------------------------------------------------------------
(* The view follows the shell *)

\* A snapshot under way: what is decided by then it shows as it is now, and what came
\* behind it is on its way or on the stream.
SnapshotFits ==
  stream.pc = "snapshot" =>
    /\ \A a \in Aggregates : Decisive(a) <= stream.seq => stream.shell[a] = Shell[a]
    /\ \A m \in (stream.seq + 1)..Len(log) : Carried(1, m)

\* What the page's version covers is shown as it is, unless its event did not reach the page.
Seen ==
  \A a \in Aggregates : Decisive(a) <= version =>
    \/ view[a] = Shell[a]
    \/ Decisive(a) \in lost
    \/ Decisive(a) \in missed /\ Decisive(a) <= readModel.seq

\* What it does not cover is still to come.
StillToCome ==
  stream.pc = "live" =>
    \A a \in Aggregates : Decisive(a) > version =>
      Decisive(a) \in lost \/ Carried(stream.next, Decisive(a))

ViewInv == SnapshotFits /\ Seen /\ StillToCome

LEMMA ViewInitially == ShellInit => ViewInv
<1> SUFFICES ASSUME ShellInit PROVE ViewInv
  OBVIOUS
<1>1. EngineInv
  BY ShellInitEngine
<1>2. stream.pc = "off" /\ view = [a \in Aggregates |-> 0] /\ version = 0
  BY OffIs DEF ShellInit, NoVersion
<1>3. ASSUME NEW a \in Aggregates, Decisive(a) <= version PROVE view[a] = Shell[a]
  <2>1. Decisive(a) \in 0..Len(log)
    BY <1>1, DecisiveFacts
  <2>2. Decisive(a) = 0
    BY <1>2, <1>3, <2>1
  <2>3. Shell[a] = 0
    BY <1>1, <2>2, DecisiveFacts
  <2>4. QED
    BY <1>2, <2>3
<1>4. QED
  BY <1>2, <1>3 DEF ViewInv, SnapshotFits, Seen, StillToCome

LEMMA EngineKeepsView ==
  ASSUME EngineInv, PageInv, ViewInv, EngineSteps
  PROVE  ViewInv'
<1>1. PICK new \in Seq(Entry) : log' = log \o new /\ rows' = Project(rows, new)
  BY StepsOfEngine, LogExtends
<1>2. UNCHANGED <<stream, view, version, lost>>
  BY DEF EngineSteps, page
<1>3. Carries
  BY EngineCarries
<1>4. /\ Len(log) \in Nat /\ Len(log') \in Nat /\ Len(log) <= Len(log')
      /\ version \in 0..Len(log) /\ stream.seq \in 0..Len(log)
      /\ Len(published) \in Nat
      /\ stream.pc = "live" => stream.next \in 1..(Len(published) + 1)
  BY <1>1, EarlierEntries, PublishedAreEntries DEF EngineInv, PageInv, PageTyped
<1>5. ASSUME NEW a \in Aggregates
      PROVE  /\ Decisive(a) \in 0..Len(log)
             /\ \/ Decisive(a)' = Decisive(a) /\ Shell'[a] = Shell[a]
                \/ Decisive(a)' \in (Len(log) + 1)..Len(log')
  BY <1>1, DecisiveFacts, DecisiveMoves
<1>6. SnapshotFits'
  <2> SUFFICES ASSUME stream.pc = "snapshot"
               PROVE  /\ \A a \in Aggregates :
                           Decisive(a)' <= stream.seq => stream.shell[a] = Shell'[a]
                      /\ \A m \in (stream.seq + 1)..Len(log') : Carried(1, m)'
    BY <1>2 DEF SnapshotFits
  <2>1. ASSUME NEW a \in Aggregates, Decisive(a)' <= stream.seq PROVE stream.shell[a] = Shell'[a]
    <3>1. ~(Decisive(a)' \in (Len(log) + 1)..Len(log'))
      BY <1>4, <2>1
    <3>2. QED
      BY <1>5, <2>1, <3>1 DEF ViewInv, SnapshotFits
  <2>2. ASSUME NEW m \in (stream.seq + 1)..Len(log') PROVE Carried(1, m)'
    <3>1. CASE m <= Len(log)
      <4>1. m \in (stream.seq + 1)..Len(log) /\ m \in 1..Len(log) /\ 1 \in 1..(Len(published) + 1)
        BY <1>4, <3>1
      <4>2. QED
        BY <1>3, <4>1 DEF ViewInv, SnapshotFits, Carries
    <3>2. CASE ~(m <= Len(log))
      <4>1. m \in (Len(log) + 1)..Len(log')
        BY <1>4, <3>2
      <4>2. QED
        BY <1>3, <4>1 DEF Carries, Carried
    <3>3. QED
      BY <3>1, <3>2
  <2>3. QED
    BY <2>1, <2>2
<1>7. Seen'
  <2> SUFFICES ASSUME NEW a \in Aggregates, Decisive(a)' <= version
               PROVE  \/ view[a] = Shell'[a]
                      \/ Decisive(a)' \in lost
                      \/ Decisive(a)' \in missed' /\ Decisive(a)' <= readModel'.seq
    BY <1>2 DEF Seen
  <2>1. ~(Decisive(a)' \in (Len(log) + 1)..Len(log'))
    BY <1>4
  <2>2. Decisive(a)' = Decisive(a) /\ Shell'[a] = Shell[a]
    BY <1>5, <2>1
  <2>3. QED
    BY <1>3, <2>2 DEF ViewInv, Seen, Carries
<1>8. StillToCome'
  <2> SUFFICES ASSUME stream.pc = "live", NEW a \in Aggregates, Decisive(a)' > version,
                      NEW k \in 1..(Len(published) + 1), k = stream.next,
                      NEW d, d = Decisive(a)'
               PROVE  d \in lost \/ Carried(k, d)'
    BY <1>2, <1>4 DEF StillToCome, Carried
  <2>1. CASE d \in (Len(log) + 1)..Len(log')
    BY <1>3, <2>1 DEF Carries, Carried
  <2>2. CASE d = Decisive(a)
    <3>1. d \in 1..Len(log)
      BY <1>4, <1>5, <2>2
    <3>2. d \in lost \/ Carried(k, d)
      BY <2>2 DEF ViewInv, StillToCome
    <3>3. QED
      BY <1>3, <3>1, <3>2 DEF Carries
  <2>3. QED
    BY <1>5, <2>1, <2>2
<1>9. QED
  BY <1>6, <1>7, <1>8 DEF ViewInv

\* Steps of the page leave everything alone that the engine says.
LEMMA PageSteps ==
  ASSUME UNCHANGED <<tables, memory, history>>
  PROVE  /\ UNCHANGED <<log, rows, missed, readModel, published, worker>> /\ Shell' = Shell
         /\ \A a : Decisive(a)' = Decisive(a)
         /\ \A k, m : Carried(k, m)' <=> Carried(k, m)
<1>1. UNCHANGED <<log, rows, missed, readModel, published, worker>>
  BY DEF tables, memory, history
<1>2. Shell' = Shell
  BY <1>1 DEF Shell, Latest
<1>3. \A a : Decisive(a)' = Decisive(a)
  BY <1>1, <1>2 DEF Decisive, Latest
<1>4. \A k, m : Carried(k, m)' <=> Carried(k, m)
  BY <1>1 DEF Carried, Waiting
<1>5. QED
  BY <1>1, <1>2, <1>3, <1>4

LEMMA RestartKeepsView ==
  ASSUME EngineInv, PageInv, ViewInv, ServerRestarts
  PROVE  ViewInv'
<1>1. /\ UNCHANGED <<log, rows, view, version>> /\ stream' = Off
      /\ lost' = lost \cup missed
  BY DEF ServerRestarts, Restart, tables
<1>2. Shell' = Shell /\ \A a : Decisive(a)' = Decisive(a)
  BY <1>1 DEF Decisive, Shell, Latest
<1>3. Seen'
  BY <1>1, <1>2 DEF ViewInv, Seen
<1>4. QED
  BY <1>1, <1>3, OffIs DEF ViewInv, SnapshotFits, StillToCome

LEMMA SubscribeKeepsView ==
  ASSUME EngineInv, PageInv, ViewInv, Subscribe
  PROVE  ViewInv'
<1>1. UNCHANGED <<tables, memory, history>>
  BY DEF Subscribe, vars
<1>2. UNCHANGED <<log, missed, readModel>> /\ Shell' = Shell /\ \A a : Decisive(a)' = Decisive(a)
  BY <1>1, PageSteps
<1>3. /\ stream'.pc = "snapshot" /\ stream'.seq = Len(log) /\ stream'.shell = Shell
      /\ UNCHANGED <<view, version, lost>>
  BY DEF Subscribe
<1>4. (Len(log) + 1)..Len(log) = {}
  BY Numbers DEF EngineInv
<1>5. SnapshotFits'
  BY <1>2, <1>3, <1>4 DEF SnapshotFits
<1>6. Seen'
  BY <1>2, <1>3 DEF ViewInv, Seen
<1>7. QED
  BY <1>3, <1>5, <1>6 DEF ViewInv, StillToCome

LEMMA AttachKeepsView ==
  ASSUME EngineInv, PageInv, ViewInv, Attach
  PROVE  ViewInv'
<1>1. UNCHANGED <<tables, memory, history>>
  BY DEF Attach, vars
<1>2. /\ UNCHANGED <<log, missed, readModel, published>> /\ Shell' = Shell
      /\ \A a : Decisive(a)' = Decisive(a)
      /\ \A k, m : Carried(k, m)' <=> Carried(k, m)
  BY <1>1, PageSteps
<1>3. /\ Len(log) \in Nat /\ version \in 0..Len(log) /\ stream.seq \in 0..Len(log)
      /\ Len(published) \in Nat /\ DOMAIN published = 1..Len(published)
  BY Numbers, PublishedAreEntries DEF EngineInv, PageInv, PageTyped
<1>4. stream.pc = "snapshot" /\ stream'.pc = "live" /\ stream'.next = Len(published) + 1
  <2>1. stream' = [stream EXCEPT !.pc = "live", !.next = Len(published) + 1]
        /\ stream.pc = "snapshot"
    BY DEF Attach
  <2>2. QED
    BY <2>1 DEF PageInv, PageTyped, Subscription
<1>5. \/ view' = stream.shell /\ version' = stream.seq /\ lost' = Skipped
      \/ /\ stream.seq <= version /\ lost' = lost \cup Skipped
         /\ UNCHANGED <<view, version>>
  BY <1>3 DEF Attach, ApplySnapshot, Accepts
<1>6. Seen'
  <2>1. CASE view' = stream.shell /\ version' = stream.seq
    BY <1>2, <1>4, <2>1 DEF ViewInv, SnapshotFits, Seen
  <2>2. CASE lost' = lost \cup Skipped /\ UNCHANGED <<view, version>>
    BY <1>2, <2>2 DEF ViewInv, Seen
  <2>3. QED
    BY <1>5, <2>1, <2>2
<1>7. StillToCome'
  <2> SUFFICES ASSUME NEW a \in Aggregates, NEW d, d = Decisive(a), d > version'
               PROVE  d \in lost' \/ Carried(Len(published) + 1, d)
    BY <1>2, <1>4 DEF StillToCome
  <2>1. version' >= stream.seq
    BY <1>3, <1>5
  <2>2. d \in 0..Len(log)
    BY DecisiveFacts
  <2>3. version' \in 0..Len(log)
    BY <1>3, <1>5
  <2>4. d \in (stream.seq + 1)..Len(log) /\ d \notin 1..stream.seq
    BY <1>3, <2>1, <2>2, <2>3
  <2>5. Carried(1, d)
    BY <1>4, <2>4 DEF ViewInv, SnapshotFits
  <2>6. CASE \E i \in 1..Len(published) : published[i] = d
    BY <1>3, <1>5, <2>4, <2>6 DEF Skipped
  <2>7. QED
    BY <2>5, <2>6 DEF Carried
<1>8. QED
  BY <1>4, <1>6, <1>7 DEF ViewInv, SnapshotFits

\* An event before the next one of the stream is not to come any more.
LEMMA StreamIsPast ==
  ASSUME EngineInv, NEW k \in 1..Len(published), NEW n, n = published[k],
         NEW d \in Nat, d < n, Carried(k, d)
  PROVE  d \in missed /\ d <= readModel.seq
<1>1. /\ published \in Seq(Nat) /\ DOMAIN published = 1..Len(published) /\ Len(published) \in Nat
      /\ n \in Nat /\ n <= readModel.seq /\ readModel.seq \in Nat
  BY PublishedAreEntries, Numbers DEF EngineInv
<1>2. n \in Items(published)
  BY <1>1 DEF Items
<1>3. ~Waiting(d)
  BY <1>1, <1>2 DEF Waiting, EngineInv, Streamed, InOrder
<1>4. ASSUME NEW i \in 1..Len(published), i >= k, published[i] = d PROVE FALSE
  <2>1. i # k /\ k < i
    BY <1>1, <1>4
  <2>2. published[k] < published[i]
    BY <1>1, <2>1 DEF EngineInv, Streamed, InOrder, Ascending
  <2>3. QED
    BY <1>1, <1>4, <2>2
<1>5. QED
  BY <1>1, <1>3, <1>4 DEF Carried

LEMMA DeliverKeepsView ==
  ASSUME EngineInv, PageInv, ViewInv, Deliver
  PROVE  ViewInv'
<1>1. UNCHANGED <<tables, memory, history>>
  BY DEF Deliver, vars
<1>2. /\ UNCHANGED <<log, missed, readModel, published>> /\ Shell' = Shell
      /\ \A a : Decisive(a)' = Decisive(a)
      /\ \A k, m : Carried(k, m)' <=> Carried(k, m)
  BY <1>1, PageSteps
<1>3. /\ Len(log) \in Nat /\ version \in 0..Len(log) /\ Len(published) \in Nat
      /\ stream \in Subscription /\ view \in [Aggregates -> Nat]
  BY Numbers, PublishedAreEntries DEF EngineInv, PageInv, PageTyped
<1>4. PICK n \in 1..Len(log) :
        /\ stream.next \in 1..Len(published) /\ n = published[stream.next]
        /\ log[n].event \in Planned /\ log[n].event.of \in Aggregates
        /\ IF Handles(n)
           THEN view' = [view EXCEPT ![log[n].event.of] = Shown(log[n].event)] /\ version' = n
           ELSE UNCHANGED <<view, version>>
  BY DeliverEffect
<1>5. /\ stream.pc = "live" /\ stream'.pc = "live" /\ stream'.next = stream.next + 1
      /\ lost' = lost
  <2>1. stream' = [stream EXCEPT !.next = stream.next + 1] /\ stream.pc = "live" /\ lost' = lost
    BY DEF Deliver
  <2>2. stream.next + 1 \in Nat
    BY <1>3, <1>4
  <2>3. QED
    BY <1>3, <2>1, <2>2, SubscriptionMoves
<1>6. \A a \in Aggregates :
        Decisive(a) \in 0..Len(log) /\ (Decisive(a) # 0 => log[Decisive(a)].event.of = a)
  BY DecisiveFacts
<1>7. version' \in version..Len(log)
  BY <1>3, <1>4 DEF Handles
<1>8. Seen'
  <2> SUFFICES ASSUME NEW a \in Aggregates, NEW d \in 0..Len(log), d = Decisive(a), d <= version',
                      view'[a] # Shell[a]
               PROVE  d \in lost \/ (d \in missed /\ d <= readModel.seq)
    BY <1>2, <1>5, <1>6 DEF Seen
  <2>1. CASE d <= version /\ view'[a] = view[a]
    BY <2>1 DEF ViewInv, Seen
  <2>2. CASE ~Handles(n)
    BY <1>4, <2>1, <2>2
  <2>3. CASE Handles(n) /\ a = log[n].event.of
    <3>1. view'[a] = Shown(log[n].event) /\ version' = n
      BY <1>3, <1>4, <2>3
    <3>2. CASE Removes(log[n].event)
      <4>1. Shell[a] # 0
        BY <3>1, <3>2 DEF Shown
      <4>2. n <= d /\ ~Removes(log[d].event)
        BY <2>3, <4>1, DecisiveFacts
      <4>3. d = n
        BY <1>3, <3>1, <4>2
      <4>4. QED
        BY <3>2, <4>2, <4>3
    <3>3. CASE ~Removes(log[n].event)
      <4>1. Visible(rows, a) /\ view'[a] = Latest(a, Len(log))
        BY <2>3, <3>1, <3>3 DEF Handles, Forwards, Shown
      <4>2. QED
        BY <4>1, ShellIs
    <3>4. QED
      BY <3>2, <3>3
  <2>4. CASE Handles(n) /\ a # log[n].event.of
    <3>1. view'[a] = view[a] /\ version' = n
      BY <1>3, <1>4, <2>4
    <3>2. CASE d > version
      <4>1. d # 0 /\ d # n
        BY <1>3, <1>6, <2>4, <3>2
      <4>2. d < n /\ d \in Nat
        BY <1>3, <3>1, <4>1
      <4>3. d \in lost \/ Carried(stream.next, d)
        BY <1>5, <3>2 DEF ViewInv, StillToCome
      <4>4. QED
        BY <1>4, <4>2, <4>3, StreamIsPast
    <3>3. QED
      BY <1>3, <2>1, <3>1, <3>2
  <2>5. QED
    BY <2>2, <2>3, <2>4
<1>9. StillToCome'
  <2> SUFFICES ASSUME NEW a \in Aggregates, NEW d \in 0..Len(log), d = Decisive(a), d > version',
                      d \notin lost
               PROVE  Carried(stream.next + 1, d)
    BY <1>2, <1>5, <1>6 DEF StillToCome
  <2>1. d > version /\ d # 0
    BY <1>3, <1>7
  <2>2. Carried(stream.next, d)
    BY <1>5, <2>1 DEF ViewInv, StillToCome
  <2>3. d # n
    <3> SUFFICES ASSUME d = n PROVE FALSE
      OBVIOUS
    <3>1. ~Handles(n)
      BY <1>3, <1>4
    <3>2. ~Forwards(log[n].event) /\ log[n].event.of = a
      BY <1>3, <1>6, <2>1, <3>1 DEF Handles
    <3>3. Shell[a] = 0
      BY <3>2, ShellIs DEF Forwards
    <3>4. Removes(log[n].event)
      BY <2>1, <3>3, DecisiveFacts
    <3>5. QED
      BY <3>2, <3>4 DEF Forwards
  <2>4. ASSUME NEW i \in 1..Len(published), i >= stream.next, published[i] = d
        PROVE  i >= stream.next + 1
    <3>1. i # stream.next
      BY <1>4, <2>3, <2>4
    <3>2. QED
      BY <1>3, <1>4, <2>4, <3>1
  <2>5. QED
    BY <2>2, <2>4 DEF Carried
<1>10. QED
  BY <1>5, <1>8, <1>9 DEF ViewInv, SnapshotFits

LEMMA UnreadableKeepsView ==
  ASSUME EngineInv, PageInv, ViewInv, DeliverUnreadable
  PROVE  ViewInv'
<1>1. UNCHANGED <<tables, memory, history>>
  BY DEF DeliverUnreadable
<1>2. /\ UNCHANGED <<log, missed, readModel, published>> /\ Shell' = Shell
      /\ \A a : Decisive(a)' = Decisive(a)
      /\ \A k, m : Carried(k, m)' <=> Carried(k, m)
  BY <1>1, PageSteps
<1>3. Len(published) \in Nat /\ stream \in Subscription
  BY PublishedAreEntries DEF PageInv, PageTyped
<1>4. /\ stream.pc = "live" /\ stream.next \in 1..Len(published)
      /\ stream'.pc = "live" /\ stream'.next = stream.next + 1
      /\ UNCHANGED <<view, version>> /\ lost' = lost \cup {published[stream.next]}
  <2>1. /\ stream' = [stream EXCEPT !.next = stream.next + 1] /\ stream.pc = "live"
        /\ stream.next \in 1..Len(published)
        /\ UNCHANGED <<view, version>> /\ lost' = lost \cup {published[stream.next]}
    BY <1>3 DEF DeliverUnreadable, PageInv, PageTyped
  <2>2. stream.next + 1 \in Nat
    BY <1>3, <2>1
  <2>3. QED
    BY <1>3, <2>1, <2>2, SubscriptionMoves
<1>5. Seen'
  BY <1>2, <1>4 DEF ViewInv, Seen
<1>6. StillToCome'
  <2> SUFFICES ASSUME NEW a \in Aggregates, NEW d, d = Decisive(a), d > version,
                      d \notin lost, d # published[stream.next]
               PROVE  Carried(stream.next + 1, d)
    BY <1>2, <1>4 DEF StillToCome
  <2>1. Carried(stream.next, d)
    BY <1>4 DEF ViewInv, StillToCome
  <2>2. ASSUME NEW i \in 1..Len(published), i >= stream.next, published[i] = d
        PROVE  i >= stream.next + 1
    <3>1. i # stream.next
      BY <2>2
    <3>2. QED
      BY <1>3, <1>4, <2>2, <3>1
  <2>3. QED
    BY <2>1, <2>2 DEF Carried
<1>7. QED
  BY <1>4, <1>5, <1>6 DEF ViewInv, SnapshotFits

LEMMA ViewNext ==
  ASSUME EngineInv, PageInv, ViewInv, [ShellNext]_systemVars
  PROVE  ViewInv'
<1>1. CASE Disconnect \/ UNCHANGED systemVars
  <2>1. UNCHANGED <<tables, memory, history>>
    BY <1>1 DEF Disconnect, systemVars, vars
  <2>2. /\ UNCHANGED <<log, missed, readModel, published>> /\ Shell' = Shell
        /\ \A a : Decisive(a)' = Decisive(a)
        /\ \A k, m : Carried(k, m)' <=> Carried(k, m)
    BY <2>1, PageSteps
  <2>3. UNCHANGED <<view, version, lost>> /\ stream' \in {Off, stream}
    BY <1>1 DEF Disconnect, systemVars, page
  <2>4. Seen'
    BY <2>2, <2>3 DEF ViewInv, Seen
  <2>5. CASE stream' = Off
    BY <2>4, <2>5, OffIs DEF ViewInv, SnapshotFits, StillToCome
  <2>6. CASE stream' = stream
    BY <2>2, <2>3, <2>4, <2>6 DEF ViewInv, SnapshotFits, StillToCome
  <2>7. QED
    BY <2>3, <2>5, <2>6
<1>2. QED
  BY <1>1, EngineKeepsView, RestartKeepsView, SubscribeKeepsView, AttachKeepsView,
     DeliverKeepsView, UnreadableKeepsView DEF ShellNext

\* When the stream has run dry, what the page does not show as it is on disk was lost to it.
LEMMA NothingStillToCome == ASSUME EngineInv, PageInv, ViewInv PROVE ViewIsShell
<1> SUFFICES ASSUME Drained, NEW a \in Aggregates, NEW d \in 0..Len(log), d = Decisive(a),
                    view[a] # Shell[a], d \notin lost
             PROVE  d \in missed
  BY DecisiveFacts DEF ViewIsShell
<1>1. Len(log) \in Nat /\ version \in 0..Len(log) /\ Len(published) \in Nat
      /\ stream.pc = "live" /\ stream.next \in 1..(Len(published) + 1)
      /\ ~(stream.next <= Len(published)) /\ worker.pc = "idle" /\ worker.pending = <<>>
  BY Numbers, PublishedAreEntries
     DEF EngineInv, Streamed, Placed, PageInv, PageTyped, Drained
<1>2. CASE d <= version
  BY <1>2 DEF ViewInv, Seen
<1>3. CASE d > version
  <2>1. Carried(stream.next, d)
    BY <1>1, <1>3 DEF ViewInv, StillToCome
  <2>2. ~Waiting(d)
    BY <1>1, NoItems DEF Waiting
  <2>3. QED
    BY <1>1, <2>1, <2>2 DEF Carried
<1>4. QED
  BY <1>1, <1>2, <1>3

\* When the page's stream has run dry, the page shows the shell as it is on disk: what it
\* does not, the stream did not bring, could not read, or never had to bring.
THEOREM PageShowsShell == ShellSpec => []ViewIsShell
<1>1. ASSUME EngineInv /\ PageInv /\ ViewInv, [ShellNext]_systemVars
      PROVE  (EngineInv /\ PageInv /\ ViewInv)'
  BY <1>1, ShellKeepsEngine, PageNext, ViewNext
<1>2. ShellInit => EngineInv /\ PageInv /\ ViewInv
  BY ShellInitEngine, PageInitially, ViewInitially
<1>3. EngineInv /\ PageInv /\ ViewInv => ViewIsShell
  BY NothingStillToCome
<1>4. QED
  BY <1>1, <1>2, <1>3, PTL DEF ShellSpec
=============================================================================
