----------------------- MODULE OrchestrationRowsProofs -----------------------
(***************************************************************************)
(* The rows of the orchestration engine, for every set of projects,        *)
(* threads and commands and every past: the tables and the read model are  *)
(* projections of the log, so that a worker which could read everything    *)
(* back decides on what is on disk; no project or thread is created twice, *)
(* and none that is deleted leaves a live thread behind.                   *)
(***************************************************************************)
EXTENDS OrchestrationEngineProofs, NumberLemmas

-----------------------------------------------------------------------------
(* What Project computes.  It is defined by recursion on the entries; what *)
(* it does is told by any function that takes the same steps, and the      *)
(* inductions are on the numbers of the steps.                             *)

\* f holds what the first n entries of s make of a model.
StepsOf(f, model, s, n) ==
  f = [i \in 0..n |-> IF i = 0 THEN model ELSE Apply(f[i - 1], s[i].event)]

\* The same, without saying that f holds nothing else.
Steps(f, model, s, n) ==
  /\ f[0] = model
  /\ \A i \in 1..n : f[i] = Apply(f[i - 1], s[i].event)

LEMMA StepsOfAreSteps ==
  ASSUME NEW f, NEW model, NEW s, NEW n \in Nat, StepsOf(f, model, s, n)
  PROVE  Steps(f, model, s, n)
<1>1. \A i \in 0..n : f[i] = IF i = 0 THEN model ELSE Apply(f[i - 1], s[i].event)
  BY DEF StepsOf
<1>2. 0 \in 0..n /\ \A i \in 1..n : i \in 0..n /\ i # 0
  OBVIOUS
<1>3. QED
  BY <1>1, <1>2 DEF Steps

LEMMA StepsExist ==
  ASSUME NEW model, NEW s, NEW n \in Nat
  PROVE  \E f : StepsOf(f, model, s, n)
<1> DEFINE T == {i \in 0..n : \E f : StepsOf(f, model, s, i)}
<1>1. 0 \in T
  <2> DEFINE f == [i \in 0..0 |-> model]
  <2>1. f[0] = model
    OBVIOUS
  <2>2. \A i \in 0..0 : i = 0
    OBVIOUS
  <2>3. f = [i \in 0..0 |-> IF i = 0 THEN model ELSE Apply(f[i - 1], s[i].event)]
    BY <2>2
  <2>4. StepsOf(f, model, s, 0)
    <3> HIDE DEF f
    <3>1. QED
      BY <2>3 DEF StepsOf
  <2>5. 0 \in 0..n
    OBVIOUS
  <2>6. QED
    BY <2>4, <2>5
<1>2. ASSUME NEW i \in 1..n, i - 1 \in T PROVE i \in T
  <2>1. PICK f : StepsOf(f, model, s, i - 1)
    BY <1>2
  <2>2. \A k \in 0..(i - 1) : f[k] = IF k = 0 THEN model ELSE Apply(f[k - 1], s[k].event)
    BY <2>1 DEF StepsOf
  <2> DEFINE g == [k \in 0..i |-> IF k = 0 THEN model ELSE Apply(f[k - 1], s[k].event)]
  <2>3. \A k \in 0..(i - 1) : g[k] = f[k]
    <3>1. \A k \in 0..(i - 1) : k \in 0..i
      OBVIOUS
    <3>2. QED
      BY <2>2, <3>1
  <2>4. \A k \in 0..i : k # 0 => k - 1 \in 0..(i - 1)
    OBVIOUS
  <2>5. g = [k \in 0..i |-> IF k = 0 THEN model ELSE Apply(g[k - 1], s[k].event)]
    <3>1. \A k \in 0..i : k # 0 => g[k - 1] = f[k - 1]
      BY <2>3, <2>4
    <3>2. QED
      BY <3>1
  <2>6. StepsOf(g, model, s, i)
    <3> HIDE DEF g
    <3>1. QED
      BY <2>5 DEF StepsOf
  <2>7. i \in 0..n
    OBVIOUS
  <2>8. QED
    BY <2>6, <2>7
<1>3. 0..n \subseteq T
  <2> HIDE DEF T
  <2>1. QED
    BY <1>1, <1>2, UpTo
<1>4. QED
  BY <1>3

LEMMA StepsAgree ==
  ASSUME NEW model, NEW s, NEW t, NEW n \in Nat, NEW f, NEW g,
         Steps(f, model, s, n), Steps(g, model, t, n),
         \A i \in 1..n : s[i].event = t[i].event
  PROVE  \A i \in 0..n : f[i] = g[i]
<1> DEFINE T == {i \in 0..n : f[i] = g[i]}
<1>1. 0 \in T
  BY DEF Steps
<1>2. \A i \in 1..n : i - 1 \in T => i \in T
  <2> SUFFICES ASSUME NEW i \in 1..n, i - 1 \in T PROVE i \in T
    OBVIOUS
  <2>1. f[i] = Apply(f[i - 1], s[i].event) /\ g[i] = Apply(g[i - 1], t[i].event)
    BY DEF Steps
  <2>2. f[i - 1] = g[i - 1]
    OBVIOUS
  <2>3. i \in 0..n
    OBVIOUS
  <2>4. QED
    BY <2>1, <2>2, <2>3
<1>3. 0..n \subseteq T
  <2> HIDE DEF T
  <2>1. QED
    BY <1>1, <1>2, UpTo
<1>4. QED
  BY <1>3

\* Project gives the last of any steps.
LEMMA ProjectIs ==
  ASSUME NEW model, NEW s, Len(s) \in Nat, NEW f, Steps(f, model, s, Len(s))
  PROVE  Project(model, s) = f[Len(s)]
<1> DEFINE after == CHOOSE g : StepsOf(g, model, s, Len(s))
<1>1. Project(model, s) = after[Len(s)]
  BY DEF Project, StepsOf
<1>2. StepsOf(after, model, s, Len(s))
  BY StepsExist
<1> HIDE DEF after
<1>3. Steps(after, model, s, Len(s))
  BY <1>2, StepsOfAreSteps
<1>4. \A i \in 0..Len(s) : after[i] = f[i]
  BY <1>3, StepsAgree
<1>5. QED
  BY <1>1, <1>4

LEMMA StepsOfProject ==
  ASSUME NEW model, NEW s, Len(s) \in Nat
  PROVE  \E f : Steps(f, model, s, Len(s)) /\ Project(model, s) = f[Len(s)]
<1>1. PICK f : StepsOf(f, model, s, Len(s))
  BY StepsExist
<1>2. Steps(f, model, s, Len(s))
  BY <1>1, StepsOfAreSteps
<1>3. QED
  BY <1>2, ProjectIs

LEMMA ProjectNone ==
  ASSUME NEW model, NEW s, Len(s) = 0
  PROVE  Project(model, s) = model
<1>1. PICK f : Steps(f, model, s, Len(s)) /\ Project(model, s) = f[Len(s)]
  BY StepsOfProject
<1>2. QED
  BY <1>1 DEF Steps

\* What holds of a model and is kept by each event holds of the projection.
LEMMA ProjectInduction ==
  ASSUME NEW model, NEW s, Len(s) \in Nat, NEW R, model \in R,
         \A i \in 1..Len(s) : \A m \in R : Apply(m, s[i].event) \in R
  PROVE  Project(model, s) \in R
<1>1. PICK f : Steps(f, model, s, Len(s)) /\ Project(model, s) = f[Len(s)]
  BY StepsOfProject
<1> DEFINE T == {i \in 0..Len(s) : f[i] \in R}
<1>2. 0 \in T
  BY <1>1 DEF Steps
<1>3. \A i \in 1..Len(s) : i - 1 \in T => i \in T
  <2> SUFFICES ASSUME NEW i \in 1..Len(s), i - 1 \in T PROVE i \in T
    OBVIOUS
  <2>1. f[i] = Apply(f[i - 1], s[i].event) /\ f[i - 1] \in R /\ i \in 0..Len(s)
    BY <1>1 DEF Steps
  <2>2. QED
    BY <2>1
<1>4. 0..Len(s) \subseteq T
  <2> HIDE DEF T
  <2>1. QED
    BY <1>2, <1>3, UpTo
<1>5. QED
  BY <1>1, <1>4

\* Projecting one batch after another.
LEMMA ProjectConcat ==
  ASSUME NEW model, NEW S, NEW s \in Seq(S), NEW t \in Seq(S)
  PROVE  Project(model, s \o t) = Project(Project(model, s), t)
<1>0. Len(s) \in Nat /\ Len(t) \in Nat /\ Len(s \o t) = Len(s) + Len(t) /\ Len(s \o t) \in Nat
  OBVIOUS
<1>1. PICK f : Steps(f, model, s, Len(s)) /\ Project(model, s) = f[Len(s)]
  BY <1>0, StepsOfProject
<1>2. PICK g : Steps(g, f[Len(s)], t, Len(t)) /\ Project(f[Len(s)], t) = g[Len(t)]
  BY <1>0, StepsOfProject
<1> DEFINE h == [i \in 0..(Len(s) + Len(t)) |-> IF i <= Len(s) THEN f[i] ELSE g[i - Len(s)]]
<1>3. h[0] = model /\ h[Len(s) + Len(t)] = g[Len(t)]
  <2>1. 0 \in 0..(Len(s) + Len(t)) /\ 0 <= Len(s)
        /\ Len(s) + Len(t) \in 0..(Len(s) + Len(t))
    BY <1>0
  <2>2. CASE Len(t) = 0
    BY <1>0, <1>1, <1>2, <2>1, <2>2 DEF Steps
  <2>3. CASE Len(t) # 0
    <3>1. ~(Len(s) + Len(t) <= Len(s)) /\ Len(s) + Len(t) - Len(s) = Len(t)
      BY <1>0, <2>3
    <3>2. QED
      BY <1>1, <2>1, <3>1 DEF Steps
  <2>4. QED
    BY <2>2, <2>3
<1>4. ASSUME NEW i \in 1..(Len(s) + Len(t)) PROVE h[i] = Apply(h[i - 1], (s \o t)[i].event)
  <2>1. i \in 0..(Len(s) + Len(t)) /\ i - 1 \in 0..(Len(s) + Len(t))
    BY <1>0
  <2>2. CASE i <= Len(s)
    <3>1. i \in 1..Len(s) /\ i - 1 <= Len(s)
      BY <1>0, <2>2
    <3>2. (s \o t)[i] = s[i]
      BY <3>1
    <3>3. f[i] = Apply(f[i - 1], s[i].event)
      BY <1>1, <3>1 DEF Steps
    <3>4. QED
      BY <2>1, <2>2, <3>1, <3>2, <3>3
  <2>3. CASE ~(i <= Len(s))
    <3>1. i - Len(s) \in 1..Len(t) /\ i - 1 - Len(s) = i - Len(s) - 1
      BY <1>0, <2>3
    <3>2. (s \o t)[i] = t[i - Len(s)]
      BY <1>0, <2>3
    <3>3. g[i - Len(s)] = Apply(g[i - Len(s) - 1], t[i - Len(s)].event)
      BY <1>2, <3>1 DEF Steps
    <3>4. h[i] = g[i - Len(s)]
      BY <2>1, <2>3
    <3>5. h[i - 1] = g[i - Len(s) - 1]
      <4>1. CASE i - 1 <= Len(s)
        <5>1. i - 1 = Len(s) /\ i - Len(s) - 1 = 0
          BY <1>0, <2>3, <4>1
        <5>2. h[i - 1] = f[Len(s)]
          BY <2>1, <5>1
        <5>3. QED
          BY <1>2, <5>1, <5>2 DEF Steps
      <4>2. CASE ~(i - 1 <= Len(s))
        BY <2>1, <3>1, <4>2
      <4>3. QED
        BY <4>1, <4>2
    <3> HIDE DEF h
    <3>6. QED
      BY <3>2, <3>3, <3>4, <3>5
  <2>4. QED
    BY <2>2, <2>3
<1>5. Steps(h, model, s \o t, Len(s \o t))
  <2> HIDE DEF h
  <2>1. QED
    BY <1>0, <1>3, <1>4 DEF Steps
<1>6. Project(model, s \o t) = h[Len(s \o t)]
  <2> HIDE DEF h
  <2>1. QED
    BY <1>0, <1>5, ProjectIs
<1>7. QED
  BY <1>0, <1>1, <1>2, <1>3, <1>6

\* Projecting a prefix, one entry at a time.
LEMMA ProjectPrefix ==
  ASSUME NEW model, NEW S, NEW s \in Seq(S), NEW i \in 1..Len(s)
  PROVE  Project(model, SubSeq(s, 1, i))
           = Apply(Project(model, SubSeq(s, 1, i - 1)), s[i].event)
<1>1. PICK f : Steps(f, model, s, Len(s)) /\ Project(model, s) = f[Len(s)]
  BY StepsOfProject
<1>2. ASSUME NEW n \in 0..Len(s) PROVE Project(model, SubSeq(s, 1, n)) = f[n]
  <2>1. Len(SubSeq(s, 1, n)) = n /\ n \in Nat /\ \A k \in 1..n : SubSeq(s, 1, n)[k] = s[k]
    OBVIOUS
  <2>2. Steps(f, model, SubSeq(s, 1, n), n)
    BY <1>1, <2>1 DEF Steps
  <2>3. QED
    BY <2>1, <2>2, ProjectIs
<1>3. i \in 0..Len(s) /\ i - 1 \in 0..Len(s)
  OBVIOUS
<1>4. QED
  BY <1>1, <1>2, <1>3 DEF Steps

-----------------------------------------------------------------------------
(* The tables and the read model are projections of the log *)

Absent == [a \in Aggregates |-> AbsentRow]

\* The rows as they were at a position of the log.
RowsAt(n) == Project(Absent, SubSeq(log, 1, n))

LEMMA ApplyTyped ==
  ASSUME NEW m \in [Aggregates -> Row], NEW e \in Planned
  PROVE  Apply(m, e) \in [Aggregates -> Row]
<1>1. e.of \in Aggregates /\ e.in \in Projects \cup {None} /\ m[e.of] \in Row
  BY DEF Planned
<1>2. [state |-> "live", in |-> e.in, archived |-> FALSE] \in Row
  BY <1>1 DEF Row
<1>3. /\ [m[e.of] EXCEPT !.state = "deleted"] \in Row
      /\ [m[e.of] EXCEPT !.archived = TRUE] \in Row
      /\ [m[e.of] EXCEPT !.archived = FALSE] \in Row
  BY <1>1 DEF Row
<1>4. QED
  BY <1>1, <1>2, <1>3 DEF Apply, Created

LEMMA ProjectTyped ==
  ASSUME NEW m \in [Aggregates -> Row], NEW s \in Seq(Entry)
  PROVE  Project(m, s) \in [Aggregates -> Row]
<1>1. Len(s) \in Nat /\ \A i \in 1..Len(s) : s[i].event \in Planned
  <2>1. Len(s) \in Nat /\ \A i \in 1..Len(s) : s[i] \in Entry
    OBVIOUS
  <2>2. QED
    BY <2>1 DEF Entry
<1>2. \A i \in 1..Len(s) : \A k \in [Aggregates -> Row] :
        Apply(k, s[i].event) \in [Aggregates -> Row]
  BY <1>1, ApplyTyped
<1>3. QED
  BY <1>1, <1>2, ProjectInduction

\* The code that keeps the read model and the code that keeps the tables do the same to
\* what is modelled of a row.
LEMMA ProjectEventIsApply ==
  ASSUME NEW m \in [Aggregates -> Row], NEW e \in Planned
  PROVE  ProjectEvent(m, e) = Apply(m, e)
<1> DEFINE deletes == e.kind \in {"project.deleted", "thread.deleted"}
<1>1. e.of \in Aggregates /\ m[e.of] \in Row
  BY DEF Planned
<1>2. ASSUME NEW a \in Aggregates, a # e.of PROVE ProjectEvent(m, e)[a] = Apply(m, e)[a]
  BY <1>1, <1>2 DEF ProjectEvent, Apply
<1>3. ProjectEvent(m, e)[e.of] = Apply(m, e)[e.of]
  <2>1. CASE Creates(e) \/ ~Exists(m, e.of)
    BY <1>1, <2>1 DEF ProjectEvent, Apply, Creates
  <2>2. CASE ~Creates(e) /\ Exists(m, e.of)
    <3> DEFINE row == m[e.of]
    <3>1. row.archived \in BOOLEAN /\ row = [state |-> row.state, in |-> row.in, archived |-> row.archived]
      BY <1>1 DEF Row
    <3>2. CASE e.kind = "thread.archived"
      BY <1>1, <2>2, <3>1, <3>2 DEF ProjectEvent, Apply
    <3>3. CASE e.kind = "thread.unarchived"
      BY <1>1, <2>2, <3>1, <3>3 DEF ProjectEvent, Apply
    <3>4. CASE deletes
      BY <1>1, <2>2, <3>1, <3>4 DEF ProjectEvent, Apply
    <3>5. CASE ~deletes /\ e.kind \notin {"thread.archived", "thread.unarchived"}
      BY <1>1, <2>2, <3>1, <3>5 DEF ProjectEvent, Apply
    <3>6. QED
      BY <3>2, <3>3, <3>4, <3>5
  <2>3. QED
    BY <2>1, <2>2
<1>4. Apply(m, e) \in [Aggregates -> Row]
  BY ApplyTyped
<1>5. ProjectEvent(m, e) = [a \in Aggregates |-> ProjectEvent(m, e)[a]]
  BY DEF ProjectEvent
<1>6. QED
  BY <1>2, <1>3, <1>4, <1>5

LEMMA ReplayIsProject ==
  ASSUME NEW m \in [Aggregates -> Row], NEW s \in Seq(Entry)
  PROVE  Replay(m, s) = Project(m, s)
<1> DEFINE n == Len(s)
           Replayed(g) == g = [i \in 0..n |-> IF i = 0 THEN m ELSE ProjectEvent(g[i - 1], s[i].event)]
           after == CHOOSE g : Replayed(g)
<1>1. n \in Nat /\ \A i \in 1..n : s[i].event \in Planned
  <2>1. n \in Nat /\ \A i \in 1..n : s[i] \in Entry
    OBVIOUS
  <2>2. QED
    BY <2>1 DEF Entry
<1>2. Replay(m, s) = after[n]
  BY DEF Replay
<1> HIDE DEF n
<1>3. PICK f : StepsOf(f, m, s, n)
  BY <1>1, StepsExist
<1>4. Steps(f, m, s, n)
  BY <1>1, <1>3, StepsOfAreSteps
<1>5. \A i \in 0..n : f[i] \in [Aggregates -> Row]
  <2> DEFINE T == {i \in 0..n : f[i] \in [Aggregates -> Row]}
  <2>1. 0 \in T
    BY <1>1, <1>4 DEF Steps
  <2>2. \A i \in 1..n : i - 1 \in T => i \in T
    <3> SUFFICES ASSUME NEW i \in 1..n, i - 1 \in T PROVE i \in T
      OBVIOUS
    <3>1. f[i] = Apply(f[i - 1], s[i].event) /\ s[i].event \in Planned /\ i \in 0..n
      BY <1>1, <1>4 DEF Steps
    <3>2. QED
      BY <3>1, ApplyTyped
  <2>3. 0..n \subseteq T
    <3> HIDE DEF T
    <3>1. QED
      BY <1>1, <2>1, <2>2, UpTo
  <2>4. QED
    BY <2>3
<1>6. \A i \in 1..n : ProjectEvent(f[i - 1], s[i].event) = Apply(f[i - 1], s[i].event)
  <2>1. \A i \in 1..n : i - 1 \in 0..n
    BY <1>1
  <2>2. QED
    BY <1>1, <1>5, <2>1, ProjectEventIsApply
<1>7. Replayed(f)
  <2>1. \A i \in 0..n : i # 0 => i \in 1..n
    BY <1>1
  <2>2. QED
    BY <1>3, <1>6, <2>1 DEF StepsOf
<1>8. Replayed(after)
  <2> HIDE DEF Replayed
  <2>1. QED
    BY <1>7
<1> HIDE DEF after
<1>9. \A i \in 0..n : after[i] = f[i]
  <2> DEFINE T == {i \in 0..n : after[i] = f[i]}
  <2>1. 0 \in T
    BY <1>1, <1>7, <1>8
  <2>2. \A i \in 1..n : i - 1 \in T => i \in T
    <3> SUFFICES ASSUME NEW i \in 1..n, i - 1 \in T PROVE i \in T
      OBVIOUS
    <3>1. i \in 0..n /\ i # 0
      BY <1>1
    <3>2. after[i] = ProjectEvent(after[i - 1], s[i].event)
      BY <1>8, <3>1
    <3>3. f[i] = ProjectEvent(f[i - 1], s[i].event)
      BY <1>7, <3>1
    <3>4. QED
      BY <3>1, <3>2, <3>3
  <2>3. 0..n \subseteq T
    <3> HIDE DEF T
    <3>1. QED
      BY <1>1, <2>1, <2>2, UpTo
  <2>4. QED
    BY <2>3
<1>10. Project(m, s) = f[n]
  BY <1>1, <1>4, ProjectIs DEF n
<1>11. QED
  BY <1>1, <1>2, <1>9, <1>10

LEMMA AbsentTyped == Absent \in [Aggregates -> Row]
BY DEF Absent, AbsentRow, Row

\* What a transaction does to the log and to the tables.
LEMMA PersistAppends ==
  ASSUME IInv, worker.pc = "decide",
         NEW events \in Plans(readModel.rows, body[worker.cmd]), Persist(events)
  PROVE  /\ Entries(worker.cmd, events) \in Seq(Entry)
         /\ log' = log \o Entries(worker.cmd, events)
         /\ rows' = Project(rows, Entries(worker.cmd, events))
         /\ Len(Entries(worker.cmd, events)) = Len(events)
         /\ events \in Seq(Planned) /\ Len(events) \in Nat \ {0}
         /\ \A i \in 1..Len(events) : Entries(worker.cmd, events)[i].event = events[i]
<1>1. worker.cmd \in Commands /\ body[worker.cmd] \in AllBodies
  BY BodiesAreBodies DEF IInv, Working
<1>2. Batch(events)
  BY <1>1, PlansAreBatches
<1>3. Len(events) \in Nat \ {0} /\ \A i \in 1..Len(events) : events[i] \in Planned
  BY <1>2, ElementOfSeq, ThreadsAreCounted DEF Batch
<1>4. \A i \in 1..Len(events) : [cmd |-> worker.cmd, event |-> events[i]] \in Entry
  BY <1>1, <1>3 DEF Entry
<1>5. /\ Entries(worker.cmd, events) \in Seq(Entry)
      /\ Len(Entries(worker.cmd, events)) = Len(events)
      /\ \A i \in 1..Len(events) : Entries(worker.cmd, events)[i].event = events[i]
  BY <1>3, <1>4 DEF Entries
<1>6. QED
  BY <1>2, <1>3, <1>5 DEF Batch, Persist

\* The read model holds what the log had made by its sequence number, unless an event up
\* to there could not be read back.
Applied == missed \cap (1..readModel.seq) = {} => readModel.rows = RowsAt(readModel.seq)

RowsInv == /\ rows = Project(Absent, log)
           /\ readModel \in [rows : [Aggregates -> Row], seq : Nat]
           /\ Applied

LEMMA WholeLog == ASSUME IInv PROVE RowsAt(Len(log)) = Project(Absent, log)
<1>1. log \in Seq(Entry)
  BY DEF IInv, Typed
<1>2. SubSeq(log, 1, Len(log)) = log
  BY <1>1
<1>3. QED
  BY <1>2 DEF RowsAt

\* Appending to the log changes no earlier rows.
LEMMA RowsAtKept ==
  ASSUME IInv, NEW new \in Seq(Entry), log' = log \o new, NEW n \in 0..Len(log)
  PROVE  RowsAt(n)' = RowsAt(n)
<1>1. log \in Seq(Entry) /\ log' \in Seq(Entry) /\ Len(log) \in Nat /\ Len(log) <= Len(log')
  BY DEF IInv, Typed
<1>2. SubSeq(log', 1, n) = SubSeq(log, 1, n)
  BY <1>1
<1>3. QED
  BY <1>2 DEF RowsAt

LEMMA RowsInit == Init => RowsInv
<1> SUFFICES ASSUME Init PROVE RowsInv
  OBVIOUS
<1>1. IInv
  BY IInvInit
<1>2. log \in Seq(Entry) /\ Len(log) \in Nat
  BY <1>1 DEF IInv, Typed
<1>3. log = Past /\ rows = Project(Absent, log) /\ readModel = [rows |-> rows, seq |-> Len(log)]
  BY DEF Init, Absent
<1>4. rows \in [Aggregates -> Row]
  BY <1>2, <1>3, AbsentTyped, ProjectTyped
<1>5. QED
  BY <1>1, <1>2, <1>3, <1>4, WholeLog DEF RowsInv, Applied

LEMMA CommitRows == ASSUME IInv, Streamed, RowsInv, Commit PROVE RowsInv'
<1>0. worker.pc = "decide" /\ missed' = missed
  BY DEF Commit, history
<1>1. PICK events \in Plans(readModel.rows, body[worker.cmd]) :
        /\ Persist(events)
        /\ readModel' = [rows |-> Replay(readModel.rows, Entries(worker.cmd, events)),
                         seq  |-> Len(log')]
  BY DEF Commit
<1> DEFINE new == Entries(worker.cmd, events)
<1>2. new \in Seq(Entry) /\ log' = log \o new /\ rows' = Project(rows, new)
  BY <1>0, <1>1, PersistAppends
<1>3. log \in Seq(Entry) /\ log' \in Seq(Entry) /\ Len(log') \in Nat /\ Len(log) \in Nat
      /\ Len(log) <= Len(log')
  BY <1>2 DEF IInv, Typed
<1>4. readModel' = [rows |-> Project(readModel.rows, new), seq |-> Len(log')]
  BY <1>1, <1>2, ReplayIsProject DEF RowsInv
<1>5. IInv'
  BY IInvNext DEF Next, Work
<1> HIDE DEF new
<1>6. rows' = Project(Absent, log')
  BY <1>2, <1>3, ProjectConcat DEF RowsInv
<1>7. readModel' \in [rows : [Aggregates -> Row], seq : Nat]
  BY <1>2, <1>3, <1>4, ProjectTyped DEF RowsInv
<1>8. ASSUME missed' \cap (1..readModel'.seq) = {}
      PROVE  readModel'.rows = Project(Absent, SubSeq(log', 1, readModel'.seq))
  <2>1. PICK startup \in 0..readModel.seq : Covers(startup)
    BY DEF Streamed
  <2>2. readModel.seq \in Nat /\ readModel.seq <= Len(log)
    BY Numbers DEF Streamed, Placed
  <2>3. missed \subseteq 1..Len(log')
    BY <1>3, <2>1, <2>2 DEF Covers
  <2>4. missed = {}
    BY <1>0, <1>4, <1>8, <2>3
  <2>5. (readModel.seq + 1)..Len(log) = {}
    BY <1>0, <2>1, <2>4 DEF Covers
  <2>6. readModel.seq = Len(log)
    <3>1. Len(log) \notin (readModel.seq + 1)..Len(log)
      BY <2>5
    <3>2. QED
      BY <1>3, <2>2, <3>1
  <2>7. readModel.rows = Project(Absent, log)
    BY <2>4, <2>6, WholeLog DEF RowsInv, Applied
  <2>8. SubSeq(log', 1, Len(log')) = log'
    BY <1>3
  <2>9. readModel'.seq = Len(log') /\ readModel'.rows = Project(readModel.rows, new)
    BY <1>4
  <2>10. Project(Absent, log') = Project(Project(Absent, log), new)
    BY <1>2, <1>3, ProjectConcat
  <2>11. QED
    BY <2>7, <2>8, <2>9, <2>10
<1>9. QED
  BY <1>6, <1>7, <1>8 DEF RowsInv, Applied, RowsAt

LEMMA DoubtRows == ASSUME IInv, Streamed, RowsInv, CommitInDoubt PROVE RowsInv'
<1>1. PICK events \in Plans(readModel.rows, body[worker.cmd]) : Persist(events)
  BY DEF CommitInDoubt
<1>2. worker.pc = "decide" /\ missed' = missed /\ readModel' = readModel
  BY DEF CommitInDoubt, history
<1>3. PICK new \in Seq(Entry) : log' = log \o new /\ rows' = Project(rows, new)
  BY <1>1, <1>2, PersistAppends
<1>4. log \in Seq(Entry) /\ readModel.seq \in 0..Len(log)
  BY Numbers DEF IInv, Typed, Streamed, Placed
<1>5. SubSeq(log', 1, readModel.seq) = SubSeq(log, 1, readModel.seq)
  BY <1>3, <1>4
<1>6. rows' = Project(Absent, log')
  BY <1>3, <1>4, ProjectConcat DEF RowsInv
<1>7. QED
  BY <1>2, <1>5, <1>6 DEF RowsInv, Applied, RowsAt

LEMMA ReconcileRows == ASSUME IInv, Streamed, RowsInv, Reconcile PROVE RowsInv'
<1>1. /\ rows' = rows /\ log' = log /\ log \in Seq(Entry) /\ Len(log) \in Nat
      /\ missed' = missed \ ((readModel.seq + 1)..Len(log))
      /\ worker.start = readModel.seq
      /\ readModel.seq \in Nat /\ readModel.seq <= Len(log)
  BY Numbers DEF Reconcile, tables, IInv, Typed, Streamed, Placed
<1>2. CASE Len(log) = readModel.seq
  <2>1. readModel' = readModel
    BY <1>1, <1>2 DEF Reconcile
  <2>2. missed' = missed
    BY <1>1, <1>2
  <2>3. QED
    BY <1>1, <2>1, <2>2 DEF RowsInv, Applied, RowsAt
<1>3. CASE Len(log) # readModel.seq
  <2> DEFINE rest == SubSeq(log, readModel.seq + 1, Len(log))
             first == SubSeq(log, 1, readModel.seq)
  <2>1. readModel' = [rows |-> Replay(readModel.rows, rest), seq |-> Len(log)]
    BY <1>1, <1>3 DEF Reconcile
  <2>2. rest \in Seq(Entry) /\ first \in Seq(Entry) /\ log = first \o rest
    <3>1. \A i \in 1..Len(log) : log[i] \in Entry
      BY <1>1
    <3>2. rest \in Seq(Entry)
      BY <1>1, <3>1
    <3>3. first \in Seq(Entry)
      BY <1>1, <3>1
    <3>4. first \o rest = SubSeq(log, 1, Len(log))
      <4>1. 1 \in 1..(Len(log) + 1) /\ readModel.seq \in (1 - 1)..Len(log)
            /\ Len(log) \in readModel.seq..Len(log)
        BY <1>1
      <4>2. QED
        BY <1>1, <4>1, ConcatAdjacentSubSeq
    <3>5. SubSeq(log, 1, Len(log)) = log
      BY <1>1, SubSeqFull
    <3>6. QED
      BY <3>2, <3>3, <3>4, <3>5
  <2> HIDE DEF rest, first
  <2>0. readModel' = [rows |-> Project(readModel.rows, rest), seq |-> Len(log)]
    BY <2>1, <2>2, ReplayIsProject DEF RowsInv
  <2>3. readModel' \in [rows : [Aggregates -> Row], seq : Nat]
    BY <1>1, <2>0, <2>2, ProjectTyped DEF RowsInv
  <2>4. ASSUME missed' \cap (1..Len(log)) = {}
        PROVE  readModel'.rows = Project(Absent, log)
    <3>1. missed \cap (1..readModel.seq) = {}
      BY <1>1, <2>4
    <3>2. readModel.rows = Project(Absent, first)
      BY <3>1 DEF RowsInv, Applied, RowsAt, first
    <3>3. QED
      BY <2>0, <2>2, <3>2, ProjectConcat
  <2>5. SubSeq(log', 1, Len(log)) = log
    BY <1>1
  <2>6. QED
    BY <1>1, <2>0, <2>3, <2>4, <2>5 DEF RowsInv, Applied, RowsAt
<1>4. QED
  BY <1>2, <1>3

LEMMA UnreadRows == ASSUME IInv, Streamed, RowsInv, ReconcileFails PROVE RowsInv'
<1>1. /\ UNCHANGED <<log, rows, readModel>>
      /\ missed \subseteq missed'
  BY DEF ReconcileFails, tables
<1>2. QED
  BY <1>1 DEF RowsInv, Applied, RowsAt

LEMMA RestartRows == ASSUME IInv, RowsInv, Restart PROVE RowsInv'
<1>1. /\ log' = log /\ rows' = rows /\ log \in Seq(Entry) /\ Len(log) \in Nat
      /\ readModel' = [rows |-> rows, seq |-> Len(log)]
  BY DEF Restart, tables, IInv, Typed
<1>2. rows \in [Aggregates -> Row]
  BY <1>1, AbsentTyped, ProjectTyped DEF RowsInv
<1>3. SubSeq(log', 1, Len(log)) = log
  BY <1>1
<1>4. QED
  BY <1>1, <1>2, <1>3 DEF RowsInv, Applied, RowsAt

\* Every other step leaves the tables, the read model and what was missed alone.
LEMMA RowsQuiet ==
  ASSUME RowsInv, UNCHANGED <<log, rows, readModel, missed>> PROVE RowsInv'
BY DEF RowsInv, Applied, RowsAt

LEMMA RowsNext == ASSUME IInv, Streamed, RowsInv, [Next]_vars PROVE RowsInv'
<1>1. CASE (\E c \in Commands : Dispatch(c)) \/ UNCHANGED vars
  BY <1>1, RowsQuiet DEF Dispatch, vars, tables, memory, history
<1>2. CASE Commit \/ CommitInDoubt
  BY <1>2, CommitRows, DoubtRows
<1>3. CASE Reconcile \/ ReconcileFails
  BY <1>3, ReconcileRows, UnreadRows
<1>4. CASE Restart
  BY <1>4, RestartRows
<1>5. CASE Take \/ FindReceipt \/ Reject \/ Publish \/ FileRejection \/ Answer
  <2>1. UNCHANGED <<log, rows, readModel, missed>>
    BY <1>5 DEF Take, FindReceipt, Reject, Publish, FileRejection, Answer, tables, history
  <2>2. QED
    BY <2>1, RowsQuiet
<1>6. CASE ReceiptUnreadable \/ RollBack \/ RejectionUnfiled
  <2>1. UNCHANGED <<log, rows, readModel, missed>>
    BY <1>6 DEF ReceiptUnreadable, RollBack, RejectionUnfiled, tables, history
  <2>2. QED
    BY <2>1, RowsQuiet
<1>7. QED
  BY <1>1, <1>2, <1>3, <1>4, <1>5, <1>6 DEF Next, Work, Failures

\* The invariants of the engine that are proved about, together.
EngineInv == IInv /\ Streamed /\ RowsInv

LEMMA EngineInit == Init => EngineInv
BY IInvInit, StreamedInit, RowsInit DEF EngineInv

LEMMA EngineNext == ASSUME EngineInv, [Next]_vars PROVE EngineInv'
BY IInvNext, StreamedNext, RowsNext DEF EngineInv

\* Receipts, hot stream and tables at once: the rows on disk are what the log projects to, and
\* the read model is that of the log it has applied.
THEOREM SpecEngineInv == Spec => []EngineInv
<1>1. QED
  BY EngineInit, EngineNext, PTL DEF Spec

LEMMA CurrentModel ==
  ASSUME EngineInv, missed = {}, worker.pc # "reconcile"
  PROVE  readModel = [rows |-> rows, seq |-> Len(log)]
<1>1. PICK startup \in 0..readModel.seq : Covers(startup)
  BY DEF EngineInv, Streamed
<1>2. readModel.seq \in Nat /\ readModel.seq <= Len(log) /\ Len(log) \in Nat
  BY Numbers DEF EngineInv, Streamed, Placed
<1>3. Len(log) \notin (readModel.seq + 1)..Len(log)
  BY <1>1 DEF Covers
<1>4. readModel.seq = Len(log)
  BY <1>2, <1>3
<1>5. readModel.rows = rows
  BY <1>4, WholeLog DEF EngineInv, RowsInv, Applied
<1>6. QED
  BY <1>4, <1>5 DEF EngineInv, RowsInv

\* The worker decides on the rows as they are on disk, outside a failure that is still
\* being reconciled, unless reading back what a doubtful commit left behind failed too.
THEOREM ReadModelFollowsDisk == Spec => []ReadModelCurrent
<1>1. EngineInv => ReadModelCurrent
  BY CurrentModel DEF ReadModelCurrent
<1>2. QED
  BY <1>1, SpecEngineInv, PTL

-----------------------------------------------------------------------------
(* Types *)

Replies == Commands \X {"accepted", "rejected", "previously rejected", "failed"}

\* What the other invariants say nothing about.
Counted ==
  /\ sends \in [Commands -> 0..MaxSends]
  /\ told \subseteq Replies
  /\ faults \in 0..MaxFaults /\ restarts \in 0..MaxRestarts

LEMMA CountedInit == Init => Counted
BY BoundsAreNat DEF Init, Counted

LEMMA CountedNext == ASSUME IInv, Counted, [Next]_vars PROVE Counted'
<1> USE BoundsAreNat
<1>1. CASE \E c \in Commands : Dispatch(c)
  <2>1. PICK c \in Commands : Dispatch(c)
    BY <1>1
  <2>2. sends[c] < MaxSends /\ sends' = [sends EXCEPT ![c] = @ + 1]
        /\ UNCHANGED <<told, faults, restarts>>
    BY <2>1 DEF Dispatch, NoFault
  <2>3. sends[c] + 1 \in 0..MaxSends
    BY <2>2 DEF Counted
  <2>4. QED
    BY <2>2, <2>3 DEF Counted
<1>2. CASE Answer
  <2>1. told' = told \cup {<<worker.cmd, worker.answer>>} /\ UNCHANGED <<sends, faults, restarts>>
    BY <1>2 DEF Answer, NoFault
  <2>2. /\ worker.cmd \in Commands
        /\ worker.answer \in {"accepted", "rejected", "previously rejected", "failed"}
    BY <1>2 DEF Answer, Published, IInv, Working
  <2>3. <<worker.cmd, worker.answer>> \in Replies
    BY <2>2, Zenon DEF Replies
  <2>4. QED
    BY <2>1, <2>3 DEF Counted
<1>3. CASE Restart
  BY <1>3 DEF Restart, Counted
<1>4. CASE Take \/ FindReceipt \/ Reject \/ Commit \/ Publish \/ Reconcile \/ FileRejection
           \/ UNCHANGED vars
  BY <1>4 DEF Take, FindReceipt, Reject, Commit, Publish, Reconcile, FileRejection, NoFault,
              vars, history, Counted
<1>5. CASE ReceiptUnreadable \/ RollBack \/ CommitInDoubt \/ ReconcileFails \/ RejectionUnfiled
  <2>1. UNCHANGED <<sends, told, restarts>> /\ Fault
    BY <1>5 DEF ReceiptUnreadable, RollBack, CommitInDoubt, ReconcileFails, RejectionUnfiled,
                history
  <2>2. faults' \in 0..MaxFaults
    BY <2>1 DEF Fault, Counted
  <2>3. QED
    BY <2>1, <2>2 DEF Counted
<1>6. QED
  BY <1>1, <1>2, <1>3, <1>4, <1>5 DEF Next, Work, Failures

\* Types: the tables and the read model hold rows, whatever the log holds.
THEOREM SpecTypeOK == Spec => []TypeOK
<1>1. ASSUME EngineInv, Counted PROVE TypeOK
  <2>1. log \in Seq(Entry) /\ rows \in [Aggregates -> Row]
    BY <1>1, AbsentTyped, ProjectTyped DEF EngineInv, IInv, Typed, RowsInv
  <2>2. missed \subseteq Nat
    <3>1. PICK startup \in 0..readModel.seq : Covers(startup)
      BY <1>1 DEF EngineInv, Streamed
    <3>2. QED
      BY <1>1, <3>1, Numbers DEF EngineInv, Covers
  <2>3. QED
    BY <1>1, <2>1, <2>2 DEF EngineInv, IInv, Typed, Streamed, InOrder, RowsInv, Counted, TypeOK,
                           Entry, Envelope, Receipt, Replies
<1>2. Counted /\ EngineInv /\ [Next]_vars => Counted'
  BY CountedNext DEF EngineInv
<1>3. QED
  BY <1>1, <1>2, CountedInit, SpecEngineInv, PTL DEF Spec

-----------------------------------------------------------------------------
(* What the events of a log make of one row *)

\* The projection, split at one entry.
LEMMA ProjectAround ==
  ASSUME NEW m, NEW s \in Seq(Entry), NEW j \in 1..Len(s)
  PROVE  \E pre \in Seq(Entry), post \in Seq(Entry) :
           /\ Len(pre) = j - 1 /\ Len(post) = Len(s) - j
           /\ \A i \in 1..Len(pre) : pre[i] = s[i]
           /\ \A i \in 1..Len(post) : post[i] = s[j + i]
           /\ Project(m, s) = Project(Apply(Project(m, pre), s[j].event), post)
<1> DEFINE pre == SubSeq(s, 1, j - 1)
           post == SubSeq(s, j + 1, Len(s))
<1>1. Len(s) \in Nat /\ \A i \in 1..Len(s) : s[i] \in Entry
  OBVIOUS
<1>2. /\ pre \in Seq(Entry) /\ Len(pre) = j - 1 /\ \A i \in 1..Len(pre) : pre[i] = s[i]
      /\ post \in Seq(Entry) /\ Len(post) = Len(s) - j /\ \A i \in 1..Len(post) : post[i] = s[j + i]
  BY <1>1
<1>3. Project(m, SubSeq(s, 1, j)) = Apply(Project(m, pre), s[j].event)
  BY ProjectPrefix
<1>4. SubSeq(s, 1, j) \in Seq(Entry) /\ SubSeq(s, 1, j) \o post = s
  <2>1. SubSeq(s, 1, j) \in Seq(Entry)
    BY <1>1
  <2>2. 1 \in 1..(Len(s) + 1) /\ j \in (1 - 1)..Len(s) /\ Len(s) \in j..Len(s)
    BY <1>1
  <2>3. SubSeq(s, 1, j) \o post = SubSeq(s, 1, Len(s))
    BY <2>2, ConcatAdjacentSubSeq
  <2>4. QED
    BY <2>1, <2>3, SubSeqFull
<1> HIDE DEF pre, post
<1>5. Project(m, s) = Project(Project(m, SubSeq(s, 1, j)), post)
  <2>1. PICK first \in Seq(Entry) : first = SubSeq(s, 1, j)
    BY <1>4
  <2>2. Project(m, first \o post) = Project(Project(m, first), post)
    BY <1>2, ProjectConcat
  <2>3. QED
    BY <1>4, <2>1, <2>2
<1>6. QED
  BY <1>2, <1>3, <1>5

\* What one event does to a row.
LEMMA ApplyRow ==
  ASSUME NEW m \in [Aggregates -> Row], NEW e \in Planned, NEW a \in Aggregates
  PROVE  /\ e.of # a => Apply(m, e)[a] = m[a]
         /\ m[a].state = "absent" /\ ~Creates(e) => Apply(m, e)[a].state = "absent"
         /\ m[a].state # "absent" => Apply(m, e)[a].state # "absent"
         /\ e.of = a /\ Creates(e) => Apply(m, e)[a].state = "live"
         /\ /\ e.of = a /\ e.kind \in {"project.deleted", "thread.deleted"}
            /\ m[a].state # "absent"
            => Apply(m, e)[a].state = "deleted"
         /\ m[a].state = "deleted" /\ ~Creates(e) => Apply(m, e)[a].state = "deleted"
         /\ m[a].state # "deleted" /\ e.kind \notin {"project.deleted", "thread.deleted"}
            => Apply(m, e)[a].state # "deleted"
<1>1. e.of \in Aggregates /\ m[e.of] \in Row
  BY DEF Planned
<1>2. QED
  BY <1>1 DEF Apply, Exists, Creates, Created, Row

LEMMA ProjectUntouched ==
  ASSUME NEW m \in [Aggregates -> Row], NEW s \in Seq(Entry), NEW a \in Aggregates,
         \A i \in 1..Len(s) : s[i].event.of # a
  PROVE  Project(m, s)[a] = m[a]
<1> DEFINE R == {k \in [Aggregates -> Row] : k[a] = m[a]}
<1>1. Len(s) \in Nat /\ \A i \in 1..Len(s) : s[i] \in Entry
  OBVIOUS
<1>2. \A i \in 1..Len(s) : \A k \in R : Apply(k, s[i].event) \in R
  BY <1>1, ApplyTyped, ApplyRow DEF Entry
<1>3. m \in R
  OBVIOUS
<1> HIDE DEF R
<1>4. Project(m, s) \in R
  BY <1>1, <1>2, <1>3, ProjectInduction
<1>5. QED
  BY <1>4 DEF R

\* A row is there exactly when it was there or its creation is among the entries.
LEMMA ExistsIffCreated ==
  ASSUME NEW s \in Seq(Entry), NEW a \in Aggregates
  PROVE  Exists(Project(Absent, s), a)
           <=> \E j \in 1..Len(s) : s[j].event.of = a /\ Creates(s[j].event)
<1>1. Len(s) \in Nat /\ \A i \in 1..Len(s) : s[i].event \in Planned
  <2>1. \A i \in 1..Len(s) : s[i] \in Entry
    OBVIOUS
  <2>2. QED
    BY <2>1 DEF Entry
<1>2. ASSUME \A j \in 1..Len(s) : ~(s[j].event.of = a /\ Creates(s[j].event))
      PROVE  Project(Absent, s)[a].state = "absent"
  <2> DEFINE R == {k \in [Aggregates -> Row] : k[a].state = "absent"}
  <2>1. \A i \in 1..Len(s) : \A k \in R : Apply(k, s[i].event) \in R
    BY <1>1, <1>2, ApplyTyped, ApplyRow
  <2>2. Absent \in R
    BY AbsentTyped DEF Absent, AbsentRow
  <2> HIDE DEF R
  <2>3. Project(Absent, s) \in R
    BY <1>1, <2>1, <2>2, ProjectInduction
  <2>4. QED
    BY <2>3 DEF R
<1>3. ASSUME NEW j \in 1..Len(s), s[j].event.of = a, Creates(s[j].event)
      PROVE  Project(Absent, s)[a].state # "absent"
  <2>1. PICK pre \in Seq(Entry), post \in Seq(Entry) :
           /\ Len(post) = Len(s) - j
           /\ \A i \in 1..Len(post) : post[i] = s[j + i]
           /\ Project(Absent, s) = Project(Apply(Project(Absent, pre), s[j].event), post)
    BY ProjectAround
  <2> DEFINE R == {k \in [Aggregates -> Row] : k[a].state # "absent"}
             made == Apply(Project(Absent, pre), s[j].event)
  <2>2. Project(Absent, pre) \in [Aggregates -> Row]
    BY AbsentTyped, ProjectTyped
  <2>3. made \in R
    BY <1>1, <1>3, <2>2, ApplyTyped, ApplyRow
  <2>4. \A i \in 1..Len(post) : j + i \in 1..Len(s) /\ post[i].event \in Planned
    BY <1>1, <2>1
  <2>5. \A i \in 1..Len(post) : \A k \in R : Apply(k, post[i].event) \in R
    BY <2>4, ApplyTyped, ApplyRow
  <2>6. Len(post) \in Nat
    BY <1>1, <2>1
  <2> HIDE DEF R, made
  <2>7. Project(made, post) \in R
    BY <2>3, <2>5, <2>6, ProjectInduction
  <2>8. QED
    BY <2>1, <2>7 DEF R, made
<1>4. QED
  BY <1>2, <1>3 DEF Exists

\* What is among a sequence of deletions ends as deleted.
LEMMA DeletedByDeletions ==
  ASSUME NEW m \in [Aggregates -> Row], NEW s \in Seq(Entry),
         \A i \in 1..Len(s) : s[i].event.kind \in {"project.deleted", "thread.deleted"},
         NEW j \in 1..Len(s), NEW a \in Aggregates, s[j].event.of = a, m[a].state # "absent"
  PROVE  Project(m, s)[a].state = "deleted"
<1>1. Len(s) \in Nat /\ \A i \in 1..Len(s) : s[i].event \in Planned
  <2>1. \A i \in 1..Len(s) : s[i] \in Entry
    OBVIOUS
  <2>2. QED
    BY <2>1 DEF Entry
<1>2. PICK pre \in Seq(Entry), post \in Seq(Entry) :
         /\ Len(pre) = j - 1 /\ Len(post) = Len(s) - j
         /\ \A i \in 1..Len(pre) : pre[i] = s[i]
         /\ \A i \in 1..Len(post) : post[i] = s[j + i]
         /\ Project(m, s) = Project(Apply(Project(m, pre), s[j].event), post)
  BY ProjectAround
<1>3. Project(m, pre) \in [Aggregates -> Row] /\ Project(m, pre)[a].state # "absent"
  <2> DEFINE R == {k \in [Aggregates -> Row] : k[a].state # "absent"}
  <2>1. \A i \in 1..Len(pre) : pre[i].event \in Planned
    BY <1>1, <1>2
  <2>2. \A i \in 1..Len(pre) : \A k \in R : Apply(k, pre[i].event) \in R
    BY <2>1, ApplyTyped, ApplyRow
  <2>3. m \in R /\ Len(pre) \in Nat
    BY <1>2
  <2> HIDE DEF R
  <2>4. Project(m, pre) \in R
    BY <2>2, <2>3, ProjectInduction
  <2>5. QED
    BY <2>4 DEF R
<1> DEFINE R == {k \in [Aggregates -> Row] : k[a].state = "deleted"}
           gone == Apply(Project(m, pre), s[j].event)
<1>4. gone \in R
  BY <1>1, <1>3, ApplyTyped, ApplyRow
<1>5. \A i \in 1..Len(post) :
        /\ post[i].event \in Planned
        /\ ~Creates(post[i].event)
  <2> SUFFICES ASSUME NEW i \in 1..Len(post)
               PROVE  post[i].event \in Planned /\ ~Creates(post[i].event)
    OBVIOUS
  <2>1. j + i \in 1..Len(s) /\ post[i] = s[j + i]
    BY <1>1, <1>2
  <2>2. QED
    BY <1>1, <2>1 DEF Creates
<1>6. \A i \in 1..Len(post) : \A k \in R : Apply(k, post[i].event) \in R
  BY <1>5, ApplyTyped, ApplyRow
<1>7. Len(post) \in Nat
  BY <1>1, <1>2
<1> HIDE DEF R, gone
<1>8. Project(gone, post) \in R
  BY <1>4, <1>6, <1>7, ProjectInduction
<1>9. QED
  BY <1>2, <1>8 DEF R, gone

-----------------------------------------------------------------------------
(* Which events a command is decided to *)

\* An order of a finite set has all of it.
LEMMA OrdersAreComplete ==
  ASSUME NEW S, IsFiniteSet(S), NEW s \in Orders(S), NEW x \in S
  PROVE  \E i \in 1..Cardinality(S) : s[i] = x
<1>1. Cardinality(S) \in Nat
  BY FS_CardinalityType
<1>2. IsFiniteSet(1..Cardinality(S)) /\ Cardinality(1..Cardinality(S)) = Cardinality(S)
  <2>1. PICK n \in Nat : n = Cardinality(S)
    BY <1>1
  <2>2. IsFiniteSet(1..n) /\ Cardinality(1..n) = IF 1 > n THEN 0 ELSE n - 1 + 1
    BY FS_Interval
  <2>3. QED
    BY <2>1, <2>2
<1>3. s \in Injection(1..Cardinality(S), S)
  BY DEF Orders, Injection, IsInjective
<1>4. s \in Surjection(1..Cardinality(S), S)
  BY <1>2, <1>3, FS_Injection
<1>5. QED
  BY <1>4 DEF Surjection

LEMMA EventIs == \A kind, a : Event(kind, a).kind = kind /\ Event(kind, a).of = a
BY DEF Event

\* The events of a deletion: one for each live thread of the project, and its own.
EmptyingDeletions(model, b, events) ==
  /\ \A i \in 1..Len(events) :
       /\ events[i].kind \in {"project.deleted", "thread.deleted"}
       /\ events[i].of \in LiveThreads(model, b.of) \cup {b.of}
  /\ \A t \in LiveThreads(model, b.of) : \E i \in 1..Len(events) : events[i].of = t

LEMMA DeletionsAre ==
  ASSUME NEW model, NEW b, b.of \in Projects, NEW events \in ProjectDeletions(model, b)
  PROVE  EmptyingDeletions(model, b, events)
<1> DEFINE live == LiveThreads(model, b.of)
           last == Event("project.deleted", b.of)
<1>1. PICK s \in Orders(live) :
        events = [i \in 1..Len(s) |-> Event("thread.deleted", s[i])] \o <<last>>
  BY DEF ProjectDeletions
<1>2. IsFiniteSet(live) /\ Cardinality(live) \in Nat /\ live \subseteq Threads
  <2>1. live \subseteq Threads
    BY DEF LiveThreads
  <2> HIDE DEF live
  <2>2. QED
    BY <2>1, SetsAreFinite, FS_Subset, FS_CardinalityType
<1> HIDE DEF live, last
<1>3. s \in [1..Cardinality(live) -> live] /\ s \in Seq(live) /\ Len(s) = Cardinality(live)
  BY <1>2 DEF Orders
<1> DEFINE deletions == [i \in 1..Len(s) |-> Event("thread.deleted", s[i])]
<1>4. deletions \in Seq(Planned \cup {last}) /\ Len(deletions) = Len(s)
      /\ \A i \in 1..Len(s) : deletions[i] = Event("thread.deleted", s[i])
  <2>1. \A i \in 1..Len(s) : Event("thread.deleted", s[i]) \in Planned \cup {last}
    BY <1>2, <1>3 DEF Event, Planned, Kinds, Aggregates
  <2>2. Len(s) \in Nat
    BY <1>2, <1>3
  <2>3. QED
    BY <2>1, <2>2
<1>5. events = deletions \o <<last>>
  BY <1>1
<1> HIDE DEF deletions
<1>6. /\ Len(events) = Len(s) + 1 /\ Len(s) \in Nat /\ events[Len(s) + 1] = last
      /\ \A i \in 1..Len(s) : events[i] = Event("thread.deleted", s[i]) /\ s[i] \in live
  BY <1>2, <1>3, <1>4, <1>5
<1>7. ASSUME NEW i \in 1..Len(events)
      PROVE  /\ events[i].kind \in {"project.deleted", "thread.deleted"}
             /\ events[i].of \in live \cup {b.of}
  <2>1. CASE i \in 1..Len(s)
    BY <1>6, <2>1, EventIs
  <2>2. CASE i = Len(s) + 1
    BY <1>6, <2>2 DEF Event, last
  <2>3. QED
    BY <1>6, <2>1, <2>2
<1>8. ASSUME NEW t \in live PROVE \E i \in 1..Len(events) : events[i].of = t
  <2>1. PICK i \in 1..Cardinality(live) : s[i] = t
    BY <1>2, OrdersAreComplete
  <2>2. i \in 1..Len(s) /\ i \in 1..Len(events)
    BY <1>2, <1>3, <1>6, <2>1
  <2>3. events[i].of = t
    BY <1>6, <2>1, <2>2, EventIs
  <2>4. QED
    BY <2>2, <2>3
<1>9. QED
  BY <1>7, <1>8 DEF live, EmptyingDeletions

\* Every other command appends events of its own project or thread only, and deletes no
\* project; what it creates is not there, what it uses is.
Ordinary(model, b, events) ==
  \A i \in 1..Len(events) :
    /\ events[i].of = b.of
    /\ events[i].kind = "thread.deleted" => b.of \in Threads
    /\ events[i].kind # "project.deleted"
    /\ IF Creates(events[i]) THEN Len(events) = 1 /\ ~Exists(model, b.of) ELSE Exists(model, b.of)

LEMMA PlansAre ==
  ASSUME NEW model, NEW b \in AllBodies, NEW events \in Plans(model, b)
  PROVE  \/ /\ b.of \in Projects /\ Exists(model, b.of)
            /\ events \in ProjectDeletions(model, b)
         \/ Ordinary(model, b, events)
<1>1. ASSUME NEW kind, events = <<Event(kind, b.of)>>,
             kind # "project.deleted", kind = "thread.deleted" => b.of \in Threads,
             IF kind \in {"project.created", "thread.created"}
             THEN ~Exists(model, b.of) ELSE Exists(model, b.of)
      PROVE  Ordinary(model, b, events)
  <2>1. Len(events) = 1 /\ events[1].kind = kind /\ events[1].of = b.of
    BY <1>1 DEF Event
  <2>2. \A i \in 1..1 : i = 1
    OBVIOUS
  <2>3. QED
    BY <1>1, <2>1, <2>2 DEF Ordinary, Creates
<1>2. CASE events \in ProjectPlans(model, b)
  <2>1. CASE b.op = "project.delete" /\ Exists(model, b.of) /\ events \in ProjectDeletions(model, b)
    BY <2>1 DEF AllBodies
  <2>2. CASE events = <<Event("project.created", b.of)>> /\ ~Exists(model, b.of)
    BY <1>1, <2>2
  <2>3. CASE events = <<Event("project.meta-updated", b.of)>> /\ Exists(model, b.of)
    BY <1>1, <2>3
  <2>4. QED
    BY <1>2, <2>1, <2>2, <2>3 DEF ProjectPlans, When
<1>3. CASE events \in ThreadPlans(model, b)
  <2>1. CASE events = <<Creation(b.of, b.in)>> /\ ~Exists(model, b.of)
    <3>1. Len(events) = 1 /\ events[1].kind = "thread.created" /\ events[1].of = b.of
      BY <2>1 DEF Creation
    <3>2. \A i \in 1..1 : i = 1
      OBVIOUS
    <3>3. QED
      BY <2>1, <3>1, <3>2 DEF Ordinary, Creates
  <2>2. CASE /\ b.op = "thread.delete"
             /\ events = <<Event("thread.deleted", b.of)>> /\ Exists(model, b.of)
    <3>1. b.of \in Threads
      BY <2>2 DEF AllBodies
    <3>2. QED
      BY <1>1, <2>2, <3>1
  <2>3. CASE \E kind \in {"thread.archived", "thread.unarchived", "thread.updated"} :
               events = <<Event(kind, b.of)>> /\ Exists(model, b.of)
    BY <1>1, <2>3
  <2>4. CASE /\ events = <<Event("thread.message-sent", b.of),
                           Event("thread.turn-start-requested", b.of)>>
             /\ Exists(model, b.of)
    <3>1. /\ Len(events) = 2 /\ events[1].of = b.of /\ events[2].of = b.of
          /\ events[1].kind = "thread.message-sent"
          /\ events[2].kind = "thread.turn-start-requested"
      BY <2>4 DEF Event
    <3>2. \A i \in 1..2 : i = 1 \/ i = 2
      OBVIOUS
    <3>3. QED
      BY <2>4, <3>1, <3>2 DEF Ordinary, Creates
  <2>5. QED
    BY <1>3, <2>1, <2>2, <2>3, <2>4 DEF ThreadPlans, When
<1>4. QED
  BY <1>2, <1>3 DEF Plans

-----------------------------------------------------------------------------
(* What a transaction may do to the rows *)

\* The log and the tables are written by a transaction only, and what it writes was
\* decided on the rows of the read model.
LEMMA OnlyTransactionsWrite ==
  ASSUME [Next]_vars
  PROVE  \/ UNCHANGED <<log, rows>>
         \/ /\ worker.pc = "decide"
            /\ \E events \in Plans(readModel.rows, body[worker.cmd]) : Persist(events)
<1>1. CASE (\E c \in Commands : Dispatch(c)) \/ UNCHANGED vars
  BY <1>1 DEF Dispatch, vars, tables
<1>2. CASE Commit \/ CommitInDoubt
  BY <1>2 DEF Commit, CommitInDoubt
<1>3. CASE Take \/ FindReceipt \/ Reject \/ Publish \/ Reconcile \/ FileRejection \/ Answer
  BY <1>3 DEF Take, FindReceipt, Reject, Publish, Reconcile, FileRejection, Answer, tables
<1>4. CASE ReceiptUnreadable \/ RollBack \/ ReconcileFails \/ RejectionUnfiled \/ Restart
  BY <1>4 DEF ReceiptUnreadable, RollBack, ReconcileFails, RejectionUnfiled, Restart, tables
<1>5. QED
  BY <1>1, <1>2, <1>3, <1>4 DEF Next, Work, Failures

\* With nothing left unread, the transaction is decided on the rows as they are on disk.
LEMMA DecidedOnDisk ==
  ASSUME EngineInv, missed = {}, worker.pc = "decide"
  PROVE  readModel.rows = rows /\ rows \in [Aggregates -> Row] /\ body[worker.cmd] \in AllBodies
<1>1. readModel = [rows |-> rows, seq |-> Len(log)]
  BY CurrentModel
<1>2. rows \in [Aggregates -> Row]
  BY <1>1 DEF EngineInv, RowsInv
<1>3. body[worker.cmd] \in AllBodies
  BY BodiesAreBodies DEF EngineInv, IInv, Working
<1>4. QED
  BY <1>1, <1>2, <1>3

\* The new entries of a log and the events they hold.
LEMMA NewEntries ==
  ASSUME IInv, worker.pc = "decide",
         NEW events \in Plans(readModel.rows, body[worker.cmd]), Persist(events)
  PROVE  /\ Len(log') = Len(log) + Len(events)
         /\ \A i \in 1..Len(log) : log'[i] = log[i]
         /\ \A i \in (Len(log) + 1)..Len(log') :
              i - Len(log) \in 1..Len(events) /\ log'[i].event = events[i - Len(log)]
<1> DEFINE new == Entries(worker.cmd, events)
<1>1. /\ new \in Seq(Entry) /\ log' = log \o new /\ Len(new) = Len(events) /\ Len(events) \in Nat
      /\ \A i \in 1..Len(events) : new[i].event = events[i]
  BY PersistAppends
<1>2. log \in Seq(Entry) /\ Len(log) \in Nat
  BY DEF IInv, Typed
<1> HIDE DEF new
<1>3. Len(log') = Len(log) + Len(events) /\ \A i \in 1..Len(log) : log'[i] = log[i]
  <2>1. \A s, t \in Seq(Entry) :
          Len(s \o t) = Len(s) + Len(t) /\ \A i \in 1..Len(s) : (s \o t)[i] = s[i]
    OBVIOUS
  <2>2. QED
    BY <1>1, <1>2, <2>1
<1>4. ASSUME NEW i \in (Len(log) + 1)..Len(log')
      PROVE  i - Len(log) \in 1..Len(events) /\ log'[i].event = events[i - Len(log)]
  <2>1. i - Len(log) \in 1..Len(events)
    BY <1>1, <1>2, <1>3
  <2>2. log'[i] = new[i - Len(log)]
    BY <1>1, <1>2, <2>1
  <2>3. QED
    BY <1>1, <2>1, <2>2
<1>5. QED
  BY <1>3, <1>4

\* A project that a transaction deletes is left without live threads.
LEMMA DeletionEmpties ==
  ASSUME EngineInv, [Next]_vars, missed = {}, NEW p \in Projects,
         rows[p].state = "live", rows'[p].state = "deleted"
  PROVE  LiveThreads(rows', p) = {}
<1>1. PICK events \in Plans(readModel.rows, body[worker.cmd]) :
        worker.pc = "decide" /\ Persist(events)
  BY OnlyTransactionsWrite
<1> DEFINE b == body[worker.cmd]
           new == Entries(worker.cmd, events)
<1>2. readModel.rows = rows /\ rows \in [Aggregates -> Row] /\ b \in AllBodies
  BY <1>1, DecidedOnDisk
<1>3. /\ new \in Seq(Entry) /\ rows' = Project(rows, new) /\ Len(new) = Len(events)
      /\ Len(events) \in Nat /\ events \in Seq(Planned)
      /\ \A i \in 1..Len(events) : new[i].event = events[i]
  BY <1>1, PersistAppends DEF EngineInv
<1>4. p \in Aggregates /\ p \notin Threads
  BY AggregatesDiffer DEF Aggregates
<1> HIDE DEF b, new
<1>5. ~Ordinary(rows, b, events)
  <2> SUFFICES ASSUME Ordinary(rows, b, events) PROVE FALSE
    OBVIOUS
  <2> DEFINE R == {k \in [Aggregates -> Row] : k[p].state # "deleted"}
  <2>1. \A i \in 1..Len(new) : new[i].event \in Planned
    BY <1>3
  <2>2. ASSUME NEW i \in 1..Len(new), NEW k \in R PROVE Apply(k, new[i].event) \in R
    <3>1. CASE new[i].event.of # p
      BY <1>4, <2>1, <3>1, ApplyTyped, ApplyRow
    <3>2. CASE new[i].event.of = p
      <4>1. new[i].event.kind \notin {"project.deleted", "thread.deleted"}
        BY <1>3, <1>4, <3>2 DEF Ordinary
      <4>2. QED
        BY <1>4, <2>1, <4>1, ApplyTyped, ApplyRow
    <3>3. QED
      BY <3>1, <3>2
  <2>3. rows \in R
    BY <1>2
  <2> HIDE DEF R
  <2>4. Project(rows, new) \in R
    BY <1>3, <2>2, <2>3, ProjectInduction
  <2>5. QED
    BY <1>3, <2>4 DEF R
<1>6. b.of \in Projects /\ events \in ProjectDeletions(rows, b)
  BY <1>1, <1>2, <1>5, PlansAre DEF b
<1>7. /\ \A i \in 1..Len(events) :
           /\ events[i].kind \in {"project.deleted", "thread.deleted"}
           /\ events[i].of \in LiveThreads(rows, b.of) \cup {b.of}
      /\ \A t \in LiveThreads(rows, b.of) : \E i \in 1..Len(events) : events[i].of = t
  <2>1. EmptyingDeletions(rows, b, events)
    BY <1>6, DeletionsAre
  <2>2. QED
    BY <2>1 DEF EmptyingDeletions
<1>8. LiveThreads(rows, b.of) \subseteq Threads
  BY DEF LiveThreads
<1>9. b.of = p
  <2> SUFFICES ASSUME b.of # p PROVE FALSE
    OBVIOUS
  <2>1. \A i \in 1..Len(new) : new[i].event.of # p
    BY <1>3, <1>4, <1>7, <1>8
  <2>2. rows'[p] = rows[p]
    BY <1>2, <1>3, <1>4, <2>1, ProjectUntouched
  <2>3. QED
    BY <2>2
<1>10. SUFFICES ASSUME NEW t \in Threads, rows'[t].state = "live", rows'[t].in = p PROVE FALSE
  BY DEF LiveThreads
<1>11. t \in Aggregates /\ t # p
  BY <1>4 DEF Aggregates
<1>12. CASE t \in LiveThreads(rows, p)
  <2>1. PICK i \in 1..Len(new) : new[i].event.of = t
    BY <1>3, <1>7, <1>9, <1>12
  <2>2. rows[t].state # "absent"
    BY <1>12 DEF LiveThreads
  <2>3. \A j \in 1..Len(new) : new[j].event.kind \in {"project.deleted", "thread.deleted"}
    BY <1>3, <1>7
  <2>4. rows'[t].state = "deleted"
    BY <1>2, <1>3, <1>11, <2>1, <2>2, <2>3, DeletedByDeletions
  <2>5. QED
    BY <1>10, <2>4
<1>13. CASE t \notin LiveThreads(rows, p)
  <2>1. \A i \in 1..Len(new) : new[i].event.of # t
    BY <1>3, <1>7, <1>9, <1>11, <1>13
  <2>2. rows'[t] = rows[t]
    BY <1>2, <1>3, <1>11, <2>1, ProjectUntouched
  <2>3. QED
    BY <1>10, <1>13, <2>2 DEF LiveThreads
<1>14. QED
  BY <1>12, <1>13

\* Deleting a project, by force or not, leaves no live thread in it: the same command
\* deletes them, and with nothing left unread it finds them all.
THEOREM DeletionLeavesNoThread == Spec => DeletedProjectIsEmpty
<1>1. ASSUME EngineInv, [Next]_vars
      PROVE  missed = {} => \A p \in Projects :
               rows[p].state = "live" /\ rows'[p].state = "deleted" => LiveThreads(rows', p) = {}
  BY <1>1, DeletionEmpties
<1>2. QED
  BY <1>1, SpecEngineInv, PTL DEF Spec, DeletedProjectIsEmpty

\* What a transaction creates was never created before, what it uses was.
LEMMA CreatesWhatIsNew ==
  ASSUME EngineInv, [Next]_vars, missed = {},
         NEW i \in (Len(log) + 1)..Len(log'),
         NEW earlier,
         earlier = {j \in 1..(i - 1) : /\ log'[j].event.of = log'[i].event.of
                                       /\ Creates(log'[j].event)}
  PROVE  IF Creates(log'[i].event) THEN earlier = {} ELSE earlier # {}
<1>1. PICK events \in Plans(readModel.rows, body[worker.cmd]) :
        worker.pc = "decide" /\ Persist(events)
  <2>1. log' # log
    BY Numbers DEF EngineInv
  <2>2. QED
    BY <2>1, OnlyTransactionsWrite
<1> DEFINE b == body[worker.cmd]
<1>2. readModel.rows = rows /\ b \in AllBodies /\ rows \in [Aggregates -> Row]
  BY <1>1, DecidedOnDisk
<1>3. /\ Len(log') = Len(log) + Len(events)
      /\ \A k \in 1..Len(log) : log'[k] = log[k]
      /\ \A k \in (Len(log) + 1)..Len(log') :
           k - Len(log) \in 1..Len(events) /\ log'[k].event = events[k - Len(log)]
  BY <1>1, NewEntries DEF EngineInv
<1>4. events \in Seq(Planned) /\ Len(events) \in Nat /\ Len(log) \in Nat /\ log \in Seq(Entry)
      /\ rows = Project(Absent, log)
  BY <1>1, PersistAppends DEF EngineInv, IInv, Typed, RowsInv
<1> DEFINE a == events[i - Len(log)].of
<1>5. log'[i].event = events[i - Len(log)] /\ i - Len(log) \in 1..Len(events) /\ a \in Aggregates
  <2>1. \A k \in 1..Len(events) : events[k] \in Planned
    BY <1>4
  <2>2. QED
    BY <1>3, <2>1 DEF Planned
<1> HIDE DEF b
<1>6. CASE Ordinary(rows, b, events)
  <2>1. a = b.of
        /\ IF Creates(events[i - Len(log)])
           THEN Len(events) = 1 /\ ~Exists(rows, a) ELSE Exists(rows, a)
    BY <1>5, <1>6 DEF Ordinary
  <2> HIDE DEF a
  <2>2. CASE Creates(events[i - Len(log)])
    <3>1. \A j \in 1..(i - 1) : j \in 1..Len(log)
      <4>1. Len(log') = Len(log) + 1
        BY <1>3, <2>1, <2>2
      <4>2. i = Len(log) + 1
        BY <1>4, <4>1
      <4>3. QED
        BY <1>4, <4>2
    <3>2. \A j \in 1..Len(log) : ~(log[j].event.of = a /\ Creates(log[j].event))
      BY <1>4, <1>5, <2>1, <2>2, ExistsIffCreated
    <3>3. earlier = {}
      BY <1>3, <1>5, <3>1, <3>2 DEF a
    <3>4. QED
      BY <1>5, <2>2, <3>3
  <2>3. CASE ~Creates(events[i - Len(log)])
    <3>1. PICK j \in 1..Len(log) : log[j].event.of = a /\ Creates(log[j].event)
      BY <1>4, <1>5, <2>1, <2>3, ExistsIffCreated
    <3>2. j \in 1..(i - 1)
      BY <1>4
    <3>3. j \in earlier
      BY <1>3, <1>5, <3>1, <3>2 DEF a
    <3>4. QED
      BY <1>5, <2>3, <3>3
  <2>4. QED
    BY <2>2, <2>3
<1>7. CASE b.of \in Projects /\ Exists(rows, b.of) /\ events \in ProjectDeletions(rows, b)
  <2>1. EmptyingDeletions(rows, b, events)
    BY <1>7, DeletionsAre
  <2>2. /\ events[i - Len(log)].kind \in {"project.deleted", "thread.deleted"}
        /\ a \in LiveThreads(rows, b.of) \cup {b.of}
    BY <1>5, <2>1 DEF EmptyingDeletions
  <2> HIDE DEF a
  <2>3. Exists(rows, a) /\ ~Creates(events[i - Len(log)])
    BY <1>7, <2>2 DEF LiveThreads, Exists, Creates
  <2>4. PICK j \in 1..Len(log) : log[j].event.of = a /\ Creates(log[j].event)
    BY <1>4, <1>5, <2>3, ExistsIffCreated
  <2>5. j \in 1..(i - 1)
    BY <1>4
  <2>6. j \in earlier
    BY <1>3, <1>5, <2>4, <2>5 DEF a
  <2>7. QED
    BY <1>5, <2>3, <2>6
<1>8. QED
  BY <1>1, <1>2, <1>6, <1>7, PlansAre DEF b

\* No project or thread is created twice and none is used that was never created: with
\* nothing left unread, the rows a command is decided on say exactly what the log has.
THEOREM CreationComesFirst == Spec => CreatedOnceThenUsed
<1>1. ASSUME EngineInv, [Next]_vars, missed = {}
      PROVE  \A i \in (Len(log) + 1)..Len(log') :
               LET earlier == {j \in 1..(i - 1) : /\ log'[j].event.of = log'[i].event.of
                                                 /\ Creates(log'[j].event)}
               IN  IF Creates(log'[i].event) THEN earlier = {} ELSE earlier # {}
  BY <1>1, CreatesWhatIsNew
<1>2. QED
  BY <1>1, SpecEngineInv, PTL DEF Spec, CreatedOnceThenUsed
=============================================================================
