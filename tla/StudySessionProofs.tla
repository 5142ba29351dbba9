------------------------- MODULE StudySessionProofs -------------------------
(***************************************************************************)
(* Proofs about StudySession, for any topics, questions and bounds: the    *)
(* active question belongs to the selected topic, generated questions      *)
(* exist only in topics that were unlocked, and no solution is on the      *)
(* screen before its question was tried.                                   *)
(***************************************************************************)
EXTENDS StudySession, SequenceTheorems, NumberLemmas

\* The questions a dataset with these generated ones has, and their topics.
Existing(src) == Real \cup {v \in Variants : src[v] # None}
TopicIn(src, q) == RealTopic[IF q \in Real THEN q ELSE src[q]]

\* The types of a snapshot, whether the page's or the server's.
Sound(as, src, ps, sums, ts) ==
  /\ as \in Seq(Attempt) /\ Len(as) <= nextId
  /\ src \in [Variants -> Real \cup {None}]
  /\ ps \subseteq {v \in Variants : src[v] # None}
  /\ sums = [t \in Topics |-> sums[t]]
  /\ \A t \in Topics : sums[t] # None => DOMAIN sums[t] = RealOf(t)
  /\ \A v \in Variants : src[v] # None => src[v] = origin[v]
  /\ ts \subseteq Questions

\* Attempts are of questions that exist, on their topics, and were tried by the learner.
Booked(as, src, ts) ==
  \A i \in DOMAIN as : /\ as[i].q \in Existing(src) \cap ts
                       /\ as[i].topic = TopicIn(src, as[i].q)

\* What is generated was unlocked.
Unlocked(as, src) == \A v \in Variants : src[v] # None => Exhausted(as, RealTopic[src[v]])

Content ==
  /\ Sound(attempts, sourceOf, prompted, summary, tried)
  /\ Booked(attempts, sourceOf, tried)
  /\ Unlocked(attempts, sourceOf)

Server ==
  saved # None =>
    /\ Sound(saved.attempts, saved.sourceOf, saved.prompted, saved.summary, saved.tried)
    /\ Booked(saved.attempts, saved.sourceOf, saved.tried)
    /\ Unlocked(saved.attempts, saved.sourceOf)
    /\ saved.strayed \subseteq Topics

\* The active question is of the selected topic; the results and the review of a topic are
\* shown only when it is exhausted, and over a real question.
View ==
  /\ selected \in Topics \cup {None}
  /\ active # None => active \in Existing(sourceOf) /\ selected # None /\ TopicIn(sourceOf, active) = selected
  /\ dialog # None => dialog = selected /\ active \in Real /\ Exhausted(attempts, selected)
  /\ review # None => review = selected /\ active \in Real \cup {None} /\ Exhausted(attempts, selected)

Help ==
  /\ hinted \subseteq Questions
  /\ open \subseteq tried
  /\ feedback \in [Questions -> Feedback]
  /\ pending \subseteq Request
  /\ checked \in [Questions -> -1..MaxChecks - 1] /\ crossed \subseteq Questions
  /\ strayed \subseteq Topics

Counters ==
  /\ loaded \in BOOLEAN
  /\ nextId \in 0..MaxAttempts /\ origin \in [Variants -> Real \cup {None}]
  /\ checks \in 0..MaxChecks
  /\ saves \in 0..MaxSaves /\ reloads \in 0..MaxReloads /\ resets \in 0..MaxResets

\* All of it: what the attempts and the generated questions are on the page and on the
\* server, and what the page shows of them.
StudyInv == Content /\ Server /\ View /\ Help /\ Counters

-----------------------------------------------------------------------------
(* What attempts do to a topic *)

LEMMA Parameters ==
  /\ RealTopic \in [Real -> Topics] /\ Real \cap Variants = {}
  /\ None \notin Questions /\ None \notin Topics /\ 0 \in Scores
  /\ MaxAttempts \in Nat /\ MaxChecks \in Nat /\ MaxSaves \in Nat
  /\ MaxReloads \in Nat /\ MaxResets \in Nat
BY SessionParameters

LEMMA ExhaustedStays ==
  ASSUME NEW as, NEW bs, \A q : Attempted(as, q) => Attempted(bs, q)
  PROVE  \A t : Exhausted(as, t) => Exhausted(bs, t)
BY DEF Exhausted

LEMMA UnlockedStays ==
  ASSUME NEW as, NEW bs, NEW src, \A q : Attempted(as, q) => Attempted(bs, q), Unlocked(as, src)
  PROVE  Unlocked(bs, src)
<1>1. \A t : Exhausted(as, t) => Exhausted(bs, t)
  BY ExhaustedStays
<1>2. QED
  BY <1>1 DEF Unlocked

LEMMA QueueIsOfTopic ==
  ASSUME NEW as, NEW t, NEW q \in OneOf(Heads(as, RealOf(t)))
  PROVE  q # None => q \in Real /\ RealTopic[q] = t
BY DEF OneOf, Heads, RealOf

\* Attempting the active question adds one attempt on the selected topic.
LEMMA RecordEffect ==
  ASSUME StudyInv, NEW q \in Questions, NEW score \in Scores, NEW revealed \in BOOLEAN,
         Answerable(q), Record(q, score, revealed)
  PROVE  /\ attempts' \in Seq(Attempt) /\ Len(attempts') <= nextId'
         /\ nextId' = nextId + 1 /\ nextId' \in 0..MaxAttempts
         /\ Booked(attempts', sourceOf', tried')
         /\ \A p : Attempted(attempts, p) => Attempted(attempts', p)
<1> DEFINE a == [id |-> nextId, q |-> q, topic |-> selected, score |-> score,
                 revealed |-> revealed, direction |-> feedback[q].tone = "direction"]
<1>1. /\ attempts \in Seq(Attempt) /\ Len(attempts) \in Nat /\ Len(attempts) <= nextId
      /\ nextId \in Nat /\ nextId < MaxAttempts /\ MaxAttempts \in Nat /\ nextId' = nextId + 1
  BY Parameters DEF StudyInv, Content, Sound, Counters, Record
<1>2. /\ q \in Existing(sourceOf) /\ selected \in Topics
      /\ TopicIn(sourceOf, q) = selected
  BY DEF StudyInv, View, Answerable, Practising
<1>3. a \in Attempt /\ a.q = q /\ a.topic = selected
  BY <1>1, <1>2 DEF Attempt
<1>4. attempts' = Append(attempts, a)
  BY DEF Record
<1> HIDE DEF a
<1>5. /\ attempts' \in Seq(Attempt) /\ Len(attempts') = Len(attempts) + 1
      /\ \A i \in 1..Len(attempts) : attempts'[i] = attempts[i]
      /\ attempts'[Len(attempts) + 1] = a
  BY <1>1, <1>3, <1>4, AppendProperties
<1>6. DOMAIN attempts = 1..Len(attempts) /\ DOMAIN attempts' = 1..(Len(attempts) + 1)
  BY <1>1, <1>5
<1>7. tried' = tried \cup {q} /\ sourceOf' = sourceOf
  BY DEF Record
<1>8. Booked(attempts', sourceOf', tried')
  <2>1. Booked(attempts, sourceOf, tried)
    BY DEF StudyInv, Content
  <2>2. ASSUME NEW i \in DOMAIN attempts'
        PROVE  /\ attempts'[i].q \in Existing(sourceOf) \cap tried'
               /\ attempts'[i].topic = TopicIn(sourceOf, attempts'[i].q)
    <3>1. CASE i = Len(attempts) + 1
      BY <3>1, <1>2, <1>3, <1>5, <1>7
    <3>2. CASE i # Len(attempts) + 1
      <4>1. i \in DOMAIN attempts /\ attempts'[i] = attempts[i]
        BY <3>2, <1>1, <1>5, <1>6
      <4>2. QED
        BY <4>1, <2>1, <1>7 DEF Booked
    <3>3. QED
      BY <3>1, <3>2
  <2>3. QED
    BY <2>2, <1>7 DEF Booked
<1>9. \A p : Attempted(attempts, p) => Attempted(attempts', p)
  BY <1>1, <1>5, <1>6 DEF Attempted
<1>10. Len(attempts') <= nextId' /\ nextId' \in 0..MaxAttempts
  BY <1>1, <1>5
<1>11. QED
  BY <1>1, <1>5, <1>8, <1>9, <1>10

\* A regraded attempt stays an attempt of its question.
LEMMA RegradeEffect ==
  ASSUME StudyInv, NEW request, GradeReply(request)
  PROVE  /\ attempts' \in Seq(Attempt) /\ Len(attempts') = Len(attempts)
         /\ \A i \in DOMAIN attempts' : /\ i \in DOMAIN attempts
                                        /\ attempts'[i].q = attempts[i].q
                                        /\ attempts'[i].topic = attempts[i].topic
         /\ \A p : Attempted(attempts, p) => Attempted(attempts', p)
<1>1. attempts \in Seq(Attempt) /\ Len(attempts) \in Nat /\ DOMAIN attempts = 1..Len(attempts)
  BY DEF StudyInv, Content, Sound
<1>2. PICK score \in Scores :
        attempts' = [i \in DOMAIN attempts |-> IF attempts[i].id = request.id
                       THEN [attempts[i] EXCEPT !.score = score] ELSE attempts[i]]
  BY DEF GradeReply
<1>3. ASSUME NEW i \in DOMAIN attempts
      PROVE  /\ attempts'[i] \in Attempt
             /\ attempts'[i].q = attempts[i].q
             /\ attempts'[i].topic = attempts[i].topic
  <2>1. attempts[i] \in Attempt
    BY <1>1
  <2>2. attempts'[i] \in {attempts[i], [attempts[i] EXCEPT !.score = score]}
    BY <1>2
  <2>3. QED
    BY <2>1, <2>2 DEF Attempt
<1>4. attempts' \in Seq(Attempt) /\ Len(attempts') = Len(attempts) /\ DOMAIN attempts' = DOMAIN attempts
  BY <1>1, <1>2, <1>3
<1>5. QED
  BY <1>3, <1>4 DEF Attempted

-----------------------------------------------------------------------------
(* Actions that leave attempts and generated questions alone *)

LEMMA ContentKept ==
  ASSUME StudyInv, UNCHANGED <<snapshot, tried, ids, saved>>
  PROVE  Content' /\ Server'
BY DEF StudyInv, Content, Server, Sound, Booked, Unlocked, Exhausted, Attempted, snapshot, ids

LEMMA CountersKept == ASSUME StudyInv, UNCHANGED <<loaded, ids, bounds>> PROVE Counters'
BY DEF StudyInv, Counters, bounds, ids

LEMMA HelpKept ==
  ASSUME StudyInv, UNCHANGED <<hinted, feedback, open, tried, asked, strayed>>, pending' \subseteq pending
  PROVE  Help'
BY DEF StudyInv, Help, asked

LEMMA ViewKept ==
  ASSUME StudyInv, UNCHANGED <<view, attempts, sourceOf>>
  PROVE  View'
BY DEF StudyInv, View, view, Exhausted, Attempted

\* A choice of topic and question that keeps the two together.
LEMMA ChoiceKeeps ==
  ASSUME StudyInv, UNCHANGED <<snapshot, help, sync, ids, tried, asked>>, View'
  PROVE  StudyInv'
<1>1. Content' /\ Server'
  BY ContentKept DEF sync
<1>2. Help' /\ Counters'
  BY HelpKept, CountersKept DEF help, sync, snapshot
<1>3. QED
  BY <1>1, <1>2 DEF StudyInv

LEMMA ChooseStep ==
  ASSUME StudyInv, \/ \E t \in Topics : SelectTopic(t)
                   \/ SelectProject
                   \/ \E q \in Real : SelectQuestion(q)
                   \/ MoveToNext
  PROVE  StudyInv'
<1>1. CASE \E t \in Topics : SelectTopic(t)
  <2>1. PICK t \in Topics : SelectTopic(t)
    BY <1>1
  <2>2. active' # None => active' \in Real /\ RealTopic[active'] = t
    BY <2>1, QueueIsOfTopic DEF SelectTopic
  <2>3. View'
    BY <2>1, <2>2, Parameters DEF SelectTopic, View, Existing, TopicIn
  <2>4. QED
    BY <2>1, <2>3, ChoiceKeeps DEF SelectTopic
<1>2. CASE SelectProject
  <2>1. View'
    BY <1>2 DEF SelectProject, View
  <2>2. QED
    BY <1>2, <2>1, ChoiceKeeps DEF SelectProject
<1>3. CASE \E q \in Real : SelectQuestion(q)
  <2>1. PICK q \in Real : SelectQuestion(q)
    BY <1>3
  <2>2. View'
    BY <2>1 DEF SelectQuestion, StudyInv, View, Existing, TopicIn, RealOf
  <2>3. QED
    BY <2>1, <2>2, ChoiceKeeps DEF SelectQuestion
<1>4. CASE MoveToNext
  <2>1. \/ active' = active
        \/ active' \in Real /\ RealTopic[active'] = selected
    <3> DEFINE others == RealOf(selected) \ {active}
    <3>1. active' \in IF others = {} THEN {active} ELSE Heads(attempts, others)
      BY <1>4 DEF MoveToNext
    <3>2. Heads(attempts, others) \subseteq RealOf(selected)
      BY DEF Heads
    <3> HIDE DEF others
    <3>3. active' = active \/ active' \in RealOf(selected)
      BY <3>1, <3>2
    <3>4. QED
      BY <3>3 DEF RealOf
  <2>2. UNCHANGED <<selected, dialog, sourceOf>> /\ dialog = None /\ review' = None /\ selected # None /\ active # None
    BY <1>4 DEF MoveToNext, CanMoveNext, Practising, snapshot
  <2>3. View'
    BY <2>1, <2>2 DEF StudyInv, View, Existing, TopicIn
  <2>4. QED
    BY <1>4, <2>3, ChoiceKeeps DEF MoveToNext
<1>5. QED
  BY <1>1, <1>2, <1>3, <1>4

\* The results dialog is opened on an exhausted topic, over one of its real questions.
LEMMA DialogStep ==
  ASSUME StudyInv, ViewResults \/ DismissSummary \/ RepeatAll \/ RepeatNotPerfect \/ ReviewSolutions
  PROVE  StudyInv'
<1>1. UNCHANGED <<snapshot, help, sync, ids, tried, asked, selected>>
  BY DEF ViewResults, DismissSummary, RepeatAll, RepeatNotPerfect, ReviewSolutions, CloseDialog
<1>2. UNCHANGED <<sourceOf, attempts, selected>> /\ \A t : Exhausted(attempts, t) => Exhausted(attempts', t)
  BY <1>1 DEF snapshot, Exhausted, Attempted
<1>3. CASE ViewResults
  <2>1. /\ UNCHANGED <<active, review>> /\ dialog' = selected
        /\ active \in Real /\ Exhausted(attempts, selected)
    BY <1>3 DEF ViewResults, ResultsReady
  <2>2. View'
    BY <1>2, <2>1 DEF StudyInv, View
  <2>3. QED
    BY <1>1, <2>2, ChoiceKeeps
<1>4. CASE DismissSummary
  <2>1. UNCHANGED <<active, review>> /\ dialog' = None
    BY <1>4 DEF DismissSummary, CloseDialog
  <2>2. View'
    BY <1>2, <2>1 DEF StudyInv, View
  <2>3. QED
    BY <1>1, <2>2, ChoiceKeeps
<1>5. CASE RepeatAll \/ RepeatNotPerfect
  <2>1. /\ active' # None => active' \in Real /\ RealTopic[active'] = selected
        /\ review' = None /\ dialog' = None /\ selected # None
    BY <1>5, QueueIsOfTopic DEF RepeatAll, RepeatNotPerfect, CloseDialog, OneOf, RealOf
  <2>2. View'
    BY <1>2, <2>1 DEF StudyInv, View, Existing, TopicIn
  <2>3. QED
    BY <1>1, <2>2, ChoiceKeeps
<1>6. CASE ReviewSolutions
  <2>1. UNCHANGED active /\ dialog' = None /\ dialog # None /\ review' = selected
    BY <1>6 DEF ReviewSolutions, CloseDialog
  <2>2. View'
    BY <1>2, <2>1 DEF StudyInv, View
  <2>3. QED
    BY <1>1, <2>2, ChoiceKeeps
<1>7. QED
  BY <1>3, <1>4, <1>5, <1>6

LEMMA HelpStep ==
  ASSUME StudyInv, NEW q \in Questions, CheckDirection(q) \/ RequestHint(q)
  PROVE  StudyInv'
<1>1. UNCHANGED <<snapshot, view, tried, ids, saved, loaded, saves, reloads, resets, open>>
  BY DEF CheckDirection, RequestHint, sync, bounds
<1>2. Content' /\ Server' /\ View'
  BY <1>1, ContentKept, ViewKept DEF snapshot
<1>3. CASE CheckDirection(q)
  <2>1. checks' \in 0..MaxChecks
    BY <1>3, Parameters DEF StudyInv, Counters, CheckDirection
  <2>2. /\ checks \in 0..MaxChecks - 1 /\ checks \in -1..MaxChecks - 1
        /\ [tone |-> "direction", id |-> checks] \in Feedback
    BY <1>3, Parameters DEF StudyInv, Counters, CheckDirection, Feedback
  <2>3. pending' \subseteq Request
    BY <1>3, <2>2 DEF StudyInv, Help, CheckDirection, Send, Request
  <2>4. /\ feedback' \in [Questions -> Feedback] /\ crossed' \subseteq Questions
        /\ checked' \in [Questions -> -1..MaxChecks - 1]
    BY <1>3, <2>2 DEF StudyInv, Help, CheckDirection
  <2>6. Help'
    BY <1>1, <1>3, <2>3, <2>4 DEF StudyInv, Help, CheckDirection, snapshot
  <2>5. QED
    BY <1>1, <1>2, <2>1, <2>6 DEF StudyInv, Counters, ids
<1>4. CASE RequestHint(q)
  BY <1>1, <1>2, <1>4 DEF StudyInv, Counters, Help, RequestHint, sync, bounds, snapshot, ids, asked
<1>5. QED
  BY <1>3, <1>4

-----------------------------------------------------------------------------
(* Actions that change attempts and generated questions *)

LEMMA RecordStep ==
  ASSUME StudyInv, NEW q \in Questions,
         RevealSolution(q) \/ \E score \in Scores : SubmitAnswer(q, score)
  PROVE  StudyInv'
<1>1. PICK score \in Scores, revealed \in BOOLEAN :
        /\ Answerable(q) /\ Record(q, score, revealed)
        /\ open' \subseteq open \cup {q}
        /\ \/ pending' = pending
           \/ pending' = pending \cup {[kind |-> "grade", q |-> q, id |-> nextId]}
  <2>1. CASE RevealSolution(q)
    BY <2>1, Parameters DEF RevealSolution
  <2>2. CASE \E score \in Scores : SubmitAnswer(q, score)
    BY <2>2 DEF SubmitAnswer, Send
  <2>3. QED
    BY <2>1, <2>2
<1>2. /\ attempts' \in Seq(Attempt) /\ Len(attempts') <= nextId'
      /\ nextId' = nextId + 1 /\ nextId' \in 0..MaxAttempts
      /\ Booked(attempts', sourceOf', tried')
      /\ \A p : Attempted(attempts, p) => Attempted(attempts', p)
  BY <1>1, RecordEffect
<1>3. UNCHANGED <<sourceOf, prompted, view, saved, loaded, bounds, hinted, origin>> /\ tried' = tried \cup {q}
  BY <1>1 DEF Record
<1>4. nextId \in Nat /\ MaxAttempts \in Nat
  BY Parameters DEF StudyInv, Counters
<1>5. summary' = summary \/ summary' = [summary EXCEPT ![selected] = Results(attempts', selected)]
  BY <1>1 DEF Record
<1>6. strayed' \subseteq strayed
  BY <1>1 DEF Record
<1>7. /\ summary' = [t \in Topics |-> summary'[t]]
      /\ \A t \in Topics : summary'[t] # None => DOMAIN summary'[t] = RealOf(t)
  <2>1. /\ summary = [t \in Topics |-> summary[t]]
        /\ \A t \in Topics : summary[t] # None => DOMAIN summary[t] = RealOf(t)
    BY DEF StudyInv, Content, Sound
  <2>2. DOMAIN Results(attempts', selected) = RealOf(selected)
    BY DEF Results
  <2>3. CASE summary' = summary
    BY <2>1, <2>3
  <2>4. CASE summary' = [summary EXCEPT ![selected] = Results(attempts', selected)]
    BY <2>1, <2>2, <2>4
  <2>5. QED
    BY <2>3, <2>4, <1>5
<1>8. Unlocked(attempts', sourceOf')
  BY <1>2, <1>3, UnlockedStays DEF StudyInv, Content
<1>9. Content'
  <2>1. Sound(attempts, sourceOf, prompted, summary, tried)'
    <3>1. tried' \subseteq Questions
      BY <1>3 DEF StudyInv, Content, Sound
    <3>2. QED
      BY <3>1, <1>2, <1>3, <1>7 DEF StudyInv, Content, Sound
  <2>2. Booked(attempts, sourceOf, tried)' /\ Unlocked(attempts, sourceOf)'
    BY <1>2, <1>8 DEF Booked, Existing, TopicIn, Unlocked, Exhausted, Attempted
  <2>3. QED
    BY <2>1, <2>2 DEF Content
<1>10. Server'
  <2>1. ASSUME saved # None PROVE Len(saved.attempts) <= nextId'
    <3>1. saved.attempts \in Seq(Attempt) /\ Len(saved.attempts) <= nextId
      BY <2>1 DEF StudyInv, Server, Sound
    <3>2. Len(saved.attempts) \in Nat
      BY <3>1
    <3>3. QED
      BY <3>1, <3>2, <1>2, <1>4
  <2>2. QED
    BY <1>3, <2>1 DEF StudyInv, Server, Sound
<1>11. View'
  <2>1. \A t : Exhausted(attempts, t) => Exhausted(attempts', t)
    BY <1>2, ExhaustedStays
  <2>2. QED
    BY <1>3, <2>1 DEF StudyInv, View, view
<1>12. Help'
  <2>1. feedback' \in [Questions -> Feedback]
    <3>1. feedback' = [feedback EXCEPT ![q] = [tone |-> IF revealed THEN "solution" ELSE "graded", id |-> nextId]]
      BY <1>1 DEF Record
    <3>2. nextId \in 0..MaxAttempts - 1
      BY <1>1, <1>4 DEF Record
    <3>3. [tone |-> IF revealed THEN "solution" ELSE "graded", id |-> nextId] \in Feedback
      BY <3>2 DEF Feedback
    <3>4. QED
      BY <3>1, <3>3 DEF StudyInv, Help
  <2>2. pending' \subseteq Request
    <3>1. nextId \in 0..MaxAttempts - 1
      BY <1>1, <1>4 DEF Record
    <3>2. QED
      BY <3>1, <1>1 DEF StudyInv, Help, Request
  <2>3. checked' \in [Questions -> -1..MaxChecks - 1] /\ crossed' = crossed
    <3>1. -1 \in -1..MaxChecks - 1
      BY Parameters
    <3>2. QED
      BY <1>1, <3>1 DEF Record, StudyInv, Help
  <2>4. QED
    BY <1>1, <1>3, <1>6, <2>1, <2>2, <2>3 DEF StudyInv, Help
<1>13. Counters'
  BY <1>2, <1>3 DEF StudyInv, Counters, bounds
<1>14. QED
  BY <1>9, <1>10, <1>11, <1>12, <1>13 DEF StudyInv

\* New generated questions come from real questions of the selected, exhausted topic.
LEMMA GenerateStep == ASSUME StudyInv, GenerateSimilar PROVE StudyInv'
<1>1. /\ selected # None /\ Exhausted(attempts, selected)
      /\ dialog' = None /\ review' = None
      /\ UNCHANGED <<attempts, prompted, summary, strayed, selected, help, saved, loaded,
                     bounds, nextId, tried, asked>>
  BY DEF GenerateSimilar
<1>2. PICK qs \in Sources(selected), vs \in SUBSET {v \in Variants : origin[v] = None} :
        \E source \in [vs -> qs] :
          /\ origin' = [v \in Variants |-> IF v \in vs THEN source[v] ELSE origin[v]]
          /\ sourceOf' = [v \in Variants |-> IF v \in vs THEN source[v] ELSE sourceOf[v]]
          /\ active' \in vs
          /\ Send([kind |-> "variants", topic |-> selected, qs |-> vs])
  BY DEF GenerateSimilar
<1>3. PICK source \in [vs -> qs] :
          /\ origin' = [v \in Variants |-> IF v \in vs THEN source[v] ELSE origin[v]]
          /\ sourceOf' = [v \in Variants |-> IF v \in vs THEN source[v] ELSE sourceOf[v]]
          /\ active' \in vs
          /\ Send([kind |-> "variants", topic |-> selected, qs |-> vs])
  BY <1>2
<1>4. qs \subseteq RealOf(selected)
  BY DEF Sources
<1>5. /\ sourceOf \in [Variants -> Real \cup {None}]
      /\ origin \in [Variants -> Real \cup {None}]
      /\ \A v \in Variants : sourceOf[v] # None => sourceOf[v] = origin[v]
  BY DEF StudyInv, Content, Sound, Counters
<1>6. \A v \in Variants :
        /\ v \in vs => /\ sourceOf[v] = None
                       /\ sourceOf'[v] \in Real /\ RealTopic[sourceOf'[v]] = selected
                       /\ origin'[v] = sourceOf'[v]
        /\ v \notin vs => sourceOf'[v] = sourceOf[v] /\ origin'[v] = origin[v]
  BY <1>3, <1>4, <1>5 DEF RealOf
<1>7. /\ sourceOf' \in [Variants -> Real \cup {None}]
      /\ origin' \in [Variants -> Real \cup {None}]
      /\ \A v \in Variants : origin[v] # None => origin'[v] = origin[v]
      /\ \A v \in Variants : sourceOf'[v] # None => sourceOf'[v] = origin'[v]
  BY <1>3, <1>4, <1>5, <1>6 DEF RealOf
<1>8. \A p \in Existing(sourceOf) : /\ p \in Existing(sourceOf')
                                    /\ TopicIn(sourceOf', p) = TopicIn(sourceOf, p)
  BY <1>6 DEF Existing, TopicIn
<1>9. Content'
  <2>1. Sound(attempts, sourceOf, prompted, summary, tried)'
    <3>1. prompted \subseteq {v \in Variants : sourceOf'[v] # None}
      BY <1>6 DEF StudyInv, Content, Sound
    <3>2. QED
      BY <1>1, <1>7, <3>1 DEF StudyInv, Content, Sound
  <2>2. Booked(attempts, sourceOf', tried)
    BY <1>8 DEF StudyInv, Content, Booked
  <2>3. Unlocked(attempts, sourceOf')
    BY <1>1, <1>6 DEF StudyInv, Content, Unlocked
  <2>4. QED
    BY <1>1, <2>1, <2>2, <2>3 DEF Content, Booked, Unlocked, Exhausted, Attempted
<1>10. Server'
  <2>1. ASSUME saved # None
        PROVE  \A v \in Variants : saved.sourceOf[v] # None => saved.sourceOf[v] = origin'[v]
    BY <1>5, <1>7, <2>1 DEF StudyInv, Server, Sound
  <2>2. QED
    BY <1>1, <2>1 DEF StudyInv, Server, Sound
<1>11. View'
  <2>1. active' \in Variants /\ active' \in vs /\ active' \notin Real
    BY <1>3, Parameters
  <2>2. active' \in Existing(sourceOf') /\ TopicIn(sourceOf', active') = selected
    BY <2>1, <1>6, Parameters DEF Existing, TopicIn, Questions
  <2>3. QED
    BY <1>1, <2>2 DEF StudyInv, View
<1>12. pending' \subseteq Request
  <2>1. selected \in Topics
    BY <1>1 DEF StudyInv, View
  <2>2. [kind |-> "variants", topic |-> selected, qs |-> vs] \in Request
    BY <2>1 DEF Request
  <2>3. QED
    BY <1>3, <2>2 DEF Send, StudyInv, Help
<1>13. Help' /\ Counters'
  BY <1>1, <1>7, <1>12 DEF StudyInv, Help, Counters, help, bounds, asked
<1>14. QED
  BY <1>9, <1>10, <1>11, <1>13 DEF StudyInv

-----------------------------------------------------------------------------
(* Replies of the provider *)

LEMMA ReplyKeeps ==
  ASSUME StudyInv, NEW request, Replied(request)
  PROVE  /\ UNCHANGED <<sourceOf, view, hinted, open, saved, loaded, bounds, ids, tried, asked>>
         /\ pending' \subseteq pending
         /\ Server' /\ Counters'
BY DEF Replied, StudyInv, Server, Counters, Sound, bounds, ids

\* A reply that leaves the attempts alone changes feedback or texts only.
LEMMA QuietReplyStep ==
  ASSUME StudyInv, NEW request \in pending,
         NoReply(request) \/ DirectionReply(request) \/ VariantsReply(request)
  PROVE  StudyInv'
<1>1. Replied(request) /\ UNCHANGED <<attempts, summary, strayed>>
  BY DEF NoReply, DirectionReply, VariantsReply
<1>2. /\ UNCHANGED <<sourceOf, view, hinted, open, saved, loaded, bounds, ids, tried, asked>>
      /\ pending' \subseteq pending
      /\ Server' /\ Counters'
  BY <1>1, ReplyKeeps
<1>3. View'
  BY <1>1, <1>2, ViewKept
<1>4. prompted' \subseteq {v \in Variants : sourceOf[v] # None}
  <2>1. prompted \subseteq {v \in Variants : sourceOf[v] # None}
    BY DEF StudyInv, Content, Sound
  <2>2. prompted' \subseteq prompted \cup {v \in Variants : sourceOf[v] # None}
    BY DEF NoReply, DirectionReply, VariantsReply, Generated
  <2>3. QED
    BY <2>1, <2>2
<1>5. Content'
  BY <1>1, <1>2, <1>4 DEF StudyInv, Content, Sound, Booked, Unlocked, Exhausted, Attempted, ids
<1>6. feedback' \in [Questions -> Feedback]
  <2>1. feedback \in [Questions -> Feedback]
    BY DEF StudyInv, Help
  <2>2. request.kind = "direction" => [tone |-> "direction", id |-> request.id] \in Feedback
    BY DEF StudyInv, Help, Request, Feedback
  <2>3. \/ feedback' = feedback
        \/ /\ request.kind = "direction"
           /\ feedback' = [feedback EXCEPT ![request.q] = [tone |-> "direction", id |-> request.id]]
    BY DEF NoReply, DirectionReply, VariantsReply
  <2>4. QED
    BY <2>1, <2>2, <2>3
<1>7. Help'
  BY <1>1, <1>2, <1>6 DEF StudyInv, Help, asked
<1>8. QED
  BY <1>2, <1>3, <1>5, <1>7 DEF StudyInv

LEMMA GradeReplyStep ==
  ASSUME StudyInv, NEW request \in pending, GradeReply(request)
  PROVE  StudyInv'
<1>1. /\ attempts' \in Seq(Attempt) /\ Len(attempts') = Len(attempts)
      /\ \A i \in DOMAIN attempts' : /\ i \in DOMAIN attempts
                                     /\ attempts'[i].q = attempts[i].q
                                     /\ attempts'[i].topic = attempts[i].topic
      /\ \A p : Attempted(attempts, p) => Attempted(attempts', p)
  BY RegradeEffect
<1>2. /\ UNCHANGED <<sourceOf, view, hinted, open, saved, loaded, bounds, ids, tried, asked>>
      /\ pending' \subseteq pending
      /\ Server' /\ Counters'
      /\ UNCHANGED prompted
  BY ReplyKeeps DEF GradeReply
<1>3. View'
  <2>1. \A t : Exhausted(attempts, t) => Exhausted(attempts', t)
    BY <1>1, ExhaustedStays
  <2>2. QED
    BY <1>2, <2>1 DEF StudyInv, View, view
<1>4. Sound(attempts, sourceOf, prompted, summary, tried)'
  <2>1. /\ summary = [t \in Topics |-> summary[t]]
        /\ \A t \in Topics : summary[t] # None => DOMAIN summary[t] = RealOf(t)
    BY DEF StudyInv, Content, Sound
  <2>2. DOMAIN Results(attempts', selected) = RealOf(selected)
    BY DEF Results
  <2>3. \/ summary' = summary
        \/ summary' = [summary EXCEPT ![selected] = Results(attempts', selected)]
    BY DEF GradeReply
  <2>4. /\ summary' = [t \in Topics |-> summary'[t]]
        /\ \A t \in Topics : summary'[t] # None => DOMAIN summary'[t] = RealOf(t)
    <3>1. CASE summary' = summary
      BY <2>1, <3>1
    <3>2. CASE summary' = [summary EXCEPT ![selected] = Results(attempts', selected)]
      BY <2>1, <2>2, <3>2
    <3>3. QED
      BY <2>3, <3>1, <3>2
  <2>5. QED
    BY <1>1, <1>2, <2>4 DEF StudyInv, Content, Sound, ids
<1>5. Content'
  <2>1. Booked(attempts', sourceOf, tried)
    BY <1>1 DEF StudyInv, Content, Booked
  <2>2. Unlocked(attempts', sourceOf)
    BY <1>1, UnlockedStays DEF StudyInv, Content
  <2>3. QED
    BY <1>2, <1>4, <2>1, <2>2 DEF Content, Booked, Unlocked, Exhausted, Attempted
<1>6. request.q \in Questions /\ request.id \in 0..MaxAttempts - 1
  BY DEF GradeReply, StudyInv, Help, Request
<1>7. feedback' \in [Questions -> Feedback]
  <2>1. [tone |-> "graded", id |-> request.id] \in Feedback
    BY <1>6 DEF Feedback
  <2>2. \/ feedback' = feedback
        \/ feedback' = [feedback EXCEPT ![request.q] = [tone |-> "graded", id |-> request.id]]
    BY DEF GradeReply
  <2>3. QED
    BY <2>1, <2>2 DEF StudyInv, Help
<1>8. strayed' \subseteq Topics
  <2>1. \A i \in DOMAIN attempts : attempts[i].topic \in Topics
    <3>1. attempts \in Seq(Attempt)
      BY DEF StudyInv, Content, Sound
    <3>2. \A i \in DOMAIN attempts : attempts[i] \in Attempt
      BY <3>1
    <3>3. QED
      BY <3>2 DEF Attempt
  <2>2. QED
    BY <2>1 DEF GradeReply, StudyInv, Help
<1>9. Help'
  BY <1>2, <1>7, <1>8 DEF StudyInv, Help, asked
<1>10. QED
  BY <1>2, <1>3, <1>5, <1>9 DEF StudyInv

-----------------------------------------------------------------------------
(* Saving, loading, starting over *)

\* The page's content satisfies what is asked of the server's.
LEMMA CurrentIsSound ==
  ASSUME StudyInv
  PROVE  /\ Sound(Current.attempts, Current.sourceOf, Current.prompted, Current.summary, Current.tried)
         /\ Booked(Current.attempts, Current.sourceOf, Current.tried)
         /\ Unlocked(Current.attempts, Current.sourceOf)
         /\ Current.strayed \subseteq Topics
<1>1. /\ Current.attempts = attempts /\ Current.sourceOf = sourceOf /\ Current.prompted = prompted
      /\ Current.summary = summary /\ Current.tried = tried /\ Current.strayed = strayed
  BY DEF Current
<1>2. QED
  BY <1>1 DEF StudyInv, Content, Help

\* What the server holds is what it held, or what the page holds.
LEMMA ServerTakes ==
  ASSUME StudyInv, saved' \in {saved, None, Current}, UNCHANGED ids
  PROVE  Server'
<1>1. CASE saved' = saved
  BY <1>1 DEF StudyInv, Server, Sound, ids
<1>2. CASE saved' = None
  BY <1>2 DEF Server
<1>3. CASE saved' = Current
  <2>1. /\ Sound(saved'.attempts, saved'.sourceOf, saved'.prompted, saved'.summary, saved'.tried)
        /\ Booked(saved'.attempts, saved'.sourceOf, saved'.tried)
        /\ Unlocked(saved'.attempts, saved'.sourceOf)
        /\ saved'.strayed \subseteq Topics
    BY <1>3, CurrentIsSound
  <2>2. QED
    BY <2>1 DEF Server, Sound, ids
<1>4. QED
  BY <1>1, <1>2, <1>3

LEMMA SaveStep == ASSUME StudyInv, Save \/ LoadNothing \/ Reload PROVE StudyInv'
<1>1. UNCHANGED <<snapshot, selected, active, review, help, ids, tried, asked>>
  BY DEF Save, LoadNothing, Reload, view
<1>2. dialog' \in {dialog, None} /\ pending' \subseteq pending /\ saved' \in {saved, None, Current}
  BY DEF Save, LoadNothing, Reload, view
<1>3. Counters'
  <2>1. CASE Save
    BY <2>1, Parameters DEF StudyInv, Counters, Save, ids
  <2>2. CASE LoadNothing
    BY <2>2 DEF StudyInv, Counters, LoadNothing, bounds, ids
  <2>3. CASE Reload
    <3>1. reloads < MaxReloads /\ reloads' = reloads + 1 /\ loaded' = FALSE
      BY <2>3 DEF Reload
    <3>2. UNCHANGED <<nextId, origin, checks, saves, resets>>
      BY <2>3 DEF Reload, ids
    <3>3. reloads \in 0..MaxReloads /\ MaxReloads \in Nat
      BY Parameters DEF StudyInv, Counters
    <3>4. reloads' \in 0..MaxReloads
      BY <3>1, <3>3
    <3>5. QED
      BY <3>1, <3>2, <3>4 DEF StudyInv, Counters
  <2>4. QED
    BY <2>1, <2>2, <2>3
<1>4. Content'
  BY <1>1 DEF StudyInv, Content, Sound, Booked, Unlocked, Exhausted, Attempted, snapshot, ids
<1>5. Server'
  BY <1>1, <1>2, ServerTakes
<1>6. View'
  BY <1>1, <1>2 DEF StudyInv, View, snapshot, Exhausted, Attempted
<1>7. Help'
  BY <1>1, <1>2 DEF StudyInv, Help, help, snapshot, asked
<1>8. QED
  BY <1>3, <1>4, <1>5, <1>6, <1>7 DEF StudyInv

\* The server's content becomes the page's.
LEMMA LoadStep == ASSUME StudyInv, LoadApply PROVE StudyInv'
<1>1. /\ saved # None /\ loaded' = TRUE
      /\ attempts' = saved.attempts /\ sourceOf' = saved.sourceOf /\ prompted' = saved.prompted
      /\ summary' = saved.summary /\ strayed' = saved.strayed
      /\ tried' = tried \cup saved.tried
      /\ dialog' = None /\ review' = None
      /\ UNCHANGED <<help, pending, saved, bounds, ids, asked>>
  BY DEF LoadApply
<1>2. /\ Sound(saved.attempts, saved.sourceOf, saved.prompted, saved.summary, saved.tried)
      /\ Booked(saved.attempts, saved.sourceOf, saved.tried)
      /\ Unlocked(saved.attempts, saved.sourceOf)
      /\ saved.strayed \subseteq Topics
  BY <1>1 DEF StudyInv, Server
<1>3. Content'
  <2>1. Sound(attempts, sourceOf, prompted, summary, tried)'
    <3>1. tried \subseteq Questions /\ saved.tried \subseteq Questions
      BY <1>2 DEF StudyInv, Content, Sound
    <3>2. QED
      BY <1>1, <1>2, <3>1 DEF Sound, ids
  <2>2. Booked(attempts, sourceOf, tried)'
    BY <1>1, <1>2 DEF Booked, Existing, TopicIn
  <2>3. Unlocked(attempts, sourceOf)'
    BY <1>1, <1>2 DEF Unlocked, Exhausted, Attempted
  <2>4. QED
    BY <2>1, <2>2, <2>3 DEF Content
<1>4. Server'
  BY <1>1, ServerTakes
<1>5. View'
  <2>1. selected' \in Topics /\ (selected # None => selected' = selected)
    BY DEF LoadApply, StudyInv, View
  <2>2. CASE active \in Existing(sourceOf') /\ active # None
    <3>1. active' = active /\ selected # None /\ selected' = selected
      BY <2>1, <2>2 DEF LoadApply, Existing, StudyInv, View
    <3>2. TopicIn(sourceOf', active) = TopicIn(sourceOf, active)
      BY <1>1, <1>2, <2>2 DEF StudyInv, Content, View, Sound, Existing, TopicIn
    <3>3. QED
      BY <1>1, <2>1, <2>2, <3>1, <3>2 DEF StudyInv, View
  <2>3. CASE active \notin Existing(sourceOf') \/ active = None
    <3>1. active' \in OneOf(Heads(attempts', RealOf(selected')))
      BY <2>3, Parameters DEF LoadApply, Existing, Questions
    <3>2. active' # None => active' \in Real /\ RealTopic[active'] = selected'
      BY <3>1, QueueIsOfTopic
    <3>3. QED
      BY <1>1, <2>1, <3>2, Parameters DEF View, Existing, TopicIn
  <2>4. QED
    BY <2>2, <2>3
<1>6. Help' /\ Counters'
  BY <1>1, <1>2 DEF StudyInv, Help, Counters, help, bounds, ids, asked
<1>7. QED
  BY <1>3, <1>4, <1>5, <1>6 DEF StudyInv

LEMMA StartOverStep == ASSUME StudyInv, StartOver PROVE StudyInv'
<1>1. /\ attempts' = <<>> /\ sourceOf' = NoSource /\ prompted' = {} /\ summary' = NoSummary
      /\ selected' = None /\ active' = None /\ dialog' = None /\ review' = None
      /\ hinted' = {} /\ feedback' = Blank /\ open' = {}
      /\ tried' = {} /\ checked' = NoCheck /\ crossed' = {} /\ strayed' = {}
      /\ UNCHANGED <<pending, saved, loaded, checks, saves, reloads, ids>>
  BY DEF StartOver
<1>2. <<>> \in Seq(Attempt) /\ Len(<<>>) = 0 /\ DOMAIN <<>> = {}
  OBVIOUS
<1>3. Content'
  <2>1. nextId \in Nat
    BY Parameters DEF StudyInv, Counters
  <2>2. Sound(attempts, sourceOf, prompted, summary, tried)'
    BY <1>1, <1>2, <2>1 DEF Sound, NoSource, NoSummary, ids
  <2>3. Booked(attempts, sourceOf, tried)' /\ Unlocked(attempts, sourceOf)'
    BY <1>1, <1>2 DEF Booked, Unlocked, NoSource
  <2>4. QED
    BY <2>2, <2>3 DEF Content
<1>4. Server'
  BY <1>1, ServerTakes
<1>5. View'
  BY <1>1 DEF View
<1>6. Help'
  <2>1. Blank \in [Questions -> Feedback] /\ NoCheck \in [Questions -> -1..MaxChecks - 1]
    BY Parameters DEF Blank, Feedback, NoCheck
  <2>2. QED
    BY <1>1, <2>1 DEF StudyInv, Help
<1>7. Counters'
  BY <1>1, Parameters DEF StartOver, StudyInv, Counters, ids
<1>8. QED
  BY <1>3, <1>4, <1>5, <1>6, <1>7 DEF StudyInv

-----------------------------------------------------------------------------
(* The invariant and the theorems *)

LEMMA StudyInit == Init => StudyInv
<1> SUFFICES ASSUME Init PROVE StudyInv
  OBVIOUS
<1>1. <<>> \in Seq(Attempt) /\ Len(<<>>) = 0 /\ DOMAIN <<>> = {}
  OBVIOUS
<1>2. Content
  BY <1>1 DEF Init, Content, Sound, Booked, Unlocked, NoSource, NoSummary
<1>3. Server /\ View
  BY DEF Init, Server, View
<1>4. Help
  <2>1. Blank \in [Questions -> Feedback] /\ NoCheck \in [Questions -> -1..MaxChecks - 1]
    BY Parameters DEF Blank, Feedback, NoCheck
  <2>2. QED
    BY <2>1 DEF Init, Help
<1>5. Counters
  <2>1. /\ 0 \in 0..MaxAttempts /\ 0 \in 0..MaxChecks /\ 0 \in 0..MaxSaves
        /\ 0 \in 0..MaxReloads /\ 0 \in 0..MaxResets
    BY Parameters
  <2>2. NoSource \in [Variants -> Real \cup {None}]
    BY DEF NoSource
  <2>3. QED
    BY <2>1, <2>2 DEF Init, Counters
<1>6. QED
  BY <1>2, <1>3, <1>4, <1>5 DEF StudyInv

LEMMA StudyStep == ASSUME StudyInv, [Next]_vars PROVE StudyInv'
<1>1. CASE UNCHANGED vars
  <2>1. Content' /\ Server' /\ View'
    BY <1>1, ContentKept, ViewKept DEF vars, snapshot, sync
  <2>2. Help' /\ Counters'
    BY <1>1, HelpKept, CountersKept DEF vars, snapshot, sync, help
  <2>3. QED
    BY <2>1, <2>2 DEF StudyInv
<1>2. ASSUME NEW request \in pending, Reply(request) PROVE StudyInv'
  BY <1>2, QuietReplyStep, GradeReplyStep DEF Reply
<1>3. CASE Next
  BY <1>2, <1>3, ChooseStep, DialogStep, HelpStep, RecordStep, GenerateStep, SaveStep,
     LoadStep, StartOverStep DEF Next
<1>4. QED
  BY <1>1, <1>3

\* The page and the server always hold a course in order: attempts are of its questions and
\* booked on their topics, and what the page shows fits what was attempted.
THEOREM StudyAlwaysInOrder == Spec => []StudyInv
<1>1. QED
  BY StudyInit, StudyStep, PTL DEF Spec

\* The store stays well formed over every sequence of store actions, replies and loads.
THEOREM StudyTypeCorrect == Spec => []TypeOK
<1>1. StudyInv => TypeOK
  <2> SUFFICES ASSUME StudyInv PROVE TypeOK
    OBVIOUS
  <2>1. attempts \in Seq(Attempt) /\ Len(attempts) <= MaxAttempts
    BY Parameters DEF StudyInv, Content, Sound, Counters
  <2>2. active \in Real \cup Generated \cup {None}
    BY DEF StudyInv, View, Existing, Generated
  <2>3. QED
    BY <2>1, <2>2 DEF StudyInv, Content, Sound, View, Help, Counters, TypeOK, Generated
<1>2. QED
  BY <1>1, StudyAlwaysInOrder, PTL

\* Generated questions exist only in topics whose real questions have all been attempted,
\* whatever copy of the server replaces the page's attempts (generateSimilarQuestions,
\* applyServerSnapshot).
THEOREM GenerationStaysUnlocked == Spec => []GenerationUnlocked
<1>1. StudyInv => GenerationUnlocked
  BY Parameters DEF StudyInv, Content, Unlocked, GenerationUnlocked, Generated, TopicOf
<1>2. QED
  BY <1>1, StudyAlwaysInOrder, PTL

\* Attempts are booked on the topic of their question, because the active question always
\* belongs to the selected topic.
THEOREM ActiveStaysInTopic == Spec => []ActiveInTopic
<1>1. StudyInv => ActiveInTopic
  BY DEF StudyInv, Content, View, Booked, TopicIn, TopicOf, ActiveInTopic
<1>2. QED
  BY <1>1, StudyAlwaysInOrder, PTL

\* No sequence of selections, results, reviews, loads and late replies puts the solution of
\* a question on the screen that the learner has neither submitted nor revealed.
THEOREM SolutionsStayHidden == Spec => []NoSpoilers
<1>1. StudyInv => NoSpoilers
  <2> SUFFICES ASSUME StudyInv, NEW q \in OnScreen PROVE q \in tried
    BY DEF NoSpoilers
  <2>1. \A p : Attempted(attempts, p) => p \in tried
    BY DEF StudyInv, Content, Booked, Attempted
  <2>2. selected # None
    BY DEF OnScreen
  <2>3. CASE review = selected
    <3>1. Exhausted(attempts, selected) /\ (active = None \/ active \in RealOf(selected))
      BY <2>2, <2>3 DEF StudyInv, View, TopicIn, RealOf
    <3>2. \A p \in RealOf(selected) : p \in tried
      BY <2>1, <3>1 DEF Exhausted
    <3>3. QED
      BY <2>2, <2>3, <3>1, <3>2 DEF OnScreen
  <2>4. CASE review # selected
    BY <2>1, <2>2, <2>4 DEF OnScreen, StudyInv, Help
  <2>5. QED
    BY <2>3, <2>4
<1>2. QED
  BY <1>1, StudyAlwaysInOrder, PTL

-----------------------------------------------------------------------------
(* The newest and the best attempt exist: NumberLemmas *)

LEMMA AttemptsAre ==
  ASSUME NEW as, as \in Seq(Attempt)
  PROVE  /\ Len(as) \in Nat /\ DOMAIN as = 1..Len(as)
         /\ \A i \in DOMAIN as : i \in 1..Len(as) /\ i \in Nat /\ as[i] \in Attempt
<1>1. Len(as) \in Nat /\ as \in [1..Len(as) -> Attempt]
  BY LenProperties
<1>2. DOMAIN as = 1..Len(as) /\ \A i \in 1..Len(as) : as[i] \in Attempt
  BY <1>1
<1>3. \A i \in 1..Len(as) : i \in Nat
  BY <1>1
<1>4. QED
  BY <1>1, <1>2, <1>3

\* Ordered by score, then by age, no two attempts come before each other.
LEMMA FirstOfTheBest ==
  ASSUME NEW m \in Nat, NEW n \in Nat, NEW x \in 0..100, NEW y \in 0..100,
         y < x \/ (y = x /\ m <= n), x < y \/ (x = y /\ n <= m)
  PROVE  m = n
OBVIOUS

Newest(as, q, i) == as[i].q = q /\ \A k \in DOMAIN as : as[k].q = q => k <= i

LEMMA NewestExists ==
  ASSUME NEW as, as \in Seq(Attempt), NEW q, Attempted(as, q)
  PROVE  \E i \in DOMAIN as : Newest(as, q, i)
<1> DEFINE own == {i \in DOMAIN as : as[i].q = q}
<1>1. Len(as) \in Nat /\ own # {} /\ own \subseteq 0..Len(as)
  <2>1. Len(as) \in Nat /\ DOMAIN as = 1..Len(as)
    BY AttemptsAre
  <2>2. \A n \in Nat : 1..n \subseteq 0..n
    OBVIOUS
  <2>3. own # {}
    BY DEF Attempted
  <2>4. QED
    BY <2>1, <2>2, <2>3
<1>2. \E i \in own : \A k \in own : k <= i
  <2> HIDE DEF own
  <2>1. QED
    BY <1>1, GreatestNumber
<1>3. QED
  BY <1>2 DEF Newest

LEMMA LastIsNewest ==
  ASSUME NEW as, as \in Seq(Attempt), NEW q, NEW i, i \in DOMAIN as, Newest(as, q, i)
  PROVE  Last(as, q) = i
<1> DEFINE j == Last(as, q)
<1>1. j \in DOMAIN as /\ Newest(as, q, j)
  BY DEF Last, Newest
<1> HIDE DEF j
<1>2. i <= j /\ j <= i
  BY <1>1 DEF Newest
<1>3. i \in Nat /\ j \in Nat
  BY <1>1, AttemptsAre
<1>4. i = j
  BY <1>2, <1>3
<1>5. QED
  BY <1>4 DEF j

LEMMA BestExists ==
  ASSUME NEW as, as \in Seq(Attempt), NEW q, Attempted(as, q)
  PROVE  \E i \in DOMAIN as : IsBest(as, q, i)
<1> DEFINE own == {i \in DOMAIN as : as[i].q = q}
           scores == {as[i].score : i \in own}
<1>1. \A i \in own : i \in Nat /\ as[i].score \in 0..100
  <2>1. \A i \in DOMAIN as : i \in Nat /\ as[i] \in Attempt
    BY AttemptsAre
  <2>2. QED
    BY <2>1, SessionParameters DEF Attempt
<1>2. own # {}
  BY DEF Attempted
<1>3. \E top \in scores : \A x \in scores : x <= top
  <2>1. scores \subseteq 0..100 /\ scores # {}
    BY <1>1, <1>2
  <2> HIDE DEF scores
  <2>2. QED
    BY <2>1, GreatestNumber
<1>4. PICK b \in own : \A k \in own : as[k].score <= as[b].score
  BY <1>3
<1> DEFINE first == {k \in own : as[k].score = as[b].score}
<1>5. \E i \in first : \A k \in first : i <= k
  <2>1. first \subseteq Nat /\ first # {}
    BY <1>1, <1>4
  <2> HIDE DEF first
  <2>2. QED
    BY <2>1, LeastNumber
<1>6. PICK i \in own : /\ as[i].score = as[b].score
                       /\ \A k \in own : as[k].score = as[b].score => i <= k
  BY <1>5
<1>7. \A k \in own : as[k].score < as[i].score \/ (as[k].score = as[i].score /\ i <= k)
  <2> HIDE DEF own
  <2>1. ASSUME NEW k \in own, as[k].score # as[i].score PROVE as[k].score < as[i].score
    <3>1. \A x, y \in 0..100 : x <= y /\ x # y => x < y
      OBVIOUS
    <3>2. as[k].score \in 0..100 /\ as[i].score \in 0..100 /\ as[k].score <= as[i].score
      BY <1>1, <1>4, <1>6
    <3>3. QED
      BY <3>1, <3>2, <2>1
  <2>2. QED
    BY <1>6, <2>1
<1>8. QED
  BY <1>7 DEF IsBest

-----------------------------------------------------------------------------
(* Revealed solutions and the feedback that is shown                       *)

\* Every revealed attempt is of an open question, and the only one of it.
Once(as) ==
  \A i \in DOMAIN as : as[i].revealed =>
    /\ as[i].q \in open
    /\ \A k \in DOMAIN as : as[k].revealed /\ as[k].q = as[i].q => k = i

\* What a load may bring back was revealed once too, and nothing is loaded before the
\* first reload.
Opened ==
  /\ resets = 0 \/ reloads = 0 => Once(attempts)
  /\ resets = 0 /\ saved # None => Once(saved.attempts)
  /\ reloads = 0 /\ ~loaded => saved = None
  /\ reloads = 0 => \A q \in open : \E i \in DOMAIN attempts :
                      attempts[i].q = q /\ attempts[i].revealed

\* The check numbered i is the newest of the question, or was still unanswered then.
OfCheck(q, i) == i = checked[q] \/ (q \in crossed /\ i < checked[q])

\* The checks that are still unanswered.
Awaited ==
  \A r \in pending : r.kind = "direction" =>
    /\ r.id < checks
    /\ checked[r.q] # -1 => OfCheck(r.q, r.id)

Advised ==
  \A q \in Questions :
    /\ feedback[q].tone = "direction" => checked[q] # -1 /\ OfCheck(q, feedback[q].id)
    /\ feedback[q].tone \in {"graded", "solution"} /\ reloads = 0 =>
         \E i \in DOMAIN attempts : Newest(attempts, q, i) /\ attempts[i].id = feedback[q].id

Shown == StudyInv /\ Opened /\ Advised /\ Awaited

\* Steps that leave the attempts and what is shown of them alone.
LEMMA ShownKept ==
  ASSUME Shown, StudyInv', UNCHANGED <<attempts, open, feedback, asked, resets>>,
         checks' = checks, \A r \in pending' : r.kind = "direction" => r \in pending,
         saved' \in {saved, None, Current},
         reloads' = 0 => reloads = 0 /\ (loaded' \/ UNCHANGED <<loaded, saved>>)
  PROVE  Shown'
<1>1. saved' = Current => saved'.attempts = attempts
  BY DEF Current
<1>2. Opened'
  BY <1>1 DEF Shown, Opened, Once
<1>3. Advised' /\ Awaited'
  BY DEF Shown, Advised, Awaited, OfCheck, Newest, asked
<1>4. QED
  BY <1>2, <1>3 DEF Shown

\* The attempts after one more, entry by entry.
LEMMA RecordAppends ==
  ASSUME StudyInv, NEW q, NEW score, NEW revealed \in BOOLEAN, Record(q, score, revealed)
  PROVE  /\ Len(attempts) \in Nat /\ DOMAIN attempts = 1..Len(attempts)
         /\ DOMAIN attempts' = 1..(Len(attempts) + 1)
         /\ \A i \in DOMAIN attempts : i \in Nat /\ i <= Len(attempts) /\ attempts'[i] = attempts[i]
         /\ attempts'[Len(attempts) + 1].id = nextId
         /\ attempts'[Len(attempts) + 1].q = q
         /\ attempts'[Len(attempts) + 1].revealed = revealed
<1> DEFINE a == [id |-> nextId, q |-> q, topic |-> selected, score |-> score,
                 revealed |-> revealed, direction |-> feedback[q].tone = "direction"]
<1>1. attempts \in Seq(Attempt)
  BY DEF StudyInv, Content, Sound
<1>2. attempts \in Seq(Attempt \cup {a}) /\ attempts' = Append(attempts, a)
  BY <1>1 DEF Record
<1> HIDE DEF a
<1>3. /\ Len(attempts) \in Nat /\ Len(attempts') = Len(attempts) + 1
      /\ DOMAIN attempts = 1..Len(attempts) /\ DOMAIN attempts' = 1..Len(attempts')
      /\ \A i \in 1..Len(attempts) : attempts'[i] = attempts[i]
      /\ attempts'[Len(attempts) + 1] = a
  BY <1>2, AppendProperties, LenProperties
<1>4. \A i \in DOMAIN attempts : i \in Nat /\ i <= Len(attempts)
  BY <1>3
<1>5. QED
  BY <1>3, <1>4 DEF a

LEMMA RecordShown ==
  ASSUME Shown, StudyInv', NEW q \in Questions,
         RevealSolution(q) \/ \E score \in Scores : SubmitAnswer(q, score)
  PROVE  Shown'
<1>1. PICK score \in Scores, revealed \in BOOLEAN :
        /\ Record(q, score, revealed)
        /\ q \notin open
        /\ open' = IF revealed THEN open \cup {q} ELSE open
        /\ \A r \in pending' : r.kind = "direction" => r \in pending
  <2>1. CASE RevealSolution(q)
    BY <2>1, Parameters DEF RevealSolution, Answerable
  <2>2. CASE \E score \in Scores : SubmitAnswer(q, score)
    <3>1. PICK score \in Scores : SubmitAnswer(q, score)
      BY <2>2
    <3>2. Record(q, score, FALSE) /\ q \notin open /\ open' = open
      BY <3>1 DEF SubmitAnswer, Answerable
    <3>3. \A r \in pending' : r.kind = "direction" => r \in pending
      BY <3>1 DEF SubmitAnswer, Send
    <3>4. QED
      BY <3>2, <3>3
  <2>3. QED
    BY <2>1, <2>2
<1>2. /\ UNCHANGED <<saved, loaded, resets, reloads, checks, crossed>>
      /\ feedback' = [feedback EXCEPT ![q] =
                        [tone |-> IF revealed THEN "solution" ELSE "graded", id |-> nextId]]
      /\ checked' = [checked EXCEPT ![q] = -1]
      /\ \A p \in Questions : p # q => checked'[p] = checked[p]
      /\ checked'[q] = -1
  BY <1>1 DEF Record, bounds, Shown, StudyInv, Help
<1> DEFINE n == Len(attempts) + 1
<1>3. /\ n \in Nat /\ n \in DOMAIN attempts' /\ n \notin DOMAIN attempts
      /\ DOMAIN attempts' = DOMAIN attempts \cup {n}
      /\ \A i \in DOMAIN attempts : i \in Nat /\ i <= n /\ attempts'[i] = attempts[i]
      /\ attempts'[n].q = q /\ attempts'[n].revealed = revealed /\ attempts'[n].id = nextId
  <2>1. \A l \in Nat : /\ l + 1 \in Nat /\ l + 1 \in 1..(l + 1) /\ l + 1 \notin 1..l
                       /\ 1..(l + 1) = 1..l \cup {l + 1}
                       /\ \A i \in Nat : i <= l => i <= l + 1
    OBVIOUS
  <2>2. /\ Len(attempts) \in Nat /\ DOMAIN attempts = 1..Len(attempts)
        /\ DOMAIN attempts' = 1..n
        /\ \A i \in DOMAIN attempts : i \in Nat /\ i <= Len(attempts) /\ attempts'[i] = attempts[i]
        /\ attempts'[n].q = q /\ attempts'[n].revealed = revealed /\ attempts'[n].id = nextId
    BY <1>1, RecordAppends DEF Shown
  <2>3. QED
    BY <2>1, <2>2
<1> HIDE DEF n
<1>4. Opened'
  <2>1. ASSUME Once(attempts) PROVE Once(attempts)'
    BY <1>1, <1>3, <2>1 DEF Once
  <2>2. ASSUME saved # None, Once(saved.attempts) PROVE Once(saved.attempts)'
    BY <1>1, <1>2, <2>2 DEF Once
  <2>3. ASSUME reloads = 0, NEW p \in open'
        PROVE  \E i \in DOMAIN attempts' : attempts'[i].q = p /\ attempts'[i].revealed
    <3>1. CASE p \in open
      <4>1. PICK i \in DOMAIN attempts : attempts[i].q = p /\ attempts[i].revealed
        BY <2>3, <3>1 DEF Shown, Opened
      <4>2. QED
        BY <1>3, <4>1
    <3>2. CASE p \notin open
      BY <1>1, <1>3, <3>2
    <3>3. QED
      BY <3>1, <3>2
  <2>4. QED
    BY <1>2, <2>1, <2>2, <2>3 DEF Shown, Opened
<1>5. Advised'
  <2>1. ASSUME NEW p \in Questions, p # q PROVE feedback'[p] = feedback[p]
    BY <1>2, <2>1 DEF Shown, StudyInv, Help
  <2>2. feedback'[q].tone \in {"graded", "solution"} /\ feedback'[q].id = nextId
    BY <1>2 DEF Shown, StudyInv, Help
  <2>3. Newest(attempts', q, n)
    BY <1>3 DEF Newest
  <2>4. ASSUME NEW p \in Questions, p # q, NEW i \in DOMAIN attempts, Newest(attempts, p, i)
        PROVE  i \in DOMAIN attempts' /\ Newest(attempts', p, i) /\ attempts'[i] = attempts[i]
    BY <1>3, <2>4 DEF Newest
  <2>5. ASSUME NEW p \in Questions, feedback'[p].tone = "direction"
        PROVE  checked'[p] # -1 /\ OfCheck(p, feedback[p].id)'
    <3>1. p # q
      BY <2>2, <2>5
    <3>2. QED
      BY <1>2, <2>1, <2>5, <3>1 DEF Shown, Advised, OfCheck
  <2>6. ASSUME NEW p \in Questions, feedback'[p].tone \in {"graded", "solution"}, reloads = 0
        PROVE  \E i \in DOMAIN attempts' : Newest(attempts', p, i) /\ attempts'[i].id = feedback'[p].id
    <3>1. CASE p = q
      BY <1>3, <2>2, <2>3, <3>1
    <3>2. CASE p # q
      <4>1. PICK i \in DOMAIN attempts : Newest(attempts, p, i) /\ attempts[i].id = feedback[p].id
        BY <2>1, <2>6, <3>2 DEF Shown, Advised
      <4>2. QED
        BY <2>1, <2>4, <3>2, <4>1
    <3>3. QED
      BY <3>1, <3>2
  <2>7. QED
    BY <1>2, <2>5, <2>6 DEF Advised
<1>6. ASSUME NEW r \in pending', r.kind = "direction"
      PROVE  r.id < checks' /\ (checked'[r.q] # -1 => OfCheck(r.q, r.id)')
  <2>1. r \in pending /\ r.q \in Questions
    BY <1>1, <1>6 DEF Shown, StudyInv, Help, Request
  <2>2. QED
    BY <1>2, <1>6, <2>1 DEF Shown, Awaited, OfCheck
<1>7. QED
  BY <1>4, <1>5, <1>6 DEF Shown, Awaited

\* A check becomes the newest of its question; those still unanswered are earlier.
LEMMA CheckShown ==
  ASSUME Shown, StudyInv', NEW q \in Questions, CheckDirection(q)
  PROVE  Shown'
<1>1. /\ UNCHANGED <<attempts, open, saved, loaded, resets, reloads>>
      /\ checks \in Nat /\ checks' = checks + 1
      /\ feedback' = [feedback EXCEPT ![q] = [tone |-> "direction", id |-> checks]]
      /\ checked' = [checked EXCEPT ![q] = checks]
      /\ pending' = pending \cup {[kind |-> "direction", q |-> q, id |-> checks]}
      /\ crossed' \subseteq crossed \cup {q} /\ crossed \ {q} \subseteq crossed'
      /\ (\E r \in pending : r.kind = "direction" /\ r.q = q) => q \in crossed'
  BY Parameters DEF CheckDirection, Send, snapshot, Shown, StudyInv, Counters
<1>2. /\ feedback'[q].tone = "direction" /\ feedback'[q].id = checks /\ checked'[q] = checks
      /\ \A p \in Questions : p # q => feedback'[p] = feedback[p] /\ checked'[p] = checked[p]
      /\ \A p \in Questions : checked[p] \in Int
      /\ checks # -1
  BY <1>1 DEF Shown, StudyInv, Help
<1>3. Opened'
  BY <1>1 DEF Shown, Opened, Once
<1>4. Advised'
  <2>1. ASSUME NEW p \in Questions, p # q, feedback'[p].tone = "direction"
        PROVE  checked'[p] # -1 /\ OfCheck(p, feedback[p].id)'
    BY <1>1, <1>2, <2>1 DEF Shown, Advised, OfCheck
  <2>2. checked'[q] # -1 /\ OfCheck(q, feedback[q].id)'
    BY <1>2 DEF OfCheck
  <2>3. ASSUME NEW p \in Questions, feedback'[p].tone \in {"graded", "solution"}, reloads = 0
        PROVE  \E i \in DOMAIN attempts' : Newest(attempts', p, i) /\ attempts'[i].id = feedback'[p].id
    <3>1. p # q
      BY <1>2, <2>3
    <3>2. QED
      BY <1>1, <1>2, <2>3, <3>1 DEF Shown, Advised, Newest
  <2>4. QED
    BY <1>1, <2>1, <2>2, <2>3 DEF Advised
<1>5. ASSUME NEW r \in pending', r.kind = "direction"
      PROVE  r.id < checks' /\ (checked'[r.q] # -1 => OfCheck(r.q, r.id)')
  <2>1. CASE r = [kind |-> "direction", q |-> q, id |-> checks]
    BY <1>1, <1>2, <2>1 DEF OfCheck
  <2>2. CASE r \in pending
    <3>1. r.q \in Questions /\ r.id \in Int /\ r.id < checks
      BY <1>5, <2>2 DEF Shown, StudyInv, Help, Request, Awaited
    <3>2. CASE r.q = q
      BY <1>1, <1>2, <1>5, <2>2, <3>1, <3>2 DEF OfCheck
    <3>3. CASE r.q # q
      <4>1. checked'[r.q] # -1 => OfCheck(r.q, r.id)
        BY <1>2, <1>5, <2>2, <3>1, <3>3 DEF Shown, Awaited
      <4>2. QED
        BY <1>1, <1>2, <3>1, <3>3, <4>1 DEF OfCheck
    <3>4. QED
      BY <3>2, <3>3
  <2>3. QED
    BY <1>1, <2>1, <2>2
<1>6. QED
  BY <1>3, <1>4, <1>5 DEF Shown, Awaited

\* A reply to a check puts its text in the place of a check's, the same or a later one.
LEMMA DirectionShown ==
  ASSUME Shown, StudyInv', NEW request \in pending, DirectionReply(request)
  PROVE  Shown'
<1>1. /\ UNCHANGED <<attempts, open, saved, loaded, resets, reloads, checks, asked>>
      /\ request.kind = "direction" /\ request.q \in Questions
      /\ pending' \subseteq pending
      /\ \/ feedback' = feedback
         \/ /\ feedback' = [feedback EXCEPT ![request.q] =
                                [tone |-> "direction", id |-> request.id]]
            /\ feedback[request.q].tone = "direction"
  <2>1. request.kind = "direction"
    BY DEF DirectionReply
  <2>2. request.q \in Questions
    BY <2>1 DEF Shown, StudyInv, Help, Request
  <2>3. QED
    BY <2>1, <2>2 DEF DirectionReply, Replied, bounds
<1>2. CASE feedback' = feedback
  BY <1>1, <1>2, ShownKept
<1>3. CASE /\ feedback' = [feedback EXCEPT ![request.q] = [tone |-> "direction", id |-> request.id]]
           /\ feedback[request.q].tone = "direction"
  <2>1. Opened' /\ Awaited'
    BY <1>1 DEF Shown, Opened, Once, Awaited, OfCheck, asked
  <2>2. checked[request.q] # -1 /\ OfCheck(request.q, request.id)
    BY <1>1, <1>3 DEF Shown, Advised, Awaited
  <2>3. /\ feedback'[request.q].tone = "direction" /\ feedback'[request.q].id = request.id
        /\ \A p \in Questions : p # request.q => feedback'[p] = feedback[p]
    BY <1>1, <1>3 DEF Shown, StudyInv, Help
  <2>4. ASSUME NEW p \in Questions, feedback'[p].tone = "direction"
        PROVE  checked'[p] # -1 /\ OfCheck(p, feedback[p].id)'
    <3>1. CASE p = request.q
      BY <1>1, <2>2, <2>3, <3>1 DEF OfCheck, asked
    <3>2. CASE p # request.q
      BY <1>1, <2>3, <2>4, <3>2 DEF Shown, Advised, OfCheck, asked
    <3>3. QED
      BY <3>1, <3>2
  <2>5. ASSUME NEW p \in Questions, feedback'[p].tone \in {"graded", "solution"}, reloads = 0
        PROVE  \E i \in DOMAIN attempts' : Newest(attempts', p, i) /\ attempts'[i].id = feedback'[p].id
    <3>1. p # request.q
      BY <2>3, <2>5
    <3>2. QED
      BY <1>1, <2>3, <2>5, <3>1 DEF Shown, Advised, Newest
  <2>6. QED
    BY <1>1, <2>1, <2>4, <2>5 DEF Shown, Advised
<1>4. QED
  BY <1>1, <1>2, <1>3

\* What a regraded attempt keeps.
LEMMA RegradeKeeps ==
  ASSUME StudyInv, NEW request, GradeReply(request)
  PROVE  /\ DOMAIN attempts' = DOMAIN attempts
         /\ \A i \in DOMAIN attempts :
              /\ attempts'[i].q = attempts[i].q /\ attempts'[i].id = attempts[i].id
              /\ attempts'[i].revealed = attempts[i].revealed
              /\ attempts[i].id # request.id => attempts'[i] = attempts[i]
<1>1. PICK score \in Scores :
        attempts' = [i \in DOMAIN attempts |-> IF attempts[i].id = request.id
                       THEN [attempts[i] EXCEPT !.score = score] ELSE attempts[i]]
  BY DEF GradeReply
<1>2. \A i \in DOMAIN attempts : attempts[i] \in Attempt
  BY AttemptsAre DEF StudyInv, Content, Sound
<1>3. ASSUME NEW i \in DOMAIN attempts
      PROVE  /\ attempts'[i].q = attempts[i].q /\ attempts'[i].id = attempts[i].id
             /\ attempts'[i].revealed = attempts[i].revealed
             /\ attempts[i].id # request.id => attempts'[i] = attempts[i]
  <2>1. attempts'[i] = IF attempts[i].id = request.id
                       THEN [attempts[i] EXCEPT !.score = score] ELSE attempts[i]
    BY <1>1
  <2>2. QED
    BY <1>2, <2>1 DEF Attempt
<1>4. QED
  BY <1>1, <1>3

LEMMA GradeShown ==
  ASSUME Shown, StudyInv', NEW request \in pending, GradeReply(request)
  PROVE  Shown'
<1>1. /\ DOMAIN attempts' = DOMAIN attempts
      /\ \A i \in DOMAIN attempts :
           /\ attempts'[i].q = attempts[i].q /\ attempts'[i].id = attempts[i].id
           /\ attempts'[i].revealed = attempts[i].revealed
  BY RegradeKeeps DEF Shown
<1>2. /\ UNCHANGED <<open, checked, crossed, checks, saved, loaded, resets, reloads>>
      /\ pending' \subseteq pending
  BY DEF GradeReply, Replied, bounds, asked
<1>3. Opened' /\ Awaited'
  BY <1>1, <1>2 DEF Shown, Opened, Once, Awaited, OfCheck
<1>4. \A p, i : Newest(attempts, p, i) /\ i \in DOMAIN attempts => Newest(attempts', p, i)
  BY <1>1 DEF Newest
<1>5. CASE feedback' = feedback
  <2>1. Advised'
    BY <1>1, <1>2, <1>4, <1>5 DEF Shown, Advised, OfCheck
  <2>2. QED
    BY <1>3, <2>1 DEF Shown
<1>6. CASE /\ Attempted(attempts, request.q) /\ attempts[Last(attempts, request.q)].id = request.id
           /\ feedback' = [feedback EXCEPT ![request.q] = [tone |-> "graded", id |-> request.id]]
  <2>1. request.q \in Questions
    BY DEF GradeReply, Shown, StudyInv, Help, Request
  <2>2. /\ feedback'[request.q].tone = "graded" /\ feedback'[request.q].id = request.id
        /\ \A p \in Questions : p # request.q => feedback'[p] = feedback[p]
    BY <1>6, <2>1 DEF Shown, StudyInv, Help
  <2>3. attempts \in Seq(Attempt)
    BY DEF Shown, StudyInv, Content, Sound
  <2>4. PICK i \in DOMAIN attempts : Newest(attempts, request.q, i)
    BY <1>6, <2>3, NewestExists
  <2>5. attempts[i].id = request.id
    BY <1>6, <2>3, <2>4, LastIsNewest
  <2>6. Advised'
    BY <1>1, <1>2, <1>4, <2>2, <2>4, <2>5 DEF Shown, Advised, OfCheck
  <2>7. QED
    BY <1>3, <2>6 DEF Shown
<1>7. QED
  BY <1>5, <1>6 DEF GradeReply

\* Only a reload makes a load possible.
LEMMA LoadShown == ASSUME Shown, StudyInv', LoadApply PROVE Shown'
<1>1. /\ ~loaded /\ saved # None /\ loaded' /\ attempts' = saved.attempts
      /\ UNCHANGED <<open, feedback, asked, saved, resets, reloads, checks, pending>>
  BY DEF LoadApply, help, bounds
<1>2. reloads # 0
  BY <1>1 DEF Shown, Opened
<1>3. Opened' /\ Advised' /\ Awaited'
  BY <1>1, <1>2 DEF Shown, Opened, Advised, Once, Awaited, OfCheck, asked
<1>4. QED
  BY <1>3 DEF Shown

LEMMA StartOverShown == ASSUME Shown, StudyInv', StartOver PROVE Shown'
<1>1. /\ attempts' = <<>> /\ DOMAIN attempts' = {}
      /\ feedback' = Blank /\ open' = {}
      /\ resets' = resets + 1 /\ UNCHANGED <<saved, loaded, reloads, pending, checks>>
      /\ checked' = NoCheck
  BY DEF StartOver
<1>2. resets' # 0
  BY <1>1, Parameters DEF Shown, StudyInv, Counters
<1>3. Opened'
  BY <1>1, <1>2 DEF Shown, Opened, Once
<1>4. Advised'
  BY <1>1 DEF Advised, Blank
<1>5. Awaited'
  <2>1. \A r \in pending : r.kind = "direction" => r.q \in Questions
    BY DEF Shown, StudyInv, Help, Request
  <2>2. QED
    BY <1>1, <2>1 DEF Shown, Awaited, NoCheck
<1>6. QED
  BY <1>3, <1>4, <1>5 DEF Shown

LEMMA QuietShown ==
  ASSUME Shown, StudyInv',
         \/ \E t \in Topics : SelectTopic(t)
         \/ SelectProject
         \/ \E q \in Real : SelectQuestion(q)
         \/ MoveToNext \/ ViewResults \/ DismissSummary
         \/ RepeatAll \/ RepeatNotPerfect \/ ReviewSolutions
         \/ \E q \in Questions : RequestHint(q)
         \/ GenerateSimilar
         \/ \E request \in pending : NoReply(request) \/ VariantsReply(request)
         \/ UNCHANGED vars
  PROVE  Shown'
<1>1. UNCHANGED <<attempts, open, feedback, asked, resets, saved, loaded, reloads, checks>>
  BY DEF SelectTopic, SelectProject, SelectQuestion, MoveToNext, ViewResults, DismissSummary,
         RepeatAll, RepeatNotPerfect, ReviewSolutions, CloseDialog, RequestHint, GenerateSimilar,
         NoReply, VariantsReply, Replied, vars, snapshot, help, sync, bounds
<1>2. \A r \in pending' : r.kind = "direction" => r \in pending
  <2>1. CASE GenerateSimilar
    BY <2>1 DEF GenerateSimilar, Send
  <2>2. CASE \E request \in pending : NoReply(request) \/ VariantsReply(request)
    BY <2>2 DEF NoReply, VariantsReply, Replied
  <2>3. CASE ~GenerateSimilar /\ ~(\E request \in pending : NoReply(request) \/ VariantsReply(request))
    <3>1. pending' = pending
      BY <2>3 DEF SelectTopic, SelectProject, SelectQuestion, MoveToNext, ViewResults, DismissSummary,
             RepeatAll, RepeatNotPerfect, ReviewSolutions, CloseDialog, RequestHint, vars, sync
    <3>2. QED
      BY <3>1
  <2>4. QED
    BY <2>1, <2>2, <2>3
<1>3. QED
  BY <1>1, <1>2, ShownKept

LEMMA SaveShown == ASSUME Shown, StudyInv', Save \/ LoadNothing \/ Reload PROVE Shown'
<1>1. /\ UNCHANGED <<attempts, open, feedback, asked, resets, checks>>
      /\ pending' \subseteq pending /\ saved' \in {saved, None, Current}
  BY DEF Save, LoadNothing, Reload, snapshot, help, bounds
<1>2. reloads' = 0 => reloads = 0 /\ (loaded' \/ UNCHANGED <<loaded, saved>>)
  <2>1. CASE Save \/ LoadNothing
    BY <2>1 DEF Save, LoadNothing, bounds
  <2>2. CASE Reload
    <3>1. reloads \in Nat /\ reloads' = reloads + 1
      BY <2>2, Parameters DEF Shown, StudyInv, Counters, Reload
    <3>2. QED
      BY <3>1
  <2>3. QED
    BY <2>1, <2>2
<1>3. QED
  BY <1>1, <1>2, ShownKept

LEMMA ShownStep == ASSUME Shown, [Next]_vars PROVE Shown'
<1>1. StudyInv'
  BY StudyStep DEF Shown
<1>2. CASE UNCHANGED vars
  BY <1>1, <1>2, QuietShown
<1>3. ASSUME NEW request \in pending, Reply(request) PROVE Shown'
  BY <1>1, <1>3, QuietShown, DirectionShown, GradeShown DEF Reply
<1>4. CASE Next
  BY <1>1, <1>3, <1>4, QuietShown, CheckShown, RecordShown, SaveShown, LoadShown,
     StartOverShown DEF Next
<1>5. QED
  BY <1>2, <1>4

LEMMA ShownInit == Init => Shown
<1> SUFFICES ASSUME Init PROVE Shown
  OBVIOUS
<1>1. DOMAIN attempts = {}
  BY DEF Init
<1>2. Opened /\ Advised /\ Awaited
  BY <1>1 DEF Init, Opened, Advised, Once, Blank, Awaited
<1>3. QED
  BY <1>2, StudyInit DEF Shown

\* Until a new start a solution is booked once per question, whatever copy of the server
\* comes back; and without a reload an open solution is on record (revealSolution,
\* applyServerSnapshot).
THEOREM RevealsAreTracked == Spec => []RevealTracked
<1>1. Shown => RevealTracked
  <2> SUFFICES ASSUME Shown, NEW q \in Questions
               PROVE  /\ resets = 0 => Cardinality(Reveals(q)) <= 1
                      /\ reloads = 0 => (q \in open <=> Reveals(q) # {})
    BY DEF RevealTracked
  <2>1. ASSUME resets = 0 PROVE Cardinality(Reveals(q)) <= 1
    <3>1. \A i, k \in Reveals(q) : i = k
      BY <2>1 DEF Shown, Opened, Once, Reveals
    <3>2. CASE Reveals(q) = {}
      BY <3>2, FS_EmptySet
    <3>3. ASSUME NEW i \in Reveals(q) PROVE Cardinality(Reveals(q)) <= 1
      <4>1. Reveals(q) = {i}
        BY <3>1, <3>3
      <4>2. Cardinality({i}) = 1
        BY FS_Singleton
      <4>3. QED
        BY <4>1, <4>2
    <3>4. QED
      BY <3>2, <3>3
  <2>2. ASSUME reloads = 0 PROVE q \in open <=> Reveals(q) # {}
    BY <2>2 DEF Shown, Opened, Once, Reveals
  <2>3. QED
    BY <2>1, <2>2
<1>2. QED
  BY <1>1, ShownInit, ShownStep, PTL DEF Spec

\* Grades and solutions on the screen are of the newest attempt, and no late reply shows a
\* direction check, or books one on the next attempt, that was not made since; its text is
\* of the newest check, or of one that was still unanswered then (checkDirection,
\* applyProviderAttemptFeedback).
THEOREM FeedbackStaysCurrent == Spec => []FeedbackIsCurrent
<1>1. Shown => FeedbackIsCurrent
  <2> SUFFICES ASSUME Shown, NEW q \in Questions
               PROVE  /\ feedback[q].tone = "direction" =>
                           checked[q] # -1 /\ OfCheck(q, feedback[q].id)
                      /\ feedback[q].tone \in {"graded", "solution"} /\ reloads = 0
                           => Attempted(attempts, q) /\ attempts[Last(attempts, q)].id = feedback[q].id
    BY DEF FeedbackIsCurrent, OfCheck
  <2>1. attempts \in Seq(Attempt)
    BY DEF Shown, StudyInv, Content, Sound
  <2>2. ASSUME feedback[q].tone \in {"graded", "solution"}, reloads = 0
        PROVE  Attempted(attempts, q) /\ attempts[Last(attempts, q)].id = feedback[q].id
    <3>1. PICK i \in DOMAIN attempts : Newest(attempts, q, i) /\ attempts[i].id = feedback[q].id
      BY <2>2 DEF Shown, Advised
    <3>2. Last(attempts, q) = i
      BY <2>1, <3>1, LastIsNewest
    <3>3. QED
      BY <3>1, <3>2 DEF Attempted, Newest
  <2>3. QED
    BY <2>2 DEF Shown, Advised
<1>2. QED
  BY <1>1, ShownInit, ShownStep, PTL DEF Spec

-----------------------------------------------------------------------------
(* Results and summaries                                                   *)

\* The best attempt depends on the attempts of its question only.
LEMMA BestKept ==
  ASSUME NEW as, as \in Seq(Attempt), NEW bs, bs \in Seq(Attempt), NEW q,
         \A i : i \in DOMAIN as /\ as[i].q = q <=> i \in DOMAIN bs /\ bs[i].q = q,
         \A i \in DOMAIN as : as[i].q = q => bs[i] = as[i]
  PROVE  Best(bs, q) = Best(as, q)
<1>1. Attempted(as, q) <=> Attempted(bs, q)
  BY DEF Attempted
<1>2. CASE ~Attempted(as, q)
  BY <1>1, <1>2 DEF Best
<1>3. CASE Attempted(as, q)
  <2> DEFINE a == CHOOSE i \in DOMAIN as : IsBest(as, q, i)
             b == CHOOSE i \in DOMAIN bs : IsBest(bs, q, i)
  <2>1. a \in DOMAIN as /\ IsBest(as, q, a)
    BY <1>3, BestExists
  <2>2. b \in DOMAIN bs /\ IsBest(bs, q, b)
    BY <1>1, <1>3, BestExists
  <2>3. /\ Best(as, q) = [score |-> as[a].score, revealed |-> as[a].revealed]
        /\ Best(bs, q) = [score |-> bs[b].score, revealed |-> bs[b].revealed]
    BY <1>1, <1>3 DEF Best
  <2> HIDE DEF a, b
  <2>4. /\ as[a].q = q /\ bs[b].q = q
        /\ b \in DOMAIN as /\ as[b].q = q /\ bs[b] = as[b]
        /\ a \in DOMAIN bs /\ bs[a].q = q /\ bs[a] = as[a]
    BY <2>1, <2>2 DEF IsBest
  <2>5. /\ as[b].score < as[a].score \/ (as[b].score = as[a].score /\ a <= b)
        /\ as[a].score < as[b].score \/ (as[a].score = as[b].score /\ b <= a)
    BY <2>1, <2>2, <2>4 DEF IsBest
  <2>6. a \in Nat /\ b \in Nat /\ as[a].score \in 0..100 /\ as[b].score \in 0..100
    <3>1. a \in Nat /\ b \in Nat /\ as[a] \in Attempt /\ as[b] \in Attempt
      BY <2>1, <2>4, AttemptsAre
    <3>2. QED
      BY <3>1, SessionParameters DEF Attempt
  <2>7. a = b
    BY <2>5, <2>6, FirstOfTheBest
  <2>9. QED
    BY <2>3, <2>4, <2>7
<1>4. QED
  BY <1>2, <1>3

\* Results are never mistaken for no results.
LEMMA ResultsAreSome ==
  ASSUME NEW as, as \in Seq(Attempt), NEW t
  PROVE  Results(as, t) # None
<1>1. ASSUME NEW q \in Real PROVE Best(as, q) \in [score : -1..100, revealed : BOOLEAN]
  <2>1. CASE ~Attempted(as, q)
    BY <2>1 DEF Best, Unattempted
  <2>2. CASE Attempted(as, q)
    <3> DEFINE i == CHOOSE i \in DOMAIN as : IsBest(as, q, i)
    <3>1. i \in DOMAIN as
      BY <2>2, BestExists
    <3>2. Best(as, q) = [score |-> as[i].score, revealed |-> as[i].revealed]
      BY <2>2 DEF Best
    <3> HIDE DEF i
    <3>3. as[i] \in Attempt
      BY <3>1, AttemptsAre
    <3>4. as[i].score \in 0..100 /\ as[i].revealed \in BOOLEAN
      BY <3>3, SessionParameters DEF Attempt
    <3>5. \A x \in 0..100 : x \in -1..100
      OBVIOUS
    <3>6. as[i].score \in -1..100
      BY <3>4, <3>5
    <3>7. \A x \in -1..100, y \in BOOLEAN :
            [score |-> x, revealed |-> y] \in [score : -1..100, revealed : BOOLEAN]
      OBVIOUS
    <3>8. QED
      BY <3>2, <3>4, <3>6, <3>7
  <2>3. QED
    BY <2>1, <2>2
<1>2. RealOf(t) \subseteq Real
  BY DEF RealOf
<1>3. Results(as, t) \in [RealOf(t) -> [score : -1..100, revealed : BOOLEAN]]
  BY <1>1, <1>2 DEF Results
<1>4. QED
  BY <1>2, <1>3, SessionParameters

\* A topic has a summary exactly when it is exhausted, and unless an attempt was regraded
\* elsewhere the summary is of the attempts there are.
Summed(as, sums, str) ==
  \A t \in Topics :
    /\ Exhausted(as, t) <=> sums[t] # None
    /\ sums[t] # None /\ t \notin str => sums[t] = Results(as, t)

Summary ==
  /\ StudyInv
  /\ Summed(attempts, summary, strayed)
  /\ saved # None => Summed(saved.attempts, saved.summary, saved.strayed)

\* Attempts of one topic leave the results of the others alone.
LEMMA OtherTopics ==
  ASSUME NEW as, as \in Seq(Attempt), NEW bs, bs \in Seq(Attempt), NEW t,
         \A q \in RealOf(t) : \A i : i \in DOMAIN as /\ as[i].q = q <=> i \in DOMAIN bs /\ bs[i].q = q,
         \A q \in RealOf(t), i \in DOMAIN as : as[i].q = q => bs[i] = as[i]
  PROVE  Results(bs, t) = Results(as, t)
<1>1. ASSUME NEW q \in RealOf(t) PROVE Best(bs, q) = Best(as, q)
  BY BestKept
<1>2. QED
  BY <1>1 DEF Results

LEMMA SummaryKept ==
  ASSUME Summary, StudyInv', UNCHANGED <<attempts, summary, strayed>>, saved' \in {saved, None, Current}
  PROVE  Summary'
<1>1. saved' = Current => /\ saved'.attempts = attempts /\ saved'.summary = summary
                          /\ saved'.strayed = strayed
  BY DEF Current
<1>2. \A t : (Exhausted(attempts, t) <=> Exhausted(attempts', t)) /\ Results(attempts', t) = Results(attempts, t)
  BY DEF Exhausted, Attempted, Results, Best, IsBest
<1>3. Summed(attempts', summary', strayed')
  BY <1>2 DEF Summary, Summed
<1>4. saved' # None => Summed(saved'.attempts, saved'.summary, saved'.strayed)
  <2>1. CASE saved' = Current
    BY <1>1, <2>1 DEF Summary
  <2>2. CASE saved' = saved
    BY <2>2 DEF Summary
  <2>3. QED
    BY <2>1, <2>2
<1>5. QED
  BY <1>3, <1>4 DEF Summary, Summed

\* An attempt completes the selected topic or makes its summary anew, and concerns no other.
LEMMA RecordSummary ==
  ASSUME Summary, StudyInv', NEW q \in Questions,
         RevealSolution(q) \/ \E score \in Scores : SubmitAnswer(q, score)
  PROVE  Summary'
<1>1. PICK score \in Scores, revealed \in BOOLEAN : Record(q, score, revealed) /\ Answerable(q)
  <2>1. CASE RevealSolution(q)
    BY <2>1, Parameters DEF RevealSolution
  <2>2. CASE \E score \in Scores : SubmitAnswer(q, score)
    BY <2>2 DEF SubmitAnswer
  <2>3. QED
    BY <2>1, <2>2
<1>2. /\ saved' = saved
      /\ IF Exhausted(attempts', selected)
         THEN /\ summary' = [summary EXCEPT ![selected] = Results(attempts', selected)]
              /\ strayed' = strayed \ {selected}
         ELSE UNCHANGED <<summary, strayed>>
  BY <1>1 DEF Record
<1>3. attempts \in Seq(Attempt) /\ attempts' \in Seq(Attempt) /\ summary = [t \in Topics |-> summary[t]]
  BY DEF Summary, StudyInv, Content, Sound
<1> DEFINE n == Len(attempts) + 1
<1>4. /\ n \notin DOMAIN attempts /\ DOMAIN attempts' = DOMAIN attempts \cup {n}
      /\ \A i \in DOMAIN attempts : attempts'[i] = attempts[i]
      /\ attempts'[n].q = q
  <2>1. \A l \in Nat : l + 1 \notin 1..l /\ 1..(l + 1) = 1..l \cup {l + 1}
    OBVIOUS
  <2>2. /\ Len(attempts) \in Nat /\ DOMAIN attempts = 1..Len(attempts)
        /\ DOMAIN attempts' = 1..n
        /\ \A i \in DOMAIN attempts : attempts'[i] = attempts[i]
        /\ attempts'[n].q = q
    BY <1>1, RecordAppends DEF Summary
  <2>3. QED
    BY <2>1, <2>2
<1> HIDE DEF n
<1>5. selected \in Topics /\ q \in Existing(sourceOf) /\ TopicIn(sourceOf, q) = selected
  BY <1>1 DEF Answerable, Practising, Summary, StudyInv, View
<1>6. \A t \in Topics : t # selected => q \notin RealOf(t)
  BY <1>5 DEF TopicIn, RealOf
<1>7. ASSUME NEW t \in Topics, t # selected
      PROVE  /\ Exhausted(attempts', t) <=> Exhausted(attempts, t)
             /\ Results(attempts', t) = Results(attempts, t)
  <2>1. \A p \in RealOf(t) : \A i : i \in DOMAIN attempts /\ attempts[i].q = p
                                      <=> i \in DOMAIN attempts' /\ attempts'[i].q = p
    BY <1>4, <1>6, <1>7
  <2>2. Results(attempts', t) = Results(attempts, t)
    BY <1>3, <1>4, <2>1, OtherTopics
  <2>3. QED
    BY <2>1, <2>2 DEF Exhausted, Attempted
<1>8. Exhausted(attempts, selected) => Exhausted(attempts', selected)
  BY <1>4 DEF Exhausted, Attempted
<1>9. Results(attempts', selected) # None
  BY <1>3, ResultsAreSome
<1>10. Summed(attempts', summary', strayed')
  <2>1. ASSUME NEW t \in Topics, t # selected
        PROVE  summary'[t] = summary[t] /\ (t \in strayed' <=> t \in strayed)
    BY <1>2, <1>3, <2>1
  <2>2. CASE Exhausted(attempts', selected)
    <3>1. summary'[selected] = Results(attempts', selected)
      BY <1>2, <1>3, <1>5, <2>2
    <3>2. QED
      BY <1>7, <1>9, <2>1, <2>2, <3>1 DEF Summary, Summed
  <2>3. CASE ~Exhausted(attempts', selected)
    <3>1. summary'[selected] = None
      BY <1>2, <1>5, <1>8, <2>3 DEF Summary, Summed
    <3>2. QED
      BY <1>7, <2>1, <2>3, <3>1 DEF Summary, Summed
  <2>4. QED
    BY <2>2, <2>3
<1>11. QED
  BY <1>2, <1>10 DEF Summary, Summed

\* A regraded attempt of the selected topic makes its summary anew; one of another topic
\* makes that topic stray.
LEMMA GradeSummary ==
  ASSUME Summary, StudyInv', NEW request \in pending, GradeReply(request)
  PROVE  Summary'
<1>1. /\ DOMAIN attempts' = DOMAIN attempts
      /\ \A i \in DOMAIN attempts :
           /\ attempts'[i].q = attempts[i].q
           /\ attempts[i].id # request.id => attempts'[i] = attempts[i]
  BY RegradeKeeps DEF Summary
<1>2. /\ saved' = saved
      /\ IF selected # None /\ summary[selected] # None
         THEN summary' = [summary EXCEPT ![selected] = Results(attempts', selected)]
         ELSE UNCHANGED summary
      /\ strayed' = strayed \cup
           {attempts[i].topic : i \in {i \in DOMAIN attempts : /\ attempts[i].id = request.id
                                                              /\ attempts[i].topic # selected}}
  BY DEF GradeReply, Replied
<1>3. attempts \in Seq(Attempt) /\ attempts' \in Seq(Attempt) /\ summary = [t \in Topics |-> summary[t]]
  BY DEF Summary, StudyInv, Content, Sound
<1>4. \A t : Exhausted(attempts', t) <=> Exhausted(attempts, t)
  BY <1>1 DEF Exhausted, Attempted
<1>5. Results(attempts', selected) # None
  BY <1>3, ResultsAreSome
<1>6. ASSUME NEW t \in Topics, t # selected, t \notin strayed'
      PROVE  Results(attempts', t) = Results(attempts, t)
  <2>1. ASSUME NEW p \in RealOf(t), NEW i \in DOMAIN attempts, attempts[i].q = p
        PROVE  attempts'[i] = attempts[i]
    <3>1. attempts[i].topic = t
      BY <2>1 DEF Summary, StudyInv, Content, Booked, TopicIn, RealOf
    <3>2. attempts[i].id # request.id
      BY <1>2, <1>6, <3>1
    <3>3. QED
      BY <1>1, <3>2
  <2>2. QED
    BY <1>1, <1>3, <2>1, OtherTopics
<1>7. ASSUME NEW t \in Topics
      PROVE  /\ Exhausted(attempts', t) <=> summary'[t] # None
             /\ summary'[t] # None /\ t \notin strayed' => summary'[t] = Results(attempts', t)
  <2>1. /\ Exhausted(attempts, t) <=> summary[t] # None
        /\ summary[t] # None /\ t \notin strayed => summary[t] = Results(attempts, t)
    BY DEF Summary, Summed
  <2>2. CASE t = selected
    <3>1. t # None
      BY Parameters
    <3>2. CASE summary[t] # None
      <4>1. summary'[t] = Results(attempts', t)
        BY <1>2, <1>3, <2>2, <3>1, <3>2
      <4>2. QED
        BY <1>4, <1>5, <2>1, <2>2, <3>2, <4>1
    <3>3. CASE summary[t] = None
      BY <1>2, <1>4, <2>1, <2>2, <3>3
    <3>4. QED
      BY <3>2, <3>3
  <2>3. CASE t # selected
    <3>1. summary'[t] = summary[t]
      BY <1>2, <1>3, <2>3
    <3>2. strayed \subseteq strayed'
      BY <1>2
    <3>3. QED
      BY <1>4, <1>6, <2>1, <2>3, <3>1, <3>2
  <2>4. QED
    BY <2>2, <2>3
<1>8. QED
  BY <1>2, <1>7 DEF Summary, Summed

LEMMA NoSummaryYet == Summed(<<>>, NoSummary, {})
<1>1. DOMAIN <<>> = {}
  OBVIOUS
<1>2. \A t : ~Exhausted(<<>>, t)
  BY <1>1 DEF Exhausted, Attempted
<1>3. QED
  BY <1>2 DEF Summed, NoSummary

LEMMA SummaryStep == ASSUME Summary, [Next]_vars PROVE Summary'
<1>1. StudyInv'
  BY StudyStep DEF Summary
<1>2. CASE \/ \E t \in Topics : SelectTopic(t)
           \/ SelectProject
           \/ \E q \in Real : SelectQuestion(q)
           \/ MoveToNext \/ ViewResults \/ DismissSummary
           \/ RepeatAll \/ RepeatNotPerfect \/ ReviewSolutions
           \/ \E q \in Questions : CheckDirection(q) \/ RequestHint(q)
           \/ GenerateSimilar
           \/ UNCHANGED vars
  <2>1. UNCHANGED <<attempts, summary, strayed, saved>>
    BY <1>2 DEF SelectTopic, SelectProject, SelectQuestion, MoveToNext, ViewResults, DismissSummary,
         RepeatAll, RepeatNotPerfect, ReviewSolutions, CloseDialog, CheckDirection, RequestHint,
         GenerateSimilar, vars, snapshot, sync
  <2>2. QED
    BY <1>1, <2>1, SummaryKept
<1>3. ASSUME NEW request \in pending, Reply(request) PROVE Summary'
  <2>1. CASE NoReply(request) \/ DirectionReply(request) \/ VariantsReply(request)
    <3>1. UNCHANGED <<attempts, summary, strayed, saved>>
      BY <2>1 DEF NoReply, DirectionReply, VariantsReply, Replied
    <3>2. QED
      BY <1>1, <3>1, SummaryKept
  <2>2. CASE GradeReply(request)
    BY <1>1, <2>2, GradeSummary
  <2>3. QED
    BY <1>3, <2>1, <2>2 DEF Reply
<1>4. CASE Save \/ LoadNothing \/ Reload
  <2>1. UNCHANGED <<attempts, summary, strayed>> /\ saved' \in {saved, None, Current}
    BY <1>4 DEF Save, LoadNothing, Reload, snapshot
  <2>2. QED
    BY <1>1, <2>1, SummaryKept
<1>5. CASE LoadApply
  <2>1. /\ saved # None /\ saved' = saved /\ attempts' = saved.attempts
        /\ summary' = saved.summary /\ strayed' = saved.strayed
    BY <1>5 DEF LoadApply
  <2>2. QED
    BY <1>1, <2>1 DEF Summary, Summed
<1>6. CASE StartOver
  <2>1. saved' = saved /\ attempts' = <<>> /\ summary' = NoSummary /\ strayed' = {}
    BY <1>6 DEF StartOver
  <2>2. QED
    BY <1>1, <2>1, NoSummaryYet DEF Summary, Summed
<1>7. CASE Next
  BY <1>1, <1>2, <1>3, <1>4, <1>5, <1>6, <1>7, RecordSummary DEF Next
<1>8. QED
  BY <1>2, <1>7

LEMMA SummaryInit == Init => Summary
<1>1. Init => attempts = <<>> /\ summary = NoSummary /\ strayed = {} /\ saved = None
  BY DEF Init
<1>2. QED
  BY <1>1, StudyInit, NoSummaryYet DEF Summary, Summed

\* Whenever the panel offers "View results" there are results to view
\* (maybeCreateTopicExhaustionSummary, showExhaustionSummary), also after a load.
THEOREM ResultsStayAvailable == Spec => []ResultsAvailable
<1>1. Summary => ResultsAvailable
  BY Parameters DEF Summary, Summed, StudyInv, View, ResultsAvailable
<1>2. QED
  BY <1>1, SummaryInit, SummaryStep, PTL DEF Spec

\* The results that are shown are those of the attempts on record, regraded ones included,
\* unless an attempt was regraded while another topic was selected
\* (applyProviderAttemptFeedback).
THEOREM SummariesMatchAttempts == Spec => []SummaryMatchesAttempts
<1>1. Summary => SummaryMatchesAttempts
  BY DEF Summary, Summed, SummaryMatchesAttempts
<1>2. QED
  BY <1>1, SummaryInit, SummaryStep, PTL DEF Spec

=============================================================================
