---------------------------- MODULE StudySession ----------------------------
(***************************************************************************)
(* A learner's practice on one course: the study store of apps/web         *)
(* (study/studyStore.ts, with studyLogic.ts and studyVisibility.ts), the   *)
(* conditions under which StudyWorkspace.tsx offers its actions, and the   *)
(* optional provider replies that arrive later.                            *)
(*                                                                         *)
(* The texts of questions, answers, hints and feedback are left out; an    *)
(* answer is the score it gets.  Ties in the review queue are broken by    *)
(* data of the questions, here by choice.  Saving and loading are taken    *)
(* from SnapshotSync in a coarser form: the server holds some earlier      *)
(* snapshot of the page.                                                   *)
(***************************************************************************)
EXTENDS Integers, Sequences, FiniteSets

CONSTANTS Topics,
          Real,        \* the real questions of the course
          RealTopic,   \* the topic of each
          Variants,    \* ids for generated questions
          Scores,      \* the score percentages an answer may get
          None,        \* no topic, no question, no snapshot
          MaxAttempts, \* bound on attempts
          MaxChecks,   \* bound on direction checks
          MaxPending,  \* bound on requests in flight
          MaxSaves, MaxReloads, MaxResets \* bounds on saves, page reloads and new starts

Questions == Real \cup Variants

ASSUME SessionParameters ==
  /\ RealTopic \in [Real -> Topics]
  /\ Real \cap Variants = {}
  /\ None \notin Questions \cup Topics
  /\ \A qs \in SUBSET Real : None \notin [qs -> [score : -1..100, revealed : BOOLEAN]]
  /\ {0, 100} \subseteq Scores /\ Scores \subseteq 0..100
  /\ MaxAttempts \in Nat /\ MaxChecks \in Nat /\ MaxPending \in Nat /\ MaxSaves \in Nat /\ MaxReloads \in Nat /\ MaxResets \in Nat

VARIABLES attempts,  \* in the order they were made
          sourceOf,  \* generated questions in the dataset: the real question of each
          prompted,  \* those whose text came from the provider
          summary,   \* the latest completion summary of each topic
          selected,  \* selectedTopicThreadId
          active,    \* activeQuestionId
          hinted,    \* questions with a hint
          feedback,  \* latestFeedbackByQuestionId: its tone, and the attempt or the
                     \* direction check it is about
          open,      \* solutionOpenQuestionIds
          dialog,    \* exhaustionSummaryId: the topic whose results are shown
          review,    \* reviewModeTopicThreadId
          pending,   \* requests to the provider
          saved,     \* the snapshot on the server
          loaded,    \* the page's first load is over
          nextId,    \* makeId, for attempts
          origin,    \* makeId, for generated questions: what each that was ever made is made from
          checks, saves, reloads, resets,
          tried,     \* history: questions submitted or revealed since progress last started
          checked,   \* history: each question's newest direction check since its last attempt
          crossed,   \* history: questions whose newest check was made with an earlier one
                     \* still unanswered
          strayed    \* history: topics whose attempts were regraded when not selected

asked    == <<checked, crossed>>
snapshot == <<attempts, sourceOf, prompted, summary, strayed>>
view     == <<selected, active, dialog, review>>
help     == <<hinted, feedback, open>>
bounds   == <<checks, saves, reloads, resets>>
sync     == <<pending, saved, loaded, bounds>>
ids      == <<nextId, origin>>
vars     == <<snapshot, view, help, sync, ids, tried, asked>>

-----------------------------------------------------------------------------
(* studyLogic.ts *)

TopicOf(q) == RealTopic[IF q \in Real THEN q ELSE sourceOf[q]]
RealOf(t)  == {q \in Real : RealTopic[q] = t}

Attempted(as, q) == \E i \in DOMAIN as : as[i].q = q

\* The first attempt with the highest score.
IsBest(as, q, i) ==
  /\ as[i].q = q
  /\ \A k \in DOMAIN as : as[k].q = q =>
       as[k].score < as[i].score \/ (as[k].score = as[i].score /\ i <= k)

Unattempted == [score |-> -1, revealed |-> FALSE]

Best(as, q) ==
  IF ~Attempted(as, q) THEN Unattempted
  ELSE LET i == CHOOSE i \in DOMAIN as : IsBest(as, q, i)
       IN [score |-> as[i].score, revealed |-> as[i].revealed]

\* orderRealQuestionQueue: the questions that may come first.
Heads(as, qs) == {q \in qs : \A p \in qs : Best(as, q).score <= Best(as, p).score}

OneOf(qs) == IF qs = {} THEN {None} ELSE qs

\* Mutant: exhausted as soon as one real question is attempted.
ExhaustedByOne(as, t) == \E q \in RealOf(t) : Attempted(as, q)

Exhausted(as, t) == RealOf(t) # {} /\ \A q \in RealOf(t) : Attempted(as, q)

\* createCompletionSummary, as far as it depends on the attempts.
Results(as, t) == [q \in RealOf(t) |-> Best(as, q)]

-----------------------------------------------------------------------------

Attempt == [id : 0..MaxAttempts - 1, q : Questions, topic : Topics, score : Scores,
            revealed : BOOLEAN, direction : BOOLEAN]

Feedback == [tone : {"none"}, id : {-1}]
            \cup [tone : {"direction"}, id : 0..MaxChecks - 1]
            \cup [tone : {"graded", "solution"}, id : 0..MaxAttempts - 1]

Request == [kind : {"direction"}, q : Questions, id : 0..MaxChecks - 1]
           \cup [kind : {"grade"}, q : Questions, id : 0..MaxAttempts - 1]
           \cup [kind : {"variants"}, topic : Topics, qs : SUBSET Variants]

Blank   == [q \in Questions |-> [tone |-> "none", id |-> -1]]
NoCheck == [q \in Questions |-> -1]

Current == [attempts |-> attempts, sourceOf |-> sourceOf, prompted |-> prompted,
            summary |-> summary, strayed |-> strayed, tried |-> tried]

Generated == {v \in Variants : sourceOf[v] # None}

TypeOK ==
  /\ attempts \in Seq(Attempt) /\ Len(attempts) <= MaxAttempts
  /\ sourceOf \in [Variants -> Real \cup {None}]
  /\ prompted \subseteq Generated
  /\ \A t \in Topics : summary[t] # None => DOMAIN summary[t] = RealOf(t)
  /\ selected \in Topics \cup {None}
  /\ active \in Real \cup Generated \cup {None}
  /\ hinted \subseteq Questions /\ open \subseteq Questions
  /\ feedback \in [Questions -> Feedback]
  /\ dialog \in Topics \cup {None} /\ review \in Topics \cup {None}
  /\ pending \subseteq Request
  /\ loaded \in BOOLEAN
  /\ nextId \in 0..MaxAttempts /\ origin \in [Variants -> Real \cup {None}]
  /\ checks \in 0..MaxChecks /\ saves \in 0..MaxSaves /\ reloads \in 0..MaxReloads /\ resets \in 0..MaxResets
  /\ tried \subseteq Questions /\ crossed \subseteq Questions
  /\ checked \in [Questions -> -1..MaxChecks - 1] /\ strayed \subseteq Topics

NoSource  == [v \in Variants |-> None]
NoSummary == [t \in Topics |-> None]

Init ==
  /\ attempts = <<>> /\ sourceOf = NoSource /\ prompted = {} /\ summary = NoSummary
  /\ selected = None /\ active = None /\ dialog = None /\ review = None
  /\ hinted = {} /\ feedback = Blank /\ open = {}
  /\ tried = {} /\ checked = NoCheck /\ crossed = {} /\ strayed = {}
  /\ pending = {}
  /\ saved = None /\ loaded = FALSE
  /\ nextId = 0 /\ origin = NoSource /\ checks = 0 /\ saves = 0 /\ reloads = 0 /\ resets = 0

-----------------------------------------------------------------------------
(* Choosing what to study.  The results dialog is modal. *)

\* Mutant: the active question is kept.
SelectTopicKeepsActive(t) ==
  /\ dialog = None /\ t # selected
  /\ selected' = t
  /\ review' = None
  /\ UNCHANGED <<snapshot, active, dialog, help, sync, ids, tried, asked>>

SelectTopic(t) ==
  /\ dialog = None /\ t # selected
  /\ selected' = t
  /\ active' \in OneOf(Heads(attempts, RealOf(t)))
  /\ review' = None
  /\ UNCHANGED <<snapshot, dialog, help, sync, ids, tried, asked>>

SelectProject ==
  /\ dialog = None
  /\ selected' = None /\ active' = None /\ review' = None
  /\ UNCHANGED <<snapshot, dialog, help, sync, ids, tried, asked>>

\* The drawer lists the real questions of the selected topic.
SelectQuestion(q) ==
  /\ dialog = None /\ selected # None /\ q \in RealOf(selected)
  /\ active' = q /\ review' = None
  /\ UNCHANGED <<snapshot, selected, dialog, help, sync, ids, tried, asked>>

\* The practice panel: shown unless the topic is in review mode.
Practising == dialog = None /\ active # None /\ selected # None /\ review # selected

\* The button to go on is shown whether or not the question was attempted: the panel
\* compares the best attempt, which may be null, with undefined.
CanMoveNext == Practising

\* "View results" replaces "Next question" on the real questions of an exhausted topic.
ResultsReady == active \in Real /\ Exhausted(attempts, selected)

MoveToNext ==
  /\ CanMoveNext /\ ~ResultsReady
  /\ active' \in LET others == RealOf(selected) \ {active}
                 IN IF others = {} THEN {active} ELSE Heads(attempts, others)
  /\ review' = None
  /\ UNCHANGED <<snapshot, selected, dialog, help, sync, ids, tried, asked>>

ViewResults ==
  /\ CanMoveNext /\ ResultsReady
  /\ summary[selected] # None
  /\ dialog' = selected
  /\ UNCHANGED <<snapshot, selected, active, review, help, sync, ids, tried, asked>>

-----------------------------------------------------------------------------
(* Help, answers and solutions.  The input, the help button and the submit *)
(* button disappear when the solution is open; the help button goes from   *)
(* direction check to hint to solution.                                    *)

Answerable(q) == Practising /\ q = active /\ q \notin open

Send(request) ==
  /\ Cardinality(pending \cup {request}) <= MaxPending
  /\ pending' = pending \cup {request}

\* The local text first; an earlier check of the same question may still be unanswered.
CheckDirection(q) ==
  /\ Answerable(q) /\ q \notin hinted /\ feedback[q].tone # "direction"
  /\ checks < MaxChecks /\ checks' = checks + 1
  /\ feedback' = [feedback EXCEPT ![q] = [tone |-> "direction", id |-> checks]]
  /\ Send([kind |-> "direction", q |-> q, id |-> checks])
  /\ checked' = [checked EXCEPT ![q] = checks]
  /\ crossed' = IF \E r \in pending : r.kind = "direction" /\ r.q = q
                THEN crossed \cup {q} ELSE crossed \ {q}
  /\ UNCHANGED <<snapshot, view, hinted, open, saved, loaded, saves, reloads, resets, ids, tried>>

RequestHint(q) ==
  /\ Answerable(q) /\ q \notin hinted /\ feedback[q].tone = "direction"
  /\ hinted' = hinted \cup {q}
  /\ UNCHANGED <<snapshot, view, feedback, open, sync, ids, tried, asked>>

\* Mutant: a reveal does not complete the topic.
RecordNoSummary(q, score, revealed) ==
  /\ nextId < MaxAttempts
  /\ nextId' = nextId + 1
  /\ attempts' = Append(attempts, [id |-> nextId, q |-> q, topic |-> selected, score |-> score,
                   revealed |-> revealed, direction |-> feedback[q].tone = "direction"])
  /\ feedback' = [feedback EXCEPT ![q] =
                    [tone |-> IF revealed THEN "solution" ELSE "graded", id |-> nextId]]
  /\ tried' = tried \cup {q} /\ checked' = [checked EXCEPT ![q] = -1]
  /\ IF ~revealed /\ Exhausted(attempts', selected)
     THEN summary' = [summary EXCEPT ![selected] = Results(attempts', selected)]
     ELSE UNCHANGED summary
  /\ UNCHANGED <<sourceOf, prompted, view, hinted, saved, loaded, bounds, strayed, origin, crossed>>

\* makeAttempt, maybeCreateTopicExhaustionSummary and the feedback on the attempt.
Record(q, score, revealed) ==
  LET attempt == [id |-> nextId, q |-> q, topic |-> selected, score |-> score,
                  revealed |-> revealed, direction |-> feedback[q].tone = "direction"]
      all     == Append(attempts, attempt)
  IN
  /\ nextId < MaxAttempts
  /\ nextId' = nextId + 1
  /\ attempts' = all
  /\ IF Exhausted(all, selected)
     THEN /\ summary' = [summary EXCEPT ![selected] = Results(all, selected)]
          /\ strayed' = strayed \ {selected}
     ELSE UNCHANGED <<summary, strayed>>
  /\ feedback' = [feedback EXCEPT ![q] =
                    [tone |-> IF revealed THEN "solution" ELSE "graded", id |-> nextId]]
  /\ tried' = tried \cup {q} /\ checked' = [checked EXCEPT ![q] = -1]
  /\ UNCHANGED <<sourceOf, prompted, view, hinted, saved, loaded, bounds, origin, crossed>>

SubmitAnswer(q, score) ==
  /\ Answerable(q)
  /\ Record(q, score, FALSE)
  /\ Send([kind |-> "grade", q |-> q, id |-> nextId])
  /\ UNCHANGED open

\* Mutant: the solution is shown but not marked as open.
RevealSolutionUnmarked(q) ==
  /\ Answerable(q) /\ q \in hinted
  /\ Record(q, 0, TRUE)
  /\ UNCHANGED <<open, pending>>

RevealSolution(q) ==
  /\ Answerable(q) /\ q \in hinted
  /\ Record(q, 0, TRUE)
  /\ open' = open \cup {q}
  /\ UNCHANGED pending

-----------------------------------------------------------------------------
(* The results dialog *)

CloseDialog ==
  /\ dialog' = None
  /\ UNCHANGED <<snapshot, help, sync, ids, tried, asked>>

DismissSummary == dialog # None /\ CloseDialog /\ UNCHANGED <<selected, active, review>>

RepeatAll ==
  /\ dialog # None /\ selected # None
  /\ active' \in OneOf(Heads(attempts, RealOf(selected)))
  /\ review' = None
  /\ CloseDialog /\ UNCHANGED selected

\* With every question at 100% nothing is left to repeat and no question is active.
RepeatNotPerfect ==
  /\ dialog # None /\ selected # None
  /\ active' \in OneOf({q \in RealOf(selected) : Best(attempts, q).score < 100})
  /\ review' = None
  /\ CloseDialog /\ UNCHANGED selected

ReviewSolutions ==
  /\ dialog # None
  /\ review' = selected
  /\ CloseDialog /\ UNCHANGED <<selected, active>>

\* getGenerationSourceQuestions: two of the perfectly solved questions, else of all.
Sources(t) ==
  LET perfect == {q \in RealOf(t) : Best(attempts, q).score >= 100}
      pool    == IF perfect # {} THEN perfect ELSE RealOf(t)
  IN {qs \in SUBSET pool : Cardinality(qs) = IF Cardinality(pool) < 2 THEN 1 ELSE 2}

\* Offered by the dialog, and by the drawer when the topic is exhausted.  The generated
\* questions have new ids.
GenerateSimilar ==
  /\ selected # None
  /\ Exhausted(attempts, selected)
  /\ \E qs \in Sources(selected), vs \in SUBSET {v \in Variants : origin[v] = None} :
       /\ Cardinality(vs) = Cardinality(qs)
       /\ \E source \in [vs -> qs] :
            /\ \A q \in qs : \E v \in vs : source[v] = q
            /\ origin' = [v \in Variants |-> IF v \in vs THEN source[v] ELSE origin[v]]
            /\ sourceOf' = [v \in Variants |-> IF v \in vs THEN source[v] ELSE sourceOf[v]]
       /\ active' \in vs
       /\ Send([kind |-> "variants", topic |-> selected, qs |-> vs])
  /\ dialog' = None /\ review' = None
  /\ UNCHANGED <<attempts, prompted, summary, strayed, selected, help, saved, loaded,
                 bounds, nextId, tried, asked>>

-----------------------------------------------------------------------------
(* Replies.  The server answers from the snapshot it holds: it must know   *)
(* the question, and it checks itself that the topic is exhausted.  It     *)
(* does so when the request arrives, here when it answers: a question it   *)
(* loses in between is gone from the page too, and the answer without      *)
(* effect.                                                                 *)

\* generateStudyFeedbackWithProvider finds the question, then asks the provider.
KnownToServer(q) ==
  saved # None /\ q \in Real \cup {v \in Variants : saved.sourceOf[v] # None}

Replied(request) ==
  /\ pending' = pending \ {request}
  /\ UNCHANGED <<sourceOf, view, hinted, open, saved, loaded, bounds, ids,
                 tried, asked>>

\* No provider, an error, or nothing usable in the answer.
NoReply(request) ==
  /\ Replied(request)
  /\ UNCHANGED <<attempts, prompted, summary, strayed, feedback>>

\* Mutant: the reply replaces whatever feedback the question has.
DirectionReplyAnyway(request) ==
  /\ request.kind = "direction" /\ KnownToServer(request.q)
  /\ feedback' = [feedback EXCEPT ![request.q] = [tone |-> "direction", id |-> request.id]]
  /\ Replied(request)
  /\ UNCHANGED <<attempts, prompted, summary, strayed>>

\* The provider's text replaces the one that is shown, if that is of a direction check:
\* of the one asked about or of a later one, which the code does not tell apart.
DirectionReply(request) ==
  /\ request.kind = "direction" /\ KnownToServer(request.q)
  /\ IF feedback[request.q].tone = "direction"
     THEN feedback' = [feedback EXCEPT ![request.q] = [tone |-> "direction", id |-> request.id]]
     ELSE UNCHANGED feedback
  /\ Replied(request)
  /\ UNCHANGED <<attempts, prompted, summary, strayed>>

\* Mutant: the regraded attempt is not carried over to the summary.
GradeReplyNoSummary(request) ==
  /\ request.kind = "grade" /\ KnownToServer(request.q)
  /\ \E score \in Scores :
       attempts' = [i \in DOMAIN attempts |-> IF attempts[i].id = request.id
                      THEN [attempts[i] EXCEPT !.score = score] ELSE attempts[i]]
  /\ UNCHANGED <<feedback, summary, strayed>>
  /\ Replied(request)
  /\ UNCHANGED prompted

Last(as, q) == CHOOSE i \in DOMAIN as : as[i].q = q /\ \A k \in DOMAIN as : as[k].q = q => k <= i

\* applyProviderAttemptFeedback: the attempt is regraded, the summaries of the selected
\* topic are made anew, and the feedback is shown if the attempt is the newest.
GradeReply(request) ==
  /\ request.kind = "grade" /\ KnownToServer(request.q)
  /\ \E score \in Scores :
       attempts' = [i \in DOMAIN attempts |-> IF attempts[i].id = request.id
                      THEN [attempts[i] EXCEPT !.score = score] ELSE attempts[i]]
  /\ IF selected # None /\ summary[selected] # None
     THEN summary' = [summary EXCEPT ![selected] = Results(attempts', selected)]
     ELSE UNCHANGED summary
  /\ strayed' = strayed \cup
       {attempts[i].topic : i \in {i \in DOMAIN attempts : /\ attempts[i].id = request.id
                                                          /\ attempts[i].topic # selected}}
  /\ IF Attempted(attempts, request.q) /\ attempts[Last(attempts, request.q)].id = request.id
     THEN feedback' = [feedback EXCEPT ![request.q] = [tone |-> "graded", id |-> request.id]]
     ELSE UNCHANGED feedback
  /\ Replied(request)
  /\ UNCHANGED prompted

\* generateSimilarWithProvider: what it may send, at most one text for each question asked
\* for, and nothing before every real question of the topic has an attempt.
VariantsFromServer(request) ==
  {vs \in SUBSET request.qs : vs # {} /\ saved # None /\ Exhausted(saved.attempts, request.topic)}

\* Mutant: variants are put in place even when their questions are gone.
VariantsReplyAnyway(request) ==
  /\ request.kind = "variants"
  /\ prompted' \in {prompted \cup vs : vs \in SUBSET request.qs \ {{}}}
  /\ Replied(request)
  /\ UNCHANGED <<attempts, summary, strayed, feedback>>

\* The provider's texts replace those of the generated questions still in the dataset.
VariantsReply(request) ==
  /\ request.kind = "variants"
  /\ prompted' \in {prompted \cup (vs \cap Generated) : vs \in VariantsFromServer(request)}
  /\ Replied(request)
  /\ UNCHANGED <<attempts, summary, strayed, feedback>>

Reply(request) ==
  NoReply(request) \/ DirectionReply(request) \/ GradeReply(request) \/ VariantsReply(request)

-----------------------------------------------------------------------------
(* The server's copy, page reloads, and starting over *)

Save ==
  /\ loaded /\ saved # Current
  /\ saves < MaxSaves /\ saves' = saves + 1
  /\ saved' = Current
  /\ UNCHANGED <<snapshot, view, help, pending, loaded, checks, reloads, resets, ids, tried, asked>>

\* Mutant: the open solutions are not kept.
ReloadForgetsOpen ==
  /\ reloads < MaxReloads
  /\ reloads' = reloads + 1
  /\ dialog' = None
  /\ pending' = {}
  /\ loaded' = FALSE
  /\ open' = {}
  /\ UNCHANGED <<snapshot, selected, active, review, hinted, feedback, saved, checks, saves, resets, ids, tried, asked>>

\* localStorage keeps everything but the dialog; the requests die with the page.
Reload ==
  /\ reloads < MaxReloads
  /\ reloads' = reloads + 1
  /\ dialog' = None
  /\ pending' = {}
  /\ loaded' = FALSE
  /\ UNCHANGED <<snapshot, selected, active, review, help, saved, checks, saves, resets, ids, tried, asked>>

\* Mutant: the attempts are taken from the server and the generated questions kept.
LoadApplyInPart ==
  /\ ~loaded /\ saved # None
  /\ loaded' = TRUE
  /\ attempts' = saved.attempts /\ summary' = saved.summary /\ strayed' = saved.strayed
  /\ dialog' = None /\ review' = None
  /\ tried' = tried \cup saved.tried
  /\ UNCHANGED <<sourceOf, prompted, selected, active, help, pending, saved, bounds, ids, asked>>

\* applyServerSnapshot: the page keeps its topic, its question if it is still there,
\* and what it has shown of hints, feedback and solutions.
LoadApply ==
  /\ ~loaded /\ saved # None
  /\ loaded' = TRUE
  /\ attempts' = saved.attempts /\ sourceOf' = saved.sourceOf /\ prompted' = saved.prompted
  /\ summary' = saved.summary /\ strayed' = saved.strayed
  /\ selected' \in IF selected # None THEN {selected} ELSE Topics
  /\ active' \in IF active \in Real \cup {v \in Variants : sourceOf'[v] # None} THEN {active}
                 ELSE OneOf(Heads(attempts', RealOf(selected')))
  /\ dialog' = None /\ review' = None
  /\ tried' = tried \cup saved.tried
  /\ UNCHANGED <<help, pending, saved, bounds, ids, asked>>

\* There is nothing to load, and the page sends what it has; or the load fails.
LoadNothing ==
  /\ ~loaded
  /\ loaded' = TRUE
  /\ saved' \in IF saved = None THEN {None, Current} ELSE {saved}
  /\ UNCHANGED <<snapshot, view, help, pending, bounds, ids, tried, asked>>

\* resetStudyProgress, and replaceDataset with a course that has the same question ids.
StartOver ==
  /\ resets < MaxResets
  /\ resets' = resets + 1
  /\ attempts' = <<>> /\ sourceOf' = NoSource /\ prompted' = {} /\ summary' = NoSummary
  /\ selected' = None /\ active' = None /\ dialog' = None /\ review' = None
  /\ hinted' = {} /\ feedback' = Blank /\ open' = {}
  /\ tried' = {} /\ checked' = NoCheck /\ crossed' = {} /\ strayed' = {}
  /\ UNCHANGED <<pending, saved, loaded, checks, saves, reloads, ids>>

Next ==
  \/ \E t \in Topics : SelectTopic(t)
  \/ SelectProject
  \/ \E q \in Real : SelectQuestion(q)
  \/ MoveToNext \/ ViewResults
  \/ \E q \in Questions :
       \/ CheckDirection(q) \/ RequestHint(q) \/ RevealSolution(q)
       \/ \E score \in Scores : SubmitAnswer(q, score)
  \/ DismissSummary \/ RepeatAll \/ RepeatNotPerfect \/ ReviewSolutions
  \/ GenerateSimilar
  \/ \E request \in pending : Reply(request)
  \/ Save \/ Reload \/ LoadApply \/ LoadNothing \/ StartOver

Spec == Init /\ [][Next]_vars

-----------------------------------------------------------------------------
(* Properties *)

\* Generated questions exist only in topics whose real questions have all been
\* attempted, also after the server's copy replaced the attempts.
GenerationUnlocked ==
  \A v \in Generated : Exhausted(attempts, TopicOf(v))

\* The solutions on the screen (of the review panel, and of the active question, whose
\* support getStudySupportVisibility unlocks) are of questions the learner submitted
\* or revealed before.
OnScreen ==
  IF selected = None THEN {}
  ELSE IF review = selected THEN RealOf(selected) \cup ({active} \ {None})
  ELSE {q \in {active} \ {None} : Attempted(attempts, q) \/ q \in open}

NoSpoilers == OnScreen \subseteq tried

\* Whenever the panel offers "View results" there are results to view, and the dialog
\* shows the topic that is selected.
ResultsAvailable ==
  /\ \A t \in Topics : Exhausted(attempts, t) => summary[t] # None
  /\ dialog # None => dialog = selected /\ summary[dialog] # None

\* A topic's summary is the one its attempts give, regraded ones included, unless an
\* attempt was regraded while another topic was selected.
SummaryMatchesAttempts ==
  \A t \in Topics : summary[t] # None /\ t \notin strayed => summary[t] = Results(attempts, t)

\* Until a new start, a solution is revealed once per question, also when a load put
\* the attempts back; and an open solution is on record as a revealed attempt unless a
\* load replaced the attempts.
Reveals(q) == {i \in DOMAIN attempts : attempts[i].q = q /\ attempts[i].revealed}

RevealTracked ==
  \A q \in Questions :
    /\ resets = 0 => Cardinality(Reveals(q)) <= 1
    /\ reloads = 0 => (q \in open <=> Reveals(q) # {})

\* The feedback shown for a question is about its newest attempt or, in the tone of a
\* direction check, about a check: no late reply shows that tone, nor lets an attempt be
\* recorded as one that used a check, unless a check was made since the newest attempt.
\* The text is then of that check, unless an earlier one was still unanswered when it
\* was made: the reply to that one puts its own text in place.
FeedbackIsCurrent ==
  \A q \in Questions :
    /\ feedback[q].tone = "direction" =>
         /\ checked[q] # -1
         /\ feedback[q].id = checked[q] \/ (q \in crossed /\ feedback[q].id < checked[q])
    /\ feedback[q].tone \in {"graded", "solution"} /\ reloads = 0
         => Attempted(attempts, q) /\ attempts[Last(attempts, q)].id = feedback[q].id

\* The active question belongs to the selected topic, so attempts are booked on the
\* topic their question is of.
ActiveInTopic ==
  /\ active # None => selected # None /\ TopicOf(active) = selected
  /\ \A i \in DOMAIN attempts : attempts[i].q \in Real \cup Generated
                                  => attempts[i].topic = TopicOf(attempts[i].q)

\* A question that is repeated can be answered (revealSolutionFeedback tells the
\* learner to repeat a revealed question later without the solution visible).
RepeatsAreAnswerable ==
  [][dialog # None /\ dialog' = None /\ RepeatAll => active' = None \/ active' \notin open']_vars
=============================================================================
