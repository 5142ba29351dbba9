--------------------------- MODULE MCStudySession ---------------------------
(* Model-checking definitions for StudySession. *)
EXTENDS StudySession, TLC

CONSTANTS q1, q2, t1, t2

\* One question in each of two topics.
TwoTopics == (q1 :> t1) @@ (q2 :> t2)

\* One topic with two questions.
OneTopic == (q1 :> t1) @@ (q2 :> t1)

\* The two topics are alike, each with its question.
Swapped == (q1 :> q2) @@ (q2 :> q1) @@ (t1 :> t2) @@ (t2 :> t1)
Alike   == {Swapped, [x \in DOMAIN Swapped |-> x]}
=============================================================================
