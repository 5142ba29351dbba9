-------------------------- MODULE MCOrchestration --------------------------
(* Model-checking definitions for OrchestrationEngine. *)
EXTENDS OrchestrationEngine

CONSTANTS p1, t1, t2

Logged(kind, a) == [cmd |-> None, event |-> Event(kind, a)]

LoggedThread(t) ==
  [cmd |-> None, event |-> Creation(t, p1)]

\* A project with one thread, of the day before.
OneThread == <<Logged("project.created", p1), LoggedThread(t1)>>

\* What a learner's commands can do to the project and its two threads.
LifeCycle ==
       [op : {"project.create"}, of : {p1}]
  \cup [op : {"project.delete"}, of : {p1}, force : BOOLEAN]
  \cup [op : {"thread.create"}, of : {t1, t2}, in : {p1}]
  \cup [op : {"thread.delete", "thread.archive"}, of : {t1}]
  \cup [op : {"thread.unarchive"}, of : {t2}]
  \cup [op : {"thread.turn.start"}, of : {t1}, from : {None, t2}]
=============================================================================
