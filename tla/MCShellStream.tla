--------------------------- MODULE MCShellStream ---------------------------
(* Model-checking definitions for ShellStream. *)
EXTENDS ShellStream, TLC

CONSTANTS p1, t1

Logged(kind, a) == [cmd |-> None, event |-> Event(kind, a)]

\* A project with one thread, of the day before.
OneThread ==
  <<Logged("project.created", p1),
    [cmd |-> None, event |-> Creation(t1, p1)]>>

\* What changes whether the project and the thread are shown, and what only updates them.
Changes ==
       [op : {"project.meta.update"}, of : {p1}]
  \cup [op : {"project.delete"}, of : {p1}, force : {TRUE}]
  \cup [op : {"thread.delete", "thread.archive", "thread.unarchive", "thread.update"},
        of : {t1}]

Perms == Permutations(Commands)
=============================================================================
