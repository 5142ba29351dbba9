---------------------------- MODULE ShellStream -----------------------------
(***************************************************************************)
(* One client of the orchestration engine: the web page that keeps a view  *)
(* of the projects and threads (the shell) by a snapshot and the hot       *)
(* stream behind it (ws.ts subscribeShell, apps/web                        *)
(* environments/runtime/service.ts).  The server reads the snapshot from   *)
(* the tables; the hot stream is attached only when the snapshot has been  *)
(* consumed, so what is published in between reaches nobody.  Each event   *)
(* is forwarded with the row as it is by then, and the client drops what   *)
(* is not newer than what it has applied.  Connections are lost at any     *)
(* time, and all of them with a restart of the server.                     *)
(*                                                                         *)
(* What a row shows is abstracted to the position of the last event of its *)
(* project or thread, 0 if it is not shown.                                *)
(***************************************************************************)
EXTENDS OrchestrationEngine

CONSTANT MaxConnects  \* bound on subscriptions

ASSUME ConnectsAreNat == MaxConnects \in Nat

VARIABLES stream,   \* the subscription: off, with a snapshot under way, or live; what the
                    \* snapshot holds, and how much of `published` was forwarded
          view,     \* the shell in the page's store
          version,  \* lastAppliedProjectionVersion: its sequence, NoVersion before the first
          lost,     \* history: events after the snapshot that did not reach the page
          connects  \* history: subscriptions so far

page       == <<stream, view, version, lost, connects>>
systemVars == <<vars, page>>

-----------------------------------------------------------------------------

NoVersion == 0

Latest(a, n) ==
  LET own == {i \in 1..n : log[i].event.of = a}
  IN  IF own = {} THEN 0 ELSE CHOOSE i \in own : \A j \in own : j <= i

\* Deleted projects, deleted threads and archived threads are not part of the shell.
Visible(model, a) == model[a].state = "live" /\ ~model[a].archived

Shell == [a \in Aggregates |-> IF Visible(rows, a) THEN Latest(a, Len(log)) ELSE 0]

Off == [pc |-> "off", seq |-> 0, shell |-> [a \in Aggregates |-> 0], next |-> 0]

ShellInit == /\ Init
             /\ stream = Off
             /\ view = [a \in Aggregates |-> 0]
             /\ version = NoVersion
             /\ lost = {}
             /\ connects = 0

\* The server reads the snapshot, in one transaction.
Subscribe ==
  /\ stream.pc = "off"
  /\ connects < MaxConnects
  /\ connects' = connects + 1
  /\ stream' = [pc |-> "snapshot", seq |-> Len(log), shell |-> Shell, next |-> 0]
  /\ UNCHANGED <<view, version, lost, vars>>

\* A snapshot is applied if it is newer; of two with one sequence number the update times
\* decide, which depend on clocks.
Accepts == \/ stream.seq > version
           \/ version = NoVersion

Skipped == {published[i] : i \in DOMAIN published} \ (1..stream.seq)

ApplySnapshot == /\ view' = stream.shell
                 /\ version' = stream.seq
                 /\ lost' = Skipped

\* The page takes the snapshot and, with its acknowledgement, the hot stream is attached.
Attach ==
  /\ stream.pc = "snapshot"
  /\ stream' = [stream EXCEPT !.pc = "live", !.next = Len(published) + 1]
  /\ \/ Accepts /\ ApplySnapshot
     \/ stream.seq = version /\ ApplySnapshot
     \/ ~Accepts /\ lost' = lost \cup Skipped /\ UNCHANGED <<view, version>>
  /\ UNCHANGED <<connects, vars>>

Removes(e) == e.kind \in {"project.deleted", "thread.deleted", "thread.archived"}

\* Mutant: the row is forwarded whether or not it is still part of the shell.
ForwardsGone(e) == TRUE

\* Whether anything is forwarded for an event: an upsert of a row that is gone is not.
Forwards(e) == Removes(e) \/ Visible(rows, e.of)

\* The store's answer to an event that is forwarded.
Shown(e) == IF Removes(e) THEN 0 ELSE Latest(e.of, Len(log))

\* Mutant: a shell event carries the sequence number of the tables, not of its event.
DeliverStampedNow ==
  /\ stream.pc = "live"
  /\ stream.next <= Len(published)
  /\ stream' = [stream EXCEPT !.next = @ + 1]
  /\ LET n == published[stream.next]
         e == log[n].event
     IN  IF Forwards(e) /\ Len(log) > version
         THEN view' = [view EXCEPT ![e.of] = Shown(e)] /\ version' = Len(log)
         ELSE UNCHANGED <<view, version>>
  /\ UNCHANGED <<lost, connects, vars>>

\* The next event is turned into a shell event and applied unless it is not newer.
Deliver ==
  /\ stream.pc = "live"
  /\ stream.next <= Len(published)
  /\ stream' = [stream EXCEPT !.next = @ + 1]
  /\ LET n == published[stream.next]
         e == log[n].event
     IN  IF Forwards(e) /\ n > version
         THEN view' = [view EXCEPT ![e.of] = Shown(e)] /\ version' = n
         ELSE UNCHANGED <<view, version>>
  /\ UNCHANGED <<lost, connects, vars>>

\* The row of an event cannot be read, and the event is passed over in silence.
DeliverUnreadable ==
  /\ stream.pc = "live"
  /\ stream.next <= Len(published)
  /\ ~Removes(log[published[stream.next]].event)
  /\ stream' = [stream EXCEPT !.next = @ + 1]
  /\ lost' = lost \cup {published[stream.next]}
  /\ Fault
  /\ UNCHANGED <<view, version, connects, tables, memory, history, restarts>>

Disconnect ==
  /\ stream.pc # "off"
  /\ stream' = Off
  /\ UNCHANGED <<view, version, lost, connects, vars>>

ServerRestarts == /\ Restart
                  /\ stream' = Off
                  /\ lost' = lost \cup missed
                  /\ UNCHANGED <<view, version, connects>>

EngineSteps == /\ \/ \E c \in Commands : Dispatch(c)
                  \/ Work
                  \/ ReceiptUnreadable \/ RollBack \/ CommitInDoubt \/ ReconcileFails
                  \/ RejectionUnfiled
               /\ UNCHANGED page

ShellNext == \/ EngineSteps \/ ServerRestarts
             \/ Subscribe \/ Attach \/ Deliver \/ DeliverUnreadable \/ Disconnect

ShellSpec == ShellInit /\ [][ShellNext]_systemVars

-----------------------------------------------------------------------------
(* Properties *)

\* Forwarded to the last event, with the worker idle.
Drained == /\ worker.pc = "idle"
           /\ stream.pc = "live"
           /\ stream.next > Len(published)

\* The event that decides what is shown: the last one, or the last removal of what is hidden.
Decisive(a) ==
  IF Shell[a] # 0 THEN Latest(a, Len(log))
  ELSE LET removals == {i \in DOMAIN log : log[i].event.of = a /\ Removes(log[i].event)}
       IN  IF removals = {} THEN 0 ELSE CHOOSE i \in removals : \A j \in removals : j <= i

\* When the stream has run dry, the page shows the shell as it is on disk.  The exceptions
\* are the projects and threads whose last event, or whose removal, fell between the
\* snapshot and the stream, could not be read for the stream, or was never published as it
\* could not be read back.
ViewIsShell ==
  Drained => \A a \in Aggregates : view[a] = Shell[a] \/ Decisive(a) \in lost \cup missed

ShownAt(a, n) ==
  LET then == Project([b \in Aggregates |-> AbsentRow], SubSeq(log, 1, n))
  IN  IF Visible(then, a) THEN Latest(a, n) ELSE 0

\* Whenever the page changes what it shows of a project or thread, it shows it as it stood
\* at some point not before the version the page then claims: the events that a newer
\* snapshot has overtaken neither bring a thread back nor remove it.
StoreMovesForward ==
  [][\A a \in Aggregates :
       view'[a] # view[a] => \E n \in version'..Len(log) : view'[a] = ShownAt(a, n)]_view
=============================================================================
