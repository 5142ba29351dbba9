---------------------------- MODULE SnapshotSync ----------------------------
(***************************************************************************)
(* How the browser's study state reaches the server and comes back         *)
(* (apps/web study/studyServerSync.ts, with the store actions of           *)
(* studyStore.ts it listens to and the snapshot routes of apps/server).    *)
(*                                                                         *)
(* The store is kept in memory and, on every change, in localStorage, so   *)
(* it survives a reload of the page.  A page first loads the server's      *)
(* snapshot, which replaces the store; from then on every store event      *)
(* (re)arms a timer that PUTs the complete snapshot.  Course processing    *)
(* replaces the server's snapshot behind the page's back.                  *)
(*                                                                         *)
(* A snapshot is a course and the set of study steps (attempts, summaries, *)
(* generated batches) taken on it; two snapshots have the same JSON when   *)
(* they are equal.  Requests are not serialised: PUTs are served and        *)
(* answered in any order, and a GET may overtake them.  Time is left out:  *)
(* the 350 ms timer may fire whenever it is armed, and need never fire,    *)
(* since every further event starts it anew.                               *)
(***************************************************************************)
EXTENDS SequencesExt

CONSTANTS Steps,       \* study steps the learner may take
          Published,   \* courses the processing service may commit
          Seed,        \* the course the application ships with
          None,        \* no snapshot, no timer
          MaxInFlight, \* bound on PUTs in flight
          MaxReloads, MaxResets, MaxFaults  \* bounds on reloads, resets, failed requests

ASSUME CoursesDistinct == Seed \notin Published /\ None \notin Published \cup {Seed}
ASSUME NoneIsNoSnapshot == None \notin [course : Published \cup {Seed}, steps : SUBSET Steps]
ASSUME SyncParameters ==
  /\ MaxInFlight \in Nat \ {0}
  /\ MaxReloads \in Nat /\ MaxResets \in Nat /\ MaxFaults \in Nat

VARIABLES server,     \* the snapshot in SQLite
          store,      \* the page's store, as in localStorage
          load,       \* the page's first GET: asked, read (and what it read), done
          timer,      \* saveTimer: the snapshot it will send
          lastSaved,  \* lastSavedJson
          wire,       \* PUTs in flight, in the order they were sent
          refresh,    \* the GET that follows a finished processing job
          committed,  \* history: courses committed by jobs
          unseen,     \* history: those the page has not read since
          lost,       \* history: those a PUT replaced before the page read them
          behind,     \* history: the server's snapshot is that of a late save
          misled,     \* history: lastSavedJson is that of a late save
          taken,      \* history: steps taken
          reloads, resets, faults

courses == <<committed, unseen, lost>>
order   == <<behind, misled>>
bounds  == <<reloads, resets, faults>>
vars    == <<server, store, load, timer, lastSaved, wire, refresh, courses, order, taken, bounds>>

-----------------------------------------------------------------------------

Snapshot == [course : Published \cup {Seed}, steps : SUBSET Steps]
Fresh(c) == [course |-> c, steps |-> {}]

\* A PUT on its way.  It is heard as long as the page that sent it remembers its
\* answer.  It is late once a later PUT was served, or its answer remembered, or a
\* page loaded, before this one was (history: the code keeps no such mark).
Put == [body : Snapshot, state : {"sent", "saved", "failed"}, heard : BOOLEAN, late : BOOLEAN]

TypeOK ==
  /\ server \in Snapshot \cup {None}
  /\ store \in Snapshot
  /\ load \in [at : {"asked", "read", "done"}, body : Snapshot \cup {None}]
  /\ timer \in Snapshot \cup {None}
  /\ lastSaved \in Snapshot \cup {None}
  /\ wire \in Seq(Put) /\ Len(wire) <= MaxInFlight
  /\ refresh \in Snapshot \cup {None}
  /\ committed \subseteq Published
  /\ unseen \subseteq committed /\ lost \subseteq committed
  /\ behind \in BOOLEAN /\ misled \in BOOLEAN
  /\ taken \subseteq Steps
  /\ reloads \in 0..MaxReloads /\ resets \in 0..MaxResets /\ faults \in 0..MaxFaults

Asked == [at |-> "asked", body |-> None]
Done  == [at |-> "done", body |-> None]

Init ==
  /\ server = None
  /\ store = Fresh(Seed)
  /\ load = Asked
  /\ timer = None
  /\ lastSaved = None
  /\ wire = <<>>
  /\ refresh = None
  /\ committed = {}
  /\ unseen = {} /\ lost = {}
  /\ behind = FALSE /\ misled = FALSE
  /\ taken = {}
  /\ reloads = 0 /\ resets = 0 /\ faults = 0

Fault == faults < MaxFaults /\ faults' = faults + 1

Send(body, heard) ==
  /\ Len(wire) < MaxInFlight
  /\ wire' = Append(wire, [body |-> body, state |-> "sent", heard |-> heard, late |-> FALSE])

Unserved == {k \in DOMAIN wire : wire[k].state = "sent"}

\* The PUTs of ks have been overtaken.
Overtake(ks) == [k \in DOMAIN wire |-> [wire[k] EXCEPT !.late = @ \/ k \in ks]]

-----------------------------------------------------------------------------
(* Store events *)

\* Mutant: a store event does nothing while the timer is armed.
ScheduleOnce(next) == timer' = IF next = lastSaved \/ timer # None THEN timer ELSE next

\* scheduleSave: nothing when the snapshot is the one known to be saved (an armed
\* timer is left alone), otherwise the timer starts anew with this snapshot.
Schedule(next) == timer' = IF next = lastSaved THEN timer ELSE next

\* The subscription exists only once the first load is over.
Change(next) ==
  /\ store' = next
  /\ IF load.at = "done" THEN Schedule(next) ELSE UNCHANGED timer

Study(s) ==
  /\ s \notin taken
  /\ taken' = taken \cup {s}
  /\ Change([store EXCEPT !.steps = @ \cup {s}])
  /\ UNCHANGED <<server, load, lastSaved, wire, refresh, courses, order, bounds>>

\* An event that leaves the snapshot as it is: a draft, a hint, a selection.
Touch ==
  /\ Change(store)
  /\ UNCHANGED <<server, load, lastSaved, wire, refresh, courses, order, taken, bounds>>

\* resetStudyProgress.
Reset ==
  /\ resets < MaxResets
  /\ resets' = resets + 1
  /\ Change(Fresh(Seed))
  /\ UNCHANGED <<server, load, lastSaved, wire, refresh, courses, order, taken, reloads, faults>>

-----------------------------------------------------------------------------
(* Loading *)

\* Mutant: the store is not kept in localStorage.
ReloadForgetting ==
  /\ reloads < MaxReloads
  /\ reloads' = reloads + 1
  /\ store' = Fresh(Seed)
  /\ load' = Asked
  /\ timer' = None
  /\ lastSaved' = None /\ misled' = FALSE
  /\ wire' = [k \in DOMAIN wire |-> [wire[k] EXCEPT !.heard = FALSE]]
  /\ refresh' = None
  /\ UNCHANGED <<server, courses, behind, taken, resets, faults>>

\* The store is what localStorage holds; timers, requests and lastSavedJson die with
\* the page, but a PUT that was sent may still reach the server.
Reload ==
  /\ reloads < MaxReloads
  /\ reloads' = reloads + 1
  /\ load' = Asked
  /\ timer' = None
  /\ lastSaved' = None /\ misled' = FALSE
  /\ wire' = [k \in DOMAIN wire |-> [wire[k] EXCEPT !.heard = FALSE]]
  /\ refresh' = None
  /\ UNCHANGED <<server, store, courses, behind, taken, resets, faults>>

\* The server answers the first GET, whatever PUTs are still on their way, those of
\* the page before a reload among them.
LoadRead ==
  /\ load.at = "asked"
  /\ load' = [at |-> "read", body |-> server]
  /\ unseen' = {}
  /\ wire' = Overtake(Unserved)
  /\ UNCHANGED <<server, store, timer, lastSaved, refresh, committed, lost, order, taken, bounds>>

\* Mutant: an empty answer is applied like any other.
LoadApplyAnything ==
  /\ load.at = "read"
  /\ store' = load.body
  /\ lastSaved' \in {load.body, None} /\ misled' = FALSE
  /\ load' = Done
  /\ UNCHANGED <<server, timer, wire, refresh, courses, behind, taken, bounds>>

\* The server's snapshot replaces the store; its JSON may differ from the one the
\* page makes of it, and then nothing is known to be saved.
LoadApply ==
  /\ load.at = "read"
  /\ load.body # None
  /\ store' = load.body
  /\ lastSaved' \in {load.body, None} /\ misled' = FALSE
  /\ load' = Done
  /\ UNCHANGED <<server, timer, wire, refresh, courses, behind, taken, bounds>>

\* With no snapshot on the server the page sends its own, and takes it as saved.
LoadSeed ==
  /\ load.at = "read"
  /\ load.body = None
  /\ Send(store, FALSE)
  /\ lastSaved' = store /\ misled' = FALSE
  /\ load' = Done
  /\ UNCHANGED <<server, store, timer, refresh, courses, behind, taken, bounds>>

LoadFail ==
  /\ load.at \in {"asked", "read"}
  /\ Fault
  /\ load' = Done
  /\ UNCHANGED <<server, store, timer, lastSaved, wire, refresh, courses, order, taken, reloads, resets>>

-----------------------------------------------------------------------------
(* Saving *)

Fire ==
  /\ timer # None
  /\ Send(timer, TRUE)
  /\ timer' = None
  /\ UNCHANGED <<server, store, load, lastSaved, refresh, courses, order, taken, bounds>>

\* The PUT route: one transaction, which may fail; it compares no versions, so a save
\* that arrives late replaces the later one.
Serve(k) ==
  /\ k \in Unserved
  /\ \/ /\ server' = wire[k].body
        /\ wire' = [Overtake({i \in Unserved : i < k}) EXCEPT ![k].state = "saved"]
        /\ behind' = wire[k].late
        /\ lost' = lost \cup (unseen \ {wire[k].body.course})
        /\ UNCHANGED faults
     \/ /\ Fault
        /\ wire' = [wire EXCEPT ![k].state = "failed"]
        /\ UNCHANGED <<server, behind, lost>>
  /\ UNCHANGED <<store, load, timer, lastSaved, refresh, committed, unseen, misled, taken,
                 reloads, resets>>

\* Mutant: a save is believed whatever the answer.
AnswerBelieved(k) ==
  /\ k \in DOMAIN wire \ Unserved
  /\ wire' = RemoveAt(Overtake({i \in DOMAIN wire : i < k /\ wire[k].heard}), k)
  /\ lastSaved' = IF wire[k].heard THEN wire[k].body ELSE lastSaved
  /\ misled' = IF wire[k].heard THEN wire[k].late ELSE misled
  /\ UNCHANGED <<server, store, load, timer, refresh, courses, behind, taken, bounds>>

\* The answer reaches the page, or is lost like a failure; only a good answer to a PUT
\* of this page's timer is remembered, whichever PUT was answered before it.
Answer(k) ==
  /\ k \in DOMAIN wire \ Unserved
  /\ \/ /\ wire[k].heard /\ wire[k].state = "saved"
        /\ wire' = RemoveAt(Overtake(1..(k - 1)), k)
        /\ lastSaved' = wire[k].body
        /\ misled' = wire[k].late
        /\ UNCHANGED faults
     \/ /\ IF wire[k].heard /\ wire[k].state = "saved" THEN Fault ELSE UNCHANGED faults
        /\ wire' = RemoveAt(wire, k)
        /\ UNCHANGED <<lastSaved, misled>>
  /\ UNCHANGED <<server, store, load, timer, refresh, courses, behind, taken, reloads, resets>>

-----------------------------------------------------------------------------
(* Course processing *)

\* A job's saveSnapshot.
Commit(c) ==
  /\ c \notin committed
  /\ committed' = committed \cup {c}
  /\ server' = Fresh(c)
  /\ unseen' = unseen \cup {c}
  /\ behind' = FALSE
  /\ UNCHANGED <<store, load, timer, lastSaved, wire, refresh, lost, misled, taken, bounds>>

\* The import dialog sees that the job succeeded and loads the snapshot.
RefreshRead ==
  /\ load.at = "done"
  /\ unseen # {}
  /\ refresh = None
  /\ refresh' = server
  /\ unseen' = {}
  /\ UNCHANGED <<server, store, load, timer, lastSaved, wire, committed, lost, order, taken, bounds>>

\* Mutant: the refreshed course is shown without telling the subscription.
RefreshApplySilently ==
  /\ refresh # None
  /\ store' = Fresh(refresh.course)
  /\ refresh' = None
  /\ UNCHANGED <<server, load, timer, lastSaved, wire, courses, order, taken, bounds>>

\* onFolderImported: replaceDataset takes the course and drops every step.
RefreshApply ==
  /\ refresh # None
  /\ Change(Fresh(refresh.course))
  /\ refresh' = None
  /\ UNCHANGED <<server, load, lastSaved, wire, courses, order, taken, bounds>>

-----------------------------------------------------------------------------

Next ==
  \/ \E s \in Steps : Study(s)
  \/ Touch \/ Reset \/ Reload
  \/ LoadRead \/ LoadApply \/ LoadSeed \/ LoadFail
  \/ Fire
  \/ \E k \in DOMAIN wire : Serve(k) \/ Answer(k)
  \/ \E c \in Published : Commit(c)
  \/ RefreshRead \/ RefreshApply

Spec == Init /\ [][Next]_vars

\* The browser runs promise callbacks and the server answers.  Nobody owes the
\* learner's steps, reloads, failures or jobs, nor the timer: it fires only when no
\* event starts it anew for 350 ms.
FairSpec ==
  /\ Spec
  /\ WF_vars(LoadApply \/ LoadSeed \/ \E k \in DOMAIN wire : Answer(k))
  /\ WF_vars(LoadRead \/ \E k \in DOMAIN wire : Serve(k))

-----------------------------------------------------------------------------
(* Properties *)

Idle == load.at = "done" /\ timer = None /\ wire = <<>> /\ refresh = None

\* Steps that reached the server stay there until the learner resets or a job commits
\* another course: reloads, failed requests and failed loads never replace a snapshot
\* by one that lacks a step it had.  A late save does (nothing orders the requests);
\* it and what follows it count again from the next save that was not overtaken.
StepsStaySaved ==
  [][resets = 0 /\ committed' = {} /\ server # None /\ ~behind /\ ~behind'
       => server.steps \subseteq server'.steps]_server

\* When nothing is under way and nothing failed, the page and the server agree on the
\* course and on every step, unless the last save the server took was late, the page
\* has not read a course a job committed, or a reset made the store equal to a
\* snapshot that was saved before.
IdleMeansSaved ==
  Idle /\ resets = 0 /\ faults = 0 /\ unseen = {} /\ lost = {}
    => server = store \/ behind

\* A page that differs from the server knows it, so the next store event saves: no
\* failure leaves the page believing that its snapshot is on the server.  The page is
\* deceived only when the last save the server took was late, or when a reset made the
\* store equal to a snapshot whose save was not heard of or heard of late.
UnsavedIsNoticed ==
  /\ Idle /\ server \notin {None, store}
  /\ unseen = {} /\ lost = {} /\ ~behind
  /\ resets = 0 \/ (faults = 0 /\ ~misled)
  => lastSaved # store

\* As long as the timer is not put off for ever, and without failures, every step on a
\* loaded page is on the server sooner or later, unless the page itself drops it first
\* or the save the server took last was late.
StepsReachServer ==
  []<>(timer = None) =>
    \A s \in Steps : load.at = "done" /\ s \in store.steps ~>
      \/ server # None /\ s \in server.steps
      \/ s \notin store.steps
      \/ behind \/ faults > 0

\* A loaded page shows every step the server holds, however often it was reloaded and
\* whichever requests failed, as long as the save the server took last was not late:
\* one that the page's load or a later save overtook.
ServerNotAhead ==
  load.at = "done" /\ server # None /\ resets = 0 /\ committed = {} /\ ~behind
    => server.steps \subseteq store.steps

\* A committed course stays the durable course until the page has read it.
CommittedCourseStays == lost = {}
=============================================================================
