------------------------- MODULE SnapshotSyncProofs -------------------------
(***************************************************************************)
(* Proofs about SnapshotSync, for any steps, courses and bounds and for     *)
(* requests served and answered in any order: only a late save takes a     *)
(* step from the server that it had, and a page with nothing under way has *)
(* the snapshot that the server has unless the server took a late save.    *)
(***************************************************************************)
EXTENDS SnapshotSync, SequenceTheorems, TLAPS

\* What is left when one request is taken off the wire.
LEMMA Removed ==
  ASSUME NEW T, NEW w \in Seq(T), NEW k \in DOMAIN w
  PROVE  /\ RemoveAt(w, k) \in Seq(T)
         /\ Len(RemoveAt(w, k)) = Len(w) - 1
         /\ \A i \in 1..(Len(w) - 1) : RemoveAt(w, k)[i] = IF i < k THEN w[i] ELSE w[i + 1]
<1> DEFINE a == SubSeq(w, 1, k - 1)
           b == SubSeq(w, k + 1, Len(w))
<1>1. k \in 1..Len(w) /\ Len(w) \in Nat
  OBVIOUS
<1>2. /\ a \in Seq(T) /\ Len(a) = k - 1
      /\ \A i \in 1..(k - 1) : a[i] = w[i]
  BY <1>1
<1>3. /\ b \in Seq(T) /\ Len(b) = Len(w) - k
      /\ \A i \in 1..(Len(w) - k) : b[i] = w[k + i]
  BY <1>1
<1>4. RemoveAt(w, k) = a \o b
  BY DEF RemoveAt
<1> HIDE DEF a, b
<1>5. /\ a \o b \in Seq(T)
      /\ Len(a \o b) = Len(a) + Len(b)
      /\ \A i \in 1..(Len(a) + Len(b)) : (a \o b)[i] = IF i <= Len(a) THEN a[i] ELSE b[i - Len(a)]
  BY <1>2, <1>3, ConcatProperties
<1>6. ASSUME NEW i \in 1..(Len(w) - 1)
      PROVE  (a \o b)[i] = IF i < k THEN w[i] ELSE w[i + 1]
  <2>1. CASE i < k
    BY <2>1, <1>1, <1>2, <1>3, <1>5
  <2>2. CASE ~(i < k)
    <3>1. i - (k - 1) \in 1..(Len(w) - k) /\ k + (i - (k - 1)) = i + 1
      BY <2>2, <1>1
    <3>2. i \in 1..(Len(a) + Len(b)) /\ ~(i <= Len(a)) /\ i - Len(a) = i - (k - 1)
      BY <2>2, <1>1, <1>2, <1>3
    <3>3. (a \o b)[i] = b[i - (k - 1)]
      BY <3>2, <1>5
    <3>4. QED
      BY <3>1, <3>3, <1>3, <2>2
  <2>3. QED
    BY <2>1, <2>2
<1>7. Len(a \o b) = Len(w) - 1
  BY <1>1, <1>2, <1>3, <1>5
<1>8. QED
  BY <1>4, <1>5, <1>6, <1>7

-----------------------------------------------------------------------------
(* Types *)

LEMMA Bounds == /\ MaxInFlight \in Nat \ {0} /\ MaxReloads \in Nat
                /\ MaxResets \in Nat /\ MaxFaults \in Nat
BY SyncParameters

LEMMA UnservedIsOnWire == Unserved \subseteq DOMAIN wire
BY DEF Unserved

LEMMA NoneIsApart == None \notin Snapshot
BY NoneIsNoSnapshot DEF Snapshot

LEMMA ChangeEffect ==
  ASSUME TypeOK, NEW next \in Snapshot, Change(next)
  PROVE  store' = next /\ timer' \in {timer, next} /\ (load.at # "done" => timer' = timer)
BY DEF Change, Schedule

LEMMA WireIs ==
  ASSUME TypeOK
  PROVE  /\ wire \in Seq(Put) /\ Len(wire) \in Nat /\ DOMAIN wire = 1..Len(wire)
         /\ \A i \in DOMAIN wire : i \in Nat /\ wire[i] \in Put /\ wire[i].body # None
<1>1. wire \in Seq(Put)
  BY DEF TypeOK
<1>2. \A p \in Put : p.body # None
  BY NoneIsApart DEF Put
<1>3. QED
  BY <1>1, <1>2

\* The saves the server has still to take that nothing overtook.
OnTime == {k \in Unserved : ~wire[k].late}

LEMMA OnTimeOnWire == OnTime \subseteq Unserved /\ OnTime \subseteq DOMAIN wire
BY DEF OnTime, Unserved

\* Overtaking marks requests and changes nothing else of them.
LEMMA WireMarked ==
  ASSUME TypeOK, NEW ks
  PROVE  /\ Overtake(ks) \in Seq(Put) /\ Len(Overtake(ks)) = Len(wire)
         /\ DOMAIN Overtake(ks) = DOMAIN wire
         /\ \A i \in DOMAIN wire : /\ Overtake(ks)[i].body = wire[i].body
                                   /\ Overtake(ks)[i].state = wire[i].state
                                   /\ Overtake(ks)[i].heard = wire[i].heard
                                   /\ Overtake(ks)[i].late <=> (wire[i].late \/ i \in ks)
<1> DEFINE p(i) == [wire[i] EXCEPT !.late = @ \/ i \in ks]
<1>1. Overtake(ks) = [i \in 1..Len(wire) |-> p(i)]
  BY WireIs DEF Overtake
<1>2. ASSUME NEW i \in DOMAIN wire
      PROVE  /\ p(i) \in Put
             /\ p(i).body = wire[i].body /\ p(i).state = wire[i].state /\ p(i).heard = wire[i].heard
             /\ p(i).late <=> (wire[i].late \/ i \in ks)
  BY WireIs DEF Put
<1> HIDE DEF p
<1>3. QED
  BY <1>1, <1>2, WireIs

\* The request at the end of the wire is the one sent.
LEMMA WireSent ==
  ASSUME TypeOK, NEW b \in Snapshot, NEW h \in BOOLEAN, Send(b, h)
  PROVE  /\ wire' \in Seq(Put) /\ Len(wire') <= MaxInFlight
         /\ Len(wire') = Len(wire) + 1 /\ DOMAIN wire' = 1..(Len(wire) + 1)
         /\ \A i \in DOMAIN wire' : i \in DOMAIN wire \/ i = Len(wire) + 1
         /\ \A i \in DOMAIN wire : i < Len(wire) + 1 /\ wire'[i] = wire[i]
         /\ Len(wire) + 1 \in DOMAIN wire' /\ Len(wire) + 1 \notin DOMAIN wire
         /\ wire'[Len(wire) + 1] = [body |-> b, state |-> "sent", heard |-> h, late |-> FALSE]
         /\ Unserved' = Unserved \cup {Len(wire) + 1}
         /\ OnTime' = OnTime \cup {Len(wire) + 1}
<1> DEFINE p == [body |-> b, state |-> "sent", heard |-> h, late |-> FALSE]
<1>1. /\ p \in Put /\ p.state = "sent" /\ ~p.late
      /\ wire' = Append(wire, p) /\ Len(wire) < MaxInFlight
  BY DEF Put, Send
<1> HIDE DEF p
<1>2. /\ wire' \in Seq(Put) /\ Len(wire') = Len(wire) + 1 /\ DOMAIN wire' = 1..(Len(wire) + 1)
      /\ \A i \in DOMAIN wire : wire'[i] = wire[i]
      /\ wire'[Len(wire) + 1] = p
  BY <1>1, WireIs
<1>3. /\ \A i \in 1..(Len(wire) + 1) : i \in 1..Len(wire) \/ i = Len(wire) + 1
      /\ \A i \in 1..Len(wire) : i \in 1..(Len(wire) + 1) /\ i < Len(wire) + 1
      /\ Len(wire) + 1 \in 1..(Len(wire) + 1) /\ Len(wire) + 1 \notin 1..Len(wire)
  BY WireIs
<1>4. Unserved' = Unserved \cup {Len(wire) + 1}
  BY <1>1, <1>2, <1>3, WireIs DEF Unserved
<1>5. OnTime' = OnTime \cup {Len(wire) + 1}
  BY <1>1, <1>2, <1>3, <1>4, WireIs, UnservedIsOnWire DEF OnTime
<1>6. Len(wire') <= MaxInFlight
  BY <1>1, <1>2, WireIs, Bounds
<1>7. QED
  BY <1>2, <1>3, <1>4, <1>5, <1>6, WireIs DEF p

\* A save that is taken overtakes those sent before it that are still under way.
LEMMA WireServed ==
  ASSUME TypeOK, NEW k \in DOMAIN wire, Serve(k)
  PROVE  /\ wire' \in Seq(Put) /\ Len(wire') = Len(wire) /\ DOMAIN wire' = DOMAIN wire
         /\ k \in Unserved /\ Unserved' = Unserved \ {k}
         /\ \A i \in DOMAIN wire : /\ wire'[i].body = wire[i].body
                                   /\ wire'[i].heard = wire[i].heard
                                   /\ i # k => wire'[i].state = wire[i].state
         /\ \/ /\ wire'[k].state = "saved" /\ server' = wire[k].body /\ faults' = faults
               /\ behind' = wire[k].late
               /\ \A i \in DOMAIN wire : wire'[i].late <=> (wire[i].late \/ (i \in Unserved /\ i < k))
               /\ OnTime' = {i \in OnTime : k < i}
            \/ /\ wire'[k].state = "failed" /\ server' = server /\ faults' # 0
               /\ behind' = behind
               /\ \A i \in DOMAIN wire : wire'[i].late <=> wire[i].late
               /\ OnTime' = OnTime \ {k}
<1>1. k \in Unserved /\ wire[k].state = "sent"
  BY DEF Serve, Unserved
<1>2. ASSUME NEW w \in Seq(Put), Len(w) = Len(wire), DOMAIN w = DOMAIN wire,
             \A i \in DOMAIN wire : w[i].body = wire[i].body /\ w[i].heard = wire[i].heard
                                    /\ w[i].state = wire[i].state,
             NEW st \in {"saved", "failed"}, wire' = [w EXCEPT ![k].state = st]
      PROVE  /\ wire' \in Seq(Put) /\ Len(wire') = Len(wire) /\ DOMAIN wire' = DOMAIN wire
             /\ Unserved' = Unserved \ {k} /\ wire'[k].state = st
             /\ \A i \in DOMAIN wire : /\ wire'[i].body = wire[i].body
                                       /\ wire'[i].heard = wire[i].heard
                                       /\ i # k => wire'[i].state = wire[i].state
                                       /\ wire'[i].late = w[i].late
  <2>1. \A i \in DOMAIN wire : w[i] \in Put
    BY <1>2
  <2>2. [w[k] EXCEPT !.state = st] \in Put
    BY <2>1 DEF Put
  <2>3. wire' \in Seq(Put) /\ Len(wire') = Len(wire) /\ DOMAIN wire' = DOMAIN wire
    BY <1>2, <2>2
  <2>4. \A i \in DOMAIN wire : wire'[i] = IF i = k THEN [w[k] EXCEPT !.state = st] ELSE w[i]
    BY <1>2, <2>3
  <2>5. \A i \in DOMAIN wire : /\ wire'[i].body = wire[i].body
                               /\ wire'[i].heard = wire[i].heard
                               /\ wire'[i].state = IF i = k THEN st ELSE wire[i].state
                               /\ wire'[i].late = w[i].late
    BY <1>2, <2>1, <2>4 DEF Put
  <2>6. Unserved' = Unserved \ {k}
    BY <2>3, <2>5 DEF Unserved
  <2>7. QED
    BY <2>3, <2>5, <2>6
<1>3. CASE /\ server' = wire[k].body
           /\ wire' = [Overtake({i \in Unserved : i < k}) EXCEPT ![k].state = "saved"]
           /\ behind' = wire[k].late /\ faults' = faults
  <2> DEFINE ks == {i \in Unserved : i < k}
  <2>1. \A i \in DOMAIN wire : i \in ks <=> i \in Unserved /\ i < k
    OBVIOUS
  <2> HIDE DEF ks
  <2> DEFINE w == Overtake(ks)
  <2>2. /\ wire' = [w EXCEPT ![k].state = "saved"]
        /\ w \in Seq(Put) /\ Len(w) = Len(wire) /\ DOMAIN w = DOMAIN wire
        /\ \A i \in DOMAIN wire : /\ w[i].body = wire[i].body /\ w[i].heard = wire[i].heard
                                  /\ w[i].state = wire[i].state
                                  /\ w[i].late <=> (wire[i].late \/ i \in ks)
    BY <1>3, WireMarked DEF ks
  <2> HIDE DEF w
  <2>3. /\ wire' \in Seq(Put) /\ Len(wire') = Len(wire) /\ DOMAIN wire' = DOMAIN wire
        /\ Unserved' = Unserved \ {k} /\ wire'[k].state = "saved"
        /\ \A i \in DOMAIN wire : /\ wire'[i].body = wire[i].body
                                  /\ wire'[i].heard = wire[i].heard
                                  /\ i # k => wire'[i].state = wire[i].state
                                  /\ wire'[i].late = w[i].late
    BY <1>2, <2>2
  <2>4. \A i \in DOMAIN wire : wire'[i].late <=> (wire[i].late \/ (i \in Unserved /\ i < k))
    BY <2>1, <2>2, <2>3
  <2>5. OnTime' = {i \in OnTime : k < i}
    <3>1. \A i \in DOMAIN wire : i # k => (~(i < k) <=> k < i)
      BY WireIs
    <3>2. QED
      BY <1>1, <2>3, <2>4, <3>1, WireIs, UnservedIsOnWire DEF OnTime
  <2>6. QED
    BY <1>1, <1>3, <2>3, <2>4, <2>5
<1>4. CASE /\ faults' = faults + 1 /\ wire' = [wire EXCEPT ![k].state = "failed"]
           /\ server' = server /\ behind' = behind
  <2>1. faults' # 0
    BY <1>4, Bounds DEF TypeOK
  <2>2. /\ wire' \in Seq(Put) /\ Len(wire') = Len(wire) /\ DOMAIN wire' = DOMAIN wire
        /\ Unserved' = Unserved \ {k} /\ wire'[k].state = "failed"
        /\ \A i \in DOMAIN wire : /\ wire'[i].body = wire[i].body
                                  /\ wire'[i].heard = wire[i].heard
                                  /\ i # k => wire'[i].state = wire[i].state
                                  /\ wire'[i].late = wire[i].late
    BY <1>2, <1>4, WireIs
  <2>3. OnTime' = OnTime \ {k}
    BY <2>2, UnservedIsOnWire DEF OnTime
  <2>4. QED
    BY <1>1, <1>4, <2>1, <2>2, <2>3
<1>5. QED
  BY <1>3, <1>4 DEF Serve, Fault

\* Where a request was on the wire before the k-th was answered.
Old(k, i) == IF i < k THEN i ELSE i + 1

\* An answer takes its request off the wire; one that is remembered overtakes those sent
\* before it.
LEMMA WireAnswered ==
  ASSUME TypeOK, NEW k \in DOMAIN wire, Answer(k)
  PROVE  /\ wire' \in Seq(Put) /\ Len(wire') <= MaxInFlight
         /\ k \notin Unserved
         /\ \A i \in DOMAIN wire' : /\ Old(k, i) \in DOMAIN wire /\ Old(k, i) # k
                                    /\ wire'[i].body = wire[Old(k, i)].body
                                    /\ wire'[i].state = wire[Old(k, i)].state
                                    /\ wire'[i].heard = wire[Old(k, i)].heard
         /\ \A i, j \in DOMAIN wire' : i < j <=> Old(k, i) < Old(k, j)
         /\ \A j \in DOMAIN wire : j = k \/ \E i \in DOMAIN wire' : Old(k, i) = j
         /\ \/ /\ wire[k].heard /\ wire[k].state = "saved" /\ faults' = faults
               /\ lastSaved' = wire[k].body /\ misled' = wire[k].late
               /\ \A i \in DOMAIN wire' : wire'[i].late <=> (wire[Old(k, i)].late \/ Old(k, i) < k)
            \/ /\ UNCHANGED <<lastSaved, misled>>
               /\ wire[k].heard /\ wire[k].state = "saved" => faults' # 0
               /\ \A i \in DOMAIN wire' : wire'[i].late <=> wire[Old(k, i)].late
<1>1. ASSUME NEW w \in Seq(Put), Len(w) = Len(wire), wire' = RemoveAt(w, k)
      PROVE  /\ wire' \in Seq(Put) /\ Len(wire') <= MaxInFlight
             /\ \A i \in DOMAIN wire' : /\ Old(k, i) \in DOMAIN wire /\ Old(k, i) # k
                                        /\ wire'[i] = w[Old(k, i)]
             /\ \A i, j \in DOMAIN wire' : i < j <=> Old(k, i) < Old(k, j)
             /\ \A j \in DOMAIN wire : j = k \/ \E i \in DOMAIN wire' : Old(k, i) = j
  <2>1. k \in DOMAIN w /\ k \in 1..Len(wire) /\ Len(wire) \in Nat /\ DOMAIN wire = 1..Len(wire)
    BY <1>1, WireIs
  <2>2. /\ wire' \in Seq(Put) /\ Len(wire') = Len(wire) - 1
        /\ \A i \in 1..(Len(wire) - 1) : wire'[i] = IF i < k THEN w[i] ELSE w[i + 1]
    BY <1>1, <2>1, Removed
  <2>3. DOMAIN wire' = 1..(Len(wire) - 1)
    BY <2>1, <2>2
  <2>4. \A i \in 1..(Len(wire) - 1) : Old(k, i) \in 1..Len(wire) /\ Old(k, i) # k
    BY <2>1 DEF Old
  <2>5. \A i \in 1..(Len(wire) - 1) : wire'[i] = w[Old(k, i)]
    BY <2>2 DEF Old
  <2>6. \A i, j \in 1..(Len(wire) - 1) : i < j <=> Old(k, i) < Old(k, j)
    BY <2>1 DEF Old
  <2>7. ASSUME NEW j \in 1..Len(wire), j # k PROVE \E i \in 1..(Len(wire) - 1) : Old(k, i) = j
    <3>1. CASE j < k
      BY <2>1, <3>1 DEF Old
    <3>2. CASE j > k
      <4>1. j - 1 \in 1..(Len(wire) - 1) /\ Old(k, j - 1) = j
        BY <2>1, <3>2 DEF Old
      <4>2. QED
        BY <4>1
    <3>3. QED
      BY <2>1, <2>7, <3>1, <3>2
  <2>8. Len(wire') <= MaxInFlight
    BY <2>1, <2>2, Bounds DEF TypeOK
  <2>9. QED
    BY <2>1, <2>2, <2>3, <2>4, <2>5, <2>6, <2>7, <2>8
<1>2. k \notin Unserved
  BY DEF Answer
<1>3. CASE /\ wire[k].heard /\ wire[k].state = "saved" /\ faults' = faults
           /\ wire' = RemoveAt(Overtake(1..(k - 1)), k)
           /\ lastSaved' = wire[k].body /\ misled' = wire[k].late
  <2> DEFINE w == Overtake(1..(k - 1))
  <2>1. \A i \in DOMAIN wire : i \in 1..(k - 1) <=> i < k
    BY WireIs
  <2>2. /\ w \in Seq(Put) /\ Len(w) = Len(wire) /\ wire' = RemoveAt(w, k)
        /\ \A i \in DOMAIN wire : /\ w[i].body = wire[i].body /\ w[i].heard = wire[i].heard
                                  /\ w[i].state = wire[i].state
                                  /\ w[i].late <=> (wire[i].late \/ i < k)
    BY <1>3, <2>1, WireMarked
  <2> HIDE DEF w
  <2>3. /\ wire' \in Seq(Put) /\ Len(wire') <= MaxInFlight
        /\ \A i \in DOMAIN wire' : /\ Old(k, i) \in DOMAIN wire /\ Old(k, i) # k
                                   /\ wire'[i] = w[Old(k, i)]
        /\ \A i, j \in DOMAIN wire' : i < j <=> Old(k, i) < Old(k, j)
        /\ \A j \in DOMAIN wire : j = k \/ \E i \in DOMAIN wire' : Old(k, i) = j
    BY <1>1, <2>2
  <2>4. QED
    BY <1>2, <1>3, <2>2, <2>3
<1>4. CASE /\ IF wire[k].heard /\ wire[k].state = "saved" THEN Fault ELSE UNCHANGED faults
           /\ wire' = RemoveAt(wire, k) /\ UNCHANGED <<lastSaved, misled>>
  <2>1. wire[k].heard /\ wire[k].state = "saved" => faults' # 0
    BY <1>4, Bounds DEF Fault, TypeOK
  <2>2. QED
    BY <1>1, <1>2, <1>4, <2>1, WireIs
<1>5. QED
  BY <1>3, <1>4 DEF Answer

\* Lateness runs in order: what was sent before a late save, or before one the server has
\* taken, is late as well.
InOrder ==
  /\ \A i, j \in Unserved : i < j /\ wire[j].late => wire[i].late
  /\ \A i \in Unserved, j \in DOMAIN wire : i < j /\ wire[j].state = "saved" => wire[i].late

\* An answer leaves what is to be served, and what of it is on time, as it was.
LEMMA LeftAnswered ==
  ASSUME TypeOK, NEW k \in DOMAIN wire, Answer(k)
  PROVE  /\ \A i \in Unserved' : i \in DOMAIN wire' /\ Old(k, i) \in Unserved
         /\ \A i \in OnTime' : i \in DOMAIN wire' /\ Old(k, i) \in OnTime
         /\ InOrder => \A j \in OnTime : \E i \in OnTime' : Old(k, i) = j
<1>1. \A i \in DOMAIN wire' : /\ Old(k, i) \in DOMAIN wire
                              /\ wire'[i].state = wire[Old(k, i)].state
                              /\ wire'[i].late => wire[Old(k, i)].late
                                                  \/ (Old(k, i) < k /\ wire[k].state = "saved")
                              /\ wire[Old(k, i)].late => wire'[i].late
  BY WireAnswered
<1>2. \A i \in DOMAIN wire' : i \in Unserved' <=> Old(k, i) \in Unserved
  BY <1>1 DEF Unserved
<1>3. \A i \in OnTime' : i \in DOMAIN wire' /\ Old(k, i) \in OnTime
  BY <1>1, <1>2 DEF OnTime, Unserved
<1>4. ASSUME InOrder, NEW j \in OnTime PROVE \E i \in OnTime' : Old(k, i) = j
  <2>1. j \in Unserved /\ ~wire[j].late /\ j # k
    BY WireAnswered DEF OnTime
  <2>2. PICK i \in DOMAIN wire' : Old(k, i) = j
    BY <2>1, WireAnswered, UnservedIsOnWire
  <2>3. ~(j < k /\ wire[k].state = "saved")
    BY <1>4, <2>1 DEF InOrder
  <2>4. i \in OnTime'
    BY <1>1, <1>2, <2>1, <2>2, <2>3 DEF OnTime
  <2>5. QED
    BY <2>2, <2>4
<1>5. QED
  BY <1>2, <1>3, <1>4 DEF Unserved

LEMMA WireReloaded ==
  ASSUME TypeOK, Reload
  PROVE  /\ wire' \in Seq(Put) /\ Len(wire') = Len(wire) /\ DOMAIN wire' = DOMAIN wire
         /\ Unserved' = Unserved /\ OnTime' = OnTime
         /\ \A i \in DOMAIN wire : /\ wire'[i].heard = FALSE
                                   /\ wire'[i].body = wire[i].body
                                   /\ wire'[i].state = wire[i].state
                                   /\ wire'[i].late = wire[i].late
<1>1. wire' = [k \in 1..Len(wire) |-> [wire[k] EXCEPT !.heard = FALSE]]
  BY WireIs DEF Reload
<1>2. ASSUME NEW i \in DOMAIN wire
      PROVE  /\ wire'[i] \in Put
             /\ wire'[i].body = wire[i].body
             /\ wire'[i].state = wire[i].state
             /\ wire'[i].late = wire[i].late
             /\ wire'[i].heard = FALSE
  <2>1. wire[i] \in Put
    BY WireIs
  <2>2. wire'[i] = [wire[i] EXCEPT !.heard = FALSE]
    BY <1>1, WireIs
  <2>3. QED
    BY <2>1, <2>2 DEF Put
<1>3. wire' \in Seq(Put) /\ Len(wire') = Len(wire) /\ DOMAIN wire' = DOMAIN wire
  BY <1>1, <1>2, WireIs
<1>4. Unserved' = Unserved
  BY <1>2, <1>3 DEF Unserved
<1>5. OnTime' = OnTime
  BY <1>2, <1>4, UnservedIsOnWire DEF OnTime
<1>6. QED
  BY <1>2, <1>3, <1>4, <1>5

\* The page's load overtakes every save that is still under way.
LEMMA WireLoaded ==
  ASSUME TypeOK, LoadRead
  PROVE  /\ wire' \in Seq(Put) /\ Len(wire') = Len(wire) /\ DOMAIN wire' = DOMAIN wire
         /\ Unserved' = Unserved /\ OnTime' = {}
         /\ \A i \in DOMAIN wire : /\ wire'[i].body = wire[i].body
                                   /\ wire'[i].state = wire[i].state
                                   /\ wire'[i].heard = wire[i].heard
                                   /\ wire'[i].late <=> (wire[i].late \/ i \in Unserved)
<1>1. wire' = Overtake(Unserved)
  BY DEF LoadRead
<1>2. /\ wire' \in Seq(Put) /\ Len(wire') = Len(wire) /\ DOMAIN wire' = DOMAIN wire
      /\ \A i \in DOMAIN wire : /\ wire'[i].body = wire[i].body
                                /\ wire'[i].state = wire[i].state
                                /\ wire'[i].heard = wire[i].heard
                                /\ wire'[i].late <=> (wire[i].late \/ i \in Unserved)
  BY <1>1, WireMarked
<1>3. Unserved' = Unserved
  BY <1>2 DEF Unserved
<1>4. OnTime' = {}
  BY <1>2, <1>3, UnservedIsOnWire DEF OnTime
<1>5. QED
  BY <1>2, <1>3, <1>4

LEMMA TypeInit == Init => TypeOK
<1> SUFFICES ASSUME Init PROVE TypeOK
  OBVIOUS
<1>1. Fresh(Seed) \in Snapshot
  BY DEF Fresh, Snapshot
<1>2. behind \in BOOLEAN /\ misled \in BOOLEAN
  BY DEF Init
<1>3. wire \in Seq(Put) /\ Len(wire) <= MaxInFlight /\ load \in [at : {"asked", "read", "done"}, body : Snapshot \cup {None}]
  BY Bounds DEF Init, Asked
<1>4. QED
  BY <1>1, <1>2, <1>3, Bounds DEF Init, TypeOK

LEMMA StoreEventTypes ==
  ASSUME TypeOK, \/ \E s \in Steps : Study(s)
                 \/ Touch \/ Reset \/ RefreshApply
  PROVE  TypeOK'
<1>1. ASSUME NEW s \in Steps, Study(s) PROVE TypeOK'
  <2>1. [store EXCEPT !.steps = @ \cup {s}] \in Snapshot
    BY DEF TypeOK, Snapshot
  <2>2. store' \in Snapshot /\ timer' \in Snapshot \cup {None}
    BY <1>1, <2>1, ChangeEffect DEF Study, TypeOK
  <2>3. QED
    BY <1>1, <2>2 DEF Study, TypeOK, courses, order, bounds
<1>2. CASE Touch
  <2>1. store' \in Snapshot /\ timer' \in Snapshot \cup {None}
    BY <1>2, ChangeEffect DEF Touch, TypeOK
  <2>2. QED
    BY <1>2, <2>1 DEF Touch, TypeOK, courses, order, bounds
<1>3. CASE Reset
  <2>1. Fresh(Seed) \in Snapshot
    BY DEF Fresh, Snapshot
  <2>2. store' \in Snapshot /\ timer' \in Snapshot \cup {None}
    BY <1>3, <2>1, ChangeEffect DEF Reset, TypeOK
  <2>3. QED
    BY <1>3, <2>2, Bounds DEF Reset, TypeOK, courses, order
<1>4. CASE RefreshApply
  <2>1. Fresh(refresh.course) \in Snapshot
    BY <1>4 DEF RefreshApply, Fresh, Snapshot, TypeOK
  <2>2. store' \in Snapshot /\ timer' \in Snapshot \cup {None}
    BY <1>4, <2>1, ChangeEffect DEF RefreshApply, TypeOK
  <2>3. QED
    BY <1>4, <2>2 DEF RefreshApply, TypeOK, courses, order, bounds
<1>5. QED
  BY <1>1, <1>2, <1>3, <1>4

LEMMA LoadTypes ==
  ASSUME TypeOK, Reload \/ LoadRead \/ LoadApply \/ LoadSeed \/ LoadFail
  PROVE  TypeOK'
<1>1. CASE Reload
  <2>1. wire' \in Seq(Put) /\ Len(wire') <= MaxInFlight /\ misled' \in BOOLEAN /\ behind' \in BOOLEAN
    BY <1>1, WireReloaded DEF Reload, TypeOK
  <2>2. /\ load' \in [at : {"asked", "read", "done"}, body : Snapshot \cup {None}]
        /\ reloads' \in 0..MaxReloads
    BY <1>1, Bounds DEF Reload, TypeOK, Asked
  <2>3. QED
    BY <1>1, <2>1, <2>2 DEF Reload, TypeOK, courses
<1>2. CASE LoadRead
  BY <1>2, WireLoaded DEF LoadRead, TypeOK, order, bounds
<1>3. CASE LoadApply
  BY <1>3 DEF LoadApply, TypeOK, Done, courses, order, bounds
<1>4. CASE LoadSeed
  <2>1. store \in Snapshot
    BY DEF TypeOK
  <2>2. wire' \in Seq(Put) /\ Len(wire') <= MaxInFlight
    BY <1>4, <2>1, WireSent DEF LoadSeed
  <2>3. QED
    BY <1>4, <2>2 DEF LoadSeed, TypeOK, Done, courses, order, bounds
<1>5. CASE LoadFail
  BY <1>5, Bounds DEF LoadFail, Fault, TypeOK, Done, courses, order
<1>6. QED
  BY <1>1, <1>2, <1>3, <1>4, <1>5

LEMMA SaveTypes ==
  ASSUME TypeOK, Fire \/ \E k \in DOMAIN wire : Serve(k) \/ Answer(k)
  PROVE  TypeOK'
<1>1. CASE Fire
  <2>1. timer \in Snapshot
    BY <1>1 DEF Fire, TypeOK
  <2>2. wire' \in Seq(Put) /\ Len(wire') <= MaxInFlight
    BY <1>1, <2>1, WireSent DEF Fire
  <2>3. QED
    BY <1>1, <2>2 DEF Fire, TypeOK, courses, order, bounds
<1>2. ASSUME NEW k \in DOMAIN wire, Serve(k) PROVE TypeOK'
  <2>1. wire' \in Seq(Put) /\ Len(wire') <= MaxInFlight
    BY <1>2, WireServed DEF TypeOK
  <2>2. wire[k].body \in Snapshot /\ wire[k].late \in BOOLEAN
    BY WireIs DEF Put
  <2>3. /\ server' \in Snapshot \cup {None} /\ lost' \subseteq committed /\ faults' \in 0..MaxFaults
        /\ behind' \in BOOLEAN
    BY <1>2, <2>2, Bounds DEF Serve, Fault, TypeOK
  <2>4. QED
    BY <1>2, <2>1, <2>3 DEF Serve, TypeOK
<1>3. ASSUME NEW k \in DOMAIN wire, Answer(k) PROVE TypeOK'
  <2>1. wire' \in Seq(Put) /\ Len(wire') <= MaxInFlight
    BY <1>3, WireAnswered
  <2>2. wire[k].body \in Snapshot /\ wire[k].late \in BOOLEAN
    BY WireIs DEF Put
  <2>3. lastSaved' \in Snapshot \cup {None} /\ faults' \in 0..MaxFaults /\ misled' \in BOOLEAN
    BY <1>3, <2>2, Bounds DEF Answer, Fault, TypeOK
  <2>4. QED
    BY <1>3, <2>1, <2>3 DEF Answer, TypeOK, courses
<1>4. QED
  BY <1>1, <1>2, <1>3

LEMMA JobTypes ==
  ASSUME TypeOK, RefreshRead \/ \E c \in Published : Commit(c)
  PROVE  TypeOK'
<1>1. CASE RefreshRead
  BY <1>1 DEF RefreshRead, TypeOK, order, bounds
<1>2. ASSUME NEW c \in Published, Commit(c) PROVE TypeOK'
  <2>1. Fresh(c) \in Snapshot
    BY DEF Fresh, Snapshot
  <2>2. QED
    BY <1>2, <2>1 DEF Commit, TypeOK, bounds
<1>3. QED
  BY <1>1, <1>2

LEMMA TypeStep == ASSUME TypeOK, [Next]_vars PROVE TypeOK'
<1>1. CASE UNCHANGED vars
  BY <1>1 DEF vars, courses, order, bounds, TypeOK
<1>2. CASE Next
  BY <1>2, StoreEventTypes, LoadTypes, SaveTypes, JobTypes DEF Next
<1>3. QED
  BY <1>1, <1>2

-----------------------------------------------------------------------------
(* The invariant: unless the server's snapshot is that of a late save, what  *)
(* is on time holds every step that is there, and what is sent later holds   *)
(* every step that was sent earlier.                                         *)

\* A snapshot that holds every step the server has or is about to have.
Above(s) == /\ server # None /\ ~behind => server.steps \subseteq s.steps
            /\ \A k \in OnTime : wire[k].body.steps \subseteq s.steps

Steady ==
  /\ Above(store)
  /\ timer # None => Above(timer) /\ timer.steps \subseteq store.steps
  /\ \A k \in OnTime : server # None /\ ~behind => server.steps \subseteq wire[k].body.steps
  /\ \A i, k \in OnTime : i < k => wire[i].body.steps \subseteq wire[k].body.steps
  /\ load.at = "read" => OnTime = {} /\ (behind \/ load.body = server)

\* No timer before the page is loaded; a refreshed course was committed.
Waits == /\ load.at # "done" => timer = None
         /\ refresh # None => committed # {}

Quiet == resets = 0 /\ committed = {}

SInv == TypeOK /\ Waits /\ (Quiet => Steady)

LEMMA SInvInit == Init => SInv
<1> SUFFICES ASSUME Init PROVE SInv
  OBVIOUS
<1>1. OnTime = {} /\ load.at = "asked"
  BY DEF Init, OnTime, Unserved, Asked
<1>2. QED
  BY <1>1, TypeInit DEF Init, SInv, Waits, Steady, Above

\* Resets and commits are not undone.
LEMMA QuietBefore == ASSUME TypeOK, [Next]_vars, Quiet' PROVE Quiet
<1>1. resets \in Nat
  BY Bounds DEF TypeOK
<1>2. resets' \in {resets, resets + 1} /\ committed \subseteq committed'
  <2>1. CASE UNCHANGED vars
    BY <2>1 DEF vars, courses, order, bounds
  <2>2. ASSUME NEW s \in Steps, Study(s) PROVE resets' \in {resets, resets + 1} /\ committed \subseteq committed'
    BY <2>2 DEF Study, courses, order, bounds
  <2>3. CASE Touch
    BY <2>3 DEF Touch, courses, order, bounds
  <2>4. CASE Reset
    BY <2>4 DEF Reset, courses
  <2>5. CASE RefreshApply
    BY <2>5 DEF RefreshApply, courses, order, bounds
  <2>6. CASE Reload
    BY <2>6 DEF Reload, courses
  <2>7. CASE LoadRead \/ LoadApply
    BY <2>7 DEF LoadRead, LoadApply, courses, order, bounds
  <2>8. CASE LoadSeed \/ LoadFail
    BY <2>8 DEF LoadSeed, LoadFail, courses, order, bounds
  <2>9. CASE Fire \/ RefreshRead
    BY <2>9 DEF Fire, RefreshRead, courses, order, bounds
  <2>10. ASSUME NEW k \in DOMAIN wire, Serve(k) \/ Answer(k) PROVE resets' \in {resets, resets + 1} /\ committed \subseteq committed'
    BY <2>10 DEF Serve, Answer, courses
  <2>11. ASSUME NEW c \in Published, Commit(c) PROVE resets' \in {resets, resets + 1} /\ committed \subseteq committed'
    BY <2>11 DEF Commit, bounds
  <2>12. QED
    BY <2>1, <2>2, <2>3, <2>4, <2>5, <2>6, <2>7, <2>8, <2>9, <2>10, <2>11 DEF Next
<1>3. QED
  BY <1>1, <1>2 DEF Quiet

\* The store grows, the timer is set to it or left alone, and nothing else changes.
LEMMA GrowthStep ==
  ASSUME TypeOK, Waits, Steady, UNCHANGED <<server, wire, load, behind>>,
         store.steps \subseteq store'.steps,
         timer' \in {timer, store'}, load.at # "done" => timer' = timer
  PROVE  Steady'
<1>1. /\ OnTime' = OnTime /\ server' = server /\ wire' = wire /\ load' = load
      /\ behind' = behind
  BY DEF OnTime, Unserved
<1>2. Above(store)'
  BY <1>1 DEF Steady, Above
<1>3. timer' # None => Above(timer)' /\ timer'.steps \subseteq store'.steps
  <2>1. CASE timer' = store'
    BY <2>1, <1>2 DEF Above
  <2>2. CASE timer' = timer
    BY <2>2, <1>1 DEF Steady, Above
  <2>3. QED
    BY <2>1, <2>2
<1>4. QED
  BY <1>1, <1>2, <1>3 DEF Steady

LEMMA StudyStep ==
  ASSUME TypeOK, Waits, Steady, \/ \E s \in Steps : Study(s)
                               \/ Touch
  PROVE  Steady'
<1>1. ASSUME NEW s \in Steps, Study(s) PROVE Steady'
  <2>1. [store EXCEPT !.steps = @ \cup {s}] \in Snapshot
    BY DEF TypeOK, Snapshot
  <2>2. /\ store' = [store EXCEPT !.steps = @ \cup {s}]
        /\ timer' \in {timer, store'} /\ (load.at # "done" => timer' = timer)
    BY <1>1, <2>1, ChangeEffect DEF Study
  <2>3. store.steps \subseteq store'.steps
    BY <2>2 DEF TypeOK, Snapshot
  <2>4. QED
    BY <1>1, <2>2, <2>3, GrowthStep DEF Study, order
<1>2. CASE Touch
  <2>1. store' = store /\ timer' \in {timer, store'} /\ (load.at # "done" => timer' = timer)
    BY <1>2, ChangeEffect DEF Touch, TypeOK
  <2>2. QED
    BY <1>2, <2>1, GrowthStep DEF Touch, order
<1>3. QED
  BY <1>1, <1>2

\* What is sent is put above everything that was sent before.
LEMMA SentStep ==
  ASSUME TypeOK, Steady, Above(store), NEW b \in Snapshot, NEW h \in BOOLEAN, Send(b, h),
         Above(b), b.steps \subseteq store.steps, UNCHANGED <<server, store, behind>>
  PROVE  /\ Above(store)'
         /\ \A k \in OnTime' : server' # None /\ ~behind' => server'.steps \subseteq wire'[k].body.steps
         /\ \A i, k \in OnTime' : i < k => wire'[i].body.steps \subseteq wire'[k].body.steps
<1> DEFINE n == Len(wire) + 1
<1>2. n \in Nat /\ ~(n < n)
  BY WireIs
<1>0. /\ \A i \in DOMAIN wire : i \in Nat /\ i < n /\ wire'[i] = wire[i]
      /\ OnTime' = OnTime \cup {n}
      /\ wire'[n] = [body |-> b, state |-> "sent", heard |-> h, late |-> FALSE]
  BY WireSent, WireIs
<1> HIDE DEF n
<1>1. /\ \A i \in OnTime : i \in Nat /\ i < n /\ wire'[i] = wire[i]
      /\ wire'[n].body = b
      /\ OnTime' = OnTime \cup {n}
  BY <1>0, OnTimeOnWire
<1>3. Above(store)'
  BY <1>1 DEF Above
<1>4. \A k \in OnTime' : server' # None /\ ~behind' => server'.steps \subseteq wire'[k].body.steps
  BY <1>1 DEF Above, Steady
<1>5. ASSUME NEW i \in OnTime', NEW k \in OnTime', i < k
      PROVE  wire'[i].body.steps \subseteq wire'[k].body.steps
  <2>1. i \in OnTime
    BY <1>1, <1>2, <1>5
  <2>2. CASE k \in OnTime
    BY <1>1, <2>1, <2>2, <1>5 DEF Steady
  <2>3. CASE k = n
    BY <1>1, <2>1, <2>3 DEF Above
  <2>4. QED
    BY <1>1, <2>2, <2>3
<1>6. QED
  BY <1>3, <1>4, <1>5

LEMMA SendStep == ASSUME TypeOK, Waits, Steady, Fire \/ LoadSeed PROVE Steady'
<1>1. CASE Fire
  <2>1. /\ timer \in Snapshot /\ Above(timer) /\ timer.steps \subseteq store.steps
        /\ Above(store) /\ Send(timer, TRUE) /\ UNCHANGED <<server, store, behind>>
    BY <1>1 DEF Fire, TypeOK, Steady, order
  <2>2. load.at = "done"
    BY <1>1 DEF Fire, Waits
  <2>3. QED
    BY <1>1, <2>1, <2>2, SentStep DEF Fire, Steady
<1>2. CASE LoadSeed
  <2>1. /\ store \in Snapshot /\ Above(store) /\ Send(store, FALSE)
        /\ UNCHANGED <<server, store, behind>>
    BY <1>2 DEF LoadSeed, TypeOK, Steady
  <2>2. timer' = None /\ load'.at = "done"
    BY <1>2 DEF LoadSeed, Waits, Done
  <2>3. QED
    BY <2>1, <2>2, SentStep DEF Steady
<1>3. QED
  BY <1>1, <1>2

\* A save that is served on time leaves only later ones on time, which are above it.
LEMMA ServeStep ==
  ASSUME TypeOK, Steady, NEW k \in DOMAIN wire, Serve(k)
  PROVE  /\ Steady'
         /\ server # None /\ ~behind /\ ~behind' => server.steps \subseteq server'.steps
<1>1. /\ \A i \in OnTime : i \in Nat /\ wire'[i].body = wire[i].body
      /\ UNCHANGED <<store, load, timer>>
  BY WireServed, WireIs, OnTimeOnWire DEF Serve
<1>2. CASE server' = wire[k].body /\ behind' /\ OnTime' \subseteq OnTime
  <2>1. \A s : Above(s) => Above(s)'
    BY <1>1, <1>2 DEF Above
  <2>2. QED
    BY <1>1, <1>2, <2>1 DEF Steady, Above
<1>3. CASE /\ server' = wire[k].body /\ ~behind' /\ k \in OnTime
           /\ OnTime' = {i \in OnTime : k < i}
  <2>1. load.at # "read"
    BY <1>3 DEF Steady
  <2>2. \A i \in OnTime' : i \in OnTime /\ k < i /\ server'.steps \subseteq wire'[i].body.steps
    BY <1>1, <1>3 DEF Steady
  <2>3. \A i, j \in OnTime' : i < j => wire'[i].body.steps \subseteq wire'[j].body.steps
    BY <1>1, <1>3 DEF Steady
  <2>4. Above(store)' /\ (timer # None => Above(timer)')
    BY <1>1, <1>3 DEF Steady, Above
  <2>5. server # None /\ ~behind => server.steps \subseteq server'.steps
    BY <1>3 DEF Steady
  <2>6. QED
    BY <1>1, <2>1, <2>2, <2>3, <2>4, <2>5 DEF Steady, Above
<1>4. CASE server' = server /\ behind' = behind /\ OnTime' \subseteq OnTime
  <2>1. \A s : Above(s) => Above(s)'
    BY <1>1, <1>4 DEF Above
  <2>2. QED
    BY <1>1, <1>4, <2>1 DEF Steady, Above
<1>5. k \in Unserved
  BY DEF Serve
<1>6. \/ server' = wire[k].body /\ behind' = wire[k].late /\ OnTime' = {i \in OnTime : k < i}
      \/ server' = server /\ behind' = behind /\ OnTime' = OnTime \ {k}
  BY WireServed
<1>7. CASE server' = wire[k].body /\ behind' = wire[k].late /\ OnTime' = {i \in OnTime : k < i}
  <2>1. CASE wire[k].late
    BY <1>2, <1>7, <2>1
  <2>2. CASE ~wire[k].late
    <3>1. k \in OnTime
      BY <1>5, <2>2 DEF OnTime
    <3>2. QED
      BY <1>3, <1>7, <2>2, <3>1
  <2>3. QED
    BY <2>1, <2>2
<1>8. QED
  BY <1>4, <1>6, <1>7

\* What is left on the wire keeps its order.
LEMMA AnswerStep ==
  ASSUME TypeOK, Waits, Steady, NEW k \in DOMAIN wire, Answer(k)
  PROVE  Steady'
<1>1. \A i \in OnTime' : Old(k, i) \in OnTime /\ wire'[i].body = wire[Old(k, i)].body
  BY LeftAnswered, WireAnswered
<1>2. UNCHANGED <<server, store, load, timer, behind>>
  BY DEF Answer
<1>3. \A i, j \in OnTime' : i < j => Old(k, i) < Old(k, j)
  BY WireAnswered, OnTimeOnWire, LeftAnswered
<1>4. Above(store)' /\ (timer' # None => Above(timer)' /\ timer'.steps \subseteq store'.steps)
  <2>1. \A s : Above(s) => Above(s)'
    BY <1>1, <1>2 DEF Above
  <2>2. QED
    BY <1>2, <2>1 DEF Steady, Above
<1>5. \A i \in OnTime' : server' # None /\ ~behind' => server'.steps \subseteq wire'[i].body.steps
  BY <1>1, <1>2 DEF Steady
<1>6. \A i, j \in OnTime' : i < j => wire'[i].body.steps \subseteq wire'[j].body.steps
  BY <1>1, <1>3 DEF Steady
<1>7. load'.at = "read" => OnTime' = {} /\ (behind' \/ load'.body = server')
  BY <1>1, <1>2 DEF Steady
<1>8. QED
  BY <1>4, <1>5, <1>6, <1>7 DEF Steady

LEMMA ReloadStep == ASSUME TypeOK, Waits, Steady, Reload PROVE Steady'
<1>1. /\ OnTime' = OnTime
      /\ \A i \in OnTime : wire'[i].body = wire[i].body
  BY WireReloaded, OnTimeOnWire
<1>2. server' = server /\ store' = store /\ timer' = None /\ load'.at = "asked" /\ behind' = behind
  BY DEF Reload, Asked
<1>3. QED
  BY <1>1, <1>2 DEF Steady, Above

LEMMA LoadStep ==
  ASSUME TypeOK, Waits, Steady, LoadRead \/ LoadApply \/ LoadFail
  PROVE  Steady'
<1>1. UNCHANGED <<server, timer, behind>> /\ timer = None
  BY DEF LoadRead, LoadApply, LoadFail, Waits, order
<1>2. CASE LoadRead
  <2>1. OnTime' = {} /\ store' = store /\ load'.at = "read" /\ load'.body = server
    BY <1>2, WireLoaded DEF LoadRead
  <2>2. QED
    BY <1>1, <2>1 DEF Steady, Above
<1>3. CASE LoadApply
  <2>1. OnTime = {} /\ (behind \/ store' = server) /\ load'.at = "done" /\ wire' = wire
    BY <1>3 DEF LoadApply, Steady, Done
  <2>2. OnTime' = {}
    BY <2>1 DEF OnTime, Unserved
  <2>3. QED
    BY <1>1, <2>1, <2>2 DEF Steady, Above
<1>4. CASE LoadFail
  <2>1. wire' = wire /\ store' = store /\ load'.at = "done"
    BY <1>4 DEF LoadFail, Done
  <2>2. OnTime' = OnTime
    BY <2>1 DEF OnTime, Unserved
  <2>3. QED
    BY <1>1, <2>1, <2>2 DEF Steady, Above
<1>5. QED
  BY <1>2, <1>3, <1>4

LEMMA WaitsStep == ASSUME TypeOK, Waits, [Next]_vars PROVE Waits'
<1>1. CASE UNCHANGED vars
  BY <1>1 DEF vars, courses, Waits
<1>2. ASSUME NEW s \in Steps, Study(s) PROVE Waits'
  BY <1>2 DEF Study, Change, courses, Waits
<1>3. CASE Touch \/ Reset
  BY <1>3 DEF Touch, Reset, Change, courses, Waits
<1>4. CASE RefreshApply
  BY <1>4 DEF RefreshApply, Change, courses, Waits
<1>5. CASE Reload
  BY <1>5 DEF Reload, Waits, Asked
<1>6. CASE LoadRead \/ LoadApply
  BY <1>6 DEF LoadRead, LoadApply, courses, Waits
<1>7. CASE LoadSeed \/ LoadFail
  BY <1>7 DEF LoadSeed, LoadFail, courses, Waits
<1>8. CASE Fire
  BY <1>8 DEF Fire, courses, Waits
<1>9. ASSUME NEW k \in DOMAIN wire, Serve(k) \/ Answer(k) PROVE Waits'
  BY <1>9 DEF Serve, Answer, courses, Waits
<1>10. ASSUME NEW c \in Published, Commit(c) PROVE Waits'
  BY <1>10 DEF Commit, Waits
<1>11. CASE RefreshRead
  BY <1>11 DEF RefreshRead, Waits, TypeOK
<1>12. QED
  BY <1>1, <1>2, <1>3, <1>4, <1>5, <1>6, <1>7, <1>8, <1>9, <1>10, <1>11 DEF Next

\* In quiet times there are neither resets nor commits, nor courses to refresh.
LEMMA SteadyStep ==
  ASSUME TypeOK, Waits, Quiet => Steady, [Next]_vars, Quiet'
  PROVE  Steady /\ Steady'
<1>1. Quiet /\ Steady
  BY QuietBefore
<1>2. CASE UNCHANGED vars
  BY <1>1, <1>2 DEF vars, order, Steady, Above, OnTime, Unserved
<1>3. CASE (\E s \in Steps : Study(s)) \/ Touch
  BY <1>1, <1>3, StudyStep
<1>4. CASE Reset
  BY <1>1, <1>4, Bounds DEF Reset, Quiet, TypeOK
<1>5. CASE RefreshApply \/ RefreshRead
  BY <1>1, <1>5 DEF RefreshApply, RefreshRead, Quiet, Waits, TypeOK
<1>6. ASSUME NEW c \in Published, Commit(c) PROVE FALSE
  BY <1>6 DEF Commit, Quiet
<1>7. CASE Reload
  BY <1>1, <1>7, ReloadStep
<1>8. CASE LoadRead \/ LoadApply \/ LoadFail
  BY <1>1, <1>8, LoadStep
<1>9. CASE Fire \/ LoadSeed
  BY <1>1, <1>9, SendStep
<1>10. ASSUME NEW k \in DOMAIN wire, Serve(k) \/ Answer(k) PROVE Steady'
  BY <1>1, <1>10, ServeStep, AnswerStep
<1>11. QED
  BY <1>1, <1>2, <1>3, <1>4, <1>5, <1>6, <1>7, <1>8, <1>9, <1>10 DEF Next

LEMMA SInvStep == ASSUME SInv, [Next]_vars PROVE SInv'
BY TypeStep, WaitsStep, SteadyStep DEF SInv

-----------------------------------------------------------------------------

\* The store, the timer, what is on the wire and the server's row are always snapshots, and
\* no more requests are in flight than allowed.
THEOREM SyncTypeCorrect == Spec => []TypeOK
<1>1. QED
  BY TypeInit, TypeStep, PTL DEF Spec

\* A loaded page shows every step the server holds, however often it is reloaded, whatever
\* fails and in whatever order requests are served, unless the server's snapshot is that of a
\* save the page's load or a later save overtook.
THEOREM ServerNeverAhead == Spec => []ServerNotAhead
<1>1. SInv => ServerNotAhead
  BY DEF SInv, Quiet, Steady, Above, ServerNotAhead
<1>2. SInv /\ [Next]_vars => SInv'
  BY SInvStep
<1>3. QED
  BY <1>1, <1>2, SInvInit, PTL DEF Spec

\* Steps that reached the server stay there until the learner resets, a job commits another
\* course or the server takes a late save; after a late save they stay again from the first
\* save on that was not overtaken.
THEOREM SavedStepsStay == Spec => StepsStaySaved
<1> DEFINE Stay == resets = 0 /\ committed' = {} /\ server # None /\ ~behind /\ ~behind'
                     => server.steps \subseteq server'.steps
<1>1. SInv /\ [Next]_vars => [Stay]_server
  <2> SUFFICES ASSUME SInv, [Next]_vars, server' # server,
                      resets = 0, committed' = {}, server # None, ~behind, ~behind'
               PROVE  server.steps \subseteq server'.steps
    BY DEF Stay
  <2>1. \/ \E k \in DOMAIN wire : Serve(k)
        \/ \E c \in Published : Commit(c)
    BY DEF Next, vars, Study, Touch, Reset, Reload, LoadRead, LoadApply, LoadSeed, LoadFail,
       Fire, Answer, RefreshRead, RefreshApply
  <2>2. ASSUME NEW c \in Published, Commit(c) PROVE FALSE
    BY <2>2 DEF Commit
  <2>3. ASSUME NEW k \in DOMAIN wire, Serve(k) PROVE server.steps \subseteq server'.steps
    <3>1. committed = {}
      BY <2>3 DEF Serve
    <3>2. QED
      BY <2>3, <3>1, ServeStep DEF SInv, Quiet
  <2>4. QED
    BY <2>1, <2>2, <2>3
<1>2. SInv /\ [Next]_vars => SInv'
  BY SInvStep
<1>3. QED
  BY <1>1, <1>2, SInvInit, PTL DEF Spec, StepsStaySaved, Stay

-----------------------------------------------------------------------------
(* Where the page and the server meet.  No course a job committed is known *)
(* to the page before it is read, so the page's next save differs from     *)
(* every earlier one.                                                      *)

Knows(x, cs, us, ts) == x # None => x.course \in (cs \cup {Seed}) \ us /\ x.steps \subseteq ts

\* The page holds courses it has read and steps that were taken.  While a committed course
\* is unread and nothing replaced it, the server holds an unread one.
Known ==
  /\ \A x \in {store, timer, lastSaved, load.body, refresh} : Knows(x, committed, unseen, taken)
  /\ \A k \in DOMAIN wire : Knows(wire[k].body, committed, unseen, taken)
  /\ Knows(server, committed, {}, taken)
  /\ unseen # {} /\ lost = {} => server # None /\ server.course \in unseen

Strange(x) == x # None => x.course # refresh.course

\* A refreshed course is new to the page.
Awaited ==
  refresh # None =>
    /\ load.at = "done"
    /\ lost = {} =>
         /\ refresh.course # Seed
         /\ \A x \in {store, timer, lastSaved} : Strange(x)
         /\ \A k \in DOMAIN wire : Strange(wire[k].body)

LastSent(b) == \E k \in OnTime : wire[k].body = b /\ \A i \in OnTime : i <= k

\* What the server holds when the armed timer and the requests on the wire are done, unless
\* a late save is served last.
Target(b) == IF timer # None THEN timer = b
             ELSE IF OnTime # {} THEN LastSent(b) ELSE server = b \/ behind

Agree ==
  resets = 0 /\ faults = 0 /\ lost = {} /\ unseen = {} =>
    /\ load.at = "read" => OnTime = {} /\ (behind \/ load.body = server)
    /\ load.at = "done" /\ refresh = None => Target(store)

\* The bodies on the wire after a request was served or answered, or the page loaded or was
\* reloaded.
LEMMA BodiesStay ==
  ASSUME TypeOK, Reload \/ LoadRead \/ \E k \in DOMAIN wire : Serve(k) \/ Answer(k)
  PROVE  \A i \in DOMAIN wire' : \E j \in DOMAIN wire : wire'[i].body = wire[j].body
<1>1. CASE Reload \/ LoadRead
  BY <1>1, WireReloaded, WireLoaded
<1>2. ASSUME NEW k \in DOMAIN wire, Serve(k)
      PROVE  \A i \in DOMAIN wire' : \E j \in DOMAIN wire : wire'[i].body = wire[j].body
  BY <1>2, WireServed
<1>3. ASSUME NEW k \in DOMAIN wire, Answer(k)
      PROVE  \A i \in DOMAIN wire' : \E j \in DOMAIN wire : wire'[i].body = wire[j].body
  BY <1>3, WireAnswered
<1>4. QED
  BY <1>1, <1>2, <1>3

LEMMA SentBodies ==
  ASSUME TypeOK, NEW b \in Snapshot, NEW h \in BOOLEAN, Send(b, h)
  PROVE  \A i \in DOMAIN wire' : \/ wire'[i].body = b
                                 \/ i \in DOMAIN wire /\ wire'[i].body = wire[i].body
<1> DEFINE n == Len(wire) + 1
<1>1. /\ \A i \in DOMAIN wire' : i \in DOMAIN wire \/ i = n
      /\ \A i \in DOMAIN wire : wire'[i] = wire[i]
      /\ wire'[n] = [body |-> b, state |-> "sent", heard |-> h, late |-> FALSE]
  BY WireSent
<1> HIDE DEF n
<1>2. QED
  BY <1>1

LEMMA KnownStep == ASSUME TypeOK, Known, [Next]_vars PROVE Known'
<1>1. /\ committed \subseteq Published /\ unseen \subseteq committed /\ Seed \notin Published
      /\ store \in Snapshot /\ refresh \in Snapshot \cup {None} /\ timer \in Snapshot \cup {None}
  BY CoursesDistinct DEF TypeOK
<1>2. ASSUME UNCHANGED <<server, courses, taken>>,
             \A x \in {store', timer', lastSaved', load'.body, refresh'} :
               Knows(x, committed, unseen, taken),
             \A k \in DOMAIN wire' : Knows(wire'[k].body, committed, unseen, taken)
      PROVE  Known'
  BY <1>2 DEF Known, Knows, courses
<1>3. Knows(Fresh(Seed), committed, unseen, taken)
  BY <1>1 DEF Knows, Fresh
<1>4. refresh # None => Knows(Fresh(refresh.course), committed, unseen, taken)
  BY DEF Known, Knows, Fresh
<1>5. Knows(None, committed, unseen, taken)
  BY DEF Knows
<1>6. CASE UNCHANGED vars
  BY <1>6 DEF vars, courses, Known, Knows
<1>7. ASSUME NEW s \in Steps, Study(s) PROVE Known'
  <2> DEFINE next == [store EXCEPT !.steps = @ \cup {s}]
  <2>1. next \in Snapshot /\ next.course = store.course /\ next.steps = store.steps \cup {s}
    BY <1>1 DEF Snapshot
  <2>2. store' = next /\ timer' \in {timer, next}
    BY <1>7, <2>1, ChangeEffect DEF Study
  <2> HIDE DEF next
  <2>3. store # None
    BY <1>1, NoneIsApart
  <2>4. taken \subseteq taken' /\ s \in taken' /\ UNCHANGED <<server, load, lastSaved, wire, refresh, committed, unseen, lost>>
    BY <1>7 DEF Study, courses
  <2>5. Knows(next, committed, unseen, taken')
    BY <2>1, <2>3, <2>4 DEF Known, Knows
  <2>6. \A x \in {timer, lastSaved, load.body, refresh} : Knows(x, committed, unseen, taken')
    BY <2>4 DEF Known, Knows
  <2>7. /\ \A k \in DOMAIN wire : Knows(wire[k].body, committed, unseen, taken')
        /\ Knows(server, committed, {}, taken')
    BY <2>4 DEF Known, Knows
  <2>8. QED
    BY <2>2, <2>4, <2>5, <2>6, <2>7 DEF Known
<1>8. CASE Touch \/ Reset \/ RefreshApply
  <2>1. \E next \in Snapshot : /\ Change(next)
                               /\ Knows(next, committed, unseen, taken)
    <3>1. Fresh(Seed) \in Snapshot /\ (refresh # None => Fresh(refresh.course) \in Snapshot)
      BY <1>1 DEF Fresh, Snapshot
    <3>2. QED
      BY <1>1, <1>3, <1>4, <1>8, <3>1 DEF Touch, Reset, RefreshApply, Known
  <2>2. Knows(store', committed, unseen, taken) /\ (timer' = timer \/ timer' = store')
    BY <2>1, ChangeEffect
  <2>3. refresh' \in {refresh, None} /\ UNCHANGED <<server, load, lastSaved, wire, courses, taken>>
    BY <1>8 DEF Touch, Reset, RefreshApply
  <2>4. QED
    BY <1>2, <1>5, <2>2, <2>3 DEF Known
<1>9. CASE Reload
  <2>1. \A i \in DOMAIN wire' : \E j \in DOMAIN wire : wire'[i].body = wire[j].body
    BY <1>9, BodiesStay
  <2>2. QED
    BY <1>2, <1>5, <1>9, <2>1 DEF Reload, Asked, Known
<1>10. CASE LoadRead \/ RefreshRead
  <2>0. \A i \in DOMAIN wire' : \E j \in DOMAIN wire : wire'[i].body = wire[j].body
    BY <1>10, BodiesStay DEF RefreshRead
  <2>1. /\ unseen' = {} /\ UNCHANGED <<server, store, timer, lastSaved, committed, lost, taken>>
        /\ load'.body \in {load.body, server} /\ refresh' \in {refresh, server}
    BY <1>10 DEF LoadRead, RefreshRead
  <2>2. \A x : Knows(x, committed, unseen, taken) => Knows(x, committed, {}, taken)
    BY DEF Knows
  <2>3. QED
    BY <2>0, <2>1, <2>2 DEF Known
<1>11. CASE LoadApply \/ LoadFail
  <2>1. /\ store' \in {store, load.body} /\ lastSaved' \in {lastSaved, load.body, None}
        /\ load'.body = None
        /\ UNCHANGED <<server, timer, wire, refresh, courses, taken>>
    BY <1>11 DEF LoadApply, LoadFail, Done
  <2>2. QED
    BY <1>2, <1>5, <2>1 DEF Known
<1>12. CASE LoadSeed
  <2>1. \A i \in DOMAIN wire' : \/ wire'[i].body = store
                                \/ i \in DOMAIN wire /\ wire'[i].body = wire[i].body
    BY <1>1, <1>12, SentBodies DEF LoadSeed
  <2>2. lastSaved' = store /\ load'.body = None /\ UNCHANGED <<server, store, timer, refresh, courses, taken>>
    BY <1>12 DEF LoadSeed, Done
  <2>3. QED
    BY <1>2, <1>5, <2>1, <2>2 DEF Known
<1>13. CASE Fire
  <2>1. \A i \in DOMAIN wire' : \/ wire'[i].body = timer
                                \/ i \in DOMAIN wire /\ wire'[i].body = wire[i].body
    BY <1>1, <1>13, SentBodies DEF Fire
  <2>2. timer' = None /\ UNCHANGED <<server, store, load, lastSaved, refresh, courses, taken>>
    BY <1>13 DEF Fire
  <2>3. QED
    BY <1>2, <1>5, <2>1, <2>2 DEF Known
<1>14. ASSUME NEW k \in DOMAIN wire, Answer(k) PROVE Known'
  <2>1. \A i \in DOMAIN wire' : \E j \in DOMAIN wire : wire'[i].body = wire[j].body
    BY <1>14, BodiesStay
  <2>2. lastSaved' \in {lastSaved, wire[k].body} /\ UNCHANGED <<server, store, load, timer, refresh, courses, taken>>
    BY <1>14 DEF Answer
  <2>3. QED
    BY <1>2, <2>1, <2>2 DEF Known
<1>15. ASSUME NEW k \in DOMAIN wire, Serve(k) PROVE Known'
  <2>1. \A i \in DOMAIN wire' : \E j \in DOMAIN wire : wire'[i].body = wire[j].body
    BY <1>15, BodiesStay
  <2>2. wire[k].body # None
    BY WireIs
  <2>3. /\ UNCHANGED <<store, load, timer, lastSaved, refresh, committed, unseen, taken>>
        /\ \/ server' = wire[k].body /\ lost' = lost \cup (unseen \ {wire[k].body.course})
           \/ UNCHANGED <<server, lost>>
    BY <1>15 DEF Serve
  <2>4. wire[k].body.course \notin unseen /\ Knows(wire[k].body, committed, {}, taken)
    BY <2>2 DEF Known, Knows
  <2>5. unseen # {} /\ lost' = {} => UNCHANGED server /\ lost = {}
    BY <2>3, <2>4
  <2>6. QED
    BY <2>1, <2>3, <2>4, <2>5 DEF Known
<1>16. ASSUME NEW c \in Published, Commit(c) PROVE Known'
  <2>1. /\ c \notin committed /\ committed' = committed \cup {c} /\ unseen' = unseen \cup {c}
        /\ server' = Fresh(c)
        /\ UNCHANGED <<store, load, timer, lastSaved, wire, refresh, lost, taken>>
    BY <1>16 DEF Commit
  <2>2. \A x : Knows(x, committed, unseen, taken) => Knows(x, committed', unseen', taken)
    BY <1>1, <2>1 DEF Knows
  <2>3. Knows(server', committed', {}, taken) /\ server' # None /\ server'.course \in unseen'
    <3>1. Fresh(c) \in Snapshot
      BY DEF Fresh, Snapshot
    <3>2. QED
      BY <2>1, <3>1, NoneIsApart DEF Knows, Fresh
  <2>4. QED
    BY <2>1, <2>2, <2>3 DEF Known
<1>17. QED
  BY <1>6, <1>7, <1>8, <1>9, <1>10, <1>11, <1>12, <1>13, <1>14, <1>15, <1>16 DEF Next

LEMMA AwaitedStep ==
  ASSUME TypeOK, Known, Awaited, [Next]_vars
  PROVE  Awaited'
<1> SUFFICES ASSUME refresh' # None PROVE Awaited'
  BY DEF Awaited
<1>1. store \in Snapshot /\ refresh \in Snapshot \cup {None}
  BY DEF TypeOK
<1>2. lost = {} /\ refresh # None => Strange(store)
  BY DEF Awaited
<1>3. CASE UNCHANGED vars
  BY <1>3 DEF vars, courses, bounds, Awaited, Strange
<1>4. ASSUME NEW s \in Steps, Study(s) PROVE Awaited'
  <2> DEFINE next == [store EXCEPT !.steps = @ \cup {s}]
  <2>1. next \in Snapshot /\ next.course = store.course
    BY <1>1 DEF Snapshot
  <2>2. store' = next /\ timer' \in {timer, next}
    BY <1>4, <2>1, ChangeEffect DEF Study
  <2> HIDE DEF next
  <2>3. UNCHANGED <<load, lastSaved, wire, refresh, lost>>
    BY <1>4 DEF Study, courses
  <2>4. store # None
    BY <1>1, NoneIsApart
  <2>5. SUFFICES ASSUME lost = {}
                 PROVE  /\ refresh.course # Seed
                        /\ \A x \in {store', timer', lastSaved'} : Strange(x)
                        /\ \A k \in DOMAIN wire : Strange(wire[k].body)
    BY <2>3 DEF Awaited, Strange
  <2>6. Strange(next)
    BY <2>1, <2>3, <2>4, <2>5, <1>2 DEF Strange
  <2>7. QED
    BY <2>2, <2>3, <2>5, <2>6 DEF Awaited
<1>5. CASE Touch
  <2>1. store' = store /\ timer' \in {timer, store}
    BY <1>1, <1>5, ChangeEffect DEF Touch
  <2>2. UNCHANGED <<load, lastSaved, wire, refresh, lost>>
    BY <1>5 DEF Touch, courses
  <2>3. QED
    BY <2>1, <2>2 DEF Awaited, Strange
<1>6. CASE Reset
  <2>1. Fresh(Seed) \in Snapshot /\ Fresh(Seed).course = Seed
    BY DEF Fresh, Snapshot
  <2>2. store' = Fresh(Seed) /\ timer' \in {timer, Fresh(Seed)}
    BY <1>6, <2>1, ChangeEffect DEF Reset
  <2>3. UNCHANGED <<load, lastSaved, wire, refresh, lost>>
    BY <1>6 DEF Reset, courses
  <2>4. QED
    BY <2>1, <2>2, <2>3 DEF Awaited, Strange
<1>7. CASE Reload \/ RefreshApply
  BY <1>7 DEF Reload, RefreshApply
<1>8. CASE LoadRead \/ LoadApply \/ LoadSeed \/ LoadFail
  <2>1. load.at # "done" /\ refresh' = refresh
    BY <1>8 DEF LoadRead, LoadApply, LoadSeed, LoadFail
  <2>2. QED
    BY <2>1 DEF Awaited
<1>9. CASE RefreshRead
  <2>1. /\ unseen # {} /\ load.at = "done" /\ refresh' = server
        /\ UNCHANGED <<store, load, timer, lastSaved, wire, lost>>
    BY <1>9 DEF RefreshRead
  <2>2. SUFFICES ASSUME lost = {}
                 PROVE  /\ server.course # Seed
                        /\ \A x \in {store, timer, lastSaved} : Strange(x)'
                        /\ \A k \in DOMAIN wire : Strange(wire[k].body)'
    BY <2>1 DEF Awaited, Strange
  <2>3. server.course \in unseen /\ unseen \subseteq Published
    BY <2>1, <2>2 DEF Known, TypeOK
  <2>4. \A x \in {store, timer, lastSaved} : x # None => x.course \notin unseen
    BY DEF Known, Knows
  <2>5. \A k \in DOMAIN wire : wire[k].body # None => wire[k].body.course \notin unseen
    BY DEF Known, Knows
  <2>6. QED
    BY <2>1, <2>3, <2>4, <2>5, CoursesDistinct DEF Strange
<1>10. CASE Fire
  <2>1. timer \in Snapshot /\ timer' = None
    BY <1>10 DEF Fire, TypeOK
  <2>2. \A i \in DOMAIN wire' : \/ wire'[i].body = timer
                                \/ i \in DOMAIN wire /\ wire'[i].body = wire[i].body
    BY <1>10, <2>1, SentBodies DEF Fire
  <2>3. UNCHANGED <<store, load, lastSaved, refresh, lost>>
    BY <1>10 DEF Fire, courses
  <2>4. QED
    BY <2>1, <2>2, <2>3 DEF Awaited, Strange
<1>11. ASSUME NEW k \in DOMAIN wire, Serve(k) \/ Answer(k) PROVE Awaited'
  <2>1. \A i \in DOMAIN wire' : \E j \in DOMAIN wire : wire'[i].body = wire[j].body
    BY <1>11, BodiesStay
  <2>2. /\ lastSaved' \in {lastSaved, wire[k].body} /\ lost \subseteq lost'
        /\ UNCHANGED <<store, load, timer, refresh>>
    BY <1>11 DEF Serve, Answer, courses
  <2>3. QED
    BY <2>1, <2>2 DEF Awaited, Strange
<1>12. ASSUME NEW c \in Published, Commit(c) PROVE Awaited'
  BY <1>12 DEF Commit, Awaited, Strange
<1>13. QED
  BY <1>3, <1>4, <1>5, <1>6, <1>7, <1>8, <1>9, <1>10, <1>11, <1>12 DEF Next

LEMMA InOrderInit == Init => InOrder
BY DEF Init, InOrder, Unserved

LEMMA InOrderStep ==
  ASSUME TypeOK, InOrder, [Next]_vars
  PROVE  InOrder'
<1>1. CASE UNCHANGED wire
  BY <1>1 DEF InOrder, Unserved
<1>2. CASE Reload
  BY <1>2, WireReloaded, UnservedIsOnWire DEF InOrder
<1>3. CASE LoadRead
  BY <1>3, WireLoaded, UnservedIsOnWire DEF InOrder
<1>4. CASE LoadSeed \/ Fire
  <2>1. PICK b \in Snapshot, h \in BOOLEAN : Send(b, h)
    BY <1>4 DEF LoadSeed, Fire, TypeOK
  <2> DEFINE n == Len(wire) + 1
  <2>2. /\ \A i \in DOMAIN wire' : i \in DOMAIN wire \/ i = n
        /\ \A i \in DOMAIN wire : i \in Nat /\ i < n /\ wire'[i] = wire[i]
        /\ wire'[n] = [body |-> b, state |-> "sent", heard |-> h, late |-> FALSE]
        /\ Unserved' = Unserved \cup {n} /\ n \in Nat
    BY <2>1, WireSent, WireIs
  <2> HIDE DEF n
  <2>3. \A j \in DOMAIN wire' : wire'[j].late \/ wire'[j].state = "saved" => j \in DOMAIN wire
    BY <2>2
  <2>4. \A i \in Unserved', j \in DOMAIN wire : i < j => i \in Unserved
    BY <2>2
  <2>5. Unserved' \subseteq DOMAIN wire'
    BY DEF Unserved
  <2>6. QED
    BY <2>2, <2>3, <2>4, <2>5, UnservedIsOnWire DEF InOrder
<1>5. ASSUME NEW k \in DOMAIN wire, Serve(k) PROVE InOrder'
  <2>1. /\ Unserved' = Unserved \ {k} /\ k \in Unserved /\ DOMAIN wire' = DOMAIN wire
        /\ \A i \in DOMAIN wire : i \in Nat /\ (i # k => wire'[i].state = wire[i].state)
    BY <1>5, WireServed, WireIs
  <2>2. CASE /\ wire'[k].state = "saved"
             /\ \A i \in DOMAIN wire : wire'[i].late <=> (wire[i].late \/ (i \in Unserved /\ i < k))
    <3>1. \A i, j \in Unserved' : i < j /\ wire'[j].late => wire'[i].late
      BY <2>1, <2>2, UnservedIsOnWire DEF InOrder
    <3>2. \A i \in Unserved', j \in DOMAIN wire : i < j /\ wire'[j].state = "saved" => wire'[i].late
      BY <2>1, <2>2, UnservedIsOnWire DEF InOrder
    <3>3. QED
      BY <2>1, <3>1, <3>2 DEF InOrder
  <2>3. CASE /\ wire'[k].state = "failed" /\ \A i \in DOMAIN wire : wire'[i].late <=> wire[i].late
    BY <2>1, <2>3, UnservedIsOnWire DEF InOrder
  <2>4. QED
    BY <1>5, <2>2, <2>3, WireServed
<1>6. ASSUME NEW k \in DOMAIN wire, Answer(k) PROVE InOrder'
  <2>1. /\ \A i \in DOMAIN wire' : /\ Old(k, i) \in DOMAIN wire
                                   /\ wire'[i].state = wire[Old(k, i)].state
        /\ \A i, j \in DOMAIN wire' : i < j <=> Old(k, i) < Old(k, j)
        /\ \A i \in Unserved' : i \in DOMAIN wire' /\ Old(k, i) \in Unserved
        /\ \A i \in DOMAIN wire' : Old(k, i) \in Nat
    BY <1>6, WireAnswered, LeftAnswered, WireIs
  <2>2. CASE \A i \in DOMAIN wire' : wire'[i].late <=> wire[Old(k, i)].late
    BY <2>1, <2>2 DEF InOrder
  <2>3. CASE \A i \in DOMAIN wire' : wire'[i].late <=> (wire[Old(k, i)].late \/ Old(k, i) < k)
    <3>1. \A i, j \in DOMAIN wire' : i < j /\ Old(k, j) < k => Old(k, i) < k
      BY <2>1, WireIs
    <3>2. QED
      BY <2>1, <2>3, <3>1 DEF InOrder
  <2>4. QED
    BY <1>6, <2>2, <2>3, WireAnswered
<1>7. QED
  BY <1>1, <1>2, <1>3, <1>4, <1>5, <1>6
     DEF Next, vars, Study, Touch, Reset, LoadApply, LoadFail, Commit, RefreshRead, RefreshApply

\* A PUT that was just sent is the last one on time.
LEMMA JustSent ==
  ASSUME TypeOK, NEW b \in Snapshot, NEW h \in BOOLEAN, Send(b, h)
  PROVE  OnTime' # {} /\ LastSent(b)'
<1> DEFINE n == Len(wire) + 1
<1>1. /\ \A i \in DOMAIN wire : i < n /\ i \in Nat
      /\ wire'[n] = [body |-> b, state |-> "sent", heard |-> h, late |-> FALSE]
      /\ OnTime' = OnTime \cup {n} /\ n \in Nat
  BY WireSent, WireIs
<1> HIDE DEF n
<1>2. n \in OnTime' /\ wire'[n].body = b /\ \A i \in OnTime' : i <= n
  BY <1>1, OnTimeOnWire
<1>3. QED
  BY <1>2 DEF LastSent

\* Serving a save leaves the last one on time the last, or stores it, or is late.
LEMMA LastServed ==
  ASSUME TypeOK, InOrder, NEW k \in DOMAIN wire, Serve(k), faults' = 0, NEW b,
         IF OnTime # {} THEN LastSent(b) ELSE server = b \/ behind
  PROVE  IF OnTime' # {} THEN LastSent(b)' ELSE server' = b \/ behind'
<1>1. /\ k \in Unserved /\ \A i \in DOMAIN wire : i \in Nat /\ wire'[i].body = wire[i].body
      /\ server' = wire[k].body /\ behind' = wire[k].late /\ OnTime' = {i \in OnTime : k < i}
  BY WireServed, WireIs
<1>2. CASE OnTime = {}
  <2>1. wire[k].late
    BY <1>1, <1>2 DEF OnTime
  <2>2. QED
    BY <1>1, <1>2, <2>1
<1>3. CASE OnTime # {}
  <2>1. PICK j \in OnTime : wire[j].body = b /\ \A i \in OnTime : i <= j
    BY <1>3 DEF LastSent
  <2>2. j \in Unserved /\ ~wire[j].late /\ j \in Nat /\ k \in Nat
    BY <1>1, UnservedIsOnWire DEF OnTime
  <2>3. CASE k = j
    <3>1. OnTime' = {}
      BY <1>1, <2>1, <2>3, OnTimeOnWire
    <3>2. QED
      BY <1>1, <2>1, <2>3, <3>1
  <2>4. CASE k < j
    <3>1. j \in OnTime' /\ wire'[j].body = b /\ \A i \in OnTime' : i <= j
      BY <1>1, <2>1, <2>4, OnTimeOnWire
    <3>2. QED
      BY <3>1 DEF LastSent
  <2>5. CASE j < k
    <3>1. k \notin OnTime
      BY <2>1, <2>2, <2>5
    <3>2. wire[k].late
      BY <1>1, <3>1 DEF OnTime
    <3>3. QED
      BY <1>1, <2>2, <2>5, <3>2 DEF InOrder
  <2>6. QED
    BY <2>2, <2>3, <2>4, <2>5
<1>4. QED
  BY <1>2, <1>3

LEMMA LastAnswered ==
  ASSUME TypeOK, InOrder, NEW k \in DOMAIN wire, Answer(k), NEW b,
         IF OnTime # {} THEN LastSent(b) ELSE server = b \/ behind
  PROVE  IF OnTime' # {} THEN LastSent(b)' ELSE server' = b \/ behind'
<1>1. /\ \A i \in OnTime' : Old(k, i) \in OnTime /\ i \in DOMAIN wire'
      /\ \A j \in OnTime : \E i \in OnTime' : Old(k, i) = j
      /\ server' = server /\ behind' = behind
  BY LeftAnswered DEF Answer
<1>2. CASE OnTime = {}
  BY <1>1, <1>2
<1>3. CASE OnTime # {}
  <2>1. PICK j \in OnTime : wire[j].body = b /\ \A i \in OnTime : i <= j
    BY <1>3 DEF LastSent
  <2>2. PICK i \in OnTime' : Old(k, i) = j
    BY <1>1
  <2>3. wire'[i].body = b
    BY <1>1, <2>1, <2>2, WireAnswered
  <2>4. ASSUME NEW m \in OnTime' PROVE m <= i
    <3>1. Old(k, m) <= j /\ m \in Nat /\ i \in Nat
      BY <1>1, <2>1, WireAnswered
    <3>2. ~(i < m)
      BY <1>1, <2>1, <2>2, <3>1, WireAnswered, WireIs, OnTimeOnWire
    <3>3. QED
      BY <3>1, <3>2
  <2>5. QED
    BY <2>2, <2>3, <2>4 DEF LastSent
<1>4. QED
  BY <1>2, <1>3

LEMMA AgreeStep ==
  ASSUME TypeOK, Waits, InOrder, Known, Awaited, Agree, [Next]_vars
  PROVE  Agree'
<1> DEFINE Met == /\ load.at = "read" => OnTime = {} /\ (behind \/ load.body = server)
                  /\ load.at = "done" /\ refresh = None => Target(store)
<1> SUFFICES ASSUME resets' = 0, faults' = 0, lost' = {}, unseen' = {}
             PROVE  Met'
  BY DEF Agree
<1>1. /\ resets \in Nat /\ faults \in Nat /\ store \in Snapshot /\ store # None
      /\ timer \in Snapshot \cup {None} /\ refresh \in Snapshot \cup {None}
  BY Bounds, NoneIsApart DEF TypeOK
\* A step that leaves the bounds and the courses alone starts from an agreement.
<1>2. ASSUME UNCHANGED <<resets, faults, lost, unseen>>
      PROVE  Met
  BY <1>2 DEF Agree
<1>3. UNCHANGED wire => OnTime' = OnTime
  BY DEF OnTime, Unserved
<1>4. CASE UNCHANGED vars
  BY <1>2, <1>3, <1>4 DEF vars, courses, order, bounds, Target, LastSent
<1>5. ASSUME NEW s \in Steps, Study(s)
      PROVE  Met'
  <2> DEFINE next == [store EXCEPT !.steps = @ \cup {s}]
  <2>1. s \in next.steps /\ next \in Snapshot /\ s \notin taken
    BY <1>1, <1>5 DEF Study, Snapshot
  <2>2. next # lastSaved /\ next # None
    BY <2>1, NoneIsApart DEF Known, Knows
  <2>3. Change(next) /\ UNCHANGED <<server, load, wire, refresh, behind, resets, faults, lost, unseen>>
    BY <1>5 DEF Study, courses, order, bounds
  <2> HIDE DEF next
  <2>4. load.at = "done" => Target(store)'
    BY <2>2, <2>3 DEF Change, Schedule, Target
  <2>5. QED
    BY <1>2, <1>3, <2>3, <2>4
<1>6. CASE Touch
  <2>1. Change(store) /\ UNCHANGED <<server, load, wire, refresh, behind, resets, faults, lost, unseen>>
    BY <1>6 DEF Touch, courses, order, bounds
  <2>2. load.at = "done" /\ Target(store) => Target(store)'
    BY <1>1, <1>3, <2>1 DEF Change, Schedule, Target, LastSent
  <2>3. QED
    BY <1>2, <1>3, <2>1, <2>2
<1>7. CASE Reset
  BY <1>1, <1>7 DEF Reset
<1>8. CASE LoadFail
  BY <1>1, <1>8 DEF LoadFail, Fault
<1>9. CASE Reload
  BY <1>9 DEF Reload, Asked
<1>10. CASE LoadRead
  BY <1>10, WireLoaded DEF LoadRead
<1>11. CASE LoadApply
  <2>1. /\ behind \/ load.body = server
        /\ OnTime = {} /\ timer = None
        /\ store' = load.body /\ load'.at = "done" /\ UNCHANGED <<server, timer, wire, behind>>
    BY <1>2, <1>11 DEF LoadApply, Waits, Done, courses, bounds
  <2>2. QED
    BY <1>3, <2>1 DEF Target
<1>12. CASE LoadSeed
  <2>1. Send(store, FALSE) /\ timer' = None /\ store' = store /\ load'.at = "done"
    BY <1>12 DEF LoadSeed, Waits, Done
  <2>2. OnTime' # {} /\ LastSent(store)'
    BY <1>1, <2>1, JustSent DEF LastSent
  <2>3. QED
    BY <2>1, <2>2 DEF Target
<1>13. CASE Fire
  <2>1. /\ timer # None /\ Send(timer, TRUE) /\ timer' = None
        /\ UNCHANGED <<store, load, refresh, resets, faults, lost, unseen>>
    BY <1>13 DEF Fire, courses, bounds
  <2>2. load.at = "done"
    BY <2>1 DEF Waits
  <2>3. refresh = None => timer = store
    BY <1>2, <2>1, <2>2 DEF Target
  <2>4. CASE refresh = None
    <3>1. timer = store /\ Send(store, TRUE)
      BY <2>1, <2>3, <2>4
    <3>2. OnTime' # {} /\ LastSent(store)'
      BY <1>1, <2>1, <3>1, JustSent DEF LastSent
    <3>3. QED
      BY <2>1, <2>2, <3>2 DEF Target
  <2>5. QED
    BY <2>1, <2>2, <2>4
<1>14. ASSUME NEW k \in DOMAIN wire, Serve(k) PROVE Met'
  <2>1. /\ k \in Unserved /\ UNCHANGED <<store, load, timer, refresh, unseen, resets>>
        /\ lost \subseteq lost'
    BY <1>14 DEF Serve
  <2>2. faults = 0
    BY <1>1, <1>14 DEF Serve, Fault
  <2>3. Met
    BY <2>1, <2>2 DEF Agree
  <2>4. /\ server' = wire[k].body /\ behind' = wire[k].late /\ OnTime' = {i \in OnTime : k < i}
    BY <1>14, WireServed
  <2>5. load.at = "read" => OnTime' = {} /\ behind'
    BY <2>1, <2>3, <2>4 DEF OnTime
  <2>6. CASE timer # None
    BY <2>1, <2>3, <2>5, <2>6 DEF Target
  <2>7. CASE timer = None
    BY <1>14, <2>1, <2>3, <2>5, <2>7, LastServed DEF Target
  <2>8. QED
    BY <2>6, <2>7
<1>15. ASSUME NEW k \in DOMAIN wire, Answer(k) PROVE Met'
  <2>1. UNCHANGED <<server, store, load, timer, refresh, behind, lost, unseen, resets>>
    BY <1>15 DEF Answer, courses
  <2>2. faults = 0
    BY <1>1, <1>15 DEF Answer, Fault
  <2>3. Met
    BY <2>1, <2>2 DEF Agree
  <2>4. OnTime = {} => OnTime' = {}
    BY <1>15, LeftAnswered
  <2>5. CASE timer # None
    BY <2>1, <2>3, <2>4, <2>5 DEF Target
  <2>6. CASE timer = None
    BY <1>15, <2>1, <2>3, <2>4, <2>6, LastAnswered DEF Target
  <2>7. QED
    BY <2>5, <2>6
<1>16. ASSUME NEW c \in Published, Commit(c) PROVE FALSE
  BY <1>16 DEF Commit
<1>17. CASE RefreshRead
  <2>1. /\ unseen # {} /\ load.at = "done" /\ lost = {}
        /\ refresh' = server /\ load' = load
    BY <1>17 DEF RefreshRead
  <2>2. server # None
    BY <2>1 DEF Known
  <2>3. QED
    BY <2>1, <2>2
<1>18. CASE RefreshApply
  <2> DEFINE next == Fresh(refresh.course)
  <2>1. /\ refresh # None /\ Change(next)
        /\ UNCHANGED <<load, lastSaved, resets, lost>>
    BY <1>18 DEF RefreshApply, courses, bounds
  <2>2. next \in Snapshot /\ next.course = refresh.course
    BY <1>1, <2>1 DEF Fresh, Snapshot
  <2> HIDE DEF next
  <2>3. load.at = "done" /\ next # lastSaved /\ next # None
    BY <2>1, <2>2, NoneIsApart DEF Awaited, Strange
  <2>4. Target(store)'
    BY <2>1, <2>3 DEF Change, Schedule, Target
  <2>5. QED
    BY <2>1, <2>3, <2>4
<1>19. QED
  BY <1>4, <1>5, <1>6, <1>7, <1>8, <1>9, <1>10, <1>11, <1>12, <1>13, <1>14, <1>15, <1>16, <1>17,
     <1>18 DEF Next

SyncInv == TypeOK /\ Waits /\ InOrder /\ Known /\ Awaited /\ Agree

LEMMA SyncInvInit == Init => SyncInv
<1> SUFFICES ASSUME Init PROVE SyncInv
  OBVIOUS
<1>1. TypeOK /\ Waits
  BY SInvInit DEF SInv
<1>2. Known
  BY CoursesDistinct DEF Init, Known, Knows, Asked, Fresh
<1>3. Awaited /\ Agree
  BY DEF Init, Awaited, Agree, Asked
<1>4. QED
  BY <1>1, <1>2, <1>3, InOrderInit DEF SyncInv

\* When nothing is under way, nothing failed, the learner did not start over and the page has
\* read every course a job committed, the server holds the page's snapshot or that of a late
\* save, in whatever order the requests were served and answered.
THEOREM QuietPageIsSaved == Spec => []IdleMeansSaved
<1>1. SyncInv => IdleMeansSaved
  <2> SUFFICES ASSUME SyncInv, Idle, resets = 0, faults = 0, unseen = {}, lost = {}
               PROVE  server = store \/ behind
    BY DEF IdleMeansSaved
  <2>1. Target(store) /\ timer = None
    BY DEF SyncInv, Agree, Idle
  <2>2. OnTime = {}
    BY DEF Idle, OnTime, Unserved
  <2>3. QED
    BY <2>1, <2>2 DEF Target
<1>2. SyncInv /\ [Next]_vars => SyncInv'
  BY TypeStep, WaitsStep, InOrderStep, KnownStep, AwaitedStep, AgreeStep DEF SyncInv
<1>3. QED
  BY <1>1, <1>2, SyncInvInit, PTL DEF Spec

-----------------------------------------------------------------------------
(* What the page believes to be saved.  Without a reset the store never     *)
(* returns to an earlier snapshot, so what was saved after the believed one *)
(* is the store itself; without a failure the page hears of every save in   *)
(* the end.  What was overtaken counts neither among the saves nor among    *)
(* the answers.                                                             *)

Unheard == \A k \in DOMAIN wire : ~wire[k].heard

\* A page that is loading believes nothing and waits for nothing.
Loading ==
  /\ load.at # "done" => lastSaved = None /\ Unheard
  /\ load.at = "read" => OnTime = {} /\ (unseen = {} => behind \/ load.body = server)

NoneFailed == faults = 0 => \A k \in DOMAIN wire : wire[k].state # "failed"

\* The page is loaded and has read all that jobs committed.
InTouch == load.at = "done" /\ refresh = None /\ unseen = {} /\ lost = {}

\* All that is on time and was sent after a request is the store.
HoldsAfter(k) == /\ timer \in {None, store}
                 /\ \A j \in OnTime : j > k => wire[j].body = store

\* When the page believes the store saved, or is about to hear it, nothing else is under way.
Unmistaken ==
  InTouch /\ resets = 0 =>
    /\ lastSaved = store => HoldsAfter(0) /\ (behind \/ server \in {None, store})
    /\ \A k \in DOMAIN wire :
         wire[k].heard /\ wire[k].body = store =>
           /\ wire[k].state # "failed" => HoldsAfter(k)
           /\ wire[k].state = "saved" => behind \/ server = store

\* The requests whose answers the page is to remember.
Expected == {k \in DOMAIN wire : wire[k].heard /\ ~wire[k].late}

\* The last save is one the page will hear of.
WillHear ==
  \E k \in Expected : /\ \A i \in OnTime \cup Expected : i <= k
                      /\ wire[k].state = "saved" => behind \/ server = wire[k].body

\* The last save is one the page knows of, unless it was misled.
HasHeard ==
  /\ Expected = {}
  /\ \/ misled \/ lastSaved = None
     \/ IF OnTime # {} THEN LastSent(lastSaved) ELSE server = lastSaved \/ behind

Followed == InTouch /\ faults = 0 /\ timer = None => WillHear \/ HasHeard

NoticeInv == Loading /\ NoneFailed /\ Unmistaken /\ Followed

LEMMA NoticeInit == Init => NoticeInv
<1> SUFFICES ASSUME Init PROVE NoticeInv
  OBVIOUS
<1>1. DOMAIN wire = {} /\ load.at = "asked" /\ lastSaved = None
  BY DEF Init, Asked
<1>2. QED
  BY <1>1 DEF NoticeInv, Loading, NoneFailed, Unmistaken, Followed, Unheard, InTouch

LEMMA LoadingStep ==
  ASSUME TypeOK, Waits, Awaited, Loading, [Next]_vars
  PROVE  Loading'
<1>1. UNCHANGED wire => OnTime' = OnTime /\ (Unheard' <=> Unheard)
  BY DEF OnTime, Unserved, Unheard
<1>2. CASE UNCHANGED <<server, load, lastSaved, wire, unseen, behind>>
  BY <1>1, <1>2 DEF Loading
<1>3. CASE (\E s \in Steps : Study(s)) \/ Touch \/ Reset \/ UNCHANGED vars
  BY <1>2, <1>3 DEF Study, Touch, Reset, vars, courses, order
<1>4. CASE Reload
  <2>1. Unheard'
    BY <1>4, WireReloaded DEF Unheard
  <2>2. QED
    BY <1>4, <2>1 DEF Reload, Asked, Loading
<1>5. CASE LoadRead
  <2>1. OnTime' = {} /\ (Unheard => Unheard')
    BY <1>5, WireLoaded DEF Unheard
  <2>2. QED
    BY <1>5, <2>1 DEF LoadRead, Loading
<1>6. CASE LoadApply \/ LoadSeed \/ LoadFail
  <2>1. load' = Done
    BY <1>6 DEF LoadApply, LoadSeed, LoadFail
  <2>2. QED
    BY <2>1 DEF Done, Loading
<1>7. CASE Fire
  BY <1>7 DEF Fire, Waits, Loading
<1>8. ASSUME NEW k \in DOMAIN wire, Serve(k) PROVE Loading'
  <2>1. k \in Unserved /\ UNCHANGED <<load, lastSaved, unseen>>
    BY <1>8 DEF Serve
  <2>2. Unheard => Unheard'
    BY <1>8, WireServed DEF Unheard
  <2>3. OnTime = {} => wire[k].late
    BY <2>1 DEF OnTime
  <2>4. OnTime = {} => OnTime' = {} /\ (behind' \/ (server' = server /\ behind' = behind))
    BY <1>8, <2>3, WireServed
  <2>5. QED
    BY <2>1, <2>2, <2>4 DEF Loading
<1>9. ASSUME NEW k \in DOMAIN wire, Answer(k) PROVE Loading'
  <2>1. UNCHANGED <<server, load, unseen, behind>> /\ (wire[k].heard \/ lastSaved' = lastSaved)
    BY <1>9 DEF Answer, courses
  <2>2. Unheard => Unheard'
    BY <1>9, WireAnswered DEF Unheard
  <2>3. OnTime = {} => OnTime' = {}
    BY <1>9, LeftAnswered
  <2>4. QED
    BY <2>1, <2>2, <2>3 DEF Loading, Unheard
<1>10. ASSUME NEW c \in Published, Commit(c) PROVE Loading'
  <2>1. unseen' # {} /\ UNCHANGED <<load, lastSaved, wire>>
    BY <1>10 DEF Commit
  <2>2. QED
    BY <1>1, <2>1 DEF Loading
<1>11. CASE RefreshRead \/ RefreshApply
  <2>1. load'.at = "done"
    BY <1>11 DEF RefreshRead, RefreshApply, Awaited
  <2>2. QED
    BY <2>1 DEF Loading
<1>12. QED
  BY <1>3, <1>4, <1>5, <1>6, <1>7, <1>8, <1>9, <1>10, <1>11 DEF Next

LEMMA FaultsBefore == ASSUME TypeOK, [Next]_vars, faults' = 0 PROVE faults = 0
<1>1. faults \in Nat
  BY Bounds DEF TypeOK
<1>2. faults' = faults \/ faults' = faults + 1
  BY DEF Next, vars, bounds, Study, Touch, Reset, Reload, LoadRead, LoadApply, LoadSeed,
         LoadFail, Fire, Serve, Answer, Commit, RefreshRead, RefreshApply, Fault
<1>3. QED
  BY <1>1, <1>2

LEMMA NoneFailedStep ==
  ASSUME TypeOK, NoneFailed, [Next]_vars
  PROVE  NoneFailed'
<1>1. faults' = 0 => faults = 0
  BY FaultsBefore
<1> SUFFICES ASSUME faults' = 0, faults = 0, NEW k \in DOMAIN wire' PROVE wire'[k].state # "failed"
  BY <1>1 DEF NoneFailed
<1>2. CASE UNCHANGED wire
  BY <1>2 DEF NoneFailed
<1>3. CASE Reload \/ LoadRead
  BY <1>3, WireReloaded, WireLoaded DEF NoneFailed
<1>4. CASE LoadSeed \/ Fire
  <2>1. PICK b \in Snapshot, h \in BOOLEAN : Send(b, h)
    BY <1>4 DEF LoadSeed, Fire, TypeOK
  <2>2. CASE k \in DOMAIN wire
    BY <2>1, <2>2, WireSent DEF NoneFailed
  <2>3. CASE k = Len(wire) + 1
    <3>1. wire'[k] = [body |-> b, state |-> "sent", heard |-> h, late |-> FALSE]
      BY <2>1, <2>3, WireSent
    <3>2. QED
      BY <3>1
  <2>4. QED
    BY <2>1, <2>2, <2>3, WireSent
<1>5. ASSUME NEW j \in DOMAIN wire, Serve(j) PROVE wire'[k].state # "failed"
  BY <1>5, WireServed DEF NoneFailed
<1>6. ASSUME NEW j \in DOMAIN wire, Answer(j) PROVE wire'[k].state # "failed"
  BY <1>6, WireAnswered DEF NoneFailed
<1>7. QED
  BY <1>2, <1>3, <1>4, <1>5, <1>6
     DEF Next, vars, Study, Touch, Reset, LoadApply, LoadFail, Commit, RefreshRead,
         RefreshApply

\* The store and the timer are changed to a snapshot the page never had.
LEMMA NewStoreIsUnsaved ==
  ASSUME TypeOK, Known, Awaited, lost = {},
         (\E s \in Steps : Study(s)) \/ RefreshApply
  PROVE  /\ store' # lastSaved /\ \A k \in DOMAIN wire : wire[k].body # store'
         /\ UNCHANGED <<lastSaved, wire>>
<1>1. store \in Snapshot /\ refresh \in Snapshot \cup {None}
  BY DEF TypeOK
<1>2. \A k \in DOMAIN wire : wire[k].body # None
  BY WireIs
<1>3. ASSUME NEW s \in Steps, Study(s)
      PROVE  store' # lastSaved /\ \A k \in DOMAIN wire : wire[k].body # store'
  <2>1. /\ s \notin taken /\ store' = [store EXCEPT !.steps = @ \cup {s}]
    BY <1>3 DEF Study, Change
  <2>2. s \in store'.steps /\ store' \in Snapshot
    BY <1>1, <2>1 DEF Snapshot
  <2>3. QED
    BY <1>2, <2>1, <2>2, NoneIsApart DEF Known, Knows
<1>4. ASSUME RefreshApply
      PROVE  store' # lastSaved /\ \A k \in DOMAIN wire : wire[k].body # store'
  <2>1. refresh # None /\ store' = Fresh(refresh.course)
    BY <1>4 DEF RefreshApply, Change
  <2>2. store' \in Snapshot /\ store'.course = refresh.course
    BY <1>1, <2>1 DEF Fresh, Snapshot
  <2>3. QED
    BY <1>2, <2>1, <2>2, NoneIsApart DEF Awaited, Strange
<1>5. QED
  BY <1>3, <1>4 DEF Study, RefreshApply

LEMMA UnmistakenStep ==
  ASSUME TypeOK, Waits, InOrder, Known, Awaited, Loading, Unmistaken, [Next]_vars
  PROVE  Unmistaken'
<1> SUFFICES ASSUME InTouch', resets' = 0 PROVE Unmistaken'
  BY DEF Unmistaken
<1>1. load'.at = "done" /\ refresh' = None /\ unseen' = {} /\ lost' = {}
  BY DEF InTouch
<1>2. store \in Snapshot /\ store # None /\ resets \in Nat
  BY NoneIsApart, Bounds DEF TypeOK
<1>3. UNCHANGED wire => OnTime' = OnTime
  BY DEF OnTime, Unserved
<1>4. CASE UNCHANGED vars
  BY <1>3, <1>4 DEF vars, courses, order, bounds, InTouch, Unmistaken, HoldsAfter
<1>5. CASE (\E s \in Steps : Study(s)) \/ RefreshApply
  <2>1. lost = {}
    BY <1>1, <1>5 DEF Study, RefreshApply, courses
  <2>2. /\ store' # lastSaved' /\ \A k \in DOMAIN wire' : wire'[k].body # store'
    BY <1>5, <2>1, NewStoreIsUnsaved
  <2>3. QED
    BY <2>2 DEF Unmistaken
<1>6. CASE Touch
  <2>1. store' = store /\ timer' \in {timer, store}
    BY <1>2, <1>6, ChangeEffect DEF Touch
  <2>2. UNCHANGED <<server, load, lastSaved, wire, refresh, behind, unseen, lost, resets>>
    BY <1>6 DEF Touch, courses, order, bounds
  <2>3. QED
    BY <1>3, <2>1, <2>2 DEF InTouch, Unmistaken, HoldsAfter
<1>7. CASE Reset
  BY <1>2, <1>7 DEF Reset
<1>8. CASE Reload \/ LoadRead
  BY <1>1, <1>8 DEF Reload, LoadRead, Asked
<1>9. CASE LoadApply
  <2>1. /\ load.at = "read" /\ store' = load.body /\ store' # None
        /\ UNCHANGED <<server, timer, wire, behind, unseen>>
    BY <1>9 DEF LoadApply, courses
  <2>2. /\ OnTime' = {} /\ (behind' \/ server' = store') /\ Unheard' /\ timer' = None
    BY <1>1, <1>3, <2>1 DEF Loading, Waits, Unheard
  <2>3. QED
    BY <2>2 DEF Unmistaken, HoldsAfter, Unheard
<1>10. CASE LoadSeed
  <2>1. /\ load.at = "read" /\ load.body = None /\ store' = store /\ timer' = timer
        /\ Send(store, FALSE) /\ UNCHANGED <<server, behind, unseen>>
    BY <1>10 DEF LoadSeed, courses
  <2>2. /\ OnTime = {} /\ (behind' \/ server' = None) /\ Unheard /\ timer' = None
    BY <1>1, <2>1 DEF Loading, Waits
  <2> DEFINE n == Len(wire) + 1
  <2>3. /\ \A i \in DOMAIN wire' : i \in DOMAIN wire \/ i = n
        /\ \A i \in DOMAIN wire : wire'[i] = wire[i]
        /\ wire'[n] = [body |-> store, state |-> "sent", heard |-> FALSE, late |-> FALSE]
        /\ OnTime' = {n}
    BY <1>2, <2>1, <2>2, WireSent
  <2> HIDE DEF n
  <2>4. \A k \in DOMAIN wire' : ~wire'[k].heard
    BY <2>2, <2>3 DEF Unheard
  <2>5. QED
    BY <2>1, <2>2, <2>3, <2>4 DEF Unmistaken, HoldsAfter
<1>11. CASE LoadFail
  <2>1. lastSaved' = None /\ Unheard /\ store' = store /\ wire' = wire
    BY <1>11 DEF LoadFail, Loading
  <2>2. QED
    BY <1>2, <2>1 DEF Unmistaken, Unheard
<1>12. CASE Fire
  <2>1. /\ timer \in Snapshot /\ timer # None /\ Send(timer, TRUE) /\ timer' = None
        /\ UNCHANGED <<server, store, load, lastSaved, refresh, behind, unseen, lost, resets>>
    BY <1>12 DEF Fire, TypeOK, courses, order, bounds
  <2>2. InTouch /\ resets = 0
    BY <2>1 DEF InTouch
  <2> DEFINE n == Len(wire) + 1
  <2>3. /\ \A i \in DOMAIN wire' : i \in DOMAIN wire \/ i = n
        /\ \A i \in DOMAIN wire : i \in Nat /\ i < n /\ wire'[i] = wire[i]
        /\ wire'[n] = [body |-> timer, state |-> "sent", heard |-> TRUE, late |-> FALSE]
        /\ OnTime' = OnTime \cup {n} /\ n \in Nat
    <3>1. PICK b \in Snapshot, h \in BOOLEAN : Send(b, h) /\ b = timer /\ h = TRUE
      BY <2>1
    <3>2. /\ \A i \in DOMAIN wire' : i \in DOMAIN wire \/ i = n
          /\ \A i \in DOMAIN wire : i < n /\ wire'[i] = wire[i]
          /\ wire'[n] = [body |-> b, state |-> "sent", heard |-> h, late |-> FALSE]
          /\ OnTime' = OnTime \cup {n}
      BY <3>1, WireSent
    <3>3. QED
      BY <3>1, <3>2, WireIs
  <2> HIDE DEF n
  <2>4. ASSUME NEW k, HoldsAfter(k) PROVE HoldsAfter(k)'
    <3>1. timer = store
      BY <2>1, <2>4 DEF HoldsAfter
    <3>2. \A j \in OnTime' : j > k => wire'[j].body = store
      BY <2>3, <2>4, <3>1, OnTimeOnWire DEF HoldsAfter
    <3>3. QED
      BY <2>1, <3>2 DEF HoldsAfter
  <2>5. ASSUME NEW k \in DOMAIN wire', wire'[k].heard, wire'[k].body = store
        PROVE  /\ wire'[k].state # "failed" => HoldsAfter(k)'
               /\ wire'[k].state = "saved" => behind \/ server = store
    <3>1. CASE k \in DOMAIN wire
      <4>1. wire'[k] = wire[k]
        BY <2>3, <3>1
      <4>2. QED
        BY <2>2, <2>4, <2>5, <3>1, <4>1 DEF Unmistaken
    <3>2. CASE k = n
      <4>1. \A j \in OnTime' : ~(j > n)
        BY <2>3, OnTimeOnWire
      <4>2. HoldsAfter(k)'
        BY <2>1, <3>2, <4>1 DEF HoldsAfter
      <4>3. QED
        BY <2>3, <3>2, <4>2
    <3>3. QED
      BY <2>3, <3>1, <3>2
  <2>6. lastSaved = store => HoldsAfter(0)' /\ (behind \/ server \in {None, store})
    BY <2>2, <2>4 DEF Unmistaken
  <2>7. QED
    BY <2>1, <2>5, <2>6 DEF Unmistaken
<1>13. ASSUME NEW k \in DOMAIN wire, Serve(k) PROVE Unmistaken'
  <2>1. /\ k \in Unserved /\ UNCHANGED <<store, load, timer, lastSaved, refresh, unseen, resets>>
        /\ lost \subseteq lost'
    BY <1>13 DEF Serve
  <2>2. InTouch /\ resets = 0
    BY <1>1, <2>1 DEF InTouch
  <2>3. /\ DOMAIN wire' = DOMAIN wire /\ OnTime' \subseteq OnTime
        /\ \A i \in DOMAIN wire : i \in Nat /\ i > 0 /\ wire'[i].body = wire[i].body
    BY <1>13, WireServed, WireIs
  <2>4. ASSUME NEW j, HoldsAfter(j) PROVE HoldsAfter(j)'
    BY <2>1, <2>3, <2>4, OnTimeOnWire DEF HoldsAfter
  \* What is stored is on time or late.
  <2>5. \/ server' = server /\ behind' = behind
        \/ behind'
        \/ server' = wire[k].body /\ k \in OnTime
    BY <1>13, <2>1, WireServed DEF OnTime
  <2>6. ASSUME lastSaved = store PROVE HoldsAfter(0)' /\ (behind' \/ server' \in {None, store})
    <3>1. HoldsAfter(0) /\ (behind \/ server \in {None, store})
      BY <2>2, <2>6 DEF Unmistaken
    <3>2. k \in OnTime => wire[k].body = store
      BY <2>3, <3>1, OnTimeOnWire DEF HoldsAfter
    <3>3. QED
      BY <2>4, <2>5, <3>1, <3>2
  <2>7. ASSUME NEW j \in DOMAIN wire, wire'[j].heard, wire'[j].body = store, wire'[j].state # "failed"
        PROVE  HoldsAfter(j)' /\ (wire'[j].state = "saved" => behind' \/ server' = store)
    <3>1. wire[j].heard /\ wire[j].body = store
      BY <1>13, <2>7, WireServed
    <3>2. CASE j = k
      <4>1. wire[k].state = "sent"
        BY <2>1 DEF Unserved
      <4>2. HoldsAfter(j)
        BY <2>2, <3>1, <3>2, <4>1 DEF Unmistaken
      <4>3. server' = store
        BY <1>13, <2>7, <3>1, <3>2, WireServed
      <4>4. QED
        BY <2>4, <4>2, <4>3
    <3>3. CASE j # k
      <4>1. wire[j].state = wire'[j].state
        BY <1>13, <3>3, WireServed
      <4>2. HoldsAfter(j) /\ (wire[j].state = "saved" => behind \/ server = store)
        BY <2>2, <2>7, <3>1, <4>1 DEF Unmistaken
      <4>3. ASSUME wire[j].state = "saved", k \in OnTime PROVE wire[k].body = store
        <5>1. ~(k < j)
          BY <2>1, <4>3 DEF InOrder, OnTime
        <5>2. k > j
          BY <2>3, <3>3, <5>1
        <5>3. QED
          BY <4>2, <4>3, <5>2 DEF HoldsAfter
      <4>4. QED
        BY <2>4, <2>5, <4>1, <4>2, <4>3
    <3>4. QED
      BY <3>2, <3>3
  <2>8. QED
    BY <2>1, <2>3, <2>6, <2>7 DEF Unmistaken
<1>14. ASSUME NEW k \in DOMAIN wire, Answer(k) PROVE Unmistaken'
  <2>1. /\ UNCHANGED <<server, store, load, timer, refresh, behind, unseen, lost, resets>>
        /\ \/ lastSaved' = lastSaved
           \/ lastSaved' = wire[k].body /\ wire[k].heard /\ wire[k].state = "saved"
    BY <1>14 DEF Answer, courses
  <2>2. InTouch /\ resets = 0
    BY <2>1 DEF InTouch
  <2>3. /\ \A i \in OnTime' : i \in DOMAIN wire' /\ Old(k, i) \in OnTime
        /\ \A i \in DOMAIN wire' : /\ Old(k, i) \in DOMAIN wire
                                   /\ wire'[i].body = wire[Old(k, i)].body
                                   /\ wire'[i].state = wire[Old(k, i)].state
                                   /\ wire'[i].heard = wire[Old(k, i)].heard
        /\ \A i, j \in DOMAIN wire' : i < j <=> Old(k, i) < Old(k, j)
        /\ \A i \in DOMAIN wire' : i \in Nat /\ i > 0 /\ Old(k, i) \in Nat /\ Old(k, i) > 0
    <3>1. \A i \in DOMAIN wire' : i \in Nat /\ i > 0
      BY <1>14, WireAnswered
    <3>2. QED
      BY <1>14, <3>1, LeftAnswered, WireAnswered, WireIs
  <2>4. ASSUME NEW j \in DOMAIN wire', HoldsAfter(Old(k, j)) PROVE HoldsAfter(j)'
    <3>1. \A i \in OnTime' : i > j => wire'[i].body = store
      BY <2>3, <2>4 DEF HoldsAfter
    <3>2. QED
      BY <2>1, <2>4, <3>1 DEF HoldsAfter
  <2>5. ASSUME HoldsAfter(0) PROVE HoldsAfter(0)'
    BY <2>1, <2>3, <2>5 DEF HoldsAfter
  <2>6. ASSUME lastSaved' = store PROVE HoldsAfter(0)' /\ (behind \/ server \in {None, store})
    <3>1. CASE lastSaved = store
      BY <2>2, <2>5, <3>1 DEF Unmistaken
    <3>2. CASE wire[k].body = store /\ wire[k].heard /\ wire[k].state = "saved"
      <4>1. HoldsAfter(k) /\ (behind \/ server = store)
        BY <2>1, <2>2, <3>2 DEF Unmistaken
      <4>2. ASSUME NEW i \in OnTime' PROVE wire'[i].body = store
        <5>1. Old(k, i) \in OnTime /\ i \in DOMAIN wire'
          BY <2>3
        <5>2. ~(Old(k, i) < k)
          BY <3>2, <5>1 DEF InOrder, OnTime
        <5>3. Old(k, i) > k
          BY <1>14, <2>3, <5>1, <5>2, WireAnswered, WireIs
        <5>4. QED
          BY <2>3, <4>1, <5>1, <5>3 DEF HoldsAfter
      <4>3. QED
        BY <2>1, <4>1, <4>2 DEF HoldsAfter
    <3>3. QED
      BY <2>1, <2>6, <3>1, <3>2
  <2>7. ASSUME NEW j \in DOMAIN wire', wire'[j].heard, wire'[j].body = store
        PROVE  /\ wire'[j].state # "failed" => HoldsAfter(j)'
               /\ wire'[j].state = "saved" => behind \/ server = store
    BY <2>2, <2>3, <2>4, <2>7 DEF Unmistaken
  <2>8. QED
    BY <2>1, <2>6, <2>7 DEF Unmistaken
<1>15. ASSUME NEW c \in Published, Commit(c) PROVE FALSE
  BY <1>1, <1>15 DEF Commit
<1>16. CASE RefreshRead
  <2>1. unseen # {} /\ lost = {} /\ refresh' = server
    BY <1>1, <1>16 DEF RefreshRead
  <2>2. QED
    BY <1>1, <2>1 DEF Known
<1>17. QED
  BY <1>4, <1>5, <1>6, <1>7, <1>8, <1>9, <1>10, <1>11, <1>12, <1>13, <1>14, <1>15, <1>16 DEF Next

LEMMA FollowedServed ==
  ASSUME TypeOK, InOrder, NEW k \in DOMAIN wire, Serve(k), faults' = 0, WillHear \/ HasHeard
  PROVE  (WillHear \/ HasHeard)'
<1>1. /\ DOMAIN wire' = DOMAIN wire /\ k \in Unserved /\ k \in Nat
      /\ \A i \in DOMAIN wire : /\ wire'[i].body = wire[i].body
                                /\ wire'[i].heard = wire[i].heard
                                /\ i # k => wire'[i].state = wire[i].state
                                /\ wire'[i].late <=> (wire[i].late \/ (i \in Unserved /\ i < k))
      /\ server' = wire[k].body /\ behind' = wire[k].late /\ OnTime' = {i \in OnTime : k < i}
  BY WireServed, WireIs
<1>2. UNCHANGED <<lastSaved, misled>>
  BY DEF Serve
<1>3. Expected' \subseteq Expected
  BY <1>1 DEF Expected
<1>4. CASE HasHeard
  <2>1. Expected' = {}
    BY <1>3, <1>4 DEF HasHeard
  <2>2. CASE misled \/ lastSaved = None
    BY <1>2, <2>1, <2>2 DEF HasHeard
  <2>3. CASE IF OnTime # {} THEN LastSent(lastSaved) ELSE server = lastSaved \/ behind
    <3>1. IF OnTime' # {} THEN \E j \in OnTime' : wire'[j].body = lastSaved /\ \A i \in OnTime' : i <= j
                          ELSE server' = lastSaved \/ behind'
      BY <2>3, LastServed DEF LastSent
    <3>2. QED
      BY <1>2, <2>1, <3>1 DEF HasHeard, LastSent
  <2>4. QED
    BY <1>4, <2>2, <2>3 DEF HasHeard
<1>5. CASE WillHear
  <2>1. PICK m \in Expected : /\ \A i \in OnTime \cup Expected : i <= m
                              /\ wire[m].state = "saved" => behind \/ server = wire[m].body
    BY <1>5 DEF WillHear
  <2>2. m \in DOMAIN wire /\ wire[m].heard /\ ~wire[m].late /\ m \in Nat
    BY WireIs DEF Expected
  <2>3. m < k => wire[k].late
    BY <1>1, <2>1, <2>2 DEF OnTime
  <2>4. ~(m \in Unserved /\ m < k)
    BY <1>1, <2>2, <2>3 DEF InOrder
  <2>5. m \in Expected'
    BY <1>1, <2>2, <2>4 DEF Expected
  <2>6. wire'[m].state = "saved" => behind' \/ server' = wire'[m].body
    <3>1. CASE m = k
      BY <1>1, <3>1
    <3>2. CASE m # k
      <4>1. k < m /\ wire[m].state = "saved" => wire[k].late
        BY <1>1, <2>2 DEF InOrder
      <4>2. m < k \/ k < m
        BY <1>1, <2>2, <3>2
      <4>3. QED
        BY <1>1, <2>2, <2>3, <3>2, <4>1, <4>2
    <3>3. QED
      BY <3>1, <3>2
  <2>7. \A i \in OnTime' \cup Expected' : i <= m
    BY <1>1, <1>3, <2>1
  <2>8. QED
    BY <2>5, <2>6, <2>7 DEF WillHear
<1>6. QED
  BY <1>4, <1>5

LEMMA FollowedAnswered ==
  ASSUME TypeOK, InOrder, NEW k \in DOMAIN wire, Answer(k), wire[k].state # "failed", faults' = 0,
         WillHear \/ HasHeard
  PROVE  (WillHear \/ HasHeard)'
<1>1. /\ \A i \in DOMAIN wire' : /\ Old(k, i) \in DOMAIN wire /\ Old(k, i) # k
                                 /\ wire'[i].body = wire[Old(k, i)].body
                                 /\ wire'[i].state = wire[Old(k, i)].state
                                 /\ wire'[i].heard = wire[Old(k, i)].heard
      /\ \A i, j \in DOMAIN wire' : i < j <=> Old(k, i) < Old(k, j)
      /\ \A j \in DOMAIN wire : j = k \/ \E i \in DOMAIN wire' : Old(k, i) = j
      /\ \A i \in DOMAIN wire' : i \in Nat /\ Old(k, i) \in Nat
      /\ k \in Nat
  <2>1. \A i \in DOMAIN wire' : i \in Nat
    BY WireAnswered
  <2>2. QED
    BY <2>1, WireAnswered, WireIs
<1>2. wire[k].state = "saved"
  <2>1. wire[k].state \in {"sent", "saved", "failed"}
    BY WireIs DEF Put
  <2>2. QED
    BY <2>1 DEF Answer, Unserved
<1>3. UNCHANGED <<server, behind>>
  BY DEF Answer
<1>4. \/ /\ wire[k].heard /\ lastSaved' = wire[k].body /\ misled' = wire[k].late
         /\ \A i \in DOMAIN wire' : wire'[i].late <=> (wire[Old(k, i)].late \/ Old(k, i) < k)
      \/ /\ ~wire[k].heard /\ UNCHANGED <<lastSaved, misled>>
         /\ \A i \in DOMAIN wire' : wire'[i].late <=> wire[Old(k, i)].late
  BY <1>2, WireAnswered
<1>5. \A i \in DOMAIN wire' : wire[Old(k, i)].late => wire'[i].late
  BY <1>4
<1>6. \A i \in Expected' : i \in DOMAIN wire' /\ Old(k, i) \in Expected
  BY <1>1, <1>5 DEF Expected
<1>7. \A i \in OnTime' : i \in DOMAIN wire' /\ Old(k, i) \in OnTime
  BY LeftAnswered
<1>8. CASE HasHeard
  <2>1. Expected' = {}
    BY <1>6, <1>8 DEF HasHeard
  <2>2. CASE wire[k].heard
    <3>1. wire[k].late
      BY <1>8, <2>2 DEF HasHeard, Expected
    <3>2. misled'
      BY <1>4, <2>2, <3>1
    <3>3. QED
      BY <2>1, <3>2 DEF HasHeard
  <2>3. CASE ~wire[k].heard
    <3>1. UNCHANGED <<lastSaved, misled>>
      BY <1>4, <2>3
    <3>2. CASE misled \/ lastSaved = None
      BY <2>1, <3>1, <3>2 DEF HasHeard
    <3>3. CASE IF OnTime # {} THEN LastSent(lastSaved) ELSE server = lastSaved \/ behind
      <4>1. IF OnTime' # {} THEN \E j \in OnTime' : wire'[j].body = lastSaved /\ \A i \in OnTime' : i <= j
                            ELSE server' = lastSaved \/ behind'
        BY <3>3, LastAnswered DEF LastSent
      <4>2. QED
        BY <2>1, <3>1, <4>1 DEF HasHeard, LastSent
    <3>4. QED
      BY <1>8, <3>2, <3>3 DEF HasHeard
  <2>4. QED
    BY <2>2, <2>3
<1>9. CASE WillHear
  <2>1. PICK m \in Expected : /\ \A i \in OnTime \cup Expected : i <= m
                              /\ wire[m].state = "saved" => behind \/ server = wire[m].body
    BY <1>9 DEF WillHear
  <2>2. m \in DOMAIN wire /\ wire[m].heard /\ ~wire[m].late /\ m \in Nat
    BY WireIs DEF Expected
  \* Nothing that counts was sent after the last one.
  <2>3. CASE wire[k].heard /\ (m = k \/ m < k)
    <3>1. /\ lastSaved' = wire[k].body /\ misled' = wire[k].late
          /\ \A i \in DOMAIN wire' : wire'[i].late <=> (wire[Old(k, i)].late \/ Old(k, i) < k)
      BY <1>4, <2>3
    <3>2. \A j \in OnTime \cup Expected : j # k => j < k
      BY <1>1, <2>1, <2>2, <2>3, WireIs, OnTimeOnWire DEF Expected
    <3>3. Expected' = {}
      BY <1>1, <1>6, <3>1, <3>2 DEF Expected
    <3>4. OnTime' = {}
      BY <1>1, <1>7, <3>1, <3>2 DEF OnTime
    <3>5. CASE m = k
      BY <1>2, <1>3, <2>1, <3>1, <3>3, <3>4, <3>5 DEF HasHeard
    <3>6. CASE m < k
      <4>1. k \notin Expected
        BY <1>1, <2>1, <2>2, <3>6
      <4>2. misled'
        BY <2>3, <3>1, <4>1 DEF Expected
      <4>3. QED
        BY <3>3, <4>2 DEF HasHeard
    <3>7. QED
      BY <2>3, <3>5, <3>6
  <2>4. CASE ~(wire[k].heard /\ (m = k \/ m < k))
    <3>1. m # k
      BY <2>2, <2>4
    <3>2. PICK i \in DOMAIN wire' : Old(k, i) = m
      BY <1>1, <2>2, <3>1
    <3>3. i \in Expected'
      BY <1>1, <1>4, <2>2, <2>4, <3>2 DEF Expected
    <3>4. wire'[i].state = "saved" => behind' \/ server' = wire'[i].body
      BY <1>1, <1>3, <2>1, <3>2
    <3>5. ASSUME NEW j \in OnTime' \cup Expected' PROVE j <= i
      <4>1. j \in DOMAIN wire' /\ Old(k, j) \in OnTime \cup Expected
        BY <1>6, <1>7
      <4>2. Old(k, j) <= m
        BY <2>1, <4>1
      <4>3. ~(i < j)
        BY <1>1, <2>2, <3>2, <4>1, <4>2
      <4>4. QED
        BY <1>1, <4>1, <4>3
    <3>6. QED
      BY <3>3, <3>4, <3>5 DEF WillHear
  <2>5. QED
    BY <2>3, <2>4
<1>10. QED
  BY <1>8, <1>9

LEMMA FollowedStep ==
  ASSUME TypeOK, Waits, InOrder, Known, Awaited, Loading, NoneFailed, Followed, [Next]_vars
  PROVE  Followed'
<1> SUFFICES ASSUME InTouch', faults' = 0, timer' = None PROVE Followed'
  BY DEF Followed
<1>1. /\ load'.at = "done" /\ refresh' = None /\ unseen' = {} /\ lost' = {}
      /\ faults = 0 /\ store \in Snapshot /\ store # None
  BY FaultsBefore, NoneIsApart DEF InTouch, TypeOK
<1>2. CASE UNCHANGED <<server, load, timer, lastSaved, wire, refresh, behind, misled, unseen, lost>>
  BY <1>1, <1>2 DEF InTouch, Followed, WillHear, HasHeard, Expected, LastSent, OnTime, Unserved
<1>3. CASE UNCHANGED vars
  BY <1>2, <1>3 DEF vars, courses, order
<1>4. CASE (\E s \in Steps : Study(s)) \/ Touch \/ Reset
  <2>1. UNCHANGED <<server, load, lastSaved, wire, refresh, behind, misled, unseen, lost>>
    BY <1>4 DEF Study, Touch, Reset, courses, order
  <2>2. \E next \in Snapshot : Change(next)
    <3>1. \A s \in Steps : [store EXCEPT !.steps = @ \cup {s}] \in Snapshot
      BY <1>1 DEF Snapshot
    <3>2. Fresh(Seed) \in Snapshot
      BY DEF Fresh, Snapshot
    <3>3. QED
      BY <1>1, <1>4, <3>1, <3>2 DEF Study, Touch, Reset
  <2>3. timer' = timer
    BY <1>1, <2>2, ChangeEffect, NoneIsApart
  <2>4. QED
    BY <1>2, <2>1, <2>3
<1>5. CASE Reload \/ LoadRead
  BY <1>1, <1>5 DEF Reload, LoadRead, Asked
<1>6. CASE LoadApply
  <2>1. /\ load.at = "read" /\ lastSaved' \in {load.body, None}
        /\ UNCHANGED <<server, wire, behind, unseen>>
    BY <1>6 DEF LoadApply, courses
  <2>2. OnTime' = {} /\ Expected' = {} /\ (behind' \/ server' = load.body)
    BY <1>1, <2>1 DEF Loading, Unheard, OnTime, Expected, Unserved
  <2>3. QED
    BY <2>1, <2>2 DEF Followed, HasHeard
<1>7. CASE LoadSeed
  <2>1. load.at = "read" /\ Send(store, FALSE) /\ lastSaved' = store /\ store' = store
    BY <1>7 DEF LoadSeed
  <2> DEFINE n == Len(wire) + 1
  <2>2. /\ \A i \in DOMAIN wire' : i \in DOMAIN wire \/ i = n
        /\ \A i \in DOMAIN wire : wire'[i] = wire[i]
        /\ wire'[n] = [body |-> store, state |-> "sent", heard |-> FALSE, late |-> FALSE]
    BY <1>1, <2>1, WireSent
  <2> HIDE DEF n
  <2>3. Expected' = {}
    BY <2>1, <2>2 DEF Loading, Unheard, Expected
  <2>4. OnTime' # {} /\ LastSent(lastSaved)'
    BY <1>1, <2>1, JustSent DEF LastSent
  <2>5. QED
    BY <2>3, <2>4 DEF Followed, HasHeard
<1>8. CASE LoadFail
  <2>1. faults + 1 # 0
    BY <1>1
  <2>2. QED
    BY <1>1, <1>8, <2>1 DEF LoadFail, Fault
<1>9. CASE Fire
  <2>1. timer \in Snapshot /\ Send(timer, TRUE)
    BY <1>9 DEF Fire, TypeOK
  <2> DEFINE n == Len(wire) + 1
  <2>2. /\ \A i \in DOMAIN wire' : i \in DOMAIN wire \/ i = n
        /\ \A i \in DOMAIN wire : i \in Nat /\ i < n
        /\ n \in DOMAIN wire' /\ n \in Nat
        /\ wire'[n] = [body |-> timer, state |-> "sent", heard |-> TRUE, late |-> FALSE]
        /\ OnTime' = OnTime \cup {n}
    <3>1. PICK b \in Snapshot, h \in BOOLEAN : Send(b, h) /\ b = timer /\ h = TRUE
      BY <2>1
    <3>2. /\ \A i \in DOMAIN wire' : i \in DOMAIN wire \/ i = n
          /\ \A i \in DOMAIN wire : i < n
          /\ n \in DOMAIN wire'
          /\ wire'[n] = [body |-> b, state |-> "sent", heard |-> h, late |-> FALSE]
          /\ OnTime' = OnTime \cup {n}
      BY <3>1, WireSent
    <3>3. QED
      BY <3>1, <3>2, WireIs
  <2> HIDE DEF n
  <2>3. n \in Expected' /\ wire'[n].state = "sent"
    BY <2>2 DEF Expected
  <2>4. \A i \in OnTime' \cup Expected' : i <= n
    BY <2>2, OnTimeOnWire DEF Expected
  <2>5. QED
    BY <2>3, <2>4 DEF Followed, WillHear
<1>10. ASSUME NEW k \in DOMAIN wire, Serve(k) PROVE Followed'
  <2>1. UNCHANGED <<load, timer, refresh, unseen>> /\ lost \subseteq lost'
    BY <1>10 DEF Serve
  <2>2. InTouch /\ timer = None
    BY <1>1, <2>1 DEF InTouch
  <2>3. QED
    BY <1>1, <1>10, <2>2, FollowedServed DEF Followed
<1>11. ASSUME NEW k \in DOMAIN wire, Answer(k) PROVE Followed'
  <2>1. UNCHANGED <<load, timer, refresh, unseen, lost>> /\ wire[k].state # "failed"
    BY <1>1, <1>11 DEF Answer, courses, NoneFailed
  <2>2. InTouch /\ timer = None
    BY <2>1 DEF InTouch
  <2>3. QED
    BY <1>1, <1>11, <2>1, <2>2, FollowedAnswered DEF Followed
<1>12. ASSUME NEW c \in Published, Commit(c) PROVE FALSE
  BY <1>1, <1>12 DEF Commit
<1>13. CASE RefreshRead
  <2>1. unseen # {} /\ lost = {} /\ refresh' = server
    BY <1>1, <1>13 DEF RefreshRead
  <2>2. QED
    BY <1>1, <2>1 DEF Known
<1>14. CASE RefreshApply
  <2>1. lost = {} /\ refresh # None /\ Change(Fresh(refresh.course)) /\ lastSaved' = lastSaved
    BY <1>1, <1>14 DEF RefreshApply, courses
  <2>2. Fresh(refresh.course) \in Snapshot /\ store' = Fresh(refresh.course)
    BY <2>1 DEF Fresh, Snapshot, TypeOK, Change
  <2>3. store' # lastSaved /\ store' # None
    BY <1>14, <2>1, <2>2, NewStoreIsUnsaved, NoneIsApart
  <2>4. load.at = "done"
    BY <2>1 DEF Awaited
  <2>5. timer' # None
    BY <2>1, <2>2, <2>3, <2>4 DEF Change, Schedule
  <2>6. QED
    BY <2>5
<1>15. QED
  BY <1>3, <1>4, <1>5, <1>6, <1>7, <1>8, <1>9, <1>10, <1>11, <1>12, <1>13, <1>14 DEF Next

LEMMA NothingUnnoticed ==
  ASSUME TypeOK, NoticeInv, Idle, server \notin {None, store}, unseen = {}, lost = {},
         ~behind, resets = 0 \/ (faults = 0 /\ ~misled)
  PROVE  lastSaved # store
<1>1. InTouch /\ timer = None /\ wire = <<>> /\ store # None
  BY NoneIsApart DEF Idle, InTouch, TypeOK
<1>2. Expected = {} /\ OnTime = {}
  BY <1>1 DEF OnTime, Unserved, Expected
<1>3. CASE resets = 0
  BY <1>1, <1>3 DEF NoticeInv, Unmistaken
<1>4. CASE faults = 0 /\ ~misled
  BY <1>1, <1>2, <1>4 DEF NoticeInv, Followed, WillHear, HasHeard
<1>5. QED
  BY <1>3, <1>4

\* A page with nothing under way that differs from the server does not believe that its
\* snapshot is saved, in whatever order requests are served and answered and whatever failed,
\* or whatever was reset, unless the server took a late save last or, after a reset, the page
\* last heard a late answer.
THEOREM UnsavedPageNotices == Spec => []UnsavedIsNoticed
<1>1. SyncInv /\ NoticeInv => UnsavedIsNoticed
  BY NothingUnnoticed DEF SyncInv, UnsavedIsNoticed
<1>2. SyncInv /\ NoticeInv /\ [Next]_vars => (SyncInv /\ NoticeInv)'
  BY TypeStep, WaitsStep, InOrderStep, KnownStep, AwaitedStep, AgreeStep, LoadingStep, NoneFailedStep,
     UnmistakenStep, FollowedStep DEF SyncInv, NoticeInv
<1>3. Init => SyncInv /\ NoticeInv
  BY SyncInvInit, NoticeInit
<1>4. QED
  BY <1>1, <1>2, <1>3, PTL DEF Spec
=============================================================================
