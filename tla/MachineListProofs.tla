------------------------- MODULE MachineListProofs -------------------------
(***************************************************************************)
(* Saves are not lost, and a machine lands where the rail says, for any    *)
(* list, any edits and any number of stops.  The argument for the saves is *)
(* the queue of secure-store calls: its last one carries the list on the   *)
(* screen, and the versions in it ascend above all that was answered.  The *)
(* moves are right because no two machines of a list share an id or an     *)
(* address, whatever the edits before.                                     *)
(*                                                                         *)
(* What is shown of the sessions is whole and agrees, for any lists and    *)
(* boards: sorting gives each place once, in order (RankedFacts), so that  *)
(* a column has each session under one header, and a lane has as many rows *)
(* as the badges of the machines add up to.                                *)
(***************************************************************************)
EXTENDS SessionLists, SequenceTheorems, FiniteSetTheorems, WellFoundedInduction, TLAPS

\* Appending keeps the older positions and adds one.
LEMMA AppendFacts ==
  ASSUME NEW S, NEW q \in Seq(S), NEW e
  PROVE  /\ Append(q, e) \in Seq(S \cup {e})
         /\ Len(q) \in Nat /\ Len(Append(q, e)) = Len(q) + 1
         /\ Append(q, e) # <<>> /\ Append(q, e)[Len(Append(q, e))] = e
         /\ DOMAIN q = 1..Len(q) /\ DOMAIN Append(q, e) = DOMAIN q \cup {Len(q) + 1}
         /\ Append(q, e)[Len(q) + 1] = e /\ \A k \in DOMAIN q : Append(q, e)[k] = q[k]
<1>1. q \in Seq(S \cup {e}) /\ e \in S \cup {e}
  OBVIOUS
<1>2. QED
  BY <1>1

\* Taking the head moves the rest by one place, and the last element stays the last.
LEMMA TailFacts ==
  ASSUME NEW S, NEW q \in Seq(S), q # <<>>
  PROVE  /\ Tail(q) \in Seq(S) /\ Head(q) = q[1]
         /\ Len(q) \in Nat \ {0} /\ Len(Tail(q)) = Len(q) - 1
         /\ DOMAIN q = 1..Len(q) /\ DOMAIN Tail(q) = 1..Len(q) - 1
         /\ \A k \in DOMAIN Tail(q) : k + 1 \in DOMAIN q /\ Tail(q)[k] = q[k + 1]
         /\ Tail(q) # <<>> => Tail(q)[Len(Tail(q))] = q[Len(q)]
         /\ Tail(q) = <<>> => Len(q) = 1
<1>1. Len(q) \in Nat \ {0} /\ DOMAIN q = 1..Len(q) /\ Head(q) = q[1]
  OBVIOUS
<1>2. /\ Tail(q) \in Seq(S) /\ Len(Tail(q)) = Len(q) - 1
      /\ \A k \in 1..Len(q) - 1 : Tail(q)[k] = q[k + 1]
  OBVIOUS
<1>3. DOMAIN Tail(q) = 1..Len(q) - 1
  BY <1>1, <1>2
<1>4. Tail(q) # <<>> => Len(q) - 1 \in 1..Len(q) - 1
  BY <1>1, <1>2
<1>5. Tail(q) = <<>> => Len(q) = 1
  BY <1>1, <1>2, EmptySeq
<1>6. QED
  BY <1>1, <1>2, <1>3, <1>4, <1>5

----------------------------------------------------------------------------
(* The saves *)

Queues == \E S, T : sets \in Seq(S) /\ replies \in Seq(T)

\* Only a page that has the list edits it, and its last save is the list it shows.
LastSaveIsShown ==
  /\ keychain \in BOOLEAN
  /\ sets # <<>> => window = "ready" /\ sets[Len(sets)].list = machines

\* What was answered is at most on disk, and below all that is still to be written.
Versions ==
  /\ edits \in Nat /\ acked \in 0..edits
  /\ disk.tag = "value" => disk.version \in Nat /\ acked <= disk.version
  /\ \A k \in DOMAIN sets :
       /\ sets[k].version \in 0..edits /\ acked <= sets[k].version
       /\ \A l \in DOMAIN sets : k < l => sets[k].version <= sets[l].version
  /\ \A k \in DOMAIN replies :
       replies[k].ok =>
         /\ replies[k].version \in 0..edits
         /\ disk.tag = "value" => replies[k].version <= disk.version
         /\ \A l \in DOMAIN sets : replies[k].version <= sets[l].version

IInv == Queues /\ LastSaveIsShown /\ Versions /\ DiskIsShown

\* What the invariant is about.
Watched == <<keychain, disk, window, sets, replies, machines, edits, acked, unsaved>>

LEMMA ListInit == Init => IInv
<1> SUFFICES ASSUME Init PROVE IInv
  OBVIOUS
<1>1. Queues
  <2>1. <<>> \in Seq({})
    OBVIOUS
  <2>2. QED
    BY <2>1 DEF Init, Queues
<1>2. LastSaveIsShown /\ DiskIsShown
  BY DEF Init, LastSaveIsShown, DiskIsShown
<1>3. Versions
  BY DEF Init, Versions, Value
<1>4. QED
  BY <1>1, <1>2, <1>3 DEF IInv

\* A step that leaves alone what the invariant is about keeps it.
LEMMA ListStutter == IInv /\ UNCHANGED Watched => IInv'
  BY DEF IInv, Queues, LastSaveIsShown, Versions, DiskIsShown, Decoded, Watched

\* Every edit appends a save of what it made of the list.
LEMMA ListEdit ==
  ASSUME IInv, Edits PROVE IInv'
<1>1. /\ window = "ready" /\ edits' = edits + 1
      /\ UNCHANGED <<keychain, disk, window, replies, acked, unsaved>>
  BY DEF Edits, SubmitForm, PairLink, AddMachine, RemoveMachine, ReorderMachine, Edit, EditOnly, storage
<1>2. PICK added : Save(machines', added)
  BY DEF Edits, SubmitForm, PairLink, AddMachine, RemoveMachine, ReorderMachine
<1>3. PICK S, T : sets \in Seq(S) /\ replies \in Seq(T)
  BY DEF IInv, Queues
<1> DEFINE call == [list |-> machines', version |-> edits + 1, added |-> added]
<1>4. sets' = Append(sets, call)
  BY <1>2 DEF Save
<1>5. /\ sets' \in Seq(S \cup {call}) /\ sets' # <<>> /\ sets'[Len(sets')] = call
      /\ Len(sets) \in Nat /\ DOMAIN sets = 1..Len(sets)
      /\ DOMAIN sets' = DOMAIN sets \cup {Len(sets) + 1}
      /\ sets'[Len(sets) + 1] = call /\ \A k \in DOMAIN sets : sets'[k] = sets[k]
  <2> HIDE DEF call
  <2>1. QED
    BY <1>3, <1>4, AppendFacts
<1>6. Queues'
  BY <1>1, <1>3, <1>5 DEF Queues
<1>7. LastSaveIsShown' /\ DiskIsShown'
  BY <1>1, <1>5 DEF IInv, LastSaveIsShown, DiskIsShown
<1>8. Versions'
  <2> USE DEF IInv, Versions
  <2>1. edits' \in Nat /\ acked' \in 0..edits' /\ edits' = edits + 1 /\ call.version = edits'
    BY <1>1
  <2>2. (disk.tag = "value" => disk.version \in Nat /\ acked <= disk.version)'
    BY <1>1
  <2>3. ASSUME NEW k \in DOMAIN sets'
        PROVE  /\ sets'[k].version \in 0..edits' /\ acked' <= sets'[k].version
               /\ \A l \in DOMAIN sets' : k < l => sets'[k].version <= sets'[l].version
    <3>1. CASE k \in DOMAIN sets
      <4>1. sets'[k] = sets[k] /\ sets[k].version \in 0..edits /\ acked <= sets[k].version
        BY <3>1, <1>5
      <4>2. ASSUME NEW l \in DOMAIN sets', k < l PROVE sets'[k].version <= sets'[l].version
        BY <4>1, <4>2, <3>1, <2>1, <1>5
      <4>3. QED
        BY <4>1, <4>2, <2>1, <1>1
    <3>2. CASE k = Len(sets) + 1
      BY <3>2, <2>1, <1>1, <1>5
    <3>3. QED
      BY <3>1, <3>2, <1>5
  <2>4. ASSUME NEW k \in DOMAIN replies', replies'[k].ok
        PROVE  /\ replies'[k].version \in 0..edits'
               /\ disk'.tag = "value" => replies'[k].version <= disk'.version
               /\ \A l \in DOMAIN sets' : replies'[k].version <= sets'[l].version
    <3>1. k \in DOMAIN replies /\ replies[k].ok /\ replies'[k] = replies[k]
      BY <2>4, <1>1
    <3>2. ASSUME NEW l \in DOMAIN sets' PROVE replies'[k].version <= sets'[l].version
      BY <3>1, <2>1, <1>5
    <3>3. QED
      BY <3>1, <3>2, <2>1, <1>1
  <2>5. QED
    BY <2>1, <2>2, <2>3, <2>4
<1>9. QED
  BY <1>6, <1>7, <1>8 DEF IInv

\* The main process writes the head of the queue, or fails to.
LEMMA ListHandled ==
  ASSUME IInv, MainSets \/ MainSetFails PROVE IInv'
<1>1. /\ sets # <<>> /\ sets' = Tail(sets)
      /\ UNCHANGED <<keychain, window, machines, edits, acked>>
  BY DEF MainSets, MainSetFails, MainOnly
<1>2. PICK ok : /\ ok \in BOOLEAN /\ replies' = Append(replies, Reply(Head(sets), ok))
                /\ ok => disk' = Value(Head(sets).list, Head(sets).version, keychain)
                /\ ~ok => disk' \in {disk, Torn} /\ unsaved'
  BY DEF MainSets, MainSetFails
<1>3. PICK S, T : sets \in Seq(S) /\ replies \in Seq(T)
  BY DEF IInv, Queues
<1>4. /\ sets' \in Seq(S) /\ Head(sets) = sets[1]
      /\ Len(sets) \in Nat \ {0}
      /\ DOMAIN sets = 1..Len(sets) /\ DOMAIN sets' = 1..Len(sets) - 1
      /\ \A k \in DOMAIN sets' : k + 1 \in DOMAIN sets /\ sets'[k] = sets[k + 1]
      /\ sets' # <<>> => sets'[Len(sets')] = sets[Len(sets)]
      /\ sets' = <<>> => Len(sets) = 1
  BY <1>1, <1>3, TailFacts
<1> DEFINE r == Reply(Head(sets), ok)
<1>5. /\ replies' \in Seq(T \cup {r})
      /\ DOMAIN replies' = DOMAIN replies \cup {Len(replies) + 1}
      /\ replies'[Len(replies) + 1] = r
      /\ \A k \in DOMAIN replies : replies'[k] = replies[k]
  <2> HIDE DEF r
  <2>1. QED
    BY <1>2, <1>3, AppendFacts DEF r
<1>6. Queues'
  BY <1>4, <1>5 DEF Queues
<1>7. LastSaveIsShown'
  BY <1>1, <1>4 DEF IInv, LastSaveIsShown
<1>8. DiskIsShown'
  <2> SUFFICES ASSUME window' = "ready", sets' = <<>>, ~unsaved' PROVE Decoded(disk)' = machines'
    BY DEF DiskIsShown
  <2>1. ok /\ disk' = Value(sets[1].list, sets[1].version, keychain) /\ Len(sets) = 1
    BY <1>2, <1>4
  <2>2. sets[1].list = machines /\ keychain' = keychain
    BY <2>1, <1>1 DEF IInv, LastSaveIsShown
  <2>3. QED
    BY <2>1, <2>2, <1>1 DEF Decoded, Value
<1>9. Versions'
  <2> USE DEF IInv, Versions
  <2>1. /\ 1 \in DOMAIN sets /\ sets[1].version \in 0..edits /\ acked <= sets[1].version
        /\ \A l \in DOMAIN sets : sets[1].version <= sets[l].version
    BY <1>4
  <2>2. /\ disk'.tag = "value" => disk'.version \in Nat /\ acked <= disk'.version
        /\ ok => disk'.version = sets[1].version
        /\ ~ok /\ disk'.tag = "value" => disk' = disk
    BY <2>1, <1>2, <1>4 DEF Value, Torn
  <2>3. ASSUME NEW k \in DOMAIN sets'
        PROVE  /\ sets'[k].version \in 0..edits' /\ acked' <= sets'[k].version
               /\ \A l \in DOMAIN sets' : k < l => sets'[k].version <= sets'[l].version
    BY <1>1, <1>4
  <2>4. ASSUME NEW k \in DOMAIN replies', replies'[k].ok
        PROVE  /\ replies'[k].version \in 0..edits'
               /\ disk'.tag = "value" => replies'[k].version <= disk'.version
               /\ \A l \in DOMAIN sets' : replies'[k].version <= sets'[l].version
    <3>1. CASE k \in DOMAIN replies
      <4>1. replies'[k] = replies[k] /\ replies[k].ok
        BY <3>1, <2>4, <1>5
      <4>2. replies[k].version \in 0..edits /\ replies[k].version <= sets[1].version
        BY <3>1, <4>1, <2>1
      <4>3. disk'.tag = "value" => replies[k].version <= disk'.version
        BY <3>1, <4>1, <4>2, <2>2
      <4>4. \A l \in DOMAIN sets' : replies[k].version <= sets'[l].version
        BY <3>1, <4>1, <1>4
      <4>5. QED
        BY <4>1, <4>2, <4>3, <4>4, <1>1
    <3>2. CASE k = Len(replies) + 1
      <4>1. replies'[k].version = sets[1].version /\ ok
        BY <3>2, <2>4, <1>4, <1>5 DEF Reply
      <4>2. \A l \in DOMAIN sets' : sets[1].version <= sets'[l].version
        BY <2>1, <1>4
      <4>3. QED
        BY <4>1, <4>2, <2>1, <2>2, <1>1
    <3>3. QED
      BY <3>1, <3>2, <1>5
  <2>5. QED
    BY <2>2, <2>3, <2>4, <1>1
<1>10. QED
  BY <1>6, <1>7, <1>8, <1>9 DEF IInv

\* The page takes the answer of its oldest save.
LEMMA ListAnswered ==
  ASSUME IInv, SaveAnswered PROVE IInv'
<1>1. /\ replies # <<>> /\ replies' = Tail(replies)
      /\ acked' = IF Head(replies).ok THEN Head(replies).version ELSE acked
      /\ UNCHANGED <<keychain, disk, window, sets, machines, edits, unsaved>>
  BY DEF SaveAnswered, storage
<1>2. PICK S, T : sets \in Seq(S) /\ replies \in Seq(T)
  BY DEF IInv, Queues
<1>3. /\ replies' \in Seq(T) /\ Head(replies) = replies[1] /\ 1 \in DOMAIN replies
      /\ \A k \in DOMAIN replies' : k + 1 \in DOMAIN replies /\ replies'[k] = replies[k + 1]
  BY <1>1, <1>2, TailFacts
<1>4. Queues' /\ LastSaveIsShown' /\ DiskIsShown'
  BY <1>1, <1>2, <1>3 DEF IInv, Queues, LastSaveIsShown, DiskIsShown, Decoded
<1>5. Versions'
  BY <1>1, <1>3 DEF IInv, Versions
<1>6. QED
  BY <1>4, <1>5 DEF IInv

\* The page loads the list; it stops and forgets everything; it starts.
LEMMA ListLifecycle ==
  ASSUME IInv, Loaded \/ Stops \/ Starts PROVE IInv'
<1>1. CASE Loaded
  <2>1. /\ window = "loading" /\ machines' = Decoded(disk)
        /\ UNCHANGED <<keychain, disk, sets, replies, edits, acked>>
    BY <1>1 DEF Loaded, storage, ipc
  <2>2. sets = <<>>
    BY <2>1 DEF IInv, LastSaveIsShown
  <2>3. QED
    BY <2>1, <2>2 DEF IInv, Queues, LastSaveIsShown, DiskIsShown, Versions, Decoded
<1>2. CASE Stops
  <2>1. /\ window' = "closed" /\ disk' \in {disk, Torn} /\ sets' = <<>> /\ replies' = <<>>
        /\ UNCHANGED <<keychain, edits, acked>>
    BY <1>2 DEF Stops
  <2>2. <<>> \in Seq({}) /\ DOMAIN <<>> = {}
    OBVIOUS
  <2>3. QED
    BY <2>1, <2>2 DEF IInv, Queues, LastSaveIsShown, DiskIsShown, Versions, Torn
<1>3. CASE Starts
  <2>1. /\ window = "closed" /\ window' = "loading" /\ keychain' \in BOOLEAN
        /\ UNCHANGED <<disk, sets, replies, edits, acked>>
    BY <1>3 DEF Starts, ipc
  <2>2. QED
    BY <2>1 DEF IInv, Queues, LastSaveIsShown, DiskIsShown, Versions
<1>4. QED
  BY <1>1, <1>2, <1>3

LEMMA ListStep == IInv /\ [Next]_vars => IInv'
<1> SUFFICES ASSUME IInv, [Next]_vars PROVE IInv'
  OBVIOUS
<1>1. CASE Edits
  BY <1>1, ListEdit
<1>2. ASSUME NEW id \in Ids, OpenMachine(id) PROVE IInv'
  BY <1>2, ListStutter DEF OpenMachine, FlightOnly, storage, ipc, Watched
<1>3. ASSUME NEW slot \in 1..MaxFlights, FlightOf(slot) PROVE IInv'
  BY <1>3, ListStutter
     DEF FlightOf, Flight, InfoAnswered, SessionsAnswered, RequestFails, RefreshEnds,
         FlightOnly, storage, ipc, Watched
<1>4. CASE RefreshAll
  BY <1>4, ListStutter DEF RefreshAll, FlightOnly, storage, ipc, Watched
<1>5. CASE MainSets \/ MainSetFails
  BY <1>5, ListHandled
<1>6. CASE SaveAnswered
  BY <1>6, ListAnswered
<1>7. CASE Loaded \/ Stops \/ Starts
  BY <1>7, ListLifecycle
<1>8. ASSUME NEW u \in Urls, DaemonChanges(u) PROVE IInv'
  BY <1>8, ListStutter DEF DaemonChanges, storage, ipc, Watched
<1>9. CASE UNCHANGED vars
  BY <1>9, ListStutter DEF vars, storage, ipc, Watched
<1>10. QED
  BY <1>1, <1>2, <1>3, <1>4, <1>5, <1>6, <1>7, <1>8, <1>9 DEF Next

\* No edit is lost to the saves of the edits around it: once they are handled and the
\* last one succeeded, the disk holds the list on the screen (store.ts 283, 295, 308).
THEOREM DiskStaysShown == Spec => []DiskIsShown
<1>1. IInv => DiskIsShown
  BY DEF IInv
<1>2. QED
  BY ListInit, ListStep, <1>1, PTL DEF Spec

\* An edit that was answered stays on disk, or a later one does, whatever stops
\* (main.ts 60-69, 111-137).
THEOREM SavedListStays == Spec => []SavedListSurvives
<1>1. IInv => SavedListSurvives
  <2> SUFFICES ASSUME IInv, disk.tag = "value" PROVE disk.version >= acked
    BY DEF SavedListSurvives
  <2>1. disk.version \in Nat /\ acked \in Int /\ acked <= disk.version
    BY DEF IInv, Versions
  <2>2. QED
    BY <2>1
<1>2. QED
  BY ListInit, ListStep, <1>1, PTL DEF Spec

----------------------------------------------------------------------------
(* The order *)

\* A concatenation has the elements of the one, then those of the other.
LEMMA ConcatAt ==
  ASSUME NEW S, NEW a \in Seq(S), NEW b \in Seq(S)
  PROVE  /\ a \o b \in Seq(S) /\ Len(a \o b) = Len(a) + Len(b)
         /\ \A k \in 1..Len(a) : (a \o b)[k] = a[k]
         /\ \A k \in 1..Len(b) : (a \o b)[Len(a) + k] = b[k]
<1>1. /\ a \o b \in Seq(S) /\ Len(a \o b) = Len(a) + Len(b)
      /\ Len(a) \in Nat /\ Len(b) \in Nat
      /\ \A k \in 1..Len(a) + Len(b) :
           (a \o b)[k] = IF k <= Len(a) THEN a[k] ELSE b[k - Len(a)]
  BY ConcatProperties
<1>2. ASSUME NEW k \in 1..Len(b) PROVE (a \o b)[Len(a) + k] = b[k]
  <2>1. /\ Len(a) + k \in 1..Len(a) + Len(b)
        /\ ~(Len(a) + k <= Len(a)) /\ Len(a) + k - Len(a) = k
    BY <1>1
  <2>2. QED
    BY <1>1, <2>1
<1>3. ASSUME NEW k \in 1..Len(a) PROVE (a \o b)[k] = a[k]
  <2>1. k \in 1..Len(a) + Len(b) /\ k <= Len(a)
    BY <1>1
  <2>2. QED
    BY <1>1, <2>1
<1>4. QED
  BY <1>1, <1>2, <1>3

\* A list without its i-th machine.
LEMMA WithoutFacts ==
  ASSUME NEW S, NEW list \in Seq(S), NEW i \in DOMAIN list
  PROVE  LET n == Len(list)
             rest == RemoveAt(list, i)
         IN  /\ rest \in Seq(S) /\ Len(rest) = n - 1
             /\ \A k \in 1..n - 1 : rest[k] = IF k < i THEN list[k] ELSE list[k + 1]
<1> DEFINE n == Len(list)
           rest == RemoveAt(list, i)
<1>0. /\ n \in Nat /\ DOMAIN list = 1..n /\ i \in 1..n /\ \A l \in 1..n : list[l] \in S
  OBVIOUS
<1> DEFINE a == SubSeq(list, 1, i - 1)
           b == SubSeq(list, i + 1, n)
<1>1. /\ a \in Seq(S) /\ Len(a) = i - 1 /\ \A k \in 1..i - 1 : a[k] = list[k]
  BY <1>0
<1>2. /\ b \in Seq(S) /\ Len(b) = n - i /\ \A k \in 1..n - i : b[k] = list[k + i]
  BY <1>0
<1>3. rest = a \o b
  BY DEF RemoveAt
<1> HIDE DEF rest, a, b
<1>4. i - 1 \in Nat /\ n - i \in Nat /\ i - 1 + (n - i) = n - 1
  BY <1>0
<1>5. /\ rest \in Seq(S) /\ Len(rest) = n - 1
      /\ \A k \in 1..i - 1 : rest[k] = a[k]
      /\ \A k \in 1..n - i : rest[i - 1 + k] = b[k]
  <2>0. a \in Seq(S) /\ b \in Seq(S)
    BY <1>1, <1>2
  <2>1. a \o b \in Seq(S) /\ Len(a \o b) = Len(a) + Len(b)
    BY <2>0, ConcatAt
  <2>2. \A k \in 1..Len(a) : (a \o b)[k] = a[k]
    BY <2>0, ConcatAt
  <2>3. \A k \in 1..Len(b) : (a \o b)[Len(a) + k] = b[k]
    BY <2>0, ConcatAt
  <2>4. QED
    BY <2>1, <2>2, <2>3, <1>1, <1>2, <1>3, <1>4
<1>6. ASSUME NEW k \in 1..n - 1 PROVE rest[k] = IF k < i THEN list[k] ELSE list[k + 1]
  <2>1. CASE k < i
    <3>1. k \in 1..i - 1
      BY <2>1, <1>0
    <3>2. QED
      BY <2>1, <3>1, <1>1, <1>5
  <2>2. CASE ~(k < i)
    <3>1. PICK h \in 1..n - i : k = i - 1 + h /\ k + 1 = h + i
      <4>1. k - (i - 1) \in 1..n - i /\ k = i - 1 + (k - (i - 1)) /\ k + 1 = k - (i - 1) + i
        BY <2>2, <1>0
      <4>2. QED
        BY <4>1
    <3>2. rest[k] = b[h] /\ b[h] = list[k + 1]
      BY <3>1, <1>2, <1>5
    <3>3. QED
      BY <2>2, <3>2
  <2>3. QED
    BY <2>1, <2>2
<1>7. QED
  BY <1>5, <1>6 DEF rest

\* moved has what list has, each once, and its i-th at place t.
Rearranged(moved, list, i, t) ==
  /\ DOMAIN moved = DOMAIN list
  /\ \E from \in [DOMAIN list -> DOMAIN list] :
       /\ from[t] = i /\ \A k \in DOMAIN list : moved[k] = list[from[k]]
       /\ \A k, l \in DOMAIN list : k # l => from[k] # from[l]

\* Where each machine goes: out of its place, then in at place t of the rest.
LEMMA MovedTo ==
  ASSUME NEW S, NEW list \in Seq(S), NEW i \in DOMAIN list, NEW t \in DOMAIN list
  PROVE  LET moved == InsertAt(RemoveAt(list, i), t, list[i])
         IN  moved \in Seq(S) /\ Rearranged(moved, list, i, t)
<1> DEFINE n == Len(list)
           rest == RemoveAt(list, i)
           moved == InsertAt(rest, t, list[i])
<1>1. /\ n \in Nat /\ DOMAIN list = 1..n /\ i \in 1..n /\ t \in 1..n /\ list[i] \in S
      /\ \A l \in 1..n : list[l] \in S
  OBVIOUS
<1>2. /\ rest \in Seq(S) /\ Len(rest) = n - 1
      /\ \A k \in 1..n - 1 : rest[k] = IF k < i THEN list[k] ELSE list[k + 1]
  BY WithoutFacts
<1> HIDE DEF rest
<1>3. /\ moved \in Seq(S) /\ Len(moved) = n /\ DOMAIN moved = 1..n
      /\ \A k \in 1..n : moved[k] = IF k < t THEN rest[k] ELSE IF k = t THEN list[i] ELSE rest[k - 1]
  <2> DEFINE a == SubSeq(rest, 1, t - 1)
             b == SubSeq(rest, t, Len(rest))
             one == <<list[i]>>
  <2>1. /\ a \in Seq(S) /\ Len(a) = t - 1 /\ \A k \in 1..t - 1 : a[k] = rest[k]
    BY <1>1, <1>2
  <2>2. /\ b \in Seq(S) /\ Len(b) = n - t /\ \A k \in 1..n - t : b[k] = rest[k + t - 1]
    BY <1>1, <1>2
  <2>3. moved = (a \o one) \o b
    BY DEF InsertAt
  <2>4. one \in Seq(S) /\ Len(one) = 1 /\ one[1] = list[i]
    BY <1>1
  <2> DEFINE c == a \o one
  <2> HIDE DEF a, b, one, moved
  <2>5. t - 1 \in Nat /\ t - 1 + 1 = t /\ n - t \in Nat /\ t + (n - t) = n /\ t \in Nat
    BY <1>1
  <2>6. /\ c \in Seq(S) /\ Len(c) = t /\ c[t] = list[i]
        /\ \A k \in 1..t - 1 : c[k] = a[k]
    <3>0. a \in Seq(S) /\ one \in Seq(S)
      BY <2>1, <2>4
    <3>1. a \o one \in Seq(S) /\ Len(a \o one) = Len(a) + Len(one)
      BY <3>0, ConcatAt
    <3>2. \A k \in 1..Len(a) : (a \o one)[k] = a[k]
      BY <3>0, ConcatAt
    <3>3. \A k \in 1..Len(one) : (a \o one)[Len(a) + k] = one[k]
      BY <3>0, ConcatAt
    <3>4. Len(a) + 1 = t /\ 1 \in 1..Len(one) /\ 1..Len(a) = 1..t - 1
      BY <2>1, <2>4, <2>5
    <3>5. (a \o one)[t] = list[i]
      BY <3>3, <3>4, <2>4
    <3>6. QED
      BY <3>1, <3>2, <3>4, <3>5, <2>4
  <2>10. moved = c \o b
    BY <2>3
  <2> HIDE DEF c
  <2>7. /\ moved \in Seq(S) /\ Len(moved) = n
        /\ \A k \in 1..t : moved[k] = c[k]
        /\ \A k \in 1..n - t : moved[t + k] = b[k]
    <3>0. c \in Seq(S) /\ b \in Seq(S)
      BY <2>2, <2>6
    <3>1. c \o b \in Seq(S) /\ Len(c \o b) = Len(c) + Len(b)
      BY <3>0, ConcatAt
    <3>2. \A k \in 1..Len(c) : (c \o b)[k] = c[k]
      BY <3>0, ConcatAt
    <3>3. \A k \in 1..Len(b) : (c \o b)[Len(c) + k] = b[k]
      BY <3>0, ConcatAt
    <3>4. QED
      BY <3>1, <3>2, <3>3, <2>2, <2>5, <2>6, <2>10
  <2>8. ASSUME NEW k \in 1..n
        PROVE moved[k] = IF k < t THEN rest[k] ELSE IF k = t THEN list[i] ELSE rest[k - 1]
    <3>1. CASE k < t
      <4>1. k \in 1..t - 1 /\ k \in 1..t
        BY <3>1, <1>1
      <4>2. QED
        BY <3>1, <4>1, <2>1, <2>6, <2>7
    <3>2. CASE k = t
      BY <3>2, <1>1, <2>6, <2>7
    <3>3. CASE k > t
      <4>1. PICK h \in 1..n - t : k = t + h /\ k - 1 = h + t - 1
        <5>1. k - t \in 1..n - t /\ k = t + (k - t) /\ k - 1 = k - t + t - 1
          BY <3>3, <1>1
        <5>2. QED
          BY <5>1
      <4>2. moved[k] = b[h] /\ b[h] = rest[k - 1]
        BY <4>1, <2>2, <2>7
      <4>3. QED
        BY <3>3, <4>2, <1>1
    <3>4. QED
      BY <3>1, <3>2, <3>3, <1>1
  <2>9. QED
    BY <2>7, <2>8
<1> HIDE DEF moved
<1> DEFINE Source(k) == IF k = t THEN i
                        ELSE LET at == IF k < t THEN k ELSE k - 1
                             IN IF at < i THEN at ELSE at + 1
           from == [k \in 1..n |-> Source(k)]
<1>4. ASSUME NEW k \in 1..n PROVE Source(k) \in 1..n
  BY <1>1
<1>5. ASSUME NEW k \in 1..n PROVE moved[k] = list[Source(k)]
  <2>1. CASE k < t
    <3>1. k \in 1..n - 1 /\ moved[k] = rest[k]
      BY <2>1, <1>1, <1>3
    <3>2. QED
      BY <2>1, <3>1, <1>1, <1>2
  <2>2. CASE k > t
    <3>1. k - 1 \in 1..n - 1 /\ moved[k] = rest[k - 1] /\ k - 1 + 1 = k
      BY <2>2, <1>1, <1>3
    <3>2. QED
      BY <2>2, <3>1, <1>1, <1>2
  <2>3. CASE k = t
    BY <2>3, <1>1, <1>3
  <2>4. QED
    BY <2>1, <2>2, <2>3, <1>1
<1>6. ASSUME NEW k \in 1..n, NEW l \in 1..n, k # l PROVE Source(k) # Source(l)
  BY <1>1, <1>6
<1> HIDE DEF Source
<1>7. /\ from \in [DOMAIN list -> DOMAIN list]
      /\ from[t] = Source(t) /\ \A k \in DOMAIN list : moved[k] = list[from[k]]
      /\ \A k, l \in DOMAIN list : k # l => from[k] # from[l]
  BY <1>1, <1>4, <1>5, <1>6
<1>8. Source(t) = i
  BY DEF Source
<1> HIDE DEF from
<1>9. QED
  BY <1>1, <1>3, <1>7, <1>8 DEF moved, rest, Rearranged

\* A machine that differs from the others is found where it was put.
LEMMA PlaceMoved ==
  ASSUME NEW S, NEW list \in Seq(S), NEW i \in DOMAIN list, NEW t \in DOMAIN list,
         \A l \in DOMAIN list \ {i} : list[l] # list[i]
  PROVE  PlaceOf(InsertAt(RemoveAt(list, i), t, list[i]), list[i]) = t
<1> DEFINE moved == InsertAt(RemoveAt(list, i), t, list[i])
<1>0. Rearranged(moved, list, i, t)
  BY MovedTo
<1> HIDE DEF moved
<1>1. /\ DOMAIN moved = DOMAIN list /\ moved[t] = list[i]
      /\ \A k \in DOMAIN list \ {t} : \E l \in DOMAIN list \ {i} : moved[k] = list[l]
  BY <1>0 DEF Rearranged
<1>2. \A k \in DOMAIN moved : moved[k] = list[i] <=> k = t
  BY <1>1
<1>3. PlaceOf(moved, list[i]) = t
  BY <1>1, <1>2 DEF PlaceOf
<1>4. QED
  BY <1>3 DEF moved

\* To move a machine before or after another is to take it out and put it in where the
\* drop announces.
LEMMA ReorderedMoves ==
  ASSUME NEW S, NEW list \in Seq(S),
         NEW i \in DOMAIN list, NEW j \in DOMAIN list \ {i}, NEW p \in {"before", "after"}
  PROVE  LET t == DropAnnounced(i, j, p)
         IN t \in DOMAIN list /\ Reordered(list, i, j, p) = InsertAt(RemoveAt(list, i), t, list[i])
<1> DEFINE t == DropAnnounced(i, j, p)
<1>1. DOMAIN list = 1..Len(list) /\ Len(list) \in Nat /\ i \in 1..Len(list) /\ j \in 1..Len(list) /\ i # j
  OBVIOUS
<1>2. t \in DOMAIN list
  BY <1>1 DEF DropAnnounced
<1>3. Reordered(list, i, j, p) = InsertAt(RemoveAt(list, i), t, list[i])
  <2>1. t = IF p = "after" THEN (IF i < j THEN j - 1 ELSE j) + 1 ELSE (IF i < j THEN j - 1 ELSE j)
    BY <1>1 DEF DropAnnounced
  <2> HIDE DEF t
  <2>2. QED
    BY <1>1, <2>1 DEF Reordered
<1>4. QED
  BY <1>2, <1>3

\* For a list of any length whose machines differ, the place that a drop announces is
\* the one that reorderMachines gives (Rail.tsx 103-122, machineOrder.ts 6-28).
THEOREM DropLandsWhereAnnounced ==
  ASSUME NEW S, NEW list \in Seq(S),
         \A k, l \in DOMAIN list : k # l => list[k] # list[l],
         NEW i \in DOMAIN list, NEW j \in DOMAIN list \ {i}, NEW p \in {"before", "after"}
  PROVE  PlaceOf(Reordered(list, i, j, p), list[i]) = DropAnnounced(i, j, p)
<1> DEFINE t == DropAnnounced(i, j, p)
<1>1. t \in DOMAIN list /\ Reordered(list, i, j, p) = InsertAt(RemoveAt(list, i), t, list[i])
  BY ReorderedMoves
<1> HIDE DEF t
<1>2. PlaceOf(InsertAt(RemoveAt(list, i), t, list[i]), list[i]) = t
  BY <1>1, PlaceMoved
<1>3. QED
  BY <1>1, <1>2 DEF t

\* And so is the one that Alt with an arrow announces (Rail.tsx 45-54).
THEOREM KeyLandsWhereAnnounced ==
  ASSUME NEW S, NEW list \in Seq(S),
         \A k, l \in DOMAIN list : k # l => list[k] # list[l],
         NEW i \in DOMAIN list, NEW d \in {-1, 1}, i + d \in DOMAIN list
  PROVE  PlaceOf(Reordered(list, i, i + d, KeyPlacement(d)), list[i]) = KeyAnnounced(i, d)
<1>1. DOMAIN list = 1..Len(list) /\ i \in Int /\ i + d # i
  OBVIOUS
<1>2. i + d \in DOMAIN list \ {i} /\ KeyPlacement(d) \in {"before", "after"}
  BY <1>1 DEF KeyPlacement
<1>3. DropAnnounced(i, i + d, KeyPlacement(d)) = KeyAnnounced(i, d)
  BY <1>1 DEF DropAnnounced, KeyPlacement, KeyAnnounced
<1>4. QED
  BY <1>2, <1>3, DropLandsWhereAnnounced

----------------------------------------------------------------------------
(* The list *)

Records == [id : Nat, url : Urls, token : Tokens]

\* A list whose machines differ, by id and by address; ids are drawn once.
Proper(list, drawn) ==
  /\ list \in Seq(Records)
  /\ \A k \in DOMAIN list : list[k].id <= Len(FirstList) + drawn
  /\ \A k, l \in DOMAIN list : k # l => list[k].id # list[l].id /\ list[k].url # list[l].url

\* The list on the screen is one, and so is each that is saved or on its way to the disk.
ListsProper ==
  /\ edits \in Nat /\ Proper(machines, edits)
  /\ disk.tag = "value" => Proper(disk.list, edits)
  /\ \A k \in DOMAIN sets : Proper(sets[k].list, edits)

PInv == IInv /\ ListsProper

\* The list the app starts with.
LEMMA FirstListFacts ==
  /\ Len(FirstList) \in Nat /\ FirstList \in Seq(Records)
  /\ Proper(FirstList, 0)
<1>1. FirstList \in Seq(Profiles)
  BY FirstListAssumption
<1>2. Len(FirstList) \in Nat /\ MaxEdits \in Nat /\ DOMAIN FirstList = 1..Len(FirstList)
  BY <1>1, ListBoundsAssumption
<1>3. Profiles \subseteq Records
  <2>1. Ids \subseteq Nat
    BY <1>2 DEF Ids
  <2>2. QED
    BY <2>1 DEF Profiles, Records
<1>4. FirstList \in Seq(Records)
  <2>1. \A i \in 1..Len(FirstList) : FirstList[i] \in Profiles
    BY <1>1
  <2>2. QED
    BY <1>1, <1>2, <1>3, <2>1
<1>5. \A i \in DOMAIN FirstList : FirstList[i].id <= Len(FirstList) + 0
  BY <1>2, FirstListAssumption
<1>6. \A i, j \in DOMAIN FirstList :
        i # j => FirstList[i].id # FirstList[j].id /\ FirstList[i].url # FirstList[j].url
  BY FirstListAssumption
<1>7. QED
  BY <1>2, <1>4, <1>5, <1>6 DEF Proper

LEMMA ProperLater ==
  ASSUME NEW m \in Nat, NEW n \in Nat, m <= n, NEW list, Proper(list, m) PROVE Proper(list, n)
<1>1. Len(FirstList) \in Nat
  BY FirstListFacts
<1>2. ASSUME NEW k \in DOMAIN list PROVE list[k].id <= Len(FirstList) + n
  <2>1. list \in Seq(Records) /\ list[k].id <= Len(FirstList) + m
    BY DEF Proper
  <2>2. list[k] \in Records
    BY <2>1
  <2>3. list[k].id \in Nat
    BY <2>2 DEF Records
  <2>4. QED
    BY <1>1, <2>1, <2>3
<1>3. QED
  BY <1>2 DEF Proper

\* Some machines of a proper list, in any order.
Takes(some, list, from) ==
  /\ \A k \in DOMAIN some : from[k] \in DOMAIN list /\ some[k] = list[from[k]]
  /\ \A k, l \in DOMAIN some : k # l => from[k] # from[l]

LEMMA SomeProper ==
  ASSUME NEW list, NEW n, Proper(list, n), NEW some \in Seq(Records), NEW from, Takes(some, list, from)
  PROVE  Proper(some, n)
<1> USE DEF Takes
<1>1. ASSUME NEW k \in DOMAIN some PROVE from[k] \in DOMAIN list /\ some[k].id <= Len(FirstList) + n
  BY DEF Proper
<1>2. ASSUME NEW k \in DOMAIN some, NEW l \in DOMAIN some, k # l
      PROVE  some[k].id # some[l].id /\ some[k].url # some[l].url
  BY <1>1, <1>2 DEF Proper
<1>3. QED
  BY <1>1, <1>2 DEF Proper

LEMMA EmptyProper == ASSUME NEW n PROVE Proper(<<>>, n)
  BY DEF Proper

LEMMA ProperInit == Init => PInv
<1> SUFFICES ASSUME Init PROVE ListsProper
  BY ListInit DEF PInv
<1>1. QED
  BY FirstListFacts, EmptyProper DEF Init, ListsProper, Value

\* An edit makes a proper list of a proper one.
LEMMA EditProper ==
  ASSUME ListsProper, Edits PROVE Proper(machines', edits + 1)
<1> DEFINE n == Len(machines)
<1>0. /\ Len(FirstList) \in Nat /\ edits \in Nat /\ machines \in Seq(Records) /\ Proper(machines, edits)
      /\ Proper(machines, edits + 1) /\ n \in Nat /\ DOMAIN machines = 1..n
      /\ \A k \in 1..n : machines[k] \in Records
  <2>1. Len(FirstList) \in Nat /\ edits \in Nat /\ Proper(machines, edits)
    BY FirstListFacts DEF ListsProper
  <2>2. machines \in Seq(Records)
    BY <2>1 DEF Proper
  <2>3. Proper(machines, edits + 1)
    BY <2>1, ProperLater
  <2>4. n \in Nat /\ DOMAIN machines = 1..n /\ \A k \in 1..n : machines[k] \in Records
    BY <2>2
  <2>5. QED
    BY <2>1, <2>2, <2>3, <2>4
<1>1. ASSUME NEW url \in Urls, NEW token \in Tokens, AddMachine(url, token)
      PROVE  Proper(machines', edits + 1)
  <2> DEFINE existing == {m \in Range(machines) : m.url = url}
             id == IF existing = {} THEN Len(FirstList) + edits + 1 ELSE (CHOOSE m \in existing : TRUE).id
             new == [id |-> id, url |-> url, token |-> token]
  <2>1. CASE existing = {}
    <3>1. machines' = Append(machines, new) /\ new \in Records /\ new.id = Len(FirstList) + edits + 1 /\ new.url = url
      BY <1>0, <1>1, <2>1 DEF AddMachine, Records
    <3>2. \A k \in 1..n : machines[k].url # url /\ machines[k].id < new.id
      <4>1. \A k \in 1..n : machines[k] \in Range(machines)
        BY <1>0 DEF Range
      <4>2. \A k \in 1..n : machines[k].id \in Nat /\ machines[k].id <= Len(FirstList) + edits
        BY <1>0 DEF Proper, Records
      <4>3. QED
        BY <1>0, <2>1, <3>1, <4>1, <4>2
    <3> HIDE DEF new, existing, id
    <3>3. /\ machines' \in Seq(Records) /\ DOMAIN machines' = 1..n + 1
          /\ machines'[n + 1] = new /\ \A k \in 1..n : machines'[k] = machines[k]
      BY <1>0, <3>1
    <3>4. \A k \in 1..n + 1 : machines'[k].id <= Len(FirstList) + (edits + 1)
      BY <1>0, <3>1, <3>3 DEF Proper
    <3>5. ASSUME NEW k \in 1..n + 1, NEW l \in 1..n + 1, k # l
          PROVE  machines'[k].id # machines'[l].id /\ machines'[k].url # machines'[l].url
      <4>1. CASE k \in 1..n /\ l \in 1..n
        BY <1>0, <3>3, <3>5, <4>1 DEF Proper
      <4>2. CASE k = n + 1 \/ l = n + 1
        BY <1>0, <3>1, <3>2, <3>3, <3>5, <4>2
      <4>3. QED
        BY <1>0, <4>1, <4>2
    <3>6. QED
      BY <3>3, <3>4, <3>5 DEF Proper
  <2>2. CASE existing # {}
    <3>1. machines' = [i \in 1..n |-> IF machines[i].id = id THEN [machines[i] EXCEPT !.token = token] ELSE machines[i]]
      BY <1>0, <1>1, <2>2 DEF AddMachine
    <3> HIDE DEF id, existing
    <3>2. \A k \in 1..n : machines'[k] \in Records /\ machines'[k].id = machines[k].id /\ machines'[k].url = machines[k].url
      BY <1>0, <3>1 DEF Records
    <3>3. machines' \in Seq(Records) /\ DOMAIN machines' = 1..n
      BY <1>0, <3>1, <3>2
    <3>4. QED
      BY <1>0, <3>2, <3>3 DEF Proper
  <2>3. QED
    BY <2>1, <2>2
<1>2. ASSUME NEW u \in Urls, NEW t \in Tokens, SubmitForm(u, t) PROVE Proper(machines', edits + 1)
  BY <1>1, <1>2 DEF SubmitForm
<1>3. ASSUME NEW link \in Links, PairLink(link) PROVE Proper(machines', edits + 1)
  <2>1. link.url \in Urls /\ link.token \in Tokens /\ AddMachine(link.url, link.token)
    BY <1>3 DEF PairLink, Delivered, ParsedLink, Links
  <2>2. QED
    BY <1>1, <2>1
<1>4. ASSUME NEW id \in Ids, RemoveMachine(id) PROVE Proper(machines', edits + 1)
  <2>1. PICK i \in 1..n : machines' = RemoveAt(machines, i)
    BY <1>0, <1>4 DEF RemoveMachine
  <2>2. /\ machines' \in Seq(Records) /\ Len(machines') = n - 1
        /\ \A k \in 1..n - 1 : machines'[k] = IF k < i THEN machines[k] ELSE machines[k + 1]
    <3>1. i \in DOMAIN machines
      BY <1>0, <2>1
    <3>2. QED
      BY <1>0, <2>1, <3>1, WithoutFacts
  <2> DEFINE from == [k \in 1..n - 1 |-> IF k < i THEN k ELSE k + 1]
  <2>3. DOMAIN machines' = 1..n - 1
    <3>1. DOMAIN machines' = 1..Len(machines')
      BY <2>2
    <3>2. QED
      BY <2>2, <3>1
  <2>4. /\ from \in [1..n - 1 -> 1..n]
        /\ \A k, l \in 1..n - 1 : k # l => from[k] # from[l]
    BY <1>0
  <2>5. ASSUME NEW k \in 1..n - 1 PROVE machines'[k] = machines[from[k]]
    BY <2>2
  <2> HIDE DEF from
  <2>6. Takes(machines', machines, from)
    BY <1>0, <2>3, <2>4, <2>5 DEF Takes
  <2>7. QED
    BY <1>0, <2>2, <2>6, SomeProper
<1>5. ASSUME NEW i \in DOMAIN machines, NEW j \in DOMAIN machines, NEW p \in {"before", "after"},
             ReorderMachine(i, j, p)
      PROVE  Proper(machines', edits + 1)
  <2>1. i # j /\ machines' = Reordered(machines, i, j, p)
    BY <1>5 DEF ReorderMachine, Reordered
  <2>2. PICK t \in DOMAIN machines : machines' = InsertAt(RemoveAt(machines, i), t, machines[i])
    <3>1. DropAnnounced(i, j, p) \in DOMAIN machines
      BY <1>0, <2>1, ReorderedMoves
    <3>2. machines' = InsertAt(RemoveAt(machines, i), DropAnnounced(i, j, p), machines[i])
      BY <1>0, <2>1, ReorderedMoves
    <3>3. QED
      BY <3>1, <3>2
  <2>3. machines' \in Seq(Records) /\ Rearranged(machines', machines, i, t)
    <3>1. QED
      BY <1>0, <2>2, MovedTo
  <2>4. PICK from \in [1..n -> 1..n] :
          /\ DOMAIN machines' = 1..n /\ \A k \in 1..n : machines'[k] = machines[from[k]]
          /\ \A k, l \in 1..n : k # l => from[k] # from[l]
    BY <1>0, <2>3 DEF Rearranged
  <2>5. Takes(machines', machines, from)
    BY <1>0, <2>4 DEF Takes
  <2>6. QED
    BY <1>0, <2>3, <2>5, SomeProper
<1>6. QED
  BY <1>2, <1>3, <1>4, <1>5 DEF Edits

LEMMA ProperStep == PInv /\ [Next]_vars => PInv'
<1> SUFFICES ASSUME PInv, [Next]_vars PROVE ListsProper'
  BY ListStep DEF PInv
<1>0. ListsProper /\ edits \in Nat /\ \E S : sets \in Seq(S)
  BY DEF PInv, ListsProper, IInv, Queues
<1>1. CASE UNCHANGED <<machines, disk, sets, edits>>
  BY <1>0, <1>1 DEF ListsProper
<1>2. CASE Edits
  <2>1. /\ edits' = edits + 1 /\ edits' \in Nat /\ UNCHANGED disk /\ Proper(machines', edits')
    <3>1. edits' = edits + 1 /\ UNCHANGED disk
      BY <1>2 DEF Edits, SubmitForm, PairLink, AddMachine, RemoveMachine, ReorderMachine, Edit, EditOnly, storage
    <3>2. QED
      BY <1>0, <1>2, <3>1, EditProper
  <2>2. PICK call : sets' = Append(sets, call) /\ call.list = machines'
    <3>1. \E added : Save(machines', added)
      BY <1>2 DEF Edits, SubmitForm, PairLink, AddMachine, RemoveMachine, ReorderMachine
    <3>2. QED
      BY <3>1 DEF Save
  <2>3. /\ DOMAIN sets' = DOMAIN sets \cup {Len(sets) + 1} /\ sets'[Len(sets) + 1] = call
        /\ \A k \in DOMAIN sets : sets'[k] = sets[k]
    BY <1>0, <2>2, AppendFacts
  <2>4. \A list : Proper(list, edits) => Proper(list, edits')
    BY <1>0, <2>1, ProperLater
  <2>5. QED
    BY <1>0, <2>1, <2>2, <2>3, <2>4 DEF ListsProper
<1>3. CASE MainSets \/ MainSetFails
  <2>1. /\ sets # <<>> /\ sets' = Tail(sets) /\ UNCHANGED <<machines, edits>>
        /\ disk' \in {disk, Torn, Value(Head(sets).list, Head(sets).version, keychain)}
    BY <1>3 DEF MainSets, MainSetFails, MainOnly
  <2>2. /\ Head(sets) = sets[1] /\ 1 \in DOMAIN sets
        /\ \A k \in DOMAIN sets' : k + 1 \in DOMAIN sets /\ sets'[k] = sets[k + 1]
    BY <1>0, <2>1, TailFacts
  <2>3. QED
    BY <1>0, <2>1, <2>2 DEF ListsProper, Torn, Value
<1>4. CASE Loaded
  <2>1. machines' = Decoded(disk) /\ UNCHANGED <<disk, sets, edits>>
    BY <1>4 DEF Loaded, storage, ipc
  <2>2. QED
    BY <1>0, <2>1, EmptyProper DEF ListsProper, Decoded
<1>5. CASE Stops
  <2>1. /\ disk' \in {disk, Torn} /\ sets' = <<>> /\ machines' = <<>> /\ UNCHANGED edits
    BY <1>5 DEF Stops
  <2>2. QED
    BY <1>0, <2>1, EmptyProper DEF ListsProper, Torn
<1>6. CASE \/ \E id \in Ids : OpenMachine(id)
           \/ \E slot \in 1..MaxFlights : FlightOf(slot)
           \/ RefreshAll \/ SaveAnswered \/ Starts
           \/ \E u \in Urls : DaemonChanges(u)
           \/ UNCHANGED vars
  BY <1>1, <1>6
     DEF OpenMachine, FlightOf, Flight, InfoAnswered, SessionsAnswered, RequestFails, RefreshEnds,
         RefreshAll, SaveAnswered, Starts, DaemonChanges, FlightOnly, storage, ipc, vars
<1>7. QED
  BY <1>2, <1>3, <1>4, <1>5, <1>6 DEF Next

\* However the list was edited, saved, torn and loaded, the place that the rail announces
\* for a machine on it is the one that the machine gets (Rail.tsx 45-54, 103-122).
THEOREM AnnouncedPlaceStaysRight == Spec => []AnnouncedPlaceIsRight
<1>1. PInv => AnnouncedPlaceIsRight
  <2> SUFFICES ASSUME PInv PROVE AnnouncedPlaceIsRight
    OBVIOUS
  <2>1. machines \in Seq(Records) /\ \A k, l \in DOMAIN machines : k # l => machines[k] # machines[l]
    BY DEF PInv, ListsProper, Proper
  <2>2. ASSUME NEW i \in DOMAIN machines, NEW j \in DOMAIN machines \ {i}, NEW p \in {"before", "after"}
        PROVE  PlaceOf(Reordered(machines, i, j, p), machines[i]) = DropAnnounced(i, j, p)
    BY <2>1, DropLandsWhereAnnounced
  <2>3. ASSUME NEW i \in DOMAIN machines, NEW d \in {-1, 1}, i + d \in DOMAIN machines
        PROVE  PlaceOf(Reordered(machines, i, i + d, KeyPlacement(d)), machines[i]) = KeyAnnounced(i, d)
    BY <2>1, <2>3, KeyLandsWhereAnnounced
  <2>4. QED
    BY <2>2, <2>3 DEF AnnouncedPlaceIsRight
<1>2. QED
  BY ProperInit, ProperStep, <1>1, PTL DEF Spec

----------------------------------------------------------------------------
(* What is shown of the sessions *)

\* A set of numbers that is not empty has a least one.
LEMMA LeastOf ==
  ASSUME NEW B \in SUBSET Nat, B # {}
  PROVE  \E m \in B : \A k \in B : m <= k
<1>1. PICK m \in B : \A k \in B : <<k, m>> \notin OpToRel(<, Nat)
  BY NatLessThanWellFounded, WFMin
<1>2. \A k \in B : ~(k < m)
  BY <1>1 DEF OpToRel
<1>3. QED
  BY <1>2

\* A loop of n steps has its states, each of S and the step of the one before.
IsLoop(f, n, S, base, step) ==
  f \in [0..n -> S] /\ f[0] = base /\ \A k \in 1..n : f[k] = step[k][f[k - 1]]
LEMMA LoopStates ==
  ASSUME NEW n \in Nat, NEW S, NEW base \in S, NEW step \in [1..n -> [S -> S]]
  PROVE  \E f : IsLoop(f, n, S, base, step)
<1> DEFINE Upto(m) == \E f : IsLoop(f, m, S, base, step)
           Bad == {m \in 0..n : ~Upto(m)}
<1>1. SUFFICES ASSUME Bad # {} PROVE FALSE
  <2>1. n \in 0..n
    OBVIOUS
  <2>2. QED
    BY <2>1
<1>2. PICK m \in Bad : \A k \in Bad : m <= k
  <2>1. Bad \in SUBSET Nat
    OBVIOUS
  <2>2. QED
    BY <1>1, <2>1, LeastOf
<1>3. m # 0
  <2> DEFINE f == [k \in 0..0 |-> base]
  <2>1. IsLoop(f, 0, S, base, step)
    BY DEF IsLoop
  <2>2. Upto(0)
    BY <2>1
  <2>3. QED
    BY <1>2, <2>2
<1>4. m - 1 \in 0..n /\ m \in 1..n
  BY <1>2, <1>3
<1>5. Upto(m - 1)
  <2> HIDE DEF Upto
  <2>1. ~(m <= m - 1)
    BY <1>4
  <2>2. QED
    BY <1>2, <1>4, <2>1
<1>6. PICK f \in [0..m - 1 -> S] :
        f[0] = base /\ \A k \in 1..m - 1 : f[k] = step[k][f[k - 1]]
  BY <1>5 DEF IsLoop
<1> DEFINE g == [k \in 0..m |-> IF k = m THEN step[m][f[m - 1]] ELSE f[k]]
<1>7. step[m][f[m - 1]] \in S
  BY <1>4
<1>8. g \in [0..m -> S]
  BY <1>4, <1>7
<1>9. g[0] = base /\ \A k \in 1..m : g[k] = step[k][g[k - 1]]
  BY <1>4, <1>6
<1>10. Upto(m)
  BY <1>8, <1>9 DEF IsLoop
<1>11. QED
  BY <1>2, <1>10

\* An order that compares any two.
IsOrder(S, R) ==
  /\ \A p \in S : <<p, p>> \in R
  /\ \A p, q \in S : <<p, q>> \in R \/ <<q, p>> \in R
  /\ \A p, q \in S : <<p, q>> \in R /\ <<q, p>> \in R => p = q
  /\ \A p, q, r \in S : <<p, q>> \in R /\ <<q, r>> \in R => <<p, r>> \in R

\* s has each of S once, in the order R.
IsRanking(s, S, R) ==
  /\ s \in Seq(S) /\ Len(s) = Cardinality(S) /\ DOMAIN s = 1..Cardinality(S)
  /\ \A p \in S : \E k \in DOMAIN s : s[k] = p
  /\ \A k, l \in DOMAIN s : s[k] = s[l] => k = l
  /\ \A k, l \in DOMAIN s : k < l => <<s[k], s[l]>> \in R

LEMMA RankedFacts ==
  ASSUME NEW S, IsFiniteSet(S), NEW R, IsOrder(S, R)
  PROVE  IsRanking(Ranked(S, R), S, R)
<1> DEFINE n == Cardinality(S)
           Below(p) == {q \in S : <<q, p>> \in R}
           rank == [p \in S |-> Cardinality(Below(p))]
           s == Ranked(S, R)
<1>1. n \in Nat
  BY FS_CardinalityType
<1>2. ASSUME NEW p \in S
      PROVE  Below(p) \in SUBSET S /\ IsFiniteSet(Below(p)) /\ rank[p] \in 1..n
  <2>1. Below(p) \in SUBSET S /\ p \in Below(p)
    BY DEF IsOrder
  <2>2. IsFiniteSet(Below(p)) /\ Cardinality(Below(p)) <= n
    BY <2>1, FS_Subset
  <2>3. Cardinality(Below(p)) # 0 /\ Cardinality(Below(p)) \in Nat
    BY <2>1, <2>2, FS_EmptySet, FS_CardinalityType
  <2>4. QED
    BY <1>1, <2>1, <2>2, <2>3
<1>3. ASSUME NEW p \in S, NEW q \in S, <<p, q>> \in R, p # q PROVE rank[p] < rank[q]
  <2>1. Below(p) \in SUBSET Below(q)
    BY <1>3 DEF IsOrder
  <2>2. q \in Below(q) /\ q \notin Below(p)
    BY <1>3 DEF IsOrder
  <2>3. Below(p) # Below(q)
    BY <2>2
  <2> HIDE DEF Below
  <2>4. Cardinality(Below(p)) <= Cardinality(Below(q)) /\ Cardinality(Below(p)) # Cardinality(Below(q))
    BY <1>2, <2>1, <2>3, FS_Subset
  <2>5. rank[p] \in Nat /\ rank[q] \in Nat
    BY <1>1, <1>2
  <2>6. QED
    BY <2>4, <2>5
<1>4. rank \in [S -> 1..n]
  <2> HIDE DEF Below, n
  <2>1. QED
    BY <1>2
<1>5. \A p, q \in S : rank[p] = rank[q] => p = q
  <2>1. SUFFICES ASSUME NEW p \in S, NEW q \in S, rank[p] = rank[q], p # q PROVE FALSE
    OBVIOUS
  <2>2. <<p, q>> \in R \/ <<q, p>> \in R
    BY DEF IsOrder
  <2> HIDE DEF rank, n
  <2>3. rank[p] \in 1..n /\ rank[q] \in 1..n
    BY <1>4
  <2>4. QED
    BY <1>1, <1>3, <2>1, <2>2, <2>3
<1>6. rank \in Injection(S, 1..n)
  <2> HIDE DEF rank, n
  <2>1. QED
    BY <1>4, <1>5 DEF Injection, IsInjective
<1>7. rank \in Surjection(S, 1..n)
  <2>1. IsFiniteSet(1..n) /\ Cardinality(1..n) = n
    BY <1>1, FS_Interval
  <2> HIDE DEF rank
  <2>2. Cardinality(S) = Cardinality(1..n)
    BY <2>1
  <2> HIDE DEF n
  <2>3. QED
    BY <1>6, <2>1, <2>2, FS_Injection
<1>8. \A k \in 1..n : \E p \in S : rank[p] = k
  <2> HIDE DEF rank, n
  <2>1. QED
    BY <1>7 DEF Surjection
<1>9. s = [k \in 1..n |-> CHOOSE p \in S : Cardinality(Below(p)) = k]
  BY DEF Ranked
<1>10. ASSUME NEW k \in 1..n PROVE s[k] \in S /\ rank[s[k]] = k
  <2>1. PICK p \in S : rank[p] = k
    BY <1>8
  <2>2. p \in S /\ Cardinality(Below(p)) = k
    BY <2>1
  <2> HIDE DEF Below, rank, n, s
  <2>3. s[k] \in S /\ Cardinality(Below(s[k])) = k
    BY <1>9, <2>2
  <2>4. QED
    BY <2>3 DEF rank
<1>11. DOMAIN s = 1..n /\ s = [k \in 1..n |-> s[k]]
  <2> HIDE DEF Below, n, s
  <2>1. QED
    BY <1>9
<1> HIDE DEF s, rank, n
<1>12. s \in Seq(S) /\ Len(s) = n
  <2>1. s \in [1..n -> S]
    BY <1>10, <1>11
  <2>2. QED
    BY <1>1, <2>1
<1>13. ASSUME NEW p \in S PROVE \E k \in DOMAIN s : s[k] = p
  <2>1. rank[p] \in 1..n
    BY <1>2
  <2>2. s[rank[p]] \in S /\ rank[s[rank[p]]] = rank[p]
    BY <1>10, <2>1
  <2>3. s[rank[p]] = p
    BY <1>5, <2>2
  <2>4. QED
    BY <1>11, <2>1, <2>3
<1>14. \A k, l \in DOMAIN s : s[k] = s[l] => k = l
  BY <1>10, <1>11
<1>15. ASSUME NEW k \in DOMAIN s, NEW l \in DOMAIN s, k < l PROVE <<s[k], s[l]>> \in R
  <2>1. s[k] \in S /\ s[l] \in S /\ rank[s[k]] = k /\ rank[s[l]] = l /\ k \in Nat /\ l \in Nat
    BY <1>1, <1>10, <1>11
  <2>2. s[k] # s[l]
    BY <1>15, <2>1
  <2>3. CASE <<s[l], s[k]>> \in R
    <3>1. l < k
      BY <1>3, <2>1, <2>2, <2>3
    <3>2. QED
      BY <1>15, <2>1, <3>1
  <2>4. QED
    BY <2>1, <2>3 DEF IsOrder
<1>16. QED
  BY <1>11, <1>12, <1>13, <1>14, <1>15 DEF IsRanking, n, s

\* Sorting by a number, the greatest first, is such an order again.
LEMMA SortedFacts ==
  ASSUME NEW S, IsFiniteSet(S), NEW R, IsOrder(S, R), NEW number, \A p \in S : number[p] \in Int
  PROVE  /\ IsRanking(Sorted(S, R, number), S,
                      {e \in S \X S : number[e[1]] > number[e[2]] \/ (number[e[1]] = number[e[2]] /\ e \in R)})
         /\ \A k, l \in DOMAIN Sorted(S, R, number) :
              k < l => number[Sorted(S, R, number)[k]] >= number[Sorted(S, R, number)[l]]
<1> DEFINE Q == {e \in S \X S : number[e[1]] > number[e[2]] \/ (number[e[1]] = number[e[2]] /\ e \in R)}
           s == Sorted(S, R, number)
<1>1. \A p, q \in S : <<p, q>> \in Q <=> number[p] > number[q] \/ (number[p] = number[q] /\ <<p, q>> \in R)
  OBVIOUS
<1>2. IsOrder(S, Q)
  <2> HIDE DEF Q
  <2>1. \A p \in S : <<p, p>> \in Q
    BY <1>1 DEF IsOrder
  <2>2. ASSUME NEW p \in S, NEW q \in S PROVE <<p, q>> \in Q \/ <<q, p>> \in Q
    <3>1. number[p] \in Int /\ number[q] \in Int
      OBVIOUS
    <3>2. number[p] > number[q] \/ number[q] > number[p] \/ number[p] = number[q]
      BY <3>1
    <3>3. <<p, q>> \in R \/ <<q, p>> \in R
      BY DEF IsOrder
    <3>4. QED
      BY <1>1, <3>2, <3>3
  <2>3. \A p, q \in S : <<p, q>> \in Q /\ <<q, p>> \in Q => p = q
    BY <1>1 DEF IsOrder
  <2>4. ASSUME NEW p \in S, NEW q \in S, NEW r \in S, <<p, q>> \in Q, <<q, r>> \in Q
        PROVE  <<p, r>> \in Q
    <3>1. /\ number[p] > number[q] \/ (number[p] = number[q] /\ <<p, q>> \in R)
          /\ number[q] > number[r] \/ (number[q] = number[r] /\ <<q, r>> \in R)
      BY <1>1, <2>4
    <3>2. <<p, q>> \in R /\ <<q, r>> \in R => <<p, r>> \in R
      BY DEF IsOrder
    <3>3. number[p] \in Int /\ number[q] \in Int /\ number[r] \in Int
      OBVIOUS
    <3>4. number[p] > number[r] \/ (number[p] = number[r] /\ <<p, r>> \in R)
      BY <3>1, <3>2, <3>3
    <3>5. QED
      BY <1>1, <3>4
  <2>5. QED
    BY <2>1, <2>2, <2>3, <2>4 DEF IsOrder
<1>3. IsRanking(s, S, Q)
  <2>1. s = Ranked(S, Q)
    BY DEF Sorted
  <2> HIDE DEF Q, s
  <2>2. QED
    BY <1>2, <2>1, RankedFacts
<1>4. ASSUME NEW k \in DOMAIN s, NEW l \in DOMAIN s, k < l PROVE number[s[k]] >= number[s[l]]
  <2> HIDE DEF Q, s
  <2>1. <<s[k], s[l]>> \in Q /\ s[k] \in S /\ s[l] \in S
    BY <1>3, <1>4 DEF IsRanking
  <2>2. number[s[k]] \in Int /\ number[s[l]] \in Int
    BY <2>1
  <2>3. QED
    BY <1>1, <2>1, <2>2
<1>5. QED
  BY <1>3, <1>4

LEMMA UpwardsFacts ==
  ASSUME NEW S \in SUBSET Int
  PROVE  IsOrder(S, Upwards(S)) /\ \A p, q \in S : <<p, q>> \in Upwards(S) <=> p <= q
<1>1. \A p, q \in S : <<p, q>> \in Upwards(S) <=> p <= q
  BY DEF Upwards
<1>2. QED
  BY <1>1 DEF IsOrder

----------------------------------------------------------------------------
(* The boards *)

LEMMA BoardFacts ==
  ASSUME NEW board \in Boards
  PROVE  /\ Len(board) \in Nat /\ DOMAIN board = 1..Len(board)
         /\ \A k \in DOMAIN board :
              /\ board[k] \in MachineOfBoard /\ board[k].sessions \in Seq(RecentSession)
              /\ Len(board[k].sessions) \in Nat
              /\ DOMAIN board[k].sessions = 1..Len(board[k].sessions)
              /\ \A i \in DOMAIN board[k].sessions : board[k].sessions[i] \in RecentSession
<1>1. board \in Seq(MachineOfBoard)
  BY ListsAssumption
<1>2. ASSUME NEW k \in DOMAIN board
      PROVE  board[k] \in MachineOfBoard /\ board[k].sessions \in Seq(RecentSession)
  <2>1. board[k] \in MachineOfBoard
    BY <1>1
  <2>2. QED
    BY <2>1 DEF MachineOfBoard
<1>3. ASSUME NEW k \in DOMAIN board
      PROVE  /\ Len(board[k].sessions) \in Nat
             /\ DOMAIN board[k].sessions = 1..Len(board[k].sessions)
             /\ \A i \in DOMAIN board[k].sessions : board[k].sessions[i] \in RecentSession
  <2> DEFINE list == board[k].sessions
  <2>1. list \in Seq(RecentSession)
    BY <1>2
  <2> HIDE DEF list
  <2>2. Len(list) \in Nat /\ DOMAIN list = 1..Len(list) /\ \A i \in DOMAIN list : list[i] \in RecentSession
    BY <2>1
  <2>3. QED
    BY <2>2 DEF list
<1>4. QED
  BY <1>1, <1>2, <1>3

\* A place of a board is a machine of it and a session of that machine.
LEMMA PlaceFacts ==
  ASSUME NEW board \in Boards
  PROVE  /\ \A k \in DOMAIN board : \A i \in DOMAIN board[k].sessions :
              /\ <<k, i>> \in AllOf(board) /\ SessionAt(board, <<k, i>>) = board[k].sessions[i]
         /\ \A p \in AllOf(board) :
              /\ p = <<p[1], p[2]>> /\ p[1] \in DOMAIN board /\ p[2] \in DOMAIN board[p[1]].sessions
              /\ p[1] \in Nat /\ p[2] \in Nat /\ SessionAt(board, p) \in RecentSession
<1>1. ASSUME NEW k \in DOMAIN board, NEW i \in DOMAIN board[k].sessions
      PROVE  <<k, i>> \in AllOf(board) /\ SessionAt(board, <<k, i>>) = board[k].sessions[i]
  BY DEF AllOf, SessionAt
<1>2. ASSUME NEW p \in AllOf(board)
      PROVE  /\ p = <<p[1], p[2]>> /\ p[1] \in DOMAIN board
             /\ p[2] \in DOMAIN board[p[1]].sessions
  BY DEF AllOf
<1>3. ASSUME NEW p \in AllOf(board)
      PROVE  p[1] \in Nat /\ p[2] \in Nat /\ SessionAt(board, p) \in RecentSession
  <2>1. p[1] \in 1..Len(board) /\ p[2] \in 1..Len(board[p[1]].sessions)
    BY <1>2, BoardFacts
  <2>2. SessionAt(board, p) \in RecentSession
    BY <1>2, BoardFacts DEF SessionAt
  <2>3. QED
    BY <2>1, <2>2
<1>4. QED
  BY <1>1, <1>2, <1>3

LEMMA PlacesFinite ==
  ASSUME NEW board \in Boards
  PROVE  IsFiniteSet(AllOf(board))
<1> DEFINE Of(k) == {k} \X DOMAIN board[k].sessions
           S == {Of(k) : k \in DOMAIN board}
           f == [k \in DOMAIN board |-> Of(k)]
<1>1. ASSUME NEW k \in DOMAIN board PROVE IsFiniteSet(Of(k))
  <2>1. IsFiniteSet(DOMAIN board[k].sessions)
    <3> DEFINE n == Len(board[k].sessions)
    <3>1. n \in Nat /\ DOMAIN board[k].sessions = 1..n
      BY BoardFacts
    <3> HIDE DEF n
    <3>2. IsFiniteSet(1..n)
      BY <3>1, FS_Interval
    <3>3. QED
      BY <3>1, <3>2
  <2>2. IsFiniteSet({k})
    BY FS_Singleton
  <2>3. QED
    BY <2>1, <2>2, FS_Product
<1>2. IsFiniteSet(DOMAIN board)
  BY BoardFacts, FS_Interval
<1> HIDE DEF Of
<1>3. f \in Surjection(DOMAIN board, S)
  BY DEF Surjection
<1>4. IsFiniteSet(S) /\ \A T \in S : IsFiniteSet(T)
  BY <1>1, <1>2, <1>3, FS_Surjection
<1>5. IsFiniteSet(UNION S)
  <2> HIDE DEF S
  <2>1. QED
    BY <1>4, FS_UNION
<1>6. QED
  BY <1>5 DEF AllOf, Of

\* The numbers of the pairs that start with each number add up to that of all pairs.
LEMMA SumFacts ==
  ASSUME NEW n \in Nat, NEW S, IsFiniteSet(S), \A p \in S : p[1] \in 1..n,
         NEW f \in [0..n -> Nat], f[0] = 0,
         \A k \in 1..n : f[k] = f[k - 1] + Cardinality({p \in S : p[1] = k})
  PROVE  f[n] = Cardinality(S)
<1> DEFINE To(k) == {p \in S : p[1] <= k}
           On(k) == {p \in S : p[1] = k}
           Bad == {k \in 0..n : f[k] # Cardinality(To(k))}
<1>1. \A k : IsFiniteSet(To(k)) /\ IsFiniteSet(On(k))
  <2>1. ASSUME NEW k PROVE IsFiniteSet(To(k)) /\ IsFiniteSet(On(k))
    <3>1. To(k) \in SUBSET S /\ On(k) \in SUBSET S
      OBVIOUS
    <3> HIDE DEF To, On
    <3>2. QED
      BY <3>1, FS_Subset
  <2>2. QED
    BY <2>1
<1>2. Bad = {}
  <2>1. SUFFICES ASSUME Bad # {} PROVE FALSE
    OBVIOUS
  <2>2. PICK m \in Bad : \A k \in Bad : m <= k
    <3>1. Bad \in SUBSET Nat
      OBVIOUS
    <3> HIDE DEF Bad
    <3>2. QED
      BY <2>1, <3>1, LeastOf
  <2>3. m \in 0..n /\ f[m] # Cardinality(To(m))
    BY <2>2
  <2>4. CASE m = 0
    <3>1. To(0) = {}
      OBVIOUS
    <3> HIDE DEF To
    <3>2. QED
      BY <2>3, <2>4, <3>1, FS_EmptySet
  <2>5. CASE m # 0
    <3>1. m \in 1..n /\ m - 1 \in 0..n /\ ~(m <= m - 1)
      BY <2>3, <2>5
    <3>2. f[m - 1] = Cardinality(To(m - 1))
      BY <2>2, <3>1
    <3>3. To(m) = To(m - 1) \cup On(m) /\ To(m - 1) \cap On(m) = {}
      BY <3>1
    <3>4. f[m] = f[m - 1] + Cardinality(On(m))
      BY <3>1
    <3> HIDE DEF To, On
    <3>5. Cardinality(To(m)) = Cardinality(To(m - 1)) + Cardinality(On(m)) - Cardinality({})
      <4> DEFINE A == To(m - 1)
                 B == On(m)
      <4>1. IsFiniteSet(A) /\ IsFiniteSet(B)
        BY <1>1
      <4> HIDE DEF A, B
      <4>2. Cardinality(A \cup B) = Cardinality(A) + Cardinality(B) - Cardinality(A \cap B)
        BY <4>1, FS_Union
      <4>3. QED
        BY <3>3, <4>2 DEF A, B
    <3>6. Cardinality({}) = 0 /\ Cardinality(On(m)) \in Nat /\ Cardinality(To(m - 1)) \in Nat
      BY <1>1, FS_EmptySet, FS_CardinalityType
    <3>7. QED
      BY <2>3, <3>2, <3>4, <3>5, <3>6
  <2>6. QED
    BY <2>4, <2>5
<1>3. To(n) = S
  OBVIOUS
<1>4. n \in 0..n
  OBVIOUS
<1>5. f[n] = Cardinality(To(n))
  BY <1>2, <1>4
<1>6. QED
  BY <1>3, <1>5

LEMMA StatusFacts ==
  ASSUME NEW s \in RecentSession
  PROVE  /\ SessionStatus(s) \in {"running", "attention", "idle"}
         /\ SessionStatus(s) = "running" <=> s.live
<1>1. s.live \in BOOLEAN /\ s.lastSeq \in Nat /\ s.seen \in Nat
  BY DEF RecentSession
<1>2. s.lastSeq > s.seen \/ s.lastSeq <= s.seen
  BY <1>1
<1>3. QED
  BY <1>1, <1>2 DEF SessionStatus

LEMMA LaneFacts ==
  ASSUME NEW s \in RecentSession, NEW lane \in Lanes
  PROVE  /\ lane \in {"attention", "running"} => (InLane(s, lane) <=> SessionStatus(s) = lane)
         /\ lane = "done" => (InLane(s, lane) => SessionStatus(s) = "idle")
<1>1. CASE lane = "attention"
  BY <1>1 DEF InLane
<1>2. CASE lane = "running"
  BY <1>2 DEF InLane
<1>3. CASE lane = "done"
  BY <1>3 DEF InLane
<1>4. QED
  BY <1>1, <1>2, <1>3 DEF Lanes

\* The places of a lane, and that the lane has each of them once.
InLanePlaces(board, lane) == {p \in AllOf(board) : InLane(SessionAt(board, p), lane)}

LEMMA VisitsFacts ==
  ASSUME NEW board \in Boards, NEW S \in SUBSET AllOf(board)
  PROVE  IsOrder(S, Visits(S))
<1>1. \A p \in S : p = <<p[1], p[2]>> /\ p[1] \in Nat /\ p[2] \in Nat
  BY PlaceFacts
<1>2. \A p, q \in S : <<p, q>> \in Visits(S) <=> p[1] < q[1] \/ (p[1] = q[1] /\ p[2] <= q[2])
  BY DEF Visits
<1>3. \A p \in S : <<p, p>> \in Visits(S)
  BY <1>1, <1>2
<1>4. ASSUME NEW p \in S, NEW q \in S PROVE <<p, q>> \in Visits(S) \/ <<q, p>> \in Visits(S)
  <2>1. p[1] \in Nat /\ p[2] \in Nat /\ q[1] \in Nat /\ q[2] \in Nat
    BY <1>1
  <2>2. \/ p[1] < q[1] \/ q[1] < p[1]
        \/ p[1] = q[1] /\ (p[2] <= q[2] \/ q[2] <= p[2])
    BY <2>1
  <2>3. QED
    BY <1>2, <2>2
<1>5. \A p, q \in S : <<p, q>> \in Visits(S) /\ <<q, p>> \in Visits(S) => p = q
  <2>1. ASSUME NEW p \in S, NEW q \in S, <<p, q>> \in Visits(S), <<q, p>> \in Visits(S) PROVE p = q
    <3>1. p[1] = q[1] /\ p[2] = q[2]
      BY <1>1, <1>2, <2>1
    <3>2. QED
      BY <1>1, <3>1
  <2>2. QED
    BY <2>1
<1>6. \A p, q, r \in S : <<p, q>> \in Visits(S) /\ <<q, r>> \in Visits(S) => <<p, r>> \in Visits(S)
  BY <1>1, <1>2
<1>7. QED
  BY <1>3, <1>4, <1>5, <1>6 DEF IsOrder

LEMMA LaneRanks ==
  ASSUME NEW board \in Boards, NEW lane \in Lanes
  PROVE  /\ Len(Triage(board)[lane]) = Cardinality(InLanePlaces(board, lane))
         /\ \A k \in DOMAIN Triage(board)[lane] : Triage(board)[lane][k] \in InLanePlaces(board, lane)
         /\ \A p \in InLanePlaces(board, lane) :
              \E k \in DOMAIN Triage(board)[lane] : Triage(board)[lane][k] = p
<1> DEFINE S == InLanePlaces(board, lane)
           at == [p \in S |-> SessionAt(board, p).updated]
           s == Sorted(S, Visits(S), at)
<1>1. S \in SUBSET AllOf(board) /\ IsFiniteSet(S)
  <2>1. S \in SUBSET AllOf(board)
    BY DEF InLanePlaces
  <2>2. QED
    BY <2>1, PlacesFinite, FS_Subset
<1>2. \A p \in S : at[p] \in Int
  <2>1. ASSUME NEW p \in S PROVE SessionAt(board, p).updated \in Int
    <3>1. SessionAt(board, p) \in RecentSession
      BY <1>1, PlaceFacts
    <3>2. QED
      BY <3>1 DEF RecentSession
  <2>2. QED
    BY <2>1
<1>3. IsOrder(S, Visits(S))
  BY <1>1, VisitsFacts
<1>4. Triage(board)[lane] = s
  BY DEF Triage, Lane, InLanePlaces
<1> HIDE DEF S, at
<1>5. PICK Q : IsRanking(s, S, Q)
  BY <1>1, <1>2, <1>3, SortedFacts
<1> HIDE DEF s
<1>6. s \in Seq(S) /\ Len(s) = Cardinality(S) /\ \A p \in S : \E k \in DOMAIN s : s[k] = p
  BY <1>5 DEF IsRanking
<1>7. \A k \in DOMAIN s : s[k] \in S
  BY <1>6
<1>8. QED
  BY <1>4, <1>6, <1>7 DEF S

\* What a machine counts of a kind is what its places have of that lane.
LEMMA CountFacts ==
  ASSUME NEW board \in Boards, NEW kind \in {"attention", "running"}, NEW k \in DOMAIN board
  PROVE  /\ MachineActivityCounts(board[k].sessions)[kind]
              = Cardinality({p \in InLanePlaces(board, kind) : p[1] = k})
         /\ MachineActivityCounts(board[k].sessions)[kind] \in Nat
         /\ MachineActivityCounts(board[k].sessions)[kind] = 0
              <=> \A i \in DOMAIN board[k].sessions : SessionStatus(board[k].sessions[i]) # kind
<1> DEFINE list == board[k].sessions
           S == {i \in DOMAIN list : SessionStatus(list[i]) = kind}
           T == {p \in InLanePlaces(board, kind) : p[1] = k}
           f == [i \in S |-> <<k, i>>]
<1>1. MachineActivityCounts(list)[kind] = Cardinality(S)
  BY DEF MachineActivityCounts
<1>2. IsFiniteSet(S)
  <2>1. IsFiniteSet(DOMAIN list)
    <3> DEFINE n == Len(list)
    <3>1. n \in Nat /\ DOMAIN list = 1..n
      BY BoardFacts
    <3> HIDE DEF n
    <3>2. IsFiniteSet(1..n)
      BY <3>1, FS_Interval
    <3>3. QED
      BY <3>1, <3>2
  <2>2. S \in SUBSET DOMAIN list
    OBVIOUS
  <2> HIDE DEF S, list
  <2>3. QED
    BY <2>1, <2>2, FS_Subset
<1>3. \A i \in DOMAIN list : <<k, i>> \in T <=> i \in S
  <2>1. ASSUME NEW i \in DOMAIN list PROVE <<k, i>> \in T <=> i \in S
    <3>1. <<k, i>> \in AllOf(board) /\ SessionAt(board, <<k, i>>) = list[i]
      BY PlaceFacts
    <3>2. list[i] \in RecentSession
      BY BoardFacts
    <3>3. InLane(list[i], kind) <=> SessionStatus(list[i]) = kind
      BY <3>2, LaneFacts DEF Lanes
    <3>4. QED
      BY <3>1, <3>3 DEF InLanePlaces
  <2>2. QED
    BY <2>1
<1>4. \A p \in T : p = <<k, p[2]>> /\ p[2] \in DOMAIN list
  BY PlaceFacts DEF InLanePlaces
<1>5. f \in Bijection(S, T)
  <2>1. f \in [S -> T]
    BY <1>3
  <2>2. \A i, j \in S : f[i] = f[j] => i = j
    OBVIOUS
  <2>3. \A p \in T : \E i \in S : f[i] = p
    BY <1>3, <1>4
  <2> HIDE DEF f, S, T
  <2>4. QED
    BY <2>1, <2>2, <2>3 DEF Bijection, Injection, IsInjective, Surjection
<1> HIDE DEF S, T, f
<1>6. Cardinality(T) = Cardinality(S)
  BY <1>2, <1>5, FS_Bijection DEF ExistsBijection
<1>7. Cardinality(S) \in Nat /\ (Cardinality(S) = 0 <=> S = {})
  BY <1>2, FS_CardinalityType, FS_EmptySet
<1>8. QED
  BY <1>1, <1>6, <1>7 DEF S, T

\* The badges of the machines add up to the lane.
LEMMA TotalFacts ==
  ASSUME NEW board \in Boards, NEW kind \in {"attention", "running"}
  PROVE  Total(board, kind) = Cardinality(InLanePlaces(board, kind))
<1> DEFINE n == Len(board)
           S == InLanePlaces(board, kind)
           c == [k \in 1..n |-> Cardinality({p \in S : p[1] = k})]
           step == [k \in 1..n |-> [x \in Nat |-> x + c[k]]]
           Loop(f) == f = [k \in 0..n |-> IF k = 0 THEN 0
                             ELSE f[k - 1] + MachineActivityCounts(board[k].sessions)[kind]]
           Upto == CHOOSE f : Loop(f)
<1>1. n \in Nat /\ DOMAIN board = 1..n
  BY BoardFacts
<1>2. ASSUME NEW k \in 1..n
      PROVE  MachineActivityCounts(board[k].sessions)[kind] = c[k] /\ c[k] \in Nat
  <2>1. c[k] = Cardinality({p \in S : p[1] = k})
    OBVIOUS
  <2> HIDE DEF c
  <2>2. k \in DOMAIN board
    BY <1>1
  <2> HIDE DEF n
  <2>3. QED
    BY <2>1, <2>2, CountFacts
<1>3. IsFiniteSet(S) /\ \A p \in S : p[1] \in 1..n
  <2>1. S \in SUBSET AllOf(board)
    BY DEF InLanePlaces
  <2>2. IsFiniteSet(S)
    BY <2>1, PlacesFinite, FS_Subset
  <2>3. \A p \in S : p[1] \in 1..n
    BY <1>1, <2>1, PlaceFacts
  <2>4. QED
    BY <2>2, <2>3
<1>4. \E f : Loop(f)
  <2> HIDE DEF c, S, n
  <2>1. step \in [1..n -> [Nat -> Nat]]
    BY <1>2
  <2>2. PICK f : IsLoop(f, n, Nat, 0, step)
    <3> HIDE DEF step
    <3>1. QED
      BY <1>1, <2>1, LoopStates
  <2>3. f \in [0..n -> Nat] /\ f[0] = 0 /\ \A k \in 1..n : f[k] = f[k - 1] + c[k]
    <3>1. f \in [0..n -> Nat] /\ f[0] = 0 /\ \A k \in 1..n : f[k] = step[k][f[k - 1]]
      <4> HIDE DEF step
      <4>1. QED
        BY <2>2 DEF IsLoop
    <3>2. ASSUME NEW k \in 1..n PROVE f[k] = f[k - 1] + c[k]
      <4>1. f[k - 1] \in Nat
        BY <1>1, <3>1
      <4>2. QED
        BY <3>1, <4>1
    <3>3. QED
      BY <3>1, <3>2
  <2>4. \A k \in 0..n : f[k] = IF k = 0 THEN 0
                                ELSE f[k - 1] + MachineActivityCounts(board[k].sessions)[kind]
    BY <1>1, <1>2, <2>3
  <2>5. Loop(f)
    BY <2>3, <2>4
  <2>6. QED
    BY <2>5
<1>5. Loop(Upto)
  <2> HIDE DEF Loop
  <2>1. QED
    BY <1>4
<1>6. Total(board, kind) = Upto[n]
  BY DEF Total
<1> DEFINE f == Upto
<1>7. f = [k \in 0..n |-> IF k = 0 THEN 0
             ELSE f[k - 1] + MachineActivityCounts(board[k].sessions)[kind]]
  BY <1>5
<1> HIDE DEF c, S, n, f, Loop, Upto
<1>8. DOMAIN f = 0..n /\ f[0] = 0 /\ \A k \in 1..n : f[k] = f[k - 1] + c[k]
  <2>1. DOMAIN f = 0..n
    BY <1>7
  <2>2. 0 \in 0..n /\ \A k \in 1..n : k \in 0..n /\ k # 0
    BY <1>1
  <2>3. f[0] = 0
    BY <1>7, <2>2
  <2>4. ASSUME NEW k \in 1..n PROVE f[k] = f[k - 1] + c[k]
    <3>1. f[k] = f[k - 1] + MachineActivityCounts(board[k].sessions)[kind]
      BY <1>7, <2>2
    <3>2. QED
      BY <1>2, <3>1
  <2>5. QED
    BY <2>1, <2>3, <2>4
<1>9. f \in [0..n -> Nat]
  <2> DEFINE Bad == {k \in 0..n : f[k] \notin Nat}
  <2>1. ASSUME Bad # {} PROVE FALSE
    <3>1. PICK m \in Bad : \A k \in Bad : m <= k
      <4>1. Bad \in SUBSET Nat
        OBVIOUS
      <4> HIDE DEF Bad
      <4>2. QED
        BY <2>1, <4>1, LeastOf
    <3>2. m \in 0..n /\ f[m] \notin Nat
      BY <3>1
    <3>3. m # 0
      BY <1>8, <3>2
    <3>4. m \in 1..n /\ m - 1 \in 0..n /\ ~(m <= m - 1)
      BY <1>1, <3>2, <3>3
    <3>5. f[m - 1] \in Nat
      BY <3>1, <3>4
    <3>6. f[m] = f[m - 1] + c[m] /\ c[m] \in Nat
      BY <1>2, <1>8, <3>4
    <3>7. QED
      BY <3>2, <3>5, <3>6
  <2>2. f = [k \in 0..n |-> f[k]]
    BY <1>7
  <2>3. QED
    BY <2>1, <2>2
<1>10. \A k \in 1..n : f[k] = f[k - 1] + Cardinality({p \in S : p[1] = k})
  BY <1>8 DEF c
<1>11. f[n] = Cardinality(S)
  BY <1>1, <1>3, <1>8, <1>9, <1>10, SumFacts
<1>12. QED
  BY <1>6, <1>11 DEF f, S

\* A row of a lane is that of a session in it, and each of these has one.
LEMMA RowFacts ==
  ASSUME NEW board \in Boards, NEW lane \in Lanes, NEW k \in DOMAIN board,
         NEW i \in DOMAIN board[k].sessions
  PROVE  /\ (\E r \in DOMAIN Section(board, lane).rows :
                Section(board, lane).rows[r].id = board[k].sessions[i].id)
               <=> InLane(board[k].sessions[i], lane)
         /\ \A row \in Range(Section(board, lane).rows) :
              row.id = board[k].sessions[i].id => row = OverviewRow(board[k].sessions[i], lane)
<1> DEFINE s == board[k].sessions[i]
           list == Triage(board)[lane]
           rows == Section(board, lane).rows
           S == InLanePlaces(board, lane)
<1>1. rows = [r \in DOMAIN list |-> OverviewRow(SessionAt(board, list[r]), lane)]
  BY DEF Section
<1>2. <<k, i>> \in AllOf(board) /\ SessionAt(board, <<k, i>>) = s
  BY PlaceFacts
<1>3. <<k, i>> \in S <=> InLane(s, lane)
  BY <1>2 DEF InLanePlaces
<1>4. /\ \A r \in DOMAIN list : list[r] \in S
      /\ \A p \in S : \E r \in DOMAIN list : list[r] = p
  BY LaneRanks
<1>5. ASSUME NEW r \in DOMAIN list
      PROVE  SessionAt(board, list[r]).id = s.id => list[r] = <<k, i>>
  <2>1. list[r] \in AllOf(board)
    BY <1>4 DEF InLanePlaces
  <2> HIDE DEF list, s
  <2>2. QED
    BY <1>2, <2>1, ListsAssumption
<1>6. \A r \in DOMAIN list : rows[r] = OverviewRow(SessionAt(board, list[r]), lane)
  BY <1>1
<1>7. \A t : OverviewRow(t, lane).id = t.id
  BY DEF OverviewRow
<1> HIDE DEF s, list, rows, S
<1>8. DOMAIN rows = DOMAIN list
  BY <1>1
<1>9. (\E r \in DOMAIN rows : rows[r].id = s.id) <=> <<k, i>> \in S
  <2>1. ASSUME NEW r \in DOMAIN rows, rows[r].id = s.id PROVE <<k, i>> \in S
    <3>1. SessionAt(board, list[r]).id = s.id
      BY <1>6, <1>7, <1>8, <2>1
    <3>2. QED
      BY <1>4, <1>5, <1>8, <3>1
  <2>2. ASSUME <<k, i>> \in S PROVE \E r \in DOMAIN rows : rows[r].id = s.id
    <3>1. PICK r \in DOMAIN list : list[r] = <<k, i>>
      BY <1>4, <2>2
    <3>2. rows[r].id = s.id
      BY <1>2, <1>6, <1>7, <3>1
    <3>3. QED
      BY <1>8, <3>2
  <2>3. QED
    BY <2>1, <2>2
<1>10. ASSUME NEW row \in Range(rows), row.id = s.id PROVE row = OverviewRow(s, lane)
  <2>1. PICK r \in DOMAIN rows : row = rows[r]
    BY DEF Range
  <2>2. row = OverviewRow(SessionAt(board, list[r]), lane)
    BY <1>6, <1>8, <2>1
  <2>3. list[r] = <<k, i>>
    BY <1>5, <1>7, <1>8, <1>10, <2>2
  <2>4. QED
    BY <1>2, <2>2, <2>3
<1>11. QED
  BY <1>3, <1>9, <1>10 DEF s, rows

\* A session is in one lane at most, and says there what it says in its column.
LEMMA LaneIsOne ==
  ASSUME NEW s \in RecentSession, NEW a \in Lanes, NEW b \in Lanes, InLane(s, a), InLane(s, b)
  PROVE  a = b
<1>1. ASSUME NEW lane \in Lanes, InLane(s, lane)
      PROVE  SessionStatus(s) = IF lane = "done" THEN "idle" ELSE lane
  BY <1>1, LaneFacts DEF Lanes
<1>2. (IF a = "done" THEN "idle" ELSE a) = (IF b = "done" THEN "idle" ELSE b)
  BY <1>1
<1>3. QED
  BY <1>2 DEF Lanes

LEMMA LineIsOne ==
  ASSUME NEW s \in RecentSession, NEW lane \in Lanes, InLane(s, lane)
  PROVE  OverviewRow(s, lane).line = ColumnRow(s).line
<1>1. SessionStatus(s) = IF lane = "done" THEN "idle" ELSE lane
  BY LaneFacts DEF Lanes
<1>2. QED
  BY <1>1 DEF OverviewRow, ColumnRow

LEMMA DotsAgree ==
  ASSUME NEW board \in Boards
  PROVE  /\ SignalStrip(board).warns <=> \E k \in DOMAIN board : AvatarDot(board[k]) = "warn"
         /\ PanelHeading(board) = "all can run"
              => \A k \in DOMAIN board : HeaderDot(board[k]) \in {"success", "faint"}
<1>1. ASSUME NEW k \in DOMAIN board
      PROVE  /\ board[k].online \in {"unprobed", "no", "yes"}
             /\ AvatarDot(board[k]) = "warn" <=> k \in Unusable(board)
             /\ k \notin Offline(board) /\ k \notin Unusable(board)
                  => HeaderDot(board[k]) \in {"success", "faint"}
  <2>1. board[k].online \in {"unprobed", "no", "yes"}
    BY BoardFacts DEF MachineOfBoard
  <2>2. AvatarDot(board[k]) = "warn" <=> board[k].online = "yes" /\ board[k].readiness # "ready"
    BY DEF AvatarDot, UnusableReason
  <2>3. k \in Unusable(board) <=> board[k].online = "yes" /\ board[k].readiness # "ready"
    BY DEF Unusable, Online
  <2>4. k \in Offline(board) <=> board[k].online = "no"
    BY DEF Offline
  <2>5. QED
    BY <2>1, <2>2, <2>3, <2>4 DEF HeaderDot
<1>2. Unusable(board) \subseteq DOMAIN board
  BY DEF Unusable, Online
<1>3. SignalStrip(board).warns <=> Unusable(board) # {}
  BY DEF SignalStrip
<1>4. PanelHeading(board) = "all can run" => Offline(board) = {} /\ Unusable(board) = {}
  BY DEF PanelHeading
<1>5. QED
  BY <1>1, <1>2, <1>3, <1>4

LEMMA BadgeFacts ==
  ASSUME NEW counts, counts.attention \in Nat, counts.running \in Nat
  PROVE  MachineBadge(counts) = NoBadge <=> counts.attention = 0 /\ counts.running = 0
<1>1. CASE counts.attention > 0
  BY <1>1 DEF MachineBadge, NoBadge
<1>2. CASE counts.attention = 0 /\ counts.running > 0
  BY <1>2 DEF MachineBadge, NoBadge
<1>3. CASE counts.attention = 0 /\ counts.running = 0
  BY <1>3 DEF MachineBadge, NoBadge
<1>4. QED
  BY <1>1, <1>2, <1>3

LEMMA PanelCounts ==
  ASSUME NEW board \in Boards, NEW k \in DOMAIN board
  PROVE  PanelRow(board[k]).running = MachineActivityCounts(board[k].sessions).running
<1> DEFINE list == board[k].sessions
<1>1. {i \in DOMAIN list : list[i].live} = {i \in DOMAIN list : SessionStatus(list[i]) = "running"}
  <2>1. \A i \in DOMAIN list : list[i].live <=> SessionStatus(list[i]) = "running"
    BY BoardFacts, StatusFacts
  <2>2. QED
    BY <2>1
<1>2. QED
  BY <1>1 DEF PanelRow, MachineActivityCounts

LEMMA SignalsDoAgree ==
  ASSUME NEW board \in Boards
  PROVE  SignalsAgree(board)
<1> DEFINE strip == SignalStrip(board)
           Counts(k) == MachineActivityCounts(board[k].sessions)
           lanes == [lane \in Lanes |-> Section(board, lane)]
           In(lane, s) == \E i \in DOMAIN lanes[lane].rows : lanes[lane].rows[i].id = s.id
<1>1. strip.attention = Total(board, "attention") /\ strip.running = Total(board, "running")
  <2>1. /\ strip.attention = Cardinality(InLanePlaces(board, "attention"))
        /\ strip.running = Cardinality(InLanePlaces(board, "running"))
    BY LaneRanks DEF SignalStrip, Lanes
  <2>2. QED
    BY <2>1, TotalFacts
<1>2. /\ strip.warns <=> \E k \in DOMAIN board : AvatarDot(board[k]) = "warn"
      /\ (PanelHeading(board) = "all can run") =>
           \A k \in DOMAIN board : HeaderDot(board[k]) \in {"success", "faint"}
  BY DotsAgree
<1>3. ASSUME NEW k \in DOMAIN board, NEW i \in DOMAIN board[k].sessions, NEW lane \in Lanes
      PROVE  /\ In(lane, board[k].sessions[i]) <=> InLane(board[k].sessions[i], lane)
             /\ \A r \in Range(lanes[lane].rows) :
                  r.id = board[k].sessions[i].id => r = OverviewRow(board[k].sessions[i], lane)
  <2>1. lanes[lane] = Section(board, lane)
    OBVIOUS
  <2> HIDE DEF lanes
  <2>2. QED
    BY <2>1, RowFacts
<1>4. ASSUME NEW k \in DOMAIN board
      PROVE  /\ PanelRow(board[k]).running = Counts(k).running
             /\ (MachineBadge(Counts(k)) = NoBadge) <=>
                  \A i \in DOMAIN board[k].sessions :
                    ~In("attention", board[k].sessions[i]) /\ ~In("running", board[k].sessions[i])
  <2>1. PanelRow(board[k]).running = Counts(k).running
    BY PanelCounts
  <2>2. \A kind \in {"attention", "running"} :
           /\ Counts(k)[kind] \in Nat
           /\ Counts(k)[kind] = 0
                <=> \A i \in DOMAIN board[k].sessions : SessionStatus(board[k].sessions[i]) # kind
    BY CountFacts
  <2>3. ASSUME NEW i \in DOMAIN board[k].sessions, NEW kind \in {"attention", "running"}
        PROVE  In(kind, board[k].sessions[i]) <=> SessionStatus(board[k].sessions[i]) = kind
    <3>1. kind \in Lanes
      BY DEF Lanes
    <3>2. In(kind, board[k].sessions[i]) <=> InLane(board[k].sessions[i], kind)
      BY <1>3, <3>1
    <3>3. board[k].sessions[i] \in RecentSession
      BY BoardFacts
    <3> HIDE DEF In
    <3>4. QED
      BY <3>1, <3>2, <3>3, LaneFacts
  <2>4. MachineBadge(Counts(k)) = NoBadge <=> Counts(k).attention = 0 /\ Counts(k).running = 0
    BY <2>2, BadgeFacts
  <2> HIDE DEF In, Counts
  <2>5. QED
    BY <2>1, <2>2, <2>3, <2>4
<1>5. ASSUME NEW k \in DOMAIN board, NEW i \in DOMAIN board[k].sessions
      PROVE  LET s == board[k].sessions[i]
             IN /\ Cardinality({lane \in Lanes : In(lane, s)}) <= 1
                /\ \A lane \in Lanes : \A r \in Range(lanes[lane].rows) :
                     r.id = s.id => r.line = ColumnRow(s).line
  <2> DEFINE s == board[k].sessions[i]
             T == {lane \in Lanes : In(lane, s)}
  <2>1. s \in RecentSession
    BY BoardFacts
  <2>2. \A a, b \in T : a = b
    <3>1. \A lane \in Lanes : In(lane, s) => InLane(s, lane)
      BY <1>3
    <3> HIDE DEF In, s
    <3>2. QED
      BY <2>1, <3>1, LaneIsOne
  <2>3. Cardinality(T) <= 1
    <3>1. CASE T = {}
      BY <3>1, FS_EmptySet
    <3>2. CASE T # {}
      <4>1. PICK a \in T : TRUE
        BY <3>2
      <4>2. T = {a}
        BY <2>2, <4>1
      <4>3. Cardinality({a}) = 1
        BY FS_Singleton
      <4> HIDE DEF T
      <4>4. Cardinality(T) = 1
        BY <4>2, <4>3
      <4>5. QED
        BY <4>4
    <3>3. QED
      BY <3>1, <3>2
  <2>4. ASSUME NEW lane \in Lanes, NEW r \in Range(lanes[lane].rows), r.id = s.id
        PROVE  r.line = ColumnRow(s).line
    <3>1. r = OverviewRow(s, lane)
      BY <1>3, <2>4
    <3>2. InLane(s, lane)
      <4>1. PICK j \in DOMAIN lanes[lane].rows : r = lanes[lane].rows[j]
        BY DEF Range
      <4>2. In(lane, s)
        BY <2>4, <4>1
      <4>3. QED
        BY <1>3, <4>2
    <3> HIDE DEF s
    <3>3. QED
      BY <2>1, <3>1, <3>2, LineIsOne
  <2>5. QED
    BY <2>3, <2>4
<1>6. QED
  BY <1>1, <1>2, <1>4, <1>5 DEF SignalsAgree

\* Whatever the machines are and list, the rail, the columns and the overview tell the same:
\* machineActivityCounts, sessionStatus and Overview's triage count the same sessions.
THEOREM SignalsStayAgreed == Spec => []AllSignalsAgree
<1>1. AllSignalsAgree
  BY SignalsDoAgree DEF AllSignalsAgree
<1>2. QED
  BY <1>1, PTL

----------------------------------------------------------------------------
(* The columns *)

\* A list of sessions, none of them twice.
Listing(list) ==
  /\ list \in Seq(RecentSession)
  /\ \A i, j \in DOMAIN list : list[i].id = list[j].id => i = j

Dates == {"updated", "created"}
LEMMA DateType ==
  ASSUME NEW s \in RecentSession, NEW field \in Dates
  PROVE  s[field] \in Int
<1>1. s["updated"] \in Int /\ s["created"] \in Int
  BY DEF RecentSession
<1>2. QED
  BY <1>1 DEF Dates

LEMMA ListingFacts ==
  ASSUME NEW list, Listing(list)
  PROVE  /\ DOMAIN list \in SUBSET Nat /\ IsFiniteSet(DOMAIN list)
         /\ \A i \in DOMAIN list : list[i] \in RecentSession
         /\ Len(list) \in Nat /\ DOMAIN list = 1..Len(list)
<1>1. list \in Seq(RecentSession)
  BY DEF Listing
<1>2. Len(list) \in Nat /\ DOMAIN list = 1..Len(list) /\ \A i \in DOMAIN list : list[i] \in RecentSession
  BY <1>1
<1>3. IsFiniteSet(1..Len(list))
  <2> DEFINE n == Len(list)
  <2>1. n \in Nat
    BY <1>2
  <2> HIDE DEF n
  <2>2. IsFiniteSet(1..n)
    BY <2>1, FS_Interval
  <2>3. QED
    BY <2>2 DEF n
<1>4. QED
  BY <1>2, <1>3

\* Some of a list, in some order of their places, is a list of these.
LEMMA AtFacts ==
  ASSUME NEW list, Listing(list), NEW S \in SUBSET DOMAIN list, NEW R, NEW s, IsRanking(s, S, R)
  PROVE  /\ Listing(At(list, s)) /\ DOMAIN At(list, s) = DOMAIN s
         /\ \A k \in DOMAIN s : s[k] \in S /\ At(list, s)[k] = list[s[k]]
         /\ \A i \in S : \E k \in DOMAIN s : At(list, s)[k] = list[i]
<1> DEFINE t == At(list, s)
<1>1. t = [k \in DOMAIN s |-> list[s[k]]]
  BY DEF At
<1>2. s \in Seq(S) /\ Len(s) \in Nat /\ DOMAIN s = 1..Len(s)
  BY DEF IsRanking
<1>3. \A k \in DOMAIN s : s[k] \in S /\ s[k] \in DOMAIN list
  BY <1>2
<1>4. DOMAIN t = DOMAIN s /\ \A k \in DOMAIN s : t[k] = list[s[k]]
  BY <1>1
<1> HIDE DEF t
<1>5. t \in Seq(RecentSession)
  <2>1. \A k \in DOMAIN s : t[k] \in RecentSession
    BY <1>3, <1>4, ListingFacts
  <2>2. t \in [1..Len(s) -> RecentSession]
    BY <1>1, <1>2, <1>4, <2>1
  <2>3. QED
    BY <1>2, <2>2
<1>6. ASSUME NEW k \in DOMAIN t, NEW l \in DOMAIN t, t[k].id = t[l].id PROVE k = l
  <2>1. list[s[k]].id = list[s[l]].id
    BY <1>4, <1>6
  <2>2. s[k] = s[l]
    BY <1>3, <1>4, <2>1 DEF Listing
  <2>3. QED
    BY <1>4, <2>2 DEF IsRanking
<1>7. \A i \in S : \E k \in DOMAIN s : t[k] = list[i]
  <2>1. ASSUME NEW i \in S PROVE \E k \in DOMAIN s : t[k] = list[i]
    <3>1. PICK k \in DOMAIN s : s[k] = i
      BY DEF IsRanking
    <3>2. QED
      BY <1>4, <3>1
  <2>2. QED
    BY <2>1
<1>8. QED
  BY <1>3, <1>4, <1>5, <1>6, <1>7 DEF Listing, t

\* The query leaves the sessions that match.
LEMMA SearchedFacts ==
  ASSUME NEW list, Listing(list), NEW searching \in BOOLEAN
  PROVE  /\ Listing(Searched(list, searching))
         /\ Range(Searched(list, searching)) = {s \in Range(list) : searching => s.matches}
<1> DEFINE S == {i \in DOMAIN list : searching => list[i].matches}
           s == Ranked(S, Upwards(S))
           t == At(list, s)
<1>1. S \in SUBSET DOMAIN list /\ S \in SUBSET Int
  <2>1. S \in SUBSET DOMAIN list
    OBVIOUS
  <2>2. DOMAIN list \in SUBSET Nat
    BY ListingFacts
  <2>3. QED
    BY <2>1, <2>2
<1>2. t = Searched(list, searching)
  BY DEF Searched
<1>3. \A i : i \in S <=> i \in DOMAIN list /\ (searching => list[i].matches)
  OBVIOUS
<1> HIDE DEF S
<1>4. IsFiniteSet(S)
  BY <1>1, ListingFacts, FS_Subset
<1>5. IsOrder(S, Upwards(S))
  BY <1>1, UpwardsFacts
<1>6. IsRanking(s, S, Upwards(S))
  BY <1>4, <1>5, RankedFacts
<1> HIDE DEF s
<1>7. /\ Listing(t) /\ DOMAIN t = DOMAIN s
      /\ \A k \in DOMAIN s : s[k] \in S /\ t[k] = list[s[k]]
      /\ \A i \in S : \E k \in DOMAIN s : t[k] = list[i]
  BY <1>1, <1>6, AtFacts
<1> HIDE DEF t
<1>8. ASSUME NEW x PROVE x \in Range(t) <=> x \in Range(list) /\ (searching => x.matches)
  <2>1. ASSUME x \in Range(t) PROVE x \in Range(list) /\ (searching => x.matches)
    <3>1. PICK k \in DOMAIN s : x = t[k]
      BY <1>7, <2>1 DEF Range
    <3>2. s[k] \in S /\ x = list[s[k]]
      BY <1>7, <3>1
    <3>3. s[k] \in DOMAIN list /\ (searching => list[s[k]].matches)
      BY <1>3, <3>2
    <3>4. QED
      BY <3>2, <3>3 DEF Range
  <2>2. ASSUME x \in Range(list), searching => x.matches PROVE x \in Range(t)
    <3>1. PICK i \in DOMAIN list : x = list[i]
      BY <2>2 DEF Range
    <3>2. i \in S
      BY <1>3, <2>2, <3>1
    <3>3. PICK k \in DOMAIN s : t[k] = list[i]
      BY <1>7, <3>2
    <3>4. QED
      BY <1>7, <3>1, <3>3 DEF Range
  <2>3. QED
    BY <2>1, <2>2
<1>9. Range(t) = {x \in Range(list) : searching => x.matches}
  BY <1>8
<1>10. QED
  BY <1>2, <1>7, <1>9

\* A group has the sessions with its key, each once, the newest first.
IsGroup(g, list, keys, key, field) ==
  /\ g.key = key /\ Listing(g.sessions)
  /\ \A k \in DOMAIN g.sessions : \E i \in DOMAIN list : keys[i] = key /\ g.sessions[k] = list[i]
  /\ \A i \in DOMAIN list : keys[i] = key => \E k \in DOMAIN g.sessions : g.sessions[k] = list[i]
  /\ \A k, l \in DOMAIN g.sessions : k < l => g.sessions[k][field] >= g.sessions[l][field]

LEMMA GroupFacts ==
  ASSUME NEW list, Listing(list), NEW keys, NEW key, NEW field \in Dates
  PROVE  IsGroup(GroupOf(list, keys, key, field), list, keys, key, field)
<1> DEFINE S == {i \in DOMAIN list : keys[i] = key}
           date == Each(list, field)
           s == Sorted(S, Upwards(S), date)
           t == At(list, s)
           g == GroupOf(list, keys, key, field)
<1>1. S \in SUBSET DOMAIN list /\ S \in SUBSET Int
  <2>1. S \in SUBSET DOMAIN list
    OBVIOUS
  <2>2. DOMAIN list \in SUBSET Nat
    BY ListingFacts
  <2>3. QED
    BY <2>1, <2>2
<1>2. g = [key |-> key, sessions |-> t]
  BY DEF GroupOf
<1>3. \A i : i \in S <=> i \in DOMAIN list /\ keys[i] = key
  OBVIOUS
<1>4. \A i \in DOMAIN list : date[i] = list[i][field] /\ date[i] \in Int
  <2>1. \A i \in DOMAIN list : date[i] = list[i][field]
    BY DEF Each
  <2>2. \A i \in DOMAIN list : list[i][field] \in Int
    BY ListingFacts, DateType
  <2>3. QED
    BY <2>1, <2>2
<1> HIDE DEF S, date
<1>5. IsFiniteSet(S) /\ IsOrder(S, Upwards(S)) /\ \A i \in S : date[i] \in Int
  BY <1>1, <1>4, ListingFacts, FS_Subset, UpwardsFacts
<1>6. /\ \E R : IsRanking(s, S, R)
      /\ \A k, l \in DOMAIN s : k < l => date[s[k]] >= date[s[l]]
  BY <1>5, SortedFacts
<1> HIDE DEF s
<1>7. /\ Listing(t) /\ DOMAIN t = DOMAIN s
      /\ \A k \in DOMAIN s : s[k] \in S /\ t[k] = list[s[k]]
      /\ \A i \in S : \E k \in DOMAIN s : t[k] = list[i]
  BY <1>1, <1>6, AtFacts
<1> HIDE DEF t
<1>8. ASSUME NEW k \in DOMAIN t PROVE \E i \in DOMAIN list : keys[i] = key /\ t[k] = list[i]
  BY <1>3, <1>7
<1>9. ASSUME NEW i \in DOMAIN list, keys[i] = key PROVE \E k \in DOMAIN t : t[k] = list[i]
  <2>1. i \in S
    BY <1>3, <1>9
  <2>2. QED
    BY <1>7, <2>1
<1>10. ASSUME NEW k \in DOMAIN t, NEW l \in DOMAIN t, k < l PROVE t[k][field] >= t[l][field]
  <2>1. s[k] \in DOMAIN list /\ s[l] \in DOMAIN list
    BY <1>1, <1>7
  <2>2. date[s[k]] >= date[s[l]]
    BY <1>6, <1>7, <1>10
  <2>3. t[k][field] = date[s[k]] /\ t[l][field] = date[s[l]]
    BY <1>4, <1>7, <2>1
  <2>4. QED
    BY <2>2, <2>3
<1>11. g.key = key /\ g.sessions = t
  BY <1>2
<1> HIDE DEF g
<1>12. IsGroup(g, list, keys, key, field)
  BY <1>7, <1>8, <1>9, <1>10, <1>11 DEF IsGroup
<1>13. QED
  BY <1>12 DEF g

\* Each key has a first place.
LEMMA FirstsFacts ==
  ASSUME NEW keys, NEW n \in Nat, DOMAIN keys = 1..n
  PROVE  /\ Firsts(keys) \in SUBSET DOMAIN keys
         /\ \A i \in DOMAIN keys : \E j \in Firsts(keys) : keys[j] = keys[i]
         /\ \A i, j \in Firsts(keys) : keys[i] = keys[j] => i = j
<1>1. Firsts(keys) \in SUBSET DOMAIN keys
  BY DEF Firsts
<1>2. ASSUME NEW i \in DOMAIN keys PROVE \E j \in Firsts(keys) : keys[j] = keys[i]
  <2> DEFINE S == {j \in DOMAIN keys : keys[j] = keys[i]}
  <2>1. PICK m \in S : \A j \in S : m <= j
    <3>1. S \in SUBSET Nat /\ i \in S
      OBVIOUS
    <3> HIDE DEF S
    <3>2. QED
      BY <3>1, LeastOf
  <2>2. m \in DOMAIN keys /\ keys[m] = keys[i] /\ m \in Nat
    BY <2>1
  <2>3. ASSUME NEW j \in 1..m - 1 PROVE keys[j] # keys[m]
    <3>1. j \in 1..m /\ ~(m <= j)
      BY <2>2
    <3>2. j \in DOMAIN keys /\ j \notin S
      BY <2>1, <2>2, <3>1
    <3>3. QED
      BY <2>2, <3>2
  <2>4. m \in Firsts(keys)
    BY <2>2, <2>3 DEF Firsts
  <2>5. QED
    BY <2>2, <2>4
<1>3. ASSUME NEW i \in Firsts(keys), NEW j \in Firsts(keys), keys[i] = keys[j], i < j PROVE FALSE
  <2>1. i \in DOMAIN keys /\ j \in DOMAIN keys
    BY <1>1
  <2>2. i \in 1..j - 1
    BY <1>3, <2>1
  <2>3. QED
    BY <1>3, <2>1, <2>2 DEF Firsts
<1>4. ASSUME NEW i \in Firsts(keys), NEW j \in Firsts(keys), keys[i] = keys[j] PROVE i = j
  <2>1. i \in Nat /\ j \in Nat
    BY <1>1
  <2>2. i < j \/ j < i \/ i = j
    BY <2>1
  <2>3. QED
    BY <1>3, <1>4, <2>2
<1>5. QED
  BY <1>1, <1>2, <1>4

\* The groups of a list: each session under one header, and no header without any.
IsGrouping(groups, list, keys, field) ==
  /\ \A k \in DOMAIN groups : IsGroup(groups[k], list, keys, groups[k].key, field)
  /\ \A k \in DOMAIN groups : groups[k].sessions # <<>>
  /\ \A k, l \in DOMAIN groups : groups[k].key = groups[l].key => k = l
  /\ \A i \in DOMAIN list : \E k \in DOMAIN groups : groups[k].key = keys[i]

LEMMA GroupedFacts ==
  ASSUME NEW list, Listing(list), NEW keys, DOMAIN keys = DOMAIN list, NEW field \in Dates,
         NEW number, \A i \in Firsts(keys) : number[i] \in Int
  PROVE  /\ IsGrouping(Grouped(list, keys, field, number), list, keys, field)
         /\ DOMAIN Grouped(list, keys, field, number) \in SUBSET Nat
         /\ \E order : \A k \in DOMAIN Grouped(list, keys, field, number) :
              /\ order[k] \in Firsts(keys)
              /\ Grouped(list, keys, field, number)[k] = GroupOf(list, keys, keys[order[k]], field)
              /\ \A l \in DOMAIN Grouped(list, keys, field, number) :
                   k < l => number[order[k]] >= number[order[l]] /\ order[k] # order[l]
<1> DEFINE S == Firsts(keys)
           order == Sorted(S, Upwards(S), number)
           groups == Grouped(list, keys, field, number)
<1>1. /\ S \in SUBSET DOMAIN list
      /\ \A i \in DOMAIN list : \E j \in S : keys[j] = keys[i]
      /\ \A i, j \in S : keys[i] = keys[j] => i = j
  <2>1. Len(list) \in Nat /\ DOMAIN keys = 1..Len(list)
    BY ListingFacts
  <2>2. QED
    BY <2>1, FirstsFacts
<1>2. IsFiniteSet(S) /\ IsOrder(S, Upwards(S))
  <2>1. S \in SUBSET Int
    BY <1>1, ListingFacts
  <2>2. QED
    BY <1>1, <2>1, ListingFacts, FS_Subset, UpwardsFacts
<1>3. groups = [k \in DOMAIN order |-> GroupOf(list, keys, keys[order[k]], field)]
  BY DEF Grouped
<1>4. /\ \E R : IsRanking(order, S, R)
      /\ \A k, l \in DOMAIN order : k < l => number[order[k]] >= number[order[l]]
  <2> HIDE DEF S
  <2>1. QED
    BY <1>2, SortedFacts DEF S
<1> HIDE DEF S, order, groups
<1>5. /\ order \in Seq(S) /\ Len(order) \in Nat /\ DOMAIN order = 1..Len(order)
      /\ \A p \in S : \E k \in DOMAIN order : order[k] = p
      /\ \A k, l \in DOMAIN order : order[k] = order[l] => k = l
  BY <1>4 DEF IsRanking
<1>6. \A k \in DOMAIN order : order[k] \in S /\ order[k] \in DOMAIN list
  BY <1>1, <1>5
<1>7. /\ DOMAIN groups = DOMAIN order
      /\ \A k \in DOMAIN order : groups[k] = GroupOf(list, keys, keys[order[k]], field)
  BY <1>3
<1>8. ASSUME NEW k \in DOMAIN groups
      PROVE  /\ IsGroup(groups[k], list, keys, keys[order[k]], field)
             /\ groups[k].key = keys[order[k]] /\ groups[k].sessions # <<>>
  <2>1. IsGroup(groups[k], list, keys, keys[order[k]], field)
    BY <1>7, GroupFacts
  <2>2. PICK j \in DOMAIN groups[k].sessions : TRUE
    BY <1>6, <1>7, <2>1 DEF IsGroup
  <2>3. groups[k].sessions # <<>>
    BY <2>2
  <2>4. QED
    BY <2>1, <2>3 DEF IsGroup
<1>9. \A k, l \in DOMAIN groups : groups[k].key = groups[l].key => k = l
  <2>1. ASSUME NEW k \in DOMAIN groups, NEW l \in DOMAIN groups, groups[k].key = groups[l].key
        PROVE  k = l
    <3>1. keys[order[k]] = keys[order[l]]
      BY <1>8, <2>1
    <3>2. order[k] = order[l]
      BY <1>1, <1>6, <1>7, <3>1
    <3>3. QED
      BY <1>5, <1>7, <3>2
  <2>2. QED
    BY <2>1
<1>10. ASSUME NEW i \in DOMAIN list PROVE \E k \in DOMAIN groups : groups[k].key = keys[i]
  <2>1. PICK j \in S : keys[j] = keys[i]
    BY <1>1
  <2>2. PICK k \in DOMAIN order : order[k] = j
    BY <1>5
  <2>3. QED
    BY <1>7, <1>8, <2>1, <2>2
<1>11. IsGrouping(groups, list, keys, field)
  BY <1>8, <1>9, <1>10 DEF IsGrouping
<1>12. ASSUME NEW k \in DOMAIN groups
       PROVE  /\ order[k] \in S
              /\ groups[k] = GroupOf(list, keys, keys[order[k]], field)
              /\ \A l \in DOMAIN groups :
                   k < l => number[order[k]] >= number[order[l]] /\ order[k] # order[l]
  <2>1. ASSUME NEW l \in DOMAIN groups, k < l
        PROVE  number[order[k]] >= number[order[l]] /\ order[k] # order[l]
    <3>1. k \in Nat /\ l \in Nat /\ k # l
      BY <1>5, <1>7, <2>1
    <3>2. QED
      BY <1>4, <1>5, <1>7, <2>1, <3>1
  <2>2. QED
    BY <1>6, <1>7, <2>1
<1>13. DOMAIN groups \in SUBSET Nat
  BY <1>5, <1>7
<1>14. QED
  BY <1>11, <1>12, <1>13 DEF groups, S

\* What a header shows of a list of sessions, whatever its keys.
Headed(groups) == UNION {{k} \X DOMAIN groups[k].sessions : k \in DOMAIN groups}
LEMMA HeadedFacts ==
  ASSUME NEW list, Listing(list), NEW keys, NEW field, NEW groups,
         IsGrouping(groups, list, keys, field)
  PROVE  /\ {groups[p[1]].sessions[p[2]] : p \in Headed(groups)} = Range(list)
         /\ \A p, q \in Headed(groups) :
              groups[p[1]].sessions[p[2]].id = groups[q[1]].sessions[q[2]].id => p = q
         /\ \A p, q \in Headed(groups) :
              p[1] = q[1] /\ p[2] < q[2]
                => groups[p[1]].sessions[p[2]][field] >= groups[q[1]].sessions[q[2]][field]
<1> DEFINE Shows(p) == groups[p[1]].sessions[p[2]]
<1>1. \A k \in DOMAIN groups : \A j \in DOMAIN groups[k].sessions :
        <<k, j>> \in Headed(groups) /\ Shows(<<k, j>>) = groups[k].sessions[j]
  BY DEF Headed
<1>2. \A p \in Headed(groups) :
        p = <<p[1], p[2]>> /\ p[1] \in DOMAIN groups /\ p[2] \in DOMAIN groups[p[1]].sessions
  BY DEF Headed
<1>3. ASSUME NEW p \in Headed(groups)
      PROVE  \E i \in DOMAIN list : keys[i] = groups[p[1]].key /\ Shows(p) = list[i]
  BY <1>2 DEF IsGrouping, IsGroup
<1>4. ASSUME NEW x PROVE x \in {Shows(p) : p \in Headed(groups)} <=> x \in Range(list)
  <2>1. ASSUME NEW p \in Headed(groups), x = Shows(p) PROVE x \in Range(list)
    BY <1>3, <2>1 DEF Range
  <2>2. ASSUME NEW i \in DOMAIN list, x = list[i] PROVE \E p \in Headed(groups) : x = Shows(p)
    <3>1. PICK k \in DOMAIN groups : groups[k].key = keys[i]
      BY DEF IsGrouping
    <3>2. PICK j \in DOMAIN groups[k].sessions : groups[k].sessions[j] = list[i]
      BY <3>1 DEF IsGrouping, IsGroup
    <3>3. QED
      BY <1>1, <2>2, <3>2
  <2> HIDE DEF Shows
  <2>3. QED
    BY <2>1, <2>2 DEF Range
<1>5. ASSUME NEW p \in Headed(groups), NEW q \in Headed(groups), Shows(p).id = Shows(q).id
      PROVE  p = q
  <2>1. PICK i \in DOMAIN list : keys[i] = groups[p[1]].key /\ Shows(p) = list[i]
    BY <1>3
  <2>2. PICK j \in DOMAIN list : keys[j] = groups[q[1]].key /\ Shows(q) = list[j]
    BY <1>3
  <2>3. i = j
    BY <1>5, <2>1, <2>2 DEF Listing
  <2>4. p[1] = q[1]
    BY <1>2, <2>1, <2>2, <2>3 DEF IsGrouping
  <2>5. Listing(groups[p[1]].sessions)
    BY <1>2 DEF IsGrouping, IsGroup
  <2>6. p[2] = q[2]
    BY <1>2, <1>5, <2>4, <2>5 DEF Listing
  <2>7. QED
    BY <1>2, <2>4, <2>6
<1>6. ASSUME NEW p \in Headed(groups), NEW q \in Headed(groups), p[1] = q[1], p[2] < q[2]
      PROVE  Shows(p)[field] >= Shows(q)[field]
  BY <1>2, <1>6 DEF IsGrouping, IsGroup
<1>7. {Shows(p) : p \in Headed(groups)} = Range(list)
  <2> HIDE DEF Shows
  <2>1. QED
    BY <1>4
<1>8. QED
  BY <1>5, <1>6, <1>7

\* A later date is in no later bucket.
LEMMA BucketFacts ==
  ASSUME NEW a \in Int, NEW b \in Int
  PROVE  /\ TimeBucket(a) \in Int
         /\ TimeBucket(a) < TimeBucket(b) => a >= b
<1> DEFINE S(d) == {k \in DOMAIN BucketStarts : d < BucketStarts[k]}
<1>1. DOMAIN BucketStarts = 1..4 /\ \A k \in 1..4 : BucketStarts[k] \in Int
  <2>1. /\ BucketStarts[1] = 0 /\ BucketStarts[2] = -4
        /\ BucketStarts[3] = -24 /\ BucketStarts[4] = -116
    BY DEF BucketStarts, Day
  <2>2. DOMAIN BucketStarts = 1..4
    BY DEF BucketStarts
  <2>3. \A k \in 1..4 : k = 1 \/ k = 2 \/ k = 3 \/ k = 4
    OBVIOUS
  <2>4. QED
    BY <2>1, <2>2, <2>3
<1>2. IsFiniteSet(1..4)
  <2> DEFINE n == 4
  <2>1. n \in Int
    OBVIOUS
  <2> HIDE DEF n
  <2>2. IsFiniteSet(1..n)
    BY <2>1, FS_Interval
  <2>3. QED
    BY <2>2 DEF n
<1>3. \A d : S(d) \in SUBSET 1..4
  BY <1>1
<1>4. \A d : TimeBucket(d) = Cardinality(S(d))
  BY DEF TimeBucket
<1>5. a <= b => S(b) \in SUBSET S(a)
  <2>1. ASSUME a <= b, NEW k \in DOMAIN BucketStarts, b < BucketStarts[k] PROVE a < BucketStarts[k]
    <3>1. BucketStarts[k] \in Int
      BY <1>1
    <3>2. QED
      BY <2>1, <3>1
  <2>2. QED
    BY <2>1
<1> HIDE DEF S
<1>6. \A d : IsFiniteSet(S(d)) /\ Cardinality(S(d)) \in Nat
  <2>1. ASSUME NEW d PROVE IsFiniteSet(S(d)) /\ Cardinality(S(d)) \in Nat
    <3>1. IsFiniteSet(S(d))
      BY <1>2, <1>3, FS_Subset
    <3>2. QED
      BY <3>1, FS_CardinalityType
  <2>2. QED
    BY <2>1
<1>7. a <= b => Cardinality(S(b)) <= Cardinality(S(a))
  BY <1>5, <1>6, FS_Subset
<1>8. TimeBucket(a) \in Nat /\ TimeBucket(b) \in Nat
  BY <1>4, <1>6
<1>9. a <= b => TimeBucket(b) <= TimeBucket(a)
  BY <1>4, <1>7
<1>10. QED
  BY <1>8, <1>9

\* By project, the groups are of the list, and the one updated last comes first.
LEMMA ByProjectFacts ==
  ASSUME NEW list, Listing(list)
  PROVE  /\ \E keys : IsGrouping(ByProject(list), list, keys, "updated")
         /\ \A k, l \in DOMAIN ByProject(list) :
              k < l => Newest(ByProject(list)[k]) >= Newest(ByProject(list)[l])
<1> DEFINE dirs == Each(list, "dir")
           Of(i) == GroupOf(list, dirs, dirs[i], "updated")
           number == [i \in Firsts(dirs) |-> Newest(Of(i))]
           groups == Grouped(list, dirs, "updated", number)
<1>1. groups = ByProject(list)
  BY DEF ByProject
<1>2. DOMAIN dirs = DOMAIN list
  BY DEF Each
<1>3. "updated" \in Dates
  BY DEF Dates
<1>4. \A i \in Firsts(dirs) : number[i] = Newest(Of(i))
  OBVIOUS
<1> HIDE DEF dirs, number
<1>5. ASSUME NEW i \in Firsts(dirs) PROVE Newest(Of(i)) \in Int
  <2>1. i \in DOMAIN list
    BY <1>2 DEF Firsts
  <2>2. IsGroup(Of(i), list, dirs, dirs[i], "updated")
    BY <1>3, GroupFacts
  <2> HIDE DEF Of
  <2>3. PICK k \in DOMAIN Of(i).sessions : Of(i).sessions[k] = list[i]
    BY <2>1, <2>2 DEF IsGroup
  <2> DEFINE t == Of(i).sessions
  <2>4. t \in Seq(RecentSession) /\ k \in DOMAIN t
    BY <2>2 DEF IsGroup, Listing
  <2>5. Newest(Of(i)) = Head(t).updated
    BY DEF Newest
  <2> HIDE DEF t
  <2>6. Head(t) \in RecentSession
    <3>1. t # <<>>
      BY <2>4
    <3>2. QED
      BY <2>4, <3>1
  <2>7. QED
    BY <2>5, <2>6 DEF RecentSession
<1>6. \A i \in Firsts(dirs) : number[i] \in Int
  BY <1>4, <1>5
<1>7. /\ IsGrouping(groups, list, dirs, "updated")
      /\ \E order : \A k \in DOMAIN groups :
              /\ order[k] \in Firsts(dirs)
              /\ groups[k] = GroupOf(list, dirs, dirs[order[k]], "updated")
              /\ \A l \in DOMAIN groups :
                   k < l => number[order[k]] >= number[order[l]] /\ order[k] # order[l]
  BY <1>2, <1>3, <1>6, GroupedFacts
<1>8. PICK order : \A k \in DOMAIN groups :
              /\ order[k] \in Firsts(dirs)
              /\ groups[k] = Of(order[k])
              /\ \A l \in DOMAIN groups : k < l => number[order[k]] >= number[order[l]]
  BY <1>7
<1> HIDE DEF groups, Of
<1>9. ASSUME NEW k \in DOMAIN groups, NEW l \in DOMAIN groups, k < l
      PROVE  Newest(groups[k]) >= Newest(groups[l])
  BY <1>4, <1>8, <1>9
<1>10. QED
  BY <1>1, <1>7, <1>9

\* By age, the groups are of the list, and no session of a later group is newer.
LEMMA ByAgeFacts ==
  ASSUME NEW list, Listing(list), NEW mode \in Dates
  PROVE  /\ \E keys : IsGrouping(ByAge(list, mode, mode), list, keys, mode)
         /\ \A p, q \in Headed(ByAge(list, mode, mode)) :
              p[1] < q[1] => ByAge(list, mode, mode)[p[1]].sessions[p[2]][mode]
                               >= ByAge(list, mode, mode)[q[1]].sessions[q[2]][mode]
<1> DEFINE buckets == [i \in DOMAIN list |-> TimeBucket(list[i][mode])]
           number == [i \in Firsts(buckets) |-> -buckets[i]]
           groups == Grouped(list, buckets, mode, number)
<1>1. groups = ByAge(list, mode, mode)
  BY DEF ByAge
<1>2. DOMAIN buckets = DOMAIN list
  OBVIOUS
<1>3. \A i \in DOMAIN list : buckets[i] = TimeBucket(list[i][mode]) /\ list[i][mode] \in Int
  BY ListingFacts, DateType
<1> HIDE DEF buckets
<1>4. \A i \in DOMAIN list : buckets[i] \in Int
  BY <1>3, BucketFacts
<1>5. \A i \in Firsts(buckets) : number[i] = -buckets[i] /\ i \in DOMAIN list
  BY <1>2 DEF Firsts
<1> HIDE DEF number
<1>6. \A i \in Firsts(buckets) : number[i] \in Int
  BY <1>4, <1>5
<1>7. /\ IsGrouping(groups, list, buckets, mode)
      /\ \E order : \A k \in DOMAIN groups :
              /\ order[k] \in Firsts(buckets)
              /\ groups[k] = GroupOf(list, buckets, buckets[order[k]], mode)
              /\ \A l \in DOMAIN groups :
                   k < l => number[order[k]] >= number[order[l]] /\ order[k] # order[l]
  BY <1>2, <1>6, GroupedFacts
<1>8. PICK order : \A k \in DOMAIN groups :
              /\ order[k] \in Firsts(buckets)
              /\ groups[k] = GroupOf(list, buckets, buckets[order[k]], mode)
              /\ \A l \in DOMAIN groups :
                   k < l => number[order[k]] >= number[order[l]] /\ order[k] # order[l]
  BY <1>7
<1> HIDE DEF groups
<1>9. ASSUME NEW k \in DOMAIN groups PROVE groups[k].key = buckets[order[k]]
  <2>1. groups[k] = GroupOf(list, buckets, buckets[order[k]], mode)
    BY <1>8
  <2> DEFINE key == buckets[order[k]]
             g == GroupOf(list, buckets, key, mode)
  <2>2. g.key = key
    BY DEF GroupOf
  <2> HIDE DEF g
  <2>3. QED
    BY <2>1, <2>2 DEF g
<1>10. ASSUME NEW k \in DOMAIN groups, NEW l \in DOMAIN groups, k < l
       PROVE  groups[k].key < groups[l].key
  <2>1. /\ order[k] \in Firsts(buckets) /\ order[l] \in Firsts(buckets)
        /\ number[order[k]] >= number[order[l]] /\ order[k] # order[l]
    BY <1>8, <1>10
  <2>2. buckets[order[k]] \in Int /\ buckets[order[l]] \in Int
    BY <1>4, <1>5, <2>1
  <2>3. buckets[order[k]] <= buckets[order[l]]
    <3>1. -buckets[order[k]] >= -buckets[order[l]]
      BY <1>5, <2>1
    <3>2. QED
      BY <2>2, <3>1
  <2>4. buckets[order[k]] # buckets[order[l]]
    <3>1. Len(list) \in Nat /\ DOMAIN buckets = 1..Len(list)
      BY <1>2, ListingFacts
    <3>2. QED
      BY <2>1, <3>1, FirstsFacts
  <2>5. QED
    BY <1>9, <2>2, <2>3, <2>4
<1>11. ASSUME NEW p \in Headed(groups), NEW q \in Headed(groups), p[1] < q[1]
       PROVE  groups[p[1]].sessions[p[2]][mode] >= groups[q[1]].sessions[q[2]][mode]
  <2>1. /\ p[1] \in DOMAIN groups /\ p[2] \in DOMAIN groups[p[1]].sessions
        /\ q[1] \in DOMAIN groups /\ q[2] \in DOMAIN groups[q[1]].sessions
    BY DEF Headed
  <2>2. PICK i \in DOMAIN list :
          buckets[i] = groups[p[1]].key /\ groups[p[1]].sessions[p[2]] = list[i]
    BY <1>7, <2>1 DEF IsGrouping, IsGroup
  <2>3. PICK j \in DOMAIN list :
          buckets[j] = groups[q[1]].key /\ groups[q[1]].sessions[q[2]] = list[j]
    BY <1>7, <2>1 DEF IsGrouping, IsGroup
  <2>4. TimeBucket(list[i][mode]) < TimeBucket(list[j][mode])
    BY <1>3, <1>10, <1>11, <2>1, <2>2, <2>3
  <2>5. list[i][mode] >= list[j][mode]
    BY <1>3, <2>4, BucketFacts
  <2>6. QED
    BY <2>2, <2>3, <2>5
<1>12. QED
  BY <1>1, <1>7, <1>11

LEMMA ColumnDoesShowAll ==
  ASSUME NEW list \in Lists
  PROVE  ColumnIsWhole(list)
<1>1. Listing(list)
  BY ListsAssumption DEF Listing
<1> SUFFICES ASSUME NEW mode \in Modes, NEW searching \in BOOLEAN
    PROVE
    LET groups == GroupSessions(Searched(list, searching), mode)
        places == UNION {{k} \X DOMAIN groups[k].sessions : k \in DOMAIN groups}
        Shows(p) == groups[p[1]].sessions[p[2]]
        field == IF mode = "project" THEN "updated" ELSE mode
    IN /\ {Shows(p) : p \in places} = {s \in Range(list) : searching => s.matches}
       /\ \A p, q \in places : Shows(p).id = Shows(q).id => p = q
       /\ \A k \in DOMAIN groups : groups[k].sessions # <<>>
       /\ \A k, l \in DOMAIN groups : groups[k].key = groups[l].key => k = l
       /\ \A p, q \in places : p[1] = q[1] /\ p[2] < q[2] => Shows(p)[field] >= Shows(q)[field]
       /\ IF mode = "project"
            THEN \A k, l \in DOMAIN groups : k < l => Newest(groups[k]) >= Newest(groups[l])
            ELSE \A p, q \in places : p[1] < q[1] => Shows(p)[field] >= Shows(q)[field]
       /\ \A collapsed \in SUBSET {groups[k].key : k \in DOMAIN groups} :
            LET column == Column(list, mode, searching, collapsed)
            IN \A k \in DOMAIN column :
                 column[k].count = Len(column[k].rows) \/ column[k].key \in collapsed
  BY DEF ColumnIsWhole
<1> DEFINE found == Searched(list, searching)
           groups == GroupSessions(found, mode)
           field == IF mode = "project" THEN "updated" ELSE mode
<1>2. Listing(found) /\ Range(found) = {s \in Range(list) : searching => s.matches}
  BY <1>1, SearchedFacts
<1>3. \E keys : IsGrouping(groups, found, keys, field)
  <2> HIDE DEF found
  <2>1. CASE mode = "project"
    BY <1>2, <2>1, ByProjectFacts DEF GroupSessions
  <2>2. CASE mode # "project"
    <3>1. mode \in Dates
      BY <2>2 DEF Modes, Dates
    <3>2. groups = ByAge(found, mode, mode) /\ field = mode
      BY <2>2 DEF GroupSessions
    <3>3. QED
      BY <1>2, <3>1, <3>2, ByAgeFacts
  <2>3. QED
    BY <2>1, <2>2
<1>4. mode = "project" =>
        \A k, l \in DOMAIN groups : k < l => Newest(groups[k]) >= Newest(groups[l])
  <2> HIDE DEF found
  <2>1. QED
    BY <1>2, ByProjectFacts DEF GroupSessions
<1>5. mode # "project" =>
        \A p, q \in Headed(groups) :
          p[1] < q[1] => groups[p[1]].sessions[p[2]][field] >= groups[q[1]].sessions[q[2]][field]
  <2>1. ASSUME mode # "project" PROVE mode \in Dates /\ groups = ByAge(found, mode, mode) /\ field = mode
    BY <2>1 DEF GroupSessions, Modes, Dates
  <2> HIDE DEF found, groups, field
  <2>2. QED
    BY <1>2, <2>1, ByAgeFacts
<1>6. ASSUME NEW collapsed, NEW k \in DOMAIN Column(list, mode, searching, collapsed)
      PROVE  \/ Column(list, mode, searching, collapsed)[k].count
                  = Len(Column(list, mode, searching, collapsed)[k].rows)
             \/ Column(list, mode, searching, collapsed)[k].key \in collapsed
  <2> DEFINE c == Column(list, mode, searching, collapsed)
             t == groups[k].sessions
             rows == [i \in DOMAIN t |-> ColumnRow(t[i])]
  <2>1. k \in DOMAIN groups
    BY DEF Column
  <2>2. c[k] = [key |-> groups[k].key, count |-> Len(t),
                rows |-> IF groups[k].key \in collapsed THEN <<>> ELSE rows]
    BY <2>1 DEF Column
  <2>3. Len(rows) = Len(t)
    <3>1. Listing(t)
      BY <1>3, <2>1 DEF IsGrouping, IsGroup
    <3> HIDE DEF t
    <3>2. Len(t) \in Nat /\ DOMAIN t = 1..Len(t)
      BY <3>1, ListingFacts
    <3>3. QED
      BY <3>2
  <2> HIDE DEF c, t, rows, groups
  <2>4. QED
    BY <2>2, <2>3 DEF c
<1> HIDE DEF groups, found, field
<1>7. PICK keys : IsGrouping(groups, found, keys, field)
  BY <1>3
<1>8. /\ {groups[p[1]].sessions[p[2]] : p \in Headed(groups)}
           = {s \in Range(list) : searching => s.matches}
      /\ \A p, q \in Headed(groups) :
           groups[p[1]].sessions[p[2]].id = groups[q[1]].sessions[q[2]].id => p = q
      /\ \A p, q \in Headed(groups) : p[1] = q[1] /\ p[2] < q[2]
           => groups[p[1]].sessions[p[2]][field] >= groups[q[1]].sessions[q[2]][field]
  BY <1>2, <1>7, HeadedFacts
<1>9. /\ \A k \in DOMAIN groups : groups[k].sessions # <<>>
      /\ \A k, l \in DOMAIN groups : groups[k].key = groups[l].key => k = l
  BY <1>7 DEF IsGrouping
<1>10. QED
  BY <1>4, <1>5, <1>6, <1>8, <1>9 DEF groups, found, field, Headed

\* Whatever a machine lists, its column shows each session that matches once, sorted: group.ts's
\* groupSessions, of what MachineView filters.
THEOREM ColumnsStayWhole == Spec => []ColumnsAreWhole
<1>1. ColumnsAreWhole
  BY ColumnDoesShowAll DEF ColumnsAreWhole
<1>2. QED
  BY <1>1, PTL

=============================================================================
