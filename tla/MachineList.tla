---------------------------- MODULE MachineList ----------------------------
(***************************************************************************)
(* The machine half of the web app's store (frontend/apps/web/src/store.ts *)
(* with storage.ts, lib/machineOrder.ts and components/Rail.tsx) in the    *)
(* desktop app (apps/desktop/src/main.ts): the list of paired daemons, how *)
(* each edit of it reaches secure-store.json through the main process, and *)
(* the refreshes that show how each daemon is.  The page is single         *)
(* threaded: an action is what runs between two awaits.                    *)
(***************************************************************************)
EXTENDS Integers, FiniteSets, SequencesExt

CONSTANTS
  Urls,         \* addresses of daemons
  FirstList,    \* the list on disk at the start
  Infos,        \* what a daemon may report of itself
  None,
  MaxEdits,     \* bound: edits of the list
  MaxUpsets,    \* bound: stops of the app, writes that fail, changes of the daemons and
                \* machines the user opens, together
  MaxFlights    \* bound: refreshes in flight

Tri == {"yes", "no", "absent"}
Tokens == {"good", "bad"}
Ids == 1..Len(FirstList) + MaxEdits
Profiles == [id : Ids, url : Urls, token : Tokens]

\* GET /api/info: what an older daemon does not report is absent.
InfoResponses == [blocked : Tri, auth : Tri, claude : Tri]

ASSUME InfosAssumption == Infos \subseteq InfoResponses /\ Infos # {}
\* The ids after those of the first list are what randomId draws.
ASSUME FirstListAssumption ==
  /\ FirstList \in Seq(Profiles) /\ \A i \in DOMAIN FirstList : FirstList[i].id <= Len(FirstList)
  /\ \A i, j \in DOMAIN FirstList :
       i # j => FirstList[i].id # FirstList[j].id /\ FirstList[i].url # FirstList[j].url
ASSUME ListBoundsAssumption == {MaxEdits, MaxUpsets, MaxFlights} \subseteq Nat

VARIABLES
  daemon,    \* of each url: up, its info, and how often its sessions changed (external)
  \* the main process and its disk
  keychain,  \* safeStorage.isEncryptionAvailable
  disk,      \* the value of MACHINES_STORAGE_KEY in secure-store.json
  window,    \* closed, loading (until init has the list), ready
  sets,      \* IPC: secure-store:set calls, not handled yet
  replies,   \* IPC: their answers, on the way back
  \* useStore
  machines,
  runtimes,
  flights,   \* the calls of refreshMachine that await an answer
  \* observation
  edits,     \* how often the list was edited: the version of machines
  acked,     \* the newest version whose save was answered
  unsaved,   \* the last write failed
  upsets     \* bound

storage == <<keychain, disk>>
ipc == <<sets, replies>>
live == <<runtimes, flights>>
vars == <<daemon, storage, window, ipc, machines, live, edits, acked, unsaved, upsets>>

\* machineReadiness: a field that is absent means "cannot tell", never "broken".
MachineReadiness(info) ==
  CASE info.blocked = "yes" -> "refusing"
    [] info.blocked # "yes" /\ info.auth = "no" -> "failing"
    [] info.blocked # "yes" /\ info.auth # "no" /\ info.claude = "no" -> "missing"
    [] OTHER -> "ready"

EmptyRuntime == [online |-> "unprobed", readiness |-> "ready", sessions |-> 0, loading |-> FALSE]
Runtimes == [online : {"unprobed"} \cup Tri, readiness : {"refusing", "failing", "missing", "ready"},
             sessions : Nat, loading : BOOLEAN]

\* What can be on disk: a file cut short, as good as none, or a list, encrypted or not.
Torn == [tag |-> "torn"]
Value(list, version, encrypted) ==
  [tag |-> "value", list |-> list, version |-> version, encrypted |-> encrypted]

\* readStoreFile, decodeValue and parse: what cannot be read is an empty list.  Plain
\* text is still read once there is a keychain, for decryptString then fails.
Decoded(d) ==
  IF d.tag = "value" /\ (d.encrypted => keychain) THEN d.list ELSE <<>>

TypeOK ==
  /\ daemon \in [Urls -> [up : BOOLEAN, info : Infos, sessions : Nat]]
  /\ keychain \in BOOLEAN /\ window \in {"closed", "loading", "ready"}
  /\ (disk # Torn => Range(disk.list) \subseteq Profiles)
  /\ Range(machines) \subseteq Profiles
  /\ runtimes \in [Ids -> Runtimes]
  /\ acked \in 0..edits /\ unsaved \in BOOLEAN

Init ==
  /\ daemon = [u \in Urls |-> [up |-> TRUE, info |-> CHOOSE info \in Infos : TRUE, sessions |-> 0]]
  /\ keychain \in BOOLEAN /\ disk = Value(FirstList, 0, keychain)
  /\ window = "loading" /\ sets = <<>> /\ replies = <<>>
  /\ machines = <<>> /\ runtimes = [i \in Ids |-> EmptyRuntime] /\ flights = {}
  /\ edits = 0 /\ acked = 0 /\ unsaved = FALSE
  /\ upsets = 0

Upset == upsets < MaxUpsets /\ upsets' = upsets + 1

----------------------------------------------------------------------------
(* Refreshes *)

\* A call of refreshMachine: whom it asks, what it got so far, whether addMachine opens
\* the machine after it, and its number, which tells equal calls apart.
Asked(m, opens, slot) ==
  [of |-> m, at |-> "info", info |-> None, sessions |-> None, opens |-> opens, slot |-> slot]
Listed(id) == {m \in Range(machines) : m.id = id}

\* refreshMachine of each of ms, to its first await.
RefreshMachine(ms, opens) ==
  LET free == 1..MaxFlights \ {f.slot : f \in flights}
      slot == CHOOSE s \in [ms -> free] : IsInjective(s)
  IN /\ Cardinality(ms) <= Cardinality(free)
     /\ flights' = flights \cup {Asked(m, opens, slot[m]) : m \in ms}
     /\ runtimes' = [i \in Ids |-> IF \E m \in ms : m.id = i
                                     THEN [runtimes[i] EXCEPT !.loading = TRUE] ELSE runtimes[i]]

\* The daemon's half (external): it answers while it is up and the token is right.
Answers(m) == daemon[m.url].up /\ m.token = "good"
Move(f, g) == flights' = (flights \ {f}) \cup {g}
FlightOnly == UNCHANGED <<daemon, storage, window, ipc, machines, edits, acked, unsaved>>

\* GET /api/info answers, and the page asks for the sessions.
InfoAnswered(f) ==
  /\ f.at = "info" /\ Answers(f.of)
  /\ Move(f, [f EXCEPT !.at = "sessions", !.info = daemon[f.of.url].info])
  /\ UNCHANGED <<runtimes, upsets>> /\ FlightOnly

\* GET /api/sessions is answered; the answer is on the wire.
SessionsAnswered(f) ==
  /\ f.at = "sessions" /\ Answers(f.of)
  /\ Move(f, [f EXCEPT !.at = "answered", !.sessions = daemon[f.of.url].sessions])
  /\ UNCHANGED <<runtimes, upsets>> /\ FlightOnly

\* Either of them fails.
RequestFails(f) ==
  /\ f.at \in {"info", "sessions"} /\ ~Answers(f.of)
  /\ Move(f, [f EXCEPT !.at = "failed"])
  /\ UNCHANGED <<runtimes, upsets>> /\ FlightOnly

\* Mutant: a failure only ends the loading.
PatchedUnlessFailed(f) ==
  IF f.at = "answered"
    THEN [online |-> "yes", readiness |-> MachineReadiness(f.info), sessions |-> f.sessions, loading |-> FALSE]
    ELSE [runtimes[f.of.id] EXCEPT !.loading = FALSE]

\* patchRuntime with what was fetched, or with the failure, which keeps the sessions.
\* The runtime of a machine that was removed meanwhile comes back; no view reads it.
Patched(f) ==
  IF f.at = "answered"
    THEN [online |-> "yes", readiness |-> MachineReadiness(f.info), sessions |-> f.sessions, loading |-> FALSE]
    ELSE [runtimes[f.of.id] EXCEPT !.online = "no", !.readiness = "ready", !.loading = FALSE]

\* The last part of refreshMachine; addMachine then opens the machine, which
\* refreshes it again if it is still listed.
RefreshEnds(f) ==
  LET again == IF f.opens THEN Listed(f.of.id) ELSE {}
  IN /\ f.at \in {"answered", "failed"}
     /\ flights' = (flights \ {f}) \cup {Asked(m, FALSE, f.slot) : m \in again}
     /\ runtimes' = [runtimes EXCEPT ![f.of.id] = [Patched(f) EXCEPT !.loading = again # {}]]
     /\ UNCHANGED upsets /\ FlightOnly

\* The poll of init, every 15 seconds, and refreshAll from the overview.
RefreshAll ==
  /\ window = "ready" /\ machines # <<>>
  /\ RefreshMachine(Range(machines), FALSE)
  /\ UNCHANGED upsets /\ FlightOnly

----------------------------------------------------------------------------
(* Edits of the list *)

\* machineStore().save: the page awaits secure-store:set.
Save(list, added) == sets' = Append(sets, [list |-> list, version |-> edits + 1, added |-> added])
Edit == window = "ready" /\ edits < MaxEdits /\ edits' = edits + 1
EditOnly == UNCHANGED <<daemon, storage, window, replies, acked, unsaved, upsets>>

\* addMachine.  A known address keeps its place and its id, a new one is appended with
\* a new id.
AddMachine(url, token) ==
  LET existing == {m \in Range(machines) : m.url = url}
      id == IF existing = {} THEN Len(FirstList) + edits + 1 ELSE (CHOOSE m \in existing : TRUE).id
  IN /\ Edit
     /\ machines' = IF existing = {}
                      THEN Append(machines, [id |-> id, url |-> url, token |-> token])
                      ELSE [i \in DOMAIN machines |->
                              IF machines[i].id = id THEN [machines[i] EXCEPT !.token = token] ELSE machines[i]]
     /\ Save(machines', id)
     /\ UNCHANGED live /\ EditOnly

\* The form waits for the machine it adds, but not for one a link adds meanwhile.
SubmitForm(url, token) == AddMachine(url, token)

\* An agentmaster:// link without an address or a token is ignored.
Links == [url : Urls \cup {None}, token : Tokens \cup {None}]
ParsedLink(link) == IF None \in {link.url, link.token} THEN None ELSE link

\* forwardPairLink: nothing keeps a link for a window that is closed, or for a page
\* that does not listen yet.
Delivered(link) == window = "ready" /\ ParsedLink(link) # None

\* The system hands the app a link.
PairLink(link) == Delivered(link) /\ AddMachine(link.url, link.token)

\* removeMachine: the machine of that id (one: ids differ) and its runtime go.
RemoveMachine(id) ==
  /\ Edit
  /\ \E i \in DOMAIN machines : machines[i].id = id /\ machines' = RemoveAt(machines, i)
  /\ Save(machines', None)
  /\ runtimes' = [runtimes EXCEPT ![id] = EmptyRuntime]
  /\ UNCHANGED flights /\ EditOnly

\* Mutant: the target is looked up in the list that still has the moved machine.
ReorderedUnadjusted(list, i, j, placement) ==
  LET at == IF placement = "after" THEN j + 1 ELSE j
  IN IF i = j \/ at > Len(list) THEN list ELSE InsertAt(RemoveAt(list, i), at, list[i])

\* reorderMachines: the i-th machine is taken out and put before or after the j-th one.
Reordered(list, i, j, placement) ==
  LET rest == RemoveAt(list, i)
      target == IF i < j THEN j - 1 ELSE j
  IN IF i = j THEN list
     ELSE InsertAt(rest, IF placement = "after" THEN target + 1 ELSE target, list[i])

\* reorderMachine saves only a list that changed.
ReorderMachine(i, j, placement) ==
  /\ Edit /\ {i, j} \subseteq DOMAIN machines
  /\ machines' = Reordered(machines, i, j, placement) /\ machines' # machines
  /\ Save(machines', None)
  /\ UNCHANGED live /\ EditOnly

\* Rail: the place that a drop, and Alt with an arrow, announce, computed from the
\* list before the move.
DropAnnounced(i, j, placement) ==
  IF placement = "before" THEN j - (IF i < j THEN 1 ELSE 0) ELSE j + (IF i > j THEN 1 ELSE 0)
KeyAnnounced(i, direction) == i + direction
KeyPlacement(direction) == IF direction < 0 THEN "before" ELSE "after"

\* Rail: a machine is opened.
OpenMachine(id) ==
  /\ window = "ready" /\ Listed(id) # {} /\ Upset
  /\ RefreshMachine(Listed(id), FALSE)
  /\ FlightOnly

----------------------------------------------------------------------------
(* The main process *)

MainOnly == UNCHANGED <<daemon, keychain, window, machines, live, edits, acked>>
Reply(call, ok) == [version |-> call.version, added |-> call.added, ok |-> ok]

\* Mutants: the handlers await their files and finish in any order; a handler answers
\* before it has written, and the last one wins.
MainSetsInAnyOrder ==
  \E k \in DOMAIN sets :
    /\ disk' = Value(sets[k].list, sets[k].version, keychain)
    /\ sets' = RemoveAt(sets, k) /\ replies' = Append(replies, Reply(sets[k], TRUE))
    /\ unsaved' = FALSE
    /\ UNCHANGED upsets /\ MainOnly
MainSetsAtRest ==
  /\ sets # <<>>
  /\ disk' = IF Len(sets) > 1 THEN disk ELSE Value(Head(sets).list, Head(sets).version, keychain)
  /\ sets' = Tail(sets) /\ replies' = Append(replies, Reply(Head(sets), TRUE))
  /\ unsaved' = FALSE
  /\ UNCHANGED upsets /\ MainOnly

\* secure-store:set, one at a time and in order: read, encode, write, answer.
MainSets ==
  /\ sets # <<>>
  /\ disk' = Value(Head(sets).list, Head(sets).version, keychain)
  /\ sets' = Tail(sets) /\ replies' = Append(replies, Reply(Head(sets), TRUE))
  /\ unsaved' = FALSE
  /\ UNCHANGED upsets /\ MainOnly

\* writeFileSync throws: before it opened the file, or after it truncated it.
MainSetFails ==
  /\ sets # <<>> /\ Upset
  /\ disk' \in {disk, Torn}
  /\ sets' = Tail(sets) /\ replies' = Append(replies, Reply(Head(sets), FALSE))
  /\ unsaved' = TRUE
  /\ MainOnly

\* The page goes on after its await: a failed save rejects, and ends addMachine there.
SaveAnswered ==
  LET r == Head(replies)
      added == IF r.ok /\ r.added # None THEN Listed(r.added) ELSE {}
  IN /\ replies # <<>> /\ window = "ready"
     /\ replies' = Tail(replies)
     /\ acked' = IF r.ok THEN r.version ELSE acked
     /\ RefreshMachine(added, TRUE)
     /\ UNCHANGED <<daemon, storage, window, sets, machines, edits, unsaved, upsets>>

\* init has the list, and refreshes every machine on it.
Loaded ==
  /\ window = "loading" /\ window' = "ready"
  /\ machines' = Decoded(disk)
  /\ unsaved' = FALSE
  /\ RefreshMachine(Range(Decoded(disk)), FALSE)
  /\ UNCHANGED <<daemon, storage, ipc, edits, acked, upsets>>

\* The window is closed or the app dies, in the middle of a write perhaps.
Stops ==
  /\ window # "closed" /\ window' = "closed"
  /\ Upset
  /\ disk' \in {disk} \cup (IF sets = <<>> THEN {} ELSE {Torn})
  /\ sets' = <<>> /\ replies' = <<>>
  /\ machines' = <<>> /\ flights' = {} /\ runtimes' = [i \in Ids |-> EmptyRuntime]
  /\ UNCHANGED <<daemon, keychain, edits, acked, unsaved>>

\* The app starts; the keychain may have come or gone.
Starts ==
  /\ window = "closed" /\ window' = "loading"
  /\ keychain' \in BOOLEAN
  /\ UNCHANGED <<daemon, disk, ipc, machines, live, edits, acked, unsaved, upsets>>

\* A daemon goes up or down, works on a session, or reports something else.
DaemonChanges(u) ==
  /\ Upset
  /\ \E d \in {[daemon[u] EXCEPT !.up = ~@], [daemon[u] EXCEPT !.sessions = @ + 1]}
              \cup {[daemon[u] EXCEPT !.info = info] : info \in Infos \ {daemon[u].info}} :
       daemon' = [daemon EXCEPT ![u] = d]
  /\ UNCHANGED <<storage, window, ipc, machines, live, edits, acked, unsaved>>

----------------------------------------------------------------------------

Flight(f) == InfoAnswered(f) \/ SessionsAnswered(f) \/ RequestFails(f) \/ RefreshEnds(f)
FlightOf(slot) == \E f \in flights : f.slot = slot /\ Flight(f)
Edits ==
  \/ \E u \in Urls, t \in Tokens : SubmitForm(u, t)
  \/ \E link \in Links : PairLink(link)
  \/ \E id \in Ids : RemoveMachine(id)
  \/ \E i, j \in DOMAIN machines, p \in {"before", "after"} : ReorderMachine(i, j, p)

Next ==
  \/ Edits
  \/ \E id \in Ids : OpenMachine(id)
  \/ \E slot \in 1..MaxFlights : FlightOf(slot)
  \/ RefreshAll
  \/ MainSets \/ MainSetFails \/ SaveAnswered
  \/ Loaded \/ Stops \/ Starts
  \/ \E u \in Urls : DaemonChanges(u)

Spec == Init /\ [][Next]_vars

\* IPC calls and requests are answered, fail or time out; the interval fires.
Fairness ==
  /\ WF_vars(MainSets) /\ WF_vars(SaveAnswered) /\ WF_vars(Loaded)
  /\ WF_vars(RefreshAll) /\ \A slot \in 1..MaxFlights : WF_vars(FlightOf(slot))
FairSpec == Spec /\ Fairness

----------------------------------------------------------------------------
(* Properties *)

\* Once the main process has handled every save and the last one succeeded, the disk
\* holds the list the rail shows, in its order: no edit is lost to the saves of the
\* edits around it (store.ts 283, 295 and 308 each write the whole list).
DiskIsShown == window = "ready" /\ sets = <<>> /\ ~unsaved => Decoded(disk) = machines

\* An edit whose save was answered is on disk, or a later one is, whenever the app
\* stops, unless a write was cut short (main.ts 60 writes the file in place).
SavedListSurvives == disk.tag = "value" => disk.version >= acked

\* The place the rail announces is the one reorderMachines gives the machine, by drop
\* and by keyboard (Rail.tsx 45 and 113 compute it apart from machineOrder.ts).
PlaceOf(list, m) == CHOOSE k \in DOMAIN list : list[k] = m
AnnouncedPlaceIsRight ==
  \A i \in DOMAIN machines :
    /\ \A j \in DOMAIN machines \ {i}, p \in {"before", "after"} :
         PlaceOf(Reordered(machines, i, j, p), machines[i]) = DropAnnounced(i, j, p)
    /\ \A d \in {-1, 1} : i + d \in DOMAIN machines =>
         PlaceOf(Reordered(machines, i, i + d, KeyPlacement(d)), machines[i]) = KeyAnnounced(i, d)

\* When the daemons stop changing, the rail comes to show each machine as it is: no
\* late answer of an earlier refresh, asked with an old token or sent before the
\* change, stays on screen (store.ts 323 lets refreshes overlap).
ShownAsItIs(m) ==
  LET shown == runtimes[m.id]
  IN IF Answers(m)
       THEN /\ shown.online = "yes" /\ shown.sessions = daemon[m.url].sessions
            /\ shown.readiness = MachineReadiness(daemon[m.url].info)
       ELSE shown.online = "no" /\ shown.readiness = "ready"
ListCatchesUp == <>[](window = "ready" => \A m \in Range(machines) : ShownAsItIs(m))
=============================================================================
