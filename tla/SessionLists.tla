---------------------------- MODULE SessionLists ----------------------------
(***************************************************************************)
(* What the web app shows of the sessions it listed: the column of one     *)
(* machine (lib/group.ts, components/MachineView.tsx), the lanes and the   *)
(* panel of the overview (components/Overview.tsx) and the badges of the   *)
(* rail (lib/machineActivity.ts, components/Rail.tsx).  They are functions *)
(* of the store's state, written apart from each other, that have to tell  *)
(* the user the same.                                                      *)
(*                                                                         *)
(* A date is a number of quarters of a day since the midnight before now:  *)
(* the daemon writes dates that parse, and the strings the client compares *)
(* order as their dates do unless they share a second, for the zeros that  *)
(* end a fraction are dropped (store/queries.go 50, group.ts 30, 46).      *)
(* Whether a title or preview contains the query, and whether a preview    *)
(* has any text, are fields of the session.                                *)
(***************************************************************************)
EXTENDS MachineList

CONSTANTS
  Now,    \* the time of day
  Lists,  \* what a daemon may list
  Boards  \* the machines, how they are and what they listed

Day == 4
Modes == {"project", "updated", "created"}

\* A session of the list, with the mark the client keeps of it (seenSeq), and whether
\* it matches the query and has a preview.
RecentSession ==
  [id : Nat, dir : STRING, created : Int, updated : Int, live : BOOLEAN, lastSeq : Nat,
   state : {"done", "failed", "interrupted"}, preview : BOOLEAN, seen : Nat, matches : BOOLEAN]
MachineOfBoard ==
  [id : Nat, online : {"unprobed", "no", "yes"}, readiness : {"refusing", "failing", "missing", "ready"},
   sessions : Seq(RecentSession)]

\* The sessions of a board, each by the places of its machine and of itself.
AllOf(board) == UNION {{k} \X DOMAIN board[k].sessions : k \in DOMAIN board}
SessionAt(board, p) == board[p[1]].sessions[p[2]]

\* The id of a session is its own, on whichever machine.
ASSUME ListsAssumption ==
  /\ Now \in 0..Day - 1
  /\ \A list \in Lists :
       /\ list \in Seq(RecentSession)
       /\ \A i, j \in DOMAIN list : list[i].id = list[j].id => i = j
  /\ \A board \in Boards :
       /\ board \in Seq(MachineOfBoard)
       /\ \A p, q \in AllOf(board) : SessionAt(board, p).id = SessionAt(board, q).id => p = q

\* Places one after the other, in an order that compares any two.
Ranked(places, Before) ==
  [k \in 1..Cardinality(places) |->
     CHOOSE p \in places : Cardinality({q \in places : <<q, p>> \in Before}) = k]
\* The greatest number first; those with the same one stay as they were.
Sorted(places, Before, number) ==
  Ranked(places, {e \in places \X places :
                    number[e[1]] > number[e[2]] \/ (number[e[1]] = number[e[2]] /\ e \in Before)})

Upwards(places) == {e \in places \X places : e[1] <= e[2]}
At(list, places) == [k \in DOMAIN places |-> list[places[k]]]
Each(list, field) == [i \in DOMAIN list |-> list[i][field]]

----------------------------------------------------------------------------
(* The session column *)

\* timeBucket: today, yesterday, the week, the month and all before, in this order.
BucketStarts == <<0, -Day, -6 * Day, -29 * Day>>
TimeBucket(date) == Cardinality({k \in DOMAIN BucketStarts : date < BucketStarts[k]})

\* The Map of groupSessions: a group per key, in the order the keys appear, and in it the
\* sessions with that key, the newest first.
Firsts(keys) == {i \in DOMAIN keys : \A j \in 1..i - 1 : keys[j] # keys[i]}
GroupOf(list, keys, key, field) ==
  LET places == {i \in DOMAIN list : keys[i] = key}
  IN [key |-> key, sessions |-> At(list, Sorted(places, Upwards(places), Each(list, field)))]

\* The groups, the one with the greatest number first.
Grouped(list, keys, field, number) ==
  LET order == Sorted(Firsts(keys), Upwards(Firsts(keys)), number)
  IN [k \in DOMAIN order |-> GroupOf(list, keys, keys[order[k]], field)]

Newest(group) == Head(group.sessions).updated
ByProject(list) ==
  LET dirs == Each(list, "dir")
  IN Grouped(list, dirs, "updated",
             [i \in Firsts(dirs) |-> Newest(GroupOf(list, dirs, dirs[i], "updated"))])
ByAge(list, mode, field) ==
  LET buckets == [i \in DOMAIN list |-> TimeBucket(list[i][mode])]
  IN Grouped(list, buckets, field, [i \in Firsts(buckets) |-> -buckets[i]])

\* Mutant: the buckets are those of the updates in every mode.
GroupSessionsByUpdate(list, mode) ==
  IF mode = "project" THEN ByProject(list) ELSE ByAge(list, "updated", mode)

\* groupSessions: by project, the one that was active last first, or by age, the newest
\* first by the date of the mode.
GroupSessions(list, mode) ==
  IF mode = "project" THEN ByProject(list) ELSE ByAge(list, mode, mode)

\* The query, when there is one, filters what is grouped.
Searched(list, searching) ==
  LET places == {i \in DOMAIN list : searching => list[i].matches}
  IN At(list, Ranked(places, Upwards(places)))

\* sessionStatus: live work first, then what was not seen yet.
SessionStatus(s) ==
  CASE s.live -> "running"
    [] ~s.live /\ s.lastSeq > s.seen -> "attention"
    [] ~s.live /\ s.lastSeq <= s.seen -> "idle"

\* statusLine: what a row says of its session.
StatusLine(s, status) ==
  CASE status = "running" -> IF s.preview THEN "preview" ELSE "working"
    [] status = "attention" /\ s.state = "failed" -> IF s.preview THEN "failed: preview" ELSE "failed"
    [] status = "attention" /\ s.state # "failed" /\ s.state # "interrupted" ->
         IF s.preview THEN "preview" ELSE "new reply"
    [] OTHER -> IF s.preview THEN "preview" ELSE ""

ColumnRow(s) == [id |-> s.id, mark |-> SessionStatus(s), line |-> StatusLine(s, SessionStatus(s))]

\* The headers of the column, and under each its rows, unless it is collapsed.
Column(list, mode, searching, collapsed) ==
  LET groups == GroupSessions(Searched(list, searching), mode)
  IN [k \in DOMAIN groups |->
        [key |-> groups[k].key,
         count |-> Len(groups[k].sessions),
         rows |-> IF groups[k].key \in collapsed THEN <<>>
                  ELSE [i \in DOMAIN groups[k].sessions |-> ColumnRow(groups[k].sessions[i])]]]

----------------------------------------------------------------------------
(* The rail *)

\* Mutant: what was not seen counts before what is live.
MachineActivityCountsUnseen(list) ==
  LET unseen == {i \in DOMAIN list : list[i].lastSeq > list[i].seen}
  IN [attention |-> Cardinality(unseen),
      running |-> Cardinality({i \in DOMAIN list \ unseen : list[i].live})]

MachineActivityCounts(list) ==
  LET Count(status) == Cardinality({i \in DOMAIN list : SessionStatus(list[i]) = status})
  IN [attention |-> Count("attention"), running |-> Count("running")]

\* machineBadge: results before live work.
NoBadge == [kind |-> "none", count |-> 0]
MachineBadge(counts) ==
  CASE counts.attention > 0 -> [kind |-> "attention", count |-> counts.attention]
    [] counts.attention = 0 /\ counts.running > 0 -> [kind |-> "running", count |-> counts.running]
    [] OTHER -> NoBadge

\* The rail is given why a machine that is online cannot run a session.
UnusableReason(m) == m.online = "yes" /\ m.readiness # "ready"
AvatarDot(m) ==
  CASE m.online # "yes" -> "faint"
    [] m.online = "yes" /\ UnusableReason(m) -> "warn"
    [] m.online = "yes" /\ ~UnusableReason(m) -> "success"

\* The column's header and the overview's panel read the readiness itself.
HeaderDot(m) ==
  CASE m.online = "unprobed" -> "faint"
    [] m.online = "no" -> "danger"
    [] m.online = "yes" -> IF m.readiness = "ready" THEN "success" ELSE "warn"

----------------------------------------------------------------------------
(* The overview *)

Within24h(date) == Now - date < Day

\* The three lanes: what needs the user, what is live, and what ended in the last day.
Lanes == {"attention", "running", "done"}
InLane(s, lane) ==
  CASE lane = "attention" -> SessionStatus(s) = "attention"
    [] lane = "running" -> SessionStatus(s) = "running"
    [] lane = "done" -> SessionStatus(s) = "idle" /\ s.lastSeq > 0 /\ Within24h(s.updated)

\* The machines are gone through in their order.
Visits(places) ==
  {e \in places \X places : e[1][1] < e[2][1] \/ (e[1][1] = e[2][1] /\ e[1][2] <= e[2][2])}
Lane(board, lane) ==
  LET places == {p \in AllOf(board) : InLane(SessionAt(board, p), lane)}
  IN Sorted(places, Visits(places), [p \in places |-> SessionAt(board, p).updated])
Triage(board) == [lane \in Lanes |-> Lane(board, lane)]

\* SessionRow of the overview: the lane stands for the status.
OverviewRow(s, lane) ==
  [id |-> s.id, mark |-> lane, line |-> StatusLine(s, IF lane = "done" THEN "idle" ELSE lane),
   danger |-> lane = "attention" /\ s.state = "failed"]

\* Section: a lane shows how many rows it has, and is there when it has any.
Section(board, lane) ==
  LET list == Triage(board)[lane]
  IN [count |-> Len(list), rows |-> [i \in DOMAIN list |-> OverviewRow(SessionAt(board, list[i]), lane)]]

Online(board) == {k \in DOMAIN board : board[k].online = "yes"}
Offline(board) == {k \in DOMAIN board : board[k].online = "no"}
Unusable(board) == {k \in Online(board) : board[k].readiness # "ready"}

\* SignalStrip: four numbers, and whether the first one warns.
SignalStrip(board) ==
  [online |-> Cardinality(Online(board)), of |-> Len(board),
   warns |-> Unusable(board) # {},
   attention |-> Len(Triage(board).attention),
   running |-> Len(Triage(board).running),
   recent |-> Len(Triage(board).done)]

\* MachinePanel: its heading, and for each machine what is live on it.
PanelHeading(board) ==
  CASE Offline(board) # {} -> "offline"
    [] Offline(board) = {} /\ Unusable(board) # {} -> "unusable"
    [] Offline(board) = {} /\ Unusable(board) = {} -> "all can run"
PanelRow(m) ==
  [dot |-> HeaderDot(m), sessions |-> Len(m.sessions),
   running |-> Cardinality({i \in DOMAIN m.sessions : m.sessions[i].live})]

----------------------------------------------------------------------------
(* Properties, of a list of sessions and of a board of machines *)

\* Whatever the mode, the query and what is collapsed, the column has each session that
\* matches under one header, once; in the time modes it reads from the newest date to
\* the oldest across its groups, which timeBucket cuts and another function sorts, and
\* by project the one updated last comes first, and its sessions so within it.  The date
\* is the one the mode names: by creation the code sorts by creation (group.ts 79-81),
\* where its comment says by update (GroupsNewestUpdatedFirst).
ColumnIsWhole(list) ==
  \A mode \in Modes, searching \in BOOLEAN :
    LET groups == GroupSessions(Searched(list, searching), mode)
        places == UNION {{k} \X DOMAIN groups[k].sessions : k \in DOMAIN groups}
        Shows(p) == groups[p[1]].sessions[p[2]]
        field == IF mode = "project" THEN "updated" ELSE mode
    IN /\ {Shows(p) : p \in places} = {s \in Range(list) : searching => s.matches}
       /\ \A p, q \in places : Shows(p).id = Shows(q).id => p = q
       /\ \A k \in DOMAIN groups : groups[k].sessions # <<>>
       /\ \A k, l \in DOMAIN groups : groups[k].key = groups[l].key => k = l
       /\ \A p, q \in places : p[1] = q[1] /\ p[2] < q[2] => Shows(p)[field] >= Shows(q)[field]
       /\ IF mode = "project"
            THEN \A k, l \in DOMAIN groups : k < l => Newest(groups[k]) >= Newest(groups[l])
            ELSE \A p, q \in places : p[1] < q[1] => Shows(p)[field] >= Shows(q)[field]
       /\ \A collapsed \in SUBSET {groups[k].key : k \in DOMAIN groups} :
            LET column == Column(list, mode, searching, collapsed)
            IN \A k \in DOMAIN column :
                 column[k].count = Len(column[k].rows) \/ column[k].key \in collapsed

\* What the badges of the machines add up to.
Total(board, kind) ==
  LET Upto[k \in 0..Len(board)] ==
        IF k = 0 THEN 0 ELSE Upto[k - 1] + MachineActivityCounts(board[k].sessions)[kind]
  IN Upto[Len(board)]

\* The rail, the column and the overview, which each count and mark for themselves,
\* agree: the badges of the machines add up to the lanes, the panel counts what the
\* rail counts as live, a session is in one lane at most and says there what it says in
\* its column, and the strip warns exactly when a machine's dot does.
SignalsAgree(board) ==
  LET strip == SignalStrip(board)
      Counts(k) == MachineActivityCounts(board[k].sessions)
      lanes == [lane \in Lanes |-> Section(board, lane)]
      In(lane, s) == \E i \in DOMAIN lanes[lane].rows : lanes[lane].rows[i].id = s.id
  IN /\ strip.attention = Total(board, "attention")
     /\ strip.running = Total(board, "running")
     /\ strip.warns <=> \E k \in DOMAIN board : AvatarDot(board[k]) = "warn"
     /\ (PanelHeading(board) = "all can run") =>
          \A k \in DOMAIN board : HeaderDot(board[k]) \in {"success", "faint"}
     /\ \A k \in DOMAIN board :
          /\ PanelRow(board[k]).running = Counts(k).running
          /\ (MachineBadge(Counts(k)) = NoBadge) <=>
               \A i \in DOMAIN board[k].sessions :
                 ~In("attention", board[k].sessions[i]) /\ ~In("running", board[k].sessions[i])
          /\ \A i \in DOMAIN board[k].sessions :
               LET s == board[k].sessions[i]
               IN /\ Cardinality({lane \in Lanes : In(lane, s)}) <= 1
                  /\ \A lane \in Lanes : \A r \in Range(lanes[lane].rows) :
                       r.id = s.id => r.line = ColumnRow(s).line

\* These are functions of what the store holds, whatever else goes on: they are
\* evaluated where the app starts.
Starting == window = "loading" /\ edits = 0 /\ upsets = 0 /\ keychain

\* Whatever a machine lists, its column shows each session that matches once, sorted
\* (group.ts 44 and MachineView.tsx 124).
ColumnsAreWhole == Starting => \A list \in Lists : ColumnIsWhole(list)

\* What groupSessions' comment says (group.ts 41-42): the sessions inside each group are
\* newest-updated first.  (The mode "created" breaks it: README, "What the code does not
\* guarantee".)
GroupsNewestUpdatedFirst ==
  Starting => \A list \in Lists, mode \in Modes :
    LET groups == GroupSessions(list, mode)
    IN \A k \in DOMAIN groups : \A i, j \in DOMAIN groups[k].sessions :
         i < j => groups[k].sessions[i].updated >= groups[k].sessions[j].updated

\* Whatever the machines are and list, the rail, the columns and the overview tell the
\* same (Overview.tsx 30, Rail.tsx 134, MachineView.tsx 268).
AllSignalsAgree == Starting => \A board \in Boards : SignalsAgree(board)
=============================================================================
