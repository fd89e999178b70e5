--------------------------- MODULE MCMachineList ---------------------------
\* One machine in the list and the address of another; a daemon that refuses sends,
\* and an old one that reports nothing.  What is shown of the sessions is checked over
\* lists of two sessions at every boundary of a date, and of three at some; and over
\* boards of a machine with every session or two, and of two machines in every state.
EXTENDS SessionLists, TLC

CONSTANTS u1, u2
FirstListDef == <<[id |-> 1, url |-> u1, token |-> "good"]>>
InfosDef == {[blocked |-> "absent", auth |-> "absent", claude |-> "absent"],
             [blocked |-> "yes", auth |-> "no", claude |-> "yes"]}

Recent(dirs, dates) ==
  [dir : dirs, created : dates, updated : dates, live : BOOLEAN, lastSeq : {0, 1},
   state : {"done", "failed", "interrupted"}, preview : BOOLEAN, seen : {0, 1}, matches : BOOLEAN]
Sessions(dates, dirs, matching) ==
  {s \in Recent(dirs, dates) :
     /\ s.created <= s.updated /\ s.matches \in matching
     /\ ~s.live /\ s.lastSeq = 1 /\ s.seen = 0 /\ s.state = "done" /\ s.preview}
Numbered(list) == [i \in DOMAIN list |-> list[i] @@ ("id" :> i)]
Boundaries == {Now, 0, -1, -Day, -Day - 1, -6 * Day, -6 * Day - 1, -29 * Day, -29 * Day - 1}
ListsDef ==
  {Numbered(list) : list \in BoundedSeq(Sessions(Boundaries, {"a"}, {TRUE}), 2)
                             \cup [1..3 -> Sessions({Now, -Day - 1}, {"a", "b"}, BOOLEAN)]}

Working(states, previews) ==
  {s \in Recent({"a"}, {Now, Now - Day + 1, Now - Day}) :
     s.created = Now - Day /\ s.seen <= s.lastSeq /\ s.matches
     /\ s.state \in states /\ s.preview \in previews}
Machine(k, online, readiness, list) ==
  [id |-> k, online |-> online, readiness |-> readiness, sessions |-> list]
BoardsDef ==
  {<<Machine(1, "yes", "ready", Numbered(list))>> :
     list \in BoundedSeq(Working({"done", "failed", "interrupted"}, BOOLEAN), 1)
               \cup [1..2 -> Working({"failed"}, {TRUE})]}
  \cup {<<Machine(1, a[1], a[2], <<Numbered(list)[1]>>), Machine(2, b[1], b[2], <<Numbered(list)[2]>>)>> :
          a, b \in {<<"unprobed", "ready">>, <<"no", "ready">>, <<"yes", "ready">>, <<"yes", "missing">>},
          list \in [1..2 -> Working({"done"}, {TRUE})]}
=============================================================================
