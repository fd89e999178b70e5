------------------------------- MODULE Ledger -------------------------------
(***************************************************************************)
(* The events table of one session (internal/store): an append-only        *)
(* sequence of events.  AppendEvent allots seq = MAX(seq) + 1 in one       *)
(* transaction on the store's only connection, so the seq of an event is   *)
(* its position in the sequence.                                           *)
(***************************************************************************)
EXTENDS Naturals, Sequences

\* Events of a run.  "output" stands for assistant_message, tool_call and
\* tool_result: what a run adds to the transcript between its boundaries.
Event(typ, r) == [type |-> typ, run |-> r, state |-> "none"]
RunFinished(r, s) == [type |-> "run_finished", run |-> r, state |-> s]

Boundary == {"run_started", "run_finished"}

\* Position i of ledger l is a run_started that no boundary event follows.
DanglingAt(l, i) ==
  /\ l[i].type = "run_started"
  /\ \A j \in DOMAIN l : j > i => l[j].type \notin Boundary

\* The run DanglingRun(s) reports: the empty set when the tail is settled, else
\* one run.  render.Compute shows the session as running in the same case.
DanglingRuns(l) == {l[i].run : i \in {k \in DOMAIN l : DanglingAt(l, k)}}

Started(l, r) == \E i \in DOMAIN l : l[i] = Event("run_started", r)
EndedAs(l, r, s) == \E i \in DOMAIN l : l[i] = RunFinished(r, s)

\* The positions a query with a LIMIT returns (ascending, as the callers see them):
\* the newest `limit` events, and a page of the history before a cursor (0 = latest).
NewestOf(positions, limit) == {i \in positions : i + limit \notin positions}
EventsTail(l, limit) == NewestOf(DOMAIN l, limit)
Older(l, before) == {i \in DOMAIN l : before = 0 \/ i < before}
EventsBefore(l, before, limit) == NewestOf(Older(l, before), limit)
\* One event more than the page was asked for, and one more came.
HasMore(l, before, limit) ==
  NewestOf(Older(l, before), limit + 1) # EventsBefore(l, before, limit)
=============================================================================
