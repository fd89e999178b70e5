----------------------------- MODULE EventFeed -----------------------------
(***************************************************************************)
(* What the event stream promises a client (docs/API.md, "SSE stream"):    *)
(* the committed events of its session, in order, each once, none missed,  *)
(* whatever happens to the connection.  EventStream implements it.         *)
(***************************************************************************)
EXTENDS Naturals, Sequences
CONSTANT Clients
VARIABLES
  committed,  \* the number of events committed so far
  delivered,  \* the seqs each client was given, in order
  left        \* the clients that unsubscribed

vars == <<committed, delivered, left>>

Init == committed = 0 /\ delivered = [c \in Clients |-> <<>>] /\ left = {}

Commit == committed' = committed + 1 /\ UNCHANGED <<delivered, left>>

Deliver(c) ==
  LET next == Len(delivered[c]) + 1
  IN  /\ c \notin left /\ next <= committed
      /\ delivered' = [delivered EXCEPT ![c] = Append(@, next)]
      /\ UNCHANGED <<committed, left>>

Leave(c) == left' = left \cup {c} /\ UNCHANGED <<committed, delivered>>

Next == Commit \/ \E c \in Clients : Deliver(c) \/ Leave(c)

Spec == Init /\ [][Next]_vars /\ \A c \in Clients : WF_vars(Deliver(c))
=============================================================================
