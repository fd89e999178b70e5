---------------------------- MODULE EventStream ----------------------------
(***************************************************************************)
(* The live event stream of one session, from commit to the screen: the    *)
(* broadcaster (internal/session/broadcast.go), the SSE handler            *)
(* handleStream (internal/server/stream.go) and the reconnecting SseClient *)
(* (frontend/packages/core/src/sse.ts), with connections that break and a  *)
(* daemon that dies.  What is committed is SessionRuns' matter: here an    *)
(* event is its seq.                                                       *)
(***************************************************************************)
EXTENDS Ledger, FiniteSets, FiniteSetsExt

CONSTANTS
  Writers,     \* goroutines that commit to the session: runs, sends, interrupts
  Clients,     \* calls of SseClient.subscribe with afterSeq 0
  RenderCap,   \* renderCap: how many events the handler reads back
  BufferSize,  \* capacity of a subscriber's channel
  MaxEvents,   \* bound: committed events
  MaxDeltas,   \* bound: token deltas
  MaxBreaks,   \* bound: connections that break
  MaxCrashes,  \* bound: deaths of the daemon
  MaxFaults    \* bound: failed reads of the tail

ASSUME SizesAssumption == {RenderCap, BufferSize} \subseteq Nat \ {0}
ASSUME StreamBoundsAssumption ==
  {MaxEvents, MaxDeltas, MaxBreaks, MaxCrashes, MaxFaults} \subseteq Nat

VARIABLES
  \* the daemon
  ledger,   \* the events rows; here, who committed each
  up,
  pend,     \* the seq a writer appended and has not published yet, or 0
  sub,      \* a client's subscription: none, open, or closed by publish
  chan,     \* the frames buffered in its channel
  \* handleStream, for each client's connection
  handler,  \* none, accepted, subscribed, live
  after,    \* afterSeq: the last seq written as am_event
  events,   \* the seqs it accumulates for rendering
  \* the network
  wire,     \* SSE frames written and not yet received
  \* SseClient
  client,   \* waiting (to connect), open, closed
  cursor,   \* lastSeq
  got,      \* the seqs given to onEvent, in order
  view,     \* the seqs behind the last snapshot given to onRender
  \* bounds
  deltas, breaks, crashes, faults

daemon == <<ledger, up, pend>>
subscription == <<sub, chan>>
locals == <<after, events>>
screen == <<cursor, got, view>>
tallies == <<deltas, breaks, crashes, faults>>
vars == <<daemon, subscription, handler, locals, wire, client, screen, tallies>>

Delta == 0
EventFrame(n) == [kind |-> "event", seq |-> n]
RenderFrame(S) == [kind |-> "render", rows |-> S]
DeltaFrame == [kind |-> "delta"]
ReconnectFrame(n) == [kind |-> "reconnect", seq |-> n]

\* lastSeq of the handler: the newest event it has, 0 if none.
Newest(S) == Max(S \cup {0})

Init ==
  /\ ledger = <<>> /\ up = TRUE
  /\ pend = [w \in Writers |-> 0]
  /\ sub = [c \in Clients |-> "none"]
  /\ chan = [c \in Clients |-> <<>>]
  /\ handler = [c \in Clients |-> "none"]
  /\ after = [c \in Clients |-> 0]
  /\ events = [c \in Clients |-> {}]
  /\ wire = [c \in Clients |-> <<>>]
  /\ client = [c \in Clients |-> "waiting"]
  /\ cursor = [c \in Clients |-> 0]
  /\ got = [c \in Clients |-> <<>>]
  /\ view = [c \in Clients |-> {}]
  /\ deltas = 0 /\ breaks = 0 /\ crashes = 0 /\ faults = 0

----------------------------------------------------------------------------
(* Committing and broadcasting *)

\* commit's AppendEvent.
AppendEvent(w) ==
  /\ up /\ pend[w] = 0 /\ Len(ledger) < MaxEvents
  /\ ledger' = Append(ledger, w)
  /\ pend' = [pend EXCEPT ![w] = Len(ledger) + 1]
  /\ UNCHANGED <<up, subscription, handler, locals, wire, client, screen, tallies>>

\* Mutant: a full subscriber only misses the frame.
FanoutLossy(f) ==
  /\ chan' = [c \in Clients |-> IF sub[c] = "open" /\ Len(chan[c]) < BufferSize
                                THEN Append(chan[c], f) ELSE chan[c]]
  /\ UNCHANGED sub

\* publish, one critical section: a subscriber whose buffer is full is closed.
Fanout(f) ==
  LET Fits(c) == sub[c] = "open" /\ Len(chan[c]) < BufferSize
  IN  /\ chan' = [c \in Clients |-> IF Fits(c) THEN Append(chan[c], f) ELSE chan[c]]
      /\ sub' = [c \in Clients |-> IF sub[c] = "open" /\ ~Fits(c) THEN "closed" ELSE sub[c]]

\* commit's publish.
Publish(w) ==
  /\ pend[w] # 0
  /\ Fanout(pend[w])
  /\ pend' = [pend EXCEPT ![w] = 0]
  /\ UNCHANGED <<ledger, up, handler, locals, wire, client, screen, tallies>>

\* A token delta: broadcast, never committed.
PublishDelta ==
  /\ up /\ deltas < MaxDeltas
  /\ deltas' = deltas + 1
  /\ Fanout(Delta)
  /\ UNCHANGED <<daemon, handler, locals, wire, client, screen, breaks, crashes, faults>>

----------------------------------------------------------------------------
(* handleStream *)

HandlerSubscribe(c) ==
  /\ handler[c] = "accepted"
  /\ handler' = [handler EXCEPT ![c] = "subscribed"]
  /\ sub' = [sub EXCEPT ![c] = "open"]
  /\ chan' = [chan EXCEPT ![c] = <<>>]
  /\ UNCHANGED <<daemon, locals, wire, client, screen, tallies>>

\* The events of the tail beyond the client's cursor; mutant: with the cursor's.
LacksFrom(c, tail) == {n \in tail : n >= after[c]}
Lacks(c, tail) == {n \in tail : n > after[c]}

\* ORDER BY seq.
InOrder(S) ==
  CHOOSE s \in [1..Cardinality(S) -> S] : \A i, j \in DOMAIN s : i < j => s[i] < s[j]

\* Reads the tail (an error counts as an empty one), writes what the client lacks
\* of it, then the snapshot.
HandlerReplay(c) ==
  /\ handler[c] = "subscribed"
  /\ \E tail \in {EventsTail(ledger, RenderCap), {}} :
       LET new == Lacks(c, tail)
       IN  /\ \/ tail = EventsTail(ledger, RenderCap) /\ UNCHANGED faults
              \/ faults < MaxFaults /\ faults' = faults + 1 /\ tail = {}
           /\ events' = [events EXCEPT ![c] = tail]
           /\ after' = [after EXCEPT ![c] = Newest(new \cup {@})]
           /\ wire' = [wire EXCEPT ![c] =
                @ \o [i \in 1..Cardinality(new) |-> EventFrame(InOrder(new)[i])]
                  \o <<RenderFrame(tail)>>]
  /\ handler' = [handler EXCEPT ![c] = "live"]
  /\ UNCHANGED <<daemon, subscription, client, screen, deltas, breaks, crashes>>

HandlerReceive(c) ==
  /\ handler[c] = "live" /\ chan[c] # <<>>
  /\ LET f == Head(chan[c])
         grown == events[c] \cup {f}
     IN  \/ /\ f = Delta
            /\ wire' = [wire EXCEPT ![c] = Append(@, DeltaFrame)]
            /\ UNCHANGED locals
         \/ f # Delta /\ f <= Newest(events[c]) /\ UNCHANGED <<wire, locals>>
         \/ /\ f # Delta /\ f > Newest(events[c])
            /\ events' = [events EXCEPT ![c] = grown]
            /\ after' = [after EXCEPT ![c] = Newest({@, f})]
            /\ wire' = [wire EXCEPT ![c] =
                 @ \o (IF f > after[c] THEN <<EventFrame(f)>> ELSE <<>>)
                   \o <<RenderFrame(grown)>>]
  /\ chan' = [chan EXCEPT ![c] = Tail(@)]
  /\ UNCHANGED <<daemon, sub, handler, client, screen, tallies>>

\* A closed channel is drained first.  The handler returns and unsubscribes.
HandlerDropped(c) ==
  /\ handler[c] = "live" /\ chan[c] = <<>> /\ sub[c] = "closed"
  /\ wire' = [wire EXCEPT ![c] = Append(@, ReconnectFrame(after[c]))]
  /\ handler' = [handler EXCEPT ![c] = "none"]
  /\ sub' = [sub EXCEPT ![c] = "none"]
  /\ UNCHANGED <<daemon, chan, locals, client, screen, tallies>>

----------------------------------------------------------------------------
(* SseClient *)

\* connect, once its timer fires: a request that the daemon accepts and whose
\* cursor it reads.  A refused one only schedules the next.
Connect(c) ==
  /\ client[c] = "waiting" /\ up
  /\ client' = [client EXCEPT ![c] = "open"]
  /\ handler' = [handler EXCEPT ![c] = "accepted"]
  /\ after' = [after EXCEPT ![c] = cursor[c]]
  /\ events' = [events EXCEPT ![c] = {}]
  /\ wire' = [wire EXCEPT ![c] = <<>>]
  /\ UNCHANGED <<daemon, subscription, screen, tallies>>

ClientReceive(c) ==
  /\ client[c] = "open" /\ wire[c] # <<>>
  /\ LET f == Head(wire[c])
     IN  \/ /\ f.kind = "event"
            /\ cursor' = [cursor EXCEPT ![c] = Newest({@, f.seq})]
            /\ got' = [got EXCEPT ![c] = Append(@, f.seq)]
            /\ UNCHANGED <<view, client>>
         \/ /\ f.kind = "render"
            /\ view' = [view EXCEPT ![c] = f.rows]
            /\ UNCHANGED <<cursor, got, client>>
         \/ f.kind = "delta" /\ UNCHANGED <<screen, client>>
         \/ /\ f.kind = "reconnect"
            /\ cursor' = [cursor EXCEPT ![c] = f.seq]
            /\ client' = [client EXCEPT ![c] = "waiting"]
            /\ UNCHANGED <<got, view>>
  /\ wire' = [wire EXCEPT ![c] = Tail(@)]
  /\ UNCHANGED <<daemon, subscription, handler, locals, tallies>>

\* The server's side of connection c is over: its context is cancelled, its handler
\* returns and unsubscribes, and nobody reads what it still writes.
HangUp(c) ==
  /\ handler' = [handler EXCEPT ![c] = "none"]
  /\ sub' = [sub EXCEPT ![c] = "none"]
  /\ chan' = [chan EXCEPT ![c] = <<>>]
  /\ wire' = [wire EXCEPT ![c] = <<>>]

\* The connection breaks, with what is on the wire: onerror.
Break(c) ==
  /\ client[c] = "open" /\ breaks < MaxBreaks
  /\ breaks' = breaks + 1
  /\ client' = [client EXCEPT ![c] = "waiting"]
  /\ HangUp(c)
  /\ UNCHANGED <<daemon, locals, screen, deltas, crashes, faults>>

\* The response ended: onerror too.
ClientEnd(c) ==
  /\ client[c] = "open" /\ handler[c] = "none" /\ wire[c] = <<>>
  /\ client' = [client EXCEPT ![c] = "waiting"]
  /\ UNCHANGED <<daemon, subscription, handler, locals, wire, screen, tallies>>

Unsubscribe(c) ==
  /\ client[c] # "closed"
  /\ client' = [client EXCEPT ![c] = "closed"]
  /\ HangUp(c)
  /\ UNCHANGED <<daemon, locals, screen, tallies>>

----------------------------------------------------------------------------
\* What was written to the sockets may still arrive.
Crash ==
  /\ up /\ crashes < MaxCrashes
  /\ up' = FALSE /\ crashes' = crashes + 1
  /\ pend' = [w \in Writers |-> 0]
  /\ sub' = [c \in Clients |-> "none"]
  /\ chan' = [c \in Clients |-> <<>>]
  /\ handler' = [c \in Clients |-> "none"]
  /\ UNCHANGED <<ledger, locals, wire, client, screen, deltas, breaks, faults>>

Restart ==
  /\ ~up /\ up' = TRUE
  /\ UNCHANGED <<ledger, pend, subscription, handler, locals, wire, client, screen, tallies>>

Handler(c) ==
  HandlerSubscribe(c) \/ HandlerReplay(c) \/ HandlerReceive(c) \/ HandlerDropped(c)
Client(c) == Connect(c) \/ ClientReceive(c) \/ ClientEnd(c)

Next ==
  \/ \E w \in Writers : AppendEvent(w) \/ Publish(w)
  \/ \E c \in Clients : Handler(c) \/ Client(c) \/ Break(c) \/ Unsubscribe(c)
  \/ PublishDelta \/ Crash \/ Restart

Spec == Init /\ [][Next]_vars

\* Goroutines and the client's timers run; a dead daemon is started again.  Nobody
\* has to commit anything, and connections break only so often.
Fairness ==
  /\ \A w \in Writers : WF_vars(Publish(w))
  /\ \A c \in Clients : WF_vars(Handler(c)) /\ WF_vars(Client(c))
  /\ WF_vars(Restart)

FairSpec == Spec /\ Fairness

----------------------------------------------------------------------------
Seqs == 1..MaxEvents
Frames ==
  [kind : {"event", "reconnect"}, seq : Nat] \cup [kind : {"render"}, rows : SUBSET Nat]
  \cup {DeltaFrame}

\* Types; channels never hold more than their capacity.
TypeOK ==
  /\ ledger \in Seq(Writers) /\ up \in BOOLEAN
  /\ pend \in [Writers -> Nat]
  /\ sub \in [Clients -> {"none", "open", "closed"}]
  /\ chan \in [Clients -> Seq(Nat)]
  /\ handler \in [Clients -> {"none", "accepted", "subscribed", "live"}]
  /\ after \in [Clients -> Nat] /\ events \in [Clients -> SUBSET Nat]
  /\ wire \in [Clients -> Seq(Frames)]
  /\ client \in [Clients -> {"waiting", "open", "closed"}]
  /\ cursor \in [Clients -> Nat] /\ got \in [Clients -> Seq(Nat)]
  /\ view \in [Clients -> SUBSET Nat]
  /\ {deltas, breaks, crashes, faults} \subseteq Nat
  /\ \A c \in Clients : Len(chan[c]) <= BufferSize

\* With one committer at a time and a tail that fits the window, the stream is a feed
\* (EventFeed): it delivers every committed event once and in order, over broken
\* connections, dropped subscriptions and deaths of the daemon, to whoever stays.
Feed == INSTANCE EventFeed WITH
  committed <- Len(ledger),
  delivered <- got,
  left <- {c \in Clients : client[c] = "closed"}
DeliversEveryEvent == Feed!Spec

\* Whoever commits and whatever is read back, a client is never given an event twice
\* or out of order, on one connection or across them.
DeliveredInOrder ==
  \A c \in Clients : \A i, j \in DOMAIN got[c] : i < j => got[c][i] < got[c][j]

\* What is on the screen is a window of the ledger, without holes.
ViewHasNoHoles ==
  \A c \in Clients : \A i, j \in view[c] : i..j \subseteq view[c]

\* The screen catches up, unless the tail could not be read: a committed event comes
\* to be on it, or newer ones that push it out of the window do.
ViewCatchesUp ==
  \A c \in Clients : \A n \in Seqs :
    (Len(ledger) >= n) ~> (Newest(view[c]) >= n \/ client[c] = "closed" \/ faults > 0)

\* An event the cursor has passed was delivered (docs/API.md:99: no event is missed).
\* (Two committers break it, and so does a cursor older than the window: README, "What
\* the code does not guarantee".)
NothingSkipped ==
  \A c \in Clients : 1..cursor[c] \subseteq {got[c][i] : i \in DOMAIN got[c]}
=============================================================================
