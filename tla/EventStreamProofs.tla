------------------------- MODULE EventStreamProofs -------------------------
(***************************************************************************)
(* Theorems about EventStream, for any number of clients, events, breaks   *)
(* and crashes and buffers and windows of any size: what a client is given *)
(* is in order and once whoever commits; with one committer the screen has *)
(* no holes; and if the tail also fits the window and is always read, each *)
(* step is a step of the abstract feed.                                    *)
(***************************************************************************)
EXTENDS EventStream, SequenceTheorems, FiniteSetTheorems, WellFoundedInduction, TLAPS

----------------------------------------------------------------------------
(* The operators *)

\* A bounded set of seqs has a newest one, or it is empty and 0 stands for it.
LEMMA NewestFacts ==
  ASSUME NEW S \in SUBSET Nat, NEW b \in Nat, \A s \in S : s <= b
  PROVE  Newest(S) \in S \cup {0} /\ Newest(S) \in Nat /\ \A s \in S : s <= Newest(S)
<1> DEFINE T == {n \in Nat : \A s \in S \cup {0} : s <= n}
<1>1. b \in T
  OBVIOUS
<1>2. PICK n \in T : \A m \in T : <<m, n>> \notin OpToRel(<, Nat)
  BY <1>1, NatLessThanWellFounded, WFMin
<1>3. \A m \in T : ~(m < n)
  BY <1>2 DEF OpToRel
<1>4. n \in S \cup {0}
  <2>1. SUFFICES ASSUME n \notin S \cup {0} PROVE FALSE
    OBVIOUS
  <2>2. n - 1 \in T
    BY <2>1
  <2>3. QED
    BY <1>3, <2>2
<1>5. n \in S \cup {0} /\ \A s \in S \cup {0} : n >= s
  BY <1>4
<1>6. Newest(S) \in S \cup {0} /\ \A s \in S \cup {0} : Newest(S) >= s
  BY <1>5 DEF Newest, Max
<1> HIDE DEF T
<1>7. S \cup {0} \subseteq Nat /\ Newest(S) \in S \cup {0}
  BY <1>6
<1>8. ASSUME NEW s \in S PROVE s <= Newest(S)
  BY <1>6, <1>7
<1>9. QED
  BY <1>6, <1>7, <1>8

\* The newer of a cursor and another seq.
LEMMA NewerFacts ==
  ASSUME NEW m \in Nat, NEW n \in Nat
  PROVE  Newest({m, n}) = IF m < n THEN n ELSE m
<1>1. \A s \in {m, n} : s <= m + n
  OBVIOUS
<1>2. Newest({m, n}) \in {m, n} \cup {0} /\ \A s \in {m, n} : s <= Newest({m, n})
  BY <1>1, NewestFacts
<1>3. QED
  BY <1>2

\* The rows of an interval, read in the order of their seqs: each of them, once.
LEMMA InOrderFacts ==
  ASSUME NEW a \in Nat, NEW b \in Nat
  PROVE  LET S == a..b
             k == Cardinality(S)
         IN  /\ k \in Nat /\ InOrder(S) \in [1..k -> S]
             /\ \A i, j \in 1..k : i < j => InOrder(S)[i] < InOrder(S)[j]
             /\ \A n \in S : \E i \in 1..k : InOrder(S)[i] = n
<1> DEFINE S == a..b
           k == Cardinality(S)
           s == [i \in 1..k |-> a + i - 1]
           r == InOrder(S)
<1>1. IsFiniteSet(S) /\ k = IF a > b THEN 0 ELSE b - a + 1
  BY FS_Interval
<1>2. s \in [1..k -> S] /\ \A i, j \in DOMAIN s : i < j => s[i] < s[j]
  BY <1>1
<1> HIDE DEF s
<1>3. r \in [1..k -> S] /\ \A i, j \in DOMAIN r : i < j => r[i] < r[j]
  BY <1>2 DEF InOrder
<1>4. ASSUME NEW n \in S PROVE \E i \in 1..k : r[i] = n
  <2>1. r \in Injection(1..k, S)
    <3>1. ASSUME NEW i \in 1..k, NEW j \in 1..k, r[i] = r[j] PROVE i = j
      <4>1. i \in DOMAIN r /\ j \in DOMAIN r /\ i \in Int /\ j \in Int
        BY <1>1, <1>3
      <4>2. r[i] \in Int /\ ~(r[i] < r[i])
        BY <1>3, <4>1
      <4>3. ~(i < j) /\ ~(j < i)
        BY <1>3, <3>1, <4>1, <4>2
      <4>4. QED
        BY <4>1, <4>3
    <3>2. QED
      BY <1>3, <3>1 DEF Injection, IsInjective
  <2>2. Cardinality(1..k) = k
    BY <1>1, FS_Interval
  <2>3. r \in Surjection(1..k, S)
    BY <1>1, <2>1, <2>2, FS_Injection
  <2>4. QED
    BY <2>3 DEF Surjection
<1>5. QED
  BY <1>1, <1>3, <1>4

\* What the tail has beyond a client's cursor is an interval that ends at the newest row.
LEMMA LacksFacts ==
  ASSUME NEW l \in Seq(Writers), NEW c \in Clients, after[c] \in Nat
  PROVE  \E a \in Nat :
           /\ Lacks(c, EventsTail(l, RenderCap)) = a..Len(l)
           /\ after[c] < a /\ 1 <= a
           /\ Len(l) <= RenderCap => a = after[c] + 1
<1> DEFINE n == Len(l)
           start == IF n <= RenderCap THEN 1 ELSE n - RenderCap + 1
           a == IF after[c] < start THEN start ELSE after[c] + 1
<1>1. n \in Nat /\ DOMAIN l = 1..n /\ RenderCap \in Nat /\ RenderCap # 0
  BY SizesAssumption
<1>2. EventsTail(l, RenderCap) = start..n
  BY <1>1 DEF EventsTail, NewestOf
<1>3. a \in Nat /\ after[c] < a /\ 1 <= a /\ (n <= RenderCap => a = after[c] + 1)
  BY <1>1
<1>4. \A m \in Nat : (m \in start..n /\ m > after[c]) <=> m \in a..n
  BY <1>1
<1>5. Lacks(c, EventsTail(l, RenderCap)) = a..n
  BY <1>1, <1>2, <1>4 DEF Lacks
<1>6. QED
  BY <1>3, <1>5

----------------------------------------------------------------------------
(* In order, once *)

\* The types of the variables that the proofs below follow.
StreamTypes ==
  /\ ledger \in Seq(Writers)
  /\ pend \in [Writers -> Nat]
  /\ sub \in [Clients -> {"none", "open", "closed"}]
  /\ chan \in [Clients -> Seq(Nat)]
  /\ handler \in [Clients -> {"none", "accepted", "subscribed", "live"}]
  /\ after \in [Clients -> Nat] /\ events \in [Clients -> SUBSET Nat]
  /\ wire \in [Clients -> Seq(Frames)]
  /\ client \in [Clients -> {"waiting", "open", "closed"}]
  /\ cursor \in [Clients -> Nat] /\ got \in [Clients -> Seq(Nat)]
  /\ view \in [Clients -> SUBSET Nat]
  /\ faults \in Nat

\* What was given to client c is in order, and its cursor is past it.
Delivered(c) ==
  /\ \A i, j \in DOMAIN got[c] : i < j => got[c][i] < got[c][j]
  /\ \A i \in DOMAIN got[c] : got[c][i] <= cursor[c]

\* The events on the way to a client are in order, beyond its cursor and not beyond
\* the handler's; a reconnect frame is the last of its connection.
InFlight(c, cur, w) ==
  /\ \A i \in DOMAIN w :
       /\ w[i].kind = "event" => cur < w[i].seq /\ w[i].seq <= after[c]
       /\ w[i].kind = "reconnect" => w[i].seq = after[c] /\ handler[c] = "none" /\ i = Len(w)
  /\ \A i, j \in DOMAIN w :
       i < j /\ w[i].kind = "event" /\ w[j].kind = "event" => w[i].seq < w[j].seq

\* A connection: only an open client has one, and its handler is not behind it.
Connected(c) ==
  /\ client[c] # "open" => wire[c] = <<>> /\ handler[c] = "none"
  /\ client[c] = "open" => cursor[c] <= after[c]
  /\ InFlight(c, cursor[c], wire[c])

\* Nobody holds a seq that was not committed.
Committed(c) ==
  /\ after[c] <= Len(ledger) /\ cursor[c] <= Len(ledger)
  /\ \A n \in events[c] : 1 <= n /\ n <= Len(ledger)
  /\ \A i \in DOMAIN chan[c] : chan[c][i] <= Len(ledger)

IInv ==
  /\ StreamTypes
  /\ \A w \in Writers : pend[w] <= Len(ledger)
  /\ \A c \in Clients : Delivered(c) /\ Connected(c) /\ Committed(c)

LEMMA FrameFacts ==
  ASSUME NEW f \in Frames
  PROVE  /\ f.kind \in {"event", "reconnect", "render", "delta"}
         /\ f.kind \in {"event", "reconnect"} => f.seq \in Nat
         /\ f.kind = "render" => f.rows \in SUBSET Nat
  BY DEF Frames, DeltaFrame

LEMMA FramesAreFrames ==
  /\ \A n \in Nat : EventFrame(n) \in Frames /\ ReconnectFrame(n) \in Frames
  /\ \A S \in SUBSET Nat : RenderFrame(S) \in Frames
  /\ DeltaFrame \in Frames
  BY DEF Frames, EventFrame, ReconnectFrame, RenderFrame, DeltaFrame

\* What the handler writes goes behind what is on the wire: if it is in order and newer,
\* all of it is.
LEMMA WriteKeeps ==
  ASSUME StreamTypes, NEW c \in Clients, Connected(c), NEW fs \in Seq(Frames), NEW a \in Nat,
         after[c] <= a, handler[c] # "none",
         wire' = [wire EXCEPT ![c] = @ \o fs], after' = [after EXCEPT ![c] = a],
         UNCHANGED <<client, cursor>>,
         \A i \in DOMAIN fs :
           /\ fs[i].kind # "reconnect"
           /\ fs[i].kind = "event" => after[c] < fs[i].seq /\ fs[i].seq <= a,
         \A i, j \in DOMAIN fs :
           i < j /\ fs[i].kind = "event" /\ fs[j].kind = "event" => fs[i].seq < fs[j].seq
  PROVE  /\ wire' \in [Clients -> Seq(Frames)] /\ after' \in [Clients -> Nat]
         /\ Connected(c)'
<1> DEFINE w == wire[c]
           v == w \o fs
<1>1. /\ w \in Seq(Frames) /\ Len(w) \in Nat /\ Len(fs) \in Nat
      /\ DOMAIN w = 1..Len(w) /\ DOMAIN fs = 1..Len(fs)
  BY DEF StreamTypes
<1>2. /\ v \in Seq(Frames) /\ DOMAIN v = 1..(Len(w) + Len(fs))
      /\ \A i \in 1..Len(w) : v[i] = w[i]
      /\ \A i \in DOMAIN v : i > Len(w) => i - Len(w) \in 1..Len(fs) /\ v[i] = fs[i - Len(w)]
  BY <1>1
<1>3. /\ wire' \in [Clients -> Seq(Frames)] /\ after' \in [Clients -> Nat]
      /\ wire'[c] = v /\ after'[c] = a /\ client'[c] = client[c] /\ cursor'[c] = cursor[c]
      /\ client[c] = "open" /\ cursor[c] \in Nat /\ after[c] \in Nat
  BY <1>2 DEF StreamTypes, Connected
<1> HIDE DEF w, v
<1>4. /\ \A i \in 1..Len(w) : /\ w[i].kind # "reconnect"
                              /\ w[i].kind = "event" => cursor[c] < w[i].seq /\ w[i].seq <= after[c]
      /\ \A i, j \in 1..Len(w) :
           i < j /\ w[i].kind = "event" /\ w[j].kind = "event" => w[i].seq < w[j].seq
      /\ cursor[c] <= after[c]
  BY <1>1, <1>3 DEF Connected, InFlight, w
<1>5. ASSUME NEW i \in DOMAIN v
      PROVE  /\ v[i].kind # "reconnect"
             /\ v[i].kind = "event" => v[i].seq \in Nat /\ cursor[c] < v[i].seq /\ v[i].seq <= a
  <2>1. v[i].kind = "event" => v[i].seq \in Nat
    BY <1>2, FrameFacts
  <2>2. CASE i \in 1..Len(w)
    BY <1>2, <1>3, <1>4, <2>1, <2>2
  <2>3. CASE i > Len(w)
    <3>1. i - Len(w) \in DOMAIN fs /\ v[i] = fs[i - Len(w)]
      BY <1>1, <1>2, <2>3
    <3>2. v[i].kind # "reconnect" /\ (v[i].kind = "event" => after[c] < v[i].seq /\ v[i].seq <= a)
      BY <3>1
    <3>3. QED
      BY <1>3, <1>4, <2>1, <3>2
  <2>4. QED
    BY <1>1, <1>2, <2>2, <2>3
<1>6. ASSUME NEW i \in DOMAIN v, NEW j \in DOMAIN v, i < j, v[i].kind = "event", v[j].kind = "event"
      PROVE  v[i].seq < v[j].seq
  <2>1. i \in Nat /\ j \in Nat /\ v[i].seq \in Nat /\ v[j].seq \in Nat
    BY <1>1, <1>2, <1>5, <1>6
  <2>2. CASE j \in 1..Len(w)
    <3>1. i \in 1..Len(w) /\ v[i] = w[i] /\ v[j] = w[j]
      BY <1>1, <1>2, <1>6, <2>1, <2>2
    <3>2. QED
      BY <1>4, <1>6, <2>2, <3>1
  <2>3. CASE i \in 1..Len(w) /\ j > Len(w)
    <3>1. v[i] = w[i] /\ v[i].seq <= after[c]
      BY <1>2, <1>4, <1>6, <2>3
    <3>2. j - Len(w) \in DOMAIN fs /\ v[j] = fs[j - Len(w)]
      BY <1>1, <1>2, <2>3
    <3>3. after[c] < v[j].seq
      BY <1>6, <3>2
    <3>4. QED
      BY <1>3, <2>1, <3>1, <3>3
  <2>4. CASE i > Len(w)
    <3>1. /\ i - Len(w) \in DOMAIN fs /\ j - Len(w) \in DOMAIN fs /\ i - Len(w) < j - Len(w)
          /\ v[i] = fs[i - Len(w)] /\ v[j] = fs[j - Len(w)]
      <4>1. j > Len(w) /\ i - Len(w) < j - Len(w)
        BY <1>1, <1>6, <2>1, <2>4
      <4>2. i - Len(w) \in 1..Len(fs) /\ v[i] = fs[i - Len(w)]
        BY <1>2, <2>4
      <4>3. j - Len(w) \in 1..Len(fs) /\ v[j] = fs[j - Len(w)]
        BY <1>2, <4>1
      <4>4. QED
        BY <1>1, <4>1, <4>2, <4>3
    <3>2. fs[i - Len(w)].kind = "event" /\ fs[j - Len(w)].kind = "event"
      BY <1>6, <3>1
    <3>3. QED
      BY <3>1, <3>2
  <2>5. QED
    BY <1>1, <1>2, <2>1, <2>2, <2>3, <2>4
<1>7. InFlight(c, cursor[c], wire[c])'
  BY <1>3, <1>5, <1>6 DEF InFlight
<1>8. cursor[c] <= a
  BY <1>3, <1>4
<1>9. QED
  BY <1>3, <1>7, <1>8 DEF Connected

LEMMA OrderInit == Init => IInv
  BY DEF Init, IInv, StreamTypes, Delivered, Connected, InFlight, Committed

\* A frame goes to the subscribers that have room for it.
LEMMA FanoutFacts ==
  ASSUME StreamTypes, NEW f \in Nat, Fanout(f)
  PROVE  /\ sub' \in [Clients -> {"none", "open", "closed"}] /\ chan' \in [Clients -> Seq(Nat)]
         /\ \A c \in Clients :
              \/ chan'[c] = chan[c] /\ ((sub'[c] = sub[c] /\ sub[c] # "open") \/ sub'[c] = "closed")
              \/ chan'[c] = Append(chan[c], f) /\ sub'[c] = sub[c] /\ sub[c] = "open"
  BY DEF Fanout, StreamTypes

\* A step that does not touch the client and its connection keeps what holds of them.
LEMMA KeptForOthers ==
  ASSUME IInv, NEW c \in Clients, Len(ledger) <= Len(ledger'), ledger' \in Seq(Writers),
         got'[c] = got[c], cursor'[c] = cursor[c], client'[c] = client[c],
         handler'[c] = handler[c], after'[c] = after[c], wire'[c] = wire[c],
         events'[c] = events[c], chan'[c] = chan[c]
  PROVE  (Delivered(c) /\ Connected(c) /\ Committed(c))'
<1>1. /\ ledger \in Seq(Writers) /\ Len(ledger) \in Nat /\ Len(ledger') \in Nat
      /\ after[c] \in Nat /\ cursor[c] \in Nat /\ events[c] \in SUBSET Nat /\ chan[c] \in Seq(Nat)
  BY DEF IInv, StreamTypes
<1>2. Delivered(c)'
  BY DEF IInv, Delivered
<1>3. Connected(c)'
  BY DEF IInv, Connected, InFlight
<1>4. Committed(c)'
  BY <1>1 DEF IInv, Committed
<1>5. QED
  BY <1>2, <1>3, <1>4

\* A step of client c, its connection and its handler.
OnlyAt(c) ==
  /\ UNCHANGED <<ledger, pend>>
  /\ \A d \in Clients \ {c} :
       /\ got'[d] = got[d] /\ cursor'[d] = cursor[d] /\ client'[d] = client[d]
       /\ handler'[d] = handler[d] /\ after'[d] = after[d] /\ wire'[d] = wire[d]
       /\ events'[d] = events[d] /\ chan'[d] = chan[d]

LEMMA OneClientKeeps ==
  ASSUME IInv, NEW c \in Clients, OnlyAt(c), StreamTypes',
         Delivered(c)', Connected(c)', Committed(c)'
  PROVE  IInv'
<1>1. /\ ledger \in Seq(Writers) /\ ledger' = ledger /\ Len(ledger) <= Len(ledger')
      /\ \A w \in Writers : pend'[w] <= Len(ledger')
  BY DEF OnlyAt, IInv, StreamTypes
<1>2. ASSUME NEW d \in Clients \ {c} PROVE (Delivered(d) /\ Connected(d) /\ Committed(d))'
  BY <1>1, KeptForOthers DEF OnlyAt
<1>3. QED
  BY <1>1, <1>2 DEF IInv

\* Publishing and deltas reach only the channels.
LEMMA FanoutKeeps ==
  ASSUME IInv, NEW f \in Nat, f <= Len(ledger), Fanout(f), pend' \in [Writers -> Nat],
         \A w \in Writers : pend'[w] <= Len(ledger), faults' = faults,
         UNCHANGED <<ledger, handler, locals, wire, client, screen>>
  PROVE  IInv'
<1>1. StreamTypes'
  BY FanoutFacts DEF IInv, StreamTypes, locals, screen
<1>2. ASSUME NEW c \in Clients PROVE (Delivered(c) /\ Connected(c))'
  BY DEF IInv, Delivered, Connected, InFlight, locals, screen
<1>3. ASSUME NEW c \in Clients PROVE Committed(c)'
  <2>1. chan'[c] = chan[c] \/ chan'[c] = Append(chan[c], f)
    BY FanoutFacts DEF IInv
  <2>2. chan[c] \in Seq(Nat) /\ \A i \in DOMAIN chan[c] : chan[c][i] <= Len(ledger)
    BY DEF IInv, StreamTypes, Committed
  <2>3. \A i \in DOMAIN chan'[c] : chan'[c][i] <= Len(ledger)
    <3>1. CASE chan'[c] = chan[c]
      BY <2>2, <3>1
    <3>2. CASE chan'[c] = Append(chan[c], f)
      BY <2>2, <3>2, AppendProperties
    <3>3. QED
      BY <2>1, <3>1, <3>2
  <2>4. QED
    BY <2>3 DEF IInv, Committed, locals, screen
<1>4. QED
  BY <1>1, <1>2, <1>3 DEF IInv

\* The handler takes the channel to q, its events to S and its cursor to a, and writes
\* the frames fs, which are in order and newer than its cursor.
Handles(c, fs, a, S, q) ==
  /\ wire' = [wire EXCEPT ![c] = @ \o fs] /\ after' = [after EXCEPT ![c] = a]
  /\ events' = [events EXCEPT ![c] = S] /\ chan' = [chan EXCEPT ![c] = q]
  /\ handler[c] # "none" /\ handler' = [handler EXCEPT ![c] = "live"] /\ faults' \in Nat
  /\ UNCHANGED <<daemon, sub, client, screen>>
  /\ after[c] <= a /\ a <= Len(ledger)
  /\ \A n \in S : 1 <= n /\ n <= Len(ledger)
  /\ \A i \in DOMAIN q : q[i] <= Len(ledger)
  /\ \A i \in DOMAIN fs :
       /\ fs[i].kind # "reconnect"
       /\ fs[i].kind = "event" => after[c] < fs[i].seq /\ fs[i].seq <= a
  /\ \A i, j \in DOMAIN fs :
       i < j /\ fs[i].kind = "event" /\ fs[j].kind = "event" => fs[i].seq < fs[j].seq

LEMMA HandlerKeeps ==
  ASSUME IInv, NEW c \in Clients,
         NEW fs \in Seq(Frames), NEW a \in Nat, NEW S \in SUBSET Nat, NEW q \in Seq(Nat),
         Handles(c, fs, a, S, q)
  PROVE  IInv'
<1> USE DEF Handles
<1>0. Len(ledger) \in Nat /\ ledger \in Seq(Writers)
  BY DEF IInv, StreamTypes
<1>1. UNCHANGED <<client, cursor>> /\ StreamTypes /\ Connected(c)
  BY DEF IInv, screen
<1>2. /\ wire' \in [Clients -> Seq(Frames)] /\ after' \in [Clients -> Nat]
      /\ Connected(c)'
  BY <1>1, WriteKeeps
<1>3. StreamTypes'
  BY <1>2 DEF IInv, StreamTypes, daemon, screen
<1>4. Delivered(c)' /\ Committed(c)'
  BY <1>0 DEF IInv, StreamTypes, Delivered, Committed, daemon, screen
<1>5. OnlyAt(c)
  BY DEF OnlyAt, IInv, StreamTypes, daemon, screen
<1>6. QED
  BY <1>2, <1>3, <1>4, <1>5, OneClientKeeps

LEMMA OneFrame ==
  ASSUME NEW F, NEW x \in F
  PROVE  <<x>> \in Seq(F) /\ DOMAIN <<x>> = {1} /\ <<x>>[1] = x
  OBVIOUS

LEMMA TwoFrames ==
  ASSUME NEW F, NEW x \in F, NEW y \in F
  PROVE  LET s == <<x>> \o <<y>>
         IN  s \in Seq(F) /\ DOMAIN s = {1, 2} /\ s[1] = x /\ s[2] = y
  OBVIOUS

LEMMA FramesAssociate ==
  ASSUME NEW p \in Seq(Frames), NEW q \in Seq(Frames), NEW r \in Seq(Frames)
  PROVE  p \o q \o r = p \o (q \o r)
  OBVIOUS

\* The tail is read: what the client lacks of it is written in its order.
LEMMA ReplayOrdered ==
  ASSUME IInv, NEW c \in Clients, HandlerReplay(c)
  PROVE  IInv'
<1>0. /\ ledger \in Seq(Writers) /\ Len(ledger) \in Nat /\ DOMAIN ledger = 1..Len(ledger)
      /\ after[c] \in Nat /\ handler[c] = "subscribed" /\ after[c] <= Len(ledger)
  BY DEF IInv, StreamTypes, HandlerReplay, Committed
<1>1. PICK tail \in {EventsTail(ledger, RenderCap), {}} :
        LET new == Lacks(c, tail)
        IN  /\ events' = [events EXCEPT ![c] = tail]
            /\ after' = [after EXCEPT ![c] = Newest(new \cup {@})]
            /\ wire' = [wire EXCEPT ![c] =
                 @ \o [i \in 1..Cardinality(new) |-> EventFrame(InOrder(new)[i])]
                   \o <<RenderFrame(tail)>>]
            /\ faults' \in {faults, faults + 1}
  BY DEF HandlerReplay
<1> DEFINE new == Lacks(c, tail)
           k == Cardinality(new)
           evs == [i \in 1..k |-> EventFrame(InOrder(new)[i])]
           fs == evs \o <<RenderFrame(tail)>>
           a == Newest(new \cup {after[c]})
<1>2. \E b \in Nat : new = b..Len(ledger) /\ after[c] < b /\ 1 <= b
  <2>1. CASE tail = {}
    <3>1. new = {} /\ (Len(ledger) + 1)..Len(ledger) = {}
      BY <1>0, <2>1 DEF Lacks
    <3>2. Len(ledger) + 1 \in Nat /\ after[c] < Len(ledger) + 1 /\ 1 <= Len(ledger) + 1
      BY <1>0
    <3>3. QED
      BY <3>1, <3>2
  <2>2. CASE tail = EventsTail(ledger, RenderCap)
    BY <1>0, <2>2, LacksFacts
  <2>3. QED
    BY <2>1, <2>2
<1>3. /\ tail \in SUBSET Nat /\ \A n \in tail : 1 <= n /\ n <= Len(ledger)
      /\ \A n \in new : n \in Nat /\ after[c] < n /\ n <= Len(ledger)
  BY <1>0, <1>2 DEF EventsTail, NewestOf
<1>4. /\ k \in Nat /\ InOrder(new) \in [1..k -> new]
      /\ \A i, j \in 1..k : i < j => InOrder(new)[i] < InOrder(new)[j]
  BY <1>0, <1>2, InOrderFacts
<1>5. a \in Nat /\ after[c] <= a /\ a <= Len(ledger) /\ \A n \in new : n <= a
  <2>1. new \cup {after[c]} \in SUBSET Nat /\ \A n \in new \cup {after[c]} : n <= Len(ledger)
    BY <1>0, <1>3
  <2>2. /\ a \in new \cup {after[c]} \cup {0} /\ a \in Nat
        /\ \A n \in new \cup {after[c]} : n <= a
    BY <1>0, <2>1, NewestFacts
  <2> HIDE DEF a
  <2>3. after[c] <= a /\ \A n \in new : n <= a
    BY <2>2
  <2>4. a <= Len(ledger)
    BY <1>0, <2>1, <2>2
  <2>5. QED
    BY <2>2, <2>3, <2>4
<1>6. \A i \in 1..k : evs[i] \in Frames /\ evs[i].kind = "event" /\ evs[i].seq = InOrder(new)[i]
  BY <1>3, <1>4, FramesAreFrames DEF EventFrame
<1>7. evs \in Seq(Frames) /\ Len(evs) = k /\ <<RenderFrame(tail)>> \in Seq(Frames)
  BY <1>3, <1>4, <1>6, FramesAreFrames
<1> HIDE DEF evs
<1>8. /\ fs \in Seq(Frames) /\ DOMAIN fs = 1..(k + 1)
      /\ \A i \in 1..k : fs[i] = evs[i]
      /\ fs[k + 1] = RenderFrame(tail)
  BY <1>4, <1>7
<1> HIDE DEF fs, a, new
<1>9. ASSUME NEW i \in DOMAIN fs
      PROVE  /\ fs[i].kind # "reconnect"
             /\ fs[i].kind = "event" => i \in 1..k /\ after[c] < fs[i].seq /\ fs[i].seq <= a
  <2>1. CASE i \in 1..k
    BY <1>3, <1>4, <1>5, <1>6, <1>8, <2>1
  <2>2. CASE i = k + 1
    BY <1>8, <2>2 DEF RenderFrame
  <2>3. QED
    BY <1>4, <1>8, <2>1, <2>2
<1>10. ASSUME NEW i \in DOMAIN fs, NEW j \in DOMAIN fs, i < j,
              fs[i].kind = "event", fs[j].kind = "event"
       PROVE  fs[i].seq < fs[j].seq
  BY <1>4, <1>6, <1>8, <1>9, <1>10
<1>11. wire' = [wire EXCEPT ![c] = @ \o fs]
  <2>1. wire[c] \in Seq(Frames)
    BY DEF IInv, StreamTypes
  <2>2. wire[c] \o evs \o <<RenderFrame(tail)>> = wire[c] \o fs
    BY <1>7, <2>1, FramesAssociate DEF fs
  <2>3. QED
    BY <1>1, <2>2 DEF fs, evs, new
<1>12. /\ after' = [after EXCEPT ![c] = a]
       /\ events' = [events EXCEPT ![c] = tail] /\ chan' = [chan EXCEPT ![c] = chan[c]]
       /\ faults' \in Nat
  BY <1>1 DEF a, new, HandlerReplay, subscription, IInv, StreamTypes
<1>13. chan[c] \in Seq(Nat) /\ \A i \in DOMAIN chan[c] : chan[c][i] <= Len(ledger)
  BY DEF IInv, StreamTypes, Committed
<1>14. handler' = [handler EXCEPT ![c] = "live"] /\ UNCHANGED <<daemon, sub, client, screen>>
  BY DEF HandlerReplay, subscription
<1>15. Handles(c, fs, a, tail, chan[c])
  BY <1>0, <1>3, <1>5, <1>8, <1>9, <1>10, <1>11, <1>12, <1>13, <1>14 DEF Handles
<1>16. QED
  BY <1>3, <1>5, <1>8, <1>13, <1>15, HandlerKeeps

\* A frame is taken from the channel: an event the handler has not yet goes on.
LEMMA ReceiveOrdered ==
  ASSUME IInv, NEW c \in Clients, HandlerReceive(c)
  PROVE  IInv'
<1> DEFINE f == Head(chan[c])
           grown == events[c] \cup {f}
<1>0. /\ Len(ledger) \in Nat /\ after[c] \in Nat /\ events[c] \in SUBSET Nat /\ wire[c] \in Seq(Frames)
      /\ chan[c] \in Seq(Nat) /\ chan[c] # <<>> /\ handler[c] = "live" /\ after[c] <= Len(ledger)
      /\ \A n \in events[c] : 1 <= n /\ n <= Len(ledger)
      /\ \A i \in DOMAIN chan[c] : chan[c][i] <= Len(ledger)
  <2>1. chan[c] # <<>> /\ handler[c] = "live"
    BY DEF HandlerReceive
  <2>2. StreamTypes /\ Committed(c)
    BY DEF IInv
  <2>3. QED
    BY <2>1, <2>2 DEF StreamTypes, Committed
<1>1. /\ f \in Nat /\ f <= Len(ledger)
      /\ Tail(chan[c]) \in Seq(Nat) /\ \A i \in DOMAIN Tail(chan[c]) : Tail(chan[c])[i] <= Len(ledger)
  <2>1. f = chan[c][1] /\ 1 \in DOMAIN chan[c]
    BY <1>0
  <2>2. \A i \in DOMAIN Tail(chan[c]) : i + 1 \in DOMAIN chan[c] /\ Tail(chan[c])[i] = chan[c][i + 1]
    BY <1>0
  <2>3. QED
    BY <1>0, <2>1, <2>2
<1>2. /\ chan' = [chan EXCEPT ![c] = Tail(@)]
      /\ UNCHANGED <<daemon, sub, handler, client, screen, faults>>
  BY DEF HandlerReceive, tallies
<1> HIDE DEF f
<1>3. handler' = [handler EXCEPT ![c] = "live"] /\ UNCHANGED <<daemon, sub, client, screen>>
  BY <1>0, <1>2 DEF IInv, StreamTypes
<1>4. faults' \in Nat /\ after[c] <= after[c]
  BY <1>0, <1>2 DEF IInv, StreamTypes
<1>5. CASE f = Delta /\ wire' = [wire EXCEPT ![c] = Append(@, DeltaFrame)] /\ UNCHANGED locals
  <2> DEFINE fs == <<DeltaFrame>>
  <2>1. /\ fs \in Seq(Frames) /\ DOMAIN fs = {1} /\ fs[1] = DeltaFrame
        /\ Append(wire[c], DeltaFrame) = wire[c] \o fs
    BY <1>0, FramesAreFrames, OneFrame, AppendIsConcat
  <2>2. /\ after' = [after EXCEPT ![c] = after[c]] /\ events' = [events EXCEPT ![c] = events[c]]
        /\ wire' = [wire EXCEPT ![c] = @ \o fs]
    BY <1>5, <2>1 DEF IInv, StreamTypes, locals
  <2> HIDE DEF fs
  <2>3. \A i \in DOMAIN fs : fs[i].kind = "delta"
    BY <2>1 DEF DeltaFrame
  <2>4. Handles(c, fs, after[c], events[c], Tail(chan[c]))
    BY <1>0, <1>1, <1>2, <1>3, <1>4, <2>1, <2>2, <2>3 DEF Handles
  <2>5. QED
    BY <1>0, <1>1, <2>1, <2>4, HandlerKeeps
<1>6. CASE UNCHANGED <<wire, locals>>
  <2> DEFINE fs == <<>>
  <2>1. fs \in Seq(Frames) /\ wire[c] \o fs = wire[c] /\ DOMAIN fs = {}
    BY <1>0
  <2>2. /\ after' = [after EXCEPT ![c] = after[c]] /\ events' = [events EXCEPT ![c] = events[c]]
        /\ wire' = [wire EXCEPT ![c] = @ \o fs]
    BY <1>6, <2>1 DEF IInv, StreamTypes, locals
  <2> HIDE DEF fs
  <2>3. Handles(c, fs, after[c], events[c], Tail(chan[c]))
    BY <1>0, <1>1, <1>2, <1>3, <1>4, <2>1, <2>2 DEF Handles
  <2>4. QED
    BY <1>0, <1>1, <2>1, <2>3, HandlerKeeps
<1>7. CASE /\ f # Delta
           /\ events' = [events EXCEPT ![c] = grown]
           /\ after' = [after EXCEPT ![c] = Newest({@, f})]
           /\ wire' = [wire EXCEPT ![c] =
                @ \o (IF f > after[c] THEN <<EventFrame(f)>> ELSE <<>>) \o <<RenderFrame(grown)>>]
  <2> DEFINE a == IF after[c] < f THEN f ELSE after[c]
             last == <<RenderFrame(grown)>>
  <2>1. /\ grown \in SUBSET Nat /\ \A n \in grown : 1 <= n /\ n <= Len(ledger)
        /\ a \in Nat /\ after[c] <= a /\ a <= Len(ledger)
    BY <1>0, <1>1, <1>7 DEF Delta
  <2>2. after' = [after EXCEPT ![c] = a]
    BY <1>0, <1>1, <1>7, NewerFacts
  <2>3. /\ EventFrame(f) \in Frames /\ RenderFrame(grown) \in Frames
        /\ EventFrame(f).kind = "event" /\ EventFrame(f).seq = f
        /\ RenderFrame(grown).kind = "render"
    BY <1>1, <2>1, FramesAreFrames DEF EventFrame, RenderFrame
  <2>4. <<EventFrame(f)>> \in Seq(Frames) /\ last \in Seq(Frames)
    BY <2>3, OneFrame
  <2>5. CASE f > after[c]
    <3> DEFINE fs == <<EventFrame(f)>> \o last
    <3>1. /\ fs \in Seq(Frames) /\ DOMAIN fs = {1, 2}
          /\ fs[1] = EventFrame(f) /\ fs[2] = RenderFrame(grown)
      BY <2>3, TwoFrames
    <3>2. wire' = [wire EXCEPT ![c] = @ \o fs]
      BY <1>0, <1>7, <2>4, <2>5, FramesAssociate
    <3>3. a = f
      BY <1>0, <1>1, <2>5
    <3> HIDE DEF fs, a
    <3>4. \A i \in DOMAIN fs :
            /\ fs[i].kind # "reconnect"
            /\ fs[i].kind = "event" => i = 1 /\ after[c] < fs[i].seq /\ fs[i].seq <= a
      BY <1>0, <1>1, <2>3, <2>5, <3>1, <3>3
    <3>5. \A i, j \in DOMAIN fs : fs[i].kind = "event" /\ fs[j].kind = "event" => ~(i < j)
      BY <3>4
    <3>6. Handles(c, fs, a, grown, Tail(chan[c]))
      BY <1>0, <1>1, <1>2, <1>3, <1>4, <1>7, <2>1, <2>2, <3>2, <3>4, <3>5 DEF Handles
    <3>7. QED
      BY <1>1, <2>1, <3>1, <3>6, HandlerKeeps
  <2>6. CASE ~(f > after[c])
    <3>1. last \in Seq(Frames) /\ DOMAIN last = {1} /\ last[1] = RenderFrame(grown)
      BY <2>3, OneFrame
    <3>2. wire[c] \o <<>> = wire[c]
      BY <1>0
    <3>3. wire' = [wire EXCEPT ![c] = @ \o last]
      BY <1>7, <2>6, <3>2
    <3> HIDE DEF last, a
    <3>4. \A i \in DOMAIN last : last[i].kind = "render"
      BY <2>3, <3>1
    <3>5. Handles(c, last, a, grown, Tail(chan[c]))
      BY <1>0, <1>1, <1>2, <1>3, <1>4, <1>7, <2>1, <2>2, <3>1, <3>3, <3>4 DEF Handles
    <3>6. QED
      BY <1>1, <2>1, <3>1, <3>5, HandlerKeeps
  <2>7. QED
    BY <2>5, <2>6
<1>8. QED
  BY <1>5, <1>6, <1>7 DEF HandlerReceive, f

\* The client takes a frame: an event is newer than all it was given, and a reconnect
\* frame does not take its cursor back.
LEMMA ClientReceiveOrdered ==
  ASSUME IInv, NEW c \in Clients, ClientReceive(c)
  PROVE  IInv'
<1> DEFINE w == wire[c]
           f == Head(w)
<1>0. /\ Len(ledger) \in Nat /\ cursor[c] \in Nat /\ after[c] \in Nat /\ got[c] \in Seq(Nat)
      /\ w \in Seq(Frames) /\ w # <<>> /\ client[c] = "open"
      /\ cursor[c] <= after[c] /\ after[c] <= Len(ledger)
      /\ InFlight(c, cursor[c], w) /\ Delivered(c) /\ Committed(c)
  BY DEF IInv, StreamTypes, Connected, Committed, ClientReceive
<1>1. /\ f = w[1] /\ 1 \in DOMAIN w /\ f \in Frames
      /\ Tail(w) \in Seq(Frames) /\ Len(w) = Len(Tail(w)) + 1 /\ Len(Tail(w)) \in Nat
      /\ \A i \in DOMAIN Tail(w) : i + 1 \in DOMAIN w /\ Tail(w)[i] = w[i + 1] /\ i \in Nat /\ 1 < i + 1
  BY <1>0
<1>2. /\ wire' = [wire EXCEPT ![c] = Tail(w)]
      /\ UNCHANGED <<daemon, subscription, handler, locals, faults>>
  BY DEF ClientReceive, tallies
<1> HIDE DEF w, f
<1>3. ASSUME NEW cur \in Nat, cur <= cursor[c]
      PROVE  InFlight(c, cur, Tail(w))
  <2>1. ASSUME NEW i \in DOMAIN Tail(w)
        PROVE  /\ Tail(w)[i].kind = "event" => cur < Tail(w)[i].seq /\ Tail(w)[i].seq <= after[c]
               /\ Tail(w)[i].kind = "reconnect" =>
                    Tail(w)[i].seq = after[c] /\ handler[c] = "none" /\ i = Len(Tail(w))
    <3>1. w[i + 1] \in Frames
      BY <1>0, <1>1
    <3>2. w[i + 1].kind = "event" => w[i + 1].seq \in Nat
      BY <3>1, FrameFacts
    <3>3. Tail(w)[i] = w[i + 1] /\ i + 1 \in DOMAIN w /\ i \in Nat
      BY <1>1
    <3>4. /\ w[i + 1].kind = "event" => cursor[c] < w[i + 1].seq /\ w[i + 1].seq <= after[c]
          /\ w[i + 1].kind = "reconnect" =>
               w[i + 1].seq = after[c] /\ handler[c] = "none" /\ i + 1 = Len(w)
      BY <1>0, <3>3 DEF InFlight
    <3>5. i + 1 = Len(w) => i = Len(Tail(w))
      <4> DEFINE n == Len(Tail(w))
      <4>1. n \in Nat /\ i \in Nat /\ Len(w) = n + 1
        BY <1>1, <3>3
      <4> HIDE DEF n
      <4>2. i + 1 = Len(w) => i = n
        BY <4>1
      <4>3. QED
        BY <4>2 DEF n
    <3>6. w[i + 1].kind = "event" => cur < w[i + 1].seq
      BY <1>0, <1>3, <3>2, <3>4
    <3>7. QED
      BY <3>3, <3>4, <3>5, <3>6
  <2>2. \A i, j \in DOMAIN Tail(w) :
          i < j /\ Tail(w)[i].kind = "event" /\ Tail(w)[j].kind = "event"
            => Tail(w)[i].seq < Tail(w)[j].seq
    BY <1>0, <1>1 DEF InFlight
  <2>3. QED
    BY <2>1, <2>2 DEF InFlight
<1>4. CASE /\ f.kind = "event"
           /\ cursor' = [cursor EXCEPT ![c] = Newest({@, f.seq})]
           /\ got' = [got EXCEPT ![c] = Append(@, f.seq)]
           /\ UNCHANGED <<view, client>>
  <2>1. f.seq \in Nat /\ cursor[c] < f.seq /\ f.seq <= after[c]
    BY <1>0, <1>1, <1>4, FrameFacts DEF InFlight
  <2>2. cursor' = [cursor EXCEPT ![c] = f.seq]
    BY <1>0, <1>4, <2>1, NewerFacts
  <2>3. \A i \in DOMAIN Tail(w) : Tail(w)[i].kind = "event" => f.seq < Tail(w)[i].seq
    BY <1>0, <1>1, <1>4 DEF InFlight
  <2>4. InFlight(c, f.seq, Tail(w))
    <3>1. InFlight(c, cursor[c], Tail(w))
      BY <1>0, <1>3
    <3>2. QED
      BY <2>3, <3>1 DEF InFlight
  <2>5. StreamTypes'
    <3>1. /\ got' \in [Clients -> Seq(Nat)] /\ cursor' \in [Clients -> Nat]
          /\ wire' \in [Clients -> Seq(Frames)]
      <4>1. Append(got[c], f.seq) \in Seq(Nat)
        BY <1>0, <2>1
      <4>2. got \in [Clients -> Seq(Nat)] /\ cursor \in [Clients -> Nat] /\ wire \in [Clients -> Seq(Frames)]
        BY DEF IInv, StreamTypes
      <4>3. QED
        BY <1>1, <1>2, <1>4, <2>1, <2>2, <4>1, <4>2
    <3>2. QED
      BY <1>2, <1>4, <3>1 DEF IInv, StreamTypes, daemon, subscription, locals
  <2>6. Delivered(c)'
    <3> DEFINE g == got[c]
    <3>1. got'[c] = Append(g, f.seq) /\ cursor'[c] = f.seq
      BY <1>4, <2>2 DEF IInv, StreamTypes
    <3>2. /\ g \in Seq(Nat) /\ \A i \in DOMAIN g : g[i] \in Nat /\ g[i] <= cursor[c]
          /\ \A i, j \in DOMAIN g : i < j => g[i] < g[j]
      BY <1>0 DEF Delivered
    <3> HIDE DEF g
    <3>3. DOMAIN Append(g, f.seq) = DOMAIN g \cup {Len(g) + 1} /\ Len(g) \in Nat /\ DOMAIN g = 1..Len(g)
          /\ Append(g, f.seq)[Len(g) + 1] = f.seq /\ \A i \in DOMAIN g : Append(g, f.seq)[i] = g[i]
      BY <2>1, <3>2
    <3>4. \A i \in DOMAIN g : g[i] < f.seq
      BY <1>0, <2>1, <3>2
    <3>5. QED
      BY <2>1, <3>1, <3>2, <3>3, <3>4 DEF Delivered
  <2>7. Connected(c)' /\ Committed(c)'
    <3>1. /\ cursor'[c] = f.seq /\ wire'[c] = Tail(w) /\ client'[c] = "open"
          /\ after' = after /\ handler' = handler /\ ledger' = ledger /\ chan' = chan
          /\ events' = events
      BY <1>0, <1>2, <1>4, <2>2 DEF IInv, StreamTypes, daemon, subscription, locals
    <3>2. Connected(c)'
      BY <2>1, <2>4, <3>1 DEF Connected, InFlight
    <3>3. Committed(c)'
      BY <1>0, <2>1, <3>1 DEF Committed
    <3>4. QED
      BY <3>2, <3>3
  <2>8. OnlyAt(c)
    BY <1>2, <1>4 DEF OnlyAt, IInv, StreamTypes, daemon, subscription, locals
  <2>9. QED
    BY <2>5, <2>6, <2>7, <2>8, OneClientKeeps
<1>5. CASE f.kind \in {"render", "delta"} /\ UNCHANGED <<cursor, got, client>> /\ view' \in [Clients -> SUBSET Nat]
  <2>1. StreamTypes' /\ Delivered(c)' /\ Committed(c)'
    BY <1>0, <1>1, <1>2, <1>5
       DEF IInv, StreamTypes, Delivered, Committed, daemon, subscription, locals
  <2>2. Connected(c)'
    <3>1. InFlight(c, cursor[c], Tail(w))
      BY <1>0, <1>3
    <3>2. QED
      BY <1>0, <1>2, <1>5, <3>1 DEF IInv, StreamTypes, Connected, InFlight, daemon, subscription, locals
  <2>3. OnlyAt(c)
    BY <1>2, <1>5 DEF OnlyAt, IInv, StreamTypes, daemon, subscription, locals
  <2>4. QED
    BY <2>1, <2>2, <2>3, OneClientKeeps
<1>6. CASE /\ f.kind = "reconnect"
           /\ cursor' = [cursor EXCEPT ![c] = f.seq]
           /\ client' = [client EXCEPT ![c] = "waiting"]
           /\ UNCHANGED <<got, view>>
  <2>1. f.seq = after[c] /\ handler[c] = "none" /\ Tail(w) = <<>>
    BY <1>0, <1>1, <1>6 DEF InFlight
  <2>2. StreamTypes'
    BY <1>0, <1>1, <1>2, <1>6, <2>1 DEF IInv, StreamTypes, daemon, subscription, locals
  <2>3. Delivered(c)' /\ Committed(c)' /\ Connected(c)'
    BY <1>0, <1>2, <1>6, <2>1
       DEF IInv, StreamTypes, Delivered, Committed, Connected, InFlight, daemon, subscription, locals
  <2>4. OnlyAt(c)
    BY <1>2, <1>6 DEF OnlyAt, IInv, StreamTypes, daemon, subscription, locals
  <2>5. QED
    BY <2>2, <2>3, <2>4, OneClientKeeps
<1>7. f.kind = "render" => [view EXCEPT ![c] = f.rows] \in [Clients -> SUBSET Nat]
  BY <1>1, FrameFacts DEF IInv, StreamTypes
<1>8. QED
  BY <1>4, <1>5, <1>6, <1>7 DEF ClientReceive, f, w, IInv, StreamTypes, screen

LEMMA OrderStep == IInv /\ [Next]_vars => IInv'
<1> SUFFICES ASSUME IInv, [Next]_vars PROVE IInv'
  OBVIOUS
<1>0. Len(ledger) \in Nat /\ ledger \in Seq(Writers)
  BY DEF IInv, StreamTypes
<1>1. ASSUME NEW w \in Writers, AppendEvent(w) PROVE IInv'
  <2>1. /\ ledger' \in Seq(Writers) /\ Len(ledger') = Len(ledger) + 1 /\ pend' \in [Writers -> Nat]
        /\ \A v \in Writers : pend'[v] <= Len(ledger')
    BY <1>0, <1>1 DEF AppendEvent, IInv, StreamTypes
  <2>2. StreamTypes'
    BY <1>1, <2>1 DEF AppendEvent, IInv, StreamTypes, subscription, locals, screen, tallies
  <2>3. UNCHANGED <<got, cursor, client, handler, after, wire, events, chan>>
    BY <1>1 DEF AppendEvent, subscription, locals, screen
  <2>4. ASSUME NEW c \in Clients PROVE (Delivered(c) /\ Connected(c) /\ Committed(c))'
    BY <1>0, <2>1, <2>3, KeptForOthers
  <2>5. QED
    BY <2>1, <2>2, <2>4 DEF IInv
<1>2. ASSUME NEW w \in Writers, Publish(w) PROVE IInv'
  <2>1. pend[w] \in Nat /\ pend[w] <= Len(ledger)
    BY DEF IInv, StreamTypes
  <2>2. pend' \in [Writers -> Nat] /\ \A v \in Writers : pend'[v] <= Len(ledger)
    BY <1>0, <1>2 DEF Publish, IInv, StreamTypes
  <2>3. QED
    BY <1>2, <2>1, <2>2, FanoutKeeps DEF Publish, tallies
<1>3. ASSUME PublishDelta PROVE IInv'
  <2>1. Delta \in Nat /\ Delta <= Len(ledger)
    BY <1>0 DEF Delta
  <2>2. pend' \in [Writers -> Nat] /\ \A v \in Writers : pend'[v] <= Len(ledger)
    BY <1>3 DEF PublishDelta, daemon, IInv, StreamTypes
  <2>3. QED
    BY <1>3, <2>1, <2>2, FanoutKeeps DEF PublishDelta, daemon
<1>4. ASSUME NEW c \in Clients, HandlerSubscribe(c) PROVE IInv'
  <2>1. StreamTypes' /\ OnlyAt(c) /\ chan'[c] = <<>>
    BY <1>4 DEF HandlerSubscribe, IInv, StreamTypes, OnlyAt, daemon, locals, screen, tallies
  <2>2. Delivered(c)' /\ Connected(c)' /\ Committed(c)'
    BY <1>4, <2>1 DEF HandlerSubscribe, IInv, StreamTypes, Delivered, Connected, Committed, InFlight,
                      daemon, locals, screen
  <2>3. QED
    BY <2>1, <2>2, OneClientKeeps
<1>5. ASSUME NEW c \in Clients, HandlerReplay(c) PROVE IInv'
  BY <1>5, ReplayOrdered
<1>6. ASSUME NEW c \in Clients, HandlerReceive(c) PROVE IInv'
  BY <1>6, ReceiveOrdered
<1>7. ASSUME NEW c \in Clients, HandlerDropped(c) PROVE IInv'
  <2> DEFINE w == wire[c]
             r == ReconnectFrame(after[c])
  <2>1. /\ w \in Seq(Frames) /\ r \in Frames /\ after[c] \in Nat
        /\ r.kind = "reconnect" /\ r.seq = after[c]
        /\ Connected(c) /\ handler[c] = "live" /\ client[c] = "open" /\ InFlight(c, cursor[c], w)
    BY <1>7, FramesAreFrames DEF HandlerDropped, IInv, StreamTypes, ReconnectFrame, Connected
  <2>2. StreamTypes' /\ OnlyAt(c) /\ wire'[c] = Append(w, r) /\ handler'[c] = "none"
    BY <1>7, <2>1 DEF HandlerDropped, IInv, StreamTypes, OnlyAt, daemon, locals, screen, tallies
  <2> HIDE DEF w, r
  <2>3. /\ DOMAIN Append(w, r) = DOMAIN w \cup {Len(w) + 1} /\ Len(Append(w, r)) = Len(w) + 1
        /\ DOMAIN w = 1..Len(w) /\ Len(w) \in Nat
        /\ Append(w, r)[Len(w) + 1] = r /\ \A i \in DOMAIN w : Append(w, r)[i] = w[i]
    BY <2>1
  <2>4. Connected(c)'
    <3>1. UNCHANGED <<after, cursor, client>>
      BY <1>7 DEF HandlerDropped, locals, screen
    <3>2. InFlight(c, cursor[c], wire[c])'
      BY <2>1, <2>2, <2>3, <3>1 DEF InFlight
    <3>3. QED
      BY <2>1, <2>2, <3>1, <3>2 DEF Connected
  <2>5. Delivered(c)' /\ Committed(c)'
    BY <1>7 DEF HandlerDropped, IInv, Delivered, Committed, daemon, locals, screen
  <2>6. QED
    BY <2>2, <2>4, <2>5, OneClientKeeps
<1>8. ASSUME NEW c \in Clients, Connect(c) PROVE IInv'
  <2>1. StreamTypes' /\ OnlyAt(c)
    BY <1>8 DEF Connect, IInv, StreamTypes, OnlyAt, daemon, subscription, screen, tallies
  <2>2. /\ wire'[c] = <<>> /\ after'[c] = cursor[c] /\ events'[c] = {} /\ client'[c] = "open"
        /\ cursor[c] <= cursor[c] /\ UNCHANGED <<ledger, chan, cursor, got>>
    BY <1>8 DEF Connect, IInv, StreamTypes, daemon, subscription, screen
  <2>3. Connected(c)'
    BY <2>2 DEF Connected, InFlight
  <2>4. Delivered(c)' /\ Committed(c)'
    BY <2>2 DEF IInv, Delivered, Committed
  <2>5. QED
    BY <2>1, <2>3, <2>4, OneClientKeeps
<1>9. ASSUME NEW c \in Clients, ClientReceive(c) PROVE IInv'
  BY <1>9, ClientReceiveOrdered
<1>10. ASSUME NEW c \in Clients, ClientEnd(c) PROVE IInv'
  <2>1. StreamTypes' /\ OnlyAt(c)
    BY <1>10 DEF ClientEnd, IInv, StreamTypes, OnlyAt, daemon, subscription, locals, screen, tallies
  <2>2. Delivered(c)' /\ Connected(c)' /\ Committed(c)'
    BY <1>10 DEF ClientEnd, IInv, StreamTypes, Delivered, Connected, Committed, InFlight,
                 daemon, subscription, locals, screen
  <2>3. QED
    BY <2>1, <2>2, OneClientKeeps
<1>11. ASSUME NEW c \in Clients, HangUp(c), UNCHANGED <<daemon, locals, screen, faults>>,
              client' \in [Clients -> {"waiting", "open", "closed"}],
              \A d \in Clients \ {c} : client'[d] = client[d], client'[c] # "open"
       PROVE IInv'
  <2>1. StreamTypes' /\ OnlyAt(c) /\ wire'[c] = <<>> /\ handler'[c] = "none" /\ chan'[c] = <<>>
    BY <1>11 DEF HangUp, IInv, StreamTypes, OnlyAt, daemon, locals, screen
  <2>2. Delivered(c)' /\ Connected(c)' /\ Committed(c)'
    BY <1>11, <2>1 DEF IInv, StreamTypes, Delivered, Connected, Committed, InFlight, daemon, locals, screen
  <2>3. QED
    BY <2>1, <2>2, OneClientKeeps
<1>12. ASSUME NEW c \in Clients, Break(c) PROVE IInv'
  BY <1>11, <1>12 DEF Break, IInv, StreamTypes
<1>13. ASSUME NEW c \in Clients, Unsubscribe(c) PROVE IInv'
  BY <1>11, <1>13 DEF Unsubscribe, IInv, StreamTypes, tallies
<1>14. CASE Crash
  <2>1. StreamTypes' /\ \A w \in Writers : pend'[w] <= Len(ledger')
    BY <1>0, <1>14 DEF Crash, IInv, StreamTypes, locals, screen
  <2>2. ASSUME NEW c \in Clients PROVE (Delivered(c) /\ Connected(c) /\ Committed(c))'
    BY <1>14 DEF Crash, IInv, Delivered, Connected, Committed, InFlight, locals, screen
  <2>3. QED
    BY <2>1, <2>2 DEF IInv
<1>15. CASE Restart \/ UNCHANGED vars
  <2>1. UNCHANGED <<ledger, pend, subscription, handler, locals, wire, client, screen, faults>>
    BY <1>15 DEF Restart, vars, daemon, tallies
  <2>2. StreamTypes' /\ \A w \in Writers : pend'[w] <= Len(ledger')
    BY <2>1 DEF IInv, StreamTypes, subscription, locals, screen
  <2>3. ASSUME NEW c \in Clients PROVE (Delivered(c) /\ Connected(c) /\ Committed(c))'
    BY <2>1 DEF IInv, Delivered, Connected, Committed, InFlight, subscription, locals, screen
  <2>4. QED
    BY <2>2, <2>3 DEF IInv
<1>16. QED
  BY <1>1, <1>2, <1>3, <1>4, <1>5, <1>6, <1>7, <1>8, <1>9, <1>10, <1>12, <1>13, <1>14, <1>15
     DEF Next, Handler, Client

LEMMA StreamOrdered == Spec => []IInv
  BY OrderInit, OrderStep, PTL DEF Spec

\* Whoever commits, publishes, breaks, drops or dies, and whatever part of the tail is
\* read back, a client is given events in the order of their seqs and none twice
\* (stream.go's afterSeq and sse.ts's lastSeq).
THEOREM EventsComeInOrder == Spec => []DeliveredInOrder
<1>1. IInv => DeliveredInOrder
  BY DEF IInv, Delivered, DeliveredInOrder
<1>2. QED
  BY StreamOrdered, <1>1, PTL

----------------------------------------------------------------------------
(* No holes, with one committer *)

OneWriter == \A v, w \in Writers : v = w

\* What was published is then a prefix of the ledger.
Published == IF \E w \in Writers : pend[w] # 0 THEN Len(ledger) - 1 ELSE Len(ledger)

Whole(S) == \A i, j \in S : i..j \subseteq S
In(q, m) == \E i \in DOMAIN q : q[i] = m

\* The events of channel q are in order and, from its first one to h, all there.
Covers(q, h) ==
  /\ \A i, j \in DOMAIN q : i < j /\ q[i] # Delta /\ q[j] # Delta => q[i] < q[j]
  /\ \A i \in DOMAIN q : q[i] <= h
  /\ \A i \in DOMAIN q : \A m \in q[i]..h : q[i] # Delta => In(q, m)

\* Those from n to h are.
Since(q, h, n) == \A m \in (n + 1)..h : In(q, m)

\* A subscription has in its channel what was published up to h, which for an open one is
\* all that was; with the tail, unless it could not be read, that leaves no hole.
UpTo(c, h) ==
  /\ sub[c] = "open" => h = Published
  /\ Covers(chan[c], h)
  /\ (handler[c] = "live" /\ (events[c] # {} \/ MaxFaults = 0)) =>
       Since(chan[c], h, Newest(events[c]))

Subscribed(c) == handler[c] \in {"subscribed", "live"} => \E h \in 0..Len(ledger) : UpTo(c, h)

\* The snapshots among the frames have no holes.
FramesWhole(w) == \A i \in DOMAIN w : w[i].kind = "render" => Whole(w[i].rows)

Rows(c) == Whole(view[c]) /\ Whole(events[c]) /\ FramesWhole(wire[c])

HInv ==
  /\ IInv
  /\ \A w \in Writers : pend[w] \in {0, Len(ledger)}
  /\ \A c \in Clients : Rows(c) /\ Subscribed(c)

\* The next event is published to a channel, or a delta is.
LEMMA CoversAppend ==
  ASSUME NEW q \in Seq(Nat), NEW h \in Nat, Covers(q, h), NEW f \in {Delta, h + 1}
  PROVE  LET k == IF f = Delta THEN h ELSE h + 1
             p == Append(q, f)
         IN  Covers(p, k) /\ \A n \in Nat : Since(q, h, n) => Since(p, k, n)
<1> DEFINE p == Append(q, f)
           k == IF f = Delta THEN h ELSE h + 1
<1>1. /\ Len(q) \in Nat /\ DOMAIN q = 1..Len(q) /\ DOMAIN p = 1..(Len(q) + 1)
      /\ p[Len(q) + 1] = f /\ \A i \in DOMAIN q : p[i] = q[i] /\ q[i] \in Nat /\ i \in DOMAIN p
      /\ f \in Nat /\ k \in Nat /\ f <= k /\ h <= k /\ (f # Delta => f = k /\ h < k)
  BY DEF Delta
<1> HIDE DEF p, k
<1>2. ASSUME NEW m \in Nat, In(q, m) \/ m = f PROVE In(p, m)
  BY <1>1, <1>2 DEF In
<1>3. \A i, j \in DOMAIN p : i < j /\ p[i] # Delta /\ p[j] # Delta => p[i] < p[j]
  BY <1>1 DEF Covers
<1>4. \A i \in DOMAIN p : p[i] <= k
  BY <1>1 DEF Covers
<1>5. ASSUME NEW i \in DOMAIN p, NEW m \in p[i]..k, p[i] # Delta PROVE In(p, m)
  <2>1. m \in Nat
    BY <1>1, <1>5
  <2>2. CASE i = Len(q) + 1
    BY <1>1, <1>2, <1>5, <2>1, <2>2 DEF k
  <2>3. CASE i \in DOMAIN q
    BY <1>1, <1>2, <1>5, <2>1, <2>3 DEF Covers, k
  <2>4. QED
    BY <1>1, <2>2, <2>3
<1>6. ASSUME NEW n \in Nat, Since(q, h, n) PROVE Since(p, k, n)
  BY <1>1, <1>2, <1>6 DEF Since, k
<1>7. QED
  BY <1>3, <1>4, <1>5, <1>6 DEF Covers, p, k

\* The first frame is taken from a channel: if it is an event, what follows it is still
\* covered; if the handler lacked it, it is the next one.
LEMMA CoversTail ==
  ASSUME NEW q \in Seq(Nat), q # <<>>, NEW h \in Nat, Covers(q, h)
  PROVE  LET f == Head(q)
         IN  /\ f \in Nat /\ f <= h /\ Covers(Tail(q), h)
             /\ f # Delta => Since(Tail(q), h, f)
             /\ \A n \in Nat : /\ Since(q, h, n) /\ f <= n => Since(Tail(q), h, n)
                               /\ Since(q, h, n) /\ n < f => f = n + 1
<1> DEFINE f == Head(q)
           p == Tail(q)
<1>1. /\ 1 \in DOMAIN q /\ f = q[1] /\ f \in Nat
      /\ \A i \in DOMAIN q : q[i] \in Nat /\ i \in Nat /\ 1 <= i
      /\ \A i \in DOMAIN p : i \in Nat /\ i + 1 \in DOMAIN q /\ p[i] = q[i + 1]
      /\ \A i \in DOMAIN q : i # 1 => i - 1 \in DOMAIN p /\ p[i - 1] = q[i]
  <2>1. /\ Len(q) \in Nat /\ Len(q) >= 1 /\ DOMAIN q = 1..Len(q) /\ DOMAIN p = 1..(Len(q) - 1)
        /\ \A i \in 1..(Len(q) - 1) : p[i] = q[i + 1]
    OBVIOUS
  <2>2. f = q[1] /\ \A i \in 1..Len(q) : q[i] \in Nat
    BY <2>1
  <2> HIDE DEF f, p
  <2>3. QED
    BY <2>1, <2>2
<1> HIDE DEF f, p
<1>2. ASSUME NEW m \in Nat, In(q, m), m # f PROVE In(p, m)
  BY <1>1, <1>2 DEF In
<1>3. ASSUME NEW i \in DOMAIN p, NEW j \in DOMAIN p, i < j, p[i] # Delta, p[j] # Delta
      PROVE  p[i] < p[j]
  <2>1. i + 1 \in DOMAIN q /\ j + 1 \in DOMAIN q /\ p[i] = q[i + 1] /\ p[j] = q[j + 1] /\ i + 1 < j + 1
    BY <1>1, <1>3
  <2>2. QED
    BY <1>3, <2>1 DEF Covers
<1>4. \A i \in DOMAIN p : p[i] <= h
  BY <1>1 DEF Covers
<1>5. ASSUME NEW i \in DOMAIN p, p[i] # Delta, f # Delta PROVE f < p[i]
  BY <1>1, <1>5 DEF Covers
<1>6. ASSUME NEW i \in DOMAIN p, NEW m \in p[i]..h, p[i] # Delta PROVE In(p, m)
  <2>1. m \in Nat /\ m # Delta /\ p[i] <= m /\ p[i] \in Nat
    BY <1>1, <1>6 DEF Delta
  <2>2. In(q, m)
    BY <1>1, <1>6 DEF Covers
  <2>3. m # f
    BY <1>1, <1>5, <1>6, <2>1
  <2>4. QED
    BY <1>2, <2>1, <2>2, <2>3
<1>7. ASSUME f # Delta PROVE Since(p, h, f)
  <2>1. ASSUME NEW m \in (f + 1)..h PROVE In(p, m)
    <3>1. m \in f..h /\ m \in Nat /\ m # f
      BY <1>1
    <3>2. In(q, m)
      BY <1>1, <1>7, <3>1 DEF Covers
    <3>3. QED
      BY <1>2, <3>1, <3>2
  <2>2. QED
    BY <2>1 DEF Since
<1>8. ASSUME NEW n \in Nat, Since(q, h, n), f <= n PROVE Since(p, h, n)
  BY <1>1, <1>2, <1>8 DEF Since
<1>9. ASSUME NEW n \in Nat, Since(q, h, n), n < f PROVE f = n + 1
  <2>1. SUFFICES ASSUME n + 1 < f PROVE FALSE
    BY <1>1, <1>9
  <2>2. n + 1 \in (n + 1)..h
    BY <1>1, <2>1 DEF Covers
  <2>3. PICK i \in DOMAIN q : q[i] = n + 1
    BY <1>9, <2>2 DEF Since, In
  <2>4. i # 1 /\ 1 < i /\ f # Delta /\ q[i] # Delta
    BY <1>1, <2>1, <2>3 DEF Delta
  <2>5. f < n + 1
    BY <1>1, <2>3, <2>4 DEF Covers
  <2>6. QED
    BY <1>1, <2>1, <2>5
<1>10. f <= h
  BY <1>1 DEF Covers
<1>11. QED
  BY <1>1, <1>3, <1>4, <1>6, <1>7, <1>8, <1>9, <1>10 DEF Covers, f, p

LEMMA WholeInit == Init => HInv
<1> SUFFICES ASSUME Init PROVE HInv
  OBVIOUS
<1>1. IInv
  BY OrderInit
<1>2. QED
  BY <1>1 DEF Init, HInv, Rows, Subscribed, FramesWhole, Whole

\* What is published is at most what is committed; with one committer it is all of it but
\* for an event between its commit and its publication.
LEMMA PublishedFacts ==
  ASSUME OneWriter, HInv
  PROVE  /\ Len(ledger) \in Nat /\ Published \in Nat /\ Published <= Len(ledger)
         /\ \A w \in Writers : pend[w] # 0 => pend[w] = Published + 1 /\ pend[w] = Len(ledger)
         /\ \A w \in Writers : pend[w] = 0 => Published = Len(ledger)
<1>1. Len(ledger) \in Nat /\ pend \in [Writers -> Nat] /\ \A w \in Writers : pend[w] \in {0, Len(ledger)}
  BY DEF HInv, IInv, StreamTypes
<1>2. QED
  BY <1>1 DEF OneWriter, Published

\* A step that does not touch a client's subscription, nor what is published.
LEMMA WholeForOthers ==
  ASSUME HInv, NEW c \in Clients, Len(ledger) \in Nat, Len(ledger') \in Nat,
         Len(ledger) <= Len(ledger'), Published' = Published,
         view'[c] = view[c], events'[c] = events[c], wire'[c] = wire[c],
         handler'[c] = handler[c], chan'[c] = chan[c], sub'[c] = sub[c]
  PROVE  (Rows(c) /\ Subscribed(c))'
<1>1. Rows(c)'
  BY DEF HInv, Rows, FramesWhole
<1>2. Subscribed(c)'
  <2>1. SUFFICES ASSUME handler[c] \in {"subscribed", "live"}
                 PROVE  \E h \in 0..Len(ledger') : UpTo(c, h)'
    BY DEF Subscribed
  <2>2. PICK h \in 0..Len(ledger) : UpTo(c, h)
    BY <2>1 DEF HInv, Subscribed
  <2>3. h \in 0..Len(ledger') /\ UpTo(c, h)'
    BY <2>2 DEF UpTo
  <2>4. QED
    BY <2>3
<1>3. QED
  BY <1>1, <1>2

\* A step of client c, its connection and its handler.
OnlyOf(c) ==
  /\ UNCHANGED <<ledger, pend>>
  /\ \A d \in Clients \ {c} :
       /\ view'[d] = view[d] /\ events'[d] = events[d] /\ wire'[d] = wire[d]
       /\ handler'[d] = handler[d] /\ chan'[d] = chan[d] /\ sub'[d] = sub[d]

LEMMA OneClientWhole ==
  ASSUME HInv, IInv', NEW c \in Clients, OnlyOf(c), Rows(c)', Subscribed(c)'
  PROVE  HInv'
<1>1. /\ Len(ledger) \in Nat /\ Len(ledger') = Len(ledger) /\ Published' = Published
      /\ Len(ledger') \in Nat /\ Len(ledger) <= Len(ledger')
      /\ \A w \in Writers : pend'[w] \in {0, Len(ledger')}
  BY DEF OnlyOf, HInv, IInv, StreamTypes, Published
<1>2. ASSUME NEW d \in Clients \ {c} PROVE (Rows(d) /\ Subscribed(d))'
  BY <1>1, WholeForOthers DEF OnlyOf
<1>3. QED
  BY <1>1, <1>2 DEF HInv

\* A frame that is published, or a delta, reaches the open channels with room; the others
\* are closed where they stand.
LEMMA FanoutWhole ==
  ASSUME OneWriter, HInv, IInv', NEW f \in Nat, Fanout(f),
         \/ f = Delta /\ Published' = Published
         \/ f = Published + 1 /\ Published' = Published + 1,
         Published' <= Len(ledger), \A w \in Writers : pend'[w] \in {0, Len(ledger)},
         UNCHANGED <<ledger, handler, locals, wire, client, screen>>
  PROVE  HInv'
<1>0. Published \in Nat /\ Len(ledger) \in Nat
  BY PublishedFacts
<1>1. ASSUME NEW c \in Clients PROVE Rows(c)'
  BY DEF HInv, Rows, FramesWhole, locals, screen
<1>2. ASSUME NEW c \in Clients PROVE Subscribed(c)'
  <2>1. SUFFICES ASSUME handler[c] \in {"subscribed", "live"}
                 PROVE  \E h \in 0..Len(ledger) : UpTo(c, h)'
    BY DEF Subscribed
  <2>2. PICK h \in 0..Len(ledger) : UpTo(c, h)
    BY <2>1 DEF HInv, Subscribed
  <2>3. h \in Nat /\ h <= Len(ledger) /\ chan[c] \in Seq(Nat) /\ StreamTypes
    <3>1. StreamTypes
      BY DEF HInv, IInv
    <3>2. QED
      BY <1>0, <2>2, <3>1 DEF StreamTypes
  <2>4. events' = events /\ handler' = handler
    BY DEF locals
  <2>5. CASE chan'[c] = chan[c] /\ ((sub'[c] = sub[c] /\ sub[c] # "open") \/ sub'[c] = "closed")
    BY <2>2, <2>4, <2>5 DEF UpTo
  <2>6. CASE chan'[c] = Append(chan[c], f) /\ sub'[c] = sub[c] /\ sub[c] = "open"
    <3> DEFINE k == IF f = Delta THEN h ELSE h + 1
    <3>1. h = Published /\ Covers(chan[c], h)
      BY <2>2, <2>6 DEF UpTo
    <3>2. f \in {Delta, h + 1} /\ k = Published' /\ k \in 0..Len(ledger)
      BY <1>0, <3>1 DEF Delta
    <3>3. Covers(chan'[c], k) /\ \A n \in Nat : Since(chan[c], h, n) => Since(chan'[c], k, n)
      BY <2>3, <2>6, <3>1, <3>2, CoversAppend
    <3>4. Newest(events[c]) \in Nat
      BY <1>0, NewestFacts DEF HInv, IInv, StreamTypes, Committed
    <3> HIDE DEF k
    <3>5. UpTo(c, k)'
      BY <2>2, <2>4, <3>2, <3>3, <3>4 DEF UpTo
    <3>6. QED
      BY <3>2, <3>5
  <2>7. QED
    BY <2>3, <2>5, <2>6, FanoutFacts
<1>3. QED
  BY <1>1, <1>2 DEF HInv

\* Frames that are written behind others.
LEMMA WroteWhole ==
  ASSUME NEW w \in Seq(Frames), NEW fs \in Seq(Frames), FramesWhole(w), FramesWhole(fs)
  PROVE  w \o fs \in Seq(Frames) /\ FramesWhole(w \o fs)
<1>1. /\ Len(w) \in Nat /\ Len(fs) \in Nat /\ DOMAIN w = 1..Len(w) /\ DOMAIN fs = 1..Len(fs)
      /\ w \o fs \in Seq(Frames) /\ DOMAIN (w \o fs) = 1..(Len(w) + Len(fs))
      /\ \A i \in 1..Len(w) : (w \o fs)[i] = w[i]
      /\ \A i \in DOMAIN (w \o fs) :
           i > Len(w) => i - Len(w) \in 1..Len(fs) /\ (w \o fs)[i] = fs[i - Len(w)]
  OBVIOUS
<1> DEFINE v == w \o fs
<1> HIDE DEF v
<1>2. ASSUME NEW i \in DOMAIN v, v[i].kind = "render" PROVE Whole(v[i].rows)
  <2>1. CASE i \in 1..Len(w)
    BY <1>1, <1>2, <2>1 DEF FramesWhole, v
  <2>2. CASE i > Len(w)
    BY <1>1, <1>2, <2>2 DEF FramesWhole, v
  <2>3. QED
    BY <1>1, <2>1, <2>2 DEF v
<1>3. QED
  BY <1>1, <1>2 DEF FramesWhole, v

\* A snapshot without holes.
LEMMA SnapshotWhole ==
  ASSUME NEW S \in SUBSET Nat, Whole(S)
  PROVE  <<RenderFrame(S)>> \in Seq(Frames) /\ FramesWhole(<<RenderFrame(S)>>)
<1> DEFINE r == RenderFrame(S)
<1>1. r \in Frames /\ r.rows = S
  BY FramesAreFrames DEF RenderFrame
<1> HIDE DEF r
<1>2. <<r>> \in Seq(Frames) /\ FramesWhole(<<r>>)
  BY <1>1, OneFrame DEF FramesWhole
<1>3. QED
  BY <1>2 DEF r

\* The newest events of the ledger are in one piece, and reach its end.
LEMMA TailWhole ==
  ASSUME NEW l \in Seq(Writers)
  PROVE  LET tail == EventsTail(l, RenderCap)
         IN  /\ Whole(tail) /\ tail \in SUBSET Nat /\ Newest(tail) = Len(l)
             /\ \A n \in tail : n <= Len(l)
<1> DEFINE n == Len(l)
           tail == EventsTail(l, RenderCap)
<1>1. n \in Nat /\ DOMAIN l = 1..n /\ RenderCap \in Nat /\ RenderCap # 0
  BY SizesAssumption
<1>2. tail = {i \in 1..n : n < i + RenderCap}
  BY <1>1 DEF EventsTail, NewestOf
<1> HIDE DEF tail
<1>3. Whole(tail)
  BY <1>1, <1>2 DEF Whole
<1>4. tail \in SUBSET Nat /\ \A m \in tail : m <= n
  BY <1>1, <1>2
<1>5. n # 0 => n \in tail
  BY <1>1, <1>2
<1>6. Newest(tail) \in tail \cup {0} /\ Newest(tail) \in Nat /\ \A s \in tail : s <= Newest(tail)
  BY <1>1, <1>4, NewestFacts
<1>7. Newest(tail) = n
  <2> DEFINE x == Newest(tail)
  <2> HIDE DEF x
  <2>1. x \in Nat /\ (x \in tail \/ x = 0) /\ (n # 0 => n <= x)
    BY <1>5, <1>6 DEF x
  <2>2. x <= n
    BY <1>1, <1>4, <2>1
  <2> HIDE DEF n
  <2>3. x = n
    <3>1. CASE n = 0
      BY <2>1, <2>2, <3>1
    <3>2. CASE n # 0
      BY <1>1, <2>1, <2>2, <3>2
    <3>3. QED
      BY <3>1, <3>2
  <2>4. QED
    BY <2>3 DEF x, n
<1>8. QED
  BY <1>3, <1>4, <1>7 DEF tail

\* What the handler writes for the tail is whole, and the channel goes on from it.
LEMMA ReplayWhole ==
  ASSUME OneWriter, HInv, IInv', NEW c \in Clients, HandlerReplay(c)
  PROVE  HInv'
<1>0. /\ StreamTypes /\ ledger \in Seq(Writers) /\ Len(ledger) \in Nat /\ wire[c] \in Seq(Frames)
      /\ faults \in Nat /\ handler[c] = "subscribed"
  <2>1. handler[c] = "subscribed"
    BY DEF HandlerReplay
  <2>2. StreamTypes
    BY DEF HInv, IInv
  <2>3. QED
    BY <2>1, <2>2 DEF StreamTypes
<1>1. PICK tail \in {EventsTail(ledger, RenderCap), {}} :
        LET new == Lacks(c, tail)
        IN  /\ \/ tail = EventsTail(ledger, RenderCap) /\ UNCHANGED faults
               \/ faults < MaxFaults /\ faults' = faults + 1 /\ tail = {}
            /\ events' = [events EXCEPT ![c] = tail]
            /\ wire' = [wire EXCEPT ![c] =
                 @ \o [i \in 1..Cardinality(new) |-> EventFrame(InOrder(new)[i])]
                   \o <<RenderFrame(tail)>>]
  BY DEF HandlerReplay
<1> DEFINE new == Lacks(c, tail)
           k == Cardinality(new)
           evs == [i \in 1..k |-> EventFrame(InOrder(new)[i])]
<1>2. /\ tail \in SUBSET Nat /\ Whole(tail)
      /\ tail = EventsTail(ledger, RenderCap) => Newest(tail) = Len(ledger)
  BY <1>0, TailWhole DEF Whole
<1>3. \E b \in Nat : new = b..Len(ledger) /\ b..Len(ledger) \subseteq Nat
  <2>1. CASE tail = {}
    <3>1. new = {} /\ (Len(ledger) + 1)..Len(ledger) = {}
      BY <1>0, <2>1 DEF Lacks
    <3>2. Len(ledger) + 1 \in Nat
      BY <1>0
    <3>3. QED
      BY <3>1, <3>2
  <2>2. CASE tail = EventsTail(ledger, RenderCap)
    BY <1>0, <2>2, LacksFacts DEF StreamTypes
  <2>3. QED
    BY <2>1, <2>2
<1>4. k \in Nat /\ InOrder(new) \in [1..k -> new] /\ new \subseteq Nat
  BY <1>0, <1>3, InOrderFacts
<1>5. \A i \in 1..k : evs[i] \in Frames /\ evs[i].kind = "event"
  BY <1>4, FramesAreFrames DEF EventFrame
<1>6. evs \in Seq(Frames) /\ Len(evs) = k
  BY <1>4, <1>5
<1> HIDE DEF evs
<1>7. FramesWhole(wire[c])'
  <2>1. FramesWhole(evs) /\ FramesWhole(wire[c])
    BY <1>4, <1>5, <1>6 DEF HInv, Rows, FramesWhole
  <2>2. FramesWhole(<<RenderFrame(tail)>>) /\ <<RenderFrame(tail)>> \in Seq(Frames)
    BY <1>2, SnapshotWhole
  <2>3. FramesWhole(wire[c] \o evs) /\ wire[c] \o evs \in Seq(Frames)
    BY <1>0, <1>6, <2>1, WroteWhole
  <2>4. FramesWhole(wire[c] \o evs \o <<RenderFrame(tail)>>)
    BY <2>2, <2>3, WroteWhole
  <2>5. wire'[c] = wire[c] \o evs \o <<RenderFrame(tail)>>
    BY <1>0, <1>1 DEF StreamTypes, evs
  <2>6. QED
    BY <2>4, <2>5 DEF FramesWhole
<1>8. /\ view' = view /\ events'[c] = tail /\ chan' = chan /\ sub' = sub /\ handler'[c] = "live"
      /\ ledger' = ledger /\ pend' = pend /\ Published' = Published
  BY <1>0, <1>1 DEF HandlerReplay, StreamTypes, screen, subscription, daemon, Published
<1>9. Rows(c)'
  BY <1>2, <1>7, <1>8 DEF HInv, Rows
<1>10. Subscribed(c)'
  <2>1. PICK h \in 0..Len(ledger) : UpTo(c, h)
    BY <1>0 DEF HInv, Subscribed
  <2>2. (tail # {} \/ MaxFaults = 0) => tail = EventsTail(ledger, RenderCap)
    BY <1>0, <1>1
  <2>3. (tail # {} \/ MaxFaults = 0) => Since(chan[c], h, Newest(tail))
    BY <1>0, <1>2, <2>1, <2>2 DEF Since
  <2>4. UpTo(c, h)'
    BY <1>8, <2>1, <2>3 DEF UpTo
  <2>5. QED
    BY <1>8, <2>1, <2>4 DEF Subscribed
<1>11. OnlyOf(c)
  BY <1>0, <1>1 DEF OnlyOf, HandlerReplay, StreamTypes, screen, subscription, daemon
<1>12. QED
  BY <1>9, <1>10, <1>11, OneClientWhole

\* An event that the handler lacks is the next one, so the events stay whole.
LEMMA ReceiveWhole ==
  ASSUME OneWriter, HInv, IInv', NEW c \in Clients, HandlerReceive(c)
  PROVE  HInv'
<1> DEFINE q == chan[c]
           f == Head(q)
           n == Newest(events[c])
           grown == events[c] \cup {f}
           S == IF f = Delta \/ f <= n THEN events[c] ELSE grown
<1>0. /\ StreamTypes /\ Len(ledger) \in Nat /\ wire[c] \in Seq(Frames) /\ q \in Seq(Nat) /\ q # <<>>
      /\ handler[c] = "live" /\ events[c] \in SUBSET Nat /\ \A m \in events[c] : m <= Len(ledger)
      /\ Rows(c)
  <2>1. StreamTypes /\ Committed(c) /\ Rows(c)
    BY DEF HInv, IInv
  <2>2. q # <<>> /\ handler[c] = "live"
    BY DEF HandlerReceive
  <2>3. Len(ledger) \in Nat /\ wire[c] \in Seq(Frames) /\ q \in Seq(Nat) /\ events[c] \in SUBSET Nat
    BY <2>1 DEF StreamTypes
  <2>4. QED
    BY <2>1, <2>2, <2>3 DEF Committed
<1>1. PICK h \in 0..Len(ledger) : UpTo(c, h)
  BY <1>0 DEF HInv, Subscribed
<1>2. h \in Nat /\ Covers(q, h)
  BY <1>0, <1>1 DEF UpTo
<1>3. /\ f \in Nat /\ f <= h /\ Covers(Tail(q), h)
      /\ f # Delta => Since(Tail(q), h, f)
      /\ \A m \in Nat : /\ Since(q, h, m) /\ f <= m => Since(Tail(q), h, m)
                        /\ Since(q, h, m) /\ m < f => f = m + 1
  BY <1>0, <1>2, CoversTail
<1>4. n \in events[c] \cup {0} /\ n \in Nat /\ \A s \in events[c] : s <= n
  BY <1>0, NewestFacts
<1>5. /\ chan'[c] = Tail(q)
      /\ UNCHANGED <<ledger, pend, sub, handler, view>> /\ Published' = Published
      /\ OnlyOf(c)
  BY <1>0 DEF HandlerReceive, OnlyOf, StreamTypes, daemon, screen, locals, Published
<1> HIDE DEF f, n, q
<1>6. events'[c] = S
  <2>1. events \in [Clients -> SUBSET Nat]
    BY <1>0 DEF StreamTypes
  <2>2. CASE f = Delta /\ UNCHANGED locals
    BY <2>2 DEF locals
  <2>3. CASE f # Delta /\ f <= n /\ UNCHANGED locals
    BY <2>3 DEF locals
  <2>4. CASE f # Delta /\ f > n /\ events' = [events EXCEPT ![c] = grown]
    BY <1>3, <1>4, <2>1, <2>4
  <2>5. QED
    BY <2>2, <2>3, <2>4 DEF HandlerReceive, f, n, q
<1>7. Whole(S) /\ ((S # {} \/ MaxFaults = 0) => Since(Tail(q), h, Newest(S)))
  <2>1. CASE f = Delta \/ f <= n
    <3>1. (events[c] # {} \/ MaxFaults = 0) => Since(q, h, n)
      BY <1>0, <1>1 DEF UpTo, n, q
    <3>2. f <= n
      BY <1>4, <2>1 DEF Delta
    <3>3. QED
      BY <1>0, <1>3, <1>4, <2>1, <3>1, <3>2 DEF Rows, n
  <2>2. CASE f # Delta /\ ~(f <= n)
    <3>1. events[c] # {} => f = n + 1 /\ n \in events[c]
      <4>1. SUFFICES ASSUME events[c] # {} PROVE f = n + 1 /\ n \in events[c]
        OBVIOUS
      <4>2. Since(q, h, n) /\ n < f
        BY <1>0, <1>1, <1>3, <1>4, <2>2, <4>1 DEF UpTo, n, q
      <4>3. n \in events[c]
        BY <1>0, <1>4, <4>1
      <4>4. QED
        BY <1>3, <1>4, <4>2, <4>3
    <3>2. Whole(grown)
      <4>1. SUFFICES ASSUME NEW i \in grown, NEW j \in grown, NEW m \in i..j PROVE m \in grown
        BY DEF Whole
      <4>2. CASE m = f
        BY <4>2
      <4>3. CASE m # f
        <5>1. i \in Nat /\ j \in Nat /\ m \in Nat /\ i <= m /\ m <= j
          BY <1>0, <1>3
        <5>2. i # f /\ events[c] # {} /\ i \in events[c]
          BY <1>3, <1>4, <2>2, <4>3, <5>1
        <5>3. m <= n
          BY <1>3, <1>4, <3>1, <4>3, <5>1, <5>2
        <5>4. QED
          BY <1>0, <3>1, <5>1, <5>2, <5>3 DEF Rows, Whole
      <4>4. QED
        BY <4>2, <4>3
    <3>3. Newest(grown) = f
      <4>1. grown \in SUBSET Nat /\ \A s \in grown : s <= f
        BY <1>0, <1>3, <1>4, <2>2
      <4>2. Newest(grown) \in grown \cup {0} /\ \A s \in grown : s <= Newest(grown)
        BY <1>3, <4>1, NewestFacts
      <4> DEFINE x == Newest(grown)
      <4> HIDE DEF x
      <4>3. x <= f /\ f <= x /\ x \in Nat
        <5>1. f \in grown /\ x \in grown \cup {0} /\ \A s \in grown : s <= x
          BY <4>2 DEF x
        <5>2. x \in Nat /\ f <= x
          BY <4>1, <5>1
        <5>3. x <= f
          BY <1>3, <4>1, <5>1
        <5>4. QED
          BY <5>2, <5>3
      <4>4. QED
        BY <1>3, <4>3 DEF x
    <3>4. S = grown
      BY <2>2
    <3>5. QED
      BY <1>3, <2>2, <3>2, <3>3, <3>4
  <2>3. QED
    BY <2>1, <2>2
<1> HIDE DEF S
<1>8. Subscribed(c)'
  <2>1. UpTo(c, h)'
    BY <1>1, <1>3, <1>5, <1>6, <1>7 DEF UpTo
  <2>2. QED
    BY <1>5, <2>1 DEF Subscribed
<1>9. FramesWhole(wire[c])'
  <2> DEFINE last == <<RenderFrame(grown)>>
             first == IF f > after[c] THEN <<EventFrame(f)>> ELSE <<>>
  <2>1. CASE wire'[c] = wire[c]
    BY <1>0, <2>1 DEF Rows, FramesWhole
  <2>2. CASE wire'[c] = Append(wire[c], DeltaFrame)
    <3>1. <<DeltaFrame>> \in Seq(Frames) /\ FramesWhole(<<DeltaFrame>>)
      BY FramesAreFrames, OneFrame DEF FramesWhole, DeltaFrame
    <3>2. wire'[c] = wire[c] \o <<DeltaFrame>>
      BY <1>0, <2>2, FramesAreFrames, AppendIsConcat
    <3>3. FramesWhole(wire[c] \o <<DeltaFrame>>)
      BY <1>0, <3>1, WroteWhole DEF Rows
    <3>4. QED
      BY <3>2, <3>3 DEF FramesWhole
  <2>3. CASE f # Delta /\ ~(f <= n) /\ wire'[c] = wire[c] \o first \o last
    <3>1. Whole(grown) /\ grown \in SUBSET Nat
      BY <1>0, <1>3, <1>7, <2>3 DEF S
    <3>2. EventFrame(f) \in Frames /\ EventFrame(f).kind = "event"
      BY <1>3, FramesAreFrames DEF EventFrame
    <3>3. first \in Seq(Frames) /\ FramesWhole(first)
      <4>1. <<>> \in Seq(Frames) /\ DOMAIN <<>> = {}
        OBVIOUS
      <4>2. <<EventFrame(f)>> \in Seq(Frames) /\ FramesWhole(<<EventFrame(f)>>)
        BY <3>2, OneFrame DEF FramesWhole
      <4>3. FramesWhole(<<>>)
        BY <4>1 DEF FramesWhole
      <4>4. QED
        BY <4>1, <4>2, <4>3
    <3>4. last \in Seq(Frames) /\ FramesWhole(last)
      BY <3>1, SnapshotWhole
    <3> HIDE DEF first, last
    <3>5. wire[c] \o first \in Seq(Frames) /\ FramesWhole(wire[c] \o first)
      BY <1>0, <3>3, WroteWhole DEF Rows
    <3>6. FramesWhole(wire[c] \o first \o last)
      BY <3>4, <3>5, WroteWhole
    <3>7. QED
      BY <2>3, <3>6 DEF FramesWhole
  <2>4. \/ wire'[c] = wire[c]
        \/ wire'[c] = Append(wire[c], DeltaFrame)
        \/ f # Delta /\ ~(f <= n) /\ wire'[c] = wire[c] \o first \o last
    <3>1. wire \in [Clients -> Seq(Frames)]
      BY <1>0 DEF StreamTypes
    <3>2. CASE f = Delta /\ wire' = [wire EXCEPT ![c] = Append(@, DeltaFrame)]
      BY <3>1, <3>2
    <3>3. CASE UNCHANGED wire
      BY <3>3
    <3>4. CASE f # Delta /\ f > n /\ wire' = [wire EXCEPT ![c] = @ \o first \o last]
      <4>1. ~(f <= n)
        BY <1>3, <1>4, <3>4
      <4>2. QED
        BY <3>1, <3>4, <4>1
    <3>5. QED
      BY <3>2, <3>3, <3>4 DEF HandlerReceive, f, n, q
  <2>5. QED
    BY <2>1, <2>2, <2>3, <2>4
<1>10. Rows(c)'
  BY <1>0, <1>5, <1>6, <1>7, <1>9 DEF Rows
<1>11. QED
  BY <1>5, <1>8, <1>10, OneClientWhole

\* The client takes a frame: what it shows was whole on the wire.
LEMMA ClientReceiveWhole ==
  ASSUME OneWriter, HInv, IInv', NEW c \in Clients, ClientReceive(c)
  PROVE  HInv'
<1> DEFINE w == wire[c]
           f == Head(w)
<1>0. StreamTypes /\ w \in Seq(Frames) /\ w # <<>> /\ Rows(c) /\ Subscribed(c)
  <2>1. StreamTypes /\ Rows(c) /\ Subscribed(c) /\ w # <<>>
    BY DEF HInv, IInv, ClientReceive
  <2>2. QED
    BY <2>1 DEF StreamTypes
<1>1. f = w[1] /\ 1 \in DOMAIN w /\ \A i \in DOMAIN Tail(w) : i + 1 \in DOMAIN w /\ Tail(w)[i] = w[i + 1]
  BY <1>0
<1>2. /\ wire' = [wire EXCEPT ![c] = Tail(w)]
      /\ UNCHANGED <<ledger, pend, sub, chan, handler, events>> /\ Published' = Published
  BY DEF ClientReceive, daemon, subscription, locals, Published
<1>3. wire'[c] = Tail(w) /\ \A d \in Clients \ {c} : wire'[d] = wire[d]
  BY <1>0, <1>2 DEF StreamTypes
<1> HIDE DEF w, f
<1>4. FramesWhole(w) /\ Whole(events[c]) /\ Whole(view[c])
  BY <1>0 DEF Rows, w
<1>5. FramesWhole(Tail(w))
  BY <1>1, <1>4 DEF FramesWhole
<1>6. Whole(view'[c]) /\ \A d \in Clients \ {c} : view'[d] = view[d]
  <2>1. CASE f.kind = "render" /\ view' = [view EXCEPT ![c] = f.rows]
    <3>1. Whole(f.rows)
      BY <1>1, <1>4, <2>1 DEF FramesWhole
    <3>2. QED
      BY <1>0, <2>1, <3>1 DEF StreamTypes
  <2>2. CASE UNCHANGED view
    BY <1>4, <2>2
  <2>3. QED
    BY <2>1, <2>2 DEF ClientReceive, f, w, screen
<1>7. Rows(c)' /\ Subscribed(c)'
  <2>1. Rows(c)'
    BY <1>2, <1>3, <1>4, <1>5, <1>6 DEF Rows, FramesWhole
  <2>2. Subscribed(c)'
    BY <1>0, <1>2 DEF Subscribed, UpTo
  <2>3. QED
    BY <2>1, <2>2
<1>8. OnlyOf(c)
  BY <1>2, <1>3, <1>6 DEF OnlyOf
<1>9. QED
  BY <1>7, <1>8, OneClientWhole

\* The other steps of a client end its connection, or start one with nothing read yet.
LEMMA OtherStepsWhole ==
  ASSUME HInv, IInv', NEW c \in Clients,
         UNCHANGED <<ledger, pend, view>>,
         \A d \in Clients \ {c} :
           /\ events'[d] = events[d] /\ wire'[d] = wire[d]
           /\ handler'[d] = handler[d] /\ chan'[d] = chan[d] /\ sub'[d] = sub[d],
         handler'[c] \notin {"subscribed", "live"},
         events'[c] \in {events[c], {}}, FramesWhole(wire'[c])
  PROVE  HInv'
<1>1. Whole(view[c]) /\ Whole(events[c]) /\ Whole({})
  BY DEF HInv, Rows, Whole
<1>2. Rows(c)'
  BY <1>1 DEF Rows, FramesWhole
<1>3. Subscribed(c)'
  BY DEF Subscribed
<1>4. OnlyOf(c)
  BY DEF OnlyOf
<1>5. QED
  BY <1>2, <1>3, <1>4, OneClientWhole

LEMMA WholeStep == ASSUME OneWriter PROVE HInv /\ [Next]_vars => HInv'
<1> SUFFICES ASSUME HInv, [Next]_vars PROVE HInv'
  OBVIOUS
<1>0. /\ StreamTypes /\ Len(ledger) \in Nat /\ IInv' /\ Published \in Nat /\ Published <= Len(ledger)
      /\ \A c \in Clients : Rows(c) /\ Subscribed(c)
  <2>1. IInv /\ StreamTypes /\ \A c \in Clients : Rows(c) /\ Subscribed(c)
    BY DEF HInv, IInv
  <2>2. QED
    BY <2>1, OrderStep, PublishedFacts
<1>1. ASSUME NEW w \in Writers, AppendEvent(w) PROVE HInv'
  <2>1. pend[w] = 0 /\ Published = Len(ledger) /\ \A v \in Writers : v = w
    BY <1>1, PublishedFacts DEF AppendEvent, OneWriter
  <2>2. Len(ledger') = Len(ledger) + 1 /\ pend'[w] = Len(ledger) + 1 /\ Len(ledger') \in Nat
    BY <1>0, <1>1 DEF AppendEvent, StreamTypes
  <2>3. Published' = Published /\ \A v \in Writers : pend'[v] \in {0, Len(ledger')}
    BY <1>0, <2>1, <2>2 DEF Published
  <2>4. UNCHANGED <<view, events, wire, handler, chan, sub>> /\ Len(ledger) <= Len(ledger')
    BY <1>0, <1>1, <2>2 DEF AppendEvent, subscription, locals, screen
  <2>5. ASSUME NEW c \in Clients PROVE (Rows(c) /\ Subscribed(c))'
    BY <1>0, <2>2, <2>3, <2>4, WholeForOthers
  <2>6. QED
    BY <1>0, <2>3, <2>5 DEF HInv
<1>2. ASSUME NEW w \in Writers, Publish(w) PROVE HInv'
  <2>1. pend[w] = Published + 1 /\ pend[w] = Len(ledger) /\ \A v \in Writers : v = w
    BY <1>2, PublishedFacts DEF Publish, OneWriter
  <2>2. pend'[w] = 0 /\ ledger' = ledger
    BY <1>0, <1>2 DEF Publish, StreamTypes
  <2>3. /\ Published' = Published + 1 /\ Published' <= Len(ledger)
        /\ \A v \in Writers : pend'[v] \in {0, Len(ledger)}
    BY <1>0, <2>1, <2>2 DEF Published
  <2>4. QED
    BY <1>0, <1>2, <2>1, <2>3, FanoutWhole DEF Publish
<1>3. ASSUME PublishDelta PROVE HInv'
  <2>1. Published' = Published /\ Delta \in Nat /\ \A v \in Writers : pend'[v] \in {0, Len(ledger)}
    BY <1>3 DEF PublishDelta, daemon, Published, Delta, HInv
  <2>2. QED
    BY <1>0, <1>3, <2>1, FanoutWhole DEF PublishDelta, daemon
<1>4. ASSUME NEW c \in Clients, HandlerSubscribe(c) PROVE HInv'
  <2>1. /\ chan'[c] = <<>> /\ sub'[c] = "open" /\ handler'[c] = "subscribed"
        /\ Published' = Published /\ UNCHANGED <<ledger, pend, view, events, wire>>
    BY <1>0, <1>4 DEF HandlerSubscribe, StreamTypes, daemon, locals, screen, Published
  <2>2. Published \in 0..Len(ledger') /\ UpTo(c, Published)'
    BY <1>0, <2>1 DEF UpTo, Covers
  <2>3. Rows(c)' /\ Subscribed(c)'
    BY <1>0, <2>1, <2>2 DEF Rows, FramesWhole, Subscribed
  <2>4. OnlyOf(c)
    BY <1>0, <1>4, <2>1 DEF HandlerSubscribe, StreamTypes, OnlyOf
  <2>5. QED
    BY <1>0, <2>3, <2>4, OneClientWhole
<1>5. ASSUME NEW c \in Clients, HandlerReplay(c) PROVE HInv'
  BY <1>0, <1>5, ReplayWhole
<1>6. ASSUME NEW c \in Clients, HandlerReceive(c) PROVE HInv'
  BY <1>0, <1>6, ReceiveWhole
<1>7. ASSUME NEW c \in Clients, HandlerDropped(c) PROVE HInv'
  <2> DEFINE r == ReconnectFrame(after[c])
  <2>1. r \in Frames /\ r.kind = "reconnect" /\ wire[c] \in Seq(Frames) /\ FramesWhole(wire[c])
    BY <1>0, FramesAreFrames DEF StreamTypes, ReconnectFrame, Rows
  <2>2. wire'[c] = Append(wire[c], r) /\ handler'[c] = "none"
    BY <1>0, <1>7 DEF HandlerDropped, StreamTypes
  <2> HIDE DEF r
  <2>3. FramesWhole(Append(wire[c], r))
    <3>1. <<r>> \in Seq(Frames) /\ FramesWhole(<<r>>) /\ Append(wire[c], r) = wire[c] \o <<r>>
      BY <2>1, OneFrame, AppendIsConcat DEF FramesWhole
    <3>2. QED
      BY <2>1, <3>1, WroteWhole
  <2>4. FramesWhole(wire'[c])
    BY <2>2, <2>3
  <2>5. QED
    BY <1>0, <1>7, <2>2, <2>4, OtherStepsWhole
       DEF HandlerDropped, StreamTypes, daemon, locals, screen
<1>8. ASSUME NEW c \in Clients, Connect(c) PROVE HInv'
  <2>1. wire'[c] = <<>> /\ FramesWhole(<<>>) /\ handler'[c] = "accepted" /\ events'[c] = {}
    BY <1>0, <1>8 DEF Connect, StreamTypes, FramesWhole
  <2>2. QED
    BY <1>0, <1>8, <2>1, OtherStepsWhole DEF Connect, StreamTypes, daemon, subscription, screen
<1>9. ASSUME NEW c \in Clients, ClientReceive(c) PROVE HInv'
  BY <1>0, <1>9, ClientReceiveWhole
<1>10. ASSUME NEW c \in Clients, ClientEnd(c) PROVE HInv'
  <2>1. FramesWhole(wire'[c]) /\ handler'[c] = "none"
    BY <1>0, <1>10 DEF ClientEnd, Rows
  <2>2. QED
    BY <1>0, <1>10, <2>1, OtherStepsWhole
       DEF ClientEnd, StreamTypes, daemon, subscription, locals, screen
<1>11. ASSUME NEW c \in Clients, HangUp(c), UNCHANGED <<daemon, locals, screen>>
       PROVE  HInv'
  <2>1. wire'[c] = <<>> /\ FramesWhole(<<>>) /\ handler'[c] = "none"
    BY <1>0, <1>11 DEF HangUp, StreamTypes, FramesWhole
  <2>2. QED
    BY <1>0, <1>11, <2>1, OtherStepsWhole DEF HangUp, StreamTypes, daemon, locals, screen
<1>12. ASSUME NEW c \in Clients, Break(c) \/ Unsubscribe(c) PROVE HInv'
  BY <1>11, <1>12 DEF Break, Unsubscribe
<1>13. CASE Crash
  <2>1. \A w \in Writers : pend'[w] = 0
    BY <1>13 DEF Crash
  <2>2. \A c \in Clients : handler'[c] = "none"
    BY <1>13 DEF Crash
  <2>3. ASSUME NEW c \in Clients PROVE (Rows(c) /\ Subscribed(c))'
    BY <1>0, <1>13, <2>2 DEF Crash, Rows, FramesWhole, Subscribed, locals, screen
  <2>4. QED
    BY <1>0, <2>1, <2>3 DEF HInv
<1>14. CASE Restart \/ UNCHANGED vars
  <2>1. UNCHANGED <<ledger, pend, view, events, wire, handler, chan, sub>>
    BY <1>14 DEF Restart, vars, daemon, subscription, locals, screen
  <2>2. Published' = Published /\ \A v \in Writers : pend'[v] \in {0, Len(ledger')}
    BY <2>1 DEF Published, HInv
  <2>3. ASSUME NEW c \in Clients PROVE (Rows(c) /\ Subscribed(c))'
    BY <1>0, <2>1, <2>2, WholeForOthers
  <2>4. QED
    BY <1>0, <2>2, <2>3 DEF HInv
<1>15. QED
  BY <1>1, <1>2, <1>3, <1>4, <1>5, <1>6, <1>7, <1>8, <1>9, <1>10, <1>12, <1>13, <1>14
     DEF Next, Handler, Client

\* With one committer at a time, what a client shows is a piece of the ledger without a
\* hole, on whichever connection and from whatever part of the tail it was rendered, and
\* although a slow subscriber is dropped (broadcast.go, stream.go).
THEOREM ScreenHasNoHoles == ASSUME OneWriter PROVE Spec => []ViewHasNoHoles
<1>1. HInv => ViewHasNoHoles
  BY DEF HInv, Rows, Whole, ViewHasNoHoles
<1>2. HInv /\ [Next]_vars => HInv'
  BY WholeStep
<1>3. QED
  BY WholeInit, <1>1, <1>2, PTL DEF Spec

----------------------------------------------------------------------------
(* The feed, with a tail that fits the window and is always read *)

Has(w, m) == \E i \in DOMAIN w : w[i] = EventFrame(m)

\* A client was given the events up to its cursor, and the wire has those from there to
\* the handler's.
Gapless(c) ==
  /\ \A i \in DOMAIN got[c] : got[c][i] = i
  /\ cursor[c] = Len(got[c])
  /\ client[c] = "open" => \A m \in (cursor[c] + 1)..after[c] : Has(wire[c], m)
  /\ handler[c] = "live" => events[c] = 1..after[c]

FInv ==
  /\ HInv
  /\ Len(ledger) <= MaxEvents
  /\ \A c \in Clients : Gapless(c)

WholeTail == MaxFaults = 0 /\ MaxEvents <= RenderCap

LEMMA GaplessInit == Init => FInv
  BY WholeInit, StreamBoundsAssumption DEF Init, FInv, Gapless

LEMMA HasWritten ==
  ASSUME NEW w \in Seq(Frames), NEW fs \in Seq(Frames), NEW m, Has(w, m) \/ Has(fs, m)
  PROVE  Has(w \o fs, m)
<1>1. /\ Len(w) \in Nat /\ Len(fs) \in Nat /\ DOMAIN w = 1..Len(w) /\ DOMAIN fs = 1..Len(fs)
      /\ DOMAIN (w \o fs) = 1..(Len(w) + Len(fs))
      /\ \A i \in DOMAIN w : i \in DOMAIN (w \o fs) /\ (w \o fs)[i] = w[i]
      /\ \A i \in DOMAIN fs : i + Len(w) \in DOMAIN (w \o fs) /\ (w \o fs)[i + Len(w)] = fs[i]
  OBVIOUS
<1>2. QED
  BY <1>1 DEF Has

LEMMA HasRest ==
  ASSUME NEW w \in Seq(Frames), w # <<>>, NEW m, Has(w, m), Head(w) # EventFrame(m)
  PROVE  Has(Tail(w), m)
<1>1. Head(w) = w[1] /\ \A i \in DOMAIN w : i # 1 => i - 1 \in DOMAIN Tail(w) /\ Tail(w)[i - 1] = w[i]
  OBVIOUS
<1>2. QED
  BY <1>1 DEF Has

\* A handler's, a connection's or a client's step touches nothing of the other clients.
LEMMA StepsAreLocal ==
  ASSUME StreamTypes, NEW c \in Clients, Handler(c) \/ Client(c) \/ Break(c) \/ Unsubscribe(c)
  PROVE  OnlyAt(c)
<1> USE DEF OnlyAt, StreamTypes, daemon, subscription, locals, screen
<1>1. CASE HandlerSubscribe(c)
  BY <1>1 DEF HandlerSubscribe
<1>2. CASE HandlerReplay(c)
  BY <1>2 DEF HandlerReplay
<1>3. CASE HandlerReceive(c)
  BY <1>3 DEF HandlerReceive
<1>4. CASE HandlerDropped(c)
  BY <1>4 DEF HandlerDropped
<1>5. CASE Connect(c)
  BY <1>5 DEF Connect
<1>6. CASE ClientReceive(c)
  BY <1>6 DEF ClientReceive
<1>7. CASE ClientEnd(c)
  BY <1>7 DEF ClientEnd
<1>8. CASE Break(c)
  BY <1>8 DEF Break, HangUp
<1>9. CASE Unsubscribe(c)
  BY <1>9 DEF Unsubscribe, HangUp
<1>10. QED
  BY <1>1, <1>2, <1>3, <1>4, <1>5, <1>6, <1>7, <1>8, <1>9 DEF Handler, Client

LEMMA OneClientGapless ==
  ASSUME FInv, HInv', NEW c \in Clients, OnlyAt(c), Gapless(c)'
  PROVE  FInv'
<1>1. ASSUME NEW d \in Clients \ {c} PROVE Gapless(d)'
  BY DEF FInv, OnlyAt, Gapless
<1>2. QED
  BY <1>1 DEF FInv, OnlyAt

\* The whole ledger is read back, and what the client lacks of it is put on the wire.
LEMMA ReplayGapless ==
  ASSUME OneWriter, WholeTail, FInv, HInv', NEW c \in Clients, HandlerReplay(c)
  PROVE  FInv'
<1> DEFINE n == Len(ledger)
           new == (after[c] + 1)..n
           k == Cardinality(new)
           evs == [i \in 1..k |-> EventFrame(InOrder(new)[i])]
           last == <<RenderFrame(1..n)>>
<1>0. /\ StreamTypes /\ ledger \in Seq(Writers) /\ n \in Nat /\ wire[c] \in Seq(Frames)
      /\ faults \in Nat /\ after[c] \in Nat /\ after[c] <= n /\ n <= RenderCap /\ RenderCap \in Nat
      /\ DOMAIN ledger = 1..n /\ n <= MaxEvents /\ MaxEvents \in Nat
  <2>1. StreamTypes /\ after[c] <= n /\ n <= MaxEvents
    BY DEF FInv, HInv, IInv, Committed
  <2>2. RenderCap \in Nat /\ MaxEvents \in Nat /\ MaxEvents <= RenderCap
    BY SizesAssumption, StreamBoundsAssumption DEF WholeTail
  <2>3. ledger \in Seq(Writers) /\ wire[c] \in Seq(Frames) /\ faults \in Nat /\ after[c] \in Nat
    BY <2>1 DEF StreamTypes
  <2>4. n \in Nat /\ DOMAIN ledger = 1..n
    BY <2>3
  <2>5. QED
    BY <2>1, <2>2, <2>3, <2>4
<1> HIDE DEF n
<1>1. EventsTail(ledger, RenderCap) = 1..n
  BY <1>0 DEF EventsTail, NewestOf
<1>2. Lacks(c, 1..n) = new
  BY <1>0 DEF Lacks
<1>3. ~(faults < MaxFaults)
  BY <1>0 DEF WholeTail
<1>4. /\ events' = [events EXCEPT ![c] = 1..n]
      /\ after' = [after EXCEPT ![c] = Newest(new \cup {@})]
      /\ wire' = [wire EXCEPT ![c] = @ \o evs \o last]
      /\ handler' = [handler EXCEPT ![c] = "live"]
      /\ UNCHANGED <<client, screen>>
  BY <1>1, <1>2, <1>3 DEF HandlerReplay
<1>5. Newest(new \cup {after[c]}) = n
  <2> DEFINE x == Newest(new \cup {after[c]})
  <2>1. new \cup {after[c]} \in SUBSET Nat /\ \A s \in new \cup {after[c]} : s <= n
    BY <1>0
  <2>2. x \in new \cup {after[c]} \cup {0} /\ x \in Nat /\ \A s \in new \cup {after[c]} : s <= x
    BY <1>0, <2>1, NewestFacts
  <2> HIDE DEF x
  <2>3. x <= n
    BY <1>0, <2>1, <2>2
  <2>4. n \in new \cup {after[c]}
    BY <1>0
  <2>5. n <= x
    BY <2>2, <2>4
  <2>6. x = n
    BY <1>0, <2>2, <2>3, <2>5
  <2>7. QED
    BY <2>6 DEF x
<1>6. /\ k \in Nat /\ InOrder(new) \in [1..k -> new]
      /\ \A m \in new : \E i \in 1..k : InOrder(new)[i] = m
      /\ new \subseteq Nat
  <2>1. PICK a \in Nat : a = after[c] + 1
    BY <1>0
  <2>2. new = a..n /\ a..n \subseteq Nat
    BY <1>0, <2>1
  <2>3. LET S == a..n
            j == Cardinality(S)
        IN  /\ j \in Nat /\ InOrder(S) \in [1..j -> S]
            /\ \A m \in S : \E i \in 1..j : InOrder(S)[i] = m
    BY <1>0, InOrderFacts
  <2> HIDE DEF k
  <2>4. QED
    BY <2>1, <2>2, <2>3 DEF k
<1>7. evs \in Seq(Frames) /\ DOMAIN evs = 1..k /\ \A i \in 1..k : evs[i] = EventFrame(InOrder(new)[i])
  <2>1. \A i \in 1..k : InOrder(new)[i] \in Nat /\ evs[i] = EventFrame(InOrder(new)[i])
    BY <1>6
  <2>2. \A i \in 1..k : evs[i] \in Frames
    BY <2>1, FramesAreFrames
  <2>3. QED
    BY <1>6, <2>1, <2>2
<1>8. ASSUME NEW m \in new PROVE Has(evs, m)
  BY <1>6, <1>7 DEF Has
<1>9. last \in Seq(Frames)
  BY <1>0, FramesAreFrames, OneFrame
<1> HIDE DEF evs, last, k
<1>10. wire[c] \o evs \in Seq(Frames) /\ wire'[c] = wire[c] \o evs \o last /\ after'[c] = n
  BY <1>0, <1>4, <1>5, <1>7 DEF StreamTypes
<1>11. ASSUME NEW m \in (cursor[c] + 1)..n PROVE Has(wire'[c], m)
  <2>1. CASE m \in new
    BY <1>0, <1>7, <1>8, <1>9, <1>10, <2>1, HasWritten
  <2>2. CASE m \notin new
    <3>1. m \in (cursor[c] + 1)..after[c] /\ client[c] = "open"
      <4>1. cursor[c] \in Nat /\ handler[c] # "none"
        BY <1>0 DEF StreamTypes, HandlerReplay
      <4>2. client[c] = "open"
        BY <4>1 DEF FInv, HInv, IInv, Connected
      <4>3. m <= after[c]
        BY <1>0, <2>2, <4>1
      <4>4. QED
        BY <1>0, <4>1, <4>2, <4>3
    <3>2. Has(wire[c], m)
      BY <3>1 DEF FInv, Gapless
    <3>3. QED
      BY <1>0, <1>7, <1>9, <1>10, <3>2, HasWritten
  <2>3. QED
    BY <2>1, <2>2
<1>12. Gapless(c)'
  <2>1. events'[c] = 1..n /\ UNCHANGED <<client, got, cursor>>
    BY <1>0, <1>4 DEF StreamTypes, screen
  <2>2. QED
    BY <1>10, <1>11, <2>1 DEF FInv, Gapless
<1>13. OnlyAt(c)
  BY <1>0, StepsAreLocal DEF Handler
<1>14. QED
  BY <1>12, <1>13, OneClientGapless

\* What the channel brings next is the event after the handler's last.
LEMMA ReceiveGapless ==
  ASSUME OneWriter, WholeTail, FInv, HInv', NEW c \in Clients, HandlerReceive(c)
  PROVE  FInv'
<1> DEFINE q == chan[c]
           f == Head(q)
           n == Newest(events[c])
           grown == events[c] \cup {f}
<1>0. /\ StreamTypes /\ wire[c] \in Seq(Frames) /\ q \in Seq(Nat) /\ q # <<>>
      /\ handler[c] = "live" /\ after[c] \in Nat /\ Len(ledger) \in Nat /\ cursor[c] \in Nat
      /\ client[c] = "open" /\ Gapless(c) /\ events[c] = 1..after[c]
  <2>1. StreamTypes /\ Connected(c) /\ Gapless(c) /\ handler[c] = "live" /\ q # <<>>
    BY DEF FInv, HInv, IInv, HandlerReceive
  <2>2. wire[c] \in Seq(Frames) /\ q \in Seq(Nat) /\ after[c] \in Nat /\ Len(ledger) \in Nat /\ cursor[c] \in Nat
    BY <2>1 DEF StreamTypes
  <2>3. QED
    BY <2>1, <2>2 DEF Connected, Gapless
<1>1. PICK h \in 0..Len(ledger) : UpTo(c, h)
  BY <1>0 DEF FInv, HInv, Subscribed
<1>2. h \in Nat /\ Covers(q, h) /\ Since(q, h, n)
  BY <1>0, <1>1 DEF UpTo, WholeTail
<1>3. f \in Nat /\ \A m \in Nat : Since(q, h, m) /\ m < f => f = m + 1
  BY <1>0, <1>2, CoversTail
<1>4. n = after[c]
  <2>1. events[c] \in SUBSET Nat /\ \A s \in events[c] : s <= after[c]
    BY <1>0
  <2>2. n \in events[c] \cup {0} /\ n \in Nat /\ \A s \in events[c] : s <= n
    BY <1>0, <2>1, NewestFacts
  <2> HIDE DEF n
  <2>3. CASE after[c] = 0
    BY <1>0, <2>1, <2>2, <2>3
  <2>4. CASE after[c] # 0
    <3>1. after[c] \in events[c]
      BY <1>0, <2>4
    <3>2. after[c] <= n /\ n <= after[c]
      BY <1>0, <2>1, <2>2, <3>1
    <3>3. QED
      BY <1>0, <2>2, <3>2
  <2>5. QED
    BY <2>3, <2>4
<1>5. UNCHANGED <<handler, client, got, cursor>>
  BY DEF HandlerReceive, screen
<1> HIDE DEF f, n, q
<1>6. ASSUME UNCHANGED locals, wire'[c] \in {wire[c], wire[c] \o <<DeltaFrame>>}
      PROVE  Gapless(c)'
  <2>1. <<DeltaFrame>> \in Seq(Frames)
    BY FramesAreFrames, OneFrame
  <2>2. \A m \in Nat : Has(wire[c], m) => Has(wire'[c], m)
    BY <1>0, <1>6, <2>1, HasWritten
  <2>3. UNCHANGED <<after, events, handler, client, got, cursor>>
    BY <1>5, <1>6 DEF locals
  <2>4. ASSUME NEW m \in (cursor'[c] + 1)..after'[c] PROVE Has(wire'[c], m)
    <3>1. m \in (cursor[c] + 1)..after[c] /\ m \in Nat
      BY <1>0, <2>3
    <3>2. QED
      BY <1>0, <2>2, <3>1 DEF Gapless
  <2>5. /\ \A i \in DOMAIN got'[c] : got'[c][i] = i
        /\ cursor'[c] = Len(got'[c])
        /\ handler'[c] = "live" => events'[c] = 1..after'[c]
    BY <1>0, <2>3 DEF Gapless
  <2>6. QED
    BY <2>4, <2>5 DEF Gapless
<1>7. ASSUME f # Delta, n < f, events'[c] = grown, after'[c] = Newest({after[c], f}),
             wire'[c] = wire[c] \o (IF f > after[c] THEN <<EventFrame(f)>> ELSE <<>>)
                                 \o <<RenderFrame(grown)>>
      PROVE  Gapless(c)'
  <2> DEFINE first == <<EventFrame(f)>>
             last == <<RenderFrame(grown)>>
  <2>1. f = after[c] + 1 /\ f > after[c] /\ after[c] < f
    BY <1>0, <1>2, <1>3, <1>4, <1>7
  <2>2. after'[c] = f
    BY <1>0, <1>3, <1>7, <2>1, NewerFacts
  <2>3. events'[c] = 1..after'[c] /\ grown \in SUBSET Nat
    BY <1>0, <1>3, <1>7, <2>1, <2>2
  <2>4. EventFrame(f) \in Frames /\ RenderFrame(grown) \in Frames
    BY <1>3, <2>3, FramesAreFrames
  <2>5. /\ first \in Seq(Frames) /\ DOMAIN first = {1} /\ first[1] = EventFrame(f)
        /\ last \in Seq(Frames)
    BY <2>4, OneFrame
  <2>6. wire'[c] = wire[c] \o first \o last
    BY <1>7, <2>1
  <2> HIDE DEF first, last
  <2>7. Has(first, f) /\ wire[c] \o first \in Seq(Frames)
    BY <1>0, <2>5 DEF Has
  <2>8. ASSUME NEW m \in (cursor[c] + 1)..after'[c] PROVE Has(wire'[c], m)
    <3>1. m = f \/ m \in (cursor[c] + 1)..after[c]
      BY <1>0, <2>1, <2>2
    <3>2. Has(wire[c] \o first, m)
      BY <1>0, <2>5, <2>7, <3>1, HasWritten DEF Gapless
    <3>3. QED
      BY <2>5, <2>6, <2>7, <3>2, HasWritten
  <2>9. /\ \A i \in DOMAIN got'[c] : got'[c][i] = i
        /\ cursor'[c] = Len(got'[c])
    BY <1>0, <1>5 DEF Gapless
  <2>10. \A m \in (cursor'[c] + 1)..after'[c] : Has(wire'[c], m)
    BY <1>5, <2>8
  <2>11. QED
    BY <2>3, <2>9, <2>10 DEF Gapless
<1>8. Gapless(c)'
  <2>1. /\ wire \in [Clients -> Seq(Frames)] /\ after \in [Clients -> Nat]
        /\ events \in [Clients -> SUBSET Nat]
    BY <1>0 DEF StreamTypes
  <2>2. CASE f = Delta /\ wire' = [wire EXCEPT ![c] = Append(@, DeltaFrame)] /\ UNCHANGED locals
    <3>1. wire'[c] = wire[c] \o <<DeltaFrame>>
      BY <1>0, <2>1, <2>2, FramesAreFrames, AppendIsConcat
    <3>2. UNCHANGED locals
      BY <2>2
    <3>3. QED
      BY <1>6, <3>1, <3>2
  <2>3. CASE UNCHANGED <<wire, locals>>
    <3>1. UNCHANGED locals /\ wire' = wire
      BY <2>3
    <3>2. QED
      BY <1>6, <3>1
  <2>4. CASE /\ f # Delta /\ f > n
             /\ events' = [events EXCEPT ![c] = grown]
             /\ after' = [after EXCEPT ![c] = Newest({@, f})]
             /\ wire' = [wire EXCEPT ![c] =
                  @ \o (IF f > after[c] THEN <<EventFrame(f)>> ELSE <<>>) \o <<RenderFrame(grown)>>]
    <3>1. n < f
      BY <1>0, <1>3, <1>4, <2>4
    <3>2. events'[c] = grown
      BY <2>1, <2>4
    <3>3. after'[c] = Newest({after[c], f})
      BY <2>1, <2>4
    <3>4. wire'[c] = wire[c] \o (IF f > after[c] THEN <<EventFrame(f)>> ELSE <<>>)
                             \o <<RenderFrame(grown)>>
      BY <2>1, <2>4
    <3>5. f # Delta
      BY <2>4
    <3>6. QED
      BY <1>7, <3>1, <3>2, <3>3, <3>4, <3>5
  <2>5. QED
    BY <2>2, <2>3, <2>4 DEF HandlerReceive, f, n, q
<1>9. OnlyAt(c)
  BY <1>0, StepsAreLocal DEF Handler
<1>10. QED
  BY <1>8, <1>9, OneClientGapless

\* The client takes a frame: an event is the one after its last, and the cursor that a
\* reconnect frame gives it is the one it has.
LEMMA ClientReceiveGapless ==
  ASSUME FInv, HInv', NEW c \in Clients, ClientReceive(c)
  PROVE  /\ FInv'
         /\ \/ UNCHANGED got
            \/ /\ Len(got[c]) + 1 <= Len(ledger)
               /\ got' = [got EXCEPT ![c] = Append(@, Len(@) + 1)]
<1> DEFINE w == wire[c]
           f == Head(w)
           g == got[c]
<1>0. /\ StreamTypes /\ w \in Seq(Frames) /\ w # <<>> /\ client[c] = "open" /\ g \in Seq(Nat)
      /\ cursor[c] \in Nat /\ after[c] \in Nat /\ Len(ledger) \in Nat /\ after[c] <= Len(ledger)
      /\ Gapless(c) /\ InFlight(c, cursor[c], w) /\ cursor[c] <= after[c]
  <2>1. StreamTypes /\ Connected(c) /\ Committed(c) /\ Gapless(c) /\ client[c] = "open" /\ w # <<>>
    BY DEF FInv, HInv, IInv, ClientReceive
  <2>2. /\ w \in Seq(Frames) /\ g \in Seq(Nat) /\ cursor[c] \in Nat /\ after[c] \in Nat
        /\ Len(ledger) \in Nat
    BY <2>1 DEF StreamTypes
  <2>3. QED
    BY <2>1, <2>2 DEF Connected, Committed
<1>1. /\ 1 \in DOMAIN w /\ f = w[1] /\ f \in Frames /\ \A i \in DOMAIN w : i \in Nat /\ 1 <= i
      /\ DOMAIN w = 1..Len(w)
  BY <1>0
<1>2. wire'[c] = Tail(w) /\ UNCHANGED <<handler, after, events, ledger>>
  BY <1>0 DEF ClientReceive, StreamTypes, locals, daemon
<1>3. OnlyAt(c)
  BY <1>0, StepsAreLocal DEF Client
<1> HIDE DEF w, f, g
<1>4. \A m \in (cursor[c] + 1)..after[c] : Has(w, m)
  BY <1>0 DEF Gapless, w
<1>5. CASE /\ f.kind = "event"
           /\ cursor' = [cursor EXCEPT ![c] = Newest({@, f.seq})]
           /\ got' = [got EXCEPT ![c] = Append(@, f.seq)]
           /\ UNCHANGED client
  <2>1. f.seq \in Nat /\ cursor[c] < f.seq /\ f.seq <= after[c]
    BY <1>0, <1>1, <1>5, FrameFacts DEF InFlight
  <2>2. f.seq = cursor[c] + 1
    <3>1. cursor[c] + 1 \in (cursor[c] + 1)..after[c]
      BY <1>0, <2>1
    <3>2. PICK i \in DOMAIN w : w[i] = EventFrame(cursor[c] + 1)
      BY <1>4, <3>1 DEF Has
    <3>3. w[i].kind = "event" /\ w[i].seq = cursor[c] + 1
      BY <3>2 DEF EventFrame
    <3>4. CASE i = 1
      BY <1>1, <3>3, <3>4
    <3>5. CASE i # 1
      <4>1. 1 < i /\ w[1].kind = "event" /\ w[i].kind = "event" /\ 1 \in DOMAIN w /\ i \in DOMAIN w
        BY <1>1, <1>5, <3>3, <3>5
      <4>3. w[1].seq < w[i].seq
        BY <1>0, <4>1 DEF InFlight
      <4>2. QED
        BY <1>0, <1>1, <2>1, <3>3, <4>3
    <3>6. QED
      BY <3>4, <3>5
  <2>3. cursor'[c] = f.seq /\ got'[c] = Append(g, f.seq) /\ client'[c] = "open"
    BY <1>0, <1>5, <2>1, NewerFacts DEF StreamTypes, g
  <2>4. cursor[c] = Len(g) /\ \A i \in DOMAIN g : g[i] = i
    BY <1>0 DEF Gapless, g
  <2>5. got'[c] = Append(g, Len(g) + 1) /\ Len(got'[c]) = Len(g) + 1
        /\ \A i \in DOMAIN got'[c] : got'[c][i] = i
    BY <1>0, <2>2, <2>3, <2>4
  <2>6. ASSUME NEW m \in (f.seq + 1)..after[c] PROVE Has(Tail(w), m)
    <3>1. m \in (cursor[c] + 1)..after[c] /\ m # f.seq
      BY <1>0, <2>1
    <3>2. f # EventFrame(m)
      BY <3>1 DEF EventFrame
    <3>3. QED
      BY <1>0, <1>4, <3>1, <3>2, HasRest DEF f
  <2>7. Gapless(c)'
    <3>1. cursor'[c] = Len(got'[c])
      BY <2>2, <2>3, <2>4, <2>5
    <3>2. \A m \in (cursor'[c] + 1)..after'[c] : Has(wire'[c], m)
      BY <1>2, <2>3, <2>6
    <3>3. handler'[c] = "live" => events'[c] = 1..after'[c]
      BY <1>0, <1>2 DEF Gapless
    <3>4. QED
      BY <2>5, <3>1, <3>2, <3>3 DEF Gapless
  <2>8. Len(got[c]) + 1 <= Len(ledger) /\ got' = [got EXCEPT ![c] = Append(@, Len(@) + 1)]
    BY <1>0, <1>5, <2>1, <2>2, <2>4 DEF g
  <2>9. QED
    BY <1>3, <2>7, <2>8, OneClientGapless
<1>6. CASE f.kind \in {"render", "delta"} /\ UNCHANGED <<cursor, got, client>>
  <2>1. ASSUME NEW m \in (cursor[c] + 1)..after[c] PROVE Has(Tail(w), m)
    <3>1. f # EventFrame(m)
      BY <1>6 DEF EventFrame
    <3>2. QED
      BY <1>0, <1>4, <3>1, HasRest DEF f
  <2>2. Gapless(c)'
    BY <1>0, <1>2, <1>6, <2>1 DEF Gapless
  <2>3. QED
    BY <1>3, <1>6, <2>2, OneClientGapless
<1>7. CASE /\ f.kind = "reconnect"
           /\ cursor' = [cursor EXCEPT ![c] = f.seq]
           /\ client' = [client EXCEPT ![c] = "waiting"]
           /\ UNCHANGED got
  <2>1. f.seq = after[c] /\ handler[c] = "none" /\ DOMAIN w = {1}
    <3>1. f.seq = after[c] /\ handler[c] = "none" /\ Len(w) = 1
      BY <1>0, <1>1, <1>7 DEF InFlight
    <3>2. QED
      BY <1>1, <3>1
  <2>2. ASSUME NEW m PROVE ~Has(w, m)
    <3>1. w[1].kind = "reconnect"
      BY <1>1, <1>7
    <3>2. EventFrame(m).kind = "event" /\ "event" # "reconnect"
      BY DEF EventFrame
    <3>3. w[1] # EventFrame(m)
      BY <3>1, <3>2
    <3>4. QED
      BY <2>1, <3>3 DEF Has
  <2>3. cursor[c] = after[c]
    <3>1. SUFFICES ASSUME cursor[c] # after[c] PROVE FALSE
      OBVIOUS
    <3>2. after[c] \in (cursor[c] + 1)..after[c]
      BY <1>0, <3>1
    <3>3. QED
      BY <1>4, <2>2, <3>2
  <2>4. cursor'[c] = cursor[c] /\ client'[c] = "waiting"
    BY <1>0, <1>7, <2>1, <2>3 DEF StreamTypes
  <2>5. Gapless(c)'
    BY <1>0, <1>2, <1>7, <2>1, <2>4 DEF Gapless
  <2>6. QED
    BY <1>3, <1>7, <2>5, OneClientGapless
<1>8. QED
  BY <1>5, <1>6, <1>7 DEF ClientReceive, f, w, screen

LEMMA CommitGapless ==
  ASSUME FInv, HInv', NEW w \in Writers, AppendEvent(w)
  PROVE  FInv' /\ Len(ledger') = Len(ledger) + 1
<1>1. ledger \in Seq(Writers) /\ MaxEvents \in Nat
  BY StreamBoundsAssumption DEF FInv, HInv, IInv, StreamTypes
<1>2. Len(ledger') = Len(ledger) + 1 /\ Len(ledger') <= MaxEvents
  BY <1>1 DEF AppendEvent
<1>3. ASSUME NEW c \in Clients PROVE Gapless(c)'
  BY DEF AppendEvent, FInv, Gapless, locals, screen
<1>4. QED
  BY <1>2, <1>3 DEF FInv

\* What publishes, dies, restarts or stutters leaves the feed as it is.
LEMMA DaemonGapless ==
  ASSUME FInv, HInv',
         \/ \E w \in Writers : Publish(w)
         \/ PublishDelta \/ Crash \/ Restart \/ UNCHANGED vars
  PROVE  FInv' /\ UNCHANGED <<ledger, got, client>>
<1>1. /\ UNCHANGED <<ledger, got, client, cursor, after, events, wire>>
      /\ handler' = handler \/ handler' = [c \in Clients |-> "none"]
  <2>1. CASE \E w \in Writers : Publish(w)
    BY <2>1 DEF Publish, locals, screen
  <2>2. CASE PublishDelta
    BY <2>2 DEF PublishDelta, daemon, locals, screen
  <2>3. CASE Crash
    BY <2>3 DEF Crash, locals, screen
  <2>4. CASE Restart
    BY <2>4 DEF Restart, locals, screen
  <2>5. CASE UNCHANGED vars
    BY <2>5 DEF vars, daemon, locals, screen
  <2>6. QED
    BY <2>1, <2>2, <2>3, <2>4, <2>5
<1>2. ASSUME NEW c \in Clients PROVE Gapless(c)'
  <2>1. Gapless(c) /\ (handler'[c] = handler[c] \/ handler'[c] = "none")
    BY <1>1 DEF FInv
  <2>2. QED
    BY <1>1, <2>1 DEF Gapless
<1>3. QED
  BY <1>1, <1>2 DEF FInv

\* A connection that opens starts at the client's cursor, one that ends leaves it there.
LEMMA ConnectionGapless ==
  ASSUME FInv, HInv', NEW c \in Clients,
         \/ HandlerSubscribe(c) \/ HandlerDropped(c)
         \/ Connect(c) \/ ClientEnd(c) \/ Break(c) \/ Unsubscribe(c)
  PROVE  FInv' /\ UNCHANGED <<ledger, got>>
<1>1. StreamTypes /\ Gapless(c)
  BY DEF FInv, HInv, IInv
<1>2. /\ handler \in [Clients -> {"none", "accepted", "subscribed", "live"}]
      /\ client \in [Clients -> {"waiting", "open", "closed"}]
      /\ after \in [Clients -> Nat] /\ wire \in [Clients -> Seq(Frames)] /\ cursor[c] \in Nat
  BY <1>1 DEF StreamTypes
<1>3. OnlyAt(c)
  BY <1>1, StepsAreLocal DEF Handler, Client
<1>4. UNCHANGED <<ledger, got, cursor>>
  BY DEF HandlerSubscribe, HandlerDropped, Connect, ClientEnd, Break, Unsubscribe, daemon, screen
<1>5. \/ client'[c] # "open"
      \/ /\ client'[c] = client[c] /\ after' = after
         /\ \A m : Has(wire[c], m) => Has(wire'[c], m)
      \/ after'[c] = cursor[c]
  <2>1. CASE HandlerSubscribe(c)
    BY <2>1 DEF HandlerSubscribe, locals
  <2>2. CASE HandlerDropped(c)
    <3>1. wire'[c] = Append(wire[c], ReconnectFrame(after[c])) /\ UNCHANGED <<client, after>>
      BY <1>2, <2>2 DEF HandlerDropped, locals
    <3>2. ReconnectFrame(after[c]) \in Frames
      BY <1>2, FramesAreFrames
    <3>3. wire'[c] = wire[c] \o <<ReconnectFrame(after[c])>> /\ <<ReconnectFrame(after[c])>> \in Seq(Frames)
      BY <1>2, <3>1, <3>2, AppendIsConcat, OneFrame
    <3>4. ASSUME NEW m, Has(wire[c], m) PROVE Has(wire'[c], m)
      BY <1>2, <3>3, <3>4, HasWritten
    <3>5. QED
      BY <3>1, <3>4
  <2>3. CASE Connect(c)
    BY <1>2, <2>3 DEF Connect
  <2>4. CASE ClientEnd(c) \/ Break(c) \/ Unsubscribe(c)
    BY <1>2, <2>4 DEF ClientEnd, Break, Unsubscribe
  <2>5. QED
    BY <2>1, <2>2, <2>3, <2>4
<1>6. handler'[c] # "live"
  <2>1. CASE HandlerSubscribe(c)
    BY <1>2, <2>1 DEF HandlerSubscribe
  <2>2. CASE HandlerDropped(c)
    BY <1>2, <2>2 DEF HandlerDropped
  <2>3. CASE Connect(c)
    BY <1>2, <2>3 DEF Connect
  <2>4. CASE ClientEnd(c)
    BY <1>2, <2>4 DEF ClientEnd
  <2>5. CASE Break(c) \/ Unsubscribe(c)
    BY <1>2, <2>5 DEF Break, Unsubscribe, HangUp
  <2>6. QED
    BY <2>1, <2>2, <2>3, <2>4, <2>5
<1>7. ASSUME client'[c] = "open", NEW m \in (cursor'[c] + 1)..after'[c] PROVE Has(wire'[c], m)
  <2>1. CASE client'[c] = client[c] /\ after' = after /\ \A i : Has(wire[c], i) => Has(wire'[c], i)
    BY <1>1, <1>4, <1>7, <2>1 DEF Gapless
  <2>2. CASE after'[c] = cursor[c]
    BY <1>2, <1>4, <1>7, <2>2
  <2>3. QED
    BY <1>5, <1>7, <2>1, <2>2
<1>8. (\A i \in DOMAIN got'[c] : got'[c][i] = i) /\ cursor'[c] = Len(got'[c])
  BY <1>1, <1>4 DEF Gapless
<1>9. Gapless(c)'
  BY <1>6, <1>7, <1>8 DEF Gapless
<1>10. QED
  BY <1>3, <1>4, <1>9, OneClientGapless

LEMMA GaplessStep == ASSUME OneWriter, WholeTail PROVE FInv /\ [Next]_vars => FInv'
<1> SUFFICES ASSUME FInv, [Next]_vars PROVE FInv'
  OBVIOUS
<1>0. HInv'
  BY WholeStep DEF FInv
<1>1. ASSUME NEW w \in Writers, AppendEvent(w) PROVE FInv'
  BY <1>0, <1>1, CommitGapless
<1>2. ASSUME NEW c \in Clients, Handler(c) \/ Client(c) \/ Break(c) \/ Unsubscribe(c) PROVE FInv'
  <2>1. CASE HandlerReplay(c)
    BY <1>0, <2>1, ReplayGapless
  <2>2. CASE HandlerReceive(c)
    BY <1>0, <2>2, ReceiveGapless
  <2>3. CASE ClientReceive(c)
    BY <1>0, <2>3, ClientReceiveGapless
  <2>4. CASE \/ HandlerSubscribe(c) \/ HandlerDropped(c)
             \/ Connect(c) \/ ClientEnd(c) \/ Break(c) \/ Unsubscribe(c)
    BY <1>0, <2>4, ConnectionGapless
  <2>5. QED
    BY <1>2, <2>1, <2>2, <2>3, <2>4 DEF Handler, Client
<1>3. CASE \/ \E w \in Writers : Publish(w)
           \/ PublishDelta \/ Crash \/ Restart \/ UNCHANGED vars
  BY <1>0, <1>3, DaemonGapless
<1>4. QED
  BY <1>1, <1>2, <1>3 DEF Next

----------------------------------------------------------------------------
(* Each step is a step of the feed, or none *)

LEMMA FeedInit == Init => Feed!Init
  BY DEF Init, Feed!Init

LEMMA FeedStep == ASSUME OneWriter, WholeTail PROVE FInv /\ [Next]_vars => [Feed!Next]_(Feed!vars)
<1> SUFFICES ASSUME FInv, [Next]_vars PROVE Feed!Next \/ UNCHANGED Feed!vars
  OBVIOUS
<1>0. /\ HInv' /\ StreamTypes /\ Len(ledger) \in Nat
      /\ client \in [Clients -> {"waiting", "open", "closed"}]
  <2>1. StreamTypes /\ HInv'
    BY WholeStep DEF FInv, HInv, IInv
  <2>2. QED
    BY <2>1 DEF StreamTypes
<1> DEFINE gone == {c \in Clients : client[c] = "closed"}
\* Who is gone stays gone, and only Unsubscribe adds to them.
<1>1. ASSUME NEW c \in Clients, client'[c] # "closed", client[c] # "closed", OnlyAt(c)
      PROVE  gone' = gone
  BY <1>0, <1>1 DEF OnlyAt
<1>2. ASSUME NEW w \in Writers, AppendEvent(w) PROVE Feed!Commit
  <2>1. Len(ledger') = Len(ledger) + 1
    BY <1>0, <1>2, CommitGapless
  <2>2. UNCHANGED <<got, client>>
    BY <1>2 DEF AppendEvent, screen
  <2>3. QED
    BY <2>1, <2>2 DEF Feed!Commit
<1>3. ASSUME NEW c \in Clients, Handler(c) \/ Connect(c) \/ ClientEnd(c) \/ Break(c)
      PROVE  UNCHANGED Feed!vars
  <2>1. UNCHANGED <<ledger, got>>
    BY <1>3 DEF Handler, HandlerSubscribe, HandlerReplay, HandlerReceive, HandlerDropped,
                Connect, ClientEnd, Break, daemon, screen
  <2>2. client' = client \/ (client[c] # "closed" /\ client'[c] # "closed")
    <3>1. CASE Handler(c)
      BY <3>1 DEF Handler, HandlerSubscribe, HandlerReplay, HandlerReceive, HandlerDropped
    <3>2. CASE Connect(c)
      BY <1>0, <3>2 DEF Connect
    <3>3. CASE ClientEnd(c)
      BY <1>0, <3>3 DEF ClientEnd
    <3>4. CASE Break(c)
      BY <1>0, <3>4 DEF Break
    <3>5. QED
      BY <1>3, <3>1, <3>2, <3>3, <3>4
  <2>3. OnlyAt(c)
    BY <1>0, <1>3, StepsAreLocal DEF Client
  <2>4. gone' = gone
    BY <1>1, <2>2, <2>3
  <2>5. QED
    BY <2>1, <2>4 DEF Feed!vars
<1>4. ASSUME NEW c \in Clients, ClientReceive(c) PROVE Feed!Deliver(c) \/ UNCHANGED Feed!vars
  <2>1. \/ UNCHANGED got
        \/ /\ Len(got[c]) + 1 <= Len(ledger)
           /\ got' = [got EXCEPT ![c] = Append(@, Len(@) + 1)]
    BY <1>0, <1>4, ClientReceiveGapless
  <2>2. client[c] = "open" /\ client'[c] # "closed" /\ UNCHANGED ledger
    BY <1>0, <1>4 DEF ClientReceive, daemon
  <2>3. OnlyAt(c)
    BY <1>0, <1>4, StepsAreLocal DEF Client
  <2>4. gone' = gone /\ c \notin gone
    BY <1>1, <2>2, <2>3
  <2>5. QED
    BY <2>1, <2>2, <2>4 DEF Feed!Deliver, Feed!vars
<1>5. ASSUME NEW c \in Clients, Unsubscribe(c) PROVE Feed!Leave(c)
  BY <1>0, <1>5 DEF Unsubscribe, Feed!Leave, daemon, screen
<1>6. CASE \/ \E w \in Writers : Publish(w)
           \/ PublishDelta \/ Crash \/ Restart \/ UNCHANGED vars
  BY <1>0, <1>6, DaemonGapless DEF Feed!vars
<1>7. QED
  BY <1>2, <1>3, <1>4, <1>5, <1>6 DEF Next, Handler, Client, Feed!Next

\* With one committer, and a tail that is always read and fits the window, the stream takes
\* the steps of the abstract feed: whatever breaks, overflows or dies, each client is given
\* the committed events in order, each once, none missed.  (That it is given all of them in
\* the end, the fairness of DeliversEveryEvent, TLC checks.)
THEOREM StreamFollowsFeed ==
  ASSUME OneWriter, WholeTail
  PROVE  Spec => Feed!Init /\ [][Feed!Next]_(Feed!vars)
<1>1. Init => FInv /\ Feed!Init
  BY GaplessInit, FeedInit
<1>2. FInv /\ [Next]_vars => FInv'
  BY GaplessStep
<1>3. FInv /\ [Next]_vars => [Feed!Next]_(Feed!vars)
  BY FeedStep
<1>4. QED
  BY <1>1, <1>2, <1>3, PTL DEF Spec
=============================================================================
