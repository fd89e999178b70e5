---------------------------- MODULE Conversation ----------------------------
(***************************************************************************)
(* The feed of components/Conversation.tsx over a snapshot of the reducer: *)
(* consecutive tools fold into one item, and the copy-and-time footer of   *)
(* each settled exchange hangs off its last item.  It is a function of     *)
(* Render's state: the store keeps the snapshot, and its runActive is the  *)
(* tail's activity.                                                        *)
(***************************************************************************)
EXTENDS Render

(* groupRows: an item is given as the place of its first row *)

Kinds == [user_message |-> "user", assistant_message |-> "assistant",
          error |-> "error", tool |-> "tool"]
KindOf(i) == Kinds[RenderState.rows[i].kind]
Folds(k) == k > 1 /\ KindOf(k) = "tool" /\ KindOf(k - 1) = "tool"
Feed ==
  LET items[k \in 0..Len(RenderState.rows)] ==
        IF k = 0 THEN <<>>
        ELSE IF Folds(k) THEN items[k - 1] ELSE Append(items[k - 1], k)
  IN  items[Len(RenderState.rows)]

\* The id of an item is its first row's: what the provider called the tool, or the seq.
ItemId(i) ==
  LET row == RenderState.rows[i]
  IN  IF row.call = NoId THEN <<NoId, row.seq>> ELSE <<row.call, 0>>

Active == RenderState.tailActivity = "running"

----------------------------------------------------------------------------
(* turnFooters: a Map from the id of the anchor item to the row of the text *)

NoFooters == [at |-> <<>>, reply |-> 0, anchor |-> 0]

\* flush, before the text it copied is forgotten: map.set, over what the id had.
Marked(f) ==
  IF f.reply = 0 \/ f.anchor = 0 THEN f.at
  ELSE [id \in DOMAIN f.at \cup {ItemId(f.anchor)} |->
          IF id = ItemId(f.anchor) THEN f.reply ELSE f.at[id]]
\* Mutant: an exchange without a reply repeats the one before.
FlushKeeps(f) == [f EXCEPT !.at = Marked(f)]
Flush(f) == [at |-> Marked(f), reply |-> 0, anchor |-> f.anchor]

Anchored(f, item) == [f EXCEPT !.anchor = item]
Walk(f, item) ==
  CASE KindOf(item) = "user" -> Anchored(Flush(f), item)
    [] KindOf(item) = "assistant" -> [Anchored(f, item) EXCEPT !.reply = item]
    [] OTHER -> Anchored(f, item)

TurnFooters ==
  LET items == Feed
      walked[m \in 0..Len(items)] ==
        IF m = 0 THEN NoFooters ELSE Walk(walked[m - 1], items[m])
      last == walked[Len(items)]
  IN  IF Active THEN last.at ELSE Flush(last).at

\* Each item looks its id up.  Only AssistantRow and ToolGroup take the footer; an error
\* row drops it.
Items == Range(Feed)
RowFooters == {i \in Items : KindOf(i) = "assistant" /\ ItemId(i) \in DOMAIN TurnFooters}
GroupFooters == {i \in Items : KindOf(i) = "tool" /\ ItemId(i) \in DOMAIN TurnFooters}
ShownFooters == RowFooters \cup GroupFooters

----------------------------------------------------------------------------
(* What the feed means, in terms of the rows alone *)

\* The exchange of row i: the rows since the user's message before it.
SameExchange(i, j) ==
  \A k \in DOMAIN RenderState.rows :
    (Min({i, j}) < k /\ k <= Max({i, j})) => KindOf(k) # "user"
Exchange(i) == {j \in DOMAIN RenderState.rows : SameExchange(i, j)}
Settled(x) == ~Active \/ Max(x) # Len(RenderState.rows)
RepliesOf(x) == {i \in x : KindOf(i) = "assistant"}

\* No item of x has the id of another item.  A provider that repeats the id of a tool may
\* make two groups share one, and with it the footer set last.
Unshared(x) ==
  \A i \in Items \cap x : \A j \in Items : ItemId(i) = ItemId(j) => i = j

\* The marks of exchange x are as they should be.
MarkedRightly(x) ==
  LET marks == ShownFooters \cap x
  IN  IF Settled(x) /\ RepliesOf(x) # {} /\ KindOf(Max(x)) # "error"
      THEN \E a \in marks :
             /\ marks = {a}
             /\ TurnFooters[ItemId(a)] = Max(RepliesOf(x))
             /\ a = Max(x) \/ \A j \in a..Max(x) : KindOf(j) = "tool"
      ELSE marks = {}

\* Each settled exchange that has a reply is marked once, below everything else it
\* shows, with its last reply; one that still runs, or that the agent never answered,
\* is not marked; only a trailing error leaves an exchange unmarked, for its row takes
\* no footer (Conversation.tsx:73-107, 328-335).  That is so of exchanges whose items
\* share no id; of the others, a footer still copies the last reply of a settled exchange
\* that ends with an item of its id.
FootersMarkExchanges ==
  /\ \A i \in DOMAIN RenderState.rows : Unshared(Exchange(i)) => MarkedRightly(Exchange(i))
  /\ \A i \in ShownFooters : \E j \in Items :
       /\ ItemId(j) = ItemId(i) /\ Settled(Exchange(j)) /\ RepliesOf(Exchange(j)) # {}
       /\ TurnFooters[ItemId(i)] = Max(RepliesOf(Exchange(j)))
=============================================================================
