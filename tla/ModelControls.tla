--------------------------- MODULE ModelControls ---------------------------
(***************************************************************************)
(* The model and effort of the next message (frontend/apps/web/src/lib/    *)
(* modelControls.ts with components/Composer.tsx), the menu they are       *)
(* picked in (components/SelectMenu.tsx) and where it opens                *)
(* (lib/selectMenuPosition.ts).  All are functions of what the daemon      *)
(* offers and of what was picked so far.                                   *)
(***************************************************************************)
EXTENDS Composer, Integers, SequencesExt

CONSTANTS
  AllEfforts,  \* ALL_EFFORTS, in their order
  Catalogues,  \* what the daemon may offer
  Menus,       \* what a menu may be given
  MaxPicks     \* bound: choices made one after another

\* '': the model the daemon chooses, and the effort that model chooses.
Default == ""

\* ModelInfo; efforts is undefined when ~known.
ModelInfo ==
  [id : STRING, known : {TRUE}, efforts : Seq(Range(AllEfforts))]
  \cup [id : STRING, known : {FALSE}, efforts : {<<>>}]
Option == [value : STRING, disabled : BOOLEAN]

ASSUME ControlsAssumption ==
  /\ AllEfforts \in Seq(STRING \ {Default}) /\ MaxPicks \in Nat
  /\ \A models \in Catalogues : models \in Seq(ModelInfo)
  /\ \A options \in Menus : options \in Seq(Option)

First(places) == CHOOSE i \in places : \A j \in places : i <= j

----------------------------------------------------------------------------
(* The menu.  An option is its value and whether it is disabled. *)

SelectedIndex(options, value) ==
  LET found == {i \in DOMAIN options : options[i].value = value}
  IN IF found = {} THEN 1 ELSE First(found)
Shown(options, value) == options[SelectedIndex(options, value)].value

\* show(), from a click or the keys, of a menu that is enabled and has options.
Show(options, value, key) ==
  IF key = "ArrowUp" THEN Len(options) ELSE SelectedIndex(options, value)

\* The option that is n steps away, going round.
Around(options, active, n) == ((active - 1 + n) % Len(options)) + 1
MoveActive(options, active, direction) ==
  LET enabled == {n \in 1..Len(options) : ~options[Around(options, active, direction * n)].disabled}
  IN Around(options, active,
            direction * IF enabled = {} THEN Len(options) ELSE First(enabled))

\* onKeyDown, the keys that move.
Move(options, active, key) ==
  CASE key = "ArrowDown" -> MoveActive(options, active, 1)
    [] key = "ArrowUp" -> MoveActive(options, active, -1)
    [] key = "Home" -> 1
    [] key = "End" -> Len(options)

\* choose(): what onChange is given, if it is called.
Choose(options, active) ==
  {options[i].value : i \in {k \in DOMAIN options : k = active /\ ~options[k].disabled}}

----------------------------------------------------------------------------
(* The model and effort.  A choice is the composer's [model, effort]. *)

NoChoice == [model |-> Default, effort |-> Default]

ModelControlState(status, models, choice) ==
  LET listed == {m.id : m \in Range(models)}
      fallback == IF Default \in listed THEN Default ELSE models[1].id
  IN IF status # "ready" \/ models = <<>>
       THEN [disabled |-> TRUE, options |-> <<>>, value |-> Default]
       ELSE [disabled |-> FALSE, options |-> models,
             value |-> IF choice.model \in listed THEN choice.model ELSE fallback]

\* The levels of a model, or all where it does not say; the first of that id counts.
ModelOf(models, id) == models[First({i \in DOMAIN models : models[i].id = id})]
EffortOptions(m) == IF m.known THEN m.efforts ELSE AllEfforts

EnabledOptions(values) == [i \in DOMAIN values |-> [value |-> values[i], disabled |-> FALSE]]
ModelMenu(state) == EnabledOptions([i \in DOMAIN state.options |-> state.options[i].id])
\* loadModels, when it is answered or, without models, fails.
CatalogStatus(models) == IF models = <<>> THEN "unavailable" ELSE "ready"

\* Empty when the menu is hidden.
EffortMenu(state) ==
  LET levels == EffortOptions(ModelOf(state.options, state.value))
  IN IF state.disabled \/ levels = <<>> THEN <<>> ELSE EnabledOptions(<<Default>> \o levels)

\* Mutant: an effort that the new model does not support is kept.
ChangeModelOnly(models, choice, id) == [choice EXCEPT !.model = id]

\* onModelChange.
OnModelChange(models, choice, id) ==
  LET m == ModelOf(models, id)
      supported == ~m.known \/ choice.effort \in Range(m.efforts)
  IN [model |-> id, effort |-> IF supported THEN choice.effort ELSE Default]

\* The model and effort submit passes to sendMessage, if it does; the daemon keeps them.
SentChoice(status, models, choice) ==
  LET state == ModelControlState(status, models, choice)
  IN IF state.disabled THEN {} ELSE {[model |-> state.value, effort |-> choice.effort]}

\* What the two triggers read; without an effort menu it is the default.
ShownChoice(models, choice) ==
  LET state == ModelControlState("ready", models, choice)
      efforts == EffortMenu(state)
  IN [model |-> state.value, effort |-> IF efforts = <<>> THEN Default ELSE Shown(efforts, choice.effort)]

----------------------------------------------------------------------------
(* Where the menu opens *)

Margin == 8
Gap == 6
AtLeast(a, b) == IF a >= b THEN a ELSE b
AtMost(a, b) == IF a <= b THEN a ELSE b

RoomBelow(trigger, viewport) == viewport.height - trigger.bottom - Margin
RoomAbove(trigger) == trigger.top - Margin
Placement(trigger, menu, viewport, preferred) ==
  IF preferred # "auto" THEN preferred
  ELSE IF \/ RoomBelow(trigger, viewport) >= menu.height + Gap
          \/ RoomBelow(trigger, viewport) >= RoomAbove(trigger)
    THEN "bottom" ELSE "top"

\* A position kept between the margins, the first margin where it cannot be both.
Clamp(at, size, room) == AtMost(AtLeast(Margin, at), AtLeast(Margin, room - size - Margin))

PositionSelectMenu(trigger, menu, viewport, preferred) ==
  LET desired == IF Placement(trigger, menu, viewport, preferred) = "top"
                   THEN trigger.top - menu.height - Gap ELSE trigger.bottom + Gap
  IN [left |-> Clamp(trigger.left, menu.width, viewport.width),
      top |-> Clamp(desired, menu.height, viewport.height)]

----------------------------------------------------------------------------
(* Properties *)

\* What may be chosen: the composer starts or switches sessions, a session's record
\* arrives (with what an earlier message of it was sent with), or a menu picks.
After(models, choice) ==
  LET state == ModelControlState("ready", models, choice)
      Picks(menu) == UNION {Choose(menu, i) : i \in DOMAIN menu}
  IN {NoChoice} \cup SentChoice("ready", models, choice)
     \cup {OnModelChange(models, choice, id) : id \in Picks(ModelMenu(state))}
     \cup {[choice EXCEPT !.effort = e] : e \in Picks(EffortMenu(state))}

Reached(models, n) ==
  LET Within[k \in 0..n] ==
        IF k = 0 THEN {NoChoice} ELSE Within[k - 1] \cup UNION {After(models, c) : c \in Within[k - 1]}
  IN Within[n]

\* After any picks, what a message is sent with is what the two menus show, and nothing
\* is sent without a catalogue (Composer.tsx 190: "Drop an effort the new model doesn't
\* support"; modelControls.ts 12: "without pretending old daemons support it").  Records
\* made with another catalogue are not among these choices.
SentIsShown(models, n) ==
  \A c \in Reached(models, n) :
    /\ SentChoice(CatalogStatus(models), models, c) = IF models = <<>> THEN {} ELSE {ShownChoice(models, c)}
    /\ \A status \in {"idle", "loading"} : SentChoice(status, models, c) = {}

\* However the menu is opened, the arrows alone reach each option that can be chosen,
\* and what is chosen is what is highlighted (SelectMenu.tsx 64 and 110).
MenuReachesAll(options) ==
  \A value \in {o.value : o \in Range(options)}, open \in {"click", "ArrowUp"}, key \in {"ArrowUp", "ArrowDown"} :
    LET Active[k \in 0..Len(options)] ==
          IF k = 0 THEN Show(options, value, open) ELSE Move(options, Active[k - 1], key)
    IN {o.value : o \in {o \in Range(options) : ~o.disabled}}
         = UNION {Choose(options, Active[k]) : k \in 0..Len(options)}

\* These are functions of the catalogue and of the picks, whatever else the composer
\* does: they are evaluated where the app starts.
Starting == current = None /\ leaves = 0

\* Whatever the catalogue and the picks, the menus show what is sent, and their keys reach
\* all they offer (Composer.tsx 190, SelectMenu.tsx 64).
PicksAreSent ==
  Starting => /\ \A models \in Catalogues : SentIsShown(models, MaxPicks)
              /\ \A options \in Menus : MenuReachesAll(options)
=============================================================================
