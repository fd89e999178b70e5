--------------------------- MODULE ComposerProofs ---------------------------
(***************************************************************************)
(* What was typed for a session and not sent, and what was attached in it, *)
(* stays that session's draft, and the URLs not revoked are those of the   *)
(* images attached and not sent yet, for any sessions, images and texts,   *)
(* but for the races that clashes names; and a menu of any size opens on   *)
(* the screen in a window of any size if it fits there, and clear of its   *)
(* trigger if there is room.  Why a released URL is nobody else's: an      *)
(* image is in one place.                                                  *)
(*                                                                         *)
(* Of any catalogue, whatever was picked fits what is offered: that is why *)
(* what is shown is sent.  In a menu of any length an arrow goes round, to *)
(* the next option that is enabled: that is why the keys reach them all.   *)
(***************************************************************************)
EXTENDS ModelControls, SequenceTheorems, WellFoundedInduction, TLAPS

IInv == TypeOK /\ DraftsAreKept

LEMMA ComposerInit == Init => IInv
<1> SUFFICES ASSUME Init PROVE IInv
  OBVIOUS
<1>1. 0 \in 0..MaxLeaves /\ frame \in Frames
  BY ComposerAssumption DEF ComposerAssumption, Init, Blank, Frames
<1>2. TypeOK
  BY <1>1 DEF Init, TypeOK, Kinds
<1>3. DraftsAreKept
  BY DEF Init, DraftsAreKept, Mounted, Belong
<1>4. QED
  BY <1>2, <1>3 DEF IInv

\* A race that is met is remembered.
LEMMA RacesRemembered ==
  ASSUME TypeOK, NEW kinds, kinds \subseteq Kinds, Clash(kinds)
  PROVE  clashes' \in SUBSET Kinds /\ clashes \subseteq clashes' /\ kinds \subseteq clashes'
  BY DEF Clash, TypeOK

LEMMA StaleRemembered ==
  ASSUME TypeOK, ClashIfStale
  PROVE  /\ clashes' \in SUBSET Kinds /\ clashes \subseteq clashes'
         /\ clashes' = {} => images = frame.images
<1> DEFINE kinds == IF Stale THEN {"stale render"} ELSE {}
<1>1. kinds \subseteq Kinds /\ Clash(kinds)
  BY DEF ClashIfStale, Kinds
<1>2. clashes' \in SUBSET Kinds /\ clashes \subseteq clashes' /\ kinds \subseteq clashes'
  BY <1>1, RacesRemembered
<1>3. QED
  BY <1>2 DEF Stale

\* What reading goes on with, and what it stages when it is done.
LEMMA StageRemembers ==
  ASSUME TypeOK, NEW f \in reads, NEW ready \in SUBSET Images, Stage(f, ready)
  PROVE  /\ clashes' \in SUBSET Kinds /\ clashes \subseteq clashes'
         /\ clashes' = {} => /\ f.refs = None /\ images = frame.images
                             /\ \A i \in ready : home[i] = current
<1> DEFINE at == IF f.refs = None THEN current ELSE f.refs.session
           moved == IF \E i \in ready : home[i] # at THEN {"moved"} ELSE {}
           stale == IF f.refs = None /\ Stale THEN {"stale render"} ELSE {}
           left == IF f.refs # None THEN {"unmounted"} ELSE {}
<1>1. Clash(moved \cup stale \cup left)
  BY DEF Stage
<1>2. moved \cup stale \cup left \subseteq Kinds
  BY DEF Kinds
<1>3. /\ clashes' \in SUBSET Kinds /\ clashes \subseteq clashes'
      /\ moved \cup stale \cup left \subseteq clashes'
  <2> HIDE DEF moved, stale, left
  <2>1. QED
    BY <1>1, <1>2, RacesRemembered
<1>4. ASSUME clashes' = {}
      PROVE f.refs = None /\ images = frame.images /\ \A i \in ready : home[i] = current
  <2>1. f.refs = None
    BY <1>3, <1>4
  <2>2. QED
    BY <1>3, <1>4, <2>1 DEF Stale
<1>5. QED
  BY <1>3, <1>4

LEMMA StageKeeps ==
  ASSUME IInv, NEW f \in reads, NEW ready \in SUBSET Images, Stage(f, ready),
         UNCHANGED <<current, text, frame, sending, controls, texts, sends, home, intended, leaves>>,
         urls' \in SUBSET Images
  PROVE  IInv'
<1> DEFINE base == IF f.refs = None THEN frame.images ELSE f.refs.images
           at == IF f.refs = None THEN current ELSE f.refs.session
<1>1. base \cup ready \in SUBSET Images
  BY DEF IInv, TypeOK, Refs, Frames
<1>2. /\ reads' = reads \ {f} /\ parked' = [parked EXCEPT ![at] = base \cup ready]
      /\ images' = IF f.refs = None THEN base \cup ready ELSE images
  BY DEF Stage, SaveImageDraft
<1>3. /\ clashes' \in SUBSET Kinds /\ clashes \subseteq clashes'
      /\ clashes' = {} => /\ f.refs = None /\ images = frame.images
                          /\ \A i \in ready : home[i] = current
  BY StageRemembers DEF IInv
<1> HIDE DEF base, at
<1>4. parked' \in [Sessions -> SUBSET Images] /\ images' \in SUBSET Images
  BY <1>1, <1>2 DEF IInv, TypeOK
<1>5. TypeOK'
  BY <1>2, <1>3, <1>4 DEF IInv, TypeOK, controls
<1>6. DraftsAreKept'
  <2> SUFFICES ASSUME clashes' = {}
               PROVE  /\ texts' = intended'
                      /\ Mounted' => /\ text' = texts'[current'] /\ images' = parked'[current']
                                     /\ pick' \in {None, current'}
                      /\ \A s \in Sessions : \A i \in parked'[s] : home'[i] = s
                      /\ \A g \in sends' : (\A i \in g.images : home'[i] = g.to) /\ g.pick \in {None, g.to}
    BY DEF DraftsAreKept, Belong
  <2>1. /\ clashes = {} /\ at = current /\ base = images /\ images' = base \cup ready
        /\ \A i \in ready : home[i] = current
    BY <1>2, <1>3 DEF base, at
  <2>2. /\ texts = intended
        /\ Mounted => text = texts[current] /\ images = parked[current] /\ pick \in {None, current}
        /\ \A s \in Sessions : \A i \in parked[s] : home[i] = s
        /\ \A g \in sends : (\A i \in g.images : home[i] = g.to) /\ g.pick \in {None, g.to}
    BY <2>1 DEF IInv, DraftsAreKept, Belong
  <2>3. CASE Mounted
    <3>1. current \in Sessions /\ base = parked[current]
      BY <2>1, <2>2, <2>3 DEF Mounted, IInv, TypeOK
    <3>2. parked'[current] = parked[current] \cup ready /\ \A s \in Sessions \ {current} : parked'[s] = parked[s]
      BY <1>2, <2>1, <3>1 DEF IInv, TypeOK
    <3>3. \A s \in Sessions : \A i \in parked'[s] : home[i] = s
      BY <2>1, <2>2, <3>2
    <3>4. QED
      BY <2>1, <2>2, <3>1, <3>2, <3>3 DEF controls, Mounted
  <2>4. CASE ~Mounted
    <3>1. parked' = parked
      BY <1>2, <2>1, <2>4, ComposerAssumption DEF Mounted, ComposerAssumption, IInv, TypeOK
    <3>2. QED
      BY <2>2, <2>4, <3>1 DEF controls, Mounted
  <2>5. QED
    BY <2>3, <2>4
<1>7. QED
  BY <1>5, <1>6 DEF IInv

LEMMA GoOnKeeps ==
  ASSUME IInv, NEW f \in reads, NEW left \in SUBSET Images, NEW ready \in SUBSET Images,
         GoOn(f, left, ready),
         UNCHANGED <<current, text, frame, sending, controls, texts, sends, home, intended, leaves>>,
         urls' \in SUBSET Images
  PROVE  IInv'
<1>1. CASE left # {}
  <2> DEFINE next == [f EXCEPT !.left = left, !.ready = ready]
  <2>1. next \in [left : SUBSET Images, ready : SUBSET Images, refs : Refs \cup {None}]
    BY DEF IInv, TypeOK
  <2>2. reads' = (reads \ {f}) \cup {next} /\ UNCHANGED <<images, parked, clashes>>
    BY <1>1 DEF GoOn
  <2> HIDE DEF next
  <2>3. TypeOK'
    BY <2>1, <2>2 DEF IInv, TypeOK, controls
  <2>4. DraftsAreKept'
    BY <2>2 DEF IInv, DraftsAreKept, Belong, Mounted, controls
  <2>5. QED
    BY <2>3, <2>4 DEF IInv
<1>2. CASE left = {} /\ ready # {}
  BY <1>2, StageKeeps DEF GoOn
<1>3. CASE left = {} /\ ready = {}
  <2>1. reads' = reads \ {f} /\ UNCHANGED <<images, parked, clashes>>
    BY <1>3 DEF GoOn
  <2>2. TypeOK'
    BY <2>1 DEF IInv, TypeOK, controls
  <2>3. DraftsAreKept'
    BY <2>1 DEF IInv, DraftsAreKept, Belong, Mounted, controls
  <2>4. QED
    BY <2>2, <2>3 DEF IInv
<1>4. QED
  BY <1>1, <1>2, <1>3

\* A draft that is put back is the session's, and on screen only there.
LEMMA NotSentKeeps ==
  ASSUME IInv, NEW f \in sends, NotSent(f) PROVE IInv'
<1>1. /\ f.to \in Sessions /\ f.text \in Texts \cup {NoText} /\ f.images \in SUBSET Images
      /\ f.refs \in Refs \cup {None}
  BY DEF IInv, TypeOK
<1>2. /\ sends' \subseteq sends
      /\ texts' = [texts EXCEPT ![f.to] = f.text] /\ parked' = [parked EXCEPT ![f.to] = f.images]
      /\ intended' = [intended EXCEPT ![f.to] = IF @ = NoText THEN f.text ELSE @]
      /\ UNCHANGED <<current, frame, meta, pick, urls, reads, home, leaves>>
  BY DEF NotSent, SaveImageDraft, controls
<1>3. /\ text' = IF Restores(f) THEN f.text ELSE text
      /\ images' = IF Restores(f) THEN f.images ELSE images
      /\ sending' = IF f.refs = None THEN "ended" ELSE sending
  BY DEF NotSent, Ended
<1>4. /\ clashes' \in SUBSET Kinds /\ clashes \subseteq clashes'
      /\ clashes' = {} => /\ intended[f.to] = NoText
                          /\ ~(f.refs # None /\ current = f.to)
  <2> DEFINE typed == IF intended[f.to] # NoText \/ parked[f.to] # {} THEN {"typed over"} ELSE {}
             left == IF f.refs # None /\ current = f.to THEN {"unmounted"} ELSE {}
  <2>1. clashes' = clashes \cup (typed \cup left)
    BY DEF NotSent, Clash
  <2>2. QED
    BY <2>1 DEF IInv, TypeOK, Kinds
<1>5. TypeOK'
  BY <1>1, <1>2, <1>3, <1>4 DEF IInv, TypeOK
<1>6. DraftsAreKept'
  <2> SUFFICES ASSUME clashes' = {}
               PROVE  /\ texts' = intended'
                      /\ Mounted' => /\ text' = texts'[current'] /\ images' = parked'[current']
                                     /\ pick' \in {None, current'}
                      /\ \A s \in Sessions : \A i \in parked'[s] : home'[i] = s
                      /\ \A g \in sends' : (\A i \in g.images : home'[i] = g.to) /\ g.pick \in {None, g.to}
    BY DEF DraftsAreKept, Belong
  <2>1. /\ clashes = {} /\ texts = intended /\ intended[f.to] = NoText
        /\ ~(f.refs # None /\ current = f.to)
        /\ Mounted => text = texts[current] /\ images = parked[current] /\ pick \in {None, current}
        /\ \A s \in Sessions : \A i \in parked[s] : home[i] = s
        /\ \A g \in sends : (\A i \in g.images : home[i] = g.to) /\ g.pick \in {None, g.to}
    BY <1>4 DEF IInv, DraftsAreKept, Belong
  <2>2. texts' = intended'
    BY <1>2, <2>1 DEF IInv, TypeOK
  <2>3. ASSUME Mounted' PROVE text' = texts'[current'] /\ images' = parked'[current'] /\ pick' \in {None, current'}
    <3>1. Mounted /\ current' = current /\ current \in Sessions /\ pick' = pick
      BY <2>3, <1>2 DEF Mounted, IInv, TypeOK
    <3>2. CASE current = f.to
      BY <3>1, <3>2, <1>1, <1>2, <1>3, <2>1 DEF Restores, IInv, TypeOK
    <3>3. CASE current # f.to
      BY <3>1, <3>3, <1>1, <1>2, <1>3, <2>1 DEF Restores, IInv, TypeOK
    <3>4. QED
      BY <3>2, <3>3
  <2>4. \A s \in Sessions : \A i \in parked'[s] : home'[i] = s
    BY <1>1, <1>2, <2>1 DEF IInv, TypeOK
  <2>5. QED
    BY <1>2, <2>1, <2>2, <2>3, <2>4
<1>7. QED
  BY <1>5, <1>6 DEF IInv

\* A composer that is left hands its refs to what it awaits.
LEMMA LeaveKeeps ==
  ASSUME IInv, Leave PROVE IInv'
<1> DEFINE refs == [session |-> current, images |-> frame.images]
           Adrift(f) == IF f.refs = None THEN [f EXCEPT !.refs = refs] ELSE f
           Reads == [left : SUBSET Images, ready : SUBSET Images, refs : Refs \cup {None}]
           Sends == [to : Sessions, text : Texts \cup {NoText}, images : SUBSET Images,
                     pick : Sessions \cup {None}, refs : Refs \cup {None}]
<1>1. /\ current \in Sessions /\ refs \in Refs /\ current' = None /\ frame.images \in SUBSET Images
      /\ reads' = {Adrift(f) : f \in reads} /\ sends' = {Adrift(f) : f \in sends}
  BY DEF Leave, Mounted, Refs, IInv, TypeOK, Frames
<1> HIDE DEF refs
<1>2. ASSUME NEW f \in reads PROVE Adrift(f) \in Reads
  BY <1>1 DEF IInv, TypeOK
<1>3. ASSUME NEW f \in sends
      PROVE Adrift(f) \in Sends /\ Adrift(f).images = f.images /\ Adrift(f).to = f.to /\ Adrift(f).pick = f.pick
  BY <1>1 DEF IInv, TypeOK
<1> HIDE DEF Adrift
<1>4. /\ clashes' \in SUBSET Kinds /\ leaves' \in 0..MaxLeaves /\ clashes \subseteq clashes'
      /\ clashes' = {} => images = frame.images
  <2>1. leaves \in 0..MaxLeaves /\ leaves < MaxLeaves /\ leaves' = leaves + 1
    BY DEF Leave, IInv, TypeOK
  <2>2. leaves' \in 0..MaxLeaves
    BY <2>1, ComposerAssumption DEF ComposerAssumption
  <2>3. QED
    BY <2>2, StaleRemembered DEF Leave, IInv
<1>5. /\ text' = NoText /\ images' = {} /\ frame' = Blank /\ sending' = "no"
      /\ meta' = FALSE /\ pick' = None /\ UNCHANGED <<texts, urls, home, intended>>
      /\ parked' = [parked EXCEPT ![current] = frame.images]
  BY DEF Leave, SaveImageDraft
<1>6. TypeOK'
  <2>1. parked' \in [Sessions -> SUBSET Images] /\ frame' \in Frames
    BY <1>5, <1>1 DEF IInv, TypeOK, Frames, Blank
  <2>2. reads' \subseteq Reads
    BY <1>1, <1>2
  <2>3. sends' \subseteq Sends
    BY <1>1, <1>3
  <2>4. QED
    BY <1>1, <1>4, <1>5, <2>1, <2>2, <2>3 DEF IInv, TypeOK
<1>7. DraftsAreKept'
  <2> SUFFICES ASSUME clashes' = {}
               PROVE  /\ texts' = intended' /\ ~Mounted'
                      /\ \A s \in Sessions : \A i \in parked'[s] : home'[i] = s
                      /\ \A g \in sends' : (\A i \in g.images : home'[i] = g.to) /\ g.pick \in {None, g.to}
    BY DEF DraftsAreKept, Belong
  <2>1. /\ texts = intended /\ images = parked[current] /\ images = frame.images
        /\ \A s \in Sessions : \A i \in parked[s] : home[i] = s
        /\ \A g \in sends : (\A i \in g.images : home[i] = g.to) /\ g.pick \in {None, g.to}
    BY <1>4 DEF IInv, DraftsAreKept, Belong, Leave
  <2>2. parked' = parked
    BY <1>1, <1>5, <2>1 DEF IInv, TypeOK
  <2>3. \A g \in sends' : (\A i \in g.images : home'[i] = g.to) /\ g.pick \in {None, g.to}
    BY <1>1, <1>3, <1>5, <2>1
  <2>4. QED
    BY <1>1, <1>5, <2>1, <2>2, <2>3 DEF Mounted
<1>8. QED
  BY <1>6, <1>7 DEF IInv

\* What a key sends or removes is of the open session once its draft is rendered.
LEMMA SubmitKeeps ==
  ASSUME IInv, Submit PROVE IInv'
<1> DEFINE new == [to |-> current, text |-> frame.text, images |-> frame.images,
                   pick |-> frame.pick, refs |-> None]
<1>1. current \in Sessions /\ UNCHANGED <<current, meta, pick, urls, reads, home, leaves>>
  BY DEF Submit, Mounted, IInv, TypeOK, controls
<1>2. /\ text' = NoText /\ images' = {} /\ sending' = "yes" /\ sends' = sends \cup {new}
      /\ frame' = [frame EXCEPT !.text = NoText, !.images = {}]
      /\ texts' = [texts EXCEPT ![current] = NoText]
      /\ intended' = [intended EXCEPT ![current] = NoText]
      /\ parked' = [parked EXCEPT ![current] = {}]
  BY DEF Submit, SaveImageDraft
<1>3. new \in [to : Sessions, text : Texts \cup {NoText}, images : SUBSET Images,
               pick : Sessions \cup {None}, refs : Refs \cup {None}]
  BY <1>1 DEF IInv, TypeOK, Frames
<1>4. new.to = current /\ new.images = frame.images /\ new.pick = frame.pick
  OBVIOUS
<1> HIDE DEF new
<1>5. /\ clashes' \in SUBSET Kinds /\ clashes \subseteq clashes'
      /\ clashes' = {} => images = frame.images /\ frame.pick \in {None, current}
  <2> DEFINE kinds == IF Outdated THEN {"stale render"} ELSE {}
  <2>1. kinds \subseteq Kinds /\ Clash(kinds)
    BY DEF Submit, Kinds
  <2>2. clashes' \in SUBSET Kinds /\ clashes \subseteq clashes' /\ kinds \subseteq clashes'
    BY <2>1, RacesRemembered DEF IInv
  <2>3. QED
    BY <2>2 DEF Outdated, Stale
<1>6. frame' \in Frames
  BY <1>2 DEF IInv, TypeOK, Frames
<1>7. TypeOK'
  BY <1>1, <1>2, <1>3, <1>5, <1>6 DEF IInv, TypeOK
<1>8. DraftsAreKept'
  <2> SUFFICES ASSUME clashes' = {}
               PROVE  /\ texts' = intended'
                      /\ text' = texts'[current'] /\ images' = parked'[current'] /\ pick' \in {None, current'}
                      /\ \A s \in Sessions : \A i \in parked'[s] : home'[i] = s
                      /\ \A g \in sends' : (\A i \in g.images : home'[i] = g.to) /\ g.pick \in {None, g.to}
    BY DEF DraftsAreKept, Belong
  <2>1. /\ texts = intended /\ images = parked[current] /\ images = frame.images
        /\ pick \in {None, current} /\ frame.pick \in {None, current}
        /\ \A s \in Sessions : \A i \in parked[s] : home[i] = s
        /\ \A g \in sends : (\A i \in g.images : home[i] = g.to) /\ g.pick \in {None, g.to}
    BY <1>5 DEF IInv, DraftsAreKept, Belong, Submit
  <2>2. (\A i \in new.images : home[i] = new.to) /\ new.pick \in {None, new.to}
    <3>1. \A i \in parked[current] : home[i] = current
      BY <1>1, <2>1
    <3>2. new.images = parked[current]
      BY <1>4, <2>1
    <3>3. QED
      BY <1>4, <2>1, <3>1, <3>2
  <2>3. texts' = intended' /\ text' = texts'[current] /\ images' = parked'[current]
    BY <1>1, <1>2, <2>1 DEF IInv, TypeOK
  <2>4. \A s \in Sessions : \A i \in parked'[s] : home[i] = s
    BY <1>1, <1>2, <2>1 DEF IInv, TypeOK
  <2>5. QED
    BY <1>1, <1>2, <2>1, <2>2, <2>3, <2>4
<1>9. QED
  BY <1>7, <1>8 DEF IInv

LEMMA RemoveKeeps ==
  ASSUME IInv, NEW i \in Images, RemoveImage(i) PROVE IInv'
<1> DEFINE next == frame.images \ {i}
<1>1. /\ current \in Sessions /\ images' = next /\ frame' = [frame EXCEPT !.images = next]
      /\ parked' = [parked EXCEPT ![current] = next] /\ urls' = urls \ {i}
      /\ UNCHANGED <<current, text, sending, meta, pick, texts, reads, sends, home, intended, leaves>>
  BY DEF RemoveImage, SetImages, SaveImageDraft, Mounted, IInv, TypeOK, controls, awaits
<1>2. /\ clashes' \in SUBSET Kinds /\ clashes \subseteq clashes'
      /\ clashes' = {} => images = frame.images
  BY StaleRemembered DEF RemoveImage, IInv
<1>3. next \in SUBSET Images /\ frame' \in Frames
  BY <1>1 DEF IInv, TypeOK, Frames
<1>4. TypeOK'
  BY <1>1, <1>2, <1>3 DEF IInv, TypeOK
<1>5. DraftsAreKept'
  <2> SUFFICES ASSUME clashes' = {}
               PROVE  /\ texts' = intended'
                      /\ text' = texts'[current'] /\ images' = parked'[current'] /\ pick' \in {None, current'}
                      /\ \A s \in Sessions : \A j \in parked'[s] : home'[j] = s
                      /\ \A g \in sends' : (\A j \in g.images : home'[j] = g.to) /\ g.pick \in {None, g.to}
    BY DEF DraftsAreKept, Belong
  <2>1. /\ texts = intended /\ images = parked[current] /\ images = frame.images
        /\ text = texts[current] /\ pick \in {None, current}
        /\ \A s \in Sessions : \A j \in parked[s] : home[j] = s
        /\ \A g \in sends : (\A j \in g.images : home[j] = g.to) /\ g.pick \in {None, g.to}
    BY <1>2 DEF IInv, DraftsAreKept, Belong, RemoveImage
  <2>2. \A s \in Sessions : \A j \in parked'[s] : home[j] = s
    BY <1>1, <2>1 DEF IInv, TypeOK
  <2>3. images' = parked'[current]
    BY <1>1 DEF IInv, TypeOK
  <2>4. QED
    BY <1>1, <2>1, <2>2, <2>3
<1>6. QED
  BY <1>4, <1>5 DEF IInv

\* A file is attached once: what is staged or sent keeps its home.
LEMMA AddKeeps ==
  ASSUME IInv, NEW batch \in SUBSET Images, AddFiles(batch) PROVE IInv'
<1> DEFINE new == [left |-> batch, ready |-> {}, refs |-> None]
<1>1. /\ current \in Sessions /\ reads' = reads \cup {new} /\ \A i \in batch : home[i] = None
      /\ home' = [i \in Images |-> IF i \in batch THEN current ELSE home[i]]
      /\ UNCHANGED <<current, text, images, frame, sending, meta, pick, texts, parked, urls, sends, intended, clashes, leaves>>
  BY DEF AddFiles, Mounted, IInv, TypeOK, controls, drafts
<1>2. new \in [left : SUBSET Images, ready : SUBSET Images, refs : Refs \cup {None}]
  OBVIOUS
<1> HIDE DEF new
<1>3. home' \in [Images -> Sessions \cup {None}]
  BY <1>1 DEF IInv, TypeOK
<1>4. TypeOK'
  BY <1>1, <1>2, <1>3 DEF IInv, TypeOK
<1>5. ASSUME NEW i \in Images, NEW s \in Sessions, home[i] = s PROVE home'[i] = s
  BY <1>1, <1>5, ComposerAssumption DEF ComposerAssumption
<1>6. DraftsAreKept'
  <2> SUFFICES ASSUME clashes' = {}
               PROVE  /\ texts' = intended'
                      /\ text' = texts'[current'] /\ images' = parked'[current'] /\ pick' \in {None, current'}
                      /\ \A s \in Sessions : \A j \in parked'[s] : home'[j] = s
                      /\ \A g \in sends' : (\A j \in g.images : home'[j] = g.to) /\ g.pick \in {None, g.to}
    BY DEF DraftsAreKept, Belong
  <2>1. /\ texts = intended /\ images = parked[current]
        /\ text = texts[current] /\ pick \in {None, current}
        /\ \A s \in Sessions : \A j \in parked[s] : home[j] = s
        /\ \A g \in sends : (\A j \in g.images : home[j] = g.to) /\ g.pick \in {None, g.to}
    BY <1>1 DEF IInv, DraftsAreKept, Belong, AddFiles
  <2>2. ASSUME NEW s \in Sessions, NEW j \in parked[s] PROVE home'[j] = s
    BY <1>5, <2>1 DEF IInv, TypeOK
  <2>3. ASSUME NEW g \in sends, NEW j \in g.images PROVE home'[j] = g.to
    BY <1>5, <2>1 DEF IInv, TypeOK
  <2>4. QED
    BY <1>1, <2>1, <2>2, <2>3
<1>7. QED
  BY <1>4, <1>6 DEF IInv

LEMMA ComposerStep == IInv /\ [Next]_vars => IInv'
<1> SUFFICES ASSUME IInv, [Next]_vars PROVE IInv'
  OBVIOUS
<1> USE ComposerAssumption DEF ComposerAssumption, IInv, TypeOK, DraftsAreKept, Mounted, Belong
<1> USE DEF controls, drafts, awaits, observed
<1>1. ASSUME NEW s \in Sessions, Open(s) PROVE IInv'
  <2>1. /\ current' = s /\ text' = texts[s] /\ images' = parked[s]
        /\ sending' \in {"no", sending} /\ meta' = FALSE /\ pick' = None
        /\ UNCHANGED <<frame, texts, parked, urls, reads, sends, home, intended, clashes, leaves>>
    BY <1>1 DEF Open
  <2>2. texts[s] \in Texts \cup {NoText} /\ parked[s] \in SUBSET Images
    OBVIOUS
  <2>3. TypeOK'
    BY <2>1, <2>2
  <2>4. DraftsAreKept'
    BY <2>1, <2>2
  <2>5. QED
    BY <2>3, <2>4
<1>2. CASE Leave
  BY <1>2, LeaveKeeps
<1>3. ASSUME NEW t \in Texts \cup {NoText}, Type(t) PROVE IInv'
  <2>1. /\ texts' = [texts EXCEPT ![current] = t] /\ text' = t /\ current \in Sessions
        /\ intended' = [intended EXCEPT ![current] = t] /\ frame' = [frame EXCEPT !.text = t]
        /\ UNCHANGED <<current, images, sending, meta, pick, parked, urls, reads, sends, home, clashes, leaves>>
    BY <1>3 DEF Type
  <2>2. texts' \in [Sessions -> Texts \cup {NoText}] /\ frame' \in Frames
    BY <2>1 DEF Frames
  <2>3. TypeOK'
    BY <2>1, <2>2
  <2>4. DraftsAreKept'
    BY <2>1
  <2>5. QED
    BY <2>3, <2>4
<1>4. CASE PickModel
  <2>1. /\ pick' = current /\ current \in Sessions /\ frame' = [frame EXCEPT !.pick = current]
        /\ UNCHANGED <<current, text, images, sending, meta, texts, parked, urls, reads, sends, home, intended, clashes, leaves>>
    BY <1>4 DEF PickModel
  <2>2. frame' \in Frames
    BY <2>1 DEF Frames
  <2>3. TypeOK'
    BY <2>1, <2>2
  <2>4. DraftsAreKept'
    BY <2>1
  <2>5. QED
    BY <2>3, <2>4
<1>5. ASSUME NEW batch \in SUBSET Images, AddFiles(batch) PROVE IInv'
  BY <1>5, AddKeeps
<1>6. ASSUME NEW i \in Images, RemoveImage(i) PROVE IInv'
  BY <1>6, RemoveKeeps
<1>7. CASE Submit
  BY <1>7, SubmitKeeps
<1>8. CASE MetaArrives
  BY <1>8 DEF MetaArrives
<1>9. CASE Render
  <2>1. /\ frame' = Newest /\ sending' \in {"no", sending}
        /\ UNCHANGED <<current, text, images, meta, pick, texts, parked, urls, reads, sends, home, intended, clashes, leaves>>
    BY <1>9 DEF Render
  <2>2. Newest \in Frames
    BY DEF Newest, Frames
  <2>3. TypeOK'
    BY <2>1, <2>2
  <2>4. DraftsAreKept'
    BY <2>1
  <2>5. QED
    BY <2>3, <2>4
<1>10. ASSUME NEW i \in Images, NEW f \in reads, FileRead(f, i) PROVE IInv'
  <2>1. f.left \ {i} \in SUBSET Images /\ f.ready \cup {i} \in SUBSET Images /\ urls' \in SUBSET Images
    BY <1>10 DEF FileRead
  <2>2. QED
    BY <1>10, <2>1, GoOnKeeps DEF FileRead
<1>11. ASSUME NEW i \in Images, NEW f \in reads, FileUnreadable(f, i) PROVE IInv'
  <2>1. f.left \ {i} \in SUBSET Images /\ f.ready \in SUBSET Images /\ urls' \in SUBSET Images
    BY <1>11 DEF FileUnreadable
  <2>2. QED
    BY <1>11, <2>1, GoOnKeeps DEF FileUnreadable
<1>12. ASSUME NEW f \in sends, Sent(f) PROVE IInv'
  <2>1. /\ sends' \subseteq sends /\ urls' \subseteq urls /\ sending' \in {"ended", sending}
        /\ UNCHANGED <<current, text, images, frame, meta, pick, texts, parked, reads, home, intended, clashes, leaves>>
    BY <1>12 DEF Sent, Ended
  <2>2. TypeOK'
    BY <2>1
  <2>3. DraftsAreKept'
    BY <2>1
  <2>4. QED
    BY <2>2, <2>3
<1>13. ASSUME NEW f \in sends, NotSent(f) PROVE IInv'
  BY <1>13, NotSentKeeps
<1>14. CASE UNCHANGED vars
  BY <1>14 DEF vars
<1>15. QED
  BY <1>1, <1>2, <1>3, <1>4, <1>5, <1>6, <1>7, <1>8, <1>9, <1>10, <1>11, <1>12, <1>13, <1>14
     DEF Next

\* Whatever is read, sent or left meanwhile, a draft, its images included, is its session's,
\* the one on screen the open session's, and what goes out what was made for it, but for
\* the four races (Composer.tsx 30-45, 101-241).
THEOREM DraftsStayKept == Spec => []DraftsAreKept
<1>1. IInv => DraftsAreKept
  BY DEF IInv
<1>2. QED
  BY ComposerInit, ComposerStep, <1>1, PTL DEF Spec

----------------------------------------------------------------------------
(* The thumbnails *)

\* Every image is in one place: it is left to be read, or its URL is not revoked and it
\* waits for the files attached with it, is staged in one session or goes out with one
\* message.  Only a mounted composer reads files without refs.
Staged(i) == \E s \in Sessions : i \in parked[s]
Going(i) == \E f \in sends : i \in f.images
Waiting(i) == \E f \in reads : i \in f.ready
Held(f) == f.left \cup f.ready
Apart ==
  /\ \A i : i \in urls <=> Staged(i) \/ Going(i) \/ Waiting(i)
  /\ \A i : \A s, t \in Sessions : i \in parked[s] /\ i \in parked[t] => s = t
  /\ \A i : \A f, g \in sends : i \in f.images /\ i \in g.images => f = g
  /\ \A i : \A f, g \in reads : i \in Held(f) /\ i \in Held(g) => f = g
  /\ \A i : ~(Staged(i) /\ Going(i)) /\ ~(Staged(i) /\ Waiting(i)) /\ ~(Going(i) /\ Waiting(i))
  /\ \A f \in reads : f.left \cap urls = {} /\ (f.refs = None => Mounted)
  /\ \A i \in urls : home[i] # None
  /\ \A f \in reads : \A i \in Held(f) : home[i] # None

UInv == IInv /\ (clashes = {} => Apart)

LEMMA UrlsInit == Init => UInv
<1> SUFFICES ASSUME Init PROVE UInv
  OBVIOUS
<1>1. Apart
  BY DEF Init, Apart, Staged, Going, Waiting
<1>2. QED
  BY <1>1, ComposerInit DEF UInv

\* No step forgets a race.
LEMMA GoOnRemembers ==
  ASSUME TypeOK, NEW f \in reads, NEW left, NEW ready \in SUBSET Images, GoOn(f, left, ready)
  PROVE  clashes \subseteq clashes'
<1>1. CASE left = {} /\ ready # {}
  BY <1>1, StageRemembers DEF GoOn
<1>2. CASE ~(left = {} /\ ready # {})
  BY <1>2 DEF GoOn
<1>3. QED
  BY <1>1, <1>2

LEMMA RacesKept ==
  ASSUME TypeOK, [Next]_vars PROVE clashes \subseteq clashes'
<1> USE DEF observed
<1>1. ASSUME NEW i \in Images, NEW f \in reads, FileRead(f, i) \/ FileUnreadable(f, i)
      PROVE clashes \subseteq clashes'
  <2>1. f.ready \in SUBSET Images /\ f.ready \cup {i} \in SUBSET Images
    BY DEF TypeOK
  <2>2. QED
    BY <1>1, <2>1, GoOnRemembers DEF FileRead, FileUnreadable
<1>2. CASE Leave
  BY <1>2, StaleRemembered DEF Leave
<1>3. ASSUME NEW i \in Images, RemoveImage(i) PROVE clashes \subseteq clashes'
  BY <1>3, StaleRemembered DEF RemoveImage
<1>4. CASE Submit
  BY <1>4 DEF Submit, Clash
<1>5. ASSUME NEW f \in sends, Sent(f) \/ NotSent(f) PROVE clashes \subseteq clashes'
  BY <1>5 DEF Sent, NotSent, Clash
<1>6. ASSUME NEW s \in Sessions, Open(s) PROVE clashes \subseteq clashes'
  BY <1>6 DEF Open
<1>7. ASSUME NEW t \in Texts \cup {NoText}, Type(t) PROVE clashes \subseteq clashes'
  BY <1>7 DEF Type
<1>8. ASSUME NEW batch \in SUBSET Images, AddFiles(batch) PROVE clashes \subseteq clashes'
  BY <1>8 DEF AddFiles
<1>9. CASE PickModel \/ MetaArrives \/ Render \/ UNCHANGED vars
  BY <1>9 DEF PickModel, MetaArrives, Render, vars
<1>10. QED
  BY <1>1, <1>2, <1>3, <1>4, <1>5, <1>6, <1>7, <1>8, <1>9 DEF Next

\* One more file is read or given up; the last one leaves what was read to be staged.
LEMMA ApartGoingOn ==
  ASSUME UInv, clashes = {}, clashes' = {}, NEW f \in reads,
         NEW i \in f.left, NEW ready \in {f.ready, f.ready \cup {i}},
         GoOn(f, f.left \ {i}, ready), urls' = urls \cup (ready \ f.ready),
         UNCHANGED <<current, sends, home>>
  PROVE  Apart'
<1> DEFINE left == f.left \ {i}
           next == [f EXCEPT !.left = left, !.ready = ready]
<1>1. /\ Apart /\ TypeOK /\ f.left \in SUBSET Images /\ f.ready \in SUBSET Images
      /\ f \in [left : SUBSET Images, ready : SUBSET Images, refs : Refs \cup {None}]
      /\ Mounted => current \in Sessions /\ images = parked[current]
  BY DEF UInv, IInv, TypeOK, DraftsAreKept, Mounted
<1>2. /\ next.left = left /\ next.ready = ready /\ next.refs = f.refs
      /\ Held(next) \subseteq Held(f) /\ left \subseteq f.left /\ f.ready \subseteq ready
  BY <1>1 DEF Held
<1>3. /\ i \notin urls /\ ~Staged(i) /\ ~Going(i) /\ ~Waiting(i)
      /\ \A m \in ready : ~Staged(m) /\ ~Going(m) /\ home[m] # None /\ m \in Held(f)
  BY <1>1 DEF Apart, Staged, Going, Waiting, Held
<1>4. \A m \in ready : m \in urls'
  BY <1>1 DEF Apart, Waiting
<1> HIDE DEF next
<1>5. CASE left # {}
  <2>1. reads' = (reads \ {f}) \cup {next} /\ UNCHANGED <<images, parked>>
    BY <1>5 DEF GoOn, next
  <2>2. /\ \A m : Waiting(m)' <=> Waiting(m) \/ m \in ready
        /\ \A m : Staged(m)' <=> Staged(m)
        /\ \A m : Going(m)' <=> Going(m)
    BY <1>2, <2>1 DEF Waiting, Staged, Going
  <2>3. \A m : \A g, h \in reads' : m \in Held(g) /\ m \in Held(h) => g = h
    <3>1. \A m : \A g, h \in reads : m \in Held(g) /\ m \in Held(h) => g = h
      BY <1>1 DEF Apart
    <3>2. \A g \in reads' : g = next \/ (g \in reads /\ g # f)
      BY <2>1
    <3>3. \A m : m \in Held(next) => m \in Held(f)
      BY <1>2
    <3>4. QED
      BY <3>1, <3>2, <3>3
  <2>4. ASSUME NEW g \in reads'
        PROVE  g.left \cap urls' = {} /\ (g.refs = None => Mounted') /\ \A m \in Held(g) : home[m] # None
    <3>1. CASE g = next
      <4>1. left \cap urls' = {}
        BY <1>1, <1>2 DEF Apart
      <4>2. f.refs = None => Mounted'
        BY <1>1 DEF Apart, Mounted
      <4>3. \A m \in Held(f) : home[m] # None
        BY <1>1 DEF Apart
      <4>4. QED
        BY <1>2, <3>1, <4>1, <4>2, <4>3
    <3>2. CASE g \in reads /\ g # f
      <4>1. i \notin g.left /\ i \notin Held(g)
        BY <1>1, <3>2 DEF Apart, Held
      <4>2. QED
        BY <1>1, <3>2, <4>1 DEF Apart, Mounted
    <3>3. QED
      BY <2>1, <3>1, <3>2
  <2>5. \A m : m \in urls' <=> Staged(m)' \/ Going(m)' \/ Waiting(m)'
    BY <1>1, <1>2, <2>2 DEF Apart, Waiting
  <2>6. \A m \in urls' : home'[m] # None
    BY <1>1, <1>3 DEF Apart
  <2>7. \A m : ~(Staged(m)' /\ Going(m)') /\ ~(Staged(m)' /\ Waiting(m)') /\ ~(Going(m)' /\ Waiting(m)')
    BY <1>1, <1>3, <2>2 DEF Apart
  <2>8. QED
    BY <1>1, <2>1, <2>3, <2>4, <2>5, <2>6, <2>7 DEF Apart
<1>6. CASE left = {}
  <2>1. reads' = reads \ {f}
    BY <1>6 DEF GoOn, Stage
  <2>2. /\ \A m : Waiting(m)' <=> Waiting(m) /\ m \notin f.ready
        /\ \A m : Going(m)' <=> Going(m)
    BY <1>1, <2>1 DEF Waiting, Going, Apart, Held
  <2>3. ASSUME NEW g \in reads'
        PROVE  g.left \cap urls' = {} /\ (g.refs = None => Mounted') /\ \A m \in Held(g) : home[m] # None
    <3>1. g \in reads /\ g # f
      BY <2>1
    <3>2. i \notin g.left
      BY <1>1, <3>1 DEF Apart, Held
    <3>3. QED
      BY <1>1, <3>1, <3>2 DEF Apart, Mounted
  <2>4. \A m \in urls' : home'[m] # None
    BY <1>1, <1>3 DEF Apart
  <2>5. \A m : \A g, h \in reads' : m \in Held(g) /\ m \in Held(h) => g = h
    BY <1>1, <2>1 DEF Apart
  <2>6. CASE ready = {}
    <3>1. parked' = parked /\ f.ready = {} /\ urls' = urls
      BY <1>2, <1>6, <2>6 DEF GoOn
    <3>2. /\ \A m : Staged(m)' <=> Staged(m)
          /\ \A m : Waiting(m)' <=> Waiting(m)
      BY <2>2, <3>1 DEF Staged
    <3>3. QED
      BY <1>1, <2>1, <2>2, <2>3, <2>4, <2>5, <3>1, <3>2 DEF Apart
  <2>7. CASE ready # {}
    <3>1. Stage(f, ready)
      BY <1>6, <2>7 DEF GoOn
    <3>2. f.refs = None /\ images = frame.images
      <4>1. ready \in SUBSET Images
        BY <1>1
      <4>2. QED
        BY <1>1, <3>1, <4>1, StageRemembers
    <3>3. current \in Sessions /\ frame.images = parked[current]
      BY <1>1, <3>2 DEF Apart
    <3>4. parked' = [parked EXCEPT ![current] = parked[current] \cup ready]
      BY <3>1, <3>2, <3>3 DEF Stage, SaveImageDraft
    <3>5. /\ parked'[current] = parked[current] \cup ready
          /\ \A s \in Sessions \ {current} : parked'[s] = parked[s]
      BY <1>1, <3>3, <3>4 DEF TypeOK
    <3>6. \A m : Staged(m)' <=> Staged(m) \/ m \in ready
      BY <3>3, <3>5 DEF Staged
    <3>7. \A m : \A s, t \in Sessions : m \in parked'[s] /\ m \in parked'[t] => s = t
      BY <1>1, <1>3, <3>5 DEF Apart, Staged
    <3>8. \A m : m \in urls' <=> Staged(m)' \/ Going(m)' \/ Waiting(m)'
      BY <1>1, <1>2, <2>2, <3>6 DEF Apart, Waiting
    <3>9. \A m : ~(Staged(m)' /\ Going(m)') /\ ~(Staged(m)' /\ Waiting(m)') /\ ~(Going(m)' /\ Waiting(m)')
      <4>1. \A m \in ready : ~Waiting(m)'
        BY <1>3, <2>2
      <4>2. QED
        BY <1>1, <1>3, <2>2, <3>6, <4>1 DEF Apart
    <3>10. QED
      BY <1>1, <2>1, <2>3, <2>4, <2>5, <3>7, <3>8, <3>9 DEF Apart
  <2>8. QED
    BY <2>6, <2>7
<1>7. QED
  BY <1>5, <1>6

LEMMA UrlsStep == UInv /\ [Next]_vars => UInv'
<1> SUFFICES ASSUME UInv, [Next]_vars, clashes' = {} PROVE Apart'
  BY ComposerStep DEF UInv
<1>0. IInv /\ TypeOK /\ parked \in [Sessions -> SUBSET Images]
  BY DEF UInv, IInv, TypeOK
<1> USE DEF controls, drafts, awaits, observed
<1>1. clashes = {}
  BY <1>0, RacesKept
<1>2. /\ Apart /\ texts = intended
      /\ Mounted => current \in Sessions /\ images = parked[current]
  BY <1>0, <1>1 DEF UInv, IInv, DraftsAreKept, Mounted, TypeOK
<1>3. ClashIfStale => frame.images = images
  BY DEF ClashIfStale, Clash, Stale
<1>4. CASE UNCHANGED <<parked, sends, urls, reads, home>> /\ (Mounted => Mounted')
  BY <1>2, <1>4 DEF Apart, Staged, Going, Waiting
<1>5. ASSUME NEW s \in Sessions, Open(s) PROVE Apart'
  BY <1>0, <1>4, <1>5, ComposerAssumption DEF Open, Mounted, ComposerAssumption
<1>6. CASE Leave
  <2> DEFINE refs == [session |-> current, images |-> frame.images]
             Adrift(f) == IF f.refs = None THEN [f EXCEPT !.refs = refs] ELSE f
  <2>1. /\ reads' = {Adrift(f) : f \in reads} /\ sends' = {Adrift(f) : f \in sends}
        /\ parked' = [parked EXCEPT ![current] = frame.images] /\ Mounted
        /\ frame.images = images /\ UNCHANGED <<urls, home>>
    BY <1>3, <1>6 DEF Leave, SaveImageDraft
  <2>2. parked' = parked
    BY <1>0, <1>2, <2>1
  <2>3. refs # None
    <3>1. refs \in Refs
      BY <1>0, <1>2, <2>1 DEF Refs, TypeOK
    <3>2. QED
      BY <3>1, RefsAssumption
  <2>4. ASSUME NEW f \in reads
        PROVE  /\ Adrift(f).left = f.left /\ Adrift(f).ready = f.ready /\ Adrift(f).refs # None
               /\ Held(Adrift(f)) = Held(f)
    <3>1. f \in [left : SUBSET Images, ready : SUBSET Images, refs : Refs \cup {None}]
      BY <1>0 DEF TypeOK
    <3>2. QED
      BY <2>3, <3>1 DEF Held
  <2>5. ASSUME NEW f \in sends PROVE Adrift(f).images = f.images
    BY <1>0 DEF TypeOK
  <2> HIDE DEF Adrift
  <2>6. /\ \A f \in reads' : f.left \cap urls' = {} /\ (f.refs = None => Mounted')
        /\ \A f \in reads' : \A i \in Held(f) : home'[i] # None
        /\ \A i : \A f, g \in reads' : i \in Held(f) /\ i \in Held(g) => f = g
    BY <1>2, <2>1, <2>4 DEF Apart
  <2>7. /\ \A i : Staged(i)' <=> Staged(i)
        /\ \A i : Waiting(i)' <=> Waiting(i)
    BY <2>1, <2>2, <2>4 DEF Staged, Waiting
  <2>8. \A i : Going(i)' <=> Going(i)
    BY <2>1, <2>5 DEF Going
  <2>9. \A i : \A f, g \in sends' : i \in f.images /\ i \in g.images => f = g
    BY <1>2, <2>1, <2>5 DEF Apart
  <2>10. QED
    BY <1>2, <2>1, <2>2, <2>6, <2>7, <2>8, <2>9 DEF Apart
<1>7. ASSUME NEW batch \in SUBSET Images, AddFiles(batch) PROVE Apart'
  <2> DEFINE new == [left |-> batch, ready |-> {}, refs |-> None]
  <2>1. /\ Mounted /\ Mounted' /\ \A i \in batch : home[i] = None
        /\ home' = [i \in Images |-> IF i \in batch THEN current ELSE home[i]]
        /\ reads' = reads \cup {new} /\ UNCHANGED <<parked, urls, sends>>
    BY <1>7 DEF AddFiles, Mounted
  <2>2. new.left = batch /\ new.ready = {} /\ Held(new) = batch
    BY DEF Held
  <2> HIDE DEF new
  <2>3. /\ \A i : Staged(i)' <=> Staged(i)
        /\ \A i : Going(i)' <=> Going(i)
        /\ \A i : Waiting(i)' <=> Waiting(i)
    BY <2>1, <2>2 DEF Staged, Going, Waiting
  <2>4. \A i \in Images : home[i] # None \/ i \in batch => home'[i] # None
    BY <2>1 DEF Mounted
  <2>5. urls \subseteq Images /\ \A f \in reads : Held(f) \subseteq Images
    BY <1>0 DEF TypeOK, Held
  <2>6. \A i \in urls' : home'[i] # None
    BY <1>2, <2>1, <2>4, <2>5 DEF Apart
  <2>7. \A f \in reads' : /\ f.left \cap urls' = {} /\ (f.refs = None => Mounted')
                          /\ \A i \in Held(f) : home'[i] # None
    BY <1>2, <2>1, <2>2, <2>4, <2>5 DEF Apart
  <2>8. \A i : \A f, g \in reads' : i \in Held(f) /\ i \in Held(g) => f = g
    BY <1>2, <2>1, <2>2 DEF Apart
  <2>9. QED
    BY <1>2, <2>1, <2>3, <2>6, <2>7, <2>8 DEF Apart
<1>8. ASSUME NEW i \in Images, RemoveImage(i) PROVE Apart'
  <2>1. /\ Mounted /\ Mounted' /\ i \in frame.images /\ urls' = urls \ {i}
        /\ parked' = [parked EXCEPT ![current] = frame.images \ {i}]
        /\ frame.images = images /\ UNCHANGED <<sends, reads, home>>
    BY <1>3, <1>8 DEF RemoveImage, SaveImageDraft, Mounted
  <2>2. \A s \in Sessions : parked'[s] = parked[s] \ {i}
    BY <1>0, <1>2, <2>1 DEF Apart
  <2>3. ~Going(i) /\ ~Waiting(i)
    BY <1>2, <2>1 DEF Apart, Staged
  <2>4. /\ \A m : Staged(m)' <=> Staged(m) /\ m # i
        /\ \A m : Going(m)' <=> Going(m)
        /\ \A m : Waiting(m)' <=> Waiting(m)
    BY <2>1, <2>2 DEF Staged, Going, Waiting
  <2>5. QED
    BY <1>2, <2>1, <2>2, <2>3, <2>4 DEF Apart
\* What was staged goes out.
<1>9. CASE Submit
  <2> DEFINE new == [to |-> current, text |-> frame.text, images |-> frame.images,
                     pick |-> frame.pick, refs |-> None]
  <2>1. /\ Mounted /\ Mounted' /\ sends' = sends \cup {new} /\ frame.images = parked[current]
        /\ parked' = [parked EXCEPT ![current] = {}] /\ UNCHANGED <<urls, reads, home>>
    BY <1>2, <1>9 DEF Submit, SaveImageDraft, Mounted, Clash, Outdated, Stale
  <2>2. new.images = parked[current]
    BY <2>1
  <2> HIDE DEF new
  <2>3. /\ \A m : Staged(m)' <=> Staged(m) /\ m \notin parked[current]
        /\ \A m : Going(m)' <=> Going(m) \/ m \in parked[current]
        /\ \A m : Waiting(m)' <=> Waiting(m)
        /\ \A m \in parked[current] : Staged(m) /\ ~Going(m) /\ ~Waiting(m)
    BY <1>0, <1>2, <2>1, <2>2 DEF Apart, Staged, Going, Waiting
  <2>4. \A m : \A f, g \in sends' : m \in f.images /\ m \in g.images => f = g
    BY <1>2, <2>1, <2>2, <2>3 DEF Apart, Going
  <2>5. \A m : \A s, t \in Sessions : m \in parked'[s] /\ m \in parked'[t] => s = t
    BY <1>0, <1>2, <2>1 DEF Apart
  <2>6. QED
    BY <1>2, <2>1, <2>3, <2>4, <2>5 DEF Apart
\* What was read is staged.
<1>10. ASSUME NEW i \in Images, NEW f \in reads, FileRead(f, i) PROVE Apart'
  <2>1. /\ i \in f.left /\ urls' = urls \cup {i} /\ GoOn(f, f.left \ {i}, f.ready \cup {i})
        /\ UNCHANGED <<current, sends, home>>
    BY <1>10 DEF FileRead
  <2>2. i \notin f.ready
    BY <1>2, <2>1 DEF Apart, Waiting
  <2>3. urls' = urls \cup ((f.ready \cup {i}) \ f.ready)
    BY <2>1, <2>2
  <2>4. QED
    BY <1>1, <2>1, <2>3, ApartGoingOn
<1>11. ASSUME NEW i \in Images, NEW f \in reads, FileUnreadable(f, i) PROVE Apart'
  <2>1. /\ i \in f.left /\ urls' = urls /\ GoOn(f, f.left \ {i}, f.ready)
        /\ UNCHANGED <<current, sends, home>>
    BY <1>11 DEF FileUnreadable
  <2>2. urls' = urls \cup (f.ready \ f.ready)
    BY <2>1
  <2>3. QED
    BY <1>1, <2>1, <2>2, ApartGoingOn
\* What went out is released, or staged again in the session it was written for, where
\* nothing was staged meanwhile.
<1>12. ASSUME NEW f \in sends, Sent(f) PROVE Apart'
  <2>1. /\ sends' = sends \ {f} /\ urls' = urls \ f.images
        /\ UNCHANGED <<parked, reads, home, current>>
    BY <1>12 DEF Sent
  <2>2. /\ \A m : Staged(m)' <=> Staged(m)
        /\ \A m : Waiting(m)' <=> Waiting(m)
        /\ \A m : Going(m)' <=> Going(m) /\ m \notin f.images
        /\ \A m \in f.images : ~Staged(m) /\ ~Waiting(m)
    BY <1>2, <2>1 DEF Apart, Staged, Going, Waiting
  <2>3. QED
    BY <1>2, <2>1, <2>2 DEF Apart, Mounted
<1>13. ASSUME NEW f \in sends, NotSent(f) PROVE Apart'
  <2>1. /\ sends' = sends \ {f} /\ parked' = [parked EXCEPT ![f.to] = f.images]
        /\ UNCHANGED <<urls, reads, home, current>>
    BY <1>13 DEF NotSent, SaveImageDraft
  <2>2. f.to \in Sessions /\ parked[f.to] = {}
    BY <1>0, <1>13 DEF NotSent, Clash, TypeOK
  <2>3. /\ \A m : Staged(m)' <=> Staged(m) \/ m \in f.images
        /\ \A m : Going(m)' <=> Going(m) /\ m \notin f.images
        /\ \A m : Waiting(m)' <=> Waiting(m)
        /\ \A m \in f.images : ~Staged(m) /\ Going(m) /\ ~Waiting(m)
    BY <1>0, <1>2, <2>1, <2>2 DEF Apart, Staged, Going, Waiting
  <2>4. \A m : \A s, t \in Sessions : m \in parked'[s] /\ m \in parked'[t] => s = t
    BY <1>0, <1>2, <2>1, <2>2, <2>3 DEF Apart, Staged
  <2>5. QED
    BY <1>2, <2>1, <2>3, <2>4 DEF Apart, Mounted
<1>14. CASE \/ \E t \in Texts \cup {NoText} : Type(t)
            \/ Render \/ PickModel \/ MetaArrives \/ UNCHANGED vars
  BY <1>4, <1>14 DEF Type, Render, PickModel, MetaArrives, vars, Mounted
<1>15. QED
  BY <1>5, <1>6, <1>7, <1>8, <1>9, <1>10, <1>11, <1>12, <1>13, <1>14 DEF Next

\* But for the four races, a URL is revoked when its image is removed or its message is
\* sent, and not before (Composer.tsx 34, 101-150).
THEOREM UrlsStayReleased == Spec => []UrlsReleased
<1>1. UInv => UrlsReleased
  <2> SUFFICES ASSUME UInv, clashes = {}
               PROVE  urls = UNION ({parked[s] : s \in Sessions} \cup {f.images : f \in sends}
                                    \cup {f.ready : f \in reads})
    BY DEF UrlsReleased
  <2>1. \A i : i \in urls <=> Staged(i) \/ Going(i) \/ Waiting(i)
    BY DEF UInv, Apart
  <2>2. QED
    BY <2>1 DEF Staged, Going, Waiting
<1>2. QED
  BY UrlsInit, UrlsStep, <1>1, PTL DEF Spec

----------------------------------------------------------------------------
(* Where a menu opens *)

\* A menu that fits between the margins is moved to lie between them.
LEMMA ClampBounds ==
  ASSUME NEW at \in Int, NEW size \in Nat, NEW room \in Nat, size + 2 * Margin <= room
  PROVE  /\ Clamp(at, size, room) \in Int
         /\ Margin <= Clamp(at, size, room) /\ Clamp(at, size, room) + size <= room - Margin
BY DEF Clamp, AtLeast, AtMost, Margin

\* A menu that fits in the window is on the screen, wherever its trigger is and wherever
\* it is asked to open (selectMenuPosition.ts 20: "while keeping it on-screen").
THEOREM MenuStaysOnScreen ==
  ASSUME NEW trigger \in [top : Int, bottom : Int, left : Int],
         NEW menu \in [width : Nat, height : Nat],
         NEW viewport \in [width : Nat, height : Nat],
         NEW preferred \in {"top", "bottom", "auto"},
         menu.width + 2 * Margin <= viewport.width, menu.height + 2 * Margin <= viewport.height
  PROVE  LET at == PositionSelectMenu(trigger, menu, viewport, preferred)
         IN /\ Margin <= at.left /\ at.left + menu.width <= viewport.width - Margin
            /\ Margin <= at.top /\ at.top + menu.height <= viewport.height - Margin
<1> DEFINE above == Placement(trigger, menu, viewport, preferred) = "top"
           desired == IF above THEN trigger.top - menu.height - Gap ELSE trigger.bottom + Gap
           at == PositionSelectMenu(trigger, menu, viewport, preferred)
<1>1. /\ trigger.top \in Int /\ trigger.bottom \in Int /\ trigger.left \in Int
      /\ menu.width \in Nat /\ menu.height \in Nat /\ viewport.width \in Nat /\ viewport.height \in Nat
  OBVIOUS
<1>2. desired \in Int
  BY <1>1 DEF Gap
<1>3. /\ at.left = Clamp(trigger.left, menu.width, viewport.width)
      /\ at.top = Clamp(desired, menu.height, viewport.height)
  BY DEF PositionSelectMenu
<1> HIDE DEF desired, at
<1>4. Margin <= at.left /\ at.left + menu.width <= viewport.width - Margin
  BY <1>1, <1>3, ClampBounds
<1>5. Margin <= at.top /\ at.top + menu.height <= viewport.height - Margin
  <2>1. LET top == Clamp(desired, menu.height, viewport.height)
        IN  Margin <= top /\ top + menu.height <= viewport.height - Margin
    BY <1>1, <1>2, ClampBounds
  <2>2. QED
    BY <1>3, <2>1
<1>6. QED
  BY <1>4, <1>5 DEF at

\* Where the side it is asked for has room, or, for "auto", where either side has, the
\* menu does not cover its trigger (selectMenuPosition.ts 20: "next to its trigger").  The
\* composer's menus ask for the top, and cover it in a window that is too low.
THEOREM MenuClearsTrigger ==
  ASSUME NEW trigger \in [top : Int, bottom : Int, left : Int],
         NEW menu \in [width : Nat, height : Nat],
         NEW viewport \in [width : Nat, height : Nat],
         NEW preferred \in {"top", "bottom", "auto"},
         0 <= trigger.top, trigger.top <= trigger.bottom, trigger.bottom <= viewport.height,
         \/ preferred # "bottom" /\ RoomAbove(trigger) >= menu.height + Gap
         \/ preferred # "top" /\ RoomBelow(trigger, viewport) >= menu.height + Gap
  PROVE  LET top == PositionSelectMenu(trigger, menu, viewport, preferred).top
         IN top + menu.height <= trigger.top \/ trigger.bottom <= top
<1> DEFINE placement == Placement(trigger, menu, viewport, preferred)
           top == PositionSelectMenu(trigger, menu, viewport, preferred).top
<1>1. /\ trigger.top \in Int /\ trigger.bottom \in Int
      /\ menu.height \in Nat /\ viewport.height \in Nat
  OBVIOUS
<1>2. placement \in {"top", "bottom"}
  BY DEF Placement
<1>3. CASE placement = "top"
  <2>1. RoomAbove(trigger) >= menu.height + Gap
    BY <1>1, <1>3 DEF Placement, RoomAbove, RoomBelow, Margin, Gap
  <2>2. top = Clamp(trigger.top - menu.height - Gap, menu.height, viewport.height)
    BY <1>3 DEF PositionSelectMenu
  <2>3. top + menu.height <= trigger.top
    BY <1>1, <2>1, <2>2 DEF Clamp, AtLeast, AtMost, RoomAbove, Margin, Gap
  <2>4. QED
    BY <2>3
<1>4. CASE placement = "bottom"
  <2>1. RoomBelow(trigger, viewport) >= menu.height + Gap
    BY <1>1, <1>4 DEF Placement, RoomAbove, RoomBelow, Margin, Gap
  <2>2. top = Clamp(trigger.bottom + Gap, menu.height, viewport.height)
    BY <1>4 DEF PositionSelectMenu
  <2>3. trigger.bottom <= top
    BY <1>1, <2>1, <2>2 DEF Clamp, AtLeast, AtMost, RoomBelow, Margin, Gap
  <2>4. QED
    BY <2>3
<1>5. QED
  BY <1>2, <1>3, <1>4

----------------------------------------------------------------------------
(* What is sent is what is shown *)

\* A set of numbers that is not empty has a least one.
LEMMA LeastOf ==
  ASSUME NEW B \in SUBSET Nat, B # {}
  PROVE  \E m \in B : \A k \in B : m <= k
<1>1. PICK m \in B : \A k \in B : <<k, m>> \notin OpToRel(<, Nat)
  BY NatLessThanWellFounded, WFMin
<1>2. \A k \in B : ~(k < m)
  BY <1>1 DEF OpToRel
<1>3. QED
  BY <1>2

\* A bounded one has a greatest.
LEMMA GreatestOf ==
  ASSUME NEW b \in Nat, NEW B \in SUBSET (0..b), B # {}
  PROVE  \E m \in B : \A k \in B : k <= m
<1> DEFINE C == {c \in Nat : b - c \in B}
<1>1. C # {}
  <2>1. PICK x \in B : TRUE
    OBVIOUS
  <2>2. b - x \in C
    BY <2>1
  <2>3. QED
    BY <2>2
<1>2. PICK c \in C : \A d \in C : c <= d
  BY <1>1, LeastOf
<1>3. ASSUME NEW k \in B PROVE k <= b - c
  <2>1. b - k \in C
    OBVIOUS
  <2>2. c <= b - k
    BY <1>2, <2>1
  <2>3. QED
    BY <2>2
<1>4. QED
  BY <1>3

\* A loop of n steps has its states, each of S and the step of the one before.
IsLoop(f, n, S, base, step) ==
  f \in [0..n -> S] /\ f[0] = base /\ \A k \in 1..n : f[k] = step[k][f[k - 1]]
LEMMA LoopStates ==
  ASSUME NEW n \in Nat, NEW S, NEW base \in S, NEW step \in [1..n -> [S -> S]]
  PROVE  \E f : IsLoop(f, n, S, base, step)
<1> DEFINE Upto(m) == \E f : IsLoop(f, m, S, base, step)
           Bad == {m \in 0..n : ~Upto(m)}
<1>1. SUFFICES ASSUME Bad # {} PROVE FALSE
  <2>1. n \in 0..n
    OBVIOUS
  <2>2. QED
    BY <2>1
<1>2. PICK m \in Bad : \A k \in Bad : m <= k
  <2>1. Bad \in SUBSET Nat
    OBVIOUS
  <2>2. QED
    BY <1>1, <2>1, LeastOf
<1>3. m # 0
  <2> DEFINE f == [k \in 0..0 |-> base]
  <2>1. IsLoop(f, 0, S, base, step)
    BY DEF IsLoop
  <2>2. Upto(0)
    BY <2>1
  <2>3. QED
    BY <1>2, <2>2
<1>4. m - 1 \in 0..n /\ m \in 1..n
  BY <1>2, <1>3
<1>5. Upto(m - 1)
  <2> HIDE DEF Upto
  <2>1. ~(m <= m - 1)
    BY <1>4
  <2>2. QED
    BY <1>2, <1>4, <2>1
<1>6. PICK f \in [0..m - 1 -> S] :
        f[0] = base /\ \A k \in 1..m - 1 : f[k] = step[k][f[k - 1]]
  BY <1>5 DEF IsLoop
<1> DEFINE g == [k \in 0..m |-> IF k = m THEN step[m][f[m - 1]] ELSE f[k]]
<1>7. step[m][f[m - 1]] \in S
  BY <1>4
<1>8. g \in [0..m -> S]
  BY <1>4, <1>7
<1>9. g[0] = base /\ \A k \in 1..m : g[k] = step[k][g[k - 1]]
  BY <1>4, <1>6
<1>10. Upto(m)
  BY <1>8, <1>9 DEF IsLoop
<1>11. QED
  BY <1>2, <1>10

----------------------------------------------------------------------------
(* The model and effort *)

\* The first of some places is one of them, and none is before it.
LEMMA FirstFacts ==
  ASSUME NEW S \in SUBSET Nat, S # {}
  PROVE  First(S) \in S /\ \A j \in S : First(S) <= j
BY LeastOf DEF First

\* A catalogue with a model in it, its state for a choice, and the model it shows.
LEMMA CatalogueFacts ==
  ASSUME NEW models \in Catalogues, models # <<>>
  PROVE  models \in Seq(ModelInfo) /\ 1 \in DOMAIN models /\ DOMAIN models \subseteq Nat
<1>1. models \in Seq(ModelInfo)
  BY ControlsAssumption DEF ControlsAssumption
<1>2. Len(models) \in Nat /\ DOMAIN models = 1..Len(models) /\ Len(models) # 0
  BY <1>1
<1>3. QED
  BY <1>1, <1>2

StateOf(models, choice) == ModelControlState("ready", models, choice)

LEMMA StateFacts ==
  ASSUME NEW models \in Catalogues, models # <<>>, NEW choice
  PROVE  LET state == StateOf(models, choice)
         IN  /\ ~state.disabled /\ state.options = models
             /\ \E i \in DOMAIN models : state.value = models[i].id
             /\ (\E i \in DOMAIN models : models[i].id = choice.model) => state.value = choice.model
<1> DEFINE listed == {m.id : m \in Range(models)}
           fallback == IF Default \in listed THEN Default ELSE models[1].id
<1>1. /\ 1 \in DOMAIN models /\ \A id : id \in listed <=> \E i \in DOMAIN models : models[i].id = id
  BY CatalogueFacts DEF Range
<1>2. StateOf(models, choice) =
        [disabled |-> FALSE, options |-> models,
         value |-> IF choice.model \in listed THEN choice.model ELSE fallback]
  BY DEF StateOf, ModelControlState
<1> HIDE DEF listed
<1>3. QED
  BY <1>1, <1>2

\* The first model of an id that is listed.
LEMMA ModelOfFacts ==
  ASSUME NEW models \in Catalogues, models # <<>>, NEW i \in DOMAIN models
  PROVE  ModelOf(models, models[i].id) \in ModelInfo
<1> DEFINE S == {j \in DOMAIN models : models[j].id = models[i].id}
<1>1. S \in SUBSET Nat /\ S # {}
  BY CatalogueFacts
<1>2. First(S) \in DOMAIN models
  <2>1. First(S) \in S
    <3> HIDE DEF S
    <3>1. QED
      BY <1>1, FirstFacts
  <2>2. QED
    BY <2>1
<1>3. QED
  BY <1>2, CatalogueFacts DEF ModelOf

Levels == Range(AllEfforts)

LEMMA EffortFacts ==
  ASSUME NEW m \in ModelInfo
  PROVE  /\ EffortOptions(m) \in Seq(Levels) /\ Default \notin Levels /\ m.known \in BOOLEAN
<1>1. AllEfforts \in Seq(STRING \ {Default})
  BY ControlsAssumption DEF ControlsAssumption
<1>2. AllEfforts \in Seq(Levels) /\ Default \notin Levels
  BY <1>1 DEF Levels, Range
<1>3. m.known => m.efforts \in Seq(Levels)
  BY DEF ModelInfo, Levels
<1>4. m.known \in BOOLEAN
  BY DEF ModelInfo
<1>5. QED
  BY <1>2, <1>3, <1>4 DEF EffortOptions

\* An effort is offered where it is the default or the model has that level.
Offered(models, id, effort) ==
  effort = Default \/ effort \in Range(EffortOptions(ModelOf(models, id)))

\* What can be picked of options that are all enabled.
LEMMA PicksFacts ==
  ASSUME NEW values
  PROVE  UNION {Choose(EnabledOptions(values), i) : i \in DOMAIN EnabledOptions(values)}
           = {values[i] : i \in DOMAIN values}
<1> DEFINE menu == EnabledOptions(values)
<1>1. DOMAIN menu = DOMAIN values
      /\ \A i \in DOMAIN values : menu[i] = [value |-> values[i], disabled |-> FALSE]
  BY DEF EnabledOptions
<1>2. \A i \in DOMAIN values : menu[i].value = values[i] /\ ~menu[i].disabled
  BY <1>1
<1> HIDE DEF menu
<1>3. ASSUME NEW i \in DOMAIN values PROVE Choose(menu, i) = {values[i]}
  BY <1>1, <1>2 DEF Choose
<1>4. UNION {Choose(menu, i) : i \in DOMAIN menu} = {values[i] : i \in DOMAIN values}
  BY <1>1, <1>3
<1>5. QED
  BY <1>4 DEF menu

Ids(models) == {models[i].id : i \in DOMAIN models} \cup {Default}

\* A choice whose effort the model that is shown supports.
Fits(models, choice) ==
  /\ choice \in [model : Ids(models), effort : Levels \cup {Default}]
  /\ models # <<>> => Offered(models, StateOf(models, choice).value, choice.effort)

\* Whatever is picked, the effort fits what is shown.
LEMMA AfterFits ==
  ASSUME NEW models \in Catalogues, NEW c, Fits(models, c), NEW d \in After(models, c)
  PROVE  Fits(models, d)
<1> DEFINE state == StateOf(models, c)
           Picks(menu) == UNION {Choose(menu, i) : i \in DOMAIN menu}
<1>1. c.model \in Ids(models) /\ c.effort \in Levels \cup {Default}
      /\ c = [model |-> c.model, effort |-> c.effort]
  BY DEF Fits
<1>2. \/ d = NoChoice
      \/ d \in SentChoice("ready", models, c)
      \/ \E id \in Picks(ModelMenu(state)) : d = OnModelChange(models, c, id)
      \/ \E e \in Picks(EffortMenu(state)) : d = [c EXCEPT !.effort = e]
  BY DEF After, StateOf
<1>3. Fits(models, NoChoice)
  <2>1. Default \in Ids(models)
    BY DEF Ids
  <2>2. NoChoice.effort = Default /\ NoChoice \in [model : Ids(models), effort : Levels \cup {Default}]
    BY <2>1 DEF NoChoice
  <2>3. QED
    BY <2>2 DEF Fits, Offered
<1>4. ASSUME models = <<>>, d # NoChoice PROVE FALSE
  <2>1. state = [disabled |-> TRUE, options |-> <<>>, value |-> Default]
    BY <1>4 DEF StateOf, ModelControlState
  <2>2. SentChoice("ready", models, c) = {}
    BY <2>1 DEF SentChoice, StateOf
  <2>3. DOMAIN ModelMenu(state) = {} /\ DOMAIN EffortMenu(state) = {}
    BY <2>1 DEF ModelMenu, EnabledOptions, EffortMenu
  <2>4. QED
    BY <1>2, <1>4, <2>2, <2>3
<1>5. ASSUME models # <<>>, d \in SentChoice("ready", models, c) PROVE Fits(models, d)
  <2>1. ~state.disabled /\ \E i \in DOMAIN models : state.value = models[i].id
    BY <1>5, StateFacts
  <2>2. d = [model |-> state.value, effort |-> c.effort]
    BY <1>5, <2>1 DEF SentChoice, StateOf
  <2>3. StateOf(models, d).value = state.value
    <3>1. d.model = state.value
      BY <2>2
    <3> HIDE DEF state
    <3>2. QED
      BY <1>5, <2>1, <3>1, StateFacts
  <2>4. state.value \in Ids(models)
    BY <2>1 DEF Ids
  <2>5. Offered(models, state.value, c.effort)
    BY <1>5 DEF Fits
  <2> HIDE DEF state
  <2>6. QED
    BY <1>1, <2>2, <2>3, <2>4, <2>5 DEF Fits
<1>6. ASSUME models # <<>>, NEW id \in Picks(ModelMenu(state)), d = OnModelChange(models, c, id)
      PROVE  Fits(models, d)
  <2>1. state.options = models
    BY <1>6, StateFacts
  <2>2. id \in {models[i].id : i \in DOMAIN models}
    <3>1. ModelMenu(state) = EnabledOptions([i \in DOMAIN models |-> models[i].id])
      BY <2>1 DEF ModelMenu
    <3>2. QED
      BY <1>6, <3>1, PicksFacts
  <2>3. PICK i \in DOMAIN models : id = models[i].id
    BY <2>2
  <2> DEFINE m == ModelOf(models, id)
  <2>4. m \in ModelInfo /\ id \in Ids(models)
    BY <1>6, <2>3, ModelOfFacts DEF Ids
  <2>5. d = [model |-> id, effort |-> IF ~m.known \/ c.effort \in Range(m.efforts)
                                      THEN c.effort ELSE Default]
    BY <1>6 DEF OnModelChange
  <2>6. StateOf(models, d).value = id
    <3>1. d.model = id
      BY <2>5
    <3>2. QED
      BY <1>6, <2>3, <3>1, StateFacts
  <2>7. Offered(models, id, d.effort)
    BY <1>1, <2>5 DEF Offered, EffortOptions, Levels
  <2> HIDE DEF m
  <2>8. d.effort \in {c.effort, Default} /\ d.model = id /\ d \in [model : {id}, effort : {c.effort, Default}]
    BY <2>5
  <2>9. QED
    BY <1>1, <2>4, <2>6, <2>7, <2>8 DEF Fits
<1>7. ASSUME models # <<>>, NEW e \in Picks(EffortMenu(state)), d = [c EXCEPT !.effort = e]
      PROVE  Fits(models, d)
  <2>1. state.options = models /\ ~state.disabled /\ \E i \in DOMAIN models : state.value = models[i].id
    BY <1>6, <1>7, StateFacts
  <2> DEFINE levels == EffortOptions(ModelOf(models, state.value))
  <2>2. levels \in Seq(Levels)
    BY <1>7, <2>1, ModelOfFacts, EffortFacts
  <2>3. EffortMenu(state) = <<>> \/ EffortMenu(state) = EnabledOptions(<<Default>> \o levels)
    BY <2>1 DEF EffortMenu
  <2>4. DOMAIN EffortMenu(state) # {}
    BY <1>7
  <2>5. EffortMenu(state) = EnabledOptions(<<Default>> \o levels)
    BY <2>3, <2>4
  <2>6. e \in {(<<Default>> \o levels)[i] : i \in DOMAIN (<<Default>> \o levels)}
    <3> DEFINE values == <<Default>> \o levels
    <3> HIDE DEF values
    <3>1. e \in UNION {Choose(EnabledOptions(values), i) : i \in DOMAIN EnabledOptions(values)}
      BY <1>7, <2>5 DEF values
    <3>2. e \in {values[i] : i \in DOMAIN values}
      BY <3>1, PicksFacts
    <3>3. QED
      BY <3>2 DEF values
  <2> HIDE DEF levels
  <2>7. e = Default \/ e \in Range(levels)
    <3>1. PICK i \in DOMAIN (<<Default>> \o levels) : e = (<<Default>> \o levels)[i]
      BY <2>6
    <3>2. CASE i = 1
      BY <2>2, <3>1, <3>2
    <3>3. CASE i # 1
      <4>1. i - 1 \in DOMAIN levels /\ e = levels[i - 1]
        BY <2>2, <3>1, <3>3
      <4>2. QED
        BY <4>1 DEF Range
    <3>4. QED
      BY <3>2, <3>3
  <2>8. e \in Levels \cup {Default}
    BY <2>2, <2>7 DEF Range
  <2>9. d = [model |-> c.model, effort |-> e]
    BY <1>1, <1>7
  <2>10. StateOf(models, d) = state
    BY <2>9 DEF StateOf, ModelControlState
  <2>11. Offered(models, state.value, e)
    BY <2>7 DEF Offered, levels
  <2> HIDE DEF state
  <2>12. QED
    BY <1>1, <2>8, <2>9, <2>10, <2>11 DEF Fits
<1> HIDE DEF Picks, state
<1>8. QED
  BY <1>2, <1>3, <1>4, <1>5, <1>6, <1>7

\* Every choice that can be reached fits.
LEMMA ReachedFits ==
  ASSUME NEW models \in Catalogues, NEW n \in Nat
  PROVE  \A c \in Reached(models, n) : Fits(models, c)
<1> DEFINE G == {c \in [model : Ids(models), effort : Levels \cup {Default}] : Fits(models, c)}
           S == SUBSET G
           Grown(W) == W \cup UNION {After(models, c) : c \in W}
           step == [k \in 1..n |-> [W \in S |-> Grown(W)]]
           Loop(f) == f = [k \in 0..n |-> IF k = 0 THEN {NoChoice}
                                          ELSE f[k - 1] \cup UNION {After(models, c) : c \in f[k - 1]}]
           Within == CHOOSE f : Loop(f)
<1>1. \A c : Fits(models, c) <=> c \in G
  BY DEF Fits
<1>2. {NoChoice} \in S
  <2>1. NoChoice \in After(models, NoChoice)
    BY DEF After
  <2>2. Default \in Ids(models)
    BY DEF Ids
  <2>3. NoChoice.effort = Default /\ NoChoice \in [model : Ids(models), effort : Levels \cup {Default}]
    BY <2>2 DEF NoChoice
  <2>4. Fits(models, NoChoice)
    BY <2>3 DEF Fits, Offered
  <2>5. QED
    BY <1>1, <2>4
<1>3. ASSUME NEW W \in S PROVE Grown(W) \in S
  <2>1. ASSUME NEW c \in W, NEW d \in After(models, c) PROVE d \in G
    <3>1. Fits(models, c)
      BY <1>1
    <3> HIDE DEF G
    <3>2. QED
      BY <1>1, <3>1, AfterFits
  <2> HIDE DEF G
  <2>2. QED
    BY <2>1
<1>4. Reached(models, n) = Within[n]
  BY DEF Reached
<1> HIDE DEF G
<1>5. step \in [1..n -> [S -> S]]
  <2> HIDE DEF S, Grown
  <2>1. QED
    BY <1>3
<1>6. PICK f \in [0..n -> S] : f[0] = {NoChoice} /\ \A k \in 1..n : f[k] = step[k][f[k - 1]]
  <2> DEFINE base == {NoChoice}
  <2>1. base \in S
    BY <1>2
  <2> HIDE DEF step, S, base
  <2>2. \E f : IsLoop(f, n, S, base, step)
    BY <1>5, <2>1, LoopStates
  <2>3. QED
    BY <2>2 DEF IsLoop, base
<1>7. Loop(f)
  <2>1. ASSUME NEW k \in 1..n PROVE f[k] = Grown(f[k - 1])
    <3>1. k - 1 \in 0..n
      OBVIOUS
    <3>2. f[k - 1] \in S
      BY <3>1
    <3>3. f[k] = step[k][f[k - 1]]
      <4> HIDE DEF step
      <4>1. QED
        BY <1>6
    <3>4. step[k] = [W \in S |-> Grown(W)]
      OBVIOUS
    <3>5. QED
      <4> HIDE DEF step, S, Grown
      <4>1. QED
        BY <3>2, <3>3, <3>4
  <2>2. ASSUME NEW k \in 0..n
        PROVE  f[k] = IF k = 0 THEN {NoChoice} ELSE Grown(f[k - 1])
    <3>1. CASE k = 0
      BY <1>6, <3>1
    <3>2. CASE k \in 1..n
      <4>1. f[k] = Grown(f[k - 1])
        BY <2>1, <3>2
      <4>2. k # 0
        BY <3>2
      <4> HIDE DEF Grown
      <4>3. QED
        BY <4>1, <4>2
    <3>3. QED
      BY <3>1, <3>2
  <2>3. QED
    BY <1>6, <2>2
<1>8. Loop(Within)
  <2> HIDE DEF Loop
  <2>1. QED
    BY <1>7
<1>9. Within[0] = {NoChoice} /\ \A k \in 1..n : Within[k] = Grown(Within[k - 1])
  <2> HIDE DEF Within
  <2>1. Within[0] = {NoChoice}
    BY <1>8
  <2>2. ASSUME NEW k \in 1..n PROVE Within[k] = Grown(Within[k - 1])
    <3>1. k \in 0..n /\ k # 0
      OBVIOUS
    <3>2. QED
      BY <1>8, <3>1
  <2>3. QED
    BY <2>1, <2>2
<1> DEFINE Bad == {k \in 0..n : Within[k] \notin S}
<1> HIDE DEF Within, S, Grown
<1>10. Bad = {}
  <2>1. SUFFICES ASSUME Bad # {} PROVE FALSE
    OBVIOUS
  <2>2. PICK k \in Bad : \A m \in Bad : k <= m
    <3>1. Bad \in SUBSET Nat
      OBVIOUS
    <3>2. QED
      BY <2>1, <3>1, LeastOf
  <2>3. k # 0
    BY <1>2, <1>9, <2>2
  <2>4. k - 1 \in 0..n /\ k \in 1..n /\ ~(k <= k - 1)
    BY <2>2, <2>3
  <2>5. Within[k - 1] \in S
    BY <2>2, <2>4
  <2>6. Within[k] \in S
    BY <1>3, <1>9, <2>4, <2>5
  <2>7. QED
    BY <2>2, <2>6
<1>11. Within[n] \in S
  BY <1>10
<1>12. QED
  BY <1>1, <1>4, <1>11 DEF S

\* What a choice that fits is sent with is what the menus show.
LEMMA FitsIsShown ==
  ASSUME NEW models \in Catalogues, models # <<>>, NEW c, Fits(models, c)
  PROVE  SentChoice("ready", models, c) = {ShownChoice(models, c)}
<1> DEFINE state == StateOf(models, c)
           levels == EffortOptions(ModelOf(models, state.value))
           values == <<Default>> \o levels
<1>1. state.options = models /\ ~state.disabled /\ \E i \in DOMAIN models : state.value = models[i].id
  BY StateFacts
<1>2. SentChoice("ready", models, c) = {[model |-> state.value, effort |-> c.effort]}
  BY <1>1 DEF SentChoice, StateOf
<1>3. levels \in Seq(Levels)
  BY <1>1, ModelOfFacts, EffortFacts
<1>4. c.effort = Default \/ c.effort \in Range(levels)
  BY DEF Fits, Offered
<1>5. EffortMenu(state) = IF levels = <<>> THEN <<>> ELSE EnabledOptions(values)
  BY <1>1 DEF EffortMenu
<1>6. (IF EffortMenu(state) = <<>> THEN Default ELSE Shown(EffortMenu(state), c.effort)) = c.effort
  <2> HIDE DEF levels, state
  <2>1. CASE levels = <<>>
    <3>1. c.effort = Default
      BY <1>4, <2>1 DEF Range
    <3>2. QED
      BY <1>5, <2>1, <3>1
  <2>2. CASE levels # <<>>
    <3> DEFINE menu == EnabledOptions(values)
               found == {i \in DOMAIN menu : menu[i].value = c.effort}
    <3>1. /\ Len(values) = Len(levels) + 1 /\ DOMAIN values = 1..Len(levels) + 1
          /\ values[1] = Default /\ \A i \in DOMAIN levels : values[i + 1] = levels[i]
          /\ Len(levels) \in Nat /\ DOMAIN levels = 1..Len(levels)
      BY <1>3
    <3>2. \E i \in DOMAIN values : values[i] = c.effort
      <4>1. CASE c.effort = Default
        <5>1. 1 \in DOMAIN values
          BY <3>1
        <5>2. QED
          BY <3>1, <4>1, <5>1
      <4>2. CASE c.effort \in Range(levels)
        <5>1. PICK i \in DOMAIN levels : c.effort = levels[i]
          BY <4>2 DEF Range
        <5>2. i + 1 \in DOMAIN values /\ values[i + 1] = c.effort
          BY <3>1, <5>1
        <5>3. QED
          BY <5>2
      <4>3. QED
        BY <1>4, <4>1, <4>2
    <3> HIDE DEF values
    <3>3. DOMAIN menu = DOMAIN values /\ \A i \in DOMAIN values : menu[i].value = values[i]
      BY DEF EnabledOptions
    <3>4. menu # <<>>
      <4>1. 1 \in DOMAIN menu
        BY <3>1, <3>3
      <4> HIDE DEF menu
      <4>2. QED
        BY <4>1
    <3> HIDE DEF menu
    <3>5. found # {} /\ found \in SUBSET Nat
      BY <3>1, <3>2, <3>3
    <3>6. First(found) \in found
      <4> HIDE DEF found
      <4>1. QED
        BY <3>5, FirstFacts
    <3>7. Shown(menu, c.effort) = menu[First(found)].value
      BY <3>5 DEF Shown, SelectedIndex
    <3>8. Shown(menu, c.effort) = c.effort
      BY <3>6, <3>7
    <3>9. QED
      BY <1>5, <2>2, <3>4, <3>8 DEF menu
  <2>3. QED
    BY <2>1, <2>2
<1>7. ShownChoice(models, c) = [model |-> state.value, effort |-> c.effort]
  <2>1. ShownChoice(models, c) =
          [model |-> state.value,
           effort |-> IF EffortMenu(state) = <<>> THEN Default ELSE Shown(EffortMenu(state), c.effort)]
    BY DEF ShownChoice, StateOf
  <2> HIDE DEF state
  <2>2. QED
    BY <1>6, <2>1
<1>8. QED
  BY <1>2, <1>7

\* After any picks of any catalogue, what is sent is what is shown.
LEMMA SentAsShown ==
  ASSUME NEW models \in Catalogues, NEW n \in Nat
  PROVE  SentIsShown(models, n)
<1> SUFFICES ASSUME NEW c \in Reached(models, n)
             PROVE  /\ SentChoice(CatalogStatus(models), models, c)
                         = IF models = <<>> THEN {} ELSE {ShownChoice(models, c)}
                    /\ \A status \in {"idle", "loading"} : SentChoice(status, models, c) = {}
  BY DEF SentIsShown
<1>1. ASSUME NEW status, status # "ready" PROVE SentChoice(status, models, c) = {}
  <2>1. ModelControlState(status, models, c).disabled = TRUE
    BY <1>1 DEF ModelControlState
  <2>2. QED
    BY <2>1 DEF SentChoice
<1>2. CASE models = <<>>
  BY <1>1, <1>2 DEF CatalogStatus
<1>3. CASE models # <<>>
  <2>1. CatalogStatus(models) = "ready"
    BY <1>3 DEF CatalogStatus
  <2>2. Fits(models, c)
    BY ReachedFits
  <2>3. SentChoice("ready", models, c) = {ShownChoice(models, c)}
    BY <1>3, <2>2, FitsIsShown
  <2>4. QED
    BY <1>1, <1>3, <2>1, <2>3
<1>4. QED
  BY <1>2, <1>3

----------------------------------------------------------------------------
(* The keys of the menu *)

LEMMA Wraps ==
  ASSUME NEW n \in Nat, n > 0, NEW x \in -n..2 * n - 1
  PROVE  x % n = IF x < 0 THEN x + n ELSE IF x < n THEN x ELSE x - n
<1>1. CASE x < 0
  BY <1>1
<1>2. CASE x \in 0..n - 1
  BY <1>2
<1>3. CASE x >= n
  BY <1>3
<1>4. QED
  BY <1>1, <1>2, <1>3

\* The option that is k steps up or down from the option a.
Steps(options, a, d, k) == Around(options, a, d * k)

\* Place y of a round of n is the option p.
WrapsTo(y, n, p) ==
  /\ y < 1 => p = y + n
  /\ 1 <= y /\ y <= n => p = y
  /\ y > n => p = y - n

LEMMA StepWraps ==
  ASSUME NEW options, Len(options) \in Nat, NEW b \in 1..Len(options), NEW k \in 0..Len(options)
  PROVE  /\ WrapsTo(b + k, Len(options), Steps(options, b, 1, k))
         /\ WrapsTo(b - k, Len(options), Steps(options, b, -1, k))
<1> DEFINE n == Len(options)
<1>1. n \in Nat /\ n > 0
  OBVIOUS
<1>2. WrapsTo(b + k, n, Steps(options, b, 1, k))
  <2>1. b - 1 + k \in -n..2 * n - 1 /\ 1 * k = k
    BY <1>1
  <2>2. Steps(options, b, 1, k) = ((b - 1 + k) % n) + 1
    BY <2>1 DEF Steps, Around
  <2> DEFINE y == b - 1 + k
  <2> HIDE DEF n
  <2>3. y % n = IF y < 0 THEN y + n ELSE IF y < n THEN y ELSE y - n
    BY <1>1, <2>1, Wraps
  <2>4. QED
    BY <1>1, <2>1, <2>2, <2>3 DEF WrapsTo
<1>3. WrapsTo(b - k, n, Steps(options, b, -1, k))
  <2>1. b - 1 - k \in -n..2 * n - 1 /\ b - 1 + (-1) * k = b - 1 - k
    BY <1>1
  <2>2. Steps(options, b, -1, k) = ((b - 1 - k) % n) + 1
    BY <2>1 DEF Steps, Around
  <2> DEFINE y == b - 1 - k
  <2> HIDE DEF n
  <2>3. y % n = IF y < 0 THEN y + n ELSE IF y < n THEN y ELSE y - n
    BY <1>1, <2>1, Wraps
  <2>4. QED
    BY <1>1, <2>1, <2>2, <2>3 DEF WrapsTo
<1>4. QED
  BY <1>2, <1>3

LEMMA StepType ==
  ASSUME NEW options, Len(options) \in Nat, NEW b \in 1..Len(options), NEW d \in {1, -1},
         NEW k \in 0..Len(options)
  PROVE  Steps(options, b, d, k) \in 1..Len(options)
<1> DEFINE n == Len(options)
           p == Steps(options, b, 1, k)
           q == Steps(options, b, -1, k)
<1>1. WrapsTo(b + k, n, p) /\ WrapsTo(b - k, n, q)
  BY StepWraps
<1>2. n \in Nat /\ b \in 1..n /\ k \in 0..n
  OBVIOUS
<1>3. p \in 1..n /\ q \in 1..n
  <2> HIDE DEF n, p, q
  <2>1. QED
    BY <1>1, <1>2 DEF WrapsTo
<1>4. CASE d = 1
  BY <1>3, <1>4
<1>5. CASE d = -1
  BY <1>3, <1>5
<1>6. QED
  BY <1>4, <1>5

LEMMA StepsAdd ==
  ASSUME NEW options, Len(options) \in Nat, NEW a \in 1..Len(options), NEW d \in {1, -1},
         NEW s \in 0..Len(options), NEW r \in 0..Len(options), s + r <= Len(options)
  PROVE  Steps(options, Steps(options, a, d, s), d, r) = Steps(options, a, d, s + r)
<1> DEFINE n == Len(options)
           b == Steps(options, a, d, s)
           p == Steps(options, b, d, r)
           q == Steps(options, a, d, s + r)
<1>1. b \in 1..n /\ s + r \in 0..n /\ n \in Nat /\ a \in 1..n /\ s \in 0..n /\ r \in 0..n
  <2>1. n \in Nat /\ s \in 0..n
    OBVIOUS
  <2>2. b \in 1..n
    BY <2>1, StepType
  <2> HIDE DEF b
  <2>3. s + r \in 0..n
    BY <2>1
  <2>4. QED
    BY <2>1, <2>2, <2>3
<1>2. CASE d = 1
  <2>1. WrapsTo(a + s, n, b) /\ WrapsTo(a + (s + r), n, q)
    BY <1>1, <1>2, StepWraps
  <2>2. WrapsTo(b + r, n, p)
    <3> HIDE DEF b
    <3>1. QED
      BY <1>1, <1>2, StepWraps
  <2> HIDE DEF n, b, p, q
  <2>3. p = q
    BY <1>1, <2>1, <2>2 DEF WrapsTo
  <2>4. QED
    BY <2>3 DEF p, q, b
<1>3. CASE d = -1
  <2>1. WrapsTo(a - s, n, b) /\ WrapsTo(a - (s + r), n, q)
    BY <1>1, <1>3, StepWraps
  <2>2. WrapsTo(b - r, n, p)
    <3> HIDE DEF b
    <3>1. QED
      BY <1>1, <1>3, StepWraps
  <2> HIDE DEF n, b, p, q
  <2>3. p = q
    BY <1>1, <2>1, <2>2 DEF WrapsTo
  <2>4. QED
    BY <2>3 DEF p, q, b
<1>4. QED
  BY <1>2, <1>3

LEMMA StepsReach ==
  ASSUME NEW options, Len(options) \in Nat, NEW a \in 1..Len(options), NEW d \in {1, -1},
         NEW e \in 1..Len(options)
  PROVE  \E t \in 1..Len(options) : Steps(options, a, d, t) = e
<1> DEFINE n == Len(options)
           y == e - a
           z == a - e
           t == IF d = 1 THEN IF y > 0 THEN y ELSE y + n
                         ELSE IF z > 0 THEN z ELSE z + n
           p == Steps(options, a, d, t)
<1>1. n \in Nat /\ a \in 1..n /\ e \in 1..n
  OBVIOUS
<1>2. CASE d = 1
  <2>1. t \in 1..n /\ (a + t = e \/ a + t = e + n)
    <3> HIDE DEF n
    <3>1. CASE y > 0
      <4>1. t = y
        BY <1>2, <3>1
      <4> HIDE DEF t
      <4>2. QED
        BY <1>1, <3>1, <4>1
    <3>2. CASE ~(y > 0)
      <4>1. t = y + n
        BY <1>2, <3>2
      <4> HIDE DEF t
      <4>2. QED
        BY <1>1, <3>2, <4>1
    <3>3. QED
      BY <3>1, <3>2
  <2> HIDE DEF t
  <2>2. WrapsTo(a + t, n, p)
    BY <1>1, <1>2, <2>1, StepWraps
  <2> HIDE DEF p, n
  <2>3. p = e
    BY <1>1, <2>1, <2>2 DEF WrapsTo
  <2>4. QED
    BY <2>1, <2>3 DEF p, n
<1>3. CASE d = -1
  <2>1. t \in 1..n /\ (a - t = e \/ a - t = e - n)
    <3> HIDE DEF n
    <3>1. CASE z > 0
      <4>1. t = z
        BY <1>3, <3>1
      <4> HIDE DEF t
      <4>2. QED
        BY <1>1, <3>1, <4>1
    <3>2. CASE ~(z > 0)
      <4>1. t = z + n
        BY <1>3, <3>2
      <4> HIDE DEF t
      <4>2. QED
        BY <1>1, <3>2, <4>1
    <3>3. QED
      BY <3>1, <3>2
  <2> HIDE DEF t
  <2>2. WrapsTo(a - t, n, p)
    BY <1>1, <1>3, <2>1, StepWraps
  <2> HIDE DEF p, n
  <2>3. p = e
    BY <1>1, <2>1, <2>2 DEF WrapsTo
  <2>4. QED
    BY <2>1, <2>3 DEF p, n
<1>4. QED
  BY <1>2, <1>3

Enabled(options) == {i \in DOMAIN options : ~options[i].disabled}

\* An arrow goes to the next option that can be chosen.
LEMMA ArrowFacts ==
  ASSUME NEW options \in Seq(Option), NEW a \in 1..Len(options), NEW d \in {1, -1},
         NEW t \in 1..Len(options), Steps(options, a, d, t) \in Enabled(options),
         \A k \in 1..t - 1 : Steps(options, a, d, k) \notin Enabled(options)
  PROVE  MoveActive(options, a, d) = Steps(options, a, d, t)
<1> DEFINE S == {k \in 1..Len(options) : ~options[Around(options, a, d * k)].disabled}
<1>1. Len(options) \in Nat /\ DOMAIN options = 1..Len(options)
  OBVIOUS
<1>2. ASSUME NEW k \in 1..Len(options)
      PROVE  k \in S <=> Steps(options, a, d, k) \in Enabled(options)
  <2>1. Steps(options, a, d, k) \in DOMAIN options
    <3>1. k \in 0..Len(options)
      BY <1>1
    <3> HIDE DEF S
    <3>2. Steps(options, a, d, k) \in 1..Len(options)
      BY <1>1, <3>1, StepType
    <3>3. QED
      BY <1>1, <3>2
  <2>2. Steps(options, a, d, k) = Around(options, a, d * k)
    BY DEF Steps
  <2> DEFINE p == Around(options, a, d * k)
  <2>3. k \in S <=> ~options[p].disabled
    OBVIOUS
  <2> HIDE DEF p, S
  <2>4. QED
    BY <2>1, <2>2, <2>3 DEF p, Enabled
<1>3. t \in S /\ S \in SUBSET Nat /\ S \subseteq 1..Len(options)
  <2>1. S \in SUBSET Nat /\ S \subseteq 1..Len(options)
    OBVIOUS
  <2> HIDE DEF S
  <2>2. QED
    BY <1>2, <2>1
<1>4. MoveActive(options, a, d) = Around(options, a, d * First(S))
  BY <1>3 DEF MoveActive
<1> HIDE DEF S
<1>5. \A k \in S : ~(k < t)
  <2>1. SUFFICES ASSUME NEW k \in S, k < t PROVE FALSE
    OBVIOUS
  <2>2. k \in 1..Len(options) /\ k \in 1..t - 1
    BY <1>1, <1>3, <2>1
  <2>3. QED
    BY <1>2, <2>2
<1>6. First(S) \in S /\ First(S) <= t
  BY <1>3, FirstFacts
<1> DEFINE m == First(S)
<1>7. m = t
  <2> HIDE DEF m
  <2>1. m \in S /\ m <= t /\ m \in Nat /\ t \in Nat
    BY <1>3, <1>6 DEF m
  <2>2. QED
    BY <1>5, <2>1
<1>8. QED
  BY <1>4, <1>7 DEF Steps

\* Without an option that can be chosen it stays.
LEMMA MoveType ==
  ASSUME NEW options \in Seq(Option), NEW a \in 1..Len(options), NEW d \in {1, -1}
  PROVE  MoveActive(options, a, d) \in 1..Len(options)
<1> DEFINE S == {k \in 1..Len(options) : ~options[Around(options, a, d * k)].disabled}
           k == IF S = {} THEN Len(options) ELSE First(S)
<1>1. Len(options) \in Nat
  OBVIOUS
<1>2. S \in SUBSET Nat /\ S \subseteq 1..Len(options)
  OBVIOUS
<1>3. MoveActive(options, a, d) = Steps(options, a, d, k)
  BY DEF MoveActive, Steps
<1> HIDE DEF S
<1>4. k \in 0..Len(options)
  <2>1. CASE S = {}
    BY <1>1, <2>1
  <2>2. CASE S # {}
    <3>1. First(S) \in S
      BY <1>2, <2>2, FirstFacts
    <3>2. First(S) \in 1..Len(options) /\ k = First(S)
      BY <1>2, <2>2, <3>1
    <3> HIDE DEF k
    <3>3. QED
      BY <1>1, <3>2
  <2>3. QED
    BY <2>1, <2>2
<1> HIDE DEF k
<1>5. Steps(options, a, d, k) \in 1..Len(options)
  BY <1>1, <1>4, StepType
<1>6. QED
  BY <1>3, <1>5

\* From any option, the arrow alone comes to each that can be chosen, going round once.
IsTour(f, options, a, d) ==
  /\ f \in [0..Len(options) -> 1..Len(options)] /\ f[0] = a
  /\ \A k \in 1..Len(options) : f[k] = MoveActive(options, f[k - 1], d)

LEMMA ToursReachAll ==
  ASSUME NEW options \in Seq(Option), NEW a \in 1..Len(options), NEW d \in {1, -1},
         NEW f, IsTour(f, options, a, d), NEW e \in Enabled(options)
  PROVE  \E k \in 0..Len(options) : f[k] = e
<1> DEFINE n == Len(options)
           At(t) == Steps(options, a, d, t)
           Met(t) == \E k \in 0..t : f[k] = At(t)
           Bad == {t \in 1..n : At(t) \in Enabled(options) /\ ~Met(t)}
<1>1. n \in Nat /\ DOMAIN options = 1..n
  OBVIOUS
<1>2. PICK t \in 1..n : At(t) = e
  <2>1. e \in 1..n
    BY <1>1 DEF Enabled
  <2>2. QED
    BY <1>1, <2>1, StepsReach
<1>3. Bad = {}
  <2>1. SUFFICES ASSUME Bad # {} PROVE FALSE
    OBVIOUS
  <2>2. PICK u \in Bad : \A v \in Bad : u <= v
    <3>1. Bad \in SUBSET Nat
      OBVIOUS
    <3> HIDE DEF Bad
    <3>2. QED
      BY <2>1, <3>1, LeastOf
  <2> DEFINE P == {v \in 1..u - 1 : At(v) \in Enabled(options)}
  <2>3. CASE P = {}
    <3>1. MoveActive(options, a, d) = At(u)
      <4>1. u \in 1..n /\ At(u) \in Enabled(options)
        BY <2>2
      <4>2. \A k \in 1..u - 1 : At(k) \notin Enabled(options)
        BY <2>3
      <4> HIDE DEF Bad
      <4>3. QED
        BY <4>1, <4>2, ArrowFacts
    <3>2. f[1] = MoveActive(options, f[0], d) /\ f[0] = a
      BY <1>1, <2>2 DEF IsTour
    <3>3. 1 \in 0..u
      BY <2>2
    <3>4. QED
      BY <2>2, <3>1, <3>2, <3>3
  <2>4. CASE P # {}
    <3>1. PICK v \in P : \A w \in P : w <= v
      <4>1. u \in Nat /\ P \in SUBSET (0..u)
        BY <2>2
      <4> HIDE DEF P
      <4>2. QED
        BY <2>4, <4>1, GreatestOf
    <3>2. v \in 1..n /\ v < u /\ At(v) \in Enabled(options) /\ u \in 1..n
      BY <2>2, <3>1
    <3>3. PICK k \in 0..v : f[k] = At(v)
      <4>1. ~(u <= v)
        BY <3>2
      <4>2. v \notin Bad
        BY <2>2, <4>1
      <4>3. QED
        BY <3>2, <4>2
    <3>4. k + 1 \in 1..n /\ k + 1 \in 0..u
      BY <1>1, <3>2, <3>3
    <3>5. f[k + 1] = MoveActive(options, At(v), d)
      BY <3>3, <3>4 DEF IsTour
    <3>6. At(v) \in 1..n
      BY <3>2 DEF Enabled
    <3>7. ASSUME NEW w \in 1..u - v PROVE Steps(options, At(v), d, w) = At(v + w)
      <4>1. v \in 0..n /\ w \in 0..n /\ v + w <= n
        BY <1>1, <3>2
      <4>2. QED
        BY <1>1, <4>1, StepsAdd
    <3>8. Steps(options, At(v), d, u - v) = At(u) /\ u - v \in 1..n
      <4>1. u - v \in 1..u - v /\ v + (u - v) = u /\ u - v \in 1..n
        BY <1>1, <3>2
      <4>2. QED
        BY <3>7, <4>1
    <3>9. ASSUME NEW w \in 1..(u - v) - 1
          PROVE  Steps(options, At(v), d, w) \notin Enabled(options)
      <4>1. v + w \in 1..u - 1 /\ ~(v + w <= v) /\ w \in 1..u - v
        BY <3>2
      <4>2. v + w \notin P
        BY <3>1, <4>1
      <4>3. QED
        BY <3>7, <4>1, <4>2
    <3>10. At(u) \in Enabled(options)
      BY <2>2
    <3> DEFINE b == At(v)
               r == u - v
    <3> HIDE DEF b, r
    <3>11. MoveActive(options, b, d) = Steps(options, b, d, r)
      <4>1. /\ b \in 1..Len(options) /\ r \in 1..Len(options)
            /\ Steps(options, b, d, r) \in Enabled(options)
            /\ \A w \in 1..r - 1 : Steps(options, b, d, w) \notin Enabled(options)
        BY <3>6, <3>8, <3>9, <3>10 DEF b, r
      <4>2. QED
        BY <4>1, ArrowFacts
    <3>12. f[k + 1] = At(u)
      BY <3>5, <3>8, <3>11 DEF b, r
    <3>13. QED
      BY <2>2, <3>4, <3>12
  <2>5. QED
    BY <2>3, <2>4
<1>4. Met(t)
  BY <1>2, <1>3
<1>5. QED
  BY <1>1, <1>2, <1>4

\* The states of the highlight under one arrow.
LEMMA TourExists ==
  ASSUME NEW options \in Seq(Option), NEW a \in 1..Len(options), NEW d \in {1, -1}
  PROVE  \E f : IsTour(f, options, a, d)
<1> DEFINE n == Len(options)
           S == 1..n
           step == [k \in 1..n |-> [b \in S |-> MoveActive(options, b, d)]]
<1>1. n \in Nat /\ a \in S
  OBVIOUS
<1>2. step \in [1..n -> [S -> S]]
  <2>1. \A b \in S : MoveActive(options, b, d) \in S
    BY MoveType
  <2> HIDE DEF S
  <2>2. QED
    BY <2>1
<1>3. PICK f : IsLoop(f, n, S, a, step)
  <2> HIDE DEF step, S, n
  <2>1. QED
    BY <1>1, <1>2, LoopStates
<1>4. f \in [0..n -> S] /\ f[0] = a /\ \A k \in 1..n : f[k] = step[k][f[k - 1]]
  BY <1>3 DEF IsLoop
<1>5. ASSUME NEW k \in 1..n PROVE f[k] = MoveActive(options, f[k - 1], d)
  <2>1. k - 1 \in 0..n
    BY <1>1
  <2>2. f[k - 1] \in S
    BY <1>4, <2>1
  <2>3. f[k] = step[k][f[k - 1]]
    <3> HIDE DEF step
    <3>1. QED
      BY <1>4
  <2>4. step[k] = [b \in S |-> MoveActive(options, b, d)]
    OBVIOUS
  <2> HIDE DEF step, S
  <2>5. QED
    BY <2>2, <2>3, <2>4
<1>6. IsTour(f, options, a, d)
  BY <1>4, <1>5 DEF IsTour
<1>7. QED
  BY <1>6

\* Wherever it starts, it is the one function with these values.
LEMMA TourIsOne ==
  ASSUME NEW options \in Seq(Option), NEW a \in 1..Len(options), NEW d \in {1, -1},
         NEW g, IsTour(g, options, a, d),
         NEW f, f[0] = a, \A k \in 1..Len(options) : f[k] = MoveActive(options, f[k - 1], d)
  PROVE  \A k \in 0..Len(options) : f[k] = g[k]
<1> DEFINE Bad == {k \in 0..Len(options) : f[k] # g[k]}
<1>1. SUFFICES ASSUME Bad # {} PROVE FALSE
  OBVIOUS
<1>2. PICK m \in Bad : \A k \in Bad : m <= k
  <2>1. Bad \in SUBSET Nat
    OBVIOUS
  <2> HIDE DEF Bad
  <2>2. QED
    BY <1>1, <2>1, LeastOf
<1>3. m \in 0..Len(options) /\ f[m] # g[m]
  BY <1>2
<1>4. m # 0
  BY <1>3 DEF IsTour
<1>5. m \in 1..Len(options) /\ m - 1 \in 0..Len(options) /\ ~(m <= m - 1)
  BY <1>3, <1>4
<1>6. f[m - 1] = g[m - 1]
  BY <1>2, <1>5
<1>7. f[m] = g[m]
  BY <1>5, <1>6 DEF IsTour
<1>8. QED
  BY <1>3, <1>7

\* Where a menu that is opened starts.
LEMMA ShowFacts ==
  ASSUME NEW options \in Seq(Option), NEW value \in {o.value : o \in Range(options)}, NEW open
  PROVE  Show(options, value, open) \in 1..Len(options)
<1>1. DOMAIN options = 1..Len(options) /\ Len(options) \in Nat
  OBVIOUS
<1>2. PICK i \in DOMAIN options : options[i].value = value
  BY DEF Range
<1> DEFINE S == {j \in DOMAIN options : options[j].value = value}
<1>3. S # {} /\ S \in SUBSET Nat /\ S \subseteq 1..Len(options)
  BY <1>1, <1>2
<1>4. SelectedIndex(options, value) = First(S)
  BY <1>3 DEF SelectedIndex
<1>5. Len(options) \in 1..Len(options)
  BY <1>1, <1>2
<1> HIDE DEF S
<1>6. First(S) \in 1..Len(options)
  BY <1>3, FirstFacts
<1>7. QED
  BY <1>4, <1>5, <1>6 DEF Show

\* What a menu offers, and what the places of a round are given to choose.
Offers(options) == {o.value : o \in {o \in Range(options) : ~o.disabled}}
Chosen(options, f) == UNION {Choose(options, f[k]) : k \in 0..Len(options)}

LEMMA RoundChooses ==
  ASSUME NEW options \in Seq(Option), NEW f,
         \A k \in 0..Len(options) : f[k] \in 1..Len(options),
         \A e \in Enabled(options) : \E k \in 0..Len(options) : f[k] = e
  PROVE  Offers(options) = Chosen(options, f)
<1>1. \A v, i : v \in Choose(options, i) <=> i \in Enabled(options) /\ v = options[i].value
  BY DEF Choose, Enabled
<1>2. \A v : v \in Offers(options) <=> \E i \in Enabled(options) : v = options[i].value
  BY DEF Offers, Range, Enabled
<1>3. \A v : v \in Chosen(options, f) <=> \E k \in 0..Len(options) : v \in Choose(options, f[k])
  BY DEF Chosen
<1>4. ASSUME NEW v \in Offers(options) PROVE v \in Chosen(options, f)
  <2>1. PICK i \in Enabled(options) : v = options[i].value
    BY <1>2
  <2>2. PICK k \in 0..Len(options) : f[k] = i
    BY <2>1
  <2>3. v \in Choose(options, f[k])
    BY <1>1, <2>1, <2>2
  <2>4. QED
    BY <1>3, <2>3
<1>5. ASSUME NEW v \in Chosen(options, f) PROVE v \in Offers(options)
  BY <1>1, <1>2, <1>3
<1>6. QED
  BY <1>4, <1>5

LEMMA MenuReaches ==
  ASSUME NEW options \in Menus
  PROVE  MenuReachesAll(options)
<1>1. options \in Seq(Option)
  BY ControlsAssumption
<1>2. SUFFICES ASSUME NEW value \in {o.value : o \in Range(options)},
                      NEW open \in {"click", "ArrowUp"}, NEW key \in {"ArrowUp", "ArrowDown"}
      PROVE  LET Active[k \in 0..Len(options)] ==
                   IF k = 0 THEN Show(options, value, open)
                   ELSE Move(options, Active[k - 1], key)
             IN {o.value : o \in {o \in Range(options) : ~o.disabled}}
                  = UNION {Choose(options, Active[k]) : k \in 0..Len(options)}
  BY DEF MenuReachesAll
<1> DEFINE n == Len(options)
           a == Show(options, value, open)
           d == IF key = "ArrowDown" THEN 1 ELSE -1
           Loop(f) == f = [k \in 0..n |-> IF k = 0 THEN a ELSE Move(options, f[k - 1], key)]
           Active == CHOOSE f : Loop(f)
<1>3. n \in Nat /\ a \in 1..n /\ d \in {1, -1}
  BY <1>1, ShowFacts
<1>4. \A x : Move(options, x, key) = MoveActive(options, x, d)
  BY DEF Move
<1>5. PICK g : IsTour(g, options, a, d)
  <2> HIDE DEF a, d, n
  <2>1. QED
    BY <1>1, <1>3, TourExists DEF n
<1>6. Loop(g)
  <2> DEFINE h == [k \in 0..n |-> IF k = 0 THEN a ELSE Move(options, g[k - 1], key)]
  <2> HIDE DEF a, d
  <2>1. g = [k \in 0..n |-> g[k]]
    BY <1>5 DEF IsTour
  <2>2. \A k \in 0..n : g[k] = IF k = 0 THEN a ELSE Move(options, g[k - 1], key)
    BY <1>3, <1>4, <1>5 DEF IsTour
  <2> HIDE DEF n
  <2>3. QED
    BY <2>1, <2>2
<1>7. Loop(Active)
  <2> HIDE DEF Loop
  <2>1. QED
    BY <1>6
<1>8. \A k \in 0..n : Active[k] = g[k]
  <2> DEFINE f == Active
  <2>1. f = [k \in 0..n |-> IF k = 0 THEN a ELSE Move(options, f[k - 1], key)]
    BY <1>7
  <2> HIDE DEF a, d, f
  <2>2. f[0] = a /\ \A k \in 1..n : f[k] = MoveActive(options, f[k - 1], d)
    <3> HIDE DEF n
    <3>1. 0 \in 0..n /\ \A k \in 1..n : k \in 0..n /\ k # 0
      BY <1>3
    <3>2. f[0] = a
      BY <2>1, <3>1
    <3>3. ASSUME NEW k \in 1..n PROVE f[k] = MoveActive(options, f[k - 1], d)
      BY <1>4, <2>1, <3>1
    <3>4. QED
      BY <3>2, <3>3
  <2>3. \A k \in 0..n : f[k] = g[k]
    BY <1>1, <1>3, <1>5, <2>2, TourIsOne
  <2>4. QED
    BY <2>3 DEF f
<1>9. \A k \in 0..n : Active[k] \in 1..n
  <2> HIDE DEF Active, a, d
  <2>1. QED
    BY <1>5, <1>8 DEF IsTour
<1>10. \A e \in Enabled(options) : \E k \in 0..n : Active[k] = e
  <2>1. ASSUME NEW e \in Enabled(options) PROVE \E k \in 0..n : g[k] = e
    <3> HIDE DEF a, d
    <3>1. QED
      BY <1>1, <1>3, <1>5, ToursReachAll
  <2> HIDE DEF Active, a, d
  <2>2. QED
    BY <1>8, <2>1
<1>11. {o.value : o \in {o \in Range(options) : ~o.disabled}}
         = UNION {Choose(options, Active[k]) : k \in 0..n}
  <2> DEFINE f == Active
  <2>1. /\ \A k \in 0..Len(options) : f[k] \in 1..Len(options)
        /\ \A e \in Enabled(options) : \E k \in 0..Len(options) : f[k] = e
    BY <1>9, <1>10
  <2> HIDE DEF Active, a, d, f
  <2>2. Offers(options) = Chosen(options, f)
    BY <1>1, <2>1, RoundChooses
  <2>3. QED
    BY <2>2 DEF f, n, Offers, Chosen
<1>12. QED
  BY <1>11

\* Whatever the catalogue and the picks, the menus show what is sent, and their keys reach all
\* they offer: Composer.tsx's onModelChange and SelectMenu.tsx's keys.
THEOREM PicksStaySent == Spec => []PicksAreSent
<1>1. PicksAreSent
  <2>1. MaxPicks \in Nat
    BY ControlsAssumption
  <2>2. QED
    BY <2>1, SentAsShown, MenuReaches DEF PicksAreSent
<1>2. QED
  BY <1>1, PTL

=============================================================================
