------------------------------ MODULE Composer ------------------------------
(***************************************************************************)
(* The composer of the web app (frontend/apps/web/src/components/          *)
(* Composer.tsx with lib/composerSend.ts): the draft of each session, its  *)
(* text and its staged images, over switches between sessions, leaving and *)
(* coming back, reads of files and sends that fail.  What a handler sees   *)
(* is the last render, not the newest state: what an event of the user     *)
(* sets is rendered at once, what an await or the switch of a session sets *)
(* some time later.  A composer that is unmounted goes on with the refs it *)
(* had.                                                                    *)
(***************************************************************************)
EXTENDS Naturals, FiniteSets

CONSTANTS
  Sessions,
  Images,   \* files, each attached at most once
  Texts,    \* what may be typed
  NoText,   \* the empty draft
  None,
  MaxLeaves \* bound: times the user leaves the conversation

ASSUME ComposerAssumption == NoText \notin Texts /\ None \notin Sessions /\ MaxLeaves \in Nat

VARIABLES
  current,   \* currentSessionId; the composer is mounted iff it is not None
  \* the mounted composer
  text,
  images,    \* the newest images state
  frame,     \* the text, the images (imagesRef) and the pick of the last render
  sending,   \* no, yes, ended (until it is rendered)
  meta,      \* currentSessionMeta has arrived
  pick,      \* model and effort: the session they were chosen in or for, None for the defaults
  \* module level
  texts,     \* draftBySession
  parked,    \* imageDraftBySession
  urls,      \* the object URLs not revoked yet
  \* awaits
  reads,     \* addFiles in flight: the files left to read, and those read
  sends,     \* the sendMessage calls in flight
  \* observation
  home,      \* of each image attached so far, the session it was attached in
  intended,  \* of each session, the text last typed and not sent
  clashes,   \* the races the code does not guard against, met so far
  leaves     \* bound

drafts == <<texts, parked, urls>>
awaits == <<reads, sends>>
controls == <<meta, pick>>
observed == <<home, intended, clashes, leaves>>
vars == <<current, text, images, frame, sending, controls, drafts, awaits, observed>>

\* What an unmounted composer is left with: the session and the images it last rendered.
Refs == [session : Sessions, images : SUBSET Images]
ASSUME RefsAssumption == None \notin Refs
Kinds == {"stale render", "unmounted", "typed over", "moved"}
Frames == [text : Texts \cup {NoText}, images : SUBSET Images, pick : Sessions \cup {None}]

\* Types; what an await left behind names the session and the images it was left with.
TypeOK ==
  /\ current \in Sessions \cup {None} /\ text \in Texts \cup {NoText}
  /\ {images, urls} \subseteq SUBSET Images /\ frame \in Frames
  /\ home \in [Images -> Sessions \cup {None}]
  /\ sending \in {"no", "yes", "ended"} /\ meta \in BOOLEAN /\ pick \in Sessions \cup {None}
  /\ {texts, intended} \subseteq [Sessions -> Texts \cup {NoText}]
  /\ parked \in [Sessions -> SUBSET Images]
  /\ reads \subseteq [left : SUBSET Images, ready : SUBSET Images, refs : Refs \cup {None}]
  /\ sends \subseteq [to : Sessions, text : Texts \cup {NoText}, images : SUBSET Images,
                      pick : Sessions \cup {None}, refs : Refs \cup {None}]
  /\ clashes \subseteq Kinds /\ leaves \in 0..MaxLeaves

Blank == [text |-> NoText, images |-> {}, pick |-> None]

Init ==
  /\ current = None /\ text = NoText /\ images = {} /\ frame = Blank /\ sending = "no"
  /\ meta = FALSE /\ pick = None
  /\ texts = [s \in Sessions |-> NoText] /\ parked = [s \in Sessions |-> {}] /\ urls = {}
  /\ reads = {} /\ sends = {}
  /\ home = [i \in Images |-> None] /\ intended = texts /\ clashes = {} /\ leaves = 0

Mounted == current # None
Clash(kinds) == clashes' = clashes \cup kinds
\* imagesRef is read while a newer state waits for its render.
Stale == images # frame.images
ClashIfStale == Clash(IF Stale THEN {"stale render"} ELSE {})

\* An event of the user sets the images and renders.
SetImages(imgs) == images' = imgs /\ frame' = [frame EXCEPT !.images = imgs]
\* saveImageDraft.
SaveImageDraft(s, imgs) == parked' = [parked EXCEPT ![s] = imgs]

----------------------------------------------------------------------------
(* The user *)

\* openSession: a composer that is mounted renders with the new session, then drops the
\* picks and swaps in the drafts of s, which are rendered later; another is mounted and
\* does the same.  The session's record is asked for again.
Open(s) ==
  /\ s # current /\ current' = s
  /\ text' = texts[s] /\ images' = parked[s]
  /\ sending' = IF Mounted THEN sending ELSE "no"
  /\ meta' = FALSE /\ pick' = None
  /\ UNCHANGED <<frame, drafts, awaits, observed>>

\* closeSession unmounts the composer, which parks the images it rendered.
Leave ==
  LET refs == [session |-> current, images |-> frame.images]
      Adrift(f) == IF f.refs = None THEN [f EXCEPT !.refs = refs] ELSE f
  IN /\ Mounted /\ current' = None
     /\ leaves < MaxLeaves /\ leaves' = leaves + 1
     /\ SaveImageDraft(current, frame.images) /\ ClashIfStale
     /\ text' = NoText /\ images' = {} /\ frame' = Blank /\ sending' = "no"
     /\ meta' = FALSE /\ pick' = None
     /\ reads' = {Adrift(f) : f \in reads} /\ sends' = {Adrift(f) : f \in sends}
     /\ UNCHANGED <<texts, urls, home, intended>>

Type(t) ==
  /\ Mounted /\ t # text
  /\ text' = t /\ frame' = [frame EXCEPT !.text = t] /\ texts' = [texts EXCEPT ![current] = t]
  /\ intended' = [intended EXCEPT ![current] = t]
  /\ UNCHANGED <<current, images, sending, controls, parked, urls, awaits, home, clashes, leaves>>

\* A model or an effort is picked.
PickModel ==
  /\ Mounted /\ pick' = current /\ frame' = [frame EXCEPT !.pick = current]
  /\ UNCHANGED <<current, text, images, sending, meta, drafts, awaits, observed>>

\* addFiles, to its first await: pasted, dropped or picked.
AddFiles(batch) ==
  /\ Mounted /\ batch # {} /\ \A i \in batch : home[i] = None
  /\ home' = [i \in Images |-> IF i \in batch THEN current ELSE home[i]]
  /\ reads' = reads \cup {[left |-> batch, ready |-> {}, refs |-> None]}
  /\ UNCHANGED <<current, text, images, frame, sending, controls, drafts, sends, intended, clashes, leaves>>

\* Mutant: the URL of a removed image is kept.
RemoveImageKept(i) ==
  LET next == frame.images \ {i}
  IN /\ Mounted /\ i \in frame.images
     /\ SetImages(next) /\ SaveImageDraft(current, next) /\ ClashIfStale
     /\ UNCHANGED <<current, text, sending, controls, texts, urls, awaits, home, intended, leaves>>

\* removeImage.
RemoveImage(i) ==
  LET next == frame.images \ {i}
  IN /\ Mounted /\ i \in frame.images
     /\ urls' = urls \ {i}
     /\ SetImages(next) /\ SaveImageDraft(current, next) /\ ClashIfStale
     /\ UNCHANGED <<current, text, sending, controls, texts, awaits, home, intended, leaves>>

\* What a key pressed before a switch was rendered is about: the other session's draft.
Outdated == Stale \/ frame.text # text \/ frame.pick \notin {None, current}

\* submit, to its await: the composer is cleared before the answer is known.  That no
\* run is active is the store's matter.
Submit ==
  /\ Mounted /\ sending = "no" /\ (frame.text # NoText \/ frame.images # {})
  /\ sends' = sends \cup {[to |-> current, text |-> frame.text, images |-> frame.images,
                           pick |-> frame.pick, refs |-> None]}
  /\ sending' = "yes"
  /\ text' = NoText /\ texts' = [texts EXCEPT ![current] = NoText]
  /\ images' = {} /\ SaveImageDraft(current, {})
  /\ frame' = [frame EXCEPT !.text = NoText, !.images = {}]
  /\ Clash(IF Outdated THEN {"stale render"} ELSE {})
  /\ intended' = [intended EXCEPT ![current] = NoText]
  /\ UNCHANGED <<current, controls, urls, reads, home, leaves>>

----------------------------------------------------------------------------
(* What runs later *)

\* The record of the open session arrives, and its last-used model and effort replace
\* what is picked.
MetaArrives ==
  /\ Mounted /\ ~meta /\ meta' = TRUE /\ pick' = current
  /\ UNCHANGED <<current, text, images, frame, sending, drafts, awaits, observed>>

\* React renders what an await or a switch left behind.
Newest == [text |-> text, images |-> images, pick |-> pick]
Render ==
  /\ frame # Newest \/ sending = "ended"
  /\ frame' = Newest
  /\ sending' = IF sending = "ended" THEN "no" ELSE sending
  /\ UNCHANGED <<current, text, images, controls, drafts, awaits, observed>>

\* The last file of addFiles is read or cannot be, and what was read joins the images of
\* the last render, in the session that is shown now.  An unmounted composer only parks it.
Stage(f, ready) ==
  LET base == IF f.refs = None THEN frame.images ELSE f.refs.images
      at == IF f.refs = None THEN current ELSE f.refs.session
      moved == IF \E i \in ready : home[i] # at THEN {"moved"} ELSE {}
      stale == IF f.refs = None /\ Stale THEN {"stale render"} ELSE {}
      left == IF f.refs # None THEN {"unmounted"} ELSE {}
  IN /\ reads' = reads \ {f}
     /\ SaveImageDraft(at, base \cup ready)
     /\ images' = IF f.refs = None THEN base \cup ready ELSE images
     /\ Clash(moved \cup stale \cup left)

\* addFiles goes on with the next file, or stages what it has.
GoOn(f, left, ready) ==
  IF left # {}
    THEN reads' = (reads \ {f}) \cup {[f EXCEPT !.left = left, !.ready = ready]}
         /\ UNCHANGED <<images, parked, clashes>>
    ELSE IF ready # {} THEN Stage(f, ready)
         ELSE reads' = reads \ {f} /\ UNCHANGED <<images, parked, clashes>>

\* A file of addFiles is read, and has its URL from then on; the others follow.
FileRead(f, i) ==
  /\ i \in f.left /\ urls' = urls \cup {i}
  /\ GoOn(f, f.left \ {i}, f.ready \cup {i})
  /\ UNCHANGED <<current, text, frame, sending, controls, texts, sends, home, intended, leaves>>

FileUnreadable(f, i) ==
  /\ i \in f.left
  /\ GoOn(f, f.left \ {i}, f.ready)
  /\ UNCHANGED <<current, text, frame, sending, controls, texts, urls, sends, home, intended, leaves>>

\* setSending(false).
Ended(f) == IF f.refs = None THEN "ended" ELSE sending

\* sendMessage returned true: the thumbnails are released.
Sent(f) ==
  /\ sends' = sends \ {f} /\ urls' = urls \ f.images
  /\ sending' = Ended(f)
  /\ UNCHANGED <<current, text, images, frame, controls, texts, parked, reads, observed>>

\* composerSendSettlement: put back on screen only in the session it was written for;
\* mutant: wherever the user is.
RestoresAnywhere(f) == f.refs = None
Restores(f) == f.refs = None /\ current = f.to

\* It returned false: the draft is put back, over what was typed meanwhile.  A composer
\* that is unmounted does not know the one on screen.
NotSent(f) ==
  /\ sends' = sends \ {f}
  /\ texts' = [texts EXCEPT ![f.to] = f.text] /\ SaveImageDraft(f.to, f.images)
  /\ IF Restores(f)
       THEN text' = f.text /\ images' = f.images
       ELSE UNCHANGED <<text, images>>
  /\ sending' = Ended(f)
  /\ intended' = [intended EXCEPT ![f.to] = IF @ = NoText THEN f.text ELSE @]
  /\ Clash((IF intended[f.to] # NoText \/ parked[f.to] # {} THEN {"typed over"} ELSE {})
           \cup (IF f.refs # None /\ current = f.to THEN {"unmounted"} ELSE {}))
  /\ UNCHANGED <<current, frame, controls, urls, reads, home, leaves>>

----------------------------------------------------------------------------

Next ==
  \/ \E s \in Sessions : Open(s)
  \/ Leave \/ Submit \/ Render \/ PickModel \/ MetaArrives
  \/ \E t \in Texts \cup {NoText} : Type(t)
  \/ \E batch \in SUBSET Images : AddFiles(batch)
  \/ \E i \in Images : RemoveImage(i) \/ \E f \in reads : FileRead(f, i) \/ FileUnreadable(f, i)
  \/ \E f \in sends : Sent(f) \/ NotSent(f)

Spec == Init /\ [][Next]_vars

----------------------------------------------------------------------------
(* Properties *)

Belong(imgs, s) == \A i \in imgs : home[i] = s

\* But for the four races named in clashes, what was typed for a session and not sent
\* is that session's draft, and the draft of the open session is what is on screen or
\* about to be (Composer.tsx 30: "switching away from a session and back restores whatever
\* was typed but not yet sent").  An image is staged in the session it was attached in, and
\* neither it nor a model and effort picked elsewhere go out with another's message.
DraftsAreKept ==
  clashes = {} =>
    /\ texts = intended
    /\ Mounted => text = texts[current] /\ images = parked[current] /\ pick \in {None, current}
    /\ \A s \in Sessions : Belong(parked[s], s)
    /\ \A f \in sends : Belong(f.images, f.to) /\ f.pick \in {None, f.to}

\* But for those races, the URLs not revoked are those of the staged images, of the
\* images being sent and of those whose other files are still being read: no thumbnail is
\* broken and none is leaked (Composer.tsx 34: "URLs are only revoked when the image is
\* actually removed or its message is sent").
UrlsReleased ==
  clashes = {} => urls = UNION ({parked[s] : s \in Sessions} \cup {f.images : f \in sends}
                                \cup {f.ready : f \in reads})

\* What the comment says (Composer.tsx 34: "Per-session staged-image drafts"): with no
\* other race, an image stays with the session it was attached in.  (A session that is
\* opened while a file is read breaks it: README, "What the code does not guarantee".)
ImagesStayInSession ==
  clashes \subseteq {"moved"} => \A s \in Sessions : Belong(parked[s], s)
=============================================================================
