------------------------------- MODULE Screen -------------------------------
(***************************************************************************)
(* How the picture of the device gets to the viewers.                      *)
(*                                                                         *)
(* In each turn of the main loop rfbProcessEvents handles what viewers     *)
(* send, then sends what is due to each of them, and update_screen copies  *)
(* the pixels of the device that have changed into vncbuf, turned by the   *)
(* rotation, and marks one rectangle around them as modified.  A viewer is *)
(* sent what is modified and requested, and never anything else: a changed *)
(* pixel outside the marked rectangle stays wrong on its screen.           *)
(*                                                                         *)
(* A pixel has no colour here: "changed" are the pixels of the device that *)
(* differ from vncbuf, "stale" those of vncbuf that differ from what the   *)
(* viewer shows.  cmpbuf and vncbuf are equal after every step.            *)
(* Viewers understand NewFBSize; the cursor and scaling are left out.      *)
(***************************************************************************)
EXTENDS Turning

CONSTANTS
    Clients,         \* the viewers
    PanelWidth, PanelHeight,    \* of the device (screenformat)
    StartRotations,  \* what -r may say
    Zte,             \* whether the daemon runs with -z (display_rotate_180)
    Rotatable        \* whether viewers press F4

ASSUME ScreenAssumption ==
    /\ PanelWidth \in Nat \ {0} /\ PanelHeight \in Nat \ {0}
    /\ StartRotations \subseteq {0, 90, 180, 270}
    /\ {Zte, Rotatable} \subseteq BOOLEAN

VARIABLES
    pc,          \* where the main loop is: "events", "send" or "update"
    todo,        \* the viewers rfbProcessEvents has still to send to
    rotation,
    width, height,  \* of vncscr
    changed,     \* device pixels that are not yet in vncbuf
    viewers,     \* the viewers connected
    modified,    \* modifiedRegion of each viewer
    requested,   \* requestedRegion of each viewer
    sizePending, \* newFBSizePending of each viewer
    deferring,   \* whether startDeferring is set
    stale        \* pixels that a viewer shows otherwise than vncbuf

loop   == <<pc, todo>>
layout == <<rotation, width, height>>
view   == <<viewers, modified, requested, sizePending, deferring, stale>>
vars   == <<loop, layout, changed, view>>

-----------------------------------------------------------------------------
Panel == (0..PanelWidth - 1) \X (0..PanelHeight - 1)

\* A region is a set of pixels of vncscr.
RectOf(w, h) == (0..w - 1) \X (0..h - 1)
Whole == RectOf(width, height)

Upright(r) == r \in {0, 180}

TypeOK ==
    /\ pc \in {"events", "send", "update"}
    /\ todo \subseteq Clients
    /\ rotation \in {0, 90, 180, 270}
    /\ width = IF Upright(rotation) THEN PanelWidth ELSE PanelHeight
    /\ height = IF Upright(rotation) THEN PanelHeight ELSE PanelWidth
    /\ changed \subseteq Panel
    /\ viewers \subseteq Clients
    /\ modified \in [Clients -> SUBSET (Nat \X Nat)]
    /\ requested \in [Clients -> SUBSET (Nat \X Nat)]
    /\ sizePending \in [Clients -> BOOLEAN]
    /\ deferring \in [Clients -> BOOLEAN]
    /\ stale \in [Clients -> SUBSET (Nat \X Nat)]

\* vncbuf is black, whatever the device shows.
Init ==
    /\ pc = "events"
    /\ todo = {}
    /\ rotation \in StartRotations
    /\ width = IF Upright(rotation) THEN PanelWidth ELSE PanelHeight
    /\ height = IF Upright(rotation) THEN PanelHeight ELSE PanelWidth
    /\ changed = Panel
    /\ viewers = {}
    /\ modified = [c \in Clients |-> {}]
    /\ requested = [c \in Clients |-> {}]
    /\ sizePending = [c \in Clients |-> FALSE]
    /\ deferring = [c \in Clients |-> FALSE]
    /\ stale = [c \in Clients |-> {}]

-----------------------------------------------------------------------------
(* update_screen. *)

\* Where update_screen puts the device pixel <<i, j>> ...
Cell(r, p) == Turned(width, height, r, p)

\* ... and what it remembers of it in min_x, max_x, min_y and max_y.
Tracked(r, p) ==
    CASE r = 0   -> p
      [] r = 90  -> <<width - p[2], p[1]>>
      [] r = 180 -> <<p[1], height - p[2]>>
      [] r = 270 -> <<p[2], p[1]>>

\* Mutant: the rectangle starts where the change was tracked.
MarkedExactly(r, D) ==
    LET T == {Tracked(r, p) : p \in D} IN
    {q \in Whole :
        /\ \E t \in T : t[1] <= q[1]
        /\ \E t \in T : q[1] < t[1] + 1
        /\ \E t \in T : t[2] <= q[2]
        /\ \E t \in T : q[2] < t[2] + 1}

\* The rectangle from (min_x - 2, min_y) to (max_x + 1, max_y + 1), which
\* rfbMarkRectAsModified clips to the screen.
Marked(r, D) ==
    LET T == {Tracked(r, p) : p \in D} IN
    {q \in Whole :
        /\ \E t \in T : t[1] - 2 <= q[1]
        /\ \E t \in T : q[1] < t[1] + 1
        /\ \E t \in T : t[2] <= q[2]
        /\ \E t \in T : q[2] < t[2] + 1}

\* With -z half a turn is added, and the sum may be a rotation that no branch
\* of update_screen knows.
TurnedBy == IF Zte THEN rotation + 180 ELSE rotation

UpdateScreen ==
    /\ pc = "update"
    /\ pc' = "events"
    /\ IF TurnedBy \in {0, 90, 180, 270}
       THEN /\ changed' = {}
            /\ stale' = [c \in Clients |->
                  IF c \in viewers
                  THEN stale[c] \cup {Cell(TurnedBy, p) : p \in changed}
                  ELSE {}]
            /\ modified' = [c \in Clients |->
                  IF c \in viewers
                  THEN modified[c] \cup Marked(TurnedBy, changed)
                  ELSE {}]
       ELSE UNCHANGED <<changed, stale, modified>>
    /\ UNCHANGED <<todo, layout, viewers, requested, sizePending, deferring>>

\* The device draws something new, or what vncbuf shows already.
ScreenChanges ==
    /\ \E p \in Panel :
          changed' \in {changed \cup {p}, changed \ {p}}
    /\ UNCHANGED <<loop, layout, view>>

-----------------------------------------------------------------------------
(* rfbProcessEvents: what viewers send. *)

Handling(c) == pc = "events" /\ c \in viewers

\* A new viewer is owed the whole screen.
Connect(c) ==
    /\ pc = "events"
    /\ c \notin viewers
    /\ viewers' = viewers \cup {c}
    /\ modified' = [modified EXCEPT ![c] = Whole]
    /\ stale' = [stale EXCEPT ![c] = Whole]
    /\ UNCHANGED <<loop, layout, changed, requested, sizePending, deferring>>

Leave(c) ==
    /\ Handling(c)
    /\ viewers' = viewers \ {c}
    /\ modified' = [modified EXCEPT ![c] = {}]
    /\ requested' = [requested EXCEPT ![c] = {}]
    /\ stale' = [stale EXCEPT ![c] = {}]
    /\ sizePending' = [sizePending EXCEPT ![c] = FALSE]
    /\ deferring' = [deferring EXCEPT ![c] = FALSE]
    /\ UNCHANGED <<loop, layout, changed>>

\* Mutant: requests are taken as they come.
Unclipped(region) == region

\* rectSwapIfLEAndClip.
Clipped(region) == region \cap Whole

\* rfbFramebufferUpdateRequest.
UpdateRequest(c, region, incremental) ==
    /\ Handling(c)
    /\ requested' = [requested EXCEPT ![c] = @ \cup Clipped(region)]
    /\ modified' = [modified EXCEPT ![c] =
                       IF incremental THEN @ ELSE @ \cup Clipped(region)]
    /\ UNCHANGED <<loop, layout, changed, viewers, sizePending, deferring,
                   stale>>

\* Viewers ask for the first rows, for the whole screen, or for more, which
\* they do when they have not heard of a new size.
Request(c) ==
    \E rows \in 1..height + 1, incremental \in BOOLEAN :
        UpdateRequest(c, RectOf(width, rows), incremental)

\* Mutant: the width and the height are not swapped.
RotateUnswapped(c) ==
    /\ Rotatable
    /\ Handling(c)
    /\ rotation' = (rotation + 90) % 360
    /\ changed' \in SUBSET Panel
    /\ sizePending' = [d \in Clients |-> d \in viewers]
    /\ modified' = [d \in Clients |->
          IF d \in viewers THEN modified[d] \cup Whole ELSE {}]
    /\ stale' = [d \in Clients |-> IF d \in viewers THEN Whole ELSE {}]
    /\ UNCHANGED <<loop, width, height, viewers, requested, deferring>>

\* F4: rotate(-1).  What vncbuf holds is read with the other width from now
\* on, so any pixel may differ from it, and all a viewer shows is wrong.
Rotate(c) ==
    /\ Rotatable
    /\ Handling(c)
    /\ rotation' = (rotation + 90) % 360
    /\ width' = height
    /\ height' = width
    /\ changed' \in SUBSET Panel
    /\ sizePending' = [d \in Clients |-> d \in viewers]
    /\ modified' = [d \in Clients |->
          IF d \in viewers THEN modified[d] \cup RectOf(height, width) ELSE {}]
    /\ stale' = [d \in Clients |->
          IF d \in viewers THEN RectOf(height, width) ELSE {}]
    /\ UNCHANGED <<loop, viewers, requested, deferring>>

EventsDone ==
    /\ pc = "events"
    /\ pc' = "send"
    /\ todo' = viewers
    /\ UNCHANGED <<layout, changed, view>>

-----------------------------------------------------------------------------
(* rfbProcessEvents: rfbUpdateClient for each viewer. *)

\* FB_UPDATE_PENDING, and something has been asked for.
Due(c) == (modified[c] # {} \/ sizePending[c]) /\ requested[c] # {}

Visit(c) ==
    /\ pc = "send" /\ c \in todo
    /\ todo' = todo \ {c}
    /\ UNCHANGED <<pc, layout, changed, viewers>>

NothingDue(c) ==
    /\ Visit(c)
    /\ ~Due(c)
    /\ UNCHANGED <<modified, requested, sizePending, deferring, stale>>

\* deferUpdateTime starts; the turn takes longer, so it is over next time.
StartDeferring(c) ==
    /\ Visit(c)
    /\ Due(c) /\ ~deferring[c]
    /\ deferring' = [deferring EXCEPT ![c] = TRUE]
    /\ UNCHANGED <<modified, requested, sizePending, stale>>

Sending(c) ==
    /\ Visit(c)
    /\ Due(c) /\ deferring[c]
    /\ deferring' = [deferring EXCEPT ![c] = FALSE]

\* Mutant: the new size is sent, and sent again.
SendSizeAgain(c) ==
    /\ Sending(c)
    /\ sizePending[c]
    /\ UNCHANGED <<modified, requested, sizePending, stale>>

\* A new size goes alone; what was requested is still to be answered.
SendNewFBSize(c) ==
    /\ Sending(c)
    /\ sizePending[c]
    /\ sizePending' = [sizePending EXCEPT ![c] = FALSE]
    /\ UNCHANGED <<modified, requested, stale>>

\* Mutant: the request stays unanswered for ever.
SendNothing(c) ==
    /\ Sending(c)
    /\ ~sizePending[c]
    /\ requested' = [requested EXCEPT ![c] = {}]
    /\ UNCHANGED <<modified, stale, sizePending>>

\* rfbSendFramebufferUpdate: with nothing in common the request is kept.
SendUpdate(c) ==
    LET updateRegion == modified[c] \cap requested[c] IN
    /\ Sending(c)
    /\ ~sizePending[c]
    /\ modified' = [modified EXCEPT ![c] = @ \ updateRegion]
    /\ stale' = [stale EXCEPT ![c] = @ \ updateRegion]
    /\ requested' = [requested EXCEPT ![c] =
                        IF updateRegion = {} THEN @ ELSE {}]
    /\ UNCHANGED sizePending

\* Mutant: the screen is read only when no viewer waits for an answer.
ClientsDoneUnasked ==
    /\ pc = "send" /\ todo = {}
    /\ pc' = IF \E c \in viewers : requested[c] # {} THEN "events" ELSE "update"
    /\ UNCHANGED <<todo, layout, changed, view>>

\* Without a viewer the screen is not read.
ClientsDone ==
    /\ pc = "send" /\ todo = {}
    /\ pc' = IF viewers = {} THEN "events" ELSE "update"
    /\ UNCHANGED <<todo, layout, changed, view>>

-----------------------------------------------------------------------------
Visits(c) ==
    NothingDue(c) \/ StartDeferring(c) \/ SendNewFBSize(c) \/ SendUpdate(c)

Loop ==
    \/ EventsDone
    \/ \E c \in Clients : Visits(c)
    \/ ClientsDone
    \/ UpdateScreen

Viewer(c) == Connect(c) \/ Leave(c) \/ Request(c) \/ Rotate(c)

Next == Loop \/ ScreenChanges \/ \E c \in Clients : Viewer(c)

Spec == Init /\ [][Next]_vars

\* The main loop runs, no viewer keeps it handling messages for ever, and a
\* viewer asks for the whole screen again and again.
Fairness ==
    /\ WF_vars(Loop)
    /\ \A c \in Clients :
          SF_vars(UpdateRequest(c, Whole, TRUE))

FairSpec == Spec /\ Fairness

-----------------------------------------------------------------------------
(* Properties. *)

\* Whatever a viewer shows otherwise than vncbuf is still to be sent to it:
\* no change of the screen is forgotten, whichever pixels changed together,
\* whatever was requested meanwhile.
NothingForgotten ==
    \A c \in viewers : stale[c] \subseteq modified[c]

\* What is about to be sent lies in the frame buffer.
SendsWhatThereIs ==
    \A c \in viewers :
        ~sizePending[c] => modified[c] \cap requested[c] \subseteq Whole

\* A changed pixel of the device gets into vncbuf while somebody looks.
ScreenIsFollowed ==
    \A p \in Panel :
        (p \in changed /\ viewers # {}) ~> (p \notin changed \/ viewers = {})

\* A viewer that stays and keeps asking hears of a new size, however often
\* F4 is pressed.
SizeArrives ==
    \A c \in Clients : sizePending[c] ~> ~sizePending[c]

\* The pixels that vncscr has at one rotation or another.
Places == Panel \cup RectOf(PanelHeight, PanelWidth)

\* A wrong pixel on a viewer that stays and keeps asking is put right, at
\* whichever rotation the daemon was started.
PixelsArrive ==
    \A c \in Clients, p \in Places :
        (p \in stale[c]) ~> (p \notin stale[c])
=============================================================================
