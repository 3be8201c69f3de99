------------------------------ MODULE Pointer -------------------------------
(***************************************************************************)
(* How viewers point and click.                                            *)
(*                                                                         *)
(* LibVNCServer lets one viewer at a time have the pointer: the one that   *)
(* holds a button (pointerClient).  ptrEvent turns its events into those   *)
(* of a uinput device: the left button is a touch, the right one the BACK  *)
(* key, the middle one KEY_END.  Which buttons are down it keeps in static *)
(* flags, for all viewers together.  A viewer may leave with a button      *)
(* down, F4 may turn the screen in the middle of a drag, keys that are     *)
(* typed may be those the buttons stand for, and close_app, in another     *)
(* thread, destroys the device while events go on.                         *)
(*                                                                         *)
(* "down" and "at" are what the kernel keeps of the device.  Pointer       *)
(* events are not deferred (deferPtrUpdateTime is 0); scaling, view-only   *)
(* viewers and a daemon that runs with -z are left out.                    *)
(***************************************************************************)
EXTENDS Turning

CONSTANTS
    Clients,        \* the viewers
    Nobody,         \* the pointerClient when no button is held: NULL
    PanelWidth, PanelHeight,    \* of the device
    MovesPerReport  \* of so many moves one is reported: 10 in the code

ASSUME PointerAssumption ==
    /\ Nobody \notin Clients
    /\ PanelWidth \in Nat \ {0} /\ PanelHeight \in Nat \ {0}
    /\ MovesPerReport \in Nat \ {0, 1}

VARIABLES
    viewers,        \* the viewers connected
    pointerClient,  \* the viewer that has the pointer
    lastPtrButtons, \* what each viewer held in its last event
    clicked,        \* leftClicked, middleClicked and rightClicked
    moves,          \* the static i of ptrEvent, of which only i % 10 matters
    uinput,         \* "none" (could not be opened), "open" or "closed"
    down,           \* the keys of the device that are down
    at,             \* ABS_X and ABS_Y
    rotation,
    width, height   \* of vncscr

flags  == <<clicked, moves>>
device == <<down, at>>
layout == <<rotation, width, height>>
vars   == <<viewers, pointerClient, lastPtrButtons, flags, uinput, device,
            layout>>

-----------------------------------------------------------------------------
Buttons == {"left", "middle", "right"}

\* What ptrEvent makes of a button.
KeyOf == [b \in Buttons |->
            CASE b = "left"   -> "BTN_TOUCH"
              [] b = "middle" -> "KEY_END"
              [] b = "right"  -> "KEY_BACK"]

Keys(B) == {KeyOf[b] : b \in B}

\* A buttonMask may have bits that ptrEvent does not look at, which are one
\* here: those of the wheel.
Masks == SUBSET (Buttons \cup {"wheel"})

Touched == "BTN_TOUCH" \in down

Panel == (0..PanelWidth - 1) \X (0..PanelHeight - 1)
Whole == (0..width - 1) \X (0..height - 1)

\* A viewer that has not heard of a rotation yet points by the old size.
Longest == IF PanelWidth > PanelHeight THEN PanelWidth ELSE PanelHeight
Places == (0..Longest - 1) \X (0..Longest - 1)

PointerTypeOK ==
    /\ viewers \subseteq Clients
    /\ pointerClient \in viewers \cup {Nobody}
    /\ lastPtrButtons \in [Clients -> Masks]
    /\ clicked \subseteq Buttons
    /\ moves \in 0..MovesPerReport - 1
    /\ uinput \in {"none", "open", "closed"}
    /\ down \subseteq Keys(Buttons)
    /\ at \in Int \X Int
    /\ rotation \in {0, 90, 180, 270}
    /\ width = IF rotation \in {0, 180} THEN PanelWidth ELSE PanelHeight
    /\ height = IF rotation \in {0, 180} THEN PanelHeight ELSE PanelWidth

Init ==
    /\ viewers = {}
    /\ pointerClient = Nobody
    /\ lastPtrButtons = [c \in Clients |-> {}]
    /\ clicked = {}
    /\ moves = 0
    /\ uinput \in {"none", "open"}
    /\ down = {}
    /\ at = <<0, 0>>
    /\ rotation \in {0, 90, 180, 270}
    /\ width = IF rotation \in {0, 180} THEN PanelWidth ELSE PanelHeight
    /\ height = IF rotation \in {0, 180} THEN PanelHeight ELSE PanelWidth

-----------------------------------------------------------------------------
(* transformTouchCoordinates: from pixels to the range of the device. *)

Scale == 4096

\* C divides towards zero.  A place outside the screen may be negative here.
Scaled(a, n) ==
    (IF a >= 0 THEN (a * Scale) \div n ELSE -((-a * Scale) \div n))
        - Scale \div 2

\* Mutant: at 180 degrees only the height is turned round.
TransformHalf(p) ==
    CASE rotation = 0   -> <<Scaled(p[1], width), Scaled(p[2], height)>>
      [] rotation = 90  -> <<Scaled(p[2], height), Scaled(width - p[1], width)>>
      [] rotation = 180 -> <<Scaled(p[1], width), Scaled(height - p[2], height)>>
      [] rotation = 270 -> <<Scaled(height - p[2], height), Scaled(p[1], width)>>

TransformTouchCoordinates(p) ==
    CASE rotation = 0   -> <<Scaled(p[1], width), Scaled(p[2], height)>>
      [] rotation = 90  -> <<Scaled(p[2], height), Scaled(width - p[1], width)>>
      [] rotation = 180 -> <<Scaled(width - p[1], width),
                             Scaled(height - p[2], height)>>
      [] rotation = 270 -> <<Scaled(height - p[2], height), Scaled(p[1], width)>>

-----------------------------------------------------------------------------
(* ptrEvent. *)

Moving(B) == "left" \in B \cap clicked
Clicking(B) == ("left" \in B) # ("left" \in clicked)

\* Moves are counted over all drags of all viewers.
NextMove(B) == IF Moving(B) THEN (moves + 1) % MovesPerReport ELSE moves

Reported(B) == Clicking(B) \/ (Moving(B) /\ NextMove(B) = 1)

\* The right and the middle button are pressed with every event.
Pressed(B) == IF Moving(B) THEN B \ {"left"} ELSE B

\* Mutant: a button is looked at only when the left one is up.
ReleasedAlone(B) == IF "left" \in B THEN {} ELSE clicked \ B

Released(B) == clicked \ B

\* Mutant: a move of the left button is all there is to do.
PtrEventMoves(B, p) ==
    IF uinput = "none"
    THEN UNCHANGED <<flags, device>>
    ELSE /\ clicked' = IF Moving(B) THEN clicked ELSE B
         /\ moves' = NextMove(B)
         /\ IF uinput = "open"
            THEN /\ down' = IF Moving(B) THEN down
                            ELSE (down \cup Keys(B)) \ Keys(Released(B))
                 /\ at' = IF Reported(B) THEN TransformTouchCoordinates(p)
                          ELSE at
            ELSE UNCHANGED device

\* Once the device is destroyed the flags go on without it.
PtrEvent(B, p) ==
    IF uinput = "none"
    THEN UNCHANGED <<flags, device>>
    ELSE /\ clicked' = B
         /\ moves' = NextMove(B)
         /\ IF uinput = "open"
            THEN /\ down' = (down \cup Keys(Pressed(B))) \ Keys(Released(B))
                 /\ at' = IF Reported(B) THEN TransformTouchCoordinates(p)
                          ELSE at
            ELSE UNCHANGED device

\* Mutant: anyone may point.
PointerEventOfAnyone(c, M, p) ==
    /\ c \in viewers
    /\ pointerClient' = IF M = {} THEN Nobody ELSE c
    /\ lastPtrButtons' = [lastPtrButtons EXCEPT ![c] = M]
    /\ PtrEvent(M \cap Buttons, p)
    /\ UNCHANGED <<viewers, uinput, layout>>

\* Mutant: an event with the same buttons as the one before is put off.
PointerEventOfChange(c, M, p) ==
    /\ c \in viewers
    /\ pointerClient \in {Nobody, c}
    /\ pointerClient' = IF M = {} THEN Nobody ELSE c
    /\ lastPtrButtons' = [lastPtrButtons EXCEPT ![c] = M]
    /\ IF M # lastPtrButtons[c] THEN PtrEvent(M \cap Buttons, p)
       ELSE UNCHANGED <<flags, device>>
    /\ UNCHANGED <<viewers, uinput, layout>>

\* rfbPointerEvent of viewer c, with the mask M at the place p.  While another
\* viewer holds a button, be it that of the wheel, the event is dropped.
PointerEvent(c, M, p) ==
    /\ c \in viewers
    /\ pointerClient \in {Nobody, c}
    /\ pointerClient' = IF M = {} THEN Nobody ELSE c
    /\ lastPtrButtons' = [lastPtrButtons EXCEPT ![c] = M]
    /\ PtrEvent(M \cap Buttons, p)
    /\ UNCHANGED <<viewers, uinput, layout>>

Point(c) == \E M \in Masks, p \in Places : PointerEvent(c, M, p)

\* keyEvent with a key that a button stands for too (Esc and Del are BACK):
\* pressed and released at once.
TypeKey(c) ==
    /\ c \in viewers
    /\ uinput = "open"
    /\ \E k \in {"KEY_BACK", "KEY_END"} : down' = down \ {k}
    /\ UNCHANGED <<viewers, pointerClient, lastPtrButtons, flags, uinput, at,
                   layout>>

\* F4: rotate(-1).  Without a device keyEvent returns before.
Rotate(c) ==
    /\ c \in viewers
    /\ uinput # "none"
    /\ rotation' = (rotation + 90) % 360
    /\ width' = height
    /\ height' = width
    /\ UNCHANGED <<viewers, pointerClient, lastPtrButtons, flags, uinput,
                   device>>

-----------------------------------------------------------------------------
(* Viewers come and go, and close_app ends the device. *)

Connect(c) ==
    /\ c \notin viewers
    /\ viewers' = viewers \cup {c}
    /\ UNCHANGED <<pointerClient, lastPtrButtons, flags, uinput, device,
                   layout>>

\* Mutant: the pointer stays with the viewer that has gone.
LeaveHolding(c) ==
    /\ c \in viewers
    /\ viewers' = viewers \ {c}
    /\ lastPtrButtons' = [lastPtrButtons EXCEPT ![c] = {}]
    /\ UNCHANGED <<pointerClient, flags, uinput, device, layout>>

\* rfbClientConnectionGone frees what is kept of the client: nobody has the
\* pointer, but the flags and the device stay as they are.
Leave(c) ==
    /\ c \in viewers
    /\ viewers' = viewers \ {c}
    /\ pointerClient' = IF pointerClient = c THEN Nobody ELSE pointerClient
    /\ lastPtrButtons' = [lastPtrButtons EXCEPT ![c] = {}]
    /\ UNCHANGED <<flags, uinput, device, layout>>

\* cleanupInput, after which the process soon ends.  The kernel releases what
\* is down.
CleanupInput ==
    /\ uinput = "open"
    /\ uinput' = "closed"
    /\ down' = {}
    /\ UNCHANGED <<viewers, pointerClient, lastPtrButtons, flags, at, layout>>

-----------------------------------------------------------------------------
Viewer(c) == Connect(c) \/ Leave(c) \/ Point(c) \/ TypeKey(c) \/ Rotate(c)

Next == CleanupInput \/ \E c \in Clients : Viewer(c)

Spec == Init /\ [][Next]_vars

\* A viewer that may point again and again also points without a button.
LetsGo(c) == \E p \in Places : PointerEvent(c, {}, p)

FairSpec == Spec /\ \A c \in Clients : SF_vars(LetsGo(c))

-----------------------------------------------------------------------------
(* Properties. *)

\* As long as there is a device, it is touched exactly while leftClicked is
\* set, and no key of a button is left down that no flag will release.
KeysAgree ==
    uinput = "open" =>
        /\ Touched <=> "left" \in clicked
        /\ down \subseteq Keys(clicked)

\* The static flags are those of the viewer that has the pointer, though
\* others may have left theirs behind.
HolderDecides ==
    pointerClient # Nobody /\ uinput # "none" =>
        clicked = lastPtrButtons[pointerClient] \cap Buttons

\* A touch of the viewer that has the pointer ends only when that viewer lets
\* go or the device is destroyed, whatever others send.
TouchIsHeld ==
    [][\A c \in Clients :
        (/\ pointerClient = c /\ "left" \in lastPtrButtons[c]
         /\ Touched /\ ~Touched')
        => "left" \notin lastPtrButtons'[c] \/ uinput' = "closed"]_vars

\* Where the i-th of n pixels begins on a range of Scale around 0.  (The range
\* suinput_open announces, from -2047 to 2048, lies one higher.)
Start(i, n) == (i * Scale) \div n - Scale \div 2

\* A position lies on a pixel of the device, its edges included.
LiesOn(position, q) ==
    /\ Start(q[1], PanelWidth) <= position[1]
    /\ position[1] <= Start(q[1] + 1, PanelWidth)
    /\ Start(q[2], PanelHeight) <= position[2]
    /\ position[2] <= Start(q[2] + 1, PanelHeight)

\* A touch begins and ends on the pixel of the device that update_screen shows
\* at the place pointed at, at every rotation.
TouchHits ==
    [][\A c \in Clients, M \in Masks, p \in Whole, q \in Panel :
        (/\ Touched # Touched'
         /\ Turned(width, height, rotation, q) = p
         /\ PointerEvent(c, M, p))
        => LiesOn(at', q)]_vars

\* A touch ends, unless all viewers leave: the one that a viewer leaves behind
\* is ended by another, whose event without buttons is not dropped.
PressEnds == Touched ~> (~Touched \/ viewers = {})
=============================================================================
