-------------------------------- MODULE Idle --------------------------------
(***************************************************************************)
(* The pace of the main loop.  rfbProcessEvents waits in select for        *)
(* deferUpdateTime + standby; standby grows by two in every turn in which  *)
(* nothing happened and is two again after one in which a viewer typed or  *)
(* pointed or the screen changed.  Each message of a viewer begins the     *)
(* wait anew (handleEventsEagerly), each connection cuts it short.         *)
(*                                                                         *)
(* Times are in milliseconds.  A step stands for the part of a turn up to  *)
(* the next event.                                                         *)
(***************************************************************************)
EXTENDS Integers

CONSTANTS
    Defer,       \* vncscr->deferUpdateTime
    Slow,        \* standby while nobody is connected
    MaxCalm,     \* bound on the time that passes
    MaxArrivals  \* bound on the connections

ASSUME IdleAssumption ==
    /\ Defer \in Nat
    /\ Slow \in Nat \ {0, 1, 2}
    /\ MaxCalm \in Nat /\ MaxArrivals \in Nat

VARIABLES
    standby, idle,  \* the globals of droidvncserver.c
    watched,        \* whether a client is on the list
    changed,        \* whether the screen differs from what was compared last
    calm,           \* how long nothing has happened, or had happened when the
                    \* daemon last noticed something
    arrivals        \* the connections that were accepted in that time

vars == <<standby, idle, watched, changed, calm, arrivals>>

IdleTypeOK ==
    /\ standby \in Nat \ {0}
    /\ idle \in BOOLEAN /\ watched \in BOOLEAN /\ changed \in BOOLEAN
    /\ calm \in Nat /\ arrivals \in Nat
    /\ ~watched => idle \/ standby = 1

Init ==
    /\ standby = 1
    /\ idle = FALSE
    /\ watched = FALSE
    /\ changed \in BOOLEAN
    /\ calm = 0
    /\ arrivals = 0

-----------------------------------------------------------------------------
wait == Defer + standby

\* d milliseconds of stillness pass unless something was noticed before.
Passes(d) ==
    /\ calm + d <= MaxCalm
    /\ calm' = IF idle THEN calm + d ELSE calm

Change ==
    /\ changed' = TRUE
    /\ UNCHANGED <<standby, idle, watched, calm, arrivals>>

\* A message arrives after d milliseconds; keyEvent and ptrEvent call
\* setIdle(0).
Message(d, typed) ==
    /\ watched
    /\ Passes(d)
    /\ idle' = (idle /\ ~typed)
    /\ UNCHANGED <<standby, watched, changed, arrivals>>

\* Mutant: standby is not set back.
Slower == standby' = standby + 2

Pace == standby' = IF idle THEN standby + 2 ELSE 2

\* Mutant: idle stays what it was.
SlowDown == standby' = Slow /\ UNCHANGED idle

Rest == standby' = Slow /\ idle' = TRUE

\* rfbProcessEvents returns after d milliseconds, because a viewer arrived or
\* because nothing came for as long as it waits.  If nobody is there any more
\* update_screen is not called.
EndTurn(d, arrived, stays) ==
    /\ arrived \/ d = wait
    /\ calm + d <= MaxCalm
    /\ calm' = IF idle THEN calm + d ELSE 0
    /\ arrivals' = IF ~idle THEN 0
                   ELSE IF arrived THEN arrivals + 1 ELSE arrivals
    /\ arrivals' <= MaxArrivals
    /\ watched' = (arrived \/ (watched /\ stays))
    /\ IF watched'
       THEN Pace /\ idle' = ~changed /\ changed' = FALSE
       ELSE Rest /\ UNCHANGED changed

Next ==
    \/ Change
    \/ \E d \in 0..wait, b \in BOOLEAN :
          \/ Message(d, b)
          \/ \E stays \in BOOLEAN : EndTurn(d, b, stays)

Spec == Init /\ [][Next]_vars

-----------------------------------------------------------------------------
(* Properties. *)

\* standby has no bound of its own, yet the wait, and with it the delay until
\* a change is seen, grows only with the root of the time for which nothing
\* has happened: after a quarter of an hour it is about two seconds.  A
\* connection adds two milliseconds of its own.
WaitIsModest ==
    LET w == wait - 1 - 2 * arrivals
        s == Defer + Slow - 1
    IN w > s => w * w <= s * s + 4 * calm
=============================================================================
