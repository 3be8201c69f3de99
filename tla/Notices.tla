------------------------------- MODULE Notices -------------------------------
(***************************************************************************)
(* What the app makes of ~CONNECTED| and ~DISCONNECTED|: a notification in *)
(* the status bar, and a wake lock if the user does not want the screen to *)
(* turn off while somebody looks at it.                                    *)
(***************************************************************************)
EXTENDS Session

CONSTANTS
    Nobody,      \* no viewer
    Changing     \* the preferences the user may change meanwhile

ASSUME NoticesAssumption ==
    /\ Nobody \notin Viewers
    /\ Changing \subseteq {"notifyclient", "screenturnoff"}

VARIABLES
    preferences,  \* those that are ticked
    shown,        \* the viewer the notification names
    wakeLock,     \* the lock ServerManager refers to: "null", "held" or
                  \* "released"
    orphans       \* locks that are held and that nothing refers to

appVars == <<preferences, shown, wakeLock, orphans>>

NoticesTypeOK ==
    /\ SessionTypeOK
    /\ preferences \subseteq {"notifyclient", "screenturnoff"}
    /\ shown \in Viewers \cup {Nobody}
    /\ wakeLock \in {"null", "held", "released"}
    /\ orphans \in 0..MaxSessions

NoticesInit ==
    /\ SessionInit
    /\ preferences \in {{"screenturnoff"}, {"notifyclient", "screenturnoff"}}
    /\ shown = Nobody
    /\ wakeLock = "null"
    /\ orphans = 0

-----------------------------------------------------------------------------
Heard(type) ==
    /\ wire # <<>>
    /\ "notifyclient" \in preferences
    /\ Head(wire).type = type
    /\ wire' = Tail(wire)

\* The new lock takes the place of one that may still be held.
ShowClientConnected ==
    /\ Heard("CONNECTED")
    /\ shown' = Head(wire).from
    /\ IF "screenturnoff" \in preferences
       THEN /\ wakeLock' = "held"
            /\ orphans' = orphans + (IF wakeLock = "held" THEN 1 ELSE 0)
       ELSE UNCHANGED <<wakeLock, orphans>>
    /\ UNCHANGED preferences

\* Mutant: the lock is released only while the preference is ticked.
ReleaseIfTicked ==
    /\ Heard("DISCONNECTED")
    /\ shown' = Nobody
    /\ wakeLock' = IF wakeLock = "held" /\ "screenturnoff" \in preferences
                   THEN "released" ELSE wakeLock
    /\ UNCHANGED <<preferences, orphans>>

ShowClientDisconnected ==
    /\ Heard("DISCONNECTED")
    /\ shown' = Nobody
    /\ wakeLock' = IF wakeLock = "held" THEN "released" ELSE wakeLock
    /\ UNCHANGED <<preferences, orphans>>

\* Without "notifyclient" both notices are only logged.
LogOnly ==
    /\ wire # <<>>
    /\ "notifyclient" \notin preferences
    /\ wire' = Tail(wire)
    /\ UNCHANGED appVars

Listener == ShowClientConnected \/ ShowClientDisconnected \/ LogOnly

\* The system releases a lock when it finds that nothing refers to it.
Finalize ==
    /\ orphans > 0
    /\ orphans' = orphans - 1
    /\ UNCHANGED <<wire, preferences, shown, wakeLock>>

SetPreference(p) ==
    /\ p \in Changing
    /\ preferences' = IF p \in preferences THEN preferences \ {p}
                      ELSE preferences \cup {p}
    /\ UNCHANGED <<wire, shown, wakeLock, orphans>>

daemonOnly == <<at, open, clients, closed, state, fds, visit, viewerSide,
                sessions>>
noticesVars == <<sessionVars, appVars>>

App == Listener \/ Finalize \/ \E p \in Changing : SetPreference(p)

NoticesNext ==
    \/ SessionNext /\ UNCHANGED appVars
    \/ App /\ UNCHANGED daemonOnly

NoticesSpec == NoticesInit /\ [][NoticesNext]_noticesVars

NoticesFairSpec ==
    /\ NoticesSpec
    /\ SessionFairness
    /\ WF_noticesVars(Listener /\ UNCHANGED daemonOnly)
    /\ WF_noticesVars(Finalize /\ UNCHANGED daemonOnly)

-----------------------------------------------------------------------------
(* Properties. *)

\* When the daemon has no client and the app has heard all that was sent, no
\* notification is left and the lock is released, in whatever order viewers
\* came, failed in their handshake and went.
QuietWhenAllGone ==
    at # "over" /\ clients = <<>> /\ wire = <<>>
        => shown = Nobody /\ wakeLock # "held"

\* When viewers stay away for good the screen may turn off: also the locks
\* that others have replaced are given up.
ScreenMayTurnOff ==
    <>[](clients = <<>> /\ at # "over")
        => <>[](wakeLock # "held" /\ orphans = 0)

\* "Don't Let Screen Turn off" (preferences.xml 64): while a viewer is
\* connected, the notices have been read and the preference was always ticked,
\* a lock is held.  Refuted: the first of two viewers that leaves releases
\* the lock of the other.
ScreenStaysOn ==
    at # "over" /\ clients # <<>> /\ wire = <<>>
        => wakeLock = "held" \/ orphans > 0
=============================================================================
