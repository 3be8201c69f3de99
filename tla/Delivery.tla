------------------------------- MODULE Delivery -------------------------------
(***************************************************************************)
(* What the delivery of the screen to one viewer promises, in pixels:      *)
(* whatever changed and was asked for is in the next update, and stays to  *)
(* be sent until it is asked for.  An update may hold more than that.      *)
(***************************************************************************)
EXTENDS FiniteSets

CONSTANT Screen    \* the pixels

VARIABLES
    modified,   \* the pixels that changed since they were sent
    requested,  \* the pixels that the viewer asked for since the last update
    sent        \* the pixels of the update that this step sends

vars == <<modified, requested, sent>>

Init ==
    /\ modified = Screen
    /\ requested = {}
    /\ sent = {}

Change ==
    /\ sent' = {}
    /\ requested' = requested
    /\ modified \subseteq modified' /\ modified' \subseteq Screen

\* A request that is not incremental asks for what it names again.
Request ==
    /\ sent' = {}
    /\ requested \subseteq requested' /\ requested' \subseteq Screen
    /\ modified \subseteq modified'
    /\ modified' \subseteq modified \cup requested'

Update ==
    /\ modified \cap requested \subseteq sent' /\ sent' \subseteq Screen
    /\ modified' = modified \ requested
    /\ requested' = {}

Next == Change \/ Request \/ Update

Spec == Init /\ [][Next]_vars
=============================================================================
