--------------------------- MODULE ServerLifecycle ---------------------------
(***************************************************************************)
(* What the daemon promises about its life, whatever its threads do: a     *)
(* process starts, may come to serve the app, stops and is gone, and there *)
(* is never a second server next to one that serves.                       *)
(***************************************************************************)
CONSTANT Daemons

VARIABLE phase    \* how far each process has got

Phases == {"off", "starting", "serving", "stopping", "gone"}

Init == phase = [d \in Daemons |-> "off"]

Enter(d, from, to) ==
    /\ phase[d] \in from
    /\ phase' = [phase EXCEPT ![d] = to]

Launch(d) == Enter(d, {"off"}, "starting")

\* main() has come to hold the command port: nobody else is serving.
Serve(d) ==
    /\ \A e \in Daemons : phase[e] # "serving"
    /\ Enter(d, {"starting"}, "serving")

\* close_app begins.
Stop(d) == Enter(d, {"starting", "serving"}, "stopping")

\* exit(), wherever it is called, or a crash.
End(d) == Enter(d, {"starting", "serving", "stopping"}, "gone")

Next == \E d \in Daemons : Launch(d) \/ Serve(d) \/ Stop(d) \/ End(d)

Spec == Init /\ [][Next]_phase
=============================================================================
