------------------------------- MODULE Daemon -------------------------------
(***************************************************************************)
(* The life of the droid VNC server process, from main() to exit(), with   *)
(* its two threads and the datagrams that control it.                      *)
(*                                                                         *)
(*  - the main thread opens the grabber, the uinput device, the VNC port   *)
(*    and the command port, then alternates rfbProcessEvents and           *)
(*    update_screen for ever                                               *)
(*  - the IPC thread, started by bindIPCserver, answers ~PING| and obeys   *)
(*    ~KILL| by calling close_app itself, while main keeps running         *)
(*  - a signal makes the main thread call close_app too                    *)
(*                                                                         *)
(* Several processes may exist: nothing stops the app, or the boot         *)
(* receiver, from launching a daemon while another one is alive.           *)
(* The two-second sleeps are steps that may come at any later time.        *)
(***************************************************************************)
EXTENDS Naturals, Sequences

CONSTANTS
    Daemons,     \* the processes that may be launched, each of them once
    Grabbers,    \* the grabbers that main() may find on the device
    Senders,     \* the sockets of the app that datagrams come from
    MaxClients,  \* bound on the VNC clients of one daemon
    InboxSize    \* datagrams that wait at port 13132, the next is dropped

ASSUME DaemonAssumption ==
    /\ Grabbers \subseteq {"FRAMEBUFFER", "LIBRARY"}
    /\ MaxClients \in Nat
    /\ InboxSize \in Nat

VARIABLES
    pc,       \* where each thread of each process is
    method,   \* the grabber each process uses
    grabber,  \* "none", "open" or "closed"
    uinput,   \* the input device: "none" (inputfd is -1), "open", "closed"
    vnc,      \* the VNC port: "none", "listening", "deaf" or "shut"
    bound,    \* whether the process holds the command port 13132
    clients,  \* number of clients in vncscr's list
    told,     \* the notices each process has sent to the app
    ended,    \* how the process ended
    inbox     \* datagrams waiting at the command port, a queue per process

vars == <<pc, method, grabber, uinput, vnc, bound, clients, told, ended,
          inbox>>

\* What only the set-up, the screen and the end of a process touch.
devices  == <<method, grabber, uinput>>
network  == <<vnc, clients>>

-----------------------------------------------------------------------------
Threads == {"main", "ipc"}
Methods == {"FRAMEBUFFER", "LIBRARY", "AUTO"}
Notes   == {"SERVERSTARTED", "SERVERSTOPPED"}

SetUp   == {"grabber", "input", "vnc", "bind", "thread"}
Running == {"announce", "reverse", "poll", "frame"}
Closing == {"closeGrabber", "cleanupInput", "tell", "unbind", "exit"}
Labels  == {"off", "recv", "gone"} \cup SetUp \cup Running \cup Closing

Message == [type : {"PING", "KILL"}, from : Senders]

TypeOK ==
    /\ pc \in [Daemons -> [Threads -> Labels]]
    /\ method \in [Daemons -> Methods]
    /\ grabber \in [Daemons -> {"none", "open", "closed"}]
    /\ uinput \in [Daemons -> {"none", "open", "closed"}]
    /\ vnc \in [Daemons -> {"none", "listening", "deaf", "shut"}]
    /\ bound \in [Daemons -> BOOLEAN]
    /\ clients \in [Daemons -> 0..MaxClients]
    /\ told \in [Daemons -> Seq(Notes)]
    /\ ended \in [Daemons -> {"no", "normal", "quit", "error", "crash"}]
    /\ inbox \in [Daemons -> Seq(Message)]

Init ==
    /\ pc = [d \in Daemons |-> [t \in Threads |-> "off"]]
    /\ method = [d \in Daemons |-> "AUTO"]
    /\ grabber = [d \in Daemons |-> "none"]
    /\ uinput = [d \in Daemons |-> "none"]
    /\ vnc = [d \in Daemons |-> "none"]
    /\ bound = [d \in Daemons |-> FALSE]
    /\ clients = [d \in Daemons |-> 0]
    /\ told = [d \in Daemons |-> <<>>]
    /\ ended = [d \in Daemons |-> "no"]
    /\ inbox = [d \in Daemons |-> <<>>]

-----------------------------------------------------------------------------
Alive(d)     == pc[d]["main"] \notin {"off", "gone"}
IsClosing(d) == \E t \in Threads : pc[d][t] \in Closing

\* The daemon the app talks to: its IPC thread reads the command port and no
\* thread of it has begun close_app.
Serving(d) == pc[d]["main"] \in Running /\ pc[d]["ipc"] = "recv"

Goto(d, t, l) == pc' = [pc EXCEPT ![d][t] = l]

\* sendMsgToGui: a datagram, sent and forgotten.  ~SHOW| notices, which only
\* put a text on the screen, are left out.
Tell(d, note) == told' = [told EXCEPT ![d] = Append(@, note)]
HasTold(d, note) == \E i \in DOMAIN told[d] : told[d][i] = note

\* exit() or a crash: every thread stops, and the kernel closes the devices
\* and the sockets.
Die(d, how) ==
    /\ pc' = [pc EXCEPT ![d] = [t \in Threads |-> "gone"]]
    /\ ended' = [ended EXCEPT ![d] = how]
    /\ bound' = [bound EXCEPT ![d] = FALSE]
    /\ vnc' = [vnc EXCEPT ![d] = "shut"]
    /\ clients' = [clients EXCEPT ![d] = 0]
    /\ inbox' = [inbox EXCEPT ![d] = <<>>]
    /\ method' = [method EXCEPT ![d] = "AUTO"]
    /\ grabber' = [grabber EXCEPT ![d] = "none"]
    /\ uinput' = [uinput EXCEPT ![d] = "none"]

-----------------------------------------------------------------------------
(* Set-up: main() up to its loop. *)

\* The app, or the boot receiver, executes the daemon.
Launch(d) ==
    /\ pc[d]["main"] = "off"
    /\ Goto(d, "main", "grabber")
    /\ UNCHANGED <<devices, network, bound, told, ended, inbox>>

\* main() goes on when it finds no grabber, or not the one of -m, but see
\* IoctlFails.  Which method was asked for matters only once it is open.
InitGrabberMethod(d) ==
    /\ pc[d]["main"] = "grabber"
    /\ \E m \in Grabbers \cup {"AUTO"} :
          /\ method' = [method EXCEPT ![d] = m]
          /\ grabber' = [grabber EXCEPT ![d] =
                            IF m = "AUTO" THEN "none" ELSE "open"]
    /\ Goto(d, "main", "input")
    /\ UNCHANGED <<uinput, network, bound, told, ended, inbox>>

\* Without a uinput device the daemon goes on, to show the screen only.
InitInput(d) ==
    /\ pc[d]["main"] = "input"
    /\ \E u \in {"open", "none"} : uinput' = [uinput EXCEPT ![d] = u]
    /\ Goto(d, "main", "vnc")
    /\ UNCHANGED <<method, grabber, network, bound, told, ended, inbox>>

PortTaken == \E e \in Daemons : vnc[e] = "listening"

\* rfbInitServer only logs that it could not listen.
ListenVnc(d) ==
    vnc' = [vnc EXCEPT ![d] = IF PortTaken THEN "deaf" ELSE "listening"]

\* A pixel depth nobody can show, which a grabber that was never opened
\* always reports, makes main() call close_app.
InitVncServer(d) ==
    /\ pc[d]["main"] = "vnc"
    /\ ListenVnc(d)
    /\ \/ grabber[d] = "open" /\ Goto(d, "main", "bind")
       \/ Goto(d, "main", "closeGrabber")
    /\ UNCHANGED <<devices, bound, clients, told, ended, inbox>>

\* Mutant: the port is shared (SO_REUSEADDR), bind never fails.
BindShared(d) ==
    /\ pc[d]["main"] = "bind"
    /\ bound' = [bound EXCEPT ![d] = TRUE]
    /\ Goto(d, "main", "thread")
    /\ UNCHANGED <<devices, network, told, ended, inbox>>

\* The command port is free: hold it.
BindIPCserver(d) ==
    /\ pc[d]["main"] = "bind"
    /\ \A e \in Daemons : ~bound[e]
    /\ bound' = [bound EXCEPT ![d] = TRUE]
    /\ Goto(d, "main", "thread")
    /\ UNCHANGED <<devices, network, told, ended, inbox>>

\* pthread_create, which does not fail here: its result is not looked at.
StartThread(d) ==
    /\ pc[d]["main"] = "thread"
    /\ pc' = [pc EXCEPT ![d]["main"] = "announce", ![d]["ipc"] = "recv"]
    /\ UNCHANGED <<devices, network, bound, told, ended, inbox>>

\* Mutant: the failed bind is logged and the IPC thread started all the same.
BindFailureLogged(d) ==
    /\ pc[d]["main"] = "bind"
    /\ \E e \in Daemons : bound[e]
    /\ Goto(d, "main", "thread")
    /\ UNCHANGED <<devices, network, bound, told, ended, inbox>>

\* "another daemon already running?": exit(-1), without close_app.
BindFails(d) ==
    /\ pc[d]["main"] = "bind"
    /\ \E e \in Daemons : bound[e]
    /\ Die(d, "error")
    /\ UNCHANGED told

SendServerStarted(d) ==
    /\ pc[d]["main"] = "announce"
    /\ Tell(d, "SERVERSTARTED")
    /\ Goto(d, "main", "reverse")
    /\ UNCHANGED <<devices, network, bound, ended, inbox>>

\* With -R the daemon calls the viewer, which may answer or not.
ReverseConnect(d) ==
    /\ pc[d]["main"] = "reverse"
    /\ \/ UNCHANGED clients
       \/ /\ clients[d] < MaxClients
          /\ clients' = [clients EXCEPT ![d] = @ + 1]
    /\ Goto(d, "main", "poll")
    /\ UNCHANGED <<devices, vnc, bound, told, ended, inbox>>

-----------------------------------------------------------------------------
(* The main loop. *)

Polling(d) == pc[d]["main"] = "poll"

Accept(d) ==
    /\ Polling(d)
    /\ vnc[d] = "listening"
    /\ clients[d] < MaxClients
    /\ clients' = [clients EXCEPT ![d] = @ + 1]
    /\ UNCHANGED <<pc, devices, vnc, bound, told, ended, inbox>>

\* Mutant: a client may be taken off the list twice.
GoneTwice(d) ==
    /\ Polling(d)
    /\ clients' = [clients EXCEPT ![d] = @ - 1]
    /\ UNCHANGED <<pc, devices, vnc, bound, told, ended, inbox>>

ClientGone(d) ==
    /\ Polling(d)
    /\ clients[d] > 0
    /\ clients' = [clients EXCEPT ![d] = @ - 1]
    /\ UNCHANGED <<pc, devices, vnc, bound, told, ended, inbox>>

\* keyEvent looks at a key only when there was an input device.
CanType(d) == Polling(d) /\ clients[d] > 0 /\ uinput[d] # "none"

\* F11: rfbShutdownServer closes every client, and the listening socket.
Disconnect(d) ==
    /\ CanType(d)
    /\ vnc' = [vnc EXCEPT ![d] = "shut"]
    /\ clients' = [clients EXCEPT ![d] = 0]
    /\ UNCHANGED <<pc, devices, bound, told, ended, inbox>>

\* F12: exit(0) from inside the key handler.
Quit(d) ==
    /\ CanType(d)
    /\ Die(d, "quit")
    /\ UNCHANGED told

ProcessEventsReturns(d) ==
    /\ Polling(d)
    /\ Goto(d, "main", "frame")
    /\ UNCHANGED <<devices, network, bound, told, ended, inbox>>

\* No client, or a grabber that answers: back to rfbProcessEvents.
UpdateScreen(d) ==
    /\ pc[d]["main"] = "frame"
    /\ clients[d] = 0 \/ grabber[d] = "open"
    /\ Goto(d, "main", "poll")
    /\ UNCHANGED <<devices, network, bound, told, ended, inbox>>

\* close_app has closed the grabber under update_screen.  The frame buffer's
\* ioctl fails, which exits; a library that dlclose has unmapped may crash
\* the process or may still be there.
ReadAfterClose(d) ==
    /\ pc[d]["main"] = "frame"
    /\ clients[d] > 0
    /\ grabber[d] = "closed"
    /\ \/ /\ method[d] = "FRAMEBUFFER"
          /\ Die(d, "error")
       \/ /\ method[d] = "LIBRARY"
          /\ Die(d, "crash")
       \/ /\ method[d] = "LIBRARY"
          /\ Goto(d, "main", "poll")
          /\ UNCHANGED <<devices, network, bound, ended, inbox>>
    /\ UNCHANGED told

-----------------------------------------------------------------------------
(* What goes wrong in the system. *)

\* update_fb_info exits when the driver of the frame buffer refuses, to a
\* probe or in a turn that reads the screen.
IoctlFails(d) ==
    /\ \/ pc[d]["main"] = "grabber"
       \/ /\ pc[d]["main"] = "frame" /\ clients[d] > 0
          /\ method[d] = "FRAMEBUFFER"
    /\ Die(d, "error")
    /\ UNCHANGED told

\* There is no socket for the command port: bindIPCserver returns 0, which
\* main() does not look at.  It announces a server that nobody can talk to.
SocketFails(d) ==
    /\ pc[d]["main"] = "bind"
    /\ Goto(d, "main", "announce")
    /\ UNCHANGED <<devices, network, bound, told, ended, inbox>>

-----------------------------------------------------------------------------
(* close_app, run by the main thread (signal, pixel depth) or by the IPC   *)
(* thread (~KILL|): a thread that is in it stays in it.                    *)

\* SIGINT or SIGILL, delivered to the main thread wherever it is.
Signal(d) ==
    /\ Alive(d)
    /\ pc[d]["main"] \notin Closing
    /\ Goto(d, "main", "closeGrabber")
    /\ UNCHANGED <<devices, network, bound, told, ended, inbox>>

\* Closing a library a second time calls into memory that dlclose released.
CloseGrabber(d, t) ==
    /\ pc[d][t] = "closeGrabber"
    /\ \/ /\ Goto(d, t, "cleanupInput")
          /\ grabber' = [grabber EXCEPT ![d] =
                            IF @ = "open" THEN "closed" ELSE @]
          /\ UNCHANGED <<method, uinput, network, bound, told, ended, inbox>>
       \/ /\ grabber[d] = "closed" /\ method[d] = "LIBRARY"
          /\ Die(d, "crash")
          /\ UNCHANGED told

\* Mutant: the app is told before the input device is closed.
CleanupLast(d, t) ==
    /\ pc[d][t] = "cleanupInput"
    /\ Goto(d, t, "tell")
    /\ UNCHANGED <<devices, network, bound, told, ended, inbox>>

\* suinput_close sleeps two seconds, then destroys the device.
CleanupInput(d, t) ==
    /\ pc[d][t] = "cleanupInput"
    /\ Goto(d, t, "tell")
    /\ uinput' = [uinput EXCEPT ![d] = IF @ = "open" THEN "closed" ELSE @]
    /\ UNCHANGED <<method, grabber, network, bound, told, ended, inbox>>

\* Mutant: close_app forgets sendServerStopped.
StopUntold(d, t) ==
    /\ pc[d][t] = "tell"
    /\ Goto(d, t, "unbind")
    /\ UNCHANGED <<devices, network, bound, told, ended, inbox>>

SendServerStopped(d, t) ==
    /\ pc[d][t] = "tell"
    /\ Tell(d, "SERVERSTOPPED")
    /\ Goto(d, t, "unbind")
    /\ UNCHANGED <<devices, network, bound, ended, inbox>>

\* Mutant: hServerSocket is never closed.
KeepBound(d, t) ==
    /\ pc[d][t] = "unbind"
    /\ Goto(d, t, "exit")
    /\ UNCHANGED <<devices, network, bound, told, ended, inbox>>

\* The kernel may hold on to the port until the IPC thread has left recvfrom;
\* the exit that comes next frees it at the latest.
UnbindIPCserver(d, t) ==
    /\ pc[d][t] = "unbind"
    /\ bound' = [bound EXCEPT ![d] = FALSE]
    /\ inbox' = [inbox EXCEPT ![d] = <<>>]
    /\ Goto(d, t, "exit")
    /\ UNCHANGED <<devices, network, told, ended>>

\* Mutant: close_app ends its own thread only.
ExitThread(d, t) ==
    /\ pc[d][t] = "exit"
    /\ Goto(d, t, "gone")
    /\ UNCHANGED <<devices, network, bound, told, ended, inbox>>

Exit(d, t) ==
    /\ pc[d][t] = "exit"
    /\ Die(d, "normal")
    /\ UNCHANGED told

-----------------------------------------------------------------------------
(* The IPC thread. *)

Received(d) ==
    /\ pc[d]["ipc"] = "recv"
    /\ inbox[d] # <<>>
    /\ inbox' = [inbox EXCEPT ![d] = Tail(@)]

\* The ~PONG| goes back to the socket the ~PING| came from.
AnswerPing(d) ==
    /\ Received(d)
    /\ Head(inbox[d]).type = "PING"
    /\ UNCHANGED <<pc, devices, network, bound, told, ended>>

\* Mutant: a ~KILL| is received and nothing is done.
IgnoreKill(d) ==
    /\ Received(d)
    /\ Head(inbox[d]).type = "KILL"
    /\ UNCHANGED <<pc, devices, network, bound, told, ended>>

ObeyKill(d) ==
    /\ Received(d)
    /\ Head(inbox[d]).type = "KILL"
    /\ Goto(d, "ipc", "closeGrabber")
    /\ UNCHANGED <<devices, network, bound, told, ended>>

-----------------------------------------------------------------------------
(* The app's end of the command socket. *)

\* A ~PING| or ~KILL| to port 13132: lost when nobody holds the port or its
\* queue is full.
Deliver(m) ==
    /\ inbox' = [d \in Daemons |->
                    IF bound[d] /\ Len(inbox[d]) < InboxSize
                    THEN Append(inbox[d], m)
                    ELSE inbox[d]]
    /\ UNCHANGED <<pc, devices, network, bound, told, ended>>

-----------------------------------------------------------------------------
\* What the main thread does by itself.
MainStep(d) ==
    \/ InitGrabberMethod(d) \/ InitInput(d) \/ InitVncServer(d)
    \/ BindIPCserver(d) \/ StartThread(d) \/ BindFails(d)
    \/ SendServerStarted(d) \/ ReverseConnect(d)
    \/ ProcessEventsReturns(d) \/ UpdateScreen(d) \/ ReadAfterClose(d)

CloseStep(d, t) ==
    \/ CloseGrabber(d, t) \/ CleanupInput(d, t) \/ SendServerStopped(d, t)
    \/ UnbindIPCserver(d, t) \/ Exit(d, t)

IpcStep(d) == AnswerPing(d) \/ ObeyKill(d)

\* What VNC clients make it do, and what befalls it.
Client(d)  == Accept(d) \/ ClientGone(d) \/ Disconnect(d) \/ Quit(d)
Trouble(d) == Signal(d) \/ IoctlFails(d) \/ SocketFails(d)

DaemonStep(d) ==
    \/ MainStep(d)
    \/ \E t \in Threads : CloseStep(d, t)
    \/ IpcStep(d)
    \/ Client(d)
    \/ Trouble(d)

Next ==
    \/ \E d \in Daemons : Launch(d) \/ DaemonStep(d)
    \/ \E m \in Message : Deliver(m)

Spec == Init /\ [][Next]_vars

\* The scheduler runs every thread; nothing forces a client, trouble, the
\* app or the user to come.
Fairness ==
    \A d \in Daemons :
        /\ WF_vars(MainStep(d))
        /\ WF_vars(IpcStep(d))
        /\ \A t \in Threads : WF_vars(CloseStep(d, t))

FairSpec == Spec /\ Fairness

-----------------------------------------------------------------------------
(* Properties. *)

\* At most one daemon serves the app, whatever the order in which processes
\* are launched, killed and signalled: bindIPCserver gives up when another
\* process still holds port 13132, even one that is half way out.
SoleServer == \A d, e \in Daemons : Serving(d) /\ Serving(e) => d = e

\* ~SERVERSTOPPED| is the last word: whichever thread sent it, and even when
\* the main thread and the IPC thread run close_app at once, no grabber and
\* no input device of that process is still open.
OrderlyStop ==
    \A d \in Daemons : HasTold(d, "SERVERSTOPPED") =>
        grabber[d] # "open" /\ uinput[d] # "open"

\* A process that left through close_app has told the app so, even when the
\* thread that called exit() was not the one that sent the notice.
NormalEndIsTold ==
    \A d \in Daemons : ended[d] = "normal" => HasTold(d, "SERVERSTOPPED")

\* The command port is never held by a process that would not read it: its
\* IPC thread receives or is about to be started, or one of its threads is in
\* close_app and about to free the port.
PortHolderReads ==
    \A d \in Daemons : bound[d] =>
        \/ pc[d]["main"] = "thread"
        \/ \E t \in Threads : pc[d][t] \in ({"recv"} \cup Closing) \ {"exit"}

\* A ~KILL| that has reached the command port's queue ends the process, also
\* behind ~PING|s and also when a signal overtakes it.
KillIsObeyed ==
    \A d \in Daemons :
        (\E i \in DOMAIN inbox[d] : inbox[d][i].type = "KILL")
            ~> (pc[d]["main"] = "gone")

\* close_app, once begun by any thread, ends the whole process: the other
\* thread neither survives it nor keeps the ports.
CloseEnds ==
    \A d \in Daemons : IsClosing(d) ~> (ended[d] # "no" /\ ~bound[d])

\* The phases of ServerLifecycle.  A process without a command port never gets
\* to serve.
phase == [d \in Daemons |->
            IF pc[d]["main"] = "off" THEN "off"
            ELSE IF pc[d]["main"] = "gone" THEN "gone"
            ELSE IF IsClosing(d) THEN "stopping"
            ELSE IF Serving(d) THEN "serving"
            ELSE "starting"]

Lifecycle == INSTANCE ServerLifecycle

\* The threads, ports and datagrams of the daemon implement the plain life
\* cycle: no phase is skipped or repeated, none serves next to a server.
ImplementsLifecycle == Lifecycle!Spec

\* close_app ends with the "normal exit status" (droidvncserver.c 265): a
\* process in which the IPC thread alone has closed the grabber does not end in
\* another way, except that a client may still press F12.  Refuted: the main
\* thread goes on reading what the IPC thread has closed.
CloseEndsNormally ==
    [][\A d \in Daemons :
           pc[d]["ipc"] \in Closing \ {"closeGrabber"} /\ pc[d]["main"] \in Running
               => ended'[d] \in {"no", "normal", "quit"}]_vars
=============================================================================
