----------------------------- MODULE DaemonProofs -----------------------------
(***************************************************************************)
(* Theorems about Daemon for any set of processes and any bounds.          *)
(***************************************************************************)
EXTENDS Daemon, TLAPS

\* Where the two threads of a process can be together.
ThreadsAgree(d) ==
    /\ pc[d]["main"] # "recv"
    /\ pc[d]["ipc"] \in {"off", "recv", "gone"} \cup Closing
    /\ pc[d]["main"] \in {"off"} \cup SetUp => pc[d]["ipc"] = "off"
    /\ pc[d]["main"] \in Running => pc[d]["ipc"] \in {"off", "recv"} \cup Closing
    /\ pc[d]["main"] = "gone" <=> pc[d]["ipc"] = "gone"

\* A process in its main loop has the command port, until its IPC thread has
\* freed it, unless it never had one; and whoever has it has an IPC thread to
\* read it, or will have, or frees it.
PortAgrees(d) ==
    /\ pc[d]["main"] = "thread" => bound[d]
    /\ pc[d]["main"] \in Running => bound[d] \/ pc[d]["ipc"] \in {"off", "exit"}
    /\ bound[d] => \/ pc[d]["main"] = "thread"
                   \/ pc[d]["ipc"] \in {"recv"} \cup (Closing \ {"exit"})
                   \/ pc[d]["ipc"] = "off" /\ pc[d]["main"] \in Closing \ {"exit"}

\* What close_app has done by the time a thread is past each of its calls,
\* and that nothing of it is undone: the devices are opened in the set-up,
\* before anybody can have begun close_app.
Stopped(d) == HasTold(d, "SERVERSTOPPED")
DevicesAgree(d) ==
    /\ \A t \in Threads :
          /\ pc[d][t] \in Closing \ {"closeGrabber"} => grabber[d] # "open"
          /\ pc[d][t] \in {"tell", "unbind", "exit"} => uinput[d] # "open"
          /\ pc[d][t] \in {"unbind", "exit"} => Stopped(d)
    /\ pc[d]["main"] \in {"off"} \cup SetUp => ~Stopped(d)
    /\ Stopped(d) => grabber[d] # "open" /\ uinput[d] # "open"
    /\ ended[d] = "normal" => Stopped(d)

ProcessInv(d) == ThreadsAgree(d) /\ PortAgrees(d) /\ DevicesAgree(d)

\* The kernel gives the command port to one process at a time.
OneHolder == \A d, e \in Daemons : bound[d] /\ bound[e] => d = e

IInv ==
    /\ TypeOK
    /\ OneHolder
    /\ \A d \in Daemons : ProcessInv(d)

LEMMA InitType == Init => TypeOK
BY DaemonAssumption
   DEF Init, TypeOK, Threads, Labels, Methods

LEMMA InitIInv == Init => IInv
<1> SUFFICES ASSUME Init, NEW d \in Daemons
             PROVE  ~bound[d] /\ ProcessInv(d)
  BY InitType DEF IInv, OneHolder
<1>1. /\ pc[d]["main"] = "off" /\ pc[d]["ipc"] = "off"
      /\ told[d] = <<>> /\ ~bound[d] /\ ended[d] = "no"
  BY DEF Init, Threads
<1>2. ~Stopped(d)
  BY <1>1 DEF Stopped, HasTold
<1> QED
  BY <1>1, <1>2 DEF ProcessInv, ThreadsAgree, PortAgrees, DevicesAgree,
                    Threads, SetUp, Running, Closing

LEMMA TypeStep == TypeOK /\ [Next]_vars => TypeOK'
<1> SUFFICES ASSUME TypeOK, [Next]_vars PROVE TypeOK'
  OBVIOUS
<1> USE DaemonAssumption DEF TypeOK, Goto, devices, network
<1>0. /\ SetUp \cup Running \cup Closing \cup {"gone", "recv"} \subseteq Labels
      /\ {"main", "ipc"} = Threads
  BY DEF Labels, Threads
<1>1. ASSUME NEW d \in Daemons, NEW how \in {"normal", "quit", "error", "crash"},
             Die(d, how), UNCHANGED told
      PROVE  TypeOK'
  <2>1. pc' \in [Daemons -> [Threads -> Labels]]
    BY <1>0, <1>1 DEF Die
  <2>2. clients' \in [Daemons -> 0..MaxClients]
    BY <1>1 DEF Die
  <2>3. inbox' \in [Daemons -> Seq(Message)]
    BY <1>1 DEF Die
  <2> QED
    BY <1>1, <2>1, <2>2, <2>3 DEF Die, Methods
<1>2. ASSUME NEW d \in Daemons, Launch(d) PROVE TypeOK'
  BY <1>0, <1>2 DEF SetUp, Launch
<1>3. ASSUME NEW d \in Daemons, InitGrabberMethod(d) PROVE TypeOK'
  BY <1>0, <1>3 DEF SetUp, Methods, InitGrabberMethod
<1>4. ASSUME NEW d \in Daemons, InitInput(d) PROVE TypeOK'
  BY <1>0, <1>4 DEF SetUp, InitInput
<1>5. ASSUME NEW d \in Daemons, InitVncServer(d) PROVE TypeOK'
  <2>1. CASE pc' = [pc EXCEPT ![d]["main"] = "bind"]
    BY <1>0, <1>5, <2>1 DEF SetUp, InitVncServer, ListenVnc
  <2>2. CASE pc' = [pc EXCEPT ![d]["main"] = "closeGrabber"]
    BY <1>0, <1>5, <2>2 DEF Closing, InitVncServer, ListenVnc
  <2> QED
    BY <1>5, <2>1, <2>2 DEF InitVncServer
<1>6. ASSUME NEW d \in Daemons, BindIPCserver(d) PROVE TypeOK'
  BY <1>0, <1>6 DEF SetUp, BindIPCserver
<1>26. ASSUME NEW d \in Daemons, StartThread(d) PROVE TypeOK'
  BY <1>0, <1>26 DEF Running, StartThread
<1>27. ASSUME NEW d \in Daemons, SocketFails(d) PROVE TypeOK'
  BY <1>0, <1>27 DEF Running, SocketFails
<1>7. ASSUME NEW d \in Daemons, SendServerStarted(d) PROVE TypeOK'
  BY <1>0, <1>7 DEF Running, SendServerStarted, Tell, Notes
<1>8. ASSUME NEW d \in Daemons, ReverseConnect(d) PROVE TypeOK'
  <2>1. CASE UNCHANGED clients
    BY <1>0, <1>8, <2>1 DEF Running, ReverseConnect
  <2>2. CASE /\ clients[d] < MaxClients
             /\ clients' = [clients EXCEPT ![d] = @ + 1]
    BY <1>0, <1>8, <2>2 DEF Running, ReverseConnect
  <2> QED
    BY <1>8, <2>1, <2>2 DEF ReverseConnect
<1>9. ASSUME NEW d \in Daemons, Accept(d) PROVE TypeOK'
  BY <1>9 DEF Accept
<1>10. ASSUME NEW d \in Daemons, ClientGone(d) PROVE TypeOK'
  BY <1>10 DEF ClientGone
<1>21. ASSUME NEW d \in Daemons, Disconnect(d) PROVE TypeOK'
  BY <1>21 DEF Disconnect
<1>22. ASSUME NEW d \in Daemons, ProcessEventsReturns(d) PROVE TypeOK'
  BY <1>0, <1>22 DEF Running, ProcessEventsReturns
<1>23. ASSUME NEW d \in Daemons, UpdateScreen(d) PROVE TypeOK'
  BY <1>0, <1>23 DEF Running, UpdateScreen
<1>11. ASSUME NEW d \in Daemons, Signal(d) PROVE TypeOK'
  BY <1>0, <1>11 DEF Closing, Signal
<1>12. ASSUME NEW d \in Daemons, NEW t \in Threads, CleanupInput(d, t)
       PROVE  TypeOK'
  BY <1>0, <1>12 DEF Closing, CleanupInput
<1>24. ASSUME NEW d \in Daemons, NEW t \in Threads, UnbindIPCserver(d, t)
       PROVE  TypeOK'
  BY <1>0, <1>24 DEF Closing, UnbindIPCserver
<1>13. ASSUME NEW d \in Daemons, NEW t \in Threads, SendServerStopped(d, t)
       PROVE  TypeOK'
  BY <1>0, <1>13 DEF Closing, SendServerStopped, Tell, Notes
<1>14. ASSUME NEW d \in Daemons, NEW t \in Threads, CloseGrabber(d, t)
       PROVE  TypeOK'
  <2>1. CASE Die(d, "crash") /\ UNCHANGED told
    BY <1>1, <2>1
  <2>2. CASE /\ Goto(d, t, "cleanupInput")
             /\ grabber' = [grabber EXCEPT ![d] =
                               IF @ = "open" THEN "closed" ELSE @]
             /\ UNCHANGED <<method, uinput, network, bound, told, ended,
                            inbox>>
    BY <1>0, <2>2 DEF Closing
  <2> QED
    BY <1>14, <2>1, <2>2 DEF CloseGrabber
<1>15. ASSUME NEW d \in Daemons, AnswerPing(d) PROVE TypeOK'
  BY <1>15 DEF AnswerPing, Received
<1>25. ASSUME NEW d \in Daemons, ObeyKill(d) PROVE TypeOK'
  BY <1>0, <1>25 DEF Closing, ObeyKill, Received
<1>16. ASSUME NEW m \in Message, Deliver(m) PROVE TypeOK'
  BY <1>16 DEF Deliver
<1>17. ASSUME NEW d \in Daemons, ReadAfterClose(d) PROVE TypeOK'
  <2>1. CASE \E how \in {"error", "crash"} : Die(d, how) /\ UNCHANGED told
    BY <1>1, <2>1
  <2>2. CASE /\ Goto(d, "main", "poll")
             /\ UNCHANGED <<devices, network, bound, told, ended, inbox>>
    BY <1>0, <2>2 DEF Running
  <2> QED
    BY <1>17, <2>1, <2>2 DEF ReadAfterClose
<1>18. ASSUME NEW d \in Daemons, BindFails(d) \/ Quit(d) \/ IoctlFails(d)
       PROVE  TypeOK'
  BY <1>18, <1>1 DEF BindFails, Quit, IoctlFails
<1>19. ASSUME NEW d \in Daemons, NEW t \in Threads, Exit(d, t) PROVE TypeOK'
  BY <1>19, <1>1 DEF Exit
<1>20. CASE UNCHANGED vars
  BY <1>20 DEF vars
<1> QED
  BY <1>2, <1>3, <1>4, <1>5, <1>6, <1>7, <1>8, <1>9, <1>10, <1>11, <1>12,
     <1>13, <1>14, <1>15, <1>16, <1>17, <1>18, <1>19, <1>20, <1>21, <1>22,
     <1>23, <1>24, <1>25, <1>26, <1>27
     DEF Next, DaemonStep, MainStep, CloseStep, IpcStep, Client, Trouble

\* A process that dies takes both threads along and gives its port up.
LEMMA Dead ==
    ASSUME TypeOK, NEW d \in Daemons, NEW how, Die(d, how)
    PROVE  /\ \A t \in Threads : pc'[d][t] = "gone"
           /\ \A e \in Daemons \ {d} : pc'[e] = pc[e]
           /\ ~bound'[d]
           /\ \A e \in Daemons \ {d} : bound'[e] = bound[e]
           /\ grabber'[d] = "none" /\ uinput'[d] = "none"
           /\ \A e \in Daemons \ {d} :
                 grabber'[e] = grabber[e] /\ uinput'[e] = uinput[e]
           /\ ended'[d] = how
           /\ \A e \in Daemons \ {d} : ended'[e] = ended[e]
BY DEF TypeOK, Die

\* A thread that goes to a label leaves every other thread where it is.
LEMMA Moved ==
    ASSUME TypeOK, NEW d \in Daemons, NEW t \in Threads, NEW l, Goto(d, t, l)
    PROVE  /\ pc'[d][t] = l
           /\ \A s \in Threads \ {t} : pc'[d][s] = pc[d][s]
           /\ \A e \in Daemons \ {d} : pc'[e] = pc[e]
BY DEF TypeOK, Goto

\* A notice sent stays sent, and no notice is taken for another.
LEMMA Told ==
    ASSUME TypeOK, NEW d \in Daemons, NEW note \in Notes, Tell(d, note)
    PROVE  /\ Stopped(d)' <=> Stopped(d) \/ note = "SERVERSTOPPED"
           /\ \A e \in Daemons \ {d} : told'[e] = told[e]
<1>1. /\ told[d] \in Seq(Notes)
      /\ told'[d] = Append(told[d], note)
      /\ \A e \in Daemons \ {d} : told'[e] = told[e]
  BY DEF TypeOK, Tell
<1>2. /\ DOMAIN told'[d] = DOMAIN told[d] \cup {Len(told[d]) + 1}
      /\ told'[d][Len(told[d]) + 1] = note
      /\ \A i \in DOMAIN told[d] : told'[d][i] = told[d][i]
  BY <1>1
<1> QED
  BY <1>1, <1>2 DEF Stopped, HasTold

LEMMA Untold == UNCHANGED told => \A e : Stopped(e)' <=> Stopped(e)
BY DEF Stopped, HasTold

\* A step of one process leaves the invariant of the others alone.
Others(d) ==
    \A e \in Daemons \ {d} :
        /\ pc'[e] = pc[e] /\ bound'[e] = bound[e]
        /\ grabber'[e] = grabber[e] /\ uinput'[e] = uinput[e]
        /\ told'[e] = told[e] /\ ended'[e] = ended[e]

LEMMA OthersKeep ==
    ASSUME NEW d \in Daemons, Others(d), \A e \in Daemons : ProcessInv(e)
    PROVE  \A e \in Daemons \ {d} : ProcessInv(e)'
BY DEF Others, ProcessInv, ThreadsAgree, PortAgrees, DevicesAgree, Stopped,
       HasTold

LEMMA ProcessStep ==
    ASSUME IInv, NEW d \in Daemons, Launch(d) \/ DaemonStep(d)
    PROVE  Others(d) /\ ProcessInv(d)'
<1>0. TypeOK /\ ProcessInv(d)
  BY DEF IInv
<1> USE <1>0 DEF ProcessInv, ThreadsAgree, PortAgrees, DevicesAgree, Threads,
                 SetUp, Running, Closing, devices, network
<1>1. ASSUME NEW how, Die(d, how), UNCHANGED told, how = "normal" => Stopped(d)
      PROVE  Others(d) /\ ProcessInv(d)'
  BY <1>1, Dead, Untold DEF Others
<1>2. CASE Launch(d)
  BY <1>2, Moved, Untold DEF Launch, Others
<1>3. CASE InitGrabberMethod(d)
  BY <1>3, Moved, Untold DEF InitGrabberMethod, Others, TypeOK
<1>4. CASE InitInput(d)
  BY <1>4, Moved, Untold DEF InitInput, Others, TypeOK
<1>5. CASE InitVncServer(d)
  BY <1>5, Moved, Untold DEF InitVncServer, Others
<1>6. CASE BindIPCserver(d)
  <2>1. /\ pc'[d]["main"] = "thread" /\ pc'[d]["ipc"] = pc[d]["ipc"]
        /\ \A e \in Daemons \ {d} : pc'[e] = pc[e]
    BY <1>6, Moved DEF BindIPCserver
  <2>2. bound'[d] /\ \A e \in Daemons \ {d} : bound'[e] = bound[e]
    BY <1>6 DEF BindIPCserver, TypeOK
  <2> QED
    BY <1>6, <2>1, <2>2, Untold DEF BindIPCserver, Others
<1>20. CASE StartThread(d)
  BY <1>20, Untold DEF StartThread, Others, TypeOK
<1>21. CASE SocketFails(d)
  BY <1>21, Moved, Untold DEF SocketFails, Others
<1>7. CASE SendServerStarted(d)
  <2>1. /\ Stopped(d)' <=> Stopped(d)
        /\ \A e \in Daemons \ {d} : told'[e] = told[e]
    BY <1>7, Told DEF SendServerStarted, Notes
  <2> QED
    BY <1>7, <2>1, Moved DEF SendServerStarted, Others
<1>8. CASE ReverseConnect(d)
  BY <1>8, Moved, Untold DEF ReverseConnect, Others
<1>9. CASE ProcessEventsReturns(d) \/ UpdateScreen(d)
  BY <1>9, Moved, Untold DEF ProcessEventsReturns, UpdateScreen, Polling,
                               Others
<1>10. CASE Accept(d) \/ ClientGone(d) \/ Disconnect(d) \/ AnswerPing(d)
  BY <1>10, Untold DEF Accept, ClientGone, Disconnect, AnswerPing, Others
<1>11. CASE Signal(d)
  BY <1>11, Moved, Untold DEF Signal, Alive, Others
<1>12. CASE ObeyKill(d)
  BY <1>12, Moved, Untold DEF ObeyKill, Received, Others
<1>13. ASSUME NEW t \in Threads, CloseGrabber(d, t)
       PROVE  Others(d) /\ ProcessInv(d)'
  <2>1. CASE Die(d, "crash") /\ UNCHANGED told
    BY <1>1, <2>1
  <2>2. CASE /\ Goto(d, t, "cleanupInput")
             /\ grabber' = [grabber EXCEPT ![d] =
                               IF @ = "open" THEN "closed" ELSE @]
             /\ UNCHANGED <<method, uinput, network, bound, told, ended,
                            inbox>>
    BY <1>13, <2>2, Moved, Untold DEF CloseGrabber, Others, TypeOK
  <2> QED
    BY <1>13, <2>1, <2>2 DEF CloseGrabber
<1>14. ASSUME NEW t \in Threads, CleanupInput(d, t)
       PROVE  Others(d) /\ ProcessInv(d)'
  BY <1>14, Moved, Untold DEF CleanupInput, Others, TypeOK
<1>15. ASSUME NEW t \in Threads, SendServerStopped(d, t)
       PROVE  Others(d) /\ ProcessInv(d)'
  BY <1>15, Moved, Told DEF SendServerStopped, Others, Notes
<1>16. ASSUME NEW t \in Threads, UnbindIPCserver(d, t)
       PROVE  Others(d) /\ ProcessInv(d)'
  BY <1>16, Moved, Untold DEF UnbindIPCserver, Others, TypeOK
<1>17. ASSUME NEW t \in Threads, Exit(d, t)
       PROVE  Others(d) /\ ProcessInv(d)'
  BY <1>1, <1>17 DEF Exit
<1>18. CASE ReadAfterClose(d)
  <2>1. CASE \E how \in {"error", "crash"} : Die(d, how) /\ UNCHANGED told
    BY <1>1, <2>1
  <2>2. CASE /\ Goto(d, "main", "poll")
             /\ UNCHANGED <<devices, network, bound, told, ended, inbox>>
    BY <1>18, <2>2, Moved, Untold DEF ReadAfterClose, Others
  <2> QED
    BY <1>18, <2>1, <2>2 DEF ReadAfterClose
<1>19. CASE BindFails(d) \/ Quit(d) \/ IoctlFails(d)
  BY <1>1, <1>19 DEF BindFails, Quit, IoctlFails
<1> QED
  BY <1>2, <1>3, <1>4, <1>5, <1>6, <1>7, <1>8, <1>9, <1>10, <1>11, <1>12,
     <1>13, <1>14, <1>15, <1>16, <1>17, <1>18, <1>19, <1>20, <1>21
     DEF DaemonStep, MainStep, CloseStep, IpcStep, Client, Trouble

LEMMA HolderStep == IInv /\ [Next]_vars => OneHolder'
<1> SUFFICES ASSUME IInv, [Next]_vars PROVE OneHolder'
  OBVIOUS
<1> USE DEF OneHolder
<1>0. TypeOK /\ OneHolder
  BY DEF IInv
<1>1. CASE UNCHANGED bound
  BY <1>0, <1>1
<1>2. ASSUME NEW d \in Daemons, BindIPCserver(d) PROVE OneHolder'
  BY <1>0, <1>2 DEF BindIPCserver, TypeOK
<1>3. ASSUME NEW d \in Daemons, NEW how, Die(d, how) PROVE OneHolder'
  BY <1>0, <1>3, Dead
<1>4. ASSUME NEW d \in Daemons, NEW t \in Threads, UnbindIPCserver(d, t)
      PROVE  OneHolder'
  BY <1>0, <1>4 DEF UnbindIPCserver, TypeOK
<1> QED
  BY <1>1, <1>2, <1>3, <1>4
     DEF Next, vars, Launch, DaemonStep, MainStep, CloseStep, IpcStep, Client,
         Trouble, InitGrabberMethod, InitInput, InitVncServer, StartThread,
         SocketFails, IoctlFails, BindFails,
         SendServerStarted, ReverseConnect, Accept, ClientGone, Disconnect,
         Quit, ProcessEventsReturns, UpdateScreen, ReadAfterClose, Signal,
         CloseGrabber, CleanupInput, SendServerStopped, Exit, AnswerPing,
         ObeyKill, Received, Deliver

LEMMA NextIInv == IInv /\ [Next]_vars => IInv'
<1> SUFFICES ASSUME IInv, [Next]_vars PROVE IInv'
  OBVIOUS
<1>0. TypeOK' /\ OneHolder' /\ \A d \in Daemons : ProcessInv(d)
  BY TypeStep, HolderStep DEF IInv
<1>1. ASSUME NEW d \in Daemons, Launch(d) \/ DaemonStep(d)
      PROVE  \A e \in Daemons : ProcessInv(e)'
  BY <1>0, <1>1, ProcessStep, OthersKeep
<1>2. CASE UNCHANGED <<pc, bound, grabber, uinput, told, ended>>
  BY <1>0, <1>2, Untold
     DEF IInv, ProcessInv, ThreadsAgree, PortAgrees, DevicesAgree
<1>3. ASSUME NEW m \in Message, Deliver(m)
      PROVE  UNCHANGED <<pc, bound, grabber, uinput, told, ended>>
  BY <1>3 DEF Deliver, devices
<1> QED
  BY <1>0, <1>1, <1>2, <1>3 DEF Next, vars, IInv

LEMMA Invariance == Spec => []IInv
BY InitIInv, NextIInv, PTL DEF Spec

-----------------------------------------------------------------------------
\* Every variable stays in its range: two threads that close one process, and
\* processes that die at any step, leave no half-written state behind.
THEOREM TypeCorrect == Spec => []TypeOK
<1>1. IInv => TypeOK
  BY DEF IInv
<1> QED
  BY <1>1, Invariance, PTL

\* However many processes are launched, whenever they are killed, only one of
\* them serves the app (bindIPCserver, droidvncserver.c main()).
THEOREM OneServer == Spec => []SoleServer
<1>1. IInv => SoleServer
  BY DEF IInv, OneHolder, ProcessInv, PortAgrees, SoleServer, Serving,
         IsClosing, Threads, Closing
<1> QED
  BY <1>1, Invariance, PTL

\* After ~SERVERSTOPPED| the grabber and the input device are closed, whichever
\* threads ran close_app.
THEOREM StopIsOrderly == Spec => []OrderlyStop
<1>1. IInv => OrderlyStop
  BY DEF IInv, ProcessInv, DevicesAgree, OrderlyStop, Stopped
<1> QED
  BY <1>1, Invariance, PTL

\* No process ends normally without the app having been told.
THEOREM EndIsTold == Spec => []NormalEndIsTold
<1>1. IInv => NormalEndIsTold
  BY DEF IInv, ProcessInv, DevicesAgree, NormalEndIsTold, Stopped
<1> QED
  BY <1>1, Invariance, PTL

\* Whoever holds the command port has an IPC thread that reads it or comes at
\* once, or is about to free it.
THEOREM HolderReads == Spec => []PortHolderReads
<1>1. IInv => PortHolderReads
  BY DEF IInv, ProcessInv, PortAgrees, PortHolderReads, Threads
<1> QED
  BY <1>1, Invariance, PTL

-----------------------------------------------------------------------------
(* The daemon implements ServerLifecycle. *)

LEMMA PhaseOf ==
    ASSUME NEW d \in Daemons
    PROVE  /\ phase[d] = IF pc[d]["main"] = "off" THEN "off"
                         ELSE IF pc[d]["main"] = "gone" THEN "gone"
                         ELSE IF IsClosing(d) THEN "stopping"
                         ELSE IF Serving(d) THEN "serving"
                         ELSE "starting"
           /\ phase'[d] = IF pc'[d]["main"] = "off" THEN "off"
                          ELSE IF pc'[d]["main"] = "gone" THEN "gone"
                          ELSE IF IsClosing(d)' THEN "stopping"
                          ELSE IF Serving(d)' THEN "serving"
                          ELSE "starting"
BY DEF phase

\* The step of one process changes that process's phase at most.
LEMMA PhaseMoves ==
    ASSUME NEW d \in Daemons, Others(d)
    PROVE  phase' = [phase EXCEPT ![d] = phase'[d]]
<1>1. ASSUME NEW e \in Daemons \ {d} PROVE phase'[e] = phase[e]
  <2>1. pc'[e] = pc[e]
    BY DEF Others
  <2>2. (Serving(e)' <=> Serving(e)) /\ (IsClosing(e)' <=> IsClosing(e))
    BY <2>1 DEF Serving, IsClosing
  <2> QED
    BY <2>1, <2>2, PhaseOf
<1> QED
  BY <1>1 DEF phase

\* How the phase of a process moves when the process makes a step.
PhaseStep(d) ==
    \/ phase'[d] = phase[d]
    \/ phase[d] = "off" /\ phase'[d] = "starting"
    \/ /\ phase[d] = "starting" /\ phase'[d] = "serving"
       /\ \A e \in Daemons : phase[e] # "serving"
    \/ phase[d] \in {"starting", "serving"} /\ phase'[d] = "stopping"
    \/ phase[d] \in {"starting", "serving", "stopping"} /\ phase'[d] = "gone"

LEMMA ProcessPhase ==
    ASSUME IInv, NEW d \in Daemons, Launch(d) \/ DaemonStep(d)
    PROVE  PhaseStep(d)
<1>0. TypeOK /\ ThreadsAgree(d) /\ ThreadsAgree(d)'
  BY ProcessStep DEF IInv, ProcessInv
<1> USE <1>0, PhaseOf, Moved
        DEF PhaseStep, ThreadsAgree, IsClosing, Serving, Threads, SetUp,
            Running, Closing
<1>1. ASSUME NEW how, Die(d, how), pc[d]["main"] \notin {"off", "gone"}
      PROVE  PhaseStep(d)
  BY <1>1, Dead
<1>2. CASE Launch(d)
  BY <1>2 DEF Launch
<1>3. CASE InitGrabberMethod(d) \/ InitInput(d)
  BY <1>3 DEF InitGrabberMethod, InitInput
<1>4. CASE InitVncServer(d)
  BY <1>4 DEF InitVncServer
<1>5. CASE StartThread(d)
  <2>1. ASSUME NEW e \in Daemons, phase[e] = "serving" PROVE FALSE
    <3>1. Serving(e)
      BY <2>1 DEF phase
    <3>2. bound[e] /\ bound[d] /\ e # d
      BY <1>5, <3>1 DEF StartThread, IInv, ProcessInv, PortAgrees
    <3> QED BY <3>2 DEF IInv, OneHolder
  <2>2. pc'[d]["main"] = "announce" /\ pc'[d]["ipc"] = "recv"
    BY <1>5 DEF StartThread, TypeOK
  <2>3. phase[d] = "starting" /\ phase'[d] = "serving"
    BY <1>5, <2>2 DEF StartThread
  <2> QED
    BY <2>1, <2>3
<1>16. CASE BindIPCserver(d) \/ SocketFails(d)
  BY <1>16 DEF BindIPCserver, SocketFails
<1>6. CASE SendServerStarted(d) \/ ReverseConnect(d)
  BY <1>6 DEF SendServerStarted, ReverseConnect
<1>7. CASE ProcessEventsReturns(d) \/ UpdateScreen(d)
  BY <1>7 DEF ProcessEventsReturns, UpdateScreen, Polling
<1>8. CASE Accept(d) \/ ClientGone(d) \/ Disconnect(d) \/ AnswerPing(d)
  BY <1>8 DEF Accept, ClientGone, Disconnect, AnswerPing
<1>9. CASE Signal(d)
  BY <1>9 DEF Signal, Alive
<1>10. CASE ObeyKill(d)
  BY <1>10 DEF ObeyKill, Received
<1>11. ASSUME NEW t \in Threads,
              \/ CloseGrabber(d, t) /\ ~Die(d, "crash")
              \/ CleanupInput(d, t)
              \/ SendServerStopped(d, t) \/ UnbindIPCserver(d, t)
       PROVE  PhaseStep(d)
  BY <1>11 DEF CloseGrabber, CleanupInput, SendServerStopped, UnbindIPCserver
<1>12. ASSUME NEW t \in Threads, CloseGrabber(d, t), Die(d, "crash")
       PROVE  PhaseStep(d)
  BY <1>1, <1>12 DEF CloseGrabber
<1>13. ASSUME NEW t \in Threads, Exit(d, t)
       PROVE  PhaseStep(d)
  BY <1>1, <1>13 DEF Exit
<1>14. CASE ReadAfterClose(d)
  BY <1>1, <1>14 DEF ReadAfterClose
<1>15. CASE BindFails(d) \/ Quit(d) \/ IoctlFails(d)
  BY <1>1, <1>15 DEF BindFails, Quit, CanType, Polling, IoctlFails
<1> QED
  BY <1>2, <1>3, <1>4, <1>5, <1>6, <1>7, <1>8, <1>9, <1>10, <1>11, <1>12,
     <1>13, <1>14, <1>15, <1>16
     DEF DaemonStep, MainStep, CloseStep, IpcStep, Client, Trouble

LEMMA RefineStep == IInv /\ [Next]_vars => [Lifecycle!Next]_phase
<1> SUFFICES ASSUME IInv, [Next]_vars PROVE [Lifecycle!Next]_phase
  OBVIOUS
<1>1. ASSUME NEW d \in Daemons, Launch(d) \/ DaemonStep(d)
      PROVE  [Lifecycle!Next]_phase
  <2>1. PhaseStep(d) /\ phase' = [phase EXCEPT ![d] = phase'[d]]
    BY <1>1, ProcessStep, ProcessPhase, PhaseMoves
  <2>2. CASE phase'[d] = phase[d]
    BY <2>1, <2>2 DEF phase
  <2>3. CASE phase'[d] # phase[d]
    BY <2>1, <2>3 DEF PhaseStep, Lifecycle!Next, Lifecycle!Launch,
       Lifecycle!Serve, Lifecycle!Stop, Lifecycle!End, Lifecycle!Enter
  <2> QED
    BY <2>2, <2>3
<1>2. CASE UNCHANGED pc
  BY <1>2 DEF phase, IsClosing, Serving
<1>3. ASSUME NEW m \in Message, Deliver(m) PROVE UNCHANGED pc
  BY <1>3 DEF Deliver
<1> QED
  BY <1>1, <1>2, <1>3 DEF Next, vars

\* The process with its two threads, its ports and its datagrams does what
\* ServerLifecycle says of the phases, for any number of processes.
THEOREM Refinement == Spec => ImplementsLifecycle
<1>1. Init => Lifecycle!Init
  BY DEF Init, Lifecycle!Init, phase, Threads
<1> QED
  BY <1>1, Invariance, RefineStep, PTL
     DEF Spec, ImplementsLifecycle, Lifecycle!Spec
=============================================================================
