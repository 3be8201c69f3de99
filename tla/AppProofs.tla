----------------------------- MODULE AppProofs -----------------------------
(***************************************************************************)
(* The app uses the daemons and does not break them: what App does to the  *)
(* variables of Daemon is what Daemon allows, so that the theorems about   *)
(* Daemon hold of the whole system.  And the app's label, once everything  *)
(* has come to rest, tells the truth about them.                           *)
(***************************************************************************)
EXTENDS App, DaemonProofs

LEMMA AppStep == [AppNext]_allVars => [Next]_vars
<1> SUFFICES ASSUME [AppNext]_allVars PROVE [Next]_vars
  OBVIOUS
<1>1. CASE UNCHANGED allVars
  BY <1>1 DEF allVars
<1>2. ASSUME NEW d \in Daemons,
             \/ Listen(d) \/ Executes(d) \/ DaemonRuns(d) \/ Mishap(d)
      PROVE  [Next]_vars
  BY <1>2 DEF Next, DaemonStep, Listen, Executes, DaemonRuns, MainRuns,
     IpcRuns, CloseRuns, Mishap
<1>3. ASSUME KillServer PROVE [Next]_vars
  BY <1>3 DEF Next, KillServer, Message
<1>4. CASE Requests
  BY <1>3, <1>4 DEF Requests, Toggle, RestartServer, StartReverseConnection,
     HandleStart, ConnectivityChanged
<1>5. CASE UiStep
  BY <1>5 DEF UiStep, RestartWakes, ReverseWakes, OnReceive, OnReceiveWakes,
     Complain
<1>6. CASE Tick \/ \E i \in DOMAIN timers : TimerRuns(i)
  BY <1>6 DEF Tick, TimerRuns
<1> QED
  BY <1>1, <1>2, <1>4, <1>5, <1>6 DEF AppNext

\* With the app around them, whatever its user does, the daemons behave as
\* Daemon says.
THEOREM AppUsesDaemon == AppSpec => Spec
<1>1. AppInit => Init
  BY DEF AppInit
<1> QED
  BY <1>1, AppStep, PTL DEF AppSpec, Spec

\* Starting, stopping and restarting as fast as the user likes never makes
\* two daemons serve the app.
THEOREM AppHasOneServer == AppSpec => []SoleServer
BY AppUsesDaemon, OneServer, PTL

-----------------------------------------------------------------------------
(* The label.  When it shows a server, one is up or something is on its    *)
(* way that makes the app ask again; when an answer cannot come too late,  *)
(* it shows every server that is up, or the same holds.                    *)

HasKill(d) == \E i \in DOMAIN inbox[d] : inbox[d][i].type = "KILL"

\* A process with an IPC thread that has still to say that it stops.
Up(d) ==
    /\ pc[d]["main"] \notin {"off", "gone"}
    /\ pc[d]["ipc"] # "off"
    /\ ~Stopped(d)

\* A process that has said that it started and that nothing ends yet.
Settled(d) ==
    /\ pc[d]["main"] \in {"reverse", "poll", "frame"}
    /\ pc[d]["ipc"] = "recv"
    /\ ~HasKill(d)

Unheard(d) == heard[d] < Len(told[d])
Coming     == broadcasts > 0 \/ ui = "receive"

\* Who is in the loop has said so, and who has said that it stops is about to
\* end and does not sleep any more.
Spoken(d) ==
    /\ pc[d]["main"] \in {"reverse", "poll", "frame"} => told[d] # <<>>
    /\ Stopped(d) /\ pc[d]["main"] # "gone" =>
          \E t \in Threads : pc[d][t] \in {"unbind", "exit"}

Napping(d) ==
    \A t \in Threads : nap[d][t] > 0 => pc[d][t] = "cleanupInput"

\* A process that says that it stops ends within the second, long before
\* OnReceive asks.
EndsFirst(d) ==
    Stopped(d) /\ pc[d]["main"] # "gone" =>
        Unheard(d) \/ broadcasts > 0 \/ (ui = "receive" /\ wait = 2 * Second)

\* A process that has gone has said so, unless it never served.
Heralded(d) ==
    pc[d]["main"] = "gone" =>
        Stopped(d) \/ (ended[d] = "error" /\ told[d] = <<>>)

RunningHolds ==
    label = "Running" /\ Announced =>
        (\E d \in Daemons : Up(d) \/ Unheard(d)) \/ Coming

StoppedHolds(d) ==
    ~Sluggish /\ Settled(d) => label = "Running" \/ Unheard(d) \/ Coming

\* What is asked for is executed at most once.
Owed == IF ui \in {"restart", "reverse"} THEN 1 ELSE 0

AppTypes ==
    /\ AppTypeOK
    /\ heard \in [Daemons -> Nat]
    /\ launching + Owed <= requests

Tells ==
    /\ \A d \in Daemons : EndsFirst(d) /\ StoppedHolds(d)
    /\ RunningHolds

LabelInv ==
    /\ \A d \in Daemons : Spoken(d) /\ Napping(d)
    /\ Tells

AppInv == IInv /\ AppTypes /\ LabelInv

-----------------------------------------------------------------------------
(* Types. *)

\* A step of a process says at most one thing.
LEMMA Says ==
    ASSUME TypeOK, [Next]_vars, NEW d \in Daemons
    PROVE  told'[d] = told[d] \/ \E note \in Notes : told'[d] = Append(told[d], note)
<1>1. ASSUME NEW e \in Daemons, NEW note \in Notes, Tell(e, note)
      PROVE  told'[d] = told[d] \/ told'[d] = Append(told[d], note)
  BY <1>1 DEF Tell, TypeOK
<1>2. CASE UNCHANGED told
  BY <1>2
<1> QED
  BY <1>1, <1>2
     DEF Next, vars, Launch, DaemonStep, MainStep, CloseStep, IpcStep, Client,
         Trouble, InitGrabberMethod, InitInput, InitVncServer, BindIPCserver,
         StartThread, SocketFails, IoctlFails, BindFails,
         SendServerStarted, ReverseConnect, Accept, ClientGone, Disconnect,
         Quit, ProcessEventsReturns, UpdateScreen, ReadAfterClose, Signal,
         CloseGrabber, CleanupInput, SendServerStopped, UnbindIPCserver, Exit,
         AnswerPing, ObeyKill, Received, Deliver, Notes

LEMMA Grows ==
    ASSUME TypeOK, [Next]_vars
    PROVE  \A d \in Daemons : told[d] \in Seq(Notes) /\ Len(told[d]) <= Len(told'[d])
<1> SUFFICES ASSUME NEW d \in Daemons
             PROVE  told[d] \in Seq(Notes) /\ Len(told[d]) <= Len(told'[d])
  OBVIOUS
<1>1. told[d] \in Seq(Notes)
  BY DEF TypeOK
<1> QED
  BY <1>1, Says

\* What the app keeps beside the daemons.
OwnTypes ==
    /\ ui \in {"idle", "receive", "restart", "reverse"}
    /\ wait \in 0..2 * Second
    /\ label \in {"Running", "Stopped"}
    /\ broadcasts \in Nat
    /\ posts \in Seq(Timer)
    /\ timers \in Seq(Timer)
    /\ launching \in 0..MaxRequests
    /\ nap \in [Daemons -> [Threads -> 0..2 * Second]]
    /\ requests \in 0..MaxRequests
    /\ last \in Asked \cup {"nothing"}
    /\ launching + Owed <= requests

LEMMA HeardTypes ==
    ASSUME AppTypes, [AppNext]_allVars
    PROVE  /\ heard' \in [Daemons -> Nat]
           /\ \A d \in Daemons : heard'[d] \in 0..Len(told'[d])
<1>0. /\ heard \in [Daemons -> Nat]
      /\ \A d \in Daemons : heard[d] \in 0..Len(told[d])
      /\ \A d \in Daemons : told[d] \in Seq(Notes) /\ Len(told[d]) <= Len(told'[d])
      /\ \A d \in Daemons : told'[d] \in Seq(Notes)
  BY AppStep, Grows, TypeStep DEF AppTypes, AppTypeOK, TypeOK
<1>1. CASE UNCHANGED heard
  BY <1>0, <1>1
<1>2. ASSUME NEW d \in Daemons, Listen(d)
      PROVE  /\ heard' \in [Daemons -> Nat]
             /\ \A e \in Daemons : heard'[e] \in 0..Len(told'[e])
  BY <1>0, <1>2 DEF Listen, vars
<1> QED
  BY <1>1, <1>2
     DEF AppNext, allVars, appVars, Requests, Toggle, RestartServer,
         StartReverseConnection, HandleStart, ConnectivityChanged, UiStep,
         RestartWakes, ReverseWakes, OnReceive, OnReceiveWakes, Complain,
         TimerRuns, Executes, DaemonRuns, MainRuns, IpcRuns, CloseRuns, Mishap,
         AroundDaemon, Tick

LEMMA Answers == isServerRunning \subseteq BOOLEAN
BY DEF isServerRunning, Answering

\* A second that passes.
LEMMA Passing ==
    /\ \A n \in 0..2 : Pass(n) \in 0..2
    /\ \A r \in Timer : [r EXCEPT !.left = Pass(@)] \in Timer
<1>1. ASSUME NEW r \in Timer PROVE [r EXCEPT !.left = Pass(@)] \in Timer
  <2>1. r.left \in 0..4 /\ Pass(r.left) \in 0..4
    BY <1>1 DEF Timer, Pass, Second
  <2> QED
    BY <2>1 DEF Timer, Second
<1> QED
  BY <1>1 DEF Pass, Second

LEMMA OwnInit == AppInit => OwnTypes
BY AppAssumption DEF AppInit, OwnTypes, Owed, Second, Asked, Threads

LEMMA OwnStep == OwnTypes /\ [AppNext]_allVars => OwnTypes'
<1> SUFFICES ASSUME OwnTypes, [AppNext]_allVars PROVE OwnTypes'
  OBVIOUS
<1> USE AppAssumption DEF OwnTypes, Owed, Second
<1>1. ASSUME NEW about \in {"start", "stop"}, NEW s \in {2, 4}, SetTimer(about, s)
      PROVE  timers' \in Seq(Timer)
  BY <1>1 DEF SetTimer, Timer
<1>2. ASSUME NEW what \in Asked, Request(what)
      PROVE  /\ ui = "idle" /\ requests' = requests + 1
             /\ requests' \in 0..MaxRequests /\ last' \in Asked
  BY <1>2 DEF Request
<1>3. {"toggle", "restart", "reverse", "boot"} = Asked
  BY DEF Asked
<1>4. ASSUME SetStateLabels PROVE label' \in {"Running", "Stopped"}
  BY <1>4, Answers DEF SetStateLabels
<1>5. CASE Toggle
  <2>1. /\ ui = "idle" /\ requests' = requests + 1
        /\ requests' \in 0..MaxRequests /\ last' \in Asked
    BY <1>2, <1>3, <1>5 DEF Toggle
  <2>2. SetTimer("stop", 4 * Second) \/ SetTimer("start", 2 * Second)
    BY <1>5, Zenon DEF Toggle
  <2>3. timers' \in Seq(Timer)
    BY <1>1, <2>2
  <2>4. launching' = launching \/ launching' = launching + 1
    BY <1>5, Zenon DEF Toggle, Exec
  <2>5. UNCHANGED <<ui, wait, label, broadcasts, posts, nap>>
    BY <1>5 DEF Toggle, screen
  <2> QED
    BY <2>1, <2>3, <2>4, <2>5
<1>6. CASE RestartServer
  <2>1. /\ ui = "idle" /\ requests' = requests + 1
        /\ requests' \in 0..MaxRequests /\ last' \in Asked
    BY <1>2, <1>3, <1>6 DEF RestartServer
  <2>2. /\ timers' \in Seq(Timer)
        /\ ui' = "restart" /\ wait' = 2
        /\ UNCHANGED <<label, broadcasts, posts, launching, nap>>
    BY <1>1, <1>6 DEF RestartServer
  <2> QED
    BY <2>1, <2>2
<1>7. CASE StartReverseConnection
  <2>1. /\ ui = "idle" /\ requests' = requests + 1
        /\ requests' \in 0..MaxRequests /\ last' \in Asked
    BY <1>2, <1>3, <1>7 DEF StartReverseConnection
  <2>2. \/ ui' = "reverse" /\ wait' = 2 * Second /\ launching' = launching
        \/ ui' = ui /\ wait' = wait /\ launching' = launching + 1
    BY <1>7, Zenon DEF StartReverseConnection, Exec
  <2>3. UNCHANGED <<label, broadcasts, posts, timers, nap>>
    BY <1>7 DEF StartReverseConnection, queues
  <2> QED
    BY <2>1, <2>2, <2>3
<1>8. CASE HandleStart
  <2>1. /\ ui = "idle" /\ requests' = requests + 1
        /\ requests' \in 0..MaxRequests /\ last' \in Asked
    BY <1>2, <1>3, <1>8 DEF HandleStart
  <2> QED
    BY <1>8, <2>1 DEF HandleStart, Exec, screen, queues
<1>9. CASE ConnectivityChanged
  BY <1>4, <1>9 DEF ConnectivityChanged, queues, user
<1>10. CASE RestartWakes
  BY <1>1, <1>10 DEF RestartWakes, Exec, user
<1>11. CASE ReverseWakes
  BY <1>11 DEF ReverseWakes, Exec, queues, user
<1>12. CASE OnReceive
  BY <1>12 DEF OnReceive, user
<1>13. CASE OnReceiveWakes
  BY <1>4, <1>13 DEF OnReceiveWakes, queues, user
<1>14. CASE Complain
  BY <1>4, <1>14 DEF Complain, user
<1>15. ASSUME NEW i \in DOMAIN timers, TimerRuns(i) PROVE OwnTypes'
  <2>1. timers' \in Seq(Timer)
    BY <1>15 DEF TimerRuns, RemoveAt
  <2>2. posts' \in Seq(Timer)
    BY <1>15 DEF TimerRuns
  <2> QED
    BY <1>15, <2>1, <2>2 DEF TimerRuns, screen, user
<1>16. ASSUME NEW d \in Daemons, Listen(d) PROVE OwnTypes'
  BY <1>16 DEF Listen, screen, user
<1>17. ASSUME NEW d \in Daemons, Executes(d) PROVE OwnTypes'
  BY <1>17 DEF Executes, screen, queues, user
<1>18. ASSUME NEW d \in Daemons, AroundDaemon(d) PROVE OwnTypes'
  <2>1. nap' \in [Daemons -> [Threads -> 0..2]]
    BY <1>18 DEF AroundDaemon, Naps
  <2> QED
    BY <1>18, <2>1 DEF AroundDaemon, screen, queues, user
<1>19. CASE Tick
  <2>1. timers' \in Seq(Timer)
    <3> DEFINE one(i) == [timers[i] EXCEPT !.left = Pass(@)]
    <3>1. timers' = [i \in 1..Len(timers) |-> one(i)]
      BY <1>19 DEF Tick
    <3>2. \A i \in 1..Len(timers) : one(i) \in Timer
      BY Passing
    <3> HIDE DEF one
    <3> QED
      BY <3>1, <3>2
  <2>2. nap' \in [Daemons -> [Threads -> 0..2]]
    BY <1>19, Passing DEF Tick
  <2> QED
    BY <1>19, <2>1, <2>2, Passing DEF Tick, user
<1>20. CASE UNCHANGED allVars
  BY <1>20 DEF allVars, appVars, screen, queues, user
<1> QED
  BY <1>5, <1>6, <1>7, <1>8, <1>9, <1>10, <1>11, <1>12, <1>13, <1>14, <1>15,
     <1>16, <1>17, <1>18, <1>19, <1>20
     DEF AppNext, Requests, UiStep, DaemonRuns, MainRuns, IpcRuns, CloseRuns,
         Mishap

LEMMA AppTypesAre ==
    AppTypes <=> /\ TypeOK /\ OwnTypes
                 /\ heard \in [Daemons -> Nat]
                 /\ \A d \in Daemons : heard[d] \in 0..Len(told[d])
BY DEF AppTypes, AppTypeOK, OwnTypes

LEMMA AppTypesInit == AppInit => AppTypes
BY InitType, OwnInit, AppTypesAre DEF AppInit, Init

LEMMA AppTypesStep == AppTypes /\ [AppNext]_allVars => AppTypes'
BY AppStep, TypeStep, OwnStep, HeardTypes, AppTypesAre DEF AppTypes, AppTypeOK, OwnTypes

\* Nothing is executed that nobody asked for, nothing is heard that was not
\* said, and every sleep and timer stays within what was set: whatever the user
\* asks for while the app and its daemons sleep, in any number.
THEOREM AppTyped == AppSpec => []AppTypeOK
<1>1. AppTypes => AppTypeOK
  BY DEF AppTypes
<1> QED
  BY <1>1, AppTypesInit, AppTypesStep, PTL DEF AppSpec

-----------------------------------------------------------------------------
(* What the app may count on in a step of the daemons. *)

News(d) == Len(told[d]) < Len(told'[d])

\* A process does not come back, says so when it begins to serve and when it
\* stops, and is not gone without a word where Announced asks for one.
Course(d) ==
    /\ pc[d]["main"] = "gone" => pc'[d]["main"] = "gone"
    /\ Heralded(d)' => Heralded(d)
    /\ Stopped(d)' => Stopped(d) \/ News(d)
    /\ Up(d) /\ Heralded(d)' => Up(d)' \/ News(d)
    /\ Settled(d)' => Settled(d) \/ News(d)
    /\ Spoken(d)'

LEMMA CourseRests ==
    ASSUME NEW d \in Daemons, Spoken(d),
           UNCHANGED <<pc, told, ended>>, HasKill(d) => HasKill(d)'
    PROVE  Course(d)
BY DEF Course, Heralded, Stopped, HasTold, Up, Settled, Spoken

LEMMA CourseEnds ==
    ASSUME IInv, NEW d \in Daemons, NEW how, Die(d, how), UNCHANGED told,
           pc[d]["main"] # "gone",
           \/ pc[d]["ipc"] = "off" \/ Stopped(d)
           \/ how # "error" \/ told[d] # <<>>
    PROVE  Course(d)
<1>1. /\ \A t \in Threads : pc'[d][t] = "gone"
      /\ ended'[d] = how
  BY Dead DEF IInv
<1>2. Stopped(d)' <=> Stopped(d)
  BY Untold
<1> QED
  BY <1>1, <1>2
     DEF Course, Heralded, Up, Settled, Spoken, Threads

LEMMA ProcessCourse ==
    ASSUME IInv, NEW d \in Daemons, Spoken(d), Launch(d) \/ DaemonStep(d)
    PROVE  Course(d)
<1>0. /\ TypeOK /\ ThreadsAgree(d) /\ DevicesAgree(d)
      /\ told[d] \in Seq(Notes) /\ inbox[d] \in Seq(Message)
  BY DEF IInv, ProcessInv, TypeOK
<1>1. ASSUME UNCHANGED told
      PROVE  told'[d] = told[d] /\ (Stopped(d)' <=> Stopped(d))
  BY <1>1, Untold
<1>2. ASSUME UNCHANGED inbox PROVE HasKill(d)' <=> HasKill(d)
  BY <1>2 DEF HasKill
<1>3. ASSUME NEW note \in Notes, Tell(d, note)
      PROVE  /\ News(d) /\ told'[d] # <<>>
             /\ Stopped(d)' <=> Stopped(d) \/ note = "SERVERSTOPPED"
  <2>1. told'[d] = Append(told[d], note)
    BY <1>0, <1>3 DEF Tell, TypeOK
  <2> QED
    BY <1>0, <1>3, <2>1, Told DEF News
<1> USE <1>0 DEF ThreadsAgree, DevicesAgree, Course, Heralded, Up, Settled,
                 Spoken, Threads, SetUp, Running, Closing, devices, network
<1>4. CASE Launch(d)
  BY <1>1, <1>2, <1>4, Moved DEF Launch
<1>5. CASE InitGrabberMethod(d) \/ InitInput(d)
  BY <1>1, <1>2, <1>5, Moved DEF InitGrabberMethod, InitInput
<1>6. CASE InitVncServer(d)
  BY <1>1, <1>2, <1>6, Moved DEF InitVncServer
<1>7. CASE StartThread(d)
  <2>1. pc'[d]["main"] = "announce" /\ pc'[d]["ipc"] = "recv"
    BY <1>7 DEF StartThread, TypeOK
  <2> QED
    BY <1>1, <1>2, <1>7, <2>1 DEF StartThread
<1>22. CASE BindIPCserver(d) \/ SocketFails(d)
  BY <1>1, <1>2, <1>22, Moved DEF BindIPCserver, SocketFails
<1>8. CASE BindFails(d) \/ Quit(d) \/ IoctlFails(d)
  BY <1>8, CourseEnds DEF BindFails, Quit, CanType, Polling, IoctlFails
<1>9. CASE SendServerStarted(d)
  BY <1>2, <1>3, <1>9, Moved DEF SendServerStarted, Notes
<1>10. CASE ReverseConnect(d)
  BY <1>1, <1>2, <1>10, Moved DEF ReverseConnect
<1>11. CASE ProcessEventsReturns(d) \/ UpdateScreen(d)
  BY <1>1, <1>2, <1>11, Moved DEF ProcessEventsReturns, UpdateScreen, Polling
<1>12. CASE ReadAfterClose(d)
  <2>1. CASE \E how \in {"error", "crash"} : Die(d, how) /\ UNCHANGED told
    BY <1>12, <2>1, CourseEnds DEF ReadAfterClose
  <2>2. CASE /\ Goto(d, "main", "poll")
             /\ UNCHANGED <<devices, network, bound, told, ended, inbox>>
    BY <1>1, <1>2, <1>12, <2>2, Moved DEF ReadAfterClose
  <2> QED
    BY <1>12, <2>1, <2>2 DEF ReadAfterClose
<1>13. CASE Accept(d) \/ ClientGone(d) \/ Disconnect(d)
  BY <1>13, CourseRests DEF Accept, ClientGone, Disconnect, HasKill
<1>14. CASE Signal(d)
  BY <1>1, <1>2, <1>14, Moved DEF Signal, Alive
<1>15. CASE AnswerPing(d)
  <2>1. inbox'[d] = Tail(inbox[d]) /\ inbox[d] # <<>> /\ inbox[d][1].type = "PING"
    BY <1>15 DEF AnswerPing, Received, TypeOK
  <2>2. ASSUME NEW i \in DOMAIN inbox[d], inbox[d][i].type = "KILL"
        PROVE  HasKill(d)'
    <3>1. /\ i # 1 /\ i - 1 \in DOMAIN inbox'[d]
          /\ inbox'[d][i - 1] = inbox[d][i]
      BY <2>1, <2>2
    <3> QED
      BY <2>2, <3>1 DEF HasKill
  <2> QED
    BY <1>15, <2>2, CourseRests DEF AnswerPing, HasKill
<1>16. CASE ObeyKill(d)
  BY <1>1, <1>16, Moved DEF ObeyKill, Received
<1>17. ASSUME NEW t \in Threads, CloseGrabber(d, t) PROVE Course(d)
  <2>1. CASE Die(d, "crash") /\ UNCHANGED told
    BY <1>17, <2>1, CourseEnds DEF CloseGrabber
  <2>2. CASE Goto(d, t, "cleanupInput") /\ UNCHANGED <<told, ended, inbox>>
    BY <1>1, <1>2, <1>17, <2>2, Moved DEF CloseGrabber
  <2> QED
    BY <1>17, <2>1, <2>2 DEF CloseGrabber
<1>18. ASSUME NEW t \in Threads, CleanupInput(d, t) PROVE Course(d)
  BY <1>1, <1>2, <1>18, Moved DEF CleanupInput
<1>19. ASSUME NEW t \in Threads, SendServerStopped(d, t) PROVE Course(d)
  BY <1>2, <1>3, <1>19, Moved DEF SendServerStopped, Notes
<1>20. ASSUME NEW t \in Threads, UnbindIPCserver(d, t) PROVE Course(d)
  BY <1>1, <1>20, Moved DEF UnbindIPCserver
<1>21. ASSUME NEW t \in Threads, Exit(d, t) PROVE Course(d)
  BY <1>21, CourseEnds DEF Exit
<1> QED
  BY <1>4, <1>5, <1>6, <1>7, <1>8, <1>9, <1>10, <1>11, <1>12, <1>13, <1>14,
     <1>15, <1>16, <1>17, <1>18, <1>19, <1>20, <1>21, <1>22
     DEF DaemonStep, MainStep, CloseStep, IpcStep, Client, Trouble

LEMMA InboxesKeep ==
    ASSUME TypeOK, NEW d \in Daemons, Launch(d) \/ DaemonStep(d)
    PROVE  \A e \in Daemons \ {d} : inbox'[e] = inbox[e]
<1>1. ASSUME NEW how, Die(d, how)
      PROVE  \A e \in Daemons \ {d} : inbox'[e] = inbox[e]
  BY <1>1 DEF Die, TypeOK
<1>2. CASE UNCHANGED inbox
  BY <1>2
<1> QED
  BY <1>1, <1>2
     DEF TypeOK, Launch, DaemonStep, MainStep, CloseStep, IpcStep, Client,
         Trouble, InitGrabberMethod, InitInput, InitVncServer, BindIPCserver,
         StartThread, SocketFails, IoctlFails, BindFails,
         SendServerStarted, ReverseConnect, Accept, ClientGone, Disconnect,
         Quit, ProcessEventsReturns, UpdateScreen, ReadAfterClose, Signal,
         CloseGrabber, CleanupInput, SendServerStopped, UnbindIPCserver, Exit,
         AnswerPing, ObeyKill, Received

LEMMA NextCourse ==
    ASSUME IInv, [Next]_vars, \A d \in Daemons : Spoken(d)
    PROVE  \A d \in Daemons : Course(d)
<1> SUFFICES ASSUME NEW d \in Daemons PROVE Course(d)
  OBVIOUS
<1>0. TypeOK
  BY DEF IInv
<1>1. CASE UNCHANGED vars
  BY <1>1, CourseRests DEF vars, HasKill
<1>2. ASSUME NEW m \in Message, Deliver(m) PROVE Course(d)
  <2>1. inbox[d] \in Seq(Message)
    BY <1>0 DEF TypeOK
  <2>2. inbox'[d] = inbox[d] \/ inbox'[d] = Append(inbox[d], m)
    BY <1>2 DEF Deliver
  <2>3. HasKill(d) => HasKill(d)'
    BY <2>1, <2>2 DEF HasKill
  <2> QED
    BY <1>2, <2>3, CourseRests DEF Deliver
<1>3. ASSUME NEW e \in Daemons, Launch(e) \/ DaemonStep(e), e # d
      PROVE  Course(d)
  <2>1. Others(e) /\ inbox'[d] = inbox[d]
    BY <1>0, <1>3, ProcessStep, InboxesKeep
  <2>2. pc'[d] = pc[d] /\ told'[d] = told[d] /\ ended'[d] = ended[d]
    BY <1>3, <2>1 DEF Others
  <2> QED
    BY <2>1, <2>2
       DEF Course, Heralded, Stopped, HasTold, Up, Settled, HasKill, Spoken
<1>4. CASE Launch(d) \/ DaemonStep(d)
  BY <1>4, ProcessCourse
<1> QED
  BY <1>1, <1>2, <1>3, <1>4 DEF Next

-----------------------------------------------------------------------------
(* What each step of the app does to the label. *)

\* Steps that neither tell the app anything nor make it ask.
Aside ==
    /\ UNCHANGED <<label, broadcasts, heard>>
    /\ ui = "receive" => UNCHANGED <<ui, wait>>

LEMMA AsideKeeps ==
    ASSUME AppTypes, [Next]_vars, Tells, \A d \in Daemons : Course(d), Aside
    PROVE  Tells'
<1>1. \A d \in Daemons :
         /\ told[d] \in Seq(Notes) /\ told'[d] \in Seq(Notes)
         /\ Len(told[d]) <= Len(told'[d])
         /\ heard[d] \in 0..Len(told[d]) /\ heard'[d] = heard[d]
  BY Grows, TypeStep DEF AppTypes, AppTypeOK, TypeOK, Aside
<1>2. \A d \in Daemons : Unheard(d) \/ News(d) => Unheard(d)'
  BY <1>1 DEF Unheard, News
<1>3. Coming => Coming'
  BY DEF Coming, Aside
<1>4. ASSUME NEW d \in Daemons PROVE EndsFirst(d)'
  BY <1>2 DEF Tells, EndsFirst, Course, Aside
<1>5. ASSUME NEW d \in Daemons PROVE StoppedHolds(d)'
  BY <1>2, <1>3 DEF Tells, StoppedHolds, Course, Aside
<1>6. RunningHolds'
  <2> SUFFICES ASSUME label' = "Running", Announced'
               PROVE  (\E d \in Daemons : Up(d)' \/ Unheard(d)') \/ Coming'
    BY DEF RunningHolds
  <2>1. label = "Running" /\ Announced /\ \A d \in Daemons : Heralded(d)'
    BY DEF Announced, Heralded, Stopped, Aside, Course
  <2>2. (\E d \in Daemons : Up(d) \/ Unheard(d)) \/ Coming
    BY <2>1 DEF Tells, RunningHolds
  <2> QED
    BY <1>2, <1>3, <2>1, <2>2 DEF Course
<1> QED
  BY <1>4, <1>5, <1>6 DEF Tells


\* A step that leaves the daemons and what was heard of them alone.
LEMMA Still ==
    ASSUME UNCHANGED <<vars, heard>>
    PROVE  /\ \A d \in Daemons :
                 /\ Stopped(d)' <=> Stopped(d)
                 /\ Up(d)' <=> Up(d)
                 /\ Settled(d)' <=> Settled(d)
                 /\ Unheard(d)' <=> Unheard(d)
                 /\ pc'[d] = pc[d]
           /\ Announced' <=> Announced
BY DEF vars, Stopped, HasTold, Up, Settled, HasKill, Unheard, Announced

\* A process whose IPC thread receives is up, or the app has still to hear that
\* it stops.
LEMMA WhoAnswers ==
    ASSUME IInv, Answering
    PROVE  \E d \in Daemons : Up(d) \/ (Stopped(d) /\ pc[d]["main"] # "gone")
<1>1. PICK d \in Daemons : pc[d]["ipc"] = "recv"
  BY DEF Answering
<1>2. pc[d]["main"] \notin {"off", "gone"}
  BY <1>1 DEF IInv, ProcessInv, ThreadsAgree
<1> QED
  BY <1>1, <1>2 DEF Up

LEMMA AsksKeep ==
    ASSUME IInv, Tells, SetStateLabels, UNCHANGED <<vars, heard, broadcasts>>,
           ~(ui = "receive" /\ wait = 2 * Second)
    PROVE  Tells'
<1>1. \/ label' = "Running" /\ Answering
      \/ label' = "Stopped" /\ (~Answering \/ Sluggish)
  <2>1. PICK running \in isServerRunning :
               label' = IF running THEN "Running" ELSE "Stopped"
    BY DEF SetStateLabels
  <2>2. running = Answering \/ (running = FALSE /\ Sluggish)
    BY Zenon DEF isServerRunning
  <2>3. Answering \in BOOLEAN
    BY DEF Answering
  <2>4. CASE running = Answering
    BY <2>1, <2>3, <2>4, Zenon
  <2>5. CASE running = FALSE /\ Sluggish
    BY <2>1, <2>5, Zenon
  <2> QED
    BY <2>2, <2>4, <2>5
<1>2. ASSUME NEW d \in Daemons, Stopped(d), pc[d]["main"] # "gone"
      PROVE  Unheard(d) \/ broadcasts > 0
  BY <1>2 DEF Tells, EndsFirst
<1>3. ASSUME NEW d \in Daemons PROVE EndsFirst(d)'
  BY <1>2, Still DEF EndsFirst
<1>4. ASSUME NEW d \in Daemons PROVE StoppedHolds(d)'
  <2>1. Settled(d) => Answering
    BY DEF Settled, HasKill, Answering
  <2> QED
    BY <1>1, <2>1, Still DEF StoppedHolds
<1>5. RunningHolds'
  BY <1>1, <1>2, WhoAnswers, Still DEF RunningHolds, Coming
<1> QED
  BY <1>3, <1>4, <1>5 DEF Tells

\* A broadcast on its way, or just received, makes the app ask again.
LEMMA ComingKeeps ==
    ASSUME UNCHANGED <<vars, label>>,
           broadcasts' > 0 \/ (ui' = "receive" /\ wait' = 2 * Second)
    PROVE  Tells'
BY DEF Tells, EndsFirst, StoppedHolds, RunningHolds, Coming

\* While a process that says that it stops has not ended, the clock stands.
LEMMA TickKeeps ==
    ASSUME \A d \in Daemons : Spoken(d) /\ Napping(d), AppTypes, Tells, Tick
    PROVE  Tells'
<1>1. ASSUME NEW d \in Daemons, Stopped(d), pc[d]["main"] # "gone"
      PROVE  FALSE
  <2>1. PICK t \in Threads : pc[d][t] \in {"unbind", "exit"}
    BY <1>1 DEF Spoken
  <2>2. nap[d][t] = 0
    BY <2>1 DEF Napping, AppTypes, AppTypeOK, Second
  <2> QED
    BY <2>1, <2>2 DEF Tick, Urgent, Busy, Closing
<1>2. UNCHANGED <<vars, heard, label, broadcasts, ui>>
  BY DEF Tick
<1> QED
  BY <1>1, <1>2, Still
     DEF Tells, EndsFirst, StoppedHolds, RunningHolds, Coming


LEMMA NapsEnd ==
    ASSUME AppInv, [AppNext]_allVars
    PROVE  \A d \in Daemons : Napping(d)'
<1> SUFFICES ASSUME NEW d \in Daemons PROVE Napping(d)'
  OBVIOUS
<1>0. /\ IInv /\ TypeOK /\ Napping(d) /\ ThreadsAgree(d)
      /\ nap \in [Daemons -> [Threads -> 0..2]]
  BY DEF AppInv, LabelInv, IInv, ProcessInv, AppTypes, AppTypeOK, Second
<1>1. CASE UNCHANGED <<pc, nap>>
  BY <1>0, <1>1 DEF Napping
<1>2. CASE Tick
  <2>1. \A t \in Threads : nap'[d][t] > 0 => nap[d][t] > 0
    BY <1>0, <1>2 DEF Tick, Pass
  <2> QED
    BY <1>0, <1>2, <2>1 DEF Tick, vars, Napping
<1>3. ASSUME NEW e \in Daemons, Executes(e) PROVE Napping(d)'
  <2>1. /\ pc[e]["main"] = "off" /\ UNCHANGED nap
        /\ pc' = [pc EXCEPT ![e]["main"] = "grabber"]
    BY <1>3 DEF Executes, Launch, Goto
  <2> QED
    BY <1>0, <2>1 DEF Napping, TypeOK, Threads
<1>4. ASSUME NEW e \in Daemons, DaemonRuns(e) \/ Mishap(e) PROVE Napping(d)'
  <2>1. Others(e) /\ Naps(e)
    BY <1>0, <1>4, ProcessStep
       DEF DaemonRuns, MainRuns, IpcRuns, CloseRuns, Mishap, AroundDaemon,
           DaemonStep
  <2>2. CASE e = d
    <3>1. \A t \in Threads : pc'[d][t] # "cleanupInput" => nap'[d][t] = 0
      BY <1>0, <2>1, <2>2 DEF Naps
    <3> QED
      BY <3>1 DEF Napping
  <2>3. CASE e # d
    <3>1. nap'[d] = nap[d] /\ pc'[d] = pc[d]
      BY <1>0, <2>1, <2>3 DEF Naps, Others
    <3> QED
      BY <1>0, <3>1 DEF Napping
  <2> QED
    BY <2>2, <2>3
<1>5. ASSUME KillServer PROVE UNCHANGED pc
  BY <1>5 DEF KillServer, Deliver
<1> QED
  BY <1>1, <1>2, <1>3, <1>4, <1>5
     DEF AppNext, allVars, appVars, vars, Requests, Toggle, RestartServer,
         StartReverseConnection, HandleStart, ConnectivityChanged, UiStep,
         RestartWakes, ReverseWakes, OnReceive, OnReceiveWakes, Complain,
         TimerRuns, Listen

LEMMA TellsStep ==
    ASSUME AppInv, [AppNext]_allVars, \A d \in Daemons : Course(d)
    PROVE  Tells'
<1>0. /\ IInv /\ AppTypes /\ Tells /\ broadcasts \in Nat
      /\ \A d \in Daemons : Spoken(d) /\ Napping(d)
  BY DEF AppInv, LabelInv, AppTypes, AppTypeOK
<1>1. CASE Aside
  BY <1>0, <1>1, AsideKeeps, AppStep
<1>2. CASE ConnectivityChanged \/ OnReceiveWakes \/ Complain
  BY <1>0, <1>2, AsksKeep
     DEF ConnectivityChanged, OnReceiveWakes, Complain, queues, Second
<1>3. CASE OnReceive
  BY <1>3, ComingKeeps DEF OnReceive
<1>4. ASSUME NEW d \in Daemons, Listen(d) PROVE Tells'
  BY <1>0, <1>4, ComingKeeps, AppAssumption DEF Listen, screen
<1>5. CASE Tick
  BY <1>0, <1>5, TickKeeps
<1>6. CASE Toggle \/ RestartServer \/ StartReverseConnection \/ HandleStart
  BY <1>1, <1>6 DEF Toggle, RestartServer, StartReverseConnection,
     HandleStart, Request, screen, queues, Aside
<1>7. CASE RestartWakes \/ ReverseWakes
  BY <1>1, <1>7 DEF RestartWakes, ReverseWakes, queues, Aside
<1>8. ASSUME NEW i \in DOMAIN timers, TimerRuns(i) PROVE Tells'
  BY <1>1, <1>8 DEF TimerRuns, screen, Aside
<1>9. ASSUME NEW d \in Daemons, Executes(d) \/ DaemonRuns(d) \/ Mishap(d)
      PROVE  Tells'
  BY <1>1, <1>9 DEF Executes, DaemonRuns, MainRuns, IpcRuns, CloseRuns,
     Mishap, AroundDaemon, screen, queues, Aside
<1>10. CASE UNCHANGED allVars
  BY <1>1, <1>10 DEF allVars, appVars, screen, queues, Aside
<1> QED
  BY <1>2, <1>3, <1>4, <1>5, <1>6, <1>7, <1>8, <1>9, <1>10
     DEF AppNext, Requests, UiStep

LEMMA AppInvInit == AppInit => AppInv
<1> SUFFICES ASSUME AppInit PROVE AppInv
  OBVIOUS
<1>1. IInv /\ AppTypes
  BY InitIInv, AppTypesInit DEF AppInit
<1>2. ASSUME NEW d \in Daemons
      PROVE  /\ \A t \in Threads : pc[d][t] = "off" /\ nap[d][t] = 0
             /\ told[d] = <<>>
  BY <1>2 DEF AppInit, Init
<1>3. ASSUME NEW d \in Daemons PROVE ~Stopped(d)
  BY <1>2 DEF Stopped, HasTold
<1> QED
  BY <1>1, <1>2, <1>3
     DEF AppInit, AppInv, LabelInv, Spoken, Napping, Tells, EndsFirst,
         StoppedHolds, Settled, RunningHolds, Threads

LEMMA AppInvStep == AppInv /\ [AppNext]_allVars => AppInv'
<1> SUFFICES ASSUME AppInv, [AppNext]_allVars PROVE AppInv'
  OBVIOUS
<1>1. IInv' /\ AppTypes'
  BY AppStep, NextIInv, AppTypesStep DEF AppInv
<1>2. \A d \in Daemons : Course(d)
  BY AppStep, NextCourse DEF AppInv, LabelInv
<1>3. \A d \in Daemons : Spoken(d)' /\ Napping(d)'
  BY <1>2, NapsEnd DEF Course
<1> QED
  BY <1>1, <1>2, <1>3, TellsStep DEF AppInv, LabelInv

LEMMA AppInvariance == AppSpec => []AppInv
BY AppInvInit, AppInvStep, PTL DEF AppSpec

\* At rest nothing is on its way to the app and no thread is in close_app.
LEMMA Rest ==
    ASSUME AppInv, AtRest
    PROVE  /\ ~Coming
           /\ \A d \in Daemons :
                 /\ ~Unheard(d)
                 /\ Up(d) => Serving(d)
                 /\ Serving(d) => Settled(d)
<1>0. /\ wait \in 0..2 /\ broadcasts \in Nat
      /\ nap \in [Daemons -> [Threads -> 0..2]]
      /\ \A d \in Daemons : ThreadsAgree(d)
      /\ pc \in [Daemons -> [Threads -> Labels]]
  BY DEF AppInv, AppTypes, AppTypeOK, TypeOK, IInv, ProcessInv, Second
<1>1. ~Coming
  BY <1>0 DEF Coming, AtRest, Urgent, Sleepers
<1>2. ASSUME NEW d \in Daemons
      PROVE  ~Busy(d) /\ \A t \in Threads : pc[d][t] \notin Closing
  BY <1>0 DEF AtRest, Urgent, Sleepers, Busy
<1>3. ASSUME NEW d \in Daemons, Up(d) PROVE Serving(d)
  BY <1>0, <1>2, <1>3
     DEF Up, Serving, IsClosing, Busy, ThreadsAgree, Labels, Threads
<1>4. ASSUME NEW d \in Daemons, Serving(d) PROVE Settled(d)
  BY <1>0, <1>2, <1>4
     DEF Serving, Settled, HasKill, Busy, ThreadsAgree, Running, Threads
<1>5. ASSUME NEW d \in Daemons PROVE ~Unheard(d)
  BY <1>2 DEF Busy, Unheard
<1> QED
  BY <1>1, <1>3, <1>4, <1>5

\* The app at rest shows no server that has gone, however late the answers to
\* its questions come: OnReceive asks two seconds after the last notice, and
\* who gives notice that he stops has ended by then (MainActivity.java
\* onReceive, setStateLabels; ServerManager.java SocketListener).
THEOREM RunningShowsServer == AppSpec => []RunningIsTrue
<1>1. AppInv => RunningIsTrue
  BY Rest DEF AppInv, LabelInv, Tells, RunningHolds, RunningIsTrue, IsServed
<1> QED
  BY <1>1, AppInvariance, PTL

\* When every answer comes in time, the label of the app at rest says exactly
\* whether a server runs, for any number of processes, requests and receivers.
THEOREM LabelTellsTruth ==
    ASSUME ~Sluggish
    PROVE  AppSpec => []LabelIsTrue
<1>1. AppInv => LabelIsTrue
  <2> SUFFICES ASSUME AppInv, AtRest, Announced
               PROVE  label = "Running" <=> IsServed
    BY DEF LabelIsTrue
  <2>1. label = "Running" => IsServed
    BY Rest DEF AppInv, LabelInv, Tells, RunningHolds, IsServed
  <2>2. IsServed => label = "Running"
    BY Rest DEF AppInv, LabelInv, Tells, StoppedHolds, IsServed
  <2> QED
    BY <2>1, <2>2
<1> QED
  BY <1>1, AppInvariance, PTL
=============================================================================
