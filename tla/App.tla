-------------------------------- MODULE App --------------------------------
(***************************************************************************)
(* The Android app and the daemons it starts and stops.                    *)
(*                                                                         *)
(*  - the UI thread (MainActivity) starts, stops and restarts the daemon,  *)
(*    asks isServerRunning, and shows the answer in its label; it does one *)
(*    thing at a time and sleeps on its own thread                         *)
(*  - the SocketListener thread (ServerManager) turns every ~SERVERSTARTED|*)
(*    and ~SERVERSTOPPED| into a broadcast for the UI thread               *)
(*  - timers ask, some seconds after a start or a stop, whether it worked  *)
(*                                                                         *)
(* Time is counted in seconds, which is what the sleeps and timers are     *)
(* written in.  Everything else takes less than a second: the clock ticks  *)
(* only when nobody has anything to do but wait.                           *)
(***************************************************************************)
EXTENDS Daemon, SequencesExt

CONSTANTS
    Receivers,    \* receivers that onResume has registered, none is ever freed
    Sluggish,     \* whether a ~PONG| may take longer than 100 ms
    Mishaps,      \* whether signals reach daemons, what they ask of the
                  \* system fails, and clients press keys
    MaxRequests   \* bound on what the user asks for

ASSUME AppAssumption ==
    /\ Receivers \in Nat \ {0}
    /\ {Sluggish, Mishaps} \subseteq BOOLEAN
    /\ MaxRequests \in Nat

VARIABLES
    ui,         \* what the UI thread sleeps in, or "idle"
    wait,       \* seconds it still sleeps
    label,      \* what the state label says
    broadcasts, \* ACTIVITY_UPDATE intents the UI thread has not received
    posts,      \* what timers have posted to the UI thread
    timers,     \* the timers set, with their seconds left
    launching,  \* daemons asked for and not yet executing
    heard,      \* how many notices of each daemon the listener has read
    nap,        \* seconds each thread of a daemon still sleeps
    requests,   \* how many things the user has asked for
    last        \* the last of them

screen  == <<ui, wait, label>>
queues  == <<broadcasts, posts, timers>>
user    == <<requests, last>>
appVars == <<screen, queues, launching, heard, nap, user>>

-----------------------------------------------------------------------------
Second  == 1
Asked   == {"toggle", "restart", "reverse", "boot"}
\* A timer knows who was serving when it was set.
Timer   == [about : {"start", "stop"}, left : 0..4 * Second,
            served : SUBSET Daemons]

AppTypeOK ==
    /\ TypeOK
    /\ ui \in {"idle", "receive", "restart", "reverse"}
    /\ wait \in 0..2 * Second
    /\ label \in {"Running", "Stopped"}
    /\ broadcasts \in Nat
    /\ posts \in Seq(Timer)
    /\ timers \in Seq(Timer)
    /\ launching \in 0..MaxRequests
    /\ \A d \in Daemons : heard[d] \in 0..Len(told[d])
    /\ nap \in [Daemons -> [Threads -> 0..2 * Second]]
    /\ requests \in 0..MaxRequests
    /\ last \in Asked \cup {"nothing"}

AppInit ==
    /\ Init
    /\ ui = "idle"
    /\ wait = 0
    /\ label = "Stopped"
    /\ broadcasts = 0
    /\ posts = <<>>
    /\ timers = <<>>
    /\ launching = 0
    /\ heard = [d \in Daemons |-> 0]
    /\ nap = [d \in Daemons |-> [t \in Threads |-> 0]]
    /\ requests = 0
    /\ last = "nothing"

-----------------------------------------------------------------------------
(* isServerRunning, killServer, startServer. *)

\* A ~PING| is answered by an IPC thread that comes to read it: not by one
\* that has a ~KILL| to read first.
Answering ==
    \E d \in Daemons :
        /\ pc[d]["ipc"] = "recv"
        /\ \A i \in DOMAIN inbox[d] : inbox[d][i].type # "KILL"

isServerRunning == {Answering} \cup (IF Sluggish THEN {FALSE} ELSE {})

KillServer == \E s \in Senders : Deliver([type |-> "KILL", from |-> s])

\* Runtime.exec: the process comes to life some time later.
Exec == launching' = launching + 1

SetTimer(about, seconds) ==
    timers' = Append(timers,
                     [about |-> about, left |-> seconds,
                      served |-> {d \in Daemons : Serving(d)}])

SetStateLabels ==
    \E running \in isServerRunning :
        label' = IF running THEN "Running" ELSE "Stopped"

-----------------------------------------------------------------------------
(* The UI thread. *)

Request(what) ==
    /\ ui = "idle"
    /\ requests < MaxRequests
    /\ requests' = requests + 1
    /\ last' = what

\* The big button: stop a server that runs, start one otherwise.
Toggle ==
    /\ Request("toggle")
    /\ \/ /\ TRUE \in isServerRunning
          /\ KillServer
          /\ SetTimer("stop", 4 * Second)
          /\ UNCHANGED launching
       \/ /\ FALSE \in isServerRunning
          /\ Exec
          /\ SetTimer("start", 2 * Second)
          /\ UNCHANGED vars
    /\ UNCHANGED <<screen, broadcasts, posts, heard, nap>>

\* "Restart server?" Yes: kill it, sleep, and start it whatever has happened.
\* Its button is visible while the label says Running.
RestartServer ==
    /\ label = "Running"
    /\ Request("restart")
    /\ KillServer
    /\ SetTimer("stop", 4 * Second)
    /\ ui' = "restart"
    /\ wait' = 2 * Second
    /\ UNCHANGED <<label, broadcasts, posts, launching, heard, nap>>

RestartWakes ==
    /\ ui = "restart" /\ wait = 0
    /\ Exec
    /\ SetTimer("start", 2 * Second)
    /\ ui' = "idle"
    /\ UNCHANGED <<vars, wait, label, broadcasts, posts, heard, nap, user>>

\* Start with -R, after stopping a server that runs.
StartReverseConnection ==
    /\ Request("reverse")
    /\ \/ /\ TRUE \in isServerRunning
          /\ KillServer
          /\ ui' = "reverse"
          /\ wait' = 2 * Second
          /\ UNCHANGED launching
       \/ /\ FALSE \in isServerRunning
          /\ Exec
          /\ UNCHANGED <<vars, ui, wait>>
    /\ UNCHANGED <<label, queues, heard, nap>>

ReverseWakes ==
    /\ ui = "reverse" /\ wait = 0
    /\ Exec
    /\ ui' = "idle"
    /\ UNCHANGED <<vars, wait, label, queues, heard, nap, user>>

\* handleStart, at boot or when the service is started: nobody is asked
\* whether a server runs.
HandleStart ==
    /\ Request("boot")
    /\ Exec
    /\ UNCHANGED <<vars, screen, queues, heard, nap>>

\* Mutant: no two-second sleep before asking.
OnReceiveAtOnce ==
    /\ ui = "idle" /\ broadcasts > 0
    /\ broadcasts' = broadcasts - 1
    /\ ui' = "receive"
    /\ UNCHANGED <<vars, wait, label, posts, timers, launching, heard, nap,
                   user>>

OnReceive ==
    /\ ui = "idle" /\ broadcasts > 0
    /\ broadcasts' = broadcasts - 1
    /\ ui' = "receive"
    /\ wait' = 2 * Second
    /\ UNCHANGED <<vars, label, posts, timers, launching, heard, nap, user>>

OnReceiveWakes ==
    /\ ui = "receive" /\ wait = 0
    /\ SetStateLabels
    /\ ui' = "idle"
    /\ UNCHANGED <<vars, wait, queues, launching, heard, nap, user>>

\* "Could not start server" or "Could not stop server", and a new label.
Complain ==
    /\ ui = "idle" /\ posts # <<>>
    /\ posts' = Tail(posts)
    /\ SetStateLabels
    /\ UNCHANGED <<vars, ui, wait, broadcasts, timers, launching, heard, nap,
                   user>>

\* The network came or went: the label is set anew.
ConnectivityChanged ==
    /\ ui = "idle"
    /\ SetStateLabels
    /\ UNCHANGED <<vars, ui, wait, queues, launching, heard, nap, user>>

-----------------------------------------------------------------------------
(* The app's other threads. *)

\* Whether a timer finds what the user asked for undone.
Failed(timer, running) == (timer.about = "stop") = running

\* Mutant: the timer is periodic.
TimerRepeats(i) ==
    /\ timers[i].left = 0
    /\ timers' = [timers EXCEPT ![i].left = 2 * Second]
    /\ \E running \in isServerRunning :
          posts' = IF Failed(timers[i], running)
                   THEN Append(posts, timers[i])
                   ELSE posts
    /\ UNCHANGED <<vars, screen, broadcasts, launching, heard, nap, user>>

TimerRuns(i) ==
    /\ timers[i].left = 0
    /\ timers' = RemoveAt(timers, i)
    /\ \E running \in isServerRunning :
          posts' = IF Failed(timers[i], running)
                   THEN Append(posts, timers[i])
                   ELSE posts
    /\ UNCHANGED <<vars, screen, broadcasts, launching, heard, nap, user>>

\* Mutant: only ~SERVERSTARTED| is broadcast.
ListenForStarts(d) ==
    /\ heard[d] < Len(told[d])
    /\ heard' = [heard EXCEPT ![d] = @ + 1]
    /\ broadcasts' = IF told[d][heard[d] + 1] = "SERVERSTARTED"
                     THEN broadcasts + Receivers ELSE broadcasts
    /\ UNCHANGED <<vars, screen, posts, timers, launching, nap, user>>

\* Every registered receiver gets the broadcast.
Listen(d) ==
    /\ heard[d] < Len(told[d])
    /\ heard' = [heard EXCEPT ![d] = @ + 1]
    /\ broadcasts' = broadcasts + Receivers
    /\ UNCHANGED <<vars, screen, posts, timers, launching, nap, user>>

-----------------------------------------------------------------------------
(* The daemons, and the clock. *)

\* Mutant: daemons are executed that nobody has asked for.
ExecutesUnasked(d) ==
    /\ Launch(d)
    /\ launching' = launching - 1
    /\ UNCHANGED <<screen, queues, heard, nap, user>>

Executes(d) ==
    /\ launching > 0
    /\ Launch(d)
    /\ launching' = launching - 1
    /\ UNCHANGED <<screen, queues, heard, nap, user>>

\* suinput_close sleeps for two seconds whenever there is an inputfd.
Naps(d) ==
    nap' = [nap EXCEPT ![d] = [t \in Threads |->
               IF pc'[d][t] # "cleanupInput" THEN 0
               ELSE IF pc[d][t] = "cleanupInput" THEN @[t]
               ELSE IF uinput[d] = "none" THEN 0 ELSE 2 * Second]]

AroundDaemon(d) ==
    Naps(d) /\ UNCHANGED <<screen, queues, launching, heard, user>>

MainRuns(d)     == MainStep(d) /\ AroundDaemon(d)
IpcRuns(d)      == IpcStep(d) /\ AroundDaemon(d)
CloseRuns(d, t) == nap[d][t] = 0 /\ CloseStep(d, t) /\ AroundDaemon(d)

DaemonRuns(d) ==
    MainRuns(d) \/ IpcRuns(d) \/ \E t \in Threads : CloseRuns(d, t)

Mishap(d) ==
    /\ Mishaps
    /\ Client(d) \/ Trouble(d)
    /\ AroundDaemon(d)

\* Somebody has something to do now.
Busy(d) ==
    \/ pc[d]["main"] \in SetUp \cup {"announce", "reverse", "frame"}
    \/ \E t \in Threads : pc[d][t] \in Closing /\ nap[d][t] = 0
    \/ pc[d]["ipc"] = "recv" /\ inbox[d] # <<>>
    \/ heard[d] < Len(told[d])

Urgent ==
    \/ launching > 0
    \/ \E d \in Daemons : Busy(d)
    \/ ui # "idle" /\ wait = 0
    \/ ui = "idle" /\ (broadcasts > 0 \/ posts # <<>>)
    \/ \E i \in DOMAIN timers : timers[i].left = 0

Sleepers ==
    \/ wait > 0
    \/ timers # <<>>
    \/ \E d \in Daemons, t \in Threads : nap[d][t] > 0

Pass(n) == IF n > 0 THEN n - Second ELSE 0

Tick ==
    /\ ~Urgent
    /\ Sleepers
    /\ wait' = Pass(wait)
    /\ timers' = [i \in DOMAIN timers |-> [timers[i] EXCEPT !.left = Pass(@)]]
    /\ nap' = [d \in Daemons |-> [t \in Threads |-> Pass(nap[d][t])]]
    /\ UNCHANGED <<vars, ui, label, broadcasts, posts, launching, heard, user>>

-----------------------------------------------------------------------------
Requests ==
    \/ Toggle \/ RestartServer \/ StartReverseConnection \/ HandleStart
    \/ ConnectivityChanged

UiStep ==
    \/ RestartWakes \/ ReverseWakes \/ OnReceive \/ OnReceiveWakes \/ Complain

AppNext ==
    \/ Requests
    \/ UiStep
    \/ \E i \in DOMAIN timers : TimerRuns(i)
    \/ \E d \in Daemons :
          Listen(d) \/ Executes(d) \/ DaemonRuns(d) \/ Mishap(d)
    \/ Tick

allVars == <<vars, appVars>>

AppSpec == AppInit /\ [][AppNext]_allVars

\* Every thread runs.  The main loop of a daemon never stops, but sleeps in
\* each turn, so that time passes too.
AppFairness ==
    /\ WF_allVars(UiStep)
    /\ WF_allVars(\E i \in DOMAIN timers : TimerRuns(i))
    /\ \A d \in Daemons :
          /\ WF_allVars(Listen(d))
          /\ WF_allVars(Executes(d))
          /\ WF_allVars(MainRuns(d)) /\ WF_allVars(IpcRuns(d))
          /\ \A t \in Threads : WF_allVars(CloseRuns(d, t))
    /\ SF_allVars(Tick)

AppFairSpec == AppSpec /\ AppFairness

-----------------------------------------------------------------------------
(* Properties. *)

\* Nothing is going on, but that the user may ask for something.
AtRest == ~Urgent /\ ~Sleepers

\* No process but one that found the port taken has gone without a word, as
\* F12 and a crash make it do.
Announced ==
    \A d \in Daemons : pc[d]["main"] = "gone" =>
        \/ HasTold(d, "SERVERSTOPPED")
        \/ ended[d] = "error" /\ told[d] = <<>>

IsServed == \E d \in Daemons : Serving(d)

\* Once everything has come to rest, the label says whether a server runs:
\* whatever starts, stops and signals raced, the last question asked came
\* after the last change.
LabelIsTrue == AtRest /\ Announced => (label = "Running" <=> IsServed)

\* Even when answers come too late, the app at rest shows no server that has
\* gone.
RunningIsTrue == AtRest /\ Announced /\ label = "Running" => IsServed

\* A process that ended normally had been serving: none gave up in its set-up.
AllCameUp ==
    \A d \in Daemons : ended[d] = "normal" => HasTold(d, "SERVERSTARTED")

\* The app and its daemons come to rest again and again: no notice, complaint
\* or question begets another one for ever, and nobody waits for everybody.
ComesToRest == []<>AtRest

\* The dialog asks "Restart server?" (MainActivity.java 392): when everything
\* has come to rest after a Yes there is a server.  Refuted: the new process
\* and the end of the old one both come two seconds later, and the new one
\* gives up when it is the first.
RestartServes == AtRest /\ AllCameUp /\ last = "restart" => IsServed

\* "Could not stop server :(" (MainActivity.java 448) is posted only when
\* the server that was to stop is still there.  Refuted by every restart that
\* works.
StopComplaintIsTrue ==
    \A i \in DOMAIN posts :
        posts[i].about = "stop" => \E d \in posts[i].served : Alive(d)
=============================================================================
