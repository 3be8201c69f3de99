# droid VNC server: a TLA+ verification project

droid VNC server shows the screen of an Android device to VNC viewers and lets
them type and point. It is made of an Android app (Java), which starts, stops
and watches the server, and of a native process, the *daemon* (C), which is the
server and links LibVNCServer for the protocol. This directory models how they
talk to each other, how the daemon lives and dies, how it serves its viewers, and
how pixels get from the device to them; TLC checks the models on small instances,
and TLAPS proves the safety properties for every instance.

## The system

| part | code | state | operations |
|---|---|---|---|
| daemon process | `jni/vnc/droidvncserver.c`, `gui.c`, `screenMethods/` | what is open (grabber, uinput, VNC port, command port), the clients, where the main thread and the IPC thread are | set-up, main loop, answer `~PING|`, obey `~KILL|`, signals, `close_app`, exit |
| pace of the loop | `main`, `setIdle` in `droidvncserver.c`, `rfbProcessEvents` | `standby`, `idle` | wait, slow down, wake up |
| app | `MainActivity.java`, `ServerManager.java`, `StartServiceAtBootReceiver.java` | the label, what the UI thread sleeps in, timers, posted runnables, broadcasts, what the listener has read | start, stop, restart, reverse connection, start at boot, notices, "Could not start/stop server" |
| sessions | `sockets.c`, `main.c`, `rfbserver.c`, `auth.c` of `LibVNCServer-0.9.9/libvncserver` | the list of clients, their `sock` and `state`, the `fd_set`, the port's queue | accept, handshake, read, time out, refuse, F11, remove |
| client notices | `ServerManager.java`, `gui.c`, hooks in `droidvncserver.c` | notification, wake lock, two preferences | connected, disconnected, preference changed |
| screen copying | `jni/vnc/updateScreen.c`, `rotate` in `droidvncserver.c` | `cmpbuf`/`vncbuf`, `rotation`, the size of `vncscr` | copy what changed, mark a rectangle, rotate |
| delivery | `main.c`, `rfbserver.c` of the library | `modifiedRegion`, `requestedRegion`, `newFBSizePending`, `startDeferring` of each client | connect, request, defer, send, leave |
| regions | `rfbregion.c` | lists of spans, edited in place | union, intersection, difference, bounding box, iterate |
| cutting of rectangles | `corre.c`, `ultra.c`, `zlib.c`, `tight.c`, `rfbSendFramebufferUpdate` | none | count, cut, look for areas of one colour |
| input | `inputMethods/input.c`, `suinput/suinput.c`, `pointerClient` in `rfbserver.c` | button flags, the keys and the position of the uinput device, who has the pointer | pointer events, keys, connect, leave, rotate, clean-up |
| the rest | preferences, ads, clipboard, file transfer, HTTP, WebSockets, the bytes of the encodings, vendored libraries | | |

**How they interact.** The app executes the daemon (possibly through `su`) and
from then on only exchanges UDP datagrams with it: `~PING|` and `~KILL|` to port
13132, which the daemon's IPC thread reads; `~SERVERSTARTED|`,
`~SERVERSTOPPED|`, `~CONNECTED|`, `~DISCONNECTED|`, `~CLIP|` and `~SHOW|` to port
13131, which the app's listener thread reads. The listener hands notices to the
UI thread as broadcasts. Inside the daemon the main thread and the IPC thread
share everything without a lock. Within a turn of the main loop
`rfbProcessEvents` calls back into the daemon (`clientHook`, `clientGone`,
`keyEvent`, `ptrEvent`), and `update_screen` calls into the library to mark what
changed.

**What is hard.**

- `close_app` is run by whoever is told to stop, the IPC thread or a signal
  handler on the main thread, while the main thread goes on, and sleeps two
  seconds in the middle (`suinput_close`). Two threads can be in it at once.
- nothing prevents several daemons. Only the `bind` of the command port, the
  last step of the set-up, keeps them apart.
- the app never knows what the daemon does, it asks with a 100 ms timeout, and
  sleeps on its UI thread. Its label is the answer to some earlier question.
- one thread serves all viewers, with reads that wait up to 20 seconds for the
  rest of a message, in a loop that goes on as long as anything arrives; a
  connection may end at any point of it, by its viewer or by another's handshake.
- the app is told of a viewer before its handshake, and there is one notification
  and one lock for all of them.
- a viewer is sent only what is marked and requested. A pixel that changed
  outside the marked rectangle stays wrong until it changes again.
- regions are edited in place while two lists are walked, and the header of an
  update announces a number of rectangles before any of them is cut.
- the flags that say which buttons are down are static variables of `ptrEvent`,
  shared by all viewers. One may leave with a button down, F4 may turn the screen
  in the middle of a drag.
- `standby` grows without a bound while nothing happens.

What makes each part correct: one server at a time, an orderly and announced
stop, a `~KILL|` that is obeyed (daemon); a label that tells the truth when all
is quiet, and a restart that leaves a server (app); every message heard, nobody
turned out by another, the closed removed (sessions); no lock and no notification
after the last viewer (notices); no change forgotten, none sent that is not
there, every change arriving (screen); an update that holds the pixels it owes and
as many rectangles as it says (updates); keys of the device that agree with the
flags, the flags with the viewer that has the pointer, and touches that land where
the viewer points (pointer); a wait that stays short (pace).

## Modules

| module | what it is |
|---|---|
| `Daemon` | the daemon processes: both threads, command port, VNC port, devices, clients, notices |
| `ServerLifecycle` | the abstract specification `Daemon` implements: off, starting, serving, stopping, gone; one serves at a time |
| `App` | extends `Daemon` by the app: UI thread, listener, timers, and a clock in seconds |
| `Session` | the viewers of one daemon: accept, handshake, messages, removal, in the loop of `rfbProcessEvents` |
| `Notices` | extends `Session` by the app's notification and wake lock |
| `Idle` | how long the main loop waits |
| `Screen` | main loop, `update_screen` with its rotations, regions and delivery |
| `Region` | the region library, as operators on lists of spans |
| `Encodings` | extends `Region`: into which rectangles an encoding cuts one, and how many it announces |
| `Updates` | extends `Encodings`: the regions and the updates of one viewer |
| `Delivery` | the abstract specification `Updates` implements: what an update owes, in pixels |
| `Pointer` | who has the pointer, `ptrEvent`, the uinput device |
| `Turning` | where `update_screen` puts a device pixel; `Screen` and `Pointer` extend it |
| `MCDaemon`, `MCApp`, `MCNotices`, `MCScreen`, `MCUpdates`, `MCPointer` | instances for TLC |
| `DaemonProofs`, `AppProofs`, `NoticesProofs`, `IdleProofs`, `ScreenProofs`, `PointerProofs`, `RegionProofs`, `UpdatesProofs` | theorems |

### Daemon

`pc[d]["main"]` and `pc[d]["ipc"]` say where the two threads of process `d` are.
The set-up is one action per call of `main()` (`InitGrabberMethod`, `InitInput`,
`InitVncServer`, `BindIPCserver` or `BindFails`, `StartThread`,
`SendServerStarted`, `ReverseConnect`); the loop alternates "poll" (`rfbProcessEvents`: `Accept`,
`ClientGone`, `Disconnect` for F11, `Quit` for F12) and "frame" (`UpdateScreen`,
or `ReadAfterClose` when the other thread has closed the grabber); `close_app`
is five actions, with the thread that runs it as a parameter. `Die` is what the
kernel does at `exit`. `Trouble` is what comes from outside: a `Signal`; a
refusal of the frame buffer's driver (`IoctlFails`), on which `update_fb_info`
exits, in a probe or in a turn that reads the screen; and no socket for the command
port (`SocketFails`), after which `main` goes on and announces a server without
port and IPC thread. A process is `Serving` when it is in its loop and has that
thread. `ReadAfterClose` and a second `CloseGrabber` are
nondeterministic where the code calls into a library that `dlclose` has released.

Abstractions: pixel depth and the probing of grabbers are choices;
`pthread_create` does not fail; a `~PONG|` is
seen by the sender at once (App adds the timeout); `~SHOW|` texts are left out.
A signal is delivered to the main thread between two of its steps, and a second
one is not modelled while the first is in its handler. `close` on the command
socket is taken to free the port at once, though the kernel may keep it until
the IPC thread leaves `recvfrom`; the exit follows.

### App

Each handler of the UI thread is an action; one that sleeps is two, before and
after (`RestartServer`/`RestartWakes`, `OnReceive`/`OnReceiveWakes`,
`StartReverseConnection`/`ReverseWakes`), and `ui` is not "idle" in between, so
that nothing else runs on that thread. `isServerRunning` is the set of answers
the question may get: true when an IPC thread comes to read it; false too, with
`Sluggish`, when the answer takes more than 100 ms. `Tick` lets a second pass
when nothing can happen but waiting: everything but sleeps and timers takes less
than a second, which is what the sleeps in the code rely on. What comes due in
the same second happens in any order. `Naps` gives `suinput_close` its two
seconds. `Receivers` counts the receivers `onResume` has registered; none is
ever unregistered. `Mishaps` says whether the daemons meet `Trouble`.

Left out: the texts, the clipboard, a dialog that is left open, a missing daemon
file, root. The notification and the wake lock are in `Notices`.

### Session and Notices

`at` is where the main thread is in a turn: in `select`, serving who was readable
(`fds`, in the order of the list of clients), visiting every client for updates
and removal, or over. A message is `nothing`, `part` or `whole` in its viewer's
socket: a part is what `rfbReadExactTimeout` waits 20 seconds for and gives up
(`ReadFails`), a whole one is right (`ProcessClientMessage`) or wrong (`Refuse`).
`After` says in which `state` a right one leaves the client, for RFB 3.3, the
later versions and 3.889; whether a client that must not share ends the others'
connections is `DisconnectedBy`. `closed` are the clients whose `sock` is -1: they
stay on the list until `VisitClient` comes to them, which is when `clientGone`
tells the app. `AcceptClient` returns from `rfbCheckFds` when nobody else is
readable and serves the others otherwise, as the code does with `nfds`. `accept`
may fail because the caller has gone (`AcceptFails`), which takes it off the queue,
or because the process has no descriptor left (`OutOfDescriptors`), which does not:
`rfbCheckFds` then returns before it serves anybody, in every turn. A viewer
may come, send, stop in the middle and leave at any step; `EndProcess` is F12,
`~KILL|` or a signal.

`Notices` reads `wire`, the datagrams the hooks send. `ShowClientConnected`
creates a lock and overwrites the reference to the last one, which stays held
(`orphans`) until the system finalizes it. `LogOnly` is the branch without
`notifyclient`.

Left out: what the messages hold, UDP, inetd, the extensions, the threads of
`rfbRunEventLoop` (not used), loss of datagrams between the two processes on one
device, a second daemon (see `Daemon`).

### Idle

A step is a part of a turn, up to the next event: `Message` (each of which makes
`rfbCheckFds` begin to wait anew), `Change` of the screen, or the end of
`rfbProcessEvents` with `main`'s `standby` and `update_screen`'s `setIdle` after
it. Times are in milliseconds, as in the code. `calm` and `arrivals` are what the
property is about and no variables of the code. `select` takes the time it is
given, of more than a second too: the kernel does, while the `select` of newer
versions of bionic returns EINVAL for it, and with such a library `rfbCheckFds` reads
nobody until the screen changes. That is not modelled.

### Screen

A region is a set of pixels. `changed` are the device pixels that differ from
`vncbuf`, `stale[c]` those of `vncbuf` that viewer `c` shows otherwise: both are
what a property is about, and neither is a variable of the code, where they are
differences between buffers. `Cell` and `Tracked` transcribe what the four
branches of `update_screen` write and what they remember of it; `Marked` is the
rectangle made of the latter, clipped as `rfbMarkRectAsModified` does. `Due` and
the actions on `Visit` are `rfbUpdateClient` and `rfbSendFramebufferUpdate`:
nothing due, deferring, a new size, or an update. Requests cover the first rows
of the screen, all of it, or more than it has, and `Clipped` is
`rectSwapIfLEAndClip`. After `Rotate` what `vncbuf` holds is read with another
width, so that any pixel may differ.

Left out: colours, the cursor, copyRegion (never used here), scaling, progressive
slices, viewers that do not understand NewFBSize. The deferral of 5 ms is over in
the turn after the one that began it.

### Region, Encodings, Updates, Delivery

`Region` keeps the code's algorithm and not only its meaning. A `Walk` is the list
of the destination and that of the source side by side, where `done` is what lies
before `d_curr`; `OrStep`, `AndStep` and `SubtractStep` are one turn of the loops
of `sraSpanListOr`, `sraSpanListAnd` and `sraSpanListSubtract`, and `OrLists`,
`AndLists` and `SubtractLists` the loops. `MergePrevious` and `MergeNext` are
`sraSpanMergePrevious` and `sraSpanMergeNext`. Both levels of lists run the same
code, as in the library: what the spans of the outer level hold is put together
by the operation on the inner one (`inner`), and that of horizontal spans is
`Nothing`. Loops and recursion are recursive functions, which can be proved about,
not recursive operators. `Pixels` is what a region stands for.

In `Encodings`, `Pieces` are the rectangles an encoder sends for one, and
`NumCodedRects` with `Counted` the number that `rfbSendFramebufferUpdate` announces
for it. "Raw" stands for the encodings that cut nothing (Raw, RRE, Hextile, ZRLE,
ZYWRLE), "Lines" for Ultra and Zlib. Tight's search for areas of one colour
(`SolidAreas`, `BestSolidArea`, `Extended`) works on a picture, the set of pixels
that have one of two colours; a `Task` says where it stands, and `SearchFrom` is
what it does next: it ends, sends what the buffer holds, goes on to the next row
of tiles, or cuts the rectangle around an area that it found. The code sends the
upper part once in each row of tiles, `SearchFrom` as often as the buffer is full;
that is the same because `MaxRectSize` holds a row of tiles of the largest width
(`EncodingsAssumption`), as it does in every row of `tightConf`.

`Updates` puts them together for one viewer: `Mark`, `FramebufferUpdateRequest`,
`SetEncodings` and `SendFramebufferUpdate`, each a whole handler under
`updateMutex`. `update` is what the step sends. `Delivery` knows sets of pixels
only, and `Promised` maps the spans and the pieces of `Updates` to them.
Rectangles that are marked or asked for lie on the screen and have an extent
(`UpdatesAssumption`). `rfbMarkRectAsModified` and `rectSwapIfLEAndClip` see to
the first; the second is an assumption about the viewer, since a request of no
height or width passes `rectSwapIfLEAndClip` (`rfbserver.c` 832-857), as below.
The header has sixteen bits of which 0xFFFF means that the number is open:
`InHeader` cuts the number as the code does, and `ViewerInStep` claims nothing of
an update that has 0xFFFF rectangles or more.

Left out: copies (nothing schedules one), scaling, progressive slices
(`progressiveSliceHeight` is 0), the position of the cursor, what the rectangles
hold, and when an update is due, which is in `Screen`.

### Pointer

`PointerEvent` is the handler of `rfbPointerEvent` with the call of `ptrEvent` it
makes (`PtrEvent`); an event of a viewer that does not have the pointer is
dropped and is no action. The mask of an event is one of `Masks`: the buttons that
the device has, and "wheel" for the other bits, which keep the pointer with the
viewer and do nothing else. `clicked` stands for the three static flags, of which
an event leaves exactly those of its buttons set; `down` and `at` are the keys
and the position the kernel keeps for the device, which change with what
`ptrEvent` writes: `Pressed`, `Released` and, when a touch begins or ends or the
move is one of those reported, the transformed place. `Scaled` divides as C does,
towards zero, because a viewer that has not heard of a rotation points outside
the screen. `TypeKey` is `keyEvent` with a key that a button stands for too (Esc
is BACK); other keys do not touch this state. `CleanupInput` is a step of
`close_app`, which may run in another thread: events go on afterwards and only
the flags change.

Left out: view-only viewers and scaling (not used), deferred pointer events
(`deferPtrUpdateTime` is 0), `-z`, which turns the picture and not the touches,
`idle`, and the process that ends soon after `CleanupInput`. The counter of moves
counts modulo `MovesPerReport`, 10 in the code and 2 in the run.

## Runs

| run | question | bounds |
|---|---|---|
| `daemon_safety` | one server at a time, orderly and announced stop, a read command port; refinement of `ServerLifecycle` | 2 processes, 1 client, 1 datagram in the queue, a grabber from a library, symmetric |
| `daemon_live` | a `~KILL|` and a `close_app` end the process | 1 process, either grabber, 3 datagrams (a `~KILL|` behind two others) |
| `app_label` | at rest the label is true | 2 daemons, 2 requests, signals, no viewers |
| `app_live` | everything comes to rest; at rest no server is shown that has gone | 2 daemons, 2 requests, late answers |
| `notices` | every message is heard, nobody is turned out, the closed are removed; notification and lock end with the last viewer | 2 viewers, 2 connections in all, no password (as by default), the preference for the lock changes |
| `idle` | the wait grows with the root of the stillness | 5 and 50 ms as in the code, 0.6 s of stillness, 2 connections in it |
| `screen_steady` | nothing forgotten, nothing from outside sent, every pixel arrives | 2 viewers, panel of 2x1, rotations 0 and 90 |
| `screen_turned` | F4: sizes agree, the screen is copied, the size is told | 1 viewer, 2x1, all rotations |
| `updates` | an update holds what it owes, each pixel once, in pieces its encoding can hold, as many as its header says; refinement of `Delivery` | screen of 3x4; 4 rectangles marked, 3 asked for, 5 pictures, 5 modes; limits of a few pixels |
| `pointer` | flags, keys, holder and places agree; a touch ends | 2 viewers, 2x1, all rotations, 1 move of 2 reported |

Why these are enough: exclusion and the races of `close_app` need two processes
and the two threads every process has; a queue of three holds a `~KILL|` in
front, in the middle and at the end; two requests are a start and a restart, or
any other pair, and a daemon may be launched once for each. Which `Grabbers` there
are makes a difference only to how a single process with a client ends: both are in
`daemon_live`, and where two processes meet there is the one from a library, which
may crash and may survive where the frame buffer exits. Two viewers are what
one can do to another, at every point of a handshake and of a turn; with two
connections in all, either both come once or one comes twice. A password adds
one state to the handshake, which the proofs about `Notices` include. `idle` needs no
smaller numbers than the code's: 0.6 s are some ten idle turns at the resting pace,
enough for `standby` to grow and for a viewer to reset it. For the rectangle, one
and two pixels in a row already tell the off-by-ones apart. In `updates` the
limits are chosen so that each is below, at and above the sizes that occur: a
rectangle is cut by width and by rows, is large enough for Tight's search or not,
has an area of one colour at an edge or inside, and regions have one to several
spans with equal and different lists. The pictures are some of the many a screen
may show, and the requests three of all rectangles.

What a third request of the user adds, or a larger panel under fairness, is not
checked by a run; of the safety properties, most are proved for all sizes
(below). The viewers are missing from the two runs of the app, where a client adds
F12 and the crash of a closing process, neither of which announces itself;
`LabelTellsTruth` is proved with them.

`CHECK_DEADLOCK FALSE`: each process of `Daemon` is launched once, a `Session`
ends with its process and takes a bounded number of connections, `Idle` a bounded
time, so that all may be over; in `Updates` a step without effect is no other
state. The models then stop, as the code does or as their bound says.

### What the code does against its own words

Runs that must find a violation, each of a statement quoted from the repository:

| run | refuted | what happens |
|---|---|---|
| `app_restart` | `RestartServes` | a restart after which no server runs: both sides sleep two seconds |
| `screen_f4` | `NothingForgotten` | at 180 degrees the marked rectangle misses what changed |

In `app_restart` both processes are required to have come through their set-up
(`AllCameUp`), so that the race is the only reason.

More statements do not hold, without a run of their own. Each can be seen with one
of the configurations and that property alone in it:

| property | configuration | what happens |
|---|---|---|
| `CloseEndsNormally` of `Daemon` | `MCDaemonLive.cfg` | `~KILL|` with a client connected: main reads the closed framebuffer and exits with an error before `~SERVERSTOPPED|` (`droidvncserver.c` 265, `framebuffer.c` 42) |
| `StopComplaintIsTrue` of `App` | `MCApp.cfg` | "Could not stop server :(" (`MainActivity.java` 448) after a restart that worked |
| `ScreenStaysOn` of `Notices` | `MCNotices.cfg` | "Don't Let Screen Turn off" (`preferences.xml` 64): the first of two viewers that leaves releases the lock |
| `ScreenIsFollowed` of `Screen` | `MCScreenTurned.cfg` with `Zte = TRUE` | `-z` with rotation 180 or 270 copies nothing: `rotation` plus 180 is compared with 0 to 270 (`updateScreen.c` 33) |
| `SendsWhatThereIs` of `Screen` | `MCScreen.cfg` with `Rotatable = TRUE` | `rotate` leaves the regions of the clients as they are, and rectangles of the old size are sent after the new one |
| `EveryoneIsHeard` of `Session` | `MCNotices.cfg`, with the last conjunct of `SessionFairness` left out | readable viewers are not read as long as a caller waits for whom there is no descriptor (`sockets.c` 304-307, 410-414) |
| `ViewerInStep` of `Updates` | `MCUpdates.cfg`, with `Rect(0, 2, 3, 0)` in `MCAsked` | a request of no height stays in the region as a rectangle, of which Ultra and Zlib announce one piece and send none |

### Fairness

- `Daemon`: weak fairness of each thread's own steps. Threads are scheduled by
  the kernel; nothing makes a client, a signal or the app act.
- `App`: the same for the UI thread, the listener, timers and daemons, and
  strong fairness of `Tick`. The main loop of a daemon never stops, so that a
  tick is enabled again and again but not continuously. It takes milliseconds
  per turn in the code, and time passes.
- `Session`: weak fairness of the main loop, and strong fairness of
  `SelectTimesOut`: now and then all viewers are quiet at once for the some ten
  milliseconds that `select` waits. The code does not ensure that
  (`handleEventsEagerly`); without it a viewer that never stops sending would keep
  the loop for ever. Strong fairness of accepting a caller or losing it: `accept`
  does not fail for want of descriptors for ever, which the code does not ensure
  either. `Notices`: weak fairness of the listener thread and of the
  system's finalizer.
- `Screen`: weak fairness of the main loop, which assumes that
  `rfbProcessEvents` returns, as above, and that a viewer asks for the screen
  again and again, as RFB clients do: strong fairness, since it can be heard only
  in a part of each turn.
- `Pointer`: strong fairness of each viewer's letting go (`LetsGo`): who points
  again and again also points without a button. Nothing else is assumed of
  viewers, which may leave at any moment.

## Proofs

`DaemonProofs`, for any set of processes and any bounds: `TypeCorrect`,
`OneServer`, `StopIsOrderly`, `EndIsTold`, `HolderReads`, and `Refinement` (the
daemon implements `ServerLifecycle`). None of the invariants is inductive alone.
`IInv` adds: at most one process holds the command port; and for each process
that its two threads agree (the IPC thread exists only after the bind and dies
with the process), that a process with an IPC thread holds the port unless a
thread is past `unbind`, and that a thread past a step of `close_app` leaves what the step
closed closed. That last part is why `OrderlyStop` survives two threads in
`close_app`: a device is never reopened. Each action is shown to keep `IInv` for
its own process, and a frame lemma does the others.

`AppProofs`: every step of the app is a step of `Daemon` or leaves it alone
(`AppUsesDaemon`), so that `OneServer` holds in the app (`AppHasOneServer`).
`AppTyped` is the types, with the fact that what is asked for is executed at most
once. Then the label: `RunningShowsServer` without and `LabelTellsTruth` with the
assumption that answers come in time. The first is a theorem although answers may
be late, because a late answer only ever says that there is no server. `AppInv`
joins four ideas:

- `RunningHolds`: while the label says "Running", some process is up, or a notice
  of one is unread, or a broadcast is on its way, or the UI thread sleeps before
  it asks; `StoppedHolds` is the same for the other label and a process that has
  begun to serve.
- `Spoken`: a process in its loop has said so, and one that has said that it stops
  is about to exit, without another sleep (`Napping`).
- `EndsFirst`: such a process has ended before the two seconds of `OnReceive` are
  over. This is what the sleep in the code is for, and where the clock comes in:
  it stands while anybody has something to do.
- `Course` says what a step of the daemons means for all this: a process that
  changes between up and stopped sends news, or is gone without a word, which
  `Announced` excludes.

`NoticesProofs`, for any viewers: `QuietInTheEnd`, as long as `notifyclient` is
not changed meanwhile (with it, a viewer may be announced and never be called
gone), and `NoneIsTurnedOut` for `alwaysShared`. The invariant of the first counts
no viewers and no locks: while the daemon has no client, the last notice on its
way is a `~DISCONNECTED|`, or none is and the app is quiet. `NoticesTyped` states
more than types, since it bounds what is held: it adds that a viewer waits
in the port's queue once and without a client of its own (`WaitsOnce`), that the
sessions there were and those waiting make no more than `MaxSessions` (`Room`), and
that every lock, lost or referred to, and every `~CONNECTED|` still unread
belongs to a session of its own (`LocksAreCounted`): so locks are not taken for
nothing, however late the app reads.

`IdleProofs`, for any deferral, resting pace and length of time: `IdleTyped` and
`WaitsAreModest`. The invariant is that the square of the wait, less what
connections added, exceeds that of the resting wait by no more than four times the
stillness: a turn adds two to the wait and the wait to the stillness.

`ScreenProofs`: `ScreenTyped` for every rotation, with F4 and `-z`. Then, for
`Steady` (no `-z`, no F4, rotation 0 or 90), `NothingIsForgotten` and
`SendsInside` on every panel and for any viewers. The core is `MarkedCovers`: the
rectangle covers what changed. It fails at 180 and 270, as `screen_f4` shows, so
that the condition cannot be dropped.

`PointerProofs`, for any viewers and any panel: `PointerTyped`,
`FlagsAndKeysAgree`, `FlagsAreOfTheHolder`, `HolderKeepsItsTouch` and
`TouchesHit`. `IInv` joins the types, `KeysAgree` and `HolderDecides` with one
fact more, that a closed device has no key down. The two action properties follow
from it: a touch can only end in an event that clears `left`, and such an event
is reported with its place. `TransformHits` shows for each rotation that
`transformTouchCoordinates` leads back to the pixel `update_screen` put there, to
its left or upper edge, or, where the code subtracts from the width or the
height, to its right or lower one.

`RegionProofs` says what the region library does in pixels, for any two regions in
order: `OrIsUnion`, `AndIsIntersection`, `SubtractIsDifference`, `CreateRectIs`.
The code is loops that edit lists, and the proofs follow it:

- A recursive function is its own definition only if a function satisfies that.
  `Recursion` and its special case `While` show that one does, if every value
  depends on values of smaller measure only. They are proved in the module, from
  `Least` (every set of natural numbers has a least one), as is `Induction`; the
  library's theorems about this take an operator, and are out of the provers' reach.
- The measure of a walk is `Size`: twice the spans of the destination and four
  times those of the source, and one if the first two overlap. `OrStepShrinks`,
  `AndStepShrinks` and `SubtractStepShrinks` show that every turn makes it
  smaller, which is that the loops end: splitting a span makes the list longer,
  but then the walk is past a span of the source or past the overlap.
- `OrFits` and `Fits` are the loop invariants for the order: what was walked lies
  before what was not. `OrHolds`, `AndHolds` and `SubtractHolds` are those for the
  meaning, and `OrStepMeans`, `AndStepMeans`, `SubtractStepMeans` that a turn keeps
  both.
- Both levels are treated in one proof. A point is in a list if a span is over it
  whose content is in a set `K`: for horizontal spans all, for vertical spans those
  lists that are over a column. What the inner operation has to do to `K` is
  `OrInner`, `AndInner`, `SubtractInner`, and the proof for the outer level takes
  that from the result for the inner one (`OrColumns`, `OrCovers`).

`UpdatesProofs`, for a screen of any size, any rectangles marked and asked for on
it, any pictures and any limits that fit each other as those of the encoders do:
`UpdatesTyped`, `StaysInStep`, `StayApart`, `StayFit`, and `Delivers` (`Updates`
implements `Delivery`). First the encodings: the pieces of a rectangle tile it,
are as small as they must be, and are as many as are announced, for CoRRE's
halves (`CoRRETiles`), the lines of Ultra and Zlib (`LinesTile`) and Tight's grid
(`SimpleTiles`). Tight's search is by induction on `Depth`, width plus height of
the rectangle first and the rows still to search second: an area that was found
is within the rectangle and of one colour (`SolidAreasAre`), it and what lies
above, to its left, to its right and below make up the rectangle (`CutAround`), and
the search goes on in smaller ones (`SearchCuts`, `TightTiles`). The measure
decreases because an area that was found is not empty (`HasExtent`) and `nMaxRows`
is not 0 (`MaxRowsIs`). Then the region: its
rectangles are apart and cover it (`RectsAre`), so that their pieces do
(`RegionCut`), and the sum of the numbers is the number of the pieces.

The properties of the update are not inductive, since nothing in them says what the
regions are of which the next one is made: `UpdatesInv` joins what `UpdatesTypeOK`
says of the regions (the lists are in order and on the screen) with `UpdateFits`,
what holds of an update when it is sent. `UpdateStep` shows for each action at once
that it keeps the invariant and is a step of `Delivery`, or none.

The assumptions are those named in the modules (`DaemonAssumption`,
`AppAssumption`, `SessionAssumption`, `NoticesAssumption`, `IdleAssumption`,
`ScreenAssumption`, `PointerAssumption`, `EncodingsAssumption`,
`UpdatesAssumption`): bounds are natural numbers, flags are Booleans,
a panel has at least a pixel, limits are those of tables that fit each other, and
rectangles on the screen are that.

Only model-checked: everything under fairness (`KillIsObeyed`, `CloseEnds`,
`ComesToRest`, `EveryoneIsHeard`, `ClosedIsRemoved`, `ScreenMayTurnOff`,
`PixelsArrive`, `ScreenIsFollowed`, `SizeArrives`, `PressEnds`), since ENABLED is
out of the prover's reach. Every invariant and every action property that a
passing run checks is stated by a theorem, and both refinements are.

## Not modelled

- *LibVNCServer beyond sessions, regions and updates*: file transfer, WebSockets
  and HTTP (which serves the files of the web client), the bytes of the encodings (compression is data), scaling
  (`-s`: every region is rounded outwards into a second screen), progressive
  slices, the event loop in threads.
- *The reverse connection's thread*: `rfbStartOnHoldClient` serves the client that
  the main loop's `rfbProcessEvents` serves too. Both read one socket and change
  its state and its `sock` without a lock; `sendMutex` (`rfb.h` 672) guards only what
  is written. That is undefined, and a model would only say that anything may come of it. The
  connection itself is in `Daemon`, the restart for it in `App`.
- *OpenSSL, libpng, libjpeg, zlib, the Java web client*: third-party code in the
  tree. They are four fifths of its lines, and LibVNCServer nearly all of the rest;
  the app and the daemon themselves have some five thousand of seven hundred
  thousand. The share of all lines that the models translate is small for that
  reason, however much of the program itself they cover.
- `adb.c`, compiled out; the preferences, ads and resources (no state the server
  depends on); the clipboard (a string passed on); how a grabber reads pixels
  (I/O); the table of key codes (data).

## Plan

Done: `Daemon`, `ServerLifecycle`, `App`, `Session`, `Notices`, `Idle`, `Screen`,
`Region`, `Encodings`, `Updates`, `Delivery`, `Pointer`; the proofs of every
safety property and both refinements.

What could come next, in this order:

1. Scaling, as a second level of regions between `Screen` and `Updates`.
2. The cursor: `rfbShowCursor` and `rfbHideCursor` around an update, for viewers
   that do not draw it themselves.
3. `Updates` with two viewers and `rotate` between them.
4. Proofs: what `ScreenIsFollowed` needs of every turn, as an action property;
   that `Screen`, which has regions as sets of pixels, does with them what `Updates`
   does with lists.
