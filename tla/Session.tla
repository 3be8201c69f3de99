------------------------------- MODULE Session -------------------------------
(***************************************************************************)
(* The viewers of one daemon: how rfbProcessEvents accepts them, reads     *)
(* what they send, takes them through the handshake, and drops them, and   *)
(* what the daemon tells the app about it.                                 *)
(*                                                                         *)
(* All of it happens in the main thread.  A turn is a loop of select and   *)
(* one message for each viewer that is readable, which goes on as long as  *)
(* anything arrives (handleEventsEagerly), then a visit to every client    *)
(* for updates and for removal, then update_screen.                        *)
(***************************************************************************)
EXTENDS Naturals, SequencesExt

CONSTANTS
    Viewers,       \* the programs that connect to the VNC port
    HasPassword,   \* whether the daemon was started with -p
    AlwaysShared,  \* vncscr->alwaysShared, TRUE in initVncServer
    MaxSessions    \* bound on the connections that are accepted

ASSUME SessionAssumption ==
    /\ HasPassword \in BOOLEAN
    /\ AlwaysShared \in BOOLEAN
    /\ MaxSessions \in Nat

VARIABLES
    at,        \* where the main thread is: "select", "serve", "update", or
               \* "over" when the process has ended
    open,      \* whether listenSock listens
    clients,   \* the list that begins at clientHead
    closed,    \* the clients whose sock is -1
    state,     \* cl->state of each viewer
    fds,       \* the viewers that select found readable and that wait
    visit,     \* the clients that rfbProcessEvents has still to visit
    calling,   \* the viewers in the queue of listenSock
    sent,      \* what of a viewer's message waits in its socket
    left,      \* the viewers that have closed their end
    wire,      \* the notices on their way to the app
    sessions   \* connections accepted so far

viewerSide  == <<calling, sent, left>>
sessionVars == <<at, open, clients, closed, state, fds, visit, calling, sent,
                 left, wire, sessions>>

-----------------------------------------------------------------------------
Handshake == {"PROTOCOL_VERSION", "SECURITY_TYPE", "AUTHENTICATION",
              "INITIALISATION"}
States    == Handshake \cup {"none", "NORMAL"}
Notice    == [type : {"CONNECTED", "DISCONNECTED"}, from : Viewers]

SessionTypeOK ==
    /\ at \in {"select", "serve", "update", "over"}
    /\ open \in BOOLEAN
    /\ clients \in Seq(Viewers) /\ IsInjective(clients)
    /\ closed \subseteq ToSet(clients)
    /\ state \in [Viewers -> States]
    /\ \A v \in Viewers : state[v] = "none" <=> v \notin ToSet(clients)
    /\ fds \subseteq Viewers
    /\ visit \in Seq(Viewers)
    /\ calling \subseteq Viewers
    /\ sent \in [Viewers -> {"nothing", "part", "whole"}]
    /\ left \subseteq Viewers
    /\ wire \in Seq(Notice)
    /\ sessions \in 0..MaxSessions

SessionInit ==
    /\ at = "select"
    /\ open = TRUE
    /\ clients = <<>>
    /\ closed = {}
    /\ state = [v \in Viewers |-> "none"]
    /\ fds = {}
    /\ visit = <<>>
    /\ calling = {}
    /\ sent = [v \in Viewers |-> "nothing"]
    /\ left = {}
    /\ wire = <<>>
    /\ sessions = 0

-----------------------------------------------------------------------------
(* The viewers, each of which may do anything at any time. *)

Listed == ToSet(clients)
Linked(v) == v \in Listed /\ v \notin closed

Call(v) ==
    /\ open
    /\ v \notin Listed \cup calling
    /\ sessions + Cardinality(calling) < MaxSessions
    /\ calling' = calling \cup {v}
    /\ UNCHANGED <<at, open, clients, closed, state, fds, visit, sent, left,
                   wire, sessions>>

\* A message arrives whole, or its beginning first.
Send(v) ==
    /\ Linked(v) /\ v \notin left
    /\ \/ sent[v] = "nothing" /\ sent' = [sent EXCEPT ![v] = "part"]
       \/ sent[v] # "whole" /\ sent' = [sent EXCEPT ![v] = "whole"]
    /\ UNCHANGED <<at, open, clients, closed, state, fds, visit, calling,
                   left, wire, sessions>>

\* It leaves between two messages or in the middle of one, which the daemon
\* does not tell apart.
Leave(v) ==
    /\ Linked(v) /\ v \notin left
    /\ left' = left \cup {v}
    /\ sent' = [sent EXCEPT ![v] = IF @ = "whole" THEN @ ELSE "nothing"]
    /\ UNCHANGED <<at, open, clients, closed, state, fds, visit, calling,
                   wire, sessions>>

-----------------------------------------------------------------------------
(* rfbCheckFds. *)

Readable == {v \in Listed \ closed : v \in left \/ sent[v] # "nothing"}

\* The loop over the clients is at v: those before it are not readable.
IsServed(v) ==
    /\ at = "serve"
    /\ \E i \in DOMAIN clients :
          /\ clients[i] = v /\ v \in fds \ closed
          /\ \A j \in 1..i - 1 : clients[j] \notin fds \ closed

\* The caller has hung up, or its socket is closed for a setsockopt that
\* fails: rfbCheckFds returns, whoever else is readable.
AcceptFails(v) ==
    /\ at = "select"
    /\ v \in calling
    /\ calling' = calling \ {v}
    /\ sessions' = sessions + 1
    /\ at' = "update" /\ visit' = clients
    /\ UNCHANGED <<open, clients, closed, state, fds, sent, left, wire>>

\* The process has no descriptor left for the caller, who stays in the queue:
\* every turn ends here before anybody is served, until one is free.
OutOfDescriptors ==
    /\ at = "select"
    /\ calling # {}
    /\ at' = "update"
    /\ visit' = clients
    /\ UNCHANGED <<open, clients, closed, state, fds, viewerSide, wire,
                   sessions>>

\* A connection comes alone: rfbCheckFds returns.  Otherwise the clients
\* that are readable have their turn first.
\* rfbNewClient sends its version before newClientHook: a viewer to which
\* that fails is removed again and the app hears nothing of it.
AcceptClient(v) ==
    /\ at = "select"
    /\ v \in calling
    /\ calling' = calling \ {v}
    /\ sessions' = sessions + 1
    /\ \/ UNCHANGED <<clients, state, wire>>
       \/ /\ clients' = <<v>> \o clients
          /\ state' = [state EXCEPT ![v] = "PROTOCOL_VERSION"]
          /\ wire' = Append(wire, [type |-> "CONNECTED", from |-> v])
    /\ IF Readable = {}
       THEN at' = "update" /\ visit' = clients' /\ UNCHANGED fds
       ELSE at' = "serve" /\ fds' = Readable /\ UNCHANGED visit
    /\ UNCHANGED <<open, closed, sent, left>>

SelectReturns ==
    /\ at = "select"
    /\ calling = {} /\ Readable # {}
    /\ at' = "serve"
    /\ fds' = Readable
    /\ UNCHANGED <<open, clients, closed, state, visit, viewerSide, wire,
                   sessions>>

\* Nothing came for as long as usec: rfbCheckFds returns.
SelectTimesOut ==
    /\ at = "select"
    /\ calling = {} /\ Readable = {}
    /\ at' = "update"
    /\ visit' = clients
    /\ UNCHANGED <<open, clients, closed, state, fds, viewerSide, wire,
                   sessions>>

\* Mutant: after one message the loop begins with select again.
ServedAlone(v, S) ==
    /\ fds' = {}
    /\ closed' = S
    /\ at' = "select"
    /\ UNCHANGED <<clients, visit, calling, left, wire, sessions>>

\* v has been served; S are the clients whose sock is -1 by now.
Served(v, S) ==
    /\ fds' = fds \ {v}
    /\ closed' = S
    /\ at' = IF fds \ ({v} \cup S) = {} THEN "select" ELSE "serve"
    /\ UNCHANGED <<clients, visit, calling, left, wire, sessions>>

\* rfbReadExact finds the end of the stream, or has waited rfbMaxClientWait,
\* 20 seconds, for the rest of a message: everybody waits with it.
ReadFails(v) ==
    /\ IsServed(v)
    /\ \/ v \in left /\ sent[v] # "whole"
       \/ sent[v] = "part"
    /\ Served(v, closed \cup {v})
    /\ UNCHANGED <<open, state, sent>>

\* rfbCloseClient after a message that is wrong: another protocol, a security
\* type that was not offered, a false password, an unknown type.  Also when
\* the answer cannot be written.
Refuse(v) ==
    /\ IsServed(v)
    /\ sent[v] = "whole"
    /\ sent' = [sent EXCEPT ![v] = "nothing"]
    /\ Served(v, closed \cup {v})
    /\ UNCHANGED <<open, state>>

\* The states in which a message that is right leaves a client.  RFB 3.3 is
\* told the security type, later versions choose from a list; version 3.889
\* sends no ClientInit (RFB_INITIALISATION_SHARED).
After(s) ==
    LET authenticate == IF HasPassword THEN "AUTHENTICATION"
                        ELSE "INITIALISATION"
    IN CASE s = "PROTOCOL_VERSION" -> {authenticate, "SECURITY_TYPE"}
         [] s = "SECURITY_TYPE"    -> {authenticate} \cup
                                      (IF HasPassword THEN {} ELSE {"NORMAL"})
         [] s = "AUTHENTICATION"   -> {"INITIALISATION"}
         [] OTHER                  -> {"NORMAL"}

\* A viewer that does not want to share may end the others' connections.
\* Mutant: it may although the daemon shares always.
DisconnectedFreely(v) ==
    {{}, {c \in Listed \ {v} : state[c] = "NORMAL"}}

DisconnectedBy(v) ==
    IF AlwaysShared THEN {{}}
    ELSE {{}, {c \in Listed \ {v} : state[c] = "NORMAL"}}

ProcessClientMessage(v) ==
    /\ IsServed(v)
    /\ sent[v] = "whole"
    /\ sent' = [sent EXCEPT ![v] = "nothing"]
    /\ \E s \in After(state[v]) :
          /\ state' = [state EXCEPT ![v] = s]
          /\ \E others \in IF s = "NORMAL" /\ state[v] # "NORMAL"
                           THEN DisconnectedBy(v) ELSE {{}} :
                Served(v, closed \cup others)
    /\ UNCHANGED open

\* F11: rfbShutdownServer closes every client and listenSock; who waits in
\* its queue is turned away.
Shutdown(v) ==
    /\ IsServed(v)
    /\ sent[v] = "whole" /\ state[v] = "NORMAL"
    /\ sent' = [sent EXCEPT ![v] = "nothing"]
    /\ open' = FALSE
    /\ calling' = {}
    /\ closed' = Listed
    /\ fds' = {}
    /\ at' = "select"
    /\ UNCHANGED <<clients, state, visit, left, wire, sessions>>

Serve(v) == ReadFails(v) \/ Refuse(v) \/ ProcessClientMessage(v) \/ Shutdown(v)

-----------------------------------------------------------------------------
(* The rest of rfbProcessEvents. *)

Unlink(v) ==
    \E i \in DOMAIN clients :
       clients[i] = v /\ clients' = RemoveAt(clients, i)

\* Mutant: a client that is not the first is not taken off the list.
UnlinkFirst(v) ==
    /\ clients' = IF Head(clients) = v THEN Tail(clients) ELSE clients
    /\ closed' = closed \ {v}
    /\ left' = left \ {v}
    /\ state' = [state EXCEPT ![v] = "none"]
    /\ sent' = [sent EXCEPT ![v] = "nothing"]
    /\ wire' = Append(wire, [type |-> "DISCONNECTED", from |-> v])

\* Mutant: only a client that got through its handshake is told of.
GoneQuietly(v) ==
    /\ Unlink(v)
    /\ closed' = closed \ {v}
    /\ left' = left \ {v}
    /\ state' = [state EXCEPT ![v] = "none"]
    /\ sent' = [sent EXCEPT ![v] = "nothing"]
    /\ wire' = IF state[v] # "NORMAL" THEN wire
               ELSE Append(wire, [type |-> "DISCONNECTED", from |-> v])

\* rfbClientConnectionGone, which calls clientGone.
ConnectionGone(v) ==
    /\ Unlink(v)
    /\ closed' = closed \ {v}
    /\ left' = left \ {v}
    /\ state' = [state EXCEPT ![v] = "none"]
    /\ sent' = [sent EXCEPT ![v] = "nothing"]
    /\ wire' = Append(wire, [type |-> "DISCONNECTED", from |-> v])

\* Mutant: the iterator passes over the clients that were closed.
VisitOpen ==
    /\ at = "update"
    /\ visit # <<>>
    /\ visit' = Tail(visit)
    /\ LET v == Head(visit)
       IN \/ UNCHANGED <<clients, closed, state, sent, left, wire>>
          \/ /\ v \notin closed /\ state[v] = "NORMAL"
             /\ ConnectionGone(v)
    /\ UNCHANGED <<at, open, fds, calling, sessions>>

\* rfbUpdateClient may find that it cannot write to the viewer any more.
VisitClient ==
    /\ at = "update"
    /\ visit # <<>>
    /\ visit' = Tail(visit)
    /\ LET v == Head(visit)
       IN \/ /\ v \notin closed
             /\ UNCHANGED <<clients, closed, state, sent, left, wire>>
          \/ /\ v \in closed \/ state[v] = "NORMAL"
             /\ ConnectionGone(v)
    /\ UNCHANGED <<at, open, fds, calling, sessions>>

\* update_screen, and the next turn.
EndTurn ==
    /\ at = "update"
    /\ visit = <<>>
    /\ at' = "select"
    /\ UNCHANGED <<open, clients, closed, state, fds, visit, viewerSide, wire,
                   sessions>>

\* F12, ~KILL| or a signal: the sockets are closed with the process, and no
\* client is taken off the list before.
EndProcess ==
    /\ at # "over"
    /\ at' = "over"
    /\ open' = FALSE
    /\ clients' = <<>> /\ visit' = <<>>
    /\ closed' = {} /\ fds' = {} /\ calling' = {} /\ left' = {}
    /\ state' = [v \in Viewers |-> "none"]
    /\ sent' = [v \in Viewers |-> "nothing"]
    /\ UNCHANGED <<wire, sessions>>

-----------------------------------------------------------------------------
Viewer(v) == Call(v) \/ Send(v) \/ Leave(v)

MainLoop ==
    \/ \E v \in Viewers : AcceptFails(v) \/ AcceptClient(v) \/ Serve(v)
    \/ OutOfDescriptors \/ SelectReturns \/ SelectTimesOut
    \/ VisitClient \/ EndTurn

SessionNext == (\E v \in Viewers : Viewer(v)) \/ MainLoop \/ EndProcess

\* The main thread runs.  With handleEventsEagerly it gets to its updates
\* only if all viewers are quiet for as long as select waits, now and then.
\* That accept does not fail for want of descriptors for ever is assumed of
\* the system as well: nothing in the code sees to it.
SessionFairness ==
    /\ WF_sessionVars(MainLoop)
    /\ SF_sessionVars(SelectTimesOut)
    /\ SF_sessionVars(\E v \in Viewers : AcceptFails(v) \/ AcceptClient(v))

-----------------------------------------------------------------------------
(* Properties. *)

\* A connection ends by what its own viewer does, or by F11, never by the
\* arrival of another viewer, at whatever point of its own handshake or of
\* the turn that comes.
NobodyIsTurnedOut ==
    [][\A v \in closed' \ closed : IsServed(v) \/ ~open']_sessionVars

\* A message that has arrived is read, or its viewer's connection ends,
\* however many viewers keep the loop of rfbCheckFds busy, stop in the middle
\* of a message, or call meanwhile.  It needs the assumption on descriptors:
\* while a caller cannot be accepted nobody else is read.
EveryoneIsHeard ==
    \A v \in Viewers : (Linked(v) /\ sent[v] = "whole")
        ~> (sent[v] = "nothing" \/ v \in closed \/ at = "over")

\* A client that was closed in whatever way is taken off the list, so that
\* its viewer may come back and the app hears of it.
ClosedIsRemoved ==
    \A v \in Viewers : v \in closed ~> (v \notin Listed \/ at = "over")
=============================================================================
