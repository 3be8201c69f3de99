---------------------------- MODULE NoticesProofs ----------------------------
(***************************************************************************)
(* What holds of the sessions and the notices for any viewers, whether     *)
(* there is a password or not, and however many connections are accepted.  *)
(***************************************************************************)
EXTENDS Notices, SequenceTheorems, FiniteSetTheorems, TLAPS

-----------------------------------------------------------------------------
(* The notification and the wake lock. *)

Quiet == shown = Nobody /\ wakeLock # "held"

\* If the user does not care for notices none has an effect; otherwise, with
\* no client left, the last notice on its way is that one has gone.
IInv ==
    /\ clients \in Seq(Viewers)
    /\ wire \in Seq(Notice)
    /\ "notifyclient" \notin preferences => Quiet
    /\ at # "over" /\ clients = <<>> =>
          IF wire = <<>> THEN Quiet ELSE wire[Len(wire)].type = "DISCONNECTED"

\* At first nobody is there and nothing is shown.
LEMMA QuietAtFirst == NoticesInit => IInv
<1> QED BY DEF NoticesInit, SessionInit, IInv, Quiet

\* A client is taken off the list as the others stay on it.
LEMMA UnlinkKeeps ==
    ASSUME NEW v \in Viewers, clients \in Seq(Viewers), Unlink(v)
    PROVE  clients' \in Seq(Viewers)
<1>1. PICK i \in 1..Len(clients) : clients' = RemoveAt(clients, i)
  BY DEF Unlink
<1>2. /\ SubSeq(clients, 1, i - 1) \in Seq(Viewers)
      /\ SubSeq(clients, i + 1, Len(clients)) \in Seq(Viewers)
  <2>1. \A j \in 1 .. i - 1 : clients[j] \in Viewers
    BY ElementOfSeq
  <2>2. \A j \in i + 1 .. Len(clients) : clients[j] \in Viewers
    BY ElementOfSeq
  <2> QED BY <2>1, <2>2, SubSeqProperties
<1> QED BY <1>1, <1>2, ConcatProperties DEF RemoveAt

\* What the daemon does keeps the invariant: it tells the app of each client
\* that it takes off the list.
LEMMA DaemonKeeps ==
    ASSUME IInv, SessionNext, UNCHANGED appVars PROVE IInv'
<1> USE DEF IInv
<1>0. (UNCHANGED <<clients, wire>> /\ (at # "over" <=> at' # "over")) => IInv'
  BY DEF appVars, Quiet
<1>1. ASSUME NEW v \in Viewers, Viewer(v) PROVE IInv'
  BY <1>0, <1>1 DEF Viewer, Call, Send, Leave
<1>2. ASSUME NEW v \in Viewers, AcceptFails(v) PROVE IInv'
  BY <1>0, <1>2 DEF AcceptFails
<1>3. ASSUME NEW v \in Viewers, AcceptClient(v) PROVE IInv'
  <2>1. at # "over" /\ at' # "over"
    BY <1>3 DEF AcceptClient
  <2>2. CASE UNCHANGED <<clients, wire>>
    BY <1>0, <2>1, <2>2
  <2>3. CASE /\ clients' = <<v>> \o clients
             /\ wire' = Append(wire, [type |-> "CONNECTED", from |-> v])
    <3>1. clients' \in Seq(Viewers) /\ clients' # <<>>
      BY <2>3
    <3>2. wire' \in Seq(Notice)
      BY <2>3 DEF Notice
    <3> QED BY <3>1, <3>2 DEF appVars, Quiet
  <2> QED BY <1>3, <2>2, <2>3 DEF AcceptClient
<1>4. ASSUME NEW v \in Viewers, Serve(v) PROVE IInv'
  <2>1. UNCHANGED <<clients, wire>>
    BY <1>4 DEF Serve, ReadFails, Refuse, ProcessClientMessage, Shutdown, Served
  <2>2. at # "over" /\ at' # "over"
    BY <1>4 DEF Serve, ReadFails, Refuse, ProcessClientMessage, Shutdown,
                Served, IsServed
  <2> QED BY <1>0, <2>1, <2>2
<1>5. CASE SelectReturns
  BY <1>0, <1>5 DEF SelectReturns
<1>6. CASE OutOfDescriptors \/ SelectTimesOut
  BY <1>0, <1>6 DEF OutOfDescriptors, SelectTimesOut
<1>7. CASE VisitClient
  <2>1. CASE UNCHANGED <<clients, wire>>
    BY <1>0, <1>7, <2>1 DEF VisitClient
  <2>2. CASE ConnectionGone(Head(visit))
    <3> DEFINE v == Head(visit)
    <3>1. PICK i \in DOMAIN clients : clients[i] = v
      BY <2>2 DEF ConnectionGone, Unlink
    <3>2. v \in Viewers
      BY <3>1, ElementOfSeq
    <3>3. clients' \in Seq(Viewers)
      BY <2>2, <3>2, UnlinkKeeps DEF ConnectionGone
    <3>4. wire' = Append(wire, [type |-> "DISCONNECTED", from |-> v])
      BY <2>2 DEF ConnectionGone
    <3>5. [type |-> "DISCONNECTED", from |-> v] \in Notice
      BY <3>2 DEF Notice
    <3>6. /\ wire' \in Seq(Notice) /\ wire' # <<>>
          /\ wire'[Len(wire')].type = "DISCONNECTED"
      BY <3>4, <3>5
    <3> QED BY <3>3, <3>6 DEF appVars, Quiet
  <2> QED BY <1>7, <2>1, <2>2 DEF VisitClient
<1>8. CASE EndTurn
  BY <1>0, <1>8 DEF EndTurn
<1>9. CASE EndProcess
  BY <1>9 DEF EndProcess, appVars, Quiet
<1> QED
  BY <1>1, <1>2, <1>3, <1>4, <1>5, <1>6, <1>7, <1>8, <1>9
     DEF SessionNext, MainLoop

\* What the app does keeps the invariant if the preference for notices stays
\* as it was: the last notice that it hears is the one that decides.
LEMMA AppKeeps ==
    ASSUME "notifyclient" \notin Changing, NoticesAssumption,
           IInv, App, UNCHANGED daemonOnly
    PROVE  IInv'
<1> USE DEF IInv
<1>0. clients' = clients /\ at' = at
  BY DEF daemonOnly
<1>1. CASE Finalize
  BY <1>0, <1>1 DEF Finalize, Quiet
<1>2. ASSUME NEW p \in Changing, SetPreference(p) PROVE IInv'
  <2>1. ("notifyclient" \in preferences') <=> ("notifyclient" \in preferences)
    BY <1>2 DEF SetPreference
  <2> QED BY <1>0, <1>2, <2>1 DEF SetPreference, Quiet
<1>3. CASE Listener
  <2>1. wire # <<>> /\ wire' = Tail(wire)
    BY <1>3 DEF Listener, ShowClientConnected, ShowClientDisconnected, LogOnly,
                Heard
  <2>2. /\ wire' \in Seq(Notice)
        /\ wire' # <<>> => wire'[Len(wire')] = wire[Len(wire)]
        /\ wire' = <<>> => Head(wire) = wire[Len(wire)]
    <3>1. wire \in Seq(Notice) /\ Len(wire) \in Nat /\ Len(wire) # 0
      BY <2>1, EmptySeq
    <3>2. /\ Tail(wire) \in Seq(Notice) /\ Len(Tail(wire)) = Len(wire) - 1
          /\ \A j \in 1 .. Len(Tail(wire)) : Tail(wire)[j] = wire[j + 1]
          /\ Head(wire) = wire[1]
      BY <2>1, <3>1, HeadTailProperties
    <3> QED BY <2>1, <3>1, <3>2, EmptySeq
  <2>3. preferences' = preferences
    BY <1>3 DEF Listener, ShowClientConnected, ShowClientDisconnected, LogOnly,
                Heard, appVars
  <2>4. CASE LogOnly
    BY <1>0, <2>1, <2>2, <2>3, <2>4 DEF LogOnly, appVars, Quiet
  <2>5. CASE ShowClientDisconnected
    <3>1. Quiet'
      BY <2>5 DEF ShowClientDisconnected, Heard, Quiet
    <3> QED BY <1>0, <2>1, <2>2, <2>3, <3>1
  <2>6. CASE ShowClientConnected
    <3>1. Head(wire).type = "CONNECTED" /\ "notifyclient" \in preferences
      BY <2>6 DEF ShowClientConnected, Heard
    <3> QED BY <1>0, <2>1, <2>2, <2>3, <3>1
  <2> QED BY <1>3, <2>4, <2>5, <2>6 DEF Listener
<1> QED BY <1>1, <1>2, <1>3 DEF App

\* When all clients have gone and the app has heard of it, there is neither
\* a notification nor a held lock: for any viewers, and whichever preference
\* but the one for notices changes meanwhile (clientHook, clientGone,
\* showClientConnected, showClientDisconnected).
THEOREM QuietInTheEnd ==
    ASSUME "notifyclient" \notin Changing
    PROVE  NoticesSpec => []QuietWhenAllGone
<1>1. IInv /\ [NoticesNext]_noticesVars => IInv'
  <2> SUFFICES ASSUME IInv, [NoticesNext]_noticesVars PROVE IInv'
    OBVIOUS
  <2>1. CASE SessionNext /\ UNCHANGED appVars
    BY <2>1, DaemonKeeps
  <2>2. CASE App /\ UNCHANGED daemonOnly
    BY <2>2, AppKeeps, NoticesAssumption
  <2>3. CASE UNCHANGED noticesVars
    BY <2>3 DEF noticesVars, sessionVars, appVars, IInv, Quiet
  <2> QED BY <2>1, <2>2, <2>3 DEF NoticesNext
<1>2. IInv => QuietWhenAllGone
  BY DEF IInv, Quiet, QuietWhenAllGone
<1> QED BY <1>1, <1>2, QuietAtFirst, PTL DEF NoticesSpec

-----------------------------------------------------------------------------
(* Types. *)

\* Whoever has a place in the queue of listenSock has no other connection, and
\* is counted already.
WaitsOnce == calling \cap ToSet(clients) = {}

Room ==
    /\ IsFiniteSet(calling)
    /\ sessions + Cardinality(calling) <= MaxSessions

\* The notices on their way that a viewer has come.
Comings(w) == {i \in DOMAIN w : w[i].type = "CONNECTED"}

\* Each lock was taken for a connection of its own, and each connection that
\* the app has still to hear of may ask for one more.
LocksAreCounted ==
    orphans + (IF wakeLock = "held" THEN 1 ELSE 0) + Cardinality(Comings(wire))
        <= sessions

TypeInv == NoticesTypeOK /\ WaitsOnce /\ Room /\ LocksAreCounted

\* A list that holds nobody twice forgets exactly the one that is taken off.
LEMMA UnlinkForgetsOne ==
    ASSUME NEW v \in Viewers, clients \in Seq(Viewers), IsInjective(clients),
           Unlink(v)
    PROVE  /\ clients' \in Seq(Viewers)
           /\ IsInjective(clients')
           /\ ToSet(clients') = ToSet(clients) \ {v}
<1>1. PICK i \in 1..Len(clients) :
         clients[i] = v /\ clients' = RemoveAt(clients, i)
  BY DEF Unlink
<1>2. clients' \in Seq(Viewers)
  BY UnlinkKeeps
<1> DEFINE n == Len(clients)
<1>3. /\ n \in Nat /\ clients \in [1..n -> Viewers]
      /\ \A a, b \in 1..n : clients[a] = clients[b] => a = b
  BY DEF IsInjective
<1>4. /\ Len(clients') = n - 1
      /\ \A j \in 1 .. n - 1 :
            clients'[j] = IF j < i THEN clients[j] ELSE clients[j + 1]
  <2> DEFINE front == SubSeq(clients, 1, i - 1)
             back  == SubSeq(clients, i + 1, n)
  <2>1. /\ front \in Seq(Viewers) /\ Len(front) = i - 1
        /\ \A j \in 1 .. i - 1 : front[j] = clients[j]
    BY <1>3, SubSeqProperties
  <2>2. /\ back \in Seq(Viewers) /\ Len(back) = n - i
        /\ \A j \in 1 .. n - i : back[j] = clients[i + j]
    <3>1. i + 1 \in Int /\ n \in Int /\ \A j \in i + 1 .. n : clients[j] \in Viewers
      BY <1>3
    <3>2. /\ back \in Seq(Viewers)
          /\ Len(back) = IF i + 1 <= n THEN n - (i + 1) + 1 ELSE 0
          /\ \A j \in 1 .. n - (i + 1) + 1 : back[j] = clients[(i + 1) + j - 1]
      BY <3>1, SubSeqProperties
    <3>3. /\ n - (i + 1) + 1 = n - i
          /\ i + 1 <= n \/ n - i = 0
          /\ \A j \in 1 .. n - i : (i + 1) + j - 1 = i + j
      <4>1. i \in Int /\ n \in Int /\ i <= n
        BY <1>3
      <4> HIDE DEF n
      <4> QED BY <4>1
    <3> QED BY <3>2, <3>3
  <2>3. clients' = front \o back
    BY <1>1 DEF RemoveAt
  <2> HIDE DEF front, back
  <2>4. Len(front \o back) = n - 1
    <3>1. Len(front \o back) = Len(front) + Len(back)
      BY <2>1, <2>2, ConcatProperties
    <3> QED BY <1>3, <2>1, <2>2, <3>1
  <2>5. ASSUME NEW j \in 1 .. n - 1
        PROVE (front \o back)[j] = IF j < i THEN clients[j] ELSE clients[j + 1]
    <3>1. (front \o back)[j] = IF j <= i - 1 THEN front[j] ELSE back[j - (i - 1)]
      <4>1. j \in 1 .. Len(front) + Len(back)
        BY <1>3, <2>1, <2>2
      <4> QED BY <2>1, <2>2, <4>1, ConcatProperties
    <3>2. CASE j < i
      BY <2>1, <3>1, <3>2
    <3>3. CASE j >= i
      <4>1. j - (i - 1) \in 1 .. n - i /\ i + (j - (i - 1)) = j + 1
        BY <1>3, <3>3
      <4> QED BY <1>3, <2>2, <3>1, <3>3, <4>1
    <3>4. j < i \/ j >= i
      BY <1>3
    <3> QED BY <3>2, <3>3, <3>4
  <2> QED BY <2>3, <2>4, <2>5
<1>5. DOMAIN clients' = 1 .. n - 1
  BY <1>2, <1>4, LenProperties
<1>6. IsInjective(clients')
  BY <1>3, <1>4, <1>5 DEF IsInjective
<1>7. ToSet(clients') = {clients'[j] : j \in 1 .. n - 1}
      /\ ToSet(clients) = {clients[j] : j \in 1 .. n}
  BY <1>3, <1>5 DEF ToSet
<1>8. \A w : w \in ToSet(clients') <=> w \in ToSet(clients) \ {v}
  <2>1. ASSUME NEW w, w \in ToSet(clients') PROVE w \in ToSet(clients) \ {v}
    <3>1. PICK j \in 1 .. n - 1 : w = clients'[j]
      BY <1>7, <2>1
    <3>2. PICK k \in 1 .. n : w = clients[k] /\ k # i
      BY <1>3, <1>4, <3>1
    <3> QED BY <1>1, <1>3, <1>7, <3>2
  <2>2. ASSUME NEW w, w \in ToSet(clients) \ {v} PROVE w \in ToSet(clients')
    <3>1. PICK k \in 1 .. n : w = clients[k] /\ k # i
      BY <1>1, <1>7, <2>2
    <3>2. PICK j \in 1 .. n - 1 : w = clients'[j]
      <4>1. CASE k < i
        BY <1>3, <1>4, <3>1, <4>1
      <4>2. CASE k > i
        <5>1. k - 1 \in 1 .. n - 1 /\ ~(k - 1 < i) /\ k - 1 + 1 = k
          BY <1>3, <4>2
        <5> QED BY <1>4, <3>1, <5>1
      <4> QED BY <1>3, <3>1, <4>1, <4>2
    <3> QED BY <1>7, <3>2
  <2> QED BY <2>1, <2>2
<1> QED BY <1>2, <1>6, <1>8

\* There are finitely many of them.
LEMMA ComingsAreCounted ==
    ASSUME NEW w \in Seq(Notice)
    PROVE  IsFiniteSet(Comings(w)) /\ Cardinality(Comings(w)) \in Nat
<1>1. DOMAIN w = 1..Len(w) /\ Len(w) \in Nat
  BY LenProperties
<1>2. IsFiniteSet(1..Len(w))
  BY <1>1, FS_Interval
<1>3. Comings(w) \in SUBSET (1..Len(w))
  BY <1>1 DEF Comings
<1> QED BY <1>2, <1>3, FS_Subset, FS_CardinalityType

\* A notice more, and one less.
LEMMA ComingsAppend ==
    ASSUME NEW w \in Seq(Notice), NEW n \in Notice
    PROVE  Cardinality(Comings(Append(w, n)))
             = Cardinality(Comings(w)) + (IF n.type = "CONNECTED" THEN 1 ELSE 0)
<1> DEFINE k == Len(w)
<1>1. /\ k \in Nat /\ DOMAIN w = 1..k
      /\ DOMAIN Append(w, n) = 1 .. k + 1
      /\ \A j \in 1 .. k : Append(w, n)[j] = w[j]
      /\ Append(w, n)[k + 1] = n
  BY LenProperties, AppendProperties
<1>2. IsFiniteSet(Comings(w)) /\ Cardinality(Comings(w)) \in Nat
  BY ComingsAreCounted
<1>3. k + 1 \notin Comings(w)
  BY <1>1 DEF Comings
<1>4. Comings(Append(w, n)) = IF n.type = "CONNECTED"
                              THEN Comings(w) \cup {k + 1} ELSE Comings(w)
  BY <1>1 DEF Comings
<1>5. Cardinality(Comings(w) \cup {k + 1}) = Cardinality(Comings(w)) + 1
  BY <1>2, <1>3, FS_AddElement
<1> QED BY <1>2, <1>4, <1>5

LEMMA ComingsTail ==
    ASSUME NEW w \in Seq(Notice), w # <<>>
    PROVE  /\ Cardinality(Comings(Tail(w))) \in Nat
           /\ Cardinality(Comings(Tail(w)))
                + (IF Head(w).type = "CONNECTED" THEN 1 ELSE 0)
                <= Cardinality(Comings(w))
<1> DEFINE k == Len(w)
           C == Comings(w)
           T == Comings(Tail(w))
           next == [j \in T |-> j + 1]
<1>1. /\ k \in Nat /\ DOMAIN w = 1..k /\ 1 \in DOMAIN w
      /\ DOMAIN Tail(w) = 1 .. k - 1
      /\ \A j \in 1 .. k - 1 : Tail(w)[j] = w[j + 1]
      /\ Head(w) = w[1]
  <2>1. /\ Tail(w) \in Seq(Notice) /\ Head(w) = w[1]
        /\ Len(Tail(w)) = k - 1 /\ \A j \in 1 .. Len(Tail(w)) : Tail(w)[j] = w[j + 1]
    BY HeadTailProperties
  <2>2. k \in Nat /\ DOMAIN w = 1..k /\ k # 0
    BY EmptySeq, LenProperties
  <2>3. DOMAIN Tail(w) = 1 .. k - 1
    BY <2>1, LenProperties
  <2> QED BY <2>1, <2>2, <2>3
<1>2. IsFiniteSet(C) /\ Cardinality(C) \in Nat
  BY ComingsAreCounted
<1>3. T \subseteq 1 .. k - 1 /\ \A j \in T : j + 1 \in C \ {1}
  BY <1>1 DEF Comings
<1>4. next \in Injection(T, C \ {1})
  <2>1. \A j \in T : j \in Int
    BY <1>1, <1>3
  <2> HIDE DEF T, C
  <2>2. next \in [T -> C \ {1}]
    BY <1>3
  <2>3. \A a, b \in T : next[a] = next[b] => a = b
    BY <2>1
  <2> HIDE DEF next
  <2> QED BY <2>2, <2>3 DEF Injection, IsInjective
<1>5. /\ IsFiniteSet(C \ {1})
      /\ Cardinality(C \ {1}) = IF 1 \in C THEN Cardinality(C) - 1 ELSE Cardinality(C)
  BY <1>2, FS_RemoveElement
<1>6. IsFiniteSet(T) /\ Cardinality(T) <= Cardinality(C \ {1})
  <2> HIDE DEF T, C, next
  <2> QED BY <1>4, <1>5, FS_Injection
<1>7. Head(w).type = "CONNECTED" => 1 \in C
  BY <1>1 DEF Comings
<1>8. Cardinality(T) \in Nat
  BY <1>6, FS_CardinalityType
<1>9. Cardinality(T) + (IF Head(w).type = "CONNECTED" THEN 1 ELSE 0)
        <= Cardinality(C)
  <2> HIDE DEF T, C
  <2> QED BY <1>2, <1>5, <1>6, <1>7, <1>8
<1> QED BY <1>8, <1>9

\* At first.
LEMMA TypedAtFirst == NoticesInit => TypeInv
<1> SUFFICES ASSUME NoticesInit PROVE TypeInv
  OBVIOUS
<1> USE DEF NoticesInit, SessionInit
<1>1. clients = <<>> /\ ToSet(clients) = {} /\ IsInjective(clients)
  BY DEF ToSet, IsInjective
<1>2. SessionTypeOK
  BY <1>1, SessionAssumption DEF SessionTypeOK, States
<1>3. Room
  BY FS_EmptySet, SessionAssumption DEF Room
<1>4. Comings(wire) = {}
  BY DEF Comings
<1>5. LocksAreCounted
  BY <1>4, FS_EmptySet DEF LocksAreCounted
<1>6. NoticesTypeOK
  BY <1>2, NoticesAssumption, SessionAssumption DEF NoticesTypeOK
<1>7. WaitsOnce
  BY DEF WaitsOnce
<1> QED BY <1>3, <1>5, <1>6, <1>7 DEF TypeInv

\* What the viewers do.
LEMMA ViewerKeepsTypes ==
    ASSUME SessionTypeOK, WaitsOnce, Room, NEW v \in Viewers, Viewer(v)
    PROVE  /\ SessionTypeOK' /\ WaitsOnce' /\ Room'
           /\ sessions' = sessions /\ wire' = wire
<1> USE DEF SessionTypeOK, WaitsOnce, Room, States, Handshake
<1>1. CASE Call(v)
  <2>1. /\ IsFiniteSet(calling')
        /\ Cardinality(calling') = Cardinality(calling) + 1
    BY <1>1, FS_AddElement DEF Call
  <2>2. Cardinality(calling) \in Nat
    BY FS_CardinalityType
  <2> QED BY <1>1, <2>1, <2>2, SessionAssumption DEF Call, Listed
<1>2. CASE Send(v)
  BY <1>2 DEF Send
<1>3. CASE Leave(v)
  BY <1>3 DEF Leave
<1> QED BY <1>1, <1>2, <1>3 DEF Viewer

\* The queue of listenSock is taken from.
LEMMA AcceptMakesRoom ==
    ASSUME SessionTypeOK, Room, NEW v \in calling,
           calling' = calling \ {v}, sessions' = sessions + 1
    PROVE  Room' /\ sessions' \in 0..MaxSessions /\ calling' \subseteq Viewers
<1>1. /\ IsFiniteSet(calling')
      /\ Cardinality(calling') = Cardinality(calling) - 1
  BY FS_RemoveElement DEF Room
<1>2. Cardinality(calling) \in Nat /\ Cardinality(calling') \in Nat
  BY <1>1, FS_CardinalityType DEF Room
<1> QED BY <1>1, <1>2, SessionAssumption DEF Room, SessionTypeOK

\* What the main thread does while it serves.
LEMMA ServeKeepsTypes ==
    ASSUME SessionTypeOK, WaitsOnce, Room, NEW v \in Viewers, Serve(v)
    PROVE  /\ SessionTypeOK' /\ WaitsOnce' /\ Room'
           /\ sessions' = sessions /\ wire' = wire
<1> USE DEF SessionTypeOK, WaitsOnce, Room, States, Handshake
<1>0. v \in ToSet(clients) /\ v \in DOMAIN state
  <2>1. IsServed(v)
    BY DEF Serve, ReadFails, Refuse, ProcessClientMessage, Shutdown
  <2> QED BY <2>1 DEF IsServed, ToSet
<1>1. CASE ReadFails(v)
  BY <1>0, <1>1 DEF ReadFails, Served
<1>2. CASE Refuse(v)
  BY <1>0, <1>2 DEF Refuse, Served
<1>3. CASE ProcessClientMessage(v)
  <2>1. PICK s \in After(state[v]) :
           /\ state' = [state EXCEPT ![v] = s]
           /\ \E others \in IF s = "NORMAL" /\ state[v] # "NORMAL"
                            THEN DisconnectedBy(v) ELSE {{}} :
                 Served(v, closed \cup others)
    BY <1>3 DEF ProcessClientMessage
  <2>2. s \in States \ {"none"}
    BY <2>1 DEF After
  <2>3. PICK others \in SUBSET ToSet(clients) : Served(v, closed \cup others)
    BY <2>1 DEF DisconnectedBy, Listed
  <2>4. state' \in [Viewers -> States] /\ state'[v] = s
        /\ \A w \in Viewers \ {v} : state'[w] = state[w]
    BY <2>1, <2>2
  <2>5. closed' \subseteq ToSet(clients')
    BY <2>3 DEF Served
  <2>6. sent' \in [Viewers -> {"nothing", "part", "whole"}]
    BY <1>3 DEF ProcessClientMessage
  <2>7. \A w \in Viewers : state'[w] = "none" <=> w \notin ToSet(clients')
    <3>1. clients' = clients /\ ToSet(clients') = ToSet(clients)
      BY <2>3 DEF Served
    <3> QED BY <1>0, <2>2, <2>4, <3>1
  <2> QED BY <1>3, <2>3, <2>4, <2>5, <2>6, <2>7 DEF ProcessClientMessage, Served
<1>4. CASE Shutdown(v)
  <2>1. IsFiniteSet(calling') /\ Cardinality(calling') = 0
    BY <1>4, FS_EmptySet DEF Shutdown
  <2>2. Room' /\ WaitsOnce'
    BY <1>4, <2>1, SessionAssumption DEF Shutdown
  <2>3. sent' \in [Viewers -> {"nothing", "part", "whole"}]
    BY <1>4 DEF Shutdown
  <2>4. ToSet(clients') = ToSet(clients) /\ IsInjective(clients')
    BY <1>4 DEF Shutdown
  <2> QED BY <1>4, <2>2, <2>3, <2>4 DEF Shutdown, Listed
<1> QED BY <1>1, <1>2, <1>3, <1>4 DEF Serve

\* What the main thread does between two selects.
LEMMA SessionKeepsTypes ==
    ASSUME SessionTypeOK, WaitsOnce, Room, LocksAreCounted,
           SessionNext, UNCHANGED appVars,
           orphans \in Nat
    PROVE  SessionTypeOK' /\ WaitsOnce' /\ Room' /\ LocksAreCounted'
<1> DEFINE same == sessions' = sessions /\ wire' = wire
           none(v) == [type |-> "DISCONNECTED", from |-> v]
           come(v) == [type |-> "CONNECTED", from |-> v]
<1>0. orphans' = orphans /\ wakeLock' = wakeLock
  BY DEF appVars
<1>a. /\ Readable \subseteq Viewers
      /\ ToSet(<<>>) = {} /\ IsInjective(<<>>)
  BY DEF Readable, Listed, ToSet, IsInjective, SessionTypeOK
<1>1. same => LocksAreCounted'
  BY <1>0 DEF LocksAreCounted
<1>2. ASSUME NEW v \in Viewers, Viewer(v) PROVE SessionTypeOK' /\ WaitsOnce' /\ Room' /\ same
  BY <1>2, ViewerKeepsTypes
<1>3. ASSUME NEW v \in Viewers, Serve(v) PROVE SessionTypeOK' /\ WaitsOnce' /\ Room' /\ same
  BY <1>3, ServeKeepsTypes
<1>4. ASSUME NEW v \in Viewers, AcceptFails(v)
      PROVE  SessionTypeOK' /\ WaitsOnce' /\ Room' /\ LocksAreCounted'
  <2>1. Room' /\ sessions' \in 0..MaxSessions /\ calling' \subseteq Viewers
    BY <1>4, AcceptMakesRoom DEF AcceptFails
  <2>2. SessionTypeOK' /\ WaitsOnce'
    BY <1>4, <2>1 DEF AcceptFails, SessionTypeOK, WaitsOnce
  <2>3. Cardinality(Comings(wire)) \in Nat
    BY ComingsAreCounted DEF SessionTypeOK
  <2>4. LocksAreCounted'
    BY <1>0, <1>4, <2>3 DEF AcceptFails, LocksAreCounted, SessionTypeOK
  <2> QED BY <2>1, <2>2, <2>4
<1>5. ASSUME NEW v \in Viewers, AcceptClient(v)
      PROVE  SessionTypeOK' /\ WaitsOnce' /\ Room' /\ LocksAreCounted'
  <2>0. PICK n \in Notice : n = come(v)
    BY DEF Notice
  <2>1. Room' /\ sessions' \in 0..MaxSessions /\ calling' \subseteq Viewers
    BY <1>5, AcceptMakesRoom DEF AcceptClient
  <2>2. Cardinality(Comings(wire)) \in Nat
    BY ComingsAreCounted DEF SessionTypeOK
  <2>3. SessionTypeOK' /\ WaitsOnce' /\ LocksAreCounted'
    <3>1. CASE UNCHANGED <<clients, state, wire>>
      <4>1. fds' \subseteq Viewers /\ visit' \in Seq(Viewers)
        BY <1>5, <1>a, <3>1 DEF AcceptClient, SessionTypeOK
      <4>2. SessionTypeOK' /\ WaitsOnce'
        BY <1>5, <2>1, <3>1, <4>1 DEF AcceptClient, SessionTypeOK, WaitsOnce
      <4>3. LocksAreCounted'
        BY <1>0, <1>5, <2>2, <3>1 DEF AcceptClient, LocksAreCounted, SessionTypeOK
      <4> QED BY <4>2, <4>3
    <3>2. CASE /\ clients' = <<v>> \o clients
               /\ state' = [state EXCEPT ![v] = "PROTOCOL_VERSION"]
               /\ wire' = Append(wire, come(v))
      <4>1. wire' \in Seq(Notice)
        BY <2>0, <3>2 DEF SessionTypeOK
      <4>2. Cardinality(Comings(wire')) = Cardinality(Comings(wire)) + 1
        BY <2>0, <3>2, ComingsAppend DEF SessionTypeOK
      <4>3. LocksAreCounted'
        BY <1>0, <1>5, <2>2, <4>2 DEF AcceptClient, LocksAreCounted, SessionTypeOK
      <4>4. /\ clients' \in Seq(Viewers) /\ IsInjective(clients')
            /\ ToSet(clients') = ToSet(clients) \cup {v}
        <5>1. v \notin ToSet(clients)
          BY <1>5 DEF AcceptClient, WaitsOnce
        <5>2. /\ clients \in Seq(Viewers) /\ clients \in [1..Len(clients) -> Viewers]
              /\ \A j \in 1..Len(clients) : clients[j] # v
              /\ \A j, k \in 1..Len(clients) : clients[j] = clients[k] => j = k
          BY <5>1 DEF SessionTypeOK, ToSet, IsInjective
        <5>3. /\ clients' \in Seq(Viewers) /\ DOMAIN clients' = 1 .. Len(clients) + 1
              /\ clients'[1] = v
              /\ \A j \in 2 .. Len(clients) + 1 : clients'[j] = clients[j - 1]
          BY <3>2, <5>2
        <5>4. IsInjective(clients')
          BY <5>2, <5>3 DEF IsInjective
        <5>5. \A w : w \in ToSet(clients') <=> w \in ToSet(clients) \cup {v}
          <6>1. ASSUME NEW w, w \in ToSet(clients') PROVE w \in ToSet(clients) \cup {v}
            BY <5>2, <5>3, <6>1 DEF ToSet
          <6>2. ASSUME NEW w, w \in ToSet(clients) PROVE w \in ToSet(clients')
            <7>1. PICK j \in 1..Len(clients) : w = clients[j]
              BY <5>2, <6>2 DEF ToSet
            <7>2. j + 1 \in DOMAIN clients' /\ clients'[j + 1] = w
              BY <5>2, <5>3, <7>1
            <7> QED BY <7>2 DEF ToSet
          <6>3. v \in ToSet(clients')
            BY <5>2, <5>3 DEF ToSet
          <6> QED BY <6>1, <6>2, <6>3
        <5> QED BY <5>3, <5>4, <5>5
      <4>5. fds' \subseteq Viewers /\ visit' \in Seq(Viewers)
        BY <1>5, <1>a, <4>4 DEF AcceptClient, SessionTypeOK
      <4>6. /\ state' \in [Viewers -> States]
            /\ \A w \in Viewers : state'[w] = "none" <=> w \notin ToSet(clients')
        BY <3>2, <4>4 DEF SessionTypeOK, States, Handshake
      <4>7. WaitsOnce'
        BY <1>5, <4>4 DEF AcceptClient, WaitsOnce
      <4>8. closed' \subseteq ToSet(clients')
        BY <1>5, <4>4 DEF AcceptClient, SessionTypeOK
      <4> QED BY <1>5, <2>1, <4>1, <4>3, <4>4, <4>5, <4>6, <4>7, <4>8
           DEF AcceptClient, SessionTypeOK
    <3> QED BY <1>5, <3>1, <3>2 DEF AcceptClient
  <2> QED BY <2>1, <2>3
<1>6. CASE SelectReturns
  BY <1>1, <1>6, <1>a DEF SelectReturns, SessionTypeOK, WaitsOnce, Room, viewerSide
<1>7. CASE OutOfDescriptors \/ SelectTimesOut
  BY <1>1, <1>7 DEF OutOfDescriptors, SelectTimesOut, SessionTypeOK, WaitsOnce,
                    Room, viewerSide
<1>8. CASE EndTurn
  BY <1>1, <1>8 DEF EndTurn, SessionTypeOK, WaitsOnce, Room, viewerSide
<1>9. CASE EndProcess
  <2>1. Room' /\ WaitsOnce'
    BY <1>9, FS_EmptySet, SessionAssumption
       DEF EndProcess, SessionTypeOK, Room, WaitsOnce
  <2>2. SessionTypeOK'
    <3>1. /\ clients' \in Seq(Viewers) /\ visit' \in Seq(Viewers)
          /\ IsInjective(clients') /\ ToSet(clients') = {}
      BY <1>9, <1>a DEF EndProcess
    <3>2. /\ state' \in [Viewers -> States]
          /\ \A v \in Viewers : state'[v] = "none"
          /\ sent' \in [Viewers -> {"nothing", "part", "whole"}]
      BY <1>9 DEF EndProcess, States
    <3> QED BY <1>9, <3>1, <3>2 DEF EndProcess, SessionTypeOK
  <2> QED BY <1>1, <1>9, <2>1, <2>2 DEF EndProcess
<1>10. CASE VisitClient
  <2>1. visit' \in Seq(Viewers)
    BY <1>10 DEF VisitClient, SessionTypeOK
  <2>2. CASE UNCHANGED <<clients, closed, state, sent, left, wire>>
    BY <1>1, <1>10, <2>1, <2>2 DEF VisitClient, SessionTypeOK, WaitsOnce, Room
  <2>3. CASE ConnectionGone(Head(visit))
    <3> DEFINE v == Head(visit)
    <3>1. v \in Viewers
      BY <1>10 DEF VisitClient, SessionTypeOK
    <3>2. PICK n \in Notice : n = none(v)
      BY <3>1 DEF Notice
    <3>3. /\ clients' \in Seq(Viewers) /\ IsInjective(clients')
          /\ ToSet(clients') = ToSet(clients) \ {v}
      BY <2>3, <3>1, UnlinkForgetsOne DEF ConnectionGone, SessionTypeOK
    <3>4. wire' = Append(wire, n) /\ wire' \in Seq(Notice)
      BY <2>3, <3>2 DEF ConnectionGone, SessionTypeOK
    <3>5. Cardinality(Comings(wire')) = Cardinality(Comings(wire))
      BY <3>2, <3>4, ComingsAppend, ComingsAreCounted DEF SessionTypeOK
    <3>6. LocksAreCounted'
      BY <1>0, <1>10, <3>5 DEF VisitClient, LocksAreCounted
    <3>7. /\ state' \in [Viewers -> States]
          /\ \A w \in Viewers : state'[w] = "none" <=> w \notin ToSet(clients')
      BY <2>3, <3>1, <3>3 DEF ConnectionGone, SessionTypeOK, States
    <3>8. /\ closed' \subseteq ToSet(clients') /\ left' \subseteq Viewers
          /\ sent' \in [Viewers -> {"nothing", "part", "whole"}]
      BY <2>3, <3>1, <3>3 DEF ConnectionGone, SessionTypeOK
    <3>9. WaitsOnce' /\ Room'
      BY <1>10, <3>3 DEF VisitClient, WaitsOnce, Room
    <3> QED BY <1>10, <2>1, <3>3, <3>4, <3>6, <3>7, <3>8, <3>9
         DEF VisitClient, SessionTypeOK
  <2> QED BY <1>10, <2>2, <2>3 DEF VisitClient
<1> QED
  BY <1>1, <1>2, <1>3, <1>4, <1>5, <1>6, <1>7, <1>8, <1>9, <1>10
     DEF SessionNext, MainLoop

\* What the app does.
LEMMA AppKeepsTypes ==
    ASSUME TypeInv, App, UNCHANGED daemonOnly PROVE TypeInv'
<1> USE DEF TypeInv, NoticesTypeOK
<1>1. WaitsOnce' /\ Room' /\ calling' = calling /\ sessions' = sessions
  <2>1. calling' = calling /\ sessions' = sessions /\ clients' = clients
    BY DEF daemonOnly, viewerSide
  <2> QED BY <2>1 DEF WaitsOnce, Room
<1>2. wire' \in Seq(Notice) => SessionTypeOK'
  BY DEF daemonOnly, viewerSide, SessionTypeOK
<1>3. wire \in Seq(Notice) /\ sessions \in 0..MaxSessions /\ orphans \in Nat
  BY SessionAssumption DEF SessionTypeOK
<1>4. CASE Finalize
  <2>1. Cardinality(Comings(wire)) \in Nat
    BY <1>3, ComingsAreCounted
  <2> QED BY <1>1, <1>2, <1>3, <1>4, <2>1, SessionAssumption
       DEF Finalize, LocksAreCounted
<1>5. ASSUME NEW p \in Changing, SetPreference(p) PROVE TypeInv'
  <2>1. preferences' \subseteq {"notifyclient", "screenturnoff"}
    BY <1>5, NoticesAssumption DEF SetPreference
  <2> QED BY <1>1, <1>2, <1>3, <1>5, <2>1 DEF SetPreference, LocksAreCounted
<1>6. CASE Listener
  <2>1. wire # <<>> /\ wire' = Tail(wire) /\ wire' \in Seq(Notice)
    BY <1>3, <1>6
       DEF Listener, ShowClientConnected, ShowClientDisconnected, LogOnly, Heard
  <2>2. Head(wire) \in Notice
    BY <1>3, <2>1
  <2>3. /\ Cardinality(Comings(wire')) \in Nat /\ Cardinality(Comings(wire)) \in Nat
        /\ Cardinality(Comings(wire'))
             + (IF Head(wire).type = "CONNECTED" THEN 1 ELSE 0)
             <= Cardinality(Comings(wire))
    BY <1>3, <2>1, ComingsAreCounted, ComingsTail
  <2>4. CASE LogOnly
    BY <1>1, <1>2, <1>3, <2>1, <2>3, <2>4 DEF LogOnly, appVars, LocksAreCounted
  <2>5. CASE ShowClientDisconnected
    BY <1>1, <1>2, <1>3, <2>1, <2>3, <2>5
       DEF ShowClientDisconnected, Heard, LocksAreCounted
  <2>6. CASE ShowClientConnected
    <3>1. LocksAreCounted'
      BY <1>1, <1>3, <2>3, <2>6 DEF ShowClientConnected, Heard, LocksAreCounted
    <3>2. orphans' \in 0..MaxSessions
      BY <1>1, <1>3, <2>3, <2>6, <3>1, SessionAssumption
         DEF ShowClientConnected, Heard, LocksAreCounted
    <3>3. shown' \in Viewers /\ wakeLock' \in {"null", "held", "released"}
      BY <2>2, <2>6 DEF ShowClientConnected, Heard, Notice
    <3> QED BY <1>1, <1>2, <2>1, <2>6, <3>1, <3>2, <3>3 DEF ShowClientConnected
  <2> QED BY <1>6, <2>4, <2>5, <2>6 DEF Listener
<1> QED BY <1>4, <1>5, <1>6 DEF App

\* A client is on the list once and has a state exactly while it is there; of
\* those on the list some are closed; none waits in the port's queue as well;
\* the connections there were and those that wait stay within the bound; and
\* however many notices of arrivals the app hears while it holds a lock, the
\* locks and the arrivals it has still to hear of are never more than the
\* connections (rfbNewClient, rfbClientConnectionGone, showClientConnected):
\* for any viewers and any bound on the connections.
THEOREM NoticesTyped ==
    NoticesSpec => [](NoticesTypeOK /\ WaitsOnce /\ Room /\ LocksAreCounted)
<1>1. TypeInv /\ [NoticesNext]_noticesVars => TypeInv'
  <2> SUFFICES ASSUME TypeInv, [NoticesNext]_noticesVars PROVE TypeInv'
    OBVIOUS
  <2>1. CASE SessionNext /\ UNCHANGED appVars
    <3>1. SessionTypeOK' /\ WaitsOnce' /\ Room' /\ LocksAreCounted'
      BY <2>1, SessionKeepsTypes, SessionAssumption DEF TypeInv, NoticesTypeOK
    <3> QED BY <2>1, <3>1 DEF TypeInv, NoticesTypeOK, appVars
  <2>2. CASE App /\ UNCHANGED daemonOnly
    BY <2>2, AppKeepsTypes
  <2>3. CASE UNCHANGED noticesVars
    BY <2>3 DEF TypeInv, NoticesTypeOK, SessionTypeOK, WaitsOnce, Room,
       LocksAreCounted, noticesVars, sessionVars, appVars
  <2> QED BY <2>1, <2>2, <2>3 DEF NoticesNext
<1>2. TypeInv => NoticesTypeOK /\ WaitsOnce /\ Room /\ LocksAreCounted
  BY DEF TypeInv
<1> QED BY <1>1, <1>2, TypedAtFirst, PTL DEF NoticesSpec

-----------------------------------------------------------------------------
(* The connections. *)

\* With alwaysShared, which initVncServer sets, no viewer's message, arrival
\* or leaving ends the connection of another, for any viewers.
THEOREM NoneIsTurnedOut ==
    ASSUME AlwaysShared
    PROVE  NoticesSpec => NobodyIsTurnedOut
<1> DEFINE Step == \A v \in closed' \ closed : IsServed(v) \/ ~open'
<1>0. closed' \subseteq closed => Step
  OBVIOUS
<1>1. ASSUME NEW v \in Viewers, Viewer(v) \/ AcceptFails(v) \/ AcceptClient(v)
      PROVE closed' = closed
  BY <1>1 DEF Viewer, Call, Send, Leave, AcceptFails, AcceptClient
<1>2. ASSUME NEW v \in Viewers, Serve(v) PROVE Step
  <2>1. CASE ReadFails(v) \/ Refuse(v)
    BY <2>1 DEF ReadFails, Refuse, Served
  <2>2. CASE ProcessClientMessage(v)
    <3>1. closed' = closed
      BY <2>2 DEF ProcessClientMessage, DisconnectedBy, Served
    <3> QED BY <1>0, <3>1
  <2>3. CASE Shutdown(v)
    BY <2>3 DEF Shutdown
  <2> QED BY <1>2, <2>1, <2>2, <2>3 DEF Serve
<1>3. OutOfDescriptors \/ SelectReturns \/ SelectTimesOut \/ EndTurn
        => closed' = closed
  BY DEF OutOfDescriptors, SelectReturns, SelectTimesOut, EndTurn
<1>4. VisitClient => closed' \subseteq closed
  <2>1. \A v : ConnectionGone(v) => closed' \subseteq closed
    BY DEF ConnectionGone
  <2> QED BY <2>1 DEF VisitClient
<1>5. EndProcess => closed' = {}
  BY DEF EndProcess
<1> HIDE DEF Step
<1>6. [NoticesNext]_noticesVars => [Step]_sessionVars
  <2>1. SessionNext => Step
    BY <1>0, <1>1, <1>2, <1>3, <1>4, <1>5 DEF SessionNext, MainLoop
  <2>2. App /\ UNCHANGED daemonOnly => Step
    BY <1>0 DEF daemonOnly
  <2>3. UNCHANGED noticesVars => UNCHANGED sessionVars
    BY DEF noticesVars
  <2> QED BY <2>1, <2>2, <2>3 DEF NoticesNext
<1> QED BY <1>6, PTL DEF NoticesSpec, NobodyIsTurnedOut, Step
=============================================================================
