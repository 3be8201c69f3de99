----------------------------- MODULE IdleProofs -----------------------------
(***************************************************************************)
(* Proofs about Idle, for every deferUpdateTime and however much time      *)
(* passes: the wait grows only with the root of the stillness.             *)
(***************************************************************************)
EXTENDS Idle, TLAPS

\* The arithmetic of one idle turn: the wait w grows by two, the stillness by
\* at least w + 1 and at least one.
LEMMA OneTurnMore ==
    ASSUME NEW w \in Int, NEW s \in Nat, NEW c \in Nat, NEW d \in Nat,
           w > s => w * w <= s * s + 4 * c,
           d >= w + 1, d >= 1,
           w + 2 > s
    PROVE  (w + 2) * (w + 2) <= s * s + 4 * (c + d)
<1>1. (w + 2) * (w + 2) = w * w + 4 * w + 4
  OBVIOUS
<1>2. CASE w > s
  BY <1>1, <1>2
<1>3. CASE w <= s /\ w >= 0
  <2>1. w * w <= s * s
    BY <1>3
  <2> QED BY <1>1, <2>1, <1>3
<1>4. CASE w < 0
  <2>1. w = -1
    BY <1>4
  <2> QED BY <2>1
<1> QED BY <1>2, <1>3, <1>4

LEMMA TypedStep ==
    ASSUME IdleTypeOK, [Next]_vars
    PROVE  IdleTypeOK'
<1> USE IdleAssumption DEF IdleTypeOK
<1>1. CASE Change
  BY <1>1 DEF Change
<1>2. ASSUME NEW d \in 0..wait, NEW b \in BOOLEAN, Message(d, b)
      PROVE  IdleTypeOK'
  BY <1>2 DEF Message, Passes, wait
<1>3. ASSUME NEW d \in 0..wait, NEW b \in BOOLEAN, NEW stays \in BOOLEAN,
             EndTurn(d, b, stays)
      PROVE  IdleTypeOK'
  <2>1. /\ standby' \in Nat \ {0}
        /\ calm' \in Nat /\ arrivals' \in Nat
    BY <1>3 DEF EndTurn, Pace, Rest, wait
  <2>2. idle' \in BOOLEAN /\ watched' \in BOOLEAN /\ changed' \in BOOLEAN
    <3>1. watched' \in BOOLEAN
      BY <1>3, Zenon DEF EndTurn
    <3>2. CASE watched'
      BY <1>3, <3>1, <3>2, Zenon DEF EndTurn
    <3>3. CASE ~watched'
      BY <1>3, <3>1, <3>3, Zenon DEF EndTurn, Rest
    <3> QED BY <3>1, <3>2, <3>3
  <2>3. ~watched' => idle'
    BY <1>3, Zenon DEF EndTurn, Rest
  <2> QED BY <2>1, <2>2, <2>3
<1>4. CASE UNCHANGED vars
  BY <1>4 DEF vars
<1> QED BY <1>1, <1>2, <1>3, <1>4 DEF Next

\* The globals keep their types, and while nobody is connected the daemon
\* takes itself for idle.
THEOREM IdleTyped == Spec => []IdleTypeOK
<1>1. Init => IdleTypeOK
  <2>1. Init => /\ standby \in Nat \ {0} /\ calm \in Nat /\ arrivals \in Nat
                /\ standby = 1
    BY DEF Init
  <2>2. Init => idle \in BOOLEAN /\ watched \in BOOLEAN /\ changed \in BOOLEAN
    BY Zenon DEF Init
  <2> QED BY <2>1, <2>2, Zenon DEF IdleTypeOK
<1> QED BY <1>1, TypedStep, PTL DEF Spec

-----------------------------------------------------------------------------
LEMMA ModestStep ==
    ASSUME IdleTypeOK, WaitIsModest, [Next]_vars
    PROVE  WaitIsModest'
<1> DEFINE w == wait - 1 - 2 * arrivals
           s == Defer + Slow - 1
<1>0. /\ w \in Int /\ s \in Nat /\ calm \in Nat /\ wait \in Nat
      /\ w > s => w * w <= s * s + 4 * calm
  BY IdleAssumption DEF IdleTypeOK, WaitIsModest, wait
<1>1. CASE Change
  BY <1>1 DEF Change, WaitIsModest, wait
<1>2. ASSUME NEW d \in 0..wait, NEW b \in BOOLEAN, Message(d, b)
      PROVE  WaitIsModest'
  <2>1. w' = w /\ s' = s /\ calm' >= calm /\ calm' \in Nat
    BY <1>0, <1>2 DEF Message, Passes, wait, IdleTypeOK
  <2>2. w' > s' => w' * w' <= s' * s' + 4 * calm'
    BY <1>0, <2>1
  <2> QED BY <2>2 DEF WaitIsModest
<1>3. ASSUME NEW d \in 0..wait, NEW b \in BOOLEAN, NEW stays \in BOOLEAN,
             EndTurn(d, b, stays)
      PROVE  WaitIsModest'
  <2>1. CASE ~idle \/ ~watched'
    <3>1. wait' <= Defer + Slow /\ arrivals' \in Nat /\ wait' \in Nat
      <4>1. standby' = 2 \/ standby' = Slow
        BY <1>3, <2>1, Zenon DEF EndTurn, Pace, Rest
      <4>2. arrivals' \in Nat
        BY <1>3 DEF EndTurn, IdleTypeOK
      <4> QED BY <4>1, <4>2, IdleAssumption DEF wait
    <3>2. PICK x \in Nat, a \in Nat :
             wait' = x /\ arrivals' = a /\ x <= Defer + Slow
      BY <3>1
    <3>3. ~(x - 1 - 2 * a > Defer + Slow - 1)
      BY <3>2, IdleAssumption
    <3> QED BY <3>2, <3>3 DEF WaitIsModest
  <2>2. CASE idle /\ watched'
    <3>1. wait' = wait + 2 /\ calm' = calm + d /\ d \in Nat
      BY <1>3, <2>2, <1>0, IdleAssumption
      DEF EndTurn, Pace, wait, IdleTypeOK
    <3>2. CASE b
      <4>1. arrivals' = arrivals + 1
        BY <1>3, <2>2, <3>2 DEF EndTurn
      <4>2. w' = w /\ calm' >= calm /\ calm' \in Nat
        BY <1>0, <3>1, <4>1 DEF IdleTypeOK
      <4>3. w' > s' => w' * w' <= s' * s' + 4 * calm'
        BY <1>0, <4>2
      <4> QED BY <4>3 DEF WaitIsModest
    <3>3. CASE ~b
      <4>1. arrivals' = arrivals /\ d = wait
        BY <1>3, <2>2, <3>3 DEF EndTurn
      <4>2. w' = w + 2 /\ d >= w + 1 /\ d >= 1
        BY <1>0, <3>1, <4>1, IdleAssumption DEF IdleTypeOK, wait
      <4>3. w + 2 > s => (w + 2) * (w + 2) <= s * s + 4 * (calm + d)
        BY <1>0, <3>1, <4>2, OneTurnMore
      <4>4. w' > s' => w' * w' <= s' * s' + 4 * calm'
        BY <3>1, <4>2, <4>3
      <4> QED BY <4>4 DEF WaitIsModest
    <3> QED BY <3>2, <3>3
  <2> QED BY <2>1, <2>2
<1>4. CASE UNCHANGED vars
  BY <1>4 DEF vars, WaitIsModest, wait
<1> QED BY <1>1, <1>2, <1>3, <1>4 DEF Next

\* However long the screen is still and whatever the viewers do, the wait
\* grows only with the root of the stillness.
THEOREM WaitsAreModest == Spec => []WaitIsModest
<1>1. Init => WaitIsModest
  BY IdleAssumption DEF Init, WaitIsModest, wait
<1> QED BY <1>1, IdleTyped, ModestStep, PTL DEF Spec
=============================================================================
