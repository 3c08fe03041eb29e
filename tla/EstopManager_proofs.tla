------------------------ MODULE EstopManager_proofs ------------------------
(***************************************************************************)
(* Proofs about EstopManager, for every queue depth and every bound.       *)
(***************************************************************************)
EXTENDS EstopManager, TLAPS

(* A queue keeps its type and its depth, and holds nothing but what it     *)
(* held and the new message.                                               *)
LEMMA KeepFacts ==
  ASSUME NEW S, NEW q \in Seq(S), NEW m \in S, Len(q) <= Depth
  PROVE  /\ Keep(q, m) \in Seq(S)
         /\ Len(Keep(q, m)) <= Depth
         /\ InQueue(Keep(q, m)) \subseteq InQueue(q) \cup {m}
<1>1. CASE Len(q) < Depth
  <2>1. Keep(q, m) = Append(q, m)
    BY <1>1 DEF Keep
  <2> QED BY <1>1, <2>1, DepthAssumption DEF InQueue
<1>2. CASE ~ (Len(q) < Depth)
  <2>1. Keep(q, m) = Append(Tail(q), m)
    BY <1>2 DEF Keep
  <2>2. q # <<>>
    BY <1>2, DepthAssumption
  <2>3. /\ Tail(q) \in Seq(S) /\ Len(Tail(q)) = Len(q) - 1
        /\ \A n \in 1..(Len(q) - 1) : Tail(q)[n] = q[n + 1]
    BY <2>2
  <2> HIDE DEF Keep
  <2> DEFINE t == Tail(q)
  <2>4. t \in Seq(S) /\ Len(t) = Len(q) - 1 /\ InQueue(t) \subseteq InQueue(q)
    BY <2>3 DEF InQueue
  <2> HIDE DEF t
  <2>5. /\ Append(t, m) \in Seq(S) /\ Len(Append(t, m)) = Len(q)
        /\ InQueue(Append(t, m)) \subseteq InQueue(t) \cup {m}
    BY <2>4 DEF InQueue
  <2> QED BY <2>1, <2>4, <2>5 DEF t
<1> QED BY <1>1, <1>2

(* Taking a message leaves a queue of the others.                          *)
LEMMA TakeFacts ==
  ASSUME NEW S, NEW q \in Seq(S), q # <<>>
  PROVE  /\ Tail(q) \in Seq(S) /\ Len(Tail(q)) = Len(q) - 1
         /\ Head(q) \in S /\ Head(q) \in InQueue(q)
         /\ InQueue(Tail(q)) \subseteq InQueue(q)
BY DEF InQueue

(* The type invariant holds: in particular no queue outgrows its depth.    *)
THEOREM TypeCorrect == Spec => []TypeOK
<1>1. Init => TypeOK
  <2> SUFFICES ASSUME Init PROVE TypeOK
    OBVIOUS
  <2>1. <<>> \in Seq(BOOLEAN) /\ Len(<<>>) = 0
    OBVIOUS
  <2>2. /\ echoes \in Seq(BOOLEAN) /\ Len(echoes) <= Depth
        /\ status \in Seq(BOOLEAN) /\ Len(status) <= Depth
    BY <2>1, DepthAssumption DEF Init
  <2>3. keys \in 0..MaxKeys /\ external \in 0..MaxExternal
    BY EstopAssumption DEF Init
  <2> QED BY <2>2, <2>3 DEF Init, TypeOK
<1>2. TypeOK /\ [Next]_vars => TypeOK'
  <2> SUFFICES ASSUME TypeOK, [Next]_vars PROVE TypeOK'
    OBVIOUS
  <2> USE EstopAssumption DEF TypeOK
  <2>1. CASE Tick
    BY <2>1, KeepFacts DEF Tick, Publish
  <2>2. CASE OnExt
    <3>1. echoes # <<>> /\ echoes' = Tail(echoes) /\ stopped' = Head(echoes)
      BY <2>2 DEF OnExt
    <3>2. echoes' \in Seq(BOOLEAN) /\ Len(echoes') <= Depth /\ stopped' \in BOOLEAN
      BY <3>1, TakeFacts, DepthAssumption
    <3> QED BY <2>2, <3>2 DEF OnExt
  <2>3. CASE OnEstop
    <3>1. status # <<>> /\ status' = Tail(status) /\ consumer' = Head(status)
      BY <2>3 DEF OnEstop
    <3>2. status' \in Seq(BOOLEAN) /\ Len(status') <= Depth /\ consumer' \in BOOLEAN
      BY <3>1, TakeFacts, DepthAssumption
    <3> QED BY <2>3, <3>2 DEF OnEstop
  <2>4. ASSUME NEW engage \in BOOLEAN, PollKeys(engage) PROVE TypeOK'
    BY <2>4 DEF PollKeys
  <2>5. ASSUME NEW engage \in BOOLEAN, ExternalPublish(engage) PROVE TypeOK'
    BY <2>5, KeepFacts DEF ExternalPublish, Publish
  <2>6. CASE UNCHANGED vars
    BY <2>6 DEF vars
  <2> QED BY <2>1, <2>2, <2>3, <2>4, <2>5, <2>6 DEF Next
<1> QED BY <1>1, <1>2, PTL DEF Spec

(* A settled stop, or release, survives every step that is not a new       *)
(* command: echoes repeat the state, and taking one changes nothing.       *)
THEOREM StopSettles == Spec => SettledHolds
<1>1. TypeOK /\ [Next]_vars =>
        [Settled /\ UNCHANGED <<keys, external>>
           => Settled' /\ UNCHANGED stopped]_vars
  <2> SUFFICES ASSUME TypeOK, Next, Settled, UNCHANGED <<keys, external>>
               PROVE  Settled' /\ UNCHANGED stopped
    OBVIOUS
  <2>1. CASE Tick
    <3>1. /\ InQueue(echoes') \subseteq InQueue(echoes) \cup {stopped}
          /\ InQueue(status') \subseteq InQueue(status) \cup {stopped}
      BY <2>1, KeepFacts DEF Tick, Publish, TypeOK
    <3>2. stopped' = stopped
      BY <2>1 DEF Tick
    <3> QED BY <3>1, <3>2 DEF Settled, InQueue
  <2>2. CASE OnExt
    <3>1. /\ echoes # <<>> /\ echoes' = Tail(echoes)
          /\ stopped' = Head(echoes) /\ status' = status
      BY <2>2 DEF OnExt
    <3>2. /\ Head(echoes) \in InQueue(echoes)
          /\ InQueue(Tail(echoes)) \subseteq InQueue(echoes)
      BY <3>1, TakeFacts DEF TypeOK
    <3> QED BY <3>1, <3>2 DEF Settled, InQueue
  <2>3. CASE OnEstop
    <3>1. /\ status # <<>> /\ status' = Tail(status)
          /\ stopped' = stopped /\ echoes' = echoes
      BY <2>3 DEF OnEstop
    <3>2. InQueue(Tail(status)) \subseteq InQueue(status)
      BY <3>1, TakeFacts DEF TypeOK
    <3> QED BY <3>1, <3>2 DEF Settled, InQueue
  <2>4. ASSUME NEW engage \in BOOLEAN, PollKeys(engage) PROVE FALSE
    BY <2>4 DEF PollKeys, TypeOK
  <2>5. ASSUME NEW engage \in BOOLEAN, ExternalPublish(engage) PROVE FALSE
    BY <2>5 DEF ExternalPublish, TypeOK
  <2> QED BY <2>1, <2>2, <2>3, <2>4, <2>5 DEF Next
<1> QED BY <1>1, TypeCorrect, PTL DEF Spec, SettledHolds
=============================================================================
