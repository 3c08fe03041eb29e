---------------------- MODULE DescriptorSharing_proofs ----------------------
(***************************************************************************)
(* What a robot still owes is in its buffer and what it learned is never   *)
(* learned again, for any robots, keyframes, chunks and outages, with and  *)
(* without monitoring.  While all are in range, nothing is lost.           *)
(*                                                                         *)
(* Least and Greatest are choices: that they exist for the sets they are   *)
(* applied to comes from the well-foundedness of the naturals.  Of         *)
(* deletion the proof uses only that what it takes lies below what every   *)
(* other robot was marked as sent, not which keys it skips.                *)
(***************************************************************************)
EXTENDS DescriptorSharing, DataLemmas, FiniteSetTheorems

Mark == {-1} \cup Keyframe

----------------------------------------------------------------------------
(* Bounds of a set of marks.                                               *)

LEMMA LeastIs ==
  ASSUME NEW S \in SUBSET Mark, S # {}
  PROVE  Least(S) \in S /\ \A y \in S : Least(S) <= y
<1>1. \A x \in S : x \in Int /\ x + 1 \in Nat
  BY SharingAssumption DEF Mark, Keyframe
<1>2. \E x \in S : \A y \in S : x <= y
  <2> DEFINE T == {x + 1 : x \in S}
  <2>1. T \in SUBSET Nat /\ T # {}
    BY <1>1
  <2>2. PICK t \in T : \A u \in T : t <= u
    BY <2>1, LeastNatural
  <2>3. PICK x \in S : t = x + 1
    OBVIOUS
  <2>4. \A y \in S : x <= y
    BY <1>1, <2>2, <2>3
  <2> QED BY <2>4
<1> QED BY <1>2 DEF Least

LEMMA GreatestIs ==
  ASSUME NEW S \in SUBSET Mark, S # {}
  PROVE  Greatest(S) \in S /\ \A y \in S : y <= Greatest(S)
<1>1. \A x \in S : x \in Int /\ MaxKeyframes - x \in Nat
  BY SharingAssumption DEF Mark, Keyframe
<1>2. \E x \in S : \A y \in S : x >= y
  <2> DEFINE T == {MaxKeyframes - x : x \in S}
  <2>1. T \in SUBSET Nat /\ T # {}
    BY <1>1
  <2>2. PICK t \in T : \A u \in T : t <= u
    BY <2>1, LeastNatural
  <2>3. PICK x \in S : t = MaxKeyframes - x
    OBVIOUS
  <2>4. \A y \in S : x >= y
    BY <1>1, <2>2, <2>3, SharingAssumption
  <2> QED BY <2>4
<1>3. Greatest(S) \in S /\ \A y \in S : Greatest(S) >= y
  BY <1>2 DEF Greatest
<1> QED BY <1>1, <1>3

----------------------------------------------------------------------------
(* The publication.                                                        *)

(* Chunks are a sequence of sets of keyframes.                             *)
LEMMA ChunksType ==
  ASSUME NEW S \in SUBSET Keyframe, NEW start \in Int
  PROVE  Chunks(S, start) \in Seq(SUBSET Keyframe)
<1> DEFINE sent == {k \in S : k >= start}
           n == (Cardinality(sent) + ChunkSize - 1) \div ChunkSize
           part(c) == {k \in sent : (Rank(sent, k) - 1) \div ChunkSize = c - 1}
<1>1. Cardinality(sent) \in Nat
  <2>1. IsFiniteSet(Keyframe)
    BY FS_Interval, SharingAssumption DEF Keyframe
  <2>2. IsFiniteSet(sent)
    BY <2>1, FS_Subset
  <2> QED BY <2>2, FS_CardinalityType
<1>2. n \in Nat
  <2> HIDE DEF sent
  <2>1. Cardinality(sent) + ChunkSize - 1 \in Nat /\ ChunkSize \in Nat \ {0}
    BY <1>1, SharingAssumption
  <2> QED BY <2>1, Z3
<1>3. Chunks(S, start) = [c \in 1..n |-> part(c)]
  BY DEF Chunks
<1>4. \A c \in 1..n : part(c) \in SUBSET Keyframe
  OBVIOUS
<1> HIDE DEF n, part
<1>5. [c \in 1..n |-> part(c)] \in [1..n -> SUBSET Keyframe]
  BY <1>4
<1> QED BY <1>2, <1>3, <1>5

(* Deletion takes only keys below its bound.                               *)
LEMMA DeletedBelow ==
  ASSUME NEW S, NEW from
  PROVE  /\ DeleteUseless(S, from) \subseteq S
         /\ \A k \in S : k \notin DeleteUseless(S, from) => k < from
BY DEF DeleteUseless

----------------------------------------------------------------------------
(* The inductive invariant.                                                *)

Buffers ==
  /\ made \in [Robot -> 0..MaxKeyframes]
  /\ buffer \in [Robot -> SUBSET Keyframe]
  /\ DOMAIN lastSent = Robot
  /\ \A i \in Robot : lastSent[i] \in [Others(i) -> Mark]

Monitors ==
  /\ DOMAIN phase = Robot /\ DOMAIN recent = Robot
  /\ \A i \in Robot :
       /\ phase[i] \in [Others(i) -> {"unheard", "delay", "settled"}]
       /\ recent[i] \in [Others(i) -> BOOLEAN]

Listeners ==
  /\ DOMAIN lastReceived = Robot /\ DOMAIN channel = Robot
  /\ learned \in [Robot -> [Robot -> SUBSET Keyframe]]
  /\ \A i \in Robot :
       /\ lastReceived[i] \in [Others(i) -> Mark]
       /\ channel[i] \in [Others(i) -> Seq(SUBSET Keyframe)]

Links == inRange \subseteq Robot \X Robot /\ outages \in 0..MaxOutages

(* A robot's latest keyframe is always in its buffer: deletion leaves the  *)
(* greatest key, so nothing newer than the buffer is owed to anyone.       *)
LatestKept == \A i \in Robot : made[i] > 0 => made[i] - 1 \in buffer[i]

(* Keys are ids of keyframes that were made.                               *)
KeysMade == \A i \in Robot : \A k \in buffer[i] : k < made[i]

SharingInv == Buffers /\ Monitors /\ Listeners /\ Links
                /\ KeysMade /\ LatestKept /\ UnsentIsBuffered /\ NeverLearnedTwice

(* Publication starts at a number, whoever is alive.                       *)
LEMMA StartType ==
  ASSUME SharingInv, NEW i \in Robot, buffer[i] # {}, NEW alive \in SUBSET Others(i)
  PROVE  Start(i, alive) \in Int
<1> DEFINE marks == {lastSent[i][j] : j \in alive} \cup {Greatest(buffer[i])}
<1>1. /\ buffer[i] \in SUBSET Keyframe /\ Keyframe \subseteq Mark /\ Mark \subseteq Int
      /\ lastSent[i] \in [Others(i) -> Mark]
  BY SharingAssumption DEF SharingInv, Buffers, Mark, Keyframe
<1>2. Greatest(buffer[i]) \in buffer[i]
  BY <1>1, GreatestIs
<1>3. marks \in SUBSET Mark /\ marks # {}
  BY <1>1, <1>2
<1>4. Least(marks) \in Int /\ Least(buffer[i]) \in Int
  BY <1>1, <1>3, LeastIs
<1>5. Start(i, alive) = Least(marks) + 1 - Least(buffer[i])
  BY DEF Start
<1> HIDE DEF marks
<1> QED BY <1>4, <1>5

LEMMA SharingInit == Init => SharingInv
<1> SUFFICES ASSUME Init PROVE SharingInv
  OBVIOUS
<1>1. Buffers
  BY SharingAssumption DEF Init, Buffers, Mark
<1>2. Monitors
  BY DEF Init, Monitors
<1>3. Listeners
  BY DEF Init, Listeners, Mark
<1>4. Links
  BY SharingAssumption DEF Init, Links
<1>5. KeysMade /\ LatestKept /\ UnsentIsBuffered /\ NeverLearnedTwice
  BY DEF Init, KeysMade, LatestKept, UnsentIsBuffered, NeverLearnedTwice, Others
<1> QED BY <1>1, <1>2, <1>3, <1>4, <1>5 DEF SharingInv

LEMMA SharingAdd ==
  ASSUME SharingInv, NEW i \in Robot, AddGlobalDescriptor(i)
  PROVE  SharingInv'
<1> USE DEF AddGlobalDescriptor, monitorVars, linkVars
<1>1. Monitors' /\ Listeners' /\ Links' /\ NeverLearnedTwice'
  BY DEF SharingInv, Monitors, Listeners, Links, NeverLearnedTwice
<1>2. /\ made[i] \in Nat /\ made[i] \in Keyframe /\ made[i] + 1 \in 0..MaxKeyframes
      /\ MaxKeyframes \in Nat
  BY SharingAssumption DEF SharingInv, Buffers, Keyframe
<1>3. \A q \in Robot :
        \/ q # i /\ made'[q] = made[q] /\ buffer'[q] = buffer[q]
        \/ q = i /\ made'[q] = made[q] + 1 /\ buffer'[q] = buffer[q] \cup {made[q]}
  BY DEF SharingInv, Buffers
<1>4. Buffers'
  BY <1>2, <1>3 DEF SharingInv, Buffers
<1>5. LatestKept' /\ KeysMade'
  BY <1>2, <1>3 DEF SharingInv, LatestKept, KeysMade, Keyframe, Buffers
<1>6. ASSUME NEW q \in Robot, NEW j \in Others(q), NEW k \in 0..(made'[q] - 1),
             k > lastSent[q][j]
      PROVE  k \in buffer'[q]
  <2>1. CASE k \in 0..(made[q] - 1)
    <3>1. k \in buffer[q]
      BY <1>6, <2>1 DEF SharingInv, UnsentIsBuffered
    <3> QED BY <1>3, <3>1
  <2>2. CASE k \notin 0..(made[q] - 1)
    BY <1>2, <1>3, <2>2
  <2> QED BY <2>1, <2>2
<1>7. UnsentIsBuffered'
  BY <1>6 DEF UnsentIsBuffered
<1> QED BY <1>1, <1>4, <1>5, <1>7 DEF SharingInv

(* Heartbeats and delays change only what is known of a robot's liveness,  *)
(* moves only who is in range.                                             *)
LEMMA SharingMonitor ==
  ASSUME SharingInv, NEW i \in Robot, NEW j \in Others(i),
         HeartbeatCallback(i, j) \/ InitDelayEnds(i, j) \/ HeartbeatExpires(i, j)
  PROVE  SharingInv'
<1>1. UNCHANGED <<made, buffer, lastSent, lastReceived, learned, channel, linkVars>>
  BY DEF HeartbeatCallback, InitDelayEnds, HeartbeatExpires
<1>2. /\ \/ phase' = phase
         \/ \E x \in {"unheard", "delay", "settled"} : phase' = [phase EXCEPT ![i][j] = x]
      /\ \/ recent' = recent
         \/ \E x \in BOOLEAN : recent' = [recent EXCEPT ![i][j] = x]
  <2>1. phase[i][j] \in {"unheard", "delay", "settled"}
    BY DEF SharingInv, Monitors
  <2>2. CASE HeartbeatCallback(i, j)
    <3> DEFINE x == IF phase[i][j] = "unheard" THEN "delay" ELSE phase[i][j]
    <3>1. x \in {"unheard", "delay", "settled"} /\ phase' = [phase EXCEPT ![i][j] = x]
      BY <2>1, <2>2 DEF HeartbeatCallback
    <3> HIDE DEF x
    <3>2. recent' = [recent EXCEPT ![i][j] = TRUE]
      BY <2>2 DEF HeartbeatCallback
    <3> QED BY <3>1, <3>2
  <2>3. CASE InitDelayEnds(i, j)
    BY <2>3 DEF InitDelayEnds
  <2>4. CASE HeartbeatExpires(i, j)
    BY <2>4 DEF HeartbeatExpires
  <2> QED BY <2>2, <2>3, <2>4
<1>3. Monitors'
  <2>1. DOMAIN phase' = Robot /\ \A q \in Robot :
          phase'[q] \in [Others(q) -> {"unheard", "delay", "settled"}]
    BY <1>2 DEF SharingInv, Monitors
  <2>2. DOMAIN recent' = Robot /\ \A q \in Robot : recent'[q] \in [Others(q) -> BOOLEAN]
    BY <1>2 DEF SharingInv, Monitors
  <2> QED BY <2>1, <2>2 DEF Monitors
<1>4. (Buffers /\ Listeners /\ Links /\ KeysMade /\ LatestKept /\ UnsentIsBuffered
         /\ NeverLearnedTwice)'
  BY <1>1 DEF SharingInv, Buffers, Listeners, Links, KeysMade, LatestKept, UnsentIsBuffered,
     NeverLearnedTwice, linkVars
<1> QED BY <1>3, <1>4 DEF SharingInv

LEMMA SharingMove ==
  ASSUME SharingInv, NEW i \in Robot, NEW j \in Others(i),
         GoOutOfRange(i, j) \/ ComeInRange(i, j)
  PROVE  SharingInv'
<1>1. UNCHANGED <<made, buffer, phase, recent, lastSent, lastReceived, learned, channel>>
  BY DEF GoOutOfRange, ComeInRange, monitorVars
<1>2. Links'
  BY SharingAssumption DEF GoOutOfRange, ComeInRange, SharingInv, Links, Others
<1>3. (Buffers /\ Monitors /\ Listeners /\ KeysMade /\ LatestKept /\ UnsentIsBuffered
         /\ NeverLearnedTwice)'
  BY <1>1 DEF SharingInv, Buffers, Monitors, Listeners, KeysMade, LatestKept, UnsentIsBuffered,
     NeverLearnedTwice
<1> QED BY <1>2, <1>3 DEF SharingInv

(* The timer marks some robots as sent everything and deletes below what   *)
(* all were sent; the greatest key stays.                                  *)
LEMMA SharingTimer ==
  ASSUME SharingInv, NEW i \in Robot, GlobalDescriptorsTimerCallback(i)
  PROVE  SharingInv'
<1>1. PICK settle \in SUBSET Others(i), lapse \in SUBSET Others(i),
           alive \in SUBSET Others(i), later \in SUBSET Others(i) :
        /\ lastSent' = [lastSent EXCEPT ![i] = Marked(i, later)]
        /\ phase' = [phase EXCEPT ![i] =
             [j \in Others(i) |-> IF j \in settle THEN "settled" ELSE @[j]]]
        /\ recent' = [recent EXCEPT ![i] =
             [j \in Others(i) |-> @[j] /\ j \notin lapse]]
        /\ channel' = [channel EXCEPT ![i] =
             [j \in Others(i) |->
                IF <<i, j>> \in inRange THEN @[j] \o Chunks(buffer[i], Start(i, alive))
                                       ELSE @[j]]]
        /\ buffer' = [buffer EXCEPT ![i] =
             DeleteUseless(@, Useless(i, Marked(i, later)))]
  <2>1. PICK settle \in SUBSET {j \in Others(i) : TimePasses /\ phase[i][j] = "delay"},
             lapse \in SUBSET {j \in Others(i) : /\ TimePasses /\ recent[i][j]
                                                /\ <<i, j>> \notin inRange} :
        LET alive == {j \in Others(i) : IsAlive(i, j)}
            later == (alive \cup {j \in settle : Monitoring /\ recent[i][j]}) \ lapse
            msgs  == Chunks(buffer[i], Start(i, alive))
        IN /\ lastSent' = [lastSent EXCEPT ![i] = Marked(i, later)]
           /\ phase' = [phase EXCEPT ![i] =
                [j \in Others(i) |-> IF j \in settle THEN "settled" ELSE @[j]]]
           /\ recent' = [recent EXCEPT ![i] =
                [j \in Others(i) |-> @[j] /\ j \notin lapse]]
           /\ channel' = [channel EXCEPT ![i] =
                [j \in Others(i) |->
                   IF <<i, j>> \in inRange THEN @[j] \o msgs ELSE @[j]]]
           /\ buffer' = [buffer EXCEPT ![i] =
                DeleteUseless(@, Useless(i, Marked(i, later)))]
    BY Zenon DEF GlobalDescriptorsTimerCallback
  <2> DEFINE alive == {j \in Others(i) : IsAlive(i, j)}
             later == (alive \cup {j \in settle : Monitoring /\ recent[i][j]}) \ lapse
  <2>2. settle \in SUBSET Others(i) /\ lapse \in SUBSET Others(i)
    OBVIOUS
  <2>3. alive \in SUBSET Others(i) /\ later \in SUBSET Others(i)
    OBVIOUS
  <2> QED BY <2>1, <2>2, <2>3, Zenon
<1>2. UNCHANGED <<made, lastReceived, learned, inRange, outages>> /\ buffer[i] # {}
  BY DEF GlobalDescriptorsTimerCallback, linkVars
<1> DEFINE top == Greatest(buffer[i])
           sent == Marked(i, later)
           from == Useless(i, sent)
           keep == DeleteUseless(buffer[i], from)
           msgs == Chunks(buffer[i], Start(i, alive))
<1>3. buffer[i] \in SUBSET Keyframe /\ Keyframe \subseteq Mark /\ Mark \subseteq Int
      /\ lastSent[i] \in [Others(i) -> Mark]
  BY SharingAssumption DEF SharingInv, Buffers, Mark, Keyframe
<1>4. top \in buffer[i] /\ top \in Int /\ \A k \in buffer[i] : k <= top
  BY <1>2, <1>3, GreatestIs
<1>5. sent \in [Others(i) -> Mark]
      /\ \A j \in Others(i) : sent[j] = top \/ sent[j] = lastSent[i][j]
  BY <1>3, <1>4 DEF Marked
<1>6. from \in Int /\ from <= top /\ \A j \in Others(i) : from <= sent[j]
  <2> DEFINE marks == {sent[j] : j \in Others(i)} \cup {top}
  <2> HIDE DEF sent, top
  <2>1. marks \in SUBSET Mark /\ marks # {}
    BY <1>3, <1>4, <1>5
  <2>2. Least(marks) \in marks /\ \A y \in marks : Least(marks) <= y
    BY <2>1, LeastIs
  <2>3. from = Least(marks)
    BY DEF Useless, top
  <2> QED BY <1>3, <2>1, <2>2, <2>3
<1>7. keep \subseteq buffer[i] /\ \A k \in buffer[i] : k \notin keep => k < from
  BY DeletedBelow
<1>8. msgs \in Seq(SUBSET Keyframe)
  <2> DEFINE marks == {lastSent[i][j] : j \in alive} \cup {top}
  <2>1. marks \in SUBSET Mark /\ marks # {}
    BY <1>3, <1>4
  <2>2. Least(marks) \in Int /\ Least(buffer[i]) \in Int
    BY <1>2, <1>3, <2>1, LeastIs
  <2>3. Start(i, alive) = Least(marks) + 1 - Least(buffer[i])
    BY DEF Start
  <2> HIDE DEF marks
  <2>4. Start(i, alive) \in Int
    BY <2>2, <2>3
  <2> QED BY <1>3, <2>4, ChunksType
<1>9. /\ lastSent' = [lastSent EXCEPT ![i] = sent]
      /\ buffer' = [buffer EXCEPT ![i] = keep]
      /\ channel' = [channel EXCEPT ![i] =
           [j \in Others(i) |-> IF <<i, j>> \in inRange THEN channel[i][j] \o msgs
                                                        ELSE channel[i][j]]]
  BY <1>1
<1> HIDE DEF top, sent, from, keep, msgs
<1>10. Buffers'
  BY <1>2, <1>3, <1>5, <1>7, <1>9 DEF SharingInv, Buffers
<1>11. Monitors'
  BY <1>1 DEF SharingInv, Monitors
<1>12. Listeners'
  <2> DEFINE c == [j \in Others(i) |-> IF <<i, j>> \in inRange THEN channel[i][j] \o msgs
                                                              ELSE channel[i][j]]
  <2>1. c \in [Others(i) -> Seq(SUBSET Keyframe)]
    BY <1>8 DEF SharingInv, Listeners
  <2> HIDE DEF c
  <2>2. channel' = [channel EXCEPT ![i] = c]
    BY <1>9 DEF c
  <2> QED BY <1>2, <2>1, <2>2 DEF SharingInv, Listeners
<1>13. LatestKept'
  <2>1. ASSUME made[i] > 0
        PROVE  made[i] - 1 \in keep
    <3>1. made[i] - 1 \in buffer[i] /\ made[i] \in Nat
      BY <2>1 DEF SharingInv, LatestKept, Buffers
    <3>2. top < made[i]
      <4>1. \A k \in buffer[i] : k < made[i]
        BY DEF SharingInv, KeysMade
      <4> QED BY <1>4, <4>1
    <3>3. ~ (made[i] - 1 < from)
      BY <1>4, <1>6, <3>1, <3>2
    <3> QED BY <1>7, <3>1, <3>3
  <2> QED BY <1>2, <1>9, <2>1 DEF SharingInv, LatestKept, Buffers
<1>14. UnsentIsBuffered'
  <2>1. ASSUME NEW j \in Others(i), NEW k \in 0..(made[i] - 1), k > sent[j]
        PROVE  k \in keep
    <3>1. k \in buffer[i]
      <4>1. CASE sent[j] = lastSent[i][j]
        BY <2>1, <4>1 DEF SharingInv, UnsentIsBuffered
      <4>2. CASE sent[j] = top
        <5>1. made[i] \in Nat /\ made[i] - 1 \in buffer[i]
          BY DEF SharingInv, Buffers, LatestKept
        <5> QED BY <1>4, <2>1, <4>2, <5>1
      <4> QED BY <1>5, <4>1, <4>2
    <3>2. ~ (k < from)
      <4>1. sent[j] \in Int /\ from \in Int /\ from <= sent[j]
        BY <1>3, <1>5, <1>6
      <4>2. made[i] \in Nat
        BY DEF SharingInv, Buffers
      <4> QED BY <2>1, <4>1, <4>2
    <3> QED BY <1>7, <3>1, <3>2
  <2>2. ASSUME NEW q \in Robot \ {i}
        PROVE  lastSent'[q] = lastSent[q] /\ buffer'[q] = buffer[q]
    BY <1>9 DEF SharingInv, Buffers
  <2>3. lastSent'[i] = sent /\ buffer'[i] = keep
    BY <1>9 DEF SharingInv, Buffers
  <2> QED BY <1>2, <2>1, <2>2, <2>3 DEF SharingInv, UnsentIsBuffered
<1>15. Links' /\ NeverLearnedTwice'
  BY <1>2 DEF SharingInv, Links, NeverLearnedTwice
<1>16. KeysMade'
  BY <1>2, <1>7, <1>9 DEF SharingInv, KeysMade, Buffers
<1> QED BY <1>10, <1>11, <1>12, <1>13, <1>14, <1>15, <1>16 DEF SharingInv

(* What j learns is raised into its mark with it.                          *)
LEMMA SharingReceive ==
  ASSUME SharingInv, NEW j \in Robot, NEW i \in Robot, j \in Others(i),
         GlobalDescriptorCallback(j, i)
  PROVE  SharingInv'
<1> DEFINE msg == Head(channel[i][j])
           known == lastReceived[j][i]
           new == {k \in msg : k > known}
           mark == Received(msg, known)
<1>1. /\ channel[i][j] # <<>>
      /\ learned' = [learned EXCEPT ![j][i] = learned[j][i] \cup new]
      /\ lastReceived' = [lastReceived EXCEPT ![j][i] = mark]
      /\ channel' = [channel EXCEPT ![i][j] = Tail(channel[i][j])]
      /\ UNCHANGED <<made, buffer, phase, recent, lastSent, inRange, outages>>
  BY DEF GlobalDescriptorCallback, monitorVars, linkVars
<1>2. i \in Others(j) /\ channel[i][j] \in Seq(SUBSET Keyframe)
  BY DEF SharingInv, Listeners, Others
<1>3. msg \in SUBSET Keyframe /\ Tail(channel[i][j]) \in Seq(SUBSET Keyframe)
  BY <1>1, <1>2
<1>4. known \in Mark /\ Keyframe \subseteq Mark /\ Mark \subseteq Int
  BY <1>2, SharingAssumption DEF SharingInv, Listeners, Mark, Keyframe
<1>5. mark \in Mark /\ known <= mark /\ \A k \in msg : k <= mark
  <2>1. msg \cup {known} \in SUBSET Mark /\ msg \cup {known} # {}
    BY <1>3, <1>4
  <2> QED BY <2>1, GreatestIs DEF Received
<1>6. new \in SUBSET Keyframe /\ \A k \in new : k <= mark
  BY <1>3, <1>5
<1> HIDE DEF msg, known, new, mark
<1>7. Listeners'
  BY <1>1, <1>2, <1>3, <1>5, <1>6 DEF SharingInv, Listeners
<1>8. ASSUME NEW p \in Robot, NEW q \in Others(p), NEW k \in learned'[p][q]
      PROVE  k <= lastReceived'[p][q]
  <2>1. CASE p = j /\ q = i
    <3>1. learned'[p][q] = learned[j][i] \cup new /\ lastReceived'[p][q] = mark
      BY <1>1, <1>2, <2>1 DEF SharingInv, Listeners
    <3>2. CASE k \in new
      BY <1>6, <3>1, <3>2
    <3>3. CASE k \in learned[j][i]
      <4>1. k <= known /\ k \in Keyframe
        BY <1>2, <3>3 DEF SharingInv, NeverLearnedTwice, Listeners, known
      <4> QED BY <1>4, <1>5, <3>1, <4>1
    <3> QED BY <1>8, <3>1, <3>2, <3>3
  <2>2. CASE ~ (p = j /\ q = i)
    <3>1. learned'[p][q] = learned[p][q] /\ lastReceived'[p][q] = lastReceived[p][q]
      BY <1>1, <1>2, <2>2 DEF SharingInv, Listeners, Others
    <3> QED BY <1>8, <3>1 DEF SharingInv, NeverLearnedTwice
  <2> QED BY <2>1, <2>2
<1>9. NeverLearnedTwice'
  BY <1>8 DEF NeverLearnedTwice
<1>10. (Buffers /\ Monitors /\ Links /\ KeysMade /\ LatestKept /\ UnsentIsBuffered)'
  BY <1>1 DEF SharingInv, Buffers, Monitors, Links, KeysMade, LatestKept, UnsentIsBuffered
<1> QED BY <1>7, <1>9, <1>10 DEF SharingInv

LEMMA NextSharing ==
  ASSUME SharingInv, [Next]_vars
  PROVE  SharingInv'
<1>1. CASE UNCHANGED vars
  BY <1>1 DEF vars, monitorVars, linkVars, SharingInv, Buffers, Monitors, Listeners,
     Links, KeysMade, LatestKept, UnsentIsBuffered, NeverLearnedTwice
<1>2. ASSUME NEW i \in Robot, NEW j \in Others(i), GlobalDescriptorCallback(i, j)
      PROVE  SharingInv'
  BY <1>2, SharingReceive DEF Others
<1> QED
  BY <1>1, <1>2, SharingAdd, SharingTimer, SharingMonitor, SharingMove DEF Next

LEMMA SharingAlways == Spec => []SharingInv
BY SharingInit, NextSharing, PTL DEF Spec

(* Every variable keeps its type.                                          *)
THEOREM TypeCorrect == Spec => []TypeOK
<1>1. SharingInv => TypeOK
  <2> SUFFICES ASSUME SharingInv PROVE TypeOK
    OBVIOUS
  <2>1. ASSUME NEW i \in Robot, NEW j \in Others(i), NEW n \in 1..Len(channel[i][j])
        PROVE  channel[i][j][n] \in SUBSET Keyframe
    <3>1. channel[i][j] \in Seq(SUBSET Keyframe)
      BY DEF SharingInv, Listeners
    <3> QED BY <3>1
  <2> QED BY <2>1 DEF TypeOK, SharingInv, Buffers, Monitors, Listeners, Links, Mark
<1> QED BY <1>1, SharingAlways, PTL

(* A descriptor not yet marked as sent to some robot is still buffered,    *)
(* whoever is out of range or never heard of, and however many keys a      *)
(* deletion skips.                                                         *)
THEOREM UnsentStays == Spec => []UnsentIsBuffered
<1>1. SharingInv => UnsentIsBuffered
  BY DEF SharingInv
<1> QED BY <1>1, SharingAlways, PTL

(* All a robot learned lies below the mark it filters by, so nothing is    *)
(* learned twice, whatever is published again and in whatever chunks.      *)
THEOREM LearnedOnce == Spec => []NeverLearnedTwice
<1>1. SharingInv => NeverLearnedTwice
  BY DEF SharingInv
<1> QED BY <1>1, SharingAlways, PTL

----------------------------------------------------------------------------
(* Division of a publication into chunks.                                  *)

LEMMA DivOrder ==
  ASSUME NEW a \in Nat, NEW b \in Nat, NEW c \in Nat \ {0}, a <= b
  PROVE  a \div c \in Nat /\ b \div c \in Nat /\ a \div c <= b \div c
BY Z3

LEMMA DivShift ==
  ASSUME NEW a \in Nat, NEW c \in Nat \ {0}
  PROVE  (a + c) \div c = a \div c + 1
BY Z3

(* A key's rank is at least 1, at most the size, and grows with the key.   *)
LEMMA RankOrder ==
  ASSUME NEW S \in SUBSET Keyframe, NEW k \in S, NEW m \in S, k <= m
  PROVE  /\ Cardinality(S) \in Nat /\ Rank(S, k) \in Nat /\ Rank(S, m) \in Nat
         /\ 1 <= Rank(S, k) /\ Rank(S, k) <= Rank(S, m) /\ Rank(S, m) <= Cardinality(S)
<1> DEFINE K == {x \in S : x <= k}
           M == {x \in S : x <= m}
<1>1. IsFiniteSet(S)
  <2>1. IsFiniteSet(Keyframe)
    BY FS_Interval, SharingAssumption DEF Keyframe
  <2> QED BY <2>1, FS_Subset
<1>2. K \subseteq M /\ M \subseteq S /\ {k} \subseteq K
  <2>1. \A x \in S : x \in Int
    BY SharingAssumption DEF Keyframe
  <2> QED BY <2>1
<1>3. Rank(S, k) = Cardinality(K) /\ Rank(S, m) = Cardinality(M)
  BY DEF Rank
<1> HIDE DEF K, M
<1>4. IsFiniteSet(K) /\ IsFiniteSet(M)
  BY <1>1, <1>2, FS_Subset
<1>5. Cardinality(K) <= Cardinality(M) /\ Cardinality(M) <= Cardinality(S)
  BY <1>1, <1>2, <1>4, FS_Subset
<1>6. Cardinality({k}) = 1 /\ Cardinality({k}) <= Cardinality(K)
  BY <1>2, <1>4, FS_Singleton, FS_Subset
<1>7. Cardinality(K) \in Nat /\ Cardinality(M) \in Nat /\ Cardinality(S) \in Nat
  BY <1>1, <1>4, FS_CardinalityType
<1> QED BY <1>3, <1>5, <1>6, <1>7

(* Each key from start on is in one of the chunks, each chunk holds such   *)
(* keys, and smaller ones come no later.                                   *)
LEMMA ChunksHold ==
  ASSUME NEW S \in SUBSET Keyframe, NEW start \in Int
  PROVE  LET msgs == Chunks(S, start) IN
         /\ \A k \in S : k >= start => \E c \in 1..Len(msgs) : k \in msgs[c]
         /\ \A c \in 1..Len(msgs) : \A m \in msgs[c] :
              /\ m \in S /\ m >= start
              /\ \A k \in S : k >= start /\ k <= m =>
                   \E b \in 1..Len(msgs) : b <= c /\ k \in msgs[b]
<1> DEFINE sent == {k \in S : k >= start}
           n == (Cardinality(sent) + ChunkSize - 1) \div ChunkSize
           at(k) == ((Rank(sent, k) - 1) \div ChunkSize) + 1
           msgs == Chunks(S, start)
<1>1. sent \in SUBSET Keyframe
  OBVIOUS
<1>2. \A c \in 1..n : msgs[c] = {k \in sent : (Rank(sent, k) - 1) \div ChunkSize = c - 1}
  BY DEF Chunks
<1>3. ASSUME NEW k \in sent, NEW m \in sent, k <= m
      PROVE  /\ at(k) \in 1..n /\ at(m) \in 1..n /\ at(k) <= at(m) /\ n \in Nat
             /\ (Rank(sent, k) - 1) \div ChunkSize \in Nat
  <2> DEFINE a == Rank(sent, k) - 1
             b == Rank(sent, m) - 1
             z == Cardinality(sent) - 1
  <2> HIDE DEF sent
  <2>1. a \in Nat /\ b \in Nat /\ z \in Nat /\ a <= b /\ b <= z
    BY <1>1, <1>3, RankOrder
  <2>2. Cardinality(sent) + ChunkSize - 1 = z + ChunkSize
    BY <1>1, <1>3, RankOrder, SharingAssumption
  <2> HIDE DEF a, b, z
  <2>3. /\ a \div ChunkSize \in Nat /\ b \div ChunkSize \in Nat /\ z \div ChunkSize \in Nat
        /\ a \div ChunkSize <= b \div ChunkSize /\ b \div ChunkSize <= z \div ChunkSize
    BY <2>1, DivOrder, SharingAssumption
  <2>4. n = z \div ChunkSize + 1
    BY <2>1, <2>2, DivShift, SharingAssumption
  <2>5. at(k) = a \div ChunkSize + 1 /\ at(m) = b \div ChunkSize + 1
    BY DEF a, b
  <2>6. (Rank(sent, k) - 1) \div ChunkSize = a \div ChunkSize
    BY DEF a
  <2> HIDE DEF n, at
  <2> QED BY <2>3, <2>4, <2>5, <2>6
<1>4. Len(msgs) = n \/ sent = {}
  <2> SUFFICES ASSUME NEW k \in sent PROVE Len(msgs) = n
    OBVIOUS
  <2>1. n \in Nat
    <3>1. k \in Int
      BY <1>1, SharingAssumption DEF Keyframe
    <3> HIDE DEF sent, n, at
    <3> QED BY <1>3, <3>1
  <2>2. DOMAIN msgs = 1..n
    BY DEF Chunks
  <2>3. msgs \in Seq(SUBSET Keyframe)
    BY ChunksType
  <2> HIDE DEF n, msgs
  <2> QED BY <2>1, <2>2, <2>3
<1>5. ASSUME NEW k \in sent
      PROVE  at(k) \in 1..Len(msgs) /\ k \in msgs[at(k)]
  <2>1. k \in Int
    BY <1>1, SharingAssumption DEF Keyframe
  <2> HIDE DEF sent, n, msgs
  <2>2. Len(msgs) = n
    BY <1>4
  <2>3. at(k) \in 1..n /\ (Rank(sent, k) - 1) \div ChunkSize \in Nat
    BY <1>3, <2>1
  <2>4. (Rank(sent, k) - 1) \div ChunkSize = at(k) - 1
    BY <2>3
  <2> HIDE DEF at
  <2> QED BY <1>2, <2>2, <2>3, <2>4
<1>6. ASSUME NEW c \in 1..Len(msgs), NEW m \in msgs[c]
      PROVE  m \in sent /\ at(m) = c
  <2> HIDE DEF msgs
  <2>1. c \in DOMAIN msgs
    <3>1. msgs \in Seq(SUBSET Keyframe)
      BY ChunksType DEF msgs
    <3> QED BY <3>1
  <2>2. DOMAIN msgs = 1..n
    BY DEF msgs, Chunks
  <2>3. m \in sent /\ (Rank(sent, m) - 1) \div ChunkSize = c - 1
    BY <1>2, <1>6, <2>1, <2>2
  <2>4. c \in Int
    OBVIOUS
  <2> QED BY <2>3, <2>4
<1>7. \A k \in S : k >= start => \E c \in 1..Len(msgs) : k \in msgs[c]
  <2>1. \A k \in S : k >= start => k \in sent
    OBVIOUS
  <2> HIDE DEF sent, msgs, at
  <2> QED BY <1>5, <2>1
<1>8. ASSUME NEW c \in 1..Len(msgs), NEW m \in msgs[c]
      PROVE  /\ m \in S /\ m >= start
             /\ \A k \in S : k >= start /\ k <= m =>
                  \E b \in 1..Len(msgs) : b <= c /\ k \in msgs[b]
  <2>1. m \in sent /\ at(m) = c
    BY <1>6
  <2>2. ASSUME NEW k \in S, k >= start, k <= m
        PROVE  \E b \in 1..Len(msgs) : b <= c /\ k \in msgs[b]
    <3>1. k \in sent
      BY <2>2
    <3> HIDE DEF sent, msgs, n, at
    <3>2. at(k) \in 1..Len(msgs) /\ k \in msgs[at(k)] /\ at(k) <= at(m)
      BY <1>3, <1>5, <2>1, <2>2, <3>1
    <3> QED BY <2>1, <3>2
  <2> QED BY <2>1, <2>2
<1> HIDE DEF msgs
<1> QED BY <1>7, <1>8 DEF msgs

----------------------------------------------------------------------------
(* No descriptor is lost while all are in range.                           *)

(* Nobody moves away and no delay runs out inside a selection.             *)
Quiet == MaxOutages = 0 /\ ~TimePasses

(* k of i is learned by j or on its way.                                   *)
Got(i, j, k) ==
  \/ k \in learned[j][i]
  \/ \E n \in 1..Len(channel[i][j]) : k \in channel[i][j][n]

InReach ==
  \A i \in Robot : \A j \in Others(i) : <<i, j>> \in inRange /\ recent[i][j]

(* Who was marked once is alive from then on.                              *)
MarkedAlive ==
  \A i \in Robot : \A j \in Others(i) : lastSent[i][j] >= 0 => IsAlive(i, j)

(* What one robot was sent, all were.                                      *)
SentToAll ==
  \A i \in Robot : \A x, j \in Others(i) : \A k \in 0..lastSent[i][x] : Got(i, j, k)

(* Before a descriptor come those with lower ids.                          *)
InOrder ==
  \A i \in Robot : \A j \in Others(i) : \A n \in 1..Len(channel[i][j]) :
    \A m \in channel[i][j][n] : \A k \in Keyframe : k <= m =>
      \/ k \in learned[j][i]
      \/ \E b \in 1..Len(channel[i][j]) : b <= n /\ k \in channel[i][j][b]

NoGaps ==
  \A i \in Robot : \A j \in Others(i) : \A k \in 0..lastReceived[j][i] :
    k \in learned[j][i]

DeliveryInv == InReach /\ MarkedAlive /\ SentToAll /\ InOrder /\ NoGaps

LEMMA DeliveryInit == Init => DeliveryInv
<1> SUFFICES ASSUME Init PROVE DeliveryInv
  OBVIOUS
<1>1. InReach /\ MarkedAlive
  BY DEF Init, InReach, MarkedAlive, Others
<1>2. \A i \in Robot : \A j \in Others(i) :
        /\ channel[i][j] = <<>> /\ lastSent[i][j] = -1
        /\ j \in Robot /\ i \in Others(j) /\ lastReceived[j][i] = -1
  BY DEF Init, Others
<1>3. SentToAll /\ InOrder /\ NoGaps
  BY <1>2 DEF SentToAll, InOrder, NoGaps
<1> QED BY <1>1, <1>3 DEF DeliveryInv

(* Steps that neither publish nor take a message.                          *)
LEMMA DeliveryOther ==
  ASSUME DeliveryInv,
         UNCHANGED <<lastSent, lastReceived, learned, channel>>,
         \A i \in Robot : \A j \in Others(i) :
           /\ <<i, j>> \in inRange /\ recent[i][j] => <<i, j>> \in inRange' /\ recent'[i][j]
           /\ phase[i][j] = "settled" => phase'[i][j] = "settled"
  PROVE  DeliveryInv'
<1>1. InReach'
  BY DEF DeliveryInv, InReach
<1>2. MarkedAlive'
  BY <1>1 DEF DeliveryInv, InReach, MarkedAlive, IsAlive
<1>3. (SentToAll /\ InOrder /\ NoGaps)'
  BY DEF DeliveryInv, SentToAll, InOrder, NoGaps, Got
<1> QED BY <1>1, <1>2, <1>3 DEF DeliveryInv

LEMMA ConcatAt ==
  ASSUME NEW S, NEW s \in Seq(S), NEW t \in Seq(S)
  PROVE  /\ \A n \in 1..Len(s) : n \in 1..Len(s \o t) /\ (s \o t)[n] = s[n]
         /\ \A c \in 1..Len(t) : Len(s) + c \in 1..Len(s \o t) /\ (s \o t)[Len(s) + c] = t[c]
         /\ \A n \in 1..Len(s \o t) : n \in 1..Len(s) \/ n - Len(s) \in 1..Len(t)
OBVIOUS

(* A publication leaves no gap: what it omits was sent to everybody        *)
(* before.  If nobody is alive and something is still owed, the whole      *)
(* buffer is, the first key is 0 and nothing is published.                 *)
LEMMA Omitted ==
  ASSUME SharingInv, DeliveryInv, NEW i \in Robot, buffer[i] # {},
         NEW alive, alive = {j \in Others(i) : IsAlive(i, j)},
         NEW j \in Others(i), NEW k \in Keyframe, k <= Greatest(buffer[i]),
         k < Start(i, alive) \/ k \notin buffer[i],
         alive # {} \/ Start(i, alive) <= Greatest(buffer[i])
  PROVE  Got(i, j, k)
<1> DEFINE top == Greatest(buffer[i])
           marks == {lastSent[i][x] : x \in alive} \cup {top}
           start == Start(i, alive)
<1>1. /\ buffer[i] \in SUBSET Keyframe /\ Keyframe \subseteq Mark /\ Mark \subseteq Int
      /\ Keyframe \subseteq Nat
      /\ lastSent[i] \in [Others(i) -> Mark] /\ made[i] \in Nat
  BY SharingAssumption DEF SharingInv, Buffers, Mark, Keyframe
<1>2. top \in buffer[i] /\ \A m \in buffer[i] : m <= top
  BY <1>1, GreatestIs
<1>3. Least(buffer[i]) \in buffer[i] /\ \A m \in buffer[i] : Least(buffer[i]) <= m
  BY <1>1, LeastIs
<1>4. /\ top \in Nat /\ k \in Nat /\ k <= top /\ Least(buffer[i]) \in Nat
      /\ \A x \in Others(i) : lastSent[i][x] \in Int
  BY <1>1, <1>2, <1>3
<1>5. k \in 0..(made[i] - 1)
  <2>1. top < made[i]
    BY <1>2 DEF SharingInv, KeysMade
  <2> QED BY <1>1, <1>4, <2>1
<1>6. marks \in SUBSET Mark /\ marks # {}
  BY <1>1, <1>2
<1>7. start = Least(marks) + 1 - Least(buffer[i])
  BY DEF Start
<1>8. Least(marks) \in marks /\ \A y \in marks : Least(marks) <= y
  <2> HIDE DEF marks
  <2> QED BY <1>6, LeastIs
<1> HIDE DEF top, start
<1>9. CASE k \notin buffer[i]
  <2>1. ~ (k > lastSent[i][j])
    BY <1>5, <1>9 DEF SharingInv, UnsentIsBuffered
  <2>2. k \in 0..lastSent[i][j]
    BY <1>4, <2>1
  <2> QED BY <2>2 DEF DeliveryInv, SentToAll
<1>10. CASE k \in buffer[i] /\ alive # {}
  <2>1. PICK a \in alive : TRUE
    BY <1>10
  <2>2. a \in Others(i) /\ lastSent[i][a] \in marks /\ lastSent[i][a] \in Int
    BY <1>1, <2>1
  <2>3. k < start
    BY <1>10 DEF start
  <2>4. k <= lastSent[i][a]
    <3>1. Least(marks) \in Int /\ Least(marks) <= lastSent[i][a] /\ Least(buffer[i]) \in Nat
      BY <1>1, <1>3, <1>6, <1>8, <2>2
    <3> HIDE DEF marks
    <3> QED BY <1>1, <1>7, <2>2, <2>3, <3>1
  <2>5. k \in 0..lastSent[i][a]
    BY <1>1, <2>2, <2>4
  <2> QED BY <2>2, <2>5 DEF DeliveryInv, SentToAll
<1>11. CASE k \in buffer[i] /\ alive = {}
  <2>1. marks = {top}
    BY <1>11
  <2>2. lastSent[i][j] < 0
    <3>1. ~ IsAlive(i, j)
      BY <1>11
    <3> QED BY <1>4, <3>1 DEF DeliveryInv, MarkedAlive
  <2>3. 0 \in buffer[i]
    <3>1. 0 \in 0..(made[i] - 1) /\ 0 > lastSent[i][j]
      BY <1>1, <1>5, <2>2
    <3> QED BY <3>1 DEF SharingInv, UnsentIsBuffered
  <2>4. Least(buffer[i]) = 0
    BY <1>4, <1>3, <2>3
  <2>5. start = top + 1
    BY <1>4, <1>7, <1>8, <2>1, <2>4
  <2>6. start <= top
    BY <1>11 DEF start, top
  <2> QED BY <1>4, <2>5, <2>6
<1> QED BY <1>9, <1>10, <1>11

LEMMA DeliveryTimer ==
  ASSUME Quiet, SharingInv, DeliveryInv, NEW i \in Robot,
         GlobalDescriptorsTimerCallback(i)
  PROVE  DeliveryInv'
<1> DEFINE alive == {j \in Others(i) : IsAlive(i, j)}
           start == Start(i, alive)
           msgs == Chunks(buffer[i], start)
           top == Greatest(buffer[i])
<1>1. /\ lastSent' = [lastSent EXCEPT ![i] = Marked(i, alive)]
      /\ phase' = [phase EXCEPT ![i] = [j \in Others(i) |-> @[j]]]
      /\ recent' = [recent EXCEPT ![i] = [j \in Others(i) |-> @[j]]]
      /\ channel' = [channel EXCEPT ![i] =
           [j \in Others(i) |-> IF <<i, j>> \in inRange THEN @[j] \o msgs ELSE @[j]]]
  <2> DEFINE later(settle, lapse) ==
        (alive \cup {j \in settle : Monitoring /\ recent[i][j]}) \ lapse
  <2>1. PICK settle \in SUBSET {j \in Others(i) : TimePasses /\ phase[i][j] = "delay"},
             lapse \in SUBSET {j \in Others(i) : /\ TimePasses /\ recent[i][j]
                                                /\ <<i, j>> \notin inRange} :
        /\ lastSent' = [lastSent EXCEPT ![i] = Marked(i, later(settle, lapse))]
        /\ phase' = [phase EXCEPT ![i] =
             [j \in Others(i) |-> IF j \in settle THEN "settled" ELSE @[j]]]
        /\ recent' = [recent EXCEPT ![i] =
             [j \in Others(i) |-> @[j] /\ j \notin lapse]]
        /\ channel' = [channel EXCEPT ![i] =
             [j \in Others(i) |-> IF <<i, j>> \in inRange THEN @[j] \o msgs ELSE @[j]]]
    BY Zenon DEF GlobalDescriptorsTimerCallback
  <2>2. settle = {} /\ lapse = {}
    BY DEF Quiet
  <2>3. later(settle, lapse) = alive
    BY <2>2
  <2>4. [j \in Others(i) |-> IF j \in settle THEN "settled" ELSE phase[i][j]]
          = [j \in Others(i) |-> phase[i][j]]
    BY <2>2
  <2>5. [j \in Others(i) |-> recent[i][j] /\ j \notin lapse]
          = [j \in Others(i) |-> recent[i][j]]
    <3>1. \A j \in Others(i) : recent[i][j] \in BOOLEAN
      BY DEF SharingInv, Monitors
    <3> QED BY <2>2, <3>1, Zenon
  <2> HIDE DEF later, alive, msgs, start
  <2> QED BY <2>1, <2>3, <2>4, <2>5
<1>2. UNCHANGED <<made, lastReceived, learned, inRange>> /\ buffer[i] # {}
  BY DEF GlobalDescriptorsTimerCallback, linkVars
<1>3. /\ buffer[i] \in SUBSET Keyframe /\ Keyframe \subseteq Mark /\ Mark \subseteq Int
      /\ lastSent[i] \in [Others(i) -> Mark] /\ Keyframe \subseteq Nat
  BY SharingAssumption DEF SharingInv, Buffers, Mark, Keyframe
<1>4. top \in buffer[i] /\ top \in Nat /\ \A k \in buffer[i] : k <= top
  BY <1>2, <1>3, GreatestIs
<1>5. start \in Int
  <2>1. alive \in SUBSET Others(i)
    OBVIOUS
  <2> HIDE DEF alive
  <2> QED BY <1>2, <2>1, StartType
<1>6. msgs \in Seq(SUBSET Keyframe)
  <2> HIDE DEF start
  <2> QED BY <1>3, <1>5, ChunksType
<1>7. /\ \A k \in buffer[i] : k >= start => \E c \in 1..Len(msgs) : k \in msgs[c]
      /\ \A c \in 1..Len(msgs) : \A m \in msgs[c] :
           /\ m \in buffer[i] /\ m >= start
           /\ \A k \in buffer[i] : k >= start /\ k <= m =>
                \E b \in 1..Len(msgs) : b <= c /\ k \in msgs[b]
  <2> HIDE DEF start
  <2> QED BY <1>3, <1>5, ChunksHold
<1>8. ASSUME NEW j \in Others(i), NEW k \in Keyframe, k <= top,
             k < start \/ k \notin buffer[i], alive # {} \/ start <= top
      PROVE  Got(i, j, k)
  <2> HIDE DEF alive, start, top
  <2> USE <1>8
  <2> QED BY <1>2, Omitted DEF alive, start, top
<1> HIDE DEF alive, start, msgs, top
<1>9. /\ \A q \in Robot \ {i} : channel'[q] = channel[q] /\ lastSent'[q] = lastSent[q]
      /\ lastSent'[i] = Marked(i, alive)
      /\ \A j \in Others(i) : channel'[i][j] = channel[i][j] \o msgs
  BY <1>1 DEF SharingInv, Buffers, Listeners, DeliveryInv, InReach
<1>10. ASSUME NEW j \in Others(i)
       PROVE  /\ channel[i][j] \in Seq(SUBSET Keyframe)
              /\ \A n \in 1..Len(channel[i][j]) :
                   /\ n \in 1..Len(channel'[i][j])
                   /\ channel'[i][j][n] = channel[i][j][n]
              /\ \A c \in 1..Len(msgs) :
                   /\ Len(channel[i][j]) + c \in 1..Len(channel'[i][j])
                   /\ channel'[i][j][Len(channel[i][j]) + c] = msgs[c]
              /\ \A n \in 1..Len(channel'[i][j]) :
                   \/ n \in 1..Len(channel[i][j]) \/ n - Len(channel[i][j]) \in 1..Len(msgs)
  <2>1. channel[i][j] \in Seq(SUBSET Keyframe)
    BY DEF SharingInv, Listeners
  <2>2. channel'[i][j] = channel[i][j] \o msgs
    BY <1>9
  <2> DEFINE old == channel[i][j]
             new == channel'[i][j]
  <2>3. old \in Seq(SUBSET Keyframe) /\ new = old \o msgs
    BY <2>1, <2>2
  <2> HIDE DEF old, new
  <2>4. /\ \A n \in 1..Len(old) : n \in 1..Len(new) /\ new[n] = old[n]
        /\ \A c \in 1..Len(msgs) : /\ Len(old) + c \in 1..Len(new)
                                   /\ new[Len(old) + c] = msgs[c]
        /\ \A n \in 1..Len(new) : n \in 1..Len(old) \/ n - Len(old) \in 1..Len(msgs)
    BY <1>6, <2>3, ConcatAt
  <2> QED BY <2>1, <2>4 DEF old, new
<1>11. ASSUME NEW q \in Robot, NEW j \in Others(q), NEW k, Got(q, j, k)
       PROVE  Got(q, j, k)'
  <2>1. CASE q = i
    BY <1>2, <1>10, <1>11, <2>1 DEF Got
  <2>2. CASE q # i
    BY <1>2, <1>9, <1>11, <2>2 DEF Got
  <2> QED BY <2>1, <2>2
<1>12. InReach'
  BY <1>1, <1>2 DEF DeliveryInv, InReach, SharingInv, Monitors
<1>13. MarkedAlive'
  <2>1. ASSUME NEW q \in Robot, NEW j \in Others(q), lastSent'[q][j] >= 0
        PROVE  IsAlive(q, j)
    <3>1. CASE q # i
      BY <1>9, <2>1, <3>1 DEF DeliveryInv, MarkedAlive
    <3>2. CASE q = i
      <4>1. j \in alive \/ lastSent'[q][j] = lastSent[q][j]
        BY <1>9, <3>2 DEF Marked
      <4> QED BY <2>1, <3>2, <4>1 DEF alive, DeliveryInv, MarkedAlive
    <3> QED BY <3>1, <3>2
  <2>2. ASSUME NEW q \in Robot, NEW j \in Others(q)
        PROVE  phase'[q][j] = phase[q][j] /\ recent'[q][j] = recent[q][j]
    BY <1>1 DEF SharingInv, Monitors
  <2> QED BY <2>1, <2>2 DEF MarkedAlive, IsAlive
<1>14. SentToAll'
  <2>1. ASSUME NEW x \in Others(i), NEW j \in Others(i), NEW k \in 0..lastSent'[i][x]
        PROVE  Got(i, j, k)'
    <3>1. CASE x \notin alive
      <4>1. lastSent'[i][x] = lastSent[i][x]
        BY <1>9, <3>1 DEF Marked
      <4>2. Got(i, j, k)
        BY <2>1, <4>1 DEF DeliveryInv, SentToAll
      <4> QED BY <1>11, <4>2
    <3>2. CASE x \in alive
      <4>1. lastSent'[i][x] = top
        BY <1>9, <3>2 DEF Marked, top
      <4>2. k \in Keyframe /\ k <= top
        BY <1>3, <1>4, <2>1, <4>1, SharingAssumption DEF Keyframe
      <4>3. CASE k \in buffer[i] /\ k >= start
        <5>1. PICK c \in 1..Len(msgs) : k \in msgs[c]
          BY <1>7, <4>3
        <5> QED BY <1>10, <5>1 DEF Got
      <4>4. CASE k \notin buffer[i] \/ k < start
        <5>1. Got(i, j, k)
          BY <1>8, <3>2, <4>2, <4>4
        <5> QED BY <1>11, <5>1
      <4> QED BY <1>3, <1>5, <4>2, <4>3, <4>4
    <3> QED BY <3>1, <3>2
  <2>2. ASSUME NEW q \in Robot \ {i}, NEW x \in Others(q), NEW j \in Others(q),
               NEW k \in 0..lastSent'[q][x]
        PROVE  Got(q, j, k)'
    <3>1. Got(q, j, k)
      BY <1>9, <2>2 DEF DeliveryInv, SentToAll
    <3> QED BY <1>11, <3>1
  <2> QED BY <2>1, <2>2 DEF SentToAll
<1>15. InOrder'
  <2>1. ASSUME NEW j \in Others(i), NEW n \in 1..Len(channel'[i][j]),
               NEW m \in channel'[i][j][n], NEW k \in Keyframe, k <= m
        PROVE  \/ k \in learned[j][i]
               \/ \E b \in 1..Len(channel'[i][j]) : b <= n /\ k \in channel'[i][j][b]
    <3>1. CASE n \in 1..Len(channel[i][j])
      <4>1. m \in channel[i][j][n]
        BY <1>10, <2>1, <3>1
      <4>2. \/ k \in learned[j][i]
            \/ \E b \in 1..Len(channel[i][j]) : b <= n /\ k \in channel[i][j][b]
        BY <2>1, <3>1, <4>1 DEF DeliveryInv, InOrder
      <4> QED BY <1>10, <4>2
    <3>2. CASE n \notin 1..Len(channel[i][j])
      <4> DEFINE len == Len(channel[i][j])
                 c == n - len
      <4>1. len \in Nat /\ n \in Int /\ c \in 1..Len(msgs) /\ n = len + c /\ len < n
        BY <1>10, <2>1, <3>2
      <4> HIDE DEF c
      <4>2. m \in msgs[c]
        BY <1>10, <2>1, <4>1
      <4>3. m \in buffer[i] /\ m >= start /\ m <= top /\ m \in Int
        BY <1>3, <1>4, <1>7, <4>1, <4>2
      <4>4. CASE k \in buffer[i] /\ k >= start
        <5>1. PICK b \in 1..Len(msgs) : b <= c /\ k \in msgs[b]
          BY <1>7, <2>1, <4>1, <4>2, <4>4
        <5>2. len + b \in 1..Len(channel'[i][j]) /\ k \in channel'[i][j][len + b]
          BY <1>10, <5>1
        <5>3. len + b <= n
          BY <4>1, <5>1
        <5> QED BY <5>2, <5>3
      <4>5. CASE k \notin buffer[i] \/ k < start
        <5>1. k <= top /\ start <= top
          BY <1>3, <1>4, <1>5, <2>1, <4>3
        <5>2. Got(i, j, k)
          BY <1>8, <4>5, <5>1
        <5>3. CASE k \in learned[j][i]
          BY <5>3
        <5>4. ASSUME NEW b \in 1..len, k \in channel[i][j][b]
              PROVE  \E d \in 1..Len(channel'[i][j]) : d <= n /\ k \in channel'[i][j][d]
          <6>1. b \in 1..Len(channel'[i][j]) /\ k \in channel'[i][j][b]
            BY <1>10, <5>4
          <6>2. b <= n
            BY <4>1
          <6> QED BY <6>1, <6>2
        <5> QED BY <5>2, <5>3, <5>4 DEF Got
      <4> QED BY <1>3, <1>5, <4>4, <4>5
    <3> QED BY <3>1, <3>2
  <2>2. ASSUME NEW q \in Robot \ {i}, NEW j \in Others(q)
        PROVE  channel'[q][j] = channel[q][j] /\ learned'[j][q] = learned[j][q]
    BY <1>2, <1>9
  <2>3. learned' = learned
    BY <1>2
  <2> QED BY <2>1, <2>2, <2>3 DEF DeliveryInv, InOrder
<1>16. NoGaps'
  BY <1>2 DEF DeliveryInv, NoGaps
<1> QED BY <1>12, <1>13, <1>14, <1>15, <1>16 DEF DeliveryInv

(* Updating one place of a function of functions.                          *)
LEMMA ExceptAt ==
  ASSUME NEW f, NEW a \in DOMAIN f, NEW b \in DOMAIN f[a], NEW v,
         NEW p \in DOMAIN f, NEW q \in DOMAIN f[p]
  PROVE  /\ [f EXCEPT ![a][b] = v][a][b] = v
         /\ ~ (p = a /\ q = b) => [f EXCEPT ![a][b] = v][p][q] = f[p][q]
<1>1. CASE p = a
  BY <1>1
<1>2. CASE p # a
  BY <1>2
<1> QED BY <1>1, <1>2

(* A message that is taken brings all that is still missing below its ids. *)
LEMMA DeliveryReceive ==
  ASSUME SharingInv, DeliveryInv, NEW j \in Robot, NEW i \in Robot, j \in Others(i),
         GlobalDescriptorCallback(j, i)
  PROVE  DeliveryInv'
<1> DEFINE msg == Head(channel[i][j])
           known == lastReceived[j][i]
           new == {k \in msg : k > known}
           mark == Received(msg, known)
           rest == Tail(channel[i][j])
<1>1. /\ channel[i][j] # <<>>
      /\ learned' = [learned EXCEPT ![j][i] = learned[j][i] \cup new]
      /\ lastReceived' = [lastReceived EXCEPT ![j][i] = mark]
      /\ channel' = [channel EXCEPT ![i][j] = rest]
      /\ UNCHANGED <<made, buffer, phase, recent, lastSent, inRange, outages>>
  BY DEF GlobalDescriptorCallback, monitorVars, linkVars
<1>2. i \in Others(j) /\ channel[i][j] \in Seq(SUBSET Keyframe)
  BY DEF SharingInv, Listeners, Others
<1>3. /\ msg \in SUBSET Keyframe /\ msg = channel[i][j][1] /\ 1 \in 1..Len(channel[i][j])
      /\ rest \in Seq(SUBSET Keyframe) /\ Len(rest) = Len(channel[i][j]) - 1
      /\ \A n \in 1..Len(rest) : rest[n] = channel[i][j][n + 1]
  BY <1>1, <1>2
<1>4. known \in Mark /\ Keyframe \subseteq Mark /\ Mark \subseteq Int /\ Keyframe \subseteq Nat
  BY <1>2, SharingAssumption DEF SharingInv, Listeners, Mark, Keyframe
<1>5. mark \in msg \cup {known}
  <2>1. msg \cup {known} \in SUBSET Mark /\ msg \cup {known} # {}
    BY <1>3, <1>4
  <2> QED BY <2>1, GreatestIs DEF Received
<1>6. \A k \in 0..known : k \in learned[j][i]
  BY <1>2 DEF DeliveryInv, NoGaps
<1>7. \A k \in msg : k \in learned[j][i] \cup new
  <2>1. \A k \in msg : k \in Nat /\ known \in Int
    BY <1>3, <1>4
  <2>2. \A k \in msg : k > known \/ k \in 0..known
    BY <2>1
  <2> QED BY <1>6, <2>2
<1> HIDE DEF msg, known, new, mark, rest
<1>8. /\ learned'[j][i] = learned[j][i] \cup new /\ lastReceived'[j][i] = mark
      /\ channel'[i][j] = rest
      /\ \A p \in Robot : \A q \in Others(p) : ~ (p = j /\ q = i) =>
           /\ learned'[p][q] = learned[p][q] /\ lastReceived'[p][q] = lastReceived[p][q]
           /\ channel'[q][p] = channel[q][p]
  <2>1. /\ DOMAIN learned = Robot /\ DOMAIN lastReceived = Robot /\ DOMAIN channel = Robot
        /\ \A p \in Robot : /\ DOMAIN learned[p] = Robot
                            /\ DOMAIN lastReceived[p] = Others(p)
                            /\ DOMAIN channel[p] = Others(p)
    BY DEF SharingInv, Listeners
  <2>2. \A p \in Robot : \A q \in Others(p) : q \in Robot /\ p \in Others(q)
    BY DEF Others
  <2>3. ASSUME NEW p \in Robot, NEW q \in Others(p)
        PROVE  /\ learned'[j][i] = learned[j][i] \cup new
               /\ ~ (p = j /\ q = i) => learned'[p][q] = learned[p][q]
    <3>1. q \in Robot
      BY <2>2
    <3> QED BY <1>1, <2>1, <3>1, ExceptAt
  <2>4. ASSUME NEW p \in Robot, NEW q \in Others(p)
        PROVE  /\ lastReceived'[j][i] = mark
               /\ ~ (p = j /\ q = i) => lastReceived'[p][q] = lastReceived[p][q]
    BY <1>1, <1>2, <2>1, ExceptAt
  <2>5. ASSUME NEW p \in Robot, NEW q \in Others(p)
        PROVE  /\ channel'[i][j] = rest
               /\ ~ (p = j /\ q = i) => channel'[q][p] = channel[q][p]
    <3>1. q \in Robot /\ p \in Others(q)
      BY <2>2
    <3> QED BY <1>1, <2>1, <3>1, ExceptAt
  <2> QED BY <1>2, <2>3, <2>4, <2>5
<1>9. ASSUME NEW p \in Robot, NEW q \in Others(p), NEW k, Got(p, q, k)
      PROVE  Got(p, q, k)'
  <2>1. CASE p = i /\ q = j
    <3>1. CASE k \in learned[j][i]
      BY <1>8, <2>1, <3>1 DEF Got
    <3>2. ASSUME NEW n \in 1..Len(channel[i][j]), k \in channel[i][j][n]
          PROVE  Got(i, j, k)'
      <4>1. CASE n = 1
        BY <1>3, <1>7, <1>8, <3>2, <4>1 DEF Got
      <4>2. CASE n # 1
        <5>1. n - 1 \in 1..Len(rest) /\ rest[n - 1] = channel[i][j][n]
          BY <1>2, <1>3, <4>2
        <5> QED BY <1>8, <3>2, <5>1 DEF Got
      <4> QED BY <4>1, <4>2
    <3> QED BY <1>9, <2>1, <3>1, <3>2 DEF Got
  <2>2. CASE ~ (p = i /\ q = j)
    <3>1. p \in Others(q) /\ q \in Robot
      BY DEF Others
    <3>2. learned'[q][p] = learned[q][p] /\ channel'[p][q] = channel[p][q]
      BY <1>8, <2>2, <3>1
    <3> QED BY <1>9, <3>2 DEF Got
  <2> QED BY <2>1, <2>2
<1>10. (InReach /\ MarkedAlive)'
  BY <1>1 DEF DeliveryInv, InReach, MarkedAlive, IsAlive
<1>11. SentToAll'
  BY <1>1, <1>9 DEF DeliveryInv, SentToAll
<1>12. InOrder'
  <2>1. ASSUME NEW n \in 1..Len(rest), NEW m \in rest[n], NEW k \in Keyframe, k <= m
        PROVE  \/ k \in learned'[j][i]
               \/ \E b \in 1..Len(rest) : b <= n /\ k \in rest[b]
    <3>1. n + 1 \in 1..Len(channel[i][j]) /\ m \in channel[i][j][n + 1]
      BY <1>2, <1>3
    <3>2. \/ k \in learned[j][i]
          \/ \E b \in 1..Len(channel[i][j]) : b <= n + 1 /\ k \in channel[i][j][b]
      BY <2>1, <3>1 DEF DeliveryInv, InOrder
    <3>3. CASE k \in learned[j][i]
      BY <1>8, <3>3
    <3>4. ASSUME NEW b \in 1..Len(channel[i][j]), b <= n + 1, k \in channel[i][j][b]
          PROVE  \/ k \in learned'[j][i]
                 \/ \E d \in 1..Len(rest) : d <= n /\ k \in rest[d]
      <4>1. CASE b = 1
        BY <1>3, <1>7, <1>8, <3>4, <4>1
      <4>2. CASE b # 1
        <5>1. b - 1 \in 1..Len(rest) /\ rest[b - 1] = channel[i][j][b] /\ b - 1 <= n
          BY <1>2, <1>3, <3>4, <4>2
        <5> QED BY <3>4, <5>1
      <4> QED BY <4>1, <4>2
    <3> QED BY <3>2, <3>3, <3>4
  <2>2. ASSUME NEW p \in Robot, NEW q \in Others(p), ~ (p = i /\ q = j)
        PROVE  learned'[q][p] = learned[q][p] /\ channel'[p][q] = channel[p][q]
    <3>1. p \in Others(q) /\ q \in Robot
      BY DEF Others
    <3> QED BY <1>8, <2>2, <3>1
  <2>3. ASSUME NEW p \in Robot, NEW q \in Others(p), NEW n \in 1..Len(channel'[p][q]),
               NEW m \in channel'[p][q][n], NEW k \in Keyframe, k <= m
        PROVE  \/ k \in learned'[q][p]
               \/ \E b \in 1..Len(channel'[p][q]) : b <= n /\ k \in channel'[p][q][b]
    <3>1. CASE p = i /\ q = j
      BY <1>8, <2>1, <2>3, <3>1
    <3>2. CASE ~ (p = i /\ q = j)
      BY <2>2, <2>3, <3>2 DEF DeliveryInv, InOrder
    <3> QED BY <3>1, <3>2
  <2> QED BY <2>3 DEF InOrder
<1>13. NoGaps'
  <2>1. ASSUME NEW k \in 0..mark
        PROVE  k \in learned[j][i] \cup new
    <3>1. CASE mark = known
      BY <1>6, <2>1, <3>1
    <3>2. CASE mark \in msg
      <4>1. k \in Keyframe /\ k <= mark
        BY <1>3, <2>1, <3>2, SharingAssumption DEF Keyframe
      <4>2. \/ k \in learned[j][i]
            \/ \E b \in 1..Len(channel[i][j]) : b <= 1 /\ k \in channel[i][j][b]
        BY <1>3, <3>2, <4>1 DEF DeliveryInv, InOrder
      <4>3. k \in learned[j][i] \/ k \in msg
        BY <1>3, <4>2
      <4> QED BY <1>7, <4>3
    <3> QED BY <1>5, <3>1, <3>2
  <2>2. ASSUME NEW q \in Robot, NEW p \in Others(q), NEW k \in 0..lastReceived'[q][p]
        PROVE  k \in learned'[q][p]
    <3>1. CASE q = j /\ p = i
      BY <1>8, <2>1, <2>2, <3>1
    <3>2. CASE ~ (q = j /\ p = i)
      <4>1. learned'[q][p] = learned[q][p] /\ lastReceived'[q][p] = lastReceived[q][p]
        BY <1>8, <3>2
      <4>2. p \in Robot /\ q \in Others(p)
        BY DEF Others
      <4>3. \A m \in 0..lastReceived[q][p] : m \in learned[q][p]
        BY <4>2 DEF DeliveryInv, NoGaps
      <4> QED BY <2>2, <4>1, <4>3
    <3> QED BY <3>1, <3>2
  <2>3. \A p \in Robot : \A q \in Others(p) : q \in Robot /\ p \in Others(q)
    BY DEF Others
  <2> QED BY <2>2, <2>3 DEF NoGaps
<1> QED BY <1>10, <1>11, <1>12, <1>13 DEF DeliveryInv

LEMMA NextDelivery ==
  ASSUME Quiet, SharingInv, DeliveryInv, [Next]_vars
  PROVE  DeliveryInv'
<1>1. CASE UNCHANGED vars
  <2>1. UNCHANGED <<lastSent, lastReceived, learned, channel, inRange, recent, phase>>
    BY <1>1 DEF vars, monitorVars, linkVars
  <2> QED BY <2>1, DeliveryOther
<1>2. ASSUME NEW i \in Robot, AddGlobalDescriptor(i)
      PROVE  DeliveryInv'
  <2>1. UNCHANGED <<lastSent, lastReceived, learned, channel, inRange, recent, phase>>
    BY <1>2 DEF AddGlobalDescriptor, monitorVars, linkVars
  <2> QED BY <2>1, DeliveryOther
<1>3. ASSUME NEW i \in Robot, NEW j \in Others(i),
             HeartbeatCallback(i, j) \/ InitDelayEnds(i, j)
      PROVE  DeliveryInv'
  <2>1. UNCHANGED <<lastSent, lastReceived, learned, channel, inRange>>
    BY <1>3 DEF HeartbeatCallback, InitDelayEnds, linkVars
  <2>2. ASSUME NEW p \in Robot, NEW q \in Others(p)
        PROVE  /\ recent[p][q] => recent'[p][q]
               /\ phase[p][q] = "settled" => phase'[p][q] = "settled"
    BY <1>3 DEF HeartbeatCallback, InitDelayEnds, SharingInv, Monitors
  <2> QED BY <2>1, <2>2, DeliveryOther
<1>4. ASSUME NEW i \in Robot, NEW j \in Others(i),
             HeartbeatExpires(i, j) \/ GoOutOfRange(i, j) \/ ComeInRange(i, j)
      PROVE  FALSE
  BY <1>4 DEF HeartbeatExpires, GoOutOfRange, ComeInRange, Quiet, DeliveryInv, InReach,
     SharingInv, Links
<1>5. ASSUME NEW i \in Robot, NEW j \in Others(i), GlobalDescriptorCallback(i, j)
      PROVE  DeliveryInv'
  BY <1>5, DeliveryReceive DEF Others
<1> QED
  BY <1>1, <1>2, <1>3, <1>4, <1>5, DeliveryTimer DEF Next

(* While all are in range and no delay runs out inside a selection, each   *)
(* descriptor is learned, on its way or still to be sent, for any number   *)
(* of robots, with and without monitoring.                                 *)
THEOREM NothingLost == Quiet /\ Spec => []NoInfoLost
<1>1. SharingInv /\ DeliveryInv => NoInfoLost
  <2> SUFFICES ASSUME SharingInv, DeliveryInv, NEW i \in Robot, NEW j \in Others(i),
                      NEW k \in 0..(made[i] - 1), k \notin learned[j][i]
               PROVE  /\ k > lastReceived[j][i]
                      /\ \/ \E n \in 1..Len(channel[i][j]) : k \in channel[i][j][n]
                         \/ k > lastSent[i][j] /\ k \in buffer[i]
    BY DEF NoInfoLost
  <2>1. j \in Robot /\ i \in Others(j)
    BY DEF Others
  <2>2. lastSent[i][j] \in Int /\ lastReceived[j][i] \in Int /\ k \in Nat
    <3>1. Mark \subseteq Int
      BY SharingAssumption DEF Mark, Keyframe
    <3>2. made[i] \in 0..MaxKeyframes
      BY DEF SharingInv, Buffers
    <3>3. lastSent[i][j] \in Mark
      BY DEF SharingInv, Buffers
    <3>4. lastReceived[j][i] \in Mark
      BY <2>1 DEF SharingInv, Listeners
    <3>5. made[i] \in Int
      BY <3>2
    <3>6. k \in Nat
      BY <3>5
    <3> QED BY <3>1, <3>3, <3>4, <3>6
  <2>3. k > lastReceived[j][i]
    <3>1. k \notin 0..lastReceived[j][i]
      BY <2>1 DEF DeliveryInv, NoGaps
    <3> QED BY <2>2, <3>1
  <2>4. CASE k > lastSent[i][j]
    BY <2>3, <2>4 DEF SharingInv, UnsentIsBuffered
  <2>5. CASE ~ (k > lastSent[i][j])
    <3>1. k \in 0..lastSent[i][j]
      BY <2>2, <2>5
    <3> QED BY <2>3, <3>1 DEF DeliveryInv, SentToAll, Got
  <2> QED BY <2>4, <2>5
<1>2. Init => DeliveryInv
  BY DeliveryInit
<1>3. Quiet /\ SharingInv /\ DeliveryInv /\ [Next]_vars => DeliveryInv'
  BY NextDelivery
<1>4. SUFFICES ASSUME Quiet PROVE Spec => []NoInfoLost
  OBVIOUS
<1>5. SharingInv /\ DeliveryInv /\ [Next]_vars => (SharingInv /\ DeliveryInv)'
  BY <1>3, <1>4, NextSharing
<1> QED BY <1>1, <1>2, <1>5, SharingInit, PTL DEF Spec

----------------------------------------------------------------------------
(* What is learned or on its way was made.                                 *)

KnownMade ==
  \A i \in Robot : \A j \in Others(i) : \A k \in Keyframe : Got(i, j, k) => k < made[i]

LEMMA KnownTimer ==
  ASSUME SharingInv, KnownMade, NEW i \in Robot, GlobalDescriptorsTimerCallback(i)
  PROVE  KnownMade'
<1>1. PICK alive \in SUBSET Others(i) :
        channel' = [channel EXCEPT ![i] =
          [j \in Others(i) |->
             IF <<i, j>> \in inRange
             THEN channel[i][j] \o Chunks(buffer[i], Start(i, alive))
             ELSE channel[i][j]]]
  <2> DEFINE alive == {j \in Others(i) : IsAlive(i, j)}
  <2>1. channel' = [channel EXCEPT ![i] =
          [j \in Others(i) |->
             IF <<i, j>> \in inRange
             THEN channel[i][j] \o Chunks(buffer[i], Start(i, alive))
             ELSE channel[i][j]]]
    BY DEF GlobalDescriptorsTimerCallback
  <2>2. alive \in SUBSET Others(i)
    OBVIOUS
  <2> QED BY <2>1, <2>2, Zenon
<1> DEFINE start == Start(i, alive)
           msgs == Chunks(buffer[i], start)
<1>2. UNCHANGED <<made, learned>> /\ buffer[i] # {}
  BY DEF GlobalDescriptorsTimerCallback
<1>3. buffer[i] \in SUBSET Keyframe /\ start \in Int
  BY <1>2, StartType DEF SharingInv, Buffers
<1> HIDE DEF start
<1>4. /\ msgs \in Seq(SUBSET Keyframe)
      /\ \A c \in 1..Len(msgs) : \A k \in msgs[c] : k < made[i]
  <2>1. \A c \in 1..Len(msgs) : \A k \in msgs[c] : k \in buffer[i]
    BY <1>3, ChunksHold
  <2> QED BY <1>3, <2>1, ChunksType DEF SharingInv, KeysMade
<1>5. /\ \A p \in Robot \ {i} : channel'[p] = channel[p]
      /\ \A j \in Others(i) : channel'[i][j] \in {channel[i][j], channel[i][j] \o msgs}
  BY <1>1 DEF SharingInv, Listeners, start
<1> HIDE DEF msgs
<1>6. ASSUME NEW p \in Robot, NEW q \in Others(p), NEW k \in Keyframe, Got(p, q, k)'
      PROVE  k < made[p]
  <2>1. CASE channel'[p][q] = channel[p][q]
    BY <1>2, <1>6, <2>1 DEF Got, KnownMade
  <2>2. CASE p = i /\ channel'[i][q] = channel[i][q] \o msgs
    <3>1. CASE k \in learned[q][p]
      BY <3>1 DEF Got, KnownMade
    <3>2. ASSUME NEW n \in 1..Len(channel[i][q] \o msgs), k \in (channel[i][q] \o msgs)[n]
          PROVE  k < made[p]
      <4>1. channel[i][q] \in Seq(SUBSET Keyframe)
        BY <2>2 DEF SharingInv, Listeners
      <4>2. n \in 1..Len(channel[i][q]) \/ n - Len(channel[i][q]) \in 1..Len(msgs)
        BY <1>4, <3>2, <4>1, ConcatAt
      <4>3. CASE n \in 1..Len(channel[i][q])
        <5>1. k \in channel[i][q][n]
          BY <1>4, <3>2, <4>1, <4>3
        <5> QED BY <2>2, <4>3, <5>1 DEF Got, KnownMade
      <4>4. CASE n - Len(channel[i][q]) \in 1..Len(msgs)
        <5>1. k \in msgs[n - Len(channel[i][q])]
          BY <1>4, <3>2, <4>1, <4>4
        <5> QED BY <1>4, <2>2, <4>4, <5>1
      <4> QED BY <4>2, <4>3, <4>4
    <3> QED BY <1>2, <1>6, <2>2, <3>1, <3>2 DEF Got
  <2> QED BY <1>5, <2>1, <2>2
<1> QED BY <1>2, <1>6 DEF KnownMade

LEMMA KnownReceive ==
  ASSUME SharingInv, KnownMade, NEW j \in Robot, NEW i \in Robot, j \in Others(i),
         GlobalDescriptorCallback(j, i)
  PROVE  KnownMade'
<1> DEFINE new == {k \in Head(channel[i][j]) : k > lastReceived[j][i]}
           rest == Tail(channel[i][j])
<1>1. /\ channel[i][j] # <<>> /\ made' = made
      /\ learned' = [learned EXCEPT ![j][i] = learned[j][i] \cup new]
      /\ channel' = [channel EXCEPT ![i][j] = rest]
  BY DEF GlobalDescriptorCallback
<1>2. channel[i][j] \in Seq(SUBSET Keyframe)
  BY DEF SharingInv, Listeners
<1>3. /\ \A k \in new : k \in channel[i][j][1] /\ 1 \in 1..Len(channel[i][j])
      /\ \A n \in 1..Len(rest) : /\ n + 1 \in 1..Len(channel[i][j])
                                 /\ rest[n] = channel[i][j][n + 1]
  BY <1>1, <1>2
<1> HIDE DEF new, rest
<1>4. ASSUME NEW p \in Robot, NEW q \in Others(p), NEW k \in Keyframe, Got(p, q, k)'
      PROVE  Got(p, q, k)
  <2>0. /\ DOMAIN learned = Robot /\ DOMAIN channel = Robot
        /\ \A r \in Robot : DOMAIN learned[r] = Robot /\ DOMAIN channel[r] = Others(r)
        /\ q \in Robot
    BY DEF SharingInv, Listeners, Others
  <2>1. CASE p = i /\ q = j
    <3>1. learned'[j][i] = learned[j][i] \cup new
      BY <1>1, <2>0, <2>1, ExceptAt
    <3>2. channel'[i][j] = rest
      BY <1>1, <2>0, <2>1, ExceptAt
    <3> QED BY <1>3, <1>4, <2>1, <3>1, <3>2 DEF Got
  <2>2. CASE ~ (p = i /\ q = j)
    <3>1. learned'[q][p] = learned[q][p]
      <4>1. j \in Robot /\ i \in Robot
        OBVIOUS
      <4> QED BY <1>1, <2>0, <2>2, <4>1, ExceptAt
    <3>2. channel'[p][q] = channel[p][q]
      BY <1>1, <2>0, <2>2, ExceptAt
    <3> QED BY <1>4, <3>1, <3>2 DEF Got
  <2> QED BY <2>1, <2>2
<1> QED BY <1>1, <1>4 DEF KnownMade

LEMMA NextKnown ==
  ASSUME SharingInv, KnownMade, [Next]_vars
  PROVE  KnownMade'
<1>1. CASE UNCHANGED <<learned, channel>> /\ \A i \in Robot : made[i] <= made'[i]
  <2>1. \A i \in Robot : made[i] \in Int /\ made'[i] \in Int
    <3>1. SharingInv'
      BY NextSharing
    <3>2. \A i \in Robot : made[i] \in 0..MaxKeyframes /\ made'[i] \in 0..MaxKeyframes
      BY <3>1 DEF SharingInv, Buffers
    <3> QED BY <3>2
  <2>2. Keyframe \subseteq Int
    BY SharingAssumption DEF Keyframe
  <2>3. ASSUME NEW i \in Robot, NEW j \in Others(i), NEW k \in Keyframe, Got(i, j, k)'
        PROVE  k < made'[i]
    <3>1. Got(i, j, k)
      BY <1>1, <2>3 DEF Got
    <3>2. k < made[i]
      BY <3>1 DEF KnownMade
    <3>3. k \in Int /\ made[i] <= made'[i]
      BY <1>1, <2>2
    <3> QED BY <2>1, <3>2, <3>3
  <2> QED BY <2>3 DEF KnownMade
<1>2. \A i \in Robot : made[i] \in Int
  <2>1. \A i \in Robot : made[i] \in 0..MaxKeyframes
    BY DEF SharingInv, Buffers
  <2> QED BY <2>1
<1>3. CASE UNCHANGED vars
  BY <1>1, <1>2, <1>3 DEF vars
<1>4. ASSUME NEW i \in Robot, AddGlobalDescriptor(i)
      PROVE  KnownMade'
  BY <1>1, <1>2, <1>4 DEF AddGlobalDescriptor, SharingInv, Buffers
<1>5. ASSUME NEW i \in Robot, NEW j \in Others(i),
             \/ HeartbeatCallback(i, j) \/ InitDelayEnds(i, j) \/ HeartbeatExpires(i, j)
             \/ GoOutOfRange(i, j) \/ ComeInRange(i, j)
      PROVE  KnownMade'
  BY <1>1, <1>2, <1>5
  DEF HeartbeatCallback, InitDelayEnds, HeartbeatExpires, GoOutOfRange, ComeInRange
<1>6. ASSUME NEW i \in Robot, NEW j \in Others(i), GlobalDescriptorCallback(i, j)
      PROVE  KnownMade'
  BY <1>6, KnownReceive DEF Others
<1> QED BY <1>3, <1>4, <1>5, <1>6, KnownTimer DEF Next

----------------------------------------------------------------------------
(* Ids without a gap up to a mark and none beyond it.                      *)
LEMMA Prefix ==
  ASSUME NEW L \in SUBSET Keyframe, NEW mark \in Mark,
         \A k \in L : k <= mark, \A k \in 0..mark : k \in L
  PROVE  L = 0..mark
<1>1. Keyframe \subseteq Nat /\ mark \in Int
  BY SharingAssumption DEF Keyframe, Mark
<1>2. \A k \in L : k \in 0..mark
  BY <1>1
<1> QED BY <1>2

(* Taking a message is learning what comes next, or nothing.               *)
LEMMA ReceiveLearns ==
  ASSUME SharingInv, DeliveryInv, KnownMade, SharingInv', DeliveryInv', KnownMade',
         NEW j \in Robot, NEW i \in Others(j), GlobalDescriptorCallback(j, i)
  PROVE  Gossip!Learn(j, i) \/ UNCHANGED <<made, learned>>
<1> DEFINE mark == lastReceived'[j][i]
<1>1. made' = made /\ learned' = [learned EXCEPT ![j][i] = learned'[j][i]]
  <2> DEFINE new == {k \in Head(channel[i][j]) : k > lastReceived[j][i]}
  <2>1. learned' = [learned EXCEPT ![j][i] = learned[j][i] \cup new] /\ made' = made
    BY DEF GlobalDescriptorCallback
  <2> HIDE DEF new
  <2> QED BY <2>1 DEF SharingInv, Listeners, Others
<1>2. learned[j][i] \subseteq learned'[j][i]
  BY DEF GlobalDescriptorCallback, SharingInv, Listeners, Others
<1>3. learned'[j][i] = 0..mark
  <2>1. learned'[j][i] \in SUBSET Keyframe /\ mark \in Mark
    <3>1. i \in Robot
      BY DEF Others
    <3>2. learned' \in [Robot -> [Robot -> SUBSET Keyframe]]
      BY DEF SharingInv, Listeners
    <3>3. lastReceived'[j] \in [Others(j) -> Mark]
      BY DEF SharingInv, Listeners
    <3> QED BY <3>1, <3>2, <3>3
  <2>2. \A k \in learned'[j][i] : k <= mark
    BY DEF SharingInv, NeverLearnedTwice
  <2>3. \A k \in 0..mark : k \in learned'[j][i]
    <3>1. i \in Robot /\ j \in Others(i)
      BY DEF Others
    <3> QED BY <3>1 DEF DeliveryInv, NoGaps
  <2> HIDE DEF mark
  <2> QED BY <2>1, <2>2, <2>3, Prefix
<1>4. mark \in Mark
  BY DEF SharingInv, Listeners
<1>5. CASE mark = -1
  <2>1. 0..(-1) = {}
    OBVIOUS
  <2>2. learned'[j][i] = learned[j][i]
    BY <1>2, <1>3, <1>5, <2>1
  <2>3. learned \in [Robot -> [Robot -> SUBSET Keyframe]]
    BY DEF SharingInv, Listeners
  <2>4. learned' = [learned EXCEPT ![j][i] = learned[j][i]]
    BY <1>1, <2>2
  <2>5. learned' = learned
    BY <2>3, <2>4
  <2> QED BY <1>1, <2>5
<1>6. CASE mark \in Keyframe
  <2>1. mark \in Nat /\ made[i] \in Nat
    BY <1>6, SharingAssumption DEF Keyframe, SharingInv, Buffers, Others
  <2>2. mark \in learned'[j][i]
    BY <1>3, <2>1
  <2>3. mark < made'[i]
    BY <1>6, <2>2 DEF KnownMade, Got, Others
  <2>4. mark + 1 \in 1..made[i] /\ (mark + 1) - 1 = mark
    BY <1>1, <2>1, <2>3
  <2>5. learned[j][i] \subseteq 0..mark /\ learned' = [learned EXCEPT ![j][i] = 0..mark]
    BY <1>1, <1>2, <1>3
  <2> HIDE DEF mark
  <2>6. \E n \in 1..made[i] : /\ learned[j][i] \subseteq 0..(n - 1)
                              /\ learned' = [learned EXCEPT ![j][i] = 0..(n - 1)]
    BY <2>4, <2>5
  <2>7. i # j
    BY DEF Others
  <2> QED BY <1>1, <2>6, <2>7 DEF Gossip!Learn
<1> QED BY <1>4, <1>5, <1>6 DEF Mark

(* While all are in range and no delay runs out inside a selection,        *)
(* sharing implements the abstract gossip: each robot learns the           *)
(* descriptors of each other one in their order, none left out, although   *)
(* messages repeat what was sent before.                                   *)
THEOREM ImplementsInOrder == Quiet /\ Spec => ImplementsGossip
<1> DEFINE I == SharingInv /\ DeliveryInv /\ KnownMade
<1>1. SUFFICES ASSUME Quiet PROVE Spec => ImplementsGossip
  OBVIOUS
<1>2. Init => I
  <2> SUFFICES ASSUME Init PROVE KnownMade
    BY SharingInit, DeliveryInit
  <2>1. \A i \in Robot : \A j \in Others(i) :
          channel[i][j] = <<>> /\ learned[j][i] = {}
    BY DEF Init, Others
  <2> QED BY <2>1 DEF KnownMade, Got
<1>3. I /\ [Next]_vars => I'
  BY <1>1, NextSharing, NextDelivery, NextKnown
<1>4. Init => Gossip!Init
  BY DEF Init, Gossip!Init
<1>5. I /\ I' /\ [Next]_vars => [Gossip!Next]_<<made, learned>>
  <2> SUFFICES ASSUME I, I', [Next]_vars
               PROVE  Gossip!Next \/ UNCHANGED <<made, learned>>
    OBVIOUS
  <2>1. CASE UNCHANGED vars
    BY <2>1 DEF vars
  <2>2. ASSUME NEW i \in Robot, AddGlobalDescriptor(i)
        PROVE  Gossip!Next
    <3>1. Gossip!Make(i)
      BY <2>2 DEF AddGlobalDescriptor, Gossip!Make
    <3> QED BY <3>1 DEF Gossip!Next
  <2>3. ASSUME NEW i \in Robot, GlobalDescriptorsTimerCallback(i)
        PROVE  UNCHANGED <<made, learned>>
    BY <2>3 DEF GlobalDescriptorsTimerCallback
  <2>4. ASSUME NEW i \in Robot, NEW j \in Others(i),
               \/ HeartbeatCallback(i, j) \/ InitDelayEnds(i, j)
               \/ HeartbeatExpires(i, j) \/ GoOutOfRange(i, j) \/ ComeInRange(i, j)
        PROVE  UNCHANGED <<made, learned>>
    BY <2>4
    DEF HeartbeatCallback, InitDelayEnds, HeartbeatExpires, GoOutOfRange, ComeInRange
  <2>5. ASSUME NEW i \in Robot, NEW j \in Others(i), GlobalDescriptorCallback(i, j)
        PROVE  Gossip!Next \/ UNCHANGED <<made, learned>>
    <3>1. Gossip!Learn(i, j) \/ UNCHANGED <<made, learned>>
      BY <2>5, ReceiveLearns
    <3>2. j \in Robot
      BY DEF Others
    <3> QED BY <3>1, <3>2 DEF Gossip!Next
  <2> QED BY <2>1, <2>2, <2>3, <2>4, <2>5 DEF Next
<1> QED BY <1>2, <1>3, <1>4, <1>5, PTL DEF Spec, ImplementsGossip, Gossip!Spec
=============================================================================
