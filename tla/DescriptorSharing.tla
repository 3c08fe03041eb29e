------------------------- MODULE DescriptorSharing -------------------------
(***************************************************************************)
(* How the robots of Swarm-SLAM share global descriptors: the buffer and   *)
(* timer of global_descriptor_loop_closure_detection.py, the bookkeeping   *)
(* of neighbors_manager.py and the liveness test of neighbor_monitor.py.   *)
(* Each robot runs them in one single-threaded node.                       *)
(*                                                                         *)
(* Clocks are abstracted to what is_alive() tells apart: whether a         *)
(* neighbour was ever heard, whether init_delay_sec has passed since, and  *)
(* whether the last heartbeat is younger than max_delay_sec.  Heartbeats   *)
(* come more often than max_delay_sec, so a monitor goes silent only when  *)
(* its neighbour is out of range.  What is published reaches, in order,    *)
(* every robot in range at that moment, and no other.  A robot that makes  *)
(* no keyframe publishes nothing and never asks its monitors who is alive, *)
(* so only the heartbeats the producers hear are steps.                    *)
(***************************************************************************)
EXTENDS Integers, Sequences, FiniteSets

CONSTANTS
  Robot,
  Producer,      \* the robots that make keyframes
  MaxKeyframes,  \* bound: descriptors each producer makes
  ChunkSize,     \* frontend.detection_publication_max_elems_per_msg
  MaxQueue,      \* bound: the timer does not fire while a listener has
                 \* this many messages still to take
  MaxOutages,    \* bound: times a pair of robots gets out of range
  Monitoring,    \* neighbor_management.enable_neighbor_monitoring
  TimePasses     \* whether a delay may run out inside one call of
                 \* select_from_which_kf_to_send(), between its two loops

ASSUME SharingAssumption ==
  /\ Producer \subseteq Robot
  /\ MaxKeyframes \in Nat /\ MaxOutages \in Nat
  /\ ChunkSize \in Nat \ {0} /\ MaxQueue \in Nat \ {0}
  /\ Monitoring \in BOOLEAN /\ TimePasses \in BOOLEAN

Keyframe == 0..(MaxKeyframes - 1)
Others(i) == Robot \ {i}

VARIABLES
  made,         \* ids given to descriptors so far: 0..made-1
  buffer,       \* keys of global_descriptors_buffer
  phase,        \* "unheard", "delay" (init_delay_sec runs) or "settled"
  recent,       \* last heartbeat younger than max_delay_sec
  lastSent,     \* last_keyframe_sent of the monitor i keeps of j
  lastReceived, \* last_keyframe_received of the monitor j keeps of i
  learned,      \* learned[j][i]: descriptors of i given to j's matcher
  channel,      \* channel[i][j]: GlobalDescriptors messages under way
  inRange,      \* pairs <<i, j>> that can communicate, both ways
  outages       \* outages so far (bounded by MaxOutages)

monitorVars == <<phase, recent>>
linkVars    == <<inRange, outages>>
vars == <<made, buffer, monitorVars, lastSent, lastReceived, learned,
          channel, linkVars>>

----------------------------------------------------------------------------
Least(S)    == CHOOSE x \in S : \A y \in S : x <= y
Greatest(S) == CHOOSE x \in S : \A y \in S : x >= y

(* Position of a key in the sorted buffer, from 1.                         *)
Rank(S, k) == Cardinality({x \in S : x <= k})

(* is_alive(); without monitoring its else branch returns None.            *)
IsAlive(i, j) == Monitoring /\ phase[i][j] = "settled" /\ recent[i][j]

(* Mutant: a last chunk that is not full is dropped.                       *)
FullChunks(S, start) ==
  LET sent == {k \in S : k >= start} IN
  [c \in 1..(Cardinality(sent) \div ChunkSize) |->
     {k \in sent : (Rank(sent, k) - 1) \div ChunkSize = c - 1}]

(* dict_to_list_chunks(): the keys from start on, ChunkSize at a time.     *)
Chunks(S, start) ==
  LET sent == {k \in S : k >= start} IN
  [c \in 1..((Cardinality(sent) + ChunkSize - 1) \div ChunkSize) |->
     {k \in sent : (Rank(sent, k) - 1) \div ChunkSize = c - 1}]

(* Mutant: start one later.                                                *)
StartAfter(i, alive) ==
  Least({lastSent[i][j] : j \in alive} \cup {Greatest(buffer[i])}) + 2
    - Least(buffer[i])

(* Where publication starts: after what every robot alive was sent, given  *)
(* relative to the first key although it is compared with keys.            *)
Start(i, alive) ==
  Least({lastSent[i][j] : j \in alive} \cup {Greatest(buffer[i])}) + 1
    - Least(buffer[i])

(* Mutant: the mark is the next id, not the latest.                        *)
MarkedNext(i, alive) ==
  [j \in Others(i) |-> IF j \in alive THEN Greatest(buffer[i]) + 1
                                      ELSE lastSent[i][j]]

(* The robots alive are marked as sent everything.                         *)
Marked(i, alive) ==
  [j \in Others(i) |-> IF j \in alive THEN Greatest(buffer[i])
                                      ELSE lastSent[i][j]]

(* Mutant: robots never heard of do not hold deletion back.                *)
UselessOfHeard(i, sent) ==
  Least({sent[j] : j \in {x \in Others(i) : phase[i][x] # "unheard"}}
          \cup {Greatest(buffer[i])})

(* useless_descriptors(): what all other robots were sent, alive or not.   *)
Useless(i, sent) ==
  Least({sent[j] : j \in Others(i)} \cup {Greatest(buffer[i])})

(* Mutant: the bound itself is deleted too.                                *)
DeleteUpTo(S, from) ==
  IF from >= Least(S)
  THEN {k \in S : ~ (k <= from /\ Rank(S, k) % 2 = 1)}
  ELSE S

(* delete_useless_descriptors(): keys are deleted while the sorted dict is *)
(* iterated, and each deletion makes the iteration skip the next key.      *)
DeleteUseless(S, from) ==
  IF from >= Least(S)
  THEN {k \in S : ~ (k < from /\ Rank(S, k) % 2 = 1)}
  ELSE S

(* Mutant: the mark is the message's last id, also when it is older.       *)
LastOf(msg, known) == Greatest(msg)

(* The new last_keyframe_received.                                         *)
Received(msg, known) == Greatest(msg \cup {known})

Init ==
  /\ made = [i \in Robot |-> 0]
  /\ buffer = [i \in Robot |-> {}]
  /\ phase = [i \in Robot |-> [j \in Others(i) |-> "unheard"]]
  /\ recent = [i \in Robot |-> [j \in Others(i) |-> TRUE]]
  /\ lastSent = [i \in Robot |-> [j \in Others(i) |-> -1]]
  /\ lastReceived = [i \in Robot |-> [j \in Others(i) |-> -1]]
  /\ learned = [j \in Robot |-> [i \in Robot |-> {}]]
  /\ channel = [i \in Robot |-> [j \in Others(i) |-> <<>>]]
  /\ inRange = {p \in Robot \X Robot : p[1] # p[2]}
  /\ outages = 0

----------------------------------------------------------------------------
(* A keyframe arrives from the front-end and its descriptor is stored.     *)
AddGlobalDescriptor(i) ==
  /\ i \in Producer /\ made[i] < MaxKeyframes
  /\ made' = [made EXCEPT ![i] = @ + 1]
  /\ buffer' = [buffer EXCEPT ![i] = @ \cup {made[i]}]
  /\ UNCHANGED <<monitorVars, lastSent, lastReceived, learned, channel,
                 linkVars>>

(* i hears a heartbeat of j; the first one starts the init delay.          *)
HeartbeatCallback(i, j) ==
  /\ i \in Producer /\ <<i, j>> \in inRange
  /\ recent' = [recent EXCEPT ![i][j] = TRUE]
  /\ phase' = [phase EXCEPT ![i][j] = IF @ = "unheard" THEN "delay" ELSE @]
  /\ UNCHANGED <<made, buffer, lastSent, lastReceived, learned, channel,
                 linkVars>>

(* Time passes: init_delay_sec since the first heartbeat is over ...       *)
InitDelayEnds(i, j) ==
  /\ phase[i][j] = "delay"
  /\ phase' = [phase EXCEPT ![i][j] = "settled"]
  /\ UNCHANGED <<made, buffer, recent, lastSent, lastReceived, learned,
                 channel, linkVars>>

(* ... or max_delay_sec since the last one.                                *)
HeartbeatExpires(i, j) ==
  /\ i \in Producer /\ <<i, j>> \notin inRange
  /\ recent' = [recent EXCEPT ![i][j] = FALSE]
  /\ UNCHANGED <<made, buffer, phase, lastSent, lastReceived, learned,
                 channel, linkVars>>

(* The publication timer.  select_from_which_kf_to_send() asks each        *)
(* monitor twice whether its robot is alive, for where to start and for    *)
(* whom to mark: in between an init delay may end (settle) and a heartbeat *)
(* become too old (lapse).                                                 *)
GlobalDescriptorsTimerCallback(i) ==
  /\ buffer[i] # {}
  /\ \A j \in Others(i) : Len(channel[i][j]) < MaxQueue
  /\ \E settle \in SUBSET {j \in Others(i) : TimePasses /\ phase[i][j] = "delay"},
        lapse \in SUBSET {j \in Others(i) : /\ TimePasses /\ recent[i][j]
                                            /\ <<i, j>> \notin inRange} :
     LET alive == {j \in Others(i) : IsAlive(i, j)}
         later == (alive \cup {j \in settle : Monitoring /\ recent[i][j]}) \ lapse
         msgs  == Chunks(buffer[i], Start(i, alive))
     IN /\ lastSent' = [lastSent EXCEPT ![i] = Marked(i, later)]
        /\ phase' = [phase EXCEPT ![i] =
             [j \in Others(i) |-> IF j \in settle THEN "settled" ELSE @[j]]]
        /\ recent' = [recent EXCEPT ![i] =
             [j \in Others(i) |-> @[j] /\ j \notin lapse]]
        /\ channel' = [channel EXCEPT ![i] =
             [j \in Others(i) |->
                IF <<i, j>> \in inRange THEN @[j] \o msgs ELSE @[j]]]
        /\ buffer' = [buffer EXCEPT ![i] =
             DeleteUseless(@, Useless(i, Marked(i, later)))]
  /\ UNCHANGED <<made, lastReceived, learned, linkVars>>

(* j takes a message of i: get_unknown_range() keeps the descriptors newer *)
(* than any received before, and they go to the matcher.                   *)
GlobalDescriptorCallback(j, i) ==
  /\ channel[i][j] # <<>>
  /\ LET msg == Head(channel[i][j])
         known == lastReceived[j][i]
     IN /\ learned' = [learned EXCEPT ![j][i] = @ \cup {k \in msg : k > known}]
        /\ lastReceived' = [lastReceived EXCEPT ![j][i] =
                              Received(msg, known)]
        /\ channel' = [channel EXCEPT ![i][j] = Tail(@)]
  /\ UNCHANGED <<made, buffer, monitorVars, lastSent, linkVars>>

(* The robots move out of each other's range and back into it.             *)
GoOutOfRange(i, j) ==
  /\ outages < MaxOutages /\ <<i, j>> \in inRange
  /\ outages' = outages + 1
  /\ inRange' = inRange \ {<<i, j>>, <<j, i>>}
  /\ UNCHANGED <<made, buffer, monitorVars, lastSent, lastReceived, learned,
                 channel>>

ComeInRange(i, j) ==
  /\ <<i, j>> \notin inRange
  /\ inRange' = inRange \cup {<<i, j>>, <<j, i>>}
  /\ UNCHANGED <<made, buffer, monitorVars, lastSent, lastReceived, learned,
                 channel, outages>>

Next ==
  \E i \in Robot :
    \/ AddGlobalDescriptor(i)
    \/ GlobalDescriptorsTimerCallback(i)
    \/ \E j \in Others(i) :
         \/ HeartbeatCallback(i, j)
         \/ InitDelayEnds(i, j)
         \/ HeartbeatExpires(i, j)
         \/ GlobalDescriptorCallback(i, j)
         \/ GoOutOfRange(i, j)
         \/ ComeInRange(i, j)

Spec == Init /\ [][Next]_vars

(* Timers fire, heartbeats of robots in range and messages arrive, and     *)
(* delays end.                                                             *)
Fairness ==
  \A i \in Robot :
    /\ WF_vars(GlobalDescriptorsTimerCallback(i))
    /\ \A j \in Others(i) : /\ WF_vars(HeartbeatCallback(i, j))
                            /\ WF_vars(InitDelayEnds(i, j))
                            /\ WF_vars(GlobalDescriptorCallback(i, j))

FairSpec == Spec /\ Fairness

----------------------------------------------------------------------------
(* Every variable holds a value of its type.                               *)
TypeOK ==
  /\ made \in [Robot -> 0..MaxKeyframes]
  /\ buffer \in [Robot -> SUBSET Keyframe]
  /\ \A i \in Robot :
       /\ phase[i] \in [Others(i) -> {"unheard", "delay", "settled"}]
       /\ recent[i] \in [Others(i) -> BOOLEAN]
       /\ lastSent[i] \in [Others(i) -> {-1} \cup Keyframe]
       /\ lastReceived[i] \in [Others(i) -> {-1} \cup Keyframe]
       /\ learned[i] \in [Robot -> SUBSET Keyframe]
       /\ \A j \in Others(i) : \A n \in 1..Len(channel[i][j]) :
            channel[i][j][n] \in SUBSET Keyframe
  /\ inRange \subseteq Robot \X Robot
  /\ outages \in 0..MaxOutages

(* A descriptor not yet marked as sent to some robot, in range or not, is  *)
(* still in the buffer: what delete_useless_descriptors() removes, "all    *)
(* other robots" were sent.                                                *)
UnsentIsBuffered ==
  \A i \in Robot : \A j \in Others(i) : \A k \in 0..(made[i] - 1) :
    k > lastSent[i][j] => k \in buffer[i]

(* A descriptor is matched once: all a robot learned lies at or below the  *)
(* mark get_unknown_range() filters by, whatever is published again.       *)
NeverLearnedTwice ==
  \A j \in Robot : \A i \in Others(j) : \A k \in learned[j][i] :
    k <= lastReceived[j][i]

(* "the range of descriptors to send so that we do not loose info": each   *)
(* descriptor is learned, on its way, or still to be sent.                 *)
NoInfoLost ==
  \A i \in Robot : \A j \in Others(i) : \A k \in 0..(made[i] - 1) :
    \/ k \in learned[j][i]
    \/ /\ k > lastReceived[j][i]
       /\ \/ \E n \in 1..Len(channel[i][j]) : k \in channel[i][j][n]
          \/ k > lastSent[i][j] /\ k \in buffer[i]

(* Every descriptor is learned by every other robot in the end.            *)
EventuallyLearned ==
  \A i \in Robot : \A j \in Others(i) : \A k \in Keyframe :
    k < made[i] ~> k \in learned[j][i]

(* Once everybody has been sent everything, deletion catches up, skipped   *)
(* keys included: the last descriptor alone stays.                         *)
BufferDrained ==
  \A i \in Robot :
    made[i] = MaxKeyframes ~> buffer[i] = {MaxKeyframes - 1}

(* Sharing implements the abstract gossip.                                 *)
Gossip == INSTANCE DescriptorGossip
ImplementsGossip == Gossip!Spec
=============================================================================
