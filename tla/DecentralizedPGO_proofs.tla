---------------------- MODULE DecentralizedPGO_proofs ----------------------
(***************************************************************************)
(* The safety of the optimizer for any robots, closures and bounds.        *)
(*                                                                         *)
(* Type correctness needs CollectionComplete: the values an optimization   *)
(* puts together are those of collected graphs.  CollectionComplete in     *)
(* turn needs that a robot flagged as received has its graph in the map    *)
(* (FlagsMatch), because the loop tests the flags and reads the map.  So   *)
(* all are proved together, as the inductive invariant IInv.               *)
(*                                                                         *)
(* Who leads an optimization, whose poses it includes and what every       *)
(* result keeps are then proved apart, each on top of IInv.                *)
(***************************************************************************)
EXTENDS DecentralizedPGO, TLAPS

(* A flagged robot's pose graph is in the map.                             *)
FlagsMatch == \A r \in Robot : received[r] \subseteq DOMAIN graphs[r]

IInv == TypeOK /\ FlagsMatch /\ CollectionComplete /\ TimeoutArmed
               /\ SharedWithConcerned

----------------------------------------------------------------------------
(* Partial functions, as the code's maps are modelled.                     *)

(* A function on some of S is a partial function.                          *)
LEMMA PartialFnIntro ==
  ASSUME NEW S, NEW T, NEW D \in SUBSET S, NEW f \in [D -> T]
  PROVE  f \in PartialFn(S, T)
BY DEF PartialFn

(* A partial function has its domain in S and its values in T.             *)
LEMMA PartialFnElim ==
  ASSUME NEW S, NEW T, NEW f \in PartialFn(S, T)
  PROVE  DOMAIN f \subseteq S /\ f \in [DOMAIN f -> T]
BY DEF PartialFn

(* map::insert adds its key and keeps the type.                            *)
LEMMA InsertType ==
  ASSUME NEW S, NEW T, NEW f \in PartialFn(S, T), NEW k \in S, NEW v \in T
  PROVE  /\ Insert(f, k, v) \in PartialFn(S, T)
         /\ DOMAIN Insert(f, k, v) = DOMAIN f \cup {k}
<1>1. DOMAIN f \subseteq S /\ f \in [DOMAIN f -> T]
  BY PartialFnElim
<1>2. Insert(f, k, v) \in [DOMAIN f \cup {k} -> T]
  BY <1>1 DEF Insert
<1>3. DOMAIN f \cup {k} \in SUBSET S
  BY <1>1
<1> QED BY <1>2, <1>3, PartialFnIntro

(* A cleared map is a partial function.                                    *)
LEMMA NoEntries ==
  ASSUME NEW S, NEW T
  PROVE  [s \in {} |-> s] \in PartialFn(S, T)
<1>1. [s \in {} |-> s] \in [{} -> T]
  OBVIOUS
<1> QED BY <1>1, PartialFnIntro

(* What a breadth first search reaches are robots.                         *)
LEMMA ReachedAreRobots ==
  ASSUME NEW root, NEW succ
  PROVE  ReachedFrom(root, succ) \subseteq Robot
BY DEF ReachedFrom

----------------------------------------------------------------------------
(* The optimization of a complete collection.                              *)

(* An entry of the connectivity map, present or not, is a set of robots.   *)
LEMMA LinksType ==
  ASSUME NEW map \in PartialFn(Robot, SUBSET Robot), NEW x
  PROVE  Links(map, x) \in SUBSET Robot
BY PartialFnElim DEF Links

(* The local entry is added as any other.                                  *)
LEMMA LocalConnectivityType ==
  ASSUME TypeOK, NEW r \in Robot
  PROVE  LocalConnectivity(r) \in PartialFn(Robot, SUBSET Robot)
<1>1. connectivity[r] \in PartialFn(Robot, SUBSET Robot)
  BY DEF TypeOK
<1>2. ConnectedRobots(r) \in SUBSET Robot
  BY DEF ConnectedRobots
<1> QED BY <1>1, <1>2, InsertType DEF LocalConnectivity

(* With a complete collection the result is well typed and covers r and    *)
(* neighbours of r only, whatever the search found connected.              *)
LEMMA OptimizedType ==
  ASSUME TypeOK, NEW r \in Robot, NEW connected,
         DOMAIN neighbors[r] \subseteq DOMAIN graphs[r]
  PROVE  LET res == Optimized(r, Included(r, connected)) IN
         /\ res \in [Robot -> Estimates]
         /\ \A s \in Robot : res[s].values # {} =>
                               s \in DOMAIN neighbors[r] \cup {r}
<1> DEFINE included == Included(r, connected)
           res == Optimized(r, included)
<1>1. included \subseteq DOMAIN neighbors[r] \cup {r}
  BY DEF Included
<1>2. DOMAIN graphs[r] \subseteq Robot /\ graphs[r] \in [DOMAIN graphs[r] -> Graph]
  BY PartialFnElim DEF TypeOK
<1>3. ASSUME NEW s \in included
      PROVE  s \in Robot /\ ValuesOf(r, s) \in SUBSET Keyframe
  <2>1. CASE s = r
    BY <2>1 DEF ValuesOf, TypeOK
  <2>2. CASE s # r
    <3>1. s \in DOMAIN graphs[r]
      BY <1>1, <2>2
    <3> QED BY <1>2, <2>2, <3>1 DEF ValuesOf, Graph
  <2> QED BY <2>1, <2>2
<1>4. estimates[r].frame \in Robot
  BY DEF TypeOK, Estimates
<1>5. PICK tied : res = [s \in Robot |->
        IF s \in included
        THEN [values |-> ValuesOf(r, s),
              frame |-> IF s \in tied THEN estimates[r].frame ELSE s]
        ELSE Empty(s)]
  BY Zenon DEF Optimized
<1>6. ASSUME NEW s \in Robot
      PROVE  res[s] \in Estimates /\ (res[s].values # {} => s \in included)
  <2> HIDE DEF included, res
  <2>1. CASE s \in included
    <3>1. res[s] = [values |-> ValuesOf(r, s),
              frame |-> IF s \in tied THEN estimates[r].frame ELSE s]
      BY <1>5, <2>1
    <3> QED BY <1>3, <1>4, <2>1, <3>1 DEF Estimates
  <2>2. CASE s \notin included
    BY <1>5, <2>2 DEF Empty, Estimates
  <2> QED BY <2>1, <2>2
<1>7. res \in [Robot -> Estimates]
  <2> HIDE DEF included
  <2>1. res = [s \in Robot |-> res[s]]
    BY <1>5, Zenon
  <2> HIDE DEF res
  <2> QED BY <1>6, <2>1
<1> HIDE DEF included, res
<1>8. \A s \in Robot : res[s].values # {} => s \in DOMAIN neighbors[r] \cup {r}
  BY <1>1, <1>6
<1> QED BY <1>7, <1>8 DEF included, res
----------------------------------------------------------------------------
(* The initial states, and the steps that leave the round alone.           *)

LEMMA InitIInv == PGOAssumption /\ Init => IInv
<1> SUFFICES ASSUME PGOAssumption, Init PROVE IInv
  OBVIOUS
<1>1. \A r \in Robot : /\ neighbors[r] \in Neighbors /\ heard[r] \in Neighbors
                      /\ graphs[r] \in PartialFn(Robot, Graph)
                      /\ connectivity[r] \in PartialFn(Robot, SUBSET Robot)
  BY NoEntries DEF Init, Neighbors
<1>2. TypeOK
  <2>1. \A r \in Robot : Empty(r) \in Estimates
    BY DEF Empty, Estimates
  <2>2. /\ neighbors \in [Robot -> Neighbors] /\ heard \in [Robot -> Neighbors]
        /\ graphs \in [Robot -> PartialFn(Robot, Graph)]
        /\ connectivity \in [Robot -> PartialFn(Robot, SUBSET Robot)]
    BY <1>1 DEF Init
  <2>3. /\ estimates \in [Robot -> Estimates]
        /\ result \in [Robot -> [Robot -> Estimates]]
    BY <2>1 DEF Init
  <2>4. replies \in [Robot -> Seq(Neighbors)]
    BY DEF Init
  <2> QED BY <2>2, <2>3, <2>4 DEF Init, TypeOK, OptimizerState
<1>3. FlagsMatch /\ CollectionComplete /\ TimeoutArmed /\ SharedWithConcerned
  BY DEF Init, FlagsMatch, CollectionComplete, TimeoutArmed, SharedWithConcerned
<1> QED BY <1>2, <1>3 DEF IInv

(* A function stays in its set when one value is replaced by another of its
   range. *)
LEMMA ReplaceValue ==
  ASSUME NEW A, NEW B, NEW f \in [A -> B], NEW a, NEW b \in B
  PROVE  [f EXCEPT ![a] = b] \in [A -> B]
OBVIOUS

LEMMA OdometryStep ==
  ASSUME PGOAssumption, IInv, NEW r \in Robot, OdometryCallback(r)
  PROVE  IInv'
<1> USE DEF IInv, OdometryCallback, sessionVars, threadVars, poseVars, managerVars, netVars, boundVars
<1>1. TypeOK'
  <2>1. estimates' \in [Robot -> Estimates]
    <3> DEFINE e == [estimates[r] EXCEPT !.values = @ \cup {nextKeyframe[r]}]
    <3>1. e \in Estimates
      <4>1. estimates[r] \in Estimates /\ nextKeyframe[r] \in Keyframe
        BY DEF TypeOK
      <4> QED BY <4>1 DEF Estimates
    <3>2. estimates' = estimates \/ estimates' = [estimates EXCEPT ![r] = e]
      OBVIOUS
    <3>3. estimates \in [Robot -> Estimates]
      BY DEF TypeOK
    <3> HIDE DEF e, IInv, OdometryCallback
    <3>4. [estimates EXCEPT ![r] = e] \in [Robot -> Estimates]
      BY <3>1, <3>3, ReplaceValue
    <3> QED BY <3>2, <3>3, <3>4
  <2>2. nextKeyframe' \in [Robot -> Nat]
    BY DEF TypeOK
  <2> QED BY <2>1, <2>2 DEF TypeOK
<1>2. (FlagsMatch /\ CollectionComplete /\ TimeoutArmed /\ SharedWithConcerned)'
  BY DEF FlagsMatch, CollectionComplete, TimeoutArmed, SharedWithConcerned
<1> QED BY <1>1, <1>2

LEMMA LoopClosureStep ==
  ASSUME IInv, NEW r \in Robot, NEW e \in Closure,
         InterRobotLoopClosureCallback(r, e)
  PROVE  IInv'
<1> USE DEF IInv, InterRobotLoopClosureCallback, sessionVars, threadVars, poseVars, managerVars, netVars, boundVars
<1>1. TypeOK'
  BY DEF TypeOK
<1>2. (FlagsMatch /\ CollectionComplete /\ TimeoutArmed /\ SharedWithConcerned)'
  BY DEF FlagsMatch, CollectionComplete, TimeoutArmed, SharedWithConcerned
<1> QED BY <1>1, <1>2

LEMMA HeartbeatStep ==
  ASSUME IInv, NEW r \in Robot, NEW s \in Robot, HeartbeatCallback(r, s)
  PROVE  IInv'
<1> USE DEF IInv, HeartbeatCallback, sessionVars, threadVars, poseVars, managerVars, netVars, boundVars
<1>1. heard' \in [Robot -> Neighbors]
  <2>1. heard[r] \in PartialFn(Robot, Robot)
    BY DEF TypeOK, Neighbors
  <2>2. DOMAIN heard[r] \subseteq Robot /\ heard[r] \in [DOMAIN heard[r] -> Robot]
    BY <2>1, PartialFnElim
  <2> DEFINE h == [x \in DOMAIN heard[r] \cup {s} |->
                     IF x = s THEN origin[s] ELSE heard[r][x]]
  <2>3. h \in [DOMAIN heard[r] \cup {s} -> Robot]
    BY <2>2 DEF TypeOK
  <2>4. h \in Neighbors
    BY <2>2, <2>3, PartialFnIntro DEF Neighbors
  <2> HIDE DEF h
  <2>5. heard' = [heard EXCEPT ![r] = h]
    BY DEF h
  <2> QED BY <2>4, <2>5 DEF TypeOK
<1>2. TypeOK'
  BY <1>1 DEF TypeOK
<1>3. (FlagsMatch /\ CollectionComplete /\ TimeoutArmed /\ SharedWithConcerned)'
  BY DEF FlagsMatch, CollectionComplete, TimeoutArmed, SharedWithConcerned
<1> QED BY <1>2, <1>3

LEMMA GetNeighborsStep ==
  ASSUME IInv, NEW r \in Robot, GetCurrentNeighborsCallback(r)
  PROVE  IInv'
<1> USE DEF IInv, GetCurrentNeighborsCallback, sessionVars, threadVars, poseVars, managerVars, netVars, boundVars
<1>1. replies' \in [Robot -> Seq(Neighbors)]
  <2>1. PICK alive \in SUBSET DOMAIN heard[r] :
          replies' = [replies EXCEPT ![r] =
                        Append(@, [s \in alive |-> heard[r][s]])]
    OBVIOUS
  <2>2. DOMAIN heard[r] \subseteq Robot /\ heard[r] \in [DOMAIN heard[r] -> Robot]
    BY PartialFnElim DEF TypeOK, Neighbors
  <2> DEFINE view == [s \in alive |-> heard[r][s]]
  <2>3. view \in [alive -> Robot] /\ alive \in SUBSET Robot
    BY <2>2
  <2>4. view \in Neighbors
    BY <2>3, PartialFnIntro DEF Neighbors
  <2> HIDE DEF view
  <2>5. replies' = [replies EXCEPT ![r] = Append(replies[r], view)]
    BY <2>1 DEF view
  <2> QED BY <2>4, <2>5 DEF TypeOK
<1>2. TypeOK'
  BY <1>1 DEF TypeOK
<1>3. (FlagsMatch /\ CollectionComplete /\ TimeoutArmed /\ SharedWithConcerned)'
  BY DEF FlagsMatch, CollectionComplete, TimeoutArmed, SharedWithConcerned
<1> QED BY <1>2, <1>3

----------------------------------------------------------------------------
(* The steps of a round.                                                   *)

LEMMA OptimizationCallbackStep ==
  ASSUME IInv, NEW r \in Robot, OptimizationCallback(r)
  PROVE  IInv'
<1> USE DEF IInv, OptimizationCallback, sessionVars, threadVars, poseVars, managerVars, netVars, boundVars
<1> DEFINE none == [s \in {} |-> s]
<1>1. none \in PartialFn(Robot, Graph) /\ none \in PartialFn(Robot, SUBSET Robot)
  BY NoEntries
<1> HIDE DEF none
<1>2. /\ graphs' = [graphs EXCEPT ![r] = none]
      /\ connectivity' = [connectivity EXCEPT ![r] = none]
  BY DEF none
<1>3. TypeOK'
  BY <1>1, <1>2 DEF TypeOK, OptimizerState
<1>4. FlagsMatch'
  BY DEF TypeOK, FlagsMatch
<1>5. CollectionComplete'
  BY <1>2 DEF TypeOK, CollectionComplete
<1>6. TimeoutArmed'
  BY DEF TypeOK, TimeoutArmed
<1>7. SharedWithConcerned'
  BY DEF TypeOK, SharedWithConcerned
<1> QED BY <1>3, <1>4, <1>5, <1>6, <1>7

LEMMA CurrentNeighborsStep ==
  ASSUME IInv, NEW r \in Robot, CurrentNeighborsCallback(r)
  PROVE  IInv'
<1> USE DEF IInv, CurrentNeighborsCallback, StateAfterAnswer, sessionVars, threadVars, poseVars, managerVars, netVars, boundVars
<1>1. Head(replies[r]) \in Neighbors /\ Tail(replies[r]) \in Seq(Neighbors)
  BY DEF TypeOK
<1>2. TypeOK'
  BY <1>1 DEF TypeOK, OptimizerState
<1>3. (FlagsMatch /\ CollectionComplete /\ TimeoutArmed /\ SharedWithConcerned)'
  BY DEF TypeOK, FlagsMatch, CollectionComplete, TimeoutArmed,
         SharedWithConcerned
<1> QED BY <1>2, <1>3

LEMMA CollectStep ==
  ASSUME IInv, NEW r \in Robot, CollectPoseGraphs(r)
  PROVE  IInv'
<1> USE DEF IInv, CollectPoseGraphs, sessionVars, threadVars, poseVars, managerVars, netVars, boundVars
<1>1. DOMAIN neighbors[r] \subseteq Robot
  BY PartialFnElim DEF TypeOK, Neighbors
<1>2. TypeOK'
  <2>1. graphRequests' \subseteq GraphRequest
    BY <1>1 DEF TypeOK, GraphRequest
  <2>2. state' \in [Robot -> OptimizerState] /\ waiting' \in [Robot -> BOOLEAN]
    BY DEF TypeOK, OptimizerState
  <2> QED BY <2>1, <2>2 DEF TypeOK
<1>3. FlagsMatch'
  BY DEF FlagsMatch
<1>4. CollectionComplete'
  BY <1>1 DEF TypeOK, CollectionComplete
<1>5. TimeoutArmed' /\ SharedWithConcerned'
  <2>1. CASE state' = [state EXCEPT ![r] = "WAITING_FOR_NEIGHBORS_POSEGRAPHS"]
             /\ waiting' = [waiting EXCEPT ![r] = TRUE]
    BY <2>1 DEF TypeOK, TimeoutArmed, SharedWithConcerned
  <2>2. CASE state' = [state EXCEPT ![r] = "START_OPTIMIZATION"]
             /\ waiting' = waiting
    BY <2>2 DEF TypeOK, TimeoutArmed, SharedWithConcerned
  <2> QED BY <2>1, <2>2
<1> QED BY <1>2, <1>3, <1>4, <1>5

LEMMA GetPoseGraphStep ==
  ASSUME IInv, NEW s \in Robot, NEW m \in graphRequests,
         GetPoseGraphCallback(s, m)
  PROVE  IInv'
<1> USE DEF IInv, GetPoseGraphCallback, sessionVars, threadVars, poseVars, managerVars, netVars, boundVars
<1>1. graphMsgs' \subseteq GraphMsg
  <2> DEFINE mine == {e \in loops[s] : /\ e[1] \in m.ids /\ e[2] \in m.ids
                                      /\ (e[1] = s \/ e[2] = s)}
             from1 == {e \in mine : e[1] = s}
             ends == {x \in Robot \ {s} : \E e \in mine : x \in {e[1], e[2]}}
  <2>1. from1 \in SUBSET Closure /\ ends \in SUBSET Robot
    BY DEF TypeOK
  <2>2. odometry[s] \in SUBSET Keyframe
    BY DEF TypeOK
  <2>3. graphMsgs' = graphMsgs \cup
          {[to |-> r, from |-> s, values |-> odometry[s],
            edges |-> from1, connected |-> ends] : r \in Robot}
    BY Zenon
  <2> HIDE DEF mine, from1, ends
  <2> QED BY <2>1, <2>2, <2>3 DEF TypeOK, GraphMsg
<1>3. TypeOK'
  BY <1>1 DEF TypeOK
<1>2. (FlagsMatch /\ CollectionComplete /\ TimeoutArmed /\ SharedWithConcerned)'
  BY DEF FlagsMatch, CollectionComplete, TimeoutArmed, SharedWithConcerned
<1> QED BY <1>2, <1>3

LEMMA PoseGraphStep ==
  ASSUME IInv, NEW r \in Robot, NEW m \in graphMsgs, PoseGraphCallback(r, m)
  PROVE  IInv'
<1> USE DEF IInv, PoseGraphCallback, CheckReceivedPoseGraphs, sessionVars, threadVars, poseVars, managerVars, netVars, boundVars
<1>1. CASE state[r] # "WAITING_FOR_NEIGHBORS_POSEGRAPHS"
  <2>1. TypeOK'
    BY <1>1 DEF TypeOK
  <2>2. (FlagsMatch /\ CollectionComplete /\ TimeoutArmed /\ SharedWithConcerned)'
    BY <1>1 DEF FlagsMatch, CollectionComplete, TimeoutArmed, SharedWithConcerned
  <2> QED BY <2>1, <2>2
<1>2. CASE state[r] = "WAITING_FOR_NEIGHBORS_POSEGRAPHS"
  <2> DEFINE g == Insert(graphs[r], m.from, [values |-> m.values, edges |-> m.edges])
             c == Insert(connectivity[r], m.from, m.connected)
  <2>1. m.from \in Robot /\ m.connected \in SUBSET Robot
        /\ [values |-> m.values, edges |-> m.edges] \in Graph
    BY DEF TypeOK, GraphMsg, Graph
  <2>2. /\ graphs[r] \in PartialFn(Robot, Graph)
        /\ connectivity[r] \in PartialFn(Robot, SUBSET Robot)
    BY DEF TypeOK
  <2> DEFINE new == [values |-> m.values, edges |-> m.edges]
  <2> HIDE DEF new
  <2>3. /\ g \in PartialFn(Robot, Graph)
        /\ DOMAIN g = DOMAIN graphs[r] \cup {m.from}
    <3>1. new \in Graph
      BY <2>1 DEF new
    <3>2. g = Insert(graphs[r], m.from, new)
      BY DEF new
    <3> HIDE DEF g
    <3>3. Insert(graphs[r], m.from, new) \in PartialFn(Robot, Graph)
      BY <2>1, <2>2, <3>1, InsertType
    <3>4. DOMAIN Insert(graphs[r], m.from, new) = DOMAIN graphs[r] \cup {m.from}
      BY DEF Insert
    <3> QED BY <3>2, <3>3, <3>4
  <2>4. c \in PartialFn(Robot, SUBSET Robot)
    BY <2>1, <2>2, InsertType
  <2> HIDE DEF g, c
  <2>5. /\ graphs' = [graphs EXCEPT ![r] = g]
        /\ connectivity' = [connectivity EXCEPT ![r] = c]
        /\ received' = [received EXCEPT ![r] = @ \cup {m.from}]
    BY <1>2 DEF g, c
  <2>5a. \/ /\ state' = [state EXCEPT ![r] = "START_OPTIMIZATION"]
           /\ waiting' = [waiting EXCEPT ![r] = FALSE]
        \/ UNCHANGED <<state, waiting>>
    BY <1>2
  <2>6. TypeOK'
    <3>1. state' \in [Robot -> OptimizerState] /\ waiting' \in [Robot -> BOOLEAN]
      BY <2>5a DEF TypeOK, OptimizerState
    <3>2. /\ graphs' \in [Robot -> PartialFn(Robot, Graph)]
          /\ connectivity' \in [Robot -> PartialFn(Robot, SUBSET Robot)]
          /\ received' \in [Robot -> SUBSET Robot]
      BY <2>1, <2>3, <2>4, <2>5 DEF TypeOK
    <3> QED BY <3>1, <3>2 DEF TypeOK
  <2>7. FlagsMatch'
    BY <2>3, <2>5 DEF TypeOK, FlagsMatch
  <2>8. CollectionComplete'
    BY <1>2, <2>3, <2>5 DEF TypeOK, FlagsMatch, CollectionComplete
  <2>9. TimeoutArmed' /\ SharedWithConcerned'
    <3>1. CASE state' = [state EXCEPT ![r] = "START_OPTIMIZATION"]
               /\ waiting' = [waiting EXCEPT ![r] = FALSE]
      BY <3>1 DEF TypeOK, TimeoutArmed, SharedWithConcerned
    <3>2. CASE UNCHANGED <<state, waiting>>
      BY <3>2 DEF TimeoutArmed, SharedWithConcerned
    <3> QED BY <2>5a, <3>1, <3>2
  <2> QED BY <2>6, <2>7, <2>8, <2>9
<1> QED BY <1>1, <1>2

LEMMA TimeoutStep ==
  ASSUME IInv, NEW r \in Robot, CheckWaitingTimeout(r)
  PROVE  IInv'
<1> USE DEF IInv, CheckWaitingTimeout, TimesOut, sessionVars, threadVars, poseVars, managerVars, netVars, boundVars
<1>1. TypeOK'
  BY DEF TypeOK, OptimizerState
<1>2. (FlagsMatch /\ CollectionComplete /\ TimeoutArmed /\ SharedWithConcerned)'
  BY DEF TypeOK, FlagsMatch, CollectionComplete, TimeoutArmed,
         SharedWithConcerned
<1> QED BY <1>1, <1>2

LEMMA StartOptimizationStep ==
  ASSUME IInv, NEW r \in Robot, StartOptimization(r)
  PROVE  IInv'
<1> USE DEF IInv, sessionVars, threadVars, poseVars, managerVars, netVars, boundVars
<1> DEFINE map == LocalConnectivity(r)
<1>1. PICK garbage \in SUBSET Unallocated(r) :
       /\ connectivity' = [connectivity EXCEPT ![r] =
            [x \in DOMAIN map \cup Expanded(r, map, garbage) |-> Links(map, x)]]
       /\ IF 0 \in estimates[r].values
          THEN /\ result' = [result EXCEPT ![r] =
                    Optimized(r, Included(r, Connected(r, map, garbage)))]
               /\ thread' = [thread EXCEPT ![r] = "running"]
               /\ state' = [state EXCEPT ![r] = "OPTIMIZATION"]
          ELSE UNCHANGED <<state, threadVars>>
  BY Zenon DEF StartOptimization
<1>2. /\ state[r] = "START_OPTIMIZATION"
      /\ UNCHANGED <<waiting, neighbors, received, graphs, poseVars,
                     managerVars, netVars, boundVars>>
  BY DEF StartOptimization
<1>3. connectivity' \in [Robot -> PartialFn(Robot, SUBSET Robot)]
  <2>1. map \in PartialFn(Robot, SUBSET Robot)
    BY LocalConnectivityType
  <2> HIDE DEF map
  <2>2. DOMAIN map \cup Expanded(r, map, garbage) \subseteq Robot
    BY <2>1, PartialFnElim, ReachedAreRobots DEF Expanded
  <2> DEFINE c == [x \in DOMAIN map \cup Expanded(r, map, garbage) |-> Links(map, x)]
  <2>3. c \in [DOMAIN map \cup Expanded(r, map, garbage) -> SUBSET Robot]
    BY <2>1, LinksType
  <2>4. c \in PartialFn(Robot, SUBSET Robot)
    BY <2>2, <2>3, PartialFnIntro
  <2> HIDE DEF c
  <2>5. connectivity' = [connectivity EXCEPT ![r] = c]
    BY <1>1 DEF c
  <2> QED BY <2>4, <2>5 DEF TypeOK
<1> DEFINE res == Optimized(r, Included(r, Connected(r, map, garbage)))
<1>4. /\ res \in [Robot -> Estimates]
      /\ \A s \in Robot : res[s].values # {} => s \in DOMAIN neighbors[r] \cup {r}
  <2>1. DOMAIN neighbors[r] \subseteq DOMAIN graphs[r]
    BY <1>2 DEF CollectionComplete
  <2> QED BY <2>1, OptimizedType, Zenon
<1> HIDE DEF map, res
<1>5. \/ /\ result' = [result EXCEPT ![r] = res]
         /\ thread' = [thread EXCEPT ![r] = "running"]
         /\ state' = [state EXCEPT ![r] = "OPTIMIZATION"]
      \/ UNCHANGED <<state, thread, result>>
  BY <1>1 DEF map, res
<1>6. TypeOK'
  <2>1. /\ result' \in [Robot -> [Robot -> Estimates]]
        /\ thread' \in [Robot -> {"none", "running", "ready"}]
        /\ state' \in [Robot -> OptimizerState]
    <3>1. CASE UNCHANGED <<state, thread, result>>
      BY <3>1 DEF TypeOK
    <3>2. CASE /\ result' = [result EXCEPT ![r] = res]
               /\ thread' = [thread EXCEPT ![r] = "running"]
               /\ state' = [state EXCEPT ![r] = "OPTIMIZATION"]
      BY <1>4, <3>2 DEF TypeOK, OptimizerState
    <3> QED BY <1>5, <3>1, <3>2
  <2> QED BY <1>2, <1>3, <2>1 DEF TypeOK
<1>7. FlagsMatch' /\ CollectionComplete' /\ TimeoutArmed'
  BY <1>2, <1>5 DEF TypeOK, FlagsMatch, CollectionComplete, TimeoutArmed
<1>8. SharedWithConcerned'
  <2>1. CASE UNCHANGED <<state, thread, result>>
    BY <1>2, <2>1 DEF SharedWithConcerned
  <2>2. CASE /\ result' = [result EXCEPT ![r] = res]
             /\ thread' = [thread EXCEPT ![r] = "running"]
             /\ state' = [state EXCEPT ![r] = "OPTIMIZATION"]
    <3>1. ASSUME NEW q \in Robot, q # r, state'[q] = "OPTIMIZATION"
          PROVE  /\ thread'[q] # "none"
                 /\ \A s \in Robot : result'[q][s].values # {} =>
                                       s \in DOMAIN neighbors'[q] \cup {q}
      BY <1>2, <2>2, <3>1 DEF TypeOK, SharedWithConcerned
    <3>2. /\ thread'[r] # "none"
          /\ \A s \in Robot : result'[r][s].values # {} =>
                                s \in DOMAIN neighbors'[r] \cup {r}
      BY <1>2, <1>4, <2>2 DEF TypeOK
    <3> QED BY <3>1, <3>2 DEF SharedWithConcerned
  <2> QED BY <1>5, <2>1, <2>2
<1> QED BY <1>6, <1>7, <1>8

LEMMA OptimizeEndsStep ==
  ASSUME IInv, NEW r \in Robot, OptimizeEnds(r)
  PROVE  IInv'
<1> USE DEF IInv, OptimizeEnds, sessionVars, threadVars, poseVars, managerVars, netVars, boundVars
<1> DEFINE own == [s \in Robot |-> [values |-> result[r][s].values, frame |-> s]]
<1>1. /\ own \in [Robot -> Estimates]
      /\ \A s \in Robot : own[s].values = result[r][s].values
  BY DEF TypeOK, Estimates
<1> HIDE DEF own
<1>2. result' = result \/ result' = [result EXCEPT ![r] = own]
  BY DEF own
<1>3. TypeOK'
  <2>1. result' \in [Robot -> [Robot -> Estimates]]
    BY <1>1, <1>2 DEF TypeOK
  <2>2. thread' \in [Robot -> {"none", "running", "ready"}]
    BY DEF TypeOK
  <2> QED BY <2>1, <2>2 DEF TypeOK
<1>4. FlagsMatch' /\ CollectionComplete' /\ TimeoutArmed'
  BY DEF FlagsMatch, CollectionComplete, TimeoutArmed
<1>5. SharedWithConcerned'
  <2> SUFFICES ASSUME NEW q \in Robot, state[q] = "OPTIMIZATION"
               PROVE  /\ thread'[q] # "none"
                      /\ \A s \in Robot : result'[q][s].values # {} =>
                                            s \in DOMAIN neighbors[q] \cup {q}
    BY DEF SharedWithConcerned
  <2>1. \A s \in Robot : result'[q][s].values = result[q][s].values
    BY <1>1, <1>2 DEF TypeOK
  <2> QED BY <2>1 DEF TypeOK, SharedWithConcerned
<1> QED BY <1>3, <1>4, <1>5

LEMMA FinishStep ==
  ASSUME IInv, NEW r \in Robot, FinishOptimization(r)
  PROVE  IInv'
<1> USE DEF IInv, FinishOptimization, sessionVars, threadVars, poseVars, managerVars, netVars, boundVars
<1>1. DOMAIN neighbors[r] \subseteq Robot
  BY PartialFnElim DEF TypeOK, Neighbors
<1>2. resultMsgs' \subseteq ResultMsg
  BY <1>1 DEF TypeOK, ResultMsg, Estimates
<1>3. TypeOK'
  BY <1>2 DEF TypeOK, OptimizerState
<1>4. (FlagsMatch /\ CollectionComplete /\ TimeoutArmed /\ SharedWithConcerned)'
  BY DEF TypeOK, FlagsMatch, CollectionComplete, TimeoutArmed,
         SharedWithConcerned
<1> QED BY <1>3, <1>4

LEMMA OptimizedEstimatesStep ==
  ASSUME IInv, NEW r \in Robot, NEW m \in resultMsgs,
         OptimizedEstimatesCallback(r, m)
  PROVE  IInv'
<1> USE DEF IInv, OptimizedEstimatesCallback, Adopts, sessionVars, threadVars, poseVars, managerVars, netVars, boundVars
<1>1. TypeOK'
  <2>1. [values |-> m.values, frame |-> m.frame] \in Estimates /\ m.origin \in Robot
    BY DEF TypeOK, ResultMsg, Estimates
  <2> DEFINE e == [values |-> m.values, frame |-> m.frame]
  <2>3. \/ /\ estimates' = [estimates EXCEPT ![r] = e]
           /\ origin' = [origin EXCEPT ![r] = m.origin]
        \/ UNCHANGED <<estimates, origin>>
    BY DEF IInv
  <2> HIDE DEF e
  <2>4. e \in Estimates
    BY <2>1 DEF e
  <2>2. estimates' \in [Robot -> Estimates] /\ origin' \in [Robot -> Robot]
    <3>1. CASE /\ estimates' = [estimates EXCEPT ![r] = e]
               /\ origin' = [origin EXCEPT ![r] = m.origin]
      BY <2>1, <2>4, <3>1 DEF TypeOK
    <3>2. CASE UNCHANGED <<estimates, origin>>
      BY <3>2 DEF TypeOK
    <3> QED BY <2>3, <3>1, <3>2
  <2> QED BY <2>2 DEF TypeOK
<1>2. (FlagsMatch /\ CollectionComplete /\ TimeoutArmed /\ SharedWithConcerned)'
  BY DEF FlagsMatch, CollectionComplete, TimeoutArmed, SharedWithConcerned
<1> QED BY <1>1, <1>2

LEMMA RestartStep ==
  ASSUME IInv, NEW r \in Robot, Restart(r)
  PROVE  IInv'
<1> USE DEF IInv, Restart, sessionVars, threadVars, poseVars, managerVars, netVars, boundVars
<1> DEFINE none == [s \in {} |-> s]
<1>1. /\ none \in PartialFn(Robot, Graph) /\ none \in Neighbors
      /\ none \in PartialFn(Robot, SUBSET Robot)
  BY NoEntries DEF Neighbors
<1> HIDE DEF none
<1>2. /\ graphs' = [graphs EXCEPT ![r] = none]
      /\ connectivity' = [connectivity EXCEPT ![r] = none]
      /\ neighbors' = [neighbors EXCEPT ![r] = none]
  BY DEF none
<1>3. TypeOK'
  <2>1. /\ graphs' \in [Robot -> PartialFn(Robot, Graph)]
        /\ connectivity' \in [Robot -> PartialFn(Robot, SUBSET Robot)]
        /\ neighbors' \in [Robot -> Neighbors]
    BY <1>1, <1>2 DEF TypeOK
  <2>2. /\ state' \in [Robot -> OptimizerState]
        /\ waiting' \in [Robot -> BOOLEAN]
        /\ thread' \in [Robot -> {"none", "running", "ready"}]
        /\ replies' \in [Robot -> Seq(Neighbors)]
    BY DEF TypeOK, OptimizerState
  <2>3. /\ estimates' \in [Robot -> Estimates]
        /\ result' \in [Robot -> [Robot -> Estimates]]
    BY DEF TypeOK, Estimates, Empty
  <2> QED BY <2>1, <2>2, <2>3 DEF TypeOK
<1>4. FlagsMatch'
  BY DEF TypeOK, FlagsMatch
<1>5. CollectionComplete'
  BY <1>2 DEF TypeOK, CollectionComplete
<1>6. TimeoutArmed'
  BY DEF TypeOK, TimeoutArmed
<1>7. SharedWithConcerned'
  BY DEF TypeOK, SharedWithConcerned
<1> QED BY <1>3, <1>4, <1>5, <1>6, <1>7

----------------------------------------------------------------------------
(* The three facts together, and what follows for the specification.       *)

LEMMA NextIInv ==
  ASSUME PGOAssumption, IInv, [Next]_vars
  PROVE  IInv'
<1>1. CASE UNCHANGED vars
  BY <1>1 DEF vars, sessionVars, threadVars, poseVars, managerVars, netVars,
     boundVars, IInv, TypeOK, FlagsMatch, CollectionComplete, TimeoutArmed,
     SharedWithConcerned
<1>2. ASSUME NEW m \in graphRequests, GetPoseGraphCallback(m.to, m)
      PROVE  IInv'
  BY <1>2, GetPoseGraphStep DEF IInv, TypeOK, GraphRequest
<1>3. ASSUME NEW m \in graphMsgs, PoseGraphCallback(m.to, m)
      PROVE  IInv'
  BY <1>3, PoseGraphStep DEF IInv, TypeOK, GraphMsg
<1>4. ASSUME NEW m \in resultMsgs, OptimizedEstimatesCallback(m.to, m)
      PROVE  IInv'
  BY <1>4, OptimizedEstimatesStep DEF IInv, TypeOK, ResultMsg
<1>5. ASSUME NEW r \in Robot, NEW s \in InRange[r], HeartbeatCallback(r, s)
      PROVE  IInv'
  BY <1>5, HeartbeatStep DEF PGOAssumption
<1> QED
  BY <1>1, <1>2, <1>3, <1>4, <1>5, OdometryStep, LoopClosureStep,
     GetNeighborsStep, OptimizationCallbackStep, CurrentNeighborsStep,
     CollectStep, TimeoutStep, StartOptimizationStep, OptimizeEndsStep,
     FinishStep, RestartStep
  DEF Next, Loop

(* Every variable keeps its type.                                          *)
THEOREM TypeCorrect == Spec => []TypeOK
<1>1. IInv => TypeOK
  BY DEF IInv
<1> QED BY <1>1, InitIInv, NextIInv, PGOAssumption, PTL DEF Spec

(* aggregate_pose_graphs() finds the graph of every neighbour, for any     *)
(* number of robots and however late, lost or stale the answers are.       *)
THEOREM CollectionIsComplete == Spec => []CollectionComplete
<1>1. IInv => CollectionComplete
  BY DEF IInv
<1> QED BY <1>1, InitIInv, NextIInv, PGOAssumption, PTL DEF Spec

(* The timeout is armed in the two states that wait, and in no other.      *)
THEOREM TimeoutIsArmed == Spec => []TimeoutArmed
<1>1. IInv => TimeoutArmed
  BY DEF IInv
<1> QED BY <1>1, InitIInv, NextIInv, PGOAssumption, PTL DEF Spec

(* A result covers only robots it will be shared with, although a late     *)
(* answer may replace the neighbours at any time.                          *)
THEOREM ResultIsShared == Spec => []SharedWithConcerned
<1>1. IInv => SharedWithConcerned
  BY DEF IInv
<1> QED BY <1>1, InitIInv, NextIInv, PGOAssumption, PTL DEF Spec

----------------------------------------------------------------------------
(* The robot with the lowest id leads.                                     *)

Lowest(l) == \A r \in Robot : l <= r

(* What a view says of l's origin is that it is l.                         *)
TrueOf(l, view) == l \in DOMAIN view => view[l] = l

(* l's origin is its own wherever it is known, so no robot that answers    *)
(* is_optimizer() with l in view goes on, and no result of another robot   *)
(* is ever sent to l.                                                      *)
Leads(l) ==
  /\ origin[l] = l
  /\ \A r \in Robot \ {l} : Collecting(r) => l \notin DOMAIN neighbors[r]
LeadKnown(l) ==
  /\ \A r \in Robot : TrueOf(l, heard[r])
  /\ \A r \in Robot : \A i \in 1..Len(replies[r]) : TrueOf(l, replies[r][i])
  /\ \A m \in resultMsgs : m.to = l => m.origin = l
LeadInv(l) == Leads(l) /\ LeadKnown(l)

LEMMA LeadInit ==
  ASSUME Init, NEW l \in Robot
  PROVE  LeadInv(l)
BY DEF Init, LeadInv, Leads, LeadKnown, TrueOf, Collecting

(* A robot that hears of l is told that its origin is l.                   *)
LEMMA LeadHeartbeat ==
  ASSUME IInv, NEW l \in Robot, LeadInv(l), NEW r \in Robot, NEW s \in Robot,
         HeartbeatCallback(r, s)
  PROVE  LeadInv(l)'
<1> USE DEF HeartbeatCallback, poseVars
<1>1. Leads(l)'
  BY DEF LeadInv, Leads, Collecting
<1>2. ASSUME NEW q \in Robot
      PROVE  TrueOf(l, heard[q])'
  <2>1. TrueOf(l, heard[q]) /\ origin[l] = l
    BY DEF LeadInv, Leads, LeadKnown
  <2> DEFINE h == [x \in DOMAIN heard[r] \cup {s} |->
                     IF x = s THEN origin[s] ELSE heard[r][x]]
  <2>2. heard' = [heard EXCEPT ![r] = h] /\ heard \in [Robot -> Neighbors]
    BY DEF IInv, TypeOK
  <2>3. CASE q = r
    <3>1. heard'[q] = h
      BY <2>2, <2>3
    <3> QED BY <2>1, <2>3, <3>1 DEF TrueOf
  <2>4. CASE q # r
    <3>1. heard'[q] = heard[q]
      BY <2>2, <2>4
    <3> QED BY <2>1, <3>1 DEF TrueOf
  <2> QED BY <2>3, <2>4
<1>3. LeadKnown(l)'
  BY <1>2 DEF LeadInv, LeadKnown, netVars, TrueOf
<1> QED BY <1>1, <1>3 DEF LeadInv

(* The neighbour manager reports the origins it heard.                     *)
LEMMA LeadManager ==
  ASSUME IInv, NEW l \in Robot, LeadInv(l), NEW r \in Robot,
         GetCurrentNeighborsCallback(r)
  PROVE  LeadInv(l)'
<1> USE DEF GetCurrentNeighborsCallback, poseVars
<1>1. Leads(l)'
  BY DEF LeadInv, Leads, Collecting
<1>2. PICK alive \in SUBSET DOMAIN heard[r] :
        replies' = [replies EXCEPT ![r] =
                      Append(@, [s \in alive |-> heard[r][s]])]
  OBVIOUS
<1> DEFINE view == [s \in alive |-> heard[r][s]]
<1>3. TrueOf(l, view)
  BY DEF LeadInv, LeadKnown, TrueOf
<1>4. view \in Neighbors
  <2>1. DOMAIN heard[r] \subseteq Robot /\ heard[r] \in [DOMAIN heard[r] -> Robot]
    BY PartialFnElim DEF IInv, TypeOK, Neighbors
  <2>2. view \in [alive -> Robot] /\ alive \in SUBSET Robot
    BY <2>1
  <2> QED BY <2>2, PartialFnIntro DEF Neighbors
<1> HIDE DEF view
<1>5. replies' = [replies EXCEPT ![r] = Append(replies[r], view)]
  BY <1>2 DEF view
<1>6. ASSUME NEW q \in Robot, NEW i \in 1..Len(replies'[q])
      PROVE  TrueOf(l, replies'[q][i])
  <2>1. replies \in [Robot -> Seq(Neighbors)]
    BY DEF IInv, TypeOK
  <2>2. \A j \in 1..Len(replies[q]) : TrueOf(l, replies[q][j])
    BY DEF LeadInv, LeadKnown
  <2>3. CASE q # r
    BY <1>5, <2>1, <2>2, <2>3
  <2>4. CASE q = r
    <3>1. replies'[q] = Append(replies[q], view) /\ replies[q] \in Seq(Neighbors)
      BY <1>5, <2>1, <2>4
    <3>2. \/ i \in 1..Len(replies[q]) /\ replies'[q][i] = replies[q][i]
          \/ replies'[q][i] = view
      BY <1>4, <3>1
    <3> QED BY <1>3, <2>2, <3>2
  <2> QED BY <2>3, <2>4
<1>7. LeadKnown(l)'
  BY <1>6 DEF LeadInv, LeadKnown, netVars
<1> QED BY <1>1, <1>7 DEF LeadInv

(* Who has l in view finds that it is not the optimizer.                   *)
LEMMA LeadWins ==
  ASSUME PGOAssumption, IInv, NEW l \in Robot, Lowest(l), NEW r \in Robot \ {l},
         NEW view, TrueOf(l, view), l \in DOMAIN view
  PROVE  ~ IsOptimizer(r, view)
<1>1. view[l] = l /\ origin[r] \in Robot
  BY DEF TrueOf, IInv, TypeOK
<1>2. l \in Nat /\ r \in Nat /\ origin[r] \in Nat /\ l <= r /\ l <= origin[r]
  BY <1>1 DEF PGOAssumption, Lowest
<1>3. origin[r] > view[l] \/ (origin[r] = view[l] /\ r > l)
  BY <1>1, <1>2
<1> QED BY <1>3 DEF IsOptimizer

LEMMA TailIndex ==
  ASSUME NEW S, NEW q \in Seq(S), q # <<>>, NEW i \in 1..Len(Tail(q))
  PROVE  Tail(q)[i] = q[i + 1] /\ i + 1 \in 1..Len(q)
OBVIOUS

LEMMA LeadAnswer ==
  ASSUME PGOAssumption, IInv, NEW l \in Robot, Lowest(l), LeadInv(l),
         NEW r \in Robot, CurrentNeighborsCallback(r)
  PROVE  LeadInv(l)'
<1> USE DEF CurrentNeighborsCallback, poseVars
<1> DEFINE view == Head(replies[r])
<1>1. replies[r] \in Seq(Neighbors) /\ replies[r] # <<>>
  BY DEF IInv, TypeOK
<1>2. TrueOf(l, view)
  <2>1. view = replies[r][1] /\ 1 \in 1..Len(replies[r])
    BY <1>1
  <2> QED BY <2>1 DEF LeadInv, LeadKnown
<1> HIDE DEF view
<1>3. /\ neighbors' = [neighbors EXCEPT ![r] = view]
      /\ state' = [state EXCEPT ![r] = StateAfterAnswer(r, view)]
  BY DEF view
<1>4. ASSUME NEW q \in Robot \ {l}, Collecting(q)'
      PROVE  l \notin DOMAIN neighbors'[q]
  <2>1. CASE q # r
    <3>1. state'[q] = state[q] /\ neighbors'[q] = neighbors[q]
      BY <1>3, <2>1 DEF IInv, TypeOK
    <3> QED BY <1>4, <3>1 DEF LeadInv, Leads, Collecting
  <2>2. CASE q = r
    <3>1. state'[q] = StateAfterAnswer(r, view) /\ neighbors'[q] = view
      BY <1>3, <2>2 DEF IInv, TypeOK
    <3>2. IsOptimizer(q, view)
      BY <1>4, <2>2, <3>1 DEF Collecting, StateAfterAnswer
    <3> QED BY <1>2, <3>1, <3>2, LeadWins
  <2> QED BY <2>1, <2>2
<1>5. Leads(l)'
  BY <1>4 DEF LeadInv, Leads
<1>6. ASSUME NEW q \in Robot, NEW i \in 1..Len(replies'[q])
      PROVE  TrueOf(l, replies'[q][i])
  <2>1. \A j \in 1..Len(replies[q]) : TrueOf(l, replies[q][j])
    BY DEF LeadInv, LeadKnown
  <2>2. CASE q # r
    BY <2>1, <2>2 DEF IInv, TypeOK
  <2>3. CASE q = r
    <3>1. replies'[q] = Tail(replies[q]) /\ replies[q] \in Seq(Neighbors)
          /\ replies[q] # <<>>
      BY <1>1, <2>3 DEF IInv, TypeOK
    <3>2. replies'[q][i] = replies[q][i + 1] /\ i + 1 \in 1..Len(replies[q])
      BY <3>1, TailIndex
    <3> QED BY <2>1, <3>2
  <2> QED BY <2>2, <2>3
<1>7. LeadKnown(l)'
  BY <1>6 DEF LeadInv, LeadKnown, netVars
<1> QED BY <1>5, <1>7 DEF LeadInv

(* Only l itself optimizes with l, so l is sent no other result.           *)
LEMMA LeadFinish ==
  ASSUME IInv, NEW l \in Robot, LeadInv(l), NEW r \in Robot, FinishOptimization(r)
  PROVE  LeadInv(l)'
<1> USE DEF FinishOptimization, poseVars, managerVars
<1>1. Leads(l)'
  BY DEF LeadInv, Leads, Collecting, IInv, TypeOK
<1>2. ASSUME NEW m \in resultMsgs', m.to = l
      PROVE  m.origin = l
  <2>1. CASE m \in resultMsgs
    BY <1>2, <2>1 DEF LeadInv, LeadKnown
  <2>2. CASE m \notin resultMsgs
    <3>1. PICK s \in DOMAIN neighbors[r] \cup {r} :
            m = [to |-> s, origin |-> origin[r], values |-> result[r][s].values,
                 frame |-> result[r][s].frame]
      BY <2>2
    <3>2. r = l
      <4>1. Collecting(r) /\ l \in DOMAIN neighbors[r] \cup {r}
        BY <1>2, <3>1 DEF Collecting
      <4> QED BY <4>1 DEF LeadInv, Leads
    <3> QED BY <3>1, <3>2 DEF LeadInv, Leads
  <2> QED BY <2>1, <2>2
<1>3. LeadKnown(l)'
  BY <1>2 DEF LeadInv, LeadKnown
<1> QED BY <1>1, <1>3 DEF LeadInv

LEMMA LeadAdopt ==
  ASSUME IInv, NEW l \in Robot, LeadInv(l), NEW r \in Robot, NEW m \in resultMsgs,
         OptimizedEstimatesCallback(r, m)
  PROVE  LeadInv(l)'
<1> USE DEF OptimizedEstimatesCallback, managerVars
<1>1. origin'[l] = l
  BY DEF LeadInv, Leads, LeadKnown, IInv, TypeOK
<1>2. Leads(l)'
  BY <1>1 DEF LeadInv, Leads, Collecting
<1>3. LeadKnown(l)'
  BY DEF LeadInv, LeadKnown
<1> QED BY <1>2, <1>3 DEF LeadInv

LEMMA LeadRestart ==
  ASSUME IInv, NEW l \in Robot, LeadInv(l), NEW r \in Robot, Restart(r)
  PROVE  LeadInv(l)'
<1> USE DEF Restart
<1>1. Leads(l)'
  BY DEF LeadInv, Leads, Collecting, IInv, TypeOK
<1>2. LeadKnown(l)'
  BY DEF LeadInv, LeadKnown, IInv, TypeOK
<1> QED BY <1>1, <1>2 DEF LeadInv

(* The remaining steps move no origin and start no collection.             *)
LEMMA LeadQuiet ==
  ASSUME IInv, NEW l \in Robot, LeadInv(l),
         UNCHANGED <<neighbors, origin, heard, replies, resultMsgs>>,
         \A r \in Robot : Collecting(r)' => Collecting(r)
  PROVE  LeadInv(l)'
BY DEF LeadInv, Leads, LeadKnown

LEMMA LeadOther ==
  ASSUME IInv, NEW l \in Robot, LeadInv(l),
         \/ UNCHANGED vars
         \/ \E r \in Robot :
              \/ OdometryCallback(r)
              \/ \E e \in Closure : InterRobotLoopClosureCallback(r, e)
              \/ OptimizationCallback(r)
              \/ CollectPoseGraphs(r) \/ StartOptimization(r)
              \/ CheckWaitingTimeout(r) \/ OptimizeEnds(r)
         \/ \E m \in graphRequests : GetPoseGraphCallback(m.to, m)
         \/ \E m \in graphMsgs : PoseGraphCallback(m.to, m)
  PROVE  LeadInv(l)'
<1>1. UNCHANGED <<neighbors, origin, heard, replies, resultMsgs>>
  BY DEF vars, OdometryCallback, InterRobotLoopClosureCallback,
     OptimizationCallback, CollectPoseGraphs, StartOptimization,
     CheckWaitingTimeout, OptimizeEnds, GetPoseGraphCallback, PoseGraphCallback,
     poseVars, managerVars, netVars
<1>2. \/ state' = state
      \/ \E r \in Robot, x \in {"IDLE", "WAITING_FOR_NEIGHBORS_INFO"} :
           state' = [state EXCEPT ![r] = x]
      \/ \E r \in Robot, x \in OptimizerState :
           state' = [state EXCEPT ![r] = x] /\ Collecting(r)
  <2>1. ASSUME NEW r \in Robot,
               OptimizationCallback(r) \/ CheckWaitingTimeout(r)
        PROVE  \E x \in {"IDLE", "WAITING_FOR_NEIGHBORS_INFO"} :
                 state' = [state EXCEPT ![r] = x]
    BY <2>1 DEF OptimizationCallback, CheckWaitingTimeout
  <2>2. ASSUME NEW r \in Robot, CollectPoseGraphs(r) \/ StartOptimization(r)
        PROVE  \/ state' = state
               \/ /\ Collecting(r)
                  /\ \E x \in OptimizerState : state' = [state EXCEPT ![r] = x]
    BY <2>2 DEF CollectPoseGraphs, StartOptimization, Collecting, OptimizerState
  <2>3. ASSUME NEW m \in graphMsgs, PoseGraphCallback(m.to, m)
        PROVE  \/ state' = state
               \/ /\ Collecting(m.to) /\ m.to \in Robot
                  /\ \E x \in OptimizerState : state' = [state EXCEPT ![m.to] = x]
    BY <2>3 DEF PoseGraphCallback, Collecting, OptimizerState, IInv, TypeOK, GraphMsg
  <2> QED
    BY <2>1, <2>2, <2>3 DEF vars, OdometryCallback, InterRobotLoopClosureCallback,
       OptimizeEnds, GetPoseGraphCallback
<1>3. ASSUME NEW q \in Robot
      PROVE  Collecting(q)' => Collecting(q)
  BY <1>2 DEF Collecting, IInv, TypeOK
<1> QED BY <1>1, <1>3, LeadQuiet

LEMMA NextLead ==
  ASSUME PGOAssumption, IInv, [Next]_vars, NEW l \in Robot, Lowest(l), LeadInv(l)
  PROVE  LeadInv(l)'
<1>1. ASSUME NEW m \in resultMsgs, OptimizedEstimatesCallback(m.to, m)
      PROVE  LeadInv(l)'
  BY <1>1, LeadAdopt DEF IInv, TypeOK, ResultMsg
<1>2. ASSUME NEW r \in Robot, NEW s \in InRange[r], HeartbeatCallback(r, s)
      PROVE  LeadInv(l)'
  BY <1>2, LeadHeartbeat DEF PGOAssumption
<1> QED
  BY <1>1, <1>2, LeadManager, LeadAnswer, LeadFinish, LeadRestart, LeadOther
  DEF Next, Loop

(* The robot with the lowest id keeps its own frame, and no robot that     *)
(* has it among its neighbours collects or optimizes.                      *)
THEOREM LowestLeads == Spec => []LowestRobotLeads
<1> DEFINE I == IInv /\ \A l \in Robot : Lowest(l) => LeadInv(l)
<1>1. Init => I
  BY InitIInv, LeadInit, PGOAssumption
<1>2. I /\ [Next]_vars => I'
  <2> SUFFICES ASSUME I, [Next]_vars PROVE I'
    OBVIOUS
  <2>1. IInv'
    BY NextIInv, PGOAssumption
  <2>2. ASSUME NEW l \in Robot, Lowest(l) PROVE LeadInv(l)'
    BY <2>2, NextLead, PGOAssumption
  <2> QED BY <2>1, <2>2 DEF Lowest
<1>3. I => LowestRobotLeads
  BY DEF LeadInv, Leads, Lowest, LowestRobotLeads
<1> QED BY <1>1, <1>2, <1>3, PTL DEF Spec

----------------------------------------------------------------------------
(* Only connected robots are included.                                     *)

(* The search starts at its root, follows every link of what it reached    *)
(* and reaches more when there are more links.                             *)
LEMMA ReachRoot ==
  ASSUME NEW root \in Robot, NEW succ
  PROVE  root \in ReachedFrom(root, succ)
BY DEF ReachedFrom

LEMMA ReachClosed ==
  ASSUME NEW root \in Robot, NEW succ, NEW x \in ReachedFrom(root, succ),
         succ[x] \in SUBSET Robot
  PROVE  succ[x] \subseteq ReachedFrom(root, succ)
<1> SUFFICES ASSUME NEW z \in succ[x], NEW S \in SUBSET Robot,
                    root \in S, \A y \in S : succ[y] \subseteq S
             PROVE  z \in S
  BY DEF ReachedFrom
<1>1. x \in S
  BY DEF ReachedFrom
<1> QED BY <1>1

LEMMA ReachMore ==
  ASSUME NEW root \in Robot, NEW few, NEW many,
         \A x \in Robot : few[x] \subseteq many[x]
  PROVE  ReachedFrom(root, few) \subseteq ReachedFrom(root, many)
<1> SUFFICES ASSUME NEW z \in ReachedFrom(root, few), NEW S \in SUBSET Robot,
                    root \in S, \A y \in S : many[y] \subseteq S
             PROVE  z \in S
  BY DEF ReachedFrom
<1>1. \A y \in S : few[y] \subseteq S
  OBVIOUS
<1> QED BY <1>1 DEF ReachedFrom

(* Whatever cells of the array look visited, what is found is connected.   *)
LEMMA ConnectedReached ==
  ASSUME NEW map \in PartialFn(Robot, SUBSET Robot), NEW r \in Robot, NEW garbage
  PROVE  Connected(r, map, garbage)
           \subseteq ReachedFrom(r, [x \in Robot |-> Links(map, x)])
<1> DEFINE all == [x \in Robot |-> Links(map, x)]
           few == [x \in Robot |-> Links(map, x) \ garbage]
<1>1. ReachedFrom(r, few) \subseteq ReachedFrom(r, all)
  <2>1. \A x \in Robot : few[x] \subseteq all[x]
    OBVIOUS
  <2> HIDE DEF few, all
  <2> QED BY <2>1, ReachMore
<1>2. r \in ReachedFrom(r, all)
  BY ReachRoot
<1>3. ASSUME NEW x \in ReachedFrom(r, all)
      PROVE  Links(map, x) \subseteq ReachedFrom(r, all)
  <2>1. x \in Robot
    BY ReachedAreRobots
  <2>2. all[x] = Links(map, x) /\ all[x] \in SUBSET Robot
    BY <2>1, LinksType
  <2> HIDE DEF all
  <2> QED BY <2>2, ReachClosed
<1>4. Connected(r, map, garbage) =
        {r} \cup UNION {Links(map, x) : x \in ReachedFrom(r, few)}
  BY DEF Connected, Expanded
<1> HIDE DEF few, all
<1>5. Connected(r, map, garbage) \subseteq ReachedFrom(r, all)
  BY <1>1, <1>2, <1>3, <1>4
<1> QED BY <1>5 DEF all

(* The robots a map connects to r.                                         *)
Reach(r, map) == ReachedFrom(r, [x \in Robot |-> Links(map, x)])

LEMMA ConnectedStart ==
  ASSUME IInv, OnlyConnectedIncluded, NEW r \in Robot, StartOptimization(r)
  PROVE  OnlyConnectedIncluded'
<1> DEFINE map == LocalConnectivity(r)
<1>1. PICK garbage \in SUBSET Unallocated(r) :
       /\ connectivity' = [connectivity EXCEPT ![r] =
            [x \in DOMAIN map \cup Expanded(r, map, garbage) |-> Links(map, x)]]
       /\ IF 0 \in estimates[r].values
          THEN /\ result' = [result EXCEPT ![r] =
                    Optimized(r, Included(r, Connected(r, map, garbage)))]
               /\ thread' = [thread EXCEPT ![r] = "running"]
               /\ state' = [state EXCEPT ![r] = "OPTIMIZATION"]
          ELSE UNCHANGED <<state, threadVars>>
  BY Zenon DEF StartOptimization
<1> DEFINE c == [x \in DOMAIN map \cup Expanded(r, map, garbage) |-> Links(map, x)]
           connected == Connected(r, map, garbage)
           res == Optimized(r, Included(r, connected))
<1>2. map \in PartialFn(Robot, SUBSET Robot)
  BY LocalConnectivityType DEF IInv
<1>3. \A x \in Robot : Links(c, x) = Links(map, x)
  BY DEF Links
<1>4. connected \subseteq Reach(r, map)
  <2> HIDE DEF map
  <2> QED BY <1>2, ConnectedReached DEF Reach
<1>5. Reach(r, c) = Reach(r, map)
  <2> HIDE DEF c, map
  <2>1. [x \in Robot |-> Links(c, x)] = [x \in Robot |-> Links(map, x)]
    BY <1>3
  <2> QED BY <2>1, Zenon DEF Reach
<1>6. \A s \in Robot : res[s].values # {} => s \in {r} \cup connected
  <2> HIDE DEF connected
  <2>1. \A s \in Robot : s \notin Included(r, connected) => res[s] = Empty(s)
    BY DEF Optimized
  <2>2. \A s \in Robot : Empty(s).values = {}
    BY DEF Empty
  <2>3. Included(r, connected) \subseteq {r} \cup connected
    BY DEF Included
  <2> HIDE DEF res
  <2> QED BY <2>1, <2>2, <2>3
<1>7. state[r] = "START_OPTIMIZATION"
  BY DEF StartOptimization
<1> HIDE DEF c, connected, res, map
<1>8. /\ connectivity' = [connectivity EXCEPT ![r] = c]
      /\ \/ result' = [result EXCEPT ![r] = res]
         \/ result' = result /\ state' = state
      /\ \A q \in Robot \ {r} : state'[q] = "OPTIMIZATION" => state[q] = "OPTIMIZATION"
  BY <1>1 DEF c, connected, res, map, threadVars, IInv, TypeOK
<1>9. ASSUME NEW q \in Robot, state'[q] = "OPTIMIZATION",
             NEW s \in Robot, result'[q][s].values # {}
      PROVE  s \in Reach(q, connectivity'[q])
  <2>1. CASE q = r
    <3>1. connectivity'[q] = c /\ result'[q] = res
      BY <1>7, <1>8, <1>9, <2>1 DEF IInv, TypeOK
    <3>2. s \in {r} \cup connected
      BY <1>6, <1>9, <3>1
    <3>3. r \in Reach(r, c)
      BY ReachRoot DEF Reach
    <3> QED BY <1>4, <1>5, <2>1, <3>1, <3>2, <3>3
  <2>2. CASE q # r
    <3>1. /\ connectivity'[q] = connectivity[q] /\ result'[q] = result[q]
          /\ state[q] = "OPTIMIZATION"
      BY <1>8, <1>9, <2>2 DEF IInv, TypeOK
    <3> QED BY <1>9, <3>1 DEF OnlyConnectedIncluded, Reach
  <2> QED BY <2>1, <2>2
<1> QED BY <1>9, Zenon DEF OnlyConnectedIncluded, Reach

(* A task that ends, well or not, has the robots it had.                   *)
LEMMA ConnectedEnds ==
  ASSUME IInv, OnlyConnectedIncluded, NEW r \in Robot, OptimizeEnds(r)
  PROVE  OnlyConnectedIncluded'
<1> USE DEF OptimizeEnds, sessionVars
<1> SUFFICES ASSUME NEW q \in Robot, state[q] = "OPTIMIZATION",
                    NEW s \in Robot, result'[q][s].values # {}
             PROVE  s \in ReachedFrom(q, [x \in Robot |-> Links(connectivity[q], x)])
  BY DEF OnlyConnectedIncluded
<1> DEFINE own == [x \in Robot |-> [values |-> result[r][x].values, frame |-> x]]
<1>1. result'[q][s].values = result[q][s].values
  <2>1. own[s].values = result[r][s].values
    OBVIOUS
  <2> HIDE DEF own
  <2>2. result' = result \/ result' = [result EXCEPT ![r] = own]
    BY DEF own
  <2> QED BY <2>1, <2>2 DEF IInv, TypeOK
<1> QED BY <1>1 DEF OnlyConnectedIncluded

(* The remaining steps start no optimization and leave the results and     *)
(* connections of those that run.                                          *)
LEMMA ConnectedOther ==
  ASSUME IInv, OnlyConnectedIncluded,
         \A q \in Robot : state'[q] = "OPTIMIZATION" =>
           /\ state[q] = "OPTIMIZATION" /\ result'[q] = result[q]
           /\ connectivity'[q] = connectivity[q]
  PROVE  OnlyConnectedIncluded'
BY DEF OnlyConnectedIncluded

LEMMA NextConnected ==
  ASSUME PGOAssumption, IInv, [Next]_vars, OnlyConnectedIncluded
  PROVE  OnlyConnectedIncluded'
<1> DEFINE Kept == \A q \in Robot : state'[q] = "OPTIMIZATION" =>
                     /\ state[q] = "OPTIMIZATION" /\ result'[q] = result[q]
                     /\ connectivity'[q] = connectivity[q]
<1>1. ASSUME NEW r \in Robot,
             \/ OdometryCallback(r)
             \/ \E e \in Closure : InterRobotLoopClosureCallback(r, e)
             \/ \E s \in InRange[r] : HeartbeatCallback(r, s)
             \/ GetCurrentNeighborsCallback(r)
      PROVE  Kept
  BY <1>1 DEF OdometryCallback, InterRobotLoopClosureCallback, HeartbeatCallback,
     GetCurrentNeighborsCallback, sessionVars, threadVars
<1>2. ASSUME NEW r \in Robot, OptimizationCallback(r) \/ Restart(r)
      PROVE  Kept
  BY <1>2 DEF OptimizationCallback, Restart, threadVars, IInv, TypeOK
<1>3. ASSUME NEW r \in Robot,
             \/ CurrentNeighborsCallback(r) \/ CollectPoseGraphs(r)
             \/ CheckWaitingTimeout(r) \/ FinishOptimization(r)
      PROVE  Kept
  BY <1>3 DEF CurrentNeighborsCallback, StateAfterAnswer, CollectPoseGraphs,
     CheckWaitingTimeout, FinishOptimization, sessionVars, threadVars, IInv, TypeOK
<1>4. ASSUME NEW m \in graphRequests, GetPoseGraphCallback(m.to, m)
      PROVE  Kept
  BY <1>4 DEF GetPoseGraphCallback, sessionVars, threadVars
<1>5. ASSUME NEW m \in graphMsgs, PoseGraphCallback(m.to, m)
      PROVE  Kept
  <2>1. CASE UNCHANGED <<state, sessionVars, threadVars>>
    BY <2>1 DEF sessionVars, threadVars
  <2>2. CASE state[m.to] = "WAITING_FOR_NEIGHBORS_POSEGRAPHS"
    <3>1. /\ state' = state \/ state' = [state EXCEPT ![m.to] = "START_OPTIMIZATION"]
          /\ \A q \in Robot : q # m.to => connectivity'[q] = connectivity[q]
          /\ result' = result
      BY <1>5, <2>2 DEF PoseGraphCallback, threadVars, IInv, TypeOK
    <3> QED BY <2>2, <3>1 DEF IInv, TypeOK
  <2> QED BY <1>5, <2>1, <2>2 DEF PoseGraphCallback
<1>6. ASSUME NEW m \in resultMsgs, OptimizedEstimatesCallback(m.to, m)
      PROVE  Kept
  BY <1>6 DEF OptimizedEstimatesCallback, sessionVars, threadVars
<1>7. ASSUME UNCHANGED vars
      PROVE  Kept
  <2>1. UNCHANGED <<state, result, connectivity>>
    BY <1>7 DEF vars, sessionVars, threadVars
  <2> QED BY <2>1
<1>8. ASSUME Kept PROVE OnlyConnectedIncluded'
  BY <1>8, ConnectedOther, Zenon
<1> HIDE DEF Kept
<1> QED
  BY <1>1, <1>2, <1>3, <1>4, <1>5, <1>6, <1>7, <1>8, ConnectedStart, ConnectedEnds
  DEF Next, Loop

(* No robot outside the connected component of r gets into r's result,     *)
(* whatever the uninitialized cells of the array hold.                     *)
THEOREM ConnectedOnly == Spec => []OnlyConnectedIncluded
<1>1. Init => OnlyConnectedIncluded
  BY DEF Init, OnlyConnectedIncluded
<1>2. IInv /\ OnlyConnectedIncluded /\ [Next]_vars => (IInv /\ OnlyConnectedIncluded)'
  BY NextIInv, NextConnected, PGOAssumption
<1> QED BY <1>1, <1>2, InitIInv, PGOAssumption, PTL DEF Spec

----------------------------------------------------------------------------
(* The first keyframe is kept.                                             *)

(* Poses of one robot: none, or all from its first keyframe on.            *)
Whole(values) == values = {} \/ 0 \in values

(* Until a back-end restarts, whatever is sent or computed is whole.       *)
OwnKept ==
  \A r \in Robot : /\ odometry[r] = {} => nextKeyframe[r] = 0
                   /\ odometry[r] # {} => 0 \in odometry[r] /\ 0 \in estimates[r].values
GraphsWhole ==
  /\ \A r \in Robot : \A s \in DOMAIN graphs[r] : Whole(graphs[r][s].values)
  /\ \A m \in graphMsgs : Whole(m.values)
ResultsWhole ==
  /\ \A r, s \in Robot : Whole(result[r][s].values)
  /\ \A m \in resultMsgs : Whole(m.values)
KeyInv == OwnKept /\ GraphsWhole /\ ResultsWhole

LEMMA KeyInit == Init => KeyInv
BY DEF Init, KeyInv, OwnKept, GraphsWhole, ResultsWhole, Whole, Empty

(* Keyframe 0 comes first and seeds the estimates.                         *)
LEMMA KeyOdometry ==
  ASSUME IInv, KeyInv, NEW r \in Robot, OdometryCallback(r)
  PROVE  KeyInv'
<1> USE DEF OdometryCallback, sessionVars, threadVars, netVars
<1>1. ASSUME NEW q \in Robot
      PROVE  \/ /\ odometry'[q] # {} /\ 0 \in odometry'[q]
                /\ 0 \in estimates'[q].values
             \/ /\ q # r /\ odometry'[q] = odometry[q]
                /\ estimates'[q] = estimates[q] /\ nextKeyframe'[q] = nextKeyframe[q]
  <2>1. CASE q # r
    BY <2>1 DEF IInv, TypeOK
  <2>2. CASE q = r
    <3> DEFINE id == nextKeyframe[r]
               e == [estimates[r] EXCEPT !.values = @ \cup {id}]
    <3>1. odometry'[r] = odometry[r] \cup {id}
      BY DEF IInv, TypeOK
    <3> HIDE DEF OdometryCallback
    <3>2. ASSUME id = 0
          PROVE  0 \in odometry'[r] /\ 0 \in estimates'[r].values
      <4>1. e.values = estimates[r].values \cup {id}
        BY DEF IInv, TypeOK, Estimates
      <4>2. estimates' = [estimates EXCEPT ![r] = e]
        BY <3>2 DEF OdometryCallback
      <4> HIDE DEF e
      <4>3. estimates'[r] = e
        BY <4>2 DEF IInv, TypeOK
      <4>4. 0 \in e.values
        BY <3>2, <4>1
      <4> QED BY <3>1, <3>2, <4>3, <4>4, Zenon
    <3>3. ASSUME id # 0
          PROVE  0 \in odometry'[r] /\ 0 \in estimates'[r].values
      <4>1. 0 \in odometry[r] /\ 0 \in estimates[r].values
        BY <3>3 DEF KeyInv, OwnKept
      <4>2. estimates' = estimates
        BY <3>3 DEF OdometryCallback
      <4> HIDE DEF id
      <4> QED BY <3>1, <4>1, <4>2
    <3>4. 0 \in odometry'[r] /\ 0 \in estimates'[r].values
      BY <3>2, <3>3
    <3> QED BY <2>2, <3>4
  <2> QED BY <2>1, <2>2
<1>2. OwnKept'
  BY <1>1 DEF KeyInv, OwnKept
<1>3. (GraphsWhole /\ ResultsWhole)'
  BY DEF KeyInv, GraphsWhole, ResultsWhole
<1> QED BY <1>2, <1>3 DEF KeyInv

(* A pose graph holds the sender's odometry.                               *)
LEMMA KeySend ==
  ASSUME IInv, KeyInv, NEW s \in Robot, NEW m \in graphRequests,
         GetPoseGraphCallback(s, m)
  PROVE  KeyInv'
<1> USE DEF GetPoseGraphCallback, sessionVars, threadVars, poseVars, boundVars
<1>1. ASSUME NEW g \in graphMsgs'
      PROVE  Whole(g.values)
  <2>1. g \in graphMsgs \/ g.values = odometry[s]
    OBVIOUS
  <2> QED BY <2>1 DEF KeyInv, OwnKept, GraphsWhole, Whole
<1>2. GraphsWhole'
  BY <1>1 DEF KeyInv, GraphsWhole
<1>3. (OwnKept /\ ResultsWhole)'
  BY DEF KeyInv, OwnKept, ResultsWhole
<1> QED BY <1>2, <1>3 DEF KeyInv

(* map::insert adds its value or keeps the one that is there.              *)
LEMMA InsertValue ==
  ASSUME NEW f, NEW k, NEW v, NEW s \in DOMAIN Insert(f, k, v)
  PROVE  \/ Insert(f, k, v)[s] = v
         \/ s \in DOMAIN f /\ Insert(f, k, v)[s] = f[s]
BY DEF Insert

LEMMA KeyReceive ==
  ASSUME IInv, KeyInv, NEW r \in Robot, NEW m \in graphMsgs, PoseGraphCallback(r, m)
  PROVE  KeyInv'
<1> USE DEF PoseGraphCallback, threadVars, poseVars, boundVars
<1> DEFINE new == [values |-> m.values, edges |-> m.edges]
           g == Insert(graphs[r], m.from, new)
<1>1. graphs' = graphs \/ graphs' = [graphs EXCEPT ![r] = g]
  BY DEF sessionVars
<1>2. new.values = m.values /\ Whole(m.values)
  BY DEF KeyInv, GraphsWhole
<1> HIDE DEF new
<1>3. ASSUME NEW s \in DOMAIN g
      PROVE  Whole(g[s].values)
  <2>1. \/ g[s] = new
        \/ s \in DOMAIN graphs[r] /\ g[s] = graphs[r][s]
    <3>1. PICK f : f = graphs[r]
      OBVIOUS
    <3>2. g = Insert(f, m.from, new)
      BY <3>1
    <3> HIDE DEF g, PoseGraphCallback
    <3>3. s \in DOMAIN Insert(f, m.from, new)
      BY <3>2
    <3> QED BY <3>1, <3>2, <3>3, InsertValue
  <2> HIDE DEF g
  <2> QED BY <1>2, <2>1 DEF KeyInv, GraphsWhole
<1> HIDE DEF g
<1>4. ASSUME NEW q \in Robot, NEW s \in DOMAIN graphs'[q]
      PROVE  Whole(graphs'[q][s].values)
  <2>1. graphs'[q] = graphs[q] \/ graphs'[q] = g
    BY <1>1 DEF IInv, TypeOK
  <2> QED BY <1>3, <2>1 DEF KeyInv, GraphsWhole
<1>5. GraphsWhole'
  BY <1>4 DEF KeyInv, GraphsWhole
<1>6. (OwnKept /\ ResultsWhole)'
  BY DEF KeyInv, OwnKept, ResultsWhole
<1> QED BY <1>5, <1>6 DEF KeyInv

(* The values put together are odometry, local or received.                *)
LEMMA KeyOptimize ==
  ASSUME IInv, KeyInv, NEW r \in Robot, StartOptimization(r)
  PROVE  KeyInv'
<1>1. /\ UNCHANGED <<odometry, estimates, nextKeyframe, graphs, graphMsgs, resultMsgs>>
      /\ state[r] = "START_OPTIMIZATION"
  BY DEF StartOptimization, poseVars, netVars, boundVars
<1>2. PICK connected :
        \/ result' = [result EXCEPT ![r] = Optimized(r, Included(r, connected))]
        \/ result' = result
  BY Zenon DEF StartOptimization, threadVars
<1> DEFINE res == Optimized(r, Included(r, connected))
<1>3. ASSUME NEW s \in Robot
      PROVE  Whole(res[s].values)
  <2>1. \/ s \in Included(r, connected) /\ res[s].values = ValuesOf(r, s)
        \/ res[s] = Empty(s)
    BY DEF Optimized
  <2> HIDE DEF res
  <2>2. CASE res[s] = Empty(s)
    BY <2>2 DEF Empty, Whole
  <2>3. CASE s = r /\ res[s].values = ValuesOf(r, s)
    BY <2>3 DEF ValuesOf, KeyInv, OwnKept, Whole
  <2>4. CASE s # r /\ s \in Included(r, connected) /\ res[s].values = ValuesOf(r, s)
    <3>1. s \in DOMAIN graphs[r]
      BY <1>1, <2>4 DEF Included, IInv, CollectionComplete
    <3> QED BY <2>4, <3>1 DEF ValuesOf, KeyInv, GraphsWhole
  <2> QED BY <2>1, <2>2, <2>3, <2>4
<1> HIDE DEF res
<1>4. ASSUME NEW q \in Robot, NEW s \in Robot
      PROVE  Whole(result'[q][s].values)
  <2>1. result'[q] = result[q] \/ result'[q] = res
    BY <1>2 DEF res, IInv, TypeOK
  <2> QED BY <1>3, <2>1 DEF KeyInv, ResultsWhole
<1>5. ResultsWhole'
  BY <1>1, <1>4 DEF KeyInv, ResultsWhole
<1>6. (OwnKept /\ GraphsWhole)'
  BY <1>1 DEF KeyInv, OwnKept, GraphsWhole
<1> QED BY <1>5, <1>6 DEF KeyInv

(* An exception changes the frames, not which poses there are.             *)
LEMMA KeyEnds ==
  ASSUME IInv, KeyInv, NEW r \in Robot, OptimizeEnds(r)
  PROVE  KeyInv'
<1> USE DEF OptimizeEnds, sessionVars, poseVars, netVars, boundVars
<1> DEFINE own == [x \in Robot |-> [values |-> result[r][x].values, frame |-> x]]
<1>1. ASSUME NEW q \in Robot, NEW s \in Robot
      PROVE  result'[q][s].values = result[q][s].values
  <2>1. own[s].values = result[r][s].values
    OBVIOUS
  <2> HIDE DEF own
  <2>2. result' = result \/ result' = [result EXCEPT ![r] = own]
    BY DEF own
  <2> QED BY <2>1, <2>2 DEF IInv, TypeOK
<1>2. ResultsWhole'
  BY <1>1 DEF KeyInv, ResultsWhole
<1>3. (OwnKept /\ GraphsWhole)'
  BY DEF KeyInv, OwnKept, GraphsWhole
<1> QED BY <1>2, <1>3 DEF KeyInv

LEMMA KeyFinish ==
  ASSUME IInv, KeyInv, NEW r \in Robot, FinishOptimization(r)
  PROVE  KeyInv'
<1> USE DEF FinishOptimization, sessionVars, poseVars, boundVars
<1>1. ASSUME NEW m \in resultMsgs'
      PROVE  Whole(m.values)
  <2>1. m \in resultMsgs \/ \E s \in DOMAIN neighbors[r] \cup {r} :
                                m.values = result[r][s].values
    OBVIOUS
  <2>2. DOMAIN neighbors[r] \subseteq Robot
    BY PartialFnElim DEF IInv, TypeOK, Neighbors
  <2> QED BY <2>1, <2>2 DEF KeyInv, ResultsWhole
<1>2. ResultsWhole'
  BY <1>1 DEF KeyInv, ResultsWhole
<1>3. (OwnKept /\ GraphsWhole)'
  BY DEF KeyInv, OwnKept, GraphsWhole
<1> QED BY <1>2, <1>3 DEF KeyInv

(* An adopted result has poses, so it has the first.                       *)
LEMMA KeyAdopt ==
  ASSUME IInv, KeyInv, NEW r \in Robot, NEW m \in resultMsgs,
         OptimizedEstimatesCallback(r, m)
  PROVE  KeyInv'
<1> USE DEF OptimizedEstimatesCallback, sessionVars, threadVars, boundVars
<1> DEFINE e == [values |-> m.values, frame |-> m.frame]
<1>1. \/ estimates' = estimates
      \/ estimates' = [estimates EXCEPT ![r] = e] /\ m.values # {}
  BY DEF Adopts
<1>2. e.values = m.values /\ Whole(m.values)
  BY DEF KeyInv, ResultsWhole
<1> HIDE DEF e
<1>3. ASSUME NEW q \in Robot, 0 \in estimates[q].values
      PROVE  0 \in estimates'[q].values
  BY <1>1, <1>2, <1>3 DEF Whole, IInv, TypeOK
<1>4. OwnKept'
  BY <1>3 DEF KeyInv, OwnKept
<1>5. (GraphsWhole /\ ResultsWhole)'
  BY DEF KeyInv, GraphsWhole, ResultsWhole
<1> QED BY <1>4, <1>5 DEF KeyInv

LEMMA KeyRound ==
  ASSUME IInv, KeyInv, NEW r \in Robot, OptimizationCallback(r)
  PROVE  KeyInv'
<1> USE DEF OptimizationCallback, threadVars, poseVars, netVars
<1>1. ASSUME NEW q \in Robot, NEW s \in DOMAIN graphs'[q]
      PROVE  s \in DOMAIN graphs[q] /\ graphs'[q] = graphs[q]
  BY DEF IInv, TypeOK
<1>2. GraphsWhole'
  BY <1>1 DEF KeyInv, GraphsWhole
<1>3. (OwnKept /\ ResultsWhole)'
  BY DEF KeyInv, OwnKept, ResultsWhole
<1> QED BY <1>2, <1>3 DEF KeyInv

(* The remaining steps move no poses.                                      *)
LEMMA KeyOther ==
  ASSUME KeyInv,
         UNCHANGED <<odometry, estimates, nextKeyframe, graphs, graphMsgs,
                     result, resultMsgs>>
  PROVE  KeyInv'
BY DEF KeyInv, OwnKept, GraphsWhole, ResultsWhole

LEMMA NextKey ==
  ASSUME PGOAssumption, IInv, [Next]_vars, restarts = 0 => KeyInv
  PROVE  restarts' = 0 => KeyInv'
<1> DEFINE Moved == UNCHANGED <<odometry, estimates, nextKeyframe, graphs, graphMsgs,
                                result, resultMsgs>>
<1>1. ASSUME NEW r \in Robot, Restart(r)
      PROVE  restarts' # 0
  BY <1>1 DEF Restart, IInv, TypeOK
<1>2. ASSUME NEW r \in Robot,
             \/ \E e \in Closure : InterRobotLoopClosureCallback(r, e)
             \/ \E s \in InRange[r] : HeartbeatCallback(r, s)
             \/ GetCurrentNeighborsCallback(r) \/ CurrentNeighborsCallback(r)
             \/ CollectPoseGraphs(r) \/ CheckWaitingTimeout(r)
      PROVE  Moved /\ restarts' = restarts
  BY <1>2 DEF InterRobotLoopClosureCallback, HeartbeatCallback,
     GetCurrentNeighborsCallback, CurrentNeighborsCallback, CollectPoseGraphs,
     CheckWaitingTimeout, sessionVars, threadVars, poseVars, netVars, boundVars
<1>3. CASE UNCHANGED vars
  <2>1. Moved /\ restarts' = restarts
    BY <1>3 DEF vars, sessionVars, threadVars, poseVars, netVars, boundVars
  <2> QED BY <2>1, KeyOther
<1>4. ASSUME NEW m \in graphRequests, GetPoseGraphCallback(m.to, m)
      PROVE  restarts' = restarts /\ (KeyInv => KeyInv')
  <2>1. restarts' = restarts
    BY <1>4 DEF GetPoseGraphCallback, boundVars
  <2> QED BY <1>4, <2>1, KeySend DEF IInv, TypeOK, GraphRequest
<1>5. ASSUME NEW m \in graphMsgs, PoseGraphCallback(m.to, m)
      PROVE  restarts' = restarts /\ (KeyInv => KeyInv')
  <2>1. restarts' = restarts
    BY <1>5 DEF PoseGraphCallback, boundVars
  <2> QED BY <1>5, <2>1, KeyReceive DEF IInv, TypeOK, GraphMsg
<1>6. ASSUME NEW m \in resultMsgs, OptimizedEstimatesCallback(m.to, m)
      PROVE  restarts' = restarts /\ (KeyInv => KeyInv')
  <2>1. restarts' = restarts
    BY <1>6 DEF OptimizedEstimatesCallback, boundVars
  <2> QED BY <1>6, <2>1, KeyAdopt DEF IInv, TypeOK, ResultMsg
<1>7. ASSUME NEW r \in Robot,
             \/ OdometryCallback(r) \/ OptimizationCallback(r)
             \/ StartOptimization(r) \/ OptimizeEnds(r) \/ FinishOptimization(r)
      PROVE  restarts' = restarts /\ (KeyInv => KeyInv')
  <2>1. restarts' = restarts
    BY <1>7 DEF OdometryCallback, OptimizationCallback, StartOptimization,
       OptimizeEnds, FinishOptimization, boundVars
  <2> QED BY <1>7, <2>1, KeyOdometry, KeyRound, KeyOptimize, KeyEnds, KeyFinish
<1> HIDE DEF Moved
<1>8. Moved /\ KeyInv => KeyInv'
  BY KeyOther DEF Moved
<1> QED
  BY <1>1, <1>2, <1>3, <1>4, <1>5, <1>6, <1>7, <1>8 DEF Next, Loop

(* Until a back-end restarts, one that has odometry has its first keyframe *)
(* in its estimates, in whatever order results replace them.               *)
THEOREM FirstKeyframeStays == Spec => []FirstKeyframeKept
<1> DEFINE I == IInv /\ (restarts = 0 => KeyInv)
<1>1. Init => I
  BY InitIInv, KeyInit, PGOAssumption
<1>2. I /\ [Next]_vars => I'
  BY NextIInv, NextKey, PGOAssumption
<1>3. I => FirstKeyframeKept
  BY DEF KeyInv, OwnKept, FirstKeyframeKept
<1> QED BY <1>1, <1>2, <1>3, PTL DEF Spec
=============================================================================
