------------------------- MODULE DecentralizedPGO -------------------------
(***************************************************************************)
(* The decentralized pose graph optimizer of Swarm-SLAM: the back-end node *)
(* of every robot (cslam/src/back_end/decentralized_pgo.cpp), the local    *)
(* neighbour manager it queries (cslam/neighbors_manager.py), and the      *)
(* topics between them.  A back-end runs a single-threaded executor, so    *)
(* every callback is one step of its robot; callbacks of different robots, *)
(* the std::async optimization thread and the deliveries interleave.       *)
(*                                                                         *)
(* Data is abstracted.  A pose graph is the set of keyframes it holds and  *)
(* the pairs of robots its inter-robot loop closures join (closures join   *)
(* first keyframes).  Estimates are the keyframes they cover and the robot *)
(* in whose map frame the poses really are: the code keeps no such record, *)
(* only the label origin_robot_id_, so "frame" is what that label claims.  *)
(* A message that is never delivered is a lost one; the sets of messages   *)
(* in flight are unordered.                                                *)
(***************************************************************************)
EXTENDS Integers, Sequences, FiniteSets

CONSTANTS
  Robot,        \* robot ids
  MaxKeyframe,  \* bound: keyframes a front-end produces are 0..MaxKeyframe
  Closure,      \* pairs of robots, lower id first, that get a loop closure
  InRange,      \* the robots each robot ever receives heartbeats from
  MaxStarts,    \* bound: optimization rounds each back-end starts
  MaxRestarts,  \* bound: back-end processes that crash and start again
  MayThrow      \* whether gtsam may throw in optimize()

ASSUME PGOAssumption ==
  /\ Robot \subseteq Nat
  /\ Closure \subseteq {e \in Robot \X Robot : e[1] < e[2]}
  /\ InRange \in [Robot -> SUBSET Robot]
  /\ MaxKeyframe \in Nat /\ MaxStarts \in [Robot -> Nat] /\ MaxRestarts \in Nat
  /\ MayThrow \in BOOLEAN

OptimizerState == {"IDLE", "WAITING_FOR_NEIGHBORS_INFO",
                   "POSEGRAPH_COLLECTION", "WAITING_FOR_NEIGHBORS_POSEGRAPHS",
                   "START_OPTIMIZATION", "OPTIMIZATION"}

Keyframe == 0..MaxKeyframe
PartialFn(S, T) == UNION {[D -> T] : D \in SUBSET S}

Neighbors == PartialFn(Robot, Robot)     \* neighbour -> its reported origin
Graph     == [values : SUBSET Keyframe, edges : SUBSET Closure]
Estimates == [values : SUBSET Keyframe, frame : Robot]
GraphRequest == [to : Robot, ids : SUBSET Robot]
GraphMsg  == [to : Robot, from : Robot, values : SUBSET Keyframe,
              edges : SUBSET Closure, connected : SUBSET Robot]
ResultMsg == [to : Robot, origin : Robot, values : SUBSET Keyframe,
              frame : Robot]

VARIABLES
  state,         \* optimizer_state_
  waiting,       \* is_waiting_
  odometry,      \* keys of odometry_pose_estimates_
  loops,         \* non-empty entries of inter_robot_loop_closures_
  estimates,     \* current_pose_estimates_
  origin,        \* origin_robot_id_
  neighbors,     \* current_neighbors_ids_
  received,      \* robots flagged in received_pose_graphs_
  graphs,        \* other_robots_graph_and_estimates_
  connectivity,  \* received_pose_graphs_connectivity_
  thread,        \* the std::async task: "none", "running" or "ready"
  result,        \* the value of optimization_result_, per robot label
  heard,         \* origins the neighbour monitors last heard, per robot
  requests,      \* cslam/get_current_neighbors messages not yet answered
  replies,       \* cslam/current_neighbors messages not yet delivered
  graphRequests, \* cslam/get_pose_graph messages in flight
  graphMsgs,     \* /cslam/pose_graph messages in flight, one per subscriber
  resultMsgs,    \* cslam/optimized_estimates messages in flight
  nextKeyframe,  \* front-end: id of the next keyframe
  starts,        \* rounds started (bounded by MaxStarts)
  restarts       \* crashes so far (bounded by MaxRestarts)

sessionVars == <<received, graphs, connectivity>>
threadVars  == <<thread, result>>
poseVars    == <<odometry, loops, estimates, origin>>
managerVars == <<heard, requests, replies>>
netVars     == <<graphRequests, graphMsgs, resultMsgs>>
boundVars   == <<nextKeyframe, starts, restarts>>
vars == <<state, waiting, neighbors, sessionVars, threadVars, poseVars,
          managerVars, netVars, boundVars>>

----------------------------------------------------------------------------
(* std::map::insert: an existing key keeps its value.                      *)
Insert(m, k, v) ==
  [x \in DOMAIN m \cup {k} |-> IF x \in DOMAIN m THEN m[x] ELSE v]

(* The robots reached from root along succ: the least set that is closed.  *)
ReachedFrom(root, succ) ==
  {x \in Robot : \A S \in SUBSET Robot :
     (root \in S /\ \A y \in S : succ[y] \subseteq S) => x \in S}

(* connected_robots_: the other ends of the loop closures r takes part in. *)
ConnectedRobots(r) ==
  {s \in Robot : <<r, s>> \in loops[r] \/ <<s, r>> \in loops[r]}

(* Mutant: robots of the same origin both have priority.                   *)
NoTieBreak(r, view) ==
  (\A s \in DOMAIN view : origin[r] <= view[s]) /\ odometry[r] # {}

(* is_optimizer(): no neighbour has a lower origin, or the same and a      *)
(* lower id.                                                               *)
IsOptimizer(r, view) ==
  /\ \A s \in DOMAIN view :
       ~ (origin[r] > view[s] \/ (origin[r] = view[s] /\ r > s))
  /\ odometry[r] # {}

(* Mutant: the frame is left unset.                                        *)
EmptyUnset(r) == [values |-> {}, frame |-> -1]

(* No estimates yet; the frame is r's own until a result is adopted.       *)
Empty(r) == [values |-> {}, frame |-> r]

Init ==
  /\ state = [r \in Robot |-> "IDLE"]
  /\ waiting = [r \in Robot |-> FALSE]
  /\ odometry = [r \in Robot |-> {}]
  /\ loops = [r \in Robot |-> {}]
  /\ estimates = [r \in Robot |-> Empty(r)]
  /\ origin = [r \in Robot |-> r]
  /\ neighbors = [r \in Robot |-> [s \in {} |-> s]]
  /\ received = [r \in Robot |-> {}]
  /\ graphs = [r \in Robot |-> [s \in {} |-> s]]
  /\ connectivity = [r \in Robot |-> [s \in {} |-> s]]
  /\ thread = [r \in Robot |-> "none"]
  /\ result = [r \in Robot |-> [s \in Robot |-> Empty(s)]]
  /\ heard = [r \in Robot |-> [s \in {} |-> s]]
  /\ requests = [r \in Robot |-> 0]
  /\ replies = [r \in Robot |-> <<>>]
  /\ graphRequests = {} /\ graphMsgs = {} /\ resultMsgs = {}
  /\ nextKeyframe = [r \in Robot |-> 0]
  /\ starts = [r \in Robot |-> 0]
  /\ restarts = 0

----------------------------------------------------------------------------
(* Measurements from the front-end.                                        *)

(* The front-end's next keyframe reaches the back-end.  The first one also *)
(* seeds current_pose_estimates_, where it cannot be yet: a result is not  *)
(* adopted before there is odometry, and keyframe 0 comes once.            *)
OdometryCallback(r) ==
  LET id == nextKeyframe[r] IN
  /\ id \in Keyframe
  /\ nextKeyframe' = [nextKeyframe EXCEPT ![r] = id + 1]
  /\ odometry' = [odometry EXCEPT ![r] = @ \cup {id}]
  /\ estimates' = IF id = 0
                  THEN [estimates EXCEPT ![r].values = @ \cup {id}]
                  ELSE estimates
  /\ UNCHANGED <<state, waiting, neighbors, sessionVars, threadVars, loops,
                 origin, managerVars, netVars, starts, restarts>>

(* r hears of a verified loop closure between two robots, maybe others.    *)
InterRobotLoopClosureCallback(r, e) ==
  /\ e \notin loops[r]
  /\ nextKeyframe[e[1]] > 0 /\ nextKeyframe[e[2]] > 0
  /\ loops' = [loops EXCEPT ![r] = @ \cup {e}]
  /\ UNCHANGED <<state, waiting, neighbors, sessionVars, threadVars,
                 odometry, estimates, origin, managerVars, netVars,
                 boundVars>>

----------------------------------------------------------------------------
(* Neighbourhood.                                                          *)

(* s publishes its origin and the monitor r keeps of s hears it.           *)
HeartbeatCallback(r, s) ==
  /\ r # s
  /\ heard' = [heard EXCEPT ![r] =
       [x \in DOMAIN heard[r] \cup {s} |->
          IF x = s THEN origin[s] ELSE heard[r][x]]]
  /\ UNCHANGED <<state, waiting, neighbors, sessionVars, threadVars,
                 poseVars, requests, replies, netVars, boundVars>>

(* The start timer opens a round: forget the last collection, ask who is   *)
(* in range, wait.                                                         *)
OptimizationCallback(r) ==
  /\ starts[r] < MaxStarts[r]
  /\ state[r] = "IDLE" /\ odometry[r] # {}
  /\ starts' = [starts EXCEPT ![r] = @ + 1]
  /\ received' = [received EXCEPT ![r] = {}]
  /\ graphs' = [graphs EXCEPT ![r] = [s \in {} |-> s]]
  /\ connectivity' = [connectivity EXCEPT ![r] = [s \in {} |-> s]]
  /\ requests' = [requests EXCEPT ![r] = @ + 1]
  /\ state' = [state EXCEPT ![r] = "WAITING_FOR_NEIGHBORS_INFO"]
  /\ waiting' = [waiting EXCEPT ![r] = TRUE]
  /\ UNCHANGED <<neighbors, threadVars, poseVars, heard, replies, netVars,
                 nextKeyframe, restarts>>

(* The neighbour manager answers with the robots alive now, a subset of    *)
(* those it ever heard, and the origins they last reported.                *)
GetCurrentNeighborsCallback(r) ==
  /\ requests[r] > 0
  /\ requests' = [requests EXCEPT ![r] = @ - 1]
  /\ \E alive \in SUBSET DOMAIN heard[r] :
       replies' = [replies EXCEPT ![r] =
                     Append(@, [s \in alive |-> heard[r][s]])]
  /\ UNCHANGED <<state, waiting, neighbors, sessionVars, threadVars,
                 poseVars, heard, netVars, boundVars>>

(* Mutant: a late answer does not interrupt an optimization.               *)
KeepOptimizing(r, view) ==
  IF state[r] \in {"START_OPTIMIZATION", "OPTIMIZATION"} THEN state[r]
  ELSE IF IsOptimizer(r, view) THEN "POSEGRAPH_COLLECTION" ELSE "IDLE"

(* The state an answer leads to, whatever the state it finds.              *)
StateAfterAnswer(r, view) ==
  IF IsOptimizer(r, view) THEN "POSEGRAPH_COLLECTION" ELSE "IDLE"

(* The answer is taken in whatever state the optimizer is.                 *)
CurrentNeighborsCallback(r) ==
  /\ replies[r] # <<>>
  /\ replies' = [replies EXCEPT ![r] = Tail(@)]
  /\ neighbors' = [neighbors EXCEPT ![r] = Head(replies[r])]
  /\ waiting' = [waiting EXCEPT ![r] = FALSE]
  /\ state' = [state EXCEPT ![r] = StateAfterAnswer(r, Head(replies[r]))]
  /\ UNCHANGED <<sessionVars, threadVars, poseVars, heard, requests,
                 netVars, boundVars>>

----------------------------------------------------------------------------
(* Collection of the neighbours' pose graphs.                              *)

(* Loop timer in POSEGRAPH_COLLECTION.                                     *)
CollectPoseGraphs(r) ==
  LET ids == DOMAIN neighbors[r] IN
  /\ odometry[r] # {} /\ state[r] = "POSEGRAPH_COLLECTION"
  /\ \/ /\ ids # {}
        /\ graphRequests' = graphRequests \cup
             {[to |-> s, ids |-> ids \cup {r}] : s \in ids}
        /\ state' = [state EXCEPT ![r] = "WAITING_FOR_NEIGHBORS_POSEGRAPHS"]
        /\ waiting' = [waiting EXCEPT ![r] = TRUE]
     \/ /\ ids = {}
        /\ state' = [state EXCEPT ![r] = "START_OPTIMIZATION"]
        /\ UNCHANGED <<graphRequests, waiting>>
  /\ UNCHANGED <<neighbors, sessionVars, threadVars, poseVars, managerVars,
                 graphMsgs, resultMsgs, boundVars>>

(* s publishes its pose graph, cut down to the robots of the request, on   *)
(* the topic every robot, s included, subscribes to.  The edges between    *)
(* two robots are sent by the one with the lower id.                       *)
GetPoseGraphCallback(s, m) ==
  LET mine == {e \in loops[s] : /\ e[1] \in m.ids /\ e[2] \in m.ids
                                /\ (e[1] = s \/ e[2] = s)}
  IN
  /\ m \in graphRequests /\ m.to = s
  /\ graphRequests' = graphRequests \ {m}
  /\ graphMsgs' = graphMsgs \cup
       {[to |-> r, from |-> s, values |-> odometry[s],
         edges |-> {e \in mine : e[1] = s},
         connected |-> {x \in Robot \ {s} : \E e \in mine : x \in {e[1], e[2]}}]
          : r \in Robot}
  /\ UNCHANGED <<state, waiting, neighbors, sessionVars, threadVars,
                 poseVars, managerVars, resultMsgs, boundVars>>

(* check_received_pose_graphs(): every current neighbour has sent its own. *)
CheckReceivedPoseGraphs(r, got) == DOMAIN neighbors[r] \subseteq got

(* A pose graph counts only while r waits for some, whoever asked for it.  *)
PoseGraphCallback(r, m) ==
  /\ m \in graphMsgs /\ m.to = r
  /\ graphMsgs' = graphMsgs \ {m}
  /\ \/ /\ state[r] = "WAITING_FOR_NEIGHBORS_POSEGRAPHS"
        /\ graphs' = [graphs EXCEPT ![r] =
             Insert(@, m.from, [values |-> m.values, edges |-> m.edges])]
        /\ received' = [received EXCEPT ![r] = @ \cup {m.from}]
        /\ connectivity' = [connectivity EXCEPT ![r] =
             Insert(@, m.from, m.connected)]
        /\ IF CheckReceivedPoseGraphs(r, received[r] \cup {m.from})
           THEN /\ waiting' = [waiting EXCEPT ![r] = FALSE]
                /\ state' = [state EXCEPT ![r] = "START_OPTIMIZATION"]
           ELSE UNCHANGED <<state, waiting>>
     \/ /\ state[r] # "WAITING_FOR_NEIGHBORS_POSEGRAPHS"
        /\ UNCHANGED <<state, waiting, sessionVars>>
  /\ UNCHANGED <<neighbors, threadVars, poseVars, managerVars,
                 graphRequests, resultMsgs, boundVars>>

(* Mutant: the wait for pose graphs never times out.                       *)
TimesOutOnce(r) == waiting[r] /\ state[r] = "WAITING_FOR_NEIGHBORS_INFO"

(* Waiting, in none of the states that ignore it.                          *)
TimesOut(r) ==
  waiting[r] /\ state[r] \notin {"POSEGRAPH_COLLECTION",
                                 "START_OPTIMIZATION", "OPTIMIZATION"}

(* Mutant: the timeout does not end the wait.                              *)
TimeoutStaysArmed(r) ==
  /\ odometry[r] # {} /\ TimesOut(r)
  /\ state' = [state EXCEPT ![r] = "IDLE"]
  /\ UNCHANGED <<waiting, neighbors, sessionVars, threadVars, poseVars,
                 managerVars, netVars, boundVars>>

(* Loop timer while waiting longer than max_waiting_time_sec_.             *)
CheckWaitingTimeout(r) ==
  /\ odometry[r] # {} /\ TimesOut(r)
  /\ waiting' = [waiting EXCEPT ![r] = FALSE]
  /\ state' = [state EXCEPT ![r] = "IDLE"]
  /\ UNCHANGED <<neighbors, sessionVars, threadVars, poseVars, managerVars,
                 netVars, boundVars>>

----------------------------------------------------------------------------
(* Optimization.                                                           *)

(* connected_robot_pose_graph() first adds the local entry to the map.     *)
LocalConnectivity(r) ==
  IF ConnectedRobots(r) # {}
  THEN Insert(connectivity[r], r, ConnectedRobots(r))
  ELSE connectivity[r]

Links(map, x) == IF x \in DOMAIN map THEN map[x] ELSE {}

(* The breadth first search marks visited robots in an array of as many    *)
(* cells as there are neighbours and indexes it by robot id: the cell of a *)
(* larger id is read uninitialized, and a robot in "garbage" looks visited *)
(* already, so it is never expanded.                                       *)
Unallocated(r) ==
  {s \in Robot \ {r} : s >= Cardinality(DOMAIN neighbors[r])}
Expanded(r, map, garbage) ==
  ReachedFrom(r, [x \in Robot |-> Links(map, x) \ garbage])
Connected(r, map, garbage) ==
  {r} \cup UNION {Links(map, x) : x \in Expanded(r, map, garbage)}

(* aggregate_pose_graphs(): robots whose estimates are put together, and   *)
(* the inter-robot factors between them whose keyframes are all there.     *)
(* Mutant: neighbours are not filtered by connection (IncludeAll).         *)
IncludeAll(r, connected) == {r} \cup DOMAIN neighbors[r]
Included(r, connected) == {r} \cup (DOMAIN neighbors[r] \cap connected)
ValuesOf(r, s) == IF s = r THEN odometry[r] ELSE graphs[r][s].values
Factors(r, included) ==
  {e \in loops[r] \cup UNION {graphs[r][s].edges : s \in DOMAIN neighbors[r]} :
     \A s \in {e[1], e[2]} : s \in included /\ 0 \in ValuesOf(r, s)}

(* optimize(): the prior puts r's first keyframe where the current         *)
(* estimates have it, and the factors carry that frame to the robots they  *)
(* tie to r; poses nothing ties stay in the frame of their odometry.       *)
Optimized(r, included) ==
  LET factors == Factors(r, included)
      tied == ReachedFrom(r, [x \in Robot |->
                {y \in Robot : <<x, y>> \in factors \/ <<y, x>> \in factors}])
  IN [s \in Robot |->
        IF s \in included
        THEN [values |-> ValuesOf(r, s),
              frame |-> IF s \in tied THEN estimates[r].frame ELSE s]
        ELSE Empty(s)]

(* Loop timer in START_OPTIMIZATION.  Without a first keyframe to anchor   *)
(* the prior, start_optimization() returns and the state stays.  Otherwise *)
(* the task is launched; assigning the future waits for a previous task    *)
(* and drops its result.                                                   *)
StartOptimization(r) ==
  LET map == LocalConnectivity(r) IN
  /\ odometry[r] # {} /\ state[r] = "START_OPTIMIZATION"
  /\ \E garbage \in SUBSET Unallocated(r) :
       /\ connectivity' = [connectivity EXCEPT ![r] =
            [x \in DOMAIN map \cup Expanded(r, map, garbage) |-> Links(map, x)]]
       /\ IF 0 \in estimates[r].values
          THEN /\ result' = [result EXCEPT ![r] =
                    Optimized(r, Included(r, Connected(r, map, garbage)))]
               /\ thread' = [thread EXCEPT ![r] = "running"]
               /\ state' = [state EXCEPT ![r] = "OPTIMIZATION"]
          ELSE UNCHANGED <<state, threadVars>>
  /\ UNCHANGED <<waiting, neighbors, received, graphs, poseVars,
                 managerVars, netVars, boundVars>>

(* Mutant: an exception leaves no result.                                  *)
OptimizeEndsUncaught(r) ==
  /\ thread[r] = "running"
  /\ \E t \in {"ready", IF MayThrow THEN "none" ELSE "ready"} :
       thread' = [thread EXCEPT ![r] = t]
  /\ UNCHANGED <<result, state, waiting, neighbors, sessionVars, poseVars,
                 managerVars, netVars, boundVars>>

(* The task ends; if gtsam threw, its result is the initial guess: every   *)
(* robot's odometry, in that robot's own frame.                            *)
OptimizeEnds(r) ==
  /\ thread[r] = "running"
  /\ thread' = [thread EXCEPT ![r] = "ready"]
  /\ \/ UNCHANGED result
     \/ /\ MayThrow
        /\ result' = [result EXCEPT ![r] =
               [s \in Robot |-> [values |-> result[r][s].values, frame |-> s]]]
  /\ UNCHANGED <<state, waiting, neighbors, sessionVars, poseVars,
                 managerVars, netVars, boundVars>>

(* Loop timer in OPTIMIZATION: share the result of a task that is ready,   *)
(* labelled with the origin r has now.                                     *)
FinishOptimization(r) ==
  /\ odometry[r] # {} /\ state[r] = "OPTIMIZATION" /\ thread[r] = "ready"
  /\ thread' = [thread EXCEPT ![r] = "none"]
  /\ resultMsgs' = resultMsgs \cup
       {[to |-> s, origin |-> origin[r], values |-> result[r][s].values,
         frame |-> result[r][s].frame] : s \in DOMAIN neighbors[r] \cup {r}}
  /\ state' = [state EXCEPT ![r] = "IDLE"]
  /\ UNCHANGED <<waiting, neighbors, sessionVars, result, poseVars,
                 managerVars, graphRequests, graphMsgs, boundVars>>

(* Mutant: an empty result is adopted too.                                 *)
AdoptsAny(r, m) == odometry[r] # {}

Adopts(r, m) == odometry[r] # {} /\ m.values # {}

(* Any optimizer's result replaces the current estimates, unless empty.    *)
OptimizedEstimatesCallback(r, m) ==
  /\ m \in resultMsgs /\ m.to = r
  /\ resultMsgs' = resultMsgs \ {m}
  /\ IF Adopts(r, m)
     THEN /\ estimates' = [estimates EXCEPT ![r] =
                             [values |-> m.values, frame |-> m.frame]]
          /\ origin' = [origin EXCEPT ![r] = m.origin]
     ELSE UNCHANGED <<estimates, origin>>
  /\ UNCHANGED <<state, waiting, neighbors, sessionVars, threadVars,
                 odometry, loops, managerVars, graphRequests, graphMsgs,
                 boundVars>>

----------------------------------------------------------------------------
(* The back-end process of r dies and is started again while the rest of   *)
(* r, its front-end and neighbour manager, goes on.  Nothing is persisted, *)
(* and a new subscription gets nothing published before it.                *)
Restart(r) ==
  /\ restarts < MaxRestarts
  /\ restarts' = restarts + 1
  /\ state' = [state EXCEPT ![r] = "IDLE"]
  /\ waiting' = [waiting EXCEPT ![r] = FALSE]
  /\ odometry' = [odometry EXCEPT ![r] = {}]
  /\ loops' = [loops EXCEPT ![r] = {}]
  /\ estimates' = [estimates EXCEPT ![r] = Empty(r)]
  /\ origin' = [origin EXCEPT ![r] = r]
  /\ neighbors' = [neighbors EXCEPT ![r] = [s \in {} |-> s]]
  /\ received' = [received EXCEPT ![r] = {}]
  /\ graphs' = [graphs EXCEPT ![r] = [s \in {} |-> s]]
  /\ connectivity' = [connectivity EXCEPT ![r] = [s \in {} |-> s]]
  /\ thread' = [thread EXCEPT ![r] = "none"]
  /\ result' = [result EXCEPT ![r] = [s \in Robot |-> Empty(s)]]
  /\ replies' = [replies EXCEPT ![r] = <<>>]
  /\ graphRequests' = {m \in graphRequests : m.to # r}
  /\ graphMsgs' = {m \in graphMsgs : m.to # r}
  /\ resultMsgs' = {m \in resultMsgs : m.to # r}
  /\ UNCHANGED <<heard, requests, nextKeyframe, starts>>

Loop(r) == CollectPoseGraphs(r) \/ StartOptimization(r) \/ FinishOptimization(r)

Next ==
  \/ \E r \in Robot :
       \/ OdometryCallback(r)
       \/ \E e \in Closure : InterRobotLoopClosureCallback(r, e)
       \/ \E s \in InRange[r] : HeartbeatCallback(r, s)
       \/ OptimizationCallback(r)
       \/ GetCurrentNeighborsCallback(r)
       \/ CurrentNeighborsCallback(r)
       \/ Loop(r)
       \/ CheckWaitingTimeout(r)
       \/ OptimizeEnds(r)
       \/ Restart(r)
  \/ \E m \in graphRequests : GetPoseGraphCallback(m.to, m)
  \/ \E m \in graphMsgs : PoseGraphCallback(m.to, m)
  \/ \E m \in resultMsgs : OptimizedEstimatesCallback(m.to, m)

Spec == Init /\ [][Next]_vars

(* The loop timer keeps firing and reads a clock that advances, and an     *)
(* optimization task terminates.  Nothing is assumed of the network, of    *)
(* the neighbour manager or of the start timer.                            *)
Fairness ==
  \A r \in Robot : /\ WF_vars(Loop(r))
                   /\ WF_vars(CheckWaitingTimeout(r))
                   /\ WF_vars(OptimizeEnds(r))

FairSpec == Spec /\ Fairness

----------------------------------------------------------------------------
(* Every variable holds a value of its type.                               *)
TypeOK ==
  /\ state \in [Robot -> OptimizerState]
  /\ waiting \in [Robot -> BOOLEAN]
  /\ odometry \in [Robot -> SUBSET Keyframe]
  /\ loops \in [Robot -> SUBSET Closure]
  /\ estimates \in [Robot -> Estimates]
  /\ origin \in [Robot -> Robot]
  /\ neighbors \in [Robot -> Neighbors]
  /\ received \in [Robot -> SUBSET Robot]
  /\ graphs \in [Robot -> PartialFn(Robot, Graph)]
  /\ connectivity \in [Robot -> PartialFn(Robot, SUBSET Robot)]
  /\ thread \in [Robot -> {"none", "running", "ready"}]
  /\ result \in [Robot -> [Robot -> Estimates]]
  /\ heard \in [Robot -> Neighbors]
  /\ requests \in [Robot -> Nat]
  /\ replies \in [Robot -> Seq(Neighbors)]
  /\ graphRequests \subseteq GraphRequest
  /\ graphMsgs \subseteq GraphMsg
  /\ resultMsgs \subseteq ResultMsg
  /\ nextKeyframe \in [Robot -> Nat]
  /\ starts \in [Robot -> Nat]
  /\ restarts \in Nat

(* When the loop is about to aggregate, the pose graph of every current    *)
(* neighbour is there: aggregate_pose_graphs() dereferences the entry of   *)
(* each of them, and an entry that is missing is a null pointer.  The      *)
(* neighbours are replaced in any state and the entries cleared by another *)
(* callback, so it takes all the handlers to keep this.                    *)
CollectionComplete ==
  \A r \in Robot : state[r] = "START_OPTIMIZATION" =>
                     DOMAIN neighbors[r] \subseteq DOMAIN graphs[r]

(* A robot is waiting, so that its timeout is armed, exactly in the two    *)
(* states only a message can end: a late answer or a timeout that left the *)
(* two apart would lock the optimizer or abort a running optimization.     *)
TimeoutArmed ==
  \A r \in Robot : waiting[r] <=> state[r] \in
    {"WAITING_FOR_NEIGHBORS_INFO", "WAITING_FOR_NEIGHBORS_POSEGRAPHS"}

(* In OPTIMIZATION the future is valid (polling it is undefined otherwise) *)
(* and whoever has poses in its result is still among those the result     *)
(* will be shared with: "Shares optimizes estimates with the robots        *)
(* concerned".                                                             *)
SharedWithConcerned ==
  \A r \in Robot : state[r] = "OPTIMIZATION" =>
    /\ thread[r] # "none"
    /\ \A s \in Robot : result[r][s].values # {} =>
                          s \in DOMAIN neighbors[r] \cup {r}

(* No robot outside the connected component of r gets into r's result: its *)
(* poses would be adopted in a frame nothing ties them to.                 *)
OnlyConnectedIncluded ==
  \A r \in Robot : state[r] = "OPTIMIZATION" =>
    \A s \in Robot : result[r][s].values # {} =>
      s \in ReachedFrom(r, [x \in Robot |-> Links(connectivity[r], x)])

(* A back-end that has odometry has its first keyframe in its current      *)
(* estimates, although other robots' results, computed from graphs it sent *)
(* at other times, replace them: else start_optimization() never leaves    *)
(* START_OPTIMIZATION.  A back-end that restarted has lost it for good.    *)
FirstKeyframeKept ==
  restarts = 0 => \A r \in Robot : odometry[r] # {} => 0 \in estimates[r].values

(* A round ends: max_waiting_time_sec "Prevents being lock in an           *)
(* intermediate state in case of disconnections or failures".              *)
ReturnsToIdle ==
  \A r \in Robot : state[r] # "IDLE" ~> state[r] = "IDLE"

(* The reference frame a robot announces is the frame of its estimates:    *)
(* "the key info for many tasks since it allows conversions from one robot *)
(* reference frame to another".                                            *)
FrameAsLabelled == \A r \in Robot : estimates[r].frame = origin[r]

(* Whoever optimizes and whatever results are late, the robot with the     *)
(* lowest id keeps its own frame, and no robot that has it among its       *)
(* neighbours goes on to collect: is_optimizer() judges by reported        *)
(* origins, which results change, and breaks ties of them by id.           *)
Collecting(r) == state[r] \notin {"IDLE", "WAITING_FOR_NEIGHBORS_INFO"}
LowestRobotLeads == \A l \in Robot : (\A r \in Robot : l <= r) =>
  /\ origin[l] = l
  /\ \A r \in Robot \ {l} : Collecting(r) => l \notin DOMAIN neighbors[r]
=============================================================================
