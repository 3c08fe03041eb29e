# A TLA+ model of the ros2_ws workspace

The workspace holds sixteen ROS 2 packages of a fleet of rovers: multi-robot
SLAM, a simulated fleet platform, sensor drivers, lidar odometry and mapping.
These modules model the parts whose correctness is a matter of protocol and
state, not of numerical accuracy. Paths below are relative to `src/`.

## 1. Inventory

| Component | State it keeps | Operations | Interacts through | What is hard | What makes it correct |
|---|---|---|---|---|---|
| **Pose graph optimizer** `Swarm-SLAM/.../back_end/decentralized_pgo.cpp` | optimizer state, waiting flag, own graph, current estimates and their origin, collected graphs, an async task | odometry, loop closures, start timer, loop timer, neighbours' answer, pose graph request and reception, result | topics per robot, one global topic, the neighbour manager, `std::async` | late answers, lost messages, timeouts, other robots' results during an optimization, restarts | complete collections, timeouts armed, results shared with those concerned and labelled with their frame, rounds end |
| **Neighbour management** `cslam/neighbors_manager.py`, `neighbor_monitor.py` | last heartbeat, origin, ids sent and received per robot | heartbeat, liveness, ranges to send and to keep | called by the detection node, topics | liveness by clock, range changes | nothing lost, nothing learned twice |
| **Descriptor sharing** `global_descriptor_loop_closure_detection.py` | buffer of own descriptors, matches, candidates | keyframe, publication timers, reception, verification | topics between robots | late joiners, outages, deletion while sending | as above; the buffer drains |
| **Match sharing and candidate selection** `algebraic_connectivity_maximization.py`, `broker.py` | match buffer, candidate, fixed and considered edges, poses per robot | match, share, select, rekey, recover, cover, remove | called by sharing, requests and results between robots | late matches, two brokers, a selection that is never answered | an edge selected is recovered as it was, asked for where it exists, and never selected twice |
| **Front-end handlers** `front_end/*.cpp`, `lidar_handler_node.py` | keyframes and local descriptors by id | sensor data, requests, registration | topics | restart, unknown ids | requests answered |
| **E-stop manager** `dev1_platform/.../estop_manager.py` | one Boolean | two timers, a subscription | `/emergency_stop`, which it publishes on and subscribes to | its own echoes | a stop holds, and reaches everyone |
| **cmd_vel arbiter** `cmd_vel_arbiter.py` | last twist and stamp per source, stop | subscriptions, a timer | twist topics, `/emergency_stop` | timeout against a late twist | stop > teleop > autonomy > zero |
| **Rover teleop** `rover_teleop.py` | ramp state per rover | one loop: key, one callback, publication | twist topics, `/emergency_stop` | keys, stops and ceilings in any order | velocities feasible, coasting to rest, silent at zero |
| Dock, battery, diagnostics | dock state, charge, ages | timers, subscriptions | topics | stale flags | charging where docked |
| Keyboard GPIO pulser | H-bridge pins | a thread and a callback | GPIO | two writers | never both pins of a bridge high |
| **GLIM pipeline** `glim`, `glim_ros2` | queues between stages, batches in the threads | callbacks, timer, three thread loops, `wait()` | locked queues, kill switches, joins | four threads, IMU data that come late or never, the end of the sequence | the map is a run of consecutive scans, `wait()` returns and leaves nothing between the threads |
| **ikd-Tree** `FAST_LIO_ROS2/include/ikd-Tree` | tree, rebuild pointer, rebuild log, search counter | add, delete, lookup, nearest search, the rebuild thread | four mutexes and a flag | the copy and the swap of a subtree under updates and searches | no update lost, searches excluded, nobody in deleted nodes, nobody waits for ever |
| FAST-LIO | sensor buffers, filter | callbacks, main loop | one mutex | lidar and IMU data out of step | every scan with its IMU data |
| Livox and Ouster drivers | packet rings, sensor life cycle | receive, publish, reset | threads | rings at their limit | no packet torn |

Localization, NDT, scan conversion, the Gazebo bridge, the KITTI conversion,
tutorials and vendored libraries are numerical, third-party or offline code.
`PROJECT.json` lists every component with its files and status.

## 2. Modules

| Module | Models | Built on |
|---|---|---|
| `DecentralizedPGO` | the back-ends of all robots, their neighbour managers as the back-ends see them, the topics between | – |
| `DecentralizedPGO_proofs` | theorems about it | `DecentralizedPGO`, TLAPS |
| `DescriptorGossip` | abstract: each robot learns the others' descriptors in order | – |
| `DescriptorSharing` | buffer, marks, liveness, publication and filtering of descriptors | refines `DescriptorGossip` |
| `DescriptorSharing_proofs` | theorems about it | `DescriptorSharing`, `DataLemmas` |
| `TopicQueue` | a keep-last subscription queue | – |
| `DataLemmas` | facts about numbers, recursive functions and sequences, no model | TLAPS |
| `EstopManager` | the manager, its echoes, one tracking consumer | `TopicQueue` |
| `EstopManager_proofs` | theorems about it | `EstopManager`, TLAPS |
| `RoverTeleop` | the teleop loop and the ramp of each rover | – |
| `RoverCommand` | teleop, arbiter and topics composed | `RoverTeleop`, `TopicQueue` |
| `RoverCommand_proofs` | theorems about both | `RoverCommand`, TLAPS |
| `KdTreeRebuild` | the mapping thread, the searching threads and the rebuild thread on one subtree | – |
| `KdTreeRebuild_proofs` | theorems about it | `KdTreeRebuild`, TLAPS |
| `MapStream` | abstract: the map is a run of consecutive scans that grows at its end | – |
| `GlimPipeline` | GLIM's node and its three threads | refines `MapStream` |
| `GlimPipeline_proofs` | theorems about it | `GlimPipeline`, `DataLemmas` |
| `CandidateSelection` | matching, match sharing, broker, selection, requests, registration | takes from `DescriptorGossip` that descriptors arrive in order |
| `CandidateSelection_proofs` | theorems about it | `CandidateSelection`, `DataLemmas` |
| `MC*` | instances for TLC | the module of that name |

### State and actions against the code

*DecentralizedPGO.* The variables carry the names of the members (the comment of
each names it). A back-end runs in a single-threaded executor, so a callback is
one action of its robot: `OdometryCallback`, `InterRobotLoopClosureCallback`,
`OptimizationCallback` (start timer), `CurrentNeighborsCallback`,
`GetPoseGraphCallback`, `PoseGraphCallback`, `OptimizedEstimatesCallback`. The
loop timer is one action per branch: `CollectPoseGraphs`, `StartOptimization`,
`FinishOptimization`, `CheckWaitingTimeout`. `OptimizeEnds` is the task's thread.
`HeartbeatCallback` and `GetCurrentNeighborsCallback` are the neighbour manager
of the same robot, another process. `Restart` is a back-end that dies and is
started again. A pose graph is reduced to the keyframes it holds and the pairs
of robots its closures join; estimates to the keyframes they cover and the robot
in whose frame they really are. That frame is not in the code, which keeps only
a label: comparing the two is the point of `FrameAsLabelled`. The uninitialized
cells of `visited` are a nondeterministic set.

*DescriptorSharing.* One action per callback and timer; `select_from_which_kf_
to_send()` is split into `Start` and `Marked` because it asks twice who is alive.
Clocks are reduced to the three facts `is_alive()` distinguishes. `DeleteUseless`
keeps the skipped keys of deleting while iterating, and `Start` keeps the offset
that is compared with keys.

*EstopManager.* `Tick` publishes into two queues, the manager's own subscription
and another node's.

*RoverTeleop.* One step is one iteration: at most one key, at most one stop
message, then every rover publishes or is silent. Velocities count acceleration
steps, so a ceiling that is not a multiple of one is rounded to one. The
initial ceilings are the maxima (`config/swarm.yaml`).

*RoverCommand.* Composes the teleop's iteration with the arbiter's callbacks and
timer; the two take the stop from queues of their own.

*KdTreeRebuild.* It follows the one subtree `Rebuild_Ptr` may designate: `sub` is
the set of its points, `pending` the deletion its father has not pushed down,
`newSub` the copy of the rebuild thread. `reference` is a history variable, what
the calls alone make of the subtree. The mapping thread walks from `push`
(`Push_Down` of the father) over `check`/`walk` (`Search_by_range` of a
downsampling box) to `apply` (is it being rebuilt?), `applyFree` (no lock, no
log, may request a rebuild) or `applyLock` (under `working_flag_mutex`, logged
when `rebuild_flag` is set). A critical section of the mapping thread is one step;
those of the rebuild thread are several, because others observe what it holds
them over: `WorkingFlagHeld` and `SearchFlagFree` are the mutexes,
`search_mutex_counter` the hand-made read-write lock. `Rebuild` is
`multi_thread_rebuild()`, one action per step others can see. `Target` says
whether the subtree is the whole tree; the code has separate branches for that.
Rebuilding may be asked for after any unlogged update: the balance criterion is
data. The reset of `Rebuild_Ptr` for small subtrees (lines 843-844) is left out:
the designated subtree is updated with `allow_rebuild` false, which never gets
there. A test of `Rebuild_Ptr` reads it once; the code compares it with null, then
dereferences it. That a larger subtree replaces the one that waits to be rebuilt is
abstracted away, since only one subtree is followed.

*GlimPipeline.* Each thread has a program counter over the points where it
touches a queue. The node's timer and `wait()` are `spin` to `saved`; odometry is
`fetchImu`, `fetchFrames`, `check`, `process`, `finish`; sub mapping `publish`,
`fetch`, `check`, `insert`, `finish`; global mapping `fetch`, `check`, `insert`.
The names are the members'. `passthrough` chooses the sub mapping class that is
loaded. Which frames become keyframes, how many leave the smoother and when the
initial state is found is data: any choice. `Abstract` maps the pipeline to
`MapStream` by the concatenation of the submaps of the global mapping.

*CandidateSelection.* One action per callback or timer: `ReceiveKeyframe`,
`GlobalDescriptorCallback`, `InterRobotMatchesTimerCallback` (with the reception,
so that a late message is a late timer), `DetectInter`, then
`SendLocalDescriptorsRequest`, `ReceiveLocalDescriptors`,
`ReceiveInterRobotLoopClosure`. A match is the set of its two keyframes, as the
code compares edges. The timer and `detect_inter()` ask several times in one call who
is alive: `Again` holds the answers that differ from the first by one robot at most.
`Transmitted` and `Kept` keep what removing while iterating skips, within a chunk and,
when chunks hold one match, the chunk after one that is emptied; the chunks of one
timer reach a robot together or not at all; `Offsets` adds up the poses of the included robots in the order of their
ids, `Rekeyed` and `RecoveredVertex` keep the numbering of the solver's nodes
and its inverse. The solver chooses any subset of the size of the budget.
`registered` and `lost` are history variables.

## 3. Runs

All runs use `CHECK_DEADLOCK FALSE`: the bounded instances stop when their
bounds are used up (rounds, keys, messages, scans); the code does not. Waiting
for ever is excluded by liveness properties instead: `ReturnsToIdle`, `WaitsEnd`,
`WaitReturns`.

### Properties that hold

| Run | Bounds | Properties |
|---|---|---|
| `pgo_pair` | 2 robots, 1 closure, rounds: 2 of robot 0, 1 of robot 1, keyframe 0, 1 restart, gtsam may throw | `TypeOK`, `TimeoutArmed`, `LowestRobotLeads`, `FirstKeyframeKept`, `CollectionComplete`, `SharedWithConcerned`, `OnlyConnectedIncluded` |
| `pgo_live` | 2 robots, 1 round each | `ReturnsToIdle` |
| `share_in_range` | 2 producers, 4 descriptors each, chunks of 2, always in range | `TypeOK`, `NoInfoLost`, `ImplementsGossip`, `EventuallyLearned`, `BufferDrained` |
| `share_outage` | 1 producer, 2 listeners, 3 descriptors, 2 outages, delays within calls | `UnsentIsBuffered`, `NeverLearnedTwice` |
| `estop_settles` | queues of 3, 2 keys, 2 external messages | `TypeOK`, `SettledHolds`, `ConsumerFollows` |
| `teleop` | 2 rovers, 1 axis, speed 5, 4 keys | `FeasibleBelowCeiling`, `ComesToRest` |
| `command` | 1 rover, 1 axis, speed 1, 2 keys, 3 stop messages, 1 command, queues of 2 | `TypeOK`, `LeftAtZero`, `AutonomyFlows`, `StopsInTheEnd` |
| `kdtree` | 3 points in 2 boxes, 2 searching threads, 3 calls, 2 rebuilds of a son | `TypeOK`, `SearchExclusion`, `NoWalkOfDeleted`, `UpdatesKept`, `WaitsEnd` |
| `glim` | 3 scans, stamps up to 2, submaps of 2 keyframes, both sub mapping classes | `TypeOK`, `EveryScanOnce`, `MapComplete`, `NothingDropped`, `ImplementsMapStream`, `WaitReturns` |
| `candidates` | 3 robots with 0, 2 and 1 keyframes, budget 1, chunks of 2, 1 outage or lost message | `TypeOK`, `NeverCandidateAgain`, `RequestsAnswerable`, `SelectedAccounted`, `EveryMatchDecided` |

The type invariant of `command` includes that of `RoverTeleop` (`TeleopTypeOK`).

Why the bounds suffice:

* `pgo_pair`: a second round of the robot that wins ties is what lets an answer of
  one round arrive in the next and a result change an origin before a later one;
  the restart may come at any of those moments. One keyframe is enough: the
  properties only tell keyframe 0 from nothing.
* `share_in_range`: four descriptors in chunks of two give several messages, a
  chunk that is not full and a deletion that skips a key.
* `share_outage`: two listeners are the fewest that differ in what they were
  sent; two outages let a robot leave again, or both leave. The listeners are
  interchangeable, so the run uses symmetry (it checks no liveness).
* `estop_settles`: two keys and two messages engage, release and cross; queues
  of three hold an old value, the new one and the one after.
* `teleop`: two rovers tell broadcast from addressed keys; five speed steps let
  the commanded velocity lag its target and be caught by a lower ceiling. Axes
  never read one another except in being at rest.
* `command`: one velocity step each way of zero is what the arbiter can tell
  apart; two stop messages engage and release, and the third pushes one out of a
  queue of two, of the teleop's or the arbiter's alone.
* `kdtree`: one box holds two points, so a downsampled addition deletes and adds,
  and one holds a single point; two searchers let one be counted in while the
  other is not; three calls put one before, one during and one after a copy, and
  a second rebuild meets what the first one left.
* `glim`: three scans are one in the map, one in a submap under construction
  and one on its way; two stamps let scans end together, before or after the
  newest IMU data; two keyframes let a submap be complete or cut short by the end.
* `candidates`: three robots are the fewest where one is broker for edges it
  has no part in, and where the number of robots in range, on which the removal
  of matches depends, is two or three. With a budget of one the two edges are
  selected in separate rounds, and the connection-biased selection exceeds it.

### Disagreements with what the code says

Each of these runs checks one statement of a comment, and TLC finds a behaviour
of the code that violates it. `PROJECT.json` quotes the lines.

| Run | Statement | What happens |
|---|---|---|
| `pgo_frame` | reference frames allow conversions | a result is labelled with the origin at its end, not its start |
| `kdtree_missed` | a rebuild updates the missed operations | with `Target = "root"`, 3 calls and 1 rebuild: the deletion of a downsampling box asks for a rebuild of the whole tree, the addition after it is neither locked nor logged and is lost when the copy is swapped in |

The properties that hold are the nearest true statements: `NoInfoLost` without
outages, `SettledHolds` once no echo is under way, `ReturnsToIdle` and
`FirstKeyframeKept` without a restart, `FeasibleBelowCeiling` above the ceiling
excepted, `UpdatesKept` under a father and without stale log entries,
`MapComplete` up to the threads' input queues, `EveryMatchDecided` without faults,
with more than two robots in range.

The models have further behaviours of this kind, which no run shows:

* `decentralized_pgo.cpp:504`: `visited` has as many cells as there are neighbours
  and is indexed by robot id; beyond its end a connected robot may look visited
  and be left out of the aggregate (`decentralized_pgo.h:237`, "Put all connected
  pose graphs into one").
* `decentralized_pgo.cpp:842`: START_OPTIMIZATION is left by nothing when the
  estimates lack the first keyframe, as after a restart
  (`config/cslam/README.md:59`).
* `neighbors_manager.py:81`: a robot out of range counts as alive until its last
  heartbeat is too old, and is marked as sent what was published meanwhile.
* `estop_manager.py:66`: a `False` of the manager's own, published before a stop was
  requested and still queued, releases it (`estop_manager.py:6`).
* `async_sub_mapping.cpp:63`, `async_global_mapping.cpp:92`: `end_of_sequence` is
  tested after the queue was read and found empty; what was inserted in between
  stays in the queue, although the flag is to stop the thread "when the input queues
  become empty" (`async_sub_mapping.hpp:74`). The last frames or submaps are
  then not in the map.
* `sub_mapping.cpp:108`: the newest frame waits in `delayed_input_queue` for the
  next one; at the end it is in no submap.
* `async_odometry_estimation.cpp:56`: without IMU the time of the newest IMU data is
  infinite, until an IMU message that comes all the same replaces it (line 92),
  after which scans wait for IMU data.
* `glim_ros.cpp:269`: the result of the time keeper's check is not looked at, scans
  with rejected stamps are processed.
* `ikd_Tree.cpp:352`: `rebuild_flag` is reset after `working_flag_mutex` is released;
  an update in between is logged, and the next rebuild prints an error (244-247) and
  replays it on another subtree.
* `ikd_Tree.cpp:332`: when all points of the subtree are deleted, `new_root_node` is
  null and is dereferenced.
* `ikd_Tree.cpp:501`: the lookup of a downsampling box at the root takes no lock
  while the root is replaced.
* `algebraic_connectivity_maximization.py:283`: one edge per robot without a fixed
  one is selected even when that exceeds the budget
  (`loop_closure_sparse_matching.py:9`).
* `global_descriptor_loop_closure_detection.py:259`: with two robots in range their
  matches are left out, because they "should have already been detected by the other
  robot" (line 254), and marked as sent. The other may have kept a better match: robot
  1 matches its first keyframe with the first one of robot 0; robot 0 has made a more
  similar second one before it hears of that keyframe, and keeps that match only. No
  property covers the removals: `EveryMatchDecided` has three robots in range.
* `broker.py:84`: an approximate cover may hold both ends of an edge, which is then
  registered twice.
* `algebraic_connectivity_maximization.py:199`: an edge that becomes fixed without
  having been a candidate here does not count in `nb_poses`.
* `decentralized_pgo.cpp:343`: an answer of the neighbour manager sets the state
  whatever it was, so a late one moves the optimizer out of OPTIMIZATION while
  the task runs, and its result is dropped (`decentralized_pgo.h:51`).
* `decentralized_pgo.cpp:341`: `is_optimizer()` is asked when an answer arrives and never
  again, and results change origins meanwhile, so among three robots two that know
  each other's origin may both collect: 1 optimizes with 2; 0 does so too and 2 adopts
  origin 0; 2 starts a round knowing of 1 and collects; only then does 1's result reach
  2, whose origin is now 1; in its next round 1 ties with 2 and collects as well.
  `LowestRobotLeads` says what remains true for any number of robots.
* `decentralized_pgo.cpp:357`: origins are compared before ids, so the robot with
  the "lowest ID" of `decentralized_pgo.h:263` need not be the one that optimizes.
* `decentralized_pgo.cpp:397`: connectivity is reported for every closure, factors
  are sent by the lower id only; an aggregate may hold poses nothing ties to it.
* `neighbors_manager.py:81`: liveness is asked twice in one selection; a robot
  whose init delay ends in between is marked as sent what was not published.
* `neighbors_manager.py:161`: a robot that first hears newer descriptors filters
  out the older ones that were kept for it.
* `global_descriptor_loop_closure_detection.py:208`: an offset is compared with
  keys, so descriptors already known are published again after a deletion.
* `neighbor_monitor.py:53`: without monitoring `is_alive()` returns `None`, where
  `config/cslam/README.md:47` says all robots are neighbours.
* `estop_manager.py:88`: an external `True` and the manager's own `False` can chase
  each other through its subscription for as long as the timer keeps pace.
* `rover_teleop.py:442`: "while True, teleop skips publishing", but under a stop it
  publishes a zero to every rover in every iteration (lines 590-605).
  `LeftAtZero` depends on it.
* `rover_teleop.py:266`: the clamp to the ceiling follows the acceleration limit,
  so lowering the ceiling makes the command jump.

### Fairness

* `DecentralizedPGO`: the loop timer (a wall timer), the clock it compares with,
  and the termination of the optimization task. Not the network, the neighbour
  manager or the start timer: a round must end without them.
* `DescriptorSharing`: timers, heartbeats in range, passing of the init delay,
  reception.
* `EstopManager`: the 20 Hz timer and the reception of queued messages.
* `RoverTeleop`: the loop goes on, and release windows pass (0.12 s); no stop is
  assumed, so a rover must come to rest without one.
* `RoverCommand`: the arbiter's executor and the handoff window; nothing about
  the teleop, which may die, or the commands.
* `KdTreeRebuild`: the mapping thread inside a call, the rebuild thread and each
  searching thread run; nothing makes the mapping thread call again. A wait on a
  mutex or on the counter is a disabled step: its thread goes on when the wait ends.
* `GlimPipeline`: the three threads and, once it waits, the node run. Nothing says
  that data arrive or that the node is stopped.
* `CandidateSelection`: one condition, some timer or reception that can make a
  difference happens. Keyframes and descriptors need not come.

All of it is weak fairness: each of these steps stays enabled until taken.

## 4. Proofs

`DecentralizedPGO_proofs` proves, for any set of numbered robots, any closures
and ranges, and any bounds, from `PGOAssumption`:

* `TypeCorrect`, `CollectionIsComplete`, `TimeoutIsArmed`, `ResultIsShared`.

The inductive invariant `IInv` is the conjunction of `TypeOK`, `FlagsMatch`,
`CollectionComplete`, `TimeoutArmed` and `SharedWithConcerned`. `CollectionComplete` alone is
not inductive: a pose graph completes a collection when every neighbour is
*flagged* as received, so `FlagsMatch` says that a flagged robot has its graph.
The three others need types, and `SharedWithConcerned` needs that results cover
only what was included, that is neighbours and the robot itself. There is one
lemma per action, one step per conjunct it can disturb; `NextIInv` puts them
together and the theorems follow.

The second half of the module adds three theorems, each on top of `IInv`:

* `LowestLeads` (`LowestRobotLeads`). `LeadInv` adds to the property that every heartbeat,
  answer and result that mentions the lowest robot gives it its own origin: no
  result of another robot is ever sent to it, because whoever knows it does not go on.
* `ConnectedOnly` (`OnlyConnectedIncluded`). Four lemmas about `ReachedFrom` (it holds the
  root, is closed, and grows with the links) carry it; connectivity itself never
  changes between the start of an optimization and its end.
* `FirstKeyframeStays` (`FirstKeyframeKept`). Until somebody restarts, all poses of a
  robot that are sent, collected or computed are none or contain keyframe 0
  (`Whole`), so none that replaces the estimates lacks it.

`EstopManager_proofs` proves `TypeCorrect` and `StopSettles` (the action property
`SettledHolds`) for every queue depth. `KeepFacts` and `TakeFacts` say what putting
into and taking from a queue does to its content; they are all the rest uses.

`KdTreeRebuild_proofs` proves, from `KdAssumption`, for any points, boxes, number
of searching threads, calls and rebuilds and for both targets: `TypeCorrect`,
`SearchesExcluded` and `DeletedNotWalked`. The counter alone does not exclude
searches, since those that see no rebuild do not count themselves in. The
inductive invariant adds that such a search saw no request and that none can be
made before it is joined (`Uncounted`), that the counter is -1 or the number of
counted searches (`CounterMatches`, with `Cardinality` over any finite set of
threads), when a request is pending (`Requested`), what the points of a call rely
on (`CallShape`), and that a walker entered the copy in place (`Entered`).

Its second half proves `RebuildKeepsUpdates` (`UpdatesKept`): the copy and the log
together always make the subtree. What replaying a log makes of a set is said point by
point, by the last operation that is about the point, which needs no induction over
the log to append to it or to take its first operation out. The property speaks of
a subtree under a father; for the root it fails (`kdtree_missed`).

`DescriptorSharing_proofs` proves, from `SharingAssumption`, for any robots, numbers of
descriptors and of outages, chunks and queues:

* `TypeCorrect`, `UnsentStays` (`UnsentIsBuffered`) and `LearnedOnce`
  (`NeverLearnedTwice`). Besides types, the invariant says that the latest keyframe is
  always in the buffer, so that "sent everything" never exceeds what was made
  (`LatestKept`, `KeysMade`). `Least` and `Greatest` are choices; that they exist
  comes from the well-foundedness of the naturals. Of deletion only that it takes
  what lies below a bound is used, whichever keys it skips.
* `NothingLost` (`NoInfoLost`) where nobody leaves and no delay ends inside a selection
  (`Quiet`; elsewhere the property fails, see section 3). What one robot was
  sent all were (`SentToAll`), lower ids come first on every topic
  (`InOrder`), and nothing below a mark of reception is missing (`NoGaps`). The lemma
  `Omitted` is the heart: what a publication leaves out was sent to everybody
  before, and if nobody is alive while something is owed, the first key is 0 and nothing
  at all is published.
* `ImplementsInOrder` (`ImplementsGossip`), under the same assumption. From the
  above, what a robot learned of another is exactly the ids up to its mark of reception;
  `KnownMade` adds that nothing is learned that was not made, so taking a message is a
  step `Learn` of the gossip or a stutter, and every other step maps to `Make` or a stutter.

`RoverCommand_proofs` proves, from `TeleopAssumption`, `CommandAssumption` and
`DepthAssumption`: `FeasibleVelocities` (`FeasibleBelowCeiling`, of the teleop alone),
`TypeCorrect`, `ZeroIsLeft` (`LeftAtZero`, the conjunction of `SilentAtZero` and
`StoppedAtZero`) and `StopsKnownAlike`: teleop and arbiter come to the same stop
state, which no run checks. `Keyed` says what a key may make of the rovers before
they are published, `OnePeriod` what a period makes of one rover. `SilentAtZero` is
inductive only with `IdleRests`: between iterations `idle` is set for rovers at rest
alone, although a hard stop leaves it as it was and an arrow moves a rover while it
is still set. The last two rest on what is last in a queue
(`TailLast`, `KeepLast`): taking a message does not change it and a queue that drops
one drops the oldest.

`GlimPipeline_proofs` proves, from `GlimAssumption`, for any number of scans, any
stamps and any size of a submap:

* `TypeCorrect` and `NothingLeftBetween` (`MapComplete`). `Handover`, the
  strengthening, says in which order the flags are set, that each local batch is
  empty except where its thread works on it, and what each join has waited for.
* `ScansHeldOnce` (`EveryScanOnce`), `NoScanDropped` (`NothingDropped`) and
  `MapStreamImplemented` (`ImplementsMapStream`). The stream of all scans from the
  node's queue to the map is a concatenation of queues and batches. It is split
  where the odometry estimation holds it, into what it has delivered and what waits:
  every thread moves scans within one of the two, estimation moves the first scan of
  the second to the end of the first, and so one lemma per action suffices. That a
  step only moves a bracket is associativity of concatenation; submaps are joined
  by `FlattenSeq`, whose behaviour under `Append` and concatenation is proved in
  the same module.

`CandidateSelection_proofs` proves, from `SelectionAssumption`, for any robots,
similarities, budget and faults:

* `NeverAgain` (`NeverCandidateAgain`). Two lemmas carry it: adding candidates respects
  what was considered, removing puts on record what it removes.
* `TypeCorrect`, `RequestsAreAnswerable` (`RequestsAnswerable`) and
  `SelectedEdgesAccounted` (`SelectedAccounted`). `SelectionInv`, the strengthening, says
  that candidates, buffers, messages and requests are matches between keyframes that
  were made, and that every keyframe of a candidate counts in `nb_poses`. The rest is
  about one selection: the offsets keep the keyframes of different robots apart
  (`OffsetsAre`), therefore recovering undoes rekeying for whatever the solver picks
  (`RecoveredSame`, also listed, since it is what makes the solver's numbering
  correct); a cover of the selection asks for each of its edges; the edges are
  finite, so the heaviest one the code looks for exists.

`DataLemmas` holds what these proofs need of data. The library's induction
theorems take an operator as a parameter, so induction is stated there over sets
instead: a nonempty set of naturals has a least element, therefore a set that holds the
first number and, with every number, the next one holds them all. From that
come the greatest element of a finite set by any weight (`GreatestWeight`), that
functions defined by iteration exist and unfold (`Iterates`, `IteratesExists`) and stay
in a set that every step stays in (`StaysIn`), and the lemmas about sequences.

Only model-checked: liveness (`ReturnsToIdle`, `EventuallyLearned`, `BufferDrained`,
`ConsumerFollows`, `ComesToRest`, `AutonomyFlows`, `StopsInTheEnd`, `WaitsEnd`,
`WaitReturns`, `EveryMatchDecided`), since fairness is out of the prover's reach. Every
invariant, action property and refinement that a passing run checks is a theorem.
`NoInfoLost`, `ImplementsGossip` and `UpdatesKept` are theorems under the conditions
named above, outside of which they fail.

## 5. Left out of the modelled components

Wording, logging, visualization, tf output and parameter loading; intra-robot
closures; numerical results; the teleop's session restart; the time the executor
is blocked when a future is assigned. DDS discovery is not modelled: a node missed
what was published before it subscribed, and messages are lost where a step says
so.

Not modelled of the ikd-Tree: `Box_Search` and `Radius_Search`, `Add_Point_Boxes`, the
geometry of the nodes, the points outside the subtree. Of GLIM: images, the IMU
queues of the mapping threads, the kill switch, optimizations of an idle global
mapping, the continuous-time estimator. Of candidate selection: `set_graph`, random
initializations, `simple_dialog`, a restart of the front-end (a robot is then asked for
keyframes of its former life, and `lidar_handler_node.py:108` raises).

The components with the status `not_modelled` are third-party, numerical, offline,
wiring, or on the list below.

## 6. What comes next

1. `DockStation`: dock monitor, battery and diagnostics (a status of another dock
   clears the charging flag, `battery_publisher.py:83`).
2. `GpioPulser`: the keyboard thread and the callback on the same pins.
3. `LivoxQueue`: the packet ring of the driver, against a bounded FIFO that the ring of
   ouster-ros implements too.
4. `Keyframes`: the front-end's keyframe generation and restart, composed with the
   optimizer as the source of keyframes and closures.
5. FAST-LIO's lidar and IMU buffers.
6. `Fleet`: `EstopManager` as the source of stops in `RoverCommand`.

Abstract specifications worth stating and proving to be implemented: a lossy gossip for
`DescriptorSharing` with outages too; a mux with priorities for the arbiter; for
`DecentralizedPGO`, rounds that end in a shared result or in nothing.
