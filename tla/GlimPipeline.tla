---------------------------- MODULE GlimPipeline ----------------------------
(***************************************************************************)
(* The asynchronous pipeline of GLIM: the node's callbacks and timer run   *)
(* in one thread, the odometry estimation, the sub mapping and the global  *)
(* mapping in a thread each, and ConcurrentVectors join them.  When the    *)
(* node stops, wait() ends the three threads one after the other with      *)
(* their soft kill switch.                                                 *)
(*                                                                         *)
(* A scan is its number and the time it ends at.  The queue of IMU data is *)
(* the newest stamp in it, 0 when it is empty: nothing else of it is used  *)
(* here.  The IMU data and images the mapping threads also take, and what  *)
(* an idle global mapping optimizes, change poses only and are left out.   *)
(* Which frames are keyframes, how many leave the smoother's window and    *)
(* when its initial state is known depend on the data: any choice is       *)
(* allowed.                                                                *)
(***************************************************************************)
EXTENDS Integers, Sequences, SequencesExt

CONSTANTS MaxScans,            \* bound: scans received
          MaxStamp,            \* bound: stamps of the IMU and ends of scans
          max_num_keyframes    \* params.max_num_keyframes of the sub mapping

ASSUME GlimAssumption ==
  /\ MaxScans \in Nat /\ MaxStamp \in Nat
  /\ max_num_keyframes \in Nat \ {0}

VARIABLES
  node,                    \* where the node's thread is
  scans, last_imu_stamp,   \* scans received; the time keeper's newest stamp
  frames_, submaps_,       \* results the node has fetched and not yet passed on
  end_of_sequence,         \* the threads it was set for
  odom, input_imu_queue, input_frame_queue,
  imu_frames, raw_frames, last_imu_time,
  initialised, frames,     \* the estimator's state: its active frames
  output_marginalized_frames,
  sub, sub_input_queue, odom_batch,
  passthrough,             \* which sub mapping module is loaded
  delayed_input_queue, odom_frames, keyframes, submap_queue,
  output_submap_queue,
  global, submap_input_queue, submap_batch,
  submaps                  \* the map: the submaps inserted, in order

nodeVars == <<node, scans, last_imu_stamp, frames_, submaps_, end_of_sequence>>
odomVars == <<odom, imu_frames, raw_frames, last_imu_time, initialised, frames>>
odomQueues == <<input_imu_queue, input_frame_queue, output_marginalized_frames>>
subVars == <<sub, odom_batch, passthrough, delayed_input_queue, odom_frames,
             keyframes, submap_queue>>
subQueues == <<sub_input_queue, output_submap_queue>>
globalVars == <<global, submap_batch, submaps>>
vars == <<nodeVars, odomVars, odomQueues, subVars, subQueues, globalVars,
          submap_input_queue>>

Forever == MaxStamp + 1    \* numeric_limits<double>::max()

Init ==
  /\ node = "spin" /\ scans = 0 /\ last_imu_stamp = 0
  /\ frames_ = <<>> /\ submaps_ = <<>> /\ end_of_sequence = {}
  /\ odom = "fetchImu" /\ input_imu_queue = 0 /\ input_frame_queue = <<>>
  /\ imu_frames = 0 /\ raw_frames = <<>> /\ last_imu_time \in {0, Forever}
  /\ initialised = FALSE /\ frames = <<>> /\ output_marginalized_frames = <<>>
  /\ sub = "publish" /\ sub_input_queue = <<>> /\ odom_batch = <<>>
  /\ passthrough \in BOOLEAN /\ delayed_input_queue = <<>>
  /\ odom_frames = <<>> /\ keyframes = 0 /\ submap_queue = <<>>
  /\ output_submap_queue = <<>>
  /\ global = "fetch" /\ submap_input_queue = <<>> /\ submap_batch = <<>>
  /\ submaps = <<>>

----------------------------------------------------------------------------
(* The node.  The pushes of a callback into different queues are one step: *)
(* no thread but this one moves data from one of them to another.          *)

UnchangedThreads == UNCHANGED <<odomVars, subVars, globalVars>>

(* imu_callback(): stamps that go back are skipped.                        *)
ImuCallback ==
  /\ node = "spin"
  /\ \E stamp \in 1..MaxStamp : /\ stamp >= last_imu_stamp
                                /\ last_imu_stamp' = stamp
                                /\ input_imu_queue' = stamp
  /\ UNCHANGED <<node, scans, frames_, submaps_, end_of_sequence,
                 input_frame_queue, output_marginalized_frames, subQueues,
                 submap_input_queue>>
  /\ UnchangedThreads

(* points_callback(): what the time keeper says of the stamp is ignored.   *)
PointsCallback ==
  /\ node = "spin" /\ scans < MaxScans
  /\ scans' = scans + 1
  /\ \E end \in 1..MaxStamp :
       input_frame_queue' = Append(input_frame_queue,
                                   [id |-> scans', scan_end_time |-> end])
  /\ UNCHANGED <<node, last_imu_stamp, frames_, submaps_, end_of_sequence,
                 input_imu_queue, output_marginalized_frames, subQueues,
                 submap_input_queue>>
  /\ UnchangedThreads

(* The node goes from one place to the next, and may end a thread.         *)
Goto(from, to, stages) ==
  /\ node = from /\ node' = to
  /\ end_of_sequence' = end_of_sequence \cup stages

(* timer_callback() and wait() fetch the marginalized frames ...           *)
TakeFrames(from, to) ==
  /\ Goto(from, to, {})
  /\ frames_' = output_marginalized_frames
  /\ output_marginalized_frames' = <<>>
  /\ UNCHANGED <<scans, last_imu_stamp, submaps_, input_imu_queue,
                 input_frame_queue, subQueues, submap_input_queue>>
  /\ UnchangedThreads

(* ... pass them on one by one ...                                         *)
InsertFrame ==
  /\ frames_ # <<>>
  /\ sub_input_queue' = Append(sub_input_queue, Head(frames_))
  /\ frames_' = Tail(frames_)
  /\ UNCHANGED <<node, scans, last_imu_stamp, submaps_, end_of_sequence,
                 odomQueues, output_submap_queue, submap_input_queue>>
  /\ UnchangedThreads

(* ... fetch the submaps ...                                               *)
TakeSubmaps(from, to) ==
  /\ frames_ = <<>>
  /\ Goto(from, to, {})
  /\ submaps_' = output_submap_queue
  /\ output_submap_queue' = <<>>
  /\ UNCHANGED <<scans, last_imu_stamp, frames_, odomQueues, sub_input_queue,
                 submap_input_queue>>
  /\ UnchangedThreads

(* ... and pass these on.                                                  *)
InsertSubmap ==
  /\ submaps_ # <<>>
  /\ submap_input_queue' = Append(submap_input_queue, Head(submaps_))
  /\ submaps_' = Tail(submaps_)
  /\ UNCHANGED <<node, scans, last_imu_stamp, frames_, end_of_sequence,
                 odomQueues, subQueues>>
  /\ UnchangedThreads

UnchangedByJoin ==
  /\ UNCHANGED <<scans, last_imu_stamp, frames_, submaps_, odomQueues,
                 subQueues, submap_input_queue>>
  /\ UnchangedThreads

EndTimer == /\ node = "timerSubmaps" /\ submaps_ = <<>>
            /\ Goto("timerSubmaps", "spin", {})
            /\ UnchangedByJoin

(* wait(): spinning has ended, join() the odometry estimation.             *)
Wait == Goto("spin", "joinOdom", {"odom"}) /\ UnchangedByJoin

JoinSub == /\ frames_ = <<>>
           /\ Goto("lastFrames", "joinSub", {"sub"})
           /\ UnchangedByJoin

JoinGlobal == /\ submaps_ = <<>>
              /\ Goto("lastSubmaps", "joinGlobal", {"global"})
              /\ UnchangedByJoin

Save == /\ global = "done"
        /\ Goto("joinGlobal", "saved", {})
        /\ UnchangedByJoin

Timer == TakeFrames("spin", "timerFrames")

NodeStep ==
  \/ InsertFrame \/ InsertSubmap \/ EndTimer \/ JoinSub \/ JoinGlobal \/ Save
  \/ TakeSubmaps("timerFrames", "timerSubmaps")
  \/ odom = "done" /\ TakeFrames("joinOdom", "lastFrames")
  \/ sub = "done" /\ TakeSubmaps("joinSub", "lastSubmaps")

----------------------------------------------------------------------------
(* AsyncOdometryEstimation::run().                                         *)

UnchangedByOdom ==
  UNCHANGED <<nodeVars, subVars, subQueues, globalVars, submap_input_queue>>

OdomFetchImu ==
  /\ odom = "fetchImu"
  /\ imu_frames' = input_imu_queue /\ input_imu_queue' = 0
  /\ odom' = "fetchFrames"
  /\ UNCHANGED <<raw_frames, last_imu_time, initialised, frames,
                 input_frame_queue, output_marginalized_frames>>
  /\ UnchangedByOdom

(* Mutant: the scans still waiting for IMU data are replaced.              *)
OdomReplaceFrames ==
  /\ odom = "fetchFrames"
  /\ raw_frames' = input_frame_queue /\ input_frame_queue' = <<>>
  /\ odom' = "check"
  /\ UNCHANGED <<imu_frames, last_imu_time, initialised, frames,
                 input_imu_queue, output_marginalized_frames>>
  /\ UnchangedByOdom

OdomFetchFrames ==
  /\ odom = "fetchFrames"
  /\ raw_frames' = raw_frames \o input_frame_queue
  /\ input_frame_queue' = <<>>
  /\ odom' = "check"
  /\ UNCHANGED <<imu_frames, last_imu_time, initialised, frames,
                 input_imu_queue, output_marginalized_frames>>
  /\ UnchangedByOdom

OdomCheck ==
  /\ odom = "check"
  /\ IF imu_frames = 0 /\ raw_frames = <<>>
     THEN odom' = IF "odom" \in end_of_sequence THEN "finish" ELSE "fetchImu"
     ELSE odom' = "process"
  /\ last_imu_time' = IF imu_frames = 0 THEN last_imu_time ELSE imu_frames
  /\ imu_frames' = 0
  /\ UNCHANGED <<raw_frames, initialised, frames, odomQueues>>
  /\ UnchangedByOdom

(* Mutant: a scan waits for IMU data even when no more will come.          *)
CoveredOnly == Head(raw_frames).scan_end_time <= last_imu_time

(* The IMU data cover the first scan, or no more will come.                *)
Covered == \/ "odom" \in end_of_sequence
           \/ Head(raw_frames).scan_end_time <= last_imu_time

(* Mutant: marginalized_cursor is not advanced.                            *)
EstimateKeeping(id) ==
  /\ initialised' = TRUE /\ frames' = Append(frames, id)
  /\ \E n \in 0..Len(frames) :
       output_marginalized_frames' =
         output_marginalized_frames \o SubSeq(frames, 1, n)

(* OdometryEstimationIMU::insert_frame(): scans are used up until the      *)
(* initial state is known; later ones enter the window, and the oldest may *)
(* leave it, never the newest.                                             *)
Estimate(id) ==
  \/ /\ ~initialised
     /\ UNCHANGED <<initialised, frames, output_marginalized_frames>>
  \/ /\ ~initialised
     /\ initialised' = TRUE /\ frames' = <<id>>
     /\ UNCHANGED output_marginalized_frames
  \/ /\ initialised
     /\ \E n \in 0..Len(frames) :
          /\ output_marginalized_frames' =
               output_marginalized_frames \o SubSeq(frames, 1, n)
          /\ frames' = Append(SubSeq(frames, n + 1, Len(frames)), id)
     /\ UNCHANGED initialised

OdomProcess ==
  /\ odom = "process" /\ raw_frames # <<>> /\ Covered
  /\ Estimate(Head(raw_frames).id)
  /\ raw_frames' = Tail(raw_frames)
  /\ UNCHANGED <<odom, imu_frames, last_imu_time, input_imu_queue,
                 input_frame_queue>>
  /\ UnchangedByOdom

OdomLoop ==
  /\ odom = "process" /\ (raw_frames # <<>> => ~Covered)
  /\ odom' = "fetchImu"
  /\ UNCHANGED <<imu_frames, raw_frames, last_imu_time, initialised, frames,
                 odomQueues>>
  /\ UnchangedByOdom

(* get_remaining_frames(): the frames of the window are passed on too.     *)
OdomFinish ==
  /\ odom = "finish"
  /\ output_marginalized_frames' = output_marginalized_frames \o frames
  /\ odom' = "done"
  /\ UNCHANGED <<imu_frames, raw_frames, last_imu_time, initialised, frames,
                 input_imu_queue, input_frame_queue>>
  /\ UnchangedByOdom

OdomStep == \/ OdomFetchImu \/ OdomFetchFrames \/ OdomCheck \/ OdomProcess
            \/ OdomLoop \/ OdomFinish

----------------------------------------------------------------------------
(* AsyncSubMapping::run().                                                 *)

UnchangedBySub ==
  UNCHANGED <<nodeVars, odomVars, odomQueues, passthrough, globalVars,
              submap_input_queue>>

SubPublish ==
  /\ sub = "publish"
  /\ output_submap_queue' = output_submap_queue \o submap_queue
  /\ submap_queue' = <<>>
  /\ sub' = "fetch"
  /\ UNCHANGED <<odom_batch, delayed_input_queue, odom_frames, keyframes,
                 sub_input_queue>>
  /\ UnchangedBySub

SubFetch ==
  /\ sub = "fetch"
  /\ odom_batch' = sub_input_queue /\ sub_input_queue' = <<>>
  /\ sub' = "check"
  /\ UNCHANGED <<delayed_input_queue, odom_frames, keyframes, submap_queue,
                 output_submap_queue>>
  /\ UnchangedBySub

(* Mutant: the soft kill switch is tested before the batch.                *)
SubCheckHard ==
  /\ sub = "check"
  /\ sub' = IF "sub" \in end_of_sequence THEN "finish"
            ELSE IF odom_batch # <<>> THEN "insert" ELSE "publish"
  /\ UNCHANGED <<odom_batch, delayed_input_queue, odom_frames, keyframes,
                 submap_queue, subQueues>>
  /\ UnchangedBySub

SubCheck ==
  /\ sub = "check"
  /\ sub' = IF odom_batch # <<>> THEN "insert"
            ELSE IF "sub" \in end_of_sequence THEN "finish" ELSE "publish"
  /\ UNCHANGED <<odom_batch, delayed_input_queue, odom_frames, keyframes,
                 submap_queue, subQueues>>
  /\ UnchangedBySub

(* Mutant: the frames of a complete submap are not cleared.                *)
AddToSubmapKeeping(id) ==
  /\ odom_frames' = Append(odom_frames, id) /\ keyframes' = 0
  /\ submap_queue' = Append(submap_queue, odom_frames')

(* Mutant: one keyframe too many fits in a submap.                         *)
AddOneMore(id) ==
  /\ odom_frames' = Append(odom_frames, id)
  /\ keyframes' = IF keyframes > max_num_keyframes THEN 0 ELSE keyframes + 1
  /\ submap_queue' = IF keyframes' = 0 THEN Append(submap_queue, odom_frames')
                     ELSE submap_queue

(* A frame joins the submap under construction, as a keyframe or not, and  *)
(* may complete it.  The passthrough module also counts voxels.            *)
AddToSubmap(id) ==
  \E k \in IF keyframes = 0 THEN {1} ELSE {keyframes, keyframes + 1} :
    \/ /\ k >= max_num_keyframes \/ passthrough
       /\ submap_queue' = Append(submap_queue, Append(odom_frames, id))
       /\ odom_frames' = <<>> /\ keyframes' = 0
    \/ /\ k < max_num_keyframes
       /\ odom_frames' = Append(odom_frames, id) /\ keyframes' = k
       /\ UNCHANGED submap_queue

(* insert_frame(): SubMapping smooths a frame with the one after it and    *)
(* keeps the newest back.                                                  *)
SubInsert ==
  /\ sub = "insert" /\ odom_batch # <<>>
  /\ odom_batch' = Tail(odom_batch)
  /\ LET waiting == Append(delayed_input_queue, Head(odom_batch))
     IN IF passthrough
        THEN AddToSubmap(Head(odom_batch)) /\ UNCHANGED delayed_input_queue
        ELSE IF Len(waiting) < 2
             THEN /\ delayed_input_queue' = waiting
                  /\ UNCHANGED <<odom_frames, keyframes, submap_queue>>
             ELSE /\ AddToSubmap(Head(waiting))
                  /\ delayed_input_queue' = Tail(waiting)
  /\ UNCHANGED <<sub, subQueues>>
  /\ UnchangedBySub

SubLoop ==
  /\ sub = "insert" /\ odom_batch = <<>>
  /\ sub' = "publish"
  /\ UNCHANGED <<odom_batch, delayed_input_queue, odom_frames, keyframes,
                 submap_queue, subQueues>>
  /\ UnchangedBySub

(* submit_end_of_sequence(): the submap under construction is closed.      *)
SubFinish ==
  /\ sub = "finish"
  /\ output_submap_queue' = IF odom_frames = <<>> THEN output_submap_queue
                            ELSE Append(output_submap_queue, odom_frames)
  /\ sub' = "done"
  /\ UNCHANGED <<odom_batch, delayed_input_queue, odom_frames, keyframes,
                 submap_queue, sub_input_queue>>
  /\ UnchangedBySub

SubStep == SubPublish \/ SubFetch \/ SubCheck \/ SubInsert \/ SubLoop \/ SubFinish

----------------------------------------------------------------------------
(* AsyncGlobalMapping::run().                                              *)

UnchangedByGlobal ==
  UNCHANGED <<nodeVars, odomVars, odomQueues, subVars, subQueues>>

GlobalFetch ==
  /\ global = "fetch"
  /\ submap_batch' = submap_input_queue /\ submap_input_queue' = <<>>
  /\ global' = "check"
  /\ UNCHANGED submaps
  /\ UnchangedByGlobal

GlobalCheck ==
  /\ global = "check"
  /\ global' = IF submap_batch # <<>> THEN "insert"
               ELSE IF "global" \in end_of_sequence THEN "done" ELSE "fetch"
  /\ UNCHANGED <<submap_batch, submap_input_queue, submaps>>
  /\ UnchangedByGlobal

(* The submaps of a batch are inserted under global_mapping_mutex.         *)
GlobalInsert ==
  /\ global = "insert"
  /\ submaps' = submaps \o submap_batch /\ submap_batch' = <<>>
  /\ global' = "fetch"
  /\ UNCHANGED submap_input_queue
  /\ UnchangedByGlobal

GlobalStep == GlobalFetch \/ GlobalCheck \/ GlobalInsert

----------------------------------------------------------------------------
Next == \/ ImuCallback \/ PointsCallback \/ Timer \/ Wait \/ NodeStep
        \/ OdomStep \/ SubStep \/ GlobalStep

Spec == Init /\ [][Next]_vars

(* Every thread keeps running.  Nothing says that data arrive or that the  *)
(* node stops.                                                             *)
FairSpec == /\ Spec
            /\ WF_vars(NodeStep) /\ WF_vars(OdomStep)
            /\ WF_vars(SubStep) /\ WF_vars(GlobalStep)

----------------------------------------------------------------------------
Stage == {"odom", "sub", "global"}
Number == 1..MaxScans
Scan == [id : Number, scan_end_time : 1..MaxStamp]

NodeTypes ==
  /\ node \in {"spin", "timerFrames", "timerSubmaps", "joinOdom", "lastFrames",
               "joinSub", "lastSubmaps", "joinGlobal", "saved"}
  /\ scans \in 0..MaxScans /\ last_imu_stamp \in 0..MaxStamp
  /\ frames_ \in Seq(Number) /\ submaps_ \in Seq(Seq(Number))
  /\ end_of_sequence \subseteq Stage

OdomTypes ==
  /\ odom \in {"fetchImu", "fetchFrames", "check", "process", "finish", "done"}
  /\ imu_frames \in 0..MaxStamp /\ last_imu_time \in 0..Forever
  /\ raw_frames \in Seq(Scan)
  /\ initialised \in BOOLEAN /\ frames \in Seq(Number)

SubTypes ==
  /\ sub \in {"publish", "fetch", "check", "insert", "finish", "done"}
  /\ passthrough \in BOOLEAN
  /\ odom_batch \in Seq(Number) /\ delayed_input_queue \in Seq(Number)
  /\ odom_frames \in Seq(Number) /\ submap_queue \in Seq(Seq(Number))
  /\ keyframes \in 0..(max_num_keyframes - 1)

GlobalTypes ==
  /\ global \in {"fetch", "check", "insert", "done"}
  /\ submap_batch \in Seq(Seq(Number)) /\ submaps \in Seq(Seq(Number))

QueueTypes ==
  /\ input_imu_queue \in 0..MaxStamp /\ input_frame_queue \in Seq(Scan)
  /\ output_marginalized_frames \in Seq(Number)
  /\ sub_input_queue \in Seq(Number)
  /\ output_submap_queue \in Seq(Seq(Number))
  /\ submap_input_queue \in Seq(Seq(Number))

(* Type correctness; a submap under construction has fewer keyframes than  *)
(* a complete one.                                                         *)
TypeOK == NodeTypes /\ OdomTypes /\ SubTypes /\ GlobalTypes /\ QueueTypes

Ids(queue) == [k \in 1..Len(queue) |-> queue[k].id]

Map == FlattenSeq(submaps)

(* Everything the pipeline holds, from the map back to the sensor.  When   *)
(* its thread has ended, what a module still holds has been handed over.   *)
Stream ==
  FlattenSeq(submaps \o submap_batch \o submap_input_queue \o submaps_
             \o output_submap_queue \o submap_queue)
  \o (IF sub = "done" THEN <<>> ELSE odom_frames)
  \o delayed_input_queue \o odom_batch \o sub_input_queue \o frames_
  \o output_marginalized_frames \o (IF odom = "done" THEN <<>> ELSE frames)
  \o Ids(raw_frames) \o Ids(input_frame_queue)

(* No interleaving of the four threads loses a scan between two queues,    *)
(* holds it twice or lets it overtake another: what the pipeline holds is  *)
(* always a run of consecutive scans up to the newest.                     *)
EveryScanOnce ==
  \A k \in 1..Len(Stream) : Stream[k] = scans - Len(Stream) + k

(* Once the initial state is known no step takes a scan out.               *)
NothingDropped ==
  [][initialised => Len(Stream') - Len(Stream) = scans' - scans]_vars

(* When wait() returns the three threads have ended and nothing is left on *)
(* its way between them.  A scan that is not in the map can only be in the *)
(* input queue of a thread or be the one frame SubMapping kept back.       *)
MapComplete ==
  node = "saved" =>
    /\ odom = "done" /\ sub = "done" /\ global = "done"
    /\ raw_frames = <<>> /\ output_marginalized_frames = <<>> /\ frames_ = <<>>
    /\ odom_batch = <<>> /\ submap_queue = <<>>
    /\ output_submap_queue = <<>> /\ submaps_ = <<>> /\ submap_batch = <<>>

(* The pipeline implements the abstract map of consecutive scans.          *)
Abstract == INSTANCE MapStream WITH scans <- scans, map <- Map
ImplementsMapStream == Abstract!Spec

(* wait() returns: no join blocks for ever, whatever is still queued and   *)
(* even when the IMU data stop short of the last scans.                    *)
WaitReturns == node = "joinOdom" ~> node = "saved"
=============================================================================
