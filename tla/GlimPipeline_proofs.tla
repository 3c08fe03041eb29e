------------------------ MODULE GlimPipeline_proofs ------------------------
(***************************************************************************)
(* For every bound and every size of a submap: the types of the pipeline's *)
(* state, that wait() leaves nothing on its way between two threads, that  *)
(* what the pipeline holds is a run of consecutive scans, and that the map *)
(* implements MapStream.                                                   *)
(*                                                                         *)
(* The inductive invariant says who has ended whom and which local batch   *)
(* is empty where its owner is; TypeOK alone says nothing of either.       *)
(* These empty batches are also why a thread that takes a queue overwrites *)
(* no scan.  The stream is split at the odometry estimation: what is       *)
(* Delivered behind it never changes but by a scan at its end, whatever    *)
(* the threads hand to one another, and what is Waiting before it only     *)
(* gains scans last and loses them first.                                  *)
(***************************************************************************)
EXTENDS GlimPipeline, DataLemmas

AfterOdom == {"lastFrames", "joinSub", "lastSubmaps", "joinGlobal", "saved"}
AfterSub == {"lastSubmaps", "joinGlobal", "saved"}

(* The flags are set in the order wait() joins the threads.                *)
FlagsInOrder ==
  /\ "sub" \in end_of_sequence => node \in {"joinSub"} \cup AfterSub
  /\ "global" \in end_of_sequence => node \in {"joinGlobal", "saved"}

(* A thread that is about to end, or has ended, holds no batch.            *)
OdomEnds == odom \in {"finish", "done"} => raw_frames = <<>>

SubBatches ==
  /\ sub \notin {"check", "insert"} => odom_batch = <<>>
  /\ sub \notin {"publish", "insert"} => submap_queue = <<>>

GlobalBatches == global \notin {"check", "insert"} => submap_batch = <<>>

(* What a join has waited for.                                             *)
Joined ==
  /\ node \in AfterOdom =>
       odom = "done" /\ output_marginalized_frames = <<>>
  /\ node \in {"joinSub"} \cup AfterSub => frames_ = <<>>
  /\ node \in AfterSub => sub = "done" /\ output_submap_queue = <<>>
  /\ node \in {"joinGlobal", "saved"} => submaps_ = <<>>
  /\ node = "saved" => global = "done"

Handover == /\ FlagsInOrder /\ OdomEnds /\ SubBatches /\ GlobalBatches
            /\ Joined

IInv == TypeOK /\ Handover

LEMMA InitInv == Init => IInv
<1> SUFFICES ASSUME Init PROVE IInv OBVIOUS
<1> USE GlimAssumption DEF GlimAssumption, Init
<1>1. NodeTypes /\ GlobalTypes /\ QueueTypes
  BY DEF NodeTypes, GlobalTypes, QueueTypes
<1>2. OdomTypes
  <2>1. last_imu_time \in 0..Forever
    BY DEF Forever
  <2>2. initialised \in BOOLEAN
    BY Zenon
  <2>3. raw_frames \in Seq(Scan) /\ frames \in Seq(Number) /\ imu_frames \in 0..MaxStamp
    OBVIOUS
  <2>4. odom \in {"fetchImu", "fetchFrames", "check", "process", "finish", "done"}
    OBVIOUS
  <2> QED BY <2>1, <2>2, <2>3, <2>4 DEF OdomTypes
<1>3. SubTypes
  BY DEF SubTypes
<1>4. Handover
  BY DEF Handover, FlagsInOrder, OdomEnds, SubBatches, GlobalBatches, Joined,
         AfterOdom, AfterSub
<1> QED BY <1>1, <1>2, <1>3, <1>4 DEF IInv, TypeOK

(* The callbacks put data into the first queues only.                      *)
LEMMA CallbackStep ==
  ASSUME IInv, ImuCallback \/ PointsCallback
  PROVE  IInv'
<1> USE DEF UnchangedThreads, odomVars, subVars, globalVars, subQueues
<1>1. Handover'
  BY DEF IInv, Handover, FlagsInOrder, OdomEnds, SubBatches, GlobalBatches,
         Joined, ImuCallback, PointsCallback
<1>2. OdomTypes' /\ SubTypes' /\ GlobalTypes'
  <2>1. UNCHANGED <<odomVars, subVars, globalVars>>
    BY DEF ImuCallback, PointsCallback
  <2> QED
    BY <2>1 DEF IInv, TypeOK, OdomTypes, SubTypes, GlobalTypes
<1>3. CASE ImuCallback
  <2>1. NodeTypes' /\ QueueTypes'
    BY <1>3, GlimAssumption DEF GlimAssumption, IInv, TypeOK, NodeTypes,
       QueueTypes, ImuCallback
  <2> QED BY <1>1, <1>2, <2>1 DEF IInv, TypeOK
<1>4. CASE PointsCallback
  <2>1. NodeTypes' /\ scans' \in Number
    BY <1>4, GlimAssumption DEF GlimAssumption, IInv, TypeOK, NodeTypes,
       PointsCallback, Number
  <2>2. input_frame_queue' \in Seq(Scan)
    <3>1. PICK end \in 1..MaxStamp :
            input_frame_queue' = Append(input_frame_queue,
                                        [id |-> scans', scan_end_time |-> end])
      BY <1>4 DEF PointsCallback
    <3>2. [id |-> scans', scan_end_time |-> end] \in Scan
      BY <2>1 DEF Scan
    <3> QED BY <3>1, <3>2 DEF IInv, TypeOK, QueueTypes
  <2>3. QueueTypes'
    BY <1>4, <2>2 DEF IInv, TypeOK, QueueTypes, PointsCallback
  <2> QED BY <1>1, <1>2, <2>1, <2>3 DEF IInv, TypeOK
<1> QED BY <1>3, <1>4

(* What a batch or a queue becomes is again one of its type.               *)
LEMMA SeqMoves ==
  ASSUME NEW S, NEW s \in Seq(S), NEW t \in Seq(S)
  PROVE  /\ s \o t \in Seq(S)
         /\ s # <<>> => Head(s) \in S /\ Tail(s) \in Seq(S)
OBVIOUS

(* The node fetches results, passes them on, or ends the next thread.      *)
LEMMA NodeTyped ==
  ASSUME TypeOK, Timer \/ Wait \/ NodeStep
  PROVE  TypeOK'
<1> USE DEF UnchangedThreads, odomVars, subVars, globalVars, subQueues,
            odomQueues, UnchangedByJoin, Goto
<1>1. UNCHANGED <<odomVars, subVars, globalVars>>
  BY DEF Timer, Wait, NodeStep, InsertFrame, InsertSubmap, EndTimer, JoinSub,
         JoinGlobal, Save, TakeFrames, TakeSubmaps
<1>2. OdomTypes' /\ SubTypes' /\ GlobalTypes'
  BY <1>1 DEF TypeOK, OdomTypes, SubTypes, GlobalTypes
<1>3. CASE InsertFrame
  <2>1. Head(frames_) \in Number /\ Tail(frames_) \in Seq(Number)
    BY <1>3 DEF TypeOK, NodeTypes, InsertFrame
  <2>2. NodeTypes' /\ QueueTypes'
    BY <1>3, <2>1 DEF TypeOK, NodeTypes, QueueTypes, InsertFrame
  <2> QED BY <1>2, <2>2 DEF TypeOK
<1>4. CASE InsertSubmap
  <2>1. Head(submaps_) \in Seq(Number) /\ Tail(submaps_) \in Seq(Seq(Number))
    BY <1>4 DEF TypeOK, NodeTypes, InsertSubmap
  <2>2. NodeTypes' /\ QueueTypes'
    BY <1>4, <2>1 DEF TypeOK, NodeTypes, QueueTypes, InsertSubmap
  <2> QED BY <1>2, <2>2 DEF TypeOK
<1>5. CASE EndTimer \/ Wait \/ JoinSub \/ JoinGlobal \/ Save
  <2>1. NodeTypes'
    BY <1>5 DEF TypeOK, NodeTypes, EndTimer, Wait, JoinSub, JoinGlobal, Save,
       Stage
  <2>2. QueueTypes'
    BY <1>5 DEF TypeOK, QueueTypes, EndTimer, Wait, JoinSub, JoinGlobal, Save
  <2> QED BY <1>2, <2>1, <2>2 DEF TypeOK
<1>6. ASSUME NEW from, NEW to \in {"timerFrames", "lastFrames"},
             TakeFrames(from, to)
      PROVE  TypeOK'
  <2>1. NodeTypes' /\ QueueTypes'
    BY <1>6 DEF TypeOK, NodeTypes, QueueTypes, TakeFrames
  <2> QED BY <1>2, <2>1 DEF TypeOK
<1>7. ASSUME NEW from, NEW to \in {"timerSubmaps", "lastSubmaps"},
             TakeSubmaps(from, to)
      PROVE  TypeOK'
  <2>1. NodeTypes' /\ QueueTypes'
    BY <1>7 DEF TypeOK, NodeTypes, QueueTypes, TakeSubmaps
  <2> QED BY <1>2, <2>1 DEF TypeOK
<1> QED BY <1>3, <1>4, <1>5, <1>6, <1>7 DEF NodeStep, Timer

LEMMA NodeHandsOver ==
  ASSUME IInv, Timer \/ Wait \/ NodeStep
  PROVE  Handover'
<1> USE DEF UnchangedThreads, odomVars, subVars, globalVars, subQueues,
            odomQueues, UnchangedByJoin, Goto, IInv, TypeOK, NodeTypes, Stage,
            Handover, AfterOdom, AfterSub
<1>1. UNCHANGED <<odomVars, subVars, globalVars>>
  BY DEF Timer, Wait, NodeStep, InsertFrame, InsertSubmap, EndTimer, JoinSub,
         JoinGlobal, Save, TakeFrames, TakeSubmaps
<1>2. OdomEnds' /\ SubBatches' /\ GlobalBatches'
  BY <1>1 DEF OdomEnds, SubBatches, GlobalBatches
<1>3. CASE InsertFrame \/ InsertSubmap
  BY <1>2, <1>3 DEF InsertFrame, InsertSubmap, FlagsInOrder, Joined
<1>4. CASE EndTimer \/ Wait \/ JoinSub \/ JoinGlobal \/ Save
  <2>1. FlagsInOrder'
    BY <1>4 DEF FlagsInOrder, EndTimer, Wait, JoinSub, JoinGlobal, Save
  <2>2. Joined'
    BY <1>4 DEF Joined, EndTimer, Wait, JoinSub, JoinGlobal, Save
  <2> QED BY <1>2, <2>1, <2>2
<1>5. CASE Timer \/ (odom = "done" /\ TakeFrames("joinOdom", "lastFrames"))
  <2>1. FlagsInOrder'
    BY <1>5 DEF FlagsInOrder, Timer, TakeFrames
  <2>2. Joined'
    BY <1>5 DEF Joined, Timer, TakeFrames
  <2> QED BY <1>2, <2>1, <2>2
<1>6. CASE \/ TakeSubmaps("timerFrames", "timerSubmaps")
           \/ sub = "done" /\ TakeSubmaps("joinSub", "lastSubmaps")
  <2>1. FlagsInOrder'
    BY <1>6 DEF FlagsInOrder, TakeSubmaps
  <2>2. Joined'
    BY <1>6 DEF Joined, TakeSubmaps
  <2> QED BY <1>2, <2>1, <2>2
<1> QED BY <1>3, <1>4, <1>5, <1>6 DEF NodeStep

LEMMA OdomTyped ==
  ASSUME TypeOK, OdomStep
  PROVE  TypeOK'
<1> USE GlimAssumption DEF GlimAssumption, UnchangedByOdom, nodeVars, subVars, subQueues,
        globalVars, odomQueues
<1>1. NodeTypes' /\ SubTypes' /\ GlobalTypes'
  <2>1. UNCHANGED <<nodeVars, subVars, globalVars>>
    BY DEF OdomStep, OdomFetchImu, OdomFetchFrames, OdomCheck, OdomProcess,
           OdomLoop, OdomFinish
  <2> QED BY <2>1 DEF TypeOK, NodeTypes, SubTypes, GlobalTypes
<1>2. CASE OdomFetchImu
  BY <1>1, <1>2 DEF TypeOK, OdomTypes, QueueTypes, OdomFetchImu
<1>3. CASE OdomFetchFrames
  BY <1>1, <1>3 DEF TypeOK, OdomTypes, QueueTypes, OdomFetchFrames
<1>4. CASE OdomCheck
  BY <1>1, <1>4 DEF TypeOK, OdomTypes, QueueTypes, OdomCheck, Forever
<1>5. CASE OdomProcess
  <2>1. raw_frames' \in Seq(Scan) /\ Head(raw_frames).id \in Number
    <3>1. raw_frames' \in Seq(Scan) /\ Head(raw_frames) \in Scan
      BY <1>5 DEF TypeOK, OdomTypes, OdomProcess
    <3> QED BY <3>1 DEF Scan
  <2>2. PICK id \in Number : Estimate(id)
    BY <1>5, <2>1 DEF OdomProcess
  <2>3. /\ initialised' \in BOOLEAN /\ frames' \in Seq(Number)
        /\ output_marginalized_frames' \in Seq(Number)
    <3>1. CASE ~initialised
      <4>1. \/ UNCHANGED <<initialised, frames, output_marginalized_frames>>
            \/ /\ initialised' = TRUE /\ frames' = <<id>>
               /\ UNCHANGED output_marginalized_frames
        BY <2>2, <3>1, Zenon DEF Estimate
      <4>2. initialised' \in BOOLEAN
        BY <4>1, Zenon DEF TypeOK, OdomTypes
      <4>3. frames' \in Seq(Number)
        <5>1. <<id>> \in Seq(Number) /\ frames \in Seq(Number)
          BY DEF TypeOK, OdomTypes
        <5>2. frames' = frames \/ frames' = <<id>>
          BY <4>1, Zenon
        <5> QED BY <5>1, <5>2, Zenon
      <4>4. output_marginalized_frames' \in Seq(Number)
        BY <4>1 DEF TypeOK, QueueTypes
      <4> QED BY <4>2, <4>3, <4>4
    <3>2. CASE initialised
      <4>1. PICK n \in 0..Len(frames) :
              /\ output_marginalized_frames' =
                   output_marginalized_frames \o SubSeq(frames, 1, n)
              /\ frames' = Append(SubSeq(frames, n + 1, Len(frames)), id)
        BY <2>2, <3>2 DEF Estimate
      <4>2. /\ SubSeq(frames, 1, n) \in Seq(Number)
            /\ SubSeq(frames, n + 1, Len(frames)) \in Seq(Number)
        BY DEF TypeOK, OdomTypes
      <4>3. frames' \in Seq(Number) /\ output_marginalized_frames' \in Seq(Number)
        BY <4>1, <4>2 DEF TypeOK, QueueTypes
      <4>4. initialised' = initialised
        BY <2>2, <3>2 DEF Estimate
      <4>5. initialised' \in BOOLEAN
        BY <4>4, Zenon DEF TypeOK, OdomTypes
      <4> QED BY <4>3, <4>5
    <3> QED BY <3>1, <3>2
  <2> QED BY <1>1, <1>5, <2>1, <2>3 DEF TypeOK, OdomTypes, QueueTypes, OdomProcess
<1>6. CASE OdomLoop
  BY <1>1, <1>6 DEF TypeOK, OdomTypes, QueueTypes, OdomLoop
<1>7. CASE OdomFinish
  BY <1>1, <1>7 DEF TypeOK, OdomTypes, QueueTypes, OdomFinish
<1> QED BY <1>2, <1>3, <1>4, <1>5, <1>6, <1>7 DEF OdomStep

LEMMA OdomHandsOver ==
  ASSUME IInv, OdomStep
  PROVE  Handover'
<1> USE DEF UnchangedByOdom, nodeVars, subVars, subQueues, globalVars,
            odomQueues, IInv, Handover, AfterOdom, AfterSub
<1>1. FlagsInOrder' /\ SubBatches' /\ GlobalBatches'
  BY DEF OdomStep, OdomFetchImu, OdomFetchFrames, OdomCheck, OdomProcess,
         OdomLoop, OdomFinish, FlagsInOrder, SubBatches, GlobalBatches
<1>2. OdomEnds'
  BY DEF OdomStep, OdomFetchImu, OdomFetchFrames, OdomCheck, OdomProcess,
         OdomLoop, OdomFinish, OdomEnds
<1>3. Joined'
  BY DEF OdomStep, OdomFetchImu, OdomFetchFrames, OdomCheck, OdomProcess,
         OdomLoop, OdomFinish, Joined
<1> QED BY <1>1, <1>2, <1>3

LEMMA AddTyped ==
  ASSUME SubTypes, NEW id \in Number, AddToSubmap(id)
  PROVE  /\ odom_frames' \in Seq(Number) /\ submap_queue' \in Seq(Seq(Number))
         /\ keyframes' \in 0..(max_num_keyframes - 1)
<1> USE GlimAssumption DEF GlimAssumption, SubTypes
<1>1. Append(odom_frames, id) \in Seq(Number)
  OBVIOUS
<1>2. CASE /\ submap_queue' = Append(submap_queue, Append(odom_frames, id))
           /\ odom_frames' = <<>> /\ keyframes' = 0
  BY <1>1, <1>2
<1>3. ASSUME NEW k \in IF keyframes = 0 THEN {1} ELSE {keyframes, keyframes + 1},
             k < max_num_keyframes, keyframes' = k,
             odom_frames' = Append(odom_frames, id), UNCHANGED submap_queue
      PROVE  /\ odom_frames' \in Seq(Number)
             /\ submap_queue' \in Seq(Seq(Number))
             /\ keyframes' \in 0..(max_num_keyframes - 1)
  BY <1>1, <1>3
<1> QED BY <1>2, <1>3 DEF AddToSubmap

LEMMA SubTyped ==
  ASSUME TypeOK, SubStep
  PROVE  TypeOK'
<1> USE DEF UnchangedBySub, nodeVars, odomVars, odomQueues, globalVars, subQueues
<1>1. NodeTypes' /\ OdomTypes' /\ GlobalTypes' /\ passthrough' \in BOOLEAN
  <2>1. UNCHANGED <<nodeVars, odomVars, globalVars, passthrough>>
    BY DEF SubStep, SubPublish, SubFetch, SubCheck, SubInsert, SubLoop, SubFinish
  <2> QED BY <2>1 DEF TypeOK, NodeTypes, OdomTypes, GlobalTypes, SubTypes
<1>2. CASE SubPublish
  BY <1>1, <1>2 DEF TypeOK, SubTypes, QueueTypes, SubPublish
<1>3. CASE SubFetch
  BY <1>1, <1>3 DEF TypeOK, SubTypes, QueueTypes, SubFetch
<1>4. CASE SubCheck
  BY <1>1, <1>4 DEF TypeOK, SubTypes, QueueTypes, SubCheck
<1>5. CASE SubInsert
  <2> DEFINE id == Head(odom_batch)
             waiting == Append(delayed_input_queue, id)
  <2>1. id \in Number /\ odom_batch' \in Seq(Number)
    BY <1>5 DEF TypeOK, SubTypes, SubInsert
  <2>2. waiting \in Seq(Number) /\ Len(waiting) > 0
    BY <2>1 DEF TypeOK, SubTypes
  <2> HIDE DEF waiting
  <2>3. waiting # <<>>
    BY <2>2
  <2>4. Head(waiting) \in Number /\ Tail(waiting) \in Seq(Number)
    BY <2>2, <2>3, SeqMoves
  <2>5. /\ odom_frames' \in Seq(Number) /\ submap_queue' \in Seq(Seq(Number))
        /\ keyframes' \in 0..(max_num_keyframes - 1)
        /\ delayed_input_queue' \in Seq(Number)
    <3>1. CASE passthrough
      <4>1. AddToSubmap(id) /\ UNCHANGED delayed_input_queue
        BY <1>5, <3>1 DEF SubInsert
      <4> QED BY <2>1, <4>1, AddTyped DEF TypeOK, SubTypes
    <3>2. CASE ~passthrough /\ Len(waiting) < 2
      <4>1. /\ delayed_input_queue' = waiting
            /\ UNCHANGED <<odom_frames, keyframes, submap_queue>>
        BY <1>5, <3>2 DEF SubInsert, waiting
      <4> QED BY <2>2, <4>1 DEF TypeOK, SubTypes
    <3>3. CASE ~passthrough /\ ~(Len(waiting) < 2)
      <4>1. AddToSubmap(Head(waiting)) /\ delayed_input_queue' = Tail(waiting)
        BY <1>5, <3>3 DEF SubInsert, waiting
      <4> QED BY <2>4, <4>1, AddTyped DEF TypeOK
    <3> QED BY <3>1, <3>2, <3>3
  <2>6. QueueTypes' /\ sub' = sub
    BY <1>5 DEF TypeOK, QueueTypes, SubInsert
  <2> QED BY <1>1, <2>1, <2>5, <2>6 DEF TypeOK, SubTypes
<1>6. CASE SubLoop
  BY <1>1, <1>6 DEF TypeOK, SubTypes, QueueTypes, SubLoop
<1>7. CASE SubFinish
  BY <1>1, <1>7 DEF TypeOK, SubTypes, QueueTypes, SubFinish
<1> QED BY <1>2, <1>3, <1>4, <1>5, <1>6, <1>7 DEF SubStep

LEMMA SubHandsOver ==
  ASSUME IInv, SubStep
  PROVE  Handover'
<1> USE DEF UnchangedBySub, nodeVars, odomVars, odomQueues, globalVars,
            subQueues, IInv, Handover, AfterOdom, AfterSub
<1>1. FlagsInOrder' /\ OdomEnds' /\ GlobalBatches'
  BY DEF SubStep, SubPublish, SubFetch, SubCheck, SubInsert, SubLoop,
         SubFinish, FlagsInOrder, OdomEnds, GlobalBatches
<1>2. SubBatches'
  <2>1. CASE SubPublish \/ SubFetch \/ SubCheck \/ SubLoop \/ SubFinish
    BY <2>1 DEF SubPublish, SubFetch, SubCheck, SubLoop, SubFinish, SubBatches
  <2>2. CASE SubInsert
    BY <2>2 DEF SubInsert, SubBatches
  <2> QED BY <2>1, <2>2 DEF SubStep
<1>3. Joined'
  <2>1. sub # "done"
    BY DEF SubStep, SubPublish, SubFetch, SubCheck, SubInsert, SubLoop, SubFinish
  <2>2. UNCHANGED <<node, frames_, submaps_, odom, output_marginalized_frames, global>>
    BY DEF SubStep, SubPublish, SubFetch, SubCheck, SubInsert, SubLoop, SubFinish
  <2> QED BY <2>1, <2>2 DEF Joined
<1> QED BY <1>1, <1>2, <1>3

LEMMA GlobalStepInv ==
  ASSUME IInv, GlobalStep
  PROVE  IInv'
<1> USE DEF UnchangedByGlobal, nodeVars, odomVars, odomQueues, subVars,
            subQueues, GlobalStep
<1>1. UNCHANGED <<nodeVars, odomVars, odomQueues, subVars, subQueues>>
  BY DEF GlobalFetch, GlobalCheck, GlobalInsert
<1>2. NodeTypes' /\ OdomTypes' /\ SubTypes'
  BY <1>1 DEF IInv, TypeOK, NodeTypes, OdomTypes, SubTypes
<1>3. GlobalTypes' /\ QueueTypes'
  <2>1. CASE GlobalFetch
    BY <1>1, <2>1 DEF IInv, TypeOK, GlobalTypes, QueueTypes, GlobalFetch
  <2>2. CASE GlobalCheck
    BY <1>1, <2>2 DEF IInv, TypeOK, GlobalTypes, QueueTypes, GlobalCheck
  <2>3. CASE GlobalInsert
    BY <1>1, <2>3 DEF IInv, TypeOK, GlobalTypes, QueueTypes, GlobalInsert
  <2> QED BY <2>1, <2>2, <2>3
<1>4. Handover'
  BY <1>1 DEF IInv, Handover, FlagsInOrder, OdomEnds, SubBatches, GlobalBatches,
         Joined, AfterOdom, AfterSub, GlobalFetch, GlobalCheck, GlobalInsert
<1> QED BY <1>2, <1>3, <1>4 DEF IInv, TypeOK

LEMMA Stutter == IInv /\ UNCHANGED vars => IInv'
BY DEF vars, nodeVars, odomVars, odomQueues, subVars, subQueues, globalVars,
       IInv, TypeOK, NodeTypes, OdomTypes, SubTypes, GlobalTypes, QueueTypes,
       Handover, FlagsInOrder, OdomEnds, SubBatches, GlobalBatches, Joined

(* The invariant holds in every reachable state.                           *)
THEOREM Invariance == Spec => []IInv
<1>1. IInv /\ [Next]_vars => IInv'
  BY CallbackStep, NodeTyped, NodeHandsOver, OdomTyped, OdomHandsOver, SubTyped,
     SubHandsOver, GlobalStepInv, Stutter DEF Next, IInv
<1> QED BY InitInv, <1>1, PTL DEF Spec

(* The types of the state, and that a submap under construction has fewer  *)
(* keyframes than a complete one.                                          *)
THEOREM TypeCorrect == Spec => []TypeOK
<1>1. IInv => TypeOK BY DEF IInv
<1> QED BY Invariance, <1>1, PTL

(* When wait() returns the three threads have ended and no scan is left on *)
(* its way between two of them.                                            *)
THEOREM NothingLeftBetween == Spec => []MapComplete
<1>1. IInv => MapComplete
  BY DEF IInv, Handover, OdomEnds, SubBatches, GlobalBatches, Joined, AfterOdom,
         AfterSub, MapComplete
<1> QED BY Invariance, <1>1, PTL

----------------------------------------------------------------------------
(* FlattenSeq of the community modules is a recursive function: that it    *)
(* has values, and what they are.                                          *)

(* f holds what the first elements of seqs, up to the n-th, join to.       *)
Joins(f, seqs, n) ==
  f = [i \in 1..n |-> IF i = 1 THEN seqs[i] ELSE f[i - 1] \o seqs[i]]

(* One element more can be joined: the recursion of FlattenSeq has values. *)
LEMMA JoinsStep ==
  ASSUME NEW seqs, NEW n \in Nat, n > 0, NEW f, Joins(f, seqs, n)
  PROVE  \E g : Joins(g, seqs, n + 1)
<1> DEFINE g == [i \in 1..(n + 1) |->
                   IF i = n + 1 THEN f[n] \o seqs[i] ELSE f[i]]
<1>1. \A i \in 1..n : f[i] = IF i = 1 THEN seqs[i] ELSE f[i - 1] \o seqs[i]
  BY DEF Joins
<1>2. \A i \in 1..n : g[i] = f[i]
  OBVIOUS
<1>3. ASSUME NEW i \in 1..(n + 1)
      PROVE  g[i] = IF i = 1 THEN seqs[i] ELSE g[i - 1] \o seqs[i]
  <2>1. CASE i = 1
    <3>1. i \in 1..n
      BY <2>1
    <3> HIDE DEF g
    <3> QED BY <1>1, <1>2, <2>1, <3>1
  <2>2. CASE i = n + 1
    <3>1. i # 1 /\ i - 1 = n /\ n \in 1..n
      BY <2>2
    <3>2. g[i] = f[n] \o seqs[i]
      BY <2>2
    <3>3. g[i - 1] = f[n]
      BY <1>2, <3>1
    <3> QED BY <3>1, <3>2, <3>3, Zenon
  <2>3. CASE i # 1 /\ i # n + 1
    <3>1. i \in 1..n /\ i - 1 \in 1..n
      BY <2>3
    <3> HIDE DEF g
    <3>2. g[i] = f[i] /\ g[i - 1] = f[i - 1]
      BY <1>2, <3>1
    <3>3. f[i] = f[i - 1] \o seqs[i]
      BY <1>1, <2>3, <3>1
    <3> QED BY <2>3, <3>2, <3>3, Zenon
  <2> QED BY <2>1, <2>2, <2>3
<1>4. DOMAIN g = 1..(n + 1) /\ g = [i \in 1..(n + 1) |-> g[i]]
  OBVIOUS
<1> HIDE DEF g
<1>5. g = [i \in 1..(n + 1) |->
             IF i = 1 THEN seqs[i] ELSE g[i - 1] \o seqs[i]]
  BY <1>3, <1>4, Zenon
<1> QED BY <1>5 DEF Joins

LEMMA JoinsExists ==
  ASSUME NEW seqs, NEW n \in Nat, n > 0
  PROVE  \E f : Joins(f, seqs, n)
<1> DEFINE T == {m \in Nat : m > 0 /\ ~ \E f : Joins(f, seqs, m)}
<1> SUFFICES ASSUME T # {} PROVE FALSE
  OBVIOUS
<1>1. PICK m \in T : \A k \in T : m <= k
  BY LeastNatural
<1>2. m \in Nat /\ m > 0 /\ ~ \E f : Joins(f, seqs, m)
  OBVIOUS
<1>3. m # 1
  <2> SUFFICES ASSUME m = 1 PROVE FALSE
    OBVIOUS
  <2> DEFINE f == [i \in 1..1 |-> seqs[i]]
  <2>1. Joins(f, seqs, 1)
    <3>1. \A i \in 1..1 : seqs[i] = IF i = 1 THEN seqs[i] ELSE f[i - 1] \o seqs[i]
      OBVIOUS
    <3> QED BY <3>1 DEF Joins
  <2> QED BY <1>2, <2>1
<1>4. m - 1 \in Nat /\ m - 1 > 0 /\ (m - 1) + 1 = m
  BY <1>2, <1>3
<1>5. \E f : Joins(f, seqs, m - 1)
  <2>1. m - 1 \notin T
    BY <1>1, <1>4
  <2> QED BY <1>4, <2>1
<1>6. \E g : Joins(g, seqs, (m - 1) + 1)
  BY <1>4, <1>5, JoinsStep
<1> QED BY <1>2, <1>4, <1>6

(* FlattenSeq of a nonempty sequence is the last of those joins.           *)
LEMMA FlattenJoins ==
  ASSUME NEW S, NEW seqs \in Seq(S), seqs # <<>>
  PROVE  \E f : Joins(f, seqs, Len(seqs)) /\ FlattenSeq(seqs) = f[Len(seqs)]
<1>1. Len(seqs) \in Nat /\ Len(seqs) > 0
  BY EmptySeq
<1> DEFINE f == CHOOSE f : f = [i \in 1..Len(seqs) |->
                  IF i = 1 THEN seqs[i] ELSE f[i - 1] \o seqs[i]]
<1>2. FlattenSeq(seqs) = f[Len(seqs)]
  <2>1. Len(seqs) # 0
    BY <1>1
  <2> QED BY <2>1, Zenon DEF FlattenSeq
<1>3. \E g : Joins(g, seqs, Len(seqs))
  BY <1>1, JoinsExists
<1>4. f = [i \in 1..Len(seqs) |->
             IF i = 1 THEN seqs[i] ELSE f[i - 1] \o seqs[i]]
  BY <1>3, Zenon DEF Joins
<1> QED BY <1>2, <1>4, Zenon DEF Joins

(* What FlattenSeq makes of nothing, its type, and of one sequence more.   *)
LEMMA FlattenEmpty == FlattenSeq(<<>>) = <<>>
BY DEF FlattenSeq

LEMMA FlattenType ==
  ASSUME NEW S, NEW seqs \in Seq(Seq(S))
  PROVE  FlattenSeq(seqs) \in Seq(S)
<1>1. CASE seqs = <<>>
  BY <1>1, FlattenEmpty, EmptySeq
<1>2. CASE seqs # <<>>
  <2>1. PICK f : /\ Joins(f, seqs, Len(seqs))
                 /\ FlattenSeq(seqs) = f[Len(seqs)]
    BY <1>2, FlattenJoins
  <2>2. Len(seqs) \in Nat /\ Len(seqs) > 0
    BY <1>2, EmptySeq
  <2> DEFINE T == {i \in 1..Len(seqs) : f[i] \notin Seq(S)}
  <2>3. CASE T # {}
    <3>1. PICK m \in T : \A k \in T : m <= k
      <4>1. T \in SUBSET Nat
        BY <2>2
      <4> QED BY <2>3, <4>1, LeastNatural
    <3>2. m \in 1..Len(seqs) /\ f[m] \notin Seq(S) /\ seqs[m] \in Seq(S)
      BY ElementOfSeq
    <3>3. f[m] = IF m = 1 THEN seqs[m] ELSE f[m - 1] \o seqs[m]
      BY <2>1, <3>2 DEF Joins
    <3>4. m # 1 => m - 1 \in 1..Len(seqs) /\ m - 1 \notin T
      BY <2>2, <3>1, <3>2
    <3>5. m # 1 => f[m - 1] \in Seq(S)
      BY <3>4
    <3>6. m # 1 => f[m - 1] \o seqs[m] \in Seq(S)
      BY <3>2, <3>5, ConcatProperties
    <3> QED BY <3>2, <3>3, <3>6, Zenon
  <2>4. CASE T = {}
    BY <2>1, <2>2, <2>4
  <2> QED BY <2>3, <2>4
<1> QED BY <1>1, <1>2

LEMMA FlattenAppend ==
  ASSUME NEW S, NEW s \in Seq(Seq(S)), NEW x \in Seq(S)
  PROVE  FlattenSeq(Append(s, x)) = FlattenSeq(s) \o x
<1> DEFINE t == Append(s, x)
           n == Len(s)
<1>1. /\ t \in Seq(Seq(S)) /\ t # <<>> /\ Len(t) = n + 1 /\ n \in Nat
      /\ t[n + 1] = x /\ \A i \in 1..n : s[i] = t[i]
  <2>1. t \in Seq(Seq(S)) /\ Len(t) = n + 1 /\ n \in Nat
    OBVIOUS
  <2>2. t[n + 1] = x /\ \A i \in 1..n : s[i] = t[i]
    OBVIOUS
  <2>3. Len(t) # 0
    BY <2>1
  <2>4. t # <<>>
    BY <2>3, EmptySeq
  <2> QED BY <2>1, <2>2, <2>4
<1> HIDE DEF t
<1>2. PICK g : Joins(g, t, n + 1) /\ FlattenSeq(t) = g[n + 1]
  BY <1>1, FlattenJoins
<1>3. g[n + 1] = IF n + 1 = 1 THEN t[n + 1] ELSE g[(n + 1) - 1] \o t[n + 1]
  <2>1. n + 1 \in 1..(n + 1)
    BY <1>1
  <2> HIDE DEF n
  <2> QED BY <1>2, <2>1 DEF Joins
<1>4. CASE s = <<>>
  <2>1. n + 1 = 1
    BY <1>4
  <2>2. FlattenSeq(t) = x
    BY <1>1, <1>2, <1>3, <2>1
  <2>3. FlattenSeq(s) \o x = x
    BY <1>4, FlattenEmpty, ConcatEmptySeq
  <2> QED BY <2>2, <2>3 DEF t
<1>5. CASE s # <<>>
  <2>1. n > 0
    BY <1>5, EmptySeq
  <2>2. PICK f : Joins(f, s, n) /\ FlattenSeq(s) = f[n]
    BY <1>5, FlattenJoins
  <2>3. \A i \in 1..n : f[i] = g[i]
    <3> DEFINE T == {i \in 1..n : f[i] # g[i]}
    <3> SUFFICES ASSUME T # {} PROVE FALSE
      OBVIOUS
    <3>1. PICK m \in T : \A k \in T : m <= k
      <4>1. T \in SUBSET Nat
        BY <1>1
      <4> QED BY <4>1, LeastNatural
    <3>2. m \in 1..n /\ m \in 1..(n + 1) /\ f[m] # g[m] /\ s[m] = t[m]
      BY <1>1
    <3>3. f[m] = IF m = 1 THEN s[m] ELSE f[m - 1] \o s[m]
      BY <2>2, <3>2 DEF Joins
    <3>4. g[m] = IF m = 1 THEN t[m] ELSE g[m - 1] \o t[m]
      BY <1>2, <3>2 DEF Joins
    <3>5. m # 1 => m - 1 \in 1..n /\ m - 1 \notin T
      BY <1>1, <3>1, <3>2
    <3>6. m # 1 => f[m - 1] = g[m - 1]
      BY <3>5
    <3> QED BY <3>2, <3>3, <3>4, <3>6, Zenon
  <2>4. n \in 1..n /\ (n + 1) - 1 = n /\ n + 1 # 1
    BY <1>1, <2>1
  <2>5. f[n] = g[n]
    BY <2>3, <2>4
  <2>6. FlattenSeq(t) = f[n] \o x
    BY <1>1, <1>2, <1>3, <2>4, <2>5
  <2> QED BY <2>2, <2>6 DEF t
<1> QED BY <1>4, <1>5

(* The last element of a nonempty sequence, and the rest.                  *)
LEMMA FrontAndLast ==
  ASSUME NEW S, NEW s \in Seq(S), s # <<>>
  PROVE  /\ SubSeq(s, 1, Len(s) - 1) \in Seq(S) /\ s[Len(s)] \in S
         /\ Len(SubSeq(s, 1, Len(s) - 1)) = Len(s) - 1
         /\ s = Append(SubSeq(s, 1, Len(s) - 1), s[Len(s)])
<1> DEFINE n == Len(s)
           r == SubSeq(s, 1, n - 1)
<1>1. n \in Nat /\ n > 0
  BY EmptySeq
<1>2. r \in Seq(S) /\ Len(r) = n - 1 /\ \A i \in 1..(n - 1) : r[i] = s[i]
  <2>1. \A i \in 1..(n - 1) : s[i] \in S
    BY <1>1
  <2>2. n - 1 \in Int /\ 1 \in Int
    BY <1>1
  <2>3. /\ r \in Seq(S)
        /\ Len(r) = IF 1 <= n - 1 THEN (n - 1) - 1 + 1 ELSE 0
        /\ \A i \in 1..((n - 1) - 1 + 1) : r[i] = s[1 + i - 1]
    BY <2>1, <2>2, SubSeqProperties
  <2> HIDE DEF r, n
  <2>4. Len(r) = n - 1
    BY <1>1, <2>3
  <2>5. \A i \in 1..(n - 1) : r[i] = s[i]
    BY <1>1, <2>3
  <2> QED BY <2>3, <2>4, <2>5
<1>3. s[n] \in S
  BY <1>1
<1> HIDE DEF r
<1>4. Append(r, s[n]) \in Seq(S) /\ Len(Append(r, s[n])) = n
  BY <1>1, <1>2, <1>3
<1>5. \A i \in 1..n : Append(r, s[n])[i] = s[i]
  BY <1>1, <1>2, <1>3
<1>6. s = Append(r, s[n])
  BY <1>4, <1>5, SeqEqual
<1> QED BY <1>2, <1>3, <1>6 DEF r

LEMMA AppendConcat ==
  ASSUME NEW S, NEW s \in Seq(S), NEW t \in Seq(S), NEW x \in S
  PROVE  /\ s \o Append(t, x) = Append(s \o t, x)
         /\ Append(t, x) \in Seq(S) /\ s \o t \in Seq(S)
OBVIOUS

LEMMA FlattenConcatStep ==
  ASSUME NEW S, NEW s \in Seq(Seq(S)), NEW r \in Seq(Seq(S)), NEW x \in Seq(S),
         FlattenSeq(s \o r) = FlattenSeq(s) \o FlattenSeq(r)
  PROVE  FlattenSeq(s \o Append(r, x)) = FlattenSeq(s) \o FlattenSeq(Append(r, x))
<1>1. s \o Append(r, x) = Append(s \o r, x) /\ s \o r \in Seq(Seq(S))
  BY AppendConcat
<1>2. FlattenSeq(Append(s \o r, x)) = FlattenSeq(s \o r) \o x
  BY <1>1, FlattenAppend
<1>3. FlattenSeq(Append(r, x)) = FlattenSeq(r) \o x
  BY FlattenAppend
<1>4. FlattenSeq(s) \in Seq(S) /\ FlattenSeq(r) \in Seq(S)
  BY FlattenType
<1>5. (FlattenSeq(s) \o FlattenSeq(r)) \o x = FlattenSeq(s) \o (FlattenSeq(r) \o x)
  BY <1>4, ConcatAssociative
<1> QED BY <1>1, <1>2, <1>3, <1>5

(* FlattenSeq of two sequences joined is their flattened forms joined.     *)
LEMMA FlattenConcat ==
  ASSUME NEW S, NEW s \in Seq(Seq(S)), NEW t \in Seq(Seq(S))
  PROVE  FlattenSeq(s \o t) = FlattenSeq(s) \o FlattenSeq(t)
<1> DEFINE T == {n \in Nat : \E u \in Seq(Seq(S)) :
                   /\ Len(u) = n
                   /\ FlattenSeq(s \o u) # FlattenSeq(s) \o FlattenSeq(u)}
<1> SUFFICES ASSUME T # {} PROVE FALSE
  <2>1. Len(t) \in Nat
    OBVIOUS
  <2> QED BY <2>1
<1>1. PICK n \in T : \A k \in T : n <= k
  BY LeastNatural
<1>2. PICK u \in Seq(Seq(S)) :
        /\ Len(u) = n
        /\ FlattenSeq(s \o u) # FlattenSeq(s) \o FlattenSeq(u)
  OBVIOUS
<1>3. FlattenSeq(s) \in Seq(S)
  BY FlattenType
<1>4. u # <<>>
  <2> SUFFICES ASSUME u = <<>> PROVE FALSE
    OBVIOUS
  <2>1. s \o u = s
    BY ConcatEmptySeq
  <2>2. FlattenSeq(s) \o FlattenSeq(u) = FlattenSeq(s)
    BY <1>3, FlattenEmpty, ConcatEmptySeq
  <2> QED BY <1>2, <2>1, <2>2, Zenon
<1> DEFINE r == SubSeq(u, 1, Len(u) - 1)
           x == u[Len(u)]
<1>5. r \in Seq(Seq(S)) /\ x \in Seq(S) /\ Len(r) = Len(u) - 1 /\ u = Append(r, x)
  BY <1>4, FrontAndLast
<1> HIDE DEF r, x
<1>6. FlattenSeq(s \o r) = FlattenSeq(s) \o FlattenSeq(r)
  <2>1. Len(r) \in Nat /\ Len(r) < n
    BY <1>2, <1>5
  <2>2. Len(r) \notin T
    BY <1>1, <2>1
  <2> QED BY <1>5, <2>1, <2>2
<1>7. FlattenSeq(s \o u) = FlattenSeq(s) \o FlattenSeq(u)
  BY <1>5, <1>6, FlattenConcatStep
<1> QED BY <1>2, <1>7

(* The facts about FlattenSeq again, in terms of joining.                  *)
LEMMA FlattenJoined ==
  /\ FlattenSeq(<<>>) = <<>>
  /\ \A S : \A s \in Seq(Seq(S)) : FlattenSeq(s) \in Seq(S)
  /\ \A S : \A s, t \in Seq(Seq(S)) :
       /\ s \o t \in Seq(Seq(S))
       /\ FlattenSeq(s \o t) = FlattenSeq(s) ** FlattenSeq(t)
<1>1. FlattenSeq(<<>>) = <<>>
  BY FlattenEmpty
<1>2. \A S : \A s \in Seq(Seq(S)) : FlattenSeq(s) \in Seq(S)
  BY FlattenType
<1>3. ASSUME NEW S, NEW s \in Seq(Seq(S)), NEW t \in Seq(Seq(S))
      PROVE  /\ s \o t \in Seq(Seq(S))
             /\ FlattenSeq(s \o t) = FlattenSeq(s) ** FlattenSeq(t)
  <2>1. s \o t \in Seq(Seq(S))
    BY ConcatProperties
  <2>2. FlattenSeq(s \o t) = FlattenSeq(s) \o FlattenSeq(t)
    BY FlattenConcat
  <2> QED BY <2>1, <2>2, Zenon DEF **
<1> QED BY <1>1, <1>2, <1>3, Zenon

LEMMA FlattenOneMore ==
  ASSUME NEW S, NEW s \in Seq(Seq(S)), NEW x \in Seq(S)
  PROVE  FlattenSeq(Append(s, x)) = FlattenSeq(s) ** x
<1>1. FlattenSeq(Append(s, x)) = FlattenSeq(s) \o x
  BY FlattenAppend
<1> QED BY <1>1, Zenon DEF **

LEMMA FlattenHead ==
  ASSUME NEW S, NEW s \in Seq(Seq(S)), s # <<>>
  PROVE  /\ FlattenSeq(s) = Head(s) ** FlattenSeq(Tail(s))
         /\ Head(s) \in Seq(S) /\ Tail(s) \in Seq(Seq(S))
<1> DEFINE h == Head(s)
           r == Tail(s)
<1>1. h \in Seq(S) /\ r \in Seq(Seq(S)) /\ <<h>> ** r = s
  BY HeadJoined
<1> HIDE DEF h, r
<1>2. <<>> \in Seq(Seq(S)) /\ <<>> \in Seq(S)
  BY EmptySeq
<1>3. <<>> ** <<h>> = Append(<<>>, h) /\ <<h>> \in Seq(Seq(S))
  BY <1>1, <1>2, OneJoined
<1>4. <<h>> = Append(<<>>, h)
  BY <1>3, NothingJoined
<1>5. FlattenSeq(<<h>>) = FlattenSeq(<<>>) ** h
  BY <1>1, <1>2, <1>4, FlattenOneMore
<1>6. FlattenSeq(<<h>>) = h
  BY <1>1, <1>5, FlattenJoined, NothingJoined
<1>7. <<h>> \o r = s
  BY <1>1, Zenon DEF **
<1>8. FlattenSeq(<<h>> \o r) = FlattenSeq(<<h>>) ** FlattenSeq(r)
  BY <1>1, <1>3, FlattenJoined
<1>9. FlattenSeq(s) = h ** FlattenSeq(r)
  BY <1>6, <1>7, <1>8, Zenon
<1> QED BY <1>1, <1>9 DEF h, r

----------------------------------------------------------------------------
(* The numbers of the scans of a queue.                                    *)
LEMMA IdsType ==
  ASSUME NEW q \in Seq(Scan)
  PROVE  Ids(q) \in Seq(Number) /\ Len(Ids(q)) = Len(q)
<1>1. Len(q) \in Nat /\ \A k \in 1..Len(q) : q[k] \in Scan
  BY ElementOfSeq
<1>2. \A k \in 1..Len(q) : q[k].id \in Number
  BY <1>1 DEF Scan
<1> QED BY <1>1, <1>2 DEF Ids

LEMMA IdsConcat ==
  ASSUME NEW q \in Seq(Scan), NEW r \in Seq(Scan)
  PROVE  Ids(q \o r) = Ids(q) \o Ids(r)
<1>1. q \o r \in Seq(Scan) /\ Len(q \o r) = Len(q) + Len(r)
  BY ConcatProperties
<1>2. /\ Ids(q) \in Seq(Number) /\ Len(Ids(q)) = Len(q)
      /\ Ids(r) \in Seq(Number) /\ Len(Ids(r)) = Len(r)
      /\ Ids(q \o r) \in Seq(Number) /\ Len(Ids(q \o r)) = Len(q) + Len(r)
  BY <1>1, IdsType
<1>3. Len(q) \in Nat /\ Len(r) \in Nat
  OBVIOUS
<1>4. ASSUME NEW i \in 1..(Len(q) + Len(r))
      PROVE  Ids(q \o r)[i] = (Ids(q) \o Ids(r))[i]
  <2>1. Ids(q \o r)[i] = (q \o r)[i].id
    BY <1>1 DEF Ids
  <2>2. (q \o r)[i] = IF i <= Len(q) THEN q[i] ELSE r[i - Len(q)]
    BY ConcatProperties
  <2>3. (Ids(q) \o Ids(r))[i] = IF i <= Len(q) THEN Ids(q)[i] ELSE Ids(r)[i - Len(q)]
    BY <1>2, <1>3, ConcatProperties
  <2>4. CASE i <= Len(q)
    <3>1. Ids(q)[i] = q[i].id
      BY <1>3, <2>4 DEF Ids
    <3> QED BY <2>1, <2>2, <2>3, <2>4, <3>1
  <2>5. CASE ~(i <= Len(q))
    <3>1. i - Len(q) \in 1..Len(r)
      BY <1>3, <2>5
    <3>2. Ids(r)[i - Len(q)] = r[i - Len(q)].id
      BY <3>1 DEF Ids
    <3> QED BY <2>1, <2>2, <2>3, <2>5, <3>2
  <2> QED BY <2>4, <2>5
<1>5. Ids(q) \o Ids(r) \in Seq(Number) /\ Len(Ids(q) \o Ids(r)) = Len(q) + Len(r)
  BY <1>2, ConcatProperties
<1> QED BY <1>2, <1>4, <1>5, SeqEqual

LEMMA IdsHead ==
  ASSUME NEW q \in Seq(Scan), q # <<>>
  PROVE  /\ Ids(q) # <<>> /\ Head(Ids(q)) = Head(q).id
         /\ Tail(Ids(q)) = Ids(Tail(q))
<1>1. /\ Tail(q) \in Seq(Scan) /\ Len(Tail(q)) = Len(q) - 1
      /\ \A i \in 1..Len(Tail(q)) : Tail(q)[i] = q[i + 1]
  BY HeadTailProperties
<1>2. Len(q) \in Nat /\ Len(q) > 0
  BY EmptySeq
<1>3. Ids(q) \in Seq(Number) /\ Len(Ids(q)) = Len(q)
  BY IdsType
<1>4. Ids(q) # <<>>
  BY <1>2, <1>3, EmptySeq
<1>5. Head(Ids(q)) = Head(q).id
  <2>1. Ids(q)[1] = q[1].id
    BY <1>2 DEF Ids
  <2> QED BY <2>1 DEF Head
<1>6. /\ Tail(Ids(q)) \in Seq(Number) /\ Len(Tail(Ids(q))) = Len(q) - 1
      /\ \A i \in 1..Len(Tail(Ids(q))) : Tail(Ids(q))[i] = Ids(q)[i + 1]
  BY <1>3, <1>4, HeadTailProperties
<1>7. Ids(Tail(q)) \in Seq(Number) /\ Len(Ids(Tail(q))) = Len(q) - 1
  BY <1>1, IdsType
<1>8. \A i \in 1..(Len(q) - 1) : Tail(Ids(q))[i] = Ids(Tail(q))[i]
  <2> TAKE i \in 1..(Len(q) - 1)
  <2>1. Tail(Ids(q))[i] = Ids(q)[i + 1] /\ Tail(q)[i] = q[i + 1]
    BY <1>1, <1>6
  <2>2. Ids(q)[i + 1] = q[i + 1].id
    BY <1>2 DEF Ids
  <2>3. Ids(Tail(q))[i] = Tail(q)[i].id
    BY <1>1 DEF Ids
  <2> QED BY <2>1, <2>2, <2>3
<1>9. Tail(Ids(q)) = Ids(Tail(q))
  BY <1>6, <1>7, <1>8, SeqEqual
<1> QED BY <1>4, <1>5, <1>9

----------------------------------------------------------------------------
(* What each part of the pipeline holds, and what it makes Stream of.      *)

----------------------------------------------------------------------------
GlobalHeld == FlattenSeq(submaps) ** FlattenSeq(submap_batch)
              ** FlattenSeq(submap_input_queue)

Open == IF sub = "done" THEN <<>> ELSE odom_frames

SubBuilt == FlattenSeq(output_submap_queue) ** FlattenSeq(submap_queue) ** Open

SubHeld == SubBuilt ** delayed_input_queue ** odom_batch ** sub_input_queue

Window == IF odom = "done" THEN <<>> ELSE frames

OdomHeld == output_marginalized_frames ** Window

(* The scans behind the odometry estimation, and those before it.          *)
Delivered == GlobalHeld ** FlattenSeq(submaps_) ** SubHeld ** frames_ ** OdomHeld

Waiting == Ids(raw_frames) ** Ids(input_frame_queue)

LEMMA HeldTypes ==
  ASSUME TypeOK
  PROVE  /\ FlattenSeq(submaps) \in Seq(Number)
         /\ FlattenSeq(submap_batch) \in Seq(Number)
         /\ FlattenSeq(submap_input_queue) \in Seq(Number)
         /\ FlattenSeq(submaps_) \in Seq(Number)
         /\ FlattenSeq(output_submap_queue) \in Seq(Number)
         /\ FlattenSeq(submap_queue) \in Seq(Number)
         /\ Open \in Seq(Number) /\ Window \in Seq(Number)
         /\ odom_frames \in Seq(Number) /\ frames \in Seq(Number)
         /\ delayed_input_queue \in Seq(Number) /\ odom_batch \in Seq(Number)
         /\ sub_input_queue \in Seq(Number) /\ frames_ \in Seq(Number)
         /\ output_marginalized_frames \in Seq(Number)
         /\ Ids(raw_frames) \in Seq(Number) /\ Ids(input_frame_queue) \in Seq(Number)
<1>1. /\ submaps \in Seq(Seq(Number)) /\ submap_batch \in Seq(Seq(Number))
      /\ submap_input_queue \in Seq(Seq(Number)) /\ submaps_ \in Seq(Seq(Number))
      /\ output_submap_queue \in Seq(Seq(Number)) /\ submap_queue \in Seq(Seq(Number))
  BY DEF TypeOK, NodeTypes, SubTypes, GlobalTypes, QueueTypes
<1>2. /\ odom_frames \in Seq(Number) /\ frames \in Seq(Number)
      /\ delayed_input_queue \in Seq(Number) /\ odom_batch \in Seq(Number)
      /\ sub_input_queue \in Seq(Number) /\ frames_ \in Seq(Number)
      /\ output_marginalized_frames \in Seq(Number)
  BY DEF TypeOK, NodeTypes, OdomTypes, SubTypes, QueueTypes
<1>3. raw_frames \in Seq(Scan) /\ input_frame_queue \in Seq(Scan)
  BY DEF TypeOK, OdomTypes, QueueTypes
<1>4. /\ FlattenSeq(submaps) \in Seq(Number)
      /\ FlattenSeq(submap_batch) \in Seq(Number)
      /\ FlattenSeq(submap_input_queue) \in Seq(Number)
  BY <1>1, FlattenJoined
<1>5. /\ FlattenSeq(submaps_) \in Seq(Number)
      /\ FlattenSeq(output_submap_queue) \in Seq(Number)
      /\ FlattenSeq(submap_queue) \in Seq(Number)
  BY <1>1, FlattenJoined
<1>6. Open \in Seq(Number) /\ Window \in Seq(Number)
  BY <1>2, EmptySeq DEF Open, Window
<1>7. Ids(raw_frames) \in Seq(Number) /\ Ids(input_frame_queue) \in Seq(Number)
  BY <1>3, IdsType
<1> QED BY <1>2, <1>4, <1>5, <1>6, <1>7

LEMMA PartTypes ==
  ASSUME TypeOK
  PROVE  /\ GlobalHeld \in Seq(Number) /\ SubBuilt \in Seq(Number)
         /\ SubHeld \in Seq(Number) /\ OdomHeld \in Seq(Number)
         /\ Delivered \in Seq(Number) /\ Waiting \in Seq(Number)
<1>1. GlobalHeld \in Seq(Number)
  BY HeldTypes, Joined2 DEF GlobalHeld
<1>2. SubBuilt \in Seq(Number)
  BY HeldTypes, Joined2 DEF SubBuilt
<1>3. SubHeld \in Seq(Number)
  BY <1>2, HeldTypes, Joined2 DEF SubHeld
<1>4. OdomHeld \in Seq(Number) /\ Waiting \in Seq(Number)
  BY HeldTypes, Joined2 DEF OdomHeld, Waiting
<1>5. Delivered \in Seq(Number)
  BY <1>1, <1>3, <1>4, HeldTypes, Joined2 DEF Delivered
<1> QED BY <1>1, <1>2, <1>3, <1>4, <1>5

LEMMA StreamParts ==
  ASSUME TypeOK
  PROVE  Stream = Delivered ** Waiting
<1> DEFINE m == FlattenSeq(submaps)
           b == FlattenSeq(submap_batch)
           i == FlattenSeq(submap_input_queue)
           n == FlattenSeq(submaps_)
           o == FlattenSeq(output_submap_queue)
           q == FlattenSeq(submap_queue)
<1>1. FlattenSeq(submaps \o submap_batch \o submap_input_queue \o submaps_
                 \o output_submap_queue \o submap_queue)
        = m ** b ** i ** n ** o ** q
  <2>1. /\ submaps \in Seq(Seq(Number)) /\ submap_batch \in Seq(Seq(Number))
        /\ submap_input_queue \in Seq(Seq(Number)) /\ submaps_ \in Seq(Seq(Number))
        /\ output_submap_queue \in Seq(Seq(Number)) /\ submap_queue \in Seq(Seq(Number))
    BY DEF TypeOK, NodeTypes, SubTypes, GlobalTypes, QueueTypes
  <2> DEFINE s1 == submaps \o submap_batch
             s2 == s1 \o submap_input_queue
             s3 == s2 \o submaps_
             s4 == s3 \o output_submap_queue
  <2>2. s1 \in Seq(Seq(Number)) /\ FlattenSeq(s1) = m ** b
    BY <2>1, FlattenJoined
  <2> HIDE DEF s1
  <2>3. s2 \in Seq(Seq(Number)) /\ FlattenSeq(s2) = m ** b ** i
    BY <2>1, <2>2, FlattenJoined
  <2> HIDE DEF s2
  <2>4. s3 \in Seq(Seq(Number)) /\ FlattenSeq(s3) = m ** b ** i ** n
    BY <2>1, <2>3, FlattenJoined
  <2> HIDE DEF s3
  <2>5. s4 \in Seq(Seq(Number)) /\ FlattenSeq(s4) = m ** b ** i ** n ** o
    BY <2>1, <2>4, FlattenJoined
  <2> HIDE DEF s4
  <2>6. FlattenSeq(s4 \o submap_queue) = m ** b ** i ** n ** o ** q
    BY <2>1, <2>5, FlattenJoined
  <2> QED BY <2>6, Zenon DEF s1, s2, s3, s4
<1>2. Stream = m ** b ** i ** n ** o ** q ** Open ** delayed_input_queue
               ** odom_batch ** sub_input_queue ** frames_
               ** output_marginalized_frames ** Window ** Ids(raw_frames)
               ** Ids(input_frame_queue)
  BY <1>1, Zenon DEF Stream, Open, Window, **
<1>3. /\ m \in Seq(Number) /\ b \in Seq(Number) /\ i \in Seq(Number)
      /\ n \in Seq(Number) /\ o \in Seq(Number) /\ q \in Seq(Number)
  BY HeldTypes
<1>4. /\ GlobalHeld = m ** b ** i
      /\ SubBuilt = o ** q ** Open
  BY DEF GlobalHeld, SubBuilt
<1> HIDE DEF m, b, i, n, o, q
<1> DEFINE x == m ** b ** i ** n
           y == x ** o ** q ** Open
           w == y ** delayed_input_queue ** odom_batch ** sub_input_queue
           z == w ** frames_
<1>5. x \in Seq(Number)
  BY <1>3, Joined2
<1> HIDE DEF x
<1>6. y = x ** SubBuilt
  <2>1. Open \in Seq(Number)
    BY HeldTypes
  <2> QED BY <1>3, <1>4, <1>5, <2>1, BeforeThree
<1>7. y \in Seq(Number) /\ SubBuilt \in Seq(Number)
  BY <1>5, <1>6, PartTypes, Joined2
<1> HIDE DEF y
<1>8. w = x ** SubHeld
  <2>1. /\ delayed_input_queue \in Seq(Number) /\ odom_batch \in Seq(Number)
        /\ sub_input_queue \in Seq(Number)
    BY HeldTypes
  <2>2. x ** (SubBuilt ** delayed_input_queue ** odom_batch ** sub_input_queue)
          = x ** SubBuilt ** delayed_input_queue ** odom_batch ** sub_input_queue
    BY <1>5, <1>7, <2>1, BeforeFour
  <2> QED BY <1>6, <2>2 DEF SubHeld
<1>9. w \in Seq(Number) /\ z \in Seq(Number)
  BY <1>5, <1>8, PartTypes, HeldTypes, Joined2
<1> HIDE DEF w
<1>10. z = GlobalHeld ** n ** SubHeld ** frames_
  BY <1>4, <1>8 DEF x
<1> HIDE DEF z
<1>11. Delivered = z ** output_marginalized_frames ** Window
  <2>1. Delivered = z ** OdomHeld
    BY <1>10 DEF Delivered, n
  <2>2. z ** OdomHeld = z ** output_marginalized_frames ** Window
    BY <1>9, HeldTypes, BeforeTwo DEF OdomHeld
  <2> QED BY <2>1, <2>2
<1>12. Delivered ** Waiting = Delivered ** Ids(raw_frames) ** Ids(input_frame_queue)
  <2>1. /\ Delivered \in Seq(Number) /\ Ids(raw_frames) \in Seq(Number)
        /\ Ids(input_frame_queue) \in Seq(Number)
    BY PartTypes, HeldTypes
  <2> QED BY <2>1, BeforeTwo DEF Waiting
<1>13. Stream = z ** output_marginalized_frames ** Window ** Ids(raw_frames)
                  ** Ids(input_frame_queue)
  BY <1>2, Zenon DEF z, w, y, x
<1> QED BY <1>11, <1>12, <1>13

----------------------------------------------------------------------------
(* The node's own batches are empty where it does not pass them on, and    *)
(* the passthrough module keeps no frame back.                             *)
PassedOn ==
  /\ node \notin {"timerFrames", "lastFrames"} => frames_ = <<>>
  /\ node \notin {"timerSubmaps", "lastSubmaps"} => submaps_ = <<>>
  /\ passthrough => delayed_input_queue = <<>>

LEMMA PassedOnStep ==
  ASSUME PassedOn, [Next]_vars
  PROVE  PassedOn'
<1> USE DEF PassedOn
<1>1. CASE ImuCallback \/ PointsCallback
  BY <1>1 DEF ImuCallback, PointsCallback, UnchangedThreads, subVars
<1>2. CASE Timer \/ Wait \/ NodeStep
  <2> USE DEF UnchangedThreads, subVars, UnchangedByJoin, Goto
  <2>1. passthrough' = passthrough /\ delayed_input_queue' = delayed_input_queue
    BY <1>2 DEF Timer, Wait, NodeStep, InsertFrame, InsertSubmap, EndTimer,
       JoinSub, JoinGlobal, Save, TakeFrames, TakeSubmaps
  <2>2. CASE InsertFrame \/ InsertSubmap
    BY <2>1, <2>2 DEF InsertFrame, InsertSubmap
  <2>3. CASE EndTimer \/ Wait \/ JoinSub \/ JoinGlobal \/ Save
    BY <2>1, <2>3 DEF EndTimer, Wait, JoinSub, JoinGlobal, Save
  <2>4. CASE Timer \/ TakeFrames("joinOdom", "lastFrames")
    BY <2>1, <2>4 DEF Timer, TakeFrames
  <2>5. CASE \/ TakeSubmaps("timerFrames", "timerSubmaps")
             \/ TakeSubmaps("joinSub", "lastSubmaps")
    BY <2>1, <2>5 DEF TakeSubmaps
  <2> QED BY <1>2, <2>2, <2>3, <2>4, <2>5 DEF NodeStep
<1>3. CASE OdomStep
  BY <1>3 DEF OdomStep, OdomFetchImu, OdomFetchFrames, OdomCheck, OdomProcess,
     OdomLoop, OdomFinish, UnchangedByOdom, nodeVars, subVars
<1>4. CASE SubStep
  <2>1. UNCHANGED <<node, frames_, submaps_, passthrough>>
    BY <1>4 DEF SubStep, SubPublish, SubFetch, SubCheck, SubInsert, SubLoop,
       SubFinish, UnchangedBySub, nodeVars
  <2>2. passthrough => delayed_input_queue' = delayed_input_queue
    BY <1>4 DEF SubStep, SubPublish, SubFetch, SubCheck, SubInsert, SubLoop, SubFinish
  <2> QED BY <2>1, <2>2
<1>5. CASE GlobalStep
  BY <1>5 DEF GlobalStep, GlobalFetch, GlobalCheck, GlobalInsert,
     UnchangedByGlobal, nodeVars, subVars
<1>6. CASE UNCHANGED vars
  BY <1>6 DEF vars, nodeVars, subVars
<1> QED BY <1>1, <1>2, <1>3, <1>4, <1>5, <1>6 DEF Next

----------------------------------------------------------------------------
(* What each step does to the scans held.                                  *)

----------------------------------------------------------------------------
SubUnchanged == UNCHANGED <<sub, odom_batch, delayed_input_queue, odom_frames,
                            submap_queue, output_submap_queue, sub_input_queue>>

OdomUnchanged == UNCHANGED <<odom, frames, output_marginalized_frames>>

GlobalUnchanged == UNCHANGED <<submaps, submap_batch, submap_input_queue>>

InputUnchanged == UNCHANGED <<raw_frames, input_frame_queue, scans, initialised>>

LEMMA HeldUnchanged ==
  /\ SubUnchanged => SubBuilt' = SubBuilt /\ SubHeld' = SubHeld
  /\ OdomUnchanged => OdomHeld' = OdomHeld
  /\ GlobalUnchanged => GlobalHeld' = GlobalHeld
  /\ InputUnchanged => Waiting' = Waiting
<1>1. SubUnchanged => SubBuilt' = SubBuilt /\ SubHeld' = SubHeld
  BY DEF SubUnchanged, SubHeld, SubBuilt, Open
<1>2. OdomUnchanged => OdomHeld' = OdomHeld
  BY DEF OdomUnchanged, OdomHeld, Window
<1>3. GlobalUnchanged => GlobalHeld' = GlobalHeld
  BY DEF GlobalUnchanged, GlobalHeld
<1>4. InputUnchanged => Waiting' = Waiting
  <2> SUFFICES ASSUME InputUnchanged PROVE Waiting' = Waiting
    OBVIOUS
  <2>1. Ids(raw_frames)' = Ids(raw_frames) /\ Ids(input_frame_queue)' = Ids(input_frame_queue)
    BY DEF InputUnchanged, Ids
  <2> QED BY <2>1 DEF Waiting
<1> QED BY <1>1, <1>2, <1>3, <1>4

LEMMA GlobalKeeps ==
  ASSUME IInv, GlobalStep
  PROVE  Delivered' = Delivered /\ InputUnchanged
<1>1. /\ SubUnchanged /\ OdomUnchanged /\ InputUnchanged
      /\ UNCHANGED <<submaps_, frames_>>
  BY DEF GlobalStep, GlobalFetch, GlobalCheck, GlobalInsert, UnchangedByGlobal,
     nodeVars, odomVars, odomQueues, subVars, subQueues, SubUnchanged,
     OdomUnchanged, InputUnchanged
<1> DEFINE m == FlattenSeq(submaps)
           b == FlattenSeq(submap_batch)
           i == FlattenSeq(submap_input_queue)
<1>2. m \in Seq(Number) /\ b \in Seq(Number) /\ i \in Seq(Number)
  BY HeldTypes DEF IInv
<1>3. GlobalHeld = m ** b ** i
  BY DEF GlobalHeld
<1>4. GlobalHeld' = GlobalHeld
  <2>1. CASE GlobalFetch
    <3>1. /\ submaps' = submaps /\ submap_batch' = submap_input_queue
          /\ submap_input_queue' = <<>> /\ submap_batch = <<>>
      BY <2>1 DEF GlobalFetch, IInv, Handover, GlobalBatches
    <3>2. GlobalHeld' = m ** i ** FlattenSeq(<<>>)
      BY <3>1 DEF GlobalHeld
    <3>3. b = <<>> /\ FlattenSeq(<<>>) = <<>>
      BY <3>1, FlattenJoined
    <3> HIDE DEF m, b, i
    <3>4. m ** i ** <<>> = m ** i /\ m ** <<>> = m
      BY <1>2, Joined2, NothingJoined
    <3> QED BY <1>3, <3>2, <3>3, <3>4
  <2>2. CASE GlobalCheck
    BY <2>2, HeldUnchanged DEF GlobalCheck, GlobalUnchanged
  <2>3. CASE GlobalInsert
    <3>1. /\ submaps' = submaps \o submap_batch /\ submap_batch' = <<>>
          /\ submap_input_queue' = submap_input_queue
      BY <2>3 DEF GlobalInsert
    <3>2. GlobalHeld' = FlattenSeq(submaps \o submap_batch) ** FlattenSeq(<<>>) ** i
      BY <3>1 DEF GlobalHeld
    <3>3. FlattenSeq(submaps \o submap_batch) = m ** b /\ FlattenSeq(<<>>) = <<>>
      BY FlattenJoined DEF IInv, TypeOK, GlobalTypes
    <3> HIDE DEF m, b, i
    <3>4. (m ** b) ** <<>> = m ** b
      BY <1>2, Joined2, NothingJoined
    <3> QED BY <1>3, <3>2, <3>3, <3>4
  <2> QED BY <2>1, <2>2, <2>3 DEF GlobalStep
<1>5. SubHeld' = SubHeld /\ OdomHeld' = OdomHeld
  BY <1>1, HeldUnchanged
<1> QED BY <1>1, <1>4, <1>5 DEF Delivered

(* A frame joins the submap under construction or completes it.            *)
LEMMA AddBuilds ==
  ASSUME TypeOK, NEW id \in Number, AddToSubmap(id), sub # "done", sub' = sub,
         output_submap_queue' = output_submap_queue
  PROVE  SubBuilt' = Append(SubBuilt, id)
<1> DEFINE o == FlattenSeq(output_submap_queue)
           q == FlattenSeq(submap_queue)
<1>1. o \in Seq(Number) /\ q \in Seq(Number) /\ odom_frames \in Seq(Number)
  BY HeldTypes
<1>2. SubBuilt = o ** q ** odom_frames /\ o' = o
  BY DEF SubBuilt, Open
<1>3. o ** q \in Seq(Number)
  BY <1>1, Joined2
<1>4. (o ** q) ** Append(odom_frames, id) = Append((o ** q) ** odom_frames, id)
  <2> HIDE DEF o, q
  <2> QED BY <1>1, <1>3, AppendAtEnd
<1>5. CASE submap_queue' = Append(submap_queue, Append(odom_frames, id))
           /\ odom_frames' = <<>>
  <2>1. Append(odom_frames, id) \in Seq(Number)
    BY <1>1, OneJoined
  <2>2. q' = q ** Append(odom_frames, id)
    BY <1>5, <2>1, FlattenOneMore DEF TypeOK, SubTypes
  <2>3. SubBuilt' = o ** q' ** <<>>
    BY <1>2, <1>5 DEF SubBuilt, Open
  <2> DEFINE a == Append(odom_frames, id)
  <2> HIDE DEF o, q, a
  <2>4. a \in Seq(Number) /\ q' = q ** a
    BY <2>1, <2>2 DEF a
  <2>5. (o ** (q ** a)) ** <<>> = o ** (q ** a)
    BY <1>1, <2>4, Joined2, NothingJoined
  <2>6. o ** (q ** a) = (o ** q) ** a
    BY <1>1, <2>4, BeforeTwo
  <2>7. SubBuilt' = (o ** q) ** a
    BY <2>3, <2>4, <2>5, <2>6
  <2> QED BY <1>2, <1>4, <2>7, Zenon DEF a
<1>6. CASE odom_frames' = Append(odom_frames, id) /\ submap_queue' = submap_queue
  <2>1. SubBuilt' = o ** q ** Append(odom_frames, id)
    BY <1>2, <1>6 DEF SubBuilt, Open
  <2> QED BY <1>2, <1>4, <2>1, Zenon
<1> QED BY <1>5, <1>6 DEF AddToSubmap

LEMMA InsertKeeps ==
  ASSUME IInv, PassedOn, SubInsert
  PROVE  SubHeld' = SubHeld
<1> USE DEF SubHeld
<1> DEFINE d == delayed_input_queue
           b == odom_batch
           h == Head(odom_batch)
           r == Tail(odom_batch)
<1>1. /\ sub = "insert" /\ sub' = sub /\ b # <<>> /\ b' = r
      /\ output_submap_queue' = output_submap_queue
      /\ sub_input_queue' = sub_input_queue
  BY DEF SubInsert, subQueues
<1>2. SubBuilt \in Seq(Number) /\ d \in Seq(Number) /\ b \in Seq(Number)
  BY HeldTypes, PartTypes DEF IInv
<1>3. h \in Number /\ r \in Seq(Number)
  BY <1>1, <1>2, HeadJoined
<1>4. \A s \in Seq(Number) : Append(s, h) ** r = s ** b /\ Append(s, h) \in Seq(Number)
  BY <1>1, <1>2, HeadMoves, OneJoined
<1>5. SubBuilt' ** d' ** b' = SubBuilt ** d ** b
  <2>1. CASE passthrough
    <3>1. AddToSubmap(h) /\ d' = d /\ d = <<>>
      BY <2>1 DEF SubInsert, PassedOn
    <3>2. SubBuilt' = Append(SubBuilt, h)
      BY <1>1, <1>3, <3>1, AddBuilds DEF IInv
    <3> HIDE DEF d, b, h, r
    <3>3. SubBuilt ** <<>> = SubBuilt /\ Append(SubBuilt, h) ** <<>> = Append(SubBuilt, h)
      BY <1>2, <1>4, NothingJoined
    <3>4. Append(SubBuilt, h) ** r = SubBuilt ** b
      BY <1>2, <1>4
    <3> QED BY <1>1, <3>1, <3>2, <3>3, <3>4
  <2> DEFINE w == Append(d, h)
  <2>2. w \in Seq(Number) /\ SubBuilt ** w = Append(SubBuilt ** d, h)
        /\ SubBuilt ** d \in Seq(Number) /\ w # <<>>
    <3>1. w \in Seq(Number) /\ Len(w) # 0
      BY <1>2, <1>3
    <3>2. w # <<>>
      BY <3>1, EmptySeq
    <3> HIDE DEF d, h
    <3>3. SubBuilt ** d \in Seq(Number)
      BY <1>2, Joined2
    <3>4. SubBuilt ** Append(d, h) = Append(SubBuilt ** d, h)
      BY <1>2, <1>3, AppendAtEnd
    <3> QED BY <3>1, <3>2, <3>3, <3>4
  <2>3. Append(SubBuilt ** d, h) ** r = SubBuilt ** d ** b
    <3> HIDE DEF d, h, r, b
    <3> QED BY <1>4, <2>2
  <2>4. CASE ~passthrough /\ Len(w) < 2
    <3>1. d' = w /\ UNCHANGED <<odom_frames, submap_queue>>
      BY <2>4 DEF SubInsert
    <3>2. SubBuilt' = SubBuilt
      BY <1>1, <3>1 DEF SubBuilt, Open
    <3> HIDE DEF d, b, h, r, w
    <3> QED BY <1>1, <2>2, <2>3, <3>1, <3>2
  <2>5. CASE ~passthrough /\ ~(Len(w) < 2)
    <3>1. AddToSubmap(Head(w)) /\ d' = Tail(w)
      BY <2>5 DEF SubInsert
    <3> HIDE DEF w
    <3>2. Head(w) \in Number /\ Append(SubBuilt, Head(w)) ** Tail(w) = SubBuilt ** w
      BY <1>2, <2>2, HeadJoined, HeadMoves
    <3>3. SubBuilt' = Append(SubBuilt, Head(w))
      BY <1>1, <3>1, <3>2, AddBuilds DEF IInv
    <3> HIDE DEF d, b, h, r
    <3> QED BY <1>1, <2>2, <2>3, <3>1, <3>2, <3>3, Zenon
  <2> QED BY <2>1, <2>4, <2>5
<1> QED BY <1>1, <1>5

LEMMA SubKeeps ==
  ASSUME IInv, PassedOn, SubStep
  PROVE  Delivered' = Delivered /\ InputUnchanged
<1>1. /\ GlobalUnchanged /\ OdomUnchanged /\ InputUnchanged
      /\ UNCHANGED <<submaps_, frames_>>
  BY DEF SubStep, SubPublish, SubFetch, SubCheck, SubInsert, SubLoop, SubFinish,
     UnchangedBySub, nodeVars, odomVars, odomQueues, globalVars, GlobalUnchanged,
     OdomUnchanged, InputUnchanged
<1> DEFINE o == FlattenSeq(output_submap_queue)
           q == FlattenSeq(submap_queue)
           p == SubBuilt ** delayed_input_queue
<1>2. o \in Seq(Number) /\ q \in Seq(Number) /\ Open \in Seq(Number)
  BY HeldTypes DEF IInv
<1>3. p \in Seq(Number) /\ sub_input_queue \in Seq(Number)
  BY HeldTypes, PartTypes, Joined2 DEF IInv
<1>4. SubHeld' = SubHeld
  <2>1. CASE SubPublish
    <3>1. /\ output_submap_queue' = output_submap_queue \o submap_queue
          /\ submap_queue' = <<>> /\ sub = "publish" /\ sub' = "fetch"
          /\ UNCHANGED <<odom_frames, delayed_input_queue, odom_batch, sub_input_queue>>
      BY <2>1 DEF SubPublish
    <3>2. SubBuilt' = FlattenSeq(output_submap_queue \o submap_queue)
                      ** FlattenSeq(<<>>) ** Open
      BY <3>1 DEF SubBuilt, Open
    <3>3. /\ FlattenSeq(output_submap_queue \o submap_queue) = o ** q
          /\ FlattenSeq(<<>>) = <<>>
      BY FlattenJoined DEF IInv, TypeOK, SubTypes, QueueTypes
    <3>4. SubBuilt = o ** q ** Open
      BY DEF SubBuilt
    <3> HIDE DEF o, q
    <3>5. (o ** q) ** <<>> = o ** q
      BY <1>2, Joined2, NothingJoined
    <3>6. SubBuilt' = SubBuilt
      BY <3>2, <3>3, <3>4, <3>5
    <3> QED BY <3>1, <3>6 DEF SubHeld
  <2>2. CASE SubFetch
    <3>1. /\ odom_batch' = sub_input_queue /\ sub_input_queue' = <<>> /\ odom_batch = <<>>
          /\ sub = "fetch" /\ sub' = "check"
          /\ UNCHANGED <<odom_frames, delayed_input_queue, submap_queue, output_submap_queue>>
      BY <2>2 DEF SubFetch, IInv, Handover, SubBatches
    <3>2. SubBuilt' = SubBuilt
      BY <3>1 DEF SubBuilt, Open
    <3>3. SubHeld' = p ** sub_input_queue ** <<>> /\ SubHeld = p ** <<>> ** sub_input_queue
      BY <3>1, <3>2 DEF SubHeld
    <3> HIDE DEF p
    <3>4. (p ** sub_input_queue) ** <<>> = p ** sub_input_queue /\ p ** <<>> = p
      BY <1>3, Joined2, NothingJoined
    <3> QED BY <3>3, <3>4
  <2>3. CASE SubCheck \/ SubLoop
    <3>1. sub # "done" /\ sub' # "done"
      BY <2>3 DEF SubCheck, SubLoop
    <3>2. UNCHANGED <<odom_frames, delayed_input_queue, odom_batch, submap_queue,
                      output_submap_queue, sub_input_queue>>
      BY <2>3 DEF SubCheck, SubLoop, subQueues
    <3> QED BY <3>1, <3>2 DEF SubHeld, SubBuilt, Open
  <2>4. CASE SubInsert
    BY <2>4, InsertKeeps
  <2>5. CASE SubFinish
    <3>1. /\ sub = "finish" /\ sub' = "done" /\ submap_queue = <<>> /\ submap_queue' = <<>>
          /\ UNCHANGED <<delayed_input_queue, odom_batch, sub_input_queue>>
      BY <2>5 DEF SubFinish, IInv, Handover, SubBatches
    <3>2. FlattenSeq(output_submap_queue') = o ** odom_frames /\ odom_frames \in Seq(Number)
      <4>1. odom_frames \in Seq(Number) /\ output_submap_queue \in Seq(Seq(Number))
        BY DEF IInv, TypeOK, SubTypes, QueueTypes
      <4>2. CASE odom_frames = <<>>
        <5>1. output_submap_queue' = output_submap_queue
          BY <2>5, <4>2 DEF SubFinish
        <5> QED BY <1>2, <4>1, <4>2, <5>1, NothingJoined
      <4>3. CASE odom_frames # <<>>
        <5>1. output_submap_queue' = Append(output_submap_queue, odom_frames)
          BY <2>5, <4>3 DEF SubFinish
        <5> QED BY <4>1, <5>1, FlattenOneMore
      <4> QED BY <4>2, <4>3
    <3>3. /\ SubBuilt' = FlattenSeq(output_submap_queue') ** FlattenSeq(<<>>) ** <<>>
          /\ SubBuilt = o ** FlattenSeq(<<>>) ** odom_frames
      BY <3>1 DEF SubBuilt, Open
    <3> DEFINE c == FlattenSeq(output_submap_queue')
    <3> HIDE DEF o, c
    <3>4. c = o ** odom_frames /\ c \in Seq(Number) /\ FlattenSeq(<<>>) = <<>>
      BY <1>2, <3>2, Joined2, FlattenJoined DEF c
    <3>5. (c ** <<>>) ** <<>> = c /\ o ** <<>> = o
      BY <1>2, <3>4, NothingJoined
    <3>6. SubBuilt' = (c ** <<>>) ** <<>> /\ SubBuilt = (o ** <<>>) ** odom_frames
      BY <3>3, <3>4 DEF c
    <3>7. SubBuilt' = SubBuilt
      BY <3>4, <3>5, <3>6
    <3> QED BY <3>1, <3>7 DEF SubHeld
  <2> QED BY <2>1, <2>2, <2>3, <2>4, <2>5 DEF SubStep
<1>5. GlobalHeld' = GlobalHeld /\ OdomHeld' = OdomHeld
  BY <1>1, HeldUnchanged
<1> QED BY <1>1, <1>4, <1>5 DEF Delivered

(* Before the initial state is known no scan is behind the estimation.     *)
UsedUp == ~initialised => Delivered = <<>>

LEMMA OdomMoves ==
  ASSUME IInv, OdomStep, ~OdomProcess
  PROVE  /\ Delivered' = Delivered /\ Waiting' = Waiting
         /\ UNCHANGED <<scans, initialised>>
<1>1. /\ SubUnchanged /\ GlobalUnchanged
      /\ UNCHANGED <<submaps_, frames_, scans>>
  BY DEF OdomStep, OdomFetchImu, OdomFetchFrames, OdomCheck, OdomProcess,
     OdomLoop, OdomFinish, UnchangedByOdom, nodeVars, subVars, subQueues,
     globalVars, GlobalUnchanged, SubUnchanged
<1>2. initialised' = initialised
  BY DEF OdomStep, OdomFetchImu, OdomFetchFrames, OdomCheck, OdomLoop, OdomFinish
<1>3. OdomHeld' = OdomHeld /\ Waiting' = Waiting
  <2>1. CASE OdomFetchImu \/ OdomCheck \/ OdomLoop
    <3>1. odom # "done" /\ odom' # "done"
      BY <2>1 DEF OdomFetchImu, OdomCheck, OdomLoop
    <3>2. UNCHANGED <<frames, output_marginalized_frames, raw_frames,
                      input_frame_queue>>
      BY <2>1 DEF OdomFetchImu, OdomCheck, OdomLoop, odomQueues
    <3>3. OdomHeld' = OdomHeld
      BY <3>1, <3>2 DEF OdomHeld, Window
    <3>4. InputUnchanged
      BY <1>1, <1>2, <3>2 DEF InputUnchanged
    <3> QED BY <3>3, <3>4, HeldUnchanged
  <2>2. CASE OdomFetchFrames
    <3>1. /\ odom = "fetchFrames" /\ odom' = "check"
          /\ raw_frames' = raw_frames \o input_frame_queue /\ input_frame_queue' = <<>>
          /\ UNCHANGED <<frames, output_marginalized_frames>>
      BY <2>2 DEF OdomFetchFrames
    <3>2. OdomHeld' = OdomHeld
      BY <3>1 DEF OdomHeld, Window
    <3>3. raw_frames \in Seq(Scan) /\ input_frame_queue \in Seq(Scan)
      BY DEF IInv, TypeOK, OdomTypes, QueueTypes
    <3>4. Ids(raw_frames \o input_frame_queue) = Ids(raw_frames) ** Ids(input_frame_queue)
      <4>1. Ids(raw_frames \o input_frame_queue) = Ids(raw_frames) \o Ids(input_frame_queue)
        BY <3>3, IdsConcat
      <4> QED BY <4>1, Zenon DEF **
    <3>5. Ids(<<>>) = <<>>
      <4>1. <<>> \in Seq(Scan) /\ Len(<<>>) = 0
        BY EmptySeq
      <4>2. Ids(<<>>) \in Seq(Number) /\ Len(Ids(<<>>)) = 0
        BY <4>1, IdsType
      <4> QED BY <4>2, EmptySeq
    <3>6. Ids(raw_frames)' = Ids(raw_frames') /\ Ids(input_frame_queue)' = Ids(input_frame_queue')
      BY DEF Ids
    <3>7. Waiting' = Ids(raw_frames \o input_frame_queue) ** <<>>
      BY <3>1, <3>5, <3>6 DEF Waiting
    <3>8. (Ids(raw_frames) ** Ids(input_frame_queue)) ** <<>>
            = Ids(raw_frames) ** Ids(input_frame_queue)
      <4>1. Waiting \in Seq(Number)
        BY PartTypes DEF IInv
      <4>2. Waiting ** <<>> = Waiting
        BY <4>1, NothingJoined
      <4> QED BY <4>2 DEF Waiting
    <3> QED BY <3>2, <3>4, <3>7, <3>8 DEF Waiting
  <2>3. CASE OdomFinish
    <3>1. /\ odom = "finish" /\ odom' = "done"
          /\ output_marginalized_frames' = output_marginalized_frames \o frames
          /\ UNCHANGED <<raw_frames, input_frame_queue>>
      BY <2>3 DEF OdomFinish
    <3>2. output_marginalized_frames' = output_marginalized_frames ** frames
      BY <3>1, Zenon DEF **
    <3>3. output_marginalized_frames \in Seq(Number) /\ frames \in Seq(Number)
      BY HeldTypes DEF IInv
    <3>4. OdomHeld' = (output_marginalized_frames ** frames) ** <<>>
      BY <3>1, <3>2 DEF OdomHeld, Window
    <3>5. OdomHeld = output_marginalized_frames ** frames
      BY <3>1 DEF OdomHeld, Window
    <3>6. OdomHeld' = OdomHeld
      BY <3>3, <3>4, <3>5, Joined2, NothingJoined
    <3>7. InputUnchanged
      BY <1>1, <1>2, <3>1 DEF InputUnchanged
    <3> QED BY <3>6, <3>7, HeldUnchanged
  <2> QED BY <2>1, <2>2, <2>3 DEF OdomStep
<1>4. SubHeld' = SubHeld /\ GlobalHeld' = GlobalHeld
  BY <1>1, HeldUnchanged
<1> QED BY <1>1, <1>2, <1>3, <1>4 DEF Delivered

(* A scan is taken out of the raw frames: used up, or put into the window. *)
LEMMA Processed ==
  ASSUME IInv, UsedUp, OdomProcess
  PROVE  /\ Waiting # <<>> /\ Waiting' = Tail(Waiting) /\ scans' = scans
         /\ UsedUp'
         /\ initialised => Delivered' = Append(Delivered, Head(Waiting))
         /\ ~initialised => Delivered' = <<>> \/ Delivered' = <<Head(Waiting)>>
<1> DEFINE id == Head(raw_frames).id
           g == GlobalHeld ** FlattenSeq(submaps_) ** SubHeld ** frames_
           o == output_marginalized_frames
<1>1. /\ SubUnchanged /\ GlobalUnchanged
      /\ UNCHANGED <<submaps_, frames_, scans>>
  BY DEF OdomProcess, UnchangedByOdom, nodeVars, subVars, subQueues,
     globalVars, GlobalUnchanged, SubUnchanged
<1>2. /\ raw_frames # <<>> /\ raw_frames' = Tail(raw_frames) /\ Estimate(id)
      /\ input_frame_queue' = input_frame_queue /\ odom = "process" /\ odom' = odom
  BY DEF OdomProcess
<1>3. /\ Waiting # <<>> /\ Head(Waiting) = id /\ id \in Number
      /\ Waiting' = Tail(Waiting)
  <2> DEFINE r == Ids(raw_frames)
             i == Ids(input_frame_queue)
  <2>1. raw_frames \in Seq(Scan)
    BY DEF IInv, TypeOK, OdomTypes
  <2>2. /\ r # <<>> /\ Head(r) = id
        /\ Tail(r) = Ids(Tail(raw_frames))
    BY <1>2, <2>1, IdsHead
  <2>3. r \in Seq(Number) /\ i \in Seq(Number) /\ Waiting \in Seq(Number)
    BY HeldTypes, PartTypes DEF IInv
  <2>4. Waiting' = Tail(r) ** i
    <3>1. Ids(raw_frames)' = Ids(raw_frames') /\ Ids(input_frame_queue)' = Ids(input_frame_queue')
      BY DEF Ids
    <3> QED BY <1>2, <2>2, <3>1 DEF Waiting
  <2>5. Waiting = r ** i
    BY DEF Waiting
  <2> HIDE DEF r, i, id
  <2>6. Head(r) \in Number /\ Tail(r) \in Seq(Number)
    BY <2>2, <2>3, HeadJoined
  <2>7. /\ r ** i # <<>> /\ Head(r ** i) = Head(r) /\ Tail(r ** i) = Tail(r) ** i
    BY <2>2, <2>3, JoinedHead
  <2> QED BY <2>2, <2>4, <2>5, <2>6, <2>7
<1>4. g \in Seq(Number) /\ o \in Seq(Number) /\ frames \in Seq(Number)
  BY HeldTypes, PartTypes, Joined2 DEF IInv
<1>5. Delivered = g ** (o ** frames) /\ Delivered' = g ** (o' ** frames')
  <2>1. SubHeld' = SubHeld /\ GlobalHeld' = GlobalHeld
    BY <1>1, HeldUnchanged
  <2> QED BY <1>1, <1>2, <2>1 DEF Delivered, OdomHeld, Window
<1>6. CASE initialised
  <2>1. PICK n \in 0..Len(frames) :
          /\ o' = o \o SubSeq(frames, 1, n)
          /\ frames' = Append(SubSeq(frames, n + 1, Len(frames)), id)
    BY <1>2, <1>6 DEF Estimate
  <2>2. initialised' = initialised
    BY <1>2, <1>6 DEF Estimate
  <2> DEFINE s == SubSeq(frames, 1, n)
             t == SubSeq(frames, n + 1, Len(frames))
  <2>3. s ** t = frames /\ s \in Seq(Number) /\ t \in Seq(Number)
    BY <1>4, Parts
  <2>4. o' = o ** s /\ frames' = Append(t, id)
    BY <2>1, Zenon DEF **
  <2> DEFINE oo == o'
  <2> HIDE DEF s, t, id, o, g, oo
  <2>5. (o ** s) ** Append(t, id) = Append((o ** s) ** t, id)
    <3>1. o \in Seq(Number) /\ s \in Seq(Number)
      BY <1>4, <2>3
    <3>2. o ** s \in Seq(Number)
      BY <3>1, Joined2
    <3>3. id \in Number /\ t \in Seq(Number)
      BY <1>3, <2>3
    <3> QED BY <3>2, <3>3, AppendAtEnd
  <2>6. o ** (s ** t) = (o ** s) ** t
    BY <1>4, <2>3, BeforeTwo
  <2>7. o ** frames \in Seq(Number)
    BY <1>4, Joined2
  <2>8. g ** Append(o ** frames, id) = Append(g ** (o ** frames), id)
    BY <1>3, <1>4, <2>7, AppendAtEnd
  <2>9. Delivered' = Append(Delivered, id)
    BY <1>5, <2>3, <2>4, <2>5, <2>6, <2>8, Zenon
  <2> QED BY <1>1, <1>3, <1>6, <2>2, <2>9 DEF UsedUp
<1>7. CASE ~initialised
  <2>1. Delivered = <<>>
    BY <1>7 DEF UsedUp
  <2>2. g = <<>> /\ o = <<>> /\ frames = <<>>
    <3> HIDE DEF g, o
    <3>1. o ** frames \in Seq(Number)
      BY <1>4, Joined2
    <3>2. g = <<>> /\ o ** frames = <<>>
      BY <1>4, <1>5, <2>1, <3>1, EmptyJoined
    <3> QED BY <1>4, <3>2, EmptyJoined
  <2>3. o' = o /\ \/ frames' = frames /\ initialised' = initialised
                  \/ frames' = <<id>> /\ initialised' = TRUE
    BY <1>2, <1>7, Zenon DEF Estimate
  <2>4. Delivered' = <<>> ** (<<>> ** frames')
    BY <1>5, <2>2, <2>3
  <2>5. frames' \in Seq(Number)
    BY <1>3, <2>2, <2>3, OneJoined, EmptySeq
  <2>6. <<>> ** (<<>> ** frames') = frames'
    BY <2>5, NothingJoined
  <2>7. Delivered' = frames'
    BY <2>4, <2>6
  <2> QED BY <1>1, <1>3, <1>7, <2>2, <2>3, <2>7 DEF UsedUp
<1> QED BY <1>6, <1>7

(* The node passes frames and submaps on from one thread to the next.      *)
LEMMA FramePassed ==
  ASSUME IInv, InsertFrame
  PROVE  Delivered' = Delivered
<1> DEFINE x == GlobalHeld ** FlattenSeq(submaps_)
           p == SubBuilt ** delayed_input_queue ** odom_batch
           i == sub_input_queue
           h == Head(frames_)
           r == Tail(frames_)
<1>1. /\ frames_ # <<>> /\ frames_' = r /\ i' = Append(i, h)
      /\ UNCHANGED <<submaps_, submaps, submap_batch, submap_input_queue, sub,
                     odom_batch, delayed_input_queue, odom_frames, submap_queue,
                     output_submap_queue>>
      /\ OdomUnchanged
  BY DEF InsertFrame, UnchangedThreads, odomVars, odomQueues, subVars, globalVars,
     OdomUnchanged
<1>2. p' = p /\ x' = x /\ OdomHeld' = OdomHeld
  <2>1. GlobalUnchanged
    BY <1>1 DEF GlobalUnchanged
  <2>2. SubBuilt' = SubBuilt
    BY <1>1 DEF SubBuilt, Open
  <2> QED BY <1>1, <2>1, <2>2, HeldUnchanged
<1>3. x \in Seq(Number) /\ p \in Seq(Number) /\ i \in Seq(Number) /\ frames_ \in Seq(Number)
  BY HeldTypes, PartTypes, Joined2 DEF IInv
<1>4. Delivered = x ** (p ** i) ** frames_ ** OdomHeld
  BY DEF Delivered, SubHeld
<1>5. Delivered' = x ** (p ** Append(i, h)) ** r ** OdomHeld
  BY <1>1, <1>2 DEF Delivered, SubHeld
<1>6. x ** (p ** Append(i, h)) ** r = x ** (p ** i) ** frames_
  <2>1. h \in Number /\ r \in Seq(Number)
    BY <1>1, <1>3, HeadJoined
  <2> DEFINE y == x ** (p ** i)
  <2>2. Append(y, h) ** r = y ** frames_
    <3>1. y \in Seq(Number)
      BY <1>3, Joined2
    <3> QED BY <1>1, <1>3, <3>1, HeadMoves
  <2> HIDE DEF x, p, i, h, r
  <2>3. p ** Append(i, h) = Append(p ** i, h)
    BY <1>3, <2>1, AppendAtEnd
  <2>4. p ** i \in Seq(Number)
    BY <1>3, Joined2
  <2>5. x ** Append(p ** i, h) = Append(x ** (p ** i), h)
    BY <1>3, <2>1, <2>4, AppendAtEnd
  <2> QED BY <2>2, <2>3, <2>5, Zenon
<1> QED BY <1>4, <1>5, <1>6, Zenon

LEMMA SubmapPassed ==
  ASSUME IInv, InsertSubmap
  PROVE  Delivered' = Delivered
<1> DEFINE x == FlattenSeq(submaps) ** FlattenSeq(submap_batch)
           i == FlattenSeq(submap_input_queue)
           n == FlattenSeq(submaps_)
           h == Head(submaps_)
           r == FlattenSeq(Tail(submaps_))
<1>1. /\ submaps_ # <<>> /\ submaps_' = Tail(submaps_)
      /\ submap_input_queue' = Append(submap_input_queue, h)
      /\ UNCHANGED <<submaps, submap_batch, frames_>>
      /\ SubUnchanged /\ OdomUnchanged
  BY DEF InsertSubmap, UnchangedThreads, odomVars, odomQueues, subVars, subQueues,
     globalVars, SubUnchanged, OdomUnchanged
<1>2. submaps_ \in Seq(Seq(Number)) /\ submap_input_queue \in Seq(Seq(Number))
  BY DEF IInv, TypeOK, NodeTypes, QueueTypes
<1>3. n = h ** r /\ h \in Seq(Number) /\ r \in Seq(Number)
  BY <1>1, <1>2, FlattenHead, FlattenJoined
<1>4. FlattenSeq(submap_input_queue') = i ** h
  BY <1>1, <1>2, <1>3, FlattenOneMore
<1>5. x \in Seq(Number) /\ i \in Seq(Number) /\ n \in Seq(Number)
  BY HeldTypes, Joined2 DEF IInv
<1>6. GlobalHeld ** n = x ** i ** n /\ (GlobalHeld ** n)' = x ** (i ** h) ** r
  BY <1>1, <1>4 DEF GlobalHeld
<1>7. x ** (i ** h) ** r = x ** i ** n
  <2> HIDE DEF x, i, n, h, r
  <2>1. x ** (i ** h) = (x ** i) ** h
    BY <1>3, <1>5, BeforeTwo
  <2>2. x ** i \in Seq(Number)
    BY <1>5, Joined2
  <2>3. (x ** i) ** (h ** r) = (x ** i) ** h ** r
    BY <1>3, <2>2, BeforeTwo
  <2> QED BY <1>3, <2>1, <2>3, Zenon
<1>8. (GlobalHeld ** n)' = GlobalHeld ** n
  BY <1>6, <1>7, Zenon
<1>9. SubHeld' = SubHeld /\ OdomHeld' = OdomHeld /\ frames_' = frames_
  BY <1>1, HeldUnchanged
<1> QED BY <1>8, <1>9 DEF Delivered

(* The node takes all frames, or all submaps, when it holds none.          *)
LEMMA FramesTaken ==
  ASSUME IInv, frames_ = <<>>, NEW from, NEW to, TakeFrames(from, to)
  PROVE  Delivered' = Delivered
<1> DEFINE x == GlobalHeld ** FlattenSeq(submaps_) ** SubHeld
           o == output_marginalized_frames
<1>1. /\ frames_' = o /\ o' = <<>> /\ SubUnchanged /\ GlobalUnchanged
      /\ UNCHANGED <<submaps_, odom, frames>>
  BY DEF TakeFrames, UnchangedThreads, odomVars, subVars, subQueues, globalVars,
     SubUnchanged, GlobalUnchanged
<1>2. x' = x /\ Window' = Window
  BY <1>1, HeldUnchanged DEF Window
<1>3. x \in Seq(Number) /\ o \in Seq(Number) /\ Window \in Seq(Number)
  BY HeldTypes, PartTypes, Joined2 DEF IInv
<1>4. /\ Delivered = x ** <<>> ** (o ** Window)
      /\ Delivered' = x ** o ** (<<>> ** Window)
  BY <1>1, <1>2 DEF Delivered, OdomHeld
<1> HIDE DEF x, o
<1>5. x ** <<>> = x /\ <<>> ** Window = Window
  BY <1>3, NothingJoined
<1>6. x ** (o ** Window) = x ** o ** Window
  BY <1>3, BeforeTwo
<1> QED BY <1>4, <1>5, <1>6, Zenon

LEMMA SubmapsTaken ==
  ASSUME IInv, submaps_ = <<>>, NEW from, NEW to, TakeSubmaps(from, to)
  PROVE  Delivered' = Delivered
<1> DEFINE g == GlobalHeld
           o == FlattenSeq(output_submap_queue)
           q == FlattenSeq(submap_queue)
           d == delayed_input_queue
           b == odom_batch
           i == sub_input_queue
<1>1. /\ submaps_' = output_submap_queue /\ output_submap_queue' = <<>>
      /\ UNCHANGED <<sub, odom_batch, delayed_input_queue, odom_frames,
                     submap_queue, sub_input_queue, frames_>>
      /\ OdomUnchanged /\ GlobalUnchanged
  BY DEF TakeSubmaps, UnchangedThreads, odomVars, odomQueues, subVars, globalVars,
     OdomUnchanged, GlobalUnchanged
<1>2. /\ g \in Seq(Number) /\ o \in Seq(Number) /\ q \in Seq(Number)
      /\ Open \in Seq(Number) /\ d \in Seq(Number) /\ b \in Seq(Number)
      /\ i \in Seq(Number)
  BY HeldTypes, PartTypes DEF IInv
<1>3. FlattenSeq(<<>>) = <<>> /\ Open' = Open /\ OdomHeld' = OdomHeld
      /\ GlobalHeld' = g /\ q' = q /\ d' = d /\ b' = b /\ i' = i
  BY <1>1, HeldUnchanged, FlattenJoined DEF Open
<1>4. /\ g ** FlattenSeq(submaps_) ** SubHeld
           = g ** <<>> ** (o ** q ** Open ** d ** b ** i)
      /\ (g ** FlattenSeq(submaps_) ** SubHeld)'
           = g ** o ** (<<>> ** q ** Open ** d ** b ** i)
  BY <1>1, <1>3 DEF SubHeld, SubBuilt
<1> DEFINE z == q ** Open
           t == z ** d
<1> HIDE DEF g, o, q, d, b, i
<1>5. g ** <<>> = g /\ <<>> ** q = q
  BY <1>2, NothingJoined
<1>6. g ** (o ** q ** Open ** d ** b ** i) = g ** o ** (q ** Open ** d ** b ** i)
  <2>1. o ** (q ** Open ** d ** b) = o ** q ** Open ** d ** b
    BY <1>2, BeforeFour
  <2>2. q ** Open ** d ** b \in Seq(Number)
    <3>1. z \in Seq(Number)
      BY <1>2, Joined2
    <3> HIDE DEF z
    <3>2. t \in Seq(Number)
      BY <1>2, <3>1, Joined2
    <3> HIDE DEF t
    <3>3. t ** b \in Seq(Number)
      BY <1>2, <3>2, Joined2
    <3> QED BY <3>3 DEF t, z
  <2> DEFINE u == q ** Open ** d ** b
  <2> HIDE DEF u
  <2>3. o ** (u ** i) = o ** u ** i
    BY <1>2, <2>2, BeforeTwo DEF u
  <2>4. u ** i \in Seq(Number)
    BY <1>2, <2>2, Joined2 DEF u
  <2>5. g ** (o ** (u ** i)) = g ** o ** (u ** i)
    BY <1>2, <2>4, BeforeTwo
  <2> QED BY <2>1, <2>3, <2>5, Zenon DEF u
<1>7. (GlobalHeld ** FlattenSeq(submaps_) ** SubHeld)'
        = GlobalHeld ** FlattenSeq(submaps_) ** SubHeld
  BY <1>3, <1>4, <1>5, <1>6, Zenon DEF g
<1> QED BY <1>1, <1>3, <1>7 DEF Delivered

LEMMA NodeKeeps ==
  ASSUME IInv, PassedOn, Timer \/ Wait \/ NodeStep
  PROVE  Delivered' = Delivered /\ InputUnchanged
<1>1. InputUnchanged
  BY DEF Timer, Wait, NodeStep, InsertFrame, InsertSubmap, EndTimer, JoinSub,
     JoinGlobal, Save, TakeFrames, TakeSubmaps, UnchangedByJoin, UnchangedThreads,
     odomVars, odomQueues, InputUnchanged
<1>2. CASE InsertFrame
  BY <1>2, FramePassed, <1>1
<1>3. CASE InsertSubmap
  BY <1>3, SubmapPassed, <1>1
<1>4. CASE EndTimer \/ Wait \/ JoinSub \/ JoinGlobal \/ Save
  <2>1. UnchangedByJoin
    BY <1>4 DEF EndTimer, Wait, JoinSub, JoinGlobal, Save
  <2>2. /\ SubUnchanged /\ OdomUnchanged /\ GlobalUnchanged
        /\ UNCHANGED <<submaps_, frames_>>
    BY <2>1 DEF UnchangedByJoin, UnchangedThreads, odomVars, odomQueues, subVars,
       subQueues, globalVars, SubUnchanged, OdomUnchanged, GlobalUnchanged
  <2>3. SubHeld' = SubHeld /\ OdomHeld' = OdomHeld /\ GlobalHeld' = GlobalHeld
    BY <2>2, HeldUnchanged
  <2> QED BY <1>1, <2>2, <2>3 DEF Delivered
<1>5. CASE Timer \/ TakeFrames("joinOdom", "lastFrames")
  <2>1. frames_ = <<>>
    BY <1>5 DEF Timer, TakeFrames, Goto, PassedOn
  <2> QED BY <1>1, <1>5, <2>1, FramesTaken DEF Timer
<1>6. CASE \/ TakeSubmaps("timerFrames", "timerSubmaps")
           \/ TakeSubmaps("joinSub", "lastSubmaps")
  <2>1. submaps_ = <<>>
    BY <1>6 DEF TakeSubmaps, Goto, PassedOn
  <2> QED BY <1>1, <1>6, <2>1, SubmapsTaken
<1> QED BY <1>2, <1>3, <1>4, <1>5, <1>6 DEF NodeStep

(* A scan that arrives is the last of the waiting ones.                    *)
LEMMA IdsAppend ==
  ASSUME NEW q \in Seq(Scan), NEW s \in Scan
  PROVE  Ids(Append(q, s)) = Append(Ids(q), s.id)
<1> DEFINE n == Len(q)
           a == Append(q, s)
<1>1. n \in Nat /\ a \in Seq(Scan) /\ Len(a) = n + 1 /\ a[n + 1] = s
      /\ \A k \in 1..n : a[k] = q[k]
  OBVIOUS
<1>2. s.id \in Number
  BY DEF Scan
<1>3. Ids(q) \in Seq(Number) /\ Len(Ids(q)) = n
  BY IdsType
<1> DEFINE c == Append(Ids(q), s.id)
<1>4. c \in Seq(Number) /\ Len(c) = n + 1 /\ c[n + 1] = s.id
      /\ \A k \in 1..n : c[k] = Ids(q)[k]
  <2> DEFINE v == Ids(q)
             w == s.id
  <2> HIDE DEF v, w
  <2>1. v \in Seq(Number) /\ Len(v) = n /\ w \in Number
    BY <1>2, <1>3 DEF v, w
  <2>2. Append(v, w) \in Seq(Number) /\ Len(Append(v, w)) = n + 1
        /\ Append(v, w)[n + 1] = w /\ \A k \in 1..n : Append(v, w)[k] = v[k]
    BY <2>1
  <2> QED BY <2>2 DEF v, w
<1> HIDE DEF a, c
<1>5. Ids(a) \in Seq(Number) /\ Len(Ids(a)) = n + 1
  BY <1>1, IdsType
<1>6. \A k \in 1..(n + 1) : Ids(a)[k] = c[k]
  <2> TAKE k \in 1..(n + 1)
  <2>1. Ids(a)[k] = a[k].id
    BY <1>1 DEF Ids
  <2>2. k \in 1..n => Ids(q)[k] = q[k].id
    BY DEF Ids
  <2>3. k = n + 1 \/ k \in 1..n
    BY <1>1
  <2> QED BY <1>1, <1>4, <2>1, <2>2, <2>3
<1>7. Ids(a) = c
  BY <1>4, <1>5, <1>6, SeqEqual
<1> QED BY <1>7 DEF a, c

LEMMA CallbackKeeps ==
  ASSUME IInv, ImuCallback \/ PointsCallback
  PROVE  /\ Delivered' = Delivered
         /\ ImuCallback => InputUnchanged
         /\ PointsCallback =>
              /\ Waiting' = Append(Waiting, scans') /\ scans' = scans + 1
              /\ scans' \in Number /\ initialised' = initialised
<1>1. /\ SubUnchanged /\ OdomUnchanged /\ GlobalUnchanged
      /\ UNCHANGED <<submaps_, frames_, initialised, raw_frames>>
  BY DEF ImuCallback, PointsCallback, UnchangedThreads, odomVars, odomQueues,
     subVars, subQueues, globalVars, SubUnchanged, OdomUnchanged, GlobalUnchanged
<1>2. SubHeld' = SubHeld /\ OdomHeld' = OdomHeld /\ GlobalHeld' = GlobalHeld
  BY <1>1, HeldUnchanged
<1>3. Delivered' = Delivered
  BY <1>1, <1>2 DEF Delivered
<1>4. ImuCallback => InputUnchanged
  BY <1>1 DEF ImuCallback, InputUnchanged
<1>5. ASSUME PointsCallback
      PROVE  /\ Waiting' = Append(Waiting, scans') /\ scans' = scans + 1
             /\ scans' \in Number
  <2>1. scans' = scans + 1 /\ scans' \in Number
    BY <1>5, GlimAssumption DEF PointsCallback, IInv, TypeOK, NodeTypes,
       GlimAssumption, Number
  <2>2. PICK end \in 1..MaxStamp :
          input_frame_queue' = Append(input_frame_queue,
                                      [id |-> scans', scan_end_time |-> end])
    BY <1>5 DEF PointsCallback
  <2> DEFINE s == [id |-> scans', scan_end_time |-> end]
             i == Ids(input_frame_queue)
             r == Ids(raw_frames)
  <2>3. s \in Scan /\ s.id = scans'
    BY <2>1 DEF Scan
  <2>4. input_frame_queue \in Seq(Scan)
    BY DEF IInv, TypeOK, QueueTypes
  <2>5. Ids(Append(input_frame_queue, s)) = Append(i, scans')
    BY <2>3, <2>4, IdsAppend
  <2>6. Ids(input_frame_queue)' = Append(i, scans')
    BY <2>2, <2>5 DEF Ids
  <2>7. Ids(raw_frames)' = r
    BY <1>1 DEF Ids
  <2>8. r \in Seq(Number) /\ i \in Seq(Number)
    BY HeldTypes DEF IInv
  <2>9. Waiting = r ** i /\ Waiting' = r ** Append(i, scans')
    BY <2>6, <2>7 DEF Waiting
  <2> HIDE DEF r, i
  <2>10. r ** Append(i, scans') = Append(r ** i, scans')
    BY <2>1, <2>8, AppendAtEnd
  <2> QED BY <2>1, <2>9, <2>10
<1> QED BY <1>1, <1>3, <1>4, <1>5

----------------------------------------------------------------------------
(* The stream as a whole.                                                  *)

StreamSplit == TypeOK => Stream = Delivered ** Waiting

LEMMA StreamSplits == StreamSplit
BY StreamParts DEF StreamSplit

LEMMA StreamPartsNext == TypeOK' => Stream' = Delivered' ** Waiting'
<1>1. StreamSplit'
  BY StreamSplits, PTL
<1>2. TypeOK' => (Stream = Delivered ** Waiting)'
  BY <1>1 DEF StreamSplit
<1> QED BY <1>2

(* Only the arrival of a scan and its processing change what is held.      *)
LEMMA Kept ==
  ASSUME IInv, PassedOn, [Next]_vars, ~PointsCallback, ~OdomProcess
  PROVE  /\ Delivered' = Delivered /\ Waiting' = Waiting
         /\ scans' = scans /\ initialised' = initialised
<1>1. CASE ImuCallback
  BY <1>1, CallbackKeeps, HeldUnchanged DEF InputUnchanged
<1>2. CASE Timer \/ Wait \/ NodeStep
  BY <1>2, NodeKeeps, HeldUnchanged DEF InputUnchanged
<1>3. CASE OdomStep
  BY <1>3, OdomMoves
<1>4. CASE SubStep
  BY <1>4, SubKeeps, HeldUnchanged DEF InputUnchanged
<1>5. CASE GlobalStep
  BY <1>5, GlobalKeeps, HeldUnchanged DEF InputUnchanged
<1>6. CASE UNCHANGED vars
  <2>1. /\ SubUnchanged /\ OdomUnchanged /\ GlobalUnchanged /\ InputUnchanged
        /\ UNCHANGED <<submaps_, frames_>>
    BY <1>6 DEF vars, nodeVars, odomVars, odomQueues, subVars, subQueues, globalVars,
       SubUnchanged, OdomUnchanged, GlobalUnchanged, InputUnchanged
  <2>2. SubHeld' = SubHeld /\ OdomHeld' = OdomHeld /\ GlobalHeld' = GlobalHeld
    BY <2>1, HeldUnchanged
  <2>3. Delivered' = Delivered
    BY <2>1, <2>2 DEF Delivered
  <2> QED BY <2>1, <2>3, HeldUnchanged DEF InputUnchanged
<1> QED BY <1>1, <1>2, <1>3, <1>4, <1>5, <1>6 DEF Next

(* What a step makes of the stream.                                        *)
LEMMA StreamStep ==
  ASSUME IInv, IInv', PassedOn, UsedUp, [Next]_vars
  PROVE  /\ \/ Stream' = Stream /\ scans' = scans
            \/ Stream' = Append(Stream, scans') /\ scans' = scans + 1
            \/ /\ ~initialised /\ Stream # <<>>
               /\ Stream' = Tail(Stream) /\ scans' = scans
         /\ UsedUp'
         /\ ~OdomProcess => Delivered' = Delivered
<1> DEFINE d == Delivered
           w == Waiting
           z == Stream
<1>1. /\ z = d ** w /\ z' = d' ** w'
      /\ d \in Seq(Number) /\ w \in Seq(Number)
  BY StreamParts, StreamPartsNext, PartTypes DEF IInv
<1>2. CASE PointsCallback
  <2>1. /\ d' = d /\ w' = Append(w, scans') /\ scans' = scans + 1
        /\ scans' \in Number /\ initialised' = initialised
    BY <1>2, CallbackKeeps
  <2>2. UsedUp'
    BY <2>1 DEF UsedUp
  <2> DEFINE n == scans'
  <2>3. n \in Number /\ z' = d ** Append(w, n)
    BY <1>1, <2>1
  <2> HIDE DEF d, w, z, n
  <2>4. d ** Append(w, n) = Append(d ** w, n)
    BY <1>1, <2>3, AppendAtEnd
  <2>5. z' = Append(z, n)
    BY <1>1, <2>3, <2>4, Zenon
  <2> QED BY <2>1, <2>2, <2>5 DEF n, z, d
<1>3. CASE OdomProcess
  <2>1. /\ w # <<>> /\ w' = Tail(w) /\ scans' = scans /\ UsedUp'
        /\ initialised => d' = Append(d, Head(w))
        /\ ~initialised => d' = <<>> \/ d' = <<Head(w)>>
    BY <1>3, Processed
  <2>2. CASE initialised
    <3> DEFINE h == Head(w)
               t == Tail(w)
    <3>1. Append(d, h) ** t = d ** w
      BY <1>1, <2>1, HeadMoves
    <3>2. d' = Append(d, h) /\ w' = t
      BY <2>1, <2>2
    <3> HIDE DEF d, w, z, h, t
    <3>3. z' = z
      BY <1>1, <3>1, <3>2, Zenon
    <3> QED BY <1>3, <2>1, <3>3 DEF z
  <2>3. CASE ~initialised
    <3>1. d = <<>>
      BY <2>3 DEF UsedUp
    <3> DEFINE h == <<Head(w)>>
               t == Tail(w)
    <3>2. h ** t = w /\ t \in Seq(Number)
      BY <1>1, <2>1, HeadJoined
    <3>3. w' = t /\ (d' = <<>> \/ d' = h)
      BY <2>1, <2>3
    <3> HIDE DEF d, w, z, h, t
    <3>4. z = w
      BY <1>1, <3>1, NothingJoined
    <3>5. z' = t \/ z' = z
      <4>1. <<>> ** t = t
        BY <3>2, NothingJoined
      <4> QED BY <1>1, <3>2, <3>3, <3>4, <4>1, Zenon
    <3> QED BY <1>3, <2>1, <2>3, <3>4, <3>5 DEF z, w, t
  <2> QED BY <2>2, <2>3
<1>4. CASE ~PointsCallback /\ ~OdomProcess
  <2>1. d' = d /\ w' = w /\ scans' = scans /\ initialised' = initialised
    BY <1>4, Kept
  <2>2. UsedUp'
    BY <2>1 DEF UsedUp
  <2>3. z' = z
    BY <1>1, <2>1
  <2> QED BY <2>1, <2>2, <2>3
<1> QED BY <1>2, <1>3, <1>4

(* A run of consecutive numbers up to n, one more or one less.             *)
Run(s, n) == \A k \in 1..Len(s) : s[k] = n - Len(s) + k

LEMMA RunGrows ==
  ASSUME NEW s \in Seq(Number), NEW n \in Nat, Run(s, n)
  PROVE  /\ Run(Append(s, n + 1), n + 1)
         /\ s # <<>> => Run(Tail(s), n)
<1>1. Len(s) \in Nat
  OBVIOUS
<1>2. Run(Append(s, n + 1), n + 1)
  <2> DEFINE a == Append(s, n + 1)
  <2>1. Len(a) = Len(s) + 1 /\ a[Len(s) + 1] = n + 1
        /\ \A k \in 1..Len(s) : a[k] = s[k]
    OBVIOUS
  <2> HIDE DEF a
  <2>2. \A k \in 1..Len(a) : a[k] = (n + 1) - Len(a) + k
    <3> TAKE k \in 1..Len(a)
    <3>1. k \in 1..Len(s) \/ k = Len(s) + 1
      BY <1>1, <2>1
    <3>2. k \in 1..Len(s) => s[k] = n - Len(s) + k
      BY DEF Run
    <3> QED BY <1>1, <2>1, <3>1, <3>2
  <2> QED BY <2>2 DEF Run, a
<1>3. ASSUME s # <<>> PROVE Run(Tail(s), n)
  <2> DEFINE t == Tail(s)
  <2>1. Len(t) = Len(s) - 1 /\ \A k \in 1..Len(t) : t[k] = s[k + 1]
    BY <1>3, HeadTailProperties
  <2>2. Len(s) > 0
    BY <1>1, <1>3, EmptySeq
  <2> HIDE DEF t
  <2>3. \A k \in 1..Len(t) : t[k] = n - Len(t) + k
    <3> TAKE k \in 1..Len(t)
    <3>1. k + 1 \in 1..Len(s)
      BY <1>1, <2>1, <2>2
    <3>2. s[k + 1] = n - Len(s) + (k + 1)
      BY <3>1 DEF Run
    <3> QED BY <1>1, <2>1, <3>2
  <2> QED BY <2>3 DEF Run, t
<1> QED BY <1>2, <1>3

(* The invariant: the threads hand over what they hold, and what is held   *)
(* is a run.                                                               *)
StreamInv == IInv /\ PassedOn /\ UsedUp /\ EveryScanOnce

LEMMA RunIsOnce == EveryScanOnce <=> Run(Stream, scans)
BY DEF EveryScanOnce, Run

LEMMA RunIsOnceNext == EveryScanOnce' <=> Run(Stream', scans')
BY DEF EveryScanOnce, Run

LEMMA StreamInit == Init => StreamInv
<1> SUFFICES ASSUME Init PROVE StreamInv
  OBVIOUS
<1>1. IInv
  BY InitInv
<1>2. PassedOn
  BY DEF Init, PassedOn
<1>3. FlattenSeq(<<>>) = <<>> /\ <<>> \in Seq(Number) /\ <<>> ** <<>> = <<>>
  BY FlattenJoined, NothingJoined, EmptySeq
<1>4. Delivered = <<>>
  <2>1. GlobalHeld = <<>>
    BY <1>3 DEF Init, GlobalHeld
  <2>2. SubHeld = <<>>
    BY <1>3 DEF Init, SubHeld, SubBuilt, Open
  <2>3. OdomHeld = <<>>
    BY <1>3 DEF Init, OdomHeld, Window
  <2> QED BY <1>3, <2>1, <2>2, <2>3 DEF Init, Delivered
<1>5. Waiting = <<>>
  <2>1. <<>> \in Seq(Scan)
    BY EmptySeq
  <2>2. Ids(<<>>) \in Seq(Number) /\ Len(Ids(<<>>)) = Len(<<>>)
    BY <2>1, IdsType
  <2>3. Ids(<<>>) = <<>>
    BY <2>2, EmptySeq
  <2> QED BY <1>3, <2>3 DEF Init, Waiting
<1>6. Stream = <<>>
  <2>1. Stream = Delivered ** Waiting
    BY <1>1, StreamParts DEF IInv
  <2> QED BY <1>3, <1>4, <1>5, <2>1
<1>7. UsedUp /\ EveryScanOnce
  BY <1>4, <1>6 DEF UsedUp, EveryScanOnce
<1> QED BY <1>1, <1>2, <1>7 DEF StreamInv

LEMMA StreamType == TypeOK => Stream \in Seq(Number) /\ scans \in Nat
<1> SUFFICES ASSUME TypeOK PROVE Stream \in Seq(Number) /\ scans \in Nat
  OBVIOUS
<1>1. Stream = Delivered ** Waiting /\ Delivered \in Seq(Number) /\ Waiting \in Seq(Number)
  BY StreamParts, PartTypes
<1>2. Delivered ** Waiting \in Seq(Number)
  <2> DEFINE d == Delivered
             w == Waiting
  <2> HIDE DEF d, w
  <2>1. d \in Seq(Number) /\ w \in Seq(Number)
    BY <1>1 DEF d, w
  <2>2. d ** w \in Seq(Number)
    BY <2>1, Joined2
  <2> QED BY <2>2 DEF d, w
<1>3. scans \in Nat
  BY GlimAssumption DEF GlimAssumption, TypeOK, NodeTypes
<1> QED BY <1>1, <1>2, <1>3

LEMMA StreamNext == StreamInv /\ IInv' /\ [Next]_vars => StreamInv'
<1> SUFFICES ASSUME StreamInv, IInv', [Next]_vars PROVE StreamInv'
  OBVIOUS
<1>1. PassedOn'
  BY PassedOnStep DEF StreamInv
<1>2. /\ \/ Stream' = Stream /\ scans' = scans
         \/ Stream' = Append(Stream, scans') /\ scans' = scans + 1
         \/ /\ ~initialised /\ Stream # <<>>
            /\ Stream' = Tail(Stream) /\ scans' = scans
      /\ UsedUp'
  BY StreamStep DEF StreamInv
<1>3. Run(Stream', scans')
  <2> DEFINE z == Stream
             y == Stream'
  <2>1. z \in Seq(Number) /\ scans \in Nat /\ Run(z, scans)
    BY StreamType, RunIsOnce DEF StreamInv, IInv
  <2>2. \/ y = z /\ scans' = scans
        \/ y = Append(z, scans + 1) /\ scans' = scans + 1
        \/ z # <<>> /\ y = Tail(z) /\ scans' = scans
    BY <1>2
  <2> HIDE DEF z, y
  <2>3. /\ Run(Append(z, scans + 1), scans + 1)
        /\ z # <<>> => Run(Tail(z), scans)
    BY <2>1, RunGrows
  <2>4. Run(y, scans')
    BY <2>1, <2>2, <2>3, Zenon
  <2> QED BY <2>4 DEF y
<1> QED BY <1>1, <1>2, <1>3, RunIsOnceNext DEF StreamInv

THEOREM StreamInvariance == Spec => []StreamInv
BY Invariance, StreamInit, StreamNext, PTL DEF Spec

(* What the pipeline holds is always a run of consecutive scans up to the  *)
(* newest, in every interleaving of the four threads.                      *)
THEOREM ScansHeldOnce == Spec => []EveryScanOnce
<1>1. StreamInv => EveryScanOnce
  BY DEF StreamInv
<1> QED BY StreamInvariance, <1>1, PTL

(* Once the initial state is known no step takes a scan out.               *)
THEOREM NoScanDropped == Spec => NothingDropped
<1>1. ASSUME StreamInv, IInv', [Next]_vars, initialised
      PROVE  Len(Stream') - Len(Stream) = scans' - scans
  <2> DEFINE z == Stream
             y == Stream'
  <2>1. z \in Seq(Number) /\ scans \in Nat
    BY <1>1, StreamType DEF StreamInv, IInv
  <2>2. \/ y = z /\ scans' = scans
        \/ y = Append(z, scans + 1) /\ scans' = scans + 1
    BY <1>1, StreamStep DEF StreamInv
  <2> HIDE DEF z, y
  <2>3. Len(y) - Len(z) = scans' - scans
    BY <2>1, <2>2
  <2> QED BY <2>3 DEF z, y
<1>2. StreamInv /\ IInv' /\ [Next]_vars
        => [initialised => Len(Stream') - Len(Stream) = scans' - scans]_vars
  BY <1>1
<1> QED BY Invariance, StreamInvariance, <1>2, PTL DEF Spec, NothingDropped

----------------------------------------------------------------------------
(* The abstract map.                                                       *)

(* The map and the batch about to join it begin the stream.                *)
Begins(x, s) == \E r \in Seq(Number) : s = x ** r

LEMMA BeginsMore ==
  ASSUME NEW x \in Seq(Number), NEW s \in Seq(Number), NEW t \in Seq(Number)
  PROVE  /\ Begins(x, x ** t)
         /\ Begins(x, s) => Begins(x, s ** t)
<1>1. Begins(x, x ** t)
  BY DEF Begins
<1>2. ASSUME Begins(x, s) PROVE Begins(x, s ** t)
  <2>1. PICK r \in Seq(Number) : s = x ** r
    BY <1>2 DEF Begins
  <2>2. x ** (r ** t) = x ** r ** t
    BY BeforeTwo
  <2>3. r ** t \in Seq(Number)
    BY Joined2
  <2>4. s ** t = x ** (r ** t)
    BY <2>1, <2>2, Zenon
  <2> QED BY <2>3, <2>4 DEF Begins
<1> QED BY <1>1, <1>2

LEMMA MapBegins ==
  ASSUME TypeOK
  PROVE  Begins(FlattenSeq(submaps) ** FlattenSeq(submap_batch), Stream)
<1> DEFINE x == FlattenSeq(submaps) ** FlattenSeq(submap_batch)
           i == FlattenSeq(submap_input_queue)
           n == FlattenSeq(submaps_)
           s1 == GlobalHeld ** n
           s2 == s1 ** SubHeld
           s3 == s2 ** frames_
<1>1. /\ x \in Seq(Number) /\ i \in Seq(Number) /\ n \in Seq(Number)
      /\ frames_ \in Seq(Number)
  BY HeldTypes, Joined2
<1>2. /\ GlobalHeld \in Seq(Number) /\ SubHeld \in Seq(Number)
      /\ OdomHeld \in Seq(Number) /\ Delivered \in Seq(Number)
      /\ Waiting \in Seq(Number)
  BY PartTypes
<1>3. Begins(x, GlobalHeld)
  BY <1>1, BeginsMore DEF GlobalHeld
<1>4. Delivered = s3 ** OdomHeld
  BY DEF Delivered
<1> HIDE DEF x, i, n
<1>5. s1 \in Seq(Number) /\ Begins(x, s1)
  BY <1>1, <1>2, <1>3, BeginsMore, Joined2
<1> HIDE DEF s1
<1>6. s2 \in Seq(Number) /\ Begins(x, s2)
  BY <1>1, <1>2, <1>5, BeginsMore, Joined2
<1> HIDE DEF s2
<1>7. s3 \in Seq(Number) /\ Begins(x, s3)
  BY <1>1, <1>6, BeginsMore, Joined2
<1> HIDE DEF s3
<1>8. Begins(x, Delivered)
  BY <1>1, <1>2, <1>4, <1>7, BeginsMore
<1>9. Begins(x, Delivered ** Waiting)
  BY <1>1, <1>2, <1>8, BeginsMore
<1> QED BY <1>9, StreamParts DEF x

(* b continues the run m by some of the first n scans.                     *)
Continues(m, b, n) ==
  \E i, j \in 1..n :
    /\ i <= j /\ (m # <<>> => i = m[Len(m)] + 1)
    /\ b = [k \in 1..(j - i + 1) |-> i + k - 1]

(* What begins a run is a run itself: two parts of it follow one another.  *)
LEMMA RunParts ==
  ASSUME NEW m \in Seq(Number), NEW b \in Seq(Number), NEW s \in Seq(Number),
         NEW n \in Nat, b # <<>>, Begins(m ** b, s), Run(s, n)
  PROVE  Continues(m, b, n)
<1> DEFINE x == m ** b
<1>1. x \in Seq(Number) /\ Len(m) \in Nat /\ Len(b) \in Nat /\ Len(s) \in Nat
  BY Joined2
<1>2. Len(b) > 0
  BY <1>1, EmptySeq
<1>3. /\ Len(x) = Len(m) + Len(b)
      /\ \A k \in 1..Len(m) : x[k] = m[k]
      /\ \A k \in 1..Len(b) : x[Len(m) + k] = b[k]
  BY JoinedElements
<1>4. PICK r \in Seq(Number) : s = x ** r
  BY DEF Begins
<1> HIDE DEF x
<1>5. /\ Len(s) = Len(x) + Len(r) /\ Len(r) \in Nat
      /\ \A k \in 1..Len(x) : s[k] = x[k]
  <2>1. x \in Seq(Number) /\ r \in Seq(Number)
    BY <1>1
  <2>2. Len(x ** r) = Len(x) + Len(r) /\ \A k \in 1..Len(x) : (x ** r)[k] = x[k]
    BY <2>1, JoinedElements
  <2>3. Len(s) = Len(x) + Len(r) /\ \A k \in 1..Len(x) : s[k] = x[k]
    BY <1>4, <2>2, Zenon
  <2>4. Len(r) \in Nat
    BY <2>1
  <2> QED BY <2>3, <2>4
<1> DEFINE c == n - Len(s)
           i == c + Len(m) + 1
           j == c + Len(m) + Len(b)
<1>6. \A k \in 1..Len(s) : s[k] = c + k
  BY DEF Run
<1>7. c \in Nat
  <2>1. 1 \in 1..Len(s)
    BY <1>1, <1>2, <1>3, <1>5
  <2>2. s[1] \in Number /\ s[1] = c + 1
    BY <1>6, <2>1
  <2>3. s[1] >= 1 /\ c \in Int
    BY <1>1, <2>2, GlimAssumption DEF Number, GlimAssumption
  <2> QED BY <2>2, <2>3
<1>8. i \in 1..n /\ j \in 1..n /\ i <= j /\ j - i + 1 = Len(b)
  BY <1>1, <1>2, <1>3, <1>5, <1>7
<1>9. \A k \in 1..Len(b) : b[k] = i + k - 1
  <2> TAKE k \in 1..Len(b)
  <2>1. Len(m) + k \in 1..Len(x) /\ Len(m) + k \in 1..Len(s)
    BY <1>1, <1>3, <1>5
  <2>2. b[k] = s[Len(m) + k]
    BY <1>3, <1>5, <2>1
  <2>3. s[Len(m) + k] = c + (Len(m) + k)
    BY <1>6, <2>1
  <2> QED BY <1>1, <1>7, <2>2, <2>3
<1>10. m # <<>> => i = m[Len(m)] + 1
  <2> SUFFICES ASSUME m # <<>> PROVE i = m[Len(m)] + 1
    OBVIOUS
  <2>1. Len(m) > 0
    BY <1>1, EmptySeq
  <2>2. Len(m) \in 1..Len(m) /\ Len(m) \in 1..Len(x) /\ Len(m) \in 1..Len(s)
    BY <1>1, <1>3, <1>5, <2>1
  <2>3. m[Len(m)] = s[Len(m)] /\ s[Len(m)] = c + Len(m)
    BY <1>3, <1>5, <1>6, <2>2
  <2> QED BY <1>1, <1>7, <2>3
<1> HIDE DEF c, i, j
<1>11. b = [k \in 1..(j - i + 1) |-> i + k - 1]
  <2> DEFINE f == [k \in 1..(j - i + 1) |-> i + k - 1]
  <2>1. DOMAIN b = 1..Len(b) /\ b = [k \in DOMAIN b |-> b[k]]
    OBVIOUS
  <2>2. b = [k \in 1..Len(b) |-> b[k]]
    BY <2>1, Zenon
  <2>3. b = [k \in 1..Len(b) |-> i + k - 1]
    BY <1>9, <2>2, Zenon
  <2> QED BY <1>8, <2>3, Zenon
<1> QED BY <1>8, <1>10, <1>11, Zenon DEF Continues

(* The map and the number of scans change by a step of the abstract map.   *)
LEMMA MapStep ==
  ASSUME StreamInv, [Next]_vars
  PROVE  [Abstract!Next]_<<scans, Map>>
<1>1. CASE PointsCallback
  <2>1. scans' = scans + 1 /\ submaps' = submaps
    BY <1>1 DEF PointsCallback, UnchangedThreads, globalVars
  <2> QED BY <2>1 DEF Abstract!Next, Abstract!Arrive, Map
<1>2. CASE GlobalInsert
  <2> DEFINE m == FlattenSeq(submaps)
             b == FlattenSeq(submap_batch)
  <2>1. scans' = scans /\ submaps' = submaps \o submap_batch
    BY <1>2 DEF GlobalInsert, UnchangedByGlobal, nodeVars
  <2>2. FlattenSeq(submaps \o submap_batch) = m ** b
    BY FlattenJoined DEF StreamInv, IInv, TypeOK, GlobalTypes
  <2>3. Map = m /\ Map' = m \o b
    BY <2>1, <2>2, Zenon DEF Map, **
  <2>4. m \in Seq(Number) /\ b \in Seq(Number)
    BY HeldTypes DEF StreamInv, IInv
  <2>5. Stream \in Seq(Number) /\ scans \in Nat /\ Begins(m ** b, Stream) /\ Run(Stream, scans)
    BY StreamType, MapBegins, RunIsOnce DEF StreamInv, IInv
  <2>6. CASE b = <<>>
    <3> HIDE DEF m, b
    <3>1. m \o <<>> = m
      BY <2>4, ConcatEmptySeq
    <3>2. Map' = Map
      BY <2>3, <2>6, <3>1, Zenon
    <3> QED BY <2>1, <3>2
  <2>7. CASE b # <<>>
    <3> DEFINE z == Stream
    <3> HIDE DEF m, b, z
    <3>1. Continues(m, b, scans)
      <4>1. z \in Seq(Number) /\ Begins(m ** b, z) /\ Run(z, scans)
        BY <2>5 DEF z
      <4>2. scans \in Nat /\ m \in Seq(Number) /\ b \in Seq(Number)
        BY <2>4, <2>5
      <4> QED BY <2>7, <4>1, <4>2, RunParts
    <3>2. PICK i, j \in 1..scans :
            /\ i <= j /\ (m # <<>> => i = m[Len(m)] + 1)
            /\ b = [k \in 1..(j - i + 1) |-> i + k - 1]
      BY <3>1, Zenon DEF Continues
    <3>3. /\ Map # <<>> => i = Map[Len(Map)] + 1
          /\ Map' = Map \o Abstract!Consecutive(i, j)
      BY <2>3, <3>2, Zenon DEF Abstract!Consecutive
    <3>4. Abstract!Grow
      BY <2>1, <3>2, <3>3, Zenon DEF Abstract!Grow
    <3> QED BY <3>4 DEF Abstract!Next
  <2> QED BY <2>6, <2>7
<1>3. CASE ~PointsCallback /\ ~GlobalInsert
  <2>1. scans' = scans /\ submaps' = submaps
    <3>1. CASE ImuCallback
      BY <3>1 DEF ImuCallback, UnchangedThreads, globalVars
    <3>2. CASE Timer \/ Wait \/ NodeStep
      BY <3>2 DEF Timer, Wait, NodeStep, InsertFrame, InsertSubmap, EndTimer,
         JoinSub, JoinGlobal, Save, TakeFrames, TakeSubmaps, UnchangedByJoin,
         UnchangedThreads, globalVars
    <3>3. CASE OdomStep
      BY <3>3 DEF OdomStep, OdomFetchImu, OdomFetchFrames, OdomCheck, OdomProcess,
         OdomLoop, OdomFinish, UnchangedByOdom, nodeVars, globalVars
    <3>4. CASE SubStep
      BY <3>4 DEF SubStep, SubPublish, SubFetch, SubCheck, SubInsert, SubLoop,
         SubFinish, UnchangedBySub, nodeVars, globalVars
    <3>5. CASE GlobalFetch \/ GlobalCheck
      BY <3>5 DEF GlobalFetch, GlobalCheck, UnchangedByGlobal, nodeVars
    <3>6. CASE UNCHANGED vars
      BY <3>6 DEF vars, nodeVars, globalVars
    <3> QED BY <1>3, <3>1, <3>2, <3>3, <3>4, <3>5, <3>6 DEF Next, GlobalStep
  <2> QED BY <2>1 DEF Map
<1> QED BY <1>1, <1>2, <1>3

(* The pipeline implements the abstract map: it is a run of consecutive    *)
(* scans, it grows by the scans that follow its last one, by none twice.   *)
THEOREM MapStreamImplemented == Spec => ImplementsMapStream
<1>1. Init => Abstract!Init
  <2>1. Init => submaps = <<>> /\ scans = 0
    BY DEF Init
  <2> QED BY <2>1, FlattenJoined DEF Abstract!Init, Map
<1>2. StreamInv /\ [Next]_vars => [Abstract!Next]_<<scans, Map>>
  BY MapStep
<1> QED BY StreamInvariance, <1>1, <1>2, PTL DEF Spec, ImplementsMapStream, Abstract!Spec
=============================================================================
