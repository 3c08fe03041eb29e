------------------------ MODULE KdTreeRebuild_proofs ------------------------
(***************************************************************************)
(* Types, the exclusion of searches by the rebuild, the protection of the  *)
(* old nodes and the updates a rebuild keeps, for every set of points,     *)
(* boxes and searching threads and any number of calls and rebuilds.       *)
(***************************************************************************)
EXTENDS KdTreeRebuild, FiniteSetTheorems, SequenceTheorems, TLAPS

Counted == {s \in Searcher : searcher[s] = "counted"}
Exclusive == thread \in {"flatten", "swap", "swapped"}

(* The counter is -1, and nobody is counted in, or it counts the searches. *)
CounterMatches ==
  IF Exclusive THEN search_mutex_counter = -1 /\ Counted = {}
               ELSE search_mutex_counter = Cardinality(Counted)

(* A search that did not count itself in saw no request, and none can be   *)
(* made before the mapping thread has joined it.                           *)
Uncounted ==
  /\ main # "search" => \A s \in Searcher : searcher[s] = "off"
  /\ \A s \in Searcher : searcher[s] = "uncounted" => ~Rebuild_Ptr

Requested ==
  /\ thread \in {"lockSearch", "flatten", "build", "drain", "run", "swap", "swapped"}
       => Rebuild_Ptr
  /\ thread \in {"clear", "free"} => ~Rebuild_Ptr

(* What each point of the mapping thread's call relies on.                 *)
CallShape ==
  /\ Len(todo) <= 2
  /\ main \in {"apply", "applyFree", "applyLock"} => Len(todo) > 0
  /\ main \in {"push", "pushLock"} => candidate # NoPoint \/ Len(todo) > 0
  /\ main \in {"check", "walkLock", "walk", "walkLocked"} => candidate \in Point

Entered ==
  /\ \A s \in Searcher : searcher[s] \in {"counted", "uncounted"} =>
                           entered[s] = copies
  /\ main = "walkLocked" => entered[Mapping] = copies \/ thread = "swapped"
  /\ main = "walk" /\ Target = "child" => /\ entered[Mapping] = copies
                                          /\ ~Rebuild_Ptr

IInv == /\ TypeOK /\ CounterMatches /\ Uncounted /\ Requested /\ CallShape
        /\ Entered

(* An operation applied to points of the map leaves points of the map.     *)
LEMMA ApplyType ==
  ASSUME NEW s \in SUBSET Point, NEW o \in Operation
  PROVE  Apply(s, o) \in SUBSET Point
BY DEF Apply, Operation

LEMMA ApplyAllType ==
  ASSUME NEW s \in SUBSET Point, NEW os \in Seq(Operation), Len(os) \in 1 .. 2
  PROVE  ApplyAll(s, os) \in SUBSET Point
<1>1. os[1] \in Operation /\ (Len(os) # 1 => os[2] \in Operation)
  OBVIOUS
<1> QED BY <1>1, ApplyType DEF ApplyAll

LEMMA CountedFinite ==
  ASSUME KdAssumption
  PROVE  IsFiniteSet(Counted) /\ Cardinality(Counted) \in Nat
BY FS_Subset, FS_CardinalityType DEF Counted, KdAssumption

(* The counter of a state in which nobody is counted in.                   *)
LEMMA NobodyCounted ==
  ASSUME KdAssumption, TypeOK
  PROVE  Cardinality(Counted) = 0 <=> \A s \in Searcher : searcher[s] # "counted"
BY CountedFinite, FS_EmptySet DEF Counted

LEMMA InitIInv ==
  ASSUME KdAssumption, Init
  PROVE  IInv
<1>1. TypeOK
  <2>1. Delete({}) \in Operation /\ <<>> \in Seq(Operation)
    BY DEF Operation, Delete
  <2> QED BY <2>1 DEF Init, TypeOK
<1>2. Counted = {}
  BY DEF Init, Counted
<1>3. CounterMatches
  BY <1>2, FS_EmptySet DEF Init, CounterMatches, Exclusive
<1>4. Uncounted /\ Requested /\ CallShape /\ Entered
  BY DEF Init, Uncounted, Requested, CallShape, Entered
<1> QED BY <1>1, <1>3, <1>4 DEF IInv

----------------------------------------------------------------------------
(* The mapping thread.                                                     *)

(* A step of the mapping thread that searches nothing leaves the counter   *)
(* and the rebuild thread alone.                                           *)
LEMMA CounterUnchanged ==
  ASSUME CounterMatches, UNCHANGED <<thread, searcher, search_mutex_counter>>
  PROVE  CounterMatches'
BY DEF CounterMatches, Counted, Exclusive

LEMMA StartCallStep ==
  ASSUME KdAssumption, IInv, UpdatePoints \/ AddDownsampled \/ StartSearches
  PROVE  IInv'
<1> USE DEF IInv, Call, At, treeVars, sharedVars, threadVars, searchVars
<1>1. CASE UpdatePoints
  <2>1. PICK o \in {Add(p) : p \in Point \ Content}
                   \cup {Delete({p}) : p \in Point}
                   \cup {Delete(c) : c \in Cell \cup {Point}} : todo' = <<o>>
    BY <1>1, Zenon DEF UpdatePoints
  <2>2. o \in Operation
    BY DEF Operation, Add, Delete, KdAssumption
  <2>3. TypeOK'
    BY <1>1, <2>1, <2>2 DEF UpdatePoints, TypeOK
  <2>4. CounterMatches'
    BY <1>1, CounterUnchanged DEF UpdatePoints
  <2> QED BY <1>1, <2>1, <2>3, <2>4
      DEF UpdatePoints, Uncounted, Requested, CallShape, Entered
<1>2. CASE AddDownsampled
  <2>1. candidate' \in Point /\ main' = "push"
    BY <1>2 DEF AddDownsampled
  <2>2. TypeOK'
    BY <1>2, <2>1 DEF AddDownsampled, TypeOK
  <2>3. CounterMatches'
    BY <1>2, CounterUnchanged DEF AddDownsampled
  <2>4. CallShape'
    BY <1>2, <2>1 DEF AddDownsampled, CallShape, KdAssumption
  <2> QED BY <1>2, <2>2, <2>3, <2>4 DEF AddDownsampled, Uncounted, Requested, Entered
<1>3. CASE StartSearches
  <2>1. \A s \in Searcher : searcher[s] = "off" /\ searcher'[s] = "start"
    BY <1>3 DEF StartSearches, Uncounted
  <2>2. TypeOK'
    BY <1>3 DEF StartSearches, TypeOK
  <2>3. Counted' = Counted
    BY <2>1 DEF Counted
  <2>4. CounterMatches'
    BY <1>3, <2>3 DEF StartSearches, CounterMatches, Exclusive
  <2> QED BY <1>3, <2>1, <2>2, <2>4
      DEF StartSearches, Uncounted, Requested, CallShape, Entered
<1> QED BY <1>1, <1>2, <1>3

(* The other steps of the mapping thread leave searches and rebuild alone. *)
LEMMA WorkingKeeps ==
  ASSUME IInv, main # "search", Rebuild_Ptr' = Rebuild_Ptr,
         UNCHANGED <<threadVars, searcher, search_mutex_counter>>
  PROVE  CounterMatches' /\ Uncounted' /\ Requested'
<1>1. CounterMatches'
  BY CounterUnchanged DEF IInv, threadVars
<1> QED BY <1>1 DEF IInv, threadVars, Uncounted, Requested

LEMMA EnteredKept ==
  ASSUME IInv, UNCHANGED <<thread, copies, searcher, entered>>,
         main' \notin {"walk", "walkLocked"}
  PROVE  Entered'
BY DEF IInv, Entered

(* Head, tail and emptiness of the operations of a call.                   *)
LEMMA TodoFacts ==
  ASSUME TypeOK, Len(todo) > 0
  PROVE  /\ Head(todo) \in Operation /\ <<Head(todo)>> \in Seq(Operation)
         /\ Len(<<Head(todo)>>) = 1
         /\ Tail(todo) \in Seq(Operation) /\ Len(Tail(todo)) = Len(todo) - 1
         /\ Tail(todo) # <<>> => Len(Tail(todo)) > 0
<1>1. todo \in Seq(Operation)
  BY DEF TypeOK
<1>2. Tail(todo) \in Seq(Operation) /\ Len(Tail(todo)) = Len(todo) - 1
  BY <1>1
<1>3. Tail(todo) # <<>> => Len(Tail(todo)) > 0
  BY <1>2, EmptySeq
<1>4. Head(todo) \in Operation
  BY <1>1
<1> QED BY <1>2, <1>3, <1>4

(* A logged operation keeps the logger's type.                             *)
LEMMA LoggerType ==
  ASSUME TypeOK, NEW os \in Seq(Operation), LogIfRebuilding(os)
  PROVE  Rebuild_Logger' \in Seq(Operation)
<1>1. Rebuild_Logger \in Seq(Operation)
  BY DEF TypeOK
<1> QED BY <1>1 DEF LogIfRebuilding

LEMMA PushDownStep ==
  ASSUME KdAssumption, IInv, PushDown \/ PushDownLocked
  PROVE  IInv'
<1> USE DEF At, treeVars, sharedVars, threadVars, searchVars
<1>1. CASE PushDown
  <2>1. /\ main = "push"
        /\ UNCHANGED <<reference, Rebuild_Ptr, rebuild_flag, Rebuild_Logger, thread,
                       newSub, operation, copies, errorPrinted, candidate, calls,
                       searcher, entered, search_mutex_counter>>
    BY <1>1 DEF PushDown
  <2>2. CounterMatches' /\ Uncounted' /\ Requested'
    BY <2>1, WorkingKeeps
  <2>3. /\ sub' \in {sub, {}} /\ pending' \in {pending, FALSE}
        /\ main' \in {"idle", "push", "pushLock", "check", "apply"}
    BY <1>1 DEF PushDown, Afterwards
  <2>4. Entered'
    BY <2>1, <2>3, EnteredKept
  <2>5. /\ todo' \in Seq(Operation) /\ Len(todo') <= 2
        /\ main' = "apply" => Len(todo') > 0
        /\ main' \in {"push", "pushLock"} => candidate # NoPoint \/ Len(todo') > 0
        /\ main' = "check" => candidate \in Point
    <3>1. todo \in Seq(Operation) /\ Len(todo) <= 2
      BY DEF IInv, TypeOK, CallShape
    <3>2. candidate # NoPoint \/ Len(todo) > 0
      BY <2>1 DEF IInv, CallShape
    <3>3. CASE todo' = todo
      <4>1. main' \in {"pushLock", Afterwards}
        <5>1. ~(pending /\ Deleting /\ todo' = Tail(todo))
          BY <3>2, <3>3, <3>1, TodoFacts DEF Deleting, IInv
        <5> QED BY <1>1, <5>1 DEF PushDown
      <4>2. candidate \in Point \cup {NoPoint}
        BY DEF IInv, TypeOK
      <4> QED BY <3>1, <3>2, <3>3, <4>1, <4>2 DEF Afterwards
    <3>4. CASE /\ Deleting /\ todo' = Tail(todo)
               /\ main' = IF todo' = <<>> THEN "idle" ELSE "push"
      BY <3>1, <3>2, <3>4, TodoFacts DEF Deleting, IInv
    <3>5. \/ todo' = todo
          \/ /\ Deleting /\ todo' = Tail(todo)
             /\ main' = IF todo' = <<>> THEN "idle" ELSE "push"
      BY <1>1 DEF PushDown
    <3> QED BY <3>3, <3>4, <3>5
  <2>6. TypeOK'
    <3>1. sub' \subseteq Point /\ pending' \in BOOLEAN
      BY <2>3 DEF IInv, TypeOK
    <3> QED BY <2>1, <2>3, <2>5, <3>1 DEF IInv, TypeOK
  <2>7. CallShape'
    BY <2>1, <2>3, <2>5 DEF CallShape
  <2> QED BY <2>2, <2>4, <2>6, <2>7 DEF IInv
<1>2. CASE PushDownLocked
  <2>1. /\ main = "pushLock" /\ main' = Afterwards
        /\ sub' = {} /\ pending' = FALSE
        /\ LogIfRebuilding(<<Delete(Point)>>)
        /\ UNCHANGED <<reference, Rebuild_Ptr, rebuild_flag, thread,
                       newSub, operation, copies, errorPrinted, candidate, todo, calls,
                       searcher, entered, search_mutex_counter>>
    BY <1>2 DEF PushDownLocked
  <2>2. CounterMatches' /\ Uncounted' /\ Requested'
    BY <2>1, WorkingKeeps
  <2>3. Entered'
    BY <2>1, EnteredKept DEF Afterwards
  <2>4. Rebuild_Logger' \in Seq(Operation)
    <3>1. <<Delete(Point)>> \in Seq(Operation)
      BY DEF Delete, Operation
    <3> QED BY <2>1, <3>1, LoggerType DEF IInv
  <2>5. TypeOK'
    BY <2>1, <2>4 DEF IInv, TypeOK, Afterwards
  <2>6. CallShape'
    BY <2>1 DEF IInv, TypeOK, CallShape, Afterwards
  <2> QED BY <2>2, <2>3, <2>5, <2>6 DEF IInv
<1> QED BY <1>1, <1>2

LEMMA WalkStep ==
  ASSUME KdAssumption, IInv, CheckWalk \/ LockWalk \/ FinishWalk
  PROVE  IInv'
<1> USE DEF At, treeVars, sharedVars, threadVars, searchVars
<1>1. CASE CheckWalk \/ LockWalk
  <2>1. /\ main \in {"check", "walkLock"}
        /\ main' \in {"walkLock", "walk", "walkLocked"}
        /\ main' = "walk" => ~LocksWalk
        /\ entered' = [entered EXCEPT ![Mapping] = copies]
        /\ UNCHANGED <<treeVars, sharedVars, threadVars, candidate, todo, calls,
                       searcher, search_mutex_counter>>
    BY <1>1 DEF CheckWalk, LockWalk
  <2>2. CounterMatches' /\ Uncounted' /\ Requested'
    BY <2>1, WorkingKeeps
  <2>3. entered \in [Reader -> Nat] /\ Mapping \in Reader /\ copies \in Nat
    BY DEF IInv, TypeOK, Reader
  <2>4. TypeOK'
    BY <2>1, <2>3 DEF IInv, TypeOK
  <2>5. CallShape'
    BY <2>1 DEF IInv, CallShape
  <2>6. Entered'
    <3>1. \A s \in Searcher : searcher[s] # "counted" /\ searcher[s] # "uncounted"
      BY <2>1 DEF IInv, Uncounted
    <3>2. entered'[Mapping] = copies
      BY <2>1, <2>3
    <3>3. main' = "walk" /\ Target = "child" => ~Rebuild_Ptr
      BY <2>1 DEF LocksWalk
    <3> QED BY <2>1, <3>1, <3>2, <3>3 DEF Entered
  <2> QED BY <2>2, <2>4, <2>5, <2>6 DEF IInv
<1>2. CASE FinishWalk
  <2>1. PICK cell \in Cell :
          /\ candidate \in cell
          /\ \E keep \in Closest(sub \cap cell, candidate) :
               \/ /\ todo' \in {<<Add(keep)>>, <<Delete(cell), Add(keep)>>}
                  /\ main' = "push"
               \/ main' = "idle" /\ todo' = todo
    BY <1>2, Zenon DEF FinishWalk
  <2>1a. PICK keep \in Closest(sub \cap cell, candidate) :
             \/ /\ todo' \in {<<Add(keep)>>, <<Delete(cell), Add(keep)>>}
                /\ main' = "push"
             \/ main' = "idle" /\ todo' = todo
    BY <2>1
  <2>2. /\ main \in {"walk", "walkLocked"}
        /\ candidate' = NoPoint
        /\ UNCHANGED <<treeVars, sharedVars, threadVars, calls, searchVars>>
    BY <1>2 DEF FinishWalk
  <2>3. CounterMatches' /\ Uncounted' /\ Requested'
    BY <2>2, WorkingKeeps
  <2>4. Entered'
    BY <2>1a, <2>2, EnteredKept
  <2>5. keep \in Point /\ cell \in SUBSET Point
    BY <2>1, <2>1a DEF Closest, KdAssumption
  <2>6. /\ <<Add(keep)>> \in Seq(Operation) /\ Len(<<Add(keep)>>) = 1
        /\ <<Delete(cell), Add(keep)>> \in Seq(Operation)
        /\ Len(<<Delete(cell), Add(keep)>>) = 2
    <3>1. Add(keep) \in Operation /\ Delete(cell) \in Operation
      BY <2>5 DEF Add, Delete, Operation
    <3> QED BY <3>1
  <2>7. todo' \in Seq(Operation) /\ Len(todo') <= 2
        /\ (main' = "push" => Len(todo') > 0)
    <3>1. CASE main' = "idle" /\ todo' = todo
      BY <3>1 DEF IInv, TypeOK, CallShape
    <3>2. CASE todo' = <<Add(keep)>>
      BY <2>6, <3>2
    <3>3. CASE todo' = <<Delete(cell), Add(keep)>>
      BY <2>6, <3>3
    <3> QED BY <2>1a, <3>1, <3>2, <3>3
  <2>8. TypeOK'
    BY <2>1a, <2>2, <2>7 DEF IInv, TypeOK
  <2>9. CallShape'
    BY <2>1a, <2>2, <2>7 DEF CallShape
  <2> QED BY <2>3, <2>4, <2>8, <2>9 DEF IInv
<1> QED BY <1>1, <1>2

LEMMA ApplyStep ==
  ASSUME KdAssumption, IInv,
         CoverFather \/ Decide \/ ApplyFree \/ ApplyLocked \/ JoinSearches
  PROVE  IInv'
<1> USE DEF At, treeVars, sharedVars, threadVars, searchVars
<1>1. CASE CoverFather
  <2>1. /\ main = "apply" /\ main' = "idle" /\ pending' = TRUE /\ reference' = {}
        /\ todo' = Tail(todo)
        /\ UNCHANGED <<sub, sharedVars, threadVars, candidate, calls, searchVars>>
    BY <1>1 DEF CoverFather
  <2>2. todo' \in Seq(Operation) /\ Len(todo') <= 2
    BY <2>1, TodoFacts DEF IInv, CallShape
  <2>3. CounterMatches' /\ Uncounted' /\ Requested' /\ Entered'
    BY <2>1, WorkingKeeps, EnteredKept
  <2> QED BY <2>1, <2>2, <2>3 DEF IInv, TypeOK, CallShape
<1>2. CASE Decide
  <2>1. /\ main = "apply" /\ main' \in {"applyLock", "applyFree"}
        /\ UNCHANGED <<treeVars, sharedVars, threadVars, candidate, todo, calls,
                       searchVars>>
    BY <1>2 DEF Decide
  <2>2. CounterMatches' /\ Uncounted' /\ Requested' /\ Entered'
    BY <2>1, WorkingKeeps, EnteredKept
  <2> QED BY <2>1, <2>2 DEF IInv, TypeOK, CallShape
<1>3. CASE ApplyFree
  <2>1. /\ main = "applyFree" /\ main' \in {"idle", "push", "applyFree"}
        /\ main' # "idle" => todo' # <<>>
        /\ todo' = Tail(todo)
        /\ sub' = Apply(sub, Head(todo)) /\ reference' = Apply(reference, Head(todo))
        /\ UNCHANGED <<pending, rebuild_flag, Rebuild_Logger, threadVars, candidate,
                       calls, searchVars>>
    BY <1>3 DEF ApplyFree
  <2>2. \/ Rebuild_Ptr' = Rebuild_Ptr
        \/ thread = "idle" /\ Rebuild_Ptr' = TRUE
    BY <1>3 DEF ApplyFree
  <2>3. Len(todo) > 0
    BY <2>1 DEF IInv, CallShape
  <2>4. TypeOK'
    <3>1. sub' \in SUBSET Point /\ reference' \in SUBSET Point
      BY <2>1, <2>3, TodoFacts, ApplyType DEF IInv, TypeOK
    <3>2. todo' \in Seq(Operation) /\ Rebuild_Ptr' \in BOOLEAN
      BY <2>1, <2>2, <2>3, TodoFacts DEF IInv, TypeOK
    <3> QED BY <2>1, <3>1, <3>2 DEF IInv, TypeOK
  <2>5. CounterMatches'
    BY <2>1, CounterUnchanged DEF IInv
  <2>6. Uncounted' /\ Requested' /\ Entered'
    BY <2>1, <2>2 DEF IInv, Uncounted, Requested, Entered
  <2>7. CallShape'
    BY <2>1, <2>3, TodoFacts DEF IInv, CallShape
  <2> QED BY <2>4, <2>5, <2>6, <2>7 DEF IInv
<1>4. CASE ApplyLocked
  <2>1. PICK os \in {todo, <<Head(todo)>>} :
          /\ sub' = ApplyAll(sub, os) /\ reference' = ApplyAll(reference, os)
          /\ LogIfRebuilding(os)
          /\ todo' \in {<<>>, Tail(todo)}
    BY <1>4, Zenon DEF ApplyLocked
  <2>2. /\ main = "applyLock" /\ main' = IF todo' = <<>> THEN "idle" ELSE "push"
        /\ UNCHANGED <<pending, Rebuild_Ptr, rebuild_flag, threadVars, candidate, calls,
                       searchVars>>
    BY <1>4 DEF ApplyLocked
  <2>3. CounterMatches' /\ Uncounted' /\ Requested' /\ Entered'
    BY <2>2, WorkingKeeps, EnteredKept
  <2>4. Len(todo) > 0 /\ os \in Seq(Operation) /\ Len(os) \in 1 .. 2
    <3>1. todo \in Seq(Operation) /\ Len(todo) \in 1 .. 2
      <4>1. todo \in Seq(Operation) /\ Len(todo) > 0 /\ Len(todo) <= 2
        BY <2>2 DEF IInv, CallShape, TypeOK
      <4>2. Len(todo) \in Nat
        BY <4>1, LenProperties
      <4>3. \A n \in Nat : n > 0 /\ n <= 2 => n \in 1 .. 2
        OBVIOUS
      <4> QED BY <4>1, <4>2, <4>3, Zenon
    <3>2. <<Head(todo)>> \in Seq(Operation) /\ Len(<<Head(todo)>>) = 1
      BY <3>1, TodoFacts DEF IInv
    <3> QED BY <3>1, <3>2
  <2>5. /\ todo' \in Seq(Operation) /\ Len(todo') <= 2
        /\ main' = "push" => Len(todo') > 0
    <3>1. CASE todo' = <<>>
      <4>1. <<>> \in Seq(Operation) /\ Len(<<>>) = 0
        BY EmptySeq
      <4> QED BY <2>2, <3>1, <4>1
    <3>2. CASE todo' = Tail(todo)
      BY <2>2, <2>4, <3>2, TodoFacts DEF IInv, CallShape
    <3> QED BY <2>1, <3>1, <3>2
  <2>6. sub' \in SUBSET Point /\ reference' \in SUBSET Point
    BY <2>1, <2>4, ApplyAllType DEF IInv, TypeOK
  <2>7. Rebuild_Logger' \in Seq(Operation)
    BY <2>1, <2>4, LoggerType DEF IInv
  <2>8. TypeOK'
    BY <2>2, <2>5, <2>6, <2>7 DEF IInv, TypeOK
  <2>9. CallShape'
    BY <2>2, <2>5 DEF CallShape
  <2> QED BY <2>3, <2>8, <2>9 DEF IInv
<1>5. CASE JoinSearches
  <2>1. /\ main = "search" /\ \A s \in Searcher : searcher[s] = "off"
        /\ main' = "idle"
        /\ UNCHANGED <<treeVars, sharedVars, threadVars, candidate, todo, calls,
                       searchVars>>
    BY <1>5 DEF JoinSearches
  <2>2. CounterMatches'
    BY <2>1, CounterUnchanged DEF IInv
  <2> QED BY <2>1, <2>2 DEF IInv, TypeOK, Uncounted, Requested, CallShape, Entered
<1> QED BY <1>1, <1>2, <1>3, <1>4, <1>5

----------------------------------------------------------------------------
(* The searching threads.                                                  *)

LEMMA SearchStep ==
  ASSUME KdAssumption, IInv, NEW s \in Searcher, Search(s)
  PROVE  IInv'
<1>1. /\ UNCHANGED <<treeVars, sharedVars, threadVars, mainVars>>
      /\ searcher[s] # "off"
  BY DEF Search, CheckSearch, CountIn, FinishSearch
<1>2. /\ searcher \in [Searcher -> {"off", "start", "wait", "counted", "uncounted"}]
      /\ entered \in [Reader -> Nat] /\ copies \in Nat /\ s \in Reader
      /\ search_mutex_counter \in Nat \cup {-1}
  BY DEF IInv, TypeOK, Reader
<1>3. main = "search" /\ Requested' /\ CallShape'
  BY <1>1 DEF IInv, Uncounted, Requested, CallShape, threadVars, mainVars, sharedVars
<1>4. IsFiniteSet(Counted) /\ Cardinality(Counted) \in Nat
  BY CountedFinite
<1>5. CASE CheckSearch(s)
  <2>1. PICK to \in {"off", "wait", "uncounted"} :
          /\ searcher' = [searcher EXCEPT ![s] = to]
          /\ to = "uncounted" => ~Rebuild_Ptr
    BY <1>5 DEF CheckSearch, Goes
  <2>2. /\ searcher[s] = "start"
        /\ entered' = [entered EXCEPT ![s] = copies]
        /\ search_mutex_counter' = search_mutex_counter
    BY <1>5 DEF CheckSearch
  <2>3. Counted' = Counted
    BY <1>2, <2>1, <2>2 DEF Counted
  <2>4. TypeOK'
    BY <1>1, <1>2, <2>1, <2>2 DEF IInv, TypeOK, treeVars, sharedVars, threadVars, mainVars
  <2>5. CounterMatches'
    BY <1>1, <2>2, <2>3 DEF IInv, CounterMatches, Exclusive, threadVars
  <2>6. Uncounted'
    BY <1>1, <1>2, <1>3, <2>1 DEF IInv, Uncounted, sharedVars, mainVars
  <2>7. Entered'
    BY <1>1, <1>2, <1>3, <2>1, <2>2 DEF IInv, Entered, threadVars, mainVars
  <2> QED BY <1>3, <2>4, <2>5, <2>6, <2>7 DEF IInv
<1>6. CASE CountIn(s)
  <2>1. /\ searcher[s] = "wait" /\ search_mutex_counter # -1
        /\ searcher' = [searcher EXCEPT ![s] = "counted"]
        /\ entered' = [entered EXCEPT ![s] = copies]
        /\ search_mutex_counter' = search_mutex_counter + 1
    BY <1>6 DEF CountIn, MaySearch, Goes
  <2>2. ~Exclusive /\ search_mutex_counter = Cardinality(Counted)
    BY <2>1 DEF IInv, CounterMatches
  <2>3. Counted' = Counted \cup {s} /\ s \notin Counted
    BY <1>2, <2>1 DEF Counted
  <2>4. Cardinality(Counted') = search_mutex_counter + 1
    BY <1>4, <2>2, <2>3, FS_AddElement
  <2>5. CounterMatches'
    BY <1>1, <2>1, <2>2, <2>4 DEF CounterMatches, Exclusive, threadVars
  <2>6. search_mutex_counter' \in Nat
    BY <1>4, <2>1, <2>2
  <2>7. TypeOK'
    BY <1>1, <1>2, <2>1, <2>6 DEF IInv, TypeOK, treeVars, sharedVars, threadVars, mainVars
  <2>8. Uncounted'
    BY <1>1, <1>2, <1>3, <2>1 DEF IInv, Uncounted, sharedVars, mainVars
  <2>9. Entered'
    BY <1>1, <1>2, <1>3, <2>1 DEF IInv, Entered, threadVars, mainVars
  <2> QED BY <1>3, <2>5, <2>7, <2>8, <2>9 DEF IInv
<1>7. CASE FinishSearch(s)
  <2>1. /\ searcher[s] \in {"counted", "uncounted"}
        /\ searcher' = [searcher EXCEPT ![s] = "off"]
        /\ search_mutex_counter' = CountedOut(s)
        /\ entered' = entered
    BY <1>7 DEF FinishSearch, Goes
  <2>2. CounterMatches' /\ search_mutex_counter' \in Nat \cup {-1}
    <3>1. CASE searcher[s] = "counted"
      <4>1. s \in Counted /\ Counted' = Counted \ {s}
        BY <1>2, <2>1, <3>1 DEF Counted
      <4>2. ~Exclusive /\ search_mutex_counter = Cardinality(Counted)
        BY <4>1 DEF IInv, CounterMatches
      <4>3. Cardinality(Counted') = Cardinality(Counted) - 1
        BY <1>4, <4>1, FS_RemoveElement
      <4>4. IsFiniteSet(Counted') /\ Cardinality(Counted') \in Nat
        BY <1>4, <4>1, FS_Subset, FS_CardinalityType
      <4>5. search_mutex_counter' = Cardinality(Counted')
        BY <2>1, <3>1, <4>2, <4>3 DEF CountedOut
      <4> QED BY <1>1, <4>2, <4>4, <4>5 DEF CounterMatches, Exclusive, threadVars
    <3>2. CASE searcher[s] = "uncounted"
      <4>1. Counted' = Counted
        BY <1>2, <2>1, <3>2 DEF Counted
      <4>2. search_mutex_counter' = search_mutex_counter
        BY <1>2, <2>1, <3>2 DEF CountedOut
      <4> QED BY <1>1, <1>2, <4>1, <4>2 DEF IInv, CounterMatches, Exclusive, threadVars
    <3> QED BY <2>1, <3>1, <3>2
  <2>3. TypeOK'
    BY <1>1, <1>2, <2>1, <2>2 DEF IInv, TypeOK, treeVars, sharedVars, threadVars, mainVars
  <2>4. Uncounted'
    BY <1>1, <1>2, <1>3, <2>1 DEF IInv, Uncounted, sharedVars, mainVars
  <2>5. Entered'
    BY <1>1, <1>2, <1>3, <2>1 DEF IInv, Entered, threadVars, mainVars
  <2> QED BY <1>3, <2>2, <2>3, <2>4, <2>5 DEF IInv
<1> QED BY <1>5, <1>6, <1>7 DEF Search

----------------------------------------------------------------------------
(* The rebuild thread.                                                     *)

(* Its steps outside the exclusive section, and into or out of it.         *)
LEMMA RebuildStep ==
  ASSUME KdAssumption, IInv, Rebuild
  PROVE  IInv'
<1> USE DEF treeVars, sharedVars, mainVars, searchVars
<1>1. /\ UNCHANGED <<mainVars, searcher, entered>>
      /\ Counted' = Counted
  BY DEF Rebuild, TakeRequest, LockSearch, Flatten, BuildNothing, BuildTree,
         PopOperation, RunOperation, LockSearchAgain, Swap, UnlockSearch, ClearFlag,
         DeleteOld, Counted
<1>2. CallShape'
  BY <1>1 DEF IInv, CallShape
<1>3. Requested' /\ (Rebuild_Ptr' => Rebuild_Ptr)
  BY DEF IInv, Requested, Rebuild, TakeRequest, LockSearch, Flatten, BuildNothing,
         BuildTree, PopOperation, RunOperation, LockSearchAgain, Swap, UnlockSearch,
         ClearFlag, DeleteOld
<1>4. Uncounted'
  BY <1>1, <1>3 DEF IInv, Uncounted
<1>5. CASE LockSearch \/ LockSearchAgain
  <2>1. /\ thread \in {"lockSearch", "drain"} /\ NoSearch
        /\ search_mutex_counter' = -1 /\ thread' \in {"flatten", "swap"}
        /\ UNCHANGED <<treeVars, sharedVars, newSub, operation, copies, errorPrinted>>
    BY <1>5 DEF LockSearch, LockSearchAgain
  <2>2. Counted = {}
    <3>1. Cardinality(Counted) = 0
      BY <2>1 DEF IInv, CounterMatches, Exclusive, NoSearch
    <3> QED BY <3>1, CountedFinite, FS_EmptySet
  <2>3. CounterMatches'
    BY <1>1, <2>1, <2>2 DEF CounterMatches, Exclusive
  <2>4. TypeOK'
    BY <1>1, <2>1 DEF IInv, TypeOK
  <2>5. Entered'
    BY <1>1, <2>1 DEF IInv, Entered
  <2> QED BY <1>2, <1>3, <1>4, <2>3, <2>4, <2>5 DEF IInv
<1>6. CASE Flatten \/ UnlockSearch
  <2>1. /\ thread \in {"flatten", "swapped"} /\ SearchFlagFree
        /\ search_mutex_counter' = 0 /\ thread' \in {"build", "clear"}
        /\ newSub' \in {sub, newSub} /\ Rebuild_Ptr' \in {Rebuild_Ptr, FALSE}
        /\ UNCHANGED <<treeVars, rebuild_flag, Rebuild_Logger, operation, copies,
                       errorPrinted>>
    BY <1>6 DEF Flatten, UnlockSearch
  <2>2. Counted = {}
    BY <2>1 DEF IInv, CounterMatches, Exclusive
  <2>3. CounterMatches'
    BY <1>1, <2>1, <2>2, FS_EmptySet DEF CounterMatches, Exclusive
  <2>4. TypeOK'
    <3>1. newSub' \subseteq Point /\ Rebuild_Ptr' \in BOOLEAN
      BY <2>1 DEF IInv, TypeOK
    <3> QED BY <1>1, <2>1, <3>1 DEF IInv, TypeOK
  <2>5. Entered'
    BY <1>1, <1>3, <2>1 DEF IInv, TypeOK, Entered, SearchFlagFree
  <2> QED BY <1>2, <1>3, <1>4, <2>3, <2>4, <2>5 DEF IInv
<1>7. CASE Swap
  <2>1. /\ thread = "swap" /\ thread' = "swapped"
        /\ sub' = newSub /\ copies' = copies + 1
        /\ UNCHANGED <<pending, reference, sharedVars, newSub, operation, errorPrinted,
                       search_mutex_counter>>
    BY <1>7 DEF Swap
  <2>2. CounterMatches'
    BY <1>1, <2>1 DEF IInv, CounterMatches, Exclusive
  <2>3. TypeOK'
    BY <1>1, <2>1 DEF IInv, TypeOK
  <2>4. Entered'
    <3>1. \A s \in Searcher : searcher[s] \notin {"counted", "uncounted"}
      BY <2>1 DEF IInv, CounterMatches, Exclusive, Counted, Uncounted, Requested
    <3>2. ~(main = "walk" /\ Target = "child")
      BY <2>1 DEF IInv, Entered, Requested
    <3> QED BY <1>1, <2>1, <3>1, <3>2 DEF Entered
  <2> QED BY <1>2, <1>3, <1>4, <2>2, <2>3, <2>4 DEF IInv
<1>8. CASE \/ TakeRequest \/ BuildNothing \/ BuildTree \/ PopOperation
           \/ RunOperation \/ ClearFlag \/ DeleteOld
  <2>1. /\ thread \in {"idle", "build", "drain", "run", "clear", "free"}
        /\ thread' \in {"lockSearch", "crashed", "drain", "run", "free", "idle"}
        /\ UNCHANGED <<treeVars, Rebuild_Ptr, copies, search_mutex_counter>>
    BY <1>8 DEF TakeRequest, BuildNothing, BuildTree, PopOperation, RunOperation,
                ClearFlag, DeleteOld
  <2>2. /\ rebuild_flag' \in BOOLEAN /\ errorPrinted' \in BOOLEAN
        /\ newSub' \in SUBSET Point /\ operation' \in Operation
        /\ Rebuild_Logger' \in Seq(Operation)
    <3>1. CASE PopOperation
      <4>1. /\ Rebuild_Logger \in Seq(Operation) /\ Rebuild_Logger # <<>>
        BY <3>1 DEF PopOperation, IInv, TypeOK
      <4>2. Head(Rebuild_Logger) \in Operation /\ Tail(Rebuild_Logger) \in Seq(Operation)
        BY <4>1, EmptySeq
      <4> QED BY <3>1, <4>2 DEF PopOperation, IInv, TypeOK
    <3>2. CASE RunOperation
      BY <3>2, ApplyType DEF RunOperation, IInv, TypeOK
    <3>3. CASE TakeRequest \/ BuildNothing \/ BuildTree \/ ClearFlag \/ DeleteOld
      BY <3>3 DEF TakeRequest, BuildNothing, BuildTree, ClearFlag, DeleteOld, IInv,
                  TypeOK
    <3> QED BY <1>8, <3>1, <3>2, <3>3
  <2>3. TypeOK'
    BY <1>1, <2>1, <2>2 DEF IInv, TypeOK
  <2>4. CounterMatches'
    BY <1>1, <2>1 DEF IInv, CounterMatches, Exclusive
  <2>5. Entered'
    BY <1>1, <2>1 DEF IInv, Entered
  <2> QED BY <1>2, <1>3, <1>4, <2>3, <2>4, <2>5 DEF IInv
<1> QED BY <1>5, <1>6, <1>7, <1>8 DEF Rebuild

----------------------------------------------------------------------------

LEMMA NextIInv ==
  ASSUME KdAssumption, IInv, [Next]_vars
  PROVE  IInv'
<1>1. CASE UNCHANGED vars
  <2>1. CounterMatches'
    BY <1>1, CounterUnchanged
       DEF IInv, vars, threadVars, searchVars
  <2> QED BY <1>1, <2>1 DEF IInv, TypeOK, Uncounted, Requested, CallShape, Entered,
                            vars, treeVars, sharedVars, threadVars, mainVars, searchVars
<1>2. CASE Working
  BY <1>2, PushDownStep, WalkStep, ApplyStep DEF Working
<1>3. CASE Next /\ ~Working
  BY <1>3, StartCallStep, RebuildStep, SearchStep DEF Next
<1> QED BY <1>1, <1>2, <1>3 DEF Next

(* The strengthening is inductive.                                         *)
THEOREM Invariance == Spec => []IInv
<1>1. Init => IInv
  BY InitIInv, KdAssumption
<1>2. IInv /\ [Next]_vars => IInv'
  BY NextIInv, KdAssumption
<1> QED BY <1>1, <1>2, PTL DEF Spec

(* Every variable keeps its type: the counter of searches never falls      *)
(* below -1, the logger holds operations on points of the map.             *)
THEOREM TypeCorrect == Spec => []TypeOK
<1>1. IInv => TypeOK
  BY DEF IInv
<1> QED BY <1>1, Invariance, PTL

(* No nearest search is inside the subtree while it is flattened or        *)
(* replaced, for any number of searching threads.                          *)
THEOREM SearchesExcluded == Spec => []SearchExclusion
<1>1. IInv => SearchExclusion
  BY DEF IInv, SearchExclusion, CounterMatches, Exclusive, Counted, Uncounted, Requested
<1> QED BY <1>1, Invariance, PTL

(* Nobody walks nodes the rebuild thread deletes: searches anywhere, and   *)
(* lookups of the mapping thread under a father.                           *)
THEOREM DeletedNotWalked == Spec => []NoWalkOfDeleted
<1>1. IInv => NoWalkOfDeleted
  BY DEF IInv, NoWalkOfDeleted, Entered
<1> QED BY <1>1, Invariance, PTL

----------------------------------------------------------------------------
(* A rebuild of a subtree under a father loses, repeats and reorders no    *)
(* update.  The argument is that the copy and the log together always make *)
(* the subtree.  What replaying a log of any length makes of a set is said *)
(* point by point, by the last operation of the log that is about the      *)
(* point: no induction over the log is needed to append to it or to take   *)
(* its first operation out.                                                *)

(* The points that are in s once the operations of os have been applied.   *)
Replayed(s, os) ==
  {p \in Point :
     \/ \E i \in 1..Len(os) :
          /\ os[i].op = "add" /\ p \in os[i].points
          /\ \A j \in 1..Len(os) : j > i => p \notin os[j].points
     \/ p \in s /\ \A j \in 1..Len(os) : p \notin os[j].points}

(* The call works on the subtree only with the father's deletion pushed    *)
(* down, and without the lock only while no rebuild is asked for.          *)
OnSubtree ==
  /\ main \in {"check", "walkLock", "walk", "walkLocked", "apply", "applyFree",
               "applyLock"} => ~pending
  /\ main = "applyFree" => ~Rebuild_Ptr

Flagged ==
  thread \in {"lockSearch", "flatten", "build", "drain", "run", "swap", "swapped"}
    => rebuild_flag

(* The father still carries what the mapping thread waits to push down.    *)
Waiting == main = "pushLock" => pending

(* From the copy to the swap: the copy, the operation taken out of the log *)
(* and the log make the subtree.                                           *)
CopyFollows ==
  ~errorPrinted =>
    /\ thread \in {"lockSearch", "flatten", "swap", "swapped"} => Rebuild_Logger = <<>>
    /\ thread \in {"build", "drain"} => sub = Replayed(newSub, Rebuild_Logger)
    /\ thread = "run" => sub = Replayed(Apply(newSub, operation), Rebuild_Logger)
    /\ thread \in {"swap", "swapped"} => sub = newSub

ReplayInv == OnSubtree /\ Waiting /\ Flagged /\ CopyFollows /\ UpdatesKept

----------------------------------------------------------------------------
(* Replaying a log.                                                        *)

LEMMA ReplayEmpty ==
  ASSUME NEW s \in SUBSET Point
  PROVE  Replayed(s, <<>>) = s
BY DEF Replayed

(* An operation logged last is applied last.                               *)
LEMMA ReplayAppend ==
  ASSUME NEW s \in SUBSET Point, NEW os \in Seq(Operation), NEW o \in Operation
  PROVE  Replayed(s, os \o <<o>>) = Apply(Replayed(s, os), o)
<1> DEFINE all == os \o <<o>>
           n == Len(os)
<1>1. /\ n \in Nat /\ Len(all) = n + 1 /\ all[n + 1] = o
      /\ \A i \in 1..n : all[i] = os[i]
  OBVIOUS
<1>2. o.op \in {"add", "delete"} /\ o.points \in SUBSET Point
  BY DEF Operation
<1> HIDE DEF all, n
<1>3. ASSUME NEW p \in Point
      PROVE  p \in Replayed(s, all) <=> p \in Apply(Replayed(s, os), o)
  <2>1. CASE p \in o.points
    <3>1. \A i \in 1..n : ~(\A j \in 1..(n + 1) : j > i => p \notin all[j].points)
      BY <1>1, <2>1
    <3>2. p \in Replayed(s, all) <=> o.op = "add"
      BY <1>1, <2>1, <3>1 DEF Replayed
    <3> QED BY <1>2, <2>1, <3>2 DEF Apply
  <2>2. CASE p \notin o.points
    <3>1. p \in Apply(Replayed(s, os), o) <=> p \in Replayed(s, os)
      BY <2>2 DEF Apply
    <3>2. (\A j \in 1..(n + 1) : p \notin all[j].points)
            <=> (\A j \in 1..n : p \notin os[j].points)
      BY <1>1, <2>2
    <3>3. ASSUME NEW i \in 1..n
          PROVE  (\A j \in 1..(n + 1) : j > i => p \notin all[j].points)
                   <=> (\A j \in 1..n : j > i => p \notin os[j].points)
      BY <1>1, <2>2
    <3>4. p \in Replayed(s, all) <=> p \in Replayed(s, os)
      BY <1>1, <2>2, <3>2, <3>3 DEF Replayed, n
    <3> QED BY <3>1, <3>4
  <2> QED BY <2>1, <2>2
<1>4. Replayed(s, all) \subseteq Point /\ Apply(Replayed(s, os), o) \subseteq Point
  BY <1>2 DEF Replayed, Apply
<1>5. Replayed(s, all) = Apply(Replayed(s, os), o)
  BY <1>3, <1>4
<1> QED BY <1>5 DEF all

(* The first operation of a log may be applied before the rest is.         *)
LEMMA ReplayHead ==
  ASSUME NEW s \in SUBSET Point, NEW os \in Seq(Operation), os # <<>>
  PROVE  Replayed(s, os) = Replayed(Apply(s, Head(os)), Tail(os))
<1> DEFINE o == Head(os)
           rest == Tail(os)
           n == Len(rest)
<1>1. /\ n \in Nat /\ Len(os) = n + 1 /\ os[1] = o
      /\ \A i \in 1..n : rest[i] = os[i + 1]
      /\ o \in Operation
  BY EmptySeq
<1>2. o.op \in {"add", "delete"} /\ o.points \in SUBSET Point
  BY <1>1 DEF Operation
<1> HIDE DEF o, rest, n
<1>3. ASSUME NEW p \in Point
      PROVE  p \in Replayed(s, os) <=> p \in Replayed(Apply(s, o), rest)
  <2> DEFINE Last(i) == /\ os[i].op = "add" /\ p \in os[i].points
                        /\ \A j \in 1..(n + 1) : j > i => p \notin os[j].points
             LastOfRest(i) == /\ rest[i].op = "add" /\ p \in rest[i].points
                              /\ \A j \in 1..n : j > i => p \notin rest[j].points
             None == \A j \in 1..n : p \notin rest[j].points
  <2>1. p \in Replayed(s, os) <=>
          \/ \E i \in 1..(n + 1) : Last(i)
          \/ p \in s /\ \A j \in 1..(n + 1) : p \notin os[j].points
    BY <1>1 DEF Replayed
  <2>2. p \in Replayed(Apply(s, o), rest) <=>
          (\E i \in 1..n : LastOfRest(i)) \/ (p \in Apply(s, o) /\ None)
    BY DEF Replayed, n
  <2>3. ASSUME NEW i \in 1..n
        PROVE  Last(i + 1) <=> LastOfRest(i)
    <3>1. (\A j \in 1..(n + 1) : j > i + 1 => p \notin os[j].points)
            <=> (\A j \in 1..n : j > i => p \notin rest[j].points)
      <4>1. ASSUME \A j \in 1..(n + 1) : j > i + 1 => p \notin os[j].points,
                   NEW j \in 1..n, j > i
            PROVE  p \notin rest[j].points
        <5>1. j + 1 \in 1..(n + 1) /\ j + 1 > i + 1
          BY <1>1, <4>1
        <5> QED BY <1>1, <4>1, <5>1
      <4>2. ASSUME \A j \in 1..n : j > i => p \notin rest[j].points,
                   NEW j \in 1..(n + 1), j > i + 1
            PROVE  p \notin os[j].points
        <5>1. j - 1 \in 1..n /\ j - 1 > i /\ (j - 1) + 1 = j
          BY <1>1, <4>2
        <5> QED BY <1>1, <4>2, <5>1
      <4> QED BY <4>1, <4>2
    <3> QED BY <1>1, <3>1
  <2>4. None <=> \A j \in 1..(n + 1) : j > 1 => p \notin os[j].points
    <3>1. ASSUME None, NEW j \in 1..(n + 1), j > 1
          PROVE  p \notin os[j].points
      <4>1. j - 1 \in 1..n /\ (j - 1) + 1 = j
        BY <1>1, <3>1
      <4> QED BY <1>1, <3>1, <4>1
    <3>2. ASSUME \A j \in 1..(n + 1) : j > 1 => p \notin os[j].points, NEW j \in 1..n
          PROVE  p \notin rest[j].points
      <4>1. j + 1 \in 1..(n + 1) /\ j + 1 > 1
        BY <1>1
      <4> QED BY <1>1, <3>2, <4>1
    <3> QED BY <3>1, <3>2
  <2>5. (\E i \in 1..(n + 1) : Last(i)) <=> Last(1) \/ \E i \in 1..n : LastOfRest(i)
    <3>1. ASSUME NEW i \in 1..(n + 1), i # 1, Last(i)
          PROVE  \E k \in 1..n : LastOfRest(k)
      <4>1. i - 1 \in 1..n /\ (i - 1) + 1 = i
        BY <1>1, <3>1
      <4> HIDE DEF Last, LastOfRest
      <4> QED BY <2>3, <3>1, <4>1
    <3>2. 1 \in 1..(n + 1) /\ \A k \in 1..n : k + 1 \in 1..(n + 1)
      BY <1>1
    <3> HIDE DEF Last, LastOfRest
    <3> QED BY <2>3, <3>1, <3>2
  <2>6. Last(1) <=> o.op = "add" /\ p \in o.points /\ None
    BY <1>1, <2>4
  <2>7. (\A j \in 1..(n + 1) : p \notin os[j].points) <=> p \notin o.points /\ None
    BY <1>1, <2>4
  <2>8. p \in Apply(s, o) <=> (o.op = "add" /\ p \in o.points) \/ (p \in s /\ p \notin o.points)
    BY <1>2 DEF Apply
  <2> HIDE DEF Last, LastOfRest, None
  <2> QED BY <2>1, <2>2, <2>5, <2>6, <2>7, <2>8
<1>4. Replayed(s, os) \subseteq Point /\ Replayed(Apply(s, o), rest) \subseteq Point
  BY DEF Replayed
<1>5. Replayed(s, os) = Replayed(Apply(s, o), rest)
  BY <1>3, <1>4
<1> QED BY <1>5 DEF o, rest

----------------------------------------------------------------------------
(* The steps.                                                              *)

LEMMA ReplayInit ==
  ASSUME Init
  PROVE  ReplayInv
BY DEF Init, ReplayInv, OnSubtree, Waiting, Flagged, CopyFollows, UpdatesKept, Content

(* Steps that leave the subtree, what is asked for and the rebuild alone.  *)
LEMMA ReplayKept ==
  ASSUME ReplayInv, UNCHANGED <<treeVars, sharedVars, threadVars>>,
         main' \in {"check", "walkLock", "walk", "walkLocked", "apply", "applyFree",
                    "applyLock"} => ~pending,
         main' = "applyFree" => ~Rebuild_Ptr,
         main' = "pushLock" => pending
  PROVE  ReplayInv'
BY DEF ReplayInv, OnSubtree, Waiting, Flagged, CopyFollows, UpdatesKept, Content, Alive,
       treeVars, sharedVars, threadVars

(* While no rebuild is asked for, nothing ties the subtree to a copy.      *)
LEMMA FreeStep ==
  ASSUME IInv, ReplayInv, ~Rebuild_Ptr,
         UNCHANGED <<rebuild_flag, Rebuild_Logger, threadVars>>
  PROVE  Flagged' /\ CopyFollows'
<1>1. thread \notin {"lockSearch", "flatten", "build", "drain", "run", "swap", "swapped"}
  BY DEF IInv, Requested
<1> QED BY <1>1 DEF Flagged, CopyFollows, threadVars

(* An operation under working_flag_mutex is logged whenever a copy exists. *)
LEMMA LockedStep ==
  ASSUME IInv, ReplayInv, NEW o \in Operation, ~WorkingFlagHeld,
         sub' = Apply(sub, o), LogIfRebuilding(<<o>>),
         UNCHANGED <<rebuild_flag, threadVars>>
  PROVE  Flagged' /\ CopyFollows'
<1>1. thread \notin {"lockSearch", "flatten", "drain", "swap", "swapped"}
  BY DEF WorkingFlagHeld
<1>2. Flagged'
  BY DEF ReplayInv, Flagged, threadVars
<1>3. ASSUME ~errorPrinted, thread = "build"
      PROVE  sub' = Replayed(newSub, Rebuild_Logger')
  <2>1. Rebuild_Logger' = Rebuild_Logger \o <<o>>
    BY <1>3 DEF ReplayInv, Flagged, LogIfRebuilding
  <2>2. newSub \in SUBSET Point /\ Rebuild_Logger \in Seq(Operation)
    BY DEF IInv, TypeOK
  <2>3. sub = Replayed(newSub, Rebuild_Logger)
    BY <1>3 DEF ReplayInv, CopyFollows
  <2> QED BY <2>1, <2>2, <2>3, ReplayAppend
<1>4. ASSUME ~errorPrinted, thread = "run"
      PROVE  sub' = Replayed(Apply(newSub, operation), Rebuild_Logger')
  <2>1. Rebuild_Logger' = Rebuild_Logger \o <<o>>
    BY <1>4 DEF ReplayInv, Flagged, LogIfRebuilding
  <2>2. Apply(newSub, operation) \in SUBSET Point /\ Rebuild_Logger \in Seq(Operation)
    BY ApplyType DEF IInv, TypeOK
  <2>3. sub = Replayed(Apply(newSub, operation), Rebuild_Logger)
    BY <1>4 DEF ReplayInv, CopyFollows
  <2> QED BY <2>1, <2>2, <2>3, ReplayAppend
<1>5. CopyFollows'
  BY <1>1, <1>3, <1>4 DEF CopyFollows, threadVars
<1> QED BY <1>2, <1>5

LEMMA PushDownReplay ==
  ASSUME IInv, ReplayInv, PushDown \/ PushDownLocked
  PROVE  ReplayInv'
<1> USE DEF Content, Alive, threadVars, sharedVars
<1>1. CASE PushDown /\ UNCHANGED <<sub, pending>>
  <2>1. main' \in {"check", "apply"} => ~pending
    BY <1>1 DEF PushDown, Afterwards
  <2>3. main' = "pushLock" => pending
    BY <1>1 DEF PushDown, Afterwards
  <2>2. main' \in {"check", "apply", "idle", "push", "pushLock"}
    BY <1>1 DEF PushDown, Afterwards
  <2> QED BY <1>1, <2>1, <2>2, <2>3, ReplayKept DEF PushDown, treeVars
<1>2. CASE PushDown /\ ~UNCHANGED <<sub, pending>>
  <2>1. /\ pending /\ ~Rebuild_Ptr /\ sub' = {} /\ ~pending'
        /\ main' \in {"check", "apply"}
    BY <1>2 DEF PushDown, Afterwards
  <2>2. Flagged' /\ CopyFollows'
    BY <1>2, <2>1, FreeStep DEF PushDown
  <2>3. OnSubtree' /\ Waiting' /\ UpdatesKept'
    BY <1>2, <2>1 DEF Waiting, PushDown, ReplayInv, OnSubtree, UpdatesKept
  <2> QED BY <2>2, <2>3 DEF ReplayInv
<1>3. CASE PushDownLocked
  <2>1. pending
    BY <1>3 DEF PushDownLocked, At, ReplayInv, Waiting
  <2>2. Delete(Point) \in Operation /\ sub' = Apply(sub, Delete(Point))
    BY <1>3 DEF PushDownLocked, IInv, TypeOK, Delete, Operation, Apply
  <2>3. Flagged' /\ CopyFollows'
    BY <1>3, <2>2, LockedStep DEF PushDownLocked
  <2>4. OnSubtree' /\ Waiting' /\ UpdatesKept'
    BY <1>3, <2>1 DEF Waiting, PushDownLocked, Afterwards, ReplayInv, OnSubtree, UpdatesKept
  <2> QED BY <2>3, <2>4 DEF ReplayInv
<1> QED BY <1>1, <1>2, <1>3

LEMMA WalkReplay ==
  ASSUME ReplayInv, CheckWalk \/ LockWalk \/ FinishWalk \/ JoinSearches
  PROVE  ReplayInv'
<1>1. UNCHANGED <<treeVars, sharedVars, threadVars>>
  BY DEF CheckWalk, LockWalk, FinishWalk, JoinSearches
<1>2. CASE CheckWalk \/ LockWalk
  BY <1>1, <1>2, ReplayKept DEF CheckWalk, LockWalk, At, ReplayInv, OnSubtree
<1>3. CASE FinishWalk \/ JoinSearches
  <2>1. main' \in {"push", "idle"}
    BY <1>3 DEF FinishWalk, JoinSearches
  <2> QED BY <1>1, <2>1, ReplayKept
<1> QED BY <1>2, <1>3

LEMMA ApplyReplay ==
  ASSUME Target = "child", IInv, ReplayInv,
         CoverFather \/ Decide \/ ApplyFree \/ ApplyLocked
  PROVE  ReplayInv'
<1> USE DEF At
<1>1. CASE CoverFather
  <2>1. Flagged' /\ CopyFollows'
    BY <1>1 DEF CoverFather, sharedVars, threadVars, ReplayInv, Flagged, CopyFollows
  <2>2. OnSubtree' /\ Waiting' /\ UpdatesKept'
    BY <1>1 DEF CoverFather, OnSubtree, Waiting, UpdatesKept, Content
  <2> QED BY <2>1, <2>2 DEF ReplayInv
<1>2. CASE Decide
  <2>1. UNCHANGED <<treeVars, sharedVars, threadVars>> /\ ~pending
    BY <1>2 DEF Decide, ReplayInv, OnSubtree
  <2>2. main' \in {"applyLock", "applyFree"} /\ (main' = "applyFree" => ~Rebuild_Ptr)
    BY <1>2 DEF Decide
  <2> QED BY <2>1, <2>2, ReplayKept
<1>3. CASE ApplyFree
  <2>1. ~pending /\ ~pending' /\ ~Rebuild_Ptr
    BY <1>3 DEF ApplyFree, ReplayInv, OnSubtree
  <2>2. Flagged' /\ CopyFollows'
    BY <1>3, <2>1, FreeStep DEF ApplyFree
  <2>3. main' \in {"push", "idle"}
    BY <1>3 DEF ApplyFree
  <2>4. UpdatesKept'
    BY <1>3, <2>1 DEF ApplyFree, ReplayInv, UpdatesKept, Content, Alive, threadVars
  <2> QED BY <2>2, <2>3, <2>4 DEF ReplayInv, OnSubtree, Waiting
<1>4. CASE ApplyLocked
  <2>1. ~pending /\ ~pending'
    BY <1>4 DEF ApplyLocked, ReplayInv, OnSubtree
  <2>2. Len(todo) > 0
    BY <1>4 DEF ApplyLocked, IInv, CallShape
  <2>3. Head(todo) \in Operation /\ Len(<<Head(todo)>>) = 1
    BY <2>2, TodoFacts DEF IInv
  <2>4. /\ sub' = ApplyAll(sub, <<Head(todo)>>)
        /\ reference' = ApplyAll(reference, <<Head(todo)>>)
        /\ LogIfRebuilding(<<Head(todo)>>)
        /\ ~WorkingFlagHeld /\ UNCHANGED <<rebuild_flag, threadVars>>
    BY <1>4 DEF ApplyLocked
  <2>5. sub' = Apply(sub, Head(todo)) /\ reference' = Apply(reference, Head(todo))
    BY <2>3, <2>4 DEF ApplyAll
  <2>6. Flagged' /\ CopyFollows'
    BY <2>3, <2>4, <2>5, LockedStep
  <2>7. main' \in {"push", "idle"}
    BY <1>4 DEF ApplyLocked
  <2>8. UpdatesKept'
    BY <2>1, <2>4, <2>5 DEF ReplayInv, UpdatesKept, Content, Alive, threadVars
  <2> QED BY <2>6, <2>7, <2>8 DEF ReplayInv, OnSubtree, Waiting
<1> QED BY <1>1, <1>2, <1>3, <1>4

(* Calls begin, and searches run, without touching the tree.               *)
LEMMA OtherReplay ==
  ASSUME ReplayInv, \/ UpdatePoints \/ AddDownsampled \/ StartSearches
                    \/ \E s \in Searcher : Search(s)
  PROVE  ReplayInv'
<1>1. CASE UpdatePoints \/ AddDownsampled \/ StartSearches
  <2>1. UNCHANGED <<treeVars, sharedVars, threadVars>> /\ main' \in {"push", "search"}
    BY <1>1 DEF UpdatePoints, AddDownsampled, StartSearches, Call
  <2> QED BY <2>1, ReplayKept
<1>2. CASE \E s \in Searcher : Search(s)
  <2>1. UNCHANGED <<treeVars, sharedVars, threadVars, mainVars>>
    BY <1>2 DEF Search, CheckSearch, CountIn, FinishSearch
  <2> QED BY <2>1, ReplayKept DEF mainVars, ReplayInv, OnSubtree, Waiting
<1> QED BY <1>1, <1>2

LEMMA RebuildReplay ==
  ASSUME IInv, ReplayInv, Rebuild
  PROVE  ReplayInv'
<1> USE DEF ReplayInv
<1>1. CASE TakeRequest
  BY <1>1 DEF TakeRequest, treeVars, mainVars, OnSubtree, Waiting, Flagged,
              CopyFollows, UpdatesKept, Content, Alive
<1>2. CASE LockSearch \/ BuildNothing \/ BuildTree
  <2>1. Flagged' /\ CopyFollows'
    BY <1>2 DEF LockSearch, BuildNothing, BuildTree, treeVars, sharedVars, Flagged,
                CopyFollows
  <2> QED BY <1>2, <2>1 DEF LockSearch, BuildNothing, BuildTree, treeVars, sharedVars,
             mainVars, OnSubtree, Waiting, UpdatesKept, Content, Alive
<1>3. CASE Flatten
  <2>1. ~errorPrinted => sub' = Replayed(newSub', Rebuild_Logger')
    BY <1>3, ReplayEmpty DEF Flatten, treeVars, sharedVars, CopyFollows, IInv, TypeOK
  <2> QED BY <1>3, <2>1 DEF Flatten, treeVars, sharedVars, mainVars, OnSubtree, Waiting,
             Flagged, CopyFollows, UpdatesKept, Content, Alive
<1>4. CASE PopOperation
  <2>1. newSub \in SUBSET Point /\ Rebuild_Logger \in Seq(Operation)
    BY DEF IInv, TypeOK
  <2>2. ~errorPrinted => sub' = Replayed(Apply(newSub', operation'), Rebuild_Logger')
    BY <1>4, <2>1, ReplayHead DEF PopOperation, treeVars, CopyFollows
  <2> QED BY <1>4, <2>2 DEF PopOperation, treeVars, mainVars, OnSubtree, Waiting,
             Flagged, CopyFollows, UpdatesKept, Content, Alive
<1>5. CASE RunOperation
  BY <1>5 DEF RunOperation, treeVars, sharedVars, mainVars, OnSubtree, Waiting, Flagged,
              CopyFollows, UpdatesKept, Content, Alive
<1>6. CASE LockSearchAgain
  <2>1. ~errorPrinted => sub' = newSub'
    BY <1>6, ReplayEmpty DEF LockSearchAgain, treeVars, CopyFollows, IInv, TypeOK
  <2> QED BY <1>6, <2>1 DEF LockSearchAgain, treeVars, sharedVars, mainVars, OnSubtree,
             Waiting, Flagged, CopyFollows, UpdatesKept, Content, Alive
<1>7. CASE Swap
  BY <1>7 DEF Swap, sharedVars, mainVars, OnSubtree, Waiting, Flagged, CopyFollows,
              UpdatesKept, Content, Alive
<1>8. CASE UnlockSearch \/ ClearFlag \/ DeleteOld
  <2>1. Flagged' /\ CopyFollows'
    BY <1>8 DEF UnlockSearch, ClearFlag, DeleteOld, Flagged, CopyFollows
  <2> QED BY <1>8, <2>1 DEF UnlockSearch, ClearFlag, DeleteOld, treeVars, sharedVars,
             mainVars, OnSubtree, Waiting, UpdatesKept, Content, Alive
<1> QED BY <1>1, <1>2, <1>3, <1>4, <1>5, <1>6, <1>7, <1>8 DEF Rebuild

LEMMA NextReplay ==
  ASSUME Target = "child", IInv, ReplayInv, [Next]_vars
  PROVE  ReplayInv'
<1>1. CASE UNCHANGED vars
  BY <1>1, ReplayKept DEF vars, mainVars, ReplayInv, OnSubtree, Waiting
<1>2. CASE Working
  BY <1>2, PushDownReplay, WalkReplay, ApplyReplay DEF Working
<1>3. CASE Next /\ ~Working
  BY <1>3, OtherReplay, RebuildReplay DEF Next
<1> QED BY <1>1, <1>2, <1>3 DEF Next

(* A rebuild of a subtree under a father keeps every update: as long as no *)
(* rebuild met entries of an earlier one, the subtree holds what the calls *)
(* made of it.  Of a rebuild of the whole tree it does not hold: the run   *)
(* kdtree_missed shows the addition that is missed.                        *)
THEOREM RebuildKeepsUpdates == Target = "child" /\ Spec => []UpdatesKept
<1> SUFFICES ASSUME Target = "child" PROVE Spec => []UpdatesKept
  OBVIOUS
<1>1. Init => ReplayInv
  BY ReplayInit
<1>2. IInv /\ ReplayInv /\ [Next]_vars => ReplayInv'
  BY NextReplay
<1>3. ReplayInv => UpdatesKept
  BY DEF ReplayInv
<1> QED BY <1>1, <1>2, <1>3, Invariance, PTL DEF Spec
=============================================================================
