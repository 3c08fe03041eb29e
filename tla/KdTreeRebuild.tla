--------------------------- MODULE KdTreeRebuild ---------------------------
(***************************************************************************)
(* The parallel rebuild of the ikd-Tree FAST-LIO keeps its map in.  The    *)
(* mapping thread updates the tree and, between updates, searches it from  *)
(* several OpenMP threads; a rebuild thread copies the subtree Rebuild_Ptr *)
(* designates, builds a balanced copy, replays on it the updates logged    *)
(* meanwhile and puts it in place of the old one.                          *)
(*                                                                         *)
(* The model follows that one subtree: sub is the set of points it holds,  *)
(* and pending says that the father carries a deletion it has not pushed   *)
(* down yet.  Points outside it are left out.  Target says whether the     *)
(* subtree is the whole tree ("root") or hangs under a father ("child").   *)
(* A section the mapping thread runs under working_flag_mutex is one step: *)
(* the mutex is kept over several steps by the rebuild thread only, and    *)
(* rebuild_logger_mutex is only taken inside it.                           *)
(***************************************************************************)
EXTENDS Integers, Sequences, FiniteSets

CONSTANTS Point,        \* the points of the map
          Cell,         \* the downsampling boxes, a partition of Point
          Rank,         \* the order of the distances to the centre of the box
          Searcher,     \* the OpenMP threads of a scan's nearest searches
          Target,       \* "root" or "child"
          NoPoint,
          MaxCalls,     \* bound: update calls and search phases
          MaxRebuilds   \* bound: rebuilds requested

ASSUME KdAssumption ==
  /\ IsFiniteSet(Searcher)
  /\ Target \in {"root", "child"}
  /\ NoPoint \notin Point
  /\ \A p \in Point : \E c \in Cell : p \in c
  /\ \A c \in Cell : c \subseteq Point
  /\ Rank \in [Point -> Nat]
  /\ MaxCalls \in Nat /\ MaxRebuilds \in Nat

VARIABLES sub, pending,
          Rebuild_Ptr,     \* TRUE: it designates the subtree; FALSE: nullptr
          rebuild_flag, Rebuild_Logger, search_mutex_counter,
          thread,          \* where the rebuild thread is
          newSub,          \* the points of new_root_node
          operation,       \* the entry it took from the logger
          main, candidate, todo,  \* the mapping thread and its current call
          searcher,
          entered,         \* which copy of the subtree each reader walks
          copies,          \* how many times the subtree has been replaced
          errorPrinted,    \* the rebuild thread found a stale entry
          reference,       \* what the subtree holds by the calls alone
          calls

treeVars == <<sub, pending, reference>>
sharedVars == <<Rebuild_Ptr, rebuild_flag, Rebuild_Logger>>
threadVars == <<thread, newSub, operation, copies, errorPrinted>>
mainVars == <<main, candidate, todo, calls>>
searchVars == <<searcher, entered, search_mutex_counter>>
vars == <<treeVars, sharedVars, threadVars, mainVars, searchVars>>

Mapping == "mapping"
Reader == Searcher \cup {Mapping}

Add(p) == [op |-> "add", points |-> {p}]
Delete(ps) == [op |-> "delete", points |-> ps]
Operation == [op : {"add", "delete"}, points : SUBSET Point]

Apply(s, o) == IF o.op = "add" THEN s \cup o.points ELSE s \ o.points

(* A downsampled insertion is at most a deletion and an insertion. *)
ApplyAll(s, os) ==
  IF Len(os) = 1 THEN Apply(s, os[1]) ELSE Apply(Apply(s, os[1]), os[2])

Content == IF pending THEN {} ELSE sub

Alive == thread # "crashed"

WorkingFlagHeld ==
  thread \in {"lockSearch", "flatten", "drain", "swap", "swapped"}

SearchFlagFree == main # "walkLocked"

(* Mutant: nothing is logged.                                              *)
LogNothing(os) == UNCHANGED Rebuild_Logger

LogIfRebuilding(os) ==
  Rebuild_Logger' = IF rebuild_flag THEN Rebuild_Logger \o os ELSE Rebuild_Logger

Init ==
  /\ sub = Point /\ reference = Point /\ pending = FALSE
  /\ Rebuild_Ptr = FALSE /\ rebuild_flag = FALSE /\ Rebuild_Logger = <<>>
  /\ thread = "idle" /\ newSub = {} /\ operation = Delete({})
  /\ copies = 0 /\ errorPrinted = FALSE
  /\ main = "idle" /\ candidate = NoPoint /\ todo = <<>> /\ calls = 0
  /\ searcher = [s \in Searcher |-> "off"]
  /\ entered = [t \in Reader |-> 0]
  /\ search_mutex_counter = 0

----------------------------------------------------------------------------
(* The mapping thread.                                                     *)

At(pc) == Alive /\ main = pc

Call == /\ At("idle") /\ calls < MaxCalls
        /\ calls' = calls + 1
        /\ UNCHANGED <<treeVars, sharedVars, threadVars>>

(* One iteration of Add_Points() without downsampling, Delete_Points() or  *)
(* Delete_Point_Boxes().  Points are a set: a point that is in the map is  *)
(* not inserted again.                                                     *)
UpdatePoints ==
  /\ Call
  /\ \E o \in {Add(p) : p \in Point \ Content}
              \cup {Delete({p}) : p \in Point}
              \cup {Delete(c) : c \in Cell \cup {Point}} :
       todo' = <<o>>
  /\ main' = "push"
  /\ UNCHANGED <<candidate, searchVars>>

(* One iteration of Add_Points() with downsampling: the points of the same *)
(* box are looked up first.                                                *)
AddDownsampled ==
  /\ Call
  /\ \E p \in Point : candidate' = p
  /\ main' = "push"
  /\ UNCHANGED <<todo, searchVars>>

(* Push_Down() of the father, on the way to the subtree; a deletion stops  *)
(* at a father that is deleted already.                                    *)
Afterwards == IF candidate # NoPoint THEN "check" ELSE "apply"

Deleting == candidate = NoPoint /\ Head(todo).op = "delete"

PushDown ==
  /\ At("push")
  /\ \/ /\ ~pending
        /\ main' = Afterwards
        /\ UNCHANGED <<sub, pending, todo>>
     \/ /\ pending /\ Deleting
        /\ todo' = Tail(todo)
        /\ main' = IF todo' = <<>> THEN "idle" ELSE "push"
        /\ UNCHANGED <<sub, pending>>
     \/ /\ pending /\ ~Deleting
        /\ IF Rebuild_Ptr
           THEN main' = "pushLock" /\ UNCHANGED <<sub, pending>>
           ELSE main' = Afterwards /\ sub' = {} /\ pending' = FALSE
        /\ UNCHANGED todo
  /\ UNCHANGED <<reference, sharedVars, threadVars, candidate, calls, searchVars>>

PushDownLocked ==
  /\ At("pushLock") /\ ~WorkingFlagHeld
  /\ sub' = {} /\ pending' = FALSE
  /\ LogIfRebuilding(<<Delete(Point)>>)
  /\ main' = Afterwards
  /\ UNCHANGED <<reference, Rebuild_Ptr, rebuild_flag, threadVars, candidate, todo,
                 calls, searchVars>>

(* Search_by_range() of the candidate's box: it holds search_flag_mutex    *)
(* while it walks a son that is being rebuilt, but does not look at        *)
(* search_mutex_counter; at the root it takes no lock at all.              *)
(* Mutant: no lock under a father either.                                  *)
NeverLocksWalk == FALSE

LocksWalk == Rebuild_Ptr /\ Target = "child"

CheckWalk ==
  /\ At("check")
  /\ main' = IF LocksWalk THEN "walkLock" ELSE "walk"
  /\ entered' = [entered EXCEPT ![Mapping] = copies]
  /\ UNCHANGED <<treeVars, sharedVars, threadVars, candidate, todo, calls, searcher,
                 search_mutex_counter>>

LockWalk ==
  /\ At("walkLock")
  /\ main' = "walkLocked"
  /\ entered' = [entered EXCEPT ![Mapping] = copies]
  /\ UNCHANGED <<treeVars, sharedVars, threadVars, candidate, todo, calls, searcher,
                 search_mutex_counter>>

Closest(found, p) ==
  LET closer == {q \in found : Rank[q] < Rank[p]}
  IN  IF closer = {} THEN {p}
      ELSE {q \in closer : \A x \in closer : Rank[q] <= Rank[x]}

FinishWalk ==
  /\ (At("walk") \/ At("walkLocked"))
  /\ \E cell \in Cell :
       /\ candidate \in cell
       /\ \E keep \in Closest(sub \cap cell, candidate) :
            IF Cardinality(sub \cap cell) > 1 \/ keep = candidate
            THEN /\ todo' = IF sub \cap cell = {} THEN <<Add(keep)>>
                            ELSE <<Delete(cell), Add(keep)>>
                 /\ main' = "push"
            ELSE main' = "idle" /\ UNCHANGED todo
  /\ candidate' = NoPoint
  /\ UNCHANGED <<treeVars, sharedVars, threadVars, calls, searchVars>>

(* A box that covers the father marks it deleted and goes no deeper.       *)
CoverFather ==
  /\ At("apply") /\ Target = "child" /\ Head(todo) = Delete(Point)
  /\ pending' = TRUE /\ reference' = {}
  /\ todo' = Tail(todo)
  /\ main' = "idle"
  /\ UNCHANGED <<sub, sharedVars, threadVars, candidate, calls, searchVars>>

(* Is the subtree being rebuilt?  At a son the question is asked for every *)
(* operation; Add_Points() asks it once for the deletion and the insertion *)
(* of a downsampled point at the root.                                     *)
Decide ==
  /\ At("apply") /\ ~(Target = "child" /\ Head(todo) = Delete(Point))
  /\ main' = IF Rebuild_Ptr THEN "applyLock" ELSE "applyFree"
  /\ UNCHANGED <<treeVars, sharedVars, threadVars, candidate, todo, calls, searchVars>>

(* The operation without lock or log; when it leaves the subtree off       *)
(* balance, Rebuild() asks the rebuild thread for it, unless that thread   *)
(* holds rebuild_ptr_mutex.                                                *)
ApplyFree ==
  /\ At("applyFree")
  /\ sub' = Apply(sub, Head(todo)) /\ reference' = Apply(reference, Head(todo))
  /\ todo' = Tail(todo)
  /\ main' = IF todo' = <<>> THEN "idle"
             ELSE IF Target = "child" THEN "push" ELSE "applyFree"
  /\ \/ UNCHANGED Rebuild_Ptr
     \/ thread = "idle" /\ copies < MaxRebuilds /\ Rebuild_Ptr' = TRUE
  /\ UNCHANGED <<pending, rebuild_flag, Rebuild_Logger, threadVars, candidate, calls,
                 searchVars>>

ApplyLocked ==
  /\ At("applyLock") /\ ~WorkingFlagHeld
  /\ LET os == IF Target = "root" THEN todo ELSE <<Head(todo)>>
     IN  /\ sub' = ApplyAll(sub, os) /\ reference' = ApplyAll(reference, os)
         /\ LogIfRebuilding(os)
         /\ todo' = IF Target = "root" THEN <<>> ELSE Tail(todo)
  /\ main' = IF todo' = <<>> THEN "idle" ELSE "push"
  /\ UNCHANGED <<pending, Rebuild_Ptr, rebuild_flag, threadVars, candidate, calls,
                 searchVars>>

(* The parallel loop of nearest searches of a scan.                        *)
StartSearches ==
  /\ Call
  /\ main' = "search"
  /\ searcher' = [s \in Searcher |-> "start"]
  /\ UNCHANGED <<candidate, todo, entered, search_mutex_counter>>

JoinSearches ==
  /\ At("search") /\ \A s \in Searcher : searcher[s] = "off"
  /\ main' = "idle"
  /\ UNCHANGED <<treeVars, sharedVars, threadVars, candidate, todo, calls, searchVars>>

----------------------------------------------------------------------------
(* The searching threads.                                                  *)

Goes(s, to) == searcher' = [searcher EXCEPT ![s] = to]

(* Search() turns back at a deleted father, and counts itself in only when *)
(* the subtree is the one to rebuild.                                      *)
CheckSearch(s) ==
  /\ Alive /\ searcher[s] = "start"
  /\ Goes(s, IF pending THEN "off"
             ELSE IF Rebuild_Ptr THEN "wait" ELSE "uncounted")
  /\ entered' = [entered EXCEPT ![s] = copies]
  /\ UNCHANGED <<treeVars, sharedVars, threadVars, mainVars, search_mutex_counter>>

(* Mutant: the flag -1 is not heeded.                                      *)
MayAlwaysSearch == TRUE

MaySearch == search_mutex_counter # -1

CountIn(s) ==
  /\ Alive /\ searcher[s] = "wait" /\ MaySearch
  /\ Goes(s, "counted")
  /\ entered' = [entered EXCEPT ![s] = copies]
  /\ search_mutex_counter' = search_mutex_counter + 1
  /\ UNCHANGED <<treeVars, sharedVars, threadVars, mainVars>>

(* Mutants: a search that did not count itself in counts itself out; none  *)
(* does.                                                                   *)
AllCountedOut(s) == search_mutex_counter - 1
NoneCountedOut(s) == search_mutex_counter

CountedOut(s) ==
  search_mutex_counter - (IF searcher[s] = "counted" THEN 1 ELSE 0)

FinishSearch(s) ==
  /\ Alive /\ searcher[s] \in {"counted", "uncounted"}
  /\ Goes(s, "off")
  /\ search_mutex_counter' = CountedOut(s)
  /\ UNCHANGED <<treeVars, sharedVars, threadVars, mainVars, entered>>

Search(s) == CheckSearch(s) \/ CountIn(s) \/ FinishSearch(s)

----------------------------------------------------------------------------
(* The rebuild thread.                                                     *)

TakeRequest ==
  /\ thread = "idle" /\ Rebuild_Ptr
  /\ errorPrinted' = (errorPrinted \/ Rebuild_Logger # <<>>)
  /\ rebuild_flag' = TRUE
  /\ thread' = "lockSearch"
  /\ UNCHANGED <<treeVars, Rebuild_Ptr, Rebuild_Logger, newSub, operation, copies,
                 mainVars, searchVars>>

NoSearch == search_mutex_counter = 0 /\ SearchFlagFree

LockSearch ==
  /\ thread = "lockSearch" /\ NoSearch
  /\ search_mutex_counter' = -1
  /\ thread' = "flatten"
  /\ UNCHANGED <<treeVars, sharedVars, newSub, operation, copies, errorPrinted,
                 mainVars, searcher, entered>>

Flatten ==
  /\ thread = "flatten" /\ SearchFlagFree
  /\ newSub' = sub
  /\ search_mutex_counter' = 0
  /\ thread' = "build"
  /\ UNCHANGED <<treeVars, sharedVars, operation, copies, errorPrinted, mainVars,
                 searcher, entered>>

(* Nothing to build: new_root_node is null, and is dereferenced.           *)
BuildNothing ==
  /\ thread = "build" /\ newSub = {} /\ NoSearch
  /\ thread' = "crashed"
  /\ UNCHANGED <<treeVars, sharedVars, newSub, operation, copies, errorPrinted,
                 mainVars, searchVars>>

BuildTree ==
  /\ thread = "build" /\ newSub # {}
  /\ thread' = "drain"
  /\ UNCHANGED <<treeVars, sharedVars, newSub, operation, copies, errorPrinted,
                 mainVars, searchVars>>

PopOperation ==
  /\ thread = "drain" /\ Rebuild_Logger # <<>>
  /\ operation' = Head(Rebuild_Logger)
  /\ Rebuild_Logger' = Tail(Rebuild_Logger)
  /\ thread' = "run"
  /\ UNCHANGED <<treeVars, Rebuild_Ptr, rebuild_flag, newSub, copies, errorPrinted,
                 mainVars, searchVars>>

RunOperation ==
  /\ thread = "run"
  /\ newSub' = Apply(newSub, operation)
  /\ thread' = "drain"
  /\ UNCHANGED <<treeVars, sharedVars, operation, copies, errorPrinted, mainVars,
                 searchVars>>

LockSearchAgain ==
  /\ thread = "drain" /\ Rebuild_Logger = <<>> /\ NoSearch
  /\ search_mutex_counter' = -1
  /\ thread' = "swap"
  /\ UNCHANGED <<treeVars, sharedVars, newSub, operation, copies, errorPrinted,
                 mainVars, searcher, entered>>

Swap ==
  /\ thread = "swap"
  /\ sub' = newSub
  /\ copies' = copies + 1
  /\ thread' = "swapped"
  /\ UNCHANGED <<pending, reference, sharedVars, newSub, operation, errorPrinted,
                 mainVars, searchVars>>

UnlockSearch ==
  /\ thread = "swapped" /\ SearchFlagFree
  /\ search_mutex_counter' = 0
  /\ Rebuild_Ptr' = FALSE
  /\ thread' = "clear"
  /\ UNCHANGED <<treeVars, rebuild_flag, Rebuild_Logger, newSub, operation, copies,
                 errorPrinted, mainVars, searcher, entered>>

(* rebuild_flag is reset once working_flag_mutex has been released.        *)
ClearFlag ==
  /\ thread = "clear"
  /\ rebuild_flag' = FALSE
  /\ thread' = "free"
  /\ UNCHANGED <<treeVars, Rebuild_Ptr, Rebuild_Logger, newSub, operation, copies,
                 errorPrinted, mainVars, searchVars>>

DeleteOld ==
  /\ thread = "free"
  /\ thread' = "idle"
  /\ UNCHANGED <<treeVars, sharedVars, newSub, operation, copies, errorPrinted,
                 mainVars, searchVars>>

Rebuild ==
  \/ TakeRequest \/ LockSearch \/ Flatten \/ BuildNothing \/ BuildTree
  \/ PopOperation \/ RunOperation \/ LockSearchAgain \/ Swap \/ UnlockSearch
  \/ ClearFlag \/ DeleteOld

Working ==
  \/ PushDown \/ PushDownLocked \/ CheckWalk \/ LockWalk \/ FinishWalk
  \/ CoverFather \/ Decide \/ ApplyFree \/ ApplyLocked \/ JoinSearches

Next ==
  \/ UpdatePoints \/ AddDownsampled \/ StartSearches
  \/ Working
  \/ Rebuild
  \/ \E s \in Searcher : Search(s)

Spec == Init /\ [][Next]_vars

(* The threads keep running; nothing makes the mapping thread call again.  *)
FairSpec == /\ Spec
            /\ WF_vars(Working)
            /\ WF_vars(Rebuild)
            /\ \A s \in Searcher : WF_vars(Search(s))
----------------------------------------------------------------------------
(* Properties.                                                             *)

TypeOK ==
  /\ sub \subseteq Point /\ reference \subseteq Point /\ pending \in BOOLEAN
  /\ Rebuild_Ptr \in BOOLEAN /\ rebuild_flag \in BOOLEAN
  /\ Rebuild_Logger \in Seq(Operation)
  /\ thread \in {"idle", "lockSearch", "flatten", "build", "drain", "run", "swap",
                 "swapped", "clear", "free", "crashed"}
  /\ newSub \subseteq Point /\ operation \in Operation
  /\ copies \in Nat /\ errorPrinted \in BOOLEAN
  /\ main \in {"idle", "push", "pushLock", "check", "walkLock", "walk", "walkLocked",
               "apply", "applyFree", "applyLock", "search"}
  /\ candidate \in Point \cup {NoPoint} /\ todo \in Seq(Operation) /\ calls \in Nat
  /\ searcher \in [Searcher -> {"off", "start", "wait", "counted", "uncounted"}]
  /\ entered \in [Reader -> Nat]
  /\ search_mutex_counter \in Nat \cup {-1}

(* No nearest search is inside the subtree while the rebuild thread        *)
(* flattens or replaces it, although searches that see no rebuild do not   *)
(* count themselves in (lines 259-268 and 307-315).                        *)
SearchExclusion ==
  thread \in {"flatten", "swap", "swapped"} =>
    \A s \in Searcher : searcher[s] \notin {"counted", "uncounted"}

(* Whoever walks the subtree walks the copy in place, or the old one while *)
(* its nodes have not been deleted (line 354).  Lookups of the mapping     *)
(* thread under a father are included; at the root they hold no lock.      *)
NoWalkOfDeleted ==
  thread \notin {"swapped", "clear"} =>
    /\ \A s \in Searcher : searcher[s] \in {"counted", "uncounted"} =>
                             entered[s] = copies
    /\ main = "walkLocked" \/ (main = "walk" /\ Target = "child") =>
         entered[Mapping] = copies

(* The subtree holds what the calls put there: a rebuild that ran          *)
(* alongside them lost, repeated or reordered none ("Rebuild and update    *)
(* missed operations", line 279), as long as no rebuild started with       *)
(* entries of an earlier one in the logger.                                *)
UpdatesKept == Alive /\ ~errorPrinted => Content = reference

(* Nobody waits for ever: the mapping thread finishes its call, and a      *)
(* rebuild that was asked for is completed, whatever the two wait for on   *)
(* each other, unless the rebuild dereferenced the null root of an empty   *)
(* copy.                                                                   *)
WaitsEnd == /\ main # "idle" ~> (main = "idle" \/ ~Alive)
            /\ Rebuild_Ptr ~> (~Rebuild_Ptr \/ ~Alive)
=============================================================================
