------------------------- MODULE CandidateSelection -------------------------
(***************************************************************************)
(* How the robots of Swarm-SLAM turn matches into loop closures (cslam):   *)
(* every robot matches descriptors (loop_closure_sparse_matching.py) and   *)
(* shares its matches (inter_robot_matches_timer_callback()); the broker,  *)
(* the lowest id in range, selects candidates within a budget              *)
(* (algebraic_connectivity_maximization.py), asks for the local            *)
(* descriptors of a vertex cover of them (broker.py), and the robots that  *)
(* hold the other ends register them (lidar_handler_node.py) and tell      *)
(* everyone.                                                               *)
(*                                                                         *)
(* A keyframe is a vertex <<robot, id>>; a match is the set of its two     *)
(* vertices, because edge_key() and EdgeInterRobot.__eq__ ignore the       *)
(* direction.  Descriptors reach other robots in order, as                 *)
(* DescriptorGossip promises.                                              *)
(***************************************************************************)
EXTENDS Integers, Sequences, FiniteSets, FiniteSetsExt

CONSTANTS
  max_nb_robots,   \* robots are 0..max_nb_robots-1
  MaxKeyframes,    \* keyframes each robot makes
  Similarity,      \* of two keyframes of different robots; 0: below threshold
  inter_robot_loop_closure_budget,
  ChunkSize,       \* frontend.detection_publication_max_elems_per_msg
  Hearing,         \* pairs <<r, q>>: r gets the descriptors of q
  Outcomes,        \* results that registering an edge may have
  Fading,          \* pairs <<r, q>>: r may lose q from its range
  MaxFaults        \* bound: outages of the pairs in Fading and lost messages

Robot  == 0..(max_nb_robots - 1)
Vertex == UNION {{r} \X (0..(MaxKeyframes[r] - 1)) : r \in Robot}
Edge   == {{v, w} : v \in Vertex, w \in Vertex} \cap
          {e \in SUBSET Vertex : \E v, w \in e : v[1] # w[1]}

ASSUME SelectionAssumption ==
  /\ max_nb_robots \in Nat \ {0}
  /\ MaxKeyframes \in [Robot -> Nat]
  /\ Similarity \in [Edge -> Nat]
  /\ \A e, f \in Edge : Similarity[e] = Similarity[f] => e = f \/ Similarity[e] = 0
  /\ inter_robot_loop_closure_budget \in Nat \ {0}
  /\ ChunkSize \in Nat \ {0}
  /\ Outcomes \in [Edge -> (SUBSET BOOLEAN) \ {{}}]
  /\ Hearing \subseteq Robot \X Robot
  /\ Fading \subseteq Robot \X Robot
  /\ MaxFaults \in Nat

VARIABLES
  keyframes,      \* descriptors a robot made (local_nnsm, local_descriptors_map)
  learned,        \* learned[r][q]: descriptors of q that r has
  candidates,     \* candidate_edges
  fixed,          \* fixed_edges
  considered,     \* already_considered_matches
  nb_poses,       \* nb_poses[r][q]
  linked,         \* robots with initial_fixed_edge_exists
  matches,        \* inter_robot_matches_buffer: from index to match
  lastSent,       \* last_match_sent of the monitors
  inRange,        \* the neighbours that is_alive() holds for
  requests,       \* LocalDescriptorsRequest: [vertex, matches]
  descriptors,    \* LocalPointCloudDescriptors: [to, vertex, matches]
  results,        \* InterRobotLoopClosure: [to, edge, success]
  registered,     \* history: edges whose registration was computed
  lost,           \* history: edges a lost request or descriptor was for
  faults          \* outages and losses so far

selector == <<candidates, fixed, considered, nb_poses, linked>>
channels == <<requests, descriptors, results>>
history  == <<registered, lost>>
vars == <<keyframes, learned, selector, matches, lastSent, inRange, channels,
          history, faults>>

Others(r) == Robot \ {r}
RobotsOf(e) == {v[1] : v \in e}
Known(r, q) == {q} \X (0..(learned[r][q] - 1))
Own(r) == {r} \X (0..(keyframes[r] - 1))

(* search_best(): the most similar vertex of a set, if similar enough.     *)
Matched(v, V) ==
  {{v, w} : w \in {w \in V : /\ Similarity[{v, w}] > 0
                             /\ \A x \in V : Similarity[{v, x}] <= Similarity[{v, w}]}}

(* Mutant: the number of poses is the largest id, not one more.            *)
PosesUpToId(poses, E) ==
  [q \in Robot |-> Max({poses[q]} \cup {v[2] : v \in {v \in UNION E : v[1] = q}})]

(* update_nb_poses() for each of a set of edges.                           *)
UpdatePoses(poses, E) ==
  [q \in Robot |-> Max({poses[q]} \cup {v[2] + 1 : v \in {v \in UNION E : v[1] = q}})]

(* Mutant: failed and fixed edges may become candidates again.             *)
NewlyAdded(r, E) == E

(* add_candidate_edge(): edges already considered are ignored.             *)
Added(r, E) == E \ considered[r]

(* add_match() for each of a set of edges, at each of a set of robots.     *)
(* The weight of an edge is the same whoever found it, so that a better    *)
(* weight replaces nothing.                                                *)
AddMatches(S, E) ==
  /\ candidates' = [r \in Robot |-> IF r \in S THEN candidates[r] \cup Added(r, E)
                                               ELSE candidates[r]]
  /\ nb_poses' = [r \in Robot |-> IF r \in S THEN UpdatePoses(nb_poses[r], Added(r, E))
                                             ELSE nb_poses[r]]
  /\ UNCHANGED <<fixed, considered, linked>>

(* The buffer with one more match at nb_inter_robot_matches.               *)
NextIndex(buffer) == Max({-1} \cup DOMAIN buffer) + 1
Stored(buffer, e) ==
  [i \in DOMAIN buffer \cup {NextIndex(buffer)} |->
     IF i \in DOMAIN buffer THEN buffer[i] ELSE e]

Init ==
  /\ keyframes = [r \in Robot |-> 0]
  /\ learned = [r \in Robot |-> [q \in Robot |-> 0]]
  /\ candidates = [r \in Robot |-> {}]
  /\ fixed = [r \in Robot |-> {}]
  /\ considered = [r \in Robot |-> {}]
  /\ nb_poses = [r \in Robot |-> [q \in Robot |-> 0]]
  /\ linked = [r \in Robot |-> {}]
  /\ matches = [r \in Robot |-> <<>>]
  /\ lastSent = [r \in Robot |-> [q \in Robot |-> -1]]
  /\ inRange = [r \in Robot |-> Others(r)]
  /\ requests = {} /\ descriptors = {} /\ results = {}
  /\ registered = {} /\ lost = {}
  /\ faults = 0

----------------------------------------------------------------------------
(* Liveness.  A call that asks is_alive() more than once may find that one *)
(* robot has come into range since, or got out of it.                      *)

Again(r) ==
  {inRange[r]} \cup {inRange[r] \cup {q} : q \in Others(r)}
    \cup {inRange[r] \ {q} : q \in {p \in Robot : <<r, p>> \in Fading}}

RangeBecomes(r, now, losses) ==
  /\ inRange' = [inRange EXCEPT ![r] = now]
  /\ faults' = faults + losses + Cardinality(inRange[r] \ now)
  /\ faults' <= MaxFaults

----------------------------------------------------------------------------
(* Matching.                                                               *)

(* add_global_descriptor_to_map(): the buffer of r once v is matched with  *)
(* the best of each other robot, in the order of their ids.                *)
Buffered(r, v) ==
  LET found[n \in 0..max_nb_robots] ==
        IF n = 0 THEN matches[r]
        ELSE LET E == IF n - 1 = r THEN {} ELSE Matched(v, Known(r, n - 1)) IN
             IF E = {} THEN found[n - 1]
             ELSE Stored(found[n - 1], CHOOSE e \in E : TRUE)
  IN found[max_nb_robots]

(* receive_keyframe()                                                      *)
ReceiveKeyframe(r) ==
  LET v == <<r, keyframes[r]>> IN
  /\ keyframes[r] < MaxKeyframes[r]
  /\ keyframes' = [keyframes EXCEPT ![r] = @ + 1]
  /\ AddMatches({r}, UNION {Matched(v, Known(r, q)) : q \in Others(r)})
  /\ matches' = [matches EXCEPT ![r] = Buffered(r, v)]
  /\ UNCHANGED <<learned, lastSent, inRange, channels, history, faults>>

(* global_descriptor_callback() for the next descriptor of q.              *)
GlobalDescriptorCallback(r, q) ==
  LET E == Matched(<<q, learned[r][q]>>, Own(r)) IN
  /\ <<r, q>> \in Hearing
  /\ learned[r][q] < keyframes[q]
  /\ learned' = [learned EXCEPT ![r][q] = @ + 1]
  /\ AddMatches({r}, E)
  /\ matches' = [matches EXCEPT ![r] =
                   IF E = {} THEN @ ELSE Stored(@, CHOOSE e \in E : TRUE)]
  /\ UNCHANGED <<keyframes, lastSent, inRange, channels, history, faults>>

----------------------------------------------------------------------------
(* Sharing matches.                                                        *)

Rank(S, k) == Cardinality({x \in S : x <= k})

(* Mutant: publication starts one later.                                   *)
SendAfter(r) ==
  Min({lastSent[r][q] : q \in inRange[r]} \cup {Max(DOMAIN matches[r])}) + 2
    - Min(DOMAIN matches[r])

(* select_from_which_match_to_send(), given relative to the first index    *)
(* although dict_to_list_chunks() compares it with indexes.                *)
SendFrom(r) ==
  Min({lastSent[r][q] : q \in inRange[r]} \cup {Max(DOMAIN matches[r])}) + 1
    - Min(DOMAIN matches[r])

(* The indexes left when matches between the two robots in range are       *)
(* removed from the list that is iterated: each removal skips the next     *)
(* match of its chunk.  Only a chunk of one match is emptied; it is then   *)
(* removed from the iterated list of chunks, which skips the next chunk.   *)
Transmitted(r, from, range) ==
  LET sent == {i \in DOMAIN matches[r] : i >= from}
      chunk(k) == (Rank(sent, k) - 1) \div ChunkSize
      removed[k \in sent] ==
        /\ RobotsOf(matches[r][k]) \subseteq range \cup {r}
        /\ \A j \in sent :
             Rank(sent, j) + 1 = Rank(sent, k) /\ (chunk(j) = chunk(k) \/ ChunkSize = 1)
               => ~ removed[j]
  IN IF Cardinality(range \cup {r}) = 2 THEN {k \in sent : ~ removed[k]} ELSE sent

(* delete_useless_inter_robot_matches(): what all robots were sent is      *)
(* deleted from the dict that is iterated: each deletion skips a key.      *)
Kept(r, sent) ==
  LET S == DOMAIN matches[r]
      from == Min({sent[q] : q \in Others(r)} \cup {Max(S)}) IN
  {k \in S : ~ (from >= Min(S) /\ k < from /\ Rank(S, k) % 2 = 1)}

(* The timer of r, and inter_robot_matches_callback() of the robots that   *)
(* get the message, which stands for its chunks: a message that is late is *)
(* a timer that is late.  Who is alive is asked for where to start, for    *)
(* whom to mark and for what to leave out.                                 *)
InterRobotMatchesTimerCallback(r) ==
  /\ matches[r] # <<>>
  /\ \E now \in Again(r) :
     \E marked \in {inRange[r], now},
        edges \in {{matches[r][k] : k \in Transmitted(r, SendFrom(r), now)}},
        missed \in SUBSET Others(r) :
     \E sent \in {[q \in Robot |-> IF q \in marked THEN Max(DOMAIN matches[r])
                                                   ELSE lastSent[r][q]]} :
       /\ lastSent' = [lastSent EXCEPT ![r] = sent]
       /\ matches' = [matches EXCEPT ![r] = [k \in Kept(r, sent) |-> @[k]]]
       /\ edges = {} => missed = {}
       /\ RangeBecomes(r, now, Cardinality(missed))
       /\ AddMatches(Others(r) \ missed, edges)
  /\ UNCHANGED <<keyframes, learned, channels, history>>

----------------------------------------------------------------------------
(* Selection.                                                              *)

(* local_robot_is_broker()                                                 *)
IsBroker(r, range) == \A q \in range : r < q

(* check_graph_disconnections(): a robot in range is included as soon as   *)
(* an edge touches it.                                                     *)
Included(r) ==
  {r} \cup {q \in inRange[r] : \E e \in fixed[r] \cup candidates[r] : q \in RobotsOf(e)}

(* get_included_edges()                                                    *)
Choosable(r, I) == {e \in candidates[r] : RobotsOf(e) \subseteq I}

Heaviest(E) == CHOOSE e \in E : \A f \in E : Similarity[f] <= Similarity[e]
Top(E, n) ==
  {e \in E : Cardinality({f \in E : Similarity[f] > Similarity[e]}) < n}

(* connection_biased_greedy_selection(): for each robot without a fixed    *)
(* edge the best edge not yet chosen, even beyond the budget, then the     *)
(* best of the others up to the budget.                                    *)
Biased(r, I, E, n) ==
  LET at(q) == {e \in E : q \in RobotsOf(e)}
      unlinked == {q \in I \ linked[r] : at(q) # {}}
      chosen[k \in 0..max_nb_robots] ==
        IF k = 0 THEN {}
        ELSE IF k - 1 \in unlinked
             THEN LET C == chosen[k - 1] IN
                  C \cup {Heaviest(IF at(k - 1) \subseteq C THEN at(k - 1)
                                                            ELSE at(k - 1) \ C)}
             ELSE chosen[k - 1]
      C == chosen[max_nb_robots]
  IN C \cup Top(E \ C, n - Cardinality(unlinked))

(* select_candidates(): any subset of the size of the budget from the MAC  *)
(* solver once each robot included has a fixed edge, else the biased one.  *)
Selections(r, I, E) ==
  LET n == Min({inter_robot_loop_closure_budget, Cardinality(E)}) IN
  IF I \subseteq linked[r] THEN kSubset(n, E) ELSE {Biased(r, I, E, n)}

(* compute_offsets(), of the robots included: the poses of those before.   *)
Offsets(r, I) ==
  LET poses[n \in 0..max_nb_robots] ==
        IF n = 0 THEN 0
        ELSE poses[n - 1] + (IF n - 1 \in I THEN nb_poses[r][n - 1] ELSE 0)
  IN [q \in I |-> poses[q]]

(* rekey_edges(): the node of a keyframe.                                  *)
Rekeyed(offsets, v) == offsets[v[1]] + v[2]

(* Mutant: the first keyframe of a robot is taken for one of another.      *)
RecoveredStrictly(offsets, node) ==
  LET q == Max({0} \cup {p \in DOMAIN offsets \ {0} : node > offsets[p]})
  IN <<q, IF q \in DOMAIN offsets THEN node - offsets[q] ELSE node>>

(* recover_inter_robot_edges(): the keyframe of a node; robot 0 by default.*)
RecoveredVertex(offsets, node) ==
  LET q == Max({0} \cup {p \in DOMAIN offsets \ {0} : node >= offsets[p]})
  IN <<q, IF q \in DOMAIN offsets THEN node - offsets[q] ELSE node>>

(* What remains of a selection after rekeying and recovering.              *)
Recovered(offsets, S) ==
  {{RecoveredVertex(offsets, Rekeyed(offsets, v)) : v \in e} : e \in S}

(* Broker.vertex_cover(): minimum between two robots (Koenig's theorem),   *)
(* some cover (an approximation) between more.                             *)
Covers(E) ==
  LET all == {C \in SUBSET UNION E : \A e \in E : e \cap C # {}} IN
  IF Cardinality(UNION {RobotsOf(e) : e \in E}) = 2
  THEN {C \in all : \A D \in all : Cardinality(C) <= Cardinality(D)}
  ELSE all

(* Mutant: an edge is listed at its first vertex only.                     *)
MatchesAtFirst(E, v) == {w \in UNION E : v[1] < w[1] /\ {v, w} \in E}

(* edge_list_to_vertices()                                                 *)
MatchesAt(E, v) == {w \in UNION E : v # w /\ {v, w} \in E}

(* remove_candidate_edges()                                                *)
Remove(r, E) ==
  /\ candidates' = [candidates EXCEPT ![r] = @ \ E]
  /\ considered' = [considered EXCEPT ![r] = @ \cup E]

(* detect_inter(), on its timer.  The robots included are those alive      *)
(* before the broker is determined.                                        *)
DetectInter(r) ==
  /\ \E now \in Again(r) : IsBroker(r, now) /\ RangeBecomes(r, now, 0)
  /\ Choosable(r, Included(r)) # {}
  /\ \E I \in {Included(r)} : \E offsets \in {Offsets(r, I)} :
     \E E \in {Recovered(offsets, S) : S \in Selections(r, I, Choosable(r, I))} :
       /\ Remove(r, E)
       /\ \E C \in Covers(E) :
            requests' = requests \cup
              {[vertex |-> v, matches |-> MatchesAt(E, v)] : v \in C}
  /\ UNCHANGED <<keyframes, learned, fixed, nb_poses, linked, matches, lastSent,
                 descriptors, results, history>>

----------------------------------------------------------------------------
(* Registration.                                                           *)

(* send_local_descriptors_request(): one message per robot of its matches; *)
(* for a keyframe the robot does not have, the callback raises.            *)
SendLocalDescriptorsRequest(m) ==
  /\ m.vertex[2] < keyframes[m.vertex[1]]
  /\ requests' = requests \ {m}
  /\ descriptors' = descriptors \cup
       {[to |-> q, vertex |-> m.vertex, matches |-> {w \in m.matches : w[1] = q}] :
          q \in RobotsOf(m.matches)}
  /\ UNCHANGED <<keyframes, learned, selector, matches, lastSent, inRange,
                 results, history, faults>>

(* receive_local_descriptors(): registration of each match succeeds or     *)
(* fails, and everyone is told.                                            *)
ReceiveLocalDescriptors(m) ==
  /\ descriptors' = descriptors \ {m}
  /\ \E success \in [m.matches -> BOOLEAN] :
       /\ \A w \in m.matches : success[w] \in Outcomes[{m.vertex, w}]
       /\ results' = results \cup
            {[to |-> q, edge |-> {m.vertex, w}, success |-> success[w]] :
               q \in Robot, w \in m.matches}
  /\ registered' = registered \cup {{m.vertex, w} : w \in m.matches}
  /\ UNCHANGED <<keyframes, learned, selector, matches, lastSent, inRange,
                 requests, lost, faults>>

(* receive_inter_robot_loop_closure(): candidate_edges_to_fixed(), which   *)
(* does not update nb_poses, or remove_candidate_edges().                  *)
ReceiveInterRobotLoopClosure(m) ==
  /\ results' = results \ {m}
  /\ Remove(m.to, {m.edge})
  /\ fixed' = [fixed EXCEPT ![m.to] = IF m.success THEN @ \cup {m.edge} ELSE @]
  /\ linked' = [linked EXCEPT ![m.to] =
                  IF m.success THEN @ \cup RobotsOf(m.edge) ELSE @]
  /\ UNCHANGED <<keyframes, learned, nb_poses, matches, lastSent, inRange,
                 requests, descriptors, history, faults>>

----------------------------------------------------------------------------
(* The neighbour monitors and the network.                                 *)

GoOutOfRange(r, q) ==
  /\ faults < MaxFaults
  /\ <<r, q>> \in Fading
  /\ q \in inRange[r]
  /\ inRange' = [inRange EXCEPT ![r] = @ \ {q}]
  /\ faults' = faults + 1
  /\ UNCHANGED <<keyframes, learned, selector, matches, lastSent, channels, history>>

ComeInRange(r, q) ==
  /\ q \in Others(r) \ inRange[r]
  /\ inRange' = [inRange EXCEPT ![r] = @ \cup {q}]
  /\ UNCHANGED <<keyframes, learned, selector, matches, lastSent, channels,
                 history, faults>>

EdgesOf(msgs) == UNION {{{m.vertex, w} : w \in m.matches} : m \in msgs}

Lose ==
  /\ faults < MaxFaults
  /\ faults' = faults + 1
  /\ \/ \E m \in requests : requests' = requests \ {m}
        /\ lost' = lost \cup EdgesOf({m})
        /\ UNCHANGED <<descriptors, results>>
     \/ \E m \in descriptors : descriptors' = descriptors \ {m}
        /\ lost' = lost \cup EdgesOf({m})
        /\ UNCHANGED <<requests, results>>
     \/ \E m \in results : results' = results \ {m}
        /\ UNCHANGED <<requests, descriptors, lost>>
  /\ UNCHANGED <<keyframes, learned, selector, matches, lastSent, inRange,
                 registered>>

Deliver ==
  \/ \E m \in requests : SendLocalDescriptorsRequest(m)
  \/ \E m \in descriptors : ReceiveLocalDescriptors(m)
  \/ \E m \in results : ReceiveInterRobotLoopClosure(m)

Next ==
  \/ \E r \in Robot :
       \/ ReceiveKeyframe(r)
       \/ InterRobotMatchesTimerCallback(r)
       \/ DetectInter(r)
       \/ \E q \in Others(r) : \/ GlobalDescriptorCallback(r, q)
                               \/ GoOutOfRange(r, q)
                               \/ ComeInRange(r, q)
  \/ Deliver
  \/ Lose

Spec == Init /\ [][Next]_vars

(* The timers go on and what is not lost is received; one assumption on    *)
(* all of them is enough, since each adds to what is sent or considered.   *)
Progress ==
  \/ Deliver
  \/ \E r \in Robot : DetectInter(r) \/ InterRobotMatchesTimerCallback(r)

Fairness == WF_vars(Progress)

FairSpec == Spec /\ Fairness

----------------------------------------------------------------------------
(* Type correctness; the vertices of an edge are keyframes of two robots,  *)
(* so what the solver's nodes are turned back into is one too.             *)
TypeOK ==
  /\ keyframes \in [Robot -> Nat]
  /\ learned \in [Robot -> [Robot -> Nat]]
  /\ candidates \in [Robot -> SUBSET Edge]
  /\ fixed \in [Robot -> SUBSET Edge]
  /\ considered \in [Robot -> SUBSET Edge]
  /\ nb_poses \in [Robot -> [Robot -> Nat]]
  /\ linked \in [Robot -> SUBSET Robot]
  /\ \A r \in Robot : /\ DOMAIN matches[r] \in SUBSET Nat
                      /\ \A i \in DOMAIN matches[r] : matches[r][i] \in Edge
  /\ lastSent \in [Robot -> [Robot -> Nat \cup {-1}]]
  /\ inRange \in [Robot -> SUBSET Robot]
  /\ requests \subseteq [vertex : Vertex, matches : SUBSET Vertex]
  /\ descriptors \subseteq [to : Robot, vertex : Vertex, matches : SUBSET Vertex]
  /\ results \subseteq [to : Robot, edge : Edge, success : BOOLEAN]
  /\ registered \subseteq Edge
  /\ lost \subseteq Edge
  /\ faults \in Nat

(* An edge that was selected, fixed or refused never becomes a candidate   *)
(* again, however late the matches of other robots arrive.                 *)
NeverCandidateAgain == \A r \in Robot : considered[r] \cap candidates[r] = {}

(* A request asks a robot for a keyframe it has, for matches that were     *)
(* found: the rekeying for the solver and its inverse lose nothing.        *)
RequestsAnswerable ==
  \A m \in requests \cup descriptors :
    /\ m.vertex[2] < keyframes[m.vertex[1]]
    /\ m.matches # {}
    /\ \A w \in m.matches : /\ w[2] < keyframes[w[1]]
                            /\ {m.vertex, w} \in Edge
                            /\ Similarity[{m.vertex, w}] > 0

(* A selected edge, which no one will select again, is registered unless   *)
(* the message that would make it so is under way or was lost.             *)
SelectedAccounted ==
  \A r \in Robot :
    considered[r] \subseteq registered \cup lost \cup EdgesOf(requests \cup descriptors)

(* Without outages and losses, each match that some robot finds is decided *)
(* at every robot in the end, the broker's share of matches included.      *)
EveryMatchDecided ==
  \A e \in Edge :
    (\E r \in Robot : e \in candidates[r])
      ~> (faults > 0 \/ \A q \in Robot : e \in considered[q])
=============================================================================
