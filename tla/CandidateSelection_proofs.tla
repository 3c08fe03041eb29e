---------------------- MODULE CandidateSelection_proofs ----------------------
(***************************************************************************)
(* Theorems about CandidateSelection, for any robots, keyframes,           *)
(* similarities, budget and bounds: what was considered once is never a    *)
(* candidate again; the types of the whole state; every request can be     *)
(* answered; every selected edge is registered, under way or lost.         *)
(*                                                                         *)
(* The first rests on an invariant of its own.  The others share one: all  *)
(* that is a candidate, in a buffer or asked for is a match of keyframes   *)
(* that were made, and every keyframe of a candidate is counted in the     *)
(* number of poses of its robot.  The count is why the solver's nodes, the *)
(* keyframes of all robots in one row, are turned back into the keyframes  *)
(* they stood for.  What a recursive function computes is reasoned about   *)
(* as in DataLemmas: it exists, and every step stays in a set.             *)
(***************************************************************************)
EXTENDS CandidateSelection, DataLemmas

(* The two variables are functions on the robots, which EXCEPT needs.      *)
Functional ==
  /\ candidates = [r \in Robot |-> candidates[r]]
  /\ considered = [r \in Robot |-> considered[r]]

IInv == Functional /\ NeverCandidateAgain

(* Only removal changes what is considered.                                *)
LEMMA AddKeepsIInv ==
  ASSUME IInv, NEW S, NEW E, AddMatches(S, E)
  PROVE  IInv'
<1> USE DEF IInv, Functional, NeverCandidateAgain
<1>1. considered' = considered
  BY DEF AddMatches
<1>2. candidates' = [r \in Robot |-> IF r \in S THEN candidates[r] \cup Added(r, E)
                                               ELSE candidates[r]]
  BY DEF AddMatches
<1>3. Functional'
  BY <1>1, <1>2
<1>4. ASSUME NEW r \in Robot
      PROVE  considered'[r] \cap candidates'[r] = {}
  <2>1. considered[r] \cap Added(r, E) = {}
    BY DEF Added
  <2>2. considered[r] \cap candidates[r] = {}
    OBVIOUS
  <2> QED
    BY <1>1, <1>2, <2>1, <2>2
<1> QED
  BY <1>3, <1>4

(* What is removed from the candidates of r is what r considers from now on.*)
LEMMA RemoveKeepsIInv ==
  ASSUME IInv, NEW r, NEW E, Remove(r, E)
  PROVE  IInv'
<1> USE DEF IInv, Functional, NeverCandidateAgain
<1>1. /\ candidates' = [candidates EXCEPT ![r] = @ \ E]
      /\ considered' = [considered EXCEPT ![r] = @ \cup E]
  BY DEF Remove
<1>2. Functional'
  BY <1>1
<1>3. ASSUME NEW q \in Robot
      PROVE  considered'[q] \cap candidates'[q] = {}
  <2>1. considered[q] \cap candidates[q] = {}
    OBVIOUS
  <2>2. CASE q = r
    <3>1. candidates'[q] = candidates[q] \ E /\ considered'[q] = considered[q] \cup E
      BY <1>1, <2>2
    <3> QED
      BY <2>1, <3>1
  <2>3. CASE q # r
    BY <1>1, <2>1, <2>3
  <2> QED
    BY <2>2, <2>3
<1> QED
  BY <1>2, <1>3

LEMMA InitIInv == Init => IInv
BY DEF Init, IInv, Functional, NeverCandidateAgain

LEMMA NextIInv == IInv /\ [Next]_vars => IInv'
<1> SUFFICES ASSUME IInv, [Next]_vars
             PROVE  IInv'
  OBVIOUS
<1>1. ASSUME NEW r \in Robot, ReceiveKeyframe(r)
      PROVE  IInv'
  <2>1. PICK S, E : AddMatches(S, E)
    BY <1>1 DEF ReceiveKeyframe
  <2> QED
    BY <2>1, AddKeepsIInv
<1>2. ASSUME NEW r \in Robot, InterRobotMatchesTimerCallback(r)
      PROVE  IInv'
  <2>1. PICK S, E : AddMatches(S, E)
    BY <1>2 DEF InterRobotMatchesTimerCallback
  <2> QED
    BY <2>1, AddKeepsIInv
<1>3. ASSUME NEW r \in Robot, DetectInter(r)
      PROVE  IInv'
  <2>1. PICK E : Remove(r, E)
    BY <1>3 DEF DetectInter
  <2> QED
    BY <1>3, <2>1, RemoveKeepsIInv
<1>4. ASSUME NEW r \in Robot, NEW q \in Others(r), GlobalDescriptorCallback(r, q)
      PROVE  IInv'
  <2>1. PICK S, E : AddMatches(S, E)
    BY <1>4 DEF GlobalDescriptorCallback
  <2> QED
    BY <2>1, AddKeepsIInv
<1>5. ASSUME Deliver
      PROVE  IInv'
  <2>1. ASSUME NEW m \in requests, SendLocalDescriptorsRequest(m)
        PROVE  IInv'
    BY <2>1 DEF SendLocalDescriptorsRequest, selector, IInv, Functional,
                NeverCandidateAgain
  <2>2. ASSUME NEW m \in descriptors, ReceiveLocalDescriptors(m)
        PROVE  IInv'
    BY <2>2 DEF ReceiveLocalDescriptors, selector, IInv, Functional,
                NeverCandidateAgain
  <2>3. ASSUME NEW m \in results, ReceiveInterRobotLoopClosure(m)
        PROVE  IInv'
    <3>1. Remove(m.to, {m.edge})
      BY <2>3 DEF ReceiveInterRobotLoopClosure
    <3> QED
      BY <3>1, RemoveKeepsIInv
  <2> QED
    BY <1>5, <2>1, <2>2, <2>3 DEF Deliver
<1>6. ASSUME UNCHANGED <<candidates, considered>>
      PROVE  IInv'
  BY <1>6 DEF IInv, Functional, NeverCandidateAgain
<1>7. ASSUME NEW r \in Robot, NEW q \in Others(r),
             GoOutOfRange(r, q) \/ ComeInRange(r, q)
      PROVE  IInv'
  BY <1>6, <1>7 DEF GoOutOfRange, ComeInRange, selector
<1>8. CASE Lose
  BY <1>6, <1>8 DEF Lose, selector
<1>9. CASE UNCHANGED vars
  BY <1>6, <1>9 DEF vars, selector
<1> QED
  BY <1>1, <1>2, <1>3, <1>4, <1>5, <1>7, <1>8, <1>9 DEF Next

(* The inductive invariant holds in every reachable state.                 *)
THEOREM Invariance == Spec => []IInv
BY InitIInv, NextIInv, PTL DEF Spec

(* The property of run candidates: an edge that was selected, fixed or     *)
(* refused is never a candidate again, whatever is late, lost or repeated  *)
(* and however many robots believe they are the broker.                    *)
THEOREM NeverAgain == Spec => []NeverCandidateAgain
<1>1. IInv => NeverCandidateAgain
  BY DEF IInv
<1> QED
  BY <1>1, Invariance, PTL

----------------------------------------------------------------------------
(* Keyframes and matches.                                                  *)

(* The matches of keyframes that were made.                                *)
Made(upto) ==
  {e \in Edge : Similarity[e] > 0 /\ \A v \in e : v[2] < upto[v[1]]}

(* A vertex is a robot and the number of one of its keyframes.             *)
LEMMA VertexIs ==
  ASSUME NEW v \in Vertex
  PROVE  /\ v = <<v[1], v[2]>> /\ v[1] \in Robot /\ v[2] \in Nat
         /\ v[2] < MaxKeyframes[v[1]] /\ MaxKeyframes[v[1]] \in Nat
<1>1. PICK r \in Robot : v \in {r} \X (0..(MaxKeyframes[r] - 1))
  BY DEF Vertex
<1>2. MaxKeyframes[r] \in Nat
  BY SelectionAssumption
<1> QED BY <1>1, <1>2

LEMMA VertexMade ==
  ASSUME NEW r \in Robot, NEW k \in Nat, k < MaxKeyframes[r]
  PROVE  <<r, k>> \in Vertex
<1>1. MaxKeyframes[r] \in Nat
  BY SelectionAssumption
<1>2. <<r, k>> \in {r} \X (0..(MaxKeyframes[r] - 1))
  BY <1>1
<1> QED BY <1>2 DEF Vertex

(* A match relates two keyframes of different robots.                      *)
LEMMA EdgeMade ==
  ASSUME NEW v \in Vertex, NEW w \in Vertex, v[1] # w[1]
  PROVE  {v, w} \in Edge
BY DEF Edge

(* Each end of an edge has its other end, of another robot.                *)
LEMMA EdgeIs ==
  ASSUME NEW e \in Edge, NEW v \in e
  PROVE  /\ v \in Vertex
         /\ \E w \in e : w \in Vertex /\ v[1] # w[1] /\ e = {v, w}
<1>1. e \in SUBSET Vertex /\ \E a, b \in e : a[1] # b[1]
  BY DEF Edge
<1>2. PICK x, y \in Vertex : e = {x, y}
  BY DEF Edge
<1>3. PICK w \in e : v[1] # w[1]
  BY <1>1
<1>4. e = {v, w}
  BY <1>2, <1>3
<1> QED BY <1>1, <1>3, <1>4

(* A match that was found remains one while keyframes are made.            *)
LEMMA MadeGrows ==
  ASSUME NEW upto \in [Robot -> Nat], NEW later \in [Robot -> Nat],
         \A r \in Robot : upto[r] <= later[r]
  PROVE  Made(upto) \subseteq Made(later)
<1> SUFFICES ASSUME NEW e \in Made(upto) PROVE e \in Made(later)
  OBVIOUS
<1>1. e \in Edge /\ Similarity[e] > 0
  BY DEF Made
<1>2. ASSUME NEW v \in e PROVE v[2] < later[v[1]]
  <2>1. v \in Vertex
    BY <1>1, EdgeIs
  <2>2. v[1] \in Robot /\ v[2] \in Nat
    BY <2>1, VertexIs
  <2>3. v[2] < upto[v[1]]
    BY DEF Made
  <2> QED BY <2>2, <2>3
<1> QED BY <1>1, <1>2 DEF Made

(* Matching a keyframe with those of another robot.                        *)
LEMMA MatchedMade ==
  ASSUME NEW upto \in [Robot -> Nat], \A r \in Robot : upto[r] <= MaxKeyframes[r],
         NEW r \in Robot, NEW k \in Nat, k < upto[r],
         NEW q \in Robot, q # r, NEW n \in Nat, n <= upto[q]
  PROVE  Matched(<<r, k>>, {q} \X (0..(n - 1))) \subseteq Made(upto)
<1> DEFINE v == <<r, k>>
           V == {q} \X (0..(n - 1))
<1> SUFFICES ASSUME NEW e \in Matched(v, V) PROVE e \in Made(upto)
  OBVIOUS
<1>1. PICK w \in V : e = {v, w} /\ Similarity[{v, w}] > 0
  BY DEF Matched
<1>2. PICK j \in 0..(n - 1) : w = <<q, j>>
  OBVIOUS
<1>3. MaxKeyframes[r] \in Nat /\ MaxKeyframes[q] \in Nat
  BY SelectionAssumption
<1>4. v \in Vertex
  BY <1>3, VertexMade
<1>5. w \in Vertex
  BY <1>2, <1>3, VertexMade
<1>6. v[1] = r /\ v[2] = k /\ w[1] = q /\ w[2] = j
  BY <1>2
<1> HIDE DEF v, V
<1>7. {v, w} \in Edge
  BY <1>4, <1>5, <1>6, EdgeMade
<1>8. v[2] < upto[v[1]] /\ w[2] < upto[w[1]]
  BY <1>2, <1>6
<1> QED BY <1>1, <1>7, <1>8 DEF Made

----------------------------------------------------------------------------
(* The numbers of poses.                                                   *)

(* What Max() chooses, when there is a greatest element.                   *)
LEMMA GreatestIs ==
  ASSUME NEW S, \E x \in S : \A y \in S : x >= y
  PROVE  Max(S) \in S /\ \A y \in S : Max(S) >= y
BY DEF Max

(* No robot has more poses than keyframes.                                 *)
Bounded(poses) == \A q \in Robot : poses[q] <= MaxKeyframes[q]

(* update_nb_poses() never lowers a number, counts the vertices of the     *)
(* edges, and stays within the keyframes there can be.                     *)
LEMMA PosesAre ==
  ASSUME NEW poses \in [Robot -> Nat], Bounded(poses), NEW E \in SUBSET Edge
  PROVE  /\ UpdatePoses(poses, E) \in [Robot -> Nat]
         /\ Bounded(UpdatePoses(poses, E))
         /\ \A q \in Robot : poses[q] <= UpdatePoses(poses, E)[q]
         /\ \A e \in E : \A v \in e : v[2] < UpdatePoses(poses, E)[v[1]]
<1> DEFINE V(q) == {v \in UNION E : v[1] = q}
           S(q) == {poses[q]} \cup {v[2] + 1 : v \in V(q)}
           U == UpdatePoses(poses, E)
<1>1. ASSUME NEW q \in Robot
      PROVE  /\ Max(S(q)) \in Nat /\ Max(S(q)) <= MaxKeyframes[q]
             /\ \A x \in S(q) : x <= Max(S(q))
  <2>1. MaxKeyframes[q] \in Nat /\ poses[q] \in Nat /\ poses[q] <= MaxKeyframes[q]
    BY SelectionAssumption DEF Bounded
  <2>2. \A v \in V(q) : v[2] + 1 \in Nat /\ v[2] + 1 <= MaxKeyframes[q]
    <3> TAKE v \in V(q)
    <3>1. PICK e \in E : v \in e
      OBVIOUS
    <3>2. v \in Vertex
      BY <3>1, EdgeIs
    <3>3. v[2] \in Nat /\ v[2] < MaxKeyframes[v[1]] /\ v[1] = q
      BY <3>2, VertexIs
    <3> QED BY <2>1, <3>3
  <2>3. \A x \in S(q) : x \in Nat /\ x <= MaxKeyframes[q]
    BY <2>1, <2>2
  <2>4. S(q) # {}
    OBVIOUS
  <2> DEFINE X == S(q)
  <2>5. \A x \in X : x \in Nat /\ x <= MaxKeyframes[q]
    BY <2>3
  <2>6. X # {}
    BY <2>4
  <2> HIDE DEF X
  <2>7. X \in SUBSET Int /\ MaxKeyframes[q] \in Int
    BY <2>1, <2>5
  <2>8. \E x \in X : \A y \in X : x >= y
    BY <2>5, <2>6, <2>7, GreatestInteger
  <2>9. Max(X) \in X /\ \A y \in X : Max(X) >= y
    BY <2>8 DEF Max
  <2>10. /\ Max(X) \in Nat /\ Max(X) <= MaxKeyframes[q]
         /\ \A x \in X : x <= Max(X)
    BY <2>5, <2>9
  <2> QED BY <2>10 DEF X
<1>2. \A q \in Robot : U[q] = Max(S(q))
  BY DEF UpdatePoses
<1>3. U \in [Robot -> Nat] /\ Bounded(U)
  <2>1. U = [q \in Robot |-> Max(S(q))]
    BY DEF UpdatePoses
  <2> HIDE DEF U, S
  <2> QED BY <1>1, <1>2, <2>1 DEF Bounded
<1>4. \A q \in Robot : poses[q] <= U[q]
  <2> TAKE q \in Robot
  <2>1. poses[q] \in S(q)
    OBVIOUS
  <2> HIDE DEF U, S
  <2> QED BY <1>1, <1>2, <2>1
<1>5. ASSUME NEW e \in E, NEW v \in e
      PROVE  v[2] < U[v[1]]
  <2>1. v \in Vertex
    BY EdgeIs
  <2>2. v[1] \in Robot /\ v[2] \in Nat
    BY <2>1, VertexIs
  <2>3. v[2] + 1 \in S(v[1])
    OBVIOUS
  <2> HIDE DEF U, S
  <2>4. v[2] + 1 <= U[v[1]] /\ U[v[1]] \in Nat
    BY <1>1, <1>2, <2>2, <2>3
  <2> QED BY <2>2, <2>4
<1> QED BY <1>3, <1>4, <1>5

----------------------------------------------------------------------------
(* The buffer of matches.                                                  *)

(* The functions from some indexes, below a bound, to elements of R.       *)
Buffer(R) ==
  {f \in UNION {[D -> R] : D \in SUBSET Nat} :
     \E b \in Nat : \A i \in DOMAIN f : i <= b}

(* A buffer is a function on a bounded set of indexes; StoredIs: one match *)
(* more makes another buffer.                                              *)
LEMMA BufferIs ==
  ASSUME NEW R, NEW f \in Buffer(R)
  PROVE  /\ DOMAIN f \in SUBSET Nat /\ f \in [DOMAIN f -> R]
         /\ \E b \in Nat : \A i \in DOMAIN f : i <= b
<1>1. PICK D \in SUBSET Nat : f \in [D -> R]
  BY DEF Buffer
<1>2. \E b \in Nat : \A i \in DOMAIN f : i <= b
  BY DEF Buffer
<1> QED BY <1>1, <1>2

LEMMA BufferMade ==
  ASSUME NEW R, NEW D \in SUBSET Nat, NEW f \in [D -> R],
         NEW b \in Nat, \A i \in D : i <= b
  PROVE  f \in Buffer(R)
BY DEF Buffer

LEMMA BufferGrows ==
  ASSUME NEW R, NEW Q, R \subseteq Q
  PROVE  Buffer(R) \subseteq Buffer(Q)
<1> SUFFICES ASSUME NEW f \in Buffer(R) PROVE f \in Buffer(Q)
  OBVIOUS
<1>1. /\ DOMAIN f \in SUBSET Nat /\ f \in [DOMAIN f -> R]
      /\ \E b \in Nat : \A i \in DOMAIN f : i <= b
  BY BufferIs
<1>2. f \in [DOMAIN f -> Q]
  BY <1>1
<1> QED BY <1>1, <1>2, BufferMade

LEMMA StoredIs ==
  ASSUME NEW R, NEW f \in Buffer(R), NEW e \in R
  PROVE  Stored(f, e) \in Buffer(R)
<1> DEFINE X == {-1} \cup DOMAIN f
           n == NextIndex(f)
           D == DOMAIN f \cup {n}
<1>1. DOMAIN f \in SUBSET Nat /\ f \in [DOMAIN f -> R]
  BY BufferIs
<1>2. PICK b \in Nat : \A i \in DOMAIN f : i <= b
  BY BufferIs
<1>3. X \in SUBSET Int /\ X # {} /\ \A x \in X : x <= b /\ x >= -1
  BY <1>1, <1>2
<1>4. n = Max(X) + 1
  BY DEF NextIndex
<1>5. Max(X) \in X
  <2> HIDE DEF X
  <2>1. \E x \in X : \A y \in X : x >= y
    <3>1. b \in Int
      OBVIOUS
    <3> QED BY <1>3, <3>1, GreatestInteger
  <2> QED BY <2>1 DEF Max
<1>6. n \in Nat /\ n <= b + 1
  <2> DEFINE m == Max(X)
  <2>1. m \in X /\ n = m + 1
    BY <1>4, <1>5
  <2> HIDE DEF X, m, n
  <2> QED BY <1>3, <2>1
<1> HIDE DEF n
<1>7. Stored(f, e) = [i \in D |-> IF i \in DOMAIN f THEN f[i] ELSE e]
  BY DEF Stored, n
<1>8. Stored(f, e) \in [D -> R]
  BY <1>1, <1>7
<1>9. D \in SUBSET Nat /\ b + 1 \in Nat /\ \A i \in D : i <= b + 1
  BY <1>1, <1>2, <1>6
<1> HIDE DEF D
<1> QED BY <1>8, <1>9, BufferMade

(* A buffer stays one after all that is found for one keyframe: each pass  *)
(* of the loop over the robots leaves a buffer.                            *)
LEMMA BufferedIs ==
  ASSUME NEW R, NEW r \in Robot, NEW v, matches[r] \in Buffer(R),
         \A q \in Robot : q # r => Matched(v, Known(r, q)) \subseteq R
  PROVE  Buffered(r, v) \in Buffer(R)
<1> DEFINE N == max_nb_robots
           E(k) == IF k - 1 = r THEN {} ELSE Matched(v, Known(r, k - 1))
           Step(k, t) == IF E(k) = {} THEN t ELSE Stored(t, CHOOSE e \in E(k) : TRUE)
           G == [k \in 1..N |-> [t \in Buffer(R) |-> Step(k, t)]]
           found == CHOOSE found : found = [k \in 0..N |->
                      IF k = 0 THEN matches[r] ELSE Step(k, found[k - 1])]
<1>1. N \in Nat
  BY SelectionAssumption
<1>2. \A k \in 1..N : E(k) \subseteq R
  <2> TAKE k \in 1..N
  <2>1. k - 1 \in Robot
    BY <1>1 DEF Robot
  <2> QED BY <2>1
<1>3. \A k \in 1..N : \A t \in Buffer(R) : Step(k, t) \in Buffer(R)
  <2> TAKE k \in 1..N
  <2> TAKE t \in Buffer(R)
  <2> DEFINE e == CHOOSE e \in E(k) : TRUE
  <2> HIDE DEF E
  <2>1. CASE E(k) # {}
    <3>1. e \in R
      BY <1>2, <2>1
    <3> HIDE DEF e
    <3>2. Stored(t, e) \in Buffer(R)
      BY <3>1, StoredIs
    <3> QED BY <2>1, <3>2 DEF e
  <2> QED BY <2>1
<1>4. \E f : Iterates(f, Buffer(R), matches[r], G, N)
  <2>1. \A k \in 1..N : \A t \in Buffer(R) : G[k][t] \in Buffer(R)
    <3> HIDE DEF Step
    <3> QED BY <1>3
  <2> HIDE DEF G
  <2> QED BY <1>1, <2>1, IteratesExists
<1>5. PICK f : Iterates(f, Buffer(R), matches[r], G, N)
  BY <1>4
<1>6. f = [k \in 0..N |-> IF k = 0 THEN matches[r] ELSE Step(k, f[k - 1])]
  <2> HIDE DEF Step
  <2>1. f \in [0..N -> Buffer(R)] /\ f[0] = matches[r]
    BY <1>5 DEF Iterates
  <2>2. \A k \in 1..N : f[k] = Step(k, f[k - 1])
    <3> TAKE k \in 1..N
    <3>1. f[k] = G[k][f[k - 1]] /\ f[k - 1] \in Buffer(R)
      BY <1>5, <1>1 DEF Iterates
    <3> QED BY <3>1
  <2>3. \A k \in 0..N : k = 0 \/ k \in 1..N
    BY <1>1
  <2> HIDE DEF G, N
  <2> QED BY <2>1, <2>2, <2>3
<1>7. found = [k \in 0..N |-> IF k = 0 THEN matches[r] ELSE Step(k, found[k - 1])]
  <2> HIDE DEF Step, G, N
  <2> QED BY <1>6, Zenon
<1>8. Buffered(r, v) = found[N]
  BY Zenon DEF Buffered
<1>9. \A k \in 0..N : found[k] \in Buffer(R)
  <2> HIDE DEF Step, found
  <2>1. 0 \in 0..N /\ N \in 0..N /\ \A k \in 1..N : k \in 0..N /\ k # 0
    BY <1>1
  <2>2. found[0] = matches[r] /\ \A k \in 1..N : found[k] = Step(k, found[k - 1])
    BY <1>7, <2>1
  <2>3. \A k \in 1..N : found[k - 1] \in Buffer(R) => found[k] \in Buffer(R)
    BY <1>3, <2>2
  <2> QED BY <1>1, <2>2, <2>3, StaysIn
<1> HIDE DEF found
<1> QED BY <1>1, <1>8, <1>9

(* The offsets leave room for the poses of each robot.                     *)
Apart(O, poses) ==
  \A p, q \in DOMAIN O : p < q => O[p] + poses[p] <= O[q]

(* compute_offsets(): the nodes of a robot end before those of the next    *)
(* one included begin.                                                     *)
LEMMA OffsetsAre ==
  ASSUME NEW r \in Robot, NEW I \in SUBSET Robot, nb_poses[r] \in [Robot -> Nat]
  PROVE  Offsets(r, I) \in [I -> Nat] /\ Apart(Offsets(r, I), nb_poses[r])
<1> DEFINE N == max_nb_robots
           More(k) == IF k - 1 \in I THEN nb_poses[r][k - 1] ELSE 0
           G == [k \in 1..N |-> [t \in Nat |-> t + More(k)]]
           poses == CHOOSE poses : poses = [k \in 0..N |->
                      IF k = 0 THEN 0 ELSE poses[k - 1] + More(k)]
<1>1. N \in Nat /\ I \subseteq 0..(N - 1)
  BY SelectionAssumption DEF Robot
<1>2. \A k \in 1..N : More(k) \in Nat
  OBVIOUS
<1>3. PICK f : Iterates(f, Nat, 0, G, N)
  <2>1. \A k \in 1..N : \A t \in Nat : G[k][t] \in Nat
    <3> HIDE DEF More
    <3> QED BY <1>2
  <2> HIDE DEF G
  <2> QED BY <1>1, <2>1, IteratesExists
<1> HIDE DEF More
<1>4. f = [k \in 0..N |-> IF k = 0 THEN 0 ELSE f[k - 1] + More(k)]
  <2>1. f \in [0..N -> Nat] /\ f[0] = 0
    BY <1>3 DEF Iterates
  <2>2. \A k \in 1..N : f[k] = f[k - 1] + More(k)
    <3> TAKE k \in 1..N
    <3>1. f[k] = G[k][f[k - 1]] /\ f[k - 1] \in Nat
      BY <1>3, <1>1 DEF Iterates
    <3> QED BY <3>1
  <2>3. \A k \in 0..N : k = 0 \/ k \in 1..N
    BY <1>1
  <2> HIDE DEF G, N
  <2> QED BY <2>1, <2>2, <2>3
<1>5. poses = [k \in 0..N |-> IF k = 0 THEN 0 ELSE poses[k - 1] + More(k)]
  <2> HIDE DEF G, N
  <2> QED BY <1>4, Zenon
<1>6. Offsets(r, I) = [q \in I |-> poses[q]]
  BY Zenon DEF Offsets, More
<1> HIDE DEF poses
<1>7. poses[0] = 0 /\ \A k \in 1..N : poses[k] = poses[k - 1] + More(k)
  <2>1. 0 \in 0..N /\ \A k \in 1..N : k \in 0..N /\ k # 0
    BY <1>1
  <2> QED BY <1>5, <2>1
<1>8. \A k \in 0..N : poses[k] \in Nat
  <2>1. \A k \in 1..N : poses[k - 1] \in Nat => poses[k] \in Nat
    BY <1>2, <1>7
  <2>2. poses[0] \in Nat
    BY <1>7
  <2> HIDE DEF N
  <2> QED BY <1>1, <2>1, <2>2, StaysIn
<1>9. ASSUME NEW p \in I, NEW q \in I, p < q
      PROVE  poses[p] + nb_poses[r][p] <= poses[q]
  <2>1. p + 1 \in 1..N /\ (p + 1) - 1 = p /\ p \in Int /\ q \in 0..N /\ p + 1 <= q
    BY <1>1, <1>9
  <2>2. poses[p + 1] = poses[p] + nb_poses[r][p]
    <3>1. More(p + 1) = nb_poses[r][p]
      BY <2>1 DEF More
    <3> QED BY <1>7, <2>1, <3>1
  <2> DEFINE B == {k \in 0..N : p + 1 <= k /\ ~ (poses[p + 1] <= poses[k])}
  <2>3. CASE B # {}
    <3>1. PICK k \in B : \A j \in B : k <= j
      <4>1. B \in SUBSET Nat
        OBVIOUS
      <4> HIDE DEF B
      <4> QED BY <2>3, <4>1, LeastNatural
    <3>2. k \in 0..N /\ p + 1 <= k /\ ~ (poses[p + 1] <= poses[k])
      OBVIOUS
    <3>3. poses[p + 1] \in Nat
      BY <1>8, <2>1
    <3>4. k # p + 1
      BY <3>2, <3>3
    <3>5. k \in 1..N /\ k - 1 \in 0..N /\ p + 1 <= k - 1 /\ ~ (k <= k - 1)
      <4> HIDE DEF N, B
      <4> QED BY <1>1, <2>1, <3>2, <3>4
    <3>6. poses[p + 1] <= poses[k - 1]
      BY <3>1, <3>5
    <3>7. poses[k] = poses[k - 1] + More(k) /\ poses[k - 1] \in Nat /\ More(k) \in Nat
      BY <1>2, <1>7, <1>8, <3>5
    <3> QED BY <3>2, <3>3, <3>6, <3>7
  <2>4. CASE B = {}
    BY <2>1, <2>2, <2>4
  <2> QED BY <2>3, <2>4
<1> DEFINE O == Offsets(r, I)
<1>10. O \in [I -> Nat] /\ DOMAIN O = I /\ \A q \in I : O[q] = poses[q]
  <2>1. \A q \in I : poses[q] \in Nat
    BY <1>1, <1>8
  <2> QED BY <1>6, <2>1
<1> HIDE DEF O
<1>11. Apart(O, nb_poses[r])
  BY <1>9, <1>10 DEF Apart
<1> QED BY <1>10, <1>11 DEF O

(* A node that rekey_edges() gives to a keyframe counted in the number of  *)
(* poses is turned back into this keyframe.                                *)
LEMMA RecoveredIs ==
  ASSUME NEW I \in SUBSET Robot, NEW O \in [I -> Nat],
         NEW poses \in [Robot -> Nat], Apart(O, poses),
         NEW v \in Vertex, v[1] \in I, v[2] < poses[v[1]]
  PROVE  RecoveredVertex(O, Rekeyed(O, v)) = v
<1> DEFINE q == v[1]
           node == Rekeyed(O, v)
           X == {0} \cup {p \in DOMAIN O \ {0} : node >= O[p]}
<1>1. q \in I /\ q \in Nat /\ v[2] \in Nat /\ v[2] < poses[q] /\ v = <<q, v[2]>>
  BY VertexIs DEF Robot
<1>2. node = O[q] + v[2] /\ O[q] \in Nat /\ DOMAIN O = I
  BY <1>1 DEF Rekeyed
<1>3. I \subseteq Nat
  BY DEF Robot
<1> HIDE DEF q, node
<1>4. q \in X
  BY <1>1, <1>2
<1>5. \A p \in X : p \in Nat /\ ~ (q < p)
  <2> TAKE p \in X
  <2>1. p \in Nat
    BY <1>2, <1>3
  <2>2. CASE p # 0 /\ q < p
    <3>1. p \in I /\ node >= O[p]
      BY <1>2, <2>2
    <3>2. O[q] + poses[q] <= O[p] /\ poses[q] \in Nat /\ O[p] \in Nat
      BY <1>1, <1>2, <2>2, <3>1 DEF Apart
    <3> QED BY <1>1, <1>2, <3>1, <3>2
  <2> QED BY <1>1, <2>1, <2>2
<1>6. Max(X) = q
  <2> HIDE DEF X
  <2>1. Max(X) \in X /\ \A p \in X : Max(X) >= p
    <3>1. \A p \in X : q >= p
      BY <1>1, <1>5
    <3>2. \E x \in X : \A p \in X : x >= p
      BY <1>4, <3>1
    <3> QED BY <3>2, GreatestIs
  <2> DEFINE m == Max(X)
  <2>2. m \in Nat /\ ~ (q < m) /\ m >= q
    BY <1>4, <1>5, <2>1
  <2> HIDE DEF m
  <2>3. m = q
    BY <1>1, <2>2
  <2> QED BY <2>3 DEF m
<1>7. RecoveredVertex(O, node) = <<q, node - O[q]>>
  <2>1. q \in DOMAIN O
    BY <1>1, <1>2
  <2> QED BY <1>6, <2>1, Zenon DEF RecoveredVertex
<1>8. node - O[q] = v[2]
  BY <1>1, <1>2
<1>9. RecoveredVertex(O, node) = v
  BY <1>1, <1>7, <1>8
<1> QED BY <1>9 DEF node

(* So a selection among edges of the robots included survives both ways.   *)
THEOREM RecoveredSame ==
  ASSUME NEW r \in Robot, NEW I \in SUBSET Robot, nb_poses[r] \in [Robot -> Nat],
         NEW S \in SUBSET Edge, \A e \in S : RobotsOf(e) \subseteq I,
         \A e \in S : \A v \in e : v[2] < nb_poses[r][v[1]]
  PROVE  Recovered(Offsets(r, I), S) = S
<1> DEFINE O == Offsets(r, I)
           Back(v) == RecoveredVertex(O, Rekeyed(O, v))
<1>1. O \in [I -> Nat] /\ Apart(O, nb_poses[r])
  BY OffsetsAre
<1> HIDE DEF O
<1>2. \A e \in S : \A v \in e : Back(v) = v
  <2> TAKE e \in S
  <2> TAKE v \in e
  <2>1. v \in Vertex
    BY EdgeIs
  <2>2. v[1] \in I
    BY DEF RobotsOf
  <2> QED BY <1>1, <2>1, <2>2, RecoveredIs
<1>3. Recovered(O, S) = {{Back(v) : v \in e} : e \in S}
  BY DEF Recovered
<1> HIDE DEF Back
<1>4. \A e \in S : {Back(v) : v \in e} = e
  BY <1>2
<1>5. {{Back(v) : v \in e} : e \in S} = S
  <2> DEFINE F(e) == {Back(v) : v \in e}
  <2>1. \A e \in S : F(e) = e
    BY <1>4
  <2> HIDE DEF F
  <2>2. {F(e) : e \in S} = S
    BY <2>1
  <2> QED BY <2>2 DEF F
<1> QED BY <1>3, <1>5 DEF O

(* There are finitely many edges, so some edge is the heaviest.            *)
LEMMA FiniteEdges == IsFiniteSet(Edge)
<1> DEFINE Ids(r) == {r} \X (0..(MaxKeyframes[r] - 1))
           All == {Ids(r) : r \in Robot}
           f == [r \in Robot |-> Ids(r)]
<1>1. IsFiniteSet(Robot)
  <2>1. 0 \in Int /\ max_nb_robots - 1 \in Int
    BY SelectionAssumption
  <2> QED BY <2>1, FS_Interval DEF Robot
<1>2. ASSUME NEW r \in Robot PROVE IsFiniteSet(Ids(r))
  <2>1. 0 \in Int /\ MaxKeyframes[r] - 1 \in Int
    BY SelectionAssumption
  <2>2. IsFiniteSet(0..(MaxKeyframes[r] - 1))
    BY <2>1, FS_Interval
  <2>3. IsFiniteSet({r})
    BY FS_Singleton
  <2> QED BY <2>2, <2>3, FS_Product
<1>3. f \in Surjection(Robot, All)
  <2> HIDE DEF Ids
  <2>1. f \in [Robot -> All]
    OBVIOUS
  <2>2. \A t \in All : \E s \in Robot : f[s] = t
    OBVIOUS
  <2> HIDE DEF f, All
  <2> QED BY <2>1, <2>2 DEF Surjection
<1>4. IsFiniteSet(All)
  <2> HIDE DEF f, All
  <2> QED BY <1>1, <1>3, FS_Surjection
<1>5. IsFiniteSet(UNION All)
  <2>1. \A T \in All : IsFiniteSet(T)
    <3> HIDE DEF Ids
    <3> QED BY <1>2
  <2> HIDE DEF All
  <2> QED BY <1>4, <2>1, FS_UNION
<1>6. Vertex = UNION All
  BY DEF Vertex
<1> HIDE DEF All
<1>7. IsFiniteSet(SUBSET Vertex)
  BY <1>5, <1>6, FS_SUBSET
<1>8. Edge \in SUBSET (SUBSET Vertex)
  BY DEF Edge
<1> QED BY <1>7, <1>8, FS_Subset

LEMMA HeaviestIs ==
  ASSUME NEW E \in SUBSET Edge, E # {}
  PROVE  Heaviest(E) \in E
<1>1. IsFiniteSet(E)
  BY FiniteEdges, FS_Subset
<1>2. \A e \in E : Similarity[e] \in Nat
  BY SelectionAssumption
<1>3. \E e \in E : \A f \in E : Similarity[f] <= Similarity[e]
  BY <1>1, <1>2, GreatestWeight
<1> QED BY <1>3 DEF Heaviest

(* Both ways of selecting choose among the edges given.                    *)
LEMMA BiasedIs ==
  ASSUME NEW r, NEW I, NEW E \in SUBSET Edge, NEW n
  PROVE  Biased(r, I, E, n) \subseteq E
<1> DEFINE N == max_nb_robots
           at(q) == {e \in E : q \in RobotsOf(e)}
           unlinked == {q \in I \ linked[r] : at(q) # {}}
           Step(k, C) == IF k - 1 \in unlinked
                         THEN C \cup {Heaviest(IF at(k - 1) \subseteq C THEN at(k - 1)
                                                            ELSE at(k - 1) \ C)}
                         ELSE C
           G == [k \in 1..N |-> [t \in SUBSET E |-> Step(k, t)]]
           chosen == CHOOSE chosen : chosen = [k \in 0..N |->
                      IF k = 0 THEN {} ELSE Step(k, chosen[k - 1])]
<1>1. N \in Nat
  BY SelectionAssumption
<1>2. \A k \in 1..N : \A t \in SUBSET E : Step(k, t) \in SUBSET E
  <2> TAKE k \in 1..N
  <2> TAKE t \in SUBSET E
  <2> DEFINE X == IF at(k - 1) \subseteq t THEN at(k - 1) ELSE at(k - 1) \ t
  <2>1. CASE k - 1 \in unlinked
    <3>1. X \in SUBSET E /\ X # {}
      BY <2>1
    <3> HIDE DEF X
    <3>2. Heaviest(X) \in E
      BY <3>1, HeaviestIs
    <3>3. Step(k, t) = t \cup {Heaviest(X)}
      BY <2>1, Zenon DEF X
    <3> HIDE DEF Step
    <3> QED BY <3>2, <3>3
  <2>2. CASE k - 1 \notin unlinked
    BY <2>2
  <2> QED BY <2>1, <2>2
<1> HIDE DEF Step
<1>3. PICK f : Iterates(f, SUBSET E, {}, G, N)
  <2>1. \A k \in 1..N : \A t \in SUBSET E : G[k][t] \in SUBSET E
    BY <1>2
  <2>2. {} \in SUBSET E
    OBVIOUS
  <2> HIDE DEF G
  <2> QED BY <1>1, <2>1, <2>2, IteratesExists
<1>4. f = [k \in 0..N |-> IF k = 0 THEN {} ELSE Step(k, f[k - 1])]
  <2>1. f \in [0..N -> SUBSET E] /\ f[0] = {}
    BY <1>3 DEF Iterates
  <2>2. \A k \in 1..N : f[k] = Step(k, f[k - 1])
    <3> TAKE k \in 1..N
    <3>1. f[k] = G[k][f[k - 1]] /\ f[k - 1] \in SUBSET E
      <4>1. k - 1 \in 0..N
        BY <1>1
      <4> HIDE DEF G, N
      <4>2. f[k] = G[k][f[k - 1]]
        BY <1>3 DEF Iterates
      <4>3. f[k - 1] \in SUBSET E
        BY <2>1, <4>1, Zenon
      <4> QED BY <4>2, <4>3
    <3>2. \A t \in SUBSET E : G[k][t] = Step(k, t)
      OBVIOUS
    <3> HIDE DEF G
    <3> QED BY <3>1, <3>2
  <2>3. \A k \in 0..N : k = 0 \/ k \in 1..N
    BY <1>1
  <2> HIDE DEF G, N
  <2> QED BY <2>1, <2>2, <2>3
<1>5. chosen = [k \in 0..N |-> IF k = 0 THEN {} ELSE Step(k, chosen[k - 1])]
  <2> HIDE DEF G, N
  <2> QED BY <1>4, Zenon
<1>6. Biased(r, I, E, n) =
        chosen[N] \cup Top(E \ chosen[N], n - Cardinality(unlinked))
  BY Zenon DEF Biased, Step
<1> HIDE DEF chosen
<1>7. \A k \in 0..N : chosen[k] \in SUBSET E
  <2>1. 0 \in 0..N /\ \A k \in 1..N : k \in 0..N /\ k # 0
    BY <1>1
  <2>2. chosen[0] = {} /\ \A k \in 1..N : chosen[k] = Step(k, chosen[k - 1])
    BY <1>5, <2>1
  <2>3. \A k \in 1..N : chosen[k - 1] \in SUBSET E => chosen[k] \in SUBSET E
    BY <1>2, <2>2
  <2>4. chosen[0] \in SUBSET E
    BY <2>2
  <2> HIDE DEF N
  <2> QED BY <1>1, <2>3, <2>4, StaysIn
<1>8. N \in 0..N
  BY <1>1
<1>9. chosen[N] \subseteq E
  BY <1>7, <1>8
<1> DEFINE D == E \ chosen[N]
           k == n - Cardinality(unlinked)
<1>10. Top(D, k) \subseteq D
  BY DEF Top
<1> HIDE DEF unlinked, D, k
<1>11. D \subseteq E
  BY DEF D
<1>12. Biased(r, I, E, n) = chosen[N] \cup Top(D, k)
  BY <1>6 DEF D, k
<1> QED BY <1>9, <1>10, <1>11, <1>12

LEMMA SelectionsAre ==
  ASSUME NEW r, NEW I, NEW E \in SUBSET Edge, NEW S \in Selections(r, I, E)
  PROVE  S \in SUBSET E
<1> DEFINE n == Min({inter_robot_loop_closure_budget, Cardinality(E)})
<1>1. Selections(r, I, E) =
        IF I \subseteq linked[r] THEN kSubset(n, E) ELSE {Biased(r, I, E, n)}
  BY Zenon DEF Selections
<1> HIDE DEF n
<1>2. CASE I \subseteq linked[r]
  BY <1>1, <1>2 DEF kSubset
<1>3. CASE ~ (I \subseteq linked[r])
  <2>1. S = Biased(r, I, E, n)
    BY <1>1, <1>3
  <2> QED BY <2>1, BiasedIs
<1> QED BY <1>2, <1>3

(* Keyframes are bounded, and no robot has descriptors that were not made. *)
Makers ==
  /\ keyframes \in [Robot -> Nat]
  /\ learned \in [Robot -> [Robot -> Nat]]
  /\ \A r \in Robot : keyframes[r] <= MaxKeyframes[r]
  /\ \A r, q \in Robot : learned[r][q] <= keyframes[q]

(* A candidate is a match of keyframes that were made, and each of its     *)
(* keyframes is counted in the number of poses of its robot.               *)
Selecting ==
  /\ candidates \in [Robot -> SUBSET Edge]
  /\ considered \in [Robot -> SUBSET Edge]
  /\ nb_poses \in [Robot -> [Robot -> Nat]]
  /\ \A r \in Robot : Bounded(nb_poses[r])
  /\ \A r \in Robot : candidates[r] \subseteq Made(keyframes)
  /\ \A r \in Robot : \A e \in candidates[r] : \A v \in e : v[2] < nb_poses[r][v[1]]

(* The edges and robots that were linked.                                  *)
Linking ==
  /\ fixed \in [Robot -> SUBSET Edge]
  /\ linked \in [Robot -> SUBSET Robot]

(* Every match in a buffer was found, at an index below some bound.        *)
Sharing ==
  /\ matches \in [Robot -> Buffer(Made(keyframes))]
  /\ lastSent \in [Robot -> [Robot -> Nat \cup {-1}]]
  /\ inRange \in [Robot -> SUBSET Robot]
  /\ faults \in Nat

(* A request is for matches that were found.                               *)
Asked ==
  /\ requests \subseteq [vertex : Vertex, matches : SUBSET Vertex]
  /\ descriptors \subseteq [to : Robot, vertex : Vertex, matches : SUBSET Vertex]
  /\ \A m \in requests \cup descriptors :
       m.matches # {} /\ \A w \in m.matches : {m.vertex, w} \in Made(keyframes)

(* What was told was registered.                                           *)
Told ==
  /\ results \subseteq [to : Robot, edge : Edge, success : BOOLEAN]
  /\ \A m \in results : m.edge \in registered
  /\ registered \subseteq Edge
  /\ lost \subseteq Edge

(* The inductive invariant.                                                *)
SelectionInv ==
  Makers /\ Selecting /\ Linking /\ Sharing /\ Asked /\ Told /\ SelectedAccounted

(* The edges that messages are for.                                        *)
LEMMA EdgesOfIs ==
  ASSUME NEW M, NEW e
  PROVE  e \in EdgesOf(M) <=> \E m \in M : \E w \in m.matches : e = {m.vertex, w}
BY DEF EdgesOf

LEMMA EdgesOfGrows ==
  ASSUME NEW M, NEW L, M \subseteq L
  PROVE  EdgesOf(M) \subseteq EdgesOf(L)
BY DEF EdgesOf

(* The parts imply the invariants of the run.                              *)
LEMMA SelectionTyped == SelectionInv => TypeOK /\ RequestsAnswerable
<1> SUFFICES ASSUME SelectionInv PROVE TypeOK /\ RequestsAnswerable
  OBVIOUS
<1>1. ASSUME NEW r \in Robot
      PROVE  /\ DOMAIN matches[r] \in SUBSET Nat
             /\ \A i \in DOMAIN matches[r] : matches[r][i] \in Edge
  <2> DEFINE R == Made(keyframes)
  <2>1. matches[r] \in Buffer(R)
    BY DEF SelectionInv, Sharing
  <2>2. R \subseteq Edge
    BY DEF Made
  <2> HIDE DEF R
  <2>3. DOMAIN matches[r] \in SUBSET Nat /\ matches[r] \in [DOMAIN matches[r] -> R]
    BY <2>1, BufferIs
  <2> QED BY <2>2, <2>3
<1>2. TypeOK
  BY <1>1 DEF TypeOK, SelectionInv, Makers, Selecting, Linking, Sharing, Asked, Told
<1>3. ASSUME NEW m \in requests \cup descriptors
      PROVE  /\ m.vertex[2] < keyframes[m.vertex[1]]
             /\ m.matches # {}
             /\ \A w \in m.matches : /\ w[2] < keyframes[w[1]]
                                     /\ {m.vertex, w} \in Edge
                                     /\ Similarity[{m.vertex, w}] > 0
  <2>1. m.matches # {} /\ \A w \in m.matches : {m.vertex, w} \in Made(keyframes)
    BY DEF SelectionInv, Asked
  <2>2. \A w \in m.matches : /\ {m.vertex, w} \in Edge
                             /\ Similarity[{m.vertex, w}] > 0
                             /\ \A v \in {m.vertex, w} : v[2] < keyframes[v[1]]
    BY <2>1 DEF Made
  <2>3. \A w \in m.matches : m.vertex \in {m.vertex, w} /\ w \in {m.vertex, w}
    OBVIOUS
  <2>4. \A w \in m.matches : /\ m.vertex[2] < keyframes[m.vertex[1]]
                             /\ w[2] < keyframes[w[1]]
    BY <2>2, <2>3
  <2> QED BY <2>1, <2>2, <2>4
<1>4. RequestsAnswerable
  BY <1>3 DEF RequestsAnswerable
<1> QED BY <1>2, <1>4

(* The invariant holds initially.                                          *)
LEMMA SelectionInit == Init => SelectionInv
<1> SUFFICES ASSUME Init PROVE SelectionInv
  OBVIOUS
<1> USE DEF Init
<1>1. Makers
  BY SelectionAssumption DEF Makers
<1>2. Selecting
  BY SelectionAssumption DEF Selecting, Bounded
<1>3. Linking
  BY DEF Linking
<1>4. Sharing
  <2>1. <<>> \in Buffer(Made(keyframes))
    <3> DEFINE R == Made(keyframes)
    <3>1. <<>> \in [{} -> R] /\ {} \in SUBSET Nat
      OBVIOUS
    <3> HIDE DEF R
    <3>2. <<>> \in Buffer(R)
      BY <3>1, BufferMade
    <3> QED BY <3>2 DEF R
  <2>2. matches \in [Robot -> Buffer(Made(keyframes))]
    BY <2>1
  <2>3. inRange \in [Robot -> SUBSET Robot]
    BY DEF Others
  <2> QED BY <2>2, <2>3 DEF Sharing
<1>5. Asked /\ Told /\ SelectedAccounted
  BY DEF Asked, Told, SelectedAccounted
<1> QED BY <1>1, <1>2, <1>3, <1>4, <1>5 DEF SelectionInv

----------------------------------------------------------------------------
(* What the actions have in common.                                        *)

(* No keyframe is unmade.                                                  *)
Grew == \A r \in Robot : keyframes[r] <= keyframes'[r]

(* Adding matches that were found, at some robots.                         *)
LEMMA AddKeeps ==
  ASSUME Makers, Makers', Grew, Selecting, NEW S, NEW E \in SUBSET Made(keyframes'),
         AddMatches(S, E)
  PROVE  Selecting' /\ considered' = considered /\ UNCHANGED <<fixed, linked>>
<1>1. /\ candidates' = [r \in Robot |-> IF r \in S THEN candidates[r] \cup Added(r, E)
                                                   ELSE candidates[r]]
      /\ nb_poses' = [r \in Robot |-> IF r \in S THEN UpdatePoses(nb_poses[r], Added(r, E))
                                                 ELSE nb_poses[r]]
      /\ UNCHANGED <<fixed, considered, linked>>
  BY DEF AddMatches
<1>2. Made(keyframes) \subseteq Made(keyframes') /\ Made(keyframes') \subseteq Edge
  <2>1. keyframes \in [Robot -> Nat] /\ keyframes' \in [Robot -> Nat]
    BY DEF Makers
  <2>2. Made(keyframes) \subseteq Made(keyframes')
    BY <2>1, MadeGrows DEF Grew
  <2> QED BY <2>2 DEF Made
<1>3. ASSUME NEW r \in Robot
      PROVE  /\ candidates'[r] \in SUBSET Edge
             /\ candidates'[r] \subseteq Made(keyframes')
             /\ nb_poses'[r] \in [Robot -> Nat]
             /\ Bounded(nb_poses'[r])
             /\ \A e \in candidates'[r] : \A v \in e : v[2] < nb_poses'[r][v[1]]
  <2>1. /\ nb_poses[r] \in [Robot -> Nat] /\ Bounded(nb_poses[r])
        /\ candidates[r] \subseteq Made(keyframes)
        /\ \A e \in candidates[r] : \A v \in e : v[2] < nb_poses[r][v[1]]
    BY DEF Selecting
  <2>2. CASE r \notin S
    <3>1. candidates'[r] = candidates[r] /\ nb_poses'[r] = nb_poses[r]
      BY <1>1, <2>2
    <3> QED BY <1>2, <2>1, <3>1
  <2>3. CASE r \in S
    <3> DEFINE A == Added(r, E)
               U == UpdatePoses(nb_poses[r], A)
    <3>1. A \in SUBSET Edge /\ A \subseteq Made(keyframes')
      BY <1>2 DEF Added
    <3>2. candidates'[r] = candidates[r] \cup A /\ nb_poses'[r] = U
      BY <1>1, <2>3
    <3> HIDE DEF A
    <3>3. /\ U \in [Robot -> Nat] /\ Bounded(U)
          /\ \A q \in Robot : nb_poses[r][q] <= U[q]
          /\ \A e \in A : \A v \in e : v[2] < U[v[1]]
      BY <2>1, <3>1, PosesAre
    <3> HIDE DEF U
    <3>4. ASSUME NEW e \in candidates[r], NEW v \in e
          PROVE  v[2] < U[v[1]]
      <4>1. v \in Vertex
        BY <1>2, <2>1, EdgeIs
      <4>2. v[1] \in Robot /\ v[2] \in Nat
        BY <4>1, VertexIs
      <4>3. v[2] < nb_poses[r][v[1]]
        BY <2>1
      <4> QED BY <2>1, <3>3, <4>2, <4>3
    <3>5. candidates'[r] \subseteq Made(keyframes')
      BY <1>2, <2>1, <3>1, <3>2
    <3>6. \A e \in candidates'[r] : \A v \in e : v[2] < U[v[1]]
      BY <3>2, <3>3, <3>4
    <3> QED BY <1>2, <3>2, <3>3, <3>5, <3>6
  <2> QED BY <2>2, <2>3
<1>4. candidates' \in [Robot -> SUBSET Edge] /\ nb_poses' \in [Robot -> [Robot -> Nat]]
  BY <1>1, <1>3
<1> QED BY <1>1, <1>3, <1>4 DEF Selecting

(* Removing edges from the candidates of one robot.                        *)
LEMMA RemoveKeeps ==
  ASSUME Selecting, NEW r \in Robot, NEW E \in SUBSET Edge, Remove(r, E),
         UNCHANGED <<keyframes, nb_poses>>
  PROVE  /\ Selecting'
         /\ \A q \in Robot : considered'[q] \subseteq considered[q] \cup E
<1>1. /\ candidates' = [candidates EXCEPT ![r] = @ \ E]
      /\ considered' = [considered EXCEPT ![r] = @ \cup E]
  BY DEF Remove
<1>2. /\ candidates \in [Robot -> SUBSET Edge] /\ considered \in [Robot -> SUBSET Edge]
  BY DEF Selecting
<1>3. /\ candidates' \in [Robot -> SUBSET Edge] /\ considered' \in [Robot -> SUBSET Edge]
  BY <1>1, <1>2
<1>4. /\ \A q \in Robot : candidates'[q] \subseteq candidates[q]
      /\ \A q \in Robot : considered'[q] \subseteq considered[q] \cup E
  BY <1>1, <1>2
<1>5. \A q \in Robot : candidates'[q] \subseteq Made(keyframes')
  BY <1>4 DEF Selecting
<1>6. \A q \in Robot : \A e \in candidates'[q] : \A v \in e : v[2] < nb_poses'[q][v[1]]
  BY <1>4 DEF Selecting
<1>7. nb_poses' \in [Robot -> [Robot -> Nat]] /\ \A q \in Robot : Bounded(nb_poses'[q])
  BY DEF Selecting
<1> QED BY <1>3, <1>4, <1>5, <1>6, <1>7 DEF Selecting

(* Messages do not change and keyframes are only made.                     *)
LEMMA MessagesKept ==
  ASSUME Makers, Makers', Grew, Asked, Told, SelectedAccounted,
         UNCHANGED <<requests, descriptors, results, registered, lost, considered>>
  PROVE  Asked' /\ Told' /\ SelectedAccounted'
<1>1. Made(keyframes) \subseteq Made(keyframes')
  <2>1. keyframes \in [Robot -> Nat] /\ keyframes' \in [Robot -> Nat]
    BY DEF Makers
  <2> QED BY <2>1, MadeGrows DEF Grew
<1>2. Asked'
  BY <1>1 DEF Asked
<1>3. Told' /\ SelectedAccounted'
  BY DEF Told, SelectedAccounted
<1> QED BY <1>2, <1>3

(* The buffer of one robot changes.                                        *)
LEMMA BuffersKept ==
  ASSUME Makers, Makers', Grew, matches \in [Robot -> Buffer(Made(keyframes))],
         NEW r \in Robot, NEW b \in Buffer(Made(keyframes')),
         matches' = [matches EXCEPT ![r] = b]
  PROVE  matches' \in [Robot -> Buffer(Made(keyframes'))]
<1>1. keyframes \in [Robot -> Nat] /\ keyframes' \in [Robot -> Nat]
  BY DEF Makers
<1>2. Made(keyframes) \subseteq Made(keyframes')
  BY <1>1, MadeGrows DEF Grew
<1>3. Buffer(Made(keyframes)) \subseteq Buffer(Made(keyframes'))
  BY <1>2, BufferGrows
<1> QED BY <1>3

(* A robot makes a keyframe and matches it with what it has of the others. *)
LEMMA KeyframeStep ==
  ASSUME SelectionInv, NEW r \in Robot, ReceiveKeyframe(r)
  PROVE  SelectionInv'
<1> DEFINE k == keyframes[r]
           v == <<r, k>>
           E == UNION {Matched(v, Known(r, q)) : q \in Others(r)}
           R == Made(keyframes')
<1>1. /\ k < MaxKeyframes[r] /\ keyframes' = [keyframes EXCEPT ![r] = k + 1]
      /\ AddMatches({r}, E) /\ matches' = [matches EXCEPT ![r] = Buffered(r, v)]
      /\ UNCHANGED <<learned, lastSent, inRange, channels, history, faults>>
  BY DEF ReceiveKeyframe
<1> HIDE DEF E
<1>2. /\ Makers /\ Selecting /\ Linking /\ Sharing /\ Asked /\ Told
      /\ SelectedAccounted
  BY DEF SelectionInv
<1>3. /\ keyframes \in [Robot -> Nat] /\ learned \in [Robot -> [Robot -> Nat]]
      /\ MaxKeyframes \in [Robot -> Nat]
      /\ \A q \in Robot : keyframes[q] <= MaxKeyframes[q]
      /\ \A p, q \in Robot : learned[p][q] <= keyframes[q]
  BY <1>2, SelectionAssumption DEF Makers
<1>4. k \in Nat /\ keyframes' \in [Robot -> Nat] /\ keyframes'[r] = k + 1
      /\ \A q \in Robot : q # r => keyframes'[q] = keyframes[q]
  BY <1>1, <1>3
<1>5. \A q \in Robot : keyframes'[q] <= MaxKeyframes[q]
  <2> TAKE q \in Robot
  <2>1. MaxKeyframes[q] \in Nat
    BY <1>3
  <2> HIDE DEF k
  <2> QED BY <1>1, <1>3, <1>4, <2>1
<1>6. Grew
  <2>1. \A q \in Robot : keyframes[q] \in Nat
    BY <1>3
  <2> QED BY <1>4, <2>1 DEF Grew
<1>7. \A p, q \in Robot : learned'[p][q] <= keyframes'[q] /\ learned[p][q] <= keyframes'[q]
  <2> TAKE p, q \in Robot
  <2>1. learned[p][q] \in Nat /\ keyframes[q] \in Nat /\ keyframes'[q] \in Nat
    BY <1>3, <1>4
  <2>2. keyframes[q] <= keyframes'[q] /\ learned' = learned
    BY <1>1, <1>6 DEF Grew
  <2> QED BY <1>3, <2>1, <2>2
<1>8. Makers'
  BY <1>1, <1>3, <1>4, <1>5, <1>7 DEF Makers
<1>9. \A q \in Robot : q # r => Matched(v, Known(r, q)) \subseteq R
  <2> TAKE q \in Robot
  <2> HAVE q # r
  <2> DEFINE n == learned[r][q]
  <2>1. n \in Nat /\ n <= keyframes'[q] /\ k < keyframes'[r]
    BY <1>3, <1>4, <1>7
  <2> HIDE DEF n, k
  <2>2. Matched(<<r, k>>, {q} \X (0..(n - 1))) \subseteq R
    BY <1>4, <1>5, <2>1, MatchedMade
  <2> QED BY <2>2 DEF Known, n
<1>10. E \in SUBSET R
  BY <1>9 DEF E, Others
<1> HIDE DEF v, k
<1>11. Selecting' /\ considered' = considered /\ UNCHANGED <<fixed, linked>>
  BY <1>1, <1>2, <1>6, <1>8, <1>10, AddKeeps
<1>12. Buffered(r, v) \in Buffer(R)
  <2>1. matches[r] \in Buffer(Made(keyframes))
    BY <1>2 DEF Sharing
  <2>2. Made(keyframes) \subseteq R
    BY <1>3, <1>4, <1>6, MadeGrows DEF Grew
  <2> HIDE DEF R
  <2>3. matches[r] \in Buffer(R)
    BY <2>1, <2>2, BufferGrows
  <2> QED BY <1>9, <2>3, BufferedIs
<1>13. Sharing'
  <2>1. matches' \in [Robot -> Buffer(Made(keyframes'))]
    <3>1. matches \in [Robot -> Buffer(Made(keyframes))]
      BY <1>2 DEF Sharing
    <3> DEFINE b == Buffered(r, v)
    <3>2. b \in Buffer(Made(keyframes')) /\ matches' = [matches EXCEPT ![r] = b]
      BY <1>1, <1>12
    <3> HIDE DEF b, R
    <3> QED BY <1>2, <1>6, <1>8, <3>1, <3>2, BuffersKept
  <2> QED BY <1>1, <1>2, <2>1 DEF Sharing
<1>14. Linking'
  BY <1>2, <1>11 DEF Linking
<1>15. Asked' /\ Told' /\ SelectedAccounted'
  BY <1>1, <1>2, <1>6, <1>8, <1>11, MessagesKept DEF channels, history
<1> QED BY <1>8, <1>11, <1>13, <1>14, <1>15 DEF SelectionInv

(* A robot matches the next descriptor of another one with its own.        *)
LEMMA DescriptorStep ==
  ASSUME SelectionInv, NEW r \in Robot, NEW q \in Others(r),
         GlobalDescriptorCallback(r, q)
  PROVE  SelectionInv'
<1> DEFINE k == learned[r][q]
           v == <<q, k>>
           E == Matched(v, Own(r))
           R == Made(keyframes')
<1>1. /\ k < keyframes[q] /\ learned' = [learned EXCEPT ![r][q] = k + 1]
      /\ AddMatches({r}, E)
      /\ matches' = [matches EXCEPT ![r] =
                       IF E = {} THEN @ ELSE Stored(@, CHOOSE e \in E : TRUE)]
      /\ UNCHANGED <<keyframes, lastSent, inRange, channels, history, faults>>
  BY DEF GlobalDescriptorCallback
<1> HIDE DEF E
<1>2. /\ Makers /\ Selecting /\ Linking /\ Sharing /\ Asked /\ Told
      /\ SelectedAccounted
  BY DEF SelectionInv
<1>3. /\ keyframes \in [Robot -> Nat] /\ learned \in [Robot -> [Robot -> Nat]]
      /\ \A p \in Robot : keyframes[p] <= MaxKeyframes[p]
      /\ \A p, t \in Robot : learned[p][t] <= keyframes[t]
  BY <1>2 DEF Makers
<1>4. q \in Robot /\ q # r /\ k \in Nat /\ keyframes[q] \in Nat /\ keyframes[r] \in Nat
  BY <1>3 DEF Others
<1>5. Grew
  <2>1. \A p \in Robot : keyframes[p] \in Nat /\ keyframes' = keyframes
    BY <1>1, <1>3
  <2> QED BY <2>1 DEF Grew
<1>6. Makers'
  <2>1. learned' \in [Robot -> [Robot -> Nat]]
    BY <1>1, <1>3, <1>4
  <2>2. \A p, t \in Robot : learned'[p][t] = IF p = r /\ t = q THEN k + 1 ELSE learned[p][t]
    BY <1>1, <1>3, <1>4
  <2>3. k + 1 <= keyframes[q]
    BY <1>1, <1>4
  <2>4. \A p, t \in Robot : learned'[p][t] <= keyframes[t]
    BY <1>3, <2>2, <2>3
  <2>5. keyframes' = keyframes
    BY <1>1
  <2> QED BY <1>3, <2>1, <2>4, <2>5 DEF Makers
<1>7. E \in SUBSET R
  <2> DEFINE n == keyframes[r]
  <2>1. n \in Nat /\ n <= keyframes[r] /\ r # q
    BY <1>4
  <2> HIDE DEF n, k
  <2>2. Matched(<<q, k>>, {r} \X (0..(n - 1))) \subseteq Made(keyframes)
    BY <1>1, <1>3, <1>4, <2>1, MatchedMade
  <2>3. keyframes' = keyframes
    BY <1>1
  <2> QED BY <2>2, <2>3 DEF Own, n, E
<1> HIDE DEF v, k
<1>8. Selecting' /\ considered' = considered /\ UNCHANGED <<fixed, linked>>
  BY <1>1, <1>2, <1>5, <1>6, <1>7, AddKeeps
<1> DEFINE e == CHOOSE e \in E : TRUE
           b == IF E = {} THEN matches[r] ELSE Stored(matches[r], e)
<1>9. b \in Buffer(R)
  <2>1. matches[r] \in Buffer(R)
    <3>1. matches[r] \in Buffer(Made(keyframes)) /\ keyframes' = keyframes
      BY <1>1, <1>2 DEF Sharing
    <3> QED BY <3>1
  <2>2. CASE E # {}
    <3>1. e \in R
      BY <1>7, <2>2
    <3> HIDE DEF e, R
    <3>2. Stored(matches[r], e) \in Buffer(R)
      BY <2>1, <3>1, StoredIs
    <3> QED BY <2>2, <3>2
  <2> HIDE DEF R
  <2> QED BY <2>1, <2>2
<1>10. Sharing'
  <2>1. matches \in [Robot -> Buffer(Made(keyframes))]
    BY <1>2 DEF Sharing
  <2>2. matches' = [matches EXCEPT ![r] = b]
    BY <1>1, <2>1
  <2> HIDE DEF b
  <2>3. matches' \in [Robot -> Buffer(Made(keyframes'))]
    BY <1>2, <1>5, <1>6, <1>9, <2>1, <2>2, BuffersKept
  <2> QED BY <1>1, <1>2, <2>3 DEF Sharing
<1>11. Linking'
  BY <1>2, <1>8 DEF Linking
<1>12. Asked' /\ Told' /\ SelectedAccounted'
  BY <1>1, <1>2, <1>5, <1>6, <1>8, MessagesKept DEF channels, history
<1> QED BY <1>6, <1>8, <1>10, <1>11, <1>12 DEF SelectionInv

(* The buffers do not reach beyond their last index.                       *)
LEMMA LastIndex ==
  ASSUME NEW R, NEW f \in Buffer(R), f # <<>>
  PROVE  Max(DOMAIN f) \in Nat
<1> DEFINE X == DOMAIN f
<1>1. X \in SUBSET Nat /\ f \in [X -> R]
  BY BufferIs
<1>2. PICK b \in Nat : \A i \in X : i <= b
  BY BufferIs
<1>3. X # {}
  BY <1>1
<1> HIDE DEF X
<1>4. X \in SUBSET Int /\ b \in Int
  BY <1>1
<1>5. \E x \in X : \A y \in X : x >= y
  BY <1>2, <1>3, <1>4, GreatestInteger
<1>6. Max(X) \in X
  BY <1>5, GreatestIs
<1> QED BY <1>1, <1>6 DEF X

(* Sets of robots are finite.                                              *)
LEMMA RobotsCount ==
  ASSUME NEW S \in SUBSET Robot
  PROVE  Cardinality(S) \in Nat
<1>1. IsFiniteSet(Robot)
  <2>1. 0 \in Int /\ max_nb_robots - 1 \in Int
    BY SelectionAssumption
  <2> QED BY <2>1, FS_Interval DEF Robot
<1> QED BY <1>1, FS_Subset, FS_CardinalityType

(* Asking again who is alive gives robots, and outages that are counted.   *)
LEMMA RangeKept ==
  ASSUME inRange \in [Robot -> SUBSET Robot], faults \in Nat,
         NEW r \in Robot, NEW now \in Again(r), NEW losses \in Nat,
         RangeBecomes(r, now, losses)
  PROVE  inRange' \in [Robot -> SUBSET Robot] /\ faults' \in Nat
<1>1. now \in SUBSET Robot
  BY DEF Again, Others
<1>2. /\ inRange' = [inRange EXCEPT ![r] = now]
      /\ faults' = faults + losses + Cardinality(inRange[r] \ now)
  BY DEF RangeBecomes
<1>3. inRange[r] \ now \in SUBSET Robot
  OBVIOUS
<1>4. Cardinality(inRange[r] \ now) \in Nat
  BY <1>3, RobotsCount
<1>5. inRange' \in [Robot -> SUBSET Robot]
  BY <1>1, <1>2
<1> QED BY <1>2, <1>4, <1>5

(* A robot sends its matches; the robots that get them add them.           *)
LEMMA TimerStep ==
  ASSUME SelectionInv, NEW r \in Robot, InterRobotMatchesTimerCallback(r)
  PROVE  SelectionInv'
<1>0. PICK now \in Again(r) :
        \E marked \in {inRange[r], now},
           edges \in {{matches[r][k] : k \in Transmitted(r, SendFrom(r), now)}},
           missed \in SUBSET Others(r) :
        \E sent \in {[q \in Robot |-> IF q \in marked THEN Max(DOMAIN matches[r])
                                                      ELSE lastSent[r][q]]} :
          /\ lastSent' = [lastSent EXCEPT ![r] = sent]
          /\ matches' = [matches EXCEPT ![r] = [k \in Kept(r, sent) |-> @[k]]]
          /\ edges = {} => missed = {}
          /\ RangeBecomes(r, now, Cardinality(missed))
          /\ AddMatches(Others(r) \ missed, edges)
  BY Zenon DEF InterRobotMatchesTimerCallback
<1> DEFINE edges == {matches[r][k] : k \in Transmitted(r, SendFrom(r), now)}
           Sent(S) == [q \in Robot |-> IF q \in S THEN Max(DOMAIN matches[r])
                                                  ELSE lastSent[r][q]]
<1>a. PICK marked \in {inRange[r], now}, missed \in SUBSET Others(r) :
        /\ lastSent' = [lastSent EXCEPT ![r] = Sent(marked)]
        /\ matches' = [matches EXCEPT ![r] = [k \in Kept(r, Sent(marked)) |-> @[k]]]
        /\ RangeBecomes(r, now, Cardinality(missed))
        /\ AddMatches(Others(r) \ missed, edges)
  BY <1>0, Zenon
<1> DEFINE sent == Sent(marked)
           b == [k \in Kept(r, sent) |-> matches[r][k]]
           R == Made(keyframes)
<1>1. /\ lastSent' = [lastSent EXCEPT ![r] = sent]
      /\ matches' = [matches EXCEPT ![r] = [k \in Kept(r, sent) |-> @[k]]]
      /\ RangeBecomes(r, now, Cardinality(missed))
      /\ AddMatches(Others(r) \ missed, edges)
  BY <1>a
<1>2. /\ matches[r] # <<>>
      /\ UNCHANGED <<keyframes, learned, channels, history>>
  BY DEF InterRobotMatchesTimerCallback
<1> HIDE DEF edges, Sent, sent
<1>3. /\ Makers /\ Selecting /\ Linking /\ Sharing /\ Asked /\ Told
      /\ SelectedAccounted
  BY DEF SelectionInv
<1>4. Makers' /\ Grew
  <2>1. \A q \in Robot : keyframes[q] \in Nat
    BY <1>3 DEF Makers
  <2> QED BY <1>2, <1>3, <2>1 DEF Makers, Grew
<1>5. /\ matches \in [Robot -> Buffer(R)] /\ matches[r] \in Buffer(R)
      /\ lastSent \in [Robot -> [Robot -> Nat \cup {-1}]]
      /\ inRange \in [Robot -> SUBSET Robot] /\ faults \in Nat
  BY <1>3 DEF Sharing
<1>6. keyframes' = keyframes
  BY <1>2
<1>7. DOMAIN matches[r] \in SUBSET Nat /\ matches[r] \in [DOMAIN matches[r] -> R]
  <2> HIDE DEF R
  <2> QED BY <1>5, BufferIs
<1>8. edges \in SUBSET Made(keyframes')
  <2>1. ASSUME NEW from PROVE Transmitted(r, from, now) \subseteq DOMAIN matches[r]
    BY Zenon DEF Transmitted
  <2>2. \A k \in Transmitted(r, SendFrom(r), now) : matches[r][k] \in R
    BY <1>7, <2>1
  <2>3. edges \subseteq R
    BY <2>2 DEF edges
  <2> QED BY <1>6, <2>3
<1>9. Selecting' /\ considered' = considered /\ UNCHANGED <<fixed, linked>>
  <2> HIDE DEF R
  <2> QED BY <1>1, <1>3, <1>4, <1>8, AddKeeps
<1>10. lastSent' \in [Robot -> [Robot -> Nat \cup {-1}]]
  <2> DEFINE last == Max(DOMAIN matches[r])
  <2>1. last \in Nat
    <3> HIDE DEF R
    <3> QED BY <1>2, <1>5, LastIndex
  <2> HIDE DEF last
  <2>2. sent = [q \in Robot |-> IF q \in marked THEN last ELSE lastSent[r][q]]
    BY DEF sent, Sent, last
  <2>3. sent \in [Robot -> Nat \cup {-1}]
    BY <1>5, <2>1, <2>2
  <2> QED BY <1>1, <1>5, <2>3
<1>11. matches' \in [Robot -> Buffer(Made(keyframes'))]
  <2>1. matches' = [matches EXCEPT ![r] = b]
    BY <1>1, <1>5
  <2> DEFINE D == Kept(r, sent)
  <2>2. D \subseteq DOMAIN matches[r]
    BY Zenon DEF Kept
  <2> HIDE DEF D
  <2>3. b = [k \in D |-> matches[r][k]]
    BY DEF D
  <2> HIDE DEF b
  <2>4. b \in [D -> R] /\ D \in SUBSET Nat
    BY <1>7, <2>2, <2>3
  <2>5. b \in Buffer(R)
    <3> HIDE DEF R
    <3>1. PICK c \in Nat : \A i \in DOMAIN matches[r] : i <= c
      BY <1>5, BufferIs
    <3> QED BY <2>2, <2>4, <3>1, BufferMade
  <2>6. b \in Buffer(Made(keyframes'))
    BY <1>6, <2>5
  <2> QED BY <1>3, <1>4, <1>5, <2>1, <2>6, BuffersKept
<1>12. inRange' \in [Robot -> SUBSET Robot] /\ faults' \in Nat
  <2>1. missed \in SUBSET Robot
    BY DEF Others
  <2>2. Cardinality(missed) \in Nat
    BY <2>1, RobotsCount
  <2> QED BY <1>1, <1>5, <2>2, RangeKept
<1>13. Sharing'
  BY <1>2, <1>5, <1>10, <1>11, <1>12 DEF Sharing
<1>14. Linking'
  BY <1>3, <1>9 DEF Linking
<1>15. Asked' /\ Told' /\ SelectedAccounted'
  BY <1>2, <1>3, <1>4, <1>9, MessagesKept DEF channels, history
<1> QED BY <1>4, <1>9, <1>13, <1>14, <1>15 DEF SelectionInv

(* What a broker's selection asks for: for every edge selected one of the  *)
(* vertices of the cover lists the other.                                  *)
LEMMA CoverAsks ==
  ASSUME NEW E \in SUBSET Edge, NEW C \in Covers(E)
  PROVE  /\ C \subseteq Vertex
         /\ \A v \in C : /\ MatchesAt(E, v) \in SUBSET Vertex
                         /\ MatchesAt(E, v) # {}
                         /\ \A w \in MatchesAt(E, v) : {v, w} \in E
         /\ \A e \in E : \E v \in C : \E w \in MatchesAt(E, v) : e = {v, w}
<1>1. C \in SUBSET UNION E /\ \A e \in E : e \cap C # {}
  BY DEF Covers
<1>2. \A e \in E : \A v \in e : v \in Vertex /\ \E w \in MatchesAt(E, v) : e = {v, w}
  <2> TAKE e \in E
  <2> TAKE v \in e
  <2>1. v \in Vertex
    BY EdgeIs
  <2>2. PICK w \in e : w \in Vertex /\ v[1] # w[1] /\ e = {v, w}
    BY EdgeIs
  <2>3. v # w /\ w \in UNION E
    BY <2>2
  <2>4. w \in MatchesAt(E, v)
    BY <2>2, <2>3 DEF MatchesAt
  <2> QED BY <2>1, <2>2, <2>4
<1>3. UNION E \subseteq Vertex
  BY <1>2
<1>4. ASSUME NEW v \in C
      PROVE  /\ MatchesAt(E, v) \in SUBSET Vertex
             /\ MatchesAt(E, v) # {}
             /\ \A w \in MatchesAt(E, v) : {v, w} \in E
  <2>1. PICK e \in E : v \in e
    BY <1>1
  <2>2. \E w \in MatchesAt(E, v) : e = {v, w}
    BY <1>2, <2>1
  <2> QED BY <1>3, <2>2 DEF MatchesAt
<1>5. ASSUME NEW e \in E
      PROVE  \E v \in C : \E w \in MatchesAt(E, v) : e = {v, w}
  <2>1. PICK v \in e : v \in C
    BY <1>1
  <2> QED BY <1>2, <2>1
<1> QED BY <1>1, <1>3, <1>4, <1>5

(* A broker selects among its candidates: what the solver's nodes are      *)
(* turned back into is what was selected.                                  *)
LEMMA DetectStep ==
  ASSUME SelectionInv, NEW r \in Robot, DetectInter(r)
  PROVE  SelectionInv'
<1> DEFINE I == Included(r)
           R == Made(keyframes)
           New(E, C) == {[vertex |-> v, matches |-> MatchesAt(E, v)] : v \in C}
<1>1. PICK E \in {Recovered(Offsets(r, I), S) :
                    S \in Selections(r, I, Choosable(r, I))} :
        /\ Remove(r, E)
        /\ \E C \in Covers(E) : requests' = requests \cup New(E, C)
  <2>1. \E J \in {Included(r)} : \E offsets \in {Offsets(r, J)} :
          \E E \in {Recovered(offsets, S) : S \in Selections(r, J, Choosable(r, J))} :
            /\ Remove(r, E)
            /\ \E C \in Covers(E) : requests' = requests \cup New(E, C)
    BY Zenon DEF DetectInter, New
  <2> QED BY <2>1, Zenon DEF I
<1>2. PICK S \in Selections(r, I, Choosable(r, I)) : E = Recovered(Offsets(r, I), S)
  OBVIOUS
<1>3. PICK C \in Covers(E) : requests' = requests \cup New(E, C)
  BY <1>1
<1>4. UNCHANGED <<keyframes, learned, fixed, nb_poses, linked, matches, lastSent,
                  descriptors, results, history>>
  BY DEF DetectInter
<1>5. /\ Makers /\ Selecting /\ Linking /\ Sharing /\ Asked /\ Told
      /\ SelectedAccounted
  BY DEF SelectionInv
<1>6. I \in SUBSET Robot
  <2>1. inRange[r] \in SUBSET Robot
    BY <1>5 DEF Sharing
  <2> QED BY <2>1 DEF Included
<1> HIDE DEF I, New
<1>7. /\ candidates[r] \in SUBSET Edge /\ candidates[r] \subseteq R
      /\ \A e \in candidates[r] : \A v \in e : v[2] < nb_poses[r][v[1]]
      /\ nb_poses[r] \in [Robot -> Nat]
  BY <1>5 DEF Selecting
<1>8. /\ S \in SUBSET candidates[r] /\ \A e \in S : RobotsOf(e) \subseteq I
  <2>1. Choosable(r, I) \in SUBSET Edge
    BY <1>7 DEF Choosable
  <2>2. S \in SUBSET Choosable(r, I)
    BY <2>1, SelectionsAre
  <2> QED BY <2>2 DEF Choosable
<1>9. Recovered(Offsets(r, I), S) = S
  <2>1. S \in SUBSET Edge /\ \A e \in S : \A v \in e : v[2] < nb_poses[r][v[1]]
    BY <1>7, <1>8
  <2> QED BY <1>6, <1>7, <1>8, <2>1, RecoveredSame
<1>10. /\ C \in Covers(S) /\ Remove(r, S) /\ requests' = requests \cup New(S, C)
      /\ S \in SUBSET Edge /\ S \subseteq R
  BY <1>2, <1>3, <1>1, <1>7, <1>8, <1>9
<1>11. /\ Selecting' /\ \A q \in Robot : considered'[q] \subseteq considered[q] \cup S
  BY <1>4, <1>5, <1>10, RemoveKeeps
<1>12. /\ C \subseteq Vertex
       /\ \A v \in C : /\ MatchesAt(S, v) \in SUBSET Vertex
                       /\ MatchesAt(S, v) # {}
                       /\ \A w \in MatchesAt(S, v) : {v, w} \in S
       /\ \A e \in S : \E v \in C : \E w \in MatchesAt(S, v) : e = {v, w}
  BY <1>10, CoverAsks
<1>13. ASSUME NEW m \in New(S, C)
       PROVE  /\ m \in [vertex : Vertex, matches : SUBSET Vertex]
              /\ m.matches # {} /\ \A w \in m.matches : {m.vertex, w} \in R
  <2>1. PICK v \in C : m = [vertex |-> v, matches |-> MatchesAt(S, v)]
    BY DEF New
  <2> DEFINE M == MatchesAt(S, v)
  <2>2. /\ v \in Vertex /\ M \in SUBSET Vertex /\ M # {}
        /\ \A w \in M : {v, w} \in R
    BY <1>10, <1>12
  <2> HIDE DEF M, R
  <2>3. m = [vertex |-> v, matches |-> M]
    BY <2>1 DEF M
  <2> QED BY <2>2, <2>3
<1>14. Asked'
  <2>1. requests' \subseteq [vertex : Vertex, matches : SUBSET Vertex]
    BY <1>5, <1>10, <1>13 DEF Asked
  <2>2. \A m \in requests' \cup descriptors :
          m.matches # {} /\ \A w \in m.matches : {m.vertex, w} \in R
    BY <1>5, <1>10, <1>13 DEF Asked
  <2>3. UNCHANGED <<keyframes, descriptors>>
    BY <1>4
  <2> QED BY <1>5, <2>1, <2>2, <2>3 DEF Asked
<1>15. S \subseteq EdgesOf(requests' \cup descriptors')
  <2> SUFFICES ASSUME NEW e \in S PROVE e \in EdgesOf(requests' \cup descriptors')
    OBVIOUS
  <2>1. PICK v \in C : \E w \in MatchesAt(S, v) : e = {v, w}
    BY <1>12
  <2> DEFINE M == MatchesAt(S, v)
             m == [vertex |-> v, matches |-> M]
  <2>2. PICK w \in M : e = {v, w}
    BY <2>1
  <2>3. m \in New(S, C)
    BY DEF New
  <2>4. m \in requests' \cup descriptors' /\ m.matches = M /\ m.vertex = v
    BY <1>10, <2>3
  <2> HIDE DEF m, M
  <2> QED BY <2>2, <2>4, EdgesOfIs
<1>16. SelectedAccounted'
  <2>1. EdgesOf(requests \cup descriptors) \subseteq EdgesOf(requests' \cup descriptors')
    BY <1>4, <1>10, EdgesOfGrows
  <2>2. registered' = registered /\ lost' = lost
    BY <1>4 DEF history
  <2> QED BY <1>5, <1>11, <1>15, <2>1, <2>2 DEF SelectedAccounted
<1>17. inRange' \in [Robot -> SUBSET Robot] /\ faults' \in Nat
  <2>1. PICK now \in Again(r) : RangeBecomes(r, now, 0)
    BY Zenon DEF DetectInter
  <2>2. inRange \in [Robot -> SUBSET Robot] /\ faults \in Nat /\ 0 \in Nat
    BY <1>5 DEF Sharing
  <2> QED BY <2>1, <2>2, RangeKept
<1>18. Makers' /\ Linking' /\ Sharing' /\ Told'
  BY <1>4, <1>5, <1>17 DEF Makers, Linking, Sharing, Told, history
<1> QED BY <1>11, <1>14, <1>16, <1>18 DEF SelectionInv

(* The owner of a vertex answers a request with one message per robot that *)
(* holds a match.                                                          *)
LEMMA RequestStep ==
  ASSUME SelectionInv, NEW m \in requests, SendLocalDescriptorsRequest(m)
  PROVE  SelectionInv'
<1> DEFINE Part(q) == [to |-> q, vertex |-> m.vertex,
                       matches |-> {w \in m.matches : w[1] = q}]
           New == {Part(q) : q \in RobotsOf(m.matches)}
<1>1. /\ requests' = requests \ {m} /\ descriptors' = descriptors \cup New
      /\ UNCHANGED <<keyframes, learned, selector, matches, lastSent, inRange,
                     results, history, faults>>
  BY DEF SendLocalDescriptorsRequest
<1>2. /\ Makers /\ Selecting /\ Linking /\ Sharing /\ Asked /\ Told
      /\ SelectedAccounted
  BY DEF SelectionInv
<1>3. /\ m.vertex \in Vertex /\ m.matches \in SUBSET Vertex
      /\ \A w \in m.matches : {m.vertex, w} \in Made(keyframes)
  BY <1>2 DEF Asked
<1>4. ASSUME NEW d \in New
      PROVE  /\ d \in [to : Robot, vertex : Vertex, matches : SUBSET Vertex]
             /\ d.matches # {}
             /\ \A w \in d.matches : {d.vertex, w} \in Made(keyframes)
  <2>1. PICK q \in RobotsOf(m.matches) : d = Part(q)
    OBVIOUS
  <2>2. PICK w \in m.matches : w[1] = q
    BY DEF RobotsOf
  <2>3. q \in Robot
    BY <1>3, <2>2, VertexIs
  <2>4. d.to = q /\ d.vertex = m.vertex /\ d.matches = {x \in m.matches : x[1] = q}
    BY <2>1
  <2>5. d \in [to : Robot, vertex : Vertex, matches : SUBSET Vertex]
    <3> DEFINE M == {x \in m.matches : x[1] = q}
    <3>1. M \in SUBSET Vertex
      BY <1>3
    <3>2. d = [to |-> q, vertex |-> m.vertex, matches |-> M]
      BY <2>1
    <3> HIDE DEF M
    <3> QED BY <1>3, <2>3, <3>1, <3>2
  <2> QED BY <1>3, <2>2, <2>4, <2>5
<1>5. \A w \in m.matches : \E d \in New : w \in d.matches /\ d.vertex = m.vertex
  <2> TAKE w \in m.matches
  <2>1. w[1] \in RobotsOf(m.matches)
    BY DEF RobotsOf
  <2>2. Part(w[1]) \in New /\ w \in Part(w[1]).matches /\ Part(w[1]).vertex = m.vertex
    BY <2>1
  <2> QED BY <2>2
<1> HIDE DEF New
<1>6. EdgesOf(requests \cup descriptors) \subseteq EdgesOf(requests' \cup descriptors')
  <2> SUFFICES ASSUME NEW e \in EdgesOf(requests \cup descriptors)
               PROVE  e \in EdgesOf(requests' \cup descriptors')
    OBVIOUS
  <2>1. PICK a \in requests \cup descriptors : \E w \in a.matches : e = {a.vertex, w}
    BY EdgesOfIs
  <2>2. PICK w \in a.matches : e = {a.vertex, w}
    BY <2>1
  <2>3. CASE a = m
    <3>1. PICK d \in New : w \in d.matches /\ d.vertex = m.vertex
      BY <1>5, <2>3
    <3>2. d \in requests' \cup descriptors'
      BY <1>1
    <3> QED BY <2>2, <2>3, <3>1, <3>2, EdgesOfIs
  <2>4. CASE a # m
    <3>1. a \in requests' \cup descriptors'
      BY <1>1, <2>4
    <3> QED BY <2>2, <3>1, EdgesOfIs
  <2> QED BY <2>3, <2>4
<1>7. SelectedAccounted'
  BY <1>1, <1>2, <1>6 DEF SelectedAccounted, selector, history
<1>8. Asked'
  <2>1. keyframes' = keyframes
    BY <1>1
  <2> QED BY <1>1, <1>2, <1>4, <2>1 DEF Asked
<1>9. Makers' /\ Linking' /\ Sharing' /\ Told' /\ Selecting'
  BY <1>1, <1>2 DEF Makers, Linking, Sharing, Told, Selecting, selector, history
<1> QED BY <1>7, <1>8, <1>9 DEF SelectionInv

(* The robot that gets descriptors registers their edges and tells all.    *)
LEMMA RegistrationStep ==
  ASSUME SelectionInv, NEW m \in descriptors, ReceiveLocalDescriptors(m)
  PROVE  SelectionInv'
<1>1. PICK success \in [m.matches -> BOOLEAN] :
        results' = results \cup
            {[to |-> q, edge |-> {m.vertex, w}, success |-> success[w]] :
               q \in Robot, w \in m.matches}
  BY DEF ReceiveLocalDescriptors
<1>2. /\ descriptors' = descriptors \ {m}
      /\ registered' = registered \cup {{m.vertex, w} : w \in m.matches}
      /\ UNCHANGED <<keyframes, learned, selector, matches, lastSent, inRange,
                     requests, lost, faults>>
  BY DEF ReceiveLocalDescriptors
<1>3. /\ Makers /\ Selecting /\ Linking /\ Sharing /\ Asked /\ Told
      /\ SelectedAccounted
  BY DEF SelectionInv
<1>4. \A w \in m.matches : {m.vertex, w} \in Edge
  BY <1>3 DEF Asked, Made
<1> DEFINE New == {[to |-> q, edge |-> {m.vertex, w}, success |-> success[w]] :
                     q \in Robot, w \in m.matches}
<1>5. ASSUME NEW d \in New
      PROVE  /\ d \in [to : Robot, edge : Edge, success : BOOLEAN]
             /\ d.edge \in registered'
  <2>1. PICK q \in Robot, w \in m.matches :
          d = [to |-> q, edge |-> {m.vertex, w}, success |-> success[w]]
    OBVIOUS
  <2>2. success[w] \in BOOLEAN
    BY <1>1, <2>1
  <2>3. d \in [to : Robot, edge : Edge, success : BOOLEAN]
    <3> DEFINE e == {m.vertex, w}
               s == success[w]
    <3>1. e \in Edge /\ s \in BOOLEAN
      BY <1>4, <2>2
    <3>2. d = [to |-> q, edge |-> e, success |-> s]
      BY <2>1
    <3> HIDE DEF e, s
    <3> QED BY <3>1, <3>2
  <2>4. d.edge = {m.vertex, w}
    BY <2>1
  <2> QED BY <1>2, <2>3, <2>4
<1>6. results' = results \cup New
  BY <1>1
<1> HIDE DEF New
<1>7. Told'
  <2>1. \A d \in results' : d.edge \in registered'
    BY <1>2, <1>3, <1>5, <1>6 DEF Told
  <2>2. results' \subseteq [to : Robot, edge : Edge, success : BOOLEAN]
    BY <1>3, <1>5, <1>6 DEF Told
  <2>3. registered' \subseteq Edge /\ lost' \subseteq Edge
    BY <1>2, <1>3, <1>4 DEF Told
  <2> QED BY <2>1, <2>2, <2>3 DEF Told
<1>8. EdgesOf(requests \cup descriptors) \subseteq
        registered' \cup EdgesOf(requests' \cup descriptors')
  <2> SUFFICES ASSUME NEW e \in EdgesOf(requests \cup descriptors)
               PROVE  e \in registered' \cup EdgesOf(requests' \cup descriptors')
    OBVIOUS
  <2>1. PICK a \in requests \cup descriptors : \E w \in a.matches : e = {a.vertex, w}
    BY EdgesOfIs
  <2>2. PICK w \in a.matches : e = {a.vertex, w}
    BY <2>1
  <2>3. CASE a = m
    BY <1>2, <2>2, <2>3
  <2>4. CASE a # m
    <3>1. a \in requests' \cup descriptors'
      BY <1>2, <2>4
    <3> QED BY <2>2, <3>1, EdgesOfIs
  <2> QED BY <2>3, <2>4
<1>9. SelectedAccounted'
  <2>1. registered \subseteq registered' /\ UNCHANGED <<considered, lost>>
    BY <1>2 DEF selector
  <2> QED BY <1>3, <1>8, <2>1 DEF SelectedAccounted
<1>10. Asked'
  BY <1>2, <1>3 DEF Asked
<1>11. Makers' /\ Linking' /\ Sharing' /\ Selecting'
  BY <1>2, <1>3 DEF Makers, Linking, Sharing, Selecting, selector
<1> QED BY <1>7, <1>9, <1>10, <1>11 DEF SelectionInv

(* A result takes a registered edge from the candidates of a robot.        *)
LEMMA ResultStep ==
  ASSUME SelectionInv, NEW m \in results, ReceiveInterRobotLoopClosure(m)
  PROVE  SelectionInv'
<1>1. /\ results' = results \ {m} /\ Remove(m.to, {m.edge})
      /\ fixed' = [fixed EXCEPT ![m.to] = IF m.success THEN @ \cup {m.edge} ELSE @]
      /\ linked' = [linked EXCEPT ![m.to] =
                      IF m.success THEN @ \cup RobotsOf(m.edge) ELSE @]
      /\ UNCHANGED <<keyframes, learned, nb_poses, matches, lastSent, inRange,
                     requests, descriptors, history, faults>>
  BY DEF ReceiveInterRobotLoopClosure
<1>2. /\ Makers /\ Selecting /\ Linking /\ Sharing /\ Asked /\ Told
      /\ SelectedAccounted
  BY DEF SelectionInv
<1>3. m.to \in Robot /\ m.edge \in Edge /\ m.edge \in registered
  BY <1>2 DEF Told
<1>4. RobotsOf(m.edge) \in SUBSET Robot
  <2>1. \A v \in m.edge : v \in Vertex
    BY <1>3, EdgeIs
  <2>2. \A v \in m.edge : v[1] \in Robot
    BY <2>1, VertexIs
  <2> QED BY <2>2 DEF RobotsOf
<1> DEFINE e == m.edge
           t == m.to
<1>5. e \in Edge /\ e \in registered /\ t \in Robot /\ Remove(t, {e})
  BY <1>1, <1>3
<1>6. Selecting' /\ \A q \in Robot : considered'[q] \subseteq considered[q] \cup {e}
  <2> HIDE DEF e, t
  <2>1. {e} \in SUBSET Edge
    BY <1>5
  <2> QED BY <1>1, <1>2, <1>5, <2>1, RemoveKeeps
<1>7. Linking'
  <2> HIDE DEF e, t
  <2> DEFINE F == IF m.success THEN fixed[t] \cup {e} ELSE fixed[t]
             L == IF m.success THEN linked[t] \cup RobotsOf(e) ELSE linked[t]
  <2>1. /\ fixed \in [Robot -> SUBSET Edge] /\ linked \in [Robot -> SUBSET Robot]
    BY <1>2 DEF Linking
  <2>2. F \in SUBSET Edge /\ L \in SUBSET Robot
    BY <1>4, <1>5, <2>1 DEF e
  <2>3. fixed' = [fixed EXCEPT ![t] = F] /\ linked' = [linked EXCEPT ![t] = L]
    BY <1>1, <2>1 DEF e, t
  <2> HIDE DEF F, L
  <2> QED BY <2>1, <2>2, <2>3 DEF Linking
<1>8. SelectedAccounted'
  <2> HIDE DEF e, t
  <2>1. UNCHANGED <<requests, descriptors, registered, lost>>
    BY <1>1 DEF history
  <2> QED BY <1>2, <1>5, <1>6, <2>1 DEF SelectedAccounted
<1>9. Told'
  BY <1>1, <1>2 DEF Told, history
<1>10. Makers' /\ Sharing' /\ Asked'
  BY <1>1, <1>2 DEF Makers, Sharing, Asked
<1> QED BY <1>6, <1>7, <1>8, <1>9, <1>10 DEF SelectionInv

(* A monitor loses a neighbour or finds one.                               *)
LEMMA RangeStep ==
  ASSUME SelectionInv, NEW r \in Robot, NEW q \in Others(r),
         GoOutOfRange(r, q) \/ ComeInRange(r, q)
  PROVE  SelectionInv'
<1>1. /\ Makers /\ Selecting /\ Linking /\ Sharing /\ Asked /\ Told
      /\ SelectedAccounted
  BY DEF SelectionInv
<1>2. /\ UNCHANGED <<keyframes, learned, selector, matches, lastSent, channels, history>>
      /\ inRange' = [inRange EXCEPT ![r] = inRange[r] \ {q}]
         \/ inRange' = [inRange EXCEPT ![r] = inRange[r] \cup {q}]
      /\ faults' = faults + 1 \/ faults' = faults
  BY <1>1 DEF GoOutOfRange, ComeInRange, Sharing
<1>3. q \in Robot
  BY DEF Others
<1>4. Sharing'
  <2>1. inRange' \in [Robot -> SUBSET Robot]
    BY <1>1, <1>2, <1>3 DEF Sharing
  <2> QED BY <1>1, <1>2, <2>1 DEF Sharing
<1>5. Makers' /\ Selecting' /\ Linking'
  BY <1>1, <1>2 DEF Makers, Selecting, Linking, selector
<1>6. Asked' /\ Told' /\ SelectedAccounted'
  BY <1>1, <1>2 DEF Asked, Told, SelectedAccounted, selector, channels, history
<1> QED BY <1>4, <1>5, <1>6 DEF SelectionInv

(* The edges of a message that is lost are accounted for as lost.          *)
LEMMA LossStep ==
  ASSUME SelectionInv, Lose
  PROVE  SelectionInv'
<1>1. /\ Makers /\ Selecting /\ Linking /\ Sharing /\ Asked /\ Told
      /\ SelectedAccounted
  BY DEF SelectionInv
<1>2. /\ UNCHANGED <<keyframes, learned, selector, matches, lastSent, inRange,
                     registered>>
      /\ faults' = faults + 1
  BY DEF Lose
<1>3. Makers' /\ Selecting' /\ Linking' /\ Sharing'
  BY <1>1, <1>2 DEF Makers, Selecting, Linking, Sharing, selector
<1>4. UNCHANGED <<keyframes, considered, registered>>
  BY <1>2 DEF selector
<1>5. CASE UNCHANGED <<requests, descriptors, lost>> /\ results' \subseteq results
  <2>1. Asked' /\ Told'
    BY <1>1, <1>4, <1>5 DEF Asked, Told
  <2>2. SelectedAccounted'
    BY <1>1, <1>4, <1>5 DEF SelectedAccounted
  <2> QED BY <1>3, <2>1, <2>2 DEF SelectionInv
<1>6. ASSUME NEW m \in requests \cup descriptors,
             requests \cup descriptors \subseteq requests' \cup descriptors' \cup {m},
             requests' \subseteq requests, descriptors' \subseteq descriptors,
             lost' = lost \cup EdgesOf({m}), results' = results
      PROVE  SelectionInv'
  <2>1. Asked'
    BY <1>1, <1>4, <1>6 DEF Asked
  <2>2. EdgesOf({m}) \subseteq Edge
    <3> SUFFICES ASSUME NEW e \in EdgesOf({m}) PROVE e \in Edge
      OBVIOUS
    <3>1. PICK w \in m.matches : e = {m.vertex, w}
      BY EdgesOfIs
    <3>2. {m.vertex, w} \in Made(keyframes)
      BY <1>1 DEF Asked
    <3> QED BY <3>1, <3>2 DEF Made
  <2>3. Told'
    BY <1>1, <1>4, <1>6, <2>2 DEF Told
  <2>4. EdgesOf(requests \cup descriptors) \subseteq
          EdgesOf(requests' \cup descriptors') \cup EdgesOf({m})
    <3> SUFFICES ASSUME NEW e \in EdgesOf(requests \cup descriptors)
                 PROVE  e \in EdgesOf(requests' \cup descriptors') \cup EdgesOf({m})
      OBVIOUS
    <3>1. PICK a \in requests \cup descriptors : \E w \in a.matches : e = {a.vertex, w}
      BY EdgesOfIs
    <3>2. a \in requests' \cup descriptors' \/ a \in {m}
      BY <1>6
    <3> QED BY <3>1, <3>2, EdgesOfIs
  <2>5. SelectedAccounted'
    BY <1>1, <1>4, <1>6, <2>4 DEF SelectedAccounted
  <2> QED BY <1>3, <2>1, <2>3, <2>5 DEF SelectionInv
<1>7. CASE \E m \in requests : /\ requests' = requests \ {m}
                               /\ lost' = lost \cup EdgesOf({m})
                               /\ UNCHANGED <<descriptors, results>>
  BY <1>6, <1>7
<1>8. CASE \E m \in descriptors : /\ descriptors' = descriptors \ {m}
                                  /\ lost' = lost \cup EdgesOf({m})
                                  /\ UNCHANGED <<requests, results>>
  BY <1>6, <1>8
<1>9. CASE \E m \in results : /\ results' = results \ {m}
                              /\ UNCHANGED <<requests, descriptors, lost>>
  BY <1>5, <1>9
<1> QED BY <1>7, <1>8, <1>9 DEF Lose

(* Every step keeps the invariant.                                         *)
LEMMA SelectionNext == SelectionInv /\ [Next]_vars => SelectionInv'
<1> SUFFICES ASSUME SelectionInv, [Next]_vars
             PROVE  SelectionInv'
  OBVIOUS
<1>1. CASE Deliver
  BY <1>1, RequestStep, RegistrationStep, ResultStep DEF Deliver
<1>2. CASE UNCHANGED vars
  BY <1>2 DEF vars, selector, channels, history, SelectionInv, Makers, Selecting,
              Linking, Sharing, Asked, Told, SelectedAccounted
<1>3. CASE Lose
  BY <1>3, LossStep
<1>4. CASE \E r \in Robot : ReceiveKeyframe(r) \/ InterRobotMatchesTimerCallback(r)
                              \/ DetectInter(r)
  BY <1>4, KeyframeStep, TimerStep, DetectStep
<1>5. CASE \E r \in Robot : \E q \in Others(r) :
             GlobalDescriptorCallback(r, q) \/ GoOutOfRange(r, q) \/ ComeInRange(r, q)
  BY <1>5, DescriptorStep, RangeStep
<1> QED BY <1>1, <1>2, <1>3, <1>4, <1>5 DEF Next

(* The parts of the invariant hold in every reachable state.               *)
THEOREM SelectionInvariance == Spec => []SelectionInv
BY SelectionInit, SelectionNext, PTL DEF Spec

(* Types of the whole state, for any robots, keyframes and similarities: a *)
(* selection of the broker that has been through the solver's numbering    *)
(* and back is a set of edges between keyframes of two robots.             *)
THEOREM TypeCorrect == Spec => []TypeOK
BY SelectionInvariance, SelectionTyped, PTL

(* A request asks a robot for a keyframe it has, for matches that were     *)
(* found: the offsets that compute_offsets() gives the robots keep their   *)
(* keyframes apart, so recover_inter_robot_edges() undoes rekey_edges().   *)
THEOREM RequestsAreAnswerable == Spec => []RequestsAnswerable
BY SelectionInvariance, SelectionTyped, PTL

(* A selected edge is registered, under way, or was lost with a message:   *)
(* the vertices of every cover ask for all of the selected edges.          *)
THEOREM SelectedEdgesAccounted == Spec => []SelectedAccounted
<1>1. SelectionInv => SelectedAccounted
  BY DEF SelectionInv
<1> QED BY <1>1, SelectionInvariance, PTL
=============================================================================
