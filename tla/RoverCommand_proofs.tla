------------------------ MODULE RoverCommand_proofs ------------------------
(***************************************************************************)
(* Theorems about the command path, for any rovers, axes, speeds and queue *)
(* depth and any sequence of keys, stops and commands: velocities are      *)
(* feasible, a teleop that goes silent or learns of a stop leaves a zero   *)
(* behind, and teleop and arbiter come to the same stop state.             *)
(***************************************************************************)
EXTENDS RoverCommand, TLAPS, FiniteSetTheorems

(* RoverState of the code.                                                 *)
RoverState ==
  [held : [Axis -> BOOLEAN], dir : [Axis -> Direction \cup {0}], target : Twist,
   cur : Twist, ceiling : [Axis -> 1..MaxSpeed], idle : BOOLEAN]

Released(s) == \A x \in Axis : ~ s.held[x]

(* Between iterations, idle is set only for a rover at rest: the teleop    *)
(* decides by idle and not by what it last sent.                           *)
IdleRests == \A r \in Rover : rover[r].idle => AtRest(rover[r]) /\ Released(rover[r])

TeleopTypes ==
  /\ rover \in [Rover -> RoverState]
  /\ sent \in [Rover -> {{}} \cup {{t} : t \in Twist}]
  /\ active \in Rover /\ broadcast \in BOOLEAN
  /\ stop \in BOOLEAN /\ running \in BOOLEAN /\ presses \in 0..MaxPresses

TeleopInv == TeleopTypes /\ IdleRests

----------------------------------------------------------------------------
(* One axis.                                                               *)

LEMMA ClampIn ==
  ASSUME NEW v \in Int, NEW limit \in 1..MaxSpeed
  PROVE  Clamp(v, limit) \in Velocity
BY TeleopAssumption DEF Clamp, Velocity

LEMMA CoastIn ==
  ASSUME NEW v \in Velocity
  PROVE  Coast(v) \in Velocity
BY TeleopAssumption DEF Coast, Velocity

(* Following moves one step at most, except down to the ceiling.           *)
LEMMA FollowNear ==
  ASSUME NEW cur \in Velocity, NEW target \in Velocity, NEW limit \in 1..MaxSpeed
  PROVE  /\ Follow(cur, target, limit) \in Velocity
         /\ cur \in -limit..limit => Follow(cur, target, limit) - cur \in -1..1
         /\ cur = 0 /\ target = 0 => Follow(cur, target, limit) = 0
<1>1. cur \in Int /\ target \in Int /\ limit \in Int /\ limit >= 1 /\ MaxSpeed \in Int
  BY TeleopAssumption DEF Velocity
<1> DEFINE next == cur + Clamp(target - cur, 1)
<1>2. next \in Int /\ next - cur \in -1..1 /\ (cur = 0 /\ target = 0 => next = 0)
  BY <1>1 DEF Clamp
<1>3. Follow(cur, target, limit) = Clamp(next, limit)
  BY DEF Follow
<1> HIDE DEF next
<1>4. Clamp(next, limit) \in Velocity
  BY <1>2, ClampIn
<1>5. cur \in -limit..limit => Clamp(next, limit) - cur \in -1..1
  BY <1>1, <1>2 DEF Clamp
<1>6. next = 0 => Clamp(next, limit) = 0
  BY <1>1 DEF Clamp
<1> QED BY <1>2, <1>3, <1>4, <1>5, <1>6

----------------------------------------------------------------------------
(* One rover.                                                              *)

LEMMA Stopped ==
  ASSUME NEW s \in RoverState
  PROVE  /\ HardStop(s) \in RoverState /\ ResetInPlace(s) \in RoverState
         /\ AtRest(HardStop(s)) /\ Released(HardStop(s)) /\ HardStop(s).idle = s.idle
         /\ AtRest(ResetInPlace(s)) /\ Released(ResetInPlace(s))
         /\ ResetInPlace(s).idle = s.idle
<1>1. Zero \in Twist /\ Zero \in [Axis -> Direction \cup {0}]
  BY TeleopAssumption DEF Zero, Twist, Velocity, Direction
<1>2. [x \in Axis |-> FALSE] \in [Axis -> BOOLEAN]
  OBVIOUS
<1>3. /\ HardStop(s) \in RoverState /\ HardStop(s).idle = s.idle
      /\ HardStop(s).target = Zero /\ HardStop(s).cur = Zero
      /\ HardStop(s).held = [x \in Axis |-> FALSE]
  BY <1>1, <1>2 DEF HardStop, RoverState
<1>4. /\ ResetInPlace(s) \in RoverState /\ ResetInPlace(s).idle = s.idle
      /\ ResetInPlace(s).target = Zero /\ ResetInPlace(s).cur = Zero
      /\ ResetInPlace(s).held = [x \in Axis |-> FALSE]
  BY <1>3 DEF ResetInPlace, RoverState
<1> QED BY <1>3, <1>4 DEF AtRest, Released

LEMMA OnePeriod ==
  ASSUME NEW s \in RoverState, NEW quiet \in SUBSET Axis
  PROVE  /\ Ticked(s, quiet) \in RoverState
         /\ Ticked(s, quiet).ceiling = s.ceiling
         /\ Ticked(s, quiet).idle =>
              AtRest(Ticked(s, quiet)) /\ Released(Ticked(s, quiet))
         /\ AtRest(s) /\ Released(s) => AtRest(Ticked(s, quiet))
         /\ \A x \in Axis :
              s.cur[x] \in -s.ceiling[x]..s.ceiling[x] =>
                Ticked(s, quiet).cur[x] - s.cur[x] \in -1..1
<1> DEFINE held == [x \in Axis |-> s.held[x] /\ x \notin quiet]
           target == Ramp(s, held)
           cur == [x \in Axis |-> Follow(s.cur[x], target[x], s.ceiling[x])]
           idle == target = Zero /\ cur = Zero /\ \A x \in Axis : ~ held[x]
           t == Ticked(s, quiet)
<1>1. t = [s EXCEPT !.held = held, !.target = target, !.cur = cur, !.idle = idle]
  BY DEF Ticked
<1>2. /\ s.held \in [Axis -> BOOLEAN] /\ s.target \in [Axis -> Velocity]
      /\ s.cur \in [Axis -> Velocity] /\ s.ceiling \in [Axis -> 1..MaxSpeed]
      /\ s.dir \in [Axis -> Direction \cup {0}]
  BY DEF RoverState, Twist
<1>3. held \in [Axis -> BOOLEAN]
  OBVIOUS
<1>4. idle \in BOOLEAN
  BY Zenon
<1>5. target = [x \in Axis |-> IF held[x] THEN Clamp(s.target[x] + s.dir[x], s.ceiling[x])
                                          ELSE Coast(s.target[x])]
  BY DEF Ramp
<1> HIDE DEF held, target
<1>6. target \in [Axis -> Velocity]
  <2>1. ASSUME NEW x \in Axis
        PROVE  /\ Clamp(s.target[x] + s.dir[x], s.ceiling[x]) \in Velocity
               /\ Coast(s.target[x]) \in Velocity
    <3>1. s.target[x] \in Velocity /\ s.ceiling[x] \in 1..MaxSpeed
          /\ s.dir[x] \in Direction \cup {0}
      BY <1>2
    <3>2. s.target[x] + s.dir[x] \in Int
      BY <3>1, TeleopAssumption DEF Velocity, Direction
    <3> QED BY <3>1, <3>2, ClampIn, CoastIn
  <2> QED BY <1>5, <2>1
<1>7. ASSUME NEW x \in Axis
      PROVE  /\ Follow(s.cur[x], target[x], s.ceiling[x]) \in Velocity
             /\ s.cur[x] \in -s.ceiling[x]..s.ceiling[x] =>
                  Follow(s.cur[x], target[x], s.ceiling[x]) - s.cur[x] \in -1..1
             /\ s.cur[x] = 0 /\ target[x] = 0 =>
                  Follow(s.cur[x], target[x], s.ceiling[x]) = 0
  <2>1. s.cur[x] \in Velocity /\ target[x] \in Velocity /\ s.ceiling[x] \in 1..MaxSpeed
    BY <1>2, <1>6
  <2> QED BY <2>1, FollowNear
<1>8. cur \in [Axis -> Velocity]
  BY <1>7
<1>9. ASSUME AtRest(s), Released(s)
      PROVE  target = Zero /\ cur = Zero
  <2>1. \A x \in Axis : ~ held[x] /\ s.target[x] = 0 /\ s.cur[x] = 0
    BY <1>9 DEF AtRest, Released, Zero, held
  <2>2. \A x \in Axis : target[x] = 0
    BY <1>5, <2>1 DEF Coast
  <2>3. \A x \in Axis : cur[x] = 0
    BY <1>7, <2>1, <2>2
  <2> QED BY <1>6, <1>8, <2>2, <2>3 DEF Zero
<1>10. \A x \in Axis : s.cur[x] \in -s.ceiling[x]..s.ceiling[x] =>
                         cur[x] - s.cur[x] \in -1..1
  BY <1>7
<1> HIDE DEF cur, idle
<1>11. /\ t \in RoverState /\ t.ceiling = s.ceiling
       /\ t.held = held /\ t.target = target /\ t.cur = cur /\ t.idle = idle
  BY <1>1, <1>3, <1>4, <1>6, <1>8 DEF RoverState, Twist
<1>12. idle => target = Zero /\ cur = Zero /\ \A x \in Axis : ~ held[x]
  BY DEF idle
<1> HIDE DEF t
<1>13. t.idle => AtRest(t) /\ Released(t)
  BY <1>11, <1>12 DEF AtRest, Released
<1>14. AtRest(s) /\ Released(s) => AtRest(t)
  BY <1>9, <1>11 DEF AtRest
<1>15. \A x \in Axis : s.cur[x] \in -s.ceiling[x]..s.ceiling[x] =>
                         t.cur[x] - s.cur[x] \in -1..1
  BY <1>10, <1>11
<1> QED BY <1>11, <1>13, <1>14, <1>15 DEF t

LEMMA SilentRests ==
  ASSUME NEW s
  PROVE  Silent(s) <=> s.idle /\ AtRest(s) /\ Released(s)
BY DEF Silent, Moving, Released

----------------------------------------------------------------------------
(* One iteration of the teleop.                                            *)

(* What a key, or none, may make of the rovers before they are published.  *)
Keyed(s) ==
  /\ s \in [Rover -> RoverState]
  /\ \A r \in Rover :
       /\ s[r].idle = rover[r].idle
       /\ s[r].cur = rover[r].cur \/ (AtRest(s[r]) /\ Released(s[r]))

Feasible(r) ==
  \A x \in Axis :
    \/ rover'[r].cur[x] - rover[r].cur[x] \in -1..1
    \/ AtRest(rover'[r])
    \/ rover[r].cur[x] \notin -rover'[r].ceiling[x]..rover'[r].ceiling[x]

(* Whoever goes silent sends a zero first.                                 *)
LeavesZero(r) ==
  Silent(rover'[r]) =>
    \/ sent'[r] = {Zero}
    \/ sent'[r] = {} /\ Silent(rover[r])

LEMMA PublishStep ==
  ASSUME TeleopInv, NEW s, Keyed(s), NEW e \in BOOLEAN, NEW quiet \in Quiet,
         Publish(s, e, quiet)
  PROVE  /\ rover' \in [Rover -> RoverState] /\ stop' \in BOOLEAN
         /\ sent' \in [Rover -> {{}} \cup {{t} : t \in Twist}]
         /\ IdleRests'
         /\ \A r \in Rover : Feasible(r) /\ LeavesZero(r)
<1>1. stop' \in BOOLEAN
  BY DEF Publish
<1>2. \A r \in Rover : s[r] \in RoverState /\ quiet[r] \in SUBSET Axis
  BY DEF Keyed, Quiet
<1>3. Zero \in Twist
  BY TeleopAssumption DEF Zero, Twist, Velocity
<1>4. CASE e
  <2>1. /\ rover' = [r \in Rover |-> HardStop(s[r])]
        /\ sent' = [r \in Rover |-> {Zero}]
    BY <1>4 DEF Publish
  <2>2. \A r \in Rover : /\ HardStop(s[r]) \in RoverState
                         /\ AtRest(HardStop(s[r])) /\ Released(HardStop(s[r]))
    BY <1>2, Stopped
  <2>3. \A r \in Rover : rover'[r] = HardStop(s[r]) /\ sent'[r] = {Zero}
    BY <2>1
  <2>4. IdleRests'
    BY <2>2, <2>3 DEF IdleRests
  <2>5. \A r \in Rover : Feasible(r) /\ LeavesZero(r)
    BY <2>2, <2>3 DEF Feasible, LeavesZero
  <2> QED BY <1>1, <1>3, <2>1, <2>2, <2>4, <2>5
<1>5. CASE ~ e
  <2>1. /\ rover' = [r \in Rover |-> IF Silent(s[r]) THEN s[r] ELSE Ticked(s[r], quiet[r])]
        /\ sent' = [r \in Rover |-> IF Silent(s[r]) THEN {} ELSE {rover'[r].cur}]
    BY <1>5 DEF Publish
  <2>2. ASSUME NEW r \in Rover
        PROVE  /\ rover'[r] \in RoverState
               /\ sent'[r] \in {{}} \cup {{t} : t \in Twist}
               /\ rover'[r].idle => AtRest(rover'[r]) /\ Released(rover'[r])
               /\ Feasible(r) /\ LeavesZero(r)
    <3>1. CASE Silent(s[r])
      <4>1. rover'[r] = s[r] /\ sent'[r] = {}
        BY <2>1, <3>1
      <4>2. s[r].idle /\ AtRest(s[r]) /\ Released(s[r])
        BY <3>1, SilentRests
      <4>3. Silent(rover[r])
        BY <4>2, SilentRests DEF Keyed, TeleopInv, IdleRests
      <4> QED BY <1>2, <4>1, <4>2, <4>3 DEF Feasible, LeavesZero
    <3>2. CASE ~ Silent(s[r])
      <4> DEFINE t == Ticked(s[r], quiet[r])
      <4>1. rover'[r] = t /\ sent'[r] = {t.cur}
        BY <2>1, <3>2
      <4>2. /\ t \in RoverState /\ t.ceiling = s[r].ceiling
            /\ t.idle => AtRest(t) /\ Released(t)
            /\ AtRest(s[r]) /\ Released(s[r]) => AtRest(t)
            /\ \A x \in Axis :
                 s[r].cur[x] \in -s[r].ceiling[x]..s[r].ceiling[x] =>
                   t.cur[x] - s[r].cur[x] \in -1..1
        BY <1>2, OnePeriod
      <4> HIDE DEF t
      <4>3. t.cur \in Twist
        BY <4>2 DEF RoverState
      <4>4. Feasible(r)
        <5>1. CASE s[r].cur = rover[r].cur
          BY <4>1, <4>2, <5>1 DEF Feasible
        <5>2. CASE AtRest(s[r]) /\ Released(s[r])
          BY <4>1, <4>2, <5>2 DEF Feasible
        <5> QED BY <5>1, <5>2 DEF Keyed
      <4>5. LeavesZero(r)
        <5>1. Silent(t) => t.cur = Zero
          BY SilentRests DEF AtRest
        <5> QED BY <4>1, <5>1 DEF LeavesZero
      <4> QED BY <4>1, <4>2, <4>3, <4>4, <4>5
    <3> QED BY <3>1, <3>2
  <2>3. rover' \in [Rover -> RoverState]
    <3>1. rover' = [r \in Rover |-> rover'[r]]
      BY <2>1
    <3> QED BY <2>2, <3>1
  <2>4. sent' \in [Rover -> {{}} \cup {{t} : t \in Twist}]
    <3>1. sent' = [r \in Rover |-> sent'[r]]
      BY <2>1
    <3> QED BY <2>2, <3>1
  <2>5. IdleRests'
    BY <2>2 DEF IdleRests
  <2> QED BY <1>1, <2>2, <2>3, <2>4, <2>5
<1> QED BY <1>4, <1>5

(* Keys change the rovers addressed.                                       *)
LEMMA KeyedRovers ==
  ASSUME TeleopInv, NEW R \in SUBSET Rover, NEW new,
         \A r \in R : /\ new[r] \in RoverState /\ new[r].idle = rover[r].idle
                      /\ \/ new[r].cur = rover[r].cur
                         \/ AtRest(new[r]) /\ Released(new[r])
  PROVE  Keyed(Updated(R, new))
BY DEF Keyed, Updated, TeleopInv, TeleopTypes

LEMMA KeyStep ==
  ASSUME TeleopInv, NEW e \in BOOLEAN, NEW quiet \in Quiet,
         Key(e, quiet) \/ NoKey(e, quiet)
  PROVE  /\ \E s : Keyed(s) /\ Publish(s, e, quiet)
         /\ active' \in Rover /\ broadcast' \in BOOLEAN
         /\ running' \in BOOLEAN /\ presses' \in 0..MaxPresses /\ running
<1>1. /\ rover \in [Rover -> RoverState] /\ active \in Rover /\ broadcast \in BOOLEAN
      /\ running \in BOOLEAN /\ presses \in 0..MaxPresses
  BY DEF TeleopInv, TeleopTypes
<1>2. Keyed(rover)
  BY <1>1 DEF Keyed
<1>3. Targets \in SUBSET Rover /\ {active} \in SUBSET Rover
  BY <1>1 DEF Targets
<1>4. running' \in BOOLEAN /\ running
  BY <1>1 DEF Key, NoKey
<1>5. presses' \in 0..MaxPresses
  BY <1>1, TeleopAssumption DEF Key, NoKey
<1>6. CASE NoKey(e, quiet)
  BY <1>1, <1>2, <1>4, <1>5, <1>6 DEF NoKey
<1>7. CASE Arrow(e, quiet)
  <2>1. PICK x \in Axis, d \in Direction :
          Publish(Updated(Targets, [r \in Rover |-> Press(rover[r], x, d)]), e, quiet)
    BY <1>7 DEF Arrow
  <2> DEFINE new == [r \in Rover |-> Press(rover[r], x, d)]
  <2>2. ASSUME NEW r \in Rover
        PROVE  new[r] \in RoverState /\ new[r].idle = rover[r].idle /\ new[r].cur = rover[r].cur
    BY <1>1 DEF Press, RoverState
  <2> HIDE DEF new
  <2>3. Keyed(Updated(Targets, new))
    BY <1>3, <2>2, KeyedRovers
  <2>4. active' = active /\ broadcast' = broadcast
    BY <1>7 DEF Arrow
  <2> QED BY <1>1, <1>4, <1>5, <2>1, <2>3, <2>4 DEF new
<1>8. CASE Space(e, quiet)
  <2> DEFINE new == [r \in Rover |-> HardStop(rover[r])]
  <2>1. /\ Publish(Updated(Targets, new), e, quiet)
        /\ active' = active /\ broadcast' = broadcast
    BY <1>8 DEF Space
  <2>2. \A r \in Rover : /\ new[r] \in RoverState /\ new[r].idle = rover[r].idle
                         /\ AtRest(new[r]) /\ Released(new[r])
    BY <1>1, Stopped
  <2> HIDE DEF new
  <2>3. Keyed(Updated(Targets, new))
    BY <1>3, <2>2, KeyedRovers
  <2> QED BY <1>1, <1>4, <1>5, <2>1, <2>3
<1>9. CASE Reset(e, quiet)
  <2> DEFINE new == [r \in Rover |-> ResetInPlace(rover[r])]
  <2>1. /\ Publish(Updated({active}, new), e, quiet)
        /\ active' = active /\ broadcast' = broadcast
    BY <1>9 DEF Reset
  <2>2. \A r \in Rover : /\ new[r] \in RoverState /\ new[r].idle = rover[r].idle
                         /\ AtRest(new[r]) /\ Released(new[r])
    BY <1>1, Stopped
  <2> HIDE DEF new
  <2>3. Keyed(Updated({active}, new))
    BY <1>3, <2>2, KeyedRovers
  <2> QED BY <1>1, <1>4, <1>5, <2>1, <2>3
<1>10. CASE SetCeiling(e, quiet)
  <2>1. PICK x \in Axis, v \in 1..MaxSpeed :
          Publish(Updated({active}, [r \in Rover |-> [rover[r] EXCEPT !.ceiling[x] = v]]),
                  e, quiet)
    BY <1>10 DEF SetCeiling
  <2> DEFINE new == [r \in Rover |-> [rover[r] EXCEPT !.ceiling[x] = v]]
  <2>2. ASSUME NEW r \in Rover
        PROVE  new[r] \in RoverState /\ new[r].idle = rover[r].idle /\ new[r].cur = rover[r].cur
    BY <1>1 DEF RoverState
  <2> HIDE DEF new
  <2>3. Keyed(Updated({active}, new))
    BY <1>3, <2>2, KeyedRovers
  <2>4. active' = active /\ broadcast' = broadcast
    BY <1>10 DEF SetCeiling
  <2> QED BY <1>1, <1>4, <1>5, <2>1, <2>3, <2>4 DEF new
<1>11. CASE Select(e, quiet) \/ ToggleBroadcast(e, quiet)
  <2>1. active' \in Rover /\ broadcast' \in BOOLEAN
    BY <1>1, <1>11 DEF Select, ToggleBroadcast
  <2> QED BY <1>2, <1>4, <1>5, <1>11, <2>1 DEF Select, ToggleBroadcast
<1> QED BY <1>6, <1>7, <1>8, <1>9, <1>10, <1>11 DEF Key

LEMMA LoopStep ==
  ASSUME TeleopInv, NEW e \in BOOLEAN, NEW quiet \in Quiet,
         Key(e, quiet) \/ NoKey(e, quiet)
  PROVE  TeleopInv' /\ running /\ \A r \in Rover : Feasible(r) /\ LeavesZero(r)
<1>1. PICK s : Keyed(s) /\ Publish(s, e, quiet)
  BY KeyStep
<1>2. /\ active' \in Rover /\ broadcast' \in BOOLEAN
      /\ running' \in BOOLEAN /\ presses' \in 0..MaxPresses /\ running
  BY KeyStep
<1>3. /\ rover' \in [Rover -> RoverState] /\ stop' \in BOOLEAN
      /\ sent' \in [Rover -> {{}} \cup {{t} : t \in Twist}]
      /\ IdleRests'
      /\ \A r \in Rover : Feasible(r) /\ LeavesZero(r)
  BY <1>1, PublishStep
<1> QED BY <1>2, <1>3 DEF TeleopInv, TeleopTypes

LEMMA QuitStep ==
  ASSUME TeleopInv, Quit
  PROVE  TeleopInv' /\ rover' = rover /\ running' = FALSE
<1>1. Zero \in Twist
  BY TeleopAssumption DEF Zero, Twist, Velocity
<1>2. sent' \in [Rover -> {{}} \cup {{t} : t \in Twist}]
  BY <1>1 DEF Quit
<1> QED BY <1>2 DEF Quit, TeleopInv, TeleopTypes, IdleRests

LEMMA TeleopStart == TeleopInit => TeleopInv
<1> SUFFICES ASSUME TeleopInit PROVE TeleopInv
  OBVIOUS
<1>1. Zero \in Twist /\ Zero \in [Axis -> Direction \cup {0}]
  BY TeleopAssumption DEF Zero, Twist, Velocity, Direction
<1>2. [x \in Axis |-> MaxSpeed] \in [Axis -> 1..MaxSpeed]
  BY TeleopAssumption
<1>3. rover \in [Rover -> RoverState] /\ \A r \in Rover : rover[r].idle = FALSE
  BY <1>1, <1>2 DEF TeleopInit, RoverState
<1>4. IdleRests
  BY <1>3 DEF IdleRests
<1>5. sent \in [Rover -> {{}} \cup {{t} : t \in Twist}]
  BY DEF TeleopInit
<1>6. presses \in 0..MaxPresses
  BY TeleopAssumption DEF TeleopInit
<1> QED BY <1>3, <1>4, <1>5, <1>6 DEF TeleopInit, TeleopInv, TeleopTypes

LEMMA TeleopKeeps == TeleopInv /\ [TeleopNext]_teleopVars => TeleopInv'
<1>1. TeleopInv /\ UNCHANGED teleopVars => TeleopInv'
  BY DEF teleopVars, TeleopInv, TeleopTypes, IdleRests
<1> QED BY <1>1, LoopStep, QuitStep DEF TeleopNext

(* From one period to the next a velocity changes by one step at most,     *)
(* but for stops and a ceiling lowered below it, for any rovers and axes   *)
(* and whatever keys come in whatever order.                               *)
THEOREM FeasibleVelocities == TeleopSpec => FeasibleBelowCeiling
<1>1. ASSUME TeleopInv, [TeleopNext]_teleopVars
      PROVE  [\A r \in Rover : Feasible(r)]_rover
  <2>1. CASE UNCHANGED teleopVars
    BY <2>1 DEF teleopVars
  <2> QED BY <1>1, <2>1, LoopStep, QuitStep DEF TeleopNext
<1>2. [\A r \in Rover : Feasible(r)]_rover =>
        [\A r \in Rover : \A x \in Axis :
           \/ rover'[r].cur[x] - rover[r].cur[x] \in -1..1
           \/ AtRest(rover'[r])
           \/ rover[r].cur[x] \notin -rover'[r].ceiling[x]..rover'[r].ceiling[x]]_rover
  BY DEF Feasible
<1> QED BY <1>1, <1>2, TeleopStart, TeleopKeeps, PTL DEF TeleopSpec, FeasibleBelowCeiling

----------------------------------------------------------------------------
(* The topics.                                                             *)

LEMMA AppendLast ==
  ASSUME NEW S, NEW t \in Seq(S), NEW m \in S
  PROVE  /\ Append(t, m) \in Seq(S) /\ Append(t, m) # <<>>
         /\ Append(t, m)[Len(Append(t, m))] = m
OBVIOUS

(* What is left of a queue ends as the queue did.                          *)
LEMMA RestLast ==
  ASSUME NEW S, NEW q \in Seq(S), NEW t \in Seq(S), q # <<>>,
         Len(t) = Len(q) - 1, \A n \in 1..Len(t) : t[n] = q[n + 1]
  PROVE  /\ t = <<>> => q[1] = q[Len(q)]
         /\ t # <<>> => t[Len(t)] = q[Len(q)]
<1>1. Len(q) \in Nat /\ Len(t) \in Nat
  OBVIOUS
<1>2. CASE t = <<>>
  <2>1. Len(t) = 0
    BY <1>2
  <2>2. Len(q) = 1
    BY <1>1, <2>1
  <2> QED BY <1>2, <2>2
<1>3. CASE t # <<>>
  <2>1. Len(t) # 0
    BY <1>3
  <2>2. Len(t) \in 1..Len(t) /\ Len(t) + 1 = Len(q)
    BY <1>1, <2>1
  <2> QED BY <1>3, <2>2
<1> QED BY <1>2, <1>3

LEMMA TailLast ==
  ASSUME NEW S, NEW q \in Seq(S), q # <<>>
  PROVE  /\ Head(q) \in S /\ Tail(q) \in Seq(S)
         /\ Tail(q) = <<>> => Head(q) = q[Len(q)]
         /\ Tail(q) # <<>> => Tail(q)[Len(Tail(q))] = q[Len(q)]
<1> DEFINE t == Tail(q)
<1>1. /\ Head(q) = q[1] /\ Head(q) \in S /\ t \in Seq(S) /\ Len(t) = Len(q) - 1
      /\ \A n \in 1..Len(t) : t[n] = q[n + 1]
  OBVIOUS
<1> HIDE DEF t
<1>2. /\ t = <<>> => q[1] = q[Len(q)]
      /\ t # <<>> => t[Len(t)] = q[Len(q)]
  BY <1>1, RestLast
<1>3. /\ Head(q) \in S /\ t \in Seq(S)
      /\ t = <<>> => Head(q) = q[Len(q)]
      /\ t # <<>> => t[Len(t)] = q[Len(q)]
  BY <1>1, <1>2, Zenon
<1> QED BY <1>3, Zenon DEF t

(* What is put into a queue is its last element, whatever it pushes out.   *)
LEMMA KeepLast ==
  ASSUME NEW S, NEW q \in Seq(S), NEW m \in S
  PROVE  /\ Keep(q, m) \in Seq(S) /\ Keep(q, m) # <<>>
         /\ Keep(q, m)[Len(Keep(q, m))] = m
<1>1. CASE Len(q) < Depth
  BY <1>1 DEF Keep
<1>2. CASE ~ (Len(q) < Depth)
  <2>1. q # <<>>
    BY <1>2, DepthAssumption
  <2>2. Tail(q) \in Seq(S)
    BY <2>1
  <2>3. Keep(q, m) = Append(Tail(q), m)
    BY <1>2 DEF Keep
  <2> QED BY <2>2, <2>3, AppendLast
<1> QED BY <1>1, <1>2

Topics ==
  /\ toTeleop \in Seq(BOOLEAN) /\ toArbiter \in Seq(BOOLEAN)
  /\ twists \in [Rover -> Seq(Twist)] /\ commands \in [Rover -> Seq(Twist)]

Arbiter ==
  /\ estop \in BOOLEAN /\ fresh \in [Rover -> BOOLEAN]
  /\ teleop \in [Rover -> {{}} \cup {{t} : t \in Twist}]
  /\ autonomy \in [Rover -> {{}} \cup {{t} : t \in Twist}]
  /\ out \in [Rover -> Twist]
  /\ \A r \in Rover : fresh[r] => teleop[r] # {}

Counted == stops \in 0..MaxStops /\ commanded \in 0..MaxCommands

CommandInv == TeleopInv /\ Topics /\ Arbiter /\ Counted /\ SilentAtZero

LEMMA CommandStart == Init => CommandInv
<1> SUFFICES ASSUME Init PROVE CommandInv
  OBVIOUS
<1>1. Zero \in Twist
  BY TeleopAssumption DEF Zero, Twist, Velocity
<1>2. TeleopInv
  BY TeleopStart DEF Init
<1>3. Topics
  BY DEF Init, Topics
<1>4. Arbiter
  BY <1>1 DEF Init, Arbiter
<1>5. Counted
  BY CommandAssumption DEF Init, Counted
<1>6. SilentAtZero
  BY DEF Init, SilentAtZero, LastTwist
<1> QED BY <1>2, <1>3, <1>4, <1>5, <1>6 DEF CommandInv

(* What the teleop sent is the last twist on its way.                      *)
LEMMA Delivered ==
  ASSUME Topics, sent' \in [Rover -> {{}} \cup {{t} : t \in Twist}], Deliver
  PROVE  /\ twists' \in [Rover -> Seq(Twist)]
         /\ \A r \in Rover :
              \/ sent'[r] = {} /\ twists'[r] = twists[r]
              \/ /\ twists'[r] # <<>>
                 /\ sent'[r] = {twists'[r][Len(twists'[r])]}
<1>1. ASSUME NEW r \in Rover
      PROVE  /\ twists'[r] \in Seq(Twist)
             /\ \/ sent'[r] = {} /\ twists'[r] = twists[r]
                \/ /\ twists'[r] # <<>>
                   /\ sent'[r] = {twists'[r][Len(twists'[r])]}
  <2>1. twists[r] \in Seq(Twist)
    BY DEF Topics
  <2>2. CASE sent'[r] = {}
    BY <2>1, <2>2 DEF Deliver
  <2>3. CASE sent'[r] # {}
    <3>1. PICK t \in Twist : sent'[r] = {t}
      BY <2>3
    <3>2. (CHOOSE u \in sent'[r] : TRUE) = t
      BY <3>1
    <3>3. twists'[r] = Keep(twists[r], t)
      BY <2>3, <3>2 DEF Deliver
    <3>4. /\ Keep(twists[r], t) \in Seq(Twist) /\ Keep(twists[r], t) # <<>>
          /\ Keep(twists[r], t)[Len(Keep(twists[r], t))] = t
      BY <2>1, KeepLast
    <3> QED BY <3>1, <3>3, <3>4
  <2> QED BY <2>2, <2>3
<1>2. twists' = [r \in Rover |-> twists'[r]]
  BY DEF Deliver
<1> QED BY <1>1, <1>2

LEMMA CommandLoop ==
  ASSUME CommandInv, NEW quiet \in Quiet, TeleopLoop(quiet)
  PROVE  CommandInv'
<1> DEFINE now == IF toTeleop = <<>> THEN stop ELSE Head(toTeleop)
<1>1. now \in BOOLEAN
  <2>1. CASE toTeleop = <<>>
    BY <2>1 DEF CommandInv, TeleopInv, TeleopTypes
  <2>2. CASE toTeleop # <<>>
    <3>1. Head(toTeleop) \in BOOLEAN
      BY <2>2 DEF CommandInv, Topics
    <3> QED BY <2>2, <3>1, Zenon
  <2> QED BY <2>1, <2>2
<1>2. Key(now, quiet) \/ NoKey(now, quiet)
  BY DEF TeleopLoop
<1>3. /\ toTeleop' = (IF toTeleop = <<>> THEN toTeleop ELSE Tail(toTeleop))
      /\ Deliver
      /\ UNCHANGED <<toArbiter, commands, estop, teleop, fresh, autonomy, out, stops,
                     commanded>>
  BY DEF TeleopLoop, arbiterVars, boundVars
<1> HIDE DEF now
<1>4. TeleopInv' /\ running /\ \A r \in Rover : LeavesZero(r)
  BY <1>1, <1>2, LoopStep DEF CommandInv
<1>5. /\ twists' \in [Rover -> Seq(Twist)]
      /\ \A r \in Rover :
           \/ sent'[r] = {} /\ twists'[r] = twists[r]
           \/ twists'[r] # <<>> /\ sent'[r] = {twists'[r][Len(twists'[r])]}
  BY <1>3, <1>4, Delivered DEF CommandInv, TeleopInv, TeleopTypes
<1>6. Topics'
  <2>1. toTeleop' \in Seq(BOOLEAN)
    <3>1. toTeleop \in Seq(BOOLEAN)
      BY DEF CommandInv, Topics
    <3>2. CASE toTeleop = <<>>
      BY <1>3, <3>1, <3>2
    <3>3. CASE toTeleop # <<>>
      BY <1>3, <3>1, <3>3, TailLast
    <3> QED BY <3>2, <3>3
  <2> QED BY <1>3, <1>5, <2>1 DEF CommandInv, Topics
<1>7. (Arbiter /\ Counted)'
  BY <1>3 DEF CommandInv, Arbiter, Counted
<1>8. ASSUME NEW r \in Rover, Silent(rover'[r])
      PROVE  LastTwist(r)' \subseteq {Zero}
  <2>1. CASE sent'[r] = {Zero}
    <3>1. twists'[r] # <<>> /\ {twists'[r][Len(twists'[r])]} = {Zero}
      BY <1>5, <2>1
    <3> QED BY <3>1 DEF LastTwist
  <2>2. CASE sent'[r] = {} /\ Silent(rover[r])
    <3>1. twists'[r] = twists[r] /\ teleop'[r] = teleop[r]
      BY <1>3, <1>5, <2>2
    <3>2. LastTwist(r) \subseteq {Zero}
      BY <1>4, <2>2 DEF CommandInv, SilentAtZero
    <3> QED BY <3>1, <3>2 DEF LastTwist
  <2> QED BY <1>4, <1>8, <2>1, <2>2 DEF LeavesZero
<1>9. SilentAtZero'
  BY <1>8 DEF SilentAtZero
<1> QED BY <1>4, <1>6, <1>7, <1>9 DEF CommandInv

LEMMA CommandQuit ==
  ASSUME CommandInv, TeleopQuits
  PROVE  CommandInv'
<1>1. /\ Quit /\ Deliver
      /\ UNCHANGED <<toTeleop, toArbiter, commands, estop, teleop, fresh, autonomy, out,
                     stops, commanded>>
  BY DEF TeleopQuits, arbiterVars, boundVars
<1>2. TeleopInv' /\ running' = FALSE
  BY <1>1, QuitStep DEF CommandInv
<1>3. twists' \in [Rover -> Seq(Twist)]
  BY <1>1, <1>2, Delivered DEF CommandInv, TeleopInv, TeleopTypes
<1>4. Topics'
  BY <1>1, <1>3 DEF CommandInv, Topics
<1>5. (Arbiter /\ Counted)'
  BY <1>1 DEF CommandInv, Arbiter, Counted
<1> QED BY <1>2, <1>4, <1>5 DEF CommandInv, SilentAtZero

(* Steps that leave the teleop and its twists alone.                       *)
LEMMA TeleopKept ==
  ASSUME TeleopInv, SilentAtZero, UNCHANGED teleopVars,
         \A r \in Rover : LastTwist(r)' = LastTwist(r)
  PROVE  (TeleopInv /\ SilentAtZero)'
<1>1. TeleopInv'
  BY DEF teleopVars, TeleopInv, TeleopTypes, IdleRests
<1> QED BY <1>1 DEF teleopVars, SilentAtZero

(* The arbiter taking a twist does not change which one is last.           *)
LEMMA LastTaken ==
  ASSUME CommandInv, NEW r \in Rover, OnTeleop(r), NEW q \in Rover
  PROVE  LastTwist(q)' = LastTwist(q)
<1>1. /\ twists[r] # <<>>
      /\ teleop' = [teleop EXCEPT ![r] = {Head(twists[r])}]
      /\ twists' = [twists EXCEPT ![r] = Tail(twists[r])]
  BY DEF OnTeleop
<1>2. /\ twists \in [Rover -> Seq(Twist)] /\ twists[r] \in Seq(Twist)
      /\ teleop \in [Rover -> {{}} \cup {{t} : t \in Twist}]
  BY DEF CommandInv, Topics, Arbiter
<1>3. CASE q # r
  BY <1>1, <1>2, <1>3 DEF LastTwist
<1>4. CASE q = r
  <2>1. teleop'[r] = {Head(twists[r])} /\ twists'[r] = Tail(twists[r])
    BY <1>1, <1>2
  <2>2. CASE Tail(twists[r]) = <<>>
    <3>1. Head(twists[r]) = twists[r][Len(twists[r])]
      BY <1>1, <1>2, <2>2, TailLast
    <3>2. LastTwist(r) = {Head(twists[r])}
      BY <1>1, <3>1 DEF LastTwist
    <3>3. LastTwist(r)' = {Head(twists[r])}
      BY <2>1, <2>2 DEF LastTwist
    <3> QED BY <1>4, <3>2, <3>3
  <2>3. CASE Tail(twists[r]) # <<>>
    <3>1. Tail(twists[r])[Len(Tail(twists[r]))] = twists[r][Len(twists[r])]
      BY <1>1, <1>2, <2>3, TailLast
    <3> QED BY <1>1, <1>4, <2>1, <2>3, <3>1 DEF LastTwist
  <2> QED BY <2>2, <2>3
<1> QED BY <1>3, <1>4

LEMMA CommandOnTeleop ==
  ASSUME CommandInv, NEW r \in Rover, OnTeleop(r)
  PROVE  CommandInv'
<1>1. /\ twists[r] # <<>>
      /\ teleop' = [teleop EXCEPT ![r] = {Head(twists[r])}]
      /\ fresh' = [fresh EXCEPT ![r] = TRUE]
      /\ twists' = [twists EXCEPT ![r] = Tail(twists[r])]
      /\ UNCHANGED <<teleopVars, toTeleop, toArbiter, commands, estop, autonomy, out, stops,
                     commanded>>
  BY DEF OnTeleop, boundVars
<1>2. /\ twists \in [Rover -> Seq(Twist)] /\ twists[r] \in Seq(Twist)
      /\ teleop \in [Rover -> {{}} \cup {{t} : t \in Twist}]
      /\ fresh \in [Rover -> BOOLEAN]
  BY DEF CommandInv, Topics, Arbiter
<1>3. Head(twists[r]) \in Twist /\ Tail(twists[r]) \in Seq(Twist)
  BY <1>1, <1>2
<1>4. Topics'
  BY <1>1, <1>2, <1>3 DEF CommandInv, Topics
<1>5. Arbiter'
  BY <1>1, <1>2, <1>3 DEF CommandInv, Arbiter
<1>6. Counted'
  BY <1>1 DEF CommandInv, Counted
<1>7. \A q \in Rover : LastTwist(q)' = LastTwist(q)
  BY LastTaken
<1>8. (TeleopInv /\ SilentAtZero)'
  BY <1>1, <1>7, TeleopKept DEF CommandInv
<1> QED BY <1>4, <1>5, <1>6, <1>8 DEF CommandInv

(* The arbiter only ever passes on what it was given.                      *)
LEMMA SelectedType ==
  ASSUME Arbiter, NEW r \in Rover
  PROVE  Selected(r) \in Twist
<1>1. Zero \in Twist
  BY TeleopAssumption DEF Zero, Twist, Velocity
<1> DEFINE given == IF fresh[r] THEN teleop[r]
                    ELSE IF autonomy[r] # {} THEN autonomy[r] ELSE {Zero}
<1>2. given \in SUBSET Twist /\ given # {}
  BY <1>1 DEF Arbiter
<1>3. Selected(r) = IF estop THEN Zero ELSE CHOOSE t \in given : TRUE
  BY DEF Selected
<1> HIDE DEF given
<1>4. (CHOOSE t \in given : TRUE) \in given
  BY <1>2
<1> QED BY <1>1, <1>2, <1>3, <1>4

LEMMA CommandArbiter ==
  ASSUME CommandInv,
         \/ OnEstop \/ Tick
         \/ \E r \in Rover : OnAutonomy(r) \/ TeleopExpires(r)
  PROVE  CommandInv'
<1>1. UNCHANGED <<teleopVars, toTeleop, twists, teleop, stops, commanded>>
  BY DEF OnEstop, Tick, OnAutonomy, TeleopExpires, topicVars, boundVars
<1>2. (TeleopInv /\ SilentAtZero)'
  BY <1>1, TeleopKept DEF CommandInv, LastTwist
<1>3. Counted'
  BY <1>1 DEF CommandInv, Counted
<1>4. CASE OnEstop
  <2>1. /\ toArbiter \in Seq(BOOLEAN) /\ toArbiter # <<>>
        /\ estop' = Head(toArbiter) /\ toArbiter' = Tail(toArbiter)
        /\ UNCHANGED <<commands, fresh, autonomy, out>>
    BY <1>4 DEF OnEstop, CommandInv, Topics
  <2>2. estop' \in BOOLEAN /\ toArbiter' \in Seq(BOOLEAN)
    BY <2>1
  <2>3. Topics' /\ Arbiter'
    BY <1>1, <2>1, <2>2 DEF CommandInv, Topics, Arbiter
  <2> QED BY <1>2, <1>3, <2>3 DEF CommandInv
<1>5. CASE Tick
  <2>1. out' = [r \in Rover |-> Selected(r)] /\ UNCHANGED <<toArbiter, commands, estop, fresh, autonomy>>
    BY <1>5 DEF Tick, topicVars
  <2>2. out' \in [Rover -> Twist]
    BY <2>1, SelectedType DEF CommandInv
  <2>3. Topics' /\ Arbiter'
    BY <1>1, <2>1, <2>2 DEF CommandInv, Topics, Arbiter
  <2> QED BY <1>2, <1>3, <2>3 DEF CommandInv
<1>6. ASSUME NEW r \in Rover, OnAutonomy(r)
      PROVE  CommandInv'
  <2>1. /\ commands[r] # <<>> /\ commands[r] \in Seq(Twist)
        /\ autonomy' = [autonomy EXCEPT ![r] = {Head(commands[r])}]
        /\ commands' = [commands EXCEPT ![r] = Tail(commands[r])]
        /\ UNCHANGED <<toArbiter, estop, fresh, out>>
    BY <1>6 DEF OnAutonomy, CommandInv, Topics
  <2>2. Head(commands[r]) \in Twist /\ Tail(commands[r]) \in Seq(Twist)
    BY <2>1
  <2>3. Topics' /\ Arbiter'
    BY <1>1, <2>1, <2>2 DEF CommandInv, Topics, Arbiter
  <2> QED BY <1>2, <1>3, <2>3 DEF CommandInv
<1>7. ASSUME NEW r \in Rover, TeleopExpires(r)
      PROVE  CommandInv'
  <2>1. /\ fresh' = [fresh EXCEPT ![r] = FALSE]
        /\ UNCHANGED <<toArbiter, commands, estop, autonomy, out>>
    BY <1>7 DEF TeleopExpires, topicVars
  <2>2. Topics' /\ Arbiter'
    BY <1>1, <2>1 DEF CommandInv, Topics, Arbiter
  <2> QED BY <1>2, <1>3, <2>2 DEF CommandInv
<1> QED BY <1>4, <1>5, <1>6, <1>7

LEMMA CommandInputs ==
  ASSUME CommandInv,
         \/ \E engage \in BOOLEAN : PublishEstop(engage)
         \/ \E r \in Rover, v \in Speed : Command(r, v)
  PROVE  CommandInv'
<1>1. UNCHANGED <<teleopVars, twists, estop, teleop, fresh, autonomy, out>>
  BY DEF PublishEstop, Command, arbiterVars
<1>2. (TeleopInv /\ SilentAtZero)'
  BY <1>1, TeleopKept DEF CommandInv, LastTwist
<1>3. Arbiter'
  BY <1>1 DEF CommandInv, Arbiter
<1>4. Counted'
  <2>1. stops \in 0..MaxStops /\ commanded \in 0..MaxCommands
    BY DEF CommandInv, Counted
  <2>2. CASE \E engage \in BOOLEAN : PublishEstop(engage)
    <3>1. stops < MaxStops /\ stops' = stops + 1 /\ commanded' = commanded
      BY <2>2 DEF PublishEstop
    <3> QED BY <2>1, <3>1, CommandAssumption DEF Counted
  <2>3. CASE \E r \in Rover, v \in Speed : Command(r, v)
    <3>1. commanded < MaxCommands /\ commanded' = commanded + 1 /\ stops' = stops
      BY <2>3 DEF Command
    <3> QED BY <2>1, <3>1, CommandAssumption DEF Counted
  <2> QED BY <2>2, <2>3
<1>5. ASSUME NEW engage \in BOOLEAN, PublishEstop(engage)
      PROVE  Topics'
  <2>1. Keep(toTeleop, engage) \in Seq(BOOLEAN) /\ Keep(toArbiter, engage) \in Seq(BOOLEAN)
    BY KeepLast DEF CommandInv, Topics
  <2> QED BY <1>1, <1>5, <2>1 DEF PublishEstop, CommandInv, Topics
<1>6. ASSUME NEW r \in Rover, NEW v \in Speed, Command(r, v)
      PROVE  Topics'
  <2>1. [x \in Axis |-> v] \in Twist
    BY CommandAssumption DEF Twist
  <2>2. Keep(commands[r], [x \in Axis |-> v]) \in Seq(Twist)
    BY <2>1, KeepLast DEF CommandInv, Topics
  <2> QED BY <1>1, <1>6, <2>2 DEF Command, CommandInv, Topics
<1> QED BY <1>2, <1>3, <1>4, <1>5, <1>6 DEF CommandInv

LEMMA CommandKeeps == CommandInv /\ [Next]_vars => CommandInv'
<1> SUFFICES ASSUME CommandInv, [Next]_vars PROVE CommandInv'
  OBVIOUS
<1>1. CASE UNCHANGED vars
  <2>1. (TeleopInv /\ SilentAtZero)'
    BY <1>1, TeleopKept DEF vars, topicVars, arbiterVars, CommandInv, LastTwist
  <2>2. (Topics /\ Arbiter /\ Counted)'
    BY <1>1 DEF vars, topicVars, arbiterVars, boundVars, CommandInv, Topics, Arbiter, Counted
  <2> QED BY <2>1, <2>2 DEF CommandInv
<1> QED
  BY <1>1, CommandLoop, CommandQuit, CommandOnTeleop, CommandArbiter, CommandInputs DEF Next

LEMMA CommandAlways == Spec => []CommandInv
BY CommandStart, CommandKeeps, PTL DEF Spec

(* Every variable of teleop, topics and arbiter keeps its type, and no     *)
(* velocity is ever above the maximum.                                     *)
THEOREM TypeCorrect == Spec => []TypeOK
<1>1. CommandInv => TypeOK
  <2> SUFFICES ASSUME CommandInv PROVE TypeOK
    OBVIOUS
  <2>1. ASSUME NEW r \in Rover
        PROVE  sent[r] \in SUBSET Twist /\ Cardinality(sent[r]) <= 1
    <3>1. sent[r] = {} \/ \E t \in Twist : sent[r] = {t}
      BY DEF CommandInv, TeleopInv, TeleopTypes
    <3>2. CASE sent[r] = {}
      BY <3>2, FS_EmptySet
    <3>3. ASSUME NEW t \in Twist, sent[r] = {t}
          PROVE  Cardinality(sent[r]) = 1
      BY <3>3, FS_Singleton
    <3> QED BY <3>1, <3>2, <3>3
  <2>2. \A r \in Rover : rover[r] \in RoverState
    BY DEF CommandInv, TeleopInv, TeleopTypes
  <2>3. TeleopTypeOK
    BY <2>1, <2>2 DEF CommandInv, TeleopInv, TeleopTypes, TeleopTypeOK, RoverState
  <2>4. ASSUME NEW r \in Rover
        PROVE  /\ twists[r] \in Seq(Twist) /\ commands[r] \in Seq(Twist)
               /\ teleop[r] \in SUBSET Twist /\ autonomy[r] \in SUBSET Twist
               /\ fresh[r] \in BOOLEAN /\ (fresh[r] => teleop[r] # {})
               /\ out[r] \in Twist
    <3>1. twists[r] \in Seq(Twist) /\ commands[r] \in Seq(Twist)
      BY DEF CommandInv, Topics
    <3>2. teleop[r] \in SUBSET Twist /\ autonomy[r] \in SUBSET Twist
      BY DEF CommandInv, Arbiter
    <3>3. fresh[r] \in BOOLEAN /\ (fresh[r] => teleop[r] # {}) /\ out[r] \in Twist
      BY DEF CommandInv, Arbiter
    <3> QED BY <3>1, <3>2, <3>3
  <2>5. toTeleop \in Seq(BOOLEAN) /\ toArbiter \in Seq(BOOLEAN) /\ estop \in BOOLEAN
    BY DEF CommandInv, Topics, Arbiter
  <2>6. stops \in 0..MaxStops /\ commanded \in 0..MaxCommands
    BY DEF CommandInv, Counted
  <2> QED BY <2>3, <2>4, <2>5, <2>6 DEF TypeOK
<1> QED BY <1>1, CommandAlways, PTL

----------------------------------------------------------------------------
(* The emergency stop at the teleop and at the arbiter.                    *)

(* The stop state a subscriber is in once it has taken what is queued.     *)
Pending(q, state) == IF q = <<>> THEN state ELSE q[Len(q)]

(* Teleop and arbiter come to the same stop state, however far one is      *)
(* behind the other and whichever messages their queues dropped: neither   *)
(* goes on driving, or stays stopped, alone.                               *)
StopsAgree == Pending(toTeleop, stop) = Pending(toArbiter, estop)

(* Taking a message brings a subscriber no further than where its queue    *)
(* was leading it already.                                                 *)
LEMMA PendingTaken ==
  ASSUME NEW S, NEW q \in Seq(S), q # <<>>, NEW state
  PROVE  Pending(Tail(q), Head(q)) = Pending(q, state)
<1>1. Pending(q, state) = q[Len(q)]
  BY DEF Pending
<1>2. CASE Tail(q) = <<>>
  <2>1. Pending(Tail(q), Head(q)) = Head(q)
    BY <1>2 DEF Pending
  <2> QED BY <1>1, <1>2, <2>1, TailLast
<1>3. CASE Tail(q) # <<>>
  <2>1. Pending(Tail(q), Head(q)) = Tail(q)[Len(Tail(q))]
    BY <1>3 DEF Pending
  <2> QED BY <1>1, <1>3, <2>1, TailLast
<1> QED BY <1>2, <1>3

(* A message leads a subscriber to its own state, also when it pushes out  *)
(* another.                                                                *)
LEMMA PendingKept ==
  ASSUME NEW S, NEW q \in Seq(S), NEW m \in S, NEW state
  PROVE  Pending(Keep(q, m), state) = m
<1>1. Keep(q, m) # <<>> /\ Keep(q, m)[Len(Keep(q, m))] = m
  BY KeepLast
<1> QED BY <1>1 DEF Pending

(* An iteration of the teleop takes up the stop state it read, and under a *)
(* stop sends a zero to every rover.                                       *)
LEMMA LoopStops ==
  ASSUME CommandInv, NEW quiet \in Quiet, TeleopLoop(quiet)
  PROVE  /\ stop' = IF toTeleop = <<>> THEN stop ELSE Head(toTeleop)
         /\ stop' => \A r \in Rover : sent'[r] = {Zero}
<1> DEFINE now == IF toTeleop = <<>> THEN stop ELSE Head(toTeleop)
<1>1. now \in BOOLEAN
  <2>1. CASE toTeleop = <<>>
    BY <2>1 DEF CommandInv, TeleopInv, TeleopTypes
  <2>2. CASE toTeleop # <<>>
    <3>1. Head(toTeleop) \in BOOLEAN
      BY <2>2 DEF CommandInv, Topics
    <3> QED BY <2>2, <3>1, Zenon
  <2> QED BY <2>1, <2>2
<1>2. Key(now, quiet) \/ NoKey(now, quiet)
  BY DEF TeleopLoop
<1> HIDE DEF now
<1>3. PICK s : Publish(s, now, quiet)
  BY <1>1, <1>2, KeyStep DEF CommandInv
<1>4. stop' = now
  BY <1>3 DEF Publish
<1>5. now => sent' = [r \in Rover |-> {Zero}]
  BY <1>3 DEF Publish
<1>6. now => \A r \in Rover : sent'[r] = {Zero}
  BY <1>5
<1>7. stop' => \A r \in Rover : sent'[r] = {Zero}
  BY <1>4, <1>6, Zenon
<1> QED BY <1>4, <1>7, Zenon DEF now

LEMMA AgreeingKept ==
  ASSUME CommandInv, StopsAgree, [Next]_vars
  PROVE  StopsAgree'
<1>1. toTeleop \in Seq(BOOLEAN) /\ toArbiter \in Seq(BOOLEAN)
  BY DEF CommandInv, Topics
<1>2. ASSUME UNCHANGED <<toTeleop, toArbiter, stop, estop>>
      PROVE  StopsAgree'
  BY <1>2, Zenon DEF StopsAgree, Pending
<1>3. ASSUME NEW engage \in BOOLEAN, PublishEstop(engage)
      PROVE  StopsAgree'
  <2>1. toTeleop' = Keep(toTeleop, engage) /\ toArbiter' = Keep(toArbiter, engage)
    BY <1>3 DEF PublishEstop
  <2>2. /\ Pending(Keep(toTeleop, engage), stop') = engage
        /\ Pending(Keep(toArbiter, engage), estop') = engage
    BY <1>1, PendingKept
  <2> QED BY <2>1, <2>2, Zenon DEF StopsAgree
<1>4. ASSUME NEW quiet \in Quiet, TeleopLoop(quiet)
      PROVE  StopsAgree'
  <2>1. toArbiter' = toArbiter /\ estop' = estop
    BY <1>4 DEF TeleopLoop, arbiterVars
  <2>2. toTeleop' = IF toTeleop = <<>> THEN toTeleop ELSE Tail(toTeleop)
    BY <1>4 DEF TeleopLoop
  <2>3. stop' = IF toTeleop = <<>> THEN stop ELSE Head(toTeleop)
    BY <1>4, LoopStops
  <2>4. Pending(toTeleop', stop') = Pending(toTeleop, stop)
    <3>1. CASE toTeleop = <<>>
      <4>1. toTeleop' = toTeleop /\ stop' = stop
        BY <2>2, <2>3, <3>1, Zenon
      <4> QED BY <4>1, Zenon
    <3>2. CASE toTeleop # <<>>
      <4>1. toTeleop' = Tail(toTeleop) /\ stop' = Head(toTeleop)
        BY <2>2, <2>3, <3>2, Zenon
      <4>2. Pending(Tail(toTeleop), Head(toTeleop)) = Pending(toTeleop, stop)
        BY <1>1, <3>2, PendingTaken
      <4> QED BY <4>1, <4>2, Zenon
    <3> QED BY <3>1, <3>2
  <2> QED BY <2>1, <2>4, Zenon DEF StopsAgree
<1>5. ASSUME OnEstop
      PROVE  StopsAgree'
  <2>1. toArbiter # <<>> /\ estop' = Head(toArbiter) /\ toArbiter' = Tail(toArbiter)
    BY <1>5 DEF OnEstop
  <2>2. toTeleop' = toTeleop /\ stop' = stop
    BY <1>5 DEF OnEstop, teleopVars
  <2>3. Pending(Tail(toArbiter), Head(toArbiter)) = Pending(toArbiter, estop)
    BY <1>1, <2>1, PendingTaken
  <2> QED BY <2>1, <2>2, <2>3, Zenon DEF StopsAgree
<1>6. ASSUME \/ UNCHANGED vars \/ Tick \/ TeleopQuits
             \/ \E r \in Rover, v \in Speed : Command(r, v)
             \/ \E r \in Rover : OnTeleop(r) \/ OnAutonomy(r) \/ TeleopExpires(r)
      PROVE  UNCHANGED <<toTeleop, toArbiter, stop, estop>>
  BY <1>6 DEF vars, Tick, TeleopQuits, Quit, Command, OnTeleop, OnAutonomy, TeleopExpires,
              teleopVars, topicVars, arbiterVars
<1> QED BY <1>2, <1>3, <1>4, <1>5, <1>6 DEF Next

(* Teleop and arbiter come to the same stop state, for any queue depth and *)
(* however far one of them is behind.                                      *)
THEOREM StopsKnownAlike == Spec => []StopsAgree
<1>1. Init => StopsAgree
  BY DEF Init, TeleopInit, StopsAgree, Pending
<1>2. CommandInv /\ StopsAgree /\ [Next]_vars => StopsAgree'
  BY AgreeingKept
<1> QED BY <1>1, <1>2, CommandAlways, PTL DEF Spec

LEMMA StoppedKept ==
  ASSUME CommandInv, StoppedAtZero, [Next]_vars
  PROVE  StoppedAtZero'
<1>1. ASSUME UNCHANGED <<running, stop>>, \A r \in Rover : LastTwist(r)' = LastTwist(r)
      PROVE  StoppedAtZero'
  BY <1>1 DEF StoppedAtZero
<1>2. ASSUME NEW quiet \in Quiet, TeleopLoop(quiet)
      PROVE  StoppedAtZero'
  <2>1. stop' => \A r \in Rover : sent'[r] = {Zero}
    BY <1>2, LoopStops
  <2>2. TeleopInv'
    BY <1>2, CommandLoop DEF CommandInv
  <2>3. Deliver
    BY <1>2 DEF TeleopLoop
  <2>4. \A r \in Rover :
          \/ sent'[r] = {} /\ twists'[r] = twists[r]
          \/ twists'[r] # <<>> /\ sent'[r] = {twists'[r][Len(twists'[r])]}
    BY <2>2, <2>3, Delivered DEF CommandInv, TeleopInv, TeleopTypes
  <2>5. ASSUME NEW r \in Rover, sent'[r] = {Zero}
        PROVE  LastTwist(r)' = {Zero}
    <3>1. twists'[r] # <<>> /\ {twists'[r][Len(twists'[r])]} = {Zero}
      BY <2>4, <2>5
    <3> QED BY <3>1 DEF LastTwist
  <2> QED BY <2>1, <2>5 DEF StoppedAtZero
<1>3. ASSUME TeleopQuits
      PROVE  StoppedAtZero'
  BY <1>3 DEF TeleopQuits, Quit, StoppedAtZero
<1>4. ASSUME NEW r \in Rover, OnTeleop(r)
      PROVE  StoppedAtZero'
  <2>1. UNCHANGED <<running, stop>>
    BY <1>4 DEF OnTeleop, teleopVars
  <2> QED BY <1>1, <1>4, <2>1, LastTaken
<1>5. ASSUME \/ UNCHANGED vars \/ Tick \/ OnEstop
             \/ \E engage \in BOOLEAN : PublishEstop(engage)
             \/ \E r \in Rover, v \in Speed : Command(r, v)
             \/ \E r \in Rover : OnAutonomy(r) \/ TeleopExpires(r)
      PROVE  StoppedAtZero'
  <2>1. UNCHANGED <<running, stop, twists, teleop>>
    BY <1>5 DEF vars, Tick, OnEstop, PublishEstop, Command, OnAutonomy, TeleopExpires,
                teleopVars, topicVars, arbiterVars
  <2> QED BY <1>1, <2>1 DEF LastTwist
<1> QED BY <1>2, <1>3, <1>4, <1>5 DEF Next

(* A teleop that goes silent or knows of a stop has left a zero as its     *)
(* last twist, for any rovers and queue depth, whatever keys and stops     *)
(* came before and however twists are delayed or pushed out.               *)
THEOREM ZeroIsLeft == Spec => []LeftAtZero
<1>1. Init => StoppedAtZero
  BY DEF Init, TeleopInit, StoppedAtZero
<1>2. CommandInv /\ StoppedAtZero /\ [Next]_vars => StoppedAtZero'
  BY StoppedKept
<1>3. CommandInv /\ StoppedAtZero => LeftAtZero
  BY DEF CommandInv, LeftAtZero
<1> QED BY <1>1, <1>2, <1>3, CommandAlways, PTL DEF Spec
=============================================================================
