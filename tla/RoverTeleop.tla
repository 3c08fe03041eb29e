---------------------------- MODULE RoverTeleop ----------------------------
(***************************************************************************)
(* The fleet teleop of dev1_platform, rover_teleop.py: one loop that reads *)
(* at most one key, takes at most one /emergency_stop message and then     *)
(* publishes for every rover.  Each rover ramps a target velocity while an *)
(* arrow is held, lets it coast down afterwards, follows it with the       *)
(* commanded velocity, and goes silent at rest.                            *)
(*                                                                         *)
(* Velocities are counted in what one period accelerates (dv, dw); the     *)
(* scaling of a ceiling by speed_step is any change in that direction.     *)
(* Loop iterations are not timed: an axis without a new arrow may be past  *)
(* release_window at any iteration.                                        *)
(***************************************************************************)
EXTENDS Integers, FiniteSets

CONSTANTS
  Rover,       \* rover namespaces
  Axis,        \* "lin" and "ang"
  MaxSpeed,    \* speed_max and turn_max, in steps of acceleration
  MaxPresses   \* bound: keys pressed

ASSUME TeleopAssumption == MaxSpeed \in Nat \ {0} /\ MaxPresses \in Nat

Direction == {-1, 1}
Velocity == (-MaxSpeed)..MaxSpeed
Twist == [Axis -> Velocity]
Zero == [x \in Axis |-> 0]

VARIABLES
  rover,      \* RoverState of each rover
  active,     \* the rover the keys go to
  broadcast,  \* whether arrows and SPACE go to all of them
  stop,       \* estop_state['stopped']
  running,    \* the process is alive
  sent,       \* what the last step published per rover: {} or {twist}
  presses     \* keys pressed (bounded by MaxPresses)

teleopVars == <<rover, active, broadcast, stop, running, sent, presses>>

Clamp(v, limit) ==
  IF v > limit THEN limit ELSE IF v < -limit THEN -limit ELSE v

(* One step towards zero.                                                  *)
Coast(v) == IF v > 0 THEN v - 1 ELSE IF v < 0 THEN v + 1 ELSE 0

AtRest(s) == s.target = Zero /\ s.cur = Zero
Moving(s) == (\E x \in Axis : s.held[x]) \/ ~ AtRest(s)

TeleopInit ==
  /\ rover = [r \in Rover |->
       [held |-> [x \in Axis |-> FALSE], dir |-> Zero, target |-> Zero,
        cur |-> Zero, ceiling |-> [x \in Axis |-> MaxSpeed], idle |-> FALSE]]
  /\ active \in Rover
  /\ broadcast = FALSE /\ stop = FALSE /\ running = TRUE
  /\ sent = [r \in Rover |-> {}]
  /\ presses = 0

----------------------------------------------------------------------------
(* What a key does to one rover.                                           *)

Press(s, x, d) == [s EXCEPT !.held[x] = TRUE, !.dir[x] = d]

(* SPACE, and every iteration under emergency stop; idle is left alone.    *)
HardStop(s) ==
  [s EXCEPT !.held = [x \in Axis |-> FALSE], !.dir = Zero, !.target = Zero,
            !.cur = Zero]

(* R without a session to restart is a hard stop that keeps the direction. *)
ResetInPlace(s) == [HardStop(s) EXCEPT !.dir = s.dir]

(* Mutant: the commanded velocity jumps to the target.                     *)
JumpToTarget(cur, target, ceiling) == Clamp(target, ceiling)

(* The commanded velocity follows the target, one step at a time.          *)
Follow(cur, target, ceiling) ==
  Clamp(cur + Clamp(target - cur, 1), ceiling)

(* Mutant: the target is not held below the ceiling.                       *)
RampUnlimited(s, held) ==
  [x \in Axis |-> IF held[x] THEN s.target[x] + s.dir[x] ELSE Coast(s.target[x])]

(* Mutant: reverse motion does not coast towards zero.                     *)
RampUnsigned(s, held) ==
  [x \in Axis |-> IF held[x] THEN Clamp(s.target[x] + s.dir[x], s.ceiling[x])
                  ELSE IF s.target[x] = 0 THEN 0
                  ELSE Clamp(s.target[x] - 1, s.ceiling[x])]

(* The target ramps while an arrow is held and coasts otherwise.           *)
Ramp(s, held) ==
  [x \in Axis |-> IF held[x] THEN Clamp(s.target[x] + s.dir[x], s.ceiling[x])
                             ELSE Coast(s.target[x])]

(* RoverState.tick(): one period, in which the axes in quiet get past      *)
(* their release window.                                                   *)
Ticked(s, quiet) ==
  LET held == [x \in Axis |-> s.held[x] /\ x \notin quiet]
      target == Ramp(s, held)
      cur == [x \in Axis |-> Follow(s.cur[x], target[x], s.ceiling[x])]
  IN [s EXCEPT !.held = held, !.target = target, !.cur = cur,
               !.idle = target = Zero /\ cur = Zero
                          /\ \A x \in Axis : ~ held[x]]

Silent(s) == s.idle /\ ~ Moving(s)

----------------------------------------------------------------------------
(* Mutant: under a stop the teleop skips publishing.                       *)
PublishSkips(s, estop, quiet) ==
  /\ stop' = estop
  /\ rover' = [r \in Rover |-> IF estop THEN HardStop(s[r])
                              ELSE IF Silent(s[r]) THEN s[r] ELSE Ticked(s[r], quiet[r])]
  /\ sent' = [r \in Rover |-> IF estop \/ Silent(s[r]) THEN {} ELSE {rover'[r].cur}]

(* The rest of an iteration, after the key made the rovers s and with the  *)
(* stop state as it is after spin_once().                                  *)
Publish(s, estop, quiet) ==
  /\ stop' = estop
  /\ IF estop
     THEN /\ rover' = [r \in Rover |-> HardStop(s[r])]
          /\ sent' = [r \in Rover |-> {Zero}]
     ELSE /\ rover' = [r \in Rover |->
                         IF Silent(s[r]) THEN s[r] ELSE Ticked(s[r], quiet[r])]
          /\ sent' = [r \in Rover |->
                        IF Silent(s[r]) THEN {} ELSE {rover'[r].cur}]

Targets == IF broadcast THEN Rover ELSE {active}
Updated(R, new) == [r \in Rover |-> IF r \in R THEN new[r] ELSE rover[r]]

(* The rovers after one key, and the key's effect on who is addressed.     *)
Arrow(estop, quiet) ==
  \E x \in Axis, d \in Direction :
    LET pressed == [r \in Rover |-> Press(rover[r], x, d)] IN
    /\ \A r \in Targets : x \notin quiet[r]
    /\ Publish(Updated(Targets, pressed), estop, quiet)
    /\ UNCHANGED <<active, broadcast>>

Space(estop, quiet) ==
  /\ LET stopped == [r \in Rover |-> HardStop(rover[r])]
     IN Publish(Updated(Targets, stopped), estop, quiet)
  /\ UNCHANGED <<active, broadcast>>

Reset(estop, quiet) ==
  /\ LET anew == [r \in Rover |-> ResetInPlace(rover[r])]
     IN Publish(Updated({active}, anew), estop, quiet)
  /\ UNCHANGED <<active, broadcast>>

SetCeiling(estop, quiet) ==
  \E x \in Axis, v \in 1..MaxSpeed :
    LET limited == [r \in Rover |-> [rover[r] EXCEPT !.ceiling[x] = v]] IN
    /\ Publish(Updated({active}, limited), estop, quiet)
    /\ UNCHANGED <<active, broadcast>>

Select(estop, quiet) ==
  /\ active' \in Rover
  /\ Publish(rover, estop, quiet)
  /\ UNCHANGED broadcast

ToggleBroadcast(estop, quiet) ==
  /\ broadcast' = ~ broadcast
  /\ Publish(rover, estop, quiet)
  /\ UNCHANGED active

Key(estop, quiet) ==
  /\ running /\ presses < MaxPresses
  /\ presses' = presses + 1
  /\ \/ Arrow(estop, quiet)
     \/ Space(estop, quiet)
     \/ Reset(estop, quiet)
     \/ SetCeiling(estop, quiet)
     \/ Select(estop, quiet)
     \/ ToggleBroadcast(estop, quiet)
  /\ UNCHANGED running

NoKey(estop, quiet) ==
  /\ running
  /\ Publish(rover, estop, quiet)
  /\ UNCHANGED <<active, broadcast, running, presses>>

(* Ctrl+C publishes a last zero; a process that is killed does not.        *)
Quit ==
  /\ running /\ running' = FALSE
  /\ \E last \in {{}, {Zero}} : sent' = [r \in Rover |-> last]
  /\ UNCHANGED <<rover, active, broadcast, stop, presses>>

Quiet == [Rover -> SUBSET Axis]

TeleopNext ==
  \/ \E estop \in BOOLEAN, quiet \in Quiet :
       Key(estop, quiet) \/ NoKey(estop, quiet)
  \/ Quit

TeleopSpec == TeleopInit /\ [][TeleopNext]_teleopVars

(* The loop goes on; left alone, it sees every release window pass.  No    *)
(* stop is assumed: it must not take one to come to rest.                  *)
AllQuiet == [r \in Rover |-> Axis]
TeleopFairSpec == TeleopSpec /\ WF_teleopVars(NoKey(FALSE, AllQuiet))

----------------------------------------------------------------------------
(* Every variable holds a value of its type; no velocity is above the      *)
(* maximum, whatever the sequence of keys.                                 *)
TeleopTypeOK ==
  /\ \A r \in Rover :
       /\ rover[r].held \in [Axis -> BOOLEAN]
       /\ rover[r].dir \in [Axis -> Direction \cup {0}]
       /\ rover[r].target \in Twist /\ rover[r].cur \in Twist
       /\ rover[r].ceiling \in [Axis -> 1..MaxSpeed]
       /\ rover[r].idle \in BOOLEAN
       /\ sent[r] \in SUBSET Twist /\ Cardinality(sent[r]) <= 1
  /\ active \in Rover /\ broadcast \in BOOLEAN
  /\ stop \in BOOLEAN /\ running \in BOOLEAN /\ presses \in 0..MaxPresses

(* "the DiffDrive plugin sees a feasible command (matches its own          *)
(* acceleration limit)": from one period to the next a velocity changes by *)
(* at most one step.  Not so, and not meant, when the rover is put to rest *)
(* by a stop or a reset; not so either when a key lowers the ceiling below *)
(* the velocity, since the clamp to it follows the limit.                  *)
FeasibleBelowCeiling ==
  [][\A r \in Rover : \A x \in Axis :
       \/ rover'[r].cur[x] - rover[r].cur[x] \in -1..1
       \/ AtRest(rover'[r])
       \/ rover[r].cur[x] \notin -rover'[r].ceiling[x]..rover'[r].ceiling[x]
    ]_rover

(* A rover whose keys are released "coasts down to a stop", in whichever   *)
(* direction it went and whatever the ceilings and stops were meanwhile.   *)
ComesToRest ==
  \A r \in Rover : presses = MaxPresses ~> (AtRest(rover[r]) \/ ~ running)
=============================================================================
