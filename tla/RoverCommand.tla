---------------------------- MODULE RoverCommand ----------------------------
(***************************************************************************)
(* The command path of dev1_platform: the teleop loop, the cmd_vel arbiter *)
(* (cmd_vel_arbiter.py) and the topics between them.  The arbiter runs in  *)
(* a single-threaded executor, so each of its callbacks is a step.  Of its *)
(* three inputs, the emergency stop and the autonomy commands come from    *)
(* publishers that may say anything at any time; both the teleop and the   *)
(* arbiter subscribe to the stop.                                          *)
(*                                                                         *)
(* Wall time is abstracted to whether the last teleop twist is within      *)
(* teleop_timeout.                                                         *)
(***************************************************************************)
EXTENDS RoverTeleop, TopicQueue

CONSTANTS
  Speed,      \* the velocities autonomy commands, on every axis
  MaxStops,   \* bound: emergency stop messages
  MaxCommands \* bound: autonomy messages

ASSUME CommandAssumption ==
  /\ Speed \subseteq Velocity
  /\ MaxStops \in Nat /\ MaxCommands \in Nat

VARIABLES
  toTeleop,  \* /emergency_stop messages the teleop has not taken
  toArbiter, \* ... and those the arbiter has not taken
  twists,    \* per rover, /<ns>/cmd_vel_teleop messages under way
  commands,  \* per rover, /<ns>/cmd_vel messages under way
  estop,     \* the arbiter's self.estop
  teleop,    \* rovers[ns]['teleop']: {} or {twist}
  fresh,     \* the stamp of teleop is within teleop_timeout
  autonomy,  \* rovers[ns]['autonomy']: {} or {twist}
  out,       \* last twist on /<ns>/cmd_vel_arb
  stops,     \* stop messages so far (bounded by MaxStops)
  commanded  \* autonomy messages so far (bounded by MaxCommands)

topicVars   == <<toTeleop, toArbiter, twists, commands>>
arbiterVars == <<estop, teleop, fresh, autonomy, out>>
boundVars   == <<stops, commanded>>
vars == <<teleopVars, topicVars, arbiterVars, boundVars>>

Init ==
  /\ TeleopInit
  /\ toTeleop = <<>> /\ toArbiter = <<>>
  /\ twists = [r \in Rover |-> <<>>]
  /\ commands = [r \in Rover |-> <<>>]
  /\ estop = FALSE
  /\ teleop = [r \in Rover |-> {}]
  /\ fresh = [r \in Rover |-> FALSE]
  /\ autonomy = [r \in Rover |-> {}]
  /\ out = [r \in Rover |-> Zero]
  /\ stops = 0 /\ commanded = 0

----------------------------------------------------------------------------
(* Someone, the E-stop manager included, publishes a stop state.           *)
PublishEstop(engage) ==
  /\ stops < MaxStops
  /\ stops' = stops + 1
  /\ toTeleop' = Keep(toTeleop, engage)
  /\ toArbiter' = Keep(toArbiter, engage)
  /\ UNCHANGED <<teleopVars, twists, commands, arbiterVars, commanded>>

(* Autonomy, or the E-stop manager with a zero, commands a rover.          *)
Command(r, v) ==
  /\ commanded < MaxCommands
  /\ commanded' = commanded + 1
  /\ commands' = [commands EXCEPT ![r] = Keep(@, [x \in Axis |-> v])]
  /\ UNCHANGED <<teleopVars, toTeleop, toArbiter, twists, arbiterVars, stops>>

(* What the teleop's last step sent is under way.                          *)
Deliver ==
  twists' = [r \in Rover |->
    IF sent'[r] = {} THEN twists[r]
    ELSE Keep(twists[r], CHOOSE t \in sent'[r] : TRUE)]

(* An iteration of the teleop; spin_once() takes one stop message if any.  *)
TeleopLoop(quiet) ==
  /\ LET now == IF toTeleop = <<>> THEN stop ELSE Head(toTeleop)
     IN Key(now, quiet) \/ NoKey(now, quiet)
  /\ toTeleop' = IF toTeleop = <<>> THEN toTeleop ELSE Tail(toTeleop)
  /\ Deliver
  /\ UNCHANGED <<toArbiter, commands, arbiterVars, boundVars>>

TeleopQuits ==
  /\ Quit
  /\ Deliver
  /\ UNCHANGED <<toTeleop, toArbiter, commands, arbiterVars, boundVars>>

----------------------------------------------------------------------------
(* The arbiter.                                                            *)

(* _on_estop(): the last message is the state.                             *)
OnEstop ==
  /\ toArbiter # <<>>
  /\ estop' = Head(toArbiter)
  /\ toArbiter' = Tail(toArbiter)
  /\ UNCHANGED <<teleopVars, toTeleop, twists, commands, teleop, fresh,
                 autonomy, out, boundVars>>

OnTeleop(r) ==
  /\ twists[r] # <<>>
  /\ teleop' = [teleop EXCEPT ![r] = {Head(twists[r])}]
  /\ fresh' = [fresh EXCEPT ![r] = TRUE]
  /\ twists' = [twists EXCEPT ![r] = Tail(@)]
  /\ UNCHANGED <<teleopVars, toTeleop, toArbiter, commands, estop, autonomy,
                 out, boundVars>>

OnAutonomy(r) ==
  /\ commands[r] # <<>>
  /\ autonomy' = [autonomy EXCEPT ![r] = {Head(commands[r])}]
  /\ commands' = [commands EXCEPT ![r] = Tail(@)]
  /\ UNCHANGED <<teleopVars, toTeleop, toArbiter, twists, estop, teleop,
                 fresh, out, boundVars>>

(* teleop_timeout has passed since the last teleop twist.                  *)
TeleopExpires(r) ==
  /\ fresh[r]
  /\ fresh' = [fresh EXCEPT ![r] = FALSE]
  /\ UNCHANGED <<teleopVars, topicVars, estop, teleop, autonomy, out,
                 boundVars>>

(* Mutant: the last teleop twist wins for good.                            *)
SelectLatched(r) ==
  IF estop THEN Zero
  ELSE CHOOSE t \in IF teleop[r] # {} THEN teleop[r]
                    ELSE IF autonomy[r] # {} THEN autonomy[r] ELSE {Zero} : TRUE

(* Mutant: the emergency stop is not looked at.                            *)
SelectUnstopped(r) ==
  CHOOSE t \in IF fresh[r] THEN teleop[r]
               ELSE IF autonomy[r] # {} THEN autonomy[r] ELSE {Zero} : TRUE

(* _select(): estop > teleop while active > autonomy > zero.  The last     *)
(* autonomy twist never expires.                                           *)
Selected(r) ==
  IF estop THEN Zero
  ELSE CHOOSE t \in IF fresh[r] THEN teleop[r]
                    ELSE IF autonomy[r] # {} THEN autonomy[r] ELSE {Zero} : TRUE

Tick ==
  /\ out' = [r \in Rover |-> Selected(r)]
  /\ UNCHANGED <<teleopVars, topicVars, estop, teleop, fresh, autonomy,
                 boundVars>>

Next ==
  \/ \E engage \in BOOLEAN : PublishEstop(engage)
  \/ \E r \in Rover, v \in Speed : Command(r, v)
  \/ \E quiet \in Quiet : TeleopLoop(quiet)
  \/ TeleopQuits
  \/ OnEstop
  \/ \E r \in Rover : OnTeleop(r) \/ OnAutonomy(r) \/ TeleopExpires(r)
  \/ Tick

Spec == Init /\ [][Next]_vars

(* The arbiter's executor takes what is queued, its timer fires, and time  *)
(* passes.  Nothing is assumed of the teleop or the commands.              *)
FairSpec ==
  /\ Spec
  /\ WF_vars(OnEstop) /\ WF_vars(Tick)
  /\ \A r \in Rover : /\ WF_vars(OnTeleop(r)) /\ WF_vars(OnAutonomy(r))
                      /\ WF_vars(TeleopExpires(r))

----------------------------------------------------------------------------
(* Every variable holds a value of its type.                               *)
TypeOK ==
  /\ TeleopTypeOK
  /\ toTeleop \in Seq(BOOLEAN) /\ toArbiter \in Seq(BOOLEAN)
  /\ \A r \in Rover :
       /\ twists[r] \in Seq(Twist) /\ commands[r] \in Seq(Twist)
       /\ teleop[r] \in SUBSET Twist /\ autonomy[r] \in SUBSET Twist
       /\ fresh[r] \in BOOLEAN /\ (fresh[r] => teleop[r] # {})
       /\ out[r] \in Twist
  /\ estop \in BOOLEAN
  /\ stops \in 0..MaxStops /\ commanded \in 0..MaxCommands

(* The last teleop twist the arbiter has, or will have.                    *)
LastTwist(r) ==
  IF twists[r] = <<>> THEN teleop[r] ELSE {twists[r][Len(twists[r])]}

(* A rover whose teleop went silent was last sent a zero.                  *)
SilentAtZero ==
  \A r \in Rover : running /\ Silent(rover[r]) => LastTwist(r) \subseteq {Zero}

(* So was every rover once the teleop knows of a stop.                     *)
StoppedAtZero ==
  \A r \in Rover : running /\ stop => LastTwist(r) = {Zero}

(* A teleop that stops commanding, because it is silent or because of an   *)
(* emergency stop, has left a zero as its last twist: during the rest of   *)
(* the handoff window the arbiter repeats no old velocity, not even when   *)
(* it hears of the release before the teleop does, however stops, keys and *)
(* queue drops were ordered.                                               *)
LeftAtZero == SilentAtZero /\ StoppedAtZero

(* What the arbiter gives a rover when the teleop is out of the way.       *)
Autonomous(r) == IF autonomy[r] = {} THEN Zero ELSE CHOOSE t \in autonomy[r] : TRUE

(* "autonomy flows through the moment teleop goes quiet", also when the    *)
(* teleop was killed while driving: with no stop, the rover is given the   *)
(* last autonomy command, or zero.                                         *)
AutonomyFlows ==
  \A r \in Rover :
    (~ running \/ Silent(rover[r])) ~>
      (out[r] = Autonomous(r) \/ estop \/ (running /\ ~ Silent(rover[r])))

(* Once the last stop message asks for one, the rover ends up at zero,     *)
(* whatever the teleop and autonomy send.                                  *)
StopsInTheEnd ==
  \A r \in Rover :
    (toArbiter # <<>> /\ toArbiter[Len(toArbiter)] /\ stops = MaxStops)
      ~> [](out[r] = Zero)
=============================================================================
