---------------------------- MODULE EstopManager ----------------------------
(***************************************************************************)
(* The fleet-wide emergency stop of dev1_platform: estop_manager.py and    *)
(* the topic /emergency_stop.  The node runs in a single-threaded          *)
(* executor: its timers and its subscription are steps of their own.  It   *)
(* publishes its state on the topic it subscribes to, so it hears itself;  *)
(* other nodes publish there too.                                          *)
(***************************************************************************)
EXTENDS TopicQueue

CONSTANTS
  MaxKeys,     \* bound: keys pressed at the terminal
  MaxExternal  \* bound: messages other nodes publish

ASSUME EstopAssumption ==
  MaxKeys \in Nat /\ MaxExternal \in Nat

VARIABLES
  stopped,   \* self.stopped
  echoes,    \* messages in the manager's own subscription
  status,    \* messages in the subscription of another node
  consumer,  \* the state that node has tracked: arbiter or teleop
  keys,      \* keys pressed (bounded by MaxKeys)
  external   \* external messages (bounded by MaxExternal)

vars == <<stopped, echoes, status, consumer, keys, external>>

Publish(m) ==
  /\ echoes' = Keep(echoes, m)
  /\ status' = Keep(status, m)

Init ==
  /\ stopped = FALSE /\ consumer = FALSE
  /\ echoes = <<>> /\ status = <<>>
  /\ keys = 0 /\ external = 0

(* Mutant: broadcast only while stopped.                                   *)
TickWhileStopped ==
  /\ stopped /\ Publish(stopped)
  /\ UNCHANGED <<stopped, consumer, keys, external>>

(* 20 Hz: the current state, always.  The zero twists it also publishes    *)
(* while stopped are input of the arbiter.                                 *)
Tick ==
  /\ Publish(stopped)
  /\ UNCHANGED <<stopped, consumer, keys, external>>

(* 10 Hz: a pending key, E to engage or R to release.                      *)
PollKeys(engage) ==
  /\ keys < MaxKeys
  /\ keys' = keys + 1
  /\ stopped' = engage
  /\ UNCHANGED <<echoes, status, consumer, external>>

(* Mutant: a message toggles the stop.                                     *)
OnExtToggles ==
  /\ echoes # <<>>
  /\ stopped' = (Head(echoes) # stopped)
  /\ echoes' = Tail(echoes)
  /\ UNCHANGED <<status, consumer, keys, external>>

(* "Someone else published a state": every message is tracked, the node's  *)
(* own included.                                                           *)
OnExt ==
  /\ echoes # <<>>
  /\ stopped' = Head(echoes)
  /\ echoes' = Tail(echoes)
  /\ UNCHANGED <<status, consumer, keys, external>>

(* Another node publishes a state.                                         *)
ExternalPublish(engage) ==
  /\ external < MaxExternal
  /\ external' = external + 1
  /\ Publish(engage)
  /\ UNCHANGED <<stopped, consumer, keys>>

(* The arbiter or the teleop tracks the topic the same way.                *)
OnEstop ==
  /\ status # <<>>
  /\ consumer' = Head(status)
  /\ status' = Tail(status)
  /\ UNCHANGED <<stopped, echoes, keys, external>>

Next ==
  \/ Tick
  \/ OnExt
  \/ OnEstop
  \/ \E engage \in BOOLEAN : PollKeys(engage) \/ ExternalPublish(engage)

Spec == Init /\ [][Next]_vars

(* The timer keeps firing and queued messages are taken.                   *)
FairSpec == Spec /\ WF_vars(Tick) /\ WF_vars(OnExt) /\ WF_vars(OnEstop)

----------------------------------------------------------------------------
InQueue(q) == {q[n] : n \in 1..Len(q)}

(* Every variable holds a value of its type, queues within their depth.    *)
TypeOK ==
  /\ stopped \in BOOLEAN /\ consumer \in BOOLEAN
  /\ echoes \in Seq(BOOLEAN) /\ Len(echoes) <= Depth
  /\ status \in Seq(BOOLEAN) /\ Len(status) <= Depth
  /\ keys \in 0..MaxKeys /\ external \in 0..MaxExternal

(* Manager and topic agree: nothing under way says otherwise.              *)
Settled ==
  InQueue(echoes) \subseteq {stopped} /\ InQueue(status) \subseteq {stopped}

(* Once manager and topic agree they keep agreeing, and the manager its    *)
(* state, until the next key or external message: no echo undoes a stop    *)
(* that has settled.                                                       *)
SettledHolds ==
  [][Settled /\ UNCHANGED <<keys, external>>
       => Settled' /\ UNCHANGED stopped]_vars

(* What settles reaches the other nodes: the arbiter or the teleop ends up *)
(* with the manager's state, unless a new command comes.                   *)
ConsumerFollows ==
  \A k \in 0..MaxKeys, x \in 0..MaxExternal :
    (Settled /\ keys = k /\ external = x)
      ~> (consumer = stopped \/ keys # k \/ external # x)
=============================================================================
