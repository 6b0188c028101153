----------------------------- MODULE ReplicaLoop ------------------------------
(***************************************************************************)
(* The event loop of one replica: Replica2 and the input buffers of          *)
(* ReplicaState, under the FBFT engine.  FbftEngine lets a replica take any  *)
(* enabled action at any time and receive any message ever sent; here a      *)
(* message is delivered once, is refused for ever or kept for later, and     *)
(* actions are applied from a snapshot, a limited number for each event.     *)
(*                                                                          *)
(* The replica is a backup in a view that does not change, and one of the    *)
(* other three replicas of the cluster is down: the quorum needs it.  The    *)
(* two others, the primary and a backup, are the environment.  They send a   *)
(* message for height n when FbftEngine lets them: PRE_PREPARE and PREPARE   *)
(* when block n - 1 is in the chain, COMMIT when this replica has prepared,  *)
(* ROAST_PRE_SIGNATURE and block n when it has committed (the primary and    *)
(* the other backup are enough for the signature).                          *)
(*                                                                          *)
(* Time counts the periods of the request schedule: the request of block n   *)
(* is for period n.  The primary proposes by its own clock, which may be     *)
(* ahead of the replica's.                                                  *)
(***************************************************************************)
EXTENDS Naturals, FiniteSets

CONSTANTS
    MaxHeight,                  \* bound: the last block of the chain
    ClockLag,                   \* periods by which the primary's clock may be
                                \* ahead of the replica's and its tolerance
    MAX_NUM_APPLIED_ACTIONS     \* actions applied for one event, 11 in the code

ASSUME MaxHeightAssumption == MaxHeight \in Nat
ASSUME ClockLagAssumption == ClockLag \in Nat
ASSUME MaxAppliedAssumption == MAX_NUM_APPLIED_ACTIONS \in Nat \ {0}

VARIABLES
    h,              \* low watermark: the last block received
    m_in_msg_buffer, m_in_msg_awaiting_checkpoint_buffer,
    msg_log,        \* PRE_PREPAREs, PREPAREs and COMMITs of the engine's log
    roast_active,   \* height being signed, as a set of at most one
    m_active_actions,
    num_applied_actions,
    running,        \* ApplyActiveActions is running
    sent,           \* messages broadcast by the replica
    delivered,      \* messages the transport has delivered
    tip,            \* height of the chain
    clock,          \* last period that current_time, with the tolerance, admits
    too_early       \* history: PRE_PREPAREs for h + 1 refused by the clock

buffers == <<m_in_msg_buffer, m_in_msg_awaiting_checkpoint_buffer>>
engine == <<h, msg_log, roast_active>>
loop == <<m_active_actions, num_applied_actions, running>>
world == <<delivered, tip, clock>>
vars == <<engine, buffers, loop, sent, world, too_early>>

Height == 1 .. MaxHeight

Own(type, n) == [type |-> type, n |-> n, from |-> "self"]

\* Messages with a sequence number, and the ones without: n is there only to
\* tell the rounds apart.
Sequenced ==
    [type : {"PRE_PREPARE"}, n : Height, from : {"primary"}]
        \union [type : {"PREPARE"}, n : Height, from : {"backup"}]
        \union [type : {"COMMIT"}, n : Height, from : {"primary", "backup"}]
PreSignatures ==
    [type : {"ROAST_PRE_SIGNATURE"}, n : Height, from : {"primary"}]
Incoming == Sequenced \union PreSignatures
OwnShares == {Own("ROAST_SIGNATURE_SHARE", n) : n \in Height}
OwnSequenced ==
    {Own(type, n) : type \in {"PREPARE", "COMMIT"}, n \in Height}

\* A Receive action has the time at which it was built.
Receive(m, time) == [name |-> "RECEIVE", m |-> m, time |-> time]
Send(name, n) == [name |-> name, m |-> Own(name, n)]

-----------------------------------------------------------------------------
(* The engine, for a backup in one view: a slot is its height.             *)

Logged(log, type, n) == {m \in log : m.type = type /\ m.n = n}

pre_prepared(log, n) == Logged(log, "PRE_PREPARE", n) # {}
prepared(log, n) ==
    pre_prepared(log, n) /\ Cardinality(Logged(log, "PREPARE", n)) >= 2
committed(log, n) ==
    prepared(log, n) /\ Cardinality(Logged(log, "COMMIT", n)) >= 3

pre_SEND_PREPARE(log, n) == pre_prepared(log, n) /\ Own("PREPARE", n) \notin log
pre_SEND_COMMIT(log, n) == prepared(log, n) /\ Own("COMMIT", n) \notin log
pre_ROAST_INIT(log, roast, n) == committed(log, n) /\ roast = {}

\* ReceivePrePrepare refuses a request that is too far in the future.  Its other
\* refusals, of an invalid block and of an unknown request, do not happen for
\* the block of a correct primary on top of this replica's chain: the requests
\* of the next periods exist long before.
TooEarly(m, time) == m.type = "PRE_PREPARE" /\ m.n > time

\* Effect of a Receive action on a message that is not a BLOCK: whether it
\* succeeds.  A share is for the coordinator and fails here.
Accepts(m, time) ==
    \/ m \in Sequenced /\ m.n = h + 1 /\ ~TooEarly(m, time)
    \/ m \in PreSignatures /\ roast_active # {}

-----------------------------------------------------------------------------
(* ReplicaState.                                                           *)

\* UpdateActiveActions, for buffer and engine state as they have become.
ActiveActions(buffer, log, roast, height) ==
    {Receive(m, clock) : m \in buffer}
        \union {Send("PREPARE", n) :
                  n \in {k \in {height + 1} : pre_SEND_PREPARE(log, k)}}
        \union {Send("COMMIT", n) :
                  n \in {k \in {height + 1} : pre_SEND_COMMIT(log, k)}}
        \union {Send("ROAST_INIT", n) :
                  n \in {k \in {height + 1} : pre_ROAST_INIT(log, roast, k)}}

UpdateActiveActions ==
    m_active_actions' =
        ActiveActions(m_in_msg_buffer', msg_log', roast_active', h')

\* Fault variant: a refused message is kept for one height only.
AwaitsCheckpoint_Next(m) == m \in Sequenced /\ m.n = h + 1

\* Whether a refused message is moved to the awaiting buffer.
AwaitsCheckpoint(m) == m \in Sequenced /\ m.n = h + 2

\* Apply, for a Receive action: the message leaves the input buffer.  A share
\* made for a PRE_SIGNATURE is broadcast; ApplyActiveActions then puts it into
\* the input buffer as well, after the active actions have been updated.
ApplyReceive(m, time) ==
    LET rest == m_in_msg_buffer \ {m}
        ok == Accepts(m, time)
    IN  /\ msg_log' = IF ok /\ m \in Sequenced
                      THEN msg_log \union {m} ELSE msg_log
        /\ m_in_msg_awaiting_checkpoint_buffer' =
             IF ~ok /\ AwaitsCheckpoint(m)
             THEN m_in_msg_awaiting_checkpoint_buffer \union {m}
             ELSE m_in_msg_awaiting_checkpoint_buffer
        /\ too_early' = IF m.n = h + 1 /\ TooEarly(m, time)
                        THEN too_early \union {m} ELSE too_early
        /\ IF ok /\ m \in PreSignatures
           THEN LET share == Own("ROAST_SIGNATURE_SHARE", m.n)
                IN  /\ sent' = sent \union {share}
                    /\ m_in_msg_buffer' = rest \union {share}
           ELSE /\ m_in_msg_buffer' = rest
                /\ UNCHANGED sent
        /\ m_active_actions' = ActiveActions(rest, msg_log', roast_active, h)
        /\ UNCHANGED <<h, roast_active>>

\* Apply, for the actions that depend on the engine's state.
ApplySend(a) ==
    /\ IF a.name = "ROAST_INIT"
       THEN roast_active' = {a.m.n} /\ UNCHANGED <<msg_log, sent>>
       ELSE /\ msg_log' = msg_log \union {a.m}
            /\ sent' = sent \union {a.m}
            /\ UNCHANGED roast_active
    /\ UNCHANGED <<h, buffers, too_early>>
    /\ UpdateActiveActions

-----------------------------------------------------------------------------
(* Replica2.                                                               *)

Init ==
    /\ h = 0 /\ tip = 0
    /\ m_in_msg_buffer = {} /\ m_in_msg_awaiting_checkpoint_buffer = {}
    /\ msg_log = {} /\ roast_active = {}
    /\ m_active_actions = {} /\ num_applied_actions = 0 /\ running = FALSE
    /\ sent = {} /\ delivered = {} /\ clock = 0 /\ too_early = {}

\* ApplyActiveActions begins.
StartLoop ==
    /\ running' = TRUE
    /\ num_applied_actions' = 0

\* ReceiveIncomingMessage, for a message other than BLOCK that has been sent.
Deliverable(m) ==
    \/ /\ m.type \in {"PRE_PREPARE", "PREPARE"}
       /\ m.n <= tip + 1 /\ m.n <= clock + ClockLag
    \/ m.type = "COMMIT" /\ Own("PREPARE", m.n) \in sent
    \/ m.type = "ROAST_PRE_SIGNATURE" /\ Own("COMMIT", m.n) \in sent

ReceiveIncomingMessage(m) ==
    /\ ~running
    /\ m \notin delivered /\ Deliverable(m)
    /\ delivered' = delivered \union {m}
    /\ m_in_msg_buffer' = m_in_msg_buffer \union {m}
    /\ StartLoop
    /\ UNCHANGED <<engine, m_in_msg_awaiting_checkpoint_buffer, sent, tip,
                   clock, too_early>>
    /\ UpdateActiveActions

\* Fault variant: the waiting messages are forgotten.
Released_Never == {}

\* The messages that a BLOCK moves back to the input buffer.
Released == m_in_msg_awaiting_checkpoint_buffer

\* ReceiveIncomingMessage for a BLOCK, which is applied at once; the other
\* active actions wait for the next event.
ReceiveBlock ==
    /\ ~running
    /\ h < tip
    /\ h' = h + 1
    /\ msg_log' = {m \in msg_log : m.n > h'}
    /\ roast_active' = {}
    /\ m_in_msg_buffer' = m_in_msg_buffer \union Released
    /\ m_in_msg_awaiting_checkpoint_buffer' = {}
    /\ UNCHANGED <<num_applied_actions, running, sent, world, too_early>>
    /\ UpdateActiveActions

\* Fault variant: a timeout only looks at the state, not at the input buffer.
TimedActions_StateOnly == ActiveActions({}, msg_log, roast_active, h)

\* What CheckTimedActions starts the loop with.
TimedActions == ActiveActions(m_in_msg_buffer, msg_log, roast_active, h)

CheckTimedActions ==
    /\ ~running
    /\ m_active_actions' = TimedActions
    /\ StartLoop
    /\ UNCHANGED <<engine, buffers, sent, world, too_early>>

\* One round of ApplyActiveActions, with a random active action.
ApplyActiveAction ==
    /\ running
    /\ num_applied_actions < MAX_NUM_APPLIED_ACTIONS
    /\ \E a \in m_active_actions :
        IF a.name = "RECEIVE" THEN ApplyReceive(a.m, a.time) ELSE ApplySend(a)
    /\ num_applied_actions' = num_applied_actions + 1
    /\ UNCHANGED <<running, world>>

\* No active action is left, or the limit is reached.
EndLoop ==
    /\ running
    /\ \/ m_active_actions = {}
       \/ num_applied_actions = MAX_NUM_APPLIED_ACTIONS
    /\ running' = FALSE
    /\ UNCHANGED <<engine, buffers, m_active_actions, num_applied_actions,
                   sent, world, too_early>>

\* The other replicas sign and submit the next block.
ExtendChain ==
    /\ tip < MaxHeight
    /\ Own("COMMIT", tip + 1) \in sent
    /\ tip' = tip + 1
    /\ UNCHANGED <<engine, buffers, loop, sent, delivered, clock, too_early>>

\* The replica's clock comes to the next period.
Tick ==
    /\ clock < MaxHeight
    /\ clock' = clock + 1
    /\ UNCHANGED <<engine, buffers, loop, sent, delivered, tip, too_early>>

-----------------------------------------------------------------------------
Loop == ApplyActiveAction \/ EndLoop

ReceiveMessage == \E m \in Incoming : ReceiveIncomingMessage(m)

Next ==
    \/ Loop
    \/ CheckTimedActions
    \/ ReceiveMessage
    \/ ReceiveBlock
    \/ ExtendChain
    \/ Tick

Spec == Init /\ [][Next]_vars

\* The loop runs to its end, time goes on, the network timeout expires again and
\* again, and what is sent arrives, in any order.  Strong fairness: what has arrived waits
\* in the socket while the loop runs, and the replica comes back to it.
FairSpec ==
    /\ Spec
    /\ WF_vars(Loop) /\ WF_vars(CheckTimedActions)
    /\ WF_vars(ExtendChain) /\ WF_vars(Tick)
    /\ SF_vars(ReceiveMessage) /\ SF_vars(ReceiveBlock)

-----------------------------------------------------------------------------
(* Properties.                                                             *)

\* Of the messages for a height the replica has not reached, none is lost but the
\* PRE_PREPAREs that the clock refused: Apply keeps exactly the refused messages
\* for h + 2, which is enough for a replica that the quorum needs.  (A message
\* for h + 1 is refused by the clock only, and is not kept.)
EarlyKept ==
    \A m \in (delivered \intersect Sequenced) \ too_early :
        m.n > h => m \in m_in_msg_buffer \union msg_log
                           \union m_in_msg_awaiting_checkpoint_buffer

\* The replica takes part in every block and follows the chain to its end,
\* although actions left over at the limit and messages released by a BLOCK
\* wait for another event.  Only a PRE_PREPARE lost to a slow clock stops it,
\* until the next view.
CaughtUp == <>(h = MaxHeight \/ too_early # {})

\* Nothing stays in the input buffer, not even what the loop puts there behind
\* the back of its own snapshot.
BufferDrains == []<>(m_in_msg_buffer = {})
=============================================================================
