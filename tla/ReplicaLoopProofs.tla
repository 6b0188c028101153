-------------------------- MODULE ReplicaLoopProofs ---------------------------
(***************************************************************************)
(* No early message is lost by the event loop but those that the clock       *)
(* refuses (EarlyKept of ReplicaLoop), for every height, every difference of *)
(* the clocks and every limit of actions; and the clock refuses none when    *)
(* the primary's is not ahead by more than the tolerance.                   *)
(*                                                                          *)
(* EarlyKept is not inductive: a refused message is kept for h + 2 only, so  *)
(* the proof needs that nothing later arrives.  That follows from what this  *)
(* replica has sent: the chain grows only with its COMMITs, and it commits   *)
(* the next height only.                                                    *)
(***************************************************************************)
EXTENDS ReplicaLoop, TLAPS

\* The chain is at most one block ahead of the replica.
ChainClose == h \in Nat /\ tip \in Nat /\ tip <= h + 1

\* The replica has prepared and committed no height beyond the next.
SentClose ==
    \A m \in sent : m.type \in {"PREPARE", "COMMIT"} =>
        m.n \in Nat /\ m.n <= h + 1

\* Active actions that send a message are for the next height.
ActiveClose ==
    \A a \in m_active_actions : a.name # "RECEIVE" => a.m.n = h + 1

\* Nothing arrives for a height beyond the one after the next.
DeliveredClose ==
    \A m \in delivered \intersect Sequenced : m.n \in Nat /\ m.n <= h + 2

\* The inductive invariant.
LoopInv == /\ ChainClose /\ SentClose /\ ActiveClose /\ DeliveredClose
           /\ EarlyKept

\* What UpdateActiveActions puts into the snapshot.
LEMMA ActiveActionsClose ==
    ASSUME NEW buffer, NEW log, NEW roast, NEW height,
           NEW a \in ActiveActions(buffer, log, roast, height),
           a.name # "RECEIVE"
    PROVE  a.m.n = height + 1
BY DEF ActiveActions, Receive, Send, Own

\* A sequenced message has a number for its height.
LEMMA SequencedHeight ==
    ASSUME NEW m \in Sequenced
    PROVE  m.n \in Nat /\ m.n >= 1
BY MaxHeightAssumption DEF Sequenced, Height

LEMMA InitLoopInv == Init => LoopInv
BY DEF Init, LoopInv, ChainClose, SentClose, ActiveClose, DeliveredClose,
       EarlyKept

\* ApplyReceive: the message is logged, kept, or not for a later height.
LEMMA ApplyReceiveInv ==
    ASSUME LoopInv, NEW m, NEW time, ApplyReceive(m, time), UNCHANGED world
    PROVE  LoopInv'
<1> USE DEF LoopInv, world
<1>1. ChainClose'
  BY DEF ApplyReceive, ChainClose
<1>2. SentClose'
  <2>1. CASE Accepts(m, time) /\ m \in PreSignatures
    BY <2>1 DEF ApplyReceive, SentClose, Own
  <2>2. CASE ~(Accepts(m, time) /\ m \in PreSignatures)
    BY <2>2 DEF ApplyReceive, SentClose
  <2> QED BY <2>1, <2>2
<1>3. ActiveClose'
  BY ActiveActionsClose DEF ApplyReceive, ActiveClose
<1>4. DeliveredClose'
  BY DEF ApplyReceive, DeliveredClose
<1>5. EarlyKept'
  <2> SUFFICES ASSUME NEW x \in (delivered \intersect Sequenced) \ too_early', x.n > h
               PROVE  x \in m_in_msg_buffer' \union msg_log'
                            \union m_in_msg_awaiting_checkpoint_buffer'
    BY DEF EarlyKept, ApplyReceive
  <2>0. x \notin too_early
    BY DEF ApplyReceive
  <2>1. x \in m_in_msg_buffer \union msg_log
                \union m_in_msg_awaiting_checkpoint_buffer
    BY <2>0 DEF EarlyKept
  <2>2. x.n \in Nat /\ x.n <= h + 2 /\ h \in Nat
    BY DEF DeliveredClose, ChainClose
  <2>3. /\ msg_log \subseteq msg_log'
        /\ m_in_msg_awaiting_checkpoint_buffer \subseteq
             m_in_msg_awaiting_checkpoint_buffer'
        /\ m_in_msg_buffer \ {m} \subseteq m_in_msg_buffer'
    BY DEF ApplyReceive
  <2>4. CASE x # m
    BY <2>1, <2>3, <2>4
  <2>5. CASE x = m /\ x.n = h + 1
    <3>1. Accepts(m, time)
      BY <2>5 DEF Accepts, ApplyReceive
    <3> QED BY <2>5, <3>1 DEF ApplyReceive
  <2>6. CASE x = m /\ x.n = h + 2
    <3>1. AwaitsCheckpoint(m)
      BY <2>6 DEF AwaitsCheckpoint
    <3>2. m \notin PreSignatures
      BY <2>6 DEF Sequenced, PreSignatures
    <3>3. ~Accepts(m, time)
      BY <2>2, <2>6, <3>2 DEF Accepts
    <3> QED BY <2>6, <3>1, <3>3 DEF ApplyReceive
  <2> QED BY <2>2, <2>4, <2>5, <2>6
<1> QED BY <1>1, <1>2, <1>3, <1>4, <1>5

\* ApplySend: only the next height is prepared or committed.
LEMMA ApplySendInv ==
    ASSUME LoopInv, NEW a \in m_active_actions, a.name # "RECEIVE",
           ApplySend(a), UNCHANGED world
    PROVE  LoopInv'
<1> USE DEF LoopInv, world
<1>1. a.m.n = h + 1 /\ h \in Nat
  BY DEF ActiveClose, ChainClose
<1>2. ChainClose'
  BY DEF ApplySend, ChainClose
<1>3. SentClose'
  BY <1>1 DEF ApplySend, SentClose
<1>4. ActiveClose'
  BY ActiveActionsClose DEF ApplySend, UpdateActiveActions, ActiveClose
<1>5. DeliveredClose'
  BY DEF ApplySend, DeliveredClose
<1>6. EarlyKept'
  BY DEF ApplySend, EarlyKept, buffers
<1> QED BY <1>2, <1>3, <1>4, <1>5, <1>6

\* A message arrives: the sender was able to send it.
LEMMA ReceiveMessageInv ==
    ASSUME LoopInv, NEW m \in Incoming, ReceiveIncomingMessage(m)
    PROVE  LoopInv'
<1> USE DEF LoopInv
<1>1. ChainClose' /\ SentClose'
  BY DEF ReceiveIncomingMessage, ChainClose, SentClose, engine
<1>2. ActiveClose'
  BY ActiveActionsClose
  DEF ReceiveIncomingMessage, UpdateActiveActions, ActiveClose
<1>3. DeliveredClose'
  <2>1. ASSUME m \in Sequenced
        PROVE  m.n \in Nat /\ m.n <= h + 2
    <3>1. m.n \in Nat
      BY <2>1, SequencedHeight
    <3>2. CASE m.type \in {"PRE_PREPARE", "PREPARE"} /\ m.n <= tip + 1
      BY <3>1, <3>2 DEF ChainClose
    <3>3. CASE m.type = "COMMIT" /\ Own("PREPARE", m.n) \in sent
      BY <3>1, <3>3 DEF SentClose, Own, ChainClose
    <3>4. m.type # "ROAST_PRE_SIGNATURE"
      BY <2>1 DEF Sequenced
    <3> QED
      BY <3>1, <3>2, <3>3, <3>4 DEF ReceiveIncomingMessage, Deliverable
  <2> QED
    BY <2>1 DEF ReceiveIncomingMessage, DeliveredClose, engine
<1>4. EarlyKept'
  BY DEF ReceiveIncomingMessage, EarlyKept, engine
<1> QED BY <1>1, <1>2, <1>3, <1>4

\* A BLOCK arrives: the waiting messages are in the input buffer again.
LEMMA ReceiveBlockInv == LoopInv /\ ReceiveBlock => LoopInv'
<1> SUFFICES ASSUME LoopInv, ReceiveBlock
             PROVE  LoopInv'
  OBVIOUS
<1> USE DEF LoopInv, world
<1>1. h \in Nat /\ tip \in Nat /\ h' = h + 1 /\ h' \in Nat
  BY DEF ReceiveBlock, ChainClose
<1>2. ChainClose'
  BY <1>1 DEF ReceiveBlock, ChainClose
<1>3. SentClose'
  BY <1>1 DEF ReceiveBlock, SentClose
<1>4. ActiveClose'
  BY ActiveActionsClose DEF ReceiveBlock, UpdateActiveActions, ActiveClose
<1>5. DeliveredClose'
  BY <1>1 DEF ReceiveBlock, DeliveredClose
<1>6. EarlyKept'
  <2> SUFFICES ASSUME NEW x \in (delivered \intersect Sequenced) \ too_early,
                      x.n > h'
               PROVE  x \in m_in_msg_buffer' \union msg_log'
                            \union m_in_msg_awaiting_checkpoint_buffer'
    BY DEF EarlyKept, ReceiveBlock, world
  <2>1. x.n > h
    BY <1>1, SequencedHeight
  <2>2. x \in m_in_msg_buffer \union msg_log
                \union m_in_msg_awaiting_checkpoint_buffer
    BY <2>1 DEF EarlyKept
  <2> QED BY <2>2 DEF ReceiveBlock, Released
<1> QED BY <1>2, <1>3, <1>4, <1>5, <1>6

LEMMA NextLoopInv == LoopInv /\ [Next]_vars => LoopInv'
<1> SUFFICES ASSUME LoopInv, [Next]_vars
             PROVE  LoopInv'
  OBVIOUS
<1> USE DEF world
<1>1. CASE ApplyActiveAction
  <2>1. PICK a \in m_active_actions :
          IF a.name = "RECEIVE" THEN ApplyReceive(a.m, a.time) ELSE ApplySend(a)
    BY <1>1 DEF ApplyActiveAction
  <2>2. UNCHANGED world
    BY <1>1 DEF ApplyActiveAction
  <2> QED BY <2>1, <2>2, ApplyReceiveInv, ApplySendInv
<1>2. CASE EndLoop
  BY <1>2 DEF EndLoop, LoopInv, ChainClose, SentClose, ActiveClose,
              DeliveredClose, EarlyKept, engine, buffers
<1>3. CASE CheckTimedActions
  <2>1. ActiveClose'
    BY <1>3, ActiveActionsClose
    DEF CheckTimedActions, TimedActions, ActiveClose, engine
  <2> QED
    BY <1>3, <2>1 DEF CheckTimedActions, LoopInv, ChainClose, SentClose,
                      DeliveredClose, EarlyKept, engine, buffers
<1>4. CASE ReceiveMessage
  BY <1>4, ReceiveMessageInv DEF ReceiveMessage
<1>5. CASE ReceiveBlock
  BY <1>5, ReceiveBlockInv
<1>6. CASE ExtendChain
  <2>1. tip + 1 <= h + 1
    BY <1>6 DEF ExtendChain, LoopInv, SentClose, Own
  <2>2. ChainClose'
    BY <1>6, <2>1 DEF ExtendChain, LoopInv, ChainClose, engine
  <2> QED
    BY <1>6, <2>2 DEF ExtendChain, LoopInv, SentClose, ActiveClose,
                      DeliveredClose, EarlyKept, engine, buffers, loop
<1>7. CASE UNCHANGED vars
  BY <1>7 DEF vars, LoopInv, ChainClose, SentClose, ActiveClose,
              DeliveredClose, EarlyKept, engine, buffers, loop
<1>8. CASE Tick
  BY <1>8 DEF Tick, LoopInv, ChainClose, SentClose, ActiveClose,
              DeliveredClose, EarlyKept, engine, buffers, loop
<1> QED BY <1>1, <1>2, <1>3, <1>4, <1>5, <1>6, <1>7, <1>8 DEF Next, Loop

\* Whatever the order in which messages arrive and actions are applied, and
\* whatever the clocks, a replica that the quorum needs loses no message for a
\* height it has still to reach but a PRE_PREPARE that is too early for its
\* clock (ReplicaState::Apply, ReceivePrePrepare::effect).
THEOREM EarlyKeptHolds == Spec => []EarlyKept
<1>1. LoopInv => EarlyKept
  BY DEF LoopInv
<1> QED BY <1>1, InitLoopInv, NextLoopInv, PTL DEF Spec

-----------------------------------------------------------------------------
(* The clock.                                                              *)

Proposal(m) == m.type = "PRE_PREPARE"

\* PRE_PREPAREs in a buffer were sent by the primary's clock.
BufferedByClock ==
    \A m \in m_in_msg_buffer \union m_in_msg_awaiting_checkpoint_buffer :
        Proposal(m) => m.n \in Nat /\ m.n <= clock + ClockLag

\* An active action on a PRE_PREPARE was built after it was sent.
ActiveByClock ==
    \A a \in m_active_actions : a.name = "RECEIVE" /\ Proposal(a.m) =>
        /\ a.m.n \in Nat /\ a.time \in Nat
        /\ a.m.n <= a.time + ClockLag /\ a.time <= clock

\* No PRE_PREPARE for the next height was refused by the clock.
NoneTooEarly == too_early = {}

\* The inductive invariant for clocks that agree up to the tolerance.
ClockInv == clock \in Nat /\ BufferedByClock /\ ActiveByClock /\ NoneTooEarly

\* Active actions built from a buffer of messages sent by the primary's clock.
LEMMA ActiveActionsByClock ==
    ASSUME clock \in Nat, NEW buffer, NEW log, NEW roast, NEW height,
           \A m \in buffer : Proposal(m) => m.n \in Nat /\ m.n <= clock + ClockLag,
           NEW a \in ActiveActions(buffer, log, roast, height),
           a.name = "RECEIVE", Proposal(a.m)
    PROVE  /\ a.m.n \in Nat /\ a.time \in Nat
           /\ a.m.n <= a.time + ClockLag /\ a.time <= clock
<1>1. PICK m \in buffer : a = Receive(m, clock)
  BY DEF ActiveActions, Receive, Send, Own
<1>2. a.m = m /\ a.time = clock
  BY <1>1 DEF Receive
<1> QED BY <1>2

\* A message is applied: its PRE_PREPARE is not too early, and is kept at most.
LEMMA ApplyReceiveClock ==
    ASSUME ClockLag = 0, ClockInv, NEW a \in m_active_actions,
           a.name = "RECEIVE", ApplyReceive(a.m, a.time), UNCHANGED world
    PROVE  ClockInv'
<1> USE DEF world
<1>1. NoneTooEarly'
  <2>1. ASSUME TooEarly(a.m, a.time)
        PROVE  FALSE
    <3>1. a.m.n > a.time /\ Proposal(a.m)
      BY <2>1 DEF TooEarly, Proposal
    <3>2. a.m.n \in Nat /\ a.time \in Nat /\ a.m.n <= a.time + ClockLag
      BY <3>1 DEF ClockInv, ActiveByClock
    <3> QED BY <3>1, <3>2
  <2> QED BY <2>1 DEF ApplyReceive, ClockInv, NoneTooEarly
<1>2. BufferedByClock'
  <2> SUFFICES ASSUME NEW x \in m_in_msg_buffer'
                        \union m_in_msg_awaiting_checkpoint_buffer',
                      Proposal(x)
               PROVE  x.n \in Nat /\ x.n <= clock + ClockLag
    BY DEF BufferedByClock
  <2>1. x # Own("ROAST_SIGNATURE_SHARE", a.m.n)
    BY DEF Own, Proposal
  <2>2. x \in m_in_msg_buffer \union m_in_msg_awaiting_checkpoint_buffer
            \union {a.m}
    BY <2>1 DEF ApplyReceive
  <2>3. ASSUME x = a.m
        PROVE  x.n \in Nat /\ x.n <= clock + ClockLag
    BY <2>3, ClockLagAssumption DEF ClockInv, ActiveByClock
  <2> QED BY <2>2, <2>3 DEF ClockInv, BufferedByClock
<1>3. ActiveByClock'
  <2>1. m_active_actions' =
          ActiveActions(m_in_msg_buffer \ {a.m}, msg_log', roast_active, h)
    BY DEF ApplyReceive
  <2>2. \A m \in m_in_msg_buffer \ {a.m} :
          Proposal(m) => m.n \in Nat /\ m.n <= clock + ClockLag
    BY DEF ClockInv, BufferedByClock
  <2> QED BY <2>1, <2>2, ActiveActionsByClock DEF ActiveByClock, ClockInv
<1> QED BY <1>1, <1>2, <1>3 DEF ClockInv

\* The steps that keep both buffers, or move messages between them.
LEMMA UpdateClock ==
    ASSUME ClockInv, UNCHANGED <<clock, too_early>>,
           m_in_msg_buffer' \union m_in_msg_awaiting_checkpoint_buffer'
             \subseteq m_in_msg_buffer
                          \union m_in_msg_awaiting_checkpoint_buffer,
           UpdateActiveActions \/ UNCHANGED m_active_actions
    PROVE  ClockInv'
<1>1. BufferedByClock'
  BY DEF ClockInv, BufferedByClock
<1>2. ActiveByClock'
  <2>1. CASE UpdateActiveActions
    <3>1. \A m \in m_in_msg_buffer' :
            Proposal(m) => m.n \in Nat /\ m.n <= clock + ClockLag
      BY DEF ClockInv, BufferedByClock
    <3> QED BY <2>1, <3>1, ActiveActionsByClock
            DEF UpdateActiveActions, ActiveByClock, ClockInv
  <2>2. CASE UNCHANGED m_active_actions
    BY <2>2 DEF ClockInv, ActiveByClock
  <2> QED BY <2>1, <2>2
<1> QED BY <1>1, <1>2 DEF ClockInv, NoneTooEarly

LEMMA NextClockInv ==
    ASSUME ClockLag = 0, ClockInv, [Next]_vars
    PROVE  ClockInv'
<1> USE DEF world, engine, buffers, loop
<1>1. CASE ApplyActiveAction
  <2>1. PICK a \in m_active_actions :
          IF a.name = "RECEIVE" THEN ApplyReceive(a.m, a.time) ELSE ApplySend(a)
    BY <1>1 DEF ApplyActiveAction
  <2>2. UNCHANGED world
    BY <1>1 DEF ApplyActiveAction
  <2>3. CASE a.name = "RECEIVE"
    BY <2>1, <2>2, <2>3, ApplyReceiveClock
  <2>4. CASE a.name # "RECEIVE"
    BY <2>1, <2>2, <2>4, UpdateClock DEF ApplySend
  <2> QED BY <2>3, <2>4
<1>2. CASE EndLoop
  BY <1>2, UpdateClock DEF EndLoop
<1>3. CASE CheckTimedActions
  BY <1>3, UpdateClock
  DEF CheckTimedActions, TimedActions, UpdateActiveActions
<1>4. CASE ReceiveMessage
  <2>1. PICK m \in Incoming : ReceiveIncomingMessage(m)
    BY <1>4 DEF ReceiveMessage
  <2>2. ASSUME Proposal(m)
        PROVE  m.n \in Nat /\ m.n <= clock + ClockLag
    <3>1. m.n \in Nat
      BY MaxHeightAssumption DEF Incoming, Sequenced, PreSignatures, Height
    <3> QED BY <2>1, <2>2, <3>1 DEF ReceiveIncomingMessage, Deliverable, Proposal
  <2>3. \A x \in m_in_msg_buffer' \union m_in_msg_awaiting_checkpoint_buffer' :
          Proposal(x) => x.n \in Nat /\ x.n <= clock + ClockLag
    BY <2>1, <2>2 DEF ReceiveIncomingMessage, ClockInv, BufferedByClock
  <2>4. UNCHANGED <<clock, too_early>> /\ UpdateActiveActions
    BY <2>1 DEF ReceiveIncomingMessage
  <2>5. ActiveByClock'
    BY <2>3, <2>4, ActiveActionsByClock
    DEF UpdateActiveActions, ActiveByClock, ClockInv
  <2> QED BY <2>3, <2>4, <2>5 DEF ClockInv, BufferedByClock, NoneTooEarly
<1>5. CASE ReceiveBlock
  BY <1>5, UpdateClock DEF ReceiveBlock, Released
<1>6. CASE ExtendChain
  BY <1>6, UpdateClock DEF ExtendChain
<1>7. CASE Tick
  <2>1. clock \in Nat /\ clock' = clock + 1
    BY <1>7 DEF Tick, ClockInv
  <2>2. BufferedByClock'
    BY <1>7, <2>1, ClockLagAssumption DEF Tick, ClockInv, BufferedByClock
  <2>3. ActiveByClock'
    BY <1>7, <2>1 DEF Tick, ClockInv, ActiveByClock
  <2> QED BY <1>7, <2>1, <2>2, <2>3 DEF Tick, ClockInv, NoneTooEarly
<1>8. CASE UNCHANGED vars
  BY <1>8, UpdateClock DEF vars
<1> QED
  BY <1>1, <1>2, <1>3, <1>4, <1>5, <1>6, <1>7, <1>8 DEF Next, Loop

\* While the primary's clock is not ahead of the replica's by more than the
\* tolerance, no PRE_PREPARE for the next height is refused by the clock,
\* although an action keeps the time at which it was built: EarlyKept then says
\* that no message for a later height is lost at all.
THEOREM NoneTooEarlyHolds == ClockLag = 0 => (Spec => []NoneTooEarly)
<1> SUFFICES ASSUME ClockLag = 0
             PROVE  Spec => []NoneTooEarly
  OBVIOUS
<1>1. Init => ClockInv
  BY DEF Init, ClockInv, BufferedByClock, ActiveByClock, NoneTooEarly
<1>2. ClockInv /\ [Next]_vars => ClockInv'
  BY NextClockInv
<1>3. ClockInv => NoneTooEarly
  BY DEF ClockInv
<1> QED BY <1>1, <1>2, <1>3, PTL DEF Spec
=============================================================================
