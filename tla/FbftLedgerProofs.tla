--------------------------- MODULE FbftLedgerProofs ---------------------------
(***************************************************************************)
(* The chain as one ledger: two blocks at one height need two quorums in    *)
(* two views; a cluster that stays in one view implements Ledger, and so    *)
(* does one that changes view once, for whose NEW_VIEW the properties hold  *)
(* that later view changes lose.                                            *)
(***************************************************************************)
EXTENDS FbftQuorumProofs, FbftSlotProofs

\* A proposal that replicas can have logged: a PRE_PREPARE, or one that comes
\* out of the NEW_VIEW of a later view than the first.
Decided(m) ==
    m \in msg_out_pre_prepare \/ (m.v > FirstViewNumber /\ InNewView(m))

\* A submitted block was decided in a view in which a quorum committed it.
BlocksDecided ==
    \A b \in blocks : b.tag # 0 =>
        \E m \in PrePrepare :
            Decided(m) /\ m.b = b /\ m.n = b.n /\ CommitQuorum(m.v, m.n)

\* One view decides one block at a height.
LEMMA DecidedOnce ==
    ASSUME TypeOK, SlotInv, NEW x \in PrePrepare, NEW y \in PrePrepare,
           Decided(x), Decided(y), x.v = y.v, x.n = y.n
    PROVE  x.b = y.b
<1>1. x.n \in Nat /\ y.n \in Nat
  BY DEF PrePrepare
<1>2. ASSUME NEW a \in msg_out_pre_prepare, NEW c, InNewView(c),
             c.v > FirstViewNumber, a.v = c.v, a.n = c.n, c.n \in Nat
      PROVE  FALSE
  BY <1>2 DEF SlotInv, ProposedAboveNewView, InNewView
<1>3. CASE x \in msg_out_pre_prepare /\ y \in msg_out_pre_prepare
  BY <1>3 DEF SlotInv, ProposedOnce
<1>4. CASE InNewView(x) /\ InNewView(y)
  BY <1>4 DEF SlotInv, InNewView, NewViewOnce, NewViewsOfPrimary
<1> QED
  BY <1>1, <1>2, <1>3, <1>4 DEF Decided

LEMMA DecidedKept ==
    ASSUME OutGrows, NEW m, Decided(m)
    PROVE  Decided(m)'
BY DEF OutGrows, Decided, InNewView

LEMMA BlocksDecidedKept ==
    ASSUME TypeOK', OutGrows, BlocksDecided, NEW b \in blocks, b.tag # 0
    PROVE  \E m \in PrePrepare :
             /\ Decided(m)' /\ m.b = b /\ m.n = b.n
             /\ CommitQuorum(m.v, m.n)'
<1>1. PICK m \in PrePrepare :
        Decided(m) /\ m.b = b /\ m.n = b.n /\ CommitQuorum(m.v, m.n)
  BY DEF BlocksDecided
<1>2. Decided(m)' /\ CommitQuorum(m.v, m.n)'
  BY <1>1, DecidedKept, CommitQuorumKept
<1> QED
  BY <1>1, <1>2

LEMMA BlocksDecidedStep ==
    ASSUME TypeOK, TypeOK', ChainInv, SlotInv, CertificatesOld, OneCommit,
           OutGrows, BlocksDecided, NEW r \in Replica, ReplicaStep(r)
    PROVE  BlocksDecided'
<1>1. CASE Execute(r)
  <2>1. PICK m \in msg_log_pre_prepare[r] :
          /\ blocks' = blocks \union {m.b}
          /\ m.n = m.b.n /\ CommitQuorum(m.v, m.n)
    BY <1>1, ExecuteSubmits
  <2>2. m \in PrePrepare /\ Decided(m)
    BY DEF TypeOK, SlotInv, LoggedFromPrimary, Decided
  <2>3. Decided(m)' /\ CommitQuorum(m.v, m.n)'
    BY <2>1, <2>2, DecidedKept, CommitQuorumKept
  <2>4. ASSUME NEW b \in blocks', b.tag # 0
        PROVE  \E k \in PrePrepare :
                 /\ Decided(k)' /\ k.b = b /\ k.n = b.n
                 /\ CommitQuorum(k.v, k.n)'
    <3>1. CASE b \in blocks
      BY <2>4, <3>1, BlocksDecidedKept
    <3>2. CASE b = m.b
      BY <2>1, <2>2, <2>3, <3>2
    <3> QED
      BY <2>1, <3>1, <3>2
  <2> QED
    BY <2>4 DEF BlocksDecided
<1>2. CASE ~Execute(r)
  <2>1. UNCHANGED blocks
    BY <1>2, OnlyExecute
  <2>2. ASSUME NEW b \in blocks', b.tag # 0
        PROVE  \E k \in PrePrepare :
                 /\ Decided(k)' /\ k.b = b /\ k.n = b.n
                 /\ CommitQuorum(k.v, k.n)'
    BY <2>1, <2>2, BlocksDecidedKept
  <2> QED
    BY <2>2 DEF BlocksDecided
<1> QED
  BY <1>1, <1>2

LEMMA BlocksDecidedNext ==
    /\ TypeOK /\ TypeOK' /\ ChainInv /\ QuorumInv /\ SlotInv
    /\ BlocksDecided /\ [Next]_vars
    => BlocksDecided'
<1> SUFFICES ASSUME TypeOK, TypeOK', ChainInv, QuorumInv, SlotInv,
                    BlocksDecided, [Next]_vars
             PROVE  BlocksDecided'
  OBVIOUS
<1>1. CASE UNCHANGED vars
  <2>1. OutGrows /\ UNCHANGED blocks
    BY <1>1 DEF OutGrows, vars, agreementOut, viewOut
  <2>2. ASSUME NEW b \in blocks', b.tag # 0
        PROVE  \E k \in PrePrepare :
                 /\ Decided(k)' /\ k.b = b /\ k.n = b.n
                 /\ CommitQuorum(k.v, k.n)'
    BY <2>1, <2>2, BlocksDecidedKept
  <2> QED
    BY <2>2 DEF BlocksDecided
<1>2. CASE Next
  <2>1. PICK r \in alive : ReplicaStep(r)
    BY <1>2, Zenon DEF Next, ReplicaStep
  <2>2. r \in Replica
    BY DEF TypeOK
  <2> QED
    BY <2>1, <2>2, OutNext, BlocksDecidedStep DEF QuorumInv, OrderInv
<1> QED
  BY <1>1, <1>2

\* Two different blocks submitted at one height were committed by two quorums,
\* in two different views.
ForkNeedsTwoViews ==
    \A a, b \in blocks :
        a # b /\ a.n = b.n /\ a.tag # 0 /\ b.tag # 0 =>
            \E c, e \in msg_out_commit :
                /\ c.v # e.v
                /\ CommitQuorum(c.v, a.n) /\ CommitQuorum(e.v, a.n)

\* Whatever order PRE_PREPAREs, view changes and recoveries come in, replicas
\* that start in the same view fork the chain at a height only if a quorum
\* committed that height in one view and a quorum committed it again in another:
\* within a view EXECUTE never submits two blocks for one height.
THEOREM ForkNeedsTwoViewsHolds == SameStart /\ Spec => []ForkNeedsTwoViews
<1>1. SameStart /\ Init => SlotInv /\ BlocksDecided
  <2> SUFFICES ASSUME SameStart, Init PROVE SlotInv /\ BlocksDecided
    OBVIOUS
  <2>1. \A b \in blocks : b.tag = 0
    BY DEF Init, ChainBlock
  <2> QED
    BY <2>1, SlotInit DEF BlocksDecided
<1>2. SameStart /\ Spec => [](TypeOK /\ SlotInv /\ BlocksDecided)
  BY <1>1, SlotNext, BlocksDecidedNext, ChainInductive, QuorumInductive, PTL
     DEF Spec
<1>3. TypeOK /\ SlotInv /\ BlocksDecided => ForkNeedsTwoViews
  <2> SUFFICES ASSUME TypeOK, SlotInv, BlocksDecided,
                      NEW a \in blocks, NEW b \in blocks,
                      a # b, a.n = b.n, a.tag # 0, b.tag # 0
               PROVE  \E c, e \in msg_out_commit :
                        /\ c.v # e.v
                        /\ CommitQuorum(c.v, a.n) /\ CommitQuorum(e.v, a.n)
    BY DEF ForkNeedsTwoViews
  <2>1. PICK x \in PrePrepare :
          Decided(x) /\ x.b = a /\ x.n = a.n /\ CommitQuorum(x.v, x.n)
    BY DEF BlocksDecided
  <2>2. PICK y \in PrePrepare :
          Decided(y) /\ y.b = b /\ y.n = b.n /\ CommitQuorum(y.v, y.n)
    BY DEF BlocksDecided
  <2>3. x.v # y.v
    BY <2>1, <2>2, DecidedOnce
  <2>4. PICK c \in msg_out_commit : c.v = x.v
    BY <2>1, QuorumInhabited
  <2>5. PICK e \in msg_out_commit : e.v = y.v
    BY <2>2, QuorumInhabited
  <2> QED
    BY <2>1, <2>2, <2>3, <2>4, <2>5
<1> QED
  BY <1>2, <1>3, PTL

-----------------------------------------------------------------------------
(* One view: the specification implements Ledger.                          *)

FirstPrimary == primary(FirstViewNumber)

\* No replica times out of the view that all start in, and no node is ahead of
\* the one of that view's primary.
OneView ==
    /\ SameStart
    /\ MaxView <= FirstViewNumber
    /\ \A r \in Replica : StartHeight[r] <= StartHeight[FirstPrimary]

\* All replicas stay in the view, and its primary has executed the whole chain.
LedgerInv ==
    /\ \A r \in Replica : view[r] = FirstViewNumber
    /\ \A b \in blocks : b.n <= last_exec[FirstPrimary]

LEMMA FirstIsReplica ==
    0 \in Replica /\ FirstViewNumber \in Nat /\ FirstPrimary \in Replica
<1>1. 0 \in Replica
  BY ClusterSizeAssumption DEF Replica
<1>2. FirstViewNumber \in Nat
  BY <1>1, StartViewAssumption DEF FirstViewNumber
<1> QED
  BY <1>1, <1>2, PrimaryIsReplica DEF FirstPrimary

LEMMA LedgerInit == OneView /\ Init => LedgerInv
<1> SUFFICES ASSUME OneView, Init PROVE LedgerInv
  OBVIOUS
<1>1. \A r \in Replica : view[r] = FirstViewNumber
  BY FirstIsReplica DEF OneView, SameStart, FirstViewNumber, Init
<1>2. ASSUME NEW b \in blocks PROVE b.n <= last_exec[FirstPrimary]
  <2>1. PICK r \in Replica : \E n \in 0 .. StartHeight[r] : b = ChainBlock(n)
    BY DEF Init
  <2>2. PICK n \in 0 .. StartHeight[r] : b = ChainBlock(n)
    BY <2>1
  <2>3. b.n = n
    BY <2>2 DEF ChainBlock
  <2>4. /\ StartHeight[r] \in Nat /\ StartHeight[FirstPrimary] \in Nat
        /\ StartHeight[r] <= StartHeight[FirstPrimary]
    BY FirstIsReplica, StartHeightAssumption DEF OneView
  <2> QED
    BY <2>3, <2>4 DEF Init
<1> QED
  BY <1>1, <1>2 DEF LedgerInv

\* The ledger ends where the primary is.
LEMMA HeightOfPrimary ==
    ASSUME TypeOK, StateOnChain, LedgerInv
    PROVE  L!Height = last_exec[FirstPrimary]
<1> DEFINE S == {b.n : b \in blocks}
           h == last_exec[FirstPrimary]
<1>1. h \in Nat /\ \A b \in blocks : b.n \in Nat
  BY FirstIsReplica DEF TypeOK, Block
<1>2. h \in S
  BY FirstIsReplica DEF StateOnChain
<1>3. \A b \in blocks : b.n <= h
  BY DEF LedgerInv
<1>4. ASSUME NEW n \in S, \A b \in blocks : b.n <= n
      PROVE  n = h
  BY <1>1, <1>2, <1>3, <1>4
<1> QED
  BY <1>2, <1>3, <1>4 DEF L!Height

\* The view changes by a timeout and by RECOVER_VIEW only.
LEMMA OnlyViewSteps ==
    ASSUME NEW r \in Replica, ReplicaStep(r), ~SendViewChange(r),
           ~RecoverView(r)
    PROVE  UNCHANGED view
<1>1. CASE \/ GenerateRequests(r)
           \/ SendPrePrepare(r) \/ ReceivePrePrepare(r)
           \/ SendPrepare(r) \/ ReceivePrepare(r)
           \/ SendCommit(r) \/ ReceiveCommit(r)
  BY <1>1 DEF GenerateRequests, SendPrePrepare, ReceivePrePrepare,
       SendPrepare, ReceivePrepare, SendCommit, ReceiveCommit
<1>2. CASE \/ RoastInit(r) \/ RoastReceivePreSignature(r) \/ Execute(r)
           \/ ReceiveBlock(r) \/ ReceiveViewChange(r)
           \/ SendNewView(r) \/ ReceiveNewView(r) \/ ProcessNewView(r)
  BY <1>2 DEF RoastInit, RoastReceivePreSignature, Execute, ReceiveBlock,
       ReceiveViewChange, SendNewView, ReceiveNewView, ProcessNewView
<1> QED
  BY <1>1, <1>2 DEF ReplicaStep

\* RECOVER_VIEW goes to a view that another replica has reached.
LEMMA RecoveredView ==
    ASSUME TypeOK, ChainInv, CommitsInOrder, NEW r \in Replica,
           RecoverView(r)
    PROVE  /\ \A q \in Replica : q # r => view'[q] = view[q]
           /\ view'[r] > view[r]
           /\ \E q \in Replica : view'[r] <= view[q]
<1>1. PICK v \in RecoverableViews(r) : view' = [view EXCEPT ![r] = v]
  BY DEF RecoverView
<1>2. v \in Nat /\ v > view[r] /\ CommitQuorum(v, get_h(r))
  BY RecoverableByQuorum
<1>3. PICK c \in msg_out_commit : c.v = v
  BY <1>2, QuorumInhabited
<1>4. c.v <= view[c.sender] /\ c.sender \in Replica
  BY DEF CommitsInOrder, TypeOK, Commit
<1> QED
  BY <1>1, <1>2, <1>3, <1>4 DEF TypeOK

LEMMA LedgerViewStep ==
    ASSUME OneView, TypeOK, ChainInv, CommitsInOrder, LedgerInv,
           NEW r \in Replica, ReplicaStep(r)
    PROVE  UNCHANGED view
<1>1. CASE SendViewChange(r)
  <2>1. view[r] < MaxView
    BY <1>1 DEF SendViewChange
  <2> QED
    BY <2>1, FirstIsReplica, BoundsAssumption DEF OneView, LedgerInv
<1>2. CASE RecoverView(r)
  <2>1. view'[r] > view[r] /\ \E q \in Replica : view'[r] <= view[q]
    BY <1>2, RecoveredView
  <2>2. view[r] \in Nat /\ \A q \in Replica : view[q] = view[r]
    BY FirstIsReplica DEF TypeOK, LedgerInv
  <2>3. view'[r] \in Nat
    BY <1>2, RecoverableByQuorum DEF RecoverView, TypeOK
  <2> QED
    BY <2>1, <2>2, <2>3
<1> QED
  BY <1>1, <1>2, OnlyViewSteps

\* A step submits no block, or the one after the last of the ledger.
LEMMA LedgerStep ==
    ASSUME OneView, TypeOK, TypeOK', ChainInv, CertificatesOld,
           CommitsInOrder, StepForward, LedgerInv,
           NEW r \in Replica, ReplicaStep(r)
    PROVE  LedgerInv' /\ [L!Next]_blocks
<1> DEFINE h == last_exec[FirstPrimary]
<1>1. \A q \in Replica : view'[q] = FirstViewNumber
  BY LedgerViewStep DEF LedgerInv
<1>2. /\ h \in Nat /\ h' \in Nat /\ h' >= h
      /\ \A b \in blocks : b.n \in Nat /\ b.n <= h
  BY FirstIsReplica DEF TypeOK, Block, StepForward, LedgerInv
<1>3. CASE ~Execute(r)
  <2>1. UNCHANGED blocks
    BY <1>3, OnlyExecute
  <2>2. \A b \in blocks' : b.n <= h'
    BY <1>2, <2>1
  <2> QED
    BY <1>1, <2>1, <2>2 DEF LedgerInv
<1>4. CASE Execute(r)
  <2>1. PICK m \in msg_log_pre_prepare[r] :
          /\ blocks' = blocks \union {m.b}
          /\ primary(view[r]) = r
          /\ m.b.n = last_exec[r] + 1 /\ m.b.t = m.b.n
          /\ last_exec'[r] = last_exec[r] + 1
    BY <1>4, ExecuteSubmits
  <2>2. r = FirstPrimary
    BY <2>1 DEF LedgerInv, FirstPrimary
  <2>3. m.b.n = h + 1 /\ h' = h + 1
    BY <2>1, <2>2
  <2>4. \A b \in blocks' : b.n <= h'
    BY <1>2, <2>1, <2>3
  <2>5. L!Height = h
    BY HeightOfPrimary DEF ChainInv
  <2>6. L!SubmitBlock(m.b)
    BY <2>1, <2>3, <2>5 DEF L!SubmitBlock
  <2>7. m.b \in blocks' \ blocks
    BY <1>2, <2>1, <2>3
  <2> QED
    BY <1>1, <2>4, <2>6, <2>7 DEF LedgerInv, L!Next
<1> QED
  BY <1>3, <1>4

LEMMA LedgerNext ==
    ASSUME OneView, TypeOK, TypeOK', ChainInv, OrderInv, LedgerInv,
           [Next]_vars
    PROVE  LedgerInv' /\ [L!Next]_blocks
<1>1. CASE UNCHANGED vars
  BY <1>1 DEF LedgerInv, vars, executed
<1>2. CASE Next
  <2>1. PICK r \in alive : ReplicaStep(r)
    BY <1>2, Zenon DEF Next, ReplicaStep
  <2>2. r \in Replica /\ StepForward
    BY ForwardNext DEF TypeOK
  <2> QED
    BY <2>1, <2>2, LedgerStep DEF OrderInv
<1> QED
  BY <1>1, <1>2

LEMMA LedgerRestart ==
    ASSUME TypeOK, TypeOK', ChainInv, LedgerInv, NEW r \in Replica, Restart(r)
    PROVE  LedgerInv' /\ UNCHANGED blocks
<1>1. /\ UNCHANGED blocks
      /\ view' = [view EXCEPT ![r] = view[r]]
  BY DEF Restart, restored_view
<1>2. \A q \in Replica : view'[q] = FirstViewNumber
  BY <1>1 DEF LedgerInv, TypeOK
<1>3. StepForward
  BY ForwardRestart
<1>4. /\ last_exec[FirstPrimary] \in Nat /\ last_exec'[FirstPrimary] \in Nat
      /\ last_exec'[FirstPrimary] >= last_exec[FirstPrimary]
      /\ \A b \in blocks : b.n \in Nat /\ b.n <= last_exec[FirstPrimary]
  BY <1>3, FirstIsReplica DEF TypeOK, Block, StepForward, LedgerInv
<1>5. \A b \in blocks' : b.n <= last_exec'[FirstPrimary]
  BY <1>1, <1>4
<1> QED
  BY <1>1, <1>2, <1>5 DEF LedgerInv

LEMMA LedgerRestartNext ==
    ASSUME OneView, TypeOK, ChainInv, OrderInv, LedgerInv,
           [RestartNext]_restartVars
    PROVE  LedgerInv' /\ [L!Next]_blocks
<1>1. TypeOK'
  BY ChainRestartNext
<1>2. CASE [Next]_vars
  BY <1>1, <1>2, LedgerNext
<1>3. CASE \E r \in Running : Restart(r)
  BY <1>1, <1>3, RunningAssumption, LedgerRestart
<1>4. CASE \E r \in alive : StopInSetView(r)
  <2>1. UNCHANGED <<view, last_exec, blocks>>
    BY <1>4, StopOnlyLeaves DEF executed
  <2> QED
    BY <2>1 DEF LedgerInv
<1> QED
  BY <1>2, <1>3, <1>4 DEF RestartNext, restartVars

\* While the cluster stays in its first view, what all replicas together submit
\* is the abstract ledger, whatever is lost, repeated or reordered and whichever
\* processes restart or stop inside set_view: only the primary submits, always
\* at the next height and for the next period, and it never comes back behind
\* its own last block.  COMMITs that are counted twice do not matter to this.
THEOREM LedgerInOneView == OneView /\ (Spec \/ RestartSpec) => LedgerSpec
<1> SUFFICES ASSUME OneView PROVE Spec \/ RestartSpec => LedgerSpec
  OBVIOUS
<1>1. Init => LedgerInv /\ L!Init
  BY LedgerInit DEF Init, L!Init, InitialChain
<1>2. TypeOK /\ TypeOK' /\ ChainInv /\ OrderInv /\ LedgerInv /\ [Next]_vars
        => LedgerInv' /\ [L!Next]_blocks
  BY LedgerNext
<1>3. /\ TypeOK /\ ChainInv /\ OrderInv /\ LedgerInv
      /\ [RestartNext]_restartVars
      => LedgerInv' /\ [L!Next]_blocks
  BY LedgerRestartNext
<1>4. Spec => LedgerSpec
  BY <1>1, <1>2, ChainInductive, OrderInductive, PTL
     DEF Spec, LedgerSpec, L!Spec
<1>5. RestartSpec => LedgerSpec
  BY <1>1, <1>3, ChainInductive, OrderInductive, PTL
     DEF RestartSpec, RestartInit, LedgerSpec, L!Spec
<1> QED
  BY <1>4, <1>5

-----------------------------------------------------------------------------
(* The first view change: replicas that start together time out once.      *)

\* All nodes have the same chain at the start.
SameHeight == \A r, s \in Replica : StartHeight[r] = StartHeight[s]

FirstHeight == StartHeight[0]

FirstChange == SameStart /\ SameHeight /\ OneViewChange

\* No replica is beyond the second view.
ViewsOfChange == \A r \in Replica : view[r] <= FirstViewNumber + 1

\* Only replicas that run send.
SentByRunning ==
    /\ alive \subseteq Running
    /\ \A c \in msg_out_commit : c.sender \in Running
    /\ \A m \in msg_out_view_change : m.sender \in Running

\* In the first view a replica logs proposals for the next height only.
FirstViewLogs ==
    \A r \in Replica : view[r] = FirstViewNumber =>
        /\ view_change_Qi[r] = {}
        /\ \A m \in msg_log_pre_prepare[r] : m.n = get_h(r) + 1

\* One VIEW_CHANGE per replica, at a height of the chain that the sender does
\* not come back behind.
ChangesOnce ==
    /\ \A m \in msg_out_view_change :
         /\ m.v = FirstViewNumber + 1
         /\ m.h >= FirstHeight /\ m.h <= get_h(m.sender)
         /\ \E b \in blocks : b.n = m.h
    /\ \A m, k \in msg_out_view_change : k.sender = m.sender => k = m

\* What a VIEW_CHANGE carries: Q was proposed in the first view, P is for the
\* next height and has its block in Q.
CarriedQ(q) ==
    /\ q.v = FirstViewNumber
    /\ \E z \in msg_out_pre_prepare :
         z.v = FirstViewNumber /\ z.n = q.n /\ z.b = q.b

CarriedP(p, m) ==
    /\ p.v = FirstViewNumber /\ p.d = p.n /\ p.n = m.h + 1
    /\ \E q \in m.Q : q.n = p.n /\ q.d = p.d /\ q.v = p.v

ChangesCarry ==
    \A m \in msg_out_view_change :
        /\ \A q \in m.Q : CarriedQ(q)
        /\ \A p \in m.P : CarriedP(p, m)

\* After its VIEW_CHANGE a replica commits only above the height it reported.
CommitsAfterChange ==
    \A m \in msg_out_view_change, c \in msg_out_commit :
        c.sender = m.sender /\ c.v >= m.v => c.n > m.h

NewViewsJustified ==
    \A nv \in msg_out_new_view :
        nv.Nu \subseteq msg_out_view_change /\ correct_chi(nv.Chi, nv.Nu)

\* A proposal in the second view follows a NEW_VIEW.
ProposalsOpened ==
    \A m \in msg_out_pre_prepare :
        /\ m.b.v = m.v /\ m.b.tag # 0
        /\ m.v >= FirstViewNumber
        /\ m.v > FirstViewNumber => \E nv \in msg_out_new_view : nv.v = m.v

\* The replicas are on the chain they started with, which carries tag 0, or
\* above it.
AboveStart ==
    /\ \A r \in Replica : get_h(r) >= FirstHeight
    /\ \A b \in blocks : b.n > FirstHeight => b.tag # 0

ChangeInv ==
    /\ ViewsOfChange
    /\ SentByRunning
    /\ FirstViewLogs
    /\ ChangesOnce
    /\ ChangesCarry
    /\ CommitsAfterChange
    /\ NewViewsJustified
    /\ ProposalsOpened
    /\ AboveStart

-----------------------------------------------------------------------------
(* Numbers.                                                                *)

\* A non-empty finite set of numbers has a greatest element.
LEMMA MaxIsGreatest ==
    ASSUME NEW S \in SUBSET Nat, S # {}, IsFiniteSet(S)
    PROVE  Max(S) \in S /\ \A y \in S : y <= Max(S)
<1> DEFINE up(x) == {y \in S : y > x}
           T == {up(x) : x \in S}
           R == StrictSubsetOrdering(S)
<1>1. IsWellFoundedOn(R, FiniteSubsetsOf(S))
  BY FS_StrictSubsetOrderingWellFounded
<1>2. T \subseteq FiniteSubsetsOf(S)
  BY FS_Subset DEF FiniteSubsetsOf
<1>3. T # {}
  OBVIOUS
<1>4. PICK A \in T : \A B \in T : ~(<<B, A>> \in R)
  <2> HIDE DEF T, R
  <2> QED
    BY <1>1, <1>2, <1>3, WFMin
<1>5. PICK x \in S : A = up(x)
  OBVIOUS
<1>6. ASSUME NEW y \in S, y > x
      PROVE  FALSE
  <2>1. up(y) \in T
    OBVIOUS
  <2>2. x \in Nat /\ y \in Nat
    OBVIOUS
  <2>3. \A z \in S : z > y => z > x
    BY <1>6, <2>2
  <2>4. y \in up(x) /\ y \notin up(y)
    BY <1>6, <2>2
  <2>5. <<up(y), A>> \in R
    BY <1>5, <2>3, <2>4 DEF StrictSubsetOrdering
  <2> QED
    BY <1>4, <2>1, <2>5
<1>7. x \in S /\ \A y \in S : x >= y
  BY <1>6
<1>8. Max(S) \in S /\ \A y \in S : Max(S) >= y
  BY <1>7 DEF Max
<1> QED
  BY <1>8

\* Three quorums of a cluster of 3F + 1 have a replica in common.
LEMMA ThreeQuorums ==
    ASSUME ClusterSize = 3 * F + 1,
           NEW A \in SUBSET Replica, NEW B \in SUBSET Replica,
           NEW D \in SUBSET Replica,
           Cardinality(A) >= quorum, Cardinality(B) >= quorum,
           Cardinality(D) >= quorum
    PROVE  \E q \in Replica : q \in A /\ q \in B /\ q \in D
<1>1. /\ IsFiniteSet(A) /\ IsFiniteSet(B) /\ IsFiniteSet(D)
      /\ IsFiniteSet(A \cup B) /\ IsFiniteSet(A \cap B)
      /\ Cardinality(A \cup B) <= ClusterSize
  BY ReplicasFinite, FS_Subset
<1>2. /\ Cardinality(A) \in Nat /\ Cardinality(B) \in Nat
      /\ Cardinality(D) \in Nat /\ Cardinality(A \cup B) \in Nat
      /\ Cardinality(A \cap B) \in Nat
  BY <1>1, FS_CardinalityType
<1>3. Cardinality(A \cup B)
        = Cardinality(A) + Cardinality(B) - Cardinality(A \cap B)
  BY <1>1, FS_Union
<1>4. F \in Nat /\ ClusterSize \in Nat
  BY QuorumPositive, ClusterSizeAssumption
<1>5. Cardinality(A \cap B) + Cardinality(D) > ClusterSize
  BY <1>1, <1>2, <1>3, <1>4 DEF quorum
<1>6. (A \cap B) \cap D # {}
  <2>1. A \cap B \subseteq Replica
    OBVIOUS
  <2> QED
    BY <1>5, <2>1, ReplicasFinite, FS_MajoritiesIntersect
<1> QED
  BY <1>6

\* The replicas of a quorum of COMMITs.
LEMMA SendersOfQuorum ==
    ASSUME TypeOK, NEW v, NEW n, CommitQuorum(v, n)
    PROVE  /\ Committers(v, n) \in SUBSET Replica
           /\ Cardinality(Committers(v, n)) >= quorum
           /\ \A q \in Committers(v, n) :
                \E c \in msg_out_commit : c.sender = q /\ c.v = v /\ c.n = n
<1>1. Committers(v, n) \in SUBSET Replica
  BY CommittersFinite
<1>2. \A q \in Committers(v, n) :
        \E c \in msg_out_commit : c.sender = q /\ c.v = v /\ c.n = n
  BY DEF Committers
<1> QED
  BY <1>1, <1>2 DEF CommitQuorum

-----------------------------------------------------------------------------
(* What the steps do to what the invariant reads.                          *)

LEMMA FirstStart ==
    ASSUME FirstChange
    PROVE  /\ FirstViewNumber \in Nat /\ FirstHeight \in Nat
           /\ MaxView \in Nat /\ MaxView <= FirstViewNumber + 1
           /\ \A r \in Replica : /\ StartView[r] = FirstViewNumber
                                 /\ StartHeight[r] = FirstHeight
<1>1. 0 \in Replica
  BY FirstIsReplica
<1> QED
  BY <1>1, StartViewAssumption, StartHeightAssumption, BoundsAssumption
     DEF FirstChange, SameStart, SameHeight, OneViewChange, FirstViewNumber,
         FirstHeight

LEMMA OnlySendPrePrepare ==
    ASSUME NEW r \in Replica, ReplicaStep(r), ~SendPrePrepare(r)
    PROVE  UNCHANGED msg_out_pre_prepare
<1>1. CASE \/ GenerateRequests(r) \/ ReceivePrePrepare(r)
           \/ SendPrepare(r) \/ ReceivePrepare(r)
           \/ SendCommit(r) \/ ReceiveCommit(r)
           \/ RoastInit(r) \/ RoastReceivePreSignature(r)
  BY <1>1 DEF GenerateRequests, ReceivePrePrepare, SendPrepare,
       ReceivePrepare, SendCommit, ReceiveCommit, RoastInit,
       RoastReceivePreSignature, agreementOut
<1>2. CASE \/ Execute(r) \/ ReceiveBlock(r) \/ RecoverView(r)
           \/ SendViewChange(r) \/ ReceiveViewChange(r)
           \/ SendNewView(r) \/ ReceiveNewView(r) \/ ProcessNewView(r)
  BY <1>2 DEF Execute, ReceiveBlock, RecoverView, SendViewChange,
       ReceiveViewChange, SendNewView, ReceiveNewView, ProcessNewView,
       agreementOut
<1> QED
  BY <1>1, <1>2 DEF ReplicaStep

LEMMA OnlySendNewView ==
    ASSUME NEW r \in Replica, ReplicaStep(r), ~SendNewView(r)
    PROVE  UNCHANGED msg_out_new_view
<1>1. CASE \/ GenerateRequests(r)
           \/ SendPrePrepare(r) \/ ReceivePrePrepare(r)
           \/ SendPrepare(r) \/ ReceivePrepare(r)
           \/ SendCommit(r) \/ ReceiveCommit(r)
           \/ RoastInit(r) \/ RoastReceivePreSignature(r)
  BY <1>1 DEF GenerateRequests, SendPrePrepare, ReceivePrePrepare,
       SendPrepare, ReceivePrepare, SendCommit, ReceiveCommit, RoastInit,
       RoastReceivePreSignature, viewOut
<1>2. CASE \/ Execute(r) \/ ReceiveBlock(r) \/ RecoverView(r)
           \/ SendViewChange(r) \/ ReceiveViewChange(r)
           \/ ReceiveNewView(r) \/ ProcessNewView(r)
  BY <1>2 DEF Execute, ReceiveBlock, RecoverView, SendViewChange,
       ReceiveViewChange, ReceiveNewView, ProcessNewView, viewOut
<1> QED
  BY <1>1, <1>2 DEF ReplicaStep

\* No process comes up again without a restart.
LEMMA OnlyLosesAlive ==
    ASSUME NEW r \in Replica, ReplicaStep(r)
    PROVE  alive' \subseteq alive
<1>1. CASE \/ GenerateRequests(r)
           \/ SendPrePrepare(r) \/ ReceivePrePrepare(r)
           \/ SendPrepare(r) \/ ReceivePrepare(r)
           \/ SendCommit(r) \/ ReceiveCommit(r)
           \/ RoastInit(r) \/ RoastReceivePreSignature(r)
  BY <1>1 DEF GenerateRequests, SendPrePrepare, ReceivePrePrepare,
       SendPrepare, ReceivePrepare, SendCommit, ReceiveCommit, RoastInit,
       RoastReceivePreSignature
<1>2. CASE \/ Execute(r) \/ ReceiveBlock(r) \/ RecoverView(r)
           \/ SendViewChange(r) \/ ReceiveViewChange(r)
           \/ SendNewView(r) \/ ReceiveNewView(r) \/ ProcessNewView(r)
  BY <1>2 DEF Execute, ReceiveBlock, RecoverView, SendViewChange,
       ReceiveViewChange, SendNewView, ReceiveNewView, ProcessNewView
<1> QED
  BY <1>1, <1>2 DEF ReplicaStep

\* The VIEW_CHANGE of a timeout reports what the logs hold at that moment.
LEMMA ViewChangeOf ==
    ASSUME TypeOK, NEW r \in Replica, SendViewChange(r)
    PROVE  /\ \E m \in ViewChange :
                /\ msg_out_view_change' = msg_out_view_change \union {m}
                /\ m.sender = r /\ m.v = view[r] + 1 /\ m.h = get_h(r)
                /\ m.P = update_view_change_Pi(r)
                /\ m.Q = update_view_change_Qi(r)
           /\ view[r] < MaxView
           /\ view' = [view EXCEPT ![r] = view[r] + 1]
           /\ UNCHANGED <<checkpoint, msg_out_commit, msg_out_new_view,
                          msg_out_pre_prepare, blocks>>
<1>1. PICK c \in checkpoint[r] :
        /\ msg_out_view_change' = msg_out_view_change \union
             {[v |-> view[r] + 1, h |-> get_h(r), c |-> c.val,
               P |-> update_view_change_Pi(r),
               Q |-> update_view_change_Qi(r), sender |-> r]}
        /\ view[r] < MaxView
        /\ view' = [view EXCEPT ![r] = view[r] + 1]
        /\ UNCHANGED <<checkpoint, msg_out_commit, msg_out_new_view,
                       msg_out_pre_prepare, blocks>>
  BY DEF SendViewChange, agreementOut
<1>2. PICK m : m = [v |-> view[r] + 1, h |-> get_h(r), c |-> c.val,
                    P |-> update_view_change_Pi(r),
                    Q |-> update_view_change_Qi(r), sender |-> r]
  OBVIOUS
<1>3. /\ m.sender = r /\ m.v = view[r] + 1 /\ m.h = get_h(r)
      /\ m.P = update_view_change_Pi(r) /\ m.Q = update_view_change_Qi(r)
  BY <1>2
<1>4. msg_out_view_change' = msg_out_view_change \union {m}
  BY <1>1, <1>2
<1>5. m \in ViewChange
  <2>1. /\ view[r] + 1 \in Nat /\ get_h(r) \in Nat /\ c.val \in Block
        /\ update_view_change_Pi(r) \in SUBSET PiEntry
        /\ update_view_change_Qi(r) \in SUBSET QiEntry
    BY LowWatermark, CertificateTypes DEF TypeOK, Checkpoint
  <2> QED
    BY <1>2, <2>1 DEF ViewChange
<1> QED
  BY <1>1, <1>3, <1>4, <1>5

-----------------------------------------------------------------------------
(* One lemma per conjunct of the invariant.                                *)

LEMMA ViewsStep ==
    ASSUME FirstChange, TypeOK, TypeOK', ChainInv, CommitsInOrder,
           ViewsOfChange, NEW r \in Replica, ReplicaStep(r)
    PROVE  ViewsOfChange'
<1>1. CASE SendViewChange(r)
  <2>1. view[r] < MaxView /\ view' = [view EXCEPT ![r] = view[r] + 1]
    BY <1>1, ViewChangeOf
  <2> QED
    BY <2>1, FirstStart DEF TypeOK, ViewsOfChange
<1>2. CASE RecoverView(r)
  <2>1. /\ \A q \in Replica : q # r => view'[q] = view[q]
        /\ \E q \in Replica : view'[r] <= view[q]
    BY <1>2, RecoveredView
  <2>2. \A q \in Replica : view[q] \in Nat /\ view'[q] \in Nat
    BY DEF TypeOK
  <2> QED
    BY <2>1, <2>2, FirstStart DEF ViewsOfChange
<1>3. CASE UNCHANGED view
  BY <1>3 DEF ViewsOfChange
<1> QED
  BY <1>1, <1>2, <1>3, OnlyViewSteps

LEMMA RunningStep ==
    ASSUME TypeOK, QuorumInv, SentByRunning,
           NEW r \in alive, ReplicaStep(r)
    PROVE  SentByRunning'
<1>1. r \in Replica /\ r \in Running
  BY DEF TypeOK, SentByRunning
<1>2. alive' \subseteq Running
  BY <1>1, OnlyLosesAlive DEF SentByRunning
<1>3. \A c \in msg_out_commit' : c.sender \in Running
  <2>1. CASE SendCommit(r)
    BY <1>1, <2>1, CommitSent DEF SentByRunning, QuorumInv, OrderInv
  <2>2. CASE ~SendCommit(r)
    BY <1>1, <2>2, OnlySendCommit DEF SentByRunning
  <2> QED
    BY <2>1, <2>2
<1>4. \A m \in msg_out_view_change' : m.sender \in Running
  <2>1. CASE SendViewChange(r)
    BY <1>1, <2>1, ViewChangeOf DEF SentByRunning
  <2>2. CASE ~SendViewChange(r)
    BY <1>1, <2>2, OnlySendViewChange DEF SentByRunning
  <2> QED
    BY <2>1, <2>2
<1> QED
  BY <1>2, <1>3, <1>4 DEF SentByRunning

\* A replica that stays in the first view has been in it.
LEMMA InFirstView ==
    ASSUME FirstChange, TypeOK, TypeOK', ViewsReached, StepForward,
           NEW q \in Replica, view'[q] = FirstViewNumber
    PROVE  view[q] = FirstViewNumber /\ active_view[q]
<1>1. view[q] = FirstViewNumber
  <2>1. view[q] \in Nat /\ FirstViewNumber \in Nat
    BY FirstStart DEF TypeOK
  <2>2. view[q] >= FirstViewNumber /\ view'[q] >= view[q]
    BY DEF ViewsReached, StepForward
  <2> QED
    BY <2>1, <2>2
<1>2. ~active_view[q] => view[q] > FirstViewNumber
  BY DEF ViewsReached
<1>3. ~(view[q] > FirstViewNumber)
  BY <1>1, FirstStart
<1> QED
  BY <1>1, <1>2, <1>3

LEMMA FirstLogsFrame ==
    ASSUME FirstChange, TypeOK, TypeOK', ViewsReached, StepForward,
           FirstViewLogs,
           \A q \in Replica :
             \/ view'[q] # FirstViewNumber
             \/ /\ view_change_Qi'[q] \subseteq view_change_Qi[q]
                /\ \/ msg_log_pre_prepare'[q] = {}
                   \/ /\ get_h(q)' = get_h(q)
                      /\ \A m \in msg_log_pre_prepare'[q] :
                           \/ m \in msg_log_pre_prepare[q]
                           \/ m.n = get_h(q) + 1
    PROVE  FirstViewLogs'
<1> SUFFICES ASSUME NEW q \in Replica, view'[q] = FirstViewNumber
             PROVE  /\ view_change_Qi'[q] = {}
                    /\ \A m \in msg_log_pre_prepare'[q] :
                         m.n = get_h(q)' + 1
  BY DEF FirstViewLogs
<1>1. view[q] = FirstViewNumber
  BY InFirstView
<1>2. view_change_Qi[q] = {}
      /\ \A m \in msg_log_pre_prepare[q] : m.n = get_h(q) + 1
  BY <1>1 DEF FirstViewLogs
<1> QED
  BY <1>2

LEMMA FirstLogsStep ==
    ASSUME FirstChange, TypeOK, TypeOK', ChainInv, CommitsInOrder,
           ViewsReached, StepForward, FirstViewLogs,
           NEW r \in Replica, ReplicaStep(r)
    PROVE  FirstViewLogs'
<1>1. CASE \/ GenerateRequests(r)
           \/ SendPrepare(r) \/ ReceivePrepare(r)
           \/ SendCommit(r) \/ ReceiveCommit(r)
           \/ RoastInit(r) \/ RoastReceivePreSignature(r) \/ Execute(r)
           \/ ReceiveViewChange(r) \/ SendNewView(r) \/ ReceiveNewView(r)
  <2>1. UNCHANGED <<checkpoint, msg_log_pre_prepare, view_change_Qi>>
    BY <1>1 DEF GenerateRequests, SendPrepare, ReceivePrepare, SendCommit,
         ReceiveCommit, RoastInit, RoastReceivePreSignature, Execute,
         ReceiveViewChange, SendNewView, ReceiveNewView, agreementLogs,
         certificates
  <2> QED
    BY <2>1, WatermarkKept, FirstLogsFrame
<1>2. CASE SendPrePrepare(r)
  <2>1. UNCHANGED <<checkpoint, view_change_Qi>>
    BY <1>2 DEF SendPrePrepare, certificates
  <2>2. PICK d \in msg_log_request[r], tag \in Tags :
          /\ pre_SEND_PRE_PREPARE(d, view[r], seqno[r] + 1, r)
          /\ msg_log_pre_prepare' =
               [msg_log_pre_prepare EXCEPT ![r] = @ \union
                  {[v |-> view[r], n |-> seqno[r] + 1, d |-> d,
                    b |-> [n |-> seqno[r] + 1, t |-> d, v |-> view[r],
                           tag |-> tag], sender |-> r]}]
    BY <1>2 DEF SendPrePrepare
  <2>3. seqno[r] + 1 = get_h(r) + 1
    BY <2>2, InWindow DEF pre_SEND_PRE_PREPARE, in_wv, TypeOK
  <2>4. ASSUME NEW q \in Replica, NEW m \in msg_log_pre_prepare'[q]
        PROVE  m \in msg_log_pre_prepare[q] \/ m.n = get_h(q) + 1
    BY <2>2, <2>3, <2>4 DEF TypeOK
  <2> QED
    BY <2>1, <2>4, WatermarkKept, FirstLogsFrame
<1>3. CASE ReceivePrePrepare(r)
  <2>1. UNCHANGED <<checkpoint, view_change_Qi>>
    BY <1>3 DEF ReceivePrePrepare, certificates
  <2>2. PICK m \in msg_out_pre_prepare :
          /\ pre_RECEIVE_PRE_PREPARE(m, r)
          /\ msg_log_pre_prepare' =
               [msg_log_pre_prepare EXCEPT ![r] = @ \union {m}]
    BY <1>3 DEF ReceivePrePrepare
  <2>3. m.n = get_h(r) + 1
    BY <2>2, InWindow DEF pre_RECEIVE_PRE_PREPARE, in_wv, TypeOK, PrePrepare
  <2>4. ASSUME NEW q \in Replica, NEW k \in msg_log_pre_prepare'[q]
        PROVE  k \in msg_log_pre_prepare[q] \/ k.n = get_h(q) + 1
    BY <2>2, <2>3, <2>4 DEF TypeOK
  <2> QED
    BY <2>1, <2>4, WatermarkKept, FirstLogsFrame
<1>4. CASE ReceiveBlock(r)
  <2>1. PICK b \in blocks : RECEIVE_BLOCK(b, r)
    BY <1>4 DEF ReceiveBlock
  <2>2. /\ b.n > get_h(r) /\ b.n \in Nat
        /\ \A s \in Replica : s # r => get_h(s)' = get_h(s)
    BY <2>1, AfterBlock DEF Block
  <2>3. /\ msg_log_pre_prepare' = Above(msg_log_pre_prepare, r, b.n)
        /\ view_change_Qi' =
             [view_change_Qi EXCEPT ![r] = {e \in @ : e.n # b.n}]
    BY <2>1 DEF RECEIVE_BLOCK, collect_garbage
  <2>4. ASSUME NEW q \in Replica
        PROVE  /\ view_change_Qi'[q] \subseteq view_change_Qi[q]
               /\ msg_log_pre_prepare'[q] \subseteq msg_log_pre_prepare[q]
    BY <2>3 DEF TypeOK, Above
  <2>5. ASSUME view'[r] = FirstViewNumber
        PROVE  msg_log_pre_prepare'[r] = {}
    <3>1. \A m \in msg_log_pre_prepare[r] : m.n = get_h(r) + 1
      BY <2>5, InFirstView DEF FirstViewLogs
    <3>2. msg_log_pre_prepare'[r] = {m \in msg_log_pre_prepare[r] : m.n > b.n}
      BY <2>3 DEF TypeOK, Above
    <3> QED
      BY <2>2, <3>1, <3>2, LowWatermark
  <2> QED
    BY <2>2, <2>4, <2>5, FirstLogsFrame
<1>5. CASE SendViewChange(r)
  <2>1. view' = [view EXCEPT ![r] = view[r] + 1] /\ UNCHANGED checkpoint
    BY <1>5, ViewChangeOf
  <2>2. view'[r] # FirstViewNumber
    BY <2>1, FirstStart DEF TypeOK, ViewsReached
  <2>3. ASSUME NEW q \in Replica, q # r
        PROVE  /\ view_change_Qi'[q] = view_change_Qi[q]
               /\ msg_log_pre_prepare'[q] = msg_log_pre_prepare[q]
    BY <1>5, <2>3 DEF SendViewChange, msg_log_clear_where_view_less_than,
         FromView, TypeOK
  <2> QED
    BY <2>1, <2>2, <2>3, WatermarkKept, FirstLogsFrame
<1>6. CASE RecoverView(r)
  <2>1. view'[r] > view[r]
    BY <1>6, RecoveredView
  <2>2. view'[r] # FirstViewNumber
    BY <2>1, FirstStart DEF TypeOK, ViewsReached
  <2>3. ASSUME NEW q \in Replica, q # r
        PROVE  /\ view_change_Qi'[q] = view_change_Qi[q]
               /\ msg_log_pre_prepare'[q] = msg_log_pre_prepare[q]
    BY <1>6, <2>3 DEF RecoverView, msg_log_clear_where_view_less_than,
         FromView, TypeOK, certificates
  <2>4. UNCHANGED checkpoint
    BY <1>6 DEF RecoverView
  <2> QED
    BY <2>2, <2>3, <2>4, WatermarkKept, FirstLogsFrame
<1>7. CASE ProcessNewView(r)
  <2>1. ~active_view[r] /\ UNCHANGED <<checkpoint, view_change_Qi>>
    BY <1>7 DEF ProcessNewView, pre_PROCESS_NEW_VIEW, certificates
  <2>2. view'[r] # FirstViewNumber
    BY <2>1, InFirstView
  <2>3. ASSUME NEW q \in Replica, q # r
        PROVE  msg_log_pre_prepare'[q] = msg_log_pre_prepare[q]
    BY <1>7, <2>3 DEF ProcessNewView, TypeOK
  <2> QED
    BY <2>1, <2>2, <2>3, WatermarkKept, FirstLogsFrame
<1> QED
  BY <1>1, <1>2, <1>3, <1>4, <1>5, <1>6, <1>7 DEF ReplicaStep

\* The chain reaches down without a gap: below a block there is a block at
\* every height.
LEMMA NoGap ==
    ASSUME TypeOK, ChainOnSchedule, NEW b \in blocks, NEW n \in Nat,
           n <= b.n
    PROVE  \E a \in blocks : a.n = n
<1> DEFINE S == {k \in Nat : k >= n /\ \E a \in blocks : a.n = k}
<1>1. b.n \in S
  BY DEF TypeOK, Block
<1>2. S \in SUBSET Nat /\ S # {}
  BY <1>1
<1>3. PICK k \in S : \A y \in S : k <= y
  <2> HIDE DEF S
  <2> QED
    BY <1>2, MinIsLeast
<1>4. PICK a \in blocks : a.n = k
  BY <1>3
<1>5. CASE k = n
  BY <1>4, <1>5
<1>6. CASE k > n
  <2>1. PICK z \in blocks : z.n = k - 1
    BY <1>3, <1>4, <1>6 DEF ChainOnSchedule
  <2>2. k - 1 \in S
    BY <1>3, <1>6, <2>1
  <2> QED
    BY <1>3, <2>2
<1> QED
  BY <1>3, <1>5, <1>6

\* There is a block at every replica's checkpoint.
LEMMA CheckpointOnChain ==
    ASSUME TypeOK, ChainInv, NEW r \in Replica
    PROVE  \E b \in blocks : b.n = get_h(r)
<1>1. /\ val[r] \in blocks /\ val[r].n = last_exec[r]
      /\ get_h(r) \in Nat /\ get_h(r) <= last_exec[r]
  BY LowWatermark, LastOnSchedule DEF ChainInv, StateOnChain, TypeOK
<1> QED
  BY <1>1, NoGap DEF ChainInv

\* A timeout is one of the first view.
LEMMA LeavesFirst ==
    ASSUME FirstChange, TypeOK, ViewsReached, NEW r \in Replica,
           view[r] < MaxView
    PROVE  view[r] = FirstViewNumber
BY FirstStart DEF TypeOK, ViewsReached

LEMMA ChangesOnceStep ==
    ASSUME FirstChange, TypeOK, TypeOK', ChainInv, SentInViews, ViewsReached,
           StepForward, AboveStart, ChangesOnce,
           NEW r \in Replica, ReplicaStep(r)
    PROVE  ChangesOnce'
<1>1. blocks \subseteq blocks'
  <2>1. CASE Execute(r)
    BY <2>1 DEF Execute
  <2>2. CASE ~Execute(r)
    BY <2>2, OnlyExecute
  <2> QED
    BY <2>1, <2>2
<1>2. ASSUME NEW m \in msg_out_view_change
      PROVE  /\ m.v = FirstViewNumber + 1
             /\ m.h >= FirstHeight /\ m.h <= get_h(m.sender)'
             /\ \E b \in blocks' : b.n = m.h
  <2>1. /\ m.v = FirstViewNumber + 1
        /\ m.h >= FirstHeight /\ m.h <= get_h(m.sender)
        /\ \E b \in blocks : b.n = m.h
    BY DEF ChangesOnce
  <2>2. /\ m.sender \in Replica /\ m.h \in Nat
        /\ get_h(m.sender) \in Nat /\ get_h(m.sender)' \in Nat
        /\ get_h(m.sender)' >= get_h(m.sender)
    BY LowWatermark, LowWatermarkAfter DEF TypeOK, ViewChange, StepForward
  <2> QED
    BY <1>1, <2>1, <2>2
<1>3. CASE ~SendViewChange(r)
  <2>1. UNCHANGED msg_out_view_change
    BY <1>3, OnlySendViewChange
  <2> QED
    BY <1>2, <2>1 DEF ChangesOnce
<1>4. CASE SendViewChange(r)
  <2>1. PICK m \in ViewChange :
          /\ msg_out_view_change' = msg_out_view_change \union {m}
          /\ m.sender = r /\ m.v = view[r] + 1 /\ m.h = get_h(r)
    BY <1>4, ViewChangeOf
  <2>2. view[r] < MaxView /\ UNCHANGED checkpoint
    BY <1>4, ViewChangeOf
  <2>3. view[r] = FirstViewNumber
    BY <2>2, LeavesFirst
  <2>4. /\ m.h >= FirstHeight /\ m.h <= get_h(m.sender)'
        /\ \E b \in blocks' : b.n = m.h
    BY <1>1, <2>1, <2>2, WatermarkKept, LowWatermark, CheckpointOnChain
       DEF AboveStart
  <2>5. ASSUME NEW k \in msg_out_view_change, k.sender = r
        PROVE  FALSE
    <3>1. k.v = FirstViewNumber + 1 /\ k.v <= view[r]
      BY <2>5 DEF ChangesOnce, SentInViews
    <3> QED
      BY <2>3, <3>1, FirstStart
  <2>6. \A x, y \in msg_out_view_change' : x.sender = y.sender => x = y
    BY <2>1, <2>5 DEF ChangesOnce
  <2> QED
    BY <1>2, <2>1, <2>3, <2>4, <2>6 DEF ChangesOnce
<1> QED
  BY <1>3, <1>4

\* What a timeout in the first view reports.
LEMMA FirstReport ==
    ASSUME FirstChange, TypeOK, ChainInv, SlotInv, FirstViewLogs,
           NEW r \in Replica, view[r] = FirstViewNumber, NEW m,
           m.P = update_view_change_Pi(r), m.Q = update_view_change_Qi(r),
           m.h = get_h(r)
    PROVE  /\ \A q \in m.Q : CarriedQ(q)
           /\ \A p \in m.P : CarriedP(p, m)
<1>1. ASSUME NEW x \in LoggedPrePrepares(r)
      PROVE  /\ x \in msg_out_pre_prepare /\ x.v = FirstViewNumber
             /\ x.d = x.n /\ x.n = get_h(r) + 1
  <2>1. x \in msg_log_pre_prepare[r]
    BY DEF LoggedPrePrepares
  <2>2. x.v = FirstViewNumber
    BY <2>1 DEF ChainInv, LogsOfView
  <2>3. ~(x.v > FirstViewNumber)
    BY <2>2, FirstStart
  <2>4. x \in msg_out_pre_prepare
    BY <2>1, <2>3 DEF SlotInv, LoggedFromPrimary
  <2> QED
    BY <2>1, <2>2, <2>4
       DEF ChainInv, ProposalsOnSchedule, OnSchedule, FirstViewLogs
<1>2. ASSUME NEW q \in m.Q
      PROVE  CarriedQ(q)
  <2>1. PICK x \in LoggedPrePrepares(r) :
          q = [n |-> x.n, d |-> x.d, b |-> x.b, v |-> x.v]
    BY DEF update_view_change_Qi
  <2>2. q.n = x.n /\ q.b = x.b /\ q.v = x.v
    BY <2>1
  <2> QED
    BY <1>1, <2>2 DEF CarriedQ
<1>3. ASSUME NEW p \in m.P
      PROVE  CarriedP(p, m)
  <2>1. PICK s \in KnownSlots(r) :
          /\ p = [n |-> s.n, d |-> s.d, v |-> s.v]
          /\ LogPrepared(s.d, s.v, s.n, r)
    BY DEF update_view_change_Pi
  <2>2. p.n = s.n /\ p.d = s.d /\ p.v = s.v
    BY <2>1
  <2>3. PICK e \in view_change_Qi[r] \union LoggedPrePrepares(r) :
          e.n = s.n /\ e.d = s.d /\ e.v = s.v
    BY <2>1 DEF LogPrepared, pre_prepared
  <2>4. e \in LoggedPrePrepares(r)
    BY <2>3 DEF FirstViewLogs
  <2>5. \A y \in LoggedPrePrepares(r) :
          y.n = e.n /\ y.d = e.d => y.v <= e.v
    BY <1>1, <2>4, FirstStart
  <2>6. PICK q : q = [n |-> e.n, d |-> e.d, b |-> e.b, v |-> e.v]
    OBVIOUS
  <2>7. q \in m.Q
    BY <2>4, <2>5, <2>6 DEF update_view_change_Qi
  <2>8. q.n = e.n /\ q.d = e.d /\ q.v = e.v
    BY <2>6
  <2> QED
    BY <1>1, <2>2, <2>3, <2>4, <2>7, <2>8 DEF CarriedP
<1> QED
  BY <1>2, <1>3

LEMMA ChangesCarryStep ==
    ASSUME FirstChange, TypeOK, TypeOK', ChainInv, SlotInv, OutGrows,
           FirstViewLogs, ChangesCarry, NEW r \in Replica, ReplicaStep(r)
    PROVE  ChangesCarry'
<1>1. ASSUME NEW q, CarriedQ(q) PROVE CarriedQ(q)'
  BY <1>1 DEF CarriedQ, OutGrows
<1>2. ASSUME NEW m \in msg_out_view_change
      PROVE  /\ \A q \in m.Q : CarriedQ(q)'
             /\ \A p \in m.P : CarriedP(p, m)'
  BY <1>1 DEF ChangesCarry, CarriedP
<1>3. CASE ~SendViewChange(r)
  <2>1. UNCHANGED msg_out_view_change
    BY <1>3, OnlySendViewChange
  <2> QED
    BY <1>2, <2>1 DEF ChangesCarry
<1>4. CASE SendViewChange(r)
  <2>1. PICK m \in ViewChange :
          /\ msg_out_view_change' = msg_out_view_change \union {m}
          /\ m.h = get_h(r)
          /\ m.P = update_view_change_Pi(r)
          /\ m.Q = update_view_change_Qi(r)
    BY <1>4, ViewChangeOf
  <2>2. view[r] < MaxView
    BY <1>4, ViewChangeOf
  <2>3. view[r] = FirstViewNumber
    BY <2>2, LeavesFirst DEF SlotInv
  <2>4. /\ \A q \in m.Q : CarriedQ(q)
        /\ \A p \in m.P : CarriedP(p, m)
    BY <2>1, <2>3, FirstReport
  <2>5. /\ \A q \in m.Q : CarriedQ(q)'
        /\ \A p \in m.P : CarriedP(p, m)'
    BY <1>1, <2>4 DEF CarriedP
  <2> QED
    BY <1>2, <2>1, <2>5 DEF ChangesCarry
<1> QED
  BY <1>3, <1>4

LEMMA CommitsAfterStep ==
    ASSUME FirstChange, TypeOK, TypeOK', ChainInv, QuorumInv, ChangesOnce,
           CommitsAfterChange, NEW r \in Replica, ReplicaStep(r)
    PROVE  CommitsAfterChange'
<1>1. CASE SendCommit(r)
  <2>1. UNCHANGED msg_out_view_change
    BY <1>1 DEF SendCommit, viewOut
  <2>2. ASSUME NEW m \in msg_out_view_change,
               NEW c \in msg_out_commit' \ msg_out_commit,
               c.sender = m.sender
        PROVE  c.n > m.h
    <3>1. c.sender = r /\ c.n = get_h(r) + 1
      BY <1>1, CommitSent DEF QuorumInv, OrderInv
    <3>2. m.h <= get_h(r) /\ m.h \in Nat
      BY <2>2, <3>1 DEF ChangesOnce, TypeOK, ViewChange
    <3> QED
      BY <3>1, <3>2, LowWatermark
  <2> QED
    BY <2>1, <2>2 DEF CommitsAfterChange
<1>2. CASE SendViewChange(r)
  <2>1. PICK m \in ViewChange :
          /\ msg_out_view_change' = msg_out_view_change \union {m}
          /\ m.sender = r /\ m.v = view[r] + 1
    BY <1>2, ViewChangeOf
  <2>2. UNCHANGED msg_out_commit
    BY <1>2, ViewChangeOf
  <2>3. ASSUME NEW c \in msg_out_commit, c.sender = r
        PROVE  ~(c.v >= m.v)
    <3>1. c.v \in Nat /\ view[r] \in Nat
      BY DEF TypeOK, Commit
    <3>2. c.v <= view[r]
      BY <2>3 DEF QuorumInv, OrderInv, CommitsInOrder
    <3> QED
      BY <2>1, <3>1, <3>2
  <2>4. ASSUME NEW k \in msg_out_view_change', NEW c \in msg_out_commit',
               c.sender = k.sender, c.v >= k.v
        PROVE  c.n > k.h
    <3>1. CASE k = m
      BY <2>1, <2>2, <2>3, <2>4, <3>1
    <3>2. CASE k \in msg_out_view_change
      BY <2>2, <2>4, <3>2 DEF CommitsAfterChange
    <3> QED
      BY <2>1, <3>1, <3>2
  <2> QED
    BY <2>4 DEF CommitsAfterChange
<1>3. CASE ~SendCommit(r) /\ ~SendViewChange(r)
  BY <1>3, OnlySendCommit, OnlySendViewChange DEF CommitsAfterChange
<1> QED
  BY <1>1, <1>2, <1>3

LEMMA NewViewsStep ==
    ASSUME TypeOK, TypeOK', ChainInv, OutGrows, NewViewsJustified,
           NEW r \in Replica, ReplicaStep(r)
    PROVE  NewViewsJustified'
<1>1. ASSUME NEW nv \in msg_out_new_view
      PROVE  /\ nv.Nu \subseteq msg_out_view_change'
             /\ correct_chi(nv.Chi, nv.Nu)
  BY DEF NewViewsJustified, OutGrows
<1>2. CASE ~SendNewView(r)
  <2>1. UNCHANGED msg_out_new_view
    BY <1>2, OnlySendNewView
  <2> QED
    BY <1>1, <2>1 DEF NewViewsJustified
<1>3. CASE SendNewView(r)
  <2>1. ASSUME NEW nv \in msg_out_new_view' \ msg_out_new_view
        PROVE  /\ nv.Nu = msg_log_view_change[r]
               /\ correct_chi(nv.Chi, nv.Nu)
    <3>1. PICK Chi :
            /\ correct_chi(Chi, msg_log_view_change[r])
            /\ msg_out_new_view' = msg_out_new_view \union
                 {[v |-> view[r], Nu |-> msg_log_view_change[r],
                   Chi |-> Chi, sender |-> r]}
      BY <1>3, <2>1 DEF SendNewView
    <3>2. nv = [v |-> view[r], Nu |-> msg_log_view_change[r],
                Chi |-> Chi, sender |-> r]
      BY <2>1, <3>1
    <3>3. nv.Nu = msg_log_view_change[r] /\ nv.Chi = Chi
      BY <3>2
    <3> QED
      BY <3>1, <3>3
  <2>2. msg_log_view_change[r] \subseteq msg_out_view_change'
    BY DEF ChainInv, LogsSent, OutGrows
  <2> QED
    BY <1>1, <2>1, <2>2 DEF NewViewsJustified
<1> QED
  BY <1>2, <1>3

LEMMA ProposalsStep ==
    ASSUME FirstChange, TypeOK, TypeOK', SlotInv, OutGrows, ProposalsOpened,
           NEW r \in Replica, ReplicaStep(r)
    PROVE  ProposalsOpened'
<1>1. ASSUME NEW m \in msg_out_pre_prepare
      PROVE  /\ m.b.v = m.v /\ m.b.tag # 0
             /\ m.v >= FirstViewNumber
             /\ m.v > FirstViewNumber =>
                  \E nv \in msg_out_new_view' : nv.v = m.v
  BY DEF ProposalsOpened, OutGrows
<1>2. CASE ~SendPrePrepare(r)
  <2>1. UNCHANGED msg_out_pre_prepare
    BY <1>2, OnlySendPrePrepare
  <2> QED
    BY <1>1, <2>1 DEF ProposalsOpened
<1>3. CASE SendPrePrepare(r)
  <2>1. PICK d \in msg_log_request[r], tag \in Tags :
          /\ pre_SEND_PRE_PREPARE(d, view[r], seqno[r] + 1, r)
          /\ msg_out_pre_prepare' = msg_out_pre_prepare \union
               {[v |-> view[r], n |-> seqno[r] + 1, d |-> d,
                 b |-> [n |-> seqno[r] + 1, t |-> d, v |-> view[r],
                        tag |-> tag], sender |-> r]}
    BY <1>3 DEF SendPrePrepare
  <2>2. PICK m : m = [v |-> view[r], n |-> seqno[r] + 1, d |-> d,
                      b |-> [n |-> seqno[r] + 1, t |-> d, v |-> view[r],
                             tag |-> tag], sender |-> r]
    OBVIOUS
  <2>3. m.v = view[r] /\ m.b.v = view[r] /\ m.b.tag = tag
    BY <2>2
  <2>4. msg_out_pre_prepare' = msg_out_pre_prepare \union {m}
    BY <2>1, <2>2
  <2>5. tag # 0
    BY TagsAssumption
  <2>6. view[r] >= FirstViewNumber
    BY DEF SlotInv, ViewsReached
  <2>7. active_view[r] /\ primary(view[r]) = r
    BY <2>1 DEF pre_SEND_PRE_PREPARE
  <2>8. view[r] > FirstViewNumber =>
          \E nv \in msg_out_new_view' : nv.v = view[r]
    BY <2>7 DEF SlotInv, OpenedByPrimary, LogsWereSent, OutGrows
  <2> QED
    BY <1>1, <2>3, <2>4, <2>5, <2>6, <2>8 DEF ProposalsOpened
<1> QED
  BY <1>2, <1>3

\* A decided block was first proposed by a PRE_PREPARE; one that a NEW_VIEW
\* carries, in the first view and for the same height.
LEMMA CarriedBlock ==
    ASSUME TypeOK, ChangesCarry, NewViewsJustified,
           NEW nv \in msg_out_new_view, NEW e \in nv.Chi
    PROVE  \E z \in msg_out_pre_prepare :
             z.v = FirstViewNumber /\ z.n = e.n /\ z.b = e.b
<1>1. e \in ChiEntries(e.n, nv.Nu) /\ nv.Nu \subseteq msg_out_view_change
  BY DEF NewViewsJustified, correct_chi
<1>2. PICK m \in nv.Nu : \E q \in ChiChoices(m, e.n, nv.Nu) :
        e = [n |-> e.n, d |-> q.d, b |-> q.b]
  BY <1>1 DEF ChiEntries
<1>3. PICK q \in ChiChoices(m, e.n, nv.Nu) :
        e = [n |-> e.n, d |-> q.d, b |-> q.b]
  BY <1>2
<1>4. PICK k \in nv.Nu : q \in k.Q /\ q.n = e.n
  BY <1>3 DEF ChiChoices
<1>5. e.b = q.b
  <2>1. PICK x, y, z : x = e.n /\ y = q.d /\ z = q.b
    OBVIOUS
  <2>2. e = [n |-> x, d |-> y, b |-> z]
    BY <1>3, <2>1
  <2>3. e.b = z
    BY <2>2
  <2> QED
    BY <2>1, <2>3
<1>6. CarriedQ(q)
  BY <1>1, <1>4 DEF ChangesCarry
<1> QED
  BY <1>4, <1>5, <1>6 DEF CarriedQ

LEMMA DecidedFrom ==
    ASSUME TypeOK, ChangesCarry, NewViewsJustified, NEW x \in PrePrepare,
           Decided(x)
    PROVE  \/ x \in msg_out_pre_prepare
           \/ /\ x.v > FirstViewNumber /\ InNewView(x)
              /\ \E z \in msg_out_pre_prepare :
                   z.v = FirstViewNumber /\ z.n = x.n /\ z.b = x.b
<1>1. CASE InNewView(x) /\ x.v > FirstViewNumber
  <2>1. PICK nv \in msg_out_new_view :
          [n |-> x.n, d |-> x.d, b |-> x.b] \in nv.Chi
    BY <1>1 DEF InNewView
  <2>2. PICK e : e = [n |-> x.n, d |-> x.d, b |-> x.b]
    OBVIOUS
  <2>3. e \in nv.Chi /\ e.n = x.n /\ e.b = x.b
    BY <2>1, <2>2
  <2> QED
    BY <1>1, <2>3, CarriedBlock
<1> QED
  BY <1>1 DEF Decided

LEMMA AboveStep ==
    ASSUME FirstChange, TypeOK, TypeOK', ChainInv, CertificatesOld, SlotInv,
           StepForward, ChangesCarry, NewViewsJustified, ProposalsOpened,
           AboveStart, NEW r \in Replica, ReplicaStep(r)
    PROVE  AboveStart'
<1>1. ASSUME NEW q \in Replica PROVE get_h(q)' >= FirstHeight
  <2>1. /\ get_h(q) \in Nat /\ get_h(q)' \in Nat /\ FirstHeight \in Nat
        /\ get_h(q)' >= get_h(q) /\ get_h(q) >= FirstHeight
    BY LowWatermark, LowWatermarkAfter, FirstStart DEF StepForward, AboveStart
  <2> QED
    BY <2>1
<1>2. CASE ~Execute(r)
  <2>1. UNCHANGED blocks
    BY <1>2, OnlyExecute
  <2> QED
    BY <1>1, <2>1 DEF AboveStart
<1>3. CASE Execute(r)
  <2>1. PICK m \in msg_log_pre_prepare[r] : blocks' = blocks \union {m.b}
    BY <1>3, ExecuteSubmits
  <2>2. m \in PrePrepare /\ Decided(m)
    BY DEF TypeOK, SlotInv, LoggedFromPrimary, Decided
  <2>3. m.b.tag # 0
    BY <2>2, DecidedFrom DEF ProposalsOpened
  <2> QED
    BY <1>1, <2>1, <2>3 DEF AboveStart
<1> QED
  BY <1>2, <1>3

LEMMA ChangeInitially == FirstChange /\ Init => ChangeInv
<1> SUFFICES ASSUME FirstChange, Init PROVE ChangeInv
  OBVIOUS
<1>1. \A r \in Replica : view[r] = FirstViewNumber
  BY FirstStart DEF Init
<1>2. /\ msg_out_commit = {} /\ msg_out_view_change = {}
      /\ msg_out_new_view = {} /\ msg_out_pre_prepare = {}
      /\ alive = Running
      /\ \A r \in Replica : /\ view_change_Qi[r] = {}
                            /\ msg_log_pre_prepare[r] = {}
  BY DEF Init, Nothing
<1>3. ASSUME NEW r \in Replica PROVE get_h(r) = FirstHeight
  <2>1. TypeOK
    BY TypeInit
  <2>2. \A c \in checkpoint[r] : c.n = FirstHeight
    BY FirstStart DEF Init
  <2>3. checkpoint[r] \in SUBSET Checkpoint /\ checkpoint[r] # {}
    BY <2>1 DEF TypeOK
  <2> QED
    BY <2>2, <2>3, WatermarkOf DEF get_h
<1>4. ASSUME NEW b \in blocks PROVE ~(b.n > FirstHeight)
  <2>1. PICK r \in Replica : \E n \in 0 .. StartHeight[r] : b = ChainBlock(n)
    BY DEF Init
  <2>2. PICK n \in 0 .. StartHeight[r] : b.n = n
    BY <2>1 DEF ChainBlock
  <2>3. StartHeight[r] = FirstHeight /\ FirstHeight \in Nat
    BY FirstStart
  <2> QED
    BY <2>2, <2>3
<1>5. ViewsOfChange
  BY <1>1, FirstStart DEF ViewsOfChange
<1>6. SentByRunning /\ FirstViewLogs /\ ChangesOnce /\ ChangesCarry
      /\ CommitsAfterChange /\ NewViewsJustified /\ ProposalsOpened
  BY <1>2 DEF SentByRunning, FirstViewLogs, ChangesOnce, ChangesCarry,
       CommitsAfterChange, NewViewsJustified, ProposalsOpened
<1>7. AboveStart
  BY <1>3, <1>4, FirstStart DEF AboveStart
<1> QED
  BY <1>5, <1>6, <1>7 DEF ChangeInv

LEMMA ChangeNext ==
    ASSUME FirstChange, TypeOK, TypeOK', ChainInv, QuorumInv, LeavingInv,
           SlotInv, ChangeInv, [Next]_vars
    PROVE  ChangeInv'
<1>1. CASE UNCHANGED vars
  BY <1>1 DEF vars, agreementLogs, certificates, agreementOut, viewOut,
       ChangeInv, ViewsOfChange, SentByRunning, FirstViewLogs, ChangesOnce,
       ChangesCarry, CarriedP, CarriedQ, CommitsAfterChange,
       NewViewsJustified, ProposalsOpened, AboveStart, get_h
<1>2. CASE Next
  <2>1. PICK r \in alive : ReplicaStep(r)
    BY <1>2, Zenon DEF Next, ReplicaStep
  <2>2. r \in Replica /\ StepForward
    BY ForwardNext DEF TypeOK
  <2>3. OutGrows
    BY <2>1, <2>2, OutNext
  <2>4. ViewsOfChange' /\ SentByRunning'
    BY <2>1, <2>2, ViewsStep, RunningStep DEF ChangeInv, QuorumInv, OrderInv
  <2>5. FirstViewLogs' /\ ChangesOnce'
    BY <2>1, <2>2, FirstLogsStep, ChangesOnceStep
       DEF ChangeInv, QuorumInv, OrderInv, SlotInv, LeavingInv
  <2>6. ChangesCarry' /\ CommitsAfterChange'
    BY <2>1, <2>2, <2>3, ChangesCarryStep, CommitsAfterStep DEF ChangeInv
  <2>7. NewViewsJustified' /\ ProposalsOpened'
    BY <2>1, <2>2, <2>3, NewViewsStep, ProposalsStep DEF ChangeInv
  <2>8. AboveStart'
    BY <2>1, <2>2, AboveStep DEF ChangeInv, QuorumInv, OrderInv
  <2> QED
    BY <2>4, <2>5, <2>6, <2>7, <2>8 DEF ChangeInv
<1> QED
  BY <1>1, <1>2

-----------------------------------------------------------------------------
(* The decision of a NEW_VIEW.                                             *)

Senders(Nu) == {m.sender : m \in Nu}

\* VIEW_CHANGEs of which each speaks for the next height only.
Changes(Nu) ==
    /\ Nu \subseteq ViewChange
    /\ \A m, k \in Nu : k.sender = m.sender => k = m
    /\ \A m \in Nu : \A p \in m.P : p.n = m.h + 1

LEMMA ChangesCounted ==
    ASSUME NEW Nu, Changes(Nu)
    PROVE  /\ IsFiniteSet(Nu) /\ Senders(Nu) \subseteq Replica
           /\ Cardinality(Nu) <= Cardinality(Senders(Nu))
           /\ Cardinality(Nu) \in Nat /\ Cardinality(Senders(Nu)) \in Nat
<1>1. /\ \A x \in Nu : x.sender \in Replica
      /\ \A x, y \in Nu : x.sender = y.sender => x = y
  BY DEF Changes, ViewChange
<1> QED
  BY <1>1, OnePerSender DEF Senders

\* The range of a NEW_VIEW: from the lowest checkpoint to the last number
\* that a P speaks for.
LEMMA NewViewRange ==
    ASSUME NEW Nu, Changes(Nu), Nu # {}
    PROVE  /\ Min_s(Nu) \in Nat /\ Max_s(Nu) \in Nat
           /\ \E m \in Nu : m.h = Min_s(Nu)
           /\ \A m \in Nu : Min_s(Nu) <= m.h
           /\ \A m \in Nu : \A p \in m.P : p.n <= Max_s(Nu)
           /\ \/ Max_s(Nu) = Min_s(Nu)
              \/ \E m \in Nu : \E p \in m.P : p.n = Max_s(Nu)
<1> DEFINE H == {m.h : m \in Nu}
           N == {m.h + 1 : m \in Nu}
           S == {Min_s(Nu)} \union PreparedNs(Nu)
<1>1. H \in SUBSET Nat /\ H # {} /\ N \in SUBSET Nat
  BY DEF Changes, ViewChange
<1>2. Min_s(Nu) \in H /\ \A h \in H : Min_s(Nu) <= h
  <2>1. Min_s(Nu) = Min(H)
    BY DEF Min_s
  <2> HIDE DEF H
  <2> QED
    BY <1>1, <2>1, MinIsLeast
<1>3. PreparedNs(Nu) \subseteq N
  BY DEF PreparedNs, Changes
<1>4. IsFiniteSet(N)
  <2>1. IsFiniteSet(Nu)
    BY ChangesCounted
  <2> DEFINE f == [m \in Nu |-> m.h + 1]
  <2>2. f \in [Nu -> N] /\ \A n \in N : \E m \in Nu : f[m] = n
    OBVIOUS
  <2>3. f \in Surjection(Nu, N)
    BY <2>2 DEF Surjection
  <2> HIDE DEF f, N
  <2> QED
    BY <2>1, <2>3, FS_Surjection
<1>5. IsFiniteSet(PreparedNs(Nu))
  <2> HIDE DEF N
  <2> QED
    BY <1>3, <1>4, FS_Subset
<1>6. IsFiniteSet(S) /\ S # {} /\ S \in SUBSET Nat
  <2>1. IsFiniteSet(PreparedNs(Nu) \union {Min_s(Nu)})
    BY <1>5, FS_AddElement
  <2>2. S = PreparedNs(Nu) \union {Min_s(Nu)}
    OBVIOUS
  <2> QED
    BY <1>1, <1>2, <1>3, <2>1, <2>2
<1>7. Max_s(Nu) \in S /\ \A y \in S : y <= Max_s(Nu)
  <2>1. Max_s(Nu) = Max(S)
    BY DEF Max_s
  <2> HIDE DEF S
  <2> QED
    BY <1>6, <2>1, MaxIsGreatest
<1>8. \A m \in Nu : \A p \in m.P : p.n \in S
  BY DEF PreparedNs
<1>9. Max_s(Nu) = Min_s(Nu) \/ \E m \in Nu : \E p \in m.P : p.n = Max_s(Nu)
  BY <1>7 DEF PreparedNs
<1> QED
  BY <1>1, <1>2, <1>6, <1>7, <1>8, <1>9

\* What a NEW_VIEW of the first change rests on.
LEMMA NuOfChange ==
    ASSUME TypeOK, ChangesOnce, ChangesCarry,
           NEW Nu, Nu \subseteq msg_out_view_change
    PROVE  Changes(Nu)
BY DEF Changes, TypeOK, ChangesOnce, ChangesCarry, CarriedP

LEMMA NewViewQuorum ==
    ASSUME TypeOK, ChangeInv, NEW nv \in msg_out_new_view
    PROVE  /\ nv.Nu \subseteq msg_out_view_change /\ Changes(nv.Nu)
           /\ nv.Nu # {}
           /\ Senders(nv.Nu) \in SUBSET Replica
           /\ Cardinality(Senders(nv.Nu)) >= quorum
<1>1. nv.Nu \subseteq msg_out_view_change /\ Cardinality(nv.Nu) >= quorum
  BY DEF ChangeInv, NewViewsJustified, correct_chi
<1>2. Changes(nv.Nu)
  BY <1>1, NuOfChange DEF ChangeInv
<1>3. PICK a \in Nat, b \in Nat :
        a = Cardinality(nv.Nu) /\ b = Cardinality(Senders(nv.Nu)) /\ a <= b
  BY <1>2, ChangesCounted
<1>4. Cardinality(Senders(nv.Nu)) >= quorum
  BY <1>1, <1>3, QuorumPositive
<1>5. nv.Nu # {}
  BY <1>1, FS_EmptySet, QuorumPositive
<1> QED
  BY <1>1, <1>2, <1>4, <1>5, ChangesCounted

\* A slot that a sender of Nu committed in the first view, above the height it
\* reports, is in Chi.
LEMMA CommittedInChi ==
    ASSUME FirstChange, TypeOK, LeavingKeepsPrepared, ChangeInv,
           NEW nv \in msg_out_new_view, NEW m \in nv.Nu,
           NEW c \in msg_out_commit, c.sender = m.sender,
           c.v = FirstViewNumber, c.n > m.h
    PROVE  \E e \in nv.Chi : e.n = c.n
<1>1. /\ nv.Nu \subseteq msg_out_view_change /\ Changes(nv.Nu)
      /\ nv.Nu # {}
  BY NewViewQuorum
<1>2. m \in msg_out_view_change /\ m.v = c.v + 1
  BY <1>1 DEF ChangeInv, ChangesOnce
<1>3. PICK p \in m.P : p.n = c.n
  BY <1>2 DEF LeavingKeepsPrepared
<1>4. /\ Min_s(nv.Nu) \in Nat /\ Max_s(nv.Nu) \in Nat
      /\ Min_s(nv.Nu) <= m.h /\ p.n <= Max_s(nv.Nu)
  BY <1>1, NewViewRange
<1>5. m.h \in Nat /\ c.n \in Nat
  BY <1>2 DEF TypeOK, ViewChange, Commit
<1>6. c.n \in Min_s(nv.Nu) + 1 .. Max_s(nv.Nu)
  BY <1>3, <1>4, <1>5
<1>7. correct_chi(nv.Chi, nv.Nu)
  BY DEF ChangeInv, NewViewsJustified
<1> QED
  BY <1>6, <1>7 DEF correct_chi

\* A block above the start was decided in one of the two views.
LEMMA DecidedInTwoViews ==
    ASSUME FirstChange, TypeOK, CommitsInOrder, SlotInv, ChangeInv,
           NEW x \in PrePrepare, Decided(x), CommitQuorum(x.v, x.n)
    PROVE  x.v = FirstViewNumber \/ x.v = FirstViewNumber + 1
<1>1. PICK c \in msg_out_commit : c.v = x.v
  BY QuorumInhabited
<1>2. c.v <= view[c.sender] /\ view[c.sender] <= FirstViewNumber + 1
      /\ view[c.sender] \in Nat
  BY DEF CommitsInOrder, ChangeInv, ViewsOfChange, TypeOK, Commit
<1>3. x.v >= FirstViewNumber
  BY FirstStart DEF Decided, ChangeInv, ProposalsOpened, PrePrepare
<1>4. x.v \in Nat /\ FirstViewNumber \in Nat
  BY FirstStart DEF PrePrepare
<1> QED
  BY <1>1, <1>2, <1>3, <1>4

\* What the first view decided is a PRE_PREPARE.
LEMMA DecidedFirst ==
    ASSUME FirstChange, NEW x \in PrePrepare, Decided(x),
           x.v = FirstViewNumber
    PROVE  x \in msg_out_pre_prepare
<1>1. ~(x.v > FirstViewNumber)
  BY FirstStart
<1> QED
  BY <1>1 DEF Decided

AllInv ==
    /\ TypeOK /\ ChainInv /\ QuorumInv /\ LeavingInv /\ SlotInv
    /\ BlocksDecided /\ ChangeInv

LEMMA ChangeInductive == FirstChange /\ Spec => []AllInv
<1> SUFFICES ASSUME FirstChange PROVE Spec => []AllInv
  OBVIOUS
<1>1. Init => SlotInv /\ BlocksDecided /\ ChangeInv
  <2> SUFFICES ASSUME Init PROVE SlotInv /\ BlocksDecided /\ ChangeInv
    OBVIOUS
  <2>1. \A b \in blocks : b.tag = 0
    BY DEF Init, ChainBlock
  <2> QED
    BY <2>1, SlotInit, ChangeInitially DEF BlocksDecided, FirstChange
<1>2. /\ TypeOK /\ TypeOK' /\ ChainInv /\ QuorumInv /\ LeavingInv
      /\ SlotInv /\ ChangeInv /\ [Next]_vars
      => ChangeInv'
  BY ChangeNext
<1> QED
  BY <1>1, <1>2, SlotNext, BlocksDecidedNext, ChainInductive,
     QuorumInductive, LeavingInductive, PTL DEF Spec, AllInv

-----------------------------------------------------------------------------
(* What the first view change keeps.                                       *)

\* A replica that sent a COMMIT of a quorum is among the senders of a Nu.
LEMMA QuorumMeetsNu ==
    ASSUME TypeOK, QuorumsIntersect, ChangeInv, NEW nv \in msg_out_new_view,
           NEW v, NEW n, CommitQuorum(v, n)
    PROVE  \E m \in nv.Nu, c \in msg_out_commit :
             c.sender = m.sender /\ c.v = v /\ c.n = n
<1> DEFINE A == Committers(v, n)
           B == Senders(nv.Nu)
<1>1. /\ A \subseteq Replica /\ Cardinality(A) >= quorum
      /\ B \subseteq Replica /\ Cardinality(B) >= quorum
  BY SendersOfQuorum, NewViewQuorum
<1>2. A \cap B # {}
  <2>1. PICK a \in Nat, b \in Nat : a = Cardinality(A) /\ b = Cardinality(B)
    <3> HIDE DEF A, B
    <3> QED
      BY <1>1, ReplicasFinite, FS_Subset, FS_CardinalityType
  <2>2. a + b > ClusterSize
    BY <1>1, <2>1, TwoQuorums, QuorumPositive, ClusterSizeAssumption
  <2> HIDE DEF A, B
  <2> QED
    BY <1>1, <2>1, <2>2, ReplicasFinite, FS_MajoritiesIntersect
<1>3. PICK q : q \in A /\ q \in B
  BY <1>2
<1>4. PICK c \in msg_out_commit : c.sender = q /\ c.v = v /\ c.n = n
  BY <1>3, SendersOfQuorum
<1>5. PICK m \in nv.Nu : m.sender = q
  BY <1>3 DEF Senders
<1> QED
  BY <1>4, <1>5

\* The first view change carries over every block that may have been executed:
\* in every cluster whose quorums meet, whichever replicas' VIEW_CHANGEs the
\* new primary takes and at whatever heights and moments they timed out, a
\* block that was submitted in the first view and that none of them has as its
\* checkpoint is proposed again by the NEW_VIEW, this very block.
THEOREM NewViewKeepsExecutedHolds ==
    FirstChange /\ QuorumsIntersect /\ Spec => []NewViewKeepsExecuted
<1> SUFFICES ASSUME FirstChange, QuorumsIntersect
             PROVE  Spec => []NewViewKeepsExecuted
  OBVIOUS
<1>1. AllInv => NewViewKeepsExecuted
  <2> SUFFICES ASSUME AllInv, NEW nv \in msg_out_new_view, NEW b \in blocks,
                      b.v < nv.v, \A m \in nv.Nu : b.n > m.h
               PROVE  \E e \in nv.Chi : e.n = b.n /\ e.b = b
    BY DEF NewViewKeepsExecuted
  <2>1. /\ TypeOK /\ QuorumInv /\ LeavingInv /\ SlotInv /\ BlocksDecided
        /\ ChangeInv
    BY DEF AllInv
  <2>2. b \in Block /\ b.n \in Nat /\ b.v \in Nat
    BY <2>1 DEF TypeOK, Block
  <2>3. b.n > FirstHeight
    <3>1. PICK m \in nv.Nu : TRUE
      BY <2>1, NewViewQuorum
    <3>2. m \in msg_out_view_change
      BY <2>1, NewViewQuorum
    <3>3. m.h >= FirstHeight /\ m.h \in Nat
      BY <2>1, <3>2 DEF ChangeInv, ChangesOnce, TypeOK, ViewChange
    <3> QED
      BY <2>2, <3>3, FirstStart
  <2>4. PICK x \in PrePrepare :
          Decided(x) /\ x.b = b /\ x.n = b.n /\ CommitQuorum(x.v, x.n)
    BY <2>1, <2>3 DEF ChangeInv, AboveStart, BlocksDecided
  <2>5. x.v = FirstViewNumber \/ x.v = FirstViewNumber + 1
    BY <2>1, <2>4, DecidedInTwoViews DEF QuorumInv, OrderInv
  <2>6. b.v >= FirstViewNumber
        /\ (x \in msg_out_pre_prepare => b.v = x.v)
    <3>1. \A z \in msg_out_pre_prepare :
            z.b = b => b.v = z.v /\ b.v >= FirstViewNumber
      BY <2>1 DEF ChangeInv, ProposalsOpened
    <3> QED
      BY <2>1, <2>4, <3>1, DecidedFrom DEF ChangeInv
  <2>7. nv.v = FirstViewNumber + 1 /\ b.v = FirstViewNumber
    <3>1. nv.sender \in Replica /\ nv.v \in Nat /\ nv.v <= view[nv.sender]
      BY <2>1 DEF TypeOK, NewView, SlotInv, NewViewsOfPrimary
    <3>2. view[nv.sender] \in Nat /\ view[nv.sender] <= FirstViewNumber + 1
      BY <2>1, <3>1 DEF TypeOK, ChangeInv, ViewsOfChange
    <3> QED
      BY <2>2, <2>6, <3>1, <3>2, FirstStart
  <2>8. CASE x.v = FirstViewNumber
    <3>1. PICK m \in nv.Nu, c \in msg_out_commit :
            c.sender = m.sender /\ c.v = x.v /\ c.n = x.n
      BY <2>1, <2>4, QuorumMeetsNu
    <3>2. PICK e \in nv.Chi : e.n = b.n
      BY <2>1, <2>4, <2>8, <3>1, CommittedInChi DEF LeavingInv
    <3>3. PICK z \in msg_out_pre_prepare :
            z.v = FirstViewNumber /\ z.n = e.n /\ z.b = e.b
      BY <2>1, CarriedBlock DEF ChangeInv
    <3>4. x \in msg_out_pre_prepare
      BY <2>4, <2>8, DecidedFirst
    <3>5. z = x
      BY <2>1, <2>4, <2>8, <3>2, <3>3, <3>4 DEF SlotInv, ProposedOnce
    <3> QED
      BY <2>4, <3>2, <3>3, <3>5
  <2>9. CASE x.v = FirstViewNumber + 1
    <3>1. x \notin msg_out_pre_prepare
      BY <2>6, <2>7, <2>9, FirstStart
    <3>2. PICK nw \in msg_out_new_view :
            nw.v = x.v /\ [n |-> x.n, d |-> x.d, b |-> x.b] \in nw.Chi
      BY <2>4, <3>1 DEF Decided, InNewView
    <3>3. nw = nv
      BY <2>1, <2>7, <2>9, <3>2 DEF SlotInv, NewViewOnce
    <3>4. PICK e : e = [n |-> x.n, d |-> x.d, b |-> x.b]
      OBVIOUS
    <3>5. e \in nv.Chi /\ e.n = x.n /\ e.b = x.b
      BY <3>2, <3>3, <3>4
    <3> QED
      BY <2>4, <3>5
  <2> QED
    BY <2>5, <2>8, <2>9
<1> QED
  BY <1>1, ChangeInductive, PTL

\* Two views decide one block at a height.
LEMMA NoForkInTwoViews ==
    ASSUME FirstChange, ClusterSize = 3 * F + 1, AllInv,
           NEW x \in PrePrepare, NEW y \in PrePrepare,
           Decided(x), Decided(y), x.n = y.n,
           CommitQuorum(x.v, x.n), CommitQuorum(y.v, y.n)
    PROVE  x.b = y.b
<1>1. /\ TypeOK /\ QuorumInv /\ LeavingInv /\ SlotInv /\ ChangeInv
  BY DEF AllInv
<1>2. /\ x.v = FirstViewNumber \/ x.v = FirstViewNumber + 1
      /\ y.v = FirstViewNumber \/ y.v = FirstViewNumber + 1
  BY <1>1, DecidedInTwoViews DEF QuorumInv, OrderInv
<1>3. ASSUME NEW a \in PrePrepare, NEW b \in PrePrepare,
             Decided(a), Decided(b), a.n = b.n,
             CommitQuorum(a.v, a.n), CommitQuorum(b.v, b.n),
             a.v = FirstViewNumber, b.v = FirstViewNumber + 1
      PROVE  a.b = b.b
  <2>1. a \in msg_out_pre_prepare
    BY <1>3, DecidedFirst
  <2>2. CASE b \notin msg_out_pre_prepare
    <3>1. PICK z \in msg_out_pre_prepare :
            z.v = FirstViewNumber /\ z.n = b.n /\ z.b = b.b
      BY <1>1, <1>3, <2>2, DecidedFrom DEF ChangeInv
    <3>2. z = a
      BY <1>1, <1>3, <2>1, <3>1 DEF SlotInv, ProposedOnce
    <3> QED
      BY <3>1, <3>2
  <2>3. CASE b \in msg_out_pre_prepare
    <3>1. b.v > FirstViewNumber /\ b.n \in Nat
      BY <1>3, FirstStart DEF PrePrepare
    <3>2. PICK nv \in msg_out_new_view : nv.v = b.v
      BY <1>1, <2>3, <3>1 DEF ChangeInv, ProposalsOpened
    <3>3. \A e \in nv.Chi : e.n < b.n
      BY <1>1, <2>3, <3>1, <3>2 DEF SlotInv, ProposedAboveNewView
    <3>4. PICK q \in Replica : /\ q \in Committers(a.v, a.n)
                               /\ q \in Committers(b.v, b.n)
                               /\ q \in Senders(nv.Nu)
      BY <1>1, <1>3, SendersOfQuorum, NewViewQuorum, ThreeQuorums
    <3>5. PICK m \in nv.Nu : m.sender = q
      BY <3>4 DEF Senders
    <3>6. PICK c \in msg_out_commit : c.sender = q /\ c.v = a.v /\ c.n = a.n
      BY <1>1, <1>3, <3>4, SendersOfQuorum
    <3>7. PICK k \in msg_out_commit : k.sender = q /\ k.v = b.v /\ k.n = b.n
      BY <1>1, <1>3, <3>4, SendersOfQuorum
    <3>8. m \in msg_out_view_change
      BY <1>1, NewViewQuorum
    <3>9. m.v = b.v /\ b.v \in Nat
      BY <1>1, <1>3, <3>8 DEF ChangeInv, ChangesOnce, PrePrepare
    <3>10. k.n > m.h
      BY <1>1, <3>5, <3>7, <3>8, <3>9 DEF ChangeInv, CommitsAfterChange
    <3>11. PICK e \in nv.Chi : e.n = a.n
      BY <1>1, <1>3, <3>5, <3>6, <3>7, <3>10, CommittedInChi DEF LeavingInv
    <3> QED
      BY <1>3, <3>1, <3>3, <3>11
  <2> QED
    BY <2>2, <2>3
<1>4. CASE x.v = y.v
  BY <1>1, <1>4, DecidedOnce
<1> QED
  BY <1>2, <1>3, <1>4

\* A step submits no new block, or the one after the last of the ledger.
LEMMA LedgerTwoViewsStep ==
    ASSUME FirstChange, ClusterSize = 3 * F + 1, AllInv,
           NEW r \in Replica, ReplicaStep(r)
    PROVE  [L!Next]_blocks
<1>1. /\ TypeOK /\ ChainInv /\ QuorumInv /\ SlotInv /\ ChangeInv
  BY DEF AllInv
<1>2. CASE ~Execute(r)
  BY <1>2, OnlyExecute
<1>3. CASE Execute(r)
  <2>1. PICK m \in msg_log_pre_prepare[r] :
          /\ blocks' = blocks \union {m.b}
          /\ m.b.n = last_exec[r] + 1 /\ m.b.t = m.b.n /\ m.n = m.b.n
          /\ CommitQuorum(m.v, m.n)
    BY <1>1, <1>3, ExecuteSubmits DEF QuorumInv, OrderInv
  <2>2. m \in PrePrepare /\ Decided(m)
    BY <1>1 DEF TypeOK, SlotInv, LoggedFromPrimary, Decided
  <2>3. /\ last_exec[r] \in Nat /\ FirstHeight \in Nat
        /\ last_exec[r] >= FirstHeight
    <3>1. last_exec[r] \in Nat /\ get_h(r) \in Nat /\ FirstHeight \in Nat
      BY <1>1, LowWatermark, FirstStart DEF TypeOK
    <3>2. last_exec[r] >= get_h(r)
      BY <1>1, <3>1, LastOnSchedule DEF ChainInv
    <3>3. get_h(r) >= FirstHeight
      BY <1>1 DEF ChangeInv, AboveStart
    <3> QED
      BY <3>1, <3>2, <3>3
  <2>4. CASE \E a \in blocks : a.n = m.b.n
    <3>1. PICK a \in blocks : a.n = m.b.n
      BY <2>4
    <3>2. a.tag # 0
      BY <1>1, <2>1, <2>3, <3>1 DEF ChangeInv, AboveStart
    <3>3. PICK x \in PrePrepare :
            Decided(x) /\ x.b = a /\ x.n = a.n /\ CommitQuorum(x.v, x.n)
      BY <3>2 DEF AllInv, BlocksDecided
    <3>4. x.b = m.b
      BY <2>1, <2>2, <3>1, <3>3, NoForkInTwoViews
    <3> QED
      BY <2>1, <3>3, <3>4
  <2>5. CASE ~\E a \in blocks : a.n = m.b.n
    <3>1. ASSUME NEW a \in blocks PROVE a.n <= last_exec[r]
      <4>1. a.n \in Nat
        BY <1>1 DEF TypeOK, Block
      <4>2. ~(m.b.n <= a.n)
        BY <1>1, <2>1, <2>3, <2>5, NoGap DEF ChainInv
      <4> QED
        BY <2>1, <2>3, <4>1, <4>2
    <3>2. L!Height = last_exec[r]
      <4> DEFINE S == {b.n : b \in blocks}
      <4>1. last_exec[r] \in S
        BY <1>1 DEF ChainInv, StateOnChain
      <4>2. ASSUME NEW n \in S, \A b \in blocks : b.n <= n
            PROVE  n = last_exec[r]
        <5>1. n \in Nat /\ n <= last_exec[r]
          BY <1>1, <3>1 DEF TypeOK, Block
        <5>2. last_exec[r] <= n
          BY <4>1, <4>2
        <5> QED
          BY <2>3, <5>1, <5>2
      <4> QED
        BY <3>1, <4>1, <4>2 DEF L!Height
    <3>3. L!SubmitBlock(m.b)
      BY <2>1, <3>2 DEF L!SubmitBlock
    <3>4. m.b \in blocks' \ blocks
      BY <2>1, <2>5
    <3> QED
      BY <3>3, <3>4 DEF L!Next
  <2> QED
    BY <2>4, <2>5
<1> QED
  BY <1>2, <1>3

\* Over the first view change the chain of all replicas together still is the
\* abstract ledger, in every cluster of 3F + 1 replicas that start together: a
\* block that the new view proposes anew is for a height at which no quorum can
\* have committed in the first view.
THEOREM LedgerInTwoViews ==
    FirstChange /\ ClusterSize = 3 * F + 1 /\ Spec => LedgerSpec
<1> SUFFICES ASSUME FirstChange, ClusterSize = 3 * F + 1
             PROVE  Spec => LedgerSpec
  OBVIOUS
<1>1. Init => L!Init
  BY DEF Init, L!Init, InitialChain
<1>2. AllInv /\ [Next]_vars => [L!Next]_blocks
  <2> SUFFICES ASSUME AllInv, Next PROVE [L!Next]_blocks
    BY DEF vars
  <2>1. PICK r \in alive : ReplicaStep(r)
    BY Zenon DEF Next, ReplicaStep
  <2>2. r \in Replica
    BY DEF AllInv, TypeOK
  <2> QED
    BY <2>1, <2>2, LedgerTwoViewsStep
<1> QED
  BY <1>1, <1>2, ChangeInductive, PTL DEF Spec, LedgerSpec, L!Spec

-----------------------------------------------------------------------------
(* A change that every running replica takes part in.                       *)

\* Beyond the quorum no replica runs: a NEW_VIEW needs the VIEW_CHANGEs of all
\* that do.
NoSpare == Cardinality(Running) <= quorum

NewViewsSecond ==
    \A nv \in msg_out_new_view : nv.v = FirstViewNumber + 1

\* Replicas of Running that are a quorum are all of Running.
LEMMA QuorumIsRunning ==
    ASSUME NoSpare, NEW A \in SUBSET Running, Cardinality(A) >= quorum
    PROVE  A = Running
<1>1. IsFiniteSet(Running) /\ IsFiniteSet(A)
  BY RunningAssumption, ReplicasFinite, FS_Subset
<1>2. /\ Cardinality(A) \in Nat /\ Cardinality(Running) \in Nat
      /\ Cardinality(A) <= Cardinality(Running)
      /\ Cardinality(A) = Cardinality(Running) => A = Running
  BY <1>1, FS_Subset, FS_CardinalityType
<1>3. Cardinality(A) = Cardinality(Running)
  BY <1>2, QuorumPositive DEF NoSpare
<1> QED
  BY <1>2, <1>3

\* A primary that may send a NEW_VIEW has the VIEW_CHANGE of every running
\* replica, its own included: it has left the first view.
LEMMA AllHaveChanged ==
    ASSUME FirstChange, NoSpare, AllInv, NEW r \in alive,
           pre_SEND_NEW_VIEW(msg_log_view_change[r], r)
    PROVE  /\ msg_log_view_change[r] \subseteq msg_out_view_change
           /\ Changes(msg_log_view_change[r])
           /\ Senders(msg_log_view_change[r]) = Running
           /\ r \in Running /\ view[r] = FirstViewNumber + 1
<1>1. TypeOK /\ ChainInv /\ LeavingInv /\ ChangeInv
  BY DEF AllInv
<1>2. r \in Replica /\ r \in Running
  BY <1>1 DEF TypeOK, ChangeInv, SentByRunning
<1> DEFINE Nu == msg_log_view_change[r]
<1>3. Nu \subseteq msg_out_view_change
  BY <1>1, <1>2 DEF ChainInv, LogsSent
<1>4. Changes(Nu)
  BY <1>1, <1>3, NuOfChange DEF ChangeInv
<1>5. Cardinality(Nu) >= quorum
  BY DEF pre_SEND_NEW_VIEW, correct_nu_once
<1>6. Senders(Nu) \subseteq Running
  BY <1>1, <1>3 DEF ChangeInv, SentByRunning, Senders
<1>7. Senders(Nu) = Running
  <2>1. PICK a \in Nat, b \in Nat :
          a = Cardinality(Nu) /\ b = Cardinality(Senders(Nu)) /\ a <= b
    <3> HIDE DEF Nu
    <3> QED
      BY <1>4, ChangesCounted
  <2>2. Cardinality(Senders(Nu)) >= quorum
    BY <1>5, <2>1, QuorumPositive
  <2> QED
    BY <1>6, <2>2, QuorumIsRunning
<1>8. PICK m \in msg_out_view_change : m.sender = r
  BY <1>2, <1>3, <1>7 DEF Senders
<1>9. /\ m.v = FirstViewNumber + 1 /\ m.v <= view[r]
      /\ view[r] <= FirstViewNumber + 1 /\ view[r] \in Nat
  BY <1>1, <1>2, <1>8 DEF ChangeInv, ChangesOnce, ViewsOfChange, LeavingInv,
       SentInViews, TypeOK
<1>10. view[r] = FirstViewNumber + 1
  BY <1>9, FirstStart
<1> QED
  BY <1>2, <1>3, <1>4, <1>7, <1>10

LEMMA SecondStep ==
    ASSUME FirstChange, NoSpare, AllInv, NewViewsSecond, [Next]_vars
    PROVE  NewViewsSecond'
<1>1. CASE UNCHANGED vars
  BY <1>1 DEF vars, viewOut, NewViewsSecond
<1>2. CASE Next
  <2>1. PICK r \in alive : ReplicaStep(r)
    BY <1>2, Zenon DEF Next, ReplicaStep
  <2>2. r \in Replica
    BY DEF AllInv, TypeOK
  <2>3. CASE ~SendNewView(r)
    BY <2>1, <2>2, <2>3, OnlySendNewView DEF NewViewsSecond
  <2>4. CASE SendNewView(r)
    <3>1. pre_SEND_NEW_VIEW(msg_log_view_change[r], r)
      BY <2>4 DEF SendNewView
    <3>2. view[r] = FirstViewNumber + 1
      BY <3>1, AllHaveChanged
    <3>3. \A nv \in msg_out_new_view' :
            nv \in msg_out_new_view \/ nv.v = view[r]
      BY <2>4 DEF SendNewView
    <3> QED
      BY <3>2, <3>3 DEF NewViewsSecond
  <2> QED
    BY <2>3, <2>4
<1> QED
  BY <1>1, <1>2

\* A NEW_VIEW of the first change rests on the VIEW_CHANGEs of a quorum of
\* replicas for its own view, where no more than a quorum runs.  The engine
\* compares no view of Nu with the one it opens (correct_nu_element): with a
\* replica to spare, one that stayed behind can be the primary of the old view
\* and open it once more.
THEOREM NewViewHasQuorumHolds ==
    FirstChange /\ NoSpare /\ Spec => []NewViewHasQuorum
<1> SUFFICES ASSUME FirstChange, NoSpare PROVE Spec => []NewViewHasQuorum
  OBVIOUS
<1>1. Init => NewViewsSecond
  BY DEF Init, NewViewsSecond
<1>2. AllInv /\ NewViewsSecond /\ [Next]_vars => NewViewsSecond'
  BY SecondStep
<1>3. AllInv /\ NewViewsSecond => NewViewHasQuorum
  <2> SUFFICES ASSUME AllInv, NewViewsSecond, NEW nv \in msg_out_new_view
               PROVE  Cardinality({m.sender : m \in
                        {x \in nv.Nu : x.v = nv.v}}) >= ByzantineQuorum
    BY DEF NewViewHasQuorum
  <2>1. TypeOK /\ ChangeInv
    BY DEF AllInv
  <2>2. /\ nv.Nu \subseteq msg_out_view_change
        /\ Cardinality(Senders(nv.Nu)) >= quorum
    BY <2>1, NewViewQuorum
  <2>3. \A x \in nv.Nu : x.v = nv.v
    BY <2>1, <2>2 DEF ChangeInv, ChangesOnce, NewViewsSecond
  <2>4. {x \in nv.Nu : x.v = nv.v} = nv.Nu
    BY <2>3
  <2> QED
    BY <2>2, <2>4 DEF Senders, quorum, ByzantineQuorum
<1> QED
  BY <1>1, <1>2, <1>3, ChangeInductive, PTL DEF Spec

\* A P that speaks for a number has a choice for Chi: all its entries are of
\* the first view, and its own Q has the block.
LEMMA ChoiceOf ==
    ASSUME FirstChange, ChangeInv,
           NEW Nu, Nu \subseteq msg_out_view_change, NEW m \in Nu,
           NEW p \in m.P
    PROVE  ChiChoices(m, p.n, Nu) # {}
<1>1. \A x \in m.P : CarriedP(x, m)
  BY DEF ChangeInv, ChangesCarry
<1>2. \A x \in m.P : x.n = p.n => x.v = p.v /\ x.d = p.d
  BY <1>1 DEF CarriedP
<1>3. HighestIn(p, m.P)
  BY <1>2 DEF HighestIn
<1>4. PICK q \in m.Q : q.n = p.n /\ q.d = p.d /\ q.v = p.v
  BY <1>1 DEF CarriedP
<1>5. q \in ChiChoices(m, p.n, Nu)
  BY <1>3, <1>4 DEF ChiChoices
<1> QED
  BY <1>5

\* The first sender with a choice gives the entry.
LEMMA EntryOf ==
    ASSUME NEW Nu, Changes(Nu), NEW n,
           \E m \in Nu : ChiChoices(m, n, Nu) # {}
    PROVE  ChiEntries(n, Nu) # {}
<1> DEFINE K == {m \in Nu : ChiChoices(m, n, Nu) # {}}
           S == {m.sender : m \in K}
<1>1. S \in SUBSET Nat /\ S # {}
  BY DEF Changes, ViewChange, Replica
<1>2. Min(S) \in S /\ \A y \in S : Min(S) <= y
  <2> HIDE DEF S
  <2> QED
    BY <1>1, MinIsLeast
<1>3. PICK m \in K : m.sender = Min(S)
  BY <1>2
<1>4. \A j \in Nu : ChiChoices(j, n, Nu) # {} => m.sender <= j.sender
  BY <1>2, <1>3
<1>5. PICK q : q \in ChiChoices(m, n, Nu)
  BY <1>3
<1>6. m \in {k \in Nu : /\ ChiChoices(k, n, Nu) # {}
                        /\ \A j \in Nu : ChiChoices(j, n, Nu) # {}
                              => k.sender <= j.sender}
  BY <1>3, <1>4
<1>7. [n |-> n, d |-> q.d, b |-> q.b] \in ChiEntries(n, Nu)
  BY <1>5, <1>6 DEF ChiEntries
<1> QED
  BY <1>7

\* Where every running replica has sent its VIEW_CHANGE, each number of the
\* range is spoken for.  One above a checkpoint of Nu that the chain has passed
\* was committed by all of them, in the first view: the replica with the lowest
\* checkpoint prepared it and says so.
LEMMA EveryNumberSpokenFor ==
    ASSUME FirstChange, NoSpare, AllInv,
           NEW Nu, Nu \subseteq msg_out_view_change, Changes(Nu),
           Senders(Nu) = Running, Nu # {},
           NEW n \in Min_s(Nu) + 1 .. Max_s(Nu)
    PROVE  \E m \in Nu : ChiChoices(m, n, Nu) # {}
<1>1. /\ TypeOK /\ ChainInv /\ QuorumInv /\ LeavingInv /\ SlotInv
      /\ BlocksDecided /\ ChangeInv
  BY DEF AllInv
<1>2. /\ Min_s(Nu) \in Nat /\ Max_s(Nu) \in Nat
      /\ \E m \in Nu : m.h = Min_s(Nu)
      /\ \/ Max_s(Nu) = Min_s(Nu)
         \/ \E m \in Nu : \E p \in m.P : p.n = Max_s(Nu)
  BY NewViewRange
<1>3. n \in Nat /\ n > Min_s(Nu) /\ n <= Max_s(Nu)
  BY <1>2
<1>4. PICK k \in Nu : \E p \in k.P : p.n = Max_s(Nu)
  BY <1>2, <1>3
<1>5. PICK p \in k.P : p.n = Max_s(Nu)
  BY <1>4
<1>6. PICK m0 \in Nu : m0.h = Min_s(Nu)
  BY <1>2
<1>7. p.n = k.h + 1 /\ k.h \in Nat
  BY DEF Changes, ViewChange
<1>8. CASE n = k.h + 1
  BY <1>1, <1>5, <1>7, <1>8, ChoiceOf
<1>9. CASE n # k.h + 1
  <2>1. n <= k.h
    BY <1>3, <1>5, <1>7, <1>9
  <2>2. PICK c0 \in blocks : c0.n = k.h
    BY <1>1 DEF ChangeInv, ChangesOnce
  <2>3. PICK b \in blocks : b.n = n
    BY <1>1, <1>3, <2>1, <2>2, NoGap DEF ChainInv
  <2>4. b.n > FirstHeight
    <3>1. m0.h >= FirstHeight
      BY <1>1 DEF ChangeInv, ChangesOnce
    <3> QED
      BY <1>2, <1>3, <1>6, <2>3, <3>1, FirstStart
  <2>5. PICK x \in PrePrepare :
          Decided(x) /\ x.n = n /\ CommitQuorum(x.v, x.n)
    BY <1>1, <2>3, <2>4 DEF ChangeInv, AboveStart, BlocksDecided
  <2>6. x.v = FirstViewNumber \/ x.v = FirstViewNumber + 1
    BY <1>1, <2>5, DecidedInTwoViews DEF QuorumInv, OrderInv
  <2>7. ASSUME NEW m \in Nu
        PROVE  \E c \in msg_out_commit :
                 c.sender = m.sender /\ c.v = x.v /\ c.n = n
    <3>1. /\ Committers(x.v, n) \in SUBSET Running
          /\ Cardinality(Committers(x.v, n)) >= quorum
      BY <1>1, <2>5, SendersOfQuorum
         DEF Committers, ChangeInv, SentByRunning
    <3>2. m.sender \in Committers(x.v, n)
      BY <3>1, QuorumIsRunning DEF Senders
    <3> QED
      BY <3>2 DEF Committers
  <2>8. CASE x.v = FirstViewNumber + 1
    <3>1. PICK c \in msg_out_commit :
            c.sender = k.sender /\ c.v = x.v /\ c.n = n
      BY <2>7
    <3>2. k \in msg_out_view_change /\ k.v = FirstViewNumber + 1
      BY <1>1 DEF ChangeInv, ChangesOnce
    <3>3. c.v >= k.v
      BY <2>8, <3>1, <3>2, FirstStart
    <3>4. c.n > k.h
      BY <1>1, <3>1, <3>2, <3>3 DEF ChangeInv, CommitsAfterChange
    <3> QED
      BY <1>3, <1>7, <2>1, <3>1, <3>4
  <2>9. CASE x.v = FirstViewNumber
    <3>1. PICK c \in msg_out_commit :
            c.sender = m0.sender /\ c.v = x.v /\ c.n = n
      BY <2>7
    <3>2. m0 \in msg_out_view_change /\ m0.v = c.v + 1
      BY <1>1, <2>9, <3>1 DEF ChangeInv, ChangesOnce
    <3>3. c.n > m0.h
      BY <1>3, <1>6, <3>1
    <3>4. PICK z \in m0.P : z.n = n
      BY <1>1, <3>1, <3>2, <3>3 DEF LeavingInv, LeavingKeepsPrepared
    <3> QED
      BY <1>1, <3>4, ChoiceOf
  <2> QED
    BY <2>6, <2>8, <2>9
<1> QED
  BY <1>8, <1>9

\* No process ends on an exception of its own, through the first view change
\* of a cluster whose quorums meet and of which no more than a quorum runs: the
\* NEW_VIEW has an entry with a block for every number of its range, whatever
\* the heights that the replicas reached before they timed out.
THEOREM NoAbortHolds ==
    FirstChange /\ NoSpare /\ QuorumsIntersect /\ Spec => []NoAbort
<1> SUFFICES ASSUME FirstChange, NoSpare, QuorumsIntersect
             PROVE  Spec => []NoAbort
  OBVIOUS
<1>1. Init => NoAbort
  BY DEF Init, NoAbort
<1>2. AllInv /\ NoAbort /\ [Next]_vars => NoAbort'
  <2> SUFFICES ASSUME AllInv, [Next]_vars PROVE alive' = alive
    BY DEF NoAbort
  <2>1. CASE UNCHANGED vars
    BY <2>1 DEF vars
  <2>2. CASE Next
    <3>1. PICK r \in alive : ReplicaStep(r)
      BY <2>2, Zenon DEF Next, ReplicaStep
    <3>2. r \in Replica
      BY DEF AllInv, TypeOK
    <3>3. AbortInNewView /\ alive' \subseteq alive
      BY <3>1, <3>2, AbortStep, OnlyLosesAlive DEF AllInv, QuorumInv, OrderInv
    <3>4. ASSUME NEW q \in alive \ alive' PROVE FALSE
      <4> DEFINE Nu == msg_log_view_change[q]
      <4>1. pre_SEND_NEW_VIEW(Nu, q) /\ null_chi(Nu)
        BY <3>3 DEF AbortInNewView
      <4>2. /\ Nu \subseteq msg_out_view_change /\ Changes(Nu)
            /\ Senders(Nu) = Running /\ q \in Running
        BY <4>1, AllHaveChanged
      <4> HIDE DEF Nu
      <4>3. Nu # {}
        BY <4>2 DEF Senders
      <4>4. PICK n \in Min_s(Nu) + 1 .. Max_s(Nu) : ChiEntries(n, Nu) = {}
        BY <4>1 DEF null_chi
      <4>5. \E m \in Nu : ChiChoices(m, n, Nu) # {}
        BY <4>2, <4>3, EveryNumberSpokenFor
      <4> QED
        BY <4>2, <4>4, <4>5, EntryOf
    <3> QED
      BY <3>3, <3>4
  <2> QED
    BY <2>1, <2>2
<1> QED
  BY <1>1, <1>2, ChangeInductive, PTL DEF Spec
=============================================================================
