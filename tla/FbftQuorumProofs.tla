--------------------------- MODULE FbftQuorumProofs ---------------------------
(***************************************************************************)
(* What the quorums of COMMITs give: a block is submitted only behind one,  *)
(* ROAST never signs in a view the replica has left, an active view was     *)
(* opened or used by a quorum, and a VIEW_CHANGE that leaves a view carries *)
(* what the replica prepared in it.                                         *)
(***************************************************************************)
EXTENDS FbftChainProofs

\* A quorum of replicas sent COMMITs for sequence number n in view v.
CommitQuorum(v, n) == Cardinality(Committers(v, n)) >= quorum

\* A replica that does not restart sends one COMMIT for a slot: it finds the
\* first one in its log, as long as it stays in the view and at the checkpoint.
OneCommit ==
    \A c, e \in msg_out_commit :
        c.v = e.v /\ c.n = e.n /\ c.sender = e.sender => c = e

OwnCommitKept ==
    \A c \in msg_out_commit :
        c.v = view[c.sender] /\ c.n > get_h(c.sender)
            => c \in msg_log_commit[c.sender]

\* The certificates of a replica are about views it has left.
CertificatesOld ==
    \A r \in Replica :
        \A e \in view_change_Pi[r] \union view_change_Qi[r] : e.v < view[r]

\* A replica commits only up to its view and to the height after its
\* checkpoint, and heights never go down as its view goes up.
CommitsInOrder ==
    \A c \in msg_out_commit :
        /\ c.v <= view[c.sender] /\ c.n <= get_h(c.sender) + 1
        /\ \A e \in msg_out_commit :
             c.sender = e.sender /\ c.v < e.v => c.n <= e.n

\* A slot that is being signed is the next one of the replica's view, a quorum
\* has committed it, and its proposal is in the log.
RoastBacked ==
    \A r \in Replica : \A s \in roast_active[r] :
        /\ s.v = view[r] /\ s.n = get_h(r) + 1
        /\ CommitQuorum(s.v, s.n)
        /\ FindByV_N_Req(r, s.d) # {}

\* Cluster sizes in which any two quorums of 2F + 1 have a replica in common.
QuorumsIntersect == ClusterSize \notin {2, 3, 6}

-----------------------------------------------------------------------------
(* Counting.                                                               *)

LEMMA ReplicasFinite ==
    IsFiniteSet(Replica) /\ Cardinality(Replica) = ClusterSize
BY FS_Interval, ClusterSizeAssumption DEF Replica

\* A set of messages with one per sender is finite, and has no more elements
\* than senders.
LEMMA OnePerSender ==
    ASSUME NEW S, \A x \in S : x.sender \in Replica,
           \A x, y \in S : x.sender = y.sender => x = y
    PROVE  /\ IsFiniteSet(S)
           /\ IsFiniteSet({x.sender : x \in S})
           /\ Cardinality(S) <= Cardinality({x.sender : x \in S})
           /\ Cardinality(S) \in Nat
           /\ Cardinality({x.sender : x \in S}) \in Nat
<1> DEFINE T == {x.sender : x \in S}
           f == [x \in S |-> x.sender]
<1>1. T \in SUBSET Replica
  OBVIOUS
<1>2. IsFiniteSet(T)
  BY <1>1, ReplicasFinite, FS_Subset
<1>3. f \in Injection(S, T)
  BY DEF Injection, IsInjective
<1> HIDE DEF f, T
<1>4. IsFiniteSet(S) /\ Cardinality(S) <= Cardinality(T)
  BY <1>2, <1>3, FS_Injection
<1> QED
  BY <1>2, <1>4, FS_CardinalityType DEF T

\* The replicas that committed a slot are finitely many.
LEMMA CommittersFinite ==
    ASSUME TypeOK, NEW v, NEW n
    PROVE  /\ Committers(v, n) \subseteq Replica
           /\ IsFiniteSet(Committers(v, n))
           /\ Cardinality(Committers(v, n)) \in Nat
<1>1. Committers(v, n) \subseteq Replica
  BY DEF Committers, TypeOK, Commit
<1> QED
  BY <1>1, ReplicasFinite, FS_Subset, FS_CardinalityType

\* A quorum of messages of different senders, all of which committed the slot,
\* is a quorum of replicas.
LEMMA QuorumOfSenders ==
    ASSUME TypeOK, NEW v, NEW n, NEW S, Cardinality(S) >= quorum,
           \A x \in S : x.sender \in Committers(v, n),
           \A x, y \in S : x.sender = y.sender => x = y
    PROVE  CommitQuorum(v, n)
<1> DEFINE A == {x.sender : x \in S}
           B == Committers(v, n)
<1>1. /\ A \subseteq B /\ B \subseteq Replica
      /\ IsFiniteSet(B) /\ Cardinality(B) \in Nat
  BY CommittersFinite
<1> HIDE DEF B
<1>2. \A x \in S : x.sender \in Replica
  BY <1>1
<1>3. /\ Cardinality(S) <= Cardinality(A)
      /\ Cardinality(S) \in Nat /\ Cardinality(A) \in Nat
  BY <1>2, OnePerSender
<1> HIDE DEF A
<1>4. Cardinality(A) <= Cardinality(B)
  BY <1>1, FS_Subset
<1>5. Cardinality(B) >= quorum
  BY <1>1, <1>3, <1>4, QuorumPositive
<1> QED
  BY <1>5 DEF B, CommitQuorum

LEMMA TwoQuorums == QuorumsIntersect => 2 * quorum > ClusterSize
<1>1. ClusterSize \in Nat /\ ClusterSize >= 1
  BY ClusterSizeAssumption
<1>2. F \in Nat /\ 3 * F <= ClusterSize - 1 /\ ClusterSize - 1 < 3 * F + 3
  BY <1>1 DEF F
<1> QED
  BY <1>1, <1>2 DEF QuorumsIntersect, quorum

\* Some replica is in both of two quorums of COMMITs.
LEMMA QuorumsMeet ==
    ASSUME TypeOK, QuorumsIntersect, NEW v, NEW n, NEW w, NEW k,
           CommitQuorum(v, n), CommitQuorum(w, k)
    PROVE  \E c, e \in msg_out_commit :
             /\ c.sender = e.sender
             /\ c.v = v /\ c.n = n /\ e.v = w /\ e.n = k
<1> DEFINE A == Committers(v, n)
           B == Committers(w, k)
<1>1. /\ A \subseteq Replica /\ Cardinality(A) \in Nat
      /\ B \subseteq Replica /\ Cardinality(B) \in Nat
  BY CommittersFinite
<1>2. Cardinality(A) >= quorum /\ Cardinality(B) >= quorum
  BY DEF CommitQuorum
<1> HIDE DEF A, B
<1>3. Cardinality(A) + Cardinality(B) > Cardinality(Replica)
  BY <1>1, <1>2, TwoQuorums, ReplicasFinite, QuorumPositive,
     ClusterSizeAssumption
<1>4. A \cap B # {}
  BY <1>1, <1>3, ReplicasFinite, FS_MajoritiesIntersect
<1> QED
  BY <1>4 DEF A, B, Committers

-----------------------------------------------------------------------------
(* What is common to all steps.                                            *)

\* A step of a running replica, as in Next.
ReplicaStep(r) ==
    \/ GenerateRequests(r)
    \/ SendPrePrepare(r) \/ ReceivePrePrepare(r)
    \/ SendPrepare(r) \/ ReceivePrepare(r)
    \/ SendCommit(r) \/ ReceiveCommit(r)
    \/ RoastInit(r) \/ RoastReceivePreSignature(r)
    \/ Execute(r) \/ ReceiveBlock(r)
    \/ RecoverView(r)
    \/ SendViewChange(r) \/ ReceiveViewChange(r)
    \/ SendNewView(r) \/ ReceiveNewView(r) \/ ProcessNewView(r)

\* No broadcast is taken back.
OutGrows ==
    /\ msg_out_pre_prepare \subseteq msg_out_pre_prepare'
    /\ msg_out_commit \subseteq msg_out_commit'
    /\ msg_out_view_change \subseteq msg_out_view_change'
    /\ msg_out_new_view \subseteq msg_out_new_view'

LEMMA OutNext ==
    ASSUME TypeOK, NEW r \in Replica, ReplicaStep(r)
    PROVE  OutGrows
<1>1. CASE \/ GenerateRequests(r)
           \/ ReceivePrePrepare(r) \/ SendPrepare(r) \/ ReceivePrepare(r)
           \/ ReceiveCommit(r) \/ RoastInit(r) \/ RoastReceivePreSignature(r)
  BY <1>1 DEF OutGrows, GenerateRequests, ReceivePrePrepare, SendPrepare,
       ReceivePrepare, ReceiveCommit, RoastInit, RoastReceivePreSignature,
       agreementOut, viewOut
<1>2. CASE \/ Execute(r) \/ ReceiveBlock(r) \/ RecoverView(r)
           \/ ReceiveViewChange(r) \/ ReceiveNewView(r) \/ ProcessNewView(r)
  BY <1>2 DEF OutGrows, Execute, ReceiveBlock, RecoverView,
       ReceiveViewChange, ReceiveNewView, ProcessNewView, agreementOut,
       viewOut
<1>3. CASE SendPrePrepare(r)
  BY <1>3 DEF OutGrows, SendPrePrepare, viewOut
<1>4. CASE SendCommit(r)
  BY <1>4 DEF OutGrows, SendCommit, viewOut
<1>5. CASE SendViewChange(r)
  BY <1>5 DEF OutGrows, SendViewChange, agreementOut
<1>6. CASE SendNewView(r)
  BY <1>6 DEF OutGrows, SendNewView, agreementOut
<1> QED
  BY <1>1, <1>2, <1>3, <1>4, <1>5, <1>6 DEF ReplicaStep

\* A quorum of COMMITs stays one.
LEMMA CommitQuorumKept ==
    ASSUME TypeOK', OutGrows, NEW v, NEW n, CommitQuorum(v, n)
    PROVE  CommitQuorum(v, n)'
<1> DEFINE A == Committers(v, n)
           B == Committers(v, n)'
<1>1. A \subseteq B
  BY DEF OutGrows, Committers
<1>2. B \subseteq Replica
  BY DEF Committers, TypeOK, Commit
<1>3. Cardinality(A) >= quorum
  BY DEF CommitQuorum
<1> HIDE DEF A, B
<1>4. IsFiniteSet(B) /\ IsFiniteSet(A) /\ Cardinality(A) <= Cardinality(B)
  BY <1>1, <1>2, ReplicasFinite, FS_Subset
<1>5. Cardinality(A) \in Nat /\ Cardinality(B) \in Nat
  BY <1>4, FS_CardinalityType
<1>6. Cardinality(B) >= quorum
  BY <1>3, <1>4, <1>5, QuorumPositive
<1> QED
  BY <1>6 DEF B, CommitQuorum

LEMMA QuorumInhabited ==
    ASSUME NEW v, NEW n, CommitQuorum(v, n)
    PROVE  \E c \in msg_out_commit : c.v = v /\ c.n = n
<1> DEFINE S == Committers(v, n)
<1>1. Cardinality(S) >= quorum
  BY DEF CommitQuorum
<1>2. S # {}
  <2> HIDE DEF S
  <2> QED
    BY <1>1, FS_EmptySet, QuorumPositive
<1> QED
  BY <1>2 DEF Committers

\* A slot is committed at a replica only in its view, with a proposal of this
\* view in its log, and when a quorum has sent COMMITs for it, provided that the
\* rows counted are of different senders.
LEMMA CommittedByQuorum ==
    ASSUME TypeOK, ChainInv, CertificatesOld, NEW r \in Replica,
           NEW d, NEW v, NEW n, committed(d, v, n, r)
    PROVE  /\ v = view[r] /\ n <= get_h(r) + 1
           /\ OneCommit => CommitQuorum(v, n)
           /\ LogPrepared(d, v, n, r)
           /\ FindByV_N_Req(r, d) # {}
<1>1. v = view[r] /\ n <= get_h(r) + 1
  BY CommittedSlot DEF ChainInv
<1>2. msg_log_commit[r] \subseteq msg_out_commit
  BY DEF ChainInv, LogsSent
<1>3. Cardinality(Commits(v, n, r)) >= quorum
  BY DEF committed
<1>4. ASSUME OneCommit PROVE CommitQuorum(v, n)
  <2>1. \A x \in Commits(v, n, r) :
          x \in msg_out_commit /\ x.v = v /\ x.n = n
    BY <1>2 DEF Commits
  <2>2. \A x \in Commits(v, n, r) : x.sender \in Committers(v, n)
    BY <2>1 DEF Committers
  <2>3. \A x, y \in Commits(v, n, r) : x.sender = y.sender => x = y
    BY <1>4, <2>1 DEF OneCommit
  <2> QED
    BY <1>3, <2>2, <2>3, QuorumOfSenders
<1>5. view[r] \in Nat
  BY DEF TypeOK
<1>6. LogPrepared(d, v, n, r)
  BY <1>1, <1>5 DEF committed, prepared, CertificatesOld
<1>7. PICK e \in view_change_Qi[r] \union LoggedPrePrepares(r) :
        e.n = n /\ e.d = d /\ e.v = v
  BY <1>6 DEF LogPrepared, pre_prepared
<1>8. e \in msg_log_pre_prepare[r]
  BY <1>1, <1>5, <1>7 DEF CertificatesOld, LoggedPrePrepares
<1>9. e.b \in FindByV_N_Req(r, d)
  BY <1>7, <1>8 DEF FindByV_N_Req
<1> QED
  BY <1>1, <1>4, <1>6, <1>9

-----------------------------------------------------------------------------
(* The parts of the invariant, one after the other.                        *)

LEMMA CertificatesFrame ==
    ASSUME TypeOK, TypeOK', CertificatesOld, StepForward,
           \A r \in Replica :
             /\ view_change_Pi'[r] \subseteq view_change_Pi[r]
             /\ view_change_Qi'[r] \subseteq view_change_Qi[r]
    PROVE  CertificatesOld'
<1>1. ASSUME NEW r \in Replica,
             NEW e \in view_change_Pi[r] \union view_change_Qi[r]
      PROVE  e.v \in Nat
  BY <1>1 DEF TypeOK, PiEntry, QiEntry
<1>2. \A r \in Replica : /\ view[r] \in Nat /\ view'[r] \in Nat
                         /\ view'[r] >= view[r]
  BY DEF TypeOK, StepForward
<1>3. ASSUME NEW r \in Replica,
             NEW e \in view_change_Pi'[r] \union view_change_Qi'[r]
      PROVE  e.v < view'[r]
  <2>1. e \in view_change_Pi[r] \union view_change_Qi[r]
    BY <1>3
  <2>2. e.v < view[r]
    BY <2>1 DEF CertificatesOld
  <2> QED
    BY <1>1, <1>2, <2>1, <2>2
<1> QED
  BY <1>3 DEF CertificatesOld

\* SEND_VIEW_CHANGE certifies what the logs and the old Qi hold, all of them
\* of the view it leaves or of earlier ones.
LEMMA NewCertificatesOld ==
    ASSUME TypeOK, LogsOfView, CertificatesOld, NEW r \in Replica
    PROVE  /\ \A s \in KnownSlots(r) : s.v \in Nat /\ s.v <= view[r]
           /\ \A e \in update_view_change_Pi(r) :
                e.v \in Nat /\ e.v <= view[r]
           /\ \A e \in update_view_change_Qi(r) :
                e.v \in Nat /\ e.v <= view[r]
<1>1. view[r] \in Nat
  BY DEF TypeOK
<1>2. \A m \in LoggedPrePrepares(r) : m.v = view[r]
  BY DEF LoggedPrePrepares, LogsOfView
<1>3. \A e \in view_change_Pi[r] \union view_change_Qi[r] :
        e.v \in Nat /\ e.v < view[r]
  BY DEF CertificatesOld, TypeOK, PiEntry, QiEntry
<1>4. \A s \in KnownSlots(r) : s.v \in Nat /\ s.v <= view[r]
  BY <1>1, <1>2, <1>3 DEF KnownSlots
<1>5. \A e \in update_view_change_Pi(r) : \E s \in KnownSlots(r) : e.v = s.v
  BY DEF update_view_change_Pi
<1>6. \A e \in update_view_change_Qi(r) :
        \E m \in LoggedPrePrepares(r) : e.v = m.v
  BY DEF update_view_change_Qi
<1> QED
  BY <1>1, <1>2, <1>4, <1>5, <1>6

LEMMA CertificatesStep ==
    ASSUME TypeOK, TypeOK', ChainInv, StepForward, CertificatesOld,
           NEW r \in Replica, ReplicaStep(r)
    PROVE  CertificatesOld'
<1>1. CASE \/ GenerateRequests(r)
           \/ SendPrePrepare(r) \/ ReceivePrePrepare(r)
           \/ SendPrepare(r) \/ ReceivePrepare(r)
           \/ SendCommit(r) \/ ReceiveCommit(r)
  <2>1. UNCHANGED certificates
    BY <1>1 DEF GenerateRequests, SendPrePrepare, ReceivePrePrepare,
         SendPrepare, ReceivePrepare, SendCommit, ReceiveCommit
  <2> QED
    BY <2>1, CertificatesFrame DEF certificates
<1>2. CASE \/ RoastInit(r) \/ RoastReceivePreSignature(r)
           \/ Execute(r) \/ RecoverView(r) \/ ReceiveViewChange(r)
           \/ SendNewView(r) \/ ReceiveNewView(r) \/ ProcessNewView(r)
  <2>1. UNCHANGED certificates
    BY <1>2 DEF RoastInit, RoastReceivePreSignature, Execute, RecoverView,
         ReceiveViewChange, SendNewView, ReceiveNewView, ProcessNewView
  <2> QED
    BY <2>1, CertificatesFrame DEF certificates
<1>3. CASE ReceiveBlock(r)
  <2>1. PICK b \in blocks : collect_garbage(b.n, r)
    BY <1>3 DEF ReceiveBlock, RECEIVE_BLOCK
  <2>2. \A s \in Replica : /\ view_change_Pi'[s] \subseteq view_change_Pi[s]
                           /\ view_change_Qi'[s] \subseteq view_change_Qi[s]
    BY <2>1 DEF collect_garbage, TypeOK
  <2> QED
    BY <2>2, CertificatesFrame
<1>4. CASE SendViewChange(r)
  <2>1. /\ view' = [view EXCEPT ![r] = view[r] + 1]
        /\ view_change_Pi' =
             [view_change_Pi EXCEPT ![r] = update_view_change_Pi(r)]
        /\ view_change_Qi' =
             [view_change_Qi EXCEPT ![r] = update_view_change_Qi(r)]
    BY <1>4 DEF SendViewChange
  <2>2. /\ view'[r] = view[r] + 1 /\ view[r] \in Nat
        /\ view_change_Pi'[r] = update_view_change_Pi(r)
        /\ view_change_Qi'[r] = update_view_change_Qi(r)
        /\ \A s \in Replica : s # r =>
             /\ view'[s] = view[s]
             /\ view_change_Pi'[s] = view_change_Pi[s]
             /\ view_change_Qi'[s] = view_change_Qi[s]
    BY <2>1 DEF TypeOK
  <2>3. \A e \in view_change_Pi'[r] \union view_change_Qi'[r] :
          e.v \in Nat /\ e.v <= view[r]
    BY <2>2, NewCertificatesOld DEF ChainInv
  <2>4. \A e \in view_change_Pi'[r] \union view_change_Qi'[r] :
          e.v < view'[r]
    BY <2>2, <2>3
  <2> QED
    BY <2>2, <2>4 DEF CertificatesOld
<1> QED
  BY <1>1, <1>2, <1>3, <1>4 DEF ReplicaStep

LEMMA LowWatermarkAfter ==
    ASSUME TypeOK', NEW r \in Replica
    PROVE  get_h(r)' \in Nat
<1> DEFINE S == {c.n : c \in checkpoint'[r]}
<1>1. checkpoint'[r] \in SUBSET Checkpoint /\ checkpoint'[r] # {}
  BY DEF TypeOK
<1>2. S \in SUBSET Nat /\ S # {}
  BY <1>1 DEF Checkpoint
<1>3. Min(S) \in S
  BY <1>2, MinIsLeast
<1> QED
  BY <1>2, <1>3 DEF get_h

LEMMA CommitsFrame ==
    ASSUME TypeOK, TypeOK', CommitsInOrder, StepForward,
           UNCHANGED msg_out_commit
    PROVE  CommitsInOrder'
<1>1. ASSUME NEW r \in Replica
      PROVE  /\ view[r] \in Nat /\ view'[r] \in Nat /\ view'[r] >= view[r]
             /\ get_h(r) \in Nat /\ get_h(r)' \in Nat /\ get_h(r)' >= get_h(r)
  BY LowWatermark, LowWatermarkAfter DEF TypeOK, StepForward
<1>2. \A c \in msg_out_commit :
        c.sender \in Replica /\ c.v \in Nat /\ c.n \in Nat
  BY DEF TypeOK, Commit
<1>3. \A c \in msg_out_commit' :
        c.v <= view'[c.sender] /\ c.n <= get_h(c.sender)' + 1
  BY <1>1, <1>2 DEF CommitsInOrder
<1> QED
  BY <1>3 DEF CommitsInOrder

LEMMA OnlySendCommit ==
    ASSUME NEW r \in Replica, ReplicaStep(r), ~SendCommit(r)
    PROVE  UNCHANGED msg_out_commit
<1>1. CASE \/ GenerateRequests(r)
           \/ SendPrePrepare(r) \/ ReceivePrePrepare(r)
           \/ SendPrepare(r) \/ ReceivePrepare(r) \/ ReceiveCommit(r)
           \/ RoastInit(r) \/ RoastReceivePreSignature(r)
  BY <1>1 DEF GenerateRequests, SendPrePrepare, ReceivePrePrepare,
       SendPrepare, ReceivePrepare, ReceiveCommit, RoastInit,
       RoastReceivePreSignature, agreementOut
<1>2. CASE \/ Execute(r) \/ ReceiveBlock(r) \/ RecoverView(r)
           \/ SendViewChange(r) \/ ReceiveViewChange(r)
           \/ SendNewView(r) \/ ReceiveNewView(r) \/ ProcessNewView(r)
  BY <1>2 DEF Execute, ReceiveBlock, RecoverView, SendViewChange,
       ReceiveViewChange, SendNewView, ReceiveNewView, ProcessNewView,
       agreementOut
<1> QED
  BY <1>1, <1>2 DEF ReplicaStep

LEMMA CommitsStep ==
    ASSUME TypeOK, TypeOK', ChainInv, StepForward, CommitsInOrder,
           NEW r \in Replica, ReplicaStep(r)
    PROVE  CommitsInOrder'
<1>1. CASE SendCommit(r)
  <2> DEFINE msg(s) == [v |-> s.v, n |-> s.n,
                        data |-> GetPreSignatureShare(s.v, s.n, r),
                        sender |-> r]
  <2>1. PICK s \in KnownSlots(r) :
          /\ pre_SEND_COMMIT(s.d, s.v, s.n, r)
          /\ msg_out_commit' = msg_out_commit \union {msg(s)}
    BY <1>1 DEF SendCommit
  <2>2. s.v \in Nat /\ s.n \in Nat
    BY KnownSlotsType DEF Slot
  <2>3. s.v = view[r] /\ s.n = get_h(r) + 1
    BY <2>1, <2>2, InWindow DEF pre_SEND_COMMIT, in_wv
  <2> PICK m : m = msg(s)
    OBVIOUS
  <2>4. m.v = view[r] /\ m.n = get_h(r) + 1 /\ m.sender = r
    BY <2>3
  <2>5. msg_out_commit' = msg_out_commit \union {m}
    BY <2>1
  <2> HIDE DEF msg
  <2>6. /\ UNCHANGED <<view, checkpoint>>
        /\ \A q \in Replica : get_h(q)' = get_h(q)
    BY <1>1, WatermarkKept DEF SendCommit
  <2>7. \A q \in Replica : view[q] \in Nat /\ get_h(q) \in Nat
    BY LowWatermark DEF TypeOK
  <2>8. \A c \in msg_out_commit :
          c.sender \in Replica /\ c.v \in Nat /\ c.n \in Nat
    BY DEF TypeOK, Commit
  <2>9. \A c \in msg_out_commit' :
          c.v <= view'[c.sender] /\ c.n <= get_h(c.sender)' + 1
    BY <2>4, <2>5, <2>6, <2>7, <2>8 DEF CommitsInOrder
  <2>10. \A c, e \in msg_out_commit' :
           c.sender = e.sender /\ c.v < e.v => c.n <= e.n
    BY <2>4, <2>5, <2>7, <2>8 DEF CommitsInOrder
  <2> QED
    BY <2>9, <2>10 DEF CommitsInOrder
<1>2. CASE ~SendCommit(r)
  BY <1>2, OnlySendCommit, CommitsFrame
<1> QED
  BY <1>1, <1>2

LEMMA ProposedKept ==
    ASSUME OutGrows, NEW b, NEW v, ProposedIn(b, v)
    PROVE  ProposedIn(b, v)'
BY DEF OutGrows, ProposedIn

LEMMA ExecutedFrame ==
    ASSUME TypeOK', OutGrows, ExecutedByQuorum, UNCHANGED blocks
    PROVE  ExecutedByQuorum'
<1> SUFFICES ASSUME NEW b \in blocks, b.tag # 0
             PROVE  \E c \in msg_out_commit' :
                      /\ ProposedIn(b, c.v)'
                      /\ Cardinality(Committers(c.v, b.n)') >= ByzantineQuorum
  BY DEF ExecutedByQuorum
<1>1. PICK c \in msg_out_commit :
        /\ ProposedIn(b, c.v)
        /\ Cardinality(Committers(c.v, b.n)) >= ByzantineQuorum
  BY DEF ExecutedByQuorum
<1>2. CommitQuorum(c.v, b.n)
  BY <1>1 DEF CommitQuorum, ByzantineQuorum, quorum
<1>3. c \in msg_out_commit' /\ CommitQuorum(c.v, b.n)'
  BY <1>2, CommitQuorumKept DEF OutGrows
<1>4. ProposedIn(b, c.v)'
  BY <1>1, ProposedKept
<1> QED
  BY <1>3, <1>4 DEF CommitQuorum, ByzantineQuorum, quorum

LEMMA OnlyExecute ==
    ASSUME NEW r \in Replica, ReplicaStep(r), ~Execute(r)
    PROVE  UNCHANGED blocks
<1>1. CASE \/ GenerateRequests(r)
           \/ SendPrePrepare(r) \/ ReceivePrePrepare(r)
           \/ SendPrepare(r) \/ ReceivePrepare(r)
           \/ SendCommit(r) \/ ReceiveCommit(r)
           \/ RoastInit(r) \/ RoastReceivePreSignature(r)
  BY <1>1 DEF GenerateRequests, SendPrePrepare, ReceivePrePrepare,
       SendPrepare, ReceivePrepare, SendCommit, ReceiveCommit, RoastInit,
       RoastReceivePreSignature
<1>2. CASE \/ ReceiveBlock(r) \/ RecoverView(r)
           \/ SendViewChange(r) \/ ReceiveViewChange(r)
           \/ SendNewView(r) \/ ReceiveNewView(r) \/ ProcessNewView(r)
  BY <1>2 DEF ReceiveBlock, RecoverView, SendViewChange, ReceiveViewChange,
       SendNewView, ReceiveNewView, ProcessNewView
<1> QED
  BY <1>1, <1>2 DEF ReplicaStep

\* What EXECUTE submits: the block of the next height, which the replica logged
\* and, if no replica committed twice, a quorum committed in its view; the
\* replica is the primary of that view.
LEMMA ExecuteSubmits ==
    ASSUME TypeOK, ChainInv, CertificatesOld, NEW r \in Replica, Execute(r)
    PROVE  \E m \in msg_log_pre_prepare[r] :
             /\ blocks' = blocks \union {m.b}
             /\ m.v = view[r] /\ primary(view[r]) = r
             /\ m.b.n = last_exec[r] + 1 /\ m.b.t = m.b.n /\ m.n = m.b.n
             /\ OneCommit => CommitQuorum(m.v, m.n)
             /\ last_exec'[r] = last_exec[r] + 1
<1>1. PICK s \in KnownSlots(r) : \E b \in FindByV_N_Req(r, s.d) :
        /\ pre_EXECUTE(s.d, s.v, s.n, b, r) /\ blocks' = blocks \union {b}
        /\ apply_EXECUTE(s.d, s.n, b, r)
  BY DEF Execute
<1>2. PICK b \in FindByV_N_Req(r, s.d) :
        /\ pre_EXECUTE(s.d, s.v, s.n, b, r) /\ blocks' = blocks \union {b}
        /\ apply_EXECUTE(s.d, s.n, b, r)
  BY <1>1
<1>3. /\ s.v = view[r] /\ (OneCommit => CommitQuorum(s.v, s.n))
      /\ LogPrepared(s.d, s.v, s.n, r)
  BY <1>2, CommittedByQuorum DEF pre_EXECUTE
<1>4. s.n = last_exec[r] + 1 /\ primary(view[r]) = r /\ last_exec[r] \in Nat
  BY <1>2, <1>3 DEF pre_EXECUTE, TypeOK
<1>5. PICK m \in msg_log_pre_prepare[r] : m.d = s.d /\ m.b = b
  BY DEF FindByV_N_Req
<1>6. m.v = view[r] /\ OnSchedule(m)
  BY DEF ChainInv, LogsOfView, ProposalsOnSchedule
<1>7. s.d = s.n
  BY KnownOnSchedule DEF ChainInv
<1>8. m.b.n = s.n /\ m.b.t = s.n /\ m.n = s.n
  BY <1>5, <1>6, <1>7 DEF OnSchedule
<1>9. last_exec'[r] = s.n
  <2>1. s.d \in msg_log_request[r]
    <3>1. PICK e \in view_change_Qi[r] \union LoggedPrePrepares(r) :
            e.d = s.d /\ e.v = s.v
      BY <1>3 DEF LogPrepared, pre_prepared
    <3>2. e \in LoggedPrePrepares(r)
      BY <1>3, <3>1 DEF CertificatesOld, TypeOK
    <3> QED
      BY <3>1, <3>2 DEF LoggedPrePrepares
  <2>2. last_rep[r] = last_exec[r]
    BY LastOnSchedule DEF ChainInv
  <2>3. s.d > last_rep[r]
    BY <1>4, <1>7, <2>2
  <2>4. last_exec' = [last_exec EXCEPT ![r] = s.n]
    BY <1>2, <2>1, <2>3 DEF apply_EXECUTE
  <2> QED
    BY <2>4 DEF TypeOK
<1> QED
  BY <1>2, <1>3, <1>4, <1>5, <1>6, <1>8, <1>9

LEMMA ExecutedStep ==
    ASSUME TypeOK, TypeOK', ChainInv, OutGrows, CertificatesOld, OneCommit,
           ExecutedByQuorum, NEW r \in Replica, ReplicaStep(r)
    PROVE  ExecutedByQuorum'
<1>1. CASE Execute(r)
  <2>1. PICK m \in msg_log_pre_prepare[r] :
          /\ blocks' = blocks \union {m.b}
          /\ m.n = m.b.n /\ CommitQuorum(m.v, m.n)
    BY <1>1, ExecuteSubmits
  <2>2. UNCHANGED <<agreementOut, viewOut>>
    BY <1>1 DEF Execute
  <2>3. ProposedIn(m.b, m.v)
    BY DEF ChainInv, LogsSent
  <2>4. PICK c \in msg_out_commit : c.v = m.v
    BY <2>1, QuorumInhabited
  <2>5. /\ ProposedIn(m.b, c.v)
        /\ Cardinality(Committers(c.v, m.b.n)) >= ByzantineQuorum
    BY <2>1, <2>3, <2>4 DEF CommitQuorum, ByzantineQuorum, quorum
  <2>6. ASSUME NEW a \in blocks', a.tag # 0
        PROVE  \E e \in msg_out_commit :
                 /\ ProposedIn(a, e.v)
                 /\ Cardinality(Committers(e.v, a.n)) >= ByzantineQuorum
    <3>1. CASE a \in blocks
      BY <2>6, <3>1 DEF ExecutedByQuorum
    <3>2. CASE a = m.b
      BY <2>5, <3>2
    <3> QED
      BY <2>1, <3>1, <3>2
  <2> QED
    BY <2>2, <2>6 DEF ExecutedByQuorum, Committers, ProposedIn,
         agreementOut, viewOut
<1>2. CASE ~Execute(r)
  BY <1>2, OnlyExecute, ExecutedFrame
<1> QED
  BY <1>1, <1>2

-----------------------------------------------------------------------------
(* ROAST.                                                                  *)

LEMMA RoastFrame ==
    ASSUME TypeOK', OutGrows, RoastBacked, NEW r \in Replica,
           view'[r] = view[r], get_h(r)' = get_h(r),
           roast_active'[r] \subseteq roast_active[r],
           msg_log_pre_prepare[r] \subseteq msg_log_pre_prepare'[r]
    PROVE  \A s \in roast_active'[r] :
             /\ s.v = view'[r] /\ s.n = get_h(r)' + 1
             /\ CommitQuorum(s.v, s.n)'
             /\ FindByV_N_Req(r, s.d)' # {}
<1> SUFFICES ASSUME NEW s \in roast_active'[r]
             PROVE  /\ s.v = view'[r] /\ s.n = get_h(r)' + 1
                    /\ CommitQuorum(s.v, s.n)'
                    /\ FindByV_N_Req(r, s.d)' # {}
  OBVIOUS
<1>1. /\ s.v = view[r] /\ s.n = get_h(r) + 1
      /\ CommitQuorum(s.v, s.n) /\ FindByV_N_Req(r, s.d) # {}
  BY DEF RoastBacked
<1> PICK v, n, d : v = s.v /\ n = s.n /\ d = s.d
  OBVIOUS
<1>2. CommitQuorum(v, n)'
  BY <1>1, CommitQuorumKept
<1>3. PICK m \in msg_log_pre_prepare[r] : m.d = d
  BY <1>1 DEF FindByV_N_Req
<1>4. FindByV_N_Req(r, d)' # {}
  BY <1>3 DEF FindByV_N_Req
<1> QED
  BY <1>1, <1>2, <1>4

LEMMA RoastFrames ==
    ASSUME TypeOK', OutGrows, RoastBacked,
           UNCHANGED <<view, checkpoint, roast_active>>,
           \A r \in Replica :
             msg_log_pre_prepare[r] \subseteq msg_log_pre_prepare'[r]
    PROVE  RoastBacked'
<1>1. \A r \in Replica : get_h(r)' = get_h(r)
  BY WatermarkKept
<1>2. ASSUME NEW r \in Replica
      PROVE  \A s \in roast_active'[r] :
               /\ s.v = view'[r] /\ s.n = get_h(r)' + 1
               /\ CommitQuorum(s.v, s.n)'
               /\ FindByV_N_Req(r, s.d)' # {}
  BY <1>1, RoastFrame
<1> QED
  BY <1>2 DEF RoastBacked

\* A view that can be recovered is later, and a quorum committed the height of
\* the replica's checkpoint in it.
LEMMA RecoverableByQuorum ==
    ASSUME TypeOK, ChainInv, NEW r \in Replica, NEW v \in RecoverableViews(r)
    PROVE  v \in Nat /\ v > view[r] /\ CommitQuorum(v, get_h(r))
<1>1. v \in Nat /\ v > view[r]
  BY DEF TypeOK, RecoverableViews, RecoveryCommit
<1> DEFINE S(k) == {x \in msg_log_commit_view_recovery[r] :
                      x.v = v /\ x.n = k}
<1>2. ASSUME NEW k
      PROVE  /\ \A x \in S(k) : x.sender \in Committers(v, k)
             /\ \A x, y \in S(k) : x.sender = y.sender => x = y
  <2>1. S(k) \in SUBSET RecoveryCommit
    BY DEF TypeOK
  <2>2. \A x \in S(k) : \E c \in msg_out_commit :
          c.v = v /\ c.n = k /\ c.sender = x.sender
    BY DEF ChainInv, LogsSent
  <2>3. \A x \in S(k) : x.sender \in Committers(v, k)
    BY <2>2 DEF Committers
  <2>4. \A x, y \in S(k) : x.sender = y.sender => x = y
    BY <2>1 DEF RecoveryCommit
  <2> QED
    BY <2>3, <2>4
<1>3. ASSUME NEW k, Cardinality(S(k)) >= quorum
      PROVE  CommitQuorum(v, k)
  <2> HIDE DEF S
  <2> QED
    BY <1>2, <1>3, QuorumOfSenders
<1>4. PICK c \in checkpoint[r] :
        Cardinality(S(c.n)) >= quorum
  BY DEF RecoverableViews
<1>5. c.n = get_h(r)
  BY DEF ChainInv, OneCheckpoint
<1>6. CommitQuorum(v, c.n)
  BY <1>3, <1>4
<1> QED
  BY <1>1, <1>5, <1>6

\* RECOVER_VIEW leaves ROAST on, but happens only while it is off: the quorum
\* that signs height h + 1 in this view and the quorum that committed height h
\* in a later one would share a replica whose heights went down.
LEMMA RecoverOutsideRoast ==
    ASSUME TypeOK, ChainInv, QuorumsIntersect, CommitsInOrder, RoastBacked,
           NEW r \in Replica, RecoverView(r)
    PROVE  roast_active[r] = {}
<1> SUFFICES ASSUME NEW s \in roast_active[r] PROVE FALSE
  OBVIOUS
<1>1. PICK v \in RecoverableViews(r) : TRUE
  BY DEF RecoverView
<1>2. v \in Nat /\ v > view[r] /\ view[r] \in Nat /\ get_h(r) \in Nat
  BY LowWatermark, RecoverableByQuorum DEF TypeOK
<1>3. CommitQuorum(v, get_h(r))
  BY RecoverableByQuorum
<1>4. CommitQuorum(view[r], get_h(r) + 1)
  BY DEF RoastBacked
<1>5. PICK c, e \in msg_out_commit :
        /\ c.sender = e.sender
        /\ c.v = view[r] /\ c.n = get_h(r) + 1
        /\ e.v = v /\ e.n = get_h(r)
  BY <1>3, <1>4, QuorumsMeet
<1>6. c.n <= e.n
  BY <1>2, <1>5 DEF CommitsInOrder
<1> QED
  BY <1>2, <1>5, <1>6

LEMMA RoastStep ==
    ASSUME TypeOK, TypeOK', ChainInv, OutGrows, QuorumsIntersect,
           CertificatesOld, CommitsInOrder, OneCommit, RoastBacked,
           NEW r \in Replica, ReplicaStep(r)
    PROVE  RoastBacked'
<1>1. CASE \/ GenerateRequests(r)
           \/ SendPrePrepare(r) \/ ReceivePrePrepare(r)
           \/ SendPrepare(r) \/ ReceivePrepare(r)
           \/ SendCommit(r) \/ ReceiveCommit(r)
  <2>1. UNCHANGED <<view, checkpoint, roast_active>>
    BY <1>1 DEF GenerateRequests, SendPrePrepare, ReceivePrePrepare,
         SendPrepare, ReceivePrepare, SendCommit, ReceiveCommit
  <2>2. \A q \in Replica :
          msg_log_pre_prepare[q] \subseteq msg_log_pre_prepare'[q]
    BY <1>1 DEF TypeOK, GenerateRequests, SendPrePrepare, ReceivePrePrepare,
         SendPrepare, ReceivePrepare, SendCommit, ReceiveCommit,
         agreementLogs
  <2> QED
    BY <2>1, <2>2, RoastFrames
<1>2. CASE \/ RoastReceivePreSignature(r) \/ Execute(r)
           \/ ReceiveViewChange(r)
           \/ SendNewView(r) \/ ReceiveNewView(r) \/ ProcessNewView(r)
  <2>1. UNCHANGED <<view, checkpoint, roast_active>>
    BY <1>2 DEF RoastReceivePreSignature, Execute, ReceiveViewChange,
         SendNewView, ReceiveNewView, ProcessNewView
  <2>2. \A q \in Replica :
          msg_log_pre_prepare[q] \subseteq msg_log_pre_prepare'[q]
    <3>1. CASE ProcessNewView(r)
      <4>1. PICK S : msg_log_pre_prepare' =
                       [msg_log_pre_prepare EXCEPT ![r] = @ \union S]
        BY <3>1 DEF ProcessNewView
      <4> QED
        BY <4>1 DEF TypeOK
    <3>2. CASE ~ProcessNewView(r)
      BY <1>2, <3>2 DEF RoastReceivePreSignature, Execute,
           ReceiveViewChange, SendNewView, ReceiveNewView, agreementLogs
    <3> QED
      BY <3>1, <3>2
  <2> QED
    BY <2>1, <2>2, RoastFrames
<1>3. CASE RoastInit(r)
  <2>1. PICK s \in KnownSlots(r) :
          /\ pre_ROAST_INIT(s.d, s.v, s.n, r)
          /\ roast_active' = [roast_active EXCEPT ![r] = {s}]
    BY <1>3 DEF RoastInit, set_roast_active
  <2>2. /\ UNCHANGED <<view, checkpoint, msg_log_pre_prepare, msg_out_commit>>
        /\ \A q \in Replica : get_h(q)' = get_h(q)
    BY <1>3, WatermarkKept DEF RoastInit, agreementLogs, agreementOut
  <2>3. /\ roast_active'[r] = {s}
        /\ \A q \in Replica : q # r => roast_active'[q] = roast_active[q]
    BY <2>1 DEF TypeOK
  <2>4. /\ s.v = view[r] /\ s.n <= get_h(r) + 1
        /\ CommitQuorum(s.v, s.n) /\ FindByV_N_Req(r, s.d) # {}
    BY <2>1, CommittedByQuorum DEF pre_ROAST_INIT
  <2>5. last_exec[r] \in Nat /\ get_h(r) \in Nat
    BY LowWatermark DEF TypeOK
  <2>6. last_exec[r] = get_h(r) \/ last_exec[r] = get_h(r) + 1
    BY LastOnSchedule DEF ChainInv
  <2>7. s.n = get_h(r) + 1
    BY <2>1, <2>4, <2>5, <2>6 DEF pre_ROAST_INIT
  <2>8. \A q \in Replica : \A x \in roast_active'[q] :
          /\ x.v = view[q] /\ x.n = get_h(q) + 1
          /\ CommitQuorum(x.v, x.n) /\ FindByV_N_Req(q, x.d) # {}
    BY <2>3, <2>4, <2>7 DEF RoastBacked
  <2> QED
    BY <2>2, <2>8 DEF RoastBacked, CommitQuorum, Committers, FindByV_N_Req
<1>4. CASE ReceiveBlock(r) \/ SendViewChange(r) \/ RecoverView(r)
  <2>1. roast_active'[r] = {}
    <3>1. CASE ReceiveBlock(r)
      BY <3>1 DEF ReceiveBlock, RECEIVE_BLOCK, collect_garbage, TypeOK
    <3>2. CASE SendViewChange(r)
      BY <3>2 DEF SendViewChange, set_roast_active, TypeOK
    <3>3. CASE RecoverView(r)
      BY <3>3, RecoverOutsideRoast DEF RecoverView
    <3> QED
      BY <1>4, <3>1, <3>2, <3>3
  <2>2. ASSUME NEW q \in Replica, q # r
        PROVE  /\ view'[q] = view[q]
               /\ checkpoint'[q] = checkpoint[q]
               /\ roast_active'[q] = roast_active[q]
               /\ msg_log_pre_prepare'[q] = msg_log_pre_prepare[q]
    <3>1. CASE ReceiveBlock(r)
      BY <2>2, <3>1 DEF ReceiveBlock, RECEIVE_BLOCK, collect_garbage, Above,
           TypeOK
    <3>2. CASE SendViewChange(r)
      BY <2>2, <3>2 DEF SendViewChange, set_roast_active, FromView,
           msg_log_clear_where_view_less_than, TypeOK
    <3>3. CASE RecoverView(r)
      BY <2>2, <3>3 DEF RecoverView, FromView,
           msg_log_clear_where_view_less_than, TypeOK
    <3> QED
      BY <1>4, <3>1, <3>2, <3>3
  <2>3. ASSUME NEW q \in Replica, q # r
        PROVE  \A s \in roast_active'[q] :
                 /\ s.v = view'[q] /\ s.n = get_h(q)' + 1
                 /\ CommitQuorum(s.v, s.n)'
                 /\ FindByV_N_Req(q, s.d)' # {}
    BY <2>2, <2>3, RoastFrame, WatermarkKept
  <2> QED
    BY <2>1, <2>3 DEF RoastBacked
<1> QED
  BY <1>1, <1>2, <1>3, <1>4 DEF ReplicaStep

-----------------------------------------------------------------------------
(* What a replica keeps while it stays in a view and at a checkpoint.      *)

\* Nothing that the certificates of replica r are made of is lost, and none of
\* its COMMITs.
CertificatesSourceKept(r) ==
    /\ msg_log_request[r] \subseteq msg_log_request'[r]
    /\ msg_log_pre_prepare[r] \subseteq msg_log_pre_prepare'[r]
    /\ msg_log_prepare[r] \subseteq msg_log_prepare'[r]
    /\ msg_log_commit[r] \subseteq msg_log_commit'[r]
    /\ view_change_Qi[r] \subseteq view_change_Qi'[r]

LEMMA LogPreparedKept ==
    ASSUME TypeOK', NEW r \in Replica, CertificatesSourceKept(r),
           NEW d, NEW v, NEW n, LogPrepared(d, v, n, r)
    PROVE  LogPrepared(d, v, n, r)'
<1>1. LoggedPrePrepares(r) \subseteq LoggedPrePrepares(r)'
  BY DEF CertificatesSourceKept, LoggedPrePrepares
<1>2. pre_prepared(d, v, n, r)'
  BY <1>1 DEF CertificatesSourceKept, LogPrepared, pre_prepared
<1> DEFINE A == Prepares(d, v, n, r)
           B == {m \in msg_log_prepare'[r] : m.v = v /\ m.n = n /\ m.d = d}
<1>3. A \in SUBSET B
  BY DEF CertificatesSourceKept, Prepares
<1>4. B \in SUBSET Prepare
  BY DEF TypeOK
<1>5. /\ \A x \in B : x.sender \in Replica
      /\ \A x, y \in B : x.sender = y.sender => x = y
  BY <1>4 DEF Prepare
<1>6. Cardinality(A) >= quorum_prepare
  BY DEF LogPrepared
<1>7. Prepares(d, v, n, r)' = B
  BY DEF Prepares
<1> HIDE DEF A, B
<1>8. IsFiniteSet(B)
  BY <1>5, OnePerSender
<1>9. IsFiniteSet(A) /\ Cardinality(A) <= Cardinality(B)
  BY <1>3, <1>8, FS_Subset
<1>10. Cardinality(A) \in Nat /\ Cardinality(B) \in Nat
  BY <1>8, <1>9, FS_CardinalityType
<1>11. Cardinality(B) >= quorum_prepare
  BY <1>6, <1>9, <1>10, QuorumPositive DEF quorum_prepare
<1> QED
  BY <1>2, <1>7, <1>11 DEF LogPrepared

\* A replica loses nothing of it unless it goes to a later view or checkpoint.
LEMMA SourceStep ==
    ASSUME TypeOK, TypeOK', ChainInv, NEW r \in Replica, ReplicaStep(r),
           NEW q \in Replica
    PROVE  \/ CertificatesSourceKept(q)
           \/ view'[q] > view[q]
           \/ get_h(q)' > get_h(q)
<1>1. CASE \/ GenerateRequests(r)
           \/ SendPrePrepare(r) \/ ReceivePrePrepare(r)
           \/ SendPrepare(r) \/ ReceivePrepare(r)
           \/ SendCommit(r) \/ ReceiveCommit(r)
  <2>1. /\ DOMAIN msg_log_request = Replica
        /\ DOMAIN msg_log_pre_prepare = Replica
        /\ DOMAIN msg_log_prepare = Replica
        /\ DOMAIN msg_log_commit = Replica
    BY DEF TypeOK
  <2>2. CASE GenerateRequests(r)
    BY <2>1, <2>2 DEF CertificatesSourceKept, GenerateRequests,
         agreementLogs, certificates
  <2>3. CASE SendPrePrepare(r) \/ ReceivePrePrepare(r)
    BY <2>1, <2>3 DEF CertificatesSourceKept, SendPrePrepare,
         ReceivePrePrepare, certificates
  <2>4. CASE SendPrepare(r) \/ ReceivePrepare(r)
    BY <2>1, <2>4 DEF CertificatesSourceKept, SendPrepare, ReceivePrepare,
         certificates
  <2>5. CASE SendCommit(r) \/ ReceiveCommit(r)
    BY <2>1, <2>5 DEF CertificatesSourceKept, SendCommit, ReceiveCommit,
         RECEIVE_COMMIT, certificates
  <2> QED
    BY <1>1, <2>2, <2>3, <2>4, <2>5
<1>2. CASE \/ RoastInit(r) \/ RoastReceivePreSignature(r) \/ Execute(r)
           \/ ReceiveViewChange(r) \/ SendNewView(r) \/ ReceiveNewView(r)
  BY <1>2 DEF CertificatesSourceKept, RoastInit,
       RoastReceivePreSignature, Execute, ReceiveViewChange, SendNewView,
       ReceiveNewView, agreementLogs, certificates
<1>3. CASE ProcessNewView(r)
  <2>1. PICK S : msg_log_pre_prepare' =
                   [msg_log_pre_prepare EXCEPT ![r] = @ \union S]
    BY <1>3 DEF ProcessNewView
  <2>2. PICK T : msg_log_prepare' = [msg_log_prepare EXCEPT ![r] = @ \union T]
    BY <1>3 DEF ProcessNewView
  <2>3. UNCHANGED <<msg_log_request, msg_log_commit, certificates>>
    BY <1>3 DEF ProcessNewView
  <2> QED
    BY <2>1, <2>2, <2>3 DEF TypeOK, CertificatesSourceKept, certificates
<1>4. CASE ReceiveBlock(r)
  <2>1. PICK b \in blocks : RECEIVE_BLOCK(b, r)
    BY <1>4 DEF ReceiveBlock
  <2>2. CASE q = r
    BY <2>1, <2>2, AfterBlock
  <2>3. CASE q # r
    BY <2>1, <2>3 DEF RECEIVE_BLOCK, collect_garbage, Above, TypeOK,
         CertificatesSourceKept
  <2> QED
    BY <2>2, <2>3
<1>5. CASE RecoverView(r)
  <2>1. PICK v \in RecoverableViews(r) :
          /\ view' = [view EXCEPT ![r] = v]
          /\ msg_log_clear_where_view_less_than(r, v)
    BY <1>5 DEF RecoverView
  <2>2. v > view[r]
    BY RecoverableByQuorum
  <2>3. UNCHANGED <<msg_log_request, certificates>>
    BY <1>5 DEF RecoverView
  <2>4. CASE q = r
    BY <2>1, <2>2, <2>4 DEF TypeOK
  <2>5. CASE q # r
    BY <2>1, <2>3, <2>5 DEF msg_log_clear_where_view_less_than, FromView,
         TypeOK, CertificatesSourceKept, certificates
  <2> QED
    BY <2>4, <2>5
<1>6. CASE SendViewChange(r)
  <2>1. /\ view' = [view EXCEPT ![r] = view[r] + 1]
        /\ view_change_Qi' =
             [view_change_Qi EXCEPT ![r] = update_view_change_Qi(r)]
        /\ msg_log_clear_where_view_less_than(r, view[r] + 1)
        /\ UNCHANGED msg_log_request
    BY <1>6 DEF SendViewChange
  <2>2. CASE q = r
    BY <2>1, <2>2 DEF TypeOK
  <2>3. CASE q # r
    BY <2>1, <2>3 DEF msg_log_clear_where_view_less_than, FromView,
         TypeOK, CertificatesSourceKept
  <2> QED
    BY <2>2, <2>3
<1> QED
  BY <1>1, <1>2, <1>3, <1>4, <1>5, <1>6 DEF ReplicaStep

LEMMA OnlySendViewChange ==
    ASSUME NEW r \in Replica, ReplicaStep(r), ~SendViewChange(r)
    PROVE  UNCHANGED msg_out_view_change
<1>1. CASE \/ GenerateRequests(r)
           \/ SendPrePrepare(r) \/ ReceivePrePrepare(r)
           \/ SendPrepare(r) \/ ReceivePrepare(r)
           \/ SendCommit(r) \/ ReceiveCommit(r)
           \/ RoastInit(r) \/ RoastReceivePreSignature(r)
  BY <1>1 DEF GenerateRequests, SendPrePrepare, ReceivePrePrepare,
       SendPrepare, ReceivePrepare, SendCommit, ReceiveCommit, RoastInit,
       RoastReceivePreSignature, viewOut
<1>2. CASE \/ Execute(r) \/ ReceiveBlock(r) \/ RecoverView(r)
           \/ ReceiveViewChange(r)
           \/ SendNewView(r) \/ ReceiveNewView(r) \/ ProcessNewView(r)
  BY <1>2 DEF Execute, ReceiveBlock, RecoverView, ReceiveViewChange,
       SendNewView, ReceiveNewView, ProcessNewView, viewOut
<1> QED
  BY <1>1, <1>2 DEF ReplicaStep

\* A COMMIT is sent for the next slot of the view, prepared by the logs.
LEMMA CommitSent ==
    ASSUME TypeOK, CertificatesOld, NEW r \in Replica, SendCommit(r),
           NEW c \in msg_out_commit' \ msg_out_commit
    PROVE  /\ c.sender = r /\ c.v = view[r] /\ c.n = get_h(r) + 1
           /\ \E d : LogPrepared(d, c.v, c.n, r)
           /\ \A e \in msg_log_commit[r] :
                ~(e.v = c.v /\ e.n = c.n /\ e.sender = r)
           /\ msg_out_commit' = msg_out_commit \union {c}
           /\ c \in msg_log_commit'[r]
           /\ UNCHANGED <<view, checkpoint>>
<1> DEFINE msg(s) == [v |-> s.v, n |-> s.n,
                      data |-> GetPreSignatureShare(s.v, s.n, r),
                      sender |-> r]
<1>1. PICK s \in KnownSlots(r) :
        /\ pre_SEND_COMMIT(s.d, s.v, s.n, r)
        /\ msg_out_commit' = msg_out_commit \union {msg(s)}
        /\ msg_log_commit' = [msg_log_commit EXCEPT ![r] = @ \union {msg(s)}]
  BY DEF SendCommit
<1>2. s.v \in Nat /\ s.n \in Nat /\ view[r] \in Nat
  BY KnownSlotsType DEF Slot, TypeOK
<1>3. s.v = view[r] /\ s.n = get_h(r) + 1
  BY <1>1, <1>2, InWindow DEF pre_SEND_COMMIT, in_wv
<1>4. c = msg(s)
  BY <1>1
<1>5. c.sender = r /\ c.v = s.v /\ c.n = s.n
  BY <1>4
<1>6. LogPrepared(s.d, s.v, s.n, r)
  BY <1>1, <1>2, <1>3 DEF pre_SEND_COMMIT, prepared, CertificatesOld
<1>7. UNCHANGED <<view, checkpoint>>
  BY DEF SendCommit
<1> HIDE DEF msg
<1>8. /\ msg_out_commit' = msg_out_commit \union {c}
      /\ c \in msg_log_commit'[r]
  BY <1>1, <1>4 DEF TypeOK
<1>9. \A e \in msg_log_commit[r] :
        ~(e.v = c.v /\ e.n = c.n /\ e.sender = r)
  BY <1>1, <1>5 DEF pre_SEND_COMMIT
<1> QED
  BY <1>3, <1>5, <1>6, <1>7, <1>8, <1>9

\* Without a restart, the slot of a new COMMIT is not among those the sender has
\* committed: its log would still show it.
LEMMA OneCommitStep ==
    ASSUME TypeOK, TypeOK', ChainInv, StepForward, CertificatesOld,
           CommitsInOrder, OneCommit, OwnCommitKept,
           NEW r \in Replica, ReplicaStep(r)
    PROVE  OneCommit' /\ OwnCommitKept'
<1>1. ASSUME NEW q \in Replica
      PROVE  /\ view[q] \in Nat /\ view'[q] \in Nat /\ view'[q] >= view[q]
             /\ get_h(q) \in Nat /\ get_h(q)' \in Nat /\ get_h(q)' >= get_h(q)
  BY LowWatermark, LowWatermarkAfter DEF TypeOK, StepForward
<1>2. \A c \in msg_out_commit :
        c.sender \in Replica /\ c.v \in Nat /\ c.n \in Nat
  BY DEF TypeOK, Commit
<1>3. ASSUME NEW c \in msg_out_commit, c.v = view'[c.sender],
             c.n > get_h(c.sender)'
      PROVE  c \in msg_log_commit'[c.sender]
  <2> PICK q : q = c.sender
    OBVIOUS
  <2>1. q \in Replica /\ c.v \in Nat /\ c.n \in Nat
    BY <1>2
  <2>2. c.v <= view[q] /\ c.n <= get_h(q) + 1
    BY DEF CommitsInOrder
  <2>3. view'[q] = view[q] /\ get_h(q)' = get_h(q)
    BY <1>1, <1>3, <2>1, <2>2
  <2>4. c \in msg_log_commit[q]
    BY <1>3, <2>3 DEF OwnCommitKept
  <2>5. \/ CertificatesSourceKept(q)
        \/ view'[q] > view[q]
        \/ get_h(q)' > get_h(q)
    BY <2>1, SourceStep
  <2>6. CertificatesSourceKept(q)
    BY <1>1, <2>1, <2>3, <2>5
  <2> QED
    BY <2>4, <2>6 DEF CertificatesSourceKept
<1>4. CASE msg_out_commit' \subseteq msg_out_commit
  BY <1>3, <1>4 DEF OneCommit, OwnCommitKept
<1>5. CASE ~(msg_out_commit' \subseteq msg_out_commit)
  <2>1. PICK c \in msg_out_commit' \ msg_out_commit : TRUE
    BY <1>5
  <2>2. SendCommit(r)
    BY <1>5, OnlySendCommit
  <2>3. /\ c.sender = r /\ c.v = view[r] /\ c.n = get_h(r) + 1
        /\ \A e \in msg_log_commit[r] :
             ~(e.v = c.v /\ e.n = c.n /\ e.sender = r)
        /\ msg_out_commit' = msg_out_commit \union {c}
        /\ c \in msg_log_commit'[r]
    BY <2>2, CommitSent
  <2>4. c.n > get_h(r)
    BY <1>1, <2>3
  <2>5. \A e \in msg_out_commit :
          ~(e.v = c.v /\ e.n = c.n /\ e.sender = c.sender)
    BY <2>3, <2>4 DEF OwnCommitKept
  <2>6. OneCommit'
    BY <2>3, <2>5 DEF OneCommit
  <2>7. OwnCommitKept'
    BY <1>3, <2>3 DEF OwnCommitKept
  <2> QED
    BY <2>6, <2>7
<1> QED
  BY <1>4, <1>5

-----------------------------------------------------------------------------
(* The invariant.                                                          *)

OrderInv == CertificatesOld /\ CommitsInOrder

QuorumInv ==
    /\ OrderInv
    /\ OneCommit
    /\ OwnCommitKept
    /\ ExecutedByQuorum
    /\ QuorumsIntersect => RoastBacked

LEMMA QuorumInit == Init => QuorumInv
<1> SUFFICES ASSUME Init PROVE QuorumInv
  OBVIOUS
<1>1. OrderInv /\ RoastBacked
  BY DEF Init, Nothing, OrderInv, CertificatesOld, CommitsInOrder, RoastBacked
<1>2. OneCommit /\ OwnCommitKept
  BY DEF Init, OneCommit, OwnCommitKept
<1>3. \A b \in blocks : b.tag = 0
  BY DEF Init, ChainBlock
<1> QED
  BY <1>1, <1>2, <1>3 DEF QuorumInv, ExecutedByQuorum

LEMMA OrderNext ==
    TypeOK /\ TypeOK' /\ ChainInv /\ OrderInv /\ [Next]_vars => OrderInv'
<1> SUFFICES ASSUME TypeOK, TypeOK', ChainInv, OrderInv, [Next]_vars
             PROVE  OrderInv'
  OBVIOUS
<1>1. StepForward
  BY ForwardNext
<1>2. CASE UNCHANGED vars
  <2>1. CertificatesOld'
    BY <1>1, <1>2, CertificatesFrame DEF OrderInv, vars, certificates
  <2>2. CommitsInOrder'
    BY <1>1, <1>2, CommitsFrame DEF OrderInv, vars, agreementOut
  <2> QED
    BY <2>1, <2>2 DEF OrderInv
<1>3. CASE Next
  <2>1. PICK r \in alive : ReplicaStep(r)
    BY <1>3, Zenon DEF Next, ReplicaStep
  <2>2. r \in Replica
    BY DEF TypeOK
  <2>3. CertificatesOld'
    BY <1>1, <2>1, <2>2, CertificatesStep DEF OrderInv
  <2>4. CommitsInOrder'
    BY <1>1, <2>1, <2>2, CommitsStep DEF OrderInv
  <2> QED
    BY <2>3, <2>4 DEF OrderInv
<1> QED
  BY <1>2, <1>3

LEMMA OrderRestartNext ==
    TypeOK /\ ChainInv /\ OrderInv /\ [RestartNext]_restartVars => OrderInv'
<1> SUFFICES ASSUME TypeOK, ChainInv, OrderInv, [RestartNext]_restartVars
             PROVE  OrderInv'
  OBVIOUS
<1>1. TypeOK'
  BY ChainRestartNext
<1>2. CASE [Next]_vars
  BY <1>1, <1>2, OrderNext
<1>3. CASE \E r \in Running : Restart(r)
  <2>1. PICK r \in Running : Restart(r)
    BY <1>3
  <2>2. r \in Replica
    BY RunningAssumption
  <2>3. StepForward
    BY <2>1, <2>2, ForwardRestart
  <2>4. UNCHANGED msg_out_commit
    BY <2>1 DEF Restart, agreementOut
  <2>5. CertificatesOld'
    BY <1>1, <2>1, <2>2, <2>3, RestartEmpties, CertificatesFrame DEF OrderInv
  <2>6. CommitsInOrder'
    BY <1>1, <2>3, <2>4, CommitsFrame DEF OrderInv
  <2> QED
    BY <2>5, <2>6 DEF OrderInv
<1>4. CASE \E r \in alive : StopInSetView(r)
  <2>1. UNCHANGED <<view, executed, checkpoint, certificates, agreementOut>>
    BY <1>4, StopOnlyLeaves
  <2>2. StepForward
    BY <2>1, ForwardFrame DEF executed
  <2>3. CertificatesOld'
    BY <1>1, <2>1, <2>2, CertificatesFrame DEF OrderInv, certificates
  <2>4. CommitsInOrder'
    BY <1>1, <2>1, <2>2, CommitsFrame DEF OrderInv, agreementOut
  <2> QED
    BY <2>3, <2>4 DEF OrderInv
<1> QED
  BY <1>2, <1>3, <1>4 DEF RestartNext, restartVars

LEMMA OrderInductive == Spec \/ RestartSpec => []OrderInv
<1>1. Init => OrderInv
  BY QuorumInit DEF QuorumInv
<1>2. Spec => []OrderInv
  BY <1>1, ChainInductive, OrderNext, PTL DEF Spec
<1>3. RestartSpec => []OrderInv
  BY <1>1, ChainInductive, OrderRestartNext, PTL DEF RestartSpec, RestartInit
<1> QED
  BY <1>2, <1>3

LEMMA QuorumNext ==
    TypeOK /\ TypeOK' /\ ChainInv /\ QuorumInv /\ [Next]_vars => QuorumInv'
<1> SUFFICES ASSUME TypeOK, TypeOK', ChainInv, QuorumInv, [Next]_vars
             PROVE  QuorumInv'
  OBVIOUS
<1>1. OrderInv' /\ StepForward
  BY OrderNext, ForwardNext DEF QuorumInv
<1>2. CASE UNCHANGED vars
  <2>1. OutGrows
    BY <1>2 DEF OutGrows, vars, agreementOut, viewOut
  <2>2. ExecutedByQuorum'
    BY <1>2, <2>1, ExecutedFrame DEF QuorumInv, vars
  <2>3. QuorumsIntersect => RoastBacked'
    BY <1>2, <2>1, RoastFrames DEF QuorumInv, vars, agreementLogs
  <2>4. OneCommit'
    BY <1>2 DEF QuorumInv, OneCommit, vars, agreementOut
  <2>5. OwnCommitKept'
    <3>1. \A q \in Replica : get_h(q)' = get_h(q)
      BY <1>2, WatermarkKept DEF vars
    <3>2. \A c \in msg_out_commit : c.sender \in Replica
      BY DEF TypeOK, Commit
    <3> QED
      BY <1>2, <3>1, <3>2 DEF QuorumInv, OwnCommitKept, vars, agreementOut,
           agreementLogs
  <2> QED
    BY <1>1, <2>2, <2>3, <2>4, <2>5 DEF QuorumInv, QuorumsIntersect
<1>3. CASE Next
  <2>1. PICK r \in alive : ReplicaStep(r)
    BY <1>3, Zenon DEF Next, ReplicaStep
  <2>2. r \in Replica
    BY DEF TypeOK
  <2>3. OutGrows
    BY <2>1, <2>2, OutNext
  <2>4. OneCommit' /\ OwnCommitKept'
    BY <1>1, <2>1, <2>2, OneCommitStep DEF QuorumInv, OrderInv
  <2>5. ExecutedByQuorum'
    BY <2>1, <2>2, <2>3, ExecutedStep DEF QuorumInv, OrderInv
  <2>6. QuorumsIntersect => RoastBacked'
    BY <2>1, <2>2, <2>3, RoastStep DEF QuorumInv, OrderInv
  <2> QED
    BY <1>1, <2>4, <2>5, <2>6 DEF QuorumInv, QuorumsIntersect
<1> QED
  BY <1>2, <1>3

LEMMA QuorumInductive == Spec => []QuorumInv
BY QuorumInit, ChainInductive, QuorumNext, PTL DEF Spec

\* In any cluster, from any start and over any number of view changes and view
\* recoveries, as long as no process restarts, EXECUTE submits a block only when
\* COMMITs for its height from 2F + 1 different replicas exist in one view, and
\* one in which this very block was proposed.  committed/4 counts rows of the
\* COMMIT table, so the proof has to show that no replica has two of them; a
\* restarted replica sends a second COMMIT with a new share and has.
THEOREM ExecutedByQuorumHolds == Spec => []ExecutedByQuorum
<1>1. QuorumInv => ExecutedByQuorum
  BY DEF QuorumInv
<1> QED
  BY <1>1, QuorumInductive, PTL

\* RECOVER_VIEW does not switch ROAST off, and yet, as long as no process
\* restarts, no replica goes on signing for a view it has left, provided two
\* quorums of 2F + 1 always meet.  In clusters of 2, 3 and 6 replicas they need
\* not, and with 2 the property fails.
THEOREM RoastInCurrentViewHolds ==
    QuorumsIntersect /\ Spec => []RoastInCurrentView
<1> SUFFICES ASSUME QuorumsIntersect
             PROVE  Spec => []RoastInCurrentView
  OBVIOUS
<1>1. QuorumInv => RoastInCurrentView
  BY DEF QuorumInv, RoastBacked, RoastInCurrentView
<1> QED
  BY <1>1, QuorumInductive, PTL

\* Of the two exceptions that FbftEngine models, the null entry of a NEW_VIEW and
\* the failed lookup of a proposal, only the first one terminates a process.
AbortInNewView ==
    \A r \in alive \ alive' :
        /\ pre_SEND_NEW_VIEW(msg_log_view_change[r], r)
        /\ null_chi(msg_log_view_change[r])

AbortsOnlyInNewView == [][AbortInNewView]_vars

LEMMA AbortStep ==
    ASSUME RoastBacked, NEW r \in Replica, ReplicaStep(r)
    PROVE  AbortInNewView
<1>1. CASE \/ GenerateRequests(r)
           \/ SendPrePrepare(r) \/ ReceivePrePrepare(r)
           \/ SendPrepare(r) \/ ReceivePrepare(r)
           \/ SendCommit(r) \/ ReceiveCommit(r)
  BY <1>1 DEF AbortInNewView, GenerateRequests, SendPrePrepare,
       ReceivePrePrepare, SendPrepare, ReceivePrepare, SendCommit,
       ReceiveCommit
<1>2. CASE \/ RoastInit(r) \/ Execute(r) \/ ReceiveBlock(r) \/ RecoverView(r)
           \/ SendViewChange(r) \/ ReceiveViewChange(r)
           \/ ReceiveNewView(r) \/ ProcessNewView(r)
  <2>1. UNCHANGED alive
    BY <1>2 DEF RoastInit, Execute, ReceiveBlock, RecoverView,
         SendViewChange, ReceiveViewChange, ReceiveNewView, ProcessNewView
  <2> QED
    BY <2>1 DEF AbortInNewView
<1>3. CASE RoastReceivePreSignature(r)
  <2>1. UNCHANGED alive
    BY <1>3 DEF RoastReceivePreSignature, RoastBacked
  <2> QED
    BY <2>1 DEF AbortInNewView
<1>4. CASE SendNewView(r)
  <2>1. /\ pre_SEND_NEW_VIEW(msg_log_view_change[r], r)
        /\ \/ null_chi(msg_log_view_change[r]) /\ alive' = alive \ {r}
           \/ UNCHANGED alive
    BY <1>4 DEF SendNewView
  <2> QED
    BY <2>1 DEF AbortInNewView
<1> QED
  BY <1>1, <1>2, <1>3, <1>4 DEF ReplicaStep

\* In a cluster whose quorums meet and in which no process restarts, the lookup
\* of the proposal to sign (FindByV_N_Req) never throws, whatever PRE_SIGNATURE
\* of whatever view comes and whatever garbage collection or view change came
\* before it: of the exceptions that FbftEngine models, only the null entry of a
\* NEW_VIEW can end a process.  FinalizeBlock and SubmitBlock, which throw too,
\* are not among them (shares that do not aggregate are the subject of Roast).
THEOREM AbortsOnlyInNewViewHolds ==
    QuorumsIntersect /\ Spec => AbortsOnlyInNewView
<1> SUFFICES ASSUME QuorumsIntersect
             PROVE  Spec => AbortsOnlyInNewView
  OBVIOUS
<1>1. TypeOK /\ QuorumInv /\ [Next]_vars => [AbortInNewView]_vars
  <2> SUFFICES ASSUME TypeOK, QuorumInv, Next PROVE AbortInNewView
    BY DEF AbortInNewView
  <2>1. PICK r \in alive : ReplicaStep(r)
    BY Zenon DEF Next, ReplicaStep
  <2> QED
    BY <2>1, AbortStep DEF TypeOK, QuorumInv
<1> QED
  BY <1>1, ChainInductive, QuorumInductive, PTL DEF Spec, AbortsOnlyInNewView

-----------------------------------------------------------------------------
(* Which views are active, and what a VIEW_CHANGE keeps.                   *)

\* View v was opened by a NEW_VIEW, or a quorum committed a height in it.
JustifiedView(v) ==
    \/ \E nv \in msg_out_new_view : nv.v = v
    \/ \E n : CommitQuorum(v, n)

LEMMA JustifiedKept ==
    ASSUME TypeOK', OutGrows, NEW v, JustifiedView(v)
    PROVE  JustifiedView(v)'
<1>1. CASE \E nv \in msg_out_new_view : nv.v = v
  BY <1>1 DEF JustifiedView, OutGrows
<1>2. CASE \E n : CommitQuorum(v, n)
  <2>1. PICK n : CommitQuorum(v, n)
    BY <1>2
  <2>2. CommitQuorum(v, n)'
    BY <2>1, CommitQuorumKept
  <2> QED
    BY <2>2 DEF JustifiedView
<1> QED
  BY <1>1, <1>2 DEF JustifiedView

ActiveJustified ==
    \A r \in Replica :
        active_view[r] /\ view[r] > StartView[r] => JustifiedView(view[r])

LEMMA JustifiedGivesActive == ActiveJustified => ActiveViewJustified
<1> SUFFICES ASSUME ActiveJustified, NEW r \in Replica,
                    active_view[r], view[r] > StartView[r],
                    ~\E nv \in msg_out_new_view : nv.v = view[r]
             PROVE  \E c \in msg_out_commit :
                      /\ c.v = view[r]
                      /\ Cardinality(Committers(c.v, c.n)) >= ByzantineQuorum
  BY DEF ActiveViewJustified
<1>1. PICK n : CommitQuorum(view[r], n)
  BY DEF ActiveJustified, JustifiedView
<1>2. PICK c \in msg_out_commit : c.v = view[r] /\ c.n = n
  BY <1>1, QuorumInhabited
<1> QED
  BY <1>1, <1>2 DEF CommitQuorum, ByzantineQuorum, quorum

LEMMA ActiveFrame ==
    ASSUME TypeOK', OutGrows, ActiveJustified,
           \A q \in Replica :
             \/ view'[q] = view[q] /\ active_view'[q] = active_view[q]
             \/ ~active_view'[q]
             \/ JustifiedView(view'[q])
    PROVE  ActiveJustified'
<1> SUFFICES ASSUME NEW q \in Replica, active_view'[q],
                    view'[q] > StartView[q]
             PROVE  JustifiedView(view[q])'
  BY DEF ActiveJustified
<1> PICK v : v = view'[q]
  OBVIOUS
<1>1. JustifiedView(v)
  BY DEF ActiveJustified
<1>2. JustifiedView(v)'
  BY <1>1, JustifiedKept
<1> QED
  BY <1>2 DEF JustifiedView

\* A replica becomes active by PROCESS_NEW_VIEW and stays so in RECOVER_VIEW.
LEMMA ActiveStep ==
    ASSUME TypeOK, TypeOK', ChainInv, OutGrows, ActiveJustified,
           NEW r \in Replica, ReplicaStep(r)
    PROVE  ActiveJustified'
<1>1. CASE \/ GenerateRequests(r)
           \/ SendPrePrepare(r) \/ ReceivePrePrepare(r)
           \/ SendPrepare(r) \/ ReceivePrepare(r)
           \/ SendCommit(r) \/ ReceiveCommit(r)
  <2>1. UNCHANGED <<view, active_view>>
    BY <1>1 DEF GenerateRequests, SendPrePrepare, ReceivePrePrepare,
         SendPrepare, ReceivePrepare, SendCommit, ReceiveCommit
  <2> QED
    BY <2>1, ActiveFrame
<1>2. CASE \/ RoastInit(r) \/ RoastReceivePreSignature(r) \/ Execute(r)
           \/ ReceiveBlock(r) \/ ReceiveViewChange(r)
           \/ SendNewView(r) \/ ReceiveNewView(r)
  <2>1. UNCHANGED <<view, active_view>>
    BY <1>2 DEF RoastInit, RoastReceivePreSignature, Execute, ReceiveBlock,
         ReceiveViewChange, SendNewView, ReceiveNewView
  <2> QED
    BY <2>1, ActiveFrame
<1>3. CASE ProcessNewView(r)
  <2>1. PICK nv \in msg_log_new_view[r] : pre_PROCESS_NEW_VIEW(nv, r)
    BY <1>3 DEF ProcessNewView
  <2>2. nv \in msg_out_new_view /\ nv.v = view[r]
    BY <2>1 DEF ChainInv, LogsSent, pre_PROCESS_NEW_VIEW, correct_new_view
  <2>3. JustifiedView(view[r])
    BY <2>2 DEF JustifiedView
  <2>4. /\ UNCHANGED view
        /\ active_view' = [active_view EXCEPT ![r] = TRUE]
    BY <1>3 DEF ProcessNewView
  <2>5. \A q \in Replica : q # r => active_view'[q] = active_view[q]
    BY <2>4 DEF TypeOK
  <2> QED
    BY <2>3, <2>4, <2>5, ActiveFrame
<1>4. CASE RecoverView(r)
  <2>1. PICK v \in RecoverableViews(r) : view' = [view EXCEPT ![r] = v]
    BY <1>4 DEF RecoverView
  <2>2. CommitQuorum(v, get_h(r))
    BY RecoverableByQuorum
  <2>3. JustifiedView(v)
    BY <2>2 DEF JustifiedView
  <2>4. UNCHANGED active_view
    BY <1>4 DEF RecoverView
  <2> QED
    BY <2>1, <2>3, <2>4, ActiveFrame DEF TypeOK
<1>5. CASE SendViewChange(r)
  <2>1. /\ view' = [view EXCEPT ![r] = view[r] + 1]
        /\ active_view' = [active_view EXCEPT ![r] = FALSE]
    BY <1>5 DEF SendViewChange
  <2> QED
    BY <2>1, ActiveFrame DEF TypeOK
<1> QED
  BY <1>1, <1>2, <1>3, <1>4, <1>5 DEF ReplicaStep

\* As long as a replica stays in the view and at the checkpoint where it sent a
\* COMMIT, its logs show the slot as prepared.
PreparedKept ==
    \A c \in msg_out_commit :
        c.v = view[c.sender] /\ c.n > get_h(c.sender)
            => \E d : LogPrepared(d, c.v, c.n, c.sender)

\* The VIEW_CHANGE by which a replica leaves a view says what the replica has
\* prepared in it, as long as that is above the checkpoint.
LeavingKeepsPrepared ==
    \A m \in msg_out_view_change, c \in msg_out_commit :
        c.sender = m.sender /\ m.v = c.v + 1 /\ c.n > m.h
            => \E p \in m.P : p.n = c.n /\ p.d = c.n /\ p.v = c.v

\* VIEW_CHANGEs and COMMITs are about views between the first and the current
\* one of their sender.
SentInViews ==
    /\ \A r \in Replica : view[r] >= StartView[r]
    /\ \A c \in msg_out_commit : c.v >= StartView[c.sender]
    /\ \A m \in msg_out_view_change :
         m.v <= view[m.sender] /\ m.v <= MaxView

LEMMA PreparedStep ==
    ASSUME TypeOK, TypeOK', ChainInv, StepForward, CertificatesOld,
           CommitsInOrder, PreparedKept, NEW r \in Replica, ReplicaStep(r)
    PROVE  PreparedKept'
<1>1. ASSUME NEW q \in Replica
      PROVE  /\ view[q] \in Nat /\ view'[q] \in Nat /\ view'[q] >= view[q]
             /\ get_h(q) \in Nat /\ get_h(q)' \in Nat /\ get_h(q)' >= get_h(q)
  BY LowWatermark, LowWatermarkAfter DEF TypeOK, StepForward
<1>2. ASSUME NEW c \in msg_out_commit', c.v = view'[c.sender],
             c.n > get_h(c.sender)'
      PROVE  \E d : LogPrepared(d, c.v, c.n, c.sender)'
  <2> PICK q, v, n : q = c.sender /\ v = c.v /\ n = c.n
    OBVIOUS
  <2>1. q \in Replica /\ v \in Nat /\ n \in Nat
    BY DEF TypeOK, Commit
  <2>2. \/ CertificatesSourceKept(q)
        \/ view'[q] > view[q]
        \/ get_h(q)' > get_h(q)
    BY <2>1, SourceStep
  <2>3. PICK d : LogPrepared(d, v, n, q) /\ CertificatesSourceKept(q)
    <3>1. CASE c \in msg_out_commit
      <4>1. v <= view[q] /\ n <= get_h(q) + 1
        BY <3>1 DEF CommitsInOrder
      <4>2. v = view'[q] /\ n > get_h(q)'
        BY <1>2
      <4>3. view'[q] = view[q] /\ get_h(q)' = get_h(q)
        BY <1>1, <2>1, <4>1, <4>2
      <4>4. CertificatesSourceKept(q)
        BY <1>1, <2>1, <2>2, <4>3
      <4> QED
        BY <3>1, <4>2, <4>3, <4>4 DEF PreparedKept
    <3>2. CASE c \notin msg_out_commit
      <4>1. SendCommit(r)
        BY <3>2, OnlySendCommit
      <4>2. q = r /\ \E d : LogPrepared(d, v, n, r)
        BY <3>2, <4>1, CommitSent
      <4>3. view'[q] = view[q] /\ get_h(q)' = get_h(q)
        BY <2>1, <3>2, <4>1, CommitSent, WatermarkKept
      <4>4. CertificatesSourceKept(q)
        BY <1>1, <2>1, <2>2, <4>3
      <4> QED
        BY <4>2, <4>4
    <3> QED
      BY <3>1, <3>2
  <2>4. LogPrepared(d, v, n, q)'
    BY <2>1, <2>3, LogPreparedKept
  <2> QED
    BY <2>4
<1> QED
  BY <1>2 DEF PreparedKept

\* The entry of P for what the logs show as prepared in the current view.
LEMMA PreparedInPi ==
    ASSUME TypeOK, ChainInv, CertificatesOld, NEW r \in Replica,
           NEW d, NEW n, LogPrepared(d, view[r], n, r)
    PROVE  \E p \in update_view_change_Pi(r) :
             p.n = n /\ p.d = n /\ p.v = view[r]
<1> PICK v : v = view[r]
  OBVIOUS
<1>1. v \in Nat
  BY DEF TypeOK
<1>2. PICK e \in view_change_Qi[r] \union LoggedPrePrepares(r) :
        e.n = n /\ e.d = d /\ e.v = v
  BY DEF LogPrepared, pre_prepared
<1> PICK s : s = [v |-> v, n |-> n, d |-> d]
  OBVIOUS
<1>3. s \in KnownSlots(r)
  BY <1>2 DEF KnownSlots
<1>4. s.v = v /\ s.n = n /\ s.d = d
  OBVIOUS
<1>5. d = n
  BY <1>3, <1>4, KnownOnSchedule DEF ChainInv
<1>6. \A y \in KnownSlots(r) : y.v \in Nat /\ y.v <= v
  BY NewCertificatesOld DEF ChainInv
<1>7. \A y \in KnownSlots(r) : ~(y.v > s.v)
  BY <1>1, <1>4, <1>6
<1>8. LogPrepared(s.d, s.v, s.n, r)
  BY <1>4
<1>9. [n |-> s.n, d |-> s.d, v |-> s.v] \in update_view_change_Pi(r)
  BY <1>3, <1>7, <1>8 DEF update_view_change_Pi
<1> PICK p : p = [n |-> s.n, d |-> s.d, v |-> s.v]
  OBVIOUS
<1>10. p.n = s.n /\ p.d = s.d /\ p.v = s.v
  OBVIOUS
<1> QED
  BY <1>4, <1>5, <1>9, <1>10

LEMMA ViewChangeSent ==
    ASSUME TypeOK, ChainInv, CertificatesOld, PreparedKept,
           NEW r \in Replica, SendViewChange(r),
           NEW m \in msg_out_view_change' \ msg_out_view_change
    PROVE  /\ m.sender = r /\ m.v = view[r] + 1 /\ m.h = get_h(r)
           /\ m.P = update_view_change_Pi(r)
           /\ view'[r] = view[r] + 1 /\ view[r] < MaxView
           /\ UNCHANGED msg_out_commit
<1> DEFINE vc(c) == [v |-> view[r] + 1, h |-> get_h(r), c |-> c.val,
                     P |-> update_view_change_Pi(r),
                     Q |-> update_view_change_Qi(r), sender |-> r]
<1>1. PICK c \in checkpoint[r] :
        msg_out_view_change' = msg_out_view_change \union {vc(c)}
  BY DEF SendViewChange
<1>2. /\ view' = [view EXCEPT ![r] = view[r] + 1] /\ view[r] < MaxView
      /\ UNCHANGED msg_out_commit
  BY DEF SendViewChange, agreementOut
<1>3. m = vc(c)
  BY <1>1
<1>4. /\ m.sender = r /\ m.v = view[r] + 1 /\ m.h = get_h(r)
      /\ m.P = update_view_change_Pi(r)
  BY <1>3
<1>5. view'[r] = view[r] + 1
  BY <1>2 DEF TypeOK
<1> QED
  BY <1>2, <1>4, <1>5

LEMMA SentStep ==
    ASSUME TypeOK, TypeOK', ChainInv, StepForward, CertificatesOld,
           PreparedKept, SentInViews, NEW r \in Replica, ReplicaStep(r)
    PROVE  SentInViews'
<1>1. \A q \in Replica : /\ view[q] \in Nat /\ view'[q] \in Nat
                         /\ view'[q] >= view[q] /\ StartView[q] \in Nat
  BY StartViewAssumption DEF TypeOK, StepForward
<1>2. \A q \in Replica : view'[q] >= StartView[q]
  BY <1>1 DEF SentInViews
<1>3. ASSUME NEW c \in msg_out_commit'
      PROVE  c.v >= StartView[c.sender]
  <2>1. CASE c \in msg_out_commit
    BY <2>1 DEF SentInViews
  <2>2. CASE c \notin msg_out_commit
    <3>1. c.sender = r /\ c.v = view[r]
      BY <2>2, OnlySendCommit, CommitSent
    <3> QED
      BY <3>1 DEF SentInViews
  <2> QED
    BY <2>1, <2>2
<1>4. ASSUME NEW m \in msg_out_view_change'
      PROVE  m.v <= view'[m.sender] /\ m.v <= MaxView
  <2>1. m.v \in Nat /\ m.sender \in Replica
    BY DEF TypeOK, ViewChange
  <2>2. CASE m \in msg_out_view_change
    <3>1. m.v <= view[m.sender] /\ m.v <= MaxView
      BY <2>2 DEF SentInViews
    <3> QED
      BY <1>1, <2>1, <3>1
  <2>3. CASE m \notin msg_out_view_change
    <3>1. /\ m.sender = r /\ m.v = view[r] + 1
          /\ view'[r] = view[r] + 1 /\ view[r] < MaxView
      BY <2>3, OnlySendViewChange, ViewChangeSent
    <3> QED
      BY <1>1, <3>1, BoundsAssumption
  <2> QED
    BY <2>2, <2>3
<1> QED
  BY <1>2, <1>3, <1>4 DEF SentInViews

LEMMA LeavingStep ==
    ASSUME TypeOK, TypeOK', ChainInv, StepForward, CertificatesOld,
           PreparedKept, SentInViews, LeavingKeepsPrepared,
           NEW r \in Replica, ReplicaStep(r)
    PROVE  LeavingKeepsPrepared'
<1> SUFFICES ASSUME NEW m \in msg_out_view_change', NEW c \in msg_out_commit',
                    c.sender = m.sender, m.v = c.v + 1, c.n > m.h
             PROVE  \E p \in m.P : p.n = c.n /\ p.d = c.n /\ p.v = c.v
  BY DEF LeavingKeepsPrepared
<1>1. /\ view[r] \in Nat /\ c.v \in Nat /\ m.v \in Nat
  BY DEF TypeOK, Commit, ViewChange
<1>2. CASE m \notin msg_out_view_change
  <2>1. /\ m.sender = r /\ m.v = view[r] + 1 /\ m.h = get_h(r)
        /\ m.P = update_view_change_Pi(r)
        /\ UNCHANGED msg_out_commit
    BY <1>2, OnlySendViewChange, ViewChangeSent
  <2>2. c \in msg_out_commit /\ c.v = view[r] /\ c.sender = r
        /\ c.n > get_h(r)
    BY <1>1, <2>1
  <2>3. PICK d : LogPrepared(d, view[r], c.n, r)
    BY <2>2 DEF PreparedKept
  <2> QED
    BY <2>1, <2>2, <2>3, PreparedInPi
<1>3. CASE m \in msg_out_view_change /\ c \notin msg_out_commit
  <2>1. c.sender = r /\ c.v = view[r]
    BY <1>3, OnlySendCommit, CommitSent
  <2>2. m.v <= view[r]
    BY <1>3, <2>1 DEF SentInViews
  <2> QED
    BY <1>1, <2>1, <2>2
<1>4. CASE m \in msg_out_view_change /\ c \in msg_out_commit
  BY <1>4 DEF LeavingKeepsPrepared
<1> QED
  BY <1>2, <1>3, <1>4

LeavingInv ==
    ActiveJustified /\ PreparedKept /\ SentInViews /\ LeavingKeepsPrepared

LEMMA LeavingInit == Init => LeavingInv
<1> SUFFICES ASSUME Init PROVE LeavingInv
  OBVIOUS
<1>1. \A r \in Replica : view[r] = StartView[r] /\ StartView[r] \in Nat
  BY StartViewAssumption DEF Init
<1>2. msg_out_commit = {} /\ msg_out_view_change = {}
  BY DEF Init
<1> QED
  BY <1>1, <1>2 DEF LeavingInv, ActiveJustified, PreparedKept, SentInViews,
       LeavingKeepsPrepared

LEMMA LeavingNext ==
    TypeOK /\ TypeOK' /\ ChainInv /\ QuorumInv /\ LeavingInv /\ [Next]_vars
        => LeavingInv'
<1> SUFFICES ASSUME TypeOK, TypeOK', ChainInv, QuorumInv, LeavingInv,
                    [Next]_vars
             PROVE  LeavingInv'
  OBVIOUS
<1>1. CASE UNCHANGED vars
  <2>1. \A r \in Replica : get_h(r)' = get_h(r)
    BY <1>1, WatermarkKept DEF vars
  <2>2. ActiveJustified'
    BY <1>1 DEF LeavingInv, ActiveJustified, JustifiedView, CommitQuorum,
         Committers, vars, agreementOut, viewOut
  <2>3. PreparedKept'
    <3>1. \A d, v, n : \A r \in Replica :
            LogPrepared(d, v, n, r) => LogPrepared(d, v, n, r)'
      BY <1>1 DEF LogPrepared, pre_prepared, LoggedPrePrepares, Prepares,
           vars, agreementLogs, certificates
    <3>2. \A c \in msg_out_commit : c.sender \in Replica
      BY DEF TypeOK, Commit
    <3> QED
      BY <1>1, <2>1, <3>1, <3>2 DEF LeavingInv, PreparedKept, vars,
           agreementOut
  <2>4. SentInViews' /\ LeavingKeepsPrepared'
    BY <1>1 DEF LeavingInv, SentInViews, LeavingKeepsPrepared, vars,
         agreementOut, viewOut
  <2> QED
    BY <2>2, <2>3, <2>4 DEF LeavingInv
<1>2. CASE Next
  <2>1. PICK r \in alive : ReplicaStep(r)
    BY <1>2, Zenon DEF Next, ReplicaStep
  <2>2. r \in Replica /\ StepForward
    BY ForwardNext DEF TypeOK
  <2>3. OutGrows
    BY <2>1, <2>2, OutNext
  <2>4. ActiveJustified'
    BY <2>1, <2>2, <2>3, ActiveStep DEF LeavingInv
  <2>5. PreparedKept'
    BY <2>1, <2>2, PreparedStep DEF LeavingInv, QuorumInv, OrderInv
  <2>6. SentInViews'
    BY <2>1, <2>2, SentStep DEF LeavingInv, QuorumInv, OrderInv
  <2>7. LeavingKeepsPrepared'
    BY <2>1, <2>2, LeavingStep DEF LeavingInv, QuorumInv, OrderInv
  <2> QED
    BY <2>4, <2>5, <2>6, <2>7 DEF LeavingInv
<1> QED
  BY <1>1, <1>2

LEMMA LeavingInductive ==
    Spec => [](TypeOK /\ LeavingInv)
BY LeavingInit, ChainInductive, QuorumInductive, LeavingNext, PTL DEF Spec

\* As long as no process restarts, a replica is active in a view it entered only
\* behind a NEW_VIEW for that view (PROCESS_NEW_VIEW) or behind 2F + 1 COMMITs
\* for one height of it (RECOVER_VIEW), in any cluster and from any start.
THEOREM ActiveViewJustifiedHolds == Spec => []ActiveViewJustified
<1>1. LeavingInv => ActiveViewJustified
  BY JustifiedGivesActive DEF LeavingInv
<1> QED
  BY <1>1, LeavingInductive, PTL

\* The VIEW_CHANGE by which a replica leaves a view has an entry in P for every
\* slot above its checkpoint for which it sent a COMMIT in that view, with the
\* request and the view of the COMMIT: update_view_change_Pi works on the logs
\* before they are cleared.
THEOREM LeavingKeepsPreparedHolds == Spec => []LeavingKeepsPrepared
<1>1. LeavingInv => LeavingKeepsPrepared
  BY DEF LeavingInv
<1> QED
  BY <1>1, LeavingInductive, PTL

\* No replica can change view more than once.
OneViewChange == \A r \in Replica : MaxView <= StartView[r] + 1

\* When replicas change view at most once, no VIEW_CHANGE forgets what its
\* sender has prepared.  With a second one it can (Pi is retracted and computed
\* from the logs only), so the hypothesis cannot be dropped.
THEOREM ViewChangeKeepsPreparedHolds ==
    OneViewChange /\ Spec => []ViewChangeKeepsPrepared
<1> SUFFICES ASSUME OneViewChange PROVE Spec => []ViewChangeKeepsPrepared
  OBVIOUS
<1>1. TypeOK /\ LeavingInv => ViewChangeKeepsPrepared
  <2> SUFFICES ASSUME TypeOK, LeavingInv, NEW m \in msg_out_view_change,
                      NEW c \in msg_out_commit,
                      c.sender = m.sender, c.v < m.v, c.n > m.h
               PROVE  \E p \in m.P : p.n = c.n
    BY DEF ViewChangeKeepsPrepared
  <2>1. /\ c.v \in Nat /\ m.v \in Nat /\ c.sender \in Replica
        /\ StartView[c.sender] \in Nat
    BY StartViewAssumption DEF TypeOK, Commit, ViewChange
  <2>2. c.v >= StartView[c.sender] /\ m.v <= MaxView
    BY DEF LeavingInv, SentInViews
  <2>3. MaxView <= StartView[c.sender] + 1
    BY <2>1 DEF OneViewChange
  <2>4. m.v = c.v + 1
    BY <2>1, <2>2, <2>3, BoundsAssumption
  <2> QED
    BY <2>4 DEF LeavingInv, LeavingKeepsPrepared
<1> QED
  BY <1>1, LeavingInductive, PTL
=============================================================================
