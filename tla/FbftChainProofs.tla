--------------------------- MODULE FbftChainProofs ----------------------------
(***************************************************************************)
(* The chain and the state of the replicas, for every cluster, every start  *)
(* and any number of view changes and restarts: the chain keeps its         *)
(* schedule, each replica's state is on it, and no step takes a replica     *)
(* back.  The invariant says what a replica can have in its logs at a       *)
(* height and a view.                                                       *)
(***************************************************************************)
EXTENDS FbftRestart, FbftEngineProofs

\* The logs of the agreement hold messages of the replica's view only, and
\* COMMITs not above the next height.  What a replica proposed itself is not
\* above its sequence number.
LogsOfView ==
    \A r \in Replica :
        /\ \A m \in msg_log_pre_prepare[r] :
             m.v = view[r] /\ (m.sender = r => m.n <= seqno[r])
        /\ \A m \in msg_log_prepare[r] : m.v = view[r]
        /\ \A m \in msg_log_commit[r] :
             m.v = view[r] /\ m.n <= get_h(r) + 1

\* What is logged was sent: a PRE_PREPARE as such or in a NEW_VIEW.
LogsSent ==
    \A r \in Replica :
        /\ \A m \in msg_log_pre_prepare[r] : ProposedIn(m.b, m.v)
        /\ msg_log_commit[r] \subseteq msg_out_commit
        /\ \A e \in msg_log_commit_view_recovery[r] :
             \E c \in msg_out_commit :
                 c.v = e.v /\ c.n = e.n /\ c.sender = e.sender
        /\ msg_log_view_change[r] \subseteq msg_out_view_change
        /\ msg_log_new_view[r] \subseteq msg_out_new_view

\* A proposal for height n is for the request and the block of period n.
OnSchedule(e) == e.d = e.n /\ e.b.n = e.n /\ e.b.t = e.n

ProposalsOnSchedule ==
    /\ \A m \in msg_out_pre_prepare : OnSchedule(m)
    /\ \A m \in msg_out_view_change : \A e \in m.Q : OnSchedule(e)
    /\ \A nv \in msg_out_new_view : \A e \in nv.Chi : OnSchedule(e)
    /\ \A r \in Replica :
         /\ \A m \in msg_log_pre_prepare[r] : OnSchedule(m)
         /\ \A e \in view_change_Qi[r] : OnSchedule(e)
         /\ \A e \in view_change_Pi[r] : e.d = e.n

\* The requests of the log follow the checkpoint without a gap, and the last
\* executed one is among them until its block arrives.
RequestsFollow ==
    \A r \in Replica :
        /\ last_rep[r] = get_h(r) \/ last_rep[r] \in msg_log_request[r]
        /\ \A t \in msg_log_request[r] :
             /\ t > get_h(r)
             /\ \A u \in get_h(r) + 1 .. t : u \in msg_log_request[r]

\* All checkpoints of a replica are for one height.
OneCheckpoint ==
    \A r \in Replica : \A c \in checkpoint[r] : c.n = get_h(r)

ChainInv ==
    /\ LogsOfView
    /\ LogsSent
    /\ ProposalsOnSchedule
    /\ RequestsFollow
    /\ OneCheckpoint
    /\ ChainOnSchedule
    /\ StateOnChain

-----------------------------------------------------------------------------
(* Operators of the model.                                                 *)

\* The low watermark of checkpoints that are all for height n is n.
LEMMA WatermarkOf ==
    ASSUME NEW C \in SUBSET Checkpoint, C # {}, NEW n,
           \A c \in C : c.n = n
    PROVE  Min({c.n : c \in C}) = n
<1> DEFINE S == {c.n : c \in C}
<1>1. S \in SUBSET Nat /\ S # {}
  BY DEF Checkpoint
<1>2. Min(S) \in S
  BY <1>1, MinIsLeast
<1> QED
  BY <1>2

LEMMA WatermarkKept ==
    ASSUME NEW r \in Replica, checkpoint'[r] = checkpoint[r]
    PROVE  get_h(r)' = get_h(r)
BY DEF get_h

\* The window of a replica is the next height (in_w/2).
LEMMA InWindow ==
    ASSUME TypeOK, NEW r \in Replica, NEW n \in Nat, in_w(n, r)
    PROVE  n = get_h(r) + 1
BY LowWatermark DEF in_w, RequestBufferLen

LEMMA QuorumPositive == F \in Nat /\ quorum \in Nat /\ quorum >= 1
BY ClusterSizeAssumption DEF quorum, F

\* A slot that a replica can have prepared is on schedule.
LEMMA KnownOnSchedule ==
    ASSUME TypeOK, ProposalsOnSchedule, NEW r \in Replica,
           NEW s \in KnownSlots(r)
    PROVE  s.d = s.n
<1> PICK e \in view_change_Pi[r] \union view_change_Qi[r]
                 \union LoggedPrePrepares(r) : s.d = e.d /\ s.n = e.n
  BY DEF KnownSlots
<1> QED
  BY DEF ProposalsOnSchedule, OnSchedule, LoggedPrePrepares

\* The block that FindByV_N_Req returns is the scheduled one.
LEMMA FoundOnSchedule ==
    ASSUME TypeOK, ProposalsOnSchedule, NEW r \in Replica, NEW d,
           NEW b \in FindByV_N_Req(r, d)
    PROVE  b \in Block /\ b.n = d /\ b.t = d
<1> PICK m \in msg_log_pre_prepare[r] : m.d = d /\ b = m.b
  BY DEF FindByV_N_Req
<1>1. OnSchedule(m)
  BY DEF ProposalsOnSchedule
<1> QED
  BY <1>1 DEF OnSchedule, TypeOK, PrePrepare

\* A slot is committed only in the replica's view, and not above the next
\* height (committed/4).
LEMMA CommittedSlot ==
    ASSUME TypeOK, LogsOfView, NEW r \in Replica, NEW d, NEW v, NEW n,
           committed(d, v, n, r)
    PROVE  /\ v = view[r] /\ n <= get_h(r) + 1
           /\ \E m \in msg_log_commit[r] : m.v = v /\ m.n = n
<1>1. Cardinality(Commits(v, n, r)) >= quorum
  BY DEF committed
<1>2. Commits(v, n, r) # {}
  BY <1>1, FS_EmptySet, QuorumPositive
<1> QED
  BY <1>2 DEF Commits, LogsOfView

\* Time and height of what a replica executed last are the same.
LEMMA LastOnSchedule ==
    ASSUME TypeOK, ChainOnSchedule, StateOnChain, NEW r \in Replica
    PROVE  /\ last_rep[r] = last_exec[r]
           /\ last_exec[r] = get_h(r) \/ last_exec[r] = get_h(r) + 1
<1>1. get_h(r) \in Nat /\ last_exec[r] \in Nat /\ last_rep[r] \in Nat
  BY LowWatermark DEF TypeOK
<1> QED
  BY <1>1 DEF ChainOnSchedule, StateOnChain

-----------------------------------------------------------------------------
(* What each part of the invariant rests on.                               *)

LEMMA LogsOfViewFrame ==
    ASSUME LogsOfView, UNCHANGED <<view, seqno, agreementLogs, checkpoint>>
    PROVE  LogsOfView'
BY DEF LogsOfView, agreementLogs, get_h

LEMMA LogsSentFrame ==
    ASSUME LogsSent, UNCHANGED <<msg_log_pre_prepare, msg_log_commit>>,
           UNCHANGED viewLogs,
           msg_out_pre_prepare \subseteq msg_out_pre_prepare',
           msg_out_commit \subseteq msg_out_commit',
           msg_out_view_change \subseteq msg_out_view_change',
           msg_out_new_view \subseteq msg_out_new_view'
    PROVE  LogsSent'
<1>1. \A b, v : ProposedIn(b, v) => ProposedIn(b, v)'
  BY DEF ProposedIn
<1> QED
  BY <1>1 DEF LogsSent, viewLogs

LEMMA ScheduleFrame ==
    ASSUME ProposalsOnSchedule,
           UNCHANGED <<msg_log_pre_prepare, certificates,
                       msg_out_pre_prepare, viewOut>>
    PROVE  ProposalsOnSchedule'
BY DEF ProposalsOnSchedule, OnSchedule, certificates, viewOut

LEMMA RequestsFrame ==
    ASSUME RequestsFollow, UNCHANGED <<msg_log_request, checkpoint, last_rep>>
    PROVE  RequestsFollow'
BY DEF RequestsFollow, get_h

LEMMA ChainFrame ==
    ASSUME OneCheckpoint, ChainOnSchedule, StateOnChain,
           UNCHANGED <<executed, checkpoint, blocks>>
    PROVE  OneCheckpoint' /\ ChainOnSchedule' /\ StateOnChain'
BY DEF OneCheckpoint, ChainOnSchedule, StateOnChain, executed, get_h

-----------------------------------------------------------------------------
(* One lemma per action.                                                   *)

LEMMA ChainInit == Init => ChainInv
<1> SUFFICES ASSUME Init PROVE ChainInv
  OBVIOUS
<1> DEFINE cp(r) == [n |-> StartHeight[r], val |-> ChainBlock(StartHeight[r]),
                     t |-> StartHeight[r]]
<1>1. \A r \in Replica :
        /\ StartHeight[r] \in Nat
        /\ checkpoint[r] = {cp(r)}
        /\ cp(r) \in Checkpoint /\ cp(r).n = StartHeight[r]
        /\ cp(r).val = ChainBlock(StartHeight[r])
        /\ last_rep[r] = StartHeight[r] /\ last_exec[r] = StartHeight[r]
        /\ val[r] = ChainBlock(StartHeight[r])
  BY StartHeightAssumption DEF Init, Checkpoint, ChainBlock, Block
<1> HIDE DEF cp
<1>2. ASSUME NEW r \in Replica PROVE get_h(r) = StartHeight[r]
  <2>1. /\ checkpoint[r] \in SUBSET Checkpoint /\ checkpoint[r] # {}
        /\ \A c \in checkpoint[r] : c.n = StartHeight[r]
    BY <1>1
  <2> QED
    BY <2>1, WatermarkOf DEF get_h
<1>3. blocks = {ChainBlock(n) : n \in UNION {0 .. StartHeight[r] :
                                                r \in Replica}}
  BY DEF Init
<1>4. LogsOfView /\ LogsSent /\ ProposalsOnSchedule
  BY DEF Init, Nothing, LogsOfView, LogsSent, ProposalsOnSchedule
<1>5. RequestsFollow
  <2>1. \A r \in Replica :
          msg_log_request[r] = {t \in StartHeight[r] + 1 .. MaxRequest :
                                 t <= StartHeight[r] + MaxNumGeneratedRequests}
    BY DEF Init, InitialRequests
  <2> QED
    BY <1>1, <1>2, <2>1, BoundsAssumption, HorizonAssumption
       DEF RequestsFollow
<1>6. OneCheckpoint
  BY <1>1, <1>2 DEF OneCheckpoint
<1>7. ChainOnSchedule
  <2> SUFFICES ASSUME NEW r \in Replica, NEW n \in 0 .. StartHeight[r]
               PROVE  /\ ChainBlock(n).t = ChainBlock(n).n
                      /\ ChainBlock(n).n > 0 =>
                           \E a \in blocks : a.n = ChainBlock(n).n - 1
    BY <1>3 DEF ChainOnSchedule
  <2>1. n > 0 => n - 1 \in 0 .. StartHeight[r]
    BY <1>1
  <2>2. n > 0 => ChainBlock(n - 1) \in blocks
    BY <1>3, <2>1
  <2> QED
    BY <2>2 DEF ChainBlock
<1>8. StateOnChain
  <2>1. \A r \in Replica : ChainBlock(StartHeight[r]) \in blocks
    BY <1>1, <1>3
  <2>2. \A n : ChainBlock(n).n = n /\ ChainBlock(n).t = n
    BY DEF ChainBlock
  <2>3. \A r \in Replica : last_exec[r] - get_h(r) = 0
    BY <1>1, <1>2
  <2> QED
    BY <1>1, <2>1, <2>2, <2>3 DEF StateOnChain
<1> QED
  BY <1>4, <1>5, <1>6, <1>7, <1>8 DEF ChainInv

LEMMA ChainGenerateRequests ==
    ASSUME TypeOK, ChainInv, NEW r \in Replica, GenerateRequests(r)
    PROVE  ChainInv'
<1> PICK t \in RequestTimes(r) :
      /\ get_latest_request_time(r, t)
      /\ msg_log_request' = [msg_log_request EXCEPT ![r] = @ \union {t + 1}]
  BY DEF GenerateRequests
<1>1. UNCHANGED <<view, seqno, executed, checkpoint, agreementLogs, viewLogs,
                  certificates, agreementOut, viewOut, blocks>>
  BY DEF GenerateRequests
<1>2. get_h(r) \in Nat /\ last_rep[r] \in Nat /\ msg_log_request[r] \subseteq Nat
  BY LowWatermark DEF TypeOK
<1>3. last_rep[r] = get_h(r) \/ last_rep[r] = get_h(r) + 1
  BY LastOnSchedule DEF ChainInv
<1>4. RequestsFollow'
  <2>1. \A s \in Replica : get_h(s)' = get_h(s)
    BY <1>1, WatermarkKept
  <2>2. \A s \in Replica : s # r => msg_log_request'[s] = msg_log_request[s]
    BY DEF TypeOK
  <2>3. msg_log_request'[r] = msg_log_request[r] \union {t + 1}
    BY DEF TypeOK
  <2>4. t \in Nat /\ t >= get_h(r)
    BY <1>2, <1>3 DEF RequestTimes, ChainInv, RequestsFollow
  <2>5. \A u \in get_h(r) + 1 .. t : u \in msg_log_request[r]
    BY <1>2, <1>3 DEF RequestTimes, ChainInv, RequestsFollow
  <2>6. \A u \in get_h(r) + 1 .. t + 1 : u \in msg_log_request'[r]
    BY <1>2, <2>3, <2>4, <2>5
  <2> QED
    BY <1>1, <1>2, <2>1, <2>2, <2>3, <2>4, <2>6
       DEF ChainInv, RequestsFollow, executed
<1> QED
  BY <1>1, <1>4, LogsOfViewFrame, LogsSentFrame, ScheduleFrame, ChainFrame
     DEF ChainInv, agreementLogs, agreementOut, viewOut

\* The least request that the primary has not proposed is the one of the next
\* height: an earlier proposal of its own for it would be in the log with a
\* height up to its sequence number.
LEMMA NextRequestProposed ==
    ASSUME TypeOK, ChainInv, NEW r \in Replica, NEW d,
           pre_SEND_PRE_PREPARE(d, view[r], seqno[r] + 1, r)
    PROVE  d = seqno[r] + 1
<1> DEFINE n == seqno[r] + 1
<1>1. seqno[r] \in Nat /\ n \in Nat /\ get_h(r) \in Nat
      /\ msg_log_request[r] \subseteq Nat
  BY LowWatermark DEF TypeOK
<1>2. n = get_h(r) + 1
  BY <1>1, InWindow DEF pre_SEND_PRE_PREPARE, in_wv
<1>3. d \in Unproposed(r) /\ \A t \in Unproposed(r) : d <= t
  BY DEF pre_SEND_PRE_PREPARE
<1>4. d \in msg_log_request[r] /\ d \in Nat
  BY <1>1, <1>3 DEF Unproposed
<1>5. n \in msg_log_request[r] /\ d >= n
  BY <1>1, <1>2, <1>4 DEF ChainInv, RequestsFollow
<1>6. n \in Unproposed(r)
  <2> SUFFICES ASSUME NEW m \in msg_log_pre_prepare[r], m.d = n, m.sender = r
               PROVE  FALSE
    BY <1>5 DEF Unproposed
  <2>1. m.n = n
    BY DEF ChainInv, ProposalsOnSchedule, OnSchedule
  <2>2. m.n <= seqno[r]
    BY DEF ChainInv, LogsOfView
  <2> QED
    BY <1>1, <2>1, <2>2
<1> QED
  BY <1>1, <1>3, <1>4, <1>5, <1>6

LEMMA ChainSendPrePrepare ==
    ASSUME TypeOK, ChainInv, NEW r \in Replica, SendPrePrepare(r)
    PROVE  ChainInv'
<1> DEFINE n == seqno[r] + 1
           blk(d, tag) == [n |-> n, t |-> d, v |-> view[r], tag |-> tag]
           msg(d, tag) == [v |-> view[r], n |-> n, d |-> d, b |-> blk(d, tag),
                           sender |-> r]
<1> PICK d \in msg_log_request[r], tag \in Tags :
      /\ pre_SEND_PRE_PREPARE(d, view[r], n, r)
      /\ seqno' = [seqno EXCEPT ![r] = n]
      /\ msg_out_pre_prepare' = msg_out_pre_prepare \union {msg(d, tag)}
      /\ msg_log_pre_prepare' =
           [msg_log_pre_prepare EXCEPT ![r] = @ \union {msg(d, tag)}]
  BY DEF SendPrePrepare
<1>1. UNCHANGED <<view, executed, checkpoint, msg_log_request,
                  msg_log_prepare, msg_log_commit, viewLogs, certificates,
                  msg_out_commit, viewOut, blocks>>
  BY DEF SendPrePrepare
<1>2. d = n /\ seqno[r] \in Nat
  BY NextRequestProposed DEF TypeOK
<1> PICK m : m = msg(d, tag)
  OBVIOUS
<1>3. /\ m.v = view[r] /\ m.n = n /\ m.sender = r
      /\ OnSchedule(m)
  BY <1>2 DEF OnSchedule
<1>4. /\ msg_out_pre_prepare' = msg_out_pre_prepare \union {m}
      /\ msg_log_pre_prepare'[r] = msg_log_pre_prepare[r] \union {m}
      /\ seqno'[r] = n
      /\ \A s \in Replica : s # r =>
           /\ msg_log_pre_prepare'[s] = msg_log_pre_prepare[s]
           /\ seqno'[s] = seqno[s]
  BY DEF TypeOK
<1> HIDE DEF msg
<1>5. \A s \in Replica : get_h(s)' = get_h(s)
  BY <1>1, WatermarkKept
<1>6. LogsOfView'
  <2>1. \A x \in msg_log_pre_prepare[r] : x.n \in Nat
    BY DEF TypeOK, PrePrepare
  <2> QED
    BY <1>1, <1>2, <1>3, <1>4, <1>5, <2>1 DEF ChainInv, LogsOfView
<1>7. LogsSent'
  <2>1. \A b, v : ProposedIn(b, v) => ProposedIn(b, v)'
    BY <1>1, <1>4 DEF ProposedIn, viewOut
  <2>2. ProposedIn(m.b, m.v)'
    BY <1>4 DEF ProposedIn
  <2> QED
    BY <1>1, <1>4, <2>1, <2>2 DEF ChainInv, LogsSent, viewLogs, viewOut
<1>8. ProposalsOnSchedule'
  BY <1>1, <1>3, <1>4 DEF ChainInv, ProposalsOnSchedule, OnSchedule,
       certificates, viewOut
<1> QED
  BY <1>1, <1>6, <1>7, <1>8, RequestsFrame, ChainFrame DEF ChainInv, executed

LEMMA ChainReceivePrePrepare ==
    ASSUME TypeOK, ChainInv, NEW r \in Replica, ReceivePrePrepare(r)
    PROVE  ChainInv'
<1> PICK m \in msg_out_pre_prepare :
      /\ pre_RECEIVE_PRE_PREPARE(m, r)
      /\ msg_log_pre_prepare' =
           [msg_log_pre_prepare EXCEPT ![r] = @ \union {m}]
  BY DEF ReceivePrePrepare
<1>1. UNCHANGED <<view, seqno, executed, checkpoint, msg_log_request,
                  msg_log_prepare, msg_log_commit, viewLogs, certificates,
                  agreementOut, viewOut, blocks>>
  BY DEF ReceivePrePrepare
<1>2. /\ msg_log_pre_prepare'[r] = msg_log_pre_prepare[r] \union {m}
      /\ \A s \in Replica : s # r =>
           msg_log_pre_prepare'[s] = msg_log_pre_prepare[s]
  BY DEF TypeOK
<1>3. m.v = view[r] /\ m.sender # r
  BY DEF pre_RECEIVE_PRE_PREPARE, in_wv
<1>4. \A s \in Replica : get_h(s)' = get_h(s)
  BY <1>1, WatermarkKept
<1>5. LogsOfView'
  BY <1>1, <1>2, <1>3, <1>4 DEF ChainInv, LogsOfView
<1>6. LogsSent'
  BY <1>1, <1>2 DEF ChainInv, LogsSent, ProposedIn, viewLogs, agreementOut,
       viewOut
<1>7. ProposalsOnSchedule'
  BY <1>1, <1>2 DEF ChainInv, ProposalsOnSchedule, OnSchedule, certificates,
       agreementOut, viewOut
<1> QED
  BY <1>1, <1>5, <1>6, <1>7, RequestsFrame, ChainFrame DEF ChainInv, executed

LEMMA ChainPrepare ==
    ASSUME TypeOK, ChainInv, NEW r \in Replica,
           SendPrepare(r) \/ ReceivePrepare(r)
    PROVE  ChainInv'
<1>1. UNCHANGED <<view, seqno, executed, checkpoint, msg_log_request,
                  msg_log_pre_prepare, msg_log_commit, viewLogs, certificates,
                  msg_out_pre_prepare, msg_out_commit, viewOut, blocks>>
  BY DEF SendPrepare, ReceivePrepare, agreementOut
<1>2. PICK m : /\ m.v = view[r]
               /\ msg_log_prepare' =
                    [msg_log_prepare EXCEPT ![r] = @ \union {m}]
  <2>1. CASE SendPrepare(r)
    <3> PICK s \in KnownSlots(r) :
          LET m == [v |-> s.v, n |-> s.n, d |-> s.d, sender |-> r] IN
          /\ pre_SEND_PREPARE(s.d, s.v, s.n, r)
          /\ msg_log_prepare' = [msg_log_prepare EXCEPT ![r] = @ \union {m}]
      BY <2>1 DEF SendPrepare
    <3> QED
      BY DEF pre_SEND_PREPARE, in_wv
  <2>2. CASE ReceivePrepare(r)
    BY <2>2 DEF ReceivePrepare, pre_RECEIVE_PREPARE, in_wv
  <2> QED
    BY <2>1, <2>2
<1>3. LogsOfView'
  <2>1. \A s \in Replica : get_h(s)' = get_h(s)
    BY <1>1, WatermarkKept
  <2> QED
    BY <1>1, <1>2, <2>1 DEF ChainInv, LogsOfView, TypeOK
<1> QED
  BY <1>1, <1>3, LogsSentFrame, ScheduleFrame, RequestsFrame, ChainFrame
     DEF ChainInv, executed, viewOut

LEMMA ChainSendCommit ==
    ASSUME TypeOK, ChainInv, NEW r \in Replica, SendCommit(r)
    PROVE  ChainInv'
<1>1. UNCHANGED <<view, seqno, executed, checkpoint, msg_log_request,
                  msg_log_pre_prepare, msg_log_prepare, viewLogs,
                  certificates, msg_out_pre_prepare, viewOut, blocks>>
  BY DEF SendCommit
<1>2. PICK m : /\ m.v = view[r] /\ m.n = get_h(r) + 1
               /\ msg_out_commit' = msg_out_commit \union {m}
               /\ msg_log_commit' =
                    [msg_log_commit EXCEPT ![r] = @ \union {m}]
  <2> PICK s \in KnownSlots(r) :
        LET m == [v |-> s.v, n |-> s.n,
                  data |-> GetPreSignatureShare(s.v, s.n, r), sender |-> r] IN
        /\ pre_SEND_COMMIT(s.d, s.v, s.n, r)
        /\ msg_out_commit' = msg_out_commit \union {m}
        /\ msg_log_commit' = [msg_log_commit EXCEPT ![r] = @ \union {m}]
    BY DEF SendCommit
  <2>1. s.n \in Nat
    BY KnownSlotsType DEF Slot
  <2>2. s.v = view[r] /\ s.n = get_h(r) + 1
    BY <2>1, InWindow DEF pre_SEND_COMMIT, in_wv
  <2> QED
    BY <2>2
<1>3. /\ msg_log_commit'[r] = msg_log_commit[r] \union {m}
      /\ \A s \in Replica : s # r => msg_log_commit'[s] = msg_log_commit[s]
  BY <1>2 DEF TypeOK
<1>4. LogsOfView'
  <2>1. \A s \in Replica : get_h(s)' = get_h(s) /\ get_h(s) \in Nat
    BY <1>1, WatermarkKept, LowWatermark
  <2> QED
    BY <1>1, <1>2, <1>3, <2>1 DEF ChainInv, LogsOfView
<1>5. LogsSent'
  BY <1>1, <1>2, <1>3 DEF ChainInv, LogsSent, ProposedIn, viewLogs, viewOut
<1> QED
  BY <1>1, <1>4, <1>5, ScheduleFrame, RequestsFrame, ChainFrame
     DEF ChainInv, executed

LEMMA ChainReceiveCommit ==
    ASSUME TypeOK, ChainInv, NEW r \in Replica, ReceiveCommit(r)
    PROVE  ChainInv'
<1> PICK m \in msg_out_commit : RECEIVE_COMMIT(m, r)
  BY DEF ReceiveCommit
<1>1. UNCHANGED <<view, seqno, executed, checkpoint, msg_log_request,
                  msg_log_pre_prepare, msg_log_prepare, msg_log_view_change,
                  msg_log_new_view, certificates, agreementOut, viewOut,
                  blocks>>
  BY DEF ReceiveCommit
<1>2. m.n \in Nat
  BY DEF TypeOK, Commit
<1>3. \A s \in Replica :
        /\ msg_log_commit_view_recovery'[s] \subseteq
             msg_log_commit_view_recovery[s] \union
               {[v |-> m.v, n |-> m.n, sender |-> m.sender]}
        /\ msg_log_commit'[s] \subseteq msg_log_commit[s] \union {m}
        /\ m \in msg_log_commit'[s] =>
             \/ m \in msg_log_commit[s]
             \/ s = r /\ in_wv(m.v, m.n, r)
  BY DEF RECEIVE_COMMIT, TypeOK
<1>4. in_wv(m.v, m.n, r) => m.v = view[r] /\ m.n <= get_h(r) + 1
  BY <1>2, InWindow DEF in_wv
<1>5. LogsOfView'
  <2>1. \A s \in Replica : get_h(s)' = get_h(s)
    BY <1>1, WatermarkKept
  <2> QED
    BY <1>1, <1>3, <1>4, <2>1 DEF ChainInv, LogsOfView
<1>6. LogsSent'
  BY <1>1, <1>3 DEF ChainInv, LogsSent, ProposedIn, agreementOut, viewOut
<1> QED
  BY <1>1, <1>5, <1>6, ScheduleFrame, RequestsFrame, ChainFrame
     DEF ChainInv, executed, agreementOut

LEMMA ChainRoast ==
    ASSUME TypeOK, ChainInv, NEW r \in Replica,
           RoastInit(r) \/ RoastReceivePreSignature(r)
    PROVE  ChainInv'
<1>1. UNCHANGED <<view, seqno, executed, checkpoint, msg_log_request,
                  agreementLogs, viewLogs, certificates, agreementOut,
                  viewOut, blocks>>
  BY DEF RoastInit, RoastReceivePreSignature
<1> QED
  BY <1>1, LogsOfViewFrame, LogsSentFrame, ScheduleFrame, RequestsFrame,
     ChainFrame DEF ChainInv, executed, agreementLogs, agreementOut, viewOut

\* What EXECUTE submits is the next block, and the one of the request.
LEMMA ExecutedBlock ==
    ASSUME TypeOK, ChainInv, NEW r \in Replica, NEW s \in KnownSlots(r),
           NEW b \in FindByV_N_Req(r, s.d), pre_EXECUTE(s.d, s.v, s.n, b, r)
    PROVE  /\ s.v = view[r] /\ s.n = get_h(r) + 1 /\ s.d = s.n
           /\ b \in Block /\ b.n = s.n /\ b.t = s.n
           /\ last_exec[r] = get_h(r) /\ last_rep[r] = get_h(r)
<1>1. s.n = last_exec[r] + 1 /\ committed(s.d, s.v, s.n, r)
  BY DEF pre_EXECUTE
<1>2. s.v = view[r] /\ s.n <= get_h(r) + 1
  BY <1>1, CommittedSlot DEF ChainInv
<1>3. s.d = s.n
  BY KnownOnSchedule DEF ChainInv
<1>4. b \in Block /\ b.n = s.d /\ b.t = s.d
  BY FoundOnSchedule DEF ChainInv
<1>5. /\ last_rep[r] = last_exec[r] /\ last_exec[r] \in Nat /\ get_h(r) \in Nat
      /\ last_exec[r] = get_h(r) \/ last_exec[r] = get_h(r) + 1
  BY LastOnSchedule, LowWatermark DEF ChainInv, TypeOK
<1> QED
  BY <1>1, <1>2, <1>3, <1>4, <1>5

LEMMA ChainExecute ==
    ASSUME TypeOK, ChainInv, NEW r \in Replica, Execute(r)
    PROVE  ChainInv'
<1> PICK s \in KnownSlots(r) : \E b \in FindByV_N_Req(r, s.d) :
      /\ pre_EXECUTE(s.d, s.v, s.n, b, r)
      /\ blocks' = blocks \union {b}
      /\ apply_EXECUTE(s.d, s.n, b, r)
  BY DEF Execute
<1> PICK b \in FindByV_N_Req(r, s.d) :
      /\ pre_EXECUTE(s.d, s.v, s.n, b, r)
      /\ blocks' = blocks \union {b}
      /\ apply_EXECUTE(s.d, s.n, b, r)
  OBVIOUS
<1>1. UNCHANGED <<view, seqno, checkpoint, msg_log_request, agreementLogs,
                  viewLogs, certificates, agreementOut, viewOut>>
  BY DEF Execute
<1>2. /\ s.n = get_h(r) + 1 /\ s.d = s.n /\ b.n = s.n /\ b.t = s.n
      /\ last_exec[r] = get_h(r) /\ last_rep[r] = get_h(r)
      /\ get_h(r) \in Nat
  BY ExecutedBlock, LowWatermark
<1>3. \/ UNCHANGED <<last_exec, last_rep, val>>
      \/ /\ s.d \in msg_log_request[r]
         /\ last_exec' = [last_exec EXCEPT ![r] = s.n]
         /\ last_rep' = [last_rep EXCEPT ![r] = s.d]
         /\ val' = [val EXCEPT ![r] = b]
  BY DEF apply_EXECUTE, executed
<1>4. \A q \in Replica : get_h(q)' = get_h(q)
  BY <1>1, WatermarkKept
<1>5. RequestsFollow'
  BY <1>1, <1>2, <1>3, <1>4 DEF ChainInv, RequestsFollow, TypeOK
<1>6. OneCheckpoint'
  BY <1>1, <1>4 DEF ChainInv, OneCheckpoint
<1>7. ChainOnSchedule'
  <2>1. val[r] \in blocks /\ val[r].n = b.n - 1
    BY <1>2 DEF ChainInv, StateOnChain
  <2> QED
    BY <1>2, <2>1 DEF ChainInv, ChainOnSchedule
<1>8. StateOnChain'
  <2>1. CASE UNCHANGED <<last_exec, last_rep, val>>
    BY <1>1, <1>4, <2>1 DEF ChainInv, StateOnChain
  <2>2. CASE /\ last_exec' = [last_exec EXCEPT ![r] = s.n]
             /\ last_rep' = [last_rep EXCEPT ![r] = s.d]
             /\ val' = [val EXCEPT ![r] = b]
    <3>1. /\ last_exec'[r] = s.n /\ last_rep'[r] = s.n /\ val'[r] = b
          /\ \A q \in Replica : q # r => /\ last_exec'[q] = last_exec[q]
                                         /\ last_rep'[q] = last_rep[q]
                                         /\ val'[q] = val[q]
      BY <1>2, <2>2 DEF TypeOK
    <3>2. last_exec'[r] - get_h(r)' \in {0, 1}
      BY <1>2, <1>4, <3>1
    <3> QED
      BY <1>1, <1>2, <1>4, <3>1, <3>2 DEF ChainInv, StateOnChain
  <2> QED
    BY <1>3, <2>1, <2>2
<1> QED
  BY <1>1, <1>5, <1>6, <1>7, <1>8, LogsOfViewFrame, LogsSentFrame,
     ScheduleFrame DEF ChainInv, agreementLogs, agreementOut, viewOut

\* A block that a replica takes is above its checkpoint, and becomes its only
\* checkpoint and its state (RECEIVE_BLOCK).
LEMMA AfterBlock ==
    ASSUME TypeOK, ChainInv, NEW r \in Replica, NEW b \in blocks,
           RECEIVE_BLOCK(b, r)
    PROVE  /\ b \in Block /\ b.t = b.n /\ b.n > get_h(r)
           /\ checkpoint'[r] = {[n |-> b.n, val |-> b, t |-> b.t]}
           /\ get_h(r)' = b.n
           /\ last_exec'[r] = b.n /\ last_rep'[r] = b.n
           /\ val'[r] \in blocks /\ val'[r].n = b.n /\ val'[r].t = b.n
           /\ \A s \in Replica : s # r => /\ checkpoint'[s] = checkpoint[s]
                                          /\ get_h(s)' = get_h(s)
                                          /\ last_exec'[s] = last_exec[s]
                                          /\ last_rep'[s] = last_rep[s]
                                          /\ val'[s] = val[s]
<1> DEFINE k == [n |-> b.n, val |-> b, t |-> b.t]
<1>1. b \in Block /\ b.n \in Nat /\ b.t = b.n
  BY DEF TypeOK, Block, ChainInv, ChainOnSchedule
<1>2. /\ get_h(r) \in Nat /\ b.n > get_h(r)
      /\ b.t \in msg_log_request[r]
  BY <1>1, LowWatermark DEF RECEIVE_BLOCK, ChainInv, RequestsFollow
<1>3. /\ checkpoint'[r] = {k} /\ k \in Checkpoint /\ k.n = b.n
      /\ \A s \in Replica : s # r => checkpoint'[s] = checkpoint[s]
  <2>1. \A c \in checkpoint[r] : c.n = get_h(r)
    BY DEF ChainInv, OneCheckpoint
  <2>2. add_checkpoint(b, r) = {k}
    BY <1>1, <1>2, <2>1 DEF add_checkpoint
  <2>3. checkpoint' = [checkpoint EXCEPT ![r] = {k}]
    BY <2>2 DEF RECEIVE_BLOCK
  <2> QED
    BY <1>1, <2>3 DEF TypeOK, Checkpoint
<1>4. get_h(r)' = b.n
  <2>1. /\ checkpoint'[r] \in SUBSET Checkpoint /\ checkpoint'[r] # {}
        /\ \A c \in checkpoint'[r] : c.n = b.n
    BY <1>3
  <2> QED
    BY <2>1, WatermarkOf DEF get_h
<1>5. \A s \in Replica : s # r => get_h(s)' = get_h(s)
  BY <1>3, WatermarkKept
<1>6. /\ last_rep[r] = last_exec[r] /\ last_rep[r] \in Nat
      /\ last_exec[r] = get_h(r) \/ last_exec[r] = get_h(r) + 1
  BY LastOnSchedule DEF ChainInv, TypeOK
<1>7. CASE b.t > last_rep[r]
  <2>1. /\ last_exec' = [last_exec EXCEPT ![r] = b.n]
        /\ last_rep' = [last_rep EXCEPT ![r] = b.t]
        /\ val' = [val EXCEPT ![r] = b]
    BY <1>2, <1>7 DEF RECEIVE_BLOCK, apply_EXECUTE
  <2>2. /\ last_exec'[r] = b.n /\ last_rep'[r] = b.n /\ val'[r] = b
        /\ \A s \in Replica : s # r => /\ last_exec'[s] = last_exec[s]
                                       /\ last_rep'[s] = last_rep[s]
                                       /\ val'[s] = val[s]
    BY <1>1, <2>1 DEF TypeOK
  <2> QED
    BY <1>1, <1>2, <1>3, <1>4, <1>5, <2>2
<1>8. CASE ~ (b.t > last_rep[r])
  <2>1. UNCHANGED <<last_exec, last_rep, val>>
    BY <1>8 DEF RECEIVE_BLOCK, apply_EXECUTE, executed
  <2>2. last_rep[r] = b.n /\ last_exec[r] = b.n
    BY <1>1, <1>2, <1>6, <1>8
  <2>3. val[r] \in blocks /\ val[r].n = b.n /\ val[r].t = b.n
    BY <2>2 DEF ChainInv, StateOnChain
  <2> QED
    BY <1>1, <1>2, <1>3, <1>4, <1>5, <2>1, <2>2, <2>3
<1> QED
  BY <1>7, <1>8

LEMMA ChainReceiveBlock ==
    ASSUME TypeOK, ChainInv, NEW r \in Replica, ReceiveBlock(r)
    PROVE  ChainInv'
<1> PICK b \in blocks : RECEIVE_BLOCK(b, r)
  BY DEF ReceiveBlock
<1> DEFINE k == [n |-> b.n, val |-> b, t |-> b.t]
<1>1. UNCHANGED <<view, seqno, viewLogs, agreementOut, viewOut, blocks>>
  BY DEF ReceiveBlock
<1>2. /\ b.n \in Nat /\ b.n > get_h(r) /\ get_h(r) \in Nat
      /\ checkpoint'[r] = {k} /\ k.n = b.n /\ k.val = b
      /\ get_h(r)' = b.n
      /\ last_exec'[r] = b.n /\ last_rep'[r] = b.n
      /\ val'[r] \in blocks /\ val'[r].n = b.n /\ val'[r].t = b.n
      /\ \A s \in Replica : s # r => /\ checkpoint'[s] = checkpoint[s]
                                     /\ get_h(s)' = get_h(s)
                                     /\ last_exec'[s] = last_exec[s]
                                     /\ last_rep'[s] = last_rep[s]
                                     /\ val'[s] = val[s]
  BY AfterBlock, LowWatermark DEF Block
<1> HIDE DEF k
<1>3. \A s \in Replica :
        /\ msg_log_pre_prepare'[s] \subseteq msg_log_pre_prepare[s]
        /\ msg_log_prepare'[s] \subseteq msg_log_prepare[s]
        /\ msg_log_commit'[s] \subseteq msg_log_commit[s]
        /\ view_change_Pi'[s] \subseteq view_change_Pi[s]
        /\ view_change_Qi'[s] \subseteq view_change_Qi[s]
  BY DEF RECEIVE_BLOCK, collect_garbage, Above, TypeOK
<1>4. /\ msg_log_request'[r] = {t \in msg_log_request[r] : t > last_rep'[r]}
      /\ \A s \in Replica : s # r => msg_log_request'[s] = msg_log_request[s]
  BY DEF RECEIVE_BLOCK, collect_garbage, TypeOK
<1>5. LogsOfView'
  <2>1. \A s \in Replica : \A m \in msg_log_commit[s] :
          m.n \in Nat /\ get_h(s) \in Nat
    BY LowWatermark DEF TypeOK, Commit
  <2>2. \A s \in Replica : \A m \in msg_log_commit'[s] :
          m.n <= get_h(s)' + 1
    BY <1>2, <1>3, <2>1 DEF ChainInv, LogsOfView
  <2> QED
    BY <1>1, <1>3, <2>2 DEF ChainInv, LogsOfView
<1>6. LogsSent'
  BY <1>1, <1>3 DEF ChainInv, LogsSent, ProposedIn, viewLogs, agreementOut,
       viewOut
<1>7. ProposalsOnSchedule'
  BY <1>1, <1>3 DEF ChainInv, ProposalsOnSchedule, OnSchedule, agreementOut,
       viewOut
<1>8. RequestsFollow'
  <2>1. msg_log_request[r] \subseteq Nat
    BY DEF TypeOK
  <2>2. \A t \in msg_log_request'[r] :
          /\ t > b.n
          /\ \A u \in b.n + 1 .. t : u \in msg_log_request'[r]
    BY <1>2, <1>4, <2>1 DEF ChainInv, RequestsFollow
  <2> QED
    BY <1>2, <1>4, <2>2 DEF ChainInv, RequestsFollow
<1>9. OneCheckpoint'
  BY <1>2 DEF ChainInv, OneCheckpoint
<1>10. ChainOnSchedule'
  BY <1>1 DEF ChainInv, ChainOnSchedule
<1>11. StateOnChain'
  <2>1. last_exec'[r] - get_h(r)' = 0
    BY <1>2
  <2> QED
    BY <1>1, <1>2, <2>1 DEF ChainInv, StateOnChain
<1> QED
  BY <1>5, <1>6, <1>7, <1>8, <1>9, <1>10, <1>11 DEF ChainInv

\* A replica that goes to a later view has nothing left in its agreement logs.
LEMMA LogsCleared ==
    ASSUME TypeOK, LogsOfView, NEW r \in Replica, NEW v \in Nat, v > view[r],
           msg_log_clear_where_view_less_than(r, v)
    PROVE  /\ msg_log_pre_prepare'[r] = {}
           /\ msg_log_prepare'[r] = {}
           /\ msg_log_commit'[r] = {}
           /\ msg_log_new_view'[r] \subseteq msg_log_new_view[r]
           /\ \A s \in Replica : s # r =>
                /\ msg_log_pre_prepare'[s] = msg_log_pre_prepare[s]
                /\ msg_log_prepare'[s] = msg_log_prepare[s]
                /\ msg_log_commit'[s] = msg_log_commit[s]
                /\ msg_log_new_view'[s] = msg_log_new_view[s]
           /\ UNCHANGED msg_log_commit_view_recovery
<1>1. view[r] \in Nat
  BY DEF TypeOK
<1>2. /\ msg_log_pre_prepare'[r] = {m \in msg_log_pre_prepare[r] : m.v >= v}
      /\ msg_log_prepare'[r] = {m \in msg_log_prepare[r] : m.v >= v}
      /\ msg_log_commit'[r] = {m \in msg_log_commit[r] : m.v >= v}
      /\ msg_log_new_view'[r] \subseteq msg_log_new_view[r]
  BY DEF msg_log_clear_where_view_less_than, FromView, TypeOK
<1>3. \A s \in Replica : s # r =>
        /\ msg_log_pre_prepare'[s] = msg_log_pre_prepare[s]
        /\ msg_log_prepare'[s] = msg_log_prepare[s]
        /\ msg_log_commit'[s] = msg_log_commit[s]
        /\ msg_log_new_view'[s] = msg_log_new_view[s]
  BY DEF msg_log_clear_where_view_less_than, FromView, TypeOK
<1> QED
  BY <1>1, <1>2, <1>3 DEF LogsOfView, msg_log_clear_where_view_less_than

LEMMA ChainRecoverView ==
    ASSUME TypeOK, ChainInv, NEW r \in Replica, RecoverView(r)
    PROVE  ChainInv'
<1> PICK v \in RecoverableViews(r) :
      /\ view' = [view EXCEPT ![r] = v]
      /\ msg_log_clear_where_view_less_than(r, v)
      /\ msg_log_view_change' = FromView(msg_log_view_change, r, v)
  BY DEF RecoverView
<1>1. UNCHANGED <<seqno, executed, checkpoint, msg_log_request, certificates,
                  agreementOut, viewOut, blocks>>
  BY DEF RecoverView
<1>2. v \in Nat /\ v > view[r]
  BY DEF TypeOK, RecoverableViews, RecoveryCommit
<1>3. /\ msg_log_pre_prepare'[r] = {}
      /\ msg_log_prepare'[r] = {}
      /\ msg_log_commit'[r] = {}
      /\ msg_log_new_view'[r] \subseteq msg_log_new_view[r]
      /\ \A s \in Replica : s # r =>
           /\ msg_log_pre_prepare'[s] = msg_log_pre_prepare[s]
           /\ msg_log_prepare'[s] = msg_log_prepare[s]
           /\ msg_log_commit'[s] = msg_log_commit[s]
           /\ msg_log_new_view'[s] = msg_log_new_view[s]
      /\ UNCHANGED msg_log_commit_view_recovery
  BY <1>2, LogsCleared DEF ChainInv
<1>4. \A s \in Replica :
        /\ msg_log_view_change'[s] \subseteq msg_log_view_change[s]
        /\ s # r => view'[s] = view[s]
  BY DEF FromView, TypeOK
<1>5. LogsOfView'
  <2>1. \A s \in Replica : get_h(s)' = get_h(s)
    BY <1>1, WatermarkKept
  <2> QED
    BY <1>1, <1>3, <1>4, <2>1 DEF ChainInv, LogsOfView
<1>6. LogsSent'
  BY <1>1, <1>3, <1>4 DEF ChainInv, LogsSent, ProposedIn, agreementOut,
       viewOut
<1>7. ProposalsOnSchedule'
  BY <1>1, <1>3 DEF ChainInv, ProposalsOnSchedule, OnSchedule, certificates,
       agreementOut, viewOut
<1> QED
  BY <1>1, <1>5, <1>6, <1>7, RequestsFrame, ChainFrame DEF ChainInv, executed

LEMMA ChainSendViewChange ==
    ASSUME TypeOK, ChainInv, NEW r \in Replica, SendViewChange(r)
    PROVE  ChainInv'
<1> DEFINE v == view[r] + 1
           P == update_view_change_Pi(r)
           Q == update_view_change_Qi(r)
           vc(c) == [v |-> v, h |-> get_h(r), c |-> c.val,
                     P |-> P, Q |-> Q, sender |-> r]
<1> PICK c \in checkpoint[r] :
      /\ view' = [view EXCEPT ![r] = v]
      /\ view_change_Pi' = [view_change_Pi EXCEPT ![r] = P]
      /\ view_change_Qi' = [view_change_Qi EXCEPT ![r] = Q]
      /\ msg_out_view_change' = msg_out_view_change \union {vc(c)}
      /\ msg_log_clear_where_view_less_than(r, v)
      /\ msg_log_view_change' =
           [msg_log_view_change EXCEPT ![r] =
               {x \in @ \union {vc(c)} : x.v >= v}]
  BY DEF SendViewChange
<1>1. UNCHANGED <<seqno, executed, checkpoint, msg_log_request, agreementOut,
                  msg_out_new_view, blocks>>
  BY DEF SendViewChange
<1>2. v \in Nat /\ v > view[r]
  BY DEF TypeOK
<1>3. /\ msg_log_pre_prepare'[r] = {}
      /\ msg_log_prepare'[r] = {}
      /\ msg_log_commit'[r] = {}
      /\ msg_log_new_view'[r] \subseteq msg_log_new_view[r]
      /\ \A s \in Replica : s # r =>
           /\ msg_log_pre_prepare'[s] = msg_log_pre_prepare[s]
           /\ msg_log_prepare'[s] = msg_log_prepare[s]
           /\ msg_log_commit'[s] = msg_log_commit[s]
           /\ msg_log_new_view'[s] = msg_log_new_view[s]
      /\ UNCHANGED msg_log_commit_view_recovery
  BY <1>2, LogsCleared DEF ChainInv
<1>4. \A e \in P : e.d = e.n
  BY KnownOnSchedule DEF update_view_change_Pi, ChainInv
<1>5. \A e \in Q : OnSchedule(e)
  <2>1. \A m \in LoggedPrePrepares(r) : OnSchedule(m)
    BY DEF ChainInv, ProposalsOnSchedule, LoggedPrePrepares
  <2> QED
    BY <2>1 DEF update_view_change_Qi, OnSchedule
<1> HIDE DEF P, Q
<1> PICK m : m = vc(c)
  OBVIOUS
<1> m.Q = Q
  OBVIOUS
<1> HIDE DEF vc
<1>6. \A s \in Replica :
        /\ msg_log_view_change'[s] \subseteq msg_log_view_change[s] \union {m}
        /\ s # r => /\ view'[s] = view[s]
                    /\ view_change_Pi'[s] = view_change_Pi[s]
                    /\ view_change_Qi'[s] = view_change_Qi[s]
  BY DEF TypeOK
<1>7. view_change_Pi'[r] = P /\ view_change_Qi'[r] = Q
  BY DEF TypeOK
<1>8. LogsOfView'
  <2>1. \A s \in Replica : get_h(s)' = get_h(s)
    BY <1>1, WatermarkKept
  <2> QED
    BY <1>1, <1>3, <1>6, <2>1 DEF ChainInv, LogsOfView
<1>9. LogsSent'
  BY <1>1, <1>3, <1>6 DEF ChainInv, LogsSent, ProposedIn, agreementOut
<1>10. ProposalsOnSchedule'
  BY <1>1, <1>3, <1>4, <1>5, <1>6, <1>7 DEF ChainInv, ProposalsOnSchedule,
       OnSchedule, agreementOut
<1> QED
  BY <1>1, <1>8, <1>9, <1>10, RequestsFrame, ChainFrame DEF ChainInv, executed

LEMMA ChainReceiveViewChange ==
    ASSUME TypeOK, ChainInv, NEW r \in Replica, ReceiveViewChange(r)
    PROVE  ChainInv'
<1> PICK m \in msg_out_view_change :
      msg_log_view_change' = [msg_log_view_change EXCEPT ![r] = @ \union {m}]
  BY DEF ReceiveViewChange
<1>1. UNCHANGED <<view, seqno, executed, checkpoint, msg_log_request,
                  agreementLogs, msg_log_commit_view_recovery,
                  msg_log_new_view, certificates, agreementOut, viewOut,
                  blocks>>
  BY DEF ReceiveViewChange
<1>2. LogsSent'
  BY <1>1 DEF ChainInv, LogsSent, ProposedIn, TypeOK, agreementLogs,
       agreementOut, viewOut
<1> QED
  BY <1>1, <1>2, LogsOfViewFrame, ScheduleFrame, RequestsFrame, ChainFrame
     DEF ChainInv, executed, agreementLogs, agreementOut

\* What a NEW_VIEW proposes again was proposed before (correct_chi/3).
LEMMA ChiOnSchedule ==
    ASSUME NEW Nu, \A m \in Nu : \A e \in m.Q : OnSchedule(e),
           NEW n, NEW e \in ChiEntries(n, Nu)
    PROVE  OnSchedule(e)
<1>1. PICK m \in Nu :
        \E q \in ChiChoices(m, n, Nu) : e = [n |-> n, d |-> q.d, b |-> q.b]
  BY DEF ChiEntries
<1> PICK q \in ChiChoices(m, n, Nu) : e = [n |-> n, d |-> q.d, b |-> q.b]
  BY <1>1
<1>2. q.n = n /\ OnSchedule(q)
  BY DEF ChiChoices
<1> QED
  BY <1>1, <1>2 DEF OnSchedule

LEMMA ChainSendNewView ==
    ASSUME TypeOK, ChainInv, NEW r \in Replica, SendNewView(r)
    PROVE  ChainInv'
<1> DEFINE Nu == msg_log_view_change[r]
           nv(Chi) == [v |-> view[r], Nu |-> Nu, Chi |-> Chi, sender |-> r]
<1>1. UNCHANGED <<view, seqno, executed, checkpoint, msg_log_request,
                  agreementLogs, msg_log_commit_view_recovery,
                  msg_log_view_change, certificates, agreementOut,
                  msg_out_view_change, blocks>>
  BY DEF SendNewView
<1>2. \/ UNCHANGED <<msg_log_new_view, msg_out_new_view>>
      \/ \E Chi \in SUBSET UNION {ChiEntries(n, Nu) : n \in PreparedNs(Nu)} :
           /\ msg_log_new_view' =
                [msg_log_new_view EXCEPT ![r] = @ \union {nv(Chi)}]
           /\ msg_out_new_view' = msg_out_new_view \union {nv(Chi)}
  BY DEF SendNewView
<1>3. CASE UNCHANGED <<msg_log_new_view, msg_out_new_view>>
  BY <1>1, <1>3, LogsOfViewFrame, LogsSentFrame, ScheduleFrame,
     RequestsFrame, ChainFrame
     DEF ChainInv, executed, agreementLogs, agreementOut, viewLogs, viewOut
<1>4. ASSUME NEW Chi \in SUBSET UNION {ChiEntries(n, Nu) :
                                          n \in PreparedNs(Nu)},
             msg_log_new_view' =
               [msg_log_new_view EXCEPT ![r] = @ \union {nv(Chi)}],
             msg_out_new_view' = msg_out_new_view \union {nv(Chi)}
      PROVE  ChainInv'
  <2>1. \A m \in Nu : \A e \in m.Q : OnSchedule(e)
    BY DEF ChainInv, LogsSent, ProposalsOnSchedule
  <2> HIDE DEF Nu
  <2>2. \A e \in Chi : OnSchedule(e)
    BY <2>1, ChiOnSchedule
  <2> PICK m : m = nv(Chi)
    OBVIOUS
  <2> m.Chi = Chi
    OBVIOUS
  <2> HIDE DEF nv
  <2>3. \A s \in Replica :
          msg_log_new_view'[s] \subseteq msg_log_new_view[s] \union {m}
    BY <1>4 DEF TypeOK
  <2>4. LogsSent'
    BY <1>1, <1>4, <2>3 DEF ChainInv, LogsSent, ProposedIn, agreementLogs,
         agreementOut
  <2>5. ProposalsOnSchedule'
    BY <1>1, <1>4, <2>2 DEF ChainInv, ProposalsOnSchedule, OnSchedule,
         agreementLogs, certificates, agreementOut
  <2> QED
    BY <1>1, <2>4, <2>5, LogsOfViewFrame, RequestsFrame, ChainFrame
       DEF ChainInv, executed
<1> QED
  BY <1>2, <1>3, <1>4

LEMMA ChainReceiveNewView ==
    ASSUME TypeOK, ChainInv, NEW r \in Replica, ReceiveNewView(r)
    PROVE  ChainInv'
<1> PICK m \in msg_out_new_view : RECEIVE_NEW_VIEW(m, r)
  BY DEF ReceiveNewView
<1>1. UNCHANGED <<view, seqno, executed, checkpoint, msg_log_request,
                  agreementLogs, msg_log_commit_view_recovery,
                  msg_log_view_change, certificates, agreementOut, viewOut,
                  blocks>>
  BY DEF ReceiveNewView
<1>2. \A s \in Replica :
        msg_log_new_view'[s] \subseteq msg_log_new_view[s] \union {m}
  BY DEF RECEIVE_NEW_VIEW, TypeOK
<1>3. LogsSent'
  BY <1>1, <1>2 DEF ChainInv, LogsSent, ProposedIn, agreementLogs,
       agreementOut, viewOut
<1> QED
  BY <1>1, <1>3, LogsOfViewFrame, ScheduleFrame, RequestsFrame, ChainFrame
     DEF ChainInv, executed, agreementLogs, agreementOut

LEMMA ChainProcessNewView ==
    ASSUME TypeOK, ChainInv, NEW r \in Replica, ProcessNewView(r)
    PROVE  ChainInv'
<1> DEFINE v == view[r]
           ppps(nv) == {[v |-> v, n |-> e.n, d |-> e.d, b |-> e.b,
                         sender |-> primary(v)] : e \in nv.Chi}
           own(nv) == IF primary(v) = r THEN {}
                      ELSE {[v |-> v, n |-> e.n, d |-> e.d, sender |-> r] :
                               e \in nv.Chi}
           ns(nv) == {m.n : m \in {x \in msg_log_pre_prepare[r]
                                          \union ppps(nv) : x.v = v}}
<1> PICK nv \in msg_log_new_view[r] :
      \E s : /\ pre_PROCESS_NEW_VIEW(nv, r)
             /\ \A n \in ns(nv) : n <= s
             /\ msg_log_pre_prepare' =
                  [msg_log_pre_prepare EXCEPT ![r] = @ \union ppps(nv)]
             /\ seqno' = [seqno EXCEPT ![r] = s]
             /\ msg_log_prepare' =
                  [msg_log_prepare EXCEPT ![r] = @ \union own(nv)]
  BY DEF ProcessNewView
<1> PICK s : /\ pre_PROCESS_NEW_VIEW(nv, r)
             /\ \A n \in ns(nv) : n <= s
             /\ msg_log_pre_prepare' =
                  [msg_log_pre_prepare EXCEPT ![r] = @ \union ppps(nv)]
             /\ seqno' = [seqno EXCEPT ![r] = s]
             /\ msg_log_prepare' =
                  [msg_log_prepare EXCEPT ![r] = @ \union own(nv)]
  OBVIOUS
<1>1. UNCHANGED <<view, executed, checkpoint, msg_log_request,
                  msg_log_commit, viewLogs, certificates,
                  msg_out_pre_prepare, msg_out_commit, viewOut, blocks>>
  BY DEF ProcessNewView
<1>2. nv \in msg_out_new_view /\ nv.v = v
  BY DEF ChainInv, LogsSent, pre_PROCESS_NEW_VIEW, correct_new_view
<1>3. \A m \in ppps(nv) :
        m.v = v /\ OnSchedule(m) /\ ProposedIn(m.b, m.v)
  <2> SUFFICES ASSUME NEW e \in nv.Chi, NEW m,
                      m = [v |-> v, n |-> e.n, d |-> e.d, b |-> e.b,
                           sender |-> primary(v)]
               PROVE  m.v = v /\ OnSchedule(m) /\ ProposedIn(m.b, m.v)
    BY Zenon
  <2>1. OnSchedule(e)
    BY <1>2 DEF ChainInv, ProposalsOnSchedule
  <2>2. m.v = v /\ m.n = e.n /\ m.d = e.d /\ m.b = e.b
    OBVIOUS
  <2> HIDE DEF ppps, ns, own
  <2> QED
    BY <1>2, <2>1, <2>2 DEF OnSchedule, ProposedIn
<1>4. \A m \in own(nv) : m.v = v
  OBVIOUS
<1>5. \A m \in msg_log_pre_prepare[r] \union ppps(nv) : m.n <= s
  <2>1. \A m \in msg_log_pre_prepare[r] \union ppps(nv) : m.v = v
    <3> HIDE DEF ppps
    <3> QED
      BY <1>3 DEF ChainInv, LogsOfView
  <2> HIDE DEF ppps
  <2> QED
    BY <2>1
<1> HIDE DEF ppps, own, ns
<1>6. /\ msg_log_pre_prepare'[r] = msg_log_pre_prepare[r] \union ppps(nv)
      /\ msg_log_prepare'[r] = msg_log_prepare[r] \union own(nv)
      /\ seqno'[r] = s
      /\ \A q \in Replica : q # r =>
           /\ msg_log_pre_prepare'[q] = msg_log_pre_prepare[q]
           /\ msg_log_prepare'[q] = msg_log_prepare[q]
           /\ seqno'[q] = seqno[q]
  BY DEF TypeOK
<1>7. LogsOfView'
  <2>1. \A q \in Replica : get_h(q)' = get_h(q)
    BY <1>1, WatermarkKept
  <2> QED
    BY <1>1, <1>3, <1>4, <1>5, <1>6, <2>1 DEF ChainInv, LogsOfView
<1>8. LogsSent'
  <2>1. \A b, w : ProposedIn(b, w) => ProposedIn(b, w)'
    BY <1>1 DEF ProposedIn, viewOut
  <2> QED
    BY <1>1, <1>3, <1>6, <2>1 DEF ChainInv, LogsSent, viewLogs, viewOut
<1>9. ProposalsOnSchedule'
  BY <1>1, <1>3, <1>6 DEF ChainInv, ProposalsOnSchedule, OnSchedule,
       certificates, viewOut
<1> QED
  BY <1>1, <1>7, <1>8, <1>9, RequestsFrame, ChainFrame DEF ChainInv, executed

LEMMA ChainNext == TypeOK /\ ChainInv /\ [Next]_vars => ChainInv'
<1> SUFFICES ASSUME TypeOK, ChainInv, [Next]_vars PROVE ChainInv'
  OBVIOUS
<1>1. CASE UNCHANGED vars
  BY <1>1, LogsOfViewFrame, LogsSentFrame, ScheduleFrame, RequestsFrame,
     ChainFrame DEF ChainInv, vars, executed, agreementLogs, agreementOut,
                    viewOut
<1>2. CASE Next
  <2> PICK r \in alive :
        \/ GenerateRequests(r)
        \/ SendPrePrepare(r) \/ ReceivePrePrepare(r)
        \/ SendPrepare(r) \/ ReceivePrepare(r)
        \/ SendCommit(r) \/ ReceiveCommit(r)
        \/ RoastInit(r) \/ RoastReceivePreSignature(r)
        \/ Execute(r) \/ ReceiveBlock(r)
        \/ RecoverView(r)
        \/ SendViewChange(r) \/ ReceiveViewChange(r)
        \/ SendNewView(r) \/ ReceiveNewView(r) \/ ProcessNewView(r)
    BY <1>2, Zenon DEF Next
  <2>1. r \in Replica
    BY DEF TypeOK
  <2> QED
    BY <2>1, ChainGenerateRequests, ChainSendPrePrepare,
       ChainReceivePrePrepare, ChainPrepare, ChainSendCommit,
       ChainReceiveCommit, ChainRoast, ChainExecute, ChainReceiveBlock,
       ChainRecoverView, ChainSendViewChange, ChainReceiveViewChange,
       ChainSendNewView, ChainReceiveNewView, ChainProcessNewView
<1> QED
  BY <1>1, <1>2

-----------------------------------------------------------------------------
(* Restarts.                                                               *)

\* A process starts at a block of the chain that is not behind what it has
\* executed, with empty logs.
LEMMA AfterRestart ==
    ASSUME TypeOK, ChainInv, NEW r \in Replica, Restart(r)
    PROVE  \E tip \in blocks :
             /\ tip \in Block /\ tip.t = tip.n /\ tip.n >= last_exec[r]
             /\ checkpoint'[r] = {[n |-> tip.n, val |-> tip, t |-> tip.t]}
             /\ get_h(r)' = tip.n
             /\ last_exec'[r] = tip.n /\ last_rep'[r] = tip.n /\ val'[r] = tip
             /\ seqno'[r] = tip.n
             /\ msg_log_request'[r] = FirstRequests(tip.n)
             /\ view'[r] = view[r]
             /\ \A s \in Replica : s # r =>
                  /\ checkpoint'[s] = checkpoint[s]
                  /\ get_h(s)' = get_h(s)
                  /\ last_exec'[s] = last_exec[s]
                  /\ last_rep'[s] = last_rep[s]
                  /\ val'[s] = val[s]
                  /\ seqno'[s] = seqno[s]
                  /\ msg_log_request'[s] = msg_log_request[s]
                  /\ view'[s] = view[s]
<1> DEFINE k(b) == [n |-> b.n, val |-> b, t |-> b.t]
<1> PICK tip \in Tips(r) :
      /\ seqno' = [seqno EXCEPT ![r] = tip.n]
      /\ last_exec' = [last_exec EXCEPT ![r] = tip.n]
      /\ last_rep' = [last_rep EXCEPT ![r] = tip.t]
      /\ val' = [val EXCEPT ![r] = tip]
      /\ checkpoint' = [checkpoint EXCEPT ![r] = {k(tip)}]
      /\ msg_log_request' = [msg_log_request EXCEPT ![r] =
                               FirstRequests(tip.t)]
  BY DEF Restart
<1>1. /\ tip \in blocks /\ tip \in Block /\ tip.n \in Nat /\ tip.t = tip.n
      /\ tip.n >= last_exec[r]
  BY DEF Tips, TypeOK, Block, ChainInv, ChainOnSchedule, StateOnChain
<1>2. checkpoint'[r] = {k(tip)} /\ k(tip) \in Checkpoint /\ k(tip).n = tip.n
  BY <1>1 DEF TypeOK, Checkpoint
<1>3. get_h(r)' = tip.n
  <2>1. /\ checkpoint'[r] \in SUBSET Checkpoint /\ checkpoint'[r] # {}
        /\ \A c \in checkpoint'[r] : c.n = tip.n
    BY <1>2
  <2> QED
    BY <2>1, WatermarkOf DEF get_h
<1>4. /\ last_exec'[r] = tip.n /\ last_rep'[r] = tip.n /\ val'[r] = tip
      /\ seqno'[r] = tip.n /\ view'[r] = view[r]
      /\ msg_log_request'[r] = FirstRequests(tip.n)
  BY <1>1 DEF TypeOK, Restart, restored_view
<1>5. \A s \in Replica : s # r =>
        /\ checkpoint'[s] = checkpoint[s]
        /\ last_exec'[s] = last_exec[s]
        /\ last_rep'[s] = last_rep[s]
        /\ val'[s] = val[s]
        /\ seqno'[s] = seqno[s]
        /\ msg_log_request'[s] = msg_log_request[s]
        /\ view'[s] = view[s]
  BY DEF TypeOK, Restart
<1>6. \A s \in Replica : s # r => get_h(s)' = get_h(s)
  BY <1>5, WatermarkKept
<1> QED
  BY <1>1, <1>2, <1>3, <1>4, <1>5, <1>6

\* The tables that a restart empties.
LEMMA RestartEmpties ==
    ASSUME TypeOK, NEW r \in Replica, Restart(r)
    PROVE  /\ msg_log_pre_prepare'[r] = {}
           /\ msg_log_prepare'[r] = {}
           /\ msg_log_commit'[r] = {}
           /\ msg_log_commit_view_recovery'[r] = {}
           /\ msg_log_view_change'[r] = {}
           /\ msg_log_new_view'[r] = {}
           /\ view_change_Pi'[r] = {}
           /\ view_change_Qi'[r] = {}
           /\ roast_active'[r] = {}
           /\ \A s \in Replica : s # r =>
                /\ msg_log_pre_prepare'[s] = msg_log_pre_prepare[s]
                /\ msg_log_prepare'[s] = msg_log_prepare[s]
                /\ msg_log_commit'[s] = msg_log_commit[s]
                /\ msg_log_commit_view_recovery'[s] =
                     msg_log_commit_view_recovery[s]
                /\ msg_log_view_change'[s] = msg_log_view_change[s]
                /\ msg_log_new_view'[s] = msg_log_new_view[s]
                /\ view_change_Pi'[s] = view_change_Pi[s]
                /\ view_change_Qi'[s] = view_change_Qi[s]
                /\ roast_active'[s] = roast_active[s]
           /\ UNCHANGED <<agreementOut, viewOut, roastOut, blocks>>
BY DEF TypeOK, Restart

LEMMA TypeRestart ==
    ASSUME TypeOK, ChainInv, NEW r \in Replica, Restart(r)
    PROVE  TypeOK'
<1> PICK tip \in Tips(r) :
      /\ seqno' = [seqno EXCEPT ![r] = tip.n]
      /\ last_exec' = [last_exec EXCEPT ![r] = tip.n]
      /\ last_rep' = [last_rep EXCEPT ![r] = tip.t]
      /\ val' = [val EXCEPT ![r] = tip]
      /\ checkpoint' = [checkpoint EXCEPT ![r] =
                          {[n |-> tip.n, val |-> tip, t |-> tip.t]}]
      /\ msg_log_request' = [msg_log_request EXCEPT ![r] =
                               FirstRequests(tip.t)]
  BY DEF Restart
<1>1. tip \in Block /\ tip.n \in Nat /\ tip.t \in Nat
  BY DEF Tips, TypeOK, Block
<1>2. [n |-> tip.n, val |-> tip, t |-> tip.t] \in Checkpoint
  BY <1>1 DEF Checkpoint
<1>3. FirstRequests(tip.t) \subseteq Nat
  BY <1>1, BoundsAssumption DEF FirstRequests
<1>4. /\ seqno' \in [Replica -> Nat] /\ last_exec' \in [Replica -> Nat]
      /\ last_rep' \in [Replica -> Nat] /\ val' \in [Replica -> Block]
      /\ checkpoint' \in [Replica -> SUBSET Checkpoint]
      /\ \A s \in Replica : checkpoint'[s] # {}
      /\ msg_log_request' \in [Replica -> SUBSET Nat]
  BY <1>1, <1>2, <1>3 DEF TypeOK
<1>5. /\ alive' \subseteq Replica
      /\ view' \in [Replica -> Nat]
      /\ active_view' \in [Replica -> BOOLEAN]
  BY DEF Restart, restored_view, TypeOK
<1>6. /\ msg_log_pre_prepare' \in [Replica -> SUBSET PrePrepare]
      /\ msg_log_prepare' \in [Replica -> SUBSET Prepare]
      /\ msg_log_commit' \in [Replica -> SUBSET Commit]
      /\ msg_log_commit_view_recovery' \in [Replica -> SUBSET RecoveryCommit]
      /\ msg_log_view_change' \in [Replica -> SUBSET ViewChange]
      /\ msg_log_new_view' \in [Replica -> SUBSET NewView]
      /\ view_change_Pi' \in [Replica -> SUBSET PiEntry]
      /\ view_change_Qi' \in [Replica -> SUBSET QiEntry]
      /\ roast_active' \in [Replica -> SUBSET Slot]
      /\ \A q \in Replica : \A s, t \in roast_active'[q] : s = t
  BY DEF Restart, TypeOK
<1>7. UNCHANGED <<agreementOut, viewOut, roastOut, blocks>>
  BY DEF Restart
<1> QED
  BY <1>4, <1>5, <1>6, <1>7 DEF TypeOK, agreementOut, viewOut, roastOut

LEMMA ChainRestart ==
    ASSUME TypeOK, ChainInv, NEW r \in Replica, Restart(r)
    PROVE  ChainInv'
<1> PICK tip \in blocks :
      /\ tip \in Block /\ tip.t = tip.n
      /\ checkpoint'[r] = {[n |-> tip.n, val |-> tip, t |-> tip.t]}
      /\ get_h(r)' = tip.n
      /\ last_exec'[r] = tip.n /\ last_rep'[r] = tip.n /\ val'[r] = tip
      /\ msg_log_request'[r] = FirstRequests(tip.n)
      /\ view'[r] = view[r]
      /\ \A s \in Replica : s # r =>
           /\ checkpoint'[s] = checkpoint[s]
           /\ get_h(s)' = get_h(s)
           /\ last_exec'[s] = last_exec[s]
           /\ last_rep'[s] = last_rep[s]
           /\ val'[s] = val[s]
           /\ seqno'[s] = seqno[s]
           /\ msg_log_request'[s] = msg_log_request[s]
           /\ view'[s] = view[s]
  BY AfterRestart
<1>1. tip.n \in Nat
  BY DEF Block
<1>2. UNCHANGED <<agreementOut, viewOut, blocks>>
  BY DEF Restart
<1>3. LogsOfView'
  BY RestartEmpties DEF ChainInv, LogsOfView
<1>4. LogsSent'
  BY <1>2, RestartEmpties DEF ChainInv, LogsSent, ProposedIn, agreementOut,
       viewOut
<1>5. ProposalsOnSchedule'
  BY <1>2, RestartEmpties DEF ChainInv, ProposalsOnSchedule, OnSchedule,
       agreementOut, viewOut
<1>6. RequestsFollow'
  <2>1. \A t \in FirstRequests(tip.n) :
          t > tip.n /\ \A u \in tip.n + 1 .. t : u \in FirstRequests(tip.n)
    BY <1>1, BoundsAssumption, HorizonAssumption DEF FirstRequests
  <2> QED
    BY <2>1 DEF ChainInv, RequestsFollow
<1>7. OneCheckpoint'
  BY DEF ChainInv, OneCheckpoint
<1>8. ChainOnSchedule'
  BY <1>2 DEF ChainInv, ChainOnSchedule
<1>9. StateOnChain'
  <2>1. last_exec'[r] - get_h(r)' = 0
    BY <1>1
  <2> QED
    BY <1>2, <2>1 DEF ChainInv, StateOnChain
<1> QED
  BY <1>3, <1>4, <1>5, <1>6, <1>7, <1>8, <1>9 DEF ChainInv

\* A process stopped inside set_view changes no table but its own.
LEMMA StopOnlyLeaves ==
    ASSUME NEW r, StopInSetView(r)
    PROVE  /\ alive' \subseteq alive
           /\ UNCHANGED <<view, active_view, seqno, executed, checkpoint,
                          msg_log_request, agreementLogs, viewLogs,
                          certificates, roast_active, agreementOut, viewOut,
                          roastOut, blocks>>
BY DEF StopInSetView

LEMMA TypeStopped ==
    ASSUME TypeOK, alive' \subseteq alive,
           UNCHANGED <<view, active_view, seqno, executed, checkpoint,
                       msg_log_request, agreementLogs, viewLogs,
                       certificates, roast_active, agreementOut, viewOut,
                       roastOut, blocks>>
    PROVE  TypeOK'
BY DEF TypeOK, agreementLogs, viewLogs, certificates, executed,
       agreementOut, viewOut, roastOut

LEMMA ChainStopped ==
    ASSUME TypeOK, ChainInv,
           UNCHANGED <<view, active_view, seqno, executed, checkpoint,
                       msg_log_request, agreementLogs, viewLogs,
                       certificates, roast_active, agreementOut, viewOut,
                       roastOut, blocks>>
    PROVE  ChainInv'
<1>1. LogsOfView'
  BY WatermarkKept DEF ChainInv, LogsOfView, agreementLogs
<1> QED
  BY <1>1, LogsSentFrame, ScheduleFrame, RequestsFrame, ChainFrame
     DEF ChainInv, agreementLogs, viewLogs, certificates, executed,
         agreementOut, viewOut

LEMMA ChainRestartNext ==
    TypeOK /\ ChainInv /\ [RestartNext]_restartVars => TypeOK' /\ ChainInv'
<1> SUFFICES ASSUME TypeOK, ChainInv, [RestartNext]_restartVars
             PROVE  TypeOK' /\ ChainInv'
  OBVIOUS
<1>1. CASE [Next]_vars
  BY <1>1, TypeNext, ChainNext
<1>2. CASE \E r \in Running : Restart(r)
  BY <1>2, RunningAssumption, TypeRestart, ChainRestart
<1>3. CASE \E r \in alive : StopInSetView(r)
  BY <1>3, StopOnlyLeaves, TypeStopped, ChainStopped
<1> QED
  BY <1>1, <1>2, <1>3 DEF RestartNext, restartVars

-----------------------------------------------------------------------------
(* No step back.                                                           *)

StepForward ==
    \A r \in Replica :
        /\ view'[r] >= view[r]
        /\ get_h(r)' >= get_h(r)
        /\ last_exec'[r] >= last_exec[r]

LEMMA ForwardFrame ==
    ASSUME TypeOK, UNCHANGED <<view, checkpoint, last_exec>>
    PROVE  StepForward
<1>1. \A r \in Replica : /\ view[r] \in Nat /\ last_exec[r] \in Nat
                         /\ get_h(r) \in Nat /\ get_h(r)' = get_h(r)
  BY LowWatermark, WatermarkKept DEF TypeOK
<1> QED
  BY <1>1 DEF StepForward

LEMMA ForwardNext ==
    ASSUME TypeOK, ChainInv, [Next]_vars
    PROVE  StepForward
<1>1. CASE UNCHANGED vars
  BY <1>1, ForwardFrame DEF vars, executed
<1>2. CASE Next
  <2> PICK r \in alive :
        \/ GenerateRequests(r)
        \/ SendPrePrepare(r) \/ ReceivePrePrepare(r)
        \/ SendPrepare(r) \/ ReceivePrepare(r)
        \/ SendCommit(r) \/ ReceiveCommit(r)
        \/ RoastInit(r) \/ RoastReceivePreSignature(r)
        \/ Execute(r) \/ ReceiveBlock(r)
        \/ RecoverView(r)
        \/ SendViewChange(r) \/ ReceiveViewChange(r)
        \/ SendNewView(r) \/ ReceiveNewView(r) \/ ProcessNewView(r)
    BY <1>2, Zenon DEF Next
  <2>1. /\ r \in Replica
        /\ \A s \in Replica : /\ view[s] \in Nat /\ last_exec[s] \in Nat
                              /\ get_h(s) \in Nat
    BY LowWatermark DEF TypeOK
  <2>2. CASE \/ GenerateRequests(r)
             \/ SendPrePrepare(r) \/ ReceivePrePrepare(r)
             \/ SendPrepare(r) \/ ReceivePrepare(r)
             \/ SendCommit(r) \/ ReceiveCommit(r)
    BY <2>2, ForwardFrame DEF GenerateRequests, SendPrePrepare,
         ReceivePrePrepare, SendPrepare, ReceivePrepare, SendCommit,
         ReceiveCommit, executed
  <2>3. CASE \/ RoastInit(r) \/ RoastReceivePreSignature(r)
             \/ ReceiveViewChange(r)
             \/ SendNewView(r) \/ ReceiveNewView(r) \/ ProcessNewView(r)
    BY <2>3, ForwardFrame DEF RoastInit, RoastReceivePreSignature,
         ReceiveViewChange, SendNewView, ReceiveNewView, ProcessNewView,
         executed
  <2>4. CASE Execute(r)
    <3> PICK s \in KnownSlots(r) : \E b \in FindByV_N_Req(r, s.d) :
          pre_EXECUTE(s.d, s.v, s.n, b, r) /\ apply_EXECUTE(s.d, s.n, b, r)
      BY <2>4 DEF Execute
    <3>1. s.n = last_exec[r] + 1
      BY DEF pre_EXECUTE
    <3>2. \A q \in Replica : last_exec'[q] >= last_exec[q]
      BY <2>1, <3>1 DEF apply_EXECUTE, executed, TypeOK
    <3>3. UNCHANGED <<view, checkpoint>>
      BY <2>4 DEF Execute
    <3> QED
      BY <2>1, <3>2, <3>3, WatermarkKept DEF StepForward
  <2>5. CASE ReceiveBlock(r)
    <3> PICK b \in blocks : RECEIVE_BLOCK(b, r)
      BY <2>5 DEF ReceiveBlock
    <3>1. /\ get_h(r)' = b.n /\ last_exec'[r] = b.n /\ b.n > get_h(r)
          /\ \A s \in Replica : s # r => /\ get_h(s)' = get_h(s)
                                         /\ last_exec'[s] = last_exec[s]
      BY <2>1, AfterBlock
    <3>2. last_exec[r] <= get_h(r) + 1
      BY <2>1, LastOnSchedule DEF ChainInv
    <3>3. b.n \in Nat
      BY DEF TypeOK, Block
    <3>4. UNCHANGED view
      BY <2>5 DEF ReceiveBlock
    <3> QED
      BY <2>1, <3>1, <3>2, <3>3, <3>4 DEF StepForward
  <2>6. CASE RecoverView(r)
    <3> PICK v \in RecoverableViews(r) : view' = [view EXCEPT ![r] = v]
      BY <2>6 DEF RecoverView
    <3>1. v \in Nat /\ v > view[r]
      BY <2>1 DEF TypeOK, RecoverableViews, RecoveryCommit
    <3>2. UNCHANGED <<checkpoint, last_exec>>
      BY <2>6 DEF RecoverView, executed
    <3>3. \A s \in Replica : view'[s] >= view[s]
      BY <2>1, <3>1 DEF TypeOK
    <3> QED
      BY <2>1, <3>2, <3>3, WatermarkKept DEF StepForward
  <2>7. CASE SendViewChange(r)
    <3>1. view' = [view EXCEPT ![r] = view[r] + 1]
      BY <2>7 DEF SendViewChange
    <3>2. UNCHANGED <<checkpoint, last_exec>>
      BY <2>7 DEF SendViewChange, executed
    <3>3. \A s \in Replica : view'[s] >= view[s]
      BY <2>1, <3>1 DEF TypeOK
    <3> QED
      BY <2>1, <3>2, <3>3, WatermarkKept DEF StepForward
  <2> QED
    BY <2>2, <2>3, <2>4, <2>5, <2>6, <2>7
<1> QED
  BY <1>1, <1>2

LEMMA ForwardRestart ==
    ASSUME TypeOK, ChainInv, NEW r \in Replica, Restart(r)
    PROVE  StepForward
<1>1. \A s \in Replica : /\ view[s] \in Nat /\ last_exec[s] \in Nat
                         /\ get_h(s) \in Nat
                         /\ last_exec[s] >= get_h(s)
  BY LowWatermark, LastOnSchedule DEF ChainInv, TypeOK
<1> PICK tip \in blocks :
      /\ tip \in Block /\ tip.n >= last_exec[r]
      /\ get_h(r)' = tip.n /\ last_exec'[r] = tip.n /\ view'[r] = view[r]
      /\ \A s \in Replica : s # r => /\ get_h(s)' = get_h(s)
                                     /\ last_exec'[s] = last_exec[s]
                                     /\ view'[s] = view[s]
  BY AfterRestart
<1>2. tip.n \in Nat
  BY DEF Block
<1> QED
  BY <1>1, <1>2 DEF StepForward

-----------------------------------------------------------------------------

LEMMA ChainInductive == Spec \/ RestartSpec => [](TypeOK /\ ChainInv)
<1>1. Init => TypeOK /\ ChainInv
  BY TypeInit, ChainInit
<1>2. Spec => [](TypeOK /\ ChainInv)
  BY <1>1, TypeNext, ChainNext, PTL DEF Spec
<1>3. RestartSpec => [](TypeOK /\ ChainInv)
  BY <1>1, ChainRestartNext, PTL DEF RestartSpec, RestartInit
<1> QED
  BY <1>2, <1>3

\* Whatever is proposed, prepared, committed and proposed again over any number
\* of view changes and restarts, every block that EXECUTE submits stands on the
\* block before it and is the one of its own period: the least request that
\* SEND_PRE_PREPARE finds unproposed is always the one of the next height.
THEOREM ChainOnScheduleHolds == Spec \/ RestartSpec => []ChainOnSchedule
<1>1. ChainInv => ChainOnSchedule
  BY DEF ChainInv
<1> QED
  BY <1>1, ChainInductive, PTL

\* The state that EXECUTE, RECEIVE_BLOCK and a restart leave at a replica is a
\* block of the chain, with its height and time, at most one block beyond the
\* checkpoint.
THEOREM StateOnChainHolds == Spec \/ RestartSpec => []StateOnChain
<1>1. ChainInv => StateOnChain
  BY DEF ChainInv
<1> QED
  BY <1>1, ChainInductive, PTL

\* No message, block, timeout, view recovery or restart takes a replica back to
\* an earlier view, checkpoint or execution, although RECEIVE_BLOCK compares
\* the block with the requests only and never with the checkpoint.
THEOREM NeverBackHolds == Spec \/ RestartSpec => NeverBack
<1>1. TypeOK /\ ChainInv /\ [Next]_vars => [StepForward]_vars
  BY ForwardNext
<1>2. TypeOK /\ ChainInv /\ [RestartNext]_restartVars => [StepForward]_vars
  <2> SUFFICES ASSUME TypeOK, ChainInv, [RestartNext]_restartVars
               PROVE  StepForward
    OBVIOUS
  <2>1. CASE [Next]_vars
    BY <2>1, ForwardNext
  <2>2. CASE \E r \in Running : Restart(r)
    BY <2>2, RunningAssumption, ForwardRestart
  <2>3. CASE \E r \in alive : StopInSetView(r)
    BY <2>3, StopOnlyLeaves, ForwardFrame DEF executed
  <2> QED
    BY <2>1, <2>2, <2>3 DEF RestartNext, restartVars
<1> QED
  BY <1>1, <1>2, ChainInductive, PTL
     DEF Spec, RestartSpec, NeverBack, StepForward
=============================================================================
