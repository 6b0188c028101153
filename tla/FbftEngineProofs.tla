--------------------------- MODULE FbftEngineProofs ---------------------------
(***************************************************************************)
(* Proofs about FbftEngine, for every cluster size, every set of running    *)
(* replicas, every horizon and every bound.                                 *)
(***************************************************************************)
EXTENDS FbftSafety, FiniteSetTheorems, WellFoundedInduction, TLAPS

-----------------------------------------------------------------------------
(* Operators of the model.                                                 *)

\* Min of FiniteSetsExt is the least element of a non-empty set of naturals.
LEMMA MinIsLeast ==
    ASSUME NEW S \in SUBSET Nat, S # {}
    PROVE  Min(S) \in S /\ \A y \in S : Min(S) <= y
<1>1. \E x \in S : \A y \in S : <<y, x>> \notin OpToRel(<, Nat)
  <2> DEFINE R == OpToRel(<, Nat)
  <2>1. IsWellFoundedOn(R, Nat)
    BY NatLessThanWellFounded
  <2> HIDE DEF R
  <2>2. \E x \in S : \A y \in S : ~ (<<y, x>> \in R)
    BY <2>1, WFMin
  <2> QED
    BY <2>2 DEF R
<1>2. \E x \in S : \A y \in S : ~ (y < x)
  BY <1>1, Zenon DEF OpToRel
<1>3. \E x \in S : \A y \in S : x <= y
  BY <1>2
<1> QED
  BY <1>3 DEF Min

\* The primary of a view is a replica (primary/2).
LEMMA PrimaryIsReplica ==
    ASSUME NEW v \in Nat
    PROVE  primary(v) \in Replica
BY ClusterSizeAssumption DEF primary, Replica

\* A replica with a checkpoint has a low watermark (get_h/2).
LEMMA LowWatermark ==
    ASSUME TypeOK, NEW r \in Replica
    PROVE  get_h(r) \in Nat
<1> DEFINE S == {c.n : c \in checkpoint[r]}
<1>1. checkpoint[r] \in SUBSET Checkpoint /\ checkpoint[r] # {}
  BY DEF TypeOK
<1>2. S \in SUBSET Nat /\ S # {}
  BY <1>1 DEF Checkpoint
<1>3. Min(S) \in S
  BY <1>2, MinIsLeast
<1> QED
  BY <1>2, <1>3 DEF get_h

\* Every slot that a replica can have prepared is well formed (prepared/4).
LEMMA KnownSlotsType ==
    ASSUME TypeOK, NEW r \in Replica
    PROVE  KnownSlots(r) \subseteq Slot
BY DEF TypeOK, KnownSlots, LoggedPrePrepares, Slot, PiEntry, QiEntry,
       PrePrepare

\* The block that FindByV_N_Req returns is a block.
LEMMA FoundBlockType ==
    ASSUME TypeOK, NEW r \in Replica, NEW d
    PROVE  FindByV_N_Req(r, d) \subseteq Block
BY DEF TypeOK, FindByV_N_Req, PrePrepare

\* The sets P and Q of a VIEW_CHANGE are well formed (update_view_change_Pi/1,
\* update_view_change_Qi/1).
LEMMA CertificateTypes ==
    ASSUME TypeOK, NEW r \in Replica
    PROVE  /\ update_view_change_Pi(r) \subseteq PiEntry
           /\ update_view_change_Qi(r) \subseteq QiEntry
<1>1. KnownSlots(r) \subseteq Slot
  BY KnownSlotsType
<1>2. update_view_change_Pi(r) \subseteq PiEntry
  BY <1>1 DEF update_view_change_Pi, Slot, PiEntry
<1>3. LoggedPrePrepares(r) \subseteq PrePrepare
  BY DEF TypeOK, LoggedPrePrepares
<1>4. update_view_change_Qi(r) \subseteq QiEntry
  BY <1>3 DEF update_view_change_Qi, PrePrepare, QiEntry
<1> QED
  BY <1>2, <1>4

\* The entries of Chi that correct_chi/3 accepts are well formed.
LEMMA ChiEntriesType ==
    ASSUME NEW Nu \in SUBSET ViewChange, NEW n \in Nat
    PROVE  ChiEntries(n, Nu) \subseteq ChiEntry
<1>1. UNION {k.Q : k \in Nu} \subseteq QiEntry
  BY DEF ViewChange
<1>2. \A m : ChiChoices(m, n, Nu) \subseteq QiEntry
  BY <1>1 DEF ChiChoices
<1> QED
  BY <1>2 DEF ChiEntries, ChiEntry, QiEntry

-----------------------------------------------------------------------------
(* Type correctness.                                                       *)

LEMMA TypeInit == Init => TypeOK
<1> SUFFICES ASSUME Init PROVE TypeOK
  OBVIOUS
<1>1. \A n \in Nat : ChainBlock(n) \in Block
  BY DEF ChainBlock, Block
<1>2. \A r \in Replica : StartHeight[r] \in Nat /\ StartView[r] \in Nat
  BY StartHeightAssumption, StartViewAssumption
<1>3. msg_log_request \in [Replica -> SUBSET Nat]
  BY <1>2, BoundsAssumption DEF Init, InitialRequests
<1>4. val \in [Replica -> Block]
  BY <1>1, <1>2 DEF Init
<1>5. /\ checkpoint \in [Replica -> SUBSET Checkpoint]
      /\ \A r \in Replica : checkpoint[r] # {}
  <2>1. \A n \in Nat :
          [n |-> n, val |-> ChainBlock(n), t |-> n] \in Checkpoint
    BY <1>1 DEF Checkpoint
  <2> QED
    BY <1>2, <2>1 DEF Init
<1>6. blocks \subseteq Block
  BY <1>1, <1>2 DEF Init
<1> QED
  BY <1>3, <1>4, <1>5, <1>6, RunningAssumption, StartHeightAssumption,
     StartViewAssumption, FS_EmptySet DEF Init, TypeOK, Nothing

LEMMA TypeGenerateRequests ==
    ASSUME TypeOK, NEW r \in Replica, GenerateRequests(r)
    PROVE  TypeOK'
BY DEF TypeOK, GenerateRequests, RequestTimes,
       agreementLogs, viewLogs, certificates, executed,
       agreementOut, viewOut, roastOut

LEMMA TypeSendPrePrepare ==
    ASSUME TypeOK, NEW r \in Replica, SendPrePrepare(r)
    PROVE  TypeOK'
<1> PICK d \in msg_log_request[r], tag \in Tags :
      LET n == seqno[r] + 1
          b == [n |-> n, t |-> d, v |-> view[r], tag |-> tag]
          m == [v |-> view[r], n |-> n, d |-> d, b |-> b, sender |-> r]
      IN /\ seqno' = [seqno EXCEPT ![r] = n]
         /\ msg_out_pre_prepare' = msg_out_pre_prepare \union {m}
         /\ msg_log_pre_prepare' =
              [msg_log_pre_prepare EXCEPT ![r] = @ \union {m}]
  BY DEF SendPrePrepare
<1> DEFINE n == seqno[r] + 1
           b == [n |-> n, t |-> d, v |-> view[r], tag |-> tag]
           m == [v |-> view[r], n |-> n, d |-> d, b |-> b, sender |-> r]
<1>1. n \in Nat /\ d \in Nat /\ view[r] \in Nat /\ tag \in Nat
  BY TagsAssumption DEF TypeOK
<1>2. b \in Block
  BY <1>1 DEF Block
<1>3. m \in PrePrepare
  BY <1>1, <1>2 DEF PrePrepare
<1> QED
  BY <1>1, <1>3 DEF TypeOK, SendPrePrepare,
       agreementLogs, viewLogs, certificates, executed,
       agreementOut, viewOut, roastOut

LEMMA TypeReceivePrePrepare ==
    ASSUME TypeOK, NEW r \in Replica, ReceivePrePrepare(r)
    PROVE  TypeOK'
BY DEF TypeOK, ReceivePrePrepare,
       agreementLogs, viewLogs, certificates, executed,
       agreementOut, viewOut, roastOut

LEMMA TypeSendPrepare ==
    ASSUME TypeOK, NEW r \in Replica, SendPrepare(r)
    PROVE  TypeOK'
<1> PICK s \in KnownSlots(r) :
      LET m == [v |-> s.v, n |-> s.n, d |-> s.d, sender |-> r] IN
      /\ msg_out_prepare' = msg_out_prepare \union {m}
      /\ msg_log_prepare' = [msg_log_prepare EXCEPT ![r] = @ \union {m}]
  BY DEF SendPrepare
<1>1. [v |-> s.v, n |-> s.n, d |-> s.d, sender |-> r] \in Prepare
  BY KnownSlotsType DEF Slot, Prepare
<1> QED
  BY <1>1 DEF TypeOK, SendPrepare,
       agreementLogs, viewLogs, certificates, executed,
       agreementOut, viewOut, roastOut

LEMMA TypeReceivePrepare ==
    ASSUME TypeOK, NEW r \in Replica, ReceivePrepare(r)
    PROVE  TypeOK'
BY DEF TypeOK, ReceivePrepare,
       agreementLogs, viewLogs, certificates, executed,
       agreementOut, viewOut, roastOut

\* The share of a COMMIT is a number (GetPreSignatureShare).
LEMMA ShareType ==
    ASSUME TypeOK, NEW r, NEW v, NEW n
    PROVE  GetPreSignatureShare(v, n, r) \in Nat
<1> DEFINE S == {m \in msg_out_commit : m.v = v /\ m.n = n /\ m.sender = r}
<1>1. S \subseteq msg_out_commit /\ IsFiniteSet(msg_out_commit)
  BY DEF TypeOK
<1> HIDE DEF S
<1>2. IsFiniteSet(S)
  BY <1>1, FS_Subset
<1>3. Cardinality(S) \in Nat
  BY <1>2, FS_CardinalityType
<1> QED
  BY <1>3 DEF GetPreSignatureShare, S

LEMMA TypeSendCommit ==
    ASSUME TypeOK, NEW r \in Replica, SendCommit(r)
    PROVE  TypeOK'
<1> DEFINE m(s) == [v |-> s.v, n |-> s.n,
                    data |-> GetPreSignatureShare(s.v, s.n, r), sender |-> r]
<1> PICK s \in KnownSlots(r) :
      /\ msg_out_commit' = msg_out_commit \union {m(s)}
      /\ msg_log_commit' = [msg_log_commit EXCEPT ![r] = @ \union {m(s)}]
  BY DEF SendCommit
<1>1. m(s) \in Commit
  BY KnownSlotsType, ShareType DEF Slot, Commit
<1> HIDE DEF m
<1>2. msg_out_commit' \subseteq Commit /\ IsFiniteSet(msg_out_commit')
  BY <1>1, FS_AddElement DEF TypeOK
<1>3. msg_log_commit' \in [Replica -> SUBSET Commit]
  BY <1>1 DEF TypeOK
<1> QED
  BY <1>2, <1>3 DEF TypeOK, SendCommit,
       agreementLogs, viewLogs, certificates, executed,
       agreementOut, viewOut, roastOut

LEMMA TypeReceiveCommit ==
    ASSUME TypeOK, NEW r \in Replica, ReceiveCommit(r)
    PROVE  TypeOK'
<1> DEFINE e(m) == [v |-> m.v, n |-> m.n, sender |-> m.sender]
<1> PICK m \in msg_out_commit : RECEIVE_COMMIT(m, r)
  BY DEF ReceiveCommit
<1>1. m \in Commit /\ e(m) \in RecoveryCommit
  BY DEF TypeOK, Commit, RecoveryCommit
<1>2. /\ \/ msg_log_commit' = [msg_log_commit EXCEPT ![r] = @ \union {m}]
         \/ UNCHANGED msg_log_commit
      /\ \/ msg_log_commit_view_recovery' =
              [msg_log_commit_view_recovery EXCEPT ![r] = @ \union {e(m)}]
         \/ UNCHANGED msg_log_commit_view_recovery
  BY DEF RECEIVE_COMMIT
<1> HIDE DEF e
<1>3. /\ msg_log_commit' \in [Replica -> SUBSET Commit]
      /\ msg_log_commit_view_recovery' \in [Replica -> SUBSET RecoveryCommit]
  BY <1>1, <1>2 DEF TypeOK
<1> QED
  BY <1>3 DEF TypeOK, ReceiveCommit,
       agreementLogs, viewLogs, certificates, executed,
       agreementOut, viewOut, roastOut

LEMMA TypeRoastInit ==
    ASSUME TypeOK, NEW r \in Replica, RoastInit(r)
    PROVE  TypeOK'
<1>1. KnownSlots(r) \subseteq Slot
  BY KnownSlotsType
<1>2. /\ roast_active' \in [Replica -> SUBSET Slot]
      /\ \A q \in Replica : \A s, t \in roast_active'[q] : s = t
  BY <1>1 DEF TypeOK, RoastInit, set_roast_active
<1>3. msg_out_roast_pre_signature' \subseteq RoastPreSignature
  BY DEF TypeOK, RoastInit, RoastPreSignature
<1>4. UNCHANGED <<alive, view, active_view, seqno, executed, checkpoint,
                  msg_log_request, agreementLogs, viewLogs, certificates,
                  agreementOut, viewOut, msg_out_roast_signature_share,
                  blocks>>
  BY DEF RoastInit
<1> QED
  BY <1>2, <1>3, <1>4 DEF TypeOK, agreementLogs, viewLogs, certificates,
       executed, agreementOut, viewOut, roastOut

LEMMA TypeRoastReceivePreSignature ==
    ASSUME TypeOK, NEW r \in Replica, RoastReceivePreSignature(r)
    PROVE  TypeOK'
<1>1. \A d : FindByV_N_Req(r, d) \subseteq Block
  BY FoundBlockType
<1> QED
  BY <1>1 DEF TypeOK, RoastReceivePreSignature, RoastSignatureShare,
       agreementLogs, viewLogs, certificates, executed,
       agreementOut, viewOut, roastOut

LEMMA TypeExecute ==
    ASSUME TypeOK, NEW r \in Replica, Execute(r)
    PROVE  TypeOK'
<1>1. KnownSlots(r) \subseteq Slot
  BY KnownSlotsType
<1>2. \A d : FindByV_N_Req(r, d) \subseteq Block
  BY FoundBlockType
<1> QED
  BY <1>1, <1>2 DEF TypeOK, Execute, apply_EXECUTE, Slot,
       agreementLogs, viewLogs, certificates, executed,
       agreementOut, viewOut, roastOut

LEMMA TypeReceiveBlock ==
    ASSUME TypeOK, NEW r \in Replica, ReceiveBlock(r)
    PROVE  TypeOK'
<1> PICK b \in blocks : RECEIVE_BLOCK(b, r)
  BY DEF ReceiveBlock
<1>1. b \in Block /\ b.n \in Nat /\ b.t \in Nat
  BY DEF TypeOK, Block
<1> DEFINE k == [n |-> b.n, val |-> b, t |-> b.t]
<1>2. k \in Checkpoint /\ k.n = b.n
  BY <1>1 DEF Checkpoint
<1>3. k \in add_checkpoint(b, r) /\ add_checkpoint(b, r) \subseteq Checkpoint
  BY <1>1, <1>2 DEF add_checkpoint, TypeOK
<1>4. checkpoint' = [checkpoint EXCEPT ![r] = add_checkpoint(b, r)]
  BY DEF RECEIVE_BLOCK
<1>5. /\ checkpoint' \in [Replica -> SUBSET Checkpoint]
      /\ \A s \in Replica : checkpoint'[s] # {}
  BY <1>3, <1>4 DEF TypeOK
<1>6. /\ last_exec' \in [Replica -> Nat]
      /\ last_rep' \in [Replica -> Nat]
      /\ val' \in [Replica -> Block]
  BY <1>1 DEF TypeOK, RECEIVE_BLOCK, apply_EXECUTE, executed
<1>7. /\ msg_log_pre_prepare' \in [Replica -> SUBSET PrePrepare]
      /\ msg_log_prepare' \in [Replica -> SUBSET Prepare]
      /\ msg_log_commit' \in [Replica -> SUBSET Commit]
      /\ view_change_Pi' \in [Replica -> SUBSET PiEntry]
      /\ view_change_Qi' \in [Replica -> SUBSET QiEntry]
      /\ msg_log_request' \in [Replica -> SUBSET Nat]
      /\ roast_active' \in [Replica -> SUBSET Slot]
      /\ \A q \in Replica : \A s, t \in roast_active'[q] : s = t
  BY DEF TypeOK, RECEIVE_BLOCK, collect_garbage, Above
<1> QED
  BY <1>5, <1>6, <1>7 DEF TypeOK, ReceiveBlock,
       agreementLogs, viewLogs, certificates, executed,
       agreementOut, viewOut, roastOut

LEMMA TypeRecoverView ==
    ASSUME TypeOK, NEW r \in Replica, RecoverView(r)
    PROVE  TypeOK'
<1> PICK v \in RecoverableViews(r) :
      /\ view' = [view EXCEPT ![r] = v]
      /\ msg_log_clear_where_view_less_than(r, v)
      /\ msg_log_view_change' = FromView(msg_log_view_change, r, v)
  BY DEF RecoverView
<1>1. v \in Nat
  BY DEF TypeOK, RecoverableViews, RecoveryCommit
<1>2. /\ msg_log_pre_prepare' \in [Replica -> SUBSET PrePrepare]
      /\ msg_log_prepare' \in [Replica -> SUBSET Prepare]
      /\ msg_log_commit' \in [Replica -> SUBSET Commit]
      /\ msg_log_view_change' \in [Replica -> SUBSET ViewChange]
      /\ msg_log_new_view' \in [Replica -> SUBSET NewView]
      /\ UNCHANGED msg_log_commit_view_recovery
  BY DEF TypeOK, msg_log_clear_where_view_less_than, FromView
<1> QED
  BY <1>1, <1>2 DEF TypeOK, RecoverView,
       agreementLogs, viewLogs, certificates, executed,
       agreementOut, viewOut, roastOut

LEMMA TypeSendViewChange ==
    ASSUME TypeOK, NEW r \in Replica, SendViewChange(r)
    PROVE  TypeOK'
<1> DEFINE v == view[r] + 1
           P == update_view_change_Pi(r)
           Q == update_view_change_Qi(r)
           vc(c) == [v |-> v, h |-> get_h(r), c |-> c.val,
                     P |-> P, Q |-> Q, sender |-> r]
<1> PICK c \in checkpoint[r] :
      /\ view' = [view EXCEPT ![r] = v]
      /\ active_view' = [active_view EXCEPT ![r] = FALSE]
      /\ roast_active' = set_roast_active(r, {})
      /\ view_change_Pi' = [view_change_Pi EXCEPT ![r] = P]
      /\ view_change_Qi' = [view_change_Qi EXCEPT ![r] = Q]
      /\ msg_out_view_change' = msg_out_view_change \union {vc(c)}
      /\ msg_log_clear_where_view_less_than(r, v)
      /\ msg_log_view_change' =
           [msg_log_view_change EXCEPT ![r] =
               {x \in @ \union {vc(c)} : x.v >= v}]
  BY DEF SendViewChange
<1>1. v \in Nat /\ get_h(r) \in Nat /\ c.val \in Block
  BY LowWatermark DEF TypeOK, Checkpoint
<1>2. P \subseteq PiEntry /\ Q \subseteq QiEntry
  BY CertificateTypes
<1>3. vc(c) \in ViewChange
  BY <1>1, <1>2 DEF ViewChange
<1> HIDE DEF vc, P, Q
<1>4. /\ msg_log_pre_prepare' \in [Replica -> SUBSET PrePrepare]
      /\ msg_log_prepare' \in [Replica -> SUBSET Prepare]
      /\ msg_log_commit' \in [Replica -> SUBSET Commit]
      /\ msg_log_new_view' \in [Replica -> SUBSET NewView]
      /\ UNCHANGED msg_log_commit_view_recovery
  BY DEF TypeOK, msg_log_clear_where_view_less_than, FromView
<1>5. /\ msg_log_view_change' \in [Replica -> SUBSET ViewChange]
      /\ msg_out_view_change' \subseteq ViewChange
  BY <1>3 DEF TypeOK
<1>6. /\ view' \in [Replica -> Nat]
      /\ active_view' \in [Replica -> BOOLEAN]
      /\ roast_active' \in [Replica -> SUBSET Slot]
      /\ \A q \in Replica : \A s, t \in roast_active'[q] : s = t
      /\ view_change_Pi' \in [Replica -> SUBSET PiEntry]
      /\ view_change_Qi' \in [Replica -> SUBSET QiEntry]
  BY <1>1, <1>2 DEF TypeOK, set_roast_active
<1>7. UNCHANGED <<alive, seqno, executed, checkpoint, msg_log_request,
                  agreementOut, msg_out_new_view, roastOut, blocks>>
  BY DEF SendViewChange
<1> QED
  BY <1>4, <1>5, <1>6, <1>7 DEF TypeOK, executed, agreementOut, roastOut

LEMMA TypeReceiveViewChange ==
    ASSUME TypeOK, NEW r \in Replica, ReceiveViewChange(r)
    PROVE  TypeOK'
BY DEF TypeOK, ReceiveViewChange,
       agreementLogs, viewLogs, certificates, executed,
       agreementOut, viewOut, roastOut

LEMMA TypeSendNewView ==
    ASSUME TypeOK, NEW r \in Replica, SendNewView(r)
    PROVE  TypeOK'
<1> DEFINE Nu == msg_log_view_change[r]
           nv(Chi) == [v |-> view[r], Nu |-> Nu, Chi |-> Chi, sender |-> r]
<1>1. /\ alive' \subseteq alive
      /\ \/ UNCHANGED <<msg_log_new_view, msg_out_new_view>>
         \/ \E Chi \in SUBSET UNION {ChiEntries(n, Nu) :
                                         n \in PreparedNs(Nu)} :
              /\ msg_log_new_view' =
                   [msg_log_new_view EXCEPT ![r] = @ \union {nv(Chi)}]
              /\ msg_out_new_view' = msg_out_new_view \union {nv(Chi)}
      /\ UNCHANGED <<view, active_view, seqno, executed, checkpoint,
                     msg_log_request, agreementLogs,
                     msg_log_commit_view_recovery, msg_log_view_change,
                     certificates, roast_active, agreementOut,
                     msg_out_view_change, roastOut, blocks>>
  BY DEF SendNewView
<1>2. Nu \in SUBSET ViewChange /\ view[r] \in Nat
  BY DEF TypeOK
<1>3. PreparedNs(Nu) \subseteq Nat
  BY <1>2 DEF PreparedNs, ViewChange, PiEntry
<1>4. \A Chi \in SUBSET UNION {ChiEntries(n, Nu) : n \in PreparedNs(Nu)} :
        nv(Chi) \in NewView
  <2>1. \A n \in PreparedNs(Nu) : ChiEntries(n, Nu) \subseteq ChiEntry
    BY <1>2, <1>3, ChiEntriesType
  <2>2. UNION {ChiEntries(n, Nu) : n \in PreparedNs(Nu)} \subseteq ChiEntry
    BY <2>1
  <2> QED
    BY <1>2, <2>2 DEF NewView
<1> HIDE DEF nv, Nu
<1>5. /\ msg_log_new_view' \in [Replica -> SUBSET NewView]
      /\ msg_out_new_view' \subseteq NewView
  BY <1>1, <1>4 DEF TypeOK
<1> QED
  BY <1>1, <1>5 DEF TypeOK, agreementLogs, certificates, executed,
       agreementOut, roastOut

LEMMA TypeReceiveNewView ==
    ASSUME TypeOK, NEW r \in Replica, ReceiveNewView(r)
    PROVE  TypeOK'
BY DEF TypeOK, ReceiveNewView, RECEIVE_NEW_VIEW,
       agreementLogs, viewLogs, certificates, executed,
       agreementOut, viewOut, roastOut

LEMMA TypeProcessNewView ==
    ASSUME TypeOK, NEW r \in Replica, ProcessNewView(r)
    PROVE  TypeOK'
<1> DEFINE v == view[r]
           ppps(nv) == {[v |-> v, n |-> e.n, d |-> e.d, b |-> e.b,
                         sender |-> primary(v)] : e \in nv.Chi}
           own(nv) == IF primary(v) = r THEN {}
                      ELSE {[v |-> v, n |-> e.n, d |-> e.d, sender |-> r] :
                               e \in nv.Chi}
           ns(nv) == {m.n : m \in {x \in msg_log_pre_prepare[r]
                                          \union ppps(nv) : x.v = v}}
<1> PICK nv \in msg_log_new_view[r] :
      \E s \in IF ns(nv) = {} THEN {get_h(r)} ELSE ns(nv) :
        /\ active_view' = [active_view EXCEPT ![r] = TRUE]
        /\ msg_log_pre_prepare' =
             [msg_log_pre_prepare EXCEPT ![r] = @ \union ppps(nv)]
        /\ seqno' = [seqno EXCEPT ![r] = s]
        /\ msg_log_prepare' = [msg_log_prepare EXCEPT ![r] = @ \union own(nv)]
        /\ msg_out_prepare' = msg_out_prepare \union own(nv)
  BY DEF ProcessNewView
<1>1. v \in Nat /\ get_h(r) \in Nat /\ primary(v) \in Replica
  BY LowWatermark, PrimaryIsReplica DEF TypeOK
<1>2. nv.Chi \subseteq ChiEntry
  BY DEF TypeOK, NewView
<1>3. ppps(nv) \subseteq PrePrepare /\ own(nv) \subseteq Prepare
  BY <1>1, <1>2 DEF ChiEntry, PrePrepare, Prepare
<1> HIDE DEF ppps, own
<1>4. ns(nv) \subseteq Nat
  BY <1>3 DEF TypeOK, PrePrepare
<1> HIDE DEF ns
<1>5. /\ active_view' \in [Replica -> BOOLEAN]
      /\ msg_log_pre_prepare' \in [Replica -> SUBSET PrePrepare]
      /\ seqno' \in [Replica -> Nat]
      /\ msg_log_prepare' \in [Replica -> SUBSET Prepare]
      /\ msg_out_prepare' \subseteq Prepare
  BY <1>1, <1>3, <1>4 DEF TypeOK
<1>6. UNCHANGED <<alive, view, executed, checkpoint, msg_log_request,
                  msg_log_commit, viewLogs, certificates, roast_active,
                  msg_out_pre_prepare, msg_out_commit, viewOut, roastOut,
                  blocks>>
  BY DEF ProcessNewView
<1> QED
  BY <1>5, <1>6 DEF TypeOK, viewLogs, certificates, executed, viewOut,
       roastOut

LEMMA TypeNext == TypeOK /\ [Next]_vars => TypeOK'
<1> SUFFICES ASSUME TypeOK, [Next]_vars PROVE TypeOK'
  OBVIOUS
<1>1. CASE UNCHANGED vars
  BY <1>1 DEF TypeOK, vars, agreementLogs, viewLogs, certificates, executed,
       agreementOut, viewOut, roastOut
<1>2. CASE Next
  <2> PICK r \in alive :
        \/ GenerateRequests(r)
        \/ SendPrePrepare(r) \/ ReceivePrePrepare(r)
        \/ SendPrepare(r) \/ ReceivePrepare(r)
        \/ SendCommit(r) \/ ReceiveCommit(r)
        \/ RoastInit(r) \/ RoastReceivePreSignature(r)
        \/ Execute(r) \/ ReceiveBlock(r)
        \/ RecoverView(r)
        \/ SendViewChange(r) \/ ReceiveViewChange(r)
        \/ SendNewView(r) \/ ReceiveNewView(r) \/ ProcessNewView(r)
    BY <1>2, Zenon DEF Next
  <2>1. r \in Replica
    BY DEF TypeOK
  <2> QED
    BY <2>1, TypeGenerateRequests, TypeSendPrePrepare, TypeReceivePrePrepare,
       TypeSendPrepare, TypeReceivePrepare, TypeSendCommit,
       TypeReceiveCommit, TypeRoastInit, TypeRoastReceivePreSignature,
       TypeExecute, TypeReceiveBlock, TypeRecoverView,
       TypeSendViewChange, TypeReceiveViewChange, TypeSendNewView,
       TypeReceiveNewView, TypeProcessNewView
<1> QED
  BY <1>1, <1>2

\* Type correctness: in every reachable state of every cluster, each table of
\* the engine holds values of its kind and each replica has a checkpoint, so
\* that its low watermark get_h/2 is defined.
THEOREM TypeCorrect == Spec => []TypeOK
BY TypeInit, TypeNext, PTL DEF Spec
=============================================================================
