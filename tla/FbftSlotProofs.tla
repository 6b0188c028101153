---------------------------- MODULE FbftSlotProofs ----------------------------
(***************************************************************************)
(* SlotAgreement for every cluster in which all replicas start in the same  *)
(* view.  In one view only its primary proposes, either with PRE_PREPARE or *)
(* in the Chi of its NEW_VIEW.  The invariant says that the primary enters  *)
(* the view once, by a timeout, sends one NEW_VIEW before it is active and  *)
(* proposes only above that NEW_VIEW afterwards.                            *)
(***************************************************************************)
EXTENDS FbftEngineProofs

\* All replicas find the same view in their databases.
SameStart == \A r, s \in Replica : StartView[r] = StartView[s]

FirstViewNumber == StartView[0]

\* What a primary proposed with PRE_PREPARE is of a view it reached, and while
\* it is in that view not above its sequence number.
ProposalsOfPrimary ==
    \A m \in msg_out_pre_prepare :
        /\ m.sender = primary(m.v)
        /\ m.v <= view[m.sender]
        /\ m.v = view[m.sender] =>
             active_view[m.sender] /\ m.n <= seqno[m.sender]

ProposedOnce ==
    \A m, k \in msg_out_pre_prepare : m.v = k.v /\ m.n = k.n => m = k

NewViewsOfPrimary ==
    \A nv \in msg_out_new_view :
        /\ nv.sender = primary(nv.v)
        /\ nv.v <= view[nv.sender]
        /\ nv.v = view[nv.sender] => nv \in msg_log_new_view[nv.sender]
        /\ \A e, f \in nv.Chi : e.n = f.n => e = f

NewViewOnce ==
    \A nv, nw \in msg_out_new_view : nv.v = nw.v => nv = nw

\* A primary active in a view that it did not start in has opened it, and its
\* sequence number has passed what the NEW_VIEW proposes.
OpenedByPrimary ==
    \A r \in Replica :
        active_view[r] /\ view[r] > FirstViewNumber /\ primary(view[r]) = r =>
            \E nv \in msg_log_new_view[r] :
                nv.v = view[r] /\ \A e \in nv.Chi : e.n <= seqno[r]

ProposedAboveNewView ==
    \A m \in msg_out_pre_prepare, nv \in msg_out_new_view :
        m.v = nv.v /\ m.v > FirstViewNumber => \A e \in nv.Chi : e.n < m.n

\* A logged PRE_PREPARE was sent as such or comes out of a NEW_VIEW.
InNewView(m) ==
    \E nv \in msg_out_new_view :
        /\ nv.v = m.v
        /\ [n |-> m.n, d |-> m.d, b |-> m.b] \in nv.Chi

LoggedFromPrimary ==
    \A r \in Replica : \A m \in msg_log_pre_prepare[r] :
        /\ m.sender = primary(m.v)
        /\ m \in msg_out_pre_prepare \/ (m.v > FirstViewNumber /\ InNewView(m))

LogsWereSent ==
    \A r \in Replica :
        /\ msg_log_new_view[r] \subseteq msg_out_new_view
        /\ \A e \in msg_log_commit_view_recovery[r] :
             \E c \in msg_out_commit : c.v = e.v

\* No replica is ahead of the primary of what it prepared or committed.
ViewsReached ==
    /\ \A r \in Replica :
         /\ view[r] >= FirstViewNumber
         /\ ~active_view[r] => view[r] > FirstViewNumber
         /\ \A e \in view_change_Pi[r] : e.v <= view[primary(e.v)]
         /\ \A e \in view_change_Qi[r] : e.v <= view[primary(e.v)]
    /\ \A c \in msg_out_commit : c.v <= view[primary(c.v)]

SlotInv ==
    /\ ProposalsOfPrimary
    /\ ProposedOnce
    /\ NewViewsOfPrimary
    /\ NewViewOnce
    /\ OpenedByPrimary
    /\ ProposedAboveNewView
    /\ LoggedFromPrimary
    /\ LogsWereSent
    /\ ViewsReached

-----------------------------------------------------------------------------
(* What the invariant rests on.                                            *)

slotVars == <<view, active_view, seqno, msg_log_pre_prepare,
              msg_log_new_view, msg_log_commit_view_recovery, certificates,
              msg_out_pre_prepare, msg_out_new_view, msg_out_commit>>

\* Most steps leave everything that the invariant reads as it is.
LEMMA SlotFrame ==
    ASSUME SlotInv, UNCHANGED slotVars
    PROVE  SlotInv'
BY DEF SlotInv, slotVars, certificates, ProposalsOfPrimary, ProposedOnce,
       NewViewsOfPrimary, NewViewOnce, OpenedByPrimary, ProposedAboveNewView,
       LoggedFromPrimary, InNewView, LogsWereSent, ViewsReached

\* The primary of a logged proposal has reached its view.
LEMMA LoggedReached ==
    ASSUME TypeOK, SlotInv, NEW r \in Replica,
           NEW m \in msg_log_pre_prepare[r]
    PROVE  m.v <= view[primary(m.v)]
<1>1. m.sender = primary(m.v)
  BY DEF SlotInv, LoggedFromPrimary
<1>2. CASE m \in msg_out_pre_prepare
  BY <1>1, <1>2 DEF SlotInv, ProposalsOfPrimary
<1>3. CASE InNewView(m)
  <2> PICK nv \in msg_out_new_view : nv.v = m.v
    BY <1>3 DEF InNewView
  <2> QED
    BY DEF SlotInv, NewViewsOfPrimary
<1> QED
  BY <1>2, <1>3 DEF SlotInv, LoggedFromPrimary

\* The primary of a slot that a replica can have prepared has reached its view.
LEMMA KnownReached ==
    ASSUME TypeOK, SlotInv, NEW r \in Replica, NEW s \in KnownSlots(r)
    PROVE  s.v <= view[primary(s.v)]
<1> PICK e \in view_change_Pi[r] \union view_change_Qi[r]
                 \union LoggedPrePrepares(r) : s.v = e.v
  BY DEF KnownSlots
<1>1. CASE e \in view_change_Pi[r] \union view_change_Qi[r]
  BY <1>1 DEF SlotInv, ViewsReached
<1>2. CASE e \in LoggedPrePrepares(r)
  BY <1>2, LoggedReached DEF LoggedPrePrepares
<1> QED
  BY <1>1, <1>2

LEMMA SlotInit == SameStart /\ Init => SlotInv
<1> SUFFICES ASSUME SameStart, Init PROVE SlotInv
  OBVIOUS
<1>1. 0 \in Replica
  BY ClusterSizeAssumption DEF Replica
<1>2. \A r \in Replica : view[r] = FirstViewNumber /\ view[r] \in Nat
  BY <1>1, StartViewAssumption DEF Init, SameStart, FirstViewNumber
<1>3. \A r \in Replica : active_view[r] = TRUE
  BY DEF Init
<1>4. OpenedByPrimary
  BY <1>2 DEF OpenedByPrimary
<1>5. ViewsReached
  BY <1>2, <1>3 DEF ViewsReached, Init, Nothing
<1> QED
  BY <1>4, <1>5 DEF SlotInv, Init, Nothing, ProposalsOfPrimary, ProposedOnce,
       NewViewsOfPrimary, NewViewOnce, ProposedAboveNewView,
       LoggedFromPrimary, LogsWereSent

-----------------------------------------------------------------------------
(* One lemma per action that disturbs the invariant.                       *)

LEMMA SlotSendPrePrepare ==
    ASSUME TypeOK, SlotInv, NEW r \in Replica, SendPrePrepare(r)
    PROVE  SlotInv'
<1> DEFINE v == view[r]
           n == seqno[r] + 1
<1> PICK m : /\ m.v = v /\ m.n = n /\ m.sender = r
             /\ active_view[r] /\ primary(v) = r
             /\ seqno' = [seqno EXCEPT ![r] = n]
             /\ msg_out_pre_prepare' = msg_out_pre_prepare \union {m}
             /\ msg_log_pre_prepare' =
                  [msg_log_pre_prepare EXCEPT ![r] = @ \union {m}]
             /\ UNCHANGED <<view, active_view, msg_log_new_view,
                            msg_log_commit_view_recovery, certificates,
                            msg_out_new_view, msg_out_commit>>
  BY DEF SendPrePrepare, pre_SEND_PRE_PREPARE, viewLogs, viewOut
<1>1. v \in Nat /\ seqno[r] \in Nat /\ n > seqno[r]
  BY DEF TypeOK
<1>2. \A s \in Replica : seqno[s] <= seqno'[s] /\ seqno[s] \in Nat
                         /\ seqno'[s] \in Nat
  BY <1>1 DEF TypeOK
<1>3. ProposalsOfPrimary'
  BY <1>1, <1>2 DEF SlotInv, ProposalsOfPrimary, TypeOK, PrePrepare
<1>4. ProposedOnce'
  <2>1. \A k \in msg_out_pre_prepare : k.v = v => k.n < n /\ k.n # n
    BY <1>1 DEF SlotInv, ProposalsOfPrimary, TypeOK, PrePrepare
  <2> QED
    BY <2>1 DEF SlotInv, ProposedOnce
<1>5. OpenedByPrimary'
  BY <1>2 DEF SlotInv, OpenedByPrimary, TypeOK, NewView, ChiEntry
<1>6. ProposedAboveNewView'
  <2>1. ASSUME NEW nv \in msg_out_new_view, nv.v = v, v > FirstViewNumber,
               NEW e \in nv.Chi
        PROVE  e.n < n
    <3>1. PICK nw \in msg_log_new_view[r] :
            nw.v = v /\ \A f \in nw.Chi : f.n <= seqno[r]
      BY <2>1 DEF SlotInv, OpenedByPrimary
    <3>2. nw = nv
      BY <2>1, <3>1 DEF SlotInv, LogsWereSent, NewViewOnce
    <3>3. e.n \in Nat
      BY DEF TypeOK, NewView, ChiEntry
    <3> QED
      BY <1>1, <3>1, <3>2, <3>3
  <2> QED
    BY <2>1 DEF SlotInv, ProposedAboveNewView
<1>7. LoggedFromPrimary'
  BY DEF SlotInv, LoggedFromPrimary, InNewView, TypeOK
<1> QED
  BY <1>3, <1>4, <1>5, <1>6, <1>7 DEF SlotInv, certificates,
       NewViewsOfPrimary, NewViewOnce, LogsWereSent, ViewsReached

LEMMA SlotReceivePrePrepare ==
    ASSUME TypeOK, SlotInv, NEW r \in Replica, ReceivePrePrepare(r)
    PROVE  SlotInv'
<1> PICK m \in msg_out_pre_prepare :
      /\ msg_log_pre_prepare' =
           [msg_log_pre_prepare EXCEPT ![r] = @ \union {m}]
      /\ UNCHANGED <<view, active_view, seqno, msg_log_new_view,
                     msg_log_commit_view_recovery, certificates,
                     msg_out_pre_prepare, msg_out_new_view, msg_out_commit>>
  BY DEF ReceivePrePrepare, viewLogs, viewOut, agreementOut
<1>1. LoggedFromPrimary'
  BY DEF SlotInv, LoggedFromPrimary, ProposalsOfPrimary, InNewView, TypeOK
<1> QED
  BY <1>1 DEF SlotInv, certificates, ProposalsOfPrimary, ProposedOnce,
       NewViewsOfPrimary, NewViewOnce, OpenedByPrimary, ProposedAboveNewView,
       LogsWereSent, ViewsReached

LEMMA SlotSendCommit ==
    ASSUME TypeOK, SlotInv, NEW r \in Replica, SendCommit(r)
    PROVE  SlotInv'
<1> PICK s \in KnownSlots(r) :
      /\ msg_out_commit' = msg_out_commit \union
           {[v |-> s.v, n |-> s.n,
             data |-> GetPreSignatureShare(s.v, s.n, r), sender |-> r]}
      /\ UNCHANGED <<view, active_view, seqno, msg_log_pre_prepare,
                     msg_log_new_view, msg_log_commit_view_recovery,
                     certificates, msg_out_pre_prepare, msg_out_new_view>>
  BY DEF SendCommit, viewLogs, viewOut
<1>1. s.v <= view[primary(s.v)]
  BY KnownReached
<1>2. ViewsReached'
  BY <1>1 DEF SlotInv, ViewsReached, certificates
<1>3. LogsWereSent'
  BY DEF SlotInv, LogsWereSent
<1> QED
  BY <1>2, <1>3 DEF SlotInv, ProposalsOfPrimary, ProposedOnce,
       NewViewsOfPrimary, NewViewOnce, OpenedByPrimary, ProposedAboveNewView,
       LoggedFromPrimary, InNewView

LEMMA SlotReceiveCommit ==
    ASSUME TypeOK, SlotInv, NEW r \in Replica, ReceiveCommit(r)
    PROVE  SlotInv'
<1> PICK m \in msg_out_commit :
      /\ RECEIVE_COMMIT(m, r)
      /\ UNCHANGED <<view, active_view, seqno, msg_log_pre_prepare,
                     msg_log_new_view, certificates, msg_out_pre_prepare,
                     msg_out_new_view, msg_out_commit>>
  BY DEF ReceiveCommit, viewOut, agreementOut
<1>1. \A s \in Replica :
        msg_log_commit_view_recovery'[s] \subseteq
            msg_log_commit_view_recovery[s] \union
              {[v |-> m.v, n |-> m.n, sender |-> m.sender]}
  BY DEF RECEIVE_COMMIT, TypeOK
<1>2. LogsWereSent'
  BY <1>1 DEF SlotInv, LogsWereSent
<1> QED
  BY <1>2 DEF SlotInv, certificates, ProposalsOfPrimary, ProposedOnce,
       NewViewsOfPrimary, NewViewOnce, OpenedByPrimary, ProposedAboveNewView,
       LoggedFromPrimary, InNewView, ViewsReached

LEMMA SlotReceiveBlock ==
    ASSUME TypeOK, SlotInv, NEW r \in Replica, ReceiveBlock(r)
    PROVE  SlotInv'
<1> PICK b \in blocks :
      /\ collect_garbage(b.n, r)
      /\ UNCHANGED <<view, active_view, seqno, msg_log_new_view,
                     msg_log_commit_view_recovery, msg_out_pre_prepare,
                     msg_out_new_view, msg_out_commit>>
  BY DEF ReceiveBlock, RECEIVE_BLOCK, viewLogs, viewOut, agreementOut
<1>1. \A s \in Replica :
        /\ msg_log_pre_prepare'[s] \subseteq msg_log_pre_prepare[s]
        /\ view_change_Pi'[s] \subseteq view_change_Pi[s]
        /\ view_change_Qi'[s] \subseteq view_change_Qi[s]
  BY DEF collect_garbage, Above, TypeOK
<1>2. LoggedFromPrimary'
  BY <1>1 DEF SlotInv, LoggedFromPrimary, InNewView
<1>3. ViewsReached'
  BY <1>1 DEF SlotInv, ViewsReached
<1> QED
  BY <1>2, <1>3 DEF SlotInv, ProposalsOfPrimary, ProposedOnce,
       NewViewsOfPrimary, NewViewOnce, OpenedByPrimary, ProposedAboveNewView,
       LogsWereSent

\* The COMMITs that justify the step show that the primary of the new view has
\* reached it, so this replica is not that primary.
LEMMA SlotRecoverView ==
    ASSUME TypeOK, SlotInv, NEW r \in Replica, RecoverView(r)
    PROVE  SlotInv'
<1> PICK v \in RecoverableViews(r) :
      /\ active_view[r]
      /\ view' = [view EXCEPT ![r] = v]
      /\ msg_log_clear_where_view_less_than(r, v)
      /\ UNCHANGED <<active_view, seqno, certificates, msg_out_pre_prepare,
                     msg_out_new_view, msg_out_commit>>
  BY DEF RecoverView, viewOut, agreementOut
<1>1. v \in Nat /\ view[r] \in Nat /\ v > view[r]
  BY DEF RecoverableViews, TypeOK, RecoveryCommit
<1>2. primary(v) # r
  <2>1. PICK c \in msg_log_commit_view_recovery[r] : c.v = v
    BY DEF RecoverableViews
  <2>2. v <= view[primary(v)]
    BY <2>1 DEF SlotInv, LogsWereSent, ViewsReached
  <2> QED
    BY <1>1, <2>2
<1>3. \A s \in Replica : /\ view[s] \in Nat /\ view'[s] \in Nat
                         /\ view[s] <= view'[s]
                         /\ s # r => view'[s] = view[s]
  BY <1>1 DEF TypeOK
<1>4. /\ view'[r] = v
      /\ \A s \in Replica :
           /\ msg_log_pre_prepare'[s] \subseteq msg_log_pre_prepare[s]
           /\ msg_log_new_view'[s] \subseteq msg_log_new_view[s]
           /\ s # r => msg_log_new_view'[s] = msg_log_new_view[s]
      /\ UNCHANGED msg_log_commit_view_recovery
  BY DEF msg_log_clear_where_view_less_than, FromView, TypeOK
<1>5. ProposalsOfPrimary'
  BY <1>1, <1>3, <1>4 DEF SlotInv, ProposalsOfPrimary, TypeOK, PrePrepare
<1>6. NewViewsOfPrimary'
  BY <1>1, <1>3, <1>4 DEF SlotInv, NewViewsOfPrimary, TypeOK, NewView
<1>7. OpenedByPrimary'
  BY <1>2, <1>3, <1>4 DEF SlotInv, OpenedByPrimary
<1>8. LoggedFromPrimary'
  BY <1>4 DEF SlotInv, LoggedFromPrimary, InNewView
<1>9. LogsWereSent'
  BY <1>4 DEF SlotInv, LogsWereSent
<1>10. ViewsReached'
  <2>1. FirstViewNumber \in Nat
    BY ClusterSizeAssumption, StartViewAssumption DEF FirstViewNumber, Replica
  <2>2. \A u \in Nat : primary(u) \in Replica
    BY PrimaryIsReplica
  <2>3. \A u \in Nat : u <= view[primary(u)] => u <= view'[primary(u)]
    BY <1>3, <2>2
  <2> QED
    BY <1>3, <2>1, <2>3 DEF SlotInv, ViewsReached, certificates, TypeOK,
         PiEntry, QiEntry, Commit
<1> QED
  BY <1>5, <1>6, <1>7, <1>8, <1>9, <1>10 DEF SlotInv, ProposedOnce,
       NewViewOnce, ProposedAboveNewView

LEMMA SlotSendViewChange ==
    ASSUME TypeOK, SlotInv, NEW r \in Replica, SendViewChange(r)
    PROVE  SlotInv'
<1> DEFINE v == view[r] + 1
<1>0. /\ view' = [view EXCEPT ![r] = v]
      /\ active_view' = [active_view EXCEPT ![r] = FALSE]
      /\ view_change_Pi' =
           [view_change_Pi EXCEPT ![r] = update_view_change_Pi(r)]
      /\ view_change_Qi' =
           [view_change_Qi EXCEPT ![r] = update_view_change_Qi(r)]
      /\ msg_log_clear_where_view_less_than(r, v)
      /\ UNCHANGED <<seqno, msg_out_pre_prepare, msg_out_new_view,
                     msg_out_commit>>
  BY DEF SendViewChange, agreementOut
<1>1. view[r] \in Nat /\ v \in Nat /\ v > view[r]
  BY DEF TypeOK
<1>2. \A s \in Replica : /\ view[s] \in Nat /\ view'[s] \in Nat
                         /\ view[s] <= view'[s]
                         /\ s # r => view'[s] = view[s]
  <2>1. view \in [Replica -> Nat]
    BY DEF TypeOK
  <2> QED
    BY <1>0, <1>1, <2>1
<1>3. /\ view'[r] = v /\ ~active_view'[r]
      /\ \A s \in Replica : s # r => (active_view'[s] <=> active_view[s])
  BY <1>0 DEF TypeOK
<1>4. /\ \A s \in Replica :
           /\ msg_log_pre_prepare'[s] \subseteq msg_log_pre_prepare[s]
           /\ msg_log_new_view'[s] \subseteq msg_log_new_view[s]
           /\ s # r => msg_log_new_view'[s] = msg_log_new_view[s]
      /\ UNCHANGED msg_log_commit_view_recovery
  BY <1>0 DEF msg_log_clear_where_view_less_than, FromView, TypeOK
<1>5. ProposalsOfPrimary'
  BY <1>0, <1>1, <1>2, <1>3, <1>4 DEF SlotInv, ProposalsOfPrimary, TypeOK,
       PrePrepare
<1>6. NewViewsOfPrimary'
  BY <1>0, <1>1, <1>2, <1>3, <1>4 DEF SlotInv, NewViewsOfPrimary, TypeOK,
       NewView
<1>7. OpenedByPrimary'
  BY <1>0, <1>2, <1>3, <1>4 DEF SlotInv, OpenedByPrimary
<1>8. LoggedFromPrimary'
  BY <1>0, <1>3, <1>4 DEF SlotInv, LoggedFromPrimary, InNewView
<1>9. LogsWereSent'
  BY <1>0, <1>3, <1>4 DEF SlotInv, LogsWereSent
<1>10. ViewsReached'
  <2>1. FirstViewNumber \in Nat
    BY ClusterSizeAssumption, StartViewAssumption DEF FirstViewNumber, Replica
  <2>2. \A u \in Nat : primary(u) \in Replica
    BY PrimaryIsReplica
  <2>3. \A u \in Nat : u <= view[primary(u)] => u <= view'[primary(u)]
    BY <1>2, <2>2
  <2>4. \A e \in update_view_change_Pi(r) :
          e.v \in Nat /\ e.v <= view[primary(e.v)]
    <3>1. \A s \in KnownSlots(r) : s.v \in Nat /\ s.v <= view[primary(s.v)]
      BY KnownReached, KnownSlotsType DEF Slot
    <3> QED
      BY <3>1 DEF update_view_change_Pi
  <2>5. \A e \in update_view_change_Qi(r) :
          e.v \in Nat /\ e.v <= view[primary(e.v)]
    <3>1. \A m \in LoggedPrePrepares(r) :
            m.v \in Nat /\ m.v <= view[primary(m.v)]
      BY LoggedReached DEF LoggedPrePrepares, TypeOK, PrePrepare
    <3> QED
      BY <3>1 DEF update_view_change_Qi
  <2>6. \A s \in Replica :
          /\ \A e \in view_change_Pi'[s] : e.v <= view'[primary(e.v)]
          /\ \A e \in view_change_Qi'[s] : e.v <= view'[primary(e.v)]
    <3> SUFFICES ASSUME NEW s \in Replica
                 PROVE  /\ \A e \in view_change_Pi'[s] :
                             e.v <= view'[primary(e.v)]
                        /\ \A e \in view_change_Qi'[s] :
                             e.v <= view'[primary(e.v)]
      OBVIOUS
    <3>1. CASE s = r
      BY <1>0, <2>3, <2>4, <2>5, <3>1 DEF TypeOK
    <3>2. CASE s # r
      BY <1>0, <2>3, <3>2 DEF SlotInv, ViewsReached, TypeOK, PiEntry, QiEntry
    <3> QED
      BY <3>1, <3>2
  <2>7. \A s \in Replica : /\ view'[s] >= FirstViewNumber
                           /\ ~active_view'[s] => view'[s] > FirstViewNumber
    BY <1>1, <1>2, <1>3, <2>1 DEF SlotInv, ViewsReached
  <2>8. \A c \in msg_out_commit' : c.v <= view'[primary(c.v)]
    BY <1>0, <2>3 DEF SlotInv, ViewsReached, TypeOK, Commit
  <2> QED
    BY <2>6, <2>7, <2>8 DEF ViewsReached
<1> QED
  BY <1>0, <1>5, <1>6, <1>7, <1>8, <1>9, <1>10 DEF SlotInv, ProposedOnce,
       NewViewOnce, ProposedAboveNewView

\* A NEW_VIEW is sent once in a view, and before anything is proposed in it.
LEMMA SlotSendNewView ==
    ASSUME TypeOK, SlotInv, NEW r \in Replica, SendNewView(r)
    PROVE  SlotInv'
<1> DEFINE Nu == msg_log_view_change[r]
           nv(Chi) == [v |-> view[r], Nu |-> Nu, Chi |-> Chi, sender |-> r]
<1>1. /\ primary(view[r]) = r
      /\ \A x \in msg_log_new_view[r] : x.v # view[r]
      /\ UNCHANGED <<view, active_view, seqno, msg_log_pre_prepare,
                     msg_log_commit_view_recovery, certificates,
                     msg_out_pre_prepare, msg_out_commit>>
  BY DEF SendNewView, pre_SEND_NEW_VIEW, agreementLogs, agreementOut
<1>2. CASE UNCHANGED <<msg_log_new_view, msg_out_new_view>>
  BY <1>1, <1>2, SlotFrame DEF slotVars
<1>3. ASSUME NEW Chi, correct_chi(Chi, Nu),
             msg_log_new_view' =
               [msg_log_new_view EXCEPT ![r] = @ \union {nv(Chi)}],
             msg_out_new_view' = msg_out_new_view \union {nv(Chi)}
      PROVE  SlotInv'
  <2> DEFINE m == nv(Chi)
  <2>1. /\ m.v = view[r] /\ m.sender = r
        /\ \A e, f \in m.Chi : e.n = f.n => e = f
    BY <1>3 DEF correct_chi
  <2> HIDE DEF m
  <2>2. /\ msg_log_new_view' =
             [msg_log_new_view EXCEPT ![r] = @ \union {m}]
        /\ msg_out_new_view' = msg_out_new_view \union {m}
    BY <1>3 DEF m
  <2>3. view[r] \in Nat
    BY DEF TypeOK
  <2>4. NewViewsOfPrimary'
    BY <1>1, <2>1, <2>2, <2>3 DEF SlotInv, NewViewsOfPrimary, TypeOK
  <2>5. NewViewOnce'
    <3>1. \A nw \in msg_out_new_view : nw.v # view[r]
      BY <1>1 DEF SlotInv, NewViewsOfPrimary
    <3> QED
      BY <2>1, <2>2, <3>1 DEF SlotInv, NewViewOnce
  <2>6. OpenedByPrimary'
    BY <1>1, <2>2 DEF SlotInv, OpenedByPrimary, TypeOK
  <2>7. ProposedAboveNewView'
    <3>1. ASSUME NEW k \in msg_out_pre_prepare, k.v = view[r],
                 k.v > FirstViewNumber
          PROVE  FALSE
      <4>1. active_view[r]
        BY <1>1, <3>1 DEF SlotInv, ProposalsOfPrimary
      <4> QED
        BY <1>1, <3>1, <4>1 DEF SlotInv, OpenedByPrimary
    <3> QED
      BY <1>1, <2>1, <2>2, <3>1 DEF SlotInv, ProposedAboveNewView
  <2>8. LoggedFromPrimary'
    BY <1>1, <2>2 DEF SlotInv, LoggedFromPrimary, InNewView
  <2>9. LogsWereSent'
    BY <1>1, <2>2 DEF SlotInv, LogsWereSent, TypeOK
  <2> QED
    BY <1>1, <2>4, <2>5, <2>6, <2>7, <2>8, <2>9 DEF SlotInv, certificates,
         ProposalsOfPrimary, ProposedOnce, ViewsReached
<1> QED
  BY <1>2, <1>3 DEF SendNewView

LEMMA SlotReceiveNewView ==
    ASSUME TypeOK, SlotInv, NEW r \in Replica, ReceiveNewView(r)
    PROVE  SlotInv'
<1> PICK m \in msg_out_new_view :
      /\ RECEIVE_NEW_VIEW(m, r)
      /\ UNCHANGED <<view, active_view, seqno, msg_log_pre_prepare,
                     msg_log_commit_view_recovery, certificates,
                     msg_out_pre_prepare, msg_out_new_view, msg_out_commit>>
  BY DEF ReceiveNewView, agreementLogs, viewOut, agreementOut
<1>1. \A s \in Replica :
        /\ msg_log_new_view[s] \subseteq msg_log_new_view'[s]
        /\ msg_log_new_view'[s] \subseteq msg_log_new_view[s] \union {m}
  BY DEF RECEIVE_NEW_VIEW, TypeOK
<1>2. NewViewsOfPrimary'
  BY <1>1 DEF SlotInv, NewViewsOfPrimary, TypeOK, NewView
<1>3. OpenedByPrimary'
  BY <1>1 DEF SlotInv, OpenedByPrimary
<1>4. LogsWereSent'
  BY <1>1 DEF SlotInv, LogsWereSent
<1> QED
  BY <1>2, <1>3, <1>4 DEF SlotInv, certificates, ProposalsOfPrimary,
       ProposedOnce, NewViewOnce, ProposedAboveNewView, LoggedFromPrimary,
       InNewView, ViewsReached

\* A replica that is not active has proposed nothing in its view, and its
\* sequence number moves past what the NEW_VIEW proposes.
LEMMA SlotProcessNewView ==
    ASSUME TypeOK, SlotInv, NEW r \in Replica, ProcessNewView(r)
    PROVE  SlotInv'
<1> DEFINE v == view[r]
           ppps(nv) == {[v |-> v, n |-> e.n, d |-> e.d, b |-> e.b,
                         sender |-> primary(v)] : e \in nv.Chi}
           ns(nv) == {m.n : m \in {x \in msg_log_pre_prepare[r]
                                          \union ppps(nv) : x.v = v}}
<1> PICK nv \in msg_log_new_view[r] :
      \E s : /\ pre_PROCESS_NEW_VIEW(nv, r)
             /\ \A n \in ns(nv) : n <= s
             /\ active_view' = [active_view EXCEPT ![r] = TRUE]
             /\ msg_log_pre_prepare' =
                  [msg_log_pre_prepare EXCEPT ![r] = @ \union ppps(nv)]
             /\ seqno' = [seqno EXCEPT ![r] = s]
  BY DEF ProcessNewView
<1> PICK s : /\ pre_PROCESS_NEW_VIEW(nv, r)
             /\ \A n \in ns(nv) : n <= s
             /\ active_view' = [active_view EXCEPT ![r] = TRUE]
             /\ msg_log_pre_prepare' =
                  [msg_log_pre_prepare EXCEPT ![r] = @ \union ppps(nv)]
             /\ seqno' = [seqno EXCEPT ![r] = s]
  OBVIOUS
<1>1. UNCHANGED <<view, msg_log_new_view, msg_log_commit_view_recovery,
                  certificates, msg_out_pre_prepare, msg_out_new_view,
                  msg_out_commit>>
  BY DEF ProcessNewView, viewLogs, viewOut
<1>2. /\ ~active_view[r] /\ nv.v = v /\ nv \in msg_out_new_view
      /\ v > FirstViewNumber /\ v \in Nat
  BY DEF pre_PROCESS_NEW_VIEW, correct_new_view, SlotInv, LogsWereSent,
         ViewsReached, TypeOK
<1>3. nv.Chi \subseteq ChiEntry
  BY DEF TypeOK, NewView
<1>4. \A e \in nv.Chi : e.n <= s
  <2>1. ASSUME NEW e \in nv.Chi PROVE e.n \in ns(nv)
    <3> DEFINE m == [v |-> v, n |-> e.n, d |-> e.d, b |-> e.b,
                     sender |-> primary(v)]
    <3>1. m \in ppps(nv) /\ m.v = v /\ m.n = e.n
      OBVIOUS
    <3> HIDE DEF m, ppps
    <3> QED
      BY <3>1
  <2> QED
    BY <2>1
<1>5. \A m \in ppps(nv) : /\ m.sender = primary(m.v) /\ m.v = v
                          /\ [n |-> m.n, d |-> m.d, b |-> m.b] \in nv.Chi
  BY <1>3 DEF ChiEntry
<1> HIDE DEF ppps, ns
<1>6. ProposalsOfPrimary'
  BY <1>1, <1>2 DEF SlotInv, ProposalsOfPrimary, TypeOK
<1>7. OpenedByPrimary'
  BY <1>1, <1>2, <1>4 DEF SlotInv, OpenedByPrimary, TypeOK
<1>8. LoggedFromPrimary'
  <2>1. /\ msg_log_pre_prepare'[r] = msg_log_pre_prepare[r] \union ppps(nv)
        /\ \A q \in Replica : q # r =>
             msg_log_pre_prepare'[q] = msg_log_pre_prepare[q]
    BY DEF TypeOK
  <2>2. \A m \in ppps(nv) : m.v > FirstViewNumber /\ InNewView(m)
    BY <1>2, <1>5 DEF InNewView
  <2> QED
    BY <1>1, <1>5, <2>1, <2>2 DEF SlotInv, LoggedFromPrimary, InNewView
<1>9. ViewsReached'
  BY <1>1 DEF SlotInv, ViewsReached, certificates, TypeOK
<1> QED
  BY <1>1, <1>6, <1>7, <1>8, <1>9 DEF SlotInv, ProposedOnce,
       NewViewsOfPrimary, NewViewOnce, ProposedAboveNewView, LogsWereSent

-----------------------------------------------------------------------------

LEMMA SlotNext == TypeOK /\ SlotInv /\ [Next]_vars => SlotInv'
<1> SUFFICES ASSUME TypeOK, SlotInv, [Next]_vars PROVE SlotInv'
  OBVIOUS
<1>1. CASE UNCHANGED vars
  BY <1>1, SlotFrame DEF vars, slotVars, agreementLogs, viewLogs,
       agreementOut, viewOut
<1>2. CASE Next
  <2> PICK r \in alive :
        \/ GenerateRequests(r)
        \/ SendPrePrepare(r) \/ ReceivePrePrepare(r)
        \/ SendPrepare(r) \/ ReceivePrepare(r)
        \/ SendCommit(r) \/ ReceiveCommit(r)
        \/ RoastInit(r) \/ RoastReceivePreSignature(r)
        \/ Execute(r) \/ ReceiveBlock(r)
        \/ RecoverView(r)
        \/ SendViewChange(r) \/ ReceiveViewChange(r)
        \/ SendNewView(r) \/ ReceiveNewView(r) \/ ProcessNewView(r)
    BY <1>2, Zenon DEF Next
  <2>1. r \in Replica
    BY DEF TypeOK
  <2>2. CASE GenerateRequests(r)
    BY <2>2, SlotFrame DEF GenerateRequests, slotVars, agreementLogs,
         viewLogs, agreementOut, viewOut
  <2>3. CASE SendPrepare(r) \/ ReceivePrepare(r)
    BY <2>3, SlotFrame DEF SendPrepare, ReceivePrepare, slotVars, viewLogs,
         agreementOut, viewOut
  <2>4. CASE RoastInit(r) \/ RoastReceivePreSignature(r) \/ Execute(r)
    BY <2>4, SlotFrame DEF RoastInit, RoastReceivePreSignature, Execute,
         slotVars, agreementLogs, viewLogs, agreementOut, viewOut
  <2>5. CASE ReceiveViewChange(r)
    BY <2>5, SlotFrame DEF ReceiveViewChange, slotVars, agreementLogs,
         agreementOut, viewOut
  <2> QED
    BY <2>1, <2>2, <2>3, <2>4, <2>5, SlotSendPrePrepare,
       SlotReceivePrePrepare, SlotSendCommit, SlotReceiveCommit,
       SlotReceiveBlock, SlotRecoverView, SlotSendViewChange,
       SlotSendNewView, SlotReceiveNewView, SlotProcessNewView
<1> QED
  BY <1>1, <1>2

LEMMA SlotInvGivesAgreement == TypeOK /\ SlotInv => SlotAgreement
<1> SUFFICES ASSUME TypeOK, SlotInv, NEW r \in Replica, NEW s \in Replica,
                    NEW x \in msg_log_pre_prepare[r],
                    NEW y \in msg_log_pre_prepare[s],
                    x.v = y.v, x.n = y.n
             PROVE  x.d = y.d /\ x.b = y.b
  BY DEF SlotAgreement
<1>1. x.n \in Nat /\ y.n \in Nat
  BY DEF TypeOK, PrePrepare
<1>2. ASSUME NEW a \in msg_out_pre_prepare, NEW c, InNewView(c),
             c.v > FirstViewNumber, a.v = c.v, a.n = c.n, c.n \in Nat
      PROVE  FALSE
  BY <1>2 DEF SlotInv, ProposedAboveNewView, InNewView
<1>3. CASE x \in msg_out_pre_prepare /\ y \in msg_out_pre_prepare
  BY <1>3 DEF SlotInv, ProposedOnce
<1>4. CASE InNewView(x) /\ InNewView(y)
  BY <1>4 DEF SlotInv, InNewView, NewViewOnce, NewViewsOfPrimary
<1> QED
  BY <1>1, <1>2, <1>3, <1>4 DEF SlotInv, LoggedFromPrimary

\* However PRE_PREPAREs, VIEW_CHANGEs, NEW_VIEWs and RECOVER_VIEW interleave,
\* no two replicas log different proposals for one view and sequence number,
\* for every cluster whose replicas start in the same view: the engine's
\* guards make the primary of a view decide a slot only once, in its NEW_VIEW
\* or by a PRE_PREPARE above it.
THEOREM SlotAgreementHolds == SameStart /\ Spec => []SlotAgreement
<1>1. SameStart /\ Init => TypeOK /\ SlotInv
  BY TypeInit, SlotInit
<1>2. TypeOK /\ SlotInv /\ [Next]_vars => TypeOK' /\ SlotInv'
  BY TypeNext, SlotNext
<1>3. TypeOK /\ SlotInv => SlotAgreement
  BY SlotInvGivesAgreement
<1> QED
  BY <1>1, <1>2, <1>3, PTL DEF Spec
=============================================================================
