------------------------------ MODULE FbftEngine ------------------------------
(***************************************************************************)
(* The replicated FBFT automaton of src/engine/fbft-replica-engine.pl, run  *)
(* by every replica through the actions of src/src/fbft/actions.            *)
(*                                                                          *)
(* A predicate pre_X of the engine is the guard of the action named after   *)
(* the C++ class that evaluates it (BuildActives), and apply_X its primed   *)
(* part (effect).  Each variable is the engine's table of the same name,    *)
(* indexed by replica.                                                      *)
(*                                                                          *)
(* The network: msg_out_X holds every message of type X ever broadcast.  A  *)
(* message may be received at any later time by any replica, or never, or   *)
(* again: this covers delay, reordering, loss and duplication.  A message   *)
(* that the receiver's guard refuses is dropped by ReplicaState::Apply; one *)
(* that is in the log already changes nothing (assertz_once), and the       *)
(* receive actions leave that stuttering step out.                          *)
(*                                                                          *)
(* Time: a timeout and the arrival of a request's time may happen at any    *)
(* moment, so the clock is not a variable.                                  *)
(***************************************************************************)
EXTENDS FbftMessages, FiniteSetsExt

CONSTANTS
    Running,        \* the replicas whose process is up at the start
    StartHeight,    \* height of each replica's chain when its process starts
    StartView,      \* view each replica finds in its database
    MaxNumGeneratedRequests,  \* requests a replica keeps ahead of its chain
    Tags,           \* tells apart blocks generated for the same slot
    MaxRequest,     \* bound: the last request the schedule ever reaches
    MaxView         \* bound: no replica times out of this view

ASSUME RunningAssumption == Running \subseteq Replica
ASSUME StartHeightAssumption == StartHeight \in [Replica -> Nat]
ASSUME StartViewAssumption == StartView \in [Replica -> Nat]
ASSUME HorizonAssumption == MaxNumGeneratedRequests \in Nat
ASSUME TagsAssumption == Tags \subseteq Nat \ {0}
ASSUME BoundsAssumption == MaxRequest \in Nat /\ MaxView \in Nat

VARIABLES
    alive,                  \* replicas whose process has not terminated
    view, active_view, seqno, last_exec, last_rep, val,
    checkpoint,
    msg_log_request, msg_log_pre_prepare, msg_log_prepare, msg_log_commit,
    msg_log_commit_view_recovery, msg_log_view_change, msg_log_new_view,
    view_change_Pi, view_change_Qi,
    roast_active,           \* the slot being signed, as a set of at most one
    msg_out_pre_prepare, msg_out_prepare, msg_out_commit,
    msg_out_view_change, msg_out_new_view,
    msg_out_roast_pre_signature, msg_out_roast_signature_share,
    blocks                  \* blocks submitted to the itcoin nodes

agreementLogs == <<msg_log_pre_prepare, msg_log_prepare, msg_log_commit>>
viewLogs == <<msg_log_commit_view_recovery, msg_log_view_change,
              msg_log_new_view>>
certificates == <<view_change_Pi, view_change_Qi>>
executed == <<last_exec, last_rep, val>>
agreementOut == <<msg_out_pre_prepare, msg_out_prepare, msg_out_commit>>
viewOut == <<msg_out_view_change, msg_out_new_view>>
roastOut == <<msg_out_roast_pre_signature, msg_out_roast_signature_share>>

vars == <<alive, view, active_view, seqno, executed, checkpoint,
          msg_log_request, agreementLogs, viewLogs, certificates,
          roast_active, agreementOut, viewOut, roastOut, blocks>>

Checkpoint == [n : Nat, val : Block, t : Nat]
Slot == [v : Nat, n : Nat, d : Nat]

RequestBufferLen == 1

-----------------------------------------------------------------------------
(* Auxiliary predicates of the engine.                                     *)

get_h(r) == Min({c.n : c \in checkpoint[r]})

\* max_list of the engine, as a relation.
max_list(S, x) == x \in S /\ \A y \in S : y <= x

RequestTimes(r) == msg_log_request[r] \union {last_rep[r]}

get_latest_request_time(r, t) == max_list(RequestTimes(r), t)

in_w(n, r) == n - get_h(r) <= RequestBufferLen /\ n - get_h(r) > 0

in_wv(v, n, r) == in_w(n, r) /\ v = view[r]

\* The PRE_PREPAREs of the log that come from the primary of their view and
\* whose request is known.
LoggedPrePrepares(r) ==
    {m \in msg_log_pre_prepare[r] :
        m.sender = primary(m.v) /\ m.d \in msg_log_request[r]}

pre_prepared(d, v, n, r) ==
    \E e \in view_change_Qi[r] \union LoggedPrePrepares(r) :
        e.n = n /\ e.d = d /\ e.v = v

Prepares(d, v, n, r) ==
    {m \in msg_log_prepare[r] : m.v = v /\ m.n = n /\ m.d = d}

\* The second case of prepared/4, the one that does not rest on Pi.
LogPrepared(d, v, n, r) ==
    /\ pre_prepared(d, v, n, r)
    /\ Cardinality(Prepares(d, v, n, r)) >= quorum_prepare

prepared(d, v, n, r) ==
    \/ [n |-> n, d |-> d, v |-> v] \in view_change_Pi[r]
    \/ LogPrepared(d, v, n, r)

\* The rows of the table, which are told apart by their data too: two COMMITs
\* of one sender count twice.
Commits(v, n, r) == {m \in msg_log_commit[r] : m.v = v /\ m.n = n}

\* Fault variant: the quorum of COMMITs is one short.
committed_OneShort(d, v, n, r) ==
    prepared(d, v, n, r) /\ Cardinality(Commits(v, n, r)) >= quorum - 1

committed(d, v, n, r) ==
    prepared(d, v, n, r) /\ Cardinality(Commits(v, n, r)) >= quorum

\* The slots a replica can have prepared.
KnownSlots(r) ==
    {[v |-> e.v, n |-> e.n, d |-> e.d] :
        e \in view_change_Pi[r] \union view_change_Qi[r]
                \union LoggedPrePrepares(r)}

\* PrePrepare::FindByV_N_Req binds the digest only, and takes the first logged
\* PRE_PREPARE of the request; the log is a set here, so any of them.
FindByV_N_Req(r, d) ==
    {m.b : m \in {x \in msg_log_pre_prepare[r] : x.d = d}}

correct_view_change(m) ==
    \A e \in m.P \union m.Q :
        e.v < m.v /\ e.n > m.h /\ e.n <= m.h + RequestBufferLen

-----------------------------------------------------------------------------
(* The new view decision: correct_chi over the VIEW_CHANGEs of Nu.  The    *)
(* engine scans Nu in the order of the senders, and for each sequence       *)
(* number above the lowest checkpoint takes the first P with an entry for   *)
(* it that some Q matches.  It compares views only inside that P.           *)

Min_s(Nu) == Min({m.h : m \in Nu})

PreparedNs(Nu) == UNION {{p.n : p \in m.P} : m \in Nu}

Max_s(Nu) == Max({Min_s(Nu)} \union PreparedNs(Nu))

\* CASE1: entry p of a P, matched by entry q of some Q of Nu.
HighestIn(p, P) ==
    \A x \in P : x.n = p.n => x.v < p.v \/ (x.v = p.v /\ x.d = p.d)

ChiChoices(m, n, Nu) ==
    {q \in UNION {k.Q : k \in Nu} :
        \E p \in m.P : /\ p.n = n /\ HighestIn(p, m.P)
                       /\ q.n = n /\ q.d = p.d /\ q.v = p.v}

ChiEntries(n, Nu) ==
    {[n |-> n, d |-> q.d, b |-> q.b] :
        q \in UNION {ChiChoices(m, n, Nu) :
            m \in {k \in Nu : /\ ChiChoices(k, n, Nu) # {}
                              /\ \A j \in Nu : ChiChoices(j, n, Nu) # {}
                                    => k.sender <= j.sender}}}

\* CASE2 of correct_chi: a sequence number no P of Nu speaks for.
null_chi(Nu) == \E n \in Min_s(Nu) + 1 .. Max_s(Nu) : ChiEntries(n, Nu) = {}

\* One entry for each sequence number between Min_s and Max_s.
correct_chi(Chi, Nu) ==
    /\ Cardinality(Nu) >= quorum
    /\ \A e \in Chi : /\ e.n \in Min_s(Nu) + 1 .. Max_s(Nu)
                      /\ e \in ChiEntries(e.n, Nu)
    /\ \A e, f \in Chi : e.n = f.n => e = f
    /\ \A n \in Min_s(Nu) + 1 .. Max_s(Nu) : \E e \in Chi : e.n = n

\* The view a VIEW_CHANGE is for is not compared (correct_nu_element), and the
\* quorum counts messages.
correct_nu_once(Nu, r) ==
    Nu = msg_log_view_change[r] /\ Cardinality(Nu) >= quorum

correct_nu_all(Nu, r) ==
    Nu \subseteq msg_log_view_change[r] /\ Cardinality(Nu) >= quorum

correct_new_view(nv, r) ==
    /\ nv \in msg_log_new_view[r] /\ nv.v = view[r]
    /\ correct_nu_all(nv.Nu, r)
    /\ correct_chi(nv.Chi, nv.Nu)

-----------------------------------------------------------------------------
(* Updates shared by several actions.                                      *)

FromView(log, r, v) == [log EXCEPT ![r] = {m \in @ : m.v >= v}]

\* The engine means to clear the recovery log too, but names another table.
msg_log_clear_where_view_less_than(r, v) ==
    /\ msg_log_pre_prepare' = FromView(msg_log_pre_prepare, r, v)
    /\ msg_log_prepare' = FromView(msg_log_prepare, r, v)
    /\ msg_log_commit' = FromView(msg_log_commit, r, v)
    /\ msg_log_new_view' = FromView(msg_log_new_view, r, v)
    /\ UNCHANGED msg_log_commit_view_recovery

\* Fault variant: counts executions instead of recording the height.
apply_EXECUTE_Counting(d, n, b, r) ==
    /\ last_exec' = [last_exec EXCEPT ![r] = @ + 1]
    /\ last_rep' = [last_rep EXCEPT ![r] = d]
    /\ val' = [val EXCEPT ![r] = b]

apply_EXECUTE(d, n, b, r) ==
    IF d \in msg_log_request[r] /\ d > last_rep[r]
    THEN /\ last_exec' = [last_exec EXCEPT ![r] = n]
         /\ last_rep' = [last_rep EXCEPT ![r] = d]
         /\ val' = [val EXCEPT ![r] = b]
    ELSE UNCHANGED executed

\* Fault variant: switching ROAST off does nothing.
set_roast_active_NeverOff(r, slots) ==
    IF slots = {} THEN roast_active ELSE [roast_active EXCEPT ![r] = slots]

set_roast_active(r, slots) == [roast_active EXCEPT ![r] = slots]

Above(log, r, n) == [log EXCEPT ![r] = {m \in @ : m.n > n}]

\* Entries of Pi and Qi below n survive: only those at n are retracted.
collect_garbage(n, r) ==
    /\ msg_log_pre_prepare' = Above(msg_log_pre_prepare, r, n)
    /\ msg_log_prepare' = Above(msg_log_prepare, r, n)
    /\ msg_log_commit' = Above(msg_log_commit, r, n)
    /\ view_change_Pi' = [view_change_Pi EXCEPT ![r] = {e \in @ : e.n # n}]
    /\ view_change_Qi' = [view_change_Qi EXCEPT ![r] = {e \in @ : e.n # n}]
    /\ msg_log_request' =
         [msg_log_request EXCEPT ![r] = {t \in @ : t > last_rep'[r]}]
    /\ roast_active' = [roast_active EXCEPT ![r] = {}]

\* Fault variant: the primary is counted among the PREPAREs.
update_view_change_Pi_OneMore(r) ==
    {[n |-> s.n, d |-> s.d, v |-> s.v] :
        s \in {x \in KnownSlots(r) :
                Cardinality(Prepares(x.d, x.v, x.n, r)) >= quorum}}

\* Fault variant: the log is cleared before Pi is computed.
update_view_change_Pi_Late(r) ==
    {[n |-> s.n, d |-> s.d, v |-> s.v] :
        s \in {x \in KnownSlots(r) :
                x.v > view[r] /\ LogPrepared(x.d, x.v, x.n, r)}}

\* Pi is retracted before it is computed again from the log (and from the
\* old Qi), Qi before it is computed from the log alone.
update_view_change_Pi(r) ==
    {[n |-> s.n, d |-> s.d, v |-> s.v] :
        s \in {x \in KnownSlots(r) :
            /\ LogPrepared(x.d, x.v, x.n, r)
            /\ \A y \in KnownSlots(r) :
                 y.n = x.n /\ y.v > x.v => ~LogPrepared(y.d, y.v, y.n, r)}}

\* Fault variant: the log is cleared before Qi is computed.
update_view_change_Qi_Late(r) ==
    {[n |-> m.n, d |-> m.d, b |-> m.b, v |-> m.v] :
        m \in {x \in LoggedPrePrepares(r) : x.v > view[r]}}

update_view_change_Qi(r) ==
    {[n |-> m.n, d |-> m.d, b |-> m.b, v |-> m.v] :
        m \in {x \in LoggedPrePrepares(r) :
            \A y \in LoggedPrePrepares(r) :
                y.n = x.n /\ y.d = x.d => y.v <= x.v}}

-----------------------------------------------------------------------------
(* Start: each process takes its height from its node's chain and its view  *)
(* from its database (the view is all that persists), considers that view   *)
(* active, and has generated the first requests of the schedule.            *)

InitialRequests(r) ==
    {t \in StartHeight[r] + 1 .. MaxRequest :
        t <= StartHeight[r] + MaxNumGeneratedRequests}

Nothing == [r \in Replica |-> {}]

Init ==
    /\ alive = Running
    /\ view = StartView
    /\ active_view = [r \in Replica |-> TRUE]
    /\ seqno = StartHeight
    /\ last_exec = StartHeight
    /\ last_rep = StartHeight
    /\ val = [r \in Replica |-> ChainBlock(StartHeight[r])]
    /\ checkpoint = [r \in Replica |->
         {[n |-> StartHeight[r], val |-> ChainBlock(StartHeight[r]),
           t |-> StartHeight[r]]}]
    /\ msg_log_request = [r \in Replica |-> InitialRequests(r)]
    /\ msg_log_pre_prepare = Nothing
    /\ msg_log_prepare = Nothing
    /\ msg_log_commit = Nothing
    /\ msg_log_commit_view_recovery = Nothing
    /\ msg_log_view_change = Nothing
    /\ msg_log_new_view = Nothing
    /\ view_change_Pi = Nothing
    /\ view_change_Qi = Nothing
    /\ roast_active = Nothing
    /\ msg_out_pre_prepare = {}
    /\ msg_out_prepare = {}
    /\ msg_out_commit = {}
    /\ msg_out_view_change = {}
    /\ msg_out_new_view = {}
    /\ msg_out_roast_pre_signature = {}
    /\ msg_out_roast_signature_share = {}
    /\ blocks = {ChainBlock(n) :
                    n \in UNION {0 .. StartHeight[r] : r \in Replica}}

-----------------------------------------------------------------------------
(* Agreement within a view.                                                *)

\* One round of the loop of Replica2::GenerateRequests, with RECEIVE_REQUEST:
\* the request after the latest known one, while less than the horizon ahead.
GenerateRequests(r) ==
    \E t \in RequestTimes(r) :
        /\ get_latest_request_time(r, t)
        /\ t < MaxRequest
        /\ t < last_rep[r] + MaxNumGeneratedRequests
        /\ msg_log_request' = [msg_log_request EXCEPT ![r] = @ \union {t + 1}]
        /\ UNCHANGED <<alive, view, active_view, seqno, executed, checkpoint,
                       agreementLogs, viewLogs, certificates, roast_active,
                       agreementOut, viewOut, roastOut, blocks>>

\* The requests that this replica has not proposed itself.
Unproposed(r) ==
    {t \in msg_log_request[r] :
        ~\E m \in msg_log_pre_prepare[r] : m.d = t /\ m.sender = r}

\* Fault variant: the primary proposes before it processed the new view.
pre_SEND_PRE_PREPARE_Inactive(d, v, n, r) ==
    /\ primary(view[r]) = r
    /\ n = seqno[r] + 1
    /\ in_wv(v, n, r)
    /\ d \in Unproposed(r) /\ \A t \in Unproposed(r) : d <= t

\* Fault variant: any pending request may be proposed next.
pre_SEND_PRE_PREPARE_AnyRequest(d, v, n, r) ==
    /\ active_view[r]
    /\ primary(view[r]) = r
    /\ n = seqno[r] + 1
    /\ in_wv(v, n, r)
    /\ d \in Unproposed(r)

pre_SEND_PRE_PREPARE(d, v, n, r) ==
    /\ active_view[r]
    /\ primary(view[r]) = r
    /\ n = seqno[r] + 1
    /\ in_wv(v, n, r)
    /\ d \in Unproposed(r) /\ \A t \in Unproposed(r) : d <= t
    /\ ~\E m \in msg_log_pre_prepare[r] :
           m.v = v /\ m.n # n /\ m.d = d /\ m.sender = r

\* GenerateBlock yields some new block for the request's time.
SendPrePrepare(r) ==
    \E d \in msg_log_request[r], tag \in Tags :
        LET v == view[r]
            n == seqno[r] + 1
            b == [n |-> n, t |-> d, v |-> v, tag |-> tag]
            m == [v |-> v, n |-> n, d |-> d, b |-> b, sender |-> r]
        IN /\ pre_SEND_PRE_PREPARE(d, v, n, r)
           /\ seqno' = [seqno EXCEPT ![r] = n]
           /\ msg_out_pre_prepare' = msg_out_pre_prepare \union {m}
           /\ msg_log_pre_prepare' =
                [msg_log_pre_prepare EXCEPT ![r] = @ \union {m}]
           /\ UNCHANGED <<alive, view, active_view, executed, checkpoint,
                          msg_log_request, msg_log_prepare, msg_log_commit,
                          viewLogs, certificates, roast_active,
                          msg_out_prepare, msg_out_commit, viewOut, roastOut,
                          blocks>>

\* A second block for the same slot and request passes beside the first.
pre_RECEIVE_PRE_PREPARE(m, r) ==
    LET known == {x \in msg_log_pre_prepare[r] :
                    x.v = m.v /\ x.n = m.n /\ x.sender = m.sender}
    IN /\ m.d \in msg_log_request[r]
       /\ m.sender # r
       /\ m.sender = primary(view[r])
       /\ in_wv(m.v, m.n, r)
       /\ active_view[r]
       /\ known = {} \/ \E x \in known : x.d = m.d

ReceivePrePrepare(r) ==
    \E m \in msg_out_pre_prepare \ msg_log_pre_prepare[r] :
        /\ pre_RECEIVE_PRE_PREPARE(m, r)
        /\ msg_log_pre_prepare' =
             [msg_log_pre_prepare EXCEPT ![r] = @ \union {m}]
        /\ UNCHANGED <<alive, view, active_view, seqno, executed, checkpoint,
                       msg_log_request, msg_log_prepare, msg_log_commit,
                       viewLogs, certificates, roast_active, agreementOut,
                       viewOut, roastOut, blocks>>

pre_SEND_PREPARE(d, v, n, r) ==
    /\ primary(view[r]) # r
    /\ in_wv(v, n, r)
    /\ pre_prepared(d, v, n, r)
    /\ [v |-> v, n |-> n, d |-> d, sender |-> r] \notin msg_log_prepare[r]

SendPrepare(r) ==
    \E s \in KnownSlots(r) :
        LET m == [v |-> s.v, n |-> s.n, d |-> s.d, sender |-> r] IN
        /\ pre_SEND_PREPARE(s.d, s.v, s.n, r)
        /\ msg_out_prepare' = msg_out_prepare \union {m}
        /\ msg_log_prepare' = [msg_log_prepare EXCEPT ![r] = @ \union {m}]
        /\ UNCHANGED <<alive, view, active_view, seqno, executed, checkpoint,
                       msg_log_request, msg_log_pre_prepare, msg_log_commit,
                       viewLogs, certificates, roast_active,
                       msg_out_pre_prepare, msg_out_commit, viewOut, roastOut,
                       blocks>>

pre_RECEIVE_PREPARE(m, r) ==
    /\ m.sender # r
    /\ m.sender # primary(view[r])
    /\ in_wv(m.v, m.n, r)

ReceivePrepare(r) ==
    \E m \in msg_out_prepare \ msg_log_prepare[r] :
        /\ pre_RECEIVE_PREPARE(m, r)
        /\ msg_log_prepare' = [msg_log_prepare EXCEPT ![r] = @ \union {m}]
        /\ UNCHANGED <<alive, view, active_view, seqno, executed, checkpoint,
                       msg_log_request, msg_log_pre_prepare, msg_log_commit,
                       viewLogs, certificates, roast_active, agreementOut,
                       viewOut, roastOut, blocks>>

pre_SEND_COMMIT(d, v, n, r) ==
    /\ in_wv(v, n, r)
    /\ prepared(d, v, n, r)
    /\ ~\E m \in msg_log_commit[r] : m.v = v /\ m.n = n /\ m.sender = r

\* The nonce of the wallet is random: a share unlike those of the sender's
\* earlier COMMITs of the slot (a restarted replica has forgotten them).
GetPreSignatureShare(v, n, r) ==
    Cardinality({m \in msg_out_commit : m.v = v /\ m.n = n /\ m.sender = r})

SendCommit(r) ==
    \E s \in KnownSlots(r) :
        LET m == [v |-> s.v, n |-> s.n,
                  data |-> GetPreSignatureShare(s.v, s.n, r), sender |-> r] IN
        /\ pre_SEND_COMMIT(s.d, s.v, s.n, r)
        /\ msg_out_commit' = msg_out_commit \union {m}
        /\ msg_log_commit' = [msg_log_commit EXCEPT ![r] = @ \union {m}]
        /\ UNCHANGED <<alive, view, active_view, seqno, executed, checkpoint,
                       msg_log_request, msg_log_pre_prepare, msg_log_prepare,
                       viewLogs, certificates, roast_active,
                       msg_out_pre_prepare, msg_out_prepare, viewOut,
                       roastOut, blocks>>

\* A COMMIT of a later view is evidence for RECOVER_VIEW.
RECEIVE_COMMIT(m, r) ==
    LET e == [v |-> m.v, n |-> m.n, sender |-> m.sender] IN
    /\ m.sender # r
    /\ \/ /\ in_wv(m.v, m.n, r) /\ m \notin msg_log_commit[r]
          /\ msg_log_commit' = [msg_log_commit EXCEPT ![r] = @ \union {m}]
          /\ UNCHANGED msg_log_commit_view_recovery
       \/ /\ ~in_wv(m.v, m.n, r)
          /\ m.v > view[r] /\ e \notin msg_log_commit_view_recovery[r]
          /\ msg_log_commit_view_recovery' =
               [msg_log_commit_view_recovery EXCEPT ![r] = @ \union {e}]
          /\ UNCHANGED msg_log_commit

ReceiveCommit(r) ==
    \E m \in msg_out_commit :
        /\ RECEIVE_COMMIT(m, r)
        /\ UNCHANGED <<alive, view, active_view, seqno, executed, checkpoint,
                       msg_log_request, msg_log_pre_prepare, msg_log_prepare,
                       msg_log_view_change, msg_log_new_view, certificates,
                       roast_active, agreementOut, viewOut, roastOut, blocks>>

-----------------------------------------------------------------------------
(* Signing and execution.  The ROAST sessions are abstracted to what they   *)
(* promise: a coordinator that started ROAST asks for shares, a replica in  *)
(* ROAST signs the block it logged for the request, and a session is final  *)
(* when sig_quorum replicas have signed the same block.                     *)

pre_ROAST_INIT(d, v, n, r) ==
    /\ n = last_exec[r] + 1
    /\ committed(d, v, n, r)
    /\ roast_active[r] = {}

RoastInit(r) ==
    \E s \in KnownSlots(r) :
        /\ pre_ROAST_INIT(s.d, s.v, s.n, r)
        /\ roast_active' = set_roast_active(r, {s})
        /\ msg_out_roast_pre_signature' =
             IF primary(s.v) = r
             THEN msg_out_roast_pre_signature \union {[sender |-> r]}
             ELSE msg_out_roast_pre_signature
        /\ UNCHANGED <<alive, view, active_view, seqno, executed, checkpoint,
                       msg_log_request, agreementLogs, viewLogs, certificates,
                       agreementOut, viewOut, msg_out_roast_signature_share,
                       blocks>>

\* The message names no slot, so a PRE_SIGNATURE of an earlier view is
\* answered like any other.  Without a logged PRE_PREPARE, FindByV_N_Req
\* throws and the process terminates.
RoastReceivePreSignature(r) ==
    \E s \in roast_active[r] :
        /\ msg_out_roast_pre_signature # {}
        /\ \/ /\ FindByV_N_Req(r, s.d) = {}
              /\ alive' = alive \ {r}
              /\ UNCHANGED msg_out_roast_signature_share
           \/ \E b \in FindByV_N_Req(r, s.d) :
              /\ msg_out_roast_signature_share' =
                   msg_out_roast_signature_share \union
                     {[b |-> b, sender |-> r]}
              /\ UNCHANGED alive
        /\ UNCHANGED <<view, active_view, seqno, executed, checkpoint,
                       msg_log_request, agreementLogs, viewLogs, certificates,
                       roast_active, agreementOut, viewOut,
                       msg_out_roast_pre_signature, blocks>>

roast_final_signature_session(b, r) ==
    /\ roast_active[r] # {}
    /\ Cardinality({m \in msg_out_roast_signature_share : m.b = b})
         >= sig_quorum

pre_EXECUTE(d, v, n, b, r) ==
    /\ n = last_exec[r] + 1
    /\ committed(d, v, n, r)
    /\ primary(v) = r
    /\ roast_final_signature_session(b, r)

\* FinalizeBlock, SubmitBlock, then the engine's effect.
Execute(r) ==
    \E s \in KnownSlots(r) : \E b \in FindByV_N_Req(r, s.d) :
        /\ pre_EXECUTE(s.d, s.v, s.n, b, r)
        /\ blocks' = blocks \union {b}
        /\ apply_EXECUTE(s.d, s.n, b, r)
        /\ UNCHANGED <<alive, view, active_view, seqno, checkpoint,
                       msg_log_request, agreementLogs, viewLogs, certificates,
                       roast_active, agreementOut, viewOut, roastOut>>

\* Fault variant: the new checkpoint is discarded with the old ones.
add_checkpoint_Strict(b, r) ==
    {c \in checkpoint[r] \union {[n |-> b.n, val |-> b, t |-> b.t]} :
        c.n > b.n}

\* The checkpoints after block b: it is added, the older ones are dropped.
add_checkpoint(b, r) ==
    {c \in checkpoint[r] \union {[n |-> b.n, val |-> b, t |-> b.t]} :
        c.n >= b.n}

\* A block for a time that is no logged request is refused; seqno is left as
\* it is.
RECEIVE_BLOCK(b, r) ==
    /\ b.t \in msg_log_request[r]
    /\ apply_EXECUTE(b.t, b.n, b, r)
    /\ checkpoint' = [checkpoint EXCEPT ![r] = add_checkpoint(b, r)]
    /\ collect_garbage(b.n, r)

\* The itcoin node announces a block of the chain.
ReceiveBlock(r) ==
    \E b \in blocks :
        /\ RECEIVE_BLOCK(b, r)
        /\ UNCHANGED <<alive, view, active_view, seqno, viewLogs,
                       agreementOut, viewOut, roastOut, blocks>>

-----------------------------------------------------------------------------
(* Changing view.                                                          *)

\* Fault variant: any F + 1 COMMITs of the view are taken as evidence.
RecoverableViews_FewCommits(r) ==
    {v \in {m.v : m \in msg_log_commit_view_recovery[r]} :
        /\ v > view[r]
        /\ Cardinality({m \in msg_log_commit_view_recovery[r] : m.v = v})
             >= sig_quorum}

\* The later views in which a quorum committed a block this replica has.
RecoverableViews(r) ==
    {v \in {m.v : m \in msg_log_commit_view_recovery[r]} :
        /\ v > view[r]
        /\ \E c \in checkpoint[r] :
             Cardinality({m \in msg_log_commit_view_recovery[r] :
                            m.v = v /\ m.n = c.n}) >= quorum}

\* Neither seqno nor the ROAST state follows the replica into the view.
RecoverView(r) ==
    \E v \in RecoverableViews(r) :
        /\ active_view[r]
        /\ max_list(RecoverableViews(r), v)
        /\ view' = [view EXCEPT ![r] = v]
        /\ msg_log_clear_where_view_less_than(r, v)
        /\ msg_log_view_change' = FromView(msg_log_view_change, r, v)
        /\ UNCHANGED <<alive, active_view, seqno, executed, checkpoint,
                       msg_log_request, certificates, roast_active,
                       agreementOut, viewOut, roastOut, blocks>>

\* The timeout 2^view * target_block_time / 2 of a pending request expires.
pre_SEND_VIEW_CHANGE(r) == \E t \in msg_log_request[r] : last_rep[r] < t

SendViewChange(r) ==
    \E c \in checkpoint[r] :
        LET v == view[r] + 1
            m == [v |-> v, h |-> get_h(r), c |-> c.val,
                  P |-> update_view_change_Pi(r),
                  Q |-> update_view_change_Qi(r), sender |-> r]
        IN /\ view[r] < MaxView
           /\ c.n = get_h(r)
           /\ pre_SEND_VIEW_CHANGE(r)
           /\ view' = [view EXCEPT ![r] = v]
           /\ active_view' = [active_view EXCEPT ![r] = FALSE]
           /\ roast_active' = set_roast_active(r, {})
           /\ view_change_Pi' = [view_change_Pi EXCEPT ![r] = m.P]
           /\ view_change_Qi' = [view_change_Qi EXCEPT ![r] = m.Q]
           /\ msg_out_view_change' = msg_out_view_change \union {m}
           /\ msg_log_clear_where_view_less_than(r, v)
           /\ msg_log_view_change' =
                [msg_log_view_change EXCEPT ![r] =
                    {x \in @ \union {m} : x.v >= v}]
           /\ UNCHANGED <<alive, seqno, executed, checkpoint, msg_log_request,
                          agreementOut, msg_out_new_view, roastOut, blocks>>

pre_RECEIVE_VIEW_CHANGE(m, r) ==
    /\ m.sender # r
    /\ m.v >= view[r]
    /\ correct_view_change(m)
    /\ ~\E x \in msg_log_view_change[r] : x.v = m.v /\ x.sender = m.sender

ReceiveViewChange(r) ==
    \E m \in msg_out_view_change :
        /\ pre_RECEIVE_VIEW_CHANGE(m, r)
        /\ msg_log_view_change' =
             [msg_log_view_change EXCEPT ![r] = @ \union {m}]
        /\ UNCHANGED <<alive, view, active_view, seqno, executed, checkpoint,
                       msg_log_request, agreementLogs,
                       msg_log_commit_view_recovery, msg_log_new_view,
                       certificates, roast_active, agreementOut, viewOut,
                       roastOut, blocks>>

pre_SEND_NEW_VIEW(Nu, r) ==
    /\ primary(view[r]) = r
    /\ correct_nu_once(Nu, r)
    /\ ~\E x \in msg_log_new_view[r] : x.v = view[r]

\* A null entry of Chi has no block: building the message to be sent throws,
\* and the process terminates before anything is broadcast.
SendNewView(r) ==
    LET Nu == msg_log_view_change[r] IN
    /\ pre_SEND_NEW_VIEW(Nu, r)
    /\ \/ /\ null_chi(Nu)
          /\ alive' = alive \ {r}
          /\ UNCHANGED <<msg_log_new_view, msg_out_new_view>>
       \/ \E Chi \in SUBSET UNION {ChiEntries(n, Nu) : n \in PreparedNs(Nu)} :
          LET m == [v |-> view[r], Nu |-> Nu, Chi |-> Chi, sender |-> r] IN
          /\ correct_chi(Chi, Nu)
          /\ msg_log_new_view' =
               [msg_log_new_view EXCEPT ![r] = @ \union {m}]
          /\ msg_out_new_view' = msg_out_new_view \union {m}
          /\ UNCHANGED alive
    /\ UNCHANGED <<view, active_view, seqno, executed, checkpoint,
                   msg_log_request, agreementLogs,
                   msg_log_commit_view_recovery, msg_log_view_change,
                   certificates, roast_active, agreementOut,
                   msg_out_view_change, roastOut, blocks>>

\* Already known is decided by the content under the current view.
RECEIVE_NEW_VIEW(m, r) ==
    /\ m.sender # r
    /\ m.sender = primary(m.v)
    /\ m.v > 0 /\ m.v <= view[r]
    /\ msg_log_new_view' =
         IF \E x \in msg_log_new_view[r] :
                x.v = view[r] /\ x.Nu = m.Nu /\ x.Chi = m.Chi
         THEN msg_log_new_view
         ELSE [msg_log_new_view EXCEPT ![r] = @ \union {m}]

ReceiveNewView(r) ==
    \E m \in msg_out_new_view :
        /\ RECEIVE_NEW_VIEW(m, r)
        /\ UNCHANGED <<alive, view, active_view, seqno, executed, checkpoint,
                       msg_log_request, agreementLogs,
                       msg_log_commit_view_recovery, msg_log_view_change,
                       certificates, roast_active, agreementOut, viewOut,
                       roastOut, blocks>>

\* Only the VIEW_CHANGEs of Nu at this replica's own checkpoint are compared
\* with it.
pre_PROCESS_NEW_VIEW(nv, r) ==
    LET peers == {m \in nv.Nu : m.h = get_h(r)} IN
    /\ ~active_view[r]
    /\ correct_new_view(nv, r)
    /\ peers # {}
    /\ \A m \in peers : \E c \in checkpoint[r] : c.val = m.c
    /\ nv.Chi # {} => Min({e.n : e \in nv.Chi}) = get_h(r) + 1
    /\ \A e \in nv.Chi : e.d \in msg_log_request[r]

ProcessNewView(r) ==
    \E nv \in msg_log_new_view[r] :
        LET v == view[r]
            ppps == {[v |-> v, n |-> e.n, d |-> e.d, b |-> e.b,
                      sender |-> primary(v)] : e \in nv.Chi}
            own == IF primary(v) = r THEN {}
                   ELSE {[v |-> v, n |-> e.n, d |-> e.d, sender |-> r] :
                            e \in nv.Chi}
            ns == {m.n : m \in {x \in msg_log_pre_prepare[r] \union ppps :
                                    x.v = v}}
        IN \E s \in IF ns = {} THEN {get_h(r)} ELSE ns :
           /\ pre_PROCESS_NEW_VIEW(nv, r)
           /\ active_view' = [active_view EXCEPT ![r] = TRUE]
           /\ msg_log_pre_prepare' =
                [msg_log_pre_prepare EXCEPT ![r] = @ \union ppps]
           /\ \A n \in ns : n <= s
           /\ seqno' = [seqno EXCEPT ![r] = s]
           /\ msg_log_prepare' =
                [msg_log_prepare EXCEPT ![r] = @ \union own]
           /\ msg_out_prepare' = msg_out_prepare \union own
           /\ UNCHANGED <<alive, view, executed, checkpoint, msg_log_request,
                          msg_log_commit, viewLogs, certificates,
                          roast_active, msg_out_pre_prepare, msg_out_commit,
                          viewOut, roastOut, blocks>>

-----------------------------------------------------------------------------
Next ==
    \E r \in alive :
        \/ GenerateRequests(r)
        \/ SendPrePrepare(r) \/ ReceivePrePrepare(r)
        \/ SendPrepare(r) \/ ReceivePrepare(r)
        \/ SendCommit(r) \/ ReceiveCommit(r)
        \/ RoastInit(r) \/ RoastReceivePreSignature(r)
        \/ Execute(r) \/ ReceiveBlock(r)
        \/ RecoverView(r)
        \/ SendViewChange(r) \/ ReceiveViewChange(r)
        \/ SendNewView(r) \/ ReceiveNewView(r) \/ ProcessNewView(r)

Spec == Init /\ [][Next]_vars
=============================================================================
