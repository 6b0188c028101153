----------------------------- MODULE FbftRestart ------------------------------
(***************************************************************************)
(* Replicas of FbftEngine whose process is stopped at any moment, in the    *)
(* middle of a slot or of a view change, and started again (src/src/main.cpp *)
(* and init_notx of the engine).  Only the view is kept in the database; the *)
(* height, the last block and its time come from the itcoin node.  A process *)
(* stopped while it changes the view may leave a database without a view.   *)
(***************************************************************************)
EXTENDS FbftSafety

CONSTANT MaxRestarts    \* bound: restarts of all the replicas together

ASSUME MaxRestartsAssumption == MaxRestarts \in Nat

VARIABLES
    restarts,
    unset               \* replicas whose database holds no view

restartVars == <<vars, restarts, unset>>

\* Best block of the replica's node: it holds what the replica has executed,
\* and may have received more while the process was down.
Tips(r) == {b \in blocks : b.n > last_exec[r] \/ b = val[r]}

\* Fault variant: the database is always reset.
restored_view_Reset(r) == 0

\* The view that init_notx finds in the database, if any: the one last set.
restored_view(r) == view[r]

\* GenerateRequests, which comes first in every event: up to the horizon.
FirstRequests(t) ==
    {u \in t + 1 .. MaxRequest : u <= t + MaxNumGeneratedRequests}

\* Without a view in the database init_notx fails, and so does every action of
\* the process after it: the replica never takes part again.
Restart(r) ==
    /\ r \notin unset
    /\ restarts < MaxRestarts
    /\ restarts' = restarts + 1
    /\ alive' = alive \union {r}
    /\ \E tip \in Tips(r) :
        /\ seqno' = [seqno EXCEPT ![r] = tip.n]
        /\ last_exec' = [last_exec EXCEPT ![r] = tip.n]
        /\ last_rep' = [last_rep EXCEPT ![r] = tip.t]
        /\ val' = [val EXCEPT ![r] = tip]
        /\ checkpoint' = [checkpoint EXCEPT ![r] =
                            {[n |-> tip.n, val |-> tip, t |-> tip.t]}]
        /\ msg_log_request' = [msg_log_request EXCEPT ![r] =
                                 FirstRequests(tip.t)]
    /\ view' = [view EXCEPT ![r] = restored_view(r)]
    /\ active_view' = [active_view EXCEPT ![r] = TRUE]
    /\ msg_log_pre_prepare' = [msg_log_pre_prepare EXCEPT ![r] = {}]
    /\ msg_log_prepare' = [msg_log_prepare EXCEPT ![r] = {}]
    /\ msg_log_commit' = [msg_log_commit EXCEPT ![r] = {}]
    /\ msg_log_commit_view_recovery' =
         [msg_log_commit_view_recovery EXCEPT ![r] = {}]
    /\ msg_log_view_change' = [msg_log_view_change EXCEPT ![r] = {}]
    /\ msg_log_new_view' = [msg_log_new_view EXCEPT ![r] = {}]
    /\ view_change_Pi' = [view_change_Pi EXCEPT ![r] = {}]
    /\ view_change_Qi' = [view_change_Qi EXCEPT ![r] = {}]
    /\ roast_active' = [roast_active EXCEPT ![r] = {}]
    /\ UNCHANGED <<agreementOut, viewOut, roastOut, blocks, unset>>

\* The process is stopped inside set_view, which SEND_VIEW_CHANGE and
\* RECOVER_VIEW call: retractall_view has reached the database, assert_view has
\* not, and nothing has been sent.
StopInSetView(r) ==
    /\ \/ view[r] < MaxView /\ pre_SEND_VIEW_CHANGE(r)
       \/ active_view[r] /\ RecoverableViews(r) # {}
    /\ alive' = alive \ {r}
    /\ unset' = unset \union {r}
    /\ UNCHANGED <<view, active_view, seqno, executed, checkpoint,
                   msg_log_request, agreementLogs, viewLogs, certificates,
                   roast_active, agreementOut, viewOut, roastOut, blocks,
                   restarts>>

-----------------------------------------------------------------------------
RestartInit == Init /\ restarts = 0 /\ unset = {}

RestartNext ==
    \/ Next /\ UNCHANGED <<restarts, unset>>
    \/ \E r \in Running : Restart(r)
    \/ \E r \in alive : StopInSetView(r)

RestartSpec == RestartInit /\ [][RestartNext]_restartVars
=============================================================================
