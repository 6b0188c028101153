-------------------------------- MODULE Roast --------------------------------
(***************************************************************************)
(* ROAST signing of one block: the coordinator's session table in           *)
(* src/engine/fbft-replica-engine.pl, the signers, and the nonce of          *)
(* src/src/wallet/RoastWalletImpl.cpp.  FbftEngine replaces all this by its   *)
(* outcome, a set of shares for a block.                                    *)
(*                                                                          *)
(* One height is signed.  The agreement that precedes it is FbftEngine's:    *)
(* here a replica may be prepared at any time in a view that a quorum has    *)
(* entered, for the same block in every view (what a NEW_VIEW carries over). *)
(*                                                                          *)
(* A nonce is the number of the pre-signature share it was made for at its   *)
(* replica; 0 is no nonce.  A pre-signature maps each signer to its nonce,   *)
(* the others to 0.  A share is valid in a session when it was made for the  *)
(* session's pre-signature with the nonce the signer has there.              *)
(*                                                                          *)
(* Each message is delivered once to each receiver, in any order, or later   *)
(* than everything else; MaxDuplicates of them are delivered again.          *)
(***************************************************************************)
EXTENDS FbftMessages, SequencesExt

CONSTANTS
    Running,          \* the replicas whose process is up at the start
    MaxView,          \* bound: no replica times out of this view
    MaxDuplicates,    \* bound: messages that are delivered once more
    MaxCrashes        \* bound: signers that do not run

ASSUME RunningAssumption == Running \subseteq Replica
ASSUME RoastBoundsAssumption ==
    MaxView \in Nat /\ MaxDuplicates \in Nat /\ MaxCrashes \in 0 .. F

VARIABLES
    view,
    msg_log_commit,     \* COMMITs known to a replica
    msg_out_commit,     \* COMMITs sent
    nonce,              \* m_nonce of each wallet
    roast,              \* the roast_* tables of each replica
    pre_signatures,     \* ROAST_PRE_SIGNATUREs on their way
    signature_shares,   \* ROAST_SIGNATURE_SHAREs on their way
    signed,             \* history: every share ever made
    executed,           \* replicas whose last_exec is the height
    checkpointed,       \* replicas that have received the block
    crashed,            \* replicas that are not running
    aborted,            \* replicas ended by an exception
    dropped,            \* history: signers that ignored a PRE_SIGNATURE too early
    duplicates          \* deliveries repeated so far

agreement == <<view, msg_log_commit, msg_out_commit>>
network == <<pre_signatures, signature_shares, duplicates>>
progress == <<executed, checkpointed, crashed, aborted>>
history == <<signed, dropped>>

vars == <<agreement, nonce, roast, network, progress, history>>

View == 0 .. MaxView
Coordinators == {primary(v) : v \in View}
alive == Replica \ (crashed \union aborted)

PreSignature == [Replica -> Nat]
Share == [signer : Replica, presig : PreSignature, nonce : Nat]

\* The atom false that RECEIVE_SIG_SHARE gets for a COMMIT, which has no share:
\* nobody made it, so that it is never a Share and never aggregates.
NoShare == [signer |-> -1, presig |-> [i \in Replica |-> 0], nonce |-> 0]

\* What the rows of a session can hold.
SessionShare == Share \union {NoShare}

Signers(presig) == {i \in Replica : presig[i] # 0}

-----------------------------------------------------------------------------
(* The coordinator.  st is the content of the roast_* tables of replica r. *)

roast_collect_garbage ==
    [active |-> {}, responsive |-> {}, malicious |-> {},
     latest |-> [i \in Replica |-> 0], counter |-> 0,
     sid |-> [i \in Replica |-> 0], session |-> << >>, out |-> {}]

\* Fault variant: final needs as many shares as agreement needs COMMITs.
roast_final_signature_session_Quorum(st) ==
    {s \in DOMAIN st.session :
        st.active # {} /\ Len(st.session[s].shares) = quorum}

roast_final_signature_session(st) ==
    {s \in DOMAIN st.session :
        st.active # {} /\ Len(st.session[s].shares) = sig_quorum}

Final(st) == roast_final_signature_session(st) # {}

\* Fault variant: the session is announced but not remembered.
NewSession_NotStored(st) ==
    LET c == st.counter + 1
        presig == [i \in Replica |->
                     IF i \in st.responsive THEN st.latest[i] ELSE 0]
    IN [st EXCEPT !.counter = c,
                  !.sid = [i \in Replica |->
                             IF i \in st.responsive THEN c ELSE @[i]],
                  !.out = @ \union {presig},
                  !.responsive = {}]

\* A new session with the responsive signers, who are pending again.
NewSession(st) ==
    LET c == st.counter + 1
        presig == [i \in Replica |->
                     IF i \in st.responsive THEN st.latest[i] ELSE 0]
    IN [st EXCEPT !.counter = c,
                  !.sid = [i \in Replica |->
                             IF i \in st.responsive THEN c ELSE @[i]],
                  !.session = [s \in DOMAIN @ \union {c} |->
                                 IF s = c THEN [presig |-> presig,
                                                shares |-> << >>]
                                 ELSE @[s]],
                  !.out = @ \union {presig},
                  !.responsive = {}]

\* Fault variant: a share counts for the session that was opened last.
RECEIVE_SIG_SHARE_LastSession(st, r, i, share, next) ==
    LET stored == IF st.sid[i] = 0 THEN st
                  ELSE [st EXCEPT !.session[st.counter].shares =
                                     Append(@, share)]
        heard == [stored EXCEPT !.latest[i] = next,
                                !.responsive = @ \union {i}]
    IN {IF Final(stored) THEN stored
        ELSE IF Cardinality(heard.responsive) = sig_quorum
             THEN NewSession(heard)
             ELSE heard :
          v \in {x \in st.active : ~Final(st) /\ primary(x) = r}}

\* Fault variant: a signer that has a session is not responsive again.
RECEIVE_SIG_SHARE_OneSession(st, r, i, share, next) ==
    LET stored == [st EXCEPT !.session[st.sid[i]].shares = Append(@, share)]
        heard == [st EXCEPT !.latest[i] = next,
                            !.responsive = @ \union {i}]
    IN {IF st.sid[i] # 0 THEN stored
        ELSE IF Cardinality(heard.responsive) = sig_quorum
             THEN NewSession(heard)
             ELSE heard :
          v \in {x \in st.active : ~Final(st) /\ primary(x) = r}}

\* Fault variant: a share that comes when a session is final is taken too.
RECEIVE_SIG_SHARE_AfterFinal(st, r, i, share, next) ==
    LET stored == IF st.sid[i] = 0 THEN st
                  ELSE [st EXCEPT !.session[st.sid[i]].shares =
                                     Append(@, share)]
        heard == [stored EXCEPT !.latest[i] = next,
                                !.responsive = @ \union {i}]
    IN {IF Final(stored) THEN stored
        ELSE IF Cardinality(heard.responsive) = sig_quorum
             THEN NewSession(heard)
             ELSE heard :
          v \in {x \in st.active : primary(x) = r}}

\* The tables after a message (share, next) of signer i: at most one outcome,
\* none when the transaction fails.
RECEIVE_SIG_SHARE(st, r, i, share, next) ==
    LET marked == [st EXCEPT !.malicious = @ \union ({i} \cap st.responsive)]
        stored == IF st.sid[i] = 0 THEN marked
                  ELSE [marked EXCEPT !.session[st.sid[i]].shares =
                                         Append(@, share)]
        heard == [stored EXCEPT !.latest[i] = next,
                                !.responsive = @ \union {i}]
    IN {IF Final(stored) THEN stored
        ELSE IF Cardinality(heard.responsive) = sig_quorum
             THEN NewSession(heard)
             ELSE heard :
          v \in {x \in st.active : ~Final(st) /\ primary(x) = r}}

\* ROAST_INIT of the coordinator, over its logged COMMITs in the order of the
\* log.
InitTables(st, r, v, commits) ==
    LET after[k \in 0 .. Len(commits)] ==
          IF k = 0 THEN {[st EXCEPT !.active = {v}, !.counter = 0]}
          ELSE UNION {RECEIVE_SIG_SHARE(x, r, commits[k].sender, NoShare,
                                        commits[k].nonce) : x \in after[k - 1]}
    IN after[Len(commits)]

-----------------------------------------------------------------------------
Init ==
    /\ view = [r \in Replica |-> 0]
    /\ msg_log_commit = [r \in Replica |-> {}]
    /\ msg_out_commit = {}
    /\ nonce = [r \in Replica |-> 0]
    /\ roast = [r \in Replica |-> roast_collect_garbage]
    /\ pre_signatures = {}
    /\ signature_shares = {}
    /\ signed = {}
    /\ executed = {}
    /\ checkpointed = {}
    /\ crashed = Replica \ Running
    /\ aborted = {}
    /\ dropped = {}
    /\ duplicates = 0

\* m leaves the network, or stays to be delivered once more.
Deliver(m, net) ==
    \/ net' = net \ {m} /\ UNCHANGED duplicates
    \/ /\ duplicates < MaxDuplicates
       /\ duplicates' = duplicates + 1
       /\ UNCHANGED net

\* The tables of r become st; the PRE_SIGNATUREs it has to send go to the
\* signers they name, the coordinator among them.
SetTables(r, st, net) ==
    /\ roast' = [roast EXCEPT ![r] = [st EXCEPT !.out = {}]]
    /\ pre_signatures' = net \union
         UNION {{[to |-> i, presig |-> p] : i \in Signers(p)} : p \in st.out}

-----------------------------------------------------------------------------
(* Agreement, as far as signing sees it.                                   *)

\* A NEW_VIEW needs VIEW_CHANGEs of a quorum.
Opened(v) == v = 0 \/ Cardinality({r \in Replica : view[r] >= v}) >= quorum

SendCommit(r) ==
    LET m == [v |-> view[r], sender |-> r, nonce |-> nonce[r] + 1] IN
    /\ r \notin checkpointed
    /\ Opened(view[r])
    /\ ~\E x \in msg_log_commit[r] : x.sender = r /\ x.v = view[r]
    /\ nonce' = [nonce EXCEPT ![r] = @ + 1]
    /\ msg_out_commit' = msg_out_commit \union {m}
    /\ msg_log_commit' = [msg_log_commit EXCEPT ![r] = @ \union {m}]
    /\ UNCHANGED <<view, roast, network, progress, history>>

\* A COMMIT at the coordinator.  The other replicas only count COMMITs, and
\* Committed counts those that were sent.
ReceiveCommit(r) ==
    \E m \in msg_out_commit :
        /\ r = primary(view[r])
        /\ m.sender # r
        /\ m.v = view[r] /\ r \notin checkpointed
        /\ \/ m \notin msg_log_commit[r] /\ UNCHANGED duplicates
           \/ /\ m \in msg_log_commit[r]
              /\ duplicates < MaxDuplicates
              /\ duplicates' = duplicates + 1
        /\ msg_log_commit' = [msg_log_commit EXCEPT ![r] = @ \union {m}]
        /\ \E st \in IF m.v \in roast[r].active /\ ~Final(roast[r])
                     THEN RECEIVE_SIG_SHARE(roast[r], r, m.sender, NoShare,
                                            m.nonce)
                     ELSE {roast[r]} :
             SetTables(r, st, pre_signatures)
        /\ UNCHANGED <<view, msg_out_commit, nonce, signature_shares,
                       progress, history>>

Committed(r) ==
    LET known == IF primary(view[r]) = r THEN msg_log_commit[r]
                 ELSE msg_out_commit
    IN Cardinality({m \in known : m.v = view[r]}) >= quorum

\* SEND_VIEW_CHANGE switches ROAST off and keeps the other tables.
SendViewChange(r) ==
    /\ view[r] < MaxView
    /\ r \notin checkpointed
    /\ view' = [view EXCEPT ![r] = @ + 1]
    /\ roast' = [roast EXCEPT ![r].active = {}]
    /\ msg_log_commit' = [msg_log_commit EXCEPT ![r] = {}]
    /\ UNCHANGED <<msg_out_commit, nonce, network, progress, history>>

-----------------------------------------------------------------------------
(* Signing.                                                                *)

RoastInit(r) ==
    /\ r \notin executed
    /\ Committed(r)
    /\ roast[r].active = {}
    /\ IF primary(view[r]) = r
       THEN \E commits \in SetToSeqs(msg_log_commit[r]) :
            \E st \in InitTables(roast[r], r, view[r], commits) :
                SetTables(r, st, pre_signatures)
       ELSE /\ roast' = [roast EXCEPT ![r].active = {view[r]}]
            /\ UNCHANGED pre_signatures
    /\ UNCHANGED <<agreement, nonce, signature_shares, duplicates, progress,
                   history>>

\* Fault variant: the reply repeats the nonce that has just been used.
RoastReceivePreSignature_SameNonce(r) ==
    \E m \in pre_signatures :
        LET share == [signer |-> r, presig |-> m.presig, nonce |-> nonce[r]]
        IN /\ m.to = r /\ roast[r].active # {}
           /\ Deliver(m, pre_signatures)
           /\ signed' = signed \union {share}
           /\ signature_shares' = signature_shares \union
                {[to |-> c, share |-> share, next |-> nonce[r]] :
                    c \in Coordinators}
           /\ UNCHANGED <<agreement, nonce, roast, progress, dropped>>

\* The signer signs with the nonce it has now and makes a new one.  The reply
\* is broadcast; replicas that never coordinate refuse it.
RoastReceivePreSignature(r) ==
    \E m \in pre_signatures :
        /\ m.to = r
        /\ Deliver(m, pre_signatures)
        /\ IF roast[r].active = {}
           THEN /\ dropped' = dropped \union ({r} \ executed)
                /\ UNCHANGED <<nonce, signature_shares, signed>>
           ELSE LET share == [signer |-> r, presig |-> m.presig,
                              nonce |-> nonce[r]]
                IN /\ signed' = signed \union {share}
                   /\ nonce' = [nonce EXCEPT ![r] = @ + 1]
                   /\ signature_shares' = signature_shares \union
                        {[to |-> c, share |-> share, next |-> nonce[r] + 1] :
                            c \in Coordinators}
                   /\ UNCHANGED dropped
        /\ UNCHANGED <<agreement, roast, progress>>

RoastReceiveSignatureShare(r) ==
    \E m \in signature_shares :
        LET after == RECEIVE_SIG_SHARE(roast[r], r, m.share.signer, m.share,
                                       m.next)
        IN /\ m.to = r
           /\ Deliver(m, signature_shares)
           /\ \E st \in IF after = {} THEN {roast[r]} ELSE after :
                SetTables(r, st, pre_signatures)
           /\ UNCHANGED <<agreement, nonce, progress, history>>

\* What secp256k1_frost_aggregate and secp256k1_frost_verify accept.
Aggregates(session) ==
    LET shares == Range(session.shares) IN
    /\ {s.signer : s \in shares} = Signers(session.presig)
    /\ \A s \in shares : /\ s.presig = session.presig
                         /\ s.nonce = session.presig[s.signer]

\* FinalizeBlock throws when the shares do not aggregate, and nothing catches
\* it; otherwise the block is submitted.
Execute(r) ==
    /\ r \notin executed
    /\ Committed(r)
    /\ primary(view[r]) = r
    /\ \E s \in roast_final_signature_session(roast[r]) :
         IF Aggregates(roast[r].session[s])
         THEN executed' = executed \union {r} /\ UNCHANGED aborted
         ELSE aborted' = aborted \union {r} /\ UNCHANGED executed
    /\ UNCHANGED <<agreement, nonce, roast, network, checkpointed, crashed,
                   history>>

\* The node announces the block; garbage collection clears the tables.
ReceiveBlock(r) ==
    /\ executed # {}
    /\ r \notin checkpointed
    /\ executed' = executed \union {r}
    /\ checkpointed' = checkpointed \union {r}
    /\ msg_log_commit' = [msg_log_commit EXCEPT ![r] = {}]
    /\ roast' = [roast EXCEPT ![r] = roast_collect_garbage]
    /\ UNCHANGED <<view, msg_out_commit, nonce, network, crashed, aborted,
                   history>>

\* A signer stops for good; once the block is submitted it does not matter.
Crash(r) ==
    /\ Cardinality(crashed) < MaxCrashes
    /\ r \notin Coordinators /\ executed = {}
    /\ crashed' = crashed \union {r}
    /\ UNCHANGED <<agreement, nonce, roast, network, executed, checkpointed,
                   aborted, history>>

-----------------------------------------------------------------------------
Step(r) ==
    /\ r \in alive
    /\ \/ SendCommit(r) \/ ReceiveCommit(r)
       \/ RoastInit(r)
       \/ RoastReceivePreSignature(r) \/ RoastReceiveSignatureShare(r)
       \/ Execute(r) \/ ReceiveBlock(r)

Next ==
    \E r \in alive : Step(r) \/ SendViewChange(r) \/ Crash(r)

Spec == Init /\ [][Next]_vars

\* The replicas that are up keep handling their messages and active actions,
\* and what is on its way arrives.  Steps cannot go on for ever, so that fairness
\* of all of them together is fairness of each.  Timeouts and crashes need not
\* happen.
FairSpec == Spec /\ WF_vars(\E r \in Replica : Step(r))
=============================================================================
