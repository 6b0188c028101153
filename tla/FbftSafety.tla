------------------------------ MODULE FbftSafety ------------------------------
(***************************************************************************)
(* What the replicas of FbftEngine promise.                                 *)
(***************************************************************************)
EXTENDS FbftEngine

\* The quorum of the protocol, stated apart from the engine's own definition.
ByzantineQuorum == 2 * F + 1

\* The blocks that the itcoin nodes hold when the replicas start.
InitialChain ==
    {ChainBlock(n) : n \in UNION {0 .. StartHeight[r] : r \in Replica}}

\* Every table holds values of its own kind; a replica always has a
\* checkpoint, and is in ROAST for at most one slot.
TypeOK ==
    /\ alive \subseteq Replica
    /\ view \in [Replica -> Nat]
    /\ active_view \in [Replica -> BOOLEAN]
    /\ seqno \in [Replica -> Nat]
    /\ last_exec \in [Replica -> Nat]
    /\ last_rep \in [Replica -> Nat]
    /\ val \in [Replica -> Block]
    /\ checkpoint \in [Replica -> SUBSET Checkpoint]
    /\ \A r \in Replica : checkpoint[r] # {}
    /\ msg_log_request \in [Replica -> SUBSET Nat]
    /\ msg_log_pre_prepare \in [Replica -> SUBSET PrePrepare]
    /\ msg_log_prepare \in [Replica -> SUBSET Prepare]
    /\ msg_log_commit \in [Replica -> SUBSET Commit]
    /\ msg_log_commit_view_recovery \in [Replica -> SUBSET RecoveryCommit]
    /\ msg_log_view_change \in [Replica -> SUBSET ViewChange]
    /\ msg_log_new_view \in [Replica -> SUBSET NewView]
    /\ view_change_Pi \in [Replica -> SUBSET PiEntry]
    /\ view_change_Qi \in [Replica -> SUBSET QiEntry]
    /\ roast_active \in [Replica -> SUBSET Slot]
    /\ \A r \in Replica : \A s, t \in roast_active[r] : s = t
    /\ msg_out_pre_prepare \subseteq PrePrepare
    /\ msg_out_prepare \subseteq Prepare
    /\ msg_out_commit \subseteq Commit /\ IsFiniteSet(msg_out_commit)
    /\ msg_out_view_change \subseteq ViewChange
    /\ msg_out_new_view \subseteq NewView
    /\ msg_out_roast_pre_signature \subseteq RoastPreSignature
    /\ msg_out_roast_signature_share \subseteq RoastSignatureShare
    /\ blocks \subseteq Block

\* All PRE_PREPAREs logged for one view and sequence number, at any two
\* replicas, propose the same request and the same block, whether they came
\* by PRE_PREPARE or inside a NEW_VIEW.
SlotAgreement ==
    \A r, s \in Replica :
        \A x \in msg_log_pre_prepare[r], y \in msg_log_pre_prepare[s] :
            x.v = y.v /\ x.n = y.n => x.d = y.d /\ x.b = y.b

\* A replica that sent a COMMIT has prepared the slot; each VIEW_CHANGE it
\* sends later, as long as the slot is above its checkpoint, says so in P.
ViewChangeKeepsPrepared ==
    \A m \in msg_out_view_change, c \in msg_out_commit :
        c.sender = m.sender /\ c.v < m.v /\ c.n > m.h
            => \E p \in m.P : p.n = c.n

\* A NEW_VIEW is justified by VIEW_CHANGEs for its own view from a quorum of
\* different replicas.
NewViewHasQuorum ==
    \A nv \in msg_out_new_view :
        Cardinality({m.sender : m \in {x \in nv.Nu : x.v = nv.v}})
            >= ByzantineQuorum

\* A block submitted in an earlier view, above the checkpoints of a NEW_VIEW,
\* is the block the NEW_VIEW proposes again at that height.
NewViewKeepsExecuted ==
    \A nv \in msg_out_new_view, b \in blocks :
        b.v < nv.v /\ (\A m \in nv.Nu : b.n > m.h)
            => \E e \in nv.Chi : e.n = b.n /\ e.b = b

\* Block b was proposed in view v: by a PRE_PREPARE, or again by a NEW_VIEW.
ProposedIn(b, v) ==
    \/ \E m \in msg_out_pre_prepare : m.v = v /\ m.b = b
    \/ \E nv \in msg_out_new_view : nv.v = v /\ \E e \in nv.Chi : e.b = b

\* The replicas that sent a COMMIT for sequence number n in view v.
Committers(v, n) ==
    {m.sender : m \in {x \in msg_out_commit : x.v = v /\ x.n = n}}

\* A block is only submitted after a quorum of replicas have sent COMMITs for
\* its height, all in one view, and one in which this block was proposed: a
\* COMMIT names no block, so COMMITs of another view prove nothing of it.
ExecutedByQuorum ==
    \A b \in blocks :
        b.tag # 0 =>
            \E c \in msg_out_commit :
                /\ ProposedIn(b, c.v)
                /\ Cardinality(Committers(c.v, b.n)) >= ByzantineQuorum

\* The chain has no gap, and the block of height n is the one scheduled for
\* period n ("one block at a time").
ChainOnSchedule ==
    \A b \in blocks : /\ b.t = b.n
                      /\ b.n > 0 => \E a \in blocks : a.n = b.n - 1

\* The state a replica reports is a block of the chain, at the height and time
\* it last executed, and at most one block beyond its checkpoint.
StateOnChain ==
    \A r \in Replica :
        /\ val[r] \in blocks
        /\ val[r].n = last_exec[r] /\ val[r].t = last_rep[r]
        /\ last_exec[r] - get_h(r) \in {0, 1}
        /\ \A c \in checkpoint[r] : c.val \in blocks

\* A replica never signs in a view it has left: while ROAST is on, its slot is
\* of the replica's view and next to be executed or just executed.  RECOVER_VIEW
\* does not switch ROAST off, as SEND_VIEW_CHANGE does.
RoastInCurrentView ==
    \A r \in Replica : \A s \in roast_active[r] :
        s.v = view[r] /\ s.n = get_h(r) + 1

\* A view that a replica entered and is active in was opened by a NEW_VIEW of
\* its primary, or used by a quorum that committed a block in it.
ActiveViewJustified ==
    \A r \in Replica :
        active_view[r] /\ view[r] > StartView[r] =>
            \/ \E nv \in msg_out_new_view : nv.v = view[r]
            \/ \E c \in msg_out_commit :
                 /\ c.v = view[r]
                 /\ Cardinality(Committers(c.v, c.n)) >= ByzantineQuorum

\* No process terminates on an exception of its own, in SEND_NEW_VIEW or in the
\* lookup of a proposal.  Shares always aggregate here; Roast has that failure.
NoAbort == alive = Running

\* No step takes a replica back: to an earlier view, below its checkpoint or
\* before its last executed block.
NeverBack ==
    [][\A r \in Replica :
        /\ view'[r] >= view[r]
        /\ get_h(r)' >= get_h(r)
        /\ last_exec'[r] >= last_exec[r]]_vars

\* The chain that all the replicas together submit is one ledger: a block is
\* added at the next height only and never replaced (refinement of Ledger).
L == INSTANCE Ledger WITH GenesisChain <- InitialChain
LedgerSpec == L!Spec
=============================================================================
