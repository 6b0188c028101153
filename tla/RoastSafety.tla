----------------------------- MODULE RoastSafety -----------------------------
(* What signing a block with ROAST promises.                                *)
EXTENDS Roast

TablesOK(st) ==
    /\ st.active \subseteq View /\ Cardinality(st.active) <= 1
    /\ st.responsive \subseteq Replica
    /\ st.malicious \subseteq Replica
    /\ st.latest \in PreSignature
    /\ st.counter \in Nat
    /\ \A i \in Replica : st.sid[i] \in {0} \union DOMAIN st.session
    /\ \A s \in DOMAIN st.session :
         /\ st.session[s].presig \in PreSignature
         /\ Range(st.session[s].shares) \subseteq SessionShare
    /\ st.out = {}

\* Each variable holds its kind of value; a session holds shares of signers and
\* the false of COMMITs that came while it was open.  roast_signers_sid only
\* names sessions that roast_signature_session stores, for otherwise the handler
\* of a signature share would fail on the lookup.
TypeOK ==
    /\ view \in [Replica -> View]
    /\ \A m \in msg_out_commit : m.v \in View /\ m.sender \in Replica
    /\ \A r \in Replica : msg_log_commit[r] \subseteq msg_out_commit
    /\ nonce \in [Replica -> Nat]
    /\ \A r \in Replica : TablesOK(roast[r])
    /\ \A m \in pre_signatures : m.to \in Replica /\ m.presig \in PreSignature
    /\ \A m \in signature_shares : m.to \in Coordinators /\ m.share \in signed
    /\ signed \subseteq Share
    /\ checkpointed \subseteq executed /\ executed \subseteq Replica
    /\ crashed \union aborted \union dropped \subseteq Replica
    /\ duplicates \in 0 .. MaxDuplicates

\* A final session can be executed: it has the share of each of its signers,
\* made for the session's pre-signature with the nonce committed to it.  This
\* is what apply_RECEIVE_SIG_SHARE relies on when it stops collecting ("Here we
\* can execute!"): FinalizeBlock throws on any other shares.
FinalSessionSound ==
    \A r \in Replica : \A s \in roast_final_signature_session(roast[r]) :
        Aggregates(roast[r].session[s])

\* The coordinator opens at most n - t + 1 sessions for a block, t being
\* sig_quorum: every session but the last holds back a signer that no other
\* open session has.
SessionsBounded ==
    \A r \in Replica : roast[r].counter <= ClusterSize - sig_quorum + 1

\* No wallet signs twice with one nonce, whatever is repeated, late or left
\* over from another view: two shares with the same nonce reveal the key
\* share.  GetSignatureShare and GetPreSignatureShare have to guarantee it.
NonceUsedOnce ==
    \A x, y \in signed : x.signer = y.signer /\ x.nonce = y.nonce => x = y

\* Signers the coordinator waits for in vain.
Silent == crashed \union dropped

\* With at most F signers silent, stopped or having ignored a request, the
\* block is signed and executed in the first view, in whatever order COMMITs
\* and shares arrive at the coordinator.
SignedUnlessSilent ==
    [](Cardinality(Silent) <= F) => <>(executed # {})

\* A signer that is asked for a share makes one, unless the block is executed
\* without it: "Always send the signature share upon receive of
\* pre_signature_share" in apply_RECEIVE_PRE_SIGNATURE.
AskedSigns ==
    \A i \in Replica :
        (\E m \in pre_signatures : m.to = i) ~>
            (executed # {} \/ \E s \in signed : s.signer = i)
=============================================================================
