----------------------------- MODULE RoastProofs -----------------------------
(* A nonce signs once, for every cluster and every bound.                   *)
EXTENDS RoastSafety, FiniteSetTheorems, SequenceTheorems, TLAPS

NonceType == nonce \in [Replica -> Nat]

\* The nonce in the wallet of a signer is newer than every nonce it has signed
\* with: GetSignatureShare never runs twice without GetPreSignatureShare.
SignedBefore ==
    \A s \in signed : /\ s.signer \in Replica /\ s.nonce \in Nat
                      /\ s.nonce < nonce[s.signer]

NonceInv == NonceType /\ SignedBefore /\ NonceUsedOnce

\* Initially no share exists.
LEMMA NonceInit == Init => NonceInv
BY DEF Init, NonceInv, NonceType, SignedBefore, NonceUsedOnce

\* A step that touches neither the wallets nor the shares keeps the invariant.
LEMMA NonceUntouched ==
    ASSUME NonceInv, UNCHANGED <<nonce, signed>>
    PROVE  NonceInv'
BY DEF NonceInv, NonceType, SignedBefore, NonceUsedOnce

\* SendCommit replaces the nonce by a newer one and signs nothing.
LEMMA NonceSendCommit ==
    ASSUME NEW r \in Replica, NonceInv, SendCommit(r)
    PROVE  NonceInv'
<1>1. nonce' = [nonce EXCEPT ![r] = @ + 1] /\ signed' = signed
  BY DEF SendCommit, history
<1>2. NonceType'
  BY <1>1 DEF NonceInv, NonceType
<1>3. ASSUME NEW s \in signed'
      PROVE  s.signer \in Replica /\ s.nonce \in Nat
             /\ s.nonce < nonce'[s.signer]
  <2>1. /\ s.signer \in Replica /\ s.nonce \in Nat
        /\ s.nonce < nonce[s.signer]
    BY <1>1, <1>3 DEF NonceInv, SignedBefore
  <2>2. nonce[s.signer] \in Nat /\ nonce'[s.signer] >= nonce[s.signer]
    BY <1>1, <2>1 DEF NonceInv, NonceType
  <2>3. nonce'[s.signer] \in Nat
    BY <1>2, <2>1 DEF NonceType
  <2> QED
    BY <2>1, <2>2, <2>3
<1>4. NonceUsedOnce'
  BY <1>1 DEF NonceInv, NonceUsedOnce
<1> QED
  BY <1>2, <1>3, <1>4 DEF NonceInv, SignedBefore

\* A signer signs with a nonce that no earlier share of it used, and replaces
\* it in the same step.
LEMMA NonceSign ==
    ASSUME NEW r \in Replica, NonceInv, RoastReceivePreSignature(r)
    PROVE  NonceInv'
<1>1. CASE UNCHANGED <<nonce, signed>>
  BY <1>1, NonceUntouched
<1>2. CASE ~UNCHANGED <<nonce, signed>>
  <2>1. PICK m \in pre_signatures :
          /\ signed' = signed \union {[signer |-> r, presig |-> m.presig,
                                       nonce |-> nonce[r]]}
          /\ nonce' = [nonce EXCEPT ![r] = @ + 1]
    BY <1>2 DEF RoastReceivePreSignature
  <2> DEFINE new == [signer |-> r, presig |-> m.presig, nonce |-> nonce[r]]
  <2>2. new.signer = r /\ new.nonce = nonce[r] /\ nonce[r] \in Nat
    BY DEF NonceInv, NonceType
  <2>3. NonceType'
    BY <2>1 DEF NonceInv, NonceType
  <2>4. ASSUME NEW s \in signed'
        PROVE  s.signer \in Replica /\ s.nonce \in Nat
               /\ s.nonce < nonce'[s.signer]
    <3>1. CASE s \in signed
      <4>1. /\ s.signer \in Replica /\ s.nonce \in Nat
            /\ s.nonce < nonce[s.signer]
        BY <3>1 DEF NonceInv, SignedBefore
      <4>2. nonce[s.signer] \in Nat /\ nonce'[s.signer] >= nonce[s.signer]
        BY <2>1, <4>1 DEF NonceInv, NonceType
      <4>3. nonce'[s.signer] \in Nat
        BY <2>3, <4>1 DEF NonceType
      <4> QED
        BY <4>1, <4>2, <4>3
    <3>2. CASE s = new
      <4>1. nonce'[r] = nonce[r] + 1
        BY <2>1 DEF NonceInv, NonceType
      <4> QED
        BY <2>2, <3>2, <4>1
    <3> QED
      BY <2>1, <2>4, <3>1, <3>2
  <2>5. ASSUME NEW s \in signed, s.signer = r
        PROVE  s.nonce # new.nonce
    BY <2>2, <2>5 DEF NonceInv, SignedBefore
  <2>6. NonceUsedOnce'
    <3> SUFFICES ASSUME NEW x \in signed', NEW y \in signed',
                        x.signer = y.signer, x.nonce = y.nonce
                 PROVE  x = y
      BY DEF NonceUsedOnce
    <3>1. (x \in signed \/ x = new) /\ (y \in signed \/ y = new)
      BY <2>1
    <3>2. CASE x \in signed /\ y \in signed
      BY <3>2 DEF NonceInv, NonceUsedOnce
    <3>3. CASE x = new /\ y \in signed
      BY <2>2, <2>5, <3>3
    <3>4. CASE x \in signed /\ y = new
      BY <2>2, <2>5, <3>4
    <3> QED
      BY <3>1, <3>2, <3>3, <3>4
  <2> QED
    BY <2>3, <2>4, <2>6 DEF NonceInv, SignedBefore
<1> QED
  BY <1>1, <1>2

\* Every step keeps the invariant; all other actions leave wallets alone.
LEMMA NonceStep == NonceInv /\ [Next]_vars => NonceInv'
<1> SUFFICES ASSUME NonceInv, [Next]_vars
             PROVE  NonceInv'
  OBVIOUS
<1>1. CASE UNCHANGED vars
  BY <1>1, NonceUntouched DEF vars, history
<1>2. CASE Next
  <2>1. PICK r \in Replica : Step(r) \/ SendViewChange(r) \/ Crash(r)
    BY <1>2 DEF Next, alive
  <2>2. CASE SendCommit(r)
    BY <2>2, NonceSendCommit
  <2>3. CASE RoastReceivePreSignature(r)
    BY <2>3, NonceSign
  <2>4. CASE ReceiveCommit(r)
    BY <2>4, NonceUntouched DEF ReceiveCommit, history
  <2>5. CASE RoastInit(r)
    BY <2>5, NonceUntouched DEF RoastInit, history
  <2>6. CASE RoastReceiveSignatureShare(r)
    BY <2>6, NonceUntouched DEF RoastReceiveSignatureShare, history
  <2>7. CASE Execute(r)
    BY <2>7, NonceUntouched DEF Execute, history
  <2>8. CASE ReceiveBlock(r)
    BY <2>8, NonceUntouched DEF ReceiveBlock, history
  <2>9. CASE SendViewChange(r)
    BY <2>9, NonceUntouched DEF SendViewChange, history
  <2>10. CASE Crash(r)
    BY <2>10, NonceUntouched DEF Crash, history
  <2> QED
    BY <2>1, <2>2, <2>3, <2>4, <2>5, <2>6, <2>7, <2>8, <2>9, <2>10 DEF Step
<1> QED
  BY <1>1, <1>2

\* No wallet ever signs twice with one nonce (RoastWalletImpl), in any cluster,
\* with any number of view changes, crashes and repeated deliveries.
THEOREM NonceSafe == Spec => []NonceUsedOnce
<1>1. NonceInv => NonceUsedOnce
  BY DEF NonceInv
<1> QED
  BY <1>1, NonceInit, NonceStep, PTL DEF Spec

-----------------------------------------------------------------------------
(* The coordinator's tables, in any view.                                  *)

Session == [presig : PreSignature, shares : Seq(SessionShare)]

\* The tables hold their kind of value, and roast_signers_sid only names
\* sessions that are stored.
Tables(st) ==
    /\ st = [active |-> st.active, responsive |-> st.responsive,
             malicious |-> st.malicious, latest |-> st.latest,
             counter |-> st.counter, sid |-> st.sid,
             session |-> st.session, out |-> st.out]
    /\ st.active \subseteq View /\ Cardinality(st.active) <= 1
    /\ st.responsive \subseteq Replica /\ st.malicious \subseteq Replica
    /\ st.latest \in PreSignature
    /\ st.counter \in Nat
    /\ st.sid \in [Replica -> Nat]
    /\ st.session \in [DOMAIN st.session -> Session]
    /\ \A i \in Replica : st.sid[i] \in {0} \union DOMAIN st.session
    /\ st.out \subseteq PreSignature

\* The signers that session s still waits for.
Pending(st, s) == {i \in Replica : st.sid[i] = s /\ i \notin st.responsive}

\* A session has at most the shares it needs, and each session opened since
\* ROAST_INIT waits for as many signers as it lacks shares.
Waiting(st) ==
    /\ \A s \in DOMAIN st.session : Len(st.session[s].shares) <= sig_quorum
    /\ \A s \in 1 .. st.counter :
         /\ s \in DOMAIN st.session
         /\ Cardinality(Pending(st, s)) + Len(st.session[s].shares)
              >= sig_quorum
    /\ st.counter <= ClusterSize - sig_quorum + 1

TablesInv(st) == Tables(st) /\ Waiting(st)

\* Numbers of replicas and of shares.
LEMMA Numbers ==
    /\ ClusterSize \in Nat \ {0} /\ F \in Nat
    /\ sig_quorum \in Nat \ {0} /\ sig_quorum <= ClusterSize
    /\ IsFiniteSet(Replica) /\ Cardinality(Replica) = ClusterSize
<1>1. ClusterSize \in Nat \ {0} /\ F \in Nat
      /\ sig_quorum \in Nat \ {0} /\ sig_quorum <= ClusterSize
  BY ClusterSizeAssumption DEF F, sig_quorum
<1>2. IsFiniteSet(0 .. ClusterSize - 1)
      /\ Cardinality(0 .. ClusterSize - 1) = ClusterSize
  BY <1>1, FS_Interval
<1> QED
  BY <1>1, <1>2 DEF Replica

\* A share as stored, and a signer as heard, by RECEIVE_SIG_SHARE.
Stored(st, i, share) ==
    LET marked == [st EXCEPT !.malicious = @ \union ({i} \cap st.responsive)]
    IN IF st.sid[i] = 0 THEN marked
       ELSE [marked EXCEPT !.session[st.sid[i]].shares = Append(@, share)]

Heard(st, i, next) ==
    [st EXCEPT !.latest[i] = next, !.responsive = @ \union {i}]

\* The three outcomes of RECEIVE_SIG_SHARE, which needs a session that is not
\* final yet.
LEMMA ReceiveOutcomes ==
    ASSUME NEW st, NEW r, NEW i, NEW share, NEW next,
           NEW new \in RECEIVE_SIG_SHARE(st, r, i, share, next)
    PROVE  LET stored == Stored(st, i, share)
               heard == Heard(stored, i, next)
           IN /\ st.active # {} /\ ~Final(st)
              /\ \/ Final(stored) /\ new = stored
                 \/ ~Final(stored) /\ Cardinality(heard.responsive) = sig_quorum
                      /\ new = NewSession(heard)
                 \/ ~Final(stored) /\ new = heard
BY DEF RECEIVE_SIG_SHARE, Stored, Heard

\* What storing a share changes.
LEMMA StoredTables ==
    ASSUME NEW st, Tables(st), NEW i \in Replica, NEW share \in SessionShare,
           NEW new, new = Stored(st, i, share)
    PROVE  /\ Tables(new)
           /\ new.active = st.active /\ new.responsive = st.responsive
           /\ new.latest = st.latest /\ new.counter = st.counter
           /\ new.sid = st.sid /\ new.out = st.out
           /\ DOMAIN new.session = DOMAIN st.session
           /\ \A s \in DOMAIN st.session :
                /\ new.session[s].presig = st.session[s].presig
                /\ new.session[s].shares =
                     IF s = st.sid[i] /\ s # 0
                     THEN Append(st.session[s].shares, share)
                     ELSE st.session[s].shares
<1>1. CASE st.sid[i] = 0
  BY <1>1 DEF Tables, Stored
<1>2. CASE st.sid[i] # 0
  <2>1. st.sid[i] \in DOMAIN st.session
    BY <1>2 DEF Tables
  <2>2. PICK s \in DOMAIN st.session : s = st.sid[i]
    BY <2>1
  <2>3. st.session[s] \in Session
    BY DEF Tables
  <2>4. PICK one : one = [st.session[s] EXCEPT !.shares = Append(@, share)]
    OBVIOUS
  <2>5. /\ one \in Session /\ one.presig = st.session[s].presig
        /\ one.shares = Append(st.session[s].shares, share)
    <3>1. PICK shares : shares = Append(st.session[s].shares, share)
      OBVIOUS
    <3>2. st.session[s].shares \in Seq(SessionShare)
      BY <2>3 DEF Session
    <3>3. shares \in Seq(SessionShare)
      BY <3>1, <3>2, AppendProperties
    <3>4. one = [st.session[s] EXCEPT !.shares = shares]
      BY <2>4, <3>1
    <3> QED
      BY <2>3, <3>1, <3>3, <3>4 DEF Session
  <2>6. PICK all : all = [st.session EXCEPT ![s] = one]
    OBVIOUS
  <2>7. /\ all \in [DOMAIN st.session -> Session]
        /\ DOMAIN all = DOMAIN st.session /\ all[s] = one
        /\ \A x \in DOMAIN st.session : x # s => all[x] = st.session[x]
    BY <2>5, <2>6 DEF Tables
  <2>8. PICK bad : bad = st.malicious \union ({i} \cap st.responsive)
    OBVIOUS
  <2>9. new = [st EXCEPT !.malicious = bad, !.session = all]
    BY <1>2, <2>2, <2>4, <2>6, <2>8 DEF Stored, Tables
  <2>10. /\ new.active = st.active /\ new.responsive = st.responsive
         /\ new.latest = st.latest /\ new.counter = st.counter
         /\ new.sid = st.sid /\ new.out = st.out
         /\ new.malicious = bad /\ new.session = all
         /\ new = [active |-> new.active, responsive |-> new.responsive,
                   malicious |-> new.malicious, latest |-> new.latest,
                   counter |-> new.counter, sid |-> new.sid,
                   session |-> new.session, out |-> new.out]
    BY <2>9 DEF Tables
  <2>11. bad \subseteq Replica
    BY <2>8 DEF Tables
  <2>12. Tables(new)
    BY <2>7, <2>10, <2>11 DEF Tables
  <2> QED
    BY <1>2, <2>2, <2>5, <2>7, <2>10, <2>12
<1> QED
  BY <1>1, <1>2

\* What hearing a signer changes.
LEMMA HeardTables ==
    ASSUME NEW st, Tables(st), NEW i \in Replica, NEW next \in Nat,
           NEW new, new = Heard(st, i, next)
    PROVE  /\ Tables(new)
           /\ new.active = st.active
           /\ new.responsive = st.responsive \union {i}
           /\ \A j \in Replica :
                new.latest[j] = IF j = i THEN next ELSE st.latest[j]
           /\ new.counter = st.counter /\ new.sid = st.sid
           /\ new.session = st.session /\ new.out = st.out
<1>1. [st.latest EXCEPT ![i] = next] \in PreSignature
  BY DEF Tables, PreSignature
<1>2. /\ new.active = st.active
      /\ new.responsive = st.responsive \union {i}
      /\ new.latest = [st.latest EXCEPT ![i] = next]
      /\ new.counter = st.counter /\ new.sid = st.sid
      /\ new.session = st.session /\ new.out = st.out
      /\ new.malicious = st.malicious
      /\ new = [active |-> new.active, responsive |-> new.responsive,
                malicious |-> new.malicious, latest |-> new.latest,
                counter |-> new.counter, sid |-> new.sid,
                session |-> new.session, out |-> new.out]
  BY DEF Heard, Tables
<1>3. new.responsive \subseteq Replica
  BY <1>2 DEF Tables
<1>4. Tables(new)
  BY <1>1, <1>2, <1>3 DEF Tables
<1>5. \A j \in Replica : new.latest[j] = IF j = i THEN next ELSE st.latest[j]
  BY <1>2 DEF Tables, PreSignature
<1> QED
  BY <1>2, <1>4, <1>5

\* What opening a session changes.
LEMMA NewSessionTables ==
    ASSUME NEW st, Tables(st), NEW new, new = NewSession(st),
           NEW c, c = st.counter + 1
    PROVE  /\ Tables(new)
           /\ new.active = st.active /\ new.responsive = {}
           /\ new.latest = st.latest /\ new.counter = c
           /\ \A i \in Replica :
                new.sid[i] = IF i \in st.responsive THEN c ELSE st.sid[i]
           /\ DOMAIN new.session = DOMAIN st.session \union {c}
           /\ new.session[c].presig \in PreSignature
           /\ \A i \in Replica :
                new.session[c].presig[i] =
                  IF i \in st.responsive THEN st.latest[i] ELSE 0
           /\ new.session[c].shares = << >>
           /\ \A s \in DOMAIN st.session :
                s # c => new.session[s] = st.session[s]
           /\ new.out = st.out \union {new.session[c].presig}
<1>2. PICK presig : presig = [i \in Replica |->
                                IF i \in st.responsive THEN st.latest[i] ELSE 0]
  OBVIOUS
<1>3. c \in Nat /\ presig \in PreSignature
  BY <1>2 DEF Tables, PreSignature
<1>4. PICK one : one = [presig |-> presig, shares |-> << >>]
  OBVIOUS
<1>5. one \in Session /\ one.presig = presig /\ one.shares = << >>
  <2>1. << >> \in Seq(SessionShare)
    BY EmptySeq
  <2> QED
    BY <1>3, <1>4, <2>1 DEF Session
<1>6. PICK all : all = [s \in DOMAIN st.session \union {c} |->
                          IF s = c THEN one ELSE st.session[s]]
  OBVIOUS
<1>7. /\ DOMAIN all = DOMAIN st.session \union {c}
      /\ all \in [DOMAIN all -> Session] /\ all[c] = one
      /\ \A s \in DOMAIN st.session : s # c => all[s] = st.session[s]
  BY <1>5, <1>6 DEF Tables
<1>8. PICK sid : sid = [i \in Replica |->
                          IF i \in st.responsive THEN c ELSE st.sid[i]]
  OBVIOUS
<1>9. /\ sid \in [Replica -> Nat]
      /\ \A i \in Replica : sid[i] \in {0} \union DOMAIN all
  BY <1>3, <1>7, <1>8 DEF Tables
<1>10. new = [st EXCEPT !.counter = c, !.sid = sid, !.session = all,
                        !.out = st.out \union {presig}, !.responsive = {}]
  BY <1>2, <1>4, <1>6, <1>8 DEF NewSession, Tables
<1>11. /\ new.active = st.active /\ new.responsive = {}
       /\ new.malicious = st.malicious
       /\ new.latest = st.latest /\ new.counter = c /\ new.sid = sid
       /\ new.session = all /\ new.out = st.out \union {presig}
       /\ new = [active |-> new.active, responsive |-> new.responsive,
                 malicious |-> new.malicious, latest |-> new.latest,
                 counter |-> new.counter, sid |-> new.sid,
                 session |-> new.session, out |-> new.out]
  BY <1>10 DEF Tables
<1>12. st.out \union {presig} \subseteq PreSignature
  BY <1>3 DEF Tables
<1>13. Tables(new)
  BY <1>3, <1>7, <1>9, <1>11, <1>12 DEF Tables
<1>14. \A i \in Replica :
         /\ new.sid[i] = IF i \in st.responsive THEN c ELSE st.sid[i]
         /\ presig[i] = IF i \in st.responsive THEN st.latest[i] ELSE 0
  BY <1>2, <1>8, <1>11
<1> QED
  BY <1>3, <1>5, <1>7, <1>11, <1>13, <1>14

\* A session with a share missing waits for a signer.
LEMMA PendingFinite ==
    ASSUME NEW st, NEW s
    PROVE  IsFiniteSet(Pending(st, s)) /\ Cardinality(Pending(st, s)) \in Nat
<1>1. Pending(st, s) \in SUBSET Replica
  BY DEF Pending
<1>2. IsFiniteSet(Pending(st, s))
  BY <1>1, Numbers, FS_Subset
<1> QED
  BY <1>2, FS_CardinalityType

\* After the first share of signer i is stored, each session waits for enough
\* signers besides i.
LEMMA StoredWaits ==
    ASSUME NEW st, TablesInv(st), st.active # {}, ~Final(st),
           NEW i \in Replica, NEW share \in SessionShare,
           NEW new, new = Stored(st, i, share)
    PROVE  /\ \A s \in DOMAIN new.session :
                Len(new.session[s].shares) <= sig_quorum
           /\ \A s \in 1 .. new.counter :
                /\ s \in DOMAIN new.session
                /\ Cardinality(Pending(new, s) \ {i})
                     + Len(new.session[s].shares) >= sig_quorum
<1>1. /\ Tables(st) /\ Waiting(st)
  BY DEF TablesInv
<1>2. /\ new.responsive = st.responsive /\ new.counter = st.counter
      /\ new.sid = st.sid /\ DOMAIN new.session = DOMAIN st.session
      /\ \A s \in DOMAIN st.session :
           new.session[s].shares =
             IF s = st.sid[i] /\ s # 0
             THEN Append(st.session[s].shares, share)
             ELSE st.session[s].shares
  BY <1>1, StoredTables
<1>3. ASSUME NEW s \in DOMAIN st.session
      PROVE  /\ st.session[s].shares \in Seq(SessionShare)
             /\ Len(st.session[s].shares) \in Nat
             /\ Len(st.session[s].shares) < sig_quorum
             /\ Len(new.session[s].shares) =
                  IF s = st.sid[i] /\ s # 0 THEN Len(st.session[s].shares) + 1
                  ELSE Len(st.session[s].shares)
  <2>1. st.session[s].shares \in Seq(SessionShare)
    BY <1>1 DEF Tables, Session
  <2>2. Len(st.session[s].shares) \in Nat
    BY <2>1
  <2>3. Len(st.session[s].shares) # sig_quorum
    BY DEF Final, roast_final_signature_session
  <2>4. Len(st.session[s].shares) <= sig_quorum
    BY <1>1 DEF Waiting
  <2>5. Len(Append(st.session[s].shares, share)) = Len(st.session[s].shares) + 1
    BY <2>1, AppendProperties
  <2>6. sig_quorum \in Nat
    BY Numbers
  <2>7. PICK a \in Nat : a = Len(st.session[s].shares)
    BY <2>2
  <2>8. a < sig_quorum
    BY <2>3, <2>4, <2>6, <2>7
  <2>9. Len(new.session[s].shares) = IF s = st.sid[i] /\ s # 0 THEN a + 1 ELSE a
    BY <1>2, <2>5, <2>7
  <2> QED
    BY <2>1, <2>7, <2>8, <2>9
<1>4. ASSUME NEW s \in 1 .. new.counter
      PROVE  /\ s \in DOMAIN new.session
             /\ Cardinality(Pending(new, s) \ {i})
                  + Len(new.session[s].shares) >= sig_quorum
  <2>1. s \in DOMAIN st.session /\ s \in Nat \ {0}
        /\ Cardinality(Pending(st, s)) + Len(st.session[s].shares) >= sig_quorum
    BY <1>1, <1>2 DEF Waiting, Tables
  <2>2. Pending(new, s) = Pending(st, s)
    BY <1>2 DEF Pending
  <2>3. i \in Pending(st, s) => s = st.sid[i]
    BY DEF Pending
  <2>4. Cardinality(Pending(st, s) \ {i}) =
          IF i \in Pending(st, s) THEN Cardinality(Pending(st, s)) - 1
          ELSE Cardinality(Pending(st, s))
    BY PendingFinite, FS_RemoveElement
  <2>5. Cardinality(Pending(st, s)) \in Nat
    BY PendingFinite
  <2>6. PICK a \in Nat : a = Len(st.session[s].shares)
    BY <1>3, <2>1
  <2>7. PICK b \in Nat : b = Cardinality(Pending(st, s))
    BY <2>5
  <2>8. Len(new.session[s].shares) = IF s = st.sid[i] THEN a + 1 ELSE a
    BY <1>3, <2>1, <2>6
  <2>9. b + a >= sig_quorum /\ sig_quorum \in Nat
    BY <2>1, <2>6, <2>7, Numbers
  <2>10. Cardinality(Pending(new, s) \ {i}) = IF i \in Pending(st, s) THEN b - 1
                                              ELSE b
    BY <2>2, <2>4, <2>7
  <2>11. CASE i \in Pending(st, s)
    BY <1>2, <2>1, <2>3, <2>8, <2>9, <2>10, <2>11
  <2>12. CASE i \notin Pending(st, s)
    <3>1. Cardinality(Pending(new, s) \ {i}) = b
      BY <2>10, <2>12
    <3>2. PICK c \in Nat : c = Len(new.session[s].shares) /\ c >= a
      BY <2>8
    <3> QED
      BY <1>2, <2>1, <2>9, <3>1, <3>2
  <2> QED
    BY <2>11, <2>12
<1>5. ASSUME NEW s \in DOMAIN new.session
      PROVE  Len(new.session[s].shares) <= sig_quorum
  <2>1. sig_quorum \in Nat
    BY Numbers
  <2>2. PICK a \in Nat : a = Len(st.session[s].shares)
    BY <1>2, <1>3
  <2>3. a < sig_quorum /\ Len(new.session[s].shares) \in {a, a + 1}
    BY <1>2, <1>3, <2>2
  <2> QED
    BY <2>1, <2>2, <2>3
<1> QED
  BY <1>4, <1>5

\* The sessions that wait have each a signer of their own, and none of them is
\* responsive.
LEMMA RoomForSession ==
    ASSUME NEW st, Tables(st), Cardinality(st.responsive) = sig_quorum,
           \A s \in 1 .. st.counter : Pending(st, s) # {}
    PROVE  st.counter + 1 <= ClusterSize - sig_quorum + 1
<1>1. PICK f : f = [s \in 1 .. st.counter |-> CHOOSE i : i \in Pending(st, s)]
  OBVIOUS
<1>2. PICK silent : silent = Replica \ st.responsive
  OBVIOUS
<1>3. ASSUME NEW s \in 1 .. st.counter
      PROVE  f[s] \in silent /\ st.sid[f[s]] = s
  <2>1. f[s] \in Pending(st, s)
    BY <1>1
  <2> QED
    BY <1>2, <2>1 DEF Pending
<1>4. f \in Injection(1 .. st.counter, silent)
  <2>1. f \in [1 .. st.counter -> silent]
    BY <1>1, <1>3
  <2>2. \A a, b \in 1 .. st.counter : f[a] = f[b] => a = b
    BY <1>3
  <2> QED
    BY <2>1, <2>2 DEF Injection, IsInjective
<1>5. /\ IsFiniteSet(silent)
      /\ Cardinality(silent) = ClusterSize - Cardinality(Replica \cap st.responsive)
  BY <1>2, Numbers, FS_Difference
<1>6. Replica \cap st.responsive = st.responsive
  BY DEF Tables
<1>7. Cardinality(1 .. st.counter) <= Cardinality(silent)
  BY <1>4, <1>5, FS_Injection
<1>8. st.counter \in Nat
  BY DEF Tables
<1>9. Cardinality(1 .. st.counter) = st.counter
  BY <1>8, FS_Interval
<1>10. PICK n \in Nat : n = ClusterSize
  BY Numbers
<1>11. PICK q \in Nat : q = sig_quorum
  BY Numbers
<1>12. Cardinality(silent) = n - q
  BY <1>5, <1>6, <1>10, <1>11
<1> QED
  BY <1>7, <1>8, <1>9, <1>10, <1>11, <1>12

\* RECEIVE_SIG_SHARE keeps the tables and the bound on sessions.
LEMMA ReceiveKeepsTables ==
    ASSUME NEW st, TablesInv(st), NEW r, NEW i \in Replica,
           NEW share \in SessionShare, NEW next \in Nat,
           NEW new \in RECEIVE_SIG_SHARE(st, r, i, share, next)
    PROVE  TablesInv(new) /\ new.active = st.active
<1>1. PICK stored : stored = Stored(st, i, share)
  OBVIOUS
<1>2. PICK heard : heard = Heard(stored, i, next)
  OBVIOUS
<1>3. /\ st.active # {} /\ ~Final(st)
      /\ \/ Final(stored) /\ new = stored
         \/ ~Final(stored) /\ Cardinality(heard.responsive) = sig_quorum
              /\ new = NewSession(heard)
         \/ ~Final(stored) /\ new = heard
  BY <1>1, <1>2, ReceiveOutcomes
<1>4. Tables(st) /\ Waiting(st)
  BY DEF TablesInv
<1>5. /\ Tables(stored) /\ stored.active = st.active
      /\ stored.responsive = st.responsive /\ stored.counter = st.counter
      /\ stored.sid = st.sid
  BY <1>1, <1>4, StoredTables
<1>6. /\ \A s \in DOMAIN stored.session :
           Len(stored.session[s].shares) <= sig_quorum
      /\ \A s \in 1 .. stored.counter :
           /\ s \in DOMAIN stored.session
           /\ Cardinality(Pending(stored, s) \ {i})
                + Len(stored.session[s].shares) >= sig_quorum
  BY <1>1, <1>3, StoredWaits
<1>7. st.counter \in Nat /\ st.counter <= ClusterSize - sig_quorum + 1
  BY <1>4 DEF Tables, Waiting
<1>8. \A s \in DOMAIN stored.session : Len(stored.session[s].shares) \in Nat
  BY <1>5 DEF Tables, Session
<1>9. CASE new = stored
  <2>1. ASSUME NEW s \in 1 .. new.counter
        PROVE  /\ s \in DOMAIN new.session
               /\ Cardinality(Pending(new, s)) + Len(new.session[s].shares)
                    >= sig_quorum
    <3>1. Cardinality(Pending(new, s) \ {i}) <= Cardinality(Pending(new, s))
      BY PendingFinite, FS_Subset
    <3>2. Cardinality(Pending(new, s) \ {i}) \in Nat
      BY PendingFinite, FS_RemoveElement, FS_CardinalityType
    <3>3. PICK a \in Nat : a = Cardinality(Pending(new, s) \ {i})
      BY <3>2
    <3>4. PICK b \in Nat : b = Cardinality(Pending(new, s))
      BY PendingFinite
    <3>5. s \in DOMAIN new.session /\ a + Len(new.session[s].shares) >= sig_quorum
      BY <1>6, <1>9, <3>3
    <3>6. PICK l \in Nat : l = Len(new.session[s].shares)
      BY <1>8, <1>9, <3>5
    <3>7. sig_quorum \in Nat
      BY Numbers
    <3> QED
      BY <3>1, <3>3, <3>4, <3>5, <3>6, <3>7
  <2>2. Waiting(new)
    BY <1>5, <1>6, <1>7, <1>9, <2>1 DEF Waiting
  <2> QED
    BY <1>5, <1>9, <2>2 DEF TablesInv
<1>10. /\ Tables(heard) /\ heard.active = st.active
       /\ heard.responsive = st.responsive \union {i}
       /\ heard.counter = st.counter /\ heard.sid = st.sid
       /\ heard.session = stored.session
  <2>1. Tables(stored)
    BY <1>5
  <2>2. /\ Tables(heard) /\ heard.active = stored.active
        /\ heard.responsive = stored.responsive \union {i}
        /\ heard.counter = stored.counter /\ heard.sid = stored.sid
        /\ heard.session = stored.session
    BY <1>2, <2>1, HeardTables
  <2> QED
    BY <1>5, <2>2
<1>11. \A s : Pending(heard, s) = Pending(stored, s) \ {i}
  BY <1>5, <1>10 DEF Pending
<1>12. Waiting(heard)
  <2>1. ASSUME NEW s \in 1 .. heard.counter
        PROVE  /\ s \in DOMAIN heard.session
               /\ Cardinality(Pending(heard, s)) + Len(heard.session[s].shares)
                    >= sig_quorum
    <3>1. s \in 1 .. stored.counter
      BY <1>5, <1>10
    <3>2. Pending(heard, s) = Pending(stored, s) \ {i}
      BY <1>11
    <3> QED
      BY <1>6, <1>10, <3>1, <3>2
  <2> QED
    BY <1>6, <1>7, <1>10, <2>1 DEF Waiting
<1>13. CASE new = heard
  BY <1>10, <1>12, <1>13 DEF TablesInv
<1>14. CASE ~Final(stored) /\ Cardinality(heard.responsive) = sig_quorum
            /\ new = NewSession(heard)
  <2>1. PICK c : c = heard.counter + 1
    OBVIOUS
  <2>2. /\ Tables(new) /\ new.active = heard.active /\ new.responsive = {}
        /\ new.counter = c
        /\ \A j \in Replica :
             new.sid[j] = IF j \in heard.responsive THEN c ELSE heard.sid[j]
        /\ DOMAIN new.session = DOMAIN heard.session \union {c}
        /\ new.session[c].shares = << >>
        /\ \A s \in DOMAIN heard.session :
             s # c => new.session[s] = heard.session[s]
    <3>1. Tables(heard) /\ new = NewSession(heard)
      BY <1>10, <1>14
    <3> QED
      BY <2>1, <3>1, NewSessionTables
  <2>3. sig_quorum \in Nat \ {0} /\ c \in Nat
    <3>1. c \in Nat
      BY <1>7, <1>10, <2>1
    <3> QED
      BY <3>1, Numbers
  <2>4. ASSUME NEW s \in 1 .. heard.counter
        PROVE  Pending(heard, s) # {}
    <3>1. s \in DOMAIN heard.session
          /\ Cardinality(Pending(heard, s)) + Len(heard.session[s].shares)
               >= sig_quorum
      BY <1>12 DEF Waiting
    <3>2. PICK l \in Nat : l = Len(heard.session[s].shares)
      BY <1>8, <1>10, <3>1
    <3>3. l # sig_quorum
      BY <1>3, <1>5, <1>10, <1>14, <3>1, <3>2
        DEF Final, roast_final_signature_session
    <3>4. l <= sig_quorum
      BY <1>12, <3>1, <3>2 DEF Waiting
    <3>5. Cardinality(Pending(heard, s)) # 0
      BY <2>3, <3>1, <3>2, <3>3, <3>4
    <3> QED
      BY <3>5, FS_EmptySet
  <2>5. heard.counter + 1 <= ClusterSize - sig_quorum + 1
    BY <1>10, <1>14, <2>4, RoomForSession
  <2>6. ASSUME NEW s \in 1 .. c
        PROVE  /\ s \in DOMAIN new.session
               /\ Cardinality(Pending(new, s)) + Len(new.session[s].shares)
                    >= sig_quorum
    <3>1. CASE s = c
      <4>1. heard.responsive \in SUBSET Pending(new, s)
        BY <1>10, <2>2, <3>1 DEF Pending, Tables
      <4>2. sig_quorum <= Cardinality(Pending(new, s))
        BY <1>14, <4>1, PendingFinite, FS_Subset
      <4>3. PICK p \in Nat : p = Cardinality(Pending(new, s))
        BY PendingFinite
      <4>4. Len(new.session[s].shares) = 0
        BY <2>2, <3>1, EmptySeq
      <4> QED
        BY <2>2, <2>3, <3>1, <4>2, <4>3, <4>4
    <3>2. CASE s # c
      <4>1. s \in 1 .. heard.counter
        BY <1>7, <1>10, <2>1, <3>2
      <4>2. s \in DOMAIN heard.session
            /\ Cardinality(Pending(heard, s)) + Len(heard.session[s].shares)
                 >= sig_quorum
        BY <1>12, <4>1 DEF Waiting
      <4>3. Pending(heard, s) \in SUBSET Pending(new, s)
        BY <2>2 DEF Pending
      <4>4. Cardinality(Pending(heard, s)) <= Cardinality(Pending(new, s))
        BY <4>3, PendingFinite, FS_Subset
      <4>5. PICK p \in Nat : p = Cardinality(Pending(new, s))
        BY PendingFinite
      <4>6. PICK h \in Nat : h = Cardinality(Pending(heard, s))
        BY PendingFinite
      <4>7. PICK l \in Nat : l = Len(heard.session[s].shares)
        BY <1>8, <1>10, <4>2
      <4>8. new.session[s] = heard.session[s] /\ s \in DOMAIN new.session
        BY <2>2, <3>2, <4>2
      <4> QED
        BY <2>3, <4>2, <4>4, <4>5, <4>6, <4>7, <4>8
    <3> QED
      BY <3>1, <3>2
  <2>7. ASSUME NEW s \in DOMAIN new.session
        PROVE  Len(new.session[s].shares) <= sig_quorum
    <3>1. CASE s = c
      BY <2>2, <2>3, <3>1, EmptySeq
    <3>2. CASE s # c
      BY <1>12, <2>2, <3>2 DEF Waiting
    <3> QED
      BY <3>1, <3>2
  <2>8. Waiting(new)
    BY <2>1, <2>2, <2>5, <2>6, <2>7 DEF Waiting
  <2> QED
    BY <1>10, <2>2, <2>8 DEF TablesInv
<1> QED
  BY <1>3, <1>9, <1>13, <1>14

-----------------------------------------------------------------------------
(* ROAST_INIT goes through the logged COMMITs.                             *)

\* Induction over the naturals, for the elements of a set: a least number that
\* is not in the set has a predecessor that is.
LEMMA SetInduction ==
    ASSUME NEW S, 0 \in S, \A n \in Nat : n \in S => n + 1 \in S
    PROVE  \A n \in Nat : n \in S
<1> SUFFICES ASSUME NEW z \in Nat, z \notin S
             PROVE  FALSE
  OBVIOUS
<1> DEFINE T == Nat \ S
<1> DEFINE R == OpToRel(<, Nat)
<1>1. IsWellFoundedOn(R, Nat)
  BY NatLessThanWellFounded
<1>2. T \subseteq Nat /\ T # {}
  OBVIOUS
<1> HIDE DEF R, T
<1>3. PICK x \in T : \A y \in T : ~(<<y, x>> \in R)
  BY <1>1, <1>2, WFMin
<1>4. x \in Nat /\ x \notin S
  BY <1>3 DEF T
<1>5. x - 1 \in Nat /\ x - 1 \notin S
  BY <1>4
<1>6. <<x - 1, x>> \in R
  BY <1>4, <1>5 DEF R, OpToRel
<1> QED
  BY <1>3, <1>5, <1>6 DEF T

\* The tables when ROAST_INIT begins, and after one logged COMMIT.
Begun(st, v) == [st EXCEPT !.active = {v}, !.counter = 0]
Handled(x, r, m) == RECEIVE_SIG_SHARE(x, r, m.sender, NoShare, m.nonce)

AllHandled(X, r, m) == UNION {Handled(x, r, m) : x \in X}

\* The tables after each of the first n COMMITs.
IsRun(after, n, st, r, v, commits) ==
    after = [k \in 0 .. n |->
               IF k = 0 THEN {Begun(st, v)}
               ELSE AllHandled(after[k - 1], r, commits[k])]

\* The recursive function in InitTables exists: it can be built step by step.
LEMMA InitExists ==
    ASSUME NEW st, NEW r, NEW v, NEW commits, NEW n \in Nat
    PROVE  \E after : IsRun(after, n, st, r, v, commits)
<1> DEFINE S == {m \in Nat : \E g : IsRun(g, m, st, r, v, commits)}
<1>1. 0 \in S
  <2>1. PICK g : g = [k \in 0 .. 0 |-> {Begun(st, v)}]
    OBVIOUS
  <2>2. \A k \in 0 .. 0 : k = 0
    OBVIOUS
  <2>3. IsRun(g, 0, st, r, v, commits)
    BY <2>1, <2>2 DEF IsRun
  <2> QED
    BY <2>3
<1>2. ASSUME NEW m \in Nat, m \in S
      PROVE  m + 1 \in S
  <2>1. PICK g : IsRun(g, m, st, r, v, commits)
    BY <1>2
  <2>2. PICK h : h = [k \in 0 .. m + 1 |->
                        IF k = 0 THEN {Begun(st, v)}
                        ELSE AllHandled(g[k - 1], r, commits[k])]
    OBVIOUS
  <2>3. ASSUME NEW k \in 0 .. m
        PROVE  h[k] = g[k]
    <3>1. g[k] = IF k = 0 THEN {Begun(st, v)}
                 ELSE AllHandled(g[k - 1], r, commits[k])
      BY <2>1 DEF IsRun
    <3>2. k \in 0 .. m + 1
      OBVIOUS
    <3>3. h[k] = IF k = 0 THEN {Begun(st, v)}
                 ELSE AllHandled(g[k - 1], r, commits[k])
      BY <2>2, <3>2
    <3> QED
      BY <3>1, <3>3
  <2>4. \A k \in 0 .. m + 1 : k # 0 => h[k - 1] = g[k - 1]
    BY <2>3
  <2>5. IsRun(h, m + 1, st, r, v, commits)
    BY <2>2, <2>4 DEF IsRun
  <2>6. m + 1 \in Nat
    OBVIOUS
  <2> QED
    BY <2>5, <2>6
<1> HIDE DEF S
<1>3. n \in S
  BY <1>1, <1>2, SetInduction
<1> QED
  BY <1>3 DEF S

\* The outcome of ROAST_INIT is reached through intermediate tables, one
\* COMMIT after the other.
PassesThrough(after, st, r, v, commits) ==
    /\ InitTables(st, r, v, commits) = after[Len(commits)]
    /\ after[0] = {Begun(st, v)}
    /\ \A k \in 0 .. Len(commits) - 1 : \A y \in after[k + 1] :
         \E x \in after[k] : y \in Handled(x, r, commits[k + 1])

LEMMA InitRun ==
    ASSUME NEW st, NEW r, NEW v, NEW commits, Len(commits) \in Nat
    PROVE  \E after : PassesThrough(after, st, r, v, commits)
<1>1. PICK n \in Nat : n = Len(commits)
  OBVIOUS
<1> DEFINE after == CHOOSE g : IsRun(g, Len(commits), st, r, v, commits)
<1>2. InitTables(st, r, v, commits) = after[Len(commits)]
  BY DEF InitTables, IsRun, AllHandled, Handled, Begun
<1>3. \E g : IsRun(g, Len(commits), st, r, v, commits)
  BY InitExists
<1>4. IsRun(after, Len(commits), st, r, v, commits)
  BY <1>3
<1> HIDE DEF after
<1>5. IsRun(after, n, st, r, v, commits)
  BY <1>1, <1>4
<1>6. after[0] = {Begun(st, v)}
  BY <1>5 DEF IsRun
<1>7. ASSUME NEW k \in 0 .. n - 1, NEW y \in after[k + 1]
      PROVE  \E x \in after[k] : y \in Handled(x, r, commits[k + 1])
  <2>1. k + 1 \in 0 .. n /\ k + 1 # 0 /\ (k + 1) - 1 = k
    OBVIOUS
  <2>2. after[k + 1] = AllHandled(after[k], r, commits[k + 1])
    BY <1>5, <2>1 DEF IsRun
  <2> QED
    BY <2>2 DEF AllHandled
<1>8. PassesThrough(after, st, r, v, commits)
  BY <1>1, <1>2, <1>6, <1>7 DEF PassesThrough
<1> QED
  BY <1>8

\* The log in some order is a sequence without repetitions.
LEMMA LogOrder ==
    ASSUME NEW S, IsFiniteSet(S), NEW commits \in SetToSeqs(S)
    PROVE  /\ commits \in Seq(S) /\ Len(commits) = Cardinality(S)
           /\ Len(commits) \in Nat
           /\ \A k \in 1 .. Len(commits) : commits[k] \in S
           /\ \A k, l \in 1 .. Len(commits) : k # l => commits[k] # commits[l]
<1>1. PICK n \in Nat : n = Cardinality(S)
  BY FS_CardinalityType
<1>2. /\ commits \in [1 .. n -> S]
      /\ \A k, l \in 1 .. n : k # l => commits[k] # commits[l]
  BY <1>1 DEF SetToSeqs
<1>3. commits \in Seq(S) /\ Len(commits) = n
  BY <1>2
<1> QED
  BY <1>1, <1>2, <1>3

\* A session can hold the share of a signer, and the false of a COMMIT.
LEMMA NoShareType == NoShare \in SessionShare
BY DEF SessionShare

LEMMA ShareType == Share \subseteq SessionShare
BY DEF SessionShare

\* ROAST_INIT starts to count sessions afresh.
LEMMA BegunTables ==
    ASSUME NEW st, TablesInv(st), NEW v \in View
    PROVE  /\ TablesInv(Begun(st, v)) /\ Begun(st, v).active = {v}
           /\ Begun(st, v).out = st.out
           /\ Begun(st, v).responsive = st.responsive
           /\ Begun(st, v).session = st.session /\ Begun(st, v).sid = st.sid
           /\ Begun(st, v).counter = 0
<1>1. PICK new : new = Begun(st, v)
  OBVIOUS
<1>2. Tables(st) /\ Waiting(st)
  BY DEF TablesInv
<1>3. /\ new.active = {v} /\ new.counter = 0
      /\ new.responsive = st.responsive /\ new.malicious = st.malicious
      /\ new.latest = st.latest /\ new.sid = st.sid
      /\ new.session = st.session /\ new.out = st.out
      /\ new = [active |-> new.active, responsive |-> new.responsive,
                malicious |-> new.malicious, latest |-> new.latest,
                counter |-> new.counter, sid |-> new.sid,
                session |-> new.session, out |-> new.out]
  BY <1>1, <1>2 DEF Begun, Tables
<1>4. Cardinality({v}) <= 1
  <2>1. Cardinality({v}) = 1
    BY FS_Singleton
  <2> QED
    BY <2>1
<1>5. Tables(new)
  BY <1>2, <1>3, <1>4 DEF Tables
<1>6. 0 <= ClusterSize - sig_quorum + 1
  <2>1. PICK n \in Nat : n = ClusterSize
    BY Numbers
  <2>2. PICK q \in Nat : q = sig_quorum /\ q <= n
    BY <2>1, Numbers
  <2> QED
    BY <2>1, <2>2
<1>7. Waiting(new)
  BY <1>2, <1>3, <1>6 DEF Waiting
<1> QED
  BY <1>1, <1>3, <1>5, <1>7 DEF TablesInv

\* ROAST_INIT keeps the tables and the bound on sessions.
LEMMA InitKeepsTables ==
    ASSUME NEW st, TablesInv(st), NEW r, NEW v \in View,
           NEW S, IsFiniteSet(S),
           \A m \in S : m.sender \in Replica /\ m.nonce \in Nat,
           NEW commits \in SetToSeqs(S),
           NEW new \in InitTables(st, r, v, commits)
    PROVE  TablesInv(new) /\ new.active = {v}
<1>1. /\ Len(commits) \in Nat
      /\ \A k \in 1 .. Len(commits) : commits[k] \in S
  BY LogOrder
<1>2. PICK after : PassesThrough(after, st, r, v, commits)
  BY <1>1, InitRun
<1> DEFINE Good == {k \in Nat : k <= Len(commits) =>
                      \A x \in after[k] : TablesInv(x) /\ x.active = {v}}
<1>3. 0 \in Good
  BY <1>2, BegunTables DEF PassesThrough
<1>4. ASSUME NEW k \in Nat, k \in Good
      PROVE  k + 1 \in Good
  <2> SUFFICES ASSUME k + 1 <= Len(commits), NEW y \in after[k + 1]
               PROVE  TablesInv(y) /\ y.active = {v}
    OBVIOUS
  <2>1. k \in 0 .. Len(commits) - 1 /\ k <= Len(commits)
        /\ k + 1 \in 1 .. Len(commits)
    BY <1>1
  <2>2. PICK x \in after[k] : y \in Handled(x, r, commits[k + 1])
    BY <1>2, <2>1 DEF PassesThrough
  <2>3. TablesInv(x) /\ x.active = {v}
    BY <1>4, <2>1
  <2>4. commits[k + 1] \in S
    BY <1>1, <2>1
  <2>5. commits[k + 1].sender \in Replica /\ commits[k + 1].nonce \in Nat
    BY <2>4
  <2> QED
    BY <2>2, <2>3, <2>5, NoShareType, ReceiveKeepsTables DEF Handled
<1> HIDE DEF Good
<1>5. Len(commits) \in Good
  BY <1>1, <1>3, <1>4, SetInduction
<1> QED
  BY <1>1, <1>2, <1>5 DEF Good, PassesThrough

-----------------------------------------------------------------------------
(* Types and the bound on sessions, in every view.                         *)

CommitMessage == [v : View, sender : Replica, nonce : Nat]
Request == [to : Replica, presig : PreSignature]

AgreementOK ==
    /\ view \in [Replica -> View]
    /\ msg_out_commit \subseteq CommitMessage /\ IsFiniteSet(msg_out_commit)
    /\ msg_log_commit \in [Replica -> SUBSET msg_out_commit]
    /\ nonce \in [Replica -> Nat]

RoastTablesOK ==
    /\ DOMAIN roast = Replica
    /\ \A r \in Replica : TablesInv(roast[r]) /\ roast[r].out = {}

NetworkOK ==
    /\ pre_signatures \subseteq Request
    /\ signature_shares \subseteq
         [to : Coordinators, share : signed, next : Nat]
    /\ signed \subseteq Share
    /\ duplicates \in 0 .. MaxDuplicates

ProgressOK ==
    /\ checkpointed \subseteq executed /\ executed \subseteq Replica
    /\ crashed \subseteq Replica /\ aborted \subseteq Replica
    /\ dropped \subseteq Replica

RoastInv == AgreementOK /\ RoastTablesOK /\ NetworkOK /\ ProgressOK

\* The tables with another active view.
LEMMA ActiveTables ==
    ASSUME NEW st, TablesInv(st), NEW A, A = {} \/ \E v \in View : A = {v},
           NEW new, new = [st EXCEPT !.active = A]
    PROVE  TablesInv(new) /\ new.out = st.out /\ new.session = st.session
<1>1. Tables(st) /\ Waiting(st)
  BY DEF TablesInv
<1>2. /\ new.active = A /\ new.counter = st.counter
      /\ new.responsive = st.responsive /\ new.malicious = st.malicious
      /\ new.latest = st.latest /\ new.sid = st.sid
      /\ new.session = st.session /\ new.out = st.out
      /\ new = [active |-> new.active, responsive |-> new.responsive,
                malicious |-> new.malicious, latest |-> new.latest,
                counter |-> new.counter, sid |-> new.sid,
                session |-> new.session, out |-> new.out]
  BY <1>1 DEF Tables
<1>3. Cardinality(A) <= 1 /\ A \subseteq View
  <2>1. \A v : Cardinality({v}) = 1
    BY FS_Singleton
  <2>2. Cardinality({}) = 0
    BY FS_EmptySet
  <2> QED
    BY <2>1, <2>2
<1>4. Tables(new)
  BY <1>1, <1>2, <1>3 DEF Tables
<1>5. \A s : Pending(new, s) = Pending(st, s)
  BY <1>2 DEF Pending
<1>6. Waiting(new)
  BY <1>1, <1>2, <1>5 DEF Waiting
<1> QED
  BY <1>2, <1>4, <1>6 DEF TablesInv

\* The tables once the requests are sent.
LEMMA SentTables ==
    ASSUME NEW st, TablesInv(st), NEW new, new = [st EXCEPT !.out = {}]
    PROVE  /\ TablesInv(new) /\ new.out = {} /\ new.active = st.active
           /\ new.session = st.session /\ new.sid = st.sid
           /\ new.responsive = st.responsive /\ new.latest = st.latest
           /\ new.counter = st.counter
<1>1. Tables(st) /\ Waiting(st)
  BY DEF TablesInv
<1>2. /\ new.active = st.active /\ new.counter = st.counter
      /\ new.responsive = st.responsive /\ new.malicious = st.malicious
      /\ new.latest = st.latest /\ new.sid = st.sid
      /\ new.session = st.session /\ new.out = {}
      /\ new = [active |-> new.active, responsive |-> new.responsive,
                malicious |-> new.malicious, latest |-> new.latest,
                counter |-> new.counter, sid |-> new.sid,
                session |-> new.session, out |-> new.out]
  BY <1>1 DEF Tables
<1>3. Tables(new)
  BY <1>1, <1>2 DEF Tables
<1>4. \A s : Pending(new, s) = Pending(st, s)
  BY <1>2 DEF Pending
<1>5. Waiting(new)
  BY <1>1, <1>2, <1>4 DEF Waiting
<1> QED
  BY <1>2, <1>3, <1>5 DEF TablesInv

\* Empty tables.
LEMMA GarbageTables ==
    /\ TablesInv(roast_collect_garbage) /\ roast_collect_garbage.out = {}
    /\ roast_collect_garbage.active = {}
    /\ roast_collect_garbage.responsive = {}
    /\ DOMAIN roast_collect_garbage.session = {}
    /\ roast_collect_garbage.sid = [i \in Replica |-> 0]
<1>1. PICK st : st = roast_collect_garbage
  OBVIOUS
<1>2. PICK none : none = [i \in Replica |-> 0]
  OBVIOUS
<1>3. none \in PreSignature /\ none \in [Replica -> Nat]
      /\ \A i \in Replica : none[i] = 0
  BY <1>2 DEF PreSignature
<1>4. PICK empty : empty = << >>
  OBVIOUS
<1>5. DOMAIN empty = {} /\ empty \in [DOMAIN empty -> Session]
  <2>1. empty \in Seq(Session) /\ Len(empty) = 0
    BY <1>4, EmptySeq
  <2>2. DOMAIN empty = 1 .. 0 /\ empty \in [1 .. 0 -> Session]
    BY <2>1
  <2> QED
    BY <2>2
<1>6. st = [active |-> {}, responsive |-> {}, malicious |-> {},
            latest |-> none, counter |-> 0, sid |-> none,
            session |-> empty, out |-> {}]
  BY <1>1, <1>2, <1>4 DEF roast_collect_garbage
<1>7. /\ st.active = {} /\ st.responsive = {} /\ st.malicious = {}
      /\ st.latest = none /\ st.counter = 0 /\ st.sid = none
      /\ st.session = empty /\ st.out = {}
      /\ st = [active |-> st.active, responsive |-> st.responsive,
               malicious |-> st.malicious, latest |-> st.latest,
               counter |-> st.counter, sid |-> st.sid,
               session |-> st.session, out |-> st.out]
  BY <1>6
<1>8. Cardinality({}) = 0
  BY FS_EmptySet
<1>9. Tables(st)
  BY <1>3, <1>5, <1>7, <1>8 DEF Tables
<1>10. 0 <= ClusterSize - sig_quorum + 1
  <2>1. PICK n \in Nat : n = ClusterSize
    BY Numbers
  <2>2. PICK q \in Nat : q = sig_quorum /\ q <= n
    BY <2>1, Numbers
  <2> QED
    BY <2>1, <2>2
<1>11. Waiting(st)
  BY <1>5, <1>7, <1>10 DEF Waiting
<1> QED
  BY <1>1, <1>2, <1>5, <1>7, <1>9, <1>11 DEF TablesInv

\* SetTables puts well-formed tables and requests in place.
LEMMA SetTablesKeeps ==
    ASSUME RoastTablesOK, NEW r \in Replica, NEW st, TablesInv(st),
           NEW net, net \subseteq Request, SetTables(r, st, net)
    PROVE  RoastTablesOK' /\ pre_signatures' \subseteq Request
<1>1. PICK new : new = [st EXCEPT !.out = {}]
  OBVIOUS
<1>2. TablesInv(new) /\ new.out = {}
  BY <1>1, SentTables
<1>3. roast' = [roast EXCEPT ![r] = new]
  BY <1>1 DEF SetTables
<1>4. RoastTablesOK'
  BY <1>2, <1>3 DEF RoastTablesOK
<1>5. ASSUME NEW m \in pre_signatures'
      PROVE  m \in Request
  <2>1. CASE m \in net
    BY <2>1
  <2>2. CASE m \notin net
    <3>1. PICK p \in st.out : m \in {[to |-> i, presig |-> p] : i \in Signers(p)}
      BY <1>5, <2>2 DEF SetTables
    <3>2. PICK i \in Signers(p) : m = [to |-> i, presig |-> p]
      BY <3>1
    <3>3. i \in Replica /\ p \in PreSignature
      BY <3>1 DEF Signers, TablesInv, Tables
    <3> QED
      BY <3>2, <3>3 DEF Request
  <2> QED
    BY <2>1, <2>2
<1> QED
  BY <1>4, <1>5

\* Nothing has happened yet.
LEMMA RoastInitially == Init => RoastInv
<1> SUFFICES ASSUME Init
             PROVE  RoastInv
  OBVIOUS
<1>1. 0 \in View
  BY RoastBoundsAssumption DEF View
<1>2. AgreementOK
  BY <1>1, FS_EmptySet DEF Init, AgreementOK
<1>3. RoastTablesOK
  BY GarbageTables DEF Init, RoastTablesOK
<1>4. NetworkOK
  BY RoastBoundsAssumption DEF Init, NetworkOK
<1>5. ProgressOK
  BY DEF Init, ProgressOK
<1> QED
  BY <1>2, <1>3, <1>4, <1>5 DEF RoastInv

\* What Deliver leaves on its way.
LEMMA DeliverKeeps ==
    ASSUME NEW m, duplicates \in 0 .. MaxDuplicates,
           Deliver(m, pre_signatures)
    PROVE  /\ pre_signatures' \subseteq pre_signatures
           /\ duplicates' \in 0 .. MaxDuplicates
BY RoastBoundsAssumption DEF Deliver

LEMMA DeliverShareKeeps ==
    ASSUME NEW m, duplicates \in 0 .. MaxDuplicates,
           Deliver(m, signature_shares)
    PROVE  /\ signature_shares' \subseteq signature_shares
           /\ duplicates' \in 0 .. MaxDuplicates
BY RoastBoundsAssumption DEF Deliver

LEMMA RoastSendCommit ==
    ASSUME RoastInv, NEW r \in Replica, SendCommit(r)
    PROVE  RoastInv'
<1>1. PICK m : m = [v |-> view[r], sender |-> r, nonce |-> nonce[r] + 1]
  OBVIOUS
<1>2. m \in CommitMessage
  BY <1>1 DEF RoastInv, AgreementOK, CommitMessage
<1>3. /\ msg_out_commit' = msg_out_commit \union {m}
      /\ msg_log_commit' = [msg_log_commit EXCEPT ![r] = @ \union {m}]
      /\ nonce' = [nonce EXCEPT ![r] = @ + 1] /\ view' = view
  BY <1>1 DEF SendCommit
<1>4. AgreementOK'
  <2>1. IsFiniteSet(msg_out_commit')
    BY <1>3, FS_AddElement DEF RoastInv, AgreementOK
  <2>2. msg_log_commit' \in [Replica -> SUBSET msg_out_commit']
    BY <1>3 DEF RoastInv, AgreementOK
  <2>3. nonce' \in [Replica -> Nat]
    BY <1>3 DEF RoastInv, AgreementOK
  <2> QED
    BY <1>2, <1>3, <2>1, <2>2, <2>3 DEF RoastInv, AgreementOK
<1>5. RoastTablesOK' /\ NetworkOK' /\ ProgressOK'
  BY DEF SendCommit, network, progress, history, RoastInv, RoastTablesOK,
    NetworkOK, ProgressOK
<1> QED
  BY <1>4, <1>5 DEF RoastInv

LEMMA RoastReceiveCommit ==
    ASSUME RoastInv, NEW r \in Replica, ReceiveCommit(r)
    PROVE  RoastInv'
<1>1. PICK m \in msg_out_commit :
        /\ msg_log_commit' = [msg_log_commit EXCEPT ![r] = @ \union {m}]
        /\ UNCHANGED duplicates \/ (duplicates < MaxDuplicates
                                      /\ duplicates' = duplicates + 1)
        /\ \E st \in IF m.v \in roast[r].active /\ ~Final(roast[r])
                     THEN RECEIVE_SIG_SHARE(roast[r], r, m.sender, NoShare,
                                            m.nonce)
                     ELSE {roast[r]} :
             SetTables(r, st, pre_signatures)
        /\ UNCHANGED <<view, msg_out_commit, nonce, signature_shares,
                       progress, history>>
  BY DEF ReceiveCommit
<1>2. m.sender \in Replica /\ m.nonce \in Nat
  BY DEF RoastInv, AgreementOK, CommitMessage
<1>3. PICK st : /\ st = roast[r] \/ st \in RECEIVE_SIG_SHARE(roast[r], r,
                                             m.sender, NoShare, m.nonce)
                /\ SetTables(r, st, pre_signatures)
  BY <1>1
<1>4. TablesInv(roast[r])
  BY DEF RoastInv, RoastTablesOK
<1>5. TablesInv(st)
  BY <1>2, <1>3, <1>4, NoShareType, ReceiveKeepsTables
<1>6. RoastTablesOK' /\ pre_signatures' \subseteq Request
  BY <1>3, <1>5, SetTablesKeeps DEF RoastInv, NetworkOK
<1>7. AgreementOK'
  BY <1>1 DEF RoastInv, AgreementOK
<1>8. NetworkOK' /\ ProgressOK'
  BY <1>1, <1>6, RoastBoundsAssumption
    DEF progress, history, RoastInv, NetworkOK, ProgressOK
<1> QED
  BY <1>6, <1>7, <1>8 DEF RoastInv

LEMMA RoastSendViewChange ==
    ASSUME RoastInv, NEW r \in Replica, SendViewChange(r)
    PROVE  RoastInv'
<1>1. AgreementOK'
  BY RoastBoundsAssumption DEF SendViewChange, RoastInv, AgreementOK, View
<1>2. PICK new : new = [roast[r] EXCEPT !.active = {}]
  OBVIOUS
<1>3. TablesInv(new) /\ new.out = {}
  <2>1. TablesInv(roast[r]) /\ roast[r].out = {}
    BY DEF RoastInv, RoastTablesOK
  <2>2. PICK A : A = {}
    OBVIOUS
  <2> QED
    BY <1>2, <2>1, <2>2, ActiveTables
<1>4. roast' = [roast EXCEPT ![r] = new]
  BY <1>2 DEF SendViewChange, RoastInv, RoastTablesOK
<1>5. RoastTablesOK'
  BY <1>3, <1>4 DEF RoastInv, RoastTablesOK
<1>6. NetworkOK' /\ ProgressOK'
  BY DEF SendViewChange, network, progress, history, RoastInv, NetworkOK,
    ProgressOK
<1> QED
  BY <1>1, <1>5, <1>6 DEF RoastInv

\* A log of typed COMMITs, for ROAST_INIT.
LEMMA LogOK ==
    ASSUME AgreementOK, NEW r \in Replica
    PROVE  /\ IsFiniteSet(msg_log_commit[r])
           /\ \A m \in msg_log_commit[r] :
                m \in msg_out_commit /\ m.sender \in Replica /\ m.nonce \in Nat
<1>1. msg_log_commit[r] \in SUBSET msg_out_commit
  BY DEF AgreementOK
<1>2. IsFiniteSet(msg_log_commit[r])
  BY <1>1, FS_Subset DEF AgreementOK
<1> QED
  BY <1>1, <1>2 DEF AgreementOK, CommitMessage

LEMMA RoastInitiated ==
    ASSUME RoastInv, NEW r \in Replica, RoastInit(r)
    PROVE  RoastInv'
<1>1. AgreementOK' /\ ProgressOK'
  BY DEF RoastInit, agreement, progress, history, RoastInv, AgreementOK,
    ProgressOK
<1>2. view[r] \in View /\ TablesInv(roast[r]) /\ roast[r].out = {}
  BY DEF RoastInv, AgreementOK, RoastTablesOK
<1>3. RoastTablesOK' /\ pre_signatures' \subseteq Request
  <2>1. CASE primary(view[r]) = r
    <3>1. PICK commits \in SetToSeqs(msg_log_commit[r]) :
            \E st \in InitTables(roast[r], r, view[r], commits) :
              SetTables(r, st, pre_signatures)
      BY <2>1 DEF RoastInit
    <3>2. PICK st \in InitTables(roast[r], r, view[r], commits) :
            SetTables(r, st, pre_signatures)
      BY <3>1
    <3>3. AgreementOK
      BY DEF RoastInv
    <3>4. TablesInv(st)
      BY <1>2, <3>3, LogOK, InitKeepsTables
    <3> QED
      BY <3>2, <3>4, SetTablesKeeps DEF RoastInv, NetworkOK
  <2>2. CASE primary(view[r]) # r
    <3>1. PICK new : new = [roast[r] EXCEPT !.active = {view[r]}]
      OBVIOUS
    <3>2. PICK A : A = {view[r]}
      OBVIOUS
    <3>3. TablesInv(new) /\ new.out = roast[r].out
      BY <1>2, <3>1, <3>2, ActiveTables
    <3>4. roast' = [roast EXCEPT ![r] = new] /\ pre_signatures' = pre_signatures
      BY <2>2, <3>1 DEF RoastInit, RoastInv, RoastTablesOK
    <3> QED
      BY <1>2, <3>3, <3>4 DEF RoastInv, RoastTablesOK, NetworkOK
  <2> QED
    BY <2>1, <2>2
<1>4. NetworkOK'
  BY <1>3 DEF RoastInit, history, RoastInv, NetworkOK
<1> QED
  BY <1>1, <1>3, <1>4 DEF RoastInv

LEMMA RoastRequested ==
    ASSUME RoastInv, NEW r \in Replica, RoastReceivePreSignature(r)
    PROVE  RoastInv'
<1>1. PICK m \in pre_signatures :
        /\ Deliver(m, pre_signatures)
        /\ \/ /\ dropped' = dropped \union ({r} \ executed)
              /\ UNCHANGED <<nonce, signature_shares, signed>>
           \/ /\ signed' = signed \union {[signer |-> r, presig |-> m.presig,
                                           nonce |-> nonce[r]]}
              /\ nonce' = [nonce EXCEPT ![r] = @ + 1]
              /\ signature_shares' = signature_shares \union
                   {[to |-> c, share |-> [signer |-> r, presig |-> m.presig,
                                          nonce |-> nonce[r]],
                     next |-> nonce[r] + 1] : c \in Coordinators}
              /\ UNCHANGED dropped
        /\ UNCHANGED <<agreement, roast, progress>>
  BY DEF RoastReceivePreSignature
<1>2. pre_signatures' \subseteq Request /\ duplicates' \in 0 .. MaxDuplicates
  BY <1>1, DeliverKeeps DEF RoastInv, NetworkOK
<1>3. RoastTablesOK' /\ ProgressOK'
  BY <1>1 DEF progress, RoastInv, RoastTablesOK, ProgressOK
<1>4. CASE UNCHANGED <<nonce, signature_shares, signed>>
  <2>1. AgreementOK' /\ NetworkOK'
    BY <1>1, <1>2, <1>4 DEF agreement, RoastInv, AgreementOK, NetworkOK
  <2> QED
    BY <1>3, <2>1 DEF RoastInv
<1>5. CASE ~UNCHANGED <<nonce, signature_shares, signed>>
  <2>1. PICK share : share = [signer |-> r, presig |-> m.presig,
                              nonce |-> nonce[r]]
    OBVIOUS
  <2>2. nonce[r] \in Nat /\ m.presig \in PreSignature
    BY DEF RoastInv, AgreementOK, NetworkOK, Request
  <2>3. share \in Share
    BY <2>1, <2>2 DEF Share
  <2>4. /\ signed' = signed \union {share}
        /\ nonce' = [nonce EXCEPT ![r] = @ + 1]
        /\ signature_shares' = signature_shares \union
             {[to |-> c, share |-> share, next |-> nonce[r] + 1] :
                c \in Coordinators}
    BY <1>1, <1>5, <2>1
  <2>5. AgreementOK'
    BY <1>1, <2>4 DEF agreement, RoastInv, AgreementOK
  <2>6. NetworkOK'
    <3>1. ASSUME NEW x \in signature_shares'
          PROVE  x \in [to : Coordinators, share : signed', next : Nat]
      <4>1. CASE x \in signature_shares
        <5>1. x \in [to : Coordinators, share : signed, next : Nat]
          BY <4>1 DEF RoastInv, NetworkOK
        <5> QED
          BY <2>4, <5>1
      <4>2. CASE x \notin signature_shares
        <5>1. PICK c \in Coordinators :
                x = [to |-> c, share |-> share, next |-> nonce[r] + 1]
          BY <2>4, <3>1, <4>2
        <5>2. share \in signed' /\ nonce[r] + 1 \in Nat
          BY <2>2, <2>4
        <5> QED
          BY <5>1, <5>2
      <4> QED
        BY <4>1, <4>2
    <3>2. signed' \subseteq Share
      BY <2>3, <2>4 DEF RoastInv, NetworkOK
    <3> QED
      BY <1>2, <3>1, <3>2 DEF NetworkOK
  <2> QED
    BY <1>3, <2>5, <2>6 DEF RoastInv
<1> QED
  BY <1>4, <1>5

LEMMA RoastAnswered ==
    ASSUME RoastInv, NEW r \in Replica, RoastReceiveSignatureShare(r)
    PROVE  RoastInv'
<1>1. PICK m \in signature_shares :
        /\ Deliver(m, signature_shares)
        /\ \E st : /\ st = roast[r] \/ st \in RECEIVE_SIG_SHARE(roast[r], r,
                                           m.share.signer, m.share, m.next)
                   /\ SetTables(r, st, pre_signatures)
        /\ UNCHANGED <<agreement, nonce, progress, history>>
  BY DEF RoastReceiveSignatureShare
<1>2. PICK st : /\ st = roast[r] \/ st \in RECEIVE_SIG_SHARE(roast[r], r,
                                        m.share.signer, m.share, m.next)
                /\ SetTables(r, st, pre_signatures)
  BY <1>1
<1>3. m.share \in Share /\ m.share \in SessionShare /\ m.next \in Nat
  BY ShareType DEF RoastInv, NetworkOK
<1>4. m.share.signer \in Replica
  BY <1>3 DEF Share
<1>5. TablesInv(roast[r])
  BY DEF RoastInv, RoastTablesOK
<1>6. TablesInv(st)
  BY <1>2, <1>3, <1>4, <1>5, ReceiveKeepsTables
<1>7. RoastTablesOK' /\ pre_signatures' \subseteq Request
  BY <1>2, <1>6, SetTablesKeeps DEF RoastInv, NetworkOK
<1>8. signature_shares' \subseteq signature_shares
      /\ duplicates' \in 0 .. MaxDuplicates
  BY <1>1, DeliverShareKeeps DEF RoastInv, NetworkOK
<1>9. AgreementOK' /\ NetworkOK' /\ ProgressOK'
  BY <1>1, <1>7, <1>8 DEF agreement, progress, history, RoastInv, AgreementOK,
    NetworkOK, ProgressOK
<1> QED
  BY <1>7, <1>9 DEF RoastInv

LEMMA RoastOthers ==
    ASSUME RoastInv, NEW r \in Replica, Execute(r) \/ ReceiveBlock(r) \/ Crash(r)
    PROVE  RoastInv'
<1>1. AgreementOK'
  BY DEF Execute, ReceiveBlock, Crash, agreement, RoastInv, AgreementOK
<1>2. RoastTablesOK'
  BY GarbageTables DEF Execute, ReceiveBlock, Crash, RoastInv, RoastTablesOK
<1>3. NetworkOK'
  BY DEF Execute, ReceiveBlock, Crash, network, history, RoastInv, NetworkOK
<1>4. ProgressOK'
  BY DEF Execute, ReceiveBlock, Crash, history, RoastInv, ProgressOK
<1> QED
  BY <1>1, <1>2, <1>3, <1>4 DEF RoastInv

LEMMA RoastStep == RoastInv /\ [Next]_vars => RoastInv'
<1> SUFFICES ASSUME RoastInv, [Next]_vars
             PROVE  RoastInv'
  OBVIOUS
<1>1. CASE UNCHANGED vars
  BY <1>1 DEF vars, agreement, network, progress, history, RoastInv,
    AgreementOK, RoastTablesOK, NetworkOK, ProgressOK
<1>2. CASE Next
  <2>1. PICK r \in Replica : Step(r) \/ SendViewChange(r) \/ Crash(r)
    BY <1>2 DEF Next, alive
  <2> QED
    BY <2>1, RoastSendCommit, RoastReceiveCommit, RoastSendViewChange,
      RoastInitiated, RoastRequested, RoastAnswered, RoastOthers
      DEF Step
<1> QED
  BY <1>1, <1>2

\* Every variable of the signing keeps its kind of value; in particular the
\* handler of a signature share never looks up a session that is not stored, in
\* any view and whatever is delivered twice.
THEOREM RoastTypeCorrect == Spec => []TypeOK
<1>1. RoastInv => TypeOK
  <2> SUFFICES ASSUME RoastInv
               PROVE  TypeOK
    OBVIOUS
  <2>1. ASSUME NEW r \in Replica
        PROVE  TablesOK(roast[r])
    <3>1. PICK st : st = roast[r]
      OBVIOUS
    <3>2. Tables(st) /\ st.out = {}
      BY <3>1 DEF RoastInv, RoastTablesOK, TablesInv
    <3>3. ASSUME NEW s \in DOMAIN st.session
          PROVE  /\ st.session[s].presig \in PreSignature
                 /\ Range(st.session[s].shares) \subseteq SessionShare
      <4>1. st.session[s] \in Session
        BY <3>2 DEF Tables
      <4>2. st.session[s].shares \in Seq(SessionShare)
        BY <4>1 DEF Session
      <4> QED
        BY <4>1, <4>2 DEF Session, Range
    <3> QED
      BY <3>1, <3>2, <3>3 DEF Tables, TablesOK
  <2>2. \A m \in msg_out_commit : m.v \in View /\ m.sender \in Replica
    BY DEF RoastInv, AgreementOK, CommitMessage
  <2>3. \A m \in pre_signatures : m.to \in Replica /\ m.presig \in PreSignature
    BY DEF RoastInv, NetworkOK, Request
  <2>4. \A m \in signature_shares : m.to \in Coordinators /\ m.share \in signed
    BY DEF RoastInv, NetworkOK
  <2> QED
    BY <2>1, <2>2, <2>3, <2>4 DEF RoastInv, AgreementOK, NetworkOK, ProgressOK,
      TypeOK
<1> QED
  BY <1>1, RoastInitially, RoastStep, PTL DEF Spec

\* A coordinator never opens more than n - t + 1 sessions for a block
\* (RECEIVE_SIG_SHARE), in any cluster and any view, whatever is late, lost or
\* delivered twice: the sessions that cannot become final have each a signer of
\* their own that has not answered, and a new one needs t that have.
THEOREM SessionsBoundedHolds == Spec => []SessionsBounded
<1>1. RoastInv => SessionsBounded
  BY DEF RoastInv, RoastTablesOK, TablesInv, Waiting, SessionsBounded
<1> QED
  BY <1>1, RoastInitially, RoastStep, PTL DEF Spec

-----------------------------------------------------------------------------
(* Signing in the first view, each message delivered once.                 *)

FirstViewOnce == MaxView = 0 /\ MaxDuplicates = 0

Coordinator == primary(0)

\* A session has its number of signers and shares that aggregate, one of each
\* signer at most.
SoundSession(session) ==
    LET p == session.presig
        shares == session.shares
    IN /\ Cardinality(Signers(p)) = sig_quorum
       /\ \A k \in 1 .. Len(shares) :
            /\ shares[k].signer \in Signers(p)
            /\ shares[k].presig = p
            /\ shares[k].nonce = p[shares[k].signer]
       /\ \A k, l \in 1 .. Len(shares) :
            shares[k].signer = shares[l].signer => k = l

\* Signer i is in a session, of pre-signature p, that has no share of it yet.
AwaitedIn(st, i, p) ==
    /\ st.sid[i] # 0 /\ i \notin st.responsive
    /\ p = st.session[st.sid[i]].presig
    /\ \A k \in 1 .. Len(st.session[st.sid[i]].shares) :
         st.session[st.sid[i]].shares[k].signer # i

\* The requests on their way, those that the handler is about to send included.
Requests(st, net) ==
    net \union UNION {{[to |-> i, presig |-> p] : i \in Signers(p)} :
                        p \in st.out}

\* Each signer is in one place: not heard yet, responsive, with a request on
\* its way to it, or with a share on its way back.  What the tables and messages
\* say of its nonce is what its wallet holds.
SessionsSound(st) ==
    /\ DOMAIN st.session = 1 .. st.counter
    /\ \A s \in DOMAIN st.session : SoundSession(st.session[s])
    /\ \A i \in Replica :
         st.sid[i] # 0 => st.session[st.sid[i]].presig[i] # 0

RequestsCurrent(st, requests, wallet) ==
    \A m \in requests : /\ m.to \in Replica
                        /\ AwaitedIn(st, m.to, m.presig)
                        /\ m.presig[m.to] = wallet[m.to]

SharesCurrent(st, shares, wallet) ==
    \A m \in shares :
        /\ m.share.signer \in Replica
        /\ AwaitedIn(st, m.share.signer, m.share.presig)
        /\ m.share.nonce = m.share.presig[m.share.signer]
        /\ m.next = wallet[m.share.signer] /\ m.next # 0

ResponsiveCurrent(st, wallet) ==
    \A i \in st.responsive : st.latest[i] = wallet[i] /\ wallet[i] # 0

Tokens(st, net, shares, heard, wallet) ==
    /\ SessionsSound(st)
    /\ RequestsCurrent(st, Requests(st, net), wallet)
    /\ SharesCurrent(st, shares, wallet)
    /\ \A m \in Requests(st, net), x \in shares : m.to # x.share.signer
    /\ ResponsiveCurrent(st, wallet)
    /\ \A i \in Replica \ heard : st.sid[i] = 0 /\ i \notin st.responsive

\* Nothing is on its way to or from signer i, and it is not responsive.
Free(st, net, shares, i) ==
    /\ \A m \in Requests(st, net) : m.to # i
    /\ \A x \in shares : x.share.signer # i
    /\ i \notin st.responsive

\* A valid share completes its session a little further.
LEMMA ShareKeepsSound ==
    ASSUME NEW old \in Session, SoundSession(old), NEW share \in SessionShare,
           share.signer \in Signers(old.presig), share.presig = old.presig,
           share.nonce = old.presig[share.signer],
           \A k \in 1 .. Len(old.shares) : old.shares[k].signer # share.signer,
           NEW one, one.presig = old.presig,
           one.shares = Append(old.shares, share)
    PROVE  SoundSession(one)
<1>1. PICK all \in Seq(SessionShare) : all = old.shares
  BY DEF Session
<1>2. PICK n \in Nat : n = Len(all)
  BY <1>1
<1>3. /\ Len(one.shares) = n + 1 /\ one.shares[n + 1] = share
      /\ \A k \in 1 .. n : one.shares[k] = all[k]
  BY <1>1, <1>2, AppendProperties
<1>4. \A k \in 1 .. n + 1 : k \in 1 .. n \/ k = n + 1
  OBVIOUS
<1>5. \A k \in 1 .. n :
        /\ all[k].signer \in Signers(old.presig)
        /\ all[k].presig = old.presig
        /\ all[k].nonce = old.presig[all[k].signer]
        /\ all[k].signer # share.signer
  BY <1>1, <1>2 DEF SoundSession
<1>6. \A k, l \in 1 .. n : all[k].signer = all[l].signer => k = l
  BY <1>1, <1>2 DEF SoundSession
<1>7. \A k \in 1 .. n + 1 :
        /\ one.shares[k].signer \in Signers(one.presig)
        /\ one.shares[k].presig = one.presig
        /\ one.shares[k].nonce = one.presig[one.shares[k].signer]
  BY <1>3, <1>4, <1>5
<1>8. \A k, l \in 1 .. n + 1 :
        one.shares[k].signer = one.shares[l].signer => k = l
  BY <1>3, <1>4, <1>5, <1>6
<1>9. Cardinality(Signers(one.presig)) = sig_quorum
  BY DEF SoundSession
<1> QED
  BY <1>3, <1>7, <1>8, <1>9 DEF SoundSession

\* Requests depend on the tables only through what is still to be sent.
LEMMA RequestsSame ==
    ASSUME NEW st, NEW new, new.out = st.out, NEW net
    PROVE  Requests(new, net) = Requests(st, net)
BY DEF Requests

\* Storing a valid share of a signer that nothing else is on its way for.
LEMMA TokensStored ==
    ASSUME NEW st, Tables(st), NEW i \in Replica, NEW share \in SessionShare,
           NEW net, NEW shares, NEW heard, NEW wallet,
           Tokens(st, net, shares, heard, wallet), Free(st, net, shares, i),
           st.sid[i] # 0 => /\ AwaitedIn(st, i, share.presig)
                            /\ share.signer = i
                            /\ share.nonce = share.presig[i],
           NEW new, new = Stored(st, i, share)
    PROVE  /\ Tokens(new, net, shares, heard \union {i}, wallet)
           /\ Free(new, net, shares, i)
<1>1. /\ new.responsive = st.responsive /\ new.latest = st.latest
      /\ new.counter = st.counter
      /\ new.sid = st.sid /\ new.out = st.out
      /\ DOMAIN new.session = DOMAIN st.session
      /\ \A s \in DOMAIN st.session :
           /\ new.session[s].presig = st.session[s].presig
           /\ new.session[s].shares =
                IF s = st.sid[i] /\ s # 0
                THEN Append(st.session[s].shares, share)
                ELSE st.session[s].shares
  BY StoredTables
<1>2. Requests(new, net) = Requests(st, net)
  BY <1>1, RequestsSame
<1>3. \A j \in Replica : st.sid[j] # 0 => st.sid[j] \in DOMAIN st.session
  BY DEF Tables
<1>4. ASSUME NEW s \in DOMAIN st.session
      PROVE  SoundSession(new.session[s])
  <2>1. SoundSession(st.session[s]) /\ st.session[s] \in Session
    BY DEF Tokens, SessionsSound, Tables
  <2>2. CASE ~(s = st.sid[i] /\ s # 0)
    <3>1. /\ new.session[s].presig = st.session[s].presig
          /\ new.session[s].shares = st.session[s].shares
      BY <1>1, <2>2
    <3> QED
      BY <2>1, <3>1 DEF SoundSession
  <2>3. CASE s = st.sid[i] /\ s # 0
    <3>1. /\ new.session[s].presig = st.session[s].presig
          /\ new.session[s].shares = Append(st.session[s].shares, share)
      BY <1>1, <2>3
    <3>2. /\ share.presig = st.session[s].presig /\ share.signer = i
          /\ share.nonce = share.presig[i]
          /\ \A k \in 1 .. Len(st.session[s].shares) :
               st.session[s].shares[k].signer # i
      BY <2>3 DEF AwaitedIn
    <3>3. i \in Signers(st.session[s].presig)
      BY <2>3 DEF Tokens, SessionsSound, Signers
    <3> QED
      BY <2>1, <3>1, <3>2, <3>3, ShareKeepsSound
  <2> QED
    BY <2>2, <2>3
<1>5. SessionsSound(new)
  BY <1>1, <1>3, <1>4 DEF Tokens, SessionsSound
<1>6. ASSUME NEW j \in Replica, j # i, NEW p, AwaitedIn(st, j, p)
      PROVE  AwaitedIn(new, j, p)
  <2>1. PICK s \in DOMAIN st.session : s = st.sid[j] /\ s # 0
    BY <1>3, <1>6 DEF AwaitedIn
  <2>2. /\ st.session[s].shares \in Seq(SessionShare)
        /\ \A k \in 1 .. Len(st.session[s].shares) :
             st.session[s].shares[k].signer # j
    BY <1>6, <2>1 DEF AwaitedIn, Tables, Session
  <2>3. \A k \in 1 .. Len(new.session[s].shares) :
          new.session[s].shares[k].signer # j
    <3>1. CASE s # st.sid[i]
      BY <1>1, <2>2, <3>1
    <3>2. CASE s = st.sid[i]
      <4>1. new.session[s].shares = Append(st.session[s].shares, share)
        BY <1>1, <2>1, <3>2
      <4>2. PICK all \in Seq(SessionShare) : all = st.session[s].shares
        BY <2>2
      <4>3. PICK n \in Nat : n = Len(all)
        BY <4>2
      <4>4. /\ Len(new.session[s].shares) = n + 1
            /\ new.session[s].shares[n + 1] = share
            /\ \A k \in 1 .. n : new.session[s].shares[k] = all[k]
        BY <4>1, <4>2, <4>3, AppendProperties
      <4>5. share.signer = i
        BY <2>1, <3>2
      <4>6. \A k \in 1 .. n + 1 : k \in 1 .. n \/ k = n + 1
        OBVIOUS
      <4> QED
        BY <1>6, <2>2, <4>2, <4>3, <4>4, <4>5, <4>6
    <3> QED
      BY <3>1, <3>2
  <2>4. p = new.session[s].presig
    BY <1>1, <1>6, <2>1 DEF AwaitedIn
  <2> QED
    BY <1>1, <1>6, <2>1, <2>3, <2>4 DEF AwaitedIn
<1>7. RequestsCurrent(new, Requests(new, net), wallet)
  BY <1>2, <1>6 DEF Tokens, RequestsCurrent, Free
<1>8. SharesCurrent(new, shares, wallet)
  BY <1>6 DEF Tokens, SharesCurrent, Free
<1>9. ResponsiveCurrent(new, wallet)
  BY <1>1 DEF Tokens, ResponsiveCurrent
<1>10. Tokens(new, net, shares, heard \union {i}, wallet)
  BY <1>1, <1>2, <1>5, <1>7, <1>8, <1>9 DEF Tokens
<1> QED
  BY <1>1, <1>2, <1>10 DEF Free

\* The signer becomes responsive.
LEMMA TokensHeard ==
    ASSUME NEW st, Tables(st), NEW i \in Replica, NEW next \in Nat,
           NEW net, NEW shares, NEW heard, NEW wallet,
           Tokens(st, net, shares, heard, wallet), Free(st, net, shares, i),
           i \in heard, next = wallet[i], next # 0,
           NEW new, new = Heard(st, i, next)
    PROVE  Tokens(new, net, shares, heard, wallet)
<1>1. /\ new.responsive = st.responsive \union {i}
      /\ \A j \in Replica : new.latest[j] = IF j = i THEN next ELSE st.latest[j]
      /\ new.counter = st.counter /\ new.sid = st.sid
      /\ new.session = st.session /\ new.out = st.out
  BY HeardTables
<1>2. Requests(new, net) = Requests(st, net)
  BY <1>1, RequestsSame
<1>3. SessionsSound(new)
  BY <1>1 DEF Tokens, SessionsSound
<1>4. \A j \in Replica : \A p : j # i /\ AwaitedIn(st, j, p) => AwaitedIn(new, j, p)
  BY <1>1 DEF AwaitedIn
<1>5. RequestsCurrent(new, Requests(new, net), wallet)
  BY <1>2, <1>4 DEF Tokens, RequestsCurrent, Free
<1>6. SharesCurrent(new, shares, wallet)
  BY <1>4 DEF Tokens, SharesCurrent, Free
<1>7. ResponsiveCurrent(new, wallet)
  BY <1>1 DEF Tokens, ResponsiveCurrent, Tables
<1>8. \A j \in Replica \ heard : new.sid[j] = 0 /\ j \notin new.responsive
  BY <1>1 DEF Tokens
<1> QED
  BY <1>2, <1>3, <1>5, <1>6, <1>7, <1>8 DEF Tokens

\* The responsive signers are asked.
LEMMA TokensNewSession ==
    ASSUME NEW st, Tables(st), Cardinality(st.responsive) = sig_quorum,
           NEW net, NEW shares, NEW heard, NEW wallet,
           Tokens(st, net, shares, heard, wallet),
           NEW new, new = NewSession(st)
    PROVE  Tokens(new, net, shares, heard, wallet)
<1>1. PICK c : c = st.counter + 1
  OBVIOUS
<1>2. PICK p : p = new.session[c].presig
  OBVIOUS
<1>3. /\ new.responsive = {} /\ new.counter = c
      /\ \A i \in Replica :
           new.sid[i] = IF i \in st.responsive THEN c ELSE st.sid[i]
      /\ DOMAIN new.session = DOMAIN st.session \union {c}
      /\ \A i \in Replica :
           p[i] = IF i \in st.responsive THEN st.latest[i] ELSE 0
      /\ new.session[c].shares = << >>
      /\ \A s \in DOMAIN st.session :
           s # c => new.session[s] = st.session[s]
      /\ new.out = st.out \union {p}
  BY <1>1, <1>2, NewSessionTables
<1>4. st.counter \in Nat /\ st.responsive \subseteq Replica
  BY DEF Tables
<1>5. c \in Nat /\ c # 0
  BY <1>1, <1>4
<1>6. DOMAIN st.session = 1 .. st.counter
  BY DEF Tokens, SessionsSound
<1>7. c \notin DOMAIN st.session
  BY <1>1, <1>4, <1>6
<1>8. DOMAIN new.session = 1 .. new.counter
  BY <1>1, <1>3, <1>4, <1>6
<1>9. Signers(p) = st.responsive
  BY <1>3, <1>4 DEF Signers, Tokens, ResponsiveCurrent
<1>10. Len(new.session[c].shares) = 0
  BY <1>3, EmptySeq
<1>11. SoundSession(new.session[c])
  BY <1>2, <1>9, <1>10 DEF SoundSession
<1>12. \A s \in DOMAIN st.session : new.session[s] = st.session[s]
  BY <1>3, <1>7
<1>13. ASSUME NEW s \in DOMAIN new.session
       PROVE  SoundSession(new.session[s])
  BY <1>3, <1>11, <1>12, <1>13 DEF Tokens, SessionsSound
<1>14. \A i \in Replica : st.sid[i] # 0 => st.sid[i] \in DOMAIN st.session
  BY DEF Tables
<1>15. ASSUME NEW i \in Replica, new.sid[i] # 0
       PROVE  new.session[new.sid[i]].presig[i] # 0
  <2>1. CASE i \in st.responsive
    BY <1>2, <1>3, <2>1 DEF Tokens, ResponsiveCurrent
  <2>2. CASE i \notin st.responsive
    <3>1. new.sid[i] = st.sid[i] /\ st.sid[i] \in DOMAIN st.session
      BY <1>3, <1>14, <1>15, <2>2
    <3> QED
      BY <1>12, <1>15, <3>1 DEF Tokens, SessionsSound
  <2> QED
    BY <2>1, <2>2
<1>16. SessionsSound(new)
  BY <1>8, <1>13, <1>15 DEF SessionsSound
<1>17. ASSUME NEW i \in Replica, NEW q, AwaitedIn(st, i, q)
       PROVE  AwaitedIn(new, i, q)
  <2>1. i \notin st.responsive /\ st.sid[i] # 0
    BY <1>17 DEF AwaitedIn
  <2>2. new.sid[i] = st.sid[i] /\ st.sid[i] \in DOMAIN st.session
    BY <1>3, <1>14, <2>1
  <2>3. new.session[new.sid[i]] = st.session[st.sid[i]]
    BY <1>12, <2>2
  <2> QED
    BY <1>3, <1>17, <2>2, <2>3 DEF AwaitedIn
<1>18. ASSUME NEW i \in st.responsive
       PROVE  AwaitedIn(new, i, p) /\ p[i] = wallet[i] /\ i \in Replica
  <2>1. i \in Replica /\ new.sid[i] = c
    BY <1>3, <1>4
  <2>2. p[i] = wallet[i]
    BY <1>3, <2>1 DEF Tokens, ResponsiveCurrent
  <2> QED
    BY <1>2, <1>3, <1>5, <1>10, <2>1, <2>2 DEF AwaitedIn
<1>19. ASSUME NEW m \in Requests(new, net)
       PROVE  \/ m \in Requests(st, net)
              \/ m.presig = p /\ m.to \in st.responsive
  <2>1. CASE m \in net
    BY <2>1 DEF Requests
  <2>2. CASE m \notin net
    <3>1. PICK q \in new.out : m \in {[to |-> i, presig |-> q] : i \in Signers(q)}
      BY <1>19, <2>2 DEF Requests
    <3>2. CASE q \in st.out
      BY <3>1, <3>2 DEF Requests
    <3>3. CASE q = p
      BY <1>9, <3>1, <3>3
    <3> QED
      BY <1>3, <3>2, <3>3
  <2> QED
    BY <2>1, <2>2
<1>20. RequestsCurrent(new, Requests(new, net), wallet)
  <2> SUFFICES ASSUME NEW m \in Requests(new, net)
               PROVE  /\ m.to \in Replica /\ AwaitedIn(new, m.to, m.presig)
                      /\ m.presig[m.to] = wallet[m.to]
    BY DEF RequestsCurrent
  <2>1. CASE m \in Requests(st, net)
    BY <1>17, <2>1 DEF Tokens, RequestsCurrent
  <2>2. CASE m.presig = p /\ m.to \in st.responsive
    BY <1>18, <2>2
  <2> QED
    BY <1>19, <2>1, <2>2
<1>21. SharesCurrent(new, shares, wallet)
  BY <1>17 DEF Tokens, SharesCurrent
<1>22. \A m \in Requests(new, net), x \in shares : m.to # x.share.signer
  <2>1. \A x \in shares : x.share.signer \notin st.responsive
    BY DEF Tokens, SharesCurrent, AwaitedIn
  <2> QED
    BY <1>19, <2>1 DEF Tokens
<1>23. ResponsiveCurrent(new, wallet)
  BY <1>3 DEF ResponsiveCurrent
<1>24. \A i \in Replica \ heard : new.sid[i] = 0 /\ i \notin new.responsive
  BY <1>3 DEF Tokens
<1> QED
  BY <1>16, <1>20, <1>21, <1>22, <1>23, <1>24 DEF Tokens

\* RECEIVE_SIG_SHARE for a COMMIT or a share of a signer that nothing else is
\* on its way for.
LEMMA TokensReceive ==
    ASSUME NEW st, Tables(st), NEW r, NEW i \in Replica, NEW share \in SessionShare,
           NEW next \in Nat, NEW net, NEW shares, NEW heard, NEW wallet,
           Tokens(st, net, shares, heard, wallet), Free(st, net, shares, i),
           st.sid[i] # 0 => /\ AwaitedIn(st, i, share.presig)
                            /\ share.signer = i
                            /\ share.nonce = share.presig[i],
           next = wallet[i], next # 0,
           NEW new \in RECEIVE_SIG_SHARE(st, r, i, share, next)
    PROVE  Tokens(new, net, shares, heard \union {i}, wallet)
<1>1. PICK stored : stored = Stored(st, i, share)
  OBVIOUS
<1>2. PICK both : both = Heard(stored, i, next)
  OBVIOUS
<1>3. \/ new = stored
      \/ Cardinality(both.responsive) = sig_quorum /\ new = NewSession(both)
      \/ new = both
  BY <1>1, <1>2, ReceiveOutcomes
<1>4. PICK more : more = heard \union {i}
  OBVIOUS
<1>5. Tables(stored)
  BY <1>1, StoredTables
<1>6. Tokens(stored, net, shares, more, wallet) /\ Free(stored, net, shares, i)
  BY <1>1, <1>4, TokensStored
<1>7. Tables(both)
  BY <1>2, <1>5, HeardTables
<1>8. i \in more
  BY <1>4
<1>9. Tokens(both, net, shares, more, wallet)
  BY <1>2, <1>5, <1>6, <1>8, TokensHeard
<1> QED
  BY <1>3, <1>4, <1>6, <1>7, <1>9, TokensNewSession

\* A session with as many sound shares as it needs aggregates.
LEMMA SoundAggregates ==
    ASSUME NEW session \in Session, SoundSession(session),
           Len(session.shares) = sig_quorum
    PROVE  Aggregates(session)
<1>1. PICK p \in PreSignature : p = session.presig
  BY DEF Session
<1>2. PICK all \in Seq(SessionShare) : all = session.shares
  BY DEF Session
<1>3. PICK n \in Nat : n = sig_quorum /\ n = Len(all)
  BY <1>2, Numbers
<1>4. /\ Cardinality(Signers(p)) = n
      /\ \A k \in 1 .. n : /\ all[k].signer \in Signers(p)
                           /\ all[k].presig = p
                           /\ all[k].nonce = p[all[k].signer]
      /\ \A k, l \in 1 .. n : all[k].signer = all[l].signer => k = l
  BY <1>1, <1>2, <1>3 DEF SoundSession
<1>5. PICK f : f = [k \in 1 .. n |-> all[k].signer]
  OBVIOUS
<1>6. f \in Injection(1 .. n, Signers(p))
  BY <1>4, <1>5 DEF Injection, IsInjective
<1>7. IsFiniteSet(Signers(p))
  <2>1. Signers(p) \in SUBSET Replica
    BY DEF Signers
  <2> QED
    BY <2>1, Numbers, FS_Subset
<1>8. Cardinality(1 .. n) = n
  BY FS_Interval
<1>9. f \in Surjection(1 .. n, Signers(p))
  BY <1>4, <1>6, <1>7, <1>8, FS_Injection
<1>10. \A i \in Signers(p) : \E k \in 1 .. n : all[k].signer = i
  BY <1>5, <1>9 DEF Surjection
<1>11. DOMAIN all = 1 .. n
  BY <1>3
<1>12. PICK range : range = Range(all)
  OBVIOUS
<1>13. \A x : x \in range <=> \E k \in 1 .. n : x = all[k]
  BY <1>11, <1>12 DEF Range
<1>14. {x.signer : x \in range} = Signers(p)
  BY <1>4, <1>10, <1>13
<1>15. \A x \in range : x.presig = p /\ x.nonce = p[x.signer]
  BY <1>4, <1>13
<1> QED
  BY <1>1, <1>2, <1>12, <1>14, <1>15 DEF Aggregates

\* Messages may get lost, wallets of signers that are not heard may change.
LEMMA TokensFewer ==
    ASSUME NEW st, NEW net, NEW shares, NEW heard, NEW wallet,
           Tokens(st, net, shares, heard, wallet),
           NEW net2, net2 \subseteq net, NEW shares2, shares2 \subseteq shares,
           NEW heard2, heard \subseteq heard2, NEW wallet2,
           \A i \in heard : wallet2[i] = wallet[i],
           st.responsive \subseteq Replica
    PROVE  Tokens(st, net2, shares2, heard2, wallet2)
<1>1. Requests(st, net2) \subseteq Requests(st, net)
  BY DEF Requests
<1>2. \A i \in Replica : \A p : AwaitedIn(st, i, p) => wallet2[i] = wallet[i]
  BY DEF AwaitedIn, Tokens
<1>3. \A i \in st.responsive : wallet2[i] = wallet[i]
  BY DEF Tokens
<1>4. RequestsCurrent(st, Requests(st, net2), wallet2)
  BY <1>1, <1>2 DEF Tokens, RequestsCurrent
<1>5. SharesCurrent(st, shares2, wallet2)
  BY <1>2 DEF Tokens, SharesCurrent
<1>6. ResponsiveCurrent(st, wallet2)
  BY <1>3 DEF Tokens, ResponsiveCurrent
<1>7. /\ SessionsSound(st)
      /\ \A m \in Requests(st, net2), x \in shares2 : m.to # x.share.signer
      /\ \A i \in Replica \ heard2 : st.sid[i] = 0 /\ i \notin st.responsive
  BY <1>1 DEF Tokens
<1> QED
  BY <1>4, <1>5, <1>6, <1>7 DEF Tokens

\* The requests are sent.
LEMMA TokensSent ==
    ASSUME NEW st, TablesInv(st), NEW net, NEW shares, NEW heard, NEW wallet,
           Tokens(st, net, shares, heard, wallet),
           NEW new, new = [st EXCEPT !.out = {}],
           NEW net2, net2 = Requests(st, net)
    PROVE  Tokens(new, net2, shares, heard, wallet)
<1>1. /\ new.out = {} /\ new.session = st.session /\ new.sid = st.sid
      /\ new.responsive = st.responsive /\ new.latest = st.latest
      /\ new.counter = st.counter
  BY SentTables
<1>2. Requests(new, net2) = Requests(st, net)
  BY <1>1 DEF Requests
<1>3. \A i, p : AwaitedIn(st, i, p) => AwaitedIn(new, i, p)
  BY <1>1 DEF AwaitedIn
<1>4. SessionsSound(new)
  BY <1>1 DEF Tokens, SessionsSound
<1>5. RequestsCurrent(new, Requests(new, net2), wallet)
  BY <1>2, <1>3 DEF Tokens, RequestsCurrent
<1>6. SharesCurrent(new, shares, wallet)
  BY <1>3 DEF Tokens, SharesCurrent
<1>7. ResponsiveCurrent(new, wallet)
  BY <1>1 DEF Tokens, ResponsiveCurrent
<1>8. /\ \A m \in Requests(new, net2), x \in shares : m.to # x.share.signer
      /\ \A i \in Replica \ heard : new.sid[i] = 0 /\ i \notin new.responsive
  BY <1>1, <1>2 DEF Tokens
<1> QED
  BY <1>4, <1>5, <1>6, <1>7, <1>8 DEF Tokens

\* A signer answers the one request that is on its way to it.
LEMMA TokensSign ==
    ASSUME NEW st, st.out = {}, NEW net, net \subseteq Request, NEW shares,
           NEW heard, NEW wallet \in [Replica -> Nat],
           Tokens(st, net, shares, heard, wallet),
           NEW i \in Replica, NEW m \in net, m.to = i, NEW c,
           NEW wallet2, wallet2 = [wallet EXCEPT ![i] = @ + 1],
           NEW x, x = [to |-> c,
                       share |-> [signer |-> i, presig |-> m.presig,
                                  nonce |-> wallet[i]],
                       next |-> wallet[i] + 1]
    PROVE  Tokens(st, net \ {m}, shares \union {x}, heard, wallet2)
<1>1. \A n : Requests(st, n) = n
  BY DEF Requests
<1>2. /\ AwaitedIn(st, i, m.presig) /\ m.presig[i] = wallet[i]
  BY <1>1 DEF Tokens, RequestsCurrent
<1>3. ASSUME NEW y \in net, y.to = i
      PROVE  y = m
  <2>1. AwaitedIn(st, i, y.presig)
    BY <1>1, <1>3 DEF Tokens, RequestsCurrent
  <2>2. y.presig = m.presig
    BY <1>2, <2>1 DEF AwaitedIn
  <2>3. y \in Request /\ m \in Request
    OBVIOUS
  <2> QED
    BY <1>3, <2>2, <2>3 DEF Request
<1>4. /\ x.share.signer = i /\ x.share.presig = m.presig
      /\ x.share.nonce = wallet[i] /\ x.next = wallet[i] + 1
  OBVIOUS
<1>5. wallet[i] \in Nat /\ wallet2[i] = wallet[i] + 1
      /\ \A j \in Replica : j # i => wallet2[j] = wallet[j]
  OBVIOUS
<1>6. i \notin st.responsive
  BY <1>2 DEF AwaitedIn
<1>7. \A y \in shares : y.share.signer # i
  BY <1>1 DEF Tokens
<1>8. RequestsCurrent(st, net \ {m}, wallet2)
  BY <1>1, <1>3, <1>5 DEF Tokens, RequestsCurrent
<1>9. SharesCurrent(st, shares \union {x}, wallet2)
  <2>1. x.next # 0
    BY <1>4, <1>5
  <2>2. \A y \in shares : y.next = wallet2[y.share.signer]
    BY <1>5, <1>7 DEF Tokens, SharesCurrent
  <2> QED
    BY <1>2, <1>4, <1>5, <2>1, <2>2 DEF Tokens, SharesCurrent
<1>10. \A y \in net \ {m}, z \in shares \union {x} : y.to # z.share.signer
  BY <1>1, <1>3, <1>4 DEF Tokens
<1>11. ResponsiveCurrent(st, wallet2)
  <2>1. \A j \in st.responsive : j \in Replica \/ j \notin Replica
    OBVIOUS
  <2>2. \A j \in st.responsive : wallet2[j] = wallet[j]
    BY <1>6
  <2> QED
    BY <2>2 DEF Tokens, ResponsiveCurrent
<1> QED
  BY <1>1, <1>8, <1>9, <1>10, <1>11 DEF Tokens

-----------------------------------------------------------------------------
(* The protocol around the tables.                                         *)

\* One COMMIT per replica, in the log of its sender; until the coordinator has
\* handled it, its nonce is the one in the wallet.
CommitOnce ==
    /\ \A x, y \in msg_out_commit : x.sender = y.sender => x = y
    /\ \A m \in msg_out_commit :
         /\ m.nonce # 0
         /\ m.sender \in checkpointed \/ m \in msg_log_commit[m.sender]
         /\ \/ Coordinator \in checkpointed
            \/ roast[Coordinator].active # {}
                 /\ m \in msg_log_commit[Coordinator]
            \/ nonce[m.sender] = m.nonce

\* Whose COMMITs the coordinator knows.
HeardSenders == {m.sender : m \in msg_log_commit[Coordinator]}

\* Before ROAST_INIT of the coordinator nothing is asked and nothing answered.
NotBegun ==
    /\ roast[Coordinator] = roast_collect_garbage
    /\ pre_signatures = {} /\ signature_shares = {}

\* While signing goes on each signer is in one place.
GoingOn ==
    /\ roast[Coordinator].active # {}
    /\ Tokens(roast[Coordinator], pre_signatures, signature_shares,
              HeardSenders, nonce)

\* Other replicas keep no sessions, nor does the coordinator once it has the
\* block.
Signing ==
    /\ \A r \in Replica \ {Coordinator} : DOMAIN roast[r].session = {}
    /\ Coordinator \in checkpointed => roast[Coordinator].active = {}
    /\ Coordinator \in checkpointed \/ NotBegun \/ GoingOn

SigningInv == RoastInv /\ CommitOnce /\ Signing

\* There is one view and one coordinator, and nothing is delivered twice.
LEMMA OneCoordinator ==
    ASSUME FirstViewOnce, RoastInv
    PROVE  /\ View = {0} /\ Coordinator = 0 /\ Coordinator \in Replica
           /\ Coordinators = {Coordinator}
           /\ \A r \in Replica : view[r] = 0 /\ primary(view[r]) = Coordinator
           /\ \A m \in msg_out_commit : m.v = 0
           /\ duplicates = 0 /\ ~(duplicates < MaxDuplicates)
<1>1. View = {0}
  BY DEF FirstViewOnce, View
<1>2. Coordinator = 0 /\ Coordinator \in Replica
  BY ClusterSizeAssumption DEF Coordinator, primary, Replica
<1>3. Coordinators = {Coordinator}
  BY <1>1 DEF Coordinators, Coordinator
<1>4. \A r \in Replica : view[r] = 0
  BY <1>1 DEF RoastInv, AgreementOK
<1>5. \A m \in msg_out_commit : m.v = 0
  BY <1>1 DEF RoastInv, AgreementOK, CommitMessage
<1>6. duplicates = 0 /\ ~(duplicates < MaxDuplicates)
  BY DEF FirstViewOnce, RoastInv, NetworkOK
<1> QED
  BY <1>1, <1>2, <1>3, <1>4, <1>5, <1>6 DEF Coordinator

LEMMA SigningInitially == Init => SigningInv
<1> SUFFICES ASSUME Init
             PROVE  SigningInv
  OBVIOUS
<1>1. Coordinator \in Replica
  BY ClusterSizeAssumption DEF Coordinator, primary, Replica
<1>2. CommitOnce
  BY DEF Init, CommitOnce
<1>3. Signing
  BY <1>1, GarbageTables DEF Init, Signing, NotBegun
<1> QED
  BY <1>2, <1>3, RoastInitially DEF SigningInv

\* A COMMIT that is logged makes its sender heard.
LEMMA HeardCommit ==
    ASSUME NEW i
    PROVE  i \in HeardSenders
             <=> \E m \in msg_log_commit[Coordinator] : m.sender = i
BY DEF HeardSenders

\* A replica sends its only COMMIT; the coordinator had not heard it.
LEMMA SigningSendCommit ==
    ASSUME FirstViewOnce, SigningInv, NEW r \in Replica, SendCommit(r)
    PROVE  CommitOnce' /\ Signing'
<1>1. RoastInv /\ CommitOnce /\ Signing
  BY DEF SigningInv
<1>2. /\ Coordinator \in Replica /\ view[r] = 0
      /\ \A m \in msg_out_commit : m.v = 0
  BY <1>1, OneCoordinator
<1>3. PICK m : m = [v |-> view[r], sender |-> r, nonce |-> nonce[r] + 1]
  OBVIOUS
<1>4. m.sender = r /\ m.nonce = nonce[r] + 1
  BY <1>3
<1>5. nonce[r] \in Nat /\ m.nonce # 0 /\ nonce'[r] = m.nonce
      /\ (\A i \in Replica : i # r => nonce'[i] = nonce[i])
  BY <1>1, <1>4 DEF SendCommit, RoastInv, AgreementOK
<1>6. /\ msg_out_commit' = msg_out_commit \union {m}
      /\ \A i \in Replica : msg_log_commit'[i] =
           IF i = r THEN msg_log_commit[i] \union {m} ELSE msg_log_commit[i]
      /\ roast' = roast /\ pre_signatures' = pre_signatures
      /\ signature_shares' = signature_shares /\ checkpointed' = checkpointed
  BY <1>1, <1>3
    DEF SendCommit, network, progress, RoastInv, AgreementOK
<1>7. \A x \in msg_out_commit : x.sender # r /\ x.sender \in Replica
  BY <1>1, <1>2 DEF SendCommit, CommitOnce, RoastInv, AgreementOK, CommitMessage
<1>8. CommitOnce'
  <2>1. \A x, y \in msg_out_commit' : x.sender = y.sender => x = y
    BY <1>1, <1>4, <1>6, <1>7 DEF CommitOnce
  <2>2. ASSUME NEW x \in msg_out_commit
        PROVE  /\ x.nonce # 0
               /\ x.sender \in checkpointed' \/ x \in msg_log_commit'[x.sender]
               /\ \/ Coordinator \in checkpointed'
                  \/ roast'[Coordinator].active # {}
                       /\ x \in msg_log_commit'[Coordinator]
                  \/ nonce'[x.sender] = x.nonce
    BY <1>1, <1>2, <1>5, <1>6, <1>7, <2>2 DEF CommitOnce
  <2>3. m \in msg_log_commit'[m.sender] /\ nonce'[m.sender] = m.nonce
    BY <1>4, <1>5, <1>6
  <2>4. Coordinator' = Coordinator
    BY DEF Coordinator
  <2> QED
    BY <1>5, <1>6, <2>1, <2>2, <2>3, <2>4 DEF CommitOnce
<1>9. r \notin HeardSenders
  <2>1. msg_log_commit[Coordinator] \subseteq msg_out_commit
    BY <1>1, <1>2 DEF RoastInv, AgreementOK
  <2> QED
    BY <1>7, <2>1, HeardCommit
<1>10. HeardSenders \subseteq HeardSenders' /\ HeardSenders \subseteq Replica
  <2>1. msg_log_commit[Coordinator] \subseteq msg_log_commit'[Coordinator]
    BY <1>2, <1>6
  <2>2. msg_log_commit[Coordinator] \subseteq msg_out_commit
    BY <1>1, <1>2 DEF RoastInv, AgreementOK
  <2> QED
    BY <1>7, <2>1, <2>2 DEF HeardSenders
<1>11. ASSUME GoingOn
       PROVE  GoingOn'
  <2>1. \A i \in HeardSenders : nonce'[i] = nonce[i]
    BY <1>5, <1>9, <1>10
  <2>2. roast[Coordinator].responsive \subseteq Replica
    BY <1>1, <1>2 DEF RoastInv, RoastTablesOK, TablesInv, Tables
  <2>3. Tokens(roast[Coordinator], pre_signatures, signature_shares,
               HeardSenders', nonce')
    BY <1>10, <1>11, <2>1, <2>2, TokensFewer DEF GoingOn
  <2> QED
    BY <1>6, <1>11, <2>3 DEF GoingOn
<1>12. Signing'
  BY <1>1, <1>6, <1>11 DEF Signing, NotBegun
<1> QED
  BY <1>8, <1>12

\* The coordinator's tables become st, and its requests are sent.
LEMMA SignedOn ==
    ASSUME RoastInv, Coordinator \in Replica, NEW st, TablesInv(st),
           NEW shares, NEW heard, NEW wallet, NEW net,
           Tokens(st, net, shares, heard, wallet),
           SetTables(Coordinator, st, net)
    PROVE  /\ roast'[Coordinator].active = st.active
           /\ Tokens(roast'[Coordinator], pre_signatures', shares, heard,
                     wallet)
           /\ \A r \in Replica \ {Coordinator} : roast'[r] = roast[r]
<1>1. PICK new : new = [st EXCEPT !.out = {}]
  OBVIOUS
<1>2. /\ roast'[Coordinator] = new
      /\ \A r \in Replica \ {Coordinator} : roast'[r] = roast[r]
  BY <1>1 DEF SetTables, RoastInv, RoastTablesOK
<1>3. pre_signatures' = Requests(st, net)
  BY DEF SetTables, Requests
<1>4. Tokens(new, pre_signatures', shares, heard, wallet)
  BY <1>1, <1>3, TokensSent
<1> QED
  BY <1>1, <1>2, <1>4, SentTables

\* The coordinator logs a COMMIT it had not, and uses it once ROAST_INIT is
\* done: nothing was on its way to or from its sender.
LEMMA SigningReceiveCommit ==
    ASSUME FirstViewOnce, SigningInv, NEW r \in Replica, ReceiveCommit(r)
    PROVE  CommitOnce' /\ Signing'
<1>1. RoastInv /\ CommitOnce /\ Signing
  BY DEF SigningInv
<1>2. /\ Coordinator \in Replica /\ r = Coordinator /\ Coordinator \notin checkpointed
      /\ ~(duplicates < MaxDuplicates)
  BY <1>1, OneCoordinator DEF ReceiveCommit
<1>3. PICK m \in msg_out_commit :
        /\ m \notin msg_log_commit[r]
        /\ msg_log_commit' = [msg_log_commit EXCEPT ![r] = @ \union {m}]
        /\ \E st \in IF m.v \in roast[r].active /\ ~Final(roast[r])
                     THEN RECEIVE_SIG_SHARE(roast[r], r, m.sender, NoShare,
                                            m.nonce)
                     ELSE {roast[r]} :
             SetTables(r, st, pre_signatures)
        /\ UNCHANGED <<view, msg_out_commit, nonce, signature_shares,
                       progress, history>>
  BY <1>2 DEF ReceiveCommit
<1>4. PICK st : /\ \/ st = roast[r]
                   \/ m.v \in roast[r].active
                        /\ st \in RECEIVE_SIG_SHARE(roast[r], r, m.sender,
                                                    NoShare, m.nonce)
                /\ SetTables(r, st, pre_signatures)
  BY <1>3
<1>5. /\ msg_out_commit' = msg_out_commit /\ nonce' = nonce
      /\ signature_shares' = signature_shares /\ checkpointed' = checkpointed
      /\ \A i \in Replica : msg_log_commit'[i] =
           IF i = r THEN msg_log_commit[i] \union {m} ELSE msg_log_commit[i]
  BY <1>1, <1>3 DEF progress, RoastInv, AgreementOK
<1>6. m.sender \in Replica /\ m.nonce \in Nat /\ m.nonce # 0
  BY <1>1 DEF CommitOnce, RoastInv, AgreementOK, CommitMessage
<1>7. m.sender \notin HeardSenders /\ HeardSenders' = HeardSenders \union {m.sender}
  <2>1. msg_log_commit[Coordinator] \subseteq msg_out_commit
    BY <1>1, <1>2 DEF RoastInv, AgreementOK
  <2>2. msg_log_commit'[Coordinator] = msg_log_commit[Coordinator] \union {m}
    BY <1>2, <1>5
  <2>3. m.sender \notin HeardSenders
    BY <1>1, <1>2, <1>3, <2>1, HeardCommit DEF CommitOnce
  <2>4. HeardSenders' = {x.sender : x \in msg_log_commit'[Coordinator]}
    BY DEF HeardSenders, Coordinator
  <2> QED
    BY <2>2, <2>3, <2>4 DEF HeardSenders
<1>8. nonce[m.sender] = m.nonce
  BY <1>1, <1>2, <1>3 DEF CommitOnce
<1>9. TablesInv(roast[r]) /\ TablesInv(st) /\ st.active = roast[r].active
  <2>1. TablesInv(roast[r])
    BY <1>1 DEF RoastInv, RoastTablesOK
  <2> QED
    BY <1>4, <1>6, <2>1, NoShareType, ReceiveKeepsTables
<1>10. CASE NotBegun
  <2>1. roast[r].active = {} /\ st = roast_collect_garbage
    BY <1>2, <1>4, <1>10, GarbageTables DEF NotBegun
  <2>2. [st EXCEPT !.out = {}] = st
    <3>1. Tables(st) /\ st.out = {}
      BY <1>9, <2>1, GarbageTables DEF TablesInv
    <3> QED
      BY <3>1 DEF Tables
  <2>3. \A i \in Replica : roast'[i] = roast[i]
    <3>1. roast' = [roast EXCEPT ![r] = st] /\ st = roast[r]
      BY <1>2, <1>4, <1>10, <2>1, <2>2 DEF SetTables, NotBegun
    <3> QED
      BY <1>1, <3>1 DEF RoastInv, RoastTablesOK
  <2>4. pre_signatures' = {}
    BY <1>4, <1>10, <2>1, GarbageTables DEF SetTables, NotBegun
  <2>5. NotBegun'
    BY <1>2, <1>5, <1>10, <2>3, <2>4 DEF NotBegun, Coordinator
  <2>6. Signing'
    BY <1>1, <1>2, <1>5, <2>3, <2>5 DEF Signing, Coordinator
  <2>7. CommitOnce'
    <3>1. \A x \in msg_out_commit : x.sender \in Replica
      BY <1>1 DEF RoastInv, AgreementOK, CommitMessage
    <3>2. \A x \in msg_out_commit :
            /\ x.sender \in checkpointed' \/ x \in msg_log_commit'[x.sender]
            /\ nonce[x.sender] = x.nonce
      BY <1>1, <1>2, <1>5, <2>1, <3>1 DEF CommitOnce
    <3> QED
      BY <1>1, <1>5, <3>2 DEF CommitOnce
  <2> QED
    BY <2>6, <2>7
<1>11. CASE GoingOn
  <2>1. Tokens(roast[r], pre_signatures, signature_shares, HeardSenders, nonce)
        /\ roast[r].active # {}
    BY <1>2, <1>11 DEF GoingOn
  <2>2. Tables(roast[r])
    BY <1>9 DEF TablesInv
  <2>3. roast[r].sid[m.sender] = 0
        /\ Free(roast[r], pre_signatures, signature_shares, m.sender)
    BY <1>6, <1>7, <2>1
      DEF Tokens, Free, RequestsCurrent, SharesCurrent, AwaitedIn
  <2>4. Tokens(st, pre_signatures, signature_shares, HeardSenders', nonce)
    <3>1. CASE st = roast[r]
      <4>1. HeardSenders \subseteq HeardSenders'
            /\ roast[r].responsive \subseteq Replica
        BY <1>7, <2>2 DEF Tables
      <4> QED
        BY <2>1, <3>1, <4>1, TokensFewer
    <3>2. CASE st \in RECEIVE_SIG_SHARE(roast[r], r, m.sender, NoShare, m.nonce)
      BY <1>6, <1>7, <1>8, <2>1, <2>2, <2>3, <3>2, NoShareType, TokensReceive
    <3> QED
      BY <1>4, <3>1, <3>2
  <2>5. /\ roast'[Coordinator].active = st.active
        /\ Tokens(roast'[Coordinator], pre_signatures', signature_shares,
                  HeardSenders', nonce)
        /\ \A i \in Replica \ {Coordinator} : roast'[i] = roast[i]
    BY <1>1, <1>2, <1>4, <1>9, <2>4, SignedOn
  <2>6. roast'[Coordinator].active # {}
    BY <1>9, <2>1, <2>5
  <2>7. GoingOn'
    BY <1>5, <2>5, <2>6 DEF GoingOn, Coordinator
  <2>8. Signing'
    BY <1>1, <1>2, <1>5, <2>5, <2>7 DEF Signing, Coordinator
  <2>9. \A x \in msg_out_commit :
          /\ x.sender \in checkpointed' \/ x \in msg_log_commit'[x.sender]
          /\ \/ roast'[Coordinator].active # {}
                  /\ x \in msg_log_commit'[Coordinator]
             \/ nonce[x.sender] = x.nonce
    <3>1. \A x \in msg_out_commit : x.sender \in Replica
      BY <1>1 DEF RoastInv, AgreementOK, CommitMessage
    <3> QED
      BY <1>1, <1>2, <1>5, <2>6, <3>1 DEF CommitOnce
  <2>10. CommitOnce'
    BY <1>1, <1>5, <2>9 DEF CommitOnce, Coordinator
  <2> QED
    BY <2>8, <2>10
<1> QED
  BY <1>1, <1>2, <1>10, <1>11 DEF Signing

\* The senders of the first k COMMITs that ROAST_INIT goes through.
FirstSenders(commits, k) == {commits[j].sender : j \in 1 .. k}

\* ROAST_INIT from empty tables, with COMMITs of different replicas that carry
\* the nonces in their wallets, puts each sender in one place.
LEMMA TokensInit ==
    ASSUME NEW r, NEW v \in View, NEW S, IsFiniteSet(S), NEW wallet,
           \A m \in S : /\ m.sender \in Replica /\ m.nonce \in Nat
                        /\ m.nonce # 0 /\ wallet[m.sender] = m.nonce,
           \A x, y \in S : x.sender = y.sender => x = y,
           NEW commits \in SetToSeqs(S),
           NEW new \in InitTables(roast_collect_garbage, r, v, commits),
           NEW heard, \A m \in S : m.sender \in heard
    PROVE  /\ TablesInv(new) /\ new.active = {v}
           /\ Tokens(new, {}, {}, heard, wallet)
<1>1. /\ Len(commits) \in Nat
      /\ \A k \in 1 .. Len(commits) : commits[k] \in S
      /\ \A k, l \in 1 .. Len(commits) : k # l => commits[k] # commits[l]
  BY LogOrder
<1>2. PICK n \in Nat : n = Len(commits)
  BY <1>1
<1>3. PICK after : PassesThrough(after, roast_collect_garbage, r, v, commits)
  BY <1>1, InitRun
<1> DEFINE Good == {k \in Nat : k <= n => \A x \in after[k] :
                      /\ TablesInv(x) /\ x.active = {v}
                      /\ Tokens(x, {}, {}, FirstSenders(commits, k), wallet)}
<1>4. 0 \in Good
  <2>1. PICK first : first = Begun(roast_collect_garbage, v)
    OBVIOUS
  <2>2. /\ TablesInv(first) /\ first.active = {v} /\ first.out = {}
        /\ first.responsive = {} /\ DOMAIN first.session = {}
        /\ first.counter = 0 /\ \A i \in Replica : first.sid[i] = 0
    BY <2>1, GarbageTables, BegunTables
  <2>3. Requests(first, {}) = {}
    BY <2>2 DEF Requests
  <2>4. SessionsSound(first)
    <3>1. 1 .. 0 = {}
      OBVIOUS
    <3> QED
      BY <2>2, <3>1 DEF SessionsSound
  <2>5. Tokens(first, {}, {}, FirstSenders(commits, 0), wallet)
    BY <2>2, <2>3, <2>4
      DEF Tokens, RequestsCurrent, SharesCurrent, ResponsiveCurrent
  <2>6. after[0] = {first}
    BY <1>3, <2>1 DEF PassesThrough
  <2> QED
    BY <2>2, <2>5, <2>6
<1>5. ASSUME NEW k \in Nat, k \in Good
      PROVE  k + 1 \in Good
  <2> SUFFICES ASSUME k + 1 <= n, NEW y \in after[k + 1]
               PROVE  /\ TablesInv(y) /\ y.active = {v}
                      /\ Tokens(y, {}, {}, FirstSenders(commits, k + 1), wallet)
    OBVIOUS
  <2>1. k \in 0 .. Len(commits) - 1 /\ k <= n /\ k + 1 \in 1 .. n
    BY <1>2
  <2>2. PICK x \in after[k] : y \in Handled(x, r, commits[k + 1])
    BY <1>3, <2>1 DEF PassesThrough
  <2>3. PICK heardBefore : heardBefore = FirstSenders(commits, k)
    OBVIOUS
  <2>4. TablesInv(x) /\ x.active = {v} /\ Tokens(x, {}, {}, heardBefore, wallet)
    BY <1>5, <2>1, <2>3
  <2>5. PICK m \in S : m = commits[k + 1]
    BY <1>1, <1>2, <2>1
  <2>6. m.sender \in Replica /\ m.nonce \in Nat /\ m.nonce # 0
        /\ wallet[m.sender] = m.nonce
    BY <2>5
  <2>7. y \in RECEIVE_SIG_SHARE(x, r, m.sender, NoShare, m.nonce)
    BY <2>2, <2>5 DEF Handled
  <2>8. TablesInv(y) /\ y.active = {v}
    BY <2>4, <2>6, <2>7, NoShareType, ReceiveKeepsTables
  <2>9. m.sender \notin heardBefore
    <3>1. ASSUME NEW j \in 1 .. k
          PROVE  commits[j].sender # m.sender
      <4>1. j \in 1 .. n /\ j # k + 1
        BY <2>1
      <4>2. commits[j] \in S /\ commits[j] # commits[k + 1]
        BY <1>1, <1>2, <2>1, <4>1
      <4> QED
        BY <2>5, <4>2
    <3> QED
      BY <2>3, <3>1 DEF FirstSenders
  <2>10. FirstSenders(commits, k + 1) = heardBefore \union {m.sender}
    <3>1. \A j : j \in 1 .. k + 1 <=> j \in 1 .. k \/ j = k + 1
      OBVIOUS
    <3> QED
      BY <2>3, <2>5, <3>1 DEF FirstSenders
  <2>11. x.sid[m.sender] = 0 /\ Free(x, {}, {}, m.sender)
    BY <2>4, <2>6, <2>9 DEF Tokens, Free, RequestsCurrent, AwaitedIn
  <2>12. Tokens(y, {}, {}, heardBefore \union {m.sender}, wallet)
    <3>1. Tables(x)
      BY <2>4 DEF TablesInv
    <3>2. PICK none : none = {}
      OBVIOUS
    <3> QED
      BY <2>4, <2>6, <2>7, <2>11, <3>1, <3>2, NoShareType, TokensReceive
  <2> QED
    BY <2>8, <2>10, <2>12
<1> HIDE DEF Good
<1>6. n \in Good
  BY <1>4, <1>5, SetInduction
<1>7. /\ TablesInv(new) /\ new.active = {v}
      /\ Tokens(new, {}, {}, FirstSenders(commits, n), wallet)
  BY <1>2, <1>3, <1>6 DEF Good, PassesThrough
<1>8. FirstSenders(commits, n) \subseteq heard
  BY <1>1, <1>2 DEF FirstSenders
<1>9. new.responsive \subseteq Replica
  BY <1>7 DEF TablesInv, Tables
<1>10. Tokens(new, {}, {}, heard, wallet)
  BY <1>7, <1>8, <1>9, TokensFewer
<1> QED
  BY <1>7, <1>10

\* ROAST_INIT: the coordinator begins with the COMMITs it has, which nobody
\* else has used.
LEMMA SigningInit ==
    ASSUME FirstViewOnce, SigningInv, NEW r \in Replica, RoastInit(r)
    PROVE  CommitOnce' /\ Signing'
<1>1. RoastInv /\ CommitOnce /\ Signing
  BY DEF SigningInv
<1>2. /\ Coordinator \in Replica /\ view[r] = 0 /\ 0 \in View
      /\ primary(view[r]) = Coordinator
  BY <1>1, OneCoordinator
<1>3. /\ msg_out_commit' = msg_out_commit /\ nonce' = nonce
      /\ msg_log_commit' = msg_log_commit
      /\ signature_shares' = signature_shares /\ checkpointed' = checkpointed
      /\ HeardSenders' = HeardSenders
  BY DEF RoastInit, agreement, progress, HeardSenders, Coordinator
<1>4. \A x \in msg_log_commit[Coordinator] :
        x \in msg_out_commit /\ x.sender \in Replica /\ x.nonce \in Nat
  BY <1>1, <1>2, LogOK DEF RoastInv
<1>5. CASE r # Coordinator
  <2>1. roast' = [roast EXCEPT ![r].active = {view[r]}]
        /\ pre_signatures' = pre_signatures
    BY <1>2, <1>5 DEF RoastInit
  <2>2. PICK new : new = [roast[r] EXCEPT !.active = {view[r]}]
    OBVIOUS
  <2>3. PICK A : A = {view[r]}
    OBVIOUS
  <2>4. new.session = roast[r].session
    <3>1. TablesInv(roast[r]) /\ view[r] \in View
      BY <1>1, <1>2 DEF RoastInv, RoastTablesOK
    <3> QED
      BY <2>2, <2>3, <3>1, ActiveTables
  <2>5. roast' = [roast EXCEPT ![r] = new]
    BY <2>1, <2>2
  <2>6. roast'[Coordinator] = roast[Coordinator]
        /\ \A i \in Replica \ {Coordinator} :
             roast'[i].session = roast[i].session
    BY <1>1, <1>2, <1>5, <2>4, <2>5 DEF RoastInv, RoastTablesOK
  <2>7. CommitOnce'
    BY <1>1, <1>3, <2>6 DEF CommitOnce, Coordinator
  <2>8. (NotBegun => NotBegun') /\ (GoingOn => GoingOn')
    BY <1>3, <2>1, <2>6 DEF NotBegun, GoingOn, Coordinator
  <2>9. Signing'
    BY <1>1, <1>3, <2>6, <2>8 DEF Signing, Coordinator
  <2> QED
    BY <2>7, <2>9
<1>6. CASE r = Coordinator
  <2>1. NotBegun /\ Coordinator \notin checkpointed
    BY <1>1, <1>6 DEF Signing, GoingOn, RoastInit, RoastInv, ProgressOK
  <2>2. roast[Coordinator].active = {} /\ pre_signatures = {}
        /\ signature_shares = {} /\ roast[Coordinator] = roast_collect_garbage
    BY <2>1, GarbageTables DEF NotBegun
  <2>3. PICK S : S = msg_log_commit[Coordinator]
    OBVIOUS
  <2>4. PICK commits \in SetToSeqs(S) :
          \E st \in InitTables(roast_collect_garbage, r, view[r], commits) :
            SetTables(r, st, {})
    BY <1>2, <1>6, <2>2, <2>3 DEF RoastInit
  <2>5. PICK st \in InitTables(roast_collect_garbage, r, view[r], commits) :
          SetTables(r, st, {})
    BY <2>4
  <2>6. IsFiniteSet(S)
    BY <1>1, <1>2, <2>3, LogOK DEF RoastInv
  <2>7. \A x \in S : /\ x.sender \in Replica /\ x.nonce \in Nat
                     /\ x.nonce # 0 /\ nonce[x.sender] = x.nonce
    BY <1>1, <1>4, <2>1, <2>2, <2>3 DEF CommitOnce
  <2>8. \A x, y \in S : x.sender = y.sender => x = y
    BY <1>1, <1>4, <2>3 DEF CommitOnce
  <2>9. \A x \in S : x.sender \in HeardSenders
    BY <2>3 DEF HeardSenders
  <2>10. /\ TablesInv(st) /\ st.active = {view[r]}
         /\ Tokens(st, {}, {}, HeardSenders, nonce)
    BY <1>2, <2>4, <2>5, <2>6, <2>7, <2>8, <2>9, TokensInit
  <2>11. /\ roast'[Coordinator].active = st.active
         /\ Tokens(roast'[Coordinator], pre_signatures', {}, HeardSenders, nonce)
         /\ \A i \in Replica \ {Coordinator} : roast'[i] = roast[i]
    BY <1>1, <1>2, <1>6, <2>5, <2>10, SignedOn
  <2>12. roast'[Coordinator].active # {}
    BY <2>10, <2>11
  <2>13. GoingOn'
    BY <1>3, <2>2, <2>11, <2>12 DEF GoingOn, Coordinator
  <2>14. Signing'
    BY <1>1, <1>3, <2>1, <2>11, <2>13 DEF Signing, Coordinator
  <2>15. \A x \in msg_out_commit : nonce[x.sender] = x.nonce
    BY <1>1, <2>1, <2>2 DEF CommitOnce
  <2>16. CommitOnce'
    BY <1>1, <1>3, <2>15 DEF CommitOnce
  <2> QED
    BY <2>14, <2>16
<1> QED
  BY <1>5, <1>6

\* A signer is asked; it answers with the nonce it is asked for.
LEMMA SigningRequested ==
    ASSUME FirstViewOnce, SigningInv, NEW r \in Replica,
           RoastReceivePreSignature(r)
    PROVE  CommitOnce' /\ Signing'
<1>1. RoastInv /\ CommitOnce /\ Signing
  BY DEF SigningInv
<1>2. /\ Coordinator \in Replica /\ Coordinators = {Coordinator}
      /\ ~(duplicates < MaxDuplicates)
  BY <1>1, OneCoordinator
<1>3. PICK m \in pre_signatures :
        /\ m.to = r
        /\ Deliver(m, pre_signatures)
        /\ IF roast[r].active = {}
           THEN UNCHANGED <<nonce, signature_shares>>
           ELSE /\ nonce' = [nonce EXCEPT ![r] = @ + 1]
                /\ signature_shares' = signature_shares \union
                     {[to |-> c,
                       share |-> [signer |-> r, presig |-> m.presig,
                                  nonce |-> nonce[r]],
                       next |-> nonce[r] + 1] : c \in Coordinators}
        /\ UNCHANGED <<agreement, roast, progress>>
  BY DEF RoastReceivePreSignature
<1>4. /\ msg_out_commit' = msg_out_commit /\ msg_log_commit' = msg_log_commit
      /\ roast' = roast /\ checkpointed' = checkpointed
      /\ HeardSenders' = HeardSenders
  BY <1>3 DEF agreement, progress, HeardSenders, Coordinator
<1>5. pre_signatures' = pre_signatures \ {m}
  BY <1>2, <1>3 DEF Deliver
<1>6. PICK x : x = [to |-> Coordinator,
                    share |-> [signer |-> r, presig |-> m.presig,
                               nonce |-> nonce[r]],
                    next |-> nonce[r] + 1]
  OBVIOUS
<1>7. \/ nonce' = nonce /\ signature_shares' = signature_shares
      \/ /\ nonce' = [nonce EXCEPT ![r] = @ + 1]
         /\ signature_shares' = signature_shares \union {x}
  BY <1>2, <1>3, <1>6
<1>8. CASE Coordinator \in checkpointed
  BY <1>1, <1>4, <1>8 DEF CommitOnce, Signing, Coordinator
<1>9. CASE Coordinator \notin checkpointed
  <2>1. GoingOn
    BY <1>1, <1>3, <1>9 DEF Signing, NotBegun
  <2>2. PICK st : st = roast[Coordinator]
    OBVIOUS
  <2>3. /\ Tokens(st, pre_signatures, signature_shares, HeardSenders, nonce)
        /\ st.active # {} /\ st.out = {} /\ st.responsive \subseteq Replica
    BY <1>1, <1>2, <2>1, <2>2
      DEF GoingOn, RoastInv, RoastTablesOK, TablesInv, Tables
  <2>4. r \in HeardSenders
    <3>1. m \in Requests(st, pre_signatures)
      BY DEF Requests
    <3>2. st.sid[r] # 0
      BY <1>3, <2>3, <3>1 DEF Tokens, RequestsCurrent, AwaitedIn
    <3> QED
      BY <2>3, <3>2 DEF Tokens
  <2>5. Tokens(st, pre_signatures', signature_shares', HeardSenders, nonce')
    <3>1. CASE nonce' = nonce /\ signature_shares' = signature_shares
      <4>1. pre_signatures' \subseteq pre_signatures
        BY <1>5
      <4> QED
        BY <2>3, <3>1, <4>1, TokensFewer
    <3>2. CASE /\ nonce' = [nonce EXCEPT ![r] = @ + 1]
               /\ signature_shares' = signature_shares \union {x}
      <4>1. nonce \in [Replica -> Nat] /\ pre_signatures \subseteq Request
        BY <1>1 DEF RoastInv, AgreementOK, NetworkOK
      <4>2. Tokens(st, pre_signatures \ {m}, signature_shares \union {x},
                   HeardSenders, nonce')
        BY <1>3, <1>6, <2>3, <3>2, <4>1, TokensSign
      <4> QED
        BY <1>5, <3>2, <4>2
    <3> QED
      BY <1>7, <3>1, <3>2
  <2>6. GoingOn'
    BY <1>4, <2>2, <2>3, <2>5 DEF GoingOn, Coordinator
  <2>7. Signing'
    BY <1>1, <1>4, <2>6 DEF Signing, Coordinator
  <2>8. ASSUME NEW y \in msg_out_commit
        PROVE  \/ st.active # {} /\ y \in msg_log_commit[Coordinator]
               \/ nonce'[y.sender] = y.nonce
    <3>1. CASE y.sender = r
      <4>1. PICK z \in msg_log_commit[Coordinator] : z.sender = r
        BY <2>4, HeardCommit
      <4>2. z \in msg_out_commit
        BY <1>1, <1>2 DEF RoastInv, AgreementOK
      <4> QED
        BY <1>1, <2>3, <3>1, <4>1, <4>2 DEF CommitOnce
    <3>2. CASE y.sender # r
      <4>1. y.sender \in Replica /\ nonce \in [Replica -> Nat]
        BY <1>1 DEF RoastInv, AgreementOK, CommitMessage
      <4>2. nonce'[y.sender] = nonce[y.sender]
        BY <1>7, <3>2, <4>1
      <4> QED
        BY <1>1, <1>9, <2>2, <4>2 DEF CommitOnce
    <3> QED
      BY <3>1, <3>2
  <2>9. CommitOnce'
    BY <1>1, <1>4, <2>2, <2>8 DEF CommitOnce, Coordinator
  <2> QED
    BY <2>7, <2>9
<1> QED
  BY <1>8, <1>9

\* No two shares of one signer are on their way.
LEMMA OneShare ==
    ASSUME NetworkOK, Coordinators = {Coordinator}, NEW st, NEW wallet,
           SharesCurrent(st, signature_shares, wallet),
           NEW m \in signature_shares, NEW y \in signature_shares,
           y.share.signer = m.share.signer
    PROVE  y = m
<1>1. /\ y.share.presig = m.share.presig /\ y.share.nonce = m.share.nonce
      /\ y.next = m.next
  BY DEF SharesCurrent, AwaitedIn
<1>2. /\ m = [to |-> m.to, share |-> m.share, next |-> m.next]
      /\ y = [to |-> y.to, share |-> y.share, next |-> y.next]
      /\ m.to = Coordinator /\ y.to = Coordinator
      /\ m.share \in Share /\ y.share \in Share
  BY DEF NetworkOK
<1>3. m.share = y.share
  <2>1. \A a, b \in Share : a.signer = b.signer /\ a.presig = b.presig
                              /\ a.nonce = b.nonce => a = b
    BY DEF Share
  <2> QED
    BY <1>1, <1>2, <2>1
<1> QED
  BY <1>1, <1>2, <1>3

\* The coordinator gets a share for the session its signer is in.
LEMMA SigningAnswered ==
    ASSUME FirstViewOnce, SigningInv, NEW r \in Replica,
           RoastReceiveSignatureShare(r)
    PROVE  CommitOnce' /\ Signing'
<1>1. RoastInv /\ CommitOnce /\ Signing
  BY DEF SigningInv
<1>2. /\ Coordinator \in Replica /\ Coordinators = {Coordinator}
      /\ ~(duplicates < MaxDuplicates)
  BY <1>1, OneCoordinator
<1>3. PICK m \in signature_shares :
        /\ m.to = r
        /\ Deliver(m, signature_shares)
        /\ \E st : /\ st = roast[r] \/ st \in RECEIVE_SIG_SHARE(roast[r], r,
                                           m.share.signer, m.share, m.next)
                   /\ SetTables(r, st, pre_signatures)
        /\ UNCHANGED <<agreement, nonce, progress, history>>
  BY DEF RoastReceiveSignatureShare
<1>4. /\ r = Coordinator /\ m.share \in Share /\ m.share.signer \in Replica
      /\ m.share \in SessionShare /\ m.next \in Nat
  <2>1. r = Coordinator /\ m.share \in Share /\ m.next \in Nat
    BY <1>1, <1>2, <1>3 DEF RoastInv, NetworkOK
  <2> QED
    BY <2>1, ShareType DEF Share
<1>5. PICK i \in Replica : i = m.share.signer
  BY <1>4
<1>6. PICK st : /\ st = roast[r] \/ st \in RECEIVE_SIG_SHARE(roast[r], r, i,
                                                             m.share, m.next)
                /\ SetTables(r, st, pre_signatures)
  BY <1>3, <1>5
<1>7. /\ msg_out_commit' = msg_out_commit /\ msg_log_commit' = msg_log_commit
      /\ nonce' = nonce /\ checkpointed' = checkpointed
      /\ HeardSenders' = HeardSenders
  BY <1>3 DEF agreement, progress, HeardSenders, Coordinator
<1>8. signature_shares' = signature_shares \ {m}
  BY <1>2, <1>3 DEF Deliver
<1>9. TablesInv(roast[r]) /\ TablesInv(st) /\ st.active = roast[r].active
  <2>1. TablesInv(roast[r])
    BY <1>1 DEF RoastInv, RoastTablesOK
  <2> QED
    BY <1>4, <1>6, <2>1, ReceiveKeepsTables
<1>10. /\ roast'[Coordinator].active = roast[Coordinator].active
       /\ \A j \in Replica \ {Coordinator} : roast'[j] = roast[j]
  <2>1. PICK new : new = [st EXCEPT !.out = {}]
    OBVIOUS
  <2>2. new.active = st.active
    BY <1>9, <2>1, SentTables
  <2>3. roast' = [roast EXCEPT ![r] = new]
    BY <1>6, <2>1 DEF SetTables
  <2> QED
    BY <1>1, <1>2, <1>4, <1>9, <2>2, <2>3 DEF RoastInv, RoastTablesOK
<1>11. CommitOnce'
  BY <1>1, <1>7, <1>10 DEF CommitOnce, Coordinator
<1>12. CASE Coordinator \in checkpointed
  <2>1. Signing'
    BY <1>1, <1>7, <1>10, <1>12 DEF Signing, Coordinator
  <2> QED
    BY <1>11, <2>1
<1>13. CASE Coordinator \notin checkpointed
  <2>1. GoingOn
    BY <1>1, <1>3, <1>13 DEF Signing, NotBegun
  <2>2. /\ Tokens(roast[r], pre_signatures, signature_shares, HeardSenders,
                  nonce)
        /\ Tables(roast[r]) /\ roast[r].responsive \subseteq Replica
    BY <1>4, <1>9, <2>1 DEF GoingOn, TablesInv, Tables
  <2>3. PICK others : others = signature_shares \ {m}
    OBVIOUS
  <2>4. Tokens(roast[r], pre_signatures, others, HeardSenders, nonce)
    <3>1. others \subseteq signature_shares
      BY <2>3
    <3> QED
      BY <2>2, <3>1, TokensFewer
  <2>5. /\ AwaitedIn(roast[r], i, m.share.presig)
        /\ m.share.signer = i /\ m.share.nonce = m.share.presig[i]
        /\ m.next = nonce[i] /\ m.next # 0
    BY <1>5, <2>2 DEF Tokens, SharesCurrent
  <2>6. Free(roast[r], pre_signatures, others, i)
    <3>1. \A y \in Requests(roast[r], pre_signatures) : y.to # i
      BY <1>5, <2>2 DEF Tokens
    <3>2. \A y \in others : y.share.signer # i
      <4>1. SharesCurrent(roast[r], signature_shares, nonce) /\ NetworkOK
        BY <1>1, <2>2 DEF Tokens, RoastInv
      <4> QED
        BY <1>2, <1>5, <2>3, <4>1, OneShare
    <3>3. i \notin roast[r].responsive
      BY <2>5 DEF AwaitedIn
    <3> QED
      BY <3>1, <3>2, <3>3 DEF Free
  <2>7. HeardSenders \union {i} = HeardSenders
    <3>1. i \in HeardSenders
      BY <2>2, <2>5 DEF Tokens, AwaitedIn
    <3> QED
      BY <3>1
  <2>8. Tokens(st, pre_signatures, others, HeardSenders, nonce)
    <3>1. CASE st = roast[r]
      BY <2>4, <3>1
    <3>2. CASE st \in RECEIVE_SIG_SHARE(roast[r], r, i, m.share, m.next)
      <4>1. Tokens(st, pre_signatures, others, HeardSenders \union {i}, nonce)
        BY <1>4, <2>2, <2>4, <2>5, <2>6, <3>2, TokensReceive
      <4> QED
        BY <2>7, <4>1
    <3> QED
      BY <1>6, <3>1, <3>2
  <2>9. Tokens(roast'[Coordinator], pre_signatures', others, HeardSenders, nonce)
    BY <1>1, <1>2, <1>4, <1>6, <1>9, <2>8, SignedOn
  <2>10. GoingOn'
    BY <1>7, <1>8, <1>10, <2>1, <2>3, <2>9 DEF GoingOn, Coordinator
  <2>11. Signing'
    BY <1>1, <1>7, <1>10, <2>10 DEF Signing, Coordinator
  <2> QED
    BY <1>11, <2>11
<1> QED
  BY <1>12, <1>13

\* Executing, crashing and receiving the block.
LEMMA SigningOthers ==
    ASSUME FirstViewOnce, SigningInv, NEW r \in Replica,
           Execute(r) \/ ReceiveBlock(r) \/ Crash(r)
    PROVE  CommitOnce' /\ Signing'
<1>1. RoastInv /\ CommitOnce /\ Signing /\ Coordinator \in Replica
  BY OneCoordinator DEF SigningInv
<1>2. CASE Execute(r) \/ Crash(r)
  <2>1. /\ msg_out_commit' = msg_out_commit /\ msg_log_commit' = msg_log_commit
        /\ nonce' = nonce /\ roast' = roast /\ checkpointed' = checkpointed
        /\ pre_signatures' = pre_signatures
        /\ signature_shares' = signature_shares
    BY <1>2 DEF Execute, Crash, agreement, network
  <2> QED
    BY <1>1, <2>1
      DEF CommitOnce, Signing, NotBegun, GoingOn, HeardSenders, Coordinator
<1>3. CASE ReceiveBlock(r)
  <2>1. /\ msg_out_commit' = msg_out_commit /\ nonce' = nonce
        /\ checkpointed' = checkpointed \union {r}
        /\ pre_signatures' = pre_signatures
        /\ signature_shares' = signature_shares
    BY <1>3 DEF ReceiveBlock, network
  <2>2. /\ \A i \in Replica \ {r} : roast'[i] = roast[i]
                                    /\ msg_log_commit'[i] = msg_log_commit[i]
        /\ roast'[r] = roast_collect_garbage
    BY <1>1, <1>3 DEF ReceiveBlock, RoastInv, RoastTablesOK, AgreementOK
  <2>3. \A x \in msg_out_commit : x.sender \in Replica
    BY <1>1 DEF RoastInv, AgreementOK, CommitMessage
  <2>4. CASE r = Coordinator
    <3>1. CommitOnce'
      BY <1>1, <2>1, <2>2, <2>3, <2>4 DEF CommitOnce, Coordinator
    <3>2. Signing'
      BY <1>1, <2>1, <2>2, <2>4, GarbageTables DEF Signing, Coordinator
    <3> QED
      BY <3>1, <3>2
  <2>5. CASE r # Coordinator
    <3>1. /\ roast'[Coordinator] = roast[Coordinator]
          /\ msg_log_commit'[Coordinator] = msg_log_commit[Coordinator]
      BY <1>1, <2>2, <2>5
    <3>2. HeardSenders' = HeardSenders
      BY <3>1 DEF HeardSenders, Coordinator
    <3>3. \A x \in msg_out_commit :
            x.sender \in checkpointed' \/ x \in msg_log_commit'[x.sender]
      BY <1>1, <2>1, <2>2, <2>3 DEF CommitOnce
    <3>4. CommitOnce'
      BY <1>1, <2>1, <3>1, <3>3 DEF CommitOnce, Coordinator
    <3>5. (NotBegun => NotBegun') /\ (GoingOn => GoingOn')
      BY <2>1, <3>1, <3>2 DEF NotBegun, GoingOn, Coordinator
    <3>6. \A i \in Replica \ {Coordinator} : DOMAIN roast'[i].session = {}
      BY <1>1, <2>2, GarbageTables DEF Signing
    <3>7. Signing'
      BY <1>1, <2>1, <2>5, <3>1, <3>5, <3>6 DEF Signing, Coordinator
    <3> QED
      BY <3>4, <3>7
  <2> QED
    BY <2>4, <2>5
<1> QED
  BY <1>2, <1>3

\* Each step keeps each signer in one place.
LEMMA SigningStep ==
    ASSUME FirstViewOnce, SigningInv, [Next]_vars
    PROVE  SigningInv'
<1>1. RoastInv /\ CommitOnce /\ Signing
  BY DEF SigningInv
<1>2. RoastInv'
  BY <1>1, RoastStep
<1>3. CASE UNCHANGED vars
  BY <1>1, <1>2, <1>3 DEF vars, agreement, network, progress, history,
    SigningInv, CommitOnce, Signing, NotBegun, GoingOn, HeardSenders, Coordinator
<1>4. CASE Next
  <2>1. PICK r \in Replica : Step(r) \/ SendViewChange(r) \/ Crash(r)
    BY <1>4 DEF Next, alive
  <2>2. ~SendViewChange(r)
    BY <1>1, OneCoordinator DEF SendViewChange, FirstViewOnce
  <2>3. CommitOnce' /\ Signing'
    BY <2>1, <2>2, SigningSendCommit, SigningReceiveCommit, SigningInit,
      SigningRequested, SigningAnswered, SigningOthers DEF Step
  <2> QED
    BY <1>2, <2>3 DEF SigningInv
<1> QED
  BY <1>3, <1>4

\* In the first view, with each message delivered once, a final session always
\* aggregates: apply_RECEIVE_SIG_SHARE stops collecting only when FinalizeBlock
\* can sign, in any cluster, whatever the order of COMMITs, requests and shares
\* and whoever stops.  Later views and repeated messages are excluded because
\* there the code does not have the property.
THEOREM FinalSessionSoundHolds == FirstViewOnce /\ Spec => []FinalSessionSound
<1> SUFFICES ASSUME FirstViewOnce
             PROVE  Spec => []FinalSessionSound
  OBVIOUS
<1>1. SigningInv => FinalSessionSound
  <2> SUFFICES ASSUME SigningInv, NEW r \in Replica,
                      NEW s \in roast_final_signature_session(roast[r])
               PROVE  Aggregates(roast[r].session[s])
    BY DEF FinalSessionSound
  <2>1. RoastInv /\ Signing
    BY DEF SigningInv
  <2>2. /\ s \in DOMAIN roast[r].session /\ roast[r].active # {}
        /\ Len(roast[r].session[s].shares) = sig_quorum
    BY DEF roast_final_signature_session
  <2>3. r = Coordinator
    BY <2>1, <2>2 DEF Signing
  <2>4. GoingOn
    BY <2>1, <2>2, <2>3, GarbageTables DEF Signing, NotBegun
  <2>5. SoundSession(roast[r].session[s])
    BY <2>2, <2>3, <2>4 DEF GoingOn, Tokens, SessionsSound
  <2>6. roast[r].session[s] \in Session
    BY <2>1, <2>2 DEF RoastInv, RoastTablesOK, TablesInv, Tables
  <2> QED
    BY <2>2, <2>5, <2>6, SoundAggregates
<1>2. SigningInv /\ [Next]_vars => SigningInv'
  BY SigningStep
<1> QED
  BY <1>1, <1>2, SigningInitially, PTL DEF Spec
=============================================================================
