----------------------------- MODULE FbftMessages -----------------------------
(***************************************************************************)
(* The vocabulary of the FBFT replicas: the cluster, its quorums, and the   *)
(* messages the replicas exchange (src/src/fbft/messages).                  *)
(*                                                                          *)
(* Abstractions.  A request is one block slot of the schedule, and time is  *)
(* counted in block periods after the genesis block, so the digest of a     *)
(* request, "(H=.., T=..)", is its timestamp.  A block is identified by its *)
(* height, its timestamp, the view it was generated in and a tag that tells *)
(* apart two blocks generated for the same slot; the block stands for its   *)
(* own hash.  The digest of a VIEW_CHANGE is the message itself.  Message   *)
(* signatures are not modelled: a message carries the sender that signed    *)
(* it, and a replica only accepts messages that were really sent.           *)
(***************************************************************************)
EXTENDS Integers, FiniteSets

CONSTANT ClusterSize      \* number of replicas in the miner configuration

ASSUME ClusterSizeAssumption == ClusterSize \in Nat \ {0}

Replica == 0 .. ClusterSize - 1

\* Number of faulty replicas tolerated: floor((cluster_size - 1) / 3).
F == (ClusterSize - 1) \div 3

\* Fault variant: the primary is counted apart here too.
quorum_OneShort == 2 * F

\* The Byzantine quorum, the quorum of PREPAREs (the primary's PRE_PREPARE is
\* counted apart) and the number of signature shares of a final block.
quorum == 2 * F + 1
quorum_prepare == quorum - 1
sig_quorum == F + 1

primary(v) == v % ClusterSize

-----------------------------------------------------------------------------
Block == [n : Nat, t : Nat, v : Nat, tag : Nat]

\* The blocks that are in the chain before the first step carry tag 0.
ChainBlock(n) == [n |-> n, t |-> n, v |-> 0, tag |-> 0]

PrePrepare == [v : Nat, n : Nat, d : Nat, b : Block, sender : Replica]
Prepare    == [v : Nat, n : Nat, d : Nat, sender : Replica]

\* A COMMIT names no request: its data is the sender's ROAST pre-signature
\* share, drawn anew for each COMMIT.  RECOVER_VIEW keeps no data.
Commit     == [v : Nat, n : Nat, data : Nat, sender : Replica]
RecoveryCommit == [v : Nat, n : Nat, sender : Replica]

\* The elements [N, Req_digest, V] of Pi and [N, Req_digest, Block, V] of Qi.
PiEntry    == [n : Nat, d : Nat, v : Nat]
QiEntry    == [n : Nat, d : Nat, b : Block, v : Nat]

\* h is the low watermark Hi, c the block hash of that checkpoint.
ViewChange == [v : Nat, h : Nat, c : Block,
               P : SUBSET PiEntry, Q : SUBSET QiEntry, sender : Replica]

\* Chi: the PRE_PREPAREs that a NEW_VIEW carries into its view.
ChiEntry   == [n : Nat, d : Nat, b : Block]
NewView    == [v : Nat, Nu : SUBSET ViewChange, Chi : SUBSET ChiEntry,
               sender : Replica]

\* ROAST_PRE_SIGNATURE and ROAST_SIGNATURE_SHARE carry neither view nor
\* sequence number; a share is a signature of one block.
RoastPreSignature   == [sender : Replica]
RoastSignatureShare == [b : Block, sender : Replica]
=============================================================================
