-------------------------------- MODULE MCFbft --------------------------------
(* Small clusters of FbftEngine for TLC.                                    *)
EXTENDS FbftSafety

\* Every node is at the genesis block.
GenesisStart == [r \in Replica |-> 0]

\* The node of the last replica is one block behind the others.
LaggingStart == [r \in Replica |-> IF r = ClusterSize - 1 THEN 0 ELSE 1]

\* A new database at every replica.
FirstView == [r \in Replica |-> 0]

\* The last replica was down when the others changed to view 1.
LastOneViewBehind == [r \in Replica |-> IF r = ClusterSize - 1 THEN 0 ELSE 1]
=============================================================================
