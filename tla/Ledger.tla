-------------------------------- MODULE Ledger --------------------------------
(***************************************************************************)
(* What the cluster promises its users: one chain of blocks that only       *)
(* grows, one block at a time, each at the next height and for the next     *)
(* period of the schedule.  The test double DummyBlockchain::SubmitBlock    *)
(* enforces the same contract: it throws on a second block at a height      *)
(* ("double spending") and on a height beyond the next one.                 *)
(***************************************************************************)
EXTENDS Integers

CONSTANT GenesisChain       \* the blocks that exist before the first step

VARIABLE blocks

Height == CHOOSE n \in {b.n : b \in blocks} : \A b \in blocks : b.n <= n

Init == blocks = GenesisChain

SubmitBlock(b) ==
    /\ b.n = Height + 1
    /\ b.t = b.n
    /\ blocks' = blocks \union {b}

Next == \E b \in blocks' \ blocks : SubmitBlock(b)

Spec == Init /\ [][Next]_blocks
=============================================================================
