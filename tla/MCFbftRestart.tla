---------------------------- MODULE MCFbftRestart -----------------------------
(* Small clusters of FbftRestart for TLC.                                   *)
EXTENDS FbftRestart, MCFbft
=============================================================================
