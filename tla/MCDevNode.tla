----------------------------- MODULE MCDevNode -----------------------------
(***************************************************************************)
(* The instance of DevNode for TLC: a client that signs a few transactions *)
(* with whatever nonces, an era of one block so that parked transactions   *)
(* do expire, and blocks too small for the queue.                            *)
(***************************************************************************)
EXTENDS DevNode
=============================================================================
