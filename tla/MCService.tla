----------------------------- MODULE MCService ------------------------------
(* Instances of Service.                                                   *)
EXTENDS Service, TLC

AllCommands == {"start", "stop", "restart"}
StartOnly == {"start"}
Symm == Permutations(Peer)
=============================================================================
