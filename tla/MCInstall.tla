----------------------------- MODULE MCInstall ------------------------------
(* Instances of Install.                                                   *)
EXTENDS Install, TLC

AllKinds == {"sing-box", "xray", "xray-mips", "mihomo", "naive", "self"}
Symm == Permutations(Proc)
=============================================================================
