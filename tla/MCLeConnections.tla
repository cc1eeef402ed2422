-------------------------- MODULE MCLeConnections --------------------------
(***************************************************************************)
(* Small instances of LeConnections.                                       *)
(***************************************************************************)
EXTENDS LeConnections, TLC

PeerSymmetry == Permutations(Address)

LeFirst == <<"le", "scanner">>
ScannerFirst == <<"scanner", "le">>
=============================================================================
