---------------------------- MODULE MCAssembler ----------------------------
(* Small instances of Assembler. *)
EXTENDS Assembler
=============================================================================
