------------------------------ MODULE MCInodes ------------------------------
(* An instance of Inodes: inodes of three bytes in sectors of four, so     *)
(* that some cross a boundary, and numbers of one bit.                     *)
EXTENDS Inodes
=============================================================================
