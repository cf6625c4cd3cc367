--------------------------- MODULE MCWorldSocket ---------------------------
(***************************************************************************)
(* Instances of WorldSocket for TLC.  65531 bytes is the largest payload   *)
(* whose size, with the four bytes of the opcode, fits in sixteen bits.    *)
(***************************************************************************)
EXTENDS WorldSocket

FittingPayloads == {0, 65531, 65536}

=============================================================================
