--------------------------- MODULE MCFileMutation ---------------------------
(***************************************************************************)
(* A small instance of FileMutation for TLC: two writes and a mkdir that   *)
(* meet at one path.                                                       *)
(***************************************************************************)
EXTENDS FileMutation, TLC

CONSTANTS w1, w2, d, p

Target == w1 :> p @@ w2 :> p @@ d :> p
=============================================================================
