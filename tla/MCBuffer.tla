------------------------------ MODULE MCBuffer ------------------------------
(* Two small buffers for TLC, in which every order of line ends can arise. *)
EXTENDS Buffer, TLC

CONSTANT Letter

MCByte == {Letter, CR, LF}
MCData == {<<>>, <<CR>>, <<LF, Letter>>}
Symmetry == Permutations(Buf)
=============================================================================
