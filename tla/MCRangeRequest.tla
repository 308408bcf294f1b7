--------------------------- MODULE MCRangeRequest ---------------------------
(***************************************************************************)
(* RangeRequest over every field made of the numbers below, files up to    *)
(* the largest size included, and numbers larger than off_t can hold.      *)
(***************************************************************************)
EXTENDS RangeRequest

MCOffMax == 7
MCNumbers == {Absent, 0, 1, 2, 3, 6, 7, 9}
MCRequestFields ==
  [first : MCNumbers, hyphen : BOOLEAN, last : MCNumbers,
   tail : {"end", "comma", "other"}]
MCSizes == {0, 1, 3, 6, 7}
=============================================================================
