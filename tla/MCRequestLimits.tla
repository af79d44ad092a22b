-------------------------- MODULE MCRequestLimits --------------------------
(* Lengths on both sides of every limit, and the largest usize. *)
EXTENDS RequestLimits

MCLengths == 0 .. 8 \cup {MaxUsize}
=============================================================================
