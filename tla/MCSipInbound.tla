---------------------------- MODULE MCSipInbound ----------------------------
(* Symmetry for SipInbound. *)
EXTENDS SipInbound, TLC

ContactSymmetry == Permutations(Contacts)
=============================================================================
