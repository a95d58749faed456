----------------------------- MODULE MCSmsInbox -----------------------------
(* An instance of SmsInbox: a text of one part, a text of two parts and a  *)
(* PDU that does not decode, over a storage of two or three slots.         *)
EXTENDS SmsInbox

CONSTANTS a, b1, b2, x, short, long, noise

MCTextOf == [p \in Parts |-> CASE p = a -> short [] p \in {b1, b2} -> long [] OTHER -> noise]
=============================================================================
