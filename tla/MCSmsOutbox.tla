----------------------------- MODULE MCSmsOutbox -----------------------------
(* Instances of SmsOutbox: a request, its repetition and a request of      *)
(* another key; or a request and a MESSAGE that is received twice.         *)
EXTENDS SmsOutbox

CONSTANTS r1, r2, r3, k1, k2, s1

MCTraffic == {[r \in Requests |-> IF r = r3 THEN k2 ELSE k1],
              [r \in Requests |-> IF r = r3 THEN k1 ELSE s1]}
=============================================================================
