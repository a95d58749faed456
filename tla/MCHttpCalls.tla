---------------------------- MODULE MCHttpCalls ----------------------------
(* Instances of HttpCalls: three requests about a call that is dialled, or *)
(* about one that comes in, with repetitions and a call in the way.        *)
EXTENDS HttpCalls

CONSTANTS r1, r2, r3, out, in, k1, k2

Ask(o, k, c) == [op |-> o, key |-> k, call |-> c]
Three(a, b, c) == [r \in Requests |-> IF r = r1 THEN a ELSE IF r = r2 THEN b ELSE c]

MCTraffic ==
    {Three(Ask("dial", k1, out), Ask("hangup", k2, out), Ask("dial", k1, out)),
     Three(Ask("answer", k1, in), Ask("hangup", k2, in), Ask("answer", k1, in)),
     Three(Ask("hangup", k1, in), Ask("offer", k2, in), Ask("hangup", k1, in)),
     Three(Ask("record", k1, in), Ask("delete", k2, in), Ask("record", k1, in)),
     Three(Ask("dtmf", k1, in), Ask("unrecord", k2, in), Ask("dtmf", k1, in))}
=============================================================================
