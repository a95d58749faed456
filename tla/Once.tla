-------------------------------- MODULE Once --------------------------------
(***************************************************************************)
(* What an Idempotency-Key promises a client of the HTTP API: the          *)
(* operation named by the key is begun at most once, never after the key   *)
(* has been answered, and the answer, once given, stays.                   *)
(***************************************************************************)
EXTENDS Naturals

CONSTANTS Keys,        \* the keys clients choose
          Answers,     \* the recorded answers
          NoAnswer

VARIABLES claimed,     \* the keys of which a request has been taken up
          begun,       \* how often the operation of each key was begun
          answer       \* the answer on record for each key

onceVars == <<claimed, begun, answer>>

OnceInit ==
    /\ claimed = {}
    /\ begun = [k \in Keys |-> 0]
    /\ answer = [k \in Keys |-> NoAnswer]

Claim == \E k \in Keys \ claimed :
    /\ claimed' = claimed \union {k}
    /\ UNCHANGED <<begun, answer>>

Begin == \E k \in claimed :
    /\ begun[k] = 0 /\ answer[k] = NoAnswer
    /\ begun' = [begun EXCEPT ![k] = 1]
    /\ UNCHANGED <<claimed, answer>>

Answer == \E k \in claimed, a \in Answers :
    /\ answer[k] = NoAnswer
    /\ answer' = [answer EXCEPT ![k] = a]
    /\ UNCHANGED <<claimed, begun>>

OnceNext == Claim \/ Begin \/ Answer

OnceSpec == OnceInit /\ [][OnceNext]_onceVars
=============================================================================
