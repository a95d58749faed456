--------------------------- MODULE HttpCallsProofs ---------------------------
(***************************************************************************)
(* Proofs about HttpCalls, for any requests, calls and keys, and any       *)
(* number of rings, media changes and failures: an Idempotency-Key keeps   *)
(* the promise of Once, the controller holds no ghost call, and a hang-up  *)
(* never reopens the row of an ended call.                                 *)
(***************************************************************************)
EXTENDS HttpCalls, FiniteSetTheorems, SequenceTheorems, TLAPS

\* The type invariant, part by part.
WorkTypes ==
    /\ pc \in [Requests -> Stages]
    /\ snap \in [Requests -> {"open", "ended"}]
    /\ code \in [Requests -> {"ok", "error"}]
CtlTypes ==
    ctl \in [call : Calls \union {NoCall}, phase : Live \union {"idle", "ending", "ended"},
             saved : Live \union {"idle"}, by : Requests \union {"nobody"}]
LineTypes ==
    /\ line \in Calls \union {NoCall}
    /\ events \in Seq([kind : {"incoming", "ended"}, call : Calls])
    /\ reader \in [at : {"idle", "rung", "ended", "finish", "gone", "close"},
                   call : Calls \union {NoCall}, snap : {"open", "ended"}]
    /\ rolled \subseteq Calls
CallTypes ==
    /\ row \in [Calls -> {"none", "open", "ended"}]
    /\ media \subseteq Calls /\ rec \subseteq Calls /\ late \subseteq Calls
    /\ peer \in [Calls -> {"quiet", "ready", "lost", "close"}]
KeyTypes ==
    /\ key \in [Keys -> {"none", "pending", "ok", "error"}]
    /\ begun \in [Keys -> Nat]
BoundTypes == rung \subseteq Calls /\ medias \in 0..MaxMedia /\ faults \in 0..MaxFaults

\* The types, what the requests are, and that few of their clients are gone.
BaseInv ==
    /\ req \in Traffic /\ req \in [Requests -> [op : Ops, key : Keys, call : Calls]]
    /\ gone \subseteq Requests /\ IsFiniteSet(gone)
    /\ WorkTypes /\ CtlTypes /\ LineTypes /\ CallTypes /\ KeyTypes /\ BoundTypes

\* The stages at which its operation is still to begin.
Starts == {"place", "control", "tone", "session", "find"}

\* At most one request is at work for each key, which has no answer yet; the
\* operation of a key is begun only by the request that took it up.
KeyInv ==
    /\ \A q, r \in Requests : Taken(q) /\ Taken(r) /\ req[q].key = req[r].key => q = r
    /\ \A r \in Requests : Taken(r) => key[req[r].key] = "pending"
    /\ \A r \in Requests : Taken(r) /\ pc[r] \in Starts => begun[req[r].key] = 0
    /\ \A k \in Keys : key[k] = "none" => begun[k] = 0

-----------------------------------------------------------------------------
(* Types.                                                                  *)

LEMMA InitBase == HttpInit => BaseInv /\ KeyInv
<1> SUFFICES ASSUME HttpInit PROVE BaseInv /\ KeyInv
  OBVIOUS
<1>1. req \in [Requests -> [op : Ops, key : Keys, call : Calls]]
  BY HttpAssumption DEF HttpInit
<1>2. WorkTypes /\ CtlTypes /\ LineTypes /\ CallTypes /\ KeyTypes /\ BoundTypes
  BY <1>1, HttpAssumption DEF HttpInit, WorkTypes, CtlTypes, LineTypes, CallTypes, KeyTypes, BoundTypes,
     Idle, Stages, Live, Op
<1>3. req \in Traffic /\ gone \subseteq Requests /\ IsFiniteSet(gone)
  BY FS_EmptySet DEF HttpInit
<1>4. KeyInv
  BY <1>1, <1>2 DEF HttpInit, KeyInv, Taken, WorkTypes, Op
<1> QED BY <1>1, <1>2, <1>3, <1>4 DEF BaseInv

LEMMA RequestTyped == ASSUME BaseInv, NEW r \in Requests
                      PROVE  Call(r) \in Calls /\ req[r].key \in Keys /\ Op(r) \in Ops /\ NoCall \notin Calls
BY HttpAssumption DEF BaseInv, Call, Op

LEMMA FaultsTyped == ASSUME BaseInv, DbWorks \/ DbBreaks \/ \E r \in Requests : Works(r) \/ Fails(r)
                     PROVE  faults' \in 0..MaxFaults
<1>1. Cardinality(gone) \in Nat
  BY FS_CardinalityType DEF BaseInv
<1> QED BY <1>1, HttpAssumption DEF BaseInv, BoundTypes, DbWorks, DbBreaks, MoreFaults, Works, Fails

LEMMA PublishTyped == ASSUME LineTypes, NEW k \in {"incoming", "ended"}, NEW c \in Calls, Publish(k, c)
                      PROVE  events' \in Seq([kind : {"incoming", "ended"}, call : Calls])
<1>1. [kind |-> k, call |-> c] \in [kind : {"incoming", "ended"}, call : Calls]
  OBVIOUS
<1> QED BY <1>1 DEF LineTypes, Publish

LEMMA HangUpTyped == ASSUME LineTypes, HangUpWorks \/ HangUpFails
                     PROVE  /\ line' \in Calls \union {NoCall}
                            /\ events' \in Seq([kind : {"incoming", "ended"}, call : Calls])
<1>1. CASE HangUpWorks
  <2>1. line \in Calls /\ Publish("ended", line)
    BY <1>1 DEF HangUpWorks, LineTypes
  <2> QED BY <1>1, <2>1, PublishTyped DEF HangUpWorks
<1> QED BY <1>1 DEF HangUpFails, LineTypes

LEMMA WorkTyped == ASSUME BaseInv, NEW r \in Requests, Work(r) PROVE BaseInv'
<1> USE DEF lineVars, callVars, keyVars, bounds
<1>0. WorkTypes /\ CtlTypes /\ LineTypes /\ CallTypes /\ KeyTypes /\ BoundTypes
  BY DEF BaseInv
<1>1. CASE Claim(r)
  <2>1. WorkTypes'
    BY <1>0, <1>1, RequestTyped DEF Claim, WorkTypes, Goto, Reply, Keep, Stages
  <2>2. KeyTypes'
    BY <1>0, <1>1, RequestTyped DEF Claim, KeyTypes, WorkTypes, Begin
  <2>3. BoundTypes'
    BY <1>0, <1>1, RequestTyped, FaultsTyped DEF Claim, BoundTypes
  <2>4. UNCHANGED <<req, gone>> /\ CtlTypes' /\ LineTypes' /\ CallTypes'
    BY <1>0, <1>1 DEF Claim, Keep, Reply, Goto, CtlTypes, LineTypes, CallTypes
  <2> QED BY <2>1, <2>2, <2>3, <2>4 DEF BaseInv
<1>2. CASE Answer(r)
  <2>1. WorkTypes'
    BY <1>0, <1>2, RequestTyped DEF Answer, WorkTypes, Goto, Reply, Keep, Stages
  <2>2. KeyTypes'
    BY <1>0, <1>2, RequestTyped DEF Answer, KeyTypes, WorkTypes, Begin
  <2>3. BoundTypes'
    BY <1>0, <1>2, RequestTyped, FaultsTyped DEF Answer, BoundTypes
  <2>4. UNCHANGED <<req, gone>> /\ CtlTypes' /\ LineTypes' /\ CallTypes'
    BY <1>0, <1>2 DEF Answer, Keep, Reply, Goto, CtlTypes, LineTypes, CallTypes
  <2> QED BY <2>1, <2>2, <2>3, <2>4 DEF BaseInv
<1>3. CASE Persist(r)
  <2>1. WorkTypes'
    BY <1>0, <1>3, RequestTyped DEF Persist, WorkTypes, Goto, Reply, Keep, Stages
  <2>2. CallTypes'
    BY <1>0, <1>3, RequestTyped DEF Persist, CallTypes, WorkTypes, Save, Late
  <2>3. BoundTypes'
    BY <1>0, <1>3, RequestTyped, FaultsTyped DEF Persist, BoundTypes
  <2>4. UNCHANGED <<req, gone>> /\ CtlTypes' /\ LineTypes' /\ KeyTypes'
    BY <1>0, <1>3 DEF Persist, Keep, Reply, Goto, CtlTypes, LineTypes, KeyTypes
  <2> QED BY <2>1, <2>2, <2>3, <2>4 DEF BaseInv
<1>4. CASE Ready(r)
  <2>1. WorkTypes'
    BY <1>0, <1>4, RequestTyped DEF Ready, WorkTypes, Goto, Reply, Keep, Stages
  <2>2. CtlTypes'
    BY <1>0, <1>4, RequestTyped DEF Ready, CtlTypes, Move, Holds, Finished, Idle, Live
  <2>3. UNCHANGED <<req, gone>> /\ LineTypes' /\ CallTypes' /\ KeyTypes' /\ BoundTypes'
    BY <1>0, <1>4 DEF Ready, Keep, Reply, Goto, LineTypes, CallTypes, KeyTypes, BoundTypes
  <2> QED BY <2>1, <2>2, <2>3 DEF BaseInv
<1>5. CASE Place(r)
  <2>1. WorkTypes'
    BY <1>0, <1>5, RequestTyped DEF Place, WorkTypes, Goto, Reply, Keep, Stages
  <2>2. CtlTypes'
    BY <1>0, <1>5, RequestTyped DEF Place, CtlTypes, Move, Holds, Finished, Idle, Live
  <2>3. KeyTypes'
    BY <1>0, <1>5, RequestTyped DEF Place, KeyTypes, WorkTypes, Begin
  <2>4. UNCHANGED <<req, gone>> /\ LineTypes' /\ CallTypes' /\ BoundTypes'
    BY <1>0, <1>5 DEF Place, Keep, Reply, Goto, LineTypes, CallTypes, BoundTypes
  <2> QED BY <2>1, <2>2, <2>3, <2>4 DEF BaseInv
<1>6. CASE Dial(r)
  <2>1. WorkTypes'
    BY <1>0, <1>6, RequestTyped DEF Dial, WorkTypes, Goto, Reply, Keep, Stages
  <2>2. LineTypes'
    BY <1>0, <1>6, RequestTyped DEF Dial, LineTypes, HangUpFails
  <2>3. UNCHANGED <<req, gone>> /\ CtlTypes' /\ CallTypes' /\ KeyTypes' /\ BoundTypes'
    BY <1>0, <1>6 DEF Dial, Keep, Reply, Goto, CtlTypes, CallTypes, KeyTypes, BoundTypes
  <2> QED BY <2>1, <2>2, <2>3 DEF BaseInv
<1>7. CASE Clean(r)
  <2>1. WorkTypes'
    BY <1>0, <1>7, RequestTyped DEF Clean, WorkTypes, Goto, Reply, Keep, Stages
  <2>2. LineTypes'
    BY <1>0, <1>7, RequestTyped, HangUpTyped DEF Clean, LineTypes
  <2>3. UNCHANGED <<req, gone>> /\ CtlTypes' /\ CallTypes' /\ KeyTypes' /\ BoundTypes'
    BY <1>0, <1>7 DEF Clean, Keep, Reply, Goto, CtlTypes, CallTypes, KeyTypes, BoundTypes
  <2> QED BY <2>1, <2>2, <2>3 DEF BaseInv
<1>8. CASE Abort(r)
  <2>1. WorkTypes'
    BY <1>0, <1>8, RequestTyped DEF Abort, WorkTypes, Goto, Reply, Keep, Stages
  <2>2. CtlTypes'
    BY <1>0, <1>8, RequestTyped DEF Abort, CtlTypes, Move, Holds, Finished, Idle, Live
  <2>3. UNCHANGED <<req, gone>> /\ LineTypes' /\ CallTypes' /\ KeyTypes' /\ BoundTypes'
    BY <1>0, <1>8 DEF Abort, Keep, Reply, Goto, LineTypes, CallTypes, KeyTypes, BoundTypes
  <2> QED BY <2>1, <2>2, <2>3 DEF BaseInv
<1>9. CASE Drop(r)
  <2>1. WorkTypes'
    BY <1>0, <1>9, RequestTyped DEF Drop, WorkTypes, Goto, Reply, Keep, Stages
  <2>2. CtlTypes'
    BY <1>0, <1>9, RequestTyped DEF Drop, CtlTypes, Move, Holds, Finished, Idle, Live
  <2>3. UNCHANGED <<req, gone>> /\ LineTypes' /\ CallTypes' /\ KeyTypes' /\ BoundTypes'
    BY <1>0, <1>9 DEF Drop, Keep, Reply, Goto, LineTypes, CallTypes, KeyTypes, BoundTypes
  <2> QED BY <2>1, <2>2, <2>3 DEF BaseInv
<1>10. CASE Forget(r)
  <2>1. WorkTypes'
    BY <1>0, <1>10, RequestTyped DEF Forget, WorkTypes, Goto, Reply, Keep, Stages
  <2>2. CtlTypes'
    BY <1>0, <1>10, RequestTyped DEF Forget, CtlTypes, Move, Holds, Finished, Idle, Live
  <2>3. UNCHANGED <<req, gone>> /\ LineTypes' /\ CallTypes' /\ KeyTypes' /\ BoundTypes'
    BY <1>0, <1>10 DEF Forget, Keep, Reply, Goto, LineTypes, CallTypes, KeyTypes, BoundTypes
  <2> QED BY <2>1, <2>2, <2>3 DEF BaseInv
<1>11. CASE Control(r)
  <2>1. WorkTypes'
    BY <1>0, <1>11, RequestTyped DEF Control, WorkTypes, Goto, Reply, Keep, Stages
  <2>2. CtlTypes'
    BY <1>0, <1>11, RequestTyped DEF Control, CtlTypes, Move, Holds, Finished, Idle, Live
  <2>3. KeyTypes'
    BY <1>0, <1>11, RequestTyped DEF Control, KeyTypes, WorkTypes, Begin
  <2>4. UNCHANGED <<req, gone>> /\ LineTypes' /\ CallTypes' /\ BoundTypes'
    BY <1>0, <1>11 DEF Control, Keep, Reply, Goto, LineTypes, CallTypes, BoundTypes
  <2> QED BY <2>1, <2>2, <2>3, <2>4 DEF BaseInv
<1>12. CASE Modem(r)
  <2>1. WorkTypes'
    BY <1>0, <1>12, RequestTyped DEF Modem, WorkTypes, Goto, Reply, Keep, Stages
  <2>2. LineTypes'
    BY <1>0, <1>12, RequestTyped, HangUpTyped DEF Modem, LineTypes
  <2>3. UNCHANGED <<req, gone>> /\ CtlTypes' /\ CallTypes' /\ KeyTypes' /\ BoundTypes'
    BY <1>0, <1>12 DEF Modem, Keep, Reply, Goto, CtlTypes, CallTypes, KeyTypes, BoundTypes
  <2> QED BY <2>1, <2>2, <2>3 DEF BaseInv
<1>13. CASE Finish(r)
  <2>1. WorkTypes'
    BY <1>0, <1>13, RequestTyped DEF Finish, WorkTypes, Goto, Reply, Keep, Stages
  <2>2. CtlTypes'
    BY <1>0, <1>13, RequestTyped DEF Finish, CtlTypes, Move, Holds, Finished, Idle, Live
  <2>3. UNCHANGED <<req, gone>> /\ LineTypes' /\ CallTypes' /\ KeyTypes' /\ BoundTypes'
    BY <1>0, <1>13 DEF Finish, Keep, Reply, Goto, LineTypes, CallTypes, KeyTypes, BoundTypes
  <2> QED BY <2>1, <2>2, <2>3 DEF BaseInv
<1>14. CASE Close(r)
  <2>1. WorkTypes'
    BY <1>0, <1>14, RequestTyped DEF Close, WorkTypes, Goto, Reply, Keep, Stages
  <2>2. CallTypes'
    BY <1>0, <1>14, RequestTyped DEF Close, CallTypes, WorkTypes, Save, Late
  <2>3. UNCHANGED <<req, gone>> /\ CtlTypes' /\ LineTypes' /\ KeyTypes' /\ BoundTypes'
    BY <1>0, <1>14 DEF Close, Keep, Reply, Goto, CtlTypes, LineTypes, KeyTypes, BoundTypes
  <2> QED BY <2>1, <2>2, <2>3 DEF BaseInv
<1>15. CASE Rollback(r)
  <2>1. WorkTypes'
    BY <1>0, <1>15, RequestTyped DEF Rollback, WorkTypes, Goto, Reply, Keep, Stages
  <2>2. CtlTypes'
    BY <1>0, <1>15, RequestTyped DEF Rollback, CtlTypes, Move, Holds, Finished, Idle, Live
  <2>3. LineTypes'
    BY <1>0, <1>15, RequestTyped DEF Rollback, LineTypes
  <2>4. UNCHANGED <<req, gone>> /\ CallTypes' /\ KeyTypes' /\ BoundTypes'
    BY <1>0, <1>15 DEF Rollback, Keep, Reply, Goto, CallTypes, KeyTypes, BoundTypes
  <2> QED BY <2>1, <2>2, <2>3, <2>4 DEF BaseInv
<1>16. CASE Tone(r)
  <2>1. WorkTypes'
    BY <1>0, <1>16, RequestTyped DEF Tone, WorkTypes, Goto, Reply, Keep, Stages
  <2>2. KeyTypes'
    BY <1>0, <1>16, RequestTyped DEF Tone, KeyTypes, WorkTypes, Begin
  <2>3. UNCHANGED <<req, gone>> /\ CtlTypes' /\ LineTypes' /\ CallTypes' /\ BoundTypes'
    BY <1>0, <1>16 DEF Tone, Keep, Reply, Goto, CtlTypes, LineTypes, CallTypes, BoundTypes
  <2> QED BY <2>1, <2>2, <2>3 DEF BaseInv
<1>17. CASE Find(r)
  <2>1. WorkTypes'
    BY <1>0, <1>17, RequestTyped DEF Find, WorkTypes, Goto, Reply, Keep, Stages
  <2>2. KeyTypes'
    BY <1>0, <1>17, RequestTyped DEF Find, KeyTypes, WorkTypes, Begin
  <2>3. BoundTypes'
    BY <1>0, <1>17, RequestTyped, FaultsTyped DEF Find, BoundTypes
  <2>4. UNCHANGED <<req, gone>> /\ CtlTypes' /\ LineTypes' /\ CallTypes'
    BY <1>0, <1>17 DEF Find, Keep, Reply, Goto, CtlTypes, LineTypes, CallTypes
  <2> QED BY <2>1, <2>2, <2>3, <2>4 DEF BaseInv
<1>18. CASE Erase(r)
  <2>1. WorkTypes'
    BY <1>0, <1>18, RequestTyped DEF Erase, WorkTypes, Goto, Reply, Keep, Stages
  <2>2. CallTypes'
    BY <1>0, <1>18, RequestTyped DEF Erase, CallTypes, WorkTypes, Save, Late
  <2>3. BoundTypes'
    BY <1>0, <1>18, RequestTyped, FaultsTyped DEF Erase, BoundTypes
  <2>4. UNCHANGED <<req, gone>> /\ CtlTypes' /\ LineTypes' /\ KeyTypes'
    BY <1>0, <1>18 DEF Erase, Keep, Reply, Goto, CtlTypes, LineTypes, KeyTypes
  <2> QED BY <2>1, <2>2, <2>3, <2>4 DEF BaseInv
<1>19. CASE Session(r)
  <2>1. WorkTypes'
    BY <1>0, <1>19, RequestTyped DEF Session, WorkTypes, Goto, Reply, Keep, Stages
  <2>2. CallTypes'
    BY <1>0, <1>19, RequestTyped DEF Session, CallTypes, WorkTypes, Save, Late
  <2>3. KeyTypes'
    BY <1>0, <1>19, RequestTyped DEF Session, KeyTypes, WorkTypes, Begin
  <2>4. UNCHANGED <<req, gone>> /\ CtlTypes' /\ LineTypes' /\ BoundTypes'
    BY <1>0, <1>19 DEF Session, Keep, Reply, Goto, CtlTypes, LineTypes, BoundTypes
  <2> QED BY <2>1, <2>2, <2>3, <2>4 DEF BaseInv
<1>20. CASE Record(r)
  <2>1. WorkTypes'
    BY <1>0, <1>20, RequestTyped DEF Record, WorkTypes, Goto, Reply, Keep, Stages
  <2>2. CallTypes'
    BY <1>0, <1>20, RequestTyped DEF Record, CallTypes, WorkTypes, Save, Late
  <2>3. UNCHANGED <<req, gone>> /\ CtlTypes' /\ LineTypes' /\ KeyTypes' /\ BoundTypes'
    BY <1>0, <1>20 DEF Record, Keep, Reply, Goto, CtlTypes, LineTypes, KeyTypes, BoundTypes
  <2> QED BY <2>1, <2>2, <2>3 DEF BaseInv
<1> QED BY <1>1, <1>2, <1>3, <1>4, <1>5, <1>6, <1>7, <1>8, <1>9, <1>10, <1>11, <1>12, <1>13, <1>14, <1>15, <1>16, <1>17, <1>18, <1>19, <1>20 DEF Work

LEMMA LeaveTyped == ASSUME BaseInv, NEW r \in Requests, Leave(r) PROVE BaseInv'
<1>1. gone' \subseteq Requests /\ IsFiniteSet(gone')
  BY FS_AddElement DEF Leave, BaseInv
<1> QED BY <1>1 DEF Leave, BaseInv, WorkTypes, CtlTypes, LineTypes, CallTypes, KeyTypes, BoundTypes,
        lineVars, callVars, keyVars, bounds

LEMMA ReaderTyped == ASSUME BaseInv, Reader PROVE BaseInv'
<1> USE DEF workVars, lineVars, callVars, keyVars, bounds
<1>0. WorkTypes /\ CtlTypes /\ LineTypes /\ CallTypes /\ KeyTypes /\ BoundTypes
  BY DEF BaseInv
<1>1. CASE Take
  <2>1. /\ Head(events) \in [kind : {"incoming", "ended"}, call : Calls]
        /\ Tail(events) \in Seq([kind : {"incoming", "ended"}, call : Calls])
    BY <1>0, <1>1, HeadTailProperties DEF Take, LineTypes
  <2>2. CtlTypes'
    BY <1>0, <1>1, <2>1 DEF Take, CtlTypes, Live
  <2>3. LineTypes'
    BY <1>0, <1>1, <2>1 DEF Take, LineTypes, Step
  <2>4. UNCHANGED <<req, gone>> /\ WorkTypes' /\ CallTypes' /\ KeyTypes' /\ BoundTypes'
    BY <1>0, <1>1 DEF Take, WorkTypes, CallTypes, KeyTypes, BoundTypes
  <2> QED BY <2>2, <2>3, <2>4 DEF BaseInv
<1>2. CASE ReaderSave
  <2>1. LineTypes' /\ BoundTypes'
    BY <1>0, <1>2, FaultsTyped DEF ReaderSave, LineTypes, BoundTypes, Step, Rest
  <2>2. CallTypes'
    BY <1>0, <1>2 DEF ReaderSave, CallTypes, LineTypes, Save
  <2>3. UNCHANGED <<req, gone>> /\ WorkTypes' /\ CtlTypes' /\ KeyTypes'
    BY <1>0, <1>2 DEF ReaderSave, WorkTypes, CtlTypes, KeyTypes
  <2> QED BY <2>1, <2>2, <2>3 DEF BaseInv
<1>3. CASE ReaderFinish
  <2>1. LineTypes' /\ CtlTypes'
    BY <1>0, <1>3, HttpAssumption DEF ReaderFinish, LineTypes, CtlTypes, Step, Rest, Finished, Idle
  <2>2. UNCHANGED <<req, gone>> /\ WorkTypes' /\ CallTypes' /\ KeyTypes' /\ BoundTypes'
    BY <1>0, <1>3 DEF ReaderFinish, WorkTypes, CallTypes, KeyTypes, BoundTypes
  <2> QED BY <2>1, <2>2 DEF BaseInv
<1>4. CASE ReaderClose
  <2>1. LineTypes' /\ CallTypes'
    BY <1>0, <1>4 DEF ReaderClose, LineTypes, CallTypes, Step, Rest
  <2>2. UNCHANGED <<req, gone>> /\ WorkTypes' /\ CtlTypes' /\ KeyTypes' /\ BoundTypes'
    BY <1>0, <1>4 DEF ReaderClose, WorkTypes, CtlTypes, KeyTypes, BoundTypes
  <2> QED BY <2>1, <2>2 DEF BaseInv
<1> QED BY <1>1, <1>2, <1>3, <1>4 DEF Reader

LEMMA OutsideTyped ==
    ASSUME BaseInv, FarEnd \/ \E c \in Calls : Ring(c) \/ Connection(c) \/ PeerSave(c) \/ PeerClose(c)
    PROVE  BaseInv'
<1> USE DEF workVars, lineVars, callVars, keyVars, bounds
<1>0. WorkTypes /\ CtlTypes /\ LineTypes /\ CallTypes /\ KeyTypes /\ BoundTypes
  BY DEF BaseInv
<1>1. CASE FarEnd
  <2>1. line \in Calls /\ Publish("ended", line)
    BY <1>0, <1>1 DEF FarEnd, LineTypes
  <2>2. LineTypes'
    BY <1>0, <1>1, <2>1, PublishTyped DEF FarEnd, LineTypes
  <2>3. UNCHANGED <<req, gone>> /\ WorkTypes' /\ CtlTypes' /\ CallTypes' /\ KeyTypes' /\ BoundTypes'
    BY <1>0, <1>1 DEF FarEnd, WorkTypes, CtlTypes, CallTypes, KeyTypes, BoundTypes
  <2> QED BY <2>2, <2>3 DEF BaseInv
<1>2. ASSUME NEW c \in Calls, Ring(c) PROVE BaseInv'
  <2>1. LineTypes' /\ BoundTypes'
    BY <1>0, <1>2, PublishTyped DEF Ring, LineTypes, BoundTypes
  <2>2. UNCHANGED <<req, gone>> /\ WorkTypes' /\ CtlTypes' /\ CallTypes' /\ KeyTypes'
    BY <1>0, <1>2 DEF Ring, WorkTypes, CtlTypes, CallTypes, KeyTypes
  <2> QED BY <2>1, <2>2 DEF BaseInv
<1>3. ASSUME NEW c \in Calls, Connection(c) \/ PeerSave(c) \/ PeerClose(c) PROVE BaseInv'
  <2>1. CallTypes'
    BY <1>0, <1>3 DEF Connection, PeerSave, PeerClose, CallTypes, Save
  <2>2. BoundTypes'
    BY <1>0, <1>3, FaultsTyped, HttpAssumption DEF Connection, PeerSave, PeerClose, BoundTypes
  <2>3. UNCHANGED <<req, gone>> /\ WorkTypes' /\ CtlTypes' /\ LineTypes' /\ KeyTypes'
    BY <1>0, <1>3 DEF Connection, PeerSave, PeerClose, WorkTypes, CtlTypes, LineTypes, KeyTypes
  <2> QED BY <2>1, <2>2, <2>3 DEF BaseInv
<1> QED BY <1>1, <1>2, <1>3

LEMMA StepTyped == BaseInv /\ [HttpNext]_httpVars => BaseInv'
<1> SUFFICES ASSUME BaseInv, [HttpNext]_httpVars PROVE BaseInv'
  OBVIOUS
<1>1. CASE UNCHANGED httpVars
  BY <1>1 DEF httpVars, workVars, lineVars, callVars, keyVars, bounds, BaseInv, WorkTypes, CtlTypes,
     LineTypes, CallTypes, KeyTypes, BoundTypes
<1>2. CASE HttpNext
  BY <1>2, WorkTyped, LeaveTyped, ReaderTyped, OutsideTyped DEF HttpNext
<1> QED BY <1>1, <1>2

-----------------------------------------------------------------------------
(* Idempotency.                                                            *)

\* A step of a request that has taken up its key, inside its operation.
LEMMA KeyKept == ASSUME BaseInv, KeyInv, NEW r \in Requests, Taken(r),
                        NEW p \in Stages \ (Starts \union {"claim"}), pc' = [pc EXCEPT ![r] = p],
                        UNCHANGED <<req, key, begun>>
                 PROVE  KeyInv'
<1>1. \A q \in Requests : Taken(q)' => Taken(q)
  BY DEF Taken, Op, BaseInv, WorkTypes
<1>2. \A q \in Requests : pc'[q] \in Starts => pc[q] \in Starts
  BY DEF BaseInv, WorkTypes
<1> QED BY <1>1, <1>2 DEF KeyInv

\* The step that begins it.
LEMMA KeyBegun == ASSUME BaseInv, KeyInv, NEW r \in Requests, Taken(r), Begin(r),
                         NEW p \in Stages \ (Starts \union {"claim"}), pc' = [pc EXCEPT ![r] = p],
                         UNCHANGED <<req, key>>
                  PROVE  KeyInv'
<1>1. \A q \in Requests : Taken(q)' => Taken(q)
  BY DEF Taken, Op, BaseInv, WorkTypes
<1>2. \A q \in Requests : pc'[q] \in Starts => pc[q] \in Starts /\ q # r
  BY DEF BaseInv, WorkTypes
<1>3. \A k \in Keys : k # req[r].key => begun'[k] = begun[k]
  BY DEF Begin, BaseInv, KeyTypes
<1>4. \A q \in Requests : Taken(q) /\ q # r => req[q].key # req[r].key /\ req[q].key \in Keys
  BY RequestTyped DEF KeyInv
<1>5. key[req[r].key] = "pending"
  BY DEF KeyInv
<1> QED BY <1>1, <1>2, <1>3, <1>4, <1>5 DEF KeyInv

LEMMA ClaimKeys == ASSUME BaseInv, KeyInv, NEW r \in Requests, Claim(r) PROVE KeyInv'
<1>0. req[r].key \in Keys /\ UNCHANGED <<req, begun>> /\ ~Taken(r)
  BY RequestTyped DEF Claim, Taken
<1>1. CASE key[req[r].key] = "none" /\ key' = [key EXCEPT ![req[r].key] = "pending"]
  <2>1. PICK p \in Stages : pc' = [pc EXCEPT ![r] = p]
    BY <1>1 DEF Claim, Goto, Stages
  <2>2. \A q \in Requests : Taken(q)' => Taken(q) \/ q = r
    BY <1>0, <2>1 DEF Taken, Op, BaseInv, WorkTypes
  <2>3. \A q \in Requests : Taken(q) => req[q].key # req[r].key
    BY <1>1 DEF KeyInv
  <2>4. begun[req[r].key] = 0
    BY <1>0, <1>1 DEF KeyInv
  <2>5. \A q \in Requests : q # r => pc'[q] = pc[q]
    BY <2>1 DEF BaseInv, WorkTypes
  <2>6. \A k \in Keys : key'[k] = IF k = req[r].key THEN "pending" ELSE key[k]
    BY <1>1 DEF BaseInv, KeyTypes
  <2> QED BY <1>0, <2>2, <2>3, <2>4, <2>5, <2>6, RequestTyped DEF KeyInv
<1>2. CASE UNCHANGED key /\ Goto(r, "done")
  <2>1. \A q \in Requests : (Taken(q)' => Taken(q)) /\ (pc'[q] \in Starts => pc[q] \in Starts)
    BY <1>0, <1>2 DEF Goto, Taken, Op, BaseInv, WorkTypes, Starts
  <2> QED BY <1>0, <1>2, <2>1 DEF KeyInv
<1> QED BY <1>1, <1>2 DEF Claim

LEMMA AnswerKeys == ASSUME BaseInv, KeyInv, NEW r \in Requests, Answer(r) PROVE KeyInv'
<1>0. req[r].key \in Keys /\ UNCHANGED <<req, begun>> /\ Taken(r)
  BY RequestTyped DEF Answer, Taken
<1>1. \A q \in Requests : Taken(q)' => Taken(q) /\ q # r
  BY <1>0 DEF Answer, Goto, Taken, Op, BaseInv, WorkTypes
<1>2. \A q \in Requests : pc'[q] \in Starts => pc[q] \in Starts
  BY DEF Answer, Goto, BaseInv, WorkTypes, Starts
<1>3. \A k \in Keys : k # req[r].key => key'[k] = key[k]
  BY DEF Answer, BaseInv, KeyTypes
<1>4. key'[req[r].key] # "none" /\ key[req[r].key] # "none"
  BY <1>0 DEF Answer, KeyInv, BaseInv, KeyTypes, WorkTypes
<1>5. \A q \in Requests : Taken(q)' => req[q].key # req[r].key
  BY <1>0, <1>1 DEF KeyInv
<1> QED BY <1>0, <1>1, <1>2, <1>3, <1>4, <1>5, RequestTyped DEF KeyInv

\* Where a step of an operation may lead.
Inside(r) == \E p \in Stages \ (Starts \union {"claim"}) : pc' = [pc EXCEPT ![r] = p]

LEMMA InsideSteps == ASSUME BaseInv, NEW r \in Requests, Work(r), ~Claim(r), ~Answer(r)
                     PROVE  /\ Inside(r) \/ (Find(r) /\ Op(r) = "offer")
                            /\ UNCHANGED <<req, key>>
                            /\ UNCHANGED begun \/ Begin(r)
                            /\ pc[r] \notin {"claim", "done"}
BY DEF Work, Persist, Ready, Place, Dial, Clean, Abort, Drop, Forget, Control, Modem, Finish, Close,
   Rollback, Tone, Find, Erase, Session, Record, Keep, Reply, Goto, Inside, Stages, Starts,
   lineVars, callVars, keyVars

LEMMA WorkKeys == ASSUME BaseInv, KeyInv, NEW r \in Requests, Work(r) PROVE KeyInv'
<1>1. CASE Claim(r) \/ Answer(r)
  BY <1>1, ClaimKeys, AnswerKeys
<1>2. CASE Find(r) /\ Op(r) = "offer"
  <2>1. \A q \in Requests : (Taken(q)' => Taken(q)) /\ (pc'[q] \in Starts => pc[q] \in Starts)
    BY <1>2 DEF Find, Reply, Goto, Taken, Op, BaseInv, WorkTypes, Starts
  <2> QED BY <1>2, <2>1 DEF Find, KeyInv
<1>3. CASE ~Claim(r) /\ ~Answer(r) /\ ~(Find(r) /\ Op(r) = "offer")
  <2>1. Taken(r) /\ Inside(r) /\ UNCHANGED <<req, key>> /\ (UNCHANGED begun \/ Begin(r))
    BY <1>3, InsideSteps DEF Taken, Work, Find, Persist, Ready, Place, Dial, Clean, Abort, Drop, Forget,
       Control, Modem, Finish, Close, Rollback, Tone, Erase, Session, Record
  <2> QED BY <2>1, KeyKept, KeyBegun DEF Inside
<1> QED BY <1>1, <1>2, <1>3

LEMMA StepKeys == BaseInv /\ KeyInv /\ [HttpNext]_httpVars => KeyInv'
<1> SUFFICES ASSUME BaseInv, KeyInv, [HttpNext]_httpVars PROVE KeyInv'
  OBVIOUS
<1>1. CASE UNCHANGED <<req, pc, key, begun>>
  BY <1>1 DEF KeyInv, Taken, Op
<1>2. ASSUME NEW r \in Requests, Work(r) PROVE KeyInv'
  BY <1>2, WorkKeys
<1>3. CASE UNCHANGED httpVars
  BY <1>1, <1>3 DEF httpVars, workVars, keyVars
<1>4. CASE HttpNext
  BY <1>1, <1>2, <1>4 DEF HttpNext, Leave, Reader, Take, ReaderSave, ReaderFinish, ReaderClose, FarEnd,
     Ring, Connection, PeerSave, PeerClose, workVars, keyVars
<1> QED BY <1>3, <1>4

LEMMA Kept == HttpSpec => [](BaseInv /\ KeyInv)
<1>1. BaseInv /\ KeyInv /\ [HttpNext]_httpVars => (BaseInv /\ KeyInv)'
  BY StepTyped, StepKeys
<1> QED BY <1>1, InitBase, PTL DEF HttpSpec

(* Every variable stays in its type, the phases of the controller, the     *)
(* stages of the handlers and the bounds among them.                       *)
THEOREM HttpTyped == HttpSpec => []HttpTypeOK
<1>1. BaseInv => HttpTypeOK
  BY DEF BaseInv, HttpTypeOK, WorkTypes, CtlTypes, LineTypes, CallTypes, KeyTypes, BoundTypes
<1> QED BY <1>1, Kept, PTL

-----------------------------------------------------------------------------
(* The promise of Once.                                                    *)

Claimed == {k \in Keys : key[k] # "none"}
Answered == [k \in Keys |-> IF key[k] = "pending" THEN "none" ELSE key[k]]

LEMMA InitOnce == HttpInit => CallsOnce!OnceInit
BY DEF HttpInit, CallsOnce!OnceInit

LEMMA ClaimOnce == ASSUME BaseInv, KeyInv, NEW r \in Requests, Claim(r)
                   PROVE  [CallsOnce!OnceNext]_(CallsOnce!onceVars)
<1>0. req[r].key \in Keys /\ UNCHANGED begun
  BY RequestTyped DEF Claim
<1>1. CASE UNCHANGED key
  BY <1>0, <1>1 DEF CallsOnce!onceVars
<1>2. CASE key[req[r].key] = "none" /\ key' = [key EXCEPT ![req[r].key] = "pending"]
  <2>1. Claimed' = Claimed \union {req[r].key} /\ req[r].key \in Keys \ Claimed
    BY <1>0, <1>2 DEF Claimed, BaseInv, KeyTypes
  <2>2. Answered' = Answered
    BY <1>0, <1>2 DEF Answered, BaseInv, KeyTypes
  <2>3. CallsOnce!Claim
    BY <1>0, <2>1, <2>2 DEF CallsOnce!Claim, Claimed, Answered
  <2> QED BY <2>3 DEF CallsOnce!OnceNext
<1> QED BY <1>1, <1>2 DEF Claim

LEMMA AnswerOnce == ASSUME BaseInv, KeyInv, NEW r \in Requests, Answer(r)
                    PROVE  [CallsOnce!OnceNext]_(CallsOnce!onceVars)
<1>0. /\ req[r].key \in Keys /\ UNCHANGED begun /\ key[req[r].key] = "pending"
      /\ code[r] \in {"ok", "error"}
  BY RequestTyped DEF Answer, KeyInv, Taken, BaseInv, WorkTypes
<1>1. CASE UNCHANGED key
  BY <1>0, <1>1 DEF CallsOnce!onceVars
<1>2. CASE key' = [key EXCEPT ![req[r].key] = code[r]]
  <2>1. Claimed' = Claimed /\ req[r].key \in Claimed
    BY <1>0, <1>2 DEF Claimed, BaseInv, KeyTypes
  <2>2. Answered' = [Answered EXCEPT ![req[r].key] = code[r]] /\ Answered[req[r].key] = "none"
    BY <1>0, <1>2 DEF Answered, BaseInv, KeyTypes
  <2>3. CallsOnce!Answer
    BY <1>0, <2>1, <2>2 DEF CallsOnce!Answer, Claimed, Answered
  <2> QED BY <2>3 DEF CallsOnce!OnceNext
<1> QED BY <1>1, <1>2 DEF Answer

LEMMA BeginOnce == ASSUME BaseInv, KeyInv, NEW r \in Requests, Taken(r), pc[r] \in Starts,
                          Begin(r), UNCHANGED key
                   PROVE  [CallsOnce!OnceNext]_(CallsOnce!onceVars)
<1>1. req[r].key \in Keys /\ key[req[r].key] = "pending" /\ begun[req[r].key] = 0
  BY RequestTyped DEF KeyInv
<1>2. Claimed' = Claimed /\ Answered' = Answered /\ req[r].key \in Claimed
      /\ Answered[req[r].key] = "none"
  BY <1>1 DEF Claimed, Answered
<1>3. begun' = [begun EXCEPT ![req[r].key] = 1]
  BY <1>1 DEF Begin, BaseInv, KeyTypes
<1>4. CallsOnce!Begin
  BY <1>1, <1>2, <1>3 DEF CallsOnce!Begin, Claimed, Answered
<1> QED BY <1>4 DEF CallsOnce!OnceNext

LEMMA StepOnce == BaseInv /\ KeyInv /\ [HttpNext]_httpVars => [CallsOnce!OnceNext]_(CallsOnce!onceVars)
<1> SUFFICES ASSUME BaseInv, KeyInv, [HttpNext]_httpVars PROVE [CallsOnce!OnceNext]_(CallsOnce!onceVars)
  OBVIOUS
<1>1. CASE UNCHANGED <<key, begun>>
  BY <1>1 DEF CallsOnce!onceVars
<1>2. ASSUME NEW r \in Requests, Work(r), ~UNCHANGED <<key, begun>>
      PROVE  [CallsOnce!OnceNext]_(CallsOnce!onceVars)
  <2>1. CASE Claim(r) \/ Answer(r)
    BY <2>1, ClaimOnce, AnswerOnce
  <2>2. CASE ~Claim(r) /\ ~Answer(r)
    <3>1. UNCHANGED key /\ Begin(r)
      BY <1>2, <2>2, InsideSteps
    <3>2. Taken(r) /\ pc[r] \in Starts
      BY <1>2, <2>2, <3>1 DEF Work, Taken, Starts, Persist, Ready, Place, Dial, Clean, Abort, Drop, Forget,
         Control, Modem, Finish, Close, Rollback, Tone, Find, Erase, Session, Record, keyVars
    <3> QED BY <3>1, <3>2, BeginOnce
  <2> QED BY <2>1, <2>2
<1>3. CASE UNCHANGED httpVars
  BY <1>1, <1>3 DEF httpVars, keyVars
<1>4. CASE HttpNext
  BY <1>1, <1>2, <1>4 DEF HttpNext, Leave, Reader, Take, ReaderSave, ReaderFinish, ReaderClose, FarEnd,
     Ring, Connection, PeerSave, PeerClose, keyVars
<1> QED BY <1>3, <1>4

(* The operation of an Idempotency-Key is begun at most once, and its      *)
(* answer stays: the handlers implement Once, under every interleaving.    *)
THEOREM CallsKeepOnce == HttpSpec => CallKeysAreOnce
<1>1. HttpSpec => [][CallsOnce!OnceNext]_(CallsOnce!onceVars)
  BY Kept, StepOnce, PTL DEF HttpSpec
<1>2. HttpSpec => CallsOnce!OnceInit
  BY InitOnce DEF HttpSpec
<1> QED BY <1>1, <1>2, PTL DEF CallKeysAreOnce, CallsOnce!OnceSpec

-----------------------------------------------------------------------------
(* A hang-up and the end of its call.                                      *)

\* What a hang-up is about to save is the end.
EndInv == \A r \in Requests : Op(r) = "hangup" /\ pc[r] = "persist" => snap[r] = "ended"

\* Stages of one operation only.
StageInv == \A r \in Requests :
    /\ pc[r] \in {"place", "dial", "clean", "fail", "drop", "release", "forget"} => Op(r) = "dial"
    /\ pc[r] \in {"control", "modem", "rollback"} => Op(r) \in {"answer", "hangup"}
    /\ pc[r] = "finish" => Op(r) = "hangup"
    /\ pc[r] = "ready" => Op(r) \in {"dial", "answer"}
    /\ pc[r] = "session" => Op(r) = "offer"

LEMMA WorkStages == ASSUME BaseInv, StageInv, EndInv, NEW r \in Requests, Work(r) PROVE StageInv' /\ EndInv'
<1> USE DEF StageInv, EndInv, Op, Goto, Reply, Keep, BaseInv, WorkTypes, Ops
<1>1. CASE Claim(r) \/ Answer(r) \/ Persist(r) \/ Close(r) \/ Tone(r) \/ Erase(r) \/ Session(r) \/ Record(r)
  BY <1>1 DEF Claim, Answer, Persist, Close, Tone, Erase, Session, Record
<1>2. CASE Find(r)
  BY <1>2 DEF Find
<1>3. CASE Ready(r) \/ Place(r) \/ Dial(r) \/ Clean(r) \/ Abort(r)
  BY <1>3 DEF Ready, Place, Dial, Clean, Abort
<1>4. CASE Drop(r) \/ Forget(r)
  <2>1. pc[r] \in {"drop", "forget"} /\ Op(r) = "dial" /\ UNCHANGED req
    BY <1>4 DEF Drop, Forget
  <2>2. PICK p \in {"persist", "answer"}, s \in {"open", "ended"} :
           pc' = [pc EXCEPT ![r] = p] /\ (snap' = [snap EXCEPT ![r] = s] \/ UNCHANGED snap)
    BY <1>4 DEF Drop, Forget
  <2> QED BY <2>1, <2>2
<1>5. CASE Control(r) \/ Modem(r) \/ Finish(r) \/ Rollback(r)
  BY <1>5 DEF Control, Modem, Finish, Rollback
<1> QED BY <1>1, <1>2, <1>3, <1>4, <1>5 DEF Work

LEMMA StepStages == BaseInv /\ StageInv /\ EndInv /\ [HttpNext]_httpVars => StageInv' /\ EndInv'
<1> SUFFICES ASSUME BaseInv, StageInv, EndInv, [HttpNext]_httpVars PROVE StageInv' /\ EndInv'
  OBVIOUS
<1>1. CASE UNCHANGED <<req, pc, snap>>
  BY <1>1 DEF StageInv, EndInv, Op
<1>2. CASE UNCHANGED httpVars
  BY <1>1, <1>2 DEF httpVars, workVars
<1>3. CASE HttpNext
  BY <1>1, <1>3, WorkStages DEF HttpNext, Leave, Reader, Take, ReaderSave, ReaderFinish, ReaderClose,
     FarEnd, Ring, Connection, PeerSave, PeerClose, workVars
<1> QED BY <1>2, <1>3

LEMMA Staged == HttpSpec => [](BaseInv /\ KeyInv /\ StageInv /\ EndInv)
<1>1. HttpInit => StageInv /\ EndInv
  BY DEF HttpInit, StageInv, EndInv, Op
<1>2. BaseInv /\ KeyInv /\ StageInv /\ EndInv /\ [HttpNext]_httpVars
        => (BaseInv /\ KeyInv /\ StageInv /\ EndInv)'
  BY StepTyped, StepKeys, StepStages
<1> QED BY <1>1, <1>2, InitBase, PTL DEF HttpSpec

(* However a hang-up races with the modem's report of the end, it never    *)
(* saves an open call over the row of an ended one.                        *)
THEOREM HangupKeeps == HttpSpec => HangupKeepsEnd
<1>1. BaseInv /\ EndInv /\ [HttpNext]_httpVars =>
        [\A r \in Requests :
            Op(r) = "hangup" /\ pc[r] = "persist" /\ pc'[r] # "persist" /\ row[Call(r)] = "ended"
                => row'[Call(r)] = "ended"]_httpVars
  <2> SUFFICES ASSUME BaseInv, EndInv, [HttpNext]_httpVars, NEW r \in Requests,
                      Op(r) = "hangup", pc[r] = "persist", pc'[r] # "persist", row[Call(r)] = "ended"
               PROVE  row'[Call(r)] = "ended"
    OBVIOUS
  <2>1. PICK q \in Requests : Work(q)
    BY DEF HttpNext, Leave, Reader, Take, ReaderSave, ReaderFinish, ReaderClose, FarEnd, Ring, Connection,
       PeerSave, PeerClose, workVars, httpVars
  <2>2. q = r
    BY <2>1 DEF Work, Claim, Answer, Persist, Ready, Place, Dial, Clean, Abort, Drop, Forget, Control, Modem,
       Finish, Close, Rollback, Tone, Find, Erase, Session, Record, Keep, Reply, Goto, BaseInv, WorkTypes
  <2>3. Persist(r)
    BY <2>1, <2>2 DEF Work, Claim, Answer, Ready, Place, Dial, Clean, Abort, Drop, Forget, Control, Modem,
       Finish, Close, Rollback, Tone, Find, Erase, Session, Record
  <2> QED BY <2>3, RequestTyped DEF Persist, Save, EndInv, BaseInv, CallTypes
<1> QED BY <1>1, Staged, PTL DEF HttpSpec, HangupKeepsEnd

-----------------------------------------------------------------------------
(* A claimed key has somebody at work on its answer.                       *)

\* What excuses a key without an answer, and stays.
Excused(k) == \/ faults > 0
              \/ \E r \in Requests : req[r].key = k /\ (r \in gone \/ Op(r) = "offer")

\* A request that is done has answered its key, or has an excuse.
LEMMA WorkWorker == ASSUME BaseInv, KeyInv, StageInv, KeyHasWorker, NEW r \in Requests, Work(r)
                    PROVE  KeyHasWorker'
<1>0. UNCHANGED <<req, gone>> /\ faults' >= faults /\ faults \in Nat /\ faults' \in Nat
  BY DEF BaseInv, BoundTypes, Work, Claim, Answer, Persist, Ready, Place, Dial, Clean, Abort, Drop, Forget,
     Control, Modem, Finish, Close, Rollback, Tone, Find, Erase, Session, Record, Keep, Reply, Goto,
     lineVars, callVars, keyVars, bounds, Works, Fails, DbWorks, DbBreaks
<1>1. \A q \in Requests : q # r => (Taken(q) <=> Taken(q)')
  BY <1>0 DEF BaseInv, WorkTypes, Taken, Op, Work, Claim, Answer, Persist, Ready, Place, Dial, Clean, Abort,
     Drop, Forget, Control, Modem, Finish, Close, Rollback, Tone, Find, Erase, Session, Record, Keep, Reply, Goto
<1>2. \A k \in Keys : Excused(k) => Excused(k)'
  BY <1>0 DEF Excused, Op
<1>3. ASSUME Taken(r) PROVE Taken(r)' \/ Excused(req[r].key)' \/ key'[req[r].key] # "pending"
  <2>1. CASE Answer(r)
    BY <1>0, <2>1, RequestTyped DEF Answer, Excused, Fails, DbBreaks, BaseInv, KeyTypes, WorkTypes
  <2>2. CASE Find(r) \/ Erase(r) \/ Session(r)
    <3>1. pc[r] # "find" \/ Op(r) # "offer"
      BY <1>3 DEF Taken
    <3>2. pc' = [pc EXCEPT ![r] = "done"] => r \in gone \/ DbBreaks \/ Session(r)
      BY <2>2, <3>1 DEF Find, Erase, Fails, Reply, Goto, BaseInv, WorkTypes
    <3>3. Session(r) => Op(r) = "offer"
      BY DEF Session, StageInv
    <3>4. \E p \in Stages \ {"claim", "find"} : pc' = [pc EXCEPT ![r] = p]
      BY <2>2, <3>1 DEF Find, Erase, Session, Reply, Goto, Stages
    <3>5. Taken(r)' \/ pc' = [pc EXCEPT ![r] = "done"]
      BY <3>4 DEF Taken, BaseInv, WorkTypes
    <3>6. r \in gone \/ DbBreaks \/ Op(r) = "offer" => Excused(req[r].key)'
      BY <1>0 DEF Excused, Op, DbBreaks
    <3> QED BY <3>2, <3>3, <3>5, <3>6
  <2>3. CASE ~Answer(r) /\ ~Find(r) /\ ~Erase(r) /\ ~Session(r)
    BY <1>0, <1>3, <2>3 DEF Taken, Op, BaseInv, WorkTypes, Work, Claim, Persist, Ready, Place, Dial, Clean,
       Abort, Drop, Forget, Control, Modem, Finish, Close, Rollback, Tone, Record, Keep, Reply, Goto
  <2> QED BY <2>1, <2>2, <2>3
<1>4. ASSUME NEW k \in Keys, key'[k] = "pending", key[k] # "pending"
      PROVE  k = req[r].key /\ (Taken(r)' \/ Excused(k)')
  <2>1. Claim(r) /\ key' = [key EXCEPT ![req[r].key] = "pending"]
    BY <1>4 DEF BaseInv, KeyTypes, WorkTypes, Work, Claim, Answer, Persist, Ready, Place, Dial, Clean, Abort,
       Drop, Forget, Control, Modem, Finish, Close, Rollback, Tone, Find, Erase, Session, Record, keyVars
  <2>2. k = req[r].key
    BY <1>4, <2>1 DEF BaseInv, KeyTypes
  <2>3. Taken(r)' \/ Op(r) = "offer"
    BY <1>4, <2>1, <2>2 DEF Claim, Goto, Taken, Op, BaseInv, WorkTypes
  <2> QED BY <1>0, <2>2, <2>3 DEF Excused, Op
<1> QED BY <1>0, <1>1, <1>2, <1>3, <1>4 DEF KeyHasWorker, Excused

LEMMA StepWorker == BaseInv /\ KeyInv /\ StageInv /\ KeyHasWorker /\ [HttpNext]_httpVars => KeyHasWorker'
<1> SUFFICES ASSUME BaseInv, KeyInv, StageInv, KeyHasWorker, [HttpNext]_httpVars PROVE KeyHasWorker'
  OBVIOUS
<1>1. ASSUME NEW r \in Requests, Work(r) PROVE KeyHasWorker'
  BY <1>1, WorkWorker
<1>2. CASE UNCHANGED <<req, pc, key>> /\ gone \subseteq gone' /\ (faults > 0 => faults' > 0)
  <2>1. \A r \in Requests : Taken(r) <=> Taken(r)'
    BY <1>2 DEF Taken, Op
  <2> QED BY <1>2, <2>1 DEF KeyHasWorker, Op
<1>3. CASE UNCHANGED httpVars
  BY <1>2, <1>3 DEF httpVars, workVars, keyVars, bounds
<1>4. CASE \E r \in Requests : Leave(r)
  BY <1>2, <1>4 DEF Leave, keyVars, bounds
<1>5. CASE Reader \/ FarEnd \/ \E c \in Calls : Ring(c) \/ Connection(c) \/ PeerSave(c) \/ PeerClose(c)
  <2>1. faults \in Nat /\ (UNCHANGED faults \/ DbWorks \/ DbBreaks)
    BY <1>5 DEF BaseInv, BoundTypes, Reader, Take, ReaderSave, ReaderFinish, ReaderClose, FarEnd, Ring,
       Connection, PeerSave, PeerClose, bounds
  <2>2. UNCHANGED <<workVars, keyVars>>
    BY <1>5 DEF Reader, Take, ReaderSave, ReaderFinish, ReaderClose, FarEnd, Ring, Connection, PeerSave, PeerClose
  <2> QED BY <1>2, <2>1, <2>2 DEF DbWorks, DbBreaks, workVars, keyVars
<1> QED BY <1>1, <1>3, <1>4, <1>5 DEF HttpNext

(* No way through a handler leaves its key claimed behind it.              *)
THEOREM KeysWorkedOn == HttpSpec => []KeyHasWorker
<1>1. HttpInit => KeyHasWorker
  <2> SUFFICES ASSUME HttpInit PROVE KeyHasWorker
    OBVIOUS
  <2>1. \A k \in Keys : key[k] = "none"
    BY DEF HttpInit
  <2> QED BY <2>1 DEF KeyHasWorker
<1>2. BaseInv /\ KeyInv /\ StageInv /\ KeyHasWorker /\ [HttpNext]_httpVars => KeyHasWorker'
  BY StepWorker
<1> QED BY <1>1, <1>2, Staged, PTL DEF HttpSpec

-----------------------------------------------------------------------------
(* Ghost calls.                                                            *)

EndedIn(c) == \E i \in DOMAIN events : events[i] = [kind |-> "ended", call |-> c]

\* A dial that has not begun names a call nobody knows of; an incoming call is
\* no dial's, and is on the line until its end is published.
Placed == {"dial", "clean", "fail", "drop", "release", "forget", "ready"}
QueueInv ==
    /\ \A i \in DOMAIN events : events[i].kind = "incoming" =>
          /\ \A r \in Requests : Op(r) = "dial" => Call(r) # events[i].call
          /\ line = events[i].call \/ \E j \in DOMAIN events :
                j > i /\ events[j] = [kind |-> "ended", call |-> events[i].call]
    /\ \A r \in Requests : Op(r) = "dial" /\ begun[req[r].key] = 0 =>
          /\ Call(r) \notin {line, reader.call, ctl.call}
          /\ \A i \in DOMAIN events : events[i].call # Call(r)
    /\ \A r \in Requests : Op(r) = "dial" /\ pc[r] \in Placed => begun[req[r].key] > 0

\* The controller is in the phase the event reader, or the request that moved
\* it last, has left it in.
CtlInv ==
    /\ ctl.call # NoCall => ctl.phase # "idle"
    /\ ctl.phase = "ended" => reader.at \in {"ended", "finish"} /\ reader.call = ctl.call
    /\ reader.at \in {"ended", "finish"} => reader.call # NoCall
    /\ reader.at \in {"ended", "finish"} /\ reader.call = ctl.call => ctl.phase = "ended"
    /\ \A r \in Requests : ctl.by = r =>
          /\ pc[r] \notin {"claim", "find", "place", "control"}
          /\ pc[r] \in {"modem", "rollback"} /\ Op(r) = "hangup" =>
                ctl.call = Call(r) /\ ctl.phase = "ending" /\ ctl.saved \in Live
          /\ pc[r] \in {"modem", "rollback"} /\ Op(r) = "answer" =>
                ctl.call = Call(r) /\ ctl.phase = "answering" /\ ctl.saved = "incoming"

\* A failed dial has ended its call, unless a hang-up was rolled back since.
DropInv == \A r \in Requests : pc[r] = "drop" /\ ctl.call = Call(r) =>
    ctl.phase \in {"ending", "ended"} \/ Call(r) \in rolled

\* The call the controller holds is accounted for.
Accounted(c) ==
    \/ line = c \/ c \in rolled \/ EndedIn(c)
    \/ \E r \in Requests : Call(r) = c /\ pc[r] \in {"dial", "clean", "fail", "drop"}
    \/ reader.call = c /\ reader.at \in {"ended", "finish"}
HeldInv == ctl.call # NoCall => Accounted(ctl.call)

GhostInv == QueueInv /\ CtlInv /\ DropInv /\ HeldInv
AllInv == BaseInv /\ KeyInv /\ StageInv

LEMMA Published == ASSUME LineTypes, NEW k, NEW c, Publish(k, c)
                   PROVE  /\ DOMAIN events = 1..Len(events) /\ Len(events) \in Nat
                          /\ DOMAIN events' = 1..(Len(events) + 1)
                          /\ \A i \in DOMAIN events : events'[i] = events[i]
                          /\ events'[Len(events) + 1] = [kind |-> k, call |-> c]
BY DEF LineTypes, Publish

LEMMA FirstTaken == ASSUME LineTypes, events # <<>>, events' = Tail(events)
                    PROVE  /\ DOMAIN events = 1..Len(events) /\ Len(events) \in Nat \ {0}
                           /\ DOMAIN events' = 1..(Len(events) - 1)
                           /\ \A i \in DOMAIN events' : events'[i] = events[i + 1]
                           /\ Head(events) = events[1]
BY DEF LineTypes

\* A call leaves the line with its end published.
LEMMA HangUpQueue == ASSUME AllInv, QueueInv, HangUpWorks \/ HangUpFails,
                            UNCHANGED <<req, begun, ctl, reader>>,
                            \A r \in Requests : Op(r) = "dial" /\ pc'[r] \in Placed => begun[req[r].key] > 0
                     PROVE  /\ QueueInv'
                            /\ \A c \in Calls : line = c \/ EndedIn(c) => line' = c \/ EndedIn(c)'
<1>1. CASE HangUpFails
  BY <1>1 DEF HangUpFails, QueueInv, EndedIn, Op, Call
<1>2. CASE HangUpWorks
  <2>1. line # NoCall /\ line' = NoCall /\ Publish("ended", line)
    BY <1>2 DEF HangUpWorks
  <2>2. /\ DOMAIN events = 1..Len(events) /\ Len(events) \in Nat
        /\ DOMAIN events' = 1..(Len(events) + 1)
        /\ \A i \in DOMAIN events : events'[i] = events[i]
        /\ events'[Len(events) + 1] = [kind |-> "ended", call |-> line]
    BY <2>1, Published DEF AllInv, BaseInv
  <2>3. \A c \in Calls : line = c \/ EndedIn(c) => EndedIn(c)'
    BY <2>1, <2>2 DEF EndedIn
  <2>4. \A i \in DOMAIN events' : events'[i].kind = "incoming" =>
          /\ \A r \in Requests : Op(r)' = "dial" => Call(r)' # events'[i].call
          /\ \E j \in DOMAIN events' : j > i /\ events'[j] = [kind |-> "ended", call |-> events'[i].call]
    <3> SUFFICES ASSUME NEW i \in DOMAIN events', events'[i].kind = "incoming"
                 PROVE  /\ \A r \in Requests : Op(r)' = "dial" => Call(r)' # events'[i].call
                        /\ \E j \in DOMAIN events' : j > i /\ events'[j] = [kind |-> "ended", call |-> events'[i].call]
      OBVIOUS
    <3>1. i \in DOMAIN events /\ i < Len(events) + 1
      BY <2>2
    <3>2. CASE line = events[i].call
      BY <2>2, <3>1, <3>2 DEF QueueInv, Op, Call
    <3>3. CASE \E j \in DOMAIN events : j > i /\ events[j] = [kind |-> "ended", call |-> events[i].call]
      BY <2>2, <3>1, <3>3 DEF QueueInv, Op, Call
    <3> QED BY <2>2, <3>1, <3>2, <3>3 DEF QueueInv
  <2>5. \A r \in Requests : Op(r)' = "dial" /\ begun'[req'[r].key] = 0 =>
          /\ Call(r)' \notin {line', reader'.call, ctl'.call}
          /\ \A i \in DOMAIN events' : events'[i].call # Call(r)'
    BY <2>1, <2>2, RequestTyped DEF QueueInv, Op, Call, AllInv
  <2> QED BY <2>3, <2>4, <2>5 DEF QueueInv, Op
<1> QED BY <1>1, <1>2

LEMMA EventCalls == ASSUME BaseInv, NEW i \in DOMAIN events
                    PROVE  events[i] \in [kind : {"incoming", "ended"}, call : Calls] /\ events[i].call # NoCall
<1>0. events \in Seq([kind : {"incoming", "ended"}, call : Calls]) /\ i \in 1..Len(events)
  BY DEF BaseInv, LineTypes
<1>1. events[i] \in [kind : {"incoming", "ended"}, call : Calls]
  BY <1>0, ElementOfSeq
<1> QED BY <1>1, HttpAssumption

\* Steps that leave the line and its events alone.
LEMMA QuietQueue == ASSUME QueueInv, UNCHANGED <<req, line, events, reader>>,
                           \A r \in Requests : Op(r) = "dial" =>
                              /\ begun'[req[r].key] = 0 => begun[req[r].key] = 0 /\ Call(r) # ctl'.call
                              /\ pc'[r] \in Placed => begun'[req[r].key] > 0
                    PROVE  QueueInv'
BY DEF QueueInv, Op, Call

LEMMA SameDial == ASSUME BaseInv, NEW q \in Requests, NEW r \in Requests,
                         Op(q) = "dial", Op(r) = "dial", Call(q) = Call(r)
                  PROVE  req[q] = req[r]
BY HttpAssumption DEF BaseInv, Op, Call

LEMMA WorkQueue == ASSUME AllInv, QueueInv, NEW r \in Requests, Work(r) PROVE QueueInv'
<1> USE DEF AllInv
<1>0. /\ BaseInv /\ Call(r) \in Calls /\ req[r].key \in Keys /\ req' = req
      /\ pc \in [Requests -> Stages] /\ begun \in [Keys -> Nat]
      /\ ctl \in [call : Calls \union {NoCall}, phase : Live \union {"idle", "ending", "ended"},
                  saved : Live \union {"idle"}, by : Requests \union {"nobody"}]
  BY RequestTyped, WorkTyped DEF BaseInv, WorkTypes, KeyTypes, CtlTypes, Work, Claim, Answer, Persist, Ready,
     Place, Dial, Clean, Abort, Drop, Forget, Control, Modem, Finish, Close, Rollback, Tone, Find, Erase,
     Session, Record, Keep, Reply, Goto
<1>1. CASE Place(r)
  <2>1. begun[req[r].key] = 0 /\ begun' = [begun EXCEPT ![req[r].key] = @ + 1]
    BY <1>1 DEF Place, Begin, KeyInv, Taken, Starts
  <2>2. ctl'.call \in {ctl.call, Call(r)} /\ Op(r) = "dial" /\ UNCHANGED <<line, events, reader>>
    BY <1>1 DEF Place, StageInv
  <2>3. \A q \in Requests : q # r => pc'[q] = pc[q]
    BY <1>0, <1>1 DEF Place, Goto, Reply
  <2>4. ASSUME NEW q \in Requests, Op(q) = "dial"
        PROVE  /\ begun'[req[q].key] = 0 => begun[req[q].key] = 0 /\ Call(q) # ctl'.call
               /\ pc'[q] \in Placed => begun'[req[q].key] > 0
    <3>1. req[q].key \in Keys
      BY RequestTyped
    <3>2. begun'[req[q].key] = IF req[q].key = req[r].key THEN 1 ELSE begun[req[q].key]
      BY <1>0, <2>1, <3>1
    <3>3. Call(q) = Call(r) => req[q] = req[r]
      BY <2>2, <2>4, SameDial
    <3> QED BY <1>0, <2>1, <2>2, <2>3, <2>4, <3>1, <3>2, <3>3 DEF QueueInv
  <2> QED BY <1>0, <2>2, <2>4, QuietQueue
<1>2. CASE Control(r) \/ Tone(r) \/ Find(r) \/ Session(r)
  <2>1. UNCHANGED <<line, events, reader>> /\ ctl'.call = ctl.call
    BY <1>0, <1>2 DEF Control, Move, Holds, Tone, Find, Session, lineVars
  <2>2. UNCHANGED begun \/ begun' = [begun EXCEPT ![req[r].key] = @ + 1]
    BY <1>2 DEF Control, Tone, Find, Session, Begin
  <2>3. \A k \in Keys : begun'[k] >= begun[k] /\ begun[k] \in Nat /\ begun'[k] \in Nat
    BY <1>0, <2>2
  <2>4. \A q \in Requests : Op(q) = "dial" /\ pc'[q] \in Placed => pc[q] \in Placed
    BY <1>0, <1>2 DEF Control, Tone, Find, Session, Goto, Reply, Placed
  <2>5. \A q \in Requests : req[q].key \in Keys
    BY RequestTyped
  <2> QED BY <1>0, <2>1, <2>3, <2>4, <2>5, QuietQueue DEF QueueInv
<1>3. CASE Dial(r)
  <2>1. \A q \in Requests : pc'[q] \in Placed => pc[q] \in Placed
    BY <1>0, <1>3 DEF Dial, Goto, Placed
  <2>2. UNCHANGED <<begun, events, reader, ctl>> /\ Op(r) = "dial" /\ begun[req[r].key] > 0
    BY <1>3 DEF Dial, keyVars, StageInv, QueueInv, Placed
  <2>3. CASE UNCHANGED line
    BY <1>0, <2>1, <2>2, <2>3, QuietQueue DEF QueueInv
  <2>4. CASE line = NoCall /\ line' = Call(r)
    <3>1. \A i \in DOMAIN events : events[i].call # NoCall
      BY EventCalls
    <3>2. \A q \in Requests : Op(q) = "dial" /\ begun[req[q].key] = 0 => Call(q) # Call(r)
      BY <2>2, SameDial
    <3> QED BY <1>0, <2>1, <2>2, <2>4, <3>1, <3>2 DEF QueueInv, Op, Call
  <2> QED BY <1>3, <2>3, <2>4 DEF Dial
<1>4. CASE Clean(r) \/ Modem(r)
  <2>1. \A q \in Requests : Op(q) = "dial" /\ pc'[q] \in Placed => pc[q] \in Placed
    BY <1>0, <1>4 DEF Clean, Modem, Goto, Placed
  <2>2. UNCHANGED <<req, begun, ctl, reader>> /\ (HangUpWorks \/ HangUpFails)
    BY <1>4 DEF Clean, Modem, keyVars
  <2> QED BY <2>1, <2>2, HangUpQueue DEF QueueInv
<1>5. CASE Ready(r) \/ Abort(r) \/ Drop(r) \/ Forget(r) \/ Finish(r) \/ Rollback(r)
  <2>1. UNCHANGED <<line, events, reader, begun>> /\ ctl'.call \in {ctl.call, NoCall}
    <3>1. CASE Ready(r) \/ Abort(r)
      BY <1>0, <3>1 DEF Ready, Abort, Move, Holds, keyVars
    <3>3. CASE Rollback(r)
      BY <1>0, <3>3 DEF Rollback, keyVars
    <3>2. CASE Drop(r) \/ Forget(r) \/ Finish(r)
      BY <1>0, <3>2 DEF Drop, Forget, Finish, Finished, Idle, keyVars
    <3> QED BY <1>5, <3>1, <3>2, <3>3
  <2>2. \A q \in Requests : pc'[q] \in Placed => pc[q] \in Placed
    BY <1>0, <1>5 DEF Ready, Abort, Drop, Forget, Finish, Rollback, Goto, Reply, Keep, Placed
  <2>3. \A q \in Requests : Call(q) # NoCall
    BY RequestTyped
  <2> QED BY <1>0, <2>1, <2>2, <2>3, QuietQueue DEF QueueInv
<1>6. CASE Claim(r) \/ Answer(r) \/ Persist(r) \/ Close(r) \/ Erase(r) \/ Record(r)
  <2>1. UNCHANGED <<line, events, reader, begun, ctl>>
    BY <1>6 DEF Claim, Answer, Persist, Close, Erase, Record, lineVars, keyVars
  <2>2. \A q \in Requests : pc'[q] \in Placed => pc[q] \in Placed
    BY <1>0, <1>6 DEF Claim, Answer, Persist, Close, Erase, Record, Goto, Reply, Placed
  <2> QED BY <1>0, <2>1, <2>2, QuietQueue DEF QueueInv
<1> QED BY <1>1, <1>2, <1>3, <1>4, <1>5, <1>6 DEF Work

LEMMA ModemQueue == ASSUME AllInv, QueueInv, Reader \/ FarEnd \/ \E c \in Calls : Ring(c) PROVE QueueInv'
<1> USE DEF AllInv, workVars, keyVars
<1>1. CASE FarEnd
  BY <1>1, HangUpQueue DEF FarEnd, HangUpWorks, QueueInv
<1>2. ASSUME NEW c \in Calls, Ring(c) PROVE QueueInv'
  <2>1. /\ DOMAIN events = 1..Len(events) /\ Len(events) \in Nat
        /\ DOMAIN events' = 1..(Len(events) + 1)
        /\ \A i \in DOMAIN events : events'[i] = events[i]
        /\ events'[Len(events) + 1] = [kind |-> "incoming", call |-> c]
    BY <1>2, Published DEF Ring, BaseInv
  <2>2. \A i \in DOMAIN events : events[i].call # NoCall
    BY EventCalls
  <2>3. \A r \in Requests : Op(r) = "dial" => Call(r) # c
    BY <1>2 DEF Ring
  <2>4. UNCHANGED <<req, pc, begun, ctl, reader>> /\ line = NoCall /\ line' = c
    BY <1>2 DEF Ring
  <2>5. \A i \in DOMAIN events' : events'[i].kind = "incoming" =>
          /\ \A r \in Requests : Op(r) = "dial" => Call(r) # events'[i].call
          /\ line' = events'[i].call \/ \E j \in DOMAIN events' :
                j > i /\ events'[j] = [kind |-> "ended", call |-> events'[i].call]
    <3> SUFFICES ASSUME NEW i \in DOMAIN events', events'[i].kind = "incoming"
                 PROVE  /\ \A r \in Requests : Op(r) = "dial" => Call(r) # events'[i].call
                        /\ line' = events'[i].call \/ \E j \in DOMAIN events' :
                              j > i /\ events'[j] = [kind |-> "ended", call |-> events'[i].call]
      OBVIOUS
    <3>1. CASE i = Len(events) + 1
      BY <2>1, <2>3, <2>4, <3>1
    <3>2. CASE i \in DOMAIN events
      BY <2>1, <2>2, <2>4, <3>2 DEF QueueInv
    <3> QED BY <2>1, <3>1, <3>2
  <2>6. \A r \in Requests : Op(r) = "dial" /\ begun[req[r].key] = 0 =>
          Call(r) # line' /\ \A i \in DOMAIN events' : events'[i].call # Call(r)
    BY <2>1, <2>3, <2>4 DEF QueueInv
  <2> QED BY <2>4, <2>5, <2>6 DEF QueueInv, Op, Call
<1>3. CASE Take
  <2>1. /\ DOMAIN events = 1..Len(events) /\ Len(events) \in Nat \ {0}
        /\ DOMAIN events' = 1..(Len(events) - 1)
        /\ \A i \in DOMAIN events' : events'[i] = events[i + 1]
        /\ Head(events) = events[1]
    BY <1>3, FirstTaken DEF Take, BaseInv
  <2>2. UNCHANGED <<req, pc, begun, line>>
    BY <1>3 DEF Take
  <2>3. ctl'.call \in {ctl.call, Head(events).call} /\ reader'.call \in {reader.call, Head(events).call}
    BY <1>3 DEF Take, Step
  <2>4. \A i \in DOMAIN events' : events'[i].kind = "incoming" =>
          /\ \A r \in Requests : Op(r) = "dial" => Call(r) # events'[i].call
          /\ line = events'[i].call \/ \E j \in DOMAIN events' :
                j > i /\ events'[j] = [kind |-> "ended", call |-> events'[i].call]
    <3> SUFFICES ASSUME NEW i \in DOMAIN events', events'[i].kind = "incoming"
                 PROVE  /\ \A r \in Requests : Op(r) = "dial" => Call(r) # events'[i].call
                        /\ line = events'[i].call \/ \E j \in DOMAIN events' :
                              j > i /\ events'[j] = [kind |-> "ended", call |-> events'[i].call]
      OBVIOUS
    <3>1. i + 1 \in DOMAIN events /\ events'[i] = events[i + 1]
      BY <2>1
    <3>0. \A r \in Requests : Op(r) = "dial" => Call(r) # events'[i].call
      BY <3>1 DEF QueueInv
    <3>4. CASE line = events'[i].call
      BY <3>0, <3>4
    <3>5. CASE line # events'[i].call
      <4>2. PICK j \in DOMAIN events : j > i + 1 /\ events[j] = [kind |-> "ended", call |-> events[i + 1].call]
        BY <3>1, <3>5 DEF QueueInv
      <4>3. j - 1 \in DOMAIN events' /\ j - 1 > i /\ events'[j - 1] = events[j]
        BY <2>1, <4>2
      <4> QED BY <3>0, <3>1, <4>2, <4>3
    <3> QED BY <3>4, <3>5
  <2>5. \A r \in Requests : Op(r) = "dial" /\ begun[req[r].key] = 0 =>
          /\ Call(r) \notin {line, reader'.call, ctl'.call}
          /\ \A i \in DOMAIN events' : events'[i].call # Call(r)
    BY <2>1, <2>3 DEF QueueInv
  <2> QED BY <2>2, <2>4, <2>5 DEF QueueInv, Op, Call
<1>4. CASE ReaderSave \/ ReaderFinish \/ ReaderClose
  <2>1. UNCHANGED <<req, pc, begun, line, events>>
    BY <1>4 DEF ReaderSave, ReaderFinish, ReaderClose
  <2>2. reader'.call \in {reader.call, NoCall} /\ ctl'.call \in {ctl.call, NoCall}
    BY <1>4 DEF ReaderSave, ReaderFinish, ReaderClose, Step, Rest, Finished, Idle
  <2>3. \A r \in Requests : Call(r) # NoCall
    BY RequestTyped
  <2> QED BY <2>1, <2>2, <2>3 DEF QueueInv, Op, Call
<1> QED BY <1>1, <1>2, <1>3, <1>4 DEF Reader

LEMMA WorkCtl == ASSUME AllInv, QueueInv, CtlInv, NEW r \in Requests, Work(r) PROVE CtlInv'
<1> USE DEF AllInv
<1>0. /\ Call(r) \in Calls /\ "nobody" \notin Requests /\ NoCall \notin Calls /\ req' = req
      /\ pc \in [Requests -> Stages]
      /\ ctl \in [call : Calls \union {NoCall}, phase : Live \union {"idle", "ending", "ended"},
                  saved : Live \union {"idle"}, by : Requests \union {"nobody"}]
  BY RequestTyped, WorkTyped, HttpAssumption DEF BaseInv, WorkTypes, CtlTypes, Work, Claim, Answer, Persist,
     Ready, Place, Dial, Clean, Abort, Drop, Forget, Control, Modem, Finish, Close, Rollback, Tone, Find,
     Erase, Session, Record, Keep, Reply, Goto
<1>1. CASE Claim(r) \/ Find(r) \/ (Control(r) /\ UNCHANGED ctl)
  <2>1. UNCHANGED <<ctl, reader>> /\ ctl.by # r /\ \A q \in Requests : q # r => pc'[q] = pc[q]
    BY <1>0, <1>1 DEF Claim, Find, Control, CtlInv, lineVars, Goto, Reply
  <2> QED BY <1>0, <2>1 DEF CtlInv, Op, Call
<1>2. CASE \/ Answer(r) \/ Persist(r) \/ Dial(r) \/ Clean(r) \/ Close(r) \/ Tone(r) \/ Erase(r)
           \/ Session(r) \/ Record(r) \/ Modem(r)
  <2>1. /\ UNCHANGED <<ctl, reader>> /\ \A q \in Requests : q # r => pc'[q] = pc[q]
        /\ pc'[r] \notin {"claim", "find", "place", "control", "modem"}
        /\ pc'[r] = "rollback" => pc[r] = "modem"
    BY <1>0, <1>2 DEF Answer, Persist, Dial, Clean, Close, Tone, Erase, Session, Record, Modem,
       lineVars, Goto, Reply
  <2> QED BY <1>0, <2>1 DEF CtlInv, Op, Call
<1>3. CASE Place(r)
  <2>1. Op(r) = "dial" /\ begun[req[r].key] = 0
    BY <1>3 DEF Place, StageInv, KeyInv, Taken, Starts
  <2>2. Call(r) # reader.call
    BY <2>1 DEF QueueInv
  <2>3. ctl.by = r => FALSE
    BY <1>3 DEF Place, CtlInv
  <2> QED BY <1>0, <1>3, <2>2, <2>3 DEF Place, Goto, Reply, CtlInv, Op, Call
<1>4. CASE Ready(r) \/ Abort(r)
  <2>1. PICK at \in {"persist", "release", "answer", "drop"} : pc' = [pc EXCEPT ![r] = at]
    BY <1>4 DEF Ready, Abort, Goto, Reply, Keep
  <2>2. \/ UNCHANGED ctl
        \/ \E p \in {"up", "ending"} : Move(Call(r), Live, p, r)
    BY <1>4 DEF Ready, Abort, Move, Holds, Live
  <2>3. UNCHANGED reader
    BY <1>4 DEF Ready, Abort
  <2>4. CASE UNCHANGED ctl
    BY <1>0, <2>1, <2>3, <2>4 DEF CtlInv, Op, Call
  <2>5. ASSUME NEW p \in {"up", "ending"}, Move(Call(r), Live, p, r) PROVE CtlInv'
    BY <1>0, <2>1, <2>3, <2>5 DEF CtlInv, Move, Holds, Live, Op
  <2> QED BY <2>2, <2>4, <2>5
<1>5. CASE Drop(r) \/ Forget(r) \/ Finish(r)
  <2>1. PICK p \in {"persist", "answer", "close"} : pc' = [pc EXCEPT ![r] = p]
    BY <1>5 DEF Drop, Forget, Finish, Goto, Reply, Keep
  <2>2. UNCHANGED reader /\ (UNCHANGED ctl \/ ctl' = Idle)
    BY <1>5 DEF Drop, Forget, Finish, Finished
  <2> QED BY <1>0, <2>1, <2>2 DEF CtlInv, Idle, Op, Call
<1>6. CASE Control(r) /\ ~UNCHANGED ctl
  <2>1. /\ UNCHANGED reader /\ pc' = [pc EXCEPT ![r] = "modem"]
        /\ \/ Op(r) = "answer" /\ Move(Call(r), {"incoming"}, "answering", r)
           \/ Op(r) = "hangup" /\ Move(Call(r), Live, "ending", r)
    BY <1>6 DEF Control, Goto, StageInv
  <2> QED BY <1>0, <2>1 DEF CtlInv, Move, Holds, Live, Op, Call
<1>7. CASE Rollback(r)
  <2>1. UNCHANGED reader /\ pc' = [pc EXCEPT ![r] = "answer"]
    BY <1>7 DEF Rollback, Goto, Reply
  <2>2. CASE ctl.by # r
    BY <1>0, <1>7, <2>1, <2>2 DEF Rollback, CtlInv, Op, Call
  <2>3. CASE ctl.by = r
    <3>1. ctl' = [ctl EXCEPT !.phase = ctl.saved, !.by = "nobody"]
      BY <1>7, <2>3 DEF Rollback
    <3>2. ctl.phase \in {"ending", "answering"} /\ ctl.saved \in Live
      BY <1>7, <2>3 DEF Rollback, CtlInv, StageInv, Live
    <3> QED BY <1>0, <2>1, <3>1, <3>2 DEF CtlInv, Live
  <2> QED BY <2>2, <2>3
<1> QED BY <1>1, <1>2, <1>3, <1>4, <1>5, <1>6, <1>7 DEF Work

LEMMA ReaderCtl == ASSUME AllInv, CtlInv, Reader PROVE CtlInv'
<1> USE DEF AllInv, workVars
<1>0. "nobody" \notin Requests /\ ctl.phase \in Live \union {"idle", "ending", "ended"}
  BY HttpAssumption DEF BaseInv, CtlTypes
<1>1. CASE Take
  <2>1. Head(events).call # NoCall
    BY <1>1, FirstTaken, EventCalls DEF Take, BaseInv
  <2> QED BY <1>0, <1>1, <2>1 DEF Take, Step, CtlInv, Holds, Live, Op, Call
<1>2. CASE ReaderSave
  BY <1>0, <1>2 DEF ReaderSave, Step, Rest, CtlInv, Op, Call
<1>3. CASE ReaderFinish
  BY <1>0, <1>3 DEF ReaderFinish, Step, Rest, Finished, Holds, Idle, CtlInv, Op, Call
<1>4. CASE ReaderClose
  BY <1>0, <1>4 DEF ReaderClose, Step, Rest, CtlInv, Op, Call
<1> QED BY <1>1, <1>2, <1>3, <1>4 DEF Reader

LEMMA WorkDrop == ASSUME AllInv, GhostInv, NEW r \in Requests, Work(r) PROVE DropInv'
<1> USE DEF AllInv, GhostInv
<1>0. /\ Call(r) \in Calls /\ NoCall \notin Calls /\ req' = req
      /\ pc \in [Requests -> Stages]
      /\ ctl \in [call : Calls \union {NoCall}, phase : Live \union {"idle", "ending", "ended"},
                  saved : Live \union {"idle"}, by : Requests \union {"nobody"}]
  BY RequestTyped, WorkTyped DEF BaseInv, WorkTypes, CtlTypes, Work, Claim, Answer, Persist,
     Ready, Place, Dial, Clean, Abort, Drop, Forget, Control, Modem, Finish, Close, Rollback, Tone, Find,
     Erase, Session, Record, Keep, Reply, Goto
<1> SUFFICES ASSUME NEW q \in Requests, pc'[q] = "drop", ctl'.call = Call(q)
             PROVE  ctl'.phase \in {"ending", "ended"} \/ Call(q) \in rolled'
  BY <1>0 DEF DropInv, Call
<1>a. Call(q) # NoCall /\ rolled \subseteq rolled'
  BY RequestTyped, <1>0 DEF Work, Claim, Answer, Persist, Ready, Place, Dial, Clean, Abort, Drop, Forget,
     Control, Modem, Finish, Close, Rollback, Tone, Find, Erase, Session, Record, lineVars
<1>1. CASE Abort(r)
  BY <1>0, <1>1, <1>a DEF Abort, Move, Holds, Live, Goto, DropInv, CtlInv
<1>b. CASE ~Abort(r)
  <2>0. pc[q] = "drop"
    BY <1>0, <1>b DEF Work, Claim, Answer, Persist, Ready, Place, Dial, Clean, Drop, Forget, Control,
       Modem, Finish, Close, Rollback, Tone, Find, Erase, Session, Record, Goto, Reply, Keep
  <2>1. CASE UNCHANGED <<ctl, rolled>>
    BY <2>0, <2>1 DEF DropInv
  <2>2. CASE ctl' = Idle
    BY <1>a, <2>2 DEF Idle
  <2>3. CASE Place(r) /\ ~UNCHANGED ctl
    <3>1. Op(r) = "dial" /\ Op(q) = "dial" /\ Call(q) = Call(r) /\ pc[r] = "place"
      BY <2>0, <2>3 DEF Place, StageInv
    <3>2. req[q] = req[r] /\ Taken(q) /\ Taken(r)
      BY <2>0, <3>1, SameDial DEF Taken
    <3> QED BY <2>0, <3>1, <3>2 DEF KeyInv
  <2>4. CASE Ready(r) /\ ~UNCHANGED ctl
    BY <1>0, <2>0, <2>4 DEF Ready, Move, Holds, DropInv
  <2>5. CASE Control(r) /\ ~UNCHANGED ctl
    BY <1>0, <2>0, <2>5 DEF Control, Move, Holds, DropInv
  <2>6. CASE Rollback(r) /\ ctl.by = r
    <3>1. Op(r) \in {"answer", "hangup"} /\ ctl.call = Call(r) /\ ctl'.call = ctl.call
      BY <1>0, <2>6 DEF Rollback, CtlInv, StageInv
    <3>2. CASE Op(r) = "hangup"
      BY <2>6, <3>1, <3>2 DEF Rollback
    <3>3. CASE Op(r) = "answer"
      <4>1. ctl.phase = "answering"
        BY <2>6, <3>3 DEF Rollback, CtlInv
      <4> QED BY <1>a, <2>0, <3>1, <4>1 DEF DropInv
    <3> QED BY <3>1, <3>2, <3>3
  <2> QED BY <1>b, <2>1, <2>2, <2>3, <2>4, <2>5, <2>6 DEF Work, Claim, Answer, Persist, Ready, Place, Dial,
          Clean, Drop, Forget, Control, Modem, Finish, Finished, Close, Rollback, Tone, Find, Erase, Session,
          Record, lineVars
<1> QED BY <1>1, <1>b

LEMMA WorkHeld == ASSUME AllInv, GhostInv, NEW r \in Requests, Work(r) PROVE HeldInv'
<1> USE DEF AllInv, GhostInv
<1>0. /\ Call(r) \in Calls /\ NoCall \notin Calls /\ req' = req
      /\ pc \in [Requests -> Stages]
      /\ ctl \in [call : Calls \union {NoCall}, phase : Live \union {"idle", "ending", "ended"},
                  saved : Live \union {"idle"}, by : Requests \union {"nobody"}]
  BY RequestTyped, WorkTyped DEF BaseInv, WorkTypes, CtlTypes, Work, Claim, Answer, Persist,
     Ready, Place, Dial, Clean, Abort, Drop, Forget, Control, Modem, Finish, Close, Rollback, Tone, Find,
     Erase, Session, Record, Keep, Reply, Goto
<1> SUFFICES ASSUME NEW c \in Calls, ctl'.call = c PROVE Accounted(c)'
  <2>1. ctl'.call \in Calls \union {NoCall}
    BY WorkTyped DEF BaseInv, CtlTypes
  <2> QED BY <2>1 DEF HeldInv
<1>1. CASE Place(r) /\ ~UNCHANGED ctl
  BY <1>0, <1>1 DEF Place, Goto, Accounted, Call
<1>2. CASE ~(Place(r) /\ ~UNCHANGED ctl)
  <2>1. ctl.call = c
    <3>1. CASE Ready(r) \/ Abort(r) \/ Control(r)
      BY <1>0, <3>1 DEF Ready, Abort, Control, Move, Holds
    <3>2. CASE Drop(r) \/ Forget(r) \/ Finish(r)
      BY <1>0, <3>2 DEF Drop, Forget, Finish, Finished, Idle
    <3>3. CASE Rollback(r)
      BY <1>0, <3>3 DEF Rollback
    <3> QED BY <1>2, <3>1, <3>2, <3>3 DEF Work, Claim, Answer, Persist, Place, Dial, Clean, Modem, Close,
            Tone, Find, Erase, Session, Record, lineVars
  <2>2. Accounted(c)
    BY <1>0, <2>1 DEF HeldInv
  <2>3. rolled \subseteq rolled' /\ reader' = reader
    BY DEF Work, Claim, Answer, Persist, Ready, Place, Dial, Clean, Abort, Drop, Forget,
       Control, Modem, Finish, Close, Rollback, Tone, Find, Erase, Session, Record, lineVars
  <2>4. line = c \/ EndedIn(c) => line' = c \/ EndedIn(c)'
    <3>1. CASE Clean(r) \/ Modem(r)
      <4>1. UNCHANGED <<req, begun, ctl, reader>> /\ (HangUpWorks \/ HangUpFails)
        BY <3>1 DEF Clean, Modem, keyVars
      <4>2. \A q \in Requests : Op(q) = "dial" /\ pc'[q] \in Placed => begun[req[q].key] > 0
        BY <1>0, <3>1 DEF Clean, Modem, Goto, Placed, QueueInv
      <4> QED BY <4>1, <4>2, HangUpQueue
    <3>2. CASE ~Clean(r) /\ ~Modem(r)
      <4>1. events' = events /\ (line' = line \/ line = NoCall)
        BY <3>2 DEF Work, Claim, Answer, Persist, Ready, Place, Dial, Abort, Drop, Forget,
           Control, Finish, Close, Rollback, Tone, Find, Erase, Session, Record, lineVars
      <4> QED BY <1>0, <4>1 DEF EndedIn
    <3> QED BY <3>1, <3>2
  <2>5. ASSUME NEW q \in Requests, Call(q) = c, pc[q] \in {"dial", "clean", "fail", "drop"}
        PROVE  Accounted(c)'
    <3>1. CASE pc'[q] \in {"dial", "clean", "fail", "drop"}
      BY <1>0, <2>5, <3>1 DEF Accounted, Call
    <3>2. CASE pc'[q] \notin {"dial", "clean", "fail", "drop"}
      <4>1. q = r /\ (Dial(r) \/ Drop(r))
        BY <1>0, <2>5, <3>2 DEF Work, Claim, Answer, Persist, Ready, Place, Dial, Clean, Abort, Drop, Forget,
           Control, Modem, Finish, Close, Rollback, Tone, Find, Erase, Session, Record, Goto, Reply, Keep
      <4>2. CASE Dial(r)
        <5>1. line' = Call(r)
          BY <1>0, <3>2, <4>1, <4>2 DEF Dial, Goto
        <5> QED BY <2>5, <4>1, <5>1 DEF Accounted
      <4>3. CASE Drop(r)
        <5>1. ~Holds(Call(r), {"ending", "ended"})
          BY <1>0, <4>3 DEF Drop, Finished, Idle
        <5>2. Call(r) \in rolled
          BY <2>1, <2>5, <4>1, <4>3, <5>1 DEF Drop, DropInv, Holds
        <5> QED BY <2>3, <2>5, <4>1, <5>2 DEF Accounted
      <4> QED BY <4>1, <4>2, <4>3
    <3> QED BY <3>1, <3>2
  <2> QED BY <2>1, <2>2, <2>3, <2>4, <2>5 DEF Accounted
<1> QED BY <1>1, <1>2

LEMMA ModemHeld == ASSUME AllInv, GhostInv, Reader \/ FarEnd \/ \E c \in Calls : Ring(c)
                   PROVE  DropInv' /\ HeldInv'
<1> USE DEF AllInv, GhostInv, workVars
<1>1. CASE FarEnd
  <2>1. /\ UNCHANGED <<req, pc, begun, ctl, reader, rolled>> /\ HangUpWorks
    BY <1>1 DEF FarEnd, HangUpWorks, keyVars
  <2>2. \A c \in Calls : line = c \/ EndedIn(c) => line' = c \/ EndedIn(c)'
    BY <2>1, HangUpQueue DEF QueueInv
  <2> QED BY <2>1, <2>2 DEF DropInv, HeldInv, Accounted, BaseInv, CtlTypes, Call
<1>2. ASSUME NEW c \in Calls, Ring(c) PROVE DropInv' /\ HeldInv'
  <2>1. UNCHANGED <<req, pc, ctl, reader, rolled>> /\ line = NoCall
    BY <1>2 DEF Ring
  <2>2. \A d \in Calls : EndedIn(d) => EndedIn(d)'
    <3>1. \A i \in DOMAIN events : i \in DOMAIN events' /\ events'[i] = events[i]
      <4>1. Publish("incoming", c) /\ LineTypes
        BY <1>2 DEF Ring, BaseInv
      <4>2. DOMAIN events = 1..Len(events) /\ DOMAIN events' = 1..(Len(events) + 1) /\ Len(events) \in Nat
        BY <4>1, Published
      <4>3. \A i \in DOMAIN events : events'[i] = events[i]
        BY <4>1, Published
      <4> QED BY <4>2, <4>3
    <3> QED BY <3>1 DEF EndedIn
  <2> QED BY <2>1, <2>2 DEF DropInv, HeldInv, Accounted, BaseInv, CtlTypes, Call
<1>3. CASE Take
  <2>1. /\ DOMAIN events = 1..Len(events) /\ Len(events) \in Nat \ {0}
        /\ DOMAIN events' = 1..(Len(events) - 1)
        /\ \A i \in DOMAIN events' : events'[i] = events[i + 1]
        /\ Head(events) = events[1]
    BY <1>3, FirstTaken DEF Take, BaseInv
  <2>2. events[1].kind \in {"incoming", "ended"} /\ events[1].call \in Calls
        /\ events[1] = [kind |-> events[1].kind, call |-> events[1].call]
    BY <2>1, EventCalls
  <2>3. UNCHANGED <<req, pc, line, rolled>> /\ reader.at = "idle"
    BY <1>3 DEF Take
  <2>4. ASSUME NEW j \in DOMAIN events, j > 1 PROVE \E i \in DOMAIN events' : events'[i] = events[j]
    <3>1. j - 1 \in DOMAIN events' /\ events'[j - 1] = events[j]
      BY <2>1, <2>4
    <3> QED BY <3>1
  <2>5. CASE UNCHANGED <<ctl, reader>>
    <3>1. ~(events[1].kind = "ended" /\ events[1].call = ctl.call /\ ctl.call # NoCall)
      BY <1>3, <2>1, <2>2, <2>3, <2>5 DEF Take, Holds, Live, CtlInv, BaseInv, CtlTypes, Step
    <3>2. ctl.call # NoCall /\ EndedIn(ctl.call) => EndedIn(ctl.call)'
      BY <2>1, <2>4, <2>5, <3>1 DEF EndedIn
    <3> QED BY <2>3, <2>5, <3>2 DEF DropInv, HeldInv, Accounted, Call
  <2>6. CASE ctl'.phase = "ended" /\ reader'.at = "ended" /\ reader'.call = ctl'.call
    BY <2>3, <2>6 DEF DropInv, HeldInv, Accounted, Call
  <2>7. CASE ctl'.phase = "incoming" /\ ctl'.call = events[1].call /\ events[1].kind = "incoming"
    <3>0. 1 \in DOMAIN events /\ \A j \in DOMAIN events : j \in Int
      BY <2>1
    <3>1. \A r \in Requests : pc[r] = "drop" => Call(r) # events[1].call
      BY <2>7, <3>0 DEF QueueInv, StageInv
    <3>2. ASSUME line # events[1].call
          PROVE  \E i \in DOMAIN events' : events'[i] = [kind |-> "ended", call |-> events[1].call]
      BY <2>4, <2>7, <3>0, <3>2 DEF QueueInv
    <3>3. ASSUME NEW c, c = events[1].call PROVE line = c \/ EndedIn(c)'
      BY <3>2, <3>3 DEF EndedIn
    <3> QED BY <2>3, <2>7, <3>1, <3>3 DEF DropInv, HeldInv, Accounted, Call
  <2> QED BY <1>3, <2>1, <2>2, <2>5, <2>6, <2>7 DEF Take, Step
<1>4. CASE ReaderSave \/ ReaderFinish \/ ReaderClose
  <2>1. UNCHANGED <<req, pc, line, events, rolled>> /\ (UNCHANGED ctl \/ ctl' = Idle)
    BY <1>4 DEF ReaderSave, ReaderFinish, ReaderClose, Finished
  <2>2. CASE ctl' = Idle
    BY <2>1, <2>2, RequestTyped DEF DropInv, HeldInv, Idle, Call
  <2>3. CASE UNCHANGED ctl
    <3>1. ctl.call # NoCall /\ reader.call = ctl.call /\ reader.at \in {"ended", "finish"}
            => reader'.call = ctl.call /\ reader'.at \in {"ended", "finish"}
      BY <1>4, <2>3 DEF ReaderSave, ReaderFinish, ReaderClose, Step, Rest, Finished, Holds, Idle, CtlInv
    <3> QED BY <2>1, <2>3, <3>1 DEF DropInv, HeldInv, Accounted, EndedIn, Call
  <2> QED BY <2>1, <2>2, <2>3
<1> QED BY <1>1, <1>2, <1>3, <1>4 DEF Reader

LEMMA StepGhosts == AllInv /\ GhostInv /\ [HttpNext]_httpVars => GhostInv'
<1> SUFFICES ASSUME AllInv, GhostInv, [HttpNext]_httpVars PROVE GhostInv'
  OBVIOUS
<1>1. CASE UNCHANGED <<req, pc, ctl, line, events, reader, rolled, begun>>
  BY <1>1 DEF GhostInv, QueueInv, CtlInv, DropInv, HeldInv, Accounted, EndedIn, Op, Call
<1>2. ASSUME NEW r \in Requests, Work(r) PROVE GhostInv'
  BY <1>2, WorkQueue, WorkCtl, WorkDrop, WorkHeld DEF GhostInv
<1>3. CASE Reader \/ FarEnd \/ \E c \in Calls : Ring(c)
  <2>1. CtlInv'
    <3>1. CASE Reader
      BY <3>1, ReaderCtl DEF GhostInv
    <3>2. CASE FarEnd \/ \E c \in Calls : Ring(c)
      BY <3>2 DEF FarEnd, Ring, workVars, GhostInv, CtlInv, Op, Call
    <3> QED BY <1>3, <3>1, <3>2
  <2> QED BY <1>3, <2>1, ModemQueue, ModemHeld DEF GhostInv
<1>4. CASE UNCHANGED httpVars
  BY <1>1, <1>4 DEF httpVars, workVars, lineVars, keyVars
<1>5. CASE HttpNext
  BY <1>1, <1>2, <1>3, <1>5 DEF HttpNext, Leave, Connection, PeerSave, PeerClose, workVars, lineVars, keyVars
<1> QED BY <1>4, <1>5

LEMMA InitGhosts == HttpInit => GhostInv
<1> SUFFICES ASSUME HttpInit PROVE GhostInv
  OBVIOUS
<1>1. DOMAIN events = {} /\ ctl = Idle /\ line = NoCall /\ reader.call = NoCall /\ reader.at = "idle"
  BY DEF HttpInit
<1>2. \A r \in Requests : Call(r) # NoCall
  BY InitBase, RequestTyped
<1>3. \A r \in Requests : pc[r] \in {"find", "claim"} /\ "nobody" # r
  BY HttpAssumption DEF HttpInit
<1> QED BY <1>1, <1>2, <1>3 DEF GhostInv, QueueInv, CtlInv, DropInv, HeldInv, Idle, Placed

(* The controller never holds a call that the line has lost with nobody    *)
(* left to notice: a dial that fails or is overtaken by the end of its     *)
(* call leaves no call that would refuse every later one.                  *)
THEOREM NoGhosts == HttpSpec => []NoGhostCall
<1>1. HttpInit => GhostInv
  BY InitGhosts
<1>2. AllInv /\ GhostInv /\ [HttpNext]_httpVars => GhostInv'
  BY StepGhosts
<1>3. HttpSpec => []AllInv
  BY Staged, PTL DEF AllInv
<1>4. GhostInv => NoGhostCall
  BY DEF GhostInv, HeldInv, Accounted, EndedIn, NoGhostCall
<1> QED BY <1>1, <1>2, <1>3, <1>4, PTL DEF HttpSpec

=============================================================================
