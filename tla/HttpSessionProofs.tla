-------------------------- MODULE HttpSessionProofs --------------------------
(***************************************************************************)
(* Proof that nothing of a call outlives it (HttpCalls), for any requests, *)
(* calls and bounds.  A session is closed by whoever finishes its call:    *)
(* the event reader or a hang-up.  A dial that fails finishes its call     *)
(* too and closes nothing; the proof is about why there is nothing to      *)
(* close.                                                                  *)
(***************************************************************************)
EXTENDS HttpCallsProofs

\* A call in its dial's hands that no row, session or callback names yet, and
\* none is about to: no snapshot of it is being saved, no offer has found it.
Unseen(c) ==
    /\ row[c] = "none" /\ c \notin media /\ peer[c] = "quiet" /\ reader.call # c
    /\ \A q \in Requests : Call(q) = c =>
          pc[q] \notin {"persist", "session"} /\ ~(Op(q) = "offer" /\ pc[q] = "claim")

\* A call that is over for good: a session it gets now is late.
Over(c) ==
    /\ ctl.call = c => ctl.phase = "ended" /\ ctl.by = "nobody"
    /\ c \in media => c \in late

\* Until its dial is carried out, a call is unseen, or over.
YoungInv == \A r \in Requests : Op(r) = "dial" =>
    /\ begun[req[r].key] = 0 => Unseen(Call(r))
    /\ pc[r] \in Placed => Unseen(Call(r)) \/ Over(Call(r))

\* A call that came in, or is being answered, is no dial's.
Dialled(c) == \E r \in Requests : Op(r) = "dial" /\ Call(r) = c
IncomingInv ==
    /\ {ctl.phase, ctl.saved} \intersect {"incoming", "answering"} # {} => ~Dialled(ctl.call)
    /\ \A q \in Requests : Op(q) = "answer" /\ pc[q] \in {"modem", "ready"} => ~Dialled(Call(q))

\* The property, in two parts.
RecInv == \A c \in Calls \ late : c \in rec => row[c] # "ended"
Closing(c) ==
    \/ reader.call = c /\ reader.at \in {"gone", "close"}
    \/ \E r \in Requests : Op(r) = "hangup" /\ Call(r) = c /\ (pc[r] \in {"persist", "close"} \/ r \in gone)
    \/ faults > 0
MediaInv == \A c \in Calls \ late : c \in media /\ ctl.call # c => Closing(c)

SessionInv == IncomingInv /\ YoungInv /\ RecInv /\ MediaInv

-----------------------------------------------------------------------------
(* Calls that came in.                                                     *)

LEMMA WorkIncoming == ASSUME AllInv, CtlInv, IncomingInv, NEW r \in Requests, Work(r) PROVE IncomingInv'
<1>0. /\ req' = req /\ pc \in [Requests -> Stages] /\ CtlTypes
      /\ \A c : Dialled(c)' <=> Dialled(c)
  BY DEF Work, Claim, Answer, Persist, Ready, Place, Dial, Clean, Abort, Drop, Forget, Control, Modem,
     Finish, Close, Rollback, Tone, Find, Erase, Session, Record, AllInv, BaseInv, WorkTypes, Dialled,
     Op, Call
<1>1. CASE UNCHANGED ctl /\ \E p \in Stages \ {"modem", "ready"} : pc' = [pc EXCEPT ![r] = p]
  BY <1>0, <1>1 DEF IncomingInv, Op, Call
<1>2. CASE Claim(r) \/ Answer(r) \/ Persist(r) \/ Close(r) \/ Tone(r) \/ Find(r) \/ Erase(r)
           \/ Session(r) \/ Record(r) \/ Clean(r)
  <2>1. UNCHANGED ctl
    BY <1>2 DEF Claim, Answer, Persist, Close, Tone, Find, Erase, Session, Record, Clean, lineVars
  <2>2. \E p \in Stages \ {"modem", "ready"} : pc' = [pc EXCEPT ![r] = p]
    BY <1>2 DEF Claim, Answer, Persist, Close, Tone, Find, Erase, Session, Record, Clean, Reply, Goto, Stages
  <2> QED BY <1>1, <2>1, <2>2
<1>3. CASE Dial(r)
  BY <1>0, <1>3 DEF Dial, Goto, IncomingInv, Op, Call, AllInv, StageInv
<1>4. CASE Modem(r)
  BY <1>0, <1>4 DEF Modem, Goto, IncomingInv, Op, Call
<1>5. CASE Place(r)
  <2>1. \E p \in {"dial", "answer"} : pc' = [pc EXCEPT ![r] = p]
    BY <1>5 DEF Place, Goto, Reply
  <2>2. UNCHANGED ctl \/ (ctl'.phase = "dialing" /\ ctl'.saved = "idle")
    BY <1>5 DEF Place
  <2> QED BY <1>0, <2>1, <2>2 DEF IncomingInv, Op, Call
<1>6. CASE Ready(r) \/ Abort(r)
  <2>1. \E p \in {"persist", "release", "answer", "drop"} : pc' = [pc EXCEPT ![r] = p]
    BY <1>6 DEF Ready, Abort, Goto, Reply, Keep
  <2>2. \/ UNCHANGED ctl
        \/ ctl.call = ctl'.call /\ ctl'.phase \in {"up", "ending"} /\ ctl'.saved = ctl.phase
    BY <1>6 DEF Ready, Abort, Move, Holds
  <2> QED BY <1>0, <2>1, <2>2 DEF IncomingInv, Op, Call
<1>7. CASE Drop(r) \/ Forget(r) \/ Finish(r)
  <2>1. \E p \in {"persist", "answer", "close"} : pc' = [pc EXCEPT ![r] = p]
    BY <1>7 DEF Drop, Forget, Finish, Goto, Reply, Keep
  <2>2. UNCHANGED ctl \/ ctl' = Idle
    BY <1>7 DEF Drop, Forget, Finish, Finished
  <2> QED BY <1>0, <2>1, <2>2 DEF IncomingInv, Idle, Op, Call
<1>8. CASE Control(r)
  <2>1. CASE UNCHANGED ctl /\ pc' = [pc EXCEPT ![r] = "rollback"]
    BY <1>1, <2>1 DEF Stages
  <2>2. CASE /\ pc' = [pc EXCEPT ![r] = "modem"] /\ ctl'.call = ctl.call /\ ctl.call = Call(r)
             /\ ctl'.saved = ctl.phase
             /\ \/ Op(r) = "answer" /\ ctl.phase = "incoming"
                \/ Op(r) # "answer" /\ ctl'.phase = "ending"
    BY <1>0, <2>2 DEF IncomingInv, Op, Call
  <2> QED BY <1>8, <2>1, <2>2 DEF Control, Goto, Move, Holds
<1>9. CASE Rollback(r)
  <2>1. pc' = [pc EXCEPT ![r] = "answer"]
    BY <1>9 DEF Rollback, Goto, Reply
  <2>2. UNCHANGED ctl \/ (ctl'.call = ctl.call /\ ctl'.phase = ctl.saved /\ ctl'.saved = ctl.saved)
    BY <1>0, <1>9 DEF Rollback, CtlTypes
  <2> QED BY <1>0, <2>1, <2>2 DEF IncomingInv, Op, Call
<1> QED BY <1>2, <1>3, <1>4, <1>5, <1>6, <1>7, <1>8, <1>9 DEF Work

LEMMA ReaderIncoming == ASSUME AllInv, QueueInv, IncomingInv, Reader PROVE IncomingInv'
<1>1. /\ UNCHANGED <<req, pc>> /\ \A c : Dialled(c)' <=> Dialled(c)
  BY DEF Reader, Take, ReaderSave, ReaderFinish, ReaderClose, workVars, Dialled, Op, Call
<1>2. \/ UNCHANGED ctl \/ ctl' = Idle
      \/ ctl'.phase = "ended" /\ ctl'.saved = "idle"
      \/ events # <<>> /\ ctl'.call = Head(events).call /\ Head(events).kind = "incoming"
  BY DEF Reader, Take, ReaderSave, ReaderFinish, ReaderClose, Finished
<1>3. events # <<>> /\ Head(events).kind = "incoming" => ~Dialled(Head(events).call)
  <2> SUFFICES ASSUME events # <<>>, Head(events).kind = "incoming" PROVE ~Dialled(Head(events).call)
    OBVIOUS
  <2>1. 1 \in DOMAIN events /\ Head(events) = events[1]
    BY DEF AllInv, BaseInv, LineTypes
  <2> QED BY <2>1 DEF QueueInv, Dialled
<1> QED BY <1>1, <1>2, <1>3 DEF IncomingInv, Idle, Op, Call

LEMMA StepIncoming == ASSUME AllInv, QueueInv, CtlInv, IncomingInv, [HttpNext]_httpVars PROVE IncomingInv'
<1>1. CASE UNCHANGED <<req, pc, ctl>>
  BY <1>1 DEF IncomingInv, Dialled, Op, Call
<1>2. ASSUME NEW r \in Requests, Work(r) PROVE IncomingInv'
  BY <1>2, WorkIncoming
<1>3. CASE Reader
  BY <1>3, ReaderIncoming
<1>4. CASE UNCHANGED httpVars
  BY <1>1, <1>4 DEF httpVars, workVars, lineVars
<1>5. CASE HttpNext
  BY <1>1, <1>2, <1>3, <1>5 DEF HttpNext, Leave, FarEnd, Ring, Connection, PeerSave, PeerClose, workVars, lineVars
<1> QED BY <1>4, <1>5

-----------------------------------------------------------------------------
(* Calls in their dial's hands.                                            *)

\* The dial of a call at its last step with it.
LastOf(q, c) == Op(q) = "dial" /\ Call(q) = c /\ pc[q] \in {"ready", "drop", "forget"} /\ pc'[q] \notin Placed

LEMMA WorkUnseen == ASSUME AllInv, IncomingInv, NEW c \in Calls, Dialled(c), Unseen(c), NEW q \in Requests, Work(q)
                    PROVE  Unseen(c)' \/ (ctl.call = c /\ Over(c)') \/ LastOf(q, c)
<1>0. /\ req' = req /\ pc \in [Requests -> Stages] /\ Op(q) \in Ops /\ UNCHANGED <<peer, reader>>
      /\ row \in [Calls -> {"none", "open", "ended"}] /\ Call(q) \in Calls
  BY RequestTyped DEF Work, Claim, Answer, Persist, Ready, Place, Dial, Clean, Abort, Drop, Forget, Control, Modem,
     Finish, Close, Rollback, Tone, Find, Erase, Session, Record, AllInv, BaseInv, WorkTypes, CallTypes,
     lineVars, callVars
<1>1. c \notin media' /\ row'[c] = "none"
  <2>1. c \notin media'
    BY DEF Unseen, Work, Claim, Answer, Persist, Ready, Place, Dial, Clean, Abort, Drop, Forget, Control, Modem,
       Finish, Close, Rollback, Tone, Find, Erase, Session, Record, lineVars, callVars
  <2>2. CASE Persist(q) \/ Erase(q)
    BY <1>0, <2>2 DEF Persist, Save, Erase, Unseen
  <2>3. CASE ~Persist(q) /\ ~Erase(q)
    BY <2>3 DEF Unseen, Work, Claim, Answer, Ready, Place, Dial, Clean, Abort, Drop, Forget, Control, Modem,
       Finish, Close, Rollback, Tone, Find, Session, Record, lineVars, callVars
  <2> QED BY <2>1, <2>2, <2>3
<1>2. CASE /\ \A p \in Requests : p # q => pc'[p] = pc[p]
           /\ Call(q) = c => pc'[q] \notin {"persist", "session"} /\ ~(Op(q) = "offer" /\ pc'[q] = "claim")
  BY <1>0, <1>1, <1>2 DEF Unseen, Op, Call
<1>3. \A p \in Requests : p # q => pc'[p] = pc[p]
  BY <1>0 DEF Work, Claim, Answer, Persist, Ready, Place, Dial, Clean, Abort, Drop, Forget, Control, Modem,
     Finish, Close, Rollback, Tone, Find, Erase, Session, Record, Goto, Reply, Keep
<1> SUFFICES ASSUME Call(q) = c,
                    pc'[q] \in {"persist", "session"} \/ (Op(q) = "offer" /\ pc'[q] = "claim")
             PROVE  (ctl.call = c /\ Over(c)') \/ LastOf(q, c)
  BY <1>2, <1>3
<1>4. CASE Ready(q) \/ Drop(q) \/ Forget(q)
  <2>1. Op(q) = "dial"
    BY <1>4 DEF Ready, Drop, Forget, AllInv, StageInv, IncomingInv
  <2> QED BY <1>0, <1>4, <2>1 DEF LastOf, Ready, Drop, Forget, Placed
<1>5. CASE Finish(q)
  <2>1. Finished(c)
    BY <1>0, <1>5 DEF Finish, Goto, Reply
  <2>2. c # NoCall
    BY HttpAssumption
  <2> QED BY <1>1, <2>1, <2>2 DEF Finished, Holds, Idle, Over
<1>6. CASE Claim(q) \/ Find(q)
  BY <1>0, <1>6 DEF Claim, Find, Goto, Reply, Unseen, Ops
<1> QED BY <1>0, <1>4, <1>5, <1>6 DEF Work, Answer, Persist, Place, Dial, Clean, Abort, Control, Modem,
        Close, Rollback, Tone, Erase, Session, Record, Goto, Reply, Unseen

LEMMA OutsideUnseen == ASSUME AllInv, QueueInv, NEW c \in Calls, Dialled(c), Unseen(c),
                              Reader \/ FarEnd \/ UNCHANGED httpVars \/ \E r \in Requests : Leave(r)
                              \/ \E d \in Calls : Ring(d) \/ Connection(d) \/ PeerSave(d) \/ PeerClose(d)
                       PROVE  Unseen(c)' \/ (Over(c)' /\ \E i \in DOMAIN events : events[i].call = c)
<1>0. /\ UNCHANGED <<req, pc>> /\ media' \subseteq media
      /\ row \in [Calls -> {"none", "open", "ended"}] /\ peer \in [Calls -> {"quiet", "ready", "lost", "close"}]
      /\ c # NoCall
  BY HttpAssumption DEF Reader, Take, ReaderSave, ReaderFinish, ReaderClose, FarEnd, Leave, Ring, Connection, PeerSave,
     PeerClose, httpVars, workVars, callVars, AllInv, BaseInv, CallTypes
<1>1. row'[c] = "none"
  BY <1>0 DEF Unseen, Save, Reader, Take, ReaderSave, ReaderFinish, ReaderClose, FarEnd, Leave, Ring, Connection,
     PeerSave, PeerClose, httpVars, callVars
<1>2. peer'[c] = "quiet"
  BY <1>0 DEF Unseen, Reader, Take, ReaderSave, ReaderFinish, ReaderClose, FarEnd, Leave, Ring, Connection,
     PeerSave, PeerClose, httpVars, callVars
<1>3. CASE reader'.call # c
  BY <1>0, <1>1, <1>2, <1>3 DEF Unseen, Op, Call
<1>4. CASE reader'.call = c
  <2>1. CASE Take
    <3>1. 1 \in DOMAIN events /\ Head(events) = events[1]
      BY <2>1, FirstTaken DEF Take, AllInv, BaseInv
    <3>2. CASE Head(events).kind = "incoming" /\ Head(events).call = c
      BY <3>1, <3>2 DEF QueueInv, Dialled
    <3>3. CASE Head(events).call = c /\ ctl'.phase = "ended" /\ ctl'.by = "nobody"
      BY <1>0, <3>1, <3>3 DEF Over, Unseen
    <3> QED BY <1>4, <2>1, <3>2, <3>3 DEF Take, Step, Unseen
  <2>2. CASE ~Take
    BY <1>0, <1>4, <2>2 DEF Unseen, Reader, ReaderSave, ReaderFinish, ReaderClose, Step, Rest, FarEnd, Leave, Ring,
       Connection, PeerSave, PeerClose, httpVars, lineVars
  <2> QED BY <2>1, <2>2
<1> QED BY <1>3, <1>4

\* Two dials of a call are repetitions, of which one at most is at work.
LEMMA OneDial == ASSUME AllInv, NEW q \in Requests, NEW r \in Requests, Op(q) = "dial", Op(r) = "dial",
                        Call(q) = Call(r), Taken(q), Taken(r)
                 PROVE  q = r
BY SameDial DEF AllInv, KeyInv

LEMMA WorkOver == ASSUME AllInv, NEW r \in Requests, NEW c \in Calls, Op(r) = "dial", Call(r) = c, pc[r] \in Placed,
                         Over(c), NEW q \in Requests, Work(q)
                  PROVE  Over(c)'
<1>0. /\ req' = req /\ "nobody" \notin Requests /\ Call(q) \in Calls /\ c # NoCall /\ late \subseteq late'
      /\ CtlTypes
  BY HttpAssumption, RequestTyped DEF Work, Claim, Answer, Persist, Ready, Place, Dial, Clean, Abort, Drop, Forget, Control, Modem,
     Finish, Close, Rollback, Tone, Find, Erase, Session, Record, Late, AllInv, BaseInv, callVars
<1>1. ctl'.call = c => ctl'.phase = "ended" /\ ctl'.by = "nobody"
  <2>1. CASE UNCHANGED ctl \/ ctl' = Idle
    BY <1>0, <2>1 DEF Over, Idle
  <2>2. CASE Place(q)
    <3>1. Call(q) = c => q = r
      BY <2>2, OneDial DEF Place, Taken, Placed, AllInv, StageInv
    <3>2. Call(q) # c
      BY <2>2, <3>1 DEF Place, Placed
    <3> QED BY <2>1, <2>2, <3>2 DEF Place
  <2>3. CASE Ready(q) \/ Abort(q) \/ Control(q)
    BY <2>1, <2>3 DEF Ready, Abort, Control, Move, Holds, Live, Over
  <2>4. CASE Rollback(q)
    BY <1>0, <2>1, <2>4 DEF Rollback, Over, CtlTypes
  <2>5. CASE Drop(q) \/ Forget(q) \/ Finish(q)
    BY <2>1, <2>5 DEF Drop, Forget, Finish, Finished
  <2>6. CASE Claim(q) \/ Answer(q) \/ Persist(q) \/ Dial(q) \/ Clean(q) \/ Modem(q) \/ Close(q) \/ Tone(q) \/ Find(q)
             \/ Erase(q) \/ Session(q) \/ Record(q)
    BY <2>1, <2>6 DEF Claim, Answer, Persist, Dial, Clean, Modem, Close, Tone, Find, Erase, Session, Record, lineVars
  <2> QED BY <2>2, <2>3, <2>4, <2>5, <2>6 DEF Work
<1>2. c \in media' => c \in late'
  <2>1. CASE Session(q)
    BY <1>0, <2>1 DEF Session, Late, Holds, Live, Over
  <2>2. CASE ~Session(q)
    <3>1. media' \subseteq media
      BY <2>2 DEF Work, Claim, Answer, Persist, Ready, Place, Dial, Clean, Abort, Drop, Forget, Control, Modem,
         Finish, Close, Rollback, Tone, Find, Erase, Record, callVars
    <3> QED BY <1>0, <3>1 DEF Over
  <2> QED BY <2>1, <2>2
<1> QED BY <1>1, <1>2 DEF Over

LEMMA OutsideOver == ASSUME AllInv, QueueInv, NEW c \in Calls, Dialled(c), Over(c),
                            Reader \/ FarEnd \/ UNCHANGED httpVars \/ \E r \in Requests : Leave(r)
                            \/ \E d \in Calls : Ring(d) \/ Connection(d) \/ PeerSave(d) \/ PeerClose(d)
                     PROVE  Over(c)'
<1>1. media' \subseteq media /\ late' = late
  BY DEF Reader, Take, ReaderSave, ReaderFinish, ReaderClose, FarEnd, Leave, Ring, Connection, PeerSave,
     PeerClose, httpVars, callVars
<1>2. ctl'.call = c => ctl'.phase = "ended" /\ ctl'.by = "nobody"
  <2>1. CASE Take
    <3>1. 1 \in DOMAIN events /\ Head(events) = events[1]
      BY <2>1, FirstTaken DEF Take, AllInv, BaseInv
    <3> QED BY <2>1, <3>1 DEF Take, QueueInv, Dialled, Over
  <2>2. CASE ~Take
    <3>1. UNCHANGED ctl \/ ctl' = Idle
      BY <2>2 DEF Reader, ReaderSave, ReaderFinish, ReaderClose, Finished, FarEnd, Leave, Ring,
         Connection, PeerSave, PeerClose, httpVars, lineVars
    <3> QED BY <3>1, HttpAssumption DEF Over, Idle
  <2> QED BY <2>1, <2>2
<1> QED BY <1>1, <1>2 DEF Over

LEMMA InitYoung == HttpInit => IncomingInv /\ YoungInv
<1> SUFFICES ASSUME HttpInit PROVE IncomingInv /\ YoungInv
  OBVIOUS
<1>1. \A r \in Requests : Call(r) \in Calls /\ Call(r) # NoCall /\ pc[r] \in {"find", "claim"}
                          /\ (Op(r) = "offer" => pc[r] = "find")
  BY InitBase, RequestTyped DEF HttpInit
<1>2. media = {} /\ reader.call = NoCall /\ \A c \in Calls : row[c] = "none" /\ peer[c] = "quiet"
  BY DEF HttpInit
<1>3. ctl = Idle
  BY DEF HttpInit
<1> QED BY <1>1, <1>2, <1>3 DEF IncomingInv, YoungInv, Unseen, Idle, Placed

LEMMA StepYoung == ASSUME AllInv, GhostInv, IncomingInv, YoungInv, [HttpNext]_httpVars PROVE YoungInv'
<1> USE DEF GhostInv
<1>1. ASSUME NEW q \in Requests, Work(q) PROVE YoungInv'
  <2>0. req' = req /\ BaseInv
    BY <1>1 DEF Work, Claim, Answer, Persist, Ready, Place, Dial, Clean, Abort, Drop, Forget, Control, Modem,
       Finish, Close, Rollback, Tone, Find, Erase, Session, Record, AllInv
  <2> SUFFICES ASSUME NEW r \in Requests, NEW c \in Calls, Op(r) = "dial", Call(r) = c
               PROVE  /\ begun'[req[r].key] = 0 => Unseen(c)'
                      /\ pc'[r] \in Placed => Unseen(c)' \/ Over(c)'
    BY <2>0, RequestTyped DEF YoungInv, Op, Call, Unseen, Over
  <2>1. c # NoCall /\ Dialled(c) /\ req[r].key \in Keys
    BY <2>0, RequestTyped, HttpAssumption DEF Dialled
  <2>2. begun[req[r].key] = 0 => Unseen(c)'
    <3>1. LastOf(q, c) => begun[req[r].key] # 0
      <4>1. LastOf(q, c) => begun[req[q].key] > 0 /\ req[q] = req[r]
        BY <2>0, SameDial DEF LastOf, QueueInv, Placed
      <4> QED BY <4>1
    <3> QED BY <1>1, <2>1, <3>1, WorkUnseen DEF YoungInv, QueueInv
  <2>3. begun'[req[r].key] = 0 => begun[req[r].key] = 0
    <3>1. begun \in [Keys -> Nat] /\ req[q].key \in Keys /\ (UNCHANGED begun \/ Begin(q))
      BY <1>1, <2>0, RequestTyped DEF BaseInv, KeyTypes, Work, Claim, Answer, Persist, Ready, Place, Dial, Clean, Abort, Drop,
         Forget, Control, Modem, Finish, Close, Rollback, Tone, Find, Erase, Session, Record, keyVars
    <3> QED BY <2>1, <3>1 DEF Begin
  <2>4. ASSUME pc'[r] \in Placed PROVE Unseen(c)' \/ Over(c)'
    <3>1. CASE pc[r] \in Placed /\ Over(c)
      BY <1>1, <3>1, WorkOver
    <3>2. CASE pc[r] \in Placed /\ Unseen(c)
      <4>1. ~LastOf(q, c)
        BY <2>4, <3>2, OneDial DEF LastOf, Taken, Placed
      <4> QED BY <1>1, <2>1, <3>2, <4>1, WorkUnseen
    <3>3. CASE pc[r] \notin Placed
      <4>1. q = r /\ pc[r] = "place"
        BY <1>1, <2>0, <2>4, <3>3 DEF Work, Claim, Answer, Persist, Ready, Place, Dial, Clean, Abort, Drop, Forget,
           Control, Modem, Finish, Close, Rollback, Tone, Find, Erase, Session, Record, Goto, Reply, Keep, Placed,
           BaseInv, WorkTypes, AllInv, StageInv
      <4>2. begun[req[r].key] = 0
        BY <4>1 DEF AllInv, KeyInv, Taken, Starts
      <4> QED BY <2>2, <4>2
    <3> QED BY <3>1, <3>2, <3>3 DEF YoungInv
  <2> QED BY <2>2, <2>3, <2>4
<1>2. CASE Reader \/ FarEnd \/ UNCHANGED httpVars \/ (\E r \in Requests : Leave(r))
           \/ \E d \in Calls : Ring(d) \/ Connection(d) \/ PeerSave(d) \/ PeerClose(d)
  <2>0. UNCHANGED <<req, pc, begun>> /\ BaseInv
    BY <1>2 DEF Reader, Take, ReaderSave, ReaderFinish, ReaderClose, FarEnd, Leave, Ring, Connection, PeerSave,
       PeerClose, httpVars, workVars, keyVars, AllInv
  <2> SUFFICES ASSUME NEW r \in Requests, NEW c \in Calls, Op(r) = "dial", Call(r) = c
               PROVE  /\ begun[req[r].key] = 0 => Unseen(c)'
                      /\ pc[r] \in Placed => Unseen(c)' \/ Over(c)'
    BY <2>0, RequestTyped DEF YoungInv, Op, Call, Unseen, Over
  <2>1. Dialled(c)
    BY DEF Dialled
  <2>2. begun[req[r].key] = 0 => Unseen(c)'
    BY <1>2, <2>1, OutsideUnseen DEF YoungInv, QueueInv
  <2> QED BY <1>2, <2>1, <2>2, OutsideUnseen, OutsideOver DEF YoungInv
<1> QED BY <1>1, <1>2 DEF HttpNext

-----------------------------------------------------------------------------
(* The property.                                                           *)

LEMMA StepRec == ASSUME AllInv, RecInv, [HttpNext]_httpVars PROVE RecInv'
<1>0. row \in [Calls -> {"none", "open", "ended"}]
  BY DEF AllInv, BaseInv, CallTypes
<1>1. CASE UNCHANGED <<row, rec>> /\ late \subseteq late'
  BY <1>1 DEF RecInv
<1>2. ASSUME NEW c \in Calls, NEW s, Save(c, s), late' = late PROVE RecInv'
  BY <1>0, <1>2 DEF Save, RecInv
<1>3. ASSUME NEW r \in Requests, Work(r) PROVE RecInv'
  <2>0. Call(r) \in Calls
    BY RequestTyped DEF AllInv
  <2>1. CASE Persist(r)
    BY <1>1, <1>2, <2>0, <2>1 DEF Persist
  <2>2. CASE Erase(r)
    BY <1>0, <2>0, <2>2 DEF Erase, RecInv
  <2>3. CASE Record(r)
    BY <2>0, <2>3 DEF Record, Late, RecInv
  <2>4. CASE Session(r)
    BY <1>1, <2>4 DEF Session, Late
  <2>5. CASE ~Persist(r) /\ ~Erase(r) /\ ~Record(r) /\ ~Session(r)
    BY <1>1, <1>3, <2>5 DEF Work, Claim, Answer, Ready, Place, Dial, Clean, Abort, Drop, Forget, Control, Modem, Finish,
       Close, Rollback, Tone, Find, callVars
  <2> QED BY <2>1, <2>2, <2>3, <2>4, <2>5
<1>4. CASE Reader
  <2>1. CASE ReaderSave
    BY <1>0, <1>1, <2>1 DEF ReaderSave, Save, RecInv
  <2> QED BY <1>1, <1>4, <2>1 DEF Reader, Take, ReaderFinish, ReaderClose, callVars
<1>5. ASSUME NEW c \in Calls, PeerSave(c) PROVE RecInv'
  BY <1>1, <1>2, <1>5 DEF PeerSave
<1>6. CASE UNCHANGED httpVars
  BY <1>1, <1>6 DEF httpVars, callVars
<1>7. CASE HttpNext
  BY <1>1, <1>3, <1>4, <1>5, <1>7 DEF HttpNext, Leave, FarEnd, Ring, Connection, PeerClose, callVars
<1> QED BY <1>6, <1>7

LEMMA WorkMedia == ASSUME AllInv, YoungInv, MediaInv, NEW q \in Requests, Work(q) PROVE MediaInv'
<1>0. /\ req' = req /\ UNCHANGED <<reader, gone>> /\ faults' \in 0..MaxFaults /\ faults \in Nat
      /\ (faults > 0 => faults' > 0) /\ late \subseteq late' /\ pc \in [Requests -> Stages]
  <2>1. faults' \in 0..MaxFaults /\ faults \in Nat
    BY WorkTyped, HttpAssumption DEF AllInv, BaseInv, BoundTypes
  <2>2. faults' = faults \/ faults' = faults + 1
    BY DEF Work, Claim, Answer, Persist, Ready, Place, Dial, Clean, Abort, Drop, Forget, Control, Modem,
       Finish, Close, Rollback, Tone, Find, Erase, Session, Record, Works, Fails, DbWorks, DbBreaks, bounds
  <2> QED BY <2>1, <2>2 DEF Work, Claim, Answer, Persist, Ready, Place, Dial, Clean, Abort, Drop, Forget, Control, Modem,
          Finish, Close, Rollback, Tone, Find, Erase, Session, Record, Late, lineVars, callVars, AllInv, BaseInv, WorkTypes
<1> SUFFICES ASSUME NEW c \in Calls, c \notin late', c \in media', ctl'.call # c PROVE Closing(c)'
  BY DEF MediaInv
<1>1. c \in media /\ c \notin late
  <2>1. CASE Session(q)
    <3>1. ctl' = ctl
      BY <2>1 DEF Session, lineVars
    <3> QED BY <1>0, <2>1, <3>1 DEF Session, Late, Holds
  <2>2. CASE ~Session(q)
    BY <1>0, <2>2 DEF Work, Claim, Answer, Persist, Ready, Place, Dial, Clean, Abort, Drop, Forget, Control, Modem,
       Finish, Close, Rollback, Tone, Find, Erase, Record, callVars
  <2> QED BY <2>1, <2>2
<1>2. CASE ctl.call = c
  <2>1. Finished(c) /\ Call(q) = c /\ (Drop(q) \/ Forget(q) \/ Finish(q))
    <3>1. CASE Drop(q) \/ Forget(q) \/ Finish(q)
      BY <1>2, <3>1 DEF Drop, Forget, Finish, Finished, Holds
    <3>2. CASE Place(q)
      BY <1>2, <3>2, HttpAssumption DEF Place
    <3>3. CASE Ready(q) \/ Abort(q) \/ Control(q)
      BY <1>2, <3>3 DEF Ready, Abort, Control, Move, Holds
    <3>4. CASE Rollback(q)
      BY <1>2, <3>4 DEF Rollback, AllInv, BaseInv, CtlTypes
    <3> QED BY <1>2, <3>1, <3>2, <3>3, <3>4 DEF Work, Claim, Answer, Persist, Dial, Clean, Modem, Close, Tone, Find,
            Erase, Session, Record, lineVars
  <2>2. ~(Drop(q) \/ Forget(q))
    BY <1>1, <2>1, <1>2 DEF Drop, Forget, AllInv, StageInv, YoungInv, Placed, Unseen, Over
  <2>3. Op(q) = "hangup" /\ pc'[q] = "persist"
    BY <1>0, <2>1, <2>2, <1>2 DEF Finish, Finished, Keep, Goto, Reply, Holds, Live, AllInv, StageInv
  <2> QED BY <1>0, <2>1, <2>3 DEF Closing, Op, Call
<1>3. CASE ctl.call # c
  <2>1. Closing(c)
    BY <1>1, <1>3 DEF MediaInv
  <2>2. CASE reader.call = c /\ reader.at \in {"gone", "close"}
    BY <1>0, <2>2 DEF Closing
  <2>3. CASE faults > 0
    BY <1>0, <2>3 DEF Closing
  <2>4. ASSUME NEW r \in Requests, Op(r) = "hangup", Call(r) = c, pc[r] \in {"persist", "close"} \/ r \in gone
        PROVE  Closing(c)'
    <3>1. CASE pc'[r] \in {"persist", "close"} \/ r \in gone
      BY <1>0, <2>4, <3>1 DEF Closing, Op, Call
    <3>2. CASE pc'[r] \notin {"persist", "close"} /\ r \notin gone
      <4>1. q = r /\ (Persist(q) \/ Close(q))
        BY <1>0, <2>4, <3>2 DEF Work, Claim, Answer, Persist, Ready, Place, Dial, Clean, Abort, Drop, Forget, Control, Modem,
           Finish, Close, Rollback, Tone, Find, Erase, Session, Record, Goto, Reply, Keep
      <4>2. CASE Close(q)
        BY <2>4, <4>1, <4>2 DEF Close
      <4>3. CASE Persist(q)
        <5>1. DbBreaks
          BY <1>0, <2>4, <3>2, <4>1, <4>3 DEF Persist, Fails, Goto
        <5>2. faults' > 0
          BY <1>0, <5>1 DEF DbBreaks
        <5> QED BY <5>2 DEF Closing
      <4> QED BY <4>1, <4>2, <4>3
    <3> QED BY <3>1, <3>2
  <2> QED BY <2>1, <2>2, <2>3, <2>4 DEF Closing
<1> QED BY <1>2, <1>3

LEMMA OutsideMedia == ASSUME AllInv, MediaInv,
                             Reader \/ FarEnd \/ UNCHANGED httpVars \/ (\E r \in Requests : Leave(r))
                             \/ \E d \in Calls : Ring(d) \/ Connection(d) \/ PeerSave(d) \/ PeerClose(d)
                      PROVE  MediaInv'
<1>0. /\ UNCHANGED <<req, pc, late>> /\ media' \subseteq media /\ gone \subseteq gone' /\ (faults > 0 => faults' > 0)
  <2>1. faults \in Nat /\ (faults' = faults \/ faults' = faults + 1)
    BY HttpAssumption DEF Reader, Take, ReaderSave, ReaderFinish, ReaderClose, FarEnd, Leave, Ring, Connection, PeerSave,
       PeerClose, httpVars, bounds, DbWorks, DbBreaks, AllInv, BaseInv, BoundTypes
  <2> QED BY <2>1 DEF Reader, Take, ReaderSave, ReaderFinish, ReaderClose, FarEnd, Leave, Ring, Connection, PeerSave,
          PeerClose, httpVars, workVars, callVars
<1> SUFFICES ASSUME NEW c \in Calls, c \notin late', c \in media', ctl'.call # c PROVE Closing(c)'
  BY DEF MediaInv
<1>1. CASE ctl.call = c
  BY <1>0, <1>1, HttpAssumption DEF Reader, Take, ReaderSave, ReaderFinish, ReaderClose, FarEnd, Leave, Ring, Connection,
     PeerSave, PeerClose, httpVars, lineVars, Finished, Holds, Step, Closing
<1>2. CASE ctl.call # c
  <2>1. Closing(c)
    BY <1>0, <1>2 DEF MediaInv
  <2>2. CASE reader.call = c /\ reader.at \in {"gone", "close"}
    <3>1. ~ReaderClose
      BY <2>2 DEF ReaderClose
    <3> QED BY <2>2, <3>1 DEF Reader, Take, ReaderSave, ReaderFinish, FarEnd, Leave, Ring, Connection, PeerSave,
            PeerClose, httpVars, lineVars, Step, Closing
  <2>3. CASE faults > 0 \/ \E r \in Requests : Op(r) = "hangup" /\ Call(r) = c
                                              /\ (pc[r] \in {"persist", "close"} \/ r \in gone)
    BY <1>0, <2>3 DEF Closing, Op, Call
  <2> QED BY <2>1, <2>2, <2>3 DEF Closing
<1> QED BY <1>1, <1>2

(* When a call has ended its session and its recording are gone, or on     *)
(* their way, whatever events, requests and callbacks came between: only   *)
(* what began too late, or an end that could not be saved, outlives it.    *)
THEOREM NothingOutlives == HttpSpec => []NothingOutlivesCall
<1>1. HttpInit => GhostInv /\ SessionInv
  <2>1. HttpInit => RecInv /\ MediaInv
    BY DEF HttpInit, RecInv, MediaInv
  <2> QED BY <2>1, InitGhosts, InitYoung DEF SessionInv
<1>2. AllInv /\ GhostInv /\ SessionInv /\ [HttpNext]_httpVars => GhostInv' /\ SessionInv'
  <2> SUFFICES ASSUME AllInv, GhostInv, SessionInv, [HttpNext]_httpVars PROVE GhostInv' /\ SessionInv'
    OBVIOUS
  <2>1. GhostInv'
    BY StepGhosts
  <2>2. IncomingInv' /\ YoungInv' /\ RecInv'
    BY StepIncoming, StepYoung, StepRec DEF SessionInv, GhostInv
  <2>3. MediaInv'
    BY WorkMedia, OutsideMedia DEF SessionInv, HttpNext
  <2> QED BY <2>1, <2>2, <2>3 DEF SessionInv
<1>3. HttpSpec => []AllInv
  BY Staged, PTL DEF AllInv
<1>4. SessionInv => NothingOutlivesCall
  BY DEF SessionInv, RecInv, MediaInv, Closing, NothingOutlivesCall
<1> QED BY <1>1, <1>2, <1>3, <1>4, PTL DEF HttpSpec
=============================================================================
