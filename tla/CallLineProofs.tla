--------------------------- MODULE CallLineProofs ---------------------------
(***************************************************************************)
(* Proofs about CallLine, for every number of goroutines, of calls and of  *)
(* pending lines, with every section of every goroutine interleaved.       *)
(*                                                                         *)
(* Ids are never handed out twice, so a call whose end was announced       *)
(* cannot become the marked one again (IdsKnown).  The flags of a call     *)
(* that ended are cleared by the last goroutine that has lines in hand:    *)
(* unless an exchange overtook the reader there is only one, and its lines *)
(* end with the END (EndInv).                                              *)
(***************************************************************************)
EXTENDS CallLine, SequenceTheorems, TLAPS

LEMMA BoundsFacts == MaxCall \in Nat /\ None \in CallId 
BY BoundsAssumption DEF None, CallId

\* A fresh id is a call id and not None.
LEMMA FreshFacts ==
  ASSUME LineTypeOK, NEW c \in CallId, Fresh(c)
  PROVE  c # None /\ nextId' \in CallId
BY BoundsAssumption DEF LineTypeOK, Fresh, CallId, None

LEMMA InitTyped == LineInit => LineTypeOK
<1> SUFFICES ASSUME LineInit PROVE LineTypeOK
  OBVIOUS
<1>1. emitting \in [CallId -> Nat]
  BY DEF LineInit
<1>2. op \in [Users -> [pc : Points, call : CallId]]
  BY BoundsFacts DEF LineInit, Idle, Points
<1>3. nextId \in CallId
  BY BoundsAssumption DEF LineInit, CallId
<1>4. todo \in [Handlers -> Seq(Line)] /\ urc \in Seq(Line) /\ events \in Seq(Event)
  BY DEF LineInit
<1>5. hnd \in [Handlers -> [line : Line \cup {"none"}, call : CallId]]
  BY BoundsFacts DEF LineInit
<1> QED BY <1>1, <1>2, <1>3, <1>4, <1>5, BoundsFacts DEF LineInit, LineTypeOK

OpType == [Users -> [pc : Points, call : CallId]]

\* The two ways an operation moves on.
LEMMA OpFacts ==
  ASSUME LineTypeOK, NEW u \in Users
  PROVE  /\ \A p \in Points : Goto(u, p) => op' \in OpType
         /\ Finish(u) => op' \in OpType
<1>1. op \in OpType
  BY DEF LineTypeOK, OpType
<1>2. ASSUME NEW p \in Points, Goto(u, p) PROVE op' \in OpType
  BY <1>1, <1>2 DEF Goto, OpType
<1>3. "idle" \in Points
  BY DEF Points
<1>4. ASSUME Finish(u) PROVE op' \in OpType
  <2>1. Idle \in [pc : Points, call : CallId]
    BY <1>3, BoundsFacts DEF Idle
  <2> QED BY <1>1, <1>4, <2>1 DEF Finish, OpType
<1> QED BY <1>2, <1>4

LEMMA PublishFacts ==
  ASSUME LineTypeOK, NEW e \in Event, Publish(e)
  PROVE  events' \in Seq(Event)
BY DEF LineTypeOK, Publish

LEMMA DrainFacts ==
  ASSUME LineTypeOK, NEW u \in Users, Drain(u)
  PROVE  /\ urc' \in Seq(Line)
         /\ todo' \in [Handlers -> Seq(Line)]
         /\ overtook' \in BOOLEAN
         /\ u \in Handlers /\ todo'[u] = urc
         /\ \A h \in Handlers : h # u => todo'[h] = todo[h]
         /\ UNCHANGED <<hnd, emitting>>
<1>1. u \in Handlers /\ urc \in Seq(Line)
  BY DEF LineTypeOK, Handlers
<1> QED BY <1>1 DEF LineTypeOK, Drain, Calm

LEMMA NetworkTyped == LineTypeOK /\ Network => LineTypeOK'
<1> SUFFICES ASSUME LineTypeOK, Network PROVE LineTypeOK'
  OBVIOUS
<1>1. urc' \in Seq(Line)
  <2>1. \A l \in Line : urc \o <<l>> \in Seq(Line)
    BY DEF LineTypeOK
  <2> QED BY <2>1 DEF LineTypeOK, Network, NetRing, NetClip, NetEnd, Arrives, Line
<1>2. cell' \in {"none", "incoming", "up"} /\ unheard' \in BOOLEAN
  BY DEF LineTypeOK, Network, NetRing, NetClip, NetEnd, moduleVars
<1> QED BY <1>1, <1>2 DEF LineTypeOK, Network, atVars, acaVars

LEMMA DispatchTyped == LineTypeOK /\ Dispatch => LineTypeOK'
<1> SUFFICES ASSUME LineTypeOK, NEW h \in Handlers,
                    Handle(h) \/ OnClip(h) \/ OnRingOpen(h) \/ OnRing(h) \/ OnEnd(h)
             PROVE  LineTypeOK'
  BY DEF Dispatch
<1>1. CASE Handle(h)
  <2>1. todo[h] \in Seq(Line) /\ todo[h] # <<>>
    BY <1>1 DEF LineTypeOK, Handle
  <2>2. Head(todo[h]) \in Line /\ Tail(todo[h]) \in Seq(Line)
    BY <2>1
  <2>3. todo' \in [Handlers -> Seq(Line)]
    BY <1>1, <2>2 DEF LineTypeOK, Handle
  <2>4. hnd' \in [Handlers -> [line : Line \cup {"none"}, call : CallId]]
    <3>1. (IF Head(todo[h]) = "CLIP" THEN None ELSE active) \in CallId
      BY BoundsFacts DEF LineTypeOK
    <3> QED BY <1>1, <2>2, <3>1 DEF LineTypeOK, Handle
  <2> QED BY <1>1, <2>3, <2>4 DEF LineTypeOK, Handle, atVars, acaVars, moduleVars
<1>2. CASE OnClip(h)
  BY <1>2, BoundsFacts DEF LineTypeOK, OnClip, Free, acaVars, moduleVars
<1>3. CASE OnRingOpen(h)
  <2>1. PICK c \in CallId : Fresh(c) /\ active' = c /\ hnd' = [hnd EXCEPT ![h].call = c]
    BY <1>3 DEF OnRingOpen
  <2>2. nextId' \in CallId
    BY <2>1, FreshFacts
  <2>3. hnd' \in [Handlers -> [line : Line \cup {"none"}, call : CallId]]
    BY <2>1 DEF LineTypeOK
  <2> QED BY <1>3, <2>1, <2>2, <2>3 DEF LineTypeOK, OnRingOpen, acaVars, moduleVars
<1>4. CASE OnRing(h)
  <2>1. hnd[h].call \in CallId
    BY DEF LineTypeOK
  <2>2. emitting' \in [CallId -> Nat]
    BY <1>4, <2>1 DEF LineTypeOK, OnRing
  <2>3. hnd' \in [Handlers -> [line : Line \cup {"none"}, call : CallId]]
    BY <1>4, BoundsFacts DEF LineTypeOK, OnRing, Free
  <2> QED BY <1>4, <2>2, <2>3 DEF LineTypeOK, OnRing, acaVars, moduleVars
<1>5. CASE OnEnd(h)
  <2>1. [kind |-> "ended", call |-> hnd[h].call] \in Event
    BY DEF LineTypeOK, Event
  <2>2. events' \in Seq(Event)
    BY <1>5, <2>1, PublishFacts DEF OnEnd
  <2>3. hnd' \in [Handlers -> [line : Line \cup {"none"}, call : CallId]]
    BY <1>5, BoundsFacts DEF LineTypeOK, OnEnd, Free
  <2>4. active' \in CallId
    BY <1>5, BoundsFacts DEF LineTypeOK, OnEnd
  <2> QED BY <1>5, <2>2, <2>3, <2>4 DEF LineTypeOK, OnEnd, acaVars, moduleVars
<1> QED BY <1>1, <1>2, <1>3, <1>4, <1>5

LEMMA ControlTyped == LineTypeOK /\ (\E u \in Users : Control(u)) => LineTypeOK'
<1> SUFFICES ASSUME LineTypeOK, NEW u \in Users, Control(u)
             PROVE  LineTypeOK'
  OBVIOUS
<1>0. op \in OpType /\ TRUE \in BOOLEAN /\ FALSE \in BOOLEAN
  BY DEF LineTypeOK, OpType
<1>1. op' \in OpType
  <2>1. CASE Begin(u)
    <3>1. PICK o \in Ops : op' = [op EXCEPT ![u] = [pc |-> o, call |-> None]]
      BY <2>1 DEF Begin
    <3>2. o \in Points
      BY OpsAssumption DEF Points
    <3> QED BY <1>0, <3>1, <3>2, BoundsFacts DEF OpType
  <2>2. CASE DialMark(u)
    <3>1. PICK c \in CallId : op' = [op EXCEPT ![u].pc = "track", ![u].call = c]
      BY <2>2 DEF DialMark
    <3>2. op[u] \in [pc : Points, call : CallId] /\ "track" \in Points
      BY <1>0 DEF OpType, Points
    <3>3. [op[u] EXCEPT !.pc = "track", !.call = c] \in [pc : Points, call : CallId]
      BY <3>2
    <3> QED BY <1>0, <3>1, <3>3 DEF OpType
  <2>3. CASE WithActive(u)
    <3>1. tracked \in CallId /\ op[u] \in [pc : Points, call : CallId]
      BY DEF LineTypeOK
    <3>2. {"ata?", "ath?"} \subseteq Points
      BY DEF Points
    <3>3. \A p \in {"ata?", "ath?"} :
            [op[u] EXCEPT !.call = tracked, !.pc = p] \in [pc : Points, call : CallId]
      BY <3>1, <3>2
    <3> QED BY <2>3, <1>0, <3>3, OpFacts DEF WithActive, OpType
  <2>4. CASE DialCheck(u) \/ DialATD(u) \/ DialTrack(u)
    BY <2>4, OpFacts DEF DialCheck, DialATD, DialTrack, Points
  <2>5. CASE ValidateActive(u) \/ AnswerATA(u) \/ HangupATH(u)
    BY <2>5, OpFacts DEF ValidateActive, AnswerATA, HangupATH, Points
  <2>6. CASE HangupFinish(u) \/ HangupUntrack(u) \/ ReapList(u) \/ ReapClear(u)
    BY <2>6, OpFacts DEF HangupFinish, HangupUntrack, ReapList, ReapClear, Points
  <2>7. CASE ReapRecheck(u) \/ ReapReset(u) \/ Poll(u)
    BY <2>7, OpFacts DEF ReapRecheck, ReapReset, Poll, Points
  <2> QED BY <2>1, <2>2, <2>3, <2>4, <2>5, <2>6, <2>7 DEF Control
<1>2. /\ urc' \in Seq(Line) /\ todo' \in [Handlers -> Seq(Line)] /\ overtook' \in BOOLEAN
      /\ UNCHANGED <<hnd, emitting>>
  <2>1. CASE Drain(u)
    BY <2>1, DrainFacts
  <2>2. CASE UNCHANGED urcVars
    BY <2>2 DEF urcVars, LineTypeOK
  <2>3. CASE HangupFinish(u)
    BY <2>3 DEF HangupFinish, LineTypeOK
  <2> QED BY <2>1, <2>2, <2>3 DEF Control, Begin, DialCheck, DialATD, DialMark,
        DialTrack, WithActive, ValidateActive, AnswerATA, HangupATH,
        HangupUntrack, ReapList, ReapClear, ReapRecheck, ReapReset, Poll
<1>3. active' \in CallId /\ nextId' \in CallId
  <2>1. CASE DialMark(u)
    BY <2>1, FreshFacts DEF DialMark
  <2>2. CASE HangupFinish(u)
    BY <2>2, BoundsFacts DEF HangupFinish, LineTypeOK
  <2>3. CASE UNCHANGED <<active, nextId>>
    BY <2>3 DEF LineTypeOK
  <2> QED BY <2>1, <2>2, <2>3 DEF Control, Begin, DialCheck, DialATD,
        DialTrack, WithActive, ValidateActive, AnswerATA, HangupATH, HangupUntrack,
        ReapList, ReapClear, ReapRecheck, ReapReset, Poll, atVars
<1>4. incomingSent' \in BOOLEAN /\ pendingPeer' \in BOOLEAN
  BY DEF LineTypeOK, Control, Begin, DialCheck, DialATD, DialMark,
        DialTrack, WithActive, ValidateActive, AnswerATA, HangupATH, HangupFinish,
        HangupUntrack, ReapList, ReapClear, ReapRecheck, ReapReset, Poll, atVars
<1>5. cell' \in {"none", "incoming", "up"} /\ unheard' \in BOOLEAN
  BY DEF LineTypeOK, Control, Begin, DialCheck, DialATD, DialMark,
        DialTrack, WithActive, ValidateActive, AnswerATA, HangupATH, HangupFinish,
        HangupUntrack, ReapList, ReapClear, ReapRecheck, ReapReset, Poll, EndsUnheard, moduleVars
<1>6. events' \in Seq(Event)
  <2>1. CASE HangupFinish(u)
    <3>1. [kind |-> "ended", call |-> op[u].call] \in Event
      BY DEF LineTypeOK, Event
    <3> QED BY <2>1, <3>1, PublishFacts DEF HangupFinish
  <2>2. CASE UNCHANGED events
    BY <2>2 DEF LineTypeOK
  <2> QED BY <2>1, <2>2 DEF Control, Begin, DialCheck, DialATD, DialMark,
        DialTrack, WithActive, ValidateActive, AnswerATA, HangupATH, HangupUntrack,
        ReapList, ReapClear, ReapRecheck, ReapReset, Poll
<1>7. tracked' \in CallId /\ lastPhysical' \in CallId
  <2>1. CASE DialTrack(u)
    <3>1. op[u].call \in CallId
      BY DEF LineTypeOK
    <3> QED BY <2>1, <3>1, BoundsFacts DEF LineTypeOK, DialTrack
  <2>2. CASE HangupUntrack(u) \/ ReapReset(u)
    BY <2>2, BoundsFacts DEF LineTypeOK, HangupUntrack, ReapReset
  <2>3. CASE UNCHANGED acaVars
    BY <2>3 DEF LineTypeOK, acaVars, moduleVars
  <2> QED BY <2>1, <2>2, <2>3 DEF Control, Begin, DialCheck, DialATD, DialMark,
        WithActive, ValidateActive, AnswerATA, HangupATH, HangupFinish, ReapList,
        ReapClear, ReapRecheck, Poll
<1>8. hnd \in [Handlers -> [line : Line \cup {"none"}, call : CallId]]
      /\ emitting \in [CallId -> Nat]
  BY DEF LineTypeOK
<1> QED BY <1>1, <1>2, <1>3, <1>4, <1>5, <1>6, <1>7, <1>8 DEF LineTypeOK, OpType

LEMMA StepTyped == LineTypeOK /\ [LineNext]_lineVars => LineTypeOK'
<1> SUFFICES ASSUME LineTypeOK, [LineNext]_lineVars PROVE LineTypeOK'
  OBVIOUS
<1>1. CASE ReadIdle
  <2>1. urc' \in Seq(Line)
    BY <1>1 DEF ReadIdle
  <2>2. todo' \in [Handlers -> Seq(Line)]
    BY <1>1 DEF LineTypeOK, ReadIdle
  <2> QED BY <1>1, <2>1, <2>2 DEF LineTypeOK, ReadIdle, atVars, acaVars, moduleVars
<1>2. CASE Forward
  <2>1. Head(events) \in Event /\ Tail(events) \in Seq(Event)
    BY <1>2 DEF LineTypeOK, Forward
  <2>2. Head(events).call \in CallId
    BY <2>1 DEF Event
  <2>3. tracked' \in CallId /\ lastPhysical' \in CallId
    BY <1>2, <2>2, BoundsFacts DEF LineTypeOK, Forward
  <2> QED BY <1>2, <2>1, <2>3 DEF LineTypeOK, Forward, urcVars, atVars, moduleVars
<1>3. CASE \E c \in CallId : EmitIncoming(c)
  <2>1. PICK c \in CallId : EmitIncoming(c)
    BY <1>3
  <2>2. [kind |-> "incoming", call |-> c] \in Event
    BY DEF Event
  <2>3. events' \in Seq(Event)
    BY <2>1, <2>2, PublishFacts DEF EmitIncoming
  <2>4. emitting' \in [CallId -> Nat]
    BY <2>1 DEF LineTypeOK, EmitIncoming
  <2> QED BY <2>1, <2>3, <2>4 DEF LineTypeOK, EmitIncoming, acaVars, moduleVars
<1>4. CASE UNCHANGED lineVars
  BY <1>4 DEF LineTypeOK, lineVars, urcVars, atVars, acaVars, moduleVars
<1> QED BY <1>1, <1>2, <1>3, <1>4, NetworkTyped, DispatchTyped, ControlTyped DEF LineNext

\* Every variable keeps its type, for every number of users, calls and lines.
THEOREM LineTypes == LineSpec => []LineTypeOK
<1> QED BY InitTyped, StepTyped, PTL DEF LineSpec
-----------------------------------------------------------------------------
(* The ids of calls.                                                       *)

\* Every id in use was handed out.
IdsKnown ==
  /\ active <= nextId /\ tracked <= nextId
  /\ \A h \in Handlers : hnd[h].call <= nextId
  /\ \A u \in Users : op[u].call <= nextId
  /\ \A i \in DOMAIN events : events[i].call <= nextId
  /\ \A c \in CallId : emitting[c] > 0 => c <= nextId

IdInv == LineTypeOK /\ IdsKnown /\ EndedIsOver

\* Ids are numbers.
LEMMA NumberFacts ==
  ASSUME LineTypeOK
  PROVE  /\ nextId \in Nat /\ active \in Nat /\ tracked \in Nat
         /\ \A h \in Handlers : hnd[h].call \in CallId /\ hnd[h].call \in Nat
         /\ \A u \in Users : op[u].call \in CallId /\ op[u].call \in Nat
         /\ \A i \in DOMAIN events : events[i].call \in Nat
<1>1. CallId \subseteq Nat
  BY BoundsAssumption DEF CallId
<1>2. nextId \in CallId /\ active \in CallId /\ tracked \in CallId
  BY DEF LineTypeOK
<1>3. \A h \in Handlers : hnd[h].call \in CallId
  BY DEF LineTypeOK
<1>4. \A u \in Users : op[u].call \in CallId
  BY DEF LineTypeOK
<1>5. \A i \in DOMAIN events : events[i].call \in CallId
  <2>1. events \in Seq(Event)
    BY DEF LineTypeOK
  <2>2. \A i \in DOMAIN events : events[i] \in Event
    BY <2>1
  <2> QED BY <2>2 DEF Event
<1> QED BY <1>1, <1>2, <1>3, <1>4, <1>5

\* An event is appended, dropped or was there before.
LEMMA PublishedFacts ==
  ASSUME LineTypeOK, NEW e \in Event, Publish(e)
  PROVE  \A i \in DOMAIN events' :
           events'[i] = e \/ (i \in DOMAIN events /\ events'[i] = events[i])
BY DEF LineTypeOK, Publish

LEMMA DispatchIds ==
  ASSUME IdInv, LineTypeOK', NEW h \in Handlers,
         Handle(h) \/ OnClip(h) \/ OnRingOpen(h) \/ OnRing(h) \/ OnEnd(h)
  PROVE  IdsKnown' /\ EndedIsOver'
<1>0. /\ LineTypeOK /\ nextId \in Nat /\ active \in Nat /\ hnd[h].call \in CallId
      /\ \A g \in Handlers : hnd[g].call \in Nat
  BY NumberFacts DEF IdInv
<1>1. CASE Handle(h)
  <2>1. /\ UNCHANGED <<active, tracked, op, events, emitting, nextId>>
        /\ hnd'[h].call \in {None, active} /\ \A g \in Handlers : g # h => hnd'[g] = hnd[g]
    BY <1>0, <1>1 DEF Handle, LineTypeOK, atVars, acaVars
  <2> QED BY <1>0, <2>1 DEF IdInv, IdsKnown, EndedIsOver, None
<1>2. CASE OnClip(h)
  <2>1. /\ UNCHANGED <<active, tracked, op, events, emitting, nextId>>
        /\ hnd'[h].call = None /\ \A g \in Handlers : g # h => hnd'[g] = hnd[g]
    BY <1>0, <1>2 DEF OnClip, Free, LineTypeOK, acaVars
  <2> QED BY <1>0, <2>1 DEF IdInv, IdsKnown, EndedIsOver, None
<1>3. CASE OnRingOpen(h)
  <2>1. PICK c \in CallId : Fresh(c) /\ active' = c /\ hnd' = [hnd EXCEPT ![h].call = c]
    BY <1>3 DEF OnRingOpen
  <2>2. c = nextId + 1 /\ nextId' = nextId + 1 /\ hnd'[h].call = c
        /\ \A g \in Handlers : g # h => hnd'[g] = hnd[g]
    BY <1>0, <2>1 DEF Fresh, LineTypeOK
  <2>3. UNCHANGED <<tracked, op, events, emitting>>
    BY <1>3 DEF OnRingOpen, acaVars
  <2>4. tracked \in Nat /\ \A u \in Users : op[u].call \in Nat
    BY <1>0, BoundsAssumption DEF LineTypeOK, CallId
  <2>5. \A i \in DOMAIN events : events[i].call \in Nat
    BY <1>0, NumberFacts
  <2>6. CallId \subseteq Nat
    BY BoundsAssumption DEF CallId
  <2>7. \A x \in Nat : x <= nextId => x <= nextId' /\ x # c
    BY <1>0, <2>2
  <2>8. IdsKnown'
    BY <1>0, <2>1, <2>2, <2>3, <2>4, <2>5, <2>6, <2>7 DEF IdInv, IdsKnown
  <2>9. EndedIsOver'
    BY <2>1, <2>3, <2>5, <2>7 DEF IdInv, IdsKnown, EndedIsOver
  <2> QED BY <2>8, <2>9
<1>4. CASE OnRing(h)
  <2>1. /\ UNCHANGED <<active, tracked, op, events, nextId>>
        /\ hnd'[h].call = None /\ \A g \in Handlers : g # h => hnd'[g] = hnd[g]
        /\ \A c \in CallId : emitting'[c] > 0 => emitting[c] > 0 \/ c = hnd[h].call
    BY <1>0, <1>4 DEF OnRing, Free, LineTypeOK, acaVars
  <2> QED BY <1>0, <2>1 DEF IdInv, IdsKnown, EndedIsOver, None
<1>5. CASE OnEnd(h)
  <2> DEFINE e == [kind |-> "ended", call |-> hnd[h].call]
  <2>1. /\ UNCHANGED <<tracked, op, emitting, nextId>> /\ active' \in {None, active}
        /\ hnd'[h].call = None /\ \A g \in Handlers : g # h => hnd'[g] = hnd[g]
        /\ hnd[h].call # None => active' # hnd[h].call
    BY <1>0, <1>5 DEF OnEnd, Free, LineTypeOK, acaVars
  <2>2. \A i \in DOMAIN events' :
          events'[i] = e \/ (i \in DOMAIN events /\ events'[i] = events[i])
    <3>1. e \in Event
      BY <1>0 DEF Event
    <3> QED BY <1>0, <1>5, <3>1, PublishedFacts DEF OnEnd
  <2>3. IdsKnown'
    BY <1>0, <2>1, <2>2 DEF IdInv, IdsKnown, None
  <2>4. EndedIsOver'
    BY <2>1, <2>2 DEF IdInv, EndedIsOver
  <2> QED BY <2>3, <2>4
<1> QED BY <1>1, <1>2, <1>3, <1>4, <1>5

LEMMA ControlIds ==
  ASSUME IdInv, LineTypeOK', NEW u \in Users, Control(u)
  PROVE  IdsKnown' /\ EndedIsOver'
<1>0. /\ LineTypeOK /\ nextId \in Nat /\ active \in Nat /\ op[u].call \in CallId
      /\ tracked \in Nat /\ \A v \in Users : op[v].call \in Nat
  BY NumberFacts DEF IdInv
<1>1. /\ UNCHANGED <<emitting>> /\ \A h \in Handlers : hnd'[h] = hnd[h]
      /\ \A v \in Users : v # u => op'[v] = op[v]
  BY <1>0 DEF LineTypeOK, Control, Begin, DialCheck, DialATD, DialMark, DialTrack,
        WithActive, ValidateActive, AnswerATA, HangupATH, HangupFinish, HangupUntrack,
        ReapList, ReapClear, ReapRecheck, ReapReset, Poll, Goto, Finish, urcVars, Drain
<1>2. CASE DialMark(u)
  <2>1. PICK c \in CallId : Fresh(c) /\ active' = c
                            /\ op' = [op EXCEPT ![u].pc = "track", ![u].call = c]
    BY <1>2 DEF DialMark
  <2>2. c = nextId + 1 /\ nextId' = nextId + 1 /\ op'[u].call = c
    BY <1>0, <2>1 DEF Fresh, LineTypeOK
  <2>3. UNCHANGED <<tracked, events>>
    BY <1>2 DEF DialMark, acaVars
  <2>4. \A h \in Handlers : hnd[h].call \in Nat
    BY <1>0, BoundsAssumption DEF LineTypeOK, CallId
  <2>5. \A i \in DOMAIN events : events[i].call \in Nat
    BY <1>0, NumberFacts
  <2>6. CallId \subseteq Nat
    BY BoundsAssumption DEF CallId
  <2>7. \A x \in Nat : x <= nextId => x <= nextId' /\ x # c
    BY <1>0, <2>2
  <2>8. IdsKnown'
    <3>1. active' <= nextId' /\ tracked' <= nextId'
      BY <1>0, <2>1, <2>2, <2>3, <2>7 DEF IdInv, IdsKnown
    <3>2. \A h \in Handlers : hnd'[h].call <= nextId'
      BY <1>1, <2>4, <2>7 DEF IdInv, IdsKnown
    <3>3. \A v \in Users : op'[v].call <= nextId'
      BY <1>0, <1>1, <2>2, <2>7 DEF IdInv, IdsKnown
    <3>4. \A i \in DOMAIN events' : events'[i].call <= nextId'
      BY <2>3, <2>5, <2>7 DEF IdInv, IdsKnown
    <3>5. \A c2 \in CallId : emitting'[c2] > 0 => c2 <= nextId'
      BY <1>1, <2>6, <2>7 DEF IdInv, IdsKnown
    <3> QED BY <3>1, <3>2, <3>3, <3>4, <3>5 DEF IdsKnown
  <2>9. EndedIsOver'
    BY <2>1, <2>3, <2>5, <2>7 DEF IdInv, IdsKnown, EndedIsOver
  <2> QED BY <2>8, <2>9
<1>3. CASE HangupFinish(u)
  <2> DEFINE e == [kind |-> "ended", call |-> op[u].call]
  <2>1. /\ UNCHANGED <<tracked, nextId>> /\ active' \in {None, active}
        /\ op'[u].call = op[u].call
        /\ op[u].call # None => active' # op[u].call
    BY <1>0, <1>3 DEF HangupFinish, Goto, LineTypeOK, acaVars
  <2>2. \A i \in DOMAIN events' :
          events'[i] = e \/ (i \in DOMAIN events /\ events'[i] = events[i])
    <3>1. e \in Event
      BY <1>0 DEF Event
    <3> QED BY <1>0, <1>3, <3>1, PublishedFacts DEF HangupFinish
  <2>3. IdsKnown'
    BY <1>0, <1>1, <2>1, <2>2 DEF IdInv, IdsKnown, None
  <2>4. EndedIsOver'
    BY <2>1, <2>2 DEF IdInv, EndedIsOver
  <2> QED BY <2>3, <2>4
<1>4. CASE UNCHANGED <<active, events, nextId>> /\ tracked' \in {None, tracked, op[u].call}
           /\ op'[u].call \in {None, tracked, op[u].call}
  BY <1>0, <1>1, <1>4 DEF IdInv, IdsKnown, EndedIsOver, None
<1>5. Begin(u) \/ WithActive(u) => op'[u].call \in {None, tracked, op[u].call}
  BY <1>0 DEF LineTypeOK, Begin, WithActive, Finish, Idle
<1>6. \A p \in Points : Goto(u, p) => op'[u].call = op[u].call
  BY <1>0 DEF LineTypeOK, Goto
<1>7. Finish(u) => op'[u].call = None
  BY <1>0 DEF LineTypeOK, Finish, Idle
<1>8. DialTrack(u) \/ HangupUntrack(u) \/ ReapReset(u) =>
        tracked' \in {None, op[u].call} /\ UNCHANGED <<active, events, nextId>> /\ op'[u].call = None
  BY <1>7 DEF DialTrack, HangupUntrack, ReapReset, atVars
<1> QED BY <1>2, <1>3, <1>4, <1>5, <1>6, <1>7, <1>8 DEF Control, DialCheck, DialATD,
        WithActive, Begin, ValidateActive, AnswerATA, HangupATH,
        ReapList, ReapClear, ReapRecheck, Poll, Points, atVars, acaVars

LEMMA StepIds == IdInv /\ [LineNext]_lineVars => IdInv'
<1> SUFFICES ASSUME IdInv, [LineNext]_lineVars PROVE IdInv'
  OBVIOUS
<1>0. LineTypeOK /\ LineTypeOK'
  BY StepTyped DEF IdInv
<1>1. CASE UNCHANGED <<active, tracked, hnd, op, events, emitting, nextId>>
  BY <1>0, <1>1 DEF IdInv, IdsKnown, EndedIsOver
<1>2. CASE Forward
  <2>1. /\ UNCHANGED <<active, hnd, op, emitting, nextId>> /\ 1 \in DOMAIN events
        /\ tracked' \in {None, tracked, events[1].call}
        /\ \A i \in DOMAIN events' : i + 1 \in DOMAIN events /\ events'[i] = events[i + 1]
    BY <1>0, <1>2 DEF Forward, LineTypeOK, urcVars, atVars
  <2>2. nextId \in Nat
    BY <1>0, BoundsAssumption DEF LineTypeOK, CallId
  <2> QED BY <1>0, <2>1, <2>2 DEF IdInv, IdsKnown, EndedIsOver, None
<1>3. CASE \E c \in CallId : EmitIncoming(c)
  <2>1. PICK c \in CallId : EmitIncoming(c)
    BY <1>3
  <2>2. \A i \in DOMAIN events' : events'[i] = [kind |-> "incoming", call |-> c]
                                  \/ (i \in DOMAIN events /\ events'[i] = events[i])
    <3>1. [kind |-> "incoming", call |-> c] \in Event
      BY DEF Event
    <3> QED BY <1>0, <2>1, <3>1, PublishedFacts DEF EmitIncoming
  <2>3. /\ UNCHANGED <<active, tracked, hnd, op, nextId>> /\ emitting[c] > 0
        /\ \A d \in CallId : emitting'[d] > 0 => emitting[d] > 0
    BY <1>0, <2>1 DEF EmitIncoming, LineTypeOK, acaVars
  <2> QED BY <1>0, <2>2, <2>3 DEF IdInv, IdsKnown, EndedIsOver
<1> QED BY <1>0, <1>1, <1>2, <1>3, DispatchIds, ControlIds DEF IdInv, LineNext, Network, Dispatch,
        ReadIdle, lineVars, urcVars, atVars, acaVars

LEMMA InitIds == LineInit => IdInv
BY InitTyped DEF LineInit, IdInv, IdsKnown, EndedIsOver, None, Idle

\* However the sections of all goroutines interleave, a call whose end was
\* announced is not the marked one and never will be again.
THEOREM EndedOver == LineSpec => []EndedIsOver
<1>1. IdInv => EndedIsOver
  BY DEF IdInv
<1> QED BY <1>1, InitIds, StepIds, PTL DEF LineSpec
-----------------------------------------------------------------------------
(* What is left of a call that ended.                                      *)

\* At most one goroutine has lines in hand.
OneDispatcher ==
  \A g, h \in Handlers : ~Dispatched(g) /\ ~Dispatched(h) => g = h

\* The last thing a string of lines says is that the call ended.
SaysEnd(lines) == lines # <<>> /\ lines[Len(lines)] = "END"

\* Of a module without a call nothing is unread but what ends with an END.
EndIsLast == cell = "none" => urc = <<>> \/ SaysEnd(urc)

\* What h has in hand ends with an END.
EndInHand(h) == SaysEnd(todo[h]) \/ (todo[h] = <<>> /\ hnd[h].line = "END")

\* A hangup of h was answered and its finishActive is still to come.
Finishing(h) == h \in Users /\ op[h].pc = "finish"

\* The module's call is over, said so, and every line about it was read in turn.
ReadInTurn == cell = "none" /\ ~unheard /\ ~overtook /\ urc = <<>>

\* What NothingLeftOfLastCall needs to be inductive: whoever still has lines in
\* hand will clear the flags last; if nobody has, they are clear.
EndInv ==
  /\ LineTypeOK
  /\ ~overtook => OneDispatcher
  /\ EndIsLast
  /\ ReadInTurn =>
       /\ \A h \in Handlers : Dispatched(h) \/ EndInHand(h) \/ Finishing(h)
       /\ Calm /\ (\A h \in Handlers : ~Finishing(h)) => ~incomingSent /\ ~pendingPeer

LEMMA SaysEndTail ==
  ASSUME NEW s \in Seq(Line), NEW t \in Seq(Line), SaysEnd(s), Len(t) = Len(s) - 1,
         \A i \in 1 .. Len(t) : t[i] = s[i + 1]
  PROVE  IF t = <<>> THEN s[1] = "END" ELSE SaysEnd(t)
<1>1. Len(s) \in Nat /\ Len(t) \in Nat /\ (t = <<>> <=> Len(t) = 0)
  BY EmptySeq
<1>2. CASE Len(s) = 1
  BY <1>1, <1>2 DEF SaysEnd
<1>3. CASE Len(s) > 1
  <2>1. Len(t) \in 1 .. Len(t) /\ Len(t) + 1 = Len(s)
    BY <1>1, <1>3
  <2> QED BY <1>1, <2>1 DEF SaysEnd
<1> QED BY <1>1, <1>2, <1>3

LEMMA SaysEndFacts ==
  /\ \A s \in Seq(Line) : SaysEnd(s \o <<"END">>)
  /\ \A s \in Seq(Line) : SaysEnd(s) /\ Tail(s) # <<>> => SaysEnd(Tail(s))
  /\ \A s \in Seq(Line) : SaysEnd(s) /\ Tail(s) = <<>> => Head(s) = "END"
<1>1. "END" \in Line
  BY DEF Line
<1>2. ASSUME NEW s \in Seq(Line) PROVE SaysEnd(s \o <<"END">>)
  BY <1>1 DEF SaysEnd
<1>3. ASSUME NEW s \in Seq(Line), SaysEnd(s)
      PROVE  IF Tail(s) = <<>> THEN Head(s) = "END" ELSE SaysEnd(Tail(s))
  <2>1. s # <<>> /\ Head(s) = s[1]
    BY <1>3 DEF SaysEnd
  <2>2. /\ Tail(s) \in Seq(Line) /\ Len(Tail(s)) = Len(s) - 1
        /\ \A i \in 1 .. Len(Tail(s)) : Tail(s)[i] = s[i + 1]
    BY <2>1, HeadTailProperties
  <2> HIDE DEF SaysEnd
  <2>3. IF Tail(s) = <<>> THEN s[1] = "END" ELSE SaysEnd(Tail(s))
    BY <1>3, <2>2, SaysEndTail
  <2> QED BY <2>1, <2>3
<1> QED BY <1>2, <1>3

\* A line leaves one hand for the next, in order; the END is handled last.
LEMMA DispatchEnd ==
  ASSUME EndInv, LineTypeOK', NEW h \in Handlers,
         Handle(h) \/ OnClip(h) \/ OnRingOpen(h) \/ OnRing(h) \/ OnEnd(h)
  PROVE  EndInv'
<1>0. LineTypeOK /\ UNCHANGED <<moduleVars, urc, op>> /\ overtook \in BOOLEAN
  BY DEF EndInv, LineTypeOK, Handle, OnClip, OnRingOpen, OnRing, OnEnd
<1>1. ~Dispatched(h)
  BY DEF Dispatched, Handle, OnClip, OnRingOpen, OnRing, OnEnd
<1>2. \A g \in Handlers : g # h => UNCHANGED <<todo[g], hnd[g]>>
  BY <1>0 DEF LineTypeOK, Handle, OnClip, OnRingOpen, OnRing, OnEnd, Free
<1>3. EndIsLast' /\ \A g \in Handlers : Finishing(g)' <=> Finishing(g)
  BY <1>0 DEF EndInv, EndIsLast, SaysEnd, Finishing, moduleVars
<1>4. CASE OnEnd(h) /\ ~overtook' /\ overtook
  <2>1. todo' = todo /\ hnd'[h].line = "none" /\ ~incomingSent' /\ ~pendingPeer'
    BY <1>0, <1>4 DEF LineTypeOK, OnEnd, Free
  <2>2. \A g \in Handlers : todo[g] = <<>> /\ (g # h => Dispatched(g))
    BY <1>4 DEF OnEnd
  <2>3. \A g \in Handlers : Dispatched(g)'
    BY <1>2, <2>1, <2>2 DEF Dispatched
  <2> QED BY <1>3, <2>1, <2>3 DEF EndInv, OneDispatcher
<1>5. CASE overtook'
  BY <1>3, <1>5 DEF EndInv, ReadInTurn
<1>6. CASE ~overtook /\ ~overtook'
  <2>1. \A g \in Handlers : g # h => Dispatched(g) /\ Dispatched(g)'
    BY <1>1, <1>2, <1>6 DEF EndInv, OneDispatcher, Dispatched
  <2>2. OneDispatcher'
    BY <2>1 DEF OneDispatcher
  <2> SUFFICES ASSUME ReadInTurn'
               PROVE  /\ Dispatched(h)' \/ EndInHand(h)' \/ Finishing(h)'
                      /\ Dispatched(h)' /\ ~Finishing(h)' => ~incomingSent' /\ ~pendingPeer'
    BY <1>3, <2>1, <2>2 DEF EndInv, Calm
  <2>3. EndInHand(h) \/ Finishing(h)
    BY <1>0, <1>1, <1>6 DEF EndInv, ReadInTurn, moduleVars
  <2>4. CASE Handle(h)
    <3>1. todo'[h] = Tail(todo[h]) /\ hnd'[h].line = Head(todo[h]) /\ todo[h] # <<>>
          /\ todo[h] \in Seq(Line) /\ Head(todo[h]) \in Line
      BY <1>0, <2>4 DEF LineTypeOK, Handle
    <3>2. ~Dispatched(h)'
      BY <3>1 DEF Dispatched, Line
    <3>3. EndInHand(h) => EndInHand(h)'
      <4>1. ASSUME SaysEnd(todo[h]) PROVE EndInHand(h)'
        <5>1. CASE Tail(todo[h]) = <<>>
          BY <3>1, <4>1, <5>1, SaysEndFacts DEF EndInHand
        <5>2. CASE Tail(todo[h]) # <<>>
          <6>1. SaysEnd(Tail(todo[h]))
            BY <3>1, <4>1, <5>2, SaysEndFacts
          <6>2. SaysEnd(todo[h])'
            BY <3>1, <6>1 DEF SaysEnd
          <6> QED BY <6>2 DEF EndInHand
        <5> QED BY <5>1, <5>2
      <4> QED BY <3>1, <4>1 DEF EndInHand
    <3> QED BY <1>3, <2>3, <3>2, <3>3
  <2>5. CASE OnClip(h) \/ OnRingOpen(h) \/ OnRing(h)
    <3>1. UNCHANGED todo /\ hnd[h].line # "END"
      BY <2>5 DEF OnClip, OnRingOpen, OnRing
    <3>2. EndInHand(h) => SaysEnd(todo[h])
      BY <3>1 DEF EndInHand
    <3>3. SaysEnd(todo[h]) => EndInHand(h)' /\ ~Dispatched(h)'
      BY <3>1 DEF SaysEnd, EndInHand, Dispatched
    <3> QED BY <1>3, <2>3, <3>2, <3>3
  <2>6. CASE OnEnd(h)
    <3>1. UNCHANGED todo /\ hnd'[h].line = "none" /\ ~incomingSent' /\ ~pendingPeer'
      BY <1>0, <2>6 DEF LineTypeOK, OnEnd, Free
    <3>2. EndInHand(h) => Dispatched(h)' \/ EndInHand(h)'
      BY <3>1 DEF SaysEnd, EndInHand, Dispatched
    <3> QED BY <1>3, <2>3, <3>1, <3>2
  <2> QED BY <2>4, <2>5, <2>6
<1>7. overtook' => overtook
  BY <1>0 DEF Handle, OnClip, OnRingOpen, OnRing, OnEnd
<1>8. overtook /\ ~overtook' => OnEnd(h)
  BY DEF Handle, OnClip, OnRingOpen, OnRing
<1> QED BY <1>4, <1>5, <1>6, <1>8

\* What an exchange reads ahead of its final line it holds to the end.
LEMMA DrainEnd ==
  ASSUME EndInv, LineTypeOK', NEW u \in Users, Drain(u), UNCHANGED atVars,
         \A h \in Handlers : Finishing(h) => Finishing(h)',
         cell' = "none" /\ ~unheard' /\ ~Finishing(u)' => cell = "none" /\ ~unheard
  PROVE  EndInv'
<1>0. LineTypeOK /\ u \in Handlers /\ urc' = <<>> /\ UNCHANGED hnd /\ todo'[u] = urc
      /\ \A h \in Handlers : h # u => todo'[h] = todo[h]
  BY DrainFacts DEF EndInv, Drain
<1>1. EndIsLast'
  BY <1>0 DEF EndIsLast
<1> SUFFICES ASSUME ~overtook'
             PROVE  OneDispatcher' /\
                    (ReadInTurn' =>
                       /\ \A h \in Handlers : (Dispatched(h) \/ EndInHand(h) \/ Finishing(h))'
                       /\ Calm' /\ (\A h \in Handlers : ~Finishing(h)') =>
                            ~incomingSent' /\ ~pendingPeer')
  BY <1>1 DEF EndInv, ReadInTurn
<1>2. Calm /\ ~overtook
  BY DEF Drain
<1>3. \A h \in Handlers : h # u => Dispatched(h)'
  BY <1>0, <1>2 DEF Calm, Dispatched
<1>4. OneDispatcher'
  BY <1>3 DEF OneDispatcher
<1>5. CASE Finishing(u)'
  BY <1>0, <1>3, <1>4, <1>5
<1>6. CASE ~Finishing(u)' /\ ReadInTurn'
  <2>1. cell = "none" /\ ~unheard
    BY <1>6 DEF ReadInTurn
  <2>2. CASE urc = <<>>
    <3>1. Dispatched(u)' /\ ReadInTurn
      BY <1>0, <1>2, <2>1, <2>2 DEF Calm, Dispatched, ReadInTurn
    <3> QED BY <1>2, <1>3, <1>4, <3>1 DEF EndInv, atVars
  <2>3. CASE urc # <<>>
    <3>1. SaysEnd(urc)
      BY <2>1, <2>3 DEF EndInv, EndIsLast
    <3>2. EndInHand(u)' /\ ~Dispatched(u)'
      BY <1>0, <2>3, <3>1 DEF EndInHand, SaysEnd, Dispatched
    <3> QED BY <1>0, <1>3, <1>4, <3>2 DEF Calm
  <2> QED BY <2>2, <2>3
<1> QED BY <1>4, <1>5, <1>6

\* A step that touches neither the lines nor the flags.
LEMMA QuietEnd ==
  ASSUME EndInv, LineTypeOK', UNCHANGED <<moduleVars, urc, todo, hnd, overtook, incomingSent>>,
         pendingPeer' \in {FALSE, pendingPeer},
         \A h \in Handlers : Finishing(h) => Finishing(h)'
  PROVE  EndInv'
<1>1. EndIsLast'
  BY DEF EndInv, EndIsLast, SaysEnd, moduleVars
<1>2. \A h \in Handlers : Dispatched(h)' <=> Dispatched(h)
  BY DEF Dispatched
<1>3. \A h \in Handlers : EndInHand(h)' <=> EndInHand(h)
  BY DEF EndInHand, SaysEnd
<1>4. ReadInTurn' <=> ReadInTurn
  BY DEF ReadInTurn, moduleVars
<1>5. (~overtook' <=> ~overtook) /\ (~incomingSent' <=> ~incomingSent) /\ (~pendingPeer => ~pendingPeer')
  <2>1. pendingPeer \in BOOLEAN /\ pendingPeer' \in BOOLEAN
    BY DEF EndInv, LineTypeOK
  <2>2. pendingPeer = FALSE => pendingPeer' = FALSE
    OBVIOUS
  <2>3. (~overtook' <=> ~overtook) /\ (~incomingSent' <=> ~incomingSent)
    OBVIOUS
  <2> QED BY <2>1, <2>2, <2>3
<1>6. ~overtook' => OneDispatcher'
  BY <1>2, <1>5 DEF EndInv, OneDispatcher
<1>7. Calm' <=> Calm
  BY <1>2 DEF Calm
<1> QED BY <1>1, <1>2, <1>3, <1>4, <1>5, <1>6, <1>7 DEF EndInv

\* Of all operations only finishActive leaves "finish".
LEMMA ControlFinishing ==
  ASSUME LineTypeOK, NEW u \in Users, Control(u), ~HangupFinish(u)
  PROVE  \A h \in Handlers : Finishing(h) => Finishing(h)'
<1>1. op[u].pc # "finish"
  BY DEF Control, Begin, DialCheck, DialATD, DialMark, DialTrack,
        WithActive, ValidateActive, AnswerATA, HangupATH, HangupUntrack,
        ReapList, ReapClear, ReapRecheck, ReapReset, Poll
<1>2. \A v \in Users : v # u => op'[v] = op[v]
  BY DEF LineTypeOK, Control, Begin, DialCheck, DialATD, DialMark, DialTrack,
        WithActive, ValidateActive, AnswerATA, HangupATH, HangupFinish, HangupUntrack,
        ReapList, ReapClear, ReapRecheck, ReapReset, Poll, Goto, Finish
<1> QED BY <1>1, <1>2 DEF Finishing

LEMMA FinishEnd ==
  ASSUME EndInv, LineTypeOK', NEW u \in Users, HangupFinish(u)
  PROVE  EndInv'
<1>0. /\ LineTypeOK /\ UNCHANGED <<moduleVars, urc, todo, hnd>> /\ ~incomingSent' /\ ~pendingPeer'
      /\ \A v \in Users : v # u => op'[v] = op[v]
  BY DEF EndInv, LineTypeOK, HangupFinish, Goto
<1>1. EndIsLast'
  BY <1>0 DEF EndInv, EndIsLast, SaysEnd, moduleVars
<1>2. \A h \in Handlers :
        /\ Dispatched(h)' <=> Dispatched(h)
        /\ EndInHand(h)' <=> EndInHand(h)
        /\ h # u => (Finishing(h)' <=> Finishing(h))
  <2>1. \A h \in Handlers : Dispatched(h)' <=> Dispatched(h)
    BY <1>0 DEF Dispatched
  <2>2. \A h \in Handlers : EndInHand(h)' <=> EndInHand(h)
    BY <1>0 DEF EndInHand, SaysEnd
  <2>3. \A h \in Handlers : h # u => (Finishing(h)' <=> Finishing(h))
    BY <1>0 DEF Finishing
  <2> QED BY <2>1, <2>2, <2>3
<1>3. Dispatched(u) /\ (Calm' <=> Calm) /\ (OneDispatcher' <=> OneDispatcher)
  BY <1>2 DEF HangupFinish, Calm, OneDispatcher
<1>4. CASE Calm
  <2>1. \A h \in Handlers : Dispatched(h)'
    BY <1>2, <1>4 DEF Calm
  <2>2. OneDispatcher'
    BY <2>1 DEF OneDispatcher
  <2> QED BY <1>0, <1>1, <2>1, <2>2 DEF EndInv
<1>5. CASE ~Calm
  <2>1. (overtook' = TRUE) <=> (overtook = TRUE)
    BY <1>0, <1>5 DEF HangupFinish, LineTypeOK
  <2>2. overtook \in BOOLEAN /\ overtook' \in BOOLEAN
    BY <1>0 DEF LineTypeOK
  <2>3. ReadInTurn' => ReadInTurn
    BY <1>0, <2>1, <2>2 DEF ReadInTurn, moduleVars
  <2>4. ~overtook' => OneDispatcher'
    BY <1>3, <2>1, <2>2 DEF EndInv
  <2>5. ASSUME ReadInTurn', NEW h \in Handlers
        PROVE  Dispatched(h)' \/ EndInHand(h)' \/ Finishing(h)'
    BY <1>2, <1>3, <2>3, <2>5 DEF EndInv
  <2> QED BY <1>0, <1>1, <2>4, <2>5 DEF EndInv
<1> QED BY <1>4, <1>5

LEMMA ControlEnd ==
  ASSUME EndInv, LineTypeOK', NEW u \in Users, Control(u)
  PROVE  EndInv'
<1>0. LineTypeOK
  BY DEF EndInv
<1> SUFFICES ASSUME ~HangupFinish(u) PROVE EndInv'
  BY FinishEnd
<1>2. \A h \in Handlers : Finishing(h) => Finishing(h)'
  BY <1>0, ControlFinishing
<1>3. CASE DialATD(u) \/ AnswerATA(u) \/ ReapList(u) \/ ReapRecheck(u) \/ Poll(u)
  <2>1. /\ Drain(u) /\ UNCHANGED atVars
        /\ cell' = "none" /\ ~unheard' => cell = "none" /\ ~unheard
    BY <1>3 DEF DialATD, AnswerATA, ReapList, ReapRecheck, Poll, moduleVars
  <2> QED BY <1>2, <2>1, DrainEnd
<1>4. CASE HangupATH(u)
  <2>1. Drain(u) /\ UNCHANGED atVars
    BY <1>4 DEF HangupATH
  <2>2. Goto(u, "finish") => Finishing(u)'
    BY <1>0 DEF Goto, Finishing, LineTypeOK
  <2>3. cell' = "none" /\ ~unheard' /\ ~Finishing(u)' => cell = "none" /\ ~unheard
    BY <1>4, <2>2 DEF HangupATH, EndsUnheard
  <2> QED BY <1>2, <2>1, <2>3, DrainEnd
<1>5. CASE ReapClear(u)
  <2>1. Drain(u) /\ UNCHANGED atVars /\ EndsUnheard
    BY <1>5 DEF ReapClear
  <2> QED BY <1>2, <2>1, DrainEnd DEF EndsUnheard
<1>6. CASE UNCHANGED <<moduleVars, urcVars, incomingSent, pendingPeer>>
  BY <1>2, <1>6, QuietEnd DEF urcVars
<1> QED BY <1>3, <1>4, <1>5, <1>6 DEF Control, Begin, DialCheck, DialMark,
        DialTrack, WithActive, ValidateActive, HangupUntrack, ReapReset, atVars

LEMMA StepEnd == EndInv /\ [LineNext]_lineVars => EndInv'
<1> SUFFICES ASSUME EndInv, [LineNext]_lineVars PROVE EndInv'
  OBVIOUS
<1>0. LineTypeOK /\ LineTypeOK'
  BY StepTyped DEF EndInv
<1>1. CASE Network
  <2>0. OneDispatcher' <=> OneDispatcher
    BY <1>1 DEF Network, OneDispatcher, Dispatched
  <2>1. CASE NetEnd
    <3>1. cell' = "none" /\ urc' = urc \o <<"END">>
      BY <2>1 DEF NetEnd, Arrives
    <3>2. SaysEnd(urc)'
      BY <1>0, <3>1, SaysEndFacts DEF LineTypeOK, SaysEnd
    <3>3. ~ReadInTurn'
      BY <3>2 DEF SaysEnd, ReadInTurn
    <3> QED BY <1>0, <1>1, <2>0, <3>2, <3>3 DEF EndInv, EndIsLast, Network
  <2>2. CASE NetRing \/ NetClip
    <3>1. cell' # "none"
      BY <2>2 DEF NetRing, NetClip, moduleVars
    <3> QED BY <1>0, <1>1, <2>0, <3>1 DEF EndInv, EndIsLast, ReadInTurn, Network
  <2> QED BY <1>1, <2>1, <2>2 DEF Network
<1>2. CASE Dispatch
  <2>1. PICK h \in Handlers :
          Handle(h) \/ OnClip(h) \/ OnRingOpen(h) \/ OnRing(h) \/ OnEnd(h)
    BY <1>2 DEF Dispatch
  <2> QED BY <1>0, <2>1, DispatchEnd
<1>3. CASE ReadIdle
  <2>1. /\ UNCHANGED <<moduleVars, hnd, overtook>> /\ Reader \in Handlers /\ urc # <<>>
        /\ urc' = <<>> /\ todo'[Reader] = urc
        /\ \A h \in Handlers : h # Reader => todo'[h] = todo[h]
    BY <1>0, <1>3 DEF LineTypeOK, ReadIdle, Handlers
  <2>2. Calm
    BY <1>3 DEF ReadIdle, PortFree, Calm, Handlers
  <2>3. \A h \in Handlers : h # Reader => Dispatched(h)'
    BY <2>1, <2>2 DEF Calm, Dispatched
  <2>4. ~Dispatched(Reader)'
    BY <2>1 DEF Dispatched
  <2>5. ReadInTurn' => EndInHand(Reader)'
    BY <2>1 DEF EndInv, EndIsLast, ReadInTurn, EndInHand, SaysEnd, moduleVars
  <2>6. OneDispatcher' /\ EndIsLast' /\ ~Calm'
    BY <2>1, <2>3, <2>4 DEF OneDispatcher, EndIsLast, Calm
  <2> QED BY <1>0, <2>3, <2>5, <2>6 DEF EndInv
<1>4. CASE Forward
  BY <1>0, <1>4, QuietEnd DEF Forward, urcVars, atVars, Finishing
<1>5. CASE \E c \in CallId : EmitIncoming(c)
  BY <1>0, <1>5, QuietEnd DEF EmitIncoming, Finishing
<1>6. CASE \E u \in Users : Control(u)
  BY <1>0, <1>6, ControlEnd
<1>7. CASE UNCHANGED lineVars
  BY <1>0, <1>7, QuietEnd DEF lineVars, urcVars, atVars, Finishing
<1> QED BY <1>1, <1>2, <1>3, <1>4, <1>5, <1>6, <1>7 DEF LineNext

LEMMA InitEnd == LineInit => EndInv
BY InitTyped DEF LineInit, EndInv, EndIsLast, OneDispatcher, Dispatched, ReadInTurn

\* However rings, ends, dials, answers, hangups, failed exchanges and reaps
\* interleave, an idle line remembers nothing of the call that ended last, if that
\* call ended by a line or by an answered hangup and no exchange came between the
\* reader's read and its handling of the lines since the flags were last cleared.
THEOREM NothingLeft == LineSpec => []NothingLeftOfLastCall
<1>1. EndInv => NothingLeftOfLastCall
  BY DEF EndInv, NothingLeftOfLastCall, Settled, Finishing, ReadInTurn
<1> QED BY <1>1, InitEnd, StepEnd, PTL DEF LineSpec
=============================================================================
