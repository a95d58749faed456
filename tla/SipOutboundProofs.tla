-------------------------- MODULE SipOutboundProofs --------------------------
(***************************************************************************)
(* Types of SipOutbound, that a call on the line stays under control, and  *)
(* that no call is forgotten whose client was not told, for any INVITEs,   *)
(* Call-IDs, passes of the reaper and length of its ladder.                *)
(***************************************************************************)
EXTENDS SipOutbound, TLAPS

InviteType  == [call : Calls, pc : Points, stale : SUBSET Calls, key : Calls \cup {None}]
HandlerType == [Copies -> InviteType]
CellType   == [st : {"dialing", "active"}, by : Copies, under : SUBSET Passes,
               resists : BOOLEAN] \cup {NoCall}
PassType   == [pc : {"off", "list", "clear", "recheck"}, rung : 0 .. Rungs]
ReaperType == [Passes -> PassType]

\* A teardown that goes on has a session.
TornSession == \A l \in Legs : tear[l].pc # "off" => tear[l].sess \in Copies

\* A command is only issued while there is a rung left.
Climbing ==
  \A p \in Passes : reaper[p].pc # "recheck" => reaper[p].rung < Rungs

TypeInv == OutboundTypeOK /\ TornSession /\ Climbing
-----------------------------------------------------------------------------
\* Goto stays among the points of handleInvite.
LEMMA GotoTypes ==
  ASSUME OutboundTypeOK, NEW h \in Copies, NEW p \in Points, Goto(h, p)
  PROVE  hd' \in HandlerType
<1>1. hd \in HandlerType
  BY DEF OutboundTypeOK, HandlerType, InviteType
<1>2. [hd[h] EXCEPT !.pc = p] \in InviteType
  BY <1>1 DEF HandlerType, InviteType
<1> QED
  BY <1>1, <1>2 DEF Goto, HandlerType

\* What Hangup leaves of the variables it changes.
LEMMA HangupTypes ==
  ASSUME OutboundTypeOK, NEW s \in Copies, Hangup(s)
  PROVE  /\ ctxDone' \in [Copies -> BOOLEAN]
         /\ state' \in [Copies -> {"init", "dialing", "active", "ended"}]
         /\ cell' \in {cell, NoCall}
         /\ ghost' = ghost
         /\ marker' \in Legs /\ tracked' \in Legs
         /\ raw' \subseteq Legs /\ ended' \subseteq Legs
BY DEF OutboundTypeOK, Hangup, Legs, lineVars

\* handleInvite keeps the types.
LEMMA HandlerTypes ==
  ASSUME OutboundTypeOK, NEW h \in Copies, Invite(h) \/ Handle(h)
  PROVE  OutboundTypeOK'
<1>1. CASE Invite(h)
  <2>1. hd' \in HandlerType
    BY <1>1, GotoTypes DEF Invite, Points
  <2> QED
    BY <1>1, <2>1 DEF Invite, Conclude, OutboundTypeOK, HandlerType, InviteType,
                      sessVars, lineVars
<1>2. CASE ListStale(h)
  <2>1. [hd[h] EXCEPT !.pc = "reap", !.stale = {c \in Calls : sessions[c] # None}]
          \in InviteType
    <3>1. hd[h] \in InviteType
      BY DEF OutboundTypeOK, InviteType
    <3> QED
      BY <3>1 DEF InviteType, Points
  <2>2. hd' \in HandlerType
    BY <1>2, <2>1 DEF ListStale, OutboundTypeOK, HandlerType, InviteType
  <2> QED
    BY <1>2, <2>2 DEF ListStale, OutboundTypeOK, HandlerType, InviteType, sessVars, lineVars
<1>3. CASE ReapStale(h)
  <2>1. PICK c \in hd[h].stale :
          \/ /\ sessions[c] = None
             /\ hd' = [hd EXCEPT ![h].stale = @ \ {c}]
             /\ UNCHANGED <<state, ctxDone, lineVars, concluded>>
          \/ /\ sessions[c] # None
             /\ Hangup(sessions[c])
             /\ Conclude(sessions[c])
             /\ hd' = [hd EXCEPT ![h].stale = @ \ {c}, ![h].key = c]
    BY <1>3, Zenon DEF ReapStale
  <2>2. c \in Calls /\ sessions[c] \in Legs
    BY <2>1 DEF OutboundTypeOK, Legs
  <2>3. UNCHANGED <<sessions, bye, tear, reaper>>
    BY <1>3 DEF ReapStale
  <2>4. hd' \in HandlerType
    <3>1. hd \in HandlerType /\ hd[h].stale \ {c} \in SUBSET Calls
      BY DEF OutboundTypeOK, HandlerType, InviteType
    <3>2. CASE hd' = [hd EXCEPT ![h].stale = @ \ {c}]
      <4>1. [hd[h] EXCEPT !.stale = @ \ {c}] \in InviteType
        BY <3>1 DEF HandlerType, InviteType
      <4> QED
        BY <3>1, <3>2, <4>1 DEF HandlerType
    <3>3. CASE hd' = [hd EXCEPT ![h].stale = @ \ {c}, ![h].key = c]
      <4>1. [hd[h] EXCEPT !.stale = @ \ {c}, !.key = c] \in InviteType
        BY <2>2, <3>1 DEF HandlerType, InviteType
      <4>2. hd' = [hd EXCEPT ![h] = [hd[h] EXCEPT !.stale = @ \ {c}, !.key = c]]
        BY <3>1, <3>3 DEF HandlerType
      <4> QED
        BY <3>1, <4>1, <4>2 DEF HandlerType
    <3> QED
      BY <2>1, <3>2, <3>3
  <2>5. CASE sessions[c] = None
    BY <2>1, <2>3, <2>4, <2>5 DEF OutboundTypeOK, HandlerType, InviteType, lineVars
  <2>6. CASE sessions[c] # None
    <3>1. sessions[c] \in Copies
      BY <2>2, <2>6 DEF Legs
    <3>2. Hangup(sessions[c]) /\ Conclude(sessions[c])
      BY <2>1, <2>6
    <3> QED
      BY <2>3, <2>4, <3>1, <3>2, HangupTypes DEF OutboundTypeOK, HandlerType, InviteType, Conclude
  <2> QED
    BY <2>5, <2>6
<1>4. CASE ReapForget(h)
  <2>1. hd' \in HandlerType
    <3>1. hd \in HandlerType
      BY DEF OutboundTypeOK, HandlerType, InviteType
    <3>2. [hd[h] EXCEPT !.key = None] \in InviteType
      BY <3>1 DEF HandlerType, InviteType
    <3> QED
      BY <1>4, <3>1, <3>2 DEF ReapForget, HandlerType
  <2>2. sessions' \in [Calls -> Copies \cup {None}]
    BY <1>4 DEF ReapForget, Forget, OutboundTypeOK
  <2> QED
    BY <1>4, <2>1, <2>2 DEF OutboundTypeOK, HandlerType, InviteType, ReapForget, lineVars
<1>5. CASE Claim(h)
  <2>1. hd' \in HandlerType
    BY <1>5, GotoTypes DEF Claim, Points
  <2>2. sessions' \in [Calls -> Copies \cup {None}]
    BY <1>5 DEF Claim, OutboundTypeOK
  <2>3. state' \in [Copies -> {"init", "dialing", "active", "ended"}]
    BY <1>5 DEF Claim, OutboundTypeOK
  <2> QED
    BY <1>5, <2>1, <2>2, <2>3 DEF Claim, OutboundTypeOK, HandlerType, InviteType, lineVars
<1>6. CASE Prepare(h)
  <2>1. hd' \in HandlerType
    BY <1>6, GotoTypes DEF Prepare, Points
  <2> QED
    BY <1>6, <2>1 DEF Prepare, OutboundTypeOK, HandlerType, InviteType, sessVars, lineVars
<1>7. CASE DialATD(h)
  <2>1. hd' \in HandlerType
    BY <1>7, GotoTypes DEF DialATD, Points
  <2>2. cell' \in CellType /\ ghost' \in {"none", "dialing", "active"}
    <3>1. [st |-> "dialing", by |-> h, under |-> {}, resists |-> FALSE] \in CellType
      BY DEF CellType
    <3>2. cell # NoCall => cell.st \in {"dialing", "active"}
      BY DEF OutboundTypeOK
    <3> QED
      BY <1>7, <3>1, <3>2 DEF DialATD, Dials, OutboundTypeOK, CellType
  <2>3. marker' \in Legs /\ tracked' \in Legs
    BY <1>7 DEF DialATD, OutboundTypeOK, Legs
  <2> QED
    BY <1>7, <2>1, <2>2, <2>3 DEF DialATD, OutboundTypeOK, HandlerType, InviteType, CellType, sessVars
<1>8. CASE DialFailed(h)
  <2>1. hd' \in HandlerType
    BY <1>8, GotoTypes DEF DialFailed, Points
  <2>2. sessions' \in [Calls -> Copies \cup {None}]
    BY <1>8 DEF DialFailed, Forget, OutboundTypeOK
  <2> QED
    BY <1>8, <2>1, <2>2 DEF DialFailed, Conclude, OutboundTypeOK, HandlerType, InviteType, lineVars
<1>9. CASE Answered(h) \/ GiveUp(h)
  <2>1. hd' \in HandlerType
    BY <1>9, GotoTypes DEF Answered, GiveUp, Points
  <2> QED
    BY <1>9, <2>1 DEF Answered, GiveUp, OutboundTypeOK, HandlerType, InviteType, sessVars, lineVars
<1>10. CASE Bridge(h)
  <2>1. hd' \in HandlerType
    BY <1>10, GotoTypes DEF Bridge, Points
  <2>2. state' \in [Copies -> {"init", "dialing", "active", "ended"}]
    BY <1>10 DEF Bridge, OutboundTypeOK
  <2> QED
    BY <1>10, <2>1, <2>2 DEF Bridge, Conclude, OutboundTypeOK, HandlerType, InviteType, lineVars
<1>11. CASE Unanswered(h)
  <2>1. Hangup(h) /\ UNCHANGED <<sessions, bye, tear, reaper>>
    BY <1>11 DEF Unanswered
  <2>2. concluded' \subseteq Copies
    BY <1>11 DEF OutboundTypeOK, Unanswered, Conclude
  <2>3. hd' \in HandlerType
    BY <1>11, GotoTypes DEF Unanswered, Points
  <2> QED
    BY <2>1, <2>2, <2>3, HangupTypes DEF OutboundTypeOK, HandlerType, InviteType
<1>12. CASE Delete(h)
  <2>1. hd' \in HandlerType
    BY <1>12, GotoTypes DEF Delete, Points
  <2>2. sessions' \in [Calls -> Copies \cup {None}]
    BY <1>12 DEF Delete, Forget, OutboundTypeOK
  <2> QED
    BY <1>12, <2>1, <2>2 DEF Delete, OutboundTypeOK, HandlerType, InviteType, lineVars
<1> QED
  BY <1>1, <1>2, <1>3, <1>4, <1>5, <1>6, <1>7, <1>8, <1>9, <1>10, <1>11, <1>12 DEF Handle

\* The handling of a BYE keeps the types.
LEMMA ByeTypes ==
  ASSUME OutboundTypeOK, NEW c \in Calls, HandleBye(c) \/ ByeDelete(c)
  PROVE  OutboundTypeOK'
<1>1. CASE HandleBye(c)
  <2>1. UNCHANGED <<hd, sessions, tear, reaper>>
    BY <1>1 DEF HandleBye
  <2>2. bye' \in [Calls -> {"none", "delete", "done"}]
    BY <1>1 DEF HandleBye, OutboundTypeOK
  <2>3. CASE sessions[c] = None
    BY <1>1, <2>1, <2>2, <2>3 DEF HandleBye, OutboundTypeOK, lineVars
  <2>4. CASE sessions[c] # None
    <3>1. sessions[c] \in Copies /\ Hangup(sessions[c]) /\ Conclude(sessions[c])
      BY <1>1, <2>4 DEF HandleBye, OutboundTypeOK
    <3> QED
      BY <2>1, <2>2, <3>1, HangupTypes DEF OutboundTypeOK, Conclude
  <2> QED
    BY <2>3, <2>4
<1>2. CASE ByeDelete(c)
  BY <1>2 DEF OutboundTypeOK, ByeDelete, Forget, lineVars
<1> QED
  BY <1>1, <1>2

\* forwardEvents keeps the types.
LEMMA ForwardTypes ==
  ASSUME OutboundTypeOK, NEW l \in Legs, Forward(l)
  PROVE  OutboundTypeOK'
BY DEF OutboundTypeOK, Forward, Legs, sessVars

\* endCallByModem keeps the types.
LEMMA TearTypes ==
  ASSUME OutboundTypeOK, TornSession, NEW l \in Legs, Tear(l)
  PROVE  OutboundTypeOK'
<1>1. CASE FindSession(l)
  <2>1. tear' \in [Legs -> [pc : {"off", "delete", "tell", "hangup"}, sess : Legs]]
    <3>1. \/ UNCHANGED tear
          \/ \E s \in Copies : tear' = [tear EXCEPT ![l] = [pc |-> "delete", sess |-> s]]
      BY <1>1 DEF FindSession, Live
    <3> QED
      BY <3>1 DEF OutboundTypeOK, Legs
  <2> QED
    BY <1>1, <2>1 DEF OutboundTypeOK, FindSession, sessVars
<1>2. CASE TearDelete(l)
  <2>1. tear' \in [Legs -> [pc : {"off", "delete", "tell", "hangup"}, sess : Legs]]
    BY <1>2 DEF TearDelete, OutboundTypeOK
  <2>2. sessions' \in [Calls -> Copies \cup {None}]
    BY <1>2 DEF TearDelete, Forget, OutboundTypeOK
  <2> QED
    BY <1>2, <2>1, <2>2 DEF TearDelete, OutboundTypeOK, lineVars
<1>3. CASE TearTell(l)
  <2>1. tear[l].sess \in Copies
    BY <1>3 DEF TearTell, TornSession
  <2> QED
    BY <1>3, <2>1 DEF OutboundTypeOK, TearTell, Conclude, sessVars, lineVars
<1>4. CASE TearHangup(l)
  <2>1. tear[l].sess \in Copies /\ Hangup(tear[l].sess)
    BY <1>4 DEF TearHangup, TornSession
  <2>2. UNCHANGED <<hd, sessions, bye, reaper, concluded>>
    BY <1>4 DEF TearHangup
  <2>3. tear' \in [Legs -> [pc : {"off", "delete", "tell", "hangup"}, sess : Legs]]
    BY <1>4 DEF TearHangup, OutboundTypeOK, Legs
  <2> QED
    BY <2>1, <2>2, <2>3, HangupTypes DEF OutboundTypeOK
<1> QED
  BY <1>1, <1>2, <1>3, <1>4 DEF Tear

\* The reaper keeps the types.
LEMMA ReapTypes ==
  ASSUME OutboundTypeOK, Climbing, NEW p \in Passes, Reap(p)
  PROVE  OutboundTypeOK' /\ reaper' \in ReaperType
<1> USE RungsAssumption DEF NoPass
<1>1. reaper \in ReaperType
  BY DEF OutboundTypeOK, ReaperType, PassType
<1>2. CASE ReapLook(p)
  <2>1. reaper' \in ReaperType
    BY <1>1, <1>2 DEF ReapLook, ReaperType, PassType
  <2> QED
    BY <1>2, <2>1 DEF OutboundTypeOK, ReapLook, ReaperType, PassType, sessVars, lineVars
<1>3. CASE ReapList(p)
  <2>1. reaper' \in ReaperType
    BY <1>1, <1>3 DEF ReapList, ReaperType, PassType
  <2> QED
    BY <1>3, <2>1 DEF OutboundTypeOK, ReapList, ReaperType, PassType, sessVars, lineVars
<1>4. CASE ReapClear(p)
  <2>1. cell' \in CellType
    <3>1. cell \in CellType
      BY DEF OutboundTypeOK, CellType
    <3>2. CASE cell' \in {cell, NoCall}
      BY <3>1, <3>2 DEF CellType
    <3>3. CASE cell # NoCall /\ cell' = [cell EXCEPT !.under = @ \cup {p}]
      BY <3>1, <3>3 DEF CellType
    <3> QED
      BY <1>4, <3>2, <3>3 DEF ReapClear
  <2>2. reaper' \in ReaperType
    BY <1>1, <1>4 DEF ReapClear, Climbing, ReaperType, PassType
  <2> QED
    BY <1>4, <2>1, <2>2 DEF ReapClear, OutboundTypeOK, CellType, ReaperType, PassType, sessVars
<1>5. CASE ReapRecheck(p)
  <2>1. reaper' \in ReaperType
    BY <1>1, <1>5 DEF ReapRecheck, ReaperType, PassType
  <2>2. cell' \in CellType
    <3>1. cell \in CellType
      BY DEF OutboundTypeOK, CellType
    <3>2. \/ cell' = cell
          \/ p \in cell.under /\ cell' = [cell EXCEPT !.under = @ \ {p}, !.resists = TRUE]
      BY <1>5 DEF ReapRecheck
    <3>3. CASE cell = NoCall
      BY <3>1, <3>2, <3>3 DEF NoCall
    <3>4. CASE cell # NoCall
      BY <3>1, <3>2, <3>4 DEF CellType
    <3> QED
      BY <3>3, <3>4
  <2>3. tracked' \in Legs
    BY <1>5 DEF ReapRecheck, OutboundTypeOK, Legs
  <2> QED
    BY <1>5, <2>1, <2>2, <2>3 DEF ReapRecheck, OutboundTypeOK, CellType, ReaperType, PassType,
       sessVars
<1> QED
  BY <1>2, <1>3, <1>4, <1>5, <1>1 DEF Reap

\* The network keeps the types.
LEMMA NetTypes ==
  ASSUME OutboundTypeOK, NetAnswers \/ NetEnds
  PROVE  OutboundTypeOK'
<1>1. CASE NetAnswers
  BY <1>1 DEF OutboundTypeOK, NetAnswers, NoCall, sessVars
<1>2. CASE NetEnds
  BY <1>2 DEF OutboundTypeOK, NetEnds, Legs, sessVars
<1> QED
  BY <1>1, <1>2

\* Only endCallByModem moves a teardown, and with a session of the map.
LEMMA TornSessionKept ==
  ASSUME TypeInv, [OutboundNext]_outboundVars
  PROVE  TornSession'
<1> USE DEF TypeInv, OutboundTypeOK, TornSession
<1>1. CASE UNCHANGED tear
  BY <1>1
<1>2. ASSUME NEW l \in Legs, FindSession(l) PROVE TornSession'
  <2>1. \/ UNCHANGED tear
        \/ \E s \in Copies : tear' = [tear EXCEPT ![l] = [pc |-> "delete", sess |-> s]]
    BY <1>2 DEF FindSession, Live
  <2> QED
    BY <2>1
<1>3. ASSUME NEW l \in Legs, TearDelete(l) \/ TearTell(l) \/ TearHangup(l) PROVE TornSession'
  <2>1. CASE TearDelete(l)
    BY <2>1 DEF TearDelete
  <2>2. CASE TearTell(l)
    BY <2>2 DEF TearTell
  <2>3. CASE TearHangup(l)
    BY <2>3 DEF TearHangup
  <2> QED
    BY <1>3, <2>1, <2>2, <2>3
<1>4. UNCHANGED tear \/ \E l \in Legs : Tear(l)
  BY DEF OutboundNext, outboundVars, Goroutines, Outside, Reap, Handle, Invite, ListStale,
         ReapStale, ReapForget, Claim, Prepare, DialATD, DialFailed, Answered, GiveUp, Bridge,
         Unanswered, Delete, HandleBye, ByeDelete, Forward, ReapLook, ReapList, ReapClear,
         ReapRecheck, NetAnswers, NetEnds
<1> QED
  BY <1>1, <1>2, <1>3, <1>4 DEF Tear

\* The ladder is climbed from its first rung and only by the reaper.
LEMMA ClimbingKept ==
  ASSUME TypeInv, [OutboundNext]_outboundVars
  PROVE  Climbing'
<1> USE RungsAssumption DEF NoPass, TypeInv, Climbing, OutboundTypeOK
<1>1. CASE UNCHANGED reaper
  BY <1>1
<1>2. ASSUME NEW p \in Passes, Reap(p) PROVE Climbing'
  <2>1. reaper' \in ReaperType
    BY <1>2, ReapTypes
  <2>2. \A q \in Passes : q # p => reaper'[q] = reaper[q]
    BY <1>2 DEF Reap, ReapLook, ReapList, ReapClear, ReapRecheck
  <2>3. reaper'[p].pc # "recheck" => reaper'[p].rung < Rungs
    <3>1. CASE ReapLook(p)
      BY <3>1 DEF ReapLook
    <3>2. CASE ReapList(p)
      BY <3>2 DEF ReapList
    <3>3. CASE ReapClear(p)
      BY <3>3 DEF ReapClear
    <3>4. CASE ReapRecheck(p)
      BY <3>4 DEF ReapRecheck
    <3> QED
      BY <1>2, <3>1, <3>2, <3>3, <3>4 DEF Reap
  <2> QED
    BY <2>2, <2>3
<1>3. UNCHANGED reaper \/ \E p \in Passes : Reap(p)
  BY DEF OutboundNext, outboundVars, Goroutines, Outside, Forward, Handle, Invite, ListStale,
         ReapStale, ReapForget, Claim, Prepare, DialATD, DialFailed, Answered, GiveUp, Bridge,
         Unanswered, Delete, HandleBye, ByeDelete, Tear, FindSession, TearDelete, TearTell,
         TearHangup, NetAnswers, NetEnds
<1> QED
  BY <1>1, <1>2, <1>3

\* Every step keeps the types.
LEMMA TypeInvKept ==
  ASSUME TypeInv, [OutboundNext]_outboundVars
  PROVE  TypeInv'
<1>1. OutboundTypeOK'
  <2>1. CASE UNCHANGED outboundVars
    BY <2>1 DEF TypeInv, OutboundTypeOK, outboundVars, sessVars, lineVars
  <2>2. CASE OutboundNext
    BY <2>2, HandlerTypes, ByeTypes, ForwardTypes, TearTypes, ReapTypes, NetTypes
    DEF OutboundNext, Goroutines, Outside, TypeInv
  <2> QED
    BY <2>1, <2>2
<1> QED
  BY <1>1, TornSessionKept, ClimbingKept DEF TypeInv

\* The server starts with them.
LEMMA TypeInvInit == OutboundInit => TypeInv
<1> SUFFICES ASSUME OutboundInit PROVE TypeInv
  OBVIOUS
<1>1. OutboundTypeOK
  <2>1. hd \in HandlerType
    BY DEF OutboundInit, HandlerType, InviteType, Points
  <2>2. reaper \in ReaperType
    BY RungsAssumption DEF OutboundInit, NoPass, ReaperType, PassType
  <2> QED
    BY <2>1, <2>2 DEF OutboundInit, OutboundTypeOK, HandlerType, InviteType, ReaperType, PassType, Legs
<1>2. TornSession /\ Climbing
  BY RungsAssumption DEF OutboundInit, NoPass, TornSession, Climbing
<1> QED
  BY <1>1, <1>2 DEF TypeInv

\* Every variable of the outbound calls keeps its type, for any number of copies,
\* Call-IDs and rungs.
THEOREM OutboundTypes == OutboundSpec => []OutboundTypeOK
<1>1. TypeInv => OutboundTypeOK
  BY DEF TypeInv
<1> QED
  BY <1>1, TypeInvInit, TypeInvKept, PTL DEF OutboundSpec
-----------------------------------------------------------------------------
\* The handler of h has tried to dial.
HasDialled(h) == hd[h].pc \notin {"off", "trying", "reap", "prepare", "atd"}

\* What control rests on.  The leg of a call that is up is the marked one; a leg on
\* the line, held by an adapter or named by an event had its ATD, of which each copy
\* sends one; a leg whose end is on its way is off the line.
ControlInv ==
  /\ \A h \in Copies : OnLine(h) => marker = h
  /\ \A h \in Copies : h \in {cell.by, marker, tracked} \cup raw => HasDialled(h)
  /\ \A h \in Copies : h \in raw => cell.by # h
  /\ \A h \in Copies : state[h] = "active" => hd[h].pc = "done"

\* What a step may do to the line and to the handlers without taking a call from
\* under control.
LineMoves ==
  /\ \A h \in Copies : cell'.by = h => cell.by = h /\ marker' = marker
  /\ \A h \in Copies : h \in {marker', tracked'} \cup raw' => h \in {marker, tracked} \cup raw
  /\ \A h \in Copies : h \in raw' /\ cell'.by = h => h \in raw
  /\ \A h \in Copies : state'[h] = "active" => state[h] = "active"

DialMoves ==
  \A h \in Copies :
    /\ HasDialled(h) => HasDialled(h)'
    /\ hd[h].pc = "done" => hd'[h].pc = "done"
    /\ hd'[h].pc \in {"await", "bridge"} => hd[h].pc \in {"await", "bridge"}

LEMMA ControlFrame ==
  ASSUME ControlInv, LineMoves, DialMoves
  PROVE  ControlInv'
<1>1. ASSUME NEW h \in Copies, OnLine(h)' PROVE marker' = h
  BY <1>1 DEF ControlInv, LineMoves, DialMoves, OnLine
<1>2. ASSUME NEW h \in Copies, h \in {cell'.by, marker', tracked'} \cup raw'
      PROVE  HasDialled(h)'
  BY <1>2 DEF ControlInv, LineMoves, DialMoves
<1>3. ASSUME NEW h \in Copies, h \in raw' PROVE cell'.by # h
  BY <1>3 DEF ControlInv, LineMoves
<1>4. ASSUME NEW h \in Copies, state'[h] = "active" PROVE hd'[h].pc = "done"
  BY <1>4 DEF ControlInv, LineMoves, DialMoves
<1> QED
  BY <1>1, <1>2, <1>3, <1>4 DEF ControlInv

\* A hangup, of whichever session, takes the tracked call off the line with its
\* markers, or leaves the markers.
LEMMA HangupControls ==
  ASSUME TypeInv, NEW s \in Copies, Hangup(s)
  PROVE  LineMoves
<1> USE NoneAssumption DEF TypeInv, OutboundTypeOK
<1>1. \A h \in Copies : state'[h] = "active" => state[h] = "active"
  BY DEF Hangup
<1>2. \A h \in Copies : cell'.by = h => cell.by = h /\ marker' = marker
  BY DEF Hangup, lineVars, NoCall
<1>3. \A h \in Copies : h \in {marker', tracked'} \cup raw' => h \in {marker, tracked} \cup raw
  BY DEF Hangup, lineVars
<1>4. \A h \in Copies : h \in raw' /\ cell'.by = h => h \in raw
  BY DEF Hangup, lineVars, NoCall
<1> QED
  BY <1>1, <1>2, <1>3, <1>4 DEF LineMoves

\* Goto moves its own handler only.
LEMMA GotoMoves ==
  ASSUME OutboundTypeOK, NEW h \in Copies, NEW p, Goto(h, p)
  PROVE  \A g \in Copies : hd'[g].pc = IF g = h THEN p ELSE hd[g].pc
BY DEF OutboundTypeOK, Goto

\* handleInvite: only ATD puts a leg on the line, and its success marks it.
LEMMA HandlerControls ==
  ASSUME TypeInv, ControlInv, NEW h \in Copies, Invite(h) \/ Handle(h)
  PROVE  ControlInv'
<1> USE NoneAssumption DEF TypeInv, OutboundTypeOK
<1>1. ASSUME UNCHANGED <<cell, marker, tracked, raw>>,
             \A g \in Copies : state'[g] = "active" => state[g] = "active"
      PROVE  LineMoves
  BY <1>1 DEF LineMoves
<1>2. ASSUME UNCHANGED hd \/ \A g \in Copies : hd'[g].pc = hd[g].pc
      PROVE  DialMoves
  BY <1>2 DEF DialMoves, HasDialled
<1>3. CASE Invite(h) \/ Claim(h) \/ Prepare(h)
  <2>1. LineMoves
    BY <1>1, <1>3 DEF Invite, Claim, Prepare, sessVars, lineVars
  <2>2. PICK p \in {"trying", "done", "prepare", "atd", "failed"} : Goto(h, p)
    BY <1>3 DEF Invite, Claim, Prepare
  <2>3. hd[h].pc \in {"off", "reap", "prepare"}
    BY <1>3 DEF Invite, Claim, Prepare
  <2>4. DialMoves
    BY <2>2, <2>3, GotoMoves DEF DialMoves, HasDialled
  <2> QED
    BY <2>1, <2>4, ControlFrame
<1>4. CASE ListStale(h)
  <2>1. LineMoves
    BY <1>1, <1>4 DEF ListStale, sessVars, lineVars
  <2>2. hd[h].pc = "trying" /\ \A g \in Copies : g # h => hd'[g] = hd[g]
    BY <1>4 DEF ListStale
  <2>3. hd'[h].pc = "reap"
    BY <1>4 DEF ListStale
  <2>4. DialMoves
    BY <2>2, <2>3 DEF DialMoves, HasDialled
  <2> QED
    BY <2>1, <2>4, ControlFrame
<1>5. CASE ReapStale(h)
  <2>1. PICK c \in hd[h].stale :
          \/ /\ hd' = [hd EXCEPT ![h].stale = @ \ {c}]
             /\ UNCHANGED <<state, lineVars>>
          \/ /\ sessions[c] # None
             /\ Hangup(sessions[c])
             /\ hd' = [hd EXCEPT ![h].stale = @ \ {c}, ![h].key = c]
    BY <1>5 DEF ReapStale
  <2>2. CASE hd' = [hd EXCEPT ![h].stale = @ \ {c}] /\ UNCHANGED <<state, lineVars>>
    BY <1>1, <1>2, <2>2, ControlFrame DEF lineVars
  <2>3. CASE /\ sessions[c] # None
             /\ Hangup(sessions[c])
             /\ hd' = [hd EXCEPT ![h].stale = @ \ {c}, ![h].key = c]
    <3>1. \A g \in Copies : hd'[g].pc = hd[g].pc
      BY <2>3
    <3>2. sessions[c] \in Copies
      BY <2>1, <2>3
    <3> QED
      BY <1>2, <2>3, <3>1, <3>2, HangupControls, ControlFrame
  <2> QED
    BY <2>1, <2>2, <2>3
<1>6. CASE ReapForget(h)
  <2>1. LineMoves
    BY <1>1, <1>6 DEF ReapForget, lineVars
  <2>2. \A g \in Copies : hd'[g].pc = hd[g].pc
    BY <1>6 DEF ReapForget
  <2> QED
    BY <1>2, <2>1, <2>2, ControlFrame
<1>7. CASE DialATD(h)
  <2>1. /\ hd[h].pc = "atd" /\ UNCHANGED <<state, raw>>
        /\ h \notin {cell.by, marker, tracked} \cup raw
    BY <1>7 DEF DialATD, sessVars, ControlInv, HasDialled
  <2>2. PICK p \in {"await", "failed"} : Goto(h, p)
    BY <1>7 DEF DialATD
  <2>3. \A g \in Copies : hd'[g].pc = IF g = h THEN p ELSE hd[g].pc
    BY <2>2, GotoMoves
  <2>4. \A g \in Copies : HasDialled(g) \/ g = h => HasDialled(g)'
    BY <2>2, <2>3 DEF HasDialled
  <2>5. \A g \in Copies : state'[g] = "active" => hd'[g].pc = "done" /\ g # h
    BY <2>1, <2>3 DEF ControlInv
  <2>6. CASE cell'.by = h /\ marker' = h /\ tracked' = h
    BY <2>1, <2>4, <2>5, <2>6 DEF ControlInv, OnLine
  <2>7. CASE cell'.by = h /\ UNCHANGED <<marker, tracked>> /\ Goto(h, "failed")
    <3>1. hd'[h].pc = "failed"
      BY <2>7, GotoMoves
    <3> QED
      BY <2>1, <2>4, <2>5, <2>7, <3>1 DEF ControlInv, OnLine
  <2>8. CASE UNCHANGED <<cell, marker, tracked>> /\ Goto(h, "failed")
    <3>1. \A g \in Copies : hd'[g].pc \in {"await", "bridge"} => hd[g].pc \in {"await", "bridge"}
      BY <2>8, GotoMoves
    <3> QED
      BY <2>1, <2>4, <2>5, <2>8, <3>1 DEF ControlInv, OnLine
  <2> QED
    BY <1>7, <2>6, <2>7, <2>8 DEF DialATD, Dials
<1>8. CASE DialFailed(h) \/ Answered(h) \/ GiveUp(h) \/ Delete(h)
  <2>1. LineMoves
    BY <1>1, <1>8 DEF DialFailed, Answered, GiveUp, Delete, sessVars, lineVars
  <2>2. PICK p \in {"done", "bridge", "unanswered"} : Goto(h, p)
    BY <1>8 DEF DialFailed, Answered, GiveUp, Delete
  <2>3. /\ hd[h].pc \in {"failed", "await", "delete"}
        /\ p = "bridge" => hd[h].pc = "await"
    BY <1>8, <2>2, GotoMoves DEF DialFailed, Answered, GiveUp, Delete
  <2>4. DialMoves
    BY <2>2, <2>3, GotoMoves DEF DialMoves, HasDialled
  <2> QED
    BY <2>1, <2>4, ControlFrame
<1>9. CASE Bridge(h)
  <2>1. hd[h].pc = "bridge" /\ UNCHANGED <<cell, marker, tracked, raw>>
    BY <1>9 DEF Bridge, lineVars
  <2>2. \A g \in Copies : OnLine(g)' => OnLine(g)
    BY <1>9, <2>1, GotoMoves DEF Bridge, OnLine
  <2>3. \A g \in Copies : state'[g] = "active" => hd'[g].pc = "done"
    BY <1>9, GotoMoves DEF Bridge, ControlInv
  <2>4. \A g \in Copies : HasDialled(g) => HasDialled(g)'
    BY <1>9, GotoMoves DEF Bridge, HasDialled
  <2> QED
    BY <2>1, <2>2, <2>3, <2>4 DEF ControlInv
<1>10. CASE Unanswered(h)
  <2>1. Hangup(h) /\ Goto(h, "delete") /\ hd[h].pc = "unanswered"
    BY <1>10 DEF Unanswered
  <2>2. DialMoves
    BY <2>1, GotoMoves DEF DialMoves, HasDialled
  <2> QED
    BY <2>1, <2>2, HangupControls, ControlFrame
<1> QED
  BY <1>3, <1>4, <1>5, <1>6, <1>7, <1>8, <1>9, <1>10 DEF Handle

\* Everybody else: a hangup, an event, a look at the map, a rung of the ladder, the
\* network.
LEMMA OthersControl ==
  ASSUME TypeInv, ControlInv,
         \/ \E c \in Calls : HandleBye(c) \/ ByeDelete(c)
         \/ \E l \in Legs : Forward(l) \/ Tear(l)
         \/ \E p \in Passes : Reap(p)
         \/ NetAnswers \/ NetEnds
  PROVE  ControlInv'
<1> USE NoneAssumption DEF TypeInv, OutboundTypeOK
<1>1. UNCHANGED hd
  BY DEF HandleBye, ByeDelete, Forward, Tear, FindSession, TearDelete, TearTell, TearHangup,
         Reap, ReapLook, ReapList, ReapClear, ReapRecheck, NetAnswers, NetEnds
<1>2. DialMoves
  BY <1>1 DEF DialMoves, HasDialled
<1>3. ASSUME UNCHANGED <<cell, marker, tracked, raw, state>> PROVE LineMoves
  BY <1>3 DEF LineMoves
<1>4. ASSUME NEW c \in Calls, HandleBye(c) \/ ByeDelete(c) PROVE LineMoves
  <2>1. CASE HandleBye(c) /\ sessions[c] # None
    BY <2>1, HangupControls DEF HandleBye
  <2>2. CASE HandleBye(c) /\ sessions[c] = None
    BY <1>3, <2>2 DEF HandleBye, lineVars
  <2>3. CASE ByeDelete(c)
    BY <1>3, <2>3 DEF ByeDelete, lineVars
  <2> QED
    BY <1>4, <2>1, <2>2, <2>3
<1>5. ASSUME NEW l \in Legs, Forward(l) PROVE LineMoves
  BY <1>5 DEF Forward, LineMoves, sessVars
<1>6. ASSUME NEW l \in Legs, Tear(l) PROVE LineMoves
  <2>1. CASE TearHangup(l)
    <3>1. tear[l].sess \in Copies /\ Hangup(tear[l].sess)
      BY <2>1 DEF TearHangup, TornSession
    <3> QED
      BY <3>1, HangupControls
  <2>2. CASE FindSession(l) \/ TearDelete(l) \/ TearTell(l)
    BY <1>3, <2>2 DEF FindSession, TearDelete, TearTell, sessVars, lineVars
  <2> QED
    BY <1>6, <2>1, <2>2 DEF Tear
<1>7. ASSUME NEW p \in Passes, ReapLook(p) \/ ReapList(p) PROVE LineMoves
  BY <1>3, <1>7 DEF ReapLook, ReapList, sessVars, lineVars
<1>8. ASSUME NEW p \in Passes, ReapClear(p) \/ ReapRecheck(p) PROVE LineMoves
  <2>1. UNCHANGED <<state, marker, raw>> /\ tracked' \in {None, tracked}
    BY <1>8 DEF ReapClear, ReapRecheck, sessVars
  <2>2. cell'.by \in {cell.by, None}
    <3>1. cell = NoCall \/ cell \in [st : {"dialing", "active"}, by : Copies,
                                     under : SUBSET Passes, resists : BOOLEAN]
      OBVIOUS
    <3>2. CASE ReapClear(p)
      BY <3>1, <3>2 DEF ReapClear, NoCall
    <3>3. CASE ReapRecheck(p)
      BY <3>1, <3>3 DEF ReapRecheck, NoCall
    <3> QED
      BY <1>8, <3>2, <3>3
  <2> QED
    BY <2>1, <2>2 DEF LineMoves
<1>9. ASSUME NetAnswers PROVE LineMoves
  BY <1>9 DEF NetAnswers, NoCall, sessVars, LineMoves
<1>10. ASSUME NetEnds PROVE LineMoves
  BY <1>10 DEF NetEnds, NoCall, sessVars, LineMoves
<1> QED
  BY <1>2, <1>4, <1>5, <1>6, <1>7, <1>8, <1>9, <1>10, ControlFrame DEF Reap

\* A hangup that empties ActiveCallAdapter took the call off the line.
LEMMA HangupTracked ==
  ASSUME TypeInv, NEW s \in Copies, Hangup(s), NEW h \in Copies, tracked = h, cell'.by = h
  PROVE  tracked' = h
BY NoneAssumption DEF Hangup, lineVars, NoCall

\* ActiveCallAdapter does not forget a call that is up, but for the end of a pass of
\* the reaper and an event without an id.
LEMMA TrackedKept ==
  ASSUME TypeInv, ControlInv, [OutboundNext]_outboundVars,
         NEW h \in Copies, OnLine(h), OnLine(h)', tracked = h
  PROVE  \/ tracked' = h
         \/ \E p \in Passes : ReapRecheck(p)
         \/ Forward(None)
<1> USE NoneAssumption DEF TypeInv, OutboundTypeOK
<1>1. cell.by = h /\ cell'.by = h
  BY DEF OnLine
<1>2. ASSUME NEW g \in Copies, Invite(g) \/ Handle(g) PROVE tracked' = h
  <2>1. CASE ReapStale(g)
    <3>1. UNCHANGED lineVars \/ \E s \in Copies : Hangup(s)
      BY <2>1 DEF ReapStale
    <3> QED
      BY <1>1, <3>1, HangupTracked DEF lineVars
  <2>2. CASE Unanswered(g)
    BY <1>1, <2>2, HangupTracked DEF Unanswered
  <2>3. CASE DialATD(g)
    <3>1. g # h
      BY <1>1, <2>3 DEF DialATD, ControlInv, HasDialled
    <3> QED
      BY <1>1, <2>3, <3>1 DEF DialATD, Dials
  <2>4. CASE \/ Invite(g) \/ ListStale(g) \/ ReapForget(g) \/ Claim(g) \/ Prepare(g)
             \/ DialFailed(g) \/ Answered(g) \/ GiveUp(g) \/ Bridge(g) \/ Delete(g)
    BY <2>4 DEF Invite, ListStale, ReapForget, Claim, Prepare, DialFailed, Answered, GiveUp,
                Bridge, Delete, lineVars
  <2> QED
    BY <1>2, <2>1, <2>2, <2>3, <2>4 DEF Handle
<1>3. ASSUME NEW c \in Calls, HandleBye(c) \/ ByeDelete(c) PROVE tracked' = h
  <2>1. UNCHANGED lineVars \/ \E s \in Copies : Hangup(s)
    BY <1>3 DEF HandleBye, ByeDelete
  <2> QED
    BY <1>1, <2>1, HangupTracked DEF lineVars
<1>4. ASSUME NEW l \in Legs, Forward(l) PROVE tracked' = h \/ Forward(None)
  <2>1. l # h
    BY <1>1, <1>4 DEF Forward, ControlInv
  <2> QED
    BY <1>4, <2>1 DEF Forward
<1>5. ASSUME NEW l \in Legs, Tear(l) PROVE tracked' = h
  <2>1. tracked' = tracked \/ \E s \in Copies : Hangup(s)
    BY <1>5 DEF Tear, FindSession, TearDelete, TearTell, TearHangup, TornSession, lineVars
  <2> QED
    BY <1>1, <2>1, HangupTracked
<1>6. ASSUME NEW p \in Passes, Reap(p) PROVE tracked' = h \/ ReapRecheck(p)
  BY <1>6 DEF Reap, ReapLook, ReapList, ReapClear, lineVars
<1>7. ASSUME NetAnswers \/ NetEnds \/ UNCHANGED outboundVars PROVE tracked' = h
  BY <1>7 DEF NetAnswers, NetEnds, outboundVars, lineVars
<1>8. \/ \E g \in Copies : Invite(g) \/ Handle(g)
      \/ \E c \in Calls : HandleBye(c) \/ ByeDelete(c)
      \/ \E l \in Legs : Forward(l) \/ Tear(l)
      \/ \E p \in Passes : Reap(p)
      \/ NetAnswers \/ NetEnds \/ UNCHANGED outboundVars
  BY Zenon DEF OutboundNext, Goroutines, Outside
<1> QED
  BY <1>2, <1>3, <1>4, <1>5, <1>6, <1>7, <1>8

\* The leg of a call that is up is marked, and ActiveCallAdapter forgets it only at
\* the end of a pass of the reaper or for an event without an id, whatever other
\* handlers, BYEs, teardowns and late events do, for any number of them.
THEOREM ControlKept == OutboundSpec => LineUnderControl
<1> DEFINE Inv == TypeInv /\ ControlInv
<1>1. OutboundInit => Inv
  <2>1. OutboundInit => ControlInv
    BY NoneAssumption DEF OutboundInit, ControlInv, OnLine, NoCall
  <2> QED
    BY <2>1, TypeInvInit
<1>2. Inv /\ [OutboundNext]_outboundVars => Inv'
  <2> SUFFICES ASSUME Inv, [OutboundNext]_outboundVars PROVE Inv'
    OBVIOUS
  <2>1. ASSUME UNCHANGED outboundVars PROVE ControlInv'
    BY <2>1 DEF ControlInv, OnLine, HasDialled, outboundVars, sessVars, lineVars
  <2>2. ASSUME OutboundNext PROVE ControlInv'
    <3>1. \/ \E h \in Copies : Invite(h) \/ Handle(h)
          \/ \E c \in Calls : HandleBye(c) \/ ByeDelete(c)
          \/ \E l \in Legs : Forward(l) \/ Tear(l)
          \/ \E p \in Passes : Reap(p)
          \/ NetAnswers \/ NetEnds
      BY <2>2, Zenon DEF OutboundNext, Goroutines, Outside
    <3> QED
      BY <3>1, HandlerControls, OthersControl, Zenon
  <2> QED
    BY <2>1, <2>2, TypeInvKept
<1>3. Inv /\ Inv' /\ [OutboundNext]_outboundVars =>
        [\A h \in Copies : OnLine(h) /\ OnLine(h)' =>
           /\ marker = h /\ marker' = h
           /\ tracked = h => \/ tracked' = h
                             \/ \E p \in Passes : ReapRecheck(p)
                             \/ Forward(None)]_outboundVars
  <2> SUFFICES ASSUME Inv, Inv', [OutboundNext]_outboundVars,
                      NEW h \in Copies, OnLine(h), OnLine(h)'
               PROVE  /\ marker = h /\ marker' = h
                      /\ tracked = h => \/ tracked' = h
                                        \/ \E p \in Passes : ReapRecheck(p)
                                        \/ Forward(None)
    BY Zenon
  <2>1. marker = h /\ marker' = h
    BY DEF ControlInv
  <2>2. tracked = h => \/ tracked' = h
                       \/ \E p \in Passes : ReapRecheck(p)
                       \/ Forward(None)
    BY TrackedKept, Zenon
  <2> QED
    BY <2>1, <2>2, Zenon
<1> QED
  BY <1>1, <1>2, <1>3, PTL DEF OutboundSpec, LineUnderControl
-----------------------------------------------------------------------------
\* The points of handleInvite between claiming the call and its conclusion.
Concluding == {"prepare", "atd", "failed", "await", "bridge", "unanswered"}

ToldCalls == {c \in Calls : Told(c)}

\* The entry of the map is of its call, claimed, and its handler at work or its
\* client told.
MapInv ==
  \A c \in Calls : LET s == sessions[c] IN s # None =>
    hd[s].call = c /\ state[s] # "init" /\ (c \in ToldCalls \/ hd[s].pc \in Concluding)

\* Whoever is about to delete an entry has told, or found told, the client of its call.
DeleterInv ==
  /\ \A h \in Copies : hd[h].key # None => hd[h].key \in ToldCalls
  /\ \A h \in Copies : hd[h].pc = "delete" => hd[h].call \in ToldCalls
  /\ \A c \in Calls : bye[c] = "delete" => c \in ToldCalls

\* Whoever answers or tears down has claimed; a call is only forgotten when told.
ClaimInv ==
  /\ \A h \in Copies : state[h] # "init" =>
       hd[h].call \in ToldCalls \/ sessions[hd[h].call] # None
  /\ \A h \in Copies : hd[h].pc \in Concluding => state[h] # "init"
  /\ \A l \in Legs : tear[l].pc # "off" => state[tear[l].sess] # "init"

ToldInv == MapInv /\ DeleterInv /\ ClaimInv

\* What a step may do to the map, to the states of the sessions, to the handlers, to
\* the BYEs and to the teardowns without leaving a client untold.
MapMoves ==
  \A c \in Calls :
    \/ sessions'[c] = sessions[c]
    \/ sessions'[c] = None /\ c \in ToldCalls'
    \/ LET s == sessions'[c] IN
         /\ s \in Copies /\ hd[s].call = c
         /\ state'[s] # "init" /\ hd'[s].pc \in Concluding

ClaimMoves ==
  \A h \in Copies :
    \/ state'[h] # "init" <=> state[h] # "init"
    \/ state'[h] # "init" /\ sessions'[hd[h].call] # None

HandlerMoves ==
  \A h \in Copies :
    /\ hd[h].pc \in Concluding => hd'[h].pc \in Concluding \/ hd[h].call \in ToldCalls'
    /\ hd'[h].pc \in Concluding => hd[h].pc \in Concluding \/ state'[h] # "init"
    /\ hd'[h].key # None => hd'[h].key = hd[h].key \/ hd'[h].key \in ToldCalls'
    /\ hd'[h].pc = "delete" => hd[h].pc = "delete" \/ hd[h].call \in ToldCalls'

ByeMoves ==
  \A c \in Calls : bye'[c] = "delete" => bye[c] = "delete" \/ c \in ToldCalls'

TearMoves ==
  \A l \in Legs : tear'[l].pc # "off" =>
    \/ tear[l].pc # "off" /\ tear'[l].sess = tear[l].sess
    \/ state'[tear'[l].sess] # "init"

\* What was told before a step, and whose answer the step sends.
Telling ==
  /\ \A h \in Copies : hd'[h].call = hd[h].call /\ hd[h].call \in Calls
  /\ ToldCalls \subseteq ToldCalls'
  /\ \A h \in Copies : h \in concluded' => hd[h].call \in ToldCalls'

\* handleInvite changes the call of no copy.
LEMMA HandlerCalls ==
  ASSUME OutboundTypeOK, NEW h \in Copies, Invite(h) \/ Handle(h)
  PROVE  \A g \in Copies : hd'[g].call = hd[g].call
<1>1. hd \in HandlerType /\ \A g \in Copies : hd[g] \in InviteType
  BY DEF OutboundTypeOK, HandlerType, InviteType
<1>2. CASE hd' = hd
  BY <1>2
<1>3. CASE \E p \in Points : Goto(h, p)
  BY <1>1, <1>3 DEF Goto, HandlerType, InviteType
<1>4. CASE ListStale(h)
  BY <1>1, <1>4 DEF ListStale, HandlerType, InviteType
<1>5. CASE ReapStale(h)
  <2>1. PICK c \in hd[h].stale :
          \/ hd' = [hd EXCEPT ![h].stale = @ \ {c}]
          \/ hd' = [hd EXCEPT ![h].stale = @ \ {c}, ![h].key = c]
    BY <1>5, Zenon DEF ReapStale
  <2>2. CASE hd' = [hd EXCEPT ![h].stale = @ \ {c}]
    BY <1>1, <2>2 DEF HandlerType, InviteType
  <2>3. CASE hd' = [hd EXCEPT ![h].stale = @ \ {c}, ![h].key = c]
    BY <1>1, <2>3 DEF HandlerType, InviteType
  <2> QED BY <2>1, <2>2, <2>3
<1>6. CASE ReapForget(h)
  BY <1>1, <1>6 DEF ReapForget, HandlerType, InviteType
<1> QED
  BY <1>2, <1>3, <1>4, <1>5, <1>6
     DEF Handle, Invite, Claim, Prepare, DialATD, DialFailed, Answered, GiveUp, Bridge,
         Unanswered, Delete, Points

\* What was told stays told, and copies keep their calls.
LEMMA ToldKept ==
  ASSUME TypeInv, [OutboundNext]_outboundVars
  PROVE  Telling
<1> USE DEF TypeInv, OutboundTypeOK
<1>1. \A h \in Copies : hd'[h].call = hd[h].call /\ hd[h].call \in Calls
  <2>1. ASSUME NEW h \in Copies, Invite(h) \/ Handle(h)
        PROVE  \A g \in Copies : hd'[g].call = hd[g].call
    BY <2>1, HandlerCalls
  <2>2. CASE UNCHANGED hd
    BY <2>2
  <2> QED
    BY <2>1, <2>2
       DEF OutboundNext, Goroutines, Outside, Tear, Reap, FindSession, TearDelete,
           TearTell, TearHangup, ReapLook, ReapList, ReapClear, ReapRecheck, HandleBye,
           ByeDelete, Forward, NetAnswers, NetEnds, outboundVars
<1>2. concluded \subseteq concluded'
  BY DEF OutboundNext, Goroutines, Outside, Handle, Invite, ListStale, ReapStale, ReapForget,
         Claim, Prepare, DialATD, DialFailed, Answered, GiveUp, Bridge, Unanswered, Delete,
         Tear, Reap, FindSession, TearDelete, TearTell, TearHangup, ReapLook, ReapList,
         ReapClear, ReapRecheck, HandleBye, ByeDelete, Forward, NetAnswers, NetEnds,
         outboundVars, Conclude
<1>3. ASSUME NEW l \in Legs, tear[l].pc = "tell"
      PROVE  tear[l].sess \in Copies /\ (tear'[l] = tear[l] \/ tear[l].sess \in concluded')
  <2>1. tear[l].sess \in Copies
    BY <1>3 DEF TornSession
  <2>2. ASSUME NEW m \in Legs, Tear(m)
        PROVE  tear'[l] = tear[l] \/ tear[l].sess \in concluded'
    <3>1. CASE FindSession(m)
      <4>1. m # l
        BY <1>3, <3>1 DEF FindSession
      <4> QED
        BY <3>1, <4>1 DEF FindSession
    <3>2. CASE TearDelete(m)
      BY <1>3, <3>2 DEF TearDelete
    <3>3. CASE TearTell(m)
      BY <1>3, <3>3 DEF TearTell, Conclude
    <3>4. CASE TearHangup(m)
      BY <1>3, <3>4 DEF TearHangup
    <3> QED
      BY <2>2, <3>1, <3>2, <3>3, <3>4 DEF Tear
  <2>3. CASE UNCHANGED tear
    BY <2>1, <2>3
  <2> QED
    BY <2>1, <2>2, <2>3
       DEF OutboundNext, Goroutines, Outside, Handle, Invite, ListStale, ReapStale, ReapForget,
           Claim, Prepare, DialATD, DialFailed, Answered, GiveUp, Bridge, Unanswered, Delete,
           Reap, ReapLook, ReapList, ReapClear, ReapRecheck, HandleBye, ByeDelete, NetAnswers,
           NetEnds, Forward, outboundVars
<1>4. concluded' \subseteq Copies
  BY TypeInvKept
<1>5. ASSUME NEW c \in Calls, Told(c)
      PROVE  Told(c)'
  <2>1. CASE \E h \in concluded : CallOf(h) = c
    BY <1>1, <1>2, <2>1 DEF Told, CallOf
  <2>2. ASSUME NEW l \in Legs, tear[l].pc = "tell" /\ CallOf(tear[l].sess) = c
        PROVE  Told(c)'
    BY <1>1, <1>3, <2>2 DEF Told, CallOf
  <2> QED
    BY <1>5, <2>1, <2>2 DEF Told
<1>6. ASSUME NEW c \in Calls, \E h \in concluded' : hd[h].call = c
      PROVE  Told(c)'
  <2>1. \E h \in concluded' : hd'[h].call = c
    BY <1>1, <1>4, <1>6
  <2> QED
    BY <2>1 DEF Told, CallOf
<1> QED
  BY <1>1, <1>5, <1>6 DEF ToldCalls, Telling

\* A step with such moves only keeps the clients told.
LEMMA ToldFrame ==
  ASSUME TypeInv, TypeInv', ToldInv, Telling,
         MapMoves, ClaimMoves, HandlerMoves, ByeMoves, TearMoves
  PROVE  ToldInv'
<1> USE DEF Telling, MapMoves, ClaimMoves, HandlerMoves, ByeMoves, TearMoves
<1> USE DEF TypeInv, OutboundTypeOK
<1>1. MapInv'
  <2> SUFFICES ASSUME NEW c \in Calls, sessions'[c] # None
               PROVE  /\ hd'[sessions'[c]].call = c /\ state'[sessions'[c]] # "init"
                      /\ c \in ToldCalls' \/ hd'[sessions'[c]].pc \in Concluding
    BY DEF MapInv
  <2>1. sessions'[c] \in Copies
    OBVIOUS
  <2>2. CASE sessions'[c] = sessions[c]
    BY <2>1, <2>2 DEF ToldInv, MapInv
  <2>3. CASE sessions'[c] # sessions[c]
    BY <2>1, <2>3
  <2> QED BY <2>2, <2>3
<1>2. DeleterInv'
  <2>1. \A h \in Copies : hd'[h].key # None => hd'[h].key \in ToldCalls'
    BY DEF ToldInv, DeleterInv
  <2>2. \A h \in Copies : hd'[h].pc = "delete" => hd'[h].call \in ToldCalls'
    BY DEF ToldInv, DeleterInv
  <2>3. \A c \in Calls : bye'[c] = "delete" => c \in ToldCalls'
    BY DEF ToldInv, DeleterInv
  <2> QED BY <2>1, <2>2, <2>3 DEF DeleterInv
<1>3. ClaimInv'
  <2>1. ASSUME NEW h \in Copies, state'[h] # "init"
        PROVE  hd'[h].call \in ToldCalls' \/ sessions'[hd'[h].call] # None
    <3>1. hd[h].call \in Calls /\ hd'[h].call = hd[h].call
      OBVIOUS
    <3>2. CASE state[h] # "init"
      BY <3>1, <3>2, NoneAssumption DEF ToldInv, ClaimInv
    <3>3. CASE state[h] = "init"
      BY <2>1, <3>1, <3>3
    <3> QED BY <3>2, <3>3
  <2>2. \A h \in Copies : hd'[h].pc \in Concluding => state'[h] # "init"
    BY DEF ToldInv, ClaimInv
  <2>3. ASSUME NEW l \in Legs, tear'[l].pc # "off"
        PROVE  state'[tear'[l].sess] # "init"
    <3>1. CASE tear[l].pc # "off" /\ tear'[l].sess = tear[l].sess
      <4>1. tear[l].sess \in Copies /\ state[tear[l].sess] # "init"
        BY <3>1 DEF ToldInv, ClaimInv, TornSession
      <4> QED BY <3>1, <4>1
    <3> QED BY <2>3, <3>1
  <2> QED BY <2>1, <2>2, <2>3 DEF ClaimInv
<1> QED BY <1>1, <1>2, <1>3 DEF ToldInv

\* A hangup of a claimed session makes nobody claimed who was not.
LEMMA HangupTold ==
  ASSUME TypeInv, NEW s \in Copies, state[s] # "init", Hangup(s)
  PROVE  \A h \in Copies : state'[h] # "init" <=> state[h] # "init"
BY DEF Hangup, TypeInv, OutboundTypeOK

\* Goto changes the point of its own handler, and nobody's key.
LEMMA GotoMovesOne ==
  ASSUME TypeInv, NEW h \in Copies, NEW p, Goto(h, p)
  PROVE  \A g \in Copies : /\ hd'[g].pc = IF g = h THEN p ELSE hd[g].pc
                           /\ hd'[g].key = hd[g].key
BY DEF TypeInv, OutboundTypeOK, Goto

\* handleInvite: each of its deletions follows an answer, or finds the client told.
LEMMA HandlerTold ==
  ASSUME TypeInv, TypeInv', ToldInv, Telling, NEW h \in Copies, Invite(h) \/ Handle(h)
  PROVE  ToldInv'
<1> USE NoneAssumption DEF TypeInv, OutboundTypeOK
<1> DEFINE c == hd[h].call
<1>1. c \in Calls /\ hd[h].key \in Calls \cup {None}
  OBVIOUS
<1>2. UNCHANGED <<bye, tear>>
  BY DEF Handle, Invite, ListStale, ReapStale, ReapForget, Claim, Prepare, DialATD,
         DialFailed, Answered, GiveUp, Bridge, Unanswered, Delete
<1>3. ByeMoves
  BY <1>2 DEF ByeMoves
<1>4. ASSUME ClaimMoves PROVE TearMoves
  BY <1>2, <1>4 DEF TearMoves, ToldInv, ClaimInv, TornSession
<1>5. CASE Invite(h) \/ Prepare(h) \/ DialATD(h) \/ Answered(h) \/ GiveUp(h)
  <2>1. UNCHANGED sessVars
    BY <1>5 DEF Invite, Prepare, DialATD, Answered, GiveUp
  <2>2. PICK p \in Points : Goto(h, p)
    BY <1>5 DEF Invite, Prepare, DialATD, Answered, GiveUp, Points
  <2>3. \/ hd[h].pc = "off" /\ hd'[h].pc \in {"trying", "done"}
        \/ hd[h].pc \in Concluding /\ hd'[h].pc \in Concluding
    BY <1>5, GotoMovesOne DEF Invite, Prepare, DialATD, Answered, GiveUp, Concluding
  <2>4. HandlerMoves
    BY <2>2, <2>3, GotoMovesOne DEF HandlerMoves, Concluding
  <2>5. MapMoves /\ ClaimMoves
    BY <2>1 DEF MapMoves, ClaimMoves, sessVars
  <2> QED BY <1>3, <1>4, <2>4, <2>5, ToldFrame
<1>6. CASE ListStale(h)
  <2>1. UNCHANGED sessVars
    BY <1>6 DEF ListStale
  <2>2. hd'[h] = [hd[h] EXCEPT !.pc = "reap", !.stale = {k \in Calls : sessions[k] # None}]
    BY <1>6 DEF ListStale
  <2>3. hd[h] \in InviteType /\ \A g \in Copies : g # h => hd'[g] = hd[g]
    BY <1>6 DEF ListStale, InviteType
  <2>4. hd[h].pc = "trying" /\ hd'[h].pc = "reap" /\ hd'[h].key = hd[h].key
    BY <1>6, <2>2, <2>3 DEF ListStale, InviteType
  <2>5. HandlerMoves
    BY <2>3, <2>4 DEF HandlerMoves, Concluding
  <2>6. MapMoves /\ ClaimMoves
    BY <2>1 DEF MapMoves, ClaimMoves, sessVars
  <2> QED BY <1>3, <1>4, <2>5, <2>6, ToldFrame
<1>7. CASE ReapStale(h)
  <2>1. hd[h].pc = "reap" /\ UNCHANGED sessions
    BY <1>7 DEF ReapStale
  <2>2. PICK k \in hd[h].stale :
          \/ /\ sessions[k] = None
             /\ hd' = [hd EXCEPT ![h].stale = @ \ {k}]
             /\ UNCHANGED <<state, ctxDone, lineVars, concluded>>
          \/ /\ sessions[k] # None
             /\ Hangup(sessions[k])
             /\ Conclude(sessions[k])
             /\ hd' = [hd EXCEPT ![h].stale = @ \ {k}, ![h].key = k]
    BY <1>7, Zenon DEF ReapStale
  <2>3. k \in Calls /\ sessions[k] \in Copies \cup {None}
    OBVIOUS
  <2>4. CASE sessions[k] = None
    <3>1. HandlerMoves
      BY <2>1, <2>2, <2>4 DEF HandlerMoves, Concluding
    <3>2. MapMoves /\ ClaimMoves
      BY <2>1, <2>2, <2>4 DEF MapMoves, ClaimMoves
    <3> QED BY <1>3, <1>4, <3>1, <3>2, ToldFrame
  <2>5. CASE sessions[k] # None
    <3>1. sessions[k] \in Copies /\ state[sessions[k]] # "init" /\ hd[sessions[k]].call = k
      BY <2>3, <2>5 DEF ToldInv, MapInv
    <3>2. k \in ToldCalls'
      BY <2>2, <2>5, <3>1 DEF Conclude, Telling
    <3>3. hd' = [hd EXCEPT ![h].stale = @ \ {k}, ![h].key = k]
      BY <2>2, <2>5
    <3>4. HandlerMoves
      BY <2>1, <3>2, <3>3 DEF HandlerMoves, Concluding
    <3>5. MapMoves /\ ClaimMoves
      BY <2>1, <2>2, <2>5, <3>1, HangupTold DEF MapMoves, ClaimMoves
    <3> QED BY <1>3, <1>4, <3>4, <3>5, ToldFrame
  <2> QED BY <2>4, <2>5
<1>8. CASE ReapForget(h)
  <2>1. hd[h].key \in Calls /\ hd[h].key \in ToldCalls'
    BY <1>1, <1>8 DEF ReapForget, ToldInv, DeleterInv, Telling
  <2>2. MapMoves /\ ClaimMoves
    BY <1>8, <2>1 DEF ReapForget, Forget, MapMoves, ClaimMoves
  <2>3. HandlerMoves
    BY <1>8 DEF ReapForget, HandlerMoves, Concluding
  <2> QED BY <1>3, <1>4, <2>2, <2>3, ToldFrame
<1>9. CASE Claim(h)
  <2>1. CASE sessions[c] = None
    <3>1. /\ sessions' = [sessions EXCEPT ![c] = h]
          /\ state' = [state EXCEPT ![h] = "dialing"]
          /\ Goto(h, "prepare") /\ hd[h].pc = "reap"
      BY <1>9, <2>1 DEF Claim, CallOf
    <3>2. state'[h] = "dialing" /\ hd'[h].pc = "prepare" /\ sessions'[c] = h
      BY <1>1, <3>1, GotoMovesOne
    <3>3. MapMoves
      BY <3>1, <3>2 DEF MapMoves, Concluding
    <3>4. ClaimMoves
      BY <3>1, <3>2 DEF ClaimMoves
    <3>5. HandlerMoves
      BY <3>1, <3>2, GotoMovesOne DEF HandlerMoves, Concluding
    <3> QED BY <1>3, <1>4, <3>3, <3>4, <3>5, ToldFrame
  <2>2. CASE sessions[c] # None
    <3>1. UNCHANGED <<sessions, state>> /\ Goto(h, "done") /\ hd[h].pc = "reap"
      BY <1>9, <2>2 DEF Claim, CallOf
    <3>2. MapMoves /\ ClaimMoves
      BY <3>1 DEF MapMoves, ClaimMoves
    <3>3. HandlerMoves
      BY <3>1, GotoMovesOne DEF HandlerMoves, Concluding
    <3> QED BY <1>3, <1>4, <3>2, <3>3, ToldFrame
  <2> QED BY <2>1, <2>2
<1>10. CASE DialFailed(h) \/ Delete(h)
  <2>1. c \in ToldCalls'
    BY <1>10 DEF DialFailed, Delete, Conclude, Telling, ToldInv, DeleterInv
  <2>2. MapMoves /\ ClaimMoves
    BY <1>1, <1>10, <2>1 DEF DialFailed, Delete, Forget, CallOf, MapMoves, ClaimMoves
  <2>3. HandlerMoves
    BY <1>10, <2>1, GotoMovesOne DEF DialFailed, Delete, HandlerMoves, Concluding
  <2> QED BY <1>3, <1>4, <2>2, <2>3, ToldFrame
<1>11. CASE Bridge(h)
  <2>1. state[h] # "init" /\ UNCHANGED sessions /\ hd[h].pc = "bridge"
    BY <1>11 DEF Bridge, ToldInv, ClaimInv, Concluding
  <2>2. MapMoves /\ ClaimMoves
    BY <1>11, <2>1 DEF Bridge, MapMoves, ClaimMoves
  <2>3. HandlerMoves
    <3>1. CASE Conclude(h) /\ Goto(h, "done")
      BY <3>1, GotoMovesOne DEF Conclude, Telling, HandlerMoves, Concluding
    <3>2. CASE Goto(h, "unanswered")
      <4>1. \A g \in Copies : /\ hd'[g].pc = IF g = h THEN "unanswered" ELSE hd[g].pc
                              /\ hd'[g].key = hd[g].key
        BY <3>2, GotoMovesOne
      <4> QED
        BY <2>1, <4>1 DEF HandlerMoves, Concluding
    <3> QED BY <1>11, <3>1, <3>2 DEF Bridge
  <2> QED BY <1>3, <1>4, <2>2, <2>3, ToldFrame
<1>12. CASE Unanswered(h)
  <2>1. state[h] # "init" /\ UNCHANGED sessions /\ hd[h].pc = "unanswered"
    BY <1>12 DEF Unanswered, ToldInv, ClaimInv, Concluding
  <2>2. c \in ToldCalls'
    BY <1>12, <2>1 DEF Unanswered, CallOf, Conclude, Telling, ToldInv, ClaimInv
  <2>3. MapMoves /\ ClaimMoves
    BY <1>12, <2>1, HangupTold DEF Unanswered, MapMoves, ClaimMoves
  <2>4. HandlerMoves
    BY <1>12, <2>1, <2>2, GotoMovesOne DEF Unanswered, HandlerMoves, Concluding
  <2> QED BY <1>3, <1>4, <2>3, <2>4, ToldFrame
<1> QED
  BY <1>5, <1>6, <1>7, <1>8, <1>9, <1>10, <1>11, <1>12 DEF Handle

\* BYE, CANCEL and the end of a leg: the client left or is told before the entry
\* of the map goes.
LEMMA LeavingTold ==
  ASSUME TypeInv, TypeInv', ToldInv, Telling,
         \/ \E c \in Calls : HandleBye(c) \/ ByeDelete(c)
         \/ \E l \in Legs : Tear(l)
  PROVE  ToldInv'
<1> USE NoneAssumption DEF TypeInv, OutboundTypeOK
<1>1. UNCHANGED hd
  BY DEF HandleBye, ByeDelete, Tear, FindSession, TearDelete, TearTell, TearHangup
<1>2. HandlerMoves
  BY <1>1 DEF HandlerMoves
<1>3. ASSUME NEW c \in Calls, HandleBye(c) \/ ByeDelete(c)
      PROVE  MapMoves /\ ClaimMoves /\ ByeMoves /\ UNCHANGED tear
  <2>1. CASE HandleBye(c) /\ sessions[c] = None
    BY <2>1 DEF HandleBye, MapMoves, ClaimMoves, ByeMoves
  <2>2. CASE HandleBye(c) /\ sessions[c] # None
    <3>1. /\ sessions[c] \in Copies /\ Hangup(sessions[c]) /\ Conclude(sessions[c])
          /\ bye' = [bye EXCEPT ![c] = "delete"] /\ UNCHANGED <<sessions, tear>>
      BY <2>2 DEF HandleBye
    <3>2. state[sessions[c]] # "init" /\ hd[sessions[c]].call = c
      BY <2>2 DEF ToldInv, MapInv
    <3>3. c \in ToldCalls'
      BY <3>1, <3>2 DEF Conclude, Telling
    <3>4. ClaimMoves
      BY <3>1, <3>2, HangupTold DEF ClaimMoves
    <3> QED BY <3>1, <3>3, <3>4 DEF MapMoves, ByeMoves
  <2>3. CASE ByeDelete(c)
    <3>1. c \in ToldCalls'
      BY <2>3 DEF ByeDelete, ToldInv, DeleterInv, Telling
    <3> QED BY <2>3, <3>1 DEF ByeDelete, Forget, MapMoves, ClaimMoves, ByeMoves
  <2> QED BY <1>3, <2>1, <2>2, <2>3
<1>4. ASSUME NEW l \in Legs, Tear(l)
      PROVE  MapMoves /\ ClaimMoves /\ TearMoves /\ UNCHANGED bye
  <2>1. CASE FindSession(l)
    <3>1. \A s \in Live : s \in Copies /\ state[s] # "init"
      BY DEF Live, CallOf, ToldInv, MapInv
    <3>2. UNCHANGED <<sessions, state, bye>>
      BY <2>1 DEF FindSession, sessVars
    <3>3. \/ UNCHANGED tear
          \/ \E s \in Live : tear' = [tear EXCEPT ![l] = [pc |-> "delete", sess |-> s]]
      BY <2>1 DEF FindSession
    <3>4. TearMoves
      BY <3>1, <3>2, <3>3 DEF TearMoves, ToldInv, ClaimInv
    <3> QED BY <3>2, <3>4 DEF MapMoves, ClaimMoves
  <2>2. CASE TearDelete(l)
    <3>1. tear[l].sess \in Copies /\ state[tear[l].sess] # "init"
      BY <2>2 DEF TearDelete, TornSession, ToldInv, ClaimInv
    <3>2. tear'[l].pc = "tell" /\ tear'[l].sess = tear[l].sess
      BY <2>2 DEF TearDelete
    <3> DEFINE c == hd[tear[l].sess].call
    <3>3. c \in Calls /\ hd'[tear'[l].sess].call = c
      BY <1>1, <3>1, <3>2
    <3>4. c \in ToldCalls'
      BY <3>2, <3>3 DEF ToldCalls, Told, CallOf
    <3>5. MapMoves
      BY <2>2, <3>3, <3>4 DEF TearDelete, Forget, CallOf, MapMoves
    <3>6. ClaimMoves /\ UNCHANGED bye
      BY <2>2 DEF TearDelete, ClaimMoves
    <3>7. TearMoves
      BY <2>2 DEF TearDelete, TearMoves
    <3> QED BY <3>5, <3>6, <3>7
  <2>3. CASE TearTell(l)
    BY <2>3 DEF TearTell, sessVars, MapMoves, ClaimMoves, TearMoves
  <2>4. CASE TearHangup(l)
    <3>1. tear[l].sess \in Copies /\ state[tear[l].sess] # "init"
      BY <2>4 DEF TearHangup, TornSession, ToldInv, ClaimInv
    <3>2. ClaimMoves
      BY <2>4, <3>1, HangupTold DEF TearHangup, ClaimMoves
    <3>3. MapMoves /\ UNCHANGED bye
      BY <2>4 DEF TearHangup, MapMoves
    <3>4. TearMoves
      BY <2>4 DEF TearHangup, TearMoves
    <3> QED BY <3>2, <3>3, <3>4
  <2> QED BY <1>4, <2>1, <2>2, <2>3, <2>4 DEF Tear
<1>5. ASSUME UNCHANGED tear, ClaimMoves PROVE TearMoves
  BY <1>5 DEF TearMoves
<1>6. ASSUME UNCHANGED bye PROVE ByeMoves
  BY <1>6 DEF ByeMoves
<1> QED
  BY <1>2, <1>3, <1>4, <1>5, <1>6, ToldFrame

\* Reaper, forwardEvents and network touch no session.
LEMMA OthersTold ==
  ASSUME TypeInv, TypeInv', ToldInv, Telling,
         UNCHANGED <<hd, sessVars, bye, tear>>
  PROVE  ToldInv'
<1>1. MapMoves /\ ClaimMoves /\ HandlerMoves /\ ByeMoves /\ TearMoves
  BY DEF MapMoves, ClaimMoves, HandlerMoves, ByeMoves, TearMoves, sessVars
<1> QED
  BY <1>1, ToldFrame

\* A call that was claimed is with a handler that dials, waits or bridges for it, or
\* its client was told, for any number of INVITEs, Call-IDs, BYEs, events and passes.
THEOREM ClientsTold == OutboundSpec => []ClientIsTold
<1> DEFINE Inv == TypeInv /\ ToldInv
<1>1. OutboundInit => Inv
  <2>1. OutboundInit => ToldInv
    BY NoneAssumption DEF OutboundInit, ToldInv, MapInv, DeleterInv, ClaimInv, Concluding
  <2> QED
    BY <2>1, TypeInvInit
<1>2. Inv /\ [OutboundNext]_outboundVars => Inv'
  <2> SUFFICES ASSUME Inv, [OutboundNext]_outboundVars PROVE Inv'
    OBVIOUS
  <2>1. TypeInv' /\ Telling
    BY TypeInvKept, ToldKept
  <2>2. \/ \E h \in Copies : Invite(h) \/ Handle(h)
        \/ \E c \in Calls : HandleBye(c) \/ ByeDelete(c)
        \/ \E l \in Legs : Tear(l)
        \/ UNCHANGED <<hd, sessVars, bye, tear>>
    BY DEF OutboundNext, Goroutines, Outside, outboundVars, Forward, Reap, ReapLook,
           ReapList, ReapClear, ReapRecheck, NetAnswers, NetEnds
  <2> QED
    BY <2>1, <2>2, HandlerTold, LeavingTold, OthersTold, Zenon
<1>3. Inv => ClientIsTold
  <2> SUFFICES ASSUME Inv, NEW h \in Copies, state[h] # "init", ~Told(CallOf(h))
               PROVE  LET s == sessions[CallOf(h)] IN
                        /\ s # None
                        /\ hd[s].pc \in {"prepare", "atd", "failed", "await", "bridge",
                                         "unanswered"}
    BY DEF ClientIsTold
  <2>1. hd[h].call \in Calls /\ hd[h].call \notin ToldCalls
    BY DEF TypeInv, OutboundTypeOK, ToldCalls, CallOf
  <2>2. sessions[hd[h].call] # None
    BY <2>1 DEF ToldInv, ClaimInv
  <2> QED
    BY <2>1, <2>2 DEF ToldInv, MapInv, CallOf, Concluding
<1> QED
  BY <1>1, <1>2, <1>3, PTL DEF OutboundSpec
=============================================================================
