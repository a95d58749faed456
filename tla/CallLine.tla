------------------------------ MODULE CallLine ------------------------------
(***************************************************************************)
(* The one cellular line: the call inside the module, the bookkeeping of   *)
(* at.Adapter (internal/modem/at/adapter.go), that of ActiveCallAdapter on *)
(* top of it (internal/modem/call_adapter.go) and the call events between  *)
(* them.                                                                   *)
(*                                                                         *)
(* A step is one section under a mutex or one AT exchange; the goroutines  *)
(* that use the line interleave between those.  An exchange either gets    *)
(* its final line or fails, and a failed one may have been carried out.    *)
(***************************************************************************)
EXTENDS Naturals, Sequences

CONSTANTS
  Users,       \* goroutines that issue AT exchanges
  Reader,      \* the goroutine of Client.Run
  Ops,         \* the operations they perform
  Faults,      \* an AT exchange may fail, carried out or not
  MaxCall,     \* bound: call ids handed out
  MaxUrc,      \* bound: URC lines on their way and in one goroutine's hands
  EventCap     \* capacity of the event channel (32 in the code)

ASSUME ReaderAssumption == Reader \notin Users
ASSUME OpsAssumption == Ops \subseteq {"dial", "answer", "hangup", "reap", "poll"}
ASSUME FaultsAssumption == Faults \in BOOLEAN
ASSUME BoundsAssumption == /\ MaxCall \in Nat /\ MaxUrc \in Nat
                           /\ EventCap \in Nat \ {0}

VARIABLES
  cell,          \* the module's call context: none, ringing, or dialled or answered
  unheard,       \* history: the module's last call ended and said so to nobody
  urc,           \* unsolicited lines on their way to the gateway
  active,        \* at.Adapter.active; 0 stands for ""
  incomingSent,  \* at.Adapter.incomingSent
  pendingPeer,   \* at.Adapter.pendingPeer holds a number
  todo,          \* lines a goroutine has read and not yet handled
  overtook,      \* history: an exchange came between the reader's read and its
                 \* handling of those lines, and flags set since may be stale
  hnd,           \* the HandleURC invocation of each goroutine
  emitting,      \* emitIncomingDelayed goroutines, by call id
  events,        \* at.Adapter.events
  tracked,       \* ActiveCallAdapter.active
  lastPhysical,  \* the call whose end ActiveCallAdapter saw last
  nextId,        \* ids handed out so far
  op             \* control operation of each user

atVars   == <<active, incomingSent, pendingPeer>>
acaVars  == <<tracked, lastPhysical>>
urcVars  == <<urc, todo, overtook, hnd, emitting>>
moduleVars == <<cell, unheard>>
lineVars == <<moduleVars, urcVars, atVars, events, acaVars, nextId, op>>
-----------------------------------------------------------------------------
None   == 0
Handlers == Users \cup {Reader}
CallId == 0 .. MaxCall
Line   == {"RING", "CLIP", "END"}
Event  == [kind : {"incoming", "ended"}, call : CallId]
Points == {"idle", "dial", "atd", "dialed", "track", "answer", "ata?", "ata",
           "hangup", "ath?", "ath", "finish", "untrack", "reap", "clear",
           "recheck", "reset", "poll"}

Idle == [pc |-> "idle", call |-> None]

LineInit ==
  /\ cell = "none" /\ unheard = FALSE
  /\ urc = <<>>
  /\ active = None /\ incomingSent = FALSE /\ pendingPeer = FALSE
  /\ todo = [h \in Handlers |-> <<>>] /\ overtook = FALSE
  /\ hnd = [h \in Handlers |-> [line |-> "none", call |-> None]]
  /\ emitting = [c \in CallId |-> 0]
  /\ events = <<>>
  /\ tracked = None /\ lastPhysical = None
  /\ nextId = 0
  /\ op = [u \in Users |-> Idle]

\* select { case events <- e: default: } drops the event when the channel is full.
Publish(e) == events' = IF Len(events) < EventCap THEN Append(events, e) ELSE events

Goto(u, p)    == op' = [op EXCEPT ![u].pc = p]
Finish(u)     == op' = [op EXCEPT ![u] = Idle]
Fresh(c)      == nextId < MaxCall /\ nextId' = nextId + 1 /\ c = nextId + 1
-----------------------------------------------------------------------------
(* The cellular module and the network (external).                         *)

InHand(h) == Len(todo[h]) + IF hnd[h].line = "none" THEN 0 ELSE 1

Arrives(lines) ==
  /\ \A h \in Handlers : Len(urc) + InHand(h) < MaxUrc
  /\ urc' = urc \o lines

\* A caller rings, and rings on; +CLIP follows a RING.  No call begins once the
\* ids are used up.
NetRing ==
  /\ cell = "incoming" \/ (cell = "none" /\ nextId < MaxCall)
  /\ cell' = "incoming"
  /\ unheard' = FALSE
  /\ Arrives(<<"RING">>)
NetClip == cell = "incoming" /\ UNCHANGED moduleVars /\ Arrives(<<"CLIP">>)

\* The network or the far end ends the call.
NetEnd ==
  /\ cell # "none"
  /\ cell' = "none" /\ unheard' = FALSE
  /\ Arrives(<<"END">>)

\* A call taken down by an exchange that failed, or by a rung of the ladder, ends
\* without a line.
EndsUnheard == unheard' = (unheard \/ cell # cell')

Network ==
  /\ NetRing \/ NetClip \/ NetEnd
  /\ UNCHANGED <<todo, overtook, hnd, emitting, atVars, events, acaVars, nextId, op>>

-----------------------------------------------------------------------------
(* at.Adapter.HandleURC and emitIncomingDelayed.                           *)

Dispatched(h) == todo[h] = <<>> /\ hnd[h].line = "none"

\* An exchange keeps the port until the lines it read are handled, so those of
\* two exchanges never are at once.
PortFree == \A u \in Users : Dispatched(u)
Calm     == \A h \in Handlers : Dispatched(h)

\* Client.Run reads what there is while the port is free, gives the port back
\* and then hands the lines to HandleURC: it holds no lock an exchange needs, so
\* any number of exchanges may come first.
ReadIdle ==
  /\ urc # <<>>
  /\ PortFree /\ Dispatched(Reader)
  /\ urc' = <<>>
  /\ todo' = [todo EXCEPT ![Reader] = urc]
  /\ UNCHANGED <<moduleVars, overtook, hnd, emitting, atVars, events, acaVars, nextId, op>>

\* An exchange takes the port, reads the lines ahead of its final one and hands
\* them over, still holding the port, before it returns to its caller.  It
\* overtakes whatever the reader has in hand.
Drain(u) ==
  /\ PortFree
  /\ urc' = <<>>
  /\ todo' = [todo EXCEPT ![u] = urc]
  /\ overtook' = (overtook \/ ~Calm)
  /\ UNCHANGED <<hnd, emitting>>

\* HandleURC begins: it reads the active call under a.mu.
Handle(h) ==
  /\ hnd[h].line = "none"
  /\ todo[h] # <<>>
  /\ todo' = [todo EXCEPT ![h] = Tail(@)]
  /\ hnd' = [hnd EXCEPT ![h] = [line |-> Head(todo[h]),
                                call |-> IF Head(todo[h]) = "CLIP" THEN None ELSE active]]
  /\ UNCHANGED <<moduleVars, urc, overtook, emitting, atVars, events, acaVars, nextId, op>>

Free(h) == hnd' = [hnd EXCEPT ![h] = [line |-> "none", call |-> None]]

OnClip(h) ==
  /\ hnd[h].line = "CLIP"
  /\ pendingPeer' = TRUE
  /\ Free(h)
  /\ UNCHANGED <<moduleVars, urc, todo, overtook, emitting, active, incomingSent, events, acaVars,
                 nextId, op>>

\* The first RING of a call that was not dialled opens it under a new id.
OnRingOpen(h) ==
  /\ hnd[h].line = "RING" /\ hnd[h].call = None
  /\ \E c \in CallId :
       /\ Fresh(c)
       /\ active' = c
       /\ hnd' = [hnd EXCEPT ![h].call = c]
  /\ UNCHANGED <<moduleVars, urc, todo, overtook, emitting, incomingSent, pendingPeer, events,
                 acaVars, op>>

\* Mutant: the marker is written again with the flag.
OnRingMarks(h) ==
  /\ hnd[h].line = "RING" /\ hnd[h].call # None
  /\ active' = hnd[h].call
  /\ incomingSent' = TRUE
  /\ emitting' = IF incomingSent THEN emitting
                 ELSE [emitting EXCEPT ![hnd[h].call] = @ + 1]
  /\ Free(h)
  /\ UNCHANGED <<moduleVars, urc, todo, overtook, pendingPeer, events, acaVars,
                 nextId, op>>

\* Only the first RING starts the delayed incoming event.
OnRing(h) ==
  /\ hnd[h].line = "RING" /\ hnd[h].call # None
  /\ incomingSent' = TRUE
  /\ emitting' = IF incomingSent THEN emitting
                 ELSE [emitting EXCEPT ![hnd[h].call] = @ + 1]
  /\ Free(h)
  /\ UNCHANGED <<moduleVars, urc, todo, overtook, active, pendingPeer, events, acaVars,
                 nextId, op>>

\* Mutant: the event is named after the line.
OnEndRaw(h) ==
  /\ hnd[h].line = "END"
  /\ active' = IF active = hnd[h].call THEN None ELSE active
  /\ incomingSent' = FALSE
  /\ pendingPeer' = FALSE
  /\ Publish([kind |-> hnd[h].line, call |-> hnd[h].call])
  /\ Free(h)
  /\ UNCHANGED <<moduleVars, urc, todo, overtook, emitting, acaVars, nextId, op>>

\* The flags are cleared; if this was the last line in hand, none is stale.
OnEnd(h) ==
  /\ hnd[h].line = "END"
  /\ active' = IF active = hnd[h].call THEN None ELSE active
  /\ incomingSent' = FALSE
  /\ pendingPeer' = FALSE
  /\ Publish([kind |-> "ended", call |-> hnd[h].call])
  /\ Free(h)
  /\ overtook' = (overtook /\ \E g \in Handlers : todo[g] # <<>> \/ (g # h /\ ~Dispatched(g)))
  /\ UNCHANGED <<moduleVars, urc, todo, emitting, acaVars, nextId, op>>

\* At the latest 800 ms after the RING, whatever happened to the call meanwhile.
EmitIncoming(c) ==
  /\ emitting[c] > 0
  /\ emitting' = [emitting EXCEPT ![c] = @ - 1]
  /\ pendingPeer' = FALSE
  /\ Publish([kind |-> "incoming", call |-> c])
  /\ UNCHANGED <<moduleVars, urc, todo, overtook, hnd, active, incomingSent, acaVars, nextId, op>>

-----------------------------------------------------------------------------
(* ActiveCallAdapter.forwardEvents: one event, under its mutex.  The event it  *)
(* hands on, and the HTTP handlers' name for the call that it may carry, change *)
(* nothing here.                                                               *)
Forward ==
  /\ events # <<>>
  /\ events' = Tail(events)
  /\ LET e == Head(events)
         now == IF e.kind = "incoming" /\ e.call # None /\ tracked = None
                  THEN e.call ELSE tracked
     IN  IF e.kind = "ended" /\ e.call \in {now, lastPhysical}
           THEN /\ lastPhysical' = IF lastPhysical = None THEN e.call ELSE lastPhysical
                /\ tracked' = None
           ELSE /\ tracked' = now
                /\ UNCHANGED lastPhysical
  /\ UNCHANGED <<moduleVars, urcVars, atVars, nextId, op>>
-----------------------------------------------------------------------------
(* Control operations of ActiveCallAdapter on at.Adapter.                  *)

Begin(u) ==
  /\ op[u].pc = "idle" /\ Dispatched(u)
  /\ \E o \in Ops :
       /\ o = "dial" => nextId < MaxCall
       /\ op' = [op EXCEPT ![u] = [pc |-> o, call |-> None]]
  /\ UNCHANGED <<moduleVars, urcVars, atVars, events, acaVars, nextId>>

\* Dial: the busy check, ATD, the adapter's marker, ActiveCallAdapter's marker.
DialCheck(u) ==
  /\ op[u].pc = "dial"
  /\ IF active # None THEN Finish(u) ELSE Goto(u, "atd")
  /\ UNCHANGED <<moduleVars, urcVars, atVars, events, acaVars, nextId>>

DialATD(u) ==
  /\ op[u].pc = "atd"
  /\ \/ /\ cell = "none" /\ cell' = "up" /\ unheard' = FALSE
        /\ Goto(u, "dialed") \/ (Faults /\ Finish(u))
     \/ (Faults \/ cell # "none") /\ UNCHANGED moduleVars /\ Finish(u)
  /\ Drain(u)
  /\ UNCHANGED <<atVars, events, acaVars, nextId>>

DialMark(u) ==
  /\ op[u].pc = "dialed" /\ Dispatched(u)
  /\ \E c \in CallId :
       /\ Fresh(c)
       /\ active' = c
       /\ op' = [op EXCEPT ![u].pc = "track", ![u].call = c]
  /\ UNCHANGED <<moduleVars, urcVars, incomingSent, pendingPeer, events, acaVars>>

DialTrack(u) ==
  /\ op[u].pc = "track"
  /\ tracked' = op[u].call
  /\ lastPhysical' = None
  /\ Finish(u)
  /\ UNCHANGED <<moduleVars, urcVars, atVars, events, nextId>>

\* withActive: Answer and Hangup act on the call tracked at this moment.
WithActive(u) ==
  /\ op[u].pc \in {"answer", "hangup"}
  /\ IF tracked = None THEN Finish(u)
     ELSE op' = [op EXCEPT ![u].call = tracked,
                           ![u].pc = IF @ = "answer" THEN "ata?" ELSE "ath?"]
  /\ UNCHANGED <<moduleVars, urcVars, atVars, events, acaVars, nextId>>

\* validateActive: the adapter must still have that very call.
ValidateActive(u) ==
  /\ op[u].pc \in {"ata?", "ath?"}
  /\ IF active # op[u].call THEN Finish(u)
     ELSE Goto(u, IF op[u].pc = "ata?" THEN "ata" ELSE "ath")
  /\ UNCHANGED <<moduleVars, urcVars, atVars, events, acaVars, nextId>>

AnswerATA(u) ==
  /\ op[u].pc = "ata"
  /\ \/ cell = "incoming" /\ cell' = "up" /\ Finish(u)
     \/ (Faults \/ cell # "incoming") /\ UNCHANGED cell /\ Finish(u)
  /\ Drain(u)
  /\ UNCHANGED <<unheard, atVars, events, acaVars, nextId>>

HangupATH(u) ==
  /\ op[u].pc = "ath"
  /\ \/ cell' = "none" /\ unheard' = FALSE /\ Goto(u, "finish")
     \/ Faults /\ cell' \in {"none", cell} /\ EndsUnheard /\ Finish(u)
  /\ Drain(u)
  /\ UNCHANGED <<atVars, events, acaVars, nextId>>

\* Mutant: a local hangup clears only the marker.
HangupKeepsFlags(u) ==
  /\ op[u].pc = "finish" /\ Dispatched(u)
  /\ active' = IF active = op[u].call THEN None ELSE active
  /\ Publish([kind |-> "ended", call |-> op[u].call])
  /\ Goto(u, "untrack")
  /\ UNCHANGED <<moduleVars, urcVars, incomingSent, pendingPeer, acaVars, nextId>>

\* finishActive.
HangupFinish(u) ==
  /\ op[u].pc = "finish" /\ Dispatched(u)
  /\ active' = IF active = op[u].call THEN None ELSE active
  /\ incomingSent' = FALSE
  /\ pendingPeer' = FALSE
  /\ Publish([kind |-> "ended", call |-> op[u].call])
  /\ Goto(u, "untrack")
  /\ overtook' = (overtook /\ ~Calm)
  /\ UNCHANGED <<moduleVars, urc, todo, hnd, emitting, acaVars, nextId>>

\* The rest of ActiveCallAdapter.Hangup.
HangupUntrack(u) ==
  /\ op[u].pc = "untrack"
  /\ lastPhysical' = tracked
  /\ tracked' = None
  /\ Finish(u)
  /\ UNCHANGED <<moduleVars, urcVars, atVars, events, nextId>>

\* ReapGhosts: list the contexts; climb the ladder while one stays; forget the
\* call on success.
ReapList(u) ==
  /\ op[u].pc = "reap"
  /\ \/ cell = "none" /\ Finish(u)
     \/ cell # "none" /\ Goto(u, "clear")
     \/ Finish(u)
  /\ Drain(u)
  /\ UNCHANGED <<moduleVars, atVars, events, acaVars, nextId>>

\* A rung may have no effect though answered OK, or one though it failed; after
\* a failed one the next is tried, and the error of the last is returned.
ReapClear(u) ==
  /\ op[u].pc = "clear"
  /\ cell' \in {"none", cell} /\ EndsUnheard
  /\ (\E p \in {"recheck", "clear"} : Goto(u, p)) \/ Finish(u)
  /\ Drain(u)
  /\ UNCHANGED <<atVars, events, acaVars, nextId>>

\* Cleared; next rung; out of rungs with the last one answered OK; no answer.
ReapRecheck(u) ==
  /\ op[u].pc = "recheck"
  /\ \/ cell = "none" /\ Goto(u, "reset")
     \/ cell # "none" /\ \E p \in {"clear", "reset"} : Goto(u, p)
     \/ Finish(u)
  /\ Drain(u)
  /\ UNCHANGED <<moduleVars, atVars, events, acaVars, nextId>>

ReapReset(u) ==
  /\ op[u].pc = "reset" /\ Dispatched(u)
  /\ tracked' = None
  /\ Finish(u)
  /\ UNCHANGED <<moduleVars, urcVars, atVars, events, lastPhysical, nextId>>

\* Any other exchange: a status, temperature or inbox poll.
Poll(u) ==
  /\ op[u].pc = "poll"
  /\ Finish(u)
  /\ Drain(u)
  /\ UNCHANGED <<moduleVars, atVars, events, acaVars, nextId>>

Control(u) ==
  \/ Begin(u) \/ DialCheck(u) \/ DialATD(u) \/ DialMark(u) \/ DialTrack(u)
  \/ WithActive(u) \/ ValidateActive(u) \/ AnswerATA(u)
  \/ HangupATH(u) \/ HangupFinish(u) \/ HangupUntrack(u)
  \/ ReapList(u) \/ ReapClear(u) \/ ReapRecheck(u) \/ ReapReset(u) \/ Poll(u)
-----------------------------------------------------------------------------
Dispatch == \E h \in Handlers :
  Handle(h) \/ OnClip(h) \/ OnRingOpen(h) \/ OnRing(h) \/ OnEnd(h)

LineNext ==
  \/ Network \/ ReadIdle \/ Dispatch \/ Forward
  \/ \E c \in CallId : EmitIncoming(c)
  \/ \E u \in Users : Control(u)

LineSpec == LineInit /\ [][LineNext]_lineVars
-----------------------------------------------------------------------------
LineTypeOK ==
  /\ cell \in {"none", "incoming", "up"} /\ unheard \in BOOLEAN
  /\ urc \in Seq(Line)
  /\ active \in CallId
  /\ incomingSent \in BOOLEAN /\ pendingPeer \in BOOLEAN
  /\ todo \in [Handlers -> Seq(Line)] /\ overtook \in BOOLEAN
  /\ hnd \in [Handlers -> [line : Line \cup {"none"}, call : CallId]]
  /\ emitting \in [CallId -> Nat]
  /\ events \in Seq(Event)
  /\ tracked \in CallId /\ lastPhysical \in CallId
  /\ nextId \in CallId
  /\ op \in [Users -> [pc : Points, call : CallId]]

\* Nothing is under way between the module and the top of ActiveCallAdapter.
Settled ==
  /\ urc = <<>> /\ events = <<>>
  /\ Calm
  /\ \A c \in CallId : emitting[c] = 0
  /\ \A u \in Users : op[u].pc = "idle"

\* Once the line is idle and everything it said was handled, neither the flag
\* nor the caller's number of the last call remains: the next caller is
\* announced, and not under the previous number (adapter.go, finishActive).
\* The call must have ended by a line or by a hangup that was answered, and no
\* exchange may have overtaken lines the idle reader had in hand: a RING the
\* reader handles behind the END of its call sets the flag anew.
NothingLeftOfLastCall ==
  (Settled /\ cell = "none" /\ ~unheard /\ ~overtook) => (~incomingSent /\ ~pendingPeer)

\* Whichever goroutines handle RING, NO CARRIER and the hangup, and however
\* their sections interleave: a call whose end was announced is never, or again,
\* the marked one, so it refuses no later dial and lends no later call its id.
EndedIsOver ==
  \A i \in DOMAIN events :
    (events[i].kind = "ended" /\ events[i].call # None) => active # events[i].call
=============================================================================
