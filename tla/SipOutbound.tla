----------------------------- MODULE SipOutbound -----------------------------
(***************************************************************************)
(* Calls dialled by SIP clients (internal/sip/server.go, session.go): one   *)
(* goroutine per copy of an INVITE, the session map they share, the one     *)
(* cellular line under them, BYE and CANCEL, the end of a leg reported by   *)
(* the modem, and the ghost reaper.                                         *)
(*                                                                         *)
(* A step is one access to the session map, with the response sent there,   *)
(* or one call of the modem.  ATH with what Hangup records after it is one  *)
(* step, so is ATD with what Dial records, and the reaper's last list with  *)
(* what it forgets: a few instructions, and another ATD takes far longer.   *)
(* How the lines of the port travel is CallLine's; an "ended" event passes  *)
(* two channels, and ActiveCallAdapter between them.  The name of a copy is *)
(* also that of the session it creates and of the leg it dials.             *)
(***************************************************************************)
EXTENDS Naturals

CONSTANTS
  Copies,     \* INVITEs received, retransmissions included
  Calls,      \* Call-IDs
  Passes,     \* passes of the reaper that may overlap
  None,       \* no session, no leg
  Rungs       \* commands of the reaper's ladder (4 in the code)

ASSUME NoneAssumption == None \notin Copies \cup Calls
ASSUME RungsAssumption == Rungs \in Nat \ {0}

VARIABLES
  hd,         \* handleInvite of each copy
  sessions,   \* Server.sessions
  state, ctxDone,  \* SIPCallSession.state, and its context cancelled
  cell,       \* the line: its state, who dialled, the passes of the reaper whose every
              \* command it had, whether it resisted the whole ladder
  ghost,      \* the state AT+CLCC shows of a context that resisted, dialled over since
  marker,     \* at.Adapter.active
  tracked,    \* ActiveCallAdapter.active
  raw, ended, \* "ended" events before and after forwardEvents, by leg; None: no id
  bye,        \* handleAckBye, for each call
  tear,       \* endCallByModem, for each event
  reaper,     \* maybeReapGhosts, for each pass
  concluded   \* history: INVITEs answered finally, ended by BYE, or given up

sessVars == <<sessions, state, ctxDone>>
lineVars == <<cell, ghost, marker, tracked, raw, ended>>
outboundVars == <<hd, sessVars, lineVars, bye, tear, reaper, concluded>>
-----------------------------------------------------------------------------
Legs   == Copies \cup {None}
NoCall == [st |-> "none", by |-> None, under |-> {}, resists |-> FALSE]
NoPass == [pc |-> "off", rung |-> 0]
CallOf(h) == hd[h].call

\* clccHasLiveContext.
Listed == cell # NoCall \/ ghost # "none"

\* The sessions maybeReapGhosts and sessionForModemEvent consider.
Live == {s \in Copies : sessions[CallOf(s)] = s /\ state[s] # "ended"}

Goto(h, p) == hd' = [hd EXCEPT ![h].pc = p]
Conclude(h) == concluded' = concluded \cup {h}
Forget(c)  == sessions' = [sessions EXCEPT ![c] = None]

OutboundInit ==
  /\ \E callOf \in [Copies -> Calls] :
       hd = [h \in Copies |-> [call |-> callOf[h], pc |-> "off", stale |-> {}, key |-> None]]
  /\ sessions = [c \in Calls |-> None]
  /\ state = [h \in Copies |-> "init"]
  /\ ctxDone = [h \in Copies |-> FALSE]
  /\ cell = NoCall /\ ghost = "none"
  /\ marker = None /\ tracked = None
  /\ raw = {} /\ ended = {}
  /\ bye = [c \in Calls |-> "none"]
  /\ tear = [l \in Legs |-> [pc |-> "off", sess |-> None]]
  /\ reaper = [p \in Passes |-> NoPass]
  /\ concluded = {}

\* Hangup of a session: its context, then ATH for whichever call is tracked.  A
\* failed ATH is ignored; the module may have carried it out.
Hangup(s) ==
  /\ ctxDone' = [ctxDone EXCEPT ![s] = TRUE]
  /\ state' = [state EXCEPT ![s] = "ended"]
  /\ \/ /\ tracked # None /\ tracked = marker
        /\ cell' = NoCall /\ marker' = None /\ tracked' = None
        /\ raw' = raw \cup {tracked}
        /\ UNCHANGED <<ghost, ended>>
     \/ /\ tracked # None /\ tracked = marker
        /\ cell' \in {cell, NoCall}
        /\ UNCHANGED <<ghost, marker, tracked, raw, ended>>
     \/ /\ tracked = None \/ tracked # marker
        /\ UNCHANGED lineVars
-----------------------------------------------------------------------------
(* handleInvite.                                                           *)

\* A copy of a known call is answered with the state of its session, any other one
\* with 100 Trying, or 500 without a media port.
Invite(h) ==
  /\ hd[h].pc = "off"
  /\ \/ sessions[CallOf(h)] # None /\ Goto(h, "done") /\ UNCHANGED concluded
     \/ sessions[CallOf(h)] = None /\ Goto(h, "trying") /\ UNCHANGED concluded
     \/ sessions[CallOf(h)] = None /\ Goto(h, "done") /\ Conclude(h)
  /\ UNCHANGED <<sessVars, lineVars, bye, tear, reaper>>

\* reapStaleSessions lists the sessions there are: its own is not among them yet,
\* that of another copy may be.
ListStale(h) ==
  /\ hd[h].pc = "trying"
  /\ hd' = [hd EXCEPT ![h] = [@ EXCEPT !.pc = "reap",
                                       !.stale = {c \in Calls : sessions[c] # None}]]
  /\ UNCHANGED <<sessVars, lineVars, bye, tear, reaper, concluded>>

\* A listed session that is still there is hung up, without a word to its client,
\* and then the entry of its Call-ID deleted.
ReapStale(h) ==
  /\ hd[h].pc = "reap" /\ hd[h].key = None
  /\ \E c \in hd[h].stale :
       \/ /\ sessions[c] = None
          /\ hd' = [hd EXCEPT ![h].stale = @ \ {c}]
          /\ UNCHANGED <<state, ctxDone, lineVars, concluded>>
       \/ /\ sessions[c] # None
          /\ Hangup(sessions[c])
          /\ Conclude(sessions[c])
          /\ hd' = [hd EXCEPT ![h].stale = @ \ {c}, ![h].key = c]
  /\ UNCHANGED <<sessions, bye, tear, reaper>>

ReapForget(h) ==
  /\ hd[h].pc = "reap" /\ hd[h].key # None
  /\ Forget(hd[h].key)
  /\ hd' = [hd EXCEPT ![h].key = None]
  /\ UNCHANGED <<state, ctxDone, lineVars, bye, tear, reaper, concluded>>

\* claimSession: one of several copies wins, answers 180 and begins to dial; the
\* others answer 180 and leave.
Claim(h) ==
  /\ hd[h].pc = "reap" /\ hd[h].key = None /\ hd[h].stale = {}
  /\ \/ /\ sessions[CallOf(h)] = None
        /\ sessions' = [sessions EXCEPT ![CallOf(h)] = h]
        /\ state' = [state EXCEPT ![h] = "dialing"]
        /\ Goto(h, "prepare")
     \/ /\ sessions[CallOf(h)] # None
        /\ Goto(h, "done")
        /\ UNCHANGED <<sessions, state>>
  /\ UNCHANGED <<ctxDone, lineVars, bye, tear, reaper, concluded>>

\* Dial: WaitReady, the voice route, at.Adapter's busy check; seconds, in the
\* context of the session.
Prepare(h) ==
  /\ hd[h].pc = "prepare"
  /\ \/ ~ctxDone[h] /\ marker = None /\ Goto(h, "atd")
     \/ Goto(h, "failed")
  /\ UNCHANGED <<sessVars, lineVars, bye, tear, reaper, concluded>>

\* The module dials unless a call is up; a context that resists the ladder does not
\* block it and stays in the list.
Dials(h) ==
  /\ cell = NoCall \/ cell.resists
  /\ cell' = [st |-> "dialing", by |-> h, under |-> {}, resists |-> FALSE]
  /\ ghost' = IF cell = NoCall \/ ghost = "active" THEN ghost ELSE cell.st

\* ATD, and what both adapters note.  It may fail although the module dials, and
\* succeed although the session was hung up meanwhile.
DialATD(h) ==
  /\ hd[h].pc = "atd"
  /\ \/ Dials(h) /\ marker' = h /\ tracked' = h /\ Goto(h, "await")
     \/ Dials(h) /\ UNCHANGED <<marker, tracked>> /\ Goto(h, "failed")
     \/ UNCHANGED <<cell, ghost, marker, tracked>> /\ Goto(h, "failed")
  /\ UNCHANGED <<sessVars, raw, ended, bye, tear, reaper, concluded>>

\* 500, and the entry of the Call-ID goes; the session is not hung up.
DialFailed(h) ==
  /\ hd[h].pc = "failed"
  /\ Conclude(h)
  /\ Forget(CallOf(h))
  /\ Goto(h, "done")
  /\ UNCHANGED <<state, ctxDone, lineVars, bye, tear, reaper>>

\* AwaitBridge: WaitActive is content with any dialled leg the list shows answered.
Answered(h) ==
  /\ hd[h].pc = "await"
  /\ cell.st = "active" \/ ghost = "active"
  /\ Goto(h, "bridge")
  /\ UNCHANGED <<sessVars, lineVars, bye, tear, reaper, concluded>>

\* answerTimeout alone ends the wait, whose context is not the session's.
GiveUp(h) ==
  /\ hd[h].pc = "await"
  /\ Goto(h, "unanswered")
  /\ UNCHANGED <<sessVars, lineVars, bye, tear, reaper, concluded>>

\* The bridge starts or fails, whatever became of the session; then 200 OK.
Bridge(h) ==
  /\ hd[h].pc = "bridge"
  /\ \/ /\ state' = [state EXCEPT ![h] = "active"]
        /\ Conclude(h)
        /\ Goto(h, "done")
     \/ /\ Goto(h, "unanswered")
        /\ UNCHANGED <<state, concluded>>
  /\ UNCHANGED <<sessions, ctxDone, lineVars, bye, tear, reaper>>

\* Mutant: the client is left to its own timer.
UnansweredMute(h) ==
  /\ hd[h].pc = "unanswered"
  /\ Hangup(h)
  /\ Goto(h, "delete")
  /\ UNCHANGED <<sessions, bye, tear, reaper, concluded>>

\* 480 if the Call-ID is still known, then Hangup, then Delete.
Unanswered(h) ==
  /\ hd[h].pc = "unanswered"
  /\ IF sessions[CallOf(h)] # None THEN Conclude(h) ELSE UNCHANGED concluded
  /\ Hangup(h)
  /\ Goto(h, "delete")
  /\ UNCHANGED <<sessions, bye, tear, reaper>>

Delete(h) ==
  /\ hd[h].pc = "delete"
  /\ Forget(CallOf(h))
  /\ Goto(h, "done")
  /\ UNCHANGED <<state, ctxDone, lineVars, bye, tear, reaper, concluded>>
-----------------------------------------------------------------------------
(* handleAckBye, forwardEvents, endCallByModem, maybeReapGhosts.           *)

\* BYE or CANCEL; one that comes before the session exists is answered, no more.
HandleBye(c) ==
  /\ bye[c] = "none"
  /\ \E h \in Copies : CallOf(h) = c /\ hd[h].pc # "off"
  /\ \/ /\ sessions[c] = None
        /\ bye' = [bye EXCEPT ![c] = "done"]
        /\ UNCHANGED <<state, ctxDone, lineVars, concluded>>
     \/ /\ sessions[c] # None
        /\ Hangup(sessions[c])
        /\ Conclude(sessions[c])
        /\ bye' = [bye EXCEPT ![c] = "delete"]
  /\ UNCHANGED <<hd, sessions, tear, reaper>>

ByeDelete(c) ==
  /\ bye[c] = "delete"
  /\ Forget(c)
  /\ bye' = [bye EXCEPT ![c] = "done"]
  /\ UNCHANGED <<hd, state, ctxDone, lineVars, tear, reaper, concluded>>

\* Mutant: whatever ended, no call is up any more.
ForwardAny(l) ==
  /\ l \in raw
  /\ raw' = raw \ {l} /\ ended' = ended \cup {l}
  /\ tracked' = None
  /\ UNCHANGED <<hd, sessVars, cell, ghost, marker, bye, tear, reaper, concluded>>

\* forwardEvents: the call that ended is forgotten.  An event without an id matches
\* lastPhysical, which Dial leaves empty, and so any call that was dialled.
Forward(l) ==
  /\ l \in raw
  /\ raw' = raw \ {l} /\ ended' = ended \cup {l}
  /\ tracked' = IF l \in {tracked, None} THEN None ELSE tracked
  /\ UNCHANGED <<hd, sessVars, cell, ghost, marker, bye, tear, reaper, concluded>>

\* sessionForModemEvent: the session of that leg, else one that carries audio.
FindSession(l) ==
  /\ l \in ended /\ tear[l].pc = "off"
  /\ ended' = ended \ {l}
  /\ LET byModemID == Live \cap {l}
         byAudio   == {s \in Live : state[s] = "active"}
         found     == IF byModemID # {} THEN byModemID ELSE byAudio
     IN  \/ found = {} /\ UNCHANGED tear
         \/ \E s \in found : tear' = [tear EXCEPT ![l] = [pc |-> "delete", sess |-> s]]
  /\ UNCHANGED <<hd, sessVars, cell, ghost, marker, tracked, raw, bye, reaper,
                 concluded>>

TearDelete(l) ==
  /\ tear[l].pc = "delete"
  /\ Forget(CallOf(tear[l].sess))
  /\ tear' = [tear EXCEPT ![l].pc = "tell"]
  /\ UNCHANGED <<hd, state, ctxDone, lineVars, bye, reaper, concluded>>

\* sendDialogTeardown: an open INVITE is refused with 480, an established dialog
\* ended with BYE.
TearTell(l) ==
  /\ tear[l].pc = "tell"
  /\ Conclude(tear[l].sess)
  /\ tear' = [tear EXCEPT ![l].pc = "hangup"]
  /\ UNCHANGED <<hd, sessVars, lineVars, bye, reaper>>

\* The session is hung up, and with it whichever call is tracked by then.
TearHangup(l) ==
  /\ tear[l].pc = "hangup"
  /\ Hangup(tear[l].sess)
  /\ tear' = [tear EXCEPT ![l] = [pc |-> "off", sess |-> None]]
  /\ UNCHANGED <<hd, sessions, bye, reaper, concluded>>

\* A tick of ghostReaper, or the pass after a BYE: not while a session is live.
ReapLook(p) ==
  /\ reaper[p].pc = "off"
  /\ Live = {}
  /\ reaper' = [reaper EXCEPT ![p].pc = "list"]
  /\ UNCHANGED <<hd, sessVars, lineVars, bye, tear, concluded>>

\* Mutant: it trusts the adapter instead of the module's list.
ReapListTracked(p) ==
  /\ reaper[p].pc = "list"
  /\ reaper' = [reaper EXCEPT ![p].pc = IF tracked = None THEN "off" ELSE "clear"]
  /\ UNCHANGED <<hd, sessVars, lineVars, bye, tear, concluded>>

\* The list is read; a port that never answers it again is not modelled.
ReapList(p) ==
  /\ reaper[p].pc = "list"
  /\ reaper' = [reaper EXCEPT ![p].pc = IF Listed THEN "clear" ELSE "off"]
  /\ UNCHANGED <<hd, sessVars, lineVars, bye, tear, concluded>>

\* One command of the ladder, which may have no effect.  No event, at.Adapter
\* keeps its marker.
ReapClear(p) ==
  /\ reaper[p].pc = "clear"
  /\ \/ cell' = NoCall
     \/ cell' = IF reaper[p].rung = 0 /\ cell # NoCall /\ ~cell.resists
                  THEN [cell EXCEPT !.under = @ \cup {p}] ELSE cell
  /\ reaper' = [reaper EXCEPT ![p] = [pc |-> "recheck", rung |-> @.rung + 1]]
  /\ UNCHANGED <<hd, sessVars, ghost, marker, tracked, raw, ended, bye, tear, concluded>>

\* Mutant: one rung too many.
ReapRecheckTooOften(p) ==
  /\ reaper[p].pc = "recheck"
  /\ IF ~Listed \/ reaper[p].rung > Rungs
       THEN tracked' = None /\ reaper' = [reaper EXCEPT ![p] = NoPass]
       ELSE UNCHANGED tracked /\ reaper' = [reaper EXCEPT ![p].pc = "clear"]
  /\ UNCHANGED <<hd, sessVars, cell, ghost, marker, raw, ended, bye, tear, concluded>>

\* Cleared: ActiveCallAdapter forgets its call.  After a command that changed nothing,
\* or was an ERROR, the next rung; after the last one it forgets its call as well,
\* unless that was an ERROR: whichever call it is, dialled meanwhile or not.
ReapRecheck(p) ==
  /\ reaper[p].pc = "recheck"
  /\ \/ /\ ~Listed
        /\ tracked' = None
        /\ reaper' = [reaper EXCEPT ![p] = NoPass]
        /\ UNCHANGED cell
     \/ /\ reaper[p].rung < Rungs
        /\ reaper' = [reaper EXCEPT ![p].pc = "clear"]
        /\ UNCHANGED <<tracked, cell>>
     \/ /\ reaper[p].rung = Rungs
        /\ tracked' \in {None, tracked}
        /\ cell' = IF p \in cell.under
                     THEN [cell EXCEPT !.under = @ \ {p}, !.resists = TRUE] ELSE cell
        /\ reaper' = [reaper EXCEPT ![p] = NoPass]
  /\ UNCHANGED <<hd, sessVars, ghost, marker, raw, ended, bye, tear, concluded>>
-----------------------------------------------------------------------------
(* The far end and the network (external).                                 *)

NetAnswers ==
  /\ cell.st = "dialing"
  /\ cell' = [cell EXCEPT !.st = "active"]
  /\ UNCHANGED <<hd, sessVars, ghost, marker, tracked, raw, ended, bye, tear, reaper,
                 concluded>>

\* NO CARRIER: at.Adapter reports the end of the call it has marked.
NetEnds ==
  /\ cell # NoCall
  /\ cell' = NoCall
  /\ marker' = None
  /\ raw' = raw \cup {marker}
  /\ UNCHANGED <<hd, sessVars, ghost, tracked, ended, bye, tear, reaper, concluded>>
-----------------------------------------------------------------------------
Handle(h) == \/ ListStale(h) \/ ReapStale(h) \/ ReapForget(h) \/ Claim(h)
             \/ Prepare(h) \/ DialATD(h) \/ DialFailed(h)
             \/ Answered(h) \/ GiveUp(h) \/ Bridge(h)
             \/ Unanswered(h) \/ Delete(h)

Tear(l) == FindSession(l) \/ TearDelete(l) \/ TearTell(l) \/ TearHangup(l)

Reap(p) == ReapLook(p) \/ ReapList(p) \/ ReapClear(p) \/ ReapRecheck(p)

Goroutines == \/ \E h \in Copies : Handle(h)
              \/ \E c \in Calls : ByeDelete(c)
              \/ \E l \in Legs : Forward(l) \/ Tear(l)

Outside == \/ \E h \in Copies : Invite(h)
           \/ \E c \in Calls : HandleBye(c)
           \/ NetAnswers \/ NetEnds

OutboundNext == Goroutines \/ (\E p \in Passes : Reap(p)) \/ Outside

OutboundSpec == OutboundInit /\ [][OutboundNext]_outboundVars

\* The server's goroutines keep running and its timers expire; nothing is asked of
\* clients and network.  The goroutines that are not loops take finitely many steps,
\* so that one condition is fair to each of them.
OutboundFairSpec ==
  /\ OutboundSpec
  /\ WF_outboundVars(Goroutines)
  /\ \A p \in Passes : WF_outboundVars(Reap(p))
-----------------------------------------------------------------------------
Points == {"off", "trying", "reap", "prepare", "atd", "failed", "await", "bridge",
           "unanswered", "delete", "done"}

OutboundTypeOK ==
  /\ hd \in [Copies -> [call : Calls, pc : Points, stale : SUBSET Calls,
                        key : Calls \cup {None}]]
  /\ sessions \in [Calls -> Copies \cup {None}]
  /\ state \in [Copies -> {"init", "dialing", "active", "ended"}]
  /\ ctxDone \in [Copies -> BOOLEAN]
  /\ cell \in [st : {"dialing", "active"}, by : Copies, under : SUBSET Passes,
              resists : BOOLEAN] \cup {NoCall}
  /\ ghost \in {"none", "dialing", "active"}
  /\ marker \in Legs /\ tracked \in Legs
  /\ raw \subseteq Legs /\ ended \subseteq Legs
  /\ bye \in [Calls -> {"none", "delete", "done"}]
  /\ tear \in [Legs -> [pc : {"off", "delete", "tell", "hangup"}, sess : Legs]]
  /\ reaper \in [Passes -> [pc : {"off", "list", "clear", "recheck"}, rung : 0 .. Rungs]]
  /\ concluded \subseteq Copies

\* The leg of h, whose dial succeeded and whose session nobody gave up, is up.
OnLine(h) ==
  cell.by = h /\ (hd[h].pc \in {"await", "bridge"} \/ state[h] = "active")

\* While the leg of a call is up, at.Adapter has it marked, so that no ATD goes out
\* on top of it and its end is reported in its name; and ActiveCallAdapter, through
\* which BYE, CANCEL and timeout hang it up, does not forget it: no hangup of another
\* session, no late event of an earlier leg, no failing ATD makes it.  Two things do
\* in the code: the end of a pass of the reaper that began before the call
\* (call_adapter.go:123) and an "ended" without an id (call_adapter.go:176).
LineUnderControl ==
  [][\A h \in Copies : OnLine(h) /\ OnLine(h)' =>
       /\ marker = h /\ marker' = h
       /\ tracked = h => \/ tracked' = h
                         \/ \E p \in Passes : ReapRecheck(p)
                         \/ Forward(None)
    ]_outboundVars

\* Somebody of the call was answered finally or left, or a teardown is about to tell
\* its client.
Told(c) == \/ \E h \in concluded : CallOf(h) = c
           \/ \E l \in Legs : tear[l].pc = "tell" /\ CallOf(tear[l].sess) = c

\* A claimed call that nobody told of its end still has its session in the map, and
\* there a handler that dials, waits or bridges for it: four goroutines take entries
\* out of the map, by Call-ID, and the 480 of a handler is sent only to one it finds.
ClientIsTold ==
  \A h \in Copies : state[h] # "init" =>
    \/ Told(CallOf(h))
    \/ LET s == sessions[CallOf(h)] IN
         s # None /\ hd[s].pc \in {"prepare", "atd", "failed", "await", "bridge", "unanswered"}

\* Of a call that was claimed the client hears: a final response to its INVITE, or
\* BYE; unless it left itself, or a later INVITE reaped the session.
InviteConcluded ==
  \A c \in Calls :
    sessions[c] # None ~> \E h \in Copies : CallOf(h) = c /\ h \in concluded

\* A leg that no live session owns, such as one whose ATD failed after the module
\* had dialled, is taken down, or the whole ladder was tried on it.
OrphanReaped ==
  (cell # NoCall /\ Live = {}) ~> (cell = NoCall \/ cell.resists \/ Live # {})

\* session.go:146: "AwaitBridge waits for the cellular leg to be ANSWERED": the leg
\* its own session dialled.
AnsweredIsOwn == [][\A h \in Copies : Answered(h) => cell.by = h]_outboundVars

\* server.go:170: the reaper runs "only when no SIP session is live, so ATH can never
\* take down a call a client is actually on": the session is in the map and active.
ReaperSparesCalls ==
  [][\A p \in Passes :
       ReapClear(p) /\ cell' # cell => ~(cell.by \in Live /\ state[cell.by] = "active")
    ]_outboundVars
=============================================================================
