----------------------------- MODULE SipInbound -----------------------------
(***************************************************************************)
(* One inbound cellular call at the SIP server (internal/sip/server.go,    *)
(* session.go): it is rung at every registered contact, swept after        *)
(* contacts that move, answered, declined, timed out, or ended by the      *)
(* network, by goroutines that share one session.                          *)
(*                                                                         *)
(* A step is one access to the session or to the session map, one datagram *)
(* or one call of the modem; Hangup and the choice of what a teardown      *)
(* sends are one step each.  There is one account; a 200 OK sent again is  *)
(* to the session what another contact's would be.  Phones, the registrar  *)
(* and the cellular leg are external.                                      *)
(***************************************************************************)
EXTENDS Naturals, FiniteSets

CONSTANTS
  Contacts,      \* addresses phones register from
  NoContact,     \* no address
  MaxInvites,    \* maxInviteAttempts (8 in the code)
  MaxMoves,      \* bound: registrations while the call lasts
  Faults         \* ATA, ATH or the start of the bridge may fail

ASSUME NoContactAssumption == NoContact \notin Contacts
ASSUME InboundBounds == MaxInvites \in Nat \ {0} /\ MaxMoves \in Nat /\ Faults \in BOOLEAN

VARIABLES
  registered, moves,  \* registrar.All(), and how often it changed
  phone,       \* what each contact's phone shows
  cell,        \* the cellular leg
  inMap,       \* the session is in Server.sessions
  state,       \* SIPCallSession.state
  ctxDone,     \* its context was cancelled
  invites,     \* its invitation attempts
  plan,        \* where its byePlan is aimed, or NoContact
  loop,        \* the inviting goroutines: ringClients, then the sweep
  tear,        \* the ring timer and endCallByModem
  pickup,      \* handling of each contact's 200 OK
  reject,      \* handling of each contact's refusal
  bye,         \* handling of each contact's BYE
  rung,        \* history: INVITEs sent to each contact
  atas         \* history: ATAs issued

sessVars == <<inMap, state, ctxDone, invites, plan>>
sentVars == <<rung, atas>>
inboundVars == <<registered, moves, phone, cell, sessVars, loop, tear, pickup, reject, bye,
          sentVars>>
-----------------------------------------------------------------------------
Inviters  == {"ring", "sweep"}
Teardowns == {"timer", "modem"}

InboundInit ==
  /\ registered \in SUBSET Contacts /\ moves = 0
  /\ phone = [k \in Contacts |-> "idle"]
  /\ cell = "ringing"
  /\ inMap = FALSE /\ state = "init" /\ ctxDone = FALSE
  /\ invites = {} /\ plan = NoContact
  /\ loop = [a \in Inviters |-> [pc |-> IF a = "ring" THEN "claim" ELSE "off",
                                 left |-> {}, to |-> NoContact]]
  /\ tear = [t \in Teardowns |-> [pc |-> "off", kind |-> "none", left |-> {}]]
  /\ pickup = [k \in Contacts |-> "none"]
  /\ reject = [k \in Contacts |-> "none"]
  /\ bye = [k \in Contacts |-> "none"]
  /\ rung = [k \in Contacts |-> 0]
  /\ atas = 0

\* Without the inbound half of its test of the direction (a mutant).
HangupOutboundOnly ==
  /\ ctxDone' = TRUE
  /\ state' = "ended"
  /\ UNCHANGED cell

\* Hangup: cancel the context, stop the bridge, ATH (its error is ignored),
\* close the media, mark the session.
Hangup ==
  /\ ctxDone' = TRUE
  /\ state' = "ended"
  /\ cell' \in {"none"} \cup (IF Faults THEN {cell} ELSE {})
-----------------------------------------------------------------------------
(* Ringing.                                                                *)

\* ringClients claims the call id and reads the registrar; without a media port
\* the call is not rung at all.
Claim ==
  /\ loop["ring"].pc = "claim"
  /\ \/ /\ inMap' = TRUE
        /\ loop' = [loop EXCEPT !["ring"].pc = "invite", !["ring"].left = registered]
     \/ /\ Faults
        /\ UNCHANGED inMap
        /\ loop' = [loop EXCEPT !["ring"].pc = "done"]
  /\ UNCHANGED <<registered, moves, phone, cell, state, ctxDone, invites, plan, tear,
                 pickup, reject, bye, sentVars>>

\* RememberInvite: an address is new only once, and there is room for MaxInvites.
RememberAny(a) ==
  /\ loop[a].pc = "invite"
  /\ \E k \in loop[a].left :
       /\ invites' = invites \cup {k}
       /\ loop' = [loop EXCEPT ![a] = [pc |-> "aim", left |-> @.left \ {k}, to |-> k]]
  /\ UNCHANGED <<registered, moves, phone, cell, inMap, state, ctxDone, plan, tear, pickup,
                 reject, bye, sentVars>>

Remember(a) ==
  /\ loop[a].pc = "invite"
  /\ \E k \in loop[a].left :
       IF k \notin invites /\ Cardinality(invites) < MaxInvites
         THEN /\ invites' = invites \cup {k}
              /\ loop' = [loop EXCEPT ![a] = [pc |-> "aim", left |-> @.left \ {k}, to |-> k]]
         ELSE /\ loop' = [loop EXCEPT ![a].left = @ \ {k}]
              /\ UNCHANGED invites
  /\ UNCHANGED <<registered, moves, phone, cell, inMap, state, ctxDone, plan, tear, pickup,
                 reject, bye, sentVars>>

\* SetByePlan: until a pickup the plan describes the last invitation.
Aim(a) ==
  /\ loop[a].pc = "aim"
  /\ plan' = loop[a].to
  /\ loop' = [loop EXCEPT ![a].pc = "send"]
  /\ UNCHANGED <<registered, moves, phone, cell, inMap, state, ctxDone, invites, tear,
                 pickup, reject, bye, sentVars>>

\* The INVITE itself; the datagram may be lost.
SendInvite(a) ==
  /\ loop[a].pc = "send"
  /\ LET k == loop[a].to
     IN  /\ rung' = [rung EXCEPT ![k] = @ + 1]
         /\ \/ phone[k] = "idle" /\ phone' = [phone EXCEPT ![k] = "ringing"]
            \/ UNCHANGED phone
  /\ loop' = [loop EXCEPT ![a].pc = "invite", ![a].to = NoContact]
  /\ UNCHANGED <<registered, moves, cell, sessVars, tear, pickup, reject, bye, atas>>

\* All invited: ringClients starts the sweep and the ring timer.
RingDone ==
  /\ loop["ring"].pc = "invite" /\ loop["ring"].left = {}
  /\ loop' = [loop EXCEPT !["ring"].pc = "done", !["sweep"].pc = "wait"]
  /\ tear' = [tear EXCEPT !["timer"].pc = "armed"]
  /\ UNCHANGED <<registered, moves, phone, cell, sessVars, pickup, reject, bye, sentVars>>

\* One pass of inviteReregisteredContacts, every 600 ms.
Sweep ==
  /\ loop["sweep"].pc = "wait"
  /\ IF ctxDone \/ state # "init"
       THEN loop' = [loop EXCEPT !["sweep"].pc = "done"]
       ELSE loop' = [loop EXCEPT !["sweep"].pc = "invite", !["sweep"].left = registered]
  /\ UNCHANGED <<registered, moves, phone, cell, sessVars, tear, pickup, reject, bye,
                 sentVars>>

\* The pass is over: the next one, or the deadline of the sweep.
SweepDone ==
  /\ loop["sweep"].pc = "invite" /\ loop["sweep"].left = {}
  /\ \E p \in {"wait", "done"} : loop' = [loop EXCEPT !["sweep"].pc = p]
  /\ UNCHANGED <<registered, moves, phone, cell, sessVars, tear, pickup, reject, bye,
                 sentVars>>
-----------------------------------------------------------------------------
(* Teardown: the ring timer and endCallByModem share sendDialogTeardown.   *)

\* 45 s after ringing began: a session still in the map is torn down.  A context
\* that ended at the same moment may lose the select.
TimerOnlyIfAnswered ==
  /\ tear["timer"].pc = "armed"
  /\ tear' = [tear EXCEPT !["timer"].pc = IF inMap /\ state # "init" THEN "delete" ELSE "done"]
  /\ UNCHANGED <<registered, moves, phone, cell, sessVars, loop, pickup, reject, bye,
                 sentVars>>

TimerFires ==
  /\ tear["timer"].pc = "armed"
  /\ tear' = [tear EXCEPT !["timer"].pc = IF inMap THEN "delete" ELSE "done"]
  /\ UNCHANGED <<registered, moves, phone, cell, sessVars, loop, pickup, reject, bye,
                 sentVars>>

TimerStopped ==
  /\ tear["timer"].pc = "armed" /\ ctxDone
  /\ tear' = [tear EXCEPT !["timer"].pc = "done"]
  /\ UNCHANGED <<registered, moves, phone, cell, sessVars, loop, pickup, reject, bye,
                 sentVars>>

\* sessionForModemEvent: the session, if it is still in the map and not ended.
FindSession ==
  /\ tear["modem"].pc = "find"
  /\ tear' = [tear EXCEPT !["modem"].pc = IF inMap /\ state # "ended" THEN "delete" ELSE "done"]
  /\ UNCHANGED <<registered, moves, phone, cell, sessVars, loop, pickup, reject, bye,
                 sentVars>>

TearDelete(t) ==
  /\ tear[t].pc = "delete"
  /\ inMap' = FALSE
  /\ tear' = [tear EXCEPT ![t].pc = "plan"]
  /\ UNCHANGED <<registered, moves, phone, cell, state, ctxDone, invites, plan, loop, pickup,
                 reject, bye, sentVars>>

\* Without the test that there is a plan (a mutant).
TearPlanBlind(t) ==
  /\ tear[t].pc = "plan"
  /\ tear' = [tear EXCEPT ![t] =
       IF state = "init" THEN [pc |-> "send", kind |-> "cancel", left |-> invites]
       ELSE [pc |-> "send", kind |-> "bye", left |-> {plan} \cup registered]]
  /\ UNCHANGED <<registered, moves, phone, cell, sessVars, loop, pickup, reject, bye,
                 sentVars>>

\* A session still being rung is cancelled at every contact invited so far; any
\* other gets a BYE where its dialog is and at what registered since.
TearPlan(t) ==
  /\ tear[t].pc = "plan"
  /\ tear' = [tear EXCEPT ![t] =
       IF plan = NoContact THEN [@ EXCEPT !.pc = "hangup"]
       ELSE IF state = "init" THEN [pc |-> "send", kind |-> "cancel", left |-> invites]
       ELSE [pc |-> "send", kind |-> "bye", left |-> {plan} \cup registered]]
  /\ UNCHANGED <<registered, moves, phone, cell, sessVars, loop, pickup, reject, bye,
                 sentVars>>

\* The datagram is repeated and may still be lost.
TearSend(t) ==
  /\ tear[t].pc = "send"
  /\ \E k \in tear[t].left :
       /\ tear' = [tear EXCEPT ![t].left = @ \ {k}]
       /\ \/ /\ phone[k] = IF tear[t].kind = "cancel" THEN "ringing" ELSE "answered"
             /\ phone' = [phone EXCEPT ![k] = "idle"]
          \/ UNCHANGED phone
  /\ UNCHANGED <<registered, moves, cell, sessVars, loop, pickup, reject, bye, sentVars>>

TearHangup(t) ==
  /\ tear[t].pc = "hangup" \/ (tear[t].pc = "send" /\ tear[t].left = {})
  /\ Hangup
  /\ tear' = [tear EXCEPT ![t].pc = "done"]
  /\ UNCHANGED <<registered, moves, phone, inMap, invites, plan, loop, pickup, reject, bye,
                 sentVars>>
-----------------------------------------------------------------------------
(* The client's answers.                                                   *)

\* handleResponse, 200 to an INVITE: acceptInbound for a session in the map.
HandleOK(k) ==
  /\ pickup[k] = "sent"
  /\ pickup' = [pickup EXCEPT ![k] = IF inMap THEN "begin" ELSE "done"]
  /\ UNCHANGED <<registered, moves, phone, cell, sessVars, loop, tear, reject, bye, sentVars>>

\* Only the first of several 200 OKs picks the call up.
BeginAnswerAlways(k) ==
  /\ pickup[k] = "begin"
  /\ state' = "answering"
  /\ pickup' = [pickup EXCEPT ![k] = "ack"]
  /\ UNCHANGED <<registered, moves, phone, cell, inMap, ctxDone, invites, plan, loop, tear,
                 reject, bye, sentVars>>

BeginAnswer(k) ==
  /\ pickup[k] = "begin"
  /\ IF state = "init" THEN state' = "answering" /\ pickup' = [pickup EXCEPT ![k] = "ack"]
     ELSE UNCHANGED state /\ pickup' = [pickup EXCEPT ![k] = "done"]
  /\ UNCHANGED <<registered, moves, phone, cell, inMap, ctxDone, invites, plan, loop, tear,
                 reject, bye, sentVars>>

\* ACK, and the plan of the dialog it establishes.
Acknowledge(k) ==
  /\ pickup[k] = "ack"
  /\ plan' = k
  /\ pickup' = [pickup EXCEPT ![k] = "ata"]
  /\ UNCHANGED <<registered, moves, phone, cell, inMap, state, ctxDone, invites, loop, tear,
                 reject, bye, sentVars>>

\* AnswerInbound: ATA, refused when the caller is gone.
AnswerATA(k) ==
  /\ pickup[k] = "ata"
  /\ atas' = atas + 1
  /\ \/ /\ cell = "ringing"
        /\ cell' = "active"
        /\ pickup' = [pickup EXCEPT ![k] = "bridge"]
     \/ /\ cell # "ringing" \/ Faults
        /\ UNCHANGED cell
        /\ pickup' = [pickup EXCEPT ![k] = "undo"]
  /\ UNCHANGED <<registered, moves, phone, sessVars, loop, tear, reject, bye, rung>>

\* Started or not, the bridge does not look whether the session has ended.
StartBridge(k) ==
  /\ pickup[k] = "bridge"
  /\ \/ state' = "active" /\ pickup' = [pickup EXCEPT ![k] = "done"]
     \/ Faults /\ UNCHANGED state /\ pickup' = [pickup EXCEPT ![k] = "undo"]
  /\ UNCHANGED <<registered, moves, phone, cell, inMap, ctxDone, invites, plan, loop, tear,
                 reject, bye, sentVars>>

UndoDelete(k) ==
  /\ pickup[k] = "undo"
  /\ inMap' = FALSE
  /\ pickup' = [pickup EXCEPT ![k] = "hangup"]
  /\ UNCHANGED <<registered, moves, phone, cell, state, ctxDone, invites, plan, loop, tear,
                 reject, bye, sentVars>>

UndoHangup(k) ==
  /\ pickup[k] = "hangup"
  /\ Hangup
  /\ pickup' = [pickup EXCEPT ![k] = "done"]
  /\ UNCHANGED <<registered, moves, phone, inMap, invites, plan, loop, tear, reject, bye,
                 sentVars>>

\* Mutant: a refusal only forgets the session.
HandleRejectQuietly(k) ==
  /\ reject[k] = "sent"
  /\ reject' = [reject EXCEPT ![k] = "done"]
  /\ inMap' = FALSE
  /\ UNCHANGED <<registered, moves, phone, cell, state, ctxDone, invites, plan, loop, tear,
                 pickup, bye, sentVars>>

\* handleResponse, 300 and above: the session goes, whoever else still rings.
HandleReject(k) ==
  /\ reject[k] = "sent"
  /\ reject' = [reject EXCEPT ![k] = IF inMap THEN "hangup" ELSE "done"]
  /\ inMap' = FALSE
  /\ UNCHANGED <<registered, moves, phone, cell, state, ctxDone, invites, plan, loop, tear,
                 pickup, bye, sentVars>>

RejectHangup(k) ==
  /\ reject[k] = "hangup"
  /\ Hangup
  /\ reject' = [reject EXCEPT ![k] = "done"]
  /\ UNCHANGED <<registered, moves, phone, inMap, invites, plan, loop, tear, pickup, bye,
                 sentVars>>

\* handleAckBye: hang up, then forget the session.
HandleBye(k) ==
  /\ bye[k] = "sent"
  /\ IF inMap THEN Hangup /\ bye' = [bye EXCEPT ![k] = "delete"]
     ELSE UNCHANGED <<ctxDone, state, cell>> /\ bye' = [bye EXCEPT ![k] = "done"]
  /\ UNCHANGED <<registered, moves, phone, inMap, invites, plan, loop, tear, pickup, reject,
                 sentVars>>

ByeDelete(k) ==
  /\ bye[k] = "delete"
  /\ inMap' = FALSE
  /\ bye' = [bye EXCEPT ![k] = "done"]
  /\ UNCHANGED <<registered, moves, phone, cell, state, ctxDone, invites, plan, loop, tear,
                 pickup, reject, sentVars>>
-----------------------------------------------------------------------------
(* The phones, the registrar's clients and the caller (external).          *)

PhoneAnswers(k) ==
  /\ phone[k] = "ringing" /\ pickup[k] = "none"
  /\ phone' = [phone EXCEPT ![k] = "answered"]
  /\ pickup' = [pickup EXCEPT ![k] = "sent"]
  /\ UNCHANGED <<registered, moves, cell, sessVars, loop, tear, reject, bye, sentVars>>

PhoneDeclines(k) ==
  /\ phone[k] = "ringing" /\ reject[k] = "none"
  /\ phone' = [phone EXCEPT ![k] = "idle"]
  /\ reject' = [reject EXCEPT ![k] = "sent"]
  /\ UNCHANGED <<registered, moves, cell, sessVars, loop, tear, pickup, bye, sentVars>>

PhoneHangsUp(k) ==
  /\ phone[k] = "answered" /\ bye[k] = "none"
  /\ phone' = [phone EXCEPT ![k] = "idle"]
  /\ bye' = [bye EXCEPT ![k] = "sent"]
  /\ UNCHANGED <<registered, moves, cell, sessVars, loop, tear, pickup, reject, sentVars>>

\* A phone woken by the push comes back from another address.
Reregister ==
  /\ moves < MaxMoves
  /\ moves' = moves + 1
  /\ \E k \in Contacts, gone \in SUBSET registered :
       registered' = (registered \ gone) \cup {k}
  /\ UNCHANGED <<phone, cell, sessVars, loop, tear, pickup, reject, bye, sentVars>>

\* The caller gives up, or either end of the cellular leg hangs up.
CallerEnds ==
  /\ cell # "none" /\ tear["modem"].pc = "off"
  /\ cell' = "none"
  /\ tear' = [tear EXCEPT !["modem"].pc = "find"]
  /\ UNCHANGED <<registered, moves, phone, sessVars, loop, pickup, reject, bye, sentVars>>
-----------------------------------------------------------------------------
Ringing == \/ Claim \/ RingDone \/ Sweep \/ SweepDone
           \/ \E a \in Inviters : Remember(a) \/ Aim(a) \/ SendInvite(a)

Tear(t)    == TearDelete(t) \/ TearPlan(t) \/ TearSend(t) \/ TearHangup(t)
Timer      == TimerFires \/ TimerStopped \/ Tear("timer")
Ended      == FindSession \/ Tear("modem")
Accept(k)  == \/ HandleOK(k) \/ BeginAnswer(k) \/ Acknowledge(k) \/ AnswerATA(k)
              \/ StartBridge(k) \/ UndoDelete(k) \/ UndoHangup(k)
Refuse(k)  == HandleReject(k) \/ RejectHangup(k)
Release(k) == HandleBye(k) \/ ByeDelete(k)

Outside == \/ Reregister \/ CallerEnds
           \/ \E k \in Contacts : PhoneAnswers(k) \/ PhoneDeclines(k) \/ PhoneHangsUp(k)

InboundNext ==
  \/ Ringing \/ Timer \/ Ended \/ Outside
  \/ \E k \in Contacts : Accept(k) \/ Refuse(k) \/ Release(k)

InboundSpec == InboundInit /\ [][InboundNext]_inboundVars

\* Every goroutine of the server keeps running and its timers expire; nothing is
\* asked of phones, the network and the caller.
InboundFairSpec ==
  /\ InboundSpec
  /\ WF_inboundVars(Ringing) /\ WF_inboundVars(Timer) /\ WF_inboundVars(Ended)
  /\ \A k \in Contacts : /\ WF_inboundVars(Accept(k)) /\ WF_inboundVars(Refuse(k))
                         /\ WF_inboundVars(Release(k))
-----------------------------------------------------------------------------
InboundTypeOK ==
  /\ registered \subseteq Contacts /\ moves \in 0 .. MaxMoves
  /\ phone \in [Contacts -> {"idle", "ringing", "answered"}]
  /\ cell \in {"ringing", "active", "none"}
  /\ inMap \in BOOLEAN /\ ctxDone \in BOOLEAN
  /\ state \in {"init", "answering", "active", "ended"}
  /\ invites \subseteq Contacts /\ plan \in Contacts \cup {NoContact}
  /\ loop \in [Inviters -> [pc : {"off", "claim", "invite", "aim", "send", "wait", "done"},
                            left : SUBSET Contacts, to : Contacts \cup {NoContact}]]
  /\ tear \in [Teardowns -> [pc : {"off", "armed", "find", "delete", "plan", "send",
                                   "hangup", "done"},
                             kind : {"none", "cancel", "bye"}, left : SUBSET Contacts]]
  /\ pickup \in [Contacts -> {"none", "sent", "begin", "ack", "ata", "bridge", "undo",
                              "hangup", "done"}]
  /\ reject \in [Contacts -> {"none", "sent", "hangup", "done"}]
  /\ bye \in [Contacts -> {"none", "sent", "delete", "done"}]
  /\ rung \in [Contacts -> Nat] /\ atas \in Nat

\* However many phones answer at once, and however often they repeat it, the
\* cellular call is picked up once (beginAnswer).
OnePickup == atas <= 1

\* ringClients and the sweep between them ring each contact at most once, and at
\* most MaxInvites contacts, however often the phone re-registers.
RungOnce ==
  /\ \A k \in Contacts : rung[k] <= 1
  /\ Cardinality({k \in Contacts : rung[k] > 0}) <= MaxInvites

\* ringClients got as far as claiming the call.
Claimed == loop["ring"].pc \in {"invite", "aim", "send"} \/ loop["sweep"].pc # "off"

LegHasOwner ==
  Claimed /\ ~inMap /\ cell # "none" =>
    \/ \E t \in Teardowns : tear[t].pc \in {"plan", "send", "hangup"}
    \/ \E k \in Contacts : pickup[k] = "hangup" \/ reject[k] = "hangup"
    \/ Faults /\ ctxDone

RingingTimed ==
  inMap /\ state = "init" =>
    \/ loop["ring"].pc \in {"invite", "aim", "send"}
    \/ tear["timer"].pc \in {"armed", "delete"}

\* Somebody is always there to end the call.  A leg whose session has left the map
\* has a goroutine that will still hang it up, or an ATH for it was lost: five
\* goroutines take the session out of the map, and those that find it gone leave
\* the leg to whoever took it.  A call that rings has its invitations going out or
\* its timer running: nobody who stops the timer leaves it ringing.
NeverAbandoned == LegHasOwner /\ RingingTimed

\* A call nobody answers does not ring for ever: it is answered or released.
RingingEnds == (inMap /\ state = "init") ~> ~(inMap /\ state = "init")

\* Once the session has left the map its cellular leg is released, whichever of
\* timer, phones, network and failed pickup removed it.
LegReleased == (loop["ring"].pc # "claim" /\ ~inMap) ~> (cell = "none")

\* server.go:470: the timeout "bounds how long an inbound call may ring": it
\* never ends a call that was answered.
TimeoutOnlyWhileRinging == [][TimerFires => state # "active" \/ ~inMap]_inboundVars
=============================================================================
