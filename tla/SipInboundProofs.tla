-------------------------- MODULE SipInboundProofs --------------------------
(***************************************************************************)
(* Proofs about SipInbound, for any contacts and any limit of invitations: *)
(* the cellular call is picked up once, every contact is rung at most once *)
(* and no more of them than the limit, and while a call rings or its leg   *)
(* is left somebody is there to end it.  No result needs fairness or a     *)
(* bound on registrations, and all allow faults.                           *)
(***************************************************************************)
EXTENDS SipInbound, FiniteSetTheorems, TLAPS

\* The goroutine of k's 200 OK owns the pickup and has not issued ATA yet.
Picking(k) == pickup[k] \in {"ack", "ata"}

\* beginAnswer leaves "init" for good and lets one goroutine through.
PickupInv ==
  /\ state = "init" => atas = 0 /\ \A k \in Contacts : ~Picking(k)
  /\ \A k \in Contacts : Picking(k) => atas = 0
  /\ \A j, k \in Contacts : Picking(j) /\ Picking(k) => j = k
  /\ OnePickup

\* An inviting goroutine has remembered a contact and not sent its INVITE yet.
Inviting(a) == loop[a].pc \in {"aim", "send"}

\* RememberInvite gives each address to one goroutine once.
RungInv ==
  /\ IsFiniteSet(invites) /\ Cardinality(invites) <= MaxInvites
  /\ \A k \in Contacts : rung[k] <= 1 /\ (rung[k] > 0 => k \in invites)
  /\ \A a \in Inviters : Inviting(a) => loop[a].to \in invites /\ rung[loop[a].to] = 0
  /\ \A a, b \in Inviters : Inviting(a) /\ Inviting(b) /\ loop[a].to = loop[b].to => a = b
-----------------------------------------------------------------------------
LoopType == [pc : {"off", "claim", "invite", "aim", "send", "wait", "done"},
             left : SUBSET Contacts, to : Contacts \cup {NoContact}]

TearType == [pc : {"off", "armed", "find", "delete", "plan", "send", "hangup", "done"},
             kind : {"none", "cancel", "bye"}, left : SUBSET Contacts]

\* A plan is made by an invitation or a pickup, and a goroutine that is between
\* an invitation and its datagram knows the contact.
InvitingKnown == \A a \in Inviters : Inviting(a) => loop[a].to \in Contacts

TypeInv == InboundTypeOK /\ InvitingKnown

LEMMA RingingTyped == TypeInv /\ Ringing => TypeInv'
<1> SUFFICES ASSUME TypeInv, Ringing PROVE TypeInv'
  OBVIOUS
<1> USE DEF InboundTypeOK, TypeInv, InvitingKnown, Inviting, Inviters, Teardowns
<1>1. CASE Claim
  <2>1. /\ loop' \in [Inviters -> LoopType]
        /\ \A a \in Inviters : loop'[a].pc \in {"aim", "send"} => loop'[a] = loop[a]
    BY <1>1 DEF Claim, LoopType
  <2>2. inMap' \in BOOLEAN
    BY <1>1 DEF Claim
  <2> QED BY <1>1, <2>1, <2>2 DEF Claim, LoopType, sentVars
<1>2. CASE RingDone
  BY <1>2 DEF RingDone, sessVars, sentVars
<1>3. CASE Sweep
  <2>1. /\ loop' \in [Inviters -> LoopType]
        /\ \A a \in Inviters : loop'[a].pc \in {"aim", "send"} => loop'[a] = loop[a]
    BY <1>3 DEF Sweep, LoopType
  <2> QED BY <1>3, <2>1 DEF Sweep, LoopType, sessVars, sentVars
<1>4. CASE SweepDone
  BY <1>4 DEF SweepDone, sessVars, sentVars
<1>5. ASSUME NEW a \in Inviters, Remember(a) PROVE TypeInv'
  BY <1>5 DEF Remember, sentVars
<1>6. ASSUME NEW a \in Inviters, Aim(a) PROVE TypeInv'
  BY <1>6 DEF Aim, sentVars
<1>7. ASSUME NEW a \in Inviters, SendInvite(a) PROVE TypeInv'
  BY <1>7 DEF SendInvite, sessVars
<1> QED BY <1>1, <1>2, <1>3, <1>4, <1>5, <1>6, <1>7 DEF Ringing

LEMMA TearMoves ==
  ASSUME tear \in [Teardowns -> TearType], NEW t \in Teardowns,
         NEW p \in {"off", "armed", "find", "delete", "plan", "send", "hangup", "done"}
  PROVE  [tear EXCEPT ![t].pc = p] \in [Teardowns -> TearType]
BY DEF TearType

LEMMA TearTyped == TypeInv /\ (Timer \/ Ended) => TypeInv'
<1> SUFFICES ASSUME TypeInv, Timer \/ Ended PROVE TypeInv'
  OBVIOUS
<1> USE DEF InboundTypeOK, TypeInv, InvitingKnown, Inviting, Teardowns
<1>1. CASE TimerFires
  BY <1>1 DEF TimerFires, sessVars, sentVars
<1>2. CASE TimerStopped
  BY <1>2 DEF TimerStopped, sessVars, sentVars
<1>3. CASE FindSession
  BY <1>3 DEF FindSession, sessVars, sentVars
<1>4. ASSUME NEW t \in Teardowns, TearDelete(t) PROVE TypeInv'
  <2>0. tear \in [Teardowns -> TearType]
    BY DEF TearType
  <2>1. tear' \in [Teardowns -> TearType] /\ inMap' \in BOOLEAN
    BY <1>4, <2>0, TearMoves DEF TearDelete
  <2>2. UNCHANGED <<loop, registered, moves, phone, cell, state, ctxDone, invites, plan>>
    BY <1>4 DEF TearDelete
  <2>3. UNCHANGED <<pickup, reject, bye, rung, atas>>
    BY <1>4 DEF TearDelete, sentVars
  <2>4. InvitingKnown'
    BY <2>2
  <2> QED BY <2>1, <2>2, <2>3, <2>4 DEF TearType
<1>5. ASSUME NEW t \in Teardowns, TearPlan(t) PROVE TypeInv'
  BY <1>5 DEF TearPlan, sessVars, sentVars
<1>6. ASSUME NEW t \in Teardowns, TearSend(t) PROVE TypeInv'
  BY <1>6 DEF TearSend, sessVars, sentVars
<1>7. ASSUME NEW t \in Teardowns, TearHangup(t) PROVE TypeInv'
  BY <1>7 DEF TearHangup, Hangup, sentVars
<1> QED BY <1>1, <1>2, <1>3, <1>4, <1>5, <1>6, <1>7 DEF Timer, Ended, Tear

LEMMA AnswersTyped ==
  TypeInv /\ (\E k \in Contacts : Accept(k) \/ Refuse(k) \/ Release(k)) => TypeInv'
<1> SUFFICES ASSUME TypeInv, NEW k \in Contacts, Accept(k) \/ Refuse(k) \/ Release(k)
             PROVE  TypeInv'
  OBVIOUS
<1> USE DEF InboundTypeOK, TypeInv, InvitingKnown, Inviting
<1>1. CASE HandleOK(k)
  BY <1>1 DEF HandleOK, sessVars, sentVars
<1>2. CASE BeginAnswer(k)
  BY <1>2 DEF BeginAnswer, sentVars
<1>3. CASE Acknowledge(k)
  BY <1>3 DEF Acknowledge, sentVars
<1>4. CASE AnswerATA(k)
  BY <1>4 DEF AnswerATA, sessVars
<1>5. CASE StartBridge(k)
  BY <1>5 DEF StartBridge, sentVars
<1>6. CASE UndoDelete(k)
  BY <1>6 DEF UndoDelete, sentVars
<1>7. CASE UndoHangup(k)
  BY <1>7 DEF UndoHangup, Hangup, sentVars
<1>8. CASE HandleReject(k)
  BY <1>8 DEF HandleReject, sentVars
<1>9. CASE RejectHangup(k)
  BY <1>9 DEF RejectHangup, Hangup, sentVars
<1>10. CASE HandleBye(k)
  BY <1>10 DEF HandleBye, Hangup, sentVars
<1>11. CASE ByeDelete(k)
  BY <1>11 DEF ByeDelete, sentVars
<1> QED BY <1>1, <1>2, <1>3, <1>4, <1>5, <1>6, <1>7, <1>8, <1>9, <1>10, <1>11
        DEF Accept, Refuse, Release

LEMMA OutsideTyped == TypeInv /\ Outside => TypeInv'
<1> SUFFICES ASSUME TypeInv, Outside PROVE TypeInv'
  OBVIOUS
<1> USE DEF InboundTypeOK, TypeInv, InvitingKnown, Inviting, Teardowns
<1>1. CASE Reregister
  BY <1>1, InboundBounds DEF Reregister, sessVars, sentVars
<1>2. CASE CallerEnds
  BY <1>2 DEF CallerEnds, sessVars, sentVars
<1>3. ASSUME NEW k \in Contacts, PhoneAnswers(k) PROVE TypeInv'
  BY <1>3 DEF PhoneAnswers, sessVars, sentVars
<1>4. ASSUME NEW k \in Contacts, PhoneDeclines(k) PROVE TypeInv'
  BY <1>4 DEF PhoneDeclines, sessVars, sentVars
<1>5. ASSUME NEW k \in Contacts, PhoneHangsUp(k) PROVE TypeInv'
  BY <1>5 DEF PhoneHangsUp, sessVars, sentVars
<1> QED BY <1>1, <1>2, <1>3, <1>4, <1>5 DEF Outside

LEMMA InitTyped == InboundInit => TypeInv
<1> SUFFICES ASSUME InboundInit PROVE TypeInv
  OBVIOUS
<1>1. loop \in [Inviters -> LoopType] /\ \A a \in Inviters : ~Inviting(a)
  BY DEF InboundInit, LoopType, Inviting
<1>2. tear \in [Teardowns -> TearType]
  BY DEF InboundInit, TearType
<1>3. pickup \in [Contacts -> {"none", "sent", "begin", "ack", "ata", "bridge", "undo",
                              "hangup", "done"}]
  BY DEF InboundInit
<1>4. rung \in [Contacts -> Nat] /\ moves \in 0 .. MaxMoves
  BY InboundBounds DEF InboundInit
<1> QED BY <1>1, <1>2, <1>3, <1>4
        DEF InboundInit, TypeInv, InboundTypeOK, InvitingKnown, LoopType, TearType

LEMMA StepTyped == TypeInv /\ [InboundNext]_inboundVars => TypeInv'
<1>1. TypeInv /\ UNCHANGED inboundVars => TypeInv'
  BY DEF TypeInv, InboundTypeOK, InvitingKnown, Inviting, inboundVars, sessVars, sentVars
<1> QED BY <1>1, RingingTyped, TearTyped, AnswersTyped, OutsideTyped DEF InboundNext

\* Whatever phones, caller and network do, every variable keeps its type.
THEOREM InboundTypes == InboundSpec => []InboundTypeOK
<1>1. TypeInv => InboundTypeOK
  BY DEF TypeInv
<1> QED BY <1>1, InitTyped, StepTyped, PTL DEF InboundSpec
-----------------------------------------------------------------------------
(* One pickup.                                                             *)

\* Steps that leave the answering goroutines, the ATAs and the state alone, or
\* only end the session.
LEMMA PickupKept ==
  ASSUME PickupInv, UNCHANGED <<pickup, atas>>, state' \in {state, "ended"}
  PROVE  PickupInv'
BY DEF PickupInv, OnePickup, Picking

LEMMA PickupStep == TypeInv /\ PickupInv /\ [InboundNext]_inboundVars => PickupInv'
<1> SUFFICES ASSUME TypeInv, PickupInv, [InboundNext]_inboundVars PROVE PickupInv'
  OBVIOUS
<1>0. pickup \in [Contacts -> {"none", "sent", "begin", "ack", "ata", "bridge", "undo",
                              "hangup", "done"}] /\ atas \in Nat
  BY DEF TypeInv, InboundTypeOK
<1>1. CASE Ringing \/ Timer \/ Ended \/ Reregister \/ CallerEnds \/ UNCHANGED inboundVars
  <2>1. UNCHANGED <<pickup, atas>> /\ state' \in {state, "ended"}
    BY <1>1 DEF Ringing, Claim, RingDone, Sweep, SweepDone, Remember, Aim, SendInvite, Timer,
                Ended, TimerFires, TimerStopped, FindSession, Tear, TearDelete, TearPlan,
                TearSend, TearHangup, Hangup, Reregister, CallerEnds, inboundVars, sessVars,
                sentVars
  <2> QED BY <2>1, PickupKept
<1>2. ASSUME NEW k \in Contacts,
             PhoneDeclines(k) \/ PhoneHangsUp(k) \/ Refuse(k) \/ Release(k)
      PROVE  PickupInv'
  <2>1. UNCHANGED <<pickup, atas>> /\ state' \in {state, "ended"}
    BY <1>2 DEF PhoneDeclines, PhoneHangsUp, Refuse, HandleReject, RejectHangup, Release,
                HandleBye, ByeDelete, Hangup, sessVars, sentVars
  <2> QED BY <2>1, PickupKept
<1>3. ASSUME NEW k \in Contacts,
             PhoneAnswers(k) \/ HandleOK(k) \/ StartBridge(k) \/ UndoDelete(k) \/ UndoHangup(k)
      PROVE  PickupInv'
  <2>1. /\ UNCHANGED atas /\ state' \in {state, "active", "ended"}
        /\ \A j \in Contacts : pickup'[j] \in {"ack", "ata"} => pickup[j] = pickup'[j]
    BY <1>0, <1>3 DEF PhoneAnswers, HandleOK, StartBridge, UndoDelete, UndoHangup, Hangup,
                      sessVars, sentVars
  <2> QED BY <2>1 DEF PickupInv, OnePickup, Picking
<1>4. ASSUME NEW k \in Contacts, BeginAnswer(k) PROVE PickupInv'
  BY <1>0, <1>4 DEF BeginAnswer, PickupInv, OnePickup, Picking, sentVars
<1>5. ASSUME NEW k \in Contacts, Acknowledge(k) PROVE PickupInv'
  BY <1>0, <1>5 DEF Acknowledge, PickupInv, OnePickup, Picking, sentVars
<1>6. ASSUME NEW k \in Contacts, AnswerATA(k) PROVE PickupInv'
  <2>1. Picking(k) /\ atas = 0 /\ state # "init"
    BY <1>6 DEF AnswerATA, PickupInv, Picking
  <2>2. atas' = 1 /\ state' = state /\ \A j \in Contacts : ~Picking(j)'
    BY <1>0, <1>6, <2>1 DEF AnswerATA, PickupInv, Picking, sessVars
  <2> QED BY <2>1, <2>2 DEF PickupInv, OnePickup
<1> QED BY <1>1, <1>2, <1>3, <1>4, <1>5, <1>6 DEF InboundNext, Outside, Accept

\* However many phones answer, at most one ATA is ever issued for the call.
THEOREM PickedUpOnce == InboundSpec => []OnePickup
<1>1. InboundInit => PickupInv
  BY DEF InboundInit, PickupInv, OnePickup, Picking
<1>2. PickupInv => OnePickup
  BY DEF PickupInv
<1> QED BY <1>1, <1>2, InitTyped, StepTyped, PickupStep, PTL DEF InboundSpec
-----------------------------------------------------------------------------
(* Rung once.                                                              *)

LEMMA RungKept ==
  ASSUME RungInv, UNCHANGED <<loop, invites, rung>>
  PROVE  RungInv'
BY DEF RungInv, Inviting

LEMMA RememberRung ==
  ASSUME TypeInv, RungInv, NEW a \in Inviters, Remember(a)
  PROVE  RungInv'
<1>0. /\ loop \in [Inviters -> LoopType] /\ rung \in [Contacts -> Nat]
      /\ UNCHANGED rung /\ ~Inviting(a)
  BY DEF Remember, TypeInv, InboundTypeOK, LoopType, Inviting, sentVars
<1>1. PICK k \in loop[a].left :
        IF k \notin invites /\ Cardinality(invites) < MaxInvites
          THEN /\ invites' = invites \cup {k}
               /\ loop' = [loop EXCEPT ![a] = [pc |-> "aim", left |-> loop[a].left \ {k}, to |-> k]]
          ELSE /\ loop' = [loop EXCEPT ![a].left = loop[a].left \ {k}]
               /\ UNCHANGED invites
  BY DEF Remember
<1>2. k \in Contacts
  BY <1>0, <1>1 DEF LoopType
<1>3. CASE k \notin invites /\ Cardinality(invites) < MaxInvites
  <2>1. IsFiniteSet(invites') /\ Cardinality(invites') <= MaxInvites
    <3>1. IsFiniteSet(invites) /\ invites' = invites \cup {k} /\ k \notin invites
      BY <1>1, <1>3 DEF RungInv
    <3>2. Cardinality(invites) \in Nat
      BY <3>1, FS_CardinalityType
    <3>3. IsFiniteSet(invites') /\ Cardinality(invites') = Cardinality(invites) + 1
      BY <3>1, FS_AddElement
    <3> QED BY <1>3, <3>2, <3>3, InboundBounds
  <2>2. loop'[a].to = k /\ \A b \in Inviters : b # a => loop'[b] = loop[b]
    BY <1>0, <1>1, <1>3
  <2>3. rung[k] = 0
    BY <1>0, <1>2, <1>3 DEF RungInv
  <2>4. \A b \in Inviters : b # a /\ Inviting(b) => loop[b].to # k
    BY <1>3 DEF RungInv
  <2> QED BY <1>0, <1>1, <1>3, <2>1, <2>2, <2>3, <2>4 DEF RungInv, Inviting
<1>4. CASE ~(k \notin invites /\ Cardinality(invites) < MaxInvites)
  <2>1. \A b \in Inviters : loop'[b].pc = loop[b].pc /\ loop'[b].to = loop[b].to
    BY <1>0, <1>1, <1>4 DEF LoopType
  <2> QED BY <1>0, <1>1, <1>4, <2>1 DEF RungInv, Inviting
<1> QED BY <1>3, <1>4

LEMMA RungStep == TypeInv /\ RungInv /\ [InboundNext]_inboundVars => RungInv'
<1> SUFFICES ASSUME TypeInv, RungInv, [InboundNext]_inboundVars PROVE RungInv'
  OBVIOUS
<1>0. loop \in [Inviters -> LoopType] /\ rung \in [Contacts -> Nat] /\ InvitingKnown
  BY DEF TypeInv, InboundTypeOK, LoopType
<1>1. CASE Timer \/ Ended \/ Outside \/ UNCHANGED inboundVars
  <2>1. UNCHANGED <<loop, invites, rung>>
    BY <1>1 DEF Timer, Ended, TimerFires, TimerStopped, FindSession, Tear, TearDelete, TearPlan,
                TearSend, TearHangup, Outside, Reregister, CallerEnds, PhoneAnswers,
                PhoneDeclines, PhoneHangsUp, inboundVars, sessVars, sentVars
  <2> QED BY <2>1, RungKept
<1>2. ASSUME NEW k \in Contacts, Accept(k) \/ Refuse(k) \/ Release(k) PROVE RungInv'
  <2>1. UNCHANGED <<loop, invites, rung>>
    BY <1>2 DEF Accept, HandleOK, BeginAnswer, Acknowledge, AnswerATA, StartBridge, UndoDelete,
                UndoHangup, Refuse, HandleReject, RejectHangup, Release, HandleBye, ByeDelete,
                sessVars, sentVars
  <2> QED BY <2>1, RungKept
<1>3. CASE Claim \/ RingDone \/ Sweep \/ SweepDone
  <2>1. /\ UNCHANGED <<invites, rung>>
        /\ \A a \in Inviters : Inviting(a)' => Inviting(a) /\ loop'[a] = loop[a]
    BY <1>0, <1>3 DEF Claim, RingDone, Sweep, SweepDone, Inviting, Inviters, LoopType, sessVars,
                      sentVars
  <2> QED BY <2>1 DEF RungInv
<1>4. ASSUME NEW a \in Inviters, Remember(a) PROVE RungInv'
  BY <1>4, RememberRung
<1>5. ASSUME NEW a \in Inviters, Aim(a) PROVE RungInv'
  <2>1. /\ UNCHANGED <<invites, rung>>
        /\ \A b \in Inviters : (Inviting(b)' => Inviting(b)) /\ loop'[b].to = loop[b].to
    BY <1>0, <1>5 DEF Aim, Inviting, LoopType, sentVars
  <2> QED BY <2>1 DEF RungInv
<1>6. ASSUME NEW a \in Inviters, SendInvite(a) PROVE RungInv'
  <2>1. /\ Inviting(a) /\ loop[a].to \in Contacts /\ UNCHANGED invites
        /\ rung' = [rung EXCEPT ![loop[a].to] = @ + 1]
    BY <1>0, <1>6 DEF SendInvite, Inviting, InvitingKnown, sessVars
  <2>2. ~Inviting(a)' /\ \A b \in Inviters : b # a => loop'[b] = loop[b]
    BY <1>0, <1>6 DEF SendInvite, Inviting, LoopType
  <2>3. \A b \in Inviters : b # a /\ Inviting(b) => rung'[loop[b].to] = 0
    BY <1>0, <2>1 DEF RungInv, InvitingKnown
  <2>4. \A k \in Contacts : rung'[k] <= 1 /\ (rung'[k] > 0 => k \in invites)
    BY <1>0, <2>1 DEF RungInv
  <2> QED BY <2>1, <2>2, <2>3, <2>4 DEF RungInv, Inviting
<1> QED BY <1>1, <1>2, <1>3, <1>4, <1>5, <1>6 DEF InboundNext, Ringing

LEMMA RungSuffices == TypeInv /\ RungInv => RungOnce
<1> SUFFICES ASSUME TypeInv, RungInv PROVE RungOnce
  OBVIOUS
<1> DEFINE R == {k \in Contacts : rung[k] > 0}
<1>1. R \in SUBSET invites
  BY DEF RungInv
<1>2. Cardinality(R) <= Cardinality(invites) /\ Cardinality(R) \in Nat /\ Cardinality(invites) \in Nat
  BY <1>1, FS_Subset, FS_CardinalityType DEF RungInv
<1> QED BY <1>2, InboundBounds DEF RungInv, RungOnce

\* However often phones register while a call rings, no contact is invited twice
\* and no more contacts than maxInviteAttempts.
THEOREM RungAtMostOnce == InboundSpec => []RungOnce
<1>1. InboundInit => RungInv
  BY FS_EmptySet, InboundBounds DEF InboundInit, RungInv, Inviting
<1> QED BY <1>1, InitTyped, StepTyped, RungStep, RungSuffices, PTL DEF InboundSpec
-----------------------------------------------------------------------------
(* The leg of a session that left the map, and the timer of one that rings. *)

\* LegHasOwner alone is not inductive: handleAckBye deletes last, and relies on its
\* own Hangup; and the timer only starts when ringClients is done.
LegInv ==
  /\ LegHasOwner
  /\ ctxDone /\ ~Faults => cell = "none"
  /\ \A k \in Contacts : bye[k] = "delete" => ctxDone
  /\ loop["ring"].pc # "done" => tear["timer"].pc = "off"

\* The timer is also stopped by a cancelled context: by then the call rings no more.
TimedInv ==
  /\ RingingTimed
  /\ ctxDone => state # "init"

ReleaseInv == LegInv /\ TimedInv

\* A hangup releases the leg or has lost its ATH, and the session rings no more.
LEMMA HangupReleases ==
  ASSUME TypeInv, ReleaseInv, Hangup,
         \A k \in Contacts : bye'[k] = "delete" => bye[k] = "delete" \/ ctxDone',
         UNCHANGED loop, tear'["timer"].pc = "off" <=> tear["timer"].pc = "off"
  PROVE  ReleaseInv'
BY InboundBounds DEF TypeInv, InboundTypeOK, ReleaseInv, LegInv, LegHasOwner, TimedInv,
                     RingingTimed, Hangup

\* The two inviting goroutines: the timer takes over where the invitations end.
LEMMA RingingReleases ==
  ASSUME TypeInv, ReleaseInv, Ringing
  PROVE  ReleaseInv'
<1>0. /\ loop \in [Inviters -> LoopType] /\ "ring" \in Inviters /\ "sweep" \in Inviters
      /\ tear \in [Teardowns -> TearType] /\ "timer" \in Teardowns
  BY DEF TypeInv, InboundTypeOK, LoopType, TearType, Inviters, Teardowns
<1>1. CASE Claim
  <2>1. /\ loop["ring"].pc = "claim" /\ UNCHANGED <<cell, state, ctxDone, tear, pickup, reject, bye>>
        /\ \/ inMap' /\ loop'["ring"].pc = "invite"
           \/ /\ UNCHANGED inMap /\ loop'["ring"].pc = "done"
              /\ loop'["sweep"] = loop["sweep"]
    BY <1>0, <1>1 DEF Claim, LoopType
  <2> QED
    BY <2>1 DEF ReleaseInv, LegInv, LegHasOwner, TimedInv, RingingTimed, Claimed
<1>2. CASE RingDone
  <2>1. /\ UNCHANGED <<inMap, cell, state, ctxDone, pickup, reject, bye>>
        /\ tear["timer"].pc = "off" /\ tear'["timer"].pc = "armed" /\ Claimed
        /\ \A t \in Teardowns : t # "timer" => tear'[t] = tear[t]
        /\ loop'["ring"].pc = "done"
    <3>1. loop["ring"].pc = "invite" /\ tear["timer"].pc = "off"
      BY <1>2 DEF RingDone, ReleaseInv, LegInv
    <3>2. /\ tear' = [tear EXCEPT !["timer"].pc = "armed"]
          /\ loop' = [loop EXCEPT !["ring"].pc = "done", !["sweep"].pc = "wait"]
          /\ UNCHANGED <<inMap, cell, state, ctxDone, pickup, reject, bye>>
      BY <1>2 DEF RingDone, sessVars
    <3>3. loop'["ring"].pc = "done"
      BY <1>0, <3>2 DEF LoopType
    <3>4. tear'["timer"].pc = "armed" /\ \A t \in Teardowns : t # "timer" => tear'[t] = tear[t]
      BY <1>0, <3>2 DEF TearType
    <3> QED
      BY <3>1, <3>2, <3>3, <3>4 DEF Claimed
  <2> QED
    BY <2>1 DEF ReleaseInv, LegInv, LegHasOwner, TimedInv, RingingTimed
<1>3. CASE Sweep \/ SweepDone
  <2>1. /\ UNCHANGED <<inMap, cell, state, ctxDone, tear, pickup, reject, bye>>
        /\ loop'["ring"] = loop["ring"] /\ loop["sweep"].pc # "off"
    BY <1>0, <1>3 DEF Sweep, SweepDone, sessVars
  <2> QED
    BY <2>1 DEF ReleaseInv, LegInv, LegHasOwner, TimedInv, RingingTimed, Claimed
<1>4. ASSUME NEW a \in Inviters, Remember(a) \/ Aim(a) \/ SendInvite(a)
      PROVE  ReleaseInv'
  <2>1. /\ UNCHANGED <<inMap, cell, state, ctxDone, tear, pickup, reject, bye>>
        /\ loop[a].pc \in {"invite", "aim", "send"} /\ loop'[a].pc \in {"invite", "aim", "send"}
        /\ \A b \in Inviters : b # a => loop'[b] = loop[b]
    <3>1. CASE Remember(a)
      BY <1>0, <3>1 DEF Remember, LoopType
    <3>2. CASE Aim(a)
      BY <1>0, <3>2 DEF Aim, LoopType
    <3>3. CASE SendInvite(a)
      BY <1>0, <3>3 DEF SendInvite, LoopType, sessVars
    <3> QED
      BY <1>4, <3>1, <3>2, <3>3
  <2> QED
    BY <1>0, <2>1 DEF ReleaseInv, LegInv, LegHasOwner, TimedInv, RingingTimed, Claimed, Inviters
<1> QED
  BY <1>1, <1>2, <1>3, <1>4 DEF Ringing

\* The timer and the modem's event: whoever takes the session out goes on to hang up.
LEMMA TeardownReleases ==
  ASSUME TypeInv, ReleaseInv, Timer \/ Ended
  PROVE  ReleaseInv'
<1>0. tear \in [Teardowns -> TearType] /\ "timer" \in Teardowns /\ "modem" \in Teardowns
  BY DEF TypeInv, InboundTypeOK, TearType, Teardowns
<1>1. CASE TimerFires \/ TimerStopped \/ FindSession
  <2>1. /\ UNCHANGED <<loop, inMap, cell, state, ctxDone, pickup, reject, bye>>
        /\ \A t \in Teardowns : tear[t].pc \in {"plan", "send", "hangup"} => tear'[t] = tear[t]
        /\ tear["timer"].pc = "off" => tear'["timer"].pc = "off"
    BY <1>0, <1>1 DEF TimerFires, TimerStopped, FindSession, sessVars
  <2>2. inMap /\ state = "init" /\ tear["timer"].pc \in {"armed", "delete"} =>
          tear'["timer"].pc \in {"armed", "delete"}
    <3>1. CASE TimerFires
      BY <1>0, <3>1 DEF TimerFires, TearType
    <3>2. CASE TimerStopped
      BY <3>2 DEF TimerStopped, ReleaseInv, TimedInv
    <3>3. CASE FindSession
      BY <1>0, <3>3 DEF FindSession, TearType
    <3> QED
      BY <1>1, <3>1, <3>2, <3>3
  <2> QED
    BY <2>1, <2>2 DEF ReleaseInv, LegInv, LegHasOwner, TimedInv, RingingTimed, Claimed
<1>2. ASSUME NEW t \in Teardowns, TearDelete(t)
      PROVE  ReleaseInv'
  <2>1. /\ UNCHANGED <<loop, cell, state, ctxDone, pickup, reject, bye>> /\ ~inMap'
        /\ tear[t].pc = "delete" /\ tear'[t].pc = "plan"
        /\ \A u \in Teardowns : u # t => tear'[u] = tear[u]
    BY <1>0, <1>2 DEF TearDelete
  <2> QED
    BY <1>0, <2>1 DEF ReleaseInv, LegInv, LegHasOwner, TimedInv, RingingTimed
<1>3. ASSUME NEW t \in Teardowns, TearPlan(t) \/ TearSend(t)
      PROVE  ReleaseInv'
  <2>1. /\ UNCHANGED <<loop, inMap, cell, state, ctxDone, pickup, reject, bye>>
        /\ tear[t].pc \in {"plan", "send"} /\ tear'[t].pc \in {"send", "hangup"}
        /\ \A u \in Teardowns : u # t => tear'[u] = tear[u]
    BY <1>0, <1>3 DEF TearPlan, TearSend, TearType, sessVars
  <2>2. inMap /\ state = "init" /\ tear["timer"].pc \in {"armed", "delete"} =>
          tear'["timer"].pc \in {"armed", "delete"}
    BY <1>0, <2>1
  <2> QED
    BY <1>0, <2>1, <2>2
       DEF ReleaseInv, LegInv, LegHasOwner, TimedInv, RingingTimed, Claimed
<1>4. ASSUME NEW t \in Teardowns, TearHangup(t)
      PROVE  ReleaseInv'
  <2>1. /\ Hangup /\ UNCHANGED <<loop, bye>>
        /\ tear["timer"].pc = "off" <=> tear'["timer"].pc = "off"
    BY <1>0, <1>4 DEF TearHangup
  <2> QED
    BY <2>1, HangupReleases
<1> QED
  BY <1>0, <1>1, <1>2, <1>3, <1>4 DEF Timer, Ended, Tear

\* Pickup, refusal and BYE.
LEMMA AnswersRelease ==
  ASSUME TypeInv, ReleaseInv, NEW k \in Contacts, Accept(k) \/ Refuse(k) \/ Release(k)
  PROVE  ReleaseInv'
<1>0. /\ pickup \in [Contacts -> {"none", "sent", "begin", "ack", "ata", "bridge", "undo",
                                  "hangup", "done"}]
      /\ reject \in [Contacts -> {"none", "sent", "hangup", "done"}]
      /\ bye \in [Contacts -> {"none", "sent", "delete", "done"}]
  BY DEF TypeInv, InboundTypeOK
<1>1. CASE HandleOK(k) \/ BeginAnswer(k) \/ Acknowledge(k) \/ AnswerATA(k) \/ StartBridge(k)
  <2>1. /\ UNCHANGED <<loop, inMap, ctxDone, tear, reject, bye>>
        /\ \A j \in Contacts : pickup[j] = "hangup" => pickup'[j] = "hangup"
        /\ cell = "none" => cell' = "none"
        /\ state' = "init" => state = "init"
    BY <1>0, <1>1 DEF HandleOK, BeginAnswer, Acknowledge, AnswerATA, StartBridge, sessVars
  <2> QED
    BY <2>1 DEF ReleaseInv, LegInv, LegHasOwner, TimedInv, RingingTimed, Claimed
<1>2. CASE UndoDelete(k)
  <2>1. /\ UNCHANGED <<loop, cell, state, ctxDone, tear, reject, bye>> /\ ~inMap'
        /\ pickup'[k] = "hangup"
    BY <1>0, <1>2 DEF UndoDelete
  <2> QED
    BY <2>1 DEF ReleaseInv, LegInv, LegHasOwner, TimedInv, RingingTimed
<1>3. CASE UndoHangup(k) \/ RejectHangup(k)
  <2>1. Hangup /\ UNCHANGED <<loop, tear, bye>>
    BY <1>3 DEF UndoHangup, RejectHangup
  <2> QED
    BY <2>1, HangupReleases
<1>4. CASE HandleReject(k)
  <2>1. /\ UNCHANGED <<loop, cell, state, ctxDone, tear, pickup, bye>> /\ ~inMap'
        /\ inMap => reject'[k] = "hangup"
        /\ \A j \in Contacts : reject[j] = "hangup" => reject'[j] = "hangup"
    BY <1>0, <1>4 DEF HandleReject
  <2> QED
    BY <2>1 DEF ReleaseInv, LegInv, LegHasOwner, TimedInv, RingingTimed, Claimed
<1>5. CASE HandleBye(k)
  <2>1. CASE inMap
    <3>1. Hangup /\ ctxDone' /\ UNCHANGED <<loop, tear>>
      BY <1>5, <2>1 DEF HandleBye, Hangup
    <3> QED
      BY <3>1, HangupReleases
  <2>2. CASE ~inMap
    <3>1. /\ UNCHANGED <<loop, inMap, cell, state, ctxDone, tear, pickup, reject>>
          /\ \A j \in Contacts : bye'[j] = "delete" => bye[j] = "delete"
      BY <1>0, <1>5, <2>2 DEF HandleBye
    <3> QED
      BY <3>1 DEF ReleaseInv, LegInv, LegHasOwner, TimedInv, RingingTimed, Claimed
  <2> QED BY <2>1, <2>2
<1>6. CASE ByeDelete(k)
  <2>1. /\ UNCHANGED <<loop, cell, state, ctxDone, tear, pickup, reject>> /\ ~inMap'
        /\ bye[k] = "delete" /\ \A j \in Contacts : bye'[j] = "delete" => bye[j] = "delete"
    BY <1>0, <1>6 DEF ByeDelete
  <2>2. ctxDone /\ (~Faults => cell = "none")
    BY <2>1 DEF ReleaseInv, LegInv
  <2> QED
    BY <2>1, <2>2 DEF ReleaseInv, LegInv, LegHasOwner, TimedInv, RingingTimed
<1> QED
  BY <1>1, <1>2, <1>3, <1>4, <1>5, <1>6 DEF Accept, Refuse, Release

\* Phones, registrar and caller.
LEMMA OutsideReleases ==
  ASSUME TypeInv, ReleaseInv, Outside
  PROVE  ReleaseInv'
<1>0. /\ tear \in [Teardowns -> TearType] /\ bye \in [Contacts -> {"none", "sent", "delete", "done"}]
      /\ pickup \in [Contacts -> {"none", "sent", "begin", "ack", "ata", "bridge", "undo",
                                  "hangup", "done"}]
      /\ reject \in [Contacts -> {"none", "sent", "hangup", "done"}]
  BY DEF TypeInv, InboundTypeOK, TearType
<1>1. CASE Reregister
  BY <1>1 DEF Reregister, sessVars, ReleaseInv, LegInv, LegHasOwner, TimedInv, RingingTimed,
              Claimed
<1>2. CASE CallerEnds
  <2>1. /\ UNCHANGED <<loop, inMap, state, ctxDone, pickup, reject, bye>> /\ cell' = "none"
        /\ tear'["timer"] = tear["timer"]
    BY <1>0, <1>2 DEF CallerEnds, sessVars
  <2> QED
    BY <2>1 DEF ReleaseInv, LegInv, LegHasOwner, TimedInv, RingingTimed
<1>3. ASSUME NEW k \in Contacts, PhoneAnswers(k) \/ PhoneDeclines(k) \/ PhoneHangsUp(k)
      PROVE  ReleaseInv'
  <2>1. /\ UNCHANGED <<loop, tear, inMap, cell, state, ctxDone>>
        /\ \A j \in Contacts : pickup[j] = "hangup" => pickup'[j] = "hangup"
        /\ \A j \in Contacts : reject[j] = "hangup" => reject'[j] = "hangup"
        /\ \A j \in Contacts : bye'[j] = "delete" => bye[j] = "delete"
    BY <1>0, <1>3 DEF PhoneAnswers, PhoneDeclines, PhoneHangsUp, sessVars
  <2> QED
    BY <2>1 DEF ReleaseInv, LegInv, LegHasOwner, TimedInv, RingingTimed, Claimed
<1> QED
  BY <1>1, <1>2, <1>3 DEF Outside

LEMMA ReleaseStep == TypeInv /\ ReleaseInv /\ [InboundNext]_inboundVars => ReleaseInv'
<1> SUFFICES ASSUME TypeInv, ReleaseInv, [InboundNext]_inboundVars PROVE ReleaseInv'
  OBVIOUS
<1>1. CASE UNCHANGED inboundVars
  BY <1>1 DEF ReleaseInv, LegInv, LegHasOwner, TimedInv, RingingTimed, Claimed, inboundVars,
              sessVars
<1>2. CASE InboundNext
  BY <1>2, RingingReleases, TeardownReleases, AnswersRelease, OutsideReleases DEF InboundNext
<1> QED
  BY <1>1, <1>2

LEMMA InitReleases == InboundInit => ReleaseInv
<1> SUFFICES ASSUME InboundInit PROVE ReleaseInv
  OBVIOUS
<1>1. /\ loop["ring"].pc = "claim" /\ loop["sweep"].pc = "off" /\ tear["timer"].pc = "off"
      /\ ~ctxDone /\ ~inMap /\ \A k \in Contacts : bye[k] = "none"
  BY DEF InboundInit, Inviters, Teardowns
<1> QED
  BY <1>1 DEF ReleaseInv, LegInv, LegHasOwner, TimedInv, RingingTimed, Claimed

\* The cellular leg of a session that is out of the map has a goroutine that will
\* hang it up, and a call that rings is being rung out or has its timer running, for
\* any contacts, limit and registrations; that the goroutines get there is LegReleased
\* and RingingEnds.
THEOREM NobodyAbandoned == InboundSpec => []NeverAbandoned
<1>1. ReleaseInv => NeverAbandoned
  BY DEF ReleaseInv, LegInv, TimedInv, NeverAbandoned
<1> QED BY <1>1, InitTyped, StepTyped, InitReleases, ReleaseStep, PTL DEF InboundSpec
=============================================================================
