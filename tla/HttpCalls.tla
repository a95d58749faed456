------------------------------ MODULE HttpCalls ------------------------------
(***************************************************************************)
(* Calls over the HTTP API (api/server.go): every request has a goroutine  *)
(* of its own, the events of the modem are handled by one more, and the    *)
(* connection state of each WebRTC session by a callback.  They share the  *)
(* call controller, the line of the modem, the call rows and the sessions. *)
(* A step is one call of the controller, the modem or the database.        *)
(*                                                                         *)
(* External: call.Controller, one call at a time, by the names and errors  *)
(* its callers use; the line, as the call the adapter takes for active     *)
(* (CallLine has its detail), with the events of a call in order; the      *)
(* database; the recorder; WebRTC.                                         *)
(***************************************************************************)
EXTENDS Naturals, Sequences, FiniteSets

CONSTANTS Requests,     \* requests received, repetitions included
          Calls, NoCall,
          Keys,         \* Idempotency-Keys, each of one operation
          Traffic,      \* which operation, key and call the requests may bear
          MaxRings,     \* bound: calls that come in
          MaxMedia,     \* bound: changes of a session's connection state
          MaxFaults     \* bound: database failures and clients that hang up on us

Ops == {"dial", "answer", "hangup", "dtmf", "delete", "offer", "record", "unrecord"}

ASSUME HttpAssumption ==
    /\ NoCall \notin Calls /\ "nobody" \notin Requests
    /\ Traffic \subseteq [Requests -> [op : Ops, key : Keys, call : Calls]]
    /\ \A t \in Traffic : \A q, r \in Requests :
          \* repetitions are equal, and every dial names a call of its own
          /\ t[q].key = t[r].key => t[q] = t[r]
          /\ t[q].op = "dial" /\ t[r].op = "dial" /\ t[q].call = t[r].call => t[q] = t[r]
    /\ MaxRings \in Nat /\ MaxMedia \in Nat /\ MaxFaults \in Nat

VARIABLES req,          \* what each request asks for
          pc,           \* where its goroutine stands
          snap,         \* the snapshot of the call it holds: still open, or ended
          code,         \* the answer it is about to record
          gone,         \* requests whose client hung up: their context is cancelled
          ctl,          \* the call controller
          line,         \* the call the adapter takes for active
          events,       \* events of the modem not yet handled
          reader,       \* HandleModemEvent
          row,          \* the call rows
          media,        \* calls with a WebRTC session and its voice bridge
          peer,         \* the connection-state callback of each call
          rec,          \* calls being recorded
          late,         \* history: got a session or a recording after their end
          rolled,       \* history: calls of which a hang-up was rolled back
          key, begun,   \* idempotency records, runs of each key's operation
          rung,         \* calls that came in; each does so once
          medias, faults

workVars == <<req, pc, snap, code, gone>>
lineVars == <<ctl, line, events, reader, rolled>>
callVars == <<row, media, peer, rec, late>>
keyVars == <<key, begun>>
bounds == <<rung, medias, faults>>
httpVars == <<workVars, lineVars, callVars, keyVars, bounds>>

Call(r) == req[r].call
Op(r) == req[r].op
Live == {"dialing", "incoming", "answering", "up"}
Idle == [call |-> NoCall, phase |-> "idle", saved |-> "idle", by |-> "nobody"]
Stages == {"claim", "find", "session", "place", "dial", "clean", "fail", "drop", "release",
           "forget", "control", "modem", "ready", "finish", "rollback", "tone", "persist",
           "close", "erase", "start", "stop", "answer", "done"}

HttpTypeOK ==
    /\ req \in [Requests -> [op : Ops, key : Keys, call : Calls]]
    /\ pc \in [Requests -> Stages]
    /\ snap \in [Requests -> {"open", "ended"}]
    /\ code \in [Requests -> {"ok", "error"}]
    /\ gone \subseteq Requests
    /\ ctl \in [call : Calls \union {NoCall}, phase : Live \union {"idle", "ending", "ended"},
                saved : Live \union {"idle"}, by : Requests \union {"nobody"}]
    /\ line \in Calls \union {NoCall}
    /\ events \in Seq([kind : {"incoming", "ended"}, call : Calls])
    /\ reader \in [at : {"idle", "rung", "ended", "finish", "gone", "close"},
                   call : Calls \union {NoCall}, snap : {"open", "ended"}]
    /\ row \in [Calls -> {"none", "open", "ended"}]
    /\ media \subseteq Calls /\ rec \subseteq Calls /\ late \subseteq Calls
    /\ rolled \subseteq Calls
    /\ peer \in [Calls -> {"quiet", "ready", "lost", "close"}]
    /\ key \in [Keys -> {"none", "pending", "ok", "error"}]
    /\ begun \in [Keys -> Nat]
    /\ rung \subseteq Calls /\ medias \in 0..MaxMedia /\ faults \in 0..MaxFaults

HttpInit ==
    /\ req \in Traffic
    /\ pc = [r \in Requests |-> IF Op(r) = "offer" THEN "find" ELSE "claim"]
    /\ snap = [r \in Requests |-> "open"]
    /\ code = [r \in Requests |-> "error"]
    /\ gone = {} /\ ctl = Idle /\ line = NoCall /\ events = <<>>
    /\ reader = [at |-> "idle", call |-> NoCall, snap |-> "open"]
    /\ row = [c \in Calls |-> "none"]
    /\ media = {} /\ rec = {} /\ late = {} /\ rolled = {}
    /\ peer = [c \in Calls |-> "quiet"]
    /\ key = [k \in Keys |-> "none"]
    /\ begun = [k \in Keys |-> 0]
    /\ rung = {} /\ medias = 0 /\ faults = 0

Goto(r, p) == pc' = [pc EXCEPT ![r] = p]
Reply(r, a) == Goto(r, "answer") /\ code' = [code EXCEPT ![r] = a]

(* A database call on the request's context, and on one of its own.        *)
DbWorks == UNCHANGED faults
MoreFaults == faults + Cardinality(gone) < MaxFaults
DbBreaks == MoreFaults /\ faults' = faults + 1
Works(r) == r \notin gone /\ DbWorks
Fails(r) == (r \in gone /\ UNCHANGED faults) \/ DbBreaks

-----------------------------------------------------------------------------
(* The controller: a transition is refused unless the call is the current  *)
(* one and in one of the phases it may leave.                              *)
Holds(c, Phases) == ctl.call = c /\ ctl.phase \in Phases
Move(c, Phases, p, who) ==
    /\ Holds(c, Phases)
    /\ ctl' = [call |-> c, phase |-> p, saved |-> ctl.phase, by |-> who]

(* The line: a hang-up succeeds and is published, finds no call, or fails. *)
Publish(k, c) == events' = Append(events, [kind |-> k, call |-> c])
HangUpWorks == line # NoCall /\ line' = NoCall /\ Publish("ended", line)
HangUpFails == UNCHANGED <<line, events>>   \* or finds none

-----------------------------------------------------------------------------
(* Idempotency.                                                            *)

Begin(r) == begun' = [begun EXCEPT ![req[r].key] = @ + 1]

(* Mutant: a key whose request is still at work is taken up once more.     *)
ClaimAgain(r) ==
    /\ pc[r] = "claim" /\ key[req[r].key] \in {"none", "pending"} /\ Works(r)
    /\ key' = [key EXCEPT ![req[r].key] = "pending"]
    /\ Goto(r, IF Op(r) = "dial" THEN "place" ELSE "control")
    /\ UNCHANGED <<req, snap, code, gone, lineVars, callVars, begun, rung, medias>>

(* claimIdempotency: the first request of a key goes on; any other gets    *)
(* the recorded answer, or a conflict while there is none.                 *)
Claim(r) ==
    /\ pc[r] = "claim"
    /\ \/ /\ key[req[r].key] = "none" /\ Works(r)
          /\ key' = [key EXCEPT ![req[r].key] = "pending"]
          /\ Goto(r, CASE Op(r) = "dial" -> "place"
                       [] Op(r) \in {"answer", "hangup"} -> "control"
                       [] Op(r) = "dtmf" -> "tone"
                       [] Op(r) = "offer" -> "session"
                       [] OTHER -> "find")
       \/ key[req[r].key] # "none" /\ Works(r) /\ Goto(r, "done") /\ UNCHANGED key
       \/ Fails(r) /\ Goto(r, "done") /\ UNCHANGED key
    /\ UNCHANGED <<req, snap, code, gone, lineVars, callVars, begun, rung, medias>>

(* CompleteIdempotency on the request's context; its error is dropped.     *)
Answer(r) ==
    /\ pc[r] = "answer" /\ Goto(r, "done")
    /\ \/ Works(r) /\ key' = [key EXCEPT ![req[r].key] = code[r]]
       \/ Fails(r) /\ UNCHANGED key
    /\ UNCHANGED <<req, snap, code, gone, lineVars, callVars, begun, rung, medias>>

(* The client hangs up on its request.                                     *)
Leave(r) ==
    /\ pc[r] # "done" /\ r \notin gone /\ MoreFaults
    /\ gone' = gone \union {r}
    /\ UNCHANGED <<req, pc, snap, code, lineVars, callVars, keyVars, bounds>>

-----------------------------------------------------------------------------
(* Shared by the operations on calls.                                      *)

(* SaveCall in persistCall: the row takes the snapshot, whatever it says   *)
(* by now; a terminal one stops the recording.                             *)
Save(c, s) ==
    /\ row' = [row EXCEPT ![c] = s]
    /\ rec' = IF s = "ended" THEN rec \ {c} ELSE rec

(* A snapshot that cannot be saved makes the answer an error.              *)
Persist(r) ==
    /\ pc[r] = "persist"
    /\ \/ /\ Works(r) /\ Save(Call(r), snap[r]) /\ UNCHANGED code
          /\ Goto(r, IF Op(r) = "hangup" THEN "close" ELSE "answer")
       \/ Fails(r) /\ Reply(r, "error") /\ UNCHANGED <<row, rec>>
    /\ UNCHANGED <<req, snap, gone, lineVars, media, peer, late, keyVars, rung, medias>>

(* What is to be saved, and answered, once the controller agreed.          *)
Keep(r, s, a) ==
    /\ snap' = [snap EXCEPT ![r] = s]
    /\ code' = [code EXCEPT ![r] = a]
    /\ Goto(r, "persist")

(* Finish, of a call that is ending or was ended by the far end.           *)
Finished(c) == Holds(c, {"ending", "ended"}) /\ ctl' = Idle

(* MarkCellularReady: the modem carried the dial or the answer out.        *)
Ready(r) ==
    /\ pc[r] = "ready"
    /\ \/ Move(Call(r), {"dialing", "answering"}, "up", r) /\ Keep(r, "open", "ok")
       \/ /\ ~Holds(Call(r), {"dialing", "answering"}) /\ UNCHANGED <<ctl, snap>>
          /\ \/ Op(r) = "dial" /\ Goto(r, "release") /\ UNCHANGED code
             \/ Op(r) = "answer" /\ Reply(r, "error")
    /\ UNCHANGED <<req, gone, line, events, reader, rolled, callVars, keyVars, bounds>>

-----------------------------------------------------------------------------
(* POST /calls: dial.                                                      *)

(* Mutant: the refusal is written, and not recorded for the key.           *)
PlaceSilently(r) ==
    /\ pc[r] = "place" /\ Begin(r) /\ ctl.call # NoCall /\ Goto(r, "done")
    /\ UNCHANGED <<req, snap, code, gone, lineVars, callVars, key, bounds>>

(* CallControl.Dial, refused while any call is held.                       *)
Place(r) ==
    /\ pc[r] = "place" /\ Begin(r)
    /\ \/ /\ ctl.call = NoCall /\ Goto(r, "dial") /\ UNCHANGED code
          /\ ctl' = [call |-> Call(r), phase |-> "dialing", saved |-> "idle", by |-> r]
       \/ ctl.call # NoCall /\ Reply(r, "error") /\ UNCHANGED ctl
    /\ UNCHANGED <<req, snap, gone, line, events, reader, rolled, callVars, key, bounds>>

(* CallModem.Dial: done, refused because of an active call, or failed.     *)
Dial(r) ==
    /\ pc[r] = "dial"
    /\ \/ line = NoCall /\ line' = Call(r) /\ Goto(r, "ready")
       \/ line # NoCall /\ Goto(r, "clean") /\ UNCHANGED line
       \/ Goto(r, "fail") /\ UNCHANGED line
    /\ UNCHANGED <<req, snap, code, gone, ctl, events, reader, rolled, callVars, keyVars, bounds>>

(* A refused dial hangs up whatever is on the line; one whose call was     *)
(* ended meanwhile hangs up what it dialled.                               *)
Clean(r) ==
    /\ \/ pc[r] = "clean" /\ Goto(r, "fail")
       \/ pc[r] = "release" /\ Goto(r, "forget")
    /\ HangUpWorks \/ HangUpFails
    /\ UNCHANGED <<req, snap, code, gone, ctl, reader, rolled, callVars, keyVars, bounds>>

(* After a failed dial the controller's call is hung up ...                *)
Abort(r) ==
    /\ pc[r] = "fail" /\ Goto(r, "drop")
    /\ \/ Move(Call(r), Live, "ending", r)
       \/ ~Holds(Call(r), Live) /\ UNCHANGED ctl
    /\ UNCHANGED <<req, snap, code, gone, line, events, reader, rolled, callVars, keyVars, bounds>>

(* Mutant: ... and is left to end by itself.                               *)
DropNothing(r) ==
    /\ pc[r] = "drop" /\ Keep(r, "open", "error")
    /\ UNCHANGED <<req, gone, lineVars, callVars, keyVars, bounds>>

(* ... and finished.                                                       *)
Drop(r) ==
    /\ pc[r] = "drop"
    /\ \/ Finished(Call(r)) /\ Keep(r, "ended", "error")
       \/ ~Holds(Call(r), {"ending", "ended"}) /\ UNCHANGED ctl /\ Keep(r, "open", "error")
    /\ UNCHANGED <<req, gone, line, events, reader, rolled, callVars, keyVars, bounds>>

(* A dial whose call was ended finishes it as well, unless the failed      *)
(* update has overwritten the id it would finish.                          *)
Forget(r) ==
    /\ pc[r] = "forget"
    /\ \/ Finished(Call(r)) /\ Keep(r, "ended", "error")
       \/ Reply(r, "error") /\ UNCHANGED <<ctl, snap>>
    /\ UNCHANGED <<req, gone, line, events, reader, rolled, callVars, keyVars, bounds>>

-----------------------------------------------------------------------------
(* POST /calls/{id}/answer, hangup, reject, dtmf: callAction.              *)

(* Mutant: the phase is not looked at.                                     *)
ControlAnyPhase(r) ==
    /\ pc[r] = "control" /\ Begin(r) /\ ctl.call = Call(r) /\ Goto(r, "modem")
    /\ Move(Call(r), {ctl.phase}, IF Op(r) = "answer" THEN "answering" ELSE "ending", r)
    /\ UNCHANGED <<req, snap, code, gone, line, events, reader, rolled, callVars, key, bounds>>

(* CallControl.Answer or Hangup; a refusal still comes past the rollback.  *)
Control(r) ==
    /\ pc[r] = "control" /\ Begin(r)
    /\ LET From == IF Op(r) = "answer" THEN {"incoming"} ELSE Live
           To == IF Op(r) = "answer" THEN "answering" ELSE "ending"
       IN  \/ Move(Call(r), From, To, r) /\ Goto(r, "modem")
           \/ ~Holds(Call(r), From) /\ UNCHANGED ctl /\ Goto(r, "rollback")
    /\ UNCHANGED <<req, snap, code, gone, line, events, reader, rolled, callVars, key, bounds>>

(* CallModem.Answer or Hangup; to find no call to hang up is success.      *)
Modem(r) ==
    /\ pc[r] = "modem"
    /\ \/ Op(r) = "answer" /\ line # NoCall /\ Goto(r, "ready") /\ HangUpFails
       \/ Op(r) = "hangup" /\ HangUpWorks /\ Goto(r, "finish")
       \/ Op(r) = "hangup" /\ line = NoCall /\ Goto(r, "finish") /\ HangUpFails
       \/ (line # NoCall \/ Op(r) = "answer") /\ Goto(r, "rollback") /\ HangUpFails
    /\ UNCHANGED <<req, snap, code, gone, ctl, reader, rolled, callVars, keyVars, bounds>>

(* Mutant: a call the event reader finished first is saved as ending.      *)
FinishStale(r) ==
    /\ pc[r] = "finish" /\ ctl.call # Call(r) /\ UNCHANGED ctl /\ Keep(r, "open", "ok")
    /\ UNCHANGED <<req, gone, line, events, reader, rolled, callVars, keyVars, bounds>>

(* Finish after a hang-up; nothing is saved if the event reader was first. *)
Finish(r) ==
    /\ pc[r] = "finish"
    /\ \/ Finished(Call(r)) /\ Keep(r, "ended", "ok")
       \/ ctl.call # Call(r) /\ Goto(r, "close") /\ UNCHANGED <<ctl, snap, code>>
       \/ Holds(Call(r), Live) /\ Reply(r, "error") /\ UNCHANGED <<ctl, snap>>
    /\ UNCHANGED <<req, gone, line, events, reader, rolled, callVars, keyVars, bounds>>

(* closeWebRTC at the end of a hang-up.                                    *)
Close(r) ==
    /\ pc[r] = "close" /\ Reply(r, "ok")
    /\ media' = media \ {Call(r)}
    /\ UNCHANGED <<req, snap, gone, lineVars, row, peer, rec, late, keyVars, bounds>>

(* Rollback undoes the request's own transition, if none followed it.      *)
Rollback(r) ==
    /\ pc[r] = "rollback" /\ Reply(r, "error")
    /\ \/ /\ ctl.by = r
          /\ ctl' = [ctl EXCEPT !.phase = ctl.saved, !.by = "nobody"]
          /\ rolled' = IF Op(r) = "hangup" THEN rolled \union {Call(r)} ELSE rolled
       \/ ctl.by # r /\ UNCHANGED <<ctl, rolled>>
    /\ UNCHANGED <<req, snap, gone, line, events, reader, callVars, keyVars, bounds>>

(* DTMF, which changes nothing kept here.                                  *)
Tone(r) ==
    /\ pc[r] = "tone" /\ Begin(r)
    /\ \/ Holds(Call(r), Live) /\ line # NoCall /\ Reply(r, "ok")
       \/ Reply(r, "error")
    /\ UNCHANGED <<req, snap, gone, lineVars, callVars, key, bounds>>

-----------------------------------------------------------------------------
(* DELETE /calls/{id}, WebRTC offers and recordings.                       *)

(* GetCall: an offer looks before it claims its key, the others after.     *)
Find(r) ==
    /\ pc[r] = "find"
    /\ LET c == Call(r)
       IN  \/ Op(r) = "offer" /\ row[c] # "none" /\ Works(r) /\ Goto(r, "claim") /\ UNCHANGED code
           \/ Op(r) = "offer" /\ row[c] = "none" /\ Works(r) /\ Goto(r, "done") /\ UNCHANGED code
           \/ Op(r) \in {"offer", "delete"} /\ Fails(r) /\ Goto(r, "done") /\ UNCHANGED code
           \/ Op(r) = "delete" /\ row[c] = "ended" /\ Works(r) /\ Goto(r, "erase") /\ UNCHANGED code
           \/ Op(r) = "delete" /\ row[c] # "ended" /\ Works(r) /\ Reply(r, "error")
           \/ Op(r) = "record" /\ row[c] = "open" /\ Works(r) /\ Goto(r, "start") /\ UNCHANGED code
           \/ Op(r) = "unrecord" /\ row[c] # "none" /\ Works(r) /\ Goto(r, "stop") /\ UNCHANGED code
           \/ Op(r) \in {"record", "unrecord"} /\ (Works(r) \/ Fails(r)) /\ Reply(r, "error")
    /\ IF Op(r) = "offer" THEN UNCHANGED begun ELSE Begin(r)
    /\ UNCHANGED <<req, snap, gone, lineVars, callVars, key, rung, medias>>

(* DeleteCall; an error of the database leaves the key without an answer.  *)
Erase(r) ==
    /\ pc[r] = "erase"
    /\ \/ /\ Works(r) /\ row[Call(r)] # "none" /\ Reply(r, "ok")
          /\ row' = [row EXCEPT ![Call(r)] = "none"]
       \/ Works(r) /\ row[Call(r)] = "none" /\ Reply(r, "error") /\ UNCHANGED row
       \/ Fails(r) /\ Goto(r, "done") /\ UNCHANGED <<code, row>>
    /\ UNCHANGED <<req, snap, gone, lineVars, media, peer, rec, late, keyVars, rung, medias>>

(* What a call gets when it is no longer up.                               *)
Late(c, up) == late' = IF up THEN late ELSE late \union {c}

(* The session and its bridge, made under one lock unless the call has     *)
(* them; without a TURN server the key is left without an answer.          *)
Session(r) ==
    /\ pc[r] = "session" /\ Begin(r)
    /\ LET c == Call(r)
       IN  \/ /\ media' = media \union {c}
              /\ Late(c, c \in media \/ Holds(c, Live))
              /\ Reply(r, "ok") \/ Reply(r, "error")
           \/ c \notin media /\ Goto(r, "done") /\ UNCHANGED <<media, late, code>>
           \/ c \notin media /\ Reply(r, "error") /\ UNCHANGED <<media, late>>
    /\ UNCHANGED <<req, snap, gone, lineVars, row, peer, rec, key, bounds>>

(* Recordings.Start, of a call that had been found active, and Stop.       *)
Record(r) ==
    /\ \/ pc[r] = "start" /\ rec' = rec \union {Call(r)}
          /\ Late(Call(r), row[Call(r)] = "open") /\ Reply(r, "ok")
       \/ /\ pc[r] = "stop" /\ rec' = rec \ {Call(r)} /\ UNCHANGED late
          /\ Reply(r, "ok") \/ Reply(r, "error")
       \/ pc[r] \in {"start", "stop"} /\ UNCHANGED <<rec, late>> /\ Reply(r, "error")
    /\ UNCHANGED <<req, snap, gone, lineVars, row, media, peer, keyVars, bounds>>

-----------------------------------------------------------------------------
(* The modem, and HandleModemEvent.                                        *)

(* A call comes in.                                                        *)
Ring(c) ==
    /\ line = NoCall /\ c \notin rung /\ Cardinality(rung) < MaxRings
    /\ \A r \in Requests : Op(r) = "dial" => Call(r) # c
    /\ line' = c /\ Publish("incoming", c) /\ rung' = rung \union {c}
    /\ UNCHANGED <<workVars, ctl, reader, rolled, callVars, keyVars, medias, faults>>

(* The far end hangs up.                                                   *)
FarEnd ==
    /\ line # NoCall /\ line' = NoCall /\ Publish("ended", line)
    /\ UNCHANGED <<workVars, ctl, reader, rolled, callVars, keyVars, bounds>>

Step(at, c, s) == reader' = [at |-> at, call |-> c, snap |-> s]
Rest == Step("idle", NoCall, "open")

(* Incoming or RemoteEnded, unless the controller refuses it.              *)
Take ==
    /\ reader.at = "idle" /\ events # <<>> /\ events' = Tail(events)
    /\ LET c == Head(events).call
           incoming == Head(events).kind = "incoming" /\ ctl.call = NoCall
           ended == Head(events).kind = "ended" /\ Holds(c, Live \union {"ending"})
       IN  \/ /\ incoming /\ Step("rung", c, "open")
              /\ ctl' = [call |-> c, phase |-> "incoming", saved |-> "idle", by |-> "nobody"]
           \/ /\ ended /\ \E s \in {"open", "ended"} : Step("ended", c, s)
              /\ ctl' = [call |-> c, phase |-> "ended", saved |-> "idle", by |-> "nobody"]
           \/ ~incoming /\ ~ended /\ UNCHANGED <<ctl, reader>>
    /\ UNCHANGED <<workVars, line, rolled, callVars, keyVars, bounds>>

(* persistCall of what the controller said.                                *)
ReaderSave ==
    /\ reader.at \in {"rung", "ended", "gone"}
    /\ \/ DbWorks /\ Save(reader.call, reader.snap)
       \/ DbBreaks /\ UNCHANGED <<row, rec>>
    /\ \/ reader.at = "rung" /\ Rest
       \/ reader.at = "ended" /\ Step("finish", reader.call, "ended")
       \/ reader.at = "gone" /\ Step("close", reader.call, "ended")
    /\ UNCHANGED <<workVars, ctl, line, events, rolled, media, peer, late, keyVars, rung, medias>>

(* Finish, unless a handler was first; then the session is not its own.    *)
ReaderFinish ==
    /\ reader.at = "finish"
    /\ \/ Finished(reader.call) /\ Step("gone", reader.call, "ended")
       \/ ~Holds(reader.call, {"ending", "ended"}) /\ UNCHANGED ctl /\ Rest
    /\ UNCHANGED <<workVars, line, events, rolled, callVars, keyVars, bounds>>

(* Mutant: the session of a call that ends by itself is left open.         *)
ReaderLeavesOpen ==
    /\ reader.at = "close" /\ Rest
    /\ UNCHANGED <<workVars, ctl, line, events, rolled, callVars, keyVars, bounds>>

ReaderClose ==
    /\ reader.at = "close" /\ Rest
    /\ media' = media \ {reader.call}
    /\ UNCHANGED <<workVars, ctl, line, events, rolled, row, peer, rec, late, keyVars, bounds>>

-----------------------------------------------------------------------------
(* The connection-state callback of a session.                             *)

(* MarkMediaReady when it connects, MarkRecovering when it is lost.        *)
Connection(c) ==
    /\ c \in media /\ peer[c] = "quiet" /\ medias < MaxMedia /\ medias' = medias + 1
    /\ \E p \in {"ready", "lost", "close"} :
          /\ IF p = "close" THEN ~Holds(c, Live) ELSE Holds(c, Live)
          /\ peer' = [peer EXCEPT ![c] = p]
    /\ UNCHANGED <<workVars, lineVars, row, media, rec, late, keyVars, rung, faults>>

(* Its snapshot is saved; a lost session is closed.                        *)
PeerSave(c) ==
    /\ peer[c] \in {"ready", "lost"}
    /\ \/ DbWorks /\ Save(c, "open")
       \/ DbBreaks /\ UNCHANGED <<row, rec>>
    /\ peer' = [peer EXCEPT ![c] = IF @ = "lost" THEN "close" ELSE "quiet"]
    /\ UNCHANGED <<workVars, lineVars, media, late, keyVars, rung, medias>>

PeerClose(c) ==
    /\ peer[c] = "close" /\ peer' = [peer EXCEPT ![c] = "quiet"]
    /\ media' = media \ {c}
    /\ UNCHANGED <<workVars, lineVars, row, rec, late, keyVars, bounds>>

-----------------------------------------------------------------------------
Work(r) ==
    \/ Claim(r) \/ Answer(r) \/ Persist(r) \/ Ready(r)
    \/ Place(r) \/ Dial(r) \/ Clean(r) \/ Abort(r) \/ Drop(r) \/ Forget(r)
    \/ Control(r) \/ Modem(r) \/ Finish(r) \/ Close(r) \/ Rollback(r) \/ Tone(r)
    \/ Find(r) \/ Erase(r) \/ Session(r) \/ Record(r)

Reader == Take \/ ReaderSave \/ ReaderFinish \/ ReaderClose

HttpNext ==
    \/ \E r \in Requests : Work(r) \/ Leave(r)
    \/ Reader \/ FarEnd
    \/ \E c \in Calls : Ring(c) \/ Connection(c) \/ PeerSave(c) \/ PeerClose(c)

HttpSpec == HttpInit /\ [][HttpNext]_httpVars

(* A handler calls the modem on the context of its request, which has no   *)
(* deadline: as long as its client stays it may wait there for ever.       *)
AtModem(r) == pc[r] \in {"dial", "clean", "release", "modem", "tone"} /\ r \notin gone

(* Every other step of a handler ends: the database is local, the lock of  *)
(* the controller is held for a moment, and a client's leaving ends a wait *)
(* for the modem.                                                          *)
Proceed(r) == ~AtModem(r) /\ Work(r)
HttpFairSpec == HttpSpec /\ \A r \in Requests : WF_httpVars(Proceed(r))

-----------------------------------------------------------------------------
(* Properties.                                                             *)

(* The controller holds no call that the line has lost, unless a dial is   *)
(* at work on it or its end is still to be handled: otherwise every later  *)
(* dial is refused as busy.  A hang-up rolled back is the exception: the   *)
(* dial it interfered with could not be finished.                          *)
NoGhostCall == LET c == ctl.call IN c # NoCall /\ line # c /\ c \notin rolled =>
    \/ \E r \in Requests : Call(r) = c /\ pc[r] \in {"dial", "clean", "fail", "drop"}
    \/ \E i \in DOMAIN events : events[i] = [kind |-> "ended", call |-> c]
    \/ reader.call = c /\ reader.at \in {"ended", "finish"}

(* A hang-up never saves an open call over the row of an ended one,        *)
(* however it races with the modem's own report of the end.                *)
HangupKeepsEnd == [][\A r \in Requests :
    Op(r) = "hangup" /\ pc[r] = "persist" /\ pc'[r] # "persist" /\ row[Call(r)] = "ended"
        => row'[Call(r)] = "ended"]_httpVars

(* A call that is over has no WebRTC session or recording, but for one     *)
(* that began too late, and a hang-up that could not save the end.         *)
NothingOutlivesCall == \A c \in Calls \ late :
    /\ c \in rec => row[c] # "ended"
    /\ c \in media /\ ctl.call # c =>
          \/ reader.call = c /\ reader.at \in {"gone", "close"}
          \/ \E r \in Requests : Op(r) = "hangup" /\ Call(r) = c
                                 /\ (pc[r] \in {"persist", "close"} \/ r \in gone)
          \/ faults > 0

(* An Idempotency-Key keeps the promise of Once: a call is dialled,        *)
(* answered, hung up or deleted at most once for a key.                    *)
CallsOnce == INSTANCE Once WITH
    Answers <- {"ok", "error"}, NoAnswer <- "none",
    claimed <- {k \in Keys : key[k] # "none"},
    answer <- [k \in Keys |-> IF key[k] = "pending" THEN "none" ELSE key[k]]

CallKeysAreOnce == CallsOnce!OnceSpec

(* The goroutine of r has taken up its key and not yet returned.           *)
Taken(r) == pc[r] \notin {"claim", "done"} /\ ~(pc[r] = "find" /\ Op(r) = "offer")

(* No way through a handler leaves its key claimed behind it: as long as   *)
(* the key has no answer the goroutine that took it up is on its way to    *)
(* one, or the database failed, or the client left.  Of another key every  *)
(* repetition would be told "in progress".  Keys of offers are left out:   *)
(* webRTCOffer records no answer when the TURN server refuses.             *)
KeyHasWorker == \A k \in Keys : key[k] = "pending" =>
    \/ faults > 0
    \/ \E r \in Requests : req[r].key = k /\ (Taken(r) \/ r \in gone \/ Op(r) = "offer")

(* In the end no claimed key is without its answer, unless the database    *)
(* failed or the client left, whose context records the answer, or its     *)
(* handler waits for a modem that stays silent: the code sets no deadline  *)
(* there.  It cannot wait for anything else, and what refuses an operation *)
(* on the way to the modem or after it is recorded like a success.  Keys   *)
(* of offers are left out as above.                                        *)
CallKeyAnswered == <>[](\A k \in Keys : key[k] = "pending" =>
    \/ faults > 0
    \/ \E r \in Requests : req[r].key = k /\ (AtModem(r) \/ r \in gone \/ Op(r) = "offer"))
=============================================================================
