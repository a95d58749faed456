# CellBridge: TLA+ models, checks and proofs

CellBridge turns a Mac with a 4G module into a voice and SMS gateway: phones
register with it over SIP, calls go out and come in over the module's single
cellular line, and messages are relayed both ways. This directory holds TLA+
models of its Go gateway (`gateway-patched/internal`), configurations that TLC
checks, and theorems that TLAPS proves.

## The system

| Part | State it keeps | Operations | Modelled in |
|---|---|---|---|
| AT port, `modem/at/parser.go` `Client` and the SMS commands of `adapter.go` | port lock, reads that outlived their exchange; on the module: message mode, prompt, unread answers | `Exchange`, `SendPDU`, `SendTextSMS`, `ListSMS`, `DeleteSMS`, `Run` | `AtPort` |
| Call line, `at.Adapter` and `modem/call_adapter.go` | `active`, `inboundActive`, `incomingSent`, caller number; `active`/`logical`/`last*` mapping; event channel | `Dial`, `Answer`, `Hangup`, `ReapGhosts`, `WaitActive`, `HandleURC`, `emitIncomingDelayed`, `forwardEvents` | `CallLine` |
| Inbound calls, `sip/server.go`, `sip/session.go` | session map, session state, invitations, teardown plan | `ringClients`, `inviteReregisteredContacts`, `acceptInbound`, `handleResponse`, `handleAckBye`, `endCallByModem`, `sendDialogTeardown` | `SipInbound` |
| Outbound calls, same files | the same session map, several `Call-ID`s | `handleInvite`, `Dial`, `AwaitBridge`, `reapStaleSessions`, `ghostReaper` | `SipOutbound` |
| SMS inbox, `sms/engine.go` | segments and messages in the database, slots of the module | `Run`, `poll`, `Ingest` | `SmsStore` (abstract), `SmsInbox` |
| SMS outbox, `sms/engine.go`, `sendMessage` in `api/server.go`, `handleMessageRequest` in `sip/server.go` | message rows, idempotency records, last send per device, known Call-IDs | `Send`, `POST /messages`, SIP MESSAGE, `DELETE /messages/{id}` | `Once` (abstract), `SmsOutbox` |
| Calls over HTTP, `api/server.go` | call controller, call rows, idempotency records, WebRTC sessions, recordings | `dial`, `callAction`, `deleteCall`, `webRTCOffer`, `callRecordingAction`, `HandleModemEvent` | `Once` (abstract), `HttpCalls` |
| Event fan-out, AT to PTY bridge, route re-arming | one channel per consumer; USB handle; position in a log | `FanOut`; two pumps; poll | not modelled |
| Push, process wiring, voice routing, scripts, console | see `PROJECT.json` | | not modelled |

How they interact: `at.Client` reads the serial port and hands unsolicited lines
to `at.Adapter.HandleURC`; the adapter's events pass through
`ActiveCallAdapter.forwardEvents` and `FanOut` to the HTTP API and to the SIP
server's `inboundLoop`. In the other direction SIP sessions and HTTP handlers
call the same `ActiveCallAdapter`, and the SMS engine shares the port. Shared
state is protected by small mutex sections and by a `sync.Map` of sessions; almost
every handler starts a goroutine, reads shared state, does I/O of up to seconds
and acts on what it read.

What is hard here, and what makes each part correct:

- *AT port.* Answers carry no identifier: a late answer ends the wrong exchange.
  A submission must run in its own message mode, to its own prompt, and report
  the modem's verdict on itself; the port must be given back whatever the modem
  does.
- *Call line.* Two layers remember the one call, and four kinds of goroutine
  change them. Nothing of a finished call may silence or mislabel the next one.
- *Inbound calls.* Several goroutines race to ring, answer and end one session.
  One pickup, no phone rung twice, no ringing for ever, no leg left behind, no
  phone left ringing or in a dead dialog.
- *Outbound calls.* Retransmissions, stale sessions and the ghost reaper race a
  dial that takes seconds. One dial per call, and no live call hung up for another.
- *SMS.* A text that reaches the module is stored once and not lost, across
  restarts; a submission is not repeated when its outcome is unknown, and the row of
  a text says what became of it.
- *HTTP calls.* A key runs its operation once and is answered. Handlers, the modem's
  events and WebRTC callbacks all move one controller: it must not keep a call the
  line has lost, an ended row must not open again, nothing of a call may outlive it.

`PROJECT.json` lists every hazard at its line, those no property covers yet included.

## AtPort

A worker is a goroutine running one job, a sequence of exchanges; the modem is an
external component with its message mode, its `>` prompt and the answers not yet
read. `Acquire`/`GiveUpWaiting` are `acquireIO`, `Write` and `Read` one stage of an
exchange, `Timeout` the end of its context, `Advance` the way from one stage of a
submission to the next, `IdleRead` the reader of `Run`, and `StrayRead` the read a
goroutine still makes after `readWithContext` returned. A
write may fail; the modem answers, refuses, or stays silent, in any order with
everything else. Unsolicited lines are `CallLine`'s.

| Run | Question | Result |
|---|---|---|
| `atport_port` | Two workers, every job. `SubmitsInOwnMode`: a submission of a worker that found the port quiet is written in its own mode and to its own prompt. `SuccessIsOwnVerdict`, `ErrorMeansNotSent`: what it returns is the modem's verdict on it. `PortReleased`: whoever holds the port on a context with a deadline gives it back. | holds |

`parser.go:163` calls a submission atomic with respect to other workers' commands, which
it is only on a quiet port: otherwise late answers to others' commands can end its
stages, and the properties name the condition. "Quiet" means that nothing of an earlier exchange is under way when the lock is
taken: no unread answer, no prompt, no stray read. Two workers suffice for what can
go wrong, an owner and one whose late answer or read interferes; `MaxBacklog = 1`
lets a call begin with one piece of earlier traffic unread, and `MaxStray = 1` lets one
read outlive its exchange.

`Timed` names the jobs whose context has a deadline: the inbox listing and the
submissions (`sms/engine.go`, `api/server.go:479`). Temperature readings
(`main.go:384`) and the HTTP call handlers (`api/server.go:800`, `928`, `934`, `949`)
bring a context that ends with the gateway or with the client at the earliest. Of such a
command the model says that the modem may never answer and nobody end the wait: it then
keeps the port, although the comment at `sms/engine.go:199` wants every exchange bounded.
`PortReleased` is therefore not claimed for it.

## CallLine

`cell` is the line at the module; `urc` the lines it has written and nobody has
read; `todo` the lines of one read in a goroutine's hands; `hnd` the line being
handled with the marker its first section saw. Each mutex section of `HandleURC`
is an action (`Handle`, `OnClip`, `OnRingOpen`, `OnRing`, `OnEnd`), as is each of
`Dial` (`DialCheck`, `DialATD`, `DialMark`, `DialTrack`), `Answer`, `Hangup` and
`ReapGhosts`. An exchange reads the lines that precede its answer, so any user may
be the one that handles a RING. `EmitIncoming` is the delayed goroutine of
`emitIncomingDelayed`. `ReadIdle` takes lines off the port and lets the port go; it
handles them in sections of its own later (`parser.go:278`, `284`), beside or behind
those of an exchange that had the port since. `overtook` is history: that has happened,
and the flags were not cleared since. The logical id an HTTP dial sets is read by no step
and left out.

| Run | Question | Result |
|---|---|---|
| `callline_flags` | Every operation beside the idle reader, failing exchanges, an event channel of one. `NothingLeftOfLastCall`: when the line is idle and all is handled, neither the flag that silences further RINGs nor a caller's number of the last call is left, unless an exchange overtook the reader. `EndedIsOver`: a call whose end was announced is never again the marked one, in any interleaving. | holds |

`unheard` is history too: a call that a failed hangup or a rung of the reaper's ladder took
down ended without a line, and `NothingLeftOfLastCall` cannot speak of it until the
module's next word. The two exceptions are what the code does: without the condition on
`overtook` TLC has the reader handle a RING behind the END of its call within ten steps,
which leaves flag and marker behind, and a RING handled between the sections of `Dial` is
overwritten. So neither "the flag is set only with a call" nor "one call at a time" is
claimed. `MaxCall`
bounds the call ids (two calls: the last and the next), `MaxUrc` the unread lines (two: a RING and what follows it),
`EventCap` is the channel's capacity, 16 in the code and small here so that it fills. One
user with every operation meets the reader in every section; the proofs are for any
number. A reap resets
`ActiveCallAdapter` and leaves `at.Adapter`'s marker, so the next dial does not start
clean as `call_adapter.go:113` says; `ReapReset` is written as the code is.

## SipInbound

One inbound call. `loop` holds the two goroutines that invite, `tear` the two that
tear down (the ring timer and `endCallByModem`), `pickup`, `reject` and `bye` the
handling of each contact's 200 OK, refusal and BYE. `inMap`, `state`, `ctxDone`,
`invites` and `plan` are the session. A step is one access to the session or the
map, one datagram, or one call of the modem; `Hangup` is one step, and so is the
choice of what a teardown sends. `rung` and `atas` are history. Datagrams to a phone may be lost; a phone answers, declines or hangs up
when it likes; contacts come and go from the registrar.

| Run | Question | Result |
|---|---|---|
| `inbound_pickup` | Two contacts, both may answer at once, faults. `OnePickup`: one ATA. `RungOnce`: no contact is invited twice and no more than the limit. `NeverAbandoned`: the leg of a session that left the map has a goroutine about to hang it up, or an ATH for it was lost; a call that rings is being rung out or has its timer. | holds |
| `inbound_released` | Room for one invitation, one registration during the call. `RingingEnds`, `LegReleased`: an unanswered call ends, and a session that left the map releases its leg. | holds |
| `inbound_timeout_doc` | The timeout bounds ringing. | violated: it ends answered calls |

`MaxInvites` is `maxInviteAttempts`, 8 in the code; with two contacts, 1 makes the
sweep meet the limit in the liveness run and 2 lets both phones ring; `RungOnce` is proved for every
limit. Two contacts are the least with
which invitations and answers race; a third adds no pair of goroutines the two do not
have (the answers are per contact, and each pair of them is already there).
`MaxMoves` bounds registrations during the call. `Faults` lets ATA, ATH and the
bridge fail; the liveness run has none, because `Hangup` ignores a failed ATH and
the leg is then the ghost reaper's.

## SipOutbound

Any number of INVITEs, each handled in a goroutine of its own: `hd[h]` is where copy
`h` stands, `CallOf(h)` its Call-ID, and `h` also names the session it may create and
the leg it may dial. `sessions`, `state`, `ctxDone` are the map and its sessions;
`cell` is the line, `marker` and `tracked` what `at.Adapter` and `ActiveCallAdapter`
remember of it, `raw` and `ended` the events before and after `forwardEvents`
(`Forward`), of which one may be late and one without an id, `None`, when
`at.Adapter` had no call marked. `ghost` is the state the module lists of a context that
resisted the ladder and was dialled over, which `adapter.go:433` says it may be. `Invite` to `Delete` are
`handleInvite` with `reapStaleSessions`, `claimSession`, `Dial` and `AwaitBridge`;
`HandleBye`/`ByeDelete`, `FindSession`/`TearDelete`/`TearTell`/`TearHangup` and
`ReapLook`/`ReapList`/`ReapClear`/`ReapRecheck` are `handleAckBye`, `endCallByModem`
and a pass of the reaper. ATD, ATH and the ladder's commands may fail, and may have
had their effect although they failed; the bridge may fail; the network answers and
ends a leg when it likes. `concluded` is history.

| Run | Question | Result |
|---|---|---|
| `outbound_copies` | Two copies of one INVITE in every order with BYE, events and the reaper. `LineUnderControl`: while the leg of a call is up it stays marked in `at.Adapter`, and `ActiveCallAdapter`, through which BYE takes it down, forgets it in two named steps only. `ClientIsTold`: a claimed call is in the map with a handler that dials, waits or bridges for it, or its client was told. `InviteConcluded`: of a claimed call the client hears, unless it left or was reaped. `OrphanReaped`: a leg no session owns is taken down, or the whole ladder was tried on it. | holds |
| `outbound_answered_doc` | The wait is for the call's own leg to be answered. | violated: the wait of a cancelled call takes the next call's leg |
| `outbound_reaper_doc` | The reaper never takes down a call a client is on (`server.go:170`). | violated: a pass that looked before the session existed does |

The two steps of `LineUnderControl` are in the code. `ReapRecheck`: a pass that began
before the call was dialled resets `ActiveCallAdapter` when it ends
(`call_adapter.go:123`), also after its last rung. `Forward(None)`: the end of a call
`at.Adapter` never marked has no id, `lastPhysical` is empty after a dial, and the two
are equal (`call_adapter.go:176`). TLC finds each as soon as it is not excepted. A leg
"resists" for `OrphanReaped` when it had every command of a pass, from the first rung
(`under`), and is still there.

Two copies of one call make every pair of goroutines meet: one dials while the other
reaps, claims or gives up, and a session that lingers is the other copy's. A
retransmission that passed the guard before the first copy claimed the Call-ID reaps the
first copy's session and dials again, though `server.go:890` says never a second dial: the
model has it, and the properties hold all the same. The
counterexample of `outbound_answered_doc` needs two calls; `ControlKept` below is
for any number of both, and of overlapping passes of the reaper (`Passes`, one in the
runs). `Rungs` is 4 in the code, 2 here: one rung is followed by another, the last
by the end. A client sends one BYE or CANCEL per call. `Hangup` is one step, as are ATD
with the two markers and the reaper's last list with what it forgets: what could come
between would have to finish a dial of its own in that time. Registration (403) and media
are left out. A line that never answers AT+CLCC again is, too; `OrphanReaped` is claimed
for a port that answers.

## SmsStore and SmsInbox

`SmsStore` says what the inbox promises of a text: a part is deleted from the module
only when it is on record, a text is stored once and when complete, and announced after
that, once; a record that expires (retention) suspends the second for its text.
`SmsInbox` is the goroutine of `Run`: `Poll` prunes and lists, `Look` to `Link` are
`Ingest`, one database call each, `Announce` and `Delete` the rest of the loop, `Rest` the
wait for the ticker. Every call may fail; `Restart` stops the process between any two.
`cut` and `lapsed` are history: the texts whose `Ingest` ended after it had recorded a
segment, and those of which retention dropped a pending segment.

| Run | Question | Result |
|---|---|---|
| `sms_inbox` | `KeepsPromise`: the inbox implements `SmsStore`. `LostOnlyWhenCut`: a text that is deleted from the module and was not stored and announced had its `Ingest` cut off, or lapsed. `TextsAnnounced`: any other text that arrives is announced in the end. `SlotsFreed`: a PDU that decodes leaves its slot, unless that is slot 0. | holds |
| `sms_stop_doc` | "A crash before deletion is safe", says the comment on `Run`. | violated: a stop between segment and message loses the text |

A text of one part, one of two and a PDU that does not decode compete for two slots,
0 (which the code never deletes from) and 1, so that storage is full, parts arrive in
either order and a part waits in the database for the other. `MaxFaults = 2` lets a call
fail and the process stop, or one of the two happen twice; retention drops segments once
per text. The assembler is taken to answer "complete" when the database holds all parts:
`Ingest` feeds it every pending segment each time.

## Once and SmsOutbox

`Once` is what an Idempotency-Key promises: its operation is begun once, not after the
answer, and the answer stays. `SmsOutbox` has a goroutine for each request, over HTTP
(`ClaimKey`, `Rate`, `RecordAnswer`) or as a SIP MESSAGE (`ClaimMessage`), and `Engine.Send`
in both (`Insert`, `Submit`, `Mark`, `MarkSent`). `Submit` takes from `AtPort` that an error
means not sent, success sent, and `ErrSMSSubmissionUnknown` either. `DeleteRow` is
`DELETE /messages/{id}`, which looks at no status; `Stop` a stop of the process, which
forgets Call-IDs and rate limits and keeps rows and keys; `DbFails` a failing database call.

| Run | Question | Result |
|---|---|---|
| `sms_outbox` | `NeverSubmittedTwice`: no segment goes to the module twice for a key (of a MESSAGE: within one life of the process). `RowTellsTruth`, `AnswerTellsTruth`: rows and recorded answers agree with the module and with each other. `KeyHasWorker`: a claimed key has a goroutine on its way to an answer. `MessageHandedOver`: a MESSAGE answered 200, whose repetitions are dropped, has its text in a row or in a goroutine's hands, or `Send` returned an error for it. `KeysAreOnce`: HTTP keys implement `Once`. `KeyAnswered`: a claimed key is answered, unless stop or failure came between. | holds |

Three requests: one, its repetition and one of another key (the rate limit), or a
MESSAGE received twice beside an HTTP request. Two segments let a text fail half-way.
One database failure, one stop, one deletion. `Send` may also return before there is a row:
no modem, a text that cannot be encoded, a failed insert (`engine.go:137-156`). Of a MESSAGE
that was answered 200 before, only a line in the log is left then, although
`server.go:743` names 500 as the answer. Call-IDs older than two minutes may be
forgotten once no repetition is to come, since a client repeats a MESSAGE for 32 seconds.
The rate limit is one for all requests, as for one device.

## HttpCalls

A goroutine for each request, one for `HandleModemEvent` (`reader`) and one callback for
each session (`peer`), over the controller (`ctl`), the line, the rows, the sessions and
recordings. `Place` to `Forget` are `dial`, `Control` to `Tone` are `callAction`, `Find`/`Erase`
`deleteCall`, `Find`/`Session` `webRTCOffer`, `Find`/`Record` the recordings, `Persist`
`persistCall`, `Claim`/`Answer` the idempotency record. `Leave` is a client that hangs up:
the context of its request, on which the handlers call the database, is cancelled.

`call.Controller` is not in the repository (its package is imported and missing); it is
modelled from the names, arguments and errors of its callers: one call at a time, a
transition is refused unless the call is the current one and in a phase it may leave,
`Rollback` undoes the caller's own transition if none followed it. The line is the call
the adapter takes for active, with its events in order and none lost (`CallLine` has how
they may be reordered or dropped) and with the controller's id. Push, audit, SSE and the
answer's text are left out.

| Run | Question | Result |
|---|---|---|
| `http_calls` | `NoGhostCall`: the controller holds no call the line has lost, or later dials are refused for ever. `HangupKeepsEnd`: a hang-up that races the event reader does not open an ended row. `NothingOutlivesCall`: no session, bridge or recording is left of a call that is over. `KeyHasWorker`: a pending key has a goroutine on its way to an answer. `CallKeysAreOnce`: keys implement `Once`. `CallKeyAnswered`: in the end each claimed key has its answer, or its handler waits for the modem. | holds |

Each property names the exceptions the code has. `rolled`: the hang-up of a call being
dialled is rolled back after the dial gave up, and restores a phase of a call that is
gone. `late`: an offer or a recording found the call up and began after its end.
Of answers: a client that leaves cancels the record of its key, `webRTCOffer` records
none when the TURN server refuses, and a modem that stays silent keeps a handler for ever
(`AtModem`): `r.Context()` has no deadline. Answer, dial and media callback do save snapshots over
an ended row, and the clean-up of a refused dial hangs up whatever call is up; both are
in the model and claimed by no property.

Requests come in five mixes of two operations on one call and a repetition of the
first: dial and hangup, answer and hangup, hangup and offer, recording and deletion, tone
and end of recording; beside the dialled call another may come in. One ring
(`MaxRings`), one change of a session's connection (`MaxMedia`) and one failure or
leaving client (`MaxFaults`) are enough to put each between any two steps of the handlers;
the proofs below have no bound.

Deadlock is not checked: every model ends in states where the call is over, the
jobs are done or a bound is reached, and nothing has to happen next.

## Fairness

Weak fairness only, and only of the gateway's own goroutines: Go schedules a
runnable goroutine, a `select` on a timer fires, an exchange ends with its context.
`AtPort`'s fairness includes the ends of contexts that have a deadline (`Proceed`), not of
the others, and not the modem's answers.
`SipInbound`'s includes its timers, not phones, network, registrations or the caller.
`SipOutbound`'s is one condition for all goroutines that end by themselves: each takes
finitely many steps, so none can starve another; and one for each pass of the reaper,
which recurs for ever. `SmsInbox`'s is of its one goroutine, whose ticker recurs and whose
calls have deadlines; `SmsOutbox`'s of each request's goroutine, whose submission is
bounded by two minutes (`api/server.go:479`); `HttpCalls`'s of each request's goroutine
(`Proceed`) but for the modem commands it makes while its client stays, which have no
deadline; not of clients, network, events or callbacks. No run assumes strong fairness.

## What is proved

Every theorem holds for every value of the constants under the assumptions named
in the modules. Each proof follows the same pattern: the inductive invariant is
named, one lemma per group of actions shows that it is kept, and the theorem
combines initial state, step and consequence by temporal logic.

| Theorem | States | Argument |
|---|---|---|
| `AtPortProofs!PortTypes` | `TypeOK` | inductive as it stands |
| `OwnMode`, `OwnVerdict`, `OwnError` | `SubmitsInOwnMode`, `SuccessIsOwnVerdict`, `ErrorMeansNotSent` | `PortInv`: one holder; all traffic in the port of a quiet owner is of its own stage; what the modem accepted agrees with the stage reached. The properties alone say nothing of what is under way, so they are not inductive. |
| `CallLineProofs!LineTypes` | `LineTypeOK` | inductive as it stands |
| `EndedOver` | `EndedIsOver` | `IdInv`: the ids in hand, marked, delayed and announced are all given out, so that the fresh id a RING or a dial marks is never that of an announced end; no assumption on who handles lines when |
| `NothingLeft` | `NothingLeftOfLastCall` | `EndInv` follows the END: unread, read, being handled, or nothing is left; of a module without a call nothing is unread after an END; and unless an exchange overtook the reader one goroutine at a time has lines in hand |
| `SipInboundProofs!InboundTypes` | `InboundTypeOK` | with `InvitingKnown`: a goroutine that remembered a contact knows it |
| `PickedUpOnce` | `OnePickup` | `PickupInv`: at most one goroutine is between `beginAnswer` and ATA, none has been while the session is "init", and no ATA went out before |
| `RungAtMostOnce` | `RungOnce` | `RungInv`: an invitation under way is of a remembered contact not rung yet and of one goroutine; the remembered contacts are finite and within the limit, by the cardinality theorems |
| `NobodyAbandoned` | `NeverAbandoned` | `ReleaseInv`: a cancelled context means that an ATH was sent, by whoever deletes after it too (`handleAckBye`), and that the session is not "init"; the timer starts only when `ringClients` is done, so no teardown under way is overwritten |
| `SipOutboundProofs!OutboundTypes` | `OutboundTypeOK` | with `TornSession`, a teardown under way has a session, and `Climbing`, a command is sent only while a rung is left |
| `ControlKept` | `LineUnderControl` | `ControlInv`: whoever's leg is up is marked; marker, `tracked`, line and unforwarded events name legs that were dialled; the event of a leg is not there while the leg is on the line, so forwarding it clears no call but its own |
| `ClientsTold` | `ClientIsTold` | `ToldInv`: an entry of the map is of its Call-ID, of a claimed session, and its handler is at work or its client told; whoever is about to delete a Call-ID found or made its client told; who is torn down was claimed. Being told is for good, although four goroutines delete by Call-ID and not by session |
| `SmsInboxProofs!InboxTyped` | `InboxTypeOK` | inductive as it stands |
| `NothingElseLost` | `LostOnlyWhenCut` | what is deleted is on record, and a text on record whole is stored and announced, cut, lapsed or the one in hand |
| `InboxKeepsPromise` | `KeepsPromise` (refinement of `SmsStore`) | the slot in hand holds the PDU that was listed, a text is not stored before its segments are pending and not twice unless lapsed, `told` follows `copies` |
| `SmsOutboxProofs!OutboxTyped` | `OutboxTypeOK` | inductive as it stands |
| `SubmittedOnce`, `RowsTrue`, `AnswersTrue` | `NeverSubmittedTwice`, `RowTellsTruth`, `AnswerTellsTruth` | `OutboxInv`: one request at most has taken each key, a key pending or answered has been taken, a run has begun only then, the segments before the current one were accepted and none after it, and what was said agrees with the row |
| `KeysWorkedOn`, `MessagesHandedOver` | `KeyHasWorker`, `MessageHandedOver` | on top of `OutboxInv`: whoever took a key or a Call-ID stays at work, or has inserted a row, until the answer, and `Send` ends without a row only with an error |
| `TextsKeepOnce` | `KeysAreOnce` (refinement of `Once`) | from the same invariant |
| `HttpCallsProofs!HttpTyped` | `HttpTypeOK` | with `BaseInv`: the requests are as in `Traffic`, those whose client left are finitely many |
| `CallsKeepOnce` | `CallKeysAreOnce` (refinement of `Once`) | `KeyInv`: one request at work for a key, which is pending meanwhile and whose operation has not begun before |
| `KeysWorkedOn` | `KeyHasWorker` | inductive on top of `KeyInv` and `StageInv`, which says what a stage of a handler presupposes: every way out passes the answer, but those of an offer and of a client that left |
| `HangupKeeps` | `HangupKeepsEnd` | a hang-up only ever saves what `Finish` returned, which is an ended call |
| `NoGhosts` | `NoGhostCall` | `GhostInv`: the call of a queued incoming event is on the line or its end is queued behind it, the phase agrees with who moved the controller last, a dial about to drop its call still can, and every held call is accounted for |
| `HttpSessionProofs!NothingOutlives` | `NothingOutlivesCall` | `SessionInv`: a session left by the controller has its closer on the way. A dial that fails finishes its call and closes nothing; so until a dial is carried out its call is `Unseen` (no row, hence no offer, session or callback) or `Over` (a session it gets now is late). On top of `GhostInv`, for the calls the queued events name |

Only model-checked: the liveness properties (`PortReleased`, `RingingEnds`,
`LegReleased`, `InviteConcluded`, `OrphanReaped`, `TextsAnnounced`, `SlotsFreed`, `KeyAnswered`,
`CallKeyAnswered`), which are out of the prover's reach. Of six of them the safety half is
proved: `NeverAbandoned` (for `RingingEnds` and `LegReleased`), `ClientIsTold`, `LostOnlyWhenCut` and the two `KeyHasWorker`
say that somebody is on the way to what must happen (for `TextsAnnounced`, that nothing is lost on
the way), and TLC has left only that goroutines end, which those waiting for a modem without a deadline need not.

## Not modelled

Formatting and parsing of SIP, AT and PDU text, media, authentication, and the
contents of messages; registration beyond its effect on ringing; listings, pairing, push
and settings of the HTTP API, which are one database call each. `FanOut` relays events one by
one and drops them for a full consumer; `CallLine` has a full channel one stage before it, and
the consumers' modules take every event. The AT to PTY bridge, route re-arming, voice
routing, scripts and console are outside the gateway: threads around a USB driver, shell
scripts over a log file, and a window. Lines the parser drops after a final line are a hazard
with no model. `PROJECT.json` says of each component what is left out and why.

## Plan

1. `FanOut` with full sinks between `CallLine` and the consumers, so that `LegReleased` and
   `NoGhostCall` say what a lost event costs.
2. The composition of `CallLine` and `HttpCalls` for the logical ids of calls whose dial failed.
3. `PtyBridge` and `RouteRearm`.
