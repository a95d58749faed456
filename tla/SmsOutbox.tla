------------------------------ MODULE SmsOutbox ------------------------------
(***************************************************************************)
(* Texts sent by clients: POST /messages with an Idempotency-Key           *)
(* (api/server.go: sendMessage), SIP MESSAGE over UDP (sip/server.go:      *)
(* handleMessageRequest) and the Engine.Send both end in (sms/engine.go).  *)
(* Every request, a repetition included, has a goroutine of its own; a     *)
(* step is one call of the database or of the modem.  The process may stop *)
(* between any two; the database keeps rows and keys, the memory of        *)
(* Call-IDs is lost.                                                       *)
(*                                                                         *)
(* External: the database, and the modem as far as AtPort shows it: an     *)
(* error means the PDU was not sent, success that it was, and only         *)
(* ErrSMSSubmissionUnknown leaves it open.                                 *)
(***************************************************************************)
EXTENDS Naturals

CONSTANTS Requests,     \* requests and packets received, repetitions included
          HttpKeys,     \* Idempotency-Keys
          SipKeys,      \* Call-ID and CSeq of a MESSAGE
          Traffic,      \* which keys the requests may bear
          Segments,     \* how many PDUs a text takes
          MaxFaults,    \* bound: failures of the database
          MaxStops      \* bound: stops of the process

Keys == HttpKeys \union SipKeys

ASSUME OutboxAssumption ==
    /\ HttpKeys \intersect SipKeys = {}
    /\ Traffic \subseteq [Requests -> Keys]
    /\ Segments \in Nat \ {0}
    /\ MaxFaults \in Nat /\ MaxStops \in Nat

VARIABLES keyOf,        \* what each request bears
          pc,           \* where the goroutine of each request stands
          seg,          \* the segment it submits
          verdict,      \* what the modem said of it
          accepted,     \* how often the module took each segment of the request
          row,          \* the message row the request inserted
          key,          \* the idempotency record of each HTTP key
          seen,         \* Server.seenMessages
          recent,       \* a text was sent within the last second (lastSMSSend)
          begun,        \* history: runs of Engine.Send for each key
          faults, stops

outboxVars == <<keyOf, pc, seg, verdict, accepted, row, key, seen, recent, begun, faults, stops>>
handlerVars == <<seg, verdict, accepted, row>>
sharedVars == <<key, seen, recent, begun>>

Http(r) == keyOf[r] \in HttpKeys
Answers == {"created", "badGateway", "tooMany"}

OutboxTypeOK ==
    /\ keyOf \in [Requests -> Keys]
    /\ pc \in [Requests -> {"new", "rate", "insert", "submit", "mark", "last", "answer",
                            "done", "dead"}]
    /\ seg \in [Requests -> 1..Segments]
    /\ verdict \in [Requests -> {"ok", "unknown", "error", "created", "badGateway"}]
    /\ accepted \in [Requests -> [1..Segments -> Nat]]
    /\ row \in [Requests -> {"none", "queued", "submitted", "sent", "failed", "deleted"}]
    /\ key \in [HttpKeys -> {"none", "pending"} \union Answers]
    /\ seen \subseteq SipKeys /\ recent \in BOOLEAN
    /\ begun \in [Keys -> Nat]
    /\ faults \in 0..MaxFaults /\ stops \in 0..MaxStops

OutboxInit ==
    /\ keyOf \in Traffic
    /\ pc = [r \in Requests |-> "new"]
    /\ seg = [r \in Requests |-> 1]
    /\ verdict = [r \in Requests |-> "ok"]
    /\ accepted = [r \in Requests |-> [i \in 1..Segments |-> 0]]
    /\ row = [r \in Requests |-> "none"]
    /\ key = [k \in HttpKeys |-> "none"]
    /\ seen = {} /\ recent = FALSE
    /\ begun = [k \in Keys |-> 0]
    /\ faults = 0 /\ stops = 0

Goto(r, p) == pc' = [pc EXCEPT ![r] = p]
DbFails == faults < MaxFaults /\ faults' = faults + 1
DbWorks == UNCHANGED faults

(* claimIdempotency: the first request of a key goes on, any other gets    *)
(* the recorded answer, or a conflict while there is none.                 *)
ClaimKey(r) ==
    /\ pc[r] = "new" /\ Http(r)
    /\ \/ /\ key[keyOf[r]] = "none" /\ DbWorks
          /\ key' = [key EXCEPT ![keyOf[r]] = "pending"]
          /\ Goto(r, "rate")
       \/ key[keyOf[r]] # "none" /\ DbWorks /\ Goto(r, "done") /\ UNCHANGED key
       \/ DbFails /\ Goto(r, "done") /\ UNCHANGED key
    /\ UNCHANGED <<handlerVars, seen, recent, begun, stops>>

(* CompleteIdempotency; its error is dropped or only reported.             *)
Complete(r, a) ==
    \/ DbWorks /\ key' = [key EXCEPT ![keyOf[r]] = a]
    \/ DbFails /\ UNCHANGED key

(* Mutant: the refusal is recorded and the text sent all the same.         *)
RateAndSend(r) ==
    /\ pc[r] = "rate"
    /\ \/ recent /\ Complete(r, "tooMany") /\ Goto(r, "insert") /\ UNCHANGED recent
       \/ ~recent /\ recent' = TRUE /\ Goto(r, "insert") /\ DbWorks /\ UNCHANGED key
    /\ UNCHANGED <<handlerVars, seen, begun, stops>>

(* allowSMSSend: one text a second for each device, the refusal recorded   *)
(* as the answer of the key.                                               *)
Rate(r) ==
    /\ pc[r] = "rate"
    /\ \/ recent /\ Complete(r, "tooMany") /\ Goto(r, "done") /\ UNCHANGED recent
       \/ ~recent /\ recent' = TRUE /\ Goto(r, "insert") /\ DbWorks /\ UNCHANGED key
    /\ UNCHANGED <<handlerVars, seen, begun, stops>>

(* Mutant: a MESSAGE is held to the rate limit, once it was answered.      *)
ClaimAndDrop(r) ==
    /\ pc[r] = "new" /\ ~Http(r) /\ keyOf[r] \notin seen /\ recent
    /\ seen' = seen \union {keyOf[r]} /\ Goto(r, "done")
    /\ UNCHANGED <<handlerVars, key, recent, begun, faults, stops>>

(* LoadOrStore of Call-ID and CSeq: a repetition is answered and dropped.  *)
(* A first one clears what is older than two minutes, when the client of   *)
(* that MESSAGE repeats it no more, is answered, and goes to a goroutine.  *)
ClaimMessage(r) ==
    /\ pc[r] = "new" /\ ~Http(r)
    /\ \/ keyOf[r] \in seen /\ Goto(r, "done") /\ UNCHANGED seen
       \/ /\ keyOf[r] \notin seen
          /\ \E Old \in SUBSET {k \in seen : \A q \in Requests : keyOf[q] = k => pc[q] # "new"} :
                seen' = (seen \ Old) \union {keyOf[r]}
          /\ Goto(r, "insert")
    /\ UNCHANGED <<handlerVars, key, recent, begun, faults, stops>>

(* The end of Engine.Send: over HTTP the answer is still to be recorded.   *)
Return(r, a) ==
    /\ Goto(r, IF Http(r) THEN "answer" ELSE "done")
    /\ verdict' = [verdict EXCEPT ![r] = a]

(* Send: without a modem, or with a text that cannot be encoded, it returns *)
(* at once; else the row is inserted as queued, before anything is         *)
(* submitted.                                                              *)
Insert(r) ==
    /\ pc[r] = "insert"
    /\ begun' = [begun EXCEPT ![keyOf[r]] = @ + 1]
    /\ \/ /\ DbWorks /\ row' = [row EXCEPT ![r] = "queued"]
          /\ Goto(r, "submit") /\ UNCHANGED verdict
       \/ /\ DbFails \/ DbWorks
          /\ Return(r, "badGateway") /\ UNCHANGED row
    /\ UNCHANGED <<seg, accepted, key, seen, recent, stops>>

(* Modem.SendSMS of the current segment.                                   *)
Submit(r) ==
    /\ pc[r] = "submit"
    /\ \E v \in {"ok", "unknown", "error"} :
          /\ verdict' = [verdict EXCEPT ![r] = v]
          /\ \/ v # "error" /\ accepted' = [accepted EXCEPT ![r][seg[r]] = @ + 1]
             \/ v # "ok" /\ UNCHANGED accepted
    /\ Goto(r, "mark")
    /\ UNCHANGED <<seg, row, sharedVars, faults, stops>>

(* Mutant: no test for the last segment.                                   *)
MarkPastEnd(r) ==
    /\ pc[r] = "mark" /\ verdict[r] = "ok" /\ DbWorks
    /\ row' = [row EXCEPT ![r] = "submitted"]
    /\ seg' = [seg EXCEPT ![r] = @ + 1] /\ Goto(r, "submit")
    /\ UNCHANGED <<verdict, accepted, sharedVars, stops>>

(* Mutant: what may not have arrived is submitted again.                   *)
MarkRetrying(r) ==
    /\ pc[r] = "mark" /\ verdict[r] = "unknown" /\ DbWorks
    /\ row' = [row EXCEPT ![r] = "submitted"] /\ Goto(r, "submit")
    /\ UNCHANGED <<seg, verdict, accepted, sharedVars, stops>>

(* Mutant: a failure is recorded on the submission's own context, which    *)
(* has expired by then.                                                    *)
MarkExpired(r) ==
    /\ pc[r] = "mark" /\ verdict[r] = "error" /\ DbWorks
    /\ Return(r, "badGateway")
    /\ UNCHANGED <<seg, row, accepted, sharedVars, stops>>

(* Mutant: an unknown result is answered as a failure.                     *)
MarkPessimist(r) ==
    /\ pc[r] = "mark" /\ verdict[r] = "unknown" /\ DbWorks
    /\ row' = [row EXCEPT ![r] = "submitted"] /\ Return(r, "badGateway")
    /\ UNCHANGED <<seg, accepted, sharedVars, stops>>

(* persistStatus of what the modem said, and what Send does next.  The row *)
(* of a deleted message cannot be updated.                                 *)
Mark(r) ==
    /\ pc[r] = "mark"
    /\ \/ /\ row[r] # "deleted" /\ DbWorks
          /\ row' = [row EXCEPT ![r] = IF verdict[r] = "error" THEN "failed" ELSE "submitted"]
          /\ \/ verdict[r] = "error" /\ Return(r, "badGateway") /\ UNCHANGED seg
             \/ verdict[r] = "unknown" /\ Return(r, "created") /\ UNCHANGED seg
             \/ /\ verdict[r] = "ok" /\ seg[r] < Segments
                /\ seg' = [seg EXCEPT ![r] = @ + 1]
                /\ Goto(r, "submit") /\ UNCHANGED verdict
             \/ verdict[r] = "ok" /\ seg[r] = Segments /\ Goto(r, "last") /\ UNCHANGED <<seg, verdict>>
       \/ row[r] = "deleted" /\ DbWorks /\ Return(r, "badGateway") /\ UNCHANGED <<row, seg>>
       \/ DbFails /\ Return(r, "badGateway") /\ UNCHANGED <<row, seg>>
    /\ UNCHANGED <<accepted, sharedVars, stops>>

(* The last persistStatus: every segment was accepted.                     *)
MarkSent(r) ==
    /\ pc[r] = "last"
    /\ \/ /\ row[r] # "deleted" /\ DbWorks
          /\ row' = [row EXCEPT ![r] = "sent"] /\ Return(r, "created")
       \/ row[r] = "deleted" /\ DbWorks /\ Return(r, "badGateway") /\ UNCHANGED row
       \/ DbFails /\ Return(r, "badGateway") /\ UNCHANGED row
    /\ UNCHANGED <<seg, accepted, sharedVars, stops>>

(* Mutant: it is recorded on the context of the request, which ends when   *)
(* the client hangs up.                                                    *)
RecordCancelled(r) ==
    /\ pc[r] = "answer" /\ Goto(r, "done") /\ DbWorks
    /\ UNCHANGED <<key, handlerVars, seen, recent, begun, stops>>

(* The answer is recorded, whether or not the client still waits: the      *)
(* context of the request was replaced by one that it cannot cancel.       *)
RecordAnswer(r) ==
    /\ pc[r] = "answer"
    /\ Complete(r, verdict[r])
    /\ Goto(r, "done")
    /\ UNCHANGED <<handlerVars, seen, recent, begun, stops>>

(* DELETE /messages/{id}, which looks at no status (bound: one deletion).  *)
DeleteRow(r) ==
    /\ row[r] # "none" /\ \A q \in Requests : row[q] # "deleted"
    /\ row' = [row EXCEPT ![r] = "deleted"]
    /\ UNCHANGED <<keyOf, pc, seg, verdict, accepted, sharedVars, faults, stops>>

SecondPasses ==
    /\ recent /\ recent' = FALSE
    /\ UNCHANGED <<keyOf, pc, handlerVars, key, seen, begun, faults, stops>>

(* The process stops and starts again.                                     *)
Stop ==
    /\ stops < MaxStops /\ stops' = stops + 1
    /\ pc' = [r \in Requests |-> IF pc[r] \in {"new", "done"} THEN pc[r] ELSE "dead"]
    /\ seen' = {} /\ recent' = FALSE
    /\ UNCHANGED <<keyOf, handlerVars, key, begun, faults>>

Work(r) ==
    /\ \/ ClaimKey(r) \/ Rate(r) \/ ClaimMessage(r) \/ Insert(r) \/ Submit(r)
       \/ Mark(r) \/ MarkSent(r) \/ RecordAnswer(r)
    /\ UNCHANGED keyOf

OutboxNext == (\E r \in Requests : Work(r) \/ DeleteRow(r)) \/ SecondPasses \/ Stop

OutboxSpec == OutboxInit /\ [][OutboxNext]_outboxVars

(* SendSMS ends by its context's deadline, the database calls end.         *)
OutboxFairSpec == OutboxSpec /\ \A r \in Requests : WF_outboxVars(Work(r))

-----------------------------------------------------------------------------
(* Properties.                                                             *)

(* No segment is submitted twice for a key, however often the client       *)
(* repeats its request and whatever the modem answers.  A MESSAGE repeated *)
(* across a restart is the exception: Call-IDs are not kept on disk.       *)
NeverSubmittedTwice == \A q, r \in Requests, i \in 1..Segments :
    keyOf[q] = keyOf[r] /\ accepted[q][i] > 0 /\ accepted[r][i] > 0 /\ (Http(r) \/ stops = 0)
        => q = r /\ accepted[r][i] = 1

(* The status of a row is the truth about the module: "sent" means every   *)
(* segment was accepted, "failed" that one was not, and a row that is      *)
(* still "queued" without its goroutine met a stop or a database failure.  *)
RowTellsTruth == \A r \in Requests :
    /\ row[r] = "sent" => \A i \in 1..Segments : accepted[r][i] > 0
    /\ row[r] = "failed" => \E i \in 1..Segments : accepted[r][i] = 0
    /\ row[r] = "queued" => pc[r] \in {"submit", "mark", "dead"} \/ faults > 0

(* The recorded answer of a key agrees with the row its request left, as   *)
(* long as the database worked and nobody deleted the row.                 *)
AnswerTellsTruth == \A r \in Requests :
    Http(r) /\ row[r] \notin {"none", "deleted"} /\ faults = 0 =>
        /\ key[keyOf[r]] = "created" => row[r] \in {"submitted", "sent"}
        /\ key[keyOf[r]] \in {"badGateway", "tooMany"} => row[r] = "failed"

(* An Idempotency-Key keeps the promise of Once, across restarts too.      *)
ApiOnce == INSTANCE Once WITH
    Keys <- HttpKeys, NoAnswer <- "none",
    claimed <- {k \in HttpKeys : key[k] # "none"},
    begun <- [k \in HttpKeys |-> begun[k]],
    answer <- [k \in HttpKeys |-> IF key[k] = "pending" THEN "none" ELSE key[k]]

KeysAreOnce == ApiOnce!OnceSpec

(* No way through sendMessage and Send leaves a key claimed behind it: as  *)
(* long as it has no answer a goroutine is on its way to one, or was       *)
(* killed by a stop, or the database failed.                               *)
Working == {"rate", "insert", "submit", "mark", "last", "answer", "dead"}
KeyHasWorker == \A k \in HttpKeys : key[k] = "pending" =>
    faults > 0 \/ \E r \in Requests : keyOf[r] = k /\ pc[r] \in Working

(* A MESSAGE is answered 200 before anything keeps its text, and its       *)
(* repetitions are dropped from then on.  Its text is in a row, or in a    *)
(* goroutine's hands, or Send returned an error for it, which is all that  *)
(* is left of it then (server.go:806): none is dropped before Send.        *)
MessageHandedOver == \A k \in seen : \E r \in Requests :
    keyOf[r] = k /\ (row[r] # "none" \/ pc[r] = "insert" \/ verdict[r] = "badGateway")

(* A key that was claimed gets its answer, unless the process stops or the *)
(* database fails meanwhile: the client learns what became of its text.    *)
KeyAnswered == \A k \in HttpKeys :
    key[k] = "pending" ~> key[k] \in Answers \/ stops > 0 \/ faults > 0
=============================================================================
