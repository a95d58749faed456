------------------------------ MODULE SmsInbox ------------------------------
(***************************************************************************)
(* The reading half of sms.Engine (sms/engine.go): Run polls the module's  *)
(* message storage, Ingest records each PDU as a segment and stores a      *)
(* message when a text is complete, and Run announces the message and      *)
(* deletes the PDU from the module.  One goroutine does it all, one        *)
(* database or modem call at a time; a call may fail and the process may   *)
(* stop between any two of them.                                           *)
(*                                                                         *)
(* External: the database (segments with the hash of their PDU, messages), *)
(* MultipartAssembler, which Ingest feeds every pending segment of the     *)
(* text each time and which therefore answers "complete" exactly when the  *)
(* database holds all of them, and the module's storage.                   *)
(***************************************************************************)
EXTENDS Naturals

CONSTANTS Texts, Parts, TextOf,
          Garbled,      \* the parts DecodePDU refuses
          Slots,        \* the indexes of the module's storage, 0 among them
          Free,         \* an empty slot
          Faults,       \* the calls that may fail ("list", "known", "record",
                        \* "assemble", "store", "link", "delete"), and "stop"
          MaxFaults     \* bound: how many failures a behaviour has

ASSUME InboxAssumption ==
    /\ TextOf \in [Parts -> Texts]
    /\ Garbled \subseteq Parts
    /\ Slots \subseteq Nat
    /\ Free \notin Parts
    /\ MaxFaults \in Nat

VARIABLES arrived,      \* parts the network has delivered to the module
          box,          \* the module's storage
          todo,         \* slots of the current ListSMS answer still to be read
          cur,          \* the slot being read
          pc,           \* where poll stands with it
          segment,      \* state of each part's segment in the database
          copies, told, \* messages stored and announced, per text
          cut,          \* texts whose Ingest ended after it recorded a segment
          lapsed,       \* texts that lost a pending segment to retention
          faults        \* failures so far

inboxVars == <<arrived, box, todo, cur, pc, segment, copies, told, cut, lapsed,
               faults>>

PartsOf(m) == {p \in Parts : TextOf[p] = m}
part == box[cur]
text == TextOf[part]

Steps == {"idle", "next", "record", "assemble", "store", "link", "announce", "delete"}

InboxTypeOK ==
    /\ arrived \subseteq Parts
    /\ box \in [Slots -> Parts \union {Free}]
    /\ todo \subseteq Slots /\ cur \in Slots /\ pc \in Steps
    /\ segment \in [Parts -> {"none", "pending", "linked"}]
    /\ copies \in [Texts -> Nat] /\ told \in [Texts -> Nat]
    /\ cut \subseteq Texts /\ lapsed \subseteq Texts
    /\ faults \in Nat

InboxInit ==
    /\ arrived = {} /\ box = [s \in Slots |-> Free]
    /\ todo = {} /\ cur \in Slots /\ pc = "idle"
    /\ segment = [p \in Parts |-> "none"]
    /\ copies = [m \in Texts |-> 0] /\ told = [m \in Texts |-> 0]
    /\ cut = {} /\ lapsed = {} /\ faults = 0

(* The network delivers a part; a full storage refuses it.                 *)
Receive(p) ==
    /\ p \notin arrived
    /\ \E s \in Slots : box[s] = Free /\ box' = [box EXCEPT ![s] = p]
    /\ arrived' = arrived \union {p}
    /\ UNCHANGED <<todo, cur, pc, segment, copies, told, cut, lapsed, faults>>

(* One failure of kind k, of which the budget has one left.                *)
Fail(k) ==
    /\ k \in Faults /\ faults < MaxFaults
    /\ faults' = faults + 1

(* Mutant: a state the loop does not have.                                *)
SkipToRetry == todo' = todo \ {cur} /\ pc' = "retry"

(* poll is done with the current slot, without having deleted it.          *)
Skip ==
    /\ todo' = todo \ {cur} /\ pc' = "next"

(* A poll: the pending segments past the retention are dropped, whichever  *)
(* they are (bound: once for a text), then the storage is listed.  An      *)
(* error of the module skips the round.                                    *)
Poll ==
    /\ pc = "idle"
    /\ \E Old \in SUBSET {p \in Parts : segment[p] = "pending" /\ TextOf[p] \notin lapsed} :
          /\ segment' = [p \in Parts |-> IF p \in Old THEN "none" ELSE segment[p]]
          /\ lapsed' = lapsed \union {TextOf[p] : p \in Old}
    /\ \/ todo' = {s \in Slots : box[s] # Free} /\ pc' = "next" /\ UNCHANGED faults
       \/ Fail("list") /\ UNCHANGED <<todo, pc>>
    /\ UNCHANGED <<arrived, box, cur, copies, told, cut>>

(* The round is over: the next tick polls again.                           *)
Rest ==
    /\ pc = "next" /\ todo = {}
    /\ pc' = "idle"
    /\ UNCHANGED <<arrived, box, todo, cur, segment, copies, told, cut, lapsed, faults>>

(* Mutant: the hash of the PDU is not looked up.                           *)
LookForgetful ==
    /\ pc = "next" /\ todo # {}
    /\ cur' \in todo /\ \A s \in todo : cur' <= s
    /\ box[cur'] \notin Garbled /\ pc' = "record"
    /\ UNCHANGED <<arrived, box, todo, segment, copies, told, cut, lapsed, faults>>

(* Ingest of the next PDU of the list: a hash on record makes it a nil     *)
(* message, a PDU that does not decode an error.                           *)
Look ==
    /\ pc = "next" /\ todo # {}
    /\ cur' \in todo /\ \A s \in todo : cur' <= s
    /\ LET p == box[cur'] IN
       \/ segment[p] # "none" /\ pc' = "delete" /\ UNCHANGED <<todo, faults>>
       \/ /\ segment[p] = "none" /\ p \in Garbled
          /\ todo' = todo \ {cur'} /\ UNCHANGED <<pc, faults>>
       \/ /\ segment[p] = "none" /\ p \notin Garbled
          /\ pc' = "record" /\ UNCHANGED <<todo, faults>>
       \/ Fail("known") /\ todo' = todo \ {cur'} /\ UNCHANGED pc
    /\ UNCHANGED <<arrived, box, segment, copies, told, cut, lapsed>>

(* Mutant: a PDU whose Ingest failed is deleted all the same.              *)
RecordOrDelete ==
    /\ pc = "record"
    /\ \/ /\ segment' = [segment EXCEPT ![part] = "pending"]
          /\ pc' = IF PartsOf(text) = {part} THEN "store" ELSE "assemble"
          /\ UNCHANGED faults
       \/ Fail("record") /\ pc' = "delete" /\ UNCHANGED segment
    /\ UNCHANGED <<arrived, box, todo, cur, copies, told, cut, lapsed>>

(* InsertSMSSegment; a text of one part needs no assembling.               *)
Record ==
    /\ pc = "record"
    /\ \/ /\ segment' = [segment EXCEPT ![part] = "pending"]
          /\ pc' = IF PartsOf(text) = {part} THEN "store" ELSE "assemble"
          /\ UNCHANGED <<todo, faults>>
       \/ Fail("record") /\ Skip /\ UNCHANGED segment
    /\ UNCHANGED <<arrived, box, cur, copies, told, cut, lapsed>>

(* ListPendingSMSSegments and Assembler.Add: the text is complete when all *)
(* its parts are pending; otherwise Ingest returns a nil message.          *)
Assemble ==
    /\ pc = "assemble"
    /\ \/ /\ pc' = IF \A p \in PartsOf(text) : segment[p] = "pending" THEN "store" ELSE "delete"
          /\ UNCHANGED <<todo, cut, faults>>
       \/ Fail("assemble") /\ Skip /\ cut' = cut \union {text}
    /\ UNCHANGED <<arrived, box, cur, segment, copies, told, lapsed>>

(* InsertMessage.                                                          *)
Store ==
    /\ pc = "store"
    /\ \/ /\ copies' = [copies EXCEPT ![text] = @ + 1]
          /\ pc' = "link" /\ UNCHANGED <<todo, cut, faults>>
       \/ Fail("store") /\ Skip /\ cut' = cut \union {text} /\ UNCHANGED copies
    /\ UNCHANGED <<arrived, box, cur, segment, told, lapsed>>

(* Mutant: a text of several parts is stored and not announced.            *)
LinkQuiet ==
    /\ pc = "link"
    /\ \E q \in PartsOf(text) :
          /\ segment[q] = "pending"
          /\ segment' = [segment EXCEPT ![q] = "linked"]
          /\ pc' = IF \E p \in PartsOf(text) \ {q} : segment[p] = "pending" THEN "link"
                   ELSE IF PartsOf(text) = {part} THEN "announce" ELSE "delete"
    /\ UNCHANGED <<arrived, box, todo, cur, copies, told, cut, lapsed, faults>>

(* LinkSMSSegment of one segment after the other.                          *)
Link ==
    /\ pc = "link"
    /\ \/ \E q \in PartsOf(text) :
             /\ segment[q] = "pending"
             /\ segment' = [segment EXCEPT ![q] = "linked"]
             /\ pc' = IF \A p \in PartsOf(text) \ {q} : segment[p] # "pending"
                      THEN "announce" ELSE "link"
             /\ UNCHANGED <<todo, cut, faults>>
       \/ Fail("link") /\ Skip /\ cut' = cut \union {text} /\ UNCHANGED segment
    /\ UNCHANGED <<arrived, box, cur, copies, told, lapsed>>

(* onMessage.                                                              *)
Announce ==
    /\ pc = "announce"
    /\ told' = [told EXCEPT ![text] = @ + 1]
    /\ pc' = "delete"
    /\ UNCHANGED <<arrived, box, todo, cur, segment, copies, cut, lapsed, faults>>

(* Mutant: the test of the index is off by one.                            *)
DeleteOffByOne ==
    /\ pc = "delete" /\ Skip
    /\ \/ cur > 1 /\ box' = [box EXCEPT ![cur] = Free] /\ UNCHANGED faults
       \/ cur <= 1 /\ UNCHANGED <<box, faults>>
    /\ UNCHANGED <<arrived, cur, segment, copies, told, cut, lapsed>>

(* DeleteSMS, whose error is dropped; a time-out may hide a deletion.  The *)
(* index 0 is never deleted.                                               *)
Delete ==
    /\ pc = "delete" /\ Skip
    /\ \/ cur > 0 /\ box' = [box EXCEPT ![cur] = Free] /\ UNCHANGED faults
       \/ cur > 0 /\ Fail("delete") /\ box' \in {box, [box EXCEPT ![cur] = Free]}
       \/ cur = 0 /\ UNCHANGED <<box, faults>>
    /\ UNCHANGED <<arrived, cur, segment, copies, told, cut, lapsed>>

(* The gateway stops and starts again: the first poll is immediate.        *)
Restart ==
    /\ Fail("stop")
    /\ todo' = {} /\ pc' = "idle"
    /\ cut' = IF pc \in {"assemble", "store", "link", "announce"}
              THEN cut \union {text} ELSE cut
    /\ UNCHANGED <<arrived, box, cur, segment, copies, told, lapsed>>

Engine == Poll \/ Rest \/ Look \/ Record \/ Assemble \/ Store \/ Link \/ Announce \/ Delete

InboxNext == Engine \/ Restart \/ \E p \in Parts : Receive(p)

InboxSpec == InboxInit /\ [][InboxNext]_inboxVars

(* The ticker never stops, and every modem and database call of the loop   *)
(* has a deadline: the goroutine goes on.                                  *)
InboxFairSpec == InboxSpec /\ WF_inboxVars(Engine)

-----------------------------------------------------------------------------
(* Properties.                                                             *)

deleted == {p \in arrived : \A s \in Slots : box[s] # p}

(* The inbox keeps the promise of SmsStore: a part is deleted only once it *)
(* is on record, a text is stored once and when complete, unless a record  *)
(* of it expired, and announced after that, once.  engine.go:58, 97, 222,  *)
(* 225.                                                                    *)
SMS == INSTANCE SmsStore WITH onRecord <- {p \in Parts : segment[p] # "none"}

KeepsPromise == SMS!StoreSpec

(* A text all of whose parts are deleted from the module is in the         *)
(* messages and was announced, unless its Ingest was cut off after         *)
(* recording a segment or a segment expired: these are the only ways to    *)
(* lose one, or the word of it.  engine.go:49, 222.                        *)
LostOnlyWhenCut == \A m \in Texts :
    PartsOf(m) # {} /\ PartsOf(m) \subseteq deleted
        => (copies[m] > 0 /\ told[m] > 0) \/ m \in cut \/ m \in lapsed

(* What the comment on Run says (engine.go:185): a stop before a deletion  *)
(* is safe, that is, deleted texts are stored ones whatever a stop cut.    *)
StopBeforeDeletionIsSafe == \A m \in Texts :
    PartsOf(m) # {} /\ PartsOf(m) \subseteq deleted
        => copies[m] > 0 \/ m \in lapsed

(* Every text whose parts all arrive is announced, unless cut or lapsed.   *)
TextsAnnounced == \A m \in Texts :
    PartsOf(m) # {} /\ PartsOf(m) \subseteq arrived \ Garbled
        ~> told[m] > 0 \/ m \in cut \/ m \in lapsed

(* No slot but 0 stays taken by a PDU that decodes: the storage cannot     *)
(* fill up with messages the gateway has read.  engine.go:224.             *)
SlotsFreed == \A s \in Slots \ {0} : \A p \in Parts \ Garbled :
    box[s] = p ~> box[s] # p
=============================================================================
