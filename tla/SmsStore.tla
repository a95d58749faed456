------------------------------ MODULE SmsStore ------------------------------
(***************************************************************************)
(* What the SMS inbox of the gateway promises of every text that reaches   *)
(* the module, whatever the modem, the database and the process do:        *)
(*                                                                         *)
(*   - a part is deleted from the module only when it is on record;        *)
(*   - a text becomes a message only when all its parts are on record, and *)
(*     once only, unless a record of one of its parts has expired;         *)
(*   - a message is announced after it is stored, and at most once.        *)
(*                                                                         *)
(* SmsInbox is shown to implement this specification.                      *)
(***************************************************************************)
EXTENDS Naturals

CONSTANTS Texts,        \* the texts sent to the SIM
          Parts,        \* their parts, one PDU each
          TextOf        \* the text of each part

VARIABLES arrived,      \* the parts the module has received
          onRecord,     \* the parts whose segment is in the database
          deleted,      \* the parts deleted from the module
          copies,       \* how many messages were made of each text
          told,         \* how many of them were announced
          lapsed        \* the texts of which a record has expired

storeVars == <<arrived, onRecord, deleted, copies, told, lapsed>>

PartsOf(m) == {p \in Parts : TextOf[p] = m}

StoreInit ==
    /\ arrived = {} /\ onRecord = {} /\ deleted = {} /\ lapsed = {}
    /\ copies = [m \in Texts |-> 0]
    /\ told = [m \in Texts |-> 0]

Arrive == \E p \in Parts \ arrived :
    /\ arrived' = arrived \union {p}
    /\ UNCHANGED <<onRecord, deleted, copies, told, lapsed>>

Keep == \E p \in arrived \ onRecord :
    /\ onRecord' = onRecord \union {p}
    /\ UNCHANGED <<arrived, deleted, copies, told, lapsed>>

Expire == \E Q \in SUBSET onRecord :
    /\ onRecord' = onRecord \ Q
    /\ lapsed' = lapsed \union {TextOf[p] : p \in Q}
    /\ UNCHANGED <<arrived, deleted, copies, told>>

Store == \E m \in Texts :
    /\ PartsOf(m) \subseteq onRecord
    /\ copies[m] = 0 \/ m \in lapsed
    /\ copies' = [copies EXCEPT ![m] = @ + 1]
    /\ UNCHANGED <<arrived, onRecord, deleted, told, lapsed>>

Announce == \E m \in Texts :
    /\ told[m] < copies[m]
    /\ told' = [told EXCEPT ![m] = @ + 1]
    /\ UNCHANGED <<arrived, onRecord, deleted, copies, lapsed>>

Delete == \E p \in onRecord \ deleted :
    /\ deleted' = deleted \union {p}
    /\ UNCHANGED <<arrived, onRecord, copies, told, lapsed>>

StoreNext == Arrive \/ Keep \/ Expire \/ Store \/ Announce \/ Delete

StoreSpec == StoreInit /\ [][StoreNext]_storeVars
=============================================================================
