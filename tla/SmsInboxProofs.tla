--------------------------- MODULE SmsInboxProofs ---------------------------
(***************************************************************************)
(* Proofs about SmsInbox, for any texts, parts, storage and failures: it   *)
(* implements SmsStore, and a text deleted from the module is a message    *)
(* and was announced, unless its Ingest was cut off or a segment of it     *)
(* expired.                                                                *)
(***************************************************************************)
EXTENDS SmsInbox, TLAPS

known == {p \in Parts : segment[p] # "none"}

\* The storage holds each delivered part at most once, and every slot still to
\* be read holds a part.
BoxInv ==
    /\ \A s \in Slots : box[s] # Free => box[s] \in arrived
    /\ \A s, t \in Slots : box[s] = box[t] /\ box[s] # Free => s = t
    /\ \A s \in todo : box[s] # Free
    /\ pc \notin {"idle", "next"} => box[cur] # Free

\* The steps between recording a segment and deleting its PDU.
Ingesting == {"assemble", "store", "link", "announce"}

\* What each step of Ingest has already made sure of.
HandInv ==
    /\ pc = "record" => segment[part] = "none"
    /\ pc \in {"assemble", "store", "link", "announce", "delete"} => part \in known
    /\ pc \in {"assemble", "store"} => copies[text] = 0 \/ text \in lapsed
    /\ pc = "store" => PartsOf(text) \subseteq known
    /\ pc \in {"link", "announce"} => told[text] < copies[text]

\* What the database says of each text and each part.
RecordInv ==
    /\ \A p \in deleted : p \in known \/ TextOf[p] \in lapsed
    /\ \A p \in Parts : segment[p] = "linked" => copies[TextOf[p]] > 0
    /\ \A p \in known : p \in arrived
    /\ \A m \in Texts : copies[m] > 0 => m \in lapsed \/ PartsOf(m) \subseteq known
    /\ \A m \in Texts : told[m] <= copies[m]
    /\ \A m \in Texts : PartsOf(m) # {} /\ PartsOf(m) \subseteq known =>
          \/ (copies[m] > 0 /\ told[m] > 0) \/ m \in cut \/ m \in lapsed
          \/ pc \in Ingesting /\ text = m

InboxInv == InboxTypeOK /\ BoxInv /\ HandInv /\ RecordInv
-----------------------------------------------------------------------------
LEMMA InitInv == InboxInit => InboxInv
BY InboxAssumption DEF InboxInit, InboxInv, InboxTypeOK, BoxInv, HandInv, RecordInv, Steps,
   PartsOf, known, deleted

\* The part in hand is a part of a text.
LEMMA InHand == InboxInv /\ pc \notin {"idle", "next"} => part \in Parts /\ text \in Texts
BY InboxAssumption DEF InboxInv, InboxTypeOK, BoxInv, part, text

LEMMA FailTyped == ASSUME NEW k, faults \in Nat PROVE Fail(k) => faults' \in Nat
BY DEF Fail

LEMMA ReceiveInv == ASSUME InboxInv, NEW p \in Parts, Receive(p) PROVE InboxInv'
<1> USE InboxAssumption DEF InboxInv, InboxTypeOK
<1>1. PICK s \in Slots : box[s] = Free /\ box' = [box EXCEPT ![s] = p]
  BY DEF Receive
<1>2. InboxTypeOK'
  BY <1>1 DEF Receive, Steps
<1>3. BoxInv'
  BY <1>1 DEF Receive, BoxInv
<1>4. deleted' = deleted
  BY <1>1 DEF Receive, deleted, BoxInv
<1>5. pc \notin {"idle", "next"} => part' = part /\ text' = text
  BY <1>1 DEF Receive, part, text, BoxInv
<1>6. HandInv'
  BY <1>5 DEF Receive, HandInv, known, PartsOf
<1>7. \A m \in Texts : pc \in Ingesting /\ text = m => text' = m
  BY <1>5 DEF Ingesting
<1>8. /\ known' = known /\ arrived \subseteq arrived'
      /\ UNCHANGED <<pc, segment, copies, told, cut, lapsed>>
  BY DEF Receive, known
<1>9. RecordInv'
  BY <1>4, <1>7, <1>8 DEF RecordInv, PartsOf
<1> QED BY <1>2, <1>3, <1>6, <1>9

LEMMA PollInv == InboxInv /\ Poll => InboxInv'
<1> SUFFICES ASSUME InboxInv, Poll PROVE InboxInv'
  OBVIOUS
<1> USE InboxAssumption DEF InboxInv, InboxTypeOK
<1>1. PICK Old \in SUBSET {p \in Parts : segment[p] = "pending" /\ TextOf[p] \notin lapsed} :
          /\ segment' = [p \in Parts |-> IF p \in Old THEN "none" ELSE segment[p]]
          /\ lapsed' = lapsed \union {TextOf[p] : p \in Old}
  BY DEF Poll
<1>2. InboxTypeOK'
  BY <1>1 DEF Poll, Fail, Steps
<1>3. BoxInv' /\ HandInv' /\ deleted' = deleted
  BY DEF Poll, Fail, BoxInv, HandInv, deleted
<1>4. /\ \A p \in Parts : p \in known /\ p \notin known' => TextOf[p] \in lapsed'
      /\ known' \subseteq known /\ lapsed \subseteq lapsed'
  BY <1>1 DEF known
<1>5. \A p \in Parts : segment'[p] = "linked" => segment[p] = "linked"
  BY <1>1
<1>6. \A m \in Texts : PartsOf(m) \subseteq known => m \in lapsed' \/ PartsOf(m) \subseteq known'
  BY <1>4 DEF PartsOf
<1> QED BY <1>2, <1>3, <1>4, <1>5, <1>6 DEF Poll, RecordInv, PartsOf, Ingesting

LEMMA LookInv == InboxInv /\ (Rest \/ Look) => InboxInv'
<1> SUFFICES ASSUME InboxInv, Rest \/ Look PROVE InboxInv'
  OBVIOUS
<1> USE InboxAssumption DEF InboxInv, InboxTypeOK
<1>1. InboxTypeOK'
  <2>1. CASE Rest
    BY <2>1 DEF Rest, Steps
  <2>2. CASE Look
    BY <2>2, FailTyped DEF Look, Steps
  <2> QED BY <2>1, <2>2
<1>2. BoxInv' /\ deleted' = deleted /\ known' = known
  BY DEF Rest, Look, Fail, BoxInv, deleted, known
<1>3. HandInv'
  BY DEF Rest, Look, Fail, HandInv, known, part, text, BoxInv
<1>4. RecordInv'
  BY <1>2 DEF Rest, Look, Fail, RecordInv, PartsOf, Ingesting
<1> QED BY <1>1, <1>2, <1>3, <1>4

\* The steps of Ingest on the part in hand.
LEMMA RecordStep == InboxInv /\ Record => InboxInv'
<1> SUFFICES ASSUME InboxInv, Record PROVE InboxInv'
  OBVIOUS
<1> USE InboxAssumption, InHand DEF InboxInv, InboxTypeOK
<1>1. pc = "record" /\ part \in Parts /\ text \in Texts /\ part' = part /\ text' = text
  BY DEF Record, part, text
<1>2. InboxTypeOK'
  BY <1>1, FailTyped DEF Record, Skip, Steps
<1>3. BoxInv' /\ deleted' = deleted
  BY <1>1 DEF Record, Skip, Fail, BoxInv, deleted
<1>4. CASE UNCHANGED segment
  <2>0. segment[part] = "none"
    BY <1>1 DEF HandInv
  <2>1. pc' = "next" /\ known' = known
    BY <1>1, <1>4, <2>0 DEF Record, Skip, known
  <2> QED BY <1>1, <1>2, <1>3, <1>4, <2>1 DEF Record, HandInv, RecordInv, PartsOf, Ingesting
<1>5. CASE segment' = [segment EXCEPT ![part] = "pending"]
  <2>0. segment[part] = "none" /\ part \in PartsOf(text)
    BY <1>1 DEF HandInv, PartsOf, text
  <2>1. known' = known \union {part} /\ part \notin known /\ part \in PartsOf(text)
    BY <1>1, <1>5, <2>0 DEF known
  <2>2. pc' \in {"assemble", "store"} /\ (pc' = "store" => PartsOf(text) = {part})
    BY <1>1, <1>5, <2>1 DEF Record, HandInv
  <2>3. copies[text] = 0 \/ text \in lapsed
    BY <1>1, <2>1 DEF RecordInv
  <2>4. HandInv'
    BY <1>1, <2>1, <2>2, <2>3 DEF Record, HandInv, PartsOf, known
  <2>5. \A m \in Texts : m # text => (PartsOf(m) \subseteq known' => PartsOf(m) \subseteq known)
    BY <1>1, <2>1 DEF PartsOf
  <2>6. part \in arrived
    BY <1>1 DEF BoxInv, part
  <2>7. \A p \in Parts : segment'[p] = "linked" => segment[p] = "linked"
    BY <1>5
  <2>8. UNCHANGED <<arrived, copies, told, cut, lapsed>>
    BY DEF Record
  <2>9. \A m \in Texts : PartsOf(m) # {} /\ PartsOf(m) \subseteq known' =>
          \/ (copies[m] > 0 /\ told[m] > 0) \/ m \in cut \/ m \in lapsed
          \/ pc' \in Ingesting /\ text' = m
    BY <1>1, <2>2, <2>5 DEF RecordInv, Ingesting
  <2> QED BY <1>2, <1>3, <2>1, <2>4, <2>6, <2>7, <2>8, <2>9 DEF RecordInv, PartsOf
<1> QED BY <1>4, <1>5 DEF Record

LEMMA AssembleInv == InboxInv /\ Assemble => InboxInv'
<1> SUFFICES ASSUME InboxInv, Assemble PROVE InboxInv'
  OBVIOUS
<1> USE InboxAssumption, InHand DEF InboxInv, InboxTypeOK
<1>1. /\ pc = "assemble" /\ part \in Parts /\ text \in Texts /\ part' = part /\ text' = text
      /\ UNCHANGED <<arrived, segment, copies, told, lapsed>> /\ cut \subseteq cut'
      /\ pc' # "assemble"
  BY DEF Assemble, Skip, part, text
<1>2. InboxTypeOK'
  BY <1>1, FailTyped DEF Assemble, Skip, Steps
<1>3. BoxInv' /\ deleted' = deleted /\ known' = known
  BY <1>1 DEF Assemble, Skip, Fail, BoxInv, deleted, known
<1>4. HandInv'
  BY <1>1, <1>3 DEF Assemble, Skip, HandInv, PartsOf, known
<1>5. PartsOf(text) \subseteq known => pc' = "store" \/ text \in cut' \/ text \in lapsed
  BY <1>1 DEF Assemble, HandInv, RecordInv, PartsOf, known
<1>6. RecordInv'
  BY <1>1, <1>3, <1>5 DEF RecordInv, PartsOf, Ingesting
<1> QED BY <1>2, <1>3, <1>4, <1>6

LEMMA StoreInv == InboxInv /\ Store => InboxInv'
<1> SUFFICES ASSUME InboxInv, Store PROVE InboxInv'
  OBVIOUS
<1> USE InboxAssumption, InHand DEF InboxInv, InboxTypeOK
<1>1. /\ pc = "store" /\ part \in Parts /\ text \in Texts /\ part' = part /\ text' = text
      /\ UNCHANGED <<arrived, segment, told, lapsed>> /\ cut \subseteq cut'
      /\ pc' \in {"link", "next"}
  BY DEF Store, Skip, part, text
<1>2. InboxTypeOK'
  <2>1. copies' \in [Texts -> Nat]
    BY <1>1 DEF Store
  <2> QED BY <1>1, <2>1, FailTyped DEF Store, Skip, Steps
<1>3. BoxInv' /\ deleted' = deleted /\ known' = known
  BY <1>1 DEF Store, Skip, Fail, BoxInv, deleted, known
<1>4. CASE pc' = "next"
  <2>1. UNCHANGED copies /\ text \in cut'
    BY <1>4 DEF Store, Skip
  <2> QED BY <1>1, <1>2, <1>3, <1>4, <2>1 DEF HandInv, RecordInv, PartsOf, Ingesting
<1>5. CASE pc' = "link"
  <2>1. copies' = [copies EXCEPT ![text] = @ + 1]
    BY <1>5 DEF Store, Skip
  <2>2. \A m \in Texts : copies'[m] >= copies[m]
    BY <1>1, <2>1
  <2>3. copies'[text] > told[text]
    BY <1>1, <2>1 DEF RecordInv
  <2>4. PartsOf(text) \subseteq known
    BY <1>1 DEF HandInv
  <2>5. HandInv'
    BY <1>1, <1>3, <1>5, <2>3, <2>4 DEF HandInv, PartsOf, known
  <2>6. RecordInv'
    BY <1>1, <1>3, <1>5, <2>1, <2>2, <2>3, <2>4 DEF RecordInv, PartsOf, Ingesting
  <2> QED BY <1>2, <1>3, <2>5, <2>6
<1> QED BY <1>1, <1>4, <1>5

LEMMA LinkInv == InboxInv /\ Link => InboxInv'
<1> SUFFICES ASSUME InboxInv, Link PROVE InboxInv'
  OBVIOUS
<1> USE InboxAssumption, InHand DEF InboxInv, InboxTypeOK
<1>1. /\ pc = "link" /\ part \in Parts /\ text \in Texts /\ part' = part /\ text' = text
      /\ UNCHANGED <<arrived, box, cur, copies, told, lapsed>> /\ cut \subseteq cut'
      /\ pc' \in {"link", "announce", "next"} /\ todo' \subseteq todo
      /\ copies[text] > told[text]
  BY DEF Link, Skip, part, text, HandInv
<1>2. \/ UNCHANGED segment
      \/ \E q \in PartsOf(text) : segment' = [segment EXCEPT ![q] = "linked"] /\ q \in known
  BY DEF Link, known, PartsOf
<1>3. InboxTypeOK'
  <2>1. segment' \in [Parts -> {"none", "pending", "linked"}]
    BY <1>2 DEF PartsOf
  <2>2. cut' \subseteq Texts /\ faults' \in Nat
    BY <1>1, FailTyped DEF Link
  <2> QED BY <1>1, <2>1, <2>2 DEF Steps
<1>4. known' = known
  BY <1>2 DEF known, PartsOf
<1>5. BoxInv' /\ deleted' = deleted
  BY <1>1 DEF BoxInv, deleted
<1>6. HandInv'
  BY <1>1, <1>4 DEF HandInv
<1>7. \A p \in Parts : segment'[p] = "linked" => copies[TextOf[p]] > 0
  BY <1>1, <1>2 DEF RecordInv, PartsOf
<1>8. text \in cut' \/ pc' \in {"link", "announce"}
  BY DEF Link
<1>9. RecordInv'
  BY <1>1, <1>4, <1>5, <1>7, <1>8 DEF RecordInv, PartsOf, Ingesting
<1> QED BY <1>3, <1>5, <1>6, <1>9

LEMMA AnnounceInv == InboxInv /\ Announce => InboxInv'
<1> SUFFICES ASSUME InboxInv, Announce PROVE InboxInv'
  OBVIOUS
<1> USE InboxAssumption, InHand DEF InboxInv, InboxTypeOK
<1>1. /\ pc = "announce" /\ pc' = "delete"
      /\ part \in Parts /\ text \in Texts /\ part' = part /\ text' = text
      /\ UNCHANGED <<arrived, box, todo, cur, segment, copies, cut, lapsed, faults>>
      /\ told' = [told EXCEPT ![text] = @ + 1] /\ told[text] < copies[text]
  BY DEF Announce, part, text, HandInv
<1>2. /\ told' \in [Texts -> Nat] /\ \A m \in Texts : told'[m] <= copies[m]
      /\ told'[text] > 0 /\ copies[text] > 0 /\ \A m \in Texts : told'[m] >= told[m]
  BY <1>1 DEF RecordInv
<1>3. InboxTypeOK'
  BY <1>1, <1>2 DEF Steps
<1>4. BoxInv' /\ HandInv' /\ deleted' = deleted /\ known' = known
  BY <1>1 DEF BoxInv, HandInv, deleted, known
<1>5. RecordInv'
  BY <1>1, <1>2, <1>4 DEF RecordInv, PartsOf, Ingesting
<1> QED BY <1>3, <1>4, <1>5

\* A deletion leaves its part on record.
LEMMA Deletes == InboxInv /\ Delete =>
    /\ part \in known /\ part \in arrived
    /\ deleted' = deleted \/ (deleted' = deleted \union {part} /\ part \notin deleted)
<1> SUFFICES ASSUME InboxInv, Delete
             PROVE  /\ part \in known /\ part \in arrived
                    /\ \/ deleted' = deleted
                       \/ deleted' = deleted \union {part} /\ part \notin deleted
  OBVIOUS
<1> USE InboxAssumption DEF InboxInv, InboxTypeOK
<1>1. part \in known /\ part \in arrived /\ part # Free
  BY InHand DEF Delete, HandInv, BoxInv, part
<1>2. CASE box' = box
  BY <1>1, <1>2 DEF Delete, deleted
<1>3. CASE box' = [box EXCEPT ![cur] = Free]
  <2>1. \A p \in Parts : (\A s \in Slots : box'[s] # p) <=> (\A s \in Slots : box[s] # p) \/ p = part
    BY <1>1, <1>3 DEF BoxInv, part
  <2> QED BY <1>1, <2>1 DEF Delete, deleted, part
<1> QED BY <1>1, <1>2, <1>3 DEF Delete

LEMMA DeleteInv == InboxInv /\ Delete => InboxInv'
<1> SUFFICES ASSUME InboxInv, Delete PROVE InboxInv'
  OBVIOUS
<1> USE InboxAssumption DEF InboxInv, InboxTypeOK
<1>1. /\ pc' = "next" /\ todo' = todo \ {cur} /\ known' = known
      /\ UNCHANGED <<arrived, cur, segment, copies, told, cut, lapsed>>
      /\ box' \in {box, [box EXCEPT ![cur] = Free]} /\ pc = "delete"
  BY DEF Delete, Skip, known
<1>2. InboxTypeOK'
  BY <1>1, FailTyped DEF Delete, Steps
<1>3. BoxInv' /\ HandInv'
  BY <1>1 DEF BoxInv, HandInv
<1>4. RecordInv'
  BY <1>1, Deletes DEF RecordInv, PartsOf, known, Ingesting
<1> QED BY <1>2, <1>3, <1>4

LEMMA RestartInv == InboxInv /\ Restart => InboxInv'
<1> SUFFICES ASSUME InboxInv, Restart PROVE InboxInv'
  OBVIOUS
<1> USE InboxAssumption, InHand DEF InboxInv, InboxTypeOK
<1>1. /\ pc' = "idle" /\ todo' = {} /\ known' = known /\ deleted' = deleted
      /\ UNCHANGED <<arrived, box, cur, segment, copies, told, lapsed>> /\ cut \subseteq cut'
      /\ pc \in Ingesting => text \in cut'
  BY DEF Restart, known, deleted, Ingesting
<1>2. InboxTypeOK'
  BY <1>1, FailTyped DEF Restart, Steps
<1>3. BoxInv' /\ HandInv'
  BY <1>1 DEF BoxInv, HandInv
<1>4. RecordInv'
  BY <1>1 DEF RecordInv, PartsOf
<1> QED BY <1>2, <1>3, <1>4

LEMMA StepInv == InboxInv /\ [InboxNext]_inboxVars => InboxInv'
<1> SUFFICES ASSUME InboxInv, [InboxNext]_inboxVars PROVE InboxInv'
  OBVIOUS
<1>1. CASE UNCHANGED inboxVars
  BY <1>1 DEF inboxVars, InboxInv, InboxTypeOK, BoxInv, HandInv, RecordInv, PartsOf, known,
              deleted, part, text
<1>2. CASE Engine
  BY <1>2, PollInv, LookInv, RecordStep, AssembleInv, StoreInv, LinkInv, AnnounceInv, DeleteInv
     DEF Engine
<1> QED BY <1>1, <1>2, RestartInv, ReceiveInv DEF InboxNext

LEMMA AlwaysInv == InboxSpec => []InboxInv
BY InitInv, StepInv, PTL DEF InboxSpec

\* The variables of the inbox keep their types.
THEOREM InboxTyped == InboxSpec => []InboxTypeOK
BY AlwaysInv, PTL DEF InboxInv

\* A text deleted from the module is a message and was announced, unless its Ingest
\* ended after recording a segment, or a segment of it expired before the text was
\* complete.
THEOREM NothingElseLost == InboxSpec => []LostOnlyWhenCut
<1>1. InboxInv => LostOnlyWhenCut
  <2> SUFFICES ASSUME InboxInv, NEW m \in Texts, PartsOf(m) # {}, PartsOf(m) \subseteq deleted,
                      m \notin cut, m \notin lapsed
               PROVE  copies[m] > 0 /\ told[m] > 0
    BY DEF LostOnlyWhenCut
  <2>1. PartsOf(m) \subseteq known
    BY DEF InboxInv, RecordInv, PartsOf, deleted
  <2>2. ~(pc \in Ingesting /\ text = m)
    BY InHand DEF InboxInv, InboxTypeOK, deleted, PartsOf, part, text, Ingesting
  <2> QED BY <2>1, <2>2 DEF InboxInv, RecordInv
<1> QED BY <1>1, AlwaysInv, PTL
-----------------------------------------------------------------------------
\* Every step of the inbox is a step of SmsStore or leaves its variables alone.
LEMMA StoreStep == InboxInv /\ [InboxNext]_inboxVars => [SMS!StoreNext]_SMS!storeVars
<1> SUFFICES ASSUME InboxInv, [InboxNext]_inboxVars PROVE [SMS!StoreNext]_SMS!storeVars
  OBVIOUS
<1> USE InboxAssumption DEF InboxInv, InboxTypeOK
<1>1. CASE UNCHANGED inboxVars
  BY <1>1 DEF inboxVars, SMS!storeVars, deleted
<1>2. CASE Poll
  <2>1. PICK Old \in SUBSET {p \in Parts : segment[p] = "pending" /\ TextOf[p] \notin lapsed} :
          /\ segment' = [p \in Parts |-> IF p \in Old THEN "none" ELSE segment[p]]
          /\ lapsed' = lapsed \union {TextOf[p] : p \in Old}
    BY <1>2 DEF Poll
  <2>2. Old \in SUBSET known /\ known' = known \ Old
    BY <2>1 DEF known
  <2>3. UNCHANGED <<arrived, deleted, copies, told>>
    BY <1>2 DEF Poll, deleted
  <2> QED BY <2>1, <2>2, <2>3 DEF SMS!StoreNext, SMS!Expire, known
<1>3. CASE Record
  <2>1. /\ part \in Parts /\ part \in arrived /\ segment[part] = "none"
    BY <1>3, InHand DEF Record, HandInv, BoxInv, part
  <2>2. UNCHANGED <<arrived, deleted, copies, told, lapsed>>
    BY <1>3 DEF Record, deleted
  <2>3. CASE UNCHANGED segment
    BY <2>2, <2>3 DEF SMS!storeVars
  <2>4. CASE segment' = [segment EXCEPT ![part] = "pending"]
    <3>1. known' = known \union {part} /\ part \in arrived \ known
      BY <2>1, <2>4 DEF known
    <3> QED BY <2>2, <3>1 DEF SMS!StoreNext, SMS!Keep, known
  <2> QED BY <1>3, <2>3, <2>4 DEF Record
<1>4. CASE Store
  <2>1. pc = "store" /\ text \in Texts /\ UNCHANGED <<arrived, segment, deleted, told, lapsed>>
    BY <1>4, InHand DEF Store, deleted
  <2>2. PartsOf(text) \subseteq known /\ (copies[text] = 0 \/ text \in lapsed)
    BY <2>1 DEF HandInv
  <2>3. SMS!PartsOf(text) \subseteq known
    BY <2>2 DEF SMS!PartsOf, PartsOf
  <2> QED BY <1>4, <2>1, <2>2, <2>3 DEF Store, SMS!StoreNext, SMS!Store, SMS!storeVars, known
<1>5. CASE Link
  <2>1. known' = known
    BY <1>5 DEF Link, known, PartsOf
  <2> QED BY <1>5, <2>1 DEF Link, SMS!storeVars, deleted, known
<1>6. CASE Announce
  <2>1. text \in Texts /\ told[text] < copies[text]
    BY <1>6, InHand DEF Announce, HandInv
  <2> QED BY <1>6, <2>1 DEF Announce, SMS!StoreNext, SMS!Announce, deleted
<1>7. CASE Delete
  <2>1. UNCHANGED <<arrived, segment, copies, told, lapsed>>
    BY <1>7 DEF Delete
  <2>2. part \in known
    BY <1>7, Deletes
  <2> QED BY <1>7, <2>1, <2>2, Deletes DEF SMS!StoreNext, SMS!Delete, SMS!storeVars, known
<1>8. CASE Rest \/ Look \/ Assemble \/ Restart
  BY <1>8 DEF Rest, Look, Assemble, Restart, SMS!storeVars, deleted
<1>9. ASSUME NEW p \in Parts, Receive(p) PROVE SMS!StoreNext
  <2>1. deleted' = deleted
    BY <1>9 DEF Receive, deleted, BoxInv
  <2> QED BY <1>9, <2>1 DEF Receive, SMS!StoreNext, SMS!Arrive
<1> QED BY <1>1, <1>2, <1>3, <1>4, <1>5, <1>6, <1>7, <1>8, <1>9 DEF InboxNext, Engine

\* The inbox implements SmsStore: whatever fails and whenever the process stops,
\* a part is deleted only once on record, a text is stored only when complete and
\* once while its records last, and announced after that and once.
THEOREM InboxKeepsPromise == InboxSpec => KeepsPromise
<1>1. InboxInit => SMS!StoreInit
  BY DEF InboxInit, SMS!StoreInit, deleted
<1> QED BY <1>1, AlwaysInv, StoreStep, PTL DEF InboxSpec, KeepsPromise, SMS!StoreSpec
=============================================================================
