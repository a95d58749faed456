-------------------------- MODULE SmsOutboxProofs ---------------------------
(***************************************************************************)
(* Proofs about SmsOutbox, for any requests, keys, number of segments,     *)
(* failures and stops: no segment is submitted twice for a key, rows and   *)
(* recorded answers tell the truth about the module, and an                *)
(* Idempotency-Key keeps the promise of Once.                              *)
(***************************************************************************)
EXTENDS SmsOutbox, TLAPS

\* The goroutine of r has taken up its key, or has done so and left a row.
Took(r) == pc[r] \in Working \/ row[r] # "none"

\* One request takes up each key.
OneTook == \A q, r \in Requests :
    keyOf[q] = keyOf[r] /\ Took(q) /\ Took(r) /\ (Http(r) \/ stops = 0) => q = r

\* A key that was taken up is marked so; a MESSAGE's is, while copies may come.
TakenIsMarked == \A r \in Requests : Took(r) =>
    /\ Http(r) => key[keyOf[r]] # "none"
    /\ ~Http(r) /\ stops = 0 =>
          keyOf[r] \in seen \/ \A q \in Requests : keyOf[q] = keyOf[r] => pc[q] # "new"

\* A key has no answer while its request is at work; a MESSAGE records none.
PendingAtWork == \A r \in Requests :
    /\ pc[r] \in Working /\ Http(r) => key[keyOf[r]] = "pending"
    /\ ~Http(r) => pc[r] \notin {"rate", "answer"}

TakenInv == OneTook /\ TakenIsMarked /\ PendingAtWork

\* Send is begun only by the request that took up the key.
BegunInv ==
    /\ \A k \in HttpKeys : key[k] = "none" => begun[k] = 0
    /\ \A r \in Requests : Http(r) /\ pc[r] \in {"rate", "insert"} => begun[keyOf[r]] = 0

\* The segments before the current one were accepted once, those after it not yet.
SegInv(r) ==
    /\ \A i \in 1..Segments : accepted[r][i] <= 1
    /\ \A i \in 1..Segments : i < seg[r] => accepted[r][i] = 1
    /\ \A i \in 1..Segments : i > seg[r] => accepted[r][i] = 0
    /\ pc[r] \in {"new", "rate", "insert"} => seg[r] = 1 /\ row[r] = "none"
    /\ pc[r] \in {"new", "rate", "insert", "submit"} => accepted[r][seg[r]] = 0
    /\ pc[r] = "mark" => /\ verdict[r] \in {"ok", "unknown", "error"}
                         /\ verdict[r] = "ok" => accepted[r][seg[r]] = 1
                         /\ verdict[r] = "error" => accepted[r][seg[r]] = 0
    /\ pc[r] = "last" => seg[r] = Segments /\ accepted[r][seg[r]] = 1

\* What the row says, and what the goroutine is about to answer.
RowInv(r) ==
    /\ row[r] = "none" => \A i \in 1..Segments : accepted[r][i] = 0
    /\ pc[r] \in {"submit", "mark"} => row[r] \in {"queued", "submitted", "deleted"}
    /\ pc[r] = "last" => row[r] \in {"submitted", "deleted"}
    /\ row[r] = "queued" => pc[r] \in {"submit", "mark", "dead"} \/ faults > 0
    /\ row[r] = "sent" => \A i \in 1..Segments : accepted[r][i] > 0
    /\ row[r] = "failed" => \E i \in 1..Segments : accepted[r][i] = 0
    /\ pc[r] = "answer" /\ faults = 0 =>
          \/ verdict[r] = "created" /\ row[r] \in {"submitted", "sent", "deleted"}
          \/ verdict[r] = "badGateway" /\ row[r] \in {"none", "failed", "deleted"}
    /\ pc[r] = "answer" => verdict[r] \in {"created", "badGateway"}

OwnInv == \A r \in Requests : SegInv(r) /\ RowInv(r)

OutboxInv == OutboxTypeOK /\ TakenInv /\ BegunInv /\ OwnInv /\ AnswerTellsTruth
-----------------------------------------------------------------------------
LEMMA InitInv == OutboxInit => OutboxInv
<1> SUFFICES ASSUME OutboxInit PROVE OutboxInv
  OBVIOUS
<1> USE OutboxAssumption DEF OutboxInit
<1>1. OutboxTypeOK
  <2>1. 1 \in 1..Segments /\ 0 \in 0..MaxFaults /\ 0 \in 0..MaxStops
    OBVIOUS
  <2> QED BY <2>1 DEF OutboxTypeOK
<1>2. TakenInv /\ BegunInv /\ AnswerTellsTruth
  BY DEF TakenInv, OneTook, TakenIsMarked, PendingAtWork, BegunInv, AnswerTellsTruth, Took, Working, Http, Keys
<1>3. ASSUME NEW r \in Requests PROVE SegInv(r) /\ RowInv(r)
  <2>1. /\ seg[r] = 1 /\ pc[r] = "new" /\ row[r] = "none"
        /\ \A i \in 1..Segments : accepted[r][i] = 0
        /\ 1 \in 1..Segments /\ \A i \in 1..Segments : ~(i < 1)
    OBVIOUS
  <2> QED BY <2>1 DEF SegInv, RowInv
<1> QED BY <1>1, <1>2, <1>3 DEF OutboxInv, OwnInv

LEMMA DbTyped == ASSUME OutboxTypeOK, DbFails \/ DbWorks
                 PROVE  faults' \in 0..MaxFaults /\ (faults' = 0 => faults = 0 /\ DbWorks)
BY OutboxAssumption DEF DbFails, DbWorks, OutboxTypeOK

LEMMA ClaimKeyInv == ASSUME OutboxInv, NEW r \in Requests, ClaimKey(r), UNCHANGED keyOf
                     PROVE  OutboxInv'
<1> USE OutboxAssumption DEF OutboxInv, Http
<1>1. pc[r] = "new" /\ keyOf[r] \in HttpKeys /\ (DbFails \/ DbWorks)
      /\ UNCHANGED <<keyOf, seg, verdict, accepted, row, seen, recent, begun, stops>>
  BY DEF ClaimKey, handlerVars
<1>2. \/ /\ key[keyOf[r]] = "none" /\ key' = [key EXCEPT ![keyOf[r]] = "pending"]
         /\ pc' = [pc EXCEPT ![r] = "rate"]
      \/ pc' = [pc EXCEPT ![r] = "done"] /\ UNCHANGED key
  BY DEF ClaimKey, Goto
<1>3. faults' \in 0..MaxFaults /\ (faults' = 0 => faults = 0)
  BY <1>1, DbTyped
<1>4. OutboxTypeOK'
  BY <1>1, <1>2, <1>3 DEF OutboxTypeOK
<1>5. row[r] = "none" /\ SegInv(r)
  BY <1>1 DEF OwnInv, SegInv
<1>6. OwnInv'
  <2>1. SegInv(r)' /\ RowInv(r)'
    BY <1>1, <1>2, <1>3, <1>5 DEF OwnInv, SegInv, RowInv, OutboxTypeOK
  <2>2. ASSUME NEW q \in Requests, q # r PROVE SegInv(q)' /\ RowInv(q)'
    BY <1>1, <1>2, <1>3, <2>2 DEF OwnInv, SegInv, RowInv, OutboxTypeOK
  <2> QED BY <2>1, <2>2 DEF OwnInv
<1>7. CASE key[keyOf[r]] = "none" /\ key' = [key EXCEPT ![keyOf[r]] = "pending"]
           /\ pc' = [pc EXCEPT ![r] = "rate"]
  <2>1. \A q \in Requests : keyOf[q] = keyOf[r] => ~Took(q)
    BY <1>1, <1>7 DEF TakenInv, TakenIsMarked
  <2>2. \A q \in Requests : q # r => pc'[q] = pc[q] /\ (Took(q)' <=> Took(q))
    BY <1>1, <1>7 DEF Took, OutboxTypeOK
  <2>3. TakenInv'
    <3>1. OneTook'
      BY <1>1, <2>1, <2>2 DEF TakenInv, OneTook
    <3>2. \A q \in Requests : Took(q)' => q = r \/ (Took(q) /\ keyOf[q] # keyOf[r])
      BY <2>1, <2>2
    <3>3. /\ \A k \in HttpKeys : key'[k] = IF k = keyOf[r] THEN "pending" ELSE key[k]
          /\ \A q \in Requests : pc'[q] = "new" => pc[q] = "new"
      BY <1>1, <1>7 DEF OutboxTypeOK
    <3>4. TakenIsMarked'
      <4> SUFFICES ASSUME NEW q \in Requests, Took(q)'
                   PROVE  /\ Http(q)' => key'[keyOf[q]] # "none"
                          /\ ~Http(q)' /\ stops' = 0 => keyOf[q] \in seen'
                             \/ \A t \in Requests : keyOf[t] = keyOf[q] => pc'[t] # "new"
        BY <1>1 DEF TakenIsMarked
      <4> QED BY <1>1, <3>2, <3>3 DEF TakenInv, TakenIsMarked
    <3>5. PendingAtWork'
      <4>1. \A q \in Requests : pc'[q] = IF q = r THEN "rate" ELSE pc[q]
        BY <1>7 DEF OutboxTypeOK
      <4>2. \A q \in Requests : pc[q] \in Working => Took(q)
        BY DEF Took
      <4> QED BY <1>1, <2>1, <3>3, <4>1, <4>2 DEF TakenInv, PendingAtWork
    <3> QED BY <3>1, <3>4, <3>5 DEF TakenInv
  <2>4. BegunInv'
    BY <1>1, <1>7 DEF BegunInv, OutboxTypeOK
  <2>5. AnswerTellsTruth'
    BY <1>1, <1>3, <1>7, <2>1 DEF AnswerTellsTruth, OutboxTypeOK, Took
  <2> QED BY <1>4, <1>6, <2>3, <2>4, <2>5
<1>8. CASE pc' = [pc EXCEPT ![r] = "done"] /\ UNCHANGED key
  <2>1. \A q \in Requests : q # r => pc'[q] = pc[q] /\ (Took(q)' <=> Took(q))
    BY <1>1, <1>8 DEF Took, OutboxTypeOK
  <2>2. ~Took(r)'
    BY <1>1, <1>5, <1>8 DEF Took, OutboxTypeOK, Working
  <2>3. TakenInv'
    <3>1. OneTook'
      BY <1>1, <2>1, <2>2 DEF TakenInv, OneTook
    <3>2. \A q \in Requests : pc'[q] = IF q = r THEN "done" ELSE pc[q]
      BY <1>8 DEF OutboxTypeOK
    <3>3. PendingAtWork'
      BY <1>1, <1>8, <3>2 DEF TakenInv, PendingAtWork, Working
    <3>4. TakenIsMarked'
      <4> SUFFICES ASSUME NEW q \in Requests, Took(q)'
                   PROVE  /\ Http(q)' => key'[keyOf[q]] # "none"
                          /\ ~Http(q)' /\ stops' = 0 => keyOf[q] \in seen'
                             \/ \A t \in Requests : keyOf[t] = keyOf[q] => pc'[t] # "new"
        BY <1>1 DEF TakenIsMarked
      <4> QED BY <1>1, <1>8, <2>1, <2>2, <3>2 DEF TakenInv, TakenIsMarked
    <3> QED BY <3>1, <3>3, <3>4 DEF TakenInv
  <2>4. BegunInv'
    BY <1>1, <1>8 DEF BegunInv, OutboxTypeOK
  <2>5. AnswerTellsTruth'
    BY <1>1, <1>3, <1>8 DEF AnswerTellsTruth, OutboxTypeOK
  <2> QED BY <1>4, <1>6, <2>3, <2>4, <2>5
<1> QED BY <1>2, <1>7, <1>8

LEMMA OthersKept == ASSUME OutboxInv, NEW r \in Requests, faults' = 0 => faults = 0,
                           NEW q \in Requests, faults' \in Nat,
                           pc'[q] = pc[q], seg'[q] = seg[q], verdict'[q] = verdict[q],
                           accepted'[q] = accepted[q], row'[q] = row[q]
                    PROVE  SegInv(q)' /\ RowInv(q)'
<1>1. SegInv(q) /\ RowInv(q) /\ (faults > 0 => faults' > 0)
  BY OutboxAssumption DEF OutboxInv, OwnInv, OutboxTypeOK
<1> QED BY <1>1 DEF SegInv, RowInv

\* A step of a goroutine that took up its key and records no answer.
LEMMA WorkKept == ASSUME OutboxInv, NEW r \in Requests, NEW p, NEW x,
                         Took(r), pc[r] # "new", p # "new", p # "rate",
                         pc' = [pc EXCEPT ![r] = p], row' = [row EXCEPT ![r] = x],
                         p \in Working => pc[r] \in Working,
                         p = "insert" => pc[r] = "rate",
                         p = "answer" => Http(r),
                         pc[r] \in Working \/ x \in {row[r], "deleted"},
                         faults' = 0 => faults = 0,
                         UNCHANGED <<keyOf, key, seen, stops>>
                  PROVE  /\ TakenInv' /\ AnswerTellsTruth'
                         /\ begun' = begun => BegunInv'
<1> USE DEF OutboxInv, Http
<1>1. \A q \in Requests : pc'[q] = (IF q = r THEN p ELSE pc[q]) /\ row'[q] = (IF q = r THEN x ELSE row[q])
  BY DEF OutboxTypeOK
<1>2. \A q \in Requests : Took(q)' => Took(q)
  BY <1>1 DEF Took
<1>3. OneTook'
  BY <1>2 DEF TakenInv, OneTook
<1>4. TakenIsMarked'
  <2> SUFFICES ASSUME NEW q \in Requests, Took(q)'
               PROVE  /\ Http(q)' => key'[keyOf[q]] # "none"
                      /\ ~Http(q)' /\ stops' = 0 => keyOf[q] \in seen'
                         \/ \A t \in Requests : keyOf[t] = keyOf[q] => pc'[t] # "new"
    BY DEF TakenIsMarked
  <2> QED BY <1>1, <1>2 DEF TakenInv, TakenIsMarked
<1>5. PendingAtWork'
  BY <1>1 DEF TakenInv, PendingAtWork
<1>6. AnswerTellsTruth'
  <2>1. keyOf[r] \in HttpKeys /\ pc[r] \in Working => key[keyOf[r]] = "pending"
    BY DEF TakenInv, PendingAtWork
  <2> QED BY <1>1, <2>1 DEF AnswerTellsTruth
<1>7. ASSUME begun' = begun PROVE BegunInv'
  BY <1>1, <1>7 DEF BegunInv
<1> QED BY <1>3, <1>4, <1>5, <1>6, <1>7 DEF TakenInv

\* A step that records an answer, or fails to, and ends the goroutine.
LEMMA AnswerKept == ASSUME OutboxInv, NEW r \in Requests, NEW a \in Answers,
                           pc[r] \in {"rate", "answer"}, Http(r), Complete(r, a),
                           row[r] \notin {"none", "deleted"} /\ faults = 0 =>
                             /\ a = "created" => row[r] \in {"submitted", "sent"}
                             /\ a \in {"badGateway", "tooMany"} => row[r] = "failed",
                           pc' = [pc EXCEPT ![r] = "done"],
                           UNCHANGED <<keyOf, handlerVars, seen, begun, stops>>
                    PROVE  TakenInv' /\ BegunInv' /\ AnswerTellsTruth' /\ OwnInv'
<1> USE DEF OutboxInv, Http
<1>1. /\ keyOf[r] \in HttpKeys /\ key[keyOf[r]] = "pending" /\ a \notin {"none", "pending"}
      /\ \A k \in HttpKeys : k # keyOf[r] => key'[k] = key[k]
      /\ key'[keyOf[r]] \in {a, "pending"} /\ (faults' = 0 => faults = 0) /\ faults' \in Nat
  BY OutboxAssumption DEF Complete, DbFails, DbWorks, OutboxTypeOK, Answers, TakenInv,
     PendingAtWork, Working
<1>2. \A q \in Requests : pc'[q] = (IF q = r THEN "done" ELSE pc[q]) /\ row'[q] = row[q]
  BY DEF OutboxTypeOK, handlerVars
<1>3. \A q \in Requests : Took(q)' => Took(q)
  BY <1>2 DEF Took, Working
<1>4. \A q \in Requests : keyOf[q] = keyOf[r] /\ Took(q) => q = r
  BY DEF Took, Working, TakenInv, OneTook
<1>5. OneTook'
  BY <1>3 DEF TakenInv, OneTook
<1>6. TakenIsMarked'
  <2> SUFFICES ASSUME NEW q \in Requests, Took(q)'
               PROVE  /\ Http(q)' => key'[keyOf[q]] # "none"
                      /\ ~Http(q)' /\ stops' = 0 => keyOf[q] \in seen'
                         \/ \A t \in Requests : keyOf[t] = keyOf[q] => pc'[t] # "new"
    BY DEF TakenIsMarked
  <2> QED BY <1>1, <1>2, <1>3 DEF TakenInv, TakenIsMarked
<1>7. PendingAtWork'
  <2>1. \A q \in Requests : pc[q] \in Working => Took(q)
    BY DEF Took
  <2>2. \A q \in Requests : pc'[q] \in Working => q # r
    BY <1>2 DEF Working
  <2> QED BY <1>1, <1>2, <1>4, <2>1, <2>2 DEF TakenInv, PendingAtWork
<1>8. BegunInv'
  <2>1. key'[keyOf[r]] # "none"
    BY <1>1
  <2> QED BY <1>1, <1>2, <2>1 DEF BegunInv
<1>9. AnswerTellsTruth'
  <2> SUFFICES ASSUME NEW q \in Requests, Http(q), row[q] \notin {"none", "deleted"}, faults' = 0
               PROVE  /\ key'[keyOf[q]] = "created" => row[q] \in {"submitted", "sent"}
                      /\ key'[keyOf[q]] \in {"badGateway", "tooMany"} => row[q] = "failed"
    BY <1>2 DEF AnswerTellsTruth
  <2>1. CASE keyOf[q] = keyOf[r]
    <3>1. q = r
      BY <1>4, <2>1 DEF Took
    <3> QED BY <1>1, <3>1
  <2>2. CASE keyOf[q] # keyOf[r]
    BY <1>1, <2>2 DEF AnswerTellsTruth
  <2> QED BY <2>1, <2>2
<1>10. OwnInv'
  <2>1. SegInv(r)' /\ RowInv(r)'
    <3>1. SegInv(r) /\ RowInv(r) /\ (faults > 0 => faults' > 0)
      BY <1>1 DEF OwnInv, OutboxTypeOK
    <3> QED BY <1>1, <1>2, <3>1 DEF SegInv, RowInv, handlerVars
  <2>2. ASSUME NEW q \in Requests, q # r PROVE SegInv(q)' /\ RowInv(q)'
    BY <1>1, <1>2, <2>2, OthersKept DEF handlerVars
  <2> QED BY <2>1, <2>2 DEF OwnInv
<1> QED BY <1>5, <1>6, <1>7, <1>8, <1>9, <1>10 DEF TakenInv

LEMMA RateInv == ASSUME OutboxInv, NEW r \in Requests, Rate(r), UNCHANGED keyOf
                 PROVE  OutboxInv'
<1> USE OutboxAssumption DEF OutboxInv
<1>1. pc[r] = "rate" /\ Http(r) /\ Took(r) /\ row[r] = "none" /\ SegInv(r) /\ RowInv(r)
      /\ UNCHANGED <<keyOf, seg, verdict, accepted, row, seen, begun, stops>>
  BY DEF Rate, handlerVars, TakenInv, PendingAtWork, OwnInv, SegInv, Http, OutboxTypeOK,
     Took, Working
<1>2. CASE recent /\ Complete(r, "tooMany") /\ Goto(r, "done") /\ UNCHANGED recent
  <2>1. TakenInv' /\ BegunInv' /\ AnswerTellsTruth' /\ OwnInv'
    BY <1>1, <1>2, AnswerKept DEF Goto, Answers, handlerVars
  <2>2. key' \in [HttpKeys -> {"none", "pending"} \union Answers]
    BY <1>2 DEF Complete, OutboxTypeOK, Answers
  <2>3. /\ pc' \in [Requests -> {"new", "rate", "insert", "submit", "mark", "last", "answer",
                                 "done", "dead"}]
        /\ faults' \in 0..MaxFaults
    BY <1>2 DEF Complete, DbFails, DbWorks, Goto, OutboxTypeOK
  <2> QED BY <1>1, <1>2, <2>1, <2>2, <2>3 DEF OutboxTypeOK
<1>3. CASE recent' = TRUE /\ Goto(r, "insert") /\ DbWorks /\ UNCHANGED key
  <2>1. TakenInv' /\ BegunInv' /\ AnswerTellsTruth'
    <3>1. row' = [row EXCEPT ![r] = row[r]]
      BY <1>1 DEF OutboxTypeOK
    <3> QED BY <1>1, <1>3, <3>1, WorkKept DEF Goto, DbWorks, Working
  <2>2. \A q \in Requests : pc'[q] = IF q = r THEN "insert" ELSE pc[q]
    BY <1>3 DEF Goto, OutboxTypeOK
  <2>3. SegInv(r)' /\ RowInv(r)'
    BY <1>1, <1>3, <2>2 DEF SegInv, RowInv, DbWorks
  <2>4. ASSUME NEW q \in Requests, q # r PROVE SegInv(q)' /\ RowInv(q)'
    <3>1. faults' = faults /\ faults \in Nat
      BY <1>3 DEF DbWorks, OutboxTypeOK
    <3> QED BY <1>1, <2>2, <2>4, <3>1, OthersKept
  <2>5. OutboxTypeOK'
    BY <1>1, <1>3 DEF Goto, DbWorks, OutboxTypeOK
  <2> QED BY <2>1, <2>3, <2>4, <2>5 DEF OwnInv
<1> QED BY <1>2, <1>3 DEF Rate

LEMMA ClaimMessageInv == ASSUME OutboxInv, NEW r \in Requests, ClaimMessage(r), UNCHANGED keyOf
                         PROVE  OutboxInv'
<1> USE OutboxAssumption DEF OutboxInv
<1>1. /\ pc[r] = "new" /\ keyOf[r] \notin HttpKeys /\ keyOf[r] \in SipKeys
      /\ row[r] = "none" /\ SegInv(r) /\ RowInv(r)
      /\ UNCHANGED <<keyOf, seg, verdict, accepted, row, key, recent, begun, faults, stops>>
  BY DEF ClaimMessage, handlerVars, OwnInv, SegInv, Http, OutboxTypeOK, Keys
<1>2. PICK p \in {"done", "insert"} : pc' = [pc EXCEPT ![r] = p]
  BY DEF ClaimMessage, Goto
<1>3. \A q \in Requests : pc'[q] = IF q = r THEN p ELSE pc[q]
  BY <1>2 DEF OutboxTypeOK
<1>4. SegInv(r)' /\ RowInv(r)'
  BY <1>1, <1>3 DEF SegInv, RowInv
<1>5. ASSUME NEW q \in Requests, q # r PROVE SegInv(q)' /\ RowInv(q)'
  <2>1. faults \in Nat
    BY DEF OutboxTypeOK
  <2> QED BY <1>1, <1>3, <1>5, <2>1, OthersKept
<1>6. seen' \subseteq SipKeys
  BY <1>1 DEF ClaimMessage, OutboxTypeOK
<1>7. OutboxTypeOK'
  BY <1>1, <1>2, <1>6 DEF OutboxTypeOK
<1>8. BegunInv' /\ AnswerTellsTruth'
  BY <1>1, <1>3 DEF BegunInv, AnswerTellsTruth, Http
<1>9. PendingAtWork'
  BY <1>1, <1>3 DEF TakenInv, PendingAtWork, Http
\* What is forgotten belongs to a MESSAGE that comes no more.
<1>10. ASSUME NEW q \in Requests, ~Http(q), keyOf[q] \in seen, keyOf[q] \notin seen'
       PROVE  \A t \in Requests : keyOf[t] = keyOf[q] => pc[t] # "new"
  BY <1>10 DEF ClaimMessage
<1>11. TakenIsMarked'
  <2> SUFFICES ASSUME NEW q \in Requests, Took(q)'
               PROVE  /\ Http(q)' => key'[keyOf[q]] # "none"
                      /\ ~Http(q)' /\ stops' = 0 => keyOf[q] \in seen'
                         \/ \A t \in Requests : keyOf[t] = keyOf[q] => pc'[t] # "new"
    BY <1>1 DEF TakenIsMarked
  <2>1. CASE q = r
    <3>1. p = "insert"
      BY <1>1, <1>3, <2>1 DEF Took, Working
    <3>2. keyOf[r] \in seen'
      BY <1>1, <1>2, <3>1 DEF ClaimMessage, Goto, OutboxTypeOK
    <3> QED BY <1>1, <2>1, <3>2 DEF Http
  <2>2. CASE q # r
    <3>1. Took(q)
      BY <1>1, <1>3, <2>2 DEF Took
    <3>2. Http(q)' <=> Http(q)
      BY <1>1 DEF Http
    <3>3. \A t \in Requests : pc'[t] = "new" => pc[t] = "new"
      BY <1>3
    <3> QED BY <1>1, <1>10, <3>1, <3>2, <3>3 DEF TakenInv, TakenIsMarked
  <2> QED BY <2>1, <2>2
<1>12. OneTook'
  <2>1. \A q \in Requests : q # r => (Took(q)' <=> Took(q))
    BY <1>1, <1>3 DEF Took
  <2>2. Took(r)' => keyOf[r] \notin seen
    BY <1>1, <1>2, <1>3 DEF ClaimMessage, Took, Working, Goto, OutboxTypeOK
  <2>3. ASSUME Took(r)', NEW q \in Requests, q # r, keyOf[q] = keyOf[r], Took(q), stops = 0
        PROVE  FALSE
    <3>1. ~Http(q)
      BY <1>1, <2>3 DEF Http
    <3> QED BY <1>1, <2>2, <2>3, <3>1 DEF TakenInv, TakenIsMarked
  <2>4. \A q \in Requests : (Http(q)' <=> Http(q)) /\ ~Http(r)
    BY <1>1 DEF Http
  <2> SUFFICES ASSUME NEW q \in Requests, NEW t \in Requests, keyOf[q] = keyOf[t],
                      Took(q)', Took(t)', Http(t) \/ stops = 0, q # t
               PROVE  FALSE
    BY <1>1, <2>4 DEF OneTook
  <2>5. CASE q # r /\ t # r
    BY <2>1, <2>5 DEF TakenInv, OneTook
  <2>6. CASE q = r \/ t = r
    <3>1. stops = 0
      BY <1>1, <2>6 DEF Http
    <3> QED BY <2>1, <2>3, <2>6, <3>1
  <2> QED BY <2>5, <2>6
<1> QED BY <1>4, <1>5, <1>7, <1>8, <1>9, <1>11, <1>12 DEF OwnInv, TakenInv

\* What a step of the goroutine of r leaves to show once WorkKept did the rest.
LEMMA OwnKept == ASSUME OutboxInv, NEW r \in Requests, SegInv(r)', RowInv(r)', OutboxTypeOK',
                        faults' = 0 => faults = 0,
                        \A q \in Requests : q # r =>
                           /\ pc'[q] = pc[q] /\ seg'[q] = seg[q] /\ verdict'[q] = verdict[q]
                           /\ accepted'[q] = accepted[q] /\ row'[q] = row[q]
                 PROVE  OwnInv'
<1>1. faults' \in Nat
  BY OutboxAssumption DEF OutboxTypeOK
<1>2. ASSUME NEW q \in Requests, q # r PROVE SegInv(q)' /\ RowInv(q)'
  BY <1>1, <1>2, OthersKept
<1> QED BY <1>2 DEF OwnInv

LEMMA InsertInv == ASSUME OutboxInv, NEW r \in Requests, Insert(r), UNCHANGED keyOf
                   PROVE  OutboxInv'
<1> USE OutboxAssumption DEF OutboxInv
<1>1. /\ pc[r] = "insert" /\ Took(r) /\ row[r] = "none" /\ SegInv(r) /\ RowInv(r)
      /\ begun' = [begun EXCEPT ![keyOf[r]] = @ + 1] /\ (DbFails \/ DbWorks)
      /\ UNCHANGED <<keyOf, seg, accepted, key, seen, recent, stops>>
  BY DEF Insert, OwnInv, SegInv, Took, Working
<1>2. faults' \in 0..MaxFaults /\ (faults' = 0 => faults = 0 /\ DbWorks)
  BY <1>1, DbTyped
<1>3. PICK p \in {"submit", "answer", "done"}, x \in {"none", "queued"} :
         /\ pc' = [pc EXCEPT ![r] = p] /\ row' = [row EXCEPT ![r] = x]
         /\ p = "submit" => x = "queued" /\ verdict' = verdict
         /\ p # "submit" => x = "none" /\ verdict' = [verdict EXCEPT ![r] = "badGateway"]
         /\ p = "answer" => Http(r)
  <2>1. CASE Return(r, "badGateway") /\ UNCHANGED row
    <3>1. row' = [row EXCEPT ![r] = "none"]
      BY <1>1, <2>1 DEF OutboxTypeOK
    <3> QED BY <2>1, <3>1 DEF Return, Goto
  <2>2. CASE row' = [row EXCEPT ![r] = "queued"] /\ Goto(r, "submit") /\ UNCHANGED verdict
    BY <2>2 DEF Goto
  <2> QED BY <2>1, <2>2 DEF Insert
<1>4. \A q \in Requests : /\ pc'[q] = (IF q = r THEN p ELSE pc[q])
                          /\ row'[q] = (IF q = r THEN x ELSE row[q])
                          /\ verdict'[q] = (IF q = r /\ p # "submit" THEN "badGateway" ELSE verdict[q])
  BY <1>3 DEF OutboxTypeOK
<1>5. TakenInv' /\ AnswerTellsTruth'
  BY <1>1, <1>2, <1>3, WorkKept DEF Working
<1>6. OutboxTypeOK'
  <2>1. begun' \in [Keys -> Nat]
    BY <1>1 DEF OutboxTypeOK
  <2>2. verdict' \in [Requests -> {"ok", "unknown", "error", "created", "badGateway"}]
    BY <1>3 DEF OutboxTypeOK
  <2> QED BY <1>1, <1>2, <1>3, <2>1, <2>2 DEF OutboxTypeOK
<1>7. SegInv(r)' /\ RowInv(r)'
  BY <1>1, <1>3, <1>4 DEF SegInv, RowInv
<1>8. OwnInv'
  BY <1>1, <1>2, <1>4, <1>6, <1>7, OwnKept
\* Nobody else is about to begin the same key.
<1>9. BegunInv'
  <2>1. Http(r) => key[keyOf[r]] = "pending"
    BY <1>1 DEF TakenInv, PendingAtWork, Working
  <2>2. \A q \in Requests : q # r /\ Http(q) /\ pc[q] \in {"rate", "insert"} => keyOf[q] # keyOf[r]
    BY <1>1 DEF TakenInv, OneTook, Took, Working
  <2>3. \A k \in Keys : k # keyOf[r] => begun'[k] = begun[k]
    BY <1>1 DEF OutboxTypeOK
  <2>4. \A q \in Requests : keyOf[q] \in Keys
    BY DEF OutboxTypeOK
  <2> QED BY <1>1, <1>4, <2>1, <2>2, <2>3, <2>4 DEF BegunInv, Http, Keys
<1> QED BY <1>5, <1>6, <1>8, <1>9

LEMMA SubmitInv == ASSUME OutboxInv, NEW r \in Requests, Submit(r), UNCHANGED keyOf
                   PROVE  OutboxInv'
<1> USE OutboxAssumption DEF OutboxInv
<1>1. /\ pc[r] = "submit" /\ Took(r) /\ SegInv(r) /\ RowInv(r) /\ seg[r] \in 1..Segments
      /\ accepted[r] \in [1..Segments -> Nat]
      /\ pc' = [pc EXCEPT ![r] = "mark"] /\ row' = [row EXCEPT ![r] = row[r]]
      /\ UNCHANGED <<keyOf, seg, row, key, seen, recent, begun, faults, stops>>
  BY DEF Submit, Goto, sharedVars, OwnInv, Took, Working, OutboxTypeOK
<1>2. PICK v \in {"ok", "unknown", "error"}, n \in {0, 1} :
         /\ verdict' = [verdict EXCEPT ![r] = v]
         /\ accepted' = [accepted EXCEPT ![r] = [accepted[r] EXCEPT ![seg[r]] = n]]
         /\ v = "ok" => n = 1
         /\ v = "error" => n = 0
  <2>1. accepted[r][seg[r]] = 0
    BY <1>1 DEF SegInv
  <2>2. [accepted EXCEPT ![r][seg[r]] = @ + 1]
          = [accepted EXCEPT ![r] = [accepted[r] EXCEPT ![seg[r]] = 1]]
    BY <2>1
  <2>3. accepted = [accepted EXCEPT ![r] = [accepted[r] EXCEPT ![seg[r]] = 0]]
    BY <1>1, <2>1 DEF OutboxTypeOK
  <2>4. PICK v \in {"ok", "unknown", "error"} :
           /\ verdict' = [verdict EXCEPT ![r] = v]
           /\ \/ v # "error" /\ accepted' = [accepted EXCEPT ![r][seg[r]] = @ + 1]
              \/ v # "ok" /\ UNCHANGED accepted
    BY DEF Submit
  <2> QED BY <2>2, <2>3, <2>4
<1>3. /\ \A q \in Requests : /\ pc'[q] = (IF q = r THEN "mark" ELSE pc[q])
                             /\ verdict'[q] = (IF q = r THEN v ELSE verdict[q])
                             /\ q # r => accepted'[q] = accepted[q]
      /\ \A i \in 1..Segments : accepted'[r][i] = IF i = seg[r] THEN n ELSE accepted[r][i]
  BY <1>1, <1>2 DEF OutboxTypeOK
<1>4. TakenInv' /\ AnswerTellsTruth' /\ BegunInv'
  BY <1>1, WorkKept DEF Working
<1>5. OutboxTypeOK'
  <2>1. accepted' \in [Requests -> [1..Segments -> Nat]]
    BY <1>1, <1>2 DEF OutboxTypeOK
  <2> QED BY <1>1, <1>2, <2>1 DEF OutboxTypeOK
<1>6. SegInv(r)' /\ RowInv(r)'
  <2>1. row[r] \in {"queued", "submitted", "deleted"}
    BY <1>1 DEF RowInv
  <2>2. SegInv(r)'
    BY <1>1, <1>2, <1>3 DEF SegInv
  <2>3. RowInv(r)'
    BY <1>1, <1>3, <2>1 DEF RowInv
  <2> QED BY <2>2, <2>3
<1>7. OwnInv'
  BY <1>1, <1>3, <1>5, <1>6, OwnKept
<1> QED BY <1>4, <1>5, <1>7

\* How Send ends: the row agrees with the answer unless the database failed.
LEMMA ReturnInv ==
  ASSUME OutboxInv, NEW r \in Requests, NEW x, NEW a \in {"created", "badGateway"},
         pc[r] \in {"mark", "last"}, Return(r, a), row' = [row EXCEPT ![r] = x],
         faults' \in 0..MaxFaults, faults' = 0 => faults = 0,
         \/ x = row[r] /\ faults' > 0
         \/ x = "deleted" /\ a = "badGateway"
         \/ x = "failed" /\ a = "badGateway" /\ \E i \in 1..Segments : accepted[r][i] = 0
         \/ x = "submitted" /\ a = "created"
         \/ x = "sent" /\ a = "created" /\ \A i \in 1..Segments : accepted[r][i] > 0,
         UNCHANGED <<keyOf, seg, accepted, sharedVars, stops>>
  PROVE  OutboxInv'
<1> USE OutboxAssumption DEF OutboxInv
<1>1. /\ Took(r) /\ SegInv(r) /\ RowInv(r)
      /\ UNCHANGED <<keyOf, seg, accepted, key, seen, recent, begun, stops>>
      /\ verdict' = [verdict EXCEPT ![r] = a]
  BY DEF sharedVars, OwnInv, Took, Working, Return
<1>2. PICK p \in {"answer", "done"} : /\ pc' = [pc EXCEPT ![r] = p]
                                      /\ p = "answer" => Http(r)
  BY DEF Return, Goto
<1>3. \A q \in Requests : /\ pc'[q] = (IF q = r THEN p ELSE pc[q])
                          /\ row'[q] = (IF q = r THEN x ELSE row[q])
                          /\ verdict'[q] = (IF q = r THEN a ELSE verdict[q])
  BY <1>1, <1>2 DEF OutboxTypeOK
<1>4. TakenInv' /\ AnswerTellsTruth' /\ BegunInv'
  BY <1>1, <1>2, WorkKept DEF Working
<1>5. OutboxTypeOK'
  <2>1. x \in {"none", "queued", "submitted", "sent", "failed", "deleted"}
    BY DEF OutboxTypeOK
  <2> QED BY <1>1, <1>2, <2>1 DEF OutboxTypeOK
<1>6. SegInv(r)' /\ RowInv(r)'
  <2>1. SegInv(r)'
    BY <1>1, <1>3 DEF SegInv
  <2>2. row[r] \in {"queued", "submitted", "deleted"}
    BY <1>1 DEF RowInv
  <2>3. RowInv(r)'
    BY <1>1, <1>3, <2>2 DEF RowInv, OutboxTypeOK
  <2> QED BY <2>1, <2>3
<1>7. OwnInv'
  BY <1>1, <1>3, <1>5, <1>6, OwnKept
<1> QED BY <1>4, <1>5, <1>7

LEMMA MarkInv == ASSUME OutboxInv, NEW r \in Requests, Mark(r), UNCHANGED keyOf
                 PROVE  OutboxInv'
<1> USE OutboxAssumption DEF OutboxInv
<1>1. /\ pc[r] = "mark" /\ Took(r) /\ SegInv(r) /\ RowInv(r) /\ (DbFails \/ DbWorks)
      /\ UNCHANGED <<keyOf, accepted, key, seen, recent, begun, stops>>
      /\ seg[r] \in 1..Segments /\ row = [row EXCEPT ![r] = row[r]]
  BY DEF Mark, sharedVars, OwnInv, Took, Working, OutboxTypeOK
<1>2. faults' \in 0..MaxFaults /\ (faults' = 0 => faults = 0 /\ DbWorks)
  BY <1>1, DbTyped
<1>3. CASE /\ row[r] # "deleted" /\ DbWorks /\ verdict[r] = "error"
           /\ row' = [row EXCEPT ![r] = "failed"] /\ Return(r, "badGateway") /\ UNCHANGED seg
  <2>1. accepted[r][seg[r]] = 0
    BY <1>1, <1>3 DEF SegInv
  <2> QED BY <1>1, <1>2, <1>3, <2>1, ReturnInv DEF sharedVars
<1>4. CASE /\ row[r] # "deleted" /\ DbWorks /\ verdict[r] = "unknown"
           /\ row' = [row EXCEPT ![r] = "submitted"] /\ Return(r, "created") /\ UNCHANGED seg
  BY <1>1, <1>2, <1>4, ReturnInv DEF sharedVars
<1>5. CASE row[r] = "deleted" /\ DbWorks /\ Return(r, "badGateway") /\ UNCHANGED <<row, seg>>
  BY <1>1, <1>2, <1>5, ReturnInv DEF sharedVars
<1>6. CASE DbFails /\ Return(r, "badGateway") /\ UNCHANGED <<row, seg>>
  <2>1. faults' > 0
    BY <1>2, <1>6 DEF DbFails, OutboxTypeOK
  <2> QED BY <1>1, <1>2, <1>6, <2>1, ReturnInv DEF sharedVars
<1>7. ASSUME NEW p \in {"submit", "last"}, pc' = [pc EXCEPT ![r] = p], verdict[r] = "ok",
             row' = [row EXCEPT ![r] = "submitted"], UNCHANGED verdict,
             \/ p = "submit" /\ seg[r] < Segments /\ seg' = [seg EXCEPT ![r] = @ + 1]
             \/ p = "last" /\ seg[r] = Segments /\ UNCHANGED seg
      PROVE  OutboxInv'
  <2>1. TakenInv' /\ AnswerTellsTruth' /\ BegunInv'
    BY <1>1, <1>2, <1>7, WorkKept DEF Working
  <2>2. OutboxTypeOK'
    <3>1. CASE seg[r] < Segments /\ seg' = [seg EXCEPT ![r] = @ + 1]
      <4>1. seg[r] + 1 \in 1..Segments
        BY <1>1, <3>1
      <4> QED BY <1>1, <1>2, <1>7, <3>1, <4>1 DEF OutboxTypeOK
    <3>2. CASE UNCHANGED seg
      BY <1>1, <1>2, <1>7, <3>2 DEF OutboxTypeOK
    <3> QED BY <1>7, <3>1, <3>2
  <2>3. \A q \in Requests : /\ pc'[q] = (IF q = r THEN p ELSE pc[q])
                            /\ row'[q] = (IF q = r THEN "submitted" ELSE row[q])
                            /\ q # r => seg'[q] = seg[q]
    <3>1. \A q \in Requests : q # r => seg'[q] = seg[q]
      BY <1>7 DEF OutboxTypeOK
    <3>2. \A q \in Requests : /\ pc'[q] = (IF q = r THEN p ELSE pc[q])
                              /\ row'[q] = (IF q = r THEN "submitted" ELSE row[q])
      BY <1>7 DEF OutboxTypeOK
    <3> QED BY <3>1, <3>2
  <2>4. accepted[r][seg[r]] = 1
    BY <1>1, <1>7 DEF SegInv
  <2>5. SegInv(r)'
    <3>1. CASE p = "submit"
      <4>1. seg'[r] = seg[r] + 1 /\ seg'[r] \in 1..Segments
        BY <1>1, <1>7, <3>1 DEF OutboxTypeOK
      <4> QED BY <1>1, <1>7, <2>3, <2>4, <3>1, <4>1 DEF SegInv
    <3>2. CASE p = "last"
      BY <1>1, <1>7, <2>3, <2>4, <3>2 DEF SegInv
    <3> QED BY <1>7, <3>1, <3>2
  <2>6. RowInv(r)'
    BY <1>1, <1>7, <2>3 DEF RowInv
  <2>7. OwnInv'
    BY <1>1, <1>2, <1>7, <2>2, <2>3, <2>5, <2>6, OwnKept
  <2> QED BY <2>1, <2>2, <2>7
<1> QED BY <1>3, <1>4, <1>5, <1>6, <1>7 DEF Mark, Goto

LEMMA MarkSentInv == ASSUME OutboxInv, NEW r \in Requests, MarkSent(r), UNCHANGED keyOf
                     PROVE  OutboxInv'
<1> USE OutboxAssumption DEF OutboxInv
<1>1. /\ pc[r] = "last" /\ SegInv(r) /\ (DbFails \/ DbWorks)
      /\ UNCHANGED <<keyOf, seg, accepted, sharedVars, stops>>
      /\ row = [row EXCEPT ![r] = row[r]]
  BY DEF MarkSent, OwnInv, OutboxTypeOK
<1>2. faults' \in 0..MaxFaults /\ (faults' = 0 => faults = 0 /\ DbWorks)
  BY <1>1, DbTyped
<1>3. CASE row' = [row EXCEPT ![r] = "sent"] /\ Return(r, "created")
  <2>1. \A i \in 1..Segments : accepted[r][i] > 0
    BY <1>1 DEF SegInv
  <2> QED BY <1>1, <1>2, <1>3, <2>1, ReturnInv
<1>4. CASE row[r] = "deleted" /\ Return(r, "badGateway") /\ UNCHANGED row
  BY <1>1, <1>2, <1>4, ReturnInv
<1>5. CASE DbFails /\ Return(r, "badGateway") /\ UNCHANGED row
  <2>1. faults' > 0
    BY <1>2, <1>5 DEF DbFails, OutboxTypeOK
  <2> QED BY <1>1, <1>2, <1>5, <2>1, ReturnInv
<1> QED BY <1>3, <1>4, <1>5 DEF MarkSent

LEMMA RecordAnswerInv == ASSUME OutboxInv, NEW r \in Requests, RecordAnswer(r), UNCHANGED keyOf
                         PROVE  OutboxInv'
<1> USE OutboxAssumption DEF OutboxInv
<1>1. /\ pc[r] = "answer" /\ Http(r) /\ RowInv(r) /\ Complete(r, verdict[r])
      /\ pc' = [pc EXCEPT ![r] = "done"]
      /\ UNCHANGED <<keyOf, handlerVars, seen, recent, begun, stops>>
  BY DEF RecordAnswer, Goto, OwnInv, TakenInv, PendingAtWork, OutboxTypeOK
<1>2. verdict[r] \in {"created", "badGateway"} /\ verdict[r] \in Answers
  BY <1>1 DEF RowInv, Answers
<1>3. TakenInv' /\ BegunInv' /\ AnswerTellsTruth' /\ OwnInv'
  <2>1. row[r] \notin {"none", "deleted"} /\ faults = 0 =>
          /\ verdict[r] = "created" => row[r] \in {"submitted", "sent"}
          /\ verdict[r] \in {"badGateway", "tooMany"} => row[r] = "failed"
    BY <1>1 DEF RowInv
  <2> QED BY <1>1, <1>2, <2>1, AnswerKept
<1>4. OutboxTypeOK'
  <2>1. key' \in [HttpKeys -> {"none", "pending"} \union Answers]
    BY <1>1, <1>2 DEF Complete, OutboxTypeOK
  <2>2. faults' \in 0..MaxFaults
    BY <1>1 DEF Complete, DbFails, DbWorks, OutboxTypeOK
  <2> QED BY <1>1, <2>1, <2>2 DEF OutboxTypeOK, handlerVars
<1> QED BY <1>3, <1>4

LEMMA DeleteRowInv == ASSUME OutboxInv, NEW r \in Requests, DeleteRow(r) PROVE OutboxInv'
<1> USE OutboxAssumption DEF OutboxInv
<1>1. /\ row[r] # "none" /\ row' = [row EXCEPT ![r] = "deleted"] /\ SegInv(r) /\ RowInv(r)
      /\ Took(r) /\ pc' = [pc EXCEPT ![r] = pc[r]]
      /\ UNCHANGED <<keyOf, pc, seg, verdict, accepted, key, seen, recent, begun, faults, stops>>
  BY DEF DeleteRow, sharedVars, OwnInv, Took, OutboxTypeOK
<1>2. pc[r] \notin {"new", "rate", "insert"}
  BY <1>1 DEF SegInv
<1>3. TakenInv' /\ AnswerTellsTruth' /\ BegunInv'
  <2>1. pc[r] = "answer" => Http(r)
    BY DEF TakenInv, PendingAtWork
  <2> QED BY <1>1, <1>2, <2>1, WorkKept
<1>4. \A q \in Requests : row'[q] = IF q = r THEN "deleted" ELSE row[q]
  BY <1>1 DEF OutboxTypeOK
<1>5. OutboxTypeOK'
  BY <1>1 DEF OutboxTypeOK
<1>6. SegInv(r)' /\ RowInv(r)'
  <2>1. SegInv(r)'
    BY <1>1, <1>2, <1>4 DEF SegInv
  <2>2. RowInv(r)'
    BY <1>1, <1>2, <1>4 DEF RowInv
  <2> QED BY <2>1, <2>2
<1>7. OwnInv'
  BY <1>1, <1>4, <1>5, <1>6, OwnKept
<1> QED BY <1>3, <1>5, <1>7

LEMMA SecondPassesInv == ASSUME OutboxInv, SecondPasses PROVE OutboxInv'
<1> USE DEF OutboxInv
<1>1. recent' = FALSE /\ UNCHANGED <<keyOf, pc, seg, verdict, accepted, row, key, seen, begun,
                                     faults, stops>>
  BY DEF SecondPasses, handlerVars
<1>2. OutboxTypeOK'
  BY <1>1 DEF OutboxTypeOK
<1>3. TakenInv' /\ BegunInv' /\ AnswerTellsTruth'
  BY <1>1 DEF TakenInv, OneTook, TakenIsMarked, PendingAtWork, BegunInv, AnswerTellsTruth, Took, Http
<1>4. OwnInv'
  BY <1>1 DEF OwnInv, SegInv, RowInv
<1> QED BY <1>2, <1>3, <1>4

LEMMA StopInv == ASSUME OutboxInv, Stop PROVE OutboxInv'
<1> USE OutboxAssumption DEF OutboxInv
<1>1. /\ stops' = stops + 1 /\ stops' \in 0..MaxStops /\ stops' # 0
      /\ seen' = {} /\ recent' = FALSE
      /\ UNCHANGED <<keyOf, seg, verdict, accepted, row, key, begun, faults>>
  BY DEF Stop, handlerVars, OutboxTypeOK
<1>2. \A q \in Requests : pc'[q] = IF pc[q] \in {"new", "done"} THEN pc[q] ELSE "dead"
  BY DEF Stop
<1>3. pc' \in [Requests -> {"new", "rate", "insert", "submit", "mark", "last", "answer",
                            "done", "dead"}]
  BY DEF Stop, OutboxTypeOK
<1>4. OutboxTypeOK'
  BY <1>1, <1>3 DEF OutboxTypeOK
<1>5. \A q \in Requests : pc'[q] \in Working => pc[q] \in Working
  BY <1>2 DEF Working, OutboxTypeOK
<1>6. \A q \in Requests : (Took(q)' => Took(q)) /\ (Http(q)' <=> Http(q))
  BY <1>1, <1>5 DEF Took, Http
<1>7. OneTook'
  BY <1>1, <1>6 DEF TakenInv, OneTook
<1>8. TakenIsMarked'
  BY <1>1, <1>6 DEF TakenInv, TakenIsMarked
<1>9. PendingAtWork'
  BY <1>1, <1>2, <1>5, <1>6 DEF TakenInv, PendingAtWork
<1>10. BegunInv' /\ AnswerTellsTruth'
  BY <1>1, <1>2 DEF BegunInv, AnswerTellsTruth, Http
<1>11. ASSUME NEW q \in Requests PROVE SegInv(q)' /\ RowInv(q)'
  <2>1. SegInv(q) /\ RowInv(q)
    BY DEF OwnInv
  <2>2. SegInv(q)'
    BY <1>1, <1>2, <2>1 DEF SegInv
  <2>3. RowInv(q)'
    BY <1>1, <1>2, <2>1 DEF RowInv
  <2> QED BY <2>2, <2>3
<1> QED BY <1>4, <1>7, <1>8, <1>9, <1>10, <1>11 DEF OwnInv, TakenInv

LEMMA StepInv == OutboxInv /\ [OutboxNext]_outboxVars => OutboxInv'
<1> SUFFICES ASSUME OutboxInv, [OutboxNext]_outboxVars PROVE OutboxInv'
  OBVIOUS
<1>1. ASSUME NEW r \in Requests, Work(r) PROVE OutboxInv'
  BY <1>1, ClaimKeyInv, RateInv, ClaimMessageInv, InsertInv, SubmitInv, MarkInv, MarkSentInv,
     RecordAnswerInv DEF Work
<1>2. CASE UNCHANGED outboxVars
  <2>1. OutboxTypeOK' /\ TakenInv' /\ BegunInv' /\ AnswerTellsTruth'
    BY <1>2 DEF OutboxInv, outboxVars, OutboxTypeOK, TakenInv, OneTook, TakenIsMarked,
       PendingAtWork, BegunInv, AnswerTellsTruth, Took, Http
  <2>2. OwnInv'
    BY <1>2 DEF OutboxInv, outboxVars, OwnInv, SegInv, RowInv
  <2> QED BY <2>1, <2>2 DEF OutboxInv
<1> QED BY <1>1, <1>2, DeleteRowInv, SecondPassesInv, StopInv DEF OutboxNext

LEMMA Always == OutboxSpec => []OutboxInv
BY InitInv, StepInv, PTL DEF OutboxSpec

(* Whatever clients, the modem and the database do, the variables keep     *)
(* their types.                                                            *)
THEOREM OutboxTyped == OutboxSpec => []OutboxTypeOK
BY Always, PTL DEF OutboxInv

(* No segment is submitted twice for one Idempotency-Key, nor for one      *)
(* MESSAGE as long as the process runs.                                    *)
THEOREM SubmittedOnce == OutboxSpec => []NeverSubmittedTwice
<1>1. OutboxInv => NeverSubmittedTwice
  <2> SUFFICES ASSUME OutboxInv, NEW q \in Requests, NEW r \in Requests, NEW i \in 1..Segments,
                      keyOf[q] = keyOf[r], accepted[q][i] > 0, accepted[r][i] > 0,
                      Http(r) \/ stops = 0
               PROVE  q = r /\ accepted[r][i] = 1
    BY DEF NeverSubmittedTwice
  <2>1. accepted[r][i] \in Nat /\ accepted[q][i] \in Nat
    BY DEF OutboxInv, OutboxTypeOK
  <2>2. row[r] # "none" /\ row[q] # "none" /\ accepted[r][i] <= 1
    BY DEF OutboxInv, OwnInv, RowInv, SegInv
  <2>3. q = r
    BY <2>2 DEF OutboxInv, TakenInv, OneTook, Took
  <2> QED BY <2>1, <2>2, <2>3
<1> QED BY <1>1, Always, PTL

(* The status of a message row never contradicts the module.               *)
THEOREM RowsTrue == OutboxSpec => []RowTellsTruth
<1>1. OutboxInv => RowTellsTruth
  BY DEF OutboxInv, OwnInv, RowInv, RowTellsTruth
<1> QED BY <1>1, Always, PTL

(* The answer on record agrees with the row, unless the database failed or *)
(* the row was deleted.                                                    *)
THEOREM AnswersTrue == OutboxSpec => []AnswerTellsTruth
BY Always, PTL DEF OutboxInv

-----------------------------------------------------------------------------
(* What was taken up has somebody at work on it.                           *)

\* Send had the text of r, or is about to.
Handed(r) == row[r] # "none" \/ pc[r] = "insert" \/ verdict[r] = "badGateway"

WorkerInv == KeyHasWorker /\ MessageHandedOver

LEMMA DbFaults == ASSUME OutboxTypeOK, DbWorks \/ DbFails
                  PROVE  (faults > 0 => faults' > 0) /\ (DbFails => faults' > 0)
BY OutboxAssumption DEF DbWorks, DbFails, OutboxTypeOK

\* Where a step of one request may lead it and its key.
LEMMA WorkLeads == ASSUME OutboxInv, NEW r \in Requests, Work(r)
                   PROVE  /\ UNCHANGED keyOf /\ (faults > 0 => faults' > 0)
                          /\ \A q \in Requests : q # r => UNCHANGED <<pc[q], row[q], verdict[q]>>
                          /\ pc[r] \in Working /\ Http(r) =>
                                pc'[r] \in Working \/ faults' > 0 \/ key'[keyOf[r]] # "pending"
                          /\ Handed(r) => Handed(r)'
<1> USE OutboxAssumption DEF OutboxInv, Goto, Return, OutboxTypeOK, Working
<1>1. UNCHANGED keyOf /\ (faults > 0 => faults' > 0)
  BY DbFaults DEF Work, ClaimKey, Rate, ClaimMessage, Insert, Submit, Mark, MarkSent, RecordAnswer, Complete
<1>2. \A q \in Requests : q # r => UNCHANGED <<pc[q], row[q], verdict[q]>>
  BY DEF Work, ClaimKey, Rate, ClaimMessage, Insert, Submit, Mark, MarkSent, RecordAnswer, handlerVars
<1>3. row[r] # "none" => row'[r] # "none"
  BY DEF Work, ClaimKey, Rate, ClaimMessage, Insert, Submit, Mark, MarkSent, RecordAnswer, handlerVars
<1>4. ASSUME pc[r] \in Working, Http(r)
      PROVE  pc'[r] \in Working \/ faults' > 0 \/ key'[keyOf[r]] # "pending"
  <2>1. CASE Rate(r) \/ RecordAnswer(r)
    <3>1. CASE pc'[r] \in Working
      BY <3>1
    <3>2. CASE pc'[r] \notin Working
      <4>1. \E a \in Answers : Complete(r, a)
        BY <2>1, <3>2 DEF Rate, RecordAnswer, OwnInv, RowInv, Answers
      <4>2. keyOf[r] \in HttpKeys
        BY <1>4 DEF Http
      <4> QED BY <4>1, <4>2, DbFaults DEF Complete, Answers
    <3> QED BY <3>1, <3>2
  <2>2. CASE Insert(r) \/ Submit(r) \/ Mark(r) \/ MarkSent(r)
    BY <1>4, <2>2 DEF Insert, Submit, Mark, MarkSent, Http
  <2> QED BY <1>4, <2>1, <2>2 DEF Work, ClaimKey, ClaimMessage
\* Whoever submits has a row; Send leaves one or returns an error.
<1>5. ASSUME Handed(r) PROVE Handed(r)'
  <2>1. CASE row[r] # "none"
    BY <1>3, <2>1 DEF Handed
  <2>2. CASE Insert(r)
    BY <2>2 DEF Insert, Handed
  <2>3. CASE Submit(r) \/ Mark(r) \/ MarkSent(r)
    BY <1>3, <2>3 DEF Submit, Mark, MarkSent, OwnInv, RowInv, Handed
  <2>4. CASE ClaimKey(r) \/ Rate(r) \/ ClaimMessage(r) \/ RecordAnswer(r)
    BY <1>5, <2>4 DEF ClaimKey, Rate, ClaimMessage, RecordAnswer, handlerVars, Handed
  <2> QED BY <2>1, <2>2, <2>3, <2>4 DEF Work
<1> QED BY <1>1, <1>2, <1>3, <1>4, <1>5

LEMMA WorkWorker == ASSUME OutboxInv, WorkerInv, NEW r \in Requests, Work(r) PROVE WorkerInv'
<1> USE DEF OutboxInv, OutboxTypeOK
<1>0. r \in Requests /\ keyOf[r] \in Keys
  OBVIOUS
<1>1. ASSUME NEW k \in HttpKeys, key'[k] = "pending"
      PROVE  faults' > 0 \/ \E q \in Requests : keyOf'[q] = k /\ pc'[q] \in Working
  <2>1. CASE key[k] = "pending"
    <3>1. faults > 0 \/ \E q \in Requests : keyOf[q] = k /\ pc[q] \in Working
      BY <2>1 DEF WorkerInv, KeyHasWorker
    <3>2. ASSUME NEW q \in Requests, keyOf[q] = k, pc[q] \in Working
          PROVE  faults' > 0 \/ (keyOf'[q] = k /\ pc'[q] \in Working)
      BY <1>1, <3>2, WorkLeads DEF Http
    <3> QED BY <3>1, <3>2, WorkLeads
  <2>2. CASE key[k] # "pending"
    <3>1. CASE ClaimKey(r)
      BY <1>1, <2>2, <3>1, WorkLeads DEF ClaimKey, Goto, Working
    <3>2. CASE ~ClaimKey(r)
      BY <1>1, <2>2, <3>2 DEF Work, Rate, ClaimMessage, Insert, Submit, Mark, MarkSent, RecordAnswer,
         Complete, sharedVars, OwnInv, RowInv
    <3> QED BY <3>1, <3>2
  <2> QED BY <2>1, <2>2
<1>2. ASSUME NEW k \in seen'
      PROVE  \E q \in Requests : keyOf'[q] = k /\ Handed(q)'
  <2>1. CASE k \in seen
    <3>1. PICK q \in Requests : keyOf[q] = k /\ Handed(q)
      BY <2>1 DEF WorkerInv, MessageHandedOver, Handed
    <3>2. Handed(q)'
      BY <3>1, WorkLeads DEF Handed
    <3> QED BY <3>1, <3>2, WorkLeads
  <2>2. CASE k \notin seen
    <3>1. ClaimMessage(r)
      BY <1>2, <2>2 DEF Work, ClaimKey, Rate, Insert, Submit, Mark, MarkSent, RecordAnswer, sharedVars
    <3> QED BY <1>2, <2>2, <3>1, WorkLeads DEF ClaimMessage, Goto, Handed
  <2> QED BY <2>1, <2>2
<1> QED BY <1>1, <1>2 DEF WorkerInv, KeyHasWorker, MessageHandedOver, Handed

LEMMA StepWorker == OutboxInv /\ WorkerInv /\ [OutboxNext]_outboxVars => WorkerInv'
<1> SUFFICES ASSUME OutboxInv, WorkerInv, [OutboxNext]_outboxVars PROVE WorkerInv'
  OBVIOUS
<1> USE DEF WorkerInv, KeyHasWorker, MessageHandedOver
<1>1. ASSUME NEW r \in Requests, Work(r) PROVE WorkerInv'
  BY <1>1, WorkWorker
<1>2. ASSUME NEW r \in Requests, DeleteRow(r) PROVE WorkerInv'
  <2>1. UNCHANGED <<keyOf, pc, key, seen, faults, verdict>>
    BY <1>2 DEF DeleteRow, sharedVars
  <2>2. \A q \in Requests : row[q] # "none" => row'[q] # "none"
    BY <1>2 DEF DeleteRow, OutboxInv, OutboxTypeOK
  <2> QED BY <2>1, <2>2
<1>3. CASE SecondPasses
  BY <1>3 DEF SecondPasses, handlerVars
<1>4. CASE Stop
  <2>1. UNCHANGED <<keyOf, key, faults>> /\ seen' = {}
    BY <1>4 DEF Stop
  <2>2. \A q \in Requests : pc[q] \in Working => pc'[q] \in Working
    BY <1>4 DEF Stop, Working
  <2> QED BY <2>1, <2>2
<1>5. CASE UNCHANGED outboxVars
  BY <1>5 DEF outboxVars
<1> QED BY <1>1, <1>2, <1>3, <1>4, <1>5 DEF OutboxNext

LEMMA AlwaysWorker == OutboxSpec => []WorkerInv
<1>1. OutboxInit => WorkerInv
  <2> SUFFICES ASSUME OutboxInit PROVE WorkerInv
    OBVIOUS
  <2>1. seen = {} /\ \A k \in HttpKeys : key[k] = "none"
    BY DEF OutboxInit
  <2> QED BY <2>1 DEF WorkerInv, KeyHasWorker, MessageHandedOver
<1> QED BY <1>1, StepWorker, Always, PTL DEF OutboxSpec

(* Whatever clients, the modem and the database do, a claimed key without  *)
(* an answer has a goroutine at work on it, or one that a stop killed.     *)
THEOREM KeysWorkedOn == OutboxSpec => []KeyHasWorker
BY AlwaysWorker, PTL DEF WorkerInv

(* A MESSAGE that was answered 200 is in a row or in a goroutine's hands,  *)
(* or Send returned an error for it: whatever requests, restarts and       *)
(* failures of the database there are, none is dropped before Send.        *)
THEOREM MessagesHandedOver == OutboxSpec => []MessageHandedOver
BY AlwaysWorker, PTL DEF WorkerInv

-----------------------------------------------------------------------------
Claimed == {k \in HttpKeys : key[k] # "none"}
Begun == [k \in HttpKeys |-> begun[k]]
Answered == [k \in HttpKeys |-> IF key[k] = "pending" THEN "none" ELSE key[k]]

LEMMA InitOnce == OutboxInit => ApiOnce!OnceInit
BY DEF OutboxInit, ApiOnce!OnceInit, Keys

LEMMA AnswerOnce == ASSUME OutboxInv, NEW r \in Requests, Http(r), key[keyOf[r]] = "pending",
                           NEW a \in Answers, Complete(r, a), UNCHANGED begun
                    PROVE  [ApiOnce!OnceNext]_(ApiOnce!onceVars)
<1> USE DEF OutboxInv
<1>1. keyOf[r] \in HttpKeys /\ keyOf[r] \in Claimed /\ a \notin {"none", "pending"}
      /\ Begun' = Begun
  BY DEF Http, Claimed, Answers, Begun
<1>2. CASE UNCHANGED key
  <2>1. Claimed' = Claimed /\ Answered' = Answered
    BY <1>2 DEF Claimed, Answered
  <2> QED BY <1>1, <2>1 DEF ApiOnce!onceVars, Claimed, Begun, Answered
<1>3. CASE key' = [key EXCEPT ![keyOf[r]] = a]
  <2>1. Claimed' = Claimed
    BY <1>1, <1>3 DEF Claimed, OutboxTypeOK
  <2>2. Answered[keyOf[r]] = "none" /\ Answered' = [Answered EXCEPT ![keyOf[r]] = a]
    BY <1>1, <1>3 DEF Answered, OutboxTypeOK
  <2>3. ApiOnce!Answer
    BY <1>1, <2>1, <2>2 DEF ApiOnce!Answer, Claimed, Begun, Answered
  <2> QED BY <2>3 DEF ApiOnce!OnceNext
<1> QED BY <1>2, <1>3 DEF Complete

LEMMA BeginOnce == ASSUME OutboxInv, NEW r \in Requests, Insert(r), UNCHANGED keyOf
                   PROVE  [ApiOnce!OnceNext]_(ApiOnce!onceVars)
<1> USE DEF OutboxInv
<1>1. /\ pc[r] = "insert" /\ UNCHANGED key /\ begun' = [begun EXCEPT ![keyOf[r]] = @ + 1]
      /\ keyOf[r] \in Keys
  BY DEF Insert, OutboxTypeOK
<1>2. Claimed' = Claimed /\ Answered' = Answered
  BY <1>1 DEF Claimed, Answered
<1>3. CASE Http(r)
  <2>1. key[keyOf[r]] = "pending" /\ begun[keyOf[r]] = 0
    BY <1>1, <1>3 DEF TakenInv, PendingAtWork, Working, BegunInv
  <2>2. keyOf[r] \in Claimed /\ Begun[keyOf[r]] = 0 /\ Answered[keyOf[r]] = "none"
    BY <1>3, <2>1 DEF Http, Claimed, Begun, Answered
  <2>3. Begun' = [Begun EXCEPT ![keyOf[r]] = 1]
    <3>1. \A k \in HttpKeys : begun'[k] = IF k = keyOf[r] THEN 1 ELSE begun[k]
      BY <1>1, <2>1 DEF OutboxTypeOK, Keys
    <3> QED BY <1>3, <3>1 DEF Begun, Http
  <2>4. ApiOnce!Begin
    BY <1>2, <2>2, <2>3 DEF ApiOnce!Begin, Claimed, Begun, Answered
  <2> QED BY <2>4 DEF ApiOnce!OnceNext
<1>4. CASE ~Http(r)
  <2>1. \A k \in HttpKeys : begun'[k] = begun[k]
    BY <1>1, <1>4 DEF Http, OutboxTypeOK, Keys
  <2>2. Begun' = Begun
    BY <2>1 DEF Begun
  <2> QED BY <1>2, <2>2 DEF ApiOnce!onceVars, Claimed, Begun, Answered
<1> QED BY <1>3, <1>4

LEMMA StepOnce == OutboxInv /\ [OutboxNext]_outboxVars => [ApiOnce!OnceNext]_(ApiOnce!onceVars)
<1> SUFFICES ASSUME OutboxInv, [OutboxNext]_outboxVars
             PROVE  [ApiOnce!OnceNext]_(ApiOnce!onceVars)
  OBVIOUS
<1> USE DEF OutboxInv
<1>1. ASSUME UNCHANGED <<key, begun>> PROVE [ApiOnce!OnceNext]_(ApiOnce!onceVars)
  BY <1>1 DEF ApiOnce!onceVars
<1>2. ASSUME NEW r \in Requests, Work(r) PROVE [ApiOnce!OnceNext]_(ApiOnce!onceVars)
  <2>1. UNCHANGED keyOf
    BY <1>2 DEF Work
  <2>2. CASE ClaimKey(r)
    <3>1. keyOf[r] \in HttpKeys /\ UNCHANGED begun
      BY <2>2 DEF ClaimKey, Http
    <3>2. CASE key[keyOf[r]] = "none" /\ key' = [key EXCEPT ![keyOf[r]] = "pending"]
      <4>1. keyOf[r] \notin Claimed /\ Claimed' = Claimed \union {keyOf[r]}
        BY <3>1, <3>2 DEF Claimed, OutboxTypeOK
      <4>2. Answered' = Answered /\ Begun' = Begun
        BY <3>1, <3>2 DEF Answered, Begun, OutboxTypeOK
      <4>3. ApiOnce!Claim
        BY <3>1, <4>1, <4>2 DEF ApiOnce!Claim, Claimed, Begun, Answered
      <4> QED BY <4>3 DEF ApiOnce!OnceNext
    <3>3. CASE UNCHANGED key
      BY <1>1, <3>1, <3>3
    <3> QED BY <2>2, <3>2, <3>3 DEF ClaimKey
  <2>3. CASE Rate(r)
    <3>1. Http(r) /\ key[keyOf[r]] = "pending" /\ UNCHANGED begun
      BY <2>3 DEF Rate, TakenInv, PendingAtWork, Working, Http
    <3> QED BY <1>1, <2>3, <3>1, AnswerOnce DEF Rate, Answers
  <2>4. CASE RecordAnswer(r)
    <3>1. Http(r) /\ key[keyOf[r]] = "pending" /\ UNCHANGED begun
      BY <2>4 DEF RecordAnswer, TakenInv, PendingAtWork, Working, Http
    <3>2. verdict[r] \in Answers
      BY <2>4 DEF RecordAnswer, OwnInv, RowInv, Answers
    <3> QED BY <2>4, <3>1, <3>2, AnswerOnce DEF RecordAnswer
  <2>5. CASE Insert(r)
    BY <2>1, <2>5, BeginOnce
  <2>6. CASE ClaimMessage(r) \/ Submit(r) \/ Mark(r) \/ MarkSent(r)
    BY <1>1, <2>6 DEF ClaimMessage, Submit, Mark, MarkSent, sharedVars
  <2> QED BY <1>2, <2>2, <2>3, <2>4, <2>5, <2>6 DEF Work
<1>3. CASE (\E r \in Requests : DeleteRow(r)) \/ SecondPasses \/ Stop \/ UNCHANGED outboxVars
  BY <1>1, <1>3 DEF DeleteRow, SecondPasses, Stop, sharedVars, outboxVars
<1> QED BY <1>2, <1>3 DEF OutboxNext

(* Every behaviour of the texts keeps, key by key, the promise of Once.    *)
THEOREM TextsKeepOnce == OutboxSpec => KeysAreOnce
<1>1. OutboxSpec => [][ApiOnce!OnceNext]_(ApiOnce!onceVars)
  BY Always, StepOnce, PTL DEF OutboxSpec
<1>2. OutboxSpec => ApiOnce!OnceInit
  BY InitOnce DEF OutboxSpec
<1> QED BY <1>1, <1>2, PTL DEF KeysAreOnce, ApiOnce!OnceSpec
=============================================================================
