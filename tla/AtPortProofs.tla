---------------------------- MODULE AtPortProofs ----------------------------
(***************************************************************************)
(* Proofs about AtPort, for every number of workers, of unread answers and *)
(* of reads outliving their exchange.                                      *)
(*                                                                         *)
(* A submission that found the port quiet keeps it so: as long as it holds *)
(* the port, the only command on its way, or the only answer, is the one   *)
(* of its own current stage (OwnTraffic).  The verdict it returns is then  *)
(* the modem's verdict on its own message.                                 *)
(***************************************************************************)
EXTENDS AtPort, TLAPS

\* The port's owner is the one worker between taking and giving back.
Exclusive == \A w \in Workers : pc[w] \in {"write", "read"} <=> io = w

\* The current stage may be written: only the text needs an open prompt.
Ready(w) ==
  ~accepted[w] /\ prompt = IF Stage(w) = "DATA" THEN w ELSE NoWorker

\* What the modem's answer k to the current stage tells.
Answered(w, k) ==
  \/ k = "error" /\ ~accepted[w]
  \/ k = "prompt" /\ Stage(w) = "CMGS" /\ prompt = w /\ ~accepted[w]
  \/ /\ k = "ok" /\ Stage(w) # "CMGS" /\ prompt = NoWorker
     /\ accepted[w] <=> Stage(w) = "DATA"
     /\ job[w] \in Submissions => mode = job[w]

OwnTraffic(w) ==
  /\ stray = 0
  /\ job[w] \in Submissions /\ at[w] > 1 => mode = job[w]
  /\ \/ pc[w] = "write" /\ wire = <<>> /\ resp = <<>> /\ Ready(w)
     \/ pc[w] = "read" /\ wire = <<[by |-> w, cmd |-> Stage(w)]>> /\ resp = <<>> /\ Ready(w)
     \/ pc[w] = "read" /\ wire = <<>> /\ resp = <<>> /\ ~accepted[w]
     \/ /\ pc[w] = "read" /\ wire = <<>>
        /\ \E k \in {"ok", "error", "prompt"} :
             resp = <<[by |-> w, cmd |-> Stage(w), kind |-> k]>> /\ Answered(w, k)

\* What a result that was returned says, and goes on saying: no text of a
\* submission reported failed is still on its way.
Verdict(w) ==
  /\ pc[w] # "idle" => result[w] = "none"
  /\ pc[w] = "wait" /\ job[w] \in Submissions => ~quiet[w] /\ at[w] = 1
  /\ job[w] \in Submissions /\ quiet[w] /\ result[w] = "ok" => accepted[w]
  /\ job[w] \in Submissions /\ quiet[w] /\ result[w] = "error" =>
       /\ ~accepted[w]
       /\ \A i \in DOMAIN wire : ~(wire[i].by = w /\ wire[i].cmd = "DATA")

PortInv ==
  /\ TypeOK
  /\ Exclusive
  /\ \A w \in Workers : io = w /\ quiet[w] => OwnTraffic(w)
  /\ \A w \in Workers : Verdict(w)
-----------------------------------------------------------------------------
LEMMA LenFacts == \A j \in Jobs : Len(Stages(j)) \in 1 .. 4
BY DEF Jobs, Stages

LEMMA StagesFacts ==
  \A j \in Jobs : \A i \in 1 .. Len(Stages(j)) :
    /\ Stages(j)[i] \in Cmds
    /\ j \in Submissions =>
         /\ Stages(j)[i] = "DATA" <=> i = Len(Stages(j))
         /\ i < Len(Stages(j)) => (Stages(j)[i+1] = "DATA" <=> Stages(j)[i] = "CMGS")
         /\ i = 1 => Stages(j)[i] = IF j = "pdu" THEN "CMGF0" ELSE "CMGF1"
         /\ i > 1 => Stages(j)[i] \notin {"CMGF0", "CMGF1"}
    /\ j \notin Submissions => Stages(j)[i] \notin {"CMGS", "DATA"}
<1> SUFFICES ASSUME NEW j \in Jobs, NEW i \in 1 .. Len(Stages(j))
             PROVE  /\ Stages(j)[i] \in Cmds
                    /\ j \in Submissions =>
                         /\ Stages(j)[i] = "DATA" <=> i = Len(Stages(j))
                         /\ i < Len(Stages(j)) =>
                              (Stages(j)[i+1] = "DATA" <=> Stages(j)[i] = "CMGS")
                         /\ i = 1 => Stages(j)[i] = IF j = "pdu" THEN "CMGF0" ELSE "CMGF1"
                         /\ i > 1 => Stages(j)[i] \notin {"CMGF0", "CMGF1"}
                    /\ j \notin Submissions => Stages(j)[i] \notin {"CMGS", "DATA"}
  OBVIOUS
<1>1. CASE j = "command"
  BY <1>1 DEF Stages, Submissions, Cmds
<1>2. CASE j = "list"
  BY <1>2 DEF Stages, Submissions, Cmds
<1>3. CASE j = "pdu"
  BY <1>3 DEF Stages, Submissions, Cmds
<1>4. CASE j = "text"
  BY <1>4 DEF Stages, Submissions, Cmds
<1> QED BY <1>1, <1>2, <1>3, <1>4 DEF Jobs

\* The same, of the stage a worker is at.
LEMMA StageFacts ==
  ASSUME TypeOK, NEW w \in Workers
  PROVE  /\ job[w] \in Jobs /\ at[w] \in 1 .. Len(Stages(job[w])) /\ Stage(w) \in Cmds
         /\ job[w] \in Submissions =>
              /\ Stage(w) = "DATA" <=> IsLast(w)
              /\ at[w] = 1 => Stage(w) = IF job[w] = "pdu" THEN "CMGF0" ELSE "CMGF1"
              /\ at[w] # 1 => at[w] > 1 /\ Stage(w) \notin {"CMGF0", "CMGF1"}
         /\ job[w] \notin Submissions => Stage(w) \notin {"CMGS", "DATA"}
<1>1. job[w] \in Jobs /\ at[w] \in 1 .. 4 /\ at[w] <= Len(Stages(job[w]))
  BY DEF TypeOK
<1>2. Len(Stages(job[w])) \in Nat
  BY <1>1, LenFacts
<1>3. at[w] \in 1 .. Len(Stages(job[w]))
  BY <1>1, <1>2
<1>4. at[w] # 1 => at[w] > 1
  BY <1>1
<1> QED BY <1>1, <1>3, <1>4, StagesFacts DEF Stage, IsLast
-----------------------------------------------------------------------------
(* Types.                                                                  *)

LEMMA InitTyped == Init => TypeOK
<1> SUFFICES ASSUME Init PROVE TypeOK
  OBVIOUS
<1>1. \A w \in Workers : at[w] <= Len(Stages(job[w]))
  <2>1. 1 <= Len(Stages("command"))
    BY LenFacts DEF Jobs
  <2> QED BY <2>1 DEF Init
<1> QED BY <1>1 DEF Init, TypeOK, Jobs, Modes

\* Advance keeps the stage within the call.
LEMMA AdvanceTyped ==
  ASSUME TypeOK, NEW w \in Workers, Advance(w)
  PROVE  /\ io' \in Workers \cup {NoWorker}
         /\ pc' \in [Workers -> {"idle", "wait", "write", "read"}]
         /\ job' = job
         /\ at' \in [Workers -> 1..4]
         /\ \A v \in Workers : at'[v] <= Len(Stages(job'[v]))
         /\ result' \in [Workers -> {"none", "ok", "error", "unknown"}]
<1>1. job[w] \in Jobs /\ at[w] \in 1 .. Len(Stages(job[w])) /\ Len(Stages(job[w])) \in 1 .. 4
  BY StageFacts, LenFacts
<1>2. CASE IsLast(w)
  BY <1>2 DEF TypeOK, Advance, Return
<1>3. CASE ~IsLast(w)
  <2>1. at[w] + 1 \in 1 .. 4 /\ at[w] + 1 <= Len(Stages(job[w]))
    <3> DEFINE n == Len(Stages(job[w]))
    <3>1. n \in 1 .. 4 /\ at[w] \in 1 .. n /\ at[w] # n
      BY <1>1, <1>3 DEF IsLast
    <3> HIDE DEF n
    <3>2. at[w] + 1 \in 1 .. 4 /\ at[w] + 1 <= n
      BY <3>1
    <3> QED BY <3>2 DEF n
  <2>2. at' = [at EXCEPT ![w] = at[w] + 1] /\ job' = job /\ result' = result
    BY <1>3 DEF Advance
  <2>3. at' \in [Workers -> 1..4] /\ \A v \in Workers : at'[v] <= Len(Stages(job'[v]))
    BY <2>1, <2>2 DEF TypeOK
  <2>4. io' \in Workers \cup {NoWorker} /\ pc' \in [Workers -> {"idle", "wait", "write", "read"}]
    BY <1>3 DEF TypeOK, Advance
  <2> QED BY <2>2, <2>3, <2>4 DEF TypeOK
<1> QED BY <1>2, <1>3

LEMMA ModemTyped == TypeOK /\ ModemStep => TypeOK'
<1> SUFFICES ASSUME TypeOK, ModemStep PROVE TypeOK'
  OBVIOUS
<1> DEFINE q == Head(wire)
<1>1. q \in Request /\ Tail(wire) \in Seq(Request)
  BY DEF TypeOK, ModemStep
<1>2. q.by \in Workers /\ q.cmd \in Cmds
  BY <1>1 DEF Request
<1>3. \A k \in {"ok", "error", "prompt"} :
        Append(resp, [by |-> q.by, cmd |-> q.cmd, kind |-> k]) \in Seq(Answer)
  <2>1. \A k \in {"ok", "error", "prompt"} : [by |-> q.by, cmd |-> q.cmd, kind |-> k] \in Answer
    BY <1>2 DEF Answer
  <2> QED BY <2>1 DEF TypeOK
<1>4. /\ resp' \in Seq(Answer) /\ mode' \in Modes /\ prompt' \in Workers \cup {NoWorker}
      /\ accepted' \in [Workers -> BOOLEAN]
  <2> HIDE DEF q
  <2>1. CASE Accept(q)
    <3>1. resp' \in Seq(Answer)
      BY <1>3, <2>1 DEF Accept, Reply
    <3> QED BY <1>2, <2>1, <3>1 DEF Accept, TypeOK, Modes
  <2>2. CASE Reject(q)
    <3>1. resp' \in Seq(Answer)
      BY <1>3, <2>2 DEF Reject, Reply
    <3> QED BY <2>2, <3>1 DEF Reject, TypeOK
  <2>3. CASE Ignore(q)
    BY <2>3 DEF Ignore, TypeOK
  <2> QED BY <2>1, <2>2, <2>3 DEF ModemStep, q
<1> QED BY <1>1, <1>4 DEF TypeOK, ModemStep, workerVars

LEMMA StepTyped == TypeOK /\ [Next]_vars => TypeOK'
<1> SUFFICES ASSUME TypeOK, [Next]_vars PROVE TypeOK'
  OBVIOUS
<1>1. ASSUME NEW w \in Workers, Call(w) PROVE TypeOK'
  <2>1. PICK j \in Jobs : job' = [job EXCEPT ![w] = j]
    BY <1>1 DEF Call
  <2>2. 1 <= Len(Stages(j))
    BY LenFacts
  <2>3. \A v \in Workers : at'[v] <= Len(Stages(job'[v]))
    BY <1>1, <2>1, <2>2 DEF Call, TypeOK
  <2> QED BY <1>1, <2>1, <2>3 DEF Call, TypeOK, modemVars
<1>2. ASSUME NEW w \in Workers, Acquire(w) PROVE TypeOK'
  BY <1>2 DEF Acquire, TypeOK, Quiet
<1>3. ASSUME NEW w \in Workers, GiveUpWaiting(w) PROVE TypeOK'
  BY <1>3 DEF GiveUpWaiting, TypeOK, modemVars
<1>4. ASSUME NEW w \in Workers, Write(w) PROVE TypeOK'
  <2>1. [by |-> w, cmd |-> Stage(w)] \in Request
    BY StageFacts DEF Request
  <2>2. wire' \in Seq(Request)
    BY <1>4, <2>1 DEF Write, TypeOK
  <2> QED BY <1>4, <2>2 DEF Write, TypeOK
<1>5. ASSUME NEW w \in Workers, Read(w) PROVE TypeOK'
  <2>1. resp' \in Seq(Answer)
    BY <1>5 DEF Read, TypeOK
  <2>2. CASE Advance(w)
    BY <1>5, <2>1, <2>2, AdvanceTyped DEF Read, TypeOK
  <2>3. CASE Return(w, "error")
    BY <1>5, <2>1, <2>3 DEF Read, Return, TypeOK
  <2>4. CASE UNCHANGED <<io, workerVars>>
    BY <1>5, <2>1, <2>4 DEF Read, workerVars, TypeOK
  <2> QED BY <1>5, <2>2, <2>3, <2>4 DEF Read
<1>6. ASSUME NEW w \in Workers, Timeout(w) PROVE TypeOK'
  <2>1. stray' \in Nat
    BY <1>6 DEF Timeout, TypeOK
  <2> QED BY <1>6, <2>1 DEF Timeout, Return, TypeOK, modemVars
<1>10. ASSUME NEW w \in Workers, WriteFails(w) PROVE TypeOK'
  BY <1>10 DEF WriteFails, Return, TypeOK, modemVars
<1>7. CASE IdleRead
  BY <1>7 DEF IdleRead, TypeOK, workerVars
<1>8. CASE StrayRead
  BY <1>8 DEF StrayRead, TypeOK, workerVars
<1>9. CASE UNCHANGED vars
  BY <1>9 DEF vars, TypeOK
<1> QED BY <1>1, <1>2, <1>3, <1>4, <1>5, <1>6, <1>7, <1>8, <1>9, <1>10, ModemTyped DEF Next, Worker

\* Every variable keeps its type.
THEOREM PortTypes == Spec => []TypeOK
<1> QED BY InitTyped, StepTyped, PTL DEF Spec
-----------------------------------------------------------------------------
(* A quiet owner sees only its own traffic.                                *)

\* Nothing of v's view moved.
SameView(v) ==
  UNCHANGED <<wire, resp, mode, prompt, stray, pc[v], job[v], at[v], accepted[v]>>

LEMMA SameViewKeeps ==
  ASSUME NEW v \in Workers, OwnTraffic(v), SameView(v)
  PROVE  OwnTraffic(v)'
BY DEF OwnTraffic, SameView, Ready, Answered, Stage

LEMMA AcquireTraffic ==
  ASSUME PortInv, NEW w \in Workers, Acquire(w), quiet'[w]
  PROVE  OwnTraffic(w)'
<1>0. TypeOK /\ Verdict(w)
  BY DEF PortInv
<1>1. Quiet
  BY <1>0 DEF Acquire, TypeOK
<1>2. Stage(w) # "DATA" /\ (job[w] \in Submissions => at[w] = 1)
  BY <1>0, StageFacts DEF Acquire, Verdict
<1>3. pc'[w] = "write" /\ ~accepted'[w] /\ Stage(w)' = Stage(w)
  BY <1>0 DEF Acquire, TypeOK, Stage
<1> QED BY <1>1, <1>2, <1>3 DEF OwnTraffic, Ready, Quiet, Acquire

LEMMA WriteTraffic ==
  ASSUME PortInv, NEW w \in Workers, Write(w), quiet[w]
  PROVE  OwnTraffic(w)'
<1>0. TypeOK /\ OwnTraffic(w)
  BY DEF PortInv, Exclusive, Write
<1>1. wire = <<>> /\ resp = <<>> /\ Ready(w)
  BY <1>0 DEF OwnTraffic, Write
<1>2. wire' = <<[by |-> w, cmd |-> Stage(w)]>>
  BY <1>1 DEF Write
<1>3. pc'[w] = "read" /\ Stage(w)' = Stage(w)
  BY <1>0 DEF Write, TypeOK, Stage
<1> QED BY <1>0, <1>1, <1>2, <1>3 DEF OwnTraffic, Ready, Write

\* The only answer a quiet owner can read is that to its own stage.
LEMMA ReadOwn ==
  ASSUME PortInv, NEW w \in Workers, Read(w), quiet[w]
  PROVE  /\ wire = <<>> /\ resp' = <<>>
         /\ Head(resp).kind \in {"ok", "error", "prompt"} /\ Answered(w, Head(resp).kind)
<1>1. OwnTraffic(w)
  BY DEF PortInv, Exclusive, Read
<1>2. PICK k \in {"ok", "error", "prompt"} :
        wire = <<>> /\ resp = <<[by |-> w, cmd |-> Stage(w), kind |-> k]>> /\ Answered(w, k)
  BY <1>1 DEF OwnTraffic, Read
<1> QED BY <1>2 DEF Read

LEMMA ReadTraffic ==
  ASSUME PortInv, NEW w \in Workers, Read(w), quiet[w], io' = w
  PROVE  OwnTraffic(w)'
<1>0. TypeOK /\ OwnTraffic(w)
  BY DEF PortInv, Exclusive, Read
<1>1. /\ wire = <<>> /\ resp' = <<>> /\ wire' = <<>>
      /\ Head(resp).kind \in {"ok", "error", "prompt"} /\ Answered(w, Head(resp).kind)
  BY ReadOwn DEF Read
<1>2. w # NoWorker
  BY NoWorkerAssumption
<1>3. Advance(w) /\ Head(resp).kind # "error"
  BY <1>1, <1>2 DEF Read, Return, Answered
<1>4. ~IsLast(w) /\ job[w] \in Submissions
  BY <1>2, <1>3 DEF Advance, Return
<1>5. /\ at' = [at EXCEPT ![w] = at[w] + 1] /\ job' = job
      /\ pc' = [pc EXCEPT ![w] = "write"]
  BY <1>3, <1>4 DEF Advance
<1>6. at'[w] = at[w] + 1 /\ pc'[w] = "write"
  BY <1>0, <1>5 DEF TypeOK
<1>7. Stage(w)' = Stages(job[w])[at[w] + 1] /\ at[w] \in 1 .. Len(Stages(job[w])) /\ job[w] \in Jobs
  BY <1>0, <1>5, <1>6, StageFacts DEF Stage
<1>8. at[w] < Len(Stages(job[w]))
  <2> DEFINE n == Len(Stages(job[w]))
  <2>1. n \in 1 .. 4 /\ at[w] \in 1 .. n /\ at[w] # n
    BY <1>4, <1>7, LenFacts DEF IsLast
  <2> HIDE DEF n
  <2>2. at[w] < n
    BY <2>1
  <2> QED BY <2>2 DEF n
<1>9. Stage(w)' = "DATA" <=> Stage(w) = "CMGS"
  BY <1>4, <1>7, <1>8, StagesFacts DEF Stage
<1>10. Stage(w) # "DATA" /\ (Stage(w) = "CMGS" => at[w] > 1)
  BY <1>0, <1>4, StageFacts
<1>11. ~accepted[w] /\ mode = job[w] /\ (prompt = IF Stage(w) = "CMGS" THEN w ELSE NoWorker)
  BY <1>0, <1>1, <1>3, <1>4, <1>10 DEF Answered, OwnTraffic
<1> QED BY <1>0, <1>1, <1>5, <1>6, <1>9, <1>11 DEF OwnTraffic, Ready, Read

LEMMA ModemTraffic ==
  ASSUME PortInv, NEW v \in Workers, ModemStep, io = v, quiet[v]
  PROVE  OwnTraffic(v)'
<1>0. TypeOK /\ OwnTraffic(v)
  BY DEF PortInv
<1>1. /\ pc[v] = "read" /\ wire = <<[by |-> v, cmd |-> Stage(v)]>> /\ resp = <<>> /\ Ready(v)
      /\ stray = 0
  BY <1>0 DEF OwnTraffic, ModemStep
<1> DEFINE q == Head(wire)
<1>2. q = [by |-> v, cmd |-> Stage(v)] /\ wire' = <<>> /\ stray' = 0 /\ pc'[v] = "read"
  BY <1>1 DEF ModemStep, workerVars
<1>3. UNCHANGED <<job, at>> /\ Stage(v)' = Stage(v)
  BY DEF ModemStep, workerVars, Stage
<1>4. Accept(q) \/ Reject(q) \/ Ignore(q)
  BY DEF ModemStep
<1>5. q.by = v /\ q.cmd = Stage(v)
  BY <1>2
<1>6. \A k : Reply(q, k) => resp' = <<[by |-> v, cmd |-> Stage(v), kind |-> k]>>
  BY <1>1, <1>5 DEF Reply
<1> HIDE DEF q
<1>7. /\ job[v] \in Submissions /\ at[v] > 1 => mode = job[v]
      /\ job[v] \in Submissions /\ at[v] > 1 => Stage(v) \notin {"CMGF0", "CMGF1"}
      /\ job[v] \in Submissions /\ ~(at[v] > 1) =>
           Stage(v) = IF job[v] = "pdu" THEN "CMGF0" ELSE "CMGF1"
  BY <1>0, StageFacts DEF OwnTraffic
<1>8. CASE Accept(q)
  <2>0. PICK k \in {"ok", "error", "prompt"} : k = IF Stage(v) = "CMGS" THEN "prompt" ELSE "ok"
    OBVIOUS
  <2>1. resp' = <<[by |-> v, cmd |-> Stage(v), kind |-> k]>>
    BY <1>5, <1>6, <1>8, <2>0 DEF Accept
  <2>2. accepted'[v] <=> Stage(v) = "DATA"
    BY <1>0, <1>1, <1>5, <1>8 DEF Accept, Ready, TypeOK
  <2>3. prompt' = IF Stage(v) = "CMGS" THEN v ELSE NoWorker
    BY <1>1, <1>5, <1>8 DEF Accept, Ready
  <2>4. /\ job[v] \in Submissions => mode' = job[v]
    BY <1>5, <1>7, <1>8 DEF Accept, Submissions
  <2>5. Answered(v, k)'
    BY <1>3, <2>0, <2>2, <2>3, <2>4 DEF Answered
  <2> QED BY <1>2, <1>3, <2>1, <2>4, <2>5 DEF OwnTraffic
<1>9. CASE Reject(q)
  <2>1. resp' = <<[by |-> v, cmd |-> Stage(v), kind |-> "error"]>>
    BY <1>6, <1>9 DEF Reject
  <2>2. ~accepted'[v] /\ mode' = mode
    BY <1>1, <1>9 DEF Reject, Ready
  <2> QED BY <1>2, <1>3, <1>7, <2>1, <2>2 DEF OwnTraffic, Answered
<1>10. CASE Ignore(q)
  BY <1>1, <1>2, <1>3, <1>7, <1>10 DEF OwnTraffic, Ignore, Ready
<1> QED BY <1>4, <1>8, <1>9, <1>10
-----------------------------------------------------------------------------
(* The invariant, action by action.                                        *)

\* A result stands while its worker rests and no text of it is newly accepted.
LEMMA VerdictKept ==
  ASSUME NEW v \in Workers, Verdict(v),
         UNCHANGED <<pc[v], job[v], at[v], result[v], quiet[v]>>,
         accepted'[v] = accepted[v], wire' = wire
  PROVE  Verdict(v)'
BY DEF Verdict

\* What leaves the modem and the traffic alone and gives the port to nobody new.
LEMMA QuietActionKeeps ==
  ASSUME PortInv, TypeOK', NEW w \in Workers,
         Call(w) \/ GiveUpWaiting(w)
  PROVE  PortInv'
<1>0. TypeOK /\ w # NoWorker
  BY NoWorkerAssumption DEF PortInv
<1>1. io # w /\ pc'[w] \in {"idle", "wait"} /\ UNCHANGED <<io, modemVars, stray>>
  BY <1>0 DEF PortInv, Exclusive, Call, GiveUpWaiting, TypeOK
<1>2. \A v \in Workers : v # w =>
        UNCHANGED <<pc[v], job[v], at[v], result[v], quiet[v], accepted[v]>>
  BY <1>0 DEF Call, GiveUpWaiting, TypeOK, modemVars
<1>3. Exclusive'
  BY <1>1, <1>2 DEF PortInv, Exclusive
<1>4. ASSUME NEW v \in Workers, io' = v, quiet'[v] PROVE OwnTraffic(v)'
  <2>1. v # w /\ io = v /\ quiet[v]
    BY <1>1, <1>2, <1>4
  <2> QED BY <1>1, <1>2, <2>1, SameViewKeeps DEF PortInv, SameView, modemVars
<1>5. ASSUME NEW v \in Workers PROVE Verdict(v)'
  <2>1. CASE v # w
    BY <1>1, <1>2, <2>1, VerdictKept DEF PortInv, modemVars
  <2>2. CASE v = w /\ Call(w)
    <3>1. result'[w] = "none" /\ ~quiet'[w] /\ at'[w] = 1
      BY <1>0, <2>2 DEF Call, TypeOK
    <3> QED BY <2>2, <3>1 DEF Verdict
  <2>3. CASE v = w /\ GiveUpWaiting(w)
    <3>1. pc[w] = "wait" /\ pc'[w] = "idle" /\ result'[w] = "error"
          /\ UNCHANGED <<job, quiet>>
      BY <1>0, <2>3 DEF GiveUpWaiting, TypeOK
    <3> QED BY <2>3, <3>1 DEF PortInv, Verdict
  <2> QED BY <2>1, <2>2, <2>3
<1> QED BY <1>3, <1>4, <1>5 DEF PortInv

LEMMA AcquireKeeps ==
  ASSUME PortInv, TypeOK', NEW w \in Workers, Acquire(w)
  PROVE  PortInv'
<1>0. TypeOK /\ w # NoWorker
  BY NoWorkerAssumption DEF PortInv
<1>1. io' = w /\ io = NoWorker /\ pc'[w] = "write"
  BY <1>0 DEF Acquire, TypeOK
<1>2. \A v \in Workers : v # w => UNCHANGED <<pc[v], quiet[v], accepted[v]>>
  BY <1>0 DEF Acquire, TypeOK
<1>3. Exclusive'
  BY <1>1, <1>2, NoWorkerAssumption DEF PortInv, Exclusive
<1>4. ASSUME NEW v \in Workers, io' = v, quiet'[v] PROVE OwnTraffic(v)'
  BY <1>1, <1>4, AcquireTraffic
<1>5. ASSUME NEW v \in Workers PROVE Verdict(v)'
  <2>1. CASE v # w
    BY <1>2, <2>1, VerdictKept DEF PortInv, Acquire
  <2>2. CASE v = w
    BY <1>1, <2>2 DEF PortInv, Verdict, Acquire
  <2> QED BY <2>1, <2>2
<1> QED BY <1>3, <1>4, <1>5 DEF PortInv

LEMMA WriteKeeps ==
  ASSUME PortInv, TypeOK', NEW w \in Workers, Write(w)
  PROVE  PortInv'
<1>0. TypeOK /\ io = w
  BY DEF PortInv, Exclusive, Write
<1>1. pc'[w] = "read" /\ \A v \in Workers : v # w => pc'[v] = pc[v]
  BY <1>0 DEF Write, TypeOK
<1>2. Exclusive'
  BY <1>0, <1>1 DEF PortInv, Exclusive, Write
<1>3. ASSUME NEW v \in Workers, io' = v, quiet'[v] PROVE OwnTraffic(v)'
  BY <1>0, <1>3, WriteTraffic DEF Write
<1>4. ASSUME NEW v \in Workers PROVE Verdict(v)'
  <2>1. CASE v # w
    <3>1. \A i \in DOMAIN wire' : (wire'[i] = wire[i] /\ i \in DOMAIN wire) \/ wire'[i].by = w
      BY <1>0 DEF Write, TypeOK
    <3> QED BY <1>1, <2>1, <3>1 DEF PortInv, Verdict, Write
  <2>2. CASE v = w
    BY <1>0, <1>1, <2>2 DEF PortInv, Verdict, Write
  <2> QED BY <2>1, <2>2
<1> QED BY <1>2, <1>3, <1>4 DEF PortInv

\* A worker that returns or waits again leaves no owner behind.
LEMMA ReadKeeps ==
  ASSUME PortInv, TypeOK', NEW w \in Workers, Read(w)
  PROVE  PortInv'
<1>0. TypeOK /\ io = w /\ w # NoWorker /\ pc[w] = "read"
  BY NoWorkerAssumption DEF PortInv, Exclusive, Read
<1>1. \A v \in Workers : v # w => UNCHANGED <<pc[v], job[v], at[v], result[v]>>
  BY <1>0 DEF Read, Advance, Return, TypeOK, workerVars
<1>2. UNCHANGED <<wire, accepted, quiet, job>> /\ (io' = w \/ io' = NoWorker)
  BY <1>0 DEF Read, Advance, Return, workerVars
<1>3. pc'[w] \in {"write", "read"} <=> io' = w
  BY <1>0 DEF Read, Advance, Return, TypeOK, workerVars
<1>4. Exclusive'
  BY <1>0, <1>1, <1>2, <1>3, NoWorkerAssumption DEF PortInv, Exclusive
<1>5. ASSUME NEW v \in Workers, io' = v, quiet'[v] PROVE OwnTraffic(v)'
  BY <1>2, <1>5, ReadTraffic, NoWorkerAssumption
<1>6. result[w] = "none" /\ Verdict(w)
  BY <1>0 DEF PortInv, Verdict
<1>7. Verdict(w)'
  <2>1. CASE Head(resp).kind = "error" /\ Return(w, "error")
    <3>1. pc'[w] = "idle" /\ result'[w] = "error"
      BY <1>0, <2>1 DEF Return, TypeOK
    <3>2. quiet[w] => wire' = <<>> /\ ~accepted[w]
      BY <1>2, <2>1, ReadOwn DEF Answered
    <3> QED BY <1>2, <3>1, <3>2 DEF Verdict
  <2>2. CASE Advance(w) /\ IsLast(w)
    <3>1. pc'[w] = "idle" /\ result'[w] = "ok"
      BY <1>0, <2>2 DEF Advance, Return, TypeOK
    <3>2. job[w] \in Submissions => Stage(w) = "DATA"
      BY <1>0, <2>2, StageFacts
    <3>3. job[w] \in Submissions /\ quiet[w] => accepted[w]
      <4>1. Head(resp).kind # "error"
        BY <1>0, <2>2, <3>1 DEF Read, Return, TypeOK, workerVars
      <4> QED BY <3>2, <4>1, ReadOwn DEF Answered
    <3> QED BY <1>2, <3>1, <3>3 DEF Verdict
  <2>3. CASE Advance(w) /\ ~IsLast(w)
    <3>1. result' = result /\ (pc'[w] = "wait" => job[w] \notin Submissions) /\ pc'[w] # "idle"
      BY <1>0, <2>3 DEF Advance, TypeOK
    <3> QED BY <1>2, <1>6, <3>1 DEF Verdict
  <2>4. CASE UNCHANGED <<io, workerVars>>
    BY <1>2, <1>6, <2>4 DEF Verdict, workerVars
  <2> QED BY <2>1, <2>2, <2>3, <2>4 DEF Read
<1>8. \A v \in Workers : v # w => Verdict(v)'
  BY <1>1, <1>2, VerdictKept DEF PortInv
<1> QED BY <1>4, <1>5, <1>7, <1>8 DEF PortInv

LEMMA TimeoutKeeps ==
  ASSUME PortInv, TypeOK', NEW w \in Workers, Timeout(w)
  PROVE  PortInv'
<1>0. TypeOK /\ io = w /\ pc[w] = "read" /\ io' = NoWorker
  BY DEF PortInv, Exclusive, Timeout, Return
<1>1. /\ UNCHANGED <<modemVars, quiet, job, at>> /\ pc'[w] = "idle"
      /\ result'[w] = IF Stage(w) = "DATA" THEN "unknown" ELSE "error"
      /\ \A v \in Workers : v # w => UNCHANGED <<pc[v], result[v]>>
  BY <1>0 DEF Timeout, Return, TypeOK
<1>2. Exclusive'
  BY <1>0, <1>1, NoWorkerAssumption DEF PortInv, Exclusive
<1>3. \A v \in Workers : io' # v
  BY <1>0, NoWorkerAssumption
<1>4. quiet[w] /\ Stage(w) # "DATA" =>
        ~accepted[w] /\ \A i \in DOMAIN wire : wire[i].cmd # "DATA"
  <2> SUFFICES ASSUME quiet[w], Stage(w) # "DATA"
               PROVE  ~accepted[w] /\ \A i \in DOMAIN wire : wire[i].cmd # "DATA"
    OBVIOUS
  <2>1. OwnTraffic(w)
    BY <1>0 DEF PortInv
  <2> QED BY <1>0, <2>1 DEF OwnTraffic, Ready, Answered
<1>5. Verdict(w)'
  BY <1>1, <1>4 DEF Verdict, modemVars
<1>6. \A v \in Workers : v # w => Verdict(v)'
  BY <1>1, VerdictKept DEF PortInv, modemVars
<1> QED BY <1>2, <1>3, <1>5, <1>6 DEF PortInv

LEMMA WriteFailsKeeps ==
  ASSUME PortInv, TypeOK', NEW w \in Workers, WriteFails(w)
  PROVE  PortInv'
<1>0. TypeOK /\ io = w /\ pc[w] = "write" /\ io' = NoWorker
  BY DEF PortInv, Exclusive, WriteFails, Return
<1>1. /\ UNCHANGED <<modemVars, quiet, job, at>> /\ pc'[w] = "idle" /\ result'[w] = "error"
      /\ \A v \in Workers : v # w => UNCHANGED <<pc[v], result[v]>>
  BY <1>0 DEF WriteFails, Return, TypeOK
<1>2. Exclusive' /\ \A v \in Workers : io' # v
  BY <1>0, <1>1, NoWorkerAssumption DEF PortInv, Exclusive
<1>3. quiet[w] => ~accepted[w] /\ wire = <<>>
  BY <1>0 DEF PortInv, OwnTraffic, Ready
<1>4. Verdict(w)'
  BY <1>1, <1>3 DEF Verdict, modemVars
<1>5. \A v \in Workers : v # w => Verdict(v)'
  BY <1>1, VerdictKept DEF PortInv, modemVars
<1> QED BY <1>2, <1>4, <1>5 DEF PortInv

LEMMA ReadersKeep ==
  ASSUME PortInv, TypeOK', IdleRead \/ StrayRead
  PROVE  PortInv'
<1>0. UNCHANGED <<io, workerVars, wire, mode, prompt, accepted, quiet>>
  BY DEF IdleRead, StrayRead
<1>1. \A v \in Workers : ~(io = v /\ quiet[v])
  BY NoWorkerAssumption DEF PortInv, OwnTraffic, IdleRead, StrayRead
<1>2. Exclusive' /\ \A v \in Workers : Verdict(v)'
  BY <1>0, VerdictKept DEF PortInv, Exclusive, workerVars
<1> QED BY <1>0, <1>1, <1>2 DEF PortInv

LEMMA ModemKeeps ==
  ASSUME PortInv, TypeOK', ModemStep
  PROVE  PortInv'
<1>0. TypeOK /\ UNCHANGED <<io, workerVars, stray, quiet>>
  BY DEF PortInv, ModemStep
<1>1. Exclusive'
  BY <1>0 DEF PortInv, Exclusive, workerVars
<1>2. ASSUME NEW v \in Workers, io' = v, quiet'[v] PROVE OwnTraffic(v)'
  BY <1>0, <1>2, ModemTraffic
<1> DEFINE q == Head(wire)
<1>3. /\ wire # <<>> /\ wire' = Tail(wire) /\ 1 \in DOMAIN wire /\ q = wire[1]
      /\ \A i \in DOMAIN wire' : i + 1 \in DOMAIN wire /\ wire'[i] = wire[i+1]
  BY <1>0 DEF ModemStep, TypeOK
<1>4. \A v \in Workers : /\ accepted[v] => accepted'[v]
                        /\ accepted'[v] /\ ~accepted[v] => q.by = v /\ q.cmd = "DATA"
  BY <1>0 DEF ModemStep, Accept, Reject, Ignore, TypeOK
<1> HIDE DEF q
<1>5. ASSUME NEW v \in Workers PROVE Verdict(v)'
  <2>1. Verdict(v) /\ UNCHANGED <<pc, job, at, result, quiet>>
    BY <1>0 DEF PortInv, workerVars
  <2>2. ASSUME job[v] \in Submissions, quiet[v], result[v] = "error"
        PROVE  /\ ~accepted'[v]
               /\ \A i \in DOMAIN wire' : ~(wire'[i].by = v /\ wire'[i].cmd = "DATA")
    <3>1. ~accepted[v] /\ \A i \in DOMAIN wire : ~(wire[i].by = v /\ wire[i].cmd = "DATA")
      BY <2>1, <2>2 DEF Verdict
    <3> QED BY <1>3, <1>4, <3>1
  <2>3. (accepted[v] = TRUE) => (accepted'[v] = TRUE)
    BY <1>0 DEF ModemStep, Accept, Reject, Ignore, TypeOK
  <2>4. accepted[v] \in BOOLEAN /\ accepted'[v] \in BOOLEAN
    BY <1>0 DEF TypeOK
  <2> QED BY <2>1, <2>2, <2>3, <2>4 DEF Verdict
<1> QED BY <1>1, <1>2, <1>5 DEF PortInv

LEMMA InitInv == Init => PortInv
BY InitTyped, NoWorkerAssumption DEF Init, PortInv, Exclusive, Verdict

LEMMA StepInv == PortInv /\ [Next]_vars => PortInv'
<1> SUFFICES ASSUME PortInv, [Next]_vars PROVE PortInv'
  OBVIOUS
<1>1. TypeOK'
  BY StepTyped DEF PortInv
<1>2. CASE UNCHANGED vars
  <2>1. Exclusive' /\ \A v \in Workers : Verdict(v)'
    BY <1>2, VerdictKept DEF PortInv, Exclusive, vars
  <2>2. \A v \in Workers : io' = v /\ quiet'[v] => OwnTraffic(v)'
    BY <1>2, SameViewKeeps DEF PortInv, SameView, vars
  <2> QED BY <1>1, <2>1, <2>2 DEF PortInv
<1> QED BY <1>1, <1>2, QuietActionKeeps, AcquireKeeps, WriteKeeps, WriteFailsKeeps, ReadKeeps, TimeoutKeeps,
           ReadersKeep, ModemKeeps DEF Next, Worker

LEMMA InvAlways == Spec => []PortInv
<1> QED BY InitInv, StepInv, PTL DEF Spec

\* Neither the inbox poll nor another sender gets between the mode switch, the
\* submission and the text of a sender that found the port quiet.
THEOREM OwnMode == Spec => []SubmitsInOwnMode
<1>1. PortInv => SubmitsInOwnMode
  <2> SUFFICES ASSUME PortInv, NEW w \in Workers, NEW i \in DOMAIN wire,
                      io = w, quiet[w], wire[i].by = w
               PROVE  /\ wire[i].cmd \in {"CMGS", "DATA"} => mode = job[w]
                      /\ wire[i].cmd = "DATA" => prompt = w
    BY DEF SubmitsInOwnMode
  <2>1. TypeOK /\ OwnTraffic(w)
    BY DEF PortInv
  <2>2. wire = <<[by |-> w, cmd |-> Stage(w)]>> /\ Ready(w)
    BY <2>1 DEF OwnTraffic
  <2>3. wire[i].cmd = Stage(w)
    BY <2>2
  <2>4. Stage(w) \in {"CMGS", "DATA"} => job[w] \in Submissions /\ at[w] > 1
    BY <2>1, StageFacts
  <2> QED BY <2>1, <2>2, <2>3, <2>4 DEF OwnTraffic, Ready
<1> QED BY <1>1, InvAlways, PTL

\* A submission begun on a quiet port that reports success was accepted.
THEOREM OwnVerdict == Spec => []SuccessIsOwnVerdict
<1>1. PortInv => SuccessIsOwnVerdict
  BY DEF PortInv, Verdict, SuccessIsOwnVerdict
<1> QED BY <1>1, InvAlways, PTL

\* A submission begun on a quiet port that reports an error was not accepted,
\* and will not be.
THEOREM OwnError == Spec => []ErrorMeansNotSent
<1>1. PortInv => ErrorMeansNotSent
  BY DEF PortInv, Verdict, ErrorMeansNotSent
<1> QED BY <1>1, InvAlways, PTL

=============================================================================
