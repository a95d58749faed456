------------------------------- MODULE AtPort -------------------------------
(***************************************************************************)
(* The serial AT port: at.Client's port lock, its command exchanges, the   *)
(* two SMS submission sequences, the three-command inbox listing and the   *)
(* idle reader (internal/modem/at/parser.go, adapter.go).                  *)
(*                                                                         *)
(* A step is one locked transition of a worker goroutine, one command      *)
(* taken by the modem, or one non-blocking read of the port.  Commands     *)
(* that differ only in wording are one stage name; URC lines are left to   *)
(* CallLine, where their order against the call commands matters.         *)
(***************************************************************************)
EXTENDS Naturals, Sequences

CONSTANTS
  Workers,        \* goroutines that issue AT commands
  NoWorker,       \* the owner of a free port
  MaxBacklog,     \* bound: no call begins with more unread traffic than this
  MaxStray        \* bound: read goroutines outliving their exchange

ASSUME NoWorkerAssumption == NoWorker \notin Workers
ASSUME BoundsAssumption == MaxBacklog \in Nat /\ MaxStray \in Nat

VARIABLES
  io,         \* owner of the port lock ioCh, or NoWorker
  pc,         \* control point of each worker
  job,        \* the call each worker makes or made last
  at,         \* its current stage
  result,     \* what its last call returned
  wire,       \* commands written and not yet taken by the modem
  resp,       \* answers not yet read by the gateway
  mode,       \* the modem's message format (AT+CMGF)
  prompt,     \* the worker whose AT+CMGS opened the modem's message prompt
  accepted,   \* history: the modem accepted a message since the worker took the port
  stray,      \* read goroutines outliving the exchange that spawned them
  quiet       \* history: no traffic was left over when the worker took the port

vars == <<io, pc, job, at, result, wire, resp, mode, prompt, accepted,
          stray, quiet>>

workerVars == <<pc, job, at, result>>
modemVars  == <<wire, resp, mode, prompt, accepted>>
-----------------------------------------------------------------------------
Jobs   == {"command", "list", "pdu", "text"}
Cmds   == {"AT", "CPMS", "CMGL", "CSCS", "CMGF0", "CMGF1", "CMGS", "DATA"}
Modes  == {"pdu", "text"}

\* The commands a call writes, in order.
Stages(j) ==
  CASE j = "command" -> <<"AT">>
    [] j = "list"    -> <<"CPMS", "CMGF0", "CMGL">>
    [] j = "pdu"     -> <<"CMGF0", "CMGS", "DATA">>
    [] j = "text"    -> <<"CMGF1", "CSCS", "CMGS", "DATA">>

Submissions == {"pdu", "text"}

\* Calls whose context always has a deadline: the inbox poll's and the text
\* senders'.  A single command may be the temperature monitor's, which runs on
\* the gateway's own context, or an HTTP call handler's, on its request's.
Timed == {"list", "pdu", "text"}

Stage(w) == Stages(job[w])[at[w]]
IsLast(w) == at[w] = Len(Stages(job[w]))

Request == [by : Workers, cmd : Cmds]
Answer  == [by : Workers, cmd : Cmds, kind : {"ok", "error", "prompt"}]

Init ==
  /\ io = NoWorker
  /\ pc = [w \in Workers |-> "idle"]
  /\ job = [w \in Workers |-> "command"]
  /\ at = [w \in Workers |-> 1]
  /\ result = [w \in Workers |-> "none"]
  /\ wire = <<>>
  /\ resp = <<>>
  /\ mode \in Modes
  /\ prompt = NoWorker
  /\ accepted = [w \in Workers |-> FALSE]
  /\ stray = 0
  /\ quiet = [w \in Workers |-> FALSE]
-----------------------------------------------------------------------------
(* The worker goroutines.                                                  *)

\* Nothing written is unanswered, nothing answered is unread, nobody else reads.
Quiet == wire = <<>> /\ resp = <<>> /\ prompt = NoWorker /\ stray = 0

\* A goroutine enters Exchange, ListSMS, SendPDU or SendTextSMS.
Call(w) ==
  /\ pc[w] = "idle"
  /\ Len(wire) + Len(resp) <= MaxBacklog
  /\ \E j \in Jobs : job' = [job EXCEPT ![w] = j]
  /\ at' = [at EXCEPT ![w] = 1]
  /\ pc' = [pc EXCEPT ![w] = "wait"]
  /\ result' = [result EXCEPT ![w] = "none"]
  /\ quiet' = [quiet EXCEPT ![w] = FALSE]
  /\ UNCHANGED <<io, modemVars, stray>>

Acquire(w) ==
  /\ pc[w] = "wait"
  /\ io = NoWorker
  /\ io' = w
  /\ pc' = [pc EXCEPT ![w] = "write"]
  /\ quiet' = [quiet EXCEPT ![w] = Quiet]
  /\ accepted' = [accepted EXCEPT ![w] = FALSE]
  /\ UNCHANGED <<job, at, result, wire, resp, mode, prompt, stray>>

\* acquireIO returns ctx.Err(): the deadline passed while the port was held.
GiveUpWaiting(w) ==
  /\ pc[w] = "wait"
  /\ io # NoWorker
  /\ pc' = [pc EXCEPT ![w] = "idle"]
  /\ result' = [result EXCEPT ![w] = "error"]
  /\ UNCHANGED <<io, job, at, modemVars, stray, quiet>>

Write(w) ==
  /\ pc[w] = "write"
  /\ wire' = Append(wire, [by |-> w, cmd |-> Stage(w)])
  /\ pc' = [pc EXCEPT ![w] = "read"]
  /\ UNCHANGED <<io, job, at, result, resp, mode, prompt, accepted, stray, quiet>>

\* The call returns r and gives the port back.
Return(w, r) ==
  /\ io' = NoWorker
  /\ pc' = [pc EXCEPT ![w] = "idle"]
  /\ result' = [result EXCEPT ![w] = r]
  /\ UNCHANGED <<job, at>>

\* The port fails before the end of the stage is written.
WriteFails(w) ==
  /\ pc[w] = "write"
  /\ Return(w, "error")
  /\ UNCHANGED <<modemVars, stray, quiet>>

\* Mutant: the stages of a call are not counted.
AdvancePastEnd(w) ==
  /\ at' = [at EXCEPT ![w] = @ + 1]
  /\ pc' = [pc EXCEPT ![w] = "write"]
  /\ UNCHANGED <<io, job, result>>

\* Mutant: a submission takes the port anew for every stage.
AdvanceReleasing(w) ==
  IF IsLast(w) THEN Return(w, "ok")
  ELSE /\ at' = [at EXCEPT ![w] = @ + 1]
       /\ pc' = [pc EXCEPT ![w] = "wait"]
       /\ io' = NoWorker
       /\ UNCHANGED <<job, result>>

\* The stage succeeded.  A submission keeps the port for its next stage;
\* ListSMS makes three separate exchanges and takes it again for each.
Advance(w) ==
  IF IsLast(w) THEN Return(w, "ok")
  ELSE /\ at' = [at EXCEPT ![w] = @ + 1]
       /\ UNCHANGED <<job, result>>
       /\ \/ /\ job[w] \in Submissions
             /\ pc' = [pc EXCEPT ![w] = "write"]
             /\ UNCHANGED io
          \/ /\ job[w] \notin Submissions
             /\ pc' = [pc EXCEPT ![w] = "wait"]
             /\ io' = NoWorker

\* Mutant: any final line ends the stage well.
ReadAnyFinal(w) ==
  /\ pc[w] = "read"
  /\ resp # <<>>
  /\ resp' = Tail(resp)
  /\ Advance(w)
  /\ UNCHANGED <<wire, mode, prompt, accepted, stray, quiet>>

\* Nothing ties an answer to a command: the reader takes whatever comes.  A
\* prompt only ends the AT+CMGS stage and is skipped everywhere else.
Read(w) ==
  /\ pc[w] = "read"
  /\ resp # <<>>
  /\ resp' = Tail(resp)
  /\ \/ /\ Head(resp).kind = "ok" \/ (Head(resp).kind = "prompt" /\ Stage(w) = "CMGS")
        /\ Advance(w)
     \/ /\ Head(resp).kind = "error"
        /\ Return(w, "error")
     \/ /\ Head(resp).kind = "prompt" /\ Stage(w) # "CMGS"
        /\ UNCHANGED <<io, workerVars>>
  /\ UNCHANGED <<wire, mode, prompt, accepted, stray, quiet>>

\* Mutant: a text written and not answered is reported as not sent.
TimeoutAsError(w) ==
  /\ pc[w] = "read"
  /\ Return(w, "error")
  /\ UNCHANGED <<modemVars, stray, quiet>>

\* Mutant: the port is kept when the context ends.
TimeoutHolding(w) ==
  /\ pc[w] = "read"
  /\ pc' = [pc EXCEPT ![w] = "idle"]
  /\ result' = [result EXCEPT ![w] = "error"]
  /\ UNCHANGED <<io, job, at, modemVars, stray, quiet>>

\* The context ends (its deadline, its client, the gateway's stop), or the port
\* fails, before the final line.  Once the message itself was written the outcome
\* is unknown, before that it is an error.  The goroutine readWithContext started
\* may still be about to read the port.
Timeout(w) ==
  /\ pc[w] = "read"
  /\ stray' \in {stray} \cup {n \in {stray + 1} : n <= MaxStray}
  /\ Return(w, IF Stage(w) = "DATA" THEN "unknown" ELSE "error")
  /\ UNCHANGED <<modemVars, quiet>>
-----------------------------------------------------------------------------
(* The idle reader and the read goroutines nobody waits for.               *)

\* Client.Run takes the port only when it is free, for one read.  A line that
\* is no URC falls through HandleURC's switch and is dropped.
IdleRead ==
  /\ io = NoWorker
  /\ resp # <<>>
  /\ resp' = Tail(resp)
  /\ UNCHANGED <<io, workerVars, wire, mode, prompt, accepted, stray, quiet>>

\* The abandoned goroutine reads nothing, or a line it then throws away.
StrayRead ==
  /\ stray > 0
  /\ stray' = stray - 1
  /\ resp' = IF resp = <<>> THEN resp ELSE Tail(resp)
  /\ UNCHANGED <<io, workerVars, wire, mode, prompt, accepted, quiet>>
-----------------------------------------------------------------------------
(* The modem (external): takes the commands in the order written.          *)

Reply(q, k) == resp' = Append(resp, [by |-> q.by, cmd |-> q.cmd, kind |-> k])

\* An open message prompt takes everything up to the message as its text.
Taken(q) == prompt = NoWorker \/ q.cmd = "DATA"

Accept(q) ==
  /\ Taken(q)
  /\ q.cmd = "DATA" => prompt # NoWorker
  /\ Reply(q, IF q.cmd = "CMGS" THEN "prompt" ELSE "ok")
  /\ mode' = CASE q.cmd = "CMGF0" -> "pdu"
               [] q.cmd = "CMGF1" -> "text"
               [] OTHER -> mode
  /\ prompt' = CASE q.cmd = "CMGS" -> q.by
                 [] q.cmd = "DATA" -> NoWorker
                 [] OTHER -> prompt
  /\ accepted' = IF q.cmd = "DATA" THEN [accepted EXCEPT ![q.by] = TRUE]
                                   ELSE accepted

Reject(q) ==
  /\ Taken(q)
  /\ Reply(q, "error")
  /\ prompt' = IF q.cmd = "DATA" THEN NoWorker ELSE prompt
  /\ UNCHANGED <<mode, accepted>>

\* No answer: swallowed by an open prompt, or lost while the module reboots.
Ignore(q) == UNCHANGED <<resp, mode, prompt, accepted>>

ModemStep ==
  /\ wire # <<>>
  /\ wire' = Tail(wire)
  /\ Accept(Head(wire)) \/ Reject(Head(wire)) \/ Ignore(Head(wire))
  /\ UNCHANGED <<io, workerVars, stray, quiet>>
-----------------------------------------------------------------------------
Worker(w) ==
  \/ Call(w) \/ Acquire(w) \/ GiveUpWaiting(w) \/ Write(w) \/ WriteFails(w)
  \/ Read(w) \/ Timeout(w)

Next == (\E w \in Workers : Worker(w)) \/ IdleRead \/ StrayRead \/ ModemStep

Spec == Init /\ [][Next]_vars

\* A goroutine that holds the port keeps running, and its context ends if it has
\* a deadline.  The modem owes nothing: it may stay silent for ever.
Proceed(w) ==
  \/ Write(w) \/ WriteFails(w) \/ Read(w)
  \/ job[w] \in Timed /\ Timeout(w)

FairSpec == Spec /\ \A w \in Workers : WF_vars(Proceed(w))
-----------------------------------------------------------------------------
TypeOK ==
  /\ io \in Workers \cup {NoWorker}
  /\ pc \in [Workers -> {"idle", "wait", "write", "read"}]
  /\ job \in [Workers -> Jobs]
  /\ at \in [Workers -> 1..4]
  /\ \A w \in Workers : at[w] <= Len(Stages(job[w]))
  /\ result \in [Workers -> {"none", "ok", "error", "unknown"}]
  /\ wire \in Seq(Request)
  /\ resp \in Seq(Answer)
  /\ mode \in Modes
  /\ prompt \in Workers \cup {NoWorker}
  /\ accepted \in [Workers -> BOOLEAN]
  /\ stray \in Nat
  /\ quiet \in [Workers -> BOOLEAN]

\* A message of a sender that found the port quiet is never on its way to a
\* modem in the other message format, nor to a prompt another sender opened:
\* neither the inbox poll nor another sender gets between the mode switch, the
\* submission and the text.
SubmitsInOwnMode ==
  \A w \in Workers : \A i \in DOMAIN wire :
    (io = w /\ quiet[w] /\ wire[i].by = w) =>
      /\ wire[i].cmd \in {"CMGS", "DATA"} => mode = job[w]
      /\ wire[i].cmd = "DATA" => prompt = w

\* SendPDU and SendTextSMS, begun on a quiet port, report success only for a
\* message the modem accepted from that very caller, whatever exchanges of
\* others timed out before.
SuccessIsOwnVerdict ==
  \A w \in Workers :
    (job[w] \in Submissions /\ quiet[w] /\ result[w] = "ok") => accepted[w]

\* An outcome is reported unknown only once the text itself was written; every
\* earlier failure is a plain error, which the SMS engine may retry.
ErrorMeansNotSent ==
  \A w \in Workers :
    (job[w] \in Submissions /\ quiet[w] /\ result[w] = "error") => ~accepted[w]

\* A worker whose context has a deadline gives the port back even if the modem
\* never answers again.
PortReleased == \A w \in Workers : (io = w /\ job[w] \in Timed) ~> io # w
=============================================================================
