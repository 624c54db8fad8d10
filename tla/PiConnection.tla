---------------------------- MODULE PiConnection ----------------------------
(***************************************************************************)
(* The connection to the Pi process of one execution: correlated records   *)
(* over its standard streams.  A reader and a writer goroutine, the caller *)
(* of Prompt, the callers of Cancel and of Prepare share it under a mutex; *)
(* deadlines, a slow sink, a full queue of events and the loss of the      *)
(* stream come at any moment of them.                                      *)
(*                                                                         *)
(* Prompts are numbered.  A command carries the prompt it is about, which  *)
(* only the properties look at.  History replay, budgets, retries and the  *)
(* summaries of Pi are left out, and the configuration exchange is part of *)
(* Prepare's.                                                              *)
(***************************************************************************)
EXTENDS Naturals, Sequences

CONSTANTS MaxPrompt,     \* prompts
          MaxCancel,     \* calls of Cancel from outside; Prepare, one more
          QueueCapacity  \* queueCapacity: events the reader may be ahead

VARIABLES pi,        \* the process and its streams
          writes,      \* connection.writes
          conn,      \* connection
          piTurn,      \* the piTurn of the active, or last, prompt
          prompt,    \* the call of Prompt
          calls,     \* calls of Cancel and Prepare, and their exchanges
          struck     \* <<meant, hit>>: what each abort that found work was for

connectionVars == <<pi, writes, conn, piTurn, prompt, calls, struck>>

Cancellers == {"own", "control"}     \* interrupted's cancel, and anybody's
Callers == Cancellers \cup {"prompt", "prepare"}

NewTurn(n) == [n |-> n, events |-> <<>>, settled |-> FALSE, reason |-> "", outcome |-> "",
               cancelRequested |-> FALSE]
NoCall == [at |-> "idle", k |-> 0, of |-> 0, written |-> FALSE, answer |-> "none"]

ConnectionInit ==
  /\ pi = [working |-> 0, started |-> FALSE, ended |-> FALSE, aborting |-> FALSE, owes |-> {},
           stdin |-> <<>>, stdout |-> <<>>, link |-> TRUE]
  /\ writes = <<>>
  /\ conn = [failure |-> "none", ready |-> FALSE, active |-> 0, cancelling |-> 0, reading |-> TRUE]
  /\ piTurn = NewTurn(0)
  /\ prompt = [n |-> 0, at |-> "idle", event |-> "", admitted |-> FALSE, late |-> FALSE,
               cause |-> "", status |-> "none"]
  /\ calls = [c \in Callers |-> NoCall]
  /\ struck = {}

-----------------------------------------------------------------------------
(* The Pi process                                                          *)

Reply(call, answer) == [type |-> "response", to |-> call, answer |-> answer]
Says(type) == [type |-> type, to |-> <<"", 0>>, answer |-> ""]
Tell(p, record) == IF p.link THEN [p EXCEPT !.stdout = Append(@, record)] ELSE p

(* It reads a command.  It refuses a prompt while it works, and may refuse *)
(* another; an abort concerns the prompt it works on.                      *)
PiReads ==
  /\ pi.stdin # <<>>
  /\ LET command == Head(pi.stdin)
         read    == [pi EXCEPT !.stdin = Tail(@)]
     IN  \/ /\ command.type = "prompt" /\ pi.working = 0
            /\ pi' = [read EXCEPT !.working = command.of, !.started = FALSE, !.ended = FALSE,
                                  !.aborting = FALSE]
            /\ UNCHANGED struck
         \/ /\ command.type = "prompt"
            /\ pi' = Tell(read, Reply(command.id, "refused")) /\ UNCHANGED struck
         \/ /\ command.type = "abort"
            /\ pi' = [read EXCEPT !.aborting = pi.working # 0, !.owes = @ \cup {command.id}]
            /\ struck' = struck \cup (IF pi.working # 0 THEN {<<command.of, pi.working>>} ELSE {})
         \/ /\ command.type = "get_state"
            /\ pi' = Tell(read, Reply(command.id, IF pi.working # 0 THEN "busy" ELSE "ok"))
            /\ UNCHANGED struck
  /\ UNCHANGED <<writes, conn, piTurn, prompt, calls>>

(* It admits the prompt, works, ends its last message and is settled; the  *)
(* answer to an abort may come before or after that.                       *)
PiWorks ==
  /\ \/ /\ pi.working # 0 /\ ~pi.started
        /\ pi' = [Tell(pi, Reply(<<"prompt", pi.working>>, "ok")) EXCEPT !.started = TRUE]
     \/ /\ pi.started /\ ~pi.ended
        /\ \E reason \in {"stop", "error"} \cup (IF pi.aborting THEN {"aborted"} ELSE {}) :
             pi' = [Tell(pi, [Says("message_end") EXCEPT !.answer = reason]) EXCEPT !.ended = TRUE]
     \/ /\ pi.ended
        /\ pi' = [Tell(pi, [Says("agent_settled") EXCEPT !.answer =
                              IF pi.aborting THEN "aborted" ELSE ""])
                    EXCEPT !.working = 0, !.started = FALSE, !.ended = FALSE, !.aborting = FALSE]
     \/ \E id \in pi.owes, answer \in {"ok", "refused"} :
          pi' = [Tell(pi, Reply(id, answer)) EXCEPT !.owes = @ \ {id}]
  /\ UNCHANGED <<writes, conn, piTurn, prompt, calls, struck>>

(* The stream is lost, or closed by fail, with what was not read of it.    *)
LoseLink ==
  /\ pi.link
  /\ \E n \in 0 .. Len(pi.stdout) :
       pi' = [pi EXCEPT !.link = FALSE, !.stdout = SubSeq(@, 1, n)]
  /\ UNCHANGED <<writes, conn, piTurn, prompt, calls, struck>>

-----------------------------------------------------------------------------
(* The connection                                                          *)

ConnectionFailed == conn.failure # "none"

(* fail keeps the first error.                                             *)
Fail(c, err) == [c EXCEPT !.failure = IF @ = "none" THEN err ELSE @]

Write ==
  /\ writes # <<>> /\ ~ConnectionFailed
  /\ LET job == Head(writes)
     IN  IF pi.link
         THEN /\ pi' = [pi EXCEPT !.stdin = Append(@, job)]
              /\ calls' = [calls EXCEPT ![job.id[1]].written = @ \/ calls[job.id[1]].k = job.id[2]]
              /\ UNCHANGED conn
         ELSE conn' = Fail(conn, "transport") /\ UNCHANGED <<pi, calls>>
  /\ writes' = Tail(writes)
  /\ UNCHANGED <<piTurn, prompt, struck>>

(* An event nobody has room for fails the connection.                      *)
Queued(observed, event) ==
  IF Len(piTurn.events) < QueueCapacity
  THEN piTurn' = [observed EXCEPT !.events = Append(@, event)] /\ UNCHANGED conn
  ELSE conn' = [Fail(conn, "backpressure") EXCEPT !.reading = FALSE] /\ UNCHANGED piTurn

StatusOf(record) ==
  IF piTurn.reason \notin {"stop", "error"} \/ (piTurn.cancelRequested /\ record.answer = "aborted") THEN "aborted"
  ELSE IF piTurn.reason = "stop" THEN "completed" ELSE "failed"

(* record: a response goes to the request that waits for it, and late ones *)
(* nowhere; an event goes to the active turn.                              *)
ReadRecord ==
  /\ conn.reading /\ pi.stdout # <<>> /\ pi' = [pi EXCEPT !.stdout = Tail(@)]
  /\ LET record == Head(pi.stdout)
         caller == record.to[1]
     IN  \/ /\ record.type = "response"
            /\ calls' = IF calls[caller].at = "exchange" /\ calls[caller].k = record.to[2]
                        THEN [calls EXCEPT ![caller].answer = record.answer] ELSE calls
            /\ UNCHANGED <<conn, piTurn>>
         \/ /\ record.type # "response" /\ conn.active = 0 /\ UNCHANGED <<calls, conn, piTurn>>
         \/ /\ record.type # "response" /\ conn.active # 0 /\ piTurn.settled
            /\ conn' = [Fail(conn, "protocol") EXCEPT !.reading = FALSE] /\ UNCHANGED <<calls, piTurn>>
         \/ /\ record.type = "message_end" /\ conn.active # 0 /\ ~piTurn.settled
            /\ Queued([piTurn EXCEPT !.reason = record.answer], "activity")
            /\ UNCHANGED calls
         \/ /\ record.type = "agent_settled" /\ conn.active # 0 /\ ~piTurn.settled
            /\ Queued([piTurn EXCEPT !.settled = TRUE, !.outcome = StatusOf(record)], "prompt_settled")
            /\ UNCHANGED calls
  /\ UNCHANGED <<writes, prompt, struck>>

ReadEnd ==
  /\ conn.reading /\ pi.stdout = <<>> /\ ~pi.link
  /\ conn' = [Fail(conn, "transport") EXCEPT !.reading = FALSE]
  /\ UNCHANGED <<pi, writes, piTurn, prompt, calls, struck>>

-----------------------------------------------------------------------------
(* Requests                                                                *)

(* exchange: the command is queued for the writer.                         *)
Exchange(c, type) ==
  /\ calls[c].at = "called" /\ ~ConnectionFailed
  /\ writes' = Append(writes, [type |-> type, id |-> <<c, calls[c].k>>, of |-> calls[c].of])
  /\ calls' = [calls EXCEPT ![c].at = "exchange", ![c].written = FALSE, ![c].answer = "none"]
  /\ UNCHANGED <<pi, conn, piTurn, prompt, struck>>

Answered(c) == calls[c].at = "exchange" /\ calls[c].answer # "none"

(* A response that has come is authoritative whatever else went wrong: an  *)
(* exchange gives up only when there is none.                              *)
Unanswered(c) == calls[c].at \in {"called", "exchange"} /\ calls[c].answer = "none"

(* Its time is over; a command that was not even written takes the         *)
(* connection with it.                                                     *)
TimedOut(c) ==
  IF calls[c].at = "exchange" /\ ~calls[c].written THEN Fail(conn, "transport") ELSE conn

-----------------------------------------------------------------------------
(* Cancel and Prepare                                                      *)

(* Cancel holds the barrier no prompt passes until it has ended.           *)
BeginCancel(c) ==
  /\ conn.active # 0 /\ calls[c].at = "idle"
  /\ conn' = [conn EXCEPT !.cancelling = @ + 1]
  /\ piTurn' = [piTurn EXCEPT !.cancelRequested = TRUE]
  /\ calls' = [calls EXCEPT ![c] = [NoCall EXCEPT !.at = "called", !.k = calls[c].k + 1,
                                                  !.of = conn.active]]

ControlCancel ==
  /\ calls["control"].k < MaxCancel /\ BeginCancel("control")
  /\ UNCHANGED <<pi, writes, prompt, struck>>

Released(c, connection) ==
  /\ conn' = [connection EXCEPT !.cancelling = @ - 1]
  /\ calls' = [calls EXCEPT ![c].at = "idle"]
  /\ UNCHANGED <<pi, writes, piTurn, prompt, struck>>

(* An abort that is not confirmed fails the connection.                    *)
CancelUnconfirmed(c) ==
  \/ Unanswered(c) /\ Released(c, Fail(conn, "deadline"))
  \/ calls[c].at = "exchange" /\ calls[c].answer = "refused" /\ Released(c, Fail(conn, "runtime"))

CancelConfirmed(c) ==
  /\ Answered(c) /\ calls[c].answer = "ok"
  /\ calls' = [calls EXCEPT ![c].at = "settling"]
  /\ UNCHANGED <<pi, writes, conn, piTurn, prompt, struck>>

(* It waits for the settlement, its own time or the end of the connection. *)
CancelEnds(c) == calls[c].at = "settling" /\ Released(c, conn)

CancelStep(c) ==
  \/ Exchange(c, "abort") \/ CancelUnconfirmed(c) \/ CancelConfirmed(c) \/ CancelEnds(c)

BeginPrepare ==
  /\ calls["prepare"].at = "idle" /\ calls["prepare"].k <= MaxCancel
  /\ conn.active = 0 /\ conn.cancelling = 0
  /\ conn' = [conn EXCEPT !.ready = FALSE, !.cancelling = @ + 1]
  /\ calls' = [calls EXCEPT !["prepare"] = [NoCall EXCEPT !.at = "called", !.k = calls["prepare"].k + 1]]
  /\ UNCHANGED <<pi, writes, piTurn, prompt, struck>>

(* The first preparation that fails fails the connection; a busy runtime   *)
(* is told apart from a lost one.                                          *)
PrepareStep ==
  \/ Exchange("prepare", "get_state")
  \/ /\ Unanswered("prepare")
     /\ Released("prepare", IF calls["prepare"].k = 1 THEN Fail(conn, "deadline") ELSE TimedOut("prepare"))
  \/ /\ Answered("prepare")
     /\ Released("prepare", [conn EXCEPT !.ready = calls["prepare"].answer = "ok" /\ ~ConnectionFailed])

-----------------------------------------------------------------------------
(* Prompt                                                                  *)

Submitted ==
  /\ prompt.at = "idle" /\ prompt.n < MaxPrompt
  /\ prompt' = [n |-> prompt.n + 1, at |-> "exchange", event |-> "", admitted |-> FALSE,
                late |-> FALSE, cause |-> "", status |-> "none"]
  /\ conn' = [conn EXCEPT !.active = prompt.n + 1]
  /\ piTurn' = NewTurn(prompt.n + 1)
  /\ calls' = [calls EXCEPT !["prompt"] = [NoCall EXCEPT !.at = "called", !.k = prompt.n + 1,
                                                         !.of = prompt.n + 1]]
  /\ UNCHANGED <<pi, writes, struck>>

(* A mutant of Submit: a prompt does not wait for a cancellation to end.   *)
SubmitAnyway == conn.ready /\ ~ConnectionFailed /\ conn.active = 0 /\ Submitted

Submit ==
  /\ conn.ready /\ ~ConnectionFailed /\ conn.active = 0 /\ conn.cancelling = 0
  /\ Submitted

Deadline ==
  /\ prompt.at \notin {"idle"} /\ ~prompt.late /\ prompt' = [prompt EXCEPT !.late = TRUE]
  /\ UNCHANGED <<pi, writes, conn, piTurn, calls, struck>>

Returned(status) ==
  /\ prompt' = [prompt EXCEPT !.at = "idle", !.status = status]
  /\ conn' = [conn EXCEPT !.active = 0]
  /\ UNCHANGED <<pi, writes, piTurn, struck>>

(* interrupted: whatever became of the prompt, it is cancelled as far as   *)
(* that goes, and the connection is not used again.                        *)
Interrupt(cause) == prompt' = [prompt EXCEPT !.at = "interrupted", !.cause = cause]

PromptAnswered ==
  /\ prompt.at = "exchange" /\ Answered("prompt")
  /\ calls' = [calls EXCEPT !["prompt"].at = "idle"]
  /\ IF calls["prompt"].answer = "ok"
     THEN /\ prompt' = [prompt EXCEPT !.at = "emit", !.event = "prompt_admitted", !.admitted = TRUE]
          /\ UNCHANGED <<pi, writes, conn, piTurn, struck>>
     ELSE Returned("rejected")

PromptUnanswered ==
  /\ prompt.at = "exchange" /\ Unanswered("prompt") /\ (prompt.late \/ ConnectionFailed)
  /\ calls' = [calls EXCEPT !["prompt"].at = "idle"]
  /\ \/ prompt.late /\ Interrupt("deadline") /\ conn' = TimedOut("prompt")
     \/ ConnectionFailed /\ Interrupt("failure") /\ UNCHANGED conn
  /\ UNCHANGED <<pi, writes, piTurn, struck>>

(* An event goes to the sink, which may take it, refuse it or never        *)
(* return; the end of the connection ends the wait unless the prompt is    *)
(* settled, and then only the deadline does.                               *)
Emit ==
  /\ prompt.at = "emit"
  /\ \/ IF prompt.event = "prompt_settled"
        THEN Returned(piTurn.outcome)
        ELSE prompt' = [prompt EXCEPT !.at = "loop"] /\ UNCHANGED <<pi, writes, conn, piTurn, struck>>
     \/ Interrupt("sink") /\ UNCHANGED <<pi, writes, conn, piTurn, struck>>
  /\ UNCHANGED calls

(* A mutant of EmitUnheard: a sink that blocks is waited for while the     *)
(* connection lasts.                                                       *)
EmitUntilFailure ==
  /\ prompt.at = "emit" /\ ConnectionFailed /\ ~piTurn.settled /\ Interrupt("failure")
  /\ UNCHANGED <<pi, writes, conn, piTurn, calls, struck>>

EmitUnheard ==
  /\ prompt.at = "emit"
  /\ \/ prompt.late /\ Interrupt("deadline")
     \/ ConnectionFailed /\ ~piTurn.settled /\ Interrupt("failure")
  /\ UNCHANGED <<pi, writes, conn, piTurn, calls, struck>>

TakeEvent ==
  /\ prompt.at \in {"loop", "wait"} /\ piTurn.events # <<>>
  /\ prompt' = [prompt EXCEPT !.at = "emit", !.event = Head(piTurn.events)]
  /\ piTurn' = [piTurn EXCEPT !.events = Tail(@)]
  /\ UNCHANGED <<pi, writes, conn, calls, struck>>

Wait ==
  /\ prompt.at = "loop" /\ piTurn.events = <<>>
  /\ prompt' = [prompt EXCEPT !.at = "wait"]
  /\ UNCHANGED <<pi, writes, conn, piTurn, calls, struck>>

(* A mutant of ConnectionLost: a prompt is lost with its connection, be it *)
(* settled or not.                                                         *)
LostAtOnce ==
  /\ prompt.at = "wait" /\ ConnectionFailed
  /\ prompt' = [prompt EXCEPT !.at = "idle", !.status = "unknown", !.cause = "failure"]
  /\ conn' = [conn EXCEPT !.active = 0]
  /\ UNCHANGED <<pi, writes, piTurn, calls, struck>>

(* The queue was empty and the connection has ended: a settlement that     *)
(* came in between is still to be delivered.                               *)
ConnectionLost ==
  /\ prompt.at = "wait" /\ ConnectionFailed
  /\ IF piTurn.settled
     THEN prompt' = [prompt EXCEPT !.at = "loop"] /\ UNCHANGED conn
     ELSE /\ prompt' = [prompt EXCEPT !.at = "idle", !.status = "unknown", !.cause = "failure"]
          /\ conn' = [conn EXCEPT !.active = 0]
  /\ UNCHANGED <<pi, writes, piTurn, calls, struck>>

WaitEnds ==
  /\ prompt.at = "wait" /\ prompt.late /\ Interrupt("deadline")
  /\ UNCHANGED <<pi, writes, conn, piTurn, calls, struck>>

InterruptedCancel ==
  /\ prompt.at = "interrupted" /\ BeginCancel("own")
  /\ prompt' = [prompt EXCEPT !.at = "cancelled"]
  /\ UNCHANGED <<pi, writes, struck>>

Interrupted ==
  /\ prompt.at = "cancelled" /\ calls["own"].at = "idle"
  /\ prompt' = [prompt EXCEPT !.at = "idle", !.status = "unknown"]
  /\ conn' = [Fail(conn, prompt.cause) EXCEPT !.active = 0]
  /\ UNCHANGED <<pi, writes, piTurn, calls, struck>>

PromptStep ==
  \/ Exchange("prompt", "prompt") \/ PromptAnswered \/ PromptUnanswered
  \/ EmitUnheard \/ TakeEvent \/ Wait \/ ConnectionLost \/ WaitEnds \/ InterruptedCancel \/ Interrupted

ConnectionNext ==
  \/ PiReads \/ PiWorks \/ LoseLink
  \/ Write \/ ReadRecord \/ ReadEnd
  \/ ControlCancel \/ (\E c \in Cancellers : CancelStep(c))
  \/ BeginPrepare \/ PrepareStep
  \/ Submit \/ Deadline \/ Emit \/ PromptStep

-----------------------------------------------------------------------------
(* Every ending of a prompt but an unknown one is evidence: Pi is not at   *)
(* work on it, and will not be.  The lease of a human prompt is given back *)
(* on that evidence.                                                       *)
InFlight(n) ==
  \/ pi.working = n
  \/ \E i \in DOMAIN pi.stdin : pi.stdin[i].type = "prompt" /\ pi.stdin[i].of = n
  \/ (~ConnectionFailed /\ \E i \in DOMAIN writes : writes[i].type = "prompt" /\ writes[i].of = n)

OnlyUnknownLeavesWork ==
  prompt.at = "idle" /\ prompt.status \notin {"none", "unknown"} => ~InFlight(prompt.n)

(* An abort never ends a prompt other than the one it was sent for, also   *)
(* when that one has ended meanwhile.                                      *)
AbortsItsOwnPrompt == \A s \in struck : s[1] = s[2]

(* Once a prompt's settlement was read, its outcome is lost to nothing but *)
(* the caller's own deadline or sink: not to the end of the stream, a      *)
(* failed write or a full queue.                                           *)
SettlementIsReported ==
  [][piTurn.settled /\ conn.active = prompt.n /\ prompt.cause = "" => prompt'.cause # "failure"]_connectionVars

(* A prompt ends, whatever Pi, the stream and the sink do: its deadline    *)
(* and the time-outs of cancellation are enough.                           *)
PromptEnds == prompt.at # "idle" ~> prompt.at = "idle"

(* How a prompt is said to have ended can be relied on, and no call ends   *)
(* another one's prompt (Prompt, Cancel).                                  *)
EndingsAreEvidence == OnlyUnknownLeavesWork /\ AbortsItsOwnPrompt
=============================================================================
