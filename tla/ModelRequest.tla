----------------------------- MODULE ModelRequest -----------------------------
(***************************************************************************)
(* One agent decision after another (executor.ts, the loop around          *)
(* executeModelRequest in agent/model/request.ts): attempts with their     *)
(* timers and retries, the tool calls a provider makes, and the tail on    *)
(* which the tools are serialized (serial()).                              *)
(*                                                                         *)
(* The provider is an adversary.  It may never answer, ignore the abort,   *)
(* fail at any point, and call a tool long after its attempt was given up. *)
(* Only a success waits for the calls it made (external: the agent library *)
(* resolves after it has executed them).  The clock is a choice.           *)
(***************************************************************************)
EXTENDS Naturals, Sequences, FiniteSets

CONSTANTS
  Tools,         (* tool calls                                              *)
  ToolLimit,     (* tools per decision; eight in the code                   *)
  Retries,       (* config.budget.modelRequestMaxRetries                    *)
  MaxCalls,      (* budget.maxModelCalls                                    *)
  MaxFinalizing, (* FINALIZING_MAX_CALLS                                    *)
  MaxPrograms    (* bound: program steps of the loop                        *)

ASSUME RequestConstants ==
  /\ ToolLimit \in Nat /\ Retries \in Nat /\ MaxCalls \in Nat
  /\ MaxFinalizing \in Nat /\ MaxPrograms \in Nat

VARIABLES
  pc,            (* where the loop stands                                   *)
  aborted,       (* the run's signal                                        *)
  index,         (* attempt of this decision                                *)
  limit,         (* maxAttempts of this decision                            *)
  failure,       (* how the attempt just ended                              *)
  result,        (* the attempt whose result the last decision returned     *)
  calls,         (* usage.modelCalls                                        *)
  finalizing,    (* the finalizing phase: its calls, or Exploring           *)
  attempts,      (* the AttemptContexts so far                              *)
  counter,       (* attemptTools                                            *)
  tool,          (* per tool call: where it is, and the context that made it *)
  tail,          (* toolTail: the calls not yet settled                     *)
  acts           (* history: calls whose body began in this decision        *)

vars == <<pc, aborted, index, limit, failure, result, calls, finalizing,
          attempts, counter, tool, tail, acts>>

Exploring == [on |-> FALSE, calls |-> 0]
NoAttempt == 0
Fresh(kind) == [kind |-> kind, active |-> TRUE, cut |-> "no", touched |-> FALSE, timer |-> TRUE]

Init ==
  /\ pc = "idle" /\ aborted = FALSE
  /\ index = 0 /\ limit = 0 /\ failure = "none" /\ result = NoAttempt
  /\ calls = 0 /\ finalizing = Exploring
  /\ attempts = << >> /\ counter = 0
  /\ tool = [t \in Tools |-> [at |-> "none", of |-> NoAttempt]]
  /\ tail = << >> /\ acts = {}

Current == Len(attempts)
Of(n) == {t \in Tools : tool[t].of = n}
Unsettled == {"queued", "started", "body"}

(* guardModelAttempt, and the run's signal that guard() looks at first.    *)
Valid(n) == ~aborted /\ attempts[n].cut = "no" /\ attempts[n].active

(* The loop throws: it is over, and the run's signal is aborted.           *)
Ends == pc' = "over" /\ aborted' = TRUE
Goes(to) == pc' = to /\ UNCHANGED aborted

toolVars == <<attempts, counter, tool, tail, acts>>
loopVars == <<pc, aborted, index, limit, failure, result, calls, finalizing>>

-----------------------------------------------------------------------------
(* The loop.                                                               *)

(* attemptBudget and modelRequestMaxRetries.                               *)
Least(a, b) == IF a < b THEN a ELSE b
AttemptLimit ==
  Least(Least(MaxCalls - calls, Retries + 1),
        IF finalizing.on THEN MaxFinalizing - finalizing.calls ELSE MaxCalls)

EnterFinalizing ==
  /\ pc = "idle" /\ ~finalizing.on
  /\ finalizing' = [finalizing EXCEPT !.on = TRUE]
  /\ UNCHANGED <<pc, aborted, index, limit, failure, result, calls, toolVars>>

BeginDecision ==
  /\ pc = "idle" /\ ~aborted
  /\ IF AttemptLimit < 1 THEN Ends /\ UNCHANGED acts ELSE Goes("next") /\ acts' = {}
  /\ limit' = AttemptLimit /\ index' = 0 /\ result' = NoAttempt
  /\ UNCHANGED <<failure, calls, finalizing, attempts, counter, tool, tail>>

(* The loop ends without an error, or the run is stopped between decisions. *)
EndLoop ==
  /\ pc = "idle"
  /\ Ends
  /\ UNCHANGED <<index, limit, failure, result, calls, finalizing, toolVars>>

(* onStart: the call is counted before the provider is asked.              *)
CountModel ==
  /\ pc = "next"
  /\ IF aborted \/ calls >= MaxCalls THEN Ends /\ UNCHANGED <<calls, finalizing, counter>>
     ELSE /\ Goes("starting")
          /\ calls' = calls + 1
          /\ finalizing' = IF finalizing.on THEN [finalizing EXCEPT !.calls = @ + 1]
                                            ELSE finalizing
          /\ counter' = 0
  /\ UNCHANGED <<index, limit, failure, result, attempts, tool, tail, acts>>

(* Its events are written, or that write throws; then the attempt exists.  *)
OpenAttempt ==
  /\ pc = "starting"
  /\ \/ Ends /\ UNCHANGED attempts
     \/ Goes("open") /\ attempts' = Append(attempts, Fresh("model"))
  /\ UNCHANGED <<index, limit, failure, result, calls, finalizing, counter, tool, tail, acts>>

(* executeProgramTool: the loop calls a tool itself, in a context of the   *)
(* same kind, with neither a request nor a retry.                          *)
BeginProgram ==
  /\ pc = "idle" /\ ~aborted
  /\ Cardinality({n \in DOMAIN attempts : attempts[n].kind = "program"}) < MaxPrograms
  /\ attempts' = Append(attempts, Fresh("program"))
  /\ counter' = 0 /\ acts' = {} /\ result' = NoAttempt
  /\ Goes("open")
  /\ UNCHANGED <<index, limit, failure, calls, finalizing, tool, tail>>

(* The timer of the request, which the first tool clears; and the timer of *)
(* the whole decision, which nothing clears while the attempt is open.     *)
Cut(why) ==
  /\ attempts' = [attempts EXCEPT ![Current].cut = why]
  /\ UNCHANGED <<loopVars, counter, tool, tail, acts>>
RequestTimeout ==
  /\ pc = "open" /\ attempts[Current].cut = "no"
  /\ attempts[Current].timer /\ attempts[Current].kind = "model"
  /\ Cut("retryable")
DecisionTimeout ==
  /\ pc = "open" /\ attempts[Current].cut = "no"
  /\ Cut("fatal")

(* The attempt ends; `active` is cleared in the same step.                 *)
Settles(how) ==
  /\ failure' = how
  /\ attempts' = [attempts EXCEPT ![Current].active = FALSE]
  /\ UNCHANGED <<index, limit, calls, finalizing, counter, tool, tail, acts>>

AttemptSucceeds ==
  /\ pc = "open" /\ Valid(Current)
  /\ \A t \in Of(Current) : tool[t].at \notin Unsettled
  /\ Settles("none")
  /\ IF attempts[Current].kind = "model" THEN Goes("closing") /\ UNCHANGED result
     ELSE Goes("idle") /\ result' = Current

Failures ==
  IF aborted THEN {"fatal"}
  ELSE IF attempts[Current].cut # "no" THEN {attempts[Current].cut}
  ELSE {"retryable", "fatal"}

(* Mutant: nothing but the provider ends the attempt. *)
AttemptFailsDeaf ==
  /\ pc = "open" /\ Valid(Current)
  /\ \E how \in Failures : Settles(how)
  /\ IF attempts[Current].kind = "model" THEN Goes("closing") ELSE Ends
  /\ UNCHANGED result

(* The provider fails; or abortable() rejects, whatever the provider does. *)
AttemptFails ==
  /\ pc = "open"
  /\ \E how \in Failures : Settles(how)
  /\ IF attempts[Current].kind = "model" THEN Goes("closing") ELSE Ends
  /\ UNCHANGED result

(* Mutants: a tool call does not forbid the retry; one attempt too many.   *)
MayRetryTouched == ~aborted /\ failure = "retryable" /\ index + 1 < limit
                   /\ ~(finalizing.on /\ finalizing.calls >= MaxFinalizing)
MayRetryOneMore == ~aborted /\ failure = "retryable" /\ ~attempts[Current].touched
                   /\ ~(finalizing.on /\ finalizing.calls >= MaxFinalizing) /\ index < limit

MayRetry ==
  /\ ~aborted /\ failure = "retryable"
  /\ ~attempts[Current].touched
  /\ ~(finalizing.on /\ finalizing.calls >= MaxFinalizing)
  /\ index + 1 < limit

(* onFinish has written the attempt, or throws.  A retry is also given up  *)
(* for a pending side effect or for lack of time.                          *)
CloseAttempt ==
  /\ pc = "closing"
  /\ \/ Ends /\ UNCHANGED result
     \/ failure = "none" /\ Goes("idle") /\ result' = Current
     \/ failure # "none" /\ MayRetry /\ Goes("backoff") /\ UNCHANGED result
  /\ UNCHANGED <<index, limit, failure, calls, finalizing, toolVars>>

Backoff ==
  /\ pc = "backoff"
  /\ IF aborted THEN Ends ELSE Goes("next")
  /\ index' = index + 1
  /\ UNCHANGED <<limit, failure, result, calls, finalizing, toolVars>>

(* A cancel request, the run's own timer or its parent.                    *)
Abort ==
  /\ ~aborted
  /\ aborted' = TRUE
  /\ UNCHANGED <<pc, index, limit, failure, result, calls, finalizing, toolVars>>

-----------------------------------------------------------------------------
(* The tools.                                                              *)

At(t, where) == tool' = [tool EXCEPT ![t].at = where]

(* beginAttemptTool and the head of serial(), in the context n that made   *)
(* the call, however late it comes.                                        *)
CallTool(t, n) ==
  /\ tool[t].at = "none"
  /\ IF ~Valid(n) THEN
       /\ tool' = [tool EXCEPT ![t] = [at |-> "refused", of |-> n]]
       /\ UNCHANGED <<attempts, counter, tail>>
     ELSE
       /\ attempts' = [attempts EXCEPT ![n].touched = TRUE, ![n].timer = FALSE]
       /\ counter' = counter + 1
       /\ LET over == counter + 1 > ToolLimit IN
            /\ tool' = [tool EXCEPT ![t] = [at |-> IF over THEN "refused" ELSE "queued", of |-> n]]
            /\ tail' = IF over THEN tail ELSE Append(tail, t)
  /\ UNCHANGED <<loopVars, acts>>

HeadIs(t, where) == tail # << >> /\ Head(tail) = t /\ tool[t].at = where
Drop(t) == At(t, "refused") /\ tail' = Tail(tail)

(* Its turn: the guard, and the checks that may deny it; tool:started is   *)
(* being written.                                                          *)
StartTool(t) ==
  /\ HeadIs(t, "queued")
  /\ \/ Drop(t)
     \/ Valid(tool[t].of) /\ At(t, "started") /\ UNCHANGED tail
  /\ UNCHANGED <<loopVars, attempts, counter, acts>>

(* Mutant: the guard after the write is missing. *)
BeginBodyUnguarded(t) ==
  /\ HeadIs(t, "started")
  /\ At(t, "body") /\ acts' = acts \cup {t} /\ UNCHANGED tail
  /\ UNCHANGED <<loopVars, attempts, counter>>

(* The guard again, and the body; or the write threw.                      *)
BeginBody(t) ==
  /\ HeadIs(t, "started")
  /\ \/ Drop(t) /\ UNCHANGED acts
     \/ Valid(tool[t].of) /\ At(t, "body") /\ acts' = acts \cup {t} /\ UNCHANGED tail
  /\ UNCHANGED <<loopVars, attempts, counter>>

(* Mutant: the body waits for the tail to be empty. *)
EndBodyNested(t) ==
  /\ HeadIs(t, "body") /\ Tail(tail) = << >>
  /\ At(t, "done") /\ tail' = Tail(tail)
  /\ UNCHANGED <<loopVars, attempts, counter, acts>>

EndBody(t) ==
  /\ HeadIs(t, "body")
  /\ At(t, "done") /\ tail' = Tail(tail)
  /\ UNCHANGED <<loopVars, attempts, counter, acts>>

(* A tool that takes too long aborts the run.                              *)
ToolTimeout(t) ==
  /\ HeadIs(t, "started") \/ HeadIs(t, "body")
  /\ ~aborted /\ aborted' = TRUE
  /\ UNCHANGED <<pc, index, limit, failure, result, calls, finalizing, toolVars>>

Loop == CountModel \/ OpenAttempt \/ CloseAttempt \/ Backoff
Timers == RequestTimeout \/ DecisionTimeout

Next ==
  \/ EnterFinalizing \/ BeginDecision \/ BeginProgram \/ EndLoop \/ Loop \/ Timers
  \/ AttemptSucceeds \/ AttemptFails \/ Abort
  \/ \E t \in Tools : \E n \in DOMAIN attempts : CallTool(t, n)
  \/ \E t \in Tools : StartTool(t) \/ BeginBody(t) \/ EndBody(t) \/ ToolTimeout(t)

Spec == Init /\ [][Next]_vars

(* The loop's writes return and its timers fire; abortable() rejects once  *)
(* the attempt's signal is aborted; the tail goes on, and a tool's body    *)
(* ends once the run is aborted.  Nothing is assumed of the provider.      *)
FairSpec ==
  /\ Spec
  /\ WF_vars(Loop)
  /\ WF_vars(DecisionTimeout)
  /\ WF_vars(pc = "open" /\ ~Valid(Current) /\ AttemptFails)
  /\ \A t \in Tools :
       /\ WF_vars(StartTool(t) \/ BeginBody(t))
       /\ WF_vars(ToolTimeout(t))
       /\ WF_vars(aborted /\ EndBody(t))

-----------------------------------------------------------------------------
AttemptContexts ==
  [kind : {"model", "program"}, active : BOOLEAN, cut : {"no", "retryable", "fatal"},
   touched : BOOLEAN, timer : BOOLEAN]

(* Every variable stays in its range: a decision makes no more attempts    *)
(* than the retries allow, the run counts no more calls than its budget,   *)
(* and the finalizing phase no more than its own.                          *)
TypeOK ==
  /\ pc \in {"idle", "next", "starting", "open", "closing", "backoff", "over"}
  /\ aborted \in BOOLEAN
  /\ index \in 0..Retries /\ limit \in 0..(Retries + 1)
  /\ failure \in {"none", "retryable", "fatal"}
  /\ result \in 0..Current
  /\ calls \in 0..MaxCalls
  /\ finalizing \in [on : BOOLEAN, calls : 0..MaxFinalizing]
  /\ attempts \in Seq(AttemptContexts)
  /\ counter \in Nat
  /\ tool \in [Tools -> [at : {"none", "refused", "queued", "started", "body", "done"},
                         of : 0..Current]]
  /\ tail \in Seq(Tools)
  /\ acts \subseteq Tools

(* request.ts retries a failed attempt on the same page: what a decision   *)
(* returned accounts for every tool that acted in it, none of them called  *)
(* by an attempt that was given up and replaced.                           *)
ResultCoversActs ==
  result # NoAttempt => \A t \in acts : tool[t].of = result

(* "Whole decision remains bounded even when a provider ignores            *)
(* cancellation": a decision that began ends, with a result or with the    *)
(* run.                                                                    *)
DecisionEnds == pc = "next" ~> pc \in {"idle", "over"}

(* A queued tool call is settled: a call before it that hangs takes the    *)
(* run down, and with it what waits behind.                                *)
QueuedToolSettles ==
  \A t \in Tools : tool[t].at = "queued" ~> tool[t].at \in {"refused", "done"}

(* Seen from the loop, all of this is the abstract decision.               *)
AbstractDecision == INSTANCE Decision WITH
  phase <- IF pc \in {"idle", "over"} THEN pc ELSE "deciding",
  acts <- acts,
  busy <- {t \in Tools : tool[t].at = "body"}

(* However late a provider calls, and whatever times out, tools act one at *)
(* a time and only inside a decision; it returns when they are at rest;    *)
(* none starts to act after the loop has ended.                            *)
ImplementsDecision == AbstractDecision!Spec
=============================================================================
