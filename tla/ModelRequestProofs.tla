-------------------------- MODULE ModelRequestProofs --------------------------
(***************************************************************************)
(* Proofs about ModelRequest for any tools, limits and budgets: types and  *)
(* budgets, that a result accounts for what acted, and that the requests   *)
(* with their retries, timers and late callbacks implement the abstract    *)
(* Decision.                                                               *)
(***************************************************************************)
EXTENDS ModelRequest, TLAPS

(* The parts of TypeOK: the loop's, the contexts', the calls'.             *)
LoopTyped ==
  /\ pc \in {"idle", "next", "starting", "open", "closing", "backoff", "over"}
  /\ aborted \in BOOLEAN
  /\ index \in 0..Retries /\ limit \in 0..(Retries + 1)
  /\ failure \in {"none", "retryable", "fatal"}
  /\ calls \in 0..MaxCalls
  /\ finalizing \in [on : BOOLEAN, calls : 0..MaxFinalizing]
ContextsTyped == attempts \in Seq(AttemptContexts) /\ result \in 0..Current
Calls == [at : {"none", "refused", "queued", "started", "body", "done"}, of : 0..Current]
CallsTyped ==
  /\ counter \in Nat
  /\ tool \in [Tools -> Calls]
  /\ tail \in Seq(Tools)
  /\ acts \subseteq Tools

(* The counters leave room for the attempt that is about to be made.       *)
Room ==
  /\ pc = "backoff" => index + 1 < limit
  /\ pc \in {"next", "backoff"} /\ finalizing.on => finalizing.calls < MaxFinalizing

(* The tail holds the unsettled calls, each once; only its head has begun. *)
Waiting ==
  /\ \A t \in Tools : tool[t].at \in Unsettled => \E k \in 1..Len(tail) : tail[k] = t
  /\ \A k \in 1..Len(tail) : tool[tail[k]].at \in Unsettled
  /\ \A j, k \in 1..Len(tail) : tail[j] = tail[k] => j = k
  /\ \A k \in 1..Len(tail) : k > 1 => tool[tail[k]].at = "queued"

(* Only the current attempt is active, while it is open; a call that is    *)
(* not settled has touched it, so that it succeeds or is the last.         *)
Guarded ==
  /\ pc \in {"open", "closing"} => Current > 0
  /\ pc = "open" => attempts[Current].active
  /\ \A n \in 1..Current : attempts[n].active => n = Current /\ pc = "open"
  /\ \A t \in Tools : tool[t].at \in Unsettled =>
       /\ tool[t].of = Current /\ Current > 0
       /\ attempts[Current].touched
       /\ pc \in {"open", "over"} \/ (pc = "closing" /\ failure # "none")

(* What acted in this decision was called by the current attempt.          *)
Accounted ==
  /\ \A t \in acts :
       /\ tool[t].at \in {"body", "done"}
       /\ tool[t].of = Current /\ Current > 0
       /\ attempts[Current].touched
  /\ pc \in {"next", "starting", "backoff"} => acts = {}
  /\ result # NoAttempt => result = Current /\ pc \in {"idle", "over"}

Inv == TypeOK /\ Room /\ Waiting /\ Guarded /\ Accounted

-----------------------------------------------------------------------------
LEMMA TypeParts == TypeOK <=> LoopTyped /\ ContextsTyped /\ CallsTyped
  BY DEF TypeOK, LoopTyped, ContextsTyped, CallsTyped, Calls

(* At the start there is neither an attempt nor a call. *)
LEMMA InitInv == Init => Inv
<1> SUFFICES ASSUME Init PROVE Inv
  OBVIOUS
<1>1. attempts = << >> /\ Current = 0 /\ tail = << >> /\ Len(tail) = 0 /\ acts = {}
  BY DEF Init, Current
<1>0. 0 \in 0..MaxFinalizing /\ 0 \in 0..MaxCalls /\ 0 \in 0..Retries /\ 0 \in 0..(Retries + 1)
  BY RequestConstants
<1>2. LoopTyped
  BY <1>0, Zenon DEF Init, LoopTyped, Exploring
<1>3. << >> \in Seq(AttemptContexts) /\ << >> \in Seq(Tools)
  OBVIOUS
<1>4. ContextsTyped
  BY <1>1, <1>3 DEF Init, ContextsTyped, NoAttempt
<1>5. [at |-> "none", of |-> NoAttempt] \in Calls
  BY <1>1 DEF Calls, NoAttempt
<1>6. CallsTyped
  BY <1>1, <1>3, <1>5 DEF Init, CallsTyped
<1>7. \A t \in Tools : tool[t].at = "none"
  BY DEF Init
<1>8. Room
  BY DEF Init, Room
<1>9. Waiting
  BY <1>1, <1>7 DEF Waiting, Unsettled
<1>10. Guarded
  BY <1>1, <1>7 DEF Init, Guarded, Unsettled
<1>11. Accounted
  BY <1>1 DEF Init, Accounted
<1> QED
  BY <1>2, <1>4, <1>6, <1>8, <1>9, <1>10, <1>11, TypeParts DEF Inv

(* While an attempt is open or closing there is a current context. *)
LEMMA CurrentContext ==
  ASSUME attempts \in Seq(AttemptContexts), Guarded, pc \in {"open", "closing"}
  PROVE  Current \in 1..Len(attempts) /\ attempts[Current] \in AttemptContexts
<1>1. Current \in Nat /\ Current > 0
  BY DEF Guarded, Current
<1> QED
  BY <1>1 DEF Current

(* A new context becomes the current one and leaves the others alone. *)
LEMMA NewContext ==
  ASSUME attempts \in Seq(AttemptContexts), NEW kind \in {"model", "program"},
         attempts' = Append(attempts, Fresh(kind))
  PROVE  /\ attempts' \in Seq(AttemptContexts)
         /\ Current' = Current + 1 /\ Current \in Nat
         /\ attempts'[Current'] = Fresh(kind)
         /\ \A n \in 1..Current : attempts'[n] = attempts[n]
<1>1. Fresh(kind) \in AttemptContexts
  BY DEF Fresh, AttemptContexts
<1>2. Current \in Nat /\ Len(attempts) = Current
  BY DEF Current
<1>3. attempts' \in Seq(AttemptContexts) /\ Len(attempts') = Len(attempts) + 1
  BY <1>1
<1>4. Current' = Current + 1
  BY <1>3, <1>2 DEF Current
<1>5. attempts'[Len(attempts) + 1] = Fresh(kind)
  BY <1>1
<1>6. \A n \in 1..Len(attempts) : attempts'[n] = attempts[n]
  BY <1>1
<1> QED
  BY <1>2, <1>3, <1>4, <1>5, <1>6

(* A context that is changed keeps its place; the others stay as they are. *)
LEMMA ChangedContext ==
  ASSUME attempts \in Seq(AttemptContexts), NEW n \in 1..Len(attempts),
         NEW c \in AttemptContexts, attempts' = [attempts EXCEPT ![n] = c]
  PROVE  /\ attempts' \in Seq(AttemptContexts) /\ Len(attempts') = Len(attempts)
         /\ attempts'[n] = c
         /\ \A m \in 1..Len(attempts) : m # n => attempts'[m] = attempts[m]
  OBVIOUS

(* The range of the calls grows with the attempts. *)
LEMMA CallsGrow ==
  ASSUME CallsTyped, Current \in Nat, Current' \in Nat, Current <= Current',
         UNCHANGED tool
  PROVE  tool' \in [Tools -> Calls']
<1>1. 0..Current \subseteq 0..Current'
  OBVIOUS
<1>2. Calls \subseteq Calls'
  BY <1>1 DEF Calls
<1> QED
  BY <1>2 DEF CallsTyped

-----------------------------------------------------------------------------
(* Every step of the loop, the timers and the tools keeps the loop's types *)
(* and the room. *)
LEMMA LoopStep ==
  ASSUME LoopTyped, Room, attempts \in Seq(AttemptContexts), Guarded, Next
  PROVE  LoopTyped' /\ Room'
<1> USE RequestConstants DEF LoopTyped, Room, toolVars, loopVars, Ends, Goes
<1>1. CASE EnterFinalizing
  BY <1>1 DEF EnterFinalizing
<1>2. CASE BeginDecision
  <2>1. AttemptLimit \in 0..(Retries + 1)
    BY DEF AttemptLimit, Least
  <2>2. AttemptLimit >= 1 /\ finalizing.on => finalizing.calls < MaxFinalizing
    BY DEF AttemptLimit, Least
  <2>3. /\ limit' \in 0..(Retries + 1) /\ index' = 0 /\ UNCHANGED <<failure, calls, finalizing>>
        /\ \/ pc' = "over" /\ aborted' = TRUE
           \/ AttemptLimit >= 1 /\ pc' = "next" /\ UNCHANGED aborted
    BY <1>2, <2>1 DEF BeginDecision
  <2>4. CASE pc' = "over" /\ aborted' = TRUE
    BY <2>3, <2>4
  <2>5. CASE AttemptLimit >= 1 /\ pc' = "next" /\ UNCHANGED aborted
    BY <2>2, <2>3, <2>5
  <2> QED
    BY <2>3, <2>4, <2>5
<1>3. CASE BeginProgram
  BY <1>3 DEF BeginProgram
<1>4. CASE EndLoop
  BY <1>4 DEF EndLoop
<1>5. CASE CountModel
  <2>1. CASE aborted \/ calls >= MaxCalls
    BY <1>5, <2>1 DEF CountModel
  <2>2. CASE ~(aborted \/ calls >= MaxCalls)
    <3>1. finalizing.on => finalizing.calls + 1 \in 0..MaxFinalizing
      BY <1>5 DEF CountModel
    <3>2. ASSUME NEW n \in 0..MaxFinalizing
          PROVE  [finalizing EXCEPT !.calls = n] \in [on : BOOLEAN, calls : 0..MaxFinalizing]
      BY Zenon
    <3>3. /\ pc' = "starting" /\ calls' = calls + 1 /\ UNCHANGED <<aborted, index, limit, failure>>
          /\ finalizing' = IF finalizing.on THEN [finalizing EXCEPT !.calls = @ + 1]
                                            ELSE finalizing
      BY <1>5, <2>2, Zenon DEF CountModel
    <3>4. finalizing' \in [on : BOOLEAN, calls : 0..MaxFinalizing]
      BY <3>1, <3>2, <3>3, Zenon
    <3> QED
      BY <2>2, <3>3, <3>4
  <2> QED
    BY <2>1, <2>2
<1>6. CASE OpenAttempt
  BY <1>6 DEF OpenAttempt
<1>7. CASE CloseAttempt
  <2>1. UNCHANGED <<index, limit, failure, calls, finalizing>>
    BY <1>7 DEF CloseAttempt
  <2>2. CASE Ends
    BY <2>1, <2>2
  <2>3. CASE Goes("idle")
    BY <2>1, <2>3
  <2>4. CASE MayRetry /\ Goes("backoff")
    BY <2>1, <2>4 DEF MayRetry
  <2> QED
    BY <1>7, <2>2, <2>3, <2>4 DEF CloseAttempt
<1>8. CASE Backoff
  <2>1. UNCHANGED <<limit, failure, calls, finalizing>> /\ index' = index + 1
    BY <1>8 DEF Backoff
  <2>2. index' \in 0..Retries /\ (finalizing.on => finalizing.calls < MaxFinalizing)
    BY <1>8, <2>1 DEF Backoff
  <2>3. CASE Ends
    BY <2>1, <2>2, <2>3
  <2>4. CASE Goes("next")
    BY <2>1, <2>2, <2>4
  <2> QED
    BY <1>8, <2>3, <2>4 DEF Backoff
<1>9. CASE Timers
  BY <1>9 DEF Timers, RequestTimeout, DecisionTimeout, Cut
<1>10. CASE AttemptSucceeds
  BY <1>10 DEF AttemptSucceeds, Settles
<1>11. CASE AttemptFails
  <2>1. failure' \in Failures /\ UNCHANGED <<index, limit, calls, finalizing>>
    BY <1>11 DEF AttemptFails, Settles
  <2>2. Failures \subseteq {"none", "retryable", "fatal"}
    BY CurrentContext, <1>11 DEF AttemptFails, Failures, AttemptContexts
  <2>3. CASE Ends
    BY <2>1, <2>2, <2>3
  <2>4. CASE Goes("closing")
    BY <2>1, <2>2, <2>4
  <2> QED
    BY <1>11, <2>3, <2>4 DEF AttemptFails
<1>12. CASE Abort
  BY <1>12 DEF Abort
<1>13. ASSUME NEW t \in Tools, NEW n \in DOMAIN attempts, CallTool(t, n)
       PROVE  LoopTyped' /\ Room'
  BY <1>13 DEF CallTool
<1>14. ASSUME NEW t \in Tools, StartTool(t) \/ BeginBody(t) \/ EndBody(t) \/ ToolTimeout(t)
       PROVE  LoopTyped' /\ Room'
  BY <1>14 DEF StartTool, BeginBody, EndBody, ToolTimeout
<1> QED
  BY <1>1, <1>2, <1>3, <1>4, <1>5, <1>6, <1>7, <1>8, <1>9, <1>10, <1>11, <1>12, <1>13, <1>14
     DEF Next, Loop

-----------------------------------------------------------------------------
(* What a timer, the end of an attempt and a call do to its context. *)
LEMMA CutContext ==
  ASSUME attempts \in Seq(AttemptContexts), NEW n \in 1..Len(attempts),
         NEW why \in {"retryable", "fatal"}, attempts' = [attempts EXCEPT ![n].cut = why]
  PROVE  /\ attempts' \in Seq(AttemptContexts) /\ Len(attempts') = Len(attempts)
         /\ \A m \in 1..Len(attempts) : /\ attempts'[m].active = attempts[m].active
                                        /\ attempts'[m].touched = attempts[m].touched
<1>1. attempts[n] \in AttemptContexts
  OBVIOUS
<1>2. [attempts[n] EXCEPT !.cut = why] \in AttemptContexts
  BY <1>1, Zenon DEF AttemptContexts
<1>3. attempts' = [attempts EXCEPT ![n] = [attempts[n] EXCEPT !.cut = why]]
  OBVIOUS
<1> DEFINE c == [attempts[n] EXCEPT !.cut = why]
<1>4. c.active = attempts[n].active /\ c.touched = attempts[n].touched
  BY <1>1, Zenon DEF AttemptContexts
<1> HIDE DEF c
<1>5. /\ attempts' \in Seq(AttemptContexts) /\ Len(attempts') = Len(attempts)
      /\ attempts'[n] = c /\ \A m \in 1..Len(attempts) : m # n => attempts'[m] = attempts[m]
  BY <1>2, <1>3, ChangedContext, Zenon DEF c
<1> QED
  BY <1>4, <1>5, Zenon

LEMMA EndedContext ==
  ASSUME attempts \in Seq(AttemptContexts), NEW n \in 1..Len(attempts),
         attempts' = [attempts EXCEPT ![n].active = FALSE]
  PROVE  /\ attempts' \in Seq(AttemptContexts) /\ Len(attempts') = Len(attempts)
         /\ ~attempts'[n].active
         /\ \A m \in 1..Len(attempts) : m # n => attempts'[m].active = attempts[m].active
         /\ \A m \in 1..Len(attempts) : attempts'[m].touched = attempts[m].touched
<1>1. attempts[n] \in AttemptContexts
  OBVIOUS
<1> DEFINE c == [attempts[n] EXCEPT !.active = FALSE]
<1>2. c \in AttemptContexts
  BY <1>1, Zenon DEF AttemptContexts
<1>3. attempts' = [attempts EXCEPT ![n] = c]
  OBVIOUS
<1>4. ~c.active /\ c.touched = attempts[n].touched
  BY <1>1, Zenon DEF AttemptContexts
<1> HIDE DEF c
<1>5. /\ attempts' \in Seq(AttemptContexts) /\ Len(attempts') = Len(attempts)
      /\ attempts'[n] = c /\ \A m \in 1..Len(attempts) : m # n => attempts'[m] = attempts[m]
  BY <1>2, <1>3, ChangedContext, Zenon
<1> QED
  BY <1>4, <1>5, Zenon

LEMMA TouchedContext ==
  ASSUME attempts \in Seq(AttemptContexts), NEW n \in 1..Len(attempts),
         attempts' = [attempts EXCEPT ![n].touched = TRUE, ![n].timer = FALSE]
  PROVE  /\ attempts' \in Seq(AttemptContexts) /\ Len(attempts') = Len(attempts)
         /\ attempts'[n].touched
         /\ \A m \in 1..Len(attempts) : m # n => attempts'[m].touched = attempts[m].touched
         /\ \A m \in 1..Len(attempts) : attempts'[m].active = attempts[m].active
<1>1. attempts[n] \in AttemptContexts
  OBVIOUS
<1> DEFINE b == [attempts[n] EXCEPT !.touched = TRUE]
           c == [b EXCEPT !.timer = FALSE]
<1>2. b \in AttemptContexts /\ b.touched /\ b.active = attempts[n].active
  BY <1>1, Zenon DEF AttemptContexts
<1>3. attempts' = [attempts EXCEPT ![n] = c]
  OBVIOUS
<1> HIDE DEF b
<1>4. c \in AttemptContexts /\ c.touched = b.touched /\ c.active = b.active
  BY <1>2, Zenon DEF AttemptContexts
<1> HIDE DEF c
<1>5. /\ attempts' \in Seq(AttemptContexts) /\ Len(attempts') = Len(attempts)
      /\ attempts'[n] = c /\ \A m \in 1..Len(attempts) : m # n => attempts'[m] = attempts[m]
  BY <1>3, <1>4, ChangedContext, Zenon
<1> QED
  BY <1>2, <1>4, <1>5, Zenon

(* What a step does to the contexts: nothing; a new one, for an attempt    *)
(* that opens; or a change that neither revives one nor forgets a call.    *)
Kept ==
  /\ attempts' \in Seq(AttemptContexts) /\ Len(attempts') = Len(attempts)
  /\ \A m \in 1..Len(attempts) : attempts'[m].active => attempts[m].active
  /\ \A m \in 1..Len(attempts) : attempts[m].touched => attempts'[m].touched
Opened(kind) ==
  /\ attempts' = Append(attempts, Fresh(kind))
  /\ pc \in {"idle", "starting"} /\ pc' = "open"
  /\ UNCHANGED <<tool, tail>> /\ acts' = {} /\ result' = NoAttempt /\ counter' \in {0, counter}

LEMMA ContextStep ==
  ASSUME attempts \in Seq(AttemptContexts), Guarded, Accounted, Next
  PROVE  Kept \/ \E kind \in {"model", "program"} : Opened(kind)
<1> USE DEF Kept
<1>0. UNCHANGED attempts => Kept
  BY Zenon
<1>1. CASE EnterFinalizing \/ BeginDecision \/ EndLoop
  BY <1>0, <1>1, Zenon DEF EnterFinalizing, BeginDecision, EndLoop, toolVars
<1>2. CASE BeginProgram
  BY <1>2 DEF BeginProgram, Opened, Goes
<1>3. CASE CountModel \/ CloseAttempt \/ Backoff
  BY <1>0, <1>3, Zenon DEF CountModel, CloseAttempt, Backoff, toolVars
<1>4. CASE OpenAttempt
  BY <1>0, <1>4 DEF OpenAttempt, Opened, Goes, Accounted
<1>5. CASE Timers
  <2>1. Current \in 1..Len(attempts)
    BY <1>5, CurrentContext DEF Timers, RequestTimeout, DecisionTimeout
  <2>2. PICK why \in {"retryable", "fatal"} : attempts' = [attempts EXCEPT ![Current].cut = why]
    BY <1>5 DEF Timers, RequestTimeout, DecisionTimeout, Cut
  <2> QED
    BY <2>1, <2>2, CutContext
<1>6. CASE AttemptSucceeds \/ AttemptFails
  <2>1. Current \in 1..Len(attempts)
    BY <1>6, CurrentContext DEF AttemptSucceeds, AttemptFails
  <2>2. attempts' = [attempts EXCEPT ![Current].active = FALSE]
    BY <1>6, Zenon DEF AttemptSucceeds, AttemptFails, Settles
  <2> QED
    BY <2>1, <2>2, EndedContext, Zenon
<1>7. CASE Abort
  BY <1>0, <1>7, Zenon DEF Abort, toolVars
<1>8. ASSUME NEW t \in Tools, NEW n \in DOMAIN attempts, CallTool(t, n)
      PROVE  Kept
  <2>1. CASE UNCHANGED attempts
    BY <1>0, <2>1
  <2>2. CASE attempts' = [attempts EXCEPT ![n].touched = TRUE, ![n].timer = FALSE]
    <3>1. n \in 1..Len(attempts)
      OBVIOUS
    <3> QED
      BY <2>2, <3>1, TouchedContext, Zenon
  <2> QED
    BY <1>8, <2>1, <2>2, Zenon DEF CallTool
<1>9. ASSUME NEW t \in Tools, StartTool(t) \/ BeginBody(t) \/ EndBody(t) \/ ToolTimeout(t)
      PROVE  Kept
  BY <1>0, <1>9, Zenon DEF StartTool, BeginBody, EndBody, ToolTimeout, toolVars
<1> QED
  BY <1>1, <1>2, <1>3, <1>4, <1>5, <1>6, <1>7, <1>8, <1>9 DEF Next, Loop

(* A call that moves keeps the context that made it; the others stay. *)
LEMMA MovedCall ==
  ASSUME tool \in [Tools -> Calls], NEW t \in Tools,
         NEW to \in {"refused", "queued", "started", "body", "done"},
         tool' = [tool EXCEPT ![t].at = to]
  PROVE  /\ tool' \in [Tools -> Calls]
         /\ tool'[t].at = to /\ tool'[t].of = tool[t].of
         /\ \A u \in Tools : u # t => tool'[u] = tool[u]
  BY DEF Calls

LEMMA MadeCall ==
  ASSUME tool \in [Tools -> Calls], NEW t \in Tools, NEW n \in 0..Current,
         NEW to \in {"refused", "queued"},
         tool' = [tool EXCEPT ![t] = [at |-> to, of |-> n]]
  PROVE  /\ tool' \in [Tools -> Calls]
         /\ tool'[t].at = to /\ tool'[t].of = n
         /\ \A u \in Tools : u # t => tool'[u] = tool[u]
  BY DEF Calls

(* The results and the calls stay in their ranges. *)
LEMMA CallsStep ==
  ASSUME ContextsTyped, CallsTyped, Guarded, Accounted, Next
  PROVE  ContextsTyped' /\ CallsTyped'
<1>1. CASE \E kind \in {"model", "program"} : Opened(kind)
  <2>1. PICK kind \in {"model", "program"} : Opened(kind)
    BY <1>1
  <2>2. attempts' \in Seq(AttemptContexts) /\ Current' = Current + 1 /\ Current \in Nat
    BY <2>1, NewContext DEF ContextsTyped, Opened
  <2>3. tool' \in [Tools -> Calls']
    BY <2>1, <2>2, CallsGrow DEF Opened
  <2> QED
    BY <2>1, <2>2, <2>3 DEF Opened, ContextsTyped, CallsTyped, NoAttempt
<1>2. CASE Kept
  <2>0. attempts' \in Seq(AttemptContexts) /\ Current' = Current /\ Current \in Nat
        /\ Calls' = Calls
    BY <1>2 DEF Kept, ContextsTyped, Current, Calls
  <2>1. SUFFICES result' \in 0..Current /\ counter' \in Nat /\ tool' \in [Tools -> Calls]
                 /\ tail' \in Seq(Tools) /\ acts' \subseteq Tools
    BY <2>0 DEF ContextsTyped, CallsTyped
  <2> USE DEF ContextsTyped, CallsTyped
  <2>2. CASE EnterFinalizing \/ BeginDecision \/ EndLoop \/ Loop \/ Abort
    BY <2>0, <2>2 DEF EnterFinalizing, BeginDecision, EndLoop, Abort, Loop, CountModel, OpenAttempt,
                      CloseAttempt, Backoff, toolVars, NoAttempt
  <2>3. CASE BeginProgram
    BY <2>0, <2>3 DEF BeginProgram, NoAttempt
  <2>4. CASE Timers
    BY <2>4 DEF Timers, RequestTimeout, DecisionTimeout, Cut, loopVars
  <2>5. CASE AttemptSucceeds \/ AttemptFails
    BY <2>0, <2>5 DEF AttemptSucceeds, AttemptFails, Settles
  <2>6. ASSUME NEW t \in Tools, NEW n \in DOMAIN attempts, CallTool(t, n)
        PROVE  /\ result' \in 0..Current /\ counter' \in Nat /\ tool' \in [Tools -> Calls]
               /\ tail' \in Seq(Tools) /\ acts' \subseteq Tools
    <3>1. n \in 0..Current
      BY <2>0 DEF Current
    <3>2. PICK to \in {"refused", "queued"} : tool' = [tool EXCEPT ![t] = [at |-> to, of |-> n]]
      BY <2>6 DEF CallTool
    <3>3. tool' \in [Tools -> Calls]
      BY <3>1, <3>2, MadeCall, Zenon
    <3>4. /\ tail' \in {tail, Append(tail, t)} /\ counter' \in {counter, counter + 1}
          /\ UNCHANGED <<result, acts>>
      BY <2>6, Zenon DEF CallTool, loopVars
    <3>5. tail' \in Seq(Tools)
      BY <3>4
    <3>6. counter' \in Nat
      BY <3>4
    <3> QED
      BY <3>3, <3>4, <3>5, <3>6, Zenon
  <2>7. ASSUME NEW t \in Tools, StartTool(t) \/ BeginBody(t) \/ EndBody(t)
        PROVE  /\ result' \in 0..Current /\ counter' \in Nat /\ tool' \in [Tools -> Calls]
               /\ tail' \in Seq(Tools) /\ acts' \subseteq Tools
    <3>1. PICK to \in {"refused", "started", "body", "done"} : tool' = [tool EXCEPT ![t].at = to]
      BY <2>7, Zenon DEF StartTool, BeginBody, EndBody, Drop, At
    <3>2. tool' \in [Tools -> Calls]
      BY <3>1, MovedCall, Zenon
    <3>3. tail' \in {tail, Tail(tail)} /\ tail # << >> /\ UNCHANGED <<result, counter>>
      BY <2>7, Zenon DEF StartTool, BeginBody, EndBody, Drop, HeadIs, loopVars
    <3>4. acts' \in {acts, acts \cup {t}}
      BY <2>7, Zenon DEF StartTool, BeginBody, EndBody
    <3>5. tail' \in Seq(Tools)
      BY <3>3
    <3>6. acts' \subseteq Tools
      BY <3>4
    <3> QED
      BY <3>2, <3>3, <3>5, <3>6, Zenon
  <2>8. ASSUME NEW t \in Tools, ToolTimeout(t)
        PROVE  UNCHANGED <<result, counter, tool, tail, acts>>
    BY <2>8 DEF ToolTimeout, toolVars
  <2> QED
    BY <2>2, <2>3, <2>4, <2>5, <2>6, <2>7, <2>8 DEF Next
<1> QED
  BY <1>1, <1>2, ContextStep DEF ContextsTyped

-----------------------------------------------------------------------------
(* The tail under a new call and under the end of its head. *)
LEMMA Joins ==
  ASSUME tail \in Seq(Tools), NEW t \in Tools, tail' = Append(tail, t)
  PROVE  /\ tail' \in Seq(Tools) /\ Len(tail') = Len(tail) + 1 /\ Len(tail) \in Nat
         /\ \A k \in 1..Len(tail) : tail'[k] = tail[k]
         /\ tail'[Len(tail) + 1] = t
  OBVIOUS

LEMMA Leaves ==
  ASSUME tail \in Seq(Tools), tail # << >>, tail' = Tail(tail)
  PROVE  /\ tail' \in Seq(Tools) /\ Len(tail') = Len(tail) - 1 /\ Len(tail) \in Nat \ {0}
         /\ \A k \in 1..Len(tail') : tail'[k] = tail[k + 1]
         /\ Head(tail) = tail[1]
  OBVIOUS

LEMMA WaitingStep ==
  ASSUME TypeOK, Waiting, Next
  PROVE  Waiting'
<1>0. CallsTyped
  BY TypeParts
<1>1. CASE UNCHANGED <<tool, tail>>
  BY <1>1 DEF Waiting
<1>2. ASSUME NEW t \in Tools, tool[t].at = "none",
             NEW n, tool' = [tool EXCEPT ![t] = [at |-> "refused", of |-> n]],
             UNCHANGED tail
      PROVE  Waiting'
  <2>1. \A u \in Tools : u # t => tool'[u] = tool[u]
    BY <1>0, <1>2 DEF CallsTyped
  <2>2. tool'[t].at = "refused"
    BY <1>0, <1>2 DEF CallsTyped
  <2>3. \A k \in 1..Len(tail) : tail[k] \in Tools /\ tail[k] # t
    BY <1>0, <1>2 DEF CallsTyped, Waiting, Unsettled
  <2> QED
    BY <1>2, <2>1, <2>2, <2>3 DEF Waiting, Unsettled
<1>3. ASSUME NEW t \in Tools, tool[t].at = "none",
             NEW n, tool' = [tool EXCEPT ![t] = [at |-> "queued", of |-> n]],
             tail' = Append(tail, t)
      PROVE  Waiting'
  <2>1. \A u \in Tools : u # t => tool'[u] = tool[u]
    BY <1>0, <1>3 DEF CallsTyped
  <2>2. tool'[t].at = "queued"
    BY <1>0, <1>3 DEF CallsTyped
  <2>3. \A k \in 1..Len(tail) : tail[k] \in Tools /\ tail[k] # t
    BY <1>0, <1>3 DEF CallsTyped, Waiting, Unsettled
  <2>4. /\ tail' \in Seq(Tools) /\ Len(tail') = Len(tail) + 1 /\ Len(tail) \in Nat
        /\ \A k \in 1..Len(tail) : tail'[k] = tail[k]
        /\ tail'[Len(tail) + 1] = t
    BY <1>0, <1>3, Joins DEF CallsTyped
  <2>5. \A u \in Tools : tool'[u].at \in Unsettled => \E k \in 1..Len(tail') : tail'[k] = u
    <3> SUFFICES ASSUME NEW u \in Tools, tool'[u].at \in Unsettled
                 PROVE  \E k \in 1..Len(tail') : tail'[k] = u
      OBVIOUS
    <3>1. CASE u = t
      BY <2>4, <3>1
    <3>2. CASE u # t
      <4>1. PICK k \in 1..Len(tail) : tail[k] = u
        BY <2>1, <3>2 DEF Waiting
      <4> QED
        BY <2>4, <4>1
    <3> QED
      BY <3>1, <3>2
  <2>6. \A k \in 1..Len(tail') : \/ k \in 1..Len(tail) /\ tail'[k] = tail[k]
                                 \/ k = Len(tail) + 1 /\ tail'[k] = t
    BY <2>4
  <2>7. \A k \in 1..Len(tail') : tool'[tail'[k]].at \in Unsettled
                                 /\ (k > 1 => tool'[tail'[k]].at = "queued")
    BY <2>1, <2>2, <2>3, <2>6 DEF Waiting, Unsettled
  <2>8. \A j, k \in 1..Len(tail') : tail'[j] = tail'[k] => j = k
    BY <2>3, <2>6 DEF Waiting
  <2> QED
    BY <2>5, <2>7, <2>8 DEF Waiting, Unsettled
<1>4. ASSUME NEW t \in Tools, NEW to \in {"started", "body"}, tail # << >>, Head(tail) = t,
             tool' = [tool EXCEPT ![t].at = to], UNCHANGED tail
      PROVE  Waiting'
  <2>1. tool'[t].at = to /\ \A u \in Tools : u # t => tool'[u] = tool[u]
    BY <1>0, <1>4, MovedCall DEF CallsTyped
  <2>2. Len(tail) \in Nat \ {0} /\ tail[1] = t /\ \A k \in 1..Len(tail) : tail[k] \in Tools
    BY <1>0, <1>4 DEF CallsTyped
  <2>3. \A k \in 1..Len(tail) : tail[k] = t <=> k = 1
    BY <2>2 DEF Waiting
  <2>4. \A u \in Tools : tool'[u].at \in Unsettled => \E k \in 1..Len(tail) : tail[k] = u
    BY <2>1, <2>2 DEF Waiting
  <2>5. \A k \in 1..Len(tail) : tool'[tail[k]].at \in Unsettled
                                /\ (k > 1 => tool'[tail[k]].at = "queued")
    BY <2>1, <2>2, <2>3, <1>4 DEF Waiting, Unsettled
  <2> QED
    BY <1>4, <2>4, <2>5 DEF Waiting, Unsettled
<1>5. ASSUME NEW t \in Tools, NEW to \in {"refused", "done"}, tail # << >>, Head(tail) = t,
             tool' = [tool EXCEPT ![t].at = to], tail' = Tail(tail)
      PROVE  Waiting'
  <2>1. tool'[t].at = to /\ \A u \in Tools : u # t => tool'[u] = tool[u]
    BY <1>0, <1>5, MovedCall DEF CallsTyped
  <2>2. /\ tail' \in Seq(Tools) /\ Len(tail') = Len(tail) - 1 /\ Len(tail) \in Nat \ {0}
        /\ \A k \in 1..Len(tail') : tail'[k] = tail[k + 1]
        /\ tail[1] = t
    BY <1>0, <1>5, Leaves DEF CallsTyped
  <2>3. \A k \in 1..Len(tail) : tail[k] \in Tools /\ (tail[k] = t <=> k = 1)
    BY <1>0, <2>2 DEF Waiting, CallsTyped
  <2>4. ASSUME NEW u \in Tools, tool'[u].at \in Unsettled
        PROVE  \E k \in 1..Len(tail') : tail'[k] = u
    <3>1. u # t
      BY <2>1, <2>4, <1>5 DEF Unsettled
    <3>2. PICK k \in 1..Len(tail) : tail[k] = u
      BY <2>1, <2>4, <3>1 DEF Waiting
    <3>3. k # 1 /\ k - 1 \in 1..Len(tail') /\ tail'[k - 1] = tail[k]
      BY <2>2, <3>1, <3>2
    <3> QED
      BY <3>2, <3>3
  <2>5. \A k \in 1..Len(tail') : /\ k + 1 \in 1..Len(tail) /\ k + 1 > 1 /\ tail'[k] = tail[k + 1]
                                 /\ tail'[k] \in Tools /\ tail'[k] # t
    BY <2>2, <2>3
  <2>6. \A k \in 1..Len(tail') : tool'[tail'[k]].at = "queued"
    BY <2>1, <2>5 DEF Waiting
  <2>7. \A j, k \in 1..Len(tail') : tail'[j] = tail'[k] => j = k
    <3> SUFFICES ASSUME NEW j \in 1..Len(tail'), NEW k \in 1..Len(tail'), tail'[j] = tail'[k]
                 PROVE  j = k
      OBVIOUS
    <3>1. j + 1 = k + 1
      BY <2>5 DEF Waiting
    <3> QED
      BY <2>2, <3>1
  <2> QED
    BY <2>4, <2>6, <2>7 DEF Waiting, Unsettled
<1>6. CASE EnterFinalizing \/ BeginDecision \/ EndLoop \/ Loop \/ Abort \/ BeginProgram \/ Timers
           \/ AttemptSucceeds \/ AttemptFails
  BY <1>1, <1>6 DEF EnterFinalizing, BeginDecision, EndLoop, Abort, Loop, CountModel, OpenAttempt,
                    CloseAttempt, Backoff, BeginProgram, Timers, RequestTimeout, DecisionTimeout, Cut,
                    AttemptSucceeds, AttemptFails, Settles, toolVars
<1>7. ASSUME NEW t \in Tools, NEW n \in DOMAIN attempts, CallTool(t, n)
      PROVE  Waiting'
  <2>1. tool[t].at = "none"
    BY <1>7 DEF CallTool
  <2>2. \/ tool' = [tool EXCEPT ![t] = [at |-> "refused", of |-> n]] /\ UNCHANGED tail
        \/ tool' = [tool EXCEPT ![t] = [at |-> "queued", of |-> n]] /\ tail' = Append(tail, t)
    BY <1>7, Zenon DEF CallTool
  <2> QED
    BY <1>2, <1>3, <2>1, <2>2
<1>8. ASSUME NEW t \in Tools, StartTool(t) \/ BeginBody(t) \/ EndBody(t)
      PROVE  Waiting'
  <2>1. tail # << >> /\ Head(tail) = t
    BY <1>8, Zenon DEF StartTool, BeginBody, EndBody, HeadIs
  <2>2. \/ \E to \in {"started", "body"} : tool' = [tool EXCEPT ![t].at = to] /\ UNCHANGED tail
        \/ \E to \in {"refused", "done"} : tool' = [tool EXCEPT ![t].at = to] /\ tail' = Tail(tail)
    BY <1>8, Zenon DEF StartTool, BeginBody, EndBody, Drop, At
  <2> QED
    BY <1>4, <1>5, <2>1, <2>2
<1>9. ASSUME NEW t \in Tools, ToolTimeout(t) PROVE Waiting'
  BY <1>1, <1>9 DEF ToolTimeout, toolVars
<1> QED
  BY <1>6, <1>7, <1>8, <1>9 DEF Next
-----------------------------------------------------------------------------
(* Where the loop does not wait for an attempt, no call is unsettled and   *)
(* no context is active. *)
LEMMA AtRest ==
  ASSUME Guarded, pc \in {"idle", "next", "starting", "backoff"}
  PROVE  /\ \A t \in Tools : tool[t].at \notin Unsettled
         /\ \A n \in 1..Current : ~attempts[n].active
  BY DEF Guarded

LEMMA OpenedStep ==
  ASSUME TypeOK, Guarded, NEW kind \in {"model", "program"}, Opened(kind)
  PROVE  Guarded' /\ Accounted'
<1>1. /\ Current' = Current + 1 /\ Current \in Nat /\ attempts'[Current'] = Fresh(kind)
      /\ \A n \in 1..Current : attempts'[n] = attempts[n]
  BY NewContext DEF Opened, TypeOK
<1>2. Fresh(kind).active
  BY Zenon DEF Fresh
<1>3. /\ \A t \in Tools : tool'[t].at \notin Unsettled
      /\ \A n \in 1..Current : ~attempts'[n].active
  BY <1>1, AtRest DEF Opened
<1>4. \A n \in 1..Current' : n \in 1..Current \/ n = Current'
  BY <1>1
<1>5. pc' = "open" /\ acts' = {} /\ result' = NoAttempt /\ Current' > 0
  BY <1>1 DEF Opened
<1>6. attempts'[Current'].active
  BY <1>1, <1>2, Zenon
<1>7. Guarded'
  BY <1>3, <1>4, <1>5, <1>6 DEF Guarded, Unsettled
<1>8. Accounted'
  BY <1>5 DEF Accounted, NoAttempt
<1> QED
  BY <1>7, <1>8

(* A context that is valid is the current one, and open. *)
LEMMA ValidIsCurrent ==
  ASSUME attempts \in Seq(AttemptContexts), Guarded, NEW n \in 1..Current, Valid(n)
  PROVE  n = Current /\ pc = "open"
  BY DEF Guarded, Valid

LEMMA GuardedStep ==
  ASSUME TypeOK, Waiting, Guarded, Accounted, Next, Kept
  PROVE  Guarded'
<1>0. /\ attempts \in Seq(AttemptContexts) /\ tool \in [Tools -> Calls]
      /\ Current' = Current /\ Current \in Nat /\ Current = Len(attempts)
      /\ \A m \in 1..Current : attempts'[m].active => attempts[m].active
      /\ \A m \in 1..Current : attempts[m].touched => attempts'[m].touched
  BY TypeParts DEF ContextsTyped, CallsTyped, Kept, Current
<1>1. ASSUME pc \in {"idle", "next", "starting", "backoff"},
             pc' \notin {"open", "closing"}, UNCHANGED tool
      PROVE  Guarded'
  BY <1>0, <1>1, AtRest DEF Guarded, Unsettled
<1>2. ASSUME UNCHANGED <<pc, failure, attempts, tool>>
      PROVE  Guarded'
  BY <1>0, <1>2 DEF Guarded, Unsettled
<1>3. CASE EnterFinalizing \/ Abort
  BY <1>2, <1>3 DEF EnterFinalizing, Abort, toolVars
<1>4. CASE BeginDecision \/ EndLoop \/ CountModel \/ Backoff
  BY <1>1, <1>4 DEF BeginDecision, EndLoop, CountModel, Backoff, Ends, Goes, toolVars
<1>5. CASE BeginProgram
  <2>1. attempts' = Append(attempts, Fresh("program"))
    BY <1>5 DEF BeginProgram
  <2>2. Current' = Current + 1
    BY <1>0, <2>1, NewContext
  <2> QED
    BY <1>0, <2>2
<1>6. CASE OpenAttempt
  <2>1. CASE attempts' = Append(attempts, Fresh("model"))
    <3>1. Current' = Current + 1
      BY <1>0, <2>1, NewContext
    <3> QED
      BY <1>0, <3>1
  <2>2. CASE Ends
    BY <1>1, <1>6, <2>2 DEF OpenAttempt, Ends
  <2> QED
    BY <1>6, <2>1, <2>2 DEF OpenAttempt
<1>7. CASE CloseAttempt
  <2>0. pc = "closing" /\ UNCHANGED <<failure, attempts, tool>>
    BY <1>7 DEF CloseAttempt, toolVars
  <2>1. CASE pc' = "over"
    BY <1>0, <2>0, <2>1 DEF Guarded, Unsettled
  <2>2. ASSUME \A t \in Tools : tool[t].at \notin Unsettled, pc' \in {"idle", "backoff"}
        PROVE  Guarded'
    BY <1>0, <2>0, <2>2 DEF Guarded, Unsettled
  <2>3. CASE failure = "none" /\ pc' = "idle"
    BY <2>0, <2>2, <2>3 DEF Guarded
  <2>4. CASE MayRetry /\ pc' = "backoff"
    BY <2>2, <2>4 DEF Guarded, MayRetry
  <2> QED
    BY <1>7, <2>1, <2>3, <2>4 DEF CloseAttempt, Ends, Goes
<1>8. CASE Timers
  <2>1. Current \in 1..Len(attempts)
    BY <1>0, <1>8, CurrentContext DEF Timers, RequestTimeout, DecisionTimeout
  <2>2. PICK why \in {"retryable", "fatal"} : attempts' = [attempts EXCEPT ![Current].cut = why]
    BY <1>8 DEF Timers, RequestTimeout, DecisionTimeout, Cut
  <2>3. \A m \in 1..Len(attempts) : attempts'[m].active = attempts[m].active
    BY <1>0, <2>1, <2>2, CutContext
  <2>4. UNCHANGED <<pc, failure, tool>> /\ pc = "open"
    BY <1>8 DEF Timers, RequestTimeout, DecisionTimeout, Cut, loopVars
  <2>5. attempts'[Current].active
    BY <2>1, <2>3, <2>4 DEF Guarded
  <2> QED
    BY <1>0, <2>1, <2>4, <2>5 DEF Guarded, Unsettled
<1>9. CASE AttemptSucceeds \/ AttemptFails
  <2>1. Current \in 1..Len(attempts) /\ attempts[Current] \in AttemptContexts /\ pc = "open"
    BY <1>0, <1>9, CurrentContext DEF AttemptSucceeds, AttemptFails
  <2>2. attempts' = [attempts EXCEPT ![Current].active = FALSE] /\ UNCHANGED tool
    BY <1>9, Zenon DEF AttemptSucceeds, AttemptFails, Settles
  <2>3. ~attempts'[Current].active
    BY <1>0, <2>1, <2>2, EndedContext, Zenon
  <2>4. \A n \in 1..Current : ~attempts'[n].active
    BY <1>0, <2>3 DEF Guarded
  <2>5. CASE AttemptSucceeds
    <3>1. pc' \in {"closing", "idle"}
      BY <2>5, Zenon DEF AttemptSucceeds, Goes
    <3>2. \A t \in Tools : tool[t].at \notin Unsettled
      BY <2>5 DEF AttemptSucceeds, Guarded, Of
    <3> QED
      BY <1>0, <2>1, <2>2, <2>4, <3>1, <3>2 DEF Guarded, Unsettled
  <2>6. CASE AttemptFails
    <3>1. pc' \in {"closing", "over"}
      BY <2>6, Zenon DEF AttemptFails, Goes, Ends
    <3>2. failure' \in Failures
      BY <2>6 DEF AttemptFails, Settles
    <3>3. failure' # "none"
      BY <2>1, <3>2 DEF Failures, AttemptContexts
    <3> QED
      BY <1>0, <2>1, <2>2, <2>4, <3>1, <3>3 DEF Guarded, Unsettled
  <2> QED
    BY <1>9, <2>5, <2>6
<1>10. ASSUME NEW t \in Tools, NEW n \in DOMAIN attempts, CallTool(t, n)
       PROVE  Guarded'
  <2>1. n \in 1..Current /\ n \in 0..Current
    BY <1>0
  <2>2. UNCHANGED <<pc, failure>>
    BY <1>10 DEF CallTool, loopVars
  <2>3. CASE ~Valid(n)
    <3>1. tool' = [tool EXCEPT ![t] = [at |-> "refused", of |-> n]] /\ UNCHANGED attempts
      BY <1>10, <2>3, Zenon DEF CallTool
    <3>2. tool'[t].at = "refused" /\ \A u \in Tools : u # t => tool'[u] = tool[u]
      BY <1>0, <2>1, <3>1, MadeCall, Zenon
    <3> QED
      BY <1>0, <2>2, <3>1, <3>2 DEF Guarded, Unsettled
  <2>4. CASE Valid(n)
    <3>1. n = Current /\ pc = "open" /\ Current > 0
      BY <1>0, <2>1, <2>4, ValidIsCurrent DEF Guarded
    <3>2. attempts' = [attempts EXCEPT ![n].touched = TRUE, ![n].timer = FALSE]
      BY <1>10, <2>4, Zenon DEF CallTool
    <3>3. attempts'[n].touched /\ \A m \in 1..Len(attempts) : attempts'[m].active = attempts[m].active
      BY <1>0, <2>1, <3>2, TouchedContext, Zenon
    <3>4. PICK to \in {"refused", "queued"} : tool' = [tool EXCEPT ![t] = [at |-> to, of |-> n]]
      BY <1>10, <2>4, Zenon DEF CallTool
    <3>5. tool'[t].of = n /\ \A u \in Tools : u # t => tool'[u] = tool[u]
      BY <1>0, <2>1, <3>4, MadeCall, Zenon
    <3>6. /\ attempts'[Current'].active
          /\ \A m \in 1..Current' : attempts'[m].active => m = Current' /\ pc' = "open"
      BY <1>0, <2>1, <2>2, <3>1, <3>3 DEF Guarded
    <3>7. \A u \in Tools : tool'[u].at \in Unsettled => tool'[u].of = Current'
      BY <1>0, <3>1, <3>5 DEF Guarded
    <3>8. attempts'[Current'].touched
      BY <1>0, <3>1, <3>3
    <3> QED
      BY <1>0, <2>2, <3>1, <3>6, <3>7, <3>8 DEF Guarded, Unsettled
  <2> QED
    BY <2>3, <2>4
<1>11. ASSUME NEW t \in Tools, StartTool(t) \/ BeginBody(t) \/ EndBody(t)
       PROVE  Guarded'
  <2>1. UNCHANGED <<pc, failure, attempts>> /\ tool[t].at \in Unsettled
    BY <1>11, Zenon DEF StartTool, BeginBody, EndBody, loopVars, HeadIs, Unsettled
  <2>2. PICK to \in {"refused", "started", "body", "done"} : tool' = [tool EXCEPT ![t].at = to]
    BY <1>11, Zenon DEF StartTool, BeginBody, EndBody, Drop, At
  <2>3. tool'[t].of = tool[t].of /\ \A u \in Tools : u # t => tool'[u] = tool[u]
    BY <1>0, <2>2, MovedCall, Zenon
  <2>4. \A u \in Tools : tool'[u].at \in Unsettled => tool[u].at \in Unsettled /\ tool'[u].of = tool[u].of
    BY <2>1, <2>3, Zenon
  <2> QED
    BY <1>0, <2>1, <2>4 DEF Guarded, Unsettled
<1>12. ASSUME NEW t \in Tools, ToolTimeout(t) PROVE Guarded'
  BY <1>2, <1>12 DEF ToolTimeout, toolVars
<1> QED
  BY <1>3, <1>4, <1>5, <1>6, <1>7, <1>8, <1>9, <1>10, <1>11, <1>12 DEF Next, Loop
LEMMA AccountedStep ==
  ASSUME TypeOK, Waiting, Guarded, Accounted, Next, Kept
  PROVE  Accounted'
<1>0. /\ attempts \in Seq(AttemptContexts) /\ tool \in [Tools -> Calls] /\ acts \subseteq Tools
      /\ Current' = Current /\ Current \in Nat /\ Current = Len(attempts)
      /\ \A m \in 1..Current : attempts[m].touched => attempts'[m].touched
  BY TypeParts DEF ContextsTyped, CallsTyped, Kept, Current
<1>1. ASSUME acts' \in {{}, acts}, UNCHANGED tool,
             pc' \in {"next", "starting", "backoff"} => acts' = {},
             \/ result' = NoAttempt
             \/ result' = Current /\ pc' \in {"idle", "over"}
             \/ result' = result /\ (pc \in {"idle", "over"} => pc' \in {"idle", "over"})
      PROVE  Accounted'
  <2>1. \A t \in acts' : t \in acts
    BY <1>1
  <2>2. \A t \in acts' : /\ tool'[t].at \in {"body", "done"}
                         /\ tool'[t].of = Current' /\ Current' > 0
                         /\ attempts'[Current'].touched
    BY <1>0, <1>1, <2>1 DEF Accounted
  <2> QED
    BY <1>0, <1>1, <2>2 DEF Accounted
<1>2. CASE EnterFinalizing \/ Abort \/ EndLoop
  BY <1>1, <1>2 DEF EnterFinalizing, Abort, EndLoop, Ends, toolVars, Accounted
<1>3. CASE BeginDecision
  BY <1>1, <1>3 DEF BeginDecision, Ends, Goes, Accounted
<1>4. CASE CountModel
  BY <1>1, <1>4 DEF CountModel, Ends, Goes, Accounted
<1>5. CASE Backoff
  BY <1>1, <1>5 DEF Backoff, Ends, Goes, Accounted, toolVars
<1>6. CASE OpenAttempt
  BY <1>1, <1>6 DEF OpenAttempt, Ends, Goes, Accounted
<1>7. CASE BeginProgram
  <2>1. attempts' = Append(attempts, Fresh("program"))
    BY <1>7 DEF BeginProgram
  <2>2. Current' = Current + 1
    BY <1>0, <2>1, NewContext
  <2> QED
    BY <1>0, <2>2
<1>8. CASE CloseAttempt
  <2>0. pc = "closing" /\ UNCHANGED <<tool, acts>>
    BY <1>8 DEF CloseAttempt, toolVars
  <2>1. CASE pc' = "over" /\ UNCHANGED result
    BY <1>1, <2>0, <2>1
  <2>2. CASE pc' = "idle" /\ result' = Current
    BY <1>1, <2>0, <2>2
  <2>3. CASE MayRetry /\ pc' = "backoff" /\ UNCHANGED result
    <3>1. acts = {}
      BY <2>3 DEF Accounted, MayRetry
    <3> QED
      BY <1>1, <2>0, <2>3, <3>1
  <2> QED
    BY <1>8, <2>1, <2>2, <2>3 DEF CloseAttempt, Ends, Goes
<1>9. CASE Timers
  BY <1>1, <1>9 DEF Timers, RequestTimeout, DecisionTimeout, Cut, loopVars, Accounted
<1>10. CASE AttemptSucceeds
  <2>1. \/ pc' = "closing" /\ UNCHANGED result
        \/ pc' = "idle" /\ result' = Current
    BY <1>10, Zenon DEF AttemptSucceeds, Goes
  <2>2. pc = "open" /\ UNCHANGED <<tool, acts>>
    BY <1>10 DEF AttemptSucceeds, Settles
  <2> QED
    BY <1>1, <2>1, <2>2
<1>11. CASE AttemptFails
  <2>1. pc' \in {"closing", "over"} /\ UNCHANGED result
    BY <1>11, Zenon DEF AttemptFails, Goes, Ends
  <2>2. pc = "open" /\ UNCHANGED <<tool, acts>>
    BY <1>11 DEF AttemptFails, Settles
  <2> QED
    BY <1>1, <2>1, <2>2
<1>12. ASSUME NEW t \in Tools, NEW n \in DOMAIN attempts, CallTool(t, n)
       PROVE  Accounted'
  <2>1. n \in 0..Current /\ UNCHANGED <<pc, result, acts>> /\ tool[t].at = "none"
    BY <1>0, <1>12 DEF CallTool, loopVars
  <2>2. PICK to \in {"refused", "queued"} : tool' = [tool EXCEPT ![t] = [at |-> to, of |-> n]]
    BY <1>12, Zenon DEF CallTool
  <2>3. \A u \in Tools : u # t => tool'[u] = tool[u]
    BY <1>0, <2>1, <2>2, MadeCall, Zenon
  <2>4. \A u \in acts : u # t /\ u \in Tools /\ tool'[u] = tool[u]
    BY <1>0, <2>1, <2>3 DEF Accounted
  <2> QED
    BY <1>0, <2>1, <2>4 DEF Accounted
<1>13. ASSUME NEW t \in Tools, StartTool(t) \/ BeginBody(t) \/ EndBody(t)
       PROVE  Accounted'
  <2>1. UNCHANGED <<pc, result, attempts>> /\ tool[t].at \in Unsettled
    BY <1>13, Zenon DEF StartTool, BeginBody, EndBody, loopVars, HeadIs, Unsettled
  <2>2. tool[t].of = Current /\ Current > 0 /\ attempts[Current].touched
        /\ pc \notin {"next", "starting", "backoff"}
    BY <2>1 DEF Guarded
  <2>3. \/ tool[t].at \in {"queued", "started"} /\ UNCHANGED acts
           /\ \E to \in {"refused", "started"} : tool' = [tool EXCEPT ![t].at = to]
        \/ acts' = acts \cup {t} /\ tool' = [tool EXCEPT ![t].at = "body"]
        \/ UNCHANGED acts /\ tool' = [tool EXCEPT ![t].at = "done"]
    BY <1>13, Zenon DEF StartTool, BeginBody, EndBody, Drop, At, HeadIs
  <2>4. ASSUME NEW to \in {"refused", "started", "body", "done"}, tool' = [tool EXCEPT ![t].at = to]
        PROVE  tool'[t].at = to /\ tool'[t].of = tool[t].of
               /\ \A u \in Tools : u # t => tool'[u] = tool[u]
    BY <1>0, <2>4, MovedCall, Zenon
  <2>5. CASE /\ tool[t].at \in {"queued", "started"} /\ UNCHANGED acts
             /\ \E to \in {"refused", "started"} : tool' = [tool EXCEPT ![t].at = to]
    <3>1. \A u \in acts : u # t /\ u \in Tools
      BY <1>0, <2>5 DEF Accounted
    <3>2. \A u \in acts : tool'[u] = tool[u]
      BY <2>4, <2>5, <3>1
    <3> QED
      BY <1>0, <2>1, <2>5, <3>2 DEF Accounted
  <2>6. ASSUME NEW to \in {"body", "done"}, tool' = [tool EXCEPT ![t].at = to],
               acts' \subseteq acts \cup {t}
        PROVE  Accounted'
    <3>1. \A u \in acts' : u = t \/ (u \in acts /\ tool'[u] = tool[u])
      BY <1>0, <2>4, <2>6
    <3>2. tool'[t].at = to /\ tool'[t].of = tool[t].of
      BY <2>4, <2>6
    <3>3. \A u \in acts' : tool'[u].at \in {"body", "done"} /\ tool'[u].of = Current
      BY <2>2, <3>1, <3>2 DEF Accounted
    <3> QED
      BY <1>0, <2>1, <2>2, <3>3 DEF Accounted
  <2> QED
    BY <2>3, <2>5, <2>6
<1>14. ASSUME NEW t \in Tools, ToolTimeout(t) PROVE Accounted'
  BY <1>1, <1>14 DEF ToolTimeout, toolVars, Accounted
<1> QED
  BY <1>2, <1>3, <1>4, <1>5, <1>6, <1>7, <1>8, <1>9, <1>10, <1>11, <1>12, <1>13, <1>14
     DEF Next, Loop

-----------------------------------------------------------------------------
LEMMA NextInv ==
  ASSUME Inv, Next PROVE Inv'
<1>1. LoopTyped /\ ContextsTyped /\ CallsTyped /\ attempts \in Seq(AttemptContexts)
  BY TypeParts DEF Inv, ContextsTyped
<1>2. LoopTyped' /\ Room'
  BY <1>1, LoopStep DEF Inv
<1>3. TypeOK'
  BY <1>1, <1>2, CallsStep, TypeParts DEF Inv, TypeOK, LoopTyped, ContextsTyped, CallsTyped, Calls
<1>4. Waiting'
  BY WaitingStep DEF Inv
<1>5. Guarded' /\ Accounted'
  BY <1>1, ContextStep, OpenedStep, GuardedStep, AccountedStep DEF Inv
<1> QED
  BY <1>2, <1>3, <1>4, <1>5 DEF Inv

LEMMA StutterInv ==
  ASSUME Inv, UNCHANGED vars PROVE Inv'
  BY DEF Inv, vars, TypeOK, Room, Waiting, Guarded, Accounted, Current, Unsettled

LEMMA Invariance == Spec => []Inv
<1>1. Inv /\ [Next]_vars => Inv'
  BY NextInv, StutterInv
<1> QED
  BY <1>1, InitInv, PTL DEF Spec

(* Whatever the provider does, the counters stay within the budgets of the *)
(* run and of the finalizing phase (request.ts, executor.ts). *)
THEOREM RequestTypes == Spec => []TypeOK
<1>1. Inv => TypeOK
  BY DEF Inv
<1> QED
  BY <1>1, Invariance, PTL

(* A failed attempt is replaced only while nothing it started has acted:   *)
(* what a decision returns accounts for every tool that acted in it.       *)
THEOREM ResultsCoverActs == Spec => []ResultCoversActs
<1>1. Inv => ResultCoversActs
  BY DEF Inv, ResultCoversActs, Accounted
<1> QED
  BY <1>1, Invariance, PTL
-----------------------------------------------------------------------------
(* The refinement.  What the loop sees of the phases and of the tools.     *)
Phase == IF pc \in {"idle", "over"} THEN pc ELSE "deciding"
Busy == {t \in Tools : tool[t].at = "body"}

(* Nothing else is at work beside the call at the head of the tail. *)
LEMMA OneAtWork ==
  ASSUME Inv, NEW t \in Tools, tail # << >>, Head(tail) = t
  PROVE  \A u \in Tools : tool[u].at = "body" => u = t
<1>1. tail[1] = t /\ Len(tail) \in Nat
  BY DEF Inv, TypeOK
<1> QED
  BY <1>1 DEF Inv, Waiting, Unsettled

(* Between decisions nothing is at work. *)
LEMMA IdleAtRest ==
  ASSUME Guarded, pc = "idle"
  PROVE  Busy = {}
  BY DEF Guarded, Busy, Unsettled

(* The loop's steps begin a decision, return from it, end the loop, or are *)
(* not seen. *)
LEMMA LoopRefines ==
  ASSUME Inv, Inv', UNCHANGED tool,
         \/ EnterFinalizing \/ BeginDecision \/ BeginProgram \/ EndLoop \/ Loop \/ Timers
         \/ AttemptSucceeds \/ AttemptFails \/ Abort
  PROVE  \/ Phase = "idle" /\ Phase' = "deciding" /\ acts' = {} /\ UNCHANGED Busy
         \/ Phase = "deciding" /\ Phase' = "idle" /\ Busy = {} /\ UNCHANGED <<acts, Busy>>
         \/ Phase' = "over" /\ UNCHANGED <<acts, Busy>>
         \/ UNCHANGED <<Phase, acts, Busy>>
<1>0. UNCHANGED Busy
  BY DEF Busy
<1> USE <1>0 DEF Phase, Ends, Goes
<1>1. CASE EnterFinalizing \/ Abort
  BY <1>1 DEF EnterFinalizing, Abort, toolVars
<1>2. CASE BeginDecision \/ BeginProgram
  BY <1>2 DEF BeginDecision, BeginProgram
<1>3. CASE EndLoop
  BY <1>3 DEF EndLoop, toolVars
<1>4. CASE CountModel \/ OpenAttempt
  BY <1>4 DEF CountModel, OpenAttempt
<1>5. CASE Backoff
  BY <1>5 DEF Backoff, toolVars
<1>6. CASE Timers
  BY <1>6 DEF Timers, RequestTimeout, DecisionTimeout, Cut, loopVars
<1>7. CASE CloseAttempt
  <2>1. pc = "closing" /\ UNCHANGED acts /\ pc' \in {"over", "idle", "backoff"}
    BY <1>7, Zenon DEF CloseAttempt, toolVars
  <2>2. pc' = "idle" => Busy' = {}
    BY IdleAtRest DEF Inv, Guarded, Busy, Unsettled
  <2> QED
    BY <2>1, <2>2
<1>8. CASE AttemptSucceeds \/ AttemptFails
  <2>1. pc = "open" /\ UNCHANGED acts /\ pc' \in {"over", "idle", "closing"}
    BY <1>8, Zenon DEF AttemptSucceeds, AttemptFails, Settles
  <2>2. pc' = "idle" => Busy' = {}
    BY DEF Inv, Guarded, Busy, Unsettled
  <2> QED
    BY <2>1, <2>2
<1> QED
  BY <1>1, <1>2, <1>3, <1>4, <1>5, <1>6, <1>7, <1>8 DEF Loop

(* A call's steps let it act, settle it, or are not seen. *)
LEMMA ToolRefines ==
  ASSUME Inv, NEW t \in Tools,
         \/ \E n \in DOMAIN attempts : CallTool(t, n)
         \/ StartTool(t) \/ BeginBody(t) \/ EndBody(t) \/ ToolTimeout(t)
  PROVE  \/ /\ Phase = "deciding" /\ Busy = {} /\ t \notin acts
            /\ acts' = acts \cup {t} /\ Busy' = {t} /\ UNCHANGED Phase
         \/ Busy # {} /\ Busy' = {} /\ UNCHANGED <<Phase, acts>>
         \/ UNCHANGED <<Phase, acts, Busy>>
<1>0. tool \in [Tools -> Calls]
  BY TypeParts DEF Inv, CallsTyped
<1>1. UNCHANGED pc /\ UNCHANGED Phase
  BY Zenon DEF CallTool, StartTool, BeginBody, EndBody, ToolTimeout, loopVars, Phase
<1>2. CASE \E n \in DOMAIN attempts : CallTool(t, n)
  <2>1. PICK n \in DOMAIN attempts : CallTool(t, n)
    BY <1>2
  <2>2. n \in 0..Current
    BY <2>1 DEF Inv, TypeOK, Current
  <2>3. tool[t].at = "none" /\ UNCHANGED acts
    BY <2>1 DEF CallTool
  <2>4. PICK to \in {"refused", "queued"} : tool' = [tool EXCEPT ![t] = [at |-> to, of |-> n]]
    BY <2>1, Zenon DEF CallTool
  <2>5. tool'[t].at = to /\ \A u \in Tools : u # t => tool'[u] = tool[u]
    BY <1>0, <2>2, <2>4, MadeCall, Zenon
  <2>6. UNCHANGED Busy
    BY <2>3, <2>5 DEF Busy
  <2> QED
    BY <1>1, <2>3, <2>6
<1>3. ASSUME NEW to \in {"refused", "started", "body", "done"}, tool' = [tool EXCEPT ![t].at = to]
      PROVE  tool'[t].at = to /\ \A u \in Tools : u # t => tool'[u] = tool[u]
  BY <1>0, <1>3, MovedCall, Zenon
<1>4. ASSUME tool[t].at \in {"queued", "started"}, UNCHANGED acts,
             NEW to \in {"refused", "started"}, tool' = [tool EXCEPT ![t].at = to]
      PROVE  UNCHANGED <<Phase, acts, Busy>>
  <2>1. tool'[t].at = to /\ \A u \in Tools : u # t => tool'[u] = tool[u]
    BY <1>3, <1>4
  <2>2. UNCHANGED Busy
    BY <1>4, <2>1 DEF Busy
  <2> QED
    BY <1>1, <1>4, <2>2
<1>5. CASE StartTool(t)
  BY <1>4, <1>5, Zenon DEF StartTool, HeadIs, Drop, At
<1>6. CASE BeginBody(t)
  <2>1. CASE Drop(t) /\ UNCHANGED acts
    BY <1>4, <1>6, <2>1, Zenon DEF BeginBody, HeadIs, Drop, At
  <2>2. CASE Valid(tool[t].of) /\ At(t, "body") /\ acts' = acts \cup {t}
    <3>1. tail # << >> /\ Head(tail) = t /\ tool[t].at = "started"
      BY <1>6, Zenon DEF BeginBody, HeadIs
    <3>2. tool[t].of = Current /\ Current > 0 /\ attempts \in Seq(AttemptContexts) /\ Current \in Nat
      BY <3>1 DEF Inv, Guarded, Unsettled, TypeOK, Current
    <3>3. pc = "open"
      BY <2>2, <3>2, ValidIsCurrent DEF Inv
    <3>4. t \notin acts
      BY <3>1 DEF Inv, Accounted
    <3>5. Busy = {}
      BY <3>1, OneAtWork DEF Busy
    <3>6. tool'[t].at = "body" /\ \A u \in Tools : u # t => tool'[u] = tool[u]
      BY <1>3, <2>2 DEF At
    <3>7. Busy' = {t}
      BY <3>5, <3>6 DEF Busy
    <3> QED
      BY <1>1, <2>2, <3>3, <3>4, <3>5, <3>7 DEF Phase
  <2> QED
    BY <1>6, <2>1, <2>2, Zenon DEF BeginBody
<1>7. CASE EndBody(t)
  <2>1. tail # << >> /\ Head(tail) = t /\ tool[t].at = "body" /\ UNCHANGED acts
    BY <1>7, Zenon DEF EndBody, HeadIs
  <2>2. \A u \in Tools : tool[u].at = "body" => u = t
    BY <2>1, OneAtWork
  <2>3. tool'[t].at = "done" /\ \A u \in Tools : u # t => tool'[u] = tool[u]
    BY <1>3, <1>7 DEF EndBody, At
  <2>4. Busy' = {} /\ Busy # {}
    BY <2>1, <2>2, <2>3 DEF Busy
  <2> QED
    BY <1>1, <2>1, <2>4
<1>8. CASE ToolTimeout(t)
  BY <1>1, <1>8 DEF ToolTimeout, toolVars, Busy
<1> QED
  BY <1>2, <1>5, <1>6, <1>7, <1>8

LEMMA StepRefines ==
  ASSUME Inv, Inv', [Next]_vars
  PROVE  [AbstractDecision!Next]_AbstractDecision!decisionVars
<1>0. SUFFICES AbstractDecision!Next \/ UNCHANGED <<Phase, acts, Busy>>
  BY DEF AbstractDecision!decisionVars, Phase, Busy
<1>1. CASE UNCHANGED vars
  BY <1>1 DEF vars, Phase, Busy
<1>2. CASE \/ EnterFinalizing \/ BeginDecision \/ BeginProgram \/ EndLoop \/ Loop \/ Timers
           \/ AttemptSucceeds \/ AttemptFails \/ Abort
  <2>1. UNCHANGED tool
    BY <1>2 DEF EnterFinalizing, BeginDecision, BeginProgram, EndLoop, Loop, CountModel, OpenAttempt,
                CloseAttempt, Backoff, Timers, RequestTimeout, DecisionTimeout, Cut, AttemptSucceeds,
                AttemptFails, Settles, Abort, toolVars
  <2> QED
    BY <1>2, <2>1, LoopRefines
       DEF AbstractDecision!Next, AbstractDecision!Begin, AbstractDecision!Return,
           AbstractDecision!Stop, Phase, Busy
<1>3. ASSUME NEW t \in Tools,
             \/ \E n \in DOMAIN attempts : CallTool(t, n)
             \/ StartTool(t) \/ BeginBody(t) \/ EndBody(t) \/ ToolTimeout(t)
      PROVE  AbstractDecision!Next \/ UNCHANGED <<Phase, acts, Busy>>
  BY <1>3, ToolRefines
     DEF AbstractDecision!Next, AbstractDecision!Act, AbstractDecision!Settle, Phase, Busy
<1> QED
  BY <1>1, <1>2, <1>3 DEF Next

(* However late a provider calls and whatever times out, tools act one at  *)
(* a time and only inside a decision that has not returned (request.ts     *)
(* guardModelAttempt, executor.ts serial): every behaviour of the requests *)
(* is one of the abstract Decision. *)
THEOREM RequestsImplementDecision == Spec => ImplementsDecision
<1>1. Init => AbstractDecision!Init
  BY DEF Init, AbstractDecision!Init
<1>2. Inv /\ Inv' /\ [Next]_vars => [AbstractDecision!Next]_AbstractDecision!decisionVars
  BY StepRefines
<1> QED
  BY <1>1, <1>2, Invariance, PTL DEF Spec, ImplementsDecision, AbstractDecision!Spec
=============================================================================
