--------------------------- MODULE MCRunLifecycle ---------------------------
(***************************************************************************)
(* Two instances of RunLifecycle.  "Cancel": one run and two requests that *)
(* name it, so that they meet each other and every step of the run.        *)
(* "Queue": two runs, one waiting behind the other, through faults, a      *)
(* crash and a reconciliation; only the first uses a tool that may write.  *)
(***************************************************************************)
EXTENDS RunLifecycle, TLC

CONSTANTS r1, r2, c1, c2

OneRun == {r1}
TwoRuns == {r1, r2}
NoCancels == {}
OneCancel == {c1}
TwoCancels == {c1, c2}
FirstRun == [c \in Cancels |-> r1]
NoTools == [r \in Runs |-> 0]
CancelSymmetry == Permutations(TwoCancels)
FirstRunTools == [r \in Runs |-> IF r = r1 THEN 1 ELSE 0]

(* The log of a run that left the queue is read by no guard and by no      *)
(* property of the run_queue instance: two states that differ only there   *)
(* have the same future, and are checked once.                             *)
QueueView ==
  LET kept == {r \in Runs : exec[r] \notin {"gone", "lost"}} IN
  <<row, [r \in kept |-> <<log[r], told[r]>>], boot, marked, quarantine, gate,
    owners, requests, queue, active, exec, stop, effect, tool, call, ack,
    upsets, acks, debt>>
=============================================================================
