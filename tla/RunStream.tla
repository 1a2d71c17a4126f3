------------------------------ MODULE RunStream ------------------------------
(***************************************************************************)
(* The server-sent event stream of a run (GET /api/runs/:id/events), read  *)
(* beside RunLifecycle.  It polls the durable log from a cursor; once the  *)
(* row is terminal and the run inactive it reads once more and ends with   *)
(* `done`.  The cursor itself is abstracted to what the properties ask of  *)
(* it: whether the event that concludes the run has been delivered.        *)
(***************************************************************************)
EXTENDS RunLifecycle

VARIABLE reader   (* per run: [pc, concluded] of its one stream             *)
streamVars == <<vars, reader>>

Concluded(r) == Places(r, TerminalEvents) # {}

StreamInit == Init /\ reader = [r \in Runs |-> [pc |-> "off", concluded |-> FALSE]]

Moves(r, from, to) ==
  /\ boot = "up"
  /\ reader[r].pc = from
  /\ reader' = [reader EXCEPT ![r].pc = to]
  /\ UNCHANGED vars

(* Each read delivers everything after the cursor. *)
Delivers(r, from, to) ==
  /\ boot = "up"
  /\ reader[r].pc = from
  /\ reader' = [reader EXCEPT ![r] = [pc |-> to, concluded |-> @.concluded \/ Concluded(r)]]
  /\ UNCHANGED vars

Connect(r) == row[r].status # "absent" /\ Moves(r, "off", "read")
ReadEvents(r) == Delivers(r, "read", "status")
ReadStatus(r) ==
  \/ row[r].status \in Terminal /\ Moves(r, "status", "decide")
  \/ row[r].status \notin Terminal /\ Moves(r, "status", "read")
(* Mutant: the stream ends on the row alone. *)
CheckActiveSkipped(r) == Moves(r, "decide", "final")

CheckActive(r) ==
  \/ active[r] = "none" /\ Moves(r, "decide", "final")
  \/ active[r] # "none" /\ Moves(r, "decide", "read")
ReadFinal(r) == Delivers(r, "final", "done")

Stream(r) == Connect(r) \/ ReadEvents(r) \/ ReadStatus(r) \/ CheckActive(r) \/ ReadFinal(r)

(* A crash drops every open stream; the client may connect again with      *)
(* Last-Event-ID.                                                          *)
Disconnects ==
  reader' = IF boot' = "down" /\ boot = "up"
            THEN [r \in Runs |-> [reader[r] EXCEPT !.pc = IF @ = "done" THEN @ ELSE "off"]]
            ELSE reader

StreamNext == (Next /\ Disconnects) \/ \E r \in Runs : Stream(r)

StreamSpec == StreamInit /\ [][StreamNext]_streamVars

(* The scheduling is fair to the run and the request; a client need not     *)
(* read its stream.                                                        *)
FairStreamSpec == StreamSpec /\ Fairness

(* A stream that ends after an executor's commit has delivered the event    *)
(* that concludes the run: the run stays active until its commit has been   *)
(* verified, so the last read comes after the terminal event.               *)
StreamEndsAfterCommit ==
  \A r \in owners : reader[r].pc = "done" /\ upsets = 0 => reader[r].concluded

(* runs.ts: "Read from the durable log, so no subscribe/replay race can     *)
(* lose events": a stream that ended with `done` while nothing failed has   *)
(* delivered the event that concludes the run.                              *)
StreamLosesNothing ==
  \A r \in Runs : reader[r].pc = "done" /\ upsets = 0 /\ Concluded(r) => reader[r].concluded
=============================================================================
