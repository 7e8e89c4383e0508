---------------------------- MODULE MCRunService ----------------------------
(***************************************************************************)
(* Small instances of RunService for TLC: which repository calls may fail. *)
(***************************************************************************)
EXTENDS RunService, TLC

NoFaults == {}

(* Calls of the worker: every failure, but no append whose commit outlives *)
(* its timeout, after which the ledger cannot know of the event.           *)
WorkerFaults ==
  ({"start", "commit"} \X Failures) \cup
  {<<"append", "rollback">>, <<"append", "hang">>, <<"load", "hang">>,
   <<"runtime", "hang">>}

AllFaults == (Calls \X Failures) \cup {<<"runtime", "hang">>}

Symmetry == Permutations(Runs) \cup Permutations(Cancellers)
=============================================================================
