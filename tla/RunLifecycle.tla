---------------------------- MODULE RunLifecycle ----------------------------
(***************************************************************************)
(* What the product promises about Runs, whatever stores or executes them. *)
(*                                                                         *)
(* A Run is created in a Thread that has no active Run, is started at most *)
(* once, publishes events while it is running, and reaches exactly one     *)
(* terminal status.  The terminal status and the terminal event appear in  *)
(* one step, after which neither the status nor the log changes.           *)
(*                                                                         *)
(* ProductRepository (the tables and their transactions) implements this   *)
(* specification, and RunService (the executor) is written on top of its   *)
(* actions: each of them is one committed transaction.                     *)
(***************************************************************************)
EXTENDS Naturals, Sequences

CONSTANTS Runs,               \* Run identifiers
          Threads,            \* Thread identifiers
          RuntimeEventTypes,  \* event types a Runtime may publish
          Nil                 \* "no Thread"

VARIABLES status,  \* status[r]: where Run r is in its life
          home,    \* home[r]: the Thread of Run r, Nil before creation
          log      \* log[r]: the event types published so far, in order

vars == <<status, home, log>>

ActiveStatuses   == {"created", "running"}
TerminalStatuses == {"completed", "failed", "cancelled"}
Statuses         == {"absent"} \cup ActiveStatuses \cup TerminalStatuses

TerminalEvents == {"run.completed", "run.failed", "run.cancelled"}
HostEvents     == {"run.started", "message.completed"} \cup TerminalEvents
EventTypes     == HostEvents \cup RuntimeEventTypes

Active(r) == status[r] \in ActiveStatuses

Init ==
  /\ status = [r \in Runs |-> "absent"]
  /\ home = [r \in Runs |-> Nil]
  /\ log = [r \in Runs |-> <<>>]

(* A Thread takes a new Run only when it has no active one. *)
Create(r, t) ==
  /\ status[r] = "absent"
  /\ \A q \in Runs : home[q] = t => ~Active(q)
  /\ status' = [status EXCEPT ![r] = "created"]
  /\ home' = [home EXCEPT ![r] = t]
  /\ UNCHANGED log

Move(r, s, events) ==
  /\ status' = [status EXCEPT ![r] = s]
  /\ log' = [log EXCEPT ![r] = @ \o events]
  /\ UNCHANGED home

Start(r) ==
  /\ status[r] = "created"
  /\ Move(r, "running", <<"run.started">>)

Publish(r, type) ==
  /\ status[r] = "running"
  /\ type \in RuntimeEventTypes
  /\ Move(r, "running", <<type>>)

Complete(r) ==
  /\ status[r] = "running"
  /\ Move(r, "completed", <<"message.completed", "run.completed">>)

Fail(r) ==
  /\ Active(r)
  /\ Move(r, "failed", <<"run.failed">>)

Cancel(r) ==
  /\ Active(r)
  /\ Move(r, "cancelled", <<"run.cancelled">>)

(* A fresh process fails, in one transaction, every Run its predecessor    *)
(* left active.                                                            *)
FailOrphans ==
  /\ \E r \in Runs : Active(r)
  /\ status' = [r \in Runs |-> IF Active(r) THEN "failed" ELSE status[r]]
  /\ log' = [r \in Runs |->
               IF Active(r) THEN Append(log[r], "run.failed") ELSE log[r]]
  /\ UNCHANGED home

Next ==
  \/ \E r \in Runs :
       \/ \E t \in Threads : Create(r, t)
       \/ Start(r)
       \/ \E type \in RuntimeEventTypes : Publish(r, type)
       \/ Complete(r)
       \/ Fail(r)
       \/ Cancel(r)
  \/ FailOrphans

Spec == Init /\ [][Next]_vars
=============================================================================
