----------------------------- MODULE RunService -----------------------------
(***************************************************************************)
(* The in-process executor (service.py) and its process (main.py).         *)
(*                                                                         *)
(* One worker task per Run executes _execute; HTTP calls cancel it; the    *)
(* deadline of the Run, a fatal error, a shutdown or a crash may strike at *)
(* every await.  The tables are those of RunLifecycle, and each call below *)
(* performs one of its transactions: see ProductRepository.                *)
(*                                                                         *)
(* A repository call runs in a child task (_finish_repository_call).  It   *)
(* can return; raise after a rollback; raise although its commit went      *)
(* through ("late_commit"); or not settle within the cleanup grace         *)
(* ("hang"), in which case it is quarantined and the service fails closed. *)
(* A cancellation that arrives meanwhile is delivered only once the child  *)
(* has settled, and then hides its result.  Faults lists the failures that *)
(* may happen.                                                             *)
(***************************************************************************)
EXTENDS Naturals, Sequences, FiniteSets

CONSTANTS Runs, Threads, RuntimeEventTypes, Nil,
          Cancellers,   \* concurrent cancel requests
          Strangers,    \* may a non-owner ask for a cancellation?
          Faults,       \* pairs <<call, failure>> that may happen
          MaxPublished  \* bound on the runtime events of a Run

VARIABLES status, home, log,  \* the tables
          evidence,    \* the execution_outcome of each Run, or Nil
          pc,          \* where the task of each Run is
          goal,        \* the terminal status that its worker wants to write
          intent,      \* task.cancel() was called by _request_cancel
          expired,     \* asyncio.timeout_at cancelled the task
          accepted,    \* the ledger: runtime events confirmed as persisted
          tlock,       \* holder of each _terminal_locks entry: Run, canceller, Nil
          creq,        \* the cancel requests
          quarantine,  \* repository calls left running after the grace
          unconfirmed, \* Runs with a terminal write that was not confirmed
          fatal, closed, up

db     == <<status, home, log>>
tasks  == <<pc, goal, intent, expired, accepted, tlock>>
health == <<fatal, closed, up>>
vars   == <<db, evidence, tasks, creq, quarantine, unconfirmed, health>>

DB == INSTANCE RunLifecycle

Calls    == {"admit", "start", "load", "append", "commit", "settle", "cancel"}
Failures == {"rollback", "late_commit", "hang"}

ASSUME ServiceAssumption ==
  /\ Strangers \in BOOLEAN
  /\ MaxPublished \in Nat
  /\ Faults \subseteq (Calls \X Failures) \cup {<<"runtime", "hang">>}
  /\ Nil \notin Runs \cup Cancellers \cup Threads
  /\ Runs \cap Cancellers = {}
  /\ RuntimeEventTypes \cap DB!HostEvents = {}

(* Labels of a task: "none" before admission, "done" after discard.        *)
DeadlineScope == {"starting", "loading", "streaming", "cleaning", "draining", "queued",
                  "appending"}
LivePcs       == DeadlineScope \cup {"interrupted", "finishing", "committing"}
Pcs           == LivePcs \cup {"none", "admitting", "done"}

(* What an execution_outcome says of the ledger: was it the ledger of the  *)
(* Run's own execution, and how many sources it accepted.    *)
Evidence == [own : BOOLEAN, sources : 0..MaxPublished]

FreshEvidence == [own |-> FALSE, sources |-> 0]

NoCancel == [pc |-> "idle", run |-> Nil, owner |-> FALSE,
             snapshot |-> FreshEvidence, reply |-> "none"]

CancelRecord ==
  [pc : {"idle", "settling", "waiting", "calling"}, run : Runs \cup {Nil},
   owner : BOOLEAN, snapshot : Evidence,
   reply : {"none", "recorded", "forbidden", "unconfirmed", "unavailable"}]

QuarantinedCall ==
  [run : Runs, op : {"admit", "start", "append", "completed", "failed", "cancelled"},
   snapshot : Evidence]

TypeOK ==
  /\ status \in [Runs -> DB!Statuses]
  /\ home \in [Runs -> Threads \cup {Nil}]
  /\ log \in [Runs -> Seq(DB!EventTypes)]
  /\ evidence \in [Runs -> Evidence \cup {Nil}]
  /\ pc \in [Runs -> Pcs]
  /\ goal \in [Runs -> {"none", "completed", "failed"}]
  /\ intent \in [Runs -> BOOLEAN]
  /\ expired \in [Runs -> BOOLEAN]
  /\ accepted \in [Runs -> 0..MaxPublished]
  /\ tlock \in [Runs -> Runs \cup Cancellers \cup {Nil}]
  /\ creq \in [Cancellers -> CancelRecord]
  /\ quarantine \subseteq QuarantinedCall
  /\ unconfirmed \subseteq Runs
  /\ fatal \in BOOLEAN /\ closed \in BOOLEAN /\ up \in BOOLEAN

Active(r) == DB!Active(r)
Live(r)   == pc[r] \in LivePcs
Healthy   == up /\ ~fatal /\ ~closed

(* The runtime events of Run r that are in the tables. *)
Published(r) == Cardinality({i \in DOMAIN log[r] : log[r][i] \in RuntimeEventTypes})

(* execution.outcome() *)
Outcome(r) == [own |-> TRUE, sources |-> accepted[r]]

Init ==
  /\ DB!Init
  /\ evidence = [r \in Runs |-> Nil]
  /\ pc = [r \in Runs |-> "none"]
  /\ goal = [r \in Runs |-> "none"]
  /\ intent = [r \in Runs |-> FALSE]
  /\ expired = [r \in Runs |-> FALSE]
  /\ accepted = [r \in Runs |-> 0]
  /\ tlock = [r \in Runs |-> Nil]
  /\ creq = [c \in Cancellers |-> NoCancel]
  /\ quarantine = {}
  /\ unconfirmed = {}
  /\ fatal = FALSE /\ closed = FALSE /\ up = TRUE

-----------------------------------------------------------------------------
(* Cancellation, fatal errors, locks *)

(* _request_cancel on the tasks of a set of Runs: only a live task without *)
(* an outstanding cancellation (task.cancelling() = 0) is cancelled.       *)
Requested(S) ==
  [r \in Runs |-> intent[r] \/ (r \in S /\ Live(r) /\
                                ~(expired[r] /\ pc[r] \in DeadlineScope))]

(* _mark_fatal cancels every task but the current one. *)
MarkFatal(current) ==
  /\ fatal' = TRUE
  /\ intent' = Requested(Runs \ current)
  /\ UNCHANGED <<closed, up>>

(* Mutant: a lock that is never released. *)
Leak(holder) == UNCHANGED tlock

Release(holder) == tlock' = [r \in Runs |-> IF tlock[r] = holder THEN Nil ELSE tlock[r]]

Goto(r, label) == pc' = [pc EXCEPT ![r] = label]

(* The worker leaves an await inside the deadline scope: a cancellation    *)
(* ends it, the deadline makes it fail the Run, else it goes on.           *)
Continue(r, label) ==
  /\ Goto(r, IF intent[r] THEN "done" ELSE IF expired[r] THEN "finishing" ELSE label)
  /\ goal' = IF ~intent[r] /\ expired[r] THEN [goal EXCEPT ![r] = "failed"] ELSE goal

(* Mutant: the error is swallowed. *)
Swallow(r) == Goto(r, "done") /\ UNCHANGED goal

(* The await raised: a timeout, a policy violation or any other error.     *)
Raise(r) ==
  /\ Goto(r, IF intent[r] THEN "done" ELSE "finishing")
  /\ goal' = [goal EXCEPT ![r] = "failed"]

(* RepositoryCleanupTimeout in the worker of r. *)
WorkerHang(r, call, op) ==
  /\ <<call, "hang">> \in Faults
  /\ quarantine' = quarantine \cup
       {[run |-> r, op |-> op, snapshot |-> Outcome(r)]}
  /\ MarkFatal({r})
  /\ Goto(r, "done")
  /\ Release(r)
  /\ UNCHANGED <<db, evidence, goal, expired, accepted, creq, unconfirmed>>

-----------------------------------------------------------------------------
(* Transactions: an UPDATE that matches no row changes nothing *)

StartRow(r) == IF status[r] = "created" THEN DB!Start(r) ELSE UNCHANGED db

PublishRow(r) ==
  IF status[r] = "running"
    THEN \E type \in RuntimeEventTypes : DB!Publish(r, type)
    ELSE UNCHANGED db

EndRow(r, terminal, snapshot) ==
  IF \/ terminal = "completed" /\ status[r] = "running"
     \/ terminal \in {"failed", "cancelled"} /\ Active(r)
    THEN /\ CASE terminal = "completed" -> DB!Complete(r)
              [] terminal = "failed"    -> DB!Fail(r)
              [] terminal = "cancelled" -> DB!Cancel(r)
         /\ evidence' = [evidence EXCEPT ![r] = snapshot]
    ELSE UNCHANGED <<db, evidence>>

-----------------------------------------------------------------------------
(* Admission: create_run, create_initial_run *)

AdmitBegin(r) ==
  /\ Healthy
  /\ pc[r] = "none"
  /\ Goto(r, "admitting")
  /\ UNCHANGED <<db, evidence, goal, intent, expired, accepted, tlock, creq,
                 quarantine, unconfirmed, health>>

(* The commit returns to admit_and_launch, which registers the worker, or  *)
(* finds in _launch that the service has closed or failed meanwhile.       *)
Admit(r, t) ==
  /\ pc[r] = "admitting"
  /\ DB!Create(r, t)
  /\ Goto(r, IF Healthy THEN "starting" ELSE "done")
  /\ UNCHANGED <<evidence, goal, intent, expired, accepted, tlock, creq,
                 quarantine, unconfirmed, health>>

(* Replay, conflict, refusal or rollback: no new Run. *)
AdmitRefused(r) ==
  /\ pc[r] = "admitting"
  /\ Goto(r, "none")
  /\ UNCHANGED <<db, evidence, goal, intent, expired, accepted, tlock, creq,
                 quarantine, unconfirmed, health>>

(* The deadline interrupts the call after its commit: RunAdmissionTimeout. *)
AdmitLate(r, t) ==
  /\ pc[r] = "admitting"
  /\ <<"admit", "late_commit">> \in Faults
  /\ DB!Create(r, t)
  /\ Goto(r, "done")
  /\ UNCHANGED <<evidence, goal, intent, expired, accepted, tlock, creq,
                 quarantine, unconfirmed, health>>

AdmitHang(r) == pc[r] = "admitting" /\ WorkerHang(r, "admit", "admit")

-----------------------------------------------------------------------------
(* The worker: _execute *)

(* start_run; FALSE, when the Run was already ended, makes it return.  The *)
(* deadline of the Run is also that of the call, which it rolls back; and  *)
(* a task cancelled before its first step never makes the call.            *)
StartRun(r) ==
  /\ pc[r] = "starting"
  /\ \/ /\ StartRow(r)
        /\ Continue(r, IF status[r] = "created" THEN "loading" ELSE "done")
     \/ /\ intent[r] \/ expired[r] \/ <<"start", "rollback">> \in Faults
        /\ UNCHANGED db /\ Raise(r)
     \/ <<"start", "late_commit">> \in Faults /\ StartRow(r) /\ Raise(r)
  /\ UNCHANGED <<evidence, intent, expired, accepted, tlock, creq, quarantine,
                 unconfirmed, health>>

StartRunHang(r) == pc[r] = "starting" /\ WorkerHang(r, "start", "start")

(* get_run_context and build_context, which may reject the messages.       *)
LoadContext(r) ==
  /\ pc[r] = "loading"
  /\ Continue(r, "streaming") \/ Raise(r)
  /\ UNCHANGED <<db, evidence, intent, expired, accepted, tlock, creq, quarantine,
                 unconfirmed, health>>

(* A hanging read leaves nothing behind that could still write.            *)
LoadContextHang(r) ==
  /\ pc[r] = "loading"
  /\ <<"load", "hang">> \in Faults
  /\ MarkFatal({r})
  /\ Goto(r, "done")
  /\ UNCHANGED <<db, evidence, goal, expired, accepted, tlock, creq, quarantine,
                 unconfirmed>>

(* The runner yields an event to persist, or one that the loop rejects; or *)
(* it ends, with a valid result or not, and waits for its producer.        *)
StreamItem(r) ==
  /\ pc[r] = "streaming"
  /\ ~intent[r] /\ ~expired[r]
  /\ \/ Published(r) < MaxPublished /\ Continue(r, "queued")
     \/ /\ Goto(r, "draining")
        /\ \E g \in {"completed", "failed"} : goal' = [goal EXCEPT ![r] = g]
     \/ Raise(r)
  /\ UNCHANGED <<db, evidence, intent, expired, accepted, tlock, creq, quarantine,
                 unconfirmed, health>>

(* A cancellation reaches the runner, which stops its producer and waits   *)
(* for it (finish_producer).                                               *)
StreamCancelled(r) ==
  /\ pc[r] = "streaming"
  /\ intent[r] \/ expired[r]
  /\ Goto(r, "cleaning")
  /\ UNCHANGED <<db, evidence, goal, intent, expired, accepted, tlock, creq,
                 quarantine, unconfirmed, health>>

CleanupDone(r) ==
  /\ \/ pc[r] = "cleaning" /\ Continue(r, "streaming")
     \/ /\ pc[r] = "draining" /\ ~intent[r] /\ ~expired[r]
        /\ Goto(r, "finishing") /\ UNCHANGED goal
  /\ UNCHANGED <<db, evidence, intent, expired, accepted, tlock, creq, quarantine,
                 unconfirmed, health>>

(* RuntimeFatalError: the producer outlives the grace, or a cancellation   *)
(* interrupts the wait for it (see RunnerStream).                          *)
CleanupFatal(r) ==
  /\ \/ pc[r] \in {"cleaning", "draining"} /\ <<"runtime", "hang">> \in Faults
     \/ pc[r] = "interrupted"
     \/ pc[r] = "draining" /\ (intent[r] \/ expired[r])
  /\ MarkFatal({r})
  /\ Goto(r, "done")
  /\ UNCHANGED <<db, evidence, goal, expired, accepted, tlock, creq, quarantine,
                 unconfirmed>>

(* Mutant: a deadline that does not reach the runner. *)
DeadlineOutsideStream(r) ==
  /\ pc[r] \in DeadlineScope \ {"streaming"}
  /\ ~intent[r] /\ ~expired[r]
  /\ expired' = [expired EXCEPT ![r] = TRUE]
  /\ UNCHANGED <<db, evidence, pc, goal, intent, accepted, tlock, creq, quarantine,
                 unconfirmed, health>>

(* timeout_at cancels the task at the deadline.  After a user cancellation *)
(* it changes nothing, except that it is the second one when the worker is *)
(* waiting for the producer.                                               *)
Deadline(r) ==
  /\ pc[r] \in DeadlineScope
  /\ \/ ~intent[r] /\ ~expired[r] /\ expired' = [expired EXCEPT ![r] = TRUE] /\ UNCHANGED pc
     \/ intent[r] /\ pc[r] = "cleaning" /\ Goto(r, "interrupted") /\ UNCHANGED expired
  /\ UNCHANGED <<db, evidence, goal, intent, accepted, tlock, creq, quarantine,
                 unconfirmed, health>>

(* persist_controlled_event: the lock, then the check of _repository_call. *)
AppendLocked(r) ==
  /\ pc[r] = "queued"
  /\ \/ (intent[r] \/ expired[r]) /\ Continue(r, "queued") /\ UNCHANGED tlock
     \/ /\ ~intent[r] /\ ~expired[r]
        /\ tlock[r] = Nil
        /\ IF fatal THEN Goto(r, "done") /\ UNCHANGED tlock
                    ELSE Goto(r, "appending") /\ tlock' = [tlock EXCEPT ![r] = r]
        /\ UNCHANGED goal
  /\ UNCHANGED <<db, evidence, intent, expired, accepted, creq, quarantine,
                 unconfirmed, health>>

(* append_and_confirm: the ledger confirms an event in the same child, and *)
(* an event refused by an ended Run makes the worker return.               *)
AppendEvent(r) ==
  /\ pc[r] = "appending"
  /\ Release(r)
  /\ \/ /\ PublishRow(r)
        /\ accepted' = IF status[r] = "running" THEN [accepted EXCEPT ![r] = @ + 1]
                                                ELSE accepted
        /\ Continue(r, IF status[r] = "running" THEN "streaming" ELSE "done")
     \/ /\ expired[r] \/ <<"append", "rollback">> \in Faults
        /\ Raise(r) /\ UNCHANGED <<db, accepted>>
     \/ /\ <<"append", "late_commit">> \in Faults
        /\ PublishRow(r) /\ Raise(r) /\ UNCHANGED accepted
  /\ UNCHANGED <<evidence, intent, expired, creq, quarantine, unconfirmed, health>>

AppendHang(r) == pc[r] = "appending" /\ WorkerHang(r, "append", "append")

(* Mutant: no check of _fatal_error before the terminal write. *)
CommitUnchecked(r) ==
  /\ pc[r] = "finishing"
  /\ \/ intent[r] /\ Goto(r, "done") /\ UNCHANGED tlock
     \/ /\ ~intent[r]
        /\ tlock[r] = Nil
        /\ Goto(r, "committing")
        /\ tlock' = [tlock EXCEPT ![r] = r]
  /\ UNCHANGED <<db, evidence, goal, intent, expired, accepted, creq, quarantine,
                 unconfirmed, health>>

(* _commit_terminal: the lock, then the check of _repository_call.         *)
CommitLocked(r) ==
  /\ pc[r] = "finishing"
  /\ \/ intent[r] /\ Goto(r, "done") /\ UNCHANGED tlock
     \/ /\ ~intent[r]
        /\ tlock[r] = Nil
        /\ IF fatal THEN Goto(r, "done") /\ UNCHANGED tlock
                    ELSE Goto(r, "committing") /\ tlock' = [tlock EXCEPT ![r] = r]
  /\ UNCHANGED <<db, evidence, goal, intent, expired, accepted, creq, quarantine,
                 unconfirmed, health>>

(* complete_run or fail_run returns. *)
CommitTerminal(r) ==
  /\ pc[r] = "committing"
  /\ EndRow(r, goal[r], Outcome(r))
  /\ Goto(r, "done")
  /\ Release(r)
  /\ UNCHANGED <<goal, intent, expired, accepted, creq, quarantine, unconfirmed, health>>

(* It raises: the service fails closed, unless the worker was cancelled.   *)
CommitFault(r) ==
  /\ pc[r] = "committing"
  /\ \/ <<"commit", "rollback">> \in Faults /\ UNCHANGED <<db, evidence>>
     \/ <<"commit", "late_commit">> \in Faults /\ EndRow(r, goal[r], Outcome(r))
  /\ unconfirmed' = unconfirmed \cup {r}
  /\ IF intent[r] THEN UNCHANGED <<intent, health>> ELSE MarkFatal({r})
  /\ Goto(r, "done")
  /\ Release(r)
  /\ UNCHANGED <<goal, expired, accepted, creq, quarantine>>

CommitHang(r) == pc[r] = "committing" /\ WorkerHang(r, "commit", goal[r])

-----------------------------------------------------------------------------
(* The cancel endpoint: cancel_run *)

Answered(c, reply) ==
  creq' = [creq EXCEPT ![c].pc = "idle", ![c].reply = reply]

(* The worker is stopped first.  A Run without an execution is cancelled   *)
(* with a fresh ledger, without settlement and without its lock.           *)
CancelBegin(c, r, owner) ==
  /\ up /\ ~fatal
  /\ creq[c].pc = "idle"
  /\ status[r] # "absent"
  /\ creq' = [creq EXCEPT ![c] =
                [pc |-> IF Live(r) THEN "settling" ELSE "calling", run |-> r,
                 owner |-> owner, snapshot |-> FreshEvidence, reply |-> "none"]]
  /\ intent' = Requested({r})
  /\ UNCHANGED <<db, evidence, pc, goal, expired, accepted, tlock, quarantine,
                 unconfirmed, health>>

(* settle_provider_usage_for_terminal *)
CancelSettle(c) ==
  /\ creq[c].pc = "settling"
  /\ \/ creq' = [creq EXCEPT ![c].pc = "waiting"]
     \/ fatal /\ Answered(c, "unavailable")
     \/ <<"settle", "rollback">> \in Faults /\ Answered(c, "unavailable")
  /\ UNCHANGED <<db, evidence, tasks, quarantine, unconfirmed, health>>

(* Mutant: the snapshot is taken without the terminal lock. *)
CancelUnlocked(c) ==
  /\ creq[c].pc = "waiting"
  /\ ~fatal
  /\ creq' = [creq EXCEPT ![c].pc = "calling", ![c].snapshot = Outcome(creq[c].run)]
  /\ UNCHANGED <<db, evidence, tasks, quarantine, unconfirmed, health>>

CancelLocked(c) ==
  LET r == creq[c].run IN
  /\ creq[c].pc = "waiting"
  /\ tlock[r] = Nil
  /\ IF fatal
       THEN Answered(c, "unavailable") /\ UNCHANGED tlock
       ELSE /\ creq' = [creq EXCEPT ![c].pc = "calling", ![c].snapshot = Outcome(r)]
            /\ tlock' = [tlock EXCEPT ![r] = c]
  /\ UNCHANGED <<db, evidence, pc, goal, intent, expired, accepted, quarantine,
                 unconfirmed, health>>

(* repository.cancel_run, where the ownership is checked. *)
CancelCommit(c) ==
  /\ creq[c].pc = "calling"
  /\ IF creq[c].owner
       THEN EndRow(creq[c].run, "cancelled", creq[c].snapshot) /\ Answered(c, "recorded")
       ELSE Answered(c, "forbidden") /\ UNCHANGED <<db, evidence>>
  /\ Release(c)
  /\ UNCHANGED <<pc, goal, intent, expired, accepted, quarantine, unconfirmed, health>>

CancelFault(c) ==
  /\ creq[c].pc = "calling"
  /\ \/ <<"cancel", "rollback">> \in Faults /\ UNCHANGED <<db, evidence>>
     \/ /\ <<"cancel", "late_commit">> \in Faults /\ creq[c].owner
        /\ EndRow(creq[c].run, "cancelled", creq[c].snapshot)
  /\ unconfirmed' = unconfirmed \cup {r \in {creq[c].run} : creq[c].owner}
  /\ Answered(c, "unconfirmed")
  /\ Release(c)
  /\ UNCHANGED <<pc, goal, intent, expired, accepted, quarantine, health>>

(* A settlement or a cancellation that does not settle within the grace;   *)
(* the first has written usage only.                                       *)
CancelHang(c) ==
  /\ \/ /\ creq[c].pc = "settling" /\ <<"settle", "hang">> \in Faults
        /\ UNCHANGED quarantine
     \/ /\ creq[c].pc = "calling" /\ <<"cancel", "hang">> \in Faults
        /\ quarantine' = quarantine \cup
             {[run |-> r, op |-> "cancelled", snapshot |-> creq[c].snapshot] :
                r \in {q \in {creq[c].run} : creq[c].owner}}
  /\ MarkFatal({})
  /\ Answered(c, "unavailable")
  /\ Release(c)
  /\ UNCHANGED <<db, evidence, pc, goal, expired, accepted, unconfirmed>>

-----------------------------------------------------------------------------
(* Quarantine, shutdown, crash, restart *)

(* A quarantined call settles after all: it commits, or rolls back.  The   *)
(* child of an admission then finds the service unhealthy in _launch, and  *)
(* that of an append confirms its event in the ledger.                     *)
QuarantineSettles(q) ==
  /\ q \in quarantine
  /\ quarantine' = quarantine \ {q}
  /\ \/ UNCHANGED <<db, evidence, accepted>>
     \/ /\ q.op = "admit"
        /\ \E t \in Threads : DB!Create(q.run, t)
        /\ UNCHANGED <<evidence, accepted>>
     \/ q.op = "start" /\ StartRow(q.run) /\ UNCHANGED <<evidence, accepted>>
     \/ /\ q.op = "append" /\ status[q.run] = "running"
        /\ PublishRow(q.run)
        /\ accepted' = [accepted EXCEPT ![q.run] = @ + 1]
        /\ UNCHANGED evidence
     \/ /\ q.op \in DB!TerminalStatuses
        /\ EndRow(q.run, q.op, q.snapshot)
        /\ UNCHANGED accepted
  /\ UNCHANGED <<pc, goal, intent, expired, tlock, creq, unconfirmed, health>>

Shutdown ==
  /\ up /\ ~closed
  /\ closed' = TRUE
  /\ intent' = Requested(Runs)
  /\ UNCHANGED <<db, evidence, pc, goal, expired, accepted, tlock, creq, quarantine,
                 unconfirmed, fatal, up>>

(* The process ends: after the gather of a shutdown, replaced by its       *)
(* supervisor after a fatal error, or at any time by a crash.              *)
ProcessEnds ==
  /\ up
  /\ up' = FALSE /\ fatal' = FALSE /\ closed' = FALSE
  /\ pc' = [r \in Runs |-> IF pc[r] = "admitting" THEN "none"
                           ELSE IF Live(r) THEN "done" ELSE pc[r]]
  /\ intent' = [r \in Runs |-> FALSE]
  /\ expired' = [r \in Runs |-> FALSE]
  /\ tlock' = [r \in Runs |-> Nil]
  /\ creq' = [c \in Cancellers |-> NoCancel]
  /\ quarantine' = {}
  /\ UNCHANGED <<db, evidence, goal, accepted, unconfirmed>>

ReplacementDue == fatal \/ (closed /\ \A r \in Runs : ~Live(r))

(* Mutant: a process that starts without the sweep. *)
RestartWithoutSweep ==
  /\ ~up
  /\ up' = TRUE
  /\ UNCHANGED <<db, evidence, tasks, creq, quarantine, unconfirmed, fatal, closed>>

(* lifespan: the orphan sweep, with the source ids it finds in the events, *)
(* before any traffic.                                                     *)
Restart ==
  /\ ~up
  /\ up' = TRUE
  /\ IF \E r \in Runs : Active(r) THEN DB!FailOrphans ELSE UNCHANGED db
  /\ evidence' = [r \in Runs |->
                    IF Active(r) THEN [own |-> TRUE, sources |-> Published(r)]
                                 ELSE evidence[r]]
  /\ UNCHANGED <<tasks, creq, quarantine, unconfirmed, fatal, closed>>

Admission(r) ==
  \/ AdmitBegin(r)
  \/ \E t \in Threads : Admit(r, t) \/ AdmitLate(r, t)
  \/ AdmitRefused(r)
  \/ AdmitHang(r)

(* The steps a worker takes without waiting for its model. *)
WorkerStep(r) ==
  \/ StartRun(r) \/ StartRunHang(r)
  \/ LoadContext(r) \/ LoadContextHang(r)
  \/ StreamCancelled(r) \/ CleanupDone(r) \/ CleanupFatal(r)
  \/ AppendLocked(r) \/ AppendEvent(r) \/ AppendHang(r)
  \/ CommitLocked(r) \/ CommitTerminal(r) \/ CommitFault(r) \/ CommitHang(r)

CancelStep(c) ==
  \/ CancelSettle(c) \/ CancelLocked(c)
  \/ CancelCommit(c) \/ CancelFault(c) \/ CancelHang(c)

Next ==
  \/ \E r \in Runs : Admission(r) \/ WorkerStep(r) \/ StreamItem(r) \/ Deadline(r)
  \/ \E c \in Cancellers :
       \/ \E r \in Runs, owner \in IF Strangers THEN BOOLEAN ELSE {TRUE} :
            CancelBegin(c, r, owner)
       \/ CancelStep(c)
  \/ \E q \in quarantine : QuarantineSettles(q)
  \/ Shutdown
  \/ ProcessEnds
  \/ Restart

(* Repository calls and cleanups are bounded by timeouts, every Run has a  *)
(* deadline, and the supervisor replaces a process that stopped or failed. *)
Fairness ==
  /\ \A r \in Runs : WF_vars(WorkerStep(r)) /\ WF_vars(Deadline(r))
  /\ \A c \in Cancellers : WF_vars(CancelStep(c))
  /\ WF_vars(ReplacementDue /\ ProcessEnds)
  /\ WF_vars(Restart)

Spec == Init /\ [][Next]_vars

FairSpec == Spec /\ Fairness

-----------------------------------------------------------------------------
(* Properties *)

(* A healthy service holds an active Run that nothing will end.            *)
Stranded(r) ==
  /\ Healthy /\ Active(r) /\ ~Live(r)
  /\ \A c \in Cancellers : creq[c].pc = "idle" \/ creq[c].run # r

(* service.py:281: while the service is healthy, an active Run has a       *)
(* worker, or a cancel request that is about to end it.                    *)
NoStrandedRun == \A r \in Runs : ~Stranded(r)

(* agent-policy.md:151: when the terminal fact of a Run cannot be          *)
(* confirmed and the Run is still active, the service has failed closed.   *)
(* For a worker's write NoStrandedRun says so; a cancel request that fails *)
(* does not keep it: see the README.                                       *)
UnconfirmedTerminalFailsClosed ==
  \A r \in unconfirmed : Active(r) =>
    \/ ~Healthy
    \/ \E c \in Cancellers : creq[c].pc # "idle" /\ creq[c].run = r

(* service.py:313, 448: the outcome taken from the Run's own ledger counts *)
(* exactly the source events persisted for the Run: the terminal lock      *)
(* orders the snapshot after any append in flight.                         *)
EvidenceMatchesLog ==
  \A r \in Runs :
    evidence[r] # Nil /\ evidence[r].own => evidence[r].sources = Published(r)

(* The repository calls in flight. *)
InFlight ==
  {r \in Runs : pc[r] \in {"admitting", "starting", "loading", "appending", "committing"}}
    \cup {c \in Cancellers : creq[c].pc = "calling"}

(* agent-policy.md:154, _repository_call: once the service failed closed,  *)
(* no new transaction is begun on the unsafe pool by any worker or         *)
(* request.                                                                *)
FatalStopsNewCalls == [][fatal /\ fatal' => InFlight' \subseteq InFlight]_vars

(* events.md:150: ownership is checked before cancellation, so a refused   *)
(* cancel request leaves an active Run with its worker.                    *)
RefusedCancelHasNoEffect ==
  \A c \in Cancellers :
    LET r == creq[c].run IN
    creq[c].reply = "forbidden" /\ Healthy /\ Active(r) =>
      \/ Live(r)
      \/ \E d \in Cancellers : creq[d].pc # "idle" /\ creq[d].run = r

(* account-and-usage.md:21, service.py:281: a cancellation that ends a Run *)
(* of a healthy service has settled the ledger of its execution first.     *)
(* Not kept by the code with two cancel requests: see the README.          *)
CancelSettlesLedger ==
  \A r \in Runs : Healthy /\ status[r] = "cancelled" => evidence[r].own

(* Once no more cancel requests are sent, every Run that becomes active    *)
(* ends, whatever fails: its worker, a request, or the sweep of the next   *)
(* process ends it, unless it loses its last owner in a healthy process.   *)
EveryRunEnds ==
  (<>[](\A c \in Cancellers : creq[c].pc = "idle"))
    => \A r \in Runs : Active(r) ~> ~Active(r) \/ Stranded(r)

(* Whatever fails, a process that ends and is replaced leaves no Run       *)
(* active: if the process keeps being replaced, every Run ends.            *)
RecoveryEndsEveryRun == ([]<>~up) => \A r \in Runs : Active(r) ~> ~Active(r)

(* A cancel request is always answered: neither the worker's cleanup nor   *)
(* the terminal lock makes it wait forever.                                *)
EveryCancelAnswered == \A c \in Cancellers : creq[c].pc # "idle" ~> creq[c].pc = "idle"
=============================================================================
