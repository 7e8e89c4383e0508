------------------------- MODULE ProductRepository -------------------------
(***************************************************************************)
(* The product tables (models.py) and the transactions on them             *)
(* (repository.py): Threads, Runs, Messages and Events.                    *)
(*                                                                         *)
(* A transition of an existing Run is one UPDATE ... WHERE status ...      *)
(* RETURNING followed by inserts in the same transaction: one action.  An  *)
(* UPDATE that matches no row changes nothing and returns the stored Run,  *)
(* so it is a stuttering step and has no action.                           *)
(*                                                                         *)
(* Admission (create_run, create_initial_run) reads before it writes, so   *)
(* it has one action per database round trip: the locking lookup, the      *)
(* insert that the constraints arbitrate, and the second reading that      *)
(* follows an IntegrityError.  Several callers may be between these steps. *)
(* RowLocks says whether SELECT ... FOR UPDATE locks the Thread row        *)
(* (PostgreSQL) or is ignored (SQLite).                                    *)
(*                                                                         *)
(* A call may also end without an answer: its deadline rolls it back, or   *)
(* expires while the commit is already on its way.                         *)
(***************************************************************************)
EXTENDS Naturals

CONSTANTS Threads,            \* Thread ids (client-addressable UUIDs)
          Runs,               \* Run ids
          Subjects,           \* authenticated principals
          Keys,               \* idempotency keys
          Contents,           \* user message texts
          Callers,            \* concurrent admission calls
          RuntimeEventTypes,  \* event types accepted by append_active_event
          RowLocks,           \* does FOR UPDATE lock the Thread row?
          MaxSeq,             \* bound on last_seq
          Nil                 \* SQL NULL, and "no row"

VARIABLES thread,    \* product_threads: owner_subject of each Thread, or Nil
          run,       \* product_runs: one row per Run id
          event,     \* product_events: the rows of each Run
          message,   \* product_messages: the rows of each Run
          lock,      \* the admission call holding each Thread row, or Nil
          call,      \* the admission calls in flight and their last answer
          executor   \* "up", or "down" between a crash and the startup sweep

vars == <<thread, run, event, message, lock, call, executor>>
tables == <<thread, run, event, message>>

ASSUME ConstantsAssumption ==
  /\ RowLocks \in BOOLEAN
  /\ MaxSeq \in Nat
  /\ Nil \notin Threads \cup Runs \cup Subjects \cup Keys \cup Contents \cup Callers
  /\ RuntimeEventTypes \cap
       {"run.started", "message.completed",
        "run.completed", "run.failed", "run.cancelled"} = {}

-----------------------------------------------------------------------------
(* Rows *)

ACTIVE_STATUSES  == {"created", "running"}
TerminalStatuses == {"completed", "failed", "cancelled"}
Statuses         == {"absent"} \cup ACTIVE_STATUSES \cup TerminalStatuses

(* The terminal event type that announces each terminal status. *)
TerminalEvent == [completed |-> "run.completed",
                  failed    |-> "run.failed",
                  cancelled |-> "run.cancelled"]

TerminalEvents == {"run.completed", "run.failed", "run.cancelled"}
EventTypes == {"run.started", "message.completed"}
                \cup TerminalEvents \cup RuntimeEventTypes

(* first_visible_at is the clock of one event; it is named by that event's *)
(* seq, 0 standing for NULL.  execution_outcome keeps only its status.     *)
RunRecord == [status            : Statuses,
              thread_id         : Threads \cup {Nil},
              idempotency_key   : Keys \cup {Nil},
              actor_subject     : Subjects \cup {Nil},
              last_seq          : Nat,
              first_visible_at  : Nat,
              execution_outcome : TerminalStatuses \cup {Nil}]

EventRecord == [seq : Nat, type : EventTypes]

(* The text of an assistant message is not told apart: Nil. *)
MessageRecord == [role : {"user", "assistant"}, content : Contents \cup {Nil}]

NoRun == [status            |-> "absent",
          thread_id         |-> Nil,
          idempotency_key   |-> Nil,
          actor_subject     |-> Nil,
          last_seq          |-> 0,
          first_visible_at  |-> 0,
          execution_outcome |-> Nil]

Operations == {"create_run", "create_initial_run"}
Phases     == {"idle", "lookup", "insert", "arbiter"}
Accepted   == {"created", "replayed"}
Conflicts  == {"active_run_conflict", "thread_already_exists",
               "idempotency_mismatch"}
Replies    == Accepted \cup Conflicts \cup
                {"none", "thread_not_found", "forbidden", "run_ownership",
                 "integrity_error", "unavailable"}

Call == [phase : Phases, op : Operations, subject : Subjects \cup {Nil},
         thread_id : Threads \cup {Nil}, key : Keys \cup {Nil},
         content : Contents \cup {Nil}, reply : Replies,
         run_id : Runs \cup {Nil}]

NoCall == [phase |-> "idle", op |-> "create_run", subject |-> Nil,
           thread_id |-> Nil, key |-> Nil, content |-> Nil,
           reply |-> "none", run_id |-> Nil]

TypeOK ==
  /\ thread \in [Threads -> Subjects \cup {Nil}]
  /\ run \in [Runs -> RunRecord]
  /\ event \in [Runs -> SUBSET EventRecord]
  /\ message \in [Runs -> SUBSET MessageRecord]
  /\ lock \in [Threads -> Callers \cup {Nil}]
  /\ call \in [Callers -> Call]
  /\ executor \in {"up", "down"}

Exists(r)   == run[r].status # "absent"
Active(r)   == run[r].status \in ACTIVE_STATUSES
Terminal(r) == run[r].status \in TerminalStatuses

RunsOf(t) == {r \in Runs : Exists(r) /\ run[r].thread_id = t}

(* Mutant: a query that forgets the Runs not started yet. *)
StartedRuns(t) == {r \in RunsOf(t) : run[r].status = "running"}

(* _active_run_query *)
ActiveRuns(t) == {r \in RunsOf(t) : Active(r)}

RunsWithKey(t, k) == {r \in RunsOf(t) : run[r].idempotency_key = k}

(* _require_thread_run_consistency *)
ThreadConsistent(t) == \A r \in RunsOf(t) : run[r].actor_subject = thread[t]

(* _require_internal_run_consistency *)
RunConsistent(r) ==
  LET t == run[r].thread_id IN
    t # Nil /\ thread[t] # Nil /\ run[r].actor_subject = thread[t]

UserMessages(r) == {m \in message[r] : m.role = "user"}

(* Mutant: FOR UPDATE without effect. *)
IgnoredRowLock(t) == TRUE

(* Writers of a Thread's rows wait for the caller that locked the Thread:  *)
(* every transition inserts an event that references the Thread.           *)
ThreadRowFree(t) == lock[t] = Nil

-----------------------------------------------------------------------------
(* Admission *)

Init ==
  /\ thread = [t \in Threads |-> Nil]
  /\ run = [r \in Runs |-> NoRun]
  /\ event = [r \in Runs |-> {}]
  /\ message = [r \in Runs |-> {}]
  /\ lock = [t \in Threads |-> Nil]
  /\ call = [c \in Callers |-> NoCall]
  /\ executor = "up"

CreateThread(t, s) ==
  /\ executor = "up"
  /\ thread[t] = Nil
  /\ thread' = [thread EXCEPT ![t] = s]
  /\ UNCHANGED <<run, event, message, lock, call, executor>>

Answer(reply, r) == [reply |-> reply, run_id |-> r]

(* What create_run reads under the Thread lock, and again after an         *)
(* IntegrityError; "none" means that nothing stands in the way.  An active *)
(* Run with the same key (repository.py:618) is one of RunsWithKey, read   *)
(* in the same transaction: it has been answered already.                  *)
CreateRunAnswers(q) ==
  LET t == q.thread_id
      existing == RunsWithKey(t, q.key)
  IN  IF thread[t] = Nil            THEN {Answer("thread_not_found", Nil)}
      ELSE IF thread[t] # q.subject THEN {Answer("forbidden", Nil)}
      ELSE IF ~ThreadConsistent(t)  THEN {Answer("run_ownership", Nil)}
      ELSE IF existing # {}         THEN {Answer("replayed", r) : r \in existing}
      ELSE IF ActiveRuns(t) # {}    THEN {Answer("active_run_conflict", Nil)}
      ELSE                               {Answer("none", Nil)}

(* _resolve_initial_run_replay for the Run r that holds the key. *)
ReplayAnswer(q, r) ==
  IF ~ \E m \in message[r] : UserMessages(r) = {m}
    THEN Answer("run_ownership", Nil)
  ELSE IF \A m \in UserMessages(r) : m.content = q.content
    THEN Answer("replayed", r)
  ELSE Answer("idempotency_mismatch", Nil)

(* Mutant: the replay is resolved before the owner is checked. *)
ReplayBeforeOwner(q) ==
  LET existing == RunsWithKey(q.thread_id, q.key)
  IN  IF thread[q.thread_id] = Nil THEN {Answer("none", Nil)}
      ELSE IF existing = {}        THEN {Answer("thread_already_exists", Nil)}
      ELSE                              {ReplayAnswer(q, r) : r \in existing}

InitialRunAnswers(q) ==
  LET t == q.thread_id
      existing == RunsWithKey(t, q.key)
  IN  IF thread[t] = Nil            THEN {Answer("none", Nil)}
      ELSE IF thread[t] # q.subject THEN {Answer("forbidden", Nil)}
      ELSE IF ~ThreadConsistent(t)  THEN {Answer("run_ownership", Nil)}
      ELSE IF existing = {}         THEN {Answer("thread_already_exists", Nil)}
      ELSE                               {ReplayAnswer(q, r) : r \in existing}

Answers(q) == IF q.op = "create_run" THEN CreateRunAnswers(q)
                                     ELSE InitialRunAnswers(q)

(* The call returns and its transaction, if any, releases the Thread row.  *)
Reply(c, reply, r) ==
  /\ call' = [call EXCEPT ![c] =
                [call[c] EXCEPT !.phase = "idle", !.reply = reply, !.run_id = r]]
  /\ lock' = [t \in Threads |-> IF lock[t] = c THEN Nil ELSE lock[t]]

BeginCall(c, op, s, t, k, m) ==
  /\ executor = "up"
  /\ call[c].phase = "idle"
  /\ call' = [call EXCEPT ![c] =
                [phase |-> "lookup", op |-> op, subject |-> s, thread_id |-> t,
                 key |-> k, content |-> m, reply |-> "none", run_id |-> Nil]]
  /\ UNCHANGED <<tables, lock, executor>>

(* SELECT ... FOR UPDATE, then the checks that need no write.  An absent   *)
(* Thread leaves nothing to lock.                                          *)
Lookup(c) ==
  LET q == call[c] IN
  /\ q.phase = "lookup"
  /\ ThreadRowFree(q.thread_id)
  /\ \E a \in Answers(q) :
       \/ /\ a.reply = "none"
          /\ call' = [call EXCEPT ![c].phase = "insert"]
          /\ lock' = IF RowLocks /\ thread[q.thread_id] # Nil
                       THEN [lock EXCEPT ![q.thread_id] = c] ELSE lock
       \/ /\ a.reply # "none"
          /\ Reply(c, a.reply, a.run_id)
  /\ UNCHANGED <<tables, executor>>

(* Mutants: a schema without one of its constraints. *)
NoActiveIndex(q) ==
  \/ q.op = "create_initial_run" /\ thread[q.thread_id] # Nil
  \/ RunsWithKey(q.thread_id, q.key) # {}

NoKeyConstraint(q) ==
  \/ q.op = "create_initial_run" /\ thread[q.thread_id] # Nil
  \/ ActiveRuns(q.thread_id) # {}

(* The primary key of product_threads, uq_product_run_idempotency and      *)
(* uq_product_run_one_active_thread.                                       *)
ViolatesConstraint(q) ==
  \/ q.op = "create_initial_run" /\ thread[q.thread_id] # Nil
  \/ RunsWithKey(q.thread_id, q.key) # {}
  \/ ActiveRuns(q.thread_id) # {}

(* The committed rows: the Thread of an initial Run, the Run, and its user *)
(* message, all or none.                                                   *)
InsertRun(q, r) ==
  /\ ~Exists(r)
  /\ thread' = IF q.op = "create_initial_run"
                 THEN [thread EXCEPT ![q.thread_id] = q.subject] ELSE thread
  /\ run' = [run EXCEPT ![r] =
               [NoRun EXCEPT !.status = "created", !.thread_id = q.thread_id,
                             !.idempotency_key = q.key, !.actor_subject = q.subject]]
  /\ message' = [message EXCEPT ![r] = {[role |-> "user", content |-> q.content]}]
  /\ UNCHANGED event

Insert(c) ==
  LET q == call[c] IN
  /\ q.phase = "insert"
  /\ ~ViolatesConstraint(q)
  /\ \E r \in Runs :
       /\ InsertRun(q, r)
       /\ \/ Reply(c, "created", r)
          \/ Reply(c, "unavailable", Nil)  \* committed, but past the deadline
  /\ UNCHANGED executor

(* IntegrityError rolls the transaction back. *)
InsertRefused(c) ==
  LET q == call[c] IN
  /\ q.phase = "insert"
  /\ ViolatesConstraint(q)
  /\ call' = [call EXCEPT ![c].phase = "arbiter"]
  /\ lock' = [t \in Threads |-> IF lock[t] = c THEN Nil ELSE lock[t]]
  /\ UNCHANGED <<tables, executor>>

(* The reading after an IntegrityError; one that finds no reason re-raises *)
(* the error.                                                              *)
Arbitrate(c) ==
  LET q == call[c] IN
  /\ q.phase = "arbiter"
  /\ \E a \in Answers(q) :
       Reply(c, IF a.reply = "none" THEN "integrity_error" ELSE a.reply, a.run_id)
  /\ UNCHANGED <<tables, executor>>

(* The deadline of a call rolls its transaction back. *)
Abort(c) ==
  /\ call[c].phase # "idle"
  /\ Reply(c, "unavailable", Nil)
  /\ UNCHANGED <<tables, executor>>

-----------------------------------------------------------------------------
(* Transitions of one Run *)

(* One UPDATE of the Run's row and the event rows numbered from it.        *)
Transition(r, row, rows) ==
  /\ executor = "up"
  /\ RunConsistent(r)
  /\ ThreadRowFree(run[r].thread_id)
  /\ run' = [run EXCEPT ![r] = row]
  /\ event' = [event EXCEPT ![r] = @ \cup rows]
  /\ UNCHANGED <<thread, lock, call, executor>>

(* _event_record *)
Event(seq, type) == [seq |-> seq, type |-> type]

StartRun(r) ==
  LET seq == run[r].last_seq + 1 IN
  /\ run[r].status = "created"
  /\ Transition(r, [run[r] EXCEPT !.status = "running", !.last_seq = seq],
                {Event(seq, "run.started")})
  /\ UNCHANGED message

(* Mutant: every delta writes the clock. *)
LatestVisible(row, type, seq) ==
  IF type = "message.delta" THEN seq ELSE row.first_visible_at

(* The first message.delta is the only one that writes first_visible_at. *)
FirstVisible(row, type, seq) ==
  IF type = "message.delta" /\ row.first_visible_at = 0
    THEN seq ELSE row.first_visible_at

(* Mutant: an append that any active Run accepts. *)
AppendToAnyActive(r, type) ==
  LET seq == run[r].last_seq + 1 IN
  /\ Active(r)
  /\ seq + 2 <= MaxSeq
  /\ Transition(r, [run[r] EXCEPT !.last_seq = seq], {Event(seq, type)})
  /\ UNCHANGED message

AppendActiveEvent(r, type) ==
  LET seq == run[r].last_seq + 1 IN
  /\ run[r].status = "running"
  /\ seq + 2 <= MaxSeq  \* room for the terminal events
  /\ Transition(r, [run[r] EXCEPT
                      !.last_seq = seq,
                      !.first_visible_at = FirstVisible(run[r], type, seq)],
                {Event(seq, type)})
  /\ UNCHANGED message

(* Mutant: no outcome is written. *)
EndedWithoutOutcome(r, status, seq) ==
  [run[r] EXCEPT !.status = status, !.last_seq = seq]

(* The row of Run r once it has ended with a terminal status. *)
Ended(r, status, seq) ==
  [run[r] EXCEPT !.status = status, !.last_seq = seq, !.execution_outcome = status]

(* Mutant: one sequence number reserved for two events. *)
CompleteRunReservingOne(r) ==
  LET seq == run[r].last_seq + 1 IN
  /\ run[r].status = "running"
  /\ Transition(r, Ended(r, "completed", seq),
                {Event(seq - 1, "message.completed"), Event(seq, "run.completed")})
  /\ message' = [message EXCEPT ![r] = @ \cup {[role |-> "assistant", content |-> Nil]}]

CompleteRun(r) ==
  LET seq == run[r].last_seq + 2 IN
  /\ run[r].status = "running"
  /\ Transition(r, Ended(r, "completed", seq),
                {Event(seq - 1, "message.completed"), Event(seq, "run.completed")})
  /\ message' = [message EXCEPT ![r] = @ \cup {[role |-> "assistant", content |-> Nil]}]

FailRun(r) ==
  LET seq == run[r].last_seq + 1 IN
  /\ Active(r)
  /\ Transition(r, Ended(r, "failed", seq), {Event(seq, "run.failed")})
  /\ UNCHANGED message

(* Mutant: a cancellation that does not look at the status. *)
CancelAnyStatus(r, s) ==
  LET seq == run[r].last_seq + 1 IN
  /\ Exists(r)
  /\ seq <= MaxSeq
  /\ thread[run[r].thread_id] = s
  /\ Transition(r, Ended(r, "cancelled", seq), {Event(seq, "run.cancelled")})
  /\ UNCHANGED message

(* Thread owner and Run actor are compared before the UPDATE. *)
CancelRun(r, s) ==
  LET seq == run[r].last_seq + 1 IN
  /\ Active(r)
  /\ thread[run[r].thread_id] = s
  /\ run[r].actor_subject = s
  /\ Transition(r, Ended(r, "cancelled", seq), {Event(seq, "run.cancelled")})
  /\ UNCHANGED message

-----------------------------------------------------------------------------
(* Process failure and recovery *)

(* The process dies: its transactions roll back and no call is answered.   *)
Crash ==
  /\ executor = "up"
  /\ executor' = "down"
  /\ call' = [c \in Callers |->
                IF call[c].phase = "idle" THEN call[c]
                ELSE [call[c] EXCEPT !.phase = "idle", !.reply = "unavailable"]]
  /\ lock' = [t \in Threads |-> Nil]
  /\ UNCHANGED tables

(* fail_orphaned_runs, before the new process accepts traffic; it refuses  *)
(* to start over an active Run that already has an outcome.                *)
FailOrphanedRuns ==
  /\ executor = "down"
  /\ \A r \in Runs : Active(r) => run[r].execution_outcome = Nil /\ RunConsistent(r)
  /\ executor' = "up"
  /\ run' = [r \in Runs |->
               IF Active(r) THEN Ended(r, "failed", run[r].last_seq + 1) ELSE run[r]]
  /\ event' = [r \in Runs |->
                 IF Active(r)
                   THEN event[r] \cup {Event(run[r].last_seq + 1, "run.failed")}
                   ELSE event[r]]
  /\ UNCHANGED <<thread, message, lock, call>>

Admission(c) ==
  \/ \E op \in Operations, s \in Subjects, t \in Threads, k \in Keys, m \in Contents :
       BeginCall(c, op, s, t, k, m)
  \/ Lookup(c)
  \/ Insert(c)
  \/ InsertRefused(c)
  \/ Arbitrate(c)
  \/ Abort(c)

RunStep(r) ==
  \/ StartRun(r)
  \/ \E type \in RuntimeEventTypes : AppendActiveEvent(r, type)
  \/ CompleteRun(r)
  \/ FailRun(r)
  \/ \E s \in Subjects : CancelRun(r, s)

Next ==
  \/ \E t \in Threads, s \in Subjects : CreateThread(t, s)
  \/ \E c \in Callers : Admission(c)
  \/ \E r \in Runs : RunStep(r)
  \/ Crash
  \/ FailOrphanedRuns

Spec == Init /\ [][Next]_vars

-----------------------------------------------------------------------------
(* Properties *)

(* events.md:23 and the partial index uq_product_run_one_active_thread:    *)
(* however admissions interleave, a Thread has at most one active Run.     *)
OneActiveRunPerThread ==
  \A q, r \in Runs :
    Active(q) /\ Active(r) /\ run[q].thread_id = run[r].thread_id => q = r

(* create_run, create_initial_run: all the callers told of a Run for one   *)
(* (Thread, key) are told of the same stored Run, and only one of them is  *)
(* told that it created it, which is what makes it launch the worker.      *)
AdmissionAgreement ==
  \A c, d \in Callers :
    /\ call[c].reply \in Accepted
    /\ call[d].reply \in Accepted
    /\ call[c].thread_id = call[d].thread_id
    /\ call[c].key = call[d].key
    => /\ call[c].run_id = call[d].run_id
       /\ call[c].run_id \in RunsWithKey(call[c].thread_id, call[c].key)
       /\ call[c].reply = "created" /\ call[d].reply = "created" => c = d

(* events.md:150: an answer that names a Run, or that is a 409, is only    *)
(* ever given to the owner of the Thread, also when the Thread appeared    *)
(* between the caller's lookup and its insert.                             *)
OnlyOwnerLearns ==
  \A c \in Callers :
    call[c].reply \in Accepted \cup Conflicts
      => thread[call[c].thread_id] = call[c].subject

(* The stored consistency that every transition re-validates: a Run's      *)
(* actor owns its Thread, and it has exactly one user message; so no call  *)
(* is ever refused with the corruption error run_ownership.                *)
OwnershipConsistent ==
  /\ \A r \in Runs : Exists(r) =>
       /\ RunConsistent(r)
       /\ \E m \in message[r] : UserMessages(r) = {m}
  /\ \A c \in Callers : call[c].reply # "run_ownership"

(* identity-and-ownership.md: ownership is respected in what is stored and *)
(* in what is answered, whoever wins a race for a Thread id.               *)
OwnershipHolds == OwnershipConsistent /\ OnlyOwnerLearns

(* append_active_event, complete_run: the event rows of a Run are numbered *)
(* 1..last_seq with no gap and no duplicate, so the resume cursor of a     *)
(* client skips nothing and uq_product_event_run_seq never fires.          *)
LogMatchesCursor ==
  \A r \in Runs :
    /\ {e.seq : e \in event[r]} = 1..run[r].last_seq
    /\ \A e, f \in event[r] : e.seq = f.seq => e = f

(* complete_run, fail_run, cancel_run, fail_orphaned_runs: the terminal    *)
(* event is there exactly when the Run has ended, matches its status and   *)
(* is its last event; the assistant message is there exactly when it       *)
(* completed; and, as the sweep assumes (repository.py:1152), the outcome  *)
(* exactly when it has ended.                                              *)
TerminalFactsAgree ==
  \A r \in Runs :
    /\ \A e \in event[r] : e.type \in TerminalEvents =>
         /\ Terminal(r)
         /\ e = Event(run[r].last_seq, TerminalEvent[run[r].status])
    /\ Terminal(r) =>
         Event(run[r].last_seq, TerminalEvent[run[r].status]) \in event[r]
    /\ (\E m \in message[r] : m.role = "assistant") <=> run[r].status = "completed"
    /\ run[r].execution_outcome = IF Terminal(r) THEN run[r].status ELSE Nil

(* append_active_event's CASE: first_visible_at is the clock of the first  *)
(* persisted message.delta of the Run, and NULL while there is none.       *)
FirstVisibleIsFirstDelta ==
  \A r \in Runs :
    LET deltas == {e.seq : e \in {f \in event[r] : f.type = "message.delta"}}
        first == run[r].first_visible_at
    IN  IF deltas = {} THEN first = 0
        ELSE first \in deltas /\ \A n \in deltas : first <= n

(* create_run's with_for_update: where row locks exist, the insert of      *)
(* create_run never loses a race, so only an initial Run needs the second  *)
(* reading that follows an IntegrityError, and that reading always finds   *)
(* an answer: no caller sees the raw IntegrityError.                       *)
RowLockPreventsRace ==
  RowLocks => \A c \in Callers :
    /\ call[c].op = "create_run" => call[c].phase # "arbiter"
    /\ call[c].reply # "integrity_error"

(* events.md:234, agent-policy.md:138: a terminal Run is immutable: no     *)
(* late event, result, cancellation or recovery changes any of its rows.   *)
TerminalImmutable ==
  [][\A r \in Runs : Terminal(r) =>
       run'[r] = run[r] /\ event'[r] = event[r] /\ message'[r] = message[r]]_vars

(* The messages get_run_context returns for Run r, by Run. *)
ContextOf(r) ==
  [q \in {p \in RunsOf(run[r].thread_id) : run[p].status = "completed" \/ p = r}
     |-> message[q]]

(* get_run_context is read once by the worker and used for the whole Run:  *)
(* while the Run is active, a second reading would return the same.        *)
ContextStable ==
  [][\A r \in Runs : Active(r) /\ Active(r)' => ContextOf(r)' = ContextOf(r)]_vars

-----------------------------------------------------------------------------
(* Refinement *)

TypeAt(r, i) == (CHOOSE e \in event[r] : e.seq = i).type

Lifecycle == INSTANCE RunLifecycle WITH
  status <- [r \in Runs |-> run[r].status],
  home   <- [r \in Runs |-> run[r].thread_id],
  log    <- [r \in Runs |-> [i \in 1..run[r].last_seq |-> TypeAt(r, i)]]

(* The tables keep the promise of RunLifecycle: every transaction is one   *)
(* step of the life of one Run, or of the startup sweep, and the log only  *)
(* grows at its end.                                                       *)
ImplementsRunLifecycle == Lifecycle!Spec
=============================================================================
