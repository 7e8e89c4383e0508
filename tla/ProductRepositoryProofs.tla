---------------------- MODULE ProductRepositoryProofs ----------------------
(***************************************************************************)
(* Proofs about the transactions of ProductRepository, for every number of *)
(* Threads, Runs, subjects, keys and concurrent callers, with and without  *)
(* row locks: the facts of each Run first, then admission, then two        *)
(* results about all the transactions.                                     *)
(***************************************************************************)
EXTENDS ProductRepository, SequenceTheorems, TLAPS

-----------------------------------------------------------------------------
(* Type correctness *)

(* The empty tables are well typed. *)
LEMMA TypeInit == Init => TypeOK
BY ConstantsAssumption DEF Init, TypeOK, NoRun, RunRecord, NoCall, Call, Statuses,
   ACTIVE_STATUSES, TerminalStatuses, Operations, Phases, Replies, Accepted, Conflicts

(* What an admission reads is an answer that its caller understands.       *)
LEMMA AnswersType ==
  ASSUME TypeOK, NEW q \in Call, NEW a \in Answers(q)
  PROVE  a.reply \in Replies /\ a.run_id \in Runs \cup {Nil}
<1>1. \A r \in Runs : /\ ReplayAnswer(q, r).reply \in Replies
                      /\ ReplayAnswer(q, r).run_id \in Runs \cup {Nil}
  BY DEF ReplayAnswer, Answer, Replies, Accepted, Conflicts
<1>2. RunsWithKey(q.thread_id, q.key) \subseteq Runs
  BY DEF RunsWithKey, RunsOf
<1>3. CASE q.op = "create_run"
  BY <1>2, <1>3 DEF Answers, CreateRunAnswers, Answer, Replies, Accepted, Conflicts
<1>4. CASE q.op # "create_run"
  BY <1>1, <1>2, <1>4 DEF Answers, InitialRunAnswers, Answer, Replies, Accepted, Conflicts
<1> QED BY <1>3, <1>4

(* Answering a call keeps the calls and the locks well typed. *)
LEMMA ReplyType ==
  ASSUME TypeOK, NEW c \in Callers, NEW rep \in Replies, NEW r \in Runs \cup {Nil},
         Reply(c, rep, r)
  PROVE  /\ call' \in [Callers -> Call]
         /\ lock' \in [Threads -> Callers \cup {Nil}]
<1>1. "idle" \in Phases BY DEF Phases
<1>2. call[c] \in Call BY DEF TypeOK
<1>3. [call[c] EXCEPT !.phase = "idle", !.reply = rep, !.run_id = r] \in Call
  BY <1>1, <1>2 DEF Call
<1>4. call' \in [Callers -> Call]
  BY <1>3 DEF Reply, TypeOK
<1>5. lock' \in [Threads -> Callers \cup {Nil}]
  BY DEF Reply, TypeOK
<1> QED BY <1>4, <1>5

(* An admission call moves to another phase. *)
LEMMA PhaseType ==
  ASSUME TypeOK, NEW c \in Callers, NEW p \in Phases
  PROVE  [call EXCEPT ![c].phase = p] \in [Callers -> Call]
<1>1. call[c] \in Call BY DEF TypeOK
<1>2. [call[c] EXCEPT !.phase = p] \in Call BY <1>1 DEF Call
<1> QED BY <1>2 DEF TypeOK

(* The rows of an admission are well typed. *)
LEMMA InsertType ==
  ASSUME TypeOK, NEW q \in Call, NEW r \in Runs, InsertRun(q, r)
  PROVE  /\ thread' \in [Threads -> Subjects \cup {Nil}]
         /\ run' \in [Runs -> RunRecord]
         /\ event' \in [Runs -> SUBSET EventRecord]
         /\ message' \in [Runs -> SUBSET MessageRecord]
<1>1. [NoRun EXCEPT !.status = "created", !.thread_id = q.thread_id,
                    !.idempotency_key = q.key, !.actor_subject = q.subject] \in RunRecord
  BY DEF NoRun, RunRecord, Call, Statuses, ACTIVE_STATUSES
<1>2. run' \in [Runs -> RunRecord]
  BY <1>1 DEF InsertRun, TypeOK
<1>3. thread' \in [Threads -> Subjects \cup {Nil}]
  BY DEF InsertRun, TypeOK, Call
<1>4. {[role |-> "user", content |-> q.content]} \in SUBSET MessageRecord
  BY DEF MessageRecord, Call
<1>5. message' \in [Runs -> SUBSET MessageRecord]
  BY <1>4 DEF InsertRun, TypeOK
<1> QED BY <1>2, <1>3, <1>5 DEF InsertRun, TypeOK

(* A transition that writes well-typed rows keeps the tables well typed. *)
LEMMA TransitionType ==
  ASSUME TypeOK, NEW r \in Runs, NEW row \in RunRecord,
         NEW rows \in SUBSET EventRecord, Transition(r, row, rows)
  PROVE  /\ run' \in [Runs -> RunRecord]
         /\ event' \in [Runs -> SUBSET EventRecord]
         /\ UNCHANGED <<thread, lock, call, executor>>
BY DEF Transition, TypeOK

(* _event_record builds an event row. *)
LEMMA EventType ==
  ASSUME NEW n \in Nat, NEW type \in EventTypes
  PROVE  Event(n, type) \in EventRecord
BY DEF Event, EventRecord

(* The row of an ended Run is a Run row. *)
LEMMA EndedType ==
  ASSUME TypeOK, NEW r \in Runs, NEW s \in TerminalStatuses, NEW n \in Nat
  PROVE  Ended(r, s, n) \in RunRecord
<1>1. run[r] \in RunRecord BY DEF TypeOK
<1> QED BY <1>1 DEF Ended, RunRecord, Statuses

(* The rows written by start_run and append_active_event. *)
LEMMA RunningRowType ==
  ASSUME NEW row \in RunRecord, NEW n \in Nat, NEW v \in Nat
  PROVE  /\ [row EXCEPT !.status = "running", !.last_seq = n] \in RunRecord
         /\ [row EXCEPT !.last_seq = n, !.first_visible_at = v] \in RunRecord
BY DEF RunRecord, Statuses, ACTIVE_STATUSES

(* Every step keeps the type invariant. *)
LEMMA TypeNext == TypeOK /\ [Next]_vars => TypeOK'
<1> SUFFICES ASSUME TypeOK, [Next]_vars PROVE TypeOK'
  OBVIOUS
<1>1. ASSUME NEW t \in Threads, NEW s \in Subjects, CreateThread(t, s) PROVE TypeOK'
  BY <1>1 DEF CreateThread, TypeOK
<1>2. ASSUME NEW c \in Callers, NEW op \in Operations, NEW s \in Subjects,
             NEW t \in Threads, NEW k \in Keys, NEW m \in Contents,
             BeginCall(c, op, s, t, k, m)
      PROVE  TypeOK'
  <2>1. [phase |-> "lookup", op |-> op, subject |-> s, thread_id |-> t,
         key |-> k, content |-> m, reply |-> "none", run_id |-> Nil] \in Call
    BY DEF Call, Phases, Replies
  <2> QED BY <1>2, <2>1 DEF BeginCall, TypeOK, tables
<1>3. ASSUME NEW c \in Callers, Lookup(c) PROVE TypeOK'
  <2>1. call[c] \in Call BY DEF TypeOK
  <2>2. PICK a \in Answers(call[c]) :
          \/ /\ a.reply = "none"
             /\ call' = [call EXCEPT ![c].phase = "insert"]
             /\ lock' = IF RowLocks /\ thread[call[c].thread_id] # Nil
                          THEN [lock EXCEPT ![call[c].thread_id] = c] ELSE lock
          \/ Reply(c, a.reply, a.run_id)
    BY <1>3 DEF Lookup
  <2>3. CASE a.reply = "none" /\ call' = [call EXCEPT ![c].phase = "insert"]
    <3>1. call' \in [Callers -> Call] BY <2>3, PhaseType DEF Phases
    <3>2. lock' \in [Threads -> Callers \cup {Nil}] BY <1>3, <2>3 DEF Lookup, Reply, TypeOK
    <3> QED BY <1>3, <3>1, <3>2 DEF Lookup, TypeOK, tables
  <2>4. CASE Reply(c, a.reply, a.run_id)
    BY <1>3, <2>1, <2>4, AnswersType, ReplyType DEF Lookup, TypeOK, tables
  <2> QED BY <2>2, <2>3, <2>4
<1>4. ASSUME NEW c \in Callers, Insert(c) PROVE TypeOK'
  <2>1. call[c] \in Call BY DEF TypeOK
  <2>2. PICK r \in Runs : InsertRun(call[c], r) /\
                          (Reply(c, "created", r) \/ Reply(c, "unavailable", Nil))
    BY <1>4 DEF Insert
  <2>3. "created" \in Replies /\ "unavailable" \in Replies BY DEF Replies, Accepted
  <2>4. call' \in [Callers -> Call] /\ lock' \in [Threads -> Callers \cup {Nil}]
    BY <2>2, <2>3, ReplyType
  <2> QED BY <1>4, <2>1, <2>2, <2>4, InsertType DEF Insert, TypeOK
<1>5. ASSUME NEW c \in Callers, InsertRefused(c) PROVE TypeOK'
  <2>1. call' \in [Callers -> Call] BY <1>5, PhaseType DEF InsertRefused, Phases
  <2> QED BY <1>5, <2>1 DEF InsertRefused, TypeOK, tables
<1>6. ASSUME NEW c \in Callers, Arbitrate(c) PROVE TypeOK'
  <2>1. call[c] \in Call BY DEF TypeOK
  <2>2. PICK a \in Answers(call[c]) :
          Reply(c, IF a.reply = "none" THEN "integrity_error" ELSE a.reply, a.run_id)
    BY <1>6 DEF Arbitrate
  <2>3. (IF a.reply = "none" THEN "integrity_error" ELSE a.reply) \in Replies
    BY <2>1, AnswersType DEF Replies
  <2>4. call' \in [Callers -> Call] /\ lock' \in [Threads -> Callers \cup {Nil}]
    BY <2>1, <2>2, <2>3, AnswersType, ReplyType
  <2> QED BY <1>6, <2>4 DEF Arbitrate, TypeOK, tables
<1>7. ASSUME NEW c \in Callers, Abort(c) PROVE TypeOK'
  <2>1. "unavailable" \in Replies BY DEF Replies
  <2> QED BY <1>7, <2>1, ReplyType DEF Abort, TypeOK, tables
<1>8. ASSUME NEW r \in Runs, RunStep(r) PROVE TypeOK'
  <2>1. /\ run[r] \in RunRecord
        /\ run[r].last_seq \in Nat
        /\ run[r].last_seq + 1 \in Nat
    BY DEF TypeOK, RunRecord
  <2>2. CASE StartRun(r)
    <3>1. [run[r] EXCEPT !.status = "running", !.last_seq = run[r].last_seq + 1] \in RunRecord
      BY <2>1, RunningRowType
    <3>2. Event(run[r].last_seq + 1, "run.started") \in EventRecord
      BY <2>1, EventType DEF EventTypes
    <3> QED BY <2>2, <3>1, <3>2, TransitionType DEF StartRun, TypeOK
  <2>3. ASSUME NEW type \in RuntimeEventTypes, AppendActiveEvent(r, type) PROVE TypeOK'
    <3>1. FirstVisible(run[r], type, run[r].last_seq + 1) \in Nat
      BY <2>1 DEF FirstVisible, RunRecord
    <3>2. [run[r] EXCEPT !.last_seq = run[r].last_seq + 1,
             !.first_visible_at = FirstVisible(run[r], type, run[r].last_seq + 1)] \in RunRecord
      BY <2>1, <3>1, RunningRowType
    <3>3. type \in EventTypes BY <2>3 DEF EventTypes
    <3>4. Event(run[r].last_seq + 1, type) \in EventRecord
      BY <2>1, <3>3, EventType
    <3> QED BY <2>3, <3>2, <3>4, TransitionType DEF AppendActiveEvent, TypeOK
  <2>4. CASE CompleteRun(r)
    <3>1. Ended(r, "completed", run[r].last_seq + 2) \in RunRecord
      BY <2>1, EndedType DEF TerminalStatuses
    <3>2. /\ Event((run[r].last_seq + 2) - 1, "message.completed") \in EventRecord
          /\ Event(run[r].last_seq + 2, "run.completed") \in EventRecord
      BY <2>1, EventType DEF EventTypes, TerminalEvents
    <3>3. message' \in [Runs -> SUBSET MessageRecord]
      BY <2>4 DEF CompleteRun, TypeOK, MessageRecord
    <3> QED BY <2>4, <3>1, <3>2, <3>3, TransitionType DEF CompleteRun, TypeOK
  <2>5. CASE FailRun(r)
    <3>1. Ended(r, "failed", run[r].last_seq + 1) \in RunRecord
      BY <2>1, EndedType DEF TerminalStatuses
    <3>2. Event(run[r].last_seq + 1, "run.failed") \in EventRecord
      BY <2>1, EventType DEF EventTypes, TerminalEvents
    <3> QED BY <2>5, <3>1, <3>2, TransitionType DEF FailRun, TypeOK
  <2>6. ASSUME NEW s \in Subjects, CancelRun(r, s) PROVE TypeOK'
    <3>1. Ended(r, "cancelled", run[r].last_seq + 1) \in RunRecord
      BY <2>1, EndedType DEF TerminalStatuses
    <3>2. Event(run[r].last_seq + 1, "run.cancelled") \in EventRecord
      BY <2>1, EventType DEF EventTypes, TerminalEvents
    <3> QED BY <2>6, <3>1, <3>2, TransitionType DEF CancelRun, TypeOK
  <2> QED BY <1>8, <2>2, <2>3, <2>4, <2>5, <2>6 DEF RunStep
<1>9. CASE Crash
  <2>1. \A c \in Callers :
          [call[c] EXCEPT !.phase = "idle", !.reply = "unavailable"] \in Call
    <3> SUFFICES ASSUME NEW c \in Callers
                 PROVE  [call[c] EXCEPT !.phase = "idle", !.reply = "unavailable"] \in Call
      OBVIOUS
    <3>1. call[c] \in Call BY DEF TypeOK
    <3> QED BY <3>1 DEF Call, Phases, Replies
  <2> QED BY <1>9, <2>1 DEF Crash, TypeOK, tables
<1>10. CASE FailOrphanedRuns
  <2>1. \A r \in Runs : /\ run[r].last_seq + 1 \in Nat
                        /\ Ended(r, "failed", run[r].last_seq + 1) \in RunRecord
                        /\ Event(run[r].last_seq + 1, "run.failed") \in EventRecord
    <3> TAKE r \in Runs
    <3>1. run[r].last_seq + 1 \in Nat BY DEF TypeOK, RunRecord
    <3> QED BY <3>1, EndedType, EventType DEF TerminalStatuses, EventTypes, TerminalEvents
  <2> QED BY <1>10, <2>1 DEF FailOrphanedRuns, TypeOK
<1>11. CASE UNCHANGED vars
  BY <1>11 DEF vars, TypeOK
<1> QED BY <1>1, <1>2, <1>3, <1>4, <1>5, <1>6, <1>7, <1>8, <1>9, <1>10, <1>11
        DEF Next, Admission

(* Every reachable state of the tables and of the calls is well typed.     *)
THEOREM TypeCorrect == Spec => []TypeOK
BY TypeInit, TypeNext, PTL DEF Spec

-----------------------------------------------------------------------------
(* What one transaction may do to the rows of one Run *)

Same(r) == run'[r] = run[r] /\ event'[r] = event[r] /\ message'[r] = message[r]

Changed(r, row, rows) == run'[r] = row /\ event'[r] = event[r] \cup rows

Started(r) ==
  /\ run[r].status = "created"
  /\ Changed(r, [run[r] EXCEPT !.status = "running", !.last_seq = run[r].last_seq + 1],
             {Event(run[r].last_seq + 1, "run.started")})
  /\ message'[r] = message[r]

Appended(r) ==
  /\ run[r].status = "running"
  /\ \E type \in RuntimeEventTypes :
       Changed(r, [run[r] EXCEPT
                     !.last_seq = run[r].last_seq + 1,
                     !.first_visible_at = FirstVisible(run[r], type, run[r].last_seq + 1)],
               {Event(run[r].last_seq + 1, type)})
  /\ message'[r] = message[r]

Completed(r) ==
  /\ run[r].status = "running"
  /\ Changed(r, Ended(r, "completed", run[r].last_seq + 2),
             {Event((run[r].last_seq + 2) - 1, "message.completed"),
              Event(run[r].last_seq + 2, "run.completed")})
  /\ message'[r] = message[r] \cup {[role |-> "assistant", content |-> Nil]}

Stopped(r, status, type) ==
  /\ Active(r)
  /\ Changed(r, Ended(r, status, run[r].last_seq + 1), {Event(run[r].last_seq + 1, type)})
  /\ message'[r] = message[r]

Moved(r) ==
  \/ Same(r)
  \/ Started(r)
  \/ Appended(r)
  \/ Completed(r)
  \/ Stopped(r, "failed", "run.failed")
  \/ Stopped(r, "cancelled", "run.cancelled")

(* A transition of one Run leaves the rows of the others alone. *)
LEMMA TransitionLeavesOthers ==
  ASSUME TypeOK, NEW r \in Runs, NEW row, NEW rows, Transition(r, row, rows),
         NEW q \in Runs
  PROVE  /\ q = r => Changed(r, row, rows)
         /\ q # r => run'[q] = run[q] /\ event'[q] = event[q]
BY DEF Transition, Changed, TypeOK

(* A committed admission inserts the rows of one new Run and no other      *)
(* transaction does; every other one moves each Run along its life cycle.  *)
LEMMA StepShape ==
  ASSUME TypeOK, [Next]_vars
  PROVE  (\E c \in Callers : Insert(c)) \/ (\A r \in Runs : Moved(r))
<1>1. ASSUME UNCHANGED <<run, event, message>> PROVE \A r \in Runs : Moved(r)
  BY <1>1 DEF Moved, Same
<1>2. ASSUME NEW r \in Runs, RunStep(r) PROVE \A q \in Runs : Moved(q)
  <2> TAKE q \in Runs
  <2>1. CASE StartRun(r)
    BY <2>1, TransitionLeavesOthers DEF StartRun, Moved, Same, Started
  <2>2. ASSUME NEW type \in RuntimeEventTypes, AppendActiveEvent(r, type) PROVE Moved(q)
    <3> DEFINE row == [run[r] EXCEPT
                         !.last_seq = run[r].last_seq + 1,
                         !.first_visible_at = FirstVisible(run[r], type, run[r].last_seq + 1)]
               rows == {Event(run[r].last_seq + 1, type)}
    <3>1. Transition(r, row, rows) /\ run[r].status = "running" /\ UNCHANGED message
      BY <2>2 DEF AppendActiveEvent
    <3> HIDE DEF row, rows
    <3>2. CASE q = r
      <4>1. Changed(r, row, rows) BY <3>1, TransitionLeavesOthers
      <4> QED BY <2>2, <3>1, <3>2, <4>1 DEF Moved, Appended, row, rows
    <3>3. CASE q # r
      BY <3>1, <3>3, TransitionLeavesOthers DEF Moved, Same
    <3> QED BY <3>2, <3>3
  <2>3. CASE CompleteRun(r)
    <3>1. q = r => message'[q] = message[q] \cup {[role |-> "assistant", content |-> Nil]}
      BY <2>3 DEF CompleteRun, TypeOK
    <3>2. q # r => message'[q] = message[q]
      BY <2>3 DEF CompleteRun, TypeOK
    <3> QED BY <2>3, <3>1, <3>2, TransitionLeavesOthers DEF CompleteRun, Moved, Same, Completed
  <2>4. CASE FailRun(r)
    BY <2>4, TransitionLeavesOthers DEF FailRun, Moved, Same, Stopped
  <2>5. ASSUME NEW s \in Subjects, CancelRun(r, s) PROVE Moved(q)
    BY <2>5, TransitionLeavesOthers DEF CancelRun, Moved, Same, Stopped
  <2> QED BY <1>2, <2>1, <2>2, <2>3, <2>4, <2>5 DEF RunStep
<1>3. ASSUME FailOrphanedRuns PROVE \A r \in Runs : Moved(r)
  <2> TAKE r \in Runs
  <2>1. /\ run'[r] = IF Active(r) THEN Ended(r, "failed", run[r].last_seq + 1) ELSE run[r]
        /\ event'[r] = IF Active(r)
                         THEN event[r] \cup {Event(run[r].last_seq + 1, "run.failed")}
                         ELSE event[r]
        /\ message'[r] = message[r]
    BY <1>3 DEF FailOrphanedRuns
  <2>2. CASE Active(r)
    BY <2>1, <2>2 DEF Moved, Stopped, Changed
  <2>3. CASE ~Active(r)
    BY <2>1, <2>3 DEF Moved, Same
  <2> QED BY <2>2, <2>3
<1>4. ASSUME Crash PROVE \A r \in Runs : Moved(r)
  BY <1>1, <1>4 DEF Crash, tables
<1>5. ASSUME NEW t \in Threads, NEW s \in Subjects, CreateThread(t, s)
      PROVE  \A r \in Runs : Moved(r)
  BY <1>1, <1>5 DEF CreateThread
<1>6. ASSUME NEW c \in Callers, Admission(c), ~Insert(c) PROVE \A r \in Runs : Moved(r)
  BY <1>1, <1>6 DEF Admission, BeginCall, Lookup, InsertRefused, Arbitrate, Abort, tables
<1>7. ASSUME UNCHANGED vars PROVE \A r \in Runs : Moved(r)
  BY <1>1, <1>7 DEF vars
<1> QED BY <1>2, <1>3, <1>4, <1>5, <1>6, <1>7 DEF Next

(* The rows an admission inserts for Run r, in a Thread without active Run. *)
Inserted(r, t) ==
  /\ ~Exists(r)
  /\ ActiveRuns(t) = {}
  /\ run'[r].status = "created" /\ run'[r].thread_id = t
  /\ run'[r].last_seq = 0 /\ run'[r].execution_outcome = Nil
  /\ run'[r].first_visible_at = 0
  /\ event'[r] = event[r]
  /\ \E m \in Contents \cup {Nil} : message'[r] = {[role |-> "user", content |-> m]}
  /\ \A q \in Runs \ {r} : Same(q)

(* What a committed admission does to the tables. *)
LEMMA InsertShape ==
  ASSUME TypeOK, NEW c \in Callers, Insert(c)
  PROVE  \E r \in Runs, t \in Threads \cup {Nil} : Inserted(r, t)
<1>1. PICK r \in Runs : InsertRun(call[c], r) BY DEF Insert
<1>2. call[c].thread_id \in Threads \cup {Nil} /\ call[c].content \in Contents \cup {Nil}
  BY DEF TypeOK, Call
<1>3. ActiveRuns(call[c].thread_id) = {} BY DEF Insert, ViolatesConstraint
<1>4. \A q \in Runs \ {r} : Same(q) BY <1>1 DEF InsertRun, Same, TypeOK
<1>5. /\ run'[r] = [NoRun EXCEPT !.status = "created", !.thread_id = call[c].thread_id,
                      !.idempotency_key = call[c].key, !.actor_subject = call[c].subject]
      /\ message'[r] = {[role |-> "user", content |-> call[c].content]}
      /\ event'[r] = event[r]
  BY <1>1 DEF InsertRun, TypeOK
<1>6. /\ run'[r].status = "created" /\ run'[r].thread_id = call[c].thread_id
      /\ run'[r].last_seq = 0 /\ run'[r].execution_outcome = Nil
      /\ run'[r].first_visible_at = 0
  BY <1>5 DEF NoRun
<1>7. ~Exists(r) BY <1>1 DEF InsertRun
<1> QED BY <1>2, <1>3, <1>4, <1>5, <1>6, <1>7 DEF Inserted

(* events.md:234: no transaction changes any row of a Run that has ended.  *)
THEOREM TerminalRunsImmutable == Spec => TerminalImmutable
<1>1. TypeOK /\ [Next]_vars =>
        [\A r \in Runs : Terminal(r) =>
           run'[r] = run[r] /\ event'[r] = event[r] /\ message'[r] = message[r]]_vars
  <2> SUFFICES ASSUME TypeOK, [Next]_vars, NEW r \in Runs, Terminal(r) PROVE Same(r)
    BY DEF Same
  <2>1. ASSUME NEW c \in Callers, Insert(c) PROVE Same(r)
    BY <2>1, InsertShape DEF Inserted, Exists, Terminal, TerminalStatuses
  <2>2. ASSUME Moved(r) PROVE Same(r)
    BY <2>2 DEF Moved, Started, Appended, Completed, Stopped, Active, ACTIVE_STATUSES,
                Terminal, TerminalStatuses
  <2> QED BY <2>1, <2>2, StepShape
<1> QED BY <1>1, TypeCorrect, PTL DEF Spec, TerminalImmutable
-----------------------------------------------------------------------------
(* The event log of one Run *)

Numbered(S, n) ==
  /\ {e.seq : e \in S} = 1..n
  /\ \A e, f \in S : e.seq = f.seq => e = f

(* Numbering one more event with the next number keeps the log numbered. *)
LEMMA NumberedAppend ==
  ASSUME NEW n \in Nat, NEW S \in SUBSET EventRecord, NEW type, Numbered(S, n)
  PROVE  Numbered(S \cup {Event(n + 1, type)}, n + 1)
<1> DEFINE new == Event(n + 1, type)
<1>1. new.seq = n + 1 BY DEF Event
<1> HIDE DEF new
<1>2. \A e \in S : e.seq \in 1..n BY DEF Numbered
<1>3. 1..(n + 1) = (1..n) \cup {n + 1} OBVIOUS
<1>4. {e.seq : e \in S \cup {new}} = {e.seq : e \in S} \cup {new.seq} OBVIOUS
<1>5. {e.seq : e \in S \cup {new}} = 1..(n + 1) BY <1>1, <1>3, <1>4 DEF Numbered
<1>6. ASSUME NEW e \in S \cup {new}, NEW f \in S \cup {new}, e.seq = f.seq PROVE e = f
  <2>1. \A g \in S : g.seq # n + 1 BY <1>2
  <2> QED BY <1>1, <1>6, <2>1 DEF Numbered
<1> QED BY <1>5, <1>6 DEF Numbered, new

(* What the terminal events among S say of a Run's status and last_seq.    *)
Announced(status, n, S) ==
  /\ \A e \in S : e.type \in TerminalEvents =>
       status \in TerminalStatuses /\ e = Event(n, TerminalEvent[status])
  /\ status \in TerminalStatuses => Event(n, TerminalEvent[status]) \in S

(* An active Run that publishes an ordinary event announces no end. *)
LEMMA AnnouncedAppend ==
  ASSUME NEW n, NEW m, NEW S, NEW s \in ACTIVE_STATUSES, NEW t \in ACTIVE_STATUSES,
         NEW type, type \notin TerminalEvents, Announced(s, n, S)
  PROVE  Announced(t, m, S \cup {Event(m, type)})
<1>1. Event(m, type).type = type BY DEF Event
<1>2. s \notin TerminalStatuses /\ t \notin TerminalStatuses
  BY DEF ACTIVE_STATUSES, TerminalStatuses
<1> QED BY <1>1, <1>2 DEF Announced

(* The terminal event of an active Run announces its end. *)
LEMMA AnnouncedEnd ==
  ASSUME NEW n, NEW m, NEW S, NEW s \in ACTIVE_STATUSES, NEW t \in TerminalStatuses,
         Announced(s, n, S)
  PROVE  Announced(t, m, S \cup {Event(m, TerminalEvent[t])})
<1>1. s \notin TerminalStatuses BY DEF ACTIVE_STATUSES, TerminalStatuses
<1> QED BY <1>1 DEF Announced

-----------------------------------------------------------------------------
(* The inductive invariant *)

(* The facts about one Run.  LogMatchesCursor and TerminalFactsAgree are   *)
(* not inductive alone: the rows of an admission are inserted next to      *)
(* whatever event rows carry the same Run id, so there must be none.       *)
RunFacts(r) ==
  /\ Numbered(event[r], run[r].last_seq)
  /\ Announced(run[r].status, run[r].last_seq, event[r])
  /\ (\E m \in message[r] : m.role = "assistant") <=> run[r].status = "completed"
  /\ run[r].execution_outcome = IF Terminal(r) THEN run[r].status ELSE Nil
  /\ ~Exists(r) => run[r].last_seq = 0

(* Which statuses and events are terminal. *)
LEMMA EventKinds ==
  /\ "created" \in ACTIVE_STATUSES /\ "running" \in ACTIVE_STATUSES
  /\ "run.started" \notin TerminalEvents /\ "message.completed" \notin TerminalEvents
  /\ "completed" \in TerminalStatuses /\ TerminalEvent["completed"] = "run.completed"
BY DEF ACTIVE_STATUSES, TerminalStatuses, TerminalEvents, TerminalEvent

(* Every transition of a Run keeps its facts. *)
LEMMA MovedFacts ==
  ASSUME TypeOK, NEW r \in Runs, RunFacts(r), Moved(r)
  PROVE  RunFacts(r)'
<1> DEFINE n == run[r].last_seq
<1>0. run[r] \in RunRecord /\ n \in Nat /\ event[r] \in SUBSET EventRecord
  BY DEF TypeOK, RunRecord
<1>1. CASE Same(r)
  BY <1>1 DEF RunFacts, Same, Terminal, Exists
<1>2. CASE Started(r)
  <2>1. /\ run'[r] = [run[r] EXCEPT !.status = "running", !.last_seq = n + 1]
        /\ event'[r] = event[r] \cup {Event(n + 1, "run.started")}
        /\ message'[r] = message[r]
        /\ run[r].status = "created"
    BY <1>2 DEF Started, Changed
  <2>2. /\ run'[r].status = "running" /\ run'[r].last_seq = n + 1
        /\ run'[r].execution_outcome = run[r].execution_outcome
    BY <1>0, <2>1 DEF RunRecord
  <2>3. Numbered(event'[r], n + 1) BY <1>0, <2>1, NumberedAppend DEF RunFacts
  <2>4. Announced("running", n + 1, event'[r])
    <3>1. Announced("created", n, event[r]) BY <2>1 DEF RunFacts
    <3> QED BY <2>1, <3>1, EventKinds, AnnouncedAppend
  <2> QED BY <2>1, <2>2, <2>3, <2>4 DEF RunFacts, Terminal, TerminalStatuses, Exists
<1>3. CASE Appended(r)
  <2>1. PICK type \in RuntimeEventTypes :
          /\ run'[r] = [run[r] EXCEPT !.last_seq = n + 1,
                         !.first_visible_at = FirstVisible(run[r], type, n + 1)]
          /\ event'[r] = event[r] \cup {Event(n + 1, type)}
    BY <1>3 DEF Appended, Changed
  <2>2. message'[r] = message[r] /\ run[r].status = "running"
    BY <1>3 DEF Appended
  <2>3. /\ run'[r].status = "running" /\ run'[r].last_seq = n + 1
        /\ run'[r].execution_outcome = run[r].execution_outcome
    BY <1>0, <2>1, <2>2 DEF RunRecord
  <2>4. type \notin TerminalEvents BY <2>1, ConstantsAssumption DEF TerminalEvents
  <2>5. Numbered(event'[r], n + 1) BY <1>0, <2>1, NumberedAppend DEF RunFacts
  <2>6. Announced("running", n + 1, event'[r])
    BY <2>1, <2>2, <2>4, AnnouncedAppend DEF RunFacts, ACTIVE_STATUSES
  <2> QED BY <2>2, <2>3, <2>5, <2>6 DEF RunFacts, Terminal, TerminalStatuses, Exists
<1>4. CASE Completed(r)
  <2> DEFINE S == event[r] \cup {Event(n + 1, "message.completed")}
  <2>1. /\ run'[r] = [run[r] EXCEPT !.status = "completed", !.last_seq = n + 2,
                                     !.execution_outcome = "completed"]
        /\ message'[r] = message[r] \cup {[role |-> "assistant", content |-> Nil]}
        /\ run[r].status = "running"
    BY <1>4 DEF Completed, Changed, Ended
  <2>2. (n + 2) - 1 = n + 1 /\ (n + 1) + 1 = n + 2 /\ n + 1 \in Nat BY <1>0
  <2>3. event'[r] = S \cup {Event(n + 2, "run.completed")}
    BY <1>4, <2>2 DEF Completed, Changed
  <2>4. /\ run'[r].status = "completed" /\ run'[r].last_seq = n + 2
        /\ run'[r].execution_outcome = "completed"
    BY <1>0, <2>1 DEF RunRecord
  <2>5. Numbered(S, n + 1) BY <1>0, NumberedAppend DEF RunFacts
  <2>6. S \in SUBSET EventRecord BY <1>0, <2>2, EventType DEF EventTypes
  <2>7. Numbered(event'[r], n + 2)
    <3> HIDE DEF S
    <3> QED BY <2>2, <2>3, <2>5, <2>6, NumberedAppend
  <2>8. Announced("running", n + 1, S)
    <3>1. Announced("running", n, event[r]) BY <2>1 DEF RunFacts
    <3> QED BY <3>1, EventKinds, AnnouncedAppend
  <2>9. Announced("completed", n + 2, event'[r])
    <3> HIDE DEF S
    <3>1. event'[r] = S \cup {Event(n + 2, TerminalEvent["completed"])} BY <2>3, EventKinds
    <3> QED BY <2>8, <3>1, EventKinds, AnnouncedEnd
  <2>10. \E m \in message'[r] : m.role = "assistant"
    <3> DEFINE answer == [role |-> "assistant", content |-> Nil]
    <3>1. answer.role = "assistant" OBVIOUS
    <3>2. answer \in message'[r] BY <2>1
    <3> HIDE DEF answer
    <3> QED BY <3>1, <3>2
  <2> QED BY <2>4, <2>7, <2>9, <2>10 DEF RunFacts, Terminal, TerminalStatuses, Exists
<1>5. ASSUME NEW s \in {"failed", "cancelled"}, Stopped(r, s, TerminalEvent[s])
      PROVE  RunFacts(r)'
  <2>1. /\ run'[r] = [run[r] EXCEPT !.status = s, !.last_seq = n + 1,
                                     !.execution_outcome = s]
        /\ event'[r] = event[r] \cup {Event(n + 1, TerminalEvent[s])}
        /\ message'[r] = message[r]
        /\ run[r].status \in ACTIVE_STATUSES
    BY <1>5 DEF Stopped, Changed, Ended, Active
  <2>2. /\ run'[r].status = s /\ run'[r].last_seq = n + 1
        /\ run'[r].execution_outcome = s
    BY <1>0, <2>1 DEF RunRecord
  <2>3. s \in TerminalStatuses BY <1>5 DEF TerminalStatuses
  <2>4. Numbered(event'[r], n + 1) BY <1>0, <2>1, NumberedAppend DEF RunFacts
  <2>5. Announced(s, n + 1, event'[r]) BY <2>1, <2>3, AnnouncedEnd DEF RunFacts
  <2>6. run[r].status # "completed" /\ s # "completed" /\ s # "absent"
    BY <1>5, <2>1 DEF ACTIVE_STATUSES
  <2> QED BY <2>1, <2>2, <2>3, <2>4, <2>5, <2>6 DEF RunFacts, Terminal, Exists
<1>6. CASE Stopped(r, "failed", "run.failed") BY <1>5, <1>6 DEF TerminalEvent
<1>7. CASE Stopped(r, "cancelled", "run.cancelled") BY <1>5, <1>7 DEF TerminalEvent
<1> QED BY <1>1, <1>2, <1>3, <1>4, <1>6, <1>7 DEF Moved
(* A freshly inserted Run has the facts. *)
LEMMA InsertedFacts ==
  ASSUME NEW r \in Runs, NEW t, RunFacts(r), Inserted(r, t)
  PROVE  RunFacts(r)'
<1>1. run[r].last_seq = 0 /\ run[r].status = "absent"
  BY DEF RunFacts, Inserted, Exists
<1>2. /\ run'[r].status = "created" /\ run'[r].last_seq = 0
      /\ run'[r].execution_outcome = Nil /\ event'[r] = event[r]
  BY DEF Inserted
<1>3. Numbered(event'[r], 0) BY <1>1, <1>2 DEF RunFacts
<1>4. event'[r] = {}
  <2>1. \A e \in event'[r] : e.seq \in 1..0 BY <1>3 DEF Numbered
  <2>2. 1..0 = {} OBVIOUS
  <2> QED BY <2>1, <2>2
<1>5. Announced("created", 0, event'[r])
  BY <1>4 DEF Announced, TerminalStatuses
<1>6. \A m \in message'[r] : m.role # "assistant"
  BY DEF Inserted
<1> QED BY <1>2, <1>3, <1>5, <1>6 DEF RunFacts, Terminal, TerminalStatuses, Exists

(* The invariant of the tables: OneActiveRunPerThread rests on nothing but *)
(* itself, the log and the terminal facts on each other.                   *)
TableInvariant == OneActiveRunPerThread /\ \A r \in Runs : RunFacts(r)

(* The empty tables satisfy the invariant. *)
LEMMA TableInit == Init => TableInvariant
<1> SUFFICES ASSUME Init PROVE TableInvariant
  OBVIOUS
<1>1. \A r \in Runs : /\ run[r].status = "absent" /\ run[r].last_seq = 0
                      /\ run[r].execution_outcome = Nil
                      /\ event[r] = {} /\ message[r] = {}
  BY DEF Init, NoRun
<1>2. Numbered({}, 0) BY DEF Numbered
<1>3. Announced("absent", 0, {}) BY DEF Announced, TerminalStatuses
<1>4. \A r \in Runs : RunFacts(r)
  BY <1>1, <1>2, <1>3 DEF RunFacts, Terminal, TerminalStatuses, Exists
<1>5. OneActiveRunPerThread
  BY <1>1 DEF OneActiveRunPerThread, Active, ACTIVE_STATUSES
<1> QED BY <1>4, <1>5 DEF TableInvariant

(* No transition makes a Run active or moves it to another Thread. *)
LEMMA MovedActive ==
  ASSUME TypeOK, NEW r \in Runs, Moved(r), Active(r)'
  PROVE  Active(r) /\ run'[r].thread_id = run[r].thread_id
<1>1. run[r] \in RunRecord BY DEF TypeOK
<1>2. CASE Same(r) BY <1>2 DEF Same, Active
<1>3. CASE Started(r)
  BY <1>1, <1>3 DEF Started, Changed, Active, ACTIVE_STATUSES, RunRecord
<1>4. CASE Appended(r)
  BY <1>1, <1>4 DEF Appended, Changed, Active, ACTIVE_STATUSES, RunRecord
<1>5. CASE Completed(r)
  <2>1. run'[r].status = "completed" BY <1>1, <1>5 DEF Completed, Changed, Ended, RunRecord
  <2> QED BY <2>1 DEF Active, ACTIVE_STATUSES
<1>6. ASSUME NEW s \in {"failed", "cancelled"}, NEW type, Stopped(r, s, type) PROVE FALSE
  <2>1. run'[r].status = s BY <1>1, <1>6 DEF Stopped, Changed, Ended, RunRecord
  <2> QED BY <1>6, <2>1 DEF Active, ACTIVE_STATUSES
<1> QED BY <1>2, <1>3, <1>4, <1>5, <1>6 DEF Moved

(* Every step keeps the invariant. *)
LEMMA TableNext == TypeOK /\ TableInvariant /\ [Next]_vars => TableInvariant'
<1> SUFFICES ASSUME TypeOK, TableInvariant, [Next]_vars PROVE TableInvariant'
  OBVIOUS
<1>1. ASSUME \A r \in Runs : Moved(r) PROVE TableInvariant'
  <2>1. \A r \in Runs : RunFacts(r)' BY <1>1, MovedFacts DEF TableInvariant
  <2>2. OneActiveRunPerThread'
    <3> SUFFICES ASSUME NEW q \in Runs, NEW r \in Runs, Active(q)', Active(r)',
                        run'[q].thread_id = run'[r].thread_id
                 PROVE  q = r
      BY DEF OneActiveRunPerThread, Active
    <3>1. /\ Active(q) /\ run'[q].thread_id = run[q].thread_id
          /\ Active(r) /\ run'[r].thread_id = run[r].thread_id
      BY <1>1, MovedActive
    <3> QED BY <3>1 DEF TableInvariant, OneActiveRunPerThread
  <2> QED BY <2>1, <2>2 DEF TableInvariant
<1>2. ASSUME NEW c \in Callers, Insert(c) PROVE TableInvariant'
  <2>1. PICK r \in Runs, t \in Threads \cup {Nil} : Inserted(r, t) BY <1>2, InsertShape
  <2>2. \A q \in Runs \ {r} : Same(q) BY <2>1 DEF Inserted
  <2>3. \A q \in Runs \ {r} : RunFacts(q)' BY <2>2, MovedFacts DEF TableInvariant, Moved
  <2>4. RunFacts(r)' BY <2>1, InsertedFacts DEF TableInvariant
  <2>5. \A q \in Runs \ {r} : Active(q)' => run'[q].thread_id # t
    <3> SUFFICES ASSUME NEW q \in Runs \ {r}, Active(q)', run'[q].thread_id = t PROVE FALSE
      OBVIOUS
    <3>1. run'[q] = run[q] BY <2>2 DEF Same
    <3>2. Active(q) /\ run[q].thread_id = t BY <3>1 DEF Active
    <3>3. q \in ActiveRuns(t)
      BY <3>2 DEF ActiveRuns, RunsOf, Active, ACTIVE_STATUSES, Exists
    <3> QED BY <2>1, <3>3 DEF Inserted
  <2>6. run'[r].thread_id = t BY <2>1 DEF Inserted
  <2>7. \A p, q \in Runs \ {r} :
          Active(p)' /\ Active(q)' /\ run'[p].thread_id = run'[q].thread_id => p = q
    BY <2>2 DEF Same, Active, TableInvariant, OneActiveRunPerThread
  <2>8. OneActiveRunPerThread'
    BY <2>5, <2>6, <2>7 DEF OneActiveRunPerThread, Active
  <2> QED BY <2>3, <2>4, <2>8 DEF TableInvariant
<1> QED BY <1>1, <1>2, StepShape

(* The invariant holds in every reachable state. *)
LEMMA TableCorrect == Spec => []TableInvariant
<1>1. Spec => []TypeOK BY TypeCorrect
<1> QED BY <1>1, TableInit, TableNext, PTL DEF Spec

(* events.md:23, uq_product_run_one_active_thread: however many callers    *)
(* admit Runs concurrently, a Thread never has two active Runs.            *)
THEOREM OneActiveRun == Spec => []OneActiveRunPerThread
<1>1. TableInvariant => OneActiveRunPerThread BY DEF TableInvariant
<1> QED BY <1>1, TableCorrect, PTL

(* append_active_event and the terminal transactions: the event rows of    *)
(* every Run are numbered 1..last_seq, without gap and without duplicate.  *)
THEOREM LogHasNoGap == Spec => []LogMatchesCursor
<1>1. TableInvariant => LogMatchesCursor
  BY DEF TableInvariant, RunFacts, Numbered, LogMatchesCursor
<1> QED BY <1>1, TableCorrect, PTL

(* complete_run, fail_run, cancel_run, fail_orphaned_runs: status, last    *)
(* event, assistant message and outcome of a Run always agree.             *)
THEOREM TerminalFacts == Spec => []TerminalFactsAgree
<1>1. TableInvariant => TerminalFactsAgree
  BY DEF TableInvariant, RunFacts, Announced, TerminalFactsAgree, Terminal
<1> QED BY <1>1, TableCorrect, PTL

-----------------------------------------------------------------------------
(* The clock of the first visible text *)

Deltas(S) == {e.seq : e \in {f \in S : f.type = "message.delta"}}

Visible(S, first) ==
  IF Deltas(S) = {} THEN first = 0
  ELSE first \in Deltas(S) /\ \A n \in Deltas(S) : first <= n

(* An event that is not a delta leaves the clock right. *)
LEMMA VisibleOther ==
  ASSUME NEW S, NEW first, NEW n, NEW type, type # "message.delta", Visible(S, first)
  PROVE  Visible(S \cup {Event(n, type)}, first)
<1>1. Event(n, type).type = type BY DEF Event
<1>2. Deltas(S \cup {Event(n, type)}) = Deltas(S) BY <1>1 DEF Deltas
<1> QED BY <1>2 DEF Visible

(* A delta is numbered after all others: it sets the clock when it is the  *)
(* first, and only then.                                                   *)
LEMMA VisibleDelta ==
  ASSUME NEW n \in Nat, NEW S, Numbered(S, n), NEW first \in Nat, Visible(S, first),
         NEW clock, clock = IF first = 0 THEN n + 1 ELSE first
  PROVE  Visible(S \cup {Event(n + 1, "message.delta")}, clock)
<1> DEFINE new == Event(n + 1, "message.delta")
<1>1. new.seq = n + 1 /\ new.type = "message.delta" BY DEF Event
<1> HIDE DEF new
<1>2. Deltas(S \cup {new}) = Deltas(S) \cup {n + 1} BY <1>1 DEF Deltas
<1>3. \A k \in Deltas(S) : k \in 1..n BY DEF Deltas, Numbered
<1>4. CASE Deltas(S) = {}
  <2>1. first = 0 /\ Deltas(S \cup {new}) = {n + 1} BY <1>2, <1>4 DEF Visible
  <2> QED BY <2>1 DEF Visible, new
<1>5. CASE Deltas(S) # {}
  <2>1. first \in Deltas(S) /\ \A k \in Deltas(S) : first <= k BY <1>5 DEF Visible
  <2>2. first # 0 /\ first <= n + 1 BY <1>3, <2>1
  <2>3. \A k \in Deltas(S) \cup {n + 1} : first <= k BY <2>1, <2>2
  <2> QED BY <1>2, <2>1, <2>2, <2>3 DEF Visible, new
<1> QED BY <1>4, <1>5

(* Every transition of a Run keeps its clock right. *)
LEMMA MovedVisible ==
  ASSUME TypeOK, NEW r \in Runs, RunFacts(r), Visible(event[r], run[r].first_visible_at),
         Moved(r)
  PROVE  Visible(event'[r], run'[r].first_visible_at)
<1> DEFINE n == run[r].last_seq
           v == run[r].first_visible_at
<1>0. run[r] \in RunRecord /\ n \in Nat /\ v \in Nat /\ Numbered(event[r], n)
  BY DEF TypeOK, RunRecord, RunFacts
<1>1. CASE Same(r) BY <1>1 DEF Same
<1>2. CASE Started(r)
  <2>1. /\ run'[r].first_visible_at = v
        /\ event'[r] = event[r] \cup {Event(n + 1, "run.started")}
    BY <1>0, <1>2 DEF Started, Changed, RunRecord
  <2> QED BY <2>1, VisibleOther
<1>3. CASE Appended(r)
  <2>1. PICK type \in RuntimeEventTypes :
          /\ run'[r] = [run[r] EXCEPT !.last_seq = n + 1,
                         !.first_visible_at = FirstVisible(run[r], type, n + 1)]
          /\ event'[r] = event[r] \cup {Event(n + 1, type)}
    BY <1>3 DEF Appended, Changed
  <2>2. run'[r].first_visible_at = FirstVisible(run[r], type, n + 1)
    BY <1>0, <2>1 DEF RunRecord
  <2>3. CASE type = "message.delta"
    <3>1. run'[r].first_visible_at = IF v = 0 THEN n + 1 ELSE v
      BY <2>2, <2>3 DEF FirstVisible
    <3>2. event'[r] = event[r] \cup {Event(n + 1, "message.delta")} BY <2>1, <2>3
    <3>3. Visible(event[r], v) OBVIOUS
    <3> HIDE DEF n, v
    <3> QED BY <1>0, <3>1, <3>2, <3>3, VisibleDelta
  <2>4. CASE type # "message.delta"
    <3>1. run'[r].first_visible_at = v BY <2>2, <2>4 DEF FirstVisible
    <3> QED BY <2>1, <2>4, <3>1, VisibleOther
  <2> QED BY <2>3, <2>4
<1>4. CASE Completed(r)
  <2> DEFINE S == event[r] \cup {Event((n + 2) - 1, "message.completed")}
  <2>1. run'[r].first_visible_at = v
    BY <1>0, <1>4 DEF Completed, Changed, Ended, RunRecord
  <2>2. event'[r] = S \cup {Event(n + 2, "run.completed")}
    BY <1>4 DEF Completed, Changed
  <2>3. Visible(S, v) BY VisibleOther
  <2> HIDE DEF S
  <2> QED BY <2>1, <2>2, <2>3, VisibleOther
<1>5. ASSUME NEW s, NEW type, type # "message.delta", Stopped(r, s, type)
      PROVE  Visible(event'[r], run'[r].first_visible_at)
  <2>1. run'[r].first_visible_at = v /\ event'[r] = event[r] \cup {Event(n + 1, type)}
    BY <1>0, <1>5 DEF Stopped, Changed, Ended, RunRecord
  <2> QED BY <1>5, <2>1, VisibleOther
<1> QED BY <1>1, <1>2, <1>3, <1>4, <1>5 DEF Moved

(* append_active_event's CASE: first_visible_at is the clock of the first  *)
(* persisted delta of the Run, and stays NULL until there is one.          *)
THEOREM FirstDeltaSetsTheClock == Spec => []FirstVisibleIsFirstDelta
<1> DEFINE Inv == \A r \in Runs : Visible(event[r], run[r].first_visible_at)
<1>1. Init => Inv
  BY DEF Init, NoRun, Visible, Deltas
<1>2. TypeOK /\ TableInvariant /\ Inv /\ [Next]_vars => Inv'
  <2> SUFFICES ASSUME TypeOK, TableInvariant, Inv, [Next]_vars, NEW r \in Runs
               PROVE  Visible(event'[r], run'[r].first_visible_at)
    OBVIOUS
  <2>1. RunFacts(r) /\ Visible(event[r], run[r].first_visible_at) BY DEF TableInvariant
  <2>2. CASE Moved(r) BY <2>1, <2>2, MovedVisible
  <2>3. ASSUME NEW c \in Callers, Insert(c), ~Moved(r)
        PROVE  Visible(event'[r], run'[r].first_visible_at)
    <3>1. PICK p \in Runs, t \in Threads \cup {Nil} : Inserted(p, t) BY <2>3, InsertShape
    <3>2. p = r BY <2>3, <3>1 DEF Inserted, Moved
    <3>3. Numbered(event'[r], 0) /\ run'[r].first_visible_at = 0
      BY <2>1, <3>1, <3>2 DEF Inserted, RunFacts
    <3>4. Deltas(event'[r]) = {}
      <4>1. \A e \in event'[r] : e.seq \in 1..0 BY <3>3 DEF Numbered
      <4>2. 1..0 = {} OBVIOUS
      <4> QED BY <4>1, <4>2 DEF Deltas
    <3> QED BY <3>3, <3>4 DEF Visible
  <2> QED BY <2>2, <2>3, StepShape
<1>3. Inv => FirstVisibleIsFirstDelta
  BY DEF Visible, Deltas, FirstVisibleIsFirstDelta
<1> QED BY <1>1, <1>2, <1>3, TypeCorrect, TableCorrect, PTL DEF Spec

-----------------------------------------------------------------------------
(***************************************************************************)
(* Admission: who is told of which Run, however the lookups, inserts and   *)
(* second readings of any number of callers interleave with each other,    *)
(* with the workers and with crashes.                                      *)
(***************************************************************************)

(* The inductive invariant of admission *)

(* A stored Run is consistent with its Thread and has one user message.    *)
StoredRun(r) ==
  Exists(r) =>
    /\ run[r].thread_id \in Threads
    /\ RunConsistent(r)
    /\ \E m \in message[r] : UserMessages(r) = {m}

(* uq_product_run_idempotency *)
OneRunPerKey ==
  \A q, r \in Runs :
    /\ Exists(q) /\ Exists(r)
    /\ run[q].thread_id = run[r].thread_id
    /\ run[q].idempotency_key = run[r].idempotency_key
    => q = r

(* What the checks already passed by a call in flight are worth.  The      *)
(* insert of create_run does not look at the owner again: it relies on a   *)
(* Thread that never changes hands.                                        *)
CallInFlight(c) ==
  LET q == call[c] IN
  q.phase # "idle" =>
    /\ q.thread_id \in Threads /\ q.subject \in Subjects /\ q.reply = "none"
    /\ q.phase = "insert" /\ q.op = "create_run" => thread[q.thread_id] = q.subject
    /\ q.phase = "arbiter" => thread[q.thread_id] # Nil

(* What an answer that was given says of the tables. *)
CallAnswered(c) ==
  LET q == call[c] IN
  /\ q.reply # "run_ownership"
  /\ q.reply \in Accepted \cup Conflicts =>
       /\ q.thread_id \in Threads /\ q.subject \in Subjects
       /\ thread[q.thread_id] = q.subject
  /\ q.reply \in Accepted => q.run_id \in RunsWithKey(q.thread_id, q.key)

(* The caller of create_run that passed the lookup holds the Thread row,   *)
(* and nothing that it has checked under the lock can change.              *)
CallLocks(c) ==
  LET q == call[c] IN
  RowLocks =>
    /\ q.op = "create_run" /\ q.phase = "insert" =>
         /\ lock[q.thread_id] = c
         /\ RunsWithKey(q.thread_id, q.key) = {}
         /\ ActiveRuns(q.thread_id) = {}
    /\ q.op = "create_run" => q.phase # "arbiter"
    /\ q.reply # "integrity_error"

(* Only one caller is told that it created the Run of a key. *)
CreatedOnce ==
  \A c, d \in Callers :
    /\ call[c].reply = "created" /\ call[d].reply = "created"
    /\ call[c].thread_id = call[d].thread_id /\ call[c].key = call[d].key
    => c = d

CallFacts(c) == CallInFlight(c) /\ CallAnswered(c) /\ CallLocks(c)

AdmissionInvariant ==
  /\ \A r \in Runs : StoredRun(r)
  /\ OneRunPerKey
  /\ \A c \in Callers : CallFacts(c)
  /\ CreatedOnce

(* The empty tables satisfy the invariant. *)
LEMMA AdmissionInit == Init => AdmissionInvariant
<1> SUFFICES ASSUME Init PROVE AdmissionInvariant
  OBVIOUS
<1>1. \A r \in Runs : ~Exists(r) BY DEF Init, NoRun, Exists
<1>2. \A c \in Callers : /\ call[c].phase = "idle" /\ call[c].reply = "none"
  BY DEF Init, NoCall
<1>3. \A c \in Callers : CallFacts(c)
  BY <1>2 DEF CallFacts, CallInFlight, CallAnswered, CallLocks, Accepted, Conflicts
<1> QED BY <1>1, <1>2, <1>3 DEF AdmissionInvariant, StoredRun, OneRunPerKey, CreatedOnce

-----------------------------------------------------------------------------
(* What every step leaves alone *)

(* The identity of a Run: what its admission wrote and nothing rewrites.   *)
Kept(r) ==
  /\ Exists(r)'
  /\ run'[r].thread_id = run[r].thread_id
  /\ run'[r].idempotency_key = run[r].idempotency_key
  /\ run'[r].actor_subject = run[r].actor_subject
  /\ UserMessages(r)' = UserMessages(r)

(* A transition keeps the identity of its Run, and brings none into being. *)
LEMMA MovedKeeps ==
  ASSUME TypeOK, NEW r \in Runs, Moved(r)
  PROVE  /\ Exists(r) => Kept(r)
         /\ Exists(r)' => Exists(r)
         /\ Active(r)' => Active(r)
<1>1. run[r] \in RunRecord BY DEF TypeOK
<1>2. CASE Same(r)
  BY <1>2 DEF Same, Kept, Exists, UserMessages, Active
<1>3. CASE Started(r)
  <2>1. /\ run'[r].status = "running" /\ run[r].status = "created"
        /\ run'[r].thread_id = run[r].thread_id
        /\ run'[r].idempotency_key = run[r].idempotency_key
        /\ run'[r].actor_subject = run[r].actor_subject
        /\ message'[r] = message[r]
    BY <1>1, <1>3 DEF Started, Changed, RunRecord
  <2> QED BY <2>1 DEF Kept, Exists, UserMessages, Active, ACTIVE_STATUSES
<1>4. CASE Appended(r)
  <2>1. /\ run'[r].status = "running" /\ run[r].status = "running"
        /\ run'[r].thread_id = run[r].thread_id
        /\ run'[r].idempotency_key = run[r].idempotency_key
        /\ run'[r].actor_subject = run[r].actor_subject
        /\ message'[r] = message[r]
    BY <1>1, <1>4 DEF Appended, Changed, RunRecord
  <2> QED BY <2>1 DEF Kept, Exists, UserMessages, Active, ACTIVE_STATUSES
<1>5. CASE Completed(r)
  <2>1. /\ run'[r].status = "completed" /\ run[r].status = "running"
        /\ run'[r].thread_id = run[r].thread_id
        /\ run'[r].idempotency_key = run[r].idempotency_key
        /\ run'[r].actor_subject = run[r].actor_subject
    BY <1>1, <1>5 DEF Completed, Changed, Ended, RunRecord
  <2>2. UserMessages(r)' = UserMessages(r)
    <3> DEFINE answer == [role |-> "assistant", content |-> Nil]
    <3>1. answer.role # "user" OBVIOUS
    <3>2. message'[r] = message[r] \cup {answer} BY <1>5 DEF Completed
    <3> HIDE DEF answer
    <3> QED BY <3>1, <3>2 DEF UserMessages
  <2> QED BY <2>1, <2>2 DEF Kept, Exists, Active, ACTIVE_STATUSES
<1>6. ASSUME NEW s \in {"failed", "cancelled"}, NEW type, Stopped(r, s, type)
      PROVE  /\ Kept(r) /\ Exists(r) /\ ~Active(r)'
  <2>1. /\ run'[r].status = s /\ run[r].status \in ACTIVE_STATUSES
        /\ run'[r].thread_id = run[r].thread_id
        /\ run'[r].idempotency_key = run[r].idempotency_key
        /\ run'[r].actor_subject = run[r].actor_subject
        /\ message'[r] = message[r]
    BY <1>1, <1>6 DEF Stopped, Changed, Ended, RunRecord, Active
  <2>2. s # "absent" /\ s \notin ACTIVE_STATUSES BY <1>6 DEF ACTIVE_STATUSES
  <2> QED BY <2>1, <2>2 DEF Kept, Exists, UserMessages, Active, ACTIVE_STATUSES
<1> QED BY <1>2, <1>3, <1>4, <1>5, <1>6 DEF Moved

(* No Thread changes hands and no Run its identity. *)
Grows ==
  /\ \A t \in Threads : thread[t] # Nil => thread'[t] = thread[t]
  /\ \A r \in Runs : Exists(r) => Kept(r)

(* The rows that the insert of call q adds for Run r. *)
Row(r, q) ==
  /\ ~Exists(r) /\ Exists(r)' /\ Active(r)'
  /\ run'[r].thread_id = q.thread_id
  /\ run'[r].idempotency_key = q.key
  /\ run'[r].actor_subject = q.subject
  /\ \E m \in message'[r] : UserMessages(r)' = {m}
  /\ \A p \in Runs \ {r} : Same(p)

(* An insert that the constraints let through. *)
LEMMA InsertRow ==
  ASSUME TypeOK, NEW q \in Call, NEW r \in Runs, InsertRun(q, r)
  PROVE  Row(r, q)
<1>1. /\ run'[r] = [NoRun EXCEPT !.status = "created", !.thread_id = q.thread_id,
                      !.idempotency_key = q.key, !.actor_subject = q.subject]
      /\ message'[r] = {[role |-> "user", content |-> q.content]}
  BY DEF InsertRun, TypeOK
<1>2. /\ run'[r].status = "created" /\ run'[r].thread_id = q.thread_id
      /\ run'[r].idempotency_key = q.key /\ run'[r].actor_subject = q.subject
  BY <1>1 DEF NoRun
<1>3. \E m \in message'[r] : UserMessages(r)' = {m}
  <2> DEFINE m == [role |-> "user", content |-> q.content]
  <2>1. m.role = "user" OBVIOUS
  <2>2. message'[r] = {m} BY <1>1
  <2> HIDE DEF m
  <2> QED BY <2>1, <2>2 DEF UserMessages
<1>4. \A p \in Runs \ {r} : Same(p) BY DEF InsertRun, Same, TypeOK
<1>5. ~Exists(r) BY DEF InsertRun
<1> QED BY <1>2, <1>3, <1>4, <1>5 DEF Row, Exists, Active, ACTIVE_STATUSES

(* Whoever writes, Threads keep their owner and Runs their identity.       *)
LEMMA StepGrows ==
  ASSUME TypeOK, [Next]_vars
  PROVE  Grows
<1>1. ASSUME NEW c \in Callers, Insert(c) PROVE Grows
  <2>1. PICK r \in Runs : InsertRun(call[c], r) BY <1>1 DEF Insert
  <2>2. Row(r, call[c]) BY <2>1, InsertRow DEF TypeOK
  <2>3. \A p \in Runs : Exists(p) => Kept(p)
    BY <2>2 DEF Row, Same, Kept, Exists, UserMessages
  <2>4. \A t \in Threads : thread[t] # Nil => thread'[t] = thread[t]
    BY <1>1, <2>1 DEF Insert, InsertRun, ViolatesConstraint, TypeOK
  <2> QED BY <2>3, <2>4 DEF Grows
<1>2. ASSUME \A r \in Runs : Moved(r),
             \A t \in Threads : thread[t] # Nil => thread'[t] = thread[t]
      PROVE  Grows
  BY <1>2, MovedKeeps DEF Grows
<1>3. (\E c \in Callers : Insert(c)) \/
        \A t \in Threads : thread[t] # Nil => thread'[t] = thread[t]
  <2>1. ASSUME NEW t \in Threads, NEW s \in Subjects, CreateThread(t, s)
        PROVE  \A u \in Threads : thread[u] # Nil => thread'[u] = thread[u]
    BY <2>1 DEF CreateThread, TypeOK
  <2>2. ASSUME NEW c \in Callers, Admission(c), ~Insert(c) PROVE thread' = thread
    BY <2>2 DEF Admission, BeginCall, Lookup, InsertRefused, Arbitrate, Abort, tables
  <2>3. ASSUME NEW r \in Runs, RunStep(r) PROVE thread' = thread
    BY <2>3 DEF RunStep, StartRun, AppendActiveEvent, CompleteRun, FailRun, CancelRun,
                Transition
  <2>4. Crash \/ FailOrphanedRuns \/ UNCHANGED vars => thread' = thread
    BY DEF Crash, FailOrphanedRuns, tables, vars
  <2> QED BY <2>1, <2>2, <2>3, <2>4 DEF Next
<1> QED BY <1>1, <1>2, <1>3, StepShape

-----------------------------------------------------------------------------
(* The tables keep their part *)

(* A step of Next is an insert, or it moves every Run along its life cycle *)
(* and so makes no Run appear, in any query.                               *)
LEMMA MovedQueries ==
  ASSUME TypeOK, \A r \in Runs : Moved(r), NEW t, NEW k
  PROVE  /\ RunsWithKey(t, k)' \subseteq RunsWithKey(t, k)
         /\ ActiveRuns(t)' \subseteq ActiveRuns(t)
<1>1. \A r \in Runs : Exists(r)' => Exists(r) /\ Kept(r)
  BY MovedKeeps
<1>2. \A r \in Runs : Active(r)' => Active(r)
  BY MovedKeeps
<1>3. \A r \in Runs : Exists(r)' /\ run'[r].thread_id = t
                        => Exists(r) /\ run[r].thread_id = t
  BY <1>1 DEF Kept
<1>4. \A r \in Runs : Exists(r)' /\ run'[r].idempotency_key = k
                        => run[r].idempotency_key = k
  BY <1>1 DEF Kept
<1> QED BY <1>2, <1>3, <1>4 DEF RunsWithKey, RunsOf, ActiveRuns

(* Stored Runs stay consistent, and what an admission stores is.           *)
LEMMA StoredNext ==
  ASSUME TypeOK, AdmissionInvariant, [Next]_vars, NEW r \in Runs
  PROVE  StoredRun(r)'
<1> SUFFICES ASSUME Exists(r)'
             PROVE  /\ run'[r].thread_id \in Threads
                    /\ RunConsistent(r)'
                    /\ \E m \in message'[r] : UserMessages(r)' = {m}
  BY DEF StoredRun
<1>1. Grows BY StepGrows
<1>2. CASE Exists(r)
  <2>1. Kept(r) BY <1>1, <1>2 DEF Grows
  <2>2. /\ run[r].thread_id \in Threads /\ RunConsistent(r)
        /\ \E m \in message[r] : UserMessages(r) = {m}
    BY <1>2 DEF AdmissionInvariant, StoredRun
  <2>3. thread'[run[r].thread_id] = thread[run[r].thread_id]
    BY <1>1, <2>2 DEF Grows, RunConsistent
  <2>4. RunConsistent(r)'
    BY <2>1, <2>2, <2>3 DEF Kept, RunConsistent
  <2>5. PICK m : UserMessages(r)' = {m} BY <2>1, <2>2 DEF Kept
  <2>6. m \in message'[r] BY <2>5 DEF UserMessages
  <2> QED BY <2>1, <2>2, <2>4, <2>5, <2>6 DEF Kept
<1>3. CASE ~Exists(r)
  <2>1. PICK c \in Callers : Insert(c) BY <1>3, StepShape, MovedKeeps
  <2>2. PICK p \in Runs : InsertRun(call[c], p) BY <2>1 DEF Insert
  <2>3. Row(p, call[c]) BY <2>2, InsertRow DEF TypeOK
  <2>4. p = r BY <1>3, <2>3 DEF Row, Same, Exists
  <2>5. /\ call[c].thread_id \in Threads /\ call[c].subject \in Subjects
        /\ call[c].op = "create_run" => thread[call[c].thread_id] = call[c].subject
    BY <2>1 DEF Insert, AdmissionInvariant, CallFacts, CallInFlight
  <2>6. thread'[call[c].thread_id] = call[c].subject
    BY <2>2, <2>5 DEF InsertRun, TypeOK, Call, Operations
  <2>7. call[c].subject # Nil /\ call[c].thread_id # Nil BY <2>5, ConstantsAssumption
  <2>8. RunConsistent(r)' BY <2>3, <2>4, <2>6, <2>7 DEF Row, RunConsistent
  <2> QED BY <2>3, <2>4, <2>5, <2>8 DEF Row
<1> QED BY <1>2, <1>3

(* A second Run with the same Thread and key is refused by the constraint. *)
LEMMA KeysNext ==
  ASSUME TypeOK, AdmissionInvariant, [Next]_vars
  PROVE  OneRunPerKey'
<1> SUFFICES ASSUME NEW q \in Runs, NEW r \in Runs, Exists(q)', Exists(r)',
                    run'[q].thread_id = run'[r].thread_id,
                    run'[q].idempotency_key = run'[r].idempotency_key
             PROVE  q = r
  BY DEF OneRunPerKey
<1>1. \A p \in Runs : Exists(p) => Kept(p) BY StepGrows DEF Grows
<1>2. CASE Exists(q) /\ Exists(r)
  BY <1>1, <1>2 DEF Kept, AdmissionInvariant, OneRunPerKey
<1>3. ASSUME ~(Exists(q) /\ Exists(r)) PROVE q = r
  <2>1. PICK c \in Callers : Insert(c) BY <1>3, StepShape, MovedKeeps
  <2>2. PICK p \in Runs : InsertRun(call[c], p) BY <2>1 DEF Insert
  <2>3. Row(p, call[c]) BY <2>2, InsertRow DEF TypeOK
  <2>4. RunsWithKey(call[c].thread_id, call[c].key) = {}
    BY <2>1 DEF Insert, ViolatesConstraint
  <2>5. \A o \in Runs \ {p} : Exists(o)' =>
          run'[o].thread_id # run'[p].thread_id
            \/ run'[o].idempotency_key # run'[p].idempotency_key
    <3> SUFFICES ASSUME NEW o \in Runs \ {p}, Exists(o)',
                        run'[o].thread_id = call[c].thread_id,
                        run'[o].idempotency_key = call[c].key
                 PROVE  FALSE
      BY <2>3 DEF Row
    <3>1. Same(o) BY <2>3 DEF Row
    <3>2. o \in RunsWithKey(call[c].thread_id, call[c].key)
      BY <3>1 DEF Same, RunsWithKey, RunsOf, Exists
    <3> QED BY <2>4, <3>2
  <2>6. q = p \/ r = p
    <3>1. \A o \in Runs \ {p} : Exists(o)' => Exists(o) BY <2>3 DEF Row, Same, Exists
    <3> QED BY <1>3, <3>1
  <2> QED BY <2>5, <2>6
<1> QED BY <1>2, <1>3

-----------------------------------------------------------------------------
(* The calls keep their part *)

(* What a lookup, or the reading after an IntegrityError, may answer.      *)
LEMMA AnswerFacts ==
  ASSUME TypeOK, \A r \in Runs : StoredRun(r),
         NEW q \in Call, q.thread_id \in Threads, NEW a \in Answers(q)
  PROVE  /\ a.reply \notin {"created", "integrity_error", "run_ownership"}
         /\ a.reply \in Accepted \cup Conflicts => thread[q.thread_id] = q.subject
         /\ a.reply \in Accepted => a.run_id \in RunsWithKey(q.thread_id, q.key)
         /\ a.reply = "none" /\ q.op = "create_run" =>
              /\ thread[q.thread_id] = q.subject
              /\ RunsWithKey(q.thread_id, q.key) = {}
              /\ ActiveRuns(q.thread_id) = {}
         /\ a.reply = "none" /\ q.op # "create_run" => thread[q.thread_id] = Nil
<1> DEFINE existing == RunsWithKey(q.thread_id, q.key)
<1>1. ThreadConsistent(q.thread_id)
  BY DEF ThreadConsistent, RunsOf, StoredRun, RunConsistent
<1>2. \A r \in existing : /\ ReplayAnswer(q, r).reply \in {"replayed", "idempotency_mismatch"}
                          /\ ReplayAnswer(q, r).reply = "replayed" =>
                               ReplayAnswer(q, r).run_id = r
  <2> TAKE r \in existing
  <2>1. r \in Runs /\ Exists(r) BY DEF RunsWithKey, RunsOf
  <2>2. \E m \in message[r] : UserMessages(r) = {m} BY <2>1 DEF StoredRun
  <2> QED BY <2>2 DEF ReplayAnswer, Answer
<1> HIDE DEF existing
<1>3. CASE q.op = "create_run"
  <2>1. Answers(q) = CreateRunAnswers(q) BY <1>3 DEF Answers
  <2>2. CASE thread[q.thread_id] = Nil
    <3>1. a = Answer("thread_not_found", Nil) BY <2>1, <2>2 DEF CreateRunAnswers
    <3>2. a.reply = "thread_not_found" BY <3>1 DEF Answer
    <3> QED BY <3>2 DEF Accepted, Conflicts
  <2>3. CASE thread[q.thread_id] # Nil /\ thread[q.thread_id] # q.subject
    <3>1. a = Answer("forbidden", Nil) BY <2>1, <2>3 DEF CreateRunAnswers
    <3>2. a.reply = "forbidden" BY <3>1 DEF Answer
    <3> QED BY <3>2 DEF Accepted, Conflicts
  <2>4. CASE thread[q.thread_id] # Nil /\ thread[q.thread_id] = q.subject
    <3>1. CASE existing # {}
      <4>1. \E r \in existing : a = Answer("replayed", r)
        BY <1>1, <2>1, <2>4, <3>1 DEF CreateRunAnswers, existing
      <4>2. a.reply = "replayed" /\ a.run_id \in existing BY <4>1 DEF Answer
      <4> QED BY <2>4, <4>2 DEF existing
    <3>2. CASE existing = {} /\ ActiveRuns(q.thread_id) # {}
      <4>1. a = Answer("active_run_conflict", Nil)
        BY <1>1, <2>1, <2>4, <3>2 DEF CreateRunAnswers, existing
      <4>2. a.reply = "active_run_conflict" BY <4>1 DEF Answer
      <4> QED BY <2>4, <4>2 DEF Accepted
    <3>3. CASE existing = {} /\ ActiveRuns(q.thread_id) = {}
      <4>1. a = Answer("none", Nil)
        BY <1>1, <2>1, <2>4, <3>3 DEF CreateRunAnswers, existing
      <4>2. a.reply = "none" BY <4>1 DEF Answer
      <4> QED BY <1>3, <2>4, <3>3, <4>2 DEF Accepted, existing
    <3> QED BY <3>1, <3>2, <3>3
  <2> QED BY <2>2, <2>3, <2>4
<1>4. CASE q.op # "create_run"
  <2>1. Answers(q) = InitialRunAnswers(q) BY <1>4 DEF Answers
  <2>2. CASE thread[q.thread_id] = Nil
    <3>1. a = Answer("none", Nil) BY <2>1, <2>2 DEF InitialRunAnswers
    <3>2. a.reply = "none" BY <3>1 DEF Answer
    <3> QED BY <1>4, <2>2, <3>2 DEF Accepted, Conflicts
  <2>3. CASE thread[q.thread_id] # Nil /\ thread[q.thread_id] # q.subject
    <3>1. a = Answer("forbidden", Nil) BY <2>1, <2>3 DEF InitialRunAnswers
    <3>2. a.reply = "forbidden" BY <3>1 DEF Answer
    <3> QED BY <3>2 DEF Accepted, Conflicts
  <2>4. CASE thread[q.thread_id] # Nil /\ thread[q.thread_id] = q.subject
    <3>1. CASE existing = {}
      <4>1. a = Answer("thread_already_exists", Nil)
        BY <1>1, <2>1, <2>4, <3>1 DEF InitialRunAnswers, existing
      <4>2. a.reply = "thread_already_exists" BY <4>1 DEF Answer
      <4> QED BY <2>4, <4>2 DEF Accepted
    <3>2. CASE existing # {}
      <4>1. PICK r \in existing : a = ReplayAnswer(q, r)
        BY <1>1, <2>1, <2>4, <3>2 DEF InitialRunAnswers, existing
      <4>2. /\ a.reply \in {"replayed", "idempotency_mismatch"}
            /\ a.reply = "replayed" => a.run_id \in existing
        BY <1>2, <4>1
      <4> QED BY <2>4, <4>2 DEF Accepted, existing
    <3> QED BY <3>1, <3>2
  <2> QED BY <2>2, <2>3, <2>4
<1> QED BY <1>3, <1>4

(* What a call has learned or been told stays true while others write.     *)
LEMMA CallKept ==
  ASSUME TypeOK, Grows, NEW c \in Callers, CallInFlight(c), CallAnswered(c),
         call'[c] = call[c]
  PROVE  CallInFlight(c)' /\ CallAnswered(c)'
<1> DEFINE q == call[c]
<1>1. \A t \in Threads : thread[t] # Nil => thread'[t] = thread[t] BY DEF Grows
<1>2. CallInFlight(c)'
  <2> SUFFICES ASSUME q.phase # "idle"
               PROVE  /\ q.thread_id \in Threads /\ q.subject \in Subjects /\ q.reply = "none"
                      /\ q.phase = "insert" /\ q.op = "create_run"
                           => thread'[q.thread_id] = q.subject
                      /\ q.phase = "arbiter" => thread'[q.thread_id] # Nil
    BY DEF CallInFlight
  <2> QED BY <1>1, ConstantsAssumption DEF CallInFlight
<1>3. CallAnswered(c)'
  <2>1. q.reply \in Accepted => q.run_id \in RunsWithKey(q.thread_id, q.key)'
    <3> SUFFICES ASSUME q.reply \in Accepted
                 PROVE  q.run_id \in RunsWithKey(q.thread_id, q.key)'
      OBVIOUS
    <3>1. /\ q.run_id \in Runs /\ Exists(q.run_id)
          /\ run[q.run_id].thread_id = q.thread_id
          /\ run[q.run_id].idempotency_key = q.key
      BY DEF CallAnswered, RunsWithKey, RunsOf
    <3>2. Kept(q.run_id) BY <3>1 DEF Grows
    <3> QED BY <3>1, <3>2 DEF Kept, RunsWithKey, RunsOf, Exists
  <2>2. q.reply \in Accepted \cup Conflicts =>
          /\ q.thread_id \in Threads /\ q.subject \in Subjects
          /\ thread'[q.thread_id] = q.subject
    BY <1>1, ConstantsAssumption DEF CallAnswered
  <2>3. q.reply # "run_ownership" BY DEF CallAnswered
  <2> QED BY <2>1, <2>2, <2>3 DEF CallAnswered
<1> QED BY <1>2, <1>3

(* What was checked under the lock stays true while no Run is inserted.    *)
LEMMA LocksKept ==
  ASSUME TypeOK, \A r \in Runs : Moved(r), NEW c \in Callers, CallLocks(c),
         call'[c] = call[c], \A t \in Threads : lock[t] = c => lock'[t] = c,
         CallInFlight(c)
  PROVE  CallLocks(c)'
<1> DEFINE q == call[c]
<1> SUFFICES ASSUME RowLocks, q.op = "create_run", q.phase = "insert"
             PROVE  /\ lock'[q.thread_id] = c
                    /\ RunsWithKey(q.thread_id, q.key)' = {}
                    /\ ActiveRuns(q.thread_id)' = {}
  BY DEF CallLocks
<1>1. /\ lock[q.thread_id] = c /\ q.thread_id \in Threads
      /\ RunsWithKey(q.thread_id, q.key) = {} /\ ActiveRuns(q.thread_id) = {}
  BY DEF CallLocks, CallInFlight
<1>2. /\ RunsWithKey(q.thread_id, q.key)' \subseteq RunsWithKey(q.thread_id, q.key)
      /\ ActiveRuns(q.thread_id)' \subseteq ActiveRuns(q.thread_id)
  BY MovedQueries
<1> QED BY <1>1, <1>2

(* A call that is answered, with an answer that the tables bear out.       *)
LEMMA ReplyFacts ==
  ASSUME TypeOK, NEW c \in Callers, NEW rep \in Replies, NEW r \in Runs \cup {Nil},
         Reply(c, rep, r), rep # "run_ownership",
         RowLocks => rep # "integrity_error",
         rep \in Accepted \cup Conflicts =>
           /\ call[c].thread_id \in Threads /\ call[c].subject \in Subjects
           /\ thread'[call[c].thread_id] = call[c].subject,
         NEW t, NEW k, t = call[c].thread_id, k = call[c].key,
         rep \in Accepted => r \in RunsWithKey(t, k)'
  PROVE  CallFacts(c)'
<1>1. call[c] \in Call BY DEF TypeOK
<1>2. call'[c] = [call[c] EXCEPT !.phase = "idle", !.reply = rep, !.run_id = r]
  BY DEF Reply, TypeOK
<1>3. /\ call'[c].phase = "idle" /\ call'[c].reply = rep /\ call'[c].run_id = r
      /\ call'[c].thread_id = call[c].thread_id /\ call'[c].key = call[c].key
      /\ call'[c].subject = call[c].subject
  BY <1>1, <1>2 DEF Call
<1> QED BY <1>3 DEF CallFacts, CallInFlight, CallAnswered, CallLocks

(* A step of one call leaves the other calls and their locks alone.        *)
OthersKept(c) ==
  \A d \in Callers \ {c} :
    call'[d] = call[d] /\ \A t \in Threads : lock[t] = d => lock'[t] = d

(* Answering a call is such a step. *)
LEMMA ReplyLeavesOthers ==
  ASSUME TypeOK, NEW c \in Callers, NEW rep, NEW r, Reply(c, rep, r)
  PROVE  OthersKept(c)
BY DEF Reply, OthersKept, TypeOK

(* After a step that inserts nothing, only the moving call is in question. *)
LEMMA OthersFacts ==
  ASSUME TypeOK, AdmissionInvariant, [Next]_vars, \A r \in Runs : Moved(r),
         NEW c \in Callers, OthersKept(c), CallFacts(c)'
  PROVE  \A d \in Callers : CallFacts(d)'
<1>1. Grows BY StepGrows
<1>2. ASSUME NEW d \in Callers \ {c} PROVE CallFacts(d)'
  <2>1. call'[d] = call[d] /\ \A t \in Threads : lock[t] = d => lock'[t] = d
    BY <1>2 DEF OthersKept
  <2>2. CallInFlight(d) /\ CallAnswered(d) /\ CallLocks(d)
    BY DEF AdmissionInvariant, CallFacts
  <2> QED BY <1>1, <2>1, <2>2, CallKept, LocksKept DEF CallFacts
<1> QED BY <1>2

(* Every step keeps what is known of the calls. *)
LEMMA CallsNext ==
  ASSUME TypeOK, AdmissionInvariant, [Next]_vars
  PROVE  \A c \in Callers : CallFacts(c)'
<1>1. Grows BY StepGrows
<1>2. \A r \in Runs : StoredRun(r) BY DEF AdmissionInvariant
<1>3. \A c \in Callers : CallInFlight(c) /\ CallAnswered(c) /\ CallLocks(c)
  BY DEF AdmissionInvariant, CallFacts
<1>4. UNCHANGED tables => \A r \in Runs : Moved(r) BY DEF tables, Moved, Same
<1>5. ASSUME UNCHANGED <<call, lock>>, ~\E c \in Callers : Insert(c)
      PROVE  \A c \in Callers : CallFacts(c)'
  BY <1>1, <1>3, <1>5, StepShape, CallKept, LocksKept DEF CallFacts
<1>6. ASSUME NEW c \in Callers, NEW op \in Operations, NEW s \in Subjects,
             NEW t \in Threads, NEW k \in Keys, NEW m \in Contents,
             BeginCall(c, op, s, t, k, m)
      PROVE  \A d \in Callers : CallFacts(d)'
  <2>1. /\ call'[c].phase = "lookup" /\ call'[c].subject = s /\ call'[c].thread_id = t
        /\ call'[c].reply = "none"
    BY <1>6 DEF BeginCall, TypeOK
  <2>2. CallFacts(c)'
    BY <2>1 DEF CallFacts, CallInFlight, CallAnswered, CallLocks, Accepted, Conflicts
  <2>3. OthersKept(c) BY <1>6 DEF BeginCall, OthersKept, TypeOK
  <2> QED BY <1>4, <1>6, <2>2, <2>3, OthersFacts DEF BeginCall
<1>7. ASSUME NEW c \in Callers, Lookup(c) PROVE \A d \in Callers : CallFacts(d)'
  <2> DEFINE q == call[c]
  <2>1. q \in Call /\ q.phase = "lookup" /\ UNCHANGED tables BY <1>7 DEF Lookup, TypeOK
  <2>2. q.thread_id \in Threads /\ q.subject \in Subjects /\ q.reply = "none"
    BY <1>3, <2>1 DEF CallInFlight
  <2>3. \A r \in Runs : Moved(r) BY <1>4, <2>1
  <2> PICK t, k : t = q.thread_id /\ k = q.key OBVIOUS
  <2>4. \A d \in Callers : lock[q.thread_id] # d
    BY <1>7, ConstantsAssumption DEF Lookup, ThreadRowFree
  <2>5. PICK a \in Answers(q) :
          \/ /\ a.reply = "none"
             /\ call' = [call EXCEPT ![c].phase = "insert"]
             /\ lock' = IF RowLocks /\ thread[q.thread_id] # Nil
                          THEN [lock EXCEPT ![q.thread_id] = c] ELSE lock
          \/ /\ a.reply # "none"
             /\ Reply(c, a.reply, a.run_id)
    BY <1>7 DEF Lookup
  <2>6. CASE a.reply = "none" /\ call' = [call EXCEPT ![c].phase = "insert"]
    <3>1. /\ call'[c].phase = "insert" /\ call'[c].op = q.op /\ call'[c].subject = q.subject
          /\ call'[c].thread_id = q.thread_id /\ call'[c].key = q.key
          /\ call'[c].reply = "none"
      BY <2>1, <2>2, <2>6 DEF TypeOK, Call
    <3>2. q.op = "create_run" => /\ thread[q.thread_id] = q.subject
                                 /\ RunsWithKey(q.thread_id, q.key) = {}
                                 /\ ActiveRuns(q.thread_id) = {}
      BY <1>2, <2>1, <2>2, <2>6, AnswerFacts
    <3>3. q.op = "create_run" => RunsWithKey(t, k)' = {} /\ ActiveRuns(t)' = {}
      BY <2>3, <3>2, MovedQueries
    <3>4. lock' = IF RowLocks /\ thread[q.thread_id] # Nil
                    THEN [lock EXCEPT ![q.thread_id] = c] ELSE lock
      BY <2>5, <2>6
    <3>5. RowLocks /\ q.op = "create_run" => lock'[q.thread_id] = c
      BY <2>2, <3>2, <3>4, ConstantsAssumption DEF TypeOK
    <3>6. CallInFlight(c)' BY <2>1, <2>2, <3>1, <3>2 DEF CallInFlight, tables
    <3>7. CallAnswered(c)' BY <3>1 DEF CallAnswered, Accepted, Conflicts
    <3>8. CallLocks(c)' BY <3>1, <3>3, <3>5 DEF CallLocks
    <3>9. OthersKept(c)
      <4>1. \A d \in Callers \ {c} : call'[d] = call[d] BY <2>6 DEF TypeOK
      <4>2. \A d \in Callers \ {c} : \A u \in Threads : lock[u] = d => lock'[u] = d
        BY <2>4, <3>4 DEF TypeOK
      <4> QED BY <4>1, <4>2 DEF OthersKept
    <3> QED BY <2>3, <3>6, <3>7, <3>8, <3>9, OthersFacts DEF CallFacts
  <2>7. CASE a.reply # "none" /\ Reply(c, a.reply, a.run_id)
    <3>1. a.reply \in Replies /\ a.run_id \in Runs \cup {Nil} BY <2>1, AnswersType
    <3>2. /\ a.reply \notin {"created", "integrity_error", "run_ownership"}
          /\ a.reply \in Accepted \cup Conflicts => thread[q.thread_id] = q.subject
          /\ a.reply \in Accepted => a.run_id \in RunsWithKey(q.thread_id, q.key)
      BY <1>2, <2>1, <2>2, AnswerFacts
    <3>3. RunsWithKey(t, k)' = RunsWithKey(t, k)
      BY <2>1 DEF tables, RunsWithKey, RunsOf, Exists
    <3>4. thread' = thread BY <2>1 DEF tables
    <3>5. CallFacts(c)' BY <2>2, <2>7, <3>1, <3>2, <3>3, <3>4, ReplyFacts
    <3> QED BY <2>3, <2>7, <3>5, ReplyLeavesOthers, OthersFacts
  <2> QED BY <2>5, <2>6, <2>7
<1>8. ASSUME NEW c \in Callers, Insert(c) PROVE \A d \in Callers : CallFacts(d)'
  <2> DEFINE q == call[c]
  <2>1. q \in Call /\ q.phase = "insert" /\ ~ViolatesConstraint(q)
    BY <1>8 DEF Insert, TypeOK
  <2>2. /\ q.thread_id \in Threads /\ q.subject \in Subjects
        /\ q.op = "create_run" => thread[q.thread_id] = q.subject
    BY <1>3, <2>1 DEF CallInFlight
  <2>3. PICK r \in Runs : /\ InsertRun(q, r)
                          /\ Reply(c, "created", r) \/ Reply(c, "unavailable", Nil)
    BY <1>8 DEF Insert
  <2>4. Row(r, q) BY <2>1, <2>3, InsertRow
  <2> PICK t, k : t = q.thread_id /\ k = q.key OBVIOUS
  <2>5. thread'[q.thread_id] = q.subject
    BY <2>1, <2>2, <2>3 DEF InsertRun, TypeOK, Call, Operations
  <2>6. r \in RunsWithKey(t, k)' BY <2>4 DEF Row, RunsWithKey, RunsOf
  <2>7. CallFacts(c)'
    <3>1. "created" \in Replies /\ "unavailable" \in Replies /\ "unavailable" \notin Accepted
            /\ "unavailable" \notin Conflicts
      BY DEF Replies, Accepted, Conflicts
    <3> QED BY <2>2, <2>3, <2>5, <2>6, <3>1, ReplyFacts
  <2>8. OthersKept(c) BY <2>3, ReplyLeavesOthers
  <2>9. ASSUME NEW d \in Callers \ {c} PROVE CallFacts(d)'
    <3>1. call'[d] = call[d] /\ \A u \in Threads : lock[u] = d => lock'[u] = d
      BY <2>8, <2>9 DEF OthersKept
    <3>2. CallInFlight(d)' /\ CallAnswered(d)' BY <1>1, <1>3, <3>1, CallKept
    <3>3. CallLocks(d)'
      <4> DEFINE p == call[d]
      <4> PICK u, j : u = p.thread_id /\ j = p.key OBVIOUS
      <4> SUFFICES ASSUME RowLocks, p.op = "create_run", p.phase = "insert"
                   PROVE  lock'[u] = d /\ RunsWithKey(u, j)' = {} /\ ActiveRuns(u)' = {}
        BY <1>3, <3>1 DEF CallLocks
      <4>1. /\ lock[u] = d /\ u \in Threads
            /\ RunsWithKey(u, j) = {} /\ ActiveRuns(u) = {}
            /\ thread[u] = p.subject /\ p.subject \in Subjects
        BY <1>3 DEF CallLocks, CallInFlight
      <4>2. u # q.thread_id
        <5>1. CASE q.op = "create_run"
          <6>1. lock[q.thread_id] = c BY <1>3, <2>1, <5>1 DEF CallLocks
          <6> QED BY <2>9, <4>1, <6>1
        <5>2. CASE q.op = "create_initial_run"
          BY <2>1, <4>1, <5>2, ConstantsAssumption DEF ViolatesConstraint
        <5> QED BY <2>1, <5>1, <5>2 DEF Call, Operations
      <4>3. \A o \in RunsOf(u)' : Same(o) /\ o \in RunsOf(u)
        BY <2>4, <4>2 DEF Row, RunsOf, Same, Exists
      <4>4. /\ RunsWithKey(u, j)' \subseteq RunsWithKey(u, j)
            /\ ActiveRuns(u)' \subseteq ActiveRuns(u)
        BY <4>3 DEF RunsWithKey, ActiveRuns, Same, Active
      <4> QED BY <3>1, <4>1, <4>4
    <3> QED BY <3>2, <3>3 DEF CallFacts
  <2> QED BY <2>7, <2>9
<1>9. ASSUME NEW c \in Callers, InsertRefused(c) PROVE \A d \in Callers : CallFacts(d)'
  <2> DEFINE q == call[c]
  <2>1. q \in Call /\ q.phase = "insert" /\ ViolatesConstraint(q) /\ UNCHANGED tables
    BY <1>9 DEF InsertRefused, TypeOK
  <2>2. /\ q.thread_id \in Threads /\ q.subject \in Subjects /\ q.reply = "none"
        /\ q.op = "create_run" => thread[q.thread_id] = q.subject
    BY <1>3, <2>1 DEF CallInFlight
  <2>3. /\ call'[c].phase = "arbiter" /\ call'[c].op = q.op /\ call'[c].subject = q.subject
        /\ call'[c].thread_id = q.thread_id /\ call'[c].reply = "none"
    BY <1>9, <2>1, <2>2 DEF InsertRefused, TypeOK, Call
  <2>4. thread[q.thread_id] # Nil
    <3>1. \A r \in RunsOf(q.thread_id) : thread[q.thread_id] # Nil
      BY <1>2 DEF RunsOf, StoredRun, RunConsistent
    <3>2. q.op = "create_initial_run" => thread[q.thread_id] # Nil
      BY <2>1, <3>1 DEF ViolatesConstraint, RunsWithKey, ActiveRuns
    <3> QED BY <2>1, <2>2, <3>2, ConstantsAssumption DEF Call, Operations
  <2>5. RowLocks => q.op # "create_run"
    BY <1>3, <2>1 DEF CallLocks, ViolatesConstraint
  <2>6. CallFacts(c)'
    BY <2>1, <2>2, <2>3, <2>4, <2>5
       DEF CallFacts, CallInFlight, CallAnswered, CallLocks, Accepted, Conflicts, tables
  <2>7. OthersKept(c) BY <1>9 DEF InsertRefused, OthersKept, TypeOK
  <2> QED BY <1>4, <2>1, <2>6, <2>7, OthersFacts
<1>10. ASSUME NEW c \in Callers, Arbitrate(c) PROVE \A d \in Callers : CallFacts(d)'
  <2> DEFINE q == call[c]
  <2>1. q \in Call /\ q.phase = "arbiter" /\ UNCHANGED tables BY <1>10 DEF Arbitrate, TypeOK
  <2>2. /\ q.thread_id \in Threads /\ q.subject \in Subjects /\ thread[q.thread_id] # Nil
    BY <1>3, <2>1 DEF CallInFlight
  <2>3. PICK a \in Answers(q) :
          Reply(c, IF a.reply = "none" THEN "integrity_error" ELSE a.reply, a.run_id)
    BY <1>10 DEF Arbitrate
  <2> PICK t, k : t = q.thread_id /\ k = q.key OBVIOUS
  <2> DEFINE rep == IF a.reply = "none" THEN "integrity_error" ELSE a.reply
  <2>4. a.reply \in Replies /\ a.run_id \in Runs \cup {Nil} BY <2>1, AnswersType
  <2>5. /\ a.reply \notin {"created", "integrity_error", "run_ownership"}
        /\ a.reply \in Accepted \cup Conflicts => thread[q.thread_id] = q.subject
        /\ a.reply \in Accepted => a.run_id \in RunsWithKey(q.thread_id, q.key)
        /\ a.reply = "none" /\ q.op # "create_run" => thread[q.thread_id] = Nil
    BY <1>2, <2>1, <2>2, AnswerFacts
  <2>6. RowLocks => q.op # "create_run" BY <1>3, <2>1 DEF CallLocks
  <2>7. /\ rep \in Replies /\ rep # "run_ownership" /\ (RowLocks => rep # "integrity_error")
        /\ rep \in Accepted \cup Conflicts => thread[q.thread_id] = q.subject
        /\ rep \in Accepted => a.run_id \in RunsWithKey(q.thread_id, q.key)
    BY <2>2, <2>4, <2>5, <2>6 DEF Replies, Accepted, Conflicts
  <2>8. RunsWithKey(t, k)' = RunsWithKey(t, k)
    BY <2>1 DEF tables, RunsWithKey, RunsOf, Exists
  <2>9. thread' = thread BY <2>1 DEF tables
  <2>10. Reply(c, rep, a.run_id) BY <2>3
  <2> HIDE DEF rep
  <2>11. CallFacts(c)' BY <2>2, <2>4, <2>7, <2>8, <2>9, <2>10, ReplyFacts
  <2> QED BY <1>4, <2>1, <2>10, <2>11, ReplyLeavesOthers, OthersFacts
<1>11. ASSUME NEW c \in Callers, Abort(c) PROVE \A d \in Callers : CallFacts(d)'
  <2>1. Reply(c, "unavailable", Nil) /\ UNCHANGED tables BY <1>11 DEF Abort
  <2>2. "unavailable" \in Replies /\ "unavailable" \notin Accepted \cup Conflicts
    BY DEF Replies, Accepted, Conflicts
  <2>3. CallFacts(c)' BY <2>1, <2>2, ReplyFacts
  <2> QED BY <1>4, <2>1, <2>3, ReplyLeavesOthers, OthersFacts
<1>12. ASSUME Crash PROVE \A d \in Callers : CallFacts(d)'
  <2> SUFFICES ASSUME NEW d \in Callers PROVE CallFacts(d)'
    OBVIOUS
  <2>1. CASE call[d].phase = "idle"
    <3>1. call'[d] = call[d] BY <1>12, <2>1 DEF Crash
    <3>2. CallInFlight(d)' /\ CallAnswered(d)' BY <1>1, <1>3, <3>1, CallKept
    <3>3. CallLocks(d)' BY <1>3, <2>1, <3>1 DEF CallLocks
    <3> QED BY <3>2, <3>3 DEF CallFacts
  <2>2. CASE call[d].phase # "idle"
    <3>1. call[d] \in Call BY DEF TypeOK
    <3>2. call'[d] = [call[d] EXCEPT !.phase = "idle", !.reply = "unavailable"]
      BY <1>12, <2>2 DEF Crash
    <3>3. call'[d].phase = "idle" /\ call'[d].reply = "unavailable"
      BY <3>1, <3>2 DEF Call
    <3> QED BY <3>3 DEF CallFacts, CallInFlight, CallAnswered, CallLocks, Accepted, Conflicts
  <2> QED BY <2>1, <2>2
<1>13. ASSUME NEW t \in Threads, NEW s \in Subjects, CreateThread(t, s)
       PROVE  UNCHANGED <<call, lock>>
  BY <1>13 DEF CreateThread
<1>14. ASSUME NEW r \in Runs, RunStep(r) PROVE UNCHANGED <<call, lock>>
  BY <1>14 DEF RunStep, StartRun, AppendActiveEvent, CompleteRun, FailRun, CancelRun,
               Transition
<1>15. FailOrphanedRuns \/ UNCHANGED vars => UNCHANGED <<call, lock>>
  BY DEF FailOrphanedRuns, vars
<1> QED BY <1>5, <1>6, <1>7, <1>8, <1>9, <1>10, <1>11, <1>12, <1>13, <1>14, <1>15
        DEF Next, Admission

(* Only a committed insert answers "created". *)
LEMMA CreatedByInsert ==
  ASSUME TypeOK, AdmissionInvariant, [Next]_vars, NEW c \in Callers,
         call'[c].reply = "created"
  PROVE  call'[c] = call[c] \/ Insert(c)
<1> SUFFICES ASSUME call'[c] # call[c] PROVE Insert(c)
  OBVIOUS
<1>1. \A d \in Callers : call[d] \in Call BY DEF TypeOK
<1>2. ASSUME NEW d \in Callers, NEW rep, NEW r, Reply(d, rep, r) PROVE d = c /\ rep = "created"
  <2>1. \A e \in Callers \ {d} : call'[e] = call[e] BY <1>2 DEF Reply, TypeOK
  <2>2. call'[d] = [call[d] EXCEPT !.phase = "idle", !.reply = rep, !.run_id = r]
    BY <1>2 DEF Reply, TypeOK
  <2>3. call'[d].reply = rep BY <1>1, <2>2 DEF Call
  <2> QED BY <2>1, <2>3
<1>3. ASSUME NEW d \in Callers, NEW p, call' = [call EXCEPT ![d].phase = p],
             call[d].phase # "idle"
      PROVE  FALSE
  <2>1. \A e \in Callers \ {d} : call'[e] = call[e] BY <1>3 DEF TypeOK
  <2>2. d = c BY <2>1
  <2>3. call'[c].reply = call[c].reply BY <1>1, <1>3, <2>2 DEF TypeOK, Call
  <2>4. call[c].reply = "none"
    BY <1>3, <2>2 DEF AdmissionInvariant, CallFacts, CallInFlight
  <2> QED BY <2>3, <2>4
<1>4. ASSUME NEW d \in Callers, call[d].phase # "idle", NEW a \in Answers(call[d])
      PROVE  a.reply # "created"
  <2>1. call[d].thread_id \in Threads
    BY <1>4 DEF AdmissionInvariant, CallFacts, CallInFlight
  <2> QED BY <1>1, <1>4, <2>1, AnswerFacts DEF AdmissionInvariant
<1>5. ASSUME NEW d \in Callers, NEW op \in Operations, NEW s \in Subjects,
             NEW t \in Threads, NEW k \in Keys, NEW m \in Contents,
             BeginCall(d, op, s, t, k, m)
      PROVE  FALSE
  <2>1. call'[d].reply = "none" /\ \A e \in Callers \ {d} : call'[e] = call[e]
    BY <1>5 DEF BeginCall, TypeOK
  <2> QED BY <2>1
<1>6. ASSUME NEW d \in Callers, Lookup(d) PROVE FALSE
  <2>1. call[d].phase # "idle" BY <1>6 DEF Lookup
  <2>2. PICK a \in Answers(call[d]) :
          call' = [call EXCEPT ![d].phase = "insert"] \/ Reply(d, a.reply, a.run_id)
    BY <1>6 DEF Lookup
  <2> QED BY <1>2, <1>3, <1>4, <2>1, <2>2
<1>7. ASSUME NEW d \in Callers, InsertRefused(d) PROVE FALSE
  BY <1>3, <1>7 DEF InsertRefused
<1>8. ASSUME NEW d \in Callers, Arbitrate(d) PROVE FALSE
  <2>1. call[d].phase # "idle" BY <1>8 DEF Arbitrate
  <2>2. PICK a \in Answers(call[d]) :
          Reply(d, IF a.reply = "none" THEN "integrity_error" ELSE a.reply, a.run_id)
    BY <1>8 DEF Arbitrate
  <2> QED BY <1>2, <1>4, <2>1, <2>2
<1>9. ASSUME NEW d \in Callers, Abort(d) PROVE FALSE
  BY <1>2, <1>9 DEF Abort
<1>10. ASSUME Crash PROVE FALSE
  <2>1. call[c].phase # "idle" /\
        call'[c] = [call[c] EXCEPT !.phase = "idle", !.reply = "unavailable"]
    BY <1>10 DEF Crash
  <2>2. call'[c].reply = "unavailable" BY <1>1, <2>1 DEF Call
  <2> QED BY <2>2
<1>11. ASSUME NEW d \in Callers, Insert(d) PROVE Insert(c)
  BY <1>2, <1>11 DEF Insert
<1>12. ASSUME NEW t \in Threads, NEW s \in Subjects, CreateThread(t, s) PROVE FALSE
  BY <1>12 DEF CreateThread
<1>13. ASSUME NEW r \in Runs, RunStep(r) PROVE FALSE
  BY <1>13 DEF RunStep, StartRun, AppendActiveEvent, CompleteRun, FailRun, CancelRun,
               Transition
<1>14. ~FailOrphanedRuns /\ ~UNCHANGED vars BY DEF FailOrphanedRuns, vars
<1> QED BY <1>5, <1>6, <1>7, <1>8, <1>9, <1>10, <1>11, <1>12, <1>13, <1>14
        DEF Next, Admission

(* A second creator of the same key would have violated the constraint.    *)
LEMMA CreatedNext ==
  ASSUME TypeOK, AdmissionInvariant, [Next]_vars
  PROVE  CreatedOnce'
<1>1. ASSUME NEW c \in Callers, NEW d \in Callers, Insert(c), d # c,
             call'[d].reply = "created",
             call'[c].thread_id = call'[d].thread_id, call'[c].key = call'[d].key
      PROVE  FALSE
  <2>1. PICK rep, r : Reply(c, rep, r) BY <1>1 DEF Insert
  <2>2. call'[d] = call[d] BY <1>1, <2>1 DEF Reply, TypeOK
  <2>3. call[c] \in Call BY DEF TypeOK
  <2>4. call'[c] = [call[c] EXCEPT !.phase = "idle", !.reply = rep, !.run_id = r]
    BY <2>1 DEF Reply, TypeOK
  <2>5. call'[c].thread_id = call[c].thread_id /\ call'[c].key = call[c].key
    BY <2>3, <2>4 DEF Call
  <2>6. call[d].run_id \in RunsWithKey(call[d].thread_id, call[d].key)
    BY <1>1, <2>2 DEF AdmissionInvariant, CallFacts, CallAnswered, Accepted
  <2>7. RunsWithKey(call[c].thread_id, call[c].key) = {}
    BY <1>1 DEF Insert, ViolatesConstraint
  <2> QED BY <1>1, <2>2, <2>5, <2>6, <2>7
<1> SUFFICES ASSUME NEW c \in Callers, NEW d \in Callers,
                    call'[c].reply = "created", call'[d].reply = "created",
                    call'[c].thread_id = call'[d].thread_id, call'[c].key = call'[d].key
             PROVE  c = d
  BY DEF CreatedOnce
<1>2. CASE call'[c] = call[c] /\ call'[d] = call[d]
  BY <1>2 DEF AdmissionInvariant, CreatedOnce
<1> QED BY <1>1, <1>2, CreatedByInsert

(* Every step keeps the invariant. *)
LEMMA AdmissionNext == TypeOK /\ AdmissionInvariant /\ [Next]_vars => AdmissionInvariant'
BY StoredNext, KeysNext, CallsNext, CreatedNext DEF AdmissionInvariant

(* The invariant holds in every reachable state. *)
LEMMA AdmissionCorrect == Spec => []AdmissionInvariant
<1>1. Spec => []TypeOK BY TypeCorrect
<1> QED BY <1>1, AdmissionInit, AdmissionNext, PTL DEF Spec

-----------------------------------------------------------------------------
(* create_run, create_initial_run: callers that are told of a Run for one  *)
(* (Thread, key) are told of the same stored Run, and at most one of them  *)
(* that it created it, for any number of callers, with and without row     *)
(* locks, across lost answers and crashes.                                 *)
THEOREM AdmissionsAgree == Spec => []AdmissionAgreement
<1>1. AdmissionInvariant => AdmissionAgreement
  <2> SUFFICES ASSUME AdmissionInvariant, NEW c \in Callers, NEW d \in Callers,
                      call[c].reply \in Accepted, call[d].reply \in Accepted,
                      call[c].thread_id = call[d].thread_id, call[c].key = call[d].key
               PROVE  /\ call[c].run_id = call[d].run_id
                      /\ call[c].run_id \in RunsWithKey(call[c].thread_id, call[c].key)
                      /\ call[c].reply = "created" /\ call[d].reply = "created" => c = d
    BY DEF AdmissionAgreement
  <2>1. /\ call[c].run_id \in RunsWithKey(call[c].thread_id, call[c].key)
        /\ call[d].run_id \in RunsWithKey(call[c].thread_id, call[c].key)
    BY DEF AdmissionInvariant, CallFacts, CallAnswered
  <2>2. call[c].run_id = call[d].run_id
    BY <2>1 DEF AdmissionInvariant, OneRunPerKey, RunsWithKey, RunsOf
  <2> QED BY <2>1, <2>2 DEF AdmissionInvariant, CreatedOnce
<1> QED BY <1>1, AdmissionCorrect, PTL

(* events.md:150, identity-and-ownership.md: a stored Run belongs to the   *)
(* owner of its Thread and has one user message; only that owner is ever   *)
(* told of a Run or of a conflict, whoever wins a race for the Thread id.  *)
THEOREM OwnershipCorrect == Spec => []OwnershipHolds
<1>1. AdmissionInvariant => OwnershipHolds
  BY DEF AdmissionInvariant, StoredRun, CallFacts, CallAnswered, OwnershipHolds,
         OwnershipConsistent, OnlyOwnerLearns
<1> QED BY <1>1, AdmissionCorrect, PTL

(* create_run's with_for_update: where the Thread row is really locked,    *)
(* the insert of create_run is never refused, and no caller sees the raw   *)
(* IntegrityError.                                                         *)
THEOREM RowLockIsEnough == Spec => []RowLockPreventsRace
<1>1. AdmissionInvariant => RowLockPreventsRace
  BY DEF AdmissionInvariant, CallFacts, CallLocks, RowLockPreventsRace
<1> QED BY <1>1, AdmissionCorrect, PTL

-----------------------------------------------------------------------------
(* The context of a Run *)

(* Only an active Run changes. *)
LEMMA MovedWasActive ==
  ASSUME NEW r \in Runs, Moved(r)
  PROVE  /\ Same(r) \/ Active(r)
         /\ TypeOK /\ Active(r)' => message'[r] = message[r]
<1>1. Same(r) \/ Active(r)
  BY DEF Moved, Started, Appended, Completed, Stopped, Active, ACTIVE_STATUSES
<1>2. ASSUME TypeOK, Active(r)' PROVE message'[r] = message[r]
  <2>1. ~Completed(r)
    BY <1>2 DEF Completed, Changed, Ended, Active, ACTIVE_STATUSES, TypeOK, RunRecord
  <2> QED BY <2>1 DEF Moved, Same, Started, Appended, Stopped
<1> QED BY <1>1, <1>2

(* get_run_context is read once and used for the whole Run: no admission   *)
(* and no transition of another Run changes what it would return.          *)
THEOREM ContextIsStable == Spec => ContextStable
<1>1. TypeOK /\ TableInvariant /\ [Next]_vars =>
        [\A r \in Runs : Active(r) /\ Active(r)' => ContextOf(r)' = ContextOf(r)]_vars
  <2> SUFFICES ASSUME TypeOK, TableInvariant, [Next]_vars, NEW r \in Runs,
                      Active(r), Active(r)'
               PROVE  ContextOf(r)' = ContextOf(r)
    OBVIOUS
  <2> PICK t : t = run[r].thread_id OBVIOUS
  <2> DEFINE D == {p \in RunsOf(t) : run[p].status = "completed" \/ p = r}
  <2>1. Exists(r) BY DEF Exists, Active, ACTIVE_STATUSES
  <2>2. Kept(r) BY <2>1, StepGrows DEF Grows
  <2>3. run'[r].thread_id = t BY <2>2 DEF Kept
  <2>4. r \in D /\ r \in D' BY <2>1, <2>2, <2>3 DEF Kept, RunsOf, Exists
  <2> DEFINE Agrees == /\ message'[r] = message[r]
                       /\ \A p \in Runs \ {r} : /\ p \in D' <=> p \in D
                                                /\ p \in D => message'[p] = message[p]
  <2>5. Agrees
    <3>1. ASSUME NEW c \in Callers, Insert(c) PROVE Agrees
      <4>1. PICK p \in Runs, u \in Threads \cup {Nil} : Inserted(p, u)
        BY <3>1, InsertShape
      <4>2. p # r BY <2>1, <4>1 DEF Inserted
      <4>3. p \notin D /\ p \notin D' BY <4>1, <4>2 DEF Inserted, RunsOf
      <4>4. \A q \in Runs \ {p} : Same(q) BY <4>1 DEF Inserted
      <4> QED BY <4>2, <4>3, <4>4 DEF Same, RunsOf, Exists
    <3>2. ASSUME \A p \in Runs : Moved(p) PROVE Agrees
      <4>1. message'[r] = message[r] BY <3>2, MovedWasActive
      <4>2. ASSUME NEW p \in Runs \ {r}
            PROVE  (p \in D' <=> p \in D) /\ (p \in D => message'[p] = message[p])
        <5>1. CASE Same(p) BY <5>1 DEF Same, RunsOf, Exists
        <5>2. CASE ~Same(p)
          <6>1. Active(p) BY <3>2, <4>2, <5>2, MovedWasActive
          <6>2. run[p].thread_id # t
            BY <4>2, <6>1 DEF TableInvariant, OneActiveRunPerThread
          <6>3. Kept(p) BY <6>1, StepGrows DEF Grows, Exists, Active, ACTIVE_STATUSES
          <6> QED BY <6>2, <6>3 DEF Kept, RunsOf
        <5> QED BY <5>1, <5>2
      <4> QED BY <4>1, <4>2
    <3> QED BY <3>1, <3>2, StepShape
  <2>6. D' = D BY <2>4, <2>5 DEF RunsOf
  <2>7. \A p \in D : message'[p] = message[p] BY <2>5 DEF RunsOf
  <2>8. ContextOf(r) = [q \in D |-> message[q]] BY DEF ContextOf
  <2>9. ContextOf(r)' = [q \in D' |-> message'[q]] BY <2>3 DEF ContextOf
  <2> HIDE DEF D
  <2> QED BY <2>6, <2>7, <2>8, <2>9
<1> QED BY <1>1, TypeCorrect, TableCorrect, PTL DEF Spec, ContextStable

-----------------------------------------------------------------------------
(* The tables implement the life cycle *)

(* The event types of a numbered set of rows, in the order of their seq.   *)
TypeIn(S, i) == (CHOOSE e \in S : e.seq = i).type

LogOf(S, n) == [i \in 1..n |-> TypeIn(S, i)]

(* The row with number i is the only one. *)
LEMMA TypeInNumbered ==
  ASSUME NEW n, NEW S, Numbered(S, n), NEW e \in S
  PROVE  TypeIn(S, e.seq) = e.type
<1>1. (CHOOSE f \in S : f.seq = e.seq) = e BY DEF Numbered
<1> QED BY <1>1 DEF TypeIn

(* A log is a sequence. *)
LEMMA LogIsSequence ==
  ASSUME NEW n \in Nat, NEW S \in SUBSET EventRecord, Numbered(S, n)
  PROVE  LogOf(S, n) \in Seq(EventTypes) /\ Len(LogOf(S, n)) = n
<1>1. \A i \in 1..n : TypeIn(S, i) \in EventTypes
  <2> SUFFICES ASSUME NEW i \in 1..n PROVE TypeIn(S, i) \in EventTypes
    OBVIOUS
  <2>1. PICK e \in S : e.seq = i BY DEF Numbered
  <2>2. TypeIn(S, i) = e.type BY <2>1, TypeInNumbered
  <2>3. e.type \in EventTypes BY DEF EventRecord
  <2> QED BY <2>2, <2>3
<1> QED BY <1>1 DEF LogOf

(* A row with the next number is appended to the log. *)
LEMMA LogAppend ==
  ASSUME NEW n \in Nat, NEW S \in SUBSET EventRecord, Numbered(S, n),
         NEW type \in EventTypes
  PROVE  LogOf(S \cup {Event(n + 1, type)}, n + 1) = Append(LogOf(S, n), type)
<1> DEFINE T == S \cup {Event(n + 1, type)}
           new == Event(n + 1, type)
<1>1. Numbered(T, n + 1) BY NumberedAppend
<1>2. new \in T /\ new.seq = n + 1 /\ new.type = type BY DEF Event
<1> HIDE DEF new
<1>3. TypeIn(T, n + 1) = type BY <1>1, <1>2, TypeInNumbered
<1>4. ASSUME NEW i \in 1..n PROVE TypeIn(T, i) = TypeIn(S, i)
  <2>1. PICK e \in S : e.seq = i BY DEF Numbered
  <2>2. TypeIn(S, i) = e.type BY <2>1, TypeInNumbered
  <2>3. TypeIn(T, i) = e.type BY <1>1, <2>1, TypeInNumbered
  <2> QED BY <2>2, <2>3
<1> HIDE DEF T
<1>5. LogOf(S, n) \in Seq(EventTypes) /\ Len(LogOf(S, n)) = n BY LogIsSequence
<1>6. \A i \in 1..n : LogOf(S, n)[i] = TypeIn(S, i) BY DEF LogOf
<1>7. T \in SUBSET EventRecord
  <2>1. n + 1 \in Nat OBVIOUS
  <2> QED BY <2>1, EventType DEF T
<1>8. LogOf(T, n + 1) \in Seq(EventTypes) /\ Len(LogOf(T, n + 1)) = n + 1
  <2>1. n + 1 \in Nat OBVIOUS
  <2> QED BY <1>1, <1>7, <2>1, LogIsSequence
<1>9. \A i \in 1..(n + 1) : LogOf(T, n + 1)[i] = TypeIn(T, i) BY DEF LogOf
<1> DEFINE L == Append(LogOf(S, n), type)
<1>10. /\ L \in Seq(EventTypes) /\ Len(L) = n + 1
       /\ L[n + 1] = type /\ \A i \in 1..n : L[i] = LogOf(S, n)[i]
  BY <1>5
<1>11. \A i \in 1..(n + 1) : LogOf(T, n + 1)[i] = L[i]
  <2>1. 1..(n + 1) = (1..n) \cup {n + 1} OBVIOUS
  <2> HIDE DEF L
  <2> QED BY <1>3, <1>4, <1>6, <1>9, <1>10, <2>1
<1>12. LogOf(T, n + 1) = L
  <2> HIDE DEF L
  <2> QED BY <1>8, <1>10, <1>11, SeqEqual
<1> QED BY <1>12 DEF T

(* Appending one element, or two, is a concatenation. *)
LEMMA AppendsAreConcats ==
  ASSUME NEW S, NEW s \in Seq(S), NEW a \in S, NEW b \in S
  PROVE  /\ Append(s, a) = s \o <<a>>
         /\ Append(Append(s, a), b) = s \o <<a, b>>
<1>1. Append(s, a) \in Seq(S) /\ s \o <<a>> \in Seq(S) OBVIOUS
<1>2. Append(Append(s, a), b) \in Seq(S) /\ s \o <<a, b>> \in Seq(S) OBVIOUS
<1>3. Append(s, a) = s \o <<a>> BY <1>1, SeqEqual
<1>4. Append(Append(s, a), b) = s \o <<a, b>> BY <1>2, SeqEqual
<1> QED BY <1>3, <1>4

(* The refinement mapping, by name. *)
StatusMap == [r \in Runs |-> run[r].status]
HomeMap   == [r \in Runs |-> run[r].thread_id]
LogMap    == [r \in Runs |-> LogOf(event[r], run[r].last_seq)]

(* The mapping of the INSTANCE is the mapping named above. *)
LEMMA MapIsNamed ==
  /\ Lifecycle!vars = <<StatusMap, HomeMap, LogMap>>
  /\ Lifecycle!vars' = <<StatusMap', HomeMap', LogMap'>>
BY DEF Lifecycle!vars, StatusMap, HomeMap, LogMap, LogOf, TypeAt, TypeIn

(* One Run moves and the others do not: a Move of the life cycle. *)
LEMMA MapMove ==
  ASSUME TypeOK, NEW r \in Runs, \A q \in Runs \ {r} : Same(q), NEW s, NEW events,
         run'[r].status = s, run'[r].thread_id = run[r].thread_id,
         LogOf(event'[r], run'[r].last_seq) = LogOf(event[r], run[r].last_seq) \o events
  PROVE  Lifecycle!Move(r, s, events)
<1>1. StatusMap' = [StatusMap EXCEPT ![r] = s] BY DEF StatusMap, Same
<1>2. HomeMap' = HomeMap BY DEF HomeMap, Same
<1>3. LogMap' = [LogMap EXCEPT ![r] = @ \o events]
  <2>1. \A q \in Runs \ {r} : LogMap'[q] = LogMap[q] BY DEF LogMap, Same
  <2>2. LogMap'[r] = LogMap[r] \o events BY DEF LogMap
  <2>3. /\ LogMap = [q \in Runs |-> LogMap[q]]
        /\ LogMap' = [q \in Runs |-> LogMap'[q]]
    BY DEF LogMap
  <2> QED BY <2>1, <2>2, <2>3
<1> QED BY <1>1, <1>2, <1>3
        DEF Lifecycle!Move, StatusMap, HomeMap, LogMap, LogOf, TypeAt, TypeIn

(* The log of a Run that publishes one event. *)
LEMMA MapAppend ==
  ASSUME TypeOK, TableInvariant, NEW r \in Runs, NEW type \in EventTypes,
         run'[r].last_seq = run[r].last_seq + 1,
         event'[r] = event[r] \cup {Event(run[r].last_seq + 1, type)}
  PROVE  /\ LogOf(event'[r], run'[r].last_seq) =
              Append(LogOf(event[r], run[r].last_seq), type)
         /\ LogOf(event'[r], run'[r].last_seq) =
              LogOf(event[r], run[r].last_seq) \o <<type>>
<1> DEFINE n == run[r].last_seq
<1>1. n \in Nat /\ event[r] \in SUBSET EventRecord /\ Numbered(event[r], n)
  BY DEF TypeOK, RunRecord, TableInvariant, RunFacts
<1>2. LogOf(event[r], n) \in Seq(EventTypes) BY <1>1, LogIsSequence
<1>3. LogOf(event'[r], n + 1) = Append(LogOf(event[r], n), type) BY <1>1, LogAppend
<1> QED BY <1>2, <1>3, AppendsAreConcats

(* complete_run publishes two. *)
LEMMA MapComplete ==
  ASSUME TypeOK, TableInvariant, NEW r \in Runs, Completed(r)
  PROVE  LogOf(event'[r], run'[r].last_seq) =
           LogOf(event[r], run[r].last_seq) \o <<"message.completed", "run.completed">>
<1> DEFINE n == run[r].last_seq
           S == event[r] \cup {Event(n + 1, "message.completed")}
<1>1. n \in Nat /\ event[r] \in SUBSET EventRecord /\ Numbered(event[r], n)
      /\ run[r] \in RunRecord
  BY DEF TypeOK, RunRecord, TableInvariant, RunFacts
<1>2. run'[r].last_seq = n + 2
  BY <1>1 DEF Completed, Changed, Ended, RunRecord
<1>3. (n + 2) - 1 = n + 1 /\ (n + 1) + 1 = n + 2 /\ n + 1 \in Nat BY <1>1
<1>4. event'[r] = S \cup {Event(n + 2, "run.completed")}
  BY <1>3 DEF Completed, Changed
<1>5. "message.completed" \in EventTypes /\ "run.completed" \in EventTypes
  BY DEF EventTypes, TerminalEvents
<1>6. S \in SUBSET EventRecord /\ Numbered(S, n + 1)
  BY <1>1, <1>3, <1>5, EventType, NumberedAppend
<1>7. LogOf(event[r], n) \in Seq(EventTypes) BY <1>1, LogIsSequence
<1>8. LogOf(S, n + 1) = Append(LogOf(event[r], n), "message.completed")
  BY <1>1, <1>5, LogAppend
<1>9. LogOf(event'[r], n + 2) = Append(LogOf(S, n + 1), "run.completed")
  <2> PICK m \in Nat : m = n + 1 BY <1>3
  <2>1. event'[r] = S \cup {Event(m + 1, "run.completed")} /\ m + 1 = n + 2 BY <1>3, <1>4
  <2>2. S \in SUBSET EventRecord /\ Numbered(S, m) BY <1>6
  <2> HIDE DEF S
  <2>3. LogOf(S \cup {Event(m + 1, "run.completed")}, m + 1) = Append(LogOf(S, m), "run.completed")
    BY <1>5, <2>2, LogAppend
  <2> QED BY <2>1, <2>3
<1>10. LogOf(event'[r], n + 2) =
         LogOf(event[r], n) \o <<"message.completed", "run.completed">>
  <2> DEFINE L == LogOf(event[r], n)
  <2> HIDE DEF S, n, L
  <2>1. L \in Seq(EventTypes) BY <1>7 DEF L
  <2>2. Append(Append(L, "message.completed"), "run.completed") =
          L \o <<"message.completed", "run.completed">>
    BY <1>5, <2>1, AppendsAreConcats
  <2>3. LogOf(event'[r], n + 2) = Append(Append(L, "message.completed"), "run.completed")
    BY <1>8, <1>9 DEF L
  <2> QED BY <2>2, <2>3 DEF L
<1> QED BY <1>2, <1>10

(* A transaction on one Run is one step of its life. *)
LEMMA MapRunStep ==
  ASSUME TypeOK, TableInvariant, NEW r \in Runs, Moved(r), \A q \in Runs \ {r} : Same(q)
  PROVE  Lifecycle!Next \/ UNCHANGED <<StatusMap, HomeMap, LogMap>>
<1>1. run[r] \in RunRecord BY DEF TypeOK
<1>2. Lifecycle!Active(r) <=> Active(r)
  BY DEF Lifecycle!Active, Lifecycle!ActiveStatuses, Active, ACTIVE_STATUSES
<1>3. CASE Same(r)
  <2>1. \A q \in Runs : Same(q) BY <1>3
  <2> QED BY <2>1 DEF Same, StatusMap, HomeMap, LogMap
<1>4. CASE Started(r)
  <2>1. /\ run'[r].status = "running" /\ run'[r].thread_id = run[r].thread_id
        /\ run'[r].last_seq = run[r].last_seq + 1 /\ run[r].status = "created"
        /\ event'[r] = event[r] \cup {Event(run[r].last_seq + 1, "run.started")}
    BY <1>1, <1>4 DEF Started, Changed, RunRecord
  <2>2. LogOf(event'[r], run'[r].last_seq) =
          LogOf(event[r], run[r].last_seq) \o <<"run.started">>
    BY <2>1, MapAppend DEF EventTypes
  <2>3. Lifecycle!Move(r, "running", <<"run.started">>) BY <2>1, <2>2, MapMove
  <2>4. Lifecycle!Start(r) BY <2>1, <2>3 DEF Lifecycle!Start
  <2> QED BY <2>4 DEF Lifecycle!Next
<1>5. CASE Appended(r)
  <2>1. PICK type \in RuntimeEventTypes :
          /\ run'[r] = [run[r] EXCEPT !.last_seq = run[r].last_seq + 1,
                         !.first_visible_at = FirstVisible(run[r], type, run[r].last_seq + 1)]
          /\ event'[r] = event[r] \cup {Event(run[r].last_seq + 1, type)}
          /\ run[r].status = "running"
    BY <1>5 DEF Appended, Changed
  <2>2. /\ run'[r].status = "running" /\ run'[r].thread_id = run[r].thread_id
        /\ run'[r].last_seq = run[r].last_seq + 1
    BY <1>1, <2>1 DEF RunRecord
  <2>3. LogOf(event'[r], run'[r].last_seq) = LogOf(event[r], run[r].last_seq) \o <<type>>
    BY <2>1, <2>2, MapAppend DEF EventTypes
  <2>4. Lifecycle!Move(r, "running", <<type>>) BY <2>2, <2>3, MapMove
  <2>5. Lifecycle!Publish(r, type) BY <2>1, <2>4 DEF Lifecycle!Publish
  <2> QED BY <2>5 DEF Lifecycle!Next
<1>6. CASE Completed(r)
  <2>1. /\ run'[r].status = "completed" /\ run'[r].thread_id = run[r].thread_id
        /\ run[r].status = "running"
    BY <1>1, <1>6 DEF Completed, Changed, Ended, RunRecord
  <2>2. Lifecycle!Move(r, "completed", <<"message.completed", "run.completed">>)
    BY <1>6, <2>1, MapComplete, MapMove
  <2>3. Lifecycle!Complete(r) BY <2>1, <2>2 DEF Lifecycle!Complete
  <2> QED BY <2>3 DEF Lifecycle!Next
<1>7. ASSUME NEW s, NEW type \in {"run.failed", "run.cancelled"}, Stopped(r, s, type)
      PROVE  Lifecycle!Active(r) /\ Lifecycle!Move(r, s, <<type>>)
  <2>1. /\ run'[r].status = s /\ run'[r].thread_id = run[r].thread_id
        /\ run'[r].last_seq = run[r].last_seq + 1 /\ Active(r)
        /\ event'[r] = event[r] \cup {Event(run[r].last_seq + 1, type)}
    BY <1>1, <1>7 DEF Stopped, Changed, Ended, RunRecord
  <2>2. type \in EventTypes BY <1>7 DEF EventTypes, TerminalEvents
  <2>3. LogOf(event'[r], run'[r].last_seq) = LogOf(event[r], run[r].last_seq) \o <<type>>
    BY <2>1, <2>2, MapAppend
  <2>4. Lifecycle!Move(r, s, <<type>>) BY <2>1, <2>3, MapMove
  <2> QED BY <1>2, <2>1, <2>4
<1>8. CASE Stopped(r, "failed", "run.failed")
  <2>1. Lifecycle!Fail(r) BY <1>7, <1>8 DEF Lifecycle!Fail
  <2> QED BY <2>1 DEF Lifecycle!Next
<1>9. CASE Stopped(r, "cancelled", "run.cancelled")
  <2>1. Lifecycle!Cancel(r) BY <1>7, <1>9 DEF Lifecycle!Cancel
  <2> QED BY <2>1 DEF Lifecycle!Next
<1> QED BY <1>3, <1>4, <1>5, <1>6, <1>8, <1>9 DEF Moved

(* The startup sweep fails every active Run in one transaction. *)
LEMMA MapSweep ==
  ASSUME TypeOK, TableInvariant, FailOrphanedRuns
  PROVE  Lifecycle!Next \/ UNCHANGED <<StatusMap, HomeMap, LogMap>>
<1>1. \A r \in Runs : Lifecycle!Active(r) <=> Active(r)
  BY DEF Lifecycle!Active, Lifecycle!ActiveStatuses, Active, ACTIVE_STATUSES
<1>2. ASSUME NEW r \in Runs, ~Active(r) PROVE run'[r] = run[r] /\ event'[r] = event[r]
  BY <1>2 DEF FailOrphanedRuns
<1>3. ASSUME NEW r \in Runs, Active(r)
      PROVE  /\ run'[r].status = "failed" /\ run'[r].thread_id = run[r].thread_id
             /\ LogOf(event'[r], run'[r].last_seq) =
                  Append(LogOf(event[r], run[r].last_seq), "run.failed")
  <2>1. run[r] \in RunRecord BY DEF TypeOK
  <2>2. /\ run'[r] = Ended(r, "failed", run[r].last_seq + 1)
        /\ event'[r] = event[r] \cup {Event(run[r].last_seq + 1, "run.failed")}
    BY <1>3 DEF FailOrphanedRuns
  <2>3. /\ run'[r].status = "failed" /\ run'[r].thread_id = run[r].thread_id
        /\ run'[r].last_seq = run[r].last_seq + 1
    BY <2>1, <2>2 DEF Ended, RunRecord
  <2> QED BY <2>2, <2>3, MapAppend DEF EventTypes, TerminalEvents
<1>4. CASE \E r \in Runs : Active(r)
  <2>1. StatusMap' = [r \in Runs |-> IF Active(r) THEN "failed" ELSE StatusMap[r]]
    BY <1>2, <1>3 DEF StatusMap
  <2>2. HomeMap' = HomeMap BY <1>2, <1>3 DEF HomeMap
  <2>3. LogMap' = [r \in Runs |-> IF Active(r) THEN Append(LogMap[r], "run.failed")
                                               ELSE LogMap[r]]
    BY <1>2, <1>3 DEF LogMap
  <2>4. Lifecycle!FailOrphans
    BY <1>1, <1>4, <2>1, <2>2, <2>3
       DEF Lifecycle!FailOrphans, StatusMap, HomeMap, LogMap, LogOf, TypeAt, TypeIn
  <2> QED BY <2>4 DEF Lifecycle!Next
<1>5. CASE \A r \in Runs : ~Active(r)
  BY <1>2, <1>5 DEF StatusMap, HomeMap, LogMap
<1> QED BY <1>4, <1>5

(* A committed admission creates a Run in a Thread without active Run. *)
LEMMA MapInsert ==
  ASSUME TypeOK, TableInvariant, AdmissionInvariant, NEW c \in Callers, Insert(c)
  PROVE  Lifecycle!Next
<1> PICK t : t = call[c].thread_id OBVIOUS
<1>1. t \in Threads
  BY DEF Insert, AdmissionInvariant, CallFacts, CallInFlight
<1>2. PICK r \in Runs : InsertRun(call[c], r) BY DEF Insert
<1>3. Row(r, call[c]) BY <1>2, InsertRow DEF TypeOK
<1>4. /\ run'[r] = [NoRun EXCEPT !.status = "created", !.thread_id = call[c].thread_id,
                      !.idempotency_key = call[c].key, !.actor_subject = call[c].subject]
      /\ event' = event
  BY <1>2 DEF InsertRun, TypeOK
<1>5. run'[r].status = "created" /\ run'[r].last_seq = 0 /\ run'[r].thread_id = t
  BY <1>4 DEF NoRun
<1>6. run[r].status = "absent" /\ run[r].last_seq = 0
  BY <1>3 DEF Row, Exists, TableInvariant, RunFacts
<1>7. \A q \in Runs \ {r} : Same(q) BY <1>3 DEF Row
<1>8. ASSUME NEW q \in Runs, run[q].thread_id = t PROVE ~Active(q)
  <2>1. ActiveRuns(t) = {} BY DEF Insert, ViolatesConstraint
  <2>2. Active(q) => q \in ActiveRuns(t)
    BY <1>8 DEF ActiveRuns, RunsOf, Active, ACTIVE_STATUSES, Exists
  <2> QED BY <2>1, <2>2
<1>9. StatusMap' = [StatusMap EXCEPT ![r] = "created"] BY <1>5, <1>7 DEF StatusMap, Same
<1>10. HomeMap' = [HomeMap EXCEPT ![r] = t] BY <1>5, <1>7 DEF HomeMap, Same
<1>11. LogMap' = LogMap
  <2>1. \A q \in Runs : run'[q].last_seq = run[q].last_seq /\ event'[q] = event[q]
    BY <1>4, <1>5, <1>6, <1>7 DEF Same
  <2> QED BY <2>1 DEF LogMap
<1>12. Lifecycle!Create(r, t)
  BY <1>6, <1>8, <1>9, <1>10, <1>11
     DEF Lifecycle!Create, Lifecycle!Active, Lifecycle!ActiveStatuses, Active,
         ACTIVE_STATUSES, StatusMap, HomeMap, LogMap, LogOf, TypeAt, TypeIn
<1> QED BY <1>1, <1>12 DEF Lifecycle!Next

(* A step of one Run leaves the rows of the others alone. *)
LEMMA RunStepAlone ==
  ASSUME TypeOK, NEW r \in Runs, RunStep(r), NEW q \in Runs \ {r}
  PROVE  Same(q)
<1>1. PICK row, rows : Transition(r, row, rows)
  BY DEF RunStep, StartRun, AppendActiveEvent, CompleteRun, FailRun, CancelRun
<1>2. run'[q] = run[q] /\ event'[q] = event[q] BY <1>1, TransitionLeavesOthers
<1>3. message'[q] = message[q]
  BY DEF RunStep, StartRun, AppendActiveEvent, CompleteRun, FailRun, CancelRun, TypeOK
<1> QED BY <1>2, <1>3 DEF Same

(* Every step of the tables is a step of the life cycle, or invisible. *)
LEMMA MapNext ==
  ASSUME TypeOK, TableInvariant, AdmissionInvariant, [Next]_vars
  PROVE  [Lifecycle!Next]_(Lifecycle!vars)
<1>1. ASSUME UNCHANGED <<run, event>> PROVE UNCHANGED <<StatusMap, HomeMap, LogMap>>
  BY <1>1 DEF StatusMap, HomeMap, LogMap
<1>2. ASSUME NEW r \in Runs, RunStep(r)
      PROVE  Lifecycle!Next \/ UNCHANGED <<StatusMap, HomeMap, LogMap>>
  <2>1. \A q \in Runs \ {r} : Same(q) BY <1>2, RunStepAlone
  <2>2. ~\E c \in Callers : Insert(c)
    <3> SUFFICES ASSUME NEW c \in Callers, Insert(c) PROVE FALSE
      OBVIOUS
    <3>1. PICK p \in Runs : InsertRun(call[c], p) BY DEF Insert
    <3>2. Row(p, call[c]) BY <3>1, InsertRow DEF TypeOK
    <3>3. p = r BY <2>1, <3>2 DEF Row, Same, Exists
    <3>4. Exists(r)
      BY <1>2 DEF RunStep, StartRun, AppendActiveEvent, CompleteRun, FailRun, CancelRun,
                  Active, ACTIVE_STATUSES, Exists
    <3> QED BY <3>2, <3>3, <3>4 DEF Row
  <2>3. Moved(r) BY <2>2, StepShape
  <2> QED BY <2>1, <2>3, MapRunStep
<1>3. ASSUME NEW c \in Callers, Admission(c), ~Insert(c) PROVE UNCHANGED <<run, event>>
  BY <1>3 DEF Admission, BeginCall, Lookup, InsertRefused, Arbitrate, Abort, tables
<1>4. ASSUME NEW t \in Threads, NEW s \in Subjects, CreateThread(t, s)
      PROVE  UNCHANGED <<run, event>>
  BY <1>4 DEF CreateThread
<1>5. Crash \/ UNCHANGED vars => UNCHANGED <<run, event>> BY DEF Crash, vars, tables
<1>6. Lifecycle!Next \/ UNCHANGED <<StatusMap, HomeMap, LogMap>>
  BY <1>1, <1>2, <1>3, <1>4, <1>5, MapSweep, MapInsert DEF Next
<1> QED BY <1>6, MapIsNamed

(* The tables keep the promise of RunLifecycle: every transaction is one   *)
(* step of the life of one Run, or the startup sweep, or changes nothing   *)
(* that the life cycle speaks of; the log only grows at its end.           *)
THEOREM TablesImplementLifecycle == Spec => ImplementsRunLifecycle
<1>1. Init => Lifecycle!Init
  <2> SUFFICES ASSUME Init PROVE Lifecycle!Init
    OBVIOUS
  <2>1. \A r \in Runs : /\ run[r].status = "absent" /\ run[r].thread_id = Nil
                        /\ run[r].last_seq = 0
    BY DEF Init, NoRun
  <2>2. 1..0 = {} OBVIOUS
  <2>3. \A r \in Runs : [i \in 1..run[r].last_seq |-> TypeAt(r, i)] = <<>>
    BY <2>1, <2>2
  <2> QED BY <2>1, <2>3 DEF Lifecycle!Init
<1>2. TypeOK /\ TableInvariant /\ AdmissionInvariant /\ [Next]_vars =>
        [Lifecycle!Next]_(Lifecycle!vars)
  BY MapNext
<1> QED BY <1>1, <1>2, TypeCorrect, TableCorrect, AdmissionCorrect, PTL
        DEF Spec, ImplementsRunLifecycle, Lifecycle!Spec
=============================================================================
