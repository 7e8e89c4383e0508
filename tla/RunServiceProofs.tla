-------------------------- MODULE RunServiceProofs --------------------------
(***************************************************************************)
(* Proofs about the executor: what its workers, cancel requests and        *)
(* quarantined calls do to the Runs, for any number of them, with crashes  *)
(* and restarts at any time.                                               *)
(***************************************************************************)
EXTENDS RunService, FiniteSetTheorems, SequenceTheorems, TLAPS

-----------------------------------------------------------------------------
(* The inductive invariants *)

Snapshot == [own : BOOLEAN, sources : Nat]

Replies == {"none", "recorded", "forbidden", "unconfirmed", "unavailable"}

Request == [pc : {"idle", "settling", "waiting", "calling"}, run : Runs \cup {Nil},
            owner : BOOLEAN, snapshot : Snapshot, reply : Replies]

Ops == {"admit", "start", "append", "completed", "failed", "cancelled", "none"}

LateCall == [run : Runs, op : Ops, snapshot : Snapshot]

(* The types that the other clauses rest on. *)
ServiceTypes ==
  /\ status \in [Runs -> DB!Statuses]
  /\ log \in [Runs -> Seq(DB!EventTypes)]
  /\ evidence \in [Runs -> Snapshot \cup {Nil}]
  /\ pc \in [Runs -> Pcs]
  /\ goal \in [Runs -> {"none", "completed", "failed"}]
  /\ intent \in [Runs -> BOOLEAN]
  /\ accepted \in [Runs -> Nat]
  /\ tlock \in [Runs -> Runs \cup Cancellers \cup {Nil}]
  /\ creq \in [Cancellers -> Request]
  /\ \A c \in Cancellers : creq[c].pc # "idle" => creq[c].run \in Runs
  /\ quarantine \subseteq LateCall
  /\ quarantine # {} => fatal

(* A repository call that writes events or a terminal holds the lock of    *)
(* its Run; a request that took its snapshot under the lock still has it.  *)
LocksHeld ==
  /\ \A r \in Runs : pc[r] \in {"appending", "committing"} => tlock[r] = r
  /\ \A c \in Cancellers :
       creq[c].pc = "calling" /\ creq[c].snapshot.own => tlock[creq[c].run] = c

(* The ledger has confirmed exactly the events that are in the tables. *)
LedgerMatchesLog == \A r \in Runs : accepted[r] = Published(r)

(* A snapshot in use is that of the ledger: nothing can append any more.   *)
SnapshotsCurrent ==
  /\ \A c \in Cancellers :
       creq[c].pc = "calling" /\ creq[c].snapshot.own =>
         /\ creq[c].snapshot.sources = accepted[creq[c].run]
         /\ \A q \in quarantine : q.op = "append" => q.run # creq[c].run
  /\ \A q \in quarantine : q.op = "append" => pc[q.run] = "done"
  /\ \A q \in quarantine :
       q.op \in DB!TerminalStatuses /\ q.snapshot.own =>
         /\ q.snapshot.sources = accepted[q.run]
         /\ pc[q.run] # "appending"
         /\ \A p \in quarantine : p.op = "append" => p.run # q.run

(* What was written at the end is still true. *)
EvidenceKept ==
  \A r \in Runs :
    evidence[r] # Nil /\ evidence[r].own =>
      evidence[r].sources = accepted[r] /\ status[r] \in DB!TerminalStatuses

EvidenceInvariant ==
  ServiceTypes /\ LocksHeld /\ LedgerMatchesLog /\ SnapshotsCurrent /\ EvidenceKept

(* Where a worker is says what its Run has gone through. *)
WorkerKnows(r) ==
  /\ pc[r] \in {"none", "admitting"} => status[r] = "absent" /\ ~intent[r]
  /\ pc[r] = "starting" => status[r] # "running"
  /\ pc[r] \in DeadlineScope \ {"starting"} => status[r] # "created"
  /\ pc[r] \in {"draining", "finishing", "committing"} =>
       /\ goal[r] \in {"completed", "failed"}
       /\ goal[r] = "completed" => status[r] # "created"

(* A request is about to end Run r. *)
Cancelling(r) == \E c \in Cancellers : creq[c].pc # "idle" /\ creq[c].run = r

OwnerInvariant ==
  /\ ServiceTypes
  /\ \A r \in Runs : WorkerKnows(r)
  /\ \A c \in Cancellers : creq[c].pc # "idle" => creq[c].owner
  /\ \A q \in quarantine : q.op # "cancelled" => pc[q.run] = "done"
  /\ \A r \in Runs : Healthy /\ Active(r) /\ (intent[r] \/ ~Live(r)) => Cancelling(r)

-----------------------------------------------------------------------------
(* Counting events *)

Runtime(events) == {i \in DOMAIN events : events[i] \in RuntimeEventTypes}

Count(events) == Cardinality(Runtime(events))

(* The runtime events of a log are finitely many. *)
LEMMA RuntimeFinite ==
  ASSUME NEW events \in Seq(DB!EventTypes)
  PROVE  IsFiniteSet(Runtime(events)) /\ Count(events) \in Nat
<1>1. Runtime(events) \subseteq 1..Len(events) /\ Len(events) \in Nat BY DEF Runtime
<1>2. IsFiniteSet(1..Len(events)) BY <1>1, FS_Interval
<1>3. IsFiniteSet(Runtime(events)) BY <1>1, <1>2, FS_Subset
<1> QED BY <1>3, FS_CardinalityType DEF Count

(* A host event is not counted. *)
LEMMA HostNotCounted ==
  ASSUME NEW events \in Seq(DB!EventTypes), NEW more \in Seq(DB!HostEvents)
  PROVE  Count(events \o more) = Count(events)
<1> DEFINE all == events \o more
<1>1. /\ DOMAIN all = 1..(Len(events) + Len(more)) /\ Len(events) \in Nat /\ Len(more) \in Nat
      /\ \A i \in 1..Len(events) : all[i] = events[i]
      /\ \A i \in DOMAIN all : i > Len(events) =>
           all[i] = more[i - Len(events)] /\ i - Len(events) \in 1..Len(more)
  OBVIOUS
<1>2. \A j \in 1..Len(more) : more[j] \in DB!HostEvents OBVIOUS
<1>3. \A i \in DOMAIN all : i > Len(events) => all[i] \notin RuntimeEventTypes
  BY <1>1, <1>2, ServiceAssumption
<1> HIDE DEF all
<1>4. Runtime(all) = Runtime(events)
  <2>1. ASSUME NEW i \in Runtime(all) PROVE i \in Runtime(events)
    <3>1. i \in DOMAIN all /\ all[i] \in RuntimeEventTypes BY DEF Runtime
    <3>2. i \in 1..Len(events) BY <1>1, <1>3, <3>1
    <3> QED BY <1>1, <3>1, <3>2 DEF Runtime
  <2>2. ASSUME NEW i \in Runtime(events) PROVE i \in Runtime(all)
    <3>1. i \in 1..Len(events) /\ events[i] \in RuntimeEventTypes BY DEF Runtime
    <3> QED BY <1>1, <3>1 DEF Runtime
  <2> QED BY <2>1, <2>2
<1> QED BY <1>4 DEF Count, all

(* A runtime event is counted once. *)
LEMMA RuntimeCounted ==
  ASSUME NEW events \in Seq(DB!EventTypes), NEW type \in RuntimeEventTypes
  PROVE  Count(events \o <<type>>) = Count(events) + 1
<1> DEFINE all == events \o <<type>>
           n == Len(events) + 1
<1>1. /\ DOMAIN all = 1..n /\ Len(events) \in Nat
      /\ \A i \in 1..Len(events) : all[i] = events[i]
      /\ all[n] = type
  OBVIOUS
<1> HIDE DEF all
<1>2. Runtime(all) = Runtime(events) \cup {n}
  <2>1. ASSUME NEW i \in Runtime(all) PROVE i \in Runtime(events) \cup {n}
    <3>1. i \in 1..n /\ all[i] \in RuntimeEventTypes BY <1>1 DEF Runtime
    <3>2. i = n \/ i \in 1..Len(events) BY <1>1, <3>1
    <3> QED BY <1>1, <3>1, <3>2 DEF Runtime
  <2>2. ASSUME NEW i \in Runtime(events) PROVE i \in Runtime(all)
    <3>1. i \in 1..Len(events) /\ events[i] \in RuntimeEventTypes BY DEF Runtime
    <3> QED BY <1>1, <3>1 DEF Runtime
  <2>3. n \in Runtime(all) BY <1>1 DEF Runtime
  <2> QED BY <2>1, <2>2, <2>3
<1>3. n \notin Runtime(events) BY <1>1 DEF Runtime
<1>4. IsFiniteSet(Runtime(events)) BY RuntimeFinite
<1>5. Cardinality(Runtime(events) \cup {n}) = Cardinality(Runtime(events)) + 1
  BY <1>3, <1>4, FS_AddElement
<1> QED BY <1>2, <1>5 DEF Count, all

-----------------------------------------------------------------------------
(* What a transaction does to the rows *)

RowKept(r) == status'[r] = status[r] /\ log'[r] = log[r]

RowMoved(r) == status[r] \notin DB!TerminalStatuses /\ Count(log'[r]) = Count(log[r])

RowsQuiet == \A r \in Runs : RowKept(r) \/ RowMoved(r)

RowTypes == status \in [Runs -> DB!Statuses] /\ log \in [Runs -> Seq(DB!EventTypes)]

(* A move to another status, with host events. *)
LEMMA MoveQuiet ==
  ASSUME RowTypes, NEW r \in Runs, NEW s \in DB!Statuses, NEW events \in Seq(DB!HostEvents),
         status[r] \notin DB!TerminalStatuses, DB!Move(r, s, events)
  PROVE  /\ RowsQuiet /\ RowTypes'
         /\ status'[r] = s /\ \A q \in Runs \ {r} : RowKept(q)
<1>1. log[r] \in Seq(DB!EventTypes) /\ events \in Seq(DB!EventTypes)
  <2>1. DB!HostEvents \subseteq DB!EventTypes BY DEF DB!EventTypes
  <2> QED BY <2>1 DEF RowTypes
<1>2. log[r] \o events \in Seq(DB!EventTypes) BY <1>1
<1>3. /\ status' = [status EXCEPT ![r] = s] /\ log' = [log EXCEPT ![r] = log[r] \o events]
  BY DEF DB!Move
<1>4. RowTypes' BY <1>2, <1>3 DEF RowTypes
<1>5. status'[r] = s /\ log'[r] = log[r] \o events /\ \A q \in Runs \ {r} : RowKept(q)
  BY <1>3 DEF RowTypes, RowKept
<1>6. Count(log'[r]) = Count(log[r]) BY <1>1, <1>5, HostNotCounted
<1> QED BY <1>4, <1>5, <1>6 DEF RowsQuiet, RowMoved

(* The events of the host. *)
LEMMA HostSequences ==
  /\ <<"run.started">> \in Seq(DB!HostEvents)
  /\ <<"message.completed", "run.completed">> \in Seq(DB!HostEvents)
  /\ <<"run.failed">> \in Seq(DB!HostEvents)
  /\ <<"run.cancelled">> \in Seq(DB!HostEvents)
<1>1. "run.started" \in DB!HostEvents /\ "message.completed" \in DB!HostEvents
      /\ "run.completed" \in DB!HostEvents /\ "run.failed" \in DB!HostEvents
      /\ "run.cancelled" \in DB!HostEvents
  BY DEF DB!HostEvents, DB!TerminalEvents
<1> QED BY <1>1

(* create_run *)
LEMMA CreateQuiet ==
  ASSUME RowTypes, NEW r \in Runs, NEW t, DB!Create(r, t)
  PROVE  /\ RowsQuiet /\ RowTypes' /\ status[r] = "absent" /\ status'[r] = "created"
         /\ \A q \in Runs \ {r} : RowKept(q)
<1>1. status[r] = "absent" /\ status' = [status EXCEPT ![r] = "created"] /\ log' = log
  BY DEF DB!Create
<1>2. "created" \in DB!Statuses /\ "absent" \notin DB!TerminalStatuses
  BY DEF DB!Statuses, DB!ActiveStatuses, DB!TerminalStatuses
<1> QED BY <1>1, <1>2 DEF RowsQuiet, RowTypes, RowKept, RowMoved

(* start_run *)
LEMMA StartQuiet ==
  ASSUME RowTypes, NEW r \in Runs, StartRow(r)
  PROVE  /\ RowsQuiet /\ RowTypes' /\ \A q \in Runs \ {r} : RowKept(q)
         /\ status'[r] = IF status[r] = "created" THEN "running" ELSE status[r]
<1>1. CASE status[r] = "created"
  <2>1. DB!Move(r, "running", <<"run.started">>) BY <1>1 DEF StartRow, DB!Start
  <2>2. "running" \in DB!Statuses /\ "created" \notin DB!TerminalStatuses
    BY DEF DB!Statuses, DB!ActiveStatuses, DB!TerminalStatuses
  <2> QED BY <1>1, <2>1, <2>2, HostSequences, MoveQuiet
<1>2. CASE status[r] # "created"
  <2>1. status' = status /\ log' = log BY <1>2 DEF StartRow, db
  <2> QED BY <1>2, <2>1 DEF RowsQuiet, RowTypes, RowKept
<1> QED BY <1>1, <1>2

(* complete_run, fail_run and cancel_run *)
LEMMA EndQuiet ==
  ASSUME RowTypes, NEW r \in Runs, NEW terminal, NEW snapshot, EndRow(r, terminal, snapshot),
         evidence \in [Runs -> Snapshot \cup {Nil}], snapshot \in Snapshot
  PROVE  /\ RowsQuiet /\ RowTypes' /\ \A q \in Runs \ {r} : RowKept(q) /\ evidence'[q] = evidence[q]
         /\ evidence' \in [Runs -> Snapshot \cup {Nil}]
         /\ \/ RowKept(r) /\ evidence'[r] = evidence[r]
               /\ ~(terminal = "completed" /\ status[r] = "running")
               /\ ~(terminal \in {"failed", "cancelled"} /\ Active(r))
            \/ status'[r] \in DB!TerminalStatuses /\ evidence'[r] = snapshot /\ Active(r)
<1> DEFINE Ends == \/ terminal = "completed" /\ status[r] = "running"
                   \/ terminal \in {"failed", "cancelled"} /\ Active(r)
<1>1. CASE ~Ends
  <2>1. status' = status /\ log' = log /\ evidence' = evidence BY <1>1 DEF EndRow, db
  <2> QED BY <1>1, <2>1 DEF RowsQuiet, RowTypes, RowKept
<1>2. CASE Ends
  <2>1. evidence' = [evidence EXCEPT ![r] = snapshot] BY <1>2 DEF EndRow
  <2>2. /\ terminal = "completed" => DB!Complete(r)
        /\ terminal = "failed" => DB!Fail(r)
        /\ terminal = "cancelled" => DB!Cancel(r)
    BY <1>2 DEF EndRow
  <2>3. /\ {"completed", "failed", "cancelled"} = DB!TerminalStatuses
        /\ DB!TerminalStatuses \subseteq DB!Statuses
        /\ Active(r) /\ status[r] \notin DB!TerminalStatuses
    BY <1>2 DEF DB!Statuses, DB!ActiveStatuses, DB!TerminalStatuses, Active, DB!Active
  <2>4. \E s \in DB!TerminalStatuses, events \in Seq(DB!HostEvents) : DB!Move(r, s, events)
    <3>1. terminal \in {"completed", "failed", "cancelled"} BY <1>2
    <3> QED BY <2>2, <2>3, <3>1, HostSequences DEF DB!Complete, DB!Fail, DB!Cancel
  <2>5. /\ RowsQuiet /\ RowTypes' /\ status'[r] \in DB!TerminalStatuses
        /\ \A q \in Runs \ {r} : RowKept(q)
    BY <2>3, <2>4, MoveQuiet
  <2> QED BY <2>1, <2>3, <2>5
<1> QED BY <1>1, <1>2

(* append_event *)
LEMMA PublishFacts ==
  ASSUME RowTypes, NEW r \in Runs, PublishRow(r)
  PROVE  /\ RowTypes' /\ \A q \in Runs \ {r} : RowKept(q)
         /\ status'[r] = status[r]
         /\ status[r] = "running" => Count(log'[r]) = Count(log[r]) + 1
         /\ status[r] # "running" => RowKept(r)
<1>1. CASE status[r] = "running"
  <2>1. PICK type \in RuntimeEventTypes : DB!Publish(r, type) BY <1>1 DEF PublishRow
  <2>2. status' = [status EXCEPT ![r] = "running"] /\ log' = [log EXCEPT ![r] = log[r] \o <<type>>]
    BY <2>1 DEF DB!Publish, DB!Move
  <2>3. type \in DB!EventTypes /\ "running" \in DB!Statuses
    BY DEF DB!EventTypes, DB!Statuses, DB!ActiveStatuses
  <2>4. log[r] \in Seq(DB!EventTypes) /\ log[r] \o <<type>> \in Seq(DB!EventTypes)
    BY <2>3 DEF RowTypes
  <2>5. RowTypes' BY <2>2, <2>3, <2>4 DEF RowTypes
  <2>6. log'[r] = log[r] \o <<type>> /\ status'[r] = "running" /\ \A q \in Runs \ {r} : RowKept(q)
    BY <2>2 DEF RowTypes, RowKept
  <2> QED BY <1>1, <2>4, <2>5, <2>6, RuntimeCounted
<1>2. CASE status[r] # "running"
  BY <1>2 DEF PublishRow, db, RowTypes, RowKept
<1> QED BY <1>1, <1>2

(* The sweep of a new process *)
LEMMA OrphansQuiet ==
  ASSUME RowTypes, DB!FailOrphans
  PROVE  RowsQuiet /\ RowTypes' /\ \A r \in Runs : status'[r] = IF Active(r) THEN "failed" ELSE status[r]
<1>1. /\ status' = [r \in Runs |-> IF Active(r) THEN "failed" ELSE status[r]]
      /\ log' = [r \in Runs |-> IF Active(r) THEN Append(log[r], "run.failed") ELSE log[r]]
  BY DEF DB!FailOrphans, Active
<1>2. "failed" \in DB!Statuses /\ "run.failed" \in DB!EventTypes /\ "run.failed" \in DB!HostEvents
  BY DEF DB!Statuses, DB!TerminalStatuses, DB!EventTypes, DB!HostEvents, DB!TerminalEvents
<1>3. \A r \in Runs : log[r] \in Seq(DB!EventTypes) BY DEF RowTypes
<1>4. \A r \in Runs : Append(log[r], "run.failed") = log[r] \o <<"run.failed">>
                       /\ Append(log[r], "run.failed") \in Seq(DB!EventTypes)
  BY <1>2, <1>3, AppendIsConcat
<1>5. RowTypes' BY <1>1, <1>2, <1>4 DEF RowTypes
<1>6. ASSUME NEW r \in Runs PROVE RowKept(r) \/ RowMoved(r)
  <2>1. CASE Active(r)
    <3>1. log'[r] = log[r] \o <<"run.failed">> BY <1>1, <1>4, <2>1
    <3>2. Count(log'[r]) = Count(log[r]) BY <1>3, <3>1, HostSequences, HostNotCounted
    <3>3. status[r] \notin DB!TerminalStatuses
      BY <2>1 DEF Active, DB!Active, DB!ActiveStatuses, DB!TerminalStatuses
    <3> QED BY <3>2, <3>3 DEF RowMoved
  <2>2. CASE ~Active(r) BY <1>1, <2>2 DEF RowKept
  <2> QED BY <2>1, <2>2
<1> QED BY <1>1, <1>5, <1>6 DEF RowsQuiet

-----------------------------------------------------------------------------
(* What the helpers of the actions do *)

(* Only the task of r goes elsewhere. *)
OneTask(r) == pc' \in [Runs -> Pcs] /\ \A s \in Runs \ {r} : pc'[s] = pc[s]

(* A task goes to a label. *)
LEMMA GotoFacts ==
  ASSUME pc \in [Runs -> Pcs], NEW r \in Runs, NEW label \in Pcs, Goto(r, label)
  PROVE  OneTask(r) /\ pc'[r] = label
BY DEF Goto, OneTask

(* An await returns. *)
LEMMA ContinueFacts ==
  ASSUME ServiceTypes, NEW r \in Runs, NEW label \in Pcs, Continue(r, label)
  PROVE  /\ OneTask(r) /\ goal' \in [Runs -> {"none", "completed", "failed"}]
         /\ intent[r] => pc'[r] = "done"
         /\ ~intent[r] => pc'[r] = (IF expired[r] THEN "finishing" ELSE label)
         /\ \A s \in Runs : goal'[s] = goal[s] \/ goal'[s] = "failed"
         /\ ~intent[r] /\ expired[r] => goal'[r] = "failed"
<1>1. pc \in [Runs -> Pcs] /\ goal \in [Runs -> {"none", "completed", "failed"}]
      /\ "done" \in Pcs /\ "finishing" \in Pcs
  BY DEF ServiceTypes, Pcs, LivePcs
<1>2. PICK there \in Pcs :
         there = IF intent[r] THEN "done" ELSE IF expired[r] THEN "finishing" ELSE label
  BY <1>1
<1>3. Goto(r, there) BY <1>2 DEF Continue
<1>4. OneTask(r) /\ pc'[r] = there BY <1>1, <1>3, GotoFacts
<1>5. /\ goal' \in [Runs -> {"none", "completed", "failed"}]
      /\ \A s \in Runs : goal'[s] = goal[s] \/ goal'[s] = "failed"
      /\ ~intent[r] /\ expired[r] => goal'[r] = "failed"
  <2>1. CASE ~intent[r] /\ expired[r] BY <1>1, <2>1 DEF Continue
  <2>2. CASE ~(~intent[r] /\ expired[r]) BY <1>1, <2>2 DEF Continue
  <2> QED BY <2>1, <2>2
<1> QED BY <1>2, <1>4, <1>5

(* An await raises. *)
LEMMA RaiseFacts ==
  ASSUME ServiceTypes, NEW r \in Runs, Raise(r)
  PROVE  /\ OneTask(r) /\ goal' \in [Runs -> {"none", "completed", "failed"}]
         /\ pc'[r] = IF intent[r] THEN "done" ELSE "finishing"
         /\ \A s \in Runs : goal'[s] = goal[s] \/ goal'[s] = "failed"
         /\ goal'[r] = "failed"
<1>1. pc \in [Runs -> Pcs] /\ goal \in [Runs -> {"none", "completed", "failed"}]
      /\ "done" \in Pcs /\ "finishing" \in Pcs
  BY DEF ServiceTypes, Pcs, LivePcs
<1>2. PICK there \in Pcs : there = IF intent[r] THEN "done" ELSE "finishing" BY <1>1
<1>3. Goto(r, there) BY <1>2 DEF Raise
<1>4. OneTask(r) /\ pc'[r] = there BY <1>1, <1>3, GotoFacts
<1> QED BY <1>1, <1>2, <1>4 DEF Raise

(* _request_cancel *)
LEMMA RequestedFacts ==
  ASSUME intent \in [Runs -> BOOLEAN], NEW S, intent' = Requested(S)
  PROVE  /\ intent' \in [Runs -> BOOLEAN]
         /\ \A r \in Runs : intent'[r] => intent[r] \/ (r \in S /\ Live(r))
BY DEF Requested

(* A lock is released by its holder. *)
LEMMA ReleaseFacts ==
  ASSUME tlock \in [Runs -> Runs \cup Cancellers \cup {Nil}], NEW holder, Release(holder)
  PROVE  /\ tlock' \in [Runs -> Runs \cup Cancellers \cup {Nil}]
         /\ \A r \in Runs : tlock[r] # holder => tlock'[r] = tlock[r]
BY DEF Release

(* A request is answered. *)
LEMMA AnsweredFacts ==
  ASSUME creq \in [Cancellers -> Request], NEW c \in Cancellers, NEW reply \in Replies,
         Answered(c, reply)
  PROVE  /\ creq' \in [Cancellers -> Request] /\ creq'[c].pc = "idle"
         /\ \A d \in Cancellers \ {c} : creq'[d] = creq[d]
<1> DEFINE q == [creq[c] EXCEPT !.pc = "idle", !.reply = reply]
<1>1. q \in Request /\ q.pc = "idle" BY DEF Request
<1>2. creq' = [creq EXCEPT ![c] = q]
  <2> DEFINE both == [creq EXCEPT ![c].pc = "idle", ![c].reply = reply]
  <2>1. both = [creq EXCEPT ![c] = q] OBVIOUS
  <2> QED BY <2>1 DEF Answered
<1> HIDE DEF q
<1> QED BY <1>1, <1>2

(* The ledger of a Run, as its own execution sees it. *)
LEMMA OutcomeFacts ==
  ASSUME ServiceTypes, NEW r \in Runs
  PROVE  Outcome(r) \in Snapshot /\ Outcome(r).own /\ Outcome(r).sources = accepted[r]
BY DEF ServiceTypes, Outcome, Snapshot

(* A repository call of a worker is quarantined. *)
LEMMA HangFacts ==
  ASSUME ServiceTypes, NEW r \in Runs, NEW call, NEW op \in Ops, WorkerHang(r, call, op)
  PROVE  /\ OneTask(r) /\ pc'[r] = "done" /\ fatal' = TRUE
         /\ \E snapshot \in Snapshot :
              /\ snapshot.sources = accepted[r]
              /\ quarantine' = quarantine \cup {[run |-> r, op |-> op, snapshot |-> snapshot]}
         /\ quarantine' \subseteq LateCall
         /\ intent' \in [Runs -> BOOLEAN]
         /\ \A s \in Runs : intent'[s] => intent[s] \/ Live(s)
         /\ Release(r)
         /\ UNCHANGED <<status, home, log, evidence, goal, expired, accepted, creq, unconfirmed,
                        closed, up>>
<1>1. pc \in [Runs -> Pcs] /\ intent \in [Runs -> BOOLEAN] /\ "done" \in Pcs
  BY DEF ServiceTypes, Pcs
<1>2. OneTask(r) /\ pc'[r] = "done" BY <1>1, GotoFacts DEF WorkerHang
<1>3. /\ intent' \in [Runs -> BOOLEAN]
      /\ \A s \in Runs : intent'[s] => intent[s] \/ Live(s)
  <2>1. intent' = Requested(Runs \ {r}) BY DEF WorkerHang, MarkFatal
  <2> QED BY <1>1, <2>1, RequestedFacts
<1>4. Outcome(r) \in Snapshot /\ Outcome(r).sources = accepted[r] BY OutcomeFacts
<1>5. quarantine' = quarantine \cup {[run |-> r, op |-> op, snapshot |-> Outcome(r)]}
  BY DEF WorkerHang
<1>6. quarantine' \subseteq LateCall
  <2>1. [run |-> r, op |-> op, snapshot |-> Outcome(r)] \in LateCall BY <1>4 DEF LateCall
  <2> QED BY <1>5, <2>1 DEF ServiceTypes
<1> QED BY <1>2, <1>3, <1>4, <1>5, <1>6 DEF WorkerHang, MarkFatal, db

-----------------------------------------------------------------------------
(* What the steps do, and the types *)

RestTypes ==
  /\ goal \in [Runs -> {"none", "completed", "failed"}]
  /\ intent \in [Runs -> BOOLEAN]

(* A step of the worker of r that neither takes nor gives a lock. *)
WorkerQuiet(r) ==
  /\ OneTask(r) /\ pc[r] # "done"
  /\ pc'[r] \in {"appending", "committing"} => pc'[r] = pc[r]
  /\ UNCHANGED <<tlock, creq, quarantine, accepted, evidence>>
  /\ RowsQuiet /\ RowTypes' /\ RestTypes'
  /\ fatal => fatal'

(* A worker takes the lock of its Run, in a service that has not failed. *)
WorkerTakesLock(r) ==
  /\ OneTask(r) /\ ~fatal /\ tlock[r] = Nil
  /\ tlock' = [tlock EXCEPT ![r] = r]
  /\ UNCHANGED <<status, log, creq, quarantine, accepted, evidence, goal, intent, fatal>>

(* The steps of a worker without a write. *)
LEMMA OutsideSteps ==
  ASSUME ServiceTypes, NEW r \in Runs,
         \/ AdmitBegin(r) \/ AdmitRefused(r) \/ LoadContext(r) \/ LoadContextHang(r)
         \/ StreamItem(r) \/ StreamCancelled(r) \/ CleanupDone(r) \/ CleanupFatal(r) \/ Deadline(r)
  PROVE  WorkerQuiet(r)
<1> USE DEF Pcs, LivePcs, DeadlineScope
<1>0. pc \in [Runs -> Pcs] /\ RestTypes /\ RowTypes /\ intent \in [Runs -> BOOLEAN]
  BY DEF ServiceTypes, RestTypes, RowTypes
<1>1. UNCHANGED <<status, log, tlock, creq, quarantine, accepted, evidence>>
  BY DEF AdmitBegin, AdmitRefused, LoadContext, LoadContextHang, StreamItem, StreamCancelled,
         CleanupDone, CleanupFatal, Deadline, db
<1>2. RowsQuiet /\ RowTypes' BY <1>0, <1>1 DEF RowsQuiet, RowKept, RowTypes
<1>3. fatal => fatal'
  BY DEF AdmitBegin, AdmitRefused, LoadContext, LoadContextHang, StreamItem, StreamCancelled,
         CleanupDone, CleanupFatal, Deadline, MarkFatal, health
<1>4. pc[r] # "done"
  BY DEF AdmitBegin, AdmitRefused, LoadContext, LoadContextHang, StreamItem, StreamCancelled,
         CleanupDone, CleanupFatal, Deadline
<1>5. /\ OneTask(r) /\ RestTypes'
      /\ pc'[r] \in {"appending", "committing"} => pc'[r] = pc[r]
  <2>1. CASE AdmitBegin(r) \/ AdmitRefused(r) \/ StreamCancelled(r)
    BY <1>0, <2>1 DEF AdmitBegin, AdmitRefused, StreamCancelled, Goto, OneTask, RestTypes
  <2>2. CASE LoadContext(r)
    <3>1. UNCHANGED intent BY <2>2 DEF LoadContext
    <3>2. CASE Continue(r, "streaming") BY <1>0, <3>1, <3>2, ContinueFacts DEF RestTypes
    <3>3. CASE Raise(r) BY <1>0, <3>1, <3>3, RaiseFacts DEF RestTypes
    <3> QED BY <2>2, <3>2, <3>3 DEF LoadContext
  <2>3. CASE LoadContextHang(r) \/ CleanupFatal(r)
    <3>1. Goto(r, "done") /\ intent' = Requested(Runs \ {r}) /\ goal' = goal
      BY <2>3 DEF LoadContextHang, CleanupFatal, MarkFatal
    <3> QED BY <1>0, <3>1, GotoFacts, RequestedFacts DEF RestTypes
  <2>4. CASE StreamItem(r)
    <3>1. UNCHANGED intent BY <2>4 DEF StreamItem
    <3>2. CASE Continue(r, "queued") BY <1>0, <3>1, <3>2, ContinueFacts DEF RestTypes
    <3>3. CASE Goto(r, "draining") /\ \E g \in {"completed", "failed"} : goal' = [goal EXCEPT ![r] = g]
      BY <1>0, <3>1, <3>3, GotoFacts DEF RestTypes
    <3>4. CASE Raise(r) BY <1>0, <3>1, <3>4, RaiseFacts DEF RestTypes
    <3> QED BY <2>4, <3>2, <3>3, <3>4 DEF StreamItem
  <2>5. CASE CleanupDone(r)
    <3>1. UNCHANGED intent BY <2>5 DEF CleanupDone
    <3>2. CASE Continue(r, "streaming") BY <1>0, <3>1, <3>2, ContinueFacts DEF RestTypes
    <3>3. CASE Goto(r, "finishing") /\ UNCHANGED goal
      BY <1>0, <3>1, <3>3, GotoFacts DEF RestTypes
    <3> QED BY <2>5, <3>2, <3>3 DEF CleanupDone
  <2>6. CASE Deadline(r)
    <3>1. UNCHANGED <<goal, intent>> BY <2>6 DEF Deadline
    <3>2. CASE pc' = pc BY <1>0, <3>1, <3>2 DEF OneTask, RestTypes
    <3>3. CASE Goto(r, "interrupted") BY <1>0, <3>1, <3>3, GotoFacts DEF RestTypes
    <3> QED BY <2>6, <3>2, <3>3 DEF Deadline
  <2> QED BY <2>1, <2>2, <2>3, <2>4, <2>5, <2>6
<1> QED BY <1>1, <1>2, <1>3, <1>4, <1>5 DEF WorkerQuiet

(* Admission and start *)
LEMMA EarlySteps ==
  ASSUME ServiceTypes, NEW r \in Runs,
         StartRun(r) \/ \E t \in Threads : Admit(r, t) \/ AdmitLate(r, t)
  PROVE  WorkerQuiet(r)
<1> USE DEF Pcs, LivePcs, DeadlineScope
<1>0. pc \in [Runs -> Pcs] /\ RestTypes /\ RowTypes
  BY DEF ServiceTypes, RestTypes, RowTypes
<1>1. CASE StartRun(r)
  <2>1. /\ UNCHANGED <<intent, tlock, creq, quarantine, accepted, evidence, fatal>>
        /\ pc[r] = "starting"
    BY <1>1 DEF StartRun, health
  <2>2. RowsQuiet /\ RowTypes'
    <3>1. CASE StartRow(r) BY <1>0, <3>1, StartQuiet
    <3>2. CASE UNCHANGED db BY <1>0, <3>2 DEF db, RowsQuiet, RowKept, RowTypes
    <3> QED BY <1>1, <3>1, <3>2 DEF StartRun
  <2>3. /\ OneTask(r) /\ RestTypes' /\ pc'[r] \notin {"appending", "committing"}
    <3>1. PICK label \in {"loading", "done"} :
             label = IF status[r] = "created" THEN "loading" ELSE "done"
      OBVIOUS
    <3>2. CASE Continue(r, label)
      <4>1. label \in Pcs OBVIOUS
      <4> QED BY <1>0, <2>1, <3>1, <3>2, <4>1, ContinueFacts DEF RestTypes
    <3>3. CASE Raise(r) BY <1>0, <2>1, <3>3, RaiseFacts DEF RestTypes
    <3> QED BY <1>1, <3>1, <3>2, <3>3 DEF StartRun
  <2> QED BY <2>1, <2>2, <2>3 DEF WorkerQuiet
<1>2. ASSUME NEW t \in Threads, Admit(r, t) \/ AdmitLate(r, t) PROVE WorkerQuiet(r)
  <2>1. /\ UNCHANGED <<goal, intent, tlock, creq, quarantine, accepted, evidence, fatal>>
        /\ pc[r] = "admitting" /\ DB!Create(r, t)
    BY <1>2 DEF Admit, AdmitLate, health
  <2>2. RowsQuiet /\ RowTypes' BY <1>0, <2>1, CreateQuiet
  <2>3. PICK there \in {"starting", "done"} : Goto(r, there)
    <3>1. PICK label \in {"starting", "done"} : label = IF Healthy THEN "starting" ELSE "done"
      OBVIOUS
    <3> QED BY <1>2, <3>1 DEF Admit, AdmitLate
  <2>4. OneTask(r) /\ pc'[r] = there
    <3>1. there \in Pcs OBVIOUS
    <3> QED BY <1>0, <2>3, <3>1, GotoFacts
  <2> QED BY <1>0, <2>1, <2>2, <2>4 DEF WorkerQuiet, RestTypes
<1> QED BY <1>1, <1>2

(* The worker asks for the lock of its Run. *)
LEMMA LockSteps ==
  ASSUME ServiceTypes, NEW r \in Runs, AppendLocked(r) \/ CommitLocked(r)
  PROVE  WorkerQuiet(r) \/ WorkerTakesLock(r)
<1> USE DEF Pcs, LivePcs, DeadlineScope
<1>0. pc \in [Runs -> Pcs] /\ RestTypes /\ RowTypes
  BY DEF ServiceTypes, RestTypes, RowTypes
<1>1. /\ UNCHANGED <<status, log, intent, creq, quarantine, accepted, evidence, fatal>>
      /\ pc[r] # "done"
  BY DEF AppendLocked, CommitLocked, health, db
<1>2. RowsQuiet /\ RowTypes' BY <1>0, <1>1 DEF RowsQuiet, RowKept, RowTypes
<1>3. CASE Goto(r, "done") /\ UNCHANGED <<tlock, goal>>
  BY <1>0, <1>1, <1>2, <1>3, GotoFacts DEF RestTypes, WorkerQuiet
<1>4. CASE (intent[r] \/ expired[r]) /\ Continue(r, "queued") /\ UNCHANGED tlock
  BY <1>0, <1>1, <1>2, <1>4, ContinueFacts DEF RestTypes, WorkerQuiet
<1>5. CASE /\ ~fatal /\ tlock[r] = Nil /\ tlock' = [tlock EXCEPT ![r] = r] /\ UNCHANGED goal
           /\ Goto(r, "appending") \/ Goto(r, "committing")
  BY <1>0, <1>1, <1>5, GotoFacts DEF WorkerTakesLock
<1> QED BY <1>3, <1>4, <1>5 DEF AppendLocked, CommitLocked

(* append_and_confirm *)
LEMMA AppendFacts ==
  ASSUME ServiceTypes, NEW r \in Runs, AppendEvent(r)
  PROVE  /\ OneTask(r) /\ pc[r] = "appending" /\ pc'[r] \in {"streaming", "finishing", "done"}
         /\ Release(r) /\ RowTypes' /\ RestTypes' /\ accepted' \in [Runs -> Nat]
         /\ UNCHANGED <<evidence, intent, expired, creq, quarantine, unconfirmed, health>>
<1> USE DEF Pcs, LivePcs, DeadlineScope
<1>0. /\ RestTypes /\ RowTypes /\ accepted \in [Runs -> Nat]
  BY DEF ServiceTypes, RestTypes, RowTypes
<1>1. /\ UNCHANGED <<evidence, intent, expired, creq, quarantine, unconfirmed, health>>
      /\ pc[r] = "appending" /\ Release(r)
  BY DEF AppendEvent
<1>2. RowTypes'
  <2>1. CASE PublishRow(r) BY <1>0, <2>1, PublishFacts
  <2>2. CASE UNCHANGED db BY <1>0, <2>2 DEF db, RowTypes
  <2> QED BY <2>1, <2>2 DEF AppendEvent
<1>3. accepted' \in [Runs -> Nat]
  <2>1. CASE accepted' = [accepted EXCEPT ![r] = @ + 1] BY <1>0, <2>1
  <2>2. CASE accepted' = accepted BY <1>0, <2>2
  <2> QED BY <2>1, <2>2 DEF AppendEvent
<1>4. OneTask(r) /\ RestTypes' /\ pc'[r] \in {"streaming", "finishing", "done"}
  <2>1. PICK label \in {"streaming", "done"} :
           label = IF status[r] = "running" THEN "streaming" ELSE "done"
    OBVIOUS
  <2>2. CASE Continue(r, label)
    <3>1. label \in Pcs OBVIOUS
    <3> QED BY <1>0, <1>1, <2>2, <3>1, ContinueFacts DEF RestTypes
  <2>3. CASE Raise(r) BY <1>0, <1>1, <2>3, RaiseFacts DEF RestTypes
  <2> QED BY <2>1, <2>2, <2>3 DEF AppendEvent
<1> QED BY <1>1, <1>2, <1>3, <1>4

(* complete_run and fail_run, which return or raise. *)
LEMMA CommitFacts ==
  ASSUME ServiceTypes, NEW r \in Runs, CommitTerminal(r) \/ CommitFault(r)
  PROVE  /\ OneTask(r) /\ pc[r] = "committing" /\ pc'[r] = "done" /\ Release(r)
         /\ EndRow(r, goal[r], Outcome(r)) \/ UNCHANGED <<db, evidence>>
         /\ UNCHANGED <<goal, accepted, creq, quarantine>>
         /\ RestTypes' /\ (fatal => fatal')
         /\ RowsQuiet /\ RowTypes' /\ \A s \in Runs \ {r} : RowKept(s) /\ evidence'[s] = evidence[s]
         /\ evidence' \in [Runs -> Snapshot \cup {Nil}]
         /\ \/ evidence'[r] = evidence[r]
            \/ status'[r] \in DB!TerminalStatuses /\ evidence'[r] = Outcome(r)
<1> USE DEF Pcs, LivePcs, DeadlineScope
<1>0. /\ pc \in [Runs -> Pcs] /\ RestTypes /\ RowTypes /\ intent \in [Runs -> BOOLEAN]
      /\ evidence \in [Runs -> Snapshot \cup {Nil}] /\ Outcome(r) \in Snapshot
  BY OutcomeFacts DEF ServiceTypes, RestTypes, RowTypes
<1>1. /\ UNCHANGED <<goal, accepted, creq, quarantine>> /\ Goto(r, "done")
      /\ pc[r] = "committing" /\ Release(r) /\ (fatal => fatal')
      /\ EndRow(r, goal[r], Outcome(r)) \/ UNCHANGED <<db, evidence>>
  BY DEF CommitTerminal, CommitFault, MarkFatal, health
<1>2. intent' \in [Runs -> BOOLEAN]
  <2>1. CASE intent' = intent BY <1>0, <2>1
  <2>2. CASE intent' = Requested(Runs \ {r}) BY <1>0, <2>2, RequestedFacts
  <2> QED BY <2>1, <2>2 DEF CommitTerminal, CommitFault, MarkFatal
<1>3. /\ RowsQuiet /\ RowTypes' /\ \A s \in Runs \ {r} : RowKept(s) /\ evidence'[s] = evidence[s]
      /\ evidence' \in [Runs -> Snapshot \cup {Nil}]
      /\ \/ evidence'[r] = evidence[r]
         \/ status'[r] \in DB!TerminalStatuses /\ evidence'[r] = Outcome(r)
  <2>1. CASE EndRow(r, goal[r], Outcome(r)) BY <1>0, <2>1, EndQuiet
  <2>2. CASE UNCHANGED <<db, evidence>> BY <1>0, <2>2 DEF db, RowsQuiet, RowKept, RowTypes
  <2> QED BY <1>1, <2>1, <2>2
<1>4. OneTask(r) /\ pc'[r] = "done" BY <1>0, <1>1, GotoFacts
<1> QED BY <1>0, <1>1, <1>2, <1>3, <1>4 DEF RestTypes

(* A repository call of the worker does not settle. *)
LEMMA HangSteps ==
  ASSUME ServiceTypes, NEW r \in Runs,
         AdmitHang(r) \/ StartRunHang(r) \/ AppendHang(r) \/ CommitHang(r)
  PROVE  \E call \in {"admit", "start", "append", "commit"}, op \in Ops :
           /\ WorkerHang(r, call, op) /\ pc[r] # "done"
           /\ op = "append" <=> pc[r] = "appending"
           /\ op \in DB!TerminalStatuses => pc[r] = "committing"
<1>1. goal[r] \in {"none", "completed", "failed"} BY DEF ServiceTypes
<1> QED BY <1>1 DEF AdmitHang, StartRunHang, AppendHang, CommitHang, Ops, DB!TerminalStatuses

(* The types, after the steps of a worker. *)
LEMMA WorkerTypes ==
  ASSUME ServiceTypes, NEW r \in Runs,
         Admission(r) \/ WorkerStep(r) \/ StreamItem(r) \/ Deadline(r)
  PROVE  ServiceTypes'
<1>1. CASE WorkerQuiet(r)
  BY <1>1 DEF WorkerQuiet, ServiceTypes, OneTask, RowTypes, RestTypes
<1>2. CASE WorkerTakesLock(r)
  <2>1. tlock' \in [Runs -> Runs \cup Cancellers \cup {Nil}]
    BY <1>2 DEF WorkerTakesLock, ServiceTypes
  <2> QED BY <1>2, <2>1 DEF WorkerTakesLock, ServiceTypes, OneTask
<1>3. CASE AppendEvent(r)
  <2>1. tlock' \in [Runs -> Runs \cup Cancellers \cup {Nil}]
    BY <1>3, AppendFacts, ReleaseFacts DEF ServiceTypes
  <2>2. /\ OneTask(r) /\ RowTypes' /\ RestTypes' /\ accepted' \in [Runs -> Nat]
        /\ UNCHANGED <<evidence, creq, quarantine, fatal>>
    BY <1>3, AppendFacts DEF health
  <2> QED BY <2>1, <2>2 DEF ServiceTypes, OneTask, RowTypes, RestTypes
<1>4. CASE CommitTerminal(r) \/ CommitFault(r)
  <2>1. tlock' \in [Runs -> Runs \cup Cancellers \cup {Nil}]
    BY <1>4, CommitFacts, ReleaseFacts DEF ServiceTypes
  <2>2. /\ OneTask(r) /\ RowTypes' /\ RestTypes' /\ (fatal => fatal')
        /\ UNCHANGED <<accepted, creq, quarantine>> /\ evidence' \in [Runs -> Snapshot \cup {Nil}]
    BY <1>4, CommitFacts
  <2> QED BY <2>1, <2>2 DEF ServiceTypes, OneTask, RowTypes, RestTypes
<1>5. CASE AdmitHang(r) \/ StartRunHang(r) \/ AppendHang(r) \/ CommitHang(r)
  <2>1. PICK call \in {"admit", "start", "append", "commit"}, op \in Ops : WorkerHang(r, call, op)
    BY <1>5, HangSteps
  <2>2. /\ OneTask(r) /\ fatal' = TRUE /\ quarantine' \subseteq LateCall
        /\ intent' \in [Runs -> BOOLEAN] /\ Release(r)
        /\ UNCHANGED <<status, log, evidence, goal, accepted, creq>>
    BY <2>1, HangFacts
  <2>3. tlock' \in [Runs -> Runs \cup Cancellers \cup {Nil}]
    BY <2>2, ReleaseFacts DEF ServiceTypes
  <2> QED BY <2>2, <2>3 DEF ServiceTypes, OneTask
<1> QED BY <1>1, <1>2, <1>3, <1>4, <1>5, OutsideSteps, EarlySteps, LockSteps DEF Admission, WorkerStep

(* Only request c goes elsewhere. *)
OneRequest(c) ==
  /\ creq' \in [Cancellers -> Request]
  /\ \A d \in Cancellers \ {c} : creq'[d] = creq[d]

(* A request finds the Run and asks its worker to stop. *)
LEMMA BeginFacts ==
  ASSUME ServiceTypes, NEW c \in Cancellers, NEW r \in Runs, NEW owner \in BOOLEAN,
         CancelBegin(c, r, owner)
  PROVE  /\ OneRequest(c) /\ creq[c].pc = "idle" /\ ~fatal
         /\ creq'[c].pc = (IF Live(r) THEN "settling" ELSE "calling")
         /\ creq'[c].run = r /\ creq'[c].owner = owner /\ ~creq'[c].snapshot.own
         /\ intent' \in [Runs -> BOOLEAN]
         /\ \A s \in Runs : intent'[s] => intent[s] \/ (s = r /\ Live(s))
         /\ UNCHANGED <<status, home, log, evidence, pc, goal, expired, accepted, tlock,
                        quarantine, unconfirmed, fatal, closed, up>>
<1>1. PICK label \in {"settling", "calling"} : label = IF Live(r) THEN "settling" ELSE "calling"
  OBVIOUS
<1> DEFINE q == [pc |-> label, run |-> r, owner |-> owner, snapshot |-> FreshEvidence,
                 reply |-> "none"]
<1>2. q \in Request /\ q.pc = label /\ q.run = r /\ q.owner = owner /\ ~q.snapshot.own
  BY DEF Request, Snapshot, FreshEvidence, Replies
<1>3. creq' = [creq EXCEPT ![c] = q] BY <1>1 DEF CancelBegin
<1> HIDE DEF q
<1>4. OneRequest(c) /\ creq'[c] = q BY <1>2, <1>3 DEF ServiceTypes, OneRequest
<1>5. /\ intent' \in [Runs -> BOOLEAN]
      /\ \A s \in Runs : intent'[s] => intent[s] \/ (s \in {r} /\ Live(s))
  <2>1. intent' = Requested({r}) BY DEF CancelBegin
  <2> QED BY <2>1, RequestedFacts DEF ServiceTypes
<1> QED BY <1>1, <1>2, <1>4, <1>5 DEF CancelBegin, db, health

(* settle_provider_usage_for_terminal *)
LEMMA SettleFacts ==
  ASSUME ServiceTypes, NEW c \in Cancellers, CancelSettle(c)
  PROVE  /\ OneRequest(c) /\ creq[c].pc = "settling"
         /\ \/ creq'[c].pc = "idle" /\ (fatal \/ <<"settle", "rollback">> \in Faults)
            \/ creq'[c].pc = "waiting" /\ creq'[c].run = creq[c].run /\ creq'[c].owner = creq[c].owner
         /\ UNCHANGED <<status, home, log, evidence, tasks, quarantine, unconfirmed, health>>
<1>1. UNCHANGED <<status, home, log, evidence, tasks, quarantine, unconfirmed, health>>
      /\ creq[c].pc = "settling"
  BY DEF CancelSettle, db
<1>2. CASE creq' = [creq EXCEPT ![c].pc = "waiting"]
  <2>1. [creq[c] EXCEPT !.pc = "waiting"] \in Request BY DEF ServiceTypes, Request
  <2>2. OneRequest(c) /\ creq'[c] = [creq[c] EXCEPT !.pc = "waiting"]
    BY <1>2, <2>1 DEF ServiceTypes, OneRequest
  <2>3. creq[c] \in Request BY DEF ServiceTypes
  <2> QED BY <1>1, <2>2, <2>3 DEF Request
<1>3. CASE Answered(c, "unavailable") /\ (fatal \/ <<"settle", "rollback">> \in Faults)
  BY <1>1, <1>3, AnsweredFacts DEF ServiceTypes, OneRequest, Replies
<1> QED BY <1>2, <1>3 DEF CancelSettle

(* The request gets the lock, and takes its snapshot under it. *)
LEMMA CancelLockFacts ==
  ASSUME ServiceTypes, NEW c \in Cancellers, CancelLocked(c)
  PROVE  /\ OneRequest(c) /\ creq[c].pc = "waiting" /\ tlock[creq[c].run] = Nil
         /\ \/ creq'[c].pc = "idle" /\ fatal /\ tlock' = tlock
            \/ /\ ~fatal /\ creq'[c].pc = "calling" /\ creq'[c].run = creq[c].run
               /\ creq'[c].owner = creq[c].owner
               /\ creq'[c].snapshot.sources = accepted[creq[c].run]
               /\ tlock' = [tlock EXCEPT ![creq[c].run] = c]
         /\ UNCHANGED <<status, home, log, evidence, pc, goal, intent, expired, accepted,
                        quarantine, unconfirmed, health>>
<1> DEFINE r == creq[c].run
<1>1. /\ UNCHANGED <<status, home, log, evidence, pc, goal, intent, expired, accepted,
                     quarantine, unconfirmed, health>>
      /\ creq[c].pc = "waiting" /\ tlock[r] = Nil
  BY DEF CancelLocked, db
<1>2. CASE fatal
  <2>1. Answered(c, "unavailable") /\ tlock' = tlock BY <1>2 DEF CancelLocked
  <2> QED BY <1>1, <1>2, <2>1, AnsweredFacts DEF ServiceTypes, OneRequest, Replies
<1>3. CASE ~fatal
  <2>1. creq[c] \in Request /\ r \in Runs BY <1>1 DEF ServiceTypes
  <2>2. PICK o \in Snapshot : o = Outcome(r) /\ o.sources = accepted[r] BY <2>1, OutcomeFacts
  <2> DEFINE q == [creq[c] EXCEPT !.pc = "calling", !.snapshot = o]
  <2>3. /\ q \in Request /\ q.pc = "calling" /\ q.run = creq[c].run /\ q.owner = creq[c].owner
        /\ q.snapshot = o
    BY <2>1 DEF Request
  <2>4. creq' = [creq EXCEPT ![c] = q]
    <3> DEFINE both == [creq EXCEPT ![c].pc = "calling", ![c].snapshot = o]
    <3>1. both = [creq EXCEPT ![c] = q] BY DEF ServiceTypes
    <3>2. creq' = both BY <1>3, <2>2 DEF CancelLocked
    <3> QED BY <3>1, <3>2
  <2>5. tlock' = [tlock EXCEPT ![r] = c] BY <1>3 DEF CancelLocked
  <2> HIDE DEF q
  <2>6. OneRequest(c) /\ creq'[c] = q BY <2>3, <2>4 DEF ServiceTypes, OneRequest
  <2> QED BY <1>1, <1>3, <2>2, <2>3, <2>5, <2>6
<1> QED BY <1>2, <1>3

(* repository.cancel_run returns, or raises. *)
LEMMA CancelFacts ==
  ASSUME ServiceTypes, NEW c \in Cancellers, CancelCommit(c) \/ CancelFault(c)
  PROVE  /\ OneRequest(c) /\ creq[c].pc = "calling" /\ creq'[c].pc = "idle" /\ Release(c)
         /\ creq[c].run \in Runs
         /\ \/ EndRow(creq[c].run, "cancelled", creq[c].snapshot)
            \/ /\ UNCHANGED <<db, evidence>>
               /\ ~creq[c].owner \/ <<"cancel", "rollback">> \in Faults
         /\ RowsQuiet /\ RowTypes' /\ evidence' \in [Runs -> Snapshot \cup {Nil}]
         /\ \A s \in Runs :
              \/ RowKept(s) /\ evidence'[s] = evidence[s]
              \/ /\ s = creq[c].run /\ status'[s] \in DB!TerminalStatuses
                 /\ evidence'[s] = creq[c].snapshot
         /\ UNCHANGED <<pc, goal, intent, expired, accepted, quarantine, fatal, closed, up>>
<1> DEFINE r == creq[c].run
           snapshot == creq[c].snapshot
<1>1. /\ UNCHANGED <<pc, goal, intent, expired, accepted, quarantine, fatal, closed, up>>
      /\ creq[c].pc = "calling" /\ Release(c)
      /\ \/ EndRow(r, "cancelled", snapshot)
         \/ /\ UNCHANGED <<db, evidence>>
            /\ ~creq[c].owner \/ <<"cancel", "rollback">> \in Faults
  BY DEF CancelCommit, CancelFault, health
<1>2. /\ r \in Runs /\ snapshot \in Snapshot /\ RowTypes
      /\ evidence \in [Runs -> Snapshot \cup {Nil}]
  BY <1>1 DEF ServiceTypes, Request, RowTypes
<1>3. OneRequest(c) /\ creq'[c].pc = "idle"
  <2>1. PICK reply \in Replies : Answered(c, reply) BY DEF CancelCommit, CancelFault, Replies
  <2> QED BY <2>1, AnsweredFacts DEF ServiceTypes, OneRequest
<1> HIDE DEF r, snapshot
<1>4. /\ RowsQuiet /\ RowTypes' /\ evidence' \in [Runs -> Snapshot \cup {Nil}]
      /\ \A s \in Runs : \/ RowKept(s) /\ evidence'[s] = evidence[s]
                         \/ s = r /\ status'[s] \in DB!TerminalStatuses /\ evidence'[s] = snapshot
  <2>1. CASE EndRow(r, "cancelled", snapshot) BY <1>2, <2>1, EndQuiet
  <2>2. CASE UNCHANGED <<db, evidence>> BY <1>2, <2>2 DEF db, RowsQuiet, RowKept, RowTypes
  <2> QED BY <1>1, <2>1, <2>2
<1> QED BY <1>1, <1>2, <1>3, <1>4 DEF r, snapshot

(* A settlement or a cancellation does not settle. *)
LEMMA CancelHangFacts ==
  ASSUME ServiceTypes, NEW c \in Cancellers, CancelHang(c)
  PROVE  /\ OneRequest(c) /\ creq'[c].pc = "idle" /\ Release(c) /\ fatal' = TRUE
         /\ \/ quarantine' = quarantine
            \/ /\ creq[c].pc = "calling" /\ creq[c].run \in Runs
               /\ quarantine' = quarantine \cup
                    {[run |-> creq[c].run, op |-> "cancelled", snapshot |-> creq[c].snapshot]}
         /\ quarantine' \subseteq LateCall
         /\ intent' \in [Runs -> BOOLEAN]
         /\ \A s \in Runs : intent'[s] => intent[s] \/ Live(s)
         /\ UNCHANGED <<status, home, log, evidence, pc, goal, expired, accepted, unconfirmed,
                        closed, up>>
<1>1. /\ fatal' = TRUE /\ Release(c) /\ Answered(c, "unavailable") /\ intent' = Requested(Runs \ {})
      /\ UNCHANGED <<status, home, log, evidence, pc, goal, expired, accepted, unconfirmed,
                     closed, up>>
  BY DEF CancelHang, MarkFatal, db
<1>2. OneRequest(c) /\ creq'[c].pc = "idle"
  BY <1>1, AnsweredFacts DEF ServiceTypes, OneRequest, Replies
<1>3. intent' \in [Runs -> BOOLEAN] /\ \A s \in Runs : intent'[s] => intent[s] \/ Live(s)
  BY <1>1, RequestedFacts DEF ServiceTypes
<1>4. CASE quarantine' = quarantine BY <1>1, <1>2, <1>3, <1>4 DEF ServiceTypes
<1>5. CASE quarantine' # quarantine
  <2> DEFINE q == [run |-> creq[c].run, op |-> "cancelled", snapshot |-> creq[c].snapshot]
  <2>1. /\ creq[c].pc = "calling"
        /\ quarantine' = quarantine \cup
             {[run |-> r, op |-> "cancelled", snapshot |-> creq[c].snapshot] :
                r \in {x \in {creq[c].run} : creq[c].owner}}
    BY <1>5 DEF CancelHang
  <2>2. creq[c].run \in Runs /\ creq[c] \in Request BY <2>1 DEF ServiceTypes
  <2>3. quarantine' = quarantine \cup {q} BY <1>5, <2>1
  <2>4. q \in LateCall BY <2>2 DEF LateCall, Request, Ops
  <2>5. quarantine' \subseteq LateCall BY <2>3, <2>4 DEF ServiceTypes
  <2> QED BY <1>1, <1>2, <1>3, <2>1, <2>2, <2>3, <2>5
<1> QED BY <1>4, <1>5

(* The types, after the steps of a cancel request. *)
LEMMA CancelTypes ==
  ASSUME ServiceTypes, NEW c \in Cancellers,
         \/ \E r \in Runs, owner \in BOOLEAN : CancelBegin(c, r, owner)
         \/ CancelStep(c)
  PROVE  ServiceTypes'
<1>1. ASSUME NEW r \in Runs, NEW owner \in BOOLEAN, CancelBegin(c, r, owner)
      PROVE  ServiceTypes'
  <2>1. /\ OneRequest(c) /\ creq'[c].run = r /\ intent' \in [Runs -> BOOLEAN]
        /\ UNCHANGED <<status, log, evidence, pc, goal, accepted, tlock, quarantine, fatal>>
    BY <1>1, BeginFacts
  <2> QED BY <2>1 DEF ServiceTypes, OneRequest
<1>2. CASE CancelSettle(c)
  <2>1. /\ OneRequest(c) /\ (creq'[c].pc = "idle" \/ creq'[c].run \in Runs)
        /\ UNCHANGED <<status, log, evidence, pc, goal, intent, accepted, tlock, quarantine, fatal>>
    BY <1>2, SettleFacts DEF tasks, health, ServiceTypes
  <2> QED BY <2>1 DEF ServiceTypes, OneRequest
<1>3. CASE CancelLocked(c)
  <2>1. /\ OneRequest(c) /\ (creq'[c].pc = "idle" \/ creq'[c].run \in Runs)
        /\ UNCHANGED <<status, log, evidence, pc, goal, intent, accepted, quarantine, fatal>>
        /\ tlock' = tlock \/ (creq[c].run \in Runs /\ tlock' = [tlock EXCEPT ![creq[c].run] = c])
    BY <1>3, CancelLockFacts DEF health, ServiceTypes
  <2>2. tlock' \in [Runs -> Runs \cup Cancellers \cup {Nil}] BY <2>1 DEF ServiceTypes
  <2> QED BY <2>1, <2>2 DEF ServiceTypes, OneRequest
<1>4. CASE CancelCommit(c) \/ CancelFault(c)
  <2>1. /\ OneRequest(c) /\ creq'[c].pc = "idle" /\ Release(c) /\ RowTypes'
        /\ evidence' \in [Runs -> Snapshot \cup {Nil}]
        /\ UNCHANGED <<pc, goal, intent, accepted, quarantine, fatal>>
    BY <1>4, CancelFacts
  <2>2. tlock' \in [Runs -> Runs \cup Cancellers \cup {Nil}] BY <2>1, ReleaseFacts DEF ServiceTypes
  <2> QED BY <2>1, <2>2 DEF ServiceTypes, OneRequest, RowTypes
<1>5. CASE CancelHang(c)
  <2>1. /\ OneRequest(c) /\ creq'[c].pc = "idle" /\ Release(c) /\ fatal' = TRUE
        /\ quarantine' \subseteq LateCall /\ intent' \in [Runs -> BOOLEAN]
        /\ UNCHANGED <<status, log, evidence, pc, goal, accepted>>
    BY <1>5, CancelHangFacts
  <2>2. tlock' \in [Runs -> Runs \cup Cancellers \cup {Nil}] BY <2>1, ReleaseFacts DEF ServiceTypes
  <2> QED BY <2>1, <2>2 DEF ServiceTypes, OneRequest
<1> QED BY <1>1, <1>2, <1>3, <1>4, <1>5 DEF CancelStep

(* A quarantined call settles. *)
LEMMA LateFacts ==
  ASSUME ServiceTypes, NEW q \in quarantine, QuarantineSettles(q)
  PROVE  /\ q \in LateCall /\ fatal /\ quarantine' = quarantine \ {q}
         /\ UNCHANGED <<pc, goal, intent, expired, tlock, creq, unconfirmed, fatal, closed, up>>
         /\ RowTypes' /\ accepted' \in [Runs -> Nat] /\ evidence' \in [Runs -> Snapshot \cup {Nil}]
         /\ \/ /\ accepted' = accepted /\ RowsQuiet
               /\ \A s \in Runs :
                    \/ evidence'[s] = evidence[s]
                    \/ /\ s = q.run /\ q.op \in DB!TerminalStatuses
                       /\ status'[s] \in DB!TerminalStatuses /\ evidence'[s] = q.snapshot
            \/ /\ q.op = "append" /\ status[q.run] = "running" /\ PublishRow(q.run)
               /\ accepted' = [accepted EXCEPT ![q.run] = @ + 1] /\ UNCHANGED evidence
<1>1. /\ q \in LateCall /\ fatal /\ quarantine' = quarantine \ {q} /\ q.run \in Runs
      /\ q.snapshot \in Snapshot
      /\ UNCHANGED <<pc, goal, intent, expired, tlock, creq, unconfirmed, fatal, closed, up>>
  BY DEF ServiceTypes, QuarantineSettles, LateCall, health
<1>2. RowTypes /\ accepted \in [Runs -> Nat] /\ evidence \in [Runs -> Snapshot \cup {Nil}]
  BY DEF ServiceTypes, RowTypes
<1>3. CASE UNCHANGED <<db, evidence, accepted>>
  BY <1>1, <1>2, <1>3 DEF db, RowTypes, RowsQuiet, RowKept
<1>4. CASE (\E t \in Threads : DB!Create(q.run, t)) /\ UNCHANGED <<evidence, accepted>>
  BY <1>1, <1>2, <1>4, CreateQuiet
<1>5. CASE StartRow(q.run) /\ UNCHANGED <<evidence, accepted>>
  BY <1>1, <1>2, <1>5, StartQuiet
<1>6. CASE /\ q.op = "append" /\ status[q.run] = "running" /\ PublishRow(q.run)
           /\ accepted' = [accepted EXCEPT ![q.run] = @ + 1] /\ UNCHANGED evidence
  BY <1>1, <1>2, <1>6, PublishFacts
<1>7. CASE q.op \in DB!TerminalStatuses /\ EndRow(q.run, q.op, q.snapshot) /\ UNCHANGED accepted
  <2>1. PICK run \in Runs, op \in Ops, snapshot \in Snapshot :
           run = q.run /\ op = q.op /\ snapshot = q.snapshot
    BY <1>1 DEF LateCall
  <2>2. EndRow(run, op, snapshot) BY <1>7, <2>1
  <2>3. /\ RowsQuiet /\ RowTypes' /\ evidence' \in [Runs -> Snapshot \cup {Nil}]
        /\ \A s \in Runs : \/ evidence'[s] = evidence[s]
                           \/ s = run /\ status'[s] \in DB!TerminalStatuses /\ evidence'[s] = snapshot
    BY <1>2, <2>2, EndQuiet
  <2> QED BY <1>1, <1>2, <1>7, <2>1, <2>3
<1> QED BY <1>3, <1>4, <1>5, <1>6, <1>7 DEF QuarantineSettles

(* Every task ends with the process. *)
LEMMA EndsFacts ==
  ASSUME ServiceTypes, ProcessEnds
  PROVE  /\ pc' \in [Runs -> Pcs] /\ intent' \in [Runs -> BOOLEAN]
         /\ \A r \in Runs : pc'[r] = IF pc[r] = "admitting" THEN "none"
                                     ELSE IF Live(r) THEN "done" ELSE pc[r]
         /\ tlock' \in [Runs -> Runs \cup Cancellers \cup {Nil}]
         /\ creq' \in [Cancellers -> Request] /\ \A c \in Cancellers : creq'[c].pc = "idle"
         /\ quarantine' = {} /\ \A r \in Runs : ~intent'[r]
         /\ up' = FALSE
         /\ UNCHANGED <<status, home, log, evidence, goal, accepted, unconfirmed>>
<1>1. NoCancel \in Request /\ NoCancel.pc = "idle"
  BY DEF NoCancel, Request, FreshEvidence, Snapshot, Replies
<1>2. creq' = [c \in Cancellers |-> NoCancel] BY DEF ProcessEnds
<1>3. creq' \in [Cancellers -> Request] /\ \A c \in Cancellers : creq'[c].pc = "idle"
  BY <1>1, <1>2
<1>4. /\ pc' \in [Runs -> Pcs]
      /\ \A r \in Runs : pc'[r] = IF pc[r] = "admitting" THEN "none"
                                  ELSE IF Live(r) THEN "done" ELSE pc[r]
  BY DEF ProcessEnds, ServiceTypes, Pcs
<1> QED BY <1>3, <1>4 DEF ProcessEnds, db

(* The sweep of the next process. *)
LEMMA RestartFacts ==
  ASSUME ServiceTypes, Restart
  PROVE  /\ RowsQuiet /\ RowTypes' /\ ~up
         /\ \A r \in Runs : status'[r] = IF Active(r) THEN "failed" ELSE status[r]
         /\ evidence' \in [Runs -> Snapshot \cup {Nil}]
         /\ \A r \in Runs : evidence'[r] = IF Active(r) THEN [own |-> TRUE, sources |-> Published(r)]
                                                        ELSE evidence[r]
         /\ UNCHANGED <<tasks, creq, quarantine, unconfirmed, fatal, closed>>
<1>1. RowTypes /\ evidence \in [Runs -> Snapshot \cup {Nil}] BY DEF ServiceTypes, RowTypes
<1>2. /\ RowsQuiet /\ RowTypes'
      /\ \A r \in Runs : status'[r] = IF Active(r) THEN "failed" ELSE status[r]
  <2>1. CASE \E r \in Runs : Active(r)
    BY <1>1, <2>1, OrphansQuiet DEF Restart
  <2>2. CASE ~\E r \in Runs : Active(r)
    BY <1>1, <2>2 DEF Restart, db, RowsQuiet, RowKept, RowTypes
  <2> QED BY <2>1, <2>2
<1>3. \A r \in Runs : Published(r) \in Nat
  BY <1>1, RuntimeFinite DEF RowTypes, Published, Count, Runtime
<1>4. \A r \in Runs : [own |-> TRUE, sources |-> Published(r)] \in Snapshot
  BY <1>3 DEF Snapshot
<1>5. evidence' = [r \in Runs |-> IF Active(r) THEN [own |-> TRUE, sources |-> Published(r)]
                                              ELSE evidence[r]]
  BY DEF Restart
<1>6. evidence' \in [Runs -> Snapshot \cup {Nil}] BY <1>1, <1>4, <1>5
<1> QED BY <1>2, <1>5, <1>6 DEF Restart

(* The types are an invariant by themselves. *)
LEMMA TypesStep ==
  ASSUME ServiceTypes, [Next]_vars
  PROVE  ServiceTypes'
<1>1. CASE UNCHANGED vars BY <1>1 DEF vars, db, tasks, health, ServiceTypes
<1>2. ASSUME NEW r \in Runs, Admission(r) \/ WorkerStep(r) \/ StreamItem(r) \/ Deadline(r)
      PROVE  ServiceTypes'
  BY <1>2, WorkerTypes
<1>3. ASSUME NEW c \in Cancellers,
             \/ \E r \in Runs, owner \in IF Strangers THEN BOOLEAN ELSE {TRUE} :
                  CancelBegin(c, r, owner)
             \/ CancelStep(c)
      PROVE  ServiceTypes'
  <2>1. (IF Strangers THEN BOOLEAN ELSE {TRUE}) \subseteq BOOLEAN OBVIOUS
  <2> QED BY <1>3, <2>1, CancelTypes
<1>4. ASSUME NEW q \in quarantine, QuarantineSettles(q) PROVE ServiceTypes'
  <2>1. /\ quarantine' = quarantine \ {q} /\ fatal /\ RowTypes' /\ accepted' \in [Runs -> Nat]
        /\ evidence' \in [Runs -> Snapshot \cup {Nil}]
        /\ UNCHANGED <<pc, goal, intent, tlock, creq, fatal>>
    BY <1>4, LateFacts
  <2> QED BY <2>1 DEF ServiceTypes, RowTypes
<1>5. CASE Shutdown
  <2>1. intent' \in [Runs -> BOOLEAN] BY <1>5, RequestedFacts DEF Shutdown, ServiceTypes
  <2> QED BY <1>5, <2>1 DEF Shutdown, ServiceTypes, db
<1>6. CASE ProcessEnds
  <2>1. /\ pc' \in [Runs -> Pcs] /\ intent' \in [Runs -> BOOLEAN]
        /\ tlock' \in [Runs -> Runs \cup Cancellers \cup {Nil}]
        /\ creq' \in [Cancellers -> Request] /\ \A c \in Cancellers : creq'[c].pc = "idle"
        /\ quarantine' = {} /\ UNCHANGED <<status, log, evidence, goal, accepted>>
    BY <1>6, EndsFacts
  <2> QED BY <2>1 DEF ServiceTypes
<1>7. CASE Restart
  <2>1. /\ RowTypes' /\ evidence' \in [Runs -> Snapshot \cup {Nil}]
        /\ UNCHANGED <<pc, goal, intent, accepted, tlock, creq, quarantine, fatal>>
    BY <1>7, RestartFacts DEF tasks
  <2> QED BY <2>1 DEF ServiceTypes, RowTypes
<1> QED BY <1>1, <1>2, <1>3, <1>4, <1>5, <1>6, <1>7 DEF Next

(* The types hold at first. *)
LEMMA TypesInit ==
  ASSUME Init
  PROVE  ServiceTypes
<1>1. NoCancel \in Request /\ NoCancel.pc = "idle"
  BY DEF NoCancel, Request, FreshEvidence, Snapshot, Replies
<1>2. creq \in [Cancellers -> Request] /\ \A c \in Cancellers : creq[c].pc = "idle"
  BY <1>1 DEF Init
<1>3. status \in [Runs -> DB!Statuses] /\ log \in [Runs -> Seq(DB!EventTypes)]
  BY DEF Init, DB!Init, DB!Statuses
<1> QED BY <1>2, <1>3 DEF Init, ServiceTypes, Pcs

-----------------------------------------------------------------------------
(* The evidence *)

EvidenceClauses == LocksHeld /\ LedgerMatchesLog /\ SnapshotsCurrent /\ EvidenceKept

(* Steps without a published event. *)
LEMMA QuietKeeps ==
  ASSUME EvidenceInvariant, RowsQuiet, accepted' = accepted,
         \A r \in Runs :
           \/ evidence'[r] = evidence[r]
           \/ /\ status'[r] \in DB!TerminalStatuses
              /\ evidence'[r].own => evidence'[r].sources = accepted[r]
  PROVE  LedgerMatchesLog' /\ EvidenceKept'
<1>1. LedgerMatchesLog'
  <2>1. ASSUME NEW r \in Runs PROVE Count(log'[r]) = accepted'[r]
    <3>1. accepted[r] = Count(log[r])
      BY DEF EvidenceInvariant, LedgerMatchesLog, Published, Count, Runtime
    <3> QED BY <3>1 DEF RowsQuiet, RowKept, RowMoved
  <2> QED BY <2>1 DEF LedgerMatchesLog, Published, Count, Runtime
<1>2. EvidenceKept'
  <2> SUFFICES ASSUME NEW r \in Runs, evidence'[r] # Nil, evidence'[r].own
               PROVE  evidence'[r].sources = accepted'[r] /\ status'[r] \in DB!TerminalStatuses
    BY DEF EvidenceKept
  <2>1. CASE evidence'[r] = evidence[r]
    BY <2>1 DEF EvidenceInvariant, EvidenceKept, RowsQuiet, RowKept, RowMoved
  <2>2. CASE evidence'[r] # evidence[r] BY <2>2
  <2> QED BY <2>1, <2>2
<1> QED BY <1>1, <1>2

(* An event is published and confirmed. *)
LEMMA ConfirmKeeps ==
  ASSUME EvidenceInvariant, NEW r \in Runs, status[r] = "running", PublishRow(r),
         accepted' = [accepted EXCEPT ![r] = @ + 1], evidence' = evidence
  PROVE  LedgerMatchesLog' /\ EvidenceKept'
<1>1. /\ status'[r] = status[r] /\ Count(log'[r]) = Count(log[r]) + 1
      /\ \A s \in Runs \ {r} : RowKept(s)
  BY PublishFacts DEF EvidenceInvariant, ServiceTypes, RowTypes
<1>2. /\ accepted'[r] = accepted[r] + 1 /\ \A s \in Runs \ {r} : accepted'[s] = accepted[s]
  BY DEF EvidenceInvariant, ServiceTypes
<1>3. LedgerMatchesLog'
  <2>1. ASSUME NEW s \in Runs PROVE Count(log'[s]) = accepted'[s]
    <3>1. accepted[s] = Count(log[s])
      BY DEF EvidenceInvariant, LedgerMatchesLog, Published, Count, Runtime
    <3> QED BY <1>1, <1>2, <3>1 DEF RowKept
  <2> QED BY <2>1 DEF LedgerMatchesLog, Published, Count, Runtime
<1>4. EvidenceKept'
  <2> SUFFICES ASSUME NEW s \in Runs, evidence[s] # Nil, evidence[s].own
               PROVE  evidence[s].sources = accepted'[s] /\ status'[s] \in DB!TerminalStatuses
    BY DEF EvidenceKept
  <2>1. evidence[s].sources = accepted[s] /\ status[s] \in DB!TerminalStatuses
    BY DEF EvidenceInvariant, EvidenceKept
  <2>2. s # r BY <2>1 DEF DB!TerminalStatuses
  <2> QED BY <1>1, <1>2, <2>1, <2>2 DEF RowKept
<1> QED BY <1>3, <1>4

(* Steps of a worker that neither take nor give a lock. *)
LEMMA WorkerMoves ==
  ASSUME EvidenceInvariant, NEW r \in Runs, WorkerQuiet(r)
  PROVE  EvidenceClauses'
<1> USE DEF WorkerQuiet
<1>1. LocksHeld' BY DEF EvidenceInvariant, LocksHeld, OneTask
<1>2. SnapshotsCurrent'
  <2>1. \A q \in quarantine : q.op = "append" => pc'[q.run] = "done"
    BY DEF EvidenceInvariant, SnapshotsCurrent, ServiceTypes, LateCall, OneTask
  <2>2. \A q \in quarantine :
          q.op \in DB!TerminalStatuses /\ q.snapshot.own => pc'[q.run] # "appending"
    BY DEF EvidenceInvariant, SnapshotsCurrent, ServiceTypes, LateCall, OneTask
  <2> QED BY <2>1, <2>2 DEF EvidenceInvariant, SnapshotsCurrent
<1>3. LedgerMatchesLog' /\ EvidenceKept' BY QuietKeeps
<1> QED BY <1>1, <1>2, <1>3 DEF EvidenceClauses

(* A worker takes the lock of its Run, while nothing is quarantined. *)
LEMMA WorkerLocks ==
  ASSUME EvidenceInvariant, NEW r \in Runs, WorkerTakesLock(r)
  PROVE  EvidenceClauses'
<1> USE DEF WorkerTakesLock
<1>1. quarantine = {} BY DEF EvidenceInvariant, ServiceTypes
<1>2. tlock'[r] = r /\ \A s \in Runs \ {r} : tlock'[s] = tlock[s]
  BY DEF EvidenceInvariant, ServiceTypes
<1>3. LocksHeld'
  <2>1. \A s \in Runs : pc'[s] \in {"appending", "committing"} => tlock'[s] = s
    BY <1>2 DEF EvidenceInvariant, LocksHeld, OneTask
  <2>2. ASSUME NEW c \in Cancellers, creq[c].pc = "calling", creq[c].snapshot.own
        PROVE  tlock'[creq[c].run] = c
    <3>1. tlock[creq[c].run] = c /\ creq[c].run \in Runs /\ c # Nil
      BY <2>2, ServiceAssumption DEF EvidenceInvariant, LocksHeld, ServiceTypes
    <3> QED BY <1>2, <3>1
  <2> QED BY <2>1, <2>2 DEF LocksHeld
<1>4. SnapshotsCurrent' BY <1>1 DEF EvidenceInvariant, SnapshotsCurrent
<1>5. RowsQuiet BY DEF RowsQuiet, RowKept
<1>6. LedgerMatchesLog' /\ EvidenceKept' BY <1>5, QuietKeeps
<1> QED BY <1>3, <1>4, <1>6 DEF EvidenceClauses

(* A worker gives its lock back. *)
LEMMA WorkerReleases ==
  ASSUME EvidenceInvariant, NEW r \in Runs, OneTask(r), Release(r),
         pc'[r] \notin {"appending", "committing"}, UNCHANGED creq
  PROVE  LocksHeld'
<1>1. \A s \in Runs : tlock[s] # r => tlock'[s] = tlock[s]
  BY ReleaseFacts DEF EvidenceInvariant, ServiceTypes
<1>2. \A s \in Runs : pc'[s] \in {"appending", "committing"} => tlock'[s] = s
  BY <1>1 DEF EvidenceInvariant, LocksHeld, OneTask
<1>3. ASSUME NEW c \in Cancellers, creq[c].pc = "calling", creq[c].snapshot.own
      PROVE  tlock'[creq[c].run] = c
  <2>1. tlock[creq[c].run] = c /\ creq[c].run \in Runs /\ c # r
    BY <1>3, ServiceAssumption DEF EvidenceInvariant, LocksHeld, ServiceTypes
  <2> QED BY <1>1, <2>1
<1> QED BY <1>2, <1>3 DEF LocksHeld

(* A worker that writes excludes requests with a snapshot of its Run. *)
LEMMA WriterExcludes ==
  ASSUME EvidenceInvariant, NEW r \in Runs, pc[r] \in {"appending", "committing"},
         NEW c \in Cancellers, creq[c].pc = "calling", creq[c].snapshot.own
  PROVE  creq[c].run # r
<1>1. tlock[r] = r /\ tlock[creq[c].run] = c /\ r # c
  BY ServiceAssumption DEF EvidenceInvariant, LocksHeld
<1> QED BY <1>1

(* append_and_confirm: the worker holds the lock, so no snapshot is in use. *)
LEMMA AppendStep ==
  ASSUME EvidenceInvariant, <<"append", "late_commit">> \notin Faults, NEW r \in Runs,
         AppendEvent(r)
  PROVE  EvidenceClauses'
<1>0. ServiceTypes BY DEF EvidenceInvariant
<1>1. /\ OneTask(r) /\ pc[r] = "appending" /\ pc'[r] \in {"streaming", "finishing", "done"}
      /\ Release(r) /\ UNCHANGED <<evidence, creq, quarantine>>
  BY <1>0, AppendFacts
<1>2. LocksHeld' BY <1>1, WorkerReleases
<1>3. CASE UNCHANGED <<db, accepted>>
  <2>1. RowsQuiet BY <1>3 DEF db, RowsQuiet, RowKept
  <2>2. LedgerMatchesLog' /\ EvidenceKept' BY <1>1, <1>3, <2>1, QuietKeeps
  <2>3. SnapshotsCurrent'
    BY <1>0, <1>1, <1>3 DEF EvidenceInvariant, SnapshotsCurrent, OneTask, ServiceTypes, LateCall
  <2> QED BY <1>2, <2>2, <2>3 DEF EvidenceClauses
<1>4. CASE PublishRow(r) /\ status[r] = "running" /\ accepted' = [accepted EXCEPT ![r] = @ + 1]
  <2>1. LedgerMatchesLog' /\ EvidenceKept' BY <1>1, <1>4, ConfirmKeeps
  <2>2. \A s \in Runs \ {r} : accepted'[s] = accepted[s] BY <1>0, <1>4 DEF ServiceTypes
  <2>3. ASSUME NEW c \in Cancellers, creq[c].pc = "calling", creq[c].snapshot.own
        PROVE  creq[c].run \in Runs \ {r}
    BY <1>0, <1>1, <2>3, WriterExcludes DEF ServiceTypes
  <2>4. \A q \in quarantine : q.op = "append" => pc'[q.run] = "done"
    BY <1>0, <1>1 DEF EvidenceInvariant, SnapshotsCurrent, OneTask, ServiceTypes, LateCall
  <2>5. \A q \in quarantine : q.op \in DB!TerminalStatuses /\ q.snapshot.own =>
                                q.run \in Runs \ {r} /\ pc'[q.run] # "appending"
    BY <1>0, <1>1 DEF EvidenceInvariant, SnapshotsCurrent, OneTask, ServiceTypes, LateCall
  <2>6. SnapshotsCurrent'
    BY <1>1, <2>2, <2>3, <2>4, <2>5 DEF EvidenceInvariant, SnapshotsCurrent
  <2> QED BY <1>2, <2>1, <2>6 DEF EvidenceClauses
<1>5. UNCHANGED <<db, accepted>>
      \/ (PublishRow(r) /\ status[r] = "running" /\ accepted' = [accepted EXCEPT ![r] = @ + 1])
  <2>1. CASE status[r] = "running" BY <2>1 DEF AppendEvent
  <2>2. CASE status[r] # "running" BY <2>2 DEF AppendEvent, PublishRow
  <2> QED BY <2>1, <2>2
<1> QED BY <1>3, <1>4, <1>5

(* complete_run and fail_run *)
LEMMA CommitStep ==
  ASSUME EvidenceInvariant, NEW r \in Runs, CommitTerminal(r) \/ CommitFault(r)
  PROVE  EvidenceClauses'
<1>0. ServiceTypes BY DEF EvidenceInvariant
<1>1. /\ OneTask(r) /\ pc[r] = "committing" /\ pc'[r] = "done" /\ Release(r)
      /\ UNCHANGED <<accepted, creq, quarantine>> /\ RowsQuiet
      /\ \A s \in Runs \ {r} : evidence'[s] = evidence[s]
      /\ \/ evidence'[r] = evidence[r]
         \/ status'[r] \in DB!TerminalStatuses /\ evidence'[r] = Outcome(r)
  BY <1>0, CommitFacts
<1>2. LocksHeld' BY <1>1, WorkerReleases
<1>3. Outcome(r).sources = accepted[r] BY <1>0, OutcomeFacts
<1>4. LedgerMatchesLog' /\ EvidenceKept' BY <1>1, <1>3, QuietKeeps
<1>5. SnapshotsCurrent'
  BY <1>0, <1>1 DEF EvidenceInvariant, SnapshotsCurrent, OneTask, ServiceTypes, LateCall
<1> QED BY <1>2, <1>4, <1>5 DEF EvidenceClauses

(* A repository call of the worker is quarantined with the lock given back. *)
LEMMA HangStep ==
  ASSUME EvidenceInvariant, NEW r \in Runs,
         AdmitHang(r) \/ StartRunHang(r) \/ AppendHang(r) \/ CommitHang(r)
  PROVE  EvidenceClauses'
<1>0. ServiceTypes BY DEF EvidenceInvariant
<1>1. PICK call \in {"admit", "start", "append", "commit"}, op \in Ops :
        /\ WorkerHang(r, call, op) /\ pc[r] # "done"
        /\ op = "append" <=> pc[r] = "appending"
        /\ op \in DB!TerminalStatuses => pc[r] = "committing"
  BY <1>0, HangSteps
<1>2. /\ OneTask(r) /\ pc'[r] = "done" /\ Release(r)
      /\ UNCHANGED <<status, log, evidence, accepted, creq>>
  BY <1>0, <1>1, HangFacts
<1>3. PICK snapshot \in Snapshot :
        /\ snapshot.sources = accepted[r]
        /\ quarantine' = quarantine \cup {[run |-> r, op |-> op, snapshot |-> snapshot]}
  BY <1>0, <1>1, HangFacts
<1> DEFINE new == [run |-> r, op |-> op, snapshot |-> snapshot]
<1>4. new.run = r /\ new.op = op /\ new.snapshot = snapshot /\ quarantine' = quarantine \cup {new}
  BY <1>3
<1> HIDE DEF new
<1>5. LocksHeld' BY <1>2, WorkerReleases
<1>6. RowsQuiet BY <1>2 DEF RowsQuiet, RowKept
<1>7. LedgerMatchesLog' /\ EvidenceKept' BY <1>2, <1>6, QuietKeeps
<1>8. SnapshotsCurrent'
  <2>1. ASSUME NEW c \in Cancellers, creq[c].pc = "calling", creq[c].snapshot.own
        PROVE  /\ creq[c].snapshot.sources = accepted[creq[c].run]
               /\ \A q \in quarantine' : q.op = "append" => q.run # creq[c].run
    <3>1. op = "append" => r # creq[c].run BY <1>1, <2>1, WriterExcludes
    <3> QED BY <1>4, <2>1, <3>1 DEF EvidenceInvariant, SnapshotsCurrent
  <2>2. \A q \in quarantine' : q.op = "append" => pc'[q.run] = "done"
    BY <1>0, <1>2, <1>4 DEF EvidenceInvariant, SnapshotsCurrent, ServiceTypes, LateCall, OneTask
  <2>3. ASSUME NEW q \in quarantine', q.op \in DB!TerminalStatuses, q.snapshot.own
        PROVE  /\ q.snapshot.sources = accepted[q.run] /\ pc'[q.run] # "appending"
               /\ \A p \in quarantine' : p.op = "append" => p.run # q.run
    <3>1. CASE q \in quarantine
      <4>1. /\ q.snapshot.sources = accepted[q.run] /\ pc[q.run] # "appending" /\ q.run \in Runs
            /\ \A p \in quarantine : p.op = "append" => p.run # q.run
        BY <1>0, <2>3, <3>1 DEF EvidenceInvariant, SnapshotsCurrent, ServiceTypes, LateCall
      <4>2. op = "append" => q.run # r BY <1>1, <4>1
      <4> QED BY <1>2, <1>4, <4>1, <4>2 DEF OneTask
    <3>2. CASE q = new
      <4>1. \A p \in quarantine : p.op = "append" => p.run # r
        BY <1>1 DEF EvidenceInvariant, SnapshotsCurrent
      <4>2. op # "append" BY <1>1, <1>4, <2>3, <3>2
      <4> QED BY <1>2, <1>3, <1>4, <3>2, <4>1, <4>2
    <3> QED BY <1>4, <3>1, <3>2
  <2> QED BY <1>2, <2>1, <2>2, <2>3 DEF SnapshotsCurrent
<1> QED BY <1>5, <1>7, <1>8 DEF EvidenceClauses

(* The steps of a worker. *)
LEMMA WorkerEvidence ==
  ASSUME EvidenceInvariant, <<"append", "late_commit">> \notin Faults, NEW r \in Runs,
         Admission(r) \/ WorkerStep(r) \/ StreamItem(r) \/ Deadline(r)
  PROVE  EvidenceClauses'
<1>0. ServiceTypes BY DEF EvidenceInvariant
<1>1. CASE WorkerQuiet(r) BY <1>1, WorkerMoves
<1>2. CASE WorkerTakesLock(r) BY <1>2, WorkerLocks
<1>3. CASE AppendEvent(r) BY <1>3, AppendStep
<1>4. CASE CommitTerminal(r) \/ CommitFault(r) BY <1>4, CommitStep
<1>5. CASE AdmitHang(r) \/ StartRunHang(r) \/ AppendHang(r) \/ CommitHang(r) BY <1>5, HangStep
<1> QED BY <1>0, <1>1, <1>2, <1>3, <1>4, <1>5, OutsideSteps, EarlySteps, LockSteps
        DEF Admission, WorkerStep

(* A request gives its lock back. *)
LEMMA CancelReleases ==
  ASSUME EvidenceInvariant, NEW c \in Cancellers, OneRequest(c), Release(c),
         creq'[c].pc # "calling", UNCHANGED pc
  PROVE  LocksHeld'
<1>1. \A s \in Runs : tlock[s] # c => tlock'[s] = tlock[s]
  BY ReleaseFacts DEF EvidenceInvariant, ServiceTypes
<1>2. \A s \in Runs : pc'[s] \in {"appending", "committing"} => tlock'[s] = s
  BY <1>1, ServiceAssumption DEF EvidenceInvariant, LocksHeld
<1>3. ASSUME NEW d \in Cancellers, creq'[d].pc = "calling", creq'[d].snapshot.own
      PROVE  tlock'[creq'[d].run] = d
  <2>1. d # c /\ creq'[d] = creq[d] BY <1>3 DEF OneRequest
  <2>2. tlock[creq[d].run] = d /\ creq[d].run \in Runs
    BY <1>3, <2>1 DEF EvidenceInvariant, LocksHeld, ServiceTypes
  <2> QED BY <1>1, <2>1, <2>2
<1> QED BY <1>2, <1>3 DEF LocksHeld

(* A request moves without a lock, and without a snapshot of the ledger. *)
LEMMA CancelMoves ==
  ASSUME EvidenceInvariant, NEW c \in Cancellers, OneRequest(c),
         ~(creq'[c].pc = "calling" /\ creq'[c].snapshot.own),
         UNCHANGED <<status, log, evidence, pc, accepted, tlock, quarantine>>
  PROVE  EvidenceClauses'
<1>1. LocksHeld' BY DEF EvidenceInvariant, LocksHeld, OneRequest
<1>2. SnapshotsCurrent' BY DEF EvidenceInvariant, SnapshotsCurrent, OneRequest
<1>3. RowsQuiet BY DEF RowsQuiet, RowKept
<1>4. LedgerMatchesLog' /\ EvidenceKept' BY <1>3, QuietKeeps
<1> QED BY <1>1, <1>2, <1>4 DEF EvidenceClauses

(* The steps of a request. *)
LEMMA CancelEvidence ==
  ASSUME EvidenceInvariant, NEW c \in Cancellers,
         \/ \E r \in Runs, owner \in BOOLEAN : CancelBegin(c, r, owner)
         \/ CancelStep(c)
  PROVE  EvidenceClauses'
<1>0. ServiceTypes BY DEF EvidenceInvariant
<1>1. ASSUME NEW r \in Runs, NEW owner \in BOOLEAN, CancelBegin(c, r, owner)
      PROVE  EvidenceClauses'
  <2>1. /\ OneRequest(c) /\ ~creq'[c].snapshot.own
        /\ UNCHANGED <<status, log, evidence, pc, accepted, tlock, quarantine>>
    BY <1>0, <1>1, BeginFacts
  <2> QED BY <2>1, CancelMoves
<1>2. CASE CancelSettle(c)
  <2>1. /\ OneRequest(c) /\ creq'[c].pc # "calling"
        /\ UNCHANGED <<status, log, evidence, pc, accepted, tlock, quarantine>>
    BY <1>0, <1>2, SettleFacts DEF tasks
  <2> QED BY <2>1, CancelMoves
<1>3. CASE CancelLocked(c)
  <2>1. /\ OneRequest(c) /\ creq[c].pc = "waiting" /\ tlock[creq[c].run] = Nil
        /\ creq[c].run \in Runs
        /\ UNCHANGED <<status, log, evidence, pc, accepted, quarantine>>
    BY <1>0, <1>3, CancelLockFacts DEF ServiceTypes
  <2>2. CASE creq'[c].pc = "idle" /\ tlock' = tlock BY <2>1, <2>2, CancelMoves
  <2>3. CASE /\ ~fatal /\ creq'[c].pc = "calling" /\ creq'[c].run = creq[c].run
             /\ creq'[c].snapshot.sources = accepted[creq[c].run]
             /\ tlock' = [tlock EXCEPT ![creq[c].run] = c]
    <3>1. /\ tlock'[creq[c].run] = c
          /\ \A s \in Runs : s # creq[c].run => tlock'[s] = tlock[s]
      BY <1>0, <2>1, <2>3 DEF ServiceTypes
    <3>2. \A s \in Runs : pc'[s] \in {"appending", "committing"} => tlock'[s] = s
      BY <2>1, <3>1, ServiceAssumption DEF EvidenceInvariant, LocksHeld
    <3>3. ASSUME NEW d \in Cancellers, creq'[d].pc = "calling", creq'[d].snapshot.own
          PROVE  tlock'[creq'[d].run] = d
      <4>1. CASE d = c BY <2>3, <3>1, <4>1
      <4>2. CASE d # c
        <5>1. creq'[d] = creq[d] BY <2>1, <4>2 DEF OneRequest
        <5>2. tlock[creq[d].run] = d /\ creq[d].run \in Runs /\ d # Nil
          BY <1>0, <3>3, <5>1, ServiceAssumption DEF EvidenceInvariant, LocksHeld, ServiceTypes
        <5> QED BY <2>1, <3>1, <5>1, <5>2
      <4> QED BY <4>1, <4>2
    <3>4. LocksHeld' BY <3>2, <3>3 DEF LocksHeld
    <3>5. quarantine = {} BY <1>0, <2>3 DEF ServiceTypes
    <3>6. SnapshotsCurrent'
      BY <2>1, <2>3, <3>5 DEF EvidenceInvariant, SnapshotsCurrent, OneRequest
    <3>7. RowsQuiet BY <2>1 DEF RowsQuiet, RowKept
    <3>8. LedgerMatchesLog' /\ EvidenceKept' BY <2>1, <3>7, QuietKeeps
    <3> QED BY <3>4, <3>6, <3>8 DEF EvidenceClauses
  <2> QED BY <1>0, <1>3, <2>2, <2>3, CancelLockFacts
<1>4. CASE CancelCommit(c) \/ CancelFault(c)
  <2>1. /\ OneRequest(c) /\ creq[c].pc = "calling" /\ creq'[c].pc = "idle" /\ Release(c)
        /\ RowsQuiet /\ UNCHANGED <<pc, accepted, quarantine>>
        /\ \A s \in Runs :
             \/ evidence'[s] = evidence[s]
             \/ /\ s = creq[c].run /\ status'[s] \in DB!TerminalStatuses
                /\ evidence'[s] = creq[c].snapshot
    BY <1>0, <1>4, CancelFacts
  <2>2. LocksHeld' BY <2>1, CancelReleases
  <2>3. creq[c].snapshot.own => creq[c].snapshot.sources = accepted[creq[c].run]
    BY <2>1 DEF EvidenceInvariant, SnapshotsCurrent
  <2>4. LedgerMatchesLog' /\ EvidenceKept' BY <2>1, <2>3, QuietKeeps
  <2>5. SnapshotsCurrent' BY <2>1 DEF EvidenceInvariant, SnapshotsCurrent, OneRequest
  <2> QED BY <2>2, <2>4, <2>5 DEF EvidenceClauses
<1>5. CASE CancelHang(c)
  <2>1. /\ OneRequest(c) /\ creq'[c].pc = "idle" /\ Release(c)
        /\ UNCHANGED <<status, log, evidence, pc, accepted>>
    BY <1>0, <1>5, CancelHangFacts
  <2>2. LocksHeld' BY <2>1, CancelReleases
  <2>3. RowsQuiet BY <2>1 DEF RowsQuiet, RowKept
  <2>4. LedgerMatchesLog' /\ EvidenceKept' BY <2>1, <2>3, QuietKeeps
  <2>5. CASE quarantine' = quarantine
    <3>1. SnapshotsCurrent' BY <2>1, <2>5 DEF EvidenceInvariant, SnapshotsCurrent, OneRequest
    <3> QED BY <2>2, <2>4, <3>1 DEF EvidenceClauses
  <2>6. CASE /\ creq[c].pc = "calling" /\ creq[c].run \in Runs
             /\ quarantine' = quarantine \cup
                  {[run |-> creq[c].run, op |-> "cancelled", snapshot |-> creq[c].snapshot]}
    <3> DEFINE new == [run |-> creq[c].run, op |-> "cancelled", snapshot |-> creq[c].snapshot]
    <3>1. /\ new.run = creq[c].run /\ new.op = "cancelled" /\ new.snapshot = creq[c].snapshot
          /\ quarantine' = quarantine \cup {new}
      BY <2>6
    <3> HIDE DEF new
    <3>2. new.snapshot.own =>
            /\ new.snapshot.sources = accepted[new.run] /\ pc[new.run] # "appending"
            /\ \A p \in quarantine : p.op = "append" => p.run # new.run
      BY <2>6, <3>1, WriterExcludes DEF EvidenceInvariant, SnapshotsCurrent
    <3>3. SnapshotsCurrent'
      <4>1. \A d \in Cancellers :
              creq'[d].pc = "calling" /\ creq'[d].snapshot.own =>
                /\ creq'[d].snapshot.sources = accepted[creq'[d].run]
                /\ \A q \in quarantine' : q.op = "append" => q.run # creq'[d].run
        BY <2>1, <3>1 DEF EvidenceInvariant, SnapshotsCurrent, OneRequest
      <4>2. \A q \in quarantine' : q.op = "append" => pc[q.run] = "done"
        BY <3>1 DEF EvidenceInvariant, SnapshotsCurrent
      <4>3. \A q \in quarantine' :
              q.op \in DB!TerminalStatuses /\ q.snapshot.own =>
                /\ q.snapshot.sources = accepted[q.run] /\ pc[q.run] # "appending"
                /\ \A p \in quarantine' : p.op = "append" => p.run # q.run
        BY <3>1, <3>2 DEF EvidenceInvariant, SnapshotsCurrent
      <4> QED BY <2>1, <4>1, <4>2, <4>3 DEF SnapshotsCurrent
    <3> QED BY <2>2, <2>4, <3>3 DEF EvidenceClauses
  <2> QED BY <1>0, <1>5, <2>5, <2>6, CancelHangFacts
<1> QED BY <1>1, <1>2, <1>3, <1>4, <1>5 DEF CancelStep

(* A quarantined call settles: if it appends, no snapshot of its Run is in use. *)
LEMMA LateEvidence ==
  ASSUME EvidenceInvariant, NEW q \in quarantine, QuarantineSettles(q)
  PROVE  EvidenceClauses'
<1>0. ServiceTypes BY DEF EvidenceInvariant
<1>1. /\ q \in LateCall /\ q.run \in Runs /\ quarantine' = quarantine \ {q}
      /\ UNCHANGED <<pc, tlock, creq>>
  BY <1>0, LateFacts DEF LateCall
<1>2. LocksHeld' BY <1>1 DEF EvidenceInvariant, LocksHeld
<1>3. CASE /\ accepted' = accepted /\ RowsQuiet
           /\ \A s \in Runs :
                \/ evidence'[s] = evidence[s]
                \/ /\ s = q.run /\ q.op \in DB!TerminalStatuses
                   /\ status'[s] \in DB!TerminalStatuses /\ evidence'[s] = q.snapshot
  <2>1. q.op \in DB!TerminalStatuses /\ q.snapshot.own => q.snapshot.sources = accepted[q.run]
    BY DEF EvidenceInvariant, SnapshotsCurrent
  <2>2. LedgerMatchesLog' /\ EvidenceKept' BY <1>3, <2>1, QuietKeeps
  <2>3. SnapshotsCurrent' BY <1>1, <1>3 DEF EvidenceInvariant, SnapshotsCurrent
  <2> QED BY <1>2, <2>2, <2>3 DEF EvidenceClauses
<1>4. CASE /\ q.op = "append" /\ status[q.run] = "running" /\ PublishRow(q.run)
           /\ accepted' = [accepted EXCEPT ![q.run] = @ + 1] /\ UNCHANGED evidence
  <2>1. PICK r \in Runs : r = q.run BY <1>1
  <2>2. PublishRow(r) /\ status[r] = "running" /\ accepted' = [accepted EXCEPT ![r] = @ + 1]
    BY <1>4, <2>1
  <2>3. LedgerMatchesLog' /\ EvidenceKept' BY <1>4, <2>2, ConfirmKeeps
  <2>4. \A s \in Runs \ {r} : accepted'[s] = accepted[s] BY <1>0, <2>2 DEF ServiceTypes
  <2>5. \A c \in Cancellers :
          creq[c].pc = "calling" /\ creq[c].snapshot.own => creq[c].run \in Runs \ {r}
    BY <1>0, <1>4, <2>1 DEF EvidenceInvariant, SnapshotsCurrent, ServiceTypes
  <2>6. \A p \in quarantine :
          p.op \in DB!TerminalStatuses /\ p.snapshot.own => p.run \in Runs \ {r}
    BY <1>0, <1>4, <2>1 DEF EvidenceInvariant, SnapshotsCurrent, ServiceTypes, LateCall
  <2>7. SnapshotsCurrent'
    BY <1>1, <2>4, <2>5, <2>6 DEF EvidenceInvariant, SnapshotsCurrent
  <2> QED BY <1>2, <2>3, <2>7 DEF EvidenceClauses
<1> QED BY <1>0, <1>3, <1>4, LateFacts

(* The invariant of the evidence is inductive. *)
LEMMA EvidenceStep ==
  ASSUME EvidenceInvariant, <<"append", "late_commit">> \notin Faults, [Next]_vars
  PROVE  EvidenceInvariant'
<1>0. ServiceTypes /\ ServiceTypes' BY TypesStep DEF EvidenceInvariant
<1> SUFFICES EvidenceClauses' BY <1>0 DEF EvidenceInvariant, EvidenceClauses
<1>1. CASE UNCHANGED vars
  <2>1. UNCHANGED <<status, log, evidence, pc, accepted, tlock, creq, quarantine>>
    BY <1>1 DEF vars, db, tasks
  <2> QED BY <2>1 DEF EvidenceInvariant, EvidenceClauses, LocksHeld, LedgerMatchesLog,
                      SnapshotsCurrent, EvidenceKept, Published
<1>2. ASSUME NEW r \in Runs, Admission(r) \/ WorkerStep(r) \/ StreamItem(r) \/ Deadline(r)
      PROVE  EvidenceClauses'
  BY <1>2, WorkerEvidence
<1>3. ASSUME NEW c \in Cancellers,
             \/ \E r \in Runs, owner \in IF Strangers THEN BOOLEAN ELSE {TRUE} :
                  CancelBegin(c, r, owner)
             \/ CancelStep(c)
      PROVE  EvidenceClauses'
  <2>1. (IF Strangers THEN BOOLEAN ELSE {TRUE}) \subseteq BOOLEAN OBVIOUS
  <2> QED BY <1>3, <2>1, CancelEvidence
<1>4. ASSUME NEW q \in quarantine, QuarantineSettles(q) PROVE EvidenceClauses'
  BY <1>4, LateEvidence
<1>5. CASE Shutdown
  <2>1. UNCHANGED <<status, log, evidence, pc, accepted, tlock, creq, quarantine>>
    BY <1>5 DEF Shutdown, db
  <2> QED BY <2>1 DEF EvidenceInvariant, EvidenceClauses, LocksHeld, LedgerMatchesLog,
                      SnapshotsCurrent, EvidenceKept, Published
<1>6. CASE ProcessEnds
  <2>1. /\ \A r \in Runs : pc'[r] = IF pc[r] = "admitting" THEN "none"
                                    ELSE IF Live(r) THEN "done" ELSE pc[r]
        /\ \A c \in Cancellers : creq'[c].pc = "idle"
        /\ quarantine' = {} /\ UNCHANGED <<status, log, evidence, accepted>>
    BY <1>0, <1>6, EndsFacts
  <2>2. \A r \in Runs : pc'[r] \notin {"appending", "committing"}
    BY <2>1 DEF Live, LivePcs, DeadlineScope
  <2>3. LocksHeld' BY <2>1, <2>2 DEF LocksHeld
  <2>4. SnapshotsCurrent' BY <2>1 DEF SnapshotsCurrent
  <2>5. RowsQuiet BY <2>1 DEF RowsQuiet, RowKept
  <2>6. LedgerMatchesLog' /\ EvidenceKept' BY <2>1, <2>5, QuietKeeps
  <2> QED BY <2>3, <2>4, <2>6 DEF EvidenceClauses
<1>7. CASE Restart
  <2>1. /\ RowsQuiet /\ UNCHANGED <<pc, accepted, tlock, creq, quarantine>>
        /\ \A r \in Runs : status'[r] = IF Active(r) THEN "failed" ELSE status[r]
        /\ \A r \in Runs : evidence'[r] = IF Active(r) THEN [own |-> TRUE, sources |-> Published(r)]
                                                       ELSE evidence[r]
    BY <1>0, <1>7, RestartFacts DEF tasks
  <2>2. LocksHeld' /\ SnapshotsCurrent'
    BY <2>1 DEF EvidenceInvariant, LocksHeld, SnapshotsCurrent
  <2>3. \A r \in Runs : accepted[r] = Published(r) BY DEF EvidenceInvariant, LedgerMatchesLog
  <2>4. \A r \in Runs : \/ evidence'[r] = evidence[r]
                        \/ /\ status'[r] \in DB!TerminalStatuses
                           /\ evidence'[r].own => evidence'[r].sources = accepted[r]
    <3>1. ASSUME NEW r \in Runs, Active(r)
          PROVE  status'[r] \in DB!TerminalStatuses /\ evidence'[r].sources = accepted[r]
      <4>1. status'[r] = "failed" /\ evidence'[r] = [own |-> TRUE, sources |-> Published(r)]
        BY <2>1, <3>1
      <4> QED BY <2>3, <4>1 DEF DB!TerminalStatuses
    <3> QED BY <2>1, <3>1
  <2>5. LedgerMatchesLog' /\ EvidenceKept' BY <2>1, <2>4, QuietKeeps
  <2> QED BY <2>2, <2>5 DEF EvidenceClauses
<1> QED BY <1>1, <1>2, <1>3, <1>4, <1>5, <1>6, <1>7 DEF Next

(* service.py:313, 448: unless an append raises although its commit went  *)
(* through, the outcome that a Run records from its own ledger counts      *)
(* exactly the runtime events persisted for it, for any number of Runs,    *)
(* cancel requests, quarantined calls, crashes and sweeps.                 *)
THEOREM EvidenceIsExact ==
  ASSUME <<"append", "late_commit">> \notin Faults
  PROVE  Spec => []EvidenceMatchesLog
<1>1. Init => EvidenceInvariant
  <2> SUFFICES ASSUME Init PROVE EvidenceInvariant OBVIOUS
  <2>1. ServiceTypes BY TypesInit
  <2>2. \A r \in Runs : Published(r) = 0
    <3>1. ASSUME NEW r \in Runs PROVE Published(r) = 0
      <4>1. log[r] = <<>> BY DEF Init, DB!Init
      <4>2. {i \in DOMAIN log[r] : log[r][i] \in RuntimeEventTypes} = {} BY <4>1
      <4> QED BY <4>2, FS_EmptySet DEF Published
    <3> QED BY <3>1
  <2>3. LocksHeld /\ LedgerMatchesLog /\ SnapshotsCurrent /\ EvidenceKept
    <3>1. \A c \in Cancellers : creq[c].pc = "idle" BY DEF Init, NoCancel
    <3> QED BY <2>2, <3>1 DEF Init, LocksHeld, LedgerMatchesLog, SnapshotsCurrent, EvidenceKept
  <2> QED BY <2>1, <2>3 DEF EvidenceInvariant
<1>2. EvidenceInvariant /\ [Next]_vars => EvidenceInvariant' BY EvidenceStep
<1>3. EvidenceInvariant => EvidenceMatchesLog
  BY DEF EvidenceInvariant, EvidenceKept, LedgerMatchesLog, EvidenceMatchesLog
<1> QED BY <1>1, <1>2, <1>3, PTL DEF Spec

-----------------------------------------------------------------------------
(* A service that failed begins no new call *)

CallPcs == {"admitting", "starting", "loading", "appending", "committing"}

(* A worker of a failed service that is not in a call begins none. *)
LEMMA WorkerCalls ==
  ASSUME ServiceTypes, fatal, NEW r \in Runs,
         Admission(r) \/ WorkerStep(r) \/ StreamItem(r) \/ Deadline(r)
  PROVE  OneTask(r) /\ (pc'[r] \in CallPcs => pc[r] \in CallPcs) /\ UNCHANGED creq
<1>1. OneTask(r) /\ UNCHANGED creq
  <2>1. CASE WorkerQuiet(r) \/ WorkerTakesLock(r) BY <2>1 DEF WorkerQuiet, WorkerTakesLock
  <2>2. CASE AppendEvent(r) BY <2>2, AppendFacts
  <2>3. CASE CommitTerminal(r) \/ CommitFault(r) BY <2>3, CommitFacts
  <2>4. CASE AdmitHang(r) \/ StartRunHang(r) \/ AppendHang(r) \/ CommitHang(r)
    BY <2>4, HangSteps, HangFacts
  <2> QED BY <2>1, <2>2, <2>3, <2>4, OutsideSteps, EarlySteps, LockSteps DEF Admission, WorkerStep
<1>2. ASSUME pc[r] \notin CallPcs PROVE pc'[r] \notin CallPcs
  <2> USE DEF CallPcs, Pcs, LivePcs, DeadlineScope
  <2>0. pc \in [Runs -> Pcs] BY DEF ServiceTypes
  <2>1. \/ StreamItem(r) \/ StreamCancelled(r) \/ CleanupDone(r) \/ CleanupFatal(r)
        \/ Deadline(r) \/ AppendLocked(r) \/ CommitLocked(r)
    BY <1>2 DEF Admission, WorkerStep, AdmitBegin, Healthy, Admit, AdmitLate, AdmitRefused,
                AdmitHang, StartRun, StartRunHang, LoadContext, LoadContextHang, AppendEvent,
                AppendHang, CommitTerminal, CommitFault, CommitHang
  <2>2. CASE \/ \E label \in {"queued", "streaming"} : Continue(r, label)
             \/ Raise(r)
    BY <2>2, ContinueFacts, RaiseFacts
  <2>3. CASE \E label \in {"draining", "cleaning", "finishing", "interrupted", "done"} : Goto(r, label)
    BY <2>0, <2>3, GotoFacts
  <2>4. CASE pc' = pc BY <1>2, <2>4
  <2> QED BY <2>1, <2>2, <2>3, <2>4
          DEF StreamItem, StreamCancelled, CleanupDone, CleanupFatal, Deadline, AppendLocked,
              CommitLocked
<1> QED BY <1>1, <1>2

(* A request of a failed service begins no call. *)
LEMMA RequestCalls ==
  ASSUME ServiceTypes, fatal, NEW c \in Cancellers,
         \/ \E r \in Runs, owner \in BOOLEAN : CancelBegin(c, r, owner)
         \/ CancelStep(c)
  PROVE  OneRequest(c) /\ (creq'[c].pc = "calling" => creq[c].pc = "calling") /\ UNCHANGED pc
<1>1. ASSUME NEW r \in Runs, NEW owner \in BOOLEAN, CancelBegin(c, r, owner) PROVE FALSE
  BY <1>1 DEF CancelBegin
<1>2. CASE CancelSettle(c) BY <1>2, SettleFacts DEF tasks
<1>3. CASE CancelLocked(c) BY <1>3, CancelLockFacts
<1>4. CASE CancelCommit(c) \/ CancelFault(c) BY <1>4, CancelFacts
<1>5. CASE CancelHang(c) BY <1>5, CancelHangFacts
<1> QED BY <1>1, <1>2, <1>3, <1>4, <1>5 DEF CancelStep

(* agent-policy.md:154, _repository_call: once the service failed closed,  *)
(* no worker and no request begins a transaction, for any number of them   *)
(* and whatever fails.                                                     *)
THEOREM FatalIsFinal == Spec => FatalStopsNewCalls
<1>1. Init => ServiceTypes BY TypesInit
<1>2. ServiceTypes /\ [Next]_vars => ServiceTypes' BY TypesStep
<1>3. ServiceTypes /\ [Next]_vars => [fatal /\ fatal' => InFlight' \subseteq InFlight]_vars
  <2> SUFFICES ASSUME ServiceTypes, Next, fatal, fatal' PROVE InFlight' \subseteq InFlight
    OBVIOUS
  <2> SUFFICES /\ \A r \in Runs : pc'[r] \in CallPcs => pc[r] \in CallPcs
               /\ \A c \in Cancellers : creq'[c].pc = "calling" => creq[c].pc = "calling"
    BY DEF InFlight, CallPcs
  <2>1. ASSUME NEW r \in Runs, Admission(r) \/ WorkerStep(r) \/ StreamItem(r) \/ Deadline(r)
        PROVE  /\ \A s \in Runs : pc'[s] \in CallPcs => pc[s] \in CallPcs
               /\ \A c \in Cancellers : creq'[c].pc = "calling" => creq[c].pc = "calling"
    BY <2>1, WorkerCalls DEF OneTask
  <2>2. ASSUME NEW c \in Cancellers,
               \/ \E r \in Runs, owner \in IF Strangers THEN BOOLEAN ELSE {TRUE} :
                    CancelBegin(c, r, owner)
               \/ CancelStep(c)
        PROVE  /\ \A r \in Runs : pc'[r] \in CallPcs => pc[r] \in CallPcs
               /\ \A d \in Cancellers : creq'[d].pc = "calling" => creq[d].pc = "calling"
    <3>1. (IF Strangers THEN BOOLEAN ELSE {TRUE}) \subseteq BOOLEAN OBVIOUS
    <3>2. OneRequest(c) /\ (creq'[c].pc = "calling" => creq[c].pc = "calling") /\ UNCHANGED pc
      BY <2>2, <3>1, RequestCalls
    <3> QED BY <3>2 DEF OneRequest
  <2>3. CASE (\E q \in quarantine : QuarantineSettles(q)) \/ Shutdown \/ Restart
    BY <2>3 DEF QuarantineSettles, Shutdown, Restart, tasks
  <2>4. CASE ProcessEnds BY <2>4 DEF ProcessEnds
  <2> QED BY <2>1, <2>2, <2>3, <2>4 DEF Next
<1> QED BY <1>1, <1>2, <1>3, PTL DEF Spec, FatalStopsNewCalls

-----------------------------------------------------------------------------
(* Every active Run has an owner *)

(* What a step of the worker of r must see to. *)
OwnerStep(r) ==
  /\ OneTask(r) /\ UNCHANGED <<creq, up, closed>>
  /\ \A s \in Runs \ {r} : status'[s] = status[s] /\ (goal'[s] = goal[s] \/ goal'[s] = "failed")
  /\ \A s \in Runs : intent'[s] => intent[s] \/ Live(s)
  /\ fatal => fatal'
  /\ Healthy' => intent' = intent
  /\ WorkerKnows(r)'
  /\ quarantine' # quarantine =>
       /\ pc'[r] = "done"
       /\ \E call : quarantine' = quarantine \cup {call} /\ call.run = r
  /\ pc[r] # "done"
  /\ Healthy' /\ Active(r)' => /\ Active(r) \/ ~intent[r]
                               /\ intent[r] \/ Live(r)'

(* Such a step keeps the invariant. *)
LEMMA OwnerKeeps ==
  ASSUME OwnerInvariant, ServiceTypes', NEW r \in Runs, OwnerStep(r)
  PROVE  OwnerInvariant'
<1> USE DEF OwnerStep
<1>1. ASSUME NEW s \in Runs PROVE WorkerKnows(s)'
  <2>1. CASE s = r BY <2>1
  <2>2. CASE s # r
    <3>1. /\ pc'[s] = pc[s] /\ status'[s] = status[s] /\ (goal'[s] = goal[s] \/ goal'[s] = "failed")
          /\ intent'[s] => intent[s] \/ Live(s)
      BY <2>2 DEF OneTask
    <3>2. WorkerKnows(s) BY DEF OwnerInvariant
    <3> QED BY <3>1, <3>2 DEF WorkerKnows, Live, LivePcs, DeadlineScope
  <2> QED BY <2>1, <2>2
<1>2. \A c \in Cancellers : creq'[c].pc # "idle" => creq'[c].owner BY DEF OwnerInvariant
<1>3. ASSUME NEW q \in quarantine', q.op # "cancelled" PROVE pc'[q.run] = "done"
  <2>1. CASE q \in quarantine
    BY <1>3, <2>1 DEF OwnerInvariant, OneTask, ServiceTypes, LateCall
  <2>2. CASE q \notin quarantine BY <2>2
  <2> QED BY <2>1, <2>2
<1>4. ASSUME NEW s \in Runs, Healthy', Active(s)', intent'[s] \/ ~Live(s)'
      PROVE  Cancelling(s)'
  <2>1. Healthy /\ intent' = intent BY <1>4 DEF Healthy
  <2>2. CASE s = r
    <3>1. intent[r] /\ Active(r) BY <1>4, <2>1, <2>2
    <3>2. Cancelling(r) BY <2>1, <3>1 DEF OwnerInvariant
    <3> QED BY <2>2, <3>2 DEF Cancelling
  <2>3. CASE s # r
    <3>1. Active(s) /\ (intent[s] \/ ~Live(s))
      BY <1>4, <2>1, <2>3 DEF OneTask, Active, DB!Active, Live
    <3>2. Cancelling(s) BY <2>1, <3>1 DEF OwnerInvariant
    <3> QED BY <3>2 DEF Cancelling
  <2> QED BY <2>2, <2>3
<1> QED BY <1>1, <1>2, <1>3, <1>4 DEF OwnerInvariant

(* A worker that makes the service fail. *)
LEMMA FatalOwner ==
  ASSUME OwnerInvariant, NEW r \in Runs,
         \/ LoadContextHang(r) \/ CleanupFatal(r)
         \/ AdmitHang(r) \/ StartRunHang(r) \/ AppendHang(r) \/ CommitHang(r)
  PROVE  OwnerStep(r)
<1>0. ServiceTypes /\ pc \in [Runs -> Pcs] /\ "done" \in Pcs
  BY DEF OwnerInvariant, ServiceTypes, Pcs
<1>1. /\ OneTask(r) /\ pc'[r] = "done" /\ fatal' = TRUE /\ UNCHANGED <<status, creq, goal, up, closed>>
      /\ \A s \in Runs : intent'[s] => intent[s] \/ Live(s)
      /\ quarantine' # quarantine =>
           \E call : quarantine' = quarantine \cup {call} /\ call.run = r
  <2>1. CASE LoadContextHang(r) \/ CleanupFatal(r)
    <3>1. /\ Goto(r, "done") /\ fatal' = TRUE /\ intent' = Requested(Runs \ {r})
          /\ UNCHANGED <<status, creq, goal, up, closed, quarantine>>
      BY <2>1 DEF LoadContextHang, CleanupFatal, MarkFatal, db
    <3>2. OneTask(r) /\ pc'[r] = "done" BY <1>0, <3>1, GotoFacts
    <3>3. \A s \in Runs : intent'[s] => intent[s] \/ Live(s)
      BY <1>0, <3>1, RequestedFacts DEF ServiceTypes
    <3> QED BY <3>1, <3>2, <3>3
  <2>2. CASE AdmitHang(r) \/ StartRunHang(r) \/ AppendHang(r) \/ CommitHang(r)
    <3>1. PICK call \in {"admit", "start", "append", "commit"}, op \in Ops : WorkerHang(r, call, op)
      BY <1>0, <2>2, HangSteps
    <3>2. PICK snapshot \in Snapshot :
             quarantine' = quarantine \cup {[run |-> r, op |-> op, snapshot |-> snapshot]}
      BY <1>0, <3>1, HangFacts
    <3>3. \E x : quarantine' = quarantine \cup {x} /\ x.run = r
      <4>1. [run |-> r, op |-> op, snapshot |-> snapshot].run = r OBVIOUS
      <4> QED BY <3>2, <4>1
    <3> QED BY <1>0, <3>1, <3>3, HangFacts
  <2> QED BY <2>1, <2>2
<1>2. pc[r] # "done"
  BY DEF LoadContextHang, CleanupFatal, AdmitHang, StartRunHang, AppendHang, CommitHang
<1>3. WorkerKnows(r)' BY <1>1 DEF WorkerKnows, DeadlineScope
<1>4. ~Healthy' BY <1>1 DEF Healthy
<1> QED BY <1>1, <1>2, <1>3, <1>4 DEF OwnerStep

(* Steps that leave the health, the requests and the cancellations alone. *)
CalmStep(r) ==
  /\ OneTask(r) /\ UNCHANGED <<creq, up, closed, fatal, intent, quarantine>>
  /\ \A s \in Runs \ {r} : status'[s] = status[s] /\ (goal'[s] = goal[s] \/ goal'[s] = "failed")
  /\ pc[r] # "done"

(* What such a step still has to see to. *)
LEMMA CalmOwner ==
  ASSUME OwnerInvariant, NEW r \in Runs, CalmStep(r), WorkerKnows(r)',
         Healthy /\ Active(r)' => (Active(r) \/ ~intent[r]) /\ (intent[r] \/ Live(r)')
  PROVE  OwnerStep(r)
<1>1. Healthy' => Healthy BY DEF CalmStep, Healthy
<1> QED BY <1>1 DEF OwnerStep, CalmStep

(* Steps of a worker without a write. *)
LEMMA OutsideOwner ==
  ASSUME OwnerInvariant, NEW r \in Runs,
         \/ AdmitBegin(r) \/ AdmitRefused(r) \/ LoadContext(r) \/ StreamItem(r)
         \/ StreamCancelled(r) \/ CleanupDone(r) \/ Deadline(r)
         \/ AppendLocked(r) \/ CommitLocked(r)
  PROVE  OwnerStep(r)
<1> USE DEF Pcs, LivePcs, DeadlineScope
<1>0. /\ ServiceTypes /\ pc \in [Runs -> Pcs] /\ WorkerKnows(r)
      /\ intent[r] \in BOOLEAN /\ goal \in [Runs -> {"none", "completed", "failed"}]
  BY DEF OwnerInvariant, ServiceTypes
<1>1. /\ UNCHANGED <<status, intent, creq, quarantine, fatal, closed, up>> /\ pc[r] # "done"
  BY DEF AdmitBegin, AdmitRefused, LoadContext, StreamItem, StreamCancelled,
         CleanupDone, Deadline, AppendLocked, CommitLocked, db, health
<1>2. Active(r)' <=> Active(r) BY <1>1 DEF Active, DB!Active
<1>3. CASE AdmitBegin(r) \/ AdmitRefused(r)
  <2>1. Goto(r, "admitting") \/ Goto(r, "none") BY <1>3 DEF AdmitBegin, AdmitRefused
  <2>2. OneTask(r) /\ pc'[r] \in {"admitting", "none"} BY <1>0, <2>1, GotoFacts
  <2>3. goal' = goal /\ pc[r] \in {"none", "admitting"} BY <1>3 DEF AdmitBegin, AdmitRefused
  <2>4. status[r] = "absent" /\ ~intent[r] BY <1>0, <2>3 DEF WorkerKnows
  <2>5. WorkerKnows(r)' BY <1>1, <2>2, <2>4 DEF WorkerKnows
  <2>6. ~Active(r) BY <2>4 DEF Active, DB!Active, DB!ActiveStatuses
  <2> QED BY <1>1, <1>2, <2>2, <2>3, <2>5, <2>6, CalmOwner DEF CalmStep
<1>4. ASSUME pc[r] \in DeadlineScope \ {"starting"}, NEW label \in {"streaming", "queued"},
             Continue(r, label)
      PROVE  OwnerStep(r)
  <2>1. /\ OneTask(r)
        /\ intent[r] => pc'[r] = "done"
        /\ ~intent[r] => pc'[r] = (IF expired[r] THEN "finishing" ELSE label)
        /\ \A s \in Runs : goal'[s] = goal[s] \/ goal'[s] = "failed"
        /\ ~intent[r] /\ expired[r] => goal'[r] = "failed"
    BY <1>0, <1>4, ContinueFacts
  <2>2. status[r] # "created" BY <1>0, <1>4 DEF WorkerKnows
  <2>3. WorkerKnows(r)' BY <1>0, <1>1, <2>1, <2>2 DEF WorkerKnows
  <2>4. intent[r] \/ Live(r)' BY <1>0, <2>1 DEF Live
  <2> QED BY <1>1, <1>2, <2>1, <2>3, <2>4, CalmOwner DEF CalmStep
<1>5. ASSUME pc[r] \in DeadlineScope \ {"starting"}, Raise(r) PROVE OwnerStep(r)
  <2>1. /\ OneTask(r) /\ pc'[r] = (IF intent[r] THEN "done" ELSE "finishing")
        /\ \A s \in Runs : goal'[s] = goal[s] \/ goal'[s] = "failed"
        /\ goal'[r] = "failed"
    BY <1>0, <1>5, RaiseFacts
  <2>2. WorkerKnows(r)' BY <1>0, <1>1, <2>1 DEF WorkerKnows
  <2>3. intent[r] \/ Live(r)' BY <1>0, <2>1 DEF Live
  <2> QED BY <1>1, <1>2, <2>1, <2>2, <2>3, CalmOwner DEF CalmStep
<1>6. CASE LoadContext(r) BY <1>4, <1>5, <1>6 DEF LoadContext
<1>7. CASE StreamItem(r)
  <2>1. CASE Continue(r, "queued") \/ Raise(r) BY <1>4, <1>5, <1>7, <2>1 DEF StreamItem
  <2>2. ASSUME NEW g \in {"completed", "failed"}, Goto(r, "draining"),
               goal' = [goal EXCEPT ![r] = g]
        PROVE  OwnerStep(r)
    <3>1. OneTask(r) /\ pc'[r] = "draining" BY <1>0, <2>2, GotoFacts
    <3>2. goal'[r] = g /\ \A s \in Runs \ {r} : goal'[s] = goal[s] BY <1>0, <2>2
    <3>3. status[r] # "created" BY <1>0, <1>7 DEF StreamItem, WorkerKnows
    <3>4. WorkerKnows(r)' BY <1>1, <3>1, <3>2, <3>3 DEF WorkerKnows
    <3>5. Live(r)' BY <3>1 DEF Live
    <3> QED BY <1>1, <1>2, <3>1, <3>2, <3>4, <3>5, CalmOwner DEF CalmStep
  <2> QED BY <1>7, <2>1, <2>2 DEF StreamItem
<1>8. CASE StreamCancelled(r)
  <2>1. Goto(r, "cleaning") /\ goal' = goal /\ pc[r] = "streaming" BY <1>8 DEF StreamCancelled
  <2>2. OneTask(r) /\ pc'[r] = "cleaning" BY <1>0, <2>1, GotoFacts
  <2>3. WorkerKnows(r)' BY <1>0, <1>1, <2>1, <2>2 DEF WorkerKnows
  <2>4. Live(r)' BY <2>2 DEF Live
  <2> QED BY <1>1, <1>2, <2>1, <2>2, <2>3, <2>4, CalmOwner DEF CalmStep
<1>9. CASE CleanupDone(r)
  <2>1. CASE pc[r] = "cleaning" /\ Continue(r, "streaming") BY <1>4, <2>1
  <2>2. CASE pc[r] = "draining" /\ Goto(r, "finishing") /\ UNCHANGED goal
    <3>1. OneTask(r) /\ pc'[r] = "finishing" BY <1>0, <2>2, GotoFacts
    <3>2. WorkerKnows(r)' BY <1>0, <1>1, <2>2, <3>1 DEF WorkerKnows
    <3>3. Live(r)' BY <3>1 DEF Live
    <3> QED BY <1>1, <1>2, <2>2, <3>1, <3>2, <3>3, CalmOwner DEF CalmStep
  <2> QED BY <1>9, <2>1, <2>2 DEF CleanupDone
<1>10. CASE Deadline(r)
  <2>1. goal' = goal /\ Live(r) BY <1>10 DEF Deadline, Live
  <2>2. CASE pc' = pc
    <3>1. OneTask(r) /\ Live(r)' BY <1>0, <2>1, <2>2 DEF OneTask, Live
    <3>2. WorkerKnows(r)' BY <1>0, <1>1, <2>1, <2>2 DEF WorkerKnows
    <3> QED BY <1>1, <1>2, <2>1, <3>1, <3>2, CalmOwner DEF CalmStep
  <2>3. CASE Goto(r, "interrupted")
    <3>1. OneTask(r) /\ pc'[r] = "interrupted" BY <1>0, <2>3, GotoFacts
    <3>2. WorkerKnows(r)' BY <3>1 DEF WorkerKnows
    <3>3. Live(r)' BY <3>1 DEF Live
    <3> QED BY <1>1, <1>2, <2>1, <3>1, <3>2, <3>3, CalmOwner DEF CalmStep
  <2> QED BY <1>10, <2>2, <2>3 DEF Deadline
<1>11. CASE AppendLocked(r) \/ CommitLocked(r)
  <2>1. CASE AppendLocked(r) /\ Continue(r, "queued") BY <1>4, <2>1 DEF AppendLocked
  <2>2. CASE Goto(r, "done") /\ UNCHANGED goal /\ (intent[r] \/ fatal)
    <3>1. OneTask(r) /\ pc'[r] = "done" BY <1>0, <2>2, GotoFacts
    <3>2. WorkerKnows(r)' BY <3>1 DEF WorkerKnows
    <3>3. Healthy => intent[r] BY <2>2 DEF Healthy
    <3> QED BY <1>1, <1>2, <2>2, <3>1, <3>2, <3>3, CalmOwner DEF CalmStep
  <2>3. CASE AppendLocked(r) /\ Goto(r, "appending") /\ UNCHANGED goal
    <3>1. OneTask(r) /\ pc'[r] = "appending" BY <1>0, <2>3, GotoFacts
    <3>2. status[r] # "created" BY <1>0, <2>3 DEF AppendLocked, WorkerKnows
    <3>3. WorkerKnows(r)' BY <1>1, <3>1, <3>2 DEF WorkerKnows
    <3>4. Live(r)' BY <3>1 DEF Live
    <3> QED BY <1>1, <1>2, <2>3, <3>1, <3>3, <3>4, CalmOwner DEF CalmStep
  <2>4. CASE CommitLocked(r) /\ Goto(r, "committing") /\ UNCHANGED goal
    <3>1. OneTask(r) /\ pc'[r] = "committing" BY <1>0, <2>4, GotoFacts
    <3>2. pc[r] = "finishing" BY <2>4 DEF CommitLocked
    <3>3. WorkerKnows(r)' BY <1>0, <1>1, <2>4, <3>1, <3>2 DEF WorkerKnows
    <3>4. Live(r)' BY <3>1 DEF Live
    <3> QED BY <1>1, <1>2, <2>4, <3>1, <3>3, <3>4, CalmOwner DEF CalmStep
  <2> QED BY <1>11, <2>1, <2>2, <2>3, <2>4 DEF AppendLocked, CommitLocked
<1> QED BY <1>3, <1>6, <1>7, <1>8, <1>9, <1>10, <1>11

(* Steps of a worker with a write. *)
LEMMA WriteOwner ==
  ASSUME OwnerInvariant, <<"admit", "late_commit">> \notin Faults, NEW r \in Runs,
         \/ \E t \in Threads : Admit(r, t) \/ AdmitLate(r, t)
         \/ StartRun(r) \/ AppendEvent(r) \/ CommitTerminal(r) \/ CommitFault(r)
  PROVE  OwnerStep(r)
<1> USE DEF Pcs, LivePcs, DeadlineScope
<1>0. /\ ServiceTypes /\ pc \in [Runs -> Pcs] /\ WorkerKnows(r) /\ RowTypes
      /\ intent[r] \in BOOLEAN /\ goal \in [Runs -> {"none", "completed", "failed"}]
      /\ evidence \in [Runs -> Snapshot \cup {Nil}] /\ Outcome(r) \in Snapshot
  BY OutcomeFacts DEF OwnerInvariant, ServiceTypes, RowTypes
<1>1. ASSUME NEW t \in Threads, Admit(r, t) PROVE OwnerStep(r)
  <2>1. /\ UNCHANGED <<goal, intent, creq, quarantine, fatal, closed, up>>
        /\ pc[r] = "admitting" /\ DB!Create(r, t)
    BY <1>1 DEF Admit, health
  <2>2. PICK there \in {"starting", "done"} : there = IF Healthy THEN "starting" ELSE "done"
    OBVIOUS
  <2>3. OneTask(r) /\ pc'[r] = there
    <3>1. there \in Pcs /\ Goto(r, there) BY <1>1, <2>2 DEF Admit
    <3> QED BY <1>0, <3>1, GotoFacts
  <2>4. status'[r] = "created" /\ \A s \in Runs \ {r} : status'[s] = status[s]
    BY <1>0, <2>1, CreateQuiet DEF RowKept
  <2>5. ~intent[r] BY <1>0, <2>1 DEF WorkerKnows
  <2>6. WorkerKnows(r)' BY <2>1, <2>3, <2>4 DEF WorkerKnows
  <2>7. Healthy => Live(r)' BY <2>2, <2>3 DEF Live
  <2> QED BY <2>1, <2>3, <2>4, <2>5, <2>6, <2>7, CalmOwner DEF CalmStep
<1>2. CASE StartRun(r)
  <2>1. /\ UNCHANGED <<intent, creq, quarantine, fatal, closed, up>> /\ pc[r] = "starting"
    BY <1>2 DEF StartRun, health
  <2>2. status[r] # "running" BY <1>0, <2>1 DEF WorkerKnows
  <2>3. /\ \A s \in Runs \ {r} : status'[s] = status[s]
        /\ \/ UNCHANGED status
           \/ status'[r] = IF status[r] = "created" THEN "running" ELSE status[r]
    <3>1. CASE StartRow(r) BY <1>0, <3>1, StartQuiet DEF RowKept
    <3>2. CASE UNCHANGED db BY <3>2 DEF db
    <3> QED BY <1>2, <3>1, <3>2 DEF StartRun
  <2>4. Active(r)' => Active(r)
    BY <2>3 DEF Active, DB!Active, DB!ActiveStatuses
  <2>5. CASE Raise(r)
    <3>1. /\ OneTask(r) /\ pc'[r] = (IF intent[r] THEN "done" ELSE "finishing")
          /\ \A s \in Runs : goal'[s] = goal[s] \/ goal'[s] = "failed"
          /\ goal'[r] = "failed"
      BY <1>0, <2>5, RaiseFacts
    <3>2. WorkerKnows(r)' BY <1>0, <3>1 DEF WorkerKnows
    <3>3. intent[r] \/ Live(r)' BY <1>0, <3>1 DEF Live
    <3> QED BY <2>1, <2>3, <2>4, <3>1, <3>2, <3>3, CalmOwner DEF CalmStep
  <2>6. PICK label \in {"loading", "done"} :
           label = IF status[r] = "created" THEN "loading" ELSE "done"
    OBVIOUS
  <2>7. CASE StartRow(r) /\ Continue(r, label)
    <3>1. label \in Pcs OBVIOUS
    <3>2. /\ OneTask(r)
          /\ intent[r] => pc'[r] = "done"
          /\ ~intent[r] => pc'[r] = (IF expired[r] THEN "finishing" ELSE label)
          /\ \A s \in Runs : goal'[s] = goal[s] \/ goal'[s] = "failed"
          /\ ~intent[r] /\ expired[r] => goal'[r] = "failed"
      BY <1>0, <2>7, <3>1, ContinueFacts
    <3>3. status'[r] = IF status[r] = "created" THEN "running" ELSE status[r]
      BY <1>0, <2>7, StartQuiet
    <3>4. WorkerKnows(r)' BY <1>0, <2>6, <3>2, <3>3 DEF WorkerKnows
    <3>5. Active(r)' => intent[r] \/ Live(r)'
      BY <1>0, <2>2, <2>6, <3>2, <3>3 DEF Live, Active, DB!Active, DB!ActiveStatuses
    <3> QED BY <2>1, <2>3, <2>4, <3>2, <3>4, <3>5, CalmOwner DEF CalmStep
  <2> QED BY <1>2, <2>5, <2>6, <2>7 DEF StartRun
<1>3. CASE AppendEvent(r)
  <2>1. /\ UNCHANGED <<intent, creq, quarantine, fatal, closed, up>> /\ pc[r] = "appending"
    BY <1>3 DEF AppendEvent, health
  <2>2. status[r] # "created" BY <1>0, <2>1 DEF WorkerKnows
  <2>3. \A s \in Runs : status'[s] = status[s]
    <3>1. CASE PublishRow(r) BY <1>0, <3>1, PublishFacts DEF RowKept
    <3>2. CASE UNCHANGED db BY <3>2 DEF db
    <3> QED BY <1>3, <3>1, <3>2 DEF AppendEvent
  <2>4. Active(r)' => Active(r) BY <2>3 DEF Active, DB!Active
  <2>5. CASE Raise(r)
    <3>1. /\ OneTask(r) /\ pc'[r] = (IF intent[r] THEN "done" ELSE "finishing")
          /\ \A s \in Runs : goal'[s] = goal[s] \/ goal'[s] = "failed"
          /\ goal'[r] = "failed"
      BY <1>0, <2>5, RaiseFacts
    <3>2. WorkerKnows(r)' BY <1>0, <3>1 DEF WorkerKnows
    <3>3. intent[r] \/ Live(r)' BY <1>0, <3>1 DEF Live
    <3> QED BY <2>1, <2>3, <2>4, <3>1, <3>2, <3>3, CalmOwner DEF CalmStep
  <2>6. PICK label \in {"streaming", "done"} :
           label = IF status[r] = "running" THEN "streaming" ELSE "done"
    OBVIOUS
  <2>7. CASE Continue(r, label)
    <3>1. label \in Pcs OBVIOUS
    <3>2. /\ OneTask(r)
          /\ intent[r] => pc'[r] = "done"
          /\ ~intent[r] => pc'[r] = (IF expired[r] THEN "finishing" ELSE label)
          /\ \A s \in Runs : goal'[s] = goal[s] \/ goal'[s] = "failed"
          /\ ~intent[r] /\ expired[r] => goal'[r] = "failed"
      BY <1>0, <2>7, <3>1, ContinueFacts
    <3>3. WorkerKnows(r)' BY <1>0, <2>2, <2>3, <2>6, <3>2 DEF WorkerKnows
    <3>4. Active(r)' => intent[r] \/ Live(r)'
      BY <1>0, <2>2, <2>3, <2>6, <3>2 DEF Live, Active, DB!Active, DB!ActiveStatuses
    <3> QED BY <2>1, <2>3, <2>4, <3>2, <3>3, <3>4, CalmOwner DEF CalmStep
  <2> QED BY <1>3, <2>5, <2>6, <2>7 DEF AppendEvent
<1>4. CASE CommitTerminal(r) \/ CommitFault(r)
  <2>1. /\ OneTask(r) /\ pc[r] = "committing" /\ pc'[r] = "done"
        /\ \A s \in Runs \ {r} : status'[s] = status[s]
        /\ UNCHANGED <<goal, creq, quarantine>> /\ (fatal => fatal')
    BY <1>0, <1>4, CommitFacts DEF RowKept
  <2>2. UNCHANGED <<up, closed>> BY <1>4 DEF CommitTerminal, CommitFault, MarkFatal, health
  <2>3. WorkerKnows(r)' BY <2>1 DEF WorkerKnows
  <2>4. EndRow(r, goal[r], Outcome(r)) => ~Active(r)'
    <3>1. /\ goal[r] \in {"completed", "failed"}
          /\ goal[r] = "completed" => status[r] # "created"
      BY <1>0, <2>1 DEF WorkerKnows
    <3>2. ASSUME EndRow(r, goal[r], Outcome(r))
          PROVE  \/ RowKept(r) /\ ~(goal[r] = "completed" /\ status[r] = "running")
                    /\ ~(goal[r] \in {"failed", "cancelled"} /\ Active(r))
                 \/ status'[r] \in DB!TerminalStatuses
      BY <1>0, <3>2, EndQuiet
    <3> QED BY <3>1, <3>2
            DEF RowKept, Active, DB!Active, DB!ActiveStatuses, DB!TerminalStatuses
  <2>5. Active(r)' => Active(r)
    <3>1. CASE EndRow(r, goal[r], Outcome(r)) BY <2>4, <3>1
    <3>2. CASE UNCHANGED <<db, evidence>> BY <3>2 DEF db, Active, DB!Active
    <3> QED BY <1>0, <1>4, <3>1, <3>2, CommitFacts
  <2>6. CASE UNCHANGED <<intent, fatal>>
    <3>1. Active(r)' => intent[r] \/ fatal
      <4>1. CASE CommitTerminal(r) BY <2>4, <4>1 DEF CommitTerminal
      <4>2. CASE CommitFault(r) BY <2>6, <4>2 DEF CommitFault, MarkFatal
      <4> QED BY <1>4, <4>1, <4>2
    <3>2. Healthy => ~fatal BY DEF Healthy
    <3> QED BY <2>1, <2>2, <2>3, <2>5, <2>6, <3>1, <3>2, CalmOwner DEF CalmStep
  <2>7. CASE fatal' = TRUE /\ intent' = Requested(Runs \ {r})
    <3>1. \A s \in Runs : intent'[s] => intent[s] \/ Live(s)
      BY <1>0, <2>7, RequestedFacts DEF ServiceTypes
    <3>2. ~Healthy' BY <2>7 DEF Healthy
    <3> QED BY <2>1, <2>2, <2>3, <3>1, <3>2 DEF OwnerStep
  <2> QED BY <1>4, <2>6, <2>7 DEF CommitTerminal, CommitFault, MarkFatal, health
<1>5. ASSUME NEW t \in Threads, AdmitLate(r, t) PROVE FALSE BY <1>5 DEF AdmitLate
<1> QED BY <1>1, <1>2, <1>3, <1>4, <1>5

(* The steps of a worker. *)
LEMMA WorkerOwner ==
  ASSUME OwnerInvariant, ServiceTypes', <<"admit", "late_commit">> \notin Faults, NEW r \in Runs,
         Admission(r) \/ WorkerStep(r) \/ StreamItem(r) \/ Deadline(r)
  PROVE  OwnerInvariant'
<1>1. OwnerStep(r) BY FatalOwner, OutsideOwner, WriteOwner DEF Admission, WorkerStep
<1> QED BY <1>1, OwnerKeeps

(* A step that leaves the workers alone and can only end Runs. *)
EndsOnly ==
  /\ UNCHANGED <<pc, goal>>
  /\ \A s \in Runs : intent'[s] => intent[s] \/ Live(s)
  /\ \A s \in Runs :
       pc[s] # "done" => \/ status'[s] = status[s]
                         \/ Active(s) /\ status'[s] \in DB!TerminalStatuses

(* Such a step keeps what the workers know. *)
LEMMA EndsKnows ==
  ASSUME OwnerInvariant, EndsOnly
  PROVE  \A s \in Runs : WorkerKnows(s)'
<1> SUFFICES ASSUME NEW s \in Runs PROVE WorkerKnows(s)' OBVIOUS
<1> USE DEF LivePcs, DeadlineScope
<1>1. WorkerKnows(s) BY DEF OwnerInvariant
<1>2. CASE pc[s] = "done" BY <1>2 DEF EndsOnly, WorkerKnows
<1>3. CASE status'[s] = status[s]
  BY <1>1, <1>3 DEF EndsOnly, WorkerKnows, Live
<1>4. CASE Active(s) /\ status'[s] \in DB!TerminalStatuses
  BY <1>1, <1>4 DEF EndsOnly, WorkerKnows, Active, DB!Active, DB!ActiveStatuses,
                    DB!TerminalStatuses
<1> QED BY <1>2, <1>3, <1>4 DEF EndsOnly

(* The steps of a request: it ends its Run before it leaves. *)
LEMMA CancelOwner ==
  ASSUME OwnerInvariant, ServiceTypes', NEW c \in Cancellers,
         <<"settle", "rollback">> \notin Faults, <<"cancel", "rollback">> \notin Faults,
         \/ \E r \in Runs : CancelBegin(c, r, TRUE)
         \/ CancelStep(c)
  PROVE  OwnerInvariant'
<1>0. ServiceTypes BY DEF OwnerInvariant
<1>1. CASE \E r \in Runs : CancelBegin(c, r, TRUE)
  <2>1. PICK r \in Runs : CancelBegin(c, r, TRUE) BY <1>1
  <2>2. /\ OneRequest(c) /\ creq[c].pc = "idle" /\ creq'[c].pc \in {"settling", "calling"}
        /\ creq'[c].run = r /\ creq'[c].owner
        /\ \A s \in Runs : intent'[s] => intent[s] \/ (s = r /\ Live(s))
        /\ UNCHANGED <<status, pc, goal, quarantine, fatal, closed, up>>
    BY <1>0, <2>1, BeginFacts
  <2>3. EndsOnly BY <2>2 DEF EndsOnly
  <2>4. \A s \in Runs : WorkerKnows(s)' BY <2>3, EndsKnows
  <2>5. \A d \in Cancellers : creq'[d].pc # "idle" => creq'[d].owner
    BY <2>2 DEF OwnerInvariant, OneRequest
  <2>6. ASSUME NEW s \in Runs, Healthy', Active(s)', intent'[s] \/ ~Live(s)'
        PROVE  Cancelling(s)'
    <3>1. CASE s = r BY <2>2, <3>1 DEF Cancelling
    <3>2. CASE s # r
      <4>1. Healthy /\ Active(s) /\ (intent[s] \/ ~Live(s))
        BY <2>2, <2>6, <3>2 DEF Healthy, Active, DB!Active, Live
      <4>2. PICK d \in Cancellers : creq[d].pc # "idle" /\ creq[d].run = s
        BY <4>1 DEF OwnerInvariant, Cancelling
      <4>3. creq'[d] = creq[d] BY <2>2, <4>2 DEF OneRequest
      <4> QED BY <4>2, <4>3 DEF Cancelling
    <3> QED BY <3>1, <3>2
  <2> QED BY <2>2, <2>4, <2>5, <2>6 DEF OwnerInvariant
<1>2. CASE CancelSettle(c) \/ CancelLocked(c)
  <2>1. /\ OneRequest(c) /\ UNCHANGED <<status, pc, goal, intent, quarantine, fatal, closed, up>>
        /\ \/ creq'[c].pc = "idle" /\ fatal
           \/ creq'[c].pc # "idle" /\ creq'[c].run = creq[c].run /\ creq'[c].owner = creq[c].owner
        /\ creq[c].pc # "idle"
    <3>1. CASE CancelSettle(c) BY <1>0, <3>1, SettleFacts DEF tasks, health
    <3>2. CASE CancelLocked(c) BY <1>0, <3>2, CancelLockFacts DEF health
    <3> QED BY <1>2, <3>1, <3>2
  <2>2. EndsOnly BY <2>1 DEF EndsOnly
  <2>3. \A s \in Runs : WorkerKnows(s)' BY <2>2, EndsKnows
  <2>4. \A d \in Cancellers : creq'[d].pc # "idle" => creq'[d].owner
    BY <2>1 DEF OwnerInvariant, OneRequest
  <2>5. ASSUME NEW s \in Runs, Healthy', Active(s)', intent'[s] \/ ~Live(s)'
        PROVE  Cancelling(s)'
    <3>1. Healthy /\ Active(s) /\ (intent[s] \/ ~Live(s)) /\ ~fatal
      BY <2>1, <2>5 DEF Healthy, Active, DB!Active, Live
    <3>2. PICK d \in Cancellers : creq[d].pc # "idle" /\ creq[d].run = s
      BY <3>1 DEF OwnerInvariant, Cancelling
    <3>3. creq'[d].pc # "idle" /\ creq'[d].run = s BY <2>1, <3>1, <3>2 DEF OneRequest
    <3> QED BY <3>3 DEF Cancelling
  <2> QED BY <2>1, <2>3, <2>4, <2>5 DEF OwnerInvariant
<1>3. CASE CancelCommit(c) \/ CancelFault(c)
  <2>1. /\ OneRequest(c) /\ creq[c].pc = "calling" /\ creq'[c].pc = "idle" /\ creq[c].run \in Runs
        /\ \/ EndRow(creq[c].run, "cancelled", creq[c].snapshot)
           \/ ~creq[c].owner \/ <<"cancel", "rollback">> \in Faults
        /\ UNCHANGED <<pc, goal, intent, quarantine, fatal, closed, up>>
    BY <1>0, <1>3, CancelFacts
  <2>2. PICK r \in Runs : r = creq[c].run BY <2>1
  <2>3. PICK snapshot \in Snapshot : snapshot = creq[c].snapshot BY <1>0 DEF ServiceTypes, Request
  <2>4. EndRow(r, "cancelled", snapshot) BY <2>1, <2>2, <2>3 DEF OwnerInvariant
  <2>5. /\ \A s \in Runs \ {r} : status'[s] = status[s]
        /\ \/ status'[r] = status[r] /\ ~Active(r)
           \/ status'[r] \in DB!TerminalStatuses /\ Active(r)
    <3>1. RowTypes /\ evidence \in [Runs -> Snapshot \cup {Nil}] BY <1>0 DEF ServiceTypes, RowTypes
    <3> QED BY <2>4, <3>1, EndQuiet DEF RowKept
  <2>6. EndsOnly BY <2>1, <2>5 DEF EndsOnly
  <2>7. \A s \in Runs : WorkerKnows(s)' BY <2>6, EndsKnows
  <2>8. \A d \in Cancellers : creq'[d].pc # "idle" => creq'[d].owner
    BY <2>1 DEF OwnerInvariant, OneRequest
  <2>9. ASSUME NEW s \in Runs, Healthy', Active(s)', intent'[s] \/ ~Live(s)'
        PROVE  Cancelling(s)'
    <3>1. s # r BY <2>5, <2>9 DEF Active, DB!Active, DB!ActiveStatuses, DB!TerminalStatuses
    <3>2. Healthy /\ Active(s) /\ (intent[s] \/ ~Live(s))
      BY <2>1, <2>5, <2>9, <3>1 DEF Healthy, Active, DB!Active, Live
    <3>3. PICK d \in Cancellers : creq[d].pc # "idle" /\ creq[d].run = s
      BY <3>2 DEF OwnerInvariant, Cancelling
    <3>4. creq'[d] = creq[d] BY <2>1, <2>2, <3>1, <3>3 DEF OneRequest
    <3> QED BY <3>3, <3>4 DEF Cancelling
  <2> QED BY <2>1, <2>7, <2>8, <2>9 DEF OwnerInvariant
<1>4. CASE CancelHang(c)
  <2>1. /\ OneRequest(c) /\ creq'[c].pc = "idle" /\ fatal' = TRUE
        /\ \/ quarantine' = quarantine
           \/ quarantine' = quarantine \cup
                {[run |-> creq[c].run, op |-> "cancelled", snapshot |-> creq[c].snapshot]}
        /\ \A s \in Runs : intent'[s] => intent[s] \/ Live(s)
        /\ UNCHANGED <<status, pc, goal>>
    BY <1>0, <1>4, CancelHangFacts
  <2>2. EndsOnly BY <2>1 DEF EndsOnly
  <2>3. \A s \in Runs : WorkerKnows(s)' BY <2>2, EndsKnows
  <2>4. \A d \in Cancellers : creq'[d].pc # "idle" => creq'[d].owner
    BY <2>1 DEF OwnerInvariant, OneRequest
  <2>5. \A q \in quarantine' : q.op # "cancelled" => pc'[q.run] = "done"
    BY <2>1 DEF OwnerInvariant
  <2>6. ~Healthy' BY <2>1 DEF Healthy
  <2> QED BY <2>3, <2>4, <2>5, <2>6 DEF OwnerInvariant
<1> QED BY <1>1, <1>2, <1>3, <1>4 DEF CancelStep

(* A quarantined call settles in a failed service. *)
LEMMA LateOwner ==
  ASSUME OwnerInvariant, ServiceTypes', NEW q \in quarantine, QuarantineSettles(q)
  PROVE  OwnerInvariant'
<1>0. ServiceTypes BY DEF OwnerInvariant
<1>1. /\ fatal /\ quarantine' = quarantine \ {q}
      /\ UNCHANGED <<pc, goal, intent, creq, fatal, closed, up>>
  BY <1>0, LateFacts
<1>2. PICK r \in Runs, op \in Ops, snapshot \in Snapshot :
         r = q.run /\ op = q.op /\ snapshot = q.snapshot
  BY <1>0 DEF ServiceTypes, LateCall
<1>3. RowTypes /\ evidence \in [Runs -> Snapshot \cup {Nil}] BY <1>0 DEF ServiceTypes, RowTypes
<1>4. op # "cancelled" => pc[r] = "done" BY <1>2 DEF OwnerInvariant
<1>5. /\ \A s \in Runs \ {r} : status'[s] = status[s]
      /\ pc[r] # "done" => \/ status'[r] = status[r]
                           \/ Active(r) /\ status'[r] \in DB!TerminalStatuses
  <2>1. CASE UNCHANGED <<db, evidence, accepted>> BY <2>1 DEF db
  <2>2. CASE op = "admit" /\ \E t \in Threads : DB!Create(r, t)
    BY <1>3, <1>4, <2>2, CreateQuiet DEF RowKept
  <2>3. CASE op = "start" /\ StartRow(r) BY <1>3, <1>4, <2>3, StartQuiet DEF RowKept
  <2>4. CASE PublishRow(r) BY <1>3, <2>4, PublishFacts DEF RowKept
  <2>5. CASE EndRow(r, op, snapshot) BY <1>3, <2>5, EndQuiet DEF RowKept
  <2> QED BY <1>2, <2>1, <2>2, <2>3, <2>4, <2>5 DEF QuarantineSettles
<1>6. EndsOnly BY <1>1, <1>5 DEF EndsOnly
<1>7. \A s \in Runs : WorkerKnows(s)' BY <1>6, EndsKnows
<1>8. ~Healthy' BY <1>1 DEF Healthy
<1> QED BY <1>1, <1>7, <1>8 DEF OwnerInvariant

(* The owner invariant is inductive. *)
LEMMA OwnerInductive ==
  ASSUME OwnerInvariant, ~Strangers, [Next]_vars, <<"admit", "late_commit">> \notin Faults,
         <<"settle", "rollback">> \notin Faults, <<"cancel", "rollback">> \notin Faults
  PROVE  OwnerInvariant'
<1>0. ServiceTypes /\ ServiceTypes' BY TypesStep DEF OwnerInvariant
<1>1. CASE UNCHANGED vars
  <2>1. UNCHANGED <<status, pc, goal, intent, creq, quarantine, fatal, closed, up>>
    BY <1>1 DEF vars, db, tasks, health
  <2> QED BY <1>0, <2>1 DEF OwnerInvariant, WorkerKnows, Cancelling, Healthy, Active, DB!Active, Live
<1>2. ASSUME NEW r \in Runs, Admission(r) \/ WorkerStep(r) \/ StreamItem(r) \/ Deadline(r)
      PROVE  OwnerInvariant'
  BY <1>0, <1>2, WorkerOwner
<1>3. ASSUME NEW c \in Cancellers,
             \/ \E r \in Runs, owner \in IF Strangers THEN BOOLEAN ELSE {TRUE} :
                  CancelBegin(c, r, owner)
             \/ CancelStep(c)
      PROVE  OwnerInvariant'
  <2>1. (IF Strangers THEN BOOLEAN ELSE {TRUE}) = {TRUE} OBVIOUS
  <2>2. (\E r \in Runs : CancelBegin(c, r, TRUE)) \/ CancelStep(c) BY <1>3, <2>1
  <2> QED BY <1>0, <2>2, CancelOwner
<1>4. ASSUME NEW q \in quarantine, QuarantineSettles(q) PROVE OwnerInvariant'
  BY <1>0, <1>4, LateOwner
<1>5. CASE Shutdown
  <2>1. /\ UNCHANGED <<status, pc, goal, creq, quarantine>> /\ closed' = TRUE
        /\ \A s \in Runs : intent'[s] => intent[s] \/ Live(s)
    BY <1>0, <1>5, RequestedFacts DEF Shutdown, db, ServiceTypes
  <2>2. EndsOnly BY <2>1 DEF EndsOnly
  <2>3. \A s \in Runs : WorkerKnows(s)' BY <2>2, EndsKnows
  <2>4. ~Healthy' BY <2>1 DEF Healthy
  <2> QED BY <1>0, <2>1, <2>3, <2>4 DEF OwnerInvariant
<1>6. CASE ProcessEnds
  <2>1. /\ \A r \in Runs : pc'[r] = IF pc[r] = "admitting" THEN "none"
                                    ELSE IF Live(r) THEN "done" ELSE pc[r]
        /\ \A c \in Cancellers : creq'[c].pc = "idle"
        /\ \A r \in Runs : ~intent'[r]
        /\ quarantine' = {} /\ up' = FALSE /\ UNCHANGED status
    BY <1>0, <1>6, EndsFacts
  <2>2. ASSUME NEW r \in Runs PROVE WorkerKnows(r)'
    <3>1. pc[r] \in Pcs /\ WorkerKnows(r) BY <1>0 DEF OwnerInvariant, ServiceTypes
    <3>2. pc'[r] \in {"none", "done"} /\ (pc'[r] = "none" => pc[r] \in {"none", "admitting"})
      BY <2>1, <3>1 DEF Pcs, Live
    <3>3. pc'[r] = "none" => status'[r] = "absent" BY <2>1, <3>1, <3>2 DEF WorkerKnows
    <3> QED BY <2>1, <3>2, <3>3 DEF WorkerKnows, DeadlineScope
  <2>3. ~Healthy' BY <2>1 DEF Healthy
  <2> QED BY <1>0, <2>1, <2>2, <2>3 DEF OwnerInvariant
<1>7. CASE Restart
  <2>1. /\ UNCHANGED <<pc, goal, intent, creq, quarantine>>
        /\ \A r \in Runs : status'[r] = IF Active(r) THEN "failed" ELSE status[r]
    BY <1>0, <1>7, RestartFacts DEF tasks
  <2>2. EndsOnly BY <2>1 DEF EndsOnly, DB!TerminalStatuses
  <2>3. \A s \in Runs : WorkerKnows(s)' BY <2>2, EndsKnows
  <2>4. \A r \in Runs : ~Active(r)' BY <2>1 DEF Active, DB!Active, DB!ActiveStatuses
  <2> QED BY <1>0, <2>1, <2>3, <2>4 DEF OwnerInvariant
<1> QED BY <1>1, <1>2, <1>3, <1>4, <1>5, <1>6, <1>7 DEF Next

(* service.py:281: when only owners cancel, and neither an admission that *)
(* commits late nor a settlement or a cancellation that rolls back loses   *)
(* the Run, every active Run of a healthy service has a worker or a cancel *)
(* request that is about to end it, whatever else fails, hangs or crashes. *)
THEOREM EveryActiveRunHasOwner ==
  ASSUME ~Strangers, <<"admit", "late_commit">> \notin Faults,
         <<"settle", "rollback">> \notin Faults, <<"cancel", "rollback">> \notin Faults
  PROVE  Spec => []NoStrandedRun
<1>1. Init => OwnerInvariant
  <2> SUFFICES ASSUME Init PROVE OwnerInvariant OBVIOUS
  <2>1. ServiceTypes BY TypesInit
  <2>2. /\ \A r \in Runs : pc[r] = "none" /\ status[r] = "absent" /\ ~intent[r]
        /\ \A c \in Cancellers : creq[c].pc = "idle"
        /\ quarantine = {}
    BY DEF Init, DB!Init, NoCancel
  <2>3. \A r \in Runs : WorkerKnows(r) BY <2>2 DEF WorkerKnows, DeadlineScope
  <2>4. \A r \in Runs : ~Active(r) BY <2>2 DEF Active, DB!Active, DB!ActiveStatuses
  <2> QED BY <2>1, <2>2, <2>3, <2>4 DEF OwnerInvariant
<1>2. OwnerInvariant /\ [Next]_vars => OwnerInvariant' BY OwnerInductive
<1>3. OwnerInvariant => NoStrandedRun
  BY DEF OwnerInvariant, Cancelling, NoStrandedRun, Stranded
<1> QED BY <1>1, <1>2, <1>3, PTL DEF Spec

=============================================================================
