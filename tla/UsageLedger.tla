----------------------------- MODULE UsageLedger -----------------------------
(***************************************************************************)
(* The provider usage of one metered Run: the RunUsageLedger of usage.py,  *)
(* the model_attempts rows of repository.py, and the terminal that freezes *)
(* them.  Three parties meet here: the producer, which makes the provider  *)
(* calls one after the other; the cancel requests, which settle the ledger *)
(* before they end the Run; and the worker, which completes or fails it.   *)
(*                                                                         *)
(* The attempts are numbered in the order in which they begin; an entry of *)
(* the ledger and the row with the same number are the same attempt.       *)
(* Faults: a repository call may roll back, or raise after its commit.     *)
(***************************************************************************)
EXTENDS Naturals, Sequences, FiniteSets, FiniteSetsExt, UsageMetrics

CONSTANTS Cancellers,
          Tokens,    \* token counts that a provider may report
          MaxCalls,  \* bound on the provider attempts of the Run
          Faults

ASSUME LedgerAssumption ==
  /\ Tokens \subseteq Nat /\ Nil \notin Tokens
  /\ Nil \notin Cancellers /\ "producer" \notin Cancellers
  /\ Nil \notin {"producer", "succeeded", "failed", "cancelled"}
  /\ MaxCalls \in Nat
  /\ Faults \subseteq {"rollback", "late_commit"}

VARIABLES status,    \* the status of the Run row
          rows,      \* its model_attempts
          frozen,    \* its usage_metrics, or Nil
          ledger,    \* RunUsageLedger._attempts
          lock,      \* holder of _persistence_lock
          prod,      \* where the producer is
          stop,      \* its cancellation: "no", "requested", "delivered"
          worker,    \* the task of the Run: "running", "cancelled" or "exited"
          creq,      \* the cancel requests
          observed,  \* attempts whose usage was observed while the Run was active
          errors     \* metering errors raised by a legal sequence of calls

tables == <<status, rows, frozen>>
vars   == <<tables, ledger, lock, prod, stop, worker, creq, observed, errors>>

Finished == {"succeeded", "failed", "cancelled"}
Report   == Tokens \cup {Nil}

Row   == [retry : BOOLEAN, status : Finished \cup {"started", "interrupted"}, usage : Report]
Entry == [status : Finished \cup {"started"}, usage : Report, persisted : BOOLEAN,
          pending : Finished \cup {Nil}]

CancelRecord ==
  [pc : {"idle", "settling", "writing", "flushed", "ended", "raised"},
   i : 0..MaxCalls,            \* the attempt that settle_for_terminal is at
   size : 0..MaxCalls,         \* the size of the dict that it iterates over
   write : {"none", "finish", "usage"},
   known : BOOLEAN,            \* usage_known: the request found the execution
   seen : SUBSET (1..MaxCalls)]  \* usage observed when the request began

NoCancel == [pc |-> "idle", i |-> 0, size |-> 0, write |-> "none",
             known |-> FALSE, seen |-> {}]

TypeOK ==
  /\ status \in {"running", "completed", "failed", "cancelled"}
  /\ rows \in Seq(Row) /\ Len(rows) <= MaxCalls
  /\ ledger \in Seq(Entry) /\ Len(ledger) <= Len(rows)
  /\ (frozen = Nil) <=> (status = "running")
  /\ lock \in Cancellers \cup {"producer", Nil}
  /\ prod \in {"thinking", "starting", "retrying", "calling", "locking", "finishing",
               "answered", "ended"}
  /\ stop \in {"no", "requested", "delivered"}
  /\ worker \in {"running", "cancelled", "exited"}
  /\ creq \in [Cancellers -> CancelRecord]
  /\ observed \subseteq 1..MaxCalls
  /\ errors \subseteq {"conflict", "dict_changed"}

Init ==
  /\ status = "running" /\ rows = <<>> /\ frozen = Nil
  /\ ledger = <<>> /\ lock = Nil /\ prod = "thinking" /\ stop = "no" /\ worker = "running"
  /\ creq = [c \in Cancellers |-> NoCancel]
  /\ observed = {} /\ errors = {}

-----------------------------------------------------------------------------
(* Transactions *)

(* _terminal_run_usage *)
TerminalUsage(attempts) ==
  [calls   |-> Len(attempts),
   retries |-> Len(SelectSeq(attempts, LAMBDA a : a.retry)),
   tokens  |-> TokenMetric([i \in DOMAIN attempts |-> attempts[i].usage])]

(* Mutant: the attempts in flight stay open. *)
FreezeOpenAttempts(terminal, open) ==
  IF status # "running" THEN UNCHANGED tables
  ELSE status' = terminal /\ frozen' = TerminalUsage(rows) /\ UNCHANGED rows

(* complete_run, fail_run, cancel_run with _write_terminal_usage *)
EndRun(terminal, open) ==
  IF status # "running" THEN UNCHANGED tables
  ELSE /\ status' = terminal
       /\ rows' = [i \in DOMAIN rows |->
                     IF rows[i].status = "started" THEN [rows[i] EXCEPT !.status = open]
                                                   ELSE rows[i]]
       /\ frozen' = TerminalUsage(rows')

(* start_model_attempt of a Run that is running *)
StartRow(retry) ==
  /\ status = "running"
  /\ rows' = Append(rows, [retry |-> retry, status |-> "started", usage |-> Nil])
  /\ UNCHANGED <<status, frozen>>

(* finish_model_attempt *)
FinishRow(i, s, u) ==
  /\ \/ /\ status # "running" \/ (rows[i].status = s /\ rows[i].usage = u)
        /\ UNCHANGED <<rows, errors>>
     \/ /\ status = "running" /\ rows[i].status = "started"
        /\ rows' = [rows EXCEPT ![i].status = s, ![i].usage = u]
        /\ UNCHANGED errors
     \/ /\ status = "running" /\ rows[i].status # "started"
        /\ rows[i].status # s \/ rows[i].usage # u
        /\ errors' = errors \cup {"conflict"}
        /\ UNCHANGED rows
  /\ UNCHANGED <<status, frozen>>

(* record_model_attempt_usage *)
UsageRow(i, u) ==
  /\ \/ (status # "running" \/ rows[i].usage = u) /\ UNCHANGED <<rows, errors>>
     \/ /\ status = "running" /\ rows[i].usage = Nil /\ rows[i].status = "started"
        /\ rows' = [rows EXCEPT ![i].usage = u]
        /\ UNCHANGED errors
     \/ /\ status = "running" /\ rows[i].usage # u
        /\ rows[i].usage # Nil \/ rows[i].status # "started"
        /\ errors' = errors \cup {"conflict"}
        /\ UNCHANGED rows
  /\ UNCHANGED <<status, frozen>>

-----------------------------------------------------------------------------
(* The producer *)

last == Len(ledger)

(* begin_attempt.  The one retry is that of the first decision, when its   *)
(* attempt failed; any other failure ends the producer.                    *)
Begin(kind) ==
  /\ prod = "thinking" /\ stop # "requested" /\ last < MaxCalls
  /\ \/ kind = "starting" /\ \A i \in DOMAIN ledger : i = last => ledger[i].status = "succeeded"
     \/ kind = "retrying" /\ last = 1 /\ ledger[1].status = "failed"
  /\ prod' = kind
  /\ UNCHANGED <<tables, ledger, lock, stop, worker, creq, observed, errors>>

(* The attempt is persisted before the request crosses the provider        *)
(* boundary.  A cancellation that arrives meanwhile is delivered after the *)
(* commit, before the ledger has an entry.                                 *)
Started ==
  /\ prod \in {"starting", "retrying"}
  /\ \/ /\ StartRow(prod = "retrying")
        /\ IF stop = "requested"
             THEN prod' = "ended" /\ stop' = "delivered" /\ UNCHANGED ledger
             ELSE /\ ledger' = Append(ledger, [status |-> "started", usage |-> Nil,
                                               persisted |-> FALSE, pending |-> Nil])
                  /\ prod' = "calling" /\ UNCHANGED stop
     \/ /\ "late_commit" \in Faults /\ StartRow(prod = "retrying")
        /\ prod' = "ended" /\ UNCHANGED <<ledger, stop>>
     \/ /\ status # "running" \/ "rollback" \in Faults
        /\ prod' = "ended" /\ UNCHANGED <<tables, ledger, stop>>
  /\ UNCHANGED <<lock, worker, creq, observed, errors>>

(* observe_usage; a second, different report makes the call fail.          *)
Observe(u) ==
  /\ prod = "calling"
  /\ IF ledger[last].usage \in {Nil, u}
       THEN /\ ledger' = [ledger EXCEPT ![last].usage = u]
            /\ observed' = IF status = "running" THEN observed \cup {last} ELSE observed
            /\ UNCHANGED prod
       ELSE /\ ledger' = [ledger EXCEPT ![last].pending = "failed"]
            /\ prod' = "locking"
            /\ UNCHANGED observed
  /\ UNCHANGED <<tables, lock, stop, worker, creq, errors>>

(* finish_attempt up to its wait for the lock *)
Finish(s) ==
  /\ prod = "calling"
  /\ (s = "cancelled") <=> (stop = "requested")
  /\ stop' = IF s = "cancelled" THEN "delivered" ELSE stop
  /\ ledger' = [ledger EXCEPT ![last].pending = s]
  /\ prod' = "locking"
  /\ UNCHANGED <<tables, lock, worker, creq, observed, errors>>

After(s) == IF s = "cancelled" THEN "ended" ELSE "thinking"

(* The lock is granted; a settlement may have finished the attempt.  A     *)
(* cancellation of the wait leaves the finish pending.                     *)
FinishLocked ==
  /\ prod = "locking"
  /\ \/ /\ stop = "requested" /\ stop' = "delivered" /\ prod' = "ended" /\ UNCHANGED lock
     \/ /\ stop # "requested" /\ lock = Nil
        /\ IF ledger[last].status = "started"
             THEN prod' = "finishing" /\ lock' = "producer"
             ELSE prod' = After(ledger[last].status) /\ UNCHANGED lock
        /\ UNCHANGED stop
  /\ UNCHANGED <<tables, ledger, worker, creq, observed, errors>>

(* The end of _persist_pending_finish *)
Settled(i) ==
  [ledger EXCEPT ![i] = [status |-> @.pending, usage |-> @.usage,
                         persisted |-> @.usage # Nil, pending |-> Nil]]

(* _persist_pending_finish of the producer.  A cancellation that arrives   *)
(* meanwhile is delivered after the commit, before the ledger is updated.  *)
FinishPersisted ==
  LET e == ledger[last] IN
  /\ prod = "finishing"
  /\ lock' = Nil
  /\ \/ /\ FinishRow(last, e.pending, e.usage)
        /\ IF stop = "requested"
             THEN prod' = "ended" /\ stop' = "delivered" /\ UNCHANGED ledger
             ELSE prod' = After(e.pending) /\ ledger' = Settled(last) /\ UNCHANGED stop
     \/ /\ "late_commit" \in Faults /\ FinishRow(last, e.pending, e.usage)
        /\ prod' = "ended" /\ UNCHANGED <<ledger, stop>>
     \/ /\ "rollback" \in Faults
        /\ prod' = "ended" /\ UNCHANGED <<tables, ledger, stop, errors>>
  /\ UNCHANGED <<worker, creq, observed>>

(* The producer delivers its answer, or fails without a retry, or is       *)
(* cancelled between two calls.                                            *)
ProducerEnds ==
  /\ prod = "thinking"
  /\ prod' = IF last > 0 /\ ledger[last].status = "succeeded" /\ stop # "requested"
             THEN "answered" ELSE "ended"
  /\ UNCHANGED <<tables, ledger, lock, stop, worker, creq, observed, errors>>

-----------------------------------------------------------------------------
(* The worker *)

CompleteRun ==
  /\ worker # "exited" /\ prod = "answered" /\ status = "running"
  /\ EndRun("completed", "interrupted")
  /\ UNCHANGED <<ledger, lock, prod, stop, worker, creq, observed, errors>>

(* A worker that fails in its loop body does not wait for the producer.    *)
FailRun ==
  /\ worker # "exited" /\ status = "running"
  /\ EndRun("failed", "failed")
  /\ UNCHANGED <<ledger, lock, prod, stop, worker, creq, observed, errors>>

(* shutdown cancels the worker; the Run stays cancellable.                 *)
Shutdown ==
  /\ worker = "running"
  /\ worker' = "cancelled"
  /\ UNCHANGED <<tables, ledger, lock, prod, stop, creq, observed, errors>>

(* The worker returns, and discard forgets its execution: the Run has      *)
(* ended, or the worker was cancelled and its producer unwound.  (One that *)
(* gives up on its producer or its terminal makes the service refuse every *)
(* later request.)                                                         *)
WorkerExits ==
  /\ worker # "exited"
  /\ status # "running" \/ (worker = "cancelled" /\ prod \in {"answered", "ended"})
  /\ worker' = "exited"
  /\ UNCHANGED <<tables, ledger, lock, prod, stop, creq, observed, errors>>

(* The stream is closed, by a cancelled or failed worker: finish_producer. *)
StopProducer ==
  /\ stop = "no" /\ prod \notin {"answered", "ended"}
  /\ status # "running" \/ worker = "cancelled"
  /\ stop' = "requested"
  /\ UNCHANGED <<tables, ledger, lock, prod, worker, creq, observed, errors>>

-----------------------------------------------------------------------------
(* The cancel requests *)

(* cancel_run up to its settlement.  A request that comes after the        *)
(* worker's exit has no execution: it settles nothing and goes straight to *)
(* its transaction.                                                        *)
CancelBegin(c) ==
  /\ creq[c].pc = "idle"
  /\ \/ /\ worker # "exited" /\ worker' = "cancelled"
        /\ creq' = [creq EXCEPT ![c].pc = "settling", ![c].known = TRUE, ![c].seen = observed]
     \/ /\ worker = "exited" /\ UNCHANGED worker
        /\ creq' = [creq EXCEPT ![c].pc = "flushed", ![c].known = FALSE, ![c].seen = observed]
  /\ UNCHANGED <<tables, ledger, lock, prod, stop, observed, errors>>

(* Mutant: every attempt is written, finished ones too. *)
EveryAttempt(entries, from) == {i \in from..Len(entries) : entries[i].usage # Nil}

(* Mutant: the usage of an attempt in flight is not written. *)
PendingOnly(entries, from) == {i \in from..Len(entries) : entries[i].pending # Nil}

(* The attempts with something left to write: a pending finish, or a usage *)
(* that was observed and not persisted.                                    *)
Unsettled(entries, from) ==
  {i \in from..Len(entries) :
     /\ entries[i].status = "started"
     /\ entries[i].pending # Nil \/ (entries[i].usage # Nil /\ ~entries[i].persisted)}

(* A request that has left settle_for_terminal: its locals are gone.       *)
Left(c, pc) == [creq[c] EXCEPT !.pc = pc, !.i = 0, !.size = 0, !.write = "none"]

(* settle_for_terminal goes on to the next write, or ends.                 *)
Advance(c, entries, from) ==
  LET todo == Unsettled(entries, from) IN
  IF todo = {}
    THEN creq' = [creq EXCEPT ![c] = Left(c, "flushed")] /\ lock' = Nil
    ELSE LET i == Min(todo) IN
         /\ creq' = [creq EXCEPT ![c].pc = "writing", ![c].i = i, ![c].size = Len(entries),
                       ![c].write = IF entries[i].pending # Nil THEN "finish" ELSE "usage"]
         /\ lock' = c

(* Mutant: an error keeps the lock. *)
RaisedLocked(c) == creq' = [creq EXCEPT ![c] = Left(c, "raised")] /\ UNCHANGED lock

Raised(c) == creq' = [creq EXCEPT ![c] = Left(c, "raised")] /\ lock' = Nil

SettleLocked(c) ==
  /\ creq[c].pc = "settling" /\ lock = Nil
  /\ Advance(c, ledger, 1)
  /\ UNCHANGED <<tables, ledger, prod, stop, worker, observed, errors>>

SettleRow(c) ==
  LET i == creq[c].i IN
  IF creq[c].write = "finish" THEN FinishRow(i, ledger[i].pending, ledger[i].usage)
                              ELSE UsageRow(i, ledger[i].usage)

(* A writer returns, and the iteration over the dict goes on, unless the   *)
(* dict has grown meanwhile.                                               *)
SettleWrite(c) ==
  LET i == creq[c].i IN
  /\ creq[c].pc = "writing"
  /\ \/ /\ SettleRow(c) /\ errors' = errors
        /\ ledger' = IF creq[c].write = "finish" THEN Settled(i)
                     ELSE [ledger EXCEPT ![i].persisted = TRUE]
        /\ Len(ledger) = creq[c].size
        /\ Advance(c, ledger', i + 1)
     \/ /\ Len(ledger) # creq[c].size
        /\ errors' = errors \cup {"dict_changed"}
        /\ Raised(c) /\ UNCHANGED <<tables, ledger>>
     \/ /\ SettleRow(c) /\ errors' # errors
        /\ Raised(c) /\ UNCHANGED ledger
  /\ UNCHANGED <<prod, stop, worker, observed>>

SettleFault(c) ==
  /\ creq[c].pc = "writing"
  /\ \/ "rollback" \in Faults /\ UNCHANGED <<tables, errors>>
     \/ "late_commit" \in Faults /\ SettleRow(c)
  /\ Raised(c)
  /\ UNCHANGED <<ledger, prod, stop, worker, observed>>

CancelCommit(c) ==
  /\ creq[c].pc = "flushed"
  /\ EndRun("cancelled", "cancelled")
  /\ creq' = [creq EXCEPT ![c] = Left(c, IF status = "running" THEN "ended" ELSE "raised")]
  /\ UNCHANGED <<ledger, lock, prod, stop, worker, observed, errors>>

ProducerStep == Started \/ FinishLocked \/ FinishPersisted

CancelStep(c) == SettleLocked(c) \/ SettleWrite(c) \/ SettleFault(c) \/ CancelCommit(c)

Next ==
  \/ \E kind \in {"starting", "retrying"} : Begin(kind)
  \/ ProducerStep \/ ProducerEnds \/ StopProducer
  \/ \E u \in Tokens : Observe(u)
  \/ \E s \in Finished : Finish(s)
  \/ CompleteRun \/ FailRun \/ Shutdown \/ WorkerExits
  \/ \E c \in Cancellers : CancelBegin(c) \/ CancelStep(c)

(* Repository calls are bounded by timeouts; the provider owes nothing.    *)
Fairness == WF_vars(ProducerStep) /\ \A c \in Cancellers : WF_vars(CancelStep(c))

Spec == Init /\ [][Next]_vars

FairSpec == Spec /\ Fairness

-----------------------------------------------------------------------------
(* Properties *)

(* usage.py:304: a producer that begins, observes or finishes an attempt   *)
(* while cancel requests settle the ledger, whatever was committed late,   *)
(* never makes one of them raise a conflict, nor does the ledger grow      *)
(* while it is iterated over.                                              *)
NoMeteringError == errors = {}

(* account-and-usage.md:20: the frozen usage is that of the attempt rows,  *)
(* all closed: no late write of the producer or of a settlement changes    *)
(* them.                                                                   *)
FrozenUsageIsFinal ==
  frozen # Nil => /\ frozen = TerminalUsage(rows)
                  /\ \A i \in DOMAIN rows : rows[i].status # "started"

(* account-and-usage.md:9: every request that crossed the provider         *)
(* boundary has a row, counted by the frozen usage; at most the attempt    *)
(* interrupted before its request is counted in addition.                  *)
EveryRequestCounted ==
  frozen # Nil => frozen.calls \in {Len(ledger), Len(ledger) + 1}

(* What an ended Run shows as its usage counts every request and is final. *)
FrozenUsageIsExact == FrozenUsageIsFinal /\ EveryRequestCounted

(* account-and-usage.md:21: the usage observed when a cancel request that  *)
(* finds the execution begins is in the rows when that request ends the    *)
(* Run, whatever the producer and the other requests do meanwhile.         *)
CancelKeepsSeenUsage ==
  \A c \in Cancellers : creq[c].pc = "ended" /\ creq[c].known =>
    \A i \in creq[c].seen : rows[i].usage = ledger[i].usage

(* account-and-usage.md:22: the settlement is bounded: every cancel        *)
(* request that waits for the ledger gets through it.                      *)
SettlementEnds ==
  \A c \in Cancellers : creq[c].pc = "settling" ~> creq[c].pc \in {"flushed", "ended", "raised"}

(* account-and-usage.md:21: "Before cancellation freezes the Run, it stops *)
(* new provider progress and durably flushes any terminal usage already    *)
(* observed in memory".  Not kept by the code: see the README.             *)
CancelFlushesObservedUsage ==
  status = "cancelled" => \A i \in observed : rows[i].usage # Nil

(* account-and-usage.md:22: "this bounded settlement cannot be skipped in  *)
(* favor of a faster but incomplete terminal snapshot".  Not kept by a     *)
(* request that comes after the worker's exit: see the README.             *)
SettlementIsNeverSkipped ==
  \A c \in Cancellers : creq[c].pc = "ended" =>
    \A i \in creq[c].seen : rows[i].usage = ledger[i].usage
=============================================================================
