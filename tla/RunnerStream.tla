---------------------------- MODULE RunnerStream ----------------------------
(***************************************************************************)
(* DeepSeekAgentRunner.stream and the _RuntimeLifecycle it shares between  *)
(* Runs (agent_runtime.py), read by the loop of RunService._execute.       *)
(*                                                                         *)
(* A producer task runs the agent graph and puts its events, then a result *)
(* or an error, then a sentinel in a bounded queue.  The worker iterates   *)
(* over the stream and persists each event.  When an item or a             *)
(* cancellation ends the iteration inside the generator, its finally block *)
(* stops the producer before the worker goes on.  When the loop body       *)
(* raises, the abandoned generator is closed by a task of its own, which   *)
(* the event loop starts later ("due").                                    *)
(*                                                                         *)
(* Faults: "hang", a cancelled graph that does not settle; "slow", one     *)
(* that may take longer than the cleanup grace to settle; "convert", one   *)
(* that raises an ordinary error; "append", an event that cannot be        *)
(* persisted.                                                              *)
(***************************************************************************)
EXTENDS Naturals, Sequences, FiniteSets

CONSTANTS Runs,
          Capacity,     \* size of the queue
          Concurrency,  \* settings.model_concurrency
          MaxEvents,    \* bound on the events of a Run
          Faults

ASSUME RunnerAssumption ==
  /\ Capacity \in Nat \ {0} /\ Concurrency \in Nat \ {0} /\ MaxEvents \in Nat
  /\ Faults \subseteq {"hang", "convert", "append", "slow"}

VARIABLES prod,     \* where the producer of each Run is
          out,      \* the item it delivers last: "result" or "error"
          emitted,  \* number of events it emitted
          pcancel,  \* its cancellation: "no", "requested", "delivered"
          queue,
          stopped,  \* consumer_stopped
          worker,   \* where the worker of each Run is
          verdict,  \* what the stream told the worker
          closer,   \* the task that closes an abandoned generator
          cancels,  \* cancellations of the worker: "user", "deadline"
          pending,  \* one of them is not delivered yet
          rfatal,   \* _RuntimeLifecycle._fatal_error
          sfatal    \* RunService._fatal_error

producer == <<prod, out, emitted, pcancel, queue>>
consumer == <<stopped, worker, verdict, closer, cancels, pending>>
vars     == <<producer, consumer, rfatal, sfatal>>

Working == {"working", "emitting"}
Holding == Working \cup {"unwinding", "hung"}
Prods   == Holding \cup {"none", "waiting", "delivering", "completing", "done"}
Workers == {"idle", "getting", "body", "closing", "committing", "ended"}

TypeOK ==
  /\ prod \in [Runs -> Prods]
  /\ out \in [Runs -> {"none", "result", "error"}]
  /\ emitted \in [Runs -> 0..MaxEvents]
  /\ pcancel \in [Runs -> {"no", "requested", "delivered"}]
  /\ queue \in [Runs -> Seq({"event", "result", "error", "sentinel"})]
  /\ \A r \in Runs : Len(queue[r]) <= Capacity
  /\ stopped \in [Runs -> BOOLEAN]
  /\ worker \in [Runs -> Workers]
  /\ verdict \in [Runs -> {"missing", "result", "error"}]
  /\ closer \in [Runs -> {"none", "due", "closing", "over"}]
  /\ cancels \in [Runs -> SUBSET {"user", "deadline"}]
  /\ pending \in [Runs -> BOOLEAN]
  /\ rfatal \in BOOLEAN /\ sfatal \in BOOLEAN

Init ==
  /\ prod = [r \in Runs |-> "none"] /\ out = [r \in Runs |-> "none"]
  /\ emitted = [r \in Runs |-> 0] /\ pcancel = [r \in Runs |-> "no"]
  /\ queue = [r \in Runs |-> <<>>] /\ stopped = [r \in Runs |-> FALSE]
  /\ worker = [r \in Runs |-> "idle"] /\ verdict = [r \in Runs |-> "missing"]
  /\ closer = [r \in Runs |-> "none"] /\ cancels = [r \in Runs |-> {}]
  /\ pending = [r \in Runs |-> FALSE]
  /\ rfatal = FALSE /\ sfatal = FALSE

-----------------------------------------------------------------------------
(* The producer: produce() *)

Full(r)   == Len(queue[r]) = Capacity
Permits   == Concurrency - Cardinality({r \in Runs : prod[r] \in Holding})
At(r, l)  == prod' = [prod EXCEPT ![r] = l]

Put(r, i) == ~Full(r) /\ queue' = [queue EXCEPT ![r] = Append(@, i)]

(* Mutant: completion does not observe that the consumer left. *)
ConsumerUnobserved(r) == FALSE

ConsumerGone(r) == stopped[r]

(* The finally block: the sentinel, unless the consumer has left.          *)
Finally(r) == At(r, IF ConsumerGone(r) THEN "done" ELSE "completing")

Acquire(r) ==
  /\ prod[r] = "waiting" /\ pcancel[r] = "no" /\ Permits > 0
  /\ At(r, "working")
  /\ UNCHANGED <<out, emitted, pcancel, queue, consumer, rfatal, sfatal>>

Emit(r) ==
  /\ prod[r] = "working" /\ emitted[r] < MaxEvents
  /\ emitted' = [emitted EXCEPT ![r] = @ + 1]
  /\ At(r, "emitting")
  /\ UNCHANGED <<out, pcancel, queue, consumer, rfatal, sfatal>>

PutEvent(r) ==
  /\ prod[r] = "emitting" /\ Put(r, "event")
  /\ At(r, "working")
  /\ UNCHANGED <<out, emitted, pcancel, consumer, rfatal, sfatal>>

(* The graph ends: a final text, or an exception.                          *)
GraphEnds(r, item) ==
  /\ prod[r] = "working"
  /\ out' = [out EXCEPT ![r] = item]
  /\ At(r, "delivering")
  /\ UNCHANGED <<emitted, pcancel, queue, consumer, rfatal, sfatal>>

(* Mutant: the last item is dropped when the queue is full. *)
DeliverNoWait(r) ==
  /\ prod[r] = "delivering"
  /\ queue' = IF Full(r) THEN queue ELSE [queue EXCEPT ![r] = Append(@, out[r])]
  /\ Finally(r)
  /\ UNCHANGED <<out, emitted, pcancel, consumer, rfatal, sfatal>>

Deliver(r) ==
  /\ prod[r] = "delivering" /\ Put(r, out[r])
  /\ Finally(r)
  /\ UNCHANGED <<out, emitted, pcancel, consumer, rfatal, sfatal>>

Complete(r) ==
  /\ prod[r] = "completing"
  /\ Put(r, "sentinel") \/ (ConsumerGone(r) /\ UNCHANGED queue)
  /\ At(r, "done")
  /\ UNCHANGED <<out, emitted, pcancel, consumer, rfatal, sfatal>>

(* The one cancellation of finish_producer reaches the producer. *)
ProducerCancelled(r) ==
  /\ pcancel[r] = "requested"
  /\ pcancel' = [pcancel EXCEPT ![r] = "delivered"]
  /\ \/ prod[r] \in {"waiting", "delivering"} /\ Finally(r)
     \/ prod[r] = "completing" /\ At(r, "done")
     \/ prod[r] \in Working /\ At(r, "unwinding")
     \/ prod[r] \in Working /\ "hang" \in Faults /\ At(r, "hung")
  /\ UNCHANGED <<out, emitted, queue, consumer, rfatal, sfatal>>

(* The graph has cleaned up: CancelledError, or an error of the cleanup.   *)
Unwound(r) ==
  /\ prod[r] = "unwinding"
  /\ \/ Finally(r) /\ UNCHANGED out
     \/ "convert" \in Faults /\ At(r, "delivering") /\ out' = [out EXCEPT ![r] = "error"]
  /\ UNCHANGED <<emitted, pcancel, queue, consumer, rfatal, sfatal>>

-----------------------------------------------------------------------------
(* The worker: the async for of _execute *)

Goto(r, l) == worker' = [worker EXCEPT ![r] = l]

Alive(r) == worker[r] \notin {"idle", "ended"}

(* _mark_fatal of the service cancels every other worker once.             *)
MarkFatal(current) ==
  LET hit == {r \in Runs \ {current} : Alive(r) /\ cancels[r] = {}} IN
  /\ sfatal' = TRUE
  /\ cancels' = [r \in Runs |-> IF r \in hit THEN {"user"} ELSE cancels[r]]
  /\ pending' = [r \in Runs |-> pending[r] \/ r \in hit]

Open(r) ==
  /\ worker[r] = "idle" /\ ~sfatal
  /\ IF rfatal
       THEN Goto(r, "ended") /\ MarkFatal(r) /\ UNCHANGED prod
       ELSE Goto(r, "getting") /\ At(r, "waiting") /\ UNCHANGED <<sfatal, cancels, pending>>
  /\ UNCHANGED <<out, emitted, pcancel, queue, stopped, verdict, closer, rfatal>>

(* A user or a fatal error cancels a worker once; the deadline of the Run  *)
(* cancels it whatever happened before.                                    *)
Interrupt(r, kind) ==
  /\ kind = "user" => Alive(r) /\ cancels[r] = {}
  /\ kind = "deadline" => worker[r] \in {"getting", "body", "closing"}
  /\ kind \notin cancels[r]
  /\ cancels' = [cancels EXCEPT ![r] = @ \cup {kind}]
  /\ pending' = [pending EXCEPT ![r] = TRUE]
  /\ UNCHANGED <<producer, stopped, worker, verdict, closer, rfatal, sfatal>>

(* The finally block of stream: finish_producer cancels the producer once, *)
(* unless the sentinel showed that it ended by itself.                     *)
StopProducer(r, cancel) ==
  /\ stopped' = [stopped EXCEPT ![r] = TRUE]
  /\ pcancel' = IF cancel /\ prod[r] # "done" THEN [pcancel EXCEPT ![r] = "requested"]
                                              ELSE pcancel

Get(r) ==
  LET item == Head(queue[r]) IN
  /\ worker[r] = "getting" /\ ~pending[r] /\ queue[r] # <<>>
  /\ queue' = [queue EXCEPT ![r] = Tail(@)]
  /\ \/ item = "event" /\ Goto(r, "body") /\ UNCHANGED <<verdict, stopped, pcancel>>
     \/ /\ item = "result" /\ verdict' = [verdict EXCEPT ![r] = "result"]
        /\ UNCHANGED <<worker, stopped, pcancel>>
     \/ /\ item = "error" /\ verdict' = [verdict EXCEPT ![r] = "error"]
        /\ StopProducer(r, TRUE) /\ Goto(r, "closing")
     \/ /\ item = "sentinel" /\ UNCHANGED verdict
        /\ StopProducer(r, FALSE) /\ Goto(r, "closing")
  /\ UNCHANGED <<prod, out, emitted, closer, cancels, pending, rfatal, sfatal>>

GetInterrupted(r) ==
  /\ worker[r] = "getting" /\ pending[r]
  /\ pending' = [pending EXCEPT ![r] = FALSE]
  /\ StopProducer(r, TRUE) /\ Goto(r, "closing")
  /\ UNCHANGED <<prod, out, emitted, queue, verdict, closer, cancels, rfatal, sfatal>>

(* Where an interrupted worker goes: a cancelled one returns, one that     *)
(* failed or exceeded its deadline writes the terminal.                    *)
AfterRaise(r) == IF "user" \in cancels[r] THEN "ended" ELSE "committing"

Persist(r) ==
  /\ worker[r] = "body"
  /\ \/ ~pending[r] /\ Goto(r, "getting") /\ UNCHANGED <<verdict, closer, pending>>
     \/ /\ pending[r] \/ "append" \in Faults
        /\ pending' = [pending EXCEPT ![r] = FALSE]
        /\ verdict' = [verdict EXCEPT ![r] = "error"]
        /\ closer' = [closer EXCEPT ![r] = "due"]
        /\ Goto(r, AfterRaise(r))
  /\ UNCHANGED <<producer, stopped, cancels, rfatal, sfatal>>

(* finish_producer has observed the producer. *)
CloseDone(r) ==
  /\ worker[r] = "closing" /\ prod[r] = "done" /\ ~pending[r]
  /\ Goto(r, AfterRaise(r))
  /\ UNCHANGED <<producer, stopped, verdict, closer, cancels, pending, rfatal, sfatal>>

(* Mutant: a cleanup that waits for the producer without a grace. *)
NoGrace(r) == FALSE

(* A producer that cannot settle outlives the cleanup grace; a slow one,   *)
(* whose unwinding takes longer, may.                                      *)
GraceExpires(r) ==
  \/ prod[r] = "hung"
  \/ prod[r] = "delivering" /\ Full(r) /\ pcancel[r] = "delivered"
  \/ prod[r] = "unwinding" /\ "slow" \in Faults

(* RuntimeCleanupTimeout, by the grace or by a cancellation of the wait,   *)
(* fails the Runtime and, through _execute, the service.                   *)
CloseFails(r) ==
  /\ worker[r] = "closing"
  /\ pending[r] \/ GraceExpires(r)
  /\ rfatal' = TRUE
  /\ Goto(r, "ended")
  /\ MarkFatal(r)
  /\ UNCHANGED <<producer, stopped, verdict, closer>>

Commit(r) ==
  /\ worker[r] = "committing"
  /\ Goto(r, "ended")
  /\ UNCHANGED <<producer, stopped, verdict, closer, cancels, pending, rfatal, sfatal>>

(* The task that closes an abandoned generator; nobody awaits its result.  *)
CloseAbandoned(r) ==
  /\ \/ /\ closer[r] = "due"
        /\ closer' = [closer EXCEPT ![r] = "closing"]
        /\ StopProducer(r, TRUE)
        /\ UNCHANGED rfatal
     \/ /\ closer[r] = "closing" /\ prod[r] = "done"
        /\ closer' = [closer EXCEPT ![r] = "over"]
        /\ UNCHANGED <<stopped, pcancel, rfatal>>
     \/ /\ closer[r] = "closing" /\ GraceExpires(r)
        /\ closer' = [closer EXCEPT ![r] = "over"]
        /\ rfatal' = TRUE
        /\ UNCHANGED <<stopped, pcancel>>
  /\ UNCHANGED <<prod, out, emitted, queue, worker, verdict, cancels, pending, sfatal>>

ProducerStep(r) ==
  Acquire(r) \/ PutEvent(r) \/ Deliver(r) \/ Complete(r) \/ ProducerCancelled(r) \/ Unwound(r)

WorkerStep(r) ==
  Get(r) \/ GetInterrupted(r) \/ Persist(r) \/ CloseDone(r) \/ CloseFails(r) \/ Commit(r)

Next ==
  \E r \in Runs :
    \/ ProducerStep(r) \/ WorkerStep(r) \/ CloseAbandoned(r)
    \/ Open(r) \/ Emit(r)
    \/ \E item \in {"result", "error"} : GraphEnds(r, item)
    \/ \E kind \in {"user", "deadline"} : Interrupt(r, kind)

(* The event loop runs every ready task, and every Run has a deadline; the *)
(* provider owes nothing.                                                  *)
Fairness ==
  \A r \in Runs :
    /\ WF_vars(ProducerStep(r)) /\ WF_vars(WorkerStep(r)) /\ WF_vars(CloseAbandoned(r))
    /\ WF_vars(Interrupt(r, "deadline"))

Spec == Init /\ [][Next]_vars

FairSpec == Spec /\ Fairness

-----------------------------------------------------------------------------
(* Properties *)

(* service.py:491: agent_result_missing does not happen: a worker that     *)
(* reads the stream to its end without being cancelled has received the    *)
(* result or the error of the producer.                                    *)
StreamEndHasVerdict ==
  \A r \in Runs :
    worker[r] = "committing" /\ cancels[r] = {} => verdict[r] # "missing"

(* The graph ignored its cancellation, or made an ordinary error of it.    *)
Disobeyed(r) ==
  prod[r] = "hung" \/ (prod[r] = "delivering" /\ pcancel[r] = "delivered")

(* agent_runtime.py:1226: once the consumer left, its producer ends, even  *)
(* when the queue is full, if the graph honours its cancellation.          *)
ProducerNotStranded == \A r \in Runs : stopped[r] ~> prod[r] = "done" \/ Disobeyed(r)

(* agent-policy.md: the cleanup of a stream is bounded: a worker never     *)
(* waits forever for its producer, whatever the graph does.                *)
CleanupIsBounded ==
  \A r \in Runs : worker[r] = "closing" \/ closer[r] = "due"
                    ~> worker[r] # "closing" /\ closer[r] \in {"none", "over"}

-----------------------------------------------------------------------------
(* What the documents say and the code does not keep: see the README.      *)

(* agent-policy.md:150: "no model or Tool work may run" in the             *)
(* finalization window.                                                    *)
NoWorkInFinalization ==
  \A r \in Runs : worker[r] = "committing" => prod[r] \notin Working

(* agent_runtime.py:785: without a producer that hangs, only a second      *)
(* cancellation of the worker makes the Runtime fail.                      *)
OneCancelIsHarmless ==
  rfatal => \E r \in Runs : cancels[r] = {"user", "deadline"}

(* agent-policy.md:144: a Runtime that failed to settle marks the service  *)
(* unhealthy.                                                              *)
FailedCleanupMarksService == rfatal ~> sfatal
=============================================================================
