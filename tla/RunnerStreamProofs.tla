------------------------- MODULE RunnerStreamProofs -------------------------
(***************************************************************************)
(* Proofs about the stream of the agent runner, for any number of Runs, any *)
(* size of the queue and every combination of faults.                      *)
(***************************************************************************)
EXTENDS RunnerStream, TLAPS

-----------------------------------------------------------------------------
(* Queues *)

Items == {"event", "result", "error", "sentinel"}

(* The item that ends the producer's part is in the queue q. *)
HasVerdict(q) == \E i \in DOMAIN q : q[i] \in {"result", "error"}

(* A sentinel in the queue q is its last item. *)
SentinelLast(q) == \A i \in DOMAIN q : q[i] = "sentinel" => i = Len(q)

(* What a put makes of a queue. *)
LEMMA PutFacts ==
  ASSUME NEW q \in Seq(Items), NEW x \in Items
  PROVE  /\ Append(q, x) \in Seq(Items)
         /\ Len(Append(q, x)) = Len(q) + 1
         /\ HasVerdict(Append(q, x)) <=> HasVerdict(q) \/ x \in {"result", "error"}
         /\ (\A i \in DOMAIN q : q[i] # "sentinel") => SentinelLast(Append(q, x))
         /\ x # "sentinel" /\ (\A i \in DOMAIN q : q[i] # "sentinel")
              => \A i \in DOMAIN Append(q, x) : Append(q, x)[i] # "sentinel"
<1>1. /\ Append(q, x) \in Seq(Items) /\ Len(Append(q, x)) = Len(q) + 1
      /\ DOMAIN Append(q, x) = 1..(Len(q) + 1) /\ DOMAIN q = 1..Len(q) /\ Len(q) \in Nat
      /\ \A i \in 1..Len(q) : Append(q, x)[i] = q[i]
      /\ Append(q, x)[Len(q) + 1] = x
  OBVIOUS
<1>2. HasVerdict(Append(q, x)) <=> HasVerdict(q) \/ x \in {"result", "error"}
  BY <1>1 DEF HasVerdict
<1> QED BY <1>1, <1>2 DEF SentinelLast

(* What a get makes of a queue. *)
LEMMA GetFacts ==
  ASSUME NEW q \in Seq(Items), q # <<>>
  PROVE  /\ Tail(q) \in Seq(Items) /\ Head(q) \in Items
         /\ Len(Tail(q)) = Len(q) - 1 /\ Len(q) \in Nat \ {0}
         /\ HasVerdict(q) => Head(q) \in {"result", "error"} \/ HasVerdict(Tail(q))
         /\ SentinelLast(q) => SentinelLast(Tail(q))
         /\ (\E i \in DOMAIN Tail(q) : Tail(q)[i] = "sentinel")
              => \E i \in DOMAIN q : q[i] = "sentinel"
         /\ Head(q) = "sentinel" /\ SentinelLast(q) => ~HasVerdict(Tail(q))
<1>1. /\ Len(q) \in Nat \ {0} /\ Head(q) = q[1] /\ DOMAIN q = 1..Len(q)
      /\ Tail(q) \in Seq(Items) /\ Len(Tail(q)) = Len(q) - 1
      /\ DOMAIN Tail(q) = 1..(Len(q) - 1)
      /\ \A i \in 1..(Len(q) - 1) : Tail(q)[i] = q[i + 1]
      /\ Head(q) \in Items
  OBVIOUS
<1>2. HasVerdict(q) => Head(q) \in {"result", "error"} \/ HasVerdict(Tail(q))
  <2> SUFFICES ASSUME NEW i \in DOMAIN q, q[i] \in {"result", "error"}, i # 1
               PROVE  HasVerdict(Tail(q))
    BY <1>1 DEF HasVerdict
  <2>1. i - 1 \in DOMAIN Tail(q) /\ Tail(q)[i - 1] = q[i] BY <1>1
  <2> QED BY <2>1 DEF HasVerdict
<1>3. SentinelLast(q) => SentinelLast(Tail(q)) BY <1>1 DEF SentinelLast
<1>4. (\E i \in DOMAIN Tail(q) : Tail(q)[i] = "sentinel") => \E i \in DOMAIN q : q[i] = "sentinel"
  BY <1>1
<1>5. Head(q) = "sentinel" /\ SentinelLast(q) => ~HasVerdict(Tail(q))
  BY <1>1 DEF SentinelLast, HasVerdict
<1> QED BY <1>1, <1>2, <1>3, <1>4, <1>5

-----------------------------------------------------------------------------
(* The inductive invariant *)

(* The worker that still reads has not stopped the producer, and the       *)
(* producer is cancelled by nobody else.                                   *)
OneConsumer(r) ==
  /\ worker[r] = "idle" => prod[r] = "none"
  /\ worker[r] \in {"idle", "getting", "body"} => ~stopped[r] /\ closer[r] = "none"
  /\ closer[r] = "due" \/ closer[r] = "closing" => worker[r] \in {"committing", "ended"}
  /\ pcancel[r] # "no" => stopped[r]
  /\ prod[r] \in {"unwinding", "hung"} => stopped[r]
  /\ pending[r] => cancels[r] # {}

(* As long as somebody reads, a producer in its finally block has put its  *)
(* last item; the sentinel comes after everything else.                    *)
LastItem(r) ==
  /\ prod[r] = "delivering" => out[r] \in {"result", "error"}
  /\ prod[r] \in {"completing", "done"} /\ ~stopped[r]
       => verdict[r] # "missing" \/ HasVerdict(queue[r])
  /\ SentinelLast(queue[r])
  /\ prod[r] # "done" => \A i \in DOMAIN queue[r] : queue[r][i] # "sentinel"

(* A worker left the stream because it was told how the producer ended, or *)
(* because it was cancelled.                                               *)
Told(r) ==
  worker[r] \in {"closing", "committing"} => verdict[r] # "missing" \/ cancels[r] # {}

StreamInvariant ==
  /\ TypeOK
  /\ \A r \in Runs : OneConsumer(r) /\ LastItem(r) /\ Told(r)

-----------------------------------------------------------------------------
(* Steps *)

(* One Run's part of the state is the same after the step, but for         *)
(* cancellations that may have arrived.                                    *)
Untouched(s) ==
  /\ prod'[s] = prod[s] /\ out'[s] = out[s] /\ pcancel'[s] = pcancel[s]
  /\ queue'[s] = queue[s] /\ stopped'[s] = stopped[s] /\ worker'[s] = worker[s]
  /\ verdict'[s] = verdict[s] /\ closer'[s] = closer[s]
  /\ cancels[s] # {} => cancels'[s] # {}
  /\ pending'[s] => pending[s] \/ cancels'[s] # {}

Inv(r) == OneConsumer(r) /\ LastItem(r) /\ Told(r)

(* A Run that the step does not touch keeps its invariant. *)
LEMMA UntouchedKeeps ==
  ASSUME NEW s \in Runs, Inv(s), Untouched(s)
  PROVE  Inv(s)'
BY DEF Inv, Untouched, OneConsumer, LastItem, Told

(* _mark_fatal only adds cancellations. *)
LEMMA MarkFatalFacts ==
  ASSUME TypeOK, NEW r \in Runs, MarkFatal(r)
  PROVE  /\ sfatal' = TRUE
         /\ cancels' \in [Runs -> SUBSET {"user", "deadline"}] /\ pending' \in [Runs -> BOOLEAN]
         /\ \A s \in Runs : (cancels[s] # {} => cancels'[s] # {})
                            /\ (pending'[s] => pending[s] \/ cancels'[s] # {})
BY DEF MarkFatal, TypeOK

(* What the opening of a stream does: it starts a producer, or fails the   *)
(* service, which may cancel other workers.                                *)
Opened(r) ==
  /\ worker[r] = "idle"
  /\ UNCHANGED <<out, emitted, pcancel, queue, stopped, verdict, closer, rfatal>>
  /\ \/ worker' = [worker EXCEPT ![r] = "ended"] /\ prod' = prod
     \/ /\ worker' = [worker EXCEPT ![r] = "getting"]
        /\ prod' = [prod EXCEPT ![r] = "waiting"]
  /\ sfatal' \in BOOLEAN
  /\ cancels' \in [Runs -> SUBSET {"user", "deadline"}] /\ pending' \in [Runs -> BOOLEAN]
  /\ \A s \in Runs : (cancels[s] # {} => cancels'[s] # {})
                     /\ (pending'[s] => pending[s] \/ cancels'[s] # {})

(* Open is one of the two. *)
LEMMA OpenFacts ==
  ASSUME TypeOK, NEW r \in Runs, Open(r)
  PROVE  Opened(r)
<1>1. /\ worker[r] = "idle"
      /\ UNCHANGED <<out, emitted, pcancel, queue, stopped, verdict, closer, rfatal>>
      /\ \/ worker' = [worker EXCEPT ![r] = "ended"] /\ prod' = prod
         \/ /\ worker' = [worker EXCEPT ![r] = "getting"]
            /\ prod' = [prod EXCEPT ![r] = "waiting"]
      /\ MarkFatal(r) \/ UNCHANGED <<sfatal, cancels, pending>>
  BY DEF Open, Goto, At
<1>2. CASE MarkFatal(r)
  <2>1. /\ sfatal' = TRUE
        /\ cancels' \in [Runs -> SUBSET {"user", "deadline"}] /\ pending' \in [Runs -> BOOLEAN]
        /\ \A s \in Runs : (cancels[s] # {} => cancels'[s] # {})
                           /\ (pending'[s] => pending[s] \/ cancels'[s] # {})
    BY <1>2, MarkFatalFacts
  <2> QED BY <1>1, <2>1 DEF Opened
<1>3. CASE UNCHANGED <<sfatal, cancels, pending>> BY <1>1, <1>3 DEF TypeOK, Opened
<1> QED BY <1>1, <1>2, <1>3

(* finish_producer stops one producer, and cancels no other. *)
LEMMA StopFacts ==
  ASSUME TypeOK, NEW r \in Runs, NEW cancel \in BOOLEAN, StopProducer(r, cancel)
  PROVE  /\ stopped' \in [Runs -> BOOLEAN] /\ pcancel' \in [Runs -> {"no", "requested", "delivered"}]
         /\ stopped'[r]
         /\ \A s \in Runs \ {r} : stopped'[s] = stopped[s] /\ pcancel'[s] = pcancel[s]
<1>1. stopped' \in [Runs -> BOOLEAN] /\ stopped'[r] /\ \A s \in Runs \ {r} : stopped'[s] = stopped[s]
  BY DEF StopProducer, TypeOK
<1>2. CASE cancel /\ prod[r] # "done"
  BY <1>1, <1>2 DEF StopProducer, TypeOK
<1>3. CASE ~(cancel /\ prod[r] # "done")
  BY <1>1, <1>3 DEF StopProducer, TypeOK
<1> QED BY <1>2, <1>3

(* The actions keep the types: what is put in a queue is an item, because  *)
(* a producer that delivers has an item to deliver.                        *)
LEMMA StreamTypes ==
  ASSUME TypeOK, NEW r \in Runs, LastItem(r),
         \/ ProducerStep(r) \/ WorkerStep(r) \/ CloseAbandoned(r)
         \/ Open(r) \/ Emit(r)
         \/ \E item \in {"result", "error"} : GraphEnds(r, item)
         \/ \E kind \in {"user", "deadline"} : Interrupt(r, kind)
  PROVE  TypeOK'
<1> USE RunnerAssumption DEF At, Goto, Finally, ConsumerGone, Prods, Workers, Holding, Working
<1>q. queue[r] \in Seq(Items) BY DEF TypeOK, Items
<1>p. ASSUME NEW x \in Items, Put(r, x)
      PROVE  queue' \in [Runs -> Seq(Items)] /\ \A s \in Runs : Len(queue'[s]) <= Capacity
  <2>1. Append(queue[r], x) \in Seq(Items) /\ Len(Append(queue[r], x)) = Len(queue[r]) + 1
    BY <1>q, PutFacts
  <2>2. Len(queue[r]) \in Nat /\ Len(queue[r]) <= Capacity /\ Len(queue[r]) # Capacity
    BY <1>p, <1>q DEF Put, Full, TypeOK
  <2>3. queue' = [queue EXCEPT ![r] = Append(queue[r], x)] BY <1>p DEF Put
  <2>4. Len(Append(queue[r], x)) <= Capacity BY <2>1, <2>2
  <2> QED BY <2>1, <2>3, <2>4 DEF TypeOK, Items
<1>1. CASE Acquire(r) BY <1>1 DEF Acquire, TypeOK, consumer
<1>2. CASE PutEvent(r) BY <1>2, <1>p DEF PutEvent, TypeOK, consumer, Items
<1>3. CASE Deliver(r)
  <2>1. out[r] \in Items BY <1>3 DEF Deliver, LastItem, Items
  <2> QED BY <1>3, <1>p, <2>1 DEF Deliver, TypeOK, consumer, Items
<1>4. CASE Complete(r) BY <1>4, <1>p DEF Complete, TypeOK, consumer, Items
<1>5. CASE ProducerCancelled(r)
  <2>1. prod' \in [Runs -> Prods]
    <3>1. prod \in [Runs -> Prods] BY DEF TypeOK
    <3>2. \E l \in Prods : prod' = [prod EXCEPT ![r] = l] BY <1>5 DEF ProducerCancelled
    <3> QED BY <3>1, <3>2
  <2>2. /\ pcancel' = [pcancel EXCEPT ![r] = "delivered"]
        /\ UNCHANGED <<out, emitted, queue, consumer, rfatal, sfatal>>
    BY <1>5 DEF ProducerCancelled
  <2> QED BY <2>1, <2>2 DEF TypeOK, consumer
<1>6. CASE Unwound(r)
  <2>1. prod' \in [Runs -> Prods]
    <3>1. prod \in [Runs -> Prods] BY DEF TypeOK
    <3>2. \E l \in Prods : prod' = [prod EXCEPT ![r] = l] BY <1>6 DEF Unwound
    <3> QED BY <3>1, <3>2
  <2>2. out' \in [Runs -> {"none", "result", "error"}]
    <3>1. out \in [Runs -> {"none", "result", "error"}] BY DEF TypeOK
    <3>2. out' = out \/ out' = [out EXCEPT ![r] = "error"] BY <1>6 DEF Unwound
    <3> QED BY <3>1, <3>2
  <2>3. UNCHANGED <<emitted, pcancel, queue, consumer, rfatal, sfatal>> BY <1>6 DEF Unwound
  <2> QED BY <2>1, <2>2, <2>3 DEF TypeOK, consumer
<1>7. CASE Get(r)
  <2>1. Tail(queue[r]) \in Seq(Items) /\ Len(Tail(queue[r])) <= Capacity
    <3>1. Tail(queue[r]) \in Seq(Items) /\ Len(Tail(queue[r])) = Len(queue[r]) - 1
          /\ Len(queue[r]) \in Nat \ {0}
      BY <1>7, <1>q, GetFacts DEF Get
    <3> QED BY <3>1 DEF TypeOK
  <2>2. queue' = [queue EXCEPT ![r] = Tail(queue[r])] BY <1>7 DEF Get
  <2>3. queue' \in [Runs -> Seq(Items)] /\ \A s \in Runs : Len(queue'[s]) <= Capacity
    BY <2>1, <2>2 DEF TypeOK, Items
  <2>4. CASE Head(queue[r]) = "event"
    <3>1. /\ worker' = [worker EXCEPT ![r] = "body"]
          /\ UNCHANGED <<verdict, stopped, pcancel>>
          /\ UNCHANGED <<prod, out, emitted, closer, cancels, pending, rfatal, sfatal>>
      BY <1>7, <2>4 DEF Get
    <3> QED BY <2>3, <3>1 DEF TypeOK, Items
  <2>5. CASE Head(queue[r]) = "result"
    <3>1. /\ verdict' = [verdict EXCEPT ![r] = "result"]
          /\ UNCHANGED <<worker, stopped, pcancel>>
          /\ UNCHANGED <<prod, out, emitted, closer, cancels, pending, rfatal, sfatal>>
      BY <1>7, <2>5 DEF Get
    <3> QED BY <2>3, <3>1 DEF TypeOK, Items
  <2>6. CASE Head(queue[r]) \in {"error", "sentinel"}
    <3>1. StopProducer(r, TRUE) \/ StopProducer(r, FALSE) BY <1>7, <2>6 DEF Get
    <3>2. stopped' \in [Runs -> BOOLEAN] /\ pcancel' \in [Runs -> {"no", "requested", "delivered"}]
      BY <3>1, StopFacts
    <3>3. /\ verdict' = [verdict EXCEPT ![r] = "error"] \/ verdict' = verdict
          /\ worker' = [worker EXCEPT ![r] = "closing"]
          /\ UNCHANGED <<prod, out, emitted, closer, cancels, pending, rfatal, sfatal>>
      BY <1>7, <2>6 DEF Get
    <3> QED BY <2>3, <3>2, <3>3 DEF TypeOK, Items
  <2> QED BY <1>7, <2>4, <2>5, <2>6 DEF Get
<1>8. CASE GetInterrupted(r) BY <1>8 DEF GetInterrupted, StopProducer, TypeOK
<1>9. CASE Persist(r)
  <2>1. AfterRaise(r) \in Workers BY DEF AfterRaise
  <2>2. CASE UNCHANGED <<verdict, closer, pending>> /\ Goto(r, "getting")
    BY <1>9, <2>2 DEF Persist, TypeOK, producer
  <2>3. CASE /\ pending' = [pending EXCEPT ![r] = FALSE]
             /\ verdict' = [verdict EXCEPT ![r] = "error"]
             /\ closer' = [closer EXCEPT ![r] = "due"]
             /\ Goto(r, AfterRaise(r))
    <3>1. worker' \in [Runs -> Workers] BY <2>1, <2>3 DEF TypeOK
    <3>2. /\ pending' \in [Runs -> BOOLEAN]
          /\ verdict' \in [Runs -> {"missing", "result", "error"}]
          /\ closer' \in [Runs -> {"none", "due", "closing", "over"}]
      BY <2>3 DEF TypeOK
    <3>3. UNCHANGED <<prod, out, emitted, pcancel, queue, stopped, cancels, rfatal, sfatal>>
      BY <1>9 DEF Persist, producer
    <3> QED BY <3>1, <3>2, <3>3 DEF TypeOK
  <2> QED BY <1>9, <2>2, <2>3 DEF Persist
<1>10. CASE CloseDone(r) BY <1>10 DEF CloseDone, AfterRaise, TypeOK, producer
<1>11. CASE CloseFails(r) BY <1>11, MarkFatalFacts DEF CloseFails, TypeOK, producer
<1>12. CASE Commit(r) BY <1>12 DEF Commit, TypeOK, producer
<1>13. CASE CloseAbandoned(r)
  <2>1. closer' \in [Runs -> {"none", "due", "closing", "over"}] /\ rfatal' \in BOOLEAN
    <3>1. closer \in [Runs -> {"none", "due", "closing", "over"}] /\ rfatal \in BOOLEAN
      BY DEF TypeOK
    <3>2. /\ closer' = [closer EXCEPT ![r] = "closing"] \/ closer' = [closer EXCEPT ![r] = "over"]
          /\ rfatal' = rfatal \/ rfatal' = TRUE
      BY <1>13 DEF CloseAbandoned
    <3> QED BY <3>1, <3>2
  <2>2. stopped' \in [Runs -> BOOLEAN] /\ pcancel' \in [Runs -> {"no", "requested", "delivered"}]
    <3>1. CASE StopProducer(r, TRUE) BY <3>1, StopFacts
    <3>2. CASE UNCHANGED <<stopped, pcancel>> BY <3>2 DEF TypeOK
    <3> QED BY <1>13, <3>1, <3>2 DEF CloseAbandoned
  <2>3. UNCHANGED <<prod, out, emitted, queue, worker, verdict, cancels, pending, sfatal>>
    BY <1>13 DEF CloseAbandoned
  <2> QED BY <2>1, <2>2, <2>3 DEF TypeOK
<1>14. CASE Open(r)
  <2>1. Opened(r) BY <1>14, OpenFacts
  <2>2. prod' \in [Runs -> Prods]
    <3>1. prod \in [Runs -> Prods] BY DEF TypeOK
    <3>2. prod' = prod \/ prod' = [prod EXCEPT ![r] = "waiting"] BY <2>1 DEF Opened
    <3> QED BY <3>1, <3>2
  <2>3. worker' \in [Runs -> Workers]
    <3>1. worker \in [Runs -> Workers] BY DEF TypeOK
    <3>2. \E l \in Workers : worker' = [worker EXCEPT ![r] = l] BY <2>1 DEF Opened
    <3> QED BY <3>1, <3>2
  <2>4. /\ UNCHANGED <<out, emitted, pcancel, queue, stopped, verdict, closer, rfatal>>
        /\ sfatal' \in BOOLEAN /\ pending' \in [Runs -> BOOLEAN]
        /\ cancels' \in [Runs -> SUBSET {"user", "deadline"}]
    BY <2>1 DEF Opened
  <2> QED BY <2>2, <2>3, <2>4 DEF TypeOK
<1>15. CASE Emit(r) BY <1>15 DEF Emit, TypeOK, consumer
<1>16. CASE \E item \in {"result", "error"} : GraphEnds(r, item)
  BY <1>16 DEF GraphEnds, TypeOK, consumer
<1>17. CASE \E kind \in {"user", "deadline"} : Interrupt(r, kind)
  BY <1>17 DEF Interrupt, TypeOK, producer
<1> QED
  BY <1>1, <1>2, <1>3, <1>4, <1>5, <1>6, <1>7, <1>8, <1>9, <1>10, <1>11, <1>12, <1>13, <1>14,
     <1>15, <1>16, <1>17 DEF ProducerStep, WorkerStep

(* A step of one Run touches no other. *)
LEMMA OthersUntouched ==
  ASSUME TypeOK, NEW r \in Runs, NEW s \in Runs \ {r},
         \/ ProducerStep(r) \/ WorkerStep(r) \/ CloseAbandoned(r)
         \/ Open(r) \/ Emit(r)
         \/ \E item \in {"result", "error"} : GraphEnds(r, item)
         \/ \E kind \in {"user", "deadline"} : Interrupt(r, kind)
  PROVE  Untouched(s)
<1>o. Open(r) => Opened(r) BY OpenFacts
<1> USE DEF At, Goto, Finally, TypeOK, Untouched
<1>1. CASE ProducerStep(r)
  BY <1>1 DEF ProducerStep, Acquire, PutEvent, Put, Deliver, Complete, ProducerCancelled,
              Unwound, consumer
<1>2. CASE Get(r) BY <1>2 DEF Get, StopProducer
<1>3. CASE GetInterrupted(r) BY <1>3 DEF GetInterrupted, StopProducer
<1>4. CASE Persist(r) \/ CloseDone(r) \/ Commit(r)
  BY <1>4 DEF Persist, CloseDone, Commit, producer
<1>5. CASE CloseFails(r) BY <1>5, MarkFatalFacts DEF CloseFails, producer
<1>6. CASE CloseAbandoned(r) BY <1>6 DEF CloseAbandoned, StopProducer
<1>7. CASE Open(r) BY <1>o, <1>7 DEF Opened
<1>8. CASE Emit(r) BY <1>8 DEF Emit, consumer
<1>9. CASE \E item \in {"result", "error"} : GraphEnds(r, item) BY <1>9 DEF GraphEnds, consumer
<1>10. CASE \E kind \in {"user", "deadline"} : Interrupt(r, kind) BY <1>10 DEF Interrupt, producer
<1> QED
  BY <1>1, <1>2, <1>3, <1>4, <1>5, <1>6, <1>7, <1>8, <1>9, <1>10 DEF WorkerStep

(* A step of the producer keeps the invariant of its Run. *)
LEMMA ProducerKeeps ==
  ASSUME TypeOK, NEW r \in Runs, Inv(r), 
         \/ ProducerStep(r) \/ Emit(r)
         \/ \E item \in {"result", "error"} : GraphEnds(r, item)
  PROVE  Inv(r)'
<1> USE DEF At, Finally, ConsumerGone, Inv, OneConsumer, LastItem, Told
<1>q. queue[r] \in Seq(Items) BY DEF TypeOK, Items
<1>p. ASSUME NEW x \in Items, Put(r, x)
      PROVE  /\ queue'[r] = Append(queue[r], x)
             /\ HasVerdict(queue'[r]) <=> HasVerdict(queue[r]) \/ x \in {"result", "error"}
             /\ (\A i \in DOMAIN queue[r] : queue[r][i] # "sentinel") => SentinelLast(queue'[r])
             /\ x # "sentinel" /\ (\A i \in DOMAIN queue[r] : queue[r][i] # "sentinel")
                  => \A i \in DOMAIN queue'[r] : queue'[r][i] # "sentinel"
  <2>1. queue'[r] = Append(queue[r], x) BY <1>p DEF Put, TypeOK
  <2> QED BY <2>1, <1>q, PutFacts
<1>1. CASE Acquire(r) BY <1>1 DEF Acquire, TypeOK, consumer
<1>2. CASE PutEvent(r)
  <2>1. "event" \in Items BY DEF Items
  <2> QED BY <1>2, <1>p, <2>1 DEF PutEvent, TypeOK, consumer
<1>3. CASE Deliver(r)
  <2>1. out[r] \in Items /\ out[r] \in {"result", "error"} BY <1>3 DEF Deliver, Items
  <2> QED BY <1>3, <1>p, <2>1 DEF Deliver, TypeOK, consumer
<1>4. CASE Complete(r)
  <2>1. "sentinel" \in Items BY DEF Items
  <2> QED BY <1>4, <1>p, <2>1 DEF Complete, TypeOK, consumer
<1>5. CASE ProducerCancelled(r)
  <2>1. stopped[r] BY <1>5 DEF ProducerCancelled
  <2>2. prod'[r] \in {"done", "unwinding", "hung"} /\ pcancel'[r] = "delivered"
    BY <1>5, <2>1 DEF ProducerCancelled, TypeOK
  <2>3. prod'[r] # "done" => prod[r] \in Working
    BY <1>5, <2>1 DEF ProducerCancelled, TypeOK
  <2>4. prod[r] \notin {"none", "done"} BY <1>5 DEF ProducerCancelled, Working
  <2> QED BY <1>5, <2>1, <2>2, <2>3, <2>4 DEF ProducerCancelled, consumer, Working
<1>6. CASE Unwound(r) BY <1>6 DEF Unwound, TypeOK, consumer
<1>7. CASE Emit(r) BY <1>7 DEF Emit, TypeOK, consumer
<1>8. CASE \E item \in {"result", "error"} : GraphEnds(r, item)
  BY <1>8 DEF GraphEnds, TypeOK, consumer
<1> QED BY <1>1, <1>2, <1>3, <1>4, <1>5, <1>6, <1>7, <1>8 DEF ProducerStep

(* A step of the worker, of its canceller or of the closer keeps the       *)
(* invariant of its Run.                                                   *)
LEMMA ConsumerKeeps ==
  ASSUME TypeOK, NEW r \in Runs, Inv(r),
         \/ WorkerStep(r) \/ CloseAbandoned(r) \/ Open(r)
         \/ \E kind \in {"user", "deadline"} : Interrupt(r, kind)
  PROVE  Inv(r)'
<1> USE DEF Goto, At, Inv, OneConsumer, LastItem, Told
<1>1. CASE Get(r)
  <2>1. queue[r] \in Seq(Items) /\ queue[r] # <<>> BY <1>1 DEF Get, TypeOK, Items
  <2>2. queue'[r] = Tail(queue[r]) BY <1>1 DEF Get, TypeOK
  <2>3. /\ HasVerdict(queue[r]) => Head(queue[r]) \in {"result", "error"} \/ HasVerdict(queue'[r])
        /\ SentinelLast(queue'[r])
        /\ (\E i \in DOMAIN queue'[r] : queue'[r][i] = "sentinel")
              => \E i \in DOMAIN queue[r] : queue[r][i] = "sentinel"
        /\ Head(queue[r]) = "sentinel" => ~HasVerdict(queue'[r])
    BY <2>1, <2>2, GetFacts
  <2>4. Head(queue[r]) = "sentinel" => prod[r] = "done"
    <3>1. 1 \in DOMAIN queue[r] /\ Head(queue[r]) = queue[r][1] BY <2>1
    <3> QED BY <3>1
  <2> QED BY <1>1, <2>3, <2>4 DEF Get, StopProducer, TypeOK
<1>2. CASE GetInterrupted(r) BY <1>2 DEF GetInterrupted, StopProducer, TypeOK
<1>3. CASE Persist(r) BY <1>3 DEF Persist, AfterRaise, TypeOK, producer
<1>4. CASE CloseDone(r) BY <1>4 DEF CloseDone, AfterRaise, TypeOK, producer
<1>5. CASE CloseFails(r) BY <1>5, MarkFatalFacts DEF CloseFails, TypeOK, producer
<1>6. CASE Commit(r) BY <1>6 DEF Commit, TypeOK, producer
<1>7. CASE CloseAbandoned(r) BY <1>7 DEF CloseAbandoned, StopProducer, TypeOK
<1>8. CASE Open(r)
  <2>1. Opened(r) BY <1>8, OpenFacts
  <2> QED BY <2>1 DEF Opened, TypeOK
<1>9. CASE \E kind \in {"user", "deadline"} : Interrupt(r, kind)
  BY <1>9 DEF Interrupt, TypeOK, producer
<1> QED BY <1>1, <1>2, <1>3, <1>4, <1>5, <1>6, <1>7, <1>8, <1>9 DEF WorkerStep

(* The invariant holds at first. *)
LEMMA StreamInit == Init => StreamInvariant
<1> SUFFICES ASSUME Init PROVE StreamInvariant OBVIOUS
<1>1. \A r \in Runs : queue[r] = <<>> /\ DOMAIN queue[r] = {} /\ Len(queue[r]) = 0
  BY DEF Init
<1>2. TypeOK
  <2>1. \A r \in Runs : Len(queue[r]) <= Capacity BY <1>1, RunnerAssumption
  <2>2. queue \in [Runs -> Seq({"event", "result", "error", "sentinel"})] BY DEF Init
  <2>3. emitted \in [Runs -> 0..MaxEvents] BY RunnerAssumption DEF Init
  <2> QED BY <2>1, <2>2, <2>3 DEF Init, TypeOK, Prods, Workers
<1>3. \A r \in Runs : SentinelLast(queue[r]) BY <1>1 DEF SentinelLast
<1> QED BY <1>1, <1>2, <1>3 DEF Init, StreamInvariant, OneConsumer, LastItem, Told

(* Every step keeps the invariant. *)
LEMMA StreamNext == StreamInvariant /\ [Next]_vars => StreamInvariant'
<1> SUFFICES ASSUME StreamInvariant, [Next]_vars PROVE StreamInvariant' OBVIOUS
<1>0. TypeOK /\ \A s \in Runs : Inv(s) BY DEF StreamInvariant, Inv
<1>1. CASE UNCHANGED vars
  BY <1>0, <1>1 DEF StreamInvariant, TypeOK, OneConsumer, LastItem, Told, vars, producer, consumer
<1>2. ASSUME NEW r \in Runs,
             \/ ProducerStep(r) \/ WorkerStep(r) \/ CloseAbandoned(r)
             \/ Open(r) \/ Emit(r)
             \/ \E item \in {"result", "error"} : GraphEnds(r, item)
             \/ \E kind \in {"user", "deadline"} : Interrupt(r, kind)
      PROVE  StreamInvariant'
  <2>1. LastItem(r) BY <1>0 DEF Inv
  <2>2. TypeOK' BY <1>0, <1>2, <2>1, StreamTypes
  <2>3. Inv(r)' BY <1>0, <1>2, ProducerKeeps, ConsumerKeeps
  <2>4. \A s \in Runs \ {r} : Inv(s)'
    <3> TAKE s \in Runs \ {r}
    <3>1. Untouched(s) BY <1>0, <1>2, OthersUntouched
    <3>2. Inv(s) /\ s \in Runs BY <1>0
    <3> QED BY <3>1, <3>2, UntouchedKeeps
  <2>5. \A s \in Runs : Inv(s)' BY <2>3, <2>4
  <2> QED BY <2>2, <2>5 DEF StreamInvariant, Inv
<1> QED BY <1>1, <1>2 DEF Next

-----------------------------------------------------------------------------
(* Theorems *)

(* service.py:491, agent_runtime.py:1150-1290: whatever the size of the    *)
(* queue and the number of Runs, and whether graphs hang, turn their       *)
(* cancellation into an error or emit events that cannot be persisted, a   *)
(* worker that ends a stream uncancelled was told how its producer ended:  *)
(* agent_result_missing is never committed.                                *)
THEOREM StreamEndsWithVerdict == Spec => []StreamEndHasVerdict
<1>1. StreamInvariant => StreamEndHasVerdict
  BY DEF StreamInvariant, Told, StreamEndHasVerdict
<1> QED BY <1>1, StreamInit, StreamNext, PTL DEF Spec

(* The queue never holds more than its capacity, nothing but items is ever *)
(* put in it, and every variable keeps its type.                           *)
THEOREM StreamTypeCorrect == Spec => []TypeOK
<1>1. StreamInvariant => TypeOK BY DEF StreamInvariant
<1> QED BY <1>1, StreamInit, StreamNext, PTL DEF Spec
=============================================================================
