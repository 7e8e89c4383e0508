------------------------- MODULE RunExecutionProofs -------------------------
(***************************************************************************)
(* Proofs about one execution under the policy ledger: for any registry,   *)
(* any budgets and any provider, the budgets hold, the answer comes last,  *)
(* the consumer accepts every event and the evidence of a completed Run is *)
(* complete.                                                               *)
(***************************************************************************)
EXTENDS RunExecution, FiniteSetTheorems, TLAPS

-----------------------------------------------------------------------------
(* The inductive invariant *)

Call == [tool : Tools, stage : Stages, out : Seq(Items)]

ExecutionTypes ==
  /\ calls \in Seq(Call) /\ Len(calls) <= attempted /\ Len(calls) <= MaxToolCalls
  /\ attempted \in Nat /\ batch \subseteq DOMAIN calls
  /\ contributors \in [Sources -> SUBSET Nat]
  /\ queue \in Seq(Items) /\ saved \in Seq(Items)
  /\ steps \in Nat /\ requests \in Nat /\ hops \in Nat
  /\ pc \in {"model", "deciding", "tools", "exit", "drafted", "answering", "delivering", "ended"}
  /\ control \in {"none", "pending", "completed"}
  /\ last \in Items \cup {NoItem}
  /\ pc = "delivering" => last \in Items
  /\ IsFiniteSet(Generated)

(* Each turn of the graph spends a model step and at most three hops.      *)
StepsBound ==
  /\ requests <= steps /\ requests <= MaxSteps /\ steps <= MaxSteps + 1
  /\ pc \notin {"delivering", "ended"} => steps <= MaxSteps
  /\ hops <= 3 * steps + 1
  /\ pc = "model" => hops <= 3 * steps
  /\ pc \in {"deciding", "tools", "drafted"} => hops + 2 <= 3 * steps
  /\ pc = "exit" => hops + 1 <= 3 * steps

(* What the graph has decided so far. *)
Decisions ==
  /\ control # "none" =>
       /\ pc \in {"tools", "exit", "answering", "delivering", "ended"}
       /\ \A i \in batch : calls[i].tool \in Terminal
  /\ pc = "exit" => control # "pending"
  /\ pc = "drafted" => "text" \in seen
  /\ pc = "answering" => control = "completed" \/ "text" \in seen \/ visible = {}
  /\ last # Failure("finalizer_exit_invalid")
  /\ pc \notin {"delivering", "ended"} => last = NoItem
  /\ pc = "delivering" => last.type \in {"error", "result"}

(* Where the calls are. *)
CallsDone ==
  /\ \A i \in DOMAIN calls : i \notin batch => calls[i].stage = "done"
  /\ pc \notin {"tools", "delivering", "ended"} \/ last.type = "result" =>
       \A i \in DOMAIN calls : calls[i].stage = "done"
  /\ last.type = "result" => last = Result(Generated)
  /\ FewSources => \A i \in DOMAIN calls : calls[i].stage # "starting"

(* All the events that left the graph, in order. *)
Trail == saved \o queue

InTrail(e) == \E k \in DOMAIN Trail : Trail[k] = e

Before(e, k) == \E n \in DOMAIN Trail : n < k /\ Trail[n] = e

(* What call i has still to emit, and what it has emitted. *)
CallEvents(i) ==
  LET c == calls[i] IN
  /\ c.stage = "starting" => c.out = <<Started(i)>>
  /\ c.stage \in {"reserved", "running", "done"} => c.out = <<>>
  /\ c.stage = "emitting" =>
       /\ c.out # <<>>
       /\ \A k \in DOMAIN c.out :
            \/ k = 1 /\ c.out[k] = Finished(i)
            \/ \E s \in Sources : c.out[k] = Added(s) /\ i \in contributors[s]
  /\ InTrail(Started(i)) <=> c.stage \in {"running", "emitting", "done"}
  /\ InTrail(Finished(i)) <=>
       c.stage = "done" \/ (c.stage = "emitting" /\ c.out[1] # Finished(i))

(* What is in the trail, and what went before it. *)
TrailEvent(k) ==
  \/ \E i \in DOMAIN calls : Trail[k] = Started(i)
  \/ \E i \in DOMAIN calls : Trail[k] = Finished(i) /\ Before(Started(i), k)
  \/ \E s \in Generated : /\ Trail[k] = Added(s)
                          /\ \E i \in contributors[s] : Before(Finished(i), k)
  \/ Trail[k] = Delta /\ pc \in {"answering", "delivering", "ended"}
  \/ Trail[k] = last /\ last.type \in {"error", "result"} /\ k = Len(Trail) /\ pc = "ended"

TrailEvents == \A k \in DOMAIN Trail : TrailEvent(k)

(* An event is in one place only. *)
OnePlace ==
  /\ \A j, k \in DOMAIN Trail : Trail[j] = Trail[k] => j = k \/ Trail[k] = Delta
  /\ \A i \in DOMAIN calls : \A k \in DOMAIN calls[i].out : ~InTrail(calls[i].out[k])
  /\ \A i, j \in DOMAIN calls : \A k \in DOMAIN calls[i].out, m \in DOMAIN calls[j].out :
       calls[i].out[k] = calls[j].out[m] => i = j /\ k = m

(* A source that was reported is announced, or is about to be. *)
SourcesPlaced ==
  \A s \in Generated :
    \/ InTrail(Added(s))
    \/ \E i \in DOMAIN calls : \E k \in DOMAIN calls[i].out : calls[i].out[k] = Added(s)

Evidence ==
  /\ \A i \in DOMAIN calls : CallEvents(i)
  /\ TrailEvents /\ OnePlace /\ SourcesPlaced

(* The answer begins when no Tool event can follow. *)
AnswerLast ==
  \A k, n \in DOMAIN Trail :
    k < n /\ Trail[k] = Delta => Trail[n].type \in {"message.delta", "error", "result"}

Core == Decisions /\ CallsDone /\ Evidence /\ AnswerLast

(* What is left of a finished execution are its results. *)
ExecutionInvariant ==
  /\ ExecutionTypes /\ StepsBound
  /\ verdict = "none" => Core
  /\ verdict # "none" => BudgetsHold /\ AnswerComesLast /\ EvidenceIsSound

-----------------------------------------------------------------------------
(* Items *)

(* The kind and the content of each item. *)
LEMMA ItemKinds ==
  /\ \A i : Started(i).type = "tool.started" /\ Started(i).call = i
  /\ \A i : Finished(i).type = "tool.finished" /\ Finished(i).call = i
  /\ \A s : Added(s).type = "source.added" /\ Added(s).source = s
  /\ Delta.type = "message.delta" /\ NoItem.type = "none"
  /\ \A c : Failure(c).type = "error" /\ Failure(c).code = c
  /\ \A S : Result(S).type = "result" /\ Result(S).sources = S
BY DEF Started, Finished, Added, Delta, NoItem, Failure, Result

(* An item says which call or which source it is about. *)
LEMMA ItemsDiffer ==
  /\ \A i, j : Started(i) # Finished(j)
  /\ \A i, j : Started(i) = Started(j) => i = j
  /\ \A i, j : Finished(i) = Finished(j) => i = j
  /\ \A r, s : Added(r) = Added(s) => r = s
  /\ \A i, s : Started(i) # Added(s) /\ Finished(i) # Added(s)
  /\ \A i : Started(i) # Delta /\ Finished(i) # Delta /\ Added(i) # Delta
BY ItemKinds

(* What the parts of an execution put in the queue are items. *)
LEMMA ItemTypes ==
  /\ \A i \in 1..MaxToolCalls : Started(i) \in Items /\ Finished(i) \in Items
  /\ \A s \in Sources : Added(s) \in Items
  /\ Delta \in Items
  /\ \A c \in Codes : Failure(c) \in Items
  /\ \A S \in SUBSET Sources : Result(S) \in Items
BY DEF Items, Events

-----------------------------------------------------------------------------
(* The list of the new sources *)

(* Numbering a finite set of numbers from below reaches every number up to *)
(* the size of the set, and each once.                                     *)
LEMMA PlacesNumbered ==
  ASSUME NEW n \in Nat, NEW S \in SUBSET (1..n)
  PROVE  /\ IsFiniteSet(S) /\ Cardinality(S) \in Nat
         /\ \A k \in 1..Cardinality(S) :
              \E m \in S : Cardinality({p \in S : p <= m}) = k
         /\ \A m \in S : Cardinality({p \in S : p <= m}) \in 1..Cardinality(S)
         /\ \A m, q \in S :
              Cardinality({p \in S : p <= m}) = Cardinality({p \in S : p <= q}) => m = q
<1> DEFINE below(m) == {p \in S : p <= m}
           place == [m \in S |-> Cardinality(below(m))]
<1>1. IsFiniteSet(1..n) BY FS_Interval
<1>2. IsFiniteSet(S) BY <1>1, FS_Subset
<1>3. Cardinality(S) \in Nat BY <1>2, FS_CardinalityType
<1>4. ASSUME NEW m \in S
      PROVE  /\ IsFiniteSet(below(m)) /\ Cardinality(below(m)) \in Nat
             /\ Cardinality(below(m)) <= Cardinality(S) /\ m \in below(m)
             /\ Cardinality(below(m)) # 0
  <2>1. below(m) \in SUBSET S OBVIOUS
  <2>2. m \in below(m) OBVIOUS
  <2> HIDE DEF below
  <2>3. IsFiniteSet(below(m)) /\ Cardinality(below(m)) <= Cardinality(S) BY <1>2, <2>1, FS_Subset
  <2>4. Cardinality(below(m)) \in Nat BY <2>3, FS_CardinalityType
  <2>5. Cardinality(below(m)) # 0 BY <2>2, <2>3, FS_EmptySet
  <2> QED BY <2>2, <2>3, <2>4, <2>5
<1>5. ASSUME NEW m \in S PROVE Cardinality(below(m)) \in 1..Cardinality(S)
  <2>1. /\ Cardinality(below(m)) \in Nat /\ Cardinality(below(m)) <= Cardinality(S)
        /\ Cardinality(below(m)) # 0
    BY <1>4
  <2> HIDE DEF below
  <2> QED BY <1>3, <2>1
<1>6. ASSUME NEW m \in S, NEW p \in S, m < p
      PROVE  Cardinality(below(m)) # Cardinality(below(p))
  <2>0. m \in Nat /\ p \in Nat /\ \A q \in S : q \in Nat OBVIOUS
  <2>1. \A q \in S : q <= m => q <= p BY <1>6, <2>0
  <2>3. below(m) \in SUBSET below(p) BY <2>1
  <2>4. p \in below(p) /\ p \notin below(m) BY <1>6, <2>0
  <2>2. IsFiniteSet(below(p)) BY <1>4
  <2> HIDE DEF below
  <2> QED BY <2>2, <2>3, <2>4, FS_Subset
<1>7. place \in [S -> 1..Cardinality(S)] BY <1>5
<1>8. \A m, p \in S : place[m] = place[p] => m = p
  <2> SUFFICES ASSUME NEW m \in S, NEW p \in S, m # p PROVE place[m] # place[p]
    OBVIOUS
  <2>1. m \in Nat /\ p \in Nat OBVIOUS
  <2>2. m < p \/ p < m BY <2>1
  <2>3. place[m] = Cardinality(below(m)) /\ place[p] = Cardinality(below(p)) OBVIOUS
  <2> HIDE DEF below, place
  <2> QED BY <1>6, <2>2, <2>3
<1>9. place \in Injection(S, 1..Cardinality(S))
  <2> HIDE DEF place
  <2> QED BY <1>7, <1>8 DEF Injection, IsInjective
<1>10. IsFiniteSet(1..Cardinality(S)) /\ Cardinality(1..Cardinality(S)) = Cardinality(S)
  BY <1>3, FS_Interval
<1>11. place \in Surjection(S, 1..Cardinality(S))
  <2> HIDE DEF place
  <2> QED BY <1>9, <1>10, FS_Injection
<1>12. ASSUME NEW k \in 1..Cardinality(S) PROVE \E m \in S : Cardinality(below(m)) = k
  <2>1. PICK m \in S : place[m] = k
    <3> HIDE DEF place
    <3> QED BY <1>11 DEF Surjection
  <2> QED BY <2>1
<1>13. \A m, q \in S : Cardinality(below(m)) = Cardinality(below(q)) => m = q
  BY <1>8
<1> QED BY <1>2, <1>3, <1>5, <1>12, <1>13

(* Announced lists the new sources of the call, each once.                 *)
LEMMA AnnouncedFacts ==
  ASSUME NEW i, calls[i].tool \in Tools, NEW new, new = Announced(i)
  PROVE  /\ new \in Seq(Sources) /\ DOMAIN new = 1..Len(new) /\ Len(new) \in Nat
         /\ Range(new) = {s \in Range(SourcesOf[calls[i].tool]) : contributors[s] = {}}
         /\ \A j, k \in DOMAIN new : new[j] = new[k] => j = k
<1> PICK all : all = SourcesOf[calls[i].tool] OBVIOUS
<1> DEFINE S == {m \in DOMAIN all : contributors[all[m]] = {}}
           Place(m) == Cardinality({p \in S : p <= m})
           Pick(k) == CHOOSE m \in S : Place(m) = k
<1>1. /\ all \in Seq(Range(all)) /\ \A a, b \in DOMAIN all : all[a] = all[b] => a = b
      /\ DOMAIN all = 1..Len(all) /\ Len(all) \in Nat
  BY ExecutionAssumption DEF IsInjective
<1>2. Range(all) \subseteq Sources BY DEF Sources
<1>3. new = [k \in 1..Cardinality(S) |-> all[Pick(k)]] BY DEF Announced
<1>4. S \in SUBSET (1..Len(all)) BY <1>1
<1> HIDE DEF S
<1>5. /\ Cardinality(S) \in Nat
      /\ \A k \in 1..Cardinality(S) : \E m \in S : Place(m) = k
      /\ \A m \in S : Place(m) \in 1..Cardinality(S)
      /\ \A m, q \in S : Place(m) = Place(q) => m = q
  <2> PICK n \in Nat : n = Len(all) BY <1>1
  <2>1. S \in SUBSET (1..n) BY <1>4
  <2> QED BY <2>1, PlacesNumbered
<1> HIDE DEF Place
<1>6. \A k \in 1..Cardinality(S) : Pick(k) \in S /\ Place(Pick(k)) = k
  BY <1>5
<1> HIDE DEF Pick
<1>7. \A m \in S : m \in DOMAIN all /\ all[m] \in Range(all) /\ contributors[all[m]] = {}
  BY DEF S, Range
<1>8. /\ new \in [1..Cardinality(S) -> Sources] /\ DOMAIN new = 1..Cardinality(S)
      /\ \A k \in 1..Cardinality(S) : new[k] = all[Pick(k)]
  BY <1>2, <1>3, <1>6, <1>7
<1>9. new \in Seq(Sources) /\ Len(new) = Cardinality(S) BY <1>5, <1>8
<1>10. ASSUME NEW s \in Range(new) PROVE s \in Range(all) /\ contributors[s] = {}
  <2>1. PICK k \in 1..Cardinality(S) : s = new[k] BY <1>8 DEF Range
  <2> QED BY <1>6, <1>7, <1>8, <2>1
<1>11. ASSUME NEW s \in Range(all), contributors[s] = {} PROVE s \in Range(new)
  <2>1. PICK m \in DOMAIN all : all[m] = s BY DEF Range
  <2>2. m \in S BY <1>11, <2>1 DEF S
  <2>3. Place(m) \in 1..Cardinality(S) BY <1>5, <2>2
  <2>4. Pick(Place(m)) \in S /\ Place(Pick(Place(m))) = Place(m) BY <1>6, <2>3
  <2>5. PICK p \in S : p = Pick(Place(m)) /\ Place(p) = Place(m) BY <2>4
  <2>6. p = m BY <1>5, <2>2, <2>5
  <2>7. new[Place(m)] = s BY <1>8, <2>1, <2>3, <2>5, <2>6
  <2> QED BY <1>8, <2>3, <2>7 DEF Range
<1>12. ASSUME NEW j \in DOMAIN new, NEW k \in DOMAIN new, new[j] = new[k] PROVE j = k
  <2>1. Pick(j) = Pick(k) BY <1>1, <1>6, <1>7, <1>8, <1>12
  <2> QED BY <1>6, <1>8, <2>1
<1> QED BY <1>8, <1>9, <1>10, <1>11, <1>12

(* A Tool reports finitely many sources. *)
LEMMA SourcesFinite ==
  ASSUME NEW t \in Tools
  PROVE  IsFiniteSet(Range(SourcesOf[t])) /\ Range(SourcesOf[t]) \subseteq Sources
<1> PICK all : all = SourcesOf[t] OBVIOUS
<1>1. all \in Seq(Range(all)) /\ DOMAIN all = 1..Len(all) /\ Len(all) \in Nat
  BY ExecutionAssumption
<1>2. all \in Surjection(1..Len(all), Range(all)) BY <1>1 DEF Surjection, Range
<1>3. IsFiniteSet(1..Len(all)) BY <1>1, FS_Interval
<1>4. IsFiniteSet(Range(all)) BY <1>2, <1>3, FS_Surjection
<1> QED BY <1>4 DEF Sources

-----------------------------------------------------------------------------
(* What the actions do *)

LiveLabels == {"model", "deciding", "tools", "exit", "drafted", "answering"}

(* An exception: the graph delivers its code, which is not the one of an   *)
(* exit without decision.                                                  *)
Failed ==
  /\ pc' = "delivering"
  /\ \E c \in Codes \ {"finalizer_exit_invalid"} : last' = Failure(c)

(* before_model_call asks the provider, or ends the graph. *)
LEMMA ModelCallFacts ==
  ASSUME ExecutionTypes, NEW label \in {"answering", "deciding"}, BeforeModelCall(label)
  PROVE  \/ Failed /\ requests' = requests /\ steps' \in {steps, steps + 1}
         \/ /\ pc' = label /\ last' = last /\ steps' = steps + 1 /\ steps' <= MaxSteps
            /\ requests' = requests + 1
<1>1. steps \in Nat /\ MaxSteps \in Nat BY ExecutionAssumption DEF ExecutionTypes
<1>2. CASE noProgress' >= MaxNoProgress
  BY <1>2 DEF BeforeModelCall, Fail, Failed, Codes
<1>3. CASE ~(noProgress' >= MaxNoProgress) /\ StepsSpent
  BY <1>3 DEF BeforeModelCall, Fail, Failed, Codes
<1>4. CASE ~(noProgress' >= MaxNoProgress) /\ ~StepsSpent
  BY <1>1, <1>4 DEF BeforeModelCall, StepsSpent
<1> QED BY <1>2, <1>3, <1>4

(* A reservation of the calls ts. *)
Reserved(ts) ==
  LET new == [k \in DOMAIN ts |-> [tool |-> ts[k], stage |-> "reserved", out |-> <<>>]] IN
  /\ calls' = calls \o new /\ batch' = DOMAIN calls' \ DOMAIN calls
  /\ attempted' = attempted + Len(ts) /\ attempted' <= MaxToolCalls
  /\ pc' = "tools" /\ last' = last

(* The decision fails, is a draft, or reserves its calls; the control goes *)
(* only with terminal Tools.                                               *)
LEMMA DecideFacts ==
  ASSUME ExecutionTypes, NEW ts \in Batches, NEW ctl \in BOOLEAN, NEW text \in BOOLEAN,
         Decide(ts, ctl, text)
  PROVE  /\ pc = "deciding" /\ verdict = "none"
         /\ UNCHANGED <<world, steps, noProgress, retried, contributors, queue, requests, hops>>
         /\ \/ /\ Failed /\ UNCHANGED <<calls, batch, control>>
               /\ attempted' = attempted \/ attempted' = attempted + Len(ts)
            \/ /\ pc' = "drafted" /\ batch' = {} /\ UNCHANGED <<attempted, calls, last, control>>
               /\ "text" \in seen'
            \/ /\ Reserved(ts)
               /\ control' = IF ctl THEN "pending" ELSE control
               /\ ctl => control = "none" /\ \A k \in DOMAIN ts : ts[k] \in Terminal
<1>1. /\ pc = "deciding" /\ verdict = "none"
      /\ UNCHANGED <<world, steps, noProgress, retried, contributors, queue, requests, hops>>
  BY DEF Decide, At
<1> DEFINE invalid == IF ctl THEN \/ text \/ control # "none"
                                  \/ \E i \in DOMAIN ts : ts[i] \notin visible \cap Terminal
                             ELSE ts = <<>> /\ ~text
<1>2. CASE invalid
  <2>1. /\ Fail("agent_execution_failed")
        /\ UNCHANGED <<attempted, seen, fresh, lastTool, calls, batch, control>>
    BY <1>2 DEF Decide
  <2> QED BY <1>1, <2>1 DEF Fail, Failed, Codes
<1>3. CASE ~invalid /\ ts = <<>> /\ ~ctl
  <2>1. pc' = "drafted" /\ batch' = {} /\ UNCHANGED <<attempted, lastTool, calls, last>>
    BY <1>3 DEF Decide
  <2>2. text BY <1>3
  <2>3. Progress((IF text THEN {"text"} ELSE {}) \cup (IF ctl THEN {"finalize"} ELSE {}))
    BY <1>3 DEF Decide
  <2>4. "text" \in seen' BY <2>2, <2>3 DEF Progress
  <2>5. control' = control BY <1>3 DEF Decide
  <2> QED BY <1>1, <2>1, <2>4, <2>5
<1>4. CASE ~invalid /\ ~(ts = <<>> /\ ~ctl)
  <2>1. Reserve(ts) /\ control' = IF ctl /\ pc' = "tools" THEN "pending" ELSE control
    BY <1>4 DEF Decide
  <2> DEFINE wrong == {i \in DOMAIN ts : ts[i] \notin visible \/ Identical(ts, i) > MaxIdentical}
  <2>2. CASE OverBudget(Len(ts)) \/ wrong # {}
    <3>1. /\ attempted' = attempted + Len(ts) /\ UNCHANGED <<lastTool, calls, batch>>
          /\ Fail("tool_call_limit") \/ Fail("tool_not_allowed") \/ Fail("repeated_tool_call")
      BY <2>1, <2>2 DEF Reserve
    <3>2. Failed BY <3>1 DEF Fail, Failed, Codes
    <3>3. control' = control BY <2>1, <3>2 DEF Failed
    <3> QED BY <1>1, <3>1, <3>2, <3>3
  <2>3. CASE ~(OverBudget(Len(ts)) \/ wrong # {})
    <3>1. /\ attempted' = attempted + Len(ts)
          /\ calls' = calls \o [k \in DOMAIN ts |->
                                  [tool |-> ts[k], stage |-> "reserved", out |-> <<>>]]
          /\ batch' = DOMAIN calls' \ DOMAIN calls
          /\ pc' = "tools" /\ last' = last
      BY <2>1, <2>3 DEF Reserve
    <3>2. Len(ts) \in Nat BY ExecutionAssumption DEF Batches
    <3>3. attempted' <= MaxToolCalls
      BY <2>3, <3>1, <3>2, ExecutionAssumption DEF OverBudget, ExecutionTypes
    <3>4. Reserved(ts) BY <3>1, <3>3 DEF Reserved
    <3>5. control' = IF ctl THEN "pending" ELSE control BY <2>1, <3>1
    <3>6. ctl => control = "none" /\ \A k \in DOMAIN ts : ts[k] \in Terminal BY <1>4
    <3> QED BY <1>1, <3>4, <3>5, <3>6
  <2> QED BY <2>2, <2>3
<1> QED BY <1>2, <1>3, <1>4

(* What the type of the calls says of one of them. *)
LEMMA CallTypes ==
  ASSUME ExecutionTypes, NEW i \in DOMAIN calls
  PROVE  /\ i \in 1..MaxToolCalls /\ calls \in Seq(Call) /\ calls[i] \in Call
         /\ calls[i].tool \in Tools /\ calls[i].stage \in Stages
         /\ calls[i].out \in Seq(Items)
<1>1. i \in 1..MaxToolCalls /\ calls \in Seq(Call) /\ calls[i] \in Call
  BY ExecutionAssumption DEF ExecutionTypes
<1> QED BY <1>1 DEF Call

(* Call i moves on, and no other. *)
Moved(i, stage, out) ==
  /\ calls' \in Seq(Call) /\ Len(calls') = Len(calls) /\ DOMAIN calls' = DOMAIN calls
  /\ calls'[i].tool = calls[i].tool /\ calls'[i].stage = stage /\ calls'[i].out = out
  /\ \A j \in DOMAIN calls : j # i => calls'[j] = calls[j]

(* An update of one call, field by field. *)
LEMMA MovedByUpdate ==
  ASSUME ExecutionTypes, NEW i \in DOMAIN calls, NEW s \in Stages, NEW o \in Seq(Items),
         \/ calls' = [calls EXCEPT ![i].stage = s, ![i].out = o]
         \/ calls' = [calls EXCEPT ![i].out = o, ![i].stage = s]
         \/ calls' = [calls EXCEPT ![i].stage = s] /\ o = calls[i].out
  PROVE  Moved(i, s, o)
<1> DEFINE q == [calls[i] EXCEPT !.stage = s, !.out = o]
<1>1. calls \in Seq(Call) /\ calls[i] \in Call BY DEF ExecutionTypes
<1>2. q \in Call /\ q.tool = calls[i].tool /\ q.stage = s /\ q.out = o BY <1>1 DEF Call
<1>3. calls' = [calls EXCEPT ![i] = q]
  <2>1. CASE calls' = [calls EXCEPT ![i].stage = s, ![i].out = o] BY <1>1, <2>1 DEF Call
  <2>2. CASE calls' = [calls EXCEPT ![i].out = o, ![i].stage = s] BY <1>1, <2>2 DEF Call
  <2>3. CASE calls' = [calls EXCEPT ![i].stage = s] /\ o = calls[i].out
    BY <1>1, <2>3 DEF Call
  <2> QED BY <2>1, <2>2, <2>3
<1> HIDE DEF q
<1> QED BY <1>1, <1>2, <1>3 DEF Moved

(* execute_tool_call refuses, waits for the queue or enters the Tool.      *)
LEMMA BeginFacts ==
  ASSUME ExecutionTypes, NEW i \in DOMAIN calls, BeginCall(i)
  PROVE  /\ pc = "tools" /\ verdict = "none" /\ i \in batch /\ calls[i].stage = "reserved"
         /\ UNCHANGED <<world, ledger, batch, control, retried, contributors, requests, hops>>
         /\ \/ Failed /\ UNCHANGED <<calls, queue>>
            \/ /\ Full /\ Moved(i, "starting", <<Started(i)>>) /\ UNCHANGED <<queue, pc, last>>
               /\ calls[i].tool \in allowed
            \/ /\ ~Full /\ Moved(i, "running", calls[i].out) /\ UNCHANGED <<pc, last>>
               /\ queue' = Append(queue, Started(i)) /\ calls[i].tool \in allowed
<1>1. /\ pc = "tools" /\ verdict = "none" /\ i \in batch /\ calls[i].stage = "reserved"
      /\ UNCHANGED <<world, ledger, batch, control, retried, contributors, requests, hops>>
  BY DEF BeginCall, At
<1>2. i \in 1..MaxToolCalls /\ calls[i].out \in Seq(Items) BY CallTypes
<1>3. <<Started(i)>> \in Seq(Items) BY <1>2, ItemTypes
<1>4. CASE ~Permitted(calls[i].tool)
  BY <1>1, <1>4 DEF BeginCall, Fail, Failed, Codes
<1>5. CASE Permitted(calls[i].tool) /\ Full
  <2>1. /\ calls' = [calls EXCEPT ![i].stage = "starting", ![i].out = <<Started(i)>>]
        /\ UNCHANGED <<queue, pc, last>>
    BY <1>5 DEF BeginCall
  <2>2. Moved(i, "starting", <<Started(i)>>) BY <1>3, <2>1, MovedByUpdate DEF Stages
  <2> QED BY <1>1, <1>5, <2>1, <2>2 DEF Permitted
<1>6. CASE Permitted(calls[i].tool) /\ ~Full
  <2>1. /\ calls' = [calls EXCEPT ![i].stage = "running"]
        /\ queue' = Append(queue, Started(i)) /\ UNCHANGED <<pc, last>>
    BY <1>6 DEF BeginCall, Stage, Put
  <2> PICK o \in Seq(Items) : o = calls[i].out BY <1>2
  <2>2. Moved(i, "running", o) BY <2>1, MovedByUpdate DEF Stages
  <2> QED BY <1>1, <1>6, <2>1, <2>2 DEF Permitted
<1> QED BY <1>4, <1>5, <1>6

(* finish_tool_call: the end of the call, then its new sources. *)
LEMMA FinishFacts ==
  ASSUME ExecutionTypes, NEW i \in DOMAIN calls, NEW fact \in Facts, FinishCall(i, fact)
  PROVE  /\ pc = "tools" /\ verdict = "none" /\ i \in batch /\ calls[i].stage = "running"
         /\ UNCHANGED <<world, pc, last, steps, attempted, noProgress, lastTool, batch, control,
                        retried, queue, requests, hops>>
         /\ seen \subseteq seen'
         /\ contributors' = [s \in Sources |->
                               IF s \in Range(SourcesOf[calls[i].tool])
                               THEN contributors[s] \cup {i} ELSE contributors[s]]
         /\ \E o \in Seq(Items), new \in Seq(Sources) :
              /\ new = Announced(i)
              /\ Len(o) = Len(new) + 1 /\ o[1] = Finished(i)
              /\ \A k \in 1..Len(new) : o[k + 1] = Added(new[k])
              /\ Moved(i, "emitting", o)
<1>1. /\ pc = "tools" /\ verdict = "none" /\ i \in batch /\ calls[i].stage = "running"
      /\ UNCHANGED <<world, pc, last, steps, attempted, noProgress, lastTool, batch, control,
                     retried, queue, requests, hops>>
      /\ contributors' = [s \in Sources |->
                            IF s \in Range(SourcesOf[calls[i].tool])
                            THEN contributors[s] \cup {i} ELSE contributors[s]]
  BY DEF FinishCall, At
<1> PICK new : new = Announced(i) OBVIOUS
<1>2. i \in 1..MaxToolCalls /\ calls[i].tool \in Tools BY CallTypes
<1>3. new \in Seq(Sources) /\ DOMAIN new = 1..Len(new) /\ Len(new) \in Nat
  BY <1>2, AnnouncedFacts
<1> DEFINE tail == [k \in DOMAIN new |-> Added(new[k])]
<1>4. tail \in [1..Len(new) -> Items] BY <1>3, ItemTypes
<1>5. tail \in Seq(Items) /\ Len(tail) = Len(new) /\ \A k \in 1..Len(new) : tail[k] = Added(new[k])
  BY <1>3, <1>4
<1>6. calls' = [calls EXCEPT ![i].stage = "emitting", ![i].out = <<Finished(i)>> \o tail]
  BY DEF FinishCall
<1>7. seen \subseteq seen' BY DEF FinishCall, Progress
<1> HIDE DEF tail
<1>8. Finished(i) \in Items BY <1>2, ItemTypes
<1> PICK o : o = <<Finished(i)>> \o tail OBVIOUS
<1>9. /\ o \in Seq(Items) /\ Len(o) = Len(new) + 1 /\ o[1] = Finished(i)
      /\ \A k \in 1..Len(new) : o[k + 1] = tail[k]
  BY <1>3, <1>5, <1>8
<1>10. Moved(i, "emitting", o) BY <1>6, <1>9, MovedByUpdate DEF Stages
<1>11. \A k \in 1..Len(new) : o[k + 1] = Added(new[k]) BY <1>5, <1>9
<1> QED BY <1>1, <1>3, <1>7, <1>9, <1>10, <1>11

(* emit: the next event of the call. *)
LEMMA EmitFacts ==
  ASSUME ExecutionTypes, NEW i \in DOMAIN calls, EmitEvent(i)
  PROVE  /\ pc = "tools" /\ verdict = "none" /\ i \in batch /\ calls[i].out # <<>> /\ ~Full
         /\ UNCHANGED <<world, pc, last, ledger, batch, control, retried, contributors, requests,
                        hops>>
         /\ queue' = Append(queue, Head(calls[i].out))
         /\ \E s \in Stages :
              /\ s = IF Len(calls[i].out) = 1
                     THEN IF calls[i].stage = "starting" THEN "running" ELSE "done"
                     ELSE calls[i].stage
              /\ Moved(i, s, Tail(calls[i].out))
<1>1. /\ pc = "tools" /\ verdict = "none" /\ i \in batch /\ calls[i].out # <<>> /\ ~Full
      /\ UNCHANGED <<world, pc, last, ledger, batch, control, retried, contributors, requests,
                     hops>>
      /\ queue' = Append(queue, Head(calls[i].out))
  BY DEF EmitEvent, At, Put
<1>2. calls[i] \in Call /\ calls[i].stage \in Stages /\ calls[i].out \in Seq(Items)
      /\ calls \in Seq(Call)
  BY CallTypes
<1>3. PICK s \in Stages :
         s = IF Len(calls[i].out) = 1
             THEN IF calls[i].stage = "starting" THEN "running" ELSE "done"
             ELSE calls[i].stage
  BY <1>2 DEF Stages
<1> PICK all \in Seq(Items) : all = calls[i].out BY <1>2
<1>4. PICK o \in Seq(Items) : o = Tail(calls[i].out)
  <2>1. all # <<>> BY <1>1
  <2>2. Tail(all) \in Seq(Items) BY <2>1
  <2> QED BY <2>2
<1>5. calls' = [calls EXCEPT ![i].out = o, ![i].stage = s]
  <2>1. calls' = [calls EXCEPT ![i].out = Tail(@),
                    ![i].stage = IF Len(calls[i].out) = 1
                                 THEN IF calls[i].stage = "starting" THEN "running" ELSE "done"
                                 ELSE @]
    BY DEF EmitEvent
  <2>2. CASE Len(calls[i].out) = 1 BY <1>2, <1>3, <1>4, <2>1, <2>2 DEF Call
  <2>3. CASE Len(calls[i].out) # 1 BY <1>2, <1>3, <1>4, <2>1, <2>3 DEF Call
  <2> QED BY <2>2, <2>3
<1>6. Moved(i, s, o) BY <1>5, MovedByUpdate
<1> QED BY <1>1, <1>3, <1>4, <1>6

-----------------------------------------------------------------------------
(* The shapes of the steps *)

counts == <<steps, requests, hops>>

(* The graph fails. *)
Failing ==
  /\ pc \in LiveLabels /\ Failed /\ UNCHANGED <<batch, control, requests>>
  /\ steps' \in {steps, steps + 1}
  /\ hops' = hops \/ (pc \in {"model", "exit", "drafted"} /\ hops' = hops + 1)

(* The provider is asked, for a decision or for the answer. *)
Asking ==
  /\ steps' = steps + 1 /\ steps' <= MaxSteps /\ requests' = requests + 1
  /\ UNCHANGED <<batch, control, last, seen>>
  /\ \/ pc = "model" /\ hops' = hops + 1 /\ pc' = "answering" /\ visible = {}
     \/ pc = "model" /\ hops' = hops + 1 /\ pc' = "deciding"
     \/ pc = "deciding" /\ hops' = hops /\ pc' = "deciding"
     \/ pc = "drafted" /\ hops' = hops + 1 /\ pc' = "answering"
     \/ pc = "exit" /\ control = "completed" /\ hops' = hops + 1 /\ pc' = "answering"

Drafting ==
  /\ pc = "deciding" /\ pc' = "drafted" /\ batch' = {} /\ "text" \in seen'
  /\ UNCHANGED <<counts, last, control>>

Controlling ==
  /\ pc = "tools" /\ pc' = "tools" /\ control = "pending" /\ control' = "completed"
  /\ UNCHANGED <<counts, last, batch>>

Returning ==
  /\ pc = "tools" /\ control # "pending" /\ \A i \in batch : calls[i].stage = "done"
  /\ pc' = IF \A i \in batch : calls[i].tool \in Terminal THEN "exit" ELSE "model"
  /\ hops' = hops + 1 /\ UNCHANGED <<steps, requests, last, batch, control>>

Resuming ==
  /\ pc = "exit" /\ control = "none" /\ pc' = "model"
  /\ hops' = hops + 1 /\ UNCHANGED <<steps, requests, last, batch, control>>

Answering ==
  /\ pc = "answering" /\ pc' = "delivering" /\ last' = Result(Generated)
  /\ UNCHANGED <<counts, batch, control>>

Standing == UNCHANGED <<pc, counts, last, batch, control, seen>>

(* A step without event: no call and no source changes. *)
Quiet ==
  /\ UNCHANGED <<calls, contributors, queue, saved, verdict, visible>>
  /\ attempted' \in Nat /\ attempted <= attempted'
  /\ \/ Failing \/ Asking \/ Drafting \/ Controlling \/ Returning \/ Resuming \/ Answering
     \/ Standing

(* A step of a call, which touches neither the graph nor the counters. *)
CallStep == UNCHANGED <<pc, last, batch, control, counts, attempted, seen, saved, verdict, visible>>

Reserving ==
  \E ts \in Batches, ctl \in BOOLEAN :
    /\ pc = "deciding" /\ Reserved(ts)
    /\ control' = IF ctl THEN "pending" ELSE control
    /\ ctl => control = "none" /\ \A k \in DOMAIN ts : ts[k] \in Terminal
    /\ UNCHANGED <<counts, contributors, queue, saved, verdict, visible>>

Waiting(i) ==
  /\ pc = "tools" /\ i \in batch /\ calls[i].stage = "reserved" /\ Full
  /\ CallStep /\ Moved(i, "starting", <<Started(i)>>) /\ UNCHANGED <<queue, contributors>>

Entering(i) ==
  /\ pc = "tools" /\ i \in batch /\ calls[i].stage = "reserved" /\ calls[i].tool \in allowed
  /\ CallStep /\ Moved(i, "running", calls[i].out) /\ UNCHANGED contributors
  /\ queue' = Append(queue, Started(i))

Finishing(i) ==
  /\ pc = "tools" /\ i \in batch /\ calls[i].stage = "running"
  /\ UNCHANGED <<pc, last, batch, control, counts, attempted, saved, verdict, visible, queue>>
  /\ contributors' = [s \in Sources |->
                        IF s \in Range(SourcesOf[calls[i].tool])
                        THEN contributors[s] \cup {i} ELSE contributors[s]]
  /\ \E o \in Seq(Items), new \in Seq(Sources) :
       /\ new = Announced(i)
       /\ Len(o) = Len(new) + 1 /\ o[1] = Finished(i)
       /\ \A k \in 1..Len(new) : o[k + 1] = Added(new[k])
       /\ Moved(i, "emitting", o)

Emitting(i) ==
  /\ pc = "tools" /\ i \in batch /\ calls[i].out # <<>>
  /\ CallStep /\ UNCHANGED contributors
  /\ queue' = Append(queue, Head(calls[i].out))
  /\ \E s \in Stages :
       /\ s = IF Len(calls[i].out) = 1
              THEN IF calls[i].stage = "starting" THEN "running" ELSE "done"
              ELSE calls[i].stage
       /\ Moved(i, s, Tail(calls[i].out))

Speaking ==
  /\ pc = "answering" /\ queue' = Append(queue, Delta)
  /\ CallStep /\ UNCHANGED <<calls, contributors>>

Delivering ==
  /\ pc = "delivering" /\ pc' = "ended" /\ queue' = Append(queue, last)
  /\ UNCHANGED <<last, batch, control, counts, attempted, seen, saved, verdict, visible, calls,
                 contributors>>

(* The steps without event are quiet. *)
LEMMA QuietSteps ==
  ASSUME ExecutionTypes, Decisions, verdict = "none",
         \/ AskModel \/ ConnectionError \/ ModelFails \/ RunControl \/ ToolsDone \/ AfterAgent
         \/ AnswerEnds \/ \E t \in Tools : Withdraw(t)
         \/ \E i \in DOMAIN calls : CallFails(i)
  PROVE  Quiet
<1> USE DEF world, ledger, graph, At, counts, LiveLabels
<1>0. attempted \in Nat /\ attempted <= attempted BY DEF ExecutionTypes
<1>1. CASE AskModel
  <2>1. PICK label \in {"answering", "deciding"} :
          label = IF visible = {} THEN "answering" ELSE "deciding"
    OBVIOUS
  <2>2. BeforeModelCall(label) BY <1>1, <2>1 DEF AskModel
  <2>3. Failing \/ Asking
    BY <1>1, <2>1, <2>2, ModelCallFacts DEF AskModel, Failing, Asking
  <2> QED BY <1>0, <1>1, <2>3 DEF AskModel, Quiet
<1>2. CASE ConnectionError
  <2>1. CASE CanRetry
    <3>1. BeforeModelCall("deciding") BY <1>2, <2>1 DEF ConnectionError
    <3>2. Failing \/ Asking BY <1>2, <3>1, ModelCallFacts DEF ConnectionError, Failing, Asking
    <3> QED BY <1>0, <1>2, <3>2 DEF ConnectionError, Quiet
  <2>2. CASE ~CanRetry
    <3>1. Failing BY <1>2, <2>2 DEF ConnectionError, Failing, Fail, Failed, Codes
    <3> QED BY <1>0, <1>2, <3>1 DEF ConnectionError, Quiet
  <2> QED BY <2>1, <2>2
<1>3. CASE ModelFails
  <2>1. Failing BY <1>3 DEF ModelFails, Failing, Fail, Failed, Codes
  <2> QED BY <1>0, <1>3, <2>1 DEF ModelFails, Quiet
<1>4. CASE RunControl
  <2>1. Controlling BY <1>4 DEF RunControl, Controlling
  <2> QED BY <1>0, <1>4, <2>1 DEF RunControl, Quiet
<1>5. CASE ToolsDone
  <2>1. Returning BY <1>5 DEF ToolsDone, Returning
  <2> QED BY <1>0, <1>5, <2>1 DEF ToolsDone, Quiet
<1>6. CASE AfterAgent
  <2>0. /\ pc \in {"exit", "drafted"} /\ hops' = hops + 1
        /\ UNCHANGED <<world, attempted, seen, lastTool, calls, batch, control, retried,
                       contributors, queue>>
    BY <1>6 DEF AfterAgent
  <2>1. CASE pc = "exit" /\ control = "none"
    <3>1. pc' = "model" /\ UNCHANGED <<last, steps, noProgress, fresh, requests>>
      BY <1>6, <2>1 DEF AfterAgent
    <3>2. Resuming BY <2>0, <2>1, <3>1 DEF Resuming
    <3> QED BY <1>0, <2>0, <3>2 DEF Quiet
  <2>2. CASE (pc = "exit" /\ control = "completed") \/ (pc = "drafted" /\ control = "none")
    <3>1. BeforeModelCall("answering") BY <1>6, <2>2 DEF AfterAgent
    <3>2. Failing \/ Asking BY <2>0, <2>2, <3>1, ModelCallFacts DEF Failing, Asking
    <3> QED BY <1>0, <2>0, <3>2 DEF Quiet
  <2> QED BY <2>0, <2>1, <2>2 DEF Decisions, ExecutionTypes
<1>7. CASE AnswerEnds
  <2>1. Answering BY <1>7 DEF AnswerEnds, Answering
  <2> QED BY <1>0, <1>7, <2>1 DEF AnswerEnds, Quiet
<1>8. CASE \E t \in Tools : Withdraw(t)
  <2>1. Standing BY <1>8 DEF Withdraw, Standing
  <2> QED BY <1>0, <1>8, <2>1 DEF Withdraw, Quiet
<1>9. ASSUME NEW i \in DOMAIN calls, CallFails(i) PROVE Quiet
  <2>1. Failing BY <1>9 DEF CallFails, Failing, Fail, Failed, Codes
  <2> QED BY <1>0, <1>9, <2>1 DEF CallFails, Quiet
<1> QED BY <1>1, <1>2, <1>3, <1>4, <1>5, <1>6, <1>7, <1>8, <1>9

(* Every step has one of the shapes. *)
LEMMA StepShape ==
  ASSUME ExecutionTypes, verdict = "none" => Decisions, Next
  PROVE  /\ verdict = "none"
         /\ \/ Quiet \/ Reserving \/ Speaking \/ Delivering \/ Consume \/ Stop
            \/ \E i \in DOMAIN calls : Waiting(i) \/ Entering(i) \/ Finishing(i) \/ Emitting(i)
<1>1. verdict = "none"
  BY DEF Next, Producer, AskModel, ConnectionError, ModelFails, Decide, BeginCall, CallFails,
         EmitEvent, FinishCall, RunControl, ToolsDone, AfterAgent, AnswerDelta, AnswerEnds, Deliver,
         At, Consume, Stop, Withdraw
<1>2. Decisions BY <1>1
<1> USE DEF world, ledger, graph, At, counts, LiveLabels
<1>3. ASSUME NEW ts \in Batches, NEW ctl \in BOOLEAN, NEW text \in BOOLEAN, Decide(ts, ctl, text)
      PROVE  Quiet \/ Reserving
  <2>0. attempted \in Nat /\ attempted <= attempted /\ Len(ts) \in Nat
    BY ExecutionAssumption DEF ExecutionTypes, Batches
  <2>1. /\ pc = "deciding"
        /\ UNCHANGED <<world, steps, noProgress, retried, contributors, queue, requests, hops>>
    BY <1>3, DecideFacts
  <2>2. CASE /\ Failed /\ UNCHANGED <<calls, batch, control>>
             /\ attempted' = attempted \/ attempted' = attempted + Len(ts)
    <3>1. Failing BY <2>1, <2>2 DEF Failing
    <3>2. attempted' \in Nat /\ attempted <= attempted' BY <2>0, <2>2
    <3> QED BY <2>1, <2>2, <3>1, <3>2 DEF Quiet
  <2>3. CASE /\ pc' = "drafted" /\ batch' = {} /\ UNCHANGED <<attempted, calls, last, control>>
             /\ "text" \in seen'
    <3>1. Drafting BY <2>1, <2>3 DEF Drafting
    <3> QED BY <2>0, <2>1, <2>3, <3>1 DEF Quiet
  <2>4. CASE /\ Reserved(ts)
             /\ control' = IF ctl THEN "pending" ELSE control
             /\ ctl => control = "none" /\ \A k \in DOMAIN ts : ts[k] \in Terminal
    BY <2>1, <2>4 DEF Reserving
  <2> QED BY <1>3, <2>2, <2>3, <2>4, DecideFacts
<1>4. ASSUME NEW i \in DOMAIN calls, BeginCall(i) PROVE Quiet \/ Waiting(i) \/ Entering(i)
  <2>1. /\ pc = "tools" /\ i \in batch /\ calls[i].stage = "reserved"
        /\ UNCHANGED <<world, ledger, batch, control, retried, contributors, requests, hops>>
    BY <1>4, BeginFacts
  <2>2. CASE Failed /\ UNCHANGED <<calls, queue>>
    <3>1. Failing BY <2>1, <2>2 DEF Failing
    <3>2. attempted' \in Nat /\ attempted <= attempted' BY <2>1 DEF ExecutionTypes
    <3> QED BY <2>1, <2>2, <3>1, <3>2 DEF Quiet
  <2>3. CASE Full /\ Moved(i, "starting", <<Started(i)>>) /\ UNCHANGED <<queue, pc, last>>
    BY <2>1, <2>3 DEF Waiting, CallStep
  <2>4. CASE /\ Moved(i, "running", calls[i].out) /\ UNCHANGED <<pc, last>>
             /\ queue' = Append(queue, Started(i)) /\ calls[i].tool \in allowed
    BY <2>1, <2>4 DEF Entering, CallStep
  <2> QED BY <1>4, <2>2, <2>3, <2>4, BeginFacts
<1>5. ASSUME NEW i \in DOMAIN calls, NEW fact \in Facts, FinishCall(i, fact) PROVE Finishing(i)
  BY <1>5, FinishFacts DEF Finishing
<1>6. ASSUME NEW i \in DOMAIN calls, EmitEvent(i) PROVE Emitting(i)
  BY <1>6, EmitFacts DEF Emitting, CallStep
<1>7. CASE AnswerDelta BY <1>7 DEF AnswerDelta, Speaking, CallStep, Put
<1>8. CASE Deliver BY <1>8 DEF Deliver, Delivering, Put
<1>9. CASE \/ AskModel \/ ConnectionError \/ ModelFails \/ RunControl \/ ToolsDone \/ AfterAgent
           \/ AnswerEnds \/ (\E t \in Tools : Withdraw(t))
           \/ \E i \in DOMAIN calls : CallFails(i)
  BY <1>1, <1>2, <1>9, QuietSteps
<1> QED BY <1>1, <1>3, <1>4, <1>5, <1>6, <1>7, <1>8, <1>9 DEF Next, Producer

(* A reserved batch comes behind the calls there are. *)
LEMMA ReservedFacts ==
  ASSUME ExecutionTypes, NEW ts \in Batches, Reserved(ts)
  PROVE  /\ calls' \in Seq(Call) /\ Len(calls') = Len(calls) + Len(ts) /\ Len(ts) \in Nat
         /\ DOMAIN calls \subseteq DOMAIN calls' /\ \A i \in DOMAIN calls : calls'[i] = calls[i]
         /\ batch' = DOMAIN calls' \ DOMAIN calls
         /\ \A i \in batch' : /\ i - Len(calls) \in DOMAIN ts /\ calls'[i].tool = ts[i - Len(calls)]
                              /\ calls'[i].stage = "reserved" /\ calls'[i].out = <<>>
<1> PICK n \in Nat : ts \in [1..n -> Tools] BY ExecutionAssumption DEF Batches
<1>1. Len(ts) = n /\ DOMAIN ts = 1..n OBVIOUS
<1> DEFINE Fresh(k) == [tool |-> ts[k], stage |-> "reserved", out |-> <<>>]
<1> PICK new : new = [k \in DOMAIN ts |-> Fresh(k)] OBVIOUS
<1>2. \A k \in 1..n : Fresh(k) \in Call /\ Fresh(k).tool = ts[k]
                      /\ Fresh(k).stage = "reserved" /\ Fresh(k).out = <<>>
  BY DEF Call, Stages
<1>3. calls' = calls \o new BY DEF Reserved
<1> HIDE DEF Fresh
<1>4. new \in [1..n -> Call] BY <1>1, <1>2
<1>5. new \in Seq(Call) /\ Len(new) = n /\ \A k \in 1..n : new[k] = Fresh(k) BY <1>1, <1>4
<1>6. calls \in Seq(Call) BY DEF ExecutionTypes
<1>7. /\ calls' \in Seq(Call) /\ Len(calls') = Len(calls) + n
      /\ DOMAIN calls = 1..Len(calls) /\ DOMAIN calls' = 1..Len(calls) + n
      /\ \A i \in 1..Len(calls) : calls'[i] = calls[i]
      /\ \A k \in 1..n : calls'[Len(calls) + k] = new[k]
  BY <1>3, <1>5, <1>6
<1>8. batch' = DOMAIN calls' \ DOMAIN calls BY DEF Reserved
<1>9. ASSUME NEW i \in batch'
      PROVE  i - Len(calls) \in 1..n /\ calls'[i] = Fresh(i - Len(calls))
  <2> PICK L \in Nat : L = Len(calls) BY <1>6
  <2>1. i \in 1..L + n /\ i \notin 1..L BY <1>7, <1>8
  <2>2. i - L \in 1..n /\ L + (i - L) = i BY <2>1
  <2>3. calls'[L + (i - L)] = new[i - L] BY <1>7, <2>2
  <2> QED BY <1>5, <2>2, <2>3
<1>10. DOMAIN calls \subseteq DOMAIN calls' BY <1>6, <1>7
<1> QED BY <1>1, <1>2, <1>7, <1>8, <1>9, <1>10

(* The consumer saves the event. *)
Saving ==
  /\ queue # <<>> /\ Head(queue).type \notin {"error", "result"}
  /\ queue' = Tail(queue) /\ saved' = Append(saved, Head(queue)) /\ UNCHANGED verdict
  /\ UNCHANGED <<visible, ledger, graph, requests>>

(* The execution ends, with the item or without it. *)
Judging ==
  /\ queue # <<>> /\ queue' = Tail(queue) /\ UNCHANGED saved
  /\ \/ Head(queue).type = "error" /\ verdict' = "failed"
     \/ Head(queue).type = "result" /\ verdict' = ResultVerdict(Head(queue).sources)
     \/ /\ Head(queue).type \notin {"error", "result"} /\ ~Valid(Head(queue))
        /\ verdict' = "rejected"
  /\ UNCHANGED <<visible, ledger, graph, requests>>

(* The consumer saves an event or ends the execution. *)
LEMMA ConsumeShape ==
  ASSUME Consume
  PROVE  Saving \/ Judging
<1>1. /\ queue # <<>> /\ queue' = Tail(queue) /\ UNCHANGED <<visible, ledger, graph, requests>>
  BY DEF Consume
<1>2. CASE Head(queue).type = "error" BY <1>1, <1>2 DEF Consume, Judging
<1>3. CASE Head(queue).type = "result" BY <1>1, <1>3 DEF Consume, Judging
<1>4. CASE Head(queue).type \notin {"error", "result"} /\ Valid(Head(queue))
  BY <1>1, <1>4 DEF Consume, Saving
<1>5. CASE Head(queue).type \notin {"error", "result"} /\ ~Valid(Head(queue))
  BY <1>1, <1>5 DEF Consume, Judging
<1> QED BY <1>2, <1>3, <1>4, <1>5

(* A finished call adds its sources to the generated ones. *)
LEMMA FinishedSources ==
  ASSUME ExecutionTypes, NEW i \in DOMAIN calls, Finishing(i)
  PROVE  /\ contributors' \in [Sources -> SUBSET Nat]
         /\ Generated' = Generated \cup Range(SourcesOf[calls[i].tool])
         /\ IsFiniteSet(Generated')
         /\ \A s \in Sources : contributors[s] \subseteq contributors'[s]
         /\ \A s \in Range(SourcesOf[calls[i].tool]) : s \in Sources /\ i \in contributors'[s]
<1>1. i \in Nat /\ calls[i].tool \in Tools BY CallTypes, ExecutionAssumption
<1> PICK R : R = Range(SourcesOf[calls[i].tool]) OBVIOUS
<1>2. IsFiniteSet(R) /\ R \subseteq Sources BY <1>1, SourcesFinite
<1>3. contributors' = [s \in Sources |->
                         IF s \in R THEN contributors[s] \cup {i} ELSE contributors[s]]
  BY DEF Finishing
<1>4. contributors \in [Sources -> SUBSET Nat] /\ IsFiniteSet(Generated) BY DEF ExecutionTypes
<1>5. \A s \in Sources :
        contributors'[s] = IF s \in R THEN contributors[s] \cup {i} ELSE contributors[s]
  BY <1>3
<1>6. contributors' \in [Sources -> SUBSET Nat] BY <1>1, <1>3, <1>4
<1>7. Generated' = Generated \cup R BY <1>2, <1>5 DEF Generated
<1>8. IsFiniteSet(Generated') BY <1>2, <1>4, <1>7, FS_Union
<1> QED BY <1>2, <1>5, <1>6, <1>7, <1>8

-----------------------------------------------------------------------------
(* Types and counters *)

(* The generated sources follow from the contributors. *)
LEMMA SameGenerated ==
  ASSUME UNCHANGED contributors
  PROVE  Generated' = Generated
BY DEF Generated

(* The types of a step that sends no event and reserves nothing. *)
LEMMA QuietTypes ==
  ASSUME ExecutionTypes, Quiet
  PROVE  ExecutionTypes'
<1>1. /\ UNCHANGED <<calls, contributors, queue, saved>>
      /\ attempted' \in Nat /\ attempted <= attempted' /\ Generated' = Generated
  BY SameGenerated DEF Quiet
<1>2. \A c \in Codes : Failure(c) \in Items BY ItemTypes
<1>3. Result(Generated) \in Items BY ItemTypes DEF Generated
<1>4. /\ steps' \in Nat /\ requests' \in Nat /\ hops' \in Nat
      /\ pc' \in {"model", "deciding", "tools", "exit", "drafted", "answering", "delivering",
                  "ended"}
      /\ control' \in {"none", "pending", "completed"}
      /\ last' \in Items \cup {NoItem}
      /\ pc' = "delivering" => last' \in Items
      /\ batch' \in {batch, {}}
  <2> USE DEF ExecutionTypes, counts
  <2>1. CASE Failing BY <1>2, <2>1 DEF Failing, Failed
  <2>2. CASE Answering BY <1>3, <2>2 DEF Answering
  <2>3. CASE Asking BY <2>3 DEF Asking
  <2>4. CASE Drafting \/ Controlling BY <2>4 DEF Drafting, Controlling
  <2>5. CASE Returning \/ Resuming BY <2>5 DEF Returning, Resuming
  <2>6. CASE Standing BY <2>6 DEF Standing
  <2> QED BY <2>1, <2>2, <2>3, <2>4, <2>5, <2>6 DEF Quiet
<1>5. Len(calls) \in Nat BY DEF ExecutionTypes
<1>6. Len(calls') <= attempted' BY <1>1, <1>5 DEF ExecutionTypes
<1> QED BY <1>1, <1>4, <1>6 DEF ExecutionTypes

(* The types of a step of call i. *)
LEMMA CallStepTypes ==
  ASSUME ExecutionTypes, NEW i \in DOMAIN calls,
         Waiting(i) \/ Entering(i) \/ Finishing(i) \/ Emitting(i)
  PROVE  ExecutionTypes'
<1>1. /\ UNCHANGED <<pc, last, batch, control, steps, requests, hops, attempted, saved>>
      /\ calls' \in Seq(Call) /\ Len(calls') = Len(calls) /\ DOMAIN calls' = DOMAIN calls
  BY DEF Waiting, Entering, Finishing, Emitting, CallStep, counts, Moved
<1>2. contributors' \in [Sources -> SUBSET Nat] /\ IsFiniteSet(Generated')
  <2>1. CASE Finishing(i) BY <2>1, FinishedSources
  <2>2. CASE UNCHANGED contributors BY <2>2, SameGenerated DEF ExecutionTypes
  <2> QED BY <2>1, <2>2 DEF Waiting, Entering, Emitting
<1>3. queue' \in Seq(Items)
  <2>1. queue \in Seq(Items) BY DEF ExecutionTypes
  <2>2. i \in 1..MaxToolCalls /\ calls[i].out \in Seq(Items) BY CallTypes
  <2>3. CASE Entering(i)
    <3>1. Started(i) \in Items BY <2>2, ItemTypes
    <3> QED BY <2>1, <2>3, <3>1 DEF Entering
  <2>4. CASE Emitting(i)
    <3>1. calls[i].out # <<>> /\ queue' = Append(queue, Head(calls[i].out)) BY <2>4 DEF Emitting
    <3> PICK o \in Seq(Items) : o = calls[i].out BY <2>2
    <3>2. Head(o) \in Items BY <3>1
    <3> QED BY <2>1, <3>1, <3>2
  <2>5. CASE UNCHANGED queue BY <2>1, <2>5
  <2> QED BY <2>3, <2>4, <2>5 DEF Waiting, Finishing
<1> QED BY <1>1, <1>2, <1>3 DEF ExecutionTypes

(* The types of a step that saves an event. *)
LEMMA SavingTypes ==
  ASSUME ExecutionTypes, Saving
  PROVE  ExecutionTypes'
<1>1. /\ UNCHANGED <<pc, last, batch, control, steps, requests, hops, attempted, calls,
                     contributors>>
      /\ queue # <<>> /\ queue' = Tail(queue) /\ saved' = Append(saved, Head(queue))
  BY DEF Saving, graph, ledger
<1>2. queue \in Seq(Items) /\ saved \in Seq(Items) BY DEF ExecutionTypes
<1>3. queue' \in Seq(Items) /\ saved' \in Seq(Items) BY <1>1, <1>2
<1>4. Generated' = Generated BY <1>1, SameGenerated
<1> QED BY <1>1, <1>3, <1>4 DEF ExecutionTypes

(* The types of every step. *)
LEMMA TypesStep ==
  ASSUME ExecutionTypes, verdict = "none" => Decisions, Next
  PROVE  ExecutionTypes'
<1>1. CASE Quiet BY <1>1, QuietTypes
<1>2. ASSUME NEW i \in DOMAIN calls, Waiting(i) \/ Entering(i) \/ Finishing(i) \/ Emitting(i)
      PROVE  ExecutionTypes'
  BY <1>2, CallStepTypes
<1>3. CASE Reserving
  <2>1. PICK ts \in Batches, ctl \in BOOLEAN :
          /\ pc = "deciding" /\ Reserved(ts)
          /\ control' = IF ctl THEN "pending" ELSE control
          /\ UNCHANGED <<counts, contributors, queue, saved, verdict, visible>>
    BY <1>3 DEF Reserving
  <2>2. /\ calls' \in Seq(Call) /\ Len(calls') = Len(calls) + Len(ts) /\ Len(ts) \in Nat
        /\ batch' \subseteq DOMAIN calls'
    BY <2>1, ReservedFacts
  <2>3. /\ attempted' = attempted + Len(ts) /\ attempted' <= MaxToolCalls
        /\ pc' = "tools" /\ last' = last
    BY <2>1 DEF Reserved
  <2>4. Generated' = Generated BY <2>1, SameGenerated
  <2>5. /\ Len(calls) \in Nat /\ Len(calls) <= attempted /\ attempted \in Nat
        /\ MaxToolCalls \in Nat
    BY ExecutionAssumption DEF ExecutionTypes
  <2>6. Len(calls') <= attempted' /\ Len(calls') <= MaxToolCalls /\ attempted' \in Nat
    BY <2>2, <2>3, <2>5
  <2> QED BY <2>1, <2>2, <2>3, <2>4, <2>6 DEF ExecutionTypes, counts
<1>4. CASE Speaking
  <2>1. Generated' = Generated BY <1>4, SameGenerated DEF Speaking
  <2>2. queue' \in Seq(Items) BY <1>4, ItemTypes DEF Speaking, ExecutionTypes
  <2> QED BY <1>4, <2>1, <2>2 DEF Speaking, ExecutionTypes, CallStep, counts
<1>5. CASE Delivering
  <2>1. Generated' = Generated BY <1>5, SameGenerated DEF Delivering
  <2>2. last \in Items BY <1>5 DEF Delivering, ExecutionTypes
  <2>3. queue' \in Seq(Items) BY <1>5, <2>2 DEF Delivering, ExecutionTypes
  <2> QED BY <1>5, <2>1, <2>3 DEF Delivering, ExecutionTypes, counts
<1>6. CASE Saving BY <1>6, SavingTypes
<1>7. CASE Judging
  <2>1. UNCHANGED contributors BY <1>7 DEF Judging, graph
  <2>2. Generated' = Generated BY <2>1, SameGenerated
  <2>3. queue' \in Seq(Items)
    <3>1. queue # <<>> /\ queue' = Tail(queue) /\ queue \in Seq(Items)
      BY <1>7 DEF Judging, ExecutionTypes
    <3> QED BY <3>1
  <2> QED BY <1>7, <2>2, <2>3 DEF Judging, ExecutionTypes, ledger, graph
<1>8. CASE Stop
  <2>1. Generated' = Generated BY <1>8, SameGenerated DEF Stop, graph
  <2> QED BY <1>8, <2>1 DEF Stop, ExecutionTypes, ledger, graph
<1> QED BY <1>1, <1>2, <1>3, <1>4, <1>5, <1>6, <1>7, <1>8, StepShape, ConsumeShape

(* The counters of every step. *)
LEMMA BoundStep ==
  ASSUME ExecutionTypes, StepsBound, verdict = "none" => Decisions, Next
  PROVE  StepsBound'
<1>0. /\ MaxSteps \in Nat /\ steps \in Nat /\ requests \in Nat /\ hops \in Nat
      /\ pc \in LiveLabels \cup {"delivering", "ended"}
  BY ExecutionAssumption DEF ExecutionTypes, LiveLabels
<1>1. CASE Quiet
  <2>1. CASE Failing
    BY <1>0, <2>1 DEF Failing, Failed, StepsBound, LiveLabels
  <2>2. CASE Asking BY <1>0, <2>2 DEF Asking, StepsBound
  <2>3. CASE Drafting BY <1>0, <2>3 DEF Drafting, StepsBound, counts
  <2>4. CASE Controlling BY <1>0, <2>4 DEF Controlling, StepsBound, counts
  <2>5. CASE Returning BY <1>0, <2>5 DEF Returning, StepsBound
  <2>6. CASE Resuming BY <1>0, <2>6 DEF Resuming, StepsBound
  <2>7. CASE Answering BY <1>0, <2>7 DEF Answering, StepsBound, counts
  <2>8. CASE Standing BY <1>0, <2>8 DEF Standing, StepsBound, counts
  <2> QED BY <1>1, <2>1, <2>2, <2>3, <2>4, <2>5, <2>6, <2>7, <2>8 DEF Quiet
<1>2. CASE UNCHANGED <<pc, steps, requests, hops>> BY <1>2 DEF StepsBound
<1>3. CASE Reserving
  <2>1. pc = "deciding" /\ pc' = "tools" /\ UNCHANGED counts BY <1>3 DEF Reserving, Reserved
  <2> QED BY <1>0, <2>1 DEF StepsBound, counts
<1>4. CASE Delivering BY <1>0, <1>4 DEF Delivering, StepsBound, counts
<1>5. CASE \/ Speaking \/ Consume \/ Stop
           \/ \E i \in DOMAIN calls : Waiting(i) \/ Entering(i) \/ Finishing(i) \/ Emitting(i)
  <2>1. UNCHANGED <<pc, steps, requests, hops>>
    BY <1>5 DEF Speaking, Consume, Stop, Waiting, Entering, Finishing, Emitting, CallStep, counts,
       ledger, graph
  <2> QED BY <1>2, <2>1
<1> QED BY <1>1, <1>3, <1>4, <1>5, StepShape

-----------------------------------------------------------------------------
(* What the invariant says of a state *)

(* The trail is the saved events, then the queue. *)
LEMMA TrailFacts ==
  ASSUME ExecutionTypes
  PROVE  /\ Trail \in Seq(Items) /\ DOMAIN Trail = 1..Len(Trail)
         /\ Len(saved) \in Nat /\ Len(queue) \in Nat
         /\ DOMAIN saved = 1..Len(saved) /\ DOMAIN queue = 1..Len(queue)
         /\ Len(Trail) = Len(saved) + Len(queue)
         /\ \A k \in 1..Len(saved) : k \in DOMAIN Trail /\ Trail[k] = saved[k]
         /\ \A k \in 1..Len(queue) :
              Len(saved) + k \in DOMAIN Trail /\ Trail[Len(saved) + k] = queue[k]
<1>1. saved \in Seq(Items) /\ queue \in Seq(Items) BY DEF ExecutionTypes
<1> QED BY <1>1 DEF Trail

(* A set whose members go to different members of a finite one.            *)
LEMMA InjectedBound ==
  ASSUME NEW A, NEW T, IsFiniteSet(T), NEW f \in [A -> T],
         \A j, k \in A : f[j] = f[k] => j = k
  PROVE  /\ IsFiniteSet(A) /\ Cardinality(A) <= Cardinality(T)
         /\ Cardinality(A) \in Nat /\ Cardinality(T) \in Nat
<1>1. f \in Injection(A, T) BY DEF Injection, IsInjective
<1>2. IsFiniteSet(A) /\ Cardinality(A) <= Cardinality(T) BY <1>1, FS_Injection
<1> QED BY <1>2, FS_CardinalityType

(* A union has no more members than its parts together. *)
LEMMA UnionBound ==
  ASSUME NEW S, IsFiniteSet(S), NEW T, IsFiniteSet(T)
  PROVE  IsFiniteSet(S \cup T) /\ Cardinality(S \cup T) <= Cardinality(S) + Cardinality(T)
<1>1. /\ IsFiniteSet(S \cup T)
      /\ Cardinality(S \cup T) = Cardinality(S) + Cardinality(T) - Cardinality(S \cap T)
  BY FS_Union
<1>2. IsFiniteSet(S \cap T) BY FS_Intersection
<1>3. Cardinality(S) \in Nat /\ Cardinality(T) \in Nat /\ Cardinality(S \cap T) \in Nat
  BY <1>2, FS_CardinalityType
<1> QED BY <1>1, <1>3

(* There are n numbers from 1 to n. *)
LEMMA CountTo ==
  ASSUME NEW n \in Nat
  PROVE  IsFiniteSet(1..n) /\ Cardinality(1..n) = n
<1>1. IsFiniteSet(1..n) /\ Cardinality(1..n) = IF 1 > n THEN 0 ELSE n - 1 + 1 BY FS_Interval
<1> QED BY <1>1

(* The calls are as many as the sequence is long. *)
LEMMA CallsFinite ==
  ASSUME ExecutionTypes
  PROVE  /\ IsFiniteSet(DOMAIN calls) /\ Cardinality(DOMAIN calls) = Len(calls)
         /\ Len(calls) \in Nat /\ DOMAIN calls = 1..Len(calls)
<1>1. Len(calls) \in Nat /\ DOMAIN calls = 1..Len(calls) BY DEF ExecutionTypes
<1>2. IsFiniteSet(1..Len(calls)) /\ Cardinality(1..Len(calls)) = Len(calls) BY <1>1, CountTo
<1> QED BY <1>1, <1>2

(* While the Tools run the queue holds at most the two events of each call *)
(* and one for each source: an event is in one place only.                 *)
LEMMA QueueBound ==
  ASSUME ExecutionTypes, TrailEvents, OnePlace, pc = "tools"
  PROVE  Len(queue) <= 2 * Len(calls) + Cardinality(Generated)
<1> DEFINE Kind(t) == {k \in 1..Len(queue) : queue[k].type = t}
           A == Kind("tool.started")
           B == Kind("tool.finished")
           C == Kind("source.added")
<1>1. Len(queue) \in Nat /\ Len(saved) \in Nat BY TrailFacts
<1>2. ASSUME NEW k \in 1..Len(queue)
      PROVE  \/ \E i \in DOMAIN calls : queue[k] = Started(i) \/ queue[k] = Finished(i)
             \/ \E s \in Generated : queue[k] = Added(s)
  <2>1. Len(saved) + k \in DOMAIN Trail /\ Trail[Len(saved) + k] = queue[k] BY TrailFacts
  <2> QED BY <2>1 DEF TrailEvents, TrailEvent
<1>3. ASSUME NEW j \in 1..Len(queue), NEW k \in 1..Len(queue), queue[j] = queue[k] PROVE j = k
  <2>1. /\ Len(saved) + j \in DOMAIN Trail /\ Trail[Len(saved) + j] = queue[j]
        /\ Len(saved) + k \in DOMAIN Trail /\ Trail[Len(saved) + k] = queue[k]
    BY TrailFacts
  <2>2. queue[k] # Delta BY <1>2, ItemsDiffer
  <2>3. Len(saved) + j = Len(saved) + k BY <1>3, <2>1, <2>2 DEF OnePlace
  <2> QED BY <1>1, <2>3
<1>4. IsFiniteSet(DOMAIN calls) /\ Cardinality(DOMAIN calls) = Len(calls) /\ Len(calls) \in Nat
  BY CallsFinite
<1>5. IsFiniteSet(A) /\ Cardinality(A) <= Len(calls) /\ Cardinality(A) \in Nat
  <2> DEFINE f == [k \in A |-> queue[k].call]
  <2>1. \A k \in A : \E i \in DOMAIN calls : queue[k] = Started(i) BY <1>2, ItemKinds
  <2>2. f \in [A -> DOMAIN calls] BY <2>1, ItemKinds
  <2>3. \A j, k \in A : f[j] = f[k] => j = k BY <1>3, <2>1, ItemKinds
  <2> HIDE DEF f, A
  <2> QED BY <1>4, <2>2, <2>3, InjectedBound
<1>6. IsFiniteSet(B) /\ Cardinality(B) <= Len(calls) /\ Cardinality(B) \in Nat
  <2> DEFINE f == [k \in B |-> queue[k].call]
  <2>1. \A k \in B : \E i \in DOMAIN calls : queue[k] = Finished(i) BY <1>2, ItemKinds
  <2>2. f \in [B -> DOMAIN calls] BY <2>1, ItemKinds
  <2>3. \A j, k \in B : f[j] = f[k] => j = k BY <1>3, <2>1, ItemKinds
  <2> HIDE DEF f, B
  <2> QED BY <1>4, <2>2, <2>3, InjectedBound
<1>7. /\ IsFiniteSet(C) /\ Cardinality(C) <= Cardinality(Generated)
      /\ Cardinality(C) \in Nat /\ Cardinality(Generated) \in Nat
  <2> DEFINE f == [k \in C |-> queue[k].source]
  <2>1. \A k \in C : \E s \in Generated : queue[k] = Added(s) BY <1>2, ItemKinds
  <2>2. f \in [C -> Generated] BY <2>1, ItemKinds
  <2>3. \A j, k \in C : f[j] = f[k] => j = k BY <1>3, <2>1, ItemKinds
  <2>4. IsFiniteSet(Generated) BY DEF ExecutionTypes
  <2> HIDE DEF f, C
  <2> QED BY <2>2, <2>3, <2>4, InjectedBound
<1>8. 1..Len(queue) = A \cup (B \cup C) BY <1>2, ItemKinds
<1>9. Cardinality(1..Len(queue)) = Len(queue) BY <1>1, CountTo
<1> HIDE DEF A, B, C
<1>10. IsFiniteSet(B \cup C) /\ Cardinality(B \cup C) <= Cardinality(B) + Cardinality(C)
  BY <1>6, <1>7, UnionBound
<1>11. Cardinality(A \cup (B \cup C)) <= Cardinality(A) + Cardinality(B \cup C)
  BY <1>5, <1>10, UnionBound
<1>12. Cardinality(B \cup C) \in Nat BY <1>10, FS_CardinalityType
<1>13. Len(queue) <= Cardinality(A) + Cardinality(B \cup C) BY <1>8, <1>9, <1>11
<1> QED BY <1>1, <1>4, <1>5, <1>6, <1>7, <1>10, <1>12, <1>13

(* The queue that is sized by the budgets has room for every Tool event. *)
LEMMA NeverFull ==
  ASSUME ExecutionTypes, TrailEvents, OnePlace, pc = "tools", FewSources
  PROVE  Len(queue) < Capacity /\ ~Full
<1>1. Len(queue) <= 2 * Len(calls) + Cardinality(Generated) BY QueueBound
<1>2. Cardinality(Generated) < MaxToolCalls + 6 BY DEF FewSources
<1>3. /\ Len(calls) \in Nat /\ Len(calls) <= MaxToolCalls /\ MaxToolCalls \in Nat
      /\ Len(queue) \in Nat /\ IsFiniteSet(Generated)
  BY ExecutionAssumption DEF ExecutionTypes
<1>4. Cardinality(Generated) \in Nat BY <1>3, FS_CardinalityType
<1>5. Len(queue) < MaxToolCalls * 3 + 6 BY <1>1, <1>2, <1>3, <1>4
<1>6. Len(queue) # MaxToolCalls * 3 + 6 BY <1>3, <1>5
<1> QED BY <1>5, <1>6 DEF Full, Capacity

(* The counters keep the budgets. *)
LEMMA CountersHold ==
  ASSUME ExecutionTypes, StepsBound
  PROVE  /\ requests <= MaxSteps /\ hops < RecursionLimit
         /\ Cardinality({i \in DOMAIN calls : calls[i].stage # "reserved"}) <= MaxToolCalls
<1>1. /\ MaxSteps \in Nat /\ MaxToolCalls \in Nat /\ hops \in Nat /\ steps \in Nat
      /\ Len(calls) <= MaxToolCalls
  BY ExecutionAssumption DEF ExecutionTypes
<1>2. hops < RecursionLimit BY <1>1 DEF StepsBound, RecursionLimit
<1> PICK E \in SUBSET (DOMAIN calls) : E = {i \in DOMAIN calls : calls[i].stage # "reserved"}
  OBVIOUS
<1>3. IsFiniteSet(DOMAIN calls) /\ Cardinality(DOMAIN calls) = Len(calls) /\ Len(calls) \in Nat
  BY CallsFinite
<1>4. IsFiniteSet(E) /\ Cardinality(E) <= Len(calls) BY <1>3, FS_Subset
<1>5. Cardinality(E) \in Nat BY <1>4, FS_CardinalityType
<1>6. Cardinality(E) <= MaxToolCalls BY <1>1, <1>3, <1>4, <1>5
<1> QED BY <1>2, <1>6 DEF StepsBound

(* The invariant of a running execution implies the three properties. *)
LEMMA RunningIsSound ==
  ASSUME ExecutionTypes, StepsBound, verdict = "none", Core
  PROVE  BudgetsHold /\ AnswerComesLast /\ EvidenceIsSound
<1>1. ToolsNeverWait BY NeverFull DEF ToolsNeverWait, Core, Evidence
<1>2. BudgetsHold BY <1>1, CountersHold DEF BudgetsHold
<1>3. pc = "answering" => /\ \A i \in DOMAIN calls : calls[i].stage = "done"
                          /\ control = "completed" \/ "text" \in seen \/ visible = {}
  BY DEF Core, CallsDone, Decisions
<1>4. AnswerComesLast BY <1>3 DEF Core, AnswerLast, AnswerComesLast, Trail
<1>5. EvidenceIsSound
  BY DEF EvidenceIsSound, NoFalseRejection, CompletedIsSupported, Core, Decisions
<1> QED BY <1>2, <1>4, <1>5

(* Hence the invariant implies them in every state. *)
LEMMA InvariantIsSound ==
  ExecutionInvariant => BudgetsHold /\ AnswerComesLast /\ EvidenceIsSound
BY RunningIsSound DEF ExecutionInvariant

-----------------------------------------------------------------------------
(* Decisions and calls *)

(* A step that goes on: the execution has no verdict yet. *)
Going ==
  \/ Quiet \/ Reserving \/ Speaking \/ Delivering \/ Saving
  \/ \E i \in DOMAIN calls : Waiting(i) \/ Entering(i) \/ Finishing(i) \/ Emitting(i)

(* The graph decides as it should. *)
LEMMA DecisionsStep ==
  ASSUME ExecutionTypes, Decisions, Going
  PROVE  Decisions'
<1>0. /\ batch \subseteq DOMAIN calls /\ control \in {"none", "pending", "completed"}
  BY DEF ExecutionTypes
<1>1. CASE Quiet
  <2>0. UNCHANGED <<calls, visible>> BY <1>1 DEF Quiet
  <2>1. CASE Failing BY <2>0, <2>1, ItemKinds DEF Failing, Failed, Decisions, LiveLabels
  <2>2. CASE Asking BY <2>0, <2>2 DEF Asking, Decisions
  <2>3. CASE Drafting BY <2>0, <2>3 DEF Drafting, Decisions
  <2>4. CASE Controlling BY <2>0, <2>4 DEF Controlling, Decisions
  <2>5. CASE Returning BY <2>0, <2>5 DEF Returning, Decisions
  <2>6. CASE Resuming BY <2>0, <2>6 DEF Resuming, Decisions
  <2>7. CASE Answering BY <2>0, <2>7, ItemKinds DEF Answering, Decisions
  <2>8. CASE Standing BY <2>0, <2>8 DEF Standing, Decisions
  <2> QED BY <1>1, <2>1, <2>2, <2>3, <2>4, <2>5, <2>6, <2>7, <2>8 DEF Quiet
<1>2. CASE Reserving
  <2>1. PICK ts \in Batches, ctl \in BOOLEAN :
          /\ pc = "deciding" /\ Reserved(ts)
          /\ control' = IF ctl THEN "pending" ELSE control
          /\ ctl => control = "none" /\ \A k \in DOMAIN ts : ts[k] \in Terminal
    BY <1>2 DEF Reserving
  <2>2. control = "none" /\ last = NoItem BY <2>1 DEF Decisions
  <2>3. pc' = "tools" /\ last' = last BY <2>1 DEF Reserved
  <2>4. \A i \in batch' : i - Len(calls) \in DOMAIN ts /\ calls'[i].tool = ts[i - Len(calls)]
    BY <2>1, ReservedFacts
  <2>5. control' # "none" => \A i \in batch' : calls'[i].tool \in Terminal BY <2>1, <2>2, <2>4
  <2> QED BY <2>2, <2>3, <2>5 DEF Decisions
<1>3. ASSUME NEW i \in DOMAIN calls, Waiting(i) \/ Entering(i) \/ Finishing(i) \/ Emitting(i)
      PROVE  Decisions'
  <2>1. /\ pc = "tools" /\ UNCHANGED <<pc, last, batch, control, visible>>
        /\ calls'[i].tool = calls[i].tool /\ \A j \in DOMAIN calls : j # i => calls'[j] = calls[j]
    BY <1>3 DEF Waiting, Entering, Finishing, Emitting, CallStep, Moved
  <2>2. \A j \in batch : calls'[j].tool = calls[j].tool BY <1>0, <2>1
  <2> QED BY <2>1, <2>2 DEF Decisions
<1>4. CASE Speaking \/ Saving
  BY <1>4 DEF Speaking, Saving, CallStep, ledger, graph, Decisions
<1>5. CASE Delivering BY <1>5 DEF Delivering, Decisions
<1> QED BY <1>1, <1>2, <1>3, <1>4, <1>5 DEF Going

(* Sources are never withdrawn, so few of them were few before. *)
LEMMA FewBefore ==
  ASSUME Generated \subseteq Generated', IsFiniteSet(Generated'), FewSources'
  PROVE  FewSources
<1> PICK G \in SUBSET Generated' : G = Generated OBVIOUS
<1>1. IsFiniteSet(G) /\ Cardinality(G) <= Cardinality(Generated') BY FS_Subset
<1>2. Cardinality(G) \in Nat /\ Cardinality(Generated') \in Nat BY <1>1, FS_CardinalityType
<1>3. Cardinality(Generated') < MaxToolCalls + 6 BY DEF FewSources
<1>4. Cardinality(G) < MaxToolCalls + 6 BY <1>1, <1>2, <1>3, ExecutionAssumption
<1> QED BY <1>4 DEF FewSources

(* The calls of a decision are done before the graph goes on. *)
LEMMA CallsStep ==
  ASSUME ExecutionTypes, Decisions, CallsDone, TrailEvents, OnePlace, Going
  PROVE  CallsDone'
<1>0. batch \subseteq DOMAIN calls /\ IsFiniteSet(Generated) BY DEF ExecutionTypes
<1>1. CASE UNCHANGED <<calls, contributors>> /\ ~Reserving
  <2>1. Generated' = Generated BY <1>1, SameGenerated
  <2>2. FewSources' = FewSources BY <2>1 DEF FewSources
  <2>3. CASE Quiet
    <3>1. CASE Failing
      BY <1>1, <2>1, <2>2, <3>1, ItemKinds DEF Failing, Failed, CallsDone
    <3>2. CASE Asking BY <1>1, <2>1, <2>2, <3>2 DEF Asking, CallsDone
    <3>3. CASE Drafting BY <1>1, <2>1, <2>2, <3>3 DEF Drafting, CallsDone
    <3>4. CASE Controlling BY <1>1, <2>1, <2>2, <3>4 DEF Controlling, CallsDone
    <3>5. CASE Returning BY <1>0, <1>1, <2>1, <2>2, <3>5 DEF Returning, CallsDone
    <3>6. CASE Resuming BY <1>1, <2>1, <2>2, <3>6 DEF Resuming, CallsDone
    <3>7. CASE Answering BY <1>1, <2>1, <2>2, <3>7, ItemKinds DEF Answering, CallsDone
    <3>8. CASE Standing BY <1>1, <2>1, <2>2, <3>8 DEF Standing, CallsDone
    <3> QED BY <2>3, <3>1, <3>2, <3>3, <3>4, <3>5, <3>6, <3>7, <3>8 DEF Quiet
  <2>4. CASE UNCHANGED <<last, batch>> /\ (pc' = pc \/ pc' = "ended")
    BY <1>1, <2>1, <2>2, <2>4 DEF CallsDone
  <2>5. CASE Speaking \/ Saving \/ Delivering
    <3>1. UNCHANGED <<last, batch>> /\ (pc' = pc \/ pc' = "ended")
      BY <2>5 DEF Speaking, Saving, Delivering, CallStep, ledger, graph
    <3> QED BY <2>4, <3>1
  <2>6. ASSUME NEW i \in DOMAIN calls, Waiting(i) \/ Entering(i) \/ Finishing(i) \/ Emitting(i)
        PROVE  UNCHANGED <<last, batch>> /\ pc' = pc
    BY <2>6 DEF Waiting, Entering, Finishing, Emitting, CallStep
  <2> QED BY <1>1, <2>3, <2>4, <2>5, <2>6 DEF Going
<1>2. CASE Reserving
  <2>1. PICK ts \in Batches :
          pc = "deciding" /\ Reserved(ts) /\ UNCHANGED contributors
    BY <1>2 DEF Reserving
  <2>2. /\ \A i \in DOMAIN calls : calls'[i] = calls[i]
        /\ batch' = DOMAIN calls' \ DOMAIN calls
        /\ \A i \in batch' : calls'[i].stage = "reserved"
    BY <2>1, ReservedFacts
  <2>3. pc' = "tools" /\ last' = last /\ last = NoItem BY <2>1 DEF Reserved, Decisions
  <2>4. \A i \in DOMAIN calls : calls[i].stage = "done" BY <2>1 DEF CallsDone
  <2> QED BY <2>2, <2>3, <2>4, ItemKinds DEF CallsDone
<1>3. ASSUME NEW i \in DOMAIN calls, Waiting(i) \/ Entering(i) \/ Finishing(i) \/ Emitting(i)
      PROVE  CallsDone'
  <2>1. /\ pc = "tools" /\ UNCHANGED <<pc, last, batch>> /\ i \in batch
        /\ DOMAIN calls' = DOMAIN calls /\ \A j \in DOMAIN calls : j # i => calls'[j] = calls[j]
    BY <1>3 DEF Waiting, Entering, Finishing, Emitting, CallStep, Moved
  <2>2. last' = NoItem /\ last'.type = "none" BY <2>1, ItemKinds DEF Decisions
  <2>3. ASSUME FewSources', NEW j \in DOMAIN calls PROVE calls'[j].stage # "starting"
    <3>1. Generated \subseteq Generated' /\ IsFiniteSet(Generated')
      <4>1. CASE Finishing(i) BY <4>1, FinishedSources
      <4>2. CASE UNCHANGED contributors BY <1>0, <4>2, SameGenerated
      <4> QED BY <1>3, <4>1, <4>2 DEF Waiting, Entering, Emitting
    <3>2. FewSources BY <2>3, <3>1, FewBefore
    <3>3. calls[i].stage # "starting" /\ calls[j].stage # "starting" BY <3>2 DEF CallsDone
    <3>4. ~Full BY <2>1, <3>2, NeverFull
    <3>5. calls'[i].stage # "starting"
      BY <1>3, <3>3, <3>4 DEF Waiting, Entering, Finishing, Emitting, Moved
    <3> QED BY <2>1, <3>3, <3>5
  <2> QED BY <2>1, <2>2, <2>3 DEF CallsDone
<1>4. CASE Quiet \/ Speaking \/ Saving \/ Delivering
  <2>1. UNCHANGED <<calls, contributors>>
    BY <1>4 DEF Quiet, Speaking, Saving, Delivering, graph
  <2> QED BY <1>1, <1>2, <2>1
<1> QED BY <1>2, <1>3, <1>4 DEF Going

-----------------------------------------------------------------------------
(* The trail *)

(* Saving an event leaves the trail as it is. *)
LEMMA SavedTrail ==
  ASSUME ExecutionTypes, Saving
  PROVE  Trail' = Trail
<1>1. saved \in Seq(Items) /\ queue \in Seq(Items) BY DEF ExecutionTypes
<1> PICK a \in Seq(Items), q \in Seq(Items) : a = saved /\ q = queue BY <1>1
<1>2. q # <<>> BY DEF Saving
<1>9. Append(a, Head(q)) \in Seq(Items) /\ Tail(q) \in Seq(Items) BY <1>2
<1> PICK b \in Seq(Items), p \in Seq(Items) : b = Append(a, Head(q)) /\ p = Tail(q) BY <1>9
<1>3. /\ Len(b) = Len(a) + 1 /\ b[Len(a) + 1] = q[1] /\ \A k \in 1..Len(a) : b[k] = a[k]
      /\ Len(p) = Len(q) - 1 /\ \A k \in 1..Len(q) - 1 : p[k] = q[k + 1]
  BY <1>2
<1>4. Len(b \o p) = Len(a \o q) BY <1>3
<1>5. ASSUME NEW k \in 1..Len(a \o q) PROVE (b \o p)[k] = (a \o q)[k]
  <2>1. CASE k <= Len(a) BY <1>3, <2>1
  <2>2. CASE k = Len(a) + 1 BY <1>2, <1>3, <2>2
  <2>3. CASE k > Len(a) + 1
    <3>1. k - Len(b) \in 1..Len(q) - 1 /\ k - Len(a) = k - Len(b) + 1 BY <1>3, <2>3
    <3>2. (b \o p)[k] = p[k - Len(b)] BY <1>3, <2>3
    <3>3. (a \o q)[k] = q[k - Len(a)] BY <2>3
    <3> QED BY <1>3, <3>1, <3>2, <3>3
  <2> QED BY <2>1, <2>2, <2>3
<1>6. b \o p \in Seq(Items) /\ a \o q \in Seq(Items) OBVIOUS
<1>7. b \o p = a \o q BY <1>4, <1>5, <1>6
<1>8. saved' = b /\ queue' = p BY DEF Saving
<1> QED BY <1>7, <1>8 DEF Trail

(* A trail that stays keeps its events in their places. *)
LEMMA SameTrail ==
  ASSUME Trail' = Trail
  PROVE  /\ \A e : InTrail(e)' <=> InTrail(e)
         /\ \A e, k : Before(e, k)' <=> Before(e, k)
BY DEF InTrail, Before

(* An event put in the queue goes to the end of the trail. *)
LEMMA LongerTrail ==
  ASSUME ExecutionTypes, NEW e \in Items, queue' = Append(queue, e), UNCHANGED saved
  PROVE  /\ DOMAIN Trail = 1..Len(Trail) /\ Len(Trail) \in Nat
         /\ Len(Trail') = Len(Trail) + 1 /\ DOMAIN Trail' = 1..Len(Trail) + 1
         /\ \A k \in DOMAIN Trail :
              k \in DOMAIN Trail' /\ k # Len(Trail) + 1 /\ Trail'[k] = Trail[k]
         /\ Len(Trail) + 1 \in DOMAIN Trail' /\ Trail'[Len(Trail) + 1] = e
         /\ \A k \in DOMAIN Trail' : k \in DOMAIN Trail \/ k = Len(Trail) + 1
         /\ \A x : InTrail(x)' <=> InTrail(x) \/ x = e
         /\ \A x : \A k \in DOMAIN Trail : Before(x, k) => Before(x, k)'
         /\ \A x : InTrail(x) => Before(x, Len(Trail))'
<1>1. saved \in Seq(Items) /\ queue \in Seq(Items) BY DEF ExecutionTypes
<1>0. Trail \in Seq(Items) BY <1>1 DEF Trail
<1> PICK t \in Seq(Items) : t = Trail BY <1>0
<1>10. Append(t, e) \in Seq(Items) OBVIOUS
<1> PICK u \in Seq(Items) : u = Append(t, e) BY <1>10
<1> PICK n \in Nat : n = Len(t) OBVIOUS
<1>2. saved \o Append(queue, e) = Append(saved \o queue, e) BY <1>1
<1>3. Trail' = u BY <1>2 DEF Trail
<1>4. /\ DOMAIN t = 1..n /\ Len(u) = n + 1 /\ DOMAIN u = 1..n + 1
      /\ \A k \in 1..n : u[k] = t[k]
      /\ u[n + 1] = e
  OBVIOUS
<1>5. /\ \A k \in DOMAIN t : k \in DOMAIN u /\ k # n + 1 /\ u[k] = t[k]
      /\ n + 1 \in DOMAIN u
      /\ \A k \in DOMAIN u : k \in DOMAIN t \/ k = n + 1
      /\ \A k \in DOMAIN t : k < n + 1
  BY <1>4
<1>6. \A x : (\E k \in DOMAIN u : u[k] = x) <=> (\E k \in DOMAIN t : t[k] = x) \/ x = e
  BY <1>4, <1>5
<1>7. \A x : InTrail(x)' <=> InTrail(x) \/ x = e BY <1>3, <1>6 DEF InTrail
<1>8. \A x : \A k \in DOMAIN Trail : Before(x, k) => Before(x, k)' BY <1>3, <1>5 DEF Before
<1>9. \A x : InTrail(x) => Before(x, Len(Trail))' BY <1>3, <1>4, <1>5 DEF Before, InTrail
<1> QED BY <1>3, <1>4, <1>5, <1>7, <1>8, <1>9

(* No call and no source is lost. *)
Growing ==
  /\ DOMAIN calls \subseteq DOMAIN calls' /\ Generated \subseteq Generated'
  /\ \A s \in Sources : contributors[s] \subseteq contributors'[s]

(* What a call has still to emit. *)
LEMMA OutKinds ==
  ASSUME ExecutionTypes, NEW i \in DOMAIN calls, CallEvents(i), NEW k \in DOMAIN calls[i].out
  PROVE  \/ calls[i].stage = "starting" /\ calls[i].out[k] = Started(i)
         \/ calls[i].stage = "emitting" /\ k = 1 /\ calls[i].out[k] = Finished(i)
         \/ /\ calls[i].stage = "emitting"
            /\ \E s \in Sources : calls[i].out[k] = Added(s) /\ i \in contributors[s]
<1> PICK c, o : c = calls[i].stage /\ o = calls[i].out OBVIOUS
<1>1. c \in Stages BY CallTypes
<1>2. CASE c = "starting"
  <2>1. o = <<Started(i)>> BY <1>2 DEF CallEvents
  <2> QED BY <1>2, <2>1
<1>3. CASE c \in {"reserved", "running", "done"}
  <2>1. o = <<>> BY <1>3 DEF CallEvents
  <2> QED BY <2>1
<1>4. CASE c = "emitting" BY <1>4 DEF CallEvents
<1> QED BY <1>1, <1>2, <1>3, <1>4 DEF Stages

(* A call that does not move keeps its events. *)
LEMMA CallEventsKept ==
  ASSUME NEW i, CallEvents(i), calls'[i] = calls[i], Growing,
         InTrail(Started(i))' <=> InTrail(Started(i)),
         InTrail(Finished(i))' <=> InTrail(Finished(i))
  PROVE  CallEvents(i)'
<1>1. /\ calls[i].stage = "starting" => calls[i].out = <<Started(i)>>
      /\ calls[i].stage \in {"reserved", "running", "done"} => calls[i].out = <<>>
      /\ calls[i].stage = "emitting" => calls[i].out # <<>>
      /\ InTrail(Started(i)) <=> calls[i].stage \in {"running", "emitting", "done"}
      /\ InTrail(Finished(i)) <=>
           calls[i].stage = "done" \/ (calls[i].stage = "emitting" /\ calls[i].out[1] # Finished(i))
  BY DEF CallEvents
<1>2. ASSUME calls[i].stage = "emitting", NEW k \in DOMAIN calls[i].out
      PROVE  \/ k = 1 /\ calls[i].out[k] = Finished(i)
             \/ \E s \in Sources : calls[i].out[k] = Added(s) /\ i \in contributors'[s]
  <2>1. \/ k = 1 /\ calls[i].out[k] = Finished(i)
        \/ \E s \in Sources : calls[i].out[k] = Added(s) /\ i \in contributors[s]
    BY <1>2 DEF CallEvents
  <2> QED BY <2>1 DEF Growing
<1> QED BY <1>1, <1>2 DEF CallEvents

(* A place of the trail is as good as it was. *)
LEMMA TrailEventKept ==
  ASSUME NEW k, TrailEvent(k), Growing, Trail'[k] = Trail[k],
         \A x : Before(x, k) => Before(x, k)',
         pc \in {"answering", "delivering", "ended"} =>
           pc' \in {"answering", "delivering", "ended"},
         pc = "ended" => pc' = "ended" /\ last' = last /\ Trail' = Trail
  PROVE  TrailEvent(k)'
<1>1. CASE \E i \in DOMAIN calls : Trail[k] = Started(i) BY <1>1 DEF TrailEvent, Growing
<1>2. CASE \E i \in DOMAIN calls : Trail[k] = Finished(i) /\ Before(Started(i), k)
  BY <1>2 DEF TrailEvent, Growing
<1>3. CASE \E s \in Generated : /\ Trail[k] = Added(s)
                                /\ \E i \in contributors[s] : Before(Finished(i), k)
  <2>1. PICK s \in Generated :
          Trail[k] = Added(s) /\ \E i \in contributors[s] : Before(Finished(i), k)
    BY <1>3
  <2>2. PICK i \in contributors[s] : Before(Finished(i), k) BY <2>1
  <2>3. s \in Sources BY DEF Generated
  <2>4. i \in contributors'[s] /\ s \in Generated' /\ Before(Finished(i), k)'
    BY <2>2, <2>3 DEF Growing
  <2> QED BY <2>1, <2>4 DEF TrailEvent
<1>4. CASE Trail[k] = Delta /\ pc \in {"answering", "delivering", "ended"}
  BY <1>4 DEF TrailEvent
<1>5. CASE /\ Trail[k] = last /\ last.type \in {"error", "result"} /\ k = Len(Trail)
           /\ pc = "ended"
  BY <1>5 DEF TrailEvent
<1> QED BY <1>1, <1>2, <1>3, <1>4, <1>5 DEF TrailEvent

(* What the trail holds of a call, of a source and of the answer. *)
LEMMA TrailHas ==
  ASSUME TrailEvents, NEW e, InTrail(e)
  PROVE  /\ \A i : e = Started(i) \/ e = Finished(i) => i \in DOMAIN calls
         /\ \A s : e = Added(s) => s \in Generated
         /\ e = Delta => pc \in {"answering", "delivering", "ended"}
         /\ e.type \in {"error", "result"} => pc = "ended"
<1>1. PICK k \in DOMAIN Trail : Trail[k] = e /\ TrailEvent(k) BY DEF InTrail, TrailEvents
<1> QED BY <1>1, ItemKinds DEF TrailEvent

-----------------------------------------------------------------------------
(* The evidence, shape by shape *)

(* A step that neither moves a call nor sends an event. *)
LEMMA StillEvidence ==
  ASSUME ExecutionTypes, Evidence, AnswerLast, Quiet \/ Saving
  PROVE  Evidence' /\ AnswerLast'
<1>1. UNCHANGED <<calls, contributors>> BY DEF Quiet, Saving, graph
<1>2. Trail' = Trail BY SavedTrail DEF Quiet, Trail
<1>3. Generated' = Generated BY <1>1, SameGenerated
<1>4. Growing BY <1>1, <1>3 DEF Growing
<1>5. /\ \A e : InTrail(e)' <=> InTrail(e)
      /\ \A e, k : Before(e, k)' <=> Before(e, k)
  BY <1>2, SameTrail
<1>6. /\ pc \in {"answering", "delivering", "ended"} => pc' \in {"answering", "delivering", "ended"}
      /\ pc = "ended" => pc' = "ended" /\ last' = last
  BY DEF Quiet, Saving, graph, Failing, Failed, Asking, Drafting, Controlling, Returning, Resuming,
     Answering, Standing, LiveLabels
<1>7. \A i \in DOMAIN calls' : CallEvents(i)'
  BY <1>1, <1>4, <1>5, CallEventsKept DEF Evidence
<1>8. TrailEvents'
  <2> SUFFICES ASSUME NEW k \in DOMAIN Trail' PROVE TrailEvent(k)'
    BY DEF TrailEvents
  <2>1. TrailEvent(k) BY <1>2 DEF Evidence, TrailEvents
  <2> QED BY <1>2, <1>4, <1>5, <1>6, <2>1, TrailEventKept
<1>9. OnePlace' BY <1>1, <1>2, <1>5 DEF Evidence, OnePlace
<1>10. SourcesPlaced' BY <1>1, <1>3, <1>5 DEF Evidence, SourcesPlaced
<1>11. AnswerLast' BY <1>2 DEF AnswerLast
<1> QED BY <1>7, <1>8, <1>9, <1>10, <1>11 DEF Evidence

(* A reservation: the new calls have no event yet. *)
LEMMA ReservingEvidence ==
  ASSUME ExecutionTypes, Evidence, AnswerLast, Reserving
  PROVE  Evidence' /\ AnswerLast'
<1>1. PICK ts \in Batches :
        pc = "deciding" /\ Reserved(ts) /\ UNCHANGED <<contributors, queue, saved>>
  BY DEF Reserving
<1>2. /\ DOMAIN calls \subseteq DOMAIN calls' /\ \A i \in DOMAIN calls : calls'[i] = calls[i]
      /\ batch' = DOMAIN calls' \ DOMAIN calls
      /\ \A i \in batch' : calls'[i].stage = "reserved" /\ calls'[i].out = <<>>
  BY <1>1, ReservedFacts
<1>3. Trail' = Trail BY <1>1 DEF Trail
<1>4. Generated' = Generated BY <1>1, SameGenerated
<1>5. Growing BY <1>1, <1>2, <1>4 DEF Growing
<1>6. /\ \A e : InTrail(e)' <=> InTrail(e)
      /\ \A e, k : Before(e, k)' <=> Before(e, k)
  BY <1>3, SameTrail
<1>7. ASSUME NEW i \in DOMAIN calls' PROVE CallEvents(i)'
  <2>1. CASE i \in DOMAIN calls BY <1>2, <1>5, <1>6, <2>1, CallEventsKept DEF Evidence
  <2>2. CASE i \in batch'
    <3>1. ~InTrail(Started(i)) /\ ~InTrail(Finished(i))
      BY <1>2, <2>2, TrailHas DEF Evidence
    <3>2. ~InTrail(Started(i))' /\ ~InTrail(Finished(i))' BY <1>6, <3>1
    <3> QED BY <1>2, <2>2, <3>2 DEF CallEvents
  <2> QED BY <1>2, <2>1, <2>2
<1>8. TrailEvents'
  <2> SUFFICES ASSUME NEW k \in DOMAIN Trail' PROVE TrailEvent(k)'
    BY DEF TrailEvents
  <2>1. TrailEvent(k) BY <1>3 DEF Evidence, TrailEvents
  <2> QED BY <1>1, <1>3, <1>5, <1>6, <2>1, TrailEventKept
<1>9. \A i \in DOMAIN calls' : \A k \in DOMAIN calls'[i].out :
        i \in DOMAIN calls /\ calls'[i] = calls[i]
  BY <1>2
<1>10. OnePlace' BY <1>3, <1>6, <1>9 DEF Evidence, OnePlace
<1>11. SourcesPlaced' BY <1>2, <1>4, <1>6 DEF Evidence, SourcesPlaced
<1>12. AnswerLast' BY <1>3 DEF AnswerLast
<1> QED BY <1>7, <1>8, <1>10, <1>11, <1>12 DEF Evidence

(* A call that must wait for the queue keeps its first event. *)
LEMMA WaitingEvidence ==
  ASSUME ExecutionTypes, Evidence, AnswerLast, NEW i \in DOMAIN calls, Waiting(i)
  PROVE  Evidence' /\ AnswerLast'
<1>1. /\ pc = "tools" /\ UNCHANGED <<queue, saved, contributors>>
      /\ calls[i].stage = "reserved"
      /\ calls'[i].stage = "starting" /\ calls'[i].out = <<Started(i)>>
      /\ DOMAIN calls' = DOMAIN calls /\ \A j \in DOMAIN calls : j # i => calls'[j] = calls[j]
  BY DEF Waiting, CallStep, Moved
<1>2. calls[i].out = <<>> /\ ~InTrail(Started(i)) /\ ~InTrail(Finished(i))
  BY <1>1 DEF Evidence, CallEvents
<1>3. Trail' = Trail BY <1>1 DEF Trail
<1>4. Generated' = Generated BY <1>1, SameGenerated
<1>5. Growing BY <1>1, <1>4 DEF Growing
<1>6. /\ \A e : InTrail(e)' <=> InTrail(e)
      /\ \A e, k : Before(e, k)' <=> Before(e, k)
  BY <1>3, SameTrail
<1>7. ASSUME NEW j \in DOMAIN calls' PROVE CallEvents(j)'
  <2>1. CASE j # i BY <1>1, <1>5, <1>6, <2>1, CallEventsKept DEF Evidence
  <2>2. CASE j = i
    <3>1. ~InTrail(Started(i))' /\ ~InTrail(Finished(i))' BY <1>2, <1>6
    <3> QED BY <1>1, <2>2, <3>1 DEF CallEvents
  <2> QED BY <2>1, <2>2
<1>8. TrailEvents'
  <2> SUFFICES ASSUME NEW k \in DOMAIN Trail' PROVE TrailEvent(k)'
    BY DEF TrailEvents
  <2>1. TrailEvent(k) BY <1>3 DEF Evidence, TrailEvents
  <2>2. pc' = pc BY DEF Waiting, CallStep
  <2> QED BY <1>1, <1>3, <1>5, <1>6, <2>1, <2>2, TrailEventKept
<1>9. DOMAIN calls'[i].out = {1} /\ calls'[i].out[1] = Started(i) BY <1>1
<1>10. ASSUME NEW j \in DOMAIN calls, j # i, NEW k \in DOMAIN calls[j].out
       PROVE  calls[j].out[k] # Started(i)
  BY <1>10, OutKinds, ItemsDiffer DEF Evidence
<1>11. OnePlace'
  <2>1. \A j, k \in DOMAIN Trail' : Trail'[j] = Trail'[k] => j = k \/ Trail'[k] = Delta
    BY <1>3 DEF Evidence, OnePlace
  <2>2. ASSUME NEW j \in DOMAIN calls', NEW k \in DOMAIN calls'[j].out
        PROVE  ~InTrail(calls[j].out[k])'
    <3>1. CASE j = i BY <1>2, <1>6, <1>9, <3>1
    <3>2. CASE j # i BY <1>1, <1>6, <3>2 DEF Evidence, OnePlace
    <3> QED BY <3>1, <3>2
  <2>3. ASSUME NEW j \in DOMAIN calls', NEW m \in DOMAIN calls',
               NEW k \in DOMAIN calls'[j].out, NEW n \in DOMAIN calls'[m].out,
               calls'[j].out[k] = calls'[m].out[n]
        PROVE  j = m /\ k = n
    <3>1. CASE j = i /\ m = i BY <1>9, <3>1
    <3>2. CASE j = i /\ m # i BY <1>1, <1>9, <1>10, <2>3, <3>2
    <3>3. CASE j # i /\ m = i BY <1>1, <1>9, <1>10, <2>3, <3>3
    <3>4. CASE j # i /\ m # i BY <1>1, <2>3, <3>4 DEF Evidence, OnePlace
    <3> QED BY <3>1, <3>2, <3>3, <3>4
  <2> QED BY <2>1, <2>2, <2>3 DEF OnePlace
<1>12. SourcesPlaced'
  <2> SUFFICES ASSUME NEW s \in Generated', ~InTrail(Added(s))'
               PROVE  \E j \in DOMAIN calls' : \E k \in DOMAIN calls'[j].out :
                        calls'[j].out[k] = Added(s)
    BY DEF SourcesPlaced
  <2>1. PICK j \in DOMAIN calls : \E k \in DOMAIN calls[j].out : calls[j].out[k] = Added(s)
    BY <1>4, <1>6 DEF Evidence, SourcesPlaced
  <2>2. j # i BY <1>2, <2>1
  <2> QED BY <1>1, <2>1, <2>2
<1>13. AnswerLast' BY <1>3 DEF AnswerLast
<1> QED BY <1>7, <1>8, <1>11, <1>12, <1>13 DEF Evidence

(* A call that finished has its end and its new sources to announce: none  *)
(* of them is in the trail, and no other call announces them.              *)
LEMMA FinishingEvidence ==
  ASSUME ExecutionTypes, Evidence, AnswerLast, NEW i \in DOMAIN calls, Finishing(i)
  PROVE  Evidence' /\ AnswerLast'
<1>1. PICK o \in Seq(Items), new \in Seq(Sources) :
        /\ new = Announced(i)
        /\ Len(o) = Len(new) + 1 /\ o[1] = Finished(i)
        /\ \A k \in 1..Len(new) : o[k + 1] = Added(new[k])
        /\ Moved(i, "emitting", o)
  BY DEF Finishing
<1>2. /\ pc = "tools" /\ pc' = pc /\ UNCHANGED <<queue, saved>> /\ calls[i].stage = "running"
      /\ calls'[i].stage = "emitting" /\ calls'[i].out = o
      /\ DOMAIN calls' = DOMAIN calls /\ \A j \in DOMAIN calls : j # i => calls'[j] = calls[j]
  BY <1>1 DEF Finishing, Moved
<1> PICK R : R = Range(SourcesOf[calls[i].tool]) OBVIOUS
<1>3. calls[i].tool \in Tools BY CallTypes
<1>4. /\ Range(new) = {s \in R : contributors[s] = {}} /\ DOMAIN new = 1..Len(new)
      /\ Len(new) \in Nat /\ \A j, k \in DOMAIN new : new[j] = new[k] => j = k
  BY <1>1, <1>3, AnnouncedFacts
<1>5. /\ Generated' = Generated \cup R
      /\ \A s \in Sources : contributors[s] \subseteq contributors'[s]
      /\ \A s \in R : s \in Sources /\ i \in contributors'[s]
  BY FinishedSources
<1>6. calls[i].out = <<>> /\ InTrail(Started(i)) /\ ~InTrail(Finished(i))
  BY <1>2 DEF Evidence, CallEvents
<1>7. Trail' = Trail BY <1>2 DEF Trail
<1>8. Growing BY <1>2, <1>5 DEF Growing
<1>9. /\ \A e : InTrail(e)' <=> InTrail(e)
      /\ \A e, k : Before(e, k)' <=> Before(e, k)
  BY <1>7, SameTrail
<1>10. /\ DOMAIN o = 1..Len(new) + 1 /\ 1 \in DOMAIN o
       /\ \A k \in DOMAIN o : k = 1 \/ (k - 1 \in 1..Len(new) /\ k - 1 + 1 = k)
  BY <1>1, <1>4
<1>11. ASSUME NEW k \in DOMAIN o, k # 1
       PROVE  /\ k - 1 \in DOMAIN new /\ o[k] = Added(new[k - 1])
              /\ new[k - 1] \in R /\ new[k - 1] \in Sources /\ contributors[new[k - 1]] = {}
  <2>1. k - 1 \in DOMAIN new /\ o[k] = Added(new[k - 1]) BY <1>1, <1>4, <1>10, <1>11
  <2>2. new[k - 1] \in Range(new) BY <2>1 DEF Range
  <2> QED BY <1>4, <1>5, <2>1, <2>2
<1>12. ASSUME NEW j \in DOMAIN calls' PROVE CallEvents(j)'
  <2>1. CASE j # i BY <1>2, <1>8, <1>9, <2>1, CallEventsKept DEF Evidence
  <2>2. CASE j = i
    <3>1. InTrail(Started(i))' /\ ~InTrail(Finished(i))' BY <1>6, <1>9
    <3>2. o # <<>> BY <1>10
    <3>3. \A k \in DOMAIN o : \/ k = 1 /\ o[k] = Finished(i)
                              \/ \E s \in Sources : o[k] = Added(s) /\ i \in contributors'[s]
      BY <1>1, <1>5, <1>11
    <3> QED BY <1>1, <1>2, <2>2, <3>1, <3>2, <3>3 DEF CallEvents
  <2> QED BY <2>1, <2>2
<1>13. TrailEvents'
  <2> SUFFICES ASSUME NEW k \in DOMAIN Trail' PROVE TrailEvent(k)'
    BY DEF TrailEvents
  <2>1. TrailEvent(k) BY <1>7 DEF Evidence, TrailEvents
  <2> QED BY <1>2, <1>7, <1>8, <1>9, <2>1, TrailEventKept
<1>14. ASSUME NEW k \in DOMAIN o PROVE ~InTrail(o[k])
  <2>1. CASE k = 1 BY <1>1, <1>6, <2>1
  <2>2. CASE k # 1
    <3>1. o[k] = Added(new[k - 1]) /\ new[k - 1] \notin Generated BY <1>11, <2>2 DEF Generated
    <3> QED BY <3>1, TrailHas DEF Evidence
  <2> QED BY <2>1, <2>2
<1>15. ASSUME NEW k \in DOMAIN o, NEW j \in DOMAIN calls, j # i, NEW n \in DOMAIN calls[j].out
       PROVE  o[k] # calls[j].out[n]
  <2>1. \/ calls[j].out[n] = Started(j) \/ calls[j].out[n] = Finished(j)
        \/ \E s \in Sources : calls[j].out[n] = Added(s) /\ j \in contributors[s]
    BY OutKinds DEF Evidence
  <2>2. CASE k = 1 BY <1>1, <1>15, <2>1, <2>2, ItemsDiffer
  <2>3. CASE k # 1
    <3>1. o[k] = Added(new[k - 1]) /\ contributors[new[k - 1]] = {} BY <1>11, <2>3
    <3> QED BY <2>1, <3>1, ItemsDiffer
  <2> QED BY <2>2, <2>3
<1>16. ASSUME NEW k \in DOMAIN o, NEW n \in DOMAIN o, o[k] = o[n] PROVE k = n
  <2>1. CASE k = 1 /\ n # 1 BY <1>1, <1>11, <1>16, <2>1, ItemsDiffer
  <2>2. CASE k # 1 /\ n = 1 BY <1>1, <1>11, <1>16, <2>2, ItemsDiffer
  <2>3. CASE k # 1 /\ n # 1
    <3>1. new[k - 1] = new[n - 1] BY <1>11, <1>16, <2>3, ItemsDiffer
    <3>2. k - 1 = n - 1 BY <1>4, <1>11, <2>3, <3>1
    <3> QED BY <1>10, <3>2
  <2> QED BY <2>1, <2>2, <2>3
<1>17. OnePlace'
  <2>1. \A j, k \in DOMAIN Trail' : Trail'[j] = Trail'[k] => j = k \/ Trail'[k] = Delta
    BY <1>7 DEF Evidence, OnePlace
  <2>2. ASSUME NEW j \in DOMAIN calls', NEW k \in DOMAIN calls'[j].out
        PROVE  ~InTrail(calls[j].out[k])'
    <3>1. CASE j = i BY <1>2, <1>9, <1>14, <3>1
    <3>2. CASE j # i BY <1>2, <1>9, <3>2 DEF Evidence, OnePlace
    <3> QED BY <3>1, <3>2
  <2>3. ASSUME NEW j \in DOMAIN calls', NEW m \in DOMAIN calls',
               NEW k \in DOMAIN calls'[j].out, NEW n \in DOMAIN calls'[m].out,
               calls'[j].out[k] = calls'[m].out[n]
        PROVE  j = m /\ k = n
    <3>1. CASE j = i /\ m = i BY <1>2, <1>16, <2>3, <3>1
    <3>2. CASE j = i /\ m # i BY <1>2, <1>15, <2>3, <3>2
    <3>3. CASE j # i /\ m = i BY <1>2, <1>15, <2>3, <3>3
    <3>4. CASE j # i /\ m # i BY <1>2, <2>3, <3>4 DEF Evidence, OnePlace
    <3> QED BY <3>1, <3>2, <3>3, <3>4
  <2> QED BY <2>1, <2>2, <2>3 DEF OnePlace
<1>18. SourcesPlaced'
  <2> SUFFICES ASSUME NEW s \in Generated', ~InTrail(Added(s))'
               PROVE  \E j \in DOMAIN calls' : \E k \in DOMAIN calls'[j].out :
                        calls'[j].out[k] = Added(s)
    BY DEF SourcesPlaced
  <2>1. CASE s \in Generated
    <3>1. PICK j \in DOMAIN calls : \E k \in DOMAIN calls[j].out : calls[j].out[k] = Added(s)
      BY <1>9, <2>1 DEF Evidence, SourcesPlaced
    <3>2. j # i BY <1>6, <3>1
    <3> QED BY <1>2, <3>1, <3>2
  <2>2. CASE s \notin Generated
    <3>1. s \in R /\ contributors[s] = {} BY <1>5, <2>2 DEF Generated
    <3>2. PICK k \in 1..Len(new) : new[k] = s BY <1>4, <3>1 DEF Range
    <3>3. k + 1 \in DOMAIN o /\ o[k + 1] = Added(s) BY <1>1, <1>4, <1>10, <3>2
    <3> QED BY <1>2, <3>3
  <2> QED BY <2>1, <2>2
<1>19. AnswerLast' BY <1>7 DEF AnswerLast
<1> QED BY <1>12, <1>13, <1>17, <1>18, <1>19 DEF Evidence

(* An event that the graph sends: the trail keeps its order if the event   *)
(* is new, has its place there and is not a Tool event after an answer.    *)
LEMMA SentTrail ==
  ASSUME ExecutionTypes, TrailEvents, OnePlace, AnswerLast, NEW e \in Items,
         queue' = Append(queue, e), UNCHANGED saved, Growing, pc # "ended",
         pc \in {"answering", "delivering"} => pc' \in {"answering", "delivering", "ended"},
         ~InTrail(e) \/ e = Delta, TrailEvent(Len(Trail))',
         InTrail(Delta) => e.type \in {"message.delta", "error", "result"}
  PROVE  /\ TrailEvents' /\ AnswerLast'
         /\ \A j, k \in DOMAIN Trail' : Trail'[j] = Trail'[k] => j = k \/ Trail'[k] = Delta
<1> PICK n \in Nat : n = Len(Trail) BY LongerTrail
<1> PICK t, u : t = Trail /\ u = Trail' OBVIOUS
<1>1. /\ DOMAIN t = 1..n /\ Len(u) = n + 1
      /\ \A k \in DOMAIN t : k \in DOMAIN u /\ k # n + 1 /\ u[k] = t[k]
      /\ n + 1 \in DOMAIN u /\ u[n + 1] = e
      /\ \A k \in DOMAIN u : k \in DOMAIN t \/ k = n + 1
      /\ \A x : \A k \in DOMAIN t : Before(x, k) => Before(x, k)'
  BY LongerTrail
<1>2. \A k \in DOMAIN t : k < n + 1 /\ k \in Nat /\ ~(n + 1 < k) BY <1>1
<1>3. ASSUME NEW k \in DOMAIN u PROVE TrailEvent(k)'
  <2>1. CASE k \in DOMAIN t
    <3>1. TrailEvent(k) /\ u[k] = t[k] /\ \A x : Before(x, k) => Before(x, k)'
      BY <1>1, <2>1 DEF TrailEvents
    <3> QED BY <3>1, TrailEventKept
  <2>2. CASE k = n + 1
    <3>1. k = Len(Trail') BY <1>1, <2>2
    <3> QED BY <3>1
  <2> QED BY <1>1, <2>1, <2>2
<1>4. ASSUME NEW j \in DOMAIN u, NEW k \in DOMAIN u, u[j] = u[k] PROVE j = k \/ u[k] = Delta
  <2>1. CASE j \in DOMAIN t /\ k \in DOMAIN t BY <1>1, <1>4, <2>1 DEF OnePlace
  <2>2. CASE j \in DOMAIN t /\ k = n + 1 BY <1>1, <1>4, <2>2 DEF InTrail
  <2>3. CASE j = n + 1 /\ k \in DOMAIN t BY <1>1, <1>4, <2>3 DEF InTrail
  <2> QED BY <1>1, <2>1, <2>2, <2>3
<1>5. ASSUME NEW j \in DOMAIN u, NEW k \in DOMAIN u, j < k, u[j] = Delta
      PROVE  u[k].type \in {"message.delta", "error", "result"}
  <2>1. CASE k \in DOMAIN t
    <3>1. j \in DOMAIN t BY <1>1, <1>2, <1>5, <2>1
    <3> QED BY <1>1, <1>5, <2>1, <3>1 DEF AnswerLast
  <2>2. CASE k = n + 1
    <3>1. j # n + 1 BY <1>5, <2>2
    <3>2. j \in DOMAIN t /\ t[j] = Delta BY <1>1, <1>5, <3>1
    <3> QED BY <1>1, <2>2, <3>2 DEF InTrail
  <2> QED BY <1>1, <2>1, <2>2
<1> QED BY <1>3, <1>4, <1>5 DEF TrailEvents, AnswerLast

(* A Tool that is entered: the start of the call was not sent before. *)
LEMMA EnteringEvidence ==
  ASSUME ExecutionTypes, Evidence, AnswerLast, NEW i \in DOMAIN calls, Entering(i)
  PROVE  Evidence' /\ AnswerLast'
<1>1. /\ pc = "tools" /\ pc' = pc /\ UNCHANGED <<saved, contributors>>
      /\ calls[i].stage = "reserved" /\ queue' = Append(queue, Started(i))
      /\ calls'[i].stage = "running" /\ calls'[i].out = calls[i].out
      /\ DOMAIN calls' = DOMAIN calls /\ \A j \in DOMAIN calls : j # i => calls'[j] = calls[j]
  BY DEF Entering, CallStep, Moved
<1>2. calls[i].out = <<>> /\ ~InTrail(Started(i)) /\ ~InTrail(Finished(i))
  BY <1>1 DEF Evidence, CallEvents
<1>3. i \in 1..MaxToolCalls BY CallTypes
<1> PICK e \in Items : e = Started(i) BY <1>3, ItemTypes
<1>4. Generated' = Generated BY <1>1, SameGenerated
<1>5. Growing BY <1>1, <1>4 DEF Growing
<1>6. /\ \A x : InTrail(x)' <=> InTrail(x) \/ x = e
      /\ Trail'[Len(Trail')] = e
  BY <1>1, LongerTrail
<1>7. TrailEvent(Len(Trail))' BY <1>1, <1>6 DEF TrailEvent
<1>8. ~InTrail(Delta) BY <1>1, TrailHas DEF Evidence
<1>9. /\ TrailEvents' /\ AnswerLast'
      /\ \A j, k \in DOMAIN Trail' : Trail'[j] = Trail'[k] => j = k \/ Trail'[k] = Delta
  BY <1>1, <1>2, <1>5, <1>7, <1>8, SentTrail DEF Evidence
<1>10. ASSUME NEW j \in DOMAIN calls' PROVE CallEvents(j)'
  <2>1. CASE j # i
    <3>1. e # Started(j) /\ e # Finished(j) BY <2>1, ItemsDiffer
    <3> QED BY <1>1, <1>5, <1>6, <2>1, <3>1, CallEventsKept DEF Evidence
  <2>2. CASE j = i
    <3>1. InTrail(Started(i))' /\ ~InTrail(Finished(i))' BY <1>2, <1>6, ItemsDiffer
    <3> QED BY <1>1, <1>2, <2>2, <3>1 DEF CallEvents
  <2> QED BY <2>1, <2>2
<1>11. \A j \in DOMAIN calls : calls'[j].out = calls[j].out BY <1>1
<1>12. ASSUME NEW j \in DOMAIN calls, NEW k \in DOMAIN calls[j].out PROVE calls[j].out[k] # e
  <2>1. j # i BY <1>2
  <2> QED BY <2>1, OutKinds, ItemsDiffer DEF Evidence
<1>13. OnePlace' BY <1>1, <1>6, <1>9, <1>11, <1>12 DEF Evidence, OnePlace
<1>14. SourcesPlaced' BY <1>1, <1>4, <1>6, <1>11 DEF Evidence, SourcesPlaced
<1> QED BY <1>9, <1>10, <1>13, <1>14 DEF Evidence

(* A delta of the answer: every Tool event was sent before it. *)
LEMMA SpeakingEvidence ==
  ASSUME ExecutionTypes, CallsDone, Evidence, AnswerLast, Speaking
  PROVE  Evidence' /\ AnswerLast'
<1>1. /\ pc = "answering" /\ pc' = pc /\ queue' = Append(queue, Delta)
      /\ UNCHANGED <<saved, contributors, calls>>
  BY DEF Speaking, CallStep
<1>2. \A j \in DOMAIN calls : calls[j].out = <<>> BY <1>1 DEF CallsDone, Evidence, CallEvents
<1> PICK e \in Items : e = Delta BY ItemTypes
<1>4. Generated' = Generated BY <1>1, SameGenerated
<1>5. Growing BY <1>1, <1>4 DEF Growing
<1>6. /\ \A x : InTrail(x)' <=> InTrail(x) \/ x = e
      /\ Trail'[Len(Trail')] = e
  BY <1>1, LongerTrail
<1>7. TrailEvent(Len(Trail))' BY <1>1, <1>6 DEF TrailEvent
<1>9. /\ TrailEvents' /\ AnswerLast'
      /\ \A j, k \in DOMAIN Trail' : Trail'[j] = Trail'[k] => j = k \/ Trail'[k] = Delta
  BY <1>1, <1>5, <1>7, SentTrail, ItemKinds DEF Evidence
<1>10. ASSUME NEW j \in DOMAIN calls' PROVE CallEvents(j)'
  <2>1. e # Started(j) /\ e # Finished(j) BY ItemsDiffer
  <2> QED BY <1>1, <1>5, <1>6, <2>1, CallEventsKept DEF Evidence
<1>13. OnePlace' BY <1>1, <1>2, <1>9 DEF OnePlace
<1>14. SourcesPlaced' BY <1>1, <1>4, <1>6 DEF Evidence, SourcesPlaced
<1> QED BY <1>9, <1>10, <1>13, <1>14 DEF Evidence

(* The last item: nothing of its kind was sent before. *)
LEMMA DeliveringEvidence ==
  ASSUME ExecutionTypes, Decisions, Evidence, AnswerLast, Delivering
  PROVE  Evidence' /\ AnswerLast'
<1>1. /\ pc = "delivering" /\ pc' = "ended" /\ queue' = Append(queue, last)
      /\ UNCHANGED <<saved, contributors, calls, last>>
  BY DEF Delivering
<1>2. last \in Items BY <1>1 DEF ExecutionTypes
<1> PICK e \in Items : e = last BY <1>2
<1>3. e.type \in {"error", "result"} BY <1>1 DEF Decisions
<1>4. Generated' = Generated BY <1>1, SameGenerated
<1>5. Growing BY <1>1, <1>4 DEF Growing
<1>6. /\ \A x : InTrail(x)' <=> InTrail(x) \/ x = e
      /\ Trail'[Len(Trail')] = e
  BY <1>1, LongerTrail
<1>7. TrailEvent(Len(Trail))' BY <1>1, <1>3, <1>6 DEF TrailEvent
<1>8. ~InTrail(e) BY <1>1, <1>3, TrailHas DEF Evidence
<1>9. /\ TrailEvents' /\ AnswerLast'
      /\ \A j, k \in DOMAIN Trail' : Trail'[j] = Trail'[k] => j = k \/ Trail'[k] = Delta
  BY <1>1, <1>3, <1>5, <1>7, <1>8, SentTrail DEF Evidence
<1>10. ASSUME NEW j \in DOMAIN calls' PROVE CallEvents(j)'
  <2>1. e # Started(j) /\ e # Finished(j) BY <1>3, ItemKinds
  <2> QED BY <1>1, <1>5, <1>6, <2>1, CallEventsKept DEF Evidence
<1>12. ASSUME NEW j \in DOMAIN calls, NEW k \in DOMAIN calls[j].out PROVE calls[j].out[k] # e
  BY <1>3, OutKinds, ItemKinds DEF Evidence
<1>13. OnePlace' BY <1>1, <1>6, <1>9, <1>12 DEF Evidence, OnePlace
<1>14. SourcesPlaced' BY <1>1, <1>4, <1>6 DEF Evidence, SourcesPlaced
<1> QED BY <1>9, <1>10, <1>13, <1>14 DEF Evidence

(* A call that sends its next event: its start; its end, after its start;  *)
(* or one of its sources, after its end.                                   *)
LEMMA EmittingEvidence ==
  ASSUME ExecutionTypes, Evidence, AnswerLast, NEW i \in DOMAIN calls, Emitting(i)
  PROVE  Evidence' /\ AnswerLast'
<1>1. calls[i].out # <<>> /\ calls[i].out \in Seq(Items) /\ calls[i].stage \in Stages
  BY CallTypes DEF Emitting
<1> PICK o \in Seq(Items), c \in Stages : o = calls[i].out /\ c = calls[i].stage BY <1>1
<1>2. /\ Head(o) = o[1] /\ o[1] \in Items /\ 1 \in DOMAIN o /\ Tail(o) \in Seq(Items)
      /\ Len(Tail(o)) = Len(o) - 1 /\ Len(o) \in Nat \ {0}
      /\ DOMAIN o = 1..Len(o) /\ DOMAIN Tail(o) = 1..Len(o) - 1
      /\ \A k \in 1..Len(o) - 1 : Tail(o)[k] = o[k + 1]
  BY <1>1
<1> PICK e \in Items, p \in Seq(Items) : e = o[1] /\ p = Tail(o) BY <1>2
<1>3. /\ \A k \in DOMAIN p : k + 1 \in DOMAIN o /\ k + 1 # 1 /\ p[k] = o[k + 1]
      /\ \A k \in DOMAIN o : k = 1 \/ (k - 1 \in DOMAIN p /\ p[k - 1] = o[k])
      /\ \A k, n \in DOMAIN p : k + 1 = n + 1 => k = n
      /\ Len(o) = 1 => p = <<>>
      /\ Len(o) # 1 => p # <<>> /\ 1 \in DOMAIN p
  <2>0. Len(o) - 1 \in Nat BY <1>2
  <2> PICK n \in Nat : n = Len(o) - 1 BY <2>0
  <2>1. /\ Len(p) = n /\ DOMAIN p = 1..n /\ DOMAIN o = 1..n + 1
        /\ \A k \in 1..n : p[k] = o[k + 1]
    BY <1>2
  <2>2. \A k \in DOMAIN p : k + 1 \in DOMAIN o /\ k + 1 # 1 /\ p[k] = o[k + 1] BY <2>1
  <2>3. ASSUME NEW k \in DOMAIN o, k # 1 PROVE k - 1 \in DOMAIN p /\ p[k - 1] = o[k]
    <3>1. k - 1 \in 1..n /\ k - 1 + 1 = k BY <2>1, <2>3
    <3> QED BY <2>1, <3>1
  <2>4. \A k, m \in DOMAIN p : k + 1 = m + 1 => k = m BY <2>1
  <2>5. Len(o) = 1 => p = <<>> BY <2>1
  <2>6. Len(o) # 1 => 1 \in DOMAIN p
    <3>1. Len(o) # 1 => n # 0 BY <1>2
    <3>2. \A m \in Nat : m # 0 => 1 \in 1..m OBVIOUS
    <3> QED BY <2>1, <3>1, <3>2
  <2>7. 1 \in DOMAIN p => p # <<>> OBVIOUS
  <2> QED BY <2>2, <2>3, <2>4, <2>5, <2>6, <2>7
<1>4. PICK s \in Stages :
        /\ s = IF Len(o) = 1 THEN IF c = "starting" THEN "running" ELSE "done" ELSE c
        /\ Moved(i, s, p)
  BY DEF Emitting
<1>5. /\ pc = "tools" /\ pc' = pc /\ UNCHANGED <<saved, contributors>>
      /\ queue' = Append(queue, e)
      /\ calls'[i].stage = s /\ calls'[i].out = p
      /\ DOMAIN calls' = DOMAIN calls /\ \A j \in DOMAIN calls : j # i => calls'[j] = calls[j]
  BY <1>2, <1>4 DEF Emitting, CallStep, Moved
<1>6. Generated' = Generated BY <1>5, SameGenerated
<1>7. Growing BY <1>5, <1>6 DEF Growing
<1>8. /\ \A x : InTrail(x)' <=> InTrail(x) \/ x = e
      /\ \A x : InTrail(x) => Before(x, Len(Trail))'
      /\ Trail'[Len(Trail')] = e
  BY <1>5, LongerTrail
<1>9. /\ ~InTrail(e) /\ \A k \in DOMAIN o : ~InTrail(o[k])
      /\ \A k, n \in DOMAIN o : o[k] = o[n] => k = n
  BY <1>2 DEF Evidence, OnePlace
<1>17. ASSUME NEW j \in DOMAIN calls, j # i, NEW n \in DOMAIN calls[j].out, NEW k \in DOMAIN o
       PROVE  calls[j].out[n] # o[k]
  BY <1>17 DEF Evidence, OnePlace
<1>10. \/ c = "starting" /\ e = Started(i) /\ o = <<Started(i)>> /\ ~InTrail(Finished(i))
       \/ c = "emitting" /\ e = Finished(i) /\ InTrail(Started(i))
       \/ /\ c = "emitting" /\ InTrail(Started(i)) /\ InTrail(Finished(i))
          /\ \E r \in Sources : e = Added(r) /\ i \in contributors[r]
  <2>1. CallEvents(i) BY DEF Evidence
  <2>2. \/ c = "starting" /\ e = Started(i)
        \/ c = "emitting" /\ e = Finished(i)
        \/ c = "emitting" /\ \E r \in Sources : e = Added(r) /\ i \in contributors[r]
    BY <1>2, <2>1, OutKinds
  <2>3. CASE c = "starting" BY <2>1, <2>2, <2>3 DEF CallEvents
  <2>4. CASE c = "emitting" /\ e = Finished(i) BY <2>1, <2>4 DEF CallEvents
  <2>5. CASE c = "emitting" /\ \E r \in Sources : e = Added(r) /\ i \in contributors[r]
    <3>1. o[1] # Finished(i) BY <2>5, ItemsDiffer
    <3>2. InTrail(Started(i)) /\ InTrail(Finished(i)) BY <2>1, <2>5, <3>1 DEF CallEvents
    <3> QED BY <2>5, <3>2
  <2> QED BY <2>2, <2>3, <2>4, <2>5
<1>11. TrailEvent(Len(Trail))'
  <2>1. CASE e = Started(i) BY <1>5, <1>8, <2>1 DEF TrailEvent
  <2>2. CASE e = Finished(i) /\ InTrail(Started(i))
    <3>1. Before(Started(i), Len(Trail))' BY <1>8, <2>2
    <3> QED BY <1>5, <1>8, <2>2, <3>1 DEF TrailEvent
  <2>3. ASSUME NEW r \in Sources, e = Added(r), i \in contributors[r], InTrail(Finished(i))
        PROVE  TrailEvent(Len(Trail))'
    <3>1. Before(Finished(i), Len(Trail))' BY <1>8, <2>3
    <3>2. r \in Generated' /\ i \in contributors'[r] BY <1>5, <1>6, <2>3 DEF Generated
    <3> QED BY <1>8, <2>3, <3>1, <3>2 DEF TrailEvent
  <2> QED BY <1>10, <2>1, <2>2, <2>3
<1>12. ~InTrail(Delta) BY <1>5, TrailHas DEF Evidence
<1>13. /\ TrailEvents' /\ AnswerLast'
       /\ \A j, k \in DOMAIN Trail' : Trail'[j] = Trail'[k] => j = k \/ Trail'[k] = Delta
  BY <1>5, <1>7, <1>9, <1>11, <1>12, SentTrail DEF Evidence
<1>14. ASSUME NEW j \in DOMAIN calls' PROVE CallEvents(j)'
  <2>1. CASE j # i
    <3>1. e # Started(j) /\ e # Finished(j) BY <1>10, <2>1, ItemsDiffer
    <3> QED BY <1>5, <1>7, <1>8, <2>1, <3>1, CallEventsKept DEF Evidence
  <2>2. CASE j = i /\ c = "starting"
    <3>1. Len(o) = 1 /\ s = "running" /\ p = <<>> BY <1>3, <1>4, <1>10, <2>2
    <3>2. InTrail(Started(i))' /\ ~InTrail(Finished(i))' BY <1>8, <1>10, <2>2, ItemsDiffer
    <3> QED BY <1>5, <2>2, <3>1, <3>2 DEF CallEvents
  <2>3. CASE j = i /\ c = "emitting"
    <3>1. InTrail(Started(i))' /\ InTrail(Finished(i))' BY <1>8, <1>10, <2>3
    <3>2. CASE Len(o) = 1
      <4>1. s = "done" /\ p = <<>> BY <1>3, <1>4, <2>3, <3>2
      <4> QED BY <1>5, <2>3, <3>1, <4>1 DEF CallEvents
    <3>3. CASE Len(o) # 1
      <4>1. s = "emitting" /\ p # <<>> /\ 1 \in DOMAIN p BY <1>3, <1>4, <2>3, <3>3
      <4>2. ASSUME NEW k \in DOMAIN p
            PROVE  \E r \in Sources : p[k] = Added(r) /\ i \in contributors'[r]
        <5> PICK m \in DOMAIN o : m # 1 /\ p[k] = o[m] BY <1>3
        <5>1. \E r \in Sources : o[m] = Added(r) /\ i \in contributors[r]
          BY <2>3, OutKinds DEF Evidence
        <5> QED BY <1>5, <5>1
      <4>3. p[1] # Finished(i) BY <4>1, <4>2, ItemsDiffer
      <4>4. calls'[i].stage = "emitting" /\ calls'[i].out = p BY <1>5, <4>1
      <4> QED BY <2>3, <3>1, <4>1, <4>2, <4>3, <4>4 DEF CallEvents
    <3> QED BY <3>2, <3>3
  <2> QED BY <1>10, <2>1, <2>2, <2>3
<1>15. OnePlace'
  <2>2. ASSUME NEW j \in DOMAIN calls', NEW k \in DOMAIN calls'[j].out
        PROVE  ~InTrail(calls[j].out[k])'
    <3>1. CASE j = i
      <4>1. k + 1 \in DOMAIN o /\ k + 1 # 1 /\ p[k] = o[k + 1] BY <1>3, <1>5, <3>1
      <4>2. ~InTrail(p[k]) /\ p[k] # e BY <1>2, <1>9, <4>1
      <4> QED BY <1>5, <1>8, <3>1, <4>2
    <3>2. CASE j # i
      <4>1. calls[j].out[k] # e /\ ~InTrail(calls[j].out[k])
        BY <1>2, <1>5, <1>17, <3>2 DEF Evidence, OnePlace
      <4> QED BY <1>5, <1>8, <3>2, <4>1
    <3> QED BY <3>1, <3>2
  <2>3. ASSUME NEW j \in DOMAIN calls', NEW m \in DOMAIN calls',
               NEW k \in DOMAIN calls'[j].out, NEW n \in DOMAIN calls'[m].out,
               calls'[j].out[k] = calls'[m].out[n]
        PROVE  j = m /\ k = n
    <3>1. CASE j = i /\ m = i
      <4>1. /\ k + 1 \in DOMAIN o /\ p[k] = o[k + 1] /\ n + 1 \in DOMAIN o /\ p[n] = o[n + 1]
            /\ k \in DOMAIN p /\ n \in DOMAIN p
        BY <1>3, <1>5, <3>1
      <4>3. p[k] = p[n] BY <1>5, <2>3, <3>1
      <4>2. k + 1 = n + 1 BY <1>9, <4>1, <4>3
      <4> QED BY <1>3, <3>1, <4>1, <4>2
    <3>2. CASE j = i /\ m # i
      <4>1. k + 1 \in DOMAIN o /\ p[k] = o[k + 1] BY <1>3, <1>5, <3>2
      <4>2. p[k] = calls[m].out[n] /\ n \in DOMAIN calls[m].out BY <1>5, <2>3, <3>2
      <4>3. m \in DOMAIN calls BY <1>5
      <4> QED BY <1>17, <3>2, <4>1, <4>2, <4>3
    <3>3. CASE j # i /\ m = i
      <4>1. n + 1 \in DOMAIN o /\ p[n] = o[n + 1] BY <1>3, <1>5, <3>3
      <4>2. p[n] = calls[j].out[k] /\ k \in DOMAIN calls[j].out BY <1>5, <2>3, <3>3
      <4>3. j \in DOMAIN calls BY <1>5
      <4> QED BY <1>17, <3>3, <4>1, <4>2, <4>3
    <3>4. CASE j # i /\ m # i BY <1>5, <2>3, <3>4 DEF Evidence, OnePlace
    <3> QED BY <3>1, <3>2, <3>3, <3>4
  <2> QED BY <1>13, <2>2, <2>3 DEF OnePlace
<1>16. SourcesPlaced'
  <2> SUFFICES ASSUME NEW r \in Generated', ~InTrail(Added(r))'
               PROVE  \E j \in DOMAIN calls' : \E k \in DOMAIN calls'[j].out :
                        calls'[j].out[k] = Added(r)
    BY DEF SourcesPlaced
  <2>1. PICK j \in DOMAIN calls : \E k \in DOMAIN calls[j].out : calls[j].out[k] = Added(r)
    BY <1>6, <1>8 DEF Evidence, SourcesPlaced
  <2>2. CASE j # i BY <1>5, <2>1, <2>2
  <2>3. CASE j = i
    <3>1. PICK k \in DOMAIN o : o[k] = Added(r) BY <2>1, <2>3
    <3>2. k # 1 BY <1>8, <3>1
    <3>3. k - 1 \in DOMAIN p /\ p[k - 1] = Added(r) BY <1>3, <3>1, <3>2
    <3> QED BY <1>5, <3>3
  <2> QED BY <2>2, <2>3
<1> QED BY <1>13, <1>14, <1>15, <1>16 DEF Evidence

(* A step that goes on keeps the whole invariant of a running execution. *)
LEMMA CoreStep ==
  ASSUME ExecutionTypes, Core, Going
  PROVE  Core'
<1>1. Decisions' BY DecisionsStep DEF Core
<1>2. CallsDone' BY CallsStep DEF Core, Evidence
<1>3. Evidence' /\ AnswerLast'
  <2>1. CASE Quiet \/ Saving BY <2>1, StillEvidence DEF Core
  <2>2. CASE Reserving BY <2>2, ReservingEvidence DEF Core
  <2>3. CASE Speaking BY <2>3, SpeakingEvidence DEF Core
  <2>4. CASE Delivering BY <2>4, DeliveringEvidence DEF Core
  <2>5. ASSUME NEW i \in DOMAIN calls, Waiting(i) \/ Entering(i) \/ Finishing(i) \/ Emitting(i)
        PROVE  Evidence' /\ AnswerLast'
    BY <2>5, WaitingEvidence, EnteringEvidence, FinishingEvidence, EmittingEvidence DEF Core
  <2> QED BY <2>1, <2>2, <2>3, <2>4, <2>5 DEF Going
<1> QED BY <1>1, <1>2, <1>3 DEF Core

-----------------------------------------------------------------------------
(* The end of an execution *)

(* What went before the head of the queue is saved. *)
LEMMA BeforeHead ==
  ASSUME ExecutionTypes, queue # <<>>, NEW n, n = Len(saved) + 1
  PROVE  /\ n \in DOMAIN Trail /\ Trail[n] = Head(queue)
         /\ \A e : Before(e, n) => e \in SavedEvents
         /\ \A e : e \in SavedEvents => \E k \in DOMAIN Trail : k # n /\ Trail[k] = e
         /\ n = Len(Trail) => /\ queue' = Tail(queue) => queue' = <<>>
                              /\ \A e : InTrail(e) /\ e # Head(queue) => e \in SavedEvents
<1>1. queue \in Seq(Items) /\ saved \in Seq(Items) BY DEF ExecutionTypes
<1>2. /\ Len(saved) \in Nat /\ Len(queue) \in Nat /\ DOMAIN Trail = 1..Len(Trail)
      /\ DOMAIN saved = 1..Len(saved) /\ Len(Trail) = Len(saved) + Len(queue)
      /\ \A k \in 1..Len(saved) : k \in DOMAIN Trail /\ Trail[k] = saved[k]
      /\ \A k \in 1..Len(queue) :
           Len(saved) + k \in DOMAIN Trail /\ Trail[Len(saved) + k] = queue[k]
  BY TrailFacts
<1>3. 1 \in 1..Len(queue) /\ Head(queue) = queue[1] BY <1>1
<1>4. n \in DOMAIN Trail /\ Trail[n] = Head(queue) BY <1>2, <1>3
<1>5. ASSUME NEW k \in DOMAIN Trail, k < n PROVE Trail[k] \in SavedEvents
  <2>1. k \in 1..Len(saved) BY <1>2, <1>5
  <2> QED BY <1>2, <2>1 DEF SavedEvents, Range
<1>6. \A e : Before(e, n) => e \in SavedEvents BY <1>5 DEF Before
<1>7. ASSUME NEW e \in SavedEvents PROVE \E k \in DOMAIN Trail : k # n /\ Trail[k] = e
  <2>1. PICK k \in 1..Len(saved) : saved[k] = e BY <1>2 DEF SavedEvents, Range
  <2>2. k # n BY <1>2, <2>1
  <2> QED BY <1>2, <2>1, <2>2
<1>8. ASSUME n = Len(Trail), queue' = Tail(queue) PROVE queue' = <<>>
  <2> PICK a \in Nat, b \in Nat : a = Len(saved) /\ b = Len(queue) BY <1>2
  <2>2. a + 1 = a + b BY <1>2, <1>8
  <2>1. Len(queue) = 1 BY <2>2
  <2> QED BY <1>1, <1>8, <2>1
<1>9. ASSUME n = Len(Trail), NEW e, InTrail(e), e # Head(queue) PROVE e \in SavedEvents
  <2>1. PICK k \in DOMAIN Trail : Trail[k] = e BY <1>9 DEF InTrail
  <2>2. k # n BY <1>4, <1>9, <2>1
  <2>3. k < n BY <1>2, <1>9, <2>1, <2>2
  <2> QED BY <1>5, <2>1, <2>3
<1> QED BY <1>4, <1>6, <1>7, <1>8, <1>9

(* Every event of the queue is valid when it is its turn. *)
LEMMA HeadIsValid ==
  ASSUME ExecutionTypes, Evidence, queue # <<>>, Head(queue).type \notin {"error", "result"}
  PROVE  Valid(Head(queue))
<1> PICK n, e : n = Len(saved) + 1 /\ e = Head(queue) OBVIOUS
<1>1. /\ n \in DOMAIN Trail /\ Trail[n] = e
      /\ \A x : Before(x, n) => x \in SavedEvents
      /\ \A x : x \in SavedEvents => \E k \in DOMAIN Trail : k # n /\ Trail[k] = x
  BY BeforeHead
<1>2. TrailEvent(n) /\ InTrail(e) BY <1>1 DEF Evidence, TrailEvents, InTrail
<1>3. e # Delta => e \notin SavedEvents BY <1>1 DEF Evidence, OnePlace
<1>4. ASSUME NEW i \in DOMAIN calls, e = Started(i) PROVE Valid(e)
  <2>1. calls[i].stage # "reserved" BY <1>2, <1>4 DEF Evidence, CallEvents
  <2>2. e.type = "tool.started" /\ e.call = i /\ e \notin SavedEvents
    BY <1>3, <1>4, ItemKinds, ItemsDiffer
  <2> QED BY <2>1, <2>2 DEF Valid
<1>5. ASSUME NEW i \in DOMAIN calls, e = Finished(i), Before(Started(i), n) PROVE Valid(e)
  <2>1. i \in Succeeded BY <1>2, <1>5 DEF Evidence, CallEvents, Succeeded
  <2>2. e.type = "tool.finished" /\ e.call = i /\ e \notin SavedEvents
    BY <1>3, <1>5, ItemKinds, ItemsDiffer
  <2>3. Started(i) \in SavedEvents BY <1>1, <1>5
  <2> QED BY <2>1, <2>2, <2>3 DEF Valid
<1>6. ASSUME NEW s \in Generated, e = Added(s), NEW i \in contributors[s], Before(Finished(i), n)
      PROVE  Valid(e)
  <2>1. e.type = "source.added" /\ e.source = s /\ e \notin SavedEvents
    BY <1>3, <1>6, ItemKinds, ItemsDiffer
  <2>2. Finished(i) \in SavedEvents BY <1>1, <1>6
  <2> QED BY <2>1, <2>2 DEF Valid
<1>7. CASE e = Delta
  <2>1. e.type = "message.delta" BY <1>7, ItemKinds
  <2> QED BY <2>1 DEF Valid
<1> QED BY <1>1, <1>2, <1>4, <1>5, <1>6, <1>7 DEF TrailEvent

(* A result and an error are what the graph delivers last. *)
LEMMA LastIsLast ==
  ASSUME ExecutionTypes, Evidence, queue # <<>>, Head(queue).type \in {"error", "result"}
  PROVE  Head(queue) = last /\ Len(saved) + 1 = Len(Trail)
<1> PICK n : n = Len(saved) + 1 OBVIOUS
<1>1. n \in DOMAIN Trail /\ Trail[n] = Head(queue) BY BeforeHead
<1>2. TrailEvent(n) BY <1>1 DEF Evidence, TrailEvents
<1> QED BY <1>1, <1>2, ItemKinds DEF TrailEvent

(* At the result every source and both events of every call are saved. *)
LEMMA ResultIsSupported ==
  ASSUME ExecutionTypes, CallsDone, Evidence, queue # <<>>, Head(queue).type = "result"
  PROVE  /\ last = Result(Generated) /\ Generated = {s \in Sources : Added(s) \in SavedEvents}
         /\ \A i \in DOMAIN calls : {Started(i), Finished(i)} \subseteq SavedEvents
         /\ \A k \in DOMAIN saved : saved[k].type = "source.added" =>
              \E n \in 1..k - 1, i \in contributors[saved[k].source] : saved[n] = Finished(i)
<1> PICK n : n = Len(saved) + 1 OBVIOUS
<1>1. Head(queue) = last /\ last.type = "result" /\ n = Len(Trail) BY LastIsLast
<1>2. \A e : InTrail(e) /\ e # Head(queue) => e \in SavedEvents BY <1>1, BeforeHead
<1>3. last = Result(Generated) /\ \A i \in DOMAIN calls : calls[i].stage = "done"
  BY <1>1 DEF CallsDone
<1>4. ASSUME NEW i \in DOMAIN calls PROVE {Started(i), Finished(i)} \subseteq SavedEvents
  <2>1. InTrail(Started(i)) /\ InTrail(Finished(i)) BY <1>3 DEF Evidence, CallEvents
  <2>2. Started(i) # last /\ Finished(i) # last BY <1>1, ItemKinds
  <2> QED BY <1>1, <1>2, <2>1, <2>2
<1>5. \A i \in DOMAIN calls : calls[i].out = <<>> BY <1>3 DEF Evidence, CallEvents
<1>6. ASSUME NEW s \in Generated PROVE s \in Sources /\ Added(s) \in SavedEvents
  <2>1. InTrail(Added(s)) BY <1>5 DEF Evidence, SourcesPlaced
  <2>2. Added(s) # last BY <1>1, ItemKinds
  <2> QED BY <1>1, <1>2, <2>1, <2>2 DEF Generated
<1>7. /\ Len(saved) \in Nat /\ DOMAIN saved = 1..Len(saved) /\ DOMAIN Trail = 1..Len(Trail)
      /\ \A k \in 1..Len(saved) : k \in DOMAIN Trail /\ Trail[k] = saved[k]
  BY TrailFacts
<1>8. ASSUME NEW s, Added(s) \in SavedEvents PROVE s \in Generated
  <2>1. InTrail(Added(s)) BY <1>7, <1>8 DEF SavedEvents, Range, InTrail
  <2> QED BY <2>1, TrailHas DEF Evidence
<1>9. ASSUME NEW k \in DOMAIN saved, saved[k].type = "source.added"
      PROVE  \E m \in 1..k - 1, i \in contributors[saved[k].source] : saved[m] = Finished(i)
  <2>1. TrailEvent(k) /\ Trail[k] = saved[k] BY <1>7 DEF Evidence, TrailEvents
  <2>2. PICK s \in Generated :
          saved[k] = Added(s) /\ \E i \in contributors[s] : Before(Finished(i), k)
    BY <1>1, <1>9, <2>1, ItemKinds DEF TrailEvent
  <2>3. PICK i \in contributors[s] : Before(Finished(i), k) BY <2>2
  <2>4. PICK m \in DOMAIN Trail : m < k /\ Trail[m] = Finished(i) BY <2>3 DEF Before
  <2>5. k \in 1..Len(saved) /\ m \in Nat /\ m >= 1 BY <1>7, <2>4
  <2>6. m \in 1..k - 1 /\ m \in 1..Len(saved) BY <1>7, <2>4, <2>5
  <2>7. saved[k].source = s BY <2>2, ItemKinds
  <2> QED BY <1>7, <2>3, <2>4, <2>6, <2>7
<1> QED BY <1>3, <1>4, <1>6, <1>8, <1>9 DEF Generated

(* The consumer's verdict: the item is the last one, no event is refused,  *)
(* and what a completed Run cites is saved.                                *)
LEMMA JudgingIsSound ==
  ASSUME ExecutionTypes, StepsBound, verdict = "none", Core, Judging
  PROVE  BudgetsHold' /\ AnswerComesLast' /\ EvidenceIsSound'
<1>1. /\ queue # <<>> /\ queue' = Tail(queue)
      /\ UNCHANGED <<saved, visible, seen, pc, calls, control, contributors, last, requests, hops>>
  BY DEF Judging, ledger, graph
<1>2. BudgetsHold /\ AnswerComesLast /\ last # Failure("finalizer_exit_invalid")
  BY RunningIsSound DEF Core, Decisions
<1>3. Head(queue).type \in {"error", "result"}
  BY HeadIsValid DEF Judging, Core, Evidence
<1>4. Len(saved) + 1 = Len(Trail) BY <1>1, <1>3, LastIsLast DEF Core
<1>5. queue' = <<>> BY <1>1, <1>4, BeforeHead
<1>6. BudgetsHold'
  <2>1. Generated' = Generated BY <1>1, SameGenerated
  <2>2. ToolsNeverWait'
    <3>1. Len(queue') = 0 BY <1>5
    <3>2. Capacity # 0 BY ExecutionAssumption DEF Capacity
    <3> QED BY <3>1, <3>2 DEF ToolsNeverWait, Full, Capacity
  <2> QED BY <1>1, <1>2, <2>2 DEF BudgetsHold, RecursionLimit
<1>7. AnswerComesLast'
  <2>1. saved \in Seq(Items) BY DEF ExecutionTypes
  <2> PICK q \in Seq(Items) : q = saved BY <2>1
  <2>6. q \o <<>> = q
    <3>1. Len(q \o <<>>) = Len(q) /\ q \o <<>> \in Seq(Items) OBVIOUS
    <3>2. \A k \in 1..Len(q) : (q \o <<>>)[k] = q[k] OBVIOUS
    <3> QED BY <3>1, <3>2
  <2>2. saved' \o queue' = saved BY <1>1, <1>5, <2>6
  <2>3. /\ DOMAIN saved = 1..Len(saved)
        /\ \A k \in 1..Len(saved) : k \in DOMAIN Trail /\ Trail[k] = saved[k]
    BY TrailFacts
  <2>4. \A k, n \in DOMAIN saved :
          k < n /\ saved[k] = Delta => saved[n].type \in {"message.delta", "error", "result"}
    BY <2>3 DEF Core, AnswerLast
  <2>5. (pc = "answering" => /\ \A i \in DOMAIN calls : calls[i].stage = "done"
                             /\ control = "completed" \/ "text" \in seen \/ visible = {})'
    BY <1>1, <1>2 DEF AnswerComesLast
  <2> QED BY <2>2, <2>4, <2>5 DEF AnswerComesLast
<1>8. EvidenceIsSound'
  <2>1. CASE Head(queue).type = "error"
    <3>1. verdict' = "failed" BY <2>1 DEF Judging
    <3> QED BY <1>1, <1>2, <3>1 DEF EvidenceIsSound, NoFalseRejection, CompletedIsSupported
  <2>2. CASE Head(queue).type = "result"
    <3>1. /\ last = Result(Generated) /\ Generated = {s \in Sources : Added(s) \in SavedEvents}
          /\ \A i \in DOMAIN calls : {Started(i), Finished(i)} \subseteq SavedEvents
          /\ \A k \in DOMAIN saved : saved[k].type = "source.added" =>
               \E n \in 1..k - 1, i \in contributors[saved[k].source] : saved[n] = Finished(i)
      BY <1>1, <2>2, ResultIsSupported DEF Core
    <3>2. Head(queue) = last BY <1>1, <1>3, LastIsLast DEF Core
    <3>3. Head(queue).sources = Generated BY <3>1, <3>2, ItemKinds
    <3>4. verdict' = ResultVerdict(Generated) BY <2>2, <3>3 DEF Judging
    <3>5. verdict' # "rejected" BY <3>1, <3>4 DEF ResultVerdict
    <3>6. SavedEvents' = SavedEvents BY <1>1 DEF SavedEvents
    <3>7. CompletedIsSupported' BY <1>1, <3>1, <3>6 DEF CompletedIsSupported
    <3> QED BY <1>1, <1>2, <3>5, <3>7 DEF EvidenceIsSound, NoFalseRejection
  <2> QED BY <1>3, <2>1, <2>2
<1> QED BY <1>6, <1>7, <1>8

(* A cancellation or the deadline leaves everything as it is. *)
LEMMA StopIsSound ==
  ASSUME ExecutionTypes, StepsBound, verdict = "none", Core, Stop
  PROVE  BudgetsHold' /\ AnswerComesLast' /\ EvidenceIsSound'
<1>1. /\ verdict' = "stopped"
      /\ UNCHANGED <<queue, saved, visible, seen, pc, calls, control, contributors, last, requests,
                     hops>>
  BY DEF Stop, ledger, graph
<1>2. BudgetsHold /\ AnswerComesLast /\ last # Failure("finalizer_exit_invalid")
  BY RunningIsSound DEF Core, Decisions
<1>3. Generated' = Generated BY <1>1, SameGenerated
<1>4. BudgetsHold'
  BY <1>1, <1>2, <1>3 DEF BudgetsHold, ToolsNeverWait, FewSources, Full, Capacity, RecursionLimit
<1>5. AnswerComesLast' BY <1>1, <1>2 DEF AnswerComesLast
<1>6. EvidenceIsSound' BY <1>1, <1>2 DEF EvidenceIsSound, NoFalseRejection, CompletedIsSupported
<1> QED BY <1>4, <1>5, <1>6

-----------------------------------------------------------------------------
(* The invariant of every execution *)

(* A prepared Run satisfies the invariant. *)
LEMMA InvariantInit == Init => ExecutionInvariant
<1> SUFFICES ASSUME Init PROVE ExecutionInvariant
  OBVIOUS
<1>1. /\ calls = <<>> /\ queue = <<>> /\ saved = <<>> /\ batch = {} /\ attempted = 0 /\ steps = 0
      /\ requests = 0 /\ hops = 0 /\ pc = "model" /\ control = "none" /\ last = NoItem
      /\ verdict = "none" /\ contributors = [s \in Sources |-> {}]
  BY DEF Init
<1>2. Generated = {} BY <1>1 DEF Generated
<1>3. ExecutionTypes
  <2>1. IsFiniteSet(Generated) BY <1>2, FS_EmptySet
  <2>2. <<>> \in Seq(Call) /\ <<>> \in Seq(Items) /\ Len(<<>>) = 0 OBVIOUS
  <2>3. MaxToolCalls \in Nat BY ExecutionAssumption
  <2>4. contributors \in [Sources -> SUBSET Nat] BY <1>1
  <2> QED BY <1>1, <2>1, <2>2, <2>3, <2>4 DEF ExecutionTypes
<1>4. StepsBound
  <2>1. MaxSteps \in Nat BY ExecutionAssumption
  <2> QED BY <1>1, <2>1 DEF StepsBound
<1>5. DOMAIN calls = {} /\ Trail = <<>> /\ DOMAIN Trail = {} BY <1>1 DEF Trail
<1>6. Decisions BY <1>1, ItemKinds DEF Decisions
<1>7. CallsDone BY <1>1, <1>5, ItemKinds DEF CallsDone
<1>8. Evidence BY <1>2, <1>5 DEF Evidence, TrailEvents, OnePlace, SourcesPlaced
<1>9. AnswerLast BY <1>5 DEF AnswerLast
<1> QED BY <1>1, <1>3, <1>4, <1>6, <1>7, <1>8, <1>9 DEF ExecutionInvariant, Core

(* Every step keeps the invariant. *)
LEMMA InvariantStep == ExecutionInvariant /\ [Next]_vars => ExecutionInvariant'
<1> SUFFICES ASSUME ExecutionInvariant, [Next]_vars PROVE ExecutionInvariant'
  OBVIOUS
<1>1. ExecutionTypes /\ StepsBound /\ (verdict = "none" => Core) BY DEF ExecutionInvariant
<1>2. verdict = "none" => Decisions BY <1>1 DEF Core
<1>3. CASE Next
  <2>1. verdict = "none" /\ Core BY <1>1, <1>2, <1>3, StepShape
  <2>2. ExecutionTypes' /\ StepsBound' BY <1>1, <1>2, <1>3, TypesStep, BoundStep
  <2>3. CASE Going
    <3>1. Core' BY <1>1, <2>1, <2>3, CoreStep
    <3>2. verdict' = verdict
      BY <2>3 DEF Going, Quiet, Reserving, Speaking, Delivering, Saving, Waiting, Entering,
         Finishing, Emitting, CallStep
    <3> QED BY <2>1, <2>2, <3>1, <3>2 DEF ExecutionInvariant
  <2>4. CASE Judging
    <3>1. BudgetsHold' /\ AnswerComesLast' /\ EvidenceIsSound'
      BY <1>1, <2>1, <2>4, JudgingIsSound
    <3>2. verdict' # "none" BY <2>4 DEF Judging, ResultVerdict
    <3> QED BY <2>2, <3>1, <3>2 DEF ExecutionInvariant
  <2>5. CASE Stop
    <3>1. BudgetsHold' /\ AnswerComesLast' /\ EvidenceIsSound' BY <1>1, <2>1, <2>5, StopIsSound
    <3>2. verdict' # "none" BY <2>5 DEF Stop
    <3> QED BY <2>2, <3>1, <3>2 DEF ExecutionInvariant
  <2> QED BY <1>1, <1>2, <1>3, <2>3, <2>4, <2>5, StepShape, ConsumeShape DEF Going
<1>4. CASE UNCHANGED vars
  <2>1. /\ UNCHANGED <<calls, contributors, queue, saved, verdict, visible, attempted>>
        /\ UNCHANGED <<pc, counts, last, batch, control, seen>>
    BY <1>4 DEF vars, world, ledger, graph, counts
  <2>2. Quiet BY <1>1, <2>1 DEF Quiet, Standing, ExecutionTypes
  <2>3. ExecutionTypes' BY <1>1, <2>2, QuietTypes
  <2>4. StepsBound' BY <1>1, <2>1 DEF StepsBound, counts
  <2>5. verdict' = "none" => Core' BY <1>1, <2>1, <2>2, CoreStep DEF Going
  <2>6. ASSUME verdict' # "none" PROVE BudgetsHold' /\ AnswerComesLast' /\ EvidenceIsSound'
    <3>1. BudgetsHold /\ AnswerComesLast /\ EvidenceIsSound
      BY <2>1, <2>6 DEF ExecutionInvariant
    <3>2. Generated' = Generated /\ SavedEvents' = SavedEvents
      BY <2>1, SameGenerated DEF SavedEvents
    <3>3. BudgetsHold'
      BY <2>1, <3>1, <3>2 DEF BudgetsHold, ToolsNeverWait, FewSources, Full, Capacity,
         RecursionLimit, counts
    <3>4. AnswerComesLast' BY <2>1, <3>1 DEF AnswerComesLast
    <3>5. EvidenceIsSound'
      BY <2>1, <3>1, <3>2 DEF EvidenceIsSound, NoFalseRejection, CompletedIsSupported
    <3> QED BY <3>3, <3>4, <3>5
  <2> QED BY <2>3, <2>4, <2>5, <2>6 DEF ExecutionInvariant
<1> QED BY <1>3, <1>4

(* The inductive invariant holds in every state of every execution. *)
LEMMA ExecutionInvariantHolds == Spec => []ExecutionInvariant
<1> QED BY InvariantInit, InvariantStep, PTL DEF Spec

(* However the provider decides, no request exceeds max_model_steps, no    *)
(* more Tools than max_tool_calls are entered, the graph ends before the   *)
(* framework's recursion limit, and while the Run has few sources the      *)
(* queue has room for every Tool event: for any registry and any budgets.  *)
THEOREM BudgetsAlwaysHold == Spec => []BudgetsHold
<1> QED BY ExecutionInvariantHolds, InvariantIsSound, PTL

(* No Tool event follows a delta of the answer, and the answer begins only *)
(* when every call is done, after a draft or a completion decision if a    *)
(* Tool was visible.                                                       *)
THEOREM AnswerAlwaysComesLast == Spec => []AnswerComesLast
<1> QED BY ExecutionInvariantHolds, InvariantIsSound, PTL

(* validate_runtime_event and validate_result refuse nothing that a legal  *)
(* execution reports, however its calls interleave, and a completed Run    *)
(* cites exactly the sources it saved, each after the saved end of a call  *)
(* that reported it, with both events of every call.                       *)
THEOREM EvidenceIsAlwaysSound == Spec => []EvidenceIsSound
<1> QED BY ExecutionInvariantHolds, InvariantIsSound, PTL

(* _require_current_tool_permission: a Tool is entered only while the      *)
(* policy allows it, because with few sources no call is ever left waiting *)
(* for the queue between its last check and its Tool.                      *)
THEOREM DeniedToolsAreNeverEntered == Spec => DeniedToolNotEntered
<1> DEFINE Entry == FewSources => \A i \in DOMAIN calls :
                      calls[i].stage # "running" /\ calls'[i].stage = "running" =>
                        calls[i].tool \in allowed
<1>1. ExecutionInvariant /\ [Next]_vars => [Entry]_vars
  <2> SUFFICES ASSUME ExecutionInvariant, Next, FewSources, NEW j \in DOMAIN calls,
                      calls[j].stage # "running", calls'[j].stage = "running"
               PROVE  calls[j].tool \in allowed
    OBVIOUS
  <2>1. ExecutionTypes /\ (verdict = "none" => Core) BY DEF ExecutionInvariant
  <2>2. verdict = "none" => Decisions BY <2>1 DEF Core
  <2>3. /\ verdict = "none"
        /\ \/ Quiet \/ Reserving \/ Speaking \/ Delivering \/ Consume \/ Stop
           \/ \E i \in DOMAIN calls : Waiting(i) \/ Entering(i) \/ Finishing(i) \/ Emitting(i)
    BY <2>1, <2>2, StepShape
  <2>4. calls[j].stage # "starting" BY <2>1, <2>3 DEF Core, CallsDone
  <2>5. ~(calls'[j] = calls[j]) OBVIOUS
  <2>6. ~(Quiet \/ Speaking \/ Delivering \/ Consume \/ Stop)
    BY <2>5 DEF Quiet, Speaking, Delivering, Consume, Stop, graph
  <2>7. ~Reserving BY <2>1, <2>5, ReservedFacts DEF Reserving
  <2>8. PICK i \in DOMAIN calls : Waiting(i) \/ Entering(i) \/ Finishing(i) \/ Emitting(i)
    BY <2>3, <2>6, <2>7
  <2>9. i = j BY <2>5, <2>8 DEF Waiting, Entering, Finishing, Emitting, Moved
  <2>10. CASE Entering(i) BY <2>9, <2>10 DEF Entering
  <2>11. CASE Waiting(i) \/ Finishing(i) BY <2>9, <2>11 DEF Waiting, Finishing, Moved
  <2>12. CASE Emitting(i) BY <2>4, <2>9, <2>12 DEF Emitting, Moved
  <2> QED BY <2>8, <2>10, <2>11, <2>12
<1> QED BY <1>1, ExecutionInvariantHolds, PTL DEF Spec, DeniedToolNotEntered
=============================================================================
