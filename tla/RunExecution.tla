----------------------------- MODULE RunExecution -----------------------------
(***************************************************************************)
(* One Run of the agent graph under the policy ledger: RunExecution and    *)
(* execute_tool_call of execution_policy.py, and the middleware of         *)
(* agent_runtime.py that drives it (apply_model_policy, apply_tool_policy, *)
(* finalize_after_agent).  The model provider decides freely.  The Tool    *)
(* calls of one decision run concurrently; their events go through the     *)
(* bounded queue to a consumer, which validates each before it is saved.   *)
(* The capability policy may withdraw a Tool at any time.                  *)
(*                                                                         *)
(* A member of Tools is a Tool with its canonical arguments (what a        *)
(* fingerprint stands for).  A call is known by its place in `calls'; ids  *)
(* and arguments that fail validation are the malformed decisions.  Graph  *)
(* routing belongs to LangGraph: after the Tools to after_agent if all of  *)
(* them return directly, to the model otherwise; a Tool that raises        *)
(* cancels its siblings.                                                   *)
(***************************************************************************)
EXTENDS Naturals, Sequences, FiniteSets, FiniteSetsExt, SequencesExt, Functions

CONSTANTS Tools, BaseTools,  \* what is registered, and the Agent's scope
          Terminal,          \* terminal_after_success
          Facts,             \* fingerprints of Tool results
          SourcesOf,         \* the sources that a Tool reports, in order
          MaxSteps, MaxToolCalls, MaxIdentical, MaxNoProgress,  \* AgentBudget
          SourcePolicy,
          MaxBatch,          \* bound on the Tool calls of one decision
          MaxDeltas          \* bound on the deltas of an answer

ASSUME ExecutionAssumption ==
  /\ BaseTools \subseteq Tools /\ Terminal \subseteq Tools
  /\ {MaxSteps, MaxIdentical, MaxNoProgress, MaxBatch, MaxDeltas} \subseteq Nat \ {0}
  /\ MaxToolCalls \in Nat /\ (BaseTools # {} => MaxToolCalls > 0)
  /\ SourcePolicy \in {"none", "required_if_tool_used", "required"}
  /\ DOMAIN SourcesOf = Tools
  /\ \A t \in Tools : /\ SourcesOf[t] \in Seq(Range(SourcesOf[t]))
                      /\ IsInjective(SourcesOf[t])  \* validate_unique_sources

Sources == UNION {Range(SourcesOf[t]) : t \in Tools}

VARIABLES allowed,     \* what the capability policy allows now
          visible,     \* visible_tool_ids, fixed when the Run was prepared
          pc,          \* where the graph is
          steps, attempted, noProgress,  \* the counters of the ledger
          fresh,       \* progress since the last model call
          seen,        \* _seen_progress_fingerprints
          lastTool,    \* _last_tool_fingerprint with _identical_tool_calls
          calls,       \* the reserved calls, each with its stage
          batch,       \* the calls of the last decision
          control,     \* the finalization control: none, pending, completed
          retried,     \* first_decision_retry_used
          contributors,  \* the calls that reported each source
          last,        \* what the producer delivers last
          queue,
          saved,       \* the events the consumer validated and persisted
          verdict,     \* how the execution ended for the consumer
          requests, hops  \* provider requests made; super-steps of the graph

ledger == <<steps, attempted, noProgress, fresh, seen, lastTool>>
graph  == <<pc, calls, batch, control, retried, contributors, last, hops>>
world  == <<allowed, visible, saved, verdict>>
vars   == <<world, ledger, graph, queue, requests>>

-----------------------------------------------------------------------------
Stages == {"reserved", "starting", "running", "emitting", "done"}
Codes  == {"model_step_limit", "tool_call_limit", "repeated_tool_call", "no_progress",
           "tool_not_allowed", "source_validation_failed", "agent_execution_failed",
           "finalizer_exit_invalid"}

Started(i)  == [type |-> "tool.started", call |-> i]
Finished(i) == [type |-> "tool.finished", call |-> i]
Added(s)    == [type |-> "source.added", source |-> s]
Delta       == [type |-> "message.delta"]
Failure(c)  == [type |-> "error", code |-> c]
Result(S)   == [type |-> "result", sources |-> S]

Events == {Started(i) : i \in 1..MaxToolCalls} \cup {Finished(i) : i \in 1..MaxToolCalls}
          \cup {Added(s) : s \in Sources} \cup {Delta}
Items  == Events \cup {Failure(c) : c \in Codes} \cup {Result(S) : S \in SUBSET Sources}

NoItem == [type |-> "none"]

(* queue_capacity *)
Capacity == MaxToolCalls * 3 + 6

(* framework_recursion_limit *)
RecursionLimit == (MaxSteps + MaxToolCalls + 4) * 3

TypeOK ==
  /\ allowed \subseteq Tools /\ visible \subseteq BaseTools
  /\ pc \in {"model", "deciding", "tools", "exit", "drafted", "answering", "delivering",
             "ended"}
  /\ steps \in 0..MaxSteps + 1 /\ attempted \in 0..MaxToolCalls + MaxBatch
  /\ noProgress \in 0..MaxNoProgress /\ fresh \in BOOLEAN
  /\ lastTool \in [tool : Tools \cup {"none"}, times : 0..MaxIdentical]
  /\ calls \in Seq([tool : Tools, stage : Stages, out : Seq(Events)])
  /\ Len(calls) <= MaxToolCalls /\ batch \subseteq DOMAIN calls
  /\ control \in {"none", "pending", "completed"} /\ retried \in BOOLEAN
  /\ contributors \in [Sources -> SUBSET (1..MaxToolCalls)]
  /\ last \in Items \cup {NoItem}
  /\ queue \in Seq(Items) /\ Len(queue) <= Capacity
  /\ saved \in Seq(Events)
  /\ verdict \in {"none", "completed", "failed", "rejected", "stopped"}
  /\ requests \in Nat /\ hops \in Nat

(* prepare_run: the policy is asked once for what the model may see.       *)
Init ==
  /\ allowed \in SUBSET Tools /\ visible = BaseTools \cap allowed
  /\ pc = "model" /\ steps = 0 /\ attempted = 0 /\ noProgress = 0
  /\ fresh = FALSE /\ seen = {} /\ lastTool = [tool |-> "none", times |-> 0]
  /\ calls = <<>> /\ batch = {} /\ control = "none" /\ retried = FALSE
  /\ contributors = [s \in Sources |-> {}]
  /\ last = NoItem /\ queue = <<>> /\ saved = <<>> /\ verdict = "none"
  /\ requests = 0 /\ hops = 0

-----------------------------------------------------------------------------
At(label) == verdict = "none" /\ pc = label
Full == Len(queue) = Capacity
Put(item) == ~Full /\ queue' = Append(queue, item)

(* generated_source_ids *)
Generated == {s \in Sources : contributors[s] # {}}

Succeeded == {i \in DOMAIN calls : calls[i].stage \in {"emitting", "done"}}

(* public_events_emitted *)
Emitted == queue # <<>> \/ saved # <<>> \/ \E i \in DOMAIN calls : calls[i].stage # "reserved"

(* An exception leaves the graph and becomes the last item of the stream.  *)
Fail(code) == pc' = "delivering" /\ last' = Failure(code)

(* _record_progress *)
Progress(facts) == seen' = seen \cup facts /\ fresh' = (fresh \/ facts \ seen # {})

(* Mutant: the limit is checked before the step is counted. *)
StepsSpentLate == steps > MaxSteps

StepsSpent == steps + 1 > MaxSteps

(* before_model_call; label is where the provider is asked next.           *)
BeforeModelCall(label) ==
  /\ noProgress' = IF steps > 0 /\ ~fresh THEN noProgress + 1 ELSE 0
  /\ IF noProgress' >= MaxNoProgress
       THEN Fail("no_progress") /\ UNCHANGED <<steps, fresh, requests>>
       ELSE /\ steps' = steps + 1 /\ fresh' = FALSE
            /\ IF StepsSpent
                 THEN Fail("model_step_limit") /\ UNCHANGED requests
                 ELSE pc' = label /\ requests' = requests + 1 /\ UNCHANGED last

-----------------------------------------------------------------------------
(* The model node *)

(* apply_model_policy: without a visible Tool the call is the answer.      *)
AskModel ==
  /\ At("model")
  /\ BeforeModelCall(IF visible = {} THEN "answering" ELSE "deciding")
  /\ hops' = hops + 1
  /\ UNCHANGED <<world, attempted, seen, lastTool, calls, batch, control, retried, contributors, queue>>

(* _can_retry_initial_decision *)
CanRetry == ~retried /\ steps = 1 /\ attempted = 0 /\ ~Emitted /\ control = "none"

(* _invoke_initial_decision_with_retry *)
ConnectionError ==
  /\ At("deciding")
  /\ IF CanRetry
       THEN retried' = TRUE /\ BeforeModelCall("deciding")
       ELSE /\ Fail("agent_execution_failed")
            /\ UNCHANGED <<retried, steps, noProgress, fresh, requests>>
  /\ UNCHANGED <<world, attempted, seen, lastTool, calls, batch, control, contributors, queue, hops>>

(* The length of the run of identical calls that ends with ts[i]           *)
Identical(ts, i) ==
  LET run == {j \in 1..i : \A k \in j..i : ts[k] = ts[i]}
  IN  Cardinality(run) + IF 1 \in run /\ lastTool.tool = ts[i] THEN lastTool.times ELSE 0

OverBudget(n) == attempted + n > MaxToolCalls

(* reserve_tool_calls: the whole batch, or nothing.                        *)
Reserve(ts) ==
  LET wrong == {i \in DOMAIN ts : ts[i] \notin visible \/ Identical(ts, i) > MaxIdentical} IN
  /\ attempted' = attempted + Len(ts)
  /\ IF OverBudget(Len(ts)) \/ wrong # {}
       THEN /\ Fail(IF OverBudget(Len(ts)) THEN "tool_call_limit"
                    ELSE IF ts[Min(wrong)] \notin visible THEN "tool_not_allowed"
                    ELSE "repeated_tool_call")
            /\ UNCHANGED <<lastTool, calls, batch>>
       ELSE /\ calls' = calls \o [i \in DOMAIN ts |->
                                    [tool |-> ts[i], stage |-> "reserved", out |-> <<>>]]
            /\ batch' = DOMAIN calls' \ DOMAIN calls
            /\ lastTool' = IF ts = <<>> THEN lastTool
                           ELSE [tool |-> Last(ts), times |-> Identical(ts, Len(ts))]
            /\ pc' = "tools" /\ UNCHANGED last

(* A decision: Tool calls, the control, a text.  apply_model_policy        *)
(* rejects one that is empty, that puts a text or a Tool that is not       *)
(* terminal beside the control, or repeats the control.                    *)
Decide(ts, ctl, text) ==
  LET invalid == IF ctl THEN \/ text \/ control # "none"
                             \/ \E i \in DOMAIN ts : ts[i] \notin visible \cap Terminal
                        ELSE ts = <<>> /\ ~text
  IN
  /\ At("deciding")
  /\ IF invalid
       THEN /\ Fail("agent_execution_failed")
            /\ UNCHANGED <<attempted, seen, fresh, lastTool, calls, batch, control>>
       ELSE /\ IF ts = <<>> /\ ~ctl
                 THEN /\ pc' = "drafted" /\ batch' = {}
                      /\ UNCHANGED <<attempted, lastTool, calls, last>>
                 ELSE Reserve(ts)
            /\ control' = IF ctl /\ pc' = "tools" THEN "pending" ELSE control
            /\ Progress((IF text THEN {"text"} ELSE {}) \cup (IF ctl THEN {"finalize"} ELSE {}))
  /\ UNCHANGED <<world, steps, noProgress, retried, contributors, queue, requests, hops>>

(* A response outside the contract, or any other failure of the provider   *)
ModelFails ==
  /\ At("deciding") \/ At("answering")
  /\ Fail("agent_execution_failed")
  /\ UNCHANGED <<world, ledger, calls, batch, control, retried, contributors, queue, requests, hops>>

-----------------------------------------------------------------------------
(* The Tool node *)

Stage(i, s) == calls' = [calls EXCEPT ![i].stage = s]

(* Mutant: the decision of prepare_run still counts. *)
PermittedAtFirst(t) == t \in visible

(* _require_current_tool_permission *)
Permitted(t) == t \in allowed \cap visible

(* execute_tool_call up to its handler.  The Tool is entered at once,      *)
(* unless the call must wait for room in the queue.                        *)
BeginCall(i) ==
  /\ At("tools") /\ i \in batch /\ calls[i].stage = "reserved"
  /\ IF ~Permitted(calls[i].tool)
       THEN Fail("tool_not_allowed") /\ UNCHANGED <<calls, queue>>
       ELSE /\ IF Full
                 THEN /\ calls' = [calls EXCEPT ![i].stage = "starting", ![i].out = <<Started(i)>>]
                      /\ UNCHANGED queue
                 ELSE Stage(i, "running") /\ Put(Started(i))
            /\ UNCHANGED <<pc, last>>
  /\ UNCHANGED <<world, ledger, batch, control, retried, contributors, requests, hops>>

(* Mutant: every source of a call is announced. *)
AnnouncedAgain(i) == SourcesOf[calls[i].tool]

(* The sources of a call that no call has reported before, in its order    *)
Announced(i) ==
  LET all == SourcesOf[calls[i].tool]
      new == {m \in DOMAIN all : contributors[all[m]] = {}}
      Place(m) == Cardinality({n \in new : n <= m})
  IN  [k \in 1..Cardinality(new) |-> all[CHOOSE m \in new : Place(m) = k]]

(* finish_tool_call *)
FinishCall(i, fact) ==
  /\ At("tools") /\ i \in batch /\ calls[i].stage = "running"
  /\ LET new == Announced(i) IN
     /\ calls' = [calls EXCEPT ![i].stage = "emitting",
                    ![i].out = <<Finished(i)>> \o [k \in DOMAIN new |-> Added(new[k])]]
     /\ Progress({fact} \cup Range(new))
  /\ contributors' = [s \in Sources |->
                        IF s \in Range(SourcesOf[calls[i].tool])
                        THEN contributors[s] \cup {i} ELSE contributors[s]]
  /\ UNCHANGED <<world, pc, last, steps, attempted, noProgress, lastTool, batch, control, retried,
                 queue, requests, hops>>

(* The Tool raises, its output is rejected, or a source it reports         *)
(* conflicts with what another call said of it.                            *)
CallFails(i) ==
  /\ At("tools") /\ i \in batch /\ calls[i].stage = "running"
  /\ \/ Fail("agent_execution_failed")
     \/ /\ Range(SourcesOf[calls[i].tool]) \cap Generated # {}
        /\ Fail("source_validation_failed")
  /\ UNCHANGED <<world, ledger, calls, batch, control, retried, contributors, queue, requests, hops>>

(* emit: the next event of a call waits for room.  Behind the first event  *)
(* the Tool is entered, behind the last one the call is done.              *)
EmitEvent(i) ==
  /\ At("tools") /\ i \in batch /\ calls[i].out # <<>>
  /\ Put(Head(calls[i].out))
  /\ LET next == IF calls[i].stage = "starting" THEN "running" ELSE "done" IN
     calls' = [calls EXCEPT ![i].out = Tail(@),
                 ![i].stage = IF Len(calls[i].out) = 1 THEN next ELSE @]
  /\ UNCHANGED <<world, pc, last, ledger, batch, control, retried, contributors, requests, hops>>

(* apply_tool_policy for the control, which runs among the Tool calls      *)
RunControl ==
  /\ At("tools") /\ control = "pending"
  /\ control' = "completed"
  /\ UNCHANGED <<world, pc, last, ledger, calls, batch, retried, contributors, queue, requests, hops>>

(* External: the routing of the graph after the Tools                      *)
ToolsDone ==
  /\ At("tools") /\ control # "pending"
  /\ \A i \in batch : calls[i].stage = "done"
  /\ pc' = IF \A i \in batch : calls[i].tool \in Terminal THEN "exit" ELSE "model"
  /\ hops' = hops + 1
  /\ UNCHANGED <<world, last, ledger, calls, batch, control, retried, contributors, queue, requests>>

(* Mutant: a terminal batch is taken for a complete one. *)
AfterAgentWithoutControl ==
  /\ At("exit") \/ At("drafted")
  /\ BeforeModelCall("answering")
  /\ hops' = hops + 1
  /\ UNCHANGED <<world, attempted, seen, lastTool, calls, batch, control, retried, contributors, queue>>

(* finalize_after_agent: a terminal batch without the control goes back to *)
(* the model; a draft, or a completed control, is followed by the answer.  *)
AfterAgent ==
  /\ At("exit") \/ At("drafted")
  /\ CASE pc = "exit" /\ control = "none" ->
            pc' = "model" /\ UNCHANGED <<last, steps, noProgress, fresh, requests>>
       [] <<pc, control>> \in {<<"exit", "completed">>, <<"drafted", "none">>} ->
            BeforeModelCall("answering")
       [] OTHER ->
            /\ Fail("finalizer_exit_invalid")
            /\ UNCHANGED <<steps, noProgress, fresh, requests>>
  /\ hops' = hops + 1
  /\ UNCHANGED <<world, attempted, seen, lastTool, calls, batch, control, retried, contributors, queue>>

-----------------------------------------------------------------------------
(* The answer *)

Deltas == Len(SelectSeq(queue \o saved, LAMBDA e : e = Delta))

AnswerDelta ==
  /\ At("answering") /\ Deltas < MaxDeltas
  /\ Put(Delta)
  /\ UNCHANGED <<world, ledger, graph, requests>>

(* The stream closes and produce() delivers the result.                    *)
AnswerEnds ==
  /\ At("answering") /\ Deltas > 0
  /\ Progress({"answer"})
  /\ pc' = "delivering" /\ last' = Result(Generated)
  /\ UNCHANGED <<world, steps, attempted, noProgress, lastTool, calls, batch, control, retried,
                 contributors, queue, requests, hops>>

(* Mutant: an exception of the graph is not delivered. *)
DeliverResult ==
  /\ At("delivering") /\ pc' = "ended"
  /\ IF last.type = "result" THEN Put(last) ELSE UNCHANGED queue
  /\ UNCHANGED <<world, ledger, calls, batch, control, retried, contributors, last, requests, hops>>

Deliver ==
  /\ At("delivering")
  /\ Put(last) /\ pc' = "ended"
  /\ UNCHANGED <<world, ledger, calls, batch, control, retried, contributors, last, requests, hops>>

-----------------------------------------------------------------------------
(* The consumer: the loop of RunService._execute *)

SavedEvents == Range(saved)

(* validate_runtime_event *)
Valid(e) ==
  CASE e.type = "tool.started"  -> /\ e.call \in DOMAIN calls
                                   /\ calls[e.call].stage # "reserved"
                                   /\ e \notin SavedEvents
    [] e.type = "tool.finished" -> /\ e.call \in Succeeded
                                   /\ Started(e.call) \in SavedEvents
                                   /\ e \notin SavedEvents
    [] e.type = "source.added"  -> /\ \E i \in contributors[e.source] :
                                        Finished(i) \in SavedEvents
                                   /\ e \notin SavedEvents
    [] e.type = "message.delta" -> TRUE

(* validate_result; "rejected" is a citation that was never persisted.     *)
ResultVerdict(cited) ==
  IF \E s \in cited : Added(s) \notin SavedEvents THEN "rejected"
  ELSE IF \/ Succeeded = {} /\ cited # {}
          \/ SourcePolicy = "required" /\ cited = {}
          \/ SourcePolicy = "required_if_tool_used" /\ Succeeded # {} /\ cited = {}
       THEN "failed" ELSE "completed"

Consume ==
  /\ verdict = "none" /\ queue # <<>>
  /\ queue' = Tail(queue)
  /\ LET item == Head(queue) IN
     CASE item.type = "error"  -> verdict' = "failed" /\ UNCHANGED saved
       [] item.type = "result" -> verdict' = ResultVerdict(item.sources) /\ UNCHANGED saved
       [] OTHER -> IF Valid(item) THEN saved' = Append(saved, item) /\ UNCHANGED verdict
                                  ELSE verdict' = "rejected" /\ UNCHANGED saved
  /\ UNCHANGED <<allowed, visible, ledger, graph, requests>>

(* A cancellation or the deadline ends the Run from outside.               *)
Stop ==
  /\ verdict = "none" /\ verdict' = "stopped"
  /\ UNCHANGED <<allowed, visible, ledger, graph, queue, saved, requests>>

Withdraw(t) ==
  /\ verdict = "none" /\ pc # "ended" /\ t \in allowed
  /\ allowed' = allowed \ {t}
  /\ UNCHANGED <<visible, ledger, graph, queue, saved, verdict, requests>>

Batches == UNION {[1..n -> Tools] : n \in 0..MaxBatch}

Producer ==
  \/ AskModel \/ ConnectionError \/ ModelFails
  \/ \E ts \in Batches, ctl \in BOOLEAN, text \in BOOLEAN : Decide(ts, ctl, text)
  \/ \E i \in DOMAIN calls :
       BeginCall(i) \/ CallFails(i) \/ EmitEvent(i)
       \/ \E fact \in Facts : FinishCall(i, fact)
  \/ RunControl \/ ToolsDone \/ AfterAgent
  \/ AnswerDelta \/ AnswerEnds \/ Deliver

Next == Producer \/ Consume \/ Stop \/ \E t \in Tools : Withdraw(t)

Spec == Init /\ [][Next]_vars

(* The provider and the Tools answer or fail, and the consumer reads.      *)
FairSpec == Spec /\ WF_vars(Producer) /\ WF_vars(Consume)

-----------------------------------------------------------------------------
(* Properties *)

(* No more sources than one for each call and the spare places.            *)
FewSources == Cardinality(Generated) < MaxToolCalls + 6

(* agent_runtime.py:1228: the queue has room for the events of every Tool  *)
(* call while the Run has few sources: none waits for the consumer,        *)
(* whether it reads or not.                                                *)
ToolsNeverWait == pc = "tools" /\ FewSources => ~Full

(* agent-policy.md:107: however the provider decides, connection retry and *)
(* answer included, no request exceeds max_model_steps, no more Tools than *)
(* max_tool_calls are entered, and the graph always ends for one of these  *)
(* reasons before the recursion limit of the framework does; and the queue *)
(* that was sized by them keeps its promise.                               *)
BudgetsHold ==
  /\ requests <= MaxSteps
  /\ Cardinality({i \in DOMAIN calls : calls[i].stage # "reserved"}) <= MaxToolCalls
  /\ hops < RecursionLimit
  /\ ToolsNeverWait

(* execution_policy.py:574: whatever the interleaving of concurrent Tool   *)
(* calls that share sources, the consumer never rejects an event or a      *)
(* citation of a legal execution, and the graph never exits without a      *)
(* valid decision.                                                         *)
NoFalseRejection ==
  verdict # "rejected" /\ last # Failure("finalizer_exit_invalid")

(* agent-policy.md:85: there is one answer; it begins after every Tool     *)
(* call ended and every Tool event was emitted, after a draft or an        *)
(* explicit completion decision if a Tool was visible.                     *)
AnswerComesLast ==
  LET log == saved \o queue IN
  /\ \A k, n \in DOMAIN log :
       k < n /\ log[k] = Delta => log[n].type \in {"message.delta", "error", "result"}
  /\ pc = "answering" => /\ \A i \in DOMAIN calls : calls[i].stage = "done"
                         /\ control = "completed" \/ "text" \in seen \/ visible = {}

(* agent-policy.md:170: a completed Run cites every source that it saved,  *)
(* each after the saved end of a call that reported it, and no call of it  *)
(* is left without its two events.                                         *)
CompletedIsSupported ==
  verdict = "completed" =>
    /\ last = Result({s \in Sources : Added(s) \in SavedEvents})
    /\ \A i \in DOMAIN calls : {Started(i), Finished(i)} \subseteq SavedEvents
    /\ \A k \in DOMAIN saved : saved[k].type = "source.added" =>
         \E n \in 1..k - 1, i \in contributors[saved[k].source] : saved[n] = Finished(i)

(* The evidence of a Run: the Host accepts all that a legal execution      *)
(* reports, and a completed Run is supported by it.                        *)
EvidenceIsSound == NoFalseRejection /\ CompletedIsSupported

(* agent-policy.md:69: "a later policy denial cannot reach the Tool        *)
(* implementation": a Tool is entered only while the policy allows it.     *)
(* With more sources a call may wait for the queue after its last check.   *)
DeniedToolNotEntered ==
  [][FewSources => \A i \in DOMAIN calls :
       calls[i].stage # "running" /\ calls'[i].stage = "running" => calls[i].tool \in allowed]_vars

(* The budgets alone end every execution whose provider and Tools answer.  *)
EveryExecutionEnds == <>(verdict # "none")
=============================================================================
