---------------------------- MODULE AccountUsage ----------------------------
(***************************************************************************)
(* What GET /api/account/usage answers while Runs are created, call the    *)
(* provider, end and grow old.  The answer is computed from the Run rows   *)
(* alone (get_account_usage, _run_view, _usage_count_metric): a Run shows  *)
(* its frozen usage, "pending" while it is active, and "unknown" when it   *)
(* predates metering.                                                      *)
(***************************************************************************)
EXTENDS Naturals, Sequences, FiniteSets, FiniteSetsExt, UsageMetrics

CONSTANTS Accounts, Threads, Tokens,
          MaxRuns,     \* bound on the Runs, those older than metering included
          MaxAttempts  \* bound on the provider attempts of a Run

ASSUME AccountAssumption ==
  /\ Tokens \subseteq Nat /\ Nil \notin Tokens /\ Nil \notin Threads
  /\ MaxRuns \in Nat /\ MaxAttempts \in Nat

VARIABLES owner,  \* owner_subject of each Thread
          runs    \* the Runs in creation order, each with its attempts

vars == <<owner, runs>>

Ranges   == <<"7d", "30d", "all">>
Terminal == {"completed", "failed", "cancelled"}

Report == [tokens : Tokens \cup {Nil}, retry : BOOLEAN]

RunRecord ==
  [thread : Threads, actor : Accounts, status : Terminal \cup {"running"}, metered : BOOLEAN,
   age : 1..3,                \* the first of Ranges that includes created_at
   attempts : Seq(Report),
   usage_metrics : [calls : Nat, retries : Nat, tokens : [value : Nat \cup {Nil},
                    availability : {"complete", "partial", "unavailable"}]] \cup {Nil}]

TypeOK ==
  /\ owner \in [Threads -> Accounts]
  /\ runs \in Seq(RunRecord) /\ Len(runs) <= MaxRuns
  /\ \A i \in DOMAIN runs :
       (runs[i].usage_metrics # Nil) <=> (runs[i].metered /\ runs[i].status \in Terminal)

Run(t, a, s, metered, age) ==
  [thread |-> t, actor |-> a, status |-> s, metered |-> metered, age |-> age,
   attempts |-> <<>>, usage_metrics |-> Nil]

(* At most one Run predates metering; the start of the process ended it.   *)
Init ==
  /\ owner \in [Threads -> Accounts]
  /\ \/ runs = <<>>
     \/ \E t \in Threads, s \in Terminal : runs = <<Run(t, owner[t], s, FALSE, 2)>>

-----------------------------------------------------------------------------
(* Mutant: the Thread of a Run is not checked against its caller. *)
CreateAnywhere(a, t) ==
  /\ Len(runs) < MaxRuns
  /\ \A i \in DOMAIN runs : runs[i].thread = t => runs[i].status \in Terminal
  /\ runs' = Append(runs, Run(t, a, "running", TRUE, 1))
  /\ UNCHANGED owner

(* create_run: a metered Run of the caller on a Thread of the caller, one  *)
(* active Run per Thread                                                   *)
Create(a, t) ==
  /\ Len(runs) < MaxRuns
  /\ owner[t] = a
  /\ \A i \in DOMAIN runs : runs[i].thread = t => runs[i].status \in Terminal
  /\ runs' = Append(runs, Run(t, a, "running", TRUE, 1))
  /\ UNCHANGED owner

(* A provider attempt of an active Run, closed with what it reported       *)
Attempt(i, r) ==
  /\ runs[i].status = "running" /\ Len(runs[i].attempts) < MaxAttempts
  /\ r.retry => runs[i].attempts # <<>>
  /\ runs' = [runs EXCEPT ![i].attempts = Append(@, r)]
  /\ UNCHANGED owner

Retries(attempts) == Cardinality({k \in DOMAIN attempts : attempts[k].retry})
Reports(attempts) == [k \in DOMAIN attempts |-> attempts[k].tokens]

(* A terminal transaction freezes the usage: _terminal_run_usage           *)
EndRun(i, s) ==
  /\ runs[i].status = "running"
  /\ runs' = [runs EXCEPT ![i].status = s,
                ![i].usage_metrics = [calls   |-> Len(runs[i].attempts),
                                      retries |-> Retries(runs[i].attempts),
                                      tokens  |-> TokenMetric(Reports(runs[i].attempts))]]
  /\ UNCHANGED owner

(* Time passes: the oldest Runs leave a range first.                       *)
Age(k) ==
  /\ k \in DOMAIN runs /\ runs[k].age < 3
  /\ runs' = [i \in DOMAIN runs |->
                IF i <= k /\ runs[i].age <= runs[k].age
                THEN [runs[i] EXCEPT !.age = runs[k].age + 1] ELSE runs[i]]
  /\ UNCHANGED owner

Next ==
  \/ \E a \in Accounts, t \in Threads : Create(a, t)
  \/ \E i \in DOMAIN runs :
       \/ \E r \in Report : Attempt(i, r)
       \/ \E s \in Terminal : EndRun(i, s)
       \/ Age(i)

Spec == Init /\ [][Next]_vars

-----------------------------------------------------------------------------
(* get_account_usage *)

(* _run_view with unavailable_run_usage *)
State(r) ==
  IF ~r.metered THEN "unknown" ELSE IF r.usage_metrics = Nil THEN "pending" ELSE "final"

TokensOf(r) ==
  IF State(r) = "final" THEN r.usage_metrics.tokens ELSE Metric(State(r))

(* _usage_count_metric *)
CountOf(r, field) ==
  IF State(r) = "final" THEN Complete(r.usage_metrics[field]) ELSE Metric(State(r))

(* The conditions of the query; t is Nil for the Runs of every Thread.     *)
InScope(r, a, range, t) ==
  /\ owner[r.thread] = a /\ r.actor = a
  /\ r.age <= range
  /\ t \in {Nil, r.thread}

Selected(a, range, t) == SelectSeq(runs, LAMBDA r : InScope(r, a, range, t))

NotFound == [kind |-> "usage_scope"]

Answer(a, range, t) ==
  LET records == Selected(a, range, t) IN
  IF t # Nil /\ owner[t] # a THEN NotFound
  ELSE [kind |-> "usage", total |-> Len(records),
        ended |-> [s \in Terminal |-> Len(SelectSeq(records, LAMBDA r : r.status = s))],
        calls |-> Aggregate([i \in DOMAIN records |-> CountOf(records[i], "calls")]),
        retries |-> Aggregate([i \in DOMAIN records |-> CountOf(records[i], "retries")]),
        tokens |-> Aggregate([i \in DOMAIN records |-> TokensOf(records[i])])]

-----------------------------------------------------------------------------
(* Properties *)

Scopes(a) == {Nil} \cup {t \in Threads : owner[t] = a}

(* The indices of the Runs in scope, and their attempts, pooled            *)
Included(a, range, t) ==
  {i \in DOMAIN runs : InScope(runs[i], a, range, t)}
Pool(S) == UNION {{<<i, k>> : k \in DOMAIN runs[i].attempts} : i \in S}
Reported(p) == runs[p[1]].attempts[p[2]].tokens

(* account-and-usage.md:57: a total is shown exactly when every included   *)
(* Run ended under metering and every one of their attempts reported the   *)
(* field; it is the sum over the attempts themselves.  The counts are      *)
(* shown exactly when every included Run ended under metering.             *)
TotalsAreExact ==
  \A a \in Accounts, range \in 1..3 : \A t \in Scopes(a) :
    LET S     == Included(a, range, t)
        ended == \A i \in S : runs[i].metered /\ runs[i].status \in Terminal
        got   == Answer(a, range, t)
    IN  /\ got.tokens =
             IF ended /\ \A p \in Pool(S) : Reported(p) # Nil
             THEN Complete(MapThenSumSet(Reported, Pool(S)))
             ELSE Metric(got.tokens.availability)
        /\ got.tokens.availability = "complete" => ended
        /\ got.calls = IF ended THEN Complete(Cardinality(Pool(S)))
                                ELSE Metric(got.calls.availability)

Sum(Op(_), S) == MapThenSumSet(Op, S)

(* The answers that account a gets for one field, Thread by Thread, add up *)
(* to its answer for all of them.                                          *)
ThreadsAddUp(a, range, own, field) ==
  LET whole   == Answer(a, range, Nil)[field]
      part(t) == Answer(a, range, t)[field]
      exact   == \A t \in own : part(t).availability = "complete"
  IN  /\ whole.availability = "complete" <=> exact
      /\ exact => whole.value = Sum(LAMBDA t : part(t).value, own)

RunsOf(t, range) == {i \in DOMAIN runs : runs[i].thread = t /\ runs[i].age <= range}

(* repository.py:414-431, identity-and-ownership.md: although a Run has    *)
(* two owner columns and a Thread is asked for by name, the accounts share *)
(* out the Runs of a period, each counted once; the answer for a Thread,   *)
(* if the caller gets one, covers every Run of it, and the answers for its *)
(* Threads add up to the account's own: Runs, calls, retries and tokens.   *)
(* So a Thread of another account, which has Runs that the caller must not *)
(* see, can only be answered like one that does not exist.                 *)
AnswersAddUp ==
  \A range \in 1..3 :
    /\ Sum(LAMBDA a : Answer(a, range, Nil).total, Accounts)
         = Cardinality(UNION {RunsOf(t, range) : t \in Threads})
    /\ \A a \in Accounts :
         LET own == {t \in Threads : Answer(a, range, t) # NotFound} IN
         /\ \A t \in own : Answer(a, range, t).total = Cardinality(RunsOf(t, range))
         /\ Answer(a, range, Nil).total = Sum(LAMBDA t : Answer(a, range, t).total, own)
         /\ \A field \in {"calls", "retries", "tokens"} : ThreadsAddUp(a, range, own, field)

(* account-and-usage.md:59: "partial: at least one included attempt        *)
(* reported the field and at least one did not".  Not kept by the code:    *)
(* see the README.                                                         *)
PartialMeansSomeReported ==
  \A a \in Accounts, range \in 1..3 : \A t \in Scopes(a) :
    LET pool == Pool(Included(a, range, t)) IN
    Answer(a, range, t).tokens.availability = "partial" =>
      /\ \E p \in pool : Reported(p) # Nil
      /\ \E p \in pool : Reported(p) = Nil
=============================================================================
