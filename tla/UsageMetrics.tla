---------------------------- MODULE UsageMetrics ----------------------------
(***************************************************************************)
(* The UsageMetric of usage.py and how metrics are added up: over the      *)
(* provider attempts of one Run, and over the Runs of one account.         *)
(* Reports are sequences of token counts, Nil where none was reported.     *)
(***************************************************************************)
EXTENDS Naturals, Sequences, SequencesExt

CONSTANT Nil

Metric(availability) == [value |-> Nil, availability |-> availability]

Complete(n) == [value |-> n, availability |-> "complete"]

Total(reports) == FoldLeft(LAMBDA a, b : a + b, 0, reports)

Known(v) == v # Nil

(* Mutant: the known subtotal is shown as the total. *)
SubtotalMetric(reports) ==
  LET known == SelectSeq(reports, Known) IN
  IF known # <<>> \/ reports = <<>> THEN Complete(Total(known)) ELSE Metric("unavailable")

(* RunUsageLedger._token_metric, _attempt_token_metric *)
TokenMetric(reports) ==
  LET known == SelectSeq(reports, Known) IN
  IF known = reports THEN Complete(Total(known))
  ELSE Metric(IF known # <<>> THEN "partial" ELSE "unavailable")

(* aggregate_usage_metrics *)
Aggregate(metrics) ==
  LET states == {metrics[i].availability : i \in DOMAIN metrics} IN
  IF states \subseteq {"complete"}
    THEN Complete(Total([i \in DOMAIN metrics |-> metrics[i].value]))
  ELSE Metric(CASE "unknown" \in states -> "unknown"
                [] "pending" \in states /\ "unknown" \notin states -> "pending"
                [] states \cap {"unknown", "pending"} = {} ->
                     IF states \cap {"complete", "partial"} # {} THEN "partial"
                                                                 ELSE "unavailable")
=============================================================================
