------------------------- MODULE UsageLedgerProofs --------------------------
(***************************************************************************)
(* Proofs about the provider usage of one Run, for any number of provider  *)
(* attempts and of concurrent cancel requests, and for every fault.        *)
(***************************************************************************)
EXTENDS UsageLedger, TLAPS

-----------------------------------------------------------------------------
(* The inductive invariant *)

(* The types that the other clauses rest on. *)
LedgerTypes ==
  /\ status \in {"running", "completed", "failed", "cancelled"}
  /\ rows \in Seq(Row) /\ Len(rows) <= MaxCalls
  /\ ledger \in Seq(Entry) /\ Len(ledger) <= Len(rows)
  /\ lock \in Cancellers \cup {"producer", Nil}
  /\ prod \in {"thinking", "starting", "retrying", "calling", "locking", "finishing",
               "answered", "ended"}
  /\ stop \in {"no", "requested", "delivered"}
  /\ creq \in [Cancellers -> CancelRecord]

Closed(i) == ledger[i].status # "started"

(* A row without an entry is the last one and ends the producer; only the  *)
(* last entry can be open, and where the producer is says how far it is.   *)
LedgerShape ==
  /\ Len(rows) # Len(ledger) => Len(rows) = Len(ledger) + 1 /\ prod = "ended"
  /\ \A i \in DOMAIN ledger :
       /\ i # last => Closed(i)
       /\ prod \in {"thinking", "starting", "retrying", "answered"} => Closed(i)
       /\ ledger[i].persisted => ledger[i].usage # Nil
  /\ prod \in {"starting", "retrying"} => last < MaxCalls
  /\ prod \in {"calling", "locking", "finishing"} => last > 0
  /\ prod = "calling" => ledger[last].status = "started" /\ ledger[last].pending = Nil
  /\ prod = "finishing" => ledger[last].status = "started"
  /\ prod \in {"locking", "finishing"} /\ ledger[last].status = "started"
       => ledger[last].pending # Nil

(* While the Run is running, a row says of its attempt what the entry      *)
(* says, or what the entry is about to say: a write that was committed and *)
(* not confirmed is the write that will be repeated.                       *)
Agrees(i) ==
  LET e == ledger[i]
      a == rows[i] IN
  IF e.status # "started" THEN a.status = e.status /\ a.usage = e.usage
  ELSE /\ a.usage \in {Nil, e.usage}
       /\ e.persisted => a.usage = e.usage
       /\ a.status # "started" => e.pending # Nil /\ a.status = e.pending /\ a.usage = e.usage

RowsAgree == status = "running" => \A i \in DOMAIN ledger : Agrees(i)

(* A settlement that writes holds the lock and is at the open entry, whose *)
(* producer therefore cannot begin another attempt.                        *)
Writing(c) ==
  creq[c].pc = "writing" =>
    /\ lock = c
    /\ last > 0 /\ creq[c].i = last /\ creq[c].size = last
    /\ ledger[last].status = "started"
    /\ prod \in {"calling", "locking", "ended"}
    /\ creq[c].write \in {"finish", "usage"}
    /\ creq[c].write = "finish" => ledger[last].pending # Nil
    /\ creq[c].write = "usage" => ledger[last].usage # Nil

Locking == (prod = "finishing" => lock = "producer") /\ \A c \in Cancellers : Writing(c)

Freezing ==
  IF status = "running" THEN frozen = Nil
  ELSE /\ frozen = TerminalUsage(rows)
       /\ \A i \in DOMAIN rows : rows[i].status # "started"

(* An observed usage stays; one seen by a request that has found the       *)
(* execution is in the rows from the moment that this request has settled  *)
(* the ledger of a running Run.                                            *)
SeenKept(c) ==
  /\ creq[c].seen \subseteq observed
  /\ creq[c].pc = "ended" => status # "running"
  /\ creq[c].known /\ (creq[c].pc = "ended" \/ (creq[c].pc = "flushed" /\ status = "running")) =>
       \A i \in creq[c].seen : rows[i].usage = ledger[i].usage

Seeing ==
  /\ \A i \in observed : i \in DOMAIN ledger /\ ledger[i].usage # Nil
  /\ \A c \in Cancellers : SeenKept(c)

LedgerInvariant ==
  /\ LedgerTypes /\ LedgerShape /\ RowsAgree /\ Locking /\ Freezing /\ Seeing
  /\ errors = {}

-----------------------------------------------------------------------------
(* Rows and entries *)

(* What an update of one row leaves alone. *)
LEMMA RowUpdate ==
  ASSUME NEW attempts \in Seq(Row), NEW i \in DOMAIN attempts, NEW row \in Row,
         NEW after, after = [attempts EXCEPT ![i] = row]
  PROVE  /\ after \in Seq(Row) /\ Len(after) = Len(attempts) /\ DOMAIN after = DOMAIN attempts
         /\ after[i] = row
         /\ \A j \in DOMAIN attempts : j # i => after[j] = attempts[j]
OBVIOUS

(* What an update of one entry leaves alone. *)
LEMMA EntryUpdate ==
  ASSUME NEW entries \in Seq(Entry), NEW i \in DOMAIN entries, NEW entry \in Entry,
         NEW after, after = [entries EXCEPT ![i] = entry]
  PROVE  /\ after \in Seq(Entry) /\ Len(after) = Len(entries) /\ DOMAIN after = DOMAIN entries
         /\ after[i] = entry
         /\ \A j \in DOMAIN entries : j # i => after[j] = entries[j]
OBVIOUS

(* A finish that leaves the row of the open attempt as the entry says it   *)
(* will be, or the Run ended and the row as it was.                        *)
RowWritten ==
  /\ UNCHANGED <<status, frozen, errors>>
  /\ rows' \in Seq(Row) /\ Len(rows') = Len(rows)
  /\ \A j \in DOMAIN rows : j # last => rows'[j] = rows[j]
  /\ status # "running" => rows' = rows
  /\ status = "running" =>
       /\ rows'[last].usage = ledger[last].usage
       /\ \/ rows'[last].status = rows[last].status
          \/ ledger[last].pending # Nil /\ rows'[last].status = ledger[last].pending

(* finish_model_attempt on the open attempt never meets a conflict.        *)
LEMMA FinishRowFacts ==
  ASSUME LedgerInvariant, last > 0, ledger[last].status = "started", ledger[last].pending # Nil,
         FinishRow(last, ledger[last].pending, ledger[last].usage)
  PROVE  RowWritten /\ (status = "running" => rows'[last].status = ledger[last].pending)
<1> DEFINE e == ledger[last]
<1>1. last \in DOMAIN ledger /\ last \in DOMAIN rows /\ rows \in Seq(Row) /\ rows[last] \in Row
  <2>1. last \in Nat /\ last <= Len(rows) /\ rows \in Seq(Row) /\ Len(rows) \in Nat
    BY DEF LedgerInvariant, LedgerTypes, last
  <2> QED BY <2>1 DEF LedgerInvariant, LedgerTypes, last
<1>2. e \in Entry BY <1>1 DEF LedgerInvariant, LedgerTypes
<1>3. e.pending \in Finished /\ e.usage \in Report BY <1>2 DEF Entry
<1>4. status = "running" => Agrees(last) BY <1>1 DEF LedgerInvariant, RowsAgree
<1>5. CASE UNCHANGED <<rows, errors>> /\ (status # "running" \/
                                         (rows[last].status = e.pending /\ rows[last].usage = e.usage))
  BY <1>1, <1>5 DEF FinishRow, RowWritten
<1>6. CASE /\ status = "running" /\ rows[last].status = "started"
           /\ rows' = [rows EXCEPT ![last].status = e.pending, ![last].usage = e.usage]
           /\ UNCHANGED errors
  <2> DEFINE row == [rows[last] EXCEPT !.status = e.pending, !.usage = e.usage]
  <2>2. row \in Row /\ row.status = e.pending /\ row.usage = e.usage
    BY <1>1, <1>3 DEF Row
  <2>3. rows' = [rows EXCEPT ![last] = row]
    <3> DEFINE both == [rows EXCEPT ![last].status = e.pending, ![last].usage = e.usage]
    <3>1. both = [rows EXCEPT ![last] = row] BY <1>1
    <3> QED BY <3>1, <1>6
  <2>4. /\ rows' \in Seq(Row) /\ Len(rows') = Len(rows) /\ rows'[last] = row
        /\ \A j \in DOMAIN rows : j # last => rows'[j] = rows[j]
    <3> HIDE DEF row
    <3> QED BY <1>1, <2>2, <2>3, RowUpdate
  <2> HIDE DEF row
  <2> QED BY <1>6, <2>2, <2>4 DEF FinishRow, RowWritten
<1>7. CASE /\ status = "running" /\ rows[last].status # "started"
           /\ rows[last].status # e.pending \/ rows[last].usage # e.usage
  BY <1>4, <1>7 DEF Agrees
<1> QED BY <1>5, <1>6, <1>7 DEF FinishRow

(* record_model_attempt_usage on the open attempt never meets a conflict.  *)
LEMMA UsageRowFacts ==
  ASSUME LedgerInvariant, last > 0, ledger[last].status = "started", ledger[last].usage # Nil,
         UsageRow(last, ledger[last].usage)
  PROVE  RowWritten
<1> DEFINE e == ledger[last]
<1>1. last \in DOMAIN ledger /\ last \in DOMAIN rows /\ rows \in Seq(Row) /\ rows[last] \in Row
  <2>1. last \in Nat /\ last <= Len(rows) /\ rows \in Seq(Row) /\ Len(rows) \in Nat
    BY DEF LedgerInvariant, LedgerTypes, last
  <2> QED BY <2>1 DEF LedgerInvariant, LedgerTypes, last
<1>2. e \in Entry BY <1>1 DEF LedgerInvariant, LedgerTypes
<1>3. e.usage \in Report BY <1>2 DEF Entry
<1>4. status = "running" => Agrees(last) BY <1>1 DEF LedgerInvariant, RowsAgree
<1>5. CASE UNCHANGED <<rows, errors>> /\ (status # "running" \/ rows[last].usage = e.usage)
  BY <1>1, <1>5 DEF UsageRow, RowWritten
<1>6. CASE /\ status = "running" /\ rows[last].usage = Nil /\ rows[last].status = "started"
           /\ rows' = [rows EXCEPT ![last].usage = e.usage]
           /\ UNCHANGED errors
  <2> DEFINE row == [rows[last] EXCEPT !.usage = e.usage]
  <2>2. row \in Row /\ row.status = rows[last].status /\ row.usage = e.usage
    BY <1>1, <1>3 DEF Row
  <2>3. rows' = [rows EXCEPT ![last] = row] BY <1>1, <1>6
  <2>4. /\ rows' \in Seq(Row) /\ Len(rows') = Len(rows) /\ rows'[last] = row
        /\ \A j \in DOMAIN rows : j # last => rows'[j] = rows[j]
    <3> HIDE DEF row
    <3> QED BY <1>1, <2>2, <2>3, RowUpdate
  <2> HIDE DEF row
  <2> QED BY <1>6, <2>2, <2>4 DEF UsageRow, RowWritten
<1>7. CASE /\ status = "running" /\ rows[last].usage # e.usage
           /\ rows[last].usage # Nil \/ rows[last].status # "started"
  BY <1>4, <1>7 DEF Agrees
<1> QED BY <1>5, <1>6, <1>7 DEF UsageRow

(* A settlement that writes the open attempt. *)
LEMMA SettleRowFacts ==
  ASSUME LedgerInvariant, NEW c \in Cancellers, creq[c].pc = "writing", SettleRow(c)
  PROVE  /\ RowWritten
         /\ creq[c].write = "finish" /\ status = "running" => rows'[last].status = ledger[last].pending
<1>1. Writing(c) BY DEF LedgerInvariant, Locking
<1>2. CASE creq[c].write = "finish" BY <1>1, <1>2, FinishRowFacts DEF SettleRow, Writing
<1>3. CASE creq[c].write # "finish" BY <1>1, <1>3, UsageRowFacts DEF SettleRow, Writing
<1> QED BY <1>2, <1>3

(* Indices and fields. *)
LEMMA Basics ==
  ASSUME LedgerInvariant
  PROVE  /\ last \in Nat /\ Len(rows) \in Nat /\ last <= Len(rows)
         /\ Len(rows) <= MaxCalls /\ MaxCalls \in Nat
         /\ DOMAIN ledger = 1..last /\ DOMAIN rows = 1..Len(rows)
         /\ last > 0 => last \in DOMAIN ledger /\ ledger[last] \in Entry
         /\ \A i \in DOMAIN ledger : i \in DOMAIN rows /\ ledger[i] \in Entry
<1>1. /\ ledger \in Seq(Entry) /\ rows \in Seq(Row) /\ last = Len(ledger)
      /\ Len(ledger) <= Len(rows) /\ Len(rows) <= MaxCalls
  BY DEF LedgerInvariant, LedgerTypes, last
<1>2. last \in Nat /\ Len(rows) \in Nat /\ DOMAIN ledger = 1..last /\ DOMAIN rows = 1..Len(rows)
  BY <1>1
<1>3. \A i \in DOMAIN ledger : ledger[i] \in Entry BY <1>1
<1> QED BY <1>1, <1>2, <1>3, LedgerAssumption

(* The end of _persist_pending_finish *)
LEMMA SettledFacts ==
  ASSUME LedgerInvariant, last > 0, ledger[last].pending # Nil
  PROVE  /\ Settled(last) \in Seq(Entry) /\ Len(Settled(last)) = Len(ledger)
         /\ DOMAIN Settled(last) = DOMAIN ledger
         /\ \A j \in DOMAIN ledger : j # last => Settled(last)[j] = ledger[j]
         /\ Settled(last)[last].status = ledger[last].pending /\ ledger[last].pending # "started"
         /\ Settled(last)[last].usage = ledger[last].usage
         /\ Settled(last)[last].persisted => ledger[last].usage # Nil
<1> DEFINE e == ledger[last]
           done == [status |-> e.pending, usage |-> e.usage, persisted |-> e.usage # Nil,
                    pending |-> Nil]
<1>1. e \in Entry /\ last \in DOMAIN ledger /\ ledger \in Seq(Entry)
  BY Basics DEF LedgerInvariant, LedgerTypes
<1>2. e.pending \in Finished /\ e.usage \in Report BY <1>1 DEF Entry
<1>3. done \in Entry BY <1>2 DEF Entry
<1>4. Settled(last) = [ledger EXCEPT ![last] = done] BY DEF Settled
<1>5. done.status = e.pending /\ done.usage = e.usage /\ (done.persisted => e.usage # Nil)
  OBVIOUS
<1>6. e.pending # "started" BY <1>2 DEF Finished
<1> HIDE DEF done
<1> QED BY <1>1, <1>3, <1>4, <1>5, <1>6, EntryUpdate

-----------------------------------------------------------------------------
(* What keeps each clause *)

(* An observed usage neither changes nor leaves the rows. *)
UsageKept ==
  \A i \in DOMAIN ledger :
    /\ i \in DOMAIN ledger'
    /\ ledger[i].usage # Nil =>
         /\ ledger'[i].usage = ledger[i].usage
         /\ rows[i].usage = ledger[i].usage => rows'[i].usage = ledger[i].usage

(* A step that keeps usage keeps what a request has seen. *)
LEMMA SeenKeeps ==
  ASSUME LedgerInvariant, UsageKept, observed \subseteq observed',
         status' = "running" => status = "running",
         NEW c \in Cancellers, creq'[c].pc = creq[c].pc, creq'[c].seen = creq[c].seen,
         creq'[c].known = creq[c].known
  PROVE  SeenKept(c)'
<1>1. SeenKept(c) /\ \A i \in observed : i \in DOMAIN ledger /\ ledger[i].usage # Nil
  BY DEF LedgerInvariant, Seeing
<1>2. \A i \in creq[c].seen : rows[i].usage = ledger[i].usage => rows'[i].usage = ledger'[i].usage
  <2> SUFFICES ASSUME NEW i \in creq[c].seen, rows[i].usage = ledger[i].usage
               PROVE  rows'[i].usage = ledger'[i].usage
    OBVIOUS
  <2>1. i \in DOMAIN ledger /\ ledger[i].usage # Nil BY <1>1 DEF SeenKept
  <2> QED BY <2>1 DEF UsageKept
<1> QED BY <1>1, <1>2 DEF SeenKept

(* Steps that do not touch the requests, and observe nothing new. *)
LEMMA SeeingKeeps ==
  ASSUME LedgerInvariant, UsageKept, UNCHANGED <<observed, creq>>,
         status' = "running" => status = "running"
  PROVE  Seeing'
<1>1. \A i \in observed' : i \in DOMAIN ledger' /\ ledger'[i].usage # Nil
  BY DEF LedgerInvariant, Seeing, UsageKept
<1>2. \A c \in Cancellers : SeenKept(c)'
  <2> TAKE c \in Cancellers
  <2> QED BY SeenKeeps
<1> QED BY <1>1, <1>2 DEF Seeing

(* The usage of an ended Run changes with its rows only. *)
LEMMA FreezingKeeps ==
  ASSUME LedgerInvariant, UNCHANGED <<status, frozen>>, status # "running" => rows' = rows
  PROVE  Freezing'
<1>1. CASE status = "running" BY <1>1 DEF LedgerInvariant, Freezing
<1>2. CASE status # "running"
  <2>1. rows' = rows /\ frozen' = frozen /\ status' # "running" BY <1>2
  <2>2. frozen = TerminalUsage(rows) /\ \A i \in DOMAIN rows : rows[i].status # "started"
    BY <1>2 DEF LedgerInvariant, Freezing
  <2> QED BY <2>1, <2>2 DEF Freezing
<1> QED BY <1>1, <1>2

(* A settlement that writes goes on, as long as the entry stays open and   *)
(* the producer waits.                                                     *)
LEMMA WritingKeeps ==
  ASSUME LedgerInvariant, NEW c \in Cancellers, creq'[c] = creq[c], lock' = lock,
         Len(ledger') = Len(ledger),
         creq[c].pc = "writing" =>
           /\ ledger'[last].status = ledger[last].status
           /\ ledger[last].pending # Nil => ledger'[last].pending # Nil
           /\ ledger[last].usage # Nil => ledger'[last].usage # Nil
           /\ prod' \in {"calling", "locking", "ended"}
  PROVE  Writing(c)'
<1>1. Writing(c) BY DEF LedgerInvariant, Locking
<1> QED BY <1>1 DEF Writing, last

(* A row that was written and not confirmed agrees with its open entry.    *)
LEMMA AgreeWritten ==
  ASSUME LedgerInvariant, last > 0, ledger[last].status = "started", RowWritten, ledger' = ledger
  PROVE  RowsAgree' /\ UsageKept /\ Freezing'
<1>1. RowsAgree'
  <2> SUFFICES ASSUME status = "running", NEW i \in DOMAIN ledger PROVE Agrees(i)'
    BY DEF RowsAgree, RowWritten
  <2>1. Agrees(i) /\ i \in DOMAIN rows BY Basics DEF LedgerInvariant, RowsAgree
  <2>2. CASE i # last BY <2>1, <2>2 DEF Agrees, RowWritten
  <2>3. CASE i = last BY <2>1, <2>3 DEF Agrees, RowWritten
  <2> QED BY <2>2, <2>3
<1>2. UsageKept BY Basics DEF UsageKept, RowWritten
<1>3. Freezing' BY FreezingKeeps DEF RowWritten
<1> QED BY <1>1, <1>2, <1>3

(* A row that was written and confirmed agrees with its closed entry. *)
LEMMA AgreeSettled ==
  ASSUME LedgerInvariant, last > 0, ledger[last].status = "started", ledger[last].pending # Nil,
         RowWritten, status = "running" => rows'[last].status = ledger[last].pending,
         ledger' = Settled(last)
  PROVE  RowsAgree' /\ UsageKept /\ Freezing'
<1>1. RowsAgree'
  <2> SUFFICES ASSUME status = "running", NEW i \in DOMAIN ledger PROVE Agrees(i)'
    BY SettledFacts DEF RowsAgree, RowWritten
  <2>1. Agrees(i) /\ i \in DOMAIN rows BY Basics DEF LedgerInvariant, RowsAgree
  <2>2. CASE i # last BY <2>1, <2>2, SettledFacts DEF Agrees, RowWritten
  <2>3. CASE i = last BY <2>1, <2>3, SettledFacts DEF Agrees, RowWritten
  <2> QED BY <2>2, <2>3
<1>2. UsageKept BY Basics, SettledFacts DEF UsageKept, RowWritten
<1>3. Freezing' BY FreezingKeeps DEF RowWritten
<1> QED BY <1>1, <1>2, <1>3

(* A step that touches neither the rows nor the entries. *)
LEMMA AgreeQuiet ==
  ASSUME LedgerInvariant, UNCHANGED <<tables, ledger>>
  PROVE  RowsAgree' /\ UsageKept /\ Freezing'
<1>1. UNCHANGED <<status, rows, frozen, ledger>> BY DEF tables
<1>2. RowsAgree' BY <1>1 DEF LedgerInvariant, RowsAgree, Agrees
<1>3. UsageKept BY <1>1 DEF UsageKept
<1>4. Freezing' BY <1>1, FreezingKeeps
<1> QED BY <1>2, <1>3, <1>4

-----------------------------------------------------------------------------
(* The producer *)

(* begin_attempt, the end of the producer, the closing of its stream and   *)
(* the end of the worker move no data.                                     *)
LEMMA BeginKeeps ==
  ASSUME LedgerInvariant,
         (\E kind \in {"starting", "retrying"} : Begin(kind)) \/ ProducerEnds \/ StopProducer
           \/ Shutdown \/ WorkerExits
  PROVE  LedgerInvariant'
<1>1. UNCHANGED <<tables, ledger, lock, creq, observed, errors>>
  BY DEF Begin, ProducerEnds, StopProducer, Shutdown, WorkerExits
<1>2. RowsAgree' /\ UsageKept /\ Freezing' BY <1>1, AgreeQuiet
<1>3. Seeing' BY <1>1, <1>2, SeeingKeeps DEF tables
<1>4. LedgerTypes'
  BY <1>1 DEF LedgerInvariant, LedgerTypes, tables, Begin, ProducerEnds, StopProducer, Shutdown, WorkerExits
<1>5. LedgerShape'
  <2>1. \A i \in DOMAIN ledger : i # last => Closed(i) BY DEF LedgerInvariant, LedgerShape
  <2> QED BY <1>1 DEF LedgerInvariant, LedgerShape, Closed, tables, last, Begin, ProducerEnds,
                      StopProducer, Shutdown, WorkerExits
<1>6. Locking'
  <2>1. prod' = "finishing" => prod = "finishing" BY DEF Begin, ProducerEnds, StopProducer, Shutdown, WorkerExits
  <2>2. \A c \in Cancellers : Writing(c)'
    <3> TAKE c \in Cancellers
    <3>1. Writing(c) BY DEF LedgerInvariant, Locking
    <3>2. creq[c].pc = "writing" => prod' = prod
      BY <3>1 DEF Writing, Begin, ProducerEnds, StopProducer, Shutdown, WorkerExits
    <3> QED BY <1>1, <3>1, <3>2, WritingKeeps DEF Writing
  <2> QED BY <1>1, <2>1, <2>2 DEF LedgerInvariant, Locking
<1> QED BY <1>1, <1>2, <1>3, <1>4, <1>5, <1>6 DEF LedgerInvariant

(* What start_model_attempt and begin_attempt append. *)
FreshRow(retry) == [retry |-> retry, status |-> "started", usage |-> Nil]

FreshEntry == [status |-> "started", usage |-> Nil, persisted |-> FALSE, pending |-> Nil]

(* start_model_attempt: a row for an attempt that no entry has yet. *)
LEMMA StartRowFacts ==
  ASSUME LedgerInvariant, prod \in {"starting", "retrying"}, NEW retry \in BOOLEAN, StartRow(retry)
  PROVE  /\ status = "running" /\ UNCHANGED <<status, frozen>> /\ Len(rows) = last
         /\ rows' \in Seq(Row) /\ Len(rows') = last + 1 /\ Len(rows') <= MaxCalls
         /\ \A i \in DOMAIN rows : rows'[i] = rows[i]
         /\ rows'[last + 1] = FreshRow(retry)
<1>1. Len(rows) = last /\ last < MaxCalls /\ last \in Nat /\ MaxCalls \in Nat
  BY Basics DEF LedgerInvariant, LedgerShape, last
<1>2. FreshRow(retry) \in Row BY DEF FreshRow, Row, Report
<1>3. rows \in Seq(Row) /\ rows' = Append(rows, FreshRow(retry))
      /\ status = "running" /\ UNCHANGED <<status, frozen>>
  BY DEF StartRow, FreshRow, LedgerInvariant, LedgerTypes
<1> QED BY <1>1, <1>2, <1>3

(* begin_attempt: the row is written first, then the entry is made. *)
LEMMA StartedKeeps ==
  ASSUME LedgerInvariant, Started
  PROVE  LedgerInvariant'
<1>1. prod \in {"starting", "retrying"} /\ UNCHANGED <<lock, creq, observed, errors>>
  BY DEF Started
<1>2. /\ \A i \in DOMAIN ledger : Closed(i)
      /\ \A c \in Cancellers : creq[c].pc # "writing"
  BY <1>1 DEF LedgerInvariant, LedgerShape, Locking, Writing
<1>3. Locking'
  <2>1. prod' # "finishing" BY <1>1 DEF Started
  <2> QED BY <1>1, <1>2, <2>1 DEF Locking, Writing
<1>4. CASE UNCHANGED <<tables, ledger>> /\ prod' = "ended" /\ UNCHANGED stop
  <2>1. RowsAgree' /\ UsageKept /\ Freezing' BY <1>4, AgreeQuiet
  <2>2. Seeing' BY <1>1, <1>4, <2>1, SeeingKeeps DEF tables
  <2>3. LedgerTypes' BY <1>1, <1>4 DEF LedgerInvariant, LedgerTypes, tables
  <2>4. LedgerShape' BY <1>2, <1>4 DEF LedgerInvariant, LedgerShape, Closed, tables, last
  <2> QED BY <1>1, <1>3, <2>1, <2>2, <2>3, <2>4 DEF LedgerInvariant
<1>5. CASE StartRow(prod = "retrying")
  <2>0. PICK retry \in BOOLEAN : retry = (prod = "retrying") OBVIOUS
  <2>1. /\ status = "running" /\ UNCHANGED <<status, frozen>> /\ Len(rows) = last
        /\ rows' \in Seq(Row) /\ Len(rows') = last + 1 /\ Len(rows') <= MaxCalls
        /\ \A i \in DOMAIN rows : rows'[i] = rows[i]
        /\ rows'[last + 1] = FreshRow(retry)
    BY <1>1, <1>5, <2>0, StartRowFacts
  <2>2. Freezing' BY <2>1, FreezingKeeps
  <2>3. CASE ledger' = ledger /\ prod' = "ended" /\ stop' \in {"delivered", stop}
    <3>1. RowsAgree' BY <2>1, <2>3, Basics DEF LedgerInvariant, RowsAgree, Agrees
    <3>2. UsageKept BY <2>1, <2>3, Basics DEF UsageKept
    <3>3. Seeing' BY <1>1, <2>1, <3>2, SeeingKeeps
    <3>4. LedgerTypes' BY <1>1, <2>1, <2>3, Basics DEF LedgerInvariant, LedgerTypes, last
    <3>5. LedgerShape' BY <1>2, <2>1, <2>3 DEF LedgerInvariant, LedgerShape, Closed, last
    <3> QED BY <1>1, <1>3, <2>2, <3>1, <3>3, <3>4, <3>5 DEF LedgerInvariant
  <2>4. CASE ledger' = Append(ledger, FreshEntry) /\ prod' = "calling" /\ UNCHANGED stop
    <3>0. FreshEntry \in Entry BY DEF FreshEntry, Entry, Report
    <3>1. /\ ledger' \in Seq(Entry) /\ Len(ledger') = last + 1 /\ DOMAIN ledger' = 1..(last + 1)
          /\ \A i \in DOMAIN ledger : ledger'[i] = ledger[i]
          /\ ledger'[last + 1] = FreshEntry /\ last' = last + 1
      <4>1. ledger \in Seq(Entry) /\ last = Len(ledger) BY DEF LedgerInvariant, LedgerTypes, last
      <4> HIDE DEF FreshEntry
      <4> QED BY <2>4, <3>0, <4>1 DEF last
    <3>2. \A i \in DOMAIN ledger' : i # last + 1 => i \in DOMAIN ledger BY <3>1, Basics
    <3>3. RowsAgree'
      <4> SUFFICES ASSUME NEW i \in DOMAIN ledger' PROVE Agrees(i)' BY DEF RowsAgree
      <4>1. CASE i = last + 1 BY <2>1, <3>1, <4>1 DEF Agrees, FreshRow, FreshEntry
      <4>2. CASE i # last + 1
        <5>1. i \in DOMAIN ledger /\ Agrees(i) /\ i \in DOMAIN rows
          BY <2>1, <3>2, <4>2, Basics DEF LedgerInvariant, RowsAgree
        <5> QED BY <2>1, <3>1, <5>1 DEF Agrees
      <4> QED BY <4>1, <4>2
    <3>4. UsageKept BY <2>1, <3>1, Basics DEF UsageKept
    <3>5. Seeing' BY <1>1, <2>1, <3>4, SeeingKeeps
    <3>6. LedgerTypes' BY <1>1, <2>1, <2>4, <3>1 DEF LedgerInvariant, LedgerTypes
    <3>7. LedgerShape'
      <4>1. \A i \in DOMAIN ledger' : (i # last' => Closed(i)')
                                     /\ (ledger'[i].persisted => ledger'[i].usage # Nil)
        BY <1>2, <3>1, <3>2 DEF LedgerInvariant, LedgerShape, Closed, FreshEntry
      <4>2. Len(rows') = Len(ledger') BY <2>1, <3>1
      <4>3. ledger'[last'].status = "started" /\ ledger'[last'].pending = Nil /\ last' > 0
        BY <3>1, Basics DEF FreshEntry
      <4> QED BY <2>4, <4>1, <4>2, <4>3 DEF LedgerShape
    <3> QED BY <1>1, <1>3, <2>2, <3>3, <3>5, <3>6, <3>7 DEF LedgerInvariant
  <2> QED BY <1>4, <1>5, <2>3, <2>4 DEF Started, FreshEntry
<1> QED BY <1>4, <1>5 DEF Started

(* The open entry is updated and stays open; its pending finish, if any,   *)
(* and its usage, if any, stay.  What observe_usage and finish_attempt do. *)
LEMMA OpenEntryKeeps ==
  ASSUME LedgerInvariant, prod = "calling", NEW e \in Entry, ledger' = [ledger EXCEPT ![last] = e],
         e.status = "started", e.persisted = ledger[last].persisted,
         ledger[last].usage # Nil => e.usage = ledger[last].usage,
         (prod' = "calling" /\ e.pending = Nil) \/ (prod' = "locking" /\ e.pending # Nil),
         stop' \in {stop, "delivered"},
         UNCHANGED <<tables, lock, creq, errors>>,
         observed \subseteq observed', observed' \subseteq observed \cup {last},
         last \in observed' => e.usage # Nil
  PROVE  LedgerInvariant'
<1>1. last > 0 /\ last \in DOMAIN ledger /\ ledger[last].status = "started"
      /\ ledger[last].pending = Nil
  BY Basics DEF LedgerInvariant, LedgerShape
<1>2. /\ ledger' \in Seq(Entry) /\ Len(ledger') = Len(ledger) /\ DOMAIN ledger' = DOMAIN ledger
      /\ ledger'[last] = e
      /\ \A j \in DOMAIN ledger : j # last => ledger'[j] = ledger[j]
  <2>1. ledger \in Seq(Entry) BY DEF LedgerInvariant, LedgerTypes
  <2> QED BY <1>1, <2>1, EntryUpdate
<1>3. last' = last BY <1>2 DEF last
<1>4. UNCHANGED <<status, rows, frozen>> BY DEF tables
<1>5. RowsAgree'
  <2> SUFFICES ASSUME status = "running", NEW i \in DOMAIN ledger PROVE Agrees(i)'
    BY <1>2, <1>4 DEF RowsAgree
  <2>1. Agrees(i) BY DEF LedgerInvariant, RowsAgree
  <2>2. CASE i # last BY <1>2, <1>4, <2>1, <2>2 DEF Agrees
  <2>3. CASE i = last
    <3>1. rows[last].usage \in {Nil, ledger[last].usage} /\ rows[last].status = "started"
          /\ (ledger[last].persisted => rows[last].usage = ledger[last].usage)
      BY <1>1, <2>1, <2>3 DEF Agrees
    <3>2. ledger[last].persisted => ledger[last].usage # Nil
      BY <1>1 DEF LedgerInvariant, LedgerShape
    <3> QED BY <1>2, <1>4, <2>3, <3>1, <3>2 DEF Agrees
  <2> QED BY <2>2, <2>3
<1>6. UsageKept BY <1>1, <1>2, <1>4 DEF UsageKept
<1>7. Freezing' BY <1>4, FreezingKeeps
<1>8. Seeing'
  <2>1. \A i \in observed' : i \in DOMAIN ledger' /\ ledger'[i].usage # Nil
    BY <1>1, <1>2 DEF LedgerInvariant, Seeing
  <2>2. \A c \in Cancellers : SeenKept(c)'
    <3> TAKE c \in Cancellers
    <3> QED BY <1>4, <1>6, SeenKeeps
  <2> QED BY <2>1, <2>2 DEF Seeing
<1>9. LedgerTypes' BY <1>2, <1>4 DEF LedgerInvariant, LedgerTypes
<1>10. LedgerShape'
  <2>1. \A i \in DOMAIN ledger' : (i # last' => Closed(i)')
                                 /\ (ledger'[i].persisted => ledger'[i].usage # Nil)
    BY <1>1, <1>2, <1>3 DEF LedgerInvariant, LedgerShape, Closed
  <2> QED BY <1>1, <1>2, <1>3, <1>4, <2>1 DEF LedgerInvariant, LedgerShape
<1>11. Locking'
  <2>1. \A c \in Cancellers : Writing(c)'
    <3> TAKE c \in Cancellers
    <3> QED BY <1>1, <1>2, WritingKeeps
  <2> QED BY <2>1 DEF Locking
<1> QED BY <1>5, <1>7, <1>8, <1>9, <1>10, <1>11 DEF LedgerInvariant

(* observe_usage: the first report, or the same again, stays; another one  *)
(* makes the call fail.                                                    *)
LEMMA ObserveKeeps ==
  ASSUME LedgerInvariant, NEW u \in Tokens, Observe(u)
  PROVE  LedgerInvariant'
<1>1. prod = "calling" /\ UNCHANGED <<tables, lock, stop, creq, errors>> BY DEF Observe
<1>2. last \in DOMAIN ledger /\ ledger[last] \in Entry
      /\ ledger[last].status = "started" /\ ledger[last].pending = Nil
  BY <1>1, Basics DEF LedgerInvariant, LedgerShape
<1>3. u \in Report /\ u # Nil BY LedgerAssumption DEF Report
<1>4. CASE ledger[last].usage \in {Nil, u}
  <2> DEFINE e == [ledger[last] EXCEPT !.usage = u]
  <2>1. e \in Entry /\ e.status = ledger[last].status /\ e.persisted = ledger[last].persisted
        /\ e.pending = ledger[last].pending /\ e.usage = u
    BY <1>2, <1>3 DEF Entry
  <2>2. /\ ledger' = [ledger EXCEPT ![last] = e] /\ prod' = prod
        /\ observed \subseteq observed' /\ observed' \subseteq observed \cup {last}
    BY <1>4 DEF Observe
  <2> HIDE DEF e
  <2>3. /\ e.status = "started" /\ e.usage # Nil
        /\ (ledger[last].usage # Nil => e.usage = ledger[last].usage)
        /\ prod' = "calling" /\ e.pending = Nil
    BY <1>1, <1>2, <1>3, <1>4, <2>1, <2>2
  <2>4. /\ UNCHANGED <<tables, lock, creq, errors>> /\ stop' \in {stop, "delivered"}
        /\ e.persisted = ledger[last].persisted /\ e \in Entry
    BY <1>1, <2>1
  <2> QED BY <1>1, <2>2, <2>3, <2>4, OpenEntryKeeps
<1>5. CASE ledger[last].usage \notin {Nil, u}
  <2> DEFINE e == [ledger[last] EXCEPT !.pending = "failed"]
  <2>1. e \in Entry /\ e.status = ledger[last].status /\ e.persisted = ledger[last].persisted
        /\ e.pending = "failed" /\ e.usage = ledger[last].usage
    BY <1>2 DEF Entry, Finished
  <2>2. ledger' = [ledger EXCEPT ![last] = e] /\ prod' = "locking" /\ observed' = observed
    BY <1>5 DEF Observe
  <2>3. "failed" # Nil BY LedgerAssumption
  <2> HIDE DEF e
  <2> QED BY <1>1, <1>2, <1>5, <2>1, <2>2, <2>3, OpenEntryKeeps
<1> QED BY <1>4, <1>5

(* finish_attempt up to its wait for the lock *)
LEMMA FinishKeeps ==
  ASSUME LedgerInvariant, NEW s \in Finished, Finish(s)
  PROVE  LedgerInvariant'
<1>1. prod = "calling" /\ prod' = "locking" /\ UNCHANGED <<tables, lock, creq, observed, errors>>
      /\ stop' \in {stop, "delivered"}
  BY DEF Finish
<1>2. last \in DOMAIN ledger /\ ledger[last] \in Entry
      /\ ledger[last].status = "started" /\ ledger[last].pending = Nil
  BY <1>1, Basics DEF LedgerInvariant, LedgerShape
<1>3. s # Nil BY LedgerAssumption DEF Finished
<1>4. last \in observed => ledger[last].usage # Nil BY DEF LedgerInvariant, Seeing
<1> DEFINE e == [ledger[last] EXCEPT !.pending = s]
<1>5. e \in Entry /\ e.status = ledger[last].status /\ e.persisted = ledger[last].persisted
      /\ e.pending = s /\ e.usage = ledger[last].usage
  BY <1>2 DEF Entry
<1>6. ledger' = [ledger EXCEPT ![last] = e] BY DEF Finish
<1> HIDE DEF e
<1> QED BY <1>1, <1>2, <1>3, <1>4, <1>5, <1>6, OpenEntryKeeps

(* finish_attempt gets the lock, or is cancelled while it waits. *)
LEMMA FinishLockedKeeps ==
  ASSUME LedgerInvariant, FinishLocked
  PROVE  LedgerInvariant'
<1>1. prod = "locking" /\ UNCHANGED <<tables, ledger, creq, observed, errors>> BY DEF FinishLocked
<1>2. RowsAgree' /\ UsageKept /\ Freezing' BY <1>1, AgreeQuiet
<1>3. Seeing' BY <1>1, <1>2, SeeingKeeps DEF tables
<1>4. prod' \in {"ended", "finishing", "thinking"}
  BY DEF FinishLocked, After
<1>5. LedgerTypes' BY <1>1, <1>4 DEF LedgerInvariant, LedgerTypes, tables, FinishLocked
<1>6. /\ last' = last /\ last > 0 /\ last \in DOMAIN ledger
      /\ ledger[last].status = "started" => ledger[last].pending # Nil
      /\ prod' = "finishing" => ledger[last].status = "started"
      /\ prod' = "thinking" => ledger[last].status # "started"
  BY <1>1, Basics DEF LedgerInvariant, LedgerShape, FinishLocked, After, last
<1>7. LedgerShape'
  <2>1. \A i \in DOMAIN ledger :
          /\ i # last => Closed(i)
          /\ ledger[i].persisted => ledger[i].usage # Nil
    BY DEF LedgerInvariant, LedgerShape
  <2>2. ASSUME prod' = "thinking", NEW i \in DOMAIN ledger PROVE Closed(i)
    <3>1. CASE i = last BY <1>6, <2>2, <3>1 DEF Closed
    <3>2. CASE i # last BY <2>1, <3>2 DEF Closed
    <3> QED BY <3>1, <3>2
  <2>3. Len(rows) = Len(ledger) BY <1>1 DEF LedgerInvariant, LedgerShape
  <2>4. UNCHANGED <<rows, ledger>> BY <1>1 DEF tables
  <2>5. \A i \in DOMAIN ledger' :
          /\ i # last' => Closed(i)'
          /\ prod' \in {"thinking", "starting", "retrying", "answered"} => Closed(i)'
          /\ ledger'[i].persisted => ledger'[i].usage # Nil
    BY <1>4, <1>6, <2>1, <2>2, <2>4 DEF Closed
  <2> QED BY <1>4, <1>6, <2>3, <2>4, <2>5 DEF LedgerShape
<1>8. Locking'
  <2>1. CASE stop = "requested"
    <3>1. lock' = lock /\ prod' = "ended" BY <2>1 DEF FinishLocked
    <3>2. \A c \in Cancellers : Writing(c)'
      <4> TAKE c \in Cancellers
      <4> QED BY <1>1, <3>1, WritingKeeps
    <3> QED BY <3>1, <3>2 DEF Locking
  <2>2. CASE stop # "requested"
    <3>1. lock = Nil BY <2>2 DEF FinishLocked
    <3>2. \A c \in Cancellers : creq[c].pc # "writing"
      BY <3>1, LedgerAssumption DEF LedgerInvariant, Locking, Writing
    <3>3. prod' = "finishing" => lock' = "producer"
      BY <1>1, <2>2 DEF FinishLocked, After
    <3> QED BY <1>1, <3>2, <3>3 DEF Locking, Writing
  <2> QED BY <2>1, <2>2
<1> QED BY <1>1, <1>2, <1>3, <1>5, <1>7, <1>8 DEF LedgerInvariant

(* finish_attempt writes the row and closes the entry, or fails between    *)
(* the two, or before the first.                                           *)
LEMMA FinishPersistedKeeps ==
  ASSUME LedgerInvariant, FinishPersisted
  PROVE  LedgerInvariant'
<1> DEFINE e == ledger[last]
<1>1. /\ prod = "finishing" /\ lock' = Nil /\ UNCHANGED <<creq, observed>>
      /\ last > 0 /\ last \in DOMAIN ledger /\ e \in Entry /\ lock = "producer"
      /\ e.status = "started" /\ e.pending # Nil
      /\ Len(rows) = Len(ledger)
  BY Basics DEF FinishPersisted, LedgerInvariant, LedgerShape, Locking
<1>2. \A c \in Cancellers : creq[c].pc # "writing"
  BY <1>1, LedgerAssumption DEF LedgerInvariant, Locking, Writing
<1>3. ASSUME prod' # "finishing" PROVE Locking'
  BY <1>1, <1>2, <1>3 DEF Locking, Writing
<1>4. ASSUME ledger' = ledger, prod' = "ended", Len(rows') = Len(rows) PROVE LedgerShape'
  BY <1>1, <1>4 DEF LedgerInvariant, LedgerShape, Closed, last
<1>5. CASE ledger' = ledger /\ prod' = "ended" /\ UNCHANGED <<tables, stop, errors>>
  <2>1. RowsAgree' /\ UsageKept /\ Freezing' BY <1>5, AgreeQuiet
  <2>2. Seeing' BY <1>1, <1>5, <2>1, SeeingKeeps DEF tables
  <2>3. LedgerTypes' BY <1>1, <1>5 DEF LedgerInvariant, LedgerTypes, tables
  <2>4. LedgerShape' BY <1>4, <1>5 DEF tables
  <2> QED BY <1>3, <1>5, <2>1, <2>2, <2>3, <2>4 DEF LedgerInvariant
<1>6. CASE FinishRow(last, e.pending, e.usage)
  <2>1. RowWritten /\ (status = "running" => rows'[last].status = e.pending)
    BY <1>1, <1>6, FinishRowFacts
  <2>2. /\ UNCHANGED <<status, frozen, errors>> /\ rows' \in Seq(Row) /\ Len(rows') = Len(rows)
    BY <2>1 DEF RowWritten
  <2>3. CASE ledger' = ledger /\ prod' = "ended" /\ stop' \in {stop, "delivered"}
    <3>1. RowsAgree' /\ UsageKept /\ Freezing' BY <1>1, <2>1, <2>3, AgreeWritten
    <3>2. Seeing' BY <1>1, <2>2, <3>1, SeeingKeeps
    <3>3. LedgerTypes' BY <1>1, <2>2, <2>3 DEF LedgerInvariant, LedgerTypes
    <3>4. LedgerShape' BY <1>4, <2>2, <2>3
    <3> QED BY <1>3, <2>2, <2>3, <3>1, <3>2, <3>3, <3>4 DEF LedgerInvariant
  <2>4. CASE ledger' = Settled(last) /\ prod' = After(e.pending) /\ UNCHANGED stop
    <3>1. RowsAgree' /\ UsageKept /\ Freezing' BY <1>1, <2>1, <2>4, AgreeSettled
    <3>2. Seeing' BY <1>1, <2>2, <3>1, SeeingKeeps
    <3>3. prod' \in {"ended", "thinking"} BY <2>4 DEF After
    <3>4. /\ ledger' \in Seq(Entry) /\ Len(ledger') = Len(ledger) /\ DOMAIN ledger' = DOMAIN ledger
          /\ \A j \in DOMAIN ledger : j # last => ledger'[j] = ledger[j]
          /\ ledger'[last].status # "started" /\ last' = last
          /\ ledger'[last].persisted => ledger'[last].usage # Nil
      BY <1>1, <2>4, SettledFacts DEF last
    <3>5. LedgerTypes' BY <1>1, <2>2, <2>4, <3>3, <3>4 DEF LedgerInvariant, LedgerTypes
    <3>6. LedgerShape'
      <4>1. \A i \in DOMAIN ledger' : Closed(i)' /\ (ledger'[i].persisted => ledger'[i].usage # Nil)
        BY <3>4 DEF LedgerInvariant, LedgerShape, Closed
      <4>2. Len(rows') = Len(ledger') BY <1>1, <2>2, <3>4
      <4> QED BY <3>3, <4>1, <4>2 DEF LedgerShape
    <3> QED BY <1>3, <2>2, <3>1, <3>2, <3>3, <3>5, <3>6 DEF LedgerInvariant
  <2> QED BY <1>6, <1>5, <2>3, <2>4 DEF FinishPersisted
<1> QED BY <1>5, <1>6 DEF FinishPersisted

-----------------------------------------------------------------------------
(* The end of the Run *)

(* complete_run, fail_run and cancel_run close every row and freeze. *)
LEMMA EndRunFacts ==
  ASSUME LedgerInvariant, NEW terminal \in {"completed", "failed", "cancelled"},
         NEW open \in {"interrupted", "failed", "cancelled"}, EndRun(terminal, open)
  PROVE  /\ status' \in {"completed", "failed", "cancelled"}
         /\ rows' \in Seq(Row) /\ Len(rows') = Len(rows) /\ DOMAIN rows' = DOMAIN rows
         /\ \A i \in DOMAIN rows : rows'[i].usage = rows[i].usage
         /\ Freezing'
<1>1. CASE status # "running"
  <2>1. UNCHANGED <<status, rows, frozen>> BY <1>1 DEF EndRun, tables
  <2>2. Freezing' BY <2>1, FreezingKeeps
  <2> QED BY <1>1, <2>1, <2>2 DEF LedgerInvariant, LedgerTypes
<1>2. CASE status = "running"
  <2> DEFINE Shut(a) == IF a.status = "started" THEN [a EXCEPT !.status = open] ELSE a
  <2>1. status' = terminal /\ rows' = [i \in DOMAIN rows |-> Shut(rows[i])]
        /\ frozen' = TerminalUsage(rows')
    BY <1>2 DEF EndRun
  <2>2. \A a \in Row : Shut(a) \in Row /\ Shut(a).usage = a.usage /\ Shut(a).status # "started"
    BY DEF Row, Finished
  <2> HIDE DEF Shut
  <2>3. rows \in Seq(Row) BY DEF LedgerInvariant, LedgerTypes
  <2>4. DOMAIN rows = 1..Len(rows) /\ Len(rows) \in Nat /\ \A i \in DOMAIN rows : rows[i] \in Row
    BY <2>3
  <2>5. /\ rows' \in [1..Len(rows) -> Row] /\ DOMAIN rows' = DOMAIN rows
        /\ \A i \in DOMAIN rows : rows'[i].usage = rows[i].usage /\ rows'[i].status # "started"
    BY <2>1, <2>2, <2>4
  <2>6. rows' \in Seq(Row) /\ Len(rows') = Len(rows) BY <2>4, <2>5
  <2>7. Freezing' BY <2>1, <2>5 DEF Freezing
  <2> QED BY <2>1, <2>5, <2>6, <2>7
<1> QED BY <1>1, <1>2

(* The worker ends the Run. *)
LEMMA EndKeeps ==
  ASSUME LedgerInvariant, CompleteRun \/ FailRun
  PROVE  LedgerInvariant'
<1>1. UNCHANGED <<ledger, lock, prod, stop, creq, observed, errors>> BY DEF CompleteRun, FailRun
<1>2. /\ status' \in {"completed", "failed", "cancelled"}
      /\ rows' \in Seq(Row) /\ Len(rows') = Len(rows)
      /\ \A i \in DOMAIN rows : rows'[i].usage = rows[i].usage
      /\ Freezing'
  BY EndRunFacts DEF CompleteRun, FailRun
<1>3. UsageKept BY <1>1, <1>2, Basics DEF UsageKept
<1>4. Seeing' BY <1>1, <1>2, <1>3, SeeingKeeps
<1>5. LedgerTypes' BY <1>1, <1>2 DEF LedgerInvariant, LedgerTypes
<1>6. LedgerShape' BY <1>1, <1>2 DEF LedgerInvariant, LedgerShape, Closed, last
<1>7. RowsAgree' BY <1>2 DEF RowsAgree
<1>8. Locking' BY <1>1 DEF LedgerInvariant, Locking, Writing, last
<1> QED BY <1>1, <1>2, <1>4, <1>5, <1>6, <1>7, <1>8 DEF LedgerInvariant

-----------------------------------------------------------------------------
(* The cancel requests *)

(* A request takes its label from a step. *)
LEMMA LabelFacts ==
  ASSUME creq \in [Cancellers -> CancelRecord], NEW c \in Cancellers,
         NEW label \in {"idle", "settling", "writing", "flushed", "ended", "raised"},
         creq' = [creq EXCEPT ![c] = Left(c, label)]
  PROVE  /\ creq' \in [Cancellers -> CancelRecord]
         /\ creq'[c].pc = label /\ creq'[c].seen = creq[c].seen
         /\ creq'[c].known = creq[c].known
         /\ \A d \in Cancellers \ {c} : creq'[d] = creq[d]
<1> DEFINE q == Left(c, label)
<1>1. q \in CancelRecord /\ q.pc = label /\ q.seen = creq[c].seen /\ q.known = creq[c].known
  <2>1. creq[c] \in CancelRecord /\ 0 \in 0..MaxCalls BY LedgerAssumption
  <2> QED BY <2>1 DEF CancelRecord, Left
<1>2. creq' = [creq EXCEPT ![c] = q] OBVIOUS
<1> HIDE DEF q
<1> QED BY <1>1, <1>2

(* cancel_run begins: it has seen what was observed so far. *)
LEMMA CancelBeginKeeps ==
  ASSUME LedgerInvariant, NEW c \in Cancellers, CancelBegin(c)
  PROVE  LedgerInvariant'
<1>1. UNCHANGED <<tables, ledger, lock, prod, stop, observed, errors>> BY DEF CancelBegin
<1>2. RowsAgree' /\ UsageKept /\ Freezing' BY <1>1, AgreeQuiet
<1>3. creq[c] \in CancelRecord BY DEF LedgerInvariant, LedgerTypes
<1>4. PICK label \in {"settling", "flushed"}, known \in BOOLEAN :
         /\ label = "flushed" => ~known
         /\ creq' = [creq EXCEPT ![c].pc = label, ![c].known = known, ![c].seen = observed]
  BY Zenon DEF CancelBegin
<1> DEFINE q == [creq[c] EXCEPT !.pc = label, !.known = known, !.seen = observed]
<1>5. q \in CancelRecord /\ q.pc = label /\ q.seen = observed /\ q.known = known
  <2>1. observed \subseteq 1..MaxCalls BY Basics DEF LedgerInvariant, Seeing
  <2> QED BY <1>3, <2>1 DEF CancelRecord
<1>6. creq' = [creq EXCEPT ![c] = q]
  <2> DEFINE all == [creq EXCEPT ![c].pc = label, ![c].known = known, ![c].seen = observed]
  <2>1. all = [creq EXCEPT ![c] = q] BY DEF LedgerInvariant, LedgerTypes
  <2> QED BY <1>4, <2>1
<1> HIDE DEF q
<1>7. /\ creq' \in [Cancellers -> CancelRecord] /\ creq'[c] = q
      /\ \A d \in Cancellers \ {c} : creq'[d] = creq[d]
  BY <1>5, <1>6 DEF LedgerInvariant, LedgerTypes
<1>8. LedgerTypes' BY <1>1, <1>7 DEF LedgerInvariant, LedgerTypes, tables
<1>9. LedgerShape' BY <1>1 DEF LedgerInvariant, LedgerShape, Closed, tables, last
<1>10. Locking'
  <2>1. \A d \in Cancellers : Writing(d)'
    <3> TAKE d \in Cancellers
    <3>1. CASE d = c BY <1>5, <1>7, <3>1 DEF Writing
    <3>2. CASE d # c BY <1>1, <1>7, <3>2 DEF LedgerInvariant, Locking, Writing, last
    <3> QED BY <3>1, <3>2
  <2> QED BY <1>1, <2>1 DEF LedgerInvariant, Locking
<1>11. Seeing'
  <2>1. \A i \in observed' : i \in DOMAIN ledger' /\ ledger'[i].usage # Nil
    BY <1>1 DEF LedgerInvariant, Seeing
  <2>2. \A d \in Cancellers : SeenKept(d)'
    <3> TAKE d \in Cancellers
    <3>1. CASE d = c BY <1>1, <1>4, <1>5, <1>7, <3>1 DEF SeenKept
    <3>2. CASE d # c BY <1>1, <1>2, <1>7, <3>2, SeenKeeps DEF tables
    <3> QED BY <3>1, <3>2
  <2> QED BY <2>1, <2>2 DEF Seeing
<1> QED BY <1>1, <1>2, <1>8, <1>9, <1>10, <1>11 DEF LedgerInvariant

(* settle_for_terminal, on entries of which only the last can be open,     *)
(* ends or goes to that entry.                                             *)
LEMMA AdvanceFacts ==
  ASSUME creq \in [Cancellers -> CancelRecord], NEW c \in Cancellers, NEW entries \in Seq(Entry),
         NEW from \in Nat \ {0}, Len(entries) <= MaxCalls,
         \A i \in DOMAIN entries : i # Len(entries) => entries[i].status # "started",
         Advance(c, entries, from)
  PROVE  /\ creq' \in [Cancellers -> CancelRecord] /\ lock' \in {c, Nil}
         /\ creq'[c].seen = creq[c].seen /\ creq'[c].known = creq[c].known
         /\ \A d \in Cancellers \ {c} : creq'[d] = creq[d]
         /\ \/ Unsettled(entries, from) = {} /\ creq'[c].pc = "flushed" /\ lock' = Nil
            \/ /\ creq'[c].pc = "writing" /\ lock' = c
               /\ Len(entries) > 0 /\ from <= Len(entries)
               /\ creq'[c].i = Len(entries) /\ creq'[c].size = Len(entries)
               /\ entries[Len(entries)].status = "started"
               /\ \/ creq'[c].write = "finish" /\ entries[Len(entries)].pending # Nil
                  \/ creq'[c].write = "usage" /\ entries[Len(entries)].usage # Nil
<1> DEFINE todo == Unsettled(entries, from)
           n == Len(entries)
<1>0. n \in Nat /\ DOMAIN entries = 1..n /\ MaxCalls \in Nat BY LedgerAssumption
<1>1. CASE todo = {}
  <2>1. creq' = [creq EXCEPT ![c] = Left(c, "flushed")] /\ lock' = Nil BY <1>1 DEF Advance
  <2> QED BY <1>1, <2>1, LabelFacts
<1>2. CASE todo # {}
  <2>1. ASSUME NEW i \in todo PROVE i = n /\ i \in from..n
    <3>1. i \in from..n /\ entries[i].status = "started" BY DEF Unsettled
    <3>2. i \in DOMAIN entries BY <1>0, <3>1
    <3> QED BY <3>1, <3>2
  <2>2. todo = {n} /\ from <= n /\ n > 0 /\ n \in todo BY <1>0, <1>2, <2>1
  <2>3. Min(todo) = n
    <3>1. \E x \in todo : \A y \in todo : x <= y BY <1>0, <2>2
    <3> QED BY <2>2, <3>1 DEF Min
  <2>4. /\ entries[n].status = "started"
        /\ entries[n].pending # Nil \/ entries[n].usage # Nil
    BY <2>2 DEF Unsettled
  <2>5. PICK w \in {"finish", "usage"} :
           w = IF entries[n].pending # Nil THEN "finish" ELSE "usage"
    OBVIOUS
  <2> DEFINE q == [creq[c] EXCEPT !.pc = "writing", !.i = n, !.size = n, !.write = w]
  <2>6. n \in 0..MaxCalls BY <1>0
  <2>7. /\ q \in CancelRecord /\ q.pc = "writing" /\ q.i = n /\ q.size = n /\ q.write = w
        /\ q.seen = creq[c].seen /\ q.known = creq[c].known
    <3> HIDE DEF n
    <3> QED BY <2>6 DEF CancelRecord
  <2>8. creq' = [creq EXCEPT ![c] = q] /\ lock' = c
    <3>1. creq' = [creq EXCEPT ![c].pc = "writing", ![c].i = n, ![c].size = n, ![c].write = w]
          /\ lock' = c
      BY <1>2, <2>3, <2>5 DEF Advance
    <3> DEFINE all == [creq EXCEPT ![c].pc = "writing", ![c].i = n, ![c].size = n, ![c].write = w]
    <3>2. all = [creq EXCEPT ![c] = q]
      <4> HIDE DEF n
      <4> QED OBVIOUS
    <3> QED BY <3>1, <3>2
  <2>9. (w = "finish" /\ entries[n].pending # Nil) \/ (w = "usage" /\ entries[n].usage # Nil)
    BY <2>4, <2>5
  <2> HIDE DEF q
  <2>10. creq' \in [Cancellers -> CancelRecord] /\ creq'[c] = q
         /\ \A d \in Cancellers \ {c} : creq'[d] = creq[d]
    BY <2>7, <2>8
  <2> QED BY <2>2, <2>4, <2>7, <2>8, <2>9, <2>10
<1> QED BY <1>1, <1>2

(* When nothing is left to write, what a request has seen is in the rows   *)
(* of a running Run.                                                       *)
LEMMA FlushedFacts ==
  ASSUME LedgerInvariant, LedgerTypes', RowsAgree', UsageKept, status' = "running",
         \A i \in DOMAIN ledger' :
           ledger'[i].status = "started" /\ ledger'[i].usage # Nil => ledger'[i].persisted,
         NEW c \in Cancellers, creq'[c].seen = creq[c].seen
  PROVE  \A i \in creq'[c].seen : rows'[i].usage = ledger'[i].usage
<1> SUFFICES ASSUME NEW i \in creq[c].seen PROVE rows'[i].usage = ledger'[i].usage OBVIOUS
<1>1. i \in DOMAIN ledger /\ ledger[i].usage # Nil BY DEF LedgerInvariant, Seeing, SeenKept
<1>2. i \in DOMAIN ledger' /\ ledger'[i].usage # Nil BY <1>1 DEF UsageKept
<1>3. Agrees(i)' BY <1>2 DEF RowsAgree
<1> QED BY <1>2, <1>3 DEF Agrees

(* settle_for_terminal goes on with the entries of the state it leads to.  *)
LEMMA AdvanceKeeps ==
  ASSUME LedgerInvariant, NEW c \in Cancellers, NEW from \in Nat \ {0},
         Advance(c, ledger', from), prod # "finishing",
         \A d \in Cancellers \ {c} : creq[d].pc # "writing",
         ledger' \in Seq(Entry), Len(ledger') = Len(ledger),
         \A i \in DOMAIN ledger' : i < from /\ ledger'[i].status = "started" => ledger'[i].persisted,
         rows' \in Seq(Row), Len(rows') = Len(rows), UNCHANGED <<status, frozen, prod, stop, observed, errors>>,
         RowsAgree', LedgerShape', Freezing', UsageKept
  PROVE  LedgerInvariant'
<1>0. /\ creq \in [Cancellers -> CancelRecord] /\ last' = last /\ last = Len(ledger')
      /\ Len(ledger') <= MaxCalls /\ DOMAIN ledger' = DOMAIN ledger /\ DOMAIN ledger' = 1..last
      /\ last \in Nat
  <2>1. Len(ledger') \in Nat /\ DOMAIN ledger' = 1..Len(ledger') OBVIOUS
  <2> QED BY <2>1, Basics DEF LedgerInvariant, LedgerTypes, last
<1>1. \A i \in DOMAIN ledger' : i # Len(ledger') => ledger'[i].status # "started"
  BY <1>0 DEF LedgerShape, Closed
<1>2. PICK entries \in Seq(Entry) : entries = ledger' OBVIOUS
<1>3. /\ creq' \in [Cancellers -> CancelRecord] /\ lock' \in {c, Nil}
      /\ creq'[c].seen = creq[c].seen
      /\ \A d \in Cancellers \ {c} : creq'[d] = creq[d]
      /\ \/ Unsettled(entries, from) = {} /\ creq'[c].pc = "flushed" /\ lock' = Nil
         \/ /\ creq'[c].pc = "writing" /\ lock' = c
            /\ last > 0 /\ from <= last
            /\ creq'[c].i = last /\ creq'[c].size = last
            /\ entries[last].status = "started"
            /\ \/ creq'[c].write = "finish" /\ entries[last].pending # Nil
               \/ creq'[c].write = "usage" /\ entries[last].usage # Nil
  BY <1>0, <1>1, <1>2, AdvanceFacts
<1>4. LedgerTypes'
  BY <1>0, <1>3 DEF LedgerInvariant, LedgerTypes, last
<1>5. Locking'
  <2>1. ASSUME NEW d \in Cancellers PROVE Writing(d)'
    <3>1. CASE d # c BY <1>3, <3>1 DEF Writing
    <3>2. CASE d = c /\ creq'[c].pc = "flushed" BY <3>2 DEF Writing
    <3>3. CASE d = c /\ creq'[c].pc = "writing"
      <4>1. last \in DOMAIN ledger' /\ ledger'[last].status = "started" /\ last > 0
        BY <1>0, <1>2, <1>3, <3>3
      <4>2. prod \in {"calling", "locking", "ended"}
        BY <1>0, <4>1 DEF LedgerInvariant, LedgerTypes, LedgerShape, Closed
      <4> QED BY <1>0, <1>2, <1>3, <3>3, <4>1, <4>2 DEF Writing
    <3> QED BY <1>3, <3>1, <3>2, <3>3
  <2> QED BY <2>1 DEF Locking
<1>6. Seeing'
  <2>1. \A i \in observed' : i \in DOMAIN ledger' /\ ledger'[i].usage # Nil
    BY DEF LedgerInvariant, Seeing, UsageKept
  <2>2. ASSUME NEW d \in Cancellers PROVE SeenKept(d)'
    <3>1. CASE d # c BY <1>3, <3>1, SeenKeeps
    <3>2. CASE d = c /\ creq'[c].pc = "flushed"
      <4>1. Unsettled(entries, from) = {} BY <1>3, <3>2
      <4>2. ASSUME NEW i \in DOMAIN ledger', ledger'[i].status = "started", ledger'[i].usage # Nil
            PROVE  ledger'[i].persisted
        <5>1. CASE i < from BY <4>2, <5>1
        <5>2. CASE ~(i < from)
          <6>1. i \in from..Len(entries) BY <1>0, <1>2, <5>2
          <6> QED BY <1>2, <4>1, <4>2, <6>1 DEF Unsettled
        <5> QED BY <5>1, <5>2
      <4>3. status' = "running" => \A i \in creq'[c].seen : rows'[i].usage = ledger'[i].usage
        BY <1>3, <1>4, <4>2, FlushedFacts
      <4>4. creq'[c].seen \subseteq observed' BY <1>3 DEF LedgerInvariant, Seeing, SeenKept
      <4> QED BY <3>2, <4>3, <4>4 DEF SeenKept
    <3>3. CASE d = c /\ creq'[c].pc = "writing"
      <4>1. creq'[c].seen \subseteq observed' BY <1>3 DEF LedgerInvariant, Seeing, SeenKept
      <4> QED BY <3>3, <4>1 DEF SeenKept
    <3> QED BY <1>3, <3>1, <3>2, <3>3
  <2> QED BY <2>1, <2>2 DEF Seeing
<1> QED BY <1>4, <1>5, <1>6 DEF LedgerInvariant

(* settle_for_terminal takes the lock and looks for its first write. *)
LEMMA SettleLockedKeeps ==
  ASSUME LedgerInvariant, NEW c \in Cancellers, SettleLocked(c)
  PROVE  LedgerInvariant'
<1>1. /\ lock = Nil /\ UNCHANGED <<tables, ledger, prod, stop, observed, errors>>
      /\ Advance(c, ledger, 1)
  BY DEF SettleLocked
<1>2. UNCHANGED <<status, rows, frozen, ledger>> BY <1>1 DEF tables
<1>3. RowsAgree' /\ UsageKept /\ Freezing' BY <1>1, AgreeQuiet
<1>4. LedgerShape' BY <1>1, <1>2 DEF LedgerInvariant, LedgerShape, Closed, last
<1>5. prod # "finishing" /\ \A d \in Cancellers : creq[d].pc # "writing"
  <2>1. lock # "producer" BY <1>1, LedgerAssumption
  <2> QED BY <1>1, <2>1, LedgerAssumption DEF LedgerInvariant, Locking, Writing
<1>6. \A i \in DOMAIN ledger' : ~(i < 1) BY <1>2, Basics
<1>7. ledger \in Seq(Entry) /\ rows \in Seq(Row) BY DEF LedgerInvariant, LedgerTypes
<1> QED BY <1>1, <1>2, <1>3, <1>4, <1>5, <1>6, <1>7, AdvanceKeeps

(* A settlement that writes excludes the others and the producer. *)
LEMMA WritingAlone ==
  ASSUME LedgerInvariant, NEW c \in Cancellers, creq[c].pc = "writing"
  PROVE  /\ Writing(c) /\ prod # "finishing"
         /\ \A d \in Cancellers \ {c} : creq[d].pc # "writing"
<1>1. Writing(c) /\ lock = c BY DEF LedgerInvariant, Locking, Writing
<1>2. prod # "finishing" BY <1>1, LedgerAssumption DEF LedgerInvariant, Locking
<1>3. \A d \in Cancellers \ {c} : creq[d].pc # "writing"
  BY <1>1 DEF LedgerInvariant, Locking, Writing
<1> QED BY <1>1, <1>2, <1>3

(* A request that raises leaves the lock and the entries; its write may    *)
(* have been committed.                                                    *)
LEMMA RaisedKeeps ==
  ASSUME LedgerInvariant, NEW c \in Cancellers, creq[c].pc = "writing", Raised(c),
         UNCHANGED <<ledger, prod, stop, observed>>,
         RowWritten \/ UNCHANGED <<tables, errors>>
  PROVE  LedgerInvariant'
<1>1. Writing(c) /\ prod # "finishing" /\ \A d \in Cancellers \ {c} : creq[d].pc # "writing"
  BY WritingAlone
<1>2. RowsAgree' /\ UsageKept /\ Freezing' BY <1>1, AgreeWritten, AgreeQuiet DEF Writing
<1>3. /\ UNCHANGED <<status, frozen, errors>> /\ rows' \in Seq(Row) /\ Len(rows') = Len(rows)
  BY DEF RowWritten, tables, LedgerInvariant, LedgerTypes
<1>4. /\ creq' \in [Cancellers -> CancelRecord] /\ lock' = Nil
      /\ creq'[c].pc = "raised" /\ creq'[c].seen = creq[c].seen
      /\ \A d \in Cancellers \ {c} : creq'[d] = creq[d]
  <2>1. creq \in [Cancellers -> CancelRecord] BY DEF LedgerInvariant, LedgerTypes
  <2>2. creq' = [creq EXCEPT ![c] = Left(c, "raised")] /\ lock' = Nil BY DEF Raised
  <2> QED BY <2>1, <2>2, LabelFacts
<1>5. LedgerTypes' BY <1>3, <1>4 DEF LedgerInvariant, LedgerTypes
<1>6. LedgerShape' BY <1>3 DEF LedgerInvariant, LedgerShape, Closed, last
<1>7. Locking' BY <1>1, <1>4 DEF Locking, Writing
<1>8. Seeing'
  <2>1. \A i \in observed' : i \in DOMAIN ledger' /\ ledger'[i].usage # Nil
    BY DEF LedgerInvariant, Seeing
  <2>2. ASSUME NEW d \in Cancellers PROVE SeenKept(d)'
    <3>1. CASE d # c BY <1>2, <1>3, <1>4, <3>1, SeenKeeps
    <3>2. CASE d = c
      <4>1. creq'[c].seen \subseteq observed' BY <1>4 DEF LedgerInvariant, Seeing, SeenKept
      <4> QED BY <1>4, <3>2, <4>1 DEF SeenKept
    <3> QED BY <3>1, <3>2
  <2> QED BY <2>1, <2>2 DEF Seeing
<1> QED BY <1>2, <1>3, <1>5, <1>6, <1>7, <1>8 DEF LedgerInvariant

(* The repository does not confirm the write of a settlement. *)
LEMMA SettleFaultKeeps ==
  ASSUME LedgerInvariant, NEW c \in Cancellers, SettleFault(c)
  PROVE  LedgerInvariant'
<1>1. creq[c].pc = "writing" /\ Raised(c) /\ UNCHANGED <<ledger, prod, stop, observed>>
  BY DEF SettleFault
<1>2. SettleRow(c) \/ UNCHANGED <<tables, errors>> BY DEF SettleFault
<1>3. RowWritten \/ UNCHANGED <<tables, errors>> BY <1>1, <1>2, SettleRowFacts
<1> QED BY <1>1, <1>3, RaisedKeeps

(* The write of a settlement: the dict has not grown, there is no          *)
(* conflict, and the entry is closed or marked as persisted.               *)
LEMMA SettleWriteKeeps ==
  ASSUME LedgerInvariant, NEW c \in Cancellers, SettleWrite(c)
  PROVE  LedgerInvariant'
<1> DEFINE e == ledger[last]
<1>1. creq[c].pc = "writing" /\ UNCHANGED <<prod, stop, observed>> BY DEF SettleWrite
<1>2. Writing(c) /\ prod # "finishing" /\ \A d \in Cancellers \ {c} : creq[d].pc # "writing"
  BY <1>1, WritingAlone
<1>3. /\ last > 0 /\ last \in DOMAIN ledger /\ creq[c].i = last /\ creq[c].size = last /\ last \in Nat
      /\ e.status = "started" /\ e \in Entry /\ Len(ledger) = last
  BY <1>1, <1>2, Basics DEF Writing, last
<1>4. SettleRow(c) BY <1>3 DEF SettleWrite
<1>5. RowWritten /\ (creq[c].write = "finish" /\ status = "running" => rows'[last].status = e.pending)
  BY <1>1, <1>4, SettleRowFacts
<1>6. /\ UNCHANGED <<status, frozen, errors>> /\ rows' \in Seq(Row) /\ Len(rows') = Len(rows)
  BY <1>5 DEF RowWritten
<1>7. /\ ledger' = IF creq[c].write = "finish" THEN Settled(last) ELSE [ledger EXCEPT ![last].persisted = TRUE]
      /\ Advance(c, ledger', last + 1)
  BY <1>3, <1>6 DEF SettleWrite
<1>8. /\ ledger' \in Seq(Entry) /\ Len(ledger') = Len(ledger) /\ DOMAIN ledger' = DOMAIN ledger
      /\ \A j \in DOMAIN ledger : j # last => ledger'[j] = ledger[j]
      /\ ledger'[last].usage = e.usage
      /\ ledger'[last].persisted => e.usage # Nil
      /\ ledger'[last].status = "started" => ledger'[last].persisted /\ ledger'[last].pending = e.pending
      /\ RowsAgree' /\ UsageKept /\ Freezing'
  <2>1. CASE creq[c].write = "finish"
    <3>1. e.pending # Nil /\ ledger' = Settled(last) BY <1>1, <1>2, <1>7, <2>1 DEF Writing
    <3>2. RowsAgree' /\ UsageKept /\ Freezing' BY <1>3, <1>5, <2>1, <3>1, AgreeSettled
    <3> QED BY <1>3, <3>1, <3>2, SettledFacts
  <2>2. CASE creq[c].write # "finish"
    <3> DEFINE f == [e EXCEPT !.persisted = TRUE]
    <3>1. f \in Entry /\ f.status = e.status /\ f.usage = e.usage /\ f.pending = e.pending /\ f.persisted
      BY <1>3 DEF Entry
    <3>2. ledger \in Seq(Entry) /\ ledger' = [ledger EXCEPT ![last] = f]
      BY <1>7, <2>2 DEF LedgerInvariant, LedgerTypes
    <3> HIDE DEF f
    <3>3. /\ ledger' \in Seq(Entry) /\ Len(ledger') = Len(ledger) /\ DOMAIN ledger' = DOMAIN ledger
          /\ ledger'[last] = f
          /\ \A j \in DOMAIN ledger : j # last => ledger'[j] = ledger[j]
      BY <1>3, <3>1, <3>2, EntryUpdate
    <3>4. e.usage # Nil BY <1>1, <1>2, <2>2 DEF Writing
    <3>5. RowsAgree'
      <4> SUFFICES ASSUME status = "running", NEW i \in DOMAIN ledger PROVE Agrees(i)'
        BY <1>6, <3>3 DEF RowsAgree
      <4>1. Agrees(i) /\ i \in DOMAIN rows BY Basics DEF LedgerInvariant, RowsAgree
      <4>2. CASE i # last BY <1>5, <3>3, <4>1, <4>2 DEF Agrees, RowWritten
      <4>3. CASE i = last BY <1>3, <1>5, <3>1, <3>3, <4>1, <4>3 DEF Agrees, RowWritten
      <4> QED BY <4>2, <4>3
    <3>6. UsageKept BY <1>5, <3>1, <3>3, Basics DEF UsageKept, RowWritten
    <3>7. Freezing' BY <1>5, FreezingKeeps DEF RowWritten
    <3> QED BY <3>1, <3>3, <3>4, <3>5, <3>6, <3>7
  <2> QED BY <2>1, <2>2
<1>9. LedgerShape'
  <2>1. last' = last BY <1>8 DEF last
  <2>2. \A i \in DOMAIN ledger' :
          /\ i # last' => Closed(i)'
          /\ ledger'[i].persisted => ledger'[i].usage # Nil
    BY <1>8, <2>1 DEF LedgerInvariant, LedgerShape, Closed
  <2>3. prod \in {"calling", "locking", "ended"} BY <1>1, <1>2 DEF Writing
  <2>4. prod = "calling" => creq[c].write # "finish"
    BY <1>1, <1>2 DEF Writing, LedgerInvariant, LedgerShape
  <2>5. prod = "calling" => ledger'[last].status = "started" /\ ledger'[last].pending = Nil
    <3>1. ASSUME prod = "calling" PROVE ledger'[last].status = "started"
      <4>1. ledger' = [ledger EXCEPT ![last].persisted = TRUE] BY <1>7, <2>4, <3>1
      <4>2. [e EXCEPT !.persisted = TRUE].status = e.status BY <1>3 DEF Entry
      <4>3. ledger'[last] = [e EXCEPT !.persisted = TRUE] BY <1>3, <4>1
      <4> QED BY <1>3, <4>2, <4>3
    <3> QED BY <1>8, <3>1 DEF LedgerInvariant, LedgerShape
  <2>6. prod = "locking" /\ ledger'[last].status = "started" => ledger'[last].pending # Nil
    BY <1>3, <1>8 DEF LedgerInvariant, LedgerShape
  <2> QED BY <1>1, <1>3, <1>6, <1>8, <2>1, <2>2, <2>3, <2>5, <2>6 DEF LedgerInvariant, LedgerShape
<1>10. \A i \in DOMAIN ledger' : i < last + 1 /\ ledger'[i].status = "started" => ledger'[i].persisted
  BY <1>8 DEF LedgerInvariant, LedgerShape, Closed
<1>11. last + 1 \in Nat \ {0} BY <1>3
<1> QED BY <1>1, <1>2, <1>6, <1>7, <1>8, <1>9, <1>10, <1>11, AdvanceKeeps

(* repository.cancel_run ends the Run, or finds it ended. *)
LEMMA CancelCommitKeeps ==
  ASSUME LedgerInvariant, NEW c \in Cancellers, CancelCommit(c)
  PROVE  LedgerInvariant'
<1>1. /\ creq[c].pc = "flushed" /\ EndRun("cancelled", "cancelled")
      /\ UNCHANGED <<ledger, lock, prod, stop, observed, errors>>
  BY DEF CancelCommit
<1>2. PICK label \in {"ended", "raised"} : label = IF status = "running" THEN "ended" ELSE "raised"
  OBVIOUS
<1>3. /\ creq' \in [Cancellers -> CancelRecord]
      /\ creq'[c].pc = label /\ creq'[c].seen = creq[c].seen
      /\ creq'[c].known = creq[c].known
      /\ \A d \in Cancellers \ {c} : creq'[d] = creq[d]
  <2>1. creq \in [Cancellers -> CancelRecord] BY DEF LedgerInvariant, LedgerTypes
  <2>2. creq' = [creq EXCEPT ![c] = Left(c, label)] BY <1>2 DEF CancelCommit
  <2> QED BY <2>1, <2>2, LabelFacts
<1>4. /\ status' \in {"completed", "failed", "cancelled"}
      /\ rows' \in Seq(Row) /\ Len(rows') = Len(rows)
      /\ \A i \in DOMAIN rows : rows'[i].usage = rows[i].usage
      /\ Freezing'
  BY <1>1, EndRunFacts
<1>5. UsageKept BY <1>1, <1>4, Basics DEF UsageKept
<1>6. LedgerTypes' BY <1>1, <1>3, <1>4 DEF LedgerInvariant, LedgerTypes
<1>7. LedgerShape' BY <1>1, <1>4 DEF LedgerInvariant, LedgerShape, Closed, last
<1>8. RowsAgree' BY <1>4 DEF RowsAgree
<1>9. Locking'
  <2>1. ASSUME NEW d \in Cancellers PROVE Writing(d)'
    <3>1. CASE d = c BY <1>3, <3>1 DEF Writing
    <3>2. CASE d # c BY <1>1, <1>3, <3>2 DEF LedgerInvariant, Locking, Writing, last
    <3> QED BY <3>1, <3>2
  <2> QED BY <1>1, <2>1 DEF LedgerInvariant, Locking
<1>10. Seeing'
  <2>1. \A i \in observed' : i \in DOMAIN ledger' /\ ledger'[i].usage # Nil
    BY <1>1 DEF LedgerInvariant, Seeing
  <2>2. ASSUME NEW d \in Cancellers PROVE SeenKept(d)'
    <3>1. CASE d # c BY <1>1, <1>3, <1>4, <1>5, <3>1, SeenKeeps
    <3>2. CASE d = c
      <4>1. creq[c].seen \subseteq observed
            /\ \A i \in observed : i \in DOMAIN ledger
        BY DEF LedgerInvariant, Seeing, SeenKept
      <4>2. label = "ended" /\ creq[c].known => \A i \in creq[c].seen : rows[i].usage = ledger[i].usage
        BY <1>1, <1>2 DEF LedgerInvariant, Seeing, SeenKept
      <4>3. \A i \in creq[c].seen : rows'[i].usage = rows[i].usage BY <1>4, <4>1, Basics
      <4> QED BY <1>1, <1>3, <1>4, <3>2, <4>1, <4>2, <4>3 DEF SeenKept
    <3> QED BY <3>1, <3>2
  <2> QED BY <2>1, <2>2 DEF Seeing
<1> QED BY <1>1, <1>4, <1>6, <1>7, <1>8, <1>9, <1>10 DEF LedgerInvariant

-----------------------------------------------------------------------------
(* Theorems *)

(* The invariant holds at first. *)
LEMMA LedgerInit == Init => LedgerInvariant
<1> SUFFICES ASSUME Init PROVE LedgerInvariant OBVIOUS
<1>1. /\ rows = <<>> /\ ledger = <<>> /\ DOMAIN rows = {} /\ DOMAIN ledger = {}
      /\ Len(rows) = 0 /\ Len(ledger) = 0 /\ status = "running" /\ frozen = Nil /\ prod = "thinking"
      /\ observed = {} /\ errors = {} /\ lock = Nil /\ stop = "no"
      /\ rows \in Seq(Row) /\ ledger \in Seq(Entry)
  BY DEF Init
<1>2. NoCancel \in CancelRecord /\ NoCancel.pc = "idle" /\ NoCancel.seen = {}
  BY LedgerAssumption DEF NoCancel, CancelRecord
<1>3. creq \in [Cancellers -> CancelRecord]
      /\ \A c \in Cancellers : creq[c].pc = "idle" /\ creq[c].seen = {}
  <2> HIDE DEF NoCancel
  <2> QED BY <1>2 DEF Init
<1>4. LedgerTypes BY <1>1, <1>3, LedgerAssumption DEF LedgerTypes
<1>5. LedgerShape /\ RowsAgree /\ Freezing BY <1>1 DEF LedgerShape, RowsAgree, Freezing
<1>6. Locking /\ Seeing BY <1>1, <1>3 DEF Locking, Writing, Seeing, SeenKept
<1> QED BY <1>1, <1>4, <1>5, <1>6 DEF LedgerInvariant

(* Every step keeps the invariant. *)
LEMMA LedgerNext == LedgerInvariant /\ [Next]_vars => LedgerInvariant'
<1> SUFFICES ASSUME LedgerInvariant, [Next]_vars PROVE LedgerInvariant' OBVIOUS
<1>1. CASE UNCHANGED vars
  <2>1. UNCHANGED <<tables, ledger, lock, prod, stop, creq, observed, errors>>
        /\ UNCHANGED <<status, rows, frozen>>
    BY <1>1 DEF vars, tables
  <2>2. RowsAgree' /\ UsageKept /\ Freezing' BY <2>1, AgreeQuiet
  <2>3. Seeing' BY <2>1, <2>2, SeeingKeeps
  <2>4. LedgerTypes' /\ LedgerShape' /\ Locking'
    BY <2>1 DEF LedgerInvariant, LedgerTypes, LedgerShape, Closed, Locking, Writing, last
  <2> QED BY <2>1, <2>2, <2>3, <2>4 DEF LedgerInvariant
<1>2. CASE (\E kind \in {"starting", "retrying"} : Begin(kind)) \/ ProducerEnds \/ StopProducer
           \/ Shutdown \/ WorkerExits
  BY <1>2, BeginKeeps
<1>3. CASE ProducerStep
  BY <1>3, StartedKeeps, FinishLockedKeeps, FinishPersistedKeeps DEF ProducerStep
<1>4. CASE \E u \in Tokens : Observe(u) BY <1>4, ObserveKeeps
<1>5. CASE \E s \in Finished : Finish(s) BY <1>5, FinishKeeps
<1>6. CASE CompleteRun \/ FailRun BY <1>6, EndKeeps
<1>7. ASSUME NEW c \in Cancellers, CancelBegin(c) \/ CancelStep(c) PROVE LedgerInvariant'
  BY <1>7, CancelBeginKeeps, SettleLockedKeeps, SettleWriteKeeps, SettleFaultKeeps,
     CancelCommitKeeps DEF CancelStep
<1> QED BY <1>1, <1>2, <1>3, <1>4, <1>5, <1>6, <1>7 DEF Next

(* The invariant holds in every reachable state. *)
LEMMA LedgerCorrect == Spec => []LedgerInvariant
BY LedgerInit, LedgerNext, PTL DEF Spec

(* usage.py:304, repository.py: for any number of provider attempts and of *)
(* concurrent cancel requests, whatever was rolled back or committed late, *)
(* a repeated write of an attempt is the same write, and the dict never    *)
(* grows under the iteration: no legal sequence of calls raises.           *)
THEOREM MeteringNeverFails == Spec => []NoMeteringError
<1>1. LedgerInvariant => NoMeteringError BY DEF LedgerInvariant, NoMeteringError
<1> QED BY <1>1, LedgerCorrect, PTL

(* account-and-usage.md:9, 20: what an ended Run shows is the usage of its *)
(* rows, all closed and never written again, and it counts every request   *)
(* that crossed the provider boundary, and at most one that did not.       *)
THEOREM FrozenUsageCorrect == Spec => []FrozenUsageIsExact
<1>1. LedgerInvariant => FrozenUsageIsExact
  <2> SUFFICES ASSUME LedgerInvariant, frozen # Nil
               PROVE  /\ frozen = TerminalUsage(rows)
                      /\ \A i \in DOMAIN rows : rows[i].status # "started"
                      /\ frozen.calls \in {Len(ledger), Len(ledger) + 1}
    BY DEF FrozenUsageIsExact, FrozenUsageIsFinal, EveryRequestCounted
  <2>1. /\ frozen = TerminalUsage(rows)
        /\ \A i \in DOMAIN rows : rows[i].status # "started"
    BY DEF LedgerInvariant, Freezing
  <2>2. \A calls, retries, tokens :
           [calls |-> calls, retries |-> retries, tokens |-> tokens].calls = calls
    OBVIOUS
  <2>3. TerminalUsage(rows).calls = Len(rows)
    <3> DEFINE retries == Len(SelectSeq(rows, LAMBDA a : a.retry))
               tokens == TokenMetric([i \in DOMAIN rows |-> rows[i].usage])
    <3>1. TerminalUsage(rows) = [calls |-> Len(rows), retries |-> retries, tokens |-> tokens]
      BY Zenon DEF TerminalUsage
    <3> HIDE DEF retries, tokens
    <3> QED BY <2>2, <3>1
  <2>4. Len(rows) \in {Len(ledger), Len(ledger) + 1} BY DEF LedgerInvariant, LedgerShape
  <2> QED BY <2>1, <2>3, <2>4
<1> QED BY <1>1, LedgerCorrect, PTL

(* account-and-usage.md:21: the usage observed when a cancel request that  *)
(* finds the execution begins is in the rows of the Run that this request  *)
(* ends, whatever the producer, the worker and the other requests do       *)
(* meanwhile.  A request that comes after the worker's exit promises       *)
(* nothing: SettlementIsNeverSkipped is not a theorem.                     *)
THEOREM CancelKeepsUsage == Spec => []CancelKeepsSeenUsage
<1>1. LedgerInvariant => CancelKeepsSeenUsage
  BY DEF LedgerInvariant, Seeing, SeenKept, CancelKeepsSeenUsage
<1> QED BY <1>1, LedgerCorrect, PTL
=============================================================================
