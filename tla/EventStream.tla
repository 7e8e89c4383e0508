----------------------------- MODULE EventStream -----------------------------
(***************************************************************************)
(* One Run's event stream from the event table to the page:                *)
(* RunService.stream_events polls the table behind GET /runs/{id}/events,  *)
(* and streamRunEvents of the page reads the response and reconnects from  *)
(* the last sequence number it accepted.                                   *)
(*                                                                         *)
(* The event table is (lastSeq, ended): the events of a Run are numbered   *)
(* 1 .. lastSeq (ProductRepository: append_event and the terminal commits  *)
(* take last_seq + 1 under the row lock), and the terminal event is        *)
(* committed together with the terminal status, so once `ended' holds the  *)
(* terminal event is number lastSeq and nothing follows it.  Keep-alive    *)
(* comments carry no event and are left out.                               *)
(***************************************************************************)
EXTENDS Integers, Sequences

CONSTANTS
    MaxSeq,     \* bound: how many events the Run commits
    MaxBreaks,  \* bound: how often a request or a response fails
    Start       \* initialAfterSeq: the sequence number the page holds already

ASSUME StreamAssumption ==
    /\ MaxSeq \in Nat \ {0}
    /\ MaxBreaks \in Nat
    /\ Start \in 0 .. MaxSeq - 1

VARIABLES
    lastSeq,    \* RunRecord.last_seq
    ended,      \* RunRecord.status is terminal
    server,     \* where the generator of stream_events stands
    cursor,     \* its cursor: the last event it has yielded
    top,        \* the last event of the batch get_events returned
    wire,       \* events written to the response and not read by the page
    client,     \* where streamRunEvents stands
    afterSeq,   \* its afterSeq: the last event it has accepted
    terminal,   \* its `terminal' flag, of the current response
    delivered,  \* what onEvent has been called with, in order
    breaks      \* how many requests and responses have failed (bounded)

tableVars == <<lastSeq, ended>>
serverVars == <<server, cursor, top>>
vars == <<tableVars, serverVars, wire, client, afterSeq, terminal,
          delivered, breaks>>

ServerStates == {"idle", "reading", "yielding", "checking", "returned"}
ClientStates == {"fetching", "live", "waiting", "done", "failed", "aborted"}

TypeOK ==
    /\ lastSeq \in 0 .. MaxSeq
    /\ ended \in BOOLEAN
    /\ server \in ServerStates
    /\ cursor \in 0 .. MaxSeq
    /\ top \in 0 .. MaxSeq
    /\ wire \in Seq(1 .. MaxSeq)
    /\ client \in ClientStates
    /\ afterSeq \in 0 .. MaxSeq
    /\ terminal \in BOOLEAN
    /\ delivered \in Seq(1 .. MaxSeq)
    /\ breaks \in 0 .. MaxBreaks

\* The page connects to a Run it has seen up to event Start and took for
\* running; the Run may have moved on, or ended, since.
Init ==
    /\ lastSeq \in Start .. MaxSeq
    /\ ended \in BOOLEAN
    /\ ended => lastSeq > Start
    /\ ended \/ lastSeq < MaxSeq
    /\ server = "idle"
    /\ cursor = 0
    /\ top = 0
    /\ wire = << >>
    /\ client = "fetching"
    /\ afterSeq = Start
    /\ terminal = FALSE
    /\ delivered = << >>
    /\ breaks = 0

-----------------------------------------------------------------------------
(* The event table, written by the executor and by cancellation.           *)

\* append_event, or a terminal commit: one more event, under the row lock.
Commit(last) ==
    /\ ~ended
    /\ lastSeq < MaxSeq
    /\ lastSeq' = lastSeq + 1
    /\ ended' = last
    /\ UNCHANGED <<serverVars, wire, client, afterSeq, terminal, delivered,
                   breaks>>

AppendEvent == lastSeq + 1 < MaxSeq /\ Commit(FALSE)
CommitTerminal == Commit(TRUE)

-----------------------------------------------------------------------------
(* The server: the endpoint and the generator of stream_events.            *)

\* The endpoint authorizes, takes the cursor from after_seq and opens the
\* response; the page marks the stream live and starts reading it.
Open(seq) ==
    /\ client = "fetching"
    /\ client' = "live"
    /\ terminal' = FALSE
    /\ server' = "reading"
    /\ cursor' = seq
    /\ UNCHANGED <<tableVars, top, wire, afterSeq, delivered, breaks>>

\* Plausible bug: resume behind what the server had written, not behind
\* what the page had accepted.
ConnectBehindSent == Open(IF cursor > afterSeq THEN cursor ELSE afterSeq)

Connect == Open(afterSeq)

\* events = get_events(run_id, cursor): the committed events behind cursor.
ReadEvents ==
    /\ server = "reading"
    /\ top' = lastSeq
    /\ server' = "yielding"
    /\ UNCHANGED <<tableVars, cursor, wire, client, afterSeq, terminal,
                   delivered, breaks>>

\* for event in events: cursor = event.seq; yield event.
YieldEvent ==
    /\ server = "yielding"
    /\ cursor < top
    /\ cursor' = cursor + 1
    /\ wire' = Append(wire, cursor + 1)
    /\ UNCHANGED <<tableVars, server, top, client, afterSeq, terminal,
                   delivered, breaks>>

BatchYielded ==
    /\ server = "yielding"
    /\ cursor >= top
    /\ server' = "checking"
    /\ UNCHANGED <<tableVars, cursor, top, wire, client, afterSeq, terminal,
                   delivered, breaks>>

\* Plausible bug: return as soon as the Run is terminal.
FinishedOnStatus == ended

\* `run.status in {...} and cursor >= run.last_seq', of a Run read after
\* the events were.
Finished == ended /\ cursor >= lastSeq

\* run = get_run(...): return, or sleep and read the next batch.
CheckRun ==
    /\ server = "checking"
    /\ server' = IF Finished THEN "returned" ELSE "reading"
    /\ UNCHANGED <<tableVars, cursor, top, wire, client, afterSeq, terminal,
                   delivered, breaks>>

-----------------------------------------------------------------------------
(* The page: streamRunEvents and readSseEvents.                            *)

IsTerminal(seq) == ended /\ seq = lastSeq

\* One event block arrives; an event at or below afterSeq is dropped.
ReadEvent ==
    /\ client = "live"
    /\ wire # << >>
    /\ wire' = Tail(wire)
    /\ LET seq == Head(wire) IN
       IF seq <= afterSeq
       THEN UNCHANGED <<afterSeq, terminal, delivered>>
       ELSE /\ afterSeq' = seq
            /\ delivered' = Append(delivered, seq)
            /\ terminal' = IsTerminal(seq)
    /\ UNCHANGED <<tableVars, serverVars, client, breaks>>

\* Plausible bug: the end of a response is taken for the end of the Run.
EndOfResponseIsEnd ==
    /\ client = "live"
    /\ server \in {"returned", "checking"}
    /\ wire = << >>
    /\ client' = "done"
    /\ server' = "idle"
    /\ UNCHANGED <<tableVars, cursor, top, wire, afterSeq, terminal,
                   delivered, breaks>>

\* The response ends: `if (terminal || signal.aborted) return', else retry.
EndOfResponse ==
    /\ client = "live"
    /\ server = "returned"
    /\ wire = << >>
    /\ client' = IF terminal THEN "done" ELSE "waiting"
    /\ server' = "idle"
    /\ UNCHANGED <<tableVars, cursor, top, wire, afterSeq, terminal,
                   delivered, breaks>>

\* The request fails, is answered 5xx, or the response breaks off with what
\* was under way on it (a network error, a server restart, the refusal of
\* _require_repository_safe, is_disconnected): wait and fetch again.  An end
\* that reads as that of a complete response is final behind the terminal
\* event.
Break ==
    /\ client \in {"fetching", "live"}
    /\ breaks < MaxBreaks
    /\ breaks' = breaks + 1
    /\ \/ client' = "waiting"
       \/ client = "live" /\ terminal /\ client' = "done"
    /\ server' = "idle"
    /\ wire' = << >>
    /\ UNCHANGED <<tableVars, cursor, top, afterSeq, terminal, delivered>>

\* The endpoint answers 4xx: the error is thrown, not retried.
Refused ==
    /\ client = "fetching"
    /\ client' = "failed"
    /\ UNCHANGED <<tableVars, serverVars, wire, afterSeq, terminal,
                   delivered, breaks>>

\* waitForReconnect resolves: 250 ms doubling up to 2 s.
Reconnect ==
    /\ client = "waiting"
    /\ client' = "fetching"
    /\ UNCHANGED <<tableVars, serverVars, wire, afterSeq, terminal,
                   delivered, breaks>>

\* signal.abort(): another Thread is opened, or a cancel was confirmed.
Abort ==
    /\ client \in {"fetching", "live", "waiting"}
    /\ client' = "aborted"
    /\ server' = "idle"
    /\ wire' = << >>
    /\ UNCHANGED <<tableVars, cursor, top, afterSeq, terminal, delivered,
                   breaks>>

\* Nothing is left to do: the stream is over and the Run has ended.
Idle ==
    /\ client \in {"done", "failed", "aborted"}
    /\ ended
    /\ UNCHANGED vars

Next ==
    \/ AppendEvent \/ CommitTerminal
    \/ Connect \/ ReadEvents \/ YieldEvent \/ BatchYielded \/ CheckRun
    \/ ReadEvent \/ EndOfResponse \/ Break \/ Refused \/ Reconnect \/ Abort
    \/ Idle

Spec == Init /\ [][Next]_vars

\* The Run ends (RunService's own liveness), the server keeps polling, the
\* page keeps reading and its reconnect timer fires.
FairSpec ==
    /\ Spec
    /\ WF_vars(CommitTerminal)
    /\ WF_vars(Connect)
    /\ WF_vars(ReadEvents)
    /\ WF_vars(YieldEvent)
    /\ WF_vars(BatchYielded)
    /\ WF_vars(CheckRun)
    /\ WF_vars(ReadEvent)
    /\ WF_vars(EndOfResponse)
    /\ WF_vars(Reconnect)

-----------------------------------------------------------------------------
(* Properties.                                                             *)

\* onEvent of streamRunEvents sees the committed events behind the one the
\* page started from, each exactly once, in order and without a gap,
\* whatever polls, commits, broken responses and reconnects intervene.
ExactlyOnceInOrder ==
    /\ delivered = [i \in 1 .. (afterSeq - Start) |-> Start + i]
    /\ Start <= afterSeq /\ afterSeq <= lastSeq

\* When stream_events has ended a response, what the page has received, over
\* all responses, and what is still on the way to it are together the whole
\* log, the terminal event last: although the events and the status are read
\* in two transactions, between which the terminal may be committed, and the
\* page resumed behind its own cursor, nothing is missing and nothing is
\* under way twice.
ResponseCarriesLog ==
    server = "returned" =>
        /\ ended
        /\ delivered \o wire = [i \in 1 .. (lastSeq - Start) |-> Start + i]

\* streamRunEvents returns normally only after onEvent saw the terminal
\* event, so the page's final refresh never starts for a running Run.
DoneHasTerminal ==
    client = "done" => ended /\ afterSeq = lastSeq

\* While responses break only finitely often, a page that neither is refused
\* nor leaves the Run receives every event up to the terminal one.
EveryEventArrives ==
    <>(\/ client \in {"failed", "aborted"}
       \/ ended /\ afterSeq = lastSeq)
=============================================================================
