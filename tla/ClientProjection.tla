--------------------------- MODULE ClientProjection ---------------------------
(***************************************************************************)
(* What the page shows of the Runs of a Thread (frontend/src/App.tsx).     *)
(* Four sources write the projections, in any order: the event stream of   *)
(* the active Run, batched by a render timer; snapshots of a Thread, read  *)
(* by getThread for an opened Thread, a new Run or a finished stream; the  *)
(* answer to a create request; and the answer to a cancel request.  The    *)
(* user moves between Threads meanwhile.                                   *)
(*                                                                         *)
(* The server side is external here and only as detailed as its answers:   *)
(* a Run is the log of its committed events (ProductRepository), get_thread *)
(* reads the Run rows and then, in a second statement, the events, and the *)
(* stream hands over each event once and in order (EventStream).           *)
(*                                                                         *)
(* Text is the sequence of the numbers of the delta events it was built    *)
(* from.  Tool and source rows, which applyEvent replaces by their id, the *)
(* messages and the title of a Thread, and the alert line are left out.    *)
(***************************************************************************)
EXTENDS Integers, Sequences, FiniteSets, Functions, SequencesExt

CONSTANTS
    Threads,
    ThreadOf,    \* Runs are numbered in the order of created_at: the Thread
                 \* of each of them
    Fresh,       \* Threads that exist once their initial Run was admitted
    MaxDeltas,   \* bound: message.delta events of a Run
    MaxRequests, \* bound: getThread requests under way at a time
    MaxOpens,    \* bound: how often the user moves to another page
    MaxFailures, \* bound: how many requests fail
    Reopen,      \* whether the user may come back to a Thread, or send, while
                 \* an earlier request that shows it is under way
    Nil

ASSUME ProjectionAssumption ==
    /\ MaxDeltas \in Nat /\ MaxRequests \in Nat /\ MaxOpens \in Nat
    /\ MaxFailures \in Nat
    /\ Fresh \subseteq Threads /\ Nil \notin Threads
    /\ ThreadOf \in Seq(Threads)
    /\ Reopen \in BOOLEAN

Runs == DOMAIN ThreadOf
Slots == 1 .. MaxRequests

VARIABLES
    log,        \* external: the committed events of each Run; Nil: no such Run
    selected,   \* selectedThreadRef
    blocked,    \* accessBlockedRef
    loading,    \* an opened Thread has not been answered
    snapshot,   \* runs with the last_seq known of each, and active_run
    projections,\* projectionsByRunId
    stream,     \* the controller of streamAbortRef and its connectRun closure
    requests,   \* getThread requests under way
    create,     \* createRun or createInitialRun under way (submittingRef)
    attempt,    \* initialAttemptRef: the Run its Thread and key stand for
    cancel,     \* cancelRun under way
    opens,      \* how often the user has moved (bounded)
    failures    \* how many requests have failed (bounded)

focusVars == <<selected, blocked, loading>>
pageVars == <<focusVars, snapshot, projections, stream>>
counters == <<opens, failures>>
vars == <<log, pageVars, requests, create, attempt, cancel, counters>>

Terminal == {"completed", "failed", "cancelled"}
Statuses == Terminal \cup {"created", "running"}

\* The status of a Run whose last_seq is n: events that change the status
\* are committed together with it.
StatusAt(r, n) ==
    IF n = 0 THEN "created"
    ELSE IF log[r][n] \in Terminal THEN log[r][n] ELSE "running"

Status(r) == StatusAt(r, Len(log[r]))
Created == {r \in Runs : log[r] # Nil}
RunsOf(t) == {r \in Created : ThreadOf[r] = t}
ActiveRuns(t) == {r \in RunsOf(t) : Status(r) \notin Terminal}

DeltasUpTo(r, n) ==
    SelectSeq([i \in 1 .. n |-> i], LAMBDA i : log[r][i] = "delta")

TypeOK ==
    /\ log \in [Runs -> Seq({"started", "delta", "message"} \cup Terminal)
                           \cup {Nil}]
    /\ selected \in Threads \cup {Nil}
    /\ blocked \in BOOLEAN
    /\ loading \in BOOLEAN
    /\ snapshot = Nil \/
          /\ snapshot.thread \in Threads
          /\ DOMAIN snapshot.runs \subseteq Created
          /\ \A r \in DOMAIN snapshot.runs :
                snapshot.runs[r] \in 0 .. Len(log[r])
          /\ snapshot.active \in Created \cup {Nil}
    /\ DOMAIN projections \subseteq Created
    /\ \A r \in DOMAIN projections :
          /\ projections[r].status \in Statuses
          /\ projections[r].lastSeq \in 0 .. Len(log[r])
          /\ projections[r].connection \in {"open", "closed", "unavailable"}
          /\ projections[r].cancelling \in BOOLEAN
    /\ stream = Nil \/
          /\ stream.run \in Created
          /\ stream.afterSeq \in 0 .. Len(log[stream.run])
          /\ stream.open \in BOOLEAN
    /\ DOMAIN requests = Slots
    /\ create = Nil \/ create.seq \in Nat \cup {Nil}
    /\ attempt \in Runs \cup {Nil}
    /\ opens \in 0 .. MaxOpens
    /\ failures \in 0 .. MaxFailures

Init ==
    /\ log = [r \in Runs |-> Nil]
    /\ selected = Nil
    /\ blocked = FALSE
    /\ loading = FALSE
    /\ snapshot = Nil
    /\ projections = << >>
    /\ stream = Nil
    /\ requests = [s \in Slots |-> Nil]
    /\ create = Nil
    /\ attempt = Nil
    /\ cancel = Nil
    /\ opens = 0
    /\ failures = 0

-----------------------------------------------------------------------------
(* Projections.                                                            *)

createProjection(status) ==
    [text |-> << >>, lastSeq |-> 0, status |-> status, cancelling |-> FALSE,
     connection |-> IF status \in Terminal THEN "closed" ELSE "open"]

\* applyEvent: event i of Run r.
applyEvent(r, p, i) ==
    LET type == log[r][i] IN
    IF i <= p.lastSeq THEN p
    ELSE [p EXCEPT
            !.lastSeq = i,
            !.text = CASE type = "delta" -> Append(@, i)
                       [] type = "message" -> DeltasUpTo(r, i)
                       [] type = "failed" -> << >>
                       [] OTHER -> @,
            !.status = IF type \in Terminal THEN type
                       ELSE IF type = "started" THEN "running" ELSE @,
            !.connection = IF type \in Terminal THEN "closed" ELSE @,
            !.cancelling = @ /\ type \notin Terminal]

applyEvents(r, p, events) ==
    FoldLeft(LAMBDA q, i : applyEvent(r, q, i), p, events)

\* projectionFromSnapshot: every event of the answer is applied, then the
\* row's view and its last_seq are put over the result.
projectionFromSnapshot(r, lastSeq, events) ==
    LET view == createProjection(StatusAt(r, lastSeq)) IN
    [applyEvents(r, view, [i \in 1 .. events |-> i]) EXCEPT
        !.lastSeq = lastSeq,
        !.status = view.status,
        !.connection = view.connection]

projectionsFromSnapshot(fresh) ==
    [r \in DOMAIN fresh.rows |->
        projectionFromSnapshot(r, fresh.rows[r], fresh.events[r])]

\* Plausible bug: the answer that arrives last wins.
LatestProjection(existing, candidate) == candidate

\* Plausible bug: a newer snapshot moves the position but not the text.
MergedWithoutText(existing, candidate) ==
    IF candidate.lastSeq < existing.lastSeq THEN existing
    ELSE [candidate EXCEPT !.text = existing.text]

\* One entry of mergeProjectionMapsMonotonic.
MergedProjection(existing, candidate) ==
    LET ends == candidate.status \in Terminal IN
    CASE candidate.lastSeq < existing.lastSeq -> existing
      [] candidate.lastSeq = existing.lastSeq ->
            [existing EXCEPT
                !.text = IF @ = << >> THEN candidate.text ELSE @,
                !.status = IF ends THEN candidate.status ELSE @,
                !.connection = IF ends THEN "closed" ELSE @,
                !.cancelling = @ /\ ~ends]
      [] OTHER ->
            [candidate EXCEPT
                !.connection = IF ends THEN "closed" ELSE existing.connection,
                !.cancelling = existing.cancelling]

mergeProjectionMapsMonotonic(current, incoming) ==
    [r \in DOMAIN current \cup DOMAIN incoming |->
        IF r \notin DOMAIN incoming THEN current[r]
        ELSE IF r \notin DOMAIN current THEN incoming[r]
        ELSE MergedProjection(current[r], incoming[r])]

\* mergeThreadSnapshotMonotonic: each Run at the larger last_seq; the active
\* Run of the answer unless the page knows that it ended, and the page's own
\* one while the merged rows do not show its end and it is not the older one.
mergeThreadSnapshotMonotonic(current, base) ==
    LET seqs == [r \in DOMAIN current.runs \cup DOMAIN base.runs |->
                    IF r \notin DOMAIN base.runs THEN current.runs[r]
                    ELSE IF r \notin DOMAIN current.runs THEN base.runs[r]
                    ELSE IF base.runs[r] < current.runs[r]
                         THEN current.runs[r] ELSE base.runs[r]]
        Ends(rows, r) == StatusAt(r, rows[r]) \in Terminal
        mine == current.active
        theirs ==
            IF /\ base.active # Nil
               /\ base.active \in DOMAIN current.runs
               /\ Ends(current.runs, base.active)
               /\ current.runs[base.active] >= base.runs[base.active]
            THEN Nil ELSE base.active
        kept ==
            IF /\ mine # Nil /\ mine # theirs
               /\ mine \in DOMAIN seqs
               /\ ~Ends(seqs, mine)
               /\ theirs = Nil \/ mine >= theirs
            THEN mine ELSE theirs
        active ==
            IF /\ kept = Nil /\ mine # Nil
               /\ mine \notin DOMAIN base.runs \/ ~Ends(base.runs, mine)
            THEN mine ELSE kept
    IN  IF current = Nil \/ current.thread # base.thread THEN base
        ELSE [thread |-> base.thread, runs |-> seqs, active |-> active]

\* The answer of get_thread as a snapshot: active_run is the first active row.
SnapshotOf(fresh) ==
    LET live == {r \in DOMAIN fresh.rows :
                    StatusAt(r, fresh.rows[r]) \notin Terminal}
    IN  [thread |-> fresh.thread, runs |-> fresh.rows,
         active |-> IF live = {} THEN Nil
                    ELSE CHOOSE r \in live : \A q \in live : r <= q]

\* activeProjection: the snapshot's active Run, else any that has not ended.
ActiveRun ==
    LET open == {r \in DOMAIN projections :
                    projections[r].status \notin Terminal}
    IN  IF snapshot # Nil /\ snapshot.active # Nil
        THEN IF snapshot.active \in DOMAIN projections
             THEN snapshot.active ELSE Nil
        ELSE IF open = {} THEN Nil
             ELSE CHOOSE r \in open : \A q \in open : r <= q

Working(r) == r # Nil /\ projections[r].status \notin Terminal

Put(f, r, p) == [x \in DOMAIN f \cup {r} |-> IF x = r THEN p ELSE f[x]]

\* The free slot the next getThread request takes.
HasSlot == \E s \in Slots : requests[s] = Nil
Slot == CHOOSE s \in Slots :
            /\ requests[s] = Nil
            /\ \A q \in Slots : requests[q] = Nil => s <= q

Ask(t, kind) ==
    requests' = [requests EXCEPT ![Slot] =
                    [thread |-> t, kind |-> kind, rows |-> Nil, events |-> Nil]]

\* blockAccess: everything shown is cleared, the stream is aborted.
BlockAccess ==
    /\ blocked' = TRUE
    /\ loading' = FALSE
    /\ selected' = Nil
    /\ snapshot' = Nil
    /\ projections' = << >>
    /\ stream' = Nil

\* connectRun: the previous controller is aborted with its pending events,
\* and a cancel under way no longer owns the current one.
ConnectRun(r, p) ==
    /\ stream' = [run |-> r, afterSeq |-> p.lastSeq, pending |-> << >>,
                  open |-> TRUE]
    /\ cancel' = IF cancel = Nil THEN Nil ELSE [cancel EXCEPT !.own = FALSE]

-----------------------------------------------------------------------------
(* The server (external): admission, events, cancellation, get_thread.     *)

serverUnchanged == UNCHANGED <<pageVars, attempt, counters>>

\* create_run or create_initial_run: a Run that the key has admitted before
\* is answered as it now is; there is one active Run for each Thread.
ServerCreate ==
    /\ create # Nil /\ create.state = "sent"
    /\ LET r == create.run IN
       \/ /\ r \in Created
          /\ create' = [create EXCEPT !.state = "created", !.seq = Len(log[r])]
          /\ UNCHANGED log
       \/ /\ r \notin Created /\ ActiveRuns(create.thread) = {}
          /\ log' = [log EXCEPT ![r] = << >>]
          /\ create' = [create EXCEPT !.state = "created", !.seq = 0]
       \/ /\ r \notin Created /\ ActiveRuns(create.thread) # {}
          /\ create' = [create EXCEPT !.state = "refused"]
          /\ UNCHANGED log
    /\ UNCHANGED <<requests, cancel>>
    /\ serverUnchanged

NextEvents(r) ==
    IF log[r] = << >> THEN {<<"started">>, <<"failed">>}
    ELSE {<<"message", "completed">>, <<"failed">>}
            \cup (IF Len(DeltasUpTo(r, Len(log[r]))) < MaxDeltas
                  THEN {<<"delta">>} ELSE {})

\* The executor commits events; an answer and its end are one transaction.
ServerCommit ==
    /\ \E r \in Created :
          /\ Status(r) \notin Terminal
          /\ \E events \in NextEvents(r) :
                log' = [log EXCEPT ![r] = @ \o events]
    /\ UNCHANGED <<requests, create, cancel>>
    /\ serverUnchanged

\* cancel_run: the answer is the view of the Run as it then is.
ServerCancel ==
    /\ cancel # Nil /\ cancel.seq = Nil
    /\ LET r == cancel.run
           events == IF Status(r) \in Terminal THEN log[r]
                     ELSE Append(log[r], "cancelled")
       IN  /\ log' = [log EXCEPT ![r] = events]
           /\ cancel' = [cancel EXCEPT !.seq = Len(events)]
    /\ UNCHANGED <<requests, create>>
    /\ serverUnchanged

\* get_thread, first statement: the Run rows of the Thread.
ReadRuns ==
    /\ \E s \in Slots :
          /\ requests[s] # Nil /\ requests[s].rows = Nil
          /\ requests' = [requests EXCEPT ![s].rows =
                [r \in RunsOf(requests[s].thread) |-> Len(log[r])]]
    /\ UNCHANGED <<log, create, cancel>>
    /\ serverUnchanged

\* get_thread, last statement: the events of those Runs, each statement
\* seeing what was committed before it (READ COMMITTED).
ReadEvents ==
    /\ \E s \in Slots :
          /\ requests[s] # Nil /\ requests[s].rows # Nil
          /\ requests[s].events = Nil
          /\ requests' = [requests EXCEPT ![s].events =
                [r \in DOMAIN requests[s].rows |-> Len(log[r])]]
    /\ UNCHANGED <<log, create, cancel>>
    /\ serverUnchanged

-----------------------------------------------------------------------------
(* The page.                                                               *)

\* A request fails, or is answered with a refusal.
Fails == failures < MaxFailures /\ failures' = failures + 1

\* The Thread is being opened, or a Run of it created, by an earlier request.
Entering(t) ==
    \/ create # Nil /\ create.thread = t
    \/ \E s \in Slots : /\ requests[s] # Nil
                        /\ requests[s].thread = t /\ requests[s].kind = "open"

\* openThread.
OpenThread(t) ==
    /\ ~blocked /\ opens < MaxOpens /\ HasSlot
    /\ t \notin Fresh \/ RunsOf(t) # {}
    /\ Reopen \/ ~Entering(t)
    /\ opens' = opens + 1 /\ UNCHANGED failures
    /\ selected' = t
    /\ snapshot' = Nil
    /\ projections' = << >>
    /\ stream' = IF stream = Nil THEN Nil
                 ELSE [stream EXCEPT !.open = FALSE, !.pending = << >>]
    /\ Ask(t, "open")
    /\ UNCHANGED <<log, blocked, create, cancel, attempt>>
    /\ loading' = TRUE

\* showBlankThread.
ShowBlankThread ==
    /\ ~blocked /\ opens < MaxOpens
    /\ opens' = opens + 1 /\ UNCHANGED failures
    /\ selected' = Nil
    /\ snapshot' = Nil
    /\ projections' = << >>
    /\ stream' = IF stream = Nil THEN Nil
                 ELSE [stream EXCEPT !.open = FALSE, !.pending = << >>]
    /\ attempt' = Nil
    /\ UNCHANGED <<log, blocked, requests, create, cancel>>
    /\ loading' = FALSE

\* Plausible bug: an answer is shown whatever is selected when it arrives.
WantedAlways(s) == ~blocked

Answered(s) == requests[s] # Nil /\ requests[s].events # Nil
Wanted(s) == ~blocked /\ selected = requests[s].thread

\* The answer to openThread: shown, and its active Run is streamed.
ReceiveOpened ==
    \E s \in Slots :
        /\ Answered(s) /\ requests[s].kind = "open"
        /\ requests' = [requests EXCEPT ![s] = Nil]
        /\ loading' = (loading /\ selected # requests[s].thread)
        /\ LET fresh == requests[s]
               shown == projectionsFromSnapshot(fresh)
               run == SnapshotOf(fresh).active
           IN  IF ~Wanted(s)
               THEN UNCHANGED <<snapshot, projections, stream, cancel>>
               ELSE /\ snapshot' = SnapshotOf(fresh)
                    /\ projections' = shown
                    /\ IF run = Nil THEN UNCHANGED <<stream, cancel>>
                       ELSE ConnectRun(run, shown[run])
        /\ UNCHANGED <<log, selected, blocked, create, counters, attempt>>

\* The answer to refreshSnapshot, or to the read that follows a create.
ReceiveRefresh ==
    \E s \in Slots :
        /\ Answered(s) /\ requests[s].kind = "refresh"
        /\ requests' = [requests EXCEPT ![s] = Nil]
        /\ IF ~Wanted(s) THEN UNCHANGED <<snapshot, projections>>
           ELSE /\ snapshot' = mergeThreadSnapshotMonotonic(
                                    snapshot, SnapshotOf(requests[s]))
                /\ projections' = mergeProjectionMapsMonotonic(
                                    projections,
                                    projectionsFromSnapshot(requests[s]))
        /\ UNCHANGED <<log, focusVars, stream, create, cancel, counters, attempt>>

\* A getThread request fails; an opened Thread then shows nothing.
SnapshotFails ==
    /\ Fails
    /\ \E s \in Slots :
          /\ requests[s] # Nil
          /\ requests' = [requests EXCEPT ![s] = Nil]
          /\ loading' = (loading /\ ~(/\ requests[s].kind = "open"
                                     /\ requests[s].thread = selected))
    /\ UNCHANGED <<log, selected, blocked, snapshot, projections, stream,
                   create,
                   cancel, opens, attempt>>

\* Any answer may be 401 or 403, that of a list of Threads too, which the
\* page may be asking for at any time; a request under way stays under way.
AccessRefused ==
    /\ Fails
    /\ ~blocked
    /\ BlockAccess
    /\ UNCHANGED <<log, requests, create, cancel, opens, attempt>>

\* isCurrentStream, for the controller the model keeps: not aborted, and its
\* Thread is still the selected one.  A stream that is not current goes on
\* reading, and drops what it reads.
Streaming == stream # Nil /\ stream.open
IsCurrentStream == Streaming /\ selected = ThreadOf[stream.run]

\* flushPendingEvents: a Run that is not shown is not shown by it.
FlushPending(pending) ==
    projections' =
        IF ~IsCurrentStream \/ stream.run \notin DOMAIN projections
        THEN projections
        ELSE Put(projections, stream.run,
                 applyEvents(stream.run, projections[stream.run], pending))

\* onEvent: a terminal event flushes the batch, any other one waits for the
\* render timer.
StreamEvent ==
    /\ Streaming
    /\ stream.afterSeq < Len(log[stream.run])
    /\ LET i == stream.afterSeq + 1
           pending == IF IsCurrentStream THEN Append(stream.pending, i)
                      ELSE stream.pending
           ends == IsCurrentStream /\ log[stream.run][i] \in Terminal
       IN  /\ stream' = [stream EXCEPT !.afterSeq = i,
                            !.pending = IF ends THEN << >> ELSE pending]
           /\ FlushPending(IF ends THEN pending ELSE << >>)
    /\ UNCHANGED <<log, focusVars, snapshot, requests, create, cancel, counters,
                   attempt>>

\* flushPendingEvents, by the render timer.
RenderTimer ==
    /\ Streaming
    /\ stream.pending # << >>
    /\ stream' = [stream EXCEPT !.pending = << >>]
    /\ FlushPending(stream.pending)
    /\ UNCHANGED <<log, focusVars, snapshot, requests, create, cancel, counters,
                   attempt>>

\* streamRunEvents returns behind the terminal event: refresh the Thread.
StreamEnds ==
    /\ Streaming
    /\ stream.afterSeq > 0
    /\ StatusAt(stream.run, stream.afterSeq) \in Terminal
    /\ stream' = [stream EXCEPT !.open = FALSE, !.pending = << >>]
    /\ FlushPending(stream.pending)
    /\ IF IsCurrentStream THEN HasSlot /\ Ask(ThreadOf[stream.run], "refresh")
                          ELSE UNCHANGED requests
    /\ UNCHANGED <<log, focusVars, snapshot, create, cancel, counters, attempt>>

\* The stream is refused with another 4xx than 401 and 403: flush, and show
\* that the connection is gone.
StreamUnavailable ==
    /\ Streaming
    /\ Fails
    /\ stream' = [stream EXCEPT !.open = FALSE, !.pending = << >>]
    /\ LET r == stream.run IN
       IF IsCurrentStream /\ r \in DOMAIN projections
       THEN projections' = Put(projections, r,
               [applyEvents(r, projections[r], stream.pending) EXCEPT
                   !.connection = "unavailable"])
       ELSE UNCHANGED projections
    /\ UNCHANGED <<log, focusVars, snapshot, requests, create, cancel, opens,
                   attempt>>

\* onConnectionChange: 'connecting', 'live' or 'reconnecting', also behind
\* the terminal event when the response broke off there.
ConnectionChange ==
    /\ IsCurrentStream
    /\ stream.run \in DOMAIN projections
    /\ projections[stream.run].connection # "open"
    /\ projections' = [projections EXCEPT ![stream.run].connection = "open"]
    /\ UNCHANGED <<log, focusVars, snapshot, stream, requests, create,
                   cancel, counters, attempt>>

\* Runs are created in the order of their numbers.
IsNext(r) == \A q \in Runs \ Created : r <= q

\* startMessage in an open Thread, from the composer or, also while the
\* Thread is loading, from the retry button of a failed Run.  The model
\* names the Run the server will create: each message has a new key.
StartMessage(r) ==
    /\ ~blocked /\ create = Nil
    /\ r \notin Created /\ IsNext(r)
    /\ snapshot # Nil /\ snapshot.thread = ThreadOf[r]
    /\ ~Working(ActiveRun)
    /\ ~loading \/ \E q \in DOMAIN projections :
                      projections[q].status = "failed"
    /\ Reopen \/ ~Entering(ThreadOf[r])
    /\ create' = [run |-> r, thread |-> ThreadOf[r], initial |-> FALSE,
                  state |-> "sent", seq |-> Nil]
    /\ UNCHANGED <<log, pageVars, requests, attempt, cancel, counters>>

\* startMessage without an open Thread: a new Thread is selected at once.
\* The message of an attempt that was never answered is sent again with its
\* Thread and key, and so stands for the same Run.
StartInitial(r) ==
    /\ ~blocked /\ create = Nil
    /\ r = attempt \/ (r \notin Created /\ IsNext(r))
    /\ snapshot = Nil /\ ~loading /\ ThreadOf[r] \in Fresh
    /\ Reopen \/ ~Entering(ThreadOf[r])
    /\ create' = [run |-> r, thread |-> ThreadOf[r], initial |-> TRUE,
                  state |-> "sent", seq |-> Nil]
    /\ attempt' = r
    /\ selected' = ThreadOf[r]
    /\ snapshot' = [thread |-> ThreadOf[r], runs |-> << >>, active |-> Nil]
    /\ projections' = << >>
    /\ UNCHANGED <<log, blocked, loading, stream, requests, cancel, counters>>

\* The create request is answered with the Run: shown from event 0 and
\* streamed, and the Thread is read in the background.
CreateAnswered ==
    /\ create # Nil /\ create.state = "created"
    /\ create' = Nil
    /\ attempt' = IF create.initial /\ ~blocked THEN Nil ELSE attempt
    /\ LET r == create.run
           here == selected = create.thread
           first == createProjection(StatusAt(r, create.seq))
           open == snapshot # Nil /\ snapshot.thread = create.thread
       IN  /\ IF here /\ ~blocked
              THEN /\ projections' = Put(projections, r, first)
                   /\ snapshot' =
                        CASE create.initial ->
                               [thread |-> create.thread, active |-> r,
                                runs |-> Put(<< >>, r, create.seq)]
                          [] ~create.initial /\ open ->
                               [snapshot EXCEPT
                                  !.runs = IF r \in DOMAIN @ THEN @
                                           ELSE Put(@, r, create.seq),
                                  !.active = r]
                          [] OTHER -> snapshot
                   /\ IF first.status \in Terminal
                      THEN UNCHANGED <<stream, cancel>>
                      ELSE ConnectRun(r, first)
              ELSE UNCHANGED <<projections, snapshot, stream, cancel>>
           /\ IF blocked \/ (create.initial /\ ~here) THEN UNCHANGED requests
              ELSE HasSlot /\ Ask(create.thread, "refresh")
    /\ UNCHANGED <<log, focusVars, counters>>

\* The create request is refused, or its answer is lost: the optimistic
\* state is taken back.  Only a refusal ends the attempt.
CreateFails ==
    /\ create # Nil
    /\ \/ create.state = "refused" /\ UNCHANGED failures
       \/ Fails
    /\ create' = Nil
    /\ IF create.initial /\ ~blocked
       THEN /\ attempt' = IF create.state = "refused" THEN Nil ELSE attempt
            /\ snapshot' = IF snapshot # Nil /\ snapshot.thread = create.thread
                           THEN Nil ELSE snapshot
            /\ IF selected = create.thread
               THEN selected' = Nil /\ projections' = << >>
               ELSE UNCHANGED <<selected, projections>>
       ELSE UNCHANGED <<snapshot, selected, projections, attempt>>
    /\ UNCHANGED <<log, blocked, loading, stream, requests, cancel, opens>>

\* stopRun.
StopRun ==
    /\ ~blocked /\ cancel = Nil
    /\ Working(ActiveRun)
    /\ ~projections[ActiveRun].cancelling
    /\ cancel' = [run |-> ActiveRun, seq |-> Nil, own |-> TRUE]
    /\ projections' = [projections EXCEPT ![ActiveRun].cancelling = TRUE]
    /\ UNCHANGED <<log, focusVars, snapshot, stream, requests, create, counters,
                   attempt>>

\* The cancel request is answered: the Run's view is replaced, its lastSeq
\* and text are not; a cancelled Run's stream is aborted and the Thread read.
StopAnswered ==
    /\ cancel # Nil /\ cancel.seq # Nil
    /\ cancel' = Nil
    /\ LET r == cancel.run
           status == StatusAt(r, cancel.seq)
           over == status = "cancelled"
           mine == over /\ selected = ThreadOf[r] /\ cancel.own
       IN  IF blocked THEN UNCHANGED <<projections, stream, requests>>
           ELSE /\ projections' =
                     IF r \notin DOMAIN projections THEN projections
                     ELSE [projections EXCEPT ![r] =
                             [@ EXCEPT
                                !.status = status,
                                !.cancelling = ~over,
                                !.connection = IF over THEN "closed" ELSE @]]
                /\ IF mine
                   THEN /\ stream' = IF stream = Nil THEN Nil
                                     ELSE [stream EXCEPT !.open = FALSE,
                                                         !.pending = << >>]
                        /\ HasSlot /\ Ask(ThreadOf[r], "refresh")
                   ELSE UNCHANGED <<stream, requests>>
    /\ UNCHANGED <<log, focusVars, snapshot, create, counters, attempt>>

\* The cancel request fails: the Run may be stopped again.
StopFails ==
    /\ cancel # Nil
    /\ Fails
    /\ cancel' = Nil
    /\ projections' =
          IF blocked \/ cancel.run \notin DOMAIN projections THEN projections
          ELSE [projections EXCEPT ![cancel.run].cancelling = FALSE]
    /\ UNCHANGED <<log, focusVars, snapshot, stream, requests, create, opens,
                   attempt>>

Server ==
    \/ ServerCreate \/ ServerCommit \/ ServerCancel \/ ReadRuns \/ ReadEvents

Next ==
    \/ Server
    \/ \E t \in Threads : OpenThread(t)
    \/ ShowBlankThread
    \/ ReceiveOpened \/ ReceiveRefresh \/ SnapshotFails \/ AccessRefused
    \/ StreamEvent \/ RenderTimer \/ StreamEnds \/ StreamUnavailable
    \/ ConnectionChange
    \/ \E r \in Runs : StartMessage(r)
    \/ \E r \in Runs : StartInitial(r)
    \/ CreateAnswered \/ CreateFails
    \/ StopRun \/ StopAnswered \/ StopFails

Spec == Init /\ [][Next]_vars

-----------------------------------------------------------------------------
(* Properties.                                                             *)

\* Every Run the page shows belongs to the selected Thread, and
\* a page whose access was refused shows nothing: no answer that arrives
\* late, for another Thread or after blockAccess, is shown.
ShownIsSelected ==
    /\ \A r \in DOMAIN projections : ThreadOf[r] = selected
    /\ snapshot # Nil => snapshot.thread = selected
    /\ blocked => projections = << >> /\ snapshot = Nil

\* The text shown of a Run holds every delta up to the event the projection
\* stands at, so no merge, flush or reconnect loses streamed text; a Run
\* shown completed at its last event shows exactly the committed answer, and
\* a failed one none.  (Of a Run that has failed since, the text may be gone
\* before the projection gets to that event.)  It holds while Reopen is FALSE,
\* that is, while no Thread is opened again with its first answer under way:
\* there the code does lose text, see the README.
NoTextLost ==
    \A r \in DOMAIN projections :
        LET p == projections[r]
            owed == DeltasUpTo(r, p.lastSeq)
        IN  IF p.lastSeq = 0 THEN TRUE
            ELSE CASE log[r][p.lastSeq] = "failed" -> p.text = << >>
                   [] log[r][p.lastSeq] = "completed" -> p.text = owed
                   [] OTHER -> Status(r) = "failed" \/
                               Range(owed) \subseteq Range(p.text)

\* The text shown of a Run holds no delta twice: the client "deduplicates
\* every validated sequence" (docs/contracts/events.md:293), whichever of
\* stream and snapshot brought it first.  Not kept by the code: see the README.
NoRepeatedText ==
    \A r \in DOMAIN projections : IsInjective(projections[r].text)

\* A Run shown as working is being streamed, is said to be unavailable, or
\* an answer that will settle it is under way: while no request fails, no
\* interleaving of snapshots, streams and cancels leaves the composer waiting
\* for nothing.
NoSilentStall ==
    failures = 0 => \A r \in DOMAIN projections :
        projections[r].status \notin Terminal =>
            \/ IsCurrentStream /\ stream.run = r
            \/ projections[r].connection = "unavailable"
            \/ \E s \in Slots : requests[s] # Nil
            \/ create # Nil \/ cancel # Nil

\* The steps that show a Run anew, from what one answer says of it.
Restarts(r) ==
    \/ create # Nil /\ create' = Nil /\ create.run = r
    \/ opens' # opens
    \/ \E s \in Slots : /\ requests[s] # Nil /\ requests[s].kind = "open"
                        /\ requests'[s] = Nil

\* A terminal event that was applied is final: no refresh, flush, connection
\* change or cancel answer, however late, takes the projection back.  Only
\* the answer to openThread or to the Run's own create request, which the
\* page shows without a merge, starts it again, together with its stream.
TerminalEventIsFinal ==
    [][\A r \in DOMAIN projections \cap DOMAIN projections' :
          LET p == projections[r] IN
          /\ p.lastSeq > 0
          /\ log[r][p.lastSeq] \in Terminal
          /\ ~Restarts(r)
          => /\ projections'[r].lastSeq = p.lastSeq
             /\ projections'[r].status = log[r][p.lastSeq]
             /\ projections'[r].text = p.text]_vars
=============================================================================
