------------------------ MODULE ClientProjectionProofs ------------------------
(***************************************************************************)
(* A proof about what the page shows, for every number of Threads, Runs,   *)
(* requests under way, moves of the user and failures, and also when the   *)
(* user comes back to a Thread that is still being opened.                 *)
(***************************************************************************)
EXTENDS ClientProjection, TLAPS

-----------------------------------------------------------------------------
(* The inductive invariant *)

\* The Runs the page shows are of the selected Thread.
RunsAreSelected == \A r \in DOMAIN projections : ThreadOf[r] = selected

\* The snapshot is a record and of the selected Thread.
SnapshotIsSelected ==
    snapshot # Nil => /\ DOMAIN snapshot = {"thread", "runs", "active"}
                      /\ snapshot.thread = selected

BlockedIsEmpty == blocked => projections = << >> /\ snapshot = Nil

\* The request q was read for its own Thread.
OwnThread(q) ==
    /\ DOMAIN q = {"thread", "kind", "rows", "events"}
    /\ q.rows = Nil => q.events = Nil
    /\ q.rows # Nil => \A r \in DOMAIN q.rows : ThreadOf[r] = q.thread

ReadsOwnThread ==
    /\ DOMAIN requests = Slots
    /\ \A s \in Slots : requests[s] # Nil => OwnThread(requests[s])

\* A create request names the Thread of its Run.
CreatesOwnThread ==
    create # Nil =>
        /\ DOMAIN create = {"run", "thread", "initial", "state", "seq"}
        /\ ThreadOf[create.run] = create.thread

ShownInvariant ==
    /\ RunsAreSelected /\ SnapshotIsSelected /\ BlockedIsEmpty
    /\ ReadsOwnThread /\ CreatesOwnThread

-----------------------------------------------------------------------------
(* Requests *)

(* A new request has read nothing. *)
LEMMA AskKeeps ==
  ASSUME ReadsOwnThread, NEW t, NEW kind, Ask(t, kind)
  PROVE  ReadsOwnThread'
<1> DEFINE q == [thread |-> t, kind |-> kind, rows |-> Nil, events |-> Nil]
<1>1. OwnThread(q)
  BY DEF OwnThread
<1> HIDE DEF q
<1>2. requests' = [requests EXCEPT ![Slot] = q]
  BY DEF Ask, q
<1>3. DOMAIN requests' = Slots
      /\ \A s \in Slots : requests'[s] = q \/ requests'[s] = requests[s]
  BY <1>2 DEF ReadsOwnThread
<1>4. \A s \in Slots : requests'[s] # Nil => OwnThread(requests'[s])
  BY <1>1, <1>3 DEF ReadsOwnThread
<1> QED BY <1>3, <1>4 DEF ReadsOwnThread, OwnThread, Slots

(* A request that ends leaves the others as they are. *)
LEMMA EndKeeps ==
  ASSUME ReadsOwnThread, NEW s \in Slots, requests' = [requests EXCEPT ![s] = Nil]
  PROVE  ReadsOwnThread'
<1>1. DOMAIN requests' = Slots
      /\ \A x \in Slots : requests'[x] = Nil \/ requests'[x] = requests[x]
  BY DEF ReadsOwnThread
<1>2. \A x \in Slots : requests'[x] # Nil => OwnThread(requests'[x])
  BY <1>1 DEF ReadsOwnThread
<1> QED BY <1>1, <1>2 DEF ReadsOwnThread, OwnThread, Slots

(* The first statement of get_thread reads the Runs of the Thread asked for. *)
LEMMA ReadRunsKeeps ==
  ASSUME ReadsOwnThread, ReadRuns
  PROVE  ReadsOwnThread'
<1>1. PICK s \in Slots :
        /\ requests[s] # Nil /\ requests[s].rows = Nil
        /\ requests' = [requests EXCEPT ![s].rows =
              [r \in RunsOf(requests[s].thread) |-> Len(log[r])]]
  BY DEF ReadRuns
<1>2. PICK q : q = requests[s]
  OBVIOUS
<1>3. PICK rows : rows = [r \in RunsOf(q.thread) |-> Len(log[r])]
  OBVIOUS
<1>4. OwnThread(q) /\ q.rows = Nil
  BY <1>1, <1>2 DEF ReadsOwnThread
<1>5. \A r \in DOMAIN rows : ThreadOf[r] = q.thread
  BY <1>3 DEF RunsOf
<1>6. PICK p : p = [q EXCEPT !.rows = rows]
  OBVIOUS
<1>7. OwnThread(p)
  <2>1. DOMAIN p = {"thread", "kind", "rows", "events"} /\ p.rows = rows
        /\ p.thread = q.thread /\ p.events = q.events
    BY <1>4, <1>6 DEF OwnThread
  <2> QED BY <1>4, <1>5, <2>1 DEF OwnThread
<1>8. DOMAIN requests' = Slots
      /\ \A x \in Slots : requests'[x] = IF x = s THEN p ELSE requests[x]
  BY <1>1, <1>2, <1>3, <1>6 DEF ReadsOwnThread
<1>9. \A x \in Slots : requests'[x] # Nil => OwnThread(requests'[x])
  BY <1>7, <1>8 DEF ReadsOwnThread
<1> QED BY <1>8, <1>9 DEF ReadsOwnThread, OwnThread, Slots

(* The last statement reads the events of those Runs. *)
LEMMA ReadEventsKeeps ==
  ASSUME ReadsOwnThread, ReadEvents
  PROVE  ReadsOwnThread'
<1>1. PICK s \in Slots :
        /\ requests[s] # Nil /\ requests[s].rows # Nil
        /\ requests' = [requests EXCEPT ![s].events =
              [r \in DOMAIN requests[s].rows |-> Len(log[r])]]
  BY DEF ReadEvents
<1>2. PICK q : q = requests[s]
  OBVIOUS
<1>3. PICK events : events = [r \in DOMAIN q.rows |-> Len(log[r])]
  OBVIOUS
<1>4. OwnThread(q) /\ q.rows # Nil
  BY <1>1, <1>2 DEF ReadsOwnThread
<1>6. PICK p : p = [q EXCEPT !.events = events]
  OBVIOUS
<1>7. OwnThread(p)
  <2>1. DOMAIN p = {"thread", "kind", "rows", "events"} /\ p.rows = q.rows
        /\ p.thread = q.thread
    BY <1>4, <1>6 DEF OwnThread
  <2> QED BY <1>4, <2>1 DEF OwnThread
<1>8. DOMAIN requests' = Slots
      /\ \A x \in Slots : requests'[x] = IF x = s THEN p ELSE requests[x]
  BY <1>1, <1>2, <1>3, <1>6 DEF ReadsOwnThread
<1>9. \A x \in Slots : requests'[x] # Nil => OwnThread(requests'[x])
  BY <1>7, <1>8 DEF ReadsOwnThread
<1> QED BY <1>8, <1>9 DEF ReadsOwnThread, OwnThread, Slots

(* Every step keeps the requests to their own Threads. *)
LEMMA ReadsStep ==
  ASSUME ReadsOwnThread, [Next]_vars
  PROVE  ReadsOwnThread'
<1>1. CASE UNCHANGED requests
  BY <1>1 DEF ReadsOwnThread, OwnThread, Slots
<1>2. CASE ReadRuns
  BY <1>2, ReadRunsKeeps
<1>3. CASE ReadEvents
  BY <1>3, ReadEventsKeeps
<1>4. ASSUME NEW t, NEW kind, Ask(t, kind) PROVE ReadsOwnThread'
  BY <1>4, AskKeeps
<1>5. ASSUME NEW s \in Slots, requests' = [requests EXCEPT ![s] = Nil] PROVE ReadsOwnThread'
  BY <1>5, EndKeeps
<1>6. CASE ServerCreate \/ ServerCommit \/ ServerCancel
  BY <1>1, <1>6 DEF ServerCreate, ServerCommit, ServerCancel
<1>7. CASE \E t \in Threads : OpenThread(t)
  BY <1>4, <1>7 DEF OpenThread
<1>8. CASE ReceiveOpened \/ ReceiveRefresh \/ SnapshotFails
  BY <1>5, <1>8 DEF ReceiveOpened, ReceiveRefresh, SnapshotFails
<1>9. CASE ShowBlankThread \/ AccessRefused \/ StreamEvent \/ RenderTimer \/ StreamUnavailable
           \/ ConnectionChange
  BY <1>1, <1>9 DEF ShowBlankThread, AccessRefused, StreamEvent, RenderTimer,
                    StreamUnavailable, ConnectionChange
<1>10. CASE StreamEnds
  BY <1>1, <1>4, <1>10 DEF StreamEnds
<1>11. CASE \E r \in Runs : StartMessage(r) \/ StartInitial(r)
  BY <1>1, <1>11 DEF StartMessage, StartInitial
<1>12. CASE CreateAnswered
  BY <1>1, <1>4, <1>12 DEF CreateAnswered
<1>13. CASE CreateFails \/ StopRun \/ StopFails
  BY <1>1, <1>13 DEF CreateFails, StopRun, StopFails
<1>14. CASE StopAnswered
  BY <1>1, <1>4, <1>14 DEF StopAnswered
<1>15. CASE UNCHANGED vars
  BY <1>1, <1>15 DEF vars
<1> QED BY <1>2, <1>3, <1>6, <1>7, <1>8, <1>9, <1>10, <1>11, <1>12, <1>13, <1>14, <1>15
        DEF Next, Server

(* Every step keeps the create request to the Thread of its Run. *)
LEMMA CreatesStep ==
  ASSUME CreatesOwnThread, [Next]_vars
  PROVE  CreatesOwnThread'
<1>1. CASE UNCHANGED create
  BY <1>1 DEF CreatesOwnThread
<1>2. CASE create' = Nil
  BY <1>2 DEF CreatesOwnThread
<1>3. CASE ServerCreate
  <2>1. create # Nil
    BY <1>3 DEF ServerCreate
  <2>2. PICK c : c = create
    OBVIOUS
  <2>3. DOMAIN c = {"run", "thread", "initial", "state", "seq"} /\ ThreadOf[c.run] = c.thread
    BY <2>1, <2>2 DEF CreatesOwnThread
  <2>4. (\E q : create' = [c EXCEPT !.state = "created", !.seq = q])
        \/ create' = [c EXCEPT !.state = "refused"]
    BY <1>3, <2>2 DEF ServerCreate
  <2>5. DOMAIN create' = DOMAIN c /\ create'.run = c.run /\ create'.thread = c.thread
    BY <2>3, <2>4
  <2> QED BY <2>3, <2>5 DEF CreatesOwnThread
<1>4. CASE \E r \in Runs : StartMessage(r) \/ StartInitial(r)
  BY <1>4 DEF StartMessage, StartInitial, CreatesOwnThread
<1>5. CASE ServerCommit \/ ServerCancel \/ ReadRuns \/ ReadEvents
  BY <1>1, <1>5 DEF ServerCommit, ServerCancel, ReadRuns, ReadEvents
<1>6. CASE (\E t \in Threads : OpenThread(t)) \/ ShowBlankThread \/ ReceiveOpened
           \/ ReceiveRefresh \/ SnapshotFails \/ AccessRefused
  BY <1>1, <1>6 DEF OpenThread, ShowBlankThread, ReceiveOpened, ReceiveRefresh,
                    SnapshotFails, AccessRefused
<1>7. CASE StreamEvent \/ RenderTimer \/ StreamEnds \/ StreamUnavailable \/ ConnectionChange
  BY <1>1, <1>7 DEF StreamEvent, RenderTimer, StreamEnds, StreamUnavailable, ConnectionChange
<1>8. CASE CreateAnswered \/ CreateFails
  BY <1>2, <1>8 DEF CreateAnswered, CreateFails
<1>9. CASE StopRun \/ StopAnswered \/ StopFails \/ UNCHANGED vars
  BY <1>1, <1>9 DEF StopRun, StopAnswered, StopFails, vars
<1> QED BY <1>3, <1>4, <1>5, <1>6, <1>7, <1>8, <1>9 DEF Next, Server

-----------------------------------------------------------------------------
(* What is shown *)

Shown == RunsAreSelected /\ SnapshotIsSelected /\ BlockedIsEmpty

\* No Run is added to the page or taken from it, and the Thread stays.
SameRuns ==
    /\ DOMAIN projections' = DOMAIN projections
    /\ blocked /\ projections = << >> => projections' = << >>
    /\ UNCHANGED <<snapshot, selected, blocked>>

(* The same Runs of the same Thread. *)
LEMMA SameRunsKeep ==
  ASSUME Shown, SameRuns
  PROVE  Shown'
BY DEF Shown, SameRuns, RunsAreSelected, SnapshotIsSelected, BlockedIsEmpty

(* An empty page shows nothing of another Thread. *)
LEMMA EmptyPage ==
  ASSUME projections' = << >>, snapshot' = Nil
  PROVE  Shown'
BY DEF Shown, RunsAreSelected, SnapshotIsSelected, BlockedIsEmpty

(* Events are applied to Runs that are shown already. *)
LEMMA FlushKeeps ==
  ASSUME NEW pending, FlushPending(pending), UNCHANGED <<snapshot, selected, blocked>>
  PROVE  SameRuns
<1>1. CASE projections' = projections
  BY <1>1 DEF SameRuns
<1>2. CASE stream.run \in DOMAIN projections
           /\ \E p : projections' = Put(projections, stream.run, p)
  <2>1. DOMAIN projections' = DOMAIN projections
    BY <1>2 DEF Put
  <2>2. projections # << >>
    BY <1>2
  <2> QED BY <2>1, <2>2 DEF SameRuns
<1> QED BY <1>1, <1>2 DEF FlushPending

(* The server, and the steps of a stream. *)
LEMMA ServerAndStreamSteps ==
  ASSUME Server \/ SnapshotFails \/ StreamEvent \/ RenderTimer \/ StreamEnds
         \/ StreamUnavailable \/ ConnectionChange
  PROVE  SameRuns
<1>1. CASE Server
  BY <1>1 DEF Server, ServerCreate, ServerCommit, ServerCancel, ReadRuns, ReadEvents,
              serverUnchanged, pageVars, focusVars, SameRuns
<1>2. CASE SnapshotFails
  BY <1>2 DEF SnapshotFails, SameRuns
<1>3. CASE StreamEvent
  <2>1. UNCHANGED <<snapshot, selected, blocked>> /\ \E pending : FlushPending(pending)
    BY <1>3 DEF StreamEvent, focusVars
  <2> QED BY <2>1, FlushKeeps
<1>4. CASE RenderTimer \/ StreamEnds
  <2>1. UNCHANGED <<snapshot, selected, blocked>> /\ FlushPending(stream.pending)
    BY <1>4 DEF RenderTimer, StreamEnds, focusVars
  <2> QED BY <2>1, FlushKeeps
<1>5. CASE StreamUnavailable
  <2>1. UNCHANGED <<snapshot, selected, blocked>>
    BY <1>5 DEF StreamUnavailable, focusVars
  <2>2. CASE UNCHANGED projections
    BY <2>1, <2>2 DEF SameRuns
  <2>3. CASE stream.run \in DOMAIN projections
             /\ \E p : projections' = Put(projections, stream.run, p)
    <3>1. DOMAIN projections' = DOMAIN projections
      BY <2>3 DEF Put
    <3>2. projections # << >>
      BY <2>3
    <3> QED BY <2>1, <3>1, <3>2 DEF SameRuns
  <2> QED BY <1>5, <2>2, <2>3 DEF StreamUnavailable
<1>6. CASE ConnectionChange
  <2>1. /\ stream.run \in DOMAIN projections /\ UNCHANGED <<snapshot, selected, blocked>>
        /\ projections' = [projections EXCEPT ![stream.run].connection = "open"]
    BY <1>6 DEF ConnectionChange, focusVars
  <2>2. DOMAIN projections' = DOMAIN projections /\ projections # << >>
    BY <2>1
  <2> QED BY <2>1, <2>2 DEF SameRuns
<1> QED BY <1>1, <1>2, <1>3, <1>4, <1>5, <1>6

(* stopRun and the answer to it change the view of a Run that is shown. *)
LEMMA StopSteps ==
  ASSUME Shown, StopRun \/ StopAnswered \/ StopFails
  PROVE  SameRuns
<1>1. CASE StopRun
  <2>1. /\ ~blocked /\ UNCHANGED <<snapshot, selected, blocked>>
        /\ projections' = [projections EXCEPT ![ActiveRun].cancelling = TRUE]
    BY <1>1 DEF StopRun, focusVars
  <2>2. DOMAIN projections' = DOMAIN projections
    BY <2>1
  <2> QED BY <2>1, <2>2 DEF SameRuns
<1>2. CASE StopAnswered
  <2>1. /\ UNCHANGED <<snapshot, selected, blocked>>
        /\ \/ projections' = projections
           \/ cancel.run \in DOMAIN projections /\ ~blocked
              /\ \E v : projections' = [projections EXCEPT ![cancel.run] = v]
    BY <1>2 DEF StopAnswered, focusVars
  <2> QED BY <2>1 DEF SameRuns
<1>3. CASE StopFails
  <2>1. /\ UNCHANGED <<snapshot, selected, blocked>>
        /\ \/ projections' = projections
           \/ ~blocked /\ projections' = [projections EXCEPT ![cancel.run].cancelling = FALSE]
    BY <1>3 DEF StopFails, focusVars
  <2>2. DOMAIN projections' = DOMAIN projections
    BY <2>1
  <2> QED BY <2>1, <2>2 DEF SameRuns
<1> QED BY <1>1, <1>2, <1>3

(* An answer of getThread is shown only on the page of its Thread, and     *)
(* names Runs of that Thread only.                                         *)
LEMMA AnswerSteps ==
  ASSUME Shown, ReadsOwnThread, ReceiveOpened \/ ReceiveRefresh
  PROVE  Shown'
<1>0. UNCHANGED <<selected, blocked>>
  BY DEF ReceiveOpened, ReceiveRefresh, focusVars
<1>1. PICK s \in Slots :
        /\ Answered(s)
        /\ \/ UNCHANGED <<snapshot, projections>>
           \/ /\ Wanted(s) /\ snapshot' = SnapshotOf(requests[s])
              /\ projections' = projectionsFromSnapshot(requests[s])
           \/ /\ Wanted(s)
              /\ snapshot' = mergeThreadSnapshotMonotonic(snapshot, SnapshotOf(requests[s]))
              /\ projections' = mergeProjectionMapsMonotonic(
                                  projections, projectionsFromSnapshot(requests[s]))
  <2>1. CASE ReceiveOpened
    BY <2>1 DEF ReceiveOpened
  <2>2. CASE ReceiveRefresh
    BY <2>2 DEF ReceiveRefresh
  <2> QED BY <2>1, <2>2
<1>2. CASE UNCHANGED <<snapshot, projections>>
  <2>1. SameRuns
    BY <1>0, <1>2 DEF SameRuns
  <2> QED BY <2>1, SameRunsKeep
<1>3. CASE Wanted(s) /\ ~(UNCHANGED <<snapshot, projections>>)
  <2>1. PICK q : q = requests[s]
    OBVIOUS
  <2>2. PICK base : base = SnapshotOf(q)
    OBVIOUS
  <2>3. PICK fresh : fresh = projectionsFromSnapshot(q)
    OBVIOUS
  <2>4. ~blocked /\ q.thread = selected
    BY <1>3, <2>1 DEF Wanted
  <2>5. \A r \in DOMAIN q.rows : ThreadOf[r] = selected
    <3>1. q # Nil /\ q.events # Nil
      BY <1>1, <2>1 DEF Answered
    <3>2. OwnThread(q)
      BY <2>1, <3>1 DEF ReadsOwnThread
    <3> QED BY <2>4, <3>1, <3>2 DEF OwnThread
  <2>6. DOMAIN fresh = DOMAIN q.rows
    BY <2>3 DEF projectionsFromSnapshot
  <2>7. DOMAIN base = {"thread", "runs", "active"} /\ base.thread = selected
    BY <2>2, <2>4 DEF SnapshotOf
  <2>8. CASE snapshot' = base /\ projections' = fresh
    <3>1. RunsAreSelected'
      BY <1>0, <2>5, <2>6, <2>8 DEF RunsAreSelected
    <3>2. SnapshotIsSelected'
      BY <1>0, <2>7, <2>8 DEF SnapshotIsSelected
    <3> QED BY <1>0, <2>4, <3>1, <3>2 DEF Shown, BlockedIsEmpty
  <2>9. CASE snapshot' = mergeThreadSnapshotMonotonic(snapshot, base)
             /\ projections' = mergeProjectionMapsMonotonic(projections, fresh)
    <3>1. snapshot' = base \/ \E rs, a : snapshot' = [thread |-> base.thread, runs |-> rs,
                                                      active |-> a]
      BY <2>9 DEF mergeThreadSnapshotMonotonic
    <3>2. DOMAIN snapshot' = {"thread", "runs", "active"} /\ snapshot'.thread = selected
      BY <2>7, <3>1
    <3>3. DOMAIN projections' = DOMAIN projections \cup DOMAIN fresh
      BY <2>9 DEF mergeProjectionMapsMonotonic
    <3>4. RunsAreSelected'
      BY <1>0, <2>5, <2>6, <3>3 DEF Shown, RunsAreSelected
    <3>5. SnapshotIsSelected'
      BY <1>0, <3>2 DEF SnapshotIsSelected
    <3> QED BY <1>0, <2>4, <3>4, <3>5 DEF Shown, BlockedIsEmpty
  <2> QED BY <1>1, <1>3, <2>1, <2>2, <2>3, <2>8, <2>9
<1> QED BY <1>1, <1>2, <1>3

(* The answer to a create request shows its Run on the page of its Thread. *)
LEMMA CreateAnsweredStep ==
  ASSUME Shown, CreatesOwnThread, CreateAnswered
  PROVE  Shown'
<1>0. UNCHANGED <<selected, blocked>> /\ create # Nil
  BY DEF CreateAnswered, focusVars
<1>1. CASE ~(selected = create.thread /\ ~blocked)
  <2>1. UNCHANGED <<projections, snapshot>>
    BY <1>1 DEF CreateAnswered
  <2>2. SameRuns
    BY <1>0, <2>1 DEF SameRuns
  <2> QED BY <2>2, SameRunsKeep
<1>2. CASE selected = create.thread /\ ~blocked
  <2>1. PICK r : r = create.run
    OBVIOUS
  <2>2. ThreadOf[r] = selected
    BY <1>0, <1>2, <2>1 DEF CreatesOwnThread
  <2>3. \E p : projections' = Put(projections, r, p)
    BY <1>2, <2>1 DEF CreateAnswered
  <2>4. DOMAIN projections' = DOMAIN projections \cup {r}
    BY <2>3 DEF Put
  <2>5. RunsAreSelected'
    BY <1>0, <2>2, <2>4 DEF Shown, RunsAreSelected
  <2>6. \/ snapshot' = snapshot
        \/ \E rs : snapshot' = [thread |-> create.thread, active |-> r, runs |-> rs]
        \/ snapshot # Nil /\ \E rs : snapshot' = [snapshot EXCEPT !.runs = rs, !.active = r]
    BY <1>2, <2>1 DEF CreateAnswered
  <2>7. SnapshotIsSelected'
    <3>1. CASE snapshot' = snapshot
      BY <1>0, <3>1 DEF Shown, SnapshotIsSelected
    <3>2. CASE \E rs : snapshot' = [thread |-> create.thread, active |-> r, runs |-> rs]
      BY <1>0, <1>2, <3>2 DEF SnapshotIsSelected
    <3>3. CASE snapshot # Nil /\ \E rs : snapshot' = [snapshot EXCEPT !.runs = rs, !.active = r]
      <4>1. PICK x : x = snapshot
        OBVIOUS
      <4>2. DOMAIN x = {"thread", "runs", "active"} /\ x.thread = selected
        BY <3>3, <4>1 DEF Shown, SnapshotIsSelected
      <4>3. PICK rs : snapshot' = [x EXCEPT !.runs = rs, !.active = r]
        BY <3>3, <4>1
      <4>4. DOMAIN snapshot' = {"thread", "runs", "active"} /\ snapshot'.thread = selected
        BY <4>2, <4>3
      <4> QED BY <1>0, <4>4 DEF SnapshotIsSelected
    <3> QED BY <2>6, <3>1, <3>2, <3>3
  <2> QED BY <1>0, <1>2, <2>5, <2>7 DEF Shown, BlockedIsEmpty
<1> QED BY <1>1, <1>2

(* A failed create request takes back what was shown of its Thread. *)
LEMMA CreateFailsStep ==
  ASSUME Shown, CreateFails
  PROVE  Shown'
<1>0. UNCHANGED blocked
  BY DEF CreateFails
<1>1. CASE ~(create.initial /\ ~blocked)
  <2>1. SameRuns
    BY <1>0, <1>1 DEF CreateFails, SameRuns
  <2> QED BY <2>1, SameRunsKeep
<1>2. CASE create.initial /\ ~blocked /\ selected = create.thread
  <2>1. projections' = << >>
    BY <1>2 DEF CreateFails
  <2>2. snapshot' = Nil
    BY <1>2 DEF CreateFails, Shown, SnapshotIsSelected
  <2> QED BY <2>1, <2>2, EmptyPage
<1>3. CASE create.initial /\ ~blocked /\ selected # create.thread
  <2>1. UNCHANGED <<selected, projections, snapshot>>
    BY <1>3 DEF CreateFails, Shown, SnapshotIsSelected
  <2>2. SameRuns
    BY <1>0, <2>1 DEF SameRuns
  <2> QED BY <2>2, SameRunsKeep
<1> QED BY <1>1, <1>2, <1>3

(* A first message selects its new Thread, of which nothing is shown yet. *)
LEMMA StartSteps ==
  ASSUME Shown, NEW r \in Runs, StartMessage(r) \/ StartInitial(r)
  PROVE  Shown'
<1>1. CASE StartMessage(r)
  <2>1. SameRuns
    BY <1>1 DEF StartMessage, pageVars, focusVars, SameRuns
  <2> QED BY <2>1, SameRunsKeep
<1>2. CASE StartInitial(r)
  <2>1. ~blocked /\ UNCHANGED blocked /\ projections' = << >> /\ selected' = ThreadOf[r]
        /\ snapshot' = [thread |-> ThreadOf[r], runs |-> << >>, active |-> Nil]
    BY <1>2 DEF StartInitial
  <2> QED BY <2>1 DEF Shown, RunsAreSelected, SnapshotIsSelected, BlockedIsEmpty
<1> QED BY <1>1, <1>2

(* Every step keeps what is shown to the selected Thread. *)
LEMMA ShownStep ==
  ASSUME Shown, ReadsOwnThread, CreatesOwnThread, [Next]_vars
  PROVE  Shown'
<1>1. CASE Server \/ SnapshotFails \/ StreamEvent \/ RenderTimer \/ StreamEnds
           \/ StreamUnavailable \/ ConnectionChange
  BY <1>1, ServerAndStreamSteps, SameRunsKeep
<1>2. CASE StopRun \/ StopAnswered \/ StopFails
  BY <1>2, StopSteps, SameRunsKeep
<1>3. CASE ReceiveOpened \/ ReceiveRefresh
  BY <1>3, AnswerSteps
<1>4. CASE CreateAnswered
  BY <1>4, CreateAnsweredStep
<1>5. CASE CreateFails
  BY <1>5, CreateFailsStep
<1>6. ASSUME NEW r \in Runs, StartMessage(r) \/ StartInitial(r) PROVE Shown'
  BY <1>6, StartSteps
<1>7. CASE (\E t \in Threads : OpenThread(t)) \/ ShowBlankThread \/ AccessRefused
  <2>1. projections' = << >> /\ snapshot' = Nil
    BY <1>7 DEF OpenThread, ShowBlankThread, AccessRefused, BlockAccess
  <2> QED BY <2>1, EmptyPage
<1>8. CASE UNCHANGED vars
  <2>1. SameRuns
    BY <1>8 DEF vars, pageVars, focusVars, SameRuns
  <2> QED BY <2>1, SameRunsKeep
<1> QED BY <1>1, <1>2, <1>3, <1>4, <1>5, <1>6, <1>7, <1>8 DEF Next

-----------------------------------------------------------------------------
(* Theorem *)

(* The page of App.tsx starts empty. *)
LEMMA ShownInit == Init => ShownInvariant
BY DEF Init, ShownInvariant, RunsAreSelected, SnapshotIsSelected, BlockedIsEmpty,
       ReadsOwnThread, CreatesOwnThread

(* No late answer is shown on another page than its own: each Run shown,   *)
(* and the snapshot, belong to the selected Thread, whatever requests of   *)
(* openThread, refreshSnapshot and startMessage are under way while the    *)
(* user moves; and a page whose access was refused shows nothing.          *)
THEOREM ShownIsAlwaysSelected == Spec => []ShownIsSelected
<1>1. Init => ShownInvariant
  BY ShownInit
<1>2. ShownInvariant /\ [Next]_vars => ShownInvariant'
  <2> SUFFICES ASSUME ShownInvariant, [Next]_vars PROVE ShownInvariant'
    OBVIOUS
  <2>1. Shown /\ ReadsOwnThread /\ CreatesOwnThread
    BY DEF ShownInvariant, Shown
  <2>2. Shown'
    BY <2>1, ShownStep
  <2>3. ReadsOwnThread'
    BY <2>1, ReadsStep
  <2>4. CreatesOwnThread'
    BY <2>1, CreatesStep
  <2> QED BY <2>2, <2>3, <2>4 DEF ShownInvariant, Shown
<1>3. ShownInvariant => ShownIsSelected
  BY DEF ShownInvariant, RunsAreSelected, SnapshotIsSelected, BlockedIsEmpty, ShownIsSelected
<1> QED BY <1>1, <1>2, <1>3, PTL DEF Spec
=============================================================================
