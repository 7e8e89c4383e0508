-------------------------- MODULE EventStreamProofs --------------------------
(***************************************************************************)
(* Proofs about one Run's event stream, for every number of events, of     *)
(* broken responses and of events the page holds when it connects.         *)
(***************************************************************************)
EXTENDS EventStream, SequenceTheorems, TLAPS

-----------------------------------------------------------------------------
(* The inductive invariant *)

\* What the page was handed is Start + 1, Start + 2, ..., afterSeq.
DeliveredPrefix ==
    /\ Start <= afterSeq /\ afterSeq <= lastSeq
    /\ Len(delivered) = afterSeq - Start
    /\ \A i \in 1 .. Len(delivered) : delivered[i] = Start + i

\* What is under way on a response is afterSeq + 1, ..., cursor.
WireContinues ==
    client = "live" =>
        /\ afterSeq <= cursor /\ cursor <= lastSeq
        /\ Len(wire) = cursor - afterSeq
        /\ \A i \in 1 .. Len(wire) : wire[i] = afterSeq + i

\* Nothing is under way without a response.
NoResponse == client # "live" => wire = << >> /\ server = "idle"

\* The server returns behind the terminal event.
ClosedIsComplete == server = "returned" => ended /\ cursor >= lastSeq

\* Once the Run has ended nothing is written: what was complete stays so.
EndIsKnown ==
    /\ ended \/ lastSeq < MaxSeq
    /\ top <= lastSeq
    /\ ClosedIsComplete
    /\ client = "live" /\ terminal => ended /\ afterSeq = lastSeq
    /\ DoneHasTerminal

StreamInvariant ==
    TypeOK /\ DeliveredPrefix /\ WireContinues /\ NoResponse /\ EndIsKnown

(* The sequence of the invariant is the one ExactlyOnceInOrder names.      *)
LEMMA PrefixIsExact ==
    TypeOK /\ DeliveredPrefix => ExactlyOnceInOrder
<1> SUFFICES ASSUME TypeOK, DeliveredPrefix
             PROVE  ExactlyOnceInOrder
  OBVIOUS
<1>1. delivered \in [1 .. Len(delivered) -> 1 .. MaxSeq]
  BY LenProperties DEF TypeOK
<1>2. delivered = [i \in 1 .. Len(delivered) |-> delivered[i]]
  BY <1>1
<1>3. delivered = [i \in 1 .. (afterSeq - Start) |-> Start + i]
  BY <1>2 DEF DeliveredPrefix
<1> QED BY <1>3 DEF DeliveredPrefix, ExactlyOnceInOrder

(* The invariant holds when the page first connects. *)
LEMMA InvariantInit == Init => StreamInvariant
<1> SUFFICES ASSUME Init PROVE StreamInvariant
  OBVIOUS
<1>1. MaxSeq \in Nat /\ MaxBreaks \in Nat /\ Start \in Nat /\ Start <= MaxSeq
  BY StreamAssumption
<1>2. << >> \in Seq(1 .. MaxSeq) /\ Len(<< >>) = 0
  OBVIOUS
<1>3. TypeOK
  <2>1. /\ lastSeq \in 0 .. MaxSeq /\ cursor \in 0 .. MaxSeq /\ top \in 0 .. MaxSeq
        /\ afterSeq \in 0 .. MaxSeq /\ breaks \in 0 .. MaxBreaks
    BY <1>1 DEF Init
  <2>2. wire \in Seq(1 .. MaxSeq) /\ delivered \in Seq(1 .. MaxSeq)
    BY <1>2 DEF Init
  <2>3. server \in ServerStates /\ client \in ClientStates
        /\ ended \in BOOLEAN /\ terminal \in BOOLEAN
    BY DEF Init, ServerStates, ClientStates
  <2> QED BY <2>1, <2>2, <2>3 DEF TypeOK
<1>4. DeliveredPrefix
  BY <1>1, <1>2 DEF Init, DeliveredPrefix
<1>5. WireContinues /\ NoResponse
  BY <1>1, <1>2 DEF Init, WireContinues, NoResponse
<1>6. EndIsKnown
  BY <1>1 DEF Init, EndIsKnown, ClosedIsComplete, DoneHasTerminal
<1> QED BY <1>3, <1>4, <1>5, <1>6 DEF StreamInvariant

(* One more event is committed: what was handed over is still a prefix.    *)
LEMMA CommitPreserves ==
    ASSUME StreamInvariant, AppendEvent \/ CommitTerminal
    PROVE  StreamInvariant'
<1>1. /\ ~ended /\ lastSeq < MaxSeq /\ lastSeq' = lastSeq + 1
      /\ ended' \in BOOLEAN /\ (ended' \/ lastSeq' < MaxSeq)
      /\ UNCHANGED <<serverVars, wire, client, afterSeq, terminal, delivered, breaks>>
  BY DEF AppendEvent, CommitTerminal, Commit, StreamInvariant, TypeOK
<1>2. MaxSeq \in Nat /\ lastSeq \in 0 .. MaxSeq /\ afterSeq \in 0 .. MaxSeq
      /\ cursor \in 0 .. MaxSeq /\ top \in 0 .. MaxSeq
  BY StreamAssumption DEF StreamInvariant, TypeOK
<1>3. TypeOK'
  BY <1>1, <1>2 DEF StreamInvariant, TypeOK, serverVars
<1>4. DeliveredPrefix'
  BY <1>1, <1>2 DEF StreamInvariant, DeliveredPrefix
<1>5. WireContinues' /\ NoResponse'
  BY <1>1, <1>2 DEF StreamInvariant, WireContinues, NoResponse, serverVars
<1>6. EndIsKnown'
  BY <1>1, <1>2 DEF StreamInvariant, EndIsKnown, ClosedIsComplete, DoneHasTerminal,
     serverVars
<1> QED BY <1>3, <1>4, <1>5, <1>6 DEF StreamInvariant

(* The server's steps: the response continues what the page has accepted.  *)
LEMMA ServerPreserves ==
    ASSUME StreamInvariant,
           Connect \/ ReadEvents \/ YieldEvent \/ BatchYielded \/ CheckRun
    PROVE  StreamInvariant'
<1>1. MaxSeq \in Nat /\ lastSeq \in 0 .. MaxSeq /\ afterSeq \in 0 .. MaxSeq
      /\ cursor \in 0 .. MaxSeq /\ top \in 0 .. MaxSeq
  BY StreamAssumption DEF StreamInvariant, TypeOK
<1>2. UNCHANGED <<tableVars, afterSeq, delivered, breaks>>
  BY DEF Connect, Open, ReadEvents, YieldEvent, BatchYielded, CheckRun
<1>3. DeliveredPrefix'
  BY <1>2 DEF StreamInvariant, DeliveredPrefix, tableVars
<1>4. CASE Connect
  <2>1. client' = "live" /\ server' = "reading" /\ cursor' = afterSeq /\ terminal' = FALSE
        /\ client = "fetching" /\ UNCHANGED <<top, wire>>
    BY <1>4 DEF Connect, Open
  <2>2. wire = << >> /\ Len(wire) = 0
    BY <2>1 DEF StreamInvariant, NoResponse
  <2>3. TypeOK'
    BY <1>1, <1>2, <2>1 DEF StreamInvariant, TypeOK, tableVars, ServerStates, ClientStates
  <2>4. WireContinues' /\ NoResponse'
    BY <1>1, <1>2, <2>1, <2>2
    DEF StreamInvariant, DeliveredPrefix, WireContinues, NoResponse, tableVars
  <2>5. EndIsKnown'
    BY <1>2, <2>1
    DEF StreamInvariant, EndIsKnown, ClosedIsComplete, DoneHasTerminal, tableVars
  <2> QED BY <1>3, <2>3, <2>4, <2>5 DEF StreamInvariant
<1>5. CASE YieldEvent
  <2>1. server = "yielding" /\ cursor < top /\ cursor' = cursor + 1
        /\ wire' = Append(wire, cursor + 1)
        /\ UNCHANGED <<server, top, client, terminal>>
    BY <1>5 DEF YieldEvent
  <2>2. client = "live"
    BY <2>1 DEF StreamInvariant, NoResponse
  <2>3. cursor + 1 \in 1 .. MaxSeq /\ cursor + 1 <= lastSeq
    BY <1>1, <2>1 DEF StreamInvariant, EndIsKnown
  <2>4. wire \in Seq(1 .. MaxSeq)
    BY DEF StreamInvariant, TypeOK
  <2>5. /\ wire' \in Seq(1 .. MaxSeq)
        /\ Len(wire') = Len(wire) + 1
        /\ \A i \in 1 .. Len(wire) : wire'[i] = wire[i]
        /\ wire'[Len(wire) + 1] = cursor + 1
    BY <2>1, <2>3, <2>4, AppendProperties
  <2>6. Len(wire) \in Nat
    BY <2>4, LenProperties
  <2>7. afterSeq <= cursor /\ Len(wire) = cursor - afterSeq
        /\ \A i \in 1 .. Len(wire) : wire[i] = afterSeq + i
    BY <2>2 DEF StreamInvariant, WireContinues
  <2>8. \A i \in 1 .. Len(wire') : wire'[i] = afterSeq + i
    <3> SUFFICES ASSUME NEW i \in 1 .. Len(wire) + 1
                 PROVE  wire'[i] = afterSeq + i
      BY <2>5
    <3>1. CASE i \in 1 .. Len(wire)
      BY <2>5, <2>7, <3>1
    <3>2. CASE i = Len(wire) + 1
      BY <1>1, <2>5, <2>7, <3>2
    <3> QED BY <2>6, <3>1, <3>2
  <2>9. WireContinues' /\ NoResponse'
    BY <1>1, <1>2, <2>1, <2>2, <2>3, <2>5, <2>7, <2>8
    DEF WireContinues, NoResponse, tableVars
  <2>10. TypeOK'
    BY <1>2, <2>1, <2>3, <2>5 DEF StreamInvariant, TypeOK, tableVars
  <2>11. EndIsKnown'
    BY <1>2, <2>1
    DEF StreamInvariant, EndIsKnown, ClosedIsComplete, DoneHasTerminal, tableVars
  <2> QED BY <1>3, <2>9, <2>10, <2>11 DEF StreamInvariant
<1>6. CASE ReadEvents \/ BatchYielded \/ CheckRun
  <2>1. /\ UNCHANGED <<wire, client, cursor, terminal>>
        /\ server # "idle"
        /\ server' \in ServerStates \ {"idle"}
        /\ top' \in {top, lastSeq}
        /\ server' = "returned" => ended /\ cursor >= lastSeq
    BY <1>6 DEF ReadEvents, BatchYielded, CheckRun, Finished, ServerStates
  <2>2. client = "live"
    BY <2>1 DEF StreamInvariant, NoResponse
  <2>3. TypeOK'
    BY <1>1, <1>2, <2>1 DEF StreamInvariant, TypeOK, tableVars
  <2>4. WireContinues' /\ NoResponse'
    BY <1>2, <2>1, <2>2 DEF StreamInvariant, WireContinues, NoResponse, tableVars
  <2>5. EndIsKnown'
    BY <1>1, <1>2, <2>1
    DEF StreamInvariant, EndIsKnown, ClosedIsComplete, DoneHasTerminal, tableVars
  <2> QED BY <1>3, <2>3, <2>4, <2>5 DEF StreamInvariant
<1> QED BY <1>4, <1>5, <1>6

(* The page accepts the next event of the response. *)
LEMMA ReadPreserves ==
    ASSUME StreamInvariant, ReadEvent
    PROVE  StreamInvariant'
<1>1. MaxSeq \in Nat /\ lastSeq \in 0 .. MaxSeq /\ afterSeq \in 0 .. MaxSeq
      /\ cursor \in 0 .. MaxSeq /\ Start \in Nat
  BY StreamAssumption DEF StreamInvariant, TypeOK
<1>2. client = "live" /\ wire # << >> /\ wire' = Tail(wire)
      /\ UNCHANGED <<tableVars, serverVars, client, breaks>>
  BY DEF ReadEvent
<1>3. wire \in Seq(1 .. MaxSeq) /\ delivered \in Seq(1 .. MaxSeq)
  BY DEF StreamInvariant, TypeOK
<1>4. /\ Tail(wire) \in Seq(1 .. MaxSeq)
      /\ Len(Tail(wire)) = Len(wire) - 1
      /\ \A i \in 1 .. Len(Tail(wire)) : Tail(wire)[i] = wire[i + 1]
  BY <1>2, <1>3, HeadTailProperties
<1>5. Len(wire) \in Nat /\ Len(delivered) \in Nat /\ Len(wire) # 0
  BY <1>2, <1>3, LenProperties, EmptySeq
<1>6. afterSeq <= cursor /\ cursor <= lastSeq /\ Len(wire) = cursor - afterSeq
      /\ \A i \in 1 .. Len(wire) : wire[i] = afterSeq + i
  BY <1>2 DEF StreamInvariant, WireContinues
<1>7. Head(wire) = afterSeq + 1
  BY <1>2, <1>3, <1>5, <1>6
<1>8. afterSeq + 1 \in 1 .. MaxSeq /\ afterSeq + 1 <= lastSeq /\ afterSeq + 1 <= cursor
  BY <1>1, <1>5, <1>6
<1>9. /\ afterSeq' = afterSeq + 1
      /\ delivered' = Append(delivered, afterSeq + 1)
      /\ terminal' = (ended /\ afterSeq + 1 = lastSeq)
  BY <1>1, <1>7 DEF ReadEvent, IsTerminal
<1>10. /\ delivered' \in Seq(1 .. MaxSeq)
       /\ Len(delivered') = Len(delivered) + 1
       /\ \A i \in 1 .. Len(delivered) : delivered'[i] = delivered[i]
       /\ delivered'[Len(delivered) + 1] = afterSeq + 1
  BY <1>3, <1>8, <1>9, AppendProperties
<1>11. TypeOK'
  BY <1>2, <1>4, <1>8, <1>9, <1>10 DEF StreamInvariant, TypeOK, tableVars, serverVars
<1>12. DeliveredPrefix'
  <2>1. Start <= afterSeq /\ Len(delivered) = afterSeq - Start
        /\ \A i \in 1 .. Len(delivered) : delivered[i] = Start + i
    BY DEF StreamInvariant, DeliveredPrefix
  <2>2. ASSUME NEW i \in 1 .. Len(delivered) + 1
        PROVE  delivered'[i] = Start + i
    <3>1. CASE i \in 1 .. Len(delivered)
      BY <1>10, <2>1, <3>1
    <3>2. CASE i = Len(delivered) + 1
      BY <1>1, <1>10, <2>1, <3>2
    <3> QED BY <1>5, <3>1, <3>2
  <2> QED BY <1>1, <1>2, <1>8, <1>9, <1>10, <2>1, <2>2 DEF DeliveredPrefix, tableVars
<1>13. WireContinues' /\ NoResponse'
  <2>1. ASSUME NEW i \in 1 .. Len(Tail(wire))
        PROVE  Tail(wire)[i] = (afterSeq + 1) + i
    <3>1. i + 1 \in 1 .. Len(wire)
      BY <1>4, <1>5
    <3> QED BY <1>1, <1>4, <1>6, <3>1
  <2> QED BY <1>1, <1>2, <1>4, <1>6, <1>8, <1>9, <2>1
      DEF WireContinues, NoResponse, tableVars, serverVars
<1>14. EndIsKnown'
  BY <1>1, <1>2, <1>9
  DEF StreamInvariant, EndIsKnown, ClosedIsComplete, DoneHasTerminal, tableVars, serverVars
<1> QED BY <1>11, <1>12, <1>13, <1>14 DEF StreamInvariant

(* A response ends, breaks or is given up, and the page connects again.    *)
LEMMA PagePreserves ==
    ASSUME StreamInvariant, EndOfResponse \/ Break \/ Refused \/ Reconnect \/ Abort
    PROVE  StreamInvariant'
<1>1. /\ UNCHANGED <<tableVars, cursor, top, afterSeq, terminal, delivered>>
      /\ client' \in ClientStates \ {"live"}
      /\ client' = "done" => client = "live" /\ terminal
  BY DEF EndOfResponse, Break, Refused, Reconnect, Abort, serverVars, ClientStates
<1>2. wire' = << >> /\ server' = "idle"
  BY DEF EndOfResponse, Break, Refused, Reconnect, Abort, serverVars, StreamInvariant,
     NoResponse
<1>3. breaks' \in 0 .. MaxBreaks
  BY StreamAssumption
  DEF EndOfResponse, Break, Refused, Reconnect, Abort, StreamInvariant, TypeOK
<1>4. TypeOK'
  BY <1>1, <1>2, <1>3 DEF StreamInvariant, TypeOK, tableVars, ServerStates
<1>5. DeliveredPrefix'
  BY <1>1 DEF StreamInvariant, DeliveredPrefix, tableVars
<1>6. WireContinues' /\ NoResponse'
  BY <1>1, <1>2 DEF WireContinues, NoResponse
<1>7. EndIsKnown'
  BY <1>1, <1>2
  DEF StreamInvariant, EndIsKnown, ClosedIsComplete, DoneHasTerminal, tableVars
<1> QED BY <1>4, <1>5, <1>6, <1>7 DEF StreamInvariant

(* Every step preserves the invariant. *)
LEMMA InvariantNext == StreamInvariant /\ [Next]_vars => StreamInvariant'
<1> SUFFICES ASSUME StreamInvariant, [Next]_vars PROVE StreamInvariant'
  OBVIOUS
<1>1. CASE Idle \/ UNCHANGED vars
  <2>1. UNCHANGED vars
    BY <1>1 DEF Idle
  <2> QED BY <2>1
    DEF StreamInvariant, TypeOK, DeliveredPrefix, WireContinues, NoResponse, EndIsKnown,
        ClosedIsComplete, DoneHasTerminal, vars, tableVars, serverVars
<1>2. CASE AppendEvent \/ CommitTerminal
  BY <1>2, CommitPreserves
<1>3. CASE Connect \/ ReadEvents \/ YieldEvent \/ BatchYielded \/ CheckRun
  BY <1>3, ServerPreserves
<1>4. CASE ReadEvent
  BY <1>4, ReadPreserves
<1>5. CASE EndOfResponse \/ Break \/ Refused \/ Reconnect \/ Abort
  BY <1>5, PagePreserves
<1> QED BY <1>1, <1>2, <1>3, <1>4, <1>5 DEF Next

(* The invariant holds in every reachable state. *)
LEMMA InvariantHolds == Spec => []StreamInvariant
BY InvariantInit, InvariantNext, PTL DEF Spec

-----------------------------------------------------------------------------
(* The theorems *)

(* Every reachable state of stream_events and streamRunEvents is well      *)
(* typed; in particular the server never writes an event past last_seq.    *)
THEOREM StreamTypeCorrect == Spec => []TypeOK
<1>1. StreamInvariant => TypeOK
  BY DEF StreamInvariant
<1> QED BY <1>1, InvariantHolds, PTL

(* onEvent is called with the committed events behind the page's cursor,   *)
(* each once, in order and without a gap, over any number of polls, broken *)
(* responses and reconnects.                                               *)
THEOREM EventsExactlyOnce == Spec => []ExactlyOnceInOrder
<1>1. StreamInvariant => ExactlyOnceInOrder
  BY PrefixIsExact DEF StreamInvariant
<1> QED BY <1>1, InvariantHolds, PTL

(* service.py:338: a response that stream_events ends completes the log:   *)
(* what the page has received and what is under way are Start + 1, ...,    *)
(* last_seq, for any interleaving of commits with the two reads and any    *)
(* number of earlier responses that broke.                                 *)
THEOREM ResponseIsComplete == Spec => []ResponseCarriesLog
<1>1. StreamInvariant => ResponseCarriesLog
  <2> SUFFICES ASSUME StreamInvariant, server = "returned"
               PROVE  /\ ended
                      /\ delivered \o wire = [i \in 1 .. (lastSeq - Start) |-> Start + i]
    BY DEF ResponseCarriesLog
  <2>1. client = "live" BY DEF StreamInvariant, NoResponse
  <2>2. ended /\ cursor >= lastSeq BY DEF StreamInvariant, EndIsKnown, ClosedIsComplete
  <2>3. /\ afterSeq <= cursor /\ cursor <= lastSeq /\ Len(wire) = cursor - afterSeq
        /\ \A i \in 1 .. Len(wire) : wire[i] = afterSeq + i
    BY <2>1 DEF StreamInvariant, WireContinues
  <2>4. /\ Start <= afterSeq /\ Len(delivered) = afterSeq - Start
        /\ \A i \in 1 .. Len(delivered) : delivered[i] = Start + i
    BY DEF StreamInvariant, DeliveredPrefix
  <2>5. /\ lastSeq \in Nat /\ afterSeq \in Nat /\ cursor \in Nat /\ Start \in Nat
        /\ delivered \in Seq(1 .. MaxSeq) /\ wire \in Seq(1 .. MaxSeq)
    BY StreamAssumption DEF StreamInvariant, TypeOK
  <2> DEFINE all == delivered \o wire
             n == lastSeq - Start
  <2>6. /\ all \in Seq(1 .. MaxSeq) /\ Len(all) = Len(delivered) + Len(wire)
        /\ \A i \in 1 .. Len(delivered) + Len(wire) :
             all[i] = IF i <= Len(delivered) THEN delivered[i] ELSE wire[i - Len(delivered)]
    BY <2>5, ConcatProperties
  <2>7. Len(all) = n /\ n \in Nat BY <2>2, <2>3, <2>4, <2>5, <2>6
  <2>8. ASSUME NEW i \in 1 .. n PROVE all[i] = Start + i
    <3>1. CASE i <= Len(delivered) BY <2>4, <2>5, <2>6, <2>7, <3>1
    <3>2. CASE ~(i <= Len(delivered))
      <4>1. i - Len(delivered) \in 1 .. Len(wire)
        BY <2>2, <2>3, <2>4, <2>5, <3>2
      <4>2. all[i] = wire[i - Len(delivered)] BY <2>6, <2>7, <3>2
      <4>3. wire[i - Len(delivered)] = afterSeq + (i - Len(delivered)) BY <2>3, <4>1
      <4> QED BY <2>4, <2>5, <4>2, <4>3
    <3> QED BY <3>1, <3>2
  <2>9. all \in [1 .. n -> 1 .. MaxSeq] BY <2>6, <2>7, LenProperties
  <2> HIDE DEF all, n
  <2>10. all = [i \in 1 .. n |-> Start + i] BY <2>8, <2>9
  <2> QED BY <2>2, <2>10 DEF all, n
<1> QED BY <1>1, InvariantHolds, PTL

(* streamRunEvents returns only when onEvent has seen the terminal event.  *)
THEOREM ReturnMeansTerminal == Spec => []DoneHasTerminal
<1>1. StreamInvariant => DoneHasTerminal
  BY DEF StreamInvariant, EndIsKnown
<1> QED BY <1>1, InvariantHolds, PTL
=============================================================================
