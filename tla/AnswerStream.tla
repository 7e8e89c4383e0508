----------------------------- MODULE AnswerStream -----------------------------
(***************************************************************************)
(* _stream_final_response of agent_runtime.py: the provider's chunks of    *)
(* the one public answer are coalesced into short phrases, each emitted as *)
(* a message.delta.  Chunks and the flush timer arrive in any order; an    *)
(* emission may wait for the queue, and a cancellation or a failure of the *)
(* provider may come at any wait.                                          *)
(*                                                                         *)
(* A text is a sequence of characters; "n", the line break, is a phrase    *)
(* boundary and white space at once.                                       *)
(***************************************************************************)
EXTENDS Naturals, Sequences, FiniteSetsExt, SequencesExt

CONSTANTS MinPhrase, Target, FrameMax,  \* 3, 24 and 8000 in the code
          MaxAnswer,  \* result_contract.max_answer_chars
          MaxChunk    \* bound on the characters of a chunk

ASSUME AnswerAssumption ==
  /\ {MinPhrase, Target, FrameMax, MaxAnswer, MaxChunk} \subseteq Nat \ {0}
  /\ MinPhrase <= Target /\ Target <= FrameMax

VARIABLES pc,      \* waiting, phrasing, closed, returned, failed
          text,    \* text_parts, joined
          buffer,  \* public_buffer
          timer,   \* flush_at is set
          deltas,  \* the deltas emitted
          attempt  \* the status of the provider attempt

vars == <<pc, text, buffer, timer, deltas, attempt>>

Chars      == {"a", ",", " ", "n"}
Boundaries == {",", "n"}
Blanks     == {" ", "n"}

TypeOK ==
  /\ pc \in {"waiting", "phrasing", "closed", "returned", "failed"}
  /\ text \in Seq(Chars) /\ buffer \in Seq(Chars) /\ timer \in BOOLEAN
  /\ deltas \in Seq(Seq(Chars) \ {<<>>})
  /\ attempt \in {"started", "succeeded", "failed", "cancelled"}
  /\ (attempt = "started") <=> (pc \in {"waiting", "phrasing"})

Init ==
  /\ pc = "waiting" /\ text = <<>> /\ buffer = <<>> /\ timer = FALSE
  /\ deltas = <<>> /\ attempt = "started"

-----------------------------------------------------------------------------
Blank(s) == \A i \in DOMAIN s : s[i] \in Blanks

(* The frames of _emit_stream_chunk *)
Frames(s) ==
  LET n == (Len(s) + FrameMax - 1) \div FrameMax IN
  [k \in 1..n |-> SubSeq(s, (k - 1) * FrameMax + 1,
                         IF k = n THEN Len(s) ELSE k * FrameMax)]

Emit(s) == deltas' = deltas \o Frames(s)

(* _stream_flush_prefix_length *)
PrefixLength(s) ==
  LET boundary == Max({0} \cup {i \in 1..Len(s) : i <= Target /\ s[i] \in Boundaries}) IN
  IF boundary >= MinPhrase THEN boundary
  ELSE IF Len(s) >= Target THEN Target ELSE 0

End(l, status) == pc' = l /\ attempt' = status

(* A chunk, the empty one included.  An answer that grows too long is an   *)
(* invalid result; white space is held back until a character follows.     *)
Receive(chunk) ==
  /\ pc = "waiting"
  /\ IF Len(text) + Len(chunk) > MaxAnswer
       THEN End("failed", "failed") /\ UNCHANGED <<text, buffer, timer>>
       ELSE /\ text' = text \o chunk /\ buffer' = buffer \o chunk
            /\ IF chunk = <<>> \/ Blank(text') THEN UNCHANGED <<pc, timer>>
                                               ELSE pc' = "phrasing" /\ timer' = TRUE
            /\ UNCHANGED attempt
  /\ UNCHANGED deltas

(* The inner loop emits whole phrases.                                     *)
FlushPrefix ==
  LET n == PrefixLength(buffer) IN
  /\ pc = "phrasing" /\ n > 0
  /\ Emit(SubSeq(buffer, 1, n))
  /\ buffer' = SubSeq(buffer, n + 1, Len(buffer))
  /\ timer' = (buffer' # <<>>)
  /\ UNCHANGED <<pc, text, attempt>>

PhrasesDone ==
  /\ pc = "phrasing" /\ PrefixLength(buffer) = 0
  /\ pc' = "waiting"
  /\ UNCHANGED <<text, buffer, timer, deltas, attempt>>

(* Mutant: an expired timer is dropped whatever has accumulated. *)
FlushTimerDropped ==
  /\ pc = "waiting" /\ timer /\ buffer # <<>>
  /\ timer' = FALSE
  /\ UNCHANGED <<pc, text, buffer, deltas, attempt>>

(* The soft cap: a phrase is emitted, a lone token is kept.                *)
FlushTimer ==
  /\ pc = "waiting" /\ timer
  /\ timer' = FALSE
  /\ CASE buffer = <<>> -> End("failed", "failed") /\ UNCHANGED <<buffer, deltas>>
       [] buffer # <<>> /\ Len(buffer) < MinPhrase -> UNCHANGED <<pc, attempt, buffer, deltas>>
       [] Len(buffer) >= MinPhrase ->
            Emit(buffer) /\ buffer' = <<>> /\ UNCHANGED <<pc, attempt>>
  /\ UNCHANGED text

(* The provider closes the stream.                                         *)
Close ==
  /\ pc = "waiting"
  /\ End("closed", "succeeded")
  /\ UNCHANGED <<text, buffer, timer, deltas>>

(* Mutant: the tail is forgotten. *)
ReturnWithoutTail ==
  /\ pc = "closed"
  /\ pc' = IF Blank(text) THEN "failed" ELSE "returned"
  /\ UNCHANGED <<text, timer, attempt, buffer, deltas>>

(* The attempt is closed first, then the tail is emitted.                  *)
Return ==
  /\ pc = "closed"
  /\ IF Blank(text) THEN pc' = "failed" /\ UNCHANGED <<buffer, deltas>>
                    ELSE pc' = "returned" /\ Emit(buffer) /\ buffer' = <<>>
  /\ UNCHANGED <<text, timer, attempt>>

(* A provider error, a Tool signal in a chunk, the deadline, or a          *)
(* cancellation ends the answer wherever it waits.                         *)
Break(status) ==
  /\ pc \in {"waiting", "phrasing"} /\ status \in {"failed", "cancelled"}
  /\ End("failed", status)
  /\ UNCHANGED <<text, buffer, timer, deltas>>

Chunks == UNION {[1..n -> Chars] : n \in 0..MaxChunk}

Next ==
  \/ \E chunk \in Chunks : Receive(chunk)
  \/ FlushPrefix \/ PhrasesDone \/ FlushTimer \/ Close \/ Return
  \/ \E status \in {"failed", "cancelled"} : Break(status)

Spec == Init /\ [][Next]_vars

-----------------------------------------------------------------------------
(* Properties *)

(* events.md:285: "The ordered delta concatenation must equal the final    *)
(* Runtime message": nothing is lost, repeated or reordered on the way,    *)
(* and the answer returned, never blank, was emitted whole.  schemas.py:176: *)
(* every delta fits its payload as one frame, and none is published before *)
(* the answer has a visible character.                                     *)
DeltasAreTheAnswer ==
  /\ FlattenSeq(deltas) \o buffer = text
  /\ pc = "returned" => buffer = <<>> /\ ~Blank(text)
  /\ \A i \in DOMAIN deltas : Len(deltas[i]) \in 1..Target
  /\ deltas # <<>> => ~Blank(text)

(* events.md:278: what is held without a timer is short, or white space    *)
(* only: no phrase waits for a chunk that may never come.  And the timer   *)
(* never expires over an empty buffer (agent_runtime.py:626), so           *)
(* finalizer_flush_state_invalid is never raised.                          *)
HeldTextIsTimed ==
  pc = "waiting" =>
    IF timer THEN buffer # <<>> ELSE Len(buffer) < MinPhrase \/ Blank(text)
=============================================================================
