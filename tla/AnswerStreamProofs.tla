-------------------------- MODULE AnswerStreamProofs --------------------------
(***************************************************************************)
(* Proofs about the streamed answer, for every phrase length, frame size,  *)
(* answer limit and chunk size.  What FlattenSeq, a recursive function,    *)
(* computes is established by a least counterexample: every set of natural *)
(* numbers that is not empty has a smallest member.                        *)
(***************************************************************************)
EXTENDS AnswerStream, SequenceTheorems, WellFoundedInduction, TLAPS

-----------------------------------------------------------------------------
(* Naturals *)

(* A set of naturals that is not empty has a smallest member. *)
LEMMA LeastNatural ==
  ASSUME NEW T, T \subseteq Nat, T # {}
  PROVE  \E n \in T : \A m \in T : n <= m
<1> DEFINE R == OpToRel(<, Nat)
<1>1. IsWellFoundedOn(R, Nat)
  BY NatLessThanWellFounded, Zenon
<1> HIDE DEF R
<1>2. PICK n \in T : \A m \in T : <<m, n>> \notin R
  BY <1>1, WFMin
<1>3. \A m \in T : m < n => <<m, n>> \in R
  BY DEF R, OpToRel
<1>4. \A m \in T : ~(m < n)
  BY <1>2, <1>3
<1>5. \A i, j \in Nat : ~(j < i) => i <= j
  OBVIOUS
<1> QED BY <1>4, <1>5

(* A bounded set of naturals that is not empty has a greatest member: the  *)
(* one at the least distance from the bound.                               *)
LEMMA GreatestNatural ==
  ASSUME NEW T, T \subseteq Nat, T # {}, NEW b \in Nat, \A m \in T : m <= b
  PROVE  Max(T) \in T /\ \A m \in T : m <= Max(T)
<1> DEFINE D == {d \in Nat : \E m \in T : m = b - d}
<1>1. PICK m \in T : TRUE
  OBVIOUS
<1>2. b - m \in D
  OBVIOUS
<1>3. PICK d \in D : \A e \in D : d <= e
  <2> HIDE DEF D
  <2>1. D \subseteq Nat
    BY DEF D
  <2> QED BY <1>2, <2>1, LeastNatural
<1>4. PICK x \in T : x = b - d
  OBVIOUS
<1>5. \A y \in T : x >= y
  <2> SUFFICES ASSUME NEW y \in T PROVE x >= y
    OBVIOUS
  <2>1. b - y \in D
    OBVIOUS
  <2>2. d <= b - y
    BY <1>3, <2>1
  <2> QED BY <1>4, <2>2
<1>6. \E z \in T : \A y \in T : z >= y
  BY <1>5
<1>7. Max(T) \in T /\ \A y \in T : Max(T) >= y
  BY <1>6 DEF Max
<1> QED BY <1>7

-----------------------------------------------------------------------------
(* FlattenSeq *)

\* f flattens the sequences s up to each of its places.
Flattens(f, s) ==
  f = [i \in 1..Len(s) |-> IF i = 1 THEN s[i] ELSE f[i-1] \o s[i]]

(* Every sequence of texts has such a function: one that serves all places *)
(* but the last is continued to the last.                                  *)
LEMMA FlattensExists ==
  ASSUME NEW S, NEW s \in Seq(Seq(S))
  PROVE  \E f \in [1..Len(s) -> Seq(S)] : Flattens(f, s)
<1> DEFINE Up(n) == \E f \in [1..n -> Seq(S)] :
                      \A i \in 1..n : f[i] = IF i = 1 THEN s[i] ELSE f[i-1] \o s[i]
           Bad == {n \in Nat : n <= Len(s) /\ ~Up(n)}
<1>1. Len(s) \in Nat /\ \A i \in 1..Len(s) : s[i] \in Seq(S)
  OBVIOUS
<1>2. ASSUME NEW n \in Bad, \A m \in Bad : n <= m PROVE FALSE
  <2>1. n \in Nat /\ n <= Len(s) /\ ~Up(n)
    OBVIOUS
  <2>2. CASE n = 0
    <3> DEFINE f == [i \in 1..n |-> s[i]]
    <3>1. f \in [1..n -> Seq(S)] /\ 1..n = {}
      BY <2>2, <1>1
    <3> QED BY <2>1, <3>1
  <2>3. CASE n # 0
    <3>1. Up(n - 1)
      <4>1. n - 1 \in Nat /\ n - 1 <= Len(s) /\ ~(n <= n - 1)
        BY <1>1, <2>1, <2>3
      <4>2. n - 1 \notin Bad
        BY <1>2, <4>1
      <4> QED BY <4>1, <4>2
    <3>2. PICK g \in [1..(n-1) -> Seq(S)] :
            \A i \in 1..(n-1) : g[i] = IF i = 1 THEN s[i] ELSE g[i-1] \o s[i]
      BY <3>1
    <3> DEFINE f == [i \in 1..n |-> IF i < n THEN g[i]
                                    ELSE IF n = 1 THEN s[n] ELSE g[n-1] \o s[n]]
    <3>3. \A i \in 1..n : i < n => i \in 1..(n-1) /\ (i # 1 => i-1 \in 1..(n-1) /\ i-1 < n)
      BY <2>1, <2>3
    <3>4. n # 1 => n-1 \in 1..(n-1) /\ n-1 \in 1..n /\ n-1 < n
      BY <2>1, <2>3
    <3>5. n \in 1..n /\ n \in 1..Len(s)
      BY <1>1, <2>1, <2>3
    <3>6. s[n] \in Seq(S) /\ (n # 1 => g[n-1] \in Seq(S) /\ g[n-1] \o s[n] \in Seq(S))
      BY <1>1, <3>4, <3>5, ConcatProperties
    <3>7. f \in [1..n -> Seq(S)]
      BY <3>3, <3>6
    <3>8. \A i \in 1..n : f[i] = IF i = 1 THEN s[i] ELSE f[i-1] \o s[i]
      <4> SUFFICES ASSUME NEW i \in 1..n
                   PROVE  f[i] = IF i = 1 THEN s[i] ELSE f[i-1] \o s[i]
        OBVIOUS
      <4>0. i # 1 => i - 1 \in 1..n
        BY <2>1
      <4>1. CASE i < n
        <5>1. f[i] = g[i] /\ (i # 1 => f[i-1] = g[i-1])
          BY <3>3, <4>0, <4>1
        <5> QED BY <3>2, <3>3, <4>1, <5>1
      <4>2. CASE i = n
        <5>1. n # 1 => f[n-1] = g[n-1]
          BY <3>4
        <5>2. f[n] = IF n = 1 THEN s[n] ELSE g[n-1] \o s[n]
          BY <3>5, <2>1
        <5> QED BY <4>2, <5>1, <5>2
      <4> QED BY <4>1, <4>2, <2>1
    <3> HIDE DEF f
    <3> QED BY <2>1, <3>7, <3>8
  <2> QED BY <2>2, <2>3
<1>3. Bad = {}
  <2>1. Bad \subseteq Nat
    OBVIOUS
  <2> HIDE DEF Bad
  <2> QED BY <1>2, <2>1, LeastNatural
<1>4. Up(Len(s))
  <2>1. Len(s) \notin Bad
    BY <1>3 DEF Bad
  <2>2. Len(s) <= Len(s)
    BY <1>1
  <2> QED BY <1>1, <2>1, <2>2
<1>5. PICK f \in [1..Len(s) -> Seq(S)] :
        \A i \in 1..Len(s) : f[i] = IF i = 1 THEN s[i] ELSE f[i-1] \o s[i]
  BY <1>4
<1>6. f = [i \in 1..Len(s) |-> IF i = 1 THEN s[i] ELSE f[i-1] \o s[i]]
  BY <1>5
<1> QED BY <1>6 DEF Flattens

\* The first n texts of s and t are the same.
AgreeUpTo(s, t, n) ==
  /\ n \in Nat /\ Len(s) \in Nat /\ Len(t) \in Nat /\ n <= Len(s) /\ n <= Len(t)
  /\ \A i \in 1..n : s[i] = t[i]

\* The first n values of f and g are the same.
SameUpTo(f, g, n) == \A i \in 1..n : f[i] = g[i]

(* It is determined by the texts up to each place. *)
LEMMA FlattensUnique ==
  ASSUME NEW s, NEW t, NEW f, NEW g, NEW n,
         AgreeUpTo(s, t, n), Flattens(f, s), Flattens(g, t)
  PROVE  SameUpTo(f, g, n)
<1> DEFINE Bad == {i \in 1..n : f[i] # g[i]}
<1>a. n \in Nat /\ \A i \in 1..n : s[i] = t[i]
  BY DEF AgreeUpTo
<1>0. \A i \in 1..n : i \in 1..Len(s) /\ i \in 1..Len(t)
  BY DEF AgreeUpTo
<1>1. \A i \in 1..n : f[i] = IF i = 1 THEN s[i] ELSE f[i-1] \o s[i]
  BY <1>0 DEF Flattens
<1>2. \A i \in 1..n : g[i] = IF i = 1 THEN t[i] ELSE g[i-1] \o t[i]
  BY <1>0 DEF Flattens
<1>3. ASSUME NEW i \in Bad, \A j \in Bad : i <= j PROVE FALSE
  <2>1. i \in 1..n /\ f[i] # g[i]
    OBVIOUS
  <2>2. i # 1 => i - 1 \in 1..n /\ ~(i <= i - 1)
    BY <1>a, <2>1
  <2>3. i # 1 => f[i-1] = g[i-1]
    BY <1>3, <2>2
  <2> QED BY <1>a, <1>1, <1>2, <2>1, <2>3
<1>4. Bad = {}
  <2>1. Bad \subseteq Nat
    BY <1>a
  <2> HIDE DEF Bad
  <2> QED BY <1>3, <2>1, LeastNatural
<1> QED BY <1>4 DEF SameUpTo

(* FlattenSeq takes the last value of that function. *)
LEMMA FlattenIsLast ==
  ASSUME NEW S, NEW s \in Seq(Seq(S)), s # <<>>
  PROVE  \E f \in [1..Len(s) -> Seq(S)] : Flattens(f, s) /\ FlattenSeq(s) = f[Len(s)]
<1> DEFINE f == CHOOSE f : f = [i \in 1..Len(s) |-> IF i = 1 THEN s[i] ELSE f[i-1] \o s[i]]
<1>1. PICK g \in [1..Len(s) -> Seq(S)] : Flattens(g, s)
  BY FlattensExists
<1>2. Flattens(f, s)
  BY <1>1 DEF Flattens
<1>3. FlattenSeq(s) = f[Len(s)]
  BY DEF FlattenSeq
<1> HIDE DEF f
<1>4. AgreeUpTo(s, s, Len(s))
  BY DEF AgreeUpTo
<1>5. SameUpTo(f, g, Len(s))
  BY <1>1, <1>2, <1>4, FlattensUnique
<1>6. f = g
  BY <1>1, <1>2, <1>5 DEF Flattens, SameUpTo
<1> QED BY <1>1, <1>2, <1>3, <1>6

(* The flattening of no text is the empty one. *)
LEMMA FlattenEmpty == FlattenSeq(<<>>) = <<>>
BY DEF FlattenSeq

(* A flattening is a text. *)
LEMMA FlattenType ==
  ASSUME NEW S, NEW s \in Seq(Seq(S))
  PROVE  FlattenSeq(s) \in Seq(S)
<1>1. CASE s = <<>>
  <2>1. FlattenSeq(s) = <<>> /\ <<>> \in Seq(S)
    BY <1>1, FlattenEmpty
  <2> QED BY <2>1
<1>2. CASE s # <<>>
  <2>1. Len(s) \in 1..Len(s)
    BY <1>2
  <2>2. PICK f \in [1..Len(s) -> Seq(S)] : FlattenSeq(s) = f[Len(s)]
    BY <1>2, FlattenIsLast
  <2> QED BY <2>1, <2>2
<1> QED BY <1>1, <1>2

(* One more text comes last. *)
LEMMA FlattenAppend ==
  ASSUME NEW S, NEW s \in Seq(Seq(S)), NEW x \in Seq(S)
  PROVE  FlattenSeq(Append(s, x)) = FlattenSeq(s) \o x
<1>0. Len(s) \in Nat /\ Append(s, x) \in Seq(Seq(S))
  BY AppendProperties
<1>n. PICK n \in Nat : n = Len(s)
  BY <1>0
<1>t. PICK t \in Seq(Seq(S)) : t = Append(s, x)
  BY <1>0
<1>1. Len(t) = n + 1 /\ t # <<>> /\ t[n+1] = x /\ \A i \in 1..n : s[i] = t[i]
  BY <1>n, <1>t, AppendProperties
<1>2. PICK f \in [1..Len(t) -> Seq(S)] : Flattens(f, t) /\ FlattenSeq(t) = f[Len(t)]
  BY <1>1, FlattenIsLast
<1>3. f[n+1] = IF n + 1 = 1 THEN t[n+1] ELSE f[n] \o t[n+1]
  <2>1. n + 1 \in 1..Len(t) /\ n + 1 - 1 = n
    BY <1>1
  <2>2. \A i \in 1..Len(t) : f[i] = IF i = 1 THEN t[i] ELSE f[i-1] \o t[i]
    BY <1>2 DEF Flattens
  <2>3. PICK k \in 1..Len(t) : k = n + 1
    BY <2>1
  <2>4. k - 1 = n
    BY <2>3
  <2>5. f[k] = IF k = 1 THEN t[k] ELSE f[k-1] \o t[k]
    BY <2>2
  <2> QED BY <2>3, <2>4, <2>5
<1>4. CASE s = <<>>
  <2>1. n = 0
    BY <1>4, <1>n
  <2>2. FlattenSeq(t) = x
    BY <1>1, <1>2, <1>3, <2>1
  <2>3. FlattenSeq(s) \o x = x
    BY <1>4, FlattenEmpty, ConcatEmptySeq
  <2> QED BY <1>t, <2>2, <2>3
<1>5. CASE s # <<>>
  <2>1. PICK g \in [1..n -> Seq(S)] : Flattens(g, s) /\ FlattenSeq(s) = g[n]
    BY <1>5, <1>n, FlattenIsLast
  <2>2. n <= Len(t) /\ n <= Len(s) /\ Len(t) \in Nat /\ Len(s) \in Nat
    BY <1>1, <1>n
  <2>3. \A i \in 1..n : g[i] = f[i]
    <3>1. AgreeUpTo(s, t, n)
      BY <1>1, <2>2 DEF AgreeUpTo
    <3>2. Flattens(g, s)
      BY <2>1
    <3>3. Flattens(f, t)
      BY <1>2
    <3>4. SameUpTo(g, f, n)
      BY <3>1, <3>2, <3>3, FlattensUnique
    <3> QED BY <3>4 DEF SameUpTo
  <2>4. n \in 1..n /\ n + 1 # 1
    BY <1>n, <1>5
  <2>5. FlattenSeq(t) = f[n] \o x
    BY <1>1, <1>2, <1>3, <2>4
  <2> QED BY <2>1, <2>3, <2>4, <2>5, <1>t
<1> QED BY <1>4, <1>5

-----------------------------------------------------------------------------
(* The inductive invariant *)

TextIsKept == FlattenSeq(deltas) \o buffer = text

ShortDeltas == \A i \in DOMAIN deltas : Len(deltas[i]) \in 1..Target

\* Nothing is emitted, timed or cut into phrases before a visible character.
VisibleFirst ==
  deltas # <<>> \/ timer \/ pc \in {"phrasing", "returned"} => ~Blank(text)

\* Phrases are cut under a running timer until no whole one is left.
PhrasesAreCut ==
  /\ pc = "phrasing" => (timer <=> buffer # <<>>)
  /\ pc \in {"waiting", "closed"} => Len(buffer) < Target \/ Blank(text)
  /\ pc = "returned" => buffer = <<>>

AnswerInvariant ==
  TypeOK /\ TextIsKept /\ ShortDeltas /\ VisibleFirst /\ PhrasesAreCut /\ HeldTextIsTimed

-----------------------------------------------------------------------------
(* The operators of the model *)

(* The constants are positive and ordered. *)
LEMMA Sizes ==
  /\ MinPhrase \in Nat /\ Target \in Nat /\ FrameMax \in Nat
  /\ 1 <= MinPhrase /\ MinPhrase <= Target /\ Target <= FrameMax /\ 1 <= FrameMax
BY AnswerAssumption

(* A rounded-up quotient is 1 for what fits one frame. *)
LEMMA OneQuotient ==
  ASSUME NEW F \in Nat, 1 <= F, NEW l \in 1..F
  PROVE  (l + F - 1) \div F = 1
<1>1. PICK q \in Int : q = (l + F - 1) \div F
  OBVIOUS
<1>2. F * q <= l + F - 1 /\ l + F - 1 < F * q + F
  BY <1>1
<1>3. CASE q <= 0
  <2>1. F * q <= 0
    BY <1>3
  <2> QED BY <1>2, <2>1
<1>4. CASE q >= 2
  <2>1. F * q >= F * 2
    BY <1>4
  <2> QED BY <1>2, <2>1
<1> QED BY <1>1, <1>3, <1>4

(* And 0 for nothing. *)
LEMMA ZeroQuotient ==
  ASSUME NEW F \in Nat, 1 <= F
  PROVE  (0 + F - 1) \div F = 0
<1>1. PICK q \in Int : q = (0 + F - 1) \div F
  OBVIOUS
<1>2. F * q <= F - 1 /\ F - 1 < F * q + F
  BY <1>1
<1>3. CASE q <= 0 - 1
  <2>1. F * q <= F * (0 - 1)
    BY <1>3
  <2> QED BY <1>2, <2>1
<1>4. CASE q >= 1
  <2>1. F * q >= F
    BY <1>4
  <2> QED BY <1>2, <2>1
<1> QED BY <1>1, <1>3, <1>4

(* A text that fits the payload of a delta is one frame. *)
LEMMA OneFrame ==
  ASSUME NEW s \in Seq(Chars), Len(s) \in 1..FrameMax
  PROVE  Frames(s) = <<s>>
<1>1. (Len(s) + FrameMax - 1) \div FrameMax = 1
  BY Sizes, OneQuotient
<1>2. Frames(s) = [k \in 1..1 |-> SubSeq(s, (k - 1) * FrameMax + 1,
                                         IF k = 1 THEN Len(s) ELSE k * FrameMax)]
  BY <1>1 DEF Frames
<1>3. \A k \in 1..1 : k = 1 /\ (k - 1) * FrameMax + 1 = 1
  BY Sizes
<1>4. SubSeq(s, 1, Len(s)) = s
  BY SubSeqFull
<1>5. Frames(s) = [k \in 1..1 |-> s]
  BY <1>2, <1>3, <1>4
<1> QED BY <1>5

(* No text has no frame. *)
LEMMA NoFrame == Frames(<<>>) = <<>>
<1>1. Len(<<>>) = 0
  OBVIOUS
<1>2. (Len(<<>>) + FrameMax - 1) \div FrameMax = 0
  BY <1>1, Sizes, ZeroQuotient
<1>3. DOMAIN Frames(<<>>) = {} /\ Frames(<<>>) = [k \in 1..0 |-> Frames(<<>>)[k]]
  BY <1>2 DEF Frames
<1> QED BY <1>3

(* Emitting a short text adds it as one delta. *)
LEMMA EmitsOne ==
  ASSUME NEW d \in Seq(Seq(Chars) \ {<<>>}), \A i \in DOMAIN d : Len(d[i]) \in 1..Target,
         NEW x \in Seq(Chars), Len(x) \in 1..Target
  PROVE  /\ d \o Frames(x) \in Seq(Seq(Chars) \ {<<>>})
         /\ d \o Frames(x) # <<>>
         /\ \A i \in DOMAIN (d \o Frames(x)) : Len((d \o Frames(x))[i]) \in 1..Target
         /\ FlattenSeq(d \o Frames(x)) = FlattenSeq(d) \o x
<1>1. x # <<>> /\ x \in Seq(Chars) \ {<<>>}
  OBVIOUS
<1>2. d \o Frames(x) = Append(d, x)
  <2>1. Len(x) \in 1..FrameMax
    BY Sizes
  <2> QED BY <2>1, <1>1, OneFrame, AppendIsConcat
<1>3. d \in Seq(Seq(Chars))
  OBVIOUS
<1>4. FlattenSeq(Append(d, x)) = FlattenSeq(d) \o x
  BY <1>3, FlattenAppend
<1>5. /\ Append(d, x) \in Seq(Seq(Chars) \ {<<>>}) /\ Append(d, x) # <<>>
      /\ DOMAIN Append(d, x) = 1..(Len(d) + 1)
      /\ \A i \in 1..Len(d) : Append(d, x)[i] = d[i]
      /\ Append(d, x)[Len(d) + 1] = x
  <2>1. /\ Append(d, x) \in Seq(Seq(Chars) \ {<<>>}) /\ Append(d, x) # <<>>
        /\ Len(Append(d, x)) = Len(d) + 1
    BY <1>1, AppendProperties
  <2>2. DOMAIN Append(d, x) = 1..(Len(d) + 1)
    BY <2>1
  <2>3. \A i \in 1..Len(d) : Append(d, x)[i] = d[i]
    BY <1>1, AppendProperties
  <2>4. Append(d, x)[Len(d) + 1] = x
    BY <1>1, AppendProperties
  <2> QED BY <2>1, <2>2, <2>3, <2>4
<1>6. \A i \in DOMAIN Append(d, x) : Len(Append(d, x)[i]) \in 1..Target
  <2> SUFFICES ASSUME NEW i \in 1..(Len(d) + 1) PROVE Len(Append(d, x)[i]) \in 1..Target
    BY <1>5
  <2>1. CASE i = Len(d) + 1
    BY <2>1, <1>5
  <2>2. CASE i \in 1..Len(d)
    BY <2>2, <1>5
  <2> QED BY <2>1, <2>2
<1> QED BY <1>2, <1>4, <1>5, <1>6

(* A phrase is a prefix no longer than Target; when there is none, less    *)
(* than Target is held.                                                    *)
LEMMA PrefixBounds ==
  ASSUME NEW s \in Seq(Chars)
  PROVE  /\ PrefixLength(s) \in 0..Len(s) /\ PrefixLength(s) <= Target
         /\ PrefixLength(s) = 0 => Len(s) < Target
<1> DEFINE B == {0} \cup {i \in 1..Len(s) : i <= Target /\ s[i] \in Boundaries}
<1>1. B \subseteq Nat /\ B # {} /\ \A i \in B : i <= Target /\ i <= Len(s)
  BY Sizes
<1>2. Max(B) \in Nat /\ Max(B) <= Target /\ Max(B) <= Len(s)
  <2> HIDE DEF B
  <2>1. Max(B) \in B
    BY <1>1, Sizes, GreatestNatural
  <2> QED BY <1>1, <2>1
<1>3. PrefixLength(s) = IF Max(B) >= MinPhrase THEN Max(B)
                        ELSE IF Len(s) >= Target THEN Target ELSE 0
  BY DEF PrefixLength
<1> HIDE DEF B
<1>4. PICK b \in Nat : b = Max(B)
  BY <1>2
<1>5. PICK l \in Nat : l = Len(s)
  OBVIOUS
<1> QED BY <1>2, <1>3, <1>4, <1>5, Sizes

(* A text whose continuation is blank is blank. *)
LEMMA BlankPrefix ==
  ASSUME NEW s \in Seq(Chars), NEW c \in Seq(Chars), Blank(s \o c)
  PROVE  Blank(s)
<1>1. DOMAIN s = 1..Len(s) /\ DOMAIN (s \o c) = 1..(Len(s) + Len(c))
      /\ Len(s) \in Nat /\ Len(c) \in Nat
  BY ConcatProperties
<1>2. \A i \in 1..Len(s) : (s \o c)[i] = s[i] /\ i \in 1..(Len(s) + Len(c))
  BY <1>1, ConcatProperties
<1> QED BY <1>1, <1>2 DEF Blank

(* A chunk is a text. *)
LEMMA ChunkIsText == \A chunk \in Chunks : chunk \in Seq(Chars)
BY AnswerAssumption DEF Chunks

-----------------------------------------------------------------------------
(* The steps *)

(* The invariant holds before the first chunk. *)
LEMMA InvariantInit == Init => AnswerInvariant
<1> SUFFICES ASSUME Init PROVE AnswerInvariant
  OBVIOUS
<1>1. TypeOK
  <2>1. text = <<>> /\ buffer = <<>> /\ deltas = <<>>
    BY DEF Init
  <2>2. text \in Seq(Chars) /\ buffer \in Seq(Chars) /\ deltas \in Seq(Seq(Chars) \ {<<>>})
    BY <2>1
  <2> QED BY <2>2 DEF Init, TypeOK
<1>2. TextIsKept
  <2>1. <<>> \o <<>> = <<>>
    OBVIOUS
  <2> QED BY <2>1, FlattenEmpty DEF Init, TextIsKept
<1>3. ShortDeltas
  BY DEF Init, ShortDeltas
<1>4. VisibleFirst
  BY DEF Init, VisibleFirst
<1>5. Len(buffer) = 0 /\ 0 < MinPhrase /\ 0 < Target
  BY Sizes DEF Init
<1>6. PhrasesAreCut /\ HeldTextIsTimed
  BY <1>5 DEF Init, PhrasesAreCut, HeldTextIsTimed
<1> QED BY <1>1, <1>2, <1>3, <1>4, <1>6 DEF AnswerInvariant

(* A chunk goes to the end of the text and of what is held. *)
LEMMA ReceiveStep ==
  ASSUME AnswerInvariant, NEW chunk \in Chunks, Receive(chunk)
  PROVE  AnswerInvariant'
<1>0. /\ pc = "waiting" /\ attempt = "started" /\ TypeOK /\ TextIsKept /\ ShortDeltas
      /\ VisibleFirst /\ PhrasesAreCut /\ HeldTextIsTimed /\ deltas' = deltas
  BY DEF AnswerInvariant, TypeOK, Receive
<1>t. text \in Seq(Chars) /\ buffer \in Seq(Chars) /\ chunk \in Seq(Chars)
      /\ deltas \in Seq(Seq(Chars) \ {<<>>}) /\ timer \in BOOLEAN
  BY <1>0, ChunkIsText DEF TypeOK
<1>s. ShortDeltas'
  BY <1>0 DEF ShortDeltas
<1>1. CASE Len(text) + Len(chunk) > MaxAnswer
  <2>1. pc' = "failed" /\ attempt' = "failed" /\ UNCHANGED <<text, buffer, timer>>
    BY <1>1 DEF Receive, End
  <2>2. TypeOK'
    BY <1>0, <2>1 DEF TypeOK
  <2>3. TextIsKept' /\ VisibleFirst' /\ PhrasesAreCut' /\ HeldTextIsTimed'
    BY <1>0, <2>1 DEF TextIsKept, VisibleFirst, PhrasesAreCut, HeldTextIsTimed, Blank
  <2> QED BY <1>s, <2>2, <2>3 DEF AnswerInvariant
<1>2. CASE ~(Len(text) + Len(chunk) > MaxAnswer)
  <2>1. /\ text' = text \o chunk /\ buffer' = buffer \o chunk /\ attempt' = attempt
        /\ IF chunk = <<>> \/ Blank(text') THEN UNCHANGED <<pc, timer>>
                                           ELSE pc' = "phrasing" /\ timer' = TRUE
    BY <1>2 DEF Receive
  <2>2. text' \in Seq(Chars) /\ buffer' \in Seq(Chars)
    BY <1>t, <2>1, ConcatProperties
  <2>3. pc' \in {"waiting", "phrasing"} /\ timer' \in BOOLEAN
    BY <1>0, <1>t, <2>1
  <2>4. TypeOK'
    BY <1>0, <1>t, <2>1, <2>2, <2>3 DEF TypeOK
  <2>5. TextIsKept'
    <3>1. PICK f \in Seq(Chars) : f = FlattenSeq(deltas)
      <4>1. deltas \in Seq(Seq(Chars))
        BY <1>t
      <4>2. FlattenSeq(deltas) \in Seq(Chars)
        BY <4>1, FlattenType
      <4> QED BY <4>2
    <3>2. (f \o buffer) \o chunk = f \o (buffer \o chunk)
      BY <1>t, ConcatAssociative
    <3>3. FlattenSeq(deltas)' = f
      BY <1>0, <3>1
    <3> QED BY <1>0, <2>1, <3>1, <3>2, <3>3 DEF TextIsKept
  <2>6. Blank(text') => Blank(text)
    BY <1>t, <2>1, BlankPrefix
  <2>7. VisibleFirst'
    BY <1>0, <2>1, <2>6 DEF VisibleFirst
  <2>8. PhrasesAreCut' /\ HeldTextIsTimed'
    <3>1. CASE chunk = <<>>
      <4>1. text' = text /\ buffer' = buffer /\ UNCHANGED <<pc, timer>>
        BY <1>t, <2>1, <3>1, ConcatEmptySeq
      <4> QED BY <1>0, <4>1 DEF PhrasesAreCut, HeldTextIsTimed, Blank
    <3>2. CASE chunk # <<>> /\ Blank(text')
      <4>1. pc' = "waiting" /\ timer' = FALSE
        BY <1>0, <1>t, <2>1, <2>6, <3>2 DEF VisibleFirst
      <4> QED BY <3>2, <4>1 DEF PhrasesAreCut, HeldTextIsTimed, Blank
    <3>3. CASE chunk # <<>> /\ ~Blank(text')
      <4>1. pc' = "phrasing" /\ timer' = TRUE
        BY <2>1, <3>3
      <4>2. buffer' # <<>>
        BY <1>t, <2>1, <3>3, ConcatEqualIffEmpty
      <4> QED BY <4>1, <4>2 DEF PhrasesAreCut, HeldTextIsTimed
    <3> QED BY <3>1, <3>2, <3>3
  <2> QED BY <1>s, <2>4, <2>5, <2>7, <2>8 DEF AnswerInvariant
<1> QED BY <1>1, <1>2

(* A phrase moves from the front of what is held to the end of the deltas. *)
LEMMA FlushPrefixStep ==
  ASSUME AnswerInvariant, FlushPrefix
  PROVE  AnswerInvariant'
<1>0. /\ pc = "phrasing" /\ TypeOK /\ TextIsKept /\ ShortDeltas
      /\ VisibleFirst /\ UNCHANGED <<pc, text, attempt>>
  BY DEF AnswerInvariant, FlushPrefix
<1>t. buffer \in Seq(Chars) /\ deltas \in Seq(Seq(Chars) \ {<<>>})
  BY <1>0 DEF TypeOK
<1>1. PrefixLength(buffer) \in 1..Len(buffer) /\ PrefixLength(buffer) <= Target
  <2>1. PrefixLength(buffer) \in 0..Len(buffer) /\ PrefixLength(buffer) <= Target
    BY <1>t, PrefixBounds
  <2>2. PrefixLength(buffer) > 0
    BY DEF FlushPrefix
  <2> QED BY <2>1, <2>2
<1>2. PICK n \in 1..Len(buffer) : n = PrefixLength(buffer)
  BY <1>1
<1>3. n <= Target
  BY <1>1, <1>2
<1>4. PICK x : x = SubSeq(buffer, 1, n)
  OBVIOUS
<1>5. PICK y : y = SubSeq(buffer, n + 1, Len(buffer))
  OBVIOUS
<1>6. deltas' = deltas \o Frames(x) /\ buffer' = y /\ timer' = (y # <<>>)
  BY <1>2, <1>4, <1>5 DEF FlushPrefix, Emit
<1>7. x \in Seq(Chars) /\ y \in Seq(Chars) /\ Len(x) = n
  BY <1>t, <1>4, <1>5, SubSeqProperties
<1>8. x \o y = buffer
  <2>1. 1 \in 1..(Len(buffer) + 1) /\ n \in (1-1)..Len(buffer) /\ Len(buffer) \in n..Len(buffer)
    BY <1>t
  <2>2. SubSeq(buffer, 1, n) \o SubSeq(buffer, n + 1, Len(buffer)) = SubSeq(buffer, 1, Len(buffer))
    BY <1>t, <2>1, ConcatAdjacentSubSeq
  <2> QED BY <1>t, <1>4, <1>5, <2>2, SubSeqFull
<1>9. Len(x) \in 1..Target
  BY <1>3, <1>7, Sizes
<1>10. /\ deltas' \in Seq(Seq(Chars) \ {<<>>}) /\ deltas' # <<>>
       /\ ShortDeltas' /\ FlattenSeq(deltas') = FlattenSeq(deltas) \o x
  <2>1. \A i \in DOMAIN deltas : Len(deltas[i]) \in 1..Target
    BY <1>0 DEF ShortDeltas
  <2>2. PICK d \in Seq(Seq(Chars) \ {<<>>}) : d = deltas
    BY <1>t
  <2>3. PICK e : e = deltas'
    OBVIOUS
  <2>4. \A i \in DOMAIN d : Len(d[i]) \in 1..Target
    BY <2>1, <2>2
  <2>5. e = d \o Frames(x)
    BY <1>6, <2>2, <2>3
  <2>6. /\ e \in Seq(Seq(Chars) \ {<<>>}) /\ e # <<>>
        /\ \A i \in DOMAIN e : Len(e[i]) \in 1..Target
        /\ FlattenSeq(e) = FlattenSeq(d) \o x
    BY <1>7, <1>9, <2>4, <2>5, EmitsOne
  <2> QED BY <2>2, <2>3, <2>6 DEF ShortDeltas
<1>11. TypeOK'
  BY <1>0, <1>6, <1>7, <1>10 DEF TypeOK
<1>12. TextIsKept'
  <2>1. PICK f \in Seq(Chars) : f = FlattenSeq(deltas)
    <3>1. deltas \in Seq(Seq(Chars))
      BY <1>t
    <3>2. FlattenSeq(deltas) \in Seq(Chars)
      BY <3>1, FlattenType
    <3> QED BY <3>2
  <2>2. (f \o x) \o y = f \o (x \o y)
    BY <1>7, ConcatAssociative
  <2>3. FlattenSeq(deltas') \o y = text
    BY <1>0, <1>8, <1>10, <2>1, <2>2 DEF TextIsKept
  <2> QED BY <1>0, <1>6, <2>3 DEF TextIsKept
<1>13. VisibleFirst' /\ PhrasesAreCut' /\ HeldTextIsTimed'
  BY <1>0, <1>6 DEF VisibleFirst, PhrasesAreCut, HeldTextIsTimed, Blank
<1> QED BY <1>10, <1>11, <1>12, <1>13 DEF AnswerInvariant

(* Emitting all that is held, when it is short, empties it into one delta, *)
(* or none.                                                                *)
LEMMA EmitHeld ==
  ASSUME TypeOK, TextIsKept, ShortDeltas, Len(buffer) <= Target,
         Emit(buffer), buffer' = <<>>, text' = text
  PROVE  deltas' \in Seq(Seq(Chars) \ {<<>>}) /\ ShortDeltas' /\ TextIsKept'
<1>t. buffer \in Seq(Chars) /\ deltas \in Seq(Seq(Chars) \ {<<>>})
  BY DEF TypeOK
<1>1. PICK x \in Seq(Chars) : x = buffer
  BY <1>t
<1>2. PICK d \in Seq(Seq(Chars) \ {<<>>}) : d = deltas
  BY <1>t
<1>3. PICK e : e = deltas'
  OBVIOUS
<1>4. e = d \o Frames(x) /\ \A i \in DOMAIN d : Len(d[i]) \in 1..Target
  BY <1>1, <1>2, <1>3 DEF Emit, ShortDeltas
<1>5. FlattenSeq(d) \in Seq(Chars) /\ FlattenSeq(d) \o x = text
  <2>1. d \in Seq(Seq(Chars))
    OBVIOUS
  <2> QED BY <1>1, <1>2, <2>1, FlattenType DEF TextIsKept
<1>6. /\ e \in Seq(Seq(Chars) \ {<<>>})
      /\ \A i \in DOMAIN e : Len(e[i]) \in 1..Target
      /\ FlattenSeq(e) = FlattenSeq(d) \o x
  <2>1. CASE x = <<>>
    <3>1. e = d
      BY <1>4, <2>1, NoFrame, ConcatEmptySeq
    <3>2. FlattenSeq(d) \o x = FlattenSeq(d)
      BY <1>5, <2>1, ConcatEmptySeq
    <3> QED BY <1>4, <3>1, <3>2
  <2>2. CASE x # <<>>
    <3>1. Len(x) \in 1..Target
      BY <1>1, <2>2, Sizes
    <3> QED BY <1>4, <3>1, EmitsOne
  <2> QED BY <2>1, <2>2
<1>7. text \in Seq(Chars) /\ text \o <<>> = text
  BY ConcatEmptySeq DEF TypeOK
<1>8. FlattenSeq(deltas') = text
  BY <1>3, <1>5, <1>6
<1>9. TextIsKept'
  BY <1>7, <1>8 DEF TextIsKept
<1> QED BY <1>3, <1>6, <1>9 DEF ShortDeltas

(* An expired timer: less than a whole phrase is left, so it is kept, or   *)
(* is short enough for one delta.                                          *)
LEMMA FlushTimerStep ==
  ASSUME AnswerInvariant, FlushTimer
  PROVE  AnswerInvariant'
<1>0. /\ pc = "waiting" /\ timer /\ timer' = FALSE /\ text' = text /\ attempt = "started"
      /\ TypeOK /\ TextIsKept /\ ShortDeltas /\ VisibleFirst /\ PhrasesAreCut /\ HeldTextIsTimed
  BY DEF AnswerInvariant, FlushTimer, TypeOK
<1>1. buffer # <<>> /\ ~Blank(text) /\ Len(buffer) < Target /\ Len(buffer) \in Nat
  BY <1>0 DEF HeldTextIsTimed, VisibleFirst, PhrasesAreCut, TypeOK
<1>b. ~Blank(text)'
  BY <1>0, <1>1 DEF Blank
<1>2. CASE Len(buffer) < MinPhrase
  <2>1. UNCHANGED <<pc, attempt, buffer, deltas>>
    <3>1. ~(Len(buffer) >= MinPhrase)
      BY <1>1, <1>2, Sizes
    <3> QED BY <1>1, <1>2, <3>1 DEF FlushTimer
  <2>2. TypeOK' /\ TextIsKept' /\ ShortDeltas'
    BY <1>0, <2>1 DEF TypeOK, TextIsKept, ShortDeltas
  <2>3. VisibleFirst' /\ PhrasesAreCut' /\ HeldTextIsTimed'
    BY <1>0, <1>1, <1>2, <1>b, <2>1 DEF VisibleFirst, PhrasesAreCut, HeldTextIsTimed
  <2> QED BY <2>2, <2>3 DEF AnswerInvariant
<1>3. CASE Len(buffer) >= MinPhrase
  <2>1. Emit(buffer) /\ buffer' = <<>> /\ UNCHANGED <<pc, attempt>>
    <3>1. ~(Len(buffer) < MinPhrase)
      BY <1>1, <1>3, Sizes
    <3> QED BY <1>1, <1>3, <3>1 DEF FlushTimer
  <2>2. deltas' \in Seq(Seq(Chars) \ {<<>>}) /\ ShortDeltas' /\ TextIsKept'
    <3>1. Len(buffer) <= Target
      BY <1>1, Sizes
    <3> QED BY <1>0, <2>1, <3>1, EmitHeld
  <2>3. TypeOK'
    <3>1. buffer' \in Seq(Chars)
      BY <2>1
    <3> QED BY <1>0, <2>1, <2>2, <3>1 DEF TypeOK
  <2>4. Len(buffer') < Target /\ Len(buffer') < MinPhrase
    BY <2>1, Sizes
  <2>5. VisibleFirst' /\ PhrasesAreCut' /\ HeldTextIsTimed'
    BY <1>0, <1>b, <2>1, <2>4 DEF VisibleFirst, PhrasesAreCut, HeldTextIsTimed
  <2> QED BY <2>2, <2>3, <2>5 DEF AnswerInvariant
<1> QED BY <1>1, <1>2, <1>3, Sizes

(* The tail of an answer with a visible character is short. *)
LEMMA ReturnStep ==
  ASSUME AnswerInvariant, Return
  PROVE  AnswerInvariant'
<1>0. /\ pc = "closed" /\ UNCHANGED <<text, timer, attempt>>
      /\ TypeOK /\ TextIsKept /\ ShortDeltas /\ VisibleFirst /\ PhrasesAreCut
  BY DEF AnswerInvariant, Return
<1>b. Blank(text)' = Blank(text)
  BY <1>0 DEF Blank
<1>1. CASE Blank(text)
  <2>1. pc' = "failed" /\ UNCHANGED <<buffer, deltas>>
    BY <1>1 DEF Return
  <2>2. TypeOK' /\ TextIsKept' /\ ShortDeltas'
    BY <1>0, <2>1 DEF TypeOK, TextIsKept, ShortDeltas
  <2>3. VisibleFirst' /\ PhrasesAreCut' /\ HeldTextIsTimed'
    BY <1>0, <1>b, <2>1 DEF VisibleFirst, PhrasesAreCut, HeldTextIsTimed
  <2> QED BY <2>2, <2>3 DEF AnswerInvariant
<1>2. CASE ~Blank(text)
  <2>1. pc' = "returned" /\ Emit(buffer) /\ buffer' = <<>>
    BY <1>2 DEF Return
  <2>2. Len(buffer) < Target /\ Len(buffer) \in Nat
    BY <1>0, <1>2 DEF PhrasesAreCut, TypeOK
  <2>3. deltas' \in Seq(Seq(Chars) \ {<<>>}) /\ ShortDeltas' /\ TextIsKept'
    <3>1. Len(buffer) <= Target /\ text' = text
      BY <1>0, <2>2, Sizes
    <3> QED BY <1>0, <2>1, <3>1, EmitHeld
  <2>4. TypeOK'
    <3>1. buffer' \in Seq(Chars)
      BY <2>1
    <3> QED BY <1>0, <2>1, <2>3, <3>1 DEF TypeOK
  <2>5. VisibleFirst' /\ PhrasesAreCut' /\ HeldTextIsTimed'
    BY <1>0, <1>b, <1>2, <2>1 DEF VisibleFirst, PhrasesAreCut, HeldTextIsTimed
  <2> QED BY <2>3, <2>4, <2>5 DEF AnswerInvariant
<1> QED BY <1>1, <1>2

(* Steps that touch neither the text, what is held nor the deltas: the     *)
(* inner loop ends, the stream is closed, or the answer breaks off.        *)
LEMMA QuietStep ==
  ASSUME AnswerInvariant,
         PhrasesDone \/ Close \/ \E status \in {"failed", "cancelled"} : Break(status)
  PROVE  AnswerInvariant'
<1>0. UNCHANGED <<text, buffer, timer, deltas>>
      /\ TypeOK /\ TextIsKept /\ ShortDeltas /\ VisibleFirst /\ PhrasesAreCut /\ HeldTextIsTimed
  BY DEF AnswerInvariant, PhrasesDone, Close, Break
<1>1. TextIsKept' /\ ShortDeltas' /\ (Blank(text)' = Blank(text))
  BY <1>0 DEF TextIsKept, ShortDeltas, Blank
<1>2. CASE PhrasesDone
  <2>1. pc = "phrasing" /\ pc' = "waiting" /\ UNCHANGED attempt /\ PrefixLength(buffer) = 0
    BY <1>2 DEF PhrasesDone
  <2>2. TypeOK'
    BY <1>0, <2>1 DEF TypeOK
  <2>3. Len(buffer) < Target
    BY <1>0, <2>1, PrefixBounds DEF TypeOK
  <2>4. buffer = <<>> => Len(buffer) < MinPhrase
    BY Sizes
  <2>5. timer <=> buffer # <<>>
    BY <1>0, <2>1 DEF PhrasesAreCut
  <2>6. VisibleFirst' /\ PhrasesAreCut'
    BY <1>0, <1>1, <2>1, <2>3 DEF VisibleFirst, PhrasesAreCut
  <2>7. HeldTextIsTimed'
    BY <1>0, <1>1, <2>1, <2>4, <2>5 DEF HeldTextIsTimed
  <2> QED BY <1>1, <2>2, <2>6, <2>7 DEF AnswerInvariant
<1>3. CASE Close
  <2>1. pc = "waiting" /\ pc' = "closed" /\ attempt' = "succeeded"
    BY <1>3 DEF Close, End
  <2>2. TypeOK'
    BY <1>0, <2>1 DEF TypeOK
  <2>3. VisibleFirst' /\ PhrasesAreCut' /\ HeldTextIsTimed'
    BY <1>0, <1>1, <2>1 DEF VisibleFirst, PhrasesAreCut, HeldTextIsTimed
  <2> QED BY <1>1, <2>2, <2>3 DEF AnswerInvariant
<1>4. CASE \E status \in {"failed", "cancelled"} : Break(status)
  <2>1. pc' = "failed" /\ attempt' \in {"failed", "cancelled"}
    BY <1>4 DEF Break, End
  <2>2. TypeOK'
    BY <1>0, <2>1 DEF TypeOK
  <2>3. VisibleFirst' /\ PhrasesAreCut' /\ HeldTextIsTimed'
    BY <1>0, <1>1, <2>1 DEF VisibleFirst, PhrasesAreCut, HeldTextIsTimed
  <2> QED BY <1>1, <2>2, <2>3 DEF AnswerInvariant
<1> QED BY <1>2, <1>3, <1>4

(* Every step keeps the invariant. *)
LEMMA InvariantNext == AnswerInvariant /\ [Next]_vars => AnswerInvariant'
<1> SUFFICES ASSUME AnswerInvariant, [Next]_vars PROVE AnswerInvariant'
  OBVIOUS
<1>1. ASSUME NEW chunk \in Chunks, Receive(chunk) PROVE AnswerInvariant'
  BY <1>1, ReceiveStep
<1>2. CASE FlushPrefix
  BY <1>2, FlushPrefixStep
<1>3. CASE FlushTimer
  BY <1>3, FlushTimerStep
<1>4. CASE Return
  BY <1>4, ReturnStep
<1>5. CASE PhrasesDone \/ Close \/ \E status \in {"failed", "cancelled"} : Break(status)
  BY <1>5, QuietStep
<1>6. CASE UNCHANGED vars
  BY <1>6 DEF vars, AnswerInvariant, TypeOK, TextIsKept, ShortDeltas, VisibleFirst,
              PhrasesAreCut, HeldTextIsTimed, Blank
<1> QED BY <1>1, <1>2, <1>3, <1>4, <1>5, <1>6 DEF Next

(* The invariant holds in every reachable state. *)
LEMMA InvariantHolds == Spec => []AnswerInvariant
<1>1. Init => AnswerInvariant
  BY InvariantInit
<1>2. AnswerInvariant /\ [Next]_vars => AnswerInvariant'
  BY InvariantNext
<1> QED BY <1>1, <1>2, PTL DEF Spec

-----------------------------------------------------------------------------
(* Theorems *)

(* events.md:285, schemas.py:176: the deltas and what is held are the text *)
(* received, in order; a returned answer was emitted whole and is visible; *)
(* every delta is one frame of at most Target characters; and none is      *)
(* published while the text is blank.                                      *)
THEOREM DeltasAreAlwaysTheAnswer == Spec => []DeltasAreTheAnswer
<1>1. AnswerInvariant => DeltasAreTheAnswer
  BY DEF AnswerInvariant, TextIsKept, ShortDeltas, VisibleFirst, PhrasesAreCut,
         DeltasAreTheAnswer
<1> QED BY <1>1, InvariantHolds, PTL

(* events.md:278, agent_runtime.py:626: no phrase is held without a timer, *)
(* and the timer never expires over an empty buffer.                       *)
THEOREM HeldTextIsAlwaysTimed == Spec => []HeldTextIsTimed
<1>1. AnswerInvariant => HeldTextIsTimed
  BY DEF AnswerInvariant
<1> QED BY <1>1, InvariantHolds, PTL
=============================================================================
