---------------------------- MODULE ServicesProofs ----------------------------
(***************************************************************************)
(* With any identifiers and any base URL: what a method puts on the wire   *)
(* comes apart, behind a proxy that normalises or one that does not, into  *)
(* the segments the method started from; these match the method's own      *)
(* route and no other, whose answer the method decodes; and only what      *)
(* could not be addressed is refused.                                      *)
(*                                                                         *)
(* The library defines its folds by recursion over sets of indices.  A     *)
(* fold is first turned into a run, the sequence of its results element by *)
(* element; what holds of every step then holds by induction on a length.  *)
(***************************************************************************)
EXTENDS Services, SequenceTheorems, WellFoundedInduction, TLAPS

-----------------------------------------------------------------------------
(* Induction and recursion over the naturals. *)

\* Induction over the naturals, from the library's well-foundedness.
LEMMA Induction ==
    ASSUME NEW T, 0 \in T, \A n \in Nat : n \in T => n + 1 \in T
    PROVE  Nat \subseteq T
  <1> DEFINE R == OpToRel(<, Nat)
             C == Nat \ T
  <1>1. SUFFICES ASSUME C # {} PROVE FALSE
    OBVIOUS
  <1>2. \E x \in C : \A y \in C : ~ (<<y, x>> \in R)
    <2>1. IsWellFoundedOn(R, Nat)
      BY NatLessThanWellFounded
    <2> HIDE DEF R
    <2> QED BY <1>1, <2>1, WFMin
  <1>3. \A x, y \in Nat : y < x => <<y, x>> \in R
    BY DEF OpToRel
  <1> HIDE DEF R
  <1>4. PICK x \in C : \A y \in C : ~(y < x)
    BY <1>2, <1>3
  <1>5. x # 0 /\ x - 1 \in Nat /\ x - 1 < x /\ (x - 1) + 1 = x
    BY <1>4
  <1> QED BY <1>4, <1>5

\* Induction over sequences, by appending.
LEMMA SequenceInduction ==
    ASSUME NEW S, NEW T, <<>> \in T,
           \A s \in Seq(S) : \A e \in S : s \in T => Append(s, e) \in T
    PROVE  Seq(S) \subseteq T
  <1> DEFINE N == {n \in Nat : \A s \in Seq(S) : Len(s) = n => s \in T}
  <1>1. 0 \in N
    BY EmptySeq
  <1>2. ASSUME NEW n \in Nat, n \in N PROVE n + 1 \in N
    <2>1. ASSUME NEW s \in Seq(S), Len(s) = n + 1 PROVE s \in T
      <3>1. PICK r \in Seq(S), e \in S : s = Append(r, e)
        BY <2>1, EmptySeq, SequenceEmptyOrAppend
      <3>2. Len(r) = n
        BY <2>1, <3>1, AppendProperties, LenProperties
      <3> QED BY <1>2, <3>1, <3>2
    <2> QED BY <2>1
  <1> HIDE DEF N
  <1>3. Nat \subseteq N
    BY <1>1, <1>2, Induction
  <1>4. \A s \in Seq(S) : Len(s) \in N
    BY <1>3, LenProperties
  <1> QED BY <1>4 DEF N

\* The largest of 1..(n + 1) is n + 1.
LEMMA LargestOf ==
    ASSUME NEW n \in Nat, NEW s \in SUBSET (1..(n + 1)), n + 1 \in s
    PROVE  Max(s) = n + 1
  <1>1. \A y \in s : n + 1 >= y
    OBVIOUS
  <1>2. \A x \in s : (\A y \in s : x >= y) => x = n + 1
    OBVIOUS
  <1> QED BY <1>1, <1>2 DEF Max

\* The largest of 1..i is i, and what remains is 1..(i - 1).
LEMMA LargestUpTo ==
    ASSUME NEW n \in Nat, NEW i \in 1..n
    PROVE  /\ 1..i \in SUBSET (1..n) /\ 1..i # {} /\ Max(1..i) = i
           /\ (1..i) \ {i} = 1..(i - 1)
  <1>1. PICK k \in Nat : i = k + 1
    <2>1. i - 1 \in Nat /\ i = (i - 1) + 1
      OBVIOUS
    <2> QED BY <2>1
  <1>2. 1..(k + 1) \in SUBSET (1..(k + 1)) /\ k + 1 \in 1..(k + 1)
    OBVIOUS
  <1>3. Max(1..(k + 1)) = k + 1
    BY <1>2, LargestOf
  <1>4. 1..i \in SUBSET (1..n) /\ 1..i # {} /\ (1..i) \ {i} = 1..(i - 1)
    OBVIOUS
  <1> QED BY <1>1, <1>3, <1>4

\* A set of indices that is not empty has a largest element.
LEMMA LargestIn ==
    ASSUME NEW n \in Nat, NEW s \in SUBSET (1..n), s # {}
    PROVE  Max(s) \in 1..n
  <1> DEFINE T == {k \in Nat : \A r \in SUBSET (1..k) : r # {} => Max(r) \in 1..k}
  <1>1. 0 \in T
    <2>1. \A r \in SUBSET (1..0) : r = {}
      OBVIOUS
    <2> QED BY <2>1
  <1>2. ASSUME NEW k \in Nat, k \in T PROVE k + 1 \in T
    <2>1. ASSUME NEW r \in SUBSET (1..(k + 1)), r # {} PROVE Max(r) \in 1..(k + 1)
      <3>1. CASE k + 1 \in r
        BY <3>1, LargestOf
      <3>2. CASE k + 1 \notin r
        <4>1. r \in SUBSET (1..k)
          BY <3>2
        <4>2. Max(r) \in 1..k
          BY <1>2, <2>1, <4>1
        <4> QED BY <4>2
      <3> QED BY <3>1, <3>2
    <2> QED BY <2>1
  <1> HIDE DEF T
  <1>3. n \in T
    BY <1>1, <1>2, Induction
  <1> QED BY <1>3 DEF T

\* A fold over 1..n from its largest element, which is what FoldLeft is.
IsFold(g, n, b, G) ==
    g = [s \in SUBSET (1..n) |->
            IF s = {} THEN b ELSE G[<<g[s \ {Max(s)}], Max(s)>>]]

\* The recursion that defines a fold has a solution.
LEMMA FoldExists ==
    ASSUME NEW S, NEW b \in S, NEW G \in [S \X Nat -> S], NEW n \in Nat
    PROVE  \E g \in [SUBSET (1..n) -> S] : IsFold(g, n, b, G)
  <1> DEFINE T == {k \in Nat : \E g \in [SUBSET (1..k) -> S] : IsFold(g, k, b, G)}
  <1>1. 0 \in T
    <2> DEFINE g == [s \in SUBSET (1..0) |-> b]
    <2>1. \A s \in SUBSET (1..0) : s = {}
      OBVIOUS
    <2>2. IsFold(g, 0, b, G)
      BY <2>1 DEF IsFold
    <2> QED BY <2>2
  <1>2. ASSUME NEW k \in Nat, k \in T PROVE k + 1 \in T
    <2>1. PICK f \in [SUBSET (1..k) -> S] : IsFold(f, k, b, G)
      BY <1>2
    <2> DEFINE g == [s \in SUBSET (1..(k + 1)) |->
                        IF k + 1 \in s THEN G[<<f[s \ {k + 1}], k + 1>>] ELSE f[s]]
    <2>2. \A s \in SUBSET (1..(k + 1)) :
              IF k + 1 \in s THEN s \ {k + 1} \in SUBSET (1..k) ELSE s \in SUBSET (1..k)
      OBVIOUS
    <2>3. \A s \in SUBSET (1..k) : s \in SUBSET (1..(k + 1)) /\ k + 1 \notin s
      OBVIOUS
    <2>4. \A s \in SUBSET (1..k) : g[s] = f[s]
      BY <2>3
    <2>5. g \in [SUBSET (1..(k + 1)) -> S]
      BY <2>1, <2>2
    <2>6. ASSUME NEW s \in SUBSET (1..(k + 1))
          PROVE  g[s] = IF s = {} THEN b ELSE G[<<g[s \ {Max(s)}], Max(s)>>]
      <3>1. CASE k + 1 \in s
        <4>1. Max(s) = k + 1
          BY <3>1, LargestOf
        <4>2. g[s \ {k + 1}] = f[s \ {k + 1}]
          BY <2>2, <2>4, <3>1
        <4>3. g[s] = G[<<f[s \ {k + 1}], k + 1>>]
          BY <3>1
        <4> QED BY <3>1, <4>1, <4>2, <4>3
      <3>2. CASE k + 1 \notin s
        <4>1. s \in SUBSET (1..k) /\ s \ {Max(s)} \in SUBSET (1..k)
          BY <2>2, <3>2
        <4>2. f[s] = IF s = {} THEN b ELSE G[<<f[s \ {Max(s)}], Max(s)>>]
          BY <2>1, <4>1 DEF IsFold
        <4> HIDE DEF g
        <4> QED BY <2>4, <4>1, <4>2
      <3> QED BY <3>1, <3>2
    <2>7. IsFold(g, k + 1, b, G)
      <3>1. g = [s \in SUBSET (1..(k + 1)) |-> g[s]]
        OBVIOUS
      <3> HIDE DEF g
      <3> QED BY <2>6, <3>1 DEF IsFold
    <2>8. k + 1 \in Nat
      OBVIOUS
    <2> HIDE DEF g
    <2> QED BY <2>5, <2>7, <2>8
  <1> HIDE DEF T
  <1>3. n \in T
    BY <1>1, <1>2, Induction
  <1> QED BY <1>3 DEF T

\* The results of a fold, element by element.
IsRun(F, n, S, b, G) ==
    /\ F \in [0..n -> S]
    /\ F[0] = b
    /\ \A i \in 0..(n - 1) : F[i + 1] = G[<<F[i], i + 1>>]

\* The results of a fold on 1..0, 1..1, ... are a run.
LEMMA FoldRuns ==
    ASSUME NEW S, NEW b \in S, NEW G \in [S \X Nat -> S], NEW n \in Nat,
           NEW h, h[{}] = b, NEW F, F = [i \in 0..n |-> h[1..i]],
           \A s \in SUBSET (1..n) : s # {} /\ h[s \ {Max(s)}] \in S
               => h[s] = G[<<h[s \ {Max(s)}], Max(s)>>]
    PROVE  IsRun(F, n, S, b, G)
  <1>1. F[0] = b
    <2>1. 1..0 = {}
      OBVIOUS
    <2> QED BY <2>1
  <1>2. ASSUME NEW i \in 0..(n - 1), F[i] \in S
        PROVE  F[i + 1] = G[<<F[i], i + 1>>] /\ F[i + 1] \in S
    <2>1. 1..(i + 1) \in SUBSET (1..n) /\ i + 1 \in 1..(i + 1) /\ i \in Nat
      OBVIOUS
    <2>2. Max(1..(i + 1)) = i + 1
      BY <2>1, LargestOf
    <2>3. (1..(i + 1)) \ {i + 1} = 1..i
      OBVIOUS
    <2>4. i \in 0..n /\ i + 1 \in 0..n
      OBVIOUS
    <2>5. F[i] = h[1..i] /\ F[i + 1] = h[1..(i + 1)]
      BY <2>4
    <2>6. h[1..(i + 1)] = G[<<h[1..i], i + 1>>]
      BY <1>2, <2>1, <2>2, <2>3, <2>5
    <2>7. <<F[i], i + 1>> \in S \X Nat
      BY <1>2, <2>1
    <2> QED BY <2>5, <2>6, <2>7
  <1>3. \A i \in 0..n : F[i] \in S
    <2> DEFINE T == {i \in Nat : i <= n => F[i] \in S}
    <2>1. 0 \in T
      BY <1>1
    <2>2. ASSUME NEW i \in Nat, i \in T PROVE i + 1 \in T
      <3>1. i + 1 <= n => i \in 0..(n - 1) /\ F[i] \in S
        BY <2>2
      <3>2. i + 1 <= n => F[i + 1] \in S
        BY <1>2, <3>1
      <3> QED BY <3>2
    <2> HIDE DEF T
    <2>3. Nat \subseteq T
      BY <2>1, <2>2, Induction
    <2>4. \A i \in 0..n : i \in T
      BY <2>3
    <2> QED BY <2>4 DEF T
  <1>4. F \in [0..n -> S]
    BY <1>3
  <1>5. \A i \in 0..(n - 1) : i \in 0..n
    OBVIOUS
  <1>6. \A i \in 0..(n - 1) : F[i + 1] = G[<<F[i], i + 1>>]
    BY <1>2, <1>3, <1>5
  <1> QED BY <1>1, <1>4, <1>6 DEF IsRun

\* Two recursions that start alike and take the same steps end alike.
LEMMA RunsAgree ==
    ASSUME NEW m \in Nat, NEW E, NEW F, E[0] = F[0],
           \A i \in 0..(m - 1) : E[i] = F[i] => E[i + 1] = F[i + 1]
    PROVE  E[m] = F[m]
  <1> DEFINE T == {i \in Nat : i <= m => E[i] = F[i]}
  <1>1. 0 \in T
    OBVIOUS
  <1>2. ASSUME NEW i \in Nat, i \in T PROVE i + 1 \in T
    <2> SUFFICES ASSUME i + 1 <= m PROVE E[i + 1] = F[i + 1]
      OBVIOUS
    <2>1. i \in 0..(m - 1) /\ i <= m
      OBVIOUS
    <2> QED BY <1>2, <2>1
  <1> HIDE DEF T
  <1>3. Nat \subseteq T
    BY <1>1, <1>2, Induction
  <1> QED BY <1>3 DEF T

-----------------------------------------------------------------------------
(* Splitting a path. *)

\* The atoms of identifiers and those that methods put into a path.
Words ==
    Atoms \union ReadOnly \union DOMAIN BodyKey
    \union {"/", "gateways", "memberships", "pool_members", "token", "rotate",
            "verify", "unverify"}

\* Nothing on the wire ends the path.
Text == Seq(Words)
Glyph == [atom : Words, escaped : BOOLEAN] \ {Literal("?")}
Wire == Seq(Glyph)

\* What a split is made of: at least one segment.
Splits == Seq(Wire) \ {<<>>}

SplitStep(segments, w) ==
    IF w = Slash THEN Append(segments, <<>>)
    ELSE Append(Front(segments), Append(Last(segments), w))

SplitSteps(wire) ==
    [p \in Splits \X Nat |->
        IF p[2] \in 1..Len(wire) THEN SplitStep(p[1], wire[p[2]]) ELSE p[1]]

\* A step of a split keeps at least one segment.
LEMMA SplitStepType ==
    ASSUME NEW segments \in Splits, NEW w \in Glyph
    PROVE  SplitStep(segments, w) \in Splits
  <1>1. segments \in Seq(Wire) /\ Len(segments) \in Nat /\ Len(segments) # 0
    BY EmptySeq DEF Splits
  <1>2. Last(segments) \in Wire /\ Front(segments) \in Seq(Wire)
    BY <1>1 DEF Last, Front
  <1>3. Append(Last(segments), w) \in Wire /\ <<>> \in Wire
    BY <1>2 DEF Wire
  <1>4. \A s \in Seq(Wire) : \A x \in Wire :
            Append(s, x) \in Seq(Wire) /\ Append(s, x) # <<>>
    BY AppendProperties
  <1> QED BY <1>1, <1>2, <1>3, <1>4 DEF SplitStep, Splits

\* The steps of a split, as a function of what is split so far.
LEMMA SplitStepsType ==
    ASSUME NEW wire \in Wire
    PROVE  /\ SplitSteps(wire) \in [Splits \X Nat -> Splits]
           /\ <<<<>>>> \in Splits
  <1>1. \A i \in 1..Len(wire) : wire[i] \in Glyph
    BY DEF Wire
  <1>2. <<<<>>>> \in Splits
    BY DEF Splits, Wire
  <1> QED BY <1>1, <1>2, SplitStepType DEF SplitSteps

\* Splitting is a run of its steps.
LEMMA SplitRuns ==
    ASSUME NEW wire \in Wire
    PROVE  \E F : /\ IsRun(F, Len(wire), Splits, <<<<>>>>, SplitSteps(wire))
                  /\ Split(wire) = F[Len(wire)]
  <1> DEFINE n == Len(wire)
             G == SplitSteps(wire)
             IsSplit(g) == g = [s \in SUBSET DOMAIN wire |->
                                IF s = {} THEN <<<<>>>>
                                ELSE SplitStep(g[s \ {Max(s)}], wire[Max(s)])]
             h == CHOOSE g : IsSplit(g)
  <1>1. Split(wire) = h[DOMAIN wire]
    BY DEF Split, FoldLeft, MapThenFoldSet, SplitStep
  <1>2. DOMAIN wire = 1..n /\ n \in Nat
    BY DEF Wire
  <1>3. G \in [Splits \X Nat -> Splits] /\ <<<<>>>> \in Splits
    BY SplitStepsType
  <1>4. \A x \in Splits : \A i \in 1..n : G[<<x, i>>] = SplitStep(x, wire[i])
    BY <1>2 DEF SplitSteps
  <1> HIDE DEF G, n
  <1>5. PICK g \in [SUBSET (1..n) -> Splits] : IsFold(g, n, <<<<>>>>, G)
    BY <1>2, <1>3, FoldExists
  <1>6. IsSplit(g)
    <2>1. ASSUME NEW s \in SUBSET (1..n), s # {}
          PROVE  G[<<g[s \ {Max(s)}], Max(s)>>] = SplitStep(g[s \ {Max(s)}], wire[Max(s)])
      <3>1. Max(s) \in 1..n /\ s \ {Max(s)} \in SUBSET (1..n)
        BY <1>2, <2>1, LargestIn
      <3> QED BY <1>4, <1>5, <3>1
    <2> QED BY <1>2, <1>5, <2>1 DEF IsFold
  <1>7. IsSplit(h)
    BY <1>6
  <1> HIDE DEF h
  <1>8. h[{}] = <<<<>>>>
    BY <1>7
  <1>9. ASSUME NEW s \in SUBSET (1..n), s # {}, h[s \ {Max(s)}] \in Splits
        PROVE  h[s] = G[<<h[s \ {Max(s)}], Max(s)>>]
    <2>1. Max(s) \in 1..n
      BY <1>2, <1>9, LargestIn
    <2>2. h[s] = SplitStep(h[s \ {Max(s)}], wire[Max(s)])
      BY <1>2, <1>7, <1>9
    <2> QED BY <1>4, <1>9, <2>1, <2>2
  <1>10. PICK F : F = [i \in 0..n |-> h[1..i]]
    OBVIOUS
  <1>11. IsRun(F, n, Splits, <<<<>>>>, G)
    <2>1. \A s \in SUBSET (1..n) : s # {} /\ h[s \ {Max(s)}] \in Splits
              => h[s] = G[<<h[s \ {Max(s)}], Max(s)>>]
      BY <1>9
    <2> HIDE DEF IsSplit
    <2> QED BY <1>2, <1>3, <1>8, <1>10, <2>1, FoldRuns
  <1>12. F[n] = h[1..n]
    BY <1>2, <1>10
  <1> QED BY <1>1, <1>2, <1>11, <1>12 DEF G, n

\* An empty path is one empty segment.
LEMMA SplitEmpty == Split(<<>>) = <<<<>>>>
  <1>1. <<>> \in Wire /\ Len(<<>>) = 0
    BY EmptySeq DEF Wire
  <1> QED BY <1>1, SplitRuns DEF IsRun

\* One more glyph is one more step.
LEMMA SplitAppend ==
    ASSUME NEW wire \in Wire, NEW w \in Glyph
    PROVE  /\ Split(wire) \in Splits
           /\ Split(Append(wire, w)) = SplitStep(Split(wire), w)
  <1> DEFINE n == Len(wire)
             more == Append(wire, w)
  <1>1. /\ n \in Nat /\ more \in Wire /\ Len(more) = n + 1 /\ more[n + 1] = w
        /\ \A i \in 1..n : more[i] = wire[i]
    BY AppendProperties, LenProperties DEF Wire
  <1>2. PICK E : /\ IsRun(E, n, Splits, <<<<>>>>, SplitSteps(wire))
                 /\ Split(wire) = E[n]
    BY SplitRuns
  <1> HIDE DEF n, more
  <1>3. PICK F : /\ IsRun(F, n + 1, Splits, <<<<>>>>, SplitSteps(more))
                 /\ Split(more) = F[n + 1]
    BY <1>1, SplitRuns
  <1>4. \A s \in Splits : \A i \in 1..n :
            SplitSteps(wire)[<<s, i>>] = SplitSteps(more)[<<s, i>>]
    <2> SUFFICES ASSUME NEW s \in Splits, NEW i \in 1..n
                 PROVE  SplitSteps(wire)[<<s, i>>] = SplitSteps(more)[<<s, i>>]
      OBVIOUS
    <2>1. <<s, i>> \in Splits \X Nat /\ i \in 1..Len(wire) /\ i \in 1..Len(more)
      BY <1>1 DEF n
    <2> QED BY <1>1, <2>1 DEF SplitSteps
  <1>5. E[n] = F[n] /\ F[n] \in Splits
    <2>1. <<<<>>>> \in Splits /\ n + 1 \in Nat /\ n <= n + 1 /\ n \in 0..(n + 1)
      BY <1>1, SplitStepsType
    <2>2. F[n] \in Splits
      BY <1>3, <2>1 DEF IsRun
    <2>3. E[0] = F[0]
      BY <1>2, <1>3 DEF IsRun
    <2>4. ASSUME NEW i \in 0..(n - 1), E[i] = F[i] PROVE E[i + 1] = F[i + 1]
      <3>1. i \in 0..((n + 1) - 1) /\ i \in 0..n /\ i + 1 \in 1..n
        BY <1>1
      <3>2. E[i + 1] = SplitSteps(wire)[<<E[i], i + 1>>] /\ E[i] \in Splits
        BY <1>2, <3>1 DEF IsRun
      <3>3. F[i + 1] = SplitSteps(more)[<<F[i], i + 1>>]
        BY <1>3, <3>1 DEF IsRun
      <3> QED BY <1>4, <2>4, <3>1, <3>2, <3>3
    <2>5. E[n] = F[n]
      BY <1>1, <2>3, <2>4, RunsAgree
    <2> QED BY <2>2, <2>5
  <1>6. F[n + 1] = SplitSteps(more)[<<F[n], n + 1>>]
    <2>1. n \in 0..((n + 1) - 1)
      BY <1>1
    <2> QED BY <1>3, <2>1 DEF IsRun
  <1>7. SplitSteps(more)[<<F[n], n + 1>>] = SplitStep(F[n], w)
    <2>1. <<F[n], n + 1>> \in Splits \X Nat /\ n + 1 \in 1..Len(more)
      BY <1>1, <1>5
    <2> QED BY <1>1, <2>1 DEF SplitSteps
  <1> QED BY <1>2, <1>3, <1>5, <1>6, <1>7 DEF more

\* A text without a slash is one segment.
LEMMA SplitOne ==
    ASSUME NEW wire \in Wire, \A i \in 1..Len(wire) : wire[i] # Slash
    PROVE  Split(wire) = <<wire>>
  <1> DEFINE T == {v \in Wire : (\A i \in 1..Len(v) : v[i] # Slash) => Split(v) = <<v>>}
  <1>1. <<>> \in T
    BY SplitEmpty, EmptySeq DEF Wire
  <1>2. ASSUME NEW v \in Seq(Glyph), NEW w \in Glyph, v \in T
        PROVE  Append(v, w) \in T
    <2>1. /\ Append(v, w) \in Wire /\ Len(v) \in Nat /\ Len(Append(v, w)) = Len(v) + 1
          /\ \A i \in 1..Len(v) : Append(v, w)[i] = v[i]
          /\ Append(v, w)[Len(v) + 1] = w
      BY AppendProperties, LenProperties DEF Wire
    <2> SUFFICES ASSUME \A i \in 1..Len(Append(v, w)) : Append(v, w)[i] # Slash
                 PROVE  Split(Append(v, w)) = <<Append(v, w)>>
      BY <2>1
    <2>2. w # Slash /\ \A i \in 1..Len(v) : v[i] # Slash
      BY <2>1
    <2>3. Split(v) = <<v>>
      BY <1>2, <2>2
    <2>4. Front(<<v>>) = <<>> /\ Last(<<v>>) = v
      BY DEF Front, Last
    <2>5. Split(Append(v, w)) = Append(<<>>, Append(v, w))
      BY <2>2, <2>3, <2>4, SplitAppend DEF Wire, SplitStep
    <2> QED BY <2>5
  <1> HIDE DEF T
  <1>3. wire \in T
    BY <1>1, <1>2, SequenceInduction DEF Wire
  <1> QED BY <1>3 DEF T

-----------------------------------------------------------------------------
(* Sequences, end by end. *)

\* Appending to a concatenation appends to its second part.
LEMMA AppendConcat ==
    ASSUME NEW S, NEW s \in Seq(S), NEW t \in Seq(S), NEW e \in S
    PROVE  s \o Append(t, e) = Append(s \o t, e)
  <1>1. Append(t, e) = t \o <<e>> /\ <<e>> \in Seq(S)
    BY AppendIsConcat
  <1>2. s \o t \in Seq(S)
    BY ConcatProperties
  <1>3. Append(s \o t, e) = (s \o t) \o <<e>>
    BY <1>2, AppendIsConcat
  <1>4. (s \o t) \o <<e>> = s \o (t \o <<e>>)
    BY <1>1, ConcatAssociative
  <1> QED BY <1>1, <1>3, <1>4

\* Appending changes neither the rest nor what is last.
LEMMA EndsOfAppend ==
    ASSUME NEW S, NEW s \in Seq(S), NEW e \in S
    PROVE  Front(Append(s, e)) = s /\ Last(Append(s, e)) = e
  <1> DEFINE r == Append(s, e)
  <1>1. /\ r \in Seq(S) /\ Len(r) = Len(s) + 1 /\ Len(s) \in Nat
        /\ r[Len(s) + 1] = e /\ \A i \in 1..Len(s) : r[i] = s[i]
    BY AppendProperties, LenProperties
  <1> HIDE DEF r
  <1>2. \A i \in 1..Len(s) : r[i] \in S
    BY <1>1, ElementOfSeq
  <1>3. /\ SubSeq(r, 1, Len(s)) \in Seq(S) /\ Len(SubSeq(r, 1, Len(s))) = Len(s)
        /\ \A i \in 1..Len(s) : SubSeq(r, 1, Len(s))[i] = r[i]
    BY <1>1, <1>2, SubSeqProperties
  <1>4. SubSeq(r, 1, Len(s)) = s
    BY <1>1, <1>3, SeqEqual
  <1> QED BY <1>1, <1>4 DEF Front, Last, r

\* The front and the last element of a concatenation.
LEMMA EndsOfConcat ==
    ASSUME NEW S, NEW s \in Seq(S), NEW t \in Seq(S), t # <<>>
    PROVE  Front(s \o t) = s \o Front(t) /\ Last(s \o t) = Last(t)
  <1>1. PICK r \in Seq(S), e \in S : t = Append(r, e)
    BY SequenceEmptyOrAppend
  <1>2. Front(t) = r /\ Last(t) = e
    BY <1>1, EndsOfAppend
  <1>3. PICK q \in Seq(S) : q = s \o r
    BY ConcatProperties
  <1>4. s \o t = Append(q, e)
    BY <1>1, <1>3, AppendConcat
  <1>5. Front(Append(q, e)) = q /\ Last(Append(q, e)) = e
    BY EndsOfAppend
  <1> QED BY <1>2, <1>3, <1>4, <1>5

\* The tail of a concatenation.
LEMMA TailOfConcat ==
    ASSUME NEW S, NEW s \in Seq(S), NEW t \in Seq(S), s # <<>>
    PROVE  Tail(s \o t) = Tail(s) \o t
  <1>1. /\ s \o t \in Seq(S) /\ Len(s \o t) = Len(s) + Len(t)
        /\ Len(s) \in Nat \ {0} /\ Len(t) \in Nat
        /\ \A i \in 1..Len(s) + Len(t) :
               (s \o t)[i] = IF i <= Len(s) THEN s[i] ELSE t[i - Len(s)]
    BY ConcatProperties, EmptySeq, LenProperties
  <1>2. s \o t # <<>>
    BY <1>1, EmptySeq
  <1>3. /\ Tail(s) \in Seq(S) /\ Len(Tail(s)) = Len(s) - 1
        /\ \A i \in 1..Len(s) - 1 : Tail(s)[i] = s[i + 1]
    BY HeadTailProperties
  <1>4. /\ Tail(s \o t) \in Seq(S) /\ Len(Tail(s \o t)) = Len(s) + Len(t) - 1
        /\ \A i \in 1..Len(s) + Len(t) - 1 : Tail(s \o t)[i] = (s \o t)[i + 1]
    BY <1>1, <1>2, HeadTailProperties
  <1>5. /\ Tail(s) \o t \in Seq(S) /\ Len(Tail(s) \o t) = Len(s) - 1 + Len(t)
        /\ \A i \in 1..Len(s) - 1 + Len(t) : (Tail(s) \o t)[i] =
               IF i <= Len(s) - 1 THEN Tail(s)[i] ELSE t[i - (Len(s) - 1)]
    BY <1>3, ConcatProperties
  <1>6. ASSUME NEW i \in 1..Len(s) + Len(t) - 1
        PROVE  Tail(s \o t)[i] = (Tail(s) \o t)[i]
    <2>1. i \in 1..Len(s) - 1 + Len(t) /\ i + 1 \in 1..Len(s) + Len(t)
      BY <1>1
    <2>2. CASE i <= Len(s) - 1
      <3>1. i \in 1..Len(s) - 1 /\ i + 1 <= Len(s)
        BY <1>1, <2>2
      <3> QED BY <1>1, <1>3, <1>4, <1>5, <2>1, <2>2, <3>1
    <2>3. CASE ~(i <= Len(s) - 1)
      <3>1. ~(i + 1 <= Len(s)) /\ (i + 1) - Len(s) = i - (Len(s) - 1)
        BY <1>1, <2>3
      <3> QED BY <1>1, <1>4, <1>5, <2>1, <2>3, <3>1
    <2> QED BY <2>2, <2>3
  <1>7. Len(Tail(s \o t)) = Len(Tail(s) \o t)
    BY <1>1, <1>4, <1>5
  <1> QED BY <1>4, <1>5, <1>6, <1>7, SeqEqual

\* A sequence that is one element longer is the shorter one with it.
LEMMA IsAppend ==
    ASSUME NEW S, NEW s \in Seq(S), NEW t \in Seq(S), NEW d \in S,
           Len(t) = Len(s) + 1, t[Len(s) + 1] = d,
           \A i \in 1..Len(s) : t[i] = s[i]
    PROVE  s \o <<d>> = t
  <1>1. PICK u \in Seq(S) : u = Append(s, d)
    BY AppendProperties
  <1>2. /\ Len(u) = Len(s) + 1 /\ u[Len(s) + 1] = d
        /\ \A i \in 1..Len(s) : u[i] = s[i]
    BY <1>1, AppendProperties
  <1>3. \A i \in 1..Len(u) : u[i] = t[i]
    BY <1>2, LenProperties
  <1>4. u = t
    BY <1>2, <1>3, SeqEqual
  <1> QED BY <1>1, <1>4, AppendIsConcat

-----------------------------------------------------------------------------
(* A slash joins what the split takes apart. *)

\* A step of a split leaves the segments before the last alone.
LEMMA SplitStepConcat ==
    ASSUME NEW s \in Seq(Wire), NEW t \in Splits, NEW w \in Glyph
    PROVE  SplitStep(s \o t, w) = s \o SplitStep(t, w)
  <1>1. t \in Seq(Wire) /\ t # <<>>
    BY DEF Splits
  <1>2. Front(s \o t) = s \o Front(t) /\ Last(s \o t) = Last(t)
    BY <1>1, EndsOfConcat
  <1>3. PICK r \in Seq(Wire), e \in Wire : t = Append(r, e)
    BY <1>1, SequenceEmptyOrAppend
  <1>4. Front(t) = r /\ Last(t) = e
    BY <1>3, EndsOfAppend
  <1>5. Append(e, w) \in Wire /\ <<>> \in Wire
    BY <1>3, AppendProperties, EmptySeq DEF Wire
  <1>6. s \o Append(t, <<>>) = Append(s \o t, <<>>)
    BY <1>1, <1>5, AppendConcat
  <1>7. s \o Append(r, Append(e, w)) = Append(s \o r, Append(e, w))
    BY <1>3, <1>5, AppendConcat
  <1> QED BY <1>2, <1>4, <1>6, <1>7 DEF SplitStep

\* A separator may stand on the wire.
LEMMA SlashOnTheWire == Slash \in Glyph /\ <<Slash>> \in Wire
  <1>1. Slash \in [atom : Words, escaped : BOOLEAN]
    <2>1. "/" \in Words
      BY DEF Words
    <2>2. FALSE \in BOOLEAN
      OBVIOUS
    <2>3. Slash = [atom |-> "/", escaped |-> FALSE]
      BY DEF Slash, Literal
    <2> QED BY <2>1, <2>2, <2>3, Zenon
  <1>2. Slash # Literal("?")
    <2>1. Slash.atom = "/" /\ Literal("?").atom = "?"
      BY DEF Slash, Literal
    <2> QED BY <2>1
  <1>3. Slash \in Glyph
    BY <1>1, <1>2 DEF Glyph
  <1> QED BY <1>3 DEF Wire

\* It does not matter to which side a separator is joined first.
LEMMA SlashJoins ==
    ASSUME NEW a \in Wire, NEW b \in Wire
    PROVE  /\ a \o (<<Slash>> \o b) = (a \o <<Slash>>) \o b
           /\ (a \o <<Slash>>) \o b \in Wire
  <1>1. a \o <<Slash>> \in Wire
    BY SlashOnTheWire, ConcatProperties DEF Wire
  <1> QED BY <1>1, SlashOnTheWire, ConcatAssociative, ConcatProperties DEF Wire

\* A path splits at a separator into the segments on its two sides.
LEMMA SplitConcat ==
    ASSUME NEW a \in Wire, NEW b \in Wire
    PROVE  Split((a \o <<Slash>>) \o b) = Split(a) \o Split(b)
  <1> DEFINE front == a \o <<Slash>>
             T == {v \in Wire : Split(front \o v) = Split(a) \o Split(v)}
  <1>1. front = Append(a, Slash) /\ front \in Wire
    BY SlashOnTheWire, AppendIsConcat, AppendProperties DEF Wire
  <1>2. Split(a) \in Splits
    BY SlashOnTheWire, SplitAppend
  <1>3. Split(a) \in Seq(Wire)
    BY <1>2 DEF Splits
  <1>4. <<>> \in T
    <2>1. front \o <<>> = front /\ <<>> \in Wire
      BY <1>1, ConcatEmptySeq, EmptySeq DEF Wire
    <2>2. Split(front) = Append(Split(a), <<>>)
      BY <1>1, SlashOnTheWire, SplitAppend DEF SplitStep
    <2>3. Append(Split(a), <<>>) = Split(a) \o <<<<>>>>
      BY <1>3, <2>1, AppendIsConcat
    <2> QED BY <2>1, <2>2, <2>3, SplitEmpty
  <1> HIDE DEF front
  <1>5. ASSUME NEW v \in Seq(Glyph), NEW w \in Glyph, v \in T
        PROVE  Append(v, w) \in T
    <2>1. v \in Wire /\ Append(v, w) \in Wire
      BY AppendProperties DEF Wire
    <2>2. front \o Append(v, w) = Append(front \o v, w) /\ front \o v \in Wire
      BY <1>1, AppendConcat, ConcatProperties DEF Wire
    <2>3. Split(Append(front \o v, w)) = SplitStep(Split(front \o v), w)
      BY <2>2, SplitAppend
    <2>4. /\ Split(v) \in Splits
          /\ Split(Append(v, w)) = SplitStep(Split(v), w)
      BY <2>1, SplitAppend
    <2>5. Split(front \o v) = Split(a) \o Split(v)
      BY <1>5
    <2>6. SplitStep(Split(a) \o Split(v), w) = Split(a) \o SplitStep(Split(v), w)
      BY <1>3, <2>4, SplitStepConcat
    <2> QED BY <2>1, <2>2, <2>3, <2>4, <2>5, <2>6
  <1> HIDE DEF T
  <1>6. Wire \subseteq T
    BY <1>4, <1>5, SequenceInduction DEF Wire
  <1> QED BY <1>6 DEF T, front

-----------------------------------------------------------------------------
(* What escaping does to a text. *)

(* Nothing is lost: the server decodes a segment (buildPath, path.go:50-56)
   to the identifier the caller passed, so no two identifiers share one. *)
THEOREM EscapeLosesNothing ==
    ASSUME NEW S, NEW text \in Seq(S)
    PROVE  PathUnescape(PathEscape(text)) = text
  <1>1. \A i \in DOMAIN text : PathEscape(text)[i] # Literal("%2F")
    BY DEF PathEscape, Literal
  <1>2. DOMAIN PathEscape(text) = DOMAIN text
    BY DEF PathEscape
  <1>3. \A i \in DOMAIN text : PathUnescape(PathEscape(text))[i] = text[i]
    BY <1>1, <1>2 DEF PathUnescape, PathEscape
  <1>4. PathUnescape(PathEscape(text)) = [i \in DOMAIN text |-> text[i]]
    BY <1>2, <1>3 DEF PathUnescape
  <1> QED BY <1>4

(* An identifier stays one segment of the path (path.go:38-49): its escaped
   form holds nothing that separates segments or ends the path. *)
THEOREM EscapeHidesSeparators ==
    ASSUME NEW S, NEW text \in Seq(S), NEW i \in DOMAIN text
    PROVE  PathEscape(text)[i] \notin {Slash, Literal("?"), Literal("%2F")}
  BY DEF PathEscape, Slash, Literal

(* The URL is sent as it was built (path.go:58-66): Path and RawPath agree,
   so net/url has no reason to escape anew, which would turn an escaped slash
   into a separator. *)
THEOREM EscapingSurvives ==
    ASSUME NEW b, NEW requestPath
    PROVE  EscapedPath(ResolvePath(b, requestPath))
               = TrimSlash(b) \o <<Slash>> \o requestPath
  BY DEF EscapedPath, ResolvePath

\* An escaped text can stand on the wire.
LEMMA EscapedOnTheWire ==
    ASSUME NEW text \in Text
    PROVE  PathEscape(text) \in Wire
  <1>1. DOMAIN text = 1..Len(text) /\ Len(text) \in Nat
    BY LenProperties DEF Text
  <1>2. ASSUME NEW i \in DOMAIN text PROVE PathEscape(text)[i] \in Glyph
    <2> DEFINE e == text[i] \in {"/", "?", "%2F"}
    <2>1. PathEscape(text)[i] = [atom |-> text[i], escaped |-> e]
      BY DEF PathEscape
    <2>2. text[i] \in Words
      BY <1>1, <1>2, ElementOfSeq DEF Text
    <2>3. e \in BOOLEAN
      OBVIOUS
    <2> HIDE DEF e
    <2>4. [atom |-> text[i], escaped |-> e] \in [atom : Words, escaped : BOOLEAN]
      BY <2>2, <2>3, Zenon
    <2>5. PathEscape(text)[i] # Literal("?")
      BY EscapeHidesSeparators DEF Text
    <2> QED BY <2>1, <2>4, <2>5 DEF Glyph
  <1>3. PathEscape(text) = [i \in DOMAIN text |-> PathEscape(text)[i]]
    BY DEF PathEscape
  <1>4. PathEscape(text) \in [1..Len(text) -> Glyph]
    BY <1>1, <1>2, <1>3
  <1> QED BY <1>1, <1>4, SeqDef DEF Wire

\* It is one segment, whatever it holds.
LEMMA EscapedIsOneSegment ==
    ASSUME NEW text \in Text
    PROVE  Split(PathEscape(text)) = <<PathEscape(text)>>
  <1>1. DOMAIN text = DOMAIN PathEscape(text)
    BY DEF PathEscape
  <1>2. PathEscape(text) \in Wire
    BY EscapedOnTheWire
  <1>3. DOMAIN PathEscape(text) = 1..Len(PathEscape(text))
    BY <1>2, LenProperties DEF Wire
  <1>4. \A i \in 1..Len(PathEscape(text)) : PathEscape(text)[i] # Slash
    BY <1>1, <1>3, EscapeHidesSeparators DEF Text
  <1> QED BY <1>2, <1>4, SplitOne

-----------------------------------------------------------------------------
(* Building a path. *)

\* The segments a path is built from, as they stand on the wire.
Escaped(segments) == [i \in DOMAIN segments |-> PathEscape(segments[i])]

Pieces(segments) ==
    [i \in DOMAIN segments |->
        (IF i = 1 THEN <<>> ELSE <<Slash>>) \o PathEscape(segments[i])]

\* The segments joined so far, which is how FlattenSeq is defined.
Joins(f, segments) ==
    f = [i \in 1..Len(segments) |->
            IF i = 1 THEN Pieces(segments)[i]
            ELSE f[i - 1] \o Pieces(segments)[i]]

\* What BuildPath joins: one piece for every segment.
LEMMA PiecesType ==
    ASSUME NEW segments \in Seq(Text)
    PROVE  /\ DOMAIN segments = 1..Len(segments) /\ Len(segments) \in Nat
           /\ Pieces(segments) \in Seq(Wire)
           /\ Len(Pieces(segments)) = Len(segments)
           /\ \A i \in 1..Len(segments) :
                  /\ PathEscape(segments[i]) \in Wire
                  /\ Pieces(segments)[i] \in Wire
                  /\ i = 1 => Pieces(segments)[i] = PathEscape(segments[i])
                  /\ i # 1 => Pieces(segments)[i] = <<Slash>> \o PathEscape(segments[i])
  <1>1. DOMAIN segments = 1..Len(segments) /\ Len(segments) \in Nat
    BY LenProperties
  <1>2. ASSUME NEW i \in 1..Len(segments)
        PROVE  /\ PathEscape(segments[i]) \in Wire
               /\ Pieces(segments)[i] \in Wire
               /\ i = 1 => Pieces(segments)[i] = PathEscape(segments[i])
               /\ i # 1 => Pieces(segments)[i] = <<Slash>> \o PathEscape(segments[i])
    <2>1. PathEscape(segments[i]) \in Wire
      BY EscapedOnTheWire, ElementOfSeq
    <2>2. <<>> \o PathEscape(segments[i]) = PathEscape(segments[i])
      BY <2>1, ConcatEmptySeq DEF Wire
    <2>3. <<Slash>> \o PathEscape(segments[i]) \in Wire
      BY <2>1, SlashOnTheWire, ConcatProperties DEF Wire
    <2> QED BY <1>1, <2>1, <2>2, <2>3 DEF Pieces
  <1>3. Pieces(segments) = [i \in DOMAIN segments |-> Pieces(segments)[i]]
    BY DEF Pieces
  <1>4. Pieces(segments) \in [1..Len(segments) -> Wire]
    BY <1>1, <1>2, <1>3
  <1>5. Pieces(segments) \in Seq(Wire)
    BY <1>1, <1>4, SeqDef
  <1>6. Len(Pieces(segments)) = Len(segments)
    <2>1. DOMAIN Pieces(segments) = 1..Len(Pieces(segments))
          /\ Len(Pieces(segments)) \in Nat
      BY <1>5, LenProperties
    <2> QED BY <1>1, <1>4, <2>1
  <1> QED BY <1>1, <1>2, <1>5, <1>6

\* The recursion by which FlattenSeq joins pieces has a solution.
LEMMA JoinExists ==
    ASSUME NEW segments \in Seq(Text)
    PROVE  \E f : Joins(f, segments)
  <1> DEFINE n == Len(segments)
             P == Pieces(segments)
             G == [p \in Wire \X Nat |->
                      IF p[2] \in 1..n /\ p[2] = 1 THEN P[p[2]]
                      ELSE IF p[2] \in 1..n THEN p[1] \o P[p[2]] ELSE p[1]]
  <1>1. n \in Nat /\ \A i \in 1..n : P[i] \in Wire
    BY PiecesType
  <1>2. G \in [Wire \X Nat -> Wire]
    <2>1. \A w \in Wire : \A i \in 1..n : w \o P[i] \in Wire
      BY <1>1, ConcatProperties DEF Wire
    <2> HIDE DEF P, n
    <2> QED BY <1>1, <2>1
  <1>3. \A w \in Wire : \A i \in 1..n :
            G[<<w, i>>] = IF i = 1 THEN P[i] ELSE w \o P[i]
    BY <1>1
  <1>4. <<>> \in Wire
    BY EmptySeq DEF Wire
  <1> HIDE DEF G, n, P
  <1>5. PICK g \in [SUBSET (1..n) -> Wire] : IsFold(g, n, <<>>, G)
    BY <1>1, <1>2, <1>4, FoldExists
  <1> DEFINE f == [i \in 1..n |-> g[1..i]]
  <1>6. ASSUME NEW i \in 1..n
        PROVE  f[i] = IF i = 1 THEN P[i] ELSE f[i - 1] \o P[i]
    <2>1. /\ 1..i \in SUBSET (1..n) /\ 1..i # {} /\ Max(1..i) = i
          /\ (1..i) \ {i} = 1..(i - 1)
      BY <1>1, LargestUpTo
    <2>4. g[1..i] = G[<<g[1..(i - 1)], i>>]
      BY <1>5, <2>1 DEF IsFold
    <2>5. g[1..(i - 1)] \in Wire
      <3>1. 1..(i - 1) \in SUBSET (1..n)
        BY <2>1
      <3> QED BY <1>5, <3>1
    <2>6. g[1..i] = IF i = 1 THEN P[i] ELSE g[1..(i - 1)] \o P[i]
      BY <1>3, <2>4, <2>5
    <2>7. i # 1 => i - 1 \in 1..n
      BY <1>1
    <2> QED BY <2>6, <2>7
  <1>7. f = [i \in 1..n |-> f[i]]
    OBVIOUS
  <1> HIDE DEF f
  <1>8. f = [i \in 1..n |-> IF i = 1 THEN P[i] ELSE f[i - 1] \o P[i]]
    BY <1>6, <1>7
  <1> QED BY <1>8 DEF Joins, P, n

(* A path says what it was built from: splitting it gives back the caller's
   segments, each escaped, in order (buildPath, path.go:50-56). *)
THEOREM BuildPathSplits ==
    ASSUME NEW segments \in Seq(Text), segments # <<>>
    PROVE  /\ BuildPath(segments) \in Wire
           /\ Split(BuildPath(segments)) = Escaped(segments)
  <1> DEFINE n == Len(segments)
             P == Pieces(segments)
             h == CHOOSE f : Joins(f, segments)
             E == Escaped(segments)
  <1>1. /\ n \in Nat \ {0} /\ Len(P) = n /\ DOMAIN segments = 1..n
        /\ \A i \in 1..n :
              /\ E[i] \in Wire
              /\ P[i] \in Wire
              /\ i = 1 => P[i] = E[i]
              /\ i # 1 => P[i] = <<Slash>> \o E[i]
    BY PiecesType, EmptySeq DEF Escaped
  <1>2. BuildPath(segments) = h[n]
    <2>1. BuildPath(segments) = FlattenSeq(P)
      BY DEF BuildPath, Pieces
    <2>2. FlattenSeq(P) = h[n]
      BY <1>1 DEF FlattenSeq, Joins
    <2> QED BY <2>1, <2>2
  <1>3. Joins(h, segments)
    BY JoinExists
  <1>4. E = [i \in 1..n |-> E[i]]
    BY <1>1 DEF Escaped
  <1> HIDE DEF h, P, E
  <1>5. h = [i \in 1..n |-> IF i = 1 THEN P[i] ELSE h[i - 1] \o P[i]]
    BY <1>3 DEF Joins, P
  <1> HIDE DEF n
  <1> DEFINE T == {i \in Nat : i \in 1..n =>
                      /\ h[i] \in Wire
                      /\ Split(h[i]) = [j \in 1..i |-> E[j]]}
  <1>6. 0 \in T
    OBVIOUS
  <1>7. ASSUME NEW i \in Nat, i \in T PROVE i + 1 \in T
    <2> SUFFICES ASSUME i + 1 \in 1..n
                 PROVE  /\ h[i + 1] \in Wire
                        /\ Split(h[i + 1]) = [j \in 1..(i + 1) |-> E[j]]
      OBVIOUS
    <2>1. E[i + 1] \in Wire /\ Split(E[i + 1]) = <<E[i + 1]>>
      <3>1. segments[i + 1] \in Text
        BY ElementOfSeq DEF n
      <3>2. E[i + 1] = PathEscape(segments[i + 1])
        BY <1>1 DEF E, Escaped
      <3> QED BY <3>1, <3>2, EscapedOnTheWire, EscapedIsOneSegment
    <2>2. CASE i = 0
      <3>1. h[i + 1] = E[i + 1]
        BY <1>1, <1>5, <2>2
      <3>2. <<E[1]>> = [j \in 1..1 |-> E[j]]
        OBVIOUS
      <3> QED BY <2>1, <2>2, <3>1, <3>2
    <2>3. CASE i # 0
      <3>1. i \in 1..n /\ i + 1 # 1 /\ (i + 1) - 1 = i
        BY <1>1, <2>3
      <3>2. h[i] \in Wire /\ Split(h[i]) = [j \in 1..i |-> E[j]]
        BY <1>7, <3>1
      <3>3. h[i + 1] = h[i] \o (<<Slash>> \o E[i + 1])
        BY <1>1, <1>5, <3>1
      <3>4. h[i + 1] = (h[i] \o <<Slash>>) \o E[i + 1]
        BY <2>1, <3>2, <3>3, SlashJoins
      <3>5. h[i + 1] \in Wire
        BY <2>1, <3>2, <3>4, SlashJoins
      <3>6. Split(h[i + 1]) = Split(h[i]) \o <<E[i + 1]>>
        BY <2>1, <3>2, <3>4, SplitConcat
      <3>7. [j \in 1..i |-> E[j]] \o <<E[i + 1]>> = [j \in 1..(i + 1) |-> E[j]]
        <4> DEFINE s == [j \in 1..i |-> E[j]]
        <4>1. s \in Seq(Wire) /\ Len(s) = i
          BY <1>1, <3>1
        <4>2. s \o <<E[i + 1]>> = Append(s, E[i + 1])
          BY <2>1, <4>1, AppendIsConcat
        <4>3. Append(s, E[i + 1]) = [j \in 1..(i + 1) |-> E[j]]
          BY <4>1
        <4> QED BY <4>2, <4>3
      <3> QED BY <3>2, <3>5, <3>6, <3>7
    <2> QED BY <2>2, <2>3
  <1> HIDE DEF T
  <1>8. Nat \subseteq T
    BY <1>6, <1>7, Induction
  <1>9. n \in T /\ n \in 1..n
    BY <1>1, <1>8
  <1> QED BY <1>2, <1>4, <1>9 DEF T, E

-----------------------------------------------------------------------------
(* What a normalising proxy makes of segments. *)

Dot == <<Literal(".")>>
DotDot == <<Literal("."), Literal(".")>>

NormalStep(kept, s) ==
    IF s \in {<<>>, Dot} THEN kept
    ELSE IF s # DotDot THEN Append(kept, s)
    ELSE IF kept = <<>> THEN kept ELSE Front(kept)

NormalSteps(segments) ==
    [p \in Seq(Wire) \X Nat |->
        IF p[2] \in 1..Len(segments) THEN NormalStep(p[1], segments[p[2]]) ELSE p[1]]

\* A step of the proxy keeps segments segments.
LEMMA NormalStepType ==
    ASSUME NEW kept \in Seq(Wire), NEW s \in Wire
    PROVE  NormalStep(kept, s) \in Seq(Wire)
  <1>1. Append(kept, s) \in Seq(Wire)
    BY AppendProperties
  <1>2. CASE kept = <<>>
    BY <1>1, <1>2 DEF NormalStep
  <1>3. CASE kept # <<>>
    <2>1. PICK r \in Seq(Wire), e \in Wire : kept = Append(r, e)
      BY <1>3, SequenceEmptyOrAppend
    <2>2. Front(kept) = r
      BY <2>1, EndsOfAppend
    <2> QED BY <1>1, <2>2 DEF NormalStep
  <1> QED BY <1>2, <1>3

\* Normalising is a run of its steps.
LEMMA NormalRuns ==
    ASSUME NEW segments \in Seq(Wire)
    PROVE  \E F : /\ IsRun(F, Len(segments), Seq(Wire), <<>>, NormalSteps(segments))
                  /\ Normalised(segments) = F[Len(segments)]
  <1> DEFINE n == Len(segments)
             G == NormalSteps(segments)
             IsNormal(g) == g = [s \in SUBSET DOMAIN segments |->
                                 IF s = {} THEN <<>>
                                 ELSE NormalStep(g[s \ {Max(s)}], segments[Max(s)])]
             h == CHOOSE g : IsNormal(g)
  <1>1. Normalised(segments) = h[DOMAIN segments]
    BY DEF Normalised, FoldLeft, MapThenFoldSet, NormalStep, Dot, DotDot
  <1>2. DOMAIN segments = 1..n /\ n \in Nat
    BY LenProperties
  <1>3. G \in [Seq(Wire) \X Nat -> Seq(Wire)] /\ <<>> \in Seq(Wire)
    <2>1. \A i \in 1..Len(segments) : segments[i] \in Wire
      BY ElementOfSeq
    <2> QED BY <2>1, NormalStepType, EmptySeq DEF NormalSteps
  <1>4. \A x \in Seq(Wire) : \A i \in 1..n : G[<<x, i>>] = NormalStep(x, segments[i])
    BY <1>2 DEF NormalSteps
  <1> HIDE DEF G, n
  <1>5. PICK g \in [SUBSET (1..n) -> Seq(Wire)] : IsFold(g, n, <<>>, G)
    BY <1>2, <1>3, FoldExists
  <1>6. IsNormal(g)
    <2>1. ASSUME NEW s \in SUBSET (1..n), s # {}
          PROVE  G[<<g[s \ {Max(s)}], Max(s)>>] = NormalStep(g[s \ {Max(s)}], segments[Max(s)])
      <3>1. Max(s) \in 1..n /\ s \ {Max(s)} \in SUBSET (1..n)
        BY <1>2, <2>1, LargestIn
      <3> QED BY <1>4, <1>5, <3>1
    <2> QED BY <1>2, <1>5, <2>1 DEF IsFold
  <1>7. IsNormal(h)
    BY <1>6
  <1> HIDE DEF h
  <1>8. h[{}] = <<>>
    BY <1>7
  <1>9. ASSUME NEW s \in SUBSET (1..n), s # {}, h[s \ {Max(s)}] \in Seq(Wire)
        PROVE  h[s] = G[<<h[s \ {Max(s)}], Max(s)>>]
    <2>1. Max(s) \in 1..n
      BY <1>2, <1>9, LargestIn
    <2>2. h[s] = NormalStep(h[s \ {Max(s)}], segments[Max(s)])
      BY <1>2, <1>7, <1>9
    <2> QED BY <1>4, <1>9, <2>1, <2>2
  <1>10. PICK F : F = [i \in 0..n |-> h[1..i]]
    OBVIOUS
  <1>11. IsRun(F, n, Seq(Wire), <<>>, G)
    <2>1. \A s \in SUBSET (1..n) : s # {} /\ h[s \ {Max(s)}] \in Seq(Wire)
              => h[s] = G[<<h[s \ {Max(s)}], Max(s)>>]
      BY <1>9
    <2> HIDE DEF IsNormal
    <2> QED BY <1>2, <1>3, <1>8, <1>10, <2>1, FoldRuns
  <1>12. F[n] = h[1..n]
    BY <1>2, <1>10
  <1> QED BY <1>1, <1>2, <1>11, <1>12 DEF G, n

\* Normalising nothing gives nothing.
LEMMA NormalisedEmpty == Normalised(<<>>) = <<>>
  <1>1. <<>> \in Seq(Wire) /\ Len(<<>>) = 0
    BY EmptySeq
  <1> QED BY <1>1, NormalRuns DEF IsRun

\* One more segment is one more step.
LEMMA NormalisedAppend ==
    ASSUME NEW segments \in Seq(Wire), NEW s \in Wire
    PROVE  /\ Normalised(segments) \in Seq(Wire)
           /\ Normalised(Append(segments, s)) = NormalStep(Normalised(segments), s)
  <1> DEFINE n == Len(segments)
             more == Append(segments, s)
             S == Seq(Wire)
  <1>1. /\ n \in Nat /\ more \in S /\ Len(more) = n + 1 /\ more[n + 1] = s
        /\ \A i \in 1..n : more[i] = segments[i]
    BY AppendProperties, LenProperties
  <1>2. PICK E : /\ IsRun(E, n, S, <<>>, NormalSteps(segments))
                 /\ Normalised(segments) = E[n]
    BY NormalRuns
  <1> HIDE DEF n, more
  <1>3. PICK F : /\ IsRun(F, n + 1, S, <<>>, NormalSteps(more))
                 /\ Normalised(more) = F[n + 1]
    BY <1>1, NormalRuns
  <1>4. ASSUME NEW x \in S, NEW i \in 1..n
        PROVE  NormalSteps(segments)[<<x, i>>] = NormalSteps(more)[<<x, i>>]
    <2>1. <<x, i>> \in S \X Nat /\ i \in 1..Len(segments) /\ i \in 1..Len(more)
      BY <1>1 DEF n
    <2> QED BY <1>1, <2>1 DEF NormalSteps
  <1>5. E[n] = F[n] /\ F[n] \in S
    <2>1. n \in 0..(n + 1)
      BY <1>1
    <2>2. F[n] \in S
      BY <1>3, <2>1 DEF IsRun
    <2>3. E[0] = F[0]
      BY <1>2, <1>3 DEF IsRun
    <2>4. ASSUME NEW i \in 0..(n - 1), E[i] = F[i] PROVE E[i + 1] = F[i + 1]
      <3>1. i \in 0..((n + 1) - 1) /\ i \in 0..n /\ i + 1 \in 1..n
        BY <1>1
      <3>2. E[i + 1] = NormalSteps(segments)[<<E[i], i + 1>>] /\ E[i] \in S
        BY <1>2, <3>1 DEF IsRun
      <3>3. F[i + 1] = NormalSteps(more)[<<F[i], i + 1>>]
        BY <1>3, <3>1 DEF IsRun
      <3> QED BY <1>4, <2>4, <3>1, <3>2, <3>3
    <2>5. E[n] = F[n]
      BY <1>1, <2>3, <2>4, RunsAgree
    <2> QED BY <2>2, <2>5
  <1>6. F[n + 1] = NormalSteps(more)[<<F[n], n + 1>>]
    <2>1. n \in 0..((n + 1) - 1)
      BY <1>1
    <2> QED BY <1>3, <2>1 DEF IsRun
  <1>7. NormalSteps(more)[<<F[n], n + 1>>] = NormalStep(F[n], s)
    <2>1. <<F[n], n + 1>> \in S \X Nat /\ n + 1 \in 1..Len(more)
      BY <1>1, <1>5
    <2> QED BY <1>1, <2>1 DEF NormalSteps
  <1> QED BY <1>2, <1>3, <1>5, <1>6, <1>7 DEF more

\* The segments that a normalising proxy keeps.
Plain == Wire \ {<<>>, Dot, DotDot}

\* A normalising proxy keeps every segment that is not empty and no dot
\* segment, whatever stood before.
LEMMA NormalisedConcat ==
    ASSUME NEW before \in Seq(Wire), NEW after \in Seq(Plain)
    PROVE  Normalised(before \o after) = Normalised(before) \o after
  <1> DEFINE T == {t \in Seq(Plain) :
                       Normalised(before \o t) = Normalised(before) \o t}
  <1>1. <<>> \in T
    <2>1. before \o <<>> = before /\ <<>> \in Wire
      BY ConcatEmptySeq, EmptySeq DEF Wire
    <2>2. Normalised(before) \in Seq(Wire)
      BY <2>1, NormalisedAppend
    <2>3. Normalised(before) \o <<>> = Normalised(before)
      BY <2>2, ConcatEmptySeq
    <2> QED BY <2>1, <2>3, EmptySeq
  <1>2. ASSUME NEW t \in Seq(Plain), NEW e \in Plain, t \in T
        PROVE  Append(t, e) \in T
    <2>1. /\ t \in Seq(Wire) /\ e \in Wire /\ e \notin {<<>>, Dot, DotDot}
          /\ Append(t, e) \in Seq(Plain)
      BY SeqMonotonic, AppendProperties DEF Plain
    <2>2. before \o Append(t, e) = Append(before \o t, e) /\ before \o t \in Seq(Wire)
      BY <2>1, AppendConcat, ConcatProperties
    <2>3. Normalised(Append(before \o t, e)) = NormalStep(Normalised(before \o t), e)
      BY <2>1, <2>2, NormalisedAppend
    <2>4. NormalStep(Normalised(before \o t), e) = Append(Normalised(before) \o t, e)
      BY <1>2, <2>1 DEF NormalStep
    <2>5. PICK kept \in Seq(Wire) : kept = Normalised(before)
      BY <2>1, NormalisedAppend
    <2>6. kept \o Append(t, e) = Append(kept \o t, e)
      BY <2>1, AppendConcat
    <2> QED BY <2>1, <2>2, <2>3, <2>4, <2>5, <2>6
  <1> HIDE DEF T
  <1>3. after \in T
    BY <1>1, <1>2, SequenceInduction
  <1> QED BY <1>3 DEF T

-----------------------------------------------------------------------------
(* From the caller's segments to the router's. *)

\* Dots are not escaped, so dot segments stay what they are.
LEMMA DotsOnTheWire ==
    /\ PathEscape(<<".">>) = Dot
    /\ PathEscape(<<".", ".">>) = DotDot
    /\ PathEscape(<<>>) = <<>>
  <1>1. ("." \in {"/", "?", "%2F"}) = FALSE
    OBVIOUS
  <1>2. ASSUME NEW s, \A i \in DOMAIN s : s[i] = "."
        PROVE  PathEscape(s) = [i \in DOMAIN s |-> Literal(".")]
    <2>1. \A i \in DOMAIN s :
              [atom |-> s[i], escaped |-> s[i] \in {"/", "?", "%2F"}] = Literal(".")
      BY <1>1, <1>2 DEF Literal
    <2> QED BY <2>1 DEF PathEscape
  <1>3. DOMAIN <<".">> = 1..1 /\ \A i \in 1..1 : <<".">>[i] = "."
    OBVIOUS
  <1>4. DOMAIN <<".", ".">> = 1..2 /\ \A i \in 1..2 : <<".", ".">>[i] = "."
    OBVIOUS
  <1>5. [i \in 1..1 |-> Literal(".")] = Dot
    BY DEF Dot
  <1>6. [i \in 1..2 |-> Literal(".")] = DotDot
    BY DEF DotDot
  <1>7. PathEscape(<<>>) = <<>>
    BY DEF PathEscape
  <1> QED BY <1>2, <1>3, <1>4, <1>5, <1>6, <1>7

\* What may stand for one segment: any identifier CheckID lets pass.
Addressable == Text \ {<<>>, <<".">>, <<".", ".">>}

\* CheckID refuses exactly what a normalising proxy would not keep.
LEMMA EscapedIsPlain ==
    ASSUME NEW text \in Addressable
    PROVE  PathEscape(text) \in Plain
  <1>1. PathUnescape(PathEscape(text)) = text
    BY EscapeLosesNothing DEF Addressable, Text
  <1>2. PathUnescape(Dot) = <<".">> /\ PathUnescape(DotDot) = <<".", ".">>
        /\ PathUnescape(<<>>) = <<>>
    <2>1. \A s \in {<<>>, <<".">>, <<".", ".">>} : PathUnescape(PathEscape(s)) = s
      <3>1. <<>> \in Seq({"."}) /\ <<".">> \in Seq({"."}) /\ <<".", ".">> \in Seq({"."})
        OBVIOUS
      <3> QED BY <3>1, EscapeLosesNothing
    <2> QED BY <2>1, DotsOnTheWire
  <1>3. PathEscape(text) \notin {<<>>, Dot, DotDot}
    BY <1>1, <1>2 DEF Addressable
  <1>4. PathEscape(text) \in Wire
    BY EscapedOnTheWire DEF Addressable
  <1> QED BY <1>3, <1>4 DEF Plain

\* Nothing on the wire is taken for the start of a query.
LEMMA NoQuery ==
    ASSUME NEW wire \in Wire
    PROVE  BeforeQuery(wire) = wire
  <1>1. \A i \in 1..Len(wire) : wire[i] # Literal("?")
    BY ElementOfSeq DEF Wire, Glyph
  <1>2. {i \in 1..Len(wire) : wire[i] = Literal("?")} = {}
    BY <1>1
  <1> QED BY <1>2 DEF BeforeQuery, SelectInSeq

\* The base path, less a slash at its end, may stand on the wire.
LEMMA BaseOnTheWire ==
    ASSUME NEW b \in Bases
    PROVE  TrimSlash(b) \in Wire
  <1>1. /\ b \in Seq([atom : Atoms, escaped : BOOLEAN])
        /\ \A i \in DOMAIN b : b[i] # Literal("?")
    BY BasesAssumption
  <1>2. DOMAIN b = 1..Len(b) /\ Len(b) \in Nat /\ b \in [1..Len(b) -> Glyph]
    <2>1. /\ DOMAIN b = 1..Len(b) /\ Len(b) \in Nat
          /\ b \in [1..Len(b) -> [atom : Atoms, escaped : BOOLEAN]]
      BY <1>1, LenProperties
    <2>2. Atoms \subseteq Words
      BY DEF Words
    <2>3. [atom : Atoms, escaped : BOOLEAN] \subseteq [atom : Words, escaped : BOOLEAN]
      BY <2>2
    <2>4. \A i \in 1..Len(b) : b[i] \in Glyph
      BY <1>1, <2>1, <2>3 DEF Glyph
    <2> QED BY <2>1, <2>4
  <1>3. b \in Wire
    BY <1>2, SeqDef DEF Wire
  <1>4. CASE b = <<>>
    BY <1>3, <1>4 DEF TrimSlash
  <1>5. CASE b # <<>>
    <2>1. PICK r \in Seq(Glyph), e \in Glyph : b = Append(r, e)
      BY <1>3, <1>5, SequenceEmptyOrAppend DEF Wire
    <2>2. Front(b) = r
      BY <2>1, EndsOfAppend
    <2> QED BY <1>3, <2>1, <2>2 DEF TrimSlash, Wire
  <1> QED BY <1>4, <1>5

\* The segments of a request are those of the base, then the caller's.
LEMMA SegmentsOfRequest ==
    ASSUME NEW b \in Wire, NEW path \in Seq(Addressable), path # <<>>,
           NEW normalise \in BOOLEAN
    PROVE  /\ Segments(b, normalise) \in Seq(Wire)
           /\ Segments((b \o <<Slash>>) \o BuildPath(path), normalise)
                  = Segments(b, normalise) \o Escaped(path)
           /\ Escaped(path) \in Seq(Plain)
  <1>1. /\ DOMAIN path = 1..Len(path) /\ Len(path) \in Nat
        /\ \A i \in 1..Len(path) : path[i] \in Addressable
    BY LenProperties, ElementOfSeq
  <1>2. path \in Seq(Text)
    <2>1. Addressable \subseteq Text
      BY DEF Addressable
    <2> QED BY <2>1, SeqMonotonic
  <1>3. Escaped(path) \in Seq(Plain)
    <2>1. \A i \in 1..Len(path) : PathEscape(path[i]) \in Plain
      BY <1>1, EscapedIsPlain
    <2>2. Escaped(path) \in [1..Len(path) -> Plain]
      BY <1>1, <2>1 DEF Escaped
    <2> QED BY <1>1, <2>2, SeqDef
  <1>4. PICK wire \in Wire : wire = BuildPath(path) /\ Split(wire) = Escaped(path)
    BY <1>2, BuildPathSplits
  <1>5. PICK whole \in Wire : whole = (b \o <<Slash>>) \o wire
    BY SlashJoins
  <1>6. Split(whole) = Split(b) \o Escaped(path)
    BY <1>4, <1>5, SplitConcat
  <1>7. PICK s \in Seq(Wire) : s = Split(b) /\ s # <<>>
    BY SlashOnTheWire, SplitAppend DEF Splits
  <1>8. PICK t \in Seq(Plain) : t = Escaped(path)
    BY <1>3
  <1>9. t \in Seq(Wire)
    <2>1. Plain \subseteq Wire
      BY DEF Plain
    <2> QED BY <2>1, SeqMonotonic
  <1>10. Tail(s \o t) = Tail(s) \o t /\ Tail(s) \in Seq(Wire)
    BY <1>7, <1>9, TailOfConcat, HeadTailProperties
  <1>11. BeforeQuery(b) = b /\ BeforeQuery(whole) = whole
    BY NoQuery
  <1>12. CASE normalise = FALSE
    <2>1. Segments(b, normalise) = Tail(s)
      BY <1>7, <1>11, <1>12 DEF Segments
    <2>2. Segments(whole, normalise) = Tail(s \o t)
      BY <1>6, <1>7, <1>8, <1>11, <1>12 DEF Segments
    <2> QED BY <1>3, <1>4, <1>5, <1>8, <1>10, <2>1, <2>2
  <1>13. CASE normalise = TRUE
    <2>1. PICK rest \in Seq(Wire) : rest = Tail(s)
      BY <1>10
    <2>2. Normalised(rest \o t) = Normalised(rest) \o t
      BY NormalisedConcat
    <2>3. Normalised(rest) \in Seq(Wire)
      BY SlashOnTheWire, NormalisedAppend
    <2>4. Segments(b, normalise) = Normalised(rest)
      BY <1>7, <1>11, <1>13, <2>1 DEF Segments
    <2>5. Segments(whole, normalise) = Normalised(rest \o t)
      BY <1>6, <1>7, <1>8, <1>10, <1>11, <1>13, <2>1 DEF Segments
    <2> QED BY <1>3, <1>4, <1>5, <1>8, <2>2, <2>3, <2>4, <2>5
  <1> QED BY <1>12, <1>13

(* Escaping keeps an identifier from redirecting a request (path.go:38-49):
   from whatever segments a path is built, under any base, the router sees
   these segments and no others, whether or not a proxy normalises the path. *)
THEOREM RouterSeesTheCallersSegments ==
    ASSUME NEW b \in Bases, NEW path \in Seq(Addressable), path # <<>>,
           NEW normalise \in BOOLEAN
    PROVE  Routed(b, EscapedPath(ResolvePath(b, BuildPath(path))), normalise) = path
  <1> DEFINE whole == EscapedPath(ResolvePath(b, BuildPath(path)))
  <1>1. PICK front \in Wire : front = TrimSlash(b)
    BY BaseOnTheWire
  <1>2. whole = (front \o <<Slash>>) \o BuildPath(path)
    BY <1>1, EscapingSurvives
  <1> HIDE DEF whole
  <1>3. PICK s \in Seq(Wire), t \in Seq(Plain) :
            /\ s = Segments(front, normalise) /\ t = Escaped(path)
            /\ Segments(whole, normalise) = s \o t
    BY <1>2, SegmentsOfRequest
  <1>4. t \in Seq(Wire)
    <2>1. Plain \subseteq Wire
      BY DEF Plain
    <2> QED BY <2>1, SeqMonotonic
  <1>5. /\ Len(s) \in Nat /\ Len(t) \in Nat /\ Len(s \o t) = Len(s) + Len(t)
        /\ \A i \in 1..Len(t) : (s \o t)[Len(s) + i] = t[i]
    <2>1. Len(s) \in Nat /\ Len(t) \in Nat
      BY LenProperties
    <2>2. /\ Len(s \o t) = Len(s) + Len(t)
          /\ \A i \in 1..Len(s) + Len(t) :
                 (s \o t)[i] = IF i <= Len(s) THEN s[i] ELSE t[i - Len(s)]
      BY <1>4, ConcatProperties
    <2>3. ASSUME NEW i \in 1..Len(t) PROVE (s \o t)[Len(s) + i] = t[i]
      <3>1. Len(s) + i \in 1..Len(s) + Len(t) /\ ~(Len(s) + i <= Len(s))
            /\ (Len(s) + i) - Len(s) = i
        BY <2>1
      <3> QED BY <2>2, <3>1
    <2> QED BY <2>1, <2>2, <2>3
  <1>6. /\ DOMAIN path = 1..Len(path) /\ Len(path) \in Nat
        /\ \A i \in 1..Len(path) : path[i] \in Text
    BY LenProperties, ElementOfSeq DEF Addressable
  <1>7. Len(t) = Len(path) /\ \A i \in 1..Len(path) : t[i] = PathEscape(path[i])
    <2>1. DOMAIN t = 1..Len(t)
      BY LenProperties
    <2> QED BY <1>3, <1>5, <1>6, <2>1 DEF Escaped
  <1>8. \A i \in 1..Len(path) : PathUnescape(t[i]) = path[i]
    BY <1>6, <1>7, EscapeLosesNothing DEF Text
  <1>9. Routed(b, whole, normalise)
            = [i \in 1..Len(path) |-> PathUnescape((s \o t)[Len(s) + i])]
    <2>1. Len(s \o t) - Len(s) = Len(path)
      BY <1>5, <1>7
    <2> QED BY <1>1, <1>3, <2>1 DEF Routed
  <1>10. \A i \in 1..Len(path) : PathUnescape((s \o t)[Len(s) + i]) = path[i]
    BY <1>5, <1>7, <1>8
  <1>11. path = [i \in 1..Len(path) |-> path[i]]
    BY <1>6
  <1> QED BY <1>9, <1>10, <1>11 DEF whole

-----------------------------------------------------------------------------
(* The routes, one by one. *)

Collections == ReadOnly \union DOMAIN BodyKey
Writable == DOMAIN BodyKey

\* No collection is called like a parameter.
LEMMA CollectionNames ==
    /\ Writable = {"sites", "resources", "policies", "groups", "actors", "clients"}
    /\ Writable \subseteq Collections /\ ReadOnly \subseteq Collections
    /\ \A c \in Collections : c # ":id"
  BY DEF Collections, Writable, ReadOnly, BodyKey

\* The collections with members, and what the members are called.
Holds(c, members) ==
    \/ c = "groups" /\ members = "memberships"
    \/ c = "resources" /\ members = "pool_members"

\* A path of n segments: a parameter at the second and at the fourth, a word
\* at the others, which is "" where there is none.
Shaped(q, verb, n, first, third, fifth, sixth) ==
    /\ q.verb = verb
    /\ Len(q.path) = n
    /\ q.path[1] = first
    /\ n > 1 => q.path[2] = ":id"
    /\ n > 2 => q.path[3] = third
    /\ n > 3 => q.path[4] = ":id"
    /\ n > 4 => q.path[5] = fifth
    /\ n > 5 => q.path[6] = sixth

\* A route of this shape, with its operation, body and answer.
IsRoute(q, op, verb, n, first, third, fifth, sixth, key, answers) ==
    /\ Shaped(q, verb, n, first, third, fifth, sixth)
    /\ q.op = op
    /\ q.key = key
    /\ q.answer = answers

\* A route to a collection.
LEMMA RouteOf1 ==
    ASSUME NEW op, NEW verb, NEW first, NEW key, NEW answers
    PROVE  IsRoute(Route(op, verb, <<first>>, key, answers),
                   op, verb, 1, first, "", "", "", key, answers)
  BY DEF Route, IsRoute, Shaped

\* A route to one object of a collection.
LEMMA RouteOf2 ==
    ASSUME NEW op, NEW verb, NEW first, NEW key, NEW answers
    PROVE  IsRoute(Route(op, verb, <<first, ":id">>, key, answers),
                   op, verb, 2, first, "", "", "", key, answers)
  BY DEF Route, IsRoute, Shaped

\* A route to what an object holds.
LEMMA RouteOf3 ==
    ASSUME NEW op, NEW verb, NEW first, NEW third, NEW key, NEW answers
    PROVE  IsRoute(Route(op, verb, <<first, ":id", third>>, key, answers),
                   op, verb, 3, first, third, "", "", key, answers)
  BY DEF Route, IsRoute, Shaped

\* A route to one of the things an object holds.
LEMMA RouteOf4 ==
    ASSUME NEW op, NEW verb, NEW first, NEW third, NEW key, NEW answers
    PROVE  IsRoute(Route(op, verb, <<first, ":id", third, ":id">>, key, answers),
                   op, verb, 4, first, third, "", "", key, answers)
  BY DEF Route, IsRoute, Shaped

\* A route to what one of these things holds.
LEMMA RouteOf5 ==
    ASSUME NEW op, NEW verb, NEW first, NEW third, NEW fifth, NEW key, NEW answers
    PROVE  IsRoute(Route(op, verb, <<first, ":id", third, ":id", fifth>>, key, answers),
                   op, verb, 5, first, third, fifth, "", key, answers)
  BY DEF Route, IsRoute, Shaped

\* A route to an operation on what one of these things holds.
LEMMA RouteOf6 ==
    ASSUME NEW op, NEW verb, NEW first, NEW third, NEW fifth, NEW sixth, NEW key, NEW answers
    PROVE  IsRoute(Route(op, verb, <<first, ":id", third, ":id", fifth, sixth>>, key, answers),
                   op, verb, 6, first, third, fifth, sixth, key, answers)
  BY DEF Route, IsRoute, Shaped

\* The two routes that read a collection.
LEMMA ReadRouteKinds ==
    ASSUME NEW c, NEW q \in ReadRoutes(c)
    PROVE  \/ IsRoute(q, <<c, "List">>, "GET", 1, c, "", "", "", "", "page")
           \/ IsRoute(q, <<c, "Get">>, "GET", 2, c, "", "", "", "", "data")
  <1>1. CASE q = Route(<<c, "List">>, "GET", <<c>>, "", "page")
    <2>1. IsRoute(q, <<c, "List">>, "GET", 1, c, "", "", "", "", "page")
      BY <1>1, RouteOf1
    <2> QED BY <2>1
  <1>2. CASE q = Route(<<c, "Get">>, "GET", <<c, ":id">>, "", "data")
    <2>1. IsRoute(q, <<c, "Get">>, "GET", 2, c, "", "", "", "", "data")
      BY <1>2, RouteOf2
    <2> QED BY <2>1
  <1> QED BY <1>1, <1>2 DEF ReadRoutes

\* The three routes that change an object.
LEMMA WriteRouteKinds ==
    ASSUME NEW c, NEW q \in WriteRoutes(c)
    PROVE  \/ IsRoute(q, <<c, "Update">>, "PATCH", 2, c, "", "", "", BodyKey[c], "data")
           \/ IsRoute(q, <<c, "Put">>, "PUT", 2, c, "", "", "", BodyKey[c], "data")
           \/ IsRoute(q, <<c, "Delete">>, "DELETE", 2, c, "", "", "", "", "data")
  <1>1. CASE q = Route(<<c, "Update">>, "PATCH", <<c, ":id">>, BodyKey[c], "data")
    <2>1. IsRoute(q, <<c, "Update">>, "PATCH", 2, c, "", "", "", BodyKey[c], "data")
      BY <1>1, RouteOf2
    <2> QED BY <2>1
  <1>2. CASE q = Route(<<c, "Put">>, "PUT", <<c, ":id">>, BodyKey[c], "data")
    <2>1. IsRoute(q, <<c, "Put">>, "PUT", 2, c, "", "", "", BodyKey[c], "data")
      BY <1>2, RouteOf2
    <2> QED BY <2>1
  <1>3. CASE q = Route(<<c, "Delete">>, "DELETE", <<c, ":id">>, "", "data")
    <2>1. IsRoute(q, <<c, "Delete">>, "DELETE", 2, c, "", "", "", "", "data")
      BY <1>3, RouteOf2
    <2> QED BY <2>1
  <1> QED BY <1>1, <1>2, <1>3 DEF WriteRoutes

\* The route that adds to a collection.
LEMMA CreateRouteKind ==
    ASSUME NEW c, NEW q, q = CreateRoute(c)
    PROVE  IsRoute(q, <<c, "Create">>, "POST", 1, c, "", "", "", BodyKey[c], "data")
  BY RouteOf1 DEF CreateRoute

\* The three routes to the members of an object.
LEMMA MemberRouteKinds ==
    ASSUME NEW c, NEW members, NEW q \in MemberRoutes(c, members)
    PROVE  \/ IsRoute(q, <<members, "List">>, "GET", 3, c, members, "", "", "", "page")
           \/ IsRoute(q, <<members, "ReplaceAll">>, "PUT", 3, c, members, "", "", members, "data")
           \/ IsRoute(q, <<members, "Patch">>, "PATCH", 3, c, members, "", "", members, "data")
  <1>1. CASE q = Route(<<members, "List">>, "GET", <<c, ":id", members>>, "", "page")
    <2>1. IsRoute(q, <<members, "List">>, "GET", 3, c, members, "", "", "", "page")
      BY <1>1, RouteOf3
    <2> QED BY <2>1
  <1>2. CASE q = Route(<<members, "ReplaceAll">>, "PUT", <<c, ":id", members>>, members, "data")
    <2>1. IsRoute(q, <<members, "ReplaceAll">>, "PUT", 3, c, members, "", "", members, "data")
      BY <1>2, RouteOf3
    <2> QED BY <2>1
  <1>3. CASE q = Route(<<members, "Patch">>, "PATCH", <<c, ":id", members>>, members, "data")
    <2>1. IsRoute(q, <<members, "Patch">>, "PATCH", 3, c, members, "", "", members, "data")
      BY <1>3, RouteOf3
    <2> QED BY <2>1
  <1> QED BY <1>1, <1>2, <1>3 DEF MemberRoutes

\* A sequence of three, four or five made one longer.
LEMMA Extended ==
    ASSUME NEW a, NEW b, NEW c, NEW d, NEW e, NEW f
    PROVE  /\ <<a, b, c>> \o <<d>> = <<a, b, c, d>>
           /\ <<a, b, c, d>> \o <<e>> = <<a, b, c, d, e>>
           /\ <<a, b, c, d, e>> \o <<f>> = <<a, b, c, d, e, f>>
  <1> DEFINE S == {a, b, c, d, e, f}
             s3 == <<a, b, c>>
             s4 == <<a, b, c, d>>
             s5 == <<a, b, c, d, e>>
             s6 == <<a, b, c, d, e, f>>
  <1>1. s3 \in Seq(S) /\ s4 \in Seq(S) /\ s5 \in Seq(S) /\ s6 \in Seq(S)
    OBVIOUS
  <1>2. d \in S /\ e \in S /\ f \in S
    OBVIOUS
  <1>3. Len(s4) = Len(s3) + 1 /\ Len(s5) = Len(s4) + 1 /\ Len(s6) = Len(s5) + 1
    OBVIOUS
  <1>4. s4[Len(s3) + 1] = d /\ \A i \in 1..Len(s3) : s4[i] = s3[i]
    OBVIOUS
  <1>5. s5[Len(s4) + 1] = e /\ \A i \in 1..Len(s4) : s5[i] = s4[i]
    OBVIOUS
  <1>6. s6[Len(s5) + 1] = f /\ \A i \in 1..Len(s5) : s6[i] = s5[i]
    OBVIOUS
  <1> HIDE DEF S, s3, s4, s5, s6
  <1>7. s3 \o <<d>> = s4
    BY <1>1, <1>2, <1>3, <1>4, IsAppend
  <1>8. s4 \o <<e>> = s5
    BY <1>1, <1>2, <1>3, <1>5, IsAppend
  <1>9. s5 \o <<f>> = s6
    BY <1>1, <1>2, <1>3, <1>6, IsAppend
  <1> QED BY <1>7, <1>8, <1>9 DEF s3, s4, s5, s6

\* The routes to gateways, their paths written out.
LEMMA GatewayRoutesAre ==
    GatewayRoutes =
        LET gateways == <<"sites", ":id", "gateways">>
            gateway == <<"sites", ":id", "gateways", ":id">>
            token == <<"sites", ":id", "gateways", ":id", "token">>
            rotate == <<"sites", ":id", "gateways", ":id", "token", "rotate">>
        IN {Route(<<"gateways", "List">>, "GET", gateways, "", "page"),
            Route(<<"gateways", "Provision">>, "POST", gateways, "gateway", "data"),
            Route(<<"gateways", "Get">>, "GET", gateway, "", "data"),
            Route(<<"gateways", "Update">>, "PATCH", gateway, "gateway", "data"),
            Route(<<"gateways", "Put">>, "PUT", gateway, "gateway", "data"),
            Route(<<"gateways", "Delete">>, "DELETE", gateway, "", "data"),
            Route(<<"gateways", "CreateToken">>, "POST", token, "", "data"),
            Route(<<"gateways", "RotateToken">>, "POST", rotate, "", "data")}
  <1> DEFINE gateways == <<"sites", ":id", "gateways">>
             gateway == <<"sites", ":id", "gateways", ":id">>
             token == <<"sites", ":id", "gateways", ":id", "token">>
             rotate == <<"sites", ":id", "gateways", ":id", "token", "rotate">>
  <1>1. /\ gateways \o <<":id">> = gateway /\ gateway \o <<"token">> = token
         /\ token \o <<"rotate">> = rotate
    BY Extended
  <1> QED BY <1>1, Zenon DEF GatewayRoutes

\* The eight routes to gateways.
LEMMA GatewayRouteKinds ==
    ASSUME NEW q \in GatewayRoutes
    PROVE  \/ IsRoute(q, <<"gateways", "List">>, "GET", 3, "sites", "gateways", "", "", "", "page")
           \/ IsRoute(q, <<"gateways", "Provision">>, "POST", 3, "sites", "gateways", "", "", "gateway", "data")
           \/ IsRoute(q, <<"gateways", "Get">>, "GET", 4, "sites", "gateways", "", "", "", "data")
           \/ IsRoute(q, <<"gateways", "Update">>, "PATCH", 4, "sites", "gateways", "", "", "gateway", "data")
           \/ IsRoute(q, <<"gateways", "Put">>, "PUT", 4, "sites", "gateways", "", "", "gateway", "data")
           \/ IsRoute(q, <<"gateways", "Delete">>, "DELETE", 4, "sites", "gateways", "", "", "", "data")
           \/ IsRoute(q, <<"gateways", "CreateToken">>, "POST", 5, "sites", "gateways", "token", "", "", "data")
           \/ IsRoute(q, <<"gateways", "RotateToken">>, "POST", 6, "sites", "gateways", "token", "rotate", "", "data")
  <1>1. CASE q = Route(<<"gateways", "List">>, "GET", <<"sites", ":id", "gateways">>, "", "page")
    <2>1. IsRoute(q, <<"gateways", "List">>, "GET", 3, "sites", "gateways", "", "", "", "page")
      BY <1>1, RouteOf3
    <2> QED BY <2>1
  <1>2. CASE q = Route(<<"gateways", "Provision">>, "POST", <<"sites", ":id", "gateways">>, "gateway", "data")
    <2>1. IsRoute(q, <<"gateways", "Provision">>, "POST", 3, "sites", "gateways", "", "", "gateway", "data")
      BY <1>2, RouteOf3
    <2> QED BY <2>1
  <1>3. CASE q = Route(<<"gateways", "Get">>, "GET", <<"sites", ":id", "gateways", ":id">>, "", "data")
    <2>1. IsRoute(q, <<"gateways", "Get">>, "GET", 4, "sites", "gateways", "", "", "", "data")
      BY <1>3, RouteOf4
    <2> QED BY <2>1
  <1>4. CASE q = Route(<<"gateways", "Update">>, "PATCH", <<"sites", ":id", "gateways", ":id">>, "gateway", "data")
    <2>1. IsRoute(q, <<"gateways", "Update">>, "PATCH", 4, "sites", "gateways", "", "", "gateway", "data")
      BY <1>4, RouteOf4
    <2> QED BY <2>1
  <1>5. CASE q = Route(<<"gateways", "Put">>, "PUT", <<"sites", ":id", "gateways", ":id">>, "gateway", "data")
    <2>1. IsRoute(q, <<"gateways", "Put">>, "PUT", 4, "sites", "gateways", "", "", "gateway", "data")
      BY <1>5, RouteOf4
    <2> QED BY <2>1
  <1>6. CASE q = Route(<<"gateways", "Delete">>, "DELETE", <<"sites", ":id", "gateways", ":id">>, "", "data")
    <2>1. IsRoute(q, <<"gateways", "Delete">>, "DELETE", 4, "sites", "gateways", "", "", "", "data")
      BY <1>6, RouteOf4
    <2> QED BY <2>1
  <1>7. CASE q = Route(<<"gateways", "CreateToken">>, "POST", <<"sites", ":id", "gateways", ":id", "token">>, "", "data")
    <2>1. IsRoute(q, <<"gateways", "CreateToken">>, "POST", 5, "sites", "gateways", "token", "", "", "data")
      BY <1>7, RouteOf5
    <2> QED BY <2>1
  <1>8. CASE q = Route(<<"gateways", "RotateToken">>, "POST", <<"sites", ":id", "gateways", ":id", "token", "rotate">>, "", "data")
    <2>1. IsRoute(q, <<"gateways", "RotateToken">>, "POST", 6, "sites", "gateways", "token", "rotate", "", "data")
      BY <1>8, RouteOf6
    <2> QED BY <2>1
  <1> QED BY <1>1, <1>2, <1>3, <1>4, <1>5, <1>6, <1>7, <1>8, GatewayRoutesAre, Zenon

\* The two routes that verify clients.
LEMMA VerifyRouteKinds ==
    ASSUME NEW q \in VerifyRoutes
    PROVE  \/ IsRoute(q, <<"clients", "Verify">>, "PUT", 3, "clients", "verify", "", "", "", "data")
           \/ IsRoute(q, <<"clients", "Unverify">>, "PUT", 3, "clients", "unverify", "", "", "", "data")
  <1>1. CASE q = Route(<<"clients", "Verify">>, "PUT", <<"clients", ":id", "verify">>, "", "data")
    <2>1. IsRoute(q, <<"clients", "Verify">>, "PUT", 3, "clients", "verify", "", "", "", "data")
      BY <1>1, RouteOf3
    <2> QED BY <2>1
  <1>2. CASE q = Route(<<"clients", "Unverify">>, "PUT", <<"clients", ":id", "unverify">>, "", "data")
    <2>1. IsRoute(q, <<"clients", "Unverify">>, "PUT", 3, "clients", "unverify", "", "", "", "data")
      BY <1>2, RouteOf3
    <2> QED BY <2>1
  <1> QED BY <1>1, <1>2 DEF VerifyRoutes

\* Every route of the API, by its shape.
LEMMA RouteKinds ==
    ASSUME NEW q \in Routes
    PROVE  \/ \E c \in Collections :
                  \/ IsRoute(q, <<c, "List">>, "GET", 1, c, "", "", "", "", "page")
                  \/ IsRoute(q, <<c, "Get">>, "GET", 2, c, "", "", "", "", "data")
           \/ \E c \in Writable :
                  \/ IsRoute(q, <<c, "Update">>, "PATCH", 2, c, "", "", "", BodyKey[c], "data")
                  \/ IsRoute(q, <<c, "Put">>, "PUT", 2, c, "", "", "", BodyKey[c], "data")
                  \/ IsRoute(q, <<c, "Delete">>, "DELETE", 2, c, "", "", "", "", "data")
           \/ \E c \in Writable \ {"clients"} :
                  IsRoute(q, <<c, "Create">>, "POST", 1, c, "", "", "", BodyKey[c], "data")
           \/ \E c, members : Holds(c, members) /\
                  (\/ IsRoute(q, <<members, "List">>, "GET", 3, c, members, "", "", "", "page")
                   \/ IsRoute(q, <<members, "ReplaceAll">>, "PUT", 3, c, members, "", "", members, "data")
                   \/ IsRoute(q, <<members, "Patch">>, "PATCH", 3, c, members, "", "", members, "data"))
           \/ IsRoute(q, <<"gateways", "List">>, "GET", 3, "sites", "gateways", "", "", "", "page")
           \/ IsRoute(q, <<"gateways", "Provision">>, "POST", 3, "sites", "gateways", "", "", "gateway", "data")
           \/ IsRoute(q, <<"gateways", "Get">>, "GET", 4, "sites", "gateways", "", "", "", "data")
           \/ IsRoute(q, <<"gateways", "Update">>, "PATCH", 4, "sites", "gateways", "", "", "gateway", "data")
           \/ IsRoute(q, <<"gateways", "Put">>, "PUT", 4, "sites", "gateways", "", "", "gateway", "data")
           \/ IsRoute(q, <<"gateways", "Delete">>, "DELETE", 4, "sites", "gateways", "", "", "", "data")
           \/ IsRoute(q, <<"gateways", "CreateToken">>, "POST", 5, "sites", "gateways", "token", "", "", "data")
           \/ IsRoute(q, <<"gateways", "RotateToken">>, "POST", 6, "sites", "gateways", "token", "rotate", "", "data")
           \/ IsRoute(q, <<"clients", "Verify">>, "PUT", 3, "clients", "verify", "", "", "", "data")
           \/ IsRoute(q, <<"clients", "Unverify">>, "PUT", 3, "clients", "unverify", "", "", "", "data")
  <1>1. CASE q \in Reading
    <2>1. PICK c \in Collections : q \in ReadRoutes(c)
      BY <1>1 DEF Reading, Collections
    <2> QED BY <2>1, ReadRouteKinds, Zenon
  <1>2. CASE q \in Writing
    <2>1. PICK c \in Writable : q \in WriteRoutes(c)
      BY <1>2 DEF Writing, Writable
    <2> QED BY <2>1, WriteRouteKinds, Zenon
  <1>3. CASE q \in Making
    <2>1. PICK c \in Writable \ {"clients"} : q = CreateRoute(c)
      BY <1>3 DEF Making, Writable
    <2> QED BY <2>1, CreateRouteKind, Zenon
  <1>4. CASE q \in MemberRoutes("groups", "memberships")
    <2>1. Holds("groups", "memberships")
      BY DEF Holds
    <2> QED BY <1>4, <2>1, MemberRouteKinds, Zenon
  <1>5. CASE q \in MemberRoutes("resources", "pool_members")
    <2>1. Holds("resources", "pool_members")
      BY DEF Holds
    <2> QED BY <1>5, <2>1, MemberRouteKinds, Zenon
  <1>6. CASE q \in GatewayRoutes
    BY <1>6, GatewayRouteKinds, Zenon
  <1>7. CASE q \in VerifyRoutes
    BY <1>7, VerifyRouteKinds, Zenon
  <1> QED BY <1>1, <1>2, <1>3, <1>4, <1>5, <1>6, <1>7 DEF Routes

-----------------------------------------------------------------------------
(* The methods, one by one. *)

\* The segments of a path that are parameters.
Params(segments) ==
    IF Len(segments) = 1 THEN <<>>
    ELSE IF Len(segments) < 4 THEN <<segments[2]>>
    ELSE <<segments[2], segments[4]>>

\* A path with these words.
Fits(segments, n, first, third, fifth, sixth) ==
    /\ segments \in Seq(Text)
    /\ Len(segments) = n
    /\ segments[1] = <<first>>
    /\ n > 2 => segments[3] = <<third>>
    /\ n > 4 => segments[5] = <<fifth>>
    /\ n > 5 => segments[6] = <<sixth>>

\* A method that sends this request and decodes this answer.
IsMethod(m, op, verb, n, first, third, fifth, sixth, key, out) ==
    /\ Fits(m.path, n, first, third, fifth, sixth)
    /\ m.ids = Params(m.path)
    /\ m.op = op
    /\ m.verb = verb
    /\ m.body.key = key
    /\ m.out = out

\* A word is a text of one atom.
LEMMA WordIsText ==
    ASSUME NEW word \in Words
    PROVE  <<word>> \in Text
  BY DEF Text

\* The key under which a body is wrapped.
LEMMA BodyKeyOf ==
    ASSUME NEW key, NEW value
    PROVE  Body(key, value).key = key /\ NoBody.key = ""
  BY DEF Body, NoBody

\* A method on a collection.
LEMMA MethodOf1 ==
    ASSUME NEW op, NEW verb, NEW body, NEW out, NEW first \in Words
    PROVE  IsMethod(Method(op, verb, <<>>, <<<<first>>>>, body, out),
                    op, verb, 1, first, "", "", "", body.key, out)
  <1> DEFINE path == <<<<first>>>>
             m == Method(op, verb, <<>>, path, body, out)
  <1>1. path \in Seq(Text)
    BY WordIsText
  <1>2. Fits(path, 1, first, "", "", "")
    BY <1>1 DEF Fits
  <1>3. Params(path) = <<>>
    BY DEF Params
  <1> HIDE DEF path
  <1>4. /\ m.path = path /\ m.ids = <<>> /\ m.op = op /\ m.verb = verb
        /\ m.body = body /\ m.out = out
    BY DEF Method
  <1> HIDE DEF m
  <1>5. IsMethod(m, op, verb, 1, first, "", "", "", body.key, out)
    BY <1>2, <1>3, <1>4 DEF IsMethod
  <1> QED BY <1>5 DEF m, path

\* A method on one object.
LEMMA MethodOf2 ==
    ASSUME NEW op, NEW verb, NEW body, NEW out, NEW first \in Words, NEW a \in Text
    PROVE  IsMethod(Method(op, verb, <<a>>, <<<<first>>, a>>, body, out),
                    op, verb, 2, first, "", "", "", body.key, out)
  <1> DEFINE path == <<<<first>>, a>>
             m == Method(op, verb, <<a>>, path, body, out)
  <1>1. path \in Seq(Text)
    BY WordIsText
  <1>2. Fits(path, 2, first, "", "", "")
    BY <1>1 DEF Fits
  <1>3. Params(path) = <<a>>
    BY DEF Params
  <1> HIDE DEF path
  <1>4. /\ m.path = path /\ m.ids = <<a>> /\ m.op = op /\ m.verb = verb
        /\ m.body = body /\ m.out = out
    BY DEF Method
  <1> HIDE DEF m
  <1>5. IsMethod(m, op, verb, 2, first, "", "", "", body.key, out)
    BY <1>2, <1>3, <1>4 DEF IsMethod
  <1> QED BY <1>5 DEF m, path

\* A method on what an object holds.
LEMMA MethodOf3 ==
    ASSUME NEW op, NEW verb, NEW body, NEW out, NEW first \in Words, NEW third \in Words, NEW a \in Text
    PROVE  IsMethod(Method(op, verb, <<a>>, <<<<first>>, a, <<third>>>>, body, out),
                    op, verb, 3, first, third, "", "", body.key, out)
  <1> DEFINE path == <<<<first>>, a, <<third>>>>
             m == Method(op, verb, <<a>>, path, body, out)
  <1>1. path \in Seq(Text)
    BY WordIsText
  <1>2. Fits(path, 3, first, third, "", "")
    BY <1>1 DEF Fits
  <1>3. Params(path) = <<a>>
    BY DEF Params
  <1> HIDE DEF path
  <1>4. /\ m.path = path /\ m.ids = <<a>> /\ m.op = op /\ m.verb = verb
        /\ m.body = body /\ m.out = out
    BY DEF Method
  <1> HIDE DEF m
  <1>5. IsMethod(m, op, verb, 3, first, third, "", "", body.key, out)
    BY <1>2, <1>3, <1>4 DEF IsMethod
  <1> QED BY <1>5 DEF m, path

\* A method on one of the things an object holds.
LEMMA MethodOf4 ==
    ASSUME NEW op, NEW verb, NEW body, NEW out, NEW first \in Words, NEW third \in Words, NEW a \in Text, NEW b \in Text
    PROVE  IsMethod(Method(op, verb, <<a, b>>, <<<<first>>, a, <<third>>, b>>, body, out),
                    op, verb, 4, first, third, "", "", body.key, out)
  <1> DEFINE path == <<<<first>>, a, <<third>>, b>>
             m == Method(op, verb, <<a, b>>, path, body, out)
  <1>1. path \in Seq(Text)
    BY WordIsText
  <1>2. Fits(path, 4, first, third, "", "")
    BY <1>1 DEF Fits
  <1>3. Params(path) = <<a, b>>
    BY DEF Params
  <1> HIDE DEF path
  <1>4. /\ m.path = path /\ m.ids = <<a, b>> /\ m.op = op /\ m.verb = verb
        /\ m.body = body /\ m.out = out
    BY DEF Method
  <1> HIDE DEF m
  <1>5. IsMethod(m, op, verb, 4, first, third, "", "", body.key, out)
    BY <1>2, <1>3, <1>4 DEF IsMethod
  <1> QED BY <1>5 DEF m, path

\* A method on what one of these things holds.
LEMMA MethodOf6 ==
    ASSUME NEW op, NEW verb, NEW body, NEW out, NEW first \in Words, NEW third \in Words, NEW fifth \in Words, NEW sixth \in Words, NEW a \in Text, NEW b \in Text
    PROVE  IsMethod(Method(op, verb, <<a, b>>, <<<<first>>, a, <<third>>, b, <<fifth>>, <<sixth>>>>, body, out),
                    op, verb, 6, first, third, fifth, sixth, body.key, out)
  <1> DEFINE path == <<<<first>>, a, <<third>>, b, <<fifth>>, <<sixth>>>>
             m == Method(op, verb, <<a, b>>, path, body, out)
  <1>1. path \in Seq(Text)
    BY WordIsText
  <1>2. Fits(path, 6, first, third, fifth, sixth)
    BY <1>1 DEF Fits
  <1>3. Params(path) = <<a, b>>
    BY DEF Params
  <1> HIDE DEF path
  <1>4. /\ m.path = path /\ m.ids = <<a, b>> /\ m.op = op /\ m.verb = verb
        /\ m.body = body /\ m.out = out
    BY DEF Method
  <1> HIDE DEF m
  <1>5. IsMethod(m, op, verb, 6, first, third, fifth, sixth, body.key, out)
    BY <1>2, <1>3, <1>4 DEF IsMethod
  <1> QED BY <1>5 DEF m, path

\* A method has one identifier at most, or it is one of the gateways'.
LEMMA MethodFamilies ==
    ASSUME NEW m \in Methods
    PROVE  \/ \E id \in IDs, req \in Reqs : m \in SharedServices(id, req)
           \/ \E siteID, id \in IDs, req \in Reqs : m \in GatewaysService(siteID, id, req)
  <1>1. CASE m \in ServiceMethods
    BY <1>1 DEF ServiceMethods
  <1>2. CASE m \in GatewayMethods
    BY <1>2 DEF GatewayMethods
  <1> QED BY <1>1, <1>2 DEF Methods

\* What methods put into paths are words.
LEMMA WordsOfPaths ==
    /\ Collections \subseteq Words /\ Writable \subseteq Words
    /\ {"sites", "resources", "policies", "groups", "actors", "clients", "gateways",
        "memberships", "pool_members", "token", "rotate", "verify", "unverify"}
           \subseteq Words
  BY DEF Collections, Writable, Words, BodyKey

\* The methods that collections share.
LEMMA CollectionMethods ==
    ASSUME NEW c \in Words, NEW id \in Text, NEW key, NEW value
    PROVE  /\ IsMethod(Getting(<<c, "Get">>, <<id>>, <<<<c>>, id>>),
                       <<c, "Get">>, "GET", 2, c, "", "", "", "", "data")
           /\ IsMethod(Listing(<<c, "List">>, <<>>, <<<<c>>>>),
                       <<c, "List">>, "GET", 1, c, "", "", "", "", "page")
           /\ IsMethod(Creating(<<c, "Create">>, <<>>, <<<<c>>>>, Body(key, value)),
                       <<c, "Create">>, "POST", 1, c, "", "", "", key, "data")
           /\ IsMethod(Updating(<<c, "Update">>, <<id>>, <<<<c>>, id>>, Body(key, value)),
                       <<c, "Update">>, "PATCH", 2, c, "", "", "", key, "data")
           /\ IsMethod(Deleting(<<c, "Delete">>, <<id>>, <<<<c>>, id>>),
                       <<c, "Delete">>, "DELETE", 2, c, "", "", "", "", "none")
  <1>1. Body(key, value).key = key /\ NoBody.key = ""
    BY BodyKeyOf
  <1>2. IsMethod(Getting(<<c, "Get">>, <<id>>, <<<<c>>, id>>),
                 <<c, "Get">>, "GET", 2, c, "", "", "", NoBody.key, "data")
    BY MethodOf2 DEF Getting
  <1>3. IsMethod(Listing(<<c, "List">>, <<>>, <<<<c>>>>),
                 <<c, "List">>, "GET", 1, c, "", "", "", NoBody.key, "page")
    BY MethodOf1 DEF Listing
  <1>4. IsMethod(Creating(<<c, "Create">>, <<>>, <<<<c>>>>, Body(key, value)),
                 <<c, "Create">>, "POST", 1, c, "", "", "", Body(key, value).key, "data")
    BY MethodOf1 DEF Creating
  <1>5. IsMethod(Updating(<<c, "Update">>, <<id>>, <<<<c>>, id>>, Body(key, value)),
                 <<c, "Update">>, "PATCH", 2, c, "", "", "", Body(key, value).key, "data")
    BY MethodOf2 DEF Updating
  <1>6. IsMethod(Deleting(<<c, "Delete">>, <<id>>, <<<<c>>, id>>),
                 <<c, "Delete">>, "DELETE", 2, c, "", "", "", NoBody.key, "none")
    BY MethodOf2 DEF Deleting
  <1> QED BY <1>1, <1>2, <1>3, <1>4, <1>5, <1>6

\* The methods that memberships and pool members share.
LEMMA MemberMethods ==
    ASSUME NEW c \in Words, NEW members \in Words, NEW id \in Text, NEW value
    PROVE  LET path == <<<<c>>, id, <<members>>>> IN
           /\ IsMethod(Listing(<<members, "List">>, <<id>>, path),
                       <<members, "List">>, "GET", 3, c, members, "", "", "", "page")
           /\ IsMethod(Putting(<<members, "ReplaceAll">>, <<id>>, path, Body(members, value)),
                       <<members, "ReplaceAll">>, "PUT", 3, c, members, "", "", members, "data")
           /\ IsMethod(Updating(<<members, "Patch">>, <<id>>, path, Body(members, value)),
                       <<members, "Patch">>, "PATCH", 3, c, members, "", "", members, "data")
  <1> DEFINE path == <<<<c>>, id, <<members>>>>
             body == Body(members, value)
  <1>1. body.key = members /\ NoBody.key = ""
    BY BodyKeyOf
  <1>2. IsMethod(Listing(<<members, "List">>, <<id>>, path),
                 <<members, "List">>, "GET", 3, c, members, "", "", NoBody.key, "page")
    BY MethodOf3 DEF Listing
  <1>3. IsMethod(Putting(<<members, "ReplaceAll">>, <<id>>, path, body),
                 <<members, "ReplaceAll">>, "PUT", 3, c, members, "", "", body.key, "data")
    BY MethodOf3 DEF Putting
  <1>4. IsMethod(Updating(<<members, "Patch">>, <<id>>, path, body),
                 <<members, "Patch">>, "PATCH", 3, c, members, "", "", body.key, "data")
    BY MethodOf3 DEF Updating
  <1> QED BY <1>1, <1>2, <1>3, <1>4

\* The keys of the bodies of collections.
LEMMA BodyKeys ==
    /\ BodyKey["sites"] = "site" /\ BodyKey["resources"] = "resource"
    /\ BodyKey["policies"] = "policy" /\ BodyKey["groups"] = "group"
    /\ BodyKey["actors"] = "actor" /\ BodyKey["clients"] = "client"
  BY DEF BodyKey

\* What a method does to a collection.
Reads(m, c) ==
    \/ IsMethod(m, <<c, "List">>, "GET", 1, c, "", "", "", "", "page")
    \/ IsMethod(m, <<c, "Get">>, "GET", 2, c, "", "", "", "", "data")

Writes(m, c) ==
    \/ IsMethod(m, <<c, "Update">>, "PATCH", 2, c, "", "", "", BodyKey[c], "data")
    \/ IsMethod(m, <<c, "Delete">>, "DELETE", 2, c, "", "", "", "", "none")

Creates(m, c) ==
    IsMethod(m, <<c, "Create">>, "POST", 1, c, "", "", "", BodyKey[c], "data")

Members(m, c, members) ==
    \/ IsMethod(m, <<members, "List">>, "GET", 3, c, members, "", "", "", "page")
    \/ IsMethod(m, <<members, "ReplaceAll">>, "PUT", 3, c, members, "", "", members, "data")
    \/ IsMethod(m, <<members, "Patch">>, "PATCH", 3, c, members, "", "", members, "data")

Verifies(m) ==
    \/ IsMethod(m, <<"clients", "Verify">>, "PUT", 3, "clients", "verify", "", "", "", "data")
    \/ IsMethod(m, <<"clients", "Unverify">>, "PUT", 3, "clients", "unverify", "", "", "", "data")

\* The methods of the sites service.
LEMMA SitesMethods ==
    ASSUME NEW id \in Text, NEW req, NEW m \in SitesService(id, req)
    PROVE  Reads(m, "sites") \/ Writes(m, "sites") \/ Creates(m, "sites")
  <1> DEFINE c == "sites"
  <1>1. \/ m = Getting(<<c, "Get">>, <<id>>, <<<<c>>, id>>)
        \/ m = Listing(<<c, "List">>, <<>>, <<<<c>>>>)
        \/ m = Creating(<<c, "Create">>, <<>>, <<<<c>>>>, Body(BodyKey[c], req))
        \/ m = Updating(<<c, "Update">>, <<id>>, <<<<c>>, id>>, Body(BodyKey[c], req))
        \/ m = Deleting(<<c, "Delete">>, <<id>>, <<<<c>>, id>>)
    BY BodyKeys DEF SitesService
  <1>2. c \in Words
    BY WordsOfPaths
  <1> HIDE DEF c
  <1>3. Reads(m, c) \/ Writes(m, c) \/ Creates(m, c)
    BY <1>1, <1>2, CollectionMethods DEF Reads, Writes, Creates
  <1> QED BY <1>3 DEF c

\* The methods of the resources service.
LEMMA ResourcesMethods ==
    ASSUME NEW id \in Text, NEW req, NEW m \in ResourcesService(id, req)
    PROVE  Reads(m, "resources") \/ Writes(m, "resources") \/ Creates(m, "resources")
  <1> DEFINE c == "resources"
  <1>1. \/ m = Getting(<<c, "Get">>, <<id>>, <<<<c>>, id>>)
        \/ m = Listing(<<c, "List">>, <<>>, <<<<c>>>>)
        \/ m = Creating(<<c, "Create">>, <<>>, <<<<c>>>>, Body(BodyKey[c], req))
        \/ m = Updating(<<c, "Update">>, <<id>>, <<<<c>>, id>>, Body(BodyKey[c], req))
        \/ m = Deleting(<<c, "Delete">>, <<id>>, <<<<c>>, id>>)
    BY BodyKeys DEF ResourcesService
  <1>2. c \in Words
    BY WordsOfPaths
  <1> HIDE DEF c
  <1>3. Reads(m, c) \/ Writes(m, c) \/ Creates(m, c)
    BY <1>1, <1>2, CollectionMethods DEF Reads, Writes, Creates
  <1> QED BY <1>3 DEF c

\* The methods of the groups service.
LEMMA GroupsMethods ==
    ASSUME NEW id \in Text, NEW req, NEW m \in GroupsService(id, req)
    PROVE  Reads(m, "groups") \/ Writes(m, "groups") \/ Creates(m, "groups")
  <1> DEFINE c == "groups"
  <1>1. \/ m = Getting(<<c, "Get">>, <<id>>, <<<<c>>, id>>)
        \/ m = Listing(<<c, "List">>, <<>>, <<<<c>>>>)
        \/ m = Creating(<<c, "Create">>, <<>>, <<<<c>>>>, Body(BodyKey[c], req))
        \/ m = Updating(<<c, "Update">>, <<id>>, <<<<c>>, id>>, Body(BodyKey[c], req))
        \/ m = Deleting(<<c, "Delete">>, <<id>>, <<<<c>>, id>>)
    BY BodyKeys DEF GroupsService
  <1>2. c \in Words
    BY WordsOfPaths
  <1> HIDE DEF c
  <1>3. Reads(m, c) \/ Writes(m, c) \/ Creates(m, c)
    BY <1>1, <1>2, CollectionMethods DEF Reads, Writes, Creates
  <1> QED BY <1>3 DEF c

\* The methods of the policies service: Enable and Disable are updates.
LEMMA PoliciesMethods ==
    ASSUME NEW id \in Text, NEW req, NEW m \in PoliciesService(id, req)
    PROVE  Reads(m, "policies") \/ Writes(m, "policies") \/ Creates(m, "policies")
  <1> DEFINE c == "policies"
  <1>1. \/ m = Getting(<<c, "Get">>, <<id>>, <<<<c>>, id>>)
        \/ m = Listing(<<c, "List">>, <<>>, <<<<c>>>>)
        \/ m = Creating(<<c, "Create">>, <<>>, <<<<c>>>>, Body(BodyKey[c], req))
        \/ \E value \in {req, "is_disabled: true", "is_disabled: false"} :
               m = Updating(<<c, "Update">>, <<id>>, <<<<c>>, id>>, Body(BodyKey[c], value))
        \/ m = Deleting(<<c, "Delete">>, <<id>>, <<<<c>>, id>>)
    BY BodyKeys DEF PoliciesService
  <1>2. c \in Words
    BY WordsOfPaths
  <1> HIDE DEF c
  <1>3. Reads(m, c) \/ Writes(m, c) \/ Creates(m, c)
    BY <1>1, <1>2, CollectionMethods DEF Reads, Writes, Creates
  <1> QED BY <1>3 DEF c

\* The methods of the actors service: Enable and Disable are updates.
LEMMA ActorsMethods ==
    ASSUME NEW id \in Text, NEW req, NEW m \in ActorsService(id, req)
    PROVE  Reads(m, "actors") \/ Writes(m, "actors") \/ Creates(m, "actors")
  <1> DEFINE c == "actors"
  <1>1. \/ m = Getting(<<c, "Get">>, <<id>>, <<<<c>>, id>>)
        \/ m = Listing(<<c, "List">>, <<>>, <<<<c>>>>)
        \/ m = Creating(<<c, "Create">>, <<>>, <<<<c>>>>, Body(BodyKey[c], req))
        \/ \E value \in {req, "is_disabled: true", "is_disabled: false"} :
               m = Updating(<<c, "Update">>, <<id>>, <<<<c>>, id>>, Body(BodyKey[c], value))
        \/ m = Deleting(<<c, "Delete">>, <<id>>, <<<<c>>, id>>)
    BY BodyKeys DEF ActorsService
  <1>2. c \in Words
    BY WordsOfPaths
  <1> HIDE DEF c
  <1>3. Reads(m, c) \/ Writes(m, c) \/ Creates(m, c)
    BY <1>1, <1>2, CollectionMethods DEF Reads, Writes, Creates
  <1> QED BY <1>3 DEF c

\* The methods of the clients service: clients cannot be created.
LEMMA ClientsMethods ==
    ASSUME NEW id \in Text, NEW req, NEW m \in ClientsService(id, req)
    PROVE  Reads(m, "clients") \/ Writes(m, "clients") \/ Verifies(m)
  <1> DEFINE c == "clients"
             verify == Putting(<<"clients", "Verify">>, <<id>>,
                               <<<<"clients">>, id, <<"verify">>>>, NoBody)
             unverify == Putting(<<"clients", "Unverify">>, <<id>>,
                                 <<<<"clients">>, id, <<"unverify">>>>, NoBody)
  <1>1. \/ m = Getting(<<c, "Get">>, <<id>>, <<<<c>>, id>>)
        \/ m = Listing(<<c, "List">>, <<>>, <<<<c>>>>)
        \/ m = Updating(<<c, "Update">>, <<id>>, <<<<c>>, id>>, Body(BodyKey[c], req))
        \/ m = Deleting(<<c, "Delete">>, <<id>>, <<<<c>>, id>>)
        \/ m = verify
        \/ m = unverify
    BY BodyKeys DEF ClientsService
  <1>2. c \in Words /\ "verify" \in Words /\ "unverify" \in Words
    BY WordsOfPaths
  <1>3. /\ IsMethod(verify, <<"clients", "Verify">>, "PUT", 3,
                    "clients", "verify", "", "", NoBody.key, "data")
        /\ IsMethod(unverify, <<"clients", "Unverify">>, "PUT", 3,
                    "clients", "unverify", "", "", NoBody.key, "data")
    BY <1>2, MethodOf3 DEF Putting
  <1>4. m = verify \/ m = unverify => Verifies(m)
    BY <1>3, BodyKeyOf DEF Verifies
  <1> HIDE DEF c, verify, unverify
  <1>5. Reads(m, c) \/ Writes(m, c) \/ Verifies(m)
    BY <1>1, <1>2, <1>4, CollectionMethods DEF Reads, Writes
  <1> QED BY <1>5 DEF c

\* The methods of the memberships service.
LEMMA MembershipsMethods ==
    ASSUME NEW id \in Text, NEW m \in MembershipsService(id)
    PROVE  Members(m, "groups", "memberships")
  <1> DEFINE c == "groups"
             members == "memberships"
             path == <<<<c>>, id, <<members>>>>
  <1>1. \/ m = Listing(<<members, "List">>, <<id>>, path)
        \/ m = Putting(<<members, "ReplaceAll">>, <<id>>, path, Body(members, "entries"))
        \/ m = Updating(<<members, "Patch">>, <<id>>, path, Body(members, "patch"))
    BY DEF MembershipsService
  <1>2. c \in Words /\ members \in Words
    BY WordsOfPaths
  <1> HIDE DEF c, members
  <1>3. Members(m, c, members)
    BY <1>1, <1>2, MemberMethods DEF Members
  <1> QED BY <1>3 DEF c, members

\* The methods of the pool members service.
LEMMA PoolMembersMethods ==
    ASSUME NEW id \in Text, NEW m \in PoolMembersService(id)
    PROVE  Members(m, "resources", "pool_members")
  <1> DEFINE c == "resources"
             members == "pool_members"
             path == <<<<c>>, id, <<members>>>>
  <1>1. \/ m = Listing(<<members, "List">>, <<id>>, path)
        \/ m = Putting(<<members, "ReplaceAll">>, <<id>>, path, Body(members, "entries"))
        \/ m = Updating(<<members, "Patch">>, <<id>>, path, Body(members, "patch"))
    BY DEF PoolMembersService
  <1>2. c \in Words /\ members \in Words
    BY WordsOfPaths
  <1> HIDE DEF c, members
  <1>3. Members(m, c, members)
    BY <1>1, <1>2, MemberMethods DEF Members
  <1> QED BY <1>3 DEF c, members

\* The methods of a service that only reads.
LEMMA ReadOnlyMethods ==
    ASSUME NEW c \in ReadOnly, NEW id \in Text, NEW m \in ReadOnlyService(c, id)
    PROVE  Reads(m, c)
  <1>1. c \in Words
    BY WordsOfPaths DEF Collections
  <1> QED BY <1>1, CollectionMethods DEF ReadOnlyService, Reads

\* The services for auth providers and directories only read.
LEMMA ProvidersAndDirectories ==
    ASSUME NEW id \in Text, NEW m \in AuthProviders(id) \union Directories(id)
    PROVE  \E c \in Collections : Reads(m, c)
  <1>1. PICK c \in ReadOnly : m \in ReadOnlyService(c, id)
    BY DEF AuthProviders, Directories, ReadOnly
  <1>2. c \in Collections
    BY DEF Collections
  <1> QED BY <1>1, <1>2, ReadOnlyMethods

\* What a method does to a gateway.
Gateways(m) ==
    \/ IsMethod(m, <<"gateways", "List">>, "GET", 3, "sites", "gateways", "", "", "", "page")
    \/ IsMethod(m, <<"gateways", "Provision">>, "POST", 3, "sites", "gateways", "", "", "gateway", "data")
    \/ IsMethod(m, <<"gateways", "Get">>, "GET", 4, "sites", "gateways", "", "", "", "data")
    \/ IsMethod(m, <<"gateways", "Update">>, "PATCH", 4, "sites", "gateways", "", "", "gateway", "data")
    \/ IsMethod(m, <<"gateways", "Delete">>, "DELETE", 4, "sites", "gateways", "", "", "", "none")
    \/ IsMethod(m, <<"gateways", "RotateToken">>, "POST", 6, "sites", "gateways", "token", "rotate", "", "data")

\* What follows a prefix of three.
LEMMA Prolonged ==
    ASSUME NEW a, NEW b, NEW c, NEW d, NEW e, NEW f
    PROVE  /\ <<a, b, c>> \o <<>> = <<a, b, c>>
           /\ <<a, b, c>> \o <<d>> = <<a, b, c, d>>
           /\ <<a, b, c>> \o <<d, e, f>> = <<a, b, c, d, e, f>>
  <1> DEFINE S == {a, b, c, d, e, f}
             s3 == <<a, b, c>>
             t3 == <<d, e, f>>
             s6 == <<a, b, c, d, e, f>>
  <1>1. s3 \in Seq(S) /\ t3 \in Seq(S) /\ s6 \in Seq(S)
    OBVIOUS
  <1>2. Len(s3) = 3 /\ Len(t3) = 3 /\ Len(s6) = 6
    OBVIOUS
  <1>3. /\ s6[1] = s3[1] /\ s6[2] = s3[2] /\ s6[3] = s3[3]
        /\ s6[4] = t3[1] /\ s6[5] = t3[2] /\ s6[6] = t3[3]
    OBVIOUS
  <1> HIDE DEF S, s3, t3, s6
  <1>4. PICK u \in Seq(S) : u = s3 \o t3
    BY <1>1, ConcatProperties
  <1>5. /\ Len(u) = Len(s3) + Len(t3)
        /\ \A i \in 1..Len(s3) + Len(t3) :
               u[i] = IF i <= Len(s3) THEN s3[i] ELSE t3[i - Len(s3)]
    BY <1>1, <1>4, ConcatProperties
  <1>6. \A i \in 1..6 : u[i] = s6[i]
    BY <1>2, <1>3, <1>5
  <1>7. u = s6
    <2>1. Len(u) = Len(s6) /\ \A i \in 1..Len(u) : u[i] = s6[i]
      BY <1>2, <1>5, <1>6
    <2> QED BY <1>1, <2>1, SeqEqual
  <1>8. s3 \o <<>> = s3
    BY <1>1, ConcatEmptySeq
  <1>9. /\ <<a, b, c>> \o <<d>> = <<a, b, c, d>>
        /\ <<a, b, c, d>> \o <<e>> = <<a, b, c, d, e>>
        /\ <<a, b, c, d, e>> \o <<f>> = <<a, b, c, d, e, f>>
    BY Extended
  <1> QED BY <1>4, <1>7, <1>8, <1>9 DEF s3, t3, s6

\* The methods of the gateways service.
LEMMA GatewayMethodKinds ==
    ASSUME NEW siteID \in Text, NEW id \in Text, NEW req,
           NEW m \in GatewaysService(siteID, id, req)
    PROVE  Gateways(m)
  <1> DEFINE ids == <<siteID, id>>
             all == <<<<"sites">>, siteID, <<"gateways">>>>
             one == <<<<"sites">>, siteID, <<"gateways">>, id>>
             rotate == <<<<"sites">>, siteID, <<"gateways">>, id, <<"token">>, <<"rotate">>>>
             body == Body("gateway", req)
  <1>1. all \o <<>> = all /\ all \o <<id>> = one
        /\ all \o <<id, <<"token">>, <<"rotate">>>> = rotate
    BY Prolonged
  <1>2. \/ m = Getting(<<"gateways", "Get">>, ids, one)
        \/ m = Listing(<<"gateways", "List">>, <<siteID>>, all)
        \/ m = Creating(<<"gateways", "Provision">>, <<siteID>>, all, body)
        \/ m = Updating(<<"gateways", "Update">>, ids, one, body)
        \/ m = Creating(<<"gateways", "RotateToken">>, ids, rotate, NoBody)
        \/ m = Deleting(<<"gateways", "Delete">>, ids, one)
    <2> HIDE DEF all, one, rotate
    <2>1. m \in {Getting(<<"gateways", "Get">>, ids, all \o <<id>>),
                 Listing(<<"gateways", "List">>, <<siteID>>, all \o <<>>),
                 Creating(<<"gateways", "Provision">>, <<siteID>>, all \o <<>>, body),
                 Updating(<<"gateways", "Update">>, ids, all \o <<id>>, body),
                 Creating(<<"gateways", "RotateToken">>, ids,
                          all \o <<id, <<"token">>, <<"rotate">>>>, NoBody),
                 Deleting(<<"gateways", "Delete">>, ids, all \o <<id>>)}
      BY DEF GatewaysService, all
    <2> QED BY <1>1, <2>1
  <1>3. {"sites", "gateways", "token", "rotate"} \subseteq Words
    BY WordsOfPaths
  <1>4. body.key = "gateway" /\ NoBody.key = ""
    BY BodyKeyOf
  <1>5. IsMethod(Getting(<<"gateways", "Get">>, ids, one), <<"gateways", "Get">>,
                 "GET", 4, "sites", "gateways", "", "", NoBody.key, "data")
    BY <1>3, MethodOf4 DEF Getting
  <1>6. IsMethod(Listing(<<"gateways", "List">>, <<siteID>>, all), <<"gateways", "List">>,
                 "GET", 3, "sites", "gateways", "", "", NoBody.key, "page")
    BY <1>3, MethodOf3 DEF Listing
  <1>7. IsMethod(Creating(<<"gateways", "Provision">>, <<siteID>>, all, body),
                 <<"gateways", "Provision">>,
                 "POST", 3, "sites", "gateways", "", "", body.key, "data")
    BY <1>3, MethodOf3 DEF Creating
  <1>8. IsMethod(Updating(<<"gateways", "Update">>, ids, one, body), <<"gateways", "Update">>,
                 "PATCH", 4, "sites", "gateways", "", "", body.key, "data")
    BY <1>3, MethodOf4 DEF Updating
  <1>9. IsMethod(Creating(<<"gateways", "RotateToken">>, ids, rotate, NoBody),
                 <<"gateways", "RotateToken">>,
                 "POST", 6, "sites", "gateways", "token", "rotate", NoBody.key, "data")
    BY <1>3, MethodOf6 DEF Creating
  <1>10. IsMethod(Deleting(<<"gateways", "Delete">>, ids, one), <<"gateways", "Delete">>,
                  "DELETE", 4, "sites", "gateways", "", "", NoBody.key, "none")
    BY <1>3, MethodOf4 DEF Deleting
  <1> HIDE DEF ids, all, one, rotate, body
  <1> QED BY <1>2, <1>4, <1>5, <1>6, <1>7, <1>8, <1>9, <1>10 DEF Gateways

(* Every method of every service, by what it sends and what it decodes. *)
LEMMA MethodKinds ==
    ASSUME NEW m \in Methods
    PROVE  \/ \E c \in Collections : Reads(m, c)
           \/ \E c \in Writable : Writes(m, c)
           \/ \E c \in Writable \ {"clients"} : Creates(m, c)
           \/ \E c, members : Holds(c, members) /\ Members(m, c, members)
           \/ Gateways(m)
           \/ Verifies(m)
  <1>1. IDs \subseteq Text
    <2>1. Atoms \subseteq Words
      BY DEF Words
    <2>2. Seq(Atoms) \subseteq Text
      BY <2>1, SeqMonotonic DEF Text
    <2> QED BY <2>2, IDsAssumption
  <1>2. ASSUME NEW siteID \in IDs, NEW id \in IDs, NEW req \in Reqs,
               m \in GatewaysService(siteID, id, req)
        PROVE  Gateways(m)
    BY <1>1, <1>2, GatewayMethodKinds
  <1>3. ASSUME NEW id \in IDs, NEW req \in Reqs, m \in SharedServices(id, req)
        PROVE  \/ \E c \in Collections : Reads(m, c)
               \/ \E c \in Writable : Writes(m, c)
               \/ \E c \in Writable \ {"clients"} : Creates(m, c)
               \/ \E c, members : Holds(c, members) /\ Members(m, c, members)
               \/ Verifies(m)
    <2>1. id \in Text
      BY <1>1
    <2>2. {"sites", "resources", "policies", "groups", "actors"}
              \subseteq Writable \ {"clients"}
          /\ "clients" \in Writable /\ Writable \subseteq Collections
      BY CollectionNames
    <2>3. ASSUME NEW c \in Writable \ {"clients"}, Reads(m, c) \/ Writes(m, c) \/ Creates(m, c)
          PROVE  \/ \E d \in Collections : Reads(m, d)
                 \/ \E d \in Writable : Writes(m, d)
                 \/ \E d \in Writable \ {"clients"} : Creates(m, d)
      BY <2>2, <2>3
    <2>4. CASE m \in SitesService(id, req)
      BY <2>1, <2>2, <2>3, <2>4, SitesMethods
    <2>5. CASE m \in ResourcesService(id, req)
      BY <2>1, <2>2, <2>3, <2>5, ResourcesMethods
    <2>6. CASE m \in GroupsService(id, req)
      BY <2>1, <2>2, <2>3, <2>6, GroupsMethods
    <2>7. CASE m \in PoliciesService(id, req)
      BY <2>1, <2>2, <2>3, <2>7, PoliciesMethods
    <2>8. CASE m \in ActorsService(id, req)
      BY <2>1, <2>2, <2>3, <2>8, ActorsMethods
    <2>9. CASE m \in ClientsService(id, req)
      BY <2>1, <2>2, <2>9, ClientsMethods
    <2>10. CASE m \in MembershipsService(id) \union PoolMembersService(id)
      BY <2>1, <2>10, MembershipsMethods, PoolMembersMethods DEF Holds
    <2>11. CASE m \in AuthProviders(id) \union Directories(id)
      BY <2>1, <2>11, ProvidersAndDirectories
    <2> QED
      BY <1>3, <2>4, <2>5, <2>6, <2>7, <2>8, <2>9, <2>10, <2>11 DEF SharedServices
  <1> QED BY <1>2, <1>3, MethodFamilies

-----------------------------------------------------------------------------
(* What a route does with the path of a method. *)

\* No word of a path is taken for a parameter.
Literals(first, third, fifth, sixth) ==
    first # ":id" /\ third # ":id" /\ fifth # ":id" /\ sixth # ":id"

\* A path that fits has its length and texts for segments.
LEMMA FitsLength ==
    ASSUME NEW segments, NEW n, NEW first, NEW third, NEW fifth, NEW sixth,
           Fits(segments, n, first, third, fifth, sixth)
    PROVE  /\ segments \in Seq(Text) /\ n \in Nat /\ Len(segments) = n
           /\ DOMAIN segments = 1..n
           /\ \A i \in 1..n : segments[i] \in Text
  <1>1. segments \in Seq(Text) /\ Len(segments) = n
    BY DEF Fits
  <1>2. n \in Nat /\ DOMAIN segments = 1..n
    BY <1>1, LenProperties
  <1> QED BY <1>1, <1>2, ElementOfSeq

\* A route takes the paths that fit its shape.
LEMMA ShapeMatches ==
    ASSUME NEW q, NEW segments, NEW verb, NEW n \in 1..6,
           NEW first, NEW third, NEW fifth, NEW sixth,
           Shaped(q, verb, n, first, third, fifth, sixth),
           Fits(segments, n, first, third, fifth, sixth)
    PROVE  Matches(q, verb, segments)
  <1>1. /\ Len(segments) = n /\ DOMAIN segments = 1..n
    BY FitsLength
  <1>2. ASSUME NEW i \in 1..n
        PROVE  q.path[i] = ":id" \/ segments[i] = <<q.path[i]>>
    <2>1. i = 1 \/ i = 2 \/ i = 3 \/ i = 4 \/ i = 5 \/ i = 6
      OBVIOUS
    <2> QED BY <2>1 DEF Shaped, Fits
  <1> QED BY <1>1, <1>2 DEF Matches, Shaped

\* A route takes no other paths than those.
LEMMA MatchesShape ==
    ASSUME NEW q, NEW segments \in Seq(Text), NEW v, NEW verb, NEW n,
           NEW first, NEW third, NEW fifth, NEW sixth,
           Shaped(q, verb, n, first, third, fifth, sixth),
           n \in 1..6,
           Literals(first, third, fifth, sixth),
           Matches(q, v, segments)
    PROVE  v = verb /\ Fits(segments, n, first, third, fifth, sixth)
  <1>1. /\ q.verb = v /\ Len(q.path) = Len(segments)
        /\ \A i \in DOMAIN segments : q.path[i] = ":id" \/ segments[i] = <<q.path[i]>>
    BY DEF Matches
  <1>2. DOMAIN segments = 1..n /\ Len(segments) = n
    BY <1>1, LenProperties DEF Shaped
  <1>3. segments[1] = <<first>>
    <2>1. 1 \in 1..n
      OBVIOUS
    <2> QED BY <1>1, <1>2, <2>1 DEF Shaped, Literals
  <1>4. n > 2 => segments[3] = <<third>>
    <2>1. n > 2 => 3 \in 1..n
      OBVIOUS
    <2> QED BY <1>1, <1>2, <2>1 DEF Shaped, Literals
  <1>5. n > 4 => segments[5] = <<fifth>>
    <2>1. n > 4 => 5 \in 1..n
      OBVIOUS
    <2> QED BY <1>1, <1>2, <2>1 DEF Shaped, Literals
  <1>6. n > 5 => segments[6] = <<sixth>>
    <2>1. n > 5 => 6 \in 1..n
      OBVIOUS
    <2> QED BY <1>1, <1>2, <2>1 DEF Shaped, Literals
  <1> QED BY <1>1, <1>2, <1>3, <1>4, <1>5, <1>6 DEF Fits, Shaped

\* A method and a route that takes its path agree on every word.
LEMMA WordsAgree ==
    ASSUME NEW m, NEW q, Matches(q, m.verb, m.path),
           NEW op1, NEW verb1, NEW n1, NEW first1, NEW third1, NEW fifth1, NEW sixth1,
           NEW key1, NEW out,
           IsMethod(m, op1, verb1, n1, first1, third1, fifth1, sixth1, key1, out),
           NEW op2, NEW verb2, NEW n2, NEW first2, NEW third2, NEW fifth2, NEW sixth2,
           NEW key2, NEW answers,
           IsRoute(q, op2, verb2, n2, first2, third2, fifth2, sixth2, key2, answers),
           n2 \in 1..6,
           Literals(first2, third2, fifth2, sixth2)
    PROVE  /\ verb1 = verb2 /\ n1 = n2 /\ first1 = first2
           /\ n1 > 2 => third1 = third2
           /\ n1 > 4 => fifth1 = fifth2
           /\ n1 > 5 => sixth1 = sixth2
  <1>1. Fits(m.path, n1, first1, third1, fifth1, sixth1) /\ m.verb = verb1
    BY DEF IsMethod
  <1>2. m.path \in Seq(Text) /\ Len(m.path) = n1 /\ n1 \in Nat
    BY <1>1, FitsLength
  <1>3. m.verb = verb2 /\ Fits(m.path, n2, first2, third2, fifth2, sixth2)
    BY <1>2, MatchesShape DEF IsRoute
  <1>4. Len(m.path) = n2
    BY <1>3 DEF Fits
  <1>5. \A a, b : <<a>> = <<b>> => a = b
    OBVIOUS
  <1> QED BY <1>1, <1>2, <1>3, <1>4, <1>5 DEF Fits



\* What the route q stands for.
Takes(q, op, key, answers) == q.op = op /\ q.key = key /\ q.answer = answers

\* The route that a request reaches, read off the words of its path.
Reached(q, verb, n, first, third, fifth, sixth) ==
    \/ /\ n = 1 /\ verb = "GET" /\ first \in Collections
       /\ Takes(q, <<first, "List">>, "", "page")
    \/ /\ n = 1 /\ verb = "POST" /\ first \in Writable \ {"clients"}
       /\ Takes(q, <<first, "Create">>, BodyKey[first], "data")
    \/ /\ n = 2 /\ verb = "GET" /\ first \in Collections
       /\ Takes(q, <<first, "Get">>, "", "data")
    \/ /\ n = 2 /\ verb = "PATCH" /\ first \in Writable
       /\ Takes(q, <<first, "Update">>, BodyKey[first], "data")
    \/ /\ n = 2 /\ verb = "PUT" /\ first \in Writable
       /\ Takes(q, <<first, "Put">>, BodyKey[first], "data")
    \/ /\ n = 2 /\ verb = "DELETE" /\ first \in Writable
       /\ Takes(q, <<first, "Delete">>, "", "data")
    \/ /\ n = 3 /\ verb = "GET" /\ Holds(first, third)
       /\ Takes(q, <<third, "List">>, "", "page")
    \/ /\ n = 3 /\ verb = "PUT" /\ Holds(first, third)
       /\ Takes(q, <<third, "ReplaceAll">>, third, "data")
    \/ /\ n = 3 /\ verb = "PATCH" /\ Holds(first, third)
       /\ Takes(q, <<third, "Patch">>, third, "data")
    \/ /\ n = 3 /\ verb = "GET" /\ first = "sites" /\ third = "gateways"
       /\ Takes(q, <<"gateways", "List">>, "", "page")
    \/ /\ n = 3 /\ verb = "POST" /\ first = "sites" /\ third = "gateways"
       /\ Takes(q, <<"gateways", "Provision">>, "gateway", "data")
    \/ /\ n = 3 /\ verb = "PUT" /\ first = "clients" /\ third = "verify"
       /\ Takes(q, <<"clients", "Verify">>, "", "data")
    \/ /\ n = 3 /\ verb = "PUT" /\ first = "clients" /\ third = "unverify"
       /\ Takes(q, <<"clients", "Unverify">>, "", "data")
    \/ n = 4 /\ verb = "GET" /\ Takes(q, <<"gateways", "Get">>, "", "data")
    \/ n = 4 /\ verb = "PATCH" /\ Takes(q, <<"gateways", "Update">>, "gateway", "data")
    \/ n = 4 /\ verb = "PUT" /\ Takes(q, <<"gateways", "Put">>, "gateway", "data")
    \/ n = 4 /\ verb = "DELETE" /\ Takes(q, <<"gateways", "Delete">>, "", "data")
    \/ n = 5 /\ Takes(q, <<"gateways", "CreateToken">>, "", "data")
    \/ n = 6 /\ Takes(q, <<"gateways", "RotateToken">>, "", "data")

\* The words of a request determine the route it reaches.
LEMMA RouteReached ==
    ASSUME NEW m, NEW q \in Routes, Matches(q, m.verb, m.path),
           NEW op, NEW verb, NEW n, NEW first, NEW third, NEW fifth, NEW sixth,
           NEW key, NEW out,
           IsMethod(m, op, verb, n, first, third, fifth, sixth, key, out)
    PROVE  Reached(q, verb, n, first, third, fifth, sixth)
  <1>1. ASSUME NEW op2, NEW verb2, NEW n2 \in 1..6, NEW first2, NEW third2,
               NEW fifth2, NEW sixth2, NEW key2, NEW answers,
               IsRoute(q, op2, verb2, n2, first2, third2, fifth2, sixth2, key2, answers),
               Literals(first2, third2, fifth2, sixth2)
        PROVE  /\ verb = verb2 /\ n = n2 /\ first = first2
               /\ n2 \in {1, 2} \/ third = third2
               /\ Takes(q, op2, key2, answers)
    <2>1. /\ verb = verb2 /\ n = n2 /\ first = first2
          /\ n2 \in {1, 2} \/ third = third2
      BY <1>1, WordsAgree
    <2> QED BY <1>1, <2>1 DEF IsRoute, Takes
  <1>2. /\ 1 \in 1..6 /\ 2 \in 1..6 /\ 3 \in 1..6 /\ 4 \in 1..6 /\ 5 \in 1..6
        /\ 6 \in 1..6
        /\ 3 \notin {1, 2} /\ 4 \notin {1, 2} /\ 5 \notin {1, 2} /\ 6 \notin {1, 2}
    OBVIOUS
  <1>3. \A c \in Collections : Literals(c, "", "", "")
    BY CollectionNames DEF Literals
  <1>4. Writable \subseteq Collections
    BY CollectionNames
  <1>5. ASSUME NEW c \in Collections,
               \/ IsRoute(q, <<c, "List">>, "GET", 1, c, "", "", "", "", "page")
               \/ IsRoute(q, <<c, "Get">>, "GET", 2, c, "", "", "", "", "data")
        PROVE  Reached(q, verb, n, first, third, fifth, sixth)
    <2>1. CASE IsRoute(q, <<c, "List">>, "GET", 1, c, "", "", "", "", "page")
      <3>1. /\ verb = "GET" /\ n = 1 /\ first = c
            /\ Takes(q, <<c, "List">>, "", "page")
        BY <1>1, <1>2, <1>3, <1>4, <2>1
      <3> QED BY <3>1 DEF Reached
    <2>2. CASE IsRoute(q, <<c, "Get">>, "GET", 2, c, "", "", "", "", "data")
      <3>1. /\ verb = "GET" /\ n = 2 /\ first = c
            /\ Takes(q, <<c, "Get">>, "", "data")
        BY <1>1, <1>2, <1>3, <1>4, <2>2
      <3> QED BY <3>1 DEF Reached
    <2> QED BY <1>5, <2>1, <2>2
  <1>6. ASSUME NEW c \in Writable,
               \/ IsRoute(q, <<c, "Update">>, "PATCH", 2, c, "", "", "", BodyKey[c], "data")
               \/ IsRoute(q, <<c, "Put">>, "PUT", 2, c, "", "", "", BodyKey[c], "data")
               \/ IsRoute(q, <<c, "Delete">>, "DELETE", 2, c, "", "", "", "", "data")
        PROVE  Reached(q, verb, n, first, third, fifth, sixth)
    <2>1. CASE IsRoute(q, <<c, "Update">>, "PATCH", 2, c, "", "", "", BodyKey[c], "data")
      <3>1. /\ verb = "PATCH" /\ n = 2 /\ first = c
            /\ Takes(q, <<c, "Update">>, BodyKey[c], "data")
        BY <1>1, <1>2, <1>3, <1>4, <2>1
      <3> QED BY <3>1 DEF Reached
    <2>2. CASE IsRoute(q, <<c, "Put">>, "PUT", 2, c, "", "", "", BodyKey[c], "data")
      <3>1. /\ verb = "PUT" /\ n = 2 /\ first = c
            /\ Takes(q, <<c, "Put">>, BodyKey[c], "data")
        BY <1>1, <1>2, <1>3, <1>4, <2>2
      <3> QED BY <3>1 DEF Reached
    <2>3. CASE IsRoute(q, <<c, "Delete">>, "DELETE", 2, c, "", "", "", "", "data")
      <3>1. /\ verb = "DELETE" /\ n = 2 /\ first = c
            /\ Takes(q, <<c, "Delete">>, "", "data")
        BY <1>1, <1>2, <1>3, <1>4, <2>3
      <3> QED BY <3>1 DEF Reached
    <2> QED BY <1>6, <2>1, <2>2, <2>3
  <1>7. ASSUME NEW c \in Writable \ {"clients"},
               IsRoute(q, <<c, "Create">>, "POST", 1, c, "", "", "", BodyKey[c], "data")
        PROVE  Reached(q, verb, n, first, third, fifth, sixth)
    <2>1. CASE IsRoute(q, <<c, "Create">>, "POST", 1, c, "", "", "", BodyKey[c], "data")
      <3>1. /\ verb = "POST" /\ n = 1 /\ first = c
            /\ Takes(q, <<c, "Create">>, BodyKey[c], "data")
        BY <1>1, <1>2, <1>3, <1>4, <2>1
      <3> QED BY <3>1 DEF Reached
    <2> QED BY <1>7, <2>1
  <1>8. ASSUME NEW c, NEW members, Holds(c, members),
               \/ IsRoute(q, <<members, "List">>, "GET", 3, c, members, "", "", "", "page")
               \/ IsRoute(q, <<members, "ReplaceAll">>, "PUT", 3, c, members, "", "", members, "data")
               \/ IsRoute(q, <<members, "Patch">>, "PATCH", 3, c, members, "", "", members, "data")
        PROVE  Reached(q, verb, n, first, third, fifth, sixth)
    <2>1. Literals(c, members, "", "")
      BY <1>8 DEF Holds, Literals
    <2>2. CASE IsRoute(q, <<members, "List">>, "GET", 3, c, members, "", "", "", "page")
      <3>1. /\ verb = "GET" /\ n = 3 /\ first = c /\ third = members
            /\ Takes(q, <<members, "List">>, "", "page")
        BY <1>1, <1>2, <2>1, <2>2
      <3> QED BY <1>8, <3>1 DEF Reached
    <2>3. CASE IsRoute(q, <<members, "ReplaceAll">>, "PUT", 3, c, members, "", "", members, "data")
      <3>1. /\ verb = "PUT" /\ n = 3 /\ first = c /\ third = members
            /\ Takes(q, <<members, "ReplaceAll">>, members, "data")
        BY <1>1, <1>2, <2>1, <2>3
      <3> QED BY <1>8, <3>1 DEF Reached
    <2>4. CASE IsRoute(q, <<members, "Patch">>, "PATCH", 3, c, members, "", "", members, "data")
      <3>1. /\ verb = "PATCH" /\ n = 3 /\ first = c /\ third = members
            /\ Takes(q, <<members, "Patch">>, members, "data")
        BY <1>1, <1>2, <2>1, <2>4
      <3> QED BY <1>8, <3>1 DEF Reached
    <2> QED BY <1>8, <2>2, <2>3, <2>4
  <1>9. /\ Literals("sites", "gateways", "", "") /\ Literals("sites", "gateways", "token", "")
        /\ Literals("sites", "gateways", "token", "rotate")
        /\ Literals("clients", "verify", "", "") /\ Literals("clients", "unverify", "", "")
    BY DEF Literals
  <1>10. CASE IsRoute(q, <<"gateways", "List">>, "GET", 3, "sites", "gateways", "", "", "", "page")
    <2>1. /\ verb = "GET" /\ n = 3 /\ first = "sites" /\ third = "gateways"
          /\ Takes(q, <<"gateways", "List">>, "", "page")
      BY <1>1, <1>2, <1>9, <1>10
    <2> QED BY <2>1 DEF Reached
  <1>11. CASE IsRoute(q, <<"gateways", "Provision">>, "POST", 3, "sites", "gateways", "", "", "gateway", "data")
    <2>1. /\ verb = "POST" /\ n = 3 /\ first = "sites" /\ third = "gateways"
          /\ Takes(q, <<"gateways", "Provision">>, "gateway", "data")
      BY <1>1, <1>2, <1>9, <1>11
    <2> QED BY <2>1 DEF Reached
  <1>12. CASE IsRoute(q, <<"gateways", "Get">>, "GET", 4, "sites", "gateways", "", "", "", "data")
    <2>1. /\ verb = "GET" /\ n = 4 /\ first = "sites" /\ third = "gateways"
          /\ Takes(q, <<"gateways", "Get">>, "", "data")
      BY <1>1, <1>2, <1>9, <1>12
    <2> QED BY <2>1 DEF Reached
  <1>13. CASE IsRoute(q, <<"gateways", "Update">>, "PATCH", 4, "sites", "gateways", "", "", "gateway", "data")
    <2>1. /\ verb = "PATCH" /\ n = 4 /\ first = "sites" /\ third = "gateways"
          /\ Takes(q, <<"gateways", "Update">>, "gateway", "data")
      BY <1>1, <1>2, <1>9, <1>13
    <2> QED BY <2>1 DEF Reached
  <1>14. CASE IsRoute(q, <<"gateways", "Put">>, "PUT", 4, "sites", "gateways", "", "", "gateway", "data")
    <2>1. /\ verb = "PUT" /\ n = 4 /\ first = "sites" /\ third = "gateways"
          /\ Takes(q, <<"gateways", "Put">>, "gateway", "data")
      BY <1>1, <1>2, <1>9, <1>14
    <2> QED BY <2>1 DEF Reached
  <1>15. CASE IsRoute(q, <<"gateways", "Delete">>, "DELETE", 4, "sites", "gateways", "", "", "", "data")
    <2>1. /\ verb = "DELETE" /\ n = 4 /\ first = "sites" /\ third = "gateways"
          /\ Takes(q, <<"gateways", "Delete">>, "", "data")
      BY <1>1, <1>2, <1>9, <1>15
    <2> QED BY <2>1 DEF Reached
  <1>16. CASE IsRoute(q, <<"gateways", "CreateToken">>, "POST", 5, "sites", "gateways", "token", "", "", "data")
    <2>1. /\ verb = "POST" /\ n = 5 /\ first = "sites" /\ third = "gateways"
          /\ Takes(q, <<"gateways", "CreateToken">>, "", "data")
      BY <1>1, <1>2, <1>9, <1>16
    <2> QED BY <2>1 DEF Reached
  <1>17. CASE IsRoute(q, <<"gateways", "RotateToken">>, "POST", 6, "sites", "gateways", "token", "rotate", "", "data")
    <2>1. /\ verb = "POST" /\ n = 6 /\ first = "sites" /\ third = "gateways"
          /\ Takes(q, <<"gateways", "RotateToken">>, "", "data")
      BY <1>1, <1>2, <1>9, <1>17
    <2> QED BY <2>1 DEF Reached
  <1>18. CASE IsRoute(q, <<"clients", "Verify">>, "PUT", 3, "clients", "verify", "", "", "", "data")
    <2>1. /\ verb = "PUT" /\ n = 3 /\ first = "clients" /\ third = "verify"
          /\ Takes(q, <<"clients", "Verify">>, "", "data")
      BY <1>1, <1>2, <1>9, <1>18
    <2> QED BY <2>1 DEF Reached
  <1>19. CASE IsRoute(q, <<"clients", "Unverify">>, "PUT", 3, "clients", "unverify", "", "", "", "data")
    <2>1. /\ verb = "PUT" /\ n = 3 /\ first = "clients" /\ third = "unverify"
          /\ Takes(q, <<"clients", "Unverify">>, "", "data")
      BY <1>1, <1>2, <1>9, <1>19
    <2> QED BY <2>1 DEF Reached
  <1> QED BY RouteKinds, <1>5, <1>6, <1>7, <1>8, <1>10, <1>11, <1>12, <1>13, <1>14, <1>15, <1>16, <1>17, <1>18, <1>19, Zenon

(* Only one route is reached by each kind of request that methods make. *)
LEMMA ReachedIs ==
    ASSUME NEW q
    PROVE  /\ \A c : Reached(q, "GET", 1, c, "", "", "") => Takes(q, <<c, "List">>, "", "page")
           /\ \A c : Reached(q, "GET", 2, c, "", "", "") => Takes(q, <<c, "Get">>, "", "data")
           /\ \A c : Reached(q, "PATCH", 2, c, "", "", "") => Takes(q, <<c, "Update">>, BodyKey[c], "data")
           /\ \A c : Reached(q, "DELETE", 2, c, "", "", "") => Takes(q, <<c, "Delete">>, "", "data")
           /\ \A c : Reached(q, "POST", 1, c, "", "", "") => Takes(q, <<c, "Create">>, BodyKey[c], "data")
           /\ \A c, members : Holds(c, members) /\ Reached(q, "GET", 3, c, members, "", "")
               => Takes(q, <<members, "List">>, "", "page")
           /\ \A c, members : Holds(c, members) /\ Reached(q, "PUT", 3, c, members, "", "")
               => Takes(q, <<members, "ReplaceAll">>, members, "data")
           /\ \A c, members : Holds(c, members) /\ Reached(q, "PATCH", 3, c, members, "", "")
               => Takes(q, <<members, "Patch">>, members, "data")
           /\ Reached(q, "GET", 3, "sites", "gateways", "", "")
               => Takes(q, <<"gateways", "List">>, "", "page")
           /\ Reached(q, "POST", 3, "sites", "gateways", "", "")
               => Takes(q, <<"gateways", "Provision">>, "gateway", "data")
           /\ Reached(q, "GET", 4, "sites", "gateways", "", "")
               => Takes(q, <<"gateways", "Get">>, "", "data")
           /\ Reached(q, "PATCH", 4, "sites", "gateways", "", "")
               => Takes(q, <<"gateways", "Update">>, "gateway", "data")
           /\ Reached(q, "DELETE", 4, "sites", "gateways", "", "")
               => Takes(q, <<"gateways", "Delete">>, "", "data")
           /\ Reached(q, "POST", 6, "sites", "gateways", "token", "rotate")
               => Takes(q, <<"gateways", "RotateToken">>, "", "data")
           /\ Reached(q, "PUT", 3, "clients", "verify", "", "")
               => Takes(q, <<"clients", "Verify">>, "", "data")
           /\ Reached(q, "PUT", 3, "clients", "unverify", "", "")
               => Takes(q, <<"clients", "Unverify">>, "", "data")
  <1>0. /\ 1 # 2 /\ 1 # 3 /\ 1 # 4 /\ 1 # 5 /\ 1 # 6
        /\ 2 # 3 /\ 2 # 4 /\ 2 # 5 /\ 2 # 6 /\ 3 # 4 /\ 3 # 5 /\ 3 # 6
        /\ 4 # 5 /\ 4 # 6 /\ 5 # 6
    OBVIOUS
  <1>1. ASSUME NEW c, Reached(q, "GET", 1, c, "", "", "")
        PROVE  Takes(q, <<c, "List">>, "", "page")
    BY <1>0, <1>1, Zenon DEF Reached
  <1>2. ASSUME NEW c, Reached(q, "GET", 2, c, "", "", "")
        PROVE  Takes(q, <<c, "Get">>, "", "data")
    BY <1>0, <1>2, Zenon DEF Reached
  <1>3. ASSUME NEW c, Reached(q, "PATCH", 2, c, "", "", "")
        PROVE  Takes(q, <<c, "Update">>, BodyKey[c], "data")
    BY <1>0, <1>3, Zenon DEF Reached
  <1>4. ASSUME NEW c, Reached(q, "DELETE", 2, c, "", "", "")
        PROVE  Takes(q, <<c, "Delete">>, "", "data")
    BY <1>0, <1>4, Zenon DEF Reached
  <1>5. ASSUME NEW c, Reached(q, "POST", 1, c, "", "", "")
        PROVE  Takes(q, <<c, "Create">>, BodyKey[c], "data")
    BY <1>0, <1>5, Zenon DEF Reached
  <1>6. ASSUME NEW c, NEW members, Holds(c, members),
               Reached(q, "GET", 3, c, members, "", "")
        PROVE  Takes(q, <<members, "List">>, "", "page")
    BY <1>0, <1>6, Zenon DEF Reached, Holds
  <1>7. ASSUME NEW c, NEW members, Holds(c, members),
               Reached(q, "PUT", 3, c, members, "", "")
        PROVE  Takes(q, <<members, "ReplaceAll">>, members, "data")
    BY <1>0, <1>7, Zenon DEF Reached, Holds
  <1>8. ASSUME NEW c, NEW members, Holds(c, members),
               Reached(q, "PATCH", 3, c, members, "", "")
        PROVE  Takes(q, <<members, "Patch">>, members, "data")
    BY <1>0, <1>8, Zenon DEF Reached, Holds
  <1>9. ASSUME Reached(q, "GET", 3, "sites", "gateways", "", "")
        PROVE  Takes(q, <<"gateways", "List">>, "", "page")
    BY <1>0, <1>9, Zenon DEF Reached, Holds
  <1>10. ASSUME Reached(q, "POST", 3, "sites", "gateways", "", "")
        PROVE  Takes(q, <<"gateways", "Provision">>, "gateway", "data")
    BY <1>0, <1>10, Zenon DEF Reached, Holds
  <1>11. ASSUME Reached(q, "GET", 4, "sites", "gateways", "", "")
        PROVE  Takes(q, <<"gateways", "Get">>, "", "data")
    BY <1>0, <1>11, Zenon DEF Reached, Holds
  <1>12. ASSUME Reached(q, "PATCH", 4, "sites", "gateways", "", "")
        PROVE  Takes(q, <<"gateways", "Update">>, "gateway", "data")
    BY <1>0, <1>12, Zenon DEF Reached, Holds
  <1>13. ASSUME Reached(q, "DELETE", 4, "sites", "gateways", "", "")
        PROVE  Takes(q, <<"gateways", "Delete">>, "", "data")
    BY <1>0, <1>13, Zenon DEF Reached, Holds
  <1>14. ASSUME Reached(q, "POST", 6, "sites", "gateways", "token", "rotate")
        PROVE  Takes(q, <<"gateways", "RotateToken">>, "", "data")
    BY <1>0, <1>14, Zenon DEF Reached, Holds
  <1>15. ASSUME Reached(q, "PUT", 3, "clients", "verify", "", "")
        PROVE  Takes(q, <<"clients", "Verify">>, "", "data")
    BY <1>0, <1>15, Zenon DEF Reached, Holds
  <1>16. ASSUME Reached(q, "PUT", 3, "clients", "unverify", "", "")
        PROVE  Takes(q, <<"clients", "Unverify">>, "", "data")
    BY <1>0, <1>16, Zenon DEF Reached, Holds
  <1> QED BY <1>1, <1>2, <1>3, <1>4, <1>5, <1>6, <1>7, <1>8, <1>9, <1>10, <1>11, <1>12, <1>13, <1>14, <1>15, <1>16


\* The route does what the method asks and answers what it decodes.
Agrees(q, m) ==
    /\ q.op = m.op
    /\ q.key = m.body.key
    /\ m.out # "none" => q.answer = m.out /\ q.verb # "DELETE"

\* A method that reads a collection reaches the route for it.
LEMMA ReadsReached ==
    ASSUME NEW m, NEW q \in Routes, Matches(q, m.verb, m.path),
           NEW c \in Collections, Reads(m, c)
    PROVE  Agrees(q, m)
  <1>1. q.verb = m.verb
    BY DEF Matches
  <1>2. CASE IsMethod(m, <<c, "List">>, "GET", 1, c, "", "", "", "", "page")
    <2>1. Reached(q, "GET", 1, c, "", "", "")
      BY <1>2, RouteReached
    <2>2. Takes(q, <<c, "List">>, "", "page")
      BY <2>1, ReachedIs
    <2> QED BY <1>1, <1>2, <2>2 DEF Takes, Agrees, IsMethod
  <1>3. CASE IsMethod(m, <<c, "Get">>, "GET", 2, c, "", "", "", "", "data")
    <2>1. Reached(q, "GET", 2, c, "", "", "")
      BY <1>3, RouteReached
    <2>2. Takes(q, <<c, "Get">>, "", "data")
      BY <2>1, ReachedIs
    <2> QED BY <1>1, <1>3, <2>2 DEF Takes, Agrees, IsMethod
  <1> QED BY <1>2, <1>3 DEF Reads

\* A method that changes an object reaches the route for it.
LEMMA WritesReached ==
    ASSUME NEW m, NEW q \in Routes, Matches(q, m.verb, m.path),
           NEW c \in Writable, Writes(m, c)
    PROVE  Agrees(q, m)
  <1>1. q.verb = m.verb
    BY DEF Matches
  <1>2. CASE IsMethod(m, <<c, "Update">>, "PATCH", 2, c, "", "", "", BodyKey[c], "data")
    <2>1. Reached(q, "PATCH", 2, c, "", "", "")
      BY <1>2, RouteReached
    <2>2. Takes(q, <<c, "Update">>, BodyKey[c], "data")
      BY <2>1, ReachedIs
    <2> QED BY <1>1, <1>2, <2>2 DEF Takes, Agrees, IsMethod
  <1>3. CASE IsMethod(m, <<c, "Delete">>, "DELETE", 2, c, "", "", "", "", "none")
    <2>1. Reached(q, "DELETE", 2, c, "", "", "")
      BY <1>3, RouteReached
    <2>2. Takes(q, <<c, "Delete">>, "", "data")
      BY <2>1, ReachedIs
    <2> QED BY <1>1, <1>3, <2>2 DEF Takes, Agrees, IsMethod
  <1> QED BY <1>2, <1>3 DEF Writes

\* A method that adds to a collection reaches the route for it.
LEMMA CreatesReached ==
    ASSUME NEW m, NEW q \in Routes, Matches(q, m.verb, m.path),
           NEW c \in Writable \ {"clients"}, Creates(m, c)
    PROVE  Agrees(q, m)
  <1>1. q.verb = m.verb
    BY DEF Matches
  <1>2. CASE IsMethod(m, <<c, "Create">>, "POST", 1, c, "", "", "", BodyKey[c], "data")
    <2>1. Reached(q, "POST", 1, c, "", "", "")
      BY <1>2, RouteReached
    <2>2. Takes(q, <<c, "Create">>, BodyKey[c], "data")
      BY <2>1, ReachedIs
    <2> QED BY <1>1, <1>2, <2>2 DEF Takes, Agrees, IsMethod
  <1> QED BY <1>2 DEF Creates

\* A method on members reaches the route for it.
LEMMA MembersReached ==
    ASSUME NEW m, NEW q \in Routes, Matches(q, m.verb, m.path),
           NEW c, NEW members, Holds(c, members),
           Members(m, c, members)
    PROVE  Agrees(q, m)
  <1>1. q.verb = m.verb
    BY DEF Matches
  <1>2. CASE IsMethod(m, <<members, "List">>, "GET", 3, c, members, "", "", "", "page")
    <2>1. Reached(q, "GET", 3, c, members, "", "")
      BY <1>2, RouteReached
    <2>2. Takes(q, <<members, "List">>, "", "page")
      BY <2>1, ReachedIs
    <2> QED BY <1>1, <1>2, <2>2 DEF Takes, Agrees, IsMethod
  <1>3. CASE IsMethod(m, <<members, "ReplaceAll">>, "PUT", 3, c, members, "", "", members, "data")
    <2>1. Reached(q, "PUT", 3, c, members, "", "")
      BY <1>3, RouteReached
    <2>2. Takes(q, <<members, "ReplaceAll">>, members, "data")
      BY <2>1, ReachedIs
    <2> QED BY <1>1, <1>3, <2>2 DEF Takes, Agrees, IsMethod
  <1>4. CASE IsMethod(m, <<members, "Patch">>, "PATCH", 3, c, members, "", "", members, "data")
    <2>1. Reached(q, "PATCH", 3, c, members, "", "")
      BY <1>4, RouteReached
    <2>2. Takes(q, <<members, "Patch">>, members, "data")
      BY <2>1, ReachedIs
    <2> QED BY <1>1, <1>4, <2>2 DEF Takes, Agrees, IsMethod
  <1> QED BY <1>2, <1>3, <1>4 DEF Members

\* A method on gateways reaches the route for it.
LEMMA GatewaysReached ==
    ASSUME NEW m, NEW q \in Routes, Matches(q, m.verb, m.path),
           Gateways(m)
    PROVE  Agrees(q, m)
  <1>1. q.verb = m.verb
    BY DEF Matches
  <1>2. CASE IsMethod(m, <<"gateways", "List">>, "GET", 3, "sites", "gateways", "", "", "", "page")
    <2>1. Reached(q, "GET", 3, "sites", "gateways", "", "")
      BY <1>2, RouteReached
    <2>2. Takes(q, <<"gateways", "List">>, "", "page")
      BY <2>1, ReachedIs
    <2> QED BY <1>1, <1>2, <2>2 DEF Takes, Agrees, IsMethod
  <1>3. CASE IsMethod(m, <<"gateways", "Provision">>, "POST", 3, "sites", "gateways", "", "", "gateway", "data")
    <2>1. Reached(q, "POST", 3, "sites", "gateways", "", "")
      BY <1>3, RouteReached
    <2>2. Takes(q, <<"gateways", "Provision">>, "gateway", "data")
      BY <2>1, ReachedIs
    <2> QED BY <1>1, <1>3, <2>2 DEF Takes, Agrees, IsMethod
  <1>4. CASE IsMethod(m, <<"gateways", "Get">>, "GET", 4, "sites", "gateways", "", "", "", "data")
    <2>1. Reached(q, "GET", 4, "sites", "gateways", "", "")
      BY <1>4, RouteReached
    <2>2. Takes(q, <<"gateways", "Get">>, "", "data")
      BY <2>1, ReachedIs
    <2> QED BY <1>1, <1>4, <2>2 DEF Takes, Agrees, IsMethod
  <1>5. CASE IsMethod(m, <<"gateways", "Update">>, "PATCH", 4, "sites", "gateways", "", "", "gateway", "data")
    <2>1. Reached(q, "PATCH", 4, "sites", "gateways", "", "")
      BY <1>5, RouteReached
    <2>2. Takes(q, <<"gateways", "Update">>, "gateway", "data")
      BY <2>1, ReachedIs
    <2> QED BY <1>1, <1>5, <2>2 DEF Takes, Agrees, IsMethod
  <1>6. CASE IsMethod(m, <<"gateways", "Delete">>, "DELETE", 4, "sites", "gateways", "", "", "", "none")
    <2>1. Reached(q, "DELETE", 4, "sites", "gateways", "", "")
      BY <1>6, RouteReached
    <2>2. Takes(q, <<"gateways", "Delete">>, "", "data")
      BY <2>1, ReachedIs
    <2> QED BY <1>1, <1>6, <2>2 DEF Takes, Agrees, IsMethod
  <1>7. CASE IsMethod(m, <<"gateways", "RotateToken">>, "POST", 6, "sites", "gateways", "token", "rotate", "", "data")
    <2>1. Reached(q, "POST", 6, "sites", "gateways", "token", "rotate")
      BY <1>7, RouteReached
    <2>2. Takes(q, <<"gateways", "RotateToken">>, "", "data")
      BY <2>1, ReachedIs
    <2> QED BY <1>1, <1>7, <2>2 DEF Takes, Agrees, IsMethod
  <1> QED BY <1>2, <1>3, <1>4, <1>5, <1>6, <1>7 DEF Gateways

\* A method that verifies clients reaches the route for it.
LEMMA VerifiesReached ==
    ASSUME NEW m, NEW q \in Routes, Matches(q, m.verb, m.path),
           Verifies(m)
    PROVE  Agrees(q, m)
  <1>1. q.verb = m.verb
    BY DEF Matches
  <1>2. CASE IsMethod(m, <<"clients", "Verify">>, "PUT", 3, "clients", "verify", "", "", "", "data")
    <2>1. Reached(q, "PUT", 3, "clients", "verify", "", "")
      BY <1>2, RouteReached
    <2>2. Takes(q, <<"clients", "Verify">>, "", "data")
      BY <2>1, ReachedIs
    <2> QED BY <1>1, <1>2, <2>2 DEF Takes, Agrees, IsMethod
  <1>3. CASE IsMethod(m, <<"clients", "Unverify">>, "PUT", 3, "clients", "unverify", "", "", "", "data")
    <2>1. Reached(q, "PUT", 3, "clients", "unverify", "", "")
      BY <1>3, RouteReached
    <2>2. Takes(q, <<"clients", "Unverify">>, "", "data")
      BY <2>1, ReachedIs
    <2> QED BY <1>1, <1>3, <2>2 DEF Takes, Agrees, IsMethod
  <1> QED BY <1>2, <1>3 DEF Verifies

(* Whatever route a method's request reaches is the method's own. *)
LEMMA MethodReached ==
    ASSUME NEW m \in Methods, NEW q \in Routes, Matches(q, m.verb, m.path)
    PROVE  Agrees(q, m)
  <1>1. CASE \E c \in Collections : Reads(m, c)
    BY <1>1, ReadsReached
  <1>2. CASE \E c \in Writable : Writes(m, c)
    BY <1>2, WritesReached
  <1>3. CASE \E c \in Writable \ {"clients"} : Creates(m, c)
    BY <1>3, CreatesReached
  <1>4. CASE \E c, members : Holds(c, members) /\ Members(m, c, members)
    BY <1>4, MembersReached
  <1>5. CASE Gateways(m)
    BY <1>5, GatewaysReached
  <1>6. CASE Verifies(m)
    BY <1>6, VerifiesReached
  <1> QED BY <1>1, <1>2, <1>3, <1>4, <1>5, <1>6, MethodKinds


\* Some route is for requests of this shape.
Offers(verb, n, first, third, fifth, sixth) ==
    \E q \in Routes : Shaped(q, verb, n, first, third, fifth, sixth)

(* The API has a route for every method. *)
LEMMA RoutesOffer ==
    /\ \A c \in Collections : Offers("GET", 1, c, "", "", "")
    /\ \A c \in Collections : Offers("GET", 2, c, "", "", "")
    /\ \A c \in Writable : Offers("PATCH", 2, c, "", "", "")
    /\ \A c \in Writable : Offers("DELETE", 2, c, "", "", "")
    /\ \A c \in Writable \ {"clients"} : Offers("POST", 1, c, "", "", "")
    /\ \A c, members : Holds(c, members) => Offers("GET", 3, c, members, "", "")
    /\ \A c, members : Holds(c, members) => Offers("PUT", 3, c, members, "", "")
    /\ \A c, members : Holds(c, members) => Offers("PATCH", 3, c, members, "", "")
    /\ Offers("GET", 3, "sites", "gateways", "", "")
    /\ Offers("POST", 3, "sites", "gateways", "", "")
    /\ Offers("GET", 4, "sites", "gateways", "", "")
    /\ Offers("PATCH", 4, "sites", "gateways", "", "")
    /\ Offers("DELETE", 4, "sites", "gateways", "", "")
    /\ Offers("POST", 6, "sites", "gateways", "token", "rotate")
    /\ Offers("PUT", 3, "clients", "verify", "", "")
    /\ Offers("PUT", 3, "clients", "unverify", "", "")
  <1>1. ASSUME NEW c \in Collections
        PROVE  Offers("GET", 1, c, "", "", "")
    <2> DEFINE q == Route(<<c, "List">>, "GET", <<c>>, "", "page")
    <2>1. q \in ReadRoutes(c)
      BY Zenon DEF ReadRoutes
    <2>2. q \in Reading
      <3> HIDE DEF q
      <3> QED BY <2>1 DEF Reading, Collections
    <2>3. q \in Routes
      BY <2>2, Zenon DEF Routes
    <2>4. IsRoute(q, <<c, "List">>, "GET", 1, c, "", "", "", "", "page")
      BY RouteOf1
    <2> HIDE DEF q
    <2> QED BY <2>3, <2>4 DEF IsRoute, Offers
  <1>2. ASSUME NEW c \in Collections
        PROVE  Offers("GET", 2, c, "", "", "")
    <2> DEFINE q == Route(<<c, "Get">>, "GET", <<c, ":id">>, "", "data")
    <2>1. q \in ReadRoutes(c)
      BY Zenon DEF ReadRoutes
    <2>2. q \in Reading
      <3> HIDE DEF q
      <3> QED BY <2>1 DEF Reading, Collections
    <2>3. q \in Routes
      BY <2>2, Zenon DEF Routes
    <2>4. IsRoute(q, <<c, "Get">>, "GET", 2, c, "", "", "", "", "data")
      BY RouteOf2
    <2> HIDE DEF q
    <2> QED BY <2>3, <2>4 DEF IsRoute, Offers
  <1>3. ASSUME NEW c \in Writable
        PROVE  Offers("PATCH", 2, c, "", "", "")
    <2> DEFINE q == Route(<<c, "Update">>, "PATCH", <<c, ":id">>, BodyKey[c], "data")
    <2>1. q \in WriteRoutes(c)
      BY Zenon DEF WriteRoutes
    <2>2. q \in Writing
      <3> HIDE DEF q
      <3> QED BY <2>1 DEF Writing, Writable
    <2>3. q \in Routes
      BY <2>2, Zenon DEF Routes
    <2>4. IsRoute(q, <<c, "Update">>, "PATCH", 2, c, "", "", "", BodyKey[c], "data")
      BY RouteOf2
    <2> HIDE DEF q
    <2> QED BY <2>3, <2>4 DEF IsRoute, Offers
  <1>4. ASSUME NEW c \in Writable
        PROVE  Offers("DELETE", 2, c, "", "", "")
    <2> DEFINE q == Route(<<c, "Delete">>, "DELETE", <<c, ":id">>, "", "data")
    <2>1. q \in WriteRoutes(c)
      BY Zenon DEF WriteRoutes
    <2>2. q \in Writing
      <3> HIDE DEF q
      <3> QED BY <2>1 DEF Writing, Writable
    <2>3. q \in Routes
      BY <2>2, Zenon DEF Routes
    <2>4. IsRoute(q, <<c, "Delete">>, "DELETE", 2, c, "", "", "", "", "data")
      BY RouteOf2
    <2> HIDE DEF q
    <2> QED BY <2>3, <2>4 DEF IsRoute, Offers
  <1>5. ASSUME NEW c \in Writable \ {"clients"}
        PROVE  Offers("POST", 1, c, "", "", "")
    <2> DEFINE q == Route(<<c, "Create">>, "POST", <<c>>, BodyKey[c], "data")
    <2>1. q \in Making
      BY DEF Making, CreateRoute, Writable
    <2>2. q \in Routes
      BY <2>1, Zenon DEF Routes
    <2>3. IsRoute(q, <<c, "Create">>, "POST", 1, c, "", "", "", BodyKey[c], "data")
      BY RouteOf1
    <2> HIDE DEF q
    <2> QED BY <2>2, <2>3 DEF IsRoute, Offers
  <1>6. ASSUME NEW c, NEW members, Holds(c, members)
        PROVE  Offers("GET", 3, c, members, "", "")
    <2> DEFINE q == Route(<<members, "List">>, "GET", <<c, ":id", members>>, "", "page")
    <2>1. q \in MemberRoutes(c, members)
      BY Zenon DEF MemberRoutes
    <2>2. q \in Routes
      <3> HIDE DEF q
      <3> QED BY <1>6, <2>1, Zenon DEF Holds, Routes
    <2>3. IsRoute(q, <<members, "List">>, "GET", 3, c, members, "", "", "", "page")
      BY RouteOf3
    <2> HIDE DEF q
    <2> QED BY <2>2, <2>3 DEF IsRoute, Offers
  <1>7. ASSUME NEW c, NEW members, Holds(c, members)
        PROVE  Offers("PUT", 3, c, members, "", "")
    <2> DEFINE q == Route(<<members, "ReplaceAll">>, "PUT", <<c, ":id", members>>, members, "data")
    <2>1. q \in MemberRoutes(c, members)
      BY Zenon DEF MemberRoutes
    <2>2. q \in Routes
      <3> HIDE DEF q
      <3> QED BY <1>7, <2>1, Zenon DEF Holds, Routes
    <2>3. IsRoute(q, <<members, "ReplaceAll">>, "PUT", 3, c, members, "", "", members, "data")
      BY RouteOf3
    <2> HIDE DEF q
    <2> QED BY <2>2, <2>3 DEF IsRoute, Offers
  <1>8. ASSUME NEW c, NEW members, Holds(c, members)
        PROVE  Offers("PATCH", 3, c, members, "", "")
    <2> DEFINE q == Route(<<members, "Patch">>, "PATCH", <<c, ":id", members>>, members, "data")
    <2>1. q \in MemberRoutes(c, members)
      BY Zenon DEF MemberRoutes
    <2>2. q \in Routes
      <3> HIDE DEF q
      <3> QED BY <1>8, <2>1, Zenon DEF Holds, Routes
    <2>3. IsRoute(q, <<members, "Patch">>, "PATCH", 3, c, members, "", "", members, "data")
      BY RouteOf3
    <2> HIDE DEF q
    <2> QED BY <2>2, <2>3 DEF IsRoute, Offers
  <1>9. Offers("GET", 3, "sites", "gateways", "", "")
    <2> DEFINE q == Route(<<"gateways", "List">>, "GET", <<"sites", ":id", "gateways">>, "", "page")
    <2>1. q \in GatewayRoutes
      BY GatewayRoutesAre, Zenon
    <2>2. q \in Routes
      BY <2>1, Zenon DEF Routes
    <2>3. IsRoute(q, <<"gateways", "List">>, "GET", 3, "sites", "gateways", "", "", "", "page")
      BY RouteOf3
    <2> HIDE DEF q
    <2> QED BY <2>2, <2>3 DEF IsRoute, Offers
  <1>10. Offers("POST", 3, "sites", "gateways", "", "")
    <2> DEFINE q == Route(<<"gateways", "Provision">>, "POST", <<"sites", ":id", "gateways">>, "gateway", "data")
    <2>1. q \in GatewayRoutes
      BY GatewayRoutesAre, Zenon
    <2>2. q \in Routes
      BY <2>1, Zenon DEF Routes
    <2>3. IsRoute(q, <<"gateways", "Provision">>, "POST", 3, "sites", "gateways", "", "", "gateway", "data")
      BY RouteOf3
    <2> HIDE DEF q
    <2> QED BY <2>2, <2>3 DEF IsRoute, Offers
  <1>11. Offers("GET", 4, "sites", "gateways", "", "")
    <2> DEFINE q == Route(<<"gateways", "Get">>, "GET", <<"sites", ":id", "gateways", ":id">>, "", "data")
    <2>1. q \in GatewayRoutes
      BY GatewayRoutesAre, Zenon
    <2>2. q \in Routes
      BY <2>1, Zenon DEF Routes
    <2>3. IsRoute(q, <<"gateways", "Get">>, "GET", 4, "sites", "gateways", "", "", "", "data")
      BY RouteOf4
    <2> HIDE DEF q
    <2> QED BY <2>2, <2>3 DEF IsRoute, Offers
  <1>12. Offers("PATCH", 4, "sites", "gateways", "", "")
    <2> DEFINE q == Route(<<"gateways", "Update">>, "PATCH", <<"sites", ":id", "gateways", ":id">>, "gateway", "data")
    <2>1. q \in GatewayRoutes
      BY GatewayRoutesAre, Zenon
    <2>2. q \in Routes
      BY <2>1, Zenon DEF Routes
    <2>3. IsRoute(q, <<"gateways", "Update">>, "PATCH", 4, "sites", "gateways", "", "", "gateway", "data")
      BY RouteOf4
    <2> HIDE DEF q
    <2> QED BY <2>2, <2>3 DEF IsRoute, Offers
  <1>13. Offers("DELETE", 4, "sites", "gateways", "", "")
    <2> DEFINE q == Route(<<"gateways", "Delete">>, "DELETE", <<"sites", ":id", "gateways", ":id">>, "", "data")
    <2>1. q \in GatewayRoutes
      BY GatewayRoutesAre, Zenon
    <2>2. q \in Routes
      BY <2>1, Zenon DEF Routes
    <2>3. IsRoute(q, <<"gateways", "Delete">>, "DELETE", 4, "sites", "gateways", "", "", "", "data")
      BY RouteOf4
    <2> HIDE DEF q
    <2> QED BY <2>2, <2>3 DEF IsRoute, Offers
  <1>14. Offers("POST", 6, "sites", "gateways", "token", "rotate")
    <2> DEFINE q == Route(<<"gateways", "RotateToken">>, "POST", <<"sites", ":id", "gateways", ":id", "token", "rotate">>, "", "data")
    <2>1. q \in GatewayRoutes
      BY GatewayRoutesAre, Zenon
    <2>2. q \in Routes
      BY <2>1, Zenon DEF Routes
    <2>3. IsRoute(q, <<"gateways", "RotateToken">>, "POST", 6, "sites", "gateways", "token", "rotate", "", "data")
      BY RouteOf6
    <2> HIDE DEF q
    <2> QED BY <2>2, <2>3 DEF IsRoute, Offers
  <1>15. Offers("PUT", 3, "clients", "verify", "", "")
    <2> DEFINE q == Route(<<"clients", "Verify">>, "PUT", <<"clients", ":id", "verify">>, "", "data")
    <2>1. q \in Routes
      BY Zenon DEF Routes, VerifyRoutes
    <2>2. IsRoute(q, <<"clients", "Verify">>, "PUT", 3, "clients", "verify", "", "", "", "data")
      BY RouteOf3
    <2> HIDE DEF q
    <2> QED BY <2>1, <2>2 DEF IsRoute, Offers
  <1>16. Offers("PUT", 3, "clients", "unverify", "", "")
    <2> DEFINE q == Route(<<"clients", "Unverify">>, "PUT", <<"clients", ":id", "unverify">>, "", "data")
    <2>1. q \in Routes
      BY Zenon DEF Routes, VerifyRoutes
    <2>2. IsRoute(q, <<"clients", "Unverify">>, "PUT", 3, "clients", "unverify", "", "", "", "data")
      BY RouteOf3
    <2> HIDE DEF q
    <2> QED BY <2>1, <2>2 DEF IsRoute, Offers
  <1> QED BY <1>1, <1>2, <1>3, <1>4, <1>5, <1>6, <1>7, <1>8, <1>9, <1>10, <1>11, <1>12, <1>13, <1>14, <1>15, <1>16

\* A route of a method's shape takes its request.
LEMMA OfferedIsFound ==
    ASSUME NEW m, NEW op, NEW verb, NEW n \in 1..6, NEW first, NEW third, NEW fifth,
           NEW sixth, NEW key, NEW out,
           IsMethod(m, op, verb, n, first, third, fifth, sixth, key, out),
           Offers(verb, n, first, third, fifth, sixth)
    PROVE  \E q \in Routes : Matches(q, m.verb, m.path)
  <1>1. PICK q \in Routes : Shaped(q, verb, n, first, third, fifth, sixth)
    BY DEF Offers
  <1>2. Fits(m.path, n, first, third, fifth, sixth) /\ m.verb = verb
    BY DEF IsMethod
  <1>3. Matches(q, verb, m.path)
    BY <1>1, <1>2, ShapeMatches
  <1> QED BY <1>1, <1>2, <1>3

(* Every request that a method makes reaches a route. *)
LEMMA MethodFound ==
    ASSUME NEW m \in Methods
    PROVE  \E q \in Routes : Matches(q, m.verb, m.path)
  <1>1. /\ 1 \in 1..6 /\ 2 \in 1..6 /\ 3 \in 1..6 /\ 4 \in 1..6 /\ 6 \in 1..6
    OBVIOUS
  <1>2. CASE \E c \in Collections : Reads(m, c)
    BY <1>1, <1>2, RoutesOffer, OfferedIsFound, Zenon DEF Reads
  <1>3. CASE \E c \in Writable : Writes(m, c)
    BY <1>1, <1>3, RoutesOffer, OfferedIsFound, Zenon DEF Writes
  <1>4. CASE \E c \in Writable \ {"clients"} : Creates(m, c)
    BY <1>1, <1>4, RoutesOffer, OfferedIsFound, Zenon DEF Creates
  <1>5. CASE \E c, members : Holds(c, members) /\ Members(m, c, members)
    BY <1>1, <1>5, RoutesOffer, OfferedIsFound, Zenon DEF Members
  <1>6. CASE Gateways(m)
    BY <1>1, <1>6, RoutesOffer, OfferedIsFound, Zenon DEF Gateways
  <1>7. CASE Verifies(m)
    BY <1>1, <1>7, RoutesOffer, OfferedIsFound, Zenon DEF Verifies
  <1> QED BY <1>2, <1>3, <1>4, <1>5, <1>6, <1>7, MethodKinds


-----------------------------------------------------------------------------
(* The parameters a route takes. *)

\* One more segment, which may be one more parameter.
ParameterStep(route, segments, ids, i) ==
    IF route.path[i] = ":id" THEN Append(ids, segments[i]) ELSE ids

ParameterSteps(route, segments) ==
    [p \in Seq(Text) \X Nat |->
        IF p[2] \in 1..Len(segments)
        THEN ParameterStep(route, segments, p[1], p[2]) ELSE p[1]]

\* Taking parameters is a run of its steps.
LEMMA ParameterRuns ==
    ASSUME NEW q, NEW segments \in Seq(Text)
    PROVE  \E F : /\ IsRun(F, Len(segments), Seq(Text), <<>>, ParameterSteps(q, segments))
                  /\ Parameters(q, segments) = F[Len(segments)]
  <1> DEFINE n == Len(segments)
             G == ParameterSteps(q, segments)
             S == Seq(Text)
             index == [i \in DOMAIN segments |-> i]
             IsTaken(g) == g = [s \in SUBSET DOMAIN index |->
                                IF s = {} THEN <<>>
                                ELSE ParameterStep(q, segments, g[s \ {Max(s)}], index[Max(s)])]
             h == CHOOSE g : IsTaken(g)
  <1>1. Parameters(q, segments) = h[DOMAIN index]
    BY DEF Parameters, FoldLeftDomain, FoldLeft, MapThenFoldSet, ParameterStep
  <1>2. DOMAIN segments = 1..n /\ n \in Nat /\ DOMAIN index = 1..n
        /\ \A i \in 1..n : index[i] = i
    BY LenProperties
  <1>3. G \in [S \X Nat -> S] /\ <<>> \in S
    <2>1. \A i \in 1..Len(segments) : segments[i] \in Text
      BY ElementOfSeq
    <2>2. ASSUME NEW ids \in S, NEW i \in 1..Len(segments)
          PROVE  ParameterStep(q, segments, ids, i) \in S
      <3>1. Append(ids, segments[i]) \in S
        BY <2>1, AppendProperties
      <3> QED BY <3>1 DEF ParameterStep
    <2> QED BY <2>2, EmptySeq DEF ParameterSteps
  <1>4. \A x \in S : \A i \in 1..n : G[<<x, i>>] = ParameterStep(q, segments, x, i)
    BY <1>2 DEF ParameterSteps
  <1> HIDE DEF G, n, index
  <1>5. PICK g \in [SUBSET (1..n) -> S] : IsFold(g, n, <<>>, G)
    BY <1>2, <1>3, FoldExists
  <1>6. IsTaken(g)
    <2>1. ASSUME NEW s \in SUBSET (1..n), s # {}
          PROVE  G[<<g[s \ {Max(s)}], Max(s)>>]
                     = ParameterStep(q, segments, g[s \ {Max(s)}], index[Max(s)])
      <3>1. Max(s) \in 1..n /\ s \ {Max(s)} \in SUBSET (1..n)
        BY <1>2, <2>1, LargestIn
      <3>2. index[Max(s)] = Max(s)
        BY <1>2, <3>1
      <3> QED BY <1>4, <1>5, <3>1, <3>2
    <2> QED BY <1>2, <1>5, <2>1 DEF IsFold
  <1>7. IsTaken(h)
    BY <1>6
  <1> HIDE DEF h
  <1>8. h[{}] = <<>>
    BY <1>7
  <1>9. ASSUME NEW s \in SUBSET (1..n), s # {}, h[s \ {Max(s)}] \in S
        PROVE  h[s] = G[<<h[s \ {Max(s)}], Max(s)>>]
    <2>1. Max(s) \in 1..n
      BY <1>2, <1>9, LargestIn
    <2>2. h[s] = ParameterStep(q, segments, h[s \ {Max(s)}], index[Max(s)])
      BY <1>2, <1>7, <1>9
    <2> QED BY <1>2, <1>4, <1>9, <2>1, <2>2
  <1>10. PICK F : F = [i \in 0..n |-> h[1..i]]
    OBVIOUS
  <1>11. IsRun(F, n, S, <<>>, G)
    <2>1. \A s \in SUBSET (1..n) : s # {} /\ h[s \ {Max(s)}] \in S
              => h[s] = G[<<h[s \ {Max(s)}], Max(s)>>]
      BY <1>9
    <2> HIDE DEF IsTaken
    <2> QED BY <1>2, <1>3, <1>8, <1>10, <2>1, FoldRuns
  <1>12. F[n] = h[1..n]
    BY <1>2, <1>10
  <1> QED BY <1>1, <1>2, <1>11, <1>12 DEF G, n

(* A route takes the segments at its parameters, and no others. *)
LEMMA ParametersOfShape ==
    ASSUME NEW q, NEW segments, NEW verb, NEW n \in 1..6,
           NEW first, NEW third, NEW fifth, NEW sixth,
           Shaped(q, verb, n, first, third, fifth, sixth),
           Fits(segments, n, first, third, fifth, sixth),
           Literals(first, third, fifth, sixth)
    PROVE  Parameters(q, segments) = Params(segments)
  <1> DEFINE S == Seq(Text)
             E == <<>>
             E2 == <<segments[2]>>
             E24 == <<segments[2], segments[4]>>
  <1>1. segments \in Seq(Text) /\ Len(segments) = n /\ \A i \in 1..n : segments[i] \in Text
    BY FitsLength
  <1>2. PICK F : /\ IsRun(F, n, S, E, ParameterSteps(q, segments))
                 /\ Parameters(q, segments) = F[n]
    BY <1>1, ParameterRuns
  <1>3. ASSUME NEW i \in 1..n
        PROVE  F[i] = ParameterStep(q, segments, F[i - 1], i)
    <2>1. i - 1 \in 0..(n - 1) /\ i - 1 \in 0..n /\ (i - 1) + 1 = i
      OBVIOUS
    <2>2. F[i] = ParameterSteps(q, segments)[<<F[i - 1], i>>] /\ F[i - 1] \in S
      BY <1>2, <2>1 DEF IsRun
    <2> QED BY <1>1, <2>2 DEF ParameterSteps
  <1>4. ASSUME NEW i \in 1..n, NEW ids, F[i - 1] = ids
        PROVE  /\ q.path[i] # ":id" => F[i] = ids
               /\ q.path[i] = ":id" => F[i] = Append(ids, segments[i])
    BY <1>3, <1>4 DEF ParameterStep
  <1>5. F[0] = E
    BY <1>2 DEF IsRun
  <1>6. F[1] = E
    <2>1. 1 \in 1..n /\ 1 - 1 = 0
      OBVIOUS
    <2>2. q.path[1] # ":id"
      BY DEF Shaped, Literals
    <2> QED BY <1>4, <1>5, <2>1, <2>2
  <1>7. ASSUME n > 1 PROVE F[2] = E2
    <2>1. 2 \in 1..n /\ 2 - 1 = 1
      BY <1>7
    <2>2. q.path[2] = ":id"
      BY <1>7 DEF Shaped
    <2>3. F[2] = Append(E, segments[2])
      BY <1>4, <1>6, <2>1, <2>2
    <2> QED BY <2>3
  <1>8. ASSUME n > 2 PROVE F[3] = E2
    <2>1. 3 \in 1..n /\ 3 - 1 = 2 /\ n > 1
      BY <1>8
    <2>2. q.path[3] # ":id"
      BY <1>8 DEF Shaped, Literals
    <2> QED BY <1>4, <1>7, <2>1, <2>2
  <1>9. ASSUME n > 3 PROVE F[4] = E24
    <2>1. 4 \in 1..n /\ 4 - 1 = 3 /\ n > 2
      BY <1>9
    <2>2. q.path[4] = ":id"
      BY <1>9 DEF Shaped
    <2>3. F[4] = Append(E2, segments[4])
      BY <1>4, <1>8, <2>1, <2>2
    <2>4. ASSUME NEW a, NEW b PROVE Append(<<a>>, b) = <<a, b>>
      <3> DEFINE one == <<a>>
                 two == <<a, b>>
      <3>1. /\ one \in Seq({a, b}) /\ two \in Seq({a, b}) /\ b \in {a, b}
            /\ Len(one) = 1 /\ Len(two) = 2 /\ one[1] = a /\ two[1] = a /\ two[2] = b
        OBVIOUS
      <3> HIDE DEF one, two
      <3>2. PICK more \in Seq({a, b}) : more = Append(one, b)
        BY <3>1, AppendProperties
      <3>3. Len(more) = 2 /\ more[1] = a /\ more[2] = b
        <4>1. /\ Len(more) = Len(one) + 1
              /\ \A i \in 1..Len(one) : more[i] = one[i]
              /\ more[Len(one) + 1] = b
          BY <3>1, <3>2, AppendProperties
        <4>2. 1 \in 1..1
          OBVIOUS
        <4> QED BY <3>1, <4>1, <4>2
      <3>4. Len(more) = Len(two) /\ \A i \in 1..Len(more) : more[i] = two[i]
        BY <3>1, <3>3
      <3>5. more = two
        BY <3>1, <3>4, SeqEqual
      <3> QED BY <3>2, <3>5 DEF one, two
    <2> QED BY <2>3, <2>4, Zenon
  <1>10. ASSUME n > 4 PROVE F[5] = E24
    <2>1. 5 \in 1..n /\ 5 - 1 = 4 /\ n > 3
      BY <1>10
    <2>2. q.path[5] # ":id"
      BY <1>10 DEF Shaped, Literals
    <2> QED BY <1>4, <1>9, <2>1, <2>2
  <1>11. ASSUME n > 5 PROVE F[6] = E24
    <2>1. 6 \in 1..n /\ 6 - 1 = 5 /\ n > 4
      BY <1>11
    <2>2. q.path[6] # ":id"
      BY <1>11 DEF Shaped, Literals
    <2> QED BY <1>4, <1>10, <2>1, <2>2
  <1> HIDE DEF E, E2, E24
  <1>12. F[n] = IF n = 1 THEN E ELSE IF n < 4 THEN E2 ELSE E24
    <2>1. n = 1 \/ n = 2 \/ n = 3 \/ n = 4 \/ n = 5 \/ n = 6
      OBVIOUS
    <2> QED BY <1>6, <1>7, <1>8, <1>9, <1>10, <1>11, <2>1
  <1> QED BY <1>1, <1>2, <1>12 DEF Params, E, E2, E24


\* The words that methods put into a path, "" for none: no dot segment.
Spelled(first, third, fifth, sixth) ==
    first # "." /\ third # "." /\ fifth # "." /\ sixth # "."

Verbs == {"GET", "POST", "PUT", "PATCH", "DELETE"}

\* A method makes a request of some shape.
Makes(m) ==
    \E op, verb, n, first, third, fifth, sixth, key, out :
        /\ n \in 1..6 /\ verb \in Verbs
        /\ Spelled(first, third, fifth, sixth)
        /\ IsMethod(m, op, verb, n, first, third, fifth, sixth, key, out)

\* Every method makes a request of some shape.
LEMMA MethodMakes ==
    ASSUME NEW m \in Methods
    PROVE  Makes(m)
  <1>1. ASSUME NEW op, NEW verb, NEW n, NEW first, NEW third, NEW fifth, NEW sixth,
               NEW key, NEW out, n \in 1..6, verb \in Verbs,
               Spelled(first, third, fifth, sixth),
               IsMethod(m, op, verb, n, first, third, fifth, sixth, key, out)
        PROVE  Makes(m)
    BY <1>1, Zenon DEF Makes
  <1>2. /\ 1 \in 1..6 /\ 2 \in 1..6 /\ 3 \in 1..6 /\ 4 \in 1..6 /\ 6 \in 1..6
        /\ "GET" \in Verbs /\ "POST" \in Verbs /\ "PUT" \in Verbs /\ "PATCH" \in Verbs
        /\ "DELETE" \in Verbs
    BY DEF Verbs
  <1>3. \A c \in Collections : Spelled(c, "", "", "")
    BY DEF Spelled, Collections, ReadOnly, BodyKey
  <1>4. /\ \A c, members : Holds(c, members) => Spelled(c, members, "", "")
        /\ Spelled("sites", "gateways", "", "")
        /\ Spelled("sites", "gateways", "token", "rotate")
        /\ Spelled("clients", "verify", "", "") /\ Spelled("clients", "unverify", "", "")
    BY DEF Spelled, Holds
  <1>5. Writable \subseteq Collections
    BY CollectionNames
  <1>6. ASSUME NEW c \in Collections, Reads(m, c)
        PROVE  Makes(m)
    BY <1>1, <1>2, <1>3, <1>6, Zenon DEF Reads
  <1>7. ASSUME NEW c \in Collections, Writes(m, c)
        PROVE  Makes(m)
    BY <1>1, <1>2, <1>3, <1>7, Zenon DEF Writes
  <1>8. ASSUME NEW c \in Collections, Creates(m, c)
        PROVE  Makes(m)
    BY <1>1, <1>2, <1>3, <1>8, Zenon DEF Creates
  <1>9. ASSUME NEW c, NEW members, Holds(c, members), Members(m, c, members)
        PROVE  Makes(m)
    BY <1>1, <1>2, <1>4, <1>9, Zenon DEF Members
  <1>10. ASSUME Gateways(m)
         PROVE  Makes(m)
    BY <1>1, <1>2, <1>4, <1>10, Zenon DEF Gateways
  <1>11. ASSUME Verifies(m)
         PROVE  Makes(m)
    BY <1>1, <1>2, <1>4, <1>11, Zenon DEF Verifies
  <1> QED BY <1>5, <1>6, <1>7, <1>8, <1>9, <1>10, <1>11, MethodKinds

\* A route is for requests of some shape, and answers.
Serves(q) ==
    \E verb, n, first, third, fifth, sixth :
        /\ n \in 1..6
        /\ Literals(first, third, fifth, sixth)
        /\ Shaped(q, verb, n, first, third, fifth, sixth)
        /\ q.answer \in {"data", "page"}

\* Every route is for requests of some shape.
LEMMA RouteServes ==
    ASSUME NEW q \in Routes
    PROVE  Serves(q)
  <1>1. ASSUME NEW op, NEW verb, NEW n, NEW first, NEW third, NEW fifth, NEW sixth,
               NEW key, NEW answers, n \in 1..6, answers \in {"data", "page"},
               Literals(first, third, fifth, sixth),
               IsRoute(q, op, verb, n, first, third, fifth, sixth, key, answers)
        PROVE  Serves(q)
    BY <1>1, Zenon DEF Serves, IsRoute
  <1>2. /\ 1 \in 1..6 /\ 2 \in 1..6 /\ 3 \in 1..6 /\ 4 \in 1..6 /\ 5 \in 1..6
        /\ 6 \in 1..6 /\ "data" \in {"data", "page"} /\ "page" \in {"data", "page"}
    OBVIOUS
  <1>3. \A c \in Collections : Literals(c, "", "", "")
    BY CollectionNames DEF Literals
  <1>4. \A c \in Writable : Literals(c, "", "", "")
    BY CollectionNames, <1>3
  <1>5. /\ \A c, members : Holds(c, members) => Literals(c, members, "", "")
        /\ Literals("sites", "gateways", "", "") /\ Literals("sites", "gateways", "token", "")
        /\ Literals("sites", "gateways", "token", "rotate")
        /\ Literals("clients", "verify", "", "") /\ Literals("clients", "unverify", "", "")
    BY DEF Literals, Holds
  <1>6. \A c \in Writable \ {"clients"} : Literals(c, "", "", "")
    BY <1>4
  <1> QED BY <1>1, <1>2, <1>3, <1>4, <1>5, <1>6, RouteKinds, ZenonT(60)

(* The parameters a route takes from a method's path are the caller's
   identifiers, in order. *)
LEMMA MethodParameters ==
    ASSUME NEW m \in Methods, NEW q \in Routes, Matches(q, m.verb, m.path)
    PROVE  Parameters(q, m.path) = m.ids
  <1>1. m.path \in Seq(Text) /\ m.ids = Params(m.path)
    BY MethodMakes DEF Makes, IsMethod, Fits
  <1>2. PICK verb, n, first, third, fifth, sixth :
            /\ n \in 1..6
            /\ Literals(first, third, fifth, sixth)
            /\ Shaped(q, verb, n, first, third, fifth, sixth)
    BY RouteServes DEF Serves
  <1>3. PICK path \in Seq(Text) : path = m.path
    BY <1>1
  <1>4. Fits(path, n, first, third, fifth, sixth)
    BY <1>2, <1>3, MatchesShape
  <1>5. Parameters(q, path) = Params(path)
    BY <1>2, <1>4, ParametersOfShape
  <1> QED BY <1>1, <1>3, <1>5


-----------------------------------------------------------------------------
(* What is refused. *)

\* An identifier that passes the check can be addressed.
LEMMA CheckedIsAddressable ==
    ASSUME NEW id \in Text
    PROVE  /\ CheckID(id) = "ok" => id \in Addressable
           /\ CheckID(id) = "ErrMissingID" => id = <<>>
           /\ CheckID(id) = "dot segment"
                  => id # <<>> /\ (id = <<".">> \/ id = <<".", ".">>)
           /\ CheckID(id) \in {"ok", "ErrMissingID", "dot segment"}
  BY DEF CheckID, Addressable

\* A word that methods put into a path is no dot segment.
LEMMA WordIsAddressable ==
    ASSUME NEW word, word # ".", <<word>> \in Text
    PROVE  <<word>> \in Addressable
  <1>1. \A a, b : <<a>> = <<b>> => a = b
    OBVIOUS
  <1>2. <<word>> # <<>> /\ <<word>> # <<".", ".">>
    OBVIOUS
  <1> QED BY <1>1, <1>2 DEF Addressable

\* The path of a method whose identifiers pass their checks.
LEMMA MethodPath ==
    ASSUME NEW m \in Methods
    PROVE  /\ m.path \in Seq(Text) /\ m.path # <<>>
           /\ DOMAIN m.ids \subseteq {1, 2} /\ \A i \in DOMAIN m.ids : m.ids[i] \in Text
           /\ (\A i \in DOMAIN m.ids : CheckID(m.ids[i]) = "ok")
                  => m.path \in Seq(Addressable)
           /\ m.verb \in Verbs
  <1>1. PICK op, verb, n, first, third, fifth, sixth, key, out :
            /\ n \in 1..6 /\ verb \in Verbs
            /\ Spelled(first, third, fifth, sixth)
            /\ IsMethod(m, op, verb, n, first, third, fifth, sixth, key, out)
    BY MethodMakes DEF Makes
  <1>2. /\ Fits(m.path, n, first, third, fifth, sixth) /\ m.ids = Params(m.path)
        /\ m.verb = verb
    BY <1>1 DEF IsMethod
  <1>3. PICK path : path = m.path
    OBVIOUS
  <1>4. PICK ids : ids = m.ids
    OBVIOUS
  <1>5. /\ path \in Seq(Text) /\ Len(path) = n /\ DOMAIN path = 1..n
        /\ \A i \in 1..n : path[i] \in Text
    BY <1>2, <1>3, FitsLength
  <1>6. ids = IF n = 1 THEN <<>> ELSE IF n < 4 THEN <<path[2]>> ELSE <<path[2], path[4]>>
    BY <1>2, <1>3, <1>4, <1>5 DEF Params
  <1>7. n = 1 \/ n \in {2, 3} \/ n \in {4, 5, 6}
    BY <1>1
  <1>8. /\ n = 1 => DOMAIN ids = {}
        /\ n \in {2, 3} => DOMAIN ids = {1} /\ ids[1] = path[2]
        /\ n \in {4, 5, 6} => DOMAIN ids = {1, 2} /\ ids[1] = path[2] /\ ids[2] = path[4]
    <2>1. CASE n = 1
      BY <1>6, <2>1
    <2>2. CASE n \in {2, 3}
      BY <1>6, <2>2
    <2>3. CASE n \in {4, 5, 6}
      BY <1>6, <2>3
    <2> QED BY <1>7, <2>1, <2>2, <2>3
  <1>9. \A i \in DOMAIN ids : ids[i] \in Text
    <2>1. /\ n \in {2, 3} => 2 \in 1..n
          /\ n \in {4, 5, 6} => 2 \in 1..n /\ 4 \in 1..n
      OBVIOUS
    <2> QED BY <1>5, <1>7, <1>8, <2>1
  <1>10. ASSUME \A i \in DOMAIN ids : CheckID(ids[i]) = "ok"
         PROVE  path \in Seq(Addressable)
    <2>1. \A id \in Text : CheckID(id) = "ok" => id \in Addressable
      BY CheckedIsAddressable
    <2>2. n > 1 => path[2] \in Addressable
      <3>1. n > 1 => n \in {2, 3} \/ n \in {4, 5, 6}
        BY <1>7
      <3>2. n \in {2, 3} \/ n \in {4, 5, 6} => 1 \in DOMAIN ids /\ ids[1] = path[2]
        BY <1>8
      <3> QED BY <1>9, <1>10, <2>1, <3>1, <3>2
    <2>3. n > 3 => path[4] \in Addressable
      <3>1. n > 3 => n \in {4, 5, 6}
        BY <1>7
      <3>2. n \in {4, 5, 6} => 2 \in DOMAIN ids /\ ids[2] = path[4]
        BY <1>8
      <3> QED BY <1>9, <1>10, <2>1, <3>1, <3>2
    <2>4. /\ path[1] = <<first>>
          /\ n > 2 => path[3] = <<third>>
          /\ n > 4 => path[5] = <<fifth>>
          /\ n > 5 => path[6] = <<sixth>>
      BY <1>2, <1>3 DEF Fits
    <2>5. first # "." /\ third # "." /\ fifth # "." /\ sixth # "."
      BY <1>1 DEF Spelled
    <2>6. ASSUME NEW i \in 1..n
          PROVE  path[i] \in Addressable
      <3>1. path[i] \in Text
        BY <1>5
      <3>2. CASE i = 1
        BY <2>4, <2>5, <3>1, <3>2, WordIsAddressable
      <3>3. CASE i = 2
        BY <2>2, <3>3, <1>1
      <3>4. CASE i = 3
        <4>1. path[3] = <<third>>
          BY <1>1, <2>4, <3>4
        <4> QED BY <2>5, <3>1, <3>4, <4>1, WordIsAddressable
      <3>5. CASE i = 4
        BY <2>3, <3>5, <1>1
      <3>6. CASE i = 5
        <4>1. path[5] = <<fifth>>
          BY <1>1, <2>4, <3>6
        <4> QED BY <2>5, <3>1, <3>6, <4>1, WordIsAddressable
      <3>7. CASE i = 6
        <4>1. path[6] = <<sixth>>
          BY <1>1, <2>4, <3>7
        <4> QED BY <2>5, <3>1, <3>7, <4>1, WordIsAddressable
      <3>8. i = 1 \/ i = 2 \/ i = 3 \/ i = 4 \/ i = 5 \/ i = 6
        BY <1>1
      <3> QED BY <3>2, <3>3, <3>4, <3>5, <3>6, <3>7, <3>8
    <2> QED BY <1>1, <1>5, <2>6
  <1>11. path # <<>>
    BY <1>1, <1>5
  <1>12. DOMAIN ids \subseteq {1, 2}
    BY <1>7, <1>8
  <1> QED BY <1>1, <1>2, <1>3, <1>4, <1>5, <1>9, <1>10, <1>11, <1>12

\* What refuses a call, and why.
LEMMA RefusalReason ==
    ASSUME call \in Methods
    PROVE  /\ Refusal = "ok" =>
                  /\ \A i \in DOMAIN call.ids : CheckID(call.ids[i]) = "ok"
                  /\ call.body.value # "nil"
           /\ Refusal = "ErrMissingID" => \E i \in DOMAIN call.ids : call.ids[i] = <<>>
           /\ Refusal = "dot segment" =>
                  \E i \in DOMAIN call.ids :
                      /\ call.ids[i] # <<>>
                      /\ Normalised(<<PathEscape(call.ids[i])>>) = <<>>
           /\ Refusal = "ErrNilRequest" => call.body.value = "nil"
           /\ Refusal \in {"ok", "ErrMissingID", "dot segment", "ErrNilRequest"}
  <1> DEFINE bad == {i \in DOMAIN call.ids : CheckID(call.ids[i]) # "ok"}
             first == Min(bad)
  <1>1. Refusal = IF bad = {} THEN WrapBody(call.body) ELSE CheckID(call.ids[first])
    BY DEF Refusal
  <1>2. /\ WrapBody(call.body) = "ok" => call.body.value # "nil"
        /\ WrapBody(call.body) = "ErrNilRequest" => call.body.value = "nil"
        /\ WrapBody(call.body) \in {"ok", "ErrNilRequest"}
    BY DEF WrapBody
  <1>3. bad # {} => first \in bad
    <2>1. bad \subseteq {1, 2}
      BY MethodPath
    <2>2. bad # {} => \E i \in bad : \A j \in bad : i <= j
      <3>1. CASE 1 \in bad
        BY <2>1, <3>1
      <3>2. CASE 1 \notin bad
        BY <2>1, <3>2
      <3> QED BY <3>1, <3>2
    <2> HIDE DEF bad
    <2> QED BY <2>2 DEF Min
  <1>4. bad # {} => first \in DOMAIN call.ids /\ CheckID(call.ids[first]) # "ok"
    BY <1>3
  <1>5. bad = {} => \A i \in DOMAIN call.ids : CheckID(call.ids[i]) = "ok"
    OBVIOUS
  <1>6. ASSUME NEW id \in Text, id = <<".">> \/ id = <<".", ".">>
        PROVE  Normalised(<<PathEscape(id)>>) = <<>>
    <2>1. PICK e \in Wire : e = PathEscape(id)
      BY EscapedOnTheWire
    <2>2. e \in {Dot, DotDot}
      BY <1>6, <2>1, DotsOnTheWire
    <2>3. Normalised(<<>>) = <<>> /\ <<>> \in Seq(Wire)
      BY NormalisedEmpty, EmptySeq
    <2>4. Append(<<>>, e) = <<e>>
      OBVIOUS
    <2>5. Normalised(<<e>>) = NormalStep(<<>>, e)
      BY <2>3, <2>4, NormalisedAppend
    <2>6. NormalStep(<<>>, e) = <<>>
      BY <2>2 DEF NormalStep
    <2> QED BY <2>1, <2>5, <2>6
  <1>7. bad # {} => call.ids[first] \in Text
    BY <1>4, MethodPath
  <1> HIDE DEF bad, first
  <1>8. CASE bad = {}
    BY <1>1, <1>2, <1>5, <1>8
  <1>9. CASE bad # {}
    <2>1. PICK id \in Text : id = call.ids[first]
      BY <1>7, <1>9
    <2>2. /\ Refusal = CheckID(id) /\ CheckID(id) # "ok"
          /\ first \in DOMAIN call.ids
      BY <1>1, <1>4, <1>9, <2>1
    <2>3. /\ CheckID(id) = "ErrMissingID" => id = <<>>
          /\ CheckID(id) = "dot segment"
                  => id # <<>> /\ (id = <<".">> \/ id = <<".", ".">>)
          /\ CheckID(id) \in {"ok", "ErrMissingID", "dot segment"}
      BY CheckedIsAddressable
    <2>4. CASE CheckID(id) = "ErrMissingID"
      BY <2>1, <2>2, <2>3, <2>4
    <2>5. CASE CheckID(id) = "dot segment"
      <3>1. id # <<>> /\ Normalised(<<PathEscape(id)>>) = <<>>
        BY <1>6, <2>3, <2>5
      <3> QED BY <2>1, <2>2, <2>5, <3>1
    <2> QED BY <2>2, <2>3, <2>4, <2>5
  <1> QED BY <1>8, <1>9


\* What a method decodes.
LEMMA MethodDecodes ==
    ASSUME NEW m \in Methods
    PROVE  m.out \in {"none", "data", "page"}
  BY MethodKinds DEF Reads, Writes, Creates, Members, Gateways, Verifies, IsMethod

-----------------------------------------------------------------------------
(* The calls. *)

\* The request of a call.
Wanted ==
    [verb |-> call.verb,
     path |-> EscapedPath(ResolvePath(base, BuildPath(call.path))),
     body |-> call.body]

\* What is on the wire is what the method asked for, once nothing was refused.
WireInv ==
    /\ request = Nothing \/ (Refusal = "ok" /\ request = Wanted)
    /\ pc \in {"sent", "answered"} => Refusal = "ok" /\ request = Wanted

\* The answer that waits to be decoded has the shape the method decodes.
AnswerInv ==
    pc = "answered" =>
        /\ call.out = "page" => answer = "page"
        /\ call.out = "data" => answer \in {"data", "empty"}

\* A call returns success or what refused it.
ResultInv ==
    /\ pc # "returned" => result = "none"
    /\ pc = "returned" => result \in {"ok", Refusal}

ServicesInv == TypeOK /\ call \in Methods /\ WireInv /\ AnswerInv /\ ResultInv

\* Unless something refuses it, the router sees the path of the call.
LEMMA RoutedCall ==
    ASSUME base \in Bases, call \in Methods, Refusal = "ok", request = Wanted,
           NEW normalise \in BOOLEAN
    PROVE  /\ Routed(base, request.path, normalise) = call.path
           /\ RoutesReached(normalise) = {q \in Routes : Matches(q, call.verb, call.path)}
  <1>1. \A i \in DOMAIN call.ids : CheckID(call.ids[i]) = "ok"
    BY RefusalReason
  <1>2. PICK path \in Seq(Addressable) : path = call.path /\ path # <<>>
    BY <1>1, MethodPath
  <1>3. Routed(base, EscapedPath(ResolvePath(base, BuildPath(path))), normalise) = path
    BY <1>2, RouterSeesTheCallersSegments
  <1>4. /\ request.verb = call.verb
        /\ request.path = EscapedPath(ResolvePath(base, BuildPath(path)))
    BY <1>2 DEF Wanted
  <1> QED BY <1>2, <1>3, <1>4 DEF RoutesReached

\* The invariant holds before a call starts.
LEMMA InvInit == Init => ServicesInv
  <1> SUFFICES ASSUME Init PROVE ServicesInv
    OBVIOUS
  <1>1. TypeOK
    BY DEF Init, TypeOK, Nothing, NoBody
  <1> QED BY <1>1 DEF Init, ServicesInv, WireInv, AnswerInv, ResultInv

\* Refusing a call keeps the invariant.
LEMMA RefuseKeepsInv ==
    ASSUME ServicesInv, Refuse
    PROVE  ServicesInv'
  <1>1. /\ base' = base /\ call' = call /\ request' = request /\ answer' = answer
        /\ pc' = "returned" /\ result' = Refusal /\ pc = "called" /\ Refusal # "ok"
    BY DEF Refuse
  <1>2. Refusal' = Refusal /\ Wanted' = Wanted
    BY <1>1 DEF Refusal, Wanted
  <1>3. Refusal \in {"ok", "ErrMissingID", "dot segment", "ErrNilRequest"}
    BY RefusalReason DEF ServicesInv
  <1>4. TypeOK'
    BY <1>1, <1>3 DEF ServicesInv, TypeOK
  <1>5. WireInv' /\ AnswerInv' /\ ResultInv'
    BY <1>1, <1>2 DEF ServicesInv, WireInv, AnswerInv, ResultInv
  <1> QED BY <1>1, <1>4, <1>5 DEF ServicesInv

\* Sending a request keeps it: nothing was refused.
LEMMA SendKeepsInv ==
    ASSUME ServicesInv, Send
    PROVE  ServicesInv'
  <1>1. /\ base' = base /\ call' = call /\ request' = Wanted /\ answer' = answer
        /\ pc' = "sent" /\ result' = result /\ pc = "called" /\ Refusal = "ok"
    BY DEF Send, Wanted
  <1>2. Refusal' = Refusal /\ Wanted' = Wanted
    BY <1>1 DEF Refusal, Wanted
  <1>3. Wanted.verb \in Verbs /\ Wanted.body.value # "nil"
    BY <1>1, RefusalReason, MethodPath DEF Wanted, ServicesInv
  <1>4. TypeOK'
    BY <1>1, <1>3 DEF ServicesInv, TypeOK, Verbs
  <1>5. WireInv' /\ AnswerInv' /\ ResultInv'
    BY <1>1, <1>2 DEF ServicesInv, WireInv, AnswerInv, ResultInv
  <1> QED BY <1>1, <1>4, <1>5 DEF ServicesInv

\* Answering keeps it: the route that answers is the method's own.
LEMMA AnswerKeepsInv ==
    ASSUME ServicesInv, Answer
    PROVE  ServicesInv'
  <1>1. /\ base' = base /\ call' = call /\ request' = request /\ result' = result
        /\ pc' = "answered" /\ pc = "sent"
    BY DEF Answer
  <1>2. Refusal' = Refusal /\ Wanted' = Wanted
    BY <1>1 DEF Refusal, Wanted
  <1>3. PICK normalise \in BOOLEAN : \E q \in RoutesReached(normalise) :
            answer' \in {q.answer}
                \union (IF q.verb = "DELETE" THEN {"empty"} ELSE {})
    BY DEF Answer
  <1>4. Refusal = "ok" /\ request = Wanted /\ base \in Bases /\ call \in Methods
    BY <1>1 DEF ServicesInv, WireInv, TypeOK
  <1>5. PICK q \in RoutesReached(normalise) :
            answer' \in {q.answer}
                \union (IF q.verb = "DELETE" THEN {"empty"} ELSE {})
    BY <1>3
  <1>6. q \in Routes /\ Matches(q, call.verb, call.path)
    BY <1>5, <1>4, RoutedCall
  <1>7. Agrees(q, call)
    BY <1>4, <1>6, MethodReached
  <1>8. q.answer \in {"data", "page"}
    BY <1>6, RouteServes DEF Serves
  <1>9. /\ answer' \in {"data", "page", "empty"}
        /\ call.out # "none" => answer' = call.out
    BY <1>5, <1>7, <1>8 DEF Agrees
  <1>10. TypeOK'
    BY <1>1, <1>9 DEF ServicesInv, TypeOK
  <1>11. WireInv' /\ AnswerInv' /\ ResultInv'
    BY <1>1, <1>2, <1>4, <1>9 DEF ServicesInv, WireInv, AnswerInv, ResultInv
  <1> QED BY <1>1, <1>10, <1>11 DEF ServicesInv

\* Returning keeps it: the answer decodes.
LEMMA ReturnKeepsInv ==
    ASSUME ServicesInv, Return
    PROVE  ServicesInv'
  <1>1. /\ base' = base /\ call' = call /\ request' = request /\ answer' = answer
        /\ pc' = "returned" /\ pc = "answered"
    BY DEF Return
  <1>2. Refusal' = Refusal /\ Wanted' = Wanted
    BY <1>1 DEF Refusal, Wanted
  <1>3. (call.out = "page" /\ DoList) \/ (call.out # "page" /\ Do)
    <2>1. call.out = "page" => answer = "page"
      BY <1>1 DEF ServicesInv, AnswerInv
    <2>2. call.out = "data" => answer \in {"data", "empty"}
      BY <1>1 DEF ServicesInv, AnswerInv
    <2>3. call.out \in {"none", "data", "page"}
      BY MethodDecodes DEF ServicesInv
    <2> QED BY <2>1, <2>2, <2>3 DEF Do, DoList
  <1>4. result' = "ok"
    BY <1>3 DEF Return
  <1>5. TypeOK'
    BY <1>1, <1>4 DEF ServicesInv, TypeOK
  <1>6. WireInv' /\ AnswerInv' /\ ResultInv'
    BY <1>1, <1>2, <1>4 DEF ServicesInv, WireInv, AnswerInv, ResultInv
  <1> QED BY <1>1, <1>5, <1>6 DEF ServicesInv

\* Every step keeps the invariant.
LEMMA InvStep == ServicesInv /\ [Next]_vars => ServicesInv'
  <1> SUFFICES ASSUME ServicesInv, [Next]_vars PROVE ServicesInv'
    OBVIOUS
  <1>1. CASE Refuse
    BY <1>1, RefuseKeepsInv
  <1>2. CASE Send
    BY <1>2, SendKeepsInv
  <1>3. CASE Answer
    BY <1>3, AnswerKeepsInv
  <1>4. CASE Return
    BY <1>4, ReturnKeepsInv
  <1>5. CASE UNCHANGED vars
    BY <1>5 DEF vars, ServicesInv, TypeOK, WireInv, AnswerInv, ResultInv, Refusal, Wanted
  <1> QED BY <1>1, <1>2, <1>3, <1>4, <1>5 DEF Next

\* The invariant holds in every reachable state.
LEMMA InvAlways == Spec => []ServicesInv
  BY InvInit, InvStep, PTL DEF Spec

(* Every reachable state is of the declared types: among others, no nil
   pointer is ever on the wire as a body (firezone.go:353-391). *)
THEOREM ServicesTypeCorrect == Spec => []TypeOK
  <1>1. ServicesInv => TypeOK
    BY DEF ServicesInv
  <1> QED BY <1>1, InvAlways, PTL

(* A call is refused only for what is wrong with its arguments: an identifier
   is missing, an identifier is a dot segment, or a body is nil
   (path.go:19-36, firezone.go:353-391). *)
THEOREM RefusalsHaveReasons == Spec => []RefusedForAReason
  <1>1. ServicesInv => RefusedForAReason
    <2> SUFFICES ASSUME ServicesInv, pc = "returned"
                 PROVE  /\ result = "ErrMissingID" =>
                               \E i \in DOMAIN call.ids : call.ids[i] = <<>>
                        /\ result = "dot segment" =>
                               \E i \in DOMAIN call.ids :
                                   /\ call.ids[i] # <<>>
                                   /\ Normalised(<<PathEscape(call.ids[i])>>) = <<>>
                        /\ result = "ErrNilRequest" => call.body.value = "nil"
      BY DEF RefusedForAReason
    <2>1. result = "ok" \/ result = Refusal
      BY DEF ServicesInv, ResultInv
    <2>2. call \in Methods
      BY DEF ServicesInv
    <2> QED BY <2>1, <2>2, RefusalReason
  <1> QED BY <1>1, InvAlways, PTL

(* A method decodes the shape its route answers with, so a call that took
   effect is not reported as a decoding error (firezone.go:463-502). *)
THEOREM AnswersAreDecoded == Spec => []DecodesItsAnswer
  <1>1. ServicesInv => DecodesItsAnswer
    <2> SUFFICES ASSUME ServicesInv PROVE result # "decoding error"
      BY DEF DecodesItsAnswer
    <2>1. result \in {"none", "ok", Refusal}
      BY DEF ServicesInv, TypeOK, ResultInv
    <2>2. Refusal \in {"ok", "ErrMissingID", "dot segment", "ErrNilRequest"}
      BY RefusalReason DEF ServicesInv
    <2> QED BY <2>1, <2>2
  <1> QED BY <1>1, InvAlways, PTL

(* Escaping keeps an identifier from redirecting a request
   (path.go:38-49): a request that leaves reaches the route of the method that
   was called and no other, with exactly the caller's identifiers as its
   parameters and a body the route expects, whether or not a proxy normalises
   the path - whatever the identifiers and the base are. *)
THEOREM RequestsReachTheirRoutes == Spec => []ReachesItsRoute
  <1>1. ServicesInv => ReachesItsRoute
    <2> SUFFICES ASSUME ServicesInv, pc = "sent", NEW normalise \in BOOLEAN
                 PROVE  {[op |-> q.op, key |-> q.key,
                          ids |-> Parameters(q, Routed(base, request.path, normalise))]
                             : q \in RoutesReached(normalise)}
                        = {[op |-> call.op, key |-> request.body.key, ids |-> call.ids]}
      BY DEF ReachesItsRoute
    <2>1. Refusal = "ok" /\ request = Wanted /\ base \in Bases /\ call \in Methods
      BY DEF ServicesInv, WireInv, TypeOK
    <2>2. /\ Routed(base, request.path, normalise) = call.path
          /\ RoutesReached(normalise) = {q \in Routes : Matches(q, call.verb, call.path)}
      BY <2>1, RoutedCall
    <2>3. request.body = call.body
      BY <2>1 DEF Wanted
    <2>4. PICK R : R = RoutesReached(normalise)
      OBVIOUS
    <2>5. \E q \in Routes : Matches(q, call.verb, call.path)
      BY <2>1, MethodFound
    <2>6. R # {}
      BY <2>2, <2>4, <2>5
    <2>7. ASSUME NEW q \in R
          PROVE  /\ q.op = call.op /\ q.key = request.body.key
                 /\ Parameters(q, call.path) = call.ids
      <3>1. q \in Routes /\ Matches(q, call.verb, call.path)
        BY <2>2, <2>4
      <3>2. Agrees(q, call)
        BY <2>1, <3>1, MethodReached
      <3>3. Parameters(q, call.path) = call.ids
        BY <2>1, <3>1, MethodParameters
      <3> QED BY <2>3, <3>2, <3>3 DEF Agrees
    <2> DEFINE reached(q) == [op |-> q.op, key |-> q.key,
                              ids |-> Parameters(q, call.path)]
               wanted == [op |-> call.op, key |-> request.body.key, ids |-> call.ids]
    <2>8. \A q \in R : reached(q) = wanted
      BY <2>7
    <2> HIDE DEF reached, wanted
    <2>9. {reached(q) : q \in R} = {wanted}
      BY <2>6, <2>8
    <2> QED BY <2>2, <2>4, <2>9 DEF reached, wanted
  <1> QED BY <1>1, InvAlways, PTL

=============================================================================
