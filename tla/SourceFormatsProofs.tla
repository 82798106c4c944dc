------------------------- MODULE SourceFormatsProofs -------------------------
(***************************************************************************)
(* TLAPS proofs about the operators of SourceFormats: trimming, removing   *)
(* and cutting text, a line as a field, text as lines, and the folds over  *)
(* lines, columns, pieces and paths that the parsers are made of.          *)
(*                                                                         *)
(* A fold is reasoned about by its stages, the values along 0 .. n         *)
(* (StagesOf).  That FoldLeft, a CHOOSE of a recursive function over sets, *)
(* has stages is proved for each operation that is folded (the lemmas      *)
(* ...Stages): an operator cannot be a parameter of a lemma the provers    *)
(* use.  Induction is over the set of numbers or sequences for which a     *)
(* claim holds (Inductive, SeqInductive), for the same reason.             *)
(***************************************************************************)
EXTENDS SourceFormats, SequenceTheorems, WellFoundedInduction, TLAPS

(* Induction.  T is the set of the numbers a claim holds for.               *)

LEMMA LessThan == \A x, y \in Nat : <<x, y>> \in OpToRel(<, Nat) <=> x < y
BY DEF OpToRel

LEMMA MinOfNats ==
  ASSUME NEW T \in SUBSET Nat, T # {}
  PROVE  Min(T) \in T /\ \A y \in T : Min(T) <= y
<1> DEFINE R == OpToRel(<, Nat)
<1>1. IsWellFoundedOn(R, Nat)
  BY NatLessThanWellFounded
<1>2. \A x, y \in Nat : <<x, y>> \in R <=> x < y
  BY LessThan
<1> HIDE DEF R
<1>3. PICK x \in T : \A y \in T : ~ (<<y, x>> \in R)
  BY WFMin, <1>1
<1>4. ASSUME NEW y \in T PROVE x <= y
  <2>1. x \in Nat /\ y \in Nat
    OBVIOUS
  <2>2. ~ (y < x)
    BY <2>1, <1>2, <1>3
  <2> QED BY <2>1, <2>2
<1> QED BY <1>3, <1>4 DEF Min

LEMMA Inductive ==
  ASSUME NEW T, 0 \in T, \A n \in Nat : n \in T => n + 1 \in T
  PROVE  Nat \subseteq T
<1> DEFINE U == Nat \ T
<1>1. SUFFICES ASSUME U # {} PROVE FALSE
  OBVIOUS
<1>2. Min(U) \in U /\ \A y \in U : Min(U) <= y
  <2>1. U \in SUBSET Nat
    OBVIOUS
  <2> HIDE DEF U
  <2> QED BY <2>1, <1>1, MinOfNats
<1>3. PICK m : m = Min(U)
  OBVIOUS
<1>4. m \in Nat /\ m # 0 /\ m \notin T /\ m - 1 \notin U
  BY <1>2, <1>3
<1>5. m - 1 \in Nat /\ (m - 1) + 1 = m
  BY <1>4
<1> QED BY <1>4, <1>5

\* A non-empty set of numbers up to n has a greatest.
LEMMA MaxOf ==
  ASSUME NEW n \in Nat, NEW S \in SUBSET (1 .. n), S # {}
  PROVE  Max(S) \in S /\ \A y \in S : Max(S) >= y
<1> DEFINE U == {n - y : y \in S}
<1>1. U \in SUBSET Nat /\ U # {}
  <2>1. \A y \in S : n - y \in Nat
    OBVIOUS
  <2> QED BY <2>1
<1>2. Min(U) \in U /\ \A y \in U : Min(U) <= y
  <2> HIDE DEF U
  <2> QED BY <1>1, MinOfNats
<1>3. PICK x \in S : Min(U) = n - x
  BY <1>2
<1>4. \A y \in S : x >= y
  <2> SUFFICES ASSUME NEW y \in S PROVE x >= y
    OBVIOUS
  <2>1. n - x <= n - y
    BY <1>2, <1>3
  <2>2. x \in 1 .. n /\ y \in 1 .. n
    OBVIOUS
  <2> QED BY <2>1, <2>2
<1> QED BY <1>4 DEF Max

LEMMA MaxIs ==
  ASSUME NEW S \in SUBSET Nat, NEW m \in S, \A y \in S : y <= m
  PROVE  Max(S) = m
<1>1. \E x \in S : \A y \in S : x >= y
  OBVIOUS
<1>2. Max(S) \in S /\ \A y \in S : Max(S) >= y
  BY <1>1 DEF Max
<1>3. \A x \in S : x >= m /\ x <= m => x = m
  OBVIOUS
<1> QED BY <1>2, <1>3

-----------------------------------------------------------------------------
(* Folds.  The library folds over the subsets of a sequence's domain, the   *)
(* greatest index first; what a fold is about are its values on 1 .. k.     *)

IterOf(h, n, X, base, G) ==
  /\ h \in [SUBSET (1 .. n) -> X]
  /\ \A S \in SUBSET (1 .. n) :
       h[S] = IF S = {} THEN base ELSE G[Max(S)][h[S \ {Max(S)}]]

LEMMA IterExists ==
  ASSUME NEW n \in Nat, NEW X, NEW base \in X, NEW G \in [1 .. n -> [X -> X]]
  PROVE  \E h : IterOf(h, n, X, base, G)
<1> DEFINE Fits(h, k) == \A S \in SUBSET (1 .. k) :
             h[S] = IF S = {} THEN base ELSE G[Max(S)][h[S \ {Max(S)}]]
           Holds(k) == \E h \in [SUBSET (1 .. k) -> X] : Fits(h, k)
           T == {k \in Nat : k <= n => Holds(k)}
<1>1. Holds(0)
  <2> DEFINE h == [S \in SUBSET (1 .. 0) |-> base]
  <2>1. h \in [SUBSET (1 .. 0) -> X]
    OBVIOUS
  <2>2. \A S \in SUBSET (1 .. 0) : S = {}
    OBVIOUS
  <2>3. Fits(h, 0)
    BY <2>2
  <2> QED BY <2>1, <2>3
<1>2. ASSUME NEW k \in Nat, Holds(k), k + 1 <= n PROVE Holds(k + 1)
  <2>2. PICK g \in [SUBSET (1 .. k) -> X] : Fits(g, k)
    BY <1>2
  <2> DEFINE h == [S \in SUBSET (1 .. k + 1) |->
                     IF k + 1 \in S THEN G[k + 1][g[S \ {k + 1}]] ELSE g[S]]
  <2>3. \A S \in SUBSET (1 .. k + 1) : S \ {k + 1} \in SUBSET (1 .. k)
    OBVIOUS
  <2>4. \A S \in SUBSET (1 .. k + 1) : k + 1 \notin S => S \in SUBSET (1 .. k)
    OBVIOUS
  <2>5. k + 1 \in 1 .. n
    BY <1>2
  <2>6. h \in [SUBSET (1 .. k + 1) -> X]
    <3> SUFFICES ASSUME NEW S \in SUBSET (1 .. k + 1) PROVE h[S] \in X
      OBVIOUS
    <3>1. CASE k + 1 \in S
      <4>1. g[S \ {k + 1}] \in X
        BY <2>3
      <4> QED BY <3>1, <4>1, <2>5
    <3>2. CASE k + 1 \notin S
      BY <3>2, <2>4
    <3> QED BY <3>1, <3>2
  <2>7. ASSUME NEW S \in SUBSET (1 .. k + 1)
        PROVE  h[S] = IF S = {} THEN base ELSE G[Max(S)][h[S \ {Max(S)}]]
    <3>1. CASE k + 1 \in S
      <4>1. Max(S) = k + 1
        <5>1. S \in SUBSET Nat /\ \A y \in S : y <= k + 1
          OBVIOUS
        <5> QED BY <5>1, <3>1, MaxIs
      <4>2. h[S \ {k + 1}] = g[S \ {k + 1}]
        BY <2>3
      <4>3. h[S] = G[k + 1][g[S \ {k + 1}]]
        BY <3>1
      <4> QED BY <3>1, <4>1, <4>2, <4>3
    <3>2. CASE k + 1 \notin S
      <4>1. S \in SUBSET (1 .. k) /\ h[S] = g[S]
        BY <3>2, <2>4
      <4>2. CASE S = {}
        BY <4>1, <4>2, <2>2
      <4>3. CASE S # {}
        <5>1. h[S \ {Max(S)}] = g[S \ {Max(S)}]
          BY <3>2, <2>4
        <5>2. g[S] = G[Max(S)][g[S \ {Max(S)}]]
          BY <4>1, <4>3, <2>2
        <5> QED BY <4>1, <4>3, <5>1, <5>2
      <4> QED BY <4>2, <4>3
    <3> QED BY <3>1, <3>2
  <2>8. Fits(h, k + 1)
    BY <2>7
  <2> HIDE DEF h, Fits
  <2> QED BY <2>6, <2>8
<1> HIDE DEF Holds
<1>3. 0 \in T /\ \A k \in Nat : k \in T => k + 1 \in T
  BY <1>1, <1>2
<1> HIDE DEF T
<1>4. n \in T
  BY <1>3, Inductive
<1>5. Holds(n)
  BY <1>4 DEF T
<1> QED BY <1>5 DEF Holds, IterOf

\* The values along 0 .. n.
StagesOf(f, n, X, base, G) ==
  /\ f \in [0 .. n -> X] /\ f[0] = base
  /\ \A k \in 1 .. n : f[k] = G[k][f[k - 1]]

LEMMA StagesOfIter ==
  ASSUME NEW n \in Nat, NEW X, NEW base \in X, NEW G \in [1 .. n -> [X -> X]],
         NEW h, IterOf(h, n, X, base, G)
  PROVE  StagesOf([k \in 0 .. n |-> h[1 .. k]], n, X, base, G)
<1> DEFINE f == [k \in 0 .. n |-> h[1 .. k]]
<1>1. /\ h \in [SUBSET (1 .. n) -> X]
      /\ \A S \in SUBSET (1 .. n) :
           h[S] = IF S = {} THEN base ELSE G[Max(S)][h[S \ {Max(S)}]]
  BY DEF IterOf
<1>2. \A k \in 0 .. n : 1 .. k \in SUBSET (1 .. n)
  OBVIOUS
<1>3. f \in [0 .. n -> X]
  BY <1>1, <1>2
<1>4. f[0] = base
  <2>1. 1 .. 0 = {} /\ 0 \in 0 .. n
    OBVIOUS
  <2>2. h[{}] = base
    BY <1>1
  <2> QED BY <2>1, <2>2
<1>5. ASSUME NEW k \in 1 .. n PROVE f[k] = G[k][f[k - 1]]
  <2>1. 1 .. k # {} /\ Max(1 .. k) = k
    <3>1. 1 .. k \in SUBSET Nat /\ k \in 1 .. k /\ \A y \in 1 .. k : y <= k
      OBVIOUS
    <3> QED BY <3>1, MaxIs
  <2>2. (1 .. k) \ {k} = 1 .. k - 1 /\ k \in 0 .. n /\ k - 1 \in 0 .. n
    OBVIOUS
  <2>3. f[k] = h[1 .. k] /\ f[k - 1] = h[1 .. k - 1]
    BY <2>2
  <2>4. h[1 .. k] = G[k][h[1 .. k - 1]]
    BY <1>1, <1>2, <2>1, <2>2
  <2> QED BY <2>3, <2>4
<1> HIDE DEF f
<1>6. StagesOf(f, n, X, base, G)
  BY <1>3, <1>4, <1>5 DEF StagesOf
<1> QED BY <1>6 DEF f

\* A solution of the library's equation agrees with h wherever it did before
\* the last index, so it is the last stage.
Follows(iter, h, n) ==
  \A S \in SUBSET (1 .. n) :
    S # {} /\ iter[S \ {Max(S)}] = h[S \ {Max(S)}] => iter[S] = h[S]

LEMMA FoldIsLastStage ==
  ASSUME NEW n \in Nat, NEW X, NEW base \in X, NEW G \in [1 .. n -> [X -> X]],
         NEW h, IterOf(h, n, X, base, G), NEW iter, iter[{}] = base, Follows(iter, h, n)
  PROVE  \E f : StagesOf(f, n, X, base, G) /\ iter[1 .. n] = f[n]
<1> DEFINE f == [k \in 0 .. n |-> h[1 .. k]]
           T == {k \in Nat : k <= n => iter[1 .. k] = h[1 .. k]}
<1>1. 0 \in T
  <2>1. 1 .. 0 = {} /\ {} \in SUBSET (1 .. n)
    OBVIOUS
  <2>2. h[{}] = base
    BY <2>1 DEF IterOf
  <2> QED BY <2>1, <2>2
<1>2. ASSUME NEW k \in Nat, k \in T PROVE k + 1 \in T
  <2>1. SUFFICES ASSUME k + 1 <= n PROVE iter[1 .. k + 1] = h[1 .. k + 1]
    OBVIOUS
  <2>2. Max(1 .. k + 1) = k + 1
    <3>1. 1 .. k + 1 \in SUBSET Nat /\ k + 1 \in 1 .. k + 1 /\ \A y \in 1 .. k + 1 : y <= k + 1
      OBVIOUS
    <3> QED BY <3>1, MaxIs
  <2>3. (1 .. k + 1) \ {k + 1} = 1 .. k /\ 1 .. k + 1 # {} /\ 1 .. k + 1 \in SUBSET (1 .. n)
    BY <2>1
  <2>4. iter[1 .. k] = h[1 .. k]
    BY <1>2, <2>1
  <2> QED BY <2>2, <2>3, <2>4 DEF Follows
<1> HIDE DEF T
<1>3. n \in T
  BY <1>1, <1>2, Inductive
<1>4. iter[1 .. n] = h[1 .. n]
  BY <1>3 DEF T
<1>5. StagesOf(f, n, X, base, G)
  BY StagesOfIter
<1>6. f[n] = h[1 .. n]
  OBVIOUS
<1> HIDE DEF f
<1> QED BY <1>4, <1>5, <1>6
LEMMA StagesExist ==
  ASSUME NEW n \in Nat, NEW X, NEW base \in X, NEW G \in [1 .. n -> [X -> X]]
  PROVE  \E f : StagesOf(f, n, X, base, G)
BY IterExists, StagesOfIter

\* What a stage is depends on the steps up to it only.
SameSteps(G, H, l) == \A i \in 1 .. l : G[i] = H[i]

LEMMA StagesAgree ==
  ASSUME NEW n \in Nat, NEW m \in Nat, NEW X, NEW base, NEW G, NEW H,
         NEW f, StagesOf(f, n, X, base, G), NEW g, StagesOf(g, m, X, base, H),
         NEW l \in Nat, l <= n, l <= m, SameSteps(G, H, l)
  PROVE  f[l] = g[l] /\ f[l] \in X
<1> DEFINE T == {k \in Nat : k <= l => f[k] = g[k]}
<1>1. 0 \in T
  BY DEF StagesOf
<1>2. ASSUME NEW k \in Nat, k \in T PROVE k + 1 \in T
  <2>1. SUFFICES ASSUME k + 1 <= l PROVE f[k + 1] = g[k + 1]
    OBVIOUS
  <2>2. k + 1 \in 1 .. n /\ k + 1 \in 1 .. m /\ k + 1 \in 1 .. l /\ (k + 1) - 1 = k
    BY <2>1
  <2>3. f[k + 1] = G[k + 1][f[k]] /\ g[k + 1] = H[k + 1][g[k]]
    BY <2>2 DEF StagesOf
  <2> QED BY <2>1, <2>2, <2>3, <1>2 DEF SameSteps
<1> HIDE DEF T
<1>3. l \in T
  BY <1>1, <1>2, Inductive
<1> QED BY <1>3 DEF T, StagesOf

LEMMA SeqInductive ==
  ASSUME NEW A, NEW T, <<>> \in T, \A s \in Seq(A), x \in A : s \in T => Append(s, x) \in T
  PROVE  Seq(A) \subseteq T
<1> DEFINE U == {n \in Nat : \A s \in Seq(A) : Len(s) = n => s \in T}
<1>1. 0 \in U
  BY EmptySeq
<1>2. ASSUME NEW n \in Nat, n \in U PROVE n + 1 \in U
  <2>1. SUFFICES ASSUME NEW s \in Seq(A), Len(s) = n + 1 PROVE s \in T
    OBVIOUS
  <2>2. s # <<>>
    BY <2>1, EmptySeq
  <2>3. PICK r \in Seq(A), x \in A : s = Append(r, x)
    BY <2>2, SequenceEmptyOrAppend
  <2>4. Len(r) = n
    BY <2>1, <2>3, AppendProperties
  <2> QED BY <1>2, <2>3, <2>4
<1> HIDE DEF U
<1>3. Nat \subseteq U
  BY <1>1, <1>2, Inductive
<1> QED BY <1>3 DEF U

\* FlattenSeq, part by part.
JoinStep(A, ss) == [k \in 1 .. Len(ss) |-> [x \in Seq(A) |-> x \o ss[k]]]

LEMMA FlattenStages ==
  ASSUME NEW A, NEW ss \in Seq(Seq(A))
  PROVE  \E f : StagesOf(f, Len(ss), Seq(A), <<>>, JoinStep(A, ss)) /\ FlattenSeq(ss) = f[Len(ss)]
<1> DEFINE n == Len(ss)
           G == JoinStep(A, ss)
           E(h) == [i \in 1 .. n |-> IF i = 1 THEN ss[i] ELSE h[i - 1] \o ss[i]]
<1>1. n \in Nat /\ <<>> \in Seq(A) /\ \A k \in 1 .. n : ss[k] \in Seq(A)
  BY EmptySeq
<1>2. G \in [1 .. n -> [Seq(A) -> Seq(A)]]
  <2>1. \A k \in 1 .. n, x \in Seq(A) : x \o ss[k] \in Seq(A)
    BY ConcatProperties
  <2> QED BY <2>1 DEF JoinStep
<1>3. PICK f : StagesOf(f, n, Seq(A), <<>>, G)
  <2> HIDE DEF n, G
  <2> QED BY <1>1, <1>2, StagesExist
<1>4. \A k \in 1 .. n : f[k] = f[k - 1] \o ss[k] /\ f[k - 1] \in Seq(A) /\ f[k] \in Seq(A)
  <2> SUFFICES ASSUME NEW k \in 1 .. n
               PROVE  f[k] = f[k - 1] \o ss[k] /\ f[k - 1] \in Seq(A) /\ f[k] \in Seq(A)
    OBVIOUS
  <2>1. k - 1 \in 0 .. n /\ k \in 0 .. n
    OBVIOUS
  <2> QED BY <1>3, <2>1 DEF StagesOf, JoinStep
<1>5. f[0] = <<>>
  BY <1>3 DEF StagesOf
<1>8. 1 \in 1 .. n => f[1] = ss[1]
  <2>1. 1 - 1 = 0
    OBVIOUS
  <2>2. 1 \in 1 .. n => f[1] = <<>> \o ss[1]
    BY <2>1, <1>4, <1>5
  <2> QED BY <2>2, <1>1, ConcatEmptySeq
<1>6. CASE n = 0
  <2>1. FlattenSeq(ss) = ss /\ ss = <<>>
    BY <1>6, EmptySeq DEF FlattenSeq
  <2> QED BY <1>3, <1>5, <1>6, <2>1
<1>7. CASE n # 0
  <2> DEFINE h == [i \in 1 .. n |-> f[i]]
  <2>1. h = E(h)
    <3>1. ASSUME NEW i \in 1 .. n PROVE h[i] = IF i = 1 THEN ss[i] ELSE h[i - 1] \o ss[i]
      <4>1. CASE i = 1
        BY <1>8, <4>1
      <4>2. CASE i # 1
        <5>1. i - 1 \in 1 .. n
          BY <4>2
        <5> QED BY <5>1, <1>4, <4>2
      <4> QED BY <4>1, <4>2
    <3> QED BY <3>1
  <2>2. PICK iter : iter = E(iter) /\ FlattenSeq(ss) = iter[n]
    <3>1. FlattenSeq(ss) = (CHOOSE iter : iter = E(iter))[n]
      BY <1>7 DEF FlattenSeq
    <3> HIDE DEF E, h
    <3> QED BY <2>1, <3>1
  <2> DEFINE T == {k \in Nat : k \in 1 .. n => iter[k] = f[k]}
  <2>3. 0 \in T
    OBVIOUS
  <2>4. ASSUME NEW k \in Nat, k \in T PROVE k + 1 \in T
    <3>1. SUFFICES ASSUME k + 1 \in 1 .. n PROVE iter[k + 1] = f[k + 1]
      OBVIOUS
    <3>2. iter[k + 1] = IF k + 1 = 1 THEN ss[k + 1] ELSE iter[(k + 1) - 1] \o ss[k + 1]
      BY <2>2, <3>1
    <3>3. (k + 1) - 1 = k
      OBVIOUS
    <3>4. CASE k = 0
      BY <1>8, <3>1, <3>2, <3>4
    <3>5. CASE k # 0
      <4>1. iter[k] = f[k]
        BY <2>4, <3>1, <3>5
      <4>2. f[k + 1] = f[k] \o ss[k + 1]
        BY <1>4, <3>1, <3>3
      <4>3. k + 1 # 1
        BY <3>5
      <4> QED BY <3>2, <3>3, <4>1, <4>2, <4>3
    <3> QED BY <3>4, <3>5
  <2> HIDE DEF T
  <2>5. n \in T
    BY <1>1, <2>3, <2>4, Inductive
  <2>6. iter[n] = f[n]
    BY <1>1, <1>7, <2>5 DEF T
  <2> QED BY <1>3, <2>2, <2>6
<1> QED BY <1>6, <1>7

LEMMA Flatten ==
  ASSUME NEW A
  PROVE  /\ FlattenSeq(<<>>) = <<>>
         /\ \A ss \in Seq(Seq(A)) : FlattenSeq(ss) \in Seq(A)
         /\ \A ss \in Seq(Seq(A)), t \in Seq(A) :
              FlattenSeq(Append(ss, t)) = FlattenSeq(ss) \o t
<1>1. FlattenSeq(<<>>) = <<>>
  BY DEF FlattenSeq
<1>2. ASSUME NEW ss \in Seq(Seq(A)) PROVE FlattenSeq(ss) \in Seq(A)
  BY FlattenStages DEF StagesOf
<1>3. ASSUME NEW ss \in Seq(Seq(A)), NEW t \in Seq(A)
      PROVE  FlattenSeq(Append(ss, t)) = FlattenSeq(ss) \o t
  <2> DEFINE n == Len(ss)
             tt == Append(ss, t)
  <2>1. n \in Nat /\ tt \in Seq(Seq(A)) /\ Len(tt) = n + 1 /\ tt[n + 1] = t
        /\ \A k \in 1 .. n : tt[k] = ss[k]
    BY AppendProperties
  <2> HIDE DEF tt
  <2>2. PICK f : StagesOf(f, n, Seq(A), <<>>, JoinStep(A, ss)) /\ FlattenSeq(ss) = f[n]
    BY FlattenStages
  <2>3. PICK g : StagesOf(g, Len(tt), Seq(A), <<>>, JoinStep(A, tt)) /\ FlattenSeq(tt) = g[Len(tt)]
    BY <2>1, FlattenStages
  <2>4. ASSUME NEW k \in 1 .. n PROVE JoinStep(A, ss)[k] = JoinStep(A, tt)[k]
    <3>1. k \in 1 .. Len(ss) /\ k \in 1 .. Len(tt) /\ tt[k] = ss[k]
      BY <2>1
    <3> HIDE DEF n
    <3> QED BY <3>1 DEF JoinStep
  <2>5. f[n] = g[n] /\ f[n] \in Seq(A)
    <3>1. n + 1 \in Nat /\ n <= n /\ n <= n + 1
      BY <2>1
    <3> DEFINE G == JoinStep(A, ss)
               H == JoinStep(A, tt)
    <3>2. StagesOf(f, n, Seq(A), <<>>, G) /\ StagesOf(g, n + 1, Seq(A), <<>>, H)
      BY <2>1, <2>2, <2>3
    <3>3. SameSteps(G, H, n)
      BY <2>4 DEF SameSteps
    <3> HIDE DEF G, H, n
    <3> QED BY <2>1, <3>1, <3>2, <3>3, StagesAgree
  <2>6. g[n + 1] = g[n] \o t
    <3>1. n + 1 \in 1 .. n + 1 /\ (n + 1) - 1 = n
      BY <2>1
    <3>2. g[n + 1] = JoinStep(A, tt)[n + 1][g[n]]
      BY <2>1, <2>3, <3>1 DEF StagesOf
    <3> QED BY <2>1, <2>5, <3>1, <3>2 DEF JoinStep
  <2> QED BY <2>1, <2>2, <2>3, <2>5, <2>6 DEF tt
<1> QED BY <1>1, <1>2, <1>3

-----------------------------------------------------------------------------
(* Records *)

Word == STRING
Text == Seq(Word)
Records == UNION {[D -> Text] : D \in SUBSET Text}

LEMMA PutType ==
  /\ EmptyRecord \in Records
  /\ \A r \in Records, key, value \in Text : Put(r, key, value) \in Records
<1>1. EmptyRecord \in Records
  <2>1. {} \in SUBSET Text /\ EmptyRecord \in [{} -> Text]
    BY DEF EmptyRecord
  <2> QED BY <2>1 DEF Records
<1>2. ASSUME NEW r \in Records, NEW key \in Text, NEW value \in Text
      PROVE  Put(r, key, value) \in Records
  <2>1. PICK D \in SUBSET Text : r \in [D -> Text]
    BY DEF Records
  <2>2. Put(r, key, value) \in [D \cup {key} -> Text]
    BY <2>1 DEF Put
  <2>3. D \cup {key} \in SUBSET Text
    OBVIOUS
  <2> QED BY <2>2, <2>3 DEF Records
<1> QED BY <1>1, <1>2

\* RowRecord, column by column.
RowStep(keys, data) ==
  [i \in 1 .. Len(keys) |->
     [r \in Records |-> IF i > Len(data) THEN r ELSE Put(r, keys[i], data[i])]]

LEMMA RowRecordStages ==
  ASSUME NEW keys \in Seq(Text), NEW data \in Seq(Text)
  PROVE  \E f : /\ StagesOf(f, Len(keys), Records, EmptyRecord, RowStep(keys, data))
                /\ RowRecord(keys, data) = f[Len(keys)]
<1> DEFINE n == Len(keys)
           G == RowStep(keys, data)
           s == [i \in DOMAIN keys |-> i]
           Op(r, i) == IF i > Len(data) THEN r ELSE Put(r, keys[i], data[i])
           E(h) == [S \in SUBSET (DOMAIN s) |->
                      IF S = {} THEN EmptyRecord ELSE Op(h[S \ {Max(S)}], s[Max(S)])]
<1>1. n \in Nat /\ DOMAIN s = 1 .. n /\ EmptyRecord \in Records /\ \A i \in 1 .. n : s[i] = i
  BY PutType
<1>2. G \in [1 .. n -> [Records -> Records]]
  <2>1. \A i \in 1 .. n, r \in Records : Op(r, i) \in Records
    BY PutType
  <2>2. G = [i \in 1 .. n |-> [r \in Records |-> Op(r, i)]]
    BY DEF RowStep
  <2> HIDE DEF G, Op, n
  <2> QED BY <2>1, <2>2
<1>3. PICK h : IterOf(h, n, Records, EmptyRecord, G)
  <2> HIDE DEF G, n
  <2> QED BY <1>1, <1>2, IterExists
<1>4. h = E(h)
  <2>1. ASSUME NEW S \in SUBSET (1 .. n), S # {} PROVE h[S] = Op(h[S \ {Max(S)}], s[Max(S)])
    <3>1. Max(S) \in 1 .. n
      BY <1>1, <2>1, MaxOf
    <3>2. h[S \ {Max(S)}] \in Records /\ h[S] = G[Max(S)][h[S \ {Max(S)}]]
      BY <1>3, <2>1 DEF IterOf
    <3> QED BY <1>1, <3>1, <3>2 DEF RowStep
  <2>2. h \in [SUBSET (1 .. n) -> Records] /\ h[{}] = EmptyRecord
    BY <1>3 DEF IterOf
  <2> HIDE DEF Op, s, n, G
  <2> QED BY <1>1, <2>1, <2>2
<1>5. PICK iter : iter = E(iter) /\ RowRecord(keys, data) = iter[DOMAIN s]
  <2>1. RowRecord(keys, data) = FoldLeft(Op, EmptyRecord, s)
    BY DEF RowRecord, FoldLeftDomain
  <2>2. FoldLeft(Op, EmptyRecord, s) = (CHOOSE iter : iter = E(iter))[DOMAIN s]
    BY DEF FoldLeft, MapThenFoldSet
  <2> HIDE DEF E
  <2> QED BY <1>4, <2>1, <2>2
<1>6. iter[{}] = EmptyRecord
  BY <1>5
<1>7. ASSUME NEW S \in SUBSET (1 .. n), S # {}, iter[S \ {Max(S)}] = h[S \ {Max(S)}]
      PROVE  iter[S] = h[S]
  <2>1. iter[S] = Op(iter[S \ {Max(S)}], s[Max(S)])
    BY <1>1, <1>5, <1>7
  <2>2. h[S] = Op(h[S \ {Max(S)}], s[Max(S)])
    BY <1>1, <1>4, <1>7
  <2> QED BY <2>1, <2>2, <1>7
<1> HIDE DEF Op, s, n, G, E
<1>8. \E f : StagesOf(f, n, Records, EmptyRecord, G) /\ iter[1 .. n] = f[n]
  <2>1. Follows(iter, h, n)
    BY <1>7 DEF Follows
  <2> QED BY <1>1, <1>2, <1>3, <1>6, <2>1, FoldIsLastStage
<1> QED BY <1>1, <1>5, <1>8 DEF n, G

\* Trimming.
\* The first and the last place of something else than mark, or 0.
FirstNot(s, mark) == SelectInSeq(s, LAMBDA t : t # mark)
LastNot(s, mark) == SelectLastInSeq(s, LAMBDA t : t # mark)

FirstAt(s, mark, i) ==
  /\ i \in 0 .. Len(s)
  /\ i = 0 => \A j \in 1 .. Len(s) : s[j] = mark
  /\ i # 0 => s[i] # mark /\ \A j \in 1 .. i - 1 : s[j] = mark

LEMMA FirstOther == \A s \in Text : \A mark : FirstAt(s, mark, FirstNot(s, mark))
<1> SUFFICES ASSUME NEW s \in Text, NEW mark PROVE FirstAt(s, mark, FirstNot(s, mark))
  OBVIOUS
<1>0. PICK i : i = FirstNot(s, mark)
  OBVIOUS
<1> DEFINE I == {j \in 1 .. Len(s) : s[j] # mark}
<1>1. i = IF I # {} THEN Min(I) ELSE 0
  BY <1>0 DEF FirstNot, SelectInSeq
<1>2. Len(s) \in Nat
  BY DEF Text
<1>3. CASE I = {}
  <2>1. i = 0 /\ \A j \in 1 .. Len(s) : s[j] = mark
    BY <1>1, <1>3
  <2> QED BY <1>0, <1>2, <2>1 DEF FirstAt
<1>4. CASE I # {}
  <2>1. I \in SUBSET Nat
    OBVIOUS
  <2>2. i \in I /\ \A j \in I : i <= j
    <3> HIDE DEF I
    <3> QED BY <2>1, <1>1, <1>4, MinOfNats
  <2>3. \A j \in 1 .. i - 1 : j \in 1 .. Len(s) /\ ~ (i <= j)
    BY <1>2, <2>2
  <2> QED BY <1>0, <1>2, <1>4, <2>2, <2>3 DEF FirstAt
<1> QED BY <1>0, <1>3, <1>4 DEF FirstAt

LEMMA LastOther ==
  ASSUME NEW s \in Text, NEW mark, NEW i, i = LastNot(s, mark)
  PROVE  /\ i \in 0 .. Len(s)
         /\ i = 0 => \A j \in 1 .. Len(s) : s[j] = mark
         /\ i # 0 => s[i] # mark
         /\ \A j \in 1 .. Len(s) : s[j] # mark => j <= i
<1> DEFINE I == {j \in 1 .. Len(s) : s[j] # mark}
<1>1. i = IF I # {} THEN Max(I) ELSE 0
  BY DEF LastNot, SelectLastInSeq
<1>2. Len(s) \in Nat
  BY DEF Text
<1>3. CASE I = {}
  <2>1. i = 0 /\ \A j \in 1 .. Len(s) : s[j] = mark
    BY <1>1, <1>3
  <2> QED BY <1>2, <2>1
<1>4. CASE I # {}
  <2>1. I \in SUBSET (1 .. Len(s))
    OBVIOUS
  <2>2. i \in I /\ \A j \in I : i >= j
    <3> HIDE DEF I
    <3> QED BY <2>1, <1>1, <1>2, <1>4, MaxOf
  <2> QED BY <2>2, <1>2
<1> QED BY <1>3, <1>4

LEMMA TrimLeftIs ==
  ASSUME NEW s \in Text, NEW mark
  PROVE  /\ TrimLeft(s, mark) \in Text
         /\ TrimLeft(s, mark) # <<>> => TrimLeft(s, mark)[1] # mark
         /\ s # <<>> /\ s[1] # mark => TrimLeft(s, mark) = s
<1>1. PICK i : i = FirstNot(s, mark)
  OBVIOUS
<1>2. /\ i \in 0 .. Len(s)
      /\ i = 0 => \A j \in 1 .. Len(s) : s[j] = mark
      /\ i # 0 => s[i] # mark /\ \A j \in 1 .. i - 1 : s[j] = mark
  BY <1>1, FirstOther DEF FirstAt
<1>3. TrimLeft(s, mark) = IF i = 0 THEN <<>> ELSE SubSeq(s, i, Len(s))
  BY <1>1 DEF TrimLeft, FirstNot
<1>4. Len(s) \in Nat
  BY DEF Text
<1>5. i # 0 => /\ SubSeq(s, i, Len(s)) \in Text
               /\ SubSeq(s, i, Len(s))[1] = s[i]
  <2>1. \A j \in i .. Len(s) : i # 0 => s[j] \in Word
    BY <1>2, <1>4 DEF Text
  <2> QED BY <1>2, <1>4 DEF Text
<1>6. <<>> \in Text
  BY EmptySeq DEF Text
<1>7. s # <<>> /\ s[1] # mark => i = 1
  <2>1. s # <<>> => 1 \in 1 .. Len(s)
    BY <1>4 DEF Text
  <2> QED BY <1>2, <1>4, <2>1
<1>8. SubSeq(s, 1, Len(s)) = s
  BY DEF Text
<1>9. CASE i = 0
  BY <1>3, <1>6, <1>7, <1>9
<1>10. CASE i # 0
  <2>1. PICK w : w = SubSeq(s, i, Len(s))
    OBVIOUS
  <2>2. TrimLeft(s, mark) = w /\ w \in Text /\ w[1] = s[i]
    BY <1>3, <1>5, <1>10, <2>1
  <2>3. ASSUME s # <<>>, s[1] # mark PROVE w = s
    <3>1. i = 1
      BY <1>7, <2>3
    <3> QED BY <1>8, <2>1, <3>1
  <2> QED BY <1>2, <1>10, <2>2, <2>3
<1> QED BY <1>9, <1>10

LEMMA TrimRightIs ==
  ASSUME NEW s \in Text, NEW mark
  PROVE  /\ TrimRight(s, mark) \in Text
         /\ TrimRight(s, mark) # <<>> => /\ TrimRight(s, mark)[1] = s[1]
                                         /\ TrimRight(s, mark)[Len(TrimRight(s, mark))] # mark
         /\ s # <<>> /\ s[Len(s)] # mark => TrimRight(s, mark) = s
<1>1. PICK i : i = LastNot(s, mark)
  OBVIOUS
<1>2. /\ i \in 0 .. Len(s)
      /\ i # 0 => s[i] # mark
      /\ \A j \in 1 .. Len(s) : s[j] # mark => j <= i
  BY <1>1, LastOther
<1>3. TrimRight(s, mark) = SubSeq(s, 1, i)
  BY <1>1 DEF TrimRight, LastNot
<1>4. Len(s) \in Nat
  BY DEF Text
<1>5. /\ SubSeq(s, 1, i) \in Text /\ Len(SubSeq(s, 1, i)) = i
      /\ i # 0 => SubSeq(s, 1, i)[i] = s[i] /\ SubSeq(s, 1, i)[1] = s[1]
      /\ i = 0 => SubSeq(s, 1, i) = <<>>
  BY <1>2, <1>4 DEF Text
<1>6. s # <<>> /\ s[Len(s)] # mark => i = Len(s)
  <2>1. s # <<>> => Len(s) \in 1 .. Len(s)
    BY <1>4 DEF Text
  <2> QED BY <1>2, <1>4, <2>1
<1>7. SubSeq(s, 1, Len(s)) = s
  BY DEF Text
<1> QED BY <1>2, <1>3, <1>5, <1>6, <1>7

\* A mark in front of a text makes no difference to it.
LEMMA Prefixed ==
  ASSUME NEW s \in Text, NEW x \in Word
  PROVE  /\ <<x>> \o s \in Text
         /\ Len(<<x>> \o s) = Len(s) + 1 /\ Len(s) \in Nat
         /\ (<<x>> \o s)[1] = x
         /\ \A j \in 1 .. Len(s) : (<<x>> \o s)[j + 1] = s[j]
<1>1. PICK u : u = <<x>>
  OBVIOUS
<1>2. u \in Seq(Word) /\ Len(u) = 1 /\ u[1] = x
  BY <1>1
<1>3. s \in Seq(Word) /\ Len(s) \in Nat
  BY DEF Text
<1>4. /\ u \o s \in Seq(Word) /\ Len(u \o s) = Len(u) + Len(s)
      /\ \A i \in 1 .. Len(u) + Len(s) : (u \o s)[i] = IF i <= Len(u) THEN u[i] ELSE s[i - Len(u)]
  BY <1>2, <1>3, ConcatProperties
<1>5. ASSUME NEW j \in 1 .. Len(s) PROVE (u \o s)[j + 1] = s[j]
  <2>1. j + 1 \in 1 .. Len(u) + Len(s) /\ ~ (j + 1 <= Len(u)) /\ (j + 1) - Len(u) = j
    BY <1>2, <1>3
  <2> QED BY <1>4, <2>1
<1>6. (u \o s)[1] = x
  <2>1. 1 \in 1 .. Len(u) + Len(s) /\ 1 <= Len(u)
    BY <1>2, <1>3
  <2> QED BY <1>2, <1>4, <2>1
<1> QED BY <1>1, <1>2, <1>3, <1>4, <1>5, <1>6 DEF Text

LEMMA TrimLeftAgain ==
  ASSUME NEW s \in Text, NEW mark \in Word
  PROVE  TrimLeft(<<mark>> \o s, mark) = TrimLeft(s, mark)
<1>0. PICK t : t = <<mark>> \o s
  OBVIOUS
<1>1. t \in Text /\ Len(t) = Len(s) + 1 /\ Len(s) \in Nat /\ t[1] = mark
      /\ \A j \in 1 .. Len(s) : t[j + 1] = s[j]
  BY <1>0, Prefixed
<1>2. PICK i : i = FirstNot(s, mark)
  OBVIOUS
<1>3. PICK k : k = FirstNot(t, mark)
  OBVIOUS
<1>4. /\ i \in 0 .. Len(s)
      /\ i = 0 => \A j \in 1 .. Len(s) : s[j] = mark
      /\ i # 0 => s[i] # mark /\ \A j \in 1 .. i - 1 : s[j] = mark
  BY <1>2, FirstOther DEF FirstAt
<1>5. /\ k \in 0 .. Len(t)
      /\ k = 0 => \A j \in 1 .. Len(t) : t[j] = mark
      /\ k # 0 => t[k] # mark /\ \A j \in 1 .. k - 1 : t[j] = mark
  BY <1>1, <1>3, FirstOther DEF FirstAt
<1>6. TrimLeft(s, mark) = (IF i = 0 THEN <<>> ELSE SubSeq(s, i, Len(s)))
      /\ TrimLeft(t, mark) = (IF k = 0 THEN <<>> ELSE SubSeq(t, k, Len(t)))
  BY <1>2, <1>3 DEF TrimLeft, FirstNot
<1>7. CASE i = 0
  <2>1. ASSUME k # 0 PROVE FALSE
    <3>1. k # 1
      BY <1>1, <1>5, <2>1
    <3>2. k - 1 \in 1 .. Len(s) /\ (k - 1) + 1 = k
      BY <1>1, <1>5, <2>1, <3>1
    <3>3. t[k] = s[k - 1]
      BY <1>1, <3>2
    <3> QED BY <1>4, <1>5, <1>7, <2>1, <3>2, <3>3
  <2> QED BY <1>0, <1>6, <1>7, <2>1
<1>8. CASE i # 0
  <2>1. i \in 1 .. Len(s) /\ t[i + 1] # mark /\ i + 1 \in 1 .. Len(t)
    <3>1. i \in 1 .. Len(s) /\ s[i] # mark
      BY <1>1, <1>4, <1>8
    <3> QED BY <1>1, <3>1
  <2>2. k # 0 /\ k <= i + 1
    <3>1. k # 0
      BY <1>5, <2>1
    <3>2. ~ (i + 1 \in 1 .. k - 1)
      BY <1>5, <2>1, <3>1
    <3> QED BY <1>1, <1>5, <2>1, <3>1, <3>2
  <2>3. k >= i + 1
    <3>1. SUFFICES ASSUME k <= i PROVE FALSE
      BY <1>1, <1>5, <2>1
    <3>2. k # 1
      BY <1>1, <1>5, <2>2
    <3>3. k - 1 \in 1 .. i - 1 /\ k - 1 \in 1 .. Len(s) /\ (k - 1) + 1 = k
      BY <1>1, <1>5, <2>1, <2>2, <3>1, <3>2
    <3>4. t[k] = s[k - 1] /\ s[k - 1] = mark
      BY <1>1, <1>4, <1>8, <3>3
    <3> QED BY <1>5, <2>2, <3>4
  <2>4. k = i + 1
    BY <1>1, <1>5, <2>1, <2>2, <2>3
  <2>5. SubSeq(t, i + 1, Len(t)) = SubSeq(s, i, Len(s))
    <3>1. Len(SubSeq(t, i + 1, Len(t))) = Len(s) - i + 1 /\ Len(SubSeq(s, i, Len(s))) = Len(s) - i + 1
      BY <1>1, <2>1 DEF Text
    <3>2. \A j \in 1 .. Len(s) - i + 1 :
            SubSeq(t, i + 1, Len(t))[j] = SubSeq(s, i, Len(s))[j]
      <4> SUFFICES ASSUME NEW j \in 1 .. Len(s) - i + 1
                   PROVE  SubSeq(t, i + 1, Len(t))[j] = SubSeq(s, i, Len(s))[j]
        OBVIOUS
      <4>1. SubSeq(t, i + 1, Len(t))[j] = t[(i + j - 1) + 1]
        BY <1>1, <2>1 DEF Text
      <4>2. SubSeq(s, i, Len(s))[j] = s[i + j - 1]
        BY <1>1, <2>1 DEF Text
      <4>3. i + j - 1 \in 1 .. Len(s)
        BY <1>1, <2>1
      <4> QED BY <1>1, <4>1, <4>2, <4>3
    <3>3. SubSeq(t, i + 1, Len(t)) \in Seq(Word) /\ SubSeq(s, i, Len(s)) \in Seq(Word)
      BY <1>1, <2>1 DEF Text
    <3> QED BY <3>1, <3>2, <3>3, SeqEqual
  <2> QED BY <1>0, <1>6, <1>8, <2>4, <2>2, <2>5
<1> QED BY <1>0, <1>7, <1>8

LEMMA MarksAreWords ==
  /\ " " \in Word /\ "_" \in Word /\ "*" \in Word /\ ":" \in Word /\ "#" \in Word
  /\ "-" \in Word /\ "." \in Word /\ "\n" \in Word /\ "&#58;" \in Word
BY FormatAssumption DEF FormatAssumption, Marks, Word

\* A text that starts and ends with something else than a blank.
Solid(s) == s \in Text /\ s # <<>> /\ s[1] # " " /\ s[Len(s)] # " "

LEMMA TrimSpaceIs ==
  ASSUME NEW s \in Text
  PROVE  /\ TrimSpace(s) \in Text
         /\ TrimSpace(s) # <<>> => Solid(TrimSpace(s))
         /\ Solid(s) => TrimSpace(s) = s
         /\ TrimSpace(<<" ">> \o s) = TrimSpace(s)
<1>1. PICK u : u = TrimLeft(s, " ")
  OBVIOUS
<1>2. u \in Text /\ (u # <<>> => u[1] # " ") /\ (s # <<>> /\ s[1] # " " => u = s)
  BY <1>1, TrimLeftIs
<1>3. PICK v : v = TrimRight(u, " ")
  OBVIOUS
<1>4. /\ v \in Text /\ (v # <<>> => v[1] = u[1] /\ v[Len(v)] # " ")
      /\ u # <<>> /\ u[Len(u)] # " " => v = u
  BY <1>2, <1>3, TrimRightIs
<1>5. TrimSpace(s) = v
  BY <1>1, <1>3 DEF TrimSpace
<1>6. v # <<>> => u # <<>>
  <2>1. ASSUME u = <<>> PROVE v = <<>>
    <3>1. Len(u) = 0
      BY <2>1, EmptySeq
    <3>2. PICK i : i = LastNot(u, " ")
      OBVIOUS
    <3>3. i \in 0 .. Len(u)
      BY <1>2, <3>2, LastOther
    <3>4. i = 0
      BY <3>1, <3>3
    <3>5. v = SubSeq(u, 1, i)
      BY <1>3, <3>2 DEF TrimRight, LastNot
    <3> QED BY <3>4, <3>5, SubSeqEmpty
  <2> QED BY <2>1
<1>7. TrimSpace(<<" ">> \o s) = TrimSpace(s)
  <2>1. TrimLeft(<<" ">> \o s, " ") = TrimLeft(s, " ")
    BY TrimLeftAgain, MarksAreWords
  <2> QED BY <2>1 DEF TrimSpace
<1> QED BY <1>2, <1>4, <1>5, <1>6, <1>7 DEF Solid

LEMMA TrimmedIsSolid ==
  ASSUME NEW s \in Text, s # <<>>, TrimSpace(s) = s
  PROVE  Solid(s)
BY TrimSpaceIs

\* normalizeKey keeps the length of the trimmed key.
LEMMA NormalizeKeyIs ==
  ASSUME NEW s \in Text
  PROVE  /\ normalizeKey(s) \in Text
         /\ Solid(s) => normalizeKey(s) # <<>>
<1>1. PICK u : u = TrimSpace(s)
  OBVIOUS
<1>2. u \in Text /\ (Solid(s) => u = s) /\ Len(u) \in Nat /\ DOMAIN u = 1 .. Len(u)
  <2>1. u \in Text /\ (Solid(s) => u = s)
    BY <1>1, TrimSpaceIs
  <2> QED BY <2>1 DEF Text
<1>3. PICK v : v = ToLower(u)
  OBVIOUS
<1>4. v \in Text /\ Len(v) = Len(u)
  <2>1. v = [i \in 1 .. Len(u) |-> IF u[i] \in DOMAIN LowerCase THEN LowerCase[u[i]] ELSE u[i]]
    BY <1>2, <1>3 DEF ToLower
  <2>2. ASSUME NEW i \in 1 .. Len(u)
        PROVE  (IF u[i] \in DOMAIN LowerCase THEN LowerCase[u[i]] ELSE u[i]) \in Word
    <3>1. u[i] \in Word
      BY <1>2 DEF Text
    <3>2. u[i] \in DOMAIN LowerCase => LowerCase[u[i]] \in Word
      BY FormatAssumption DEF FormatAssumption, Word
    <3> QED BY <3>1, <3>2
  <2> QED BY <1>2, <2>1, <2>2 DEF Text
<1>5. normalizeKey(s) = [i \in 1 .. Len(v) |-> IF v[i] = " " THEN "_" ELSE v[i]]
  BY <1>1, <1>3 DEF normalizeKey, ReplaceAll
<1>6. PICK w : w = normalizeKey(s)
  OBVIOUS
<1>7. w \in Text /\ Len(w) = Len(v)
  <2>1. \A i \in 1 .. Len(v) : v[i] \in Word
    BY <1>4 DEF Text
  <2>2. "_" \in Word
    BY MarksAreWords
  <2>3. Len(v) \in Nat
    BY <1>2, <1>4
  <2>4. \A i \in 1 .. Len(v) : (IF v[i] = " " THEN "_" ELSE v[i]) \in Word
    BY <2>1, <2>2
  <2>5. w = [i \in 1 .. Len(v) |-> IF v[i] = " " THEN "_" ELSE v[i]]
    BY <1>5, <1>6
  <2>6. PICK n \in Nat : n = Len(v)
    BY <2>3
  <2>7. w \in Text /\ Len(w) = n
    <3> DEFINE Value(i) == IF v[i] = " " THEN "_" ELSE v[i]
    <3>1. w = [i \in 1 .. n |-> Value(i)] /\ \A i \in 1 .. n : Value(i) \in Word
      BY <2>4, <2>5, <2>6
    <3> HIDE DEF Value
    <3> QED BY <3>1 DEF Text
  <2> QED BY <2>6, <2>7
<1>8. Solid(s) => w # <<>>
  <2>1. Solid(s) => Len(u) # 0
    <3>1. s # <<>> => Len(s) # 0
      BY EmptySeq DEF Text
    <3> QED BY <1>2, <3>1 DEF Solid
  <2>2. w = <<>> => Len(w) = 0
    BY EmptySeq
  <2> QED BY <1>4, <1>7, <2>1, <2>2
<1> QED BY <1>6, <1>7, <1>8

\* Without, word by word.
LEMMA WithoutNext ==
  /\ \A mark : Without(<<>>, mark) = <<>>
  /\ \A s \in Text : \A mark : Without(s, mark) \in Text
  /\ \A s \in Text, x \in Word : \A mark :
       Without(Append(s, x), mark) = Without(s, mark) \o (IF x = mark THEN <<>> ELSE <<x>>)
<1> DEFINE Kept(s, mark) == [i \in DOMAIN s |-> IF s[i] = mark THEN <<>> ELSE <<s[i]>>]
<1>1. ASSUME NEW s \in Text, NEW mark PROVE Kept(s, mark) \in Seq(Text)
  <2>1. DOMAIN s = 1 .. Len(s) /\ Len(s) \in Nat
    BY DEF Text
  <2>2. \A i \in 1 .. Len(s) : (IF s[i] = mark THEN <<>> ELSE <<s[i]>>) \in Text
    <3>1. \A i \in 1 .. Len(s) : s[i] \in Word
      BY DEF Text
    <3>2. <<>> \in Text /\ \A x \in Word : <<x>> \in Text
      BY DEF Text
    <3> QED BY <3>1, <3>2
  <2> HIDE DEF Text
  <2> QED BY <2>1, <2>2
<1>2. ASSUME NEW mark PROVE Without(<<>>, mark) = <<>>
  <2>1. Kept(<<>>, mark) = <<>>
    OBVIOUS
  <2> HIDE DEF Kept
  <2>2. FlattenSeq(<<>>) = <<>>
    BY Flatten
  <2>3. Without(<<>>, mark) = FlattenSeq(Kept(<<>>, mark))
    BY DEF Without, Kept
  <2> QED BY <2>1, <2>2, <2>3
<1>3. ASSUME NEW s \in Text, NEW mark PROVE Without(s, mark) \in Text
  <2>1. Without(s, mark) = FlattenSeq(Kept(s, mark))
    BY DEF Without
  <2> HIDE DEF Kept
  <2> QED BY <1>1, <2>1, Flatten DEF Text
<1>4. ASSUME NEW s \in Text, NEW x \in Word, NEW mark
      PROVE  Without(Append(s, x), mark) = Without(s, mark) \o (IF x = mark THEN <<>> ELSE <<x>>)
  <2> DEFINE t == Append(s, x)
             last == IF x = mark THEN <<>> ELSE <<x>>
  <2>1. t \in Text /\ Len(t) = Len(s) + 1 /\ t[Len(s) + 1] = x /\ \A i \in 1 .. Len(s) : t[i] = s[i]
    BY AppendProperties DEF Text
  <2>2. Len(s) \in Nat /\ DOMAIN s = 1 .. Len(s) /\ DOMAIN t = 1 .. Len(s) + 1
    BY <2>1 DEF Text
  <2>3. last \in Text
    <3>1. <<>> \in Text /\ <<x>> \in Text
      BY DEF Text
    <3> QED BY <3>1
  <2>4. Kept(t, mark) = Append(Kept(s, mark), last)
    <3>1. Len(Kept(s, mark)) = Len(s) /\ Len(Kept(t, mark)) = Len(s) + 1
      BY <2>2
    <3>2. Kept(s, mark) \in Seq(Text) /\ Kept(t, mark) \in Seq(Text)
      <4> HIDE DEF t, Kept
      <4> QED BY <1>1, <2>1
    <3>3. \A i \in 1 .. Len(s) : Kept(t, mark)[i] = Kept(s, mark)[i]
      BY <2>1, <2>2
    <3>4. Kept(t, mark)[Len(s) + 1] = last
      BY <2>1, <2>2
    <3> HIDE DEF t, Kept, last
    <3>5. PICK a : a = Append(Kept(s, mark), last)
      OBVIOUS
    <3>6. /\ a \in Seq(Text) /\ Len(a) = Len(s) + 1 /\ a[Len(s) + 1] = last
          /\ \A i \in 1 .. Len(s) : a[i] = Kept(s, mark)[i]
      BY <2>3, <3>1, <3>2, <3>5, AppendProperties
    <3>7. \A i \in 1 .. Len(s) + 1 : Kept(t, mark)[i] = a[i]
      BY <2>2, <3>3, <3>4, <3>6
    <3>8. Kept(t, mark) = a
      BY <3>1, <3>2, <3>6, <3>7, SeqEqual
    <3> QED BY <3>5, <3>8
  <2>5. Without(t, mark) = FlattenSeq(Kept(t, mark)) /\ Without(s, mark) = FlattenSeq(Kept(s, mark))
    BY DEF Without
  <2>6. Kept(s, mark) \in Seq(Text)
    BY <1>1
  <2> HIDE DEF t, Kept, last
  <2>7. FlattenSeq(Append(Kept(s, mark), last)) = FlattenSeq(Kept(s, mark)) \o last
    BY <2>3, <2>6, Flatten DEF Text
  <2> QED BY <2>4, <2>5, <2>7 DEF t, last
<1> QED BY <1>2, <1>3, <1>4

Lacks(s, mark) == \A i \in 1 .. Len(s) : s[i] # mark

LEMMA JoinOne ==
  ASSUME NEW A, NEW s \in Seq(A), NEW t \in Seq(A), NEW x \in A
  PROVE  /\ s \o Append(t, x) = Append(s \o t, x)
         /\ Append(s, x) = s \o <<x>>
<1>1. PICK u : u = <<x>>
  OBVIOUS
<1>2. u \in Seq(A)
  BY <1>1
<1>3. Append(t, x) = t \o u /\ Append(s, x) = s \o u
  BY <1>1, AppendIsConcat
<1>4. s \o t \in Seq(A)
  BY ConcatProperties
<1>5. Append(s \o t, x) = (s \o t) \o u
  BY <1>1, <1>4, AppendIsConcat
<1>6. (s \o t) \o u = s \o (t \o u)
  BY <1>2, ConcatAssociative
<1> QED BY <1>1, <1>3, <1>5, <1>6

LEMMA WithoutParts ==
  ASSUME NEW s \in Text, NEW mark
  PROVE  \A t \in Text : Without(s \o t, mark) = Without(s, mark) \o Without(t, mark)
<1> DEFINE T == {t \in Text : Without(s \o t, mark) = Without(s, mark) \o Without(t, mark)}
<1>1. Without(s, mark) \in Text /\ <<>> \in Text
  BY WithoutNext, EmptySeq DEF Text
<1>2. <<>> \in T
  <2>1. s \o <<>> = s /\ Without(s, mark) \o <<>> = Without(s, mark)
    BY <1>1, ConcatEmptySeq DEF Text
  <2> QED BY <1>1, <2>1, WithoutNext
<1>3. ASSUME NEW t \in Text, NEW x \in Word, t \in T PROVE Append(t, x) \in T
  <2>1. s \o t \in Text /\ Append(t, x) \in Text /\ Without(t, mark) \in Text
    BY ConcatProperties, AppendProperties, WithoutNext DEF Text
  <2>2. s \o Append(t, x) = Append(s \o t, x)
    BY JoinOne DEF Text
  <2>3. PICK last : last = IF x = mark THEN <<>> ELSE <<x>>
    OBVIOUS
  <2>4. last \in Text
    <3>1. <<x>> \in Text
      BY DEF Text
    <3> QED BY <1>1, <2>3, <3>1
  <2>5. Without(Append(s \o t, x), mark) = Without(s \o t, mark) \o last
    BY <2>1, <2>3, WithoutNext
  <2>6. Without(Append(t, x), mark) = Without(t, mark) \o last
    BY <2>3, WithoutNext
  <2>7. (Without(s, mark) \o Without(t, mark)) \o last = Without(s, mark) \o (Without(t, mark) \o last)
    BY <1>1, <2>1, <2>4, ConcatAssociative DEF Text
  <2> QED BY <1>3, <2>1, <2>2, <2>5, <2>6, <2>7
<1> HIDE DEF T
<1>4. Text \subseteq T
  BY <1>2, <1>3, SeqInductive DEF Text
<1> QED BY <1>4 DEF T

LEMMA WithoutLacking ==
  ASSUME NEW mark
  PROVE  \A s \in Text : Lacks(s, mark) => Without(s, mark) = s
<1> DEFINE T == {s \in Text : Lacks(s, mark) => Without(s, mark) = s}
<1>1. <<>> \in T
  BY WithoutNext, EmptySeq DEF Text
<1>2. ASSUME NEW s \in Text, NEW x \in Word, s \in T PROVE Append(s, x) \in T
  <2>1. Append(s, x) \in Text /\ Len(Append(s, x)) = Len(s) + 1 /\ Append(s, x)[Len(s) + 1] = x
        /\ \A i \in 1 .. Len(s) : Append(s, x)[i] = s[i]
    BY AppendProperties DEF Text
  <2>2. SUFFICES ASSUME Lacks(Append(s, x), mark) PROVE Without(Append(s, x), mark) = Append(s, x)
    BY <2>1
  <2>3. Len(s) \in Nat
    BY DEF Text
  <2>4. Lacks(s, mark) /\ x # mark
    <3>1. \A i \in 1 .. Len(s) + 1 : Append(s, x)[i] # mark
      BY <2>1, <2>2 DEF Lacks
    <3> QED BY <2>1, <2>3, <3>1 DEF Lacks
  <2>5. Without(Append(s, x), mark) = s \o <<x>>
    BY <1>2, <2>4, WithoutNext
  <2> QED BY <2>5, JoinOne DEF Text
<1> HIDE DEF T
<1>3. Text \subseteq T
  BY <1>1, <1>2, SeqInductive DEF Text
<1> QED BY <1>3 DEF T

LEMMA TrimPrefixIs ==
  ASSUME NEW s \in Text, NEW p \in Text, p # <<>>
  PROVE  /\ TrimPrefix(s, p) \in Text
         /\ s # <<>> /\ s[1] # p[1] => TrimPrefix(s, p) = s
         /\ s # <<>> => TrimPrefix(p \o s, p) = s
<1>1. Len(s) \in Nat /\ Len(p) \in Nat /\ Len(p) >= 1
  <2>1. Len(p) # 0 /\ Len(p) \in Nat /\ Len(s) \in Nat
    BY EmptySeq DEF Text
  <2> QED BY <2>1
<1>2. TrimPrefix(s, p) \in Text
  <2>1. SubSeq(s, Len(p) + 1, Len(s)) \in Text
    <3>1. \A i \in Len(p) + 1 .. Len(s) : s[i] \in Word
      BY <1>1 DEF Text
    <3>2. Len(p) + 1 \in Int /\ Len(s) \in Int
      BY <1>1
    <3>3. PICK m \in Int : m = Len(p) + 1
      BY <3>2
    <3> QED BY <3>1, <3>2, <3>3, SubSeqProperties DEF Text
  <2> QED BY <2>1 DEF TrimPrefix
<1>3. ASSUME s # <<>>, s[1] # p[1] PROVE TrimPrefix(s, p) = s
  <2>1. ASSUME IsPrefix(p, s) PROVE FALSE
    <3>1. Len(p) <= Len(s) /\ SubSeq(p, 1, Len(p)) = SubSeq(s, 1, Len(p))
      BY <2>1 DEF IsPrefix
    <3>2. SubSeq(p, 1, Len(p))[1] = p[1] /\ SubSeq(s, 1, Len(p))[1] = s[1]
      BY <1>1, <3>1 DEF Text
    <3> QED BY <1>3, <3>1, <3>2
  <2> QED BY <2>1 DEF TrimPrefix
<1>4. ASSUME s # <<>> PROVE TrimPrefix(p \o s, p) = s
  <2>1. Len(p \o s) = Len(p) + Len(s)
    BY ConcatProperties DEF Text
  <2>2. SubSeq(p \o s, 1, Len(p)) = SubSeq(p, 1, Len(p))
    <3>1. 1 \in 1 .. Len(p) /\ Len(p) \in 1 .. Len(p)
      BY <1>1
    <3> QED BY <3>1, SubSeqOfConcat1 DEF Text
  <2>3. IsPrefix(p, p \o s)
    BY <1>1, <2>1, <2>2 DEF IsPrefix
  <2>4. SubSeq(p \o s, Len(p) + 1, Len(p) + Len(s)) = s
    <3>0. Len(s) # 0
      BY <1>4, EmptySeq DEF Text
    <3>1. Len(p) + 1 \in Len(p) + 1 .. Len(p) + Len(s) /\ Len(p) + Len(s) \in Len(p) + 1 .. Len(p) + Len(s)
          /\ (Len(p) + 1) - Len(p) = 1 /\ (Len(p) + Len(s)) - Len(p) = Len(s)
      BY <1>1, <3>0
    <3>2. PICK m \in Len(p) + 1 .. Len(p) + Len(s), n \in Len(p) + 1 .. Len(p) + Len(s) :
            m = Len(p) + 1 /\ n = Len(p) + Len(s)
      BY <3>1
    <3>3. SubSeq(p \o s, m, n) = SubSeq(s, m - Len(p), n - Len(p))
      BY SubSeqOfConcat2 DEF Text
    <3>4. SubSeq(s, 1, Len(s)) = s
      BY SubSeqFull DEF Text
    <3> QED BY <3>1, <3>2, <3>3, <3>4
  <2> QED BY <2>1, <2>3, <2>4 DEF TrimPrefix
<1> QED BY <1>2, <1>3, <1>4

LEMMA ShortTexts ==
  /\ \A x \in Word : <<x>> \in Text /\ Len(<<x>>) = 1 /\ <<x>>[1] = x
  /\ \A x, y \in Word : <<x, y>> \in Text /\ <<x, y>> = <<x>> \o <<y>>
  /\ \A x, y, z \in Word : <<x, y, z>> \in Text /\ <<x, y, z>> = <<x>> \o <<y, z>>
  /\ \A x, y, z, w \in Word : <<x, y, z, w>> \in Text /\ <<x, y, z, w>> = <<x, y>> \o <<z, w>>
<1>1. ASSUME NEW x \in Word PROVE <<x>> \in Text /\ Len(<<x>>) = 1 /\ <<x>>[1] = x
  BY DEF Text
<1>2. ASSUME NEW x \in Word, NEW y \in Word PROVE <<x, y>> \in Text /\ <<x, y>> = <<x>> \o <<y>>
  <2>1. <<x, y>> \in Text
    BY DEF Text
  <2>2. <<x, y>> = <<x>> \o <<y>>
    <3>1. PICK u, w, d : u = <<x>> /\ w = <<y>> /\ d = <<x, y>>
      OBVIOUS
    <3>2. u \in Seq(Word) /\ w \in Seq(Word) /\ Len(u) = 1 /\ Len(w) = 1 /\ u[1] = x /\ w[1] = y
      BY <3>1
    <3>3. d \in Seq(Word) /\ Len(d) = 2 /\ d[1] = x /\ d[2] = y
      BY <3>1
    <3>4. PICK c : c = u \o w
      OBVIOUS
    <3>5. c \in Seq(Word) /\ Len(c) = Len(u) + Len(w)
          /\ \A i \in 1 .. Len(u) + Len(w) : c[i] = IF i <= Len(u) THEN u[i] ELSE w[i - Len(u)]
      BY <3>2, <3>4, ConcatProperties
    <3>6. Len(c) = 2 /\ c[1] = x /\ c[2] = y
      BY <3>2, <3>5
    <3>7. \A i \in 1 .. Len(c) : c[i] = d[i]
      BY <3>3, <3>6
    <3>8. c = d
      BY <3>3, <3>5, <3>6, <3>7, SeqEqual
    <3> QED BY <3>1, <3>4, <3>8
  <2> QED BY <2>1, <2>2
<1>3. ASSUME NEW x \in Word, NEW y \in Word, NEW z \in Word
      PROVE  <<x, y, z>> \in Text /\ <<x, y, z>> = <<x>> \o <<y, z>>
  BY DEF Text
<1>4. ASSUME NEW x \in Word, NEW y \in Word, NEW z \in Word, NEW w \in Word
      PROVE  <<x, y, z, w>> \in Text /\ <<x, y, z, w>> = <<x, y>> \o <<z, w>>
  BY DEF Text
<1> QED BY <1>1, <1>2, <1>3, <1>4

LEMMA OneLacks == \A x \in Word : \A mark : x # mark => Lacks(<<x>>, mark)
<1> SUFFICES ASSUME NEW x \in Word, NEW mark, x # mark PROVE Lacks(<<x>>, mark)
  OBVIOUS
<1>1. Len(<<x>>) = 1 /\ <<x>>[1] = x
  BY ShortTexts
<1>2. \A i \in 1 .. 1 : i = 1
  OBVIOUS
<1> QED BY <1>1, <1>2 DEF Lacks

\* Predicates of their own, so that the provers look no further than the
\* instances that are asked for.
AssocOf(s, t, u) == (s \o t) \o u = s \o (t \o u)

EndsOf(s, t) ==
  /\ s \o t \in Text
  /\ s # <<>> => s \o t # <<>> /\ (s \o t)[1] = s[1]
  /\ t # <<>> => s \o t # <<>> /\ (s \o t)[Len(s \o t)] = t[Len(t)]

LEMMA Assoc == \A s, t, u \in Text : AssocOf(s, t, u)
<1> SUFFICES ASSUME NEW s \in Text, NEW t \in Text, NEW u \in Text
             PROVE  (s \o t) \o u = s \o (t \o u)
  BY DEF AssocOf
<1> QED BY ConcatAssociative DEF Text

LEMMA JoinedEnds ==
  ASSUME NEW s \in Text, NEW t \in Text
  PROVE  /\ s \o t \in Text
         /\ s # <<>> => s \o t # <<>> /\ (s \o t)[1] = s[1]
         /\ t # <<>> => s \o t # <<>> /\ (s \o t)[Len(s \o t)] = t[Len(t)]
         /\ \A mark : Lacks(s \o t, mark) <=> Lacks(s, mark) /\ Lacks(t, mark)
<1>1. /\ Len(s) \in Nat /\ Len(t) \in Nat
      /\ s # <<>> => Len(s) # 0
      /\ t # <<>> => Len(t) # 0
  BY EmptySeq DEF Text
<1>2. PICK u : u = s \o t
  OBVIOUS
<1>3. /\ u \in Text /\ Len(u) = Len(s) + Len(t)
      /\ \A i \in 1 .. Len(s) + Len(t) : u[i] = IF i <= Len(s) THEN s[i] ELSE t[i - Len(s)]
  BY <1>2, ConcatProperties DEF Text
<1>4. u = <<>> => Len(u) = 0
  BY EmptySeq
<1>5. ASSUME s # <<>> PROVE u # <<>> /\ u[1] = s[1]
  <2>1. 1 \in 1 .. Len(s) + Len(t) /\ 1 <= Len(s)
    BY <1>1, <1>5
  <2> QED BY <1>1, <1>3, <1>4, <2>1
<1>6. ASSUME t # <<>> PROVE u # <<>> /\ u[Len(u)] = t[Len(t)]
  <2>1. Len(u) \in 1 .. Len(s) + Len(t) /\ ~ (Len(u) <= Len(s)) /\ Len(u) - Len(s) = Len(t)
    BY <1>1, <1>3, <1>6
  <2> QED BY <1>1, <1>3, <1>4, <2>1
<1>7. ASSUME NEW mark PROVE Lacks(u, mark) <=> Lacks(s, mark) /\ Lacks(t, mark)
  <2>1. ASSUME Lacks(u, mark) PROVE Lacks(s, mark) /\ Lacks(t, mark)
    <3>1. ASSUME NEW i \in 1 .. Len(s) PROVE s[i] # mark
      <4>1. i \in 1 .. Len(s) + Len(t) /\ i <= Len(s)
        BY <1>1
      <4> QED BY <1>3, <2>1, <4>1 DEF Lacks
    <3>2. ASSUME NEW i \in 1 .. Len(t) PROVE t[i] # mark
      <4>1. i + Len(s) \in 1 .. Len(s) + Len(t) /\ ~ (i + Len(s) <= Len(s)) /\ (i + Len(s)) - Len(s) = i
        BY <1>1
      <4>2. u[i + Len(s)] = t[i] /\ u[i + Len(s)] # mark
        BY <1>3, <2>1, <4>1 DEF Lacks
      <4> QED BY <4>2
    <3> QED BY <3>1, <3>2 DEF Lacks
  <2>2. ASSUME Lacks(s, mark), Lacks(t, mark) PROVE Lacks(u, mark)
    <3>1. ASSUME NEW i \in 1 .. Len(u) PROVE u[i] # mark
      <4>1. CASE i <= Len(s)
        <5>1. i \in 1 .. Len(s) /\ i \in 1 .. Len(s) + Len(t)
          BY <1>1, <1>3, <4>1
        <5> QED BY <1>3, <2>2, <4>1, <5>1 DEF Lacks
      <4>2. CASE ~ (i <= Len(s))
        <5>1. i - Len(s) \in 1 .. Len(t) /\ i \in 1 .. Len(s) + Len(t)
          BY <1>1, <1>3, <4>2
        <5>2. u[i] = t[i - Len(s)] /\ t[i - Len(s)] # mark
          BY <1>3, <2>2, <4>2, <5>1 DEF Lacks
        <5> QED BY <5>2
      <4> QED BY <4>1, <4>2
    <3> QED BY <3>1 DEF Lacks
  <2> QED BY <2>1, <2>2
<1> QED BY <1>2, <1>3, <1>5, <1>6, <1>7

\* A line without anything that stripMarkdownNoise looks for.
Unmarked(s) ==
  /\ Solid(s) /\ s[1] # "-" /\ s[1] # "*" /\ s[1] # "#"
  /\ Lacks(s, "*") /\ Lacks(s, "_")

\* What it takes away in front of a plain line.
Bullet == <<"-", " ">>
Star == <<"*", " ">>
Title == <<"#", "#", " ">>

LEMMA BulletsAreText == Bullet \in Text /\ Star \in Text /\ Title \in Text
BY MarksAreWords, ShortTexts DEF Bullet, Star, Title

LEMMA StripType == \A s \in Text : stripMarkdownNoise(s) \in Text
<1> SUFFICES ASSUME NEW s \in Text PROVE stripMarkdownNoise(s) \in Text
  OBVIOUS
<1>1. PICK a : a = TrimSpace(s)
  OBVIOUS
<1>2. a \in Text
  BY <1>1, TrimSpaceIs
<1>3. Bullet # <<>> /\ Star # <<>>
  BY DEF Bullet, Star
<1>4. PICK b : b = TrimPrefix(a, Bullet)
  OBVIOUS
<1>5. b \in Text
  BY <1>2, <1>3, <1>4, BulletsAreText, TrimPrefixIs
<1>6. PICK c : c = TrimPrefix(b, Star)
  OBVIOUS
<1>7. c \in Text
  BY <1>3, <1>5, <1>6, BulletsAreText, TrimPrefixIs
<1>8. TrimLeft(c, "#") \in Text
  BY <1>7, TrimLeftIs
<1>9. Without(Without(TrimLeft(c, "#"), "*"), "_") \in Text
  BY <1>8, WithoutNext
<1>10. stripMarkdownNoise(s) = TrimSpace(Without(Without(TrimLeft(c, "#"), "*"), "_"))
  BY <1>1, <1>4, <1>6 DEF stripMarkdownNoise, Bullet, Star
<1> QED BY <1>9, <1>10, TrimSpaceIs

LEMMA StripPlain ==
  ASSUME NEW s \in Text, Unmarked(s)
  PROVE  /\ stripMarkdownNoise(s) = s
         /\ stripMarkdownNoise(Bullet \o s) = s
         /\ stripMarkdownNoise(Title \o s) = s
<1>1. Solid(s) /\ s # <<>> /\ s[1] # "-" /\ s[1] # "*" /\ s[1] # "#" /\ TrimSpace(s) = s
  BY TrimSpaceIs DEF Unmarked, Solid
<1>2. Without(Without(s, "*"), "_") = s
  BY WithoutLacking DEF Unmarked
<1>3. TrimLeft(s, "#") = s
  BY <1>1, TrimLeftIs
<1>4. TrimPrefix(s, Bullet) = s /\ TrimPrefix(s, Star) = s
  <2>1. Bullet # <<>> /\ Bullet[1] = "-" /\ Star # <<>> /\ Star[1] = "*"
    BY DEF Bullet, Star
  <2>2. s[1] # Bullet[1] /\ s[1] # Star[1]
    BY <1>1, <2>1
  <2> QED BY <1>1, <2>1, <2>2, BulletsAreText, TrimPrefixIs
<1>5. stripMarkdownNoise(s) = s
  <2>1. TrimPrefix(TrimPrefix(TrimSpace(s), Bullet), Star) = s
    BY <1>1, <1>4
  <2> QED BY <1>1, <1>2, <1>3, <2>1 DEF stripMarkdownNoise, Bullet, Star
<1>6. stripMarkdownNoise(Bullet \o s) = s
  <2>1. PICK t : t = Bullet \o s
    OBVIOUS
  <2>2. Bullet # <<>> /\ Bullet[1] = "-" /\ "-" # " "
    BY DEF Bullet
  <2>3. Solid(t)
    BY <1>1, <2>1, <2>2, BulletsAreText, JoinedEnds DEF Solid
  <2>4. TrimSpace(t) = t
    BY <2>3, TrimSpaceIs DEF Solid
  <2>5. TrimPrefix(t, Bullet) = s
    BY <1>1, <2>1, <2>2, BulletsAreText, TrimPrefixIs
  <2>6. TrimPrefix(TrimPrefix(TrimSpace(t), Bullet), Star) = s
    BY <1>4, <2>4, <2>5
  <2>7. stripMarkdownNoise(t) = s
    BY <1>1, <1>2, <1>3, <2>6 DEF stripMarkdownNoise, Bullet, Star
  <2> QED BY <2>1, <2>7
<1>7. stripMarkdownNoise(Title \o s) = s
  <2>1. PICK t : t = Title \o s
    OBVIOUS
  <2>2. Title # <<>> /\ Title[1] = "#"
    BY DEF Title
  <2>3. Solid(t) /\ t[1] = "#"
    BY <1>1, <2>1, <2>2, BulletsAreText, JoinedEnds DEF Solid
  <2>4. TrimSpace(t) = t
    BY <2>3, TrimSpaceIs DEF Solid
  <2>5. TrimPrefix(t, Bullet) = t /\ TrimPrefix(t, Star) = t
    <3>1. Bullet # <<>> /\ Bullet[1] = "-" /\ Star # <<>> /\ Star[1] = "*"
      BY DEF Bullet, Star
    <3>2. t[1] # Bullet[1] /\ t[1] # Star[1] /\ t # <<>> /\ t \in Text
      BY <2>3, <3>1 DEF Solid
    <3> QED BY <3>1, <3>2, BulletsAreText, TrimPrefixIs
  <2>6. t = <<"#">> \o (<<"#">> \o (<<" ">> \o s))
    <3>1. PICK a, b : a = <<"#">> /\ b = <<" ">>
      OBVIOUS
    <3>2. a \in Text /\ b \in Text
      BY <3>1, MarksAreWords, ShortTexts
    <3>3. Title = a \o (a \o b)
      <4>1. PICK x \in Word, y \in Word : x = "#" /\ y = " "
        BY MarksAreWords
      <4>2. <<x, x, y>> = <<x>> \o <<x, y>>
        BY ShortTexts
      <4>3. <<x, y>> = <<x>> \o <<y>>
        BY ShortTexts
      <4> QED BY <3>1, <4>1, <4>2, <4>3 DEF Title
    <3>4. a \o b \in Text /\ b \o s \in Text
      BY <3>2, JoinedEnds
    <3>5. (a \o (a \o b)) \o s = a \o ((a \o b) \o s) /\ (a \o b) \o s = a \o (b \o s)
      <4>1. AssocOf(a, a \o b, s) /\ AssocOf(a, b, s)
        BY <3>2, <3>4, Assoc
      <4> QED BY <4>1 DEF AssocOf
    <3> QED BY <2>1, <3>1, <3>3, <3>5
  <2>7. PICK v : v = <<" ">> \o s
    OBVIOUS
  <2>8. v \in Text /\ v # <<>> /\ v[1] = " " /\ <<"#">> \o v \in Text
    <3>1. v \in Text /\ v[1] = " "
      BY <2>7, MarksAreWords, Prefixed
    <3>2. v # <<>>
      <4>0. Len(v) = Len(s) + 1 /\ Len(s) \in Nat
        BY <2>7, MarksAreWords, Prefixed
      <4>1. Len(v) # 0
        BY <4>0
      <4> QED BY <4>1, EmptySeq
    <3> QED BY <3>1, <3>2, MarksAreWords, Prefixed
  <2>9. TrimLeft(t, "#") = v
    <3>1. TrimLeft(<<"#">> \o (<<"#">> \o v), "#") = TrimLeft(<<"#">> \o v, "#")
      BY <2>8, MarksAreWords, TrimLeftAgain
    <3>2. TrimLeft(<<"#">> \o v, "#") = TrimLeft(v, "#")
      BY <2>8, MarksAreWords, TrimLeftAgain
    <3>3. TrimLeft(v, "#") = v
      BY <2>8, TrimLeftIs
    <3> QED BY <2>6, <2>7, <3>1, <3>2, <3>3
  <2>10. Without(Without(v, "*"), "_") = v
    <3>1. PICK b : b = <<" ">>
      OBVIOUS
    <3>2. b \in Text /\ Lacks(b, "*") /\ Lacks(b, "_")
      <4>1. b \in Text
        BY <3>1, MarksAreWords, ShortTexts
      <4>2. Lacks(b, "*") /\ Lacks(b, "_")
        BY <3>1, MarksAreWords, OneLacks
      <4> QED BY <4>1, <4>2
    <3>3. Lacks(v, "*") /\ Lacks(v, "_")
      BY <2>7, <3>1, <3>2, JoinedEnds DEF Unmarked
    <3> QED BY <2>8, <3>3, WithoutLacking
  <2>11. TrimSpace(v) = s
    BY <1>1, <2>7, TrimSpaceIs
  <2>12. stripMarkdownNoise(t) = s
    <3>1. TrimPrefix(TrimPrefix(TrimSpace(t), Bullet), Star) = t
      BY <2>4, <2>5
    <3> QED BY <2>9, <2>10, <2>11, <3>1 DEF stripMarkdownNoise, Bullet, Star
  <2> QED BY <2>1, <2>12
<1> QED BY <1>5, <1>6, <1>7

Stars == <<"*", "*">>
Sign == <<":">>
Gap == <<":", " ">>

LEMMA EndsJoined == \A s, t \in Text : EndsOf(s, t)
BY JoinedEnds DEF EndsOf

LEMMA SignsAreText == Stars \in Text /\ Sign \in Text /\ Gap \in Text /\ Gap = Sign \o <<" ">>
BY MarksAreWords, ShortTexts DEF Stars, Sign, Gap

LEMMA Join ==
  /\ \A s, t \in Text : s \o t \in Text
  /\ \A s, t, u \in Text : (s \o t) \o u = s \o (t \o u)
  /\ \A s \in Text : s \o <<>> = s /\ <<>> \o s = s
  /\ <<>> \in Text
<1>1. \A s, t \in Text : s \o t \in Text
  BY JoinedEnds
<1>2. \A s, t, u \in Text : (s \o t) \o u = s \o (t \o u)
  BY Assoc DEF AssocOf
<1>3. \A s \in Text : s \o <<>> = s /\ <<>> \o s = s
  BY ConcatEmptySeq DEF Text
<1> QED BY <1>1, <1>2, <1>3, EmptySeq DEF Text

WithoutOf(s, t, mark) == Without(s \o t, mark) = Without(s, mark) \o Without(t, mark)

LEMMA WithoutJoined == \A s, t \in Text : \A mark : WithoutOf(s, t, mark)
BY WithoutParts DEF WithoutOf

SixOf(p, q, k, r, g, v) ==
  (((p \o q) \o k) \o (r \o g)) \o v = p \o (q \o (k \o (r \o (g \o v))))

LEMMA SixParts ==
  ASSUME NEW p \in Text, NEW q \in Text, NEW k \in Text, NEW r \in Text, NEW g \in Text, NEW v \in Text
  PROVE  SixOf(p, q, k, r, g, v)
<1>1. (p \o q) \o k \in Text /\ r \o g \in Text /\ p \o q \in Text
  BY Join
<1>2. AssocOf((p \o q) \o k, r \o g, v) /\ AssocOf(r, g, v)
  BY <1>1, Assoc
<1>3. g \o v \in Text /\ r \o (g \o v) \in Text /\ k \o (r \o (g \o v)) \in Text
  BY Join
<1>4. AssocOf(p \o q, k, r \o (g \o v)) /\ AssocOf(p, q, k \o (r \o (g \o v)))
  BY <1>1, <1>3, Assoc
<1> QED BY <1>2, <1>4 DEF AssocOf, SixOf

FourOf(a, b, c, d) ==
  <<a, b, c, d>> \in Text /\ <<a, b, c, d>> = <<a, b>> \o <<c, d>>

LEMMA FourWords == \A a, b, c, d \in Word : FourOf(a, b, c, d)
<1> SUFFICES ASSUME NEW a \in Word, NEW b \in Word, NEW c \in Word, NEW d \in Word
             PROVE  <<a, b, c, d>> \in Text /\ <<a, b, c, d>> = <<a, b>> \o <<c, d>>
  BY DEF FourOf
<1> QED BY DEF Text

\* * **key**: value
LEMMA StripBold ==
  ASSUME NEW k \in Text, NEW v \in Text, k # <<>>, Unmarked((k \o Gap) \o v), v # <<>>
  PROVE  stripMarkdownNoise(((<<"*", " ", "*", "*">> \o k) \o <<"*", "*", ":", " ">>) \o v)
           = (k \o Gap) \o v
<1>0. PICK star \in Word : star = "*"
  BY MarksAreWords
<1>1. PICK front, back, raw :
        /\ front = <<"*", " ", "*", "*">> /\ back = <<"*", "*", ":", " ">>
        /\ raw = ((front \o k) \o back) \o v
  OBVIOUS
<1>2. front = Star \o Stars /\ back = Stars \o Gap
  <2>1. PICK x \in Word, y \in Word, z \in Word : x = "*" /\ y = " " /\ z = ":"
    BY MarksAreWords
  <2>2. <<x, y, x, x>> = <<x, y>> \o <<x, x>>
    <3>1. FourOf(x, y, x, x)
      BY FourWords
    <3> QED BY <3>1 DEF FourOf
  <2>3. <<x, x, z, y>> = <<x, x>> \o <<z, y>>
    <3>1. FourOf(x, x, z, y)
      BY FourWords
    <3> QED BY <3>1 DEF FourOf
  <2> QED BY <1>1, <2>1, <2>2, <2>3 DEF Star, Stars, Gap
<1>3. PICK gv, sgv, ksgv, rest, line :
        /\ gv = Gap \o v /\ sgv = Stars \o gv /\ ksgv = k \o sgv /\ rest = Stars \o ksgv
        /\ line = (k \o Gap) \o v
  OBVIOUS
<1>4. Gap \in Text /\ Star \in Text /\ Stars \in Text
  BY SignsAreText, BulletsAreText
<1>5. /\ gv \in Text /\ sgv \in Text /\ ksgv \in Text /\ rest \in Text /\ line \in Text
  <2>1. gv \in Text
    BY <1>3, <1>4, Join
  <2>2. sgv \in Text
    BY <1>3, <1>4, <2>1, Join
  <2>3. ksgv \in Text
    BY <1>3, <2>2, Join
  <2>4. rest \in Text
    BY <1>3, <1>4, <2>3, Join
  <2>5. k \o Gap \in Text
    BY <1>4, Join
  <2>6. line \in Text
    BY <1>3, <2>5, Join
  <2> QED BY <2>1, <2>2, <2>3, <2>4, <2>6
<1>22. line = k \o gv
  <2>1. AssocOf(k, Gap, v)
    BY <1>4, Assoc
  <2> QED BY <1>3, <2>1 DEF AssocOf
<1>6. raw = Star \o rest
  <2>1. raw = (((Star \o Stars) \o k) \o (Stars \o Gap)) \o v
    BY <1>1, <1>2
  <2>2. SixOf(Star, Stars, k, Stars, Gap, v)
    BY <1>4, SixParts
  <2> QED BY <1>3, <2>1, <2>2 DEF SixOf
<1>7. /\ Stars # <<>> /\ Stars[1] = "*" /\ Star # <<>> /\ Star[1] = "*" /\ Bullet # <<>> /\ Bullet[1] = "-"
  BY DEF Star, Stars, Bullet
<1>8. /\ rest # <<>> /\ rest[1] = "*" /\ rest[Len(rest)] = v[Len(v)]
  <2>1. EndsOf(Gap, v) /\ EndsOf(Stars, gv) /\ EndsOf(k, sgv) /\ EndsOf(Stars, ksgv)
    BY <1>4, <1>5, EndsJoined
  <2>2. gv # <<>> /\ gv[Len(gv)] = v[Len(v)]
    BY <1>3, <2>1 DEF EndsOf
  <2>3. sgv # <<>> /\ sgv[Len(sgv)] = v[Len(v)]
    BY <1>3, <2>1, <2>2 DEF EndsOf
  <2>4. ksgv # <<>> /\ ksgv[Len(ksgv)] = v[Len(v)]
    BY <1>3, <2>1, <2>3 DEF EndsOf
  <2> QED BY <1>3, <1>7, <2>1, <2>4 DEF EndsOf
<1>9. v[Len(v)] # " "
  <2>1. line[Len(line)] = v[Len(v)]
    BY <1>3, <1>4, Join, JoinedEnds
  <2> QED BY <1>3, <2>1 DEF Unmarked, Solid
<1>10. Solid(raw)
  <2>1. /\ raw \in Text /\ raw # <<>> /\ raw[1] = "*" /\ raw[Len(raw)] = v[Len(v)]
    <3>1. EndsOf(Star, rest)
      BY <1>5, BulletsAreText, EndsJoined
    <3> QED BY <1>6, <1>7, <1>8, <3>1 DEF EndsOf
  <2> QED BY <1>9, <2>1 DEF Solid
<1>11. TrimSpace(raw) = raw /\ raw # <<>> /\ raw[1] = "*" /\ raw \in Text
  <2>1. raw[1] = "*"
    BY <1>5, <1>6, <1>7, BulletsAreText, JoinedEnds
  <2> QED BY <1>10, <2>1, TrimSpaceIs DEF Solid
<1>12. TrimPrefix(raw, Bullet) = raw
  <2>1. raw[1] # Bullet[1]
    BY <1>7, <1>11
  <2> QED BY <1>7, <1>11, <2>1, BulletsAreText, TrimPrefixIs
<1>13. TrimPrefix(raw, Star) = rest
  BY <1>5, <1>6, <1>7, <1>8, BulletsAreText, TrimPrefixIs
<1>14. TrimLeft(rest, "#") = rest
  <2>1. rest[1] # "#" /\ rest \in Text /\ rest # <<>>
    BY <1>5, <1>8
  <2> QED BY <2>1, TrimLeftIs
<1>15. Without(Stars, star) = <<>>
  <2>1. PICK x \in Word : x = star
    BY <1>0
  <2>2. PICK a : a = <<x>>
    OBVIOUS
  <2>3. a \in Seq(Word) /\ <<>> \in Seq(Word)
    BY <2>2
  <2>4. Append(<<>>, x) = a /\ Append(a, x) = Stars
    <3>1. <<x>> \o <<x>> = <<x, x>>
      BY ShortTexts
    <3>2. Append(a, x) = a \o <<x>>
      BY <2>3, JoinOne
    <3>3. Append(<<>>, x) = <<>> \o a
      BY <2>2, <2>3, JoinOne
    <3> QED BY <1>0, <2>1, <2>2, <2>3, <3>1, <3>2, <3>3, ConcatEmptySeq DEF Stars
  <2>5. Without(a, x) = <<>> \o <<>>
    <3>1. Without(Append(<<>>, x), x) = Without(<<>>, x) \o <<>>
      BY <2>3, WithoutNext DEF Text
    <3>2. Without(<<>>, x) = <<>>
      BY WithoutNext
    <3> QED BY <2>4, <3>1, <3>2
  <2>6. Without(Stars, x) = Without(a, x) \o <<>>
    <3>1. Without(Append(a, x), x) = Without(a, x) \o <<>>
      BY <2>3, WithoutNext DEF Text
    <3> QED BY <2>4, <3>1
  <2>7. <<>> \o <<>> = <<>>
    BY <2>3, ConcatEmptySeq
  <2> QED BY <2>1, <2>5, <2>6, <2>7
<1>16. Lacks(line, star) /\ Lacks(line, "_")
  BY <1>0, <1>3 DEF Unmarked
<1>17. Lacks(k, star) /\ Lacks(Gap, star) /\ Lacks(v, star)
  <2>1. k \o Gap \in Text
    BY <1>4, Join
  <2>2. Lacks(k \o Gap, star) /\ Lacks(v, star)
    BY <1>3, <1>16, <2>1, JoinedEnds
  <2> QED BY <1>4, <2>2, JoinedEnds
<1>18. Without(rest, star) = line
  <2>1. Without(k, star) = k /\ Without(Gap, star) = Gap /\ Without(v, star) = v
    BY <1>4, <1>17, WithoutLacking
  <2>2. /\ WithoutOf(Gap, v, star) /\ WithoutOf(Stars, gv, star) /\ WithoutOf(k, sgv, star)
        /\ WithoutOf(Stars, ksgv, star)
    BY <1>4, <1>5, WithoutJoined
  <2>3. Without(gv, star) = gv
    BY <1>3, <2>1, <2>2 DEF WithoutOf
  <2>4. Without(sgv, star) = <<>> \o gv
    BY <1>3, <1>15, <2>2, <2>3 DEF WithoutOf
  <2>5. <<>> \o gv = gv /\ <<>> \o line = line
    BY <1>5, Join
  <2>6. Without(ksgv, star) = line
    BY <1>3, <1>22, <2>1, <2>2, <2>4, <2>5 DEF WithoutOf
  <2>7. Without(rest, star) = <<>> \o line
    BY <1>3, <1>15, <2>2, <2>6 DEF WithoutOf
  <2> QED BY <2>5, <2>7
<1>19. Without(Without(rest, star), "_") = line
  BY <1>5, <1>16, <1>18, WithoutLacking
<1>20. TrimSpace(line) = line
  <2>1. Solid(line)
    BY <1>3 DEF Unmarked
  <2> QED BY <2>1, TrimSpaceIs DEF Solid
<1>21. stripMarkdownNoise(raw) = line
  <2>1. TrimPrefix(TrimPrefix(TrimSpace(raw), Bullet), Star) = rest
    BY <1>11, <1>12, <1>13
  <2> QED BY <1>0, <1>14, <1>19, <1>20, <2>1 DEF stripMarkdownNoise, Bullet, Star
<1> QED BY <1>1, <1>3, <1>21

\* The first place of mark, or 0.
FirstIs(s, mark) == SelectInSeq(s, LAMBDA t : t = mark)

LEMMA FirstIsType == \A s \in Text : \A mark : FirstIs(s, mark) \in 0 .. Len(s)
<1> SUFFICES ASSUME NEW s \in Text, NEW mark PROVE FirstIs(s, mark) \in 0 .. Len(s)
  OBVIOUS
<1> DEFINE I == {j \in 1 .. Len(s) : s[j] = mark}
<1>1. FirstIs(s, mark) = IF I # {} THEN Min(I) ELSE 0
  BY DEF FirstIs, SelectInSeq
<1>2. Len(s) \in Nat
  BY DEF Text
<1>3. I # {} => Min(I) \in I
  <2>1. I \in SUBSET Nat
    OBVIOUS
  <2> HIDE DEF I
  <2> QED BY <2>1, MinOfNats
<1> QED BY <1>1, <1>2, <1>3

LEMMA FirstIsAt ==
  ASSUME NEW s \in Text, NEW mark, NEW i \in 1 .. Len(s), s[i] = mark,
         \A j \in 1 .. i - 1 : s[j] # mark
  PROVE  FirstIs(s, mark) = i
<1> DEFINE I == {j \in 1 .. Len(s) : s[j] = mark}
<1>1. FirstIs(s, mark) = IF I # {} THEN Min(I) ELSE 0
  BY DEF FirstIs, SelectInSeq
<1>2. Len(s) \in Nat
  BY DEF Text
<1>3. i \in I /\ I \in SUBSET Nat
  OBVIOUS
<1>4. \A j \in I : i <= j
  <2> SUFFICES ASSUME NEW j \in I, ~ (i <= j) PROVE FALSE
    OBVIOUS
  <2>1. j \in 1 .. i - 1
    BY <1>2
  <2> QED BY <2>1
<1> HIDE DEF I
<1>5. Min(I) \in I /\ \A j \in I : Min(I) <= j
  BY <1>3, MinOfNats
<1>6. Min(I) \in Nat /\ i \in Nat /\ Min(I) <= i /\ i <= Min(I)
  BY <1>3, <1>4, <1>5
<1>7. Min(I) = i
  BY <1>6
<1> QED BY <1>1, <1>3, <1>7

LEMMA PartsOfText ==
  ASSUME NEW s \in Text, NEW i \in 0 .. Len(s)
  PROVE  SubSeq(s, 1, i - 1) \in Text /\ SubSeq(s, i + 1, Len(s)) \in Text
<1>1. Len(s) \in Nat
  BY DEF Text
<1>2. PICK a \in Int, b \in Int, n \in Int : a = i - 1 /\ b = i + 1 /\ n = Len(s)
  BY <1>1
<1>3. \A j \in 1 .. a : s[j] \in Word
  <2>1. \A j \in 1 .. a : j \in 1 .. Len(s)
    BY <1>1, <1>2
  <2> QED BY <2>1 DEF Text
<1>4. \A j \in b .. n : s[j] \in Word
  <2>1. \A j \in b .. n : j \in 1 .. Len(s)
    BY <1>1, <1>2
  <2> QED BY <2>1 DEF Text
<1>5. SubSeq(s, 1, a) \in Text
  BY <1>3, SubSeqProperties DEF Text
<1>6. SubSeq(s, b, n) \in Text
  BY <1>4, SubSeqProperties DEF Text
<1> QED BY <1>2, <1>5, <1>6

LEMMA TextFieldType == \A r \in Records, raw \in Text : TextField(r, raw) \in Records
<1> SUFFICES ASSUME NEW r \in Records, NEW raw \in Text PROVE TextField(r, raw) \in Records
  OBVIOUS
<1>1. PICK line \in Text : line = stripMarkdownNoise(raw)
  BY StripType
<1>2. PICK colon \in 0 .. Len(line) : colon = FirstIs(line, ":")
  BY FirstIsType
<1>3. SubSeq(line, 1, colon - 1) \in Text /\ SubSeq(line, colon + 1, Len(line)) \in Text
  BY PartsOfText
<1>4. PICK key \in Text : key = normalizeKey(SubSeq(line, 1, colon - 1))
  BY <1>3, NormalizeKeyIs
<1>5. PICK value \in Text : value = TrimSpace(SubSeq(line, colon + 1, Len(line)))
  BY <1>3, TrimSpaceIs
<1>6. TextField(r, raw) = r \/ TextField(r, raw) = Put(r, key, value)
  BY <1>1, <1>2, <1>4, <1>5 DEF TextField, FirstIs
<1> QED BY <1>6, PutType

\* Where a line is cut.
CutAt(line, k, x, w) ==
  /\ line \in Text /\ FirstIs(line, x) = Len(k) + 1
  /\ SubSeq(line, 1, Len(k)) = k
  /\ w # <<>> => SubSeq(line, Len(k) + 2, Len(line)) = w

LEMMA Cut == \A k, w \in Text, x \in Word : Lacks(k, x) => CutAt((k \o <<x>>) \o w, k, x, w)
<1> SUFFICES ASSUME NEW k \in Text, NEW w \in Text, NEW x \in Word, Lacks(k, x)
             PROVE  CutAt((k \o <<x>>) \o w, k, x, w)
  OBVIOUS
<1>0. PICK line : line = (k \o <<x>>) \o w
  OBVIOUS
<1>1. PICK kx : kx = k \o <<x>>
  OBVIOUS
<1>2. Len(k) \in Nat /\ Len(w) \in Nat
  BY DEF Text
<1>3. kx = Append(k, x)
  BY <1>1, JoinOne DEF Text
<1>4. kx \in Text /\ Len(kx) = Len(k) + 1 /\ kx[Len(k) + 1] = x /\ \A i \in 1 .. Len(k) : kx[i] = k[i]
  BY <1>3, AppendProperties DEF Text
<1>5. line \in Text /\ Len(line) = Len(kx) + Len(w)
      /\ \A i \in 1 .. Len(kx) + Len(w) : line[i] = IF i <= Len(kx) THEN kx[i] ELSE w[i - Len(kx)]
  BY <1>0, <1>1, <1>4, ConcatProperties DEF Text
<1>6. \A i \in 1 .. Len(k) : line[i] = k[i]
  <2> SUFFICES ASSUME NEW i \in 1 .. Len(k) PROVE line[i] = k[i]
    OBVIOUS
  <2>1. i \in 1 .. Len(kx) + Len(w) /\ i <= Len(kx)
    BY <1>2, <1>4
  <2> QED BY <1>4, <1>5, <2>1
<1>7. line[Len(k) + 1] = x /\ Len(k) + 1 \in 1 .. Len(line)
  <2>1. Len(k) + 1 \in 1 .. Len(kx) + Len(w) /\ Len(k) + 1 <= Len(kx)
    BY <1>2, <1>4
  <2> QED BY <1>4, <1>5, <2>1
<1>8. FirstIs(line, x) = Len(k) + 1
  <2>1. PICK i \in 1 .. Len(line) : i = Len(k) + 1
    BY <1>7
  <2>2. \A j \in 1 .. i - 1 : line[j] # x
    <3>1. \A j \in 1 .. i - 1 : j \in 1 .. Len(k)
      BY <1>2, <2>1
    <3> QED BY <1>6, <3>1 DEF Lacks
  <2>3. line[i] = x
    BY <1>7, <2>1
  <2> QED BY <1>5, <2>1, <2>2, <2>3, FirstIsAt
<1>9. SubSeq(line, 1, Len(k)) = k
  <2>1. PICK a : a = SubSeq(line, 1, Len(k))
    OBVIOUS
  <2>2. \A i \in 1 .. Len(k) : line[i] \in Word
    <3>1. \A i \in 1 .. Len(k) : k[i] \in Word
      BY DEF Text
    <3> QED BY <1>6, <3>1
  <2>3. PICK n \in Int : n = Len(k)
    BY <1>2
  <2>4. /\ SubSeq(line, 1, n) \in Seq(Word)
        /\ Len(SubSeq(line, 1, n)) = IF 1 <= n THEN n - 1 + 1 ELSE 0
        /\ \A i \in 1 .. n - 1 + 1 : SubSeq(line, 1, n)[i] = line[1 + i - 1]
    BY <2>2, <2>3, SubSeqProperties
  <2>5. a \in Seq(Word) /\ Len(a) = Len(k)
    BY <1>2, <2>1, <2>3, <2>4
  <2>6. \A i \in 1 .. Len(a) : a[i] = k[i]
    <3> SUFFICES ASSUME NEW i \in 1 .. Len(k) PROVE a[i] = k[i]
      BY <2>5
    <3>1. i \in 1 .. n - 1 + 1 /\ 1 + i - 1 = i
      BY <1>2, <2>3
    <3> QED BY <1>6, <2>1, <2>3, <2>4, <3>1
  <2>7. a = k
    BY <2>5, <2>6, SeqEqual DEF Text
  <2> QED BY <2>1, <2>7
<1>10. ASSUME w # <<>> PROVE SubSeq(line, Len(k) + 2, Len(line)) = w
  <2>0. Len(w) # 0
    BY <1>10, EmptySeq DEF Text
  <2>1. PICK m \in Len(kx) + 1 .. Len(kx) + Len(w), n \in Len(kx) + 1 .. Len(kx) + Len(w) :
          /\ m = Len(k) + 2 /\ n = Len(line) /\ m - Len(kx) = 1 /\ n - Len(kx) = Len(w)
    BY <1>2, <1>4, <1>5, <2>0
  <2>2. SubSeq(kx \o w, m, n) = SubSeq(w, m - Len(kx), n - Len(kx))
    BY <1>4, SubSeqOfConcat2 DEF Text
  <2>3. SubSeq(w, 1, Len(w)) = w
    BY SubSeqFull DEF Text
  <2> QED BY <1>0, <1>1, <2>1, <2>2, <2>3
<1> QED BY <1>0, <1>5, <1>8, <1>9, <1>10 DEF CutAt

\* A line is read as the field it states.
\* The line raw, bare of its marks, is a key, a colon and a value.
Colon(raw, k, v, sep) ==
  /\ Solid(k) /\ Solid(v) /\ Lacks(k, ":") /\ sep \in {Sign, Gap}
  /\ stripMarkdownNoise(raw) = (k \o sep) \o v

LEMMA TextFieldIs ==
  ASSUME NEW r, NEW raw \in Text, NEW k \in Text, NEW v \in Text, NEW sep,
         Colon(raw, k, v, sep)
  PROVE  TextField(r, raw) = Put(r, normalizeKey(k), v)
<1> /\ Solid(k) /\ Solid(v) /\ Lacks(k, ":") /\ (sep = Sign \/ sep = Gap)
    /\ stripMarkdownNoise(raw) = (k \o sep) \o v
  BY DEF Colon
<1>1. PICK x \in Word : x = ":"
  BY MarksAreWords
<1>2. PICK w \in Text : (k \o sep) \o v = (k \o <<x>>) \o w /\ w # <<>> /\ TrimSpace(w) = v
  <2>1. CASE sep = Sign
    <3>1. TrimSpace(v) = v /\ v # <<>>
      BY TrimSpaceIs DEF Solid
    <3> QED BY <1>1, <2>1, <3>1 DEF Sign
  <2>2. CASE sep = Gap
    <3>1. PICK b : b = <<" ">>
      OBVIOUS
    <3>2. b \in Text /\ Gap = Sign \o b /\ Sign \in Text
      BY <3>1, MarksAreWords, ShortTexts, SignsAreText
    <3>3. AssocOf(k, Sign, b) /\ k \o Sign \in Text
      BY <3>2, Assoc, Join
    <3>4. AssocOf(k \o Sign, b, v)
      BY <3>2, <3>3, Assoc
    <3>5. (k \o Gap) \o v = (k \o Sign) \o (b \o v)
      BY <3>2, <3>3, <3>4 DEF AssocOf
    <3>6. b \o v \in Text /\ b \o v # <<>>
      BY <3>2, JoinedEnds DEF Solid
    <3>7. TrimSpace(b \o v) = v
      BY <3>1, TrimSpaceIs DEF Solid
    <3> QED BY <1>1, <2>2, <3>5, <3>6, <3>7 DEF Sign
  <2> QED BY <2>1, <2>2
<1>3. PICK line : line = (k \o <<x>>) \o w
  OBVIOUS
<1>4. line = stripMarkdownNoise(raw)
  BY <1>2, <1>3
<1>5. /\ line \in Text /\ FirstIs(line, x) = Len(k) + 1 /\ SubSeq(line, 1, Len(k)) = k
      /\ SubSeq(line, Len(k) + 2, Len(line)) = w
  <2>1. Lacks(k, x)
    BY <1>1
  <2>2. CutAt(line, k, x, w)
    BY <1>3, <2>1, Cut
  <2> QED BY <1>2, <2>2 DEF CutAt
<1>6. PICK colon : colon = SelectInSeq(line, LAMBDA t : t = ":")
  OBVIOUS
<1>7. colon = Len(k) + 1
  BY <1>1, <1>5, <1>6 DEF FirstIs
<1>8. colon - 1 = Len(k) /\ colon + 1 = Len(k) + 2 /\ colon # 0
  <2>1. Len(k) \in Nat
    BY DEF Text
  <2> QED BY <1>7, <2>1
<1>9. normalizeKey(SubSeq(line, 1, colon - 1)) = normalizeKey(k) /\ normalizeKey(k) # <<>>
  BY <1>5, <1>8, NormalizeKeyIs
<1>10. TrimSpace(SubSeq(line, colon + 1, Len(line))) = v /\ v # <<>>
  BY <1>2, <1>5, <1>8 DEF Solid
<1> QED BY <1>4, <1>6, <1>8, <1>9, <1>10 DEF TextField

-----------------------------------------------------------------------------
(* Lines *)

ReadLines(lines) == FoldLeft(TextField, EmptyRecord, lines)
FieldStep(lines) == [i \in 1 .. Len(lines) |-> [r \in Records |-> TextField(r, lines[i])]]

LEMMA ReadLinesStages ==
  ASSUME NEW lines \in Seq(Text)
  PROVE  \E f : /\ StagesOf(f, Len(lines), Records, EmptyRecord, FieldStep(lines))
                /\ ReadLines(lines) = f[Len(lines)]
<1> DEFINE n == Len(lines)
           G == FieldStep(lines)
           s == lines
           Op(x, e) == TextField(x, e)
           E(h) == [S \in SUBSET (DOMAIN s) |->
                      IF S = {} THEN EmptyRecord ELSE Op(h[S \ {Max(S)}], s[Max(S)])]
<1>1. n \in Nat /\ DOMAIN s = 1 .. n /\ EmptyRecord \in Records
  BY PutType
<1>2. G \in [1 .. n -> [Records -> Records]] /\ \A i \in 1 .. n, x \in Records : G[i][x] = Op(x, s[i])
  <2>1. \A i \in 1 .. n, x \in Records : Op(x, s[i]) \in Records
    <3>1. \A i \in 1 .. n : s[i] \in Text
      OBVIOUS
    <3> QED BY <3>1, TextFieldType
  <2> QED BY <2>1 DEF FieldStep
<1>3. PICK h : IterOf(h, n, Records, EmptyRecord, G)
  <2> HIDE DEF G, n, s, Op
  <2> QED BY <1>1, <1>2, IterExists
<1>4. h = E(h)
  <2>1. ASSUME NEW S \in SUBSET (1 .. n), S # {} PROVE h[S] = Op(h[S \ {Max(S)}], s[Max(S)])
    <3> HIDE DEF Op, s, G
    <3>1. Max(S) \in 1 .. n
      BY <1>1, <2>1, MaxOf
    <3>2. h[S \ {Max(S)}] \in Records /\ h[S] = G[Max(S)][h[S \ {Max(S)}]]
      BY <1>3, <2>1 DEF IterOf
    <3> QED BY <1>2, <3>1, <3>2
  <2>2. h \in [SUBSET (1 .. n) -> Records] /\ h[{}] = EmptyRecord
    BY <1>3 DEF IterOf
  <2> HIDE DEF Op, s, n, G
  <2> QED BY <1>1, <2>1, <2>2
<1>5. PICK iter : iter = E(iter) /\ ReadLines(lines) = iter[DOMAIN s]
  <2>1. ReadLines(lines) = (CHOOSE iter : iter = E(iter))[DOMAIN s]
    BY DEF ReadLines, FoldLeft, MapThenFoldSet
  <2> HIDE DEF E
  <2> QED BY <1>4, <2>1
<1>6. iter[{}] = EmptyRecord
  BY <1>5
<1>7. ASSUME NEW S \in SUBSET (1 .. n), S # {}, iter[S \ {Max(S)}] = h[S \ {Max(S)}]
      PROVE  iter[S] = h[S]
  <2> HIDE DEF Op, s, n, G
  <2>1. iter[S] = Op(iter[S \ {Max(S)}], s[Max(S)])
    BY <1>1, <1>5, <1>7
  <2>2. h[S] = Op(h[S \ {Max(S)}], s[Max(S)])
    BY <1>1, <1>4, <1>7
  <2> QED BY <2>1, <2>2, <1>7
<1> HIDE DEF Op, s, n, G, E
<1>8. \E f : StagesOf(f, n, Records, EmptyRecord, G) /\ iter[1 .. n] = f[n]
  <2>1. Follows(iter, h, n)
    BY <1>7 DEF Follows
  <2> QED BY <1>1, <1>2, <1>3, <1>6, <2>1, FoldIsLastStage
<1> QED BY <1>1, <1>5, <1>8 DEF n, G

LEMMA ReadLinesNext ==
  /\ ReadLines(<<>>) = EmptyRecord
  /\ \A s \in Seq(Text) : ReadLines(s) \in Records
  /\ \A s \in Seq(Text), e \in Text : ReadLines(Append(s, e)) = TextField(ReadLines(s), e)
<1>1. ReadLines(<<>>) = EmptyRecord
  <2>1. PICK s \in Seq(Text) : s = <<>> /\ Len(s) = 0
    BY EmptySeq
  <2>2. PICK f : StagesOf(f, Len(s), Records, EmptyRecord, FieldStep(s)) /\ ReadLines(s) = f[Len(s)]
    BY ReadLinesStages
  <2> QED BY <2>1, <2>2 DEF StagesOf
<1>2. ASSUME NEW s \in Seq(Text) PROVE ReadLines(s) \in Records
  <2>1. PICK f : StagesOf(f, Len(s), Records, EmptyRecord, FieldStep(s)) /\ ReadLines(s) = f[Len(s)]
    BY ReadLinesStages
  <2>2. Len(s) \in 0 .. Len(s)
    OBVIOUS
  <2> QED BY <2>1, <2>2 DEF StagesOf
<1>3. ASSUME NEW s \in Seq(Text), NEW e \in Text
      PROVE  ReadLines(Append(s, e)) = TextField(ReadLines(s), e)
  <2>1. PICK n \in Nat : n = Len(s)
    OBVIOUS
  <2>9. PICK t : t = Append(s, e)
    OBVIOUS
  <2>2. /\ t \in Seq(Text) /\ Len(t) = n + 1 /\ t[n + 1] = e
        /\ \A i \in 1 .. n : t[i] = s[i]
    BY <2>1, <2>9, AppendProperties
  <2>3. PICK f : StagesOf(f, n, Records, EmptyRecord, FieldStep(s)) /\ ReadLines(s) = f[n]
    BY <2>1, ReadLinesStages
  <2>4. PICK g : StagesOf(g, n + 1, Records, EmptyRecord, FieldStep(t)) /\ ReadLines(t) = g[n + 1]
    BY <2>2, ReadLinesStages
  <2>5. SameSteps(FieldStep(s), FieldStep(t), n)
    <3>1. ASSUME NEW i \in 1 .. n PROVE FieldStep(s)[i] = FieldStep(t)[i]
      <4>1. i \in 1 .. Len(s) /\ i \in 1 .. Len(t) /\ t[i] = s[i]
        BY <2>1, <2>2
      <4> QED BY <4>1 DEF FieldStep
    <3> QED BY <3>1 DEF SameSteps
  <2>6. f[n] = g[n] /\ f[n] \in Records
    <3>1. n + 1 \in Nat /\ n <= n /\ n <= n + 1
      OBVIOUS
    <3> QED BY <2>3, <2>4, <2>5, <3>1, StagesAgree
  <2>7. g[n + 1] = FieldStep(t)[n + 1][g[n]]
    <3>1. n + 1 \in 1 .. n + 1 /\ (n + 1) - 1 = n
      OBVIOUS
    <3> QED BY <2>4, <3>1 DEF StagesOf
  <2>8. FieldStep(t)[n + 1][g[n]] = TextField(g[n], t[n + 1])
    <3>1. n + 1 \in 1 .. Len(t) /\ g[n] \in Records
      BY <2>2, <2>6
    <3> QED BY <3>1 DEF FieldStep
  <2> QED BY <2>2, <2>3, <2>4, <2>6, <2>7, <2>8, <2>9
<1> QED BY <1>1, <1>2, <1>3

Pages == Seq(Text) \ {<<>>}
FirstPage == <<<<>>>>
ScanStep(text) == [i \in 1 .. Len(text) |-> [ls \in Pages |-> Scan(ls, text[i])]]

LEMMA ScanType ==
  /\ FirstPage \in Pages
  /\ \A ls \in Pages, t \in Word : Scan(ls, t) \in Pages
<1>1. FirstPage \in Pages
  <2>1. <<>> \in Text
    BY Join
  <2> QED BY <2>1 DEF Pages, FirstPage
<1>2. ASSUME NEW ls \in Pages, NEW t \in Word PROVE Scan(ls, t) \in Pages
  <2>1. ls \in Seq(Text) /\ ls # <<>> /\ Len(ls) \in Nat /\ Len(ls) # 0 /\ <<>> \in Text
    BY EmptySeq, Join DEF Pages
  <2>2. Append(ls, <<>>) \in Pages
    BY <2>1, AppendProperties DEF Pages
  <2>3. PICK n \in 1 .. Len(ls), e \in Text : n = Len(ls) /\ e = Append(ls[n], t)
    <3>1. Len(ls) \in 1 .. Len(ls)
      BY <2>1
    <3>2. ls[Len(ls)] \in Text
      BY <2>1, <3>1
    <3>3. Append(ls[Len(ls)], t) \in Text
      BY <3>2, AppendProperties DEF Text
    <3> QED BY <3>1, <3>3
  <2>4. [ls EXCEPT ![n] = e] \in Seq(Text) /\ Len([ls EXCEPT ![n] = e]) = Len(ls)
    BY <2>1, ExceptSeq
  <2>5. [ls EXCEPT ![n] = e] # <<>>
    BY <2>1, <2>4, EmptySeq
  <2>6. Scan(ls, t) = Append(ls, <<>>) \/ Scan(ls, t) = [ls EXCEPT ![n] = e]
    BY <2>3 DEF Scan
  <2> QED BY <2>2, <2>4, <2>5, <2>6 DEF Pages
<1> QED BY <1>1, <1>2

LEMMA LinesStages ==
  ASSUME NEW text \in Seq(Word)
  PROVE  \E f : /\ StagesOf(f, Len(text), Pages, FirstPage, ScanStep(text))
                /\ Lines(text) = f[Len(text)]
<1> DEFINE n == Len(text)
           G == ScanStep(text)
           s == text
           Op(x, e) == Scan(x, e)
           E(h) == [S \in SUBSET (DOMAIN s) |->
                      IF S = {} THEN FirstPage ELSE Op(h[S \ {Max(S)}], s[Max(S)])]
<1>1. n \in Nat /\ DOMAIN s = 1 .. n /\ FirstPage \in Pages
  BY ScanType
<1>2. G \in [1 .. n -> [Pages -> Pages]] /\ \A i \in 1 .. n, x \in Pages : G[i][x] = Op(x, s[i])
  <2>1. \A i \in 1 .. n, x \in Pages : Op(x, s[i]) \in Pages
    <3>1. \A i \in 1 .. n : s[i] \in Word
      OBVIOUS
    <3> QED BY <3>1, ScanType
  <2> QED BY <2>1 DEF ScanStep
<1>3. PICK h : IterOf(h, n, Pages, FirstPage, G)
  <2> HIDE DEF G, n, s, Op
  <2> QED BY <1>1, <1>2, IterExists
<1>4. h = E(h)
  <2>1. ASSUME NEW S \in SUBSET (1 .. n), S # {} PROVE h[S] = Op(h[S \ {Max(S)}], s[Max(S)])
    <3> HIDE DEF Op, s, G
    <3>1. Max(S) \in 1 .. n
      BY <1>1, <2>1, MaxOf
    <3>2. h[S \ {Max(S)}] \in Pages /\ h[S] = G[Max(S)][h[S \ {Max(S)}]]
      BY <1>3, <2>1 DEF IterOf
    <3> QED BY <1>2, <3>1, <3>2
  <2>2. h \in [SUBSET (1 .. n) -> Pages] /\ h[{}] = FirstPage
    BY <1>3 DEF IterOf
  <2> HIDE DEF Op, s, n, G
  <2> QED BY <1>1, <2>1, <2>2
<1>5. PICK iter : iter = E(iter) /\ Lines(text) = iter[DOMAIN s]
  <2>1. Lines(text) = (CHOOSE iter : iter = E(iter))[DOMAIN s]
    BY DEF Lines, FirstPage, FoldLeft, MapThenFoldSet
  <2> HIDE DEF E
  <2> QED BY <1>4, <2>1
<1>6. iter[{}] = FirstPage
  BY <1>5
<1>7. ASSUME NEW S \in SUBSET (1 .. n), S # {}, iter[S \ {Max(S)}] = h[S \ {Max(S)}]
      PROVE  iter[S] = h[S]
  <2> HIDE DEF Op, s, n, G
  <2>1. iter[S] = Op(iter[S \ {Max(S)}], s[Max(S)])
    BY <1>1, <1>5, <1>7
  <2>2. h[S] = Op(h[S \ {Max(S)}], s[Max(S)])
    BY <1>1, <1>4, <1>7
  <2> QED BY <2>1, <2>2, <1>7
<1> HIDE DEF Op, s, n, G, E
<1>8. \E f : StagesOf(f, n, Pages, FirstPage, G) /\ iter[1 .. n] = f[n]
  <2>1. Follows(iter, h, n)
    BY <1>7 DEF Follows
  <2> QED BY <1>1, <1>2, <1>3, <1>6, <2>1, FoldIsLastStage
<1> QED BY <1>1, <1>5, <1>8 DEF n, G

LEMMA LinesNext ==
  /\ Lines(<<>>) = FirstPage
  /\ \A s \in Seq(Word) : Lines(s) \in Pages
  /\ \A s \in Seq(Word), e \in Word : Lines(Append(s, e)) = Scan(Lines(s), e)
<1>1. Lines(<<>>) = FirstPage
  <2>1. PICK s \in Seq(Word) : s = <<>> /\ Len(s) = 0
    BY EmptySeq
  <2>2. PICK f : StagesOf(f, Len(s), Pages, FirstPage, ScanStep(s)) /\ Lines(s) = f[Len(s)]
    BY LinesStages
  <2> QED BY <2>1, <2>2 DEF StagesOf
<1>2. ASSUME NEW s \in Seq(Word) PROVE Lines(s) \in Pages
  <2>1. PICK f : StagesOf(f, Len(s), Pages, FirstPage, ScanStep(s)) /\ Lines(s) = f[Len(s)]
    BY LinesStages
  <2>2. Len(s) \in 0 .. Len(s)
    OBVIOUS
  <2> QED BY <2>1, <2>2 DEF StagesOf
<1>3. ASSUME NEW s \in Seq(Word), NEW e \in Word
      PROVE  Lines(Append(s, e)) = Scan(Lines(s), e)
  <2>1. PICK n \in Nat : n = Len(s)
    OBVIOUS
  <2>9. PICK t : t = Append(s, e)
    OBVIOUS
  <2>2. /\ t \in Seq(Word) /\ Len(t) = n + 1 /\ t[n + 1] = e
        /\ \A i \in 1 .. n : t[i] = s[i]
    BY <2>1, <2>9, AppendProperties
  <2>3. PICK f : StagesOf(f, n, Pages, FirstPage, ScanStep(s)) /\ Lines(s) = f[n]
    BY <2>1, LinesStages
  <2>4. PICK g : StagesOf(g, n + 1, Pages, FirstPage, ScanStep(t)) /\ Lines(t) = g[n + 1]
    BY <2>2, LinesStages
  <2>5. SameSteps(ScanStep(s), ScanStep(t), n)
    <3>1. ASSUME NEW i \in 1 .. n PROVE ScanStep(s)[i] = ScanStep(t)[i]
      <4>1. i \in 1 .. Len(s) /\ i \in 1 .. Len(t) /\ t[i] = s[i]
        BY <2>1, <2>2
      <4> QED BY <4>1 DEF ScanStep
    <3> QED BY <3>1 DEF SameSteps
  <2>6. f[n] = g[n] /\ f[n] \in Pages
    <3>1. n + 1 \in Nat /\ n <= n /\ n <= n + 1
      OBVIOUS
    <3> QED BY <2>3, <2>4, <2>5, <3>1, StagesAgree
  <2>7. g[n + 1] = ScanStep(t)[n + 1][g[n]]
    <3>1. n + 1 \in 1 .. n + 1 /\ (n + 1) - 1 = n
      OBVIOUS
    <3> QED BY <2>4, <3>1 DEF StagesOf
  <2>8. ScanStep(t)[n + 1][g[n]] = Scan(g[n], t[n + 1])
    <3>1. n + 1 \in 1 .. Len(t) /\ g[n] \in Pages
      BY <2>2, <2>6
    <3> QED BY <3>1 DEF ScanStep
  <2> QED BY <2>2, <2>3, <2>4, <2>6, <2>7, <2>8, <2>9
<1> QED BY <1>1, <1>2, <1>3

LEMMA BlankLine == \A r : TextField(r, <<>>) = r
<1> SUFFICES ASSUME NEW r PROVE TextField(r, <<>>) = r
  OBVIOUS
<1>0. PICK s \in Text : s = <<>> /\ Len(s) = 0 /\ \A t \in Text : Len(t) = 0 => t = <<>>
  BY EmptySeq DEF Text
<1>1. ASSUME NEW mark PROVE TrimLeft(s, mark) = s
  <2>1. PICK i \in 0 .. Len(s) : i = FirstNot(s, mark)
    BY FirstOther DEF FirstAt
  <2>2. i = 0
    BY <1>0, <2>1
  <2> QED BY <1>0, <2>1, <2>2 DEF TrimLeft, FirstNot
<1>2. ASSUME NEW mark PROVE TrimRight(s, mark) = s
  <2>1. PICK i \in 0 .. Len(s) : i = LastNot(s, mark)
    BY LastOther
  <2>2. i = 0
    BY <1>0
  <2>3. TrimRight(s, mark) = SubSeq(s, 1, i)
    BY <2>1 DEF TrimRight, LastNot
  <2>4. SubSeq(s, 1, 0) = <<>>
    BY SubSeqEmpty
  <2> QED BY <1>0, <2>2, <2>3, <2>4
<1>3. TrimSpace(s) = s
  BY <1>1, <1>2 DEF TrimSpace
<1>4. TrimPrefix(s, Bullet) = s /\ TrimPrefix(s, Star) = s
  <2>1. Len(Bullet) = 2 /\ Len(Star) = 2
    BY DEF Bullet, Star
  <2>2. ~ IsPrefix(Bullet, s) /\ ~ IsPrefix(Star, s)
    BY <1>0, <2>1 DEF IsPrefix
  <2> QED BY <2>2 DEF TrimPrefix
<1>5. Without(Without(s, "*"), "_") = s
  BY <1>0, WithoutNext
<1>6. stripMarkdownNoise(s) = s
  <2>1. TrimPrefix(TrimPrefix(TrimSpace(s), Bullet), Star) = s
    BY <1>3, <1>4
  <2> QED BY <1>1, <1>3, <1>5, <2>1 DEF stripMarkdownNoise, Bullet, Star
<1>7. PICK i \in 0 .. Len(s) : i = FirstIs(s, ":")
  BY FirstIsType
<1>8. i = 0
  BY <1>0, <1>7
<1>9. TextField(r, s) = r
  BY <1>6, <1>7, <1>8 DEF TextField, FirstIs
<1> QED BY <1>0, <1>9

\* A text whose last line is still empty, and the record read from a text.
Ends(t) == t \in Text /\ \E F \in Seq(Text) : Lines(t) = Append(F, <<>>)
Read(t) == ReadLines(Lines(t))

LEMMA LineGrows ==
  ASSUME NEW t \in Text, NEW F \in Seq(Text), Lines(t) = Append(F, <<>>)
  PROVE  \A c \in Text : Lacks(c, "\n") => Lines(t \o c) = Append(F, c)
<1> DEFINE T == {c \in Text : Lacks(c, "\n") => Lines(t \o c) = Append(F, c)}
<1>1. <<>> \in T
  BY Join
<1>2. ASSUME NEW c \in Text, NEW x \in Word, c \in T PROVE Append(c, x) \in T
  <2>1. PICK d : d = Append(c, x)
    OBVIOUS
  <2>2. d \in Text /\ Len(d) = Len(c) + 1 /\ d[Len(c) + 1] = x /\ Len(c) \in Nat
        /\ \A i \in 1 .. Len(c) : d[i] = c[i]
    BY <2>1, AppendProperties DEF Text
  <2>3. SUFFICES ASSUME Lacks(d, "\n") PROVE Lines(t \o d) = Append(F, d)
    BY <2>1, <2>2
  <2>4. Lacks(c, "\n") /\ x # "\n"
    <3>1. \A i \in 1 .. Len(c) + 1 : d[i] # "\n"
      BY <2>2, <2>3 DEF Lacks
    <3>2. \A i \in 1 .. Len(c) : i \in 1 .. Len(c) + 1
      BY <2>2
    <3>3. Len(c) + 1 \in 1 .. Len(c) + 1
      BY <2>2
    <3> QED BY <2>2, <3>1, <3>2, <3>3 DEF Lacks
  <2>5. Lines(t \o c) = Append(F, c)
    BY <1>2, <2>4
  <2>6. t \o d = Append(t \o c, x) /\ t \o c \in Text
    <3>1. t \in Seq(Word) /\ c \in Seq(Word)
      BY <2>1 DEF Text
    <3>2. t \o Append(c, x) = Append(t \o c, x)
      BY <2>1, <3>1, JoinOne
    <3>3. t \o c \in Text
      BY <2>1, Join
    <3> QED BY <2>1, <3>2, <3>3
  <2>7. Lines(t \o d) = Scan(Append(F, c), x)
    BY <2>5, <2>6, LinesNext DEF Text
  <2>8. PICK ls, n : ls = Append(F, c) /\ n = Len(F) + 1
    OBVIOUS
  <2>9. /\ ls \in Seq(Text) /\ Len(ls) = n /\ ls[n] = c /\ n \in 1 .. Len(ls)
        /\ \A i \in 1 .. Len(F) : ls[i] = F[i]
    BY <2>8, AppendProperties
  <2>10. Scan(ls, x) = [ls EXCEPT ![n] = d]
    BY <2>1, <2>4, <2>9 DEF Scan
  <2>11. PICK ms : ms = Append(F, d)
    OBVIOUS
  <2>12. /\ ms \in Seq(Text) /\ Len(ms) = n /\ ms[n] = d
         /\ \A i \in 1 .. Len(F) : ms[i] = F[i]
    BY <2>2, <2>8, <2>11, AppendProperties
  <2>13. PICK ns : ns = [ls EXCEPT ![n] = d]
    OBVIOUS
  <2>14. /\ ns \in Seq(Text) /\ Len(ns) = Len(ls)
         /\ \A j \in 1 .. Len(ls) : ns[j] = IF j = n THEN d ELSE ls[j]
    BY <2>2, <2>9, <2>13, ExceptSeq
  <2>15. \A i \in 1 .. Len(ns) : ns[i] = ms[i]
    <3> SUFFICES ASSUME NEW i \in 1 .. Len(ns) PROVE ns[i] = ms[i]
      OBVIOUS
    <3>1. i = n \/ i \in 1 .. Len(F)
      BY <2>8, <2>9, <2>14
    <3>2. i \in 1 .. Len(ls)
      BY <2>14
    <3>3. CASE i = n
      BY <2>12, <2>14, <3>2, <3>3
    <3>4. CASE i # n
      BY <2>9, <2>12, <2>14, <3>1, <3>2, <3>4
    <3> QED BY <3>3, <3>4
  <2>16. ns = ms
    BY <2>9, <2>12, <2>14, <2>15, SeqEqual
  <2> QED BY <2>7, <2>8, <2>10, <2>11, <2>13, <2>16
<1> HIDE DEF T
<1>3. Text \subseteq T
  BY <1>1, <1>2, SeqInductive DEF Text
<1> QED BY <1>3 DEF T

\* A part of a text that is read as one line of its own.
ReadsAs(part, raw) ==
  \A t : Ends(t) => Ends(t \o part) /\ Read(t \o part) = TextField(Read(t), raw)

LEMMA LineReads ==
  ASSUME NEW c \in Text, Lacks(c, "\n")
  PROVE  ReadsAs(Append(c, "\n"), c)
<1> SUFFICES ASSUME NEW t, Ends(t)
             PROVE  /\ Ends(t \o Append(c, "\n"))
                    /\ Read(t \o Append(c, "\n")) = TextField(Read(t), c)
  BY DEF ReadsAs
<1>1. PICK F \in Seq(Text) : Lines(t) = Append(F, <<>>)
  BY DEF Ends
<1>2. t \in Text /\ t \o c \in Text /\ <<>> \in Text
  BY Join DEF Ends
<1>3. PICK nl \in Word : nl = "\n"
  BY MarksAreWords
<1>4. Lines(t \o c) = Append(F, c)
  BY <1>1, <1>2, LineGrows
<1>5. t \o Append(c, nl) = Append(t \o c, nl)
  BY <1>2, JoinOne DEF Text
<1>6. Append(F, c) \in Seq(Text)
  BY AppendProperties
<1>7. Lines(t \o Append(c, nl)) = Append(Append(F, c), <<>>)
  <2>1. Lines(Append(t \o c, nl)) = Scan(Lines(t \o c), nl)
    BY <1>2, LinesNext DEF Text
  <2> QED BY <1>3, <1>4, <1>5, <2>1 DEF Scan
<1>8. t \o Append(c, nl) \in Text
  BY <1>2, <1>5, AppendProperties DEF Text
<1>9. Read(t) = ReadLines(F)
  <2>1. ReadLines(Append(F, <<>>)) = TextField(ReadLines(F), <<>>)
    BY <1>2, ReadLinesNext
  <2> QED BY <1>1, <2>1, BlankLine DEF Read
<1>10. Read(t \o Append(c, nl)) = TextField(ReadLines(F), c)
  <2>1. ReadLines(Append(Append(F, c), <<>>)) = TextField(ReadLines(Append(F, c)), <<>>)
    BY <1>2, <1>6, ReadLinesNext
  <2>2. ReadLines(Append(F, c)) = TextField(ReadLines(F), c)
    BY ReadLinesNext
  <2> QED BY <1>7, <2>1, <2>2, BlankLine DEF Read
<1> QED BY <1>3, <1>6, <1>7, <1>8, <1>9, <1>10 DEF Ends

\* Blank lines around it make no difference.
LEMMA BlankReads ==
  /\ ReadsAs(<<>>, <<>>)
  /\ \A part \in Text : \A raw : ReadsAs(part, raw) =>
       /\ ReadsAs(<<"\n">> \o part, raw)
       /\ ReadsAs(part \o <<"\n">>, raw)
<1>1. PICK nl \in Word, b \in Text : nl = "\n" /\ b = <<nl>>
  BY MarksAreWords, ShortTexts
<1>2. ReadsAs(b, <<>>)
  <2>1. PICK e : e = <<>> /\ e \in Text
    BY Join
  <2>2. Lacks(e, "\n")
    <3>1. Len(e) = 0
      BY <2>1, EmptySeq
    <3> QED BY <3>1 DEF Lacks
  <2>3. Append(e, nl) = b
    BY <1>1, <2>1, JoinOne, Join DEF Text
  <2> QED BY <1>1, <2>1, <2>2, <2>3, LineReads
<1>3. ReadsAs(<<>>, <<>>)
  <2>1. \A t : Ends(t) => t \o <<>> = t
    BY Join DEF Ends
  <2> QED BY <2>1, BlankLine DEF ReadsAs
<1>4. ASSUME NEW part \in Text, NEW raw, ReadsAs(part, raw)
      PROVE  ReadsAs(b \o part, raw) /\ ReadsAs(part \o b, raw)
  <2> SUFFICES ASSUME NEW t, Ends(t)
               PROVE  /\ Ends(t \o (b \o part)) /\ Read(t \o (b \o part)) = TextField(Read(t), raw)
                      /\ Ends(t \o (part \o b)) /\ Read(t \o (part \o b)) = TextField(Read(t), raw)
    BY DEF ReadsAs
  <2>1. t \in Text
    BY DEF Ends
  <2>2. AssocOf(t, b, part) /\ AssocOf(t, part, b)
    BY <2>1, Assoc
  <2>3. Ends(t \o b) /\ Read(t \o b) = Read(t)
    BY <1>2, BlankLine DEF ReadsAs
  <2>4. Ends((t \o b) \o part) /\ Read((t \o b) \o part) = TextField(Read(t), raw)
    BY <1>4, <2>3 DEF ReadsAs
  <2>5. Ends(t \o part) /\ Read(t \o part) = TextField(Read(t), raw)
    BY <1>4 DEF ReadsAs
  <2>6. Ends((t \o part) \o b) /\ Read((t \o part) \o b) = TextField(Read(t), raw)
    BY <1>2, <2>5, BlankLine DEF ReadsAs
  <2> QED BY <2>2, <2>4, <2>6 DEF AssocOf
<1> QED BY <1>1, <1>3, <1>4

LEMMA StartReads ==
  /\ Ends(<<>>) /\ Read(<<>>) = EmptyRecord
  /\ Ends(<<"\n">>) /\ Read(<<"\n">>) = EmptyRecord
<1>1. PICK e : e = <<>> /\ e \in Text /\ e \in Seq(Text) /\ e \in Seq(Word)
  BY Join, EmptySeq DEF Text
<1>2. Append(e, e) = FirstPage
  BY <1>1 DEF FirstPage
<1>3. Ends(e)
  BY <1>1, <1>2, LinesNext DEF Ends
<1>4. Read(e) = EmptyRecord
  <2>1. ReadLines(Append(e, e)) = TextField(ReadLines(e), e)
    BY <1>1, ReadLinesNext
  <2>2. ReadLines(e) = EmptyRecord /\ Lines(e) = FirstPage
    BY <1>1, ReadLinesNext, LinesNext
  <2> QED BY <1>1, <1>2, <2>1, <2>2, BlankLine DEF Read
<1>5. PICK b : b = <<"\n">> /\ b \in Text
  BY MarksAreWords, ShortTexts
<1>6. ReadsAs(b \o e, e)
  BY <1>1, <1>5, BlankReads
<1>7. b \o e = b /\ e \o b = b
  BY <1>1, <1>5, Join
<1>8. Ends(b) /\ Read(b) = EmptyRecord
  BY <1>1, <1>3, <1>4, <1>6, <1>7, BlankLine DEF ReadsAs
<1> QED BY <1>1, <1>3, <1>4, <1>5, <1>8

\* FlattenSeq by its values along the way.
Accumulates(f, ss) == f[0] = <<>> /\ \A k \in 1 .. Len(ss) : f[k] = f[k - 1] \o ss[k]

LEMMA Accumulation ==
  ASSUME NEW A, NEW ss \in Seq(Seq(A))
  PROVE  \E f : /\ Accumulates(f, ss) /\ FlattenSeq(ss) = f[Len(ss)]
                /\ \A k \in 0 .. Len(ss) : f[k] \in Seq(A)
<1>1. PICK f : StagesOf(f, Len(ss), Seq(A), <<>>, JoinStep(A, ss)) /\ FlattenSeq(ss) = f[Len(ss)]
  BY FlattenStages
<1>2. f[0] = <<>> /\ \A k \in 0 .. Len(ss) : f[k] \in Seq(A)
  BY <1>1 DEF StagesOf
<1>3. ASSUME NEW k \in 1 .. Len(ss) PROVE f[k] = f[k - 1] \o ss[k]
  <2>1. k - 1 \in 0 .. Len(ss)
    OBVIOUS
  <2>2. f[k] = JoinStep(A, ss)[k][f[k - 1]]
    BY <1>1 DEF StagesOf
  <2> QED BY <1>2, <2>1, <2>2 DEF JoinStep
<1> QED BY <1>1, <1>2, <1>3 DEF Accumulates

LEMMA AccumulationIsFlat ==
  ASSUME NEW A, NEW ss \in Seq(Seq(A)), NEW g, Accumulates(g, ss)
  PROVE  FlattenSeq(ss) = g[Len(ss)]
<1>1. PICK f : Accumulates(f, ss) /\ FlattenSeq(ss) = f[Len(ss)]
  BY Accumulation
<1> DEFINE T == {k \in Nat : k <= Len(ss) => f[k] = g[k]}
<1>2. 0 \in T
  BY <1>1 DEF Accumulates
<1>3. ASSUME NEW k \in Nat, k \in T PROVE k + 1 \in T
  <2>1. SUFFICES ASSUME k + 1 <= Len(ss) PROVE f[k + 1] = g[k + 1]
    OBVIOUS
  <2>2. k + 1 \in 1 .. Len(ss) /\ (k + 1) - 1 = k /\ k <= Len(ss)
    BY <2>1
  <2>3. f[k + 1] = f[(k + 1) - 1] \o ss[k + 1] /\ g[k + 1] = g[(k + 1) - 1] \o ss[k + 1]
    BY <1>1, <2>2 DEF Accumulates
  <2> QED BY <1>3, <2>2, <2>3
<1> HIDE DEF T
<1>4. Len(ss) \in T /\ Len(ss) \in Nat
  BY <1>2, <1>3, Inductive
<1> QED BY <1>1, <1>4 DEF T

\* A text of lines: d parts that are empty, then a part to each line.
ReadAsLines(parts, d, raws) ==
  /\ parts \in Seq(Text) /\ raws \in Seq(Text) /\ d \in Nat /\ Len(parts) = d + Len(raws)
  /\ \A i \in 1 .. d : parts[i] = <<>>
  /\ \A i \in 1 .. Len(raws) : ReadsAs(parts[d + i], raws[i])

LEMMA PartsRead ==
  ASSUME NEW parts, NEW d, NEW raws, ReadAsLines(parts, d, raws),
         NEW t, Ends(t), Read(t) = EmptyRecord
  PROVE  Read(t \o FlattenSeq(parts)) = ReadLines(raws)
<1>1. /\ parts \in Seq(Text) /\ raws \in Seq(Text) /\ d \in Nat /\ Len(parts) = d + Len(raws)
      /\ Len(raws) \in Nat /\ t \in Text
  BY DEF ReadAsLines, Ends
<1>2. PICK f : /\ Accumulates(f, parts) /\ FlattenSeq(parts) = f[Len(parts)]
               /\ \A k \in 0 .. Len(parts) : f[k] \in Text
  BY <1>1, Accumulation DEF Text
<1>3. PICK g : /\ StagesOf(g, Len(raws), Records, EmptyRecord, FieldStep(raws))
               /\ ReadLines(raws) = g[Len(raws)]
  BY <1>1, ReadLinesStages
<1> DEFINE U == {k \in Nat : k <= d => f[k] = <<>>}
           T == {k \in Nat : k <= Len(raws) => Ends(t \o f[d + k]) /\ Read(t \o f[d + k]) = g[k]}
<1>4. 0 \in U
  BY <1>2 DEF Accumulates
<1>5. ASSUME NEW k \in Nat, k \in U PROVE k + 1 \in U
  <2>1. SUFFICES ASSUME k + 1 <= d PROVE f[k + 1] = <<>>
    OBVIOUS
  <2>2. k + 1 \in 1 .. d /\ k + 1 \in 1 .. Len(parts) /\ (k + 1) - 1 = k /\ k <= d
    BY <1>1, <2>1
  <2>3. f[k + 1] = f[(k + 1) - 1] \o parts[k + 1]
    BY <1>2, <2>2 DEF Accumulates
  <2>4. parts[k + 1] = <<>> /\ f[k] = <<>>
    BY <1>5, <2>2 DEF ReadAsLines
  <2>5. <<>> \o <<>> = <<>>
    BY Join
  <2> QED BY <2>2, <2>3, <2>4, <2>5
<1> HIDE DEF U
<1>6. f[d] = <<>>
  <2>1. d \in U
    BY <1>1, <1>4, <1>5, Inductive
  <2> QED BY <1>1, <2>1 DEF U
<1>7. 0 \in T
  <2>1. t \o f[d + 0] = t
    <3>1. d + 0 = d /\ t \in Text
      BY <1>1
    <3>2. t \o <<>> = t
      BY <3>1, Join
    <3> QED BY <1>6, <3>1, <3>2
  <2>2. g[0] = EmptyRecord
    BY <1>3 DEF StagesOf
  <2> QED BY <2>1, <2>2
<1>8. ASSUME NEW k \in Nat, k \in T PROVE k + 1 \in T
  <2>1. SUFFICES ASSUME k + 1 <= Len(raws)
                 PROVE  Ends(t \o f[d + (k + 1)]) /\ Read(t \o f[d + (k + 1)]) = g[k + 1]
    OBVIOUS
  <2>2. /\ d + (k + 1) \in 1 .. Len(parts) /\ (d + (k + 1)) - 1 = d + k /\ k <= Len(raws)
        /\ d + k \in 0 .. Len(parts) /\ k + 1 \in 1 .. Len(raws) /\ (k + 1) - 1 = k
        /\ k \in 0 .. Len(raws)
    BY <1>1, <2>1
  <2>3. f[d + (k + 1)] = f[d + k] \o parts[d + (k + 1)]
    BY <1>2, <2>2 DEF Accumulates
  <2>4. parts[d + (k + 1)] \in Text /\ f[d + k] \in Text
    BY <1>1, <1>2, <2>2
  <2>5. t \o f[d + (k + 1)] = (t \o f[d + k]) \o parts[d + (k + 1)]
    <3>1. AssocOf(t, f[d + k], parts[d + (k + 1)])
      BY <1>1, <2>4, Assoc
    <3> QED BY <2>3, <3>1 DEF AssocOf
  <2>6. ReadsAs(parts[d + (k + 1)], raws[k + 1])
    BY <2>2 DEF ReadAsLines
  <2>7. Ends(t \o f[d + k]) /\ Read(t \o f[d + k]) = g[k]
    BY <1>8, <2>2
  <2>8. Ends(t \o f[d + (k + 1)]) /\ Read(t \o f[d + (k + 1)]) = TextField(g[k], raws[k + 1])
    BY <2>5, <2>6, <2>7 DEF ReadsAs
  <2>9. g[k + 1] = FieldStep(raws)[k + 1][g[k]] /\ g[k] \in Records
    BY <1>3, <2>2 DEF StagesOf
  <2>10. g[k + 1] = TextField(g[k], raws[k + 1])
    BY <2>2, <2>9 DEF FieldStep
  <2> QED BY <2>8, <2>10
<1> HIDE DEF T
<1>9. Len(raws) \in T
  BY <1>1, <1>7, <1>8, Inductive
<1>10. Read(t \o f[d + Len(raws)]) = g[Len(raws)]
  BY <1>1, <1>9 DEF T
<1> QED BY <1>1, <1>2, <1>3, <1>10

LEMMA FlattenLacks ==
  ASSUME NEW parts \in Seq(Text), NEW mark, \A i \in 1 .. Len(parts) : Lacks(parts[i], mark)
  PROVE  Lacks(FlattenSeq(parts), mark)
<1>1. PICK f : /\ Accumulates(f, parts) /\ FlattenSeq(parts) = f[Len(parts)]
               /\ \A k \in 0 .. Len(parts) : f[k] \in Text
  BY Accumulation DEF Text
<1> DEFINE T == {k \in Nat : k <= Len(parts) => Lacks(f[k], mark)}
<1>2. 0 \in T
  <2>1. f[0] = <<>> /\ Len(<<>>) = 0
    BY <1>1 DEF Accumulates
  <2>2. Lacks(<<>>, mark)
    BY <2>1 DEF Lacks
  <2> QED BY <2>1, <2>2
<1>3. ASSUME NEW k \in Nat, k \in T PROVE k + 1 \in T
  <2>1. SUFFICES ASSUME k + 1 <= Len(parts) PROVE Lacks(f[k + 1], mark)
    OBVIOUS
  <2>2. k + 1 \in 1 .. Len(parts) /\ (k + 1) - 1 = k /\ k <= Len(parts) /\ k \in 0 .. Len(parts)
    BY <2>1
  <2>3. f[k + 1] = f[k] \o parts[k + 1]
    BY <1>1, <2>2 DEF Accumulates
  <2>4. f[k] \in Text /\ parts[k + 1] \in Text /\ Lacks(f[k], mark) /\ Lacks(parts[k + 1], mark)
    BY <1>1, <1>3, <2>2
  <2> QED BY <2>3, <2>4, JoinedEnds
<1> HIDE DEF T
<1>4. Len(parts) \in T /\ Len(parts) \in Nat
  BY <1>2, <1>3, Inductive
<1> QED BY <1>1, <1>4 DEF T

\* A text made piece by piece: item maps a piece to what it adds.
MapFlat(item, s) == FlattenSeq([i \in DOMAIN s |-> item[s[i]]])

LEMMA MapFlatNext ==
  ASSUME NEW A, NEW item \in [A -> Text]
  PROVE  /\ MapFlat(item, <<>>) = <<>>
         /\ \A s \in Seq(A) : MapFlat(item, s) \in Text
         /\ \A s \in Seq(A), x \in A : MapFlat(item, Append(s, x)) = MapFlat(item, s) \o item[x]
<1> DEFINE Items(s) == [i \in DOMAIN s |-> item[s[i]]]
<1>1. ASSUME NEW s \in Seq(A) PROVE Items(s) \in Seq(Text) /\ Len(Items(s)) = Len(s)
  <2>1. DOMAIN s = 1 .. Len(s) /\ Len(s) \in Nat /\ \A i \in 1 .. Len(s) : item[s[i]] \in Text
    OBVIOUS
  <2> QED BY <2>1
<1>2. MapFlat(item, <<>>) = <<>>
  <2>1. Items(<<>>) = <<>>
    OBVIOUS
  <2> HIDE DEF Items
  <2>2. MapFlat(item, <<>>) = FlattenSeq(Items(<<>>))
    BY DEF MapFlat, Items
  <2> QED BY <2>1, <2>2, Flatten
<1>3. ASSUME NEW s \in Seq(A) PROVE MapFlat(item, s) \in Text
  <2>1. MapFlat(item, s) = FlattenSeq(Items(s))
    BY DEF MapFlat
  <2> HIDE DEF Items
  <2> QED BY <1>1, <2>1, Flatten DEF Text
<1>4. ASSUME NEW s \in Seq(A), NEW x \in A
      PROVE  MapFlat(item, Append(s, x)) = MapFlat(item, s) \o item[x]
  <2>1. PICK t : t = Append(s, x)
    OBVIOUS
  <2>2. /\ t \in Seq(A) /\ Len(t) = Len(s) + 1 /\ t[Len(s) + 1] = x /\ Len(s) \in Nat
        /\ \A i \in 1 .. Len(s) : t[i] = s[i]
    BY <2>1, AppendProperties
  <2>3. PICK a, b, c : a = Items(s) /\ b = Items(t) /\ c = Append(a, item[x])
    OBVIOUS
  <2>4. a \in Seq(Text) /\ Len(a) = Len(s) /\ b \in Seq(Text) /\ Len(b) = Len(s) + 1
    <3> HIDE DEF Items
    <3> QED BY <1>1, <2>2, <2>3
  <2>5. \A i \in 1 .. Len(s) : b[i] = a[i]
    <3>1. ASSUME NEW i \in 1 .. Len(s) PROVE b[i] = a[i]
      <4>1. i \in DOMAIN s /\ i \in DOMAIN t /\ t[i] = s[i]
        BY <2>2
      <4> QED BY <2>3, <4>1
    <3> QED BY <3>1
  <2>6. b[Len(s) + 1] = item[x]
    BY <2>2, <2>3
  <2>7. item[x] \in Text
    OBVIOUS
  <2>8. /\ c \in Seq(Text) /\ Len(c) = Len(s) + 1 /\ c[Len(s) + 1] = item[x]
        /\ \A i \in 1 .. Len(s) : c[i] = a[i]
    BY <2>3, <2>4, <2>7, AppendProperties
  <2>9. ASSUME NEW i \in 1 .. Len(b) PROVE b[i] = c[i]
    <3>1. i = Len(s) + 1 \/ i \in 1 .. Len(s)
      BY <2>2, <2>4
    <3> QED BY <2>5, <2>6, <2>8, <3>1
  <2>10. b = c
    BY <2>4, <2>8, <2>9, SeqEqual
  <2>11. FlattenSeq(Append(a, item[x])) = FlattenSeq(a) \o item[x]
    BY <2>4, <2>7, Flatten DEF Text
  <2>12. MapFlat(item, t) = FlattenSeq(b) /\ MapFlat(item, s) = FlattenSeq(a)
    BY <2>3 DEF MapFlat
  <2> QED BY <2>1, <2>3, <2>10, <2>11, <2>12
<1> QED BY <1>2, <1>3, <1>4

LEMMA MapFlatJoined ==
  ASSUME NEW A, NEW item \in [A -> Text], NEW s \in Seq(A)
  PROVE  \A t \in Seq(A) : MapFlat(item, s \o t) = MapFlat(item, s) \o MapFlat(item, t)
<1> DEFINE T == {t \in Seq(A) : MapFlat(item, s \o t) = MapFlat(item, s) \o MapFlat(item, t)}
<1>0. MapFlat(item, s) \in Text
  BY MapFlatNext
<1>1. <<>> \in T
  <2>1. s \o <<>> = s /\ <<>> \in Seq(A) /\ MapFlat(item, <<>>) = <<>>
    BY ConcatEmptySeq, EmptySeq, MapFlatNext
  <2>2. MapFlat(item, s) \o <<>> = MapFlat(item, s)
    BY <1>0, Join
  <2> QED BY <2>1, <2>2
<1>2. ASSUME NEW t \in Seq(A), NEW x \in A, t \in T PROVE Append(t, x) \in T
  <2>1. PICK u : u = s \o t
    OBVIOUS
  <2>2. u \in Seq(A) /\ Append(t, x) \in Seq(A) /\ s \o Append(t, x) = Append(u, x)
    BY <2>1, ConcatProperties, AppendProperties, JoinOne
  <2>3. MapFlat(item, Append(u, x)) = MapFlat(item, u) \o item[x]
    BY <2>2, MapFlatNext
  <2>4. MapFlat(item, Append(t, x)) = MapFlat(item, t) \o item[x]
    BY MapFlatNext
  <2>5. MapFlat(item, u) = MapFlat(item, s) \o MapFlat(item, t)
    BY <1>2, <2>1
  <2>6. AssocOf(MapFlat(item, s), MapFlat(item, t), item[x])
    <3>1. MapFlat(item, t) \in Text /\ item[x] \in Text
      BY MapFlatNext
    <3> QED BY <1>0, <3>1, Assoc
  <2> QED BY <2>2, <2>3, <2>4, <2>5, <2>6 DEF AssocOf
<1> HIDE DEF T
<1>3. Seq(A) \subseteq T
  BY <1>1, <1>2, SeqInductive
<1> QED BY <1>3 DEF T

FlatOf(item, s, t) == MapFlat(item, s \o t) = MapFlat(item, s) \o MapFlat(item, t)

LEMMA FlatJoined ==
  ASSUME NEW A, NEW item \in [A -> Text]
  PROVE  \A s, t \in Seq(A) : FlatOf(item, s, t)
BY MapFlatJoined DEF FlatOf

PartsOf(item, ss, parts) ==
  Len(parts) = Len(ss) /\ \A i \in 1 .. Len(ss) : parts[i] = MapFlat(item, ss[i])

\* Of pieces that come in groups, the text is that of the groups.
LEMMA MapFlatFlatten ==
  ASSUME NEW A, NEW item \in [A -> Text], NEW ss \in Seq(Seq(A)), NEW parts \in Seq(Text),
         PartsOf(item, ss, parts)
  PROVE  MapFlat(item, FlattenSeq(ss)) = FlattenSeq(parts)
<1> Len(parts) = Len(ss) /\ \A i \in 1 .. Len(ss) : parts[i] = MapFlat(item, ss[i])
  BY DEF PartsOf
<1>1. PICK f : /\ Accumulates(f, ss) /\ FlattenSeq(ss) = f[Len(ss)]
               /\ \A k \in 0 .. Len(ss) : f[k] \in Seq(A)
  BY Accumulation
<1> DEFINE g == [k \in 0 .. Len(ss) |-> MapFlat(item, f[k])]
<1>2. g[0] = <<>>
  <2>1. 0 \in 0 .. Len(ss) /\ f[0] = <<>>
    BY <1>1 DEF Accumulates
  <2> QED BY <2>1, MapFlatNext
<1>3. ASSUME NEW k \in 1 .. Len(ss) PROVE g[k] = g[k - 1] \o parts[k]
  <2>1. k - 1 \in 0 .. Len(ss) /\ k \in 0 .. Len(ss)
    OBVIOUS
  <2>2. f[k] = f[k - 1] \o ss[k]
    BY <1>1 DEF Accumulates
  <2>4. f[k - 1] \in Seq(A) /\ ss[k] \in Seq(A)
    BY <1>1, <2>1
  <2>5. PICK s \in Seq(A), t \in Seq(A) : s = f[k - 1] /\ t = ss[k]
    BY <2>4
  <2>6. MapFlat(item, s \o t) = MapFlat(item, s) \o MapFlat(item, t)
    <3>1. FlatOf(item, s, t)
      BY FlatJoined
    <3> QED BY <3>1 DEF FlatOf
  <2>3. MapFlat(item, f[k]) = MapFlat(item, f[k - 1]) \o MapFlat(item, ss[k])
    BY <2>2, <2>5, <2>6
  <2> QED BY <2>1, <2>3
<1> HIDE DEF g
<1>4. Accumulates(g, parts)
  BY <1>2, <1>3 DEF Accumulates
<1>5. FlattenSeq(parts) = g[Len(parts)]
  BY <1>4, AccumulationIsFlat DEF Text
<1>6. Len(ss) \in 0 .. Len(ss)
  OBVIOUS
<1> QED BY <1>1, <1>5, <1>6 DEF g

\* ReplaceAll is one of them.
LEMMA ReplaceIsMapFlat ==
  ASSUME NEW old, NEW new \in Word
  PROVE  \A s \in Text :
           ReplaceAll(s, old, new) = MapFlat([x \in Word |-> IF x = old THEN <<new>> ELSE <<x>>], s)
<1> DEFINE item == [x \in Word |-> IF x = old THEN <<new>> ELSE <<x>>]
           T == {s \in Text : ReplaceAll(s, old, new) = MapFlat(item, s)}
<1>1. item \in [Word -> Text]
  <2>1. \A x \in Word : <<x>> \in Text
    BY ShortTexts
  <2> QED BY <2>1
<1> HIDE DEF item
<1>2. <<>> \in T
  <2>1. ReplaceAll(<<>>, old, new) = <<>>
    BY DEF ReplaceAll
  <2> QED BY <1>1, <2>1, MapFlatNext, Join
<1>3. ASSUME NEW s \in Text, NEW x \in Word, s \in T PROVE Append(s, x) \in T
  <2>1. PICK t : t = Append(s, x)
    OBVIOUS
  <2>2. /\ t \in Text /\ Len(t) = Len(s) + 1 /\ t[Len(s) + 1] = x /\ Len(s) \in Nat
        /\ \A i \in 1 .. Len(s) : t[i] = s[i]
    BY <2>1, AppendProperties DEF Text
  <2>3. PICK y \in Word : y = (IF x = old THEN new ELSE x) /\ item[x] = <<y>>
    BY DEF item
  <2>4. PICK a, b : a = ReplaceAll(s, old, new) /\ b = ReplaceAll(t, old, new)
    OBVIOUS
  <2>5. a \in Text /\ Len(a) = Len(s) /\ b \in Text /\ Len(b) = Len(t)
    <3>1. \A i \in 1 .. Len(s) : s[i] \in Word
      BY DEF Text
    <3>2. \A i \in 1 .. Len(t) : t[i] \in Word
      BY <2>2 DEF Text
    <3>3. a = [i \in 1 .. Len(s) |-> IF s[i] = old THEN new ELSE s[i]]
      BY <2>4 DEF ReplaceAll
    <3>4. b = [i \in 1 .. Len(t) |-> IF t[i] = old THEN new ELSE t[i]]
      BY <2>4 DEF ReplaceAll
    <3>5. a \in Text /\ Len(a) = Len(s)
      BY <2>2, <3>1, <3>3 DEF Text
    <3>6. PICK n \in Nat : n = Len(t)
      BY <2>2
    <3>7. b \in Text /\ Len(b) = n
      BY <3>2, <3>4, <3>6 DEF Text
    <3> QED BY <3>5, <3>6, <3>7
  <2>6. PICK c : c = Append(a, y)
    OBVIOUS
  <2>7. /\ c \in Text /\ Len(c) = Len(s) + 1 /\ c[Len(s) + 1] = y
        /\ \A i \in 1 .. Len(s) : c[i] = a[i]
    BY <2>5, <2>6, AppendProperties DEF Text
  <2>8. \A i \in 1 .. Len(b) : b[i] = c[i]
    <3> SUFFICES ASSUME NEW i \in 1 .. Len(t) PROVE b[i] = c[i]
      BY <2>5
    <3>1. b[i] = IF t[i] = old THEN new ELSE t[i]
      BY <2>4 DEF ReplaceAll
    <3>2. CASE i = Len(s) + 1
      BY <2>2, <2>3, <2>7, <3>1, <3>2
    <3>3. CASE i # Len(s) + 1
      <4>1. i \in 1 .. Len(s)
        BY <2>2, <3>3
      <4>2. a[i] = IF s[i] = old THEN new ELSE s[i]
        BY <2>4, <4>1 DEF ReplaceAll
      <4> QED BY <2>2, <2>7, <3>1, <4>1, <4>2
    <3> QED BY <3>2, <3>3
  <2>9. b = c
    BY <2>2, <2>5, <2>7, <2>8, SeqEqual DEF Text
  <2>10. c = a \o <<y>>
    BY <2>5, <2>6, JoinOne DEF Text
  <2>11. MapFlat(item, t) = MapFlat(item, s) \o item[x]
    BY <1>1, <2>1, MapFlatNext DEF Text
  <2> QED BY <1>3, <2>1, <2>2, <2>3, <2>4, <2>9, <2>10, <2>11
<1> HIDE DEF T
<1>4. Text \subseteq T
  BY <1>2, <1>3, SeqInductive DEF Text
<1> QED BY <1>4 DEF T, item

-----------------------------------------------------------------------------
(* What trimming and marks leave of a text *)

\* A text of one mark only.
Filled(p, mark) == p \in Text /\ \A i \in 1 .. Len(p) : p[i] = mark

LEMMA TrimLeftParts ==
  ASSUME NEW s \in Text, NEW mark
  PROVE  \E p : Filled(p, mark) /\ s = p \o TrimLeft(s, mark)
<1>1. PICK i : i = FirstNot(s, mark)
  OBVIOUS
<1>2. /\ i \in 0 .. Len(s)
      /\ i = 0 => \A j \in 1 .. Len(s) : s[j] = mark
      /\ i # 0 => s[i] # mark /\ \A j \in 1 .. i - 1 : s[j] = mark
  BY <1>1, FirstOther DEF FirstAt
<1>3. TrimLeft(s, mark) = IF i = 0 THEN <<>> ELSE SubSeq(s, i, Len(s))
  BY <1>1 DEF TrimLeft, FirstNot
<1>4. Len(s) \in Nat
  BY DEF Text
<1>5. CASE i = 0
  <2>1. Filled(s, mark) /\ s = s \o <<>>
    BY <1>2, <1>5, Join DEF Filled
  <2> QED BY <1>3, <1>5, <2>1
<1>6. CASE i # 0
  <2>1. PICK k : k = i - 1 /\ k + 1 = i /\ 1 \in 1 .. Len(s) + 1 /\ k \in 1 - 1 .. Len(s)
                 /\ Len(s) \in k .. Len(s)
    BY <1>2, <1>4, <1>6
  <2>2. SubSeq(s, 1, k) \o SubSeq(s, k + 1, Len(s)) = SubSeq(s, 1, Len(s))
    BY <2>1, ConcatAdjacentSubSeq DEF Text
  <2>3. SubSeq(s, 1, Len(s)) = s
    BY SubSeqFull DEF Text
  <2>4. PICK p : p = SubSeq(s, 1, k)
    OBVIOUS
  <2>5. p \in Text /\ Len(p) = k /\ \A j \in 1 .. k : p[j] = s[j]
    <3>1. \A j \in 1 .. k : s[j] \in Word
      BY <1>4, <2>1 DEF Text
    <3> QED BY <1>4, <2>1, <2>4, <3>1, SubSeqProperties DEF Text
  <2>6. Filled(p, mark)
    BY <1>2, <1>6, <2>1, <2>5 DEF Filled
  <2>7. s = p \o TrimLeft(s, mark)
    BY <1>3, <1>6, <2>1, <2>2, <2>3, <2>4
  <2> QED BY <2>6, <2>7
<1> QED BY <1>5, <1>6

LEMMA TrimRightParts ==
  ASSUME NEW s \in Text, NEW mark
  PROVE  \E q : Filled(q, mark) /\ s = TrimRight(s, mark) \o q
<1>1. PICK i : i = LastNot(s, mark)
  OBVIOUS
<1>2. /\ i \in 0 .. Len(s)
      /\ \A j \in 1 .. Len(s) : s[j] # mark => j <= i
  BY <1>1, LastOther
<1>3. TrimRight(s, mark) = SubSeq(s, 1, i)
  BY <1>1 DEF TrimRight, LastNot
<1>4. PICK n \in Nat : n = Len(s)
  BY DEF Text
<1>5. SubSeq(s, 1, i) \o SubSeq(s, i + 1, n) = SubSeq(s, 1, n)
  <2>1. 1 \in 1 .. Len(s) + 1 /\ i \in 1 - 1 .. Len(s) /\ n \in i .. Len(s)
    BY <1>2, <1>4
  <2> QED BY <2>1, ConcatAdjacentSubSeq DEF Text
<1>6. SubSeq(s, 1, n) = s
  BY <1>4, SubSeqFull DEF Text
<1>7. PICK q : q = SubSeq(s, i + 1, n)
  OBVIOUS
<1>8. /\ q \in Text /\ Len(q) = (IF i + 1 <= n THEN n - (i + 1) + 1 ELSE 0)
      /\ \A j \in 1 .. n - (i + 1) + 1 : q[j] = s[(i + 1) + j - 1]
  <2>1. \A j \in i + 1 .. n : s[j] \in Word
    BY <1>2, <1>4 DEF Text
  <2>2. i + 1 \in Int /\ n \in Int
    BY <1>2, <1>4
  <2>3. PICK m \in Int : m = i + 1
    BY <2>2
  <2> QED BY <1>7, <2>1, <2>2, <2>3, SubSeqProperties DEF Text
<1>9. ASSUME NEW j \in 1 .. Len(q) PROVE q[j] = mark
  <2>1. j \in 1 .. n - (i + 1) + 1 /\ (i + 1) + j - 1 \in 1 .. n /\ ~ ((i + 1) + j - 1 <= i)
    BY <1>2, <1>4, <1>8
  <2> QED BY <1>2, <1>4, <1>8, <2>1
<1> QED BY <1>3, <1>5, <1>6, <1>7, <1>8, <1>9 DEF Filled

LEMMA FilledNext ==
  /\ \A s \in Text, x \in Word : \A mark :
       Filled(Append(s, x), mark) => Filled(s, mark) /\ x = mark
  /\ \A p : \A mark : Filled(p, mark) => \A other : other # mark => Lacks(p, other)
<1>1. ASSUME NEW s \in Text, NEW x \in Word, NEW mark, Filled(Append(s, x), mark)
      PROVE  Filled(s, mark) /\ x = mark
  <2>1. /\ Len(Append(s, x)) = Len(s) + 1 /\ Append(s, x)[Len(s) + 1] = x
        /\ \A i \in 1 .. Len(s) : Append(s, x)[i] = s[i]
    BY AppendProperties DEF Text
  <2>2. Len(s) \in Nat
    BY DEF Text
  <2> QED BY <1>1, <2>1, <2>2 DEF Filled
<1>2. ASSUME NEW p, NEW mark, Filled(p, mark), NEW other, other # mark PROVE Lacks(p, other)
  BY <1>2 DEF Filled, Lacks
<1> QED BY <1>1, <1>2

\* A mark at an end that is trimmed makes no difference.
LEMMA TrimLeftJoin ==
  ASSUME NEW mark
  PROVE  \A p : Filled(p, mark) => \A s \in Text : TrimLeft(p \o s, mark) = TrimLeft(s, mark)
<1> DEFINE T == {p \in Text : Filled(p, mark) => \A s \in Text : TrimLeft(p \o s, mark) = TrimLeft(s, mark)}
<1>1. <<>> \in T
  BY Join, EmptySeq DEF Text
<1>2. ASSUME NEW p \in Seq(Word), NEW x \in Word, p \in T PROVE Append(p, x) \in T
  <2>1. p \in Text /\ Append(p, x) \in Text /\ <<x>> \in Text /\ Append(p, x) = p \o <<x>>
    BY AppendProperties, ShortTexts, JoinOne DEF Text
  <2>2. ASSUME Filled(Append(p, x), mark), NEW s \in Text
        PROVE  TrimLeft(Append(p, x) \o s, mark) = TrimLeft(s, mark)
    <3>1. Filled(p, mark) /\ x = mark
      BY <2>1, <2>2, FilledNext
    <3>2. PICK t \in Text : t = <<x>> \o s
      BY <2>1, Join
    <3>3. Append(p, x) \o s = p \o t
      <4>1. PICK u \in Text : u = <<x>>
        BY <2>1
      <4>2. AssocOf(p, u, s)
        BY <2>1, Assoc
      <4> QED BY <2>1, <3>2, <4>1, <4>2 DEF AssocOf
    <3>4. TrimLeft(p \o t, mark) = TrimLeft(t, mark)
      BY <1>2, <3>1
    <3>5. TrimLeft(t, mark) = TrimLeft(s, mark)
      BY <3>1, <3>2, TrimLeftAgain
    <3> QED BY <3>3, <3>4, <3>5
  <2> QED BY <2>1, <2>2
<1> HIDE DEF T
<1>3. Seq(Word) \subseteq T
  BY <1>1, <1>2, SeqInductive
<1>4. ASSUME NEW p, Filled(p, mark), NEW s \in Text PROVE TrimLeft(p \o s, mark) = TrimLeft(s, mark)
  <2>1. p \in T
    BY <1>3, <1>4 DEF Filled, Text
  <2> QED BY <1>4, <2>1 DEF T
<1> QED BY <1>4

LEMMA TrimRightAgain ==
  ASSUME NEW s \in Text, NEW mark \in Word
  PROVE  TrimRight(Append(s, mark), mark) = TrimRight(s, mark)
<1>1. PICK t : t = Append(s, mark)
  OBVIOUS
<1>2. PICK n \in Nat : n = Len(s)
  BY DEF Text
<1>3. t \in Text /\ Len(t) = n + 1 /\ t[n + 1] = mark /\ \A i \in 1 .. n : t[i] = s[i]
  BY <1>1, <1>2, AppendProperties DEF Text
<1>4. PICK i, k : i = LastNot(s, mark) /\ k = LastNot(t, mark)
  OBVIOUS
<1>5. /\ i \in 0 .. n /\ (i # 0 => s[i] # mark)
      /\ \A j \in 1 .. n : s[j] # mark => j <= i
  BY <1>2, <1>4, LastOther
<1>6. /\ k \in 0 .. n + 1 /\ (k # 0 => t[k] # mark)
      /\ \A j \in 1 .. n + 1 : t[j] # mark => j <= k
  BY <1>3, <1>4, LastOther
<1>7. k # n + 1
  BY <1>2, <1>3, <1>6
<1>8. k <= i
  BY <1>2, <1>3, <1>5, <1>6, <1>7
<1>9. i <= k
  BY <1>2, <1>3, <1>5, <1>6
<1>10. k = i /\ i \in 0 .. n
  BY <1>2, <1>5, <1>6, <1>8, <1>9
<1>11. SubSeq(t, 1, i) = SubSeq(s, 1, i)
  <2>1. \A j \in 1 .. i : t[j] = s[j] /\ s[j] \in Word
    BY <1>2, <1>3, <1>10 DEF Text
  <2>2. i \in Int /\ 1 \in Int
    BY <1>10
  <2>3. /\ SubSeq(s, 1, i) \in Seq(Word) /\ Len(SubSeq(s, 1, i)) = IF 1 <= i THEN i - 1 + 1 ELSE 0
        /\ \A j \in 1 .. i - 1 + 1 : SubSeq(s, 1, i)[j] = s[1 + j - 1]
    BY <2>1, <2>2, SubSeqProperties
  <2>4. /\ SubSeq(t, 1, i) \in Seq(Word) /\ Len(SubSeq(t, 1, i)) = IF 1 <= i THEN i - 1 + 1 ELSE 0
        /\ \A j \in 1 .. i - 1 + 1 : SubSeq(t, 1, i)[j] = t[1 + j - 1]
    BY <2>1, <2>2, SubSeqProperties
  <2>5. \A j \in 1 .. Len(SubSeq(t, 1, i)) : SubSeq(t, 1, i)[j] = SubSeq(s, 1, i)[j]
    BY <1>10, <2>1, <2>3, <2>4
  <2> QED BY <2>3, <2>4, <2>5, SeqEqual
<1> QED BY <1>1, <1>4, <1>10, <1>11 DEF TrimRight, LastNot

LEMMA TrimRightJoin ==
  ASSUME NEW mark, NEW s \in Text
  PROVE  \A q : Filled(q, mark) => TrimRight(s \o q, mark) = TrimRight(s, mark)
<1> DEFINE T == {q \in Text : Filled(q, mark) => TrimRight(s \o q, mark) = TrimRight(s, mark)}
<1>1. <<>> \in T
  BY Join, EmptySeq DEF Text
<1>2. ASSUME NEW q \in Seq(Word), NEW x \in Word, q \in T PROVE Append(q, x) \in T
  <2>1. q \in Text /\ Append(q, x) \in Text /\ s \o q \in Text /\ s \o Append(q, x) = Append(s \o q, x)
    BY AppendProperties, Join, JoinOne DEF Text
  <2>2. ASSUME Filled(Append(q, x), mark)
        PROVE  TrimRight(s \o Append(q, x), mark) = TrimRight(s, mark)
    <3>1. Filled(q, mark) /\ x = mark
      BY <2>1, <2>2, FilledNext
    <3>2. TrimRight(Append(s \o q, x), mark) = TrimRight(s \o q, mark)
      BY <2>1, <3>1, TrimRightAgain
    <3> QED BY <1>2, <2>1, <3>1, <3>2
  <2> QED BY <2>1, <2>2
<1> HIDE DEF T
<1>3. Seq(Word) \subseteq T
  BY <1>1, <1>2, SeqInductive
<1>4. ASSUME NEW q, Filled(q, mark) PROVE TrimRight(s \o q, mark) = TrimRight(s, mark)
  <2>1. q \in T
    BY <1>3, <1>4 DEF Filled, Text
  <2> QED BY <1>4, <2>1 DEF T
<1> QED BY <1>4

LEMMA TrimOnly ==
  ASSUME NEW mark, NEW p, Filled(p, mark)
  PROVE  TrimLeft(p, mark) = <<>> /\ TrimRight(p, mark) = <<>>
<1>1. PICK e \in Text : e = <<>> /\ Len(e) = 0
  BY Join, EmptySeq
<1>2. p \in Text /\ p \o e = p /\ e \o p = p
  BY <1>1, Join DEF Filled
<1>3. TrimLeft(p, mark) = TrimLeft(e, mark) /\ TrimRight(p, mark) = TrimRight(e, mark)
  BY <1>1, <1>2, TrimLeftJoin, TrimRightJoin
<1>4. TrimLeft(e, mark) = <<>>
  <2>1. FirstNot(e, mark) \in 0 .. 0
    BY <1>1, FirstOther DEF FirstAt
  <2> QED BY <2>1 DEF TrimLeft, FirstNot
<1>5. TrimRight(e, mark) = <<>>
  <2>1. PICK i : i = LastNot(e, mark)
    OBVIOUS
  <2>2. i \in 0 .. 0
    BY <1>1, <2>1, LastOther
  <2>3. i = 0
    BY <2>2
  <2>4. TrimRight(e, mark) = SubSeq(e, 1, i)
    BY <2>1 DEF TrimRight, LastNot
  <2>5. SubSeq(e, 1, 0) = <<>>
    <3>1. PICK a \in Int, b \in Int : a = 1 /\ b = 0 /\ ~ (a <= b)
      OBVIOUS
    <3>2. e \in Seq(Word)
      BY DEF Text
    <3> QED BY <3>1, <3>2, SubSeqEmpty
  <2> QED BY <2>3, <2>4, <2>5
<1> QED BY <1>3, <1>4, <1>5

\* Trimming stops at the first other mark.
LEMMA LeftParts ==
  ASSUME NEW s \in Text, NEW mark
  PROVE  \E p \in Text, r \in Text : Filled(p, mark) /\ r = TrimLeft(s, mark) /\ s = p \o r
<1>1. PICK p : Filled(p, mark) /\ s = p \o TrimLeft(s, mark)
  BY TrimLeftParts
<1>2. TrimLeft(s, mark) \in Text
  BY TrimLeftIs
<1>3. p \in Text
  BY <1>1 DEF Filled
<1> QED BY <1>1, <1>2, <1>3

LEMMA RightParts ==
  ASSUME NEW s \in Text, NEW mark
  PROVE  \E q \in Text, r \in Text : Filled(q, mark) /\ r = TrimRight(s, mark) /\ s = r \o q
<1>1. PICK q : Filled(q, mark) /\ s = TrimRight(s, mark) \o q
  BY TrimRightParts
<1>2. TrimRight(s, mark) \in Text
  BY TrimRightIs
<1>3. q \in Text
  BY <1>1 DEF Filled
<1> QED BY <1>1, <1>2, <1>3

LEMMA TrimLeftStops ==
  ASSUME NEW s \in Text, NEW c \in Text, NEW mark, c # <<>>, c[1] # mark
  PROVE  TrimLeft(s \o c, mark) = TrimLeft(s, mark) \o c
<1>1. PICK p \in Text, r \in Text : Filled(p, mark) /\ r = TrimLeft(s, mark) /\ s = p \o r
  BY LeftParts
<1>2. PICK rc \in Text : rc = r \o c
  BY Join
<1>3. s \o c = p \o rc
  <2>1. AssocOf(p, r, c)
    BY Assoc
  <2> QED BY <1>1, <1>2, <2>1 DEF AssocOf
<1>4. TrimLeft(p \o rc, mark) = TrimLeft(rc, mark)
  BY <1>1, TrimLeftJoin
<1>5. rc # <<>> /\ rc[1] # mark
  <2>1. CASE r = <<>>
    BY <1>2, <2>1, Join
  <2>2. CASE r # <<>>
    <3>1. r[1] # mark
      BY <1>1, <2>2, TrimLeftIs
    <3> QED BY <1>2, <2>2, <3>1, JoinedEnds
  <2> QED BY <2>1, <2>2
<1>6. TrimLeft(rc, mark) = rc
  BY <1>5, TrimLeftIs
<1> QED BY <1>1, <1>2, <1>3, <1>4, <1>6

LEMMA TrimRightStops ==
  ASSUME NEW c \in Text, NEW s \in Text, NEW mark, c # <<>>, c[Len(c)] # mark
  PROVE  TrimRight(c \o s, mark) = c \o TrimRight(s, mark)
<1>1. PICK q \in Text, r \in Text : Filled(q, mark) /\ r = TrimRight(s, mark) /\ s = r \o q
  BY RightParts
<1>2. PICK cr \in Text : cr = c \o r
  BY Join
<1>3. c \o s = cr \o q
  <2>1. AssocOf(c, r, q)
    BY Assoc
  <2> QED BY <1>1, <1>2, <2>1 DEF AssocOf
<1>4. TrimRight(cr \o q, mark) = TrimRight(cr, mark)
  BY <1>1, TrimRightJoin
<1>5. cr # <<>> /\ cr[Len(cr)] # mark
  <2>1. CASE r = <<>>
    BY <1>2, <2>1, Join
  <2>2. CASE r # <<>>
    <3>1. r[Len(r)] # mark
      BY <1>1, <2>2, TrimRightIs
    <3> QED BY <1>2, <2>2, <3>1, JoinedEnds
  <2> QED BY <2>1, <2>2
<1>6. TrimRight(cr, mark) = cr
  BY <1>5, TrimRightIs
<1> QED BY <1>1, <1>2, <1>3, <1>4, <1>6

\* Blanks at the ends make no difference to a trimmed text.
LEMMA TrimSpaceJoin ==
  ASSUME NEW s \in Text, NEW p \in Text, Filled(p, " ")
  PROVE  TrimSpace(p \o s) = TrimSpace(s) /\ TrimSpace(s \o p) = TrimSpace(s)
<1>1. TrimSpace(p \o s) = TrimSpace(s)
  <2>1. TrimLeft(p \o s, " ") = TrimLeft(s, " ")
    BY TrimLeftJoin
  <2> QED BY <2>1 DEF TrimSpace
<1>2. PICK b \in Text, r \in Text : Filled(b, " ") /\ r = TrimLeft(s, " ") /\ s = b \o r
  BY LeftParts
<1>3. PICK rp \in Text : rp = r \o p
  BY Join
<1>4. s \o p = b \o rp
  <2>1. AssocOf(b, r, p)
    BY Assoc
  <2> QED BY <1>2, <1>3, <2>1 DEF AssocOf
<1>5. TrimLeft(b \o rp, " ") = TrimLeft(rp, " ")
  BY <1>2, TrimLeftJoin
<1>6. TrimRight(rp, " ") = TrimRight(r, " ")
  BY <1>3, TrimRightJoin
<1>7. TrimLeft(rp, " ") = rp \/ r = <<>>
  <2>1. CASE r # <<>>
    <3>1. r[1] # " "
      BY <1>2, <2>1, TrimLeftIs
    <3>2. rp # <<>> /\ rp[1] # " "
      BY <1>3, <2>1, <3>1, JoinedEnds
    <3> QED BY <3>2, TrimLeftIs
  <2> QED BY <2>1
<1>8. CASE r = <<>>
  <2>1. rp = p /\ TrimLeft(p, " ") = <<>>
    BY <1>3, <1>8, Join, TrimOnly
  <2>2. TrimSpace(s \o p) = TrimRight(<<>>, " ") /\ TrimSpace(s) = TrimRight(<<>>, " ")
    BY <1>2, <1>4, <1>5, <1>8, <2>1 DEF TrimSpace
  <2> QED BY <1>1, <2>2
<1>9. CASE TrimLeft(rp, " ") = rp
  <2>1. TrimSpace(s \o p) = TrimRight(rp, " ") /\ TrimSpace(s) = TrimRight(r, " ")
    BY <1>2, <1>4, <1>5, <1>9 DEF TrimSpace
  <2> QED BY <1>1, <1>6, <2>1
<1> QED BY <1>7, <1>8, <1>9

LEMMA TrimSpaceParts ==
  ASSUME NEW s \in Text
  PROVE  \E p \in Text, q \in Text, t \in Text :
           Filled(p, " ") /\ Filled(q, " ") /\ t = TrimSpace(s) /\ s = p \o (t \o q)
<1>1. PICK p \in Text, r \in Text : Filled(p, " ") /\ r = TrimLeft(s, " ") /\ s = p \o r
  BY LeftParts
<1>2. PICK q \in Text, t \in Text : Filled(q, " ") /\ t = TrimRight(r, " ") /\ r = t \o q
  BY RightParts
<1>3. t = TrimSpace(s)
  BY <1>1, <1>2 DEF TrimSpace
<1> QED BY <1>1, <1>2, <1>3

LEMMA HeadParts ==
  ASSUME NEW s \in Text, s # <<>>
  PROVE  \E x \in Word, r \in Text : x = s[1] /\ s = <<x>> \o r
<1>1. PICK n \in Nat : n = Len(s) /\ n # 0
  BY EmptySeq DEF Text
<1>2. PICK x : x = s[1] /\ x \in Word
  <2>1. 1 \in 1 .. n
    BY <1>1
  <2>2. s \in Seq(Word)
    BY DEF Text
  <2> QED BY <1>1, <2>1, <2>2
<1>3. PICK r : r = Tail(s) /\ r \in Text /\ Len(r) = n - 1 /\ \A i \in 1 .. n - 1 : r[i] = s[i + 1]
  <2>1. s \in Seq(Word)
    BY DEF Text
  <2>2. /\ Tail(s) \in Seq(Word) /\ Len(Tail(s)) = Len(s) - 1
        /\ \A i \in 1 .. Len(Tail(s)) : Tail(s)[i] = s[i + 1]
    BY <2>1, HeadTailProperties
  <2> QED BY <1>1, <2>2 DEF Text
<1>4. PICK t : t = <<x>> \o r
  OBVIOUS
<1>5. /\ t \in Text /\ Len(t) = n /\ t[1] = x
      /\ \A j \in 1 .. n - 1 : t[j + 1] = r[j]
  BY <1>1, <1>2, <1>3, <1>4, Prefixed
<1>6. ASSUME NEW i \in 1 .. n PROVE s[i] = t[i]
  <2>1. CASE i = 1
    BY <1>2, <1>5, <2>1
  <2>2. CASE i # 1
    <3>1. PICK j \in 1 .. n - 1 : j + 1 = i
      <4>1. i - 1 \in 1 .. n - 1 /\ (i - 1) + 1 = i
        BY <1>1, <2>2
      <4> QED BY <4>1
    <3> QED BY <1>3, <1>5, <3>1
  <2> QED BY <2>1, <2>2
<1>7. s = t
  BY <1>1, <1>5, <1>6, SeqEqual DEF Text
<1> QED BY <1>2, <1>3, <1>4, <1>7

\* What a text starts with it starts with once.
LEMMA SameRest == \A s, t, u \in Text : s \o t = s \o u => t = u
BY ConcatSimplifications DEF Text

LEMMA FilledShort == \A x \in Word : Filled(<<x>>, x) /\ Filled(<<x, x>>, x)
<1> SUFFICES ASSUME NEW x \in Word PROVE Filled(<<x>>, x) /\ Filled(<<x, x>>, x)
  OBVIOUS
<1>1. Filled(<<x>>, x)
  <2>1. PICK p \in Text : p = <<x>> /\ Len(p) = 1 /\ p[1] = x
    BY ShortTexts
  <2> QED BY <2>1 DEF Filled
<1>2. Filled(<<x, x>>, x)
  <2>1. PICK p : p = <<x, x>>
    OBVIOUS
  <2>2. Len(p) = 2 /\ p[1] = x /\ p[2] = x /\ p \in Text
    BY <2>1, ShortTexts
  <2>3. \A i \in 1 .. 2 : i = 1 \/ i = 2
    OBVIOUS
  <2> QED BY <2>1, <2>2, <2>3 DEF Filled
<1> QED BY <1>1, <1>2

-----------------------------------------------------------------------------
(* Strings that are shown *)

Snippets == [kind : {"t", "/p", "other", "tag", "text", "script", "string", "show"}, text : Text]
Shown == [out : Text, pending : Text]
NothingShown == [out |-> <<>>, pending |-> <<>>]
ShownAll(stream) == FoldLeft(Show, NothingShown, stream)
ShowStep(stream) == [i \in 1 .. Len(stream) |-> [s \in Shown |-> Show(s, stream[i])]]

LEMMA ShowType ==
  /\ NothingShown \in Shown
  /\ \A s \in Shown, piece \in Snippets : Show(s, piece) \in Shown
<1>1. NothingShown \in Shown
  BY Join DEF NothingShown, Shown
<1>2. ASSUME NEW s \in Shown, NEW piece \in Snippets PROVE Show(s, piece) \in Shown
  <2>1. PICK o \in Text, p \in Text, w \in Text, nl \in Text :
          o = s.out /\ p = s.pending /\ w = piece.text /\ nl = <<"\n">>
    BY MarksAreWords, ShortTexts DEF Shown, Snippets
  <2>2. s = [out |-> o, pending |-> p]
    BY <2>1 DEF Shown
  <2>3. p \o w \in Text /\ (o \o p) \o nl \in Text /\ <<>> \in Text
    <3>1. o \o p \in Text /\ p \o w \in Text
      BY Join
    <3> QED BY <3>1, Join
  <2>4. PICK a \in Text, b \in Text, e \in Text : a = p \o w /\ b = (o \o p) \o nl /\ e = <<>>
    BY <2>3
  <2>5. \/ Show(s, piece) = [out |-> o, pending |-> a]
        \/ Show(s, piece) = [out |-> b, pending |-> e]
        \/ Show(s, piece) = s
    BY <2>1, <2>2, <2>4 DEF Show
  <2>6. [out |-> o, pending |-> a] \in Shown /\ [out |-> b, pending |-> e] \in Shown
    BY <2>4 DEF Shown
  <2> HIDE DEF Shown, Show
  <2> QED BY <2>5, <2>6
<1> QED BY <1>1, <1>2

LEMMA ShownStages ==
  ASSUME NEW stream \in Seq(Snippets)
  PROVE  \E f : /\ StagesOf(f, Len(stream), Shown, NothingShown, ShowStep(stream))
                /\ ShownAll(stream) = f[Len(stream)]
<1> DEFINE n == Len(stream)
           G == ShowStep(stream)
           s == stream
           Op(x, e) == Show(x, e)
           E(h) == [S \in SUBSET (DOMAIN s) |->
                      IF S = {} THEN NothingShown ELSE Op(h[S \ {Max(S)}], s[Max(S)])]
<1>1. n \in Nat /\ DOMAIN s = 1 .. n /\ NothingShown \in Shown
  BY ShowType
<1>2. G \in [1 .. n -> [Shown -> Shown]] /\ \A i \in 1 .. n, x \in Shown : G[i][x] = Op(x, s[i])
  <2>1. \A i \in 1 .. n, x \in Shown : Op(x, s[i]) \in Shown
    <3>1. \A i \in 1 .. n : s[i] \in Snippets
      OBVIOUS
    <3> QED BY <3>1, ShowType
  <2> QED BY <2>1 DEF ShowStep
<1>3. PICK h : IterOf(h, n, Shown, NothingShown, G)
  <2> HIDE DEF G, n, s, Op
  <2> QED BY <1>1, <1>2, IterExists
<1>4. h = E(h)
  <2>1. ASSUME NEW S \in SUBSET (1 .. n), S # {} PROVE h[S] = Op(h[S \ {Max(S)}], s[Max(S)])
    <3> HIDE DEF Op, s, G
    <3>1. Max(S) \in 1 .. n
      BY <1>1, <2>1, MaxOf
    <3>2. h[S \ {Max(S)}] \in Shown /\ h[S] = G[Max(S)][h[S \ {Max(S)}]]
      BY <1>3, <2>1 DEF IterOf
    <3> QED BY <1>2, <3>1, <3>2
  <2>2. h \in [SUBSET (1 .. n) -> Shown] /\ h[{}] = NothingShown
    BY <1>3 DEF IterOf
  <2> HIDE DEF Op, s, n, G
  <2> QED BY <1>1, <2>1, <2>2
<1>5. PICK iter : iter = E(iter) /\ ShownAll(stream) = iter[DOMAIN s]
  <2>1. ShownAll(stream) = (CHOOSE iter : iter = E(iter))[DOMAIN s]
    BY DEF ShownAll, FoldLeft, MapThenFoldSet
  <2> HIDE DEF E
  <2> QED BY <1>4, <2>1
<1>6. iter[{}] = NothingShown
  BY <1>5
<1>7. ASSUME NEW S \in SUBSET (1 .. n), S # {}, iter[S \ {Max(S)}] = h[S \ {Max(S)}]
      PROVE  iter[S] = h[S]
  <2> HIDE DEF Op, s, n, G
  <2>1. iter[S] = Op(iter[S \ {Max(S)}], s[Max(S)])
    BY <1>1, <1>5, <1>7
  <2>2. h[S] = Op(h[S \ {Max(S)}], s[Max(S)])
    BY <1>1, <1>4, <1>7
  <2> QED BY <2>1, <2>2, <1>7
<1> HIDE DEF Op, s, n, G, E
<1>8. \E f : StagesOf(f, n, Shown, NothingShown, G) /\ iter[1 .. n] = f[n]
  <2>1. Follows(iter, h, n)
    BY <1>7 DEF Follows
  <2> QED BY <1>1, <1>2, <1>3, <1>6, <2>1, FoldIsLastStage
<1> QED BY <1>1, <1>5, <1>8 DEF n, G

LEMMA ShownNext ==
  /\ ShownAll(<<>>) = NothingShown
  /\ \A s \in Seq(Snippets) : ShownAll(s) \in Shown
  /\ \A s \in Seq(Snippets), e \in Snippets : ShownAll(Append(s, e)) = Show(ShownAll(s), e)
<1>1. ShownAll(<<>>) = NothingShown
  <2>1. PICK s \in Seq(Snippets) : s = <<>> /\ Len(s) = 0
    BY EmptySeq
  <2>2. PICK f : StagesOf(f, Len(s), Shown, NothingShown, ShowStep(s)) /\ ShownAll(s) = f[Len(s)]
    BY ShownStages
  <2> QED BY <2>1, <2>2 DEF StagesOf
<1>2. ASSUME NEW s \in Seq(Snippets) PROVE ShownAll(s) \in Shown
  <2>1. PICK f : StagesOf(f, Len(s), Shown, NothingShown, ShowStep(s)) /\ ShownAll(s) = f[Len(s)]
    BY ShownStages
  <2>2. Len(s) \in 0 .. Len(s)
    OBVIOUS
  <2> QED BY <2>1, <2>2 DEF StagesOf
<1>3. ASSUME NEW s \in Seq(Snippets), NEW e \in Snippets
      PROVE  ShownAll(Append(s, e)) = Show(ShownAll(s), e)
  <2>1. PICK n \in Nat : n = Len(s)
    OBVIOUS
  <2>9. PICK t : t = Append(s, e)
    OBVIOUS
  <2>2. /\ t \in Seq(Snippets) /\ Len(t) = n + 1 /\ t[n + 1] = e
        /\ \A i \in 1 .. n : t[i] = s[i]
    BY <2>1, <2>9, AppendProperties
  <2>3. PICK f : StagesOf(f, n, Shown, NothingShown, ShowStep(s)) /\ ShownAll(s) = f[n]
    BY <2>1, ShownStages
  <2>4. PICK g : StagesOf(g, n + 1, Shown, NothingShown, ShowStep(t)) /\ ShownAll(t) = g[n + 1]
    BY <2>2, ShownStages
  <2>5. SameSteps(ShowStep(s), ShowStep(t), n)
    <3>1. ASSUME NEW i \in 1 .. n PROVE ShowStep(s)[i] = ShowStep(t)[i]
      <4>1. i \in 1 .. Len(s) /\ i \in 1 .. Len(t) /\ t[i] = s[i]
        BY <2>1, <2>2
      <4> QED BY <4>1 DEF ShowStep
    <3> QED BY <3>1 DEF SameSteps
  <2>6. f[n] = g[n] /\ f[n] \in Shown
    <3>1. n + 1 \in Nat /\ n <= n /\ n <= n + 1
      OBVIOUS
    <3> QED BY <2>3, <2>4, <2>5, <3>1, StagesAgree
  <2>7. g[n + 1] = ShowStep(t)[n + 1][g[n]]
    <3>1. n + 1 \in 1 .. n + 1 /\ (n + 1) - 1 = n
      OBVIOUS
    <3> QED BY <2>4, <3>1 DEF StagesOf
  <2>8. ShowStep(t)[n + 1][g[n]] = Show(g[n], t[n + 1])
    <3>1. n + 1 \in 1 .. Len(t) /\ g[n] \in Shown
      BY <2>2, <2>6
    <3> QED BY <3>1 DEF ShowStep
  <2> QED BY <2>2, <2>3, <2>4, <2>6, <2>7, <2>8, <2>9
<1> QED BY <1>1, <1>2, <1>3

-----------------------------------------------------------------------------
(* Paths *)

Longer(key, part) == (IF key = <<>> THEN key ELSE Append(key, ".")) \o normalizeKey(part)
KeyStep(path) ==
  [i \in 1 .. Len(path) |-> [key \in Text |-> Longer(key, path[i])]]

LEMMA KeyStepType == \A key, part \in Text : Longer(key, part) \in Text
<1> SUFFICES ASSUME NEW key \in Text, NEW part \in Text PROVE Longer(key, part) \in Text
  OBVIOUS
<1>1. PICK dot \in Word : dot = "."
  BY MarksAreWords
<1>2. Append(key, dot) \in Text
  BY AppendProperties DEF Text
<1>3. normalizeKey(part) \in Text
  BY NormalizeKeyIs
<1> QED BY <1>1, <1>2, <1>3, Join DEF Longer

LEMMA FlatKeyStages ==
  ASSUME NEW path \in Seq(Text)
  PROVE  \E f : /\ StagesOf(f, Len(path), Text, <<>>, KeyStep(path))
                /\ FlatKey(path) = f[Len(path)]
<1> DEFINE n == Len(path)
           G == KeyStep(path)
           s == [i \in DOMAIN path |-> i]
           Op(x, e) == Longer(x, path[e])
           E(h) == [S \in SUBSET (DOMAIN s) |->
                      IF S = {} THEN <<>> ELSE Op(h[S \ {Max(S)}], s[Max(S)])]
<1>1. n \in Nat /\ DOMAIN s = 1 .. n /\ <<>> \in Text
  BY Join
<1>2. G \in [1 .. n -> [Text -> Text]] /\ \A i \in 1 .. n, x \in Text : G[i][x] = Op(x, s[i])
  <2>1. \A i \in 1 .. n, x \in Text : Op(x, s[i]) \in Text
    <3>1. \A i \in 1 .. n : path[i] \in Text /\ s[i] = i
      OBVIOUS
    <3> QED BY <3>1, KeyStepType
  <2>2. \A i \in 1 .. n : s[i] = i
    OBVIOUS
  <2>3. \A i \in 1 .. n, x \in Text : Longer(x, path[i]) \in Text /\ Op(x, s[i]) = Longer(x, path[i])
    BY <2>1, <2>2
  <2> HIDE DEF s, Op
  <2> QED BY <2>3 DEF KeyStep
<1>3. PICK h : IterOf(h, n, Text, <<>>, G)
  <2> HIDE DEF G, n, s, Op
  <2> QED BY <1>1, <1>2, IterExists
<1>4. h = E(h)
  <2>1. ASSUME NEW S \in SUBSET (1 .. n), S # {} PROVE h[S] = Op(h[S \ {Max(S)}], s[Max(S)])
    <3> HIDE DEF Op, s, G
    <3>1. Max(S) \in 1 .. n
      BY <1>1, <2>1, MaxOf
    <3>2. h[S \ {Max(S)}] \in Text /\ h[S] = G[Max(S)][h[S \ {Max(S)}]]
      BY <1>3, <2>1 DEF IterOf
    <3> QED BY <1>2, <3>1, <3>2
  <2>2. h \in [SUBSET (1 .. n) -> Text] /\ h[{}] = <<>>
    BY <1>3 DEF IterOf
  <2> HIDE DEF Op, s, n, G
  <2> QED BY <1>1, <2>1, <2>2
<1>5. PICK iter : iter = E(iter) /\ FlatKey(path) = iter[DOMAIN s]
  <2>1. FlatKey(path) = (CHOOSE iter : iter = E(iter))[DOMAIN s]
    BY DEF FlatKey, FoldLeftDomain, Longer, FoldLeft, MapThenFoldSet
  <2> HIDE DEF E
  <2> QED BY <1>4, <2>1
<1>6. iter[{}] = <<>>
  BY <1>5
<1>7. ASSUME NEW S \in SUBSET (1 .. n), S # {}, iter[S \ {Max(S)}] = h[S \ {Max(S)}]
      PROVE  iter[S] = h[S]
  <2> HIDE DEF Op, s, n, G
  <2>1. iter[S] = Op(iter[S \ {Max(S)}], s[Max(S)])
    BY <1>1, <1>5, <1>7
  <2>2. h[S] = Op(h[S \ {Max(S)}], s[Max(S)])
    BY <1>1, <1>4, <1>7
  <2> QED BY <2>1, <2>2, <1>7
<1> HIDE DEF Op, s, n, G, E
<1>8. \E f : StagesOf(f, n, Text, <<>>, G) /\ iter[1 .. n] = f[n]
  <2>1. Follows(iter, h, n)
    BY <1>7 DEF Follows
  <2> QED BY <1>1, <1>2, <1>3, <1>6, <2>1, FoldIsLastStage
<1> QED BY <1>1, <1>5, <1>8 DEF n, G

LEMMA FlatKeyIs ==
  /\ \A path \in Seq(Text) : FlatKey(path) \in Text
  /\ \A key \in Text : FlatKey(<<key>>) = normalizeKey(key)
<1>1. ASSUME NEW path \in Seq(Text) PROVE FlatKey(path) \in Text
  <2>1. PICK f : StagesOf(f, Len(path), Text, <<>>, KeyStep(path)) /\ FlatKey(path) = f[Len(path)]
    BY FlatKeyStages
  <2>2. Len(path) \in 0 .. Len(path)
    OBVIOUS
  <2> QED BY <2>1, <2>2 DEF StagesOf
<1>2. ASSUME NEW key \in Text PROVE FlatKey(<<key>>) = normalizeKey(key)
  <2>1. PICK path : path = <<key>>
    OBVIOUS
  <2>2. path \in Seq(Text) /\ Len(path) = 1 /\ path[1] = key
    BY <2>1
  <2>3. PICK f : StagesOf(f, 1, Text, <<>>, KeyStep(path)) /\ FlatKey(path) = f[1]
    BY <2>2, FlatKeyStages
  <2>4. 1 - 1 = 0 /\ 1 \in 1 .. 1
    OBVIOUS
  <2>5. f[1] = KeyStep(path)[1][f[0]] /\ f[0] = <<>>
    BY <2>3, <2>4 DEF StagesOf
  <2>6. PICK e : e = <<>> /\ e \in Text
    BY Join
  <2>7. KeyStep(path)[1][e] = e \o normalizeKey(key)
    BY <2>2, <2>4, <2>6 DEF KeyStep, Longer
  <2>8. e \o normalizeKey(key) = normalizeKey(key)
    BY <2>6, NormalizeKeyIs, Join
  <2> QED BY <2>1, <2>3, <2>5, <2>6, <2>7, <2>8
<1> QED BY <1>1, <1>2
=============================================================================
