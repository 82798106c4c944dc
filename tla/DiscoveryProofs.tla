---------------------------- MODULE DiscoveryProofs ----------------------------
(***************************************************************************)
(* TLAPS proofs about the response pipeline and, with a document coming    *)
(* in, about Discovery: the types, what leaves the server for every        *)
(* request, that the facts served are current, and that a share link       *)
(* keeps its meaning.  What the parsers make of a document is in           *)
(* TableProofs.                                                            *)
(*                                                                         *)
(* The argument goes up: what InsertAt does to a page, what InjectLinks    *)
(* does to it, what each writer does with the body passed down to it, the  *)
(* invariant of the pipeline, its steps, and what follows from it.         *)
(***************************************************************************)
EXTENDS TableProofs

(* Sequences                                                                *)

\* SelectInSeq finds the first element equal to p, if there is one.
LEMMA SelectedIs ==
  ASSUME NEW S, NEW s \in Seq(S), NEW p
  PROVE  LET i == SelectInSeq(s, LAMBDA t : t = p)
         IN  \/ i = 0 /\ p \notin ToSet(s)
             \/ /\ i \in 1 .. Len(s) /\ s[i] = p
                /\ \A j \in 1 .. i - 1 : s[j] # p
<1> DEFINE I == {i \in 1 .. Len(s) : s[i] = p}
           f == IF I # {} THEN Min(I) ELSE 0
<1>1. SelectInSeq(s, LAMBDA t : t = p) = f
  BY DEF SelectInSeq
<1>2. DOMAIN s = 1 .. Len(s) /\ Len(s) \in Nat
  BY LenProperties
<1>3. CASE I = {}
  <2>1. p \notin ToSet(s)
    BY <1>2, <1>3 DEF ToSet
  <2> QED BY <2>1, <1>1, <1>3
<1>4. CASE I # {}
  <2>1. f \in I /\ \A y \in I : f <= y
    <3>1. I \in SUBSET Nat
      OBVIOUS
    <3> HIDE DEF I
    <3> QED BY <3>1, <1>4, MinOfNats
  <2>2. \A j \in 1 .. f - 1 : s[j] # p
    BY <2>1, <1>2
  <2> QED BY <2>1, <2>2, <1>1
<1> QED BY <1>3, <1>4

LEMMA InsertAtIs ==
  ASSUME NEW S, NEW s \in Seq(S), NEW e \in S, NEW i \in 1 .. Len(s) + 1
  PROVE  /\ InsertAt(s, i, e) \in Seq(S)
         /\ Len(InsertAt(s, i, e)) = Len(s) + 1
         /\ \A j \in 1 .. Len(s) + 1 :
              InsertAt(s, i, e)[j] = IF j < i THEN s[j] ELSE IF j = i THEN e ELSE s[j - 1]
<1> DEFINE a == SubSeq(s, 1, i - 1)
           c == SubSeq(s, i, Len(s))
<1>0. Len(s) \in Nat /\ \A k \in 1 .. Len(s) : s[k] \in S
  BY LenProperties, ElementOfSeq
<1>1. /\ a \in Seq(S) /\ Len(a) = i - 1
      /\ \A k \in 1 .. i - 1 : a[k] = s[k]
  <2>1. \A k \in 1 .. i - 1 : s[k] \in S
    BY <1>0
  <2> QED BY <1>0, <2>1, SubSeqProperties
<1>2. /\ c \in Seq(S) /\ Len(c) = Len(s) - i + 1
      /\ \A k \in 1 .. Len(s) - i + 1 : c[k] = s[i + k - 1]
  <2>1. \A k \in i .. Len(s) : s[k] \in S
    BY <1>0
  <2> HIDE DEF c
  <2>2. /\ c \in Seq(S) /\ Len(c) = IF i <= Len(s) THEN Len(s) - i + 1 ELSE 0
        /\ \A k \in 1 .. Len(s) - i + 1 : c[k] = s[i + k - 1]
    BY <1>0, <2>1, SubSeqProperties DEF c
  <2> QED BY <1>0, <2>2
<1> DEFINE b == <<e>>
<1>3. b \in Seq(S) /\ Len(b) = 1 /\ b[1] = e
  OBVIOUS
<1> HIDE DEF a, b, c
<1>4. /\ a \o b \in Seq(S) /\ Len(a \o b) = i
      /\ \A j \in 1 .. i : (a \o b)[j] = IF j <= i - 1 THEN a[j] ELSE b[j - (i - 1)]
  <2>1. Len(a) + Len(b) = i
    BY <1>0, <1>1, <1>3
  <2>2. /\ a \o b \in Seq(S) /\ Len(a \o b) = Len(a) + Len(b)
        /\ \A j \in 1 .. Len(a) + Len(b) :
             (a \o b)[j] = IF j <= Len(a) THEN a[j] ELSE b[j - Len(a)]
    BY <1>1, <1>3, ConcatProperties
  <2> QED BY <1>1, <2>1, <2>2
<1>5. /\ (a \o b) \o c \in Seq(S) /\ Len((a \o b) \o c) = Len(s) + 1
      /\ \A j \in 1 .. Len(s) + 1 :
           ((a \o b) \o c)[j] = IF j <= i THEN (a \o b)[j] ELSE c[j - i]
  <2> DEFINE d == a \o b
  <2>0. d \in Seq(S) /\ Len(d) = i
    BY <1>4
  <2> HIDE DEF d
  <2>1. Len(d) + Len(c) = Len(s) + 1
    BY <1>0, <1>2, <2>0
  <2>2. /\ d \o c \in Seq(S) /\ Len(d \o c) = Len(d) + Len(c)
        /\ \A j \in 1 .. Len(d) + Len(c) :
             (d \o c)[j] = IF j <= Len(d) THEN d[j] ELSE c[j - Len(d)]
    BY <1>2, <2>0, ConcatProperties
  <2>3. /\ d \o c \in Seq(S) /\ Len(d \o c) = Len(s) + 1
        /\ \A j \in 1 .. Len(s) + 1 : (d \o c)[j] = IF j <= i THEN d[j] ELSE c[j - i]
    BY <2>0, <2>1, <2>2
  <2> QED BY <2>3 DEF d
<1>6. InsertAt(s, i, e) = (a \o b) \o c
  BY DEF InsertAt, a, b, c
<1>7. ASSUME NEW j \in 1 .. Len(s) + 1
      PROVE  ((a \o b) \o c)[j] = IF j < i THEN s[j] ELSE IF j = i THEN e ELSE s[j - 1]
  <2>1. CASE j < i
    BY <2>1, <1>0, <1>1, <1>4, <1>5
  <2>2. CASE j = i
    <3>1. i \in 1 .. i /\ ~(i <= i - 1) /\ i - (i - 1) = 1
      BY <1>0
    <3>2. (a \o b)[i] = b[1]
      BY <3>1, <1>4
    <3>4. ~(j < i) /\ j <= i
      BY <2>2, <1>0
    <3>3. ((a \o b) \o c)[j] = (a \o b)[j]
      BY <3>4, <1>5
    <3> QED BY <2>2, <3>2, <3>3, <3>4, <1>3
  <2>3. CASE j > i
    <3>1. j - i \in 1 .. Len(s) - i + 1 /\ i + (j - i) - 1 = j - 1
      BY <2>3, <1>0
    <3>2. c[j - i] = s[j - 1]
      BY <3>1, <1>2
    <3>4. j \in 1 .. Len(s) + 1 /\ ~ (j <= i)
      BY <2>3, <1>0
    <3>3. ((a \o b) \o c)[j] = c[j - i]
      BY <3>4, <1>5
    <3> QED BY <2>3, <3>2, <3>3, <1>0
  <2>4. j < i \/ j = i \/ j > i
    BY <1>0
  <2> QED BY <2>1, <2>2, <2>3, <2>4
<1> QED BY <1>5, <1>6, <1>7
-----------------------------------------------------------------------------
(* Insertion *)

(* What an insertion of a piece that was not there does to positions.       *)
LEMMA InsertedOnce ==
  ASSUME NEW S, NEW s \in Seq(S), NEW e \in S, e \notin ToSet(s), NEW q \in 1 .. Len(s) + 1
  PROVE  \A j \in 1 .. Len(s) + 1 : InsertAt(s, q, e)[j] = e <=> j = q
<1>0. Len(s) \in Nat /\ \A j \in 1 .. Len(s) : s[j] # e
  BY LenProperties DEF ToSet
<1> DEFINE t == InsertAt(s, q, e)
<1>1. \A j \in 1 .. Len(s) + 1 : t[j] = IF j < q THEN s[j] ELSE IF j = q THEN e ELSE s[j - 1]
  BY InsertAtIs
<1> HIDE DEF t
<1>2. ASSUME NEW j \in 1 .. Len(s) + 1 PROVE t[j] = e <=> j = q
  <2>1. CASE j < q
    <3>1. j \in 1 .. Len(s) /\ j # q
      BY <2>1, <1>0
    <3> QED BY <3>1, <2>1, <1>0, <1>1
  <2>2. CASE j = q
    <3>1. ~(j < q)
      BY <2>2, <1>0
    <3> QED BY <2>2, <3>1, <1>1
  <2>3. CASE j > q
    <3>1. j - 1 \in 1 .. Len(s) /\ j # q /\ ~(j < q)
      BY <2>3, <1>0
    <3> QED BY <3>1, <1>0, <1>1
  <2>4. j < q \/ j = q \/ j > q
    BY <1>0
  <2> QED BY <2>1, <2>2, <2>3, <2>4
<1> QED BY <1>2 DEF t

LEMMA KeptByInsertion ==
  ASSUME NEW S, NEW b \in Seq(S), NEW s \in Seq(S), NEW A, NEW e \in S,
         Arrives(b, s, A), e \notin ToSet(s), NEW q \in 1 .. Len(s) + 1
  PROVE  Arrives(b, InsertAt(s, q, e), A \cup {e})
<1> DEFINE t == InsertAt(s, q, e)
           up(i) == IF i < q THEN i ELSE i + 1
<1>0. /\ Len(s) \in Nat /\ DOMAIN s = 1 .. Len(s)
      /\ \A j \in 1 .. Len(s) : s[j] # e
      /\ Len(b) \in Nat /\ DOMAIN b = 1 .. Len(b)
  BY LenProperties DEF ToSet
<1>1. /\ t \in Seq(S) /\ Len(t) = Len(s) + 1 /\ DOMAIN t = 1 .. Len(s) + 1
      /\ \A j \in 1 .. Len(s) + 1 : t[j] = IF j < q THEN s[j] ELSE IF j = q THEN e ELSE s[j - 1]
  BY InsertAtIs, LenProperties
<1> HIDE DEF t
<1>2. PICK kept \in [DOMAIN b -> DOMAIN s] :
        /\ \A i, j \in DOMAIN b : i < j => kept[i] < kept[j]
        /\ \A i \in DOMAIN b : s[kept[i]] = b[i]
        /\ {kept[i] : i \in DOMAIN b} = {j \in DOMAIN s : s[j] \notin A}
  BY DEF Arrives
<1> DEFINE new == [i \in DOMAIN b |-> up(kept[i])]
<1>3. \A k \in 1 .. Len(s) : up(k) \in 1 .. Len(s) + 1 /\ up(k) # q /\ t[up(k)] = s[k]
  <2> SUFFICES ASSUME NEW k \in 1 .. Len(s)
               PROVE  up(k) \in 1 .. Len(s) + 1 /\ up(k) # q /\ t[up(k)] = s[k]
    OBVIOUS
  <2>1. CASE k < q
    BY <2>1, <1>0, <1>1
  <2>2. CASE ~(k < q)
    <3>1. k + 1 \in 1 .. Len(s) + 1 /\ ~(k + 1 < q) /\ k + 1 # q /\ (k + 1) - 1 = k
      BY <2>2, <1>0
    <3> QED BY <2>2, <3>1, <1>1
  <2> QED BY <2>1, <2>2
<1>4. \A k, m \in 1 .. Len(s) : k < m => up(k) < up(m)
  BY <1>0
<1>5. new \in [DOMAIN b -> DOMAIN t]
  BY <1>0, <1>1, <1>2, <1>3
<1>6. \A i, j \in DOMAIN b : i < j => new[i] < new[j]
  BY <1>0, <1>2, <1>4
<1>7. \A i \in DOMAIN b : t[new[i]] = b[i]
  BY <1>0, <1>2, <1>3
<1>8. {new[i] : i \in DOMAIN b} = {j \in DOMAIN t : t[j] \notin A \cup {e}}
  <2>1. ASSUME NEW i \in DOMAIN b
        PROVE  new[i] \in DOMAIN t /\ t[new[i]] \notin A \cup {e}
    <3>1. kept[i] \in DOMAIN s /\ s[kept[i]] \notin A /\ s[kept[i]] # e
      BY <1>0, <1>2
    <3> QED BY <3>1, <1>0, <1>1, <1>3
  <2>2. ASSUME NEW j \in DOMAIN t, t[j] \notin A \cup {e}
        PROVE  \E i \in DOMAIN b : new[i] = j
    <3>1. CASE j < q
      <4>1. j \in DOMAIN s /\ s[j] \notin A
        BY <3>1, <2>2, <1>0, <1>1
      <4>2. PICK i \in DOMAIN b : kept[i] = j
        BY <4>1, <1>2
      <4> QED BY <4>2, <3>1
    <3>2. CASE j = q
      <4>1. ~(j < q)
        BY <3>2, <1>0
      <4> QED BY <3>2, <2>2, <1>1, <4>1
    <3>3. CASE j > q
      <4>1. j - 1 \in DOMAIN s /\ ~(j < q) /\ j # q /\ ~(j - 1 < q) /\ (j - 1) + 1 = j
        BY <3>3, <1>0, <1>1
      <4>2. s[j - 1] \notin A
        BY <4>1, <2>2, <1>1
      <4>3. PICK i \in DOMAIN b : kept[i] = j - 1
        BY <4>1, <4>2, <1>2
      <4> QED BY <4>1, <4>3
    <3>4. j < q \/ j = q \/ j > q
      BY <1>0, <1>1
    <3> QED BY <3>1, <3>2, <3>3, <3>4
  <2> HIDE DEF new
  <2>3. {new[i] : i \in DOMAIN b} \subseteq {j \in DOMAIN t : t[j] \notin A \cup {e}}
    BY <2>1
  <2>4. {j \in DOMAIN t : t[j] \notin A \cup {e}} \subseteq {new[i] : i \in DOMAIN b}
    BY <2>2
  <2> QED BY <2>3, <2>4
<1> HIDE DEF new
<1>9. Arrives(b, t, A \cup {e})
  BY <1>5, <1>6, <1>7, <1>8 DEF Arrives
<1> QED BY <1>9 DEF t

LEMMA KeptUnchanged ==
  ASSUME NEW S, NEW b \in Seq(S), NEW s \in Seq(S), NEW A, NEW e,
         Arrives(b, s, A), e \notin ToSet(s)
  PROVE  Arrives(b, s, A \cup {e})
<1>1. {j \in DOMAIN s : s[j] \notin A} = {j \in DOMAIN s : s[j] \notin A \cup {e}}
  BY DEF ToSet
<1> QED BY <1>1 DEF Arrives

LEMMA KeptItself ==
  ASSUME NEW S, NEW b \in Seq(S)
  PROVE  Arrives(b, b, {})
<1> DEFINE kept == [i \in DOMAIN b |-> i]
<1>1. /\ kept \in [DOMAIN b -> DOMAIN b]
      /\ \A i, j \in DOMAIN b : i < j => kept[i] < kept[j]
      /\ \A i \in DOMAIN b : b[kept[i]] = b[i]
      /\ {kept[i] : i \in DOMAIN b} = {j \in DOMAIN b : b[j] \notin {}}
  OBVIOUS
<1> QED BY <1>1 DEF Arrives

-----------------------------------------------------------------------------
(* InjectLinks *)

Said == Pieces \cup {"error"}
Rewritten == Said \cup Added

LEMMA HeadLinksAre ==
  ASSUME NEW b \in Seq(Said)
  PROVE  LET h == injectHeadLinks(b)
         IN  /\ h \in Seq(Rewritten)
             /\ Arrives(b, h, {"links"}) /\ LinksPlaced(b, h)
             /\ "footer" \notin ToSet(h)
             /\ "/body" \in ToSet(h) <=> "/body" \in ToSet(b)
<1> DEFINE h == injectHeadLinks(b)
           p == SelectInSeq(b, LAMBDA piece : piece = "head")
<1>1. /\ b \in Seq(Rewritten) /\ Len(b) \in Nat /\ DOMAIN b = 1 .. Len(b)
      /\ \A j \in 1 .. Len(b) : b[j] \in Said
  BY LenProperties, ElementOfSeq, SeqMonotonic DEF Rewritten
<1>2. "links" \notin ToSet(b) /\ "footer" \notin ToSet(b)
  BY <1>1 DEF ToSet, Said, Pieces
<1>3. \/ p = 0 /\ "head" \notin ToSet(b)
      \/ p \in 1 .. Len(b) /\ b[p] = "head" /\ \A j \in 1 .. p - 1 : b[j] # "head"
  BY SelectedIs
<1>4. h = IF p = 0 THEN b ELSE InsertAt(b, p + 1, "links")
  BY DEF injectHeadLinks
<1>5. "links" \in Rewritten
  BY DEF Rewritten, Added
<1>6. Arrives(b, b, {})
  BY KeptItself
<1> HIDE DEF h, p
<1>7. CASE p = 0
  <2>1. h = b /\ "head" \notin ToSet(b)
    BY <1>7, <1>3, <1>4
  <2>2. Arrives(b, b, {} \cup {"links"})
    BY <1>1, <1>2, <1>6, KeptUnchanged
  <2> QED BY <2>1, <2>2, <1>1, <1>2 DEF LinksPlaced, h
<1>8. CASE p # 0
  <2>1. h = InsertAt(b, p + 1, "links") /\ p \in 1 .. Len(b) /\ p + 1 \in 1 .. Len(b) + 1
    BY <1>8, <1>1, <1>3, <1>4
  <2>2. /\ h \in Seq(Rewritten) /\ Len(h) = Len(b) + 1
        /\ \A j \in 1 .. Len(b) + 1 :
             h[j] = IF j < p + 1 THEN b[j] ELSE IF j = p + 1 THEN "links" ELSE b[j - 1]
    <3> DEFINE e == "links"
               i == p + 1
    <3>1. e \in Rewritten /\ i \in 1 .. Len(b) + 1 /\ h = InsertAt(b, i, e)
      BY <1>5, <2>1
    <3> HIDE DEF e, i
    <3>2. /\ h \in Seq(Rewritten) /\ Len(h) = Len(b) + 1
          /\ \A j \in 1 .. Len(b) + 1 :
               h[j] = IF j < i THEN b[j] ELSE IF j = i THEN e ELSE b[j - 1]
      <4>0. b \in Seq(Rewritten) /\ e \in Rewritten /\ i \in 1 .. Len(b) + 1
        BY <1>1, <3>1
      <4>1. /\ InsertAt(b, i, e) \in Seq(Rewritten) /\ Len(InsertAt(b, i, e)) = Len(b) + 1
            /\ \A j \in 1 .. Len(b) + 1 : InsertAt(b, i, e)[j] =
                 IF j < i THEN b[j] ELSE IF j = i THEN e ELSE b[j - 1]
        BY <4>0, InsertAtIs
      <4> QED BY <4>1, <3>1
    <3> QED BY <3>2 DEF e, i
  <2>3. DOMAIN h = 1 .. Len(b) + 1
    BY <2>2, LenProperties
  <2>4. Arrives(b, h, {} \cup {"links"})
    BY <1>1, <1>2, <1>5, <1>6, <2>1, KeptByInsertion
  <2>5. \A j \in 1 .. Len(b) + 1 : h[j] = "links" <=> j = p + 1
    BY <1>1, <1>2, <1>5, <2>1, InsertedOnce
  <2>6. b[p] = "head" /\ \A j \in 1 .. p - 1 : b[j] # "head"
    BY <1>3, <1>8
  <2>7. h[p] = "head" /\ \A j \in 1 .. p - 1 : h[j] # "head"
    <3>1. ASSUME NEW j \in 1 .. p PROVE h[j] = b[j]
      <4>1. j \in 1 .. Len(b) + 1 /\ j < p + 1
        BY <1>1, <2>1
      <4> QED BY <2>2, <4>1
    <3>2. p \in 1 .. p /\ \A j \in 1 .. p - 1 : j \in 1 .. p
      BY <1>1, <2>1
    <3> QED BY <2>6, <3>1, <3>2
  <2>8. "head" \in ToSet(b)
    BY <1>1, <2>1, <2>6 DEF ToSet
  <2>9. LinksPlaced(b, h)
    <3>1. p + 1 \in 2 .. Len(h) /\ (p + 1) - 1 = p
      BY <1>1, <2>1, <2>2
    <3>2. Only(h, p + 1, "links")
      BY <2>3, <2>5 DEF Only
    <3>3. First(h, (p + 1) - 1, "head")
      BY <3>1, <2>7 DEF First
    <3> QED BY <3>1, <3>2, <3>3, <2>8 DEF LinksPlaced
  <2>10. \A x \in {"footer", "/body"} : x \in ToSet(h) <=> x \in ToSet(b)
    <3> SUFFICES ASSUME NEW x \in {"footer", "/body"} PROVE x \in ToSet(h) <=> x \in ToSet(b)
      OBVIOUS
    <3>1. ASSUME NEW j \in DOMAIN h, h[j] = x PROVE x \in ToSet(b)
      <4>1. CASE j < p + 1
        <5>1. j \in DOMAIN b /\ b[j] = x
          BY <4>1, <3>1, <1>1, <2>1, <2>2, <2>3
        <5> QED BY <5>1 DEF ToSet
      <4>2. CASE ~(j < p + 1)
        <5>1. j # p + 1
          BY <3>1, <2>3, <2>5
        <5>2. j - 1 \in DOMAIN b /\ b[j - 1] = x
          BY <4>2, <5>1, <3>1, <1>1, <2>1, <2>2, <2>3
        <5> QED BY <5>2 DEF ToSet
      <4> QED BY <4>1, <4>2
    <3>2. ASSUME NEW j \in DOMAIN b, b[j] = x PROVE x \in ToSet(h)
      <4>1. CASE j < p + 1
        <5>1. j \in DOMAIN h /\ h[j] = x
          BY <4>1, <3>2, <1>1, <2>1, <2>2, <2>3
        <5> QED BY <5>1 DEF ToSet
      <4>2. CASE ~(j < p + 1)
        <5>1. j + 1 \in DOMAIN h /\ ~(j + 1 < p + 1) /\ j + 1 # p + 1 /\ (j + 1) - 1 = j
          BY <4>2, <1>1, <2>1, <2>3
        <5>2. h[j + 1] = x
          BY <5>1, <3>2, <2>2, <2>3
        <5> QED BY <5>1, <5>2 DEF ToSet
      <4> QED BY <4>1, <4>2
    <3> QED BY <3>1, <3>2 DEF ToSet
  <2> QED BY <1>2, <2>2, <2>4, <2>9, <2>10 DEF h
<1> QED BY <1>7, <1>8

LEMMA FooterLinkIs ==
  ASSUME NEW h \in Seq(Rewritten), "footer" \notin ToSet(h), NEW b, LinksPlaced(b, h)
  PROVE  LET s == injectHiddenFooterLink(h)
         IN  /\ s \in Seq(Rewritten)
             /\ LinksPlaced(b, s) /\ FooterPlaced(h, s)
             /\ \A c \in Seq(Said) : Arrives(c, h, {"links"}) => Arrives(c, s, Added)
<1> DEFINE s == injectHiddenFooterLink(h)
           q == SelectInSeq(h, LAMBDA piece : piece = "/body")
<1>1. /\ Len(h) \in Nat /\ DOMAIN h = 1 .. Len(h)
      /\ \A c \in Seq(Said) : c \in Seq(Rewritten)
  BY LenProperties, SeqMonotonic DEF Rewritten
<1>3. \/ q = 0 /\ "/body" \notin ToSet(h)
      \/ q \in 1 .. Len(h) /\ h[q] = "/body" /\ \A j \in 1 .. q - 1 : h[j] # "/body"
  BY SelectedIs
<1>4. s = IF q = 0 THEN h ELSE InsertAt(h, q, "footer")
  BY DEF injectHiddenFooterLink
<1>5. "footer" \in Rewritten /\ {"links"} \cup {"footer"} = Added
  BY DEF Rewritten, Added
<1> HIDE DEF s, q
<1>7. CASE q = 0
  <2>1. s = h /\ "/body" \notin ToSet(h)
    BY <1>7, <1>3, <1>4
  <2>2. \A c \in Seq(Said) : Arrives(c, h, {"links"}) => Arrives(c, h, {"links"} \cup {"footer"})
    BY <1>1, KeptUnchanged
  <2> QED BY <2>1, <2>2, <1>5 DEF FooterPlaced, s
<1>8. CASE q # 0
  <2>1. s = InsertAt(h, q, "footer") /\ q \in 1 .. Len(h) /\ q \in 1 .. Len(h) + 1
    BY <1>8, <1>1, <1>3, <1>4
  <2>2. /\ s \in Seq(Rewritten) /\ Len(s) = Len(h) + 1
        /\ \A j \in 1 .. Len(h) + 1 :
             s[j] = IF j < q THEN h[j] ELSE IF j = q THEN "footer" ELSE h[j - 1]
    <3> DEFINE e == "footer"
    <3>1. e \in Rewritten /\ s = InsertAt(h, q, e)
      BY <1>5, <2>1
    <3> HIDE DEF e
    <3>2. /\ s \in Seq(Rewritten) /\ Len(s) = Len(h) + 1
          /\ \A j \in 1 .. Len(h) + 1 :
               s[j] = IF j < q THEN h[j] ELSE IF j = q THEN e ELSE h[j - 1]
      <4>0. h \in Seq(Rewritten) /\ e \in Rewritten /\ q \in 1 .. Len(h) + 1
        BY <1>1, <2>1, <3>1
      <4>1. /\ InsertAt(h, q, e) \in Seq(Rewritten) /\ Len(InsertAt(h, q, e)) = Len(h) + 1
            /\ \A j \in 1 .. Len(h) + 1 : InsertAt(h, q, e)[j] =
                 IF j < q THEN h[j] ELSE IF j = q THEN e ELSE h[j - 1]
        BY <4>0, InsertAtIs
      <4> QED BY <4>1, <3>1
    <3> QED BY <3>2 DEF e
  <2>3. DOMAIN s = 1 .. Len(h) + 1
    BY <2>2, LenProperties
  <2>4. \A c \in Seq(Said) : Arrives(c, h, {"links"}) => Arrives(c, s, {"links"} \cup {"footer"})
    BY <1>1, <1>5, <2>1, KeptByInsertion
  <2>5. \A j \in 1 .. Len(h) + 1 : s[j] = "footer" <=> j = q
    BY <1>1, <1>5, <2>1, InsertedOnce
  <2>6. h[q] = "/body" /\ \A j \in 1 .. q - 1 : h[j] # "/body"
    BY <1>3, <1>8
  <2>7. FooterPlaced(h, s)
    <3>1. /\ q \in 1 .. Len(s) - 1 /\ q + 1 \in 1 .. Len(h) + 1
          /\ ~(q + 1 < q) /\ q + 1 # q /\ (q + 1) - 1 = q
      BY <1>1, <2>1, <2>2
    <3>2. s[q + 1] = "/body"
      BY <3>1, <2>2, <2>6
    <3>3. \A j \in 1 .. q : s[j] # "/body"
      <4> SUFFICES ASSUME NEW j \in 1 .. q PROVE s[j] # "/body"
        OBVIOUS
      <4>1. CASE j = q
        BY <4>1, <2>1, <2>5
      <4>2. CASE j # q
        <5>1. j \in 1 .. q - 1 /\ j < q /\ j \in 1 .. Len(h) + 1
          BY <4>2, <2>1, <1>1
        <5> QED BY <5>1, <2>2, <2>6
      <4> QED BY <4>1, <4>2
    <3>4. "/body" \in ToSet(h)
      BY <1>1, <2>1, <2>6 DEF ToSet
    <3>5. Only(s, q, "footer")
      BY <2>3, <2>5 DEF Only
    <3>6. First(s, q + 1, "/body")
      BY <3>1, <3>2, <3>3 DEF First
    <3> QED BY <3>1, <3>4, <3>5, <3>6 DEF FooterPlaced
  <2>8. LinksPlaced(b, s)
    <3> DEFINE up(k) == IF k < q THEN k ELSE k + 1
    <3>0. ASSUME NEW k \in 1 .. Len(h) PROVE up(k) \in 1 .. Len(s) /\ s[up(k)] = h[k]
      <4>1. CASE k < q
        BY <4>1, <1>1, <2>2
      <4>2. CASE ~(k < q)
        <5>1. k + 1 \in 1 .. Len(h) + 1 /\ ~(k + 1 < q) /\ k + 1 # q /\ (k + 1) - 1 = k
          BY <4>2, <1>1, <2>1
        <5> QED BY <4>2, <5>1, <2>2
      <4> QED BY <4>1, <4>2
    <3>00. ASSUME NEW j \in 1 .. Len(s), j # q
           PROVE  \E k \in 1 .. Len(h) : j = up(k)
      <4>1. CASE j < q
        BY <4>1, <1>1, <2>1
      <4>2. CASE ~(j < q)
        <5>1. j - 1 \in 1 .. Len(h) /\ up(j - 1) = j
          BY <4>2, <3>00, <1>1, <2>1, <2>2
        <5> QED BY <5>1
      <4> QED BY <4>1, <4>2
    <3>1. CASE "head" \in ToSet(b)
      <4>1. PICK i \in 2 .. Len(h) : Only(h, i, "links") /\ First(h, i - 1, "head")
        BY <3>1 DEF LinksPlaced
      <4>2. i \in 1 .. Len(h) /\ i - 1 \in 1 .. Len(h)
        BY <1>1
      <4>3. h[i] = "links" /\ h[i - 1] = "head" /\ \A j \in 1 .. (i - 1) - 1 : h[j] # "head"
        BY <4>1, <4>2, <1>1 DEF Only, First
      <4>4. q # i /\ q # i - 1
        BY <4>3, <2>6
      <4>5. up(i) \in 2 .. Len(s) /\ up(i) - 1 = up(i - 1)
        BY <4>2, <4>4, <1>1, <2>1, <2>2
      <4>6. Only(s, up(i), "links")
        <5> SUFFICES ASSUME NEW j \in 1 .. Len(s) PROVE s[j] = "links" <=> j = up(i)
          BY <2>2, <2>3 DEF Only
        <5>1. CASE j = q
          <6>1. s[j] = "footer"
            BY <5>1, <2>2, <2>5
          <6>2. s[up(i)] = "links"
            BY <3>0, <4>2, <4>3
          <6> QED BY <6>1, <6>2
        <5>2. CASE j # q
          <6>1. PICK k \in 1 .. Len(h) : j = up(k)
            BY <5>2, <3>00
          <6>2. s[j] = h[k]
            BY <6>1, <3>0
          <6>3. h[k] = "links" <=> k = i
            BY <4>1, <1>1 DEF Only
          <6>4. up(k) = up(i) <=> k = i
            BY <4>2, <1>1, <2>1
          <6> QED BY <6>1, <6>2, <6>3, <6>4
        <5> QED BY <5>1, <5>2
      <4>7. First(s, up(i - 1), "head")
        <5>1. s[up(i - 1)] = "head"
          BY <3>0, <4>2, <4>3
        <5>2. ASSUME NEW j \in 1 .. up(i - 1) - 1 PROVE s[j] # "head"
          <6>0. j \in 1 .. Len(s)
            BY <4>2, <1>1, <2>1, <2>2
          <6>1. CASE j = q
            <7>1. s[j] = "footer"
              BY <6>0, <6>1, <2>2, <2>5
            <7> QED BY <7>1
          <6>2. CASE j # q
            <7>1. PICK k \in 1 .. Len(h) : j = up(k)
              BY <6>0, <6>2, <3>00
            <7>2. k \in 1 .. (i - 1) - 1
              BY <7>1, <4>2, <1>1, <2>1
            <7>3. s[j] = h[k]
              BY <7>1, <3>0
            <7> QED BY <7>2, <7>3, <4>3
          <6> QED BY <6>1, <6>2
        <5> QED BY <5>1, <5>2 DEF First
      <4> QED BY <3>1, <4>5, <4>6, <4>7 DEF LinksPlaced
    <3>2. CASE "head" \notin ToSet(b)
      <4>1. \A k \in 1 .. Len(h) : h[k] # "links"
        BY <3>2, <1>1 DEF LinksPlaced, ToSet
      <4>2. ASSUME NEW j \in 1 .. Len(s) PROVE s[j] # "links"
        <5>1. CASE j = q
          <6>1. s[j] = "footer"
            BY <5>1, <2>2, <2>5
          <6> QED BY <6>1
        <5>2. CASE j # q
          <6>1. PICK k \in 1 .. Len(h) : j = up(k)
            BY <5>2, <3>00
          <6> QED BY <6>1, <3>0, <4>1
        <5> QED BY <5>1, <5>2
      <4> QED BY <3>2, <4>2, <2>2, <2>3 DEF LinksPlaced, ToSet
    <3> QED BY <3>1, <3>2
  <2> QED BY <1>5, <2>2, <2>4, <2>7, <2>8 DEF s
<1> QED BY <1>7, <1>8

(* InjectLinks loses nothing of a page, keeps its order, and puts the links *)
(* and the hidden link where they belong, whatever the page.                *)
THEOREM InjectLinksIsSound ==
  ASSUME NEW b \in Seq(Said)
  PROVE  /\ InjectLinks(b) \in Seq(Rewritten)
         /\ Arrives(b, InjectLinks(b), Added)
         /\ LinksPlaced(b, InjectLinks(b)) /\ FooterPlaced(b, InjectLinks(b))
<1> DEFINE h == injectHeadLinks(b)
           s == injectHiddenFooterLink(h)
<1>1. /\ h \in Seq(Rewritten) /\ Arrives(b, h, {"links"}) /\ LinksPlaced(b, h)
      /\ "footer" \notin ToSet(h) /\ ("/body" \in ToSet(h) <=> "/body" \in ToSet(b))
  BY HeadLinksAre
<1> HIDE DEF h
<1>2. /\ s \in Seq(Rewritten) /\ LinksPlaced(b, s) /\ FooterPlaced(h, s)
      /\ Arrives(b, h, {"links"}) => Arrives(b, s, Added)
  BY <1>1, FooterLinkIs
<1>3. InjectLinks(b) = s
  BY DEF InjectLinks, h
<1> HIDE DEF s
<1>4. FooterPlaced(b, s)
  BY <1>1, <1>2 DEF FooterPlaced
<1> QED BY <1>1, <1>2, <1>3, <1>4
-----------------------------------------------------------------------------
(* The writers *)

Writers == [header : Header, page : Page, hint : Hint, wire : Wire]

LEMMA LenOf == \A s \in Sent : Len(s) \in Nat
BY LenProperties DEF Sent

LEMMA ConcatOf == \A s, t \in Sent : s \o t \in Sent /\ Len(s \o t) = Len(s) + Len(t)
BY ConcatProperties DEF Sent

LEMMA SendHeaderIs ==
  ASSUME NEW x \in Writers, NEW s \in Statuses
  PROVE  LET y == SendHeader(x, s)
         IN  /\ y \in Writers
             /\ y.header = x.header /\ y.page = x.page /\ y.hint = x.hint
             /\ y.wire.body = x.wire.body /\ y.wire.flushed = x.wire.flushed
             /\ y.wire.status = (IF x.wire.status = 0 THEN s ELSE x.wire.status)
             /\ y.wire.header = (IF x.wire.status = 0 THEN x.header ELSE x.wire.header)
<1>1. s >= 200 /\ s \in Int
  BY DEF Statuses
<1>2. CASE x.wire.status # 0
  BY <1>1, <1>2 DEF SendHeader
<1>3. CASE x.wire.status = 0
  <2> DEFINE y == [x EXCEPT !.wire.status = s, !.wire.header = x.header]
  <2>1. SendHeader(x, s) = y
    BY <1>1, <1>3 DEF SendHeader
  <2>2. x.wire \in Wire /\ x.header \in Header
    BY DEF Writers
  <2>3. y.wire = [x.wire EXCEPT !.status = s, !.header = x.header]
    BY DEF Writers
  <2>4. /\ y.wire \in Wire
        /\ y.wire.status = s /\ y.wire.header = x.header
        /\ y.wire.body = x.wire.body /\ y.wire.flushed = x.wire.flushed
    <3> HIDE DEF y
    <3> QED BY <2>2, <2>3 DEF Wire
  <2>5. y.header = x.header /\ y.page = x.page /\ y.hint = x.hint
    BY DEF Writers
  <2>6. y \in Writers
    BY <2>4 DEF Writers
  <2> QED BY <1>3, <2>1, <2>4, <2>5, <2>6
<1> QED BY <1>2, <1>3

LEMMA SendBodyIs ==
  ASSUME NEW x \in Writers, NEW body \in Sent
  PROVE  LET y == SendBody(x, body)
             room == IF x.wire.status = 0 THEN x.header.length ELSE x.wire.header.length
             fits == room = Unknown \/ Len(x.wire.body \o body) <= room
         IN  /\ y \in Writers
             /\ y.header = x.header /\ y.page = x.page /\ y.hint = x.hint
             /\ y.wire.flushed = x.wire.flushed
             /\ y.wire.status = (IF x.wire.status = 0 THEN 200 ELSE x.wire.status)
             /\ y.wire.header = (IF x.wire.status = 0 THEN x.header ELSE x.wire.header)
             /\ y.wire.body = (IF fits /\ request.method # "HEAD" THEN x.wire.body \o body
                               ELSE x.wire.body)
<1> DEFINE h == SendHeader(x, 200)
<1>1. 200 \in Statuses
  BY DEF Statuses
<1>2. /\ h \in Writers
      /\ h.header = x.header /\ h.page = x.page /\ h.hint = x.hint
      /\ h.wire.body = x.wire.body /\ h.wire.flushed = x.wire.flushed
      /\ h.wire.status = (IF x.wire.status = 0 THEN 200 ELSE x.wire.status)
      /\ h.wire.header = (IF x.wire.status = 0 THEN x.header ELSE x.wire.header)
  BY <1>1, SendHeaderIs
<1>3. x.wire.body \o body \in Sent
  BY ConcatOf DEF Writers, Wire
<1> HIDE DEF h
<1> DEFINE room == h.wire.header.length
           fits == room = Unknown \/ Len(h.wire.body \o body) <= room
           longer == h.wire.body \o body
           y == [h EXCEPT !.wire.body = longer]
<1>4. SendBody(x, body) = IF fits /\ request.method # "HEAD" THEN y ELSE h
  BY DEF SendBody, h
<1>5. h.wire \in Wire
  BY <1>2 DEF Writers
<1>6. y.wire = [h.wire EXCEPT !.body = longer]
  BY <1>2 DEF Writers
<1>7. /\ y.wire \in Wire /\ y.wire.body = x.wire.body \o body
      /\ y.wire.status = h.wire.status /\ y.wire.header = h.wire.header
      /\ y.wire.flushed = h.wire.flushed
  <2>1. longer \in Sent /\ longer = x.wire.body \o body
    BY <1>2, <1>3
  <2> HIDE DEF y, longer
  <2>2. /\ y.wire \in Wire /\ y.wire.body = longer
        /\ y.wire.status = h.wire.status /\ y.wire.header = h.wire.header
        /\ y.wire.flushed = h.wire.flushed
    BY <2>1, <1>5, <1>6 DEF Wire
  <2> QED BY <2>1, <2>2
<1>8. y.header = h.header /\ y.page = h.page /\ y.hint = h.hint
  BY <1>2 DEF Writers
<1>9. y \in Writers
  BY <1>2, <1>7 DEF Writers
<1> HIDE DEF y, longer
<1> DEFINE room0 == IF x.wire.status = 0 THEN x.header.length ELSE x.wire.header.length
           fits0 == room0 = Unknown \/ Len(x.wire.body \o body) <= room0
           all == fits0 /\ request.method # "HEAD"
<1>10. fits <=> fits0
  <2>1. room = room0
    BY <1>2
  <2> HIDE DEF room, room0
  <2> QED BY <1>2, <2>1
<1>11. PICK z : z = SendBody(x, body)
  OBVIOUS
<1> HIDE DEF room, fits, room0, fits0
<1>12. z = IF all THEN y ELSE h
  BY <1>4, <1>10, <1>11
<1> HIDE DEF all
<1>13. /\ z \in Writers /\ z.header = x.header /\ z.page = x.page /\ z.hint = x.hint
       /\ z.wire.flushed = x.wire.flushed
       /\ z.wire.status = h.wire.status /\ z.wire.header = h.wire.header
       /\ z.wire.body = (IF all THEN x.wire.body \o body ELSE x.wire.body)
  <2>1. CASE all
    <3>1. z = y
      BY <1>12, <2>1
    <3> QED BY <1>2, <1>7, <1>8, <1>9, <2>1, <3>1
  <2>2. CASE ~all
    <3>1. z = h
      BY <1>12, <2>2
    <3> QED BY <1>2, <2>2, <3>1
  <2> QED BY <2>1, <2>2
<1> QED BY <1>2, <1>11, <1>13 DEF all, fits0, room0

LEMMA FlushIs ==
  ASSUME NEW x \in Writers
  PROVE  LET y == Flush(x)
         IN  /\ y \in Writers
             /\ y.header = x.header /\ y.page = x.page /\ y.hint = x.hint
             /\ y.wire.body = x.wire.body /\ y.wire.flushed = Len(x.wire.body)
             /\ y.wire.status = (IF x.wire.status = 0 THEN 200 ELSE x.wire.status)
             /\ y.wire.header = (IF x.wire.status = 0 THEN x.header ELSE x.wire.header)
<1> DEFINE h == SendHeader(x, 200)
<1>1. 200 \in Statuses
  BY DEF Statuses
<1>2. /\ h \in Writers
      /\ h.header = x.header /\ h.page = x.page /\ h.hint = x.hint
      /\ h.wire.body = x.wire.body /\ h.wire.flushed = x.wire.flushed
      /\ h.wire.status = (IF x.wire.status = 0 THEN 200 ELSE x.wire.status)
      /\ h.wire.header = (IF x.wire.status = 0 THEN x.header ELSE x.wire.header)
  BY <1>1, SendHeaderIs
<1>3. Len(x.wire.body) \in Nat
  BY LenOf DEF Writers, Wire
<1> HIDE DEF h
<1> QED BY <1>2, <1>3 DEF Flush, Writers, Wire, h

LEMMA HintHeaderIs ==
  ASSUME NEW x \in Writers, NEW s \in Statuses
  PROVE  LET y == HintHeader(x, s)
             holds == s = 404 /\ x.header.type # "html"
             sends == ~holds /\ x.wire.status = 0
         IN  /\ y \in Writers
             /\ y.header = x.header /\ y.page = x.page
             /\ y.hint = [wrote |-> TRUE, holds |-> holds, buf |-> x.hint.buf]
             /\ y.wire.body = x.wire.body /\ y.wire.flushed = x.wire.flushed
             /\ y.wire.status = (IF sends THEN s ELSE x.wire.status)
             /\ y.wire.header = (IF sends THEN x.header ELSE x.wire.header)
<1> DEFINE holds == s = 404 /\ x.header.type # "html"
           z == [x EXCEPT !.hint.wrote = TRUE, !.hint.holds = holds]
<1>1. /\ z \in Writers /\ z.header = x.header /\ z.page = x.page /\ z.wire = x.wire
      /\ z.hint = [wrote |-> TRUE, holds |-> holds, buf |-> x.hint.buf]
  <2> HIDE DEF holds
  <2>1. holds \in BOOLEAN
    BY DEF holds
  <2> QED BY <2>1 DEF Writers, Hint
<1>2. HintHeader(x, s) = IF holds THEN z ELSE SendHeader(z, s)
  BY DEF HintHeader
<1> HIDE DEF z, holds
<1>3. CASE holds
  BY <1>1, <1>2, <1>3 DEF holds
<1>4. CASE ~holds
  <2>1. LET y == SendHeader(z, s)
         IN  /\ y \in Writers
             /\ y.header = z.header /\ y.page = z.page /\ y.hint = z.hint
             /\ y.wire.body = z.wire.body /\ y.wire.flushed = z.wire.flushed
             /\ y.wire.status = (IF z.wire.status = 0 THEN s ELSE z.wire.status)
             /\ y.wire.header = (IF z.wire.status = 0 THEN z.header ELSE z.wire.header)
    BY <1>1, SendHeaderIs
  <2> QED BY <1>1, <1>2, <1>4, <2>1 DEF holds
<1> QED BY <1>3, <1>4

(* A body on its way past the 404 writer, when that holds nothing back.     *)
LEMMA HintWriteOut ==
  ASSUME NEW x \in Writers, NEW body \in Sent, ~x.hint.holds
  PROVE  LET y == HintWrite(x, body)
             room == IF x.wire.status = 0 THEN x.header.length ELSE x.wire.header.length
             fits == room = Unknown \/ Len(x.wire.body \o body) <= room
         IN  /\ y \in Writers
             /\ y.header = x.header /\ y.page = x.page
             /\ y.hint = [wrote |-> TRUE, holds |-> FALSE, buf |-> x.hint.buf]
             /\ y.wire.flushed = x.wire.flushed
             /\ y.wire.status = (IF x.wire.status = 0 THEN 200 ELSE x.wire.status)
             /\ y.wire.header = (IF x.wire.status = 0 THEN x.header ELSE x.wire.header)
             /\ y.wire.body = (IF fits /\ request.method # "HEAD" THEN x.wire.body \o body
                               ELSE x.wire.body)
<1> DEFINE z == IF x.hint.wrote THEN x ELSE HintHeader(x, 200)
<1>0. 200 \in Statuses /\ 200 # 404
  BY DEF Statuses
<1>1. x.hint = [wrote |-> x.hint.wrote, holds |-> FALSE, buf |-> x.hint.buf]
  BY DEF Writers, Hint
<1>2. /\ z \in Writers /\ z.header = x.header /\ z.page = x.page
      /\ z.hint = [wrote |-> TRUE, holds |-> FALSE, buf |-> x.hint.buf]
      /\ z.wire.body = x.wire.body /\ z.wire.flushed = x.wire.flushed
      /\ \/ z.wire.status = x.wire.status /\ z.wire.header = x.wire.header
         \/ x.wire.status = 0 /\ z.wire.status = 200 /\ z.wire.header = x.header
  <2>1. CASE x.hint.wrote
    BY <2>1, <1>1
  <2>2. CASE ~x.hint.wrote
    <3> DEFINE y == HintHeader(x, 200)
    <3>1. /\ y \in Writers
          /\ y.header = x.header /\ y.page = x.page
          /\ y.hint = [wrote |-> TRUE, holds |-> FALSE, buf |-> x.hint.buf]
          /\ y.wire.body = x.wire.body /\ y.wire.flushed = x.wire.flushed
          /\ y.wire.status = (IF x.wire.status = 0 THEN 200 ELSE x.wire.status)
          /\ y.wire.header = (IF x.wire.status = 0 THEN x.header ELSE x.wire.header)
      <4> DEFINE holds == 200 = 404 /\ x.header.type # "html"
                 sends == ~holds /\ x.wire.status = 0
      <4>1. /\ y \in Writers
            /\ y.header = x.header /\ y.page = x.page
            /\ y.hint = [wrote |-> TRUE, holds |-> holds, buf |-> x.hint.buf]
            /\ y.wire.body = x.wire.body /\ y.wire.flushed = x.wire.flushed
            /\ y.wire.status = (IF sends THEN 200 ELSE x.wire.status)
            /\ y.wire.header = (IF sends THEN x.header ELSE x.wire.header)
        BY <1>0, HintHeaderIs
      <4>2. holds = FALSE /\ (sends <=> x.wire.status = 0)
        BY <1>0
      <4> HIDE DEF y, holds, sends
      <4> QED BY <4>1, <4>2
    <3> HIDE DEF y
    <3> QED BY <3>1, <2>2 DEF y
  <2> QED BY <2>1, <2>2
<1>3. HintWrite(x, body) = SendBody(z, body)
  <2>1. HintWrite(x, body) = IF z.hint.holds THEN [z EXCEPT !.hint.buf = @ \o body]
                             ELSE SendBody(z, body)
    BY DEF HintWrite
  <2> HIDE DEF z
  <2> QED BY <2>1, <1>2
<1> HIDE DEF z
<1> DEFINE y == SendBody(z, body)
           room == IF z.wire.status = 0 THEN z.header.length ELSE z.wire.header.length
           fits == room = Unknown \/ Len(z.wire.body \o body) <= room
<1>4. /\ y \in Writers
      /\ y.header = z.header /\ y.page = z.page /\ y.hint = z.hint
      /\ y.wire.flushed = z.wire.flushed
      /\ y.wire.status = (IF z.wire.status = 0 THEN 200 ELSE z.wire.status)
      /\ y.wire.header = (IF z.wire.status = 0 THEN z.header ELSE z.wire.header)
      /\ y.wire.body = (IF fits /\ request.method # "HEAD" THEN z.wire.body \o body
                        ELSE z.wire.body)
  BY <1>2, SendBodyIs
<1> HIDE DEF y
<1>5. room = (IF x.wire.status = 0 THEN x.header.length ELSE x.wire.header.length)
  BY <1>2
<1> QED BY <1>2, <1>3, <1>4, <1>5 DEF y

(* A body on its way into the 404 writer, when that holds it back.          *)
LEMMA HintWriteHeld ==
  ASSUME NEW x \in Writers, NEW body \in Sent, x.hint.wrote, x.hint.holds
  PROVE  LET y == HintWrite(x, body)
         IN  /\ y \in Writers
             /\ y.header = x.header /\ y.page = x.page /\ y.wire = x.wire
             /\ y.hint = [wrote |-> TRUE, holds |-> TRUE, buf |-> x.hint.buf \o body]
<1> DEFINE longer == x.hint.buf \o body
           y == [x EXCEPT !.hint.buf = longer]
<1>1. longer \in Sent /\ x.hint \in Hint
  BY ConcatOf DEF Writers, Hint
<1>2. HintWrite(x, body) = y
  BY DEF HintWrite
<1> HIDE DEF longer
<1>3. y.hint = [wrote |-> TRUE, holds |-> TRUE, buf |-> longer]
  BY <1>1 DEF Writers, Hint
<1>4. y.header = x.header /\ y.page = x.page /\ y.wire = x.wire
  BY DEF Writers
<1>5. y \in Writers
  BY <1>1, <1>3 DEF Writers, Hint
<1> HIDE DEF y
<1> QED BY <1>2, <1>3, <1>4, <1>5 DEF longer

(* Return through the 404 writer.                                           *)
LEMMA HintFlushIs ==
  ASSUME NEW x \in Writers, x.hint.holds, x.wire.body = <<>>,
         x.wire.status = 0 \/ x.wire.header.length = Unknown
  PROVE  LET y == HintFlush(x)
         IN  /\ y \in Writers
             /\ y.wire.status = (IF x.wire.status = 0 THEN 404 ELSE x.wire.status)
             /\ y.wire.header.link = (IF x.wire.status = 0 THEN x.header.link ELSE x.wire.header.link)
             /\ y.wire.header.length = (IF x.wire.status = 0 THEN 1 ELSE Unknown)
             /\ y.wire.body = (IF request.method = "HEAD" THEN <<>> ELSE <<"hint">>)
<1> DEFINE z == [x EXCEPT !.header.type = "other", !.header.length = 1]
           v == SendHeader(z, 404)
           hint == <<"hint">>
<1>0. /\ 404 \in Statuses /\ hint \in Sent /\ Len(hint) = 1 /\ <<>> \o hint = hint
      /\ <<>> \in Sent
  BY DEF Statuses, Sent
<1>1. /\ z \in Writers /\ z.wire = x.wire
      /\ z.header.link = x.header.link /\ z.header.length = 1
  <2>1. x.header \in Header
    BY DEF Writers
  <2>2. z.header = [x.header EXCEPT !.type = "other", !.length = 1] /\ z.wire = x.wire
        /\ z.page = x.page /\ z.hint = x.hint
    BY DEF Writers
  <2>3. z.header \in Header /\ z.header.link = x.header.link /\ z.header.length = 1
    <3> DEFINE o == "other"
               n == 1
    <3>1. o \in Types /\ n \in Int /\ z.header = [x.header EXCEPT !.type = o, !.length = n]
      BY <2>2 DEF Types
    <3> HIDE DEF z, o, n
    <3> DEFINE h == x.header
               g == [h EXCEPT !.type = o, !.length = n]
    <3>2. h \in Header /\ z.header = g
      BY <2>1, <3>1
    <3> HIDE DEF h
    <3>4. o \in Types /\ n \in Int
      BY <3>1
    <3>3. g \in Header /\ g.link = h.link /\ g.type = o /\ g.length = n
      BY <3>4, <3>2 DEF Header
    <3> QED BY <3>2, <3>3 DEF n, h
  <2>4. z \in Writers
    BY <2>3 DEF Writers
  <2> QED BY <2>2, <2>3, <2>4
<1>2. HintFlush(x) = SendBody(v, hint)
  BY DEF HintFlush
<1> HIDE DEF z, hint
<1>3. /\ v \in Writers
      /\ v.header = z.header /\ v.page = z.page /\ v.hint = z.hint
      /\ v.wire.body = z.wire.body /\ v.wire.flushed = z.wire.flushed
      /\ v.wire.status = (IF z.wire.status = 0 THEN 404 ELSE z.wire.status)
      /\ v.wire.header = (IF z.wire.status = 0 THEN z.header ELSE z.wire.header)
  BY <1>0, <1>1, SendHeaderIs
<1> HIDE DEF v
<1>4. /\ v.wire.status # 0 /\ v.wire.body = <<>>
      /\ v.wire.header.length = (IF x.wire.status = 0 THEN 1 ELSE Unknown)
      /\ v.wire.header.link = (IF x.wire.status = 0 THEN x.header.link ELSE x.wire.header.link)
      /\ v.wire.status = (IF x.wire.status = 0 THEN 404 ELSE x.wire.status)
  BY <1>1, <1>3
<1> DEFINE y == SendBody(v, hint)
           room == IF v.wire.status = 0 THEN v.header.length ELSE v.wire.header.length
           fits == room = Unknown \/ Len(v.wire.body \o hint) <= room
<1>5. /\ y \in Writers
      /\ y.header = v.header /\ y.page = v.page /\ y.hint = v.hint
      /\ y.wire.flushed = v.wire.flushed
      /\ y.wire.status = (IF v.wire.status = 0 THEN 200 ELSE v.wire.status)
      /\ y.wire.header = (IF v.wire.status = 0 THEN v.header ELSE v.wire.header)
      /\ y.wire.body = (IF fits /\ request.method # "HEAD" THEN v.wire.body \o hint
                        ELSE v.wire.body)
  BY <1>0, <1>3, SendBodyIs
<1>6. fits /\ v.wire.body \o hint = hint
  <2>1. v.wire.body \o hint = hint
    BY <1>0, <1>4
  <2>2. room = v.wire.header.length /\ room \in {Unknown, 1}
    BY <1>4
  <2>3. room = Unknown \/ 1 <= room
    BY <2>2
  <2> HIDE DEF room
  <2> QED BY <1>0, <2>1, <2>3
<1> HIDE DEF y, fits
<1>7. /\ y.wire.body = (IF request.method = "HEAD" THEN <<>> ELSE hint)
      /\ y.wire.status = v.wire.status /\ y.wire.header = v.wire.header
  BY <1>4, <1>5, <1>6
<1> QED BY <1>2, <1>4, <1>5, <1>7 DEF y, hint

(* The page writer's header: it holds HTML back and passes the rest on.     *)
LEMMA PageHeaderIs ==
  ASSUME NEW x \in Writers, NEW s \in Statuses
  PROVE  \E z \in Writers :
           /\ z.header = x.header /\ z.hint = x.hint /\ z.wire = x.wire
           /\ z.page.wrote /\ (z.page.holds <=> x.header.type = "html")
           /\ z.page.status = s /\ z.page.buf = x.page.buf
           /\ PageHeader(x, s) = IF x.header.type = "html" THEN z ELSE HintHeader(z, s)
<1> DEFINE holds == x.header.type = "html"
           z == [x EXCEPT !.page.wrote = TRUE, !.page.holds = holds, !.page.status = s]
<1>1. holds \in BOOLEAN /\ x.page \in Page
  BY DEF Writers
<1>2. PageHeader(x, s) = IF holds THEN z ELSE HintHeader(z, s)
  BY DEF PageHeader
<1>3. z.page = [x.page EXCEPT !.wrote = TRUE, !.holds = holds, !.status = s]
  BY DEF Writers
<1>4. z.header = x.header /\ z.hint = x.hint /\ z.wire = x.wire
  BY DEF Writers
<1>5. z.page = [wrote |-> TRUE, holds |-> holds, status |-> s, buf |-> x.page.buf]
  <2> HIDE DEF z, holds
  <2> QED BY <1>1, <1>3 DEF Page
<1>6. z.page \in Page
  <2> HIDE DEF z, holds
  <2> QED BY <1>1, <1>5 DEF Page
<1>7. z \in Writers
  BY <1>6 DEF Writers
<1> HIDE DEF z
<1>8. /\ z.page.wrote /\ (z.page.holds <=> holds)
      /\ z.page.status = s /\ z.page.buf = x.page.buf
  <2> HIDE DEF holds
  <2> QED BY <1>5
<1> QED BY <1>2, <1>4, <1>7, <1>8

LEMMA PageWriteHeld ==
  ASSUME NEW x \in Writers, NEW body \in Sent, x.page.wrote, x.page.holds
  PROVE  LET y == PageWrite(x, body)
         IN  /\ y \in Writers
             /\ y.header = x.header /\ y.hint = x.hint /\ y.wire = x.wire
             /\ y.page.wrote /\ y.page.holds /\ y.page.status = x.page.status
             /\ y.page.buf = x.page.buf \o body
<1> DEFINE longer == x.page.buf \o body
           y == [x EXCEPT !.page.buf = longer]
<1>1. longer \in Sent /\ x.page \in Page
  BY ConcatOf DEF Writers, Page
<1>2. PageWrite(x, body) = y
  BY DEF PageWrite
<1> HIDE DEF longer
<1>3. y.page = [x.page EXCEPT !.buf = longer]
  BY DEF Writers
<1>4. y.header = x.header /\ y.hint = x.hint /\ y.wire = x.wire
  BY DEF Writers
<1>5. y.page \in Page /\ y.page.wrote /\ y.page.holds /\ y.page.status = x.page.status
      /\ y.page.buf = longer
  <2> HIDE DEF y
  <2> QED BY <1>1, <1>3 DEF Page
<1>6. y \in Writers
  BY <1>5 DEF Writers
<1> HIDE DEF y
<1> QED BY <1>2, <1>4, <1>5, <1>6 DEF longer

(* Past the page writer.                                                    *)
LEMMA WritePasses ==
  ASSUME NEW x, NEW body, FromDir => x.page.wrote /\ ~x.page.holds
  PROVE  Write(x, body) = HintWrite(x, body)
BY DEF Write, PageWrite

(* Return through the page writer.                                          *)
LEMMA PageFlushIs ==
  ASSUME NEW x \in Writers, x.page.holds, x.page.status \in Statuses, x.header.type = "html",
         x.hint = FreshWriters.hint, x.wire = FreshWriters.wire,
         InjectLinks(x.page.buf) \in Sent
  PROVE  LET y == PageFlush(x)
             body == InjectLinks(x.page.buf)
         IN  /\ y \in Writers
             /\ ~y.hint.holds
             /\ y.wire.status = x.page.status
             /\ y.wire.header.link = x.header.link
             /\ y.wire.header.length = Len(body)
             /\ y.wire.body = (IF request.method = "HEAD" THEN <<>> ELSE body)
<1> DEFINE body == InjectLinks(x.page.buf)
           n == Len(body)
           s == x.page.status
           z == [x EXCEPT !.header.length = n]
<1>0. n \in Nat /\ n \in Int
  BY LenOf
<1>00. s \in Statuses
  OBVIOUS
<1>1. PageFlush(x) = HintWrite(HintHeader(z, s), body)
  BY DEF PageFlush
<1>2. /\ z \in Writers /\ z.hint = x.hint /\ z.wire = x.wire
      /\ z.header.link = x.header.link /\ z.header.length = n /\ z.header.type = "html"
  <2> HIDE DEF n
  <2>1. x.header \in Header
    BY DEF Writers
  <2>2. z.header = [x.header EXCEPT !.length = n] /\ z.hint = x.hint /\ z.wire = x.wire
    BY DEF Writers
  <2>3. z.header \in Header /\ z.header.link = x.header.link /\ z.header.length = n
        /\ z.header.type = "html"
    <3> HIDE DEF z
    <3> QED BY <1>0, <2>1, <2>2 DEF Header
  <2>4. z \in Writers
    BY <2>3 DEF Writers
  <2> QED BY <2>2, <2>3, <2>4
<1>3. /\ z.hint.holds = FALSE /\ z.hint.buf = <<>>
      /\ z.wire.status = 0 /\ z.wire.body = <<>>
  BY <1>2 DEF FreshWriters
<1> HIDE DEF z, s, n
<1> DEFINE h == HintHeader(z, s)
           holds == s = 404 /\ z.header.type # "html"
           sends == ~holds /\ z.wire.status = 0
<1>4. /\ h \in Writers
      /\ h.header = z.header /\ h.page = z.page
      /\ h.hint = [wrote |-> TRUE, holds |-> holds, buf |-> z.hint.buf]
      /\ h.wire.body = z.wire.body /\ h.wire.flushed = z.wire.flushed
      /\ h.wire.status = (IF sends THEN s ELSE z.wire.status)
      /\ h.wire.header = (IF sends THEN z.header ELSE z.wire.header)
  BY <1>2, <1>00, HintHeaderIs
<1>5. holds = FALSE /\ sends
  BY <1>2, <1>3
<1> HIDE DEF h, holds, sends
<1>6. /\ ~h.hint.holds /\ h.wire.status = s /\ h.wire.header = z.header /\ h.wire.body = <<>>
      /\ s # 0
  BY <1>3, <1>4, <1>5, <1>00 DEF Statuses
<1> DEFINE y == HintWrite(h, body)
           room == IF h.wire.status = 0 THEN h.header.length ELSE h.wire.header.length
           fits == room = Unknown \/ Len(h.wire.body \o body) <= room
<1>7. /\ y \in Writers
      /\ y.header = h.header /\ y.page = h.page
      /\ y.hint = [wrote |-> TRUE, holds |-> FALSE, buf |-> h.hint.buf]
      /\ y.wire.flushed = h.wire.flushed
      /\ y.wire.status = (IF h.wire.status = 0 THEN 200 ELSE h.wire.status)
      /\ y.wire.header = (IF h.wire.status = 0 THEN h.header ELSE h.wire.header)
      /\ y.wire.body = (IF fits /\ request.method # "HEAD" THEN h.wire.body \o body
                        ELSE h.wire.body)
  BY <1>4, <1>6, HintWriteOut
<1>8. h.wire.body \o body = body
  BY <1>6, ConcatEmptySeq DEF Sent
<1>9. room = n /\ fits
  <2>1. room = n
    BY <1>2, <1>6
  <2>2. Len(h.wire.body \o body) = n /\ n <= n
    BY <1>8, <1>0 DEF n
  <2> HIDE DEF room, body
  <2> QED BY <2>1, <2>2
<1> HIDE DEF y, room, fits, body
<1>10. y.wire.status = s /\ y.wire.header = z.header /\ ~y.hint.holds
       /\ y.wire.body = IF request.method = "HEAD" THEN <<>> ELSE body
  BY <1>6, <1>7, <1>8, <1>9
<1> QED BY <1>1, <1>2, <1>7, <1>10 DEF y, s, n, body, h
-----------------------------------------------------------------------------
(* The invariant *)

\* What the writers below the handler are given, and what of it they have been
\* given so far.
Out == IF FromUpstream /\ IsHTML THEN InjectLinks(answer.body) ELSE answer.body
Sofar == SubSeq(Out, 1, Len(Out) - Len(left))
LeftIsRest ==
  Len(left) <= Len(Out) /\ left = SubSeq(Out, Len(Out) - Len(left) + 1, Len(Out))

\* bufferingResponseWriter holds this answer back.
Held == FromDir /\ IsHTML

\* notFoundHintWriter after an informational header.
HintSeen == [wrote |-> TRUE, holds |-> FALSE, buf |-> <<>>]

\* Before the answer: nothing is written, and the Link header is set once the
\* limiter is passed, and lost when the upstream sends an informational header.
Resting ==
  at \in {"idle", "limiter", "route", "index", "early"} =>
    /\ answer = NoAnswer /\ left = <<>> /\ timer = "off"
    /\ w.page = FreshWriters.page /\ w.wire = FreshWriters.wire
    /\ IF at = "early" THEN FromUpstream /\ w.hint = HintSeen ELSE w.hint = FreshWriters.hint
    /\ w.header.link <=> at \in {"route", "index"}

\* What holds of an answer from its Reply to the end of its handler.
Replied ==
  at \in {"head", "body"} =>
    /\ LeftIsRest /\ answer.body \in Seq(Said)
    /\ (w.header.link <=> ~answer.early) /\ w.header.type = answer.type
    /\ w.header.length = IF FromUpstream /\ IsHTML THEN Len(Out) ELSE answer.length
    /\ answer.length = Unknown \/ request.method = "HEAD" \/ answer.length = Len(answer.body)
    /\ FromDir => answer.status \notin {206, 304}
    /\ answer.status # 429
    /\ request.route # "site" /\ answer.type = "stream" => answer.status = 200

\* Nothing but a 103 has gone out when the handler calls WriteHeader.
Heading ==
  at = "head" =>
    /\ timer = "off" /\ left = Out
    /\ w.page = FreshWriters.page /\ w.wire = FreshWriters.wire
    /\ ~w.hint.holds /\ w.hint.buf = <<>>
    /\ w.hint.wrote => FromUpstream

\* The timer runs for what comes from an upstream without its length.
Timed ==
  timer # "off" =>
    /\ at = "body" /\ FromUpstream /\ ~IsHTML /\ answer.length = Unknown
    /\ answer.status # 502

\* While the body is written it is in one place: with the writer that holds a
\* page, with the one that holds a 404, or out.
WithPage ==
  /\ w.page.wrote /\ w.page.holds /\ w.page.status = answer.status /\ w.page.buf = Sofar
  /\ w.hint = FreshWriters.hint /\ w.wire = FreshWriters.wire

WithHint ==
  /\ w.hint.wrote /\ w.hint.holds /\ w.hint.buf = Sofar
  /\ ~w.page.holds /\ w.wire.body = <<>> /\ w.wire.flushed = 0
  /\ FromDir => w.page.wrote
  /\ \/ w.wire.status = 0
     \/ w.wire.status = 200 /\ timer # "off" /\ w.wire.header = w.header

WithWire ==
  /\ ~w.page.holds /\ ~w.hint.holds
  /\ FromDir => w.page.wrote
  /\ \/ w.wire.status = answer.status /\ w.wire.header = w.header /\ w.hint.wrote
     \/ w.wire.status = 0 /\ answer.status = 200 /\ ~w.hint.wrote /\ Sofar = <<>> /\ ~Flushes
  /\ w.wire.body = (IF request.method = "HEAD" THEN <<>> ELSE Sofar)
  /\ Flushes => w.wire.flushed = Len(w.wire.body)

Writing ==
  at = "body" => IF Held THEN WithPage ELSE IF Hinted THEN WithHint ELSE WithWire

\* What has gone out at the end.
Refused ==
  /\ answer = HTTPError(429) /\ w.wire.status = 429
  /\ w.wire.body \in Seq({"error"})

Answered ==
  /\ answer.body \in Seq(Said)
  /\ FromDir => answer.status \notin {206, 304}
  /\ \/ w.wire.status = answer.status
     \/ FromUpstream /\ Hinted /\ answer.length = Unknown /\ w.wire.status = 200
  /\ w.wire.header.link <=> ~answer.early
  /\ request.method = "GET" =>
       /\ w.wire.body = IF Hinted THEN <<"hint">>
                        ELSE IF (FromDir \/ FromUpstream) /\ IsHTML THEN InjectLinks(answer.body)
                        ELSE answer.body
       /\ w.wire.header.length \in {Unknown, Len(w.wire.body)}
  /\ request.method = "HEAD" => w.wire.body = <<>>

Finished == at = "done" => Refused \/ Answered

\* An aborted answer has the head of the answer or none of it.
CutOff ==
  at = "aborted" =>
    /\ w.wire.status # 0 => (w.wire.header.link <=> ~answer.early)
    /\ "hint" \notin ToSet(w.wire.body)

PipelineInv ==
  Resting /\ Replied /\ Heading /\ Timed /\ Writing /\ Finished /\ CutOff

\* The facts a request has read, and those it may still read, are among those
\* handed over since it came.
FactsInv ==
  /\ provider = published /\ read \subseteq since
  /\ IF at = "idle" THEN since = {} ELSE provider \in since

-----------------------------------------------------------------------------
(* Its steps *)

Inv == TypeOK /\ PipelineInv

LEMMA FreshType == FreshWriters \in Writers
<1>1. <<>> \in Sent
  BY DEF Sent
<1>2. FreshHeader \in Header
  BY DEF FreshHeader, Header, Types, Unknown
<1> QED BY <1>1, <1>2 DEF FreshWriters, Writers, Page, Hint, Wire

(* Setting the Link header, and the head that a Reply sets.                 *)
LEMMA LinkType ==
  ASSUME NEW x \in Writers
  PROVE  LET y == [x EXCEPT !.header.link = TRUE]
         IN  /\ y \in Writers /\ y.header.link
             /\ y.page = x.page /\ y.hint = x.hint /\ y.wire = x.wire
<1> DEFINE y == [x EXCEPT !.header.link = TRUE]
<1>1. y.page = x.page /\ y.hint = x.hint /\ y.wire = x.wire
  BY DEF Writers
<1>2. y.header = [x.header EXCEPT !.link = TRUE] /\ x.header \in Header
  BY DEF Writers
<1>3. y.header \in Header /\ y.header.link
  <2> HIDE DEF y
  <2> QED BY <1>2 DEF Header
<1>4. y \in Writers
  BY <1>3 DEF Writers
<1> QED BY <1>1, <1>3, <1>4

LEMMA HeadType ==
  ASSUME w \in Writers, NEW t \in Types, NEW n \in Int,
         w' = [w EXCEPT !.header.type = t, !.header.length = n]
  PROVE  /\ w' \in Writers
         /\ w'.header.link = w.header.link /\ w'.header.type = t /\ w'.header.length = n
         /\ w'.page = w.page /\ w'.hint = w.hint /\ w'.wire = w.wire
<1>1. w'.page = w.page /\ w'.hint = w.hint /\ w'.wire = w.wire
  BY DEF Writers
<1>2. w'.header = [w.header EXCEPT !.type = t, !.length = n] /\ w.header \in Header
  BY DEF Writers
<1>3. /\ w'.header \in Header
      /\ w'.header.link = w.header.link /\ w'.header.type = t /\ w'.header.length = n
  <2>1. ASSUME NEW h, NEW o \in Header, h = [o EXCEPT !.type = t, !.length = n]
        PROVE  h \in Header /\ h.link = o.link /\ h.type = t /\ h.length = n
    BY <2>1 DEF Header
  <2> DEFINE h == w'.header
             o == w.header
  <2>2. o \in Header /\ h = [o EXCEPT !.type = t, !.length = n]
    BY <1>2
  <2> HIDE DEF h, o
  <2>3. h \in Header /\ h.link = o.link /\ h.type = t /\ h.length = n
    BY <2>1, <2>2
  <2> QED BY <2>3 DEF h, o
<1>4. w' \in Writers
  <2>1. w' = [w EXCEPT !.header = w'.header]
    BY <1>2 DEF Writers
  <2> QED BY <1>3, <2>1 DEF Writers
<1> QED BY <1>1, <1>3, <1>4

LEMMA NoAnswerType == NoAnswer \in Answer /\ NoRequest \in Request /\ <<>> \in Sent
<1>1. <<>> \in Seq(Pieces \cup {"error"})
  OBVIOUS
<1>2. NoAnswer \in Answer
  BY <1>1 DEF NoAnswer, Plain, Answer, Statuses, Types, Unknown
<1>3. NoRequest \in Request
  BY DEF NoRequest, Request, Routes, Asks
<1> QED BY <1>2, <1>3 DEF Sent

LEMMA PipelineInit == Init => Inv
<1> SUFFICES ASSUME Init PROVE Inv
  OBVIOUS
<1>1. TypeOK
  BY FreshType, NoAnswerType DEF Init, Idle, TypeOK, Writers, Places
<1>2. FreshWriters.header.link = FALSE
  BY DEF FreshWriters, FreshHeader
<1>3. at = "idle"
  BY DEF Init, Idle
<1>4. Resting
  BY <1>2, <1>3 DEF Init, Idle, Resting
<1>5. Timed
  BY DEF Init, Idle, Timed
<1> QED BY <1>1, <1>3, <1>4, <1>5
     DEF Inv, PipelineInv, Replied, Heading, Writing, Finished, CutOff

LEMMA ArriveStep == ASSUME Inv, NEW r \in Request, Arrive(r) PROVE Inv'
<1>1. /\ at = "idle" /\ at' = "limiter" /\ request' = r /\ since' = {published}
      /\ site' = site /\ provider' = provider /\ published' = published
      /\ answer' = answer /\ left' = left /\ timer' = timer /\ w' = w /\ read' = read
  BY DEF Arrive, shared
<1>2. TypeOK'
  BY <1>1 DEF Inv, TypeOK, Places
<1>3. Resting'
  BY <1>1 DEF Inv, PipelineInv, Resting
<1>4. Timed'
  BY <1>1 DEF Inv, PipelineInv, Resting, Timed
<1> QED BY <1>1, <1>2, <1>3, <1>4
     DEF Inv, PipelineInv, Replied, Heading, Writing, Finished, CutOff

LEMMA AllowStep == ASSUME Inv, Allow PROVE Inv'
<1>1. /\ at = "limiter" /\ at' = "route" /\ request' = request /\ since' = since
      /\ site' = site /\ provider' = provider /\ published' = published
      /\ answer' = answer /\ left' = left /\ timer' = timer /\ read' = read
      /\ w' = [w EXCEPT !.header.link = TRUE]
  BY DEF Allow, shared
<1>2. /\ w' \in Writers /\ w'.header.link
      /\ w'.page = w.page /\ w'.hint = w.hint /\ w'.wire = w.wire
  <2>1. w \in Writers
    BY DEF Inv, TypeOK, Writers
  <2> QED BY <1>1, <2>1, LinkType
<1>3. TypeOK'
  BY <1>1, <1>2 DEF Inv, TypeOK, Places, Writers
<1>4. Resting'
  BY <1>1, <1>2 DEF Inv, PipelineInv, Resting
<1>5. Timed'
  BY <1>1 DEF Inv, PipelineInv, Resting, Timed
<1> QED BY <1>1, <1>3, <1>4, <1>5
     DEF Inv, PipelineInv, Replied, Heading, Writing, Finished, CutOff

LEMMA RefuseStep == ASSUME Inv, Refuse PROVE Inv'
<1> DEFINE x == [w EXCEPT !.header.type = "other"]
           v == SendHeader(x, 429)
           body == <<"error">>
           y == SendBody(v, body)
<1>1. /\ at = "limiter" /\ at' = "done" /\ request' = request /\ since' = since
      /\ site' = site /\ provider' = provider /\ published' = published
      /\ answer' = HTTPError(429) /\ left' = left /\ timer' = timer /\ read' = read
      /\ w' = y
  BY DEF Refuse, shared
<1>2. /\ w \in Writers /\ w.wire = FreshWriters.wire /\ timer = "off"
  BY <1>1 DEF Inv, TypeOK, Writers, PipelineInv, Resting
<1>3. x \in Writers /\ x.wire = w.wire
  BY <1>2 DEF Writers, Header, Types
<1>4. 429 \in Statuses /\ body \in Sent
  BY DEF Statuses, Sent
<1> HIDE DEF x
<1>5. /\ v \in Writers
      /\ v.header = x.header /\ v.page = x.page /\ v.hint = x.hint
      /\ v.wire.body = x.wire.body /\ v.wire.flushed = x.wire.flushed
      /\ v.wire.status = (IF x.wire.status = 0 THEN 429 ELSE x.wire.status)
      /\ v.wire.header = (IF x.wire.status = 0 THEN x.header ELSE x.wire.header)
  BY <1>3, <1>4, SendHeaderIs
<1>6. v.wire.status = 429 /\ v.wire.body = <<>>
  BY <1>2, <1>3, <1>5 DEF FreshWriters
<1> HIDE DEF v
<1> DEFINE room == IF v.wire.status = 0 THEN v.header.length ELSE v.wire.header.length
           fits == room = Unknown \/ Len(v.wire.body \o body) <= room
<1>7. /\ y \in Writers
      /\ y.header = v.header /\ y.page = v.page /\ y.hint = v.hint
      /\ y.wire.flushed = v.wire.flushed
      /\ y.wire.status = (IF v.wire.status = 0 THEN 200 ELSE v.wire.status)
      /\ y.wire.header = (IF v.wire.status = 0 THEN v.header ELSE v.wire.header)
      /\ y.wire.body = (IF fits /\ request.method # "HEAD" THEN v.wire.body \o body
                        ELSE v.wire.body)
  BY <1>4, <1>5, SendBodyIs
<1> HIDE DEF y, fits
<1>8. y.wire.status = 429 /\ y.wire.body \in Seq({"error"})
  <2>1. <<>> \in Seq({"error"}) /\ body \in Seq({"error"}) /\ <<>> \o body = body
    OBVIOUS
  <2> HIDE DEF body
  <2> QED BY <1>6, <1>7, <2>1
<1>9. HTTPError(429) \in Answer
  <2>1. body \in Seq(Pieces \cup {"error"})
    OBVIOUS
  <2> QED BY <2>1 DEF HTTPError, Plain, Answer, Statuses, Types, Unknown
<1>10. TypeOK'
  BY <1>1, <1>7, <1>9 DEF Inv, TypeOK, Places, Writers
<1>11. Finished'
  BY <1>1, <1>8 DEF Finished, Refused
<1>12. Timed'
  BY <1>1, <1>2 DEF Timed
<1> QED BY <1>1, <1>10, <1>11, <1>12
     DEF Inv, PipelineInv, Resting, Replied, Heading, Writing, CutOff

(* What an inner handler may say, and how.  to is "body" when it does not   *)
(* call WriteHeader: then it has a 200, and neither a stream nor the site.  *)
MayReply(a, length, to) ==
  /\ a \in Answer /\ a.body \in Seq(Said) /\ a.status # 429
  /\ to \in {"head", "body"} /\ (a.early <=> at = "early")
  /\ to = "body" => ~FromDir /\ ~FromUpstream /\ a.status = 200 /\ a.type # "stream"
  /\ length = IF FromUpstream /\ a.type = "html" THEN Len(InjectLinks(a.body)) ELSE a.length
  /\ a.length = Unknown \/ request.method = "HEAD" \/ a.length = Len(a.body)
  /\ FromDir => a.status \notin {206, 304}
  /\ request.route # "site" /\ a.type = "stream" => a.status = 200

OutOf(a) == IF FromUpstream /\ a.type = "html" THEN InjectLinks(a.body) ELSE a.body

LEMMA SaidIsSent == \A b \in Seq(Said) : b \in Sent /\ InjectLinks(b) \in Sent
<1> SUFFICES ASSUME NEW b \in Seq(Said) PROVE b \in Sent /\ InjectLinks(b) \in Sent
  OBVIOUS
<1> DEFINE All == Pieces \cup {"error", "links", "footer", "hint"}
<1>1. Said \subseteq All /\ Rewritten \subseteq All /\ Sent = Seq(All)
  BY DEF Said, Rewritten, Added, Sent
<1>2. InjectLinks(b) \in Seq(Rewritten)
  BY InjectLinksIsSound
<1> HIDE DEF All
<1>3. b \in Seq(All)
  BY <1>1, SeqMonotonic
<1>4. InjectLinks(b) \in Seq(All)
  BY <1>1, <1>2, SeqMonotonic
<1> QED BY <1>1, <1>3, <1>4

LEMMA WholeIsLeft ==
  ASSUME NEW s \in Sent
  PROVE  /\ Len(s) <= Len(s) /\ s = SubSeq(s, Len(s) - Len(s) + 1, Len(s))
         /\ SubSeq(s, 1, Len(s) - Len(s)) = <<>>
<1>1. Len(s) \in Nat
  BY LenOf
<1>2. Len(s) - Len(s) = 0 /\ 0 + 1 = 1
  BY <1>1
<1>3. SubSeq(s, 1, Len(s)) = s
  BY SubSeqFull DEF Sent
<1>4. SubSeq(s, 1, 0) = <<>>
  BY SubSeqEmpty
<1> QED BY <1>1, <1>2, <1>3, <1>4

LEMMA ReplyStep ==
  ASSUME Inv, at \in {"route", "index", "early"}, NEW a, NEW body, NEW length, NEW to,
         Reply(a, body, length, to), MayReply(a, length, to), body = OutOf(a),
         UNCHANGED <<shared, request, timer>>, read' \in SUBSET Facts, since' = since
  PROVE  Inv'
<1>1. /\ answer' = a /\ left' = body /\ at' = to
      /\ w' = [w EXCEPT !.header.type = a.type, !.header.length = length]
      /\ site' = site /\ provider' = provider /\ published' = published
      /\ request' = request /\ timer' = timer
  BY DEF Reply, shared
<1>2. a \in Answer /\ a.type \in Types /\ a.length \in Int /\ a.body \in Seq(Said)
  BY DEF MayReply, Answer
<1>3. body \in Sent /\ a.body \in Sent /\ InjectLinks(a.body) \in Sent
  BY <1>2, SaidIsSent DEF OutOf
<1>4. length \in Int
  BY <1>2, <1>3, LenOf DEF MayReply
<1>5. w \in Writers
  BY DEF Inv, TypeOK, Writers
<1>6. /\ w' \in Writers
      /\ w'.header.link = w.header.link /\ w'.header.type = a.type
      /\ w'.header.length = length
      /\ w'.page = w.page /\ w'.hint = w.hint /\ w'.wire = w.wire
  <2> DEFINE t == a.type
  <2>1. t \in Types /\ w' = [w EXCEPT !.header.type = t, !.header.length = length]
    BY <1>1, <1>2
  <2> HIDE DEF t
  <2>2. /\ w' \in Writers
        /\ w'.header.link = w.header.link /\ w'.header.type = t /\ w'.header.length = length
        /\ w'.page = w.page /\ w'.hint = w.hint /\ w'.wire = w.wire
    BY <1>4, <1>5, <2>1, HeadType
  <2> QED BY <2>2 DEF t
<1>7. /\ timer = "off" /\ (w.header.link <=> at # "early")
      /\ w.page = FreshWriters.page /\ w.wire = FreshWriters.wire
      /\ IF at = "early" THEN FromUpstream /\ w.hint = HintSeen ELSE w.hint = FreshWriters.hint
  BY DEF Inv, PipelineInv, Resting
<1>8. FromDir' = FromDir /\ FromUpstream' = FromUpstream /\ IsHTML' = (a.type = "html")
  BY <1>1 DEF FromDir, FromUpstream, IsHTML
<1>9. Out' = body
  BY <1>1, <1>8 DEF Out, OutOf
<1>10. LeftIsRest' /\ Sofar' = <<>>
  BY <1>1, <1>3, <1>9, WholeIsLeft DEF LeftIsRest, Sofar
<1>11. TypeOK'
  BY <1>1, <1>2, <1>3, <1>6 DEF Inv, TypeOK, Writers, Places, MayReply
<1>12. Replied'
  <2>1. /\ a.body \in Seq(Said) /\ a.status # 429
        /\ length = IF FromUpstream /\ a.type = "html" THEN Len(InjectLinks(a.body)) ELSE a.length
        /\ a.length = Unknown \/ request.method = "HEAD" \/ a.length = Len(a.body)
        /\ FromDir => a.status \notin {206, 304}
        /\ request.route # "site" /\ a.type = "stream" => a.status = 200
    BY DEF MayReply
  <2>2. length = IF FromUpstream /\ a.type = "html" THEN Len(body) ELSE a.length
    BY <2>1 DEF OutOf
  <2>3. w'.header.length = IF FromUpstream' /\ IsHTML' THEN Len(Out') ELSE answer'.length
    BY <1>1, <1>6, <1>8, <1>9, <2>2
  <2>4. (w'.header.link <=> ~answer'.early) /\ w'.header.type = answer'.type
    BY <1>1, <1>6, <1>7 DEF MayReply
  <2> QED BY <1>1, <1>8, <1>10, <2>1, <2>3, <2>4 DEF Replied
<1>13. Heading'
  BY <1>1, <1>6, <1>7, <1>8, <1>9 DEF Heading, MayReply, FreshWriters, HintSeen
<1>14. Timed'
  BY <1>1, <1>7 DEF Timed
<1>15. Writing'
  <2> SUFFICES ASSUME to = "body"
               PROVE  (~Held /\ ~Hinted /\ WithWire)'
    BY <1>1 DEF Writing
  <2>1. ~FromDir' /\ a.status = 200 /\ a.type # "stream"
    BY <1>8 DEF MayReply
  <2>2. ~Held' /\ ~Hinted'
    BY <1>1, <2>1 DEF Held, Hinted
  <2>3. ~Flushes'
    BY <1>1, <1>7, <2>1 DEF Flushes
  <2>4. /\ ~w'.page.holds /\ ~w'.hint.holds /\ ~w'.hint.wrote
        /\ w'.wire.status = 0 /\ w'.wire.body = <<>>
    BY <1>6, <1>7 DEF FreshWriters, MayReply
  <2> QED BY <1>1, <1>10, <2>1, <2>2, <2>3, <2>4 DEF WithWire
<1>16. Resting' /\ Finished' /\ CutOff'
  BY <1>1 DEF Resting, Finished, CutOff, MayReply
<1> QED BY <1>11, <1>12, <1>13, <1>14, <1>15, <1>16 DEF Inv, PipelineInv

LEMMA PlainMay ==
  ASSUME NEW status \in Statuses, NEW type \in Types, NEW body \in Seq(Said)
  PROVE  LET a == Plain(status, type, body)
         IN  /\ a \in Answer /\ a.body = body /\ a.status = status /\ a.type = type
             /\ a.length = Unknown /\ ~a.early
<1>1. Said = Pieces \cup {"error"}
  BY DEF Said
<1> QED BY <1>1 DEF Plain, Answer, Unknown

LEMMA SmallBodies ==
  /\ <<>> \in Seq(Said) /\ <<"text">> \in Seq(Said) /\ <<"error">> \in Seq(Said)
  /\ <<"text", "text">> \in Seq(Said) /\ <<"head", "text", "/body">> \in Seq(Said)
<1>1. "text" \in Said /\ "error" \in Said /\ "head" \in Said /\ "/body" \in Said
  BY DEF Said, Pieces
<1> QED BY <1>1

(* An answer that is not from the site.                                     *)
OwnSays(a) ==
  /\ a \in Answer /\ a.body \in Seq(Said) /\ a.status # 429 /\ a.length = Unknown
  /\ ~a.early
  /\ a.type = "stream" => a.status = 200

LEMMA PlainSays ==
  ASSUME NEW status \in Statuses \ {429}, NEW type \in Types, NEW body \in Seq(Said),
         type = "stream" => status = 200
  PROVE  LET a == Plain(status, type, body)
         IN  OwnSays(a) /\ a.body = body /\ a.status = status /\ a.type = type
BY PlainMay DEF OwnSays

LEMMA PlainOwn ==
  \A status \in Statuses \ {429}, type \in Types, body \in Seq(Said) :
    (type = "stream" => status = 200) => OwnSays(Plain(status, type, body))
BY PlainSays

LEMMA OwnReply ==
  ASSUME Inv, at \in {"route", "index"}, ~FromDir, ~FromUpstream,
         NEW a, OwnSays(a),
         NEW to \in {"head", "body"}, to = "body" => a.status = 200 /\ a.type # "stream",
         NEW body, body = a.body, Reply(a, body, Unknown, to),
         UNCHANGED <<shared, request, timer>>, read' \in SUBSET Facts, since' = since
  PROVE  Inv'
<1>1. MayReply(a, Unknown, to) /\ body = OutOf(a)
  BY DEF MayReply, OutOf, OwnSays
<1> QED BY <1>1, ReplyStep

LEMMA NotSite == ASSUME request.route # "site" PROVE ~FromDir /\ ~FromUpstream
BY DEF FromDir, FromUpstream

LEMMA ServeFactsStep == ASSUME Inv, ServeFacts PROVE Inv'
<1>1. /\ at = "route" /\ ~FromDir /\ ~FromUpstream /\ read' \in SUBSET Facts
      /\ UNCHANGED <<shared, request, timer>> /\ since' = since
  BY NotSite DEF ServeFacts, Routed, Inv, TypeOK
<1>2. {200, 500} \subseteq Statuses \ {429} /\ "other" \in Types
  BY DEF Statuses, Types
<1>3. CASE Reply(Plain(200, "other", <<"text">>), <<"text">>, Unknown, "body")
  <2> DEFINE s == 200
             t == "other"
             b == <<"text">>
             to == "body"
             a == Plain(s, t, b)
  <2>1. /\ s \in Statuses \ {429} /\ t \in Types /\ b \in Seq(Said)
      /\ (t = "stream" => s = 200)
    BY <1>2, SmallBodies
  <2>2. to \in {"head", "body"} /\ s = 200 /\ t # "stream" /\ Reply(a, b, Unknown, to)
    BY <1>3
  <2> HIDE DEF s, t, b, to
  <2>3. OwnSays(a) /\ a.body = b /\ a.status = s /\ a.type = t
    BY <2>1, PlainSays
  <2> HIDE DEF a
  <2> QED BY <1>1, <2>2, <2>3, OwnReply
<1>4. CASE Reply(HTTPError(500), <<"error">>, Unknown, "head")
  <2> DEFINE s == 500
             t == "other"
             b == <<"error">>
             to == "head"
             a == Plain(s, t, b)
  <2>1. /\ s \in Statuses \ {429} /\ t \in Types /\ b \in Seq(Said)
      /\ (t = "stream" => s = 200)
    BY <1>2, SmallBodies
  <2>2. to \in {"head", "body"} /\ (to = "body" => s = 200 /\ t # "stream") /\ Reply(a, b, Unknown, to)
    BY <1>4 DEF HTTPError
  <2> HIDE DEF s, t, b, to
  <2>3. OwnSays(a) /\ a.body = b /\ a.status = s /\ a.type = t
    BY <2>1, PlainSays
  <2> HIDE DEF a
  <2> QED BY <1>1, <2>2, <2>3, OwnReply
<1> QED BY <1>3, <1>4 DEF ServeFacts

LEMMA ServeOwnStep == ASSUME Inv, ServeOwn PROVE Inv'
<1>1. /\ at = "route" /\ ~FromDir /\ ~FromUpstream /\ read' \in SUBSET Facts
      /\ UNCHANGED <<shared, request, timer>> /\ since' = since
  BY NotSite DEF ServeOwn, Routed, Inv, TypeOK
<1>2. PICK a \in OwnAnswers :
        Reply(a, a.body, Unknown, IF a.status = 200 THEN "body" ELSE "head")
  BY DEF ServeOwn
<1>3. OwnSays(a) /\ a.type # "stream"
  <2>1. \A s \in {200, 202, 302, 400, 404, 405, 500} : s \in Statuses \ {429}
    BY DEF Statuses
  <2>2. "other" \in Types /\ "html" \in Types
    BY DEF Types
  <2>3. ASSUME NEW s \in {200, 202} PROVE OwnSays(Plain(s, "other", <<"text">>))
    <3> DEFINE t == "other"
               b == <<"text">>
    <3>1. s \in Statuses \ {429} /\ t \in Types /\ b \in Seq(Said)
          /\ (t = "stream" => s = 200)
      BY <2>1, <2>2, SmallBodies
    <3> HIDE DEF t, b
    <3>2. OwnSays(Plain(s, t, b))
      BY <3>1, PlainOwn
    <3> QED BY <3>2 DEF t, b
  <2>4. ASSUME NEW s \in {400, 405, 500} PROVE OwnSays(HTTPError(s))
    <3> DEFINE t == "other"
               b == <<"error">>
    <3>1. s \in Statuses \ {429} /\ t \in Types /\ b \in Seq(Said)
          /\ (t = "stream" => s = 200)
      BY <2>1, <2>2, SmallBodies
    <3> HIDE DEF t, b
    <3>2. OwnSays(Plain(s, t, b))
      BY <3>1, PlainOwn
    <3> QED BY <3>2 DEF t, b, HTTPError
  <2>5. OwnSays(Plain(200, "html", <<"head", "text", "/body">>))
    <3> DEFINE t == "html"
               b == <<"head", "text", "/body">>
    <3>1. 200 \in Statuses \ {429} /\ t \in Types /\ b \in Seq(Said)
          /\ (t = "stream" => 200 = 200)
      BY <2>1, <2>2, SmallBodies
    <3> HIDE DEF t, b
    <3>2. OwnSays(Plain(200, t, b))
      BY <3>1, PlainOwn
    <3> QED BY <3>2 DEF t, b
  <2>6. OwnSays(a)
    BY <2>3, <2>4, <2>5 DEF OwnAnswers
  <2>7. a.type \in {"other", "html"}
    BY DEF OwnAnswers, HTTPError, Plain
  <2> QED BY <2>6, <2>7
<1> DEFINE to == IF a.status = 200 THEN "body" ELSE "head"
           body == a.body
<1>4. /\ to \in {"head", "body"} /\ (to = "body" => a.status = 200 /\ a.type # "stream")
      /\ body = a.body /\ Reply(a, body, Unknown, to)
  BY <1>2, <1>3
<1> HIDE DEF to, body
<1> QED BY <1>1, <1>3, <1>4, OwnReply

LEMMA RedirectIndexStep == ASSUME Inv, RedirectIndex PROVE Inv'
<1>1. /\ at = "route" /\ ~FromDir /\ ~FromUpstream /\ read' \in SUBSET Facts
      /\ UNCHANGED <<shared, request, timer>> /\ since' = since
  BY NotSite DEF RedirectIndex, Routed, Inv, TypeOK
<1>2. 302 \in Statuses \ {429} /\ "html" \in Types
  BY DEF Statuses, Types
<1> DEFINE s == 302
           t == "html"
           b == <<"text">>
           to == "head"
           a == Plain(s, t, b)
<1>3. /\ s \in Statuses \ {429} /\ t \in Types /\ b \in Seq(Said)
    /\ (t = "stream" => s = 200)
  BY <1>2, SmallBodies
<1>4. to \in {"head", "body"} /\ (to = "body" => s = 200 /\ t # "stream") /\ Reply(a, b, Unknown, to)
  BY DEF RedirectIndex
<1> HIDE DEF s, t, b, to
<1>5. OwnSays(a) /\ a.body = b /\ a.status = s /\ a.type = t
  BY <1>3, PlainSays
<1> HIDE DEF a
<1> QED BY <1>1, <1>4, <1>5, OwnReply

LEMMA ReadNameStep == ASSUME Inv, ReadName PROVE Inv'
<1>1. /\ at = "route" /\ at' = "index" /\ read' = {provider} /\ since' = since
      /\ site' = site /\ provider' = provider /\ published' = published
      /\ request' = request /\ answer' = answer /\ left' = left /\ timer' = timer /\ w' = w
  BY DEF ReadName, Routed, shared
<1>2. TypeOK'
  BY <1>1 DEF Inv, TypeOK, Places
<1>3. Resting' /\ Timed'
  BY <1>1 DEF Inv, PipelineInv, Resting, Timed
<1> QED BY <1>1, <1>2, <1>3
     DEF Inv, PipelineInv, Replied, Heading, Writing, Finished, CutOff

\* Only requests for the index wait between its two reads.
IndexInv == at = "index" => request.route = "index"

LEMMA ReadDescriptionStep == ASSUME Inv, IndexInv, ReadDescription PROVE Inv'
<1>1. /\ at = "index" /\ ~FromDir /\ ~FromUpstream /\ read' \in SUBSET Facts
      /\ UNCHANGED <<shared, request, timer>> /\ since' = since
  BY NotSite DEF ReadDescription, IndexInv, Inv, TypeOK
<1>2. 200 \in Statuses \ {429} /\ "other" \in Types
  BY DEF Statuses, Types
<1> DEFINE s == 200
           t == "other"
           b == <<"text">>
           to == "body"
           a == Plain(s, t, b)
<1>3. /\ s \in Statuses \ {429} /\ t \in Types /\ b \in Seq(Said)
    /\ (t = "stream" => s = 200)
  BY <1>2, SmallBodies
<1>4. to \in {"head", "body"} /\ (to = "body" => s = 200 /\ t # "stream") /\ Reply(a, b, Unknown, to)
  BY DEF ReadDescription
<1> HIDE DEF s, t, b, to
<1>5. OwnSays(a) /\ a.body = b /\ a.status = s /\ a.type = t
  BY <1>3, PlainSays
<1> HIDE DEF a
<1> QED BY <1>1, <1>4, <1>5, OwnReply

LEMMA ServeMCPStep == ASSUME Inv, ServeMCP PROVE Inv'
<1>1. /\ at = "route" /\ ~FromDir /\ ~FromUpstream /\ read' \in SUBSET Facts
      /\ UNCHANGED <<shared, request, timer>> /\ since' = since
  BY NotSite DEF ServeMCP, Routed, Inv, TypeOK
<1>2. PICK a \in MCPAnswers : Reply(a, a.body, Unknown, "head")
  BY DEF ServeMCP
<1>3. OwnSays(a)
  <2>1. \A s \in {200, 400, 404} : s \in Statuses \ {429}
    BY DEF Statuses
  <2>2. "other" \in Types /\ "stream" \in Types
    BY DEF Types
  <2>3. ASSUME NEW s \in {400, 404} PROVE OwnSays(HTTPError(s))
    <3> DEFINE t == "other"
               b == <<"error">>
    <3>1. s \in Statuses \ {429} /\ t \in Types /\ b \in Seq(Said)
          /\ (t = "stream" => s = 200)
      BY <2>1, <2>2, SmallBodies
    <3> HIDE DEF t, b
    <3>2. OwnSays(Plain(s, t, b))
      BY <3>1, PlainOwn
    <3> QED BY <3>2 DEF t, b, HTTPError
  <2>4. OwnSays(Plain(200, "other", <<"text">>))
    <3> DEFINE t == "other"
               b == <<"text">>
    <3>1. 200 \in Statuses \ {429} /\ t \in Types /\ b \in Seq(Said)
          /\ (t = "stream" => 200 = 200)
      BY <2>1, <2>2, SmallBodies
    <3> HIDE DEF t, b
    <3>2. OwnSays(Plain(200, t, b))
      BY <3>1, PlainOwn
    <3> QED BY <3>2 DEF t, b
  <2>5. OwnSays(Plain(200, "stream", <<"text", "text">>))
    <3> DEFINE t == "stream"
               b == <<"text", "text">>
    <3>1. 200 \in Statuses \ {429} /\ t \in Types /\ b \in Seq(Said)
          /\ (t = "stream" => 200 = 200)
      BY <2>1, <2>2, SmallBodies
    <3> HIDE DEF t, b
    <3>2. OwnSays(Plain(200, t, b))
      BY <3>1, PlainOwn
    <3> QED BY <3>2 DEF t, b
  <2> QED BY <2>3, <2>4, <2>5 DEF MCPAnswers
<1> DEFINE to == "head"
           body == a.body
<1>4. to \in {"head", "body"} /\ to # "body" /\ body = a.body /\ Reply(a, body, Unknown, to)
  BY <1>2
<1> HIDE DEF to, body
<1> QED BY <1>1, <1>3, <1>4, OwnReply

LEMMA ServeNotFoundStep == ASSUME Inv, ServeNotFound PROVE Inv'
<1>1. /\ at = "route" /\ ~FromDir /\ ~FromUpstream /\ read' \in SUBSET Facts
      /\ UNCHANGED <<shared, request, timer>> /\ since' = since
  BY DEF ServeNotFound, Routed, Inv, TypeOK, FromDir, FromUpstream
<1>2. 404 \in Statuses \ {429} /\ "other" \in Types
  BY DEF Statuses, Types
<1> DEFINE s == 404
           t == "other"
           b == <<"error">>
           to == "head"
           a == Plain(s, t, b)
<1>3. /\ s \in Statuses \ {429} /\ t \in Types /\ b \in Seq(Said)
    /\ (t = "stream" => s = 200)
  BY <1>2, SmallBodies
<1>4. to \in {"head", "body"} /\ (to = "body" => s = 200 /\ t # "stream") /\ Reply(a, b, Unknown, to)
  BY DEF ServeNotFound, HTTPError
<1> HIDE DEF s, t, b, to
<1>5. OwnSays(a) /\ a.body = b /\ a.status = s /\ a.type = t
  BY <1>3, PlainSays
<1> HIDE DEF a
<1> QED BY <1>1, <1>4, <1>5, OwnReply

LEMMA BodiesAreSaid == Bodies \subseteq Seq(Said)
<1>1. Pieces \subseteq Said
  BY DEF Said
<1>2. Seq(Pieces) \subseteq Seq(Said)
  BY <1>1, SeqMonotonic
<1> QED BY <1>2, PipelineAssumption

LEMMA KnownIs ==
  ASSUME NEW status \in Statuses, NEW type \in Types, NEW body \in Seq(Said)
  PROVE  LET a == Known(status, type, body)
         IN  /\ a \in Answer /\ a.status = status /\ a.type = type /\ ~a.early
             /\ a.body = (IF request.method = "HEAD" THEN <<>> ELSE body)
             /\ a.length = Len(body)
<1> DEFINE said == IF request.method = "HEAD" THEN <<>> ELSE body
           p == Plain(status, type, said)
           n == Len(body)
           a == [p EXCEPT !.length = n]
<1>1. said \in Seq(Said) /\ n \in Int
  BY SmallBodies, LenProperties
<1> HIDE DEF said, n
<1>2. /\ p \in Answer /\ p.body = said /\ p.status = status /\ p.type = type
  BY <1>1, PlainMay
<1>3. ~p.early
  BY DEF Plain
<1> HIDE DEF p
<1>4. /\ a \in Answer /\ a.status = status /\ a.type = type /\ a.early = p.early
      /\ a.body = said /\ a.length = n
  BY <1>1, <1>2 DEF Answer
<1>5. a = Known(status, type, body)
  BY DEF Known, p, said, n
<1> HIDE DEF a
<1> QED BY <1>3, <1>4, <1>5 DEF said, n

LEMMA ServeDirStep == ASSUME Inv, ServeDir PROVE Inv'
<1>1. /\ at = "route" /\ request.route = "site" /\ FromDir /\ ~FromUpstream
      /\ read' \in SUBSET Facts /\ since' = since /\ UNCHANGED <<shared, request, timer>>
      /\ request.asks \in Asks
  BY DEF ServeDir, Routed, Inv, TypeOK, FromDir, FromUpstream, Request
<1>2. PICK a \in DirAnswers(Strip(request.asks)) : Reply(a, a.body, a.length, "head")
  BY DEF ServeDir
<1>3. Strip(request.asks) \in {"all", "if-match"}
  BY <1>1 DEF Strip, Asks
<1> DEFINE Own == {HTTPError(404), HTTPError(500), Plain(301, "none", <<>>), Plain(412, "none", <<>>)}
           Whole == {Known(200, t, b) : t \in {"html", "other"}, b \in Bodies}
<1>4. a \in Own \cup Whole
  <2> DEFINE asks == Strip(request.asks)
  <2>1. asks \in {"all", "if-match"} /\ a \in DirAnswers(asks)
    BY <1>3
  <2> HIDE DEF asks
  <2>2. CASE asks = "all"
    BY <2>1, <2>2 DEF DirAnswers
  <2>3. CASE asks = "if-match"
    BY <2>1, <2>3 DEF DirAnswers
  <2> QED BY <2>1, <2>2, <2>3
<1>5. /\ a \in Answer /\ a.body \in Seq(Said) /\ a.status \notin {206, 304, 429} /\ ~a.early
      /\ a.length = Unknown \/ request.method = "HEAD" \/ a.length = Len(a.body)
  <2>1. \A s \in {200, 301, 404, 412, 500} : s \in Statuses \ {206, 304, 429}
    BY DEF Statuses
  <2>2. {"none", "html", "other"} \subseteq Types
    BY DEF Types
  <2>3. CASE a \in Own
    <3> DEFINE Good(b) ==
                 /\ b \in Answer /\ b.body \in Seq(Said) /\ b.status \notin {206, 304, 429}
                 /\ b.length = Unknown /\ ~b.early
    <3>1. \A s \in Statuses \ {206, 304, 429}, t \in Types, b \in Seq(Said) : Good(Plain(s, t, b))
      <4> SUFFICES ASSUME NEW s \in Statuses \ {206, 304, 429}, NEW t \in Types, NEW b \in Seq(Said)
                   PROVE  Good(Plain(s, t, b))
        OBVIOUS
      <4> QED BY PlainMay
    <3> HIDE DEF Good
    <3>2. \A s \in {404, 500} : Good(HTTPError(s))
      <4> DEFINE t == "other"
                 b == <<"error">>
      <4>1. t \in Types /\ b \in Seq(Said)
        BY <2>2, SmallBodies
      <4> HIDE DEF t, b
      <4>2. \A s \in {404, 500} : Good(Plain(s, t, b))
        BY <2>1, <3>1, <4>1
      <4> QED BY <4>2 DEF HTTPError, t, b
    <3>3. \A s \in {301, 412} : Good(Plain(s, "none", <<>>))
      <4> DEFINE t == "none"
                 b == <<>>
      <4>1. t \in Types /\ b \in Seq(Said)
        BY <2>2, SmallBodies
      <4> HIDE DEF t, b
      <4>2. \A s \in {301, 412} : Good(Plain(s, t, b))
        BY <2>1, <3>1, <4>1
      <4> QED BY <4>2 DEF t, b
    <3>4. Good(a)
      BY <2>3, <3>2, <3>3
    <3> QED BY <3>4 DEF Good
  <2>4. CASE a \in Whole
    <3>1. PICK t \in {"html", "other"}, b \in Bodies : a = Known(200, t, b)
      BY <2>4
    <3> DEFINE s == 200
    <3>2. /\ s \in Statuses /\ s \notin {206, 304, 429} /\ t \in Types /\ b \in Seq(Said)
          /\ a = Known(s, t, b)
      BY <2>1, <2>2, <3>1, BodiesAreSaid
    <3> HIDE DEF s
    <3>3. /\ a \in Answer /\ a.status = s /\ ~a.early
          /\ a.body = (IF request.method = "HEAD" THEN <<>> ELSE b) /\ a.length = Len(b)
      BY <3>2, KnownIs
    <3> QED BY <3>2, <3>3, SmallBodies
  <2> QED BY <1>4, <2>3, <2>4
<1> DEFINE to == "head"
           body == a.body
           length == a.length
<1>6. MayReply(a, length, to) /\ body = OutOf(a) /\ Reply(a, body, length, to)
  BY <1>1, <1>2, <1>5 DEF MayReply, OutOf
<1> HIDE DEF to, body, length
<1> QED BY <1>1, <1>6, ReplyStep

LEMMA UpstreamSays ==
  ASSUME NEW m \in UpstreamAnswers
  PROVE  /\ m \in Answer /\ m.body \in Seq(Said) /\ m.status # 429
         /\ m.length = Unknown \/ request.method = "HEAD" \/ m.length = Len(m.body)
<1> DEFINE statuses == {200, 404} \cup (IF request.asks = "range" THEN {206} ELSE {})
           whole == {Known(s, t, b) : s \in statuses, t \in {"html", "stream", "other"}, b \in Bodies}
           later == {[a EXCEPT !.length = Unknown] : a \in whole}
           given == {a \in whole : a.type # "stream"}
           cached == IF request.asks = "if-none-match" THEN {Known(304, "html", <<>>)} ELSE {}
           Good(b) == /\ b \in Answer /\ b.body \in Seq(Said) /\ b.status # 429
                      /\ b.length = Unknown \/ request.method = "HEAD" \/ b.length = Len(b.body)
<1>1. \A s \in Statuses \ {429}, t \in Types, b \in Seq(Said) : Good(Known(s, t, b))
  <2> SUFFICES ASSUME NEW s \in Statuses \ {429}, NEW t \in Types, NEW b \in Seq(Said)
               PROVE  Good(Known(s, t, b))
    OBVIOUS
  <2> DEFINE k == Known(s, t, b)
  <2>1. /\ k \in Answer /\ k.status = s
        /\ k.body = (IF request.method = "HEAD" THEN <<>> ELSE b) /\ k.length = Len(b)
    BY KnownIs
  <2> HIDE DEF k
  <2>2. Good(k)
    BY <2>1, SmallBodies
  <2> QED BY <2>2 DEF k
<1>2. statuses \subseteq Statuses \ {429} /\ 304 \in Statuses \ {429}
      /\ {"html", "stream", "other"} \subseteq Types
  BY DEF Statuses, Types
<1>3. \A b \in whole : Good(b)
  <2> HIDE DEF statuses, Good
  <2> QED BY <1>1, <1>2, BodiesAreSaid
<1>4. \A b \in cached : Good(b)
  <2> DEFINE s == 304
             t == "html"
             e == <<>>
  <2>1. s \in Statuses \ {429} /\ t \in Types /\ e \in Seq(Said)
    BY <1>2, SmallBodies
  <2>2. cached \subseteq {Known(s, t, e)}
    OBVIOUS
  <2> HIDE DEF s, t, e, cached, Good
  <2> QED BY <1>1, <2>1, <2>2
<1> HIDE DEF whole, cached
<1>5. \A b \in later : Good(b)
  <2> SUFFICES ASSUME NEW b \in later PROVE Good(b)
    OBVIOUS
  <2>1. PICK c \in whole : b = [c EXCEPT !.length = Unknown]
    OBVIOUS
  <2>2. Good(c)
    BY <1>3
  <2> QED BY <2>1, <2>2 DEF Answer, Unknown
<1>6. \A b \in later \cup given \cup cached : Good(b)
  <2> HIDE DEF later, Good
  <2> QED BY <1>3, <1>4, <1>5
<1>7. UpstreamAnswers = later \cup given \cup cached
  BY DEF UpstreamAnswers, whole, cached
<1> HIDE DEF later, given
<1>8. Good(m)
  BY <1>6, <1>7
<1> QED BY <1>8

(* What came of the upstream before does not change what it says.           *)
LEMMA ToldIs ==
  ASSUME NEW a \in Answer
  PROVE  /\ Told(a) \in Answer /\ Told(a).status = a.status /\ Told(a).type = a.type
         /\ Told(a).length = a.length /\ Told(a).body = a.body
         /\ Told(a).early <=> at = "early"
BY DEF Told, Answer

LEMMA ServeUpstreamStep == ASSUME Inv, ServeUpstream PROVE Inv'
<1>1. /\ at \in {"route", "early"} /\ request.route = "site" /\ ~FromDir /\ FromUpstream
      /\ read' \in SUBSET Facts /\ since' = since /\ UNCHANGED <<shared, request, timer>>
  BY DEF ServeUpstream, Forwarded, Routed, Inv, TypeOK, FromDir, FromUpstream
<1>2. PICK b \in UpstreamAnswers :
        Reply(Told(b), Modified(b).body, Modified(b).length, "head")
  BY DEF ServeUpstream
<1>3. /\ b \in Answer /\ b.body \in Seq(Said) /\ b.status # 429
      /\ b.length = Unknown \/ request.method = "HEAD" \/ b.length = Len(b.body)
  BY UpstreamSays
<1> DEFINE a == Told(b)
           to == "head"
           body == Modified(b).body
           length == Modified(b).length
<1>4. /\ body = IF b.type = "html" THEN InjectLinks(b.body) ELSE b.body
      /\ length = IF b.type = "html" THEN Len(InjectLinks(b.body)) ELSE b.length
  BY <1>3 DEF Modified, Answer
<1>5. Reply(a, body, length, to) /\ to = "head"
  BY <1>2
<1>6. /\ a \in Answer /\ a.status = b.status /\ a.type = b.type /\ a.length = b.length
      /\ a.body = b.body /\ (a.early <=> at = "early")
  BY <1>3, ToldIs
<1> HIDE DEF a, to, body, length
<1>7. MayReply(a, length, to) /\ body = OutOf(a)
  BY <1>1, <1>3, <1>4, <1>5, <1>6 DEF MayReply, OutOf
<1> QED BY <1>1, <1>5, <1>7, ReplyStep

LEMMA UpstreamFailsStep == ASSUME Inv, UpstreamFails PROVE Inv'
<1>1. /\ at \in {"route", "early"} /\ request.route = "site" /\ ~FromDir /\ FromUpstream
      /\ read' \in SUBSET Facts /\ since' = since /\ UNCHANGED <<shared, request, timer>>
  BY DEF UpstreamFails, Forwarded, Routed, Inv, TypeOK, FromDir, FromUpstream
<1> DEFINE s == 502
           t == "none"
           b == <<>>
           to == "head"
           p == Plain(s, t, b)
           a == Told(p)
           length == Unknown
<1>2. s \in Statuses \ {429} /\ t \in Types \ {"html"} /\ b \in Seq(Said)
  BY SmallBodies DEF Statuses, Types
<1>3. to = "head" /\ length = Unknown /\ Reply(a, b, length, to)
  BY DEF UpstreamFails
<1> HIDE DEF s, t, b, to, length
<1>6. p \in Answer /\ p.body = b /\ p.status = s /\ p.type = t /\ p.length = Unknown
  BY <1>2, PlainMay
<1> HIDE DEF p
<1>4. /\ a \in Answer /\ a.body = b /\ a.status = s /\ a.type = t /\ a.length = Unknown
      /\ a.early <=> at = "early"
  BY <1>6, ToldIs
<1> HIDE DEF a
<1>5. MayReply(a, length, to) /\ b = OutOf(a)
  BY <1>1, <1>2, <1>3, <1>4 DEF MayReply, OutOf
<1> QED BY <1>1, <1>3, <1>5, ReplyStep

(* WriteHeader with the handler's status, or 103 before it.                 *)
LEMMA EarlyHintIs ==
  ASSUME NEW x \in Writers
  PROVE  LET y == HintHeader(x, 103)
         IN  /\ y \in Writers /\ y.header = x.header /\ y.page = x.page /\ y.wire = x.wire
             /\ y.hint = [wrote |-> TRUE, holds |-> FALSE, buf |-> x.hint.buf]
<1> DEFINE y == [x EXCEPT !.hint.wrote = TRUE, !.hint.holds = FALSE]
<1>1. HintHeader(x, 103) = y
  <2> DEFINE holds == 103 = 404 /\ x.header.type # "html"
             z == [x EXCEPT !.hint.wrote = TRUE, !.hint.holds = holds]
  <2>1. HintHeader(x, 103) = IF holds THEN z ELSE SendHeader(z, 103)
    BY DEF HintHeader
  <2>2. SendHeader(z, 103) = z
    BY DEF SendHeader
  <2>3. holds = FALSE
    OBVIOUS
  <2> HIDE DEF holds
  <2>4. z = y
    BY <2>3
  <2> HIDE DEF z, y
  <2> QED BY <2>1, <2>2, <2>3, <2>4
<1>2. x.hint \in Hint
  BY DEF Writers
<1>3. y.header = x.header /\ y.page = x.page /\ y.wire = x.wire
      /\ y.hint = [x.hint EXCEPT !.wrote = TRUE, !.holds = FALSE]
  BY DEF Writers
<1>4. y = [x EXCEPT !.hint = y.hint]
  BY <1>3 DEF Writers
<1>5. y.hint = [wrote |-> TRUE, holds |-> FALSE, buf |-> x.hint.buf] /\ y.hint \in Hint
  <2> HIDE DEF y
  <2> QED BY <1>2, <1>3 DEF Hint
<1>6. y \in Writers
  BY <1>4, <1>5 DEF Writers
<1> QED BY <1>1, <1>3, <1>5, <1>6

\* The body of the answer, and its length, whatever was sent of it.
LEMMA OutIs ==
  ASSUME Inv, at \in {"head", "body"}
  PROVE  /\ Out \in Sent /\ "hint" \notin ToSet(Out) /\ answer.body \in Seq(Said)
         /\ InjectLinks(answer.body) \in Sent
         /\ w \in Writers /\ answer.status \in Statuses \ {429}
         /\ ~(FromDir /\ FromUpstream)
<1>1. answer.body \in Seq(Said) /\ answer.status # 429
  BY DEF Inv, PipelineInv, Replied
<1>2. w \in Writers /\ answer.status \in Statuses
  BY DEF Inv, TypeOK, Writers, Answer
<1>3. InjectLinks(answer.body) \in Seq(Rewritten)
  BY <1>1, InjectLinksIsSound
<1>4. InjectLinks(answer.body) \in Sent /\ answer.body \in Sent
  BY <1>1, SaidIsSent
<1>5. "hint" \notin Said /\ "hint" \notin Rewritten
  BY DEF Said, Rewritten, Pieces, Added
<1>6. \A S, s : s \in Seq(S) /\ "hint" \notin S => "hint" \notin ToSet(s)
  <2> SUFFICES ASSUME NEW S, NEW s \in Seq(S), "hint" \notin S PROVE "hint" \notin ToSet(s)
    OBVIOUS
  <2>1. DOMAIN s = 1 .. Len(s) /\ \A i \in 1 .. Len(s) : s[i] \in S
    BY ElementOfSeq, LenProperties
  <2> QED BY <2>1 DEF ToSet
<1>7. Out \in Sent /\ "hint" \notin ToSet(Out)
  BY <1>1, <1>3, <1>4, <1>5, <1>6 DEF Out
<1>8. ~(FromDir /\ FromUpstream)
  BY DEF FromDir, FromUpstream
<1> QED BY <1>1, <1>2, <1>4, <1>7, <1>8

(* A step of a writer that leaves what the handler says alone.              *)
LEMMA SameAnswer ==
  ASSUME UNCHANGED <<shared, request, answer, left>>
  PROVE  /\ FromDir' = FromDir /\ FromUpstream' = FromUpstream /\ IsHTML' = IsHTML
         /\ Hinted' = Hinted /\ Held' = Held /\ Out' = Out /\ Sofar' = Sofar
         /\ LeftIsRest' = LeftIsRest
<1>1. /\ FromDir' = FromDir /\ FromUpstream' = FromUpstream /\ IsHTML' = IsHTML
      /\ answer' = answer /\ left' = left
  BY DEF shared, FromDir, FromUpstream, IsHTML
<1>2. Out' = Out
  BY <1>1 DEF Out
<1> QED BY <1>1, <1>2 DEF Hinted, Held, Sofar, LeftIsRest

LEMMA RepliedStays ==
  ASSUME Replied, at \in {"head", "body"},
         UNCHANGED <<shared, request, answer, left>>, w'.header = w.header
  PROVE  Replied'
<1>1. /\ FromDir' = FromDir /\ FromUpstream' = FromUpstream /\ IsHTML' = IsHTML
      /\ Out' = Out /\ LeftIsRest' = LeftIsRest /\ answer' = answer /\ request' = request
  BY SameAnswer
<1> QED BY <1>1 DEF Replied

LEMMA FreshHint ==
  ASSUME NEW h \in Hint, ~h.wrote, ~h.holds, h.buf = <<>>
  PROVE  h = FreshWriters.hint
<1>1. h.wrote = FALSE /\ h.holds = FALSE
  BY DEF Hint
<1>2. h = [wrote |-> h.wrote, holds |-> h.holds, buf |-> h.buf]
  BY DEF Hint
<1> QED BY <1>1, <1>2 DEF FreshWriters

LEMMA WriteEarlyStep == ASSUME Inv, WriteEarly PROVE Inv'
<1> DEFINE h == WriteHeader(w, 103)
<1>1. /\ at = "route" /\ at' = "early" /\ w' = [h EXCEPT !.header = FreshHeader]
      /\ site' = site /\ provider' = provider /\ published' = published
      /\ request' = request /\ answer' = answer /\ left' = left /\ timer' = timer
      /\ read' = read /\ since' = since /\ FromUpstream /\ ~FromDir
  BY DEF WriteEarly, Routed, shared, FromUpstream, FromDir
<1>2. /\ timer = "off" /\ left = <<>> /\ answer = NoAnswer
      /\ w.page = FreshWriters.page /\ w.wire = FreshWriters.wire /\ w.hint = FreshWriters.hint
      /\ w \in Writers
  BY <1>1 DEF Inv, TypeOK, Writers, PipelineInv, Resting
<1>3. /\ h \in Writers /\ h.page = w.page /\ h.wire = w.wire
      /\ h.hint = [wrote |-> TRUE, holds |-> FALSE, buf |-> w.hint.buf]
  BY <1>1, <1>2, EarlyHintIs DEF WriteHeader
<1>4. w.hint.buf = <<>>
  BY <1>2 DEF FreshWriters
<1> HIDE DEF h
<1>5. FreshHeader \in Header /\ FreshHeader.link = FALSE
  BY DEF FreshHeader, Header, Types, Unknown
<1>6. /\ w' \in Writers /\ w'.header = FreshHeader /\ w'.page = h.page /\ w'.wire = h.wire
      /\ w'.hint = h.hint
  BY <1>1, <1>3, <1>5 DEF Writers
<1>7. TypeOK'
  BY <1>1, <1>6 DEF Inv, TypeOK, Writers, Places
<1>8. Resting'
  <2>1. FromUpstream'
    BY <1>1 DEF FromUpstream
  <2>2. w'.hint = HintSeen /\ ~w'.header.link
    BY <1>3, <1>4, <1>5, <1>6 DEF HintSeen
  <2> QED BY <1>1, <1>2, <1>3, <1>6, <2>1, <2>2 DEF Resting
<1>9. Timed'
  BY <1>1, <1>2 DEF Timed
<1> QED BY <1>1, <1>7, <1>8, <1>9
     DEF Inv, PipelineInv, Replied, Heading, Writing, Finished, CutOff

LEMMA WriteStatusStep == ASSUME Inv, WriteStatus PROVE Inv'
<1> DEFINE s == answer.status
<1>1. /\ at = "head" /\ at' = "body" /\ w' = WriteHeader(w, s)
      /\ timer' = (IF Streams THEN "due" ELSE "off")
      /\ site' = site /\ provider' = provider /\ published' = published
      /\ request' = request /\ answer' = answer /\ left' = left
      /\ read' = read /\ since' = since
      /\ UNCHANGED <<shared, request, answer, left>>
  BY DEF WriteStatus, shared
<1>2. /\ timer = "off" /\ left = Out /\ w.page = FreshWriters.page /\ w.wire = FreshWriters.wire
      /\ w.hint.buf = <<>> /\ ~w.hint.holds /\ (w.hint.wrote => FromUpstream)
  BY <1>1 DEF Inv, PipelineInv, Heading, FreshWriters
<1>3. /\ w \in Writers /\ s \in Statuses /\ ~(FromDir /\ FromUpstream) /\ Out \in Sent
  BY <1>1, OutIs
<1>4. Replied
  BY DEF Inv, PipelineInv
<1>5. /\ w.header.type = answer.type
      /\ w.header.length = IF FromUpstream /\ IsHTML THEN Len(Out) ELSE answer.length
  BY <1>1, <1>4 DEF Replied
<1>6. Sofar = <<>>
  BY <1>2, <1>3, WholeIsLeft DEF Sofar
<1> HIDE DEF s
<1>7. Timed'
  <2> SUFFICES ASSUME Streams
               PROVE  (FromUpstream /\ ~IsHTML /\ answer.length = Unknown /\ answer.status # 502)'
    BY <1>1 DEF Timed
  <2>1. FromUpstream /\ w.header.length = Unknown /\ answer.status # 502
    BY DEF Streams
  <2>2. ~IsHTML
    BY <1>3, <1>5, <2>1, LenOf DEF Unknown
  <2> QED BY <1>1, <1>5, <2>1, <2>2, SameAnswer
<1>8. w.page.buf = <<>> /\ ~w.page.holds /\ w.wire.status = 0 /\ w.wire.body = <<>> /\ w.wire.flushed = 0
  BY <1>2 DEF FreshWriters
<1>9. CASE Held
  <2>1. FromDir /\ w.header.type = "html"
    BY <1>5, <1>9 DEF Held, IsHTML
  <2>2. PICK z \in Writers :
          /\ z.header = w.header /\ z.hint = w.hint /\ z.wire = w.wire
          /\ z.page.wrote /\ (z.page.holds <=> w.header.type = "html")
          /\ z.page.status = s /\ z.page.buf = w.page.buf
          /\ PageHeader(w, s) = IF w.header.type = "html" THEN z ELSE HintHeader(z, s)
    BY <1>3, PageHeaderIs
  <2>3. w' = z
    BY <1>1, <2>1, <2>2 DEF WriteHeader
  <2>4. w' \in Writers /\ w'.header = w.header
    BY <2>2, <2>3
  <2>5. WithPage'
    <3>1. w.hint = FreshWriters.hint
      <4>1. ~w.hint.wrote /\ w.hint \in Hint
        BY <1>2, <1>3, <2>1 DEF Writers
      <4> QED BY <1>2, <4>1, FreshHint
    <3>2. /\ w'.page.wrote /\ w'.page.holds /\ w'.page.status = s /\ w'.page.buf = w.page.buf
      BY <2>1, <2>2, <2>3
    <3>3. w'.hint = FreshWriters.hint /\ w'.wire = FreshWriters.wire
      BY <1>2, <2>2, <2>3, <3>1
    <3>4. w'.page.status = answer'.status /\ w'.page.buf = Sofar'
      BY <1>1, <1>6, <1>8, <3>2, SameAnswer DEF s
    <3> QED BY <3>2, <3>3, <3>4 DEF WithPage
  <2>6. TypeOK'
    BY <1>1, <2>4 DEF Inv, TypeOK, Writers, Places
  <2>7. Replied'
    BY <1>1, <1>4, <2>4, RepliedStays
  <2> QED BY <1>1, <1>7, <1>9, <2>5, <2>6, <2>7, SameAnswer
       DEF Inv, PipelineInv, Resting, Heading, Writing, Finished, CutOff
<1>10. CASE ~Held
  <2>1. PICK z \in Writers :
          /\ w' = HintHeader(z, s) /\ z.header = w.header /\ z.hint = w.hint /\ z.wire = w.wire
          /\ ~z.page.holds /\ (FromDir => z.page.wrote)
    <3>1. CASE FromDir
      <4>1. w.header.type # "html"
        BY <1>5, <1>10, <3>1 DEF Held, IsHTML
      <4>2. PICK z \in Writers :
              /\ z.header = w.header /\ z.hint = w.hint /\ z.wire = w.wire
              /\ z.page.wrote /\ (z.page.holds <=> w.header.type = "html")
              /\ z.page.status = s /\ z.page.buf = w.page.buf
              /\ PageHeader(w, s) = IF w.header.type = "html" THEN z ELSE HintHeader(z, s)
        BY <1>3, PageHeaderIs
      <4>3. PageHeader(w, s) = HintHeader(z, s) /\ z.page.wrote /\ ~z.page.holds
        BY <4>1, <4>2
      <4>4. w' = HintHeader(z, s)
        BY <1>1, <3>1, <4>3 DEF WriteHeader
      <4> QED BY <4>2, <4>3, <4>4
    <3>2. CASE ~FromDir
      BY <1>1, <1>3, <1>8, <3>2 DEF WriteHeader
    <3> QED BY <3>1, <3>2
  <2> DEFINE holds == s = 404 /\ z.header.type # "html"
             sends == ~holds /\ z.wire.status = 0
  <2>2. /\ w' \in Writers
        /\ w'.header = z.header /\ w'.page = z.page
        /\ w'.hint = [wrote |-> TRUE, holds |-> holds, buf |-> z.hint.buf]
        /\ w'.wire.body = z.wire.body /\ w'.wire.flushed = z.wire.flushed
        /\ w'.wire.status = (IF sends THEN s ELSE z.wire.status)
        /\ w'.wire.header = (IF sends THEN z.header ELSE z.wire.header)
    BY <1>3, <2>1, HintHeaderIs
  <2>3. holds = Hinted
    BY <1>5, <2>1 DEF Hinted, IsHTML, s
  <2> HIDE DEF holds
  <2>4. TypeOK'
    BY <1>1, <2>2 DEF Inv, TypeOK, Writers, Places
  <2>5. Replied'
    BY <1>1, <1>4, <2>1, <2>2, RepliedStays
  <2>6. (IF Hinted THEN WithHint ELSE WithWire)'
    <3>1. /\ ~w'.page.holds /\ (FromDir' => w'.page.wrote) /\ Sofar' = <<>>
          /\ w'.wire.body = <<>> /\ w'.wire.flushed = 0 /\ w'.hint.wrote /\ w'.hint.holds = holds
          /\ w'.hint.buf = <<>> /\ w'.header = w.header
          /\ w'.wire.status = (IF holds THEN 0 ELSE s)
          /\ w'.wire.header = (IF holds THEN w.wire.header ELSE w.header)
      BY <1>1, <1>2, <1>6, <1>8, <2>1, <2>2, SameAnswer
    <3>2. CASE Hinted
      <4>1. WithHint'
        BY <2>3, <3>1, <3>2 DEF WithHint
      <4> QED BY <1>1, <3>2, <4>1, SameAnswer
    <3>3. CASE ~Hinted
      <4>1. Len(<<>>) = 0
        OBVIOUS
      <4>2. w'.wire.status = answer'.status /\ w'.wire.header = w'.header
        BY <1>1, <2>3, <3>1, <3>3 DEF s
      <4>3. WithWire'
        BY <2>3, <3>1, <3>3, <4>1, <4>2 DEF WithWire
      <4> QED BY <1>1, <3>3, <4>3, SameAnswer
    <3> QED BY <3>2, <3>3
  <2>7. Writing'
    BY <1>1, <1>10, <2>6, SameAnswer DEF Writing
  <2> QED BY <1>1, <1>7, <2>4, <2>5, <2>7
       DEF Inv, PipelineInv, Resting, Heading, Finished, CutOff
<1> QED BY <1>9, <1>10

LEMMA TimerFiresStep == ASSUME Inv, TimerFires PROVE Inv'
<1>1. /\ at = "body" /\ at' = "body" /\ w' = Flush(w) /\ timer = "due" /\ timer' = "fired"
      /\ site' = site /\ provider' = provider /\ published' = published
      /\ request' = request /\ answer' = answer /\ left' = left
      /\ read' = read /\ since' = since
      /\ UNCHANGED <<shared, request, answer, left>>
  BY DEF TimerFires, shared
<1>2. w \in Writers /\ answer.status \in Statuses
  BY <1>1, OutIs
<1>3. /\ w' \in Writers
      /\ w'.header = w.header /\ w'.page = w.page /\ w'.hint = w.hint
      /\ w'.wire.body = w.wire.body /\ w'.wire.flushed = Len(w.wire.body)
      /\ w'.wire.status = (IF w.wire.status = 0 THEN 200 ELSE w.wire.status)
      /\ w'.wire.header = (IF w.wire.status = 0 THEN w.header ELSE w.wire.header)
  BY <1>1, <1>2, FlushIs
<1>4. Replied /\ Timed /\ Writing
  BY DEF Inv, PipelineInv
<1>5. FromUpstream /\ ~IsHTML /\ answer.length = Unknown /\ answer.status # 502 /\ ~Held
  BY <1>1, <1>4 DEF Timed, Held
<1>6. TypeOK'
  BY <1>1, <1>3 DEF Inv, TypeOK, Writers, Places
<1>7. Replied'
  BY <1>1, <1>3, <1>4, RepliedStays
<1>8. Timed'
  BY <1>1, <1>5, SameAnswer DEF Timed
<1>9. Flushes /\ Flushes'
  BY <1>1 DEF Flushes
<1>10. CASE Hinted
  <2>1. WithHint
    BY <1>1, <1>4, <1>5, <1>10 DEF Writing
  <2>2. w.wire.body = <<>> /\ Len(<<>>) = 0
    BY <2>1 DEF WithHint
  <2>3. WithHint'
    BY <1>1, <1>3, <2>1, <2>2, SameAnswer DEF WithHint
  <2>4. Writing'
    BY <1>1, <1>5, <1>10, <2>3, SameAnswer DEF Writing
  <2> QED BY <1>1, <1>6, <1>7, <1>8, <2>4
       DEF Inv, PipelineInv, Resting, Heading, Finished, CutOff
<1>11. CASE ~Hinted
  <2>1. WithWire
    BY <1>1, <1>4, <1>5, <1>11 DEF Writing
  <2>2. w.wire.status = answer.status /\ w.wire.status # 0 /\ w.wire.header = w.header /\ w.hint.wrote
    BY <1>2, <1>9, <2>1 DEF WithWire, Statuses
  <2>3. WithWire'
    BY <1>1, <1>3, <2>1, <2>2, SameAnswer DEF WithWire
  <2>4. Writing'
    BY <1>1, <1>5, <1>11, <2>3, SameAnswer DEF Writing
  <2> QED BY <1>1, <1>6, <1>7, <1>8, <2>4
       DEF Inv, PipelineInv, Resting, Heading, Finished, CutOff
<1> QED BY <1>10, <1>11

(* One more piece of what is said.                                          *)
LEMMA NextPiece ==
  ASSUME NEW out \in Sent, NEW rest, rest # <<>>, Len(rest) <= Len(out),
         rest = SubSeq(out, Len(out) - Len(rest) + 1, Len(out)), rest \in Sent
  PROVE  LET n == Len(out) - Len(rest)
             t == Tail(rest)
         IN  /\ <<Head(rest)>> \in Sent /\ t \in Sent
             /\ Len(t) = Len(rest) - 1 /\ Len(t) <= Len(out)
             /\ t = SubSeq(out, Len(out) - Len(t) + 1, Len(out))
             /\ SubSeq(out, 1, n) \in Sent /\ Len(SubSeq(out, 1, n)) = n
             /\ SubSeq(out, 1, Len(out) - Len(t)) = SubSeq(out, 1, n) \o <<Head(rest)>>
<1> DEFINE All == Pieces \cup {"error", "links", "footer", "hint"}
           n == Len(out) - Len(rest)
           t == Tail(rest)
<1>1. Sent = Seq(All)
  BY DEF Sent
<1> HIDE DEF All
<1>2. Len(rest) \in Nat /\ Len(out) \in Nat /\ Len(rest) # 0
  BY <1>1, LenProperties, EmptySeq
<1>3. n \in Nat /\ n + 1 <= Len(out) /\ n + 1 \in 1 .. Len(out)
  BY <1>2
<1>4. Head(rest) \in All /\ t \in Seq(All) /\ Len(t) = Len(rest) - 1
  BY <1>1, HeadTailProperties
<1>5. Head(rest) = out[n + 1] /\ t = SubSeq(out, n + 2, Len(out))
  <2>1. rest = SubSeq(out, n + 1, Len(out)) /\ out \in Seq(All)
    BY <1>1
  <2>2. /\ Head(SubSeq(out, n + 1, Len(out))) = out[n + 1]
        /\ Tail(SubSeq(out, n + 1, Len(out))) = SubSeq(out, n + 1 + 1, Len(out))
    BY <1>2, <1>3, <2>1, HeadTailOfSubSeq
  <2>3. n + 1 + 1 = n + 2
    BY <1>3
  <2> QED BY <2>1, <2>2, <2>3
<1>6. Len(out) - Len(t) = n + 1 /\ Len(t) <= Len(out)
  BY <1>2, <1>4
<1>7. SubSeq(out, 1, n) \in Seq(All) /\ Len(SubSeq(out, 1, n)) = n
  BY <1>1, <1>2, <1>3, SubSeqProperties
<1>8. SubSeq(out, 1, n + 1) = Append(SubSeq(out, 1, n), out[n + 1])
  BY <1>1, <1>2, <1>3, SubSeqRecursiveSecond
<1>9. Append(SubSeq(out, 1, n), out[n + 1]) = SubSeq(out, 1, n) \o <<out[n + 1]>>
  BY <1>1, <1>3, <1>4, <1>5, <1>7, AppendIsConcat
<1>10. <<Head(rest)>> \in Seq(All)
  BY <1>4
<1> HIDE DEF n, t
<1>11. t = SubSeq(out, Len(out) - Len(t) + 1, Len(out))
  <2>1. n + 1 + 1 = n + 2
    BY <1>3
  <2> QED BY <1>5, <1>6, <2>1
<1>12. SubSeq(out, 1, Len(out) - Len(t)) = SubSeq(out, 1, n) \o <<Head(rest)>>
  BY <1>5, <1>6, <1>8, <1>9
<1> QED BY <1>1, <1>4, <1>6, <1>7, <1>10, <1>11, <1>12 DEF n, t

LEMMA FlushInnerIs ==
  ASSUME NEW x \in Writers
  PROVE  LET y == FlushInner(x)
             sends == Flushes /\ x.wire.status = 0
         IN  /\ y \in Writers
             /\ y.header = x.header /\ y.page = x.page /\ y.hint = x.hint
             /\ y.wire.body = x.wire.body
             /\ y.wire.flushed = (IF Flushes THEN Len(x.wire.body) ELSE x.wire.flushed)
             /\ y.wire.status = (IF sends THEN 200 ELSE x.wire.status)
             /\ y.wire.header = (IF sends THEN x.header ELSE x.wire.header)
<1>1. CASE Flushes
  <2>1. FlushInner(x) = Flush(x)
    BY <1>1 DEF FlushInner
  <2> DEFINE y == Flush(x)
  <2>2. /\ y \in Writers
        /\ y.header = x.header /\ y.page = x.page /\ y.hint = x.hint
        /\ y.wire.body = x.wire.body /\ y.wire.flushed = Len(x.wire.body)
        /\ y.wire.status = (IF x.wire.status = 0 THEN 200 ELSE x.wire.status)
        /\ y.wire.header = (IF x.wire.status = 0 THEN x.header ELSE x.wire.header)
    BY FlushIs
  <2> HIDE DEF y
  <2>3. FlushInner(x) = y
    BY <2>1 DEF y
  <2> QED BY <1>1, <2>2, <2>3
<1>2. CASE ~Flushes
  BY <1>2 DEF FlushInner
<1> QED BY <1>1, <1>2

LEMMA WritePieceStep == ASSUME Inv, WritePiece PROVE Inv'
<1> DEFINE piece == <<Head(left)>>
           x == Write(w, piece)
           y == FlushInner(x)
<1>1. /\ at = "body" /\ at' = "body" /\ w' = y /\ left # <<>> /\ left' = Tail(left)
      /\ site' = site /\ provider' = provider /\ published' = published
      /\ request' = request /\ answer' = answer /\ timer' = timer
      /\ read' = read /\ since' = since
  BY DEF WritePiece, shared
<1>2. w \in Writers /\ answer.status \in Statuses /\ Out \in Sent /\ ~(FromDir /\ FromUpstream)
  BY <1>1, OutIs
<1>3. Replied /\ Timed /\ Writing /\ left \in Sent
  BY DEF Inv, TypeOK, PipelineInv
<1>4. /\ FromDir' = FromDir /\ FromUpstream' = FromUpstream /\ IsHTML' = IsHTML
      /\ Hinted' = Hinted /\ Held' = Held /\ Out' = Out /\ Flushes' = Flushes
  <2>1. FromDir' = FromDir /\ FromUpstream' = FromUpstream /\ IsHTML' = IsHTML
    BY <1>1 DEF FromDir, FromUpstream, IsHTML
  <2> QED BY <1>1, <2>1 DEF Out, Hinted, Held, Flushes
<1>5. /\ piece \in Sent /\ left' \in Sent
      /\ Len(left') <= Len(Out) /\ LeftIsRest' /\ Sofar \in Sent
      /\ Sofar' = Sofar \o piece
      /\ Len(Sofar) + Len(left) = Len(Out) /\ Len(left') = Len(left) - 1
      /\ Len(left') \in Nat /\ Len(Sofar) \in Nat /\ Len(Out) \in Nat
  <2> DEFINE n == Len(Out) - Len(left)
             t == Tail(left)
  <2>1. Len(left) <= Len(Out) /\ left = SubSeq(Out, Len(Out) - Len(left) + 1, Len(Out))
    BY <1>1, <1>3 DEF Replied, LeftIsRest
  <2>2. /\ piece \in Sent /\ t \in Sent
        /\ Len(t) = Len(left) - 1 /\ Len(t) <= Len(Out)
        /\ t = SubSeq(Out, Len(Out) - Len(t) + 1, Len(Out))
        /\ SubSeq(Out, 1, n) \in Sent /\ Len(SubSeq(Out, 1, n)) = n
        /\ SubSeq(Out, 1, Len(Out) - Len(t)) = SubSeq(Out, 1, n) \o piece
    BY <1>1, <1>2, <1>3, <2>1, NextPiece
  <2>3. left' = t
    BY <1>1
  <2>4. Len(left) \in Nat /\ Len(Out) \in Nat /\ Len(t) \in Nat /\ Len(SubSeq(Out, 1, n)) \in Nat
    BY <1>2, <1>3, <2>2, LenOf
  <2> HIDE DEF piece, t
  <2>5. LeftIsRest'
    BY <1>4, <2>2, <2>3 DEF LeftIsRest
  <2>6. Sofar' = Sofar \o piece /\ Sofar \in Sent /\ Len(Sofar) = n
    BY <1>4, <2>2, <2>3 DEF Sofar
  <2> QED BY <2>2, <2>3, <2>4, <2>5, <2>6
<1> DEFINE longer == Sofar \o piece
<1>6. Len(longer) = Len(Sofar) + 1 /\ longer \in Sent
  <2>1. Len(piece) = 1
    OBVIOUS
  <2> HIDE DEF piece
  <2> QED BY <1>5, <2>1, ConcatOf
<1> HIDE DEF piece, longer
<1>7. ASSUME x \in Writers
      PROVE  /\ w' \in Writers
             /\ w'.header = x.header /\ w'.page = x.page /\ w'.hint = x.hint
             /\ w'.wire.body = x.wire.body
             /\ w'.wire.flushed = (IF Flushes THEN Len(x.wire.body) ELSE x.wire.flushed)
             /\ w'.wire.status = (IF Flushes /\ x.wire.status = 0 THEN 200 ELSE x.wire.status)
             /\ w'.wire.header = (IF Flushes /\ x.wire.status = 0 THEN x.header ELSE x.wire.header)
  <2> HIDE DEF x
  <2> QED BY <1>1, <1>7, FlushInnerIs
<1>8. ASSUME w' \in Writers, w'.header = w.header, Writing'
      PROVE  Inv'
  <2>1. TypeOK'
    BY <1>1, <1>5, <1>8 DEF Inv, TypeOK, Writers, Places
  <2>2. Replied'
    BY <1>1, <1>3, <1>4, <1>5, <1>8 DEF Replied
  <2>3. Timed'
    BY <1>1, <1>3, <1>4 DEF Timed
  <2> QED BY <1>1, <1>8, <2>1, <2>2, <2>3
       DEF Inv, PipelineInv, Resting, Heading, Finished, CutOff
<1>9. CASE Held
  <2>1. WithPage /\ FromDir /\ ~Flushes
    <3>1. FromDir /\ request.route = "site" /\ timer = "off"
      BY <1>2, <1>3, <1>9 DEF Held, FromDir, Timed
    <3> QED BY <1>1, <1>3, <1>9, <3>1 DEF Writing, Flushes
  <2>2. x = PageWrite(w, piece) /\ w.page.wrote /\ w.page.holds
    BY <2>1 DEF Write, WithPage
  <2>3. /\ x \in Writers
        /\ x.header = w.header /\ x.hint = w.hint /\ x.wire = w.wire
        /\ x.page.wrote /\ x.page.holds /\ x.page.status = w.page.status
        /\ x.page.buf = w.page.buf \o piece
    <3> DEFINE z == PageWrite(w, piece)
    <3>1. /\ z \in Writers
          /\ z.header = w.header /\ z.hint = w.hint /\ z.wire = w.wire
          /\ z.page.wrote /\ z.page.holds /\ z.page.status = w.page.status
          /\ z.page.buf = w.page.buf \o piece
      BY <1>2, <1>5, <2>2, PageWriteHeld
    <3> HIDE DEF z, x
    <3>2. x = z
      BY <2>2 DEF z
    <3> QED BY <3>1, <3>2
  <2> HIDE DEF x
  <2>4. w' = x
    BY <1>1, <2>1 DEF FlushInner
  <2>5. WithPage'
    BY <1>1, <1>4, <1>5, <2>1, <2>3, <2>4 DEF WithPage
  <2> QED BY <1>4, <1>8, <1>9, <2>3, <2>4, <2>5 DEF Writing
<1>10. CASE ~Held
  <2>1. ~w.page.holds /\ (FromDir => w.page.wrote)
    BY <1>1, <1>3, <1>10 DEF Writing, WithHint, WithWire
  <2>2. x = HintWrite(w, piece)
    BY <2>1, WritePasses
  <2>3. CASE Hinted
    <3>1. WithHint
      BY <1>1, <1>3, <1>10, <2>3 DEF Writing
    <3> DEFINE z == HintWrite(w, piece)
    <3>2. /\ z \in Writers
          /\ z.header = w.header /\ z.page = w.page /\ z.wire = w.wire
          /\ z.hint = [wrote |-> TRUE, holds |-> TRUE, buf |-> w.hint.buf \o piece]
      BY <1>2, <1>5, <3>1, HintWriteHeld DEF WithHint
    <3> HIDE DEF z, x
    <3>3. x = z
      BY <2>2 DEF z
    <3>4. /\ w' \in Writers
          /\ w'.header = w.header /\ w'.page = w.page
          /\ w'.hint = [wrote |-> TRUE, holds |-> TRUE, buf |-> longer]
          /\ w'.wire.body = w.wire.body
          /\ w'.wire.flushed = (IF Flushes THEN Len(w.wire.body) ELSE w.wire.flushed)
          /\ w'.wire.status = (IF Flushes /\ w.wire.status = 0 THEN 200 ELSE w.wire.status)
          /\ w'.wire.header = (IF Flushes /\ w.wire.status = 0 THEN w.header ELSE w.wire.header)
      <4>1. longer = w.hint.buf \o piece
        BY <3>1 DEF WithHint, longer
      <4> QED BY <1>7, <3>2, <3>3, <4>1
    <3>5. Flushes => timer # "off"
      BY <1>1, <1>3, <2>3 DEF Flushes, Replied, Hinted
    <3>6. w.wire.body = <<>> /\ Len(<<>>) = 0 /\ Sofar' = longer
      BY <1>5, <3>1 DEF WithHint, longer
    <3>7. WithHint'
      BY <1>1, <1>4, <3>1, <3>4, <3>5, <3>6 DEF WithHint
    <3> QED BY <1>4, <1>8, <1>10, <2>3, <3>4, <3>7 DEF Writing
  <2>4. CASE ~Hinted
    <3>1. WithWire
      BY <1>1, <1>3, <1>10, <2>4 DEF Writing
    <3> DEFINE room == IF w.wire.status = 0 THEN w.header.length ELSE w.wire.header.length
               fits == room = Unknown \/ Len(w.wire.body \o piece) <= room
               z == HintWrite(w, piece)
    <3>2. /\ z \in Writers
          /\ z.header = w.header /\ z.page = w.page
          /\ z.hint = [wrote |-> TRUE, holds |-> FALSE, buf |-> w.hint.buf]
          /\ z.wire.flushed = w.wire.flushed
          /\ z.wire.status = (IF w.wire.status = 0 THEN 200 ELSE w.wire.status)
          /\ z.wire.header = (IF w.wire.status = 0 THEN w.header ELSE w.wire.header)
          /\ z.wire.body = (IF fits /\ request.method # "HEAD" THEN w.wire.body \o piece
                            ELSE w.wire.body)
      BY <1>2, <1>5, <3>1, HintWriteOut DEF WithWire
    <3> HIDE DEF z, x
    <3>3. x = z
      BY <2>2 DEF z
    <3>4. z.wire.status = answer.status /\ z.wire.status # 0 /\ z.wire.header = w.header
      BY <1>2, <3>1, <3>2 DEF WithWire, Statuses
    <3>5. request.method # "HEAD" => fits
      <4> SUFFICES ASSUME request.method # "HEAD", w.header.length # Unknown
                   PROVE  fits
        BY <3>1 DEF WithWire
      <4>1. room = w.header.length /\ w.wire.body = Sofar
        BY <3>1 DEF WithWire
      <4>2. room = Len(Out)
        BY <1>1, <1>3, <4>1 DEF Replied, Out
      <4>3. Len(longer) <= room
        BY <1>5, <1>6, <4>2
      <4> HIDE DEF room
      <4> QED BY <4>1, <4>3 DEF longer
    <3> HIDE DEF fits
    <3>6. z.wire.body = IF request.method = "HEAD" THEN <<>> ELSE longer
      BY <3>1, <3>2, <3>5 DEF WithWire, longer
    <3>7. /\ w' \in Writers
          /\ w'.header = w.header /\ w'.page = w.page
          /\ w'.hint = [wrote |-> TRUE, holds |-> FALSE, buf |-> w.hint.buf]
          /\ w'.wire.body = z.wire.body
          /\ w'.wire.flushed = (IF Flushes THEN Len(z.wire.body) ELSE z.wire.flushed)
          /\ w'.wire.status = answer.status /\ w'.wire.header = w.header
      BY <1>7, <3>2, <3>3, <3>4
    <3>8. WithWire'
      <4>1. Sofar' = longer
        BY <1>5 DEF longer
      <4>2. w'.wire.body = IF request'.method = "HEAD" THEN <<>> ELSE Sofar'
        BY <1>1, <3>6, <3>7, <4>1
      <4>3. /\ ~w'.page.holds /\ ~w'.hint.holds /\ (FromDir' => w'.page.wrote)
            /\ w'.wire.status = answer'.status /\ w'.wire.header = w'.header /\ w'.hint.wrote
        BY <1>1, <1>4, <2>1, <3>7
      <4>4. Flushes' => w'.wire.flushed = Len(w'.wire.body)
        BY <1>4, <3>7
      <4> QED BY <4>2, <4>3, <4>4 DEF WithWire
    <3> QED BY <1>4, <1>8, <1>10, <2>4, <3>7, <3>8 DEF Writing
  <2> QED BY <2>3, <2>4
<1> QED BY <1>9, <1>10

\* What is left over, once all is written.
LEMMA AllIsSaid ==
  ASSUME LeftIsRest, left = <<>>, Out \in Sent
  PROVE  Sofar = Out
<1>1. Len(left) = 0 /\ Len(Out) \in Nat
  BY LenOf
<1>2. Len(Out) - Len(left) = Len(Out)
  BY <1>1
<1>3. SubSeq(Out, 1, Len(Out)) = Out
  BY SubSeqFull DEF Sent
<1> QED BY <1>2, <1>3 DEF Sofar

LEMMA NoMoreHeader ==
  ASSUME NEW x \in Writers, x.wire.status # 0
  PROVE  SendHeader(x, 200) = x
BY DEF SendHeader

LEMMA ReturnStep == ASSUME Inv, Return PROVE Inv'
<1> DEFINE x == PageFlush(w)
           y == HintFlush(x)
           s == 200
           z == SendHeader(y, s)
<1>1. /\ at = "body" /\ at' = "done" /\ w' = z /\ left = <<>> /\ timer' = "off"
      /\ site' = site /\ provider' = provider /\ published' = published
      /\ request' = request /\ answer' = answer /\ left' = left
      /\ read' = read /\ since' = since
      /\ UNCHANGED <<shared, request, answer, left>>
  BY DEF Return, shared
<1>2. /\ w \in Writers /\ answer.status \in Statuses \ {429} /\ Out \in Sent
      /\ InjectLinks(answer.body) \in Sent /\ ~(FromDir /\ FromUpstream)
  BY <1>1, OutIs
<1>3. Replied /\ Timed /\ Writing /\ request \in Request
  BY DEF Inv, TypeOK, PipelineInv
<1>4. Sofar = Out
  BY <1>1, <1>2, <1>3, AllIsSaid DEF Replied
<1>5. s \in Statuses /\ answer.status # 0
  BY <1>2 DEF Statuses
<1> HIDE DEF s
<1>6. request.method = "GET" => request.method # "HEAD"
  OBVIOUS
<1>7. ASSUME w' \in Writers, Answered'
      PROVE  Inv'
  <2>1. TypeOK'
    BY <1>1, <1>7 DEF Inv, TypeOK, Writers, Places
  <2> QED BY <1>1, <1>7, <2>1
       DEF Inv, PipelineInv, Resting, Replied, Heading, Timed, Writing, Finished, CutOff
<1> DEFINE Whole == IF Hinted THEN <<"hint">>
                    ELSE IF (FromDir \/ FromUpstream) /\ IsHTML THEN InjectLinks(answer.body)
                    ELSE answer.body
<1>8. ASSUME w'.wire.header.link <=> ~answer.early,
             \/ w'.wire.status = answer.status
             \/ FromUpstream /\ Hinted /\ answer.length = Unknown /\ w'.wire.status = 200,
             request.method = "GET" =>
               w'.wire.body = Whole /\ w'.wire.header.length \in {Unknown, Len(w'.wire.body)},
             request.method = "HEAD" => w'.wire.body = <<>>
      PROVE  Answered'
  <2>1. Whole' = Whole
    BY <1>1, SameAnswer
  <2>2. answer'.body \in Seq(Said) /\ (FromDir' => answer'.status \notin {206, 304})
    BY <1>1, <1>3, SameAnswer DEF Replied
  <2>3. FromUpstream' = FromUpstream /\ Hinted' = Hinted /\ request' = request /\ answer' = answer
    BY <1>1, SameAnswer
  <2>4. request'.method = "GET" => w'.wire.body = Whole'
    BY <1>8, <2>1, <2>3
  <2> HIDE DEF Whole
  <2>5. /\ \/ w'.wire.status = answer'.status
           \/ FromUpstream' /\ Hinted' /\ answer'.length = Unknown /\ w'.wire.status = 200
        /\ request'.method = "GET" => w'.wire.header.length \in {Unknown, Len(w'.wire.body)}
        /\ request'.method = "HEAD" => w'.wire.body = <<>>
    BY <1>8, <2>3
  <2>6. (w.wire.header.link <=> ~answer.early)'
    BY <1>8, <2>3
  <2> QED BY <2>2, <2>4, <2>5, <2>6 DEF Answered, Whole
<1>9. CASE Held
  <2>1. WithPage /\ FromDir /\ IsHTML /\ ~FromUpstream /\ ~Hinted
    BY <1>1, <1>2, <1>3, <1>9 DEF Writing, Held, Hinted
  <2>2. Out = answer.body /\ w.page.buf = answer.body
    BY <1>4, <2>1 DEF Out, WithPage
  <2>3. /\ w.page.holds /\ w.page.status = answer.status /\ w.header.type = "html"
        /\ w.header.link <=> ~answer.early
        /\ w.hint = FreshWriters.hint /\ w.wire = FreshWriters.wire
    BY <1>1, <1>3, <2>1 DEF WithPage, Replied, IsHTML
  <2> DEFINE body == InjectLinks(w.page.buf)
  <2>4. body \in Sent /\ body = InjectLinks(answer.body)
    BY <1>2, <2>2
  <2>5. /\ x \in Writers
        /\ ~x.hint.holds
        /\ x.wire.status = w.page.status
        /\ x.wire.header.link = w.header.link
        /\ x.wire.header.length = Len(body)
        /\ x.wire.body = (IF request.method = "HEAD" THEN <<>> ELSE body)
    <3>1. w.page.status \in Statuses
      BY <1>2, <2>3
    <3>2. /\ w \in Writers /\ w.page.holds /\ w.header.type = "html"
          /\ w.hint = FreshWriters.hint /\ w.wire = FreshWriters.wire
          /\ InjectLinks(w.page.buf) \in Sent
      BY <1>2, <2>3, <2>4
    <3> HIDE DEF body
    <3> QED BY <3>1, <3>2, PageFlushIs DEF body
  <2> HIDE DEF x, body
  <2>6. y = x
    BY <2>5 DEF HintFlush
  <2>7. w' = x
    <3>1. x.wire.status # 0
      BY <1>5, <2>3, <2>5
    <3>2. SendHeader(x, 200) = x
      BY <2>5, <3>1, NoMoreHeader
    <3> HIDE DEF y
    <3> QED BY <1>1, <2>6, <3>2 DEF s
  <2>8. Whole = body
    BY <2>1, <2>4
  <2> HIDE DEF Whole
  <2> QED BY <1>6, <1>7, <1>8, <2>3, <2>5, <2>7, <2>8
<1>10. CASE ~Held /\ Hinted
  <2>1. WithHint /\ (w.header.link <=> ~answer.early) /\ ~IsHTML /\ answer.status = 404
    BY <1>1, <1>3, <1>10 DEF Writing, Replied, Hinted
  <2>2. x = w
    BY <2>1 DEF PageFlush, WithHint
  <2>3. w.wire.status # 0 =>
          /\ w.wire.status = 200 /\ FromUpstream /\ answer.length = Unknown
          /\ w.wire.header = w.header /\ w.header.length = Unknown
    BY <1>1, <1>3, <2>1 DEF WithHint, Timed, Replied
  <2> DEFINE v == HintFlush(w)
  <2>4. /\ v \in Writers
        /\ v.wire.status = (IF w.wire.status = 0 THEN 404 ELSE w.wire.status)
        /\ v.wire.header.link = (IF w.wire.status = 0 THEN w.header.link ELSE w.wire.header.link)
        /\ v.wire.header.length = (IF w.wire.status = 0 THEN 1 ELSE Unknown)
        /\ v.wire.body = (IF request.method = "HEAD" THEN <<>> ELSE <<"hint">>)
    <3>1. w.hint.holds /\ w.wire.body = <<>> /\ (w.wire.status = 0 \/ w.wire.header.length = Unknown)
      BY <2>1, <2>3 DEF WithHint
    <3> QED BY <1>2, <3>1, HintFlushIs
  <2>5. y = v
    BY <2>2
  <2> HIDE DEF v
  <2>6. v.wire.status # 0
    BY <2>4
  <2>7. w' = v
    <3>1. SendHeader(v, 200) = v
      BY <2>4, <2>6, NoMoreHeader
    <3> HIDE DEF y
    <3> QED BY <1>1, <2>5, <3>1 DEF s
  <2>8. Whole = <<"hint">> /\ Len(<<"hint">>) = 1
    BY <1>10
  <2>9. v.wire.header.link <=> ~answer.early
    BY <2>1, <2>3, <2>4
  <2>10. \/ v.wire.status = answer.status
         \/ FromUpstream /\ Hinted /\ answer.length = Unknown /\ v.wire.status = 200
    BY <1>10, <2>1, <2>3, <2>4
  <2> DEFINE hint == <<"hint">>
  <2>11. request.method = "GET" =>
           v.wire.body = Whole /\ v.wire.header.length \in {Unknown, Len(v.wire.body)}
    <3>1. v.wire.header.length \in {Unknown, 1}
      BY <2>4
    <3>2. v.wire.body = (IF request.method = "HEAD" THEN <<>> ELSE hint) /\ Whole = hint /\ Len(hint) = 1
      BY <2>4, <2>8
    <3> HIDE DEF hint, Whole
    <3> QED BY <1>6, <3>1, <3>2
  <2>12. request.method = "HEAD" => v.wire.body = <<>>
    BY <2>4
  <2> HIDE DEF Whole
  <2> QED BY <1>7, <1>8, <2>4, <2>7, <2>9, <2>10, <2>11, <2>12
<1>11. CASE ~Held /\ ~Hinted
  <2>1. WithWire /\ (w.header.link <=> ~answer.early)
    BY <1>1, <1>3, <1>11 DEF Writing, Replied
  <2>2. y = w
    BY <2>1 DEF PageFlush, HintFlush, WithWire
  <2> DEFINE v == SendHeader(w, s)
  <2>3. /\ v \in Writers
        /\ v.wire.body = w.wire.body
        /\ v.wire.status = (IF w.wire.status = 0 THEN s ELSE w.wire.status)
        /\ v.wire.header = (IF w.wire.status = 0 THEN w.header ELSE w.wire.header)
    BY <1>2, <1>5, SendHeaderIs
  <2>4. w' = v
    BY <1>1, <2>2
  <2> HIDE DEF v
  <2>5. v.wire.status = answer.status /\ v.wire.header = w.header
    BY <1>5, <2>1, <2>3 DEF WithWire, s
  <2>6. v.wire.body = IF request.method = "HEAD" THEN <<>> ELSE Out
    BY <1>4, <2>1, <2>3 DEF WithWire
  <2>7. Whole = Out
    BY <1>11 DEF Held, Out
  <2>8. request.method = "GET" => w.header.length \in {Unknown, Len(Out)}
    BY <1>1, <1>3 DEF Replied, Out
  <2> HIDE DEF Whole
  <2> QED BY <1>6, <1>7, <1>8, <2>1, <2>3, <2>4, <2>5, <2>6, <2>7, <2>8
<1> QED BY <1>9, <1>10, <1>11

LEMMA SofarIsPart ==
  ASSUME Out \in Sent, left \in Sent
  PROVE  /\ "hint" \notin ToSet(Out) => "hint" \notin ToSet(Sofar)
         /\ Len(left) <= Len(Out) => Len(Sofar) = Len(Out) - Len(left)
<1> DEFINE n == Len(Out) - Len(left)
<1>1. Len(Out) \in Nat /\ n \in Int /\ n <= Len(Out) /\ (Len(left) <= Len(Out) => n >= 0)
  BY LenOf
<1>2. \A i \in 1 .. n : Out[i] \in ToSet(Out)
  BY <1>1, LenProperties DEF Sent, ToSet
<1> HIDE DEF n
<1>3. /\ SubSeq(Out, 1, n) \in Seq(ToSet(Out))
      /\ Len(SubSeq(Out, 1, n)) = (IF 1 <= n THEN n - 1 + 1 ELSE 0)
  BY <1>1, <1>2, SubSeqProperties
<1>4. \A s \in Seq(ToSet(Out)) : "hint" \notin ToSet(Out) => "hint" \notin ToSet(s)
  BY ElementOfSeq, LenProperties DEF ToSet
<1>5. Sofar = SubSeq(Out, 1, n)
  BY DEF Sofar, n
<1>6. Len(left) <= Len(Out) => Len(Sofar) = n
  BY <1>1, <1>3, <1>5
<1>7. "hint" \notin ToSet(Out) => "hint" \notin ToSet(Sofar)
  BY <1>3, <1>4, <1>5
<1> QED BY <1>6, <1>7 DEF n

LEMMA AbortStep == ASSUME Inv, Abort PROVE Inv'
<1>1. /\ at = "body" /\ at' = "aborted" /\ FromUpstream /\ timer' = "off"
      /\ site' = site /\ provider' = provider /\ published' = published
      /\ request' = request /\ answer' = answer /\ left' = left /\ w' = w
      /\ read' = read /\ since' = since
  BY DEF Abort, shared
<1>2. Out \in Sent /\ "hint" \notin ToSet(Out) /\ ~(FromDir /\ FromUpstream) /\ left \in Sent
  BY <1>1, OutIs DEF Inv, TypeOK
<1>3. Replied /\ Writing
  BY DEF Inv, PipelineInv
<1>4. WithHint \/ WithWire
  BY <1>1, <1>2, <1>3 DEF Writing, Held
<1>5. "hint" \notin ToSet(Sofar) /\ "hint" \notin ToSet(<<>>)
  BY <1>2, SofarIsPart DEF ToSet
<1>6. w.header.link <=> ~answer.early
  BY <1>1, <1>3 DEF Replied
<1>7. CutOff'
  BY <1>1, <1>4, <1>5, <1>6 DEF CutOff, WithHint, WithWire
<1>8. TypeOK'
  BY <1>1 DEF Inv, TypeOK, Places
<1> QED BY <1>1, <1>7, <1>8
     DEF Inv, PipelineInv, Resting, Replied, Heading, Timed, Writing, Finished

LEMMA NextRequestStep == ASSUME Inv, NextRequest PROVE Inv'
<1>1. /\ at' = "idle" /\ request' = NoRequest /\ answer' = NoAnswer /\ left' = <<>>
      /\ timer' = "off" /\ w' = FreshWriters /\ read' = {} /\ since' = {}
      /\ site' = site /\ provider' = provider /\ published' = published
  BY DEF NextRequest, shared
<1>2. TypeOK'
  BY <1>1, FreshType, NoAnswerType DEF Inv, TypeOK, Writers, Places
<1>3. FreshWriters.header.link = FALSE
  BY DEF FreshWriters, FreshHeader
<1>4. Resting' /\ Timed'
  BY <1>1, <1>3 DEF Resting, Timed
<1> QED BY <1>1, <1>2, <1>4
     DEF Inv, PipelineInv, Replied, Heading, Writing, Finished, CutOff

\* The facts do not matter to what is written.
LEMMA FactsApart ==
  ASSUME Inv, site' = site, UNCHANGED call,
         provider' \in Facts, published' \in Facts, since' \in SUBSET Facts
  PROVE  Inv'
<1>1. /\ request' = request /\ at' = at /\ answer' = answer /\ left' = left
      /\ timer' = timer /\ w' = w /\ read' = read
  BY DEF call
<1>2. TypeOK'
  BY <1>1 DEF Inv, TypeOK
<1>3. /\ FromDir' = FromDir /\ FromUpstream' = FromUpstream /\ IsHTML' = IsHTML
  BY <1>1 DEF FromDir, FromUpstream, IsHTML
<1>4. Out' = Out /\ Hinted' = Hinted /\ Held' = Held /\ Flushes' = Flushes
  BY <1>1, <1>3 DEF Out, Hinted, Held, Flushes
<1>5. Sofar' = Sofar /\ LeftIsRest' = LeftIsRest
  BY <1>1, <1>4 DEF Sofar, LeftIsRest
<1>6. Resting' /\ Replied'
  BY <1>1, <1>3, <1>4, <1>5 DEF Inv, PipelineInv, Resting, Replied
<1>7. Heading' /\ Timed'
  BY <1>1, <1>3, <1>4, <1>5 DEF Inv, PipelineInv, Heading, Timed
<1>8. Writing'
  BY <1>1, <1>3, <1>4, <1>5 DEF Inv, PipelineInv, Writing, WithPage, WithHint, WithWire
<1>9. Finished' /\ CutOff'
  BY <1>1, <1>3, <1>4 DEF Inv, PipelineInv, Finished, Refused, Answered, CutOff
<1> QED BY <1>2, <1>6, <1>7, <1>8, <1>9 DEF Inv, PipelineInv

LEMMA IndexStays == ASSUME Inv, IndexInv, [Next]_vars PROVE IndexInv'
<1> USE DEF IndexInv
<1>1. CASE UNCHANGED vars
  BY <1>1 DEF vars, call
<1>2. CASE \E r \in Request : Arrive(r)
  BY <1>2 DEF Arrive
<1>3. CASE \E p \in Facts : UpdateProvider(p)
  BY <1>3 DEF UpdateProvider, call
<1>4. CASE Serve
  <2>1. CASE ReadName
    BY <2>1 DEF ReadName, Routed
  <2>2. CASE ~ReadName
    <3>1. at' # "index"
      <4>1. CASE Refuse \/ Allow \/ ServeFacts \/ ServeOwn \/ RedirectIndex \/ ReadDescription
        BY <4>1 DEF Refuse, Allow, ServeFacts, ServeOwn, RedirectIndex, ReadDescription, Reply
      <4>2. CASE ServeMCP \/ ServeNotFound \/ ServeDir \/ ServeUpstream \/ UpstreamFails
        BY <4>2 DEF ServeMCP, ServeNotFound, ServeDir, ServeUpstream, UpstreamFails, Reply
      <4>3. CASE WriteEarly \/ WriteStatus \/ TimerFires \/ WritePiece
        BY <4>3 DEF WriteEarly, WriteStatus, TimerFires, WritePiece
      <4>4. CASE Return \/ Abort \/ NextRequest
        BY <4>4 DEF Return, Abort, NextRequest
      <4> QED BY <1>4, <2>2, <4>1, <4>2, <4>3, <4>4 DEF Serve
    <3> QED BY <3>1
  <2> QED BY <2>1, <2>2
<1> QED BY <1>1, <1>2, <1>3, <1>4 DEF Next

LEMMA InvStep == ASSUME Inv, IndexInv, [Next]_vars PROVE Inv'
<1>1. CASE UNCHANGED vars
  <2>1. site' = site /\ UNCHANGED call /\ provider' = provider /\ published' = published /\ since' = since
    BY <1>1 DEF vars, shared
  <2> QED BY <2>1, FactsApart DEF Inv, TypeOK
<1>2. CASE \E r \in Request : Arrive(r)
  BY <1>2, ArriveStep
<1>3. CASE \E p \in Facts : UpdateProvider(p)
  <2>1. PICK p \in Facts : UpdateProvider(p)
    BY <1>3
  <2>2. /\ site' = site /\ UNCHANGED call /\ provider' = p /\ published' = p
        /\ since' \in SUBSET Facts
    BY <2>1 DEF UpdateProvider, Inv, TypeOK
  <2> QED BY <2>2, FactsApart
<1>4. CASE Serve
  BY <1>4, RefuseStep, AllowStep, ServeFactsStep, ServeOwnStep, RedirectIndexStep, ReadNameStep,
     ReadDescriptionStep, ServeMCPStep, ServeNotFoundStep, ServeDirStep, ServeUpstreamStep,
     UpstreamFailsStep, WriteEarlyStep, WriteStatusStep, TimerFiresStep, WritePieceStep,
     ReturnStep, AbortStep, NextRequestStep DEF Serve
<1> QED BY <1>1, <1>2, <1>3, <1>4 DEF Next

LEMMA PipelineInvariant == Spec => [](Inv /\ IndexInv)
<1>1. Init => Inv /\ IndexInv
  BY PipelineInit DEF IndexInv, Init, Idle
<1>2. Inv /\ IndexInv /\ [Next]_vars => (Inv /\ IndexInv)'
  BY InvStep, IndexStays
<1> QED BY <1>1, <1>2, PTL DEF Spec
-----------------------------------------------------------------------------
(* What follows from it *)

\* Types: the state of the pipeline is one TypeOK describes, for any facts,
\* sites and pages.
THEOREM TypeCorrect == Spec => []TypeOK
<1>1. Inv => TypeOK
  BY DEF Inv
<1> QED BY <1>1, PipelineInvariant, PTL

LEMMA Passing ==
  ASSUME Inv, Passed
  PROVE  Answered
<1>1. Refused \/ Answered
  BY DEF Passed, Inv, PipelineInv, Finished
<1>2. HTTPError(429).status = 429
  BY DEF HTTPError, Plain
<1> QED BY <1>1, <1>2 DEF Passed, Refused

LEMMA NoHint == \A b \in Seq(Said) : "hint" \notin ToSet(b) /\ "hint" \notin ToSet(InjectLinks(b))
<1> SUFFICES ASSUME NEW b \in Seq(Said)
             PROVE  "hint" \notin ToSet(b) /\ "hint" \notin ToSet(InjectLinks(b))
  OBVIOUS
<1>1. InjectLinks(b) \in Seq(Rewritten)
  BY InjectLinksIsSound
<1>2. "hint" \notin Said /\ "hint" \notin Rewritten
  BY DEF Said, Rewritten, Pieces, Added
<1>3. \A S, s : s \in Seq(S) /\ "hint" \notin S => "hint" \notin ToSet(s)
  BY ElementOfSeq, LenProperties DEF ToSet
<1> QED BY <1>1, <1>2, <1>3

\* HeadKept: the status that leaves is the handler's, through notFoundHintWriter,
\* bufferingResponseWriter and the rewriting; only the 404 that the reverse proxy
\* flushes past notFoundHintWriter becomes a 200.  The Link header leaves with
\* every answer that passed the limiter, unless the upstream sent an
\* informational header first, after which the reverse proxy clears the map.
THEOREM KeepsHead == Spec => []HeadKept
<1>1. Inv => HeadKept
  <2> SUFFICES ASSUME Inv PROVE HeadKept
    OBVIOUS
  <2>1. ASSUME at = "done"
        PROVE  /\ \/ w.wire.status = answer.status
                  \/ FromUpstream /\ Hinted /\ answer.length = Unknown /\ w.wire.status = 200
               /\ answer.status # 429 => (w.wire.header.link <=> ~answer.early)
    <3>1. CASE Refused
      <4>1. HTTPError(429).status = 429
        BY DEF HTTPError, Plain
      <4> QED BY <3>1, <4>1 DEF Refused
    <3>2. CASE Answered
      BY <3>2 DEF Answered
    <3> QED BY <2>1, <3>1, <3>2 DEF Inv, PipelineInv, Finished
  <2>2. at = "aborted" /\ w.wire.status # 0 => (w.wire.header.link <=> ~answer.early)
    BY DEF Inv, PipelineInv, CutOff
  <2> QED BY <2>1, <2>2 DEF HeadKept
<1> QED BY <1>1, PipelineInvariant, PTL

\* HintIsAlone: withNotFoundHint replaces the body of every 404 that is not
\* HTML, and its pointer is never part of anything else, finished or not.
THEOREM HintStaysAlone == Spec => []HintIsAlone
<1>1. Inv => HintIsAlone
  <2> SUFFICES ASSUME Inv PROVE HintIsAlone
    OBVIOUS
  <2>1. Passed /\ Hinted /\ request.method = "GET" => w.wire.body = <<"hint">>
    BY Passing DEF Answered
  <2>2. ASSUME ~Hinted PROVE "hint" \notin ToSet(w.wire.body)
    <3>0. "hint" \notin ToSet(<<>>) /\ FreshWriters.wire.body = <<>>
      BY DEF ToSet, FreshWriters
    <3>1. CASE at \in {"idle", "limiter", "route", "index", "early", "head"}
      BY <3>0, <3>1 DEF Inv, PipelineInv, Resting, Heading
    <3>2. CASE at = "body"
      <4>1. Out \in Sent /\ "hint" \notin ToSet(Out) /\ left \in Sent
        BY <3>2, OutIs DEF Inv, TypeOK
      <4>2. "hint" \notin ToSet(Sofar)
        BY <4>1, SofarIsPart
      <4> QED BY <2>2, <3>0, <3>2, <4>2 DEF Inv, PipelineInv, Writing, WithPage, WithWire
    <3>3. CASE at = "done"
      <4>1. request.method \in {"GET", "HEAD"}
        BY DEF Inv, TypeOK, Request
      <4>2. CASE Refused
        <5>1. \A s \in Seq({"error"}) : "hint" \notin ToSet(s)
          BY ElementOfSeq, LenProperties DEF ToSet
        <5> QED BY <4>2, <5>1 DEF Refused
      <4>3. CASE Answered
        BY <2>2, <3>0, <4>1, <4>3, NoHint DEF Answered
      <4> QED BY <3>3, <4>2, <4>3 DEF Inv, PipelineInv, Finished
    <3>4. CASE at = "aborted"
      BY <3>4 DEF Inv, PipelineInv, CutOff
    <3> QED BY <3>1, <3>2, <3>3, <3>4 DEF Inv, TypeOK, Places
  <2> QED BY <2>1, <2>2 DEF HintIsAlone
<1> QED BY <1>1, PipelineInvariant, PTL

\* LengthKept: the Content-Length that leaves, whether the handler's, the one
\* recomputed for a page with links or the pointer's, is the length of the body.
THEOREM KeepsLength == Spec => []LengthKept
<1>1. Inv => LengthKept
  BY Passing DEF Answered, LengthKept
<1> QED BY <1>1, PipelineInvariant, PTL

\* PagesCarryLinks: a page of the site arrives whole and in order, with the links
\* right after its first <head> and the hidden link right before its first
\* </body>; whatever else the site says arrives as it is.
THEOREM PagesAreSound == Spec => []PagesCarryLinks
<1>1. Inv => PagesCarryLinks
  <2> SUFFICES ASSUME Inv, Passed, FromSite, request.method = "GET", ~Hinted
               PROVE  /\ FromDir => w.wire.status \notin {206, 304}
                      /\ IF IsHTML
                         THEN /\ Arrives(answer.body, w.wire.body, Added)
                              /\ LinksPlaced(answer.body, w.wire.body)
                              /\ FooterPlaced(answer.body, w.wire.body)
                         ELSE w.wire.body = answer.body
    BY DEF PagesCarryLinks
  <2>1. Answered
    BY Passing
  <2>2. w.wire.status = answer.status /\ answer.body \in Seq(Said)
        /\ (FromDir => answer.status \notin {206, 304})
    BY <2>1 DEF Answered
  <2>3. w.wire.body = IF IsHTML THEN InjectLinks(answer.body) ELSE answer.body
    BY <2>1 DEF Answered, FromSite
  <2> QED BY <2>2, <2>3, InjectLinksIsSound
<1> QED BY <1>1, PipelineInvariant, PTL

\* StreamFlows: a Flush reaches the connection through Unwrap, so of a stream
\* nothing is held back by the writers between two writes of its handler.
THEOREM StreamsFlow == Spec => []StreamFlows
<1>1. Inv => StreamFlows
  <2> SUFFICES ASSUME Inv, at = "body", Flushes, request.method = "GET", ~Hinted
               PROVE  w.wire.status = answer.status
                      /\ w.wire.flushed = Len(answer.body) - Len(left)
    BY DEF StreamFlows
  <2>1. Replied /\ Timed /\ Writing
    BY DEF Inv, PipelineInv
  <2>2. ~(FromDir /\ FromUpstream) /\ Out \in Sent /\ left \in Sent
    BY OutIs DEF Inv, TypeOK
  <2>3. ~Held /\ Out = answer.body
    <3>1. CASE timer # "off"
      BY <2>1, <2>2, <3>1 DEF Timed, Held, Out
    <3>2. CASE timer = "off"
      <4>1. request.route = "mcp"
        BY <3>2 DEF Flushes
      <4> QED BY <4>1 DEF FromDir, FromUpstream, Held, Out
    <3> QED BY <3>1, <3>2
  <2>4. WithWire
    BY <2>1, <2>3 DEF Writing
  <2>5. w.wire.status = answer.status /\ w.wire.flushed = Len(Sofar)
    BY <2>4 DEF WithWire
  <2>6. Len(Sofar) = Len(Out) - Len(left)
    <3>1. Len(left) <= Len(Out)
      BY <2>1 DEF Replied, LeftIsRest
    <3> QED BY <2>2, <3>1, SofarIsPart
  <2> QED BY <2>3, <2>5, <2>6
<1> QED BY <1>1, PipelineInvariant, PTL

LEMMA FactsInvariant == Spec => []FactsInv
<1>1. Init => FactsInv
  BY DEF Init, Idle, FactsInv
<1>2. FactsInv /\ [Next]_vars => FactsInv'
  <2> SUFFICES ASSUME FactsInv, [Next]_vars PROVE FactsInv'
    OBVIOUS
  <2>1. CASE UNCHANGED vars
    BY <2>1 DEF vars, shared, call, FactsInv
  <2>2. CASE \E r \in Request : Arrive(r)
    BY <2>2 DEF Arrive, shared, FactsInv
  <2>3. CASE \E p \in Facts : UpdateProvider(p)
    BY <2>3 DEF UpdateProvider, call, FactsInv
  <2>4. CASE Serve
    <3>1. CASE NextRequest
      BY <3>1 DEF NextRequest, shared, FactsInv
    <3>2. CASE ~NextRequest
      <4>1. at # "idle" /\ at' # "idle" /\ since' = since /\ provider' = provider /\ published' = published
        <5>1. ASSUME NEW a, NEW b, NEW l, NEW to, Reply(a, b, l, to) PROVE at' = to
          BY <5>1 DEF Reply
        <5>2. CASE ServeOwn
          BY <5>1, <5>2 DEF ServeOwn, Routed, shared
        <5>3. CASE ServeMCP
          BY <5>1, <5>3 DEF ServeMCP, Routed, shared
        <5>4. CASE ServeDir
          BY <5>1, <5>4 DEF ServeDir, Routed, shared
        <5>5. CASE ServeUpstream
          BY <5>1, <5>5 DEF ServeUpstream, Forwarded, Routed, shared
        <5>6. CASE \/ Refuse \/ Allow \/ ServeFacts \/ RedirectIndex \/ ReadName \/ ReadDescription
                   \/ ServeNotFound \/ UpstreamFails
          BY <5>6 DEF Refuse, Allow, ServeFacts, RedirectIndex, ReadName, ReadDescription,
             ServeNotFound, UpstreamFails, Forwarded, Reply, Routed, shared
        <5>7. CASE WriteEarly \/ WriteStatus \/ TimerFires \/ WritePiece \/ Return \/ Abort
          BY <5>7 DEF WriteEarly, Routed, WriteStatus, TimerFires, WritePiece, Return, Abort, shared
        <5> QED BY <2>4, <3>2, <5>2, <5>3, <5>4, <5>5, <5>6, <5>7 DEF Serve
      <4>2. read' \in {read, {provider}, read \cup {provider}}
        BY <2>4, <3>2 DEF Serve, Refuse, Allow, ServeFacts, ServeOwn, RedirectIndex, ReadName,
           ReadDescription, ServeMCP, ServeNotFound, ServeDir, ServeUpstream, UpstreamFails,
           WriteEarly, WriteStatus, TimerFires, WritePiece, Return, Abort
      <4> QED BY <4>1, <4>2 DEF FactsInv
    <3> QED BY <3>1, <3>2
  <2> QED BY <2>1, <2>2, <2>3, <2>4 DEF Next
<1> QED BY <1>1, <1>2, PTL DEF Spec

\* FactsAreCurrent: UpdateProvider swaps the facts at any moment, between the two
\* reads of handleIndex too, and still no answer is from facts that had been
\* replaced before it was asked for.
THEOREM FactsStayCurrent == Spec => []FactsAreCurrent
<1>1. FactsInv => FactsAreCurrent
  BY DEF FactsInv, FactsAreCurrent
<1> QED BY <1>1, FactsInvariant, PTL
-----------------------------------------------------------------------------
(* The whole of Discovery *)

\* NormalizeSourceURL makes a sheet's link an export link, which it leaves alone
\* and whose format is in it.
LEMMA NormalizedOnce ==
  ASSUME NEW url \in URLs
  PROVE  LET link == NormalizeSourceURL(url)
             sheet == url.host = "docs.google.com" /\ url.path \in {"sheet", "sheet/edit"}
         IN  /\ NormalizeSourceURL(link) = link
             /\ sheet => /\ link.gid = (IF url.gid # "" THEN url.gid ELSE url.fragment)
                         /\ \A type : DetectFormat(link, type) = "csv"
<1> DEFINE link == NormalizeSourceURL(url)
           sheet == url.host = "docs.google.com" /\ url.path \in {"sheet", "sheet/edit"}
<1>1. CASE ~sheet
  <2>1. link = url
    BY <1>1 DEF NormalizeSourceURL
  <2> QED BY <1>1, <2>1
<1>2. CASE sheet
  <2>1. /\ link.path = "sheet/export" /\ link.format = "csv" /\ link.ext = url.ext
        /\ link.gid = (IF url.gid # "" THEN url.gid ELSE url.fragment)
    BY <1>2 DEF NormalizeSourceURL, URLs
  <2>2. url.ext = ""
    BY <1>2 DEF URLs
  <2> HIDE DEF link
  <2>3. NormalizeSourceURL(link) = link
    BY <2>1 DEF NormalizeSourceURL
  <2>4. "" \notin DOMAIN ByExtension
    BY DEF ByExtension
  <2>5. \A type : DetectFormat(link, type) = "csv"
    BY <2>1, <2>2, <2>4 DEF DetectFormat
  <2> QED BY <2>1, <2>3, <2>5 DEF link
<1> QED BY <1>1, <1>2

\* The document on its way in: a link that was normalised, or a record that, if
\* it has a name, is one of Facts.
SourceInv ==
  \/ source = NoSource
  \/ source.at = "link" /\ source.asked \in Links /\ source.link = NormalizeSourceURL(source.asked)
  \/ source.at = "parsed" /\ (HasName(source.record) => Provider(source.record) \in Facts)

LEMMA SourceInvariant == DiscoverySpec => []SourceInv
<1>1. DiscoveryInit => SourceInv
  BY DEF DiscoveryInit, SourceInv
<1>2. SourceInv /\ [DiscoveryNext]_allVars => SourceInv'
  <2> SUFFICES ASSUME SourceInv, [DiscoveryNext]_allVars PROVE SourceInv'
    OBVIOUS
  <2> USE DEF SourceInv
  <2>1. CASE UNCHANGED source
    BY <2>1
  <2>2. ASSUME NEW layout \in Layouts, NEW table \in Tables, SubmitFile(layout, table)
        PROVE  SourceInv'
    <3>1. PICK record \in Parse(Format(layout), Written(layout, table)) :
            source' = [at |-> "parsed", layout |-> layout, table |-> table, record |-> record,
                       detected |-> Format(layout)]
      BY <2>2 DEF SubmitFile
    <3>2. HasName(record) => Provider(record) \in Facts
      BY ReadingAssumption
    <3> QED BY <3>1, <3>2
  <2>3. ASSUME NEW link \in Links, SubmitLink(link) PROVE SourceInv'
    BY <2>3 DEF SubmitLink
  <2>4. CASE FetchFails \/ RefuseRecord \/ Publish
    BY <2>4 DEF FetchFails, RefuseRecord, Publish
  <2>5. ASSUME NEW layout \in Layouts, NEW table \in Online, NEW type \in MediaTypes,
               Fetch(layout, table, type)
        PROVE  SourceInv'
    <3> DEFINE format == DetectFormat(source.link, type)
    <3>1. source.at = "link"
      BY <2>5 DEF Fetch
    <3>2. source.asked \in Links /\ source.link = NormalizeSourceURL(source.asked)
      BY <3>1 DEF NoSource
    <3>3. format \in Detected
      BY <3>2 DEF Detected
    <3>4. PICK record \in Parse(format, Written(layout, table)) :
            source' = [at |-> "parsed", layout |-> layout, table |-> table, record |-> record,
                       detected |-> format]
      BY <2>5 DEF Fetch
    <3> HIDE DEF format
    <3>5. HasName(record) => Provider(record) \in Facts
      BY <3>3, ReadingAssumption
    <3> QED BY <3>4, <3>5
  <2> QED BY <2>1, <2>2, <2>3, <2>4, <2>5 DEF DiscoveryNext, Submit, allVars
<1> QED BY <1>1, <1>2, PTL DEF DiscoverySpec

\* What publishes a document is, for the endpoint, one more UpdateProvider: the
\* whole is a behaviour of the pipeline alone, and its theorems hold for it.
THEOREM PipelineInside == DiscoverySpec => Spec
<1>1. DiscoveryInit => Init
  BY DEF DiscoveryInit
<1>2. SourceInv /\ [DiscoveryNext]_allVars => [Next]_vars
  <2> SUFFICES ASSUME SourceInv, [DiscoveryNext]_allVars PROVE [Next]_vars
    OBVIOUS
  <2>1. CASE UNCHANGED allVars
    BY <2>1 DEF allVars
  <2>2. CASE Submit
    BY <2>2 DEF Submit, SubmitFile, SubmitLink
  <2>3. CASE FetchFails \/ RefuseRecord
    BY <2>3 DEF FetchFails, RefuseRecord
  <2>4. CASE \E layout \in Layouts, table \in Online, type \in MediaTypes : Fetch(layout, table, type)
    BY <2>4 DEF Fetch
  <2>5. CASE Publish
    <3>1. source.at = "parsed" /\ HasName(source.record) /\ UpdateProvider(Provider(source.record))
      BY <2>5 DEF Publish
    <3>2. Provider(source.record) \in Facts
      BY <3>1 DEF SourceInv, NoSource
    <3> QED BY <3>1, <3>2 DEF Next
  <2>6. CASE Serve
    BY <2>6 DEF Next
  <2>7. CASE \E r \in Request : Arrive(r)
    BY <2>7 DEF Next
  <2>8. CASE \E p \in Served : UpdateProvider(p)
    BY <2>8, DiscoveryAssumption DEF Next
  <2> QED BY <2>1, <2>2, <2>3, <2>4, <2>5, <2>6, <2>7, <2>8 DEF DiscoveryNext
<1> QED BY <1>1, <1>2, SourceInvariant, PTL DEF DiscoverySpec, Spec

\* The same with documents coming in: what agents receive while providers submit,
\* fetches fail and facts are replaced.
THEOREM ServedSoundly ==
  DiscoverySpec =>
    [](TypeOK /\ HeadKept /\ HintIsAlone /\ LengthKept /\ PagesCarryLinks /\ StreamFlows
         /\ FactsAreCurrent)
BY PipelineInside, TypeCorrect, KeepsHead, HintStaysAlone, KeepsLength, PagesAreSound,
   StreamsFlow, FactsStayCurrent, PTL

\* ShareLinkKept: a sheet's share link is stored as its export link, which later
\* refreshes leave alone and read as CSV, whatever type the answer claims.
THEOREM ShareLinksAreKept == DiscoverySpec => []ShareLinkKept
<1>1. SourceInv => ShareLinkKept
  <2> SUFFICES ASSUME SourceInv, source.at = "link"
               PROVE  LET asked == source.asked
                          link == source.link
                          sheet == IF asked.gid # "" THEN asked.gid ELSE asked.fragment
                      IN  /\ NormalizeSourceURL(link) = link
                          /\ asked.host = "docs.google.com" /\ asked.path \in {"sheet", "sheet/edit"}
                               => /\ link.gid = sheet
                                  /\ \A type \in DOMAIN ByMediaType : DetectFormat(link, type) = "csv"
    BY DEF ShareLinkKept
  <2>1. source.asked \in URLs /\ source.link = NormalizeSourceURL(source.asked)
    BY DiscoveryAssumption DEF SourceInv, NoSource
  <2> DEFINE asked == source.asked
             link == source.link
  <2>2. asked \in URLs /\ link = NormalizeSourceURL(asked)
    BY <2>1
  <2> HIDE DEF asked, link
  <2>3. /\ NormalizeSourceURL(link) = link
        /\ asked.host = "docs.google.com" /\ asked.path \in {"sheet", "sheet/edit"} =>
             /\ link.gid = (IF asked.gid # "" THEN asked.gid ELSE asked.fragment)
             /\ \A type : DetectFormat(link, type) = "csv"
    BY <2>2, NormalizedOnce
  <2> QED BY <2>3 DEF asked, link
<1> QED BY <1>1, SourceInvariant, PTL
\* The document on its way in, as DiscoveryTypeOK has it, and where its link
\* comes from.
SourceTyped ==
  \/ source = NoSource
  \/ /\ source.at = "link"
     /\ source.asked \in Links /\ source.link = NormalizeSourceURL(source.asked) /\ ValidateURL(source.link)
  \/ /\ source.at = "parsed"
     /\ source.layout \in Layouts /\ source.table \in Tables /\ Readable(source.record)

\* DiscoveryTypeOK: a link is only fetched when ValidateURL accepts it, and every
\* parser, given any document of any layout, for its own format or taken for
\* another, returns an error or a record under keys that are text.
THEOREM SourceTypes == DiscoverySpec => []DiscoveryTypeOK
<1>1. DiscoveryInit => SourceTyped
  BY DEF DiscoveryInit, SourceTyped
<1>2. SourceTyped /\ [DiscoveryNext]_allVars => SourceTyped'
  <2> SUFFICES ASSUME SourceTyped, [DiscoveryNext]_allVars PROVE SourceTyped'
    OBVIOUS
  <2> USE DEF SourceTyped
  <2> HIDE DEF Readable, Layouts, ValidateURL, NormalizeSourceURL, Format, Parse, Written, DetectFormat
  <2>1. CASE UNCHANGED source
    BY <2>1
  <2>2. ASSUME NEW layout \in Layouts, NEW table \in Tables, SubmitFile(layout, table)
        PROVE  SourceTyped'
    <3>1. PICK record \in Parse(Format(layout), Written(layout, table)) :
            source' = [at |-> "parsed", layout |-> layout, table |-> table, record |-> record,
                       detected |-> Format(layout)]
      BY <2>2 DEF SubmitFile
    <3>2. Readable(record)
      BY ParseReadable
    <3> QED BY <3>1, <3>2
  <2>3. ASSUME NEW link \in Links, SubmitLink(link) PROVE SourceTyped'
    BY <2>3 DEF SubmitLink
  <2>4. CASE FetchFails \/ RefuseRecord \/ Publish
    BY <2>4 DEF FetchFails, RefuseRecord, Publish
  <2>5. ASSUME NEW layout \in Layouts, NEW table \in Online, NEW type \in MediaTypes,
               Fetch(layout, table, type)
        PROVE  SourceTyped'
    <3>1. PICK format : format = DetectFormat(source.link, type)
      OBVIOUS
    <3>2. PICK record \in Parse(format, Written(layout, table)) :
            source' = [at |-> "parsed", layout |-> layout, table |-> table, record |-> record,
                       detected |-> format]
      BY <2>5, <3>1 DEF Fetch
    <3>3. table \in Tables
      BY DiscoveryAssumption DEF DiscoveryAssumption
    <3>4. Readable(record)
      BY <3>3, ParseReadable
    <3> QED BY <3>2, <3>3, <3>4
  <2> QED BY <2>1, <2>2, <2>3, <2>4, <2>5 DEF DiscoveryNext, Submit, allVars
<1>3. SourceTyped /\ TypeOK => DiscoveryTypeOK
  BY DEF SourceTyped, DiscoveryTypeOK, Readable, Text, Word
<1> QED BY <1>1, <1>2, <1>3, ServedSoundly, PTL DEF DiscoverySpec
=============================================================================
