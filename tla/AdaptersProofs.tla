---------------------------- MODULE AdaptersProofs ----------------------------
(***************************************************************************)
(* What parse returns and what serialize does to it, for any payload: every*)
(* block of a payload has its text at its path (ParseSound), a write to one*)
(* path leaves the shape of a payload and the texts elsewhere alone, so that*)
(* the texts written last are the ones that count (SerializeTwice,         *)
(* SerializeSame), and a payload of the same shape is parsed to the same   *)
(* blocks with the texts found in it (ParseMirrors).                       *)
(*                                                                         *)
(* The findings of a parser are joined by FlattenSeq, whose laws come first;*)
(* then the laws of reading and writing at a path of one to four steps; then*)
(* the folds of serialize; then the four parsers, leaf by leaf; then the   *)
(* four parsers again, on a payload and on one of its shape side by side.  *)
(***************************************************************************)
EXTENDS Adapters, SequenceTheorems, WellFoundedInduction, TLAPS

-----------------------------------------------------------------------------
(* Induction.  The library's theorem takes a predicate, which no prover can  *)
(* instantiate; a set of numbers does as well.                               *)

LEMMA LeastNumber ==
    ASSUME NEW S \in SUBSET Nat, S # {}
    PROVE  \E m \in S : \A k \in S : m =< k
<1> DEFINE R == {ss \in Nat \X Nat : ss[1] < ss[2]}
<1>1. IsWellFoundedOn(R, Nat)
  BY NatLessThanWellFounded DEF OpToRel
<1>2. PICK x \in S : \A y \in S : <<y, x>> \notin R
  <2> HIDE DEF R
  <2>1. QED
    BY <1>1, WFMin
<1>3. ASSUME NEW y \in S PROVE ~(y < x)
  <2>1. /\ x \in Nat /\ y \in Nat /\ <<y, x>> \in Nat \X Nat
        /\ <<y, x>>[1] = y /\ <<y, x>>[2] = x
    OBVIOUS
  <2>2. <<y, x>> \notin R
    BY <1>2
  <2>3. QED
    BY <2>1, <2>2
<1>4. QED
  BY <1>3

LEMMA Induction ==
    ASSUME NEW S, 0 \in S, \A n \in Nat : n \in S => n + 1 \in S
    PROVE  Nat \subseteq S
<1> SUFFICES ASSUME Nat \ S # {} PROVE FALSE
  OBVIOUS
<1>1. PICK m \in Nat \ S : \A k \in Nat \ S : m =< k
  BY LeastNumber
<1>2. m # 0 /\ m - 1 \in Nat /\ m - 1 \notin Nat \ S
  BY <1>1
<1>3. QED
  BY <1>2

\* What holds at the first of n places, and at the next of any place it holds
\* at, holds at all of them.
LEMMA InductionUpTo ==
    ASSUME NEW n \in Nat, NEW S, n > 0 => 1 \in S,
           \A i \in 1 .. n : i \in S /\ i < n => i + 1 \in S
    PROVE  1 .. n \subseteq S
<1> DEFINE T == {k \in Nat : k + 1 \in 1 .. n => k + 1 \in S}
<1>1. 0 \in T
  OBVIOUS
<1>2. ASSUME NEW k \in Nat, k \in T PROVE k + 1 \in T
  BY <1>2
<1>3. Nat \subseteq T
  <2> HIDE DEF T
  <2>1. QED
    BY <1>1, <1>2, Induction
<1>4. ASSUME NEW i \in 1 .. n PROVE i \in S
  <2>1. i - 1 \in Nat /\ (i - 1) + 1 = i
    OBVIOUS
  <2>2. i - 1 \in T
    BY <1>3, <2>1
  <2>3. QED
    BY <2>1, <2>2
<1>5. QED
  BY <1>4
-----------------------------------------------------------------------------
(* FlattenSeq *)

\* The first i sequences, one after the other.
LEMMA FlattenIsFold ==
    ASSUME NEW seqs, Len(seqs) \in Nat \ {0}
    PROVE  \E f : /\ f = [i \in 1 .. Len(seqs) |-> IF i = 1 THEN seqs[i] ELSE f[i - 1] \o seqs[i]]
                  /\ FlattenSeq(seqs) = f[Len(seqs)]
<1> DEFINE Fold(n, f) == f = [i \in 1 .. n |-> IF i = 1 THEN seqs[i] ELSE f[i - 1] \o seqs[i]]
           S == {n \in Nat : \E f : Fold(n, f)}
<1>1. 0 \in S
  <2>1. Fold(0, [i \in 1 .. 0 |-> {}])
    OBVIOUS
  <2>2. QED
    BY <2>1
<1>2. ASSUME NEW n \in Nat, n \in S PROVE n + 1 \in S
  <2>1. PICK f : Fold(n, f)
    BY <1>2
  <2> DEFINE g == [i \in 1 .. n + 1 |->
                      IF i =< n THEN f[i] ELSE IF i = 1 THEN seqs[i] ELSE f[i - 1] \o seqs[i]]
  <2>2. ASSUME NEW i \in 1 .. n + 1
        PROVE  g[i] = IF i = 1 THEN seqs[i] ELSE g[i - 1] \o seqs[i]
    <3>1. CASE i = n + 1
      <4>1. i # 1 => i - 1 \in 1 .. n /\ g[i - 1] = f[i - 1]
        BY <3>1
      <4>2. QED
        BY <3>1, <4>1
    <3>2. CASE i # n + 1
      <4>1. i \in 1 .. n /\ g[i] = f[i] /\ (i # 1 => i - 1 \in 1 .. n /\ g[i - 1] = f[i - 1])
        BY <3>2
      <4>2. f[i] = IF i = 1 THEN seqs[i] ELSE f[i - 1] \o seqs[i]
        BY <2>1, <4>1
      <4>3. QED
        BY <4>1, <4>2
    <3>3. QED
      BY <3>1, <3>2
  <2>3. Fold(n + 1, g)
    <3>1. DOMAIN g = 1 .. n + 1 /\ g = [i \in 1 .. n + 1 |-> g[i]]
      OBVIOUS
    <3> HIDE DEF g
    <3>2. QED
      BY <2>2, <3>1
  <2> HIDE DEF g, Fold
  <2>4. QED
    BY <2>3
<1>3. \E f : Fold(Len(seqs), f)
  <2> HIDE DEF Fold
  <2>1. Nat \subseteq S
    <3> HIDE DEF S
    <3>1. QED
      BY <1>1, <1>2, Induction
  <2>2. QED
    BY <2>1
<1> DEFINE c == CHOOSE f : Fold(Len(seqs), f)
<1>4. Fold(Len(seqs), c)
  <2> HIDE DEF Fold
  <2>1. QED
    BY <1>3
<1>5. FlattenSeq(seqs) = c[Len(seqs)]
  BY DEF FlattenSeq
<1>6. QED
  <2> HIDE DEF c
  <2>1. QED
    BY <1>4, <1>5

\* A sequence of sequences over S becomes a sequence over S.
LEMMA FlattenType ==
    ASSUME NEW S, NEW seqs \in Seq(Seq(S))
    PROVE  FlattenSeq(seqs) \in Seq(S)
<1>1. CASE seqs = <<>>
  BY <1>1 DEF FlattenSeq
<1>2. CASE seqs # <<>>
  <2>1. Len(seqs) \in Nat \ {0}
    BY <1>2
  <2>2. PICK f : /\ f = [i \in 1 .. Len(seqs) |-> IF i = 1 THEN seqs[i] ELSE f[i - 1] \o seqs[i]]
                 /\ FlattenSeq(seqs) = f[Len(seqs)]
    BY <2>1, FlattenIsFold
  <2> DEFINE T == {i \in 1 .. Len(seqs) : f[i] \in Seq(S)}
  <2>3. 1 \in T
    BY <2>1, <2>2
  <2>4. ASSUME NEW i \in 1 .. Len(seqs), i \in T, i < Len(seqs) PROVE i + 1 \in T
    <3>1. i + 1 \in 1 .. Len(seqs) /\ i + 1 # 1 /\ (i + 1) - 1 = i
      BY <2>1, <2>4
    <3>2. f[i + 1] = f[i] \o seqs[i + 1]
      BY <2>2, <3>1
    <3>3. f[i] \in Seq(S) /\ seqs[i + 1] \in Seq(S)
      BY <2>4, <3>1
    <3>4. f[i] \o seqs[i + 1] \in Seq(S)
      BY <3>3, ConcatProperties
    <3>5. QED
      BY <3>1, <3>2, <3>4
  <2>5. 1 .. Len(seqs) \subseteq T
    <3> HIDE DEF T
    <3>1. QED
      BY <2>1, <2>3, <2>4, InductionUpTo
  <2>6. Len(seqs) \in T
    BY <2>1, <2>5
  <2>7. QED
    BY <2>2, <2>6
<1>3. QED
  BY <1>1, <1>2

\* Every element of s is one of t.
Within(s, t) == \A l \in DOMAIN s : \E m \in DOMAIN t : t[m] = s[l]

LEMMA ConcatKeeps ==
    ASSUME NEW S, NEW s \in Seq(S), NEW t \in Seq(S)
    PROVE  /\ s \o t \in Seq(S)
           /\ Within(s, s \o t) /\ Within(t, s \o t)
<1>1. /\ s \o t \in Seq(S)
      /\ Len(s) \in Nat /\ Len(t) \in Nat
      /\ DOMAIN s = 1 .. Len(s) /\ DOMAIN t = 1 .. Len(t)
      /\ DOMAIN (s \o t) = 1 .. Len(s) + Len(t)
      /\ \A i \in 1 .. Len(s) + Len(t) :
            (s \o t)[i] = IF i <= Len(s) THEN s[i] ELSE t[i - Len(s)]
  BY ConcatProperties, LenProperties
<1>2. ASSUME NEW l \in DOMAIN s PROVE l \in DOMAIN (s \o t) /\ (s \o t)[l] = s[l]
  BY <1>1
<1>3. ASSUME NEW l \in DOMAIN t
      PROVE  Len(s) + l \in DOMAIN (s \o t) /\ (s \o t)[Len(s) + l] = t[l]
  BY <1>1
<1>4. QED
  BY <1>1, <1>2, <1>3 DEF Within

\* Nothing of the sequences is lost.
LEMMA FlattenKeeps ==
    ASSUME NEW S, NEW seqs \in Seq(Seq(S)), NEW k \in DOMAIN seqs, NEW j \in DOMAIN seqs[k]
    PROVE  \E i \in DOMAIN FlattenSeq(seqs) : FlattenSeq(seqs)[i] = seqs[k][j]
<1>1. Len(seqs) \in Nat \ {0} /\ DOMAIN seqs = 1 .. Len(seqs)
  OBVIOUS
<1>2. PICK f : /\ f = [i \in 1 .. Len(seqs) |-> IF i = 1 THEN seqs[i] ELSE f[i - 1] \o seqs[i]]
               /\ FlattenSeq(seqs) = f[Len(seqs)]
  BY <1>1, FlattenIsFold
<1> DEFINE Holds(i) == f[i] \in Seq(S) /\ (k =< i => \E l \in DOMAIN f[i] : f[i][l] = seqs[k][j])
           T == {i \in 1 .. Len(seqs) : Holds(i)}
<1>3. 1 \in T
  <2>1. f[1] = seqs[1] /\ seqs[1] \in Seq(S)
    BY <1>1, <1>2
  <2>2. k =< 1 => k = 1
    BY <1>1
  <2>3. QED
    BY <1>1, <2>1, <2>2
<1>4. ASSUME NEW i \in 1 .. Len(seqs), i \in T, i < Len(seqs) PROVE i + 1 \in T
  <2>1. i + 1 \in 1 .. Len(seqs) /\ i + 1 # 1 /\ (i + 1) - 1 = i
    BY <1>1, <1>4
  <2>2. f[i + 1] = f[i] \o seqs[i + 1]
    BY <1>2, <2>1
  <2>3. f[i] \in Seq(S) /\ seqs[i + 1] \in Seq(S)
    BY <1>1, <1>4, <2>1
  <2>4. /\ f[i + 1] \in Seq(S)
        /\ Within(f[i], f[i + 1]) /\ Within(seqs[i + 1], f[i + 1])
    BY <2>2, <2>3, ConcatKeeps
  <2>5. CASE k =< i
    <3>1. PICK l \in DOMAIN f[i] : f[i][l] = seqs[k][j]
      BY <1>4, <2>5
    <3>2. QED
      BY <2>1, <2>4, <3>1 DEF Within
  <2>6. CASE k = i + 1
    BY <2>1, <2>4, <2>6 DEF Within
  <2>7. CASE ~(k =< i) /\ k # i + 1
    <3>1. ~(k =< i + 1)
      BY <1>1, <2>7
    <3>2. QED
      BY <2>1, <2>4, <3>1
  <2>8. QED
    BY <2>5, <2>6, <2>7
<1>5. 1 .. Len(seqs) \subseteq T
  <2> HIDE DEF T
  <2>1. QED
    BY <1>1, <1>3, <1>4, InductionUpTo
<1>6. Len(seqs) \in 1 .. Len(seqs) /\ k =< Len(seqs)
  BY <1>1
<1>7. Holds(Len(seqs))
  BY <1>5, <1>6
<1>8. QED
  BY <1>2, <1>6, <1>7

-----------------------------------------------------------------------------
(* What parsers return *)

\* Join of findings with blocks in S.
Findings(S) == [blocks : Seq(S), safe : BOOLEAN, raises : BOOLEAN]

LEMMA JoinType ==
    ASSUME NEW S, NEW n \in Nat, NEW parsed, DOMAIN parsed = 1 .. n,
           \A i \in 1 .. n : parsed[i] \in Findings(S)
    PROVE  Join(parsed) \in Findings(S)
<1> DEFINE seqs == [i \in DOMAIN parsed |-> parsed[i].blocks]
<1>1. ASSUME NEW i \in 1 .. n PROVE parsed[i].blocks \in Seq(S)
  BY DEF Findings
<1>2. seqs \in [1 .. n -> Seq(S)]
  BY <1>1
<1>3. seqs \in Seq(Seq(S))
  <2> HIDE DEF seqs
  <2>1. QED
    BY <1>2
<1>4. FlattenSeq(seqs) \in Seq(S)
  BY <1>3, FlattenType
<1>5. QED
  BY <1>4 DEF Join, Findings

LEMMA JoinKeeps ==
    ASSUME NEW S, NEW n \in Nat, NEW parsed, DOMAIN parsed = 1 .. n,
           \A i \in 1 .. n : parsed[i] \in Findings(S)
    PROVE  \A i \in 1 .. n : \A j \in DOMAIN parsed[i].blocks :
              \E k \in DOMAIN Join(parsed).blocks : Join(parsed).blocks[k] = parsed[i].blocks[j]
<1> DEFINE seqs == [i \in DOMAIN parsed |-> parsed[i].blocks]
<1>1. ASSUME NEW i \in 1 .. n PROVE parsed[i].blocks \in Seq(S)
  BY DEF Findings
<1>2. seqs \in [1 .. n -> Seq(S)]
  BY <1>1
<1>3. seqs \in Seq(Seq(S)) /\ DOMAIN seqs = 1 .. n
  <2> HIDE DEF seqs
  <2>1. QED
    BY <1>2
<1>4. Join(parsed).blocks = FlattenSeq(seqs)
  BY DEF Join
<1>5. ASSUME NEW i \in 1 .. n, NEW j \in DOMAIN parsed[i].blocks
      PROVE  \E k \in DOMAIN FlattenSeq(seqs) : FlattenSeq(seqs)[k] = parsed[i].blocks[j]
  <2>1. seqs[i] = parsed[i].blocks /\ i \in DOMAIN seqs /\ j \in DOMAIN seqs[i]
    OBVIOUS
  <2> HIDE DEF seqs
  <2>2. \E k \in DOMAIN FlattenSeq(seqs) : FlattenSeq(seqs)[k] = seqs[i][j]
    BY <1>3, <2>1, FlattenKeeps
  <2>3. QED
    BY <2>1, <2>2
<1>6. QED
  BY <1>4, <1>5

-----------------------------------------------------------------------------
(* Where a path leads.  A string holds a text; a list opens at the places of *)
(* objects, whose content is the next value.                                 *)

Holds(v) == v = [is |-> "str", text |-> v.text]

IsObject(e) ==
    e = [is |-> "map", type |-> e.type, role |-> e.role, content |-> e.content,
         marks |-> e.marks, encoded |-> e.encoded]

Opens(v, k) ==
    /\ v = [is |-> "list", items |-> v.items]
    /\ v.items = [i \in DOMAIN v.items |-> v.items[i]]
    /\ k \in DOMAIN v.items
    /\ IsObject(v.items[k])

Put(v, text) == [v EXCEPT !.text = text]
Sub(v, k) == v.items[k].content
WithSub(v, k, sub) == [v EXCEPT !.items[k].content = sub]
WithContent(e, sub) == [e EXCEPT !.content = sub]

LEMMA PutLaws ==
    ASSUME NEW v, NEW s, NEW t, Holds(v)
    PROVE  /\ Put(v, s) = [is |-> "str", text |-> s]
           /\ Holds(Put(v, s)) /\ Put(v, s).text = s
           /\ Put(Put(v, s), t) = Put(v, t)
           /\ Put(v, v.text) = v
<1>1. \A x : Put(v, x) = [is |-> "str", text |-> x]
  BY DEF Put, Holds
<1>2. \A x : Put([is |-> "str", text |-> x], t) = [is |-> "str", text |-> t]
  BY DEF Put
<1>3. v = [is |-> "str", text |-> v.text]
  BY DEF Holds
<1>4. Holds(Put(v, s)) /\ Put(v, s).text = s
  BY <1>1 DEF Holds
<1>5. QED
  BY <1>1, <1>2, <1>3, <1>4

LEMMA ContentLaws ==
    ASSUME NEW e, NEW w, NEW x, IsObject(e)
    PROVE  /\ WithContent(e, w) = [is |-> "map", type |-> e.type, role |-> e.role, content |-> w,
                                   marks |-> e.marks, encoded |-> e.encoded]
           /\ IsObject(WithContent(e, w)) /\ WithContent(e, w).content = w
           /\ WithContent(WithContent(e, w), x) = WithContent(e, x)
           /\ WithContent(e, e.content) = e
<1> DEFINE F(y) == [is |-> "map", type |-> e.type, role |-> e.role, content |-> y,
                    marks |-> e.marks, encoded |-> e.encoded]
<1>1. \A y : WithContent(e, y) = F(y)
  BY DEF WithContent, IsObject
<1>2. IsObject(F(w)) /\ F(w).content = w
  BY DEF IsObject
<1>3. WithContent(F(w), x) = F(x)
  BY DEF WithContent
<1>4. F(e.content) = e
  BY DEF IsObject
<1>5. QED
  BY <1>1, <1>2, <1>3, <1>4

LEMMA SubForm ==
    ASSUME NEW v, NEW k, NEW w, Opens(v, k)
    PROVE  WithSub(v, k, w) =
              [is |-> "list",
               items |-> [i \in DOMAIN v.items |->
                             IF i = k THEN WithContent(v.items[k], w) ELSE v.items[i]]]
<1>1. v = [is |-> "list", items |-> v.items] /\ v.items = [i \in DOMAIN v.items |-> v.items[i]]
  BY DEF Opens
<1>2. WithSub(v, k, w) = [v EXCEPT !.items = [v.items EXCEPT ![k] = WithContent(v.items[k], w)]]
  BY DEF WithSub, WithContent
<1>3. [v.items EXCEPT ![k] = WithContent(v.items[k], w)]
        = [i \in DOMAIN v.items |-> IF i = k THEN WithContent(v.items[k], w) ELSE v.items[i]]
  OBVIOUS
<1>4. \A y : [v EXCEPT !.items = y] = [is |-> "list", items |-> y]
  BY <1>1
<1>5. QED
  BY <1>2, <1>3, <1>4

\* A value put in is found there, the last one put in counts, values put in at
\* two places do not meet, and putting back what is there changes nothing.
LEMMA SubLaws ==
    ASSUME NEW v, NEW j, NEW k, NEW w, NEW x, Opens(v, j), Opens(v, k)
    PROVE  /\ Opens(WithSub(v, j, w), k)
           /\ Sub(WithSub(v, j, w), k) = IF j = k THEN w ELSE Sub(v, k)
           /\ WithSub(WithSub(v, j, w), j, x) = WithSub(v, j, x)
           /\ j # k => WithSub(WithSub(v, j, w), k, x) = WithSub(WithSub(v, k, x), j, w)
           /\ WithSub(v, j, Sub(v, j)) = v
<1> DEFINE at(i, y) == [is |-> "list",
                        items |-> [l \in DOMAIN v.items |->
                                      IF l = i THEN WithContent(v.items[i], y) ELSE v.items[l]]]
<1>1. \A y : WithSub(v, j, y) = at(j, y) /\ WithSub(v, k, y) = at(k, y)
  BY SubForm
<1>2. /\ j \in DOMAIN v.items /\ k \in DOMAIN v.items
      /\ IsObject(v.items[j]) /\ IsObject(v.items[k])
      /\ v = [is |-> "list", items |-> v.items]
      /\ v.items = [i \in DOMAIN v.items |-> v.items[i]]
  BY DEF Opens
<1>3. /\ IsObject(WithContent(v.items[j], w)) /\ WithContent(v.items[j], w).content = w
      /\ WithContent(WithContent(v.items[j], w), x) = WithContent(v.items[j], x)
      /\ WithContent(v.items[j], v.items[j].content) = v.items[j]
  BY <1>2, ContentLaws
<1>4. /\ at(j, w).items = [l \in DOMAIN v.items |->
                              IF l = j THEN WithContent(v.items[j], w) ELSE v.items[l]]
      /\ DOMAIN at(j, w).items = DOMAIN v.items
      /\ at(j, w).items[k] = IF j = k THEN WithContent(v.items[j], w) ELSE v.items[k]
      /\ at(j, w).items[j] = WithContent(v.items[j], w)
  BY <1>2
<1>5. Opens(at(j, w), k) /\ Opens(at(j, w), j)
  BY <1>2, <1>3, <1>4 DEF Opens
<1>6. Sub(at(j, w), k) = IF j = k THEN w ELSE Sub(v, k)
  BY <1>3, <1>4 DEF Sub
<1>7. WithSub(at(j, w), j, x) = at(j, x)
  <2>1. WithSub(at(j, w), j, x) =
          [is |-> "list",
           items |-> [l \in DOMAIN at(j, w).items |->
                         IF l = j THEN WithContent(at(j, w).items[j], x) ELSE at(j, w).items[l]]]
    BY <1>5, SubForm
  <2>2. [l \in DOMAIN at(j, w).items |->
            IF l = j THEN WithContent(at(j, w).items[j], x) ELSE at(j, w).items[l]]
        = [l \in DOMAIN v.items |-> IF l = j THEN WithContent(v.items[j], x) ELSE v.items[l]]
    BY <1>3, <1>4
  <2>3. QED
    BY <2>1, <2>2
<1>8. ASSUME j # k PROVE WithSub(at(j, w), k, x) = WithSub(at(k, x), j, w)
  <2>1. WithSub(at(j, w), k, x) =
          [is |-> "list",
           items |-> [l \in DOMAIN at(j, w).items |->
                         IF l = k THEN WithContent(at(j, w).items[k], x) ELSE at(j, w).items[l]]]
    BY <1>5, SubForm
  <2>2. /\ DOMAIN at(k, x).items = DOMAIN v.items
        /\ at(k, x).items[j] = v.items[j]
        /\ at(k, x).items[k] = WithContent(v.items[k], x)
        /\ at(k, x).items = [l \in DOMAIN v.items |->
                                IF l = k THEN WithContent(v.items[k], x) ELSE v.items[l]]
    BY <1>2, <1>8
  <2>3. Opens(at(k, x), j)
    BY <1>2, <2>2 DEF Opens
  <2>4. WithSub(at(k, x), j, w) =
          [is |-> "list",
           items |-> [l \in DOMAIN at(k, x).items |->
                         IF l = j THEN WithContent(at(k, x).items[j], w) ELSE at(k, x).items[l]]]
    BY <2>3, SubForm
  <2>5. [l \in DOMAIN at(j, w).items |->
            IF l = k THEN WithContent(at(j, w).items[k], x) ELSE at(j, w).items[l]]
        = [l \in DOMAIN at(k, x).items |->
            IF l = j THEN WithContent(at(k, x).items[j], w) ELSE at(k, x).items[l]]
    BY <1>4, <1>8, <2>2
  <2>6. QED
    BY <2>1, <2>4, <2>5
<1>9. at(j, Sub(v, j)) = v
  <2>1. [l \in DOMAIN v.items |-> IF l = j THEN WithContent(v.items[j], Sub(v, j)) ELSE v.items[l]]
          = v.items
    BY <1>2, <1>3 DEF Sub
  <2>2. QED
    BY <1>2, <2>1
<1> HIDE DEF at
<1>10. QED
  BY <1>1, <1>5, <1>6, <1>7, <1>8, <1>9

-----------------------------------------------------------------------------
(* The text at a path below a value reached by its first one, two, three or  *)
(* four places.                                                              *)

Leads4(v, path) == Len(path) = 4 /\ Holds(v)
Read4(v, path)  == v.text
Write4(v, path, text) == Put(v, text)

Leads3(v, path) ==
    IF Len(path) = 3 THEN Holds(v) ELSE Opens(v, path[4]) /\ Leads4(Sub(v, path[4]), path)
Read3(v, path) == IF Len(path) = 3 THEN v.text ELSE Read4(Sub(v, path[4]), path)
Write3(v, path, text) ==
    IF Len(path) = 3 THEN Put(v, text)
    ELSE WithSub(v, path[4], Write4(Sub(v, path[4]), path, text))

Leads2(v, path) ==
    IF Len(path) = 2 THEN Holds(v) ELSE Opens(v, path[3]) /\ Leads3(Sub(v, path[3]), path)
Read2(v, path) == IF Len(path) = 2 THEN v.text ELSE Read3(Sub(v, path[3]), path)
Write2(v, path, text) ==
    IF Len(path) = 2 THEN Put(v, text)
    ELSE WithSub(v, path[3], Write3(Sub(v, path[3]), path, text))

Leads1(v, path) ==
    IF Len(path) = 1 THEN Holds(v) ELSE Opens(v, path[2]) /\ Leads2(Sub(v, path[2]), path)
Read1(v, path) == IF Len(path) = 1 THEN v.text ELSE Read2(Sub(v, path[2]), path)
Write1(v, path, text) ==
    IF Len(path) = 1 THEN Put(v, text)
    ELSE WithSub(v, path[2], Write2(Sub(v, path[2]), path, text))

\* Paths that are the same from place n + 1 on.
SameAfter(n, a, b) == Len(a) = Len(b) /\ \A i \in n + 1 .. Len(a) : a[i] = b[i]

LEMMA Text4 ==
    ASSUME NEW v, NEW a, NEW b, NEW s, NEW t, Leads4(v, a), Leads4(v, b)
    PROVE  /\ Leads4(Write4(v, a, s), b)
           /\ Read4(Write4(v, a, s), a) = s
           /\ Write4(Write4(v, a, s), a, t) = Write4(v, a, t)
           /\ ~SameAfter(4, a, b)
                 => /\ Read4(Write4(v, a, s), b) = Read4(v, b)
                    /\ Write4(Write4(v, a, s), b, t) = Write4(Write4(v, b, t), a, s)
           /\ Write4(v, a, Read4(v, a)) = v
<1>1. SameAfter(4, a, b)
  BY DEF SameAfter, Leads4
<1>2. QED
  BY <1>1, PutLaws DEF Leads4, Read4, Write4

LEMMA Text3 ==
    ASSUME NEW v, NEW a, NEW b, NEW s, NEW t, Leads3(v, a), Leads3(v, b),
           Len(a) \in {3, 4}, Len(b) \in {3, 4}
    PROVE  /\ Leads3(Write3(v, a, s), b)
           /\ Read3(Write3(v, a, s), a) = s
           /\ Write3(Write3(v, a, s), a, t) = Write3(v, a, t)
           /\ ~SameAfter(3, a, b)
                 => /\ Read3(Write3(v, a, s), b) = Read3(v, b)
                    /\ Write3(Write3(v, a, s), b, t) = Write3(Write3(v, b, t), a, s)
           /\ Write3(v, a, Read3(v, a)) = v
<1>1. Len(a) = 3 <=> Len(b) = 3
  BY DEF Leads3, Holds, Opens
<1>2. CASE Len(a) = 3
  <2>1. SameAfter(3, a, b) /\ Holds(v)
    BY <1>1, <1>2 DEF SameAfter, Leads3
  <2>2. QED
    BY <1>1, <1>2, <2>1, PutLaws DEF Leads3, Read3, Write3
<1>3. CASE Len(a) # 3
  <2> DEFINE j == a[4]
             k == b[4]
             w == Write4(Sub(v, j), a, s)
             x == Write4(Sub(v, k), b, t)
             y == Write4(Sub(v, j), a, t)
  <2>1. /\ Opens(v, j) /\ Leads4(Sub(v, j), a)
        /\ Opens(v, k) /\ Leads4(Sub(v, k), b)
    BY <1>1, <1>3 DEF Leads3
  <2>a. Len(a) \in {4} /\ Len(b) \in {4}
    BY <1>1, <1>3
  <2>2. /\ Write3(v, a, s) = WithSub(v, j, w) /\ Write3(v, b, t) = WithSub(v, k, x)
        /\ Write3(v, a, t) = WithSub(v, j, y)
        /\ Read3(v, a) = Read4(Sub(v, j), a) /\ Read3(v, b) = Read4(Sub(v, k), b)
    BY <1>1, <1>3 DEF Write3, Read3
  <2>3. /\ Leads4(w, a) /\ Read4(w, a) = s
        /\ Write4(w, a, t) = y
        /\ Write4(Sub(v, j), a, Read4(Sub(v, j), a)) = Sub(v, j)
    BY <2>1, <2>a, Text4
  <2>4. /\ Opens(WithSub(v, j, w), j) /\ Sub(WithSub(v, j, w), j) = w
        /\ WithSub(WithSub(v, j, w), j, y) = WithSub(v, j, y)
        /\ WithSub(v, j, Sub(v, j)) = v
    BY <2>1, SubLaws
  <2>5. /\ Read3(Write3(v, a, s), a) = s
        /\ Write3(Write3(v, a, s), a, t) = Write3(v, a, t)
        /\ Write3(v, a, Read3(v, a)) = v
    <3> HIDE DEF w, y
    <3>1. Read3(WithSub(v, j, w), a) = s
      BY <1>3, <2>3, <2>4 DEF Read3
    <3>2. Write3(WithSub(v, j, w), a, t) = WithSub(v, j, y)
      BY <1>3, <2>3, <2>4 DEF Write3
    <3>3. Write3(v, a, Read3(v, a)) = v
      BY <1>3, <2>2, <2>3, <2>4 DEF Write3
    <3>4. QED
      BY <2>2, <3>1, <3>2, <3>3
  <2>6. CASE j = k
    <3>1. ~SameAfter(3, a, b) => ~SameAfter(4, a, b)
      BY <2>a, <2>6 DEF SameAfter
    <3>2. /\ Leads4(w, b)
          /\ ~SameAfter(4, a, b) => /\ Read4(w, b) = Read4(Sub(v, k), b)
                                    /\ Write4(w, b, t) = Write4(x, a, s)
      BY <2>1, <2>a, <2>6, Text4
    <3>3. /\ Opens(WithSub(v, j, w), k) /\ Sub(WithSub(v, j, w), k) = w
          /\ Opens(WithSub(v, k, x), j) /\ Sub(WithSub(v, k, x), j) = x
          /\ \A z : /\ WithSub(WithSub(v, j, w), k, z) = WithSub(v, j, z)
                   /\ WithSub(WithSub(v, k, x), j, z) = WithSub(v, j, z)
      BY <2>1, <2>6, SubLaws
    <3> HIDE DEF w, x
    <3>4. Leads3(WithSub(v, j, w), b)
      BY <1>1, <1>3, <3>2, <3>3 DEF Leads3
    <3>5. ASSUME ~SameAfter(3, a, b)
          PROVE  /\ Read3(WithSub(v, j, w), b) = Read3(v, b)
                 /\ Write3(WithSub(v, j, w), b, t) = Write3(WithSub(v, k, x), a, s)
      BY <1>1, <1>3, <2>2, <3>1, <3>2, <3>3, <3>5 DEF Read3, Write3
    <3>6. QED
      BY <2>2, <2>5, <3>4, <3>5
  <2>7. CASE j # k
    <3>0. ASSUME NEW f, NEW g, NEW y1, NEW y2, Opens(v, f), Opens(v, g), f # g
          PROVE  /\ Opens(WithSub(v, f, y1), g) /\ Sub(WithSub(v, f, y1), g) = Sub(v, g)
                 /\ WithSub(WithSub(v, f, y1), g, y2) = WithSub(WithSub(v, g, y2), f, y1)
      BY <3>0, SubLaws
    <3>1. /\ Opens(WithSub(v, j, w), k) /\ Sub(WithSub(v, j, w), k) = Sub(v, k)
          /\ Opens(WithSub(v, k, x), j) /\ Sub(WithSub(v, k, x), j) = Sub(v, j)
          /\ WithSub(WithSub(v, j, w), k, x) = WithSub(WithSub(v, k, x), j, w)
      <4> HIDE DEF w, x
      <4>1. QED
        BY <2>1, <2>7, <3>0
    <3>2. Leads3(WithSub(v, j, w), b)
      <4> HIDE DEF w
      <4>1. QED
        BY <1>1, <1>3, <2>1, <3>1 DEF Leads3
    <3>3. Read3(WithSub(v, j, w), b) = Read3(v, b)
      <4> HIDE DEF w
      <4>1. QED
        BY <1>1, <1>3, <3>1 DEF Read3
    <3>4. /\ Write3(WithSub(v, j, w), b, t) = WithSub(WithSub(v, j, w), k, x)
          /\ Write3(WithSub(v, k, x), a, s) = WithSub(WithSub(v, k, x), j, w)
      BY <1>1, <1>3, <3>1 DEF Write3
    <3> HIDE DEF w, x
    <3>5. QED
      BY <2>2, <2>5, <3>1, <3>2, <3>3, <3>4
  <2>8. QED
    BY <2>6, <2>7
<1>4. QED
  BY <1>2, <1>3

LEMMA Text2 ==
    ASSUME NEW v, NEW a, NEW b, NEW s, NEW t, Leads2(v, a), Leads2(v, b),
           Len(a) \in {2, 3, 4}, Len(b) \in {2, 3, 4}
    PROVE  /\ Leads2(Write2(v, a, s), b)
           /\ Read2(Write2(v, a, s), a) = s
           /\ Write2(Write2(v, a, s), a, t) = Write2(v, a, t)
           /\ ~SameAfter(2, a, b)
                 => /\ Read2(Write2(v, a, s), b) = Read2(v, b)
                    /\ Write2(Write2(v, a, s), b, t) = Write2(Write2(v, b, t), a, s)
           /\ Write2(v, a, Read2(v, a)) = v
<1>1. Len(a) = 2 <=> Len(b) = 2
  BY DEF Leads2, Holds, Opens
<1>2. CASE Len(a) = 2
  <2>1. SameAfter(2, a, b) /\ Holds(v)
    BY <1>1, <1>2 DEF SameAfter, Leads2
  <2>2. QED
    BY <1>1, <1>2, <2>1, PutLaws DEF Leads2, Read2, Write2
<1>3. CASE Len(a) # 2
  <2> DEFINE j == a[3]
             k == b[3]
             w == Write3(Sub(v, j), a, s)
             x == Write3(Sub(v, k), b, t)
             y == Write3(Sub(v, j), a, t)
  <2>1. /\ Opens(v, j) /\ Leads3(Sub(v, j), a)
        /\ Opens(v, k) /\ Leads3(Sub(v, k), b)
    BY <1>1, <1>3 DEF Leads2
  <2>a. Len(a) \in {3, 4} /\ Len(b) \in {3, 4}
    BY <1>1, <1>3
  <2>2. /\ Write2(v, a, s) = WithSub(v, j, w) /\ Write2(v, b, t) = WithSub(v, k, x)
        /\ Write2(v, a, t) = WithSub(v, j, y)
        /\ Read2(v, a) = Read3(Sub(v, j), a) /\ Read2(v, b) = Read3(Sub(v, k), b)
    BY <1>1, <1>3 DEF Write2, Read2
  <2>3. /\ Leads3(w, a) /\ Read3(w, a) = s
        /\ Write3(w, a, t) = y
        /\ Write3(Sub(v, j), a, Read3(Sub(v, j), a)) = Sub(v, j)
    BY <2>1, <2>a, Text3
  <2>4. /\ Opens(WithSub(v, j, w), j) /\ Sub(WithSub(v, j, w), j) = w
        /\ WithSub(WithSub(v, j, w), j, y) = WithSub(v, j, y)
        /\ WithSub(v, j, Sub(v, j)) = v
    BY <2>1, SubLaws
  <2>5. /\ Read2(Write2(v, a, s), a) = s
        /\ Write2(Write2(v, a, s), a, t) = Write2(v, a, t)
        /\ Write2(v, a, Read2(v, a)) = v
    <3> HIDE DEF w, y
    <3>1. Read2(WithSub(v, j, w), a) = s
      BY <1>3, <2>3, <2>4 DEF Read2
    <3>2. Write2(WithSub(v, j, w), a, t) = WithSub(v, j, y)
      BY <1>3, <2>3, <2>4 DEF Write2
    <3>3. Write2(v, a, Read2(v, a)) = v
      BY <1>3, <2>2, <2>3, <2>4 DEF Write2
    <3>4. QED
      BY <2>2, <3>1, <3>2, <3>3
  <2>6. CASE j = k
    <3>1. ~SameAfter(2, a, b) => ~SameAfter(3, a, b)
      BY <2>a, <2>6 DEF SameAfter
    <3>2. /\ Leads3(w, b)
          /\ ~SameAfter(3, a, b) => /\ Read3(w, b) = Read3(Sub(v, k), b)
                                    /\ Write3(w, b, t) = Write3(x, a, s)
      BY <2>1, <2>a, <2>6, Text3
    <3>3. /\ Opens(WithSub(v, j, w), k) /\ Sub(WithSub(v, j, w), k) = w
          /\ Opens(WithSub(v, k, x), j) /\ Sub(WithSub(v, k, x), j) = x
          /\ \A z : /\ WithSub(WithSub(v, j, w), k, z) = WithSub(v, j, z)
                   /\ WithSub(WithSub(v, k, x), j, z) = WithSub(v, j, z)
      BY <2>1, <2>6, SubLaws
    <3> HIDE DEF w, x
    <3>4. Leads2(WithSub(v, j, w), b)
      BY <1>1, <1>3, <3>2, <3>3 DEF Leads2
    <3>5. ASSUME ~SameAfter(2, a, b)
          PROVE  /\ Read2(WithSub(v, j, w), b) = Read2(v, b)
                 /\ Write2(WithSub(v, j, w), b, t) = Write2(WithSub(v, k, x), a, s)
      BY <1>1, <1>3, <2>2, <3>1, <3>2, <3>3, <3>5 DEF Read2, Write2
    <3>6. QED
      BY <2>2, <2>5, <3>4, <3>5
  <2>7. CASE j # k
    <3>0. ASSUME NEW f, NEW g, NEW y1, NEW y2, Opens(v, f), Opens(v, g), f # g
          PROVE  /\ Opens(WithSub(v, f, y1), g) /\ Sub(WithSub(v, f, y1), g) = Sub(v, g)
                 /\ WithSub(WithSub(v, f, y1), g, y2) = WithSub(WithSub(v, g, y2), f, y1)
      BY <3>0, SubLaws
    <3>1. /\ Opens(WithSub(v, j, w), k) /\ Sub(WithSub(v, j, w), k) = Sub(v, k)
          /\ Opens(WithSub(v, k, x), j) /\ Sub(WithSub(v, k, x), j) = Sub(v, j)
          /\ WithSub(WithSub(v, j, w), k, x) = WithSub(WithSub(v, k, x), j, w)
      <4> HIDE DEF w, x
      <4>1. QED
        BY <2>1, <2>7, <3>0
    <3>2. Leads2(WithSub(v, j, w), b)
      <4> HIDE DEF w
      <4>1. QED
        BY <1>1, <1>3, <2>1, <3>1 DEF Leads2
    <3>3. Read2(WithSub(v, j, w), b) = Read2(v, b)
      <4> HIDE DEF w
      <4>1. QED
        BY <1>1, <1>3, <3>1 DEF Read2
    <3>4. /\ Write2(WithSub(v, j, w), b, t) = WithSub(WithSub(v, j, w), k, x)
          /\ Write2(WithSub(v, k, x), a, s) = WithSub(WithSub(v, k, x), j, w)
      BY <1>1, <1>3, <3>1 DEF Write2
    <3> HIDE DEF w, x
    <3>5. QED
      BY <2>2, <2>5, <3>1, <3>2, <3>3, <3>4
  <2>8. QED
    BY <2>6, <2>7
<1>4. QED
  BY <1>2, <1>3

LEMMA Text1 ==
    ASSUME NEW v, NEW a, NEW b, NEW s, NEW t, Leads1(v, a), Leads1(v, b),
           Len(a) \in {1, 2, 3, 4}, Len(b) \in {1, 2, 3, 4}
    PROVE  /\ Leads1(Write1(v, a, s), b)
           /\ Read1(Write1(v, a, s), a) = s
           /\ Write1(Write1(v, a, s), a, t) = Write1(v, a, t)
           /\ ~SameAfter(1, a, b)
                 => /\ Read1(Write1(v, a, s), b) = Read1(v, b)
                    /\ Write1(Write1(v, a, s), b, t) = Write1(Write1(v, b, t), a, s)
           /\ Write1(v, a, Read1(v, a)) = v
<1>1. Len(a) = 1 <=> Len(b) = 1
  BY DEF Leads1, Holds, Opens
<1>2. CASE Len(a) = 1
  <2>1. SameAfter(1, a, b) /\ Holds(v)
    BY <1>1, <1>2 DEF SameAfter, Leads1
  <2>2. QED
    BY <1>1, <1>2, <2>1, PutLaws DEF Leads1, Read1, Write1
<1>3. CASE Len(a) # 1
  <2> DEFINE j == a[2]
             k == b[2]
             w == Write2(Sub(v, j), a, s)
             x == Write2(Sub(v, k), b, t)
             y == Write2(Sub(v, j), a, t)
  <2>1. /\ Opens(v, j) /\ Leads2(Sub(v, j), a)
        /\ Opens(v, k) /\ Leads2(Sub(v, k), b)
    BY <1>1, <1>3 DEF Leads1
  <2>a. Len(a) \in {2, 3, 4} /\ Len(b) \in {2, 3, 4}
    BY <1>1, <1>3
  <2>2. /\ Write1(v, a, s) = WithSub(v, j, w) /\ Write1(v, b, t) = WithSub(v, k, x)
        /\ Write1(v, a, t) = WithSub(v, j, y)
        /\ Read1(v, a) = Read2(Sub(v, j), a) /\ Read1(v, b) = Read2(Sub(v, k), b)
    BY <1>1, <1>3 DEF Write1, Read1
  <2>3. /\ Leads2(w, a) /\ Read2(w, a) = s
        /\ Write2(w, a, t) = y
        /\ Write2(Sub(v, j), a, Read2(Sub(v, j), a)) = Sub(v, j)
    BY <2>1, <2>a, Text2
  <2>4. /\ Opens(WithSub(v, j, w), j) /\ Sub(WithSub(v, j, w), j) = w
        /\ WithSub(WithSub(v, j, w), j, y) = WithSub(v, j, y)
        /\ WithSub(v, j, Sub(v, j)) = v
    BY <2>1, SubLaws
  <2>5. /\ Read1(Write1(v, a, s), a) = s
        /\ Write1(Write1(v, a, s), a, t) = Write1(v, a, t)
        /\ Write1(v, a, Read1(v, a)) = v
    <3> HIDE DEF w, y
    <3>1. Read1(WithSub(v, j, w), a) = s
      BY <1>3, <2>3, <2>4 DEF Read1
    <3>2. Write1(WithSub(v, j, w), a, t) = WithSub(v, j, y)
      BY <1>3, <2>3, <2>4 DEF Write1
    <3>3. Write1(v, a, Read1(v, a)) = v
      BY <1>3, <2>2, <2>3, <2>4 DEF Write1
    <3>4. QED
      BY <2>2, <3>1, <3>2, <3>3
  <2>6. CASE j = k
    <3>1. ~SameAfter(1, a, b) => ~SameAfter(2, a, b)
      BY <2>a, <2>6 DEF SameAfter
    <3>2. /\ Leads2(w, b)
          /\ ~SameAfter(2, a, b) => /\ Read2(w, b) = Read2(Sub(v, k), b)
                                    /\ Write2(w, b, t) = Write2(x, a, s)
      BY <2>1, <2>a, <2>6, Text2
    <3>3. /\ Opens(WithSub(v, j, w), k) /\ Sub(WithSub(v, j, w), k) = w
          /\ Opens(WithSub(v, k, x), j) /\ Sub(WithSub(v, k, x), j) = x
          /\ \A z : /\ WithSub(WithSub(v, j, w), k, z) = WithSub(v, j, z)
                   /\ WithSub(WithSub(v, k, x), j, z) = WithSub(v, j, z)
      BY <2>1, <2>6, SubLaws
    <3> HIDE DEF w, x
    <3>4. Leads1(WithSub(v, j, w), b)
      BY <1>1, <1>3, <3>2, <3>3 DEF Leads1
    <3>5. ASSUME ~SameAfter(1, a, b)
          PROVE  /\ Read1(WithSub(v, j, w), b) = Read1(v, b)
                 /\ Write1(WithSub(v, j, w), b, t) = Write1(WithSub(v, k, x), a, s)
      BY <1>1, <1>3, <2>2, <3>1, <3>2, <3>3, <3>5 DEF Read1, Write1
    <3>6. QED
      BY <2>2, <2>5, <3>4, <3>5
  <2>7. CASE j # k
    <3>0. ASSUME NEW f, NEW g, NEW y1, NEW y2, Opens(v, f), Opens(v, g), f # g
          PROVE  /\ Opens(WithSub(v, f, y1), g) /\ Sub(WithSub(v, f, y1), g) = Sub(v, g)
                 /\ WithSub(WithSub(v, f, y1), g, y2) = WithSub(WithSub(v, g, y2), f, y1)
      BY <3>0, SubLaws
    <3>1. /\ Opens(WithSub(v, j, w), k) /\ Sub(WithSub(v, j, w), k) = Sub(v, k)
          /\ Opens(WithSub(v, k, x), j) /\ Sub(WithSub(v, k, x), j) = Sub(v, j)
          /\ WithSub(WithSub(v, j, w), k, x) = WithSub(WithSub(v, k, x), j, w)
      <4> HIDE DEF w, x
      <4>1. QED
        BY <2>1, <2>7, <3>0
    <3>2. Leads1(WithSub(v, j, w), b)
      <4> HIDE DEF w
      <4>1. QED
        BY <1>1, <1>3, <2>1, <3>1 DEF Leads1
    <3>3. Read1(WithSub(v, j, w), b) = Read1(v, b)
      <4> HIDE DEF w
      <4>1. QED
        BY <1>1, <1>3, <3>1 DEF Read1
    <3>4. /\ Write1(WithSub(v, j, w), b, t) = WithSub(WithSub(v, j, w), k, x)
          /\ Write1(WithSub(v, k, x), a, s) = WithSub(WithSub(v, k, x), j, w)
      BY <1>1, <1>3, <3>1 DEF Write1
    <3> HIDE DEF w, x
    <3>5. QED
      BY <2>2, <2>5, <3>1, <3>2, <3>3, <3>4
  <2>8. QED
    BY <2>6, <2>7
<1>4. QED
  BY <1>2, <1>3

-----------------------------------------------------------------------------
(* A payload.                                                                *)

IsPayload(p) ==
    /\ p = [value |-> p.value, tools |-> p.tools, cached |-> p.cached]
    /\ p.value = [i \in {System, Body} |-> p.value[i]]

\* A path of the payload to a text, and the text.
Points(p, path) ==
    /\ IsPayload(p)
    /\ path \in Seq(Nat) /\ Len(path) \in {1, 2, 3, 4} /\ path[1] \in {System, Body}
    /\ Leads1(p.value[path[1]], path)
TextAt(p, path) == Read1(p.value[path[1]], path)

WithValue(p, s, v) == [p EXCEPT !.value[s] = v]

LEMMA ValueLaws ==
    ASSUME NEW p, NEW s, NEW v, IsPayload(p), s \in {System, Body}
    PROVE  /\ WithValue(p, s, v) =
                [value |-> [i \in {System, Body} |-> IF i = s THEN v ELSE p.value[i]],
                 tools |-> p.tools, cached |-> p.cached]
           /\ IsPayload(WithValue(p, s, v))
           /\ WithValue(p, s, v).tools = p.tools /\ WithValue(p, s, v).cached = p.cached
           /\ \A i \in {System, Body} : WithValue(p, s, v).value[i] = IF i = s THEN v ELSE p.value[i]
           /\ \A w : WithValue(WithValue(p, s, v), s, w) = WithValue(p, s, w)
           /\ \A w, i : i \in {System, Body} /\ i # s
                => WithValue(WithValue(p, s, v), i, w) = WithValue(WithValue(p, i, w), s, v)
           /\ WithValue(p, s, p.value[s]) = p
<1> DEFINE V(k, w) == [i \in {System, Body} |-> IF i = k THEN w ELSE p.value[i]]
           F(f) == [value |-> f, tools |-> p.tools, cached |-> p.cached]
<1>1. ASSUME NEW k, NEW w PROVE WithValue(p, k, w) = F(V(k, w))
  <2>1. [p.value EXCEPT ![k] = w] = V(k, w)
    BY DEF IsPayload
  <2>2. \A f : [p EXCEPT !.value = f] = F(f)
    BY DEF IsPayload
  <2>3. WithValue(p, k, w) = [p EXCEPT !.value = [p.value EXCEPT ![k] = w]]
    BY DEF WithValue
  <2>4. QED
    BY <2>1, <2>2, <2>3
<1>2. ASSUME NEW f, NEW k, NEW w, DOMAIN f = {System, Body}
      PROVE  WithValue(F(f), k, w) = F([i \in {System, Body} |-> IF i = k THEN w ELSE f[i]])
  <2>1. [f EXCEPT ![k] = w] = [i \in {System, Body} |-> IF i = k THEN w ELSE f[i]]
    BY <1>2
  <2>2. \A g : [F(f) EXCEPT !.value = g] = F(g)
    OBVIOUS
  <2>3. WithValue(F(f), k, w) = [F(f) EXCEPT !.value = [f EXCEPT ![k] = w]]
    BY DEF WithValue
  <2>4. QED
    BY <2>1, <2>2, <2>3
<1>3. IsPayload(F(V(s, v))) /\ F(V(s, v)).tools = p.tools /\ F(V(s, v)).cached = p.cached
  BY DEF IsPayload
<1>4. \A i \in {System, Body} : F(V(s, v)).value[i] = IF i = s THEN v ELSE p.value[i]
  OBVIOUS
<1>5. ASSUME NEW w PROVE WithValue(F(V(s, v)), s, w) = F(V(s, w))
  <2>1. WithValue(F(V(s, v)), s, w)
          = F([i \in {System, Body} |-> IF i = s THEN w ELSE V(s, v)[i]])
    BY <1>2
  <2>2. [i \in {System, Body} |-> IF i = s THEN w ELSE V(s, v)[i]] = V(s, w)
    OBVIOUS
  <2>3. QED
    BY <2>1, <2>2
<1>6. ASSUME NEW w, NEW j, j \in {System, Body}, j # s
      PROVE  WithValue(F(V(s, v)), j, w) = WithValue(F(V(j, w)), s, v)
  <2>1. WithValue(F(V(s, v)), j, w)
          = F([i \in {System, Body} |-> IF i = j THEN w ELSE V(s, v)[i]])
    BY <1>2
  <2>2. WithValue(F(V(j, w)), s, v)
          = F([i \in {System, Body} |-> IF i = s THEN v ELSE V(j, w)[i]])
    BY <1>2
  <2>3. [i \in {System, Body} |-> IF i = j THEN w ELSE V(s, v)[i]]
          = [i \in {System, Body} |-> IF i = s THEN v ELSE V(j, w)[i]]
    BY <1>6
  <2>4. QED
    BY <2>1, <2>2, <2>3
<1>7. F(V(s, p.value[s])) = p
  <2>1. V(s, p.value[s]) = p.value
    BY DEF IsPayload
  <2>2. QED
    BY <2>1 DEF IsPayload
<1> HIDE DEF V, F
<1>8. WithValue(p, s, v) = F(V(s, v)) /\ WithValue(p, s, p.value[s]) = p
  BY <1>1, <1>7
<1>9. /\ \A w : WithValue(WithValue(p, s, v), s, w) = WithValue(p, s, w)
      /\ \A w, i : i \in {System, Body} /\ i # s
           => WithValue(WithValue(p, s, v), i, w) = WithValue(WithValue(p, i, w), s, v)
  BY <1>1, <1>5, <1>6
<1>10. QED
  BY <1>3, <1>4, <1>8, <1>9 DEF V, F

LEMMA SetPathIsWrite ==
    ASSUME NEW p, NEW path, NEW text, Points(p, path)
    PROVE  SetPath(p, path, text)
             = WithValue(p, path[1], Write1(p.value[path[1]], path, text))
<1> DEFINE v == p.value[path[1]]
<1>a. ASSUME NEW n \in {1, 2, 3, 4}
      PROVE  /\ n = 1 => n # 2 /\ n # 3 /\ n # 4
             /\ n = 2 => n # 1 /\ n # 3 /\ n # 4
             /\ n = 3 => n # 1 /\ n # 2 /\ n # 4
             /\ n = 4 => n # 1 /\ n # 2 /\ n # 3
  OBVIOUS
<1>b. Len(path) \in {1, 2, 3, 4}
  BY DEF Points
<1>1. CASE Len(path) = 1
  <2>0. Len(path) # 2 /\ Len(path) # 3 /\ Len(path) # 4
    BY <1>1, <1>a, <1>b
  <2>1. SetPath(p, path, text) = [p EXCEPT !.value[path[1]].text = text]
    BY <1>1, <2>0, Zenon DEF SetPath
  <2>2. Write1(v, path, text) = [v EXCEPT !.text = text]
    BY <1>1 DEF Write1, Put
  <2>3. QED
    BY <2>1, <2>2 DEF WithValue
<1>2. CASE Len(path) = 2
  <2>0. Len(path) # 1 /\ Len(path) # 3 /\ Len(path) # 4
    BY <1>2, <1>a, <1>b
  <2>1. SetPath(p, path, text) = [p EXCEPT !.value[path[1]].items[path[2]].content.text = text]
    BY <1>2, <2>0, Zenon DEF SetPath
  <2>2. Write1(v, path, text)
          = [v EXCEPT !.items[path[2]].content = [v.items[path[2]].content EXCEPT !.text = text]]
    BY <1>2, <2>0 DEF Write1, Write2, Put, WithSub, Sub
  <2>3. QED
    BY <2>1, <2>2 DEF WithValue
<1>3. CASE Len(path) = 3
  <2> DEFINE u == v.items[path[2]].content
  <2>0. Len(path) # 1 /\ Len(path) # 2 /\ Len(path) # 4
    BY <1>3, <1>a, <1>b
  <2>1. SetPath(p, path, text)
          = [p EXCEPT !.value[path[1]].items[path[2]].content.items[path[3]].content.text = text]
    BY <1>3, <2>0, Zenon DEF SetPath
  <2>2. Write1(v, path, text) = WithSub(v, path[2], Write2(u, path, text))
    BY <1>3, <2>0, Zenon DEF Write1, Sub
  <2>3. Write2(u, path, text) = WithSub(u, path[3], Put(u.items[path[3]].content, text))
    BY <1>3, <2>0, Zenon DEF Write2, Write3, Sub
  <2>4. QED
    BY <2>1, <2>2, <2>3 DEF WithValue, WithSub, Put
<1>4. CASE Len(path) = 4
  <2> DEFINE u == v.items[path[2]].content
             t == u.items[path[3]].content
  <2>0. Len(path) # 1 /\ Len(path) # 2 /\ Len(path) # 3
    BY <1>4, <1>a, <1>b
  <2>1. SetPath(p, path, text)
          = [p EXCEPT !.value[path[1]].items[path[2]].content.items[path[3]]
                         .content.items[path[4]].content.text = text]
    BY <1>4, <2>0, Zenon DEF SetPath
  <2>2. Write1(v, path, text) = WithSub(v, path[2], Write2(u, path, text))
    BY <1>4, <2>0, Zenon DEF Write1, Sub
  <2>3. Write2(u, path, text) = WithSub(u, path[3], Write3(t, path, text))
    BY <1>4, <2>0, Zenon DEF Write2, Sub
  <2>4. Write3(t, path, text) = WithSub(t, path[4], Put(t.items[path[4]].content, text))
    BY <1>4, <2>0, Zenon DEF Write3, Write4, Sub
  <2>5. QED
    BY <2>1, <2>2, <2>3, <2>4 DEF WithValue, WithSub, Put
<1>5. QED
  BY <1>b, <1>1, <1>2, <1>3, <1>4

LEMMA SamePath ==
    ASSUME NEW a \in Seq(Nat), NEW b \in Seq(Nat), Len(a) \in {1, 2, 3, 4},
           SameAfter(1, a, b), a[1] = b[1]
    PROVE  a = b
<1> DEFINE n == Len(a)
<1>1. n \in {1, 2, 3, 4} /\ n = Len(b) /\ \A i \in 1 + 1 .. n : a[i] = b[i]
  BY DEF SameAfter
<1>2. \A i \in 1 .. n : a[i] = b[i]
  <2> HIDE DEF n
  <2>1. QED
    BY <1>1
<1>3. QED
  BY <1>1, <1>2, SeqEqual

\* A text put at a path is found there, the last one put there counts, texts put
\* at two paths do not meet, and putting back what is there changes nothing.
LEMMA SetPathLaws ==
    ASSUME NEW p, NEW a, NEW b, NEW s, NEW t, Points(p, a), Points(p, b)
    PROVE  /\ Points(SetPath(p, a, s), b)
           /\ TextAt(SetPath(p, a, s), a) = s
           /\ SetPath(SetPath(p, a, s), a, t) = SetPath(p, a, t)
           /\ a # b => /\ TextAt(SetPath(p, a, s), b) = TextAt(p, b)
                       /\ SetPath(SetPath(p, a, s), b, t) = SetPath(SetPath(p, b, t), a, s)
           /\ SetPath(p, a, TextAt(p, a)) = p
<1> DEFINE j == a[1]
           k == b[1]
           w == Write1(p.value[j], a, s)
           x == Write1(p.value[k], b, t)
           y == Write1(p.value[j], a, t)
<1>1. /\ IsPayload(p) /\ j \in {System, Body} /\ k \in {System, Body}
      /\ Leads1(p.value[j], a) /\ Leads1(p.value[k], b)
      /\ Len(a) \in {1, 2, 3, 4} /\ Len(b) \in {1, 2, 3, 4}
      /\ a \in Seq(Nat) /\ b \in Seq(Nat)
  BY DEF Points
<1>2. /\ SetPath(p, a, s) = WithValue(p, j, w) /\ SetPath(p, b, t) = WithValue(p, k, x)
      /\ SetPath(p, a, t) = WithValue(p, j, y)
  BY SetPathIsWrite
<1>3. /\ Leads1(w, a) /\ Read1(w, a) = s /\ Write1(w, a, t) = y
      /\ Write1(p.value[j], a, Read1(p.value[j], a)) = p.value[j]
  <2>1. ASSUME NEW v, NEW c, NEW x1, NEW x2, Leads1(v, c), Len(c) \in {1, 2, 3, 4}
        PROVE  /\ Leads1(Write1(v, c, x1), c) /\ Read1(Write1(v, c, x1), c) = x1
               /\ Write1(Write1(v, c, x1), c, x2) = Write1(v, c, x2)
               /\ Write1(v, c, Read1(v, c)) = v
    BY <2>1, Text1
  <2>2. QED
    BY <1>1, <2>1
<1>4. /\ IsPayload(WithValue(p, j, w)) /\ IsPayload(WithValue(p, k, x))
      /\ WithValue(p, j, w).value[j] = w /\ WithValue(p, k, x).value[k] = x
      /\ j # k => /\ WithValue(p, j, w).value[k] = p.value[k]
                  /\ WithValue(p, k, x).value[j] = p.value[j]
      /\ \A z : WithValue(WithValue(p, j, w), j, z) = WithValue(p, j, z)
      /\ \A z : WithValue(WithValue(p, k, x), k, z) = WithValue(p, k, z)
      /\ WithValue(p, j, p.value[j]) = p
  <2> HIDE DEF w, x, j, k
  <2>1. QED
    BY <1>1, ValueLaws
<1>5. Points(WithValue(p, j, w), a) /\ Points(WithValue(p, k, x), b)
  <2>1. Leads1(x, b)
    BY <1>1, Text1
  <2> HIDE DEF w, x
  <2>2. QED
    BY <1>1, <1>3, <1>4, <2>1 DEF Points
<1>6. /\ TextAt(SetPath(p, a, s), a) = s
      /\ SetPath(SetPath(p, a, s), a, t) = SetPath(p, a, t)
  <2> HIDE DEF w, y
  <2>1. TextAt(WithValue(p, j, w), a) = s
    BY <1>3, <1>4 DEF TextAt
  <2>2. SetPath(WithValue(p, j, w), a, t)
          = WithValue(WithValue(p, j, w), j, Write1(w, a, t))
    BY <1>4, <1>5, SetPathIsWrite
  <2>3. QED
    BY <1>2, <1>3, <1>4, <2>1, <2>2
<1>7. SetPath(p, a, TextAt(p, a)) = p
  <2>1. SetPath(p, a, TextAt(p, a)) = WithValue(p, j, Write1(p.value[j], a, TextAt(p, a)))
    BY SetPathIsWrite
  <2>2. QED
    BY <1>3, <1>4, <2>1 DEF TextAt
<1>8. CASE j = k
  <2>1. a # b => ~SameAfter(1, a, b)
    BY <1>1, <1>8, SamePath
  <2>2. /\ Leads1(w, b)
        /\ ~SameAfter(1, a, b) => /\ Read1(w, b) = Read1(p.value[j], b)
                                  /\ Write1(w, b, t) = Write1(x, a, s)
    BY <1>1, <1>8, Text1
  <2> HIDE DEF w, x
  <2>3. Points(WithValue(p, j, w), b) /\ Points(WithValue(p, k, x), a)
    <3>1. Leads1(x, a)
      BY <1>1, <1>8, Text1 DEF x
    <3>2. QED
      BY <1>1, <1>4, <1>8, <2>2, <3>1 DEF Points
  <2>4. ASSUME a # b
        PROVE  /\ TextAt(SetPath(p, a, s), b) = TextAt(p, b)
               /\ SetPath(SetPath(p, a, s), b, t) = SetPath(SetPath(p, b, t), a, s)
    <3>1. TextAt(WithValue(p, j, w), b) = TextAt(p, b)
      BY <1>4, <1>8, <2>1, <2>2, <2>4 DEF TextAt
    <3>2. SetPath(WithValue(p, j, w), b, t) = WithValue(WithValue(p, j, w), k, Write1(w, b, t))
      BY <1>4, <1>8, <2>3, SetPathIsWrite
    <3>3. SetPath(WithValue(p, k, x), a, s) = WithValue(WithValue(p, k, x), j, Write1(x, a, s))
      BY <1>4, <1>8, <2>3, SetPathIsWrite
    <3>4. QED
      BY <1>2, <1>4, <1>8, <2>1, <2>2, <2>4, <3>1, <3>2, <3>3
  <2>5. QED
    BY <1>2, <1>6, <1>7, <2>3, <2>4
<1>9. CASE j # k
  <2>1. WithValue(WithValue(p, j, w), k, x) = WithValue(WithValue(p, k, x), j, w)
    <3> HIDE DEF w, x, j, k
    <3>1. QED
      BY <1>1, <1>9, ValueLaws
  <2>2. Points(WithValue(p, j, w), b) /\ Points(WithValue(p, k, x), a)
    <3> HIDE DEF w, x
    <3>1. QED
      BY <1>1, <1>4, <1>9 DEF Points
  <2>3. TextAt(WithValue(p, j, w), b) = TextAt(p, b)
    <3> HIDE DEF w
    <3>1. QED
      BY <1>4, <1>9 DEF TextAt
  <2>4. SetPath(WithValue(p, j, w), b, t) = WithValue(WithValue(p, j, w), k, x)
    <3>1. SetPath(WithValue(p, j, w), b, t)
            = WithValue(WithValue(p, j, w), k, Write1(WithValue(p, j, w).value[k], b, t))
      BY <2>2, SetPathIsWrite
    <3> HIDE DEF w
    <3>2. QED
      BY <1>4, <1>9, <3>1
  <2>5. SetPath(WithValue(p, k, x), a, s) = WithValue(WithValue(p, k, x), j, w)
    <3>1. SetPath(WithValue(p, k, x), a, s)
            = WithValue(WithValue(p, k, x), j, Write1(WithValue(p, k, x).value[j], a, s))
      BY <2>2, SetPathIsWrite
    <3> HIDE DEF x
    <3>2. QED
      BY <1>4, <1>9, <3>1
  <2>6. QED
    BY <1>2, <1>6, <1>7, <2>1, <2>2, <2>3, <2>4, <2>5
<1>10. QED
  BY <1>8, <1>9

-----------------------------------------------------------------------------
(* SerializeBlocks: the payload after each block.                            *)

\* h[i] is the payload with the texts of the first i blocks.
Writes(h, p, blocks, texts, n) ==
    h = [i \in 0 .. n |->
            IF i = 0 THEN p
            ELSE IF blocks[i].path = NoPath THEN h[i - 1]
            ELSE SetPath(h[i - 1], blocks[i].path, texts[i])]

Steps(h, p, blocks, texts, n) ==
    /\ DOMAIN h = 0 .. n /\ h[0] = p
    /\ \A i \in 1 .. n : h[i] = IF blocks[i].path = NoPath THEN h[i - 1]
                                ELSE SetPath(h[i - 1], blocks[i].path, texts[i])

LEMMA SerializeIsFold ==
    ASSUME NEW p, NEW blocks, NEW texts, NEW n \in Nat, Len(blocks) = n
    PROVE  \E h : Steps(h, p, blocks, texts, n) /\ SerializeBlocks(p, blocks, texts) = h[n]
<1> DEFINE W(h, m) == Writes(h, p, blocks, texts, m)
           S == {m \in Nat : \E h : W(h, m)}
<1>1. 0 \in S
  <2>1. W([i \in 0 .. 0 |-> p], 0)
    BY DEF Writes
  <2>2. QED
    BY <2>1
<1>2. ASSUME NEW m \in Nat, m \in S PROVE m + 1 \in S
  <2>1. PICK f : W(f, m)
    BY <1>2
  <2> DEFINE G(h, i) == IF i = 0 THEN p
                        ELSE IF blocks[i].path = NoPath THEN h[i - 1]
                        ELSE SetPath(h[i - 1], blocks[i].path, texts[i])
             g == [i \in 0 .. m + 1 |-> IF i =< m THEN f[i] ELSE G(f, i)]
  <2>2. ASSUME NEW i \in 0 .. m + 1 PROVE g[i] = G(g, i)
    <3>1. CASE i = m + 1
      <4>1. i # 0 /\ i - 1 \in 0 .. m + 1 /\ i - 1 =< m /\ ~(i =< m)
        BY <3>1
      <4>2. g[i - 1] = f[i - 1] /\ g[i] = G(f, i)
        BY <4>1
      <4> HIDE DEF g
      <4>3. QED
        BY <4>1, <4>2
    <3>2. CASE i # m + 1
      <4>1. i \in 0 .. m /\ i =< m /\ (i # 0 => i - 1 \in 0 .. m + 1 /\ i - 1 =< m)
        BY <3>2
      <4>2. g[i] = f[i] /\ (i # 0 => g[i - 1] = f[i - 1])
        BY <4>1
      <4>3. f[i] = G(f, i)
        BY <2>1, <4>1 DEF Writes
      <4> HIDE DEF g
      <4>4. QED
        BY <4>2, <4>3
    <3>3. QED
      BY <3>1, <3>2
  <2>3. W(g, m + 1)
    <3>1. DOMAIN g = 0 .. m + 1 /\ g = [i \in 0 .. m + 1 |-> g[i]]
      OBVIOUS
    <3> HIDE DEF g
    <3>2. QED
      BY <2>2, <3>1 DEF Writes
  <2> HIDE DEF g, W
  <2>4. QED
    BY <2>3
<1>3. \E h : W(h, n)
  <2> HIDE DEF W
  <2>1. Nat \subseteq S
    <3> HIDE DEF S
    <3>1. QED
      BY <1>1, <1>2, Induction
  <2>2. QED
    BY <2>1
<1> DEFINE c == CHOOSE h : W(h, n)
<1>4. W(c, n)
  <2> HIDE DEF W
  <2>1. QED
    BY <1>3
<1>5. SerializeBlocks(p, blocks, texts) = c[n]
  BY DEF SerializeBlocks, Writes
<1> HIDE DEF c
<1>6. /\ DOMAIN c = 0 .. n /\ c[0] = p
      /\ \A i \in 1 .. n : c[i] = IF blocks[i].path = NoPath THEN c[i - 1]
                                  ELSE SetPath(c[i - 1], blocks[i].path, texts[i])
  <2>1. /\ DOMAIN c = 0 .. n
        /\ \A i \in 0 .. n : c[i] = IF i = 0 THEN p
                                    ELSE IF blocks[i].path = NoPath THEN c[i - 1]
                                    ELSE SetPath(c[i - 1], blocks[i].path, texts[i])
    BY <1>4 DEF Writes
  <2>2. QED
    BY <2>1
<1>7. QED
  BY <1>5, <1>6 DEF Steps

\* What the payload has and no write disturbs, the result has.
LEMMA SerializeKeeps ==
    ASSUME NEW p, NEW blocks, NEW texts, NEW K,
           Len(blocks) \in Nat,
           p \in K,
           \A q \in K : \A i \in 1 .. Len(blocks) :
              blocks[i].path # NoPath => SetPath(q, blocks[i].path, texts[i]) \in K
    PROVE  SerializeBlocks(p, blocks, texts) \in K
<1> DEFINE n == Len(blocks)
<1>0. n \in Nat
  OBVIOUS
<1>1. PICK h : Steps(h, p, blocks, texts, n) /\ SerializeBlocks(p, blocks, texts) = h[n]
  BY <1>0, SerializeIsFold
<1>2. \A q \in K : \A i \in 1 .. n :
              blocks[i].path # NoPath => SetPath(q, blocks[i].path, texts[i]) \in K
  OBVIOUS
<1> HIDE DEF n
<1> DEFINE T == {i \in Nat : i =< n => h[i] \in K}
<1>3. 0 \in T
  BY <1>1 DEF Steps
<1>4. ASSUME NEW i \in Nat, i \in T PROVE i + 1 \in T
  <2>1. SUFFICES ASSUME i + 1 =< n PROVE h[i + 1] \in K
    OBVIOUS
  <2>2. i =< n /\ i + 1 \in 1 .. n /\ (i + 1) - 1 = i
    BY <1>0, <2>1
  <2>3. h[i] \in K
    BY <1>4, <2>2
  <2>4. h[i + 1] = IF blocks[i + 1].path = NoPath THEN h[i]
                   ELSE SetPath(h[i], blocks[i + 1].path, texts[i + 1])
    BY <1>1, <2>2 DEF Steps
  <2>5. QED
    BY <1>2, <2>2, <2>3, <2>4
<1>5. Nat \subseteq T
  <2> HIDE DEF T
  <2>1. QED
    BY <1>3, <1>4, Induction
<1>6. QED
  BY <1>0, <1>1, <1>5

-----------------------------------------------------------------------------
(* Texts put back.                                                           *)

\* Every block that has a path can be put back.
Placed(p, blocks) ==
    \A i \in 1 .. Len(blocks) : blocks[i].path # NoPath => Points(p, blocks[i].path)

LEMMA PlacedAfter ==
    ASSUME NEW p, NEW blocks, NEW i \in 1 .. Len(blocks), NEW t,
           Placed(p, blocks), blocks[i].path # NoPath
    PROVE  Placed(SetPath(p, blocks[i].path, t), blocks)
BY SetPathLaws DEF Placed

\* A text at the path of a block is overwritten by that block.
LEMMA SerializeAbsorbs ==
    ASSUME NEW p, NEW blocks, NEW texts, NEW x, NEW k \in 1 .. Len(blocks),
           Len(blocks) \in Nat, Placed(p, blocks), blocks[k].path # NoPath
    PROVE  SerializeBlocks(SetPath(p, blocks[k].path, x), blocks, texts)
             = SerializeBlocks(p, blocks, texts)
<1> DEFINE n == Len(blocks)
           a == blocks[k].path
           r == SetPath(p, a, x)
<1>0. n \in Nat /\ k \in 1 .. n
  OBVIOUS
<1>1. PICK g : Steps(g, p, blocks, texts, n) /\ SerializeBlocks(p, blocks, texts) = g[n]
  BY <1>0, SerializeIsFold
<1>2. PICK f : Steps(f, r, blocks, texts, n) /\ SerializeBlocks(r, blocks, texts) = f[n]
  BY <1>0, SerializeIsFold
<1> DEFINE Same(i) == /\ Placed(g[i], blocks)
                      /\ f[i] = g[i] \/ (i < k /\ f[i] = SetPath(g[i], a, x))
           T == {i \in Nat : i =< n => Same(i)}
<1>3. 0 \in T
  BY <1>0, <1>1, <1>2 DEF Steps
<1>4. ASSUME NEW i \in Nat, i \in T PROVE i + 1 \in T
  <2> DEFINE b == blocks[i + 1].path
             t == texts[i + 1]
  <2>1. SUFFICES ASSUME i + 1 =< n PROVE Same(i + 1)
    OBVIOUS
  <2>2. i =< n /\ i + 1 \in 1 .. n /\ (i + 1) - 1 = i
    BY <1>0, <2>1
  <2>3. Same(i)
    BY <1>4, <2>2
  <2>4. /\ g[i + 1] = IF b = NoPath THEN g[i] ELSE SetPath(g[i], b, t)
        /\ f[i + 1] = IF b = NoPath THEN f[i] ELSE SetPath(f[i], b, t)
    BY <1>1, <1>2, <2>2 DEF Steps
  <2>5. Points(g[i], a) /\ (b # NoPath => Points(g[i], b) /\ Placed(SetPath(g[i], b, t), blocks))
    BY <2>2, <2>3, PlacedAfter DEF Placed
  <2>6. i < k => i + 1 < k \/ b = a
    BY <1>0
  <2>7. CASE b = NoPath
    <3>1. b # a
      BY <2>7
    <3>2. QED
      BY <2>3, <2>4, <2>6, <2>7, <3>1
  <2>8. CASE b # NoPath /\ b = a
    <3>1. SetPath(SetPath(g[i], a, x), a, t) = SetPath(g[i], a, t)
      BY <2>5, SetPathLaws
    <3> HIDE DEF a, b, t
    <3>2. f[i + 1] = g[i + 1] /\ Placed(g[i + 1], blocks)
      BY <2>3, <2>4, <2>5, <2>8, <3>1
    <3>3. QED
      BY <3>2
  <2>9. CASE b # NoPath /\ b # a
    <3>1. SetPath(SetPath(g[i], a, x), b, t) = SetPath(SetPath(g[i], b, t), a, x)
      BY <2>5, <2>9, SetPathLaws
    <3> HIDE DEF a, b, t
    <3>2. /\ Placed(g[i + 1], blocks)
          /\ f[i + 1] = g[i + 1] \/ (i + 1 < k /\ f[i + 1] = SetPath(g[i + 1], a, x))
      BY <2>3, <2>4, <2>5, <2>6, <2>9, <3>1
    <3>3. QED
      BY <3>2
  <2>10. QED
    BY <2>7, <2>8, <2>9
<1>5. Nat \subseteq T
  <2> HIDE DEF T
  <2>1. QED
    BY <1>3, <1>4, Induction
<1>6. Same(n) /\ ~(n < k)
  BY <1>0, <1>5
<1>7. QED
  BY <1>1, <1>2, <1>6

\* Whatever texts were written, writing others leaves no trace of them.
LEMMA SerializeTwice ==
    ASSUME NEW p, NEW blocks, NEW texts, NEW others,
           Len(blocks) \in Nat, Placed(p, blocks)
    PROVE  SerializeBlocks(SerializeBlocks(p, blocks, texts), blocks, others)
             = SerializeBlocks(p, blocks, others)
<1> DEFINE n == Len(blocks)
<1>0. n \in Nat
  OBVIOUS
<1>1. PICK h : Steps(h, p, blocks, texts, n) /\ SerializeBlocks(p, blocks, texts) = h[n]
  BY <1>0, SerializeIsFold
<1> DEFINE Same(q) == /\ Placed(q, blocks)
                      /\ SerializeBlocks(q, blocks, others) = SerializeBlocks(p, blocks, others)
<1>a. ASSUME NEW q, NEW i \in 1 .. n, Same(q), blocks[i].path # NoPath
      PROVE  Same(SetPath(q, blocks[i].path, texts[i]))
  <2>1. Placed(SetPath(q, blocks[i].path, texts[i]), blocks)
    BY <1>a, PlacedAfter
  <2>2. SerializeBlocks(SetPath(q, blocks[i].path, texts[i]), blocks, others)
          = SerializeBlocks(q, blocks, others)
    BY <1>a, SerializeAbsorbs
  <2>3. QED
    BY <1>a, <2>1, <2>2
<1>b. Same(p)
  OBVIOUS
<1> HIDE DEF n, Same
<1> DEFINE T == {i \in Nat : i =< n => Same(h[i])}
<1>2. 0 \in T
  BY <1>1, <1>b DEF Steps
<1>3. ASSUME NEW i \in Nat, i \in T PROVE i + 1 \in T
  <2>1. SUFFICES ASSUME i + 1 =< n PROVE Same(h[i + 1])
    OBVIOUS
  <2>2. i =< n /\ i + 1 \in 1 .. n /\ (i + 1) - 1 = i
    BY <1>0, <2>1
  <2>3. Same(h[i])
    BY <1>3, <2>2
  <2>4. h[i + 1] = IF blocks[i + 1].path = NoPath THEN h[i]
                   ELSE SetPath(h[i], blocks[i + 1].path, texts[i + 1])
    BY <1>1, <2>2 DEF Steps
  <2>5. QED
    BY <1>a, <2>2, <2>3, <2>4
<1>4. Nat \subseteq T
  <2> HIDE DEF T
  <2>1. QED
    BY <1>2, <1>3, Induction
<1>5. Same(h[n])
  BY <1>0, <1>4
<1>6. QED
  BY <1>1, <1>5 DEF Same

\* Writing the texts that are there changes nothing.
LEMMA SerializeSame ==
    ASSUME NEW p, NEW blocks, NEW texts, Len(blocks) \in Nat, Placed(p, blocks),
           \A i \in 1 .. Len(blocks) :
              blocks[i].path # NoPath => TextAt(p, blocks[i].path) = texts[i]
    PROVE  SerializeBlocks(p, blocks, texts) = p
<1>1. ASSUME NEW q \in {p}, NEW i \in 1 .. Len(blocks), blocks[i].path # NoPath
      PROVE  SetPath(q, blocks[i].path, texts[i]) \in {p}
  BY <1>1, SetPathLaws DEF Placed
<1>2. SerializeBlocks(p, blocks, texts) \in {p}
  BY <1>1, SerializeKeeps
<1>3. QED
  BY <1>2

-----------------------------------------------------------------------------
(* The JSON of a payload.                                                    *)

LEMMA ValueType ==
    ASSUME NEW E, NEW v \in JsonValue(E)
    PROVE  /\ IsStr(v) => Holds(v) /\ v.text \in Texts
           /\ IsList(v) => v = [is |-> "list", items |-> v.items] /\ v.items \in Seq(E)
           /\ Items(v) \in Seq(E)
<1>1. CASE v \in [is : {"null", "other"}]
  BY <1>1 DEF IsStr, IsList, Items
<1>2. CASE v \in [is : {"str"}, text : Texts]
  BY <1>2 DEF IsStr, IsList, Items, Holds
<1>3. CASE v \in [is : {"list"}, items : Seq(E)]
  BY <1>3 DEF IsStr, IsList, Items
<1>4. QED
  BY <1>1, <1>2, <1>3 DEF JsonValue

LEMMA ElementType ==
    ASSUME NEW V, NEW e \in JsonElement(V)
    PROVE  /\ e.encoded \in Texts
           /\ IsMap(e) => IsObject(e) /\ e.content \in V /\ e.marks \subseteq Marks
           /\ ~IsMap(e) => TypeOf(e) = "no object" /\ RoleOf(e) = "none"
           /\ IsMap(e) => TypeOf(e) = e.type /\ RoleOf(e) = e.role
<1>1. CASE e \in [is : {"other"}, encoded : Texts]
  BY <1>1 DEF IsMap, TypeOf, RoleOf
<1>2. CASE e \in [is : {"map"}, type : STRING, role : STRING, content : V,
                  marks : SUBSET Marks, encoded : Texts]
  BY <1>2 DEF IsMap, TypeOf, RoleOf, IsObject
<1>3. QED
  BY <1>1, <1>2 DEF JsonElement

\* A list of elements opens at its objects.
LEMMA ListOpens ==
    ASSUME NEW V, NEW v \in JsonValue(JsonElement(V)), IsList(v),
           NEW i \in DOMAIN v.items, IsMap(v.items[i])
    PROVE  /\ Opens(v, i) /\ i \in Nat
           /\ Sub(v, i) = v.items[i].content /\ v.items[i].content \in V
<1>1. v = [is |-> "list", items |-> v.items] /\ v.items \in Seq(JsonElement(V))
  BY ValueType
<1>2. v.items = [l \in DOMAIN v.items |-> v.items[l]] /\ i \in Nat /\ v.items[i] \in JsonElement(V)
  BY <1>1
<1>3. IsObject(v.items[i]) /\ v.items[i].content \in V
  BY <1>2, ElementType
<1>4. QED
  BY <1>1, <1>2, <1>3 DEF Opens, Sub

LEMMA PayloadType ==
    ASSUME NEW p \in Payloads
    PROVE  /\ IsPayload(p)
           /\ p.value[System] \in JsonValue(ItemElements)
           /\ p.value[Body] \in JsonValue(ItemElements)
           /\ p.tools \in JsonValue(ItemElements)
<1> DEFINE J == JsonValue(ItemElements)
<1>1. /\ p = [value |-> p.value, tools |-> p.tools, cached |-> p.cached]
      /\ p.value \in J \X J /\ p.tools \in J
  BY DEF Payloads
<1> HIDE DEF J
<1>2. /\ p.value = <<p.value[1], p.value[2]>> /\ p.value[1] \in J /\ p.value[2] \in J
  BY <1>1
<1>3. p.value = [i \in {System, Body} |-> p.value[i]]
  <2>1. DOMAIN p.value = {1, 2} /\ p.value = [i \in DOMAIN p.value |-> p.value[i]]
    BY <1>2
  <2>2. QED
    BY <2>1 DEF System, Body
<1>4. QED
  BY <1>1, <1>2, <1>3 DEF IsPayload, System, Body, J

-----------------------------------------------------------------------------
(* Where the parsers find texts.                                             *)

LEMMA SeqPlace ==
    ASSUME NEW S, NEW s \in Seq(S), NEW i \in DOMAIN s
    PROVE  s[i] \in S /\ i \in Nat /\ i - 1 \in Nat
OBVIOUS

LEMMA LongPaths ==
    ASSUME NEW s \in Nat, NEW i \in Nat, NEW j \in Nat, NEW k \in Nat
    PROVE  /\ <<s, i, j>> \in Seq(Nat) /\ Len(<<s, i, j>>) = 3
           /\ <<s, i, j>>[1] = s /\ <<s, i, j>>[2] = i /\ <<s, i, j>>[3] = j
           /\ <<s, i, j, k>> \in Seq(Nat) /\ Len(<<s, i, j, k>>) = 4
           /\ <<s, i, j, k>>[1] = s /\ <<s, i, j, k>>[2] = i
           /\ <<s, i, j, k>>[3] = j /\ <<s, i, j, k>>[4] = k
OBVIOUS

LEMMA Paths12 ==
    ASSUME NEW p \in Payloads, NEW s \in {System, Body}
    PROVE  /\ IsStr(p.value[s]) => /\ Points(p, <<s>>) /\ TextAt(p, <<s>>) = p.value[s].text
                                   /\ p.value[s].text \in Texts
           /\ IsList(p.value[s]) =>
                 \A i \in DOMAIN p.value[s].items :
                    LET e == p.value[s].items[i] IN
                    IsMap(e) /\ IsStr(e.content) =>
                       /\ Points(p, <<s, i>>) /\ TextAt(p, <<s, i>>) = e.content.text
                       /\ e.content.text \in Texts
<1> DEFINE v == p.value[s]
<1>0. IsPayload(p) /\ v \in JsonValue(ItemElements) /\ s \in Nat
  BY PayloadType DEF System, Body
<1>1. ASSUME IsStr(v) PROVE Points(p, <<s>>) /\ TextAt(p, <<s>>) = v.text /\ v.text \in Texts
  <2>1. Holds(v) /\ v.text \in Texts
    BY <1>0, <1>1, ValueType
  <2>2. <<s>> \in Seq(Nat) /\ Len(<<s>>) = 1 /\ <<s>>[1] = s
    BY <1>0
  <2>3. QED
    BY <1>0, <2>1, <2>2 DEF Points, TextAt, Leads1, Read1
<1>2. ASSUME NEW i \in DOMAIN v.items, IsList(v), IsMap(v.items[i]), IsStr(v.items[i].content)
      PROVE  /\ Points(p, <<s, i>>) /\ TextAt(p, <<s, i>>) = v.items[i].content.text
             /\ v.items[i].content.text \in Texts
  <2>1. /\ Opens(v, i) /\ i \in Nat /\ Sub(v, i) = v.items[i].content
        /\ v.items[i].content \in JsonValue(PartElements)
    BY <1>0, <1>2, ListOpens DEF ItemElements
  <2>2. Holds(v.items[i].content) /\ v.items[i].content.text \in Texts
    BY <1>2, <2>1, ValueType
  <2>3. <<s, i>> \in Seq(Nat) /\ Len(<<s, i>>) = 2 /\ <<s, i>>[1] = s /\ <<s, i>>[2] = i
    BY <1>0, <2>1
  <2>4. QED
    BY <1>0, <2>1, <2>2, <2>3 DEF Points, TextAt, Leads1, Read1, Leads2, Read2
<1>3. QED
  BY <1>1, <1>2

LEMMA Paths3 ==
    ASSUME NEW p \in Payloads, NEW s \in {System, Body}, IsList(p.value[s]),
           NEW i \in DOMAIN p.value[s].items, IsMap(p.value[s].items[i]),
           IsList(p.value[s].items[i].content),
           NEW j \in DOMAIN p.value[s].items[i].content.items
    PROVE  LET part == p.value[s].items[i].content.items[j] IN
           /\ i \in Nat /\ j \in Nat
           /\ part \in PartElements
           /\ IsMap(part) /\ IsStr(part.content) =>
                 /\ Points(p, <<s, i, j>>) /\ TextAt(p, <<s, i, j>>) = part.content.text
                 /\ part.content.text \in Texts
           /\ IsMap(part) /\ IsList(part.content) =>
                 \A k \in DOMAIN part.content.items :
                    LET nested == part.content.items[k] IN
                    /\ nested \in NestedElements
                    /\ IsMap(nested) /\ IsStr(nested.content) =>
                          /\ Points(p, <<s, i, j, k>>)
                          /\ TextAt(p, <<s, i, j, k>>) = nested.content.text
                          /\ nested.content.text \in Texts
<1> DEFINE v == p.value[s]
           u == v.items[i].content
           part == u.items[j]
<1>0. IsPayload(p) /\ v \in JsonValue(ItemElements) /\ s \in Nat
  BY PayloadType DEF System, Body
<1>1. Opens(v, i) /\ i \in Nat /\ Sub(v, i) = u /\ u \in JsonValue(PartElements)
  BY <1>0, ListOpens DEF ItemElements
<1>2. u.items \in Seq(PartElements)
  BY <1>1, ValueType
<1>3. part \in PartElements /\ j \in Nat
  <2>1. j \in DOMAIN u.items
    OBVIOUS
  <2> HIDE DEF u
  <2>2. QED
    BY <1>2, <2>1, SeqPlace
<1>4. ASSUME IsMap(part)
      PROVE  Opens(u, j) /\ Sub(u, j) = part.content /\ part.content \in JsonValue(NestedElements)
  BY <1>1, <1>4, ListOpens DEF PartElements
<1>5. ASSUME IsMap(part), IsStr(part.content)
      PROVE  /\ Points(p, <<s, i, j>>) /\ TextAt(p, <<s, i, j>>) = part.content.text
             /\ part.content.text \in Texts
  <2> DEFINE path == <<s, i, j>>
             w == part.content
  <2>1. Holds(w) /\ w.text \in Texts
    BY <1>4, <1>5, ValueType
  <2>2. /\ path \in Seq(Nat) /\ Len(path) = 3
        /\ path[1] = s /\ path[2] = i /\ path[3] = j
    BY <1>0, <1>1, <1>3, LongPaths
  <2>3. Opens(u, j) /\ Sub(u, j) = w
    BY <1>4, <1>5
  <2> HIDE DEF path, u, part, w
  <2>4. Leads3(w, path) /\ Read3(w, path) = w.text
    BY <2>1, <2>2 DEF Leads3, Read3
  <2>5. Leads2(u, path) /\ Read2(u, path) = w.text
    BY <2>2, <2>3, <2>4 DEF Leads2, Read2
  <2> HIDE DEF v
  <2>6. Leads1(v, path) /\ Read1(v, path) = w.text
    BY <1>1, <2>2, <2>5 DEF Leads1, Read1
  <2>7. Points(p, path) /\ TextAt(p, path) = w.text
    BY <1>0, <2>2, <2>6 DEF Points, TextAt, v
  <2>8. QED
    BY <2>1, <2>7 DEF path, w
<1>6. ASSUME IsMap(part), IsList(part.content), NEW k \in DOMAIN part.content.items
      PROVE  /\ part.content.items[k] \in NestedElements
             /\ IsMap(part.content.items[k]) /\ IsStr(part.content.items[k].content) =>
                   /\ Points(p, <<s, i, j, k>>)
                   /\ TextAt(p, <<s, i, j, k>>) = part.content.items[k].content.text
                   /\ part.content.items[k].content.text \in Texts
  <2> DEFINE w == part.content
             nested == w.items[k]
             x == nested.content
             path == <<s, i, j, k>>
  <2>1. w \in JsonValue(NestedElements) /\ w.items \in Seq(NestedElements)
    BY <1>4, <1>6, ValueType
  <2>2. nested \in NestedElements /\ k \in Nat
    <3> HIDE DEF u, part, w
    <3>1. k \in DOMAIN w.items
      BY <1>6 DEF w
    <3>2. QED
      BY <2>1, <3>1, SeqPlace
  <2>3. ASSUME IsMap(nested), IsStr(x)
        PROVE  /\ Points(p, path) /\ TextAt(p, path) = x.text /\ x.text \in Texts
    <3>1. Opens(w, k) /\ Sub(w, k) = x /\ x \in JsonValue({})
      BY <1>6, <2>1, <2>3, ListOpens DEF NestedElements
    <3>2. Holds(x) /\ x.text \in Texts
      BY <2>3, <3>1, ValueType
    <3>3. /\ path \in Seq(Nat) /\ Len(path) = 4
          /\ path[1] = s /\ path[2] = i /\ path[3] = j /\ path[4] = k
      BY <1>0, <1>1, <1>3, <2>2, LongPaths
    <3>4. Opens(u, j) /\ Sub(u, j) = w
      BY <1>4, <1>6
    <3> HIDE DEF path, u, part, w, nested, x
    <3>5. Leads4(x, path) /\ Read4(x, path) = x.text
      BY <3>2, <3>3 DEF Leads4, Read4
    <3>6. Leads3(w, path) /\ Read3(w, path) = x.text
      BY <3>1, <3>3, <3>5 DEF Leads3, Read3
    <3>7. Leads2(u, path) /\ Read2(u, path) = x.text
      BY <3>3, <3>4, <3>6 DEF Leads2, Read2
    <3> HIDE DEF v
    <3>8. Leads1(v, path) /\ Read1(v, path) = x.text
      BY <1>1, <3>3, <3>7 DEF Leads1, Read1
    <3>9. QED
      BY <1>0, <3>2, <3>3, <3>8 DEF Points, TextAt, v
  <2>4. QED
    BY <2>2, <2>3
<1>7. QED
  BY <1>1, <1>3, <1>5, <1>6

-----------------------------------------------------------------------------
(* The blocks of a payload: what a parser may return.                        *)

\* The turns a block may be in: the first, or that of an item.
Turns(p) == {0} \cup {i - 1 : i \in DOMAIN Items(p.value[Body])}

\* A block of p that has a path has its text there; it is of the turn of the item
\* the path goes through, and what the instructions hold is of kind system.
Sound(p) ==
    {b \in [kind : Kinds, turn : Turns(p), text : Texts, path : Seq(Nat)] :
        b.path # NoPath =>
           /\ Points(p, b.path) /\ TextAt(p, b.path) = b.text
           /\ b.path[1] = System => b.kind = "system"
           /\ b.path[1] = Body /\ Len(b.path) # 1 => b.turn = b.path[2] - 1}

LEMMA Turned ==
    ASSUME NEW p \in Payloads
    PROVE  /\ 0 \in Turns(p)
           /\ \A i \in DOMAIN Items(p.value[Body]) : i - 1 \in Turns(p)
           /\ Turns(p) \subseteq Nat
<1>1. Items(p.value[Body]) \in Seq(ItemElements)
  BY PayloadType, ValueType
<1>2. QED
  BY <1>1, SeqPlace DEF Turns

LEMMA NoBlocks ==
    ASSUME NEW S
    PROVE  /\ Nothing \in Findings(S) /\ Unsafe \in Findings(S) /\ Raises \in Findings(S)
           /\ Nothing.blocks = <<>> /\ Unsafe.blocks = <<>> /\ Raises.blocks = <<>>
           /\ Nothing.safe /\ ~Unsafe.safe /\ ~Nothing.raises /\ Raises.raises
<1>1. /\ Nothing = [blocks |-> <<>>, safe |-> TRUE, raises |-> FALSE]
      /\ Unsafe = [blocks |-> <<>>, safe |-> FALSE, raises |-> FALSE]
      /\ Raises = [blocks |-> <<>>, safe |-> TRUE, raises |-> TRUE]
  BY DEF Nothing, Unsafe, Raises
<1>2. <<>> \in Seq(S)
  OBVIOUS
<1>3. QED
  BY <1>1, <1>2 DEF Findings

LEMMA SafeIfType ==
    ASSUME NEW S, NEW parsed \in Findings(S), NEW ok \in BOOLEAN
    PROVE  /\ SafeIf(ok, parsed) \in Findings(S)
           /\ SafeIf(ok, parsed).blocks = parsed.blocks
           /\ SafeIf(ok, parsed).raises = parsed.raises
           /\ SafeIf(ok, parsed).safe = (parsed.safe /\ ok)
BY DEF SafeIf, Findings

LEMMA LeafIs ==
    ASSUME NEW S, NEW kind, NEW turn, NEW text, NEW path,
           [kind |-> kind, turn |-> turn, text |-> text, path |-> path] \in S
    PROVE  /\ Leaf(kind, turn, text, path) \in Findings(S)
           /\ Leaf(kind, turn, text, path).blocks
                = <<[kind |-> kind, turn |-> turn, text |-> text, path |-> path]>>
           /\ Leaf(kind, turn, text, path).safe /\ ~Leaf(kind, turn, text, path).raises
<1> DEFINE b == [kind |-> kind, turn |-> turn, text |-> text, path |-> path]
<1>1. Leaf(kind, turn, text, path) = [blocks |-> <<b>>, safe |-> TRUE, raises |-> FALSE]
  BY DEF Leaf
<1> HIDE DEF b
<1>2. <<b>> \in Seq(S)
  BY DEF b
<1>3. QED
  BY <1>1, <1>2 DEF Findings, b

\* A leaf nobody may write to, and a leaf at a path.
LEMMA LeafAlone ==
    ASSUME NEW p, NEW kind \in Kinds, NEW turn \in Turns(p), NEW text \in Texts
    PROVE  Leaf(kind, turn, text, NoPath) \in Findings(Sound(p))
<1>1. [kind |-> kind, turn |-> turn, text |-> text, path |-> NoPath] \in Sound(p)
  BY DEF Sound, NoPath
<1>2. QED
  BY <1>1, LeafIs

LEMMA LeafAt ==
    ASSUME NEW p, NEW kind \in Kinds, NEW turn \in Turns(p), NEW text \in Texts, NEW path,
           Points(p, path), TextAt(p, path) = text,
           path[1] = System => kind = "system",
           path[1] = Body /\ Len(path) # 1 => turn = path[2] - 1
    PROVE  Leaf(kind, turn, text, path) \in Findings(Sound(p))
<1>1. path \in Seq(Nat)
  BY DEF Points
<1>2. [kind |-> kind, turn |-> turn, text |-> text, path |-> path] \in Sound(p)
  BY <1>1 DEF Sound
<1>3. QED
  BY <1>2, LeafIs

LEMMA RoleKinds ==
    /\ \A role : KindForRole(role) \in Kinds
    /\ "system" \in Kinds /\ "user" \in Kinds /\ "assistant" \in Kinds /\ "tool_call" \in Kinds
    /\ "tool_schema" \in Kinds /\ "tool_output" \in Kinds /\ "protocol_state" \in Kinds
BY DEF KindForRole, Kinds, ProtocolKinds, EvidenceKinds

LEMMA JoinPlaces ==
    ASSUME NEW S, NEW E, NEW s \in Seq(E), NEW parsed, DOMAIN parsed = DOMAIN s,
           \A i \in DOMAIN s : parsed[i] \in Findings(S)
    PROVE  Join(parsed) \in Findings(S)
<1> DEFINE n == Len(s)
<1>1. n \in Nat /\ DOMAIN s = 1 .. n
  OBVIOUS
<1> HIDE DEF n
<1>2. QED
  BY <1>1, JoinType

LEMMA JoinThree ==
    ASSUME NEW S, NEW a \in Findings(S), NEW b \in Findings(S), NEW c \in Findings(S)
    PROVE  Join(<<a, b, c>>) \in Findings(S)
<1> DEFINE s == <<a, b, c>>
<1>1. DOMAIN s = 1 .. 3 /\ s[1] = a /\ s[2] = b /\ s[3] = c
  OBVIOUS
<1>2. \A i \in 1 .. 3 : s[i] \in Findings(S)
  BY <1>1
<1> HIDE DEF s
<1>3. Join(s) \in Findings(S)
  BY <1>1, <1>2, JoinType
<1>4. QED
  BY <1>3 DEF s

LEMMA JoinTwo ==
    ASSUME NEW S, NEW a \in Findings(S), NEW b \in Findings(S)
    PROVE  Join(<<a, b>>) \in Findings(S)
<1> DEFINE s == <<a, b>>
<1>1. DOMAIN s = 1 .. 2 /\ s[1] = a /\ s[2] = b
  OBVIOUS
<1>2. \A i \in 1 .. 2 : s[i] \in Findings(S)
  BY <1>1
<1> HIDE DEF s
<1>3. Join(s) \in Findings(S)
  BY <1>1, <1>2, JoinType
<1>4. QED
  BY <1>3 DEF s

LEMMA JoinFour ==
    ASSUME NEW S, NEW a \in Findings(S), NEW b \in Findings(S), NEW c \in Findings(S),
           NEW d \in Findings(S)
    PROVE  Join(<<a, b, c, d>>) \in Findings(S)
<1> DEFINE s == <<a, b, c, d>>
<1>1. DOMAIN s = 1 .. 4 /\ s[1] = a /\ s[2] = b /\ s[3] = c /\ s[4] = d
  OBVIOUS
<1>2. \A i \in 1 .. 4 : s[i] \in Findings(S)
  BY <1>1
<1> HIDE DEF s
<1>3. Join(s) \in Findings(S)
  BY <1>1, <1>2, JoinType
<1>4. QED
  BY <1>3 DEF s

-----------------------------------------------------------------------------
(* The tools.                                                                *)

LEMMA ToolBlocksSound ==
    ASSUME NEW p \in Payloads
    PROVE  ToolBlocks(p.tools) \in Findings(Sound(p))
<1> DEFINE s == Items(p.tools)
           parsed == [j \in DOMAIN s |-> Leaf("tool_schema", 0, p.tools.items[j].encoded, NoPath)]
<1>1. s \in Seq(ItemElements)
  BY PayloadType, ValueType
<1>2. ASSUME NEW j \in DOMAIN s PROVE parsed[j] \in Findings(Sound(p))
  <2>1. IsList(p.tools) /\ s = p.tools.items
    BY <1>2 DEF Items
  <2>2. s[j] \in ItemElements
    BY <1>1, SeqPlace
  <2>3. p.tools.items[j].encoded \in Texts
    BY <2>1, <2>2, ElementType DEF ItemElements
  <2>4. QED
    BY <2>3, LeafAlone, RoleKinds, Turned
<1>3. DOMAIN parsed = DOMAIN s
  OBVIOUS
<1>4. Join(parsed) \in Findings(Sound(p))
  <2> HIDE DEF s, parsed
  <2>1. QED
    BY <1>1, <1>2, <1>3, JoinPlaces
<1>5. QED
  BY <1>4 DEF ToolBlocks

LEMMA SchemaBlocksSound ==
    ASSUME NEW p \in Payloads, NEW refused
    PROVE  SchemaBlocks(p.tools, refused) \in Findings(Sound(p))
<1> DEFINE s == p.tools.items
           One(j) == IF IsMap(s[j])
                     THEN SafeIf(s[j].marks \cap refused = {},
                                 Leaf("tool_schema", 0, s[j].encoded, NoPath))
                     ELSE Unsafe
           parsed == [j \in DOMAIN s |-> One(j)]
<1>1. CASE IsList(p.tools)
  <2>1. s \in Seq(ItemElements)
    BY <1>1, PayloadType, ValueType
  <2>2. ASSUME NEW j \in DOMAIN s PROVE One(j) \in Findings(Sound(p))
    <3>1. s[j] \in ItemElements
      BY <2>1, SeqPlace
    <3>2. s[j].encoded \in Texts
      BY <3>1, ElementType DEF ItemElements
    <3>3. Leaf("tool_schema", 0, s[j].encoded, NoPath) \in Findings(Sound(p))
      BY <3>2, LeafAlone, RoleKinds, Turned
    <3>4. QED
      BY <3>3, SafeIfType, NoBlocks
  <2>3. Join(parsed) \in Findings(Sound(p))
    <3>1. DOMAIN parsed = DOMAIN s /\ \A j \in DOMAIN s : parsed[j] \in Findings(Sound(p))
      BY <2>2
    <3> HIDE DEF s, parsed
    <3>2. QED
      BY <2>1, <3>1, JoinPlaces
  <2>4. p.tools.is # "null"
    BY <1>1 DEF IsList
  <2>5. QED
    BY <1>1, <2>3, <2>4 DEF SchemaBlocks
<1>2. CASE ~IsList(p.tools)
  BY <1>2, NoBlocks DEF SchemaBlocks
<1>3. QED
  BY <1>1, <1>2

-----------------------------------------------------------------------------
(* Items, parts and nested parts.                                            *)

LEMMA ItemsOf ==
    ASSUME NEW p \in Payloads, IsList(p.value[Body])
    PROVE  /\ p.value[Body].items \in Seq(ItemElements)
           /\ \A i \in DOMAIN p.value[Body].items :
                 /\ i - 1 \in Turns(p) /\ 0 \in Turns(p) /\ i \in Nat
                 /\ p.value[Body].items[i] \in ItemElements
                 /\ p.value[Body].items[i].encoded \in Texts
                 /\ IsMap(p.value[Body].items[i])
                      => p.value[Body].items[i].content \in JsonValue(PartElements)
<1> DEFINE s == p.value[Body].items
<1>1. s \in Seq(ItemElements) /\ Items(p.value[Body]) = s
  BY PayloadType, ValueType DEF Items
<1>2. ASSUME NEW i \in DOMAIN s
      PROVE  /\ i - 1 \in Turns(p) /\ 0 \in Turns(p) /\ i \in Nat /\ s[i] \in ItemElements
             /\ s[i].encoded \in Texts
             /\ IsMap(s[i]) => s[i].content \in JsonValue(PartElements)
  <2>1. i - 1 \in Turns(p) /\ 0 \in Turns(p)
    BY <1>1, Turned
  <2>2. s[i] \in ItemElements /\ i \in Nat
    <3> HIDE DEF s
    <3>1. QED
      BY <1>1, SeqPlace
  <2>3. IsMap(s[i]) => s[i].content \in JsonValue(PartElements)
    BY <2>2, ElementType DEF ItemElements
  <2>4. s[i].encoded \in Texts
    BY <2>2, ElementType DEF ItemElements
  <2>5. QED
    BY <2>1, <2>2, <2>3, <2>4
<1>3. QED
  BY <1>1, <1>2

LEMMA ItemLeaf ==
    ASSUME NEW p \in Payloads, IsList(p.value[Body]), NEW i \in DOMAIN p.value[Body].items,
           IsMap(p.value[Body].items[i]), IsStr(p.value[Body].items[i].content),
           NEW kind \in Kinds
    PROVE  Leaf(kind, i - 1, p.value[Body].items[i].content.text, <<Body, i>>)
              \in Findings(Sound(p))
<1> DEFINE text == p.value[Body].items[i].content.text
           path == <<Body, i>>
<1>1. Points(p, path) /\ TextAt(p, path) = text /\ text \in Texts
  BY Paths12
<1>2. path[1] = Body /\ path[2] = i /\ Body # System
  BY DEF Body, System
<1>3. i - 1 \in Turns(p)
  BY ItemsOf
<1> HIDE DEF text, path
<1>4. Leaf(kind, i - 1, text, path) \in Findings(Sound(p))
  BY <1>1, <1>2, <1>3, LeafAt
<1>5. QED
  BY <1>4 DEF text, path

\* A part of an item, and an element nested in it.
LEMMA PartLeaf ==
    ASSUME NEW p \in Payloads, IsList(p.value[Body]), NEW i \in DOMAIN p.value[Body].items,
           IsMap(p.value[Body].items[i]), IsList(p.value[Body].items[i].content),
           NEW j \in DOMAIN p.value[Body].items[i].content.items,
           NEW kind \in Kinds
    PROVE  LET part == p.value[Body].items[i].content.items[j] IN
           /\ IsMap(part) /\ IsStr(part.content)
                => /\ Leaf(kind, i - 1, part.content.text, <<Body, i, j>>) \in Findings(Sound(p))
                   /\ Leaf(kind, i - 1, part.content.text, NoPath) \in Findings(Sound(p))
           /\ Leaf(kind, i - 1, part.encoded, NoPath) \in Findings(Sound(p))
           /\ IsMap(part) /\ IsList(part.content)
                => \A k \in DOMAIN part.content.items :
                      LET nested == part.content.items[k] IN
                      IsMap(nested) /\ IsStr(nested.content)
                         => /\ Leaf(kind, i - 1, nested.content.text, <<Body, i, j, k>>)
                                   \in Findings(Sound(p))
                            /\ Leaf(kind, i - 1, nested.content.text, NoPath)
                                   \in Findings(Sound(p))
<1> DEFINE part == p.value[Body].items[i].content.items[j]
<1>0. Body \in {System, Body} /\ Body # System /\ Body \in Nat
  BY DEF Body, System
<1>1. /\ i \in Nat /\ j \in Nat /\ part \in PartElements
      /\ IsMap(part) /\ IsStr(part.content) =>
            /\ Points(p, <<Body, i, j>>) /\ TextAt(p, <<Body, i, j>>) = part.content.text
            /\ part.content.text \in Texts
      /\ IsMap(part) /\ IsList(part.content) =>
            \A k \in DOMAIN part.content.items :
               LET nested == part.content.items[k] IN
               /\ nested \in NestedElements
               /\ IsMap(nested) /\ IsStr(nested.content) =>
                     /\ Points(p, <<Body, i, j, k>>)
                     /\ TextAt(p, <<Body, i, j, k>>) = nested.content.text
                     /\ nested.content.text \in Texts
  BY <1>0, Paths3
<1>2. i - 1 \in Turns(p)
  BY ItemsOf
<1>a. ASSUME NEW path, NEW text \in Texts, Points(p, path), TextAt(p, path) = text,
             path[1] = Body, path[2] = i
      PROVE  /\ Leaf(kind, i - 1, text, path) \in Findings(Sound(p))
             /\ Leaf(kind, i - 1, text, NoPath) \in Findings(Sound(p))
  BY <1>0, <1>2, <1>a, LeafAt, LeafAlone
<1>3. part.encoded \in Texts
  BY <1>1, ElementType DEF PartElements
<1>4. Leaf(kind, i - 1, part.encoded, NoPath) \in Findings(Sound(p))
  BY <1>2, <1>3, LeafAlone
<1>5. ASSUME IsMap(part), IsStr(part.content)
      PROVE  /\ Leaf(kind, i - 1, part.content.text, <<Body, i, j>>) \in Findings(Sound(p))
             /\ Leaf(kind, i - 1, part.content.text, NoPath) \in Findings(Sound(p))
  <2> DEFINE path == <<Body, i, j>>
             text == part.content.text
  <2>1. path[1] = Body /\ path[2] = i
    OBVIOUS
  <2>2. Points(p, path) /\ TextAt(p, path) = text /\ text \in Texts
    BY <1>1, <1>5
  <2> HIDE DEF path, text
  <2>3. Leaf(kind, i - 1, text, path) \in Findings(Sound(p)) /\ Leaf(kind, i - 1, text, NoPath) \in Findings(Sound(p))
    BY <1>a, <2>1, <2>2
  <2>4. QED
    BY <2>3 DEF path, text
<1>6. ASSUME IsMap(part), IsList(part.content), NEW k \in DOMAIN part.content.items,
             IsMap(part.content.items[k]), IsStr(part.content.items[k].content)
      PROVE  /\ Leaf(kind, i - 1, part.content.items[k].content.text, <<Body, i, j, k>>)
                   \in Findings(Sound(p))
             /\ Leaf(kind, i - 1, part.content.items[k].content.text, NoPath)
                   \in Findings(Sound(p))
  <2> DEFINE path == <<Body, i, j, k>>
             text == part.content.items[k].content.text
  <2>1. path[1] = Body /\ path[2] = i
    OBVIOUS
  <2>2. Points(p, path) /\ TextAt(p, path) = text /\ text \in Texts
    BY <1>1, <1>6
  <2> HIDE DEF path, text
  <2>3. Leaf(kind, i - 1, text, path) \in Findings(Sound(p)) /\ Leaf(kind, i - 1, text, NoPath) \in Findings(Sound(p))
    BY <1>a, <2>1, <2>2
  <2>4. QED
    BY <2>3 DEF path, text
<1>7. QED
  BY <1>4, <1>5, <1>6

\* The instructions, and the parts of them.
LEMMA SystemLeaf ==
    ASSUME NEW p \in Payloads
    PROVE  /\ IsStr(p.value[System])
                => Leaf("system", 0, p.value[System].text, <<System>>) \in Findings(Sound(p))
           /\ IsList(p.value[System])
                => /\ p.value[System].items \in Seq(ItemElements)
                   /\ \A j \in DOMAIN p.value[System].items :
                         LET part == p.value[System].items[j] IN
                         IsMap(part) /\ IsStr(part.content)
                           => /\ Leaf("system", 0, part.content.text, <<System, j>>)
                                    \in Findings(Sound(p))
                              /\ Leaf("system", 0, part.content.text, NoPath)
                                    \in Findings(Sound(p))
<1> DEFINE v == p.value[System]
<1>0. System \in {System, Body} /\ System # Body /\ "system" \in Kinds /\ 0 \in Turns(p)
  BY RoleKinds, Turned DEF Body, System
<1>a. ASSUME NEW path, NEW text \in Texts, Points(p, path), TextAt(p, path) = text,
             path[1] = System
      PROVE  /\ Leaf("system", 0, text, path) \in Findings(Sound(p))
             /\ Leaf("system", 0, text, NoPath) \in Findings(Sound(p))
  BY <1>0, <1>a, LeafAt, LeafAlone
<1>1. ASSUME IsStr(v) PROVE Leaf("system", 0, v.text, <<System>>) \in Findings(Sound(p))
  <2>1. /\ Points(p, <<System>>) /\ TextAt(p, <<System>>) = v.text /\ v.text \in Texts
        /\ <<System>>[1] = System
    BY <1>0, <1>1, Paths12
  <2>2. QED
    BY <1>a, <2>1
<1>2. ASSUME IsList(v), NEW j \in DOMAIN v.items, IsMap(v.items[j]), IsStr(v.items[j].content)
      PROVE  /\ Leaf("system", 0, v.items[j].content.text, <<System, j>>) \in Findings(Sound(p))
             /\ Leaf("system", 0, v.items[j].content.text, NoPath) \in Findings(Sound(p))
  <2> DEFINE text == v.items[j].content.text
             path == <<System, j>>
  <2>1. /\ Points(p, path) /\ TextAt(p, path) = text /\ text \in Texts /\ path[1] = System
    BY <1>0, <1>2, Paths12
  <2> HIDE DEF path, text
  <2>2. Leaf("system", 0, text, path) \in Findings(Sound(p)) /\ Leaf("system", 0, text, NoPath) \in Findings(Sound(p))
    BY <1>a, <2>1
  <2>3. QED
    BY <2>2 DEF path, text
<1>3. IsList(v) => v.items \in Seq(ItemElements)
  BY PayloadType, ValueType
<1>4. QED
  BY <1>1, <1>2, <1>3

-----------------------------------------------------------------------------
(* The parsers.                                                              *)

LEMMA TypedIsMap ==
    ASSUME NEW e, NEW types, IsText(e, types), "no object" \notin types
    PROVE  IsMap(e) /\ IsStr(e.content)
BY DEF IsText, TypeOf

\* What Content takes is found in the payload when its parts are.
LEMMA ContentSound ==
    ASSUME NEW p \in Payloads, IsList(p.value[Body]), NEW i \in DOMAIN p.value[Body].items,
           IsMap(p.value[Body].items[i]), NEW parts,
           IsList(p.value[Body].items[i].content) => Join(parts) \in Findings(Sound(p))
    PROVE  Content(p.value[Body].items[i], i, parts) \in Findings(Sound(p))
<1> DEFINE item == p.value[Body].items[i]
<1>1. CASE IsStr(item.content)
  <2>1. Leaf(KindForRole(item.role), i - 1, item.content.text, <<Body, i>>) \in Findings(Sound(p))
    BY <1>1, ItemLeaf, RoleKinds
  <2>2. Content(item, i, parts) = Leaf(KindForRole(item.role), i - 1, item.content.text, <<Body, i>>)
    BY <1>1 DEF Content, IsStr, IsList
  <2>3. QED
    BY <2>1, <2>2
<1>2. CASE IsList(item.content)
  BY <1>2 DEF Content, IsStr, IsList
<1>3. CASE ~IsStr(item.content) /\ ~IsList(item.content)
  <2>1. Content(item, i, parts) = SafeIf(item.content.is = "null", Nothing)
    BY <1>3 DEF Content
  <2>2. SafeIf(item.content.is = "null", Nothing) \in Findings(Sound(p))
    BY SafeIfType, NoBlocks
  <2>3. QED
    BY <2>1, <2>2
<1>4. QED
  BY <1>1, <1>2, <1>3

LEMMA ResponsesPartSound ==
    ASSUME NEW p \in Payloads, IsList(p.value[Body]), NEW i \in DOMAIN p.value[Body].items,
           IsMap(p.value[Body].items[i]), IsList(p.value[Body].items[i].content),
           NEW j \in DOMAIN p.value[Body].items[i].content.items, NEW kind \in Kinds
    PROVE  ResponsesPart(kind, i, j, p.value[Body].items[i].content.items[j])
              \in Findings(Sound(p))
<1> DEFINE part == p.value[Body].items[i].content.items[j]
<1>1. CASE IsText(part, {"input_text", "output_text", "text"})
  <2>1. IsMap(part) /\ IsStr(part.content)
    BY <1>1, TypedIsMap
  <2>2. Leaf(kind, i - 1, part.content.text, <<Body, i, j>>) \in Findings(Sound(p))
    BY <2>1, PartLeaf
  <2>3. ResponsesPart(kind, i, j, part) = Leaf(kind, i - 1, part.content.text, <<Body, i, j>>)
    BY <1>1 DEF ResponsesPart, IsText
  <2>4. QED
    BY <2>2, <2>3
<1>2. CASE ~IsText(part, {"input_text", "output_text", "text"})
  BY <1>2, NoBlocks DEF ResponsesPart
<1>3. QED
  BY <1>1, <1>2

LEMMA ResponsesItemSound ==
    ASSUME NEW p \in Payloads, IsList(p.value[Body]), NEW i \in DOMAIN p.value[Body].items
    PROVE  ResponsesItem(i, p.value[Body].items[i]) \in Findings(Sound(p))
<1> DEFINE item == p.value[Body].items[i]
           kind == KindForRole(item.role)
           One(j) == ResponsesPart(kind, i, j, item.content.items[j])
           parts == [j \in DOMAIN Items(item.content) |-> One(j)]
<1>0. kind \in Kinds
  BY RoleKinds
<1>1. ASSUME IsMap(item), IsList(item.content)
      PROVE  Join(parts) \in Findings(Sound(p))
  <2>1. Items(item.content) \in Seq(PartElements) /\ Items(item.content) = item.content.items
    BY <1>1, ItemsOf, ValueType DEF Items
  <2>2. ASSUME NEW j \in DOMAIN item.content.items PROVE One(j) \in Findings(Sound(p))
    BY <1>0, <1>1, ResponsesPartSound
  <2>3. DOMAIN parts = DOMAIN Items(item.content)
        /\ \A j \in DOMAIN Items(item.content) : parts[j] \in Findings(Sound(p))
    BY <2>1, <2>2
  <2> HIDE DEF parts
  <2>4. QED
    BY <2>1, <2>3, JoinPlaces
<1>2. CASE TypeOf(item) = "function_call_output"
  <2>1. IsMap(item)
    BY <1>2 DEF TypeOf
  <2>2. IsStr(item.content)
          => Leaf("tool_output", i - 1, item.content.text, <<Body, i>>) \in Findings(Sound(p))
    BY <2>1, ItemLeaf, RoleKinds
  <2>3. QED
    BY <1>2, <2>2, NoBlocks DEF ResponsesItem
<1>3. CASE TypeOf(item) = "function_call"
  <2>1. Leaf("tool_call", 0, item.encoded, NoPath) \in Findings(Sound(p))
    BY ItemsOf, LeafAlone, RoleKinds
  <2>2. QED
    BY <1>3, <2>1 DEF ResponsesItem
<1>4. CASE TypeOf(item) \notin {"function_call_output", "function_call"}
  <2>1. CASE ~HasRole(item)
    BY <1>4, <2>1, NoBlocks DEF ResponsesItem
  <2>2. CASE HasRole(item)
    <3>1. IsMap(item)
      BY <2>2 DEF HasRole, RoleOf
    <3>2. Content(item, i, parts) \in Findings(Sound(p))
      <4> HIDE DEF parts
      <4>1. QED
        BY <1>1, <3>1, ContentSound
    <3>3. ResponsesItem(i, item) = Content(item, i, parts)
      BY <1>4, <2>2 DEF ResponsesItem
    <3>4. QED
      BY <3>2, <3>3
  <2>3. QED
    BY <2>1, <2>2
<1>5. QED
  BY <1>2, <1>3, <1>4

\* The findings of the items are the findings of the list.
LEMMA ItemsSound ==
    ASSUME NEW p \in Payloads, IsList(p.value[Body]), NEW found,
           DOMAIN found = DOMAIN p.value[Body].items,
           \A i \in DOMAIN p.value[Body].items : found[i] \in Findings(Sound(p))
    PROVE  Join(found) \in Findings(Sound(p))
BY ItemsOf, JoinPlaces

LEMMA ResponsesSound ==
    ASSUME NEW p \in Payloads
    PROVE  Responses(p) \in Findings(Sound(p))
<1> DEFINE input == p.value[Body]
           instructions == p.value[System]
           found == [i \in DOMAIN input.items |-> ResponsesItem(i, input.items[i])]
           a == IF IsStr(instructions)
                THEN Leaf("system", 0, instructions.text, <<System>>)
                ELSE SafeIf(instructions.is = "null", Nothing)
           c == CASE IsStr(input) -> Leaf("user", 0, input.text, <<Body>>)
                  [] IsList(input) -> Join(found)
                  [] OTHER -> SafeIf(input.is = "null", Nothing)
<1>1. a \in Findings(Sound(p))
  BY SystemLeaf, SafeIfType, NoBlocks
<1>2. CASE IsStr(input)
  <2>1. /\ Points(p, <<Body>>) /\ TextAt(p, <<Body>>) = input.text /\ input.text \in Texts
        /\ <<Body>>[1] = Body /\ Len(<<Body>>) = 1 /\ Body # System
    BY <1>2, Paths12 DEF Body, System
  <2>2. Leaf("user", 0, input.text, <<Body>>) \in Findings(Sound(p))
    BY <2>1, LeafAt, Turned, RoleKinds
  <2>3. c = Leaf("user", 0, input.text, <<Body>>)
    BY <1>2 DEF IsStr, IsList
  <2> HIDE DEF c
  <2>4. c \in Findings(Sound(p))
    BY <2>2, <2>3
  <2>5. QED
    BY <1>1, <2>4, ToolBlocksSound, JoinThree DEF Responses, c
<1>3. CASE IsList(input)
  <2>1. Join(found) \in Findings(Sound(p))
    <3>1. /\ DOMAIN found = DOMAIN input.items
          /\ \A i \in DOMAIN input.items : found[i] \in Findings(Sound(p))
      BY <1>3, ResponsesItemSound
    <3> HIDE DEF found
    <3>2. QED
      BY <1>3, <3>1, ItemsSound
  <2>2. c = Join(found)
    BY <1>3 DEF IsStr, IsList
  <2>3. c \in Findings(Sound(p))
    BY <2>1, <2>2
  <2>4. QED
    BY <1>1, <2>3, ToolBlocksSound, JoinThree DEF Responses
<1>4. CASE ~IsStr(input) /\ ~IsList(input)
  <2>1. c = SafeIf(input.is = "null", Nothing)
    BY <1>4
  <2>a. SafeIf(input.is = "null", Nothing) \in Findings(Sound(p))
    BY SafeIfType, NoBlocks
  <2>2. c \in Findings(Sound(p))
    <3> HIDE DEF c
    <3>1. QED
      BY <2>1, <2>a
  <2>3. QED
    BY <1>1, <2>2, ToolBlocksSound, JoinThree DEF Responses
<1>5. QED
  BY <1>2, <1>3, <1>4

LEMMA ChatPartSound ==
    ASSUME NEW p \in Payloads, IsList(p.value[Body]), NEW i \in DOMAIN p.value[Body].items,
           IsMap(p.value[Body].items[i]), IsList(p.value[Body].items[i].content),
           NEW j \in DOMAIN p.value[Body].items[i].content.items, NEW kind \in Kinds
    PROVE  ChatPart(kind, i, j, p.value[Body].items[i].content.items[j]) \in Findings(Sound(p))
<1> DEFINE part == p.value[Body].items[i].content.items[j]
<1>1. CASE IsText(part, {"text"})
  <2>1. IsMap(part) /\ IsStr(part.content)
    BY <1>1, TypedIsMap
  <2>2. Leaf(kind, i - 1, part.content.text, <<Body, i, j>>) \in Findings(Sound(p))
    BY <2>1, PartLeaf
  <2>3. QED
    BY <1>1, <2>2 DEF ChatPart
<1>2. CASE ~IsText(part, {"text"})
  BY <1>2, NoBlocks DEF ChatPart
<1>3. QED
  BY <1>1, <1>2

LEMMA ChatMessageSound ==
    ASSUME NEW p \in Payloads, IsList(p.value[Body]), NEW i \in DOMAIN p.value[Body].items
    PROVE  ChatMessage(i, p.value[Body].items[i]) \in Findings(Sound(p))
<1> DEFINE message == p.value[Body].items[i]
           kind == KindForRole(message.role)
           One(j) == ChatPart(kind, i, j, message.content.items[j])
           parts == [j \in DOMAIN Items(message.content) |-> One(j)]
<1>0. kind \in Kinds
  BY RoleKinds
<1>1. ASSUME IsMap(message), IsList(message.content)
      PROVE  Join(parts) \in Findings(Sound(p))
  <2>1. /\ Items(message.content) \in Seq(PartElements)
        /\ Items(message.content) = message.content.items
    BY <1>1, ItemsOf, ValueType DEF Items
  <2>2. ASSUME NEW j \in DOMAIN message.content.items PROVE One(j) \in Findings(Sound(p))
    BY <1>0, <1>1, ChatPartSound
  <2>3. DOMAIN parts = DOMAIN Items(message.content)
        /\ \A j \in DOMAIN Items(message.content) : parts[j] \in Findings(Sound(p))
    BY <2>1, <2>2
  <2> HIDE DEF parts
  <2>4. QED
    BY <2>1, <2>3, JoinPlaces
<1>2. CASE ~HasRole(message)
  BY <1>2, NoBlocks DEF ChatMessage
<1>3. CASE HasRole(message)
  <2> DEFINE a == Content(message, i, parts)
             b == CASE "calls" \in message.marks ->
                           Leaf("tool_call", i - 1, message.encoded, NoPath)
                    [] OTHER -> SafeIf("bad_calls" \notin message.marks, Nothing)
  <2>1. IsMap(message)
    BY <1>3 DEF HasRole, RoleOf
  <2>2. a \in Findings(Sound(p))
    <3> HIDE DEF parts
    <3>1. QED
      BY <1>1, <2>1, ContentSound
  <2>3. Leaf("tool_call", i - 1, message.encoded, NoPath) \in Findings(Sound(p))
    BY ItemsOf, LeafAlone, RoleKinds
  <2>4. SafeIf("bad_calls" \notin message.marks, Nothing) \in Findings(Sound(p))
    BY SafeIfType, NoBlocks
  <2>5. b \in Findings(Sound(p))
    BY <2>3, <2>4
  <2>6. ChatMessage(i, message) = Join(<<a, b>>)
    BY <1>3 DEF ChatMessage
  <2> HIDE DEF a, b
  <2>7. QED
    BY <2>2, <2>5, <2>6, JoinTwo
<1>4. QED
  BY <1>2, <1>3

LEMMA ChatCompletionsSound ==
    ASSUME NEW p \in Payloads
    PROVE  ChatCompletions(p) \in Findings(Sound(p))
<1> DEFINE input == p.value[Body]
           found == [i \in DOMAIN input.items |-> ChatMessage(i, input.items[i])]
<1>1. ASSUME IsList(input) PROVE Join(found) \in Findings(Sound(p))
  <2>1. /\ DOMAIN found = DOMAIN input.items
        /\ \A i \in DOMAIN input.items : found[i] \in Findings(Sound(p))
    BY <1>1, ChatMessageSound
  <2> HIDE DEF found
  <2>2. QED
    BY <1>1, <2>1, ItemsSound
<1>2. (IF IsList(input) THEN Join(found) ELSE Unsafe) \in Findings(Sound(p))
  BY <1>1, NoBlocks
<1>3. QED
  BY <1>2, ToolBlocksSound, JoinTwo DEF ChatCompletions

\* Quotable returns its text with or without its path.
LEMMA QuotableSound ==
    ASSUME NEW S, NEW part, NEW ok \in BOOLEAN, NEW kind, NEW turn, NEW path,
           Leaf(kind, turn, part.content.text, path) \in Findings(S),
           Leaf(kind, turn, part.content.text, NoPath) \in Findings(S)
    PROVE  Quotable(part, ok, kind, turn, path) \in Findings(S)
<1> DEFINE free == ok /\ ~Cited(part)
<1>1. free \in BOOLEAN
  OBVIOUS
<1>2. Quotable(part, ok, kind, turn, path)
        = SafeIf(free, Leaf(kind, turn, part.content.text, IF free THEN path ELSE NoPath))
  BY DEF Quotable
<1> HIDE DEF free
<1>3. Leaf(kind, turn, part.content.text, IF free THEN path ELSE NoPath) \in Findings(S)
  BY <1>1
<1>4. QED
  BY <1>1, <1>2, <1>3, SafeIfType

LEMMA AnthropicSystemSound ==
    ASSUME NEW p \in Payloads
    PROVE  AnthropicSystem(p.value[System]) \in Findings(Sound(p))
<1> DEFINE system == p.value[System]
           One(j) == IF IsText(system.items[j], {"text"})
                     THEN Quotable(system.items[j], TRUE, "system", 0, <<System, j>>)
                     ELSE Unsafe
           found == [j \in DOMAIN system.items |-> One(j)]
<1>1. CASE IsStr(system)
  <2>1. AnthropicSystem(system) = Leaf("system", 0, system.text, <<System>>)
    BY <1>1 DEF AnthropicSystem, IsStr, IsList
  <2>2. QED
    BY <1>1, <2>1, SystemLeaf
<1>2. CASE IsList(system)
  <2>1. AnthropicSystem(system) = Join(found)
    BY <1>2 DEF AnthropicSystem, IsStr, IsList
  <2>2. ASSUME NEW j \in DOMAIN system.items PROVE One(j) \in Findings(Sound(p))
    <3> DEFINE part == system.items[j]
    <3>1. CASE IsText(part, {"text"})
      <4>1. IsMap(part) /\ IsStr(part.content)
        BY <3>1, TypedIsMap
      <4>2. /\ Leaf("system", 0, part.content.text, <<System, j>>) \in Findings(Sound(p))
            /\ Leaf("system", 0, part.content.text, NoPath) \in Findings(Sound(p))
        BY <1>2, <4>1, SystemLeaf
      <4>3. Quotable(part, TRUE, "system", 0, <<System, j>>) \in Findings(Sound(p))
        BY <4>2, QuotableSound
      <4>4. QED
        BY <3>1, <4>3
    <3>2. CASE ~IsText(part, {"text"})
      BY <3>2, NoBlocks
    <3>3. QED
      BY <3>1, <3>2
  <2>3. system.items \in Seq(ItemElements)
    BY <1>2, SystemLeaf
  <2>4. DOMAIN found = DOMAIN system.items /\ \A j \in DOMAIN system.items : found[j] \in Findings(Sound(p))
    BY <2>2
  <2> HIDE DEF found
  <2>5. QED
    BY <2>1, <2>3, <2>4, JoinPlaces
<1>3. CASE ~IsStr(system) /\ ~IsList(system)
  BY <1>3, NoBlocks DEF AnthropicSystem
<1>4. QED
  BY <1>1, <1>2, <1>3

LEMMA AnthropicToolResultSound ==
    ASSUME NEW p \in Payloads, IsList(p.value[Body]), NEW i \in DOMAIN p.value[Body].items,
           IsMap(p.value[Body].items[i]), IsList(p.value[Body].items[i].content),
           NEW j \in DOMAIN p.value[Body].items[i].content.items, NEW role,
           IsMap(p.value[Body].items[i].content.items[j])
    PROVE  AnthropicToolResult(i, j, role, p.value[Body].items[i].content.items[j])
              \in Findings(Sound(p))
<1> DEFINE part == p.value[Body].items[i].content.items[j]
           w == part.content
           valid == role = "user" /\ "invalid" \notin part.marks
           Nested(k, nested) ==
              IF IsText(nested, {"text"})
              THEN Quotable(nested, valid, "tool_output", i - 1, <<Body, i, j, k>>)
              ELSE Unsafe
           found == [k \in DOMAIN w.items |-> Nested(k, w.items[k])]
<1>0. valid \in BOOLEAN /\ "tool_output" \in Kinds
  BY RoleKinds
<1>a. part \in PartElements /\ w \in JsonValue(NestedElements)
  <2>1. Body \in {System, Body}
    OBVIOUS
  <2>2. part \in PartElements
    BY <2>1, Paths3
  <2>3. QED
    BY <2>2, ElementType DEF PartElements
<1>1. CASE IsStr(w)
  <2>1. AnthropicToolResult(i, j, role, part)
          = SafeIf(valid, Leaf("tool_output", i - 1, w.text, IF valid THEN <<Body, i, j>> ELSE NoPath))
    BY <1>1 DEF AnthropicToolResult, IsStr, IsList
  <2>2. /\ Leaf("tool_output", i - 1, w.text, <<Body, i, j>>) \in Findings(Sound(p))
        /\ Leaf("tool_output", i - 1, w.text, NoPath) \in Findings(Sound(p))
    BY <1>0, <1>1, PartLeaf
  <2> HIDE DEF valid, w, part
  <2>3. Leaf("tool_output", i - 1, w.text, IF valid THEN <<Body, i, j>> ELSE NoPath)
           \in Findings(Sound(p))
    BY <1>0, <2>2
  <2>4. QED
    BY <1>0, <2>1, <2>3, SafeIfType DEF part
<1>2. CASE IsList(w)
  <2>1. AnthropicToolResult(i, j, role, part) = SafeIf(valid, Join(found))
    BY <1>2 DEF AnthropicToolResult, IsStr, IsList
  <2>2. ASSUME NEW k \in DOMAIN w.items PROVE Nested(k, w.items[k]) \in Findings(Sound(p))
    <3> DEFINE nested == w.items[k]
    <3>1. CASE IsText(nested, {"text"})
      <4>1. IsMap(nested) /\ IsStr(nested.content)
        BY <3>1, TypedIsMap
      <4>2. /\ Leaf("tool_output", i - 1, nested.content.text, <<Body, i, j, k>>) \in Findings(Sound(p))
            /\ Leaf("tool_output", i - 1, nested.content.text, NoPath) \in Findings(Sound(p))
        BY <1>0, <1>2, <4>1, PartLeaf
      <4>3. Quotable(nested, valid, "tool_output", i - 1, <<Body, i, j, k>>) \in Findings(Sound(p))
        <5> HIDE DEF valid, nested
        <5>1. QED
          BY <1>0, <4>2, QuotableSound
      <4>4. QED
        BY <3>1, <4>3
    <3>2. CASE ~IsText(nested, {"text"})
      BY <3>2, NoBlocks
    <3>3. QED
      BY <3>1, <3>2
  <2>3. w.items \in Seq(NestedElements)
    BY <1>2, <1>a, ValueType
  <2>4. DOMAIN found = DOMAIN w.items /\ \A k \in DOMAIN w.items : found[k] \in Findings(Sound(p))
    BY <2>2
  <2>5. Join(found) \in Findings(Sound(p))
    <3> HIDE DEF found, w
    <3>1. QED
      BY <2>3, <2>4, JoinPlaces
  <2>6. QED
    <3> HIDE DEF found, valid
    <3>1. QED
      BY <1>0, <2>1, <2>5, SafeIfType
<1>3. CASE ~IsStr(w) /\ ~IsList(w)
  BY <1>3, NoBlocks DEF AnthropicToolResult
<1>4. QED
  BY <1>1, <1>2, <1>3

LEMMA AnthropicPartSound ==
    ASSUME NEW p \in Payloads, IsList(p.value[Body]), NEW i \in DOMAIN p.value[Body].items,
           IsMap(p.value[Body].items[i]), IsList(p.value[Body].items[i].content),
           NEW j \in DOMAIN p.value[Body].items[i].content.items, NEW role \in {"user", "assistant"}
    PROVE  AnthropicPart(i, j, role, p.value[Body].items[i].content.items[j])
              \in Findings(Sound(p))
<1> DEFINE part == p.value[Body].items[i].content.items[j]
<1>0. /\ role \in Kinds /\ "tool_call" \in Kinds /\ "protocol_state" \in Kinds
      /\ TypeOf(part) # "no object" => IsMap(part)
  BY RoleKinds DEF TypeOf
<1>a. ASSUME NEW kind \in Kinds PROVE Leaf(kind, i - 1, part.encoded, NoPath) \in Findings(Sound(p))
  BY PartLeaf
<1>1. CASE TypeOf(part) = "text"
  <2>1. CASE IsStr(part.content)
    <3>1. /\ Leaf(role, i - 1, part.content.text, <<Body, i, j>>) \in Findings(Sound(p))
          /\ Leaf(role, i - 1, part.content.text, NoPath) \in Findings(Sound(p))
      BY <1>0, <1>1, <2>1, PartLeaf
    <3>2. Quotable(part, TRUE, role, i - 1, <<Body, i, j>>) \in Findings(Sound(p))
      BY <3>1, QuotableSound
    <3>3. AnthropicPart(i, j, role, part) = Quotable(part, TRUE, role, i - 1, <<Body, i, j>>)
      BY <1>1, <2>1 DEF AnthropicPart
    <3>4. QED
      BY <3>2, <3>3
  <2>2. CASE ~IsStr(part.content)
    BY <1>1, <2>2, NoBlocks DEF AnthropicPart
  <2>3. QED
    BY <2>1, <2>2
<1>2. CASE TypeOf(part) = "tool_use"
  <2> DEFINE ok == role = "assistant" /\ "invalid" \notin part.marks
  <2>1. AnthropicPart(i, j, role, part) = SafeIf(ok, Leaf("tool_call", i - 1, part.encoded, NoPath))
    BY <1>2 DEF AnthropicPart
  <2>2. ok \in BOOLEAN
    OBVIOUS
  <2>3. Leaf("tool_call", i - 1, part.encoded, NoPath) \in Findings(Sound(p))
    BY <1>0, <1>a
  <2> HIDE DEF ok
  <2>4. QED
    BY <2>1, <2>2, <2>3, SafeIfType
<1>3. CASE TypeOf(part) = "tool_result"
  <2>1. AnthropicPart(i, j, role, part) = AnthropicToolResult(i, j, role, part)
    BY <1>3 DEF AnthropicPart
  <2>2. IsMap(part)
    BY <1>0, <1>3
  <2>3. QED
    BY <2>1, <2>2, AnthropicToolResultSound
<1>4. CASE TypeOf(part) \in {"thinking", "redacted_thinking"}
  <2>1. AnthropicPart(i, j, role, part) = SafeIf(FALSE, Leaf("protocol_state", i - 1, part.encoded, NoPath))
    BY <1>4 DEF AnthropicPart
  <2>2. QED
    BY <1>0, <1>a, <2>1, SafeIfType
<1>5. CASE TypeOf(part) \notin {"text", "tool_use", "tool_result", "thinking", "redacted_thinking"}
  BY <1>5, NoBlocks DEF AnthropicPart
<1>6. QED
  BY <1>1, <1>2, <1>3, <1>4, <1>5

LEMMA AnthropicMessageSound ==
    ASSUME NEW p \in Payloads, IsList(p.value[Body]), NEW i \in DOMAIN p.value[Body].items
    PROVE  AnthropicMessage(i, p.value[Body].items[i]) \in Findings(Sound(p))
<1> DEFINE message == p.value[Body].items[i]
           found == [j \in DOMAIN message.content.items |->
                        AnthropicPart(i, j, message.role, message.content.items[j])]
<1>1. CASE RoleOf(message) \in {"user", "assistant"}
  <2>1. IsMap(message) /\ message.role \in {"user", "assistant"} /\ message.role \in Kinds
    BY <1>1, RoleKinds DEF RoleOf
  <2>2. CASE IsStr(message.content)
    <3>1. AnthropicMessage(i, message) = Leaf(message.role, i - 1, message.content.text, <<Body, i>>)
      BY <1>1, <2>2 DEF AnthropicMessage, IsStr, IsList
    <3>2. QED
      BY <2>1, <2>2, <3>1, ItemLeaf
  <2>3. CASE IsList(message.content)
    <3>1. AnthropicMessage(i, message) = Join(found)
      BY <1>1, <2>3 DEF AnthropicMessage, IsStr, IsList
    <3>2. message.content.items \in Seq(PartElements)
      BY <2>1, <2>3, ItemsOf, ValueType
    <3>3. /\ DOMAIN found = DOMAIN message.content.items
          /\ \A j \in DOMAIN message.content.items : found[j] \in Findings(Sound(p))
      BY <2>1, <2>3, AnthropicPartSound
    <3> HIDE DEF found
    <3>4. Join(found) \in Findings(Sound(p))
      BY <3>2, <3>3, JoinPlaces
    <3>5. QED
      BY <3>1, <3>4
  <2>4. CASE ~IsStr(message.content) /\ ~IsList(message.content)
    BY <1>1, <2>4, NoBlocks DEF AnthropicMessage
  <2>5. QED
    BY <2>2, <2>3, <2>4
<1>2. CASE RoleOf(message) \notin {"user", "assistant"}
  BY <1>2, NoBlocks DEF AnthropicMessage
<1>3. QED
  BY <1>1, <1>2

LEMMA AnthropicMessagesSound ==
    ASSUME NEW p \in Payloads
    PROVE  AnthropicMessages(p) \in Findings(Sound(p))
<1> DEFINE input == p.value[Body]
           found == [i \in DOMAIN input.items |-> AnthropicMessage(i, input.items[i])]
<1>1. ASSUME IsList(input) PROVE Join(found) \in Findings(Sound(p))
  <2>1. /\ DOMAIN found = DOMAIN input.items
        /\ \A i \in DOMAIN input.items : found[i] \in Findings(Sound(p))
    BY <1>1, AnthropicMessageSound
  <2> HIDE DEF found
  <2>2. QED
    BY <1>1, <2>1, ItemsSound
<1>2. (IF IsList(input) THEN Join(found) ELSE Unsafe) \in Findings(Sound(p))
  BY <1>1, NoBlocks
<1>3. QED
  BY <1>2, AnthropicSystemSound, SchemaBlocksSound, JoinThree DEF AnthropicMessages

LEMMA GeminiSystemSound ==
    ASSUME NEW p \in Payloads
    PROVE  GeminiSystem(p.value[System]) \in Findings(Sound(p))
<1> DEFINE system == p.value[System]
           One(j) == IF Pure(system.items[j])
                     THEN Leaf("system", 0, system.items[j].content.text, <<System, j>>)
                     ELSE Unsafe
           found == [j \in DOMAIN system.items |-> One(j)]
<1>1. CASE IsList(system) /\ system.items # <<>>
  <2>1. GeminiSystem(system) = Join(found)
    BY <1>1 DEF GeminiSystem, IsList
  <2>2. ASSUME NEW j \in DOMAIN system.items PROVE One(j) \in Findings(Sound(p))
    <3> DEFINE part == system.items[j]
    <3>1. CASE Pure(part)
      <4>1. IsMap(part) /\ IsStr(part.content)
        BY <3>1, TypedIsMap DEF Pure
      <4>2. Leaf("system", 0, part.content.text, <<System, j>>) \in Findings(Sound(p))
        BY <1>1, <4>1, SystemLeaf
      <4>3. QED
        BY <3>1, <4>2
    <3>2. CASE ~Pure(part)
      BY <3>2, NoBlocks
    <3>3. QED
      BY <3>1, <3>2
  <2>3. system.items \in Seq(ItemElements)
    BY <1>1, SystemLeaf
  <2>4. DOMAIN found = DOMAIN system.items /\ \A j \in DOMAIN system.items : found[j] \in Findings(Sound(p))
    BY <2>2
  <2> HIDE DEF found
  <2>5. Join(found) \in Findings(Sound(p))
    BY <2>3, <2>4, JoinPlaces
  <2>6. QED
    BY <2>1, <2>5
<1>2. CASE ~(IsList(system) /\ system.items # <<>>)
  BY <1>2, NoBlocks DEF GeminiSystem
<1>3. QED
  BY <1>1, <1>2

LEMMA GeminiPartSound ==
    ASSUME NEW p \in Payloads, IsList(p.value[Body]), NEW i \in DOMAIN p.value[Body].items,
           IsMap(p.value[Body].items[i]), IsList(p.value[Body].items[i].content),
           NEW j \in DOMAIN p.value[Body].items[i].content.items, NEW role
    PROVE  GeminiPart(i, j, role, p.value[Body].items[i].content.items[j]) \in Findings(Sound(p))
<1> DEFINE part == p.value[Body].items[i].content.items[j]
<1>a. ASSUME NEW kind \in Kinds PROVE Leaf(kind, i - 1, part.encoded, NoPath) \in Findings(Sound(p))
  BY PartLeaf
<1>1. CASE TypeOf(part) = "thought"
  <2>1. GeminiPart(i, j, role, part) = SafeIf(FALSE, Leaf("protocol_state", i - 1, part.encoded, NoPath))
    BY <1>1 DEF GeminiPart
  <2>2. QED
    BY <1>a, <2>1, SafeIfType, RoleKinds
<1>2. CASE TypeOf(part) = "text"
  <2> DEFINE kind == IF role = "model" THEN "assistant" ELSE "user"
  <2>1. CASE role \in {"user", "model"} /\ Pure(part)
    <3>1. GeminiPart(i, j, role, part) = Leaf(kind, i - 1, part.content.text, <<Body, i, j>>)
      BY <1>2, <2>1 DEF GeminiPart
    <3>2. IsMap(part) /\ IsStr(part.content)
      BY <2>1, TypedIsMap DEF Pure
    <3>3. kind \in Kinds
      BY RoleKinds
    <3> HIDE DEF kind
    <3>4. QED
      BY <3>1, <3>2, <3>3, PartLeaf
  <2>2. CASE ~(role \in {"user", "model"} /\ Pure(part))
    BY <1>2, <2>2, NoBlocks DEF GeminiPart
  <2>3. QED
    BY <2>1, <2>2
<1>3. CASE TypeOf(part) = "functionCall"
  <2> DEFINE ok == role = "model" /\ part.marks \cap {"extra", "invalid"} = {}
  <2>1. GeminiPart(i, j, role, part) = SafeIf(ok, Leaf("tool_call", i - 1, part.encoded, NoPath))
    BY <1>3 DEF GeminiPart
  <2>2. ok \in BOOLEAN
    OBVIOUS
  <2>3. Leaf("tool_call", i - 1, part.encoded, NoPath) \in Findings(Sound(p))
    BY <1>a, RoleKinds
  <2> HIDE DEF ok
  <2>4. QED
    BY <2>1, <2>2, <2>3, SafeIfType
<1>4. CASE TypeOf(part) = "functionResponse"
  <2> DEFINE kind == IF /\ role \in {"user", "function"}
                        /\ part.marks \cap {"extra", "invalid"} = {}
                     THEN "tool_output" ELSE "protocol_state"
  <2>1. GeminiPart(i, j, role, part) = SafeIf(FALSE, Leaf(kind, i - 1, part.encoded, NoPath))
    BY <1>4 DEF GeminiPart
  <2>2. kind \in Kinds
    BY RoleKinds
  <2> HIDE DEF kind
  <2>3. Leaf(kind, i - 1, part.encoded, NoPath) \in Findings(Sound(p))
    BY <1>a, <2>2
  <2>4. QED
    BY <2>1, <2>3, SafeIfType
<1>5. CASE TypeOf(part) \notin {"thought", "text", "functionCall", "functionResponse"}
  BY <1>5, NoBlocks DEF GeminiPart
<1>6. QED
  BY <1>1, <1>2, <1>3, <1>4, <1>5

LEMMA GeminiContentSound ==
    ASSUME NEW p \in Payloads, IsList(p.value[Body]), NEW i \in DOMAIN p.value[Body].items
    PROVE  GeminiContent(i, p.value[Body].items[i]) \in Findings(Sound(p))
<1> DEFINE content == p.value[Body].items[i]
           parts == content.content.items
           roleless == \A j \in DOMAIN parts : Pure(parts[j])
           role == IF content.role = "none" THEN "user" ELSE content.role
           found == [j \in DOMAIN parts |-> GeminiPart(i, j, role, parts[j])]
<1>1. CASE ~IsMap(content) \/ ~IsList(content.content)
  BY <1>1, NoBlocks DEF GeminiContent
<1>2. CASE IsMap(content) /\ IsList(content.content)
  <2>1. parts \in Seq(PartElements)
    BY <1>2, ItemsOf, ValueType
  <2>2. DOMAIN found = DOMAIN parts /\ \A j \in DOMAIN parts : found[j] \in Findings(Sound(p))
    BY <1>2, GeminiPartSound
  <2>3. Join(found) \in Findings(Sound(p))
    <3> HIDE DEF found, parts
    <3>1. QED
      BY <2>1, <2>2, JoinPlaces
  <2>4. GeminiContent(i, content)
          = CASE parts = <<>> -> Unsafe
              [] parts # <<>> /\ content.role = "none" /\ ~roleless -> Unsafe
              [] parts # <<>> /\ role = "unhashable" -> Raises
              [] parts # <<>> /\ role \in {"user", "model", "function"}
                 /\ (content.role = "none" => roleless) -> Join(found)
              [] OTHER -> Unsafe
    BY <1>2 DEF GeminiContent
  <2> HIDE DEF found, roleless, role, parts
  <2>5. QED
    BY <2>3, <2>4, NoBlocks
<1>3. QED
  BY <1>1, <1>2

LEMMA GeminiGenerateContentSound ==
    ASSUME NEW p \in Payloads
    PROVE  GeminiGenerateContent(p) \in Findings(Sound(p))
<1> DEFINE contents == p.value[Body]
           found == [i \in DOMAIN contents.items |-> GeminiContent(i, contents.items[i])]
           last == IF ~IsList(contents) THEN Unsafe ELSE SafeIf(contents.items # <<>>, Join(found))
<1>1. ASSUME IsList(contents) PROVE Join(found) \in Findings(Sound(p))
  <2>1. /\ DOMAIN found = DOMAIN contents.items
        /\ \A i \in DOMAIN contents.items : found[i] \in Findings(Sound(p))
    BY <1>1, GeminiContentSound
  <2> HIDE DEF found
  <2>2. QED
    BY <1>1, <2>1, ItemsSound
<1>2. last \in Findings(Sound(p))
  <2> HIDE DEF found
  <2>1. ASSUME IsList(contents) PROVE SafeIf(contents.items # <<>>, Join(found)) \in Findings(Sound(p))
    BY <1>1, <2>1, SafeIfType
  <2>2. QED
    BY <2>1, NoBlocks
<1>3. SafeIf(p.cached # "invalid", Nothing) \in Findings(Sound(p))
  BY SafeIfType, NoBlocks
<1>4. GeminiGenerateContent(p)
        = Join(<<SafeIf(p.cached # "invalid", Nothing), GeminiSystem(p.value[System]),
                 SchemaBlocks(p.tools, {"extra", "invalid"}), last>>)
  BY DEF GeminiGenerateContent
<1> HIDE DEF last
<1>5. QED
  BY <1>2, <1>3, <1>4, GeminiSystemSound, SchemaBlocksSound, JoinFour

\* Whatever the payload, the blocks of it are sound.
THEOREM ParseSound ==
    ASSUME NEW p \in Payloads, NEW protocol \in Protocols
    PROVE  Parse(protocol, p) \in Findings(Sound(p))
BY ResponsesSound, ChatCompletionsSound, AnthropicMessagesSound, GeminiGenerateContentSound
   DEF Parse, Protocols

-----------------------------------------------------------------------------
(* Reading again.  A payload of the same shape, with other texts, is parsed *)
(* to the same blocks with those texts, each in a place of its own.         *)

\* The block that stands in q where b stands in the payload it was parsed from.
Reblock(q, b) ==
    [kind |-> b.kind, turn |-> b.turn,
     text |-> IF b.path = NoPath THEN b.text ELSE TextAt(q, b.path), path |-> b.path]

Reblocks(q, blocks) == [i \in DOMAIN blocks |-> Reblock(q, blocks[i])]

\* No two blocks have their text in the same place.
Apart(blocks) ==
    \A i, j \in DOMAIN blocks :
        i # j /\ blocks[i].path # NoPath => blocks[i].path # blocks[j].path

\* The texts of blocks lie in these places.
LieIn(places, blocks) ==
    \A i \in DOMAIN blocks : blocks[i].path # NoPath => blocks[i].path \in places

LEMMA ReblocksConcat ==
    ASSUME NEW S, NEW s \in Seq(S), NEW t \in Seq(S), NEW q
    PROVE  Reblocks(q, s \o t) = Reblocks(q, s) \o Reblocks(q, t)
<1> DEFINE a == Reblocks(q, s)
           b == Reblocks(q, t)
           R == {Reblock(q, x) : x \in S}
<1>1. /\ s \o t \in Seq(S)
      /\ Len(s) \in Nat /\ Len(t) \in Nat
      /\ DOMAIN s = 1 .. Len(s) /\ DOMAIN t = 1 .. Len(t)
      /\ DOMAIN (s \o t) = 1 .. Len(s) + Len(t)
      /\ \A i \in 1 .. Len(s) + Len(t) :
            (s \o t)[i] = IF i <= Len(s) THEN s[i] ELSE t[i - Len(s)]
  BY ConcatProperties, LenProperties
<1>2. a \in Seq(R) /\ Len(a) = Len(s) /\ \A i \in 1 .. Len(s) : a[i] = Reblock(q, s[i])
  <2>1. a \in [1 .. Len(s) -> R]
    BY <1>1 DEF Reblocks
  <2>2. \A i \in 1 .. Len(s) : a[i] = Reblock(q, s[i])
    BY <1>1 DEF Reblocks
  <2> HIDE DEF a, R
  <2>3. QED
    BY <1>1, <2>1, <2>2
<1>3. b \in Seq(R) /\ Len(b) = Len(t) /\ \A i \in 1 .. Len(t) : b[i] = Reblock(q, t[i])
  <2>1. b \in [1 .. Len(t) -> R]
    BY <1>1 DEF Reblocks
  <2>2. \A i \in 1 .. Len(t) : b[i] = Reblock(q, t[i])
    BY <1>1 DEF Reblocks
  <2> HIDE DEF b, R
  <2>3. QED
    BY <1>1, <2>1, <2>2
<1> HIDE DEF a, b, R
<1>4. /\ a \o b \in Seq(R)
      /\ DOMAIN (a \o b) = 1 .. Len(s) + Len(t)
      /\ \A i \in 1 .. Len(s) + Len(t) :
            (a \o b)[i] = IF i <= Len(s) THEN a[i] ELSE b[i - Len(s)]
  <2>1. a \in Seq(R) /\ b \in Seq(R) /\ Len(a) = Len(s) /\ Len(b) = Len(t)
    BY <1>2, <1>3
  <2>2. /\ a \o b \in Seq(R) /\ Len(a \o b) = Len(a) + Len(b)
        /\ \A i \in 1 .. Len(a) + Len(b) :
              (a \o b)[i] = IF i <= Len(a) THEN a[i] ELSE b[i - Len(a)]
    BY <2>1, ConcatProperties
  <2>3. DOMAIN (a \o b) = 1 .. Len(a \o b)
    BY <2>2, LenProperties
  <2>4. QED
    BY <2>1, <2>2, <2>3
<1>5. ASSUME NEW i \in 1 .. Len(s) + Len(t) PROVE (a \o b)[i] = Reblock(q, (s \o t)[i])
  <2>1. CASE i <= Len(s)
    BY <1>1, <1>2, <1>4, <2>1
  <2>2. CASE ~(i <= Len(s))
    <3>1. i - Len(s) \in 1 .. Len(t)
      BY <1>1, <2>2
    <3>2. QED
      BY <1>1, <1>3, <1>4, <2>2, <3>1
  <2>3. QED
    BY <2>1, <2>2
<1>6. a \o b = [i \in DOMAIN (a \o b) |-> (a \o b)[i]]
  <2> DEFINE c == a \o b
  <2>1. c \in Seq(R)
    BY <1>4
  <2> HIDE DEF c
  <2>2. c = [i \in DOMAIN c |-> c[i]]
    BY <2>1
  <2>3. QED
    BY <2>2 DEF c
<1>7. a \o b = [i \in 1 .. Len(s) + Len(t) |-> Reblock(q, (s \o t)[i])]
  BY <1>4, <1>5, <1>6
<1>8. QED
  BY <1>1, <1>7 DEF Reblocks, a, b

LEMMA ApartConcat ==
    ASSUME NEW S, NEW s \in Seq(S), NEW t \in Seq(S), Apart(s), Apart(t),
           \A i \in DOMAIN s : \A j \in DOMAIN t : s[i].path # NoPath => s[i].path # t[j].path
    PROVE  Apart(s \o t)
<1>1. /\ Len(s) \in Nat /\ Len(t) \in Nat
      /\ DOMAIN s = 1 .. Len(s) /\ DOMAIN t = 1 .. Len(t)
      /\ DOMAIN (s \o t) = 1 .. Len(s) + Len(t)
      /\ \A i \in 1 .. Len(s) + Len(t) :
            (s \o t)[i] = IF i <= Len(s) THEN s[i] ELSE t[i - Len(s)]
  BY ConcatProperties, LenProperties
<1>2. SUFFICES ASSUME NEW i \in 1 .. Len(s) + Len(t), NEW j \in 1 .. Len(s) + Len(t), i # j,
                      (s \o t)[i].path # NoPath
               PROVE  (s \o t)[i].path # (s \o t)[j].path
  BY <1>1 DEF Apart
<1>3. CASE i <= Len(s) /\ j <= Len(s)
  BY <1>1, <1>2, <1>3 DEF Apart
<1>4. CASE i <= Len(s) /\ ~(j <= Len(s))
  <2>1. j - Len(s) \in 1 .. Len(t)
    BY <1>1, <1>4
  <2>2. QED
    BY <1>1, <1>2, <1>4, <2>1
<1>5. CASE ~(i <= Len(s)) /\ j <= Len(s)
  <2>1. i - Len(s) \in 1 .. Len(t)
    BY <1>1, <1>5
  <2>2. QED
    BY <1>1, <1>2, <1>5, <2>1
<1>6. CASE ~(i <= Len(s)) /\ ~(j <= Len(s))
  <2>1. i - Len(s) \in 1 .. Len(t) /\ j - Len(s) \in 1 .. Len(t) /\ i - Len(s) # j - Len(s)
    BY <1>1, <1>2, <1>6
  <2>2. QED
    BY <1>1, <1>2, <1>6, <2>1 DEF Apart
<1>7. QED
  BY <1>3, <1>4, <1>5, <1>6

LEMMA LieInConcat ==
    ASSUME NEW S, NEW s \in Seq(S), NEW t \in Seq(S), NEW P, LieIn(P, s), LieIn(P, t)
    PROVE  LieIn(P, s \o t)
<1>1. /\ Len(s) \in Nat /\ Len(t) \in Nat
      /\ DOMAIN s = 1 .. Len(s) /\ DOMAIN t = 1 .. Len(t)
      /\ DOMAIN (s \o t) = 1 .. Len(s) + Len(t)
      /\ \A i \in 1 .. Len(s) + Len(t) :
            (s \o t)[i] = IF i <= Len(s) THEN s[i] ELSE t[i - Len(s)]
  BY ConcatProperties, LenProperties
<1>2. SUFFICES ASSUME NEW i \in 1 .. Len(s) + Len(t), (s \o t)[i].path # NoPath
               PROVE  (s \o t)[i].path \in P
  BY <1>1 DEF LieIn
<1>3. CASE i <= Len(s)
  <2>1. i \in DOMAIN s /\ (s \o t)[i] = s[i]
    BY <1>1, <1>3
  <2>2. QED
    BY <1>2, <2>1 DEF LieIn
<1>4. CASE ~(i <= Len(s))
  <2>1. i - Len(s) \in DOMAIN t /\ (s \o t)[i] = t[i - Len(s)]
    BY <1>1, <1>4
  <2>2. QED
    BY <1>2, <2>1 DEF LieIn
<1>5. QED
  BY <1>3, <1>4

LEMMA FunctionIsSeq ==
    ASSUME NEW R, NEW n \in Nat, NEW f \in [1 .. n -> R]
    PROVE  f \in Seq(R) /\ Len(f) = n
OBVIOUS

LEMMA NoPlaceEmpty ==
    ASSUME NEW S, NEW s \in Seq(S), Len(s) = 0
    PROVE  s = <<>>
OBVIOUS

\* Sequences with texts in different places, one after the other.
LEMMA FlattenReads ==
    ASSUME NEW S, NEW seqs \in Seq(Seq(S)), NEW q, NEW n \in Nat, n = Len(seqs),
           NEW others, others = [k \in 1 .. n |-> Reblocks(q, seqs[k])],
           NEW places,
           \A k, l \in 1 .. n : k # l => places[k] \cap places[l] = {},
           \A k \in 1 .. n : Apart(seqs[k]) /\ LieIn(places[k], seqs[k])
    PROVE  /\ FlattenSeq(others) = Reblocks(q, FlattenSeq(seqs))
           /\ Apart(FlattenSeq(seqs))
           /\ LieIn(UNION {places[k] : k \in 1 .. n}, FlattenSeq(seqs))
<1>0. DOMAIN seqs = 1 .. n /\ \A k \in 1 .. n : seqs[k] \in Seq(S)
  OBVIOUS
<1> DEFINE R == {Reblocks(q, x) : x \in Seq(S)}
<1>a. others \in Seq(R) /\ Len(others) = n
  <2>1. others \in [1 .. n -> R]
    BY <1>0
  <2> HIDE DEF R
  <2>2. QED
    BY <2>1, FunctionIsSeq
<1>b. \A k \in 1 .. n : others[k] = Reblocks(q, seqs[k])
  OBVIOUS
<1> HIDE DEF R
<1>1. CASE n = 0
  <2>1. seqs = <<>>
    BY <1>1, NoPlaceEmpty
  <2>a. others = <<>>
    BY <1>1, <1>a, NoPlaceEmpty
  <2>2. FlattenSeq(seqs) = <<>> /\ FlattenSeq(others) = <<>>
    BY <2>1, <2>a DEF FlattenSeq
  <2>3. Reblocks(q, <<>>) = <<>> /\ DOMAIN <<>> = {}
    BY DEF Reblocks
  <2>4. QED
    BY <2>2, <2>3 DEF Apart, LieIn
<1>2. CASE n # 0
  <2>1. n \in Nat \ {0}
    BY <1>2
  <2>2. PICK f : /\ f = [i \in 1 .. n |-> IF i = 1 THEN seqs[i] ELSE f[i - 1] \o seqs[i]]
                 /\ FlattenSeq(seqs) = f[n]
    BY <2>1, FlattenIsFold
  <2>3. PICK g : /\ g = [i \in 1 .. n |-> IF i = 1 THEN others[i] ELSE g[i - 1] \o others[i]]
                 /\ FlattenSeq(others) = g[n]
    BY <1>a, <2>1, FlattenIsFold
  <2> DEFINE P(i) == UNION {places[k] : k \in 1 .. i}
             Right(i) == /\ f[i] \in Seq(S) /\ g[i] = Reblocks(q, f[i])
                         /\ Apart(f[i]) /\ LieIn(P(i), f[i])
             T == {i \in 1 .. n : Right(i)}
  <2>4. 1 \in T
    <3>1. 1 \in 1 .. n /\ f[1] = seqs[1] /\ g[1] = others[1]
      BY <2>1, <2>2, <2>3
    <3>2. P(1) = places[1]
      BY <2>1
    <3>3. seqs[1] \in Seq(S) /\ others[1] = Reblocks(q, seqs[1]) /\ Apart(seqs[1])
          /\ LieIn(places[1], seqs[1])
      BY <1>0, <1>b, <3>1
    <3> HIDE DEF P
    <3>4. QED
      BY <3>1, <3>2, <3>3
  <2>5. ASSUME NEW i \in 1 .. n, i \in T, i < n PROVE i + 1 \in T
    <3>1. i + 1 \in 1 .. n /\ i + 1 # 1 /\ (i + 1) - 1 = i /\ i \in Nat
      BY <2>1, <2>5
    <3>2. f[i + 1] = f[i] \o seqs[i + 1]
      BY <2>2, <3>1
    <3>b. g[i + 1] = g[i] \o others[i + 1]
      BY <2>3, <3>1
    <3>3. f[i] \in Seq(S) /\ g[i] = Reblocks(q, f[i]) /\ Apart(f[i]) /\ LieIn(P(i), f[i])
      BY <2>5
    <3> DEFINE s == f[i]
               t == seqs[i + 1]
    <3>4. /\ t \in Seq(S) /\ Apart(t) /\ LieIn(places[i + 1], t)
          /\ others[i + 1] = Reblocks(q, t)
      BY <1>0, <1>b, <3>1
    <3>5. P(i) \cap places[i + 1] = {}
      <4>1. \A k \in 1 .. i : k \in 1 .. n /\ k # i + 1
        BY <2>1, <3>1
      <4>2. \A k \in 1 .. i : places[k] \cap places[i + 1] = {}
        BY <3>1, <4>1
      <4>3. QED
        BY <4>2
    <3>6. P(i) \subseteq P(i + 1) /\ places[i + 1] \subseteq P(i + 1)
      <4>1. i + 1 \in 1 .. i + 1 /\ \A k \in 1 .. i : k \in 1 .. i + 1
        BY <3>1
      <4>2. QED
        BY <4>1
    <3>7. /\ f[i + 1] = s \o t /\ g[i + 1] = Reblocks(q, s) \o Reblocks(q, t)
          /\ s \in Seq(S) /\ Apart(s) /\ LieIn(P(i), s)
      BY <3>2, <3>b, <3>3, <3>4
    <3> HIDE DEF s, t, P
    <3>a. s \o t \in Seq(S)
      BY <3>4, <3>7
    <3>c. s \in Seq(S) /\ t \in Seq(S)
      BY <3>4, <3>7
    <3>8. Reblocks(q, s \o t) = Reblocks(q, s) \o Reblocks(q, t)
      BY <3>c, ReblocksConcat
    <3>9. \A x \in DOMAIN s : \A y \in DOMAIN t :
             s[x].path # NoPath => s[x].path # t[y].path
      BY <3>4, <3>5, <3>7 DEF LieIn
    <3>10. Apart(s \o t)
      BY <3>4, <3>7, <3>9, ApartConcat
    <3>11. LieIn(P(i + 1), s) /\ LieIn(P(i + 1), t)
      BY <3>4, <3>6, <3>7 DEF LieIn
    <3>12. LieIn(P(i + 1), s \o t)
      BY <3>4, <3>7, <3>11, LieInConcat
    <3>13. Right(i + 1)
      BY <3>7, <3>a, <3>8, <3>10, <3>12
    <3>14. QED
      BY <3>1, <3>13
  <2>6. 1 .. n \subseteq T
    <3> HIDE DEF T
    <3>1. QED
      BY <2>1, <2>4, <2>5, InductionUpTo
  <2>7. Right(n)
    <3>1. n \in 1 .. n
      BY <2>1
    <3>2. n \in T
      BY <2>6, <3>1
    <3> HIDE DEF Right
    <3>3. QED
      BY <3>2
  <2>8. QED
    BY <2>2, <2>3, <2>7
<1>3. QED
  BY <1>1, <1>2

-----------------------------------------------------------------------------
(* Payloads of the same shape: all is the same but texts, which are as many.*)

\* f is e but for the content.
LikeElement(e, f) ==
    /\ f.is = e.is /\ f.encoded = e.encoded
    /\ IsMap(e) => f.type = e.type /\ f.role = e.role /\ f.marks = e.marks

\* A list of as many elements, each like the other's.
Paired(v, w) ==
    /\ w.items = [k \in DOMAIN v.items |-> w.items[k]]
    /\ \A k \in DOMAIN v.items : LikeElement(v.items[k], w.items[k])

\* Values of the same shape, reached by a path of four, three, two or one places.
Same4(v, w) == w.is = v.is
Same3(v, w) ==
    /\ w.is = v.is
    /\ IsList(v) =>
          /\ Paired(v, w)
          /\ \A k \in DOMAIN v.items : IsMap(v.items[k]) => Same4(v.items[k].content, w.items[k].content)
Same2(v, w) ==
    /\ w.is = v.is
    /\ IsList(v) =>
          /\ Paired(v, w)
          /\ \A k \in DOMAIN v.items : IsMap(v.items[k]) => Same3(v.items[k].content, w.items[k].content)
Same1(v, w) ==
    /\ w.is = v.is
    /\ IsList(v) =>
          /\ Paired(v, w)
          /\ \A k \in DOMAIN v.items : IsMap(v.items[k]) => Same2(v.items[k].content, w.items[k].content)

SameShape(p, q) ==
    /\ q.tools = p.tools /\ q.cached = p.cached
    /\ Same1(p.value[System], q.value[System])
    /\ Same1(p.value[Body], q.value[Body])

LEMMA PutSame ==
    ASSUME NEW w, NEW text, Holds(w)
    PROVE  w.is = "str" /\ Put(w, text).is = "str" /\ "str" # "list"
<1>1. Put(w, text) = [is |-> "str", text |-> text]
  BY PutLaws
<1>2. QED
  BY <1>1 DEF Holds

LEMMA OpensIsList ==
    ASSUME NEW w, NEW k, Opens(w, k)
    PROVE  w.is = "list"
BY DEF Opens

LEMMA WithSubPaired ==
    ASSUME NEW v, NEW w, NEW k, NEW y, Paired(v, w), Opens(w, k)
    PROVE  /\ k \in DOMAIN v.items /\ IsMap(v.items[k])
           /\ WithSub(w, k, y).is = "list" /\ Paired(v, WithSub(w, k, y))
           /\ WithSub(w, k, y).items[k].content = y
           /\ \A l \in DOMAIN v.items \ {k} : WithSub(w, k, y).items[l] = w.items[l]
<1> DEFINE x == WithSub(w, k, y)
           e == WithContent(w.items[k], y)
<1>1. k \in DOMAIN w.items /\ IsObject(w.items[k])
  BY DEF Opens
<1>2. /\ DOMAIN w.items = DOMAIN v.items
      /\ \A l \in DOMAIN v.items : LikeElement(v.items[l], w.items[l])
  BY DEF Paired
<1>3. x = [is |-> "list",
           items |-> [l \in DOMAIN w.items |-> IF l = k THEN e ELSE w.items[l]]]
  BY SubForm
<1>4. x.is = "list" /\ x.items = [l \in DOMAIN v.items |-> IF l = k THEN e ELSE w.items[l]]
  BY <1>2, <1>3
<1>5. /\ e = [is |-> "map", type |-> w.items[k].type, role |-> w.items[k].role, content |-> y,
               marks |-> w.items[k].marks, encoded |-> w.items[k].encoded]
      /\ e.content = y /\ w.items[k].is = "map"
  BY <1>1, ContentLaws DEF IsObject
<1>6. v.items[k].is = "map"
  BY <1>1, <1>2, <1>5 DEF LikeElement
<1>7. /\ e.is = w.items[k].is /\ e.encoded = w.items[k].encoded /\ e.type = w.items[k].type
      /\ e.role = w.items[k].role /\ e.marks = w.items[k].marks
  BY <1>5
<1> HIDE DEF e, x
<1>8. LikeElement(v.items[k], e)
  BY <1>1, <1>2, <1>7 DEF LikeElement
<1>9. \A l \in DOMAIN v.items : x.items[l] = IF l = k THEN e ELSE w.items[l]
  BY <1>4
<1>10. Paired(v, x)
  <2>1. x.items = [l \in DOMAIN v.items |-> x.items[l]]
    BY <1>4
  <2>2. \A l \in DOMAIN v.items : LikeElement(v.items[l], x.items[l])
    BY <1>2, <1>8, <1>9
  <2>3. QED
    BY <2>1, <2>2 DEF Paired
<1>11. x.items[k].content = y /\ \A l \in DOMAIN v.items \ {k} : x.items[l] = w.items[l]
  BY <1>1, <1>2, <1>5, <1>9
<1>12. QED
  BY <1>1, <1>2, <1>4, <1>6, <1>10, <1>11 DEF IsMap, x

LEMMA WriteSame4 ==
    ASSUME NEW v, NEW w, NEW path, NEW text, Same4(v, w), Leads4(w, path)
    PROVE  Same4(v, Write4(w, path, text))
BY PutSame DEF Same4, Leads4, Write4

LEMMA WriteSame3 ==
    ASSUME NEW v, NEW w, NEW path, NEW text, Same3(v, w), Leads3(w, path)
    PROVE  Same3(v, Write3(w, path, text))
<1>1. CASE Len(path) = 3
  BY <1>1, PutSame, Zenon DEF Same3, Leads3, Write3, IsList
<1>2. CASE Len(path) # 3
  <2> DEFINE k == path[4]
             u == Sub(w, k)
             y == Write4(u, path, text)
             x == WithSub(w, k, y)
  <2>1. /\ Opens(w, k) /\ Leads4(u, path) /\ Write3(w, path, text) = x
        /\ u = w.items[k].content
    BY <1>2, Zenon DEF Leads3, Write3, Sub
  <2> HIDE DEF u, y, k
  <2>2. IsList(v) /\ Paired(v, w)
    BY <2>1, OpensIsList DEF Same3, IsList
  <2>3. /\ k \in DOMAIN v.items /\ IsMap(v.items[k]) /\ x.is = "list" /\ Paired(v, x)
        /\ x.items[k].content = y
        /\ \A l \in DOMAIN v.items \ {k} : x.items[l] = w.items[l]
    <3>1. Opens(w, k) /\ Paired(v, w)
      BY <2>1, <2>2
    <3>2. k \in DOMAIN v.items /\ IsMap(v.items[k]) /\ x.is = "list" /\ Paired(v, x)
      BY <3>1, WithSubPaired
    <3>3. x.items[k].content = y
      BY <3>1, <3>2, WithSubPaired
    <3>5. \A l \in DOMAIN v.items \ {k} : x.items[l] = w.items[l]
      BY <3>1, <3>2, WithSubPaired
    <3>4. QED
      BY <3>2, <3>3, <3>5
  <2>4. \A l \in DOMAIN v.items : IsMap(v.items[l]) => Same4(v.items[l].content, w.items[l].content)
    BY <2>2 DEF Same3
  <2>5. Same4(v.items[k].content, u)
    BY <2>1, <2>3, <2>4
  <2>6. Same4(v.items[k].content, y)
    BY <2>1, <2>5, WriteSame4 DEF y
  <2> HIDE DEF x
  <2>7. \A l \in DOMAIN v.items : IsMap(v.items[l]) => Same4(v.items[l].content, x.items[l].content)
    BY <2>3, <2>4, <2>6
  <2>8. QED
    BY <2>1, <2>2, <2>3, <2>7 DEF Same3, IsList
<1>3. QED
  BY <1>1, <1>2

LEMMA WriteSame2 ==
    ASSUME NEW v, NEW w, NEW path, NEW text, Same2(v, w), Leads2(w, path)
    PROVE  Same2(v, Write2(w, path, text))
<1>1. CASE Len(path) = 2
  BY <1>1, PutSame, Zenon DEF Same2, Leads2, Write2, IsList
<1>2. CASE Len(path) # 2
  <2> DEFINE k == path[3]
             u == Sub(w, k)
             y == Write3(u, path, text)
             x == WithSub(w, k, y)
  <2>1. /\ Opens(w, k) /\ Leads3(u, path) /\ Write2(w, path, text) = x
        /\ u = w.items[k].content
    BY <1>2, Zenon DEF Leads2, Write2, Sub
  <2> HIDE DEF u, y, k
  <2>2. IsList(v) /\ Paired(v, w)
    BY <2>1, OpensIsList DEF Same2, IsList
  <2>3. /\ k \in DOMAIN v.items /\ IsMap(v.items[k]) /\ x.is = "list" /\ Paired(v, x)
        /\ x.items[k].content = y
        /\ \A l \in DOMAIN v.items \ {k} : x.items[l] = w.items[l]
    <3>1. Opens(w, k) /\ Paired(v, w)
      BY <2>1, <2>2
    <3>2. k \in DOMAIN v.items /\ IsMap(v.items[k]) /\ x.is = "list" /\ Paired(v, x)
      BY <3>1, WithSubPaired
    <3>3. x.items[k].content = y
      BY <3>1, <3>2, WithSubPaired
    <3>5. \A l \in DOMAIN v.items \ {k} : x.items[l] = w.items[l]
      BY <3>1, <3>2, WithSubPaired
    <3>4. QED
      BY <3>2, <3>3, <3>5
  <2>4. \A l \in DOMAIN v.items : IsMap(v.items[l]) => Same3(v.items[l].content, w.items[l].content)
    BY <2>2 DEF Same2
  <2>5. Same3(v.items[k].content, u)
    BY <2>1, <2>3, <2>4
  <2>6. Same3(v.items[k].content, y)
    BY <2>1, <2>5, WriteSame3 DEF y
  <2> HIDE DEF x
  <2>7. \A l \in DOMAIN v.items : IsMap(v.items[l]) => Same3(v.items[l].content, x.items[l].content)
    BY <2>3, <2>4, <2>6
  <2>8. QED
    BY <2>1, <2>2, <2>3, <2>7 DEF Same2, IsList
<1>3. QED
  BY <1>1, <1>2

LEMMA WriteSame1 ==
    ASSUME NEW v, NEW w, NEW path, NEW text, Same1(v, w), Leads1(w, path)
    PROVE  Same1(v, Write1(w, path, text))
<1>1. CASE Len(path) = 1
  BY <1>1, PutSame, Zenon DEF Same1, Leads1, Write1, IsList
<1>2. CASE Len(path) # 1
  <2> DEFINE k == path[2]
             u == Sub(w, k)
             y == Write2(u, path, text)
             x == WithSub(w, k, y)
  <2>1. /\ Opens(w, k) /\ Leads2(u, path) /\ Write1(w, path, text) = x
        /\ u = w.items[k].content
    BY <1>2, Zenon DEF Leads1, Write1, Sub
  <2> HIDE DEF u, y, k
  <2>2. IsList(v) /\ Paired(v, w)
    BY <2>1, OpensIsList DEF Same1, IsList
  <2>3. /\ k \in DOMAIN v.items /\ IsMap(v.items[k]) /\ x.is = "list" /\ Paired(v, x)
        /\ x.items[k].content = y
        /\ \A l \in DOMAIN v.items \ {k} : x.items[l] = w.items[l]
    <3>1. Opens(w, k) /\ Paired(v, w)
      BY <2>1, <2>2
    <3>2. k \in DOMAIN v.items /\ IsMap(v.items[k]) /\ x.is = "list" /\ Paired(v, x)
      BY <3>1, WithSubPaired
    <3>3. x.items[k].content = y
      BY <3>1, <3>2, WithSubPaired
    <3>5. \A l \in DOMAIN v.items \ {k} : x.items[l] = w.items[l]
      BY <3>1, <3>2, WithSubPaired
    <3>4. QED
      BY <3>2, <3>3, <3>5
  <2>4. \A l \in DOMAIN v.items : IsMap(v.items[l]) => Same2(v.items[l].content, w.items[l].content)
    BY <2>2 DEF Same1
  <2>5. Same2(v.items[k].content, u)
    BY <2>1, <2>3, <2>4
  <2>6. Same2(v.items[k].content, y)
    BY <2>1, <2>5, WriteSame2 DEF y
  <2> HIDE DEF x
  <2>7. \A l \in DOMAIN v.items : IsMap(v.items[l]) => Same2(v.items[l].content, x.items[l].content)
    BY <2>3, <2>4, <2>6
  <2>8. QED
    BY <2>1, <2>2, <2>3, <2>7 DEF Same1, IsList
<1>3. QED
  BY <1>1, <1>2

\* A text put at a path does not change the shape.
LEMMA SetPathShape ==
    ASSUME NEW p, NEW q, NEW path, NEW text, SameShape(p, q), Points(q, path)
    PROVE  SameShape(p, SetPath(q, path, text))
<1> DEFINE s == path[1]
           v == Write1(q.value[s], path, text)
           r == WithValue(q, s, v)
<1>1. IsPayload(q) /\ s \in {System, Body} /\ Leads1(q.value[s], path)
  BY DEF Points
<1>2. SetPath(q, path, text) = r
  BY SetPathIsWrite
<1>3. Same1(p.value[s], v)
  BY <1>1, WriteSame1 DEF SameShape
<1> HIDE DEF v
<1>4. /\ r.tools = q.tools /\ r.cached = q.cached
      /\ \A i \in {System, Body} : r.value[i] = IF i = s THEN v ELSE q.value[i]
  BY <1>1, ValueLaws
<1> HIDE DEF r, s
<1>5. QED
  BY <1>1, <1>2, <1>3, <1>4 DEF SameShape

LEMMA SameIsSame ==
    ASSUME NEW p \in Payloads
    PROVE  SameShape(p, p)
<1>1. \A E : \A v \in JsonValue(E) : IsList(v) => Paired(v, v)
  BY ValueType DEF Paired, LikeElement
<1>2. \A v \in JsonValue(NestedElements) : Same3(v, v)
  BY <1>1 DEF Same3, Same4
<1>3. \A V : \A v \in JsonValue(JsonElement(V)) : \A k : IsList(v) /\ k \in DOMAIN v.items /\ IsMap(v.items[k]) => v.items[k].content \in V
  BY ListOpens
<1>4. \A v \in JsonValue(PartElements) : Same2(v, v)
  BY <1>1, <1>2, <1>3 DEF Same2, PartElements
<1>5. \A v \in JsonValue(ItemElements) : Same1(v, v)
  BY <1>1, <1>3, <1>4 DEF Same1, ItemElements
<1>6. QED
  BY <1>5, PayloadType DEF SameShape

\* What was sent has the shape of what came, and the texts stand where they were put.
LEMMA SerializeShape ==
    ASSUME NEW p \in Payloads, NEW blocks, NEW texts, Len(blocks) \in Nat, Placed(p, blocks)
    PROVE  SameShape(p, SerializeBlocks(p, blocks, texts))
<1> DEFINE n == Len(blocks)
<1>0. n \in Nat
  OBVIOUS
<1>1. PICK h : Steps(h, p, blocks, texts, n) /\ SerializeBlocks(p, blocks, texts) = h[n]
  BY <1>0, SerializeIsFold
<1> DEFINE Fine(i) == SameShape(p, h[i]) /\ Placed(h[i], blocks)
           T == {i \in Nat : i =< n => Fine(i)}
<1>2. 0 \in T
  BY <1>1, SameIsSame DEF Steps
<1>3. ASSUME NEW i \in Nat, i \in T PROVE i + 1 \in T
  <2>1. SUFFICES ASSUME i + 1 =< n PROVE Fine(i + 1)
    OBVIOUS
  <2>2. i =< n /\ i + 1 \in 1 .. n /\ (i + 1) - 1 = i
    BY <1>0, <2>1
  <2>3. Fine(i)
    BY <1>3, <2>2
  <2>4. h[i + 1] = IF blocks[i + 1].path = NoPath THEN h[i]
                   ELSE SetPath(h[i], blocks[i + 1].path, texts[i + 1])
    BY <1>1, <2>2 DEF Steps
  <2>5. CASE blocks[i + 1].path = NoPath
    BY <2>3, <2>4, <2>5
  <2>6. CASE blocks[i + 1].path # NoPath
    <3>1. Points(h[i], blocks[i + 1].path)
      BY <2>2, <2>3, <2>6 DEF Placed
    <3>2. SameShape(p, SetPath(h[i], blocks[i + 1].path, texts[i + 1]))
      BY <2>3, <3>1, SetPathShape
    <3>3. Placed(SetPath(h[i], blocks[i + 1].path, texts[i + 1]), blocks)
      BY <2>2, <2>3, <2>6, PlacedAfter
    <3>4. QED
      BY <2>4, <2>6, <3>2, <3>3
  <2>7. QED
    BY <2>5, <2>6
<1>4. Nat \subseteq T
  <2> HIDE DEF T
  <2>1. QED
    BY <1>2, <1>3, Induction
<1>5. QED
  BY <1>0, <1>1, <1>4

\* A text is found where the only block of that place put it.
LEMMA SerializeReads ==
    ASSUME NEW p, NEW blocks, NEW texts, Len(blocks) \in Nat, Placed(p, blocks),
           DOMAIN blocks = 1 .. Len(blocks), Apart(blocks)
    PROVE  \A j \in 1 .. Len(blocks) :
              blocks[j].path # NoPath =>
                 TextAt(SerializeBlocks(p, blocks, texts), blocks[j].path) = texts[j]
<1> DEFINE n == Len(blocks)
<1>0. n \in Nat
  OBVIOUS
<1>1. PICK h : Steps(h, p, blocks, texts, n) /\ SerializeBlocks(p, blocks, texts) = h[n]
  BY <1>0, SerializeIsFold
<1> DEFINE Fine(i) == /\ Placed(h[i], blocks)
                      /\ \A j \in 1 .. i : blocks[j].path # NoPath
                            => TextAt(h[i], blocks[j].path) = texts[j]
           T == {i \in Nat : i =< n => Fine(i)}
<1>2. 0 \in T
  BY <1>1 DEF Steps
<1>3. ASSUME NEW i \in Nat, i \in T PROVE i + 1 \in T
  <2>1. SUFFICES ASSUME i + 1 =< n PROVE Fine(i + 1)
    OBVIOUS
  <2> DEFINE m == i + 1
             a == blocks[m].path
  <2>2. i =< n /\ m \in 1 .. n /\ m - 1 = i
    BY <1>0, <2>1
  <2>3. Fine(i)
    BY <1>3, <2>2
  <2>4. h[m] = IF a = NoPath THEN h[i] ELSE SetPath(h[i], a, texts[m])
    BY <1>1, <2>2 DEF Steps
  <2>a. \A j \in 1 .. m : j \in 1 .. n /\ (j = m \/ (j \in 1 .. i /\ j # m))
    BY <1>0, <2>2
  <2> HIDE DEF m
  <2>5. CASE a = NoPath
    BY <2>3, <2>4, <2>5, <2>a DEF m
  <2>6. CASE a # NoPath
    <3>1. Points(h[i], a)
      BY <2>2, <2>3, <2>6 DEF Placed
    <3>2. TextAt(SetPath(h[i], a, texts[m]), a) = texts[m]
      BY <3>1, SetPathLaws
    <3>3. Placed(SetPath(h[i], a, texts[m]), blocks)
      BY <2>2, <2>3, <2>6, PlacedAfter
    <3>4. ASSUME NEW j \in 1 .. i, j \in 1 .. n, j # m, blocks[j].path # NoPath
          PROVE  TextAt(SetPath(h[i], a, texts[m]), blocks[j].path) = texts[j]
      <4>1. Points(h[i], blocks[j].path) /\ TextAt(h[i], blocks[j].path) = texts[j]
        BY <2>3, <3>4 DEF Placed
      <4>2. a # blocks[j].path
        BY <2>2, <2>6, <3>4 DEF Apart
      <4>3. QED
        BY <3>1, <4>1, <4>2, SetPathLaws
    <3> HIDE DEF a
    <3>5. \A j \in 1 .. m : blocks[j].path # NoPath
             => TextAt(SetPath(h[i], a, texts[m]), blocks[j].path) = texts[j]
      BY <2>a, <3>2, <3>4 DEF a
    <3>6. QED
      BY <2>4, <2>6, <3>3, <3>5 DEF m
  <2>7. QED
    BY <2>5, <2>6
<1>4. Nat \subseteq T
  <2> HIDE DEF T
  <2>1. QED
    BY <1>2, <1>3, Induction
<1>5. Fine(n)
  BY <1>0, <1>4
<1>6. QED
  BY <1>1, <1>5

-----------------------------------------------------------------------------
(* What a parser returns for a part and for the part of that shape in q.     *)

\* g finds in q what f found, with the texts of q, and f found each of its texts
\* in a place of its own.  Only findings that are safe are compared.
Mirrors(q, places, f, g) ==
    /\ g = [blocks |-> g.blocks, safe |-> f.safe, raises |-> f.raises]
    /\ f.safe => /\ g.blocks = Reblocks(q, f.blocks)
                 /\ Apart(f.blocks) /\ LieIn(places, f.blocks)

LEMMA MirrorsNothing ==
    ASSUME NEW q, NEW P
    PROVE  /\ Mirrors(q, P, Nothing, Nothing) /\ Mirrors(q, P, Unsafe, Unsafe)
           /\ Mirrors(q, P, Raises, Raises)
<1>1. /\ Nothing = [blocks |-> <<>>, safe |-> TRUE, raises |-> FALSE]
      /\ Unsafe = [blocks |-> <<>>, safe |-> FALSE, raises |-> FALSE]
      /\ Raises = [blocks |-> <<>>, safe |-> TRUE, raises |-> TRUE]
  BY DEF Nothing, Unsafe, Raises
<1>2. Reblocks(q, <<>>) = <<>> /\ Apart(<<>>) /\ LieIn(P, <<>>)
  BY DEF Reblocks, Apart, LieIn
<1>3. QED
  BY <1>1, <1>2 DEF Mirrors

LEMMA SafeIfForm ==
    ASSUME NEW f, f = [blocks |-> f.blocks, safe |-> f.safe, raises |-> f.raises],
           f.safe \in BOOLEAN, NEW ok \in BOOLEAN
    PROVE  SafeIf(ok, f) = [blocks |-> f.blocks, safe |-> f.safe /\ ok, raises |-> f.raises]
BY DEF SafeIf

LEMMA MirrorsSafeIf ==
    ASSUME NEW q, NEW P, NEW f, NEW g, Mirrors(q, P, f, g), NEW ok \in BOOLEAN,
           NEW S, f \in Findings(S)
    PROVE  Mirrors(q, P, SafeIf(ok, f), SafeIf(ok, g))
<1>1. /\ f = [blocks |-> f.blocks, safe |-> f.safe, raises |-> f.raises]
      /\ f.safe \in BOOLEAN
  BY DEF Findings
<1>2. g = [blocks |-> g.blocks, safe |-> f.safe, raises |-> f.raises]
  BY DEF Mirrors
<1>3. /\ SafeIf(ok, f) = [blocks |-> f.blocks, safe |-> f.safe /\ ok, raises |-> f.raises]
      /\ SafeIf(ok, g) = [blocks |-> g.blocks, safe |-> f.safe /\ ok, raises |-> f.raises]
  BY <1>1, <1>2, SafeIfForm
<1>4. QED
  BY <1>1, <1>3 DEF Mirrors

LEMMA MirrorsLeaf ==
    ASSUME NEW q, NEW P, NEW kind, NEW turn, NEW text, NEW other, NEW path,
           path = NoPath => other = text,
           path # NoPath => path \in P /\ TextAt(q, path) = other
    PROVE  Mirrors(q, P, Leaf(kind, turn, text, path), Leaf(kind, turn, other, path))
<1> DEFINE b == [kind |-> kind, turn |-> turn, text |-> text, path |-> path]
           c == [kind |-> kind, turn |-> turn, text |-> other, path |-> path]
<1>1. Reblock(q, b) = c /\ b.path = path
  BY DEF Reblock
<1>2. /\ Leaf(kind, turn, text, path) = [blocks |-> <<b>>, safe |-> TRUE, raises |-> FALSE]
      /\ Leaf(kind, turn, other, path) = [blocks |-> <<c>>, safe |-> TRUE, raises |-> FALSE]
  BY DEF Leaf
<1> HIDE DEF b, c
<1>3. DOMAIN <<b>> = {1} /\ <<b>>[1] = b /\ <<c>> = [i \in {1} |-> c]
  OBVIOUS
<1>4. Reblocks(q, <<b>>) = <<c>>
  BY <1>1, <1>3 DEF Reblocks
<1>5. Apart(<<b>>) /\ LieIn(P, <<b>>)
  BY <1>1, <1>3 DEF Apart, LieIn
<1>6. QED
  BY <1>2, <1>4, <1>5 DEF Mirrors

LEMMA MirrorsFixed ==
    ASSUME NEW q, NEW P, NEW kind, NEW turn, NEW text
    PROVE  Mirrors(q, P, Leaf(kind, turn, text, NoPath), Leaf(kind, turn, text, NoPath))
BY MirrorsLeaf

\* What is refused is not compared.
LEMMA MirrorsRefused ==
    ASSUME NEW q, NEW P, NEW kind, NEW turn, NEW text, NEW other, NEW path
    PROVE  Mirrors(q, P, SafeIf(FALSE, Leaf(kind, turn, text, path)),
                         SafeIf(FALSE, Leaf(kind, turn, other, path)))
<1>1. ASSUME NEW t
      PROVE  \E x : SafeIf(FALSE, Leaf(kind, turn, t, path))
                       = [blocks |-> x, safe |-> FALSE, raises |-> FALSE]
  <2> DEFINE f == Leaf(kind, turn, t, path)
  <2>1. /\ f = [blocks |-> f.blocks, safe |-> f.safe, raises |-> f.raises]
        /\ f.safe = TRUE /\ f.raises = FALSE
    BY DEF Leaf
  <2> HIDE DEF f
  <2>2. SafeIf(FALSE, f) = [blocks |-> f.blocks, safe |-> f.safe /\ FALSE, raises |-> f.raises]
    BY <2>1, SafeIfForm
  <2>3. SafeIf(FALSE, f) = [blocks |-> f.blocks, safe |-> FALSE, raises |-> FALSE]
    BY <2>1, <2>2
  <2>4. QED
    BY <2>3 DEF f
<1>3. \A x, y : Mirrors(q, P, [blocks |-> x, safe |-> FALSE, raises |-> FALSE],
                              [blocks |-> y, safe |-> FALSE, raises |-> FALSE])
  BY DEF Mirrors
<1>4. QED
  BY <1>1, <1>3

LEMMA MirrorsJoin ==
    ASSUME NEW S, NEW n \in Nat, NEW q, NEW places, NEW P,
           NEW found, DOMAIN found = 1 .. n, NEW others, DOMAIN others = 1 .. n,
           \A i \in 1 .. n : /\ found[i] \in Findings(S) /\ places[i] \subseteq P
                             /\ Mirrors(q, places[i], found[i], others[i]),
           \A k, l \in 1 .. n : k # l => places[k] \cap places[l] = {}
    PROVE  Mirrors(q, P, Join(found), Join(others))
<1> DEFINE seqs == [i \in DOMAIN found |-> found[i].blocks]
           rest == [i \in DOMAIN others |-> others[i].blocks]
           safe == \A i \in 1 .. n : found[i].safe
           raises == \E i \in 1 .. n : found[i].raises
<1>1. \A i \in 1 .. n : others[i].safe = found[i].safe /\ others[i].raises = found[i].raises
  BY DEF Mirrors
<1>2. Join(found) = [blocks |-> FlattenSeq(seqs), safe |-> safe, raises |-> raises]
  BY DEF Join
<1>3. Join(others) = [blocks |-> FlattenSeq(rest), safe |-> safe, raises |-> raises]
  <2>1. Join(others) = [blocks |-> FlattenSeq(rest), safe |-> \A i \in 1 .. n : others[i].safe,
                        raises |-> \E i \in 1 .. n : others[i].raises]
    BY DEF Join
  <2>2. /\ safe = \A i \in 1 .. n : others[i].safe
        /\ raises = \E i \in 1 .. n : others[i].raises
    BY <1>1
  <2> HIDE DEF safe, raises
  <2>3. QED
    BY <2>1, <2>2
<1>4. ASSUME safe
      PROVE  /\ FlattenSeq(rest) = Reblocks(q, FlattenSeq(seqs))
             /\ Apart(FlattenSeq(seqs)) /\ LieIn(P, FlattenSeq(seqs))
  <2>1. \A i \in 1 .. n : found[i].blocks \in Seq(S)
    BY DEF Findings
  <2>2. seqs \in [1 .. n -> Seq(S)]
    BY <2>1
  <2>3. \A i \in 1 .. n : /\ others[i].blocks = Reblocks(q, found[i].blocks)
                          /\ Apart(found[i].blocks) /\ LieIn(places[i], found[i].blocks)
    BY <1>4 DEF Mirrors
  <2>4. rest = [i \in 1 .. n |-> Reblocks(q, found[i].blocks)]
    BY <2>3
  <2>5. \A i \in 1 .. n : seqs[i] = found[i].blocks
    OBVIOUS
  <2> HIDE DEF seqs, rest, safe, raises
  <2>6. seqs \in Seq(Seq(S)) /\ Len(seqs) = n
    BY <2>2, FunctionIsSeq
  <2>7. rest = [i \in 1 .. n |-> Reblocks(q, seqs[i])]
    BY <2>4, <2>5
  <2>8. \A i \in 1 .. n : Apart(seqs[i]) /\ LieIn(places[i], seqs[i])
    BY <2>3, <2>5
  <2>9. /\ FlattenSeq(rest) = Reblocks(q, FlattenSeq(seqs))
        /\ Apart(FlattenSeq(seqs))
        /\ LieIn(UNION {places[k] : k \in 1 .. n}, FlattenSeq(seqs))
    BY <2>6, <2>7, <2>8, FlattenReads
  <2>10. UNION {places[k] : k \in 1 .. n} \subseteq P
    OBVIOUS
  <2>11. QED
    BY <2>9, <2>10 DEF LieIn
<1> HIDE DEF seqs, rest, safe, raises
<1>5. QED
  BY <1>2, <1>3, <1>4 DEF Mirrors

LEMMA MirrorsJoinSeq ==
    ASSUME NEW S, NEW E, NEW s \in Seq(E), NEW q, NEW places, NEW P,
           NEW found, DOMAIN found = DOMAIN s, NEW others, DOMAIN others = DOMAIN s,
           \A i \in DOMAIN s : /\ found[i] \in Findings(S) /\ places[i] \subseteq P
                               /\ Mirrors(q, places[i], found[i], others[i]),
           \A k, l \in DOMAIN s : k # l => places[k] \cap places[l] = {}
    PROVE  Mirrors(q, P, Join(found), Join(others))
<1> DEFINE n == Len(s)
<1>1. n \in Nat /\ DOMAIN s = 1 .. n
  OBVIOUS
<1> HIDE DEF n
<1>2. QED
  BY <1>1, MirrorsJoin

LEMMA MirrorsTwo ==
    ASSUME NEW S, NEW q, NEW P, NEW Q, NEW R, P \subseteq R, Q \subseteq R, P \cap Q = {},
           NEW a \in Findings(S), NEW b \in Findings(S), NEW c, NEW d,
           Mirrors(q, P, a, c), Mirrors(q, Q, b, d)
    PROVE  Mirrors(q, R, Join(<<a, b>>), Join(<<c, d>>))
<1> DEFINE s == <<a, b>>
           t == <<c, d>>
           places == <<P, Q>>
<1>1. /\ DOMAIN s = 1 .. 2 /\ s[1] = a /\ s[2] = b
      /\ DOMAIN t = 1 .. 2 /\ t[1] = c /\ t[2] = d
      /\ places[1] = P /\ places[2] = Q
  OBVIOUS
<1> HIDE DEF s, t, places
<1>2. \A i \in 1 .. 2 : i = 1 \/ i = 2
  OBVIOUS
<1>3. \A i \in 1 .. 2 : /\ s[i] \in Findings(S) /\ places[i] \subseteq R
                        /\ Mirrors(q, places[i], s[i], t[i])
  BY <1>1, <1>2
<1>4. \A k, l \in 1 .. 2 : k # l => places[k] \cap places[l] = {}
  BY <1>1, <1>2
<1>a. 2 \in Nat /\ DOMAIN s = 1 .. 2 /\ DOMAIN t = 1 .. 2
  BY <1>1
<1>5. Mirrors(q, R, Join(s), Join(t))
  BY <1>a, <1>3, <1>4, MirrorsJoin
<1>6. QED
  BY <1>5 DEF s, t

\* Two parts of a payload in different places, among parts that have none.
LEMMA MirrorsFour ==
    ASSUME NEW S, NEW q, NEW P, NEW Q, NEW R, P \subseteq R, Q \subseteq R, P \cap Q = {},
           NEW a \in Findings(S), NEW b \in Findings(S), NEW c \in Findings(S),
           NEW d \in Findings(S), NEW e, NEW f, NEW g, NEW h,
           Mirrors(q, {}, a, e), Mirrors(q, P, b, f), Mirrors(q, {}, c, g), Mirrors(q, Q, d, h)
    PROVE  Mirrors(q, R, Join(<<a, b, c, d>>), Join(<<e, f, g, h>>))
<1> DEFINE s == <<a, b, c, d>>
           t == <<e, f, g, h>>
           places == <<{}, P, {}, Q>>
<1>1. /\ DOMAIN s = 1 .. 4 /\ s[1] = a /\ s[2] = b /\ s[3] = c /\ s[4] = d
      /\ DOMAIN t = 1 .. 4 /\ t[1] = e /\ t[2] = f /\ t[3] = g /\ t[4] = h
      /\ places[1] = {} /\ places[2] = P /\ places[3] = {} /\ places[4] = Q
  OBVIOUS
<1> HIDE DEF s, t, places
<1>2. \A i \in 1 .. 4 : i = 1 \/ i = 2 \/ i = 3 \/ i = 4
  OBVIOUS
<1>3. \A i \in 1 .. 4 : /\ s[i] \in Findings(S) /\ places[i] \subseteq R
                        /\ Mirrors(q, places[i], s[i], t[i])
  BY <1>1, <1>2
<1>4. \A k, l \in 1 .. 4 : k # l => places[k] \cap places[l] = {}
  BY <1>1, <1>2
<1>a. 4 \in Nat /\ DOMAIN s = 1 .. 4 /\ DOMAIN t = 1 .. 4
  BY <1>1
<1>5. Mirrors(q, R, Join(s), Join(t))
  BY <1>a, <1>3, <1>4, MirrorsJoin
<1>6. QED
  BY <1>5 DEF s, t

LEMMA MirrorsThree ==
    ASSUME NEW S, NEW q, NEW P, NEW Q, NEW R, P \subseteq R, Q \subseteq R, P \cap Q = {},
           NEW a \in Findings(S), NEW b \in Findings(S), NEW c \in Findings(S),
           NEW e, NEW f, NEW g,
           Mirrors(q, P, a, e), Mirrors(q, {}, b, f), Mirrors(q, Q, c, g)
    PROVE  Mirrors(q, R, Join(<<a, b, c>>), Join(<<e, f, g>>))
<1> DEFINE s == <<a, b, c>>
           t == <<e, f, g>>
           places == <<P, {}, Q>>
<1>1. /\ DOMAIN s = 1 .. 3 /\ s[1] = a /\ s[2] = b /\ s[3] = c
      /\ DOMAIN t = 1 .. 3 /\ t[1] = e /\ t[2] = f /\ t[3] = g
      /\ places[1] = P /\ places[2] = {} /\ places[3] = Q
  OBVIOUS
<1> HIDE DEF s, t, places
<1>2. \A i \in 1 .. 3 : i = 1 \/ i = 2 \/ i = 3
  OBVIOUS
<1>3. \A i \in 1 .. 3 : /\ s[i] \in Findings(S) /\ places[i] \subseteq R
                        /\ Mirrors(q, places[i], s[i], t[i])
  BY <1>1, <1>2
<1>4. \A k, l \in 1 .. 3 : k # l => places[k] \cap places[l] = {}
  BY <1>1, <1>2
<1>a. 3 \in Nat /\ DOMAIN s = 1 .. 3 /\ DOMAIN t = 1 .. 3
  BY <1>1
<1>5. Mirrors(q, R, Join(s), Join(t))
  BY <1>a, <1>3, <1>4, MirrorsJoin
<1>6. QED
  BY <1>5 DEF s, t

-----------------------------------------------------------------------------
(* Places of a payload: those below one, two, three or four steps.           *)

Places1(s) == {a \in Seq(Nat) : a[1] = s}
Places2(s, i) == {a \in Seq(Nat) : a[1] = s /\ a[2] = i}
Places3(s, i, j) == {a \in Seq(Nat) : a[1] = s /\ a[2] = i /\ a[3] = j}

LEMMA PlacesNest ==
    ASSUME NEW s, NEW i, NEW j
    PROVE  /\ Places2(s, i) \subseteq Places1(s) /\ Places3(s, i, j) \subseteq Places2(s, i)
           /\ \A k : k # i => Places2(s, i) \cap Places2(s, k) = {}
           /\ \A k : k # j => Places3(s, i, j) \cap Places3(s, i, k) = {}
           /\ \A k : k # s => Places1(s) \cap Places1(k) = {}
BY DEF Places1, Places2, Places3

\* A path lies below its own steps, and the text at it.
LEMMA PlaceOfOne ==
    ASSUME NEW s \in Nat, NEW q
    PROVE  /\ <<s>> \in Places1(s) /\ <<s>> # NoPath
           /\ TextAt(q, <<s>>) = q.value[s].text
<1>1. <<s>> \in Seq(Nat) /\ <<s>>[1] = s /\ Len(<<s>>) = 1 /\ <<s>> # <<>>
  OBVIOUS
<1>2. QED
  BY <1>1 DEF Places1, NoPath, TextAt, Read1

LEMMA PlaceOfTwo ==
    ASSUME NEW s \in Nat, NEW i \in Nat, NEW q
    PROVE  /\ <<s, i>> \in Places2(s, i) /\ <<s, i>> # NoPath
           /\ TextAt(q, <<s, i>>) = q.value[s].items[i].content.text
<1> DEFINE a == <<s, i>>
<1>1. a \in Seq(Nat) /\ a[1] = s /\ a[2] = i /\ Len(a) = 2 /\ a # <<>>
  OBVIOUS
<1> HIDE DEF a
<1>2. TextAt(q, a) = q.value[s].items[i].content.text
  BY <1>1 DEF TextAt, Read1, Read2, Sub
<1>3. a \in Places2(s, i) /\ a # NoPath
  BY <1>1 DEF Places2, NoPath
<1>4. QED
  BY <1>2, <1>3 DEF a

LEMMA PlaceOfThree ==
    ASSUME NEW s \in Nat, NEW i \in Nat, NEW j \in Nat, NEW q
    PROVE  /\ <<s, i, j>> \in Places3(s, i, j) /\ <<s, i, j>> # NoPath
           /\ \A text : text = q.value[s].items[i].content.items[j].content.text
                 => TextAt(q, <<s, i, j>>) = text
<1> DEFINE a == <<s, i, j>>
<1>1. a \in Seq(Nat) /\ a[1] = s /\ a[2] = i /\ a[3] = j /\ Len(a) = 3
  BY LongPaths
<1>a. a # <<>>
  BY <1>1
<1> HIDE DEF a
<1>2. TextAt(q, a) = q.value[s].items[i].content.items[j].content.text
  BY <1>1 DEF TextAt, Read1, Read2, Read3, Sub
<1>3. a \in Places3(s, i, j) /\ a # NoPath
  BY <1>1, <1>a DEF Places3, NoPath
<1>4. QED
  BY <1>2, <1>3 DEF a

Places4(s, i, j, k) == {a \in Seq(Nat) : a[1] = s /\ a[2] = i /\ a[3] = j /\ a[4] = k}

-----------------------------------------------------------------------------
(* Elements of the same shape.                                               *)

LEMMA LikeLaws ==
    ASSUME NEW e, NEW f, LikeElement(e, f)
    PROVE  /\ TypeOf(f) = TypeOf(e) /\ RoleOf(f) = RoleOf(e) /\ HasRole(f) = HasRole(e)
           /\ IsMap(f) = IsMap(e) /\ f.encoded = e.encoded
           /\ IsMap(e) => f.marks = e.marks /\ f.role = e.role /\ f.type = e.type
BY DEF LikeElement, TypeOf, RoleOf, HasRole, IsMap

\* Elements whose contents are of the same form.
LikePart(e, f) == LikeElement(e, f) /\ (IsMap(e) => f.content.is = e.content.is)

LEMMA LikeTexts ==
    ASSUME NEW e, NEW f, LikePart(e, f)
    PROVE  /\ \A types : "no object" \notin types => IsText(f, types) = IsText(e, types)
           /\ Pure(f) = Pure(e)
           /\ IsMap(e) => IsStr(f.content) = IsStr(e.content) /\ IsList(f.content) = IsList(e.content)
<1>1. /\ TypeOf(f) = TypeOf(e) /\ IsMap(f) = IsMap(e)
      /\ IsMap(e) => f.marks = e.marks /\ f.content.is = e.content.is
  BY LikeLaws DEF LikePart
<1>2. \A types : "no object" \notin types => IsText(f, types) = IsText(e, types)
  BY <1>1 DEF IsText, TypeOf, IsStr
<1>3. Pure(f) = Pure(e)
  <2>1. IsText(f, {"text"}) = IsText(e, {"text"})
    BY <1>2
  <2>2. IsText(e, {"text"}) => IsMap(e)
    BY DEF IsText, TypeOf
  <2>3. QED
    BY <1>1, <2>1, <2>2 DEF Pure
<1>4. QED
  BY <1>1, <1>2, <1>3 DEF IsStr, IsList

\* The items of the same list, and their parts.
LEMMA TwinItem ==
    ASSUME NEW p \in Payloads, NEW q, SameShape(p, q), NEW s \in {System, Body},
           IsList(p.value[s])
    PROVE  /\ IsList(q.value[s]) /\ DOMAIN q.value[s].items = DOMAIN p.value[s].items
           /\ \A i \in DOMAIN p.value[s].items :
                 /\ LikePart(p.value[s].items[i], q.value[s].items[i])
                 /\ IsMap(p.value[s].items[i])
                      => Same2(p.value[s].items[i].content, q.value[s].items[i].content)
<1> DEFINE v == p.value[s]
           w == q.value[s]
<1>1. Same1(v, w)
  BY DEF SameShape
<1> HIDE DEF v, w
<1>2. w.is = v.is /\ (IsList(v) => /\ Paired(v, w)
          /\ \A k \in DOMAIN v.items : IsMap(v.items[k]) => Same2(v.items[k].content, w.items[k].content))
  BY <1>1 DEF Same1
<1>3. IsList(v)
  BY DEF v
<1>4. /\ IsList(w) /\ DOMAIN w.items = DOMAIN v.items
      /\ \A k \in DOMAIN v.items : LikeElement(v.items[k], w.items[k])
  BY <1>2, <1>3 DEF IsList, Paired
<1>5. \A k \in DOMAIN v.items : LikePart(v.items[k], w.items[k])
  BY <1>2, <1>3, <1>4 DEF LikePart, Same2
<1>6. QED
  BY <1>2, <1>3, <1>4, <1>5 DEF v, w

LEMMA TwinPart ==
    ASSUME NEW v, NEW w, Same2(v, w)
    PROVE  /\ w.is = v.is
           /\ IsList(v) =>
                 /\ IsList(w) /\ DOMAIN w.items = DOMAIN v.items
                 /\ w.items = [j \in DOMAIN v.items |-> w.items[j]]
                 /\ \A j \in DOMAIN v.items :
                       /\ LikePart(v.items[j], w.items[j])
                       /\ IsMap(v.items[j]) => Same3(v.items[j].content, w.items[j].content)
<1>1. w.is = v.is
  BY DEF Same2
<1>2. ASSUME IsList(v)
      PROVE  /\ IsList(w) /\ Paired(v, w)
             /\ \A k \in DOMAIN v.items :
                  IsMap(v.items[k]) => Same3(v.items[k].content, w.items[k].content)
  BY <1>2 DEF Same2, IsList
<1>3. ASSUME IsList(v)
      PROVE  \A k \in DOMAIN v.items : LikePart(v.items[k], w.items[k])
  BY <1>2, <1>3 DEF Paired, LikePart, Same3
<1>4. QED
  BY <1>1, <1>2, <1>3 DEF Paired

LEMMA TwinNested ==
    ASSUME NEW v, NEW w, Same3(v, w)
    PROVE  /\ w.is = v.is
           /\ IsList(v) =>
                 /\ IsList(w) /\ DOMAIN w.items = DOMAIN v.items
                 /\ \A j \in DOMAIN v.items : LikePart(v.items[j], w.items[j])
<1>1. w.is = v.is
  BY DEF Same3
<1>2. ASSUME IsList(v)
      PROVE  /\ IsList(w) /\ Paired(v, w)
             /\ \A k \in DOMAIN v.items :
                  IsMap(v.items[k]) => w.items[k].content.is = v.items[k].content.is
  BY <1>2 DEF Same3, Same4, IsList
<1>3. QED
  BY <1>1, <1>2 DEF Paired, LikePart

-----------------------------------------------------------------------------
(* Tools, and what Content takes.                                            *)

LEMMA ToolBlocksMirror ==
    ASSUME NEW p \in Payloads, NEW q
    PROVE  Mirrors(q, {}, ToolBlocks(p.tools), ToolBlocks(p.tools))
<1> DEFINE s == Items(p.tools)
           found == [j \in DOMAIN s |-> Leaf("tool_schema", 0, p.tools.items[j].encoded, NoPath)]
           places == [j \in DOMAIN s |-> {}]
<1>1. s \in Seq(ItemElements)
  BY PayloadType, ValueType
<1>2. ASSUME NEW j \in DOMAIN s
      PROVE  found[j] \in Findings(Sound(p)) /\ Mirrors(q, {}, found[j], found[j])
  <2>1. IsList(p.tools) /\ s = p.tools.items
    BY <1>2 DEF Items
  <2>2. s[j] \in ItemElements
    BY <1>1, SeqPlace
  <2>3. p.tools.items[j].encoded \in Texts
    BY <2>1, <2>2, ElementType DEF ItemElements
  <2>4. QED
    BY <2>3, LeafAlone, RoleKinds, Turned, MirrorsFixed
<1>3. DOMAIN found = DOMAIN s /\ \A j \in DOMAIN s : places[j] = {}
  OBVIOUS
<1> HIDE DEF s, found, places
<1>a. \A j \in DOMAIN s : /\ found[j] \in Findings(Sound(p)) /\ places[j] \subseteq {}
                          /\ Mirrors(q, places[j], found[j], found[j])
  BY <1>2, <1>3
<1>b. \A k, l \in DOMAIN s : k # l => places[k] \cap places[l] = {}
  BY <1>3
<1>4. Mirrors(q, {}, Join(found), Join(found))
  BY <1>1, <1>3, <1>a, <1>b, MirrorsJoinSeq
<1>5. QED
  BY <1>4 DEF ToolBlocks, found, s

LEMMA ItemNumber ==
    ASSUME NEW p \in Payloads, NEW s \in {System, Body}, IsList(p.value[s])
    PROVE  /\ p.value[s].items \in Seq(ItemElements)
           /\ \A i \in DOMAIN p.value[s].items :
                 /\ i \in Nat
                 /\ p.value[s].items[i] \in ItemElements
                 /\ IsMap(p.value[s].items[i])
                      => p.value[s].items[i].content \in JsonValue(PartElements)
<1> DEFINE t == p.value[s].items
<1>1. t \in Seq(ItemElements)
  BY PayloadType, ValueType
<1> HIDE DEF t
<1>2. \A i \in DOMAIN t : i \in Nat /\ t[i] \in ItemElements
  BY <1>1, SeqPlace
<1>3. \A i \in DOMAIN t : IsMap(t[i]) => t[i].content \in JsonValue(PartElements)
  BY <1>2, ElementType DEF ItemElements
<1>4. QED
  BY <1>1, <1>2, <1>3 DEF t

\* Parts that mirror each other, each below its own place of the item.
LEMMA PartsMirror ==
    ASSUME NEW S, NEW E, NEW s \in Seq(E), NEW q, NEW i, NEW found, NEW others,
           DOMAIN found = DOMAIN s, DOMAIN others = DOMAIN s,
           \A j \in DOMAIN s : /\ found[j] \in Findings(S)
                               /\ Mirrors(q, Places3(Body, i, j), found[j], others[j])
    PROVE  Mirrors(q, Places2(Body, i), Join(found), Join(others))
<1> DEFINE places == [j \in DOMAIN s |-> Places3(Body, i, j)]
<1>1. \A j \in DOMAIN s : places[j] = Places3(Body, i, j)
  OBVIOUS
<1> HIDE DEF places
<1>2. \A j \in DOMAIN s : /\ found[j] \in Findings(S) /\ places[j] \subseteq Places2(Body, i)
                          /\ Mirrors(q, places[j], found[j], others[j])
  BY <1>1, PlacesNest
<1>3. \A k, l \in DOMAIN s : k # l => places[k] \cap places[l] = {}
  BY <1>1, PlacesNest
<1>4. QED
  BY <1>2, <1>3, MirrorsJoinSeq

\* Items that mirror each other.
LEMMA ItemsMirror ==
    ASSUME NEW S, NEW E, NEW s \in Seq(E), NEW q, NEW v, NEW found, NEW others,
           DOMAIN found = DOMAIN s, DOMAIN others = DOMAIN s,
           \A j \in DOMAIN s : /\ found[j] \in Findings(S)
                               /\ Mirrors(q, Places2(v, j), found[j], others[j])
    PROVE  Mirrors(q, Places1(v), Join(found), Join(others))
<1> DEFINE places == [j \in DOMAIN s |-> Places2(v, j)]
<1>1. \A j \in DOMAIN s : places[j] = Places2(v, j)
  OBVIOUS
<1> HIDE DEF places
<1>a. \A j : Places2(v, j) \subseteq Places1(v)
  BY PlacesNest
<1>2. \A j \in DOMAIN s : /\ found[j] \in Findings(S) /\ places[j] \subseteq Places1(v)
                          /\ Mirrors(q, places[j], found[j], others[j])
  BY <1>1, <1>a
<1>3. \A k, l \in DOMAIN s : k # l => places[k] \cap places[l] = {}
  BY <1>1, PlacesNest
<1>4. QED
  BY <1>2, <1>3, MirrorsJoinSeq

\* The text of an item, and of a part of it.
LEMMA ItemLeafMirror ==
    ASSUME NEW q, NEW s \in {System, Body}, NEW i \in Nat, NEW kind, NEW turn, NEW text
    PROVE  Mirrors(q, Places2(s, i), Leaf(kind, turn, text, <<s, i>>),
                   Leaf(kind, turn, q.value[s].items[i].content.text, <<s, i>>))
<1>1. s \in Nat
  BY DEF System, Body
<1>2. QED
  BY <1>1, PlaceOfTwo, MirrorsLeaf

LEMMA PartLeafMirror ==
    ASSUME NEW q, NEW i \in Nat, NEW j \in Nat, NEW kind, NEW turn, NEW text
    PROVE  Mirrors(q, Places3(Body, i, j), Leaf(kind, turn, text, <<Body, i, j>>),
                   Leaf(kind, turn, q.value[Body].items[i].content.items[j].content.text,
                        <<Body, i, j>>))
<1>1. Body \in Nat
  BY DEF Body
<1> DEFINE a == <<Body, i, j>>
           other == q.value[Body].items[i].content.items[j].content.text
<1>a. a \in Places3(Body, i, j) /\ a # NoPath
  BY <1>1, PlaceOfThree, Zenon
<1>b. TextAt(q, a) = other
  BY <1>1, PlaceOfThree
<1>2. a \in Places3(Body, i, j) /\ a # NoPath /\ TextAt(q, a) = other
  BY <1>a, <1>b, Zenon
<1> HIDE DEF a, other
<1>3. Mirrors(q, Places3(Body, i, j), Leaf(kind, turn, text, a), Leaf(kind, turn, other, a))
  BY <1>2, MirrorsLeaf
<1>4. QED
  BY <1>3 DEF a, other

LEMMA ContentMirror ==
    ASSUME NEW q, NEW i \in Nat, NEW e, NEW found, NEW others,
           LikePart(e, q.value[Body].items[i]), IsMap(e),
           IsList(e.content) => Mirrors(q, Places2(Body, i), Join(found), Join(others))
    PROVE  Mirrors(q, Places2(Body, i), Content(e, i, found),
                   Content(q.value[Body].items[i], i, others))
<1> DEFINE f == q.value[Body].items[i]
<1>1. f.role = e.role /\ f.content.is = e.content.is
  BY LikeLaws DEF LikePart
<1>2. CASE IsStr(e.content)
  <2>1. /\ Content(e, i, found)
             = Leaf(KindForRole(e.role), i - 1, e.content.text, <<Body, i>>)
        /\ Content(f, i, others)
             = Leaf(KindForRole(e.role), i - 1, f.content.text, <<Body, i>>)
    BY <1>1, <1>2 DEF Content, IsStr, IsList
  <2>2. Body \in {System, Body}
    OBVIOUS
  <2>3. QED
    BY <2>1, <2>2, ItemLeafMirror
<1>3. CASE IsList(e.content)
  <2>1. Content(e, i, found) = Join(found) /\ Content(f, i, others) = Join(others)
    BY <1>1, <1>3 DEF Content, IsStr, IsList
  <2>2. QED
    BY <1>3, <2>1
<1>4. CASE ~IsStr(e.content) /\ ~IsList(e.content)
  <2> DEFINE ok == e.content.is = "null"
  <2>1. Content(e, i, found) = SafeIf(ok, Nothing) /\ Content(f, i, others) = SafeIf(ok, Nothing)
    BY <1>1, <1>4 DEF Content, IsStr, IsList
  <2>2. ok \in BOOLEAN
    OBVIOUS
  <2> HIDE DEF ok
  <2>3. QED
    BY <2>1, <2>2, MirrorsNothing, NoBlocks, MirrorsSafeIf
<1>5. QED
  BY <1>2, <1>3, <1>4

-----------------------------------------------------------------------------
(* Responses, read again.                                                    *)

LEMMA ResponsesPartMirror ==
    ASSUME NEW q, NEW i \in Nat, NEW j \in Nat, NEW kind, NEW e,
           LikePart(e, q.value[Body].items[i].content.items[j])
    PROVE  Mirrors(q, Places3(Body, i, j), ResponsesPart(kind, i, j, e),
                   ResponsesPart(kind, i, j, q.value[Body].items[i].content.items[j]))
<1> DEFINE f == q.value[Body].items[i].content.items[j]
           types == {"input_text", "output_text", "text"}
<1>1. TypeOf(f) = TypeOf(e) /\ IsText(f, types) = IsText(e, types)
  BY LikeLaws, LikeTexts DEF LikePart
<1>2. CASE TypeOf(e) # "unhashable" /\ IsText(e, types)
  <2>1. /\ ResponsesPart(kind, i, j, e) = Leaf(kind, i - 1, e.content.text, <<Body, i, j>>)
        /\ ResponsesPart(kind, i, j, f) = Leaf(kind, i - 1, f.content.text, <<Body, i, j>>)
    BY <1>1, <1>2 DEF ResponsesPart
  <2>2. QED
    BY <2>1, PartLeafMirror
<1>3. CASE TypeOf(e) = "unhashable" \/ ~IsText(e, types)
  <2>1. /\ ResponsesPart(kind, i, j, e) = IF TypeOf(e) = "unhashable" THEN Raises ELSE Unsafe
        /\ ResponsesPart(kind, i, j, f) = IF TypeOf(e) = "unhashable" THEN Raises ELSE Unsafe
    BY <1>1, <1>3 DEF ResponsesPart, IsText
  <2>2. QED
    BY <2>1, MirrorsNothing
<1>4. QED
  BY <1>2, <1>3

LEMMA ResponsesItemMirror ==
    ASSUME NEW p \in Payloads, NEW q, SameShape(p, q), IsList(p.value[Body]),
           NEW i \in DOMAIN p.value[Body].items
    PROVE  Mirrors(q, Places2(Body, i), ResponsesItem(i, p.value[Body].items[i]),
                   ResponsesItem(i, q.value[Body].items[i]))
<1> DEFINE e == p.value[Body].items[i]
           f == q.value[Body].items[i]
           kind == KindForRole(e.role)
           found == [j \in DOMAIN Items(e.content) |-> ResponsesPart(kind, i, j, e.content.items[j])]
           others == [j \in DOMAIN Items(f.content) |-> ResponsesPart(kind, i, j, f.content.items[j])]
<1>0. Body \in {System, Body} /\ kind \in Kinds
  BY RoleKinds
<1>1. i \in Nat /\ (IsMap(e) => e.content \in JsonValue(PartElements))
  BY <1>0, ItemNumber
<1>2. LikePart(e, f) /\ (IsMap(e) => Same2(e.content, f.content))
  BY <1>0, TwinItem
<1>3. /\ TypeOf(f) = TypeOf(e) /\ HasRole(f) = HasRole(e) /\ f.encoded = e.encoded
      /\ IsMap(e) => f.role = e.role /\ f.content.is = e.content.is
  BY <1>2, LikeLaws DEF LikePart
<1>4. ASSUME IsMap(e), IsList(e.content)
      PROVE  Mirrors(q, Places2(Body, i), Join(found), Join(others))
  <2> DEFINE s == e.content.items
  <2>1. s \in Seq(PartElements) /\ Items(e.content) = s
    BY <1>1, <1>4, ValueType DEF Items
  <2>2. /\ Items(f.content) = f.content.items /\ DOMAIN f.content.items = DOMAIN s
        /\ \A j \in DOMAIN s : LikePart(s[j], f.content.items[j])
    <3> DEFINE v == e.content
               w == f.content
    <3>1. Same2(v, w) /\ IsList(v)
      BY <1>2, <1>4
    <3>2. Items(f.content) = IF IsList(w) THEN w.items ELSE <<>>
      BY DEF Items
    <3> HIDE DEF v, w
    <3>3. IsList(w) /\ DOMAIN w.items = DOMAIN v.items /\ \A j \in DOMAIN v.items : LikePart(v.items[j], w.items[j])
      BY <3>1, TwinPart
    <3>4. QED
      BY <3>2, <3>3 DEF v, w
  <2>3. \A j \in DOMAIN s : found[j] \in Findings(Sound(p))
    BY <1>0, <1>4, <2>1, ResponsesPartSound
  <2>4. ASSUME NEW j \in DOMAIN s
        PROVE  Mirrors(q, Places3(Body, i, j), found[j], others[j])
    <3>1. /\ found[j] = ResponsesPart(kind, i, j, s[j])
          /\ others[j] = ResponsesPart(kind, i, j, f.content.items[j])
      BY <2>1, <2>2
    <3>2. j \in Nat
      <4> HIDE DEF s
      <4>1. QED
        BY <2>1, SeqPlace
    <3> HIDE DEF found, others, kind, s
    <3>3. QED
      BY <1>1, <2>2, <3>1, <3>2, ResponsesPartMirror
  <2>5. DOMAIN found = DOMAIN s /\ DOMAIN others = DOMAIN s
    BY <2>1, <2>2
  <2> HIDE DEF s, found, others
  <2>6. QED
    BY <2>1, <2>3, <2>4, <2>5, PartsMirror
<1>5. CASE TypeOf(e) = "function_call_output"
  <2>1. IsMap(e)
    BY <1>5 DEF TypeOf
  <2>2. CASE IsStr(e.content)
    <3>1. /\ ResponsesItem(i, e) = Leaf("tool_output", i - 1, e.content.text, <<Body, i>>)
          /\ ResponsesItem(i, f) = Leaf("tool_output", i - 1, f.content.text, <<Body, i>>)
      BY <1>3, <1>5, <2>1, <2>2 DEF ResponsesItem, IsStr
    <3>2. QED
      BY <1>0, <1>1, <3>1, ItemLeafMirror
  <2>3. CASE ~IsStr(e.content)
    <3>1. ResponsesItem(i, e) = Unsafe /\ ResponsesItem(i, f) = Unsafe
      BY <1>3, <1>5, <2>1, <2>3 DEF ResponsesItem, IsStr
    <3>2. QED
      BY <3>1, MirrorsNothing
  <2>4. QED
    BY <2>2, <2>3
<1>6. CASE TypeOf(e) = "function_call"
  <2>1. /\ ResponsesItem(i, e) = Leaf("tool_call", 0, e.encoded, NoPath)
        /\ ResponsesItem(i, f) = Leaf("tool_call", 0, e.encoded, NoPath)
    BY <1>3, <1>6 DEF ResponsesItem
  <2>2. QED
    BY <2>1, MirrorsFixed
<1>7. CASE TypeOf(e) \notin {"function_call_output", "function_call"}
  <2>1. CASE ~HasRole(e)
    <3>1. ResponsesItem(i, e) = Unsafe /\ ResponsesItem(i, f) = Unsafe
      BY <1>3, <1>7, <2>1 DEF ResponsesItem
    <3>2. QED
      BY <3>1, MirrorsNothing
  <2>2. CASE HasRole(e)
    <3>1. IsMap(e)
      BY <2>2 DEF HasRole, RoleOf
    <3>2. ResponsesItem(i, e) = Content(e, i, found) /\ ResponsesItem(i, f) = Content(f, i, others)
      BY <1>3, <1>7, <2>2, <3>1 DEF ResponsesItem
    <3>3. Mirrors(q, Places2(Body, i), Content(e, i, found), Content(f, i, others))
      <4> HIDE DEF found, others, e, kind
      <4>1. QED
        BY <1>1, <1>2, <1>4, <3>1, ContentMirror
    <3>4. QED
      BY <3>2, <3>3
  <2>3. QED
    BY <2>1, <2>2
<1>8. QED
  BY <1>5, <1>6, <1>7

\* The system text, or the only text of the body.
LEMMA TextMirror ==
    ASSUME NEW q, NEW s \in {System, Body}, NEW kind, NEW turn, NEW text
    PROVE  Mirrors(q, Places1(s), Leaf(kind, turn, text, <<s>>),
                   Leaf(kind, turn, q.value[s].text, <<s>>))
<1>1. s \in Nat
  BY DEF System, Body
<1>2. <<s>> \in Places1(s) /\ <<s>> # NoPath /\ TextAt(q, <<s>>) = q.value[s].text
  BY <1>1, PlaceOfOne
<1>3. QED
  BY <1>2, MirrorsLeaf

LEMMA NullMirror ==
    ASSUME NEW q, NEW P, NEW ok \in BOOLEAN
    PROVE  Mirrors(q, P, SafeIf(ok, Nothing), SafeIf(ok, Nothing))
BY MirrorsNothing, NoBlocks, MirrorsSafeIf

LEMMA ValuesAlike ==
    ASSUME NEW p \in Payloads, NEW q, SameShape(p, q), NEW s \in {System, Body}
    PROVE  /\ q.value[s].is = p.value[s].is
           /\ IsStr(q.value[s]) = IsStr(p.value[s]) /\ IsList(q.value[s]) = IsList(p.value[s])
BY DEF SameShape, Same1, IsStr, IsList

\* All the places of a payload.
Everywhere == Places1(System) \cup Places1(Body)

LEMMA TwoRoots ==
    /\ System \in {System, Body} /\ Body \in {System, Body}
    /\ Places1(System) \subseteq Everywhere /\ Places1(Body) \subseteq Everywhere
    /\ Places1(System) \cap Places1(Body) = {}
BY PlacesNest DEF Everywhere, System, Body

LEMMA ResponsesMirror ==
    ASSUME NEW p \in Payloads, NEW q, SameShape(p, q)
    PROVE  Mirrors(q, Everywhere, Responses(p), Responses(q))
<1> DEFINE v == p.value[Body]
           w == q.value[Body]
           x == p.value[System]
           y == q.value[System]
           found == [i \in DOMAIN v.items |-> ResponsesItem(i, v.items[i])]
           others == [i \in DOMAIN w.items |-> ResponsesItem(i, w.items[i])]
           A(z) == IF IsStr(z) THEN Leaf("system", 0, z.text, <<System>>)
                   ELSE SafeIf(z.is = "null", Nothing)
           C(z, parts) == CASE IsStr(z) -> Leaf("user", 0, z.text, <<Body>>)
                            [] IsList(z) -> Join(parts)
                            [] OTHER -> SafeIf(z.is = "null", Nothing)
           tools == ToolBlocks(p.tools)
<1>1. Responses(p) = Join(<<A(x), tools, C(v, found)>>)
  BY DEF Responses
<1>2. Responses(q) = Join(<<A(y), tools, C(w, others)>>)
  BY DEF Responses, SameShape
<1>3. /\ y.is = x.is /\ IsStr(y) = IsStr(x)
      /\ w.is = v.is /\ IsStr(w) = IsStr(v) /\ IsList(w) = IsList(v)
  BY ValuesAlike, TwoRoots
<1>4. A(x) \in Findings(Sound(p)) /\ Mirrors(q, Places1(System), A(x), A(y))
  <2>1. A(x) \in Findings(Sound(p))
    BY SystemLeaf, SafeIfType, NoBlocks
  <2>2. CASE IsStr(x)
    BY <1>3, <2>1, <2>2, TextMirror, TwoRoots
  <2>3. CASE ~IsStr(x)
    BY <1>3, <2>1, <2>3, NullMirror
  <2>4. QED
    BY <2>1, <2>2, <2>3
<1>5. ASSUME IsList(v)
      PROVE  Join(found) \in Findings(Sound(p)) /\ Mirrors(q, Places1(Body), Join(found), Join(others))
  <2> DEFINE s == v.items
  <2>1. s \in Seq(ItemElements)
    BY <1>5, ItemNumber, TwoRoots
  <2>2. DOMAIN w.items = DOMAIN s
    BY <1>5, TwinItem, TwoRoots
  <2>3. /\ DOMAIN found = DOMAIN s /\ DOMAIN others = DOMAIN s
        /\ \A i \in DOMAIN s : /\ found[i] \in Findings(Sound(p))
                               /\ Mirrors(q, Places2(Body, i), found[i], others[i])
    BY <1>5, <2>2, ResponsesItemSound, ResponsesItemMirror
  <2> HIDE DEF s, found, others
  <2>4. Mirrors(q, Places1(Body), Join(found), Join(others))
    BY <2>1, <2>3, ItemsMirror
  <2>5. Join(found) \in Findings(Sound(p))
    BY <2>1, <2>3, JoinPlaces
  <2>6. QED
    BY <2>4, <2>5
<1>6. C(v, found) \in Findings(Sound(p)) /\ Mirrors(q, Places1(Body), C(v, found), C(w, others))
  <2>1. CASE IsStr(v)
    <3>1. /\ C(v, found) = Leaf("user", 0, v.text, <<Body>>)
          /\ C(w, others) = Leaf("user", 0, w.text, <<Body>>)
      BY <1>3, <2>1 DEF IsStr, IsList
    <3>2. Leaf("user", 0, v.text, <<Body>>) \in Findings(Sound(p))
      <4>1. /\ Points(p, <<Body>>) /\ TextAt(p, <<Body>>) = v.text /\ v.text \in Texts
            /\ <<Body>>[1] = Body /\ Len(<<Body>>) = 1 /\ Body # System
        BY <2>1, Paths12 DEF Body, System
      <4>2. QED
        BY <4>1, LeafAt, Turned, RoleKinds
    <3>3. Mirrors(q, Places1(Body), Leaf("user", 0, v.text, <<Body>>), Leaf("user", 0, w.text, <<Body>>))
      BY TextMirror, TwoRoots
    <3> HIDE DEF C
    <3>4. QED
      BY <3>1, <3>2, <3>3
  <2>2. CASE IsList(v)
    <3>1. C(v, found) = Join(found) /\ C(w, others) = Join(others)
      BY <1>3, <2>2 DEF IsStr, IsList
    <3> HIDE DEF C, found, others
    <3>2. QED
      BY <1>5, <2>2, <3>1
  <2>3. CASE ~IsStr(v) /\ ~IsList(v)
    <3> DEFINE ok == v.is = "null"
    <3>1. C(v, found) = SafeIf(ok, Nothing) /\ C(w, others) = SafeIf(ok, Nothing)
      BY <1>3, <2>3
    <3>2. ok \in BOOLEAN
      OBVIOUS
    <3> HIDE DEF C, found, others, ok
    <3>3. QED
      BY <3>1, <3>2, NullMirror, SafeIfType, NoBlocks
  <2>4. QED
    BY <2>1, <2>2, <2>3
<1>7. tools \in Findings(Sound(p)) /\ Mirrors(q, {}, tools, tools)
  BY ToolBlocksSound, ToolBlocksMirror
<1> HIDE DEF A, C, found, others, tools
<1>8. QED
  BY <1>1, <1>2, <1>4, <1>6, <1>7, MirrorsThree, TwoRoots

\* The content of an item, and of the item read again.
LEMMA TwinContent ==
    ASSUME NEW p \in Payloads, NEW q, SameShape(p, q), IsList(p.value[Body]),
           NEW i \in DOMAIN p.value[Body].items, IsMap(p.value[Body].items[i])
    PROVE  /\ i \in Nat /\ p.value[Body].items[i].content \in JsonValue(PartElements)
           /\ Same2(p.value[Body].items[i].content, q.value[Body].items[i].content)
<1>0. Body \in {System, Body}
  OBVIOUS
<1>1. i \in Nat /\ p.value[Body].items[i].content \in JsonValue(PartElements)
  BY <1>0, ItemNumber
<1>2. Same2(p.value[Body].items[i].content, q.value[Body].items[i].content)
  BY <1>0, TwinItem
<1>3. QED
  BY <1>1, <1>2

\* The parts of the one, and of the other.
LEMMA TwinParts ==
    ASSUME NEW v \in JsonValue(PartElements), NEW w, Same2(v, w), IsList(v),
           NEW s, s = v.items, NEW t, t = w.items
    PROVE  /\ s \in Seq(PartElements) /\ Items(v) = s /\ Items(w) = t /\ IsList(w)
           /\ DOMAIN t = DOMAIN s /\ t = [j \in DOMAIN s |-> t[j]]
           /\ \A j \in DOMAIN s : /\ j \in Nat /\ LikePart(s[j], t[j])
                                  /\ IsMap(s[j]) => Same3(s[j].content, t[j].content)
<1>1. s \in Seq(PartElements)
  BY ValueType
<1>2. /\ IsList(w) /\ DOMAIN t = DOMAIN s /\ t = [j \in DOMAIN s |-> t[j]]
      /\ \A j \in DOMAIN s : /\ LikePart(s[j], t[j])
                             /\ IsMap(s[j]) => Same3(s[j].content, t[j].content)
  BY TwinPart
<1>3. \A j \in DOMAIN s : j \in Nat
  BY <1>1, SeqPlace
<1>4. Items(v) = s /\ Items(w) = t
  BY <1>2 DEF Items
<1>5. QED
  BY <1>1, <1>2, <1>3, <1>4

-----------------------------------------------------------------------------
(* Chat completions, read again.                                             *)

LEMMA ChatPartMirror ==
    ASSUME NEW q, NEW i \in Nat, NEW j \in Nat, NEW kind, NEW e,
           LikePart(e, q.value[Body].items[i].content.items[j])
    PROVE  Mirrors(q, Places3(Body, i, j), ChatPart(kind, i, j, e),
                   ChatPart(kind, i, j, q.value[Body].items[i].content.items[j]))
<1> DEFINE f == q.value[Body].items[i].content.items[j]
<1>1. IsText(f, {"text"}) = IsText(e, {"text"})
  BY LikeTexts
<1>2. CASE IsText(e, {"text"})
  <2>1. /\ ChatPart(kind, i, j, e) = Leaf(kind, i - 1, e.content.text, <<Body, i, j>>)
        /\ ChatPart(kind, i, j, f) = Leaf(kind, i - 1, f.content.text, <<Body, i, j>>)
    BY <1>1, <1>2 DEF ChatPart
  <2>2. QED
    BY <2>1, PartLeafMirror
<1>3. CASE ~IsText(e, {"text"})
  <2>1. ChatPart(kind, i, j, e) = Unsafe /\ ChatPart(kind, i, j, f) = Unsafe
    BY <1>1, <1>3 DEF ChatPart
  <2>2. QED
    BY <2>1, MirrorsNothing
<1>4. QED
  BY <1>2, <1>3

LEMMA ChatMessageMirror ==
    ASSUME NEW p \in Payloads, NEW q, SameShape(p, q), IsList(p.value[Body]),
           NEW i \in DOMAIN p.value[Body].items
    PROVE  Mirrors(q, Places2(Body, i), ChatMessage(i, p.value[Body].items[i]),
                   ChatMessage(i, q.value[Body].items[i]))
<1> DEFINE e == p.value[Body].items[i]
           f == q.value[Body].items[i]
           kind == KindForRole(e.role)
           found == [j \in DOMAIN Items(e.content) |-> ChatPart(kind, i, j, e.content.items[j])]
           others == [j \in DOMAIN Items(f.content) |-> ChatPart(kind, i, j, f.content.items[j])]
           A == Content(e, i, found)
           C == Content(f, i, others)
           B(m) == CASE "calls" \in m.marks -> Leaf("tool_call", i - 1, m.encoded, NoPath)
                     [] OTHER -> SafeIf("bad_calls" \notin m.marks, Nothing)
<1>0. Body \in {System, Body} /\ kind \in Kinds
  BY RoleKinds
<1>1. i \in Nat /\ LikePart(e, f)
  BY <1>0, ItemNumber, TwinItem
<1>3. /\ HasRole(f) = HasRole(e) /\ f.encoded = e.encoded
      /\ IsMap(e) => f.role = e.role /\ f.marks = e.marks
  BY <1>1, LikeLaws DEF LikePart
<1>4. ASSUME IsMap(e), IsList(e.content)
      PROVE  /\ Join(found) \in Findings(Sound(p))
             /\ Mirrors(q, Places2(Body, i), Join(found), Join(others))
  <2> DEFINE s == e.content.items
             t == f.content.items
  <2>1. /\ s \in Seq(PartElements) /\ Items(e.content) = s /\ Items(f.content) = t
        /\ DOMAIN t = DOMAIN s
        /\ \A j \in DOMAIN s : j \in Nat /\ LikePart(s[j], t[j])
    <3> DEFINE v == e.content
               w == f.content
    <3>1. v \in JsonValue(PartElements) /\ Same2(v, w) /\ IsList(v)
      BY <1>4, TwinContent
    <3>2. s = v.items /\ t = w.items
      OBVIOUS
    <3> HIDE DEF s, t, v, w
    <3>3. s \in Seq(PartElements) /\ DOMAIN t = DOMAIN s
      BY <3>1, <3>2, TwinParts
    <3>4. Items(v) = s /\ Items(w) = t
      BY <3>1, <3>2, TwinParts
    <3>5. \A j \in DOMAIN s : j \in Nat /\ LikePart(s[j], t[j])
      BY <3>1, <3>2, TwinParts
    <3>6. QED
      BY <3>3, <3>4, <3>5 DEF v, w
  <2>3. \A j \in DOMAIN s : found[j] \in Findings(Sound(p))
    BY <1>0, <1>4, <2>1, ChatPartSound
  <2>4. ASSUME NEW j \in DOMAIN s
        PROVE  Mirrors(q, Places3(Body, i, j), found[j], others[j])
    <3>1. found[j] = ChatPart(kind, i, j, s[j]) /\ others[j] = ChatPart(kind, i, j, t[j])
      BY <2>1
    <3> HIDE DEF found, others, kind, s
    <3>3. QED
      BY <1>1, <2>1, <3>1, ChatPartMirror
  <2>5. DOMAIN found = DOMAIN s /\ DOMAIN others = DOMAIN s
    BY <2>1
  <2> HIDE DEF s, found, others
  <2>6. Mirrors(q, Places2(Body, i), Join(found), Join(others))
    BY <2>1, <2>3, <2>4, <2>5, PartsMirror
  <2>7. QED
    BY <2>1, <2>3, <2>5, <2>6, JoinPlaces
<1>5. CASE ~HasRole(e)
  <2>1. ChatMessage(i, e) = Unsafe /\ ChatMessage(i, f) = Unsafe
    BY <1>3, <1>5 DEF ChatMessage
  <2>2. QED
    BY <2>1, MirrorsNothing
<1>6. CASE HasRole(e)
  <2>1. IsMap(e)
    BY <1>6 DEF HasRole, RoleOf
  <2>2. ChatMessage(i, e) = Join(<<A, B(e)>>) /\ ChatMessage(i, f) = Join(<<C, B(f)>>)
    BY <1>3, <1>6, <2>1 DEF ChatMessage
  <2>3. Mirrors(q, Places2(Body, i), A, C)
    <3> HIDE DEF found, others, e, kind
    <3>1. QED
      BY <1>1, <1>4, <2>1, ContentMirror
  <2>4. A \in Findings(Sound(p))
    <3> HIDE DEF found
    <3>1. QED
      BY <1>4, <2>1, ContentSound
  <2>5. B(e) \in Findings(Sound(p)) /\ Mirrors(q, {}, B(e), B(f))
    <3>1. CASE "calls" \in e.marks
      <4>1. /\ B(e) = Leaf("tool_call", i - 1, e.encoded, NoPath)
            /\ B(f) = Leaf("tool_call", i - 1, e.encoded, NoPath)
        BY <1>3, <2>1, <3>1
      <4>2. Leaf("tool_call", i - 1, e.encoded, NoPath) \in Findings(Sound(p))
        BY ItemsOf, LeafAlone, RoleKinds
      <4> HIDE DEF B
      <4>3. QED
        BY <4>1, <4>2, MirrorsFixed
    <3>2. CASE "calls" \notin e.marks
      <4> DEFINE ok == "bad_calls" \notin e.marks
      <4>1. B(e) = SafeIf(ok, Nothing) /\ B(f) = SafeIf(ok, Nothing) /\ ok \in BOOLEAN
        BY <1>3, <2>1, <3>2
      <4> HIDE DEF B, ok
      <4>2. QED
        BY <4>1, NullMirror, SafeIfType, NoBlocks
    <3>3. QED
      BY <3>1, <3>2
  <2> HIDE DEF A, B, C
  <2>6. QED
    <3>1. {} \subseteq Places2(Body, i) /\ Places2(Body, i) \cap {} = {}
      OBVIOUS
    <3>2. QED
      BY <2>2, <2>3, <2>4, <2>5, <3>1, MirrorsTwo
<1>7. QED
  BY <1>5, <1>6

\* The items of the body, from what holds of one.
LEMMA BodyMirror ==
    ASSUME NEW p \in Payloads, NEW q, SameShape(p, q), IsList(p.value[Body]),
           NEW found, DOMAIN found = DOMAIN p.value[Body].items,
           NEW others, DOMAIN others = DOMAIN q.value[Body].items,
           \A i \in DOMAIN p.value[Body].items :
              /\ found[i] \in Findings(Sound(p))
              /\ Mirrors(q, Places2(Body, i), found[i], others[i])
    PROVE  /\ Join(found) \in Findings(Sound(p))
           /\ Mirrors(q, Places1(Body), Join(found), Join(others))
<1> DEFINE s == p.value[Body].items
<1>1. s \in Seq(ItemElements) /\ DOMAIN others = DOMAIN s
  BY ItemNumber, TwinItem, TwoRoots
<1>2. DOMAIN found = DOMAIN s
      /\ \A i \in DOMAIN s : /\ found[i] \in Findings(Sound(p))
                             /\ Mirrors(q, Places2(Body, i), found[i], others[i])
  OBVIOUS
<1> HIDE DEF s
<1>3. Join(found) \in Findings(Sound(p))
  BY <1>1, <1>2, JoinPlaces
<1>4. Mirrors(q, Places1(Body), Join(found), Join(others))
  BY <1>1, <1>2, ItemsMirror
<1>5. QED
  BY <1>3, <1>4

LEMMA ChatCompletionsMirror ==
    ASSUME NEW p \in Payloads, NEW q, SameShape(p, q)
    PROVE  Mirrors(q, Everywhere, ChatCompletions(p), ChatCompletions(q))
<1> DEFINE v == p.value[Body]
           w == q.value[Body]
           found == [i \in DOMAIN v.items |-> ChatMessage(i, v.items[i])]
           others == [i \in DOMAIN w.items |-> ChatMessage(i, w.items[i])]
           tools == ToolBlocks(p.tools)
           A == IF IsList(v) THEN Join(found) ELSE Unsafe
           C == IF IsList(w) THEN Join(others) ELSE Unsafe
<1>1. ChatCompletions(p) = Join(<<tools, A>>) /\ ChatCompletions(q) = Join(<<tools, C>>)
  BY DEF ChatCompletions, SameShape
<1>2. IsList(w) = IsList(v)
  BY ValuesAlike, TwoRoots
<1>3. A \in Findings(Sound(p)) /\ Mirrors(q, Places1(Body), A, C)
  <2>1. CASE IsList(v)
    <3>1. /\ DOMAIN found = DOMAIN v.items /\ DOMAIN others = DOMAIN w.items
          /\ \A i \in DOMAIN v.items : found[i] \in Findings(Sound(p))
      BY <2>1, ChatMessageSound
    <3>2. ASSUME NEW i \in DOMAIN v.items
          PROVE  Mirrors(q, Places2(Body, i), found[i], others[i])
      <4>1. DOMAIN w.items = DOMAIN v.items
        BY <2>1, TwinItem, TwoRoots
      <4>2. found[i] = ChatMessage(i, v.items[i]) /\ others[i] = ChatMessage(i, w.items[i])
        BY <4>1
      <4> HIDE DEF found, others
      <4>3. QED
        BY <2>1, <4>2, ChatMessageMirror
    <3> HIDE DEF found, others
    <3>3. QED
      BY <1>2, <2>1, <3>1, <3>2, BodyMirror
  <2>2. CASE ~IsList(v)
    BY <1>2, <2>2, MirrorsNothing, NoBlocks
  <2>3. QED
    BY <2>1, <2>2
<1>4. tools \in Findings(Sound(p)) /\ Mirrors(q, {}, tools, tools)
  BY ToolBlocksSound, ToolBlocksMirror
<1> HIDE DEF tools, A, C
<1>5. QED
  <2>1. {} \subseteq Everywhere /\ {} \cap Places1(Body) = {}
    OBVIOUS
  <2>2. QED
    BY <1>1, <1>3, <1>4, <2>1, MirrorsTwo, TwoRoots

-----------------------------------------------------------------------------
(* Anthropic messages, read again.                                           *)

\* A block that may lose its path, and one that has none.
LEMMA SafeIfTrue ==
    ASSUME NEW kind, NEW turn, NEW text, NEW path
    PROVE  SafeIf(TRUE, Leaf(kind, turn, text, path)) = Leaf(kind, turn, text, path)
<1> DEFINE f == Leaf(kind, turn, text, path)
<1>1. /\ f = [blocks |-> f.blocks, safe |-> f.safe, raises |-> f.raises]
      /\ f.safe = TRUE
  BY DEF Leaf
<1> HIDE DEF f
<1>2. SafeIf(TRUE, f) = [blocks |-> f.blocks, safe |-> f.safe /\ TRUE, raises |-> f.raises]
  BY <1>1, SafeIfForm
<1>3. f.safe /\ TRUE <=> f.safe
  OBVIOUS
<1>4. QED
  BY <1>1, <1>2, <1>3 DEF f

LEMMA MirrorsEither ==
    ASSUME NEW q, NEW P, NEW kind, NEW turn, NEW text, NEW other, NEW path \in P,
           path # NoPath, TextAt(q, path) = other, NEW ok \in BOOLEAN
    PROVE  Mirrors(q, P, SafeIf(ok, Leaf(kind, turn, text, IF ok THEN path ELSE NoPath)),
                         SafeIf(ok, Leaf(kind, turn, other, IF ok THEN path ELSE NoPath)))
<1>1. CASE ok = TRUE
  <2>1. Mirrors(q, P, Leaf(kind, turn, text, path), Leaf(kind, turn, other, path))
    BY MirrorsLeaf
  <2>2. QED
    BY <1>1, <2>1, SafeIfTrue
<1>2. CASE ok = FALSE
  BY <1>2, MirrorsRefused
<1>3. QED
  BY <1>1, <1>2

LEMMA MirrorsOpaque ==
    ASSUME NEW q, NEW P, NEW kind, NEW turn, NEW text, NEW ok \in BOOLEAN
    PROVE  Mirrors(q, P, SafeIf(ok, Leaf(kind, turn, text, NoPath)),
                         SafeIf(ok, Leaf(kind, turn, text, NoPath)))
<1>1. CASE ok = TRUE
  BY <1>1, SafeIfTrue, MirrorsFixed
<1>2. CASE ok = FALSE
  BY <1>2, MirrorsRefused
<1>3. QED
  BY <1>1, <1>2

LEMMA QuotableMirror ==
    ASSUME NEW q, NEW P, NEW e, NEW f, f.marks = e.marks, NEW ok \in BOOLEAN, NEW kind,
           NEW turn, NEW path \in P, path # NoPath, TextAt(q, path) = f.content.text
    PROVE  Mirrors(q, P, Quotable(e, ok, kind, turn, path), Quotable(f, ok, kind, turn, path))
<1> DEFINE free == ok /\ ~Cited(e)
<1>1. free \in BOOLEAN
  OBVIOUS
<1>2. /\ Quotable(e, ok, kind, turn, path)
           = SafeIf(free, Leaf(kind, turn, e.content.text, IF free THEN path ELSE NoPath))
      /\ Quotable(f, ok, kind, turn, path)
           = SafeIf(free, Leaf(kind, turn, f.content.text, IF free THEN path ELSE NoPath))
  BY DEF Quotable, Cited
<1> HIDE DEF free
<1>3. QED
  BY <1>1, <1>2, MirrorsEither

LEMMA SchemaBlocksMirror ==
    ASSUME NEW p \in Payloads, NEW q, NEW refused
    PROVE  Mirrors(q, {}, SchemaBlocks(p.tools, refused), SchemaBlocks(p.tools, refused))
<1> DEFINE s == p.tools.items
           Free(j) == s[j].marks \cap refused = {}
           One(j) == IF IsMap(s[j])
                     THEN SafeIf(Free(j), Leaf("tool_schema", 0, s[j].encoded, NoPath))
                     ELSE Unsafe
           found == [j \in DOMAIN s |-> One(j)]
           places == [j \in DOMAIN s |-> {}]
<1>1. CASE IsList(p.tools)
  <2>1. s \in Seq(ItemElements)
    BY <1>1, PayloadType, ValueType
  <2>2. ASSUME NEW j \in DOMAIN s
        PROVE  One(j) \in Findings(Sound(p)) /\ Mirrors(q, {}, One(j), One(j))
    <3>1. s[j] \in ItemElements
      BY <2>1, SeqPlace
    <3>2. s[j].encoded \in Texts
      BY <3>1, ElementType DEF ItemElements
    <3>3. Leaf("tool_schema", 0, s[j].encoded, NoPath) \in Findings(Sound(p))
      BY <3>2, LeafAlone, RoleKinds, Turned
    <3>4. One(j) \in Findings(Sound(p))
      BY <3>3, SafeIfType, NoBlocks
    <3>5. CASE IsMap(s[j])
      <4>1. One(j) = SafeIf(Free(j), Leaf("tool_schema", 0, s[j].encoded, NoPath))
            /\ Free(j) \in BOOLEAN
        BY <3>5
      <4> HIDE DEF One, Free, s
      <4>2. QED
        BY <3>4, <4>1, MirrorsOpaque
    <3>6. CASE ~IsMap(s[j])
      BY <3>4, <3>6, MirrorsNothing
    <3>7. QED
      BY <3>5, <3>6
  <2>3. /\ DOMAIN found = DOMAIN s
        /\ \A j \in DOMAIN s : /\ places[j] = {} /\ found[j] \in Findings(Sound(p))
                               /\ Mirrors(q, {}, found[j], found[j])
    BY <2>2
  <2>4. SchemaBlocks(p.tools, refused) = Join(found)
    BY <1>1 DEF SchemaBlocks, IsList
  <2>5. Mirrors(q, {}, Join(found), Join(found))
    <3> HIDE DEF s, found, places
    <3>1. \A j \in DOMAIN s : /\ found[j] \in Findings(Sound(p)) /\ places[j] \subseteq {}
                              /\ Mirrors(q, places[j], found[j], found[j])
      BY <2>3
    <3>2. \A k, l \in DOMAIN s : k # l => places[k] \cap places[l] = {}
      BY <2>3
    <3>3. QED
      BY <2>1, <2>3, <3>1, <3>2, MirrorsJoinSeq
  <2>6. QED
    BY <2>4, <2>5
<1>2. CASE ~IsList(p.tools)
  BY <1>2, MirrorsNothing DEF SchemaBlocks
<1>3. QED
  BY <1>1, <1>2

LEMMA AnthropicSystemMirror ==
    ASSUME NEW p \in Payloads, NEW q, SameShape(p, q)
    PROVE  Mirrors(q, Places1(System), AnthropicSystem(p.value[System]),
                   AnthropicSystem(q.value[System]))
<1> DEFINE x == p.value[System]
           y == q.value[System]
           One(z, j) == IF IsText(z.items[j], {"text"})
                        THEN Quotable(z.items[j], TRUE, "system", 0, <<System, j>>)
                        ELSE Unsafe
           found == [j \in DOMAIN x.items |-> One(x, j)]
           others == [j \in DOMAIN y.items |-> One(y, j)]
<1>0. System \in {System, Body} /\ System \in Nat
  BY DEF System
<1>1. y.is = x.is /\ IsStr(y) = IsStr(x) /\ IsList(y) = IsList(x)
  BY ValuesAlike, <1>0
<1>2. CASE IsStr(x)
  <2>1. /\ AnthropicSystem(x) = Leaf("system", 0, x.text, <<System>>)
        /\ AnthropicSystem(y) = Leaf("system", 0, y.text, <<System>>)
    BY <1>1, <1>2 DEF AnthropicSystem, IsStr, IsList
  <2>2. QED
    BY <1>0, <2>1, TextMirror
<1>3. CASE IsList(x)
  <2> DEFINE s == x.items
             t == y.items
  <2>1. AnthropicSystem(x) = Join(found) /\ AnthropicSystem(y) = Join(others)
    BY <1>1, <1>3 DEF AnthropicSystem, IsStr, IsList
  <2>2. /\ s \in Seq(ItemElements) /\ DOMAIN t = DOMAIN s
        /\ \A j \in DOMAIN s : j \in Nat /\ LikePart(s[j], t[j])
    <3>1. s \in Seq(ItemElements) /\ \A j \in DOMAIN s : j \in Nat
      BY <1>0, <1>3, ItemNumber
    <3>2. DOMAIN t = DOMAIN s /\ \A j \in DOMAIN s : LikePart(s[j], t[j])
      BY <1>0, <1>3, TwinItem
    <3>3. QED
      BY <3>1, <3>2
  <2>3. ASSUME NEW j \in DOMAIN s
        PROVE  Mirrors(q, Places2(System, j), One(x, j), One(y, j))
    <3> DEFINE e == s[j]
               f == t[j]
               path == <<System, j>>
    <3>1. IsText(f, {"text"}) = IsText(e, {"text"}) /\ (IsMap(e) => f.marks = e.marks)
      BY <2>2, LikeTexts, LikeLaws DEF LikePart
    <3>2. CASE IsText(e, {"text"})
      <4>1. IsMap(e)
        BY <3>2, TypedIsMap
      <4>2. /\ path \in Places2(System, j) /\ path # NoPath
            /\ TextAt(q, path) = f.content.text
        BY <1>0, <2>2, PlaceOfTwo
      <4>3. /\ One(x, j) = Quotable(e, TRUE, "system", 0, path)
            /\ One(y, j) = Quotable(f, TRUE, "system", 0, path)
        BY <3>1, <3>2
      <4> HIDE DEF One, e, f, path
      <4>4. QED
        BY <3>1, <4>1, <4>2, <4>3, QuotableMirror
    <3>3. CASE ~IsText(e, {"text"})
      <4>1. One(x, j) = Unsafe /\ One(y, j) = Unsafe
        BY <3>1, <3>3
      <4> HIDE DEF One
      <4>2. QED
        BY <4>1, MirrorsNothing
    <3>4. QED
      BY <3>2, <3>3
  <2>4. ASSUME NEW j \in DOMAIN s PROVE One(x, j) \in Findings(Sound(p))
    <3> DEFINE e == s[j]
    <3>1. CASE IsText(e, {"text"})
      <4>1. IsMap(e) /\ IsStr(e.content)
        BY <3>1, TypedIsMap
      <4>2. /\ Leaf("system", 0, e.content.text, <<System, j>>) \in Findings(Sound(p))
            /\ Leaf("system", 0, e.content.text, NoPath) \in Findings(Sound(p))
        BY <1>3, <4>1, SystemLeaf
      <4>3. Quotable(e, TRUE, "system", 0, <<System, j>>) \in Findings(Sound(p))
        BY <4>2, QuotableSound
      <4>4. QED
        BY <3>1, <4>3
    <3>2. CASE ~IsText(e, {"text"})
      BY <3>2, NoBlocks
    <3>3. QED
      BY <3>1, <3>2
  <2>5. /\ DOMAIN found = DOMAIN s /\ DOMAIN others = DOMAIN s
        /\ \A j \in DOMAIN s : /\ found[j] \in Findings(Sound(p))
                               /\ Mirrors(q, Places2(System, j), found[j], others[j])
    BY <2>2, <2>3, <2>4
  <2> HIDE DEF found, others, s, t
  <2>6. QED
    BY <2>1, <2>2, <2>5, ItemsMirror
<1>4. CASE ~IsStr(x) /\ ~IsList(x)
  <2>1. /\ AnthropicSystem(x) = IF x.is = "null" THEN Nothing ELSE Unsafe
        /\ AnthropicSystem(y) = IF x.is = "null" THEN Nothing ELSE Unsafe
    BY <1>1, <1>4 DEF AnthropicSystem
  <2>2. QED
    BY <2>1, MirrorsNothing
<1>5. QED
  BY <1>2, <1>3, <1>4

LEMMA ReadFour ==
    ASSUME NEW q, NEW path, path[1] = Body, Len(path) = 4
    PROVE  TextAt(q, path) = Sub(Sub(Sub(q.value[Body], path[2]), path[3]), path[4]).text
BY DEF TextAt, Read1, Read2, Read3, Read4

\* A part of an item.
PartAt(q, i, j) == q.value[Body].items[i].content.items[j]

LEMMA NestedLeafMirror ==
    ASSUME NEW q, NEW i \in Nat, NEW j \in Nat, NEW k \in Nat, NEW e, NEW f,
           f = PartAt(q, i, j).content.items[k],
           f.marks = e.marks, NEW ok \in BOOLEAN, NEW kind, NEW turn
    PROVE  Mirrors(q, Places4(Body, i, j, k), Quotable(e, ok, kind, turn, <<Body, i, j, k>>),
                   Quotable(f, ok, kind, turn, <<Body, i, j, k>>))
<1> DEFINE a == <<Body, i, j, k>>
<1>1. Body \in Nat
  BY DEF Body
<1>2. a \in Seq(Nat) /\ a[1] = Body /\ a[2] = i /\ a[3] = j /\ a[4] = k /\ Len(a) = 4
  BY <1>1, LongPaths
<1>3. a # <<>>
  BY <1>2
<1> HIDE DEF a
<1>4. Sub(Sub(Sub(q.value[Body], i), j), k) = f.content
  BY DEF Sub, PartAt
<1>5. TextAt(q, a) = Sub(Sub(Sub(q.value[Body], a[2]), a[3]), a[4]).text
  BY <1>2, ReadFour
<1>6. TextAt(q, a) = f.content.text
  BY <1>2, <1>4, <1>5
<1>7. a \in Places4(Body, i, j, k) /\ a # NoPath
  BY <1>2, <1>3 DEF Places4, NoPath
<1>8. Mirrors(q, Places4(Body, i, j, k), Quotable(e, ok, kind, turn, a),
              Quotable(f, ok, kind, turn, a))
  BY <1>6, <1>7, QuotableMirror
<1>9. QED
  BY <1>8 DEF a

LEMMA NestedMirror ==
    ASSUME NEW S, NEW E, NEW s \in Seq(E), NEW q, NEW i \in Nat, NEW j \in Nat,
           NEW found, NEW others, DOMAIN found = DOMAIN s, DOMAIN others = DOMAIN s,
           \A k \in DOMAIN s : /\ found[k] \in Findings(S)
                               /\ Mirrors(q, Places4(Body, i, j, k), found[k], others[k])
    PROVE  Mirrors(q, Places3(Body, i, j), Join(found), Join(others))
<1> DEFINE places == [k \in DOMAIN s |-> Places4(Body, i, j, k)]
<1>1. \A k \in DOMAIN s : places[k] = Places4(Body, i, j, k)
  OBVIOUS
<1>a. \A k : /\ Places4(Body, i, j, k) \subseteq Places3(Body, i, j)
              /\ \A l : l # k => Places4(Body, i, j, k) \cap Places4(Body, i, j, l) = {}
  BY DEF Places3, Places4
<1> HIDE DEF places
<1>2. \A k \in DOMAIN s : /\ found[k] \in Findings(S) /\ places[k] \subseteq Places3(Body, i, j)
                          /\ Mirrors(q, places[k], found[k], others[k])
  BY <1>1, <1>a
<1>3. \A k, l \in DOMAIN s : k # l => places[k] \cap places[l] = {}
  BY <1>1, <1>a
<1>4. QED
  BY <1>2, <1>3, MirrorsJoinSeq

\* The texts nested in a part are blocks of the payload.
Nests(p, i, j, e) ==
    \A kind \in Kinds : \A k \in DOMAIN e.content.items :
       IsList(e.content) /\ IsText(e.content.items[k], {"text"})
          => /\ Leaf(kind, i - 1, e.content.items[k].content.text, <<Body, i, j, k>>)
                   \in Findings(Sound(p))
             /\ Leaf(kind, i - 1, e.content.items[k].content.text, NoPath) \in Findings(Sound(p))

LEMMA AnthropicToolResultMirror ==
    ASSUME NEW p \in Payloads, NEW q, NEW i \in Nat, NEW j \in Nat, NEW role,
           NEW e \in PartElements, IsMap(e), NEW f,
           f = PartAt(q, i, j), LikePart(e, f),
           Same3(e.content, f.content),
           Nests(p, i, j, e)
    PROVE  Mirrors(q, Places3(Body, i, j), AnthropicToolResult(i, j, role, e),
                   AnthropicToolResult(i, j, role, f))
<1> DEFINE v == e.content
           w == f.content
           s == v.items
           t == w.items
           valid == role = "user" /\ "invalid" \notin e.marks
           path == <<Body, i, j>>
           One(k, n) == IF IsText(n, {"text"})
                        THEN Quotable(n, valid, "tool_output", i - 1, <<Body, i, j, k>>)
                        ELSE Unsafe
           found == [k \in DOMAIN s |-> One(k, s[k])]
           others == [k \in DOMAIN t |-> One(k, t[k])]
<1>0. valid \in BOOLEAN /\ "tool_output" \in Kinds /\ Body \in Nat
  BY RoleKinds DEF Body
<1>1. f.marks = e.marks /\ w.is = v.is
  BY LikeLaws DEF LikePart
<1>2. CASE IsStr(v)
  <2>1. /\ AnthropicToolResult(i, j, role, e)
             = SafeIf(valid, Leaf("tool_output", i - 1, v.text, IF valid THEN path ELSE NoPath))
        /\ AnthropicToolResult(i, j, role, f)
             = SafeIf(valid, Leaf("tool_output", i - 1, w.text, IF valid THEN path ELSE NoPath))
    BY <1>1, <1>2 DEF AnthropicToolResult, IsStr, IsList
  <2>2. path \in Places3(Body, i, j) /\ path # NoPath /\ TextAt(q, path) = w.text
    BY <1>0, PlaceOfThree DEF PartAt
  <2> HIDE DEF path, valid, v, w
  <2>3. QED
    BY <1>0, <2>1, <2>2, MirrorsEither
<1>3. CASE IsList(v)
  <2>1. /\ AnthropicToolResult(i, j, role, e) = SafeIf(valid, Join(found))
        /\ AnthropicToolResult(i, j, role, f) = SafeIf(valid, Join(others))
    BY <1>1, <1>3 DEF AnthropicToolResult, IsStr, IsList
  <2>2. s \in Seq(NestedElements)
    BY <1>3, ElementType, ValueType DEF PartElements
  <2>3. DOMAIN t = DOMAIN s /\ \A k \in DOMAIN s : LikePart(s[k], t[k])
    <3> HIDE DEF v, w
    <3>1. Same3(v, w)
      BY DEF v, w
    <3>2. QED
      BY <1>3, <3>1, TwinNested
  <2>4. \A k \in DOMAIN s : k \in Nat
    BY <2>2, SeqPlace
  <2>5. ASSUME NEW k \in DOMAIN s
        PROVE  /\ One(k, s[k]) \in Findings(Sound(p))
               /\ Mirrors(q, Places4(Body, i, j, k), One(k, s[k]), One(k, t[k]))
    <3> DEFINE m == s[k]
               n == t[k]
    <3>1. IsText(n, {"text"}) = IsText(m, {"text"}) /\ (IsMap(m) => n.marks = m.marks)
      <4>1. LikePart(m, n)
        BY <2>3
      <4> HIDE DEF m, n
      <4>2. QED
        BY <4>1, LikeTexts, LikeLaws DEF LikePart
    <3>2. CASE IsText(m, {"text"})
      <4>1. IsMap(m)
        BY <3>2, TypedIsMap
      <4>2. /\ One(k, m) = Quotable(m, valid, "tool_output", i - 1, <<Body, i, j, k>>)
            /\ One(k, n) = Quotable(n, valid, "tool_output", i - 1, <<Body, i, j, k>>)
        BY <3>1, <3>2
      <4>3. /\ Leaf("tool_output", i - 1, m.content.text, <<Body, i, j, k>>) \in Findings(Sound(p))
            /\ Leaf("tool_output", i - 1, m.content.text, NoPath) \in Findings(Sound(p))
        BY <1>0, <1>3, <3>2 DEF Nests
      <4>4. k \in Nat /\ n = PartAt(q, i, j).content.items[k]
        BY <2>4
      <4> HIDE DEF m, n, One, valid
      <4>5. One(k, m) \in Findings(Sound(p))
        BY <1>0, <4>2, <4>3, QuotableSound
      <4>6. n.marks = m.marks
        BY <3>1, <4>1
      <4>7. Mirrors(q, Places4(Body, i, j, k), One(k, m), One(k, n))
        BY <1>0, <4>2, <4>4, <4>6, NestedLeafMirror
      <4>8. QED
        BY <4>5, <4>7 DEF m, n
    <3>3. CASE ~IsText(m, {"text"})
      <4>1. One(k, m) = Unsafe /\ One(k, n) = Unsafe
        BY <3>1, <3>3
      <4> HIDE DEF One
      <4>2. QED
        BY <4>1, MirrorsNothing, NoBlocks
    <3>4. QED
      BY <3>2, <3>3
  <2>6. /\ DOMAIN found = DOMAIN s /\ DOMAIN others = DOMAIN s
        /\ \A k \in DOMAIN s : /\ found[k] \in Findings(Sound(p))
                               /\ Mirrors(q, Places4(Body, i, j, k), found[k], others[k])
    BY <2>3, <2>5
  <2> HIDE DEF found, others, s, t, valid
  <2>7. Mirrors(q, Places3(Body, i, j), Join(found), Join(others))
    BY <2>2, <2>6, NestedMirror
  <2>8. Join(found) \in Findings(Sound(p))
    BY <2>2, <2>6, JoinPlaces
  <2>9. QED
    BY <1>0, <2>1, <2>7, <2>8, MirrorsSafeIf
<1>4. CASE ~IsStr(v) /\ ~IsList(v)
  <2>1. AnthropicToolResult(i, j, role, e) = Unsafe /\ AnthropicToolResult(i, j, role, f) = Unsafe
    BY <1>1, <1>4 DEF AnthropicToolResult, IsStr, IsList
  <2>2. QED
    BY <2>1, MirrorsNothing
<1>5. QED
  BY <1>2, <1>3, <1>4

LEMMA AnthropicPartMirror ==
    ASSUME NEW p \in Payloads, NEW q, NEW i \in Nat, NEW j \in Nat, NEW role,
           NEW e \in PartElements, NEW f, f = PartAt(q, i, j),
           LikePart(e, f), IsMap(e) => Same3(e.content, f.content),
           IsMap(e) => Nests(p, i, j, e)
    PROVE  Mirrors(q, Places3(Body, i, j), AnthropicPart(i, j, role, e),
                   AnthropicPart(i, j, role, f))
<1>0. TypeOf(e) # "no object" => IsMap(e)
  BY DEF TypeOf
<1>1. /\ TypeOf(f) = TypeOf(e) /\ f.encoded = e.encoded
      /\ IsMap(e) => f.marks = e.marks /\ IsStr(f.content) = IsStr(e.content)
  BY LikeLaws, LikeTexts DEF LikePart
<1>2. CASE TypeOf(e) = "text"
  <2>1. CASE IsStr(e.content)
    <3> DEFINE path == <<Body, i, j>>
    <3>1. /\ AnthropicPart(i, j, role, e) = Quotable(e, TRUE, role, i - 1, path)
          /\ AnthropicPart(i, j, role, f) = Quotable(f, TRUE, role, i - 1, path)
      BY <1>0, <1>1, <1>2, <2>1 DEF AnthropicPart
    <3>2. Body \in Nat
      BY DEF Body
    <3>3. path \in Places3(Body, i, j) /\ path # NoPath /\ TextAt(q, path) = f.content.text
      BY <3>2, PlaceOfThree DEF PartAt
    <3>4. f.marks = e.marks
      BY <1>0, <1>1, <1>2
    <3> HIDE DEF path
    <3>5. QED
      BY <3>1, <3>3, <3>4, QuotableMirror
  <2>2. CASE ~IsStr(e.content)
    <3>1. AnthropicPart(i, j, role, e) = Unsafe /\ AnthropicPart(i, j, role, f) = Unsafe
      BY <1>0, <1>1, <1>2, <2>2 DEF AnthropicPart
    <3>2. QED
      BY <3>1, MirrorsNothing
  <2>3. QED
    BY <2>1, <2>2
<1>3. CASE TypeOf(e) = "tool_use"
  <2> DEFINE ok == role = "assistant" /\ "invalid" \notin e.marks
  <2>1. /\ AnthropicPart(i, j, role, e) = SafeIf(ok, Leaf("tool_call", i - 1, e.encoded, NoPath))
        /\ AnthropicPart(i, j, role, f) = SafeIf(ok, Leaf("tool_call", i - 1, e.encoded, NoPath))
        /\ ok \in BOOLEAN
    BY <1>0, <1>1, <1>3 DEF AnthropicPart
  <2> HIDE DEF ok
  <2>2. QED
    BY <2>1, MirrorsOpaque
<1>4. CASE TypeOf(e) = "tool_result"
  <2>1. /\ AnthropicPart(i, j, role, e) = AnthropicToolResult(i, j, role, e)
        /\ AnthropicPart(i, j, role, f) = AnthropicToolResult(i, j, role, f)
    BY <1>1, <1>4 DEF AnthropicPart
  <2>2. IsMap(e)
    BY <1>0, <1>4
  <2>3. QED
    BY <2>1, <2>2, AnthropicToolResultMirror
<1>5. CASE TypeOf(e) \in {"thinking", "redacted_thinking"}
  <2>1. /\ AnthropicPart(i, j, role, e)
             = SafeIf(FALSE, Leaf("protocol_state", i - 1, e.encoded, NoPath))
        /\ AnthropicPart(i, j, role, f)
             = SafeIf(FALSE, Leaf("protocol_state", i - 1, e.encoded, NoPath))
    BY <1>1, <1>5 DEF AnthropicPart
  <2>2. QED
    BY <2>1, MirrorsOpaque
<1>6. CASE TypeOf(e) \notin {"text", "tool_use", "tool_result", "thinking", "redacted_thinking"}
  <2>1. /\ AnthropicPart(i, j, role, e) = IF TypeOf(e) = "unhashable" THEN Raises ELSE Unsafe
        /\ AnthropicPart(i, j, role, f) = IF TypeOf(e) = "unhashable" THEN Raises ELSE Unsafe
    BY <1>1, <1>6 DEF AnthropicPart
  <2>2. QED
    BY <2>1, MirrorsNothing
<1>7. QED
  BY <1>2, <1>3, <1>4, <1>5, <1>6

LEMMA AnthropicMessageMirror ==
    ASSUME NEW p \in Payloads, NEW q, SameShape(p, q), IsList(p.value[Body]),
           NEW i \in DOMAIN p.value[Body].items
    PROVE  Mirrors(q, Places2(Body, i), AnthropicMessage(i, p.value[Body].items[i]),
                   AnthropicMessage(i, q.value[Body].items[i]))
<1> DEFINE e == p.value[Body].items[i]
           f == q.value[Body].items[i]
           s == e.content.items
           t == f.content.items
           found == [j \in DOMAIN s |-> AnthropicPart(i, j, e.role, s[j])]
           others == [j \in DOMAIN t |-> AnthropicPart(i, j, e.role, t[j])]
<1>0. Body \in {System, Body}
  OBVIOUS
<1>1. i \in Nat /\ LikePart(e, f)
  BY <1>0, ItemNumber, TwinItem
<1>2. /\ RoleOf(f) = RoleOf(e)
      /\ IsMap(e) => f.role = e.role /\ f.content.is = e.content.is
  BY <1>1, LikeLaws DEF LikePart
<1>3. CASE RoleOf(e) \in {"user", "assistant"}
  <2>1. IsMap(e) /\ e.role \in {"user", "assistant"}
    BY <1>3 DEF RoleOf
  <2>2. CASE IsStr(e.content)
    <3>1. /\ AnthropicMessage(i, e) = Leaf(e.role, i - 1, e.content.text, <<Body, i>>)
          /\ AnthropicMessage(i, f) = Leaf(e.role, i - 1, f.content.text, <<Body, i>>)
      BY <1>2, <1>3, <2>1, <2>2 DEF AnthropicMessage, IsStr, IsList
    <3>2. QED
      BY <1>0, <1>1, <3>1, ItemLeafMirror
  <2>3. CASE IsList(e.content)
    <3>1. AnthropicMessage(i, e) = Join(found) /\ AnthropicMessage(i, f) = Join(others)
      BY <1>2, <1>3, <2>1, <2>3 DEF AnthropicMessage, IsStr, IsList
    <3>2. /\ s \in Seq(PartElements) /\ DOMAIN t = DOMAIN s
          /\ \A j \in DOMAIN s : /\ j \in Nat /\ LikePart(s[j], t[j])
                                 /\ IsMap(s[j]) => Same3(s[j].content, t[j].content)
      <4> DEFINE v == e.content
                 w == f.content
      <4>1. v \in JsonValue(PartElements) /\ Same2(v, w) /\ IsList(v)
        BY <2>1, <2>3, TwinContent
      <4>2. s = v.items /\ t = w.items
        OBVIOUS
      <4> HIDE DEF s, t, v, w
      <4>3. s \in Seq(PartElements) /\ DOMAIN t = DOMAIN s
        BY <4>1, <4>2, TwinParts
      <4>4. \A j \in DOMAIN s : j \in Nat /\ LikePart(s[j], t[j])
        BY <4>1, <4>2, TwinParts
      <4>5. \A j \in DOMAIN s : IsMap(s[j]) => Same3(s[j].content, t[j].content)
        BY <4>1, <4>2, TwinParts
      <4>6. QED
        BY <4>3, <4>4, <4>5
    <3>3. \A j \in DOMAIN s : found[j] \in Findings(Sound(p))
      BY <2>1, <2>3, AnthropicPartSound
    <3>4. ASSUME NEW j \in DOMAIN s
          PROVE  Mirrors(q, Places3(Body, i, j), found[j], others[j])
      <4>1. /\ found[j] = AnthropicPart(i, j, e.role, s[j])
            /\ others[j] = AnthropicPart(i, j, e.role, t[j])
        BY <3>2
      <4>2. s[j] \in PartElements
        <5> HIDE DEF s
        <5>1. QED
          BY <3>2, SeqPlace
      <4>3. IsMap(s[j]) => Nests(p, i, j, s[j])
        BY <2>1, <2>3, PartLeaf, TypedIsMap DEF Nests
      <4>4. t[j] = q.value[Body].items[i].content.items[j]
        OBVIOUS
      <4> DEFINE m == s[j]
                 n == t[j]
                 role == e.role
      <4>5. m \in PartElements /\ LikePart(m, n) /\ j \in Nat
        BY <3>2, <4>2
      <4>6. (IsMap(m) => Same3(m.content, n.content)) /\ (IsMap(m) => Nests(p, i, j, m))
        BY <3>2, <4>3
      <4>a. n = PartAt(q, i, j)
        BY <4>4 DEF PartAt
      <4> HIDE DEF m, n, role
      <4>7. Mirrors(q, Places3(Body, i, j), AnthropicPart(i, j, role, m),
                    AnthropicPart(i, j, role, n))
        BY <1>1, <4>5, <4>6, <4>a, AnthropicPartMirror
      <4>8. QED
        BY <4>1, <4>7 DEF m, n, role
    <3>5. DOMAIN found = DOMAIN s /\ DOMAIN others = DOMAIN s
      BY <3>2
    <3> HIDE DEF found, others, s, t
    <3>6. QED
      BY <3>1, <3>2, <3>3, <3>4, <3>5, PartsMirror
  <2>4. CASE ~IsStr(e.content) /\ ~IsList(e.content)
    <3>1. AnthropicMessage(i, e) = Unsafe /\ AnthropicMessage(i, f) = Unsafe
      BY <1>2, <1>3, <2>1, <2>4 DEF AnthropicMessage, IsStr, IsList
    <3>2. QED
      BY <3>1, MirrorsNothing
  <2>5. QED
    BY <2>2, <2>3, <2>4
<1>4. CASE RoleOf(e) \notin {"user", "assistant"}
  <2>1. /\ AnthropicMessage(i, e) = IF RoleOf(e) = "unhashable" THEN Raises ELSE Unsafe
        /\ AnthropicMessage(i, f) = IF RoleOf(e) = "unhashable" THEN Raises ELSE Unsafe
    BY <1>2, <1>4 DEF AnthropicMessage
  <2>2. QED
    BY <2>1, MirrorsNothing
<1>5. QED
  BY <1>3, <1>4

LEMMA AnthropicMessagesMirror ==
    ASSUME NEW p \in Payloads, NEW q, SameShape(p, q)
    PROVE  Mirrors(q, Everywhere, AnthropicMessages(p), AnthropicMessages(q))
<1> DEFINE v == p.value[Body]
           w == q.value[Body]
           found == [i \in DOMAIN v.items |-> AnthropicMessage(i, v.items[i])]
           others == [i \in DOMAIN w.items |-> AnthropicMessage(i, w.items[i])]
           tools == SchemaBlocks(p.tools, {})
           x == AnthropicSystem(p.value[System])
           y == AnthropicSystem(q.value[System])
           A == IF IsList(v) THEN Join(found) ELSE Unsafe
           C == IF IsList(w) THEN Join(others) ELSE Unsafe
<1>1. /\ AnthropicMessages(p) = Join(<<x, tools, A>>)
      /\ AnthropicMessages(q) = Join(<<y, tools, C>>)
  BY DEF AnthropicMessages, SameShape
<1>2. IsList(w) = IsList(v)
  BY ValuesAlike, TwoRoots
<1>3. A \in Findings(Sound(p)) /\ Mirrors(q, Places1(Body), A, C)
  <2>1. CASE IsList(v)
    <3>1. /\ DOMAIN found = DOMAIN v.items /\ DOMAIN others = DOMAIN w.items
          /\ \A i \in DOMAIN v.items : found[i] \in Findings(Sound(p))
      BY <2>1, AnthropicMessageSound
    <3>2. ASSUME NEW i \in DOMAIN v.items
          PROVE  Mirrors(q, Places2(Body, i), found[i], others[i])
      <4>1. DOMAIN w.items = DOMAIN v.items
        BY <2>1, TwinItem, TwoRoots
      <4>2. found[i] = AnthropicMessage(i, v.items[i]) /\ others[i] = AnthropicMessage(i, w.items[i])
        BY <4>1
      <4> HIDE DEF found, others
      <4>3. QED
        BY <2>1, <4>2, AnthropicMessageMirror
    <3> HIDE DEF found, others
    <3>3. QED
      BY <1>2, <2>1, <3>1, <3>2, BodyMirror
  <2>2. CASE ~IsList(v)
    BY <1>2, <2>2, MirrorsNothing, NoBlocks
  <2>3. QED
    BY <2>1, <2>2
<1>4. tools \in Findings(Sound(p)) /\ Mirrors(q, {}, tools, tools)
  BY SchemaBlocksSound, SchemaBlocksMirror
<1>5. x \in Findings(Sound(p)) /\ Mirrors(q, Places1(System), x, y)
  BY AnthropicSystemSound, AnthropicSystemMirror
<1> HIDE DEF tools, A, C, x, y
<1>6. QED
  BY <1>1, <1>3, <1>4, <1>5, MirrorsThree, TwoRoots

-----------------------------------------------------------------------------
(* Gemini generateContent, read again.                                       *)

\* Sequences over the same places are empty together.
LEMMA EmptyAlike ==
    ASSUME NEW S, NEW s \in Seq(S), s # <<>>, NEW t, DOMAIN t = DOMAIN s
    PROVE  t # <<>>
<1>1. 1 \in DOMAIN s
  OBVIOUS
<1>2. DOMAIN <<>> = {}
  OBVIOUS
<1>3. QED
  BY <1>1, <1>2

LEMMA EmptyTwin ==
    ASSUME NEW s, s = <<>>, NEW t, t = [k \in DOMAIN s |-> t[k]]
    PROVE  t = <<>>
<1>1. DOMAIN s = {} /\ <<>> = [k \in {} |-> t[k]]
  OBVIOUS
<1>2. QED
  BY <1>1

LEMMA GeminiSystemMirror ==
    ASSUME NEW p \in Payloads, NEW q, SameShape(p, q)
    PROVE  Mirrors(q, Places1(System), GeminiSystem(p.value[System]),
                   GeminiSystem(q.value[System]))
<1> DEFINE x == p.value[System]
           y == q.value[System]
           One(z, j) == IF Pure(z.items[j])
                        THEN Leaf("system", 0, z.items[j].content.text, <<System, j>>)
                        ELSE Unsafe
           found == [j \in DOMAIN x.items |-> One(x, j)]
           others == [j \in DOMAIN y.items |-> One(y, j)]
<1>0. System \in {System, Body} /\ System \in Nat
  BY DEF System
<1>1. y.is = x.is /\ IsList(y) = IsList(x)
  BY ValuesAlike, <1>0
<1>2. CASE IsList(x) /\ x.items # <<>>
  <2> DEFINE s == x.items
             t == y.items
  <2>1. /\ s \in Seq(ItemElements) /\ DOMAIN t = DOMAIN s
        /\ \A j \in DOMAIN s : j \in Nat /\ LikePart(s[j], t[j])
    <3>1. s \in Seq(ItemElements) /\ \A j \in DOMAIN s : j \in Nat
      BY <1>0, <1>2, ItemNumber
    <3>2. DOMAIN t = DOMAIN s /\ \A j \in DOMAIN s : LikePart(s[j], t[j])
      BY <1>0, <1>2, TwinItem
    <3>3. QED
      BY <3>1, <3>2
  <2>2. t # <<>>
    <3> HIDE DEF s, t
    <3>1. s # <<>>
      BY <1>2 DEF s
    <3>2. QED
      BY <2>1, <3>1, EmptyAlike
  <2>3. GeminiSystem(x) = Join(found) /\ GeminiSystem(y) = Join(others)
    BY <1>1, <1>2, <2>2 DEF GeminiSystem, IsList
  <2>4. ASSUME NEW j \in DOMAIN s
        PROVE  Mirrors(q, Places2(System, j), One(x, j), One(y, j))
    <3>1. Pure(t[j]) = Pure(s[j])
      <4> DEFINE m == s[j]
                 n == t[j]
      <4>1. LikePart(m, n)
        BY <2>1
      <4> HIDE DEF m, n
      <4>2. Pure(n) = Pure(m)
        BY <4>1, LikeTexts
      <4>3. QED
        BY <4>2 DEF m, n
    <3>2. CASE Pure(s[j])
      <4>1. /\ One(x, j) = Leaf("system", 0, s[j].content.text, <<System, j>>)
            /\ One(y, j) = Leaf("system", 0, t[j].content.text, <<System, j>>)
        BY <3>1, <3>2
      <4>2. j \in Nat
        BY <2>1
      <4>3. Mirrors(q, Places2(System, j), Leaf("system", 0, s[j].content.text, <<System, j>>),
                    Leaf("system", 0, t[j].content.text, <<System, j>>))
        BY <1>0, <4>2, ItemLeafMirror
      <4> HIDE DEF One
      <4>4. QED
        BY <4>1, <4>3
    <3>3. CASE ~Pure(s[j])
      <4>1. One(x, j) = Unsafe /\ One(y, j) = Unsafe
        BY <3>1, <3>3
      <4> HIDE DEF One
      <4>2. QED
        BY <4>1, MirrorsNothing
    <3>4. QED
      BY <3>2, <3>3
  <2>5. ASSUME NEW j \in DOMAIN s PROVE One(x, j) \in Findings(Sound(p))
    <3>1. CASE Pure(s[j])
      <4>1. IsMap(s[j]) /\ IsStr(s[j].content)
        BY <3>1, TypedIsMap DEF Pure
      <4>2. Leaf("system", 0, s[j].content.text, <<System, j>>) \in Findings(Sound(p))
        BY <1>2, <4>1, SystemLeaf
      <4>3. QED
        BY <3>1, <4>2
    <3>2. CASE ~Pure(s[j])
      BY <3>2, NoBlocks
    <3>3. QED
      BY <3>1, <3>2
  <2>6. /\ DOMAIN found = DOMAIN s /\ DOMAIN others = DOMAIN s
        /\ \A j \in DOMAIN s : /\ found[j] \in Findings(Sound(p))
                               /\ Mirrors(q, Places2(System, j), found[j], others[j])
    BY <2>1, <2>4, <2>5
  <2> HIDE DEF found, others, s, t
  <2>7. QED
    BY <2>1, <2>3, <2>6, ItemsMirror
<1>3. CASE ~(IsList(x) /\ x.items # <<>>)
  <2>1. ~(IsList(y) /\ y.items # <<>>)
    <3>1. CASE ~IsList(x)
      BY <1>1, <3>1
    <3>2. CASE IsList(x) /\ x.items = <<>>
      <4>1. y.items = [k \in DOMAIN x.items |-> y.items[k]]
        BY <3>2 DEF SameShape, Same1, Paired
      <4>2. QED
        BY <3>2, <4>1, EmptyTwin
    <3>3. QED
      BY <1>3, <3>1, <3>2
  <2>2. /\ GeminiSystem(x) = IF x.is = "null" THEN Nothing ELSE Unsafe
        /\ GeminiSystem(y) = IF x.is = "null" THEN Nothing ELSE Unsafe
    BY <1>1, <1>3, <2>1 DEF GeminiSystem
  <2>3. QED
    BY <2>2, MirrorsNothing
<1>4. QED
  BY <1>2, <1>3

LEMMA GeminiPartMirror ==
    ASSUME NEW q, NEW i \in Nat, NEW j \in Nat, NEW role, NEW e,
           LikePart(e, q.value[Body].items[i].content.items[j])
    PROVE  Mirrors(q, Places3(Body, i, j), GeminiPart(i, j, role, e),
                   GeminiPart(i, j, role, q.value[Body].items[i].content.items[j]))
<1> DEFINE f == q.value[Body].items[i].content.items[j]
           kind == IF role = "model" THEN "assistant" ELSE "user"
           ok == role = "model" /\ e.marks \cap {"extra", "invalid"} = {}
           state == IF role \in {"user", "function"} /\ e.marks \cap {"extra", "invalid"} = {}
                    THEN "tool_output" ELSE "protocol_state"
           A == SafeIf(ok, Leaf("tool_call", i - 1, e.encoded, NoPath))
           B == SafeIf(FALSE, Leaf(state, i - 1, e.encoded, NoPath))
           D == SafeIf(FALSE, Leaf("protocol_state", i - 1, e.encoded, NoPath))
<1>0. LikePart(e, f)
  OBVIOUS
<1> HIDE DEF f
<1>1. /\ TypeOf(f) = TypeOf(e) /\ f.encoded = e.encoded
      /\ TypeOf(e) # "no object" => f.marks = e.marks
  <2>1. LikeElement(e, f)
    BY <1>0 DEF LikePart
  <2>2. TypeOf(f) = TypeOf(e) /\ f.encoded = e.encoded
    BY <2>1, LikeLaws
  <2>3. IsMap(e) => f.marks = e.marks
    BY <2>1, LikeLaws
  <2>4. TypeOf(e) # "no object" => IsMap(e)
    BY DEF TypeOf
  <2>5. QED
    BY <2>2, <2>3, <2>4
<1>a. Pure(f) = Pure(e)
  BY <1>0, LikeTexts
<1>2. CASE TypeOf(e) = "thought"
  <2>1. GeminiPart(i, j, role, e) = D /\ GeminiPart(i, j, role, f) = D
    BY <1>1, <1>2 DEF GeminiPart
  <2>2. QED
    BY <2>1, MirrorsOpaque DEF f
<1>3. CASE TypeOf(e) = "text"
  <2>1. CASE role \in {"user", "model"} /\ Pure(e)
    <3>1. /\ GeminiPart(i, j, role, e) = Leaf(kind, i - 1, e.content.text, <<Body, i, j>>)
          /\ GeminiPart(i, j, role, f) = Leaf(kind, i - 1, f.content.text, <<Body, i, j>>)
      BY <1>1, <1>a, <1>3, <2>1 DEF GeminiPart
    <3> HIDE DEF kind
    <3>2. QED
      BY <3>1, PartLeafMirror DEF f
  <2>2. CASE ~(role \in {"user", "model"} /\ Pure(e))
    <3>1. GeminiPart(i, j, role, e) = Unsafe /\ GeminiPart(i, j, role, f) = Unsafe
      BY <1>1, <1>a, <1>3, <2>2 DEF GeminiPart
    <3>2. QED
      BY <3>1, MirrorsNothing DEF f
  <2>3. QED
    BY <2>1, <2>2
<1>4. CASE TypeOf(e) = "functionCall"
  <2>1. f.marks = e.marks
    BY <1>1, <1>4
  <2>2. GeminiPart(i, j, role, e) = A /\ GeminiPart(i, j, role, f) = A /\ ok \in BOOLEAN
    BY <1>1, <1>4, <2>1 DEF GeminiPart
  <2> HIDE DEF ok
  <2>3. Mirrors(q, Places3(Body, i, j), A, A)
    BY <2>2, MirrorsOpaque
  <2> HIDE DEF A
  <2>4. QED
    BY <2>2, <2>3 DEF f
<1>5. CASE TypeOf(e) = "functionResponse"
  <2>1. f.marks = e.marks
    BY <1>1, <1>5
  <2>2. GeminiPart(i, j, role, e) = B /\ GeminiPart(i, j, role, f) = B
    BY <1>1, <1>5, <2>1 DEF GeminiPart
  <2> HIDE DEF state
  <2>3. Mirrors(q, Places3(Body, i, j), B, B)
    BY MirrorsOpaque
  <2> HIDE DEF B
  <2>4. QED
    BY <2>2, <2>3 DEF f
<1>6. CASE TypeOf(e) \notin {"thought", "text", "functionCall", "functionResponse"}
  <2>1. GeminiPart(i, j, role, e) = Unsafe /\ GeminiPart(i, j, role, f) = Unsafe
    BY <1>1, <1>6 DEF GeminiPart
  <2>2. QED
    BY <2>1, MirrorsNothing DEF f
<1>7. QED
  BY <1>2, <1>3, <1>4, <1>5, <1>6 DEF f

LEMMA GeminiContentMirror ==
    ASSUME NEW p \in Payloads, NEW q, SameShape(p, q), IsList(p.value[Body]),
           NEW i \in DOMAIN p.value[Body].items
    PROVE  Mirrors(q, Places2(Body, i), GeminiContent(i, p.value[Body].items[i]),
                   GeminiContent(i, q.value[Body].items[i]))
<1> DEFINE e == p.value[Body].items[i]
           f == q.value[Body].items[i]
           s == e.content.items
           t == f.content.items
           roleless == \A j \in DOMAIN s : Pure(s[j])
           role == IF e.role = "none" THEN "user" ELSE e.role
           found == [j \in DOMAIN s |-> GeminiPart(i, j, role, s[j])]
           others == [j \in DOMAIN t |-> GeminiPart(i, j, role, t[j])]
           Case(parts, joined) ==
              CASE parts = <<>> -> Unsafe
                [] parts # <<>> /\ e.role = "none" /\ ~roleless -> Unsafe
                [] parts # <<>> /\ role = "unhashable" -> Raises
                [] parts # <<>> /\ role \in {"user", "model", "function"}
                   /\ (e.role = "none" => roleless) -> joined
                [] OTHER -> Unsafe
<1>0. Body \in {System, Body}
  OBVIOUS
<1>1. i \in Nat /\ LikePart(e, f)
  BY <1>0, ItemNumber, TwinItem
<1>2. /\ IsMap(f) = IsMap(e)
      /\ IsMap(e) => f.role = e.role /\ IsList(f.content) = IsList(e.content)
  BY <1>1, LikeLaws, LikeTexts DEF LikePart
<1>3. CASE ~IsMap(e) \/ ~IsList(e.content)
  <2>1. GeminiContent(i, e) = Unsafe /\ GeminiContent(i, f) = Unsafe
    BY <1>2, <1>3 DEF GeminiContent
  <2>2. QED
    BY <2>1, MirrorsNothing
<1>4. CASE IsMap(e) /\ IsList(e.content)
  <2>1. /\ s \in Seq(PartElements) /\ DOMAIN t = DOMAIN s /\ t = [j \in DOMAIN s |-> t[j]]
        /\ \A j \in DOMAIN s : j \in Nat /\ LikePart(s[j], t[j])
    <3> DEFINE v == e.content
               w == f.content
    <3>1. v \in JsonValue(PartElements) /\ Same2(v, w) /\ IsList(v)
      BY <1>4, TwinContent
    <3>2. s = v.items /\ t = w.items
      OBVIOUS
    <3> HIDE DEF s, t, v, w
    <3>3. s \in Seq(PartElements) /\ DOMAIN t = DOMAIN s
      BY <3>1, <3>2, TwinParts
    <3>4. \A j \in DOMAIN s : j \in Nat /\ LikePart(s[j], t[j])
      BY <3>1, <3>2, TwinParts
    <3>5. t = [j \in DOMAIN s |-> t[j]]
      BY <3>1, <3>2, TwinParts
    <3>6. QED
      BY <3>3, <3>4, <3>5
  <2>2. (t = <<>>) = (s = <<>>)
    <3> HIDE DEF s, t
    <3>1. s # <<>> => t # <<>>
      BY <2>1, EmptyAlike
    <3>2. s = <<>> => t = <<>>
      BY <2>1, EmptyTwin
    <3>3. QED
      BY <3>1, <3>2
  <2>3. \A j \in DOMAIN s : Pure(t[j]) = Pure(s[j])
    <3> HIDE DEF s, t
    <3>1. QED
      BY <2>1, LikeTexts
  <2>4. GeminiContent(i, e) = Case(s, Join(found))
    BY <1>4 DEF GeminiContent
  <2>5. GeminiContent(i, f) = Case(t, Join(others))
    <3>1. (\A j \in DOMAIN t : Pure(t[j])) = roleless
      BY <2>1, <2>3
    <3>2. GeminiContent(i, f)
             = CASE t = <<>> -> Unsafe
                 [] t # <<>> /\ f.role = "none" /\ ~(\A j \in DOMAIN t : Pure(t[j])) -> Unsafe
                 [] t # <<>> /\ role = "unhashable" -> Raises
                 [] t # <<>> /\ role \in {"user", "model", "function"}
                    /\ (f.role = "none" => \A j \in DOMAIN t : Pure(t[j])) -> Join(others)
                 [] OTHER -> Unsafe
      BY <1>2, <1>4 DEF GeminiContent
    <3> HIDE DEF roleless, role, others, t
    <3>3. QED
      BY <1>2, <1>4, <3>1, <3>2
  <2>6. Mirrors(q, Places2(Body, i), Join(found), Join(others))
    <3>1. \A j \in DOMAIN s : found[j] \in Findings(Sound(p))
      BY <1>4, GeminiPartSound
    <3>2. ASSUME NEW j \in DOMAIN s
          PROVE  Mirrors(q, Places3(Body, i, j), found[j], others[j])
      <4>1. found[j] = GeminiPart(i, j, role, s[j]) /\ others[j] = GeminiPart(i, j, role, t[j])
        BY <2>1
      <4>2. j \in Nat /\ LikePart(s[j], t[j])
        BY <2>1
      <4> HIDE DEF found, others, role, s
      <4>3. QED
        BY <1>1, <4>1, <4>2, GeminiPartMirror
    <3>3. DOMAIN found = DOMAIN s /\ DOMAIN others = DOMAIN s
      BY <2>1
    <3> HIDE DEF found, others, s, t
    <3>4. QED
      BY <2>1, <3>1, <3>2, <3>3, PartsMirror
  <2> HIDE DEF found, others, s, t, role, roleless
  <2>7. CASE Case(s, Join(found)) = Join(found) /\ Case(t, Join(others)) = Join(others)
    BY <2>4, <2>5, <2>6, <2>7
  <2>8. CASE Case(s, Join(found)) = Unsafe /\ Case(t, Join(others)) = Unsafe
    BY <2>4, <2>5, <2>8, MirrorsNothing
  <2>9. CASE Case(s, Join(found)) = Raises /\ Case(t, Join(others)) = Raises
    BY <2>4, <2>5, <2>9, MirrorsNothing
  <2>10. \/ Case(s, Join(found)) = Join(found) /\ Case(t, Join(others)) = Join(others)
         \/ Case(s, Join(found)) = Unsafe /\ Case(t, Join(others)) = Unsafe
         \/ Case(s, Join(found)) = Raises /\ Case(t, Join(others)) = Raises
    BY <2>2
  <2> HIDE DEF Case
  <2>11. QED
    BY <2>7, <2>8, <2>9, <2>10
<1>5. QED
  BY <1>3, <1>4

LEMMA GeminiGenerateContentMirror ==
    ASSUME NEW p \in Payloads, NEW q, SameShape(p, q)
    PROVE  Mirrors(q, Everywhere, GeminiGenerateContent(p), GeminiGenerateContent(q))
<1> DEFINE v == p.value[Body]
           w == q.value[Body]
           found == [i \in DOMAIN v.items |-> GeminiContent(i, v.items[i])]
           others == [i \in DOMAIN w.items |-> GeminiContent(i, w.items[i])]
           tools == SchemaBlocks(p.tools, {"extra", "invalid"})
           x == GeminiSystem(p.value[System])
           y == GeminiSystem(q.value[System])
           A == IF ~IsList(v) THEN Unsafe ELSE SafeIf(v.items # <<>>, Join(found))
           C == IF ~IsList(w) THEN Unsafe ELSE SafeIf(w.items # <<>>, Join(others))
           known == p.cached # "invalid"
           cached == SafeIf(known, Nothing)
<1>1. /\ GeminiGenerateContent(p) = Join(<<cached, x, tools, A>>)
      /\ GeminiGenerateContent(q) = Join(<<cached, y, tools, C>>)
  BY DEF GeminiGenerateContent, SameShape
<1>2. IsList(w) = IsList(v)
  BY ValuesAlike, TwoRoots
<1>3. A \in Findings(Sound(p)) /\ Mirrors(q, Places1(Body), A, C)
  <2>1. CASE IsList(v)
    <3>1. /\ DOMAIN found = DOMAIN v.items /\ DOMAIN others = DOMAIN w.items
          /\ \A i \in DOMAIN v.items : found[i] \in Findings(Sound(p))
      BY <2>1, GeminiContentSound
    <3>2. ASSUME NEW i \in DOMAIN v.items
          PROVE  Mirrors(q, Places2(Body, i), found[i], others[i])
      <4>1. DOMAIN w.items = DOMAIN v.items
        BY <2>1, TwinItem, TwoRoots
      <4>2. found[i] = GeminiContent(i, v.items[i]) /\ others[i] = GeminiContent(i, w.items[i])
        BY <4>1
      <4> HIDE DEF found, others
      <4>3. QED
        BY <2>1, <4>2, GeminiContentMirror
    <3>3. (w.items # <<>>) = (v.items # <<>>)
      <4> DEFINE s == v.items
                 t == w.items
      <4>1. t = [k \in DOMAIN s |-> t[k]]
        BY <2>1 DEF SameShape, Same1, Paired
      <4>2. s \in Seq(ItemElements) /\ DOMAIN t = DOMAIN s
        BY <2>1, ItemNumber, TwinItem, TwoRoots
      <4> HIDE DEF s, t
      <4>3. s # <<>> => t # <<>>
        BY <4>2, EmptyAlike
      <4>4. s = <<>> => t = <<>>
        BY <4>1, EmptyTwin
      <4>5. QED
        BY <4>3, <4>4 DEF s, t
    <3> DEFINE any == v.items # <<>>
    <3>4. A = SafeIf(any, Join(found)) /\ C = SafeIf(any, Join(others)) /\ any \in BOOLEAN
      BY <1>2, <2>1, <3>3
    <3> HIDE DEF found, others, any
    <3>5. /\ Join(found) \in Findings(Sound(p))
          /\ Mirrors(q, Places1(Body), Join(found), Join(others))
      BY <1>2, <2>1, <3>1, <3>2, BodyMirror
    <3> HIDE DEF A, C
    <3>6. A \in Findings(Sound(p))
      BY <3>4, <3>5, SafeIfType
    <3>7. Mirrors(q, Places1(Body), A, C)
      BY <3>4, <3>5, MirrorsSafeIf
    <3>8. QED
      BY <3>6, <3>7
  <2>2. CASE ~IsList(v)
    <3>1. A = Unsafe /\ C = Unsafe
      BY <1>2, <2>2
    <3> HIDE DEF A, C
    <3>2. QED
      BY <3>1, MirrorsNothing, NoBlocks
  <2>3. QED
    BY <2>1, <2>2
<1>4. tools \in Findings(Sound(p)) /\ Mirrors(q, {}, tools, tools)
  BY SchemaBlocksSound, SchemaBlocksMirror
<1>5. x \in Findings(Sound(p)) /\ Mirrors(q, Places1(System), x, y)
  BY GeminiSystemSound, GeminiSystemMirror
<1>6. cached \in Findings(Sound(p)) /\ Mirrors(q, {}, cached, cached)
  <2>1. known \in BOOLEAN
    OBVIOUS
  <2> HIDE DEF known
  <2>2. QED
    BY <2>1, NullMirror, SafeIfType, NoBlocks
<1> HIDE DEF tools, A, C, x, y, cached
<1>7. QED
  BY <1>1, <1>3, <1>4, <1>5, <1>6, MirrorsFour, TwoRoots

\* Whatever the payload, one of the same shape is parsed alike: the same blocks
\* in places of their own, with the texts found there.
THEOREM ParseMirrors ==
    ASSUME NEW p \in Payloads, NEW q, SameShape(p, q), NEW protocol \in Protocols
    PROVE  Mirrors(q, Everywhere, Parse(protocol, p), Parse(protocol, q))
BY ResponsesMirror, ChatCompletionsMirror, AnthropicMessagesMirror, GeminiGenerateContentMirror
   DEF Parse, Protocols
===============================================================================
