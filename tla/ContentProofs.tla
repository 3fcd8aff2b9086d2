---------------------------- MODULE ContentProofs ----------------------------
(***************************************************************************)
(* Proofs about HtmlBody and Content, for every set of fragments an email  *)
(* can be made of, every image and every value of the bounds.              *)
(*                                                                         *)
(* Each pass of the renderer rewrites a sequence token by token, so the    *)
(* module first proves, by induction, what such a rewriting keeps          *)
(* (RewriteKeeps, KeepKeeps), and then of each pass that it keeps what is  *)
(* Solid: text and marks.  The induction takes the least counterexample    *)
(* out of a set (LeastElement, SetInduction, SeqInduction).  The last part *)
(* is the inductive invariant IInv, which ties the message to the email it *)
(* was rendered from.                                                      *)
(***************************************************************************)
EXTENDS Content, SequenceTheorems, WellFoundedInduction, TLAPS

-----------------------------------------------------------------------------
(* Induction, and sequences put together from pieces.                      *)

Below == {p \in Nat \X Nat : p[1] < p[2]}

\* The order of the natural numbers is well founded.
LEMMA BelowWellFounded == IsWellFoundedOn(Below, Nat)
BY NatLessThanWellFounded, Zenon DEF OpToRel, Below

\* A set of natural numbers has a least element.
LEMMA LeastElement ==
    ASSUME NEW T, T \subseteq Nat, T # {}
    PROVE  \E x \in T : \A y \in T : x <= y
<1>1. PICK x \in T : \A y \in T : ~ (<<y, x>> \in Below)
  BY BelowWellFounded, WFMin
<1>2. ASSUME NEW y \in T PROVE x <= y
  <2>1. <<y, x>> \notin Below
    BY <1>1
  <2>2. x \in Nat /\ y \in Nat
    OBVIOUS
  <2>3. y < x => <<y, x>> \in Below
    BY <2>2 DEF Below
  <2> QED
    BY <2>1, <2>2, <2>3
<1> QED
  BY <1>2

\* Induction, for a set in place of a predicate.
LEMMA SetInduction ==
    ASSUME NEW T, 0 \in T, \A n \in Nat : n \in T => n + 1 \in T
    PROVE  Nat \subseteq T
<1> SUFFICES ASSUME Nat \ T # {} PROVE FALSE
  OBVIOUS
<1>1. PICK x \in Nat \ T : \A y \in Nat \ T : x <= y
  BY LeastElement, Nat \ T \subseteq Nat
<1>2. x # 0 /\ x - 1 \in Nat
  BY <1>1
<1>3. x - 1 \in T
  BY <1>1, <1>2
<1>4. (x - 1) + 1 \in T
  BY <1>2, <1>3
<1> QED
  BY <1>1, <1>4

\* f is the recursion that starts at a and follows step, n times.
Solves(f, a, step, n) ==
    f[0] = a /\ \A i \in 1..n : f[i] = step[i][f[i - 1]]

\* A solution for n steps extends to n + 1 steps.
LEMMA RecursionStep ==
    ASSUME NEW X, NEW a, NEW m \in Nat, NEW n \in Nat, n + 1 <= m,
           NEW step \in [1..m -> [X -> X]],
           NEW f \in [0..n -> X], Solves(f, a, step, n)
    PROVE  \E g \in [0..(n + 1) -> X] : Solves(g, a, step, n + 1)
<1> DEFINE next == step[n + 1][f[n]]
           g == [i \in 0..(n + 1) |-> IF i = n + 1 THEN next ELSE f[i]]
<1>1. n + 1 \in 1..m /\ n \in 0..n
  OBVIOUS
<1>2. next \in X
  BY <1>1
<1>3. g \in [0..(n + 1) -> X] /\ g[0] = a
  BY <1>2 DEF Solves
<1>4. ASSUME NEW i \in 1..(n + 1) PROVE g[i] = step[i][g[i - 1]]
  <2>1. CASE i = n + 1
    <3>1. i - 1 = n /\ n # n + 1 /\ n \in 0..(n + 1)
      BY <2>1
    <3>2. g[i - 1] = f[n]
      BY <3>1
    <3>3. g[i] = step[i][f[n]]
      BY <2>1
    <3> QED
      BY <3>2, <3>3
  <2>2. CASE i # n + 1
    <3>1. i \in 1..n /\ i - 1 \in 0..n /\ i - 1 # n + 1 /\ i \in 0..(n + 1)
      BY <2>2
    <3>2. f[i] = step[i][f[i - 1]]
      BY <3>1 DEF Solves
    <3>3. g[i] = f[i]
      BY <2>2, <3>1
    <3>4. g[i - 1] = f[i - 1]
      BY <3>1
    <3> HIDE DEF g
    <3> QED
      BY <3>2, <3>3, <3>4
  <2> QED
    BY <2>1, <2>2
<1> QED
  BY <1>3, <1>4 DEF Solves

\* A recursive definition along 1..m with steps in X has a solution.
LEMMA RecursionExists ==
    ASSUME NEW X, NEW a \in X, NEW m \in Nat,
           NEW step \in [1..m -> [X -> X]]
    PROVE  \E f \in [0..m -> X] : Solves(f, a, step, m)
<1> DEFINE G(n) == \E f \in [0..n -> X] : Solves(f, a, step, n)
           U == {n \in Nat : n <= m => G(n)}
<1>1. 0 \in U
  <2> DEFINE f == [i \in 0..0 |-> a]
  <2>1. f \in [0..0 -> X] /\ Solves(f, a, step, 0)
    BY DEF Solves
  <2>2. G(0)
    BY <2>1
  <2> HIDE DEF G
  <2> QED
    BY <2>2
<1>2. ASSUME NEW n \in Nat, n \in U PROVE n + 1 \in U
  <2>1. ASSUME n + 1 <= m PROVE G(n + 1)
    <3>1. n <= m
      BY <2>1
    <3> HIDE DEF G
    <3>2. G(n)
      BY <1>2, <3>1
    <3>3. \E g \in [0..(n + 1) -> X] : Solves(g, a, step, n + 1)
      BY <2>1, <3>2, RecursionStep DEF G
    <3> QED
      BY <3>3 DEF G
  <2>2. n + 1 \in Nat
    OBVIOUS
  <2> HIDE DEF G
  <2> QED
    BY <2>1, <2>2
<1> HIDE DEF U
<1>3. Nat \subseteq U
  BY <1>1, <1>2, SetInduction
<1> HIDE DEF G
<1>4. G(m)
  BY <1>3 DEF U
<1> QED
  BY <1>4 DEF G

\* f[i] is the first i pieces of ss, one after the other.
Flattens(f, ss, n) ==
    /\ f[0] = <<>>
    /\ \A i \in 1..n : f[i] = f[i - 1] \o ss[i]

\* The prefixes of a flattening are a recursion of this kind.
LEMMA FlattenExists ==
    ASSUME NEW T, NEW ss \in Seq(Seq(T))
    PROVE  \E f \in [0..Len(ss) -> Seq(T)] : Flattens(f, ss, Len(ss))
<1> DEFINE step == [i \in 1..Len(ss) |-> [x \in Seq(T) |-> x \o ss[i]]]
<1>1. <<>> \in Seq(T) /\ Len(ss) \in Nat
  OBVIOUS
<1>2. ASSUME NEW i \in 1..Len(ss), NEW x \in Seq(T)
      PROVE  x \o ss[i] \in Seq(T)
  <2>1. ss[i] \in Seq(T)
    OBVIOUS
  <2> QED
    BY <2>1, ConcatProperties
<1>3. step \in [1..Len(ss) -> [Seq(T) -> Seq(T)]]
  BY <1>2
<1>4. \A i \in 1..Len(ss), x \in Seq(T) : step[i][x] = x \o ss[i]
  OBVIOUS
<1> HIDE DEF step
<1>5. PICK f \in [0..Len(ss) -> Seq(T)] :
         Solves(f, <<>>, step, Len(ss))
  BY <1>1, <1>3, RecursionExists
<1>6. \A i \in 1..Len(ss) : i - 1 \in 0..Len(ss)
  BY <1>1
<1>7. \A i \in 1..Len(ss) : f[i - 1] \in Seq(T)
  BY <1>6
<1> QED
  BY <1>4, <1>5, <1>7 DEF Flattens, Solves

\* There is one such recursion.
LEMMA FlattenUnique ==
    ASSUME NEW ss, NEW n \in Nat, NEW f, NEW g,
           Flattens(f, ss, n), Flattens(g, ss, n)
    PROVE  \A i \in 0..n : f[i] = g[i]
<1> DEFINE U == {i \in Nat : i <= n => f[i] = g[i]}
<1>1. 0 \in U
  BY DEF Flattens
<1>2. ASSUME NEW i \in Nat, i \in U PROVE i + 1 \in U
  <2> SUFFICES ASSUME i + 1 <= n PROVE f[i + 1] = g[i + 1]
    OBVIOUS
  <2>1. i + 1 \in 1..n /\ (i + 1) - 1 = i /\ f[i] = g[i]
    BY <1>2
  <2>2. f[i + 1] = f[i] \o ss[i + 1] /\ g[i + 1] = g[i] \o ss[i + 1]
    BY <2>1 DEF Flattens
  <2> QED
    BY <2>1, <2>2
<1> HIDE DEF U
<1>3. Nat \subseteq U
  BY <1>1, <1>2, SetInduction
<1> QED
  BY <1>3 DEF U

\* FlattenSeq computes it.
LEMMA FlattenIs ==
    ASSUME NEW T, NEW ss \in Seq(Seq(T)),
           NEW f \in [0..Len(ss) -> Seq(T)], Flattens(f, ss, Len(ss))
    PROVE  FlattenSeq(ss) = f[Len(ss)]
<1> DEFINE n == Len(ss)
<1>0. n \in Nat
  OBVIOUS
<1>1. CASE n = 0
  <2>1. ss = <<>>
    BY <1>1
  <2> QED
    BY <1>1, <2>1 DEF FlattenSeq, Flattens
<1>2. CASE n # 0
  <2> DEFINE R(g) == g = [i \in 1..n |->
                            IF i = 1 THEN ss[i] ELSE g[i - 1] \o ss[i]]
             h == [i \in 1..n |-> f[i]]
             c == CHOOSE g : R(g)
  <2>1. \A i \in 1..n : f[i] = f[i - 1] \o ss[i] /\ ss[i] \in Seq(T)
    BY DEF Flattens
  <2>2. f[1] = ss[1]
    <3>1. 1 \in 1..n /\ 1 - 1 = 0
      BY <1>0, <1>2
    <3>2. f[1] = <<>> \o ss[1] /\ ss[1] \in Seq(T)
      BY <2>1, <3>1 DEF Flattens
    <3> QED
      BY <3>2, ConcatEmptySeq
  <2>3. R(h)
    <3>1. ASSUME NEW i \in 1..n
          PROVE  h[i] = IF i = 1 THEN ss[i] ELSE h[i - 1] \o ss[i]
      <4>1. CASE i = 1
        BY <2>2, <4>1
      <4>2. CASE i # 1
        <5>1. i - 1 \in 1..n
          BY <1>0, <4>2
        <5> HIDE DEF n
        <5> QED
          BY <2>1, <4>2, <5>1
      <4> QED
        BY <4>1, <4>2
    <3> HIDE DEF n
    <3> QED
      BY <3>1
  <2>4. R(c)
    BY <2>3
  <2>5. FlattenSeq(ss) = c[n]
    BY <1>2 DEF FlattenSeq
  <2> DEFINE d == [i \in 0..n |-> IF i = 0 THEN <<>> ELSE c[i]]
  <2> HIDE DEF c
  <2>6. \A i \in 1..n : c[i] = IF i = 1 THEN ss[i] ELSE c[i - 1] \o ss[i]
    BY <2>4
  <2>7. ASSUME NEW i \in 1..n PROVE d[i] = d[i - 1] \o ss[i]
    <3>1. ss[i] \in Seq(T) /\ i \in 0..n /\ i # 0
      BY <2>1
    <3>2. CASE i = 1
      <4>1. c[1] = ss[1]
        BY <2>6, <3>2
      <4>2. d[1] = c[1] /\ d[0] = <<>>
        BY <1>0, <3>1, <3>2
      <4>3. <<>> \o ss[1] = ss[1]
        BY <3>1, <3>2, ConcatEmptySeq
      <4>4. i - 1 = 0
        BY <3>2
      <4> HIDE DEF d
      <4> QED
        BY <3>2, <4>1, <4>2, <4>3, <4>4
    <3>3. CASE i # 1
      <4>1. i - 1 \in 0..n /\ i - 1 # 0
        BY <1>0, <3>3
      <4>2. d[i] = c[i] /\ d[i - 1] = c[i - 1]
        BY <3>1, <4>1
      <4> HIDE DEF d
      <4> QED
        BY <2>6, <3>3, <4>2
    <3> QED
      BY <3>2, <3>3
  <2>8. d[0] = <<>> /\ d[n] = c[n]
    BY <1>0, <1>2
  <2> HIDE DEF d
  <2>9. Flattens(d, ss, n)
    BY <2>7, <2>8 DEF Flattens
  <2>10. \A i \in 0..n : f[i] = d[i]
    BY <1>0, <2>9, FlattenUnique
  <2> QED
    BY <1>0, <2>5, <2>8, <2>10
<1> QED
  BY <1>1, <1>2

\* Pieces over T flatten to a sequence over T.
LEMMA FlattenType ==
    ASSUME NEW T, NEW ss \in Seq(Seq(T))
    PROVE  FlattenSeq(ss) \in Seq(T)
<1>1. PICK f \in [0..Len(ss) -> Seq(T)] : Flattens(f, ss, Len(ss))
  BY FlattenExists
<1>2. FlattenSeq(ss) = f[Len(ss)]
  BY <1>1, FlattenIs
<1>3. Len(ss) \in 0..Len(ss)
  OBVIOUS
<1> QED
  BY <1>2, <1>3

\* No pieces, no tokens.
LEMMA FlattenEmpty == FlattenSeq(<<>>) = <<>>
BY DEF FlattenSeq

\* One more piece comes behind the others.
LEMMA FlattenAppend ==
    ASSUME NEW T, NEW ss \in Seq(Seq(T)), NEW s \in Seq(T)
    PROVE  FlattenSeq(Append(ss, s)) = FlattenSeq(ss) \o s
<1> DEFINE tt == Append(ss, s)
           n  == Len(ss)
<1>1. /\ tt \in Seq(Seq(T)) /\ Len(tt) = n + 1 /\ n \in Nat
      /\ tt[n + 1] = s /\ \A i \in 1..n : tt[i] = ss[i]
  BY AppendProperties
<1> HIDE DEF tt
<1>2. PICK f \in [0..Len(tt) -> Seq(T)] : Flattens(f, tt, Len(tt))
  BY <1>1, FlattenExists
<1>3. FlattenSeq(tt) = f[n + 1]
  BY <1>1, <1>2, FlattenIs
<1> DEFINE g == [i \in 0..n |-> f[i]]
<1>4. g \in [0..n -> Seq(T)]
  BY <1>1, <1>2
<1>5. Flattens(g, ss, n)
  <2>1. g[0] = <<>>
    BY <1>1, <1>2 DEF Flattens
  <2>2. ASSUME NEW i \in 1..n PROVE g[i] = g[i - 1] \o ss[i]
    <3>1. i \in 0..n /\ i - 1 \in 0..n /\ i \in 1..Len(tt)
      BY <1>1
    <3>2. f[i] = f[i - 1] \o ss[i]
      BY <1>1, <1>2, <3>1 DEF Flattens
    <3>3. g[i] = f[i] /\ g[i - 1] = f[i - 1]
      BY <3>1
    <3> QED
      BY <3>2, <3>3
  <2> QED
    BY <2>1, <2>2 DEF Flattens
<1>6. FlattenSeq(ss) = g[n]
  BY <1>4, <1>5, FlattenIs
<1>7. g[n] = f[n]
  BY <1>1
<1>8. f[n + 1] = f[n] \o s
  <2>1. n + 1 \in 1..Len(tt) /\ (n + 1) - 1 = n
    BY <1>1
  <2> QED
    BY <1>1, <1>2, <2>1 DEF Flattens
<1> QED
  BY <1>3, <1>6, <1>7, <1>8 DEF tt

\* Induction along a sequence, for a set in place of a predicate.
LEMMA SeqInduction ==
    ASSUME NEW T, NEW P, <<>> \in P,
           \A s \in Seq(T), e \in T : s \in P => Append(s, e) \in P
    PROVE  Seq(T) \subseteq P
<1> DEFINE U == {n \in Nat : \A s \in Seq(T) : Len(s) = n => s \in P}
<1>1. 0 \in U
  BY EmptySeq
<1>2. ASSUME NEW n \in Nat, n \in U PROVE n + 1 \in U
  <2> SUFFICES ASSUME NEW s \in Seq(T), Len(s) = n + 1 PROVE s \in P
    OBVIOUS
  <2>1. s # <<>>
    OBVIOUS
  <2>2. PICK r \in Seq(T), e \in T : s = Append(r, e)
    BY <2>1, SequenceEmptyOrAppend
  <2>3. Len(r) \in Nat /\ Len(s) = Len(r) + 1
    BY <2>2, AppendProperties
  <2>4. r \in P
    BY <1>2, <2>3
  <2> QED
    BY <2>2, <2>4
<1> HIDE DEF U
<1>3. Nat \subseteq U
  BY <1>1, <1>2, SetInduction
<1> SUFFICES ASSUME NEW s \in Seq(T) PROVE s \in P
  OBVIOUS
<1>4. Len(s) \in U
  BY <1>3
<1> QED
  BY <1>4 DEF U

\* e if it is in S, nothing otherwise.
OneOf(e, S) == IF e \in S THEN <<e>> ELSE <<>>

\* OneOf gives a sequence over both sets.
LEMMA OneOfType ==
    ASSUME NEW T, NEW e \in T, NEW S
    PROVE  OneOf(e, S) \in Seq(T \cap S)
<1>1. CASE e \in S
  <2>1. e \in T \cap S
    BY <1>1
  <2>2. <<e>> \in Seq(T \cap S)
    BY <2>1
  <2> QED
    BY <1>1, <2>2 DEF OneOf
<1>2. CASE e \notin S
  BY <1>2, EmptySeq DEF OneOf
<1> QED
  BY <1>1, <1>2

Picks(s, S) == [i \in DOMAIN s |-> OneOf(s[i], S)]

\* Only is a flattening of pieces of length at most one.
LEMMA OnlyIs ==
    ASSUME NEW s, NEW S
    PROVE  Only(s, S) = FlattenSeq(Picks(s, S))
BY DEF Only, KeepAt, Rewrite, Picks, OneOf

\* Those pieces, and how many there are.
LEMMA PicksType ==
    ASSUME NEW T, NEW s \in Seq(T), NEW S
    PROVE  /\ Picks(s, S) \in Seq(Seq(T \cap S))
           /\ Len(Picks(s, S)) = Len(s)
           /\ \A i \in 1..Len(s) :
                 Picks(s, S)[i] = OneOf(s[i], S)
<1> DEFINE p == [i \in 1..Len(s) |-> OneOf(s[i], S)]
<1>1. DOMAIN s = 1..Len(s) /\ Len(s) \in Nat
  BY LenProperties
<1>2. Picks(s, S) = p
  BY <1>1 DEF Picks
<1>3. ASSUME NEW i \in 1..Len(s) PROVE p[i] \in Seq(T \cap S)
  <2>1. s[i] \in T
    OBVIOUS
  <2> QED
    BY <2>1, OneOfType
<1> HIDE DEF p
<1>4. p \in Seq(Seq(T \cap S)) /\ Len(p) = Len(s)
  BY <1>1, <1>3 DEF p
<1>5. \A i \in 1..Len(s) : p[i] = OneOf(s[i], S)
  BY DEF p
<1> QED
  BY <1>2, <1>4, <1>5

\* Only keeps what is in S.
LEMMA OnlyType ==
    ASSUME NEW T, NEW s \in Seq(T), NEW S
    PROVE  Only(s, S) \in Seq(T \cap S)
BY OnlyIs, PicksType, FlattenType

\* Of nothing, nothing is kept.
LEMMA OnlyEmpty == \A S : Only(<<>>, S) = <<>>
<1> SUFFICES ASSUME NEW S PROVE Only(<<>>, S) = <<>>
  OBVIOUS
<1>1. Picks(<<>>, S) = <<>>
  BY DEF Picks
<1> QED
  BY <1>1, OnlyIs, FlattenEmpty

\* Only, token by token.
LEMMA OnlyAppend ==
    ASSUME NEW T, NEW s \in Seq(T), NEW e \in T, NEW S
    PROVE  Only(Append(s, e), S)
             = Only(s, S) \o OneOf(e, S)
<1> DEFINE one == OneOf(e, S)
           r == Append(s, e)
<1>1. r \in Seq(T) /\ Len(r) = Len(s) + 1 /\ r[Len(s) + 1] = e
      /\ (\A i \in 1..Len(s) : r[i] = s[i]) /\ Len(s) \in Nat
  BY AppendProperties
<1> HIDE DEF r
<1>2. one \in Seq(T \cap S)
  BY OneOfType
<1> HIDE DEF one
<1>3. Picks(r, S) = Append(Picks(s, S), one)
  <2>1. /\ Picks(r, S) \in Seq(Seq(T \cap S))
        /\ Len(Picks(r, S)) = Len(s) + 1
    BY <1>1, PicksType
  <2>2. /\ Append(Picks(s, S), one) \in Seq(Seq(T \cap S))
        /\ Len(Append(Picks(s, S), one)) = Len(s) + 1
        /\ Append(Picks(s, S), one)[Len(s) + 1] = one
        /\ \A i \in 1..Len(s) :
              Append(Picks(s, S), one)[i] = Picks(s, S)[i]
    BY <1>2, PicksType, AppendProperties
  <2>3. ASSUME NEW i \in 1..(Len(s) + 1)
        PROVE  Picks(r, S)[i] = Append(Picks(s, S), one)[i]
    <3>1. Picks(r, S)[i] = OneOf(r[i], S)
      <4>1. \A k \in 1..Len(r) : Picks(r, S)[k] = OneOf(r[k], S)
        BY <1>1, PicksType
      <4> QED
        BY <1>1, <4>1
    <3>2. CASE i = Len(s) + 1
      BY <1>1, <2>2, <3>1, <3>2 DEF one
    <3>3. CASE i # Len(s) + 1
      <4>1. i \in 1..Len(s)
        BY <1>1, <3>3
      <4>2. Picks(s, S)[i] = OneOf(s[i], S)
        <5>1. \A k \in 1..Len(s) : Picks(s, S)[k] = OneOf(s[k], S)
          BY PicksType
        <5> QED
          BY <4>1, <5>1
      <4> QED
        BY <1>1, <2>2, <3>1, <4>1, <4>2
    <3> QED
      BY <3>2, <3>3
  <2> QED
    BY <1>1, <2>1, <2>2, <2>3, SeqEqual
<1>4. FlattenSeq(Append(Picks(s, S), one)) = FlattenSeq(Picks(s, S)) \o one
  BY <1>2, PicksType, FlattenAppend
<1> QED
  BY <1>3, <1>4, OnlyIs DEF r, one

\* Only of two sequences in a row.
LEMMA OnlyConcat ==
    ASSUME NEW T, NEW s \in Seq(T), NEW r \in Seq(T), NEW S
    PROVE  Only(s \o r, S) = Only(s, S) \o Only(r, S)
<1> DEFINE P == {q \in Seq(T) : Only(s \o q, S) = Only(s, S) \o Only(q, S)}
<1>0. Only(s, S) \in Seq(T \cap S)
  BY OnlyType
<1>1. <<>> \in P
  <2>1. s \o <<>> = s
    BY ConcatEmptySeq
  <2>2. Only(s, S) \o <<>> = Only(s, S)
    BY <1>0, ConcatEmptySeq
  <2> QED
    BY <2>1, <2>2, OnlyEmpty, EmptySeq
<1>2. ASSUME NEW q \in Seq(T), NEW e \in T, q \in P
      PROVE  Append(q, e) \in P
  <2> DEFINE one == OneOf(e, S)
  <2>1. one \in Seq(T \cap S) /\ Only(q, S) \in Seq(T \cap S)
    BY OnlyType, OneOfType
  <2>2. s \o Append(q, e) = Append(s \o q, e)
    OBVIOUS
  <2>3. s \o q \in Seq(T) /\ Append(q, e) \in Seq(T)
    OBVIOUS
  <2> HIDE DEF one
  <2>4. Only(Append(s \o q, e), S) = Only(s \o q, S) \o one
    BY <2>3, OnlyAppend DEF one
  <2>5. Only(s \o q, S) = Only(s, S) \o Only(q, S)
    BY <1>2
  <2>6. Only(Append(q, e), S) = Only(q, S) \o one
    BY OnlyAppend DEF one
  <2>7. (Only(s, S) \o Only(q, S)) \o one = Only(s, S) \o (Only(q, S) \o one)
    BY <1>0, <2>1, ConcatAssociative
  <2> QED
    BY <2>2, <2>3, <2>4, <2>5, <2>6, <2>7
<1> HIDE DEF P
<1>3. Seq(T) \subseteq P
  BY <1>1, <1>2, SeqInduction
<1> QED
  BY <1>3 DEF P

\* Only of a single token.
LEMMA OnlyOne ==
    ASSUME NEW e, NEW S
    PROVE  Only(<<e>>, S) = OneOf(e, S)
<1>1. <<>> \in Seq({e}) /\ Append(<<>>, e) = <<e>>
  OBVIOUS
<1>2. Only(<<e>>, S) = <<>> \o OneOf(e, S)
  <2>1. e \in {e}
    OBVIOUS
  <2>2. Only(Append(<<>>, e), S) = Only(<<>>, S) \o OneOf(e, S)
    BY <1>1, <2>1, OnlyAppend
  <2>3. Only(<<>>, S) = <<>>
    BY OnlyEmpty
  <2> QED
    BY <1>1, <2>2, <2>3
<1>3. OneOf(e, S) \in Seq({e} \cap S)
  BY OneOfType
<1> QED
  BY <1>2, <1>3, ConcatEmptySeq

\* Only keeps all of a sequence over S.
LEMMA OnlyAll ==
    ASSUME NEW T, NEW s \in Seq(T), NEW S, T \subseteq S
    PROVE  Only(s, S) = s
<1> DEFINE P == {q \in Seq(T) : Only(q, S) = q}
<1>1. <<>> \in P
  BY OnlyEmpty, EmptySeq
<1>2. ASSUME NEW q \in Seq(T), NEW e \in T, q \in P
      PROVE  Append(q, e) \in P
  <2>1. Only(Append(q, e), S) = q \o OneOf(e, S)
    <3>1. Only(Append(q, e), S) = Only(q, S) \o OneOf(e, S)
      BY OnlyAppend
    <3> QED
      BY <1>2, <3>1
  <2>2. OneOf(e, S) = <<e>>
    BY DEF OneOf
  <2>3. q \o <<e>> = Append(q, e) /\ Append(q, e) \in Seq(T)
    OBVIOUS
  <2> QED
    BY <2>1, <2>2, <2>3
<1> HIDE DEF P
<1>3. Seq(T) \subseteq P
  BY <1>1, <1>2, SeqInduction
<1> QED
  BY <1>3 DEF P

\* Only keeps nothing of a sequence apart from S.
LEMMA OnlyNone ==
    ASSUME NEW T, NEW s \in Seq(T), NEW S, T \cap S = {}
    PROVE  Only(s, S) = <<>>
<1>1. Only(s, S) \in Seq({})
  BY OnlyType
<1> QED
  BY <1>1

\* Only of a flattening is the flattening of what is kept of each piece.
LEMMA OnlyFlatten ==
    ASSUME NEW T, NEW ss \in Seq(Seq(T)), NEW S
    PROVE  Only(FlattenSeq(ss), S)
             = FlattenSeq([i \in DOMAIN ss |-> Only(ss[i], S)])
<1> DEFINE Each(tt) == [i \in DOMAIN tt |-> Only(tt[i], S)]
           P == {tt \in Seq(Seq(T)) :
                   Only(FlattenSeq(tt), S) = FlattenSeq(Each(tt))}
<1>1. <<>> \in P
  <2>1. Each(<<>>) = <<>>
    OBVIOUS
  <2> HIDE DEF Each
  <2> QED
    BY <2>1, OnlyEmpty, FlattenEmpty, EmptySeq
<1>2. ASSUME NEW tt \in Seq(Seq(T)) 
      PROVE  Each(tt) \in Seq(Seq(T \cap S)) /\ Len(Each(tt)) = Len(tt)
  <2>1. DOMAIN tt = 1..Len(tt) /\ Len(tt) \in Nat
    BY LenProperties
  <2>2. \A i \in 1..Len(tt) : Only(tt[i], S) \in Seq(T \cap S)
    BY OnlyType
  <2> QED
    BY <2>1, <2>2
<1>3. ASSUME NEW tt \in Seq(Seq(T)), NEW r \in Seq(T), tt \in P
      PROVE  Append(tt, r) \in P
  <2> DEFINE uu == Append(tt, r)
             n == Len(tt)
  <2>1. /\ uu \in Seq(Seq(T)) /\ Len(uu) = n + 1 /\ n \in Nat
        /\ uu[n + 1] = r /\ \A i \in 1..n : uu[i] = tt[i]
    BY AppendProperties
  <2> HIDE DEF uu
  <2>2. Only(r, S) \in Seq(T \cap S)
    BY OnlyType
  <2>3. Each(uu) = Append(Each(tt), Only(r, S))
    <3>1. DOMAIN uu = 1..(n + 1) /\ DOMAIN tt = 1..n
      BY <2>1, LenProperties
    <3>2. /\ Append(Each(tt), Only(r, S)) \in Seq(Seq(T \cap S))
          /\ Len(Append(Each(tt), Only(r, S))) = n + 1
          /\ Append(Each(tt), Only(r, S))[n + 1] = Only(r, S)
          /\ \A i \in 1..n :
                Append(Each(tt), Only(r, S))[i] = Each(tt)[i]
      <4>1. Each(tt) \in Seq(Seq(T \cap S)) /\ Len(Each(tt)) = n
        BY <1>2
      <4> HIDE DEF Each
      <4> QED
        BY <2>2, <4>1, AppendProperties
    <3>3. Each(uu) \in Seq(Seq(T \cap S)) /\ Len(Each(uu)) = n + 1
      BY <1>2, <2>1
    <3>4. ASSUME NEW i \in 1..(n + 1)
          PROVE  Each(uu)[i] = Append(Each(tt), Only(r, S))[i]
      <4>1. Each(uu)[i] = Only(uu[i], S)
        BY <3>1
      <4>2. CASE i = n + 1
        BY <2>1, <3>2, <4>1, <4>2
      <4>3. CASE i # n + 1
        <5>1. i \in 1..n
          BY <2>1, <4>3
        <5>2. Each(tt)[i] = Only(tt[i], S)
          BY <3>1, <5>1
        <5> HIDE DEF Each
        <5> QED
          BY <2>1, <3>2, <4>1, <5>1, <5>2
      <4> QED
        BY <4>2, <4>3
    <3> HIDE DEF Each
    <3> QED
      BY <3>2, <3>3, <3>4, SeqEqual
  <2>4. FlattenSeq(uu) = FlattenSeq(tt) \o r
    BY FlattenAppend DEF uu
  <2>5. Only(FlattenSeq(tt) \o r, S) = Only(FlattenSeq(tt), S) \o Only(r, S)
    BY FlattenType, OnlyConcat
  <2>6. Only(FlattenSeq(tt), S) = FlattenSeq(Each(tt))
    BY <1>3
  <2>7. FlattenSeq(Append(Each(tt), Only(r, S)))
          = FlattenSeq(Each(tt)) \o Only(r, S)
    <3>1. Each(tt) \in Seq(Seq(T \cap S))
      BY <1>2
    <3> HIDE DEF Each
    <3> QED
      BY <2>2, <3>1, FlattenAppend
  <2> HIDE DEF Each
  <2> QED
    BY <2>1, <2>3, <2>4, <2>5, <2>6, <2>7 DEF uu
<1> HIDE DEF P
<1>4. Seq(Seq(T)) \subseteq P
  BY <1>1, <1>3, SeqInduction
<1> QED
  BY <1>4 DEF P

\* A rewriting with pieces over T is a sequence over T.
LEMMA RewriteType ==
    ASSUME NEW V, NEW T, NEW s \in Seq(V), NEW ss \in [DOMAIN s -> Seq(T)]
    PROVE  /\ ss \in Seq(Seq(T)) /\ Len(ss) = Len(s)
           /\ FlattenSeq(ss) \in Seq(T)
<1>1. DOMAIN s = 1..Len(s) /\ Len(s) \in Nat
  BY LenProperties
<1>2. ss \in Seq(Seq(T)) /\ Len(ss) = Len(s)
  BY <1>1
<1> QED
  BY <1>2, FlattenType

\* A rewriting that keeps S in each of its pieces keeps S.
LEMMA RewriteKeeps ==
    ASSUME NEW T, NEW S, NEW s \in Seq(T), NEW ss \in [DOMAIN s -> Seq(T)],
           \A i \in DOMAIN s : Only(ss[i], S) = OneOf(s[i], S)
    PROVE  /\ FlattenSeq(ss) \in Seq(T)
           /\ Only(FlattenSeq(ss), S) = Only(s, S)
<1>1. ss \in Seq(Seq(T)) /\ FlattenSeq(ss) \in Seq(T)
  BY RewriteType
<1>2. Only(FlattenSeq(ss), S)
        = FlattenSeq([i \in DOMAIN ss |-> Only(ss[i], S)])
  BY <1>1, OnlyFlatten
<1>3. [i \in DOMAIN ss |-> Only(ss[i], S)] = Picks(s, S)
  BY DEF Picks
<1> QED
  BY <1>1, <1>2, <1>3, OnlyIs

\* Dropping positions keeps the type.
LEMMA KeepType ==
    ASSUME NEW T, NEW s \in Seq(T), NEW K
    PROVE  FlattenSeq([i \in DOMAIN s |->
                         IF i \in K THEN <<s[i]>> ELSE <<>>]) \in Seq(T)
<1> DEFINE ss == [i \in DOMAIN s |-> IF i \in K THEN <<s[i]>> ELSE <<>>]
<1>1. \A i \in DOMAIN s : s[i] \in T
  BY LenProperties
<1>2. ss \in [DOMAIN s -> Seq(T)]
  BY <1>1
<1> HIDE DEF ss
<1>3. FlattenSeq(ss) \in Seq(T)
  BY <1>2, RewriteType
<1> QED
  BY <1>3 DEF ss

\* Dropping positions apart from S keeps S.
LEMMA KeepKeeps ==
    ASSUME NEW T, NEW S, NEW s \in Seq(T), NEW K,
           \A i \in DOMAIN s : s[i] \in S => i \in K
    PROVE  LET kept == FlattenSeq([i \in DOMAIN s |->
                         IF i \in K THEN <<s[i]>> ELSE <<>>])
           IN  kept \in Seq(T) /\ Only(kept, S) = Only(s, S)
<1> DEFINE ss == [i \in DOMAIN s |-> IF i \in K THEN <<s[i]>> ELSE <<>>]
<1>1. ASSUME NEW i \in DOMAIN s
      PROVE  ss[i] \in Seq(T) /\ Only(ss[i], S) = OneOf(s[i], S)
  <2>1. s[i] \in T
    BY LenProperties
  <2>2. CASE i \in K
    <3>1. ss[i] = <<s[i]>> /\ <<s[i]>> \in Seq(T)
      BY <2>1, <2>2
    <3> QED
      BY <3>1, OnlyOne
  <2>3. CASE i \notin K
    <3>1. ss[i] = <<>> /\ s[i] \notin S
      BY <2>3
    <3> QED
      BY <3>1, OnlyEmpty, EmptySeq DEF OneOf
  <2> QED
    BY <2>2, <2>3
<1>2. /\ ss \in [DOMAIN s -> Seq(T)]
      /\ \A i \in DOMAIN s : Only(ss[i], S) = OneOf(s[i], S)
  BY <1>1
<1> HIDE DEF ss
<1>3. FlattenSeq(ss) \in Seq(T) /\ Only(FlattenSeq(ss), S) = Only(s, S)
  BY <1>2, RewriteKeeps
<1> QED
  BY <1>3 DEF ss

-----------------------------------------------------------------------------
(* The passes of the sanitizer.                                            *)

\* What no pass after the marks may touch.
Solid == Texts \cup {"mark"}

\* The tags, spelt out.
LEMMA OpensAre ==
    /\ Opens = {"a", "p", "h", "li", "div", "span", "td", "tr", "quote",
                "cite"}
    /\ Closes = {"/a", "/p", "/h", "/li", "/div", "/span", "/td", "/tr",
                 "/quote"}
    /\ \A t \in Opens : CloseOf[t] \in Closes
BY DEF Opens, Closes, CloseOf

\* What is solid is no tag, no blank, no break and no image.
LEMMA SolidApart ==
    /\ Solid \subseteq Basic /\ Basic \subseteq Tokens
    /\ Solid \cap (Opens \cup Closes \cup Blank \cup {"br", "inv"}) = {}
    /\ Solid \cap ({"bare", "style", "end"} \cup Images \cup Urls) = {}
    /\ Opens \cup Closes \cup Blank \cup {"br", "bare", "mark"}
         \subseteq Tokens
<1>1. Solid \subseteq Basic /\ Basic \subseteq Tokens
  BY DEF Solid, Basic, Tokens
<1>2. Solid \cap (Images \cup Urls) = {}
  BY <1>1, ImgAssumption
<1>3. /\ Solid \cap (Opens \cup Closes \cup Blank \cup {"br", "inv"}) = {}
      /\ Solid \cap {"bare", "style", "end"} = {}
  BY OpensAre DEF Solid, Texts, Blank
<1>4. Opens \cup Closes \cup Blank \cup {"br", "bare", "mark"} \subseteq Basic
  BY DEF Basic
<1> QED
  BY <1>1, <1>2, <1>3, <1>4

\* One token in place of e, apart from S unless it is e.
LEMMA OneFor ==
    ASSUME NEW e, NEW x \in Tokens, NEW S,
           x = e \/ (x \notin S /\ e \notin S)
    PROVE  <<x>> \in Seq(Tokens) /\ Only(<<x>>, S) = OneOf(e, S)
<1>1. <<x>> \in Seq(Tokens)
  OBVIOUS
<1>2. Only(<<x>>, S) = OneOf(x, S)
  BY OnlyOne
<1> QED
  BY <1>1, <1>2 DEF OneOf

\* Nothing in place of e, which is apart from S.
LEMMA NoneFor ==
    ASSUME NEW e, NEW S, e \notin S
    PROVE  <<>> \in Seq(Tokens) /\ Only(<<>>, S) = OneOf(e, S)
<1>1. <<>> \in Seq(Tokens)
  OBVIOUS
<1>2. Only(<<>>, S) = <<>>
  BY OnlyEmpty
<1> QED
  BY <1>1, <1>2 DEF OneOf

\* separate_table_blocks only touches tags and blanks.
LEMMA SeparateKeeps ==
    ASSUME NEW s \in Seq(Tokens), NEW mode, NEW S \in SUBSET Solid
    PROVE  /\ separate_table_blocks(s, mode) \in Seq(Tokens)
           /\ Only(separate_table_blocks(s, mode), S) = Only(s, S)
<1> DEFINE New(i) ==
            CASE s[i] = "/td" -> <<"sp">>
              [] s[i] = "/tr" -> <<"br">>
              [] s[i] = "/div" /\ mode = "links" ->
                   IF At(s, SkipFrom(s, i + 1, {"sp"})) = "div"
                     THEN <<"br", "br">> ELSE <<"br">>
              [] s[i] \in {"td", "tr"} -> <<>>
              [] s[i] = "div" /\ mode = "links" -> <<>>
              [] OTHER -> <<s[i]>>
           ss == [i \in DOMAIN s |-> New(i)]
<1>1. ASSUME NEW i \in DOMAIN s
      PROVE  New(i) \in Seq(Tokens) /\ Only(New(i), S) = OneOf(s[i], S)
  <2>0. s[i] \in Tokens
    BY LenProperties
  <2>1. /\ "sp" \in Tokens \ S /\ "br" \in Tokens \ S
        /\ {"/td", "/tr", "/div", "td", "tr", "div"} \cap S = {}
    BY SolidApart, OpensAre DEF Blank
  <2>2. <<"br", "br">> \in Seq({"br"})
    OBVIOUS
  <2>3. <<"br", "br">> \in Seq(Tokens) /\ Only(<<"br", "br">>, S) = <<>>
    <3>1. {"br"} \cap S = {} /\ {"br"} \subseteq Tokens
      BY <2>1
    <3>2. Only(<<"br", "br">>, S) = <<>>
      BY <2>2, <3>1, OnlyNone
    <3> QED
      BY <2>2, <3>1, <3>2, SeqMonotonic
  <2>4. New(i) \in {<<"sp">>, <<"br">>, <<"br", "br">>, <<>>, <<s[i]>>}
    OBVIOUS
  <2>5. New(i) # <<s[i]>> => s[i] \notin S
    BY <2>1
  <2> HIDE DEF New
  <2>6. CASE New(i) = <<s[i]>>
    BY <2>0, <2>6, OneFor
  <2>7. CASE s[i] \notin S /\ New(i) = <<"sp">>
    BY <2>1, <2>7, OneFor
  <2>8. CASE s[i] \notin S /\ New(i) = <<"br">>
    BY <2>1, <2>8, OneFor
  <2>9. CASE s[i] \notin S /\ New(i) = <<>>
    BY <2>9, NoneFor
  <2>10. CASE s[i] \notin S /\ New(i) = <<"br", "br">>
    BY <2>3, <2>10 DEF OneOf
  <2> QED
    BY <2>4, <2>5, <2>6, <2>7, <2>8, <2>9, <2>10
<1>2. separate_table_blocks(s, mode) = FlattenSeq(ss)
  BY DEF separate_table_blocks, Rewrite
<1> HIDE DEF New
<1>3. /\ ss \in [DOMAIN s -> Seq(Tokens)]
      /\ \A i \in DOMAIN s : Only(ss[i], S) = OneOf(s[i], S)
  BY <1>1
<1> HIDE DEF ss
<1> QED
  BY <1>2, <1>3, RewriteKeeps

\* The sanitizer keeps what is solid.
LEMMA CleanKeeps ==
    ASSUME NEW s \in Seq(Tokens), NEW mode, NEW S \in SUBSET Solid
    PROVE  /\ clean(s, mode) \in Seq(Tokens)
           /\ Only(clean(s, mode), S) = Only(s, S)
<1> DEFINE links == mode = "links"
           New(i) ==
            CASE s[i] = "style" -> <<>>
              [] s[i] \in Images \cup Urls \cup {"bare"} /\ links -> <<>>
              [] s[i] \in Images /\ ~links -> <<"bare">>
              [] s[i] \in {"div", "/div", "span", "/span"} /\ links -> <<>>
              [] s[i] \in {"td", "/td", "tr", "/tr"} -> <<>>
              [] s[i] = "cite" -> <<"quote">>
              [] OTHER -> <<s[i]>>
           ss == [i \in DOMAIN s |-> New(i)]
<1>1. ASSUME NEW i \in DOMAIN s
      PROVE  New(i) \in Seq(Tokens) /\ Only(New(i), S) = OneOf(s[i], S)
  <2>0. s[i] \in Tokens
    BY LenProperties
  <2>1. /\ "bare" \in Tokens \ S /\ "quote" \in Tokens \ S
        /\ {"style", "bare", "div", "/div", "span", "/span"} \cap S = {}
        /\ {"td", "/td", "tr", "/tr", "cite"} \cap S = {}
        /\ (Images \cup Urls) \cap S = {}
    BY SolidApart, OpensAre
  <2>2. New(i) \in {<<"bare">>, <<"quote">>, <<>>, <<s[i]>>}
    OBVIOUS
  <2>3. New(i) # <<s[i]>> => s[i] \notin S
    BY <2>1
  <2> HIDE DEF New
  <2>4. CASE New(i) = <<s[i]>>
    BY <2>0, <2>4, OneFor
  <2>5. CASE s[i] \notin S /\ New(i) = <<"bare">>
    BY <2>1, <2>5, OneFor
  <2>6. CASE s[i] \notin S /\ New(i) = <<"quote">>
    BY <2>1, <2>6, OneFor
  <2>7. CASE s[i] \notin S /\ New(i) = <<>>
    BY <2>7, NoneFor
  <2> QED
    BY <2>2, <2>3, <2>4, <2>5, <2>6, <2>7
<1>2. clean(s, mode) = FlattenSeq(ss)
  BY DEF clean, Rewrite
<1> HIDE DEF New
<1>3. /\ ss \in [DOMAIN s -> Seq(Tokens)]
      /\ \A i \in DOMAIN s : Only(ss[i], S) = OneOf(s[i], S)
  BY <1>1
<1> HIDE DEF ss
<1> QED
  BY <1>2, <1>3, RewriteKeeps

\* collapse_blank_runs only touches blanks.
LEMMA CollapseBlanksKeeps ==
    ASSUME NEW s \in Seq(Tokens), NEW S \in SUBSET Solid
    PROVE  /\ collapse_blank_runs(s) \in Seq(Tokens)
           /\ Only(collapse_blank_runs(s), S) = Only(s, S)
<1> DEFINE New(i) ==
            CASE s[i] \notin Blank -> <<s[i]>>
              [] s[i] \in Blank /\ At(s, i - 1) \in Blank -> <<>>
              [] OTHER -> IF At(s, i + 1) \in Blank THEN <<"sp">>
                                                    ELSE <<s[i]>>
           ss == [i \in DOMAIN s |-> New(i)]
<1>1. ASSUME NEW i \in DOMAIN s
      PROVE  New(i) \in Seq(Tokens) /\ Only(New(i), S) = OneOf(s[i], S)
  <2>0. s[i] \in Tokens
    BY LenProperties
  <2>1. "sp" \in Tokens \ S /\ Blank \cap S = {}
    BY SolidApart DEF Blank
  <2>2. New(i) \in {<<"sp">>, <<>>, <<s[i]>>}
    OBVIOUS
  <2>3. New(i) # <<s[i]>> => s[i] \notin S
    <3>1. s[i] \notin Blank => New(i) = <<s[i]>>
      OBVIOUS
    <3> HIDE DEF New
    <3> QED
      BY <2>1, <3>1
  <2> HIDE DEF New
  <2>4. CASE New(i) = <<s[i]>>
    BY <2>0, <2>4, OneFor
  <2>5. CASE s[i] \notin S /\ New(i) = <<"sp">>
    BY <2>1, <2>5, OneFor
  <2>6. CASE s[i] \notin S /\ New(i) = <<>>
    BY <2>6, NoneFor
  <2> QED
    BY <2>2, <2>3, <2>4, <2>5, <2>6
<1>2. collapse_blank_runs(s) = FlattenSeq(ss)
  BY DEF collapse_blank_runs, Rewrite
<1> HIDE DEF New
<1>3. /\ ss \in [DOMAIN s -> Seq(Tokens)]
      /\ \A i \in DOMAIN s : Only(ss[i], S) = OneOf(s[i], S)
  BY <1>1
<1> HIDE DEF ss
<1> QED
  BY <1>2, <1>3, RewriteKeeps

\* What SkipFrom chooses.
LEMMA SkipFromIs ==
    ASSUME NEW T, NEW s \in Seq(T), NEW i \in 1..(Len(s) + 1), NEW S
    PROVE  /\ SkipFrom(s, i, S) \in i..(Len(s) + 1)
           /\ SkipFrom(s, i, S) # Len(s) + 1 => s[SkipFrom(s, i, S)] \notin S
           /\ \A j \in i..(SkipFrom(s, i, S) - 1) : s[j] \in S
<1> DEFINE n == Len(s)
           E == {k \in i..(n + 1) : k = n + 1 \/ s[k] \notin S}
           Q(k) == /\ k = n + 1 \/ s[k] \notin S
                   /\ \A j \in i..(k - 1) : s[j] \in S
<1>1. n \in Nat /\ i \in Nat
  OBVIOUS
<1>2. E \subseteq Nat /\ n + 1 \in E
  BY <1>1
<1>3. PICK k \in E : \A m \in E : k <= m
  BY <1>2, LeastElement
<1>4. k \in i..(n + 1) /\ Q(k)
  <2>1. ASSUME NEW j \in i..(k - 1) PROVE s[j] \in S
    <3>1. j \in i..(n + 1) /\ j # n + 1 /\ ~(k <= j)
      BY <1>1, <1>3
    <3>2. j \notin E
      BY <1>3, <3>1
    <3> QED
      BY <3>1, <3>2
  <2> QED
    BY <1>3, <2>1
<1>5. SkipFrom(s, i, S) = CHOOSE m \in i..(n + 1) : Q(m)
  BY DEF SkipFrom
<1> HIDE DEF Q
<1>6. SkipFrom(s, i, S) \in i..(n + 1) /\ Q(SkipFrom(s, i, S))
  BY <1>4, <1>5
<1> QED
  BY <1>6 DEF Q

\* What TrimEnd leaves.
LEMMA TrimEndIs ==
    ASSUME NEW T, NEW s \in Seq(T), NEW S
    PROVE  \E n \in 0..Len(s) :
              /\ TrimEnd(s, S) = SubSeq(s, 1, n)
              /\ n > 0 => s[n] \notin S
              /\ \A j \in (n + 1)..Len(s) : s[j] \in S
<1> DEFINE len == Len(s)
           E == {n \in 0..len : \A j \in (n + 1)..len : s[j] \in S}
           Q(n) == /\ n > 0 => s[n] \notin S
                   /\ \A j \in (n + 1)..len : s[j] \in S
<1>1. len \in Nat
  OBVIOUS
<1>2. E \subseteq Nat /\ len \in E
  BY <1>1
<1>3. PICK n \in E : \A m \in E : n <= m
  BY <1>2, LeastElement
<1>4. n \in 0..len /\ Q(n)
  <2>1. ASSUME n > 0, s[n] \in S PROVE FALSE
    <3>1. n - 1 \in 0..len /\ (n - 1) + 1 = n /\ ~(n <= n - 1)
      BY <1>1, <1>3, <2>1
    <3>2. \A j \in n..len : j = n \/ j \in (n + 1)..len
      BY <1>1, <1>3
    <3>3. n - 1 \in E
      BY <1>3, <2>1, <3>1, <3>2
    <3> QED
      BY <1>3, <3>1, <3>3
  <2> QED
    BY <1>3, <2>1
<1> DEFINE c == CHOOSE m \in 0..len : Q(m)
<1>5. TrimEnd(s, S) = SubSeq(s, 1, c)
  BY DEF TrimEnd
<1> HIDE DEF Q
<1>6. c \in 0..len /\ Q(c)
  BY <1>4
<1> QED
  BY <1>5, <1>6 DEF Q

\* A cut: both parts together, and either part if the other is apart from S.
LEMMA CutKeeps ==
    ASSUME NEW T, NEW s \in Seq(T), NEW S, NEW n \in 0..Len(s)
    PROVE  /\ SubSeq(s, 1, n) \in Seq(T)
           /\ SubSeq(s, n + 1, Len(s)) \in Seq(T)
           /\ Only(s, S) = Only(SubSeq(s, 1, n), S)
                             \o Only(SubSeq(s, n + 1, Len(s)), S)
           /\ (\A j \in 1..n : s[j] \notin S)
                => Only(SubSeq(s, n + 1, Len(s)), S) = Only(s, S)
           /\ (\A j \in (n + 1)..Len(s) : s[j] \notin S)
                => Only(SubSeq(s, 1, n), S) = Only(s, S)
<1> DEFINE a == SubSeq(s, 1, n)
           b == SubSeq(s, n + 1, Len(s))
<1>0. Len(s) \in Nat /\ \A j \in 1..Len(s) : s[j] \in T
  OBVIOUS
<1>1. a \in Seq(T) /\ b \in Seq(T)
  <2>1. \A j \in 1..n : s[j] \in T
    BY <1>0
  <2>2. \A j \in (n + 1)..Len(s) : s[j] \in T
    BY <1>0
  <2> QED
    BY <1>0, <2>1, <2>2, SubSeqProperties
<1>2. s = a \o b
  <2>1. 1 \in 1..(Len(s) + 1) /\ n \in (1 - 1)..Len(s) /\ Len(s) \in n..Len(s)
    BY <1>0
  <2>2. a \o b = SubSeq(s, 1, Len(s))
    BY <2>1, ConcatAdjacentSubSeq
  <2> QED
    BY <2>2, SubSeqFull
<1>3. ASSUME NEW V, V \cap S = {}, a \in Seq(V) PROVE Only(a, S) = <<>>
  BY <1>3, OnlyNone
<1>4. ASSUME NEW V, V \cap S = {}, b \in Seq(V) PROVE Only(b, S) = <<>>
  BY <1>4, OnlyNone
<1>5. ASSUME \A j \in 1..n : s[j] \notin S PROVE a \in Seq(T \ S)
  <2>1. \A j \in 1..n : s[j] \in T \ S
    BY <1>0, <1>5
  <2> QED
    BY <1>0, <2>1, SubSeqProperties
<1>6. ASSUME \A j \in (n + 1)..Len(s) : s[j] \notin S PROVE b \in Seq(T \ S)
  <2>1. \A j \in (n + 1)..Len(s) : s[j] \in T \ S
    BY <1>0, <1>6
  <2> QED
    BY <1>0, <2>1, SubSeqProperties
<1> HIDE DEF a, b
<1>7. /\ Only(s, S) = Only(a, S) \o Only(b, S)
      /\ Only(a, S) \in Seq(T \cap S) /\ Only(b, S) \in Seq(T \cap S)
  BY <1>1, <1>2, OnlyConcat, OnlyType
<1>8. (T \ S) \cap S = {}
  OBVIOUS
<1>9. ASSUME \A j \in 1..n : s[j] \notin S PROVE Only(b, S) = Only(s, S)
  <2>1. Only(a, S) = <<>>
    BY <1>3, <1>5, <1>8, <1>9
  <2> QED
    BY <1>7, <2>1, ConcatEmptySeq
<1>10. ASSUME \A j \in (n + 1)..Len(s) : s[j] \notin S
       PROVE  Only(a, S) = Only(s, S)
  <2>1. Only(b, S) = <<>>
    BY <1>4, <1>6, <1>8, <1>10
  <2> QED
    BY <1>7, <2>1, ConcatEmptySeq
<1> QED
  BY <1>1, <1>7, <1>9, <1>10 DEF a, b

\* Trimming the end of what is apart from S keeps S.
LEMMA TrimEndKeeps ==
    ASSUME NEW T, NEW s \in Seq(T), NEW U, NEW S, S \cap U = {}
    PROVE  /\ TrimEnd(s, U) \in Seq(T)
           /\ Only(TrimEnd(s, U), S) = Only(s, S)
<1>1. PICK n \in 0..Len(s) :
         /\ TrimEnd(s, U) = SubSeq(s, 1, n)
         /\ \A j \in (n + 1)..Len(s) : s[j] \in U
  BY TrimEndIs
<1>2. \A j \in (n + 1)..Len(s) : s[j] \notin S
  BY <1>1
<1>3. /\ SubSeq(s, 1, n) \in Seq(T)
      /\ Only(SubSeq(s, 1, n), S) = Only(s, S)
  BY <1>2, CutKeeps
<1> QED
  BY <1>1, <1>3

\* The same for the start.
LEMMA TrimStartKeeps ==
    ASSUME NEW T, NEW s \in Seq(T), NEW U, NEW S, S \cap U = {}
    PROVE  /\ TrimStart(s, U) \in Seq(T)
           /\ Only(TrimStart(s, U), S) = Only(s, S)
<1> DEFINE k == SkipFrom(s, 1, U)
<1>0. Len(s) \in Nat /\ 1 \in 1..(Len(s) + 1)
  OBVIOUS
<1>1. k \in 1..(Len(s) + 1) /\ \A j \in 1..(k - 1) : s[j] \in U
  BY <1>0, SkipFromIs
<1>2. TrimStart(s, U) = SubSeq(s, k, Len(s))
  BY DEF TrimStart
<1> HIDE DEF k
<1>3. k - 1 \in 0..Len(s) /\ (k - 1) + 1 = k
  BY <1>0, <1>1
<1>4. \A j \in 1..(k - 1) : s[j] \notin S
  BY <1>1
<1>5. /\ SubSeq(s, (k - 1) + 1, Len(s)) \in Seq(T)
      /\ Only(SubSeq(s, (k - 1) + 1, Len(s)), S) = Only(s, S)
  BY <1>3, <1>4, CutKeeps
<1> QED
  BY <1>2, <1>3, <1>5

\* Keeping a superset of S keeps S.
LEMMA OnlyKeeps ==
    ASSUME NEW T, NEW s \in Seq(T), NEW U, NEW S, S \cap T \subseteq U
    PROVE  Only(s, U) \in Seq(T) /\ Only(Only(s, U), S) = Only(s, S)
<1> DEFINE K == {i \in DOMAIN s : s[i] \in U}
           kept == FlattenSeq([i \in DOMAIN s |->
                                 IF i \in K THEN <<s[i]>> ELSE <<>>])
<1>1. \A i \in DOMAIN s : s[i] \in S => i \in K
  BY LenProperties
<1>2. Only(s, U) = kept
  BY DEF Only, KeepAt, Rewrite
<1>3. kept \in Seq(T) /\ Only(kept, S) = Only(s, S)
  <2> HIDE DEF K
  <2> QED
    BY <1>1, KeepKeeps
<1> QED
  BY <1>2, <1>3

\* strip_invisibles keeps what is solid.
LEMMA InvisiblesKeeps ==
    ASSUME NEW s \in Seq(Tokens), NEW S \in SUBSET Solid
    PROVE  /\ strip_invisibles(s) \in Seq(Tokens)
           /\ Only(strip_invisibles(s), S) = Only(s, S)
<1>1. S \cap Tokens \subseteq Tokens \ {"inv"}
  BY SolidApart
<1> QED
  BY <1>1, OnlyKeeps DEF strip_invisibles

\* unwrap_li_paragraphs keeps what is solid.
LEMMA UnwrapKeeps ==
    ASSUME NEW s \in Seq(Tokens), NEW S \in SUBSET Solid
    PROVE  /\ unwrap_li_paragraphs(s) \in Seq(Tokens)
           /\ Only(unwrap_li_paragraphs(s), S) = Only(s, S)
<1> DEFINE Count(t, i) == Len(Only(SubSeq(s, 1, i), {t}))
           K == {i \in DOMAIN s : \/ s[i] \notin {"p", "/p"}
                                  \/ Count("li", i) <= Count("/li", i)}
           kept == FlattenSeq([i \in DOMAIN s |->
                                 IF i \in K THEN <<s[i]>> ELSE <<>>])
<1>1. \A i \in DOMAIN s : s[i] \in S => i \in K
  BY SolidApart, OpensAre
<1>2. unwrap_li_paragraphs(s) = kept
  BY DEF unwrap_li_paragraphs, KeepAt, Rewrite
<1>3. kept \in Seq(Tokens) /\ Only(kept, S) = Only(s, S)
  <2> HIDE DEF K
  <2> QED
    BY <1>1, KeepKeeps
<1> QED
  BY <1>2, <1>3

\* An element that only holds filler holds nothing solid.
LEMMA SolidNotInEmpty ==
    ASSUME NEW s \in Seq(Tokens), NEW i \in DOMAIN s, s[i] \in Solid,
           NEW N \in SUBSET Opens, NEW F, F \cap Solid = {}
    PROVE  ~InEmpty(s, i, N, F)
<1>0. DOMAIN s = 1..Len(s) /\ Len(s) \in Nat
  BY LenProperties
<1> SUFFICES ASSUME NEW j \in 1..i, s[j] \in N,
                    i <= SkipFrom(s, j + 1, F),
                    At(s, SkipFrom(s, j + 1, F)) = CloseOf[s[j]]
             PROVE  FALSE
  BY DEF InEmpty
<1> DEFINE k == SkipFrom(s, j + 1, F)
<1>1. j + 1 \in 1..(Len(s) + 1)
  BY <1>0
<1>2. k \in (j + 1)..(Len(s) + 1) /\ \A m \in (j + 1)..(k - 1) : s[m] \in F
  BY <1>1, SkipFromIs
<1>3. CloseOf[s[j]] \notin Solid /\ s[j] \notin Solid
  BY SolidApart, OpensAre
<1>4. i # j
  BY <1>3
<1>5. CASE i = k
  BY <1>3, <1>5 DEF At
<1>6. CASE i # k
  <2>1. i \in (j + 1)..(k - 1)
    BY <1>0, <1>2, <1>4, <1>6
  <2> QED
    BY <1>2, <2>1
<1> QED
  BY <1>5, <1>6

\* prune_br_only_links keeps what is solid.
LEMMA PruneLinksKeeps ==
    ASSUME NEW s \in Seq(Tokens), NEW S \in SUBSET Solid
    PROVE  /\ prune_br_only_links(s) \in Seq(Tokens)
           /\ Only(prune_br_only_links(s), S) = Only(s, S)
<1> DEFINE K == {i \in DOMAIN s : ~InEmpty(s, i, {"a"}, Blank \cup {"br"})}
           kept == FlattenSeq([i \in DOMAIN s |->
                                 IF i \in K THEN <<s[i]>> ELSE <<>>])
<1>1. ASSUME NEW i \in DOMAIN s, s[i] \in S PROVE i \in K
  <2>1. {"a"} \in SUBSET Opens /\ (Blank \cup {"br"}) \cap Solid = {}
    BY SolidApart, OpensAre
  <2>2. s[i] \in Solid
    BY <1>1
  <2> QED
    BY <2>1, <2>2, SolidNotInEmpty
<1>2. prune_br_only_links(s) = kept
  BY DEF prune_br_only_links, KeepAt, Rewrite
<1>3. kept \in Seq(Tokens) /\ Only(kept, S) = Only(s, S)
  <2> HIDE DEF K
  <2> QED
    BY <1>1, KeepKeeps
<1> QED
  BY <1>2, <1>3

\* One pass of prune_empty_elements keeps what is solid.
LEMMA PruneOnceKeeps ==
    ASSUME NEW s \in Seq(Tokens), NEW S \in SUBSET Solid
    PROVE  /\ prune_empty_once(s) \in Seq(Tokens)
           /\ Only(prune_empty_once(s), S) = Only(s, S)
<1> DEFINE K == {i \in DOMAIN s : ~InEmpty(s, i, Prunable, Blank)}
           kept == FlattenSeq([i \in DOMAIN s |->
                                 IF i \in K THEN <<s[i]>> ELSE <<>>])
<1>1. ASSUME NEW i \in DOMAIN s, s[i] \in S PROVE i \in K
  <2>1. Prunable \in SUBSET Opens /\ Blank \cap Solid = {}
    BY SolidApart, OpensAre DEF Prunable
  <2>2. s[i] \in Solid
    BY <1>1
  <2> QED
    BY <2>1, <2>2, SolidNotInEmpty
<1>2. prune_empty_once(s) = kept
  BY DEF prune_empty_once, KeepAt, Rewrite
<1>3. kept \in Seq(Tokens) /\ Only(kept, S) = Only(s, S)
  <2> HIDE DEF K
  <2> QED
    BY <1>1, KeepKeeps
<1> QED
  BY <1>2, <1>3

\* Runs of breaks hold nothing solid.
LEMMA BreaksAreNotSolid ==
    ASSUME NEW s \in Seq(Tokens), NEW i \in DOMAIN s, s[i] \in Solid
    PROVE  i \notin InBreaks(s)
<1>0. DOMAIN s = 1..Len(s) /\ Len(s) \in Nat /\ i \in 1..(Len(s) + 1)
  BY LenProperties
<1> DEFINE k == SkipFrom(s, i, {"sp"})
<1>1. k \in i..(Len(s) + 1) /\ \A m \in i..(k - 1) : s[m] \in {"sp"}
  BY <1>0, SkipFromIs
<1>2. s[i] # "sp" /\ s[i] # "br"
  BY SolidApart DEF Blank
<1>3. k = i
  <2> SUFFICES ASSUME k # i PROVE FALSE
    OBVIOUS
  <2>1. i \in i..(k - 1)
    BY <1>0, <1>1
  <2> QED
    BY <1>1, <1>2, <2>1
<1> QED
  BY <1>2, <1>3 DEF InBreaks, At

\* strip_block_adjacent_breaks keeps what is solid.
LEMMA BlockBreaksKeeps ==
    ASSUME NEW s \in Seq(Tokens), NEW S \in SUBSET Solid
    PROVE  /\ strip_block_adjacent_breaks(s) \in Seq(Tokens)
           /\ Only(strip_block_adjacent_breaks(s), S) = Only(s, S)
<1> DEFINE R == InBreaks(s)
           Before(i) == At(s, CHOOSE j \in 0..(i - 1) :
                                  j \notin R /\ (j + 1)..i \subseteq R)
           RunEnd(i) == CHOOSE j \in i..Len(s) :
                                  j + 1 \notin R /\ i..j \subseteq R
           After(i)  == At(s, SkipFrom(s, RunEnd(i) + 1, {"sp"}))
           Touches(i, Names) == \/ Before(i) \in Bracket(Names)
                                \/ After(i) \in Bracket(Names)
           K == {i \in DOMAIN s :
                   i \in R => Touches(i, Headings) \/ ~Touches(i, Blocks)}
           kept == FlattenSeq([i \in DOMAIN s |->
                                 IF i \in K THEN <<s[i]>> ELSE <<>>])
<1>1. \A i \in DOMAIN s : s[i] \in S => i \in K
  <2>1. \A i \in DOMAIN s : s[i] \in S => i \notin R
    BY BreaksAreNotSolid
  <2> HIDE DEF R, Touches
  <2> QED
    BY <2>1
<1>2. strip_block_adjacent_breaks(s) = kept
  BY DEF strip_block_adjacent_breaks, KeepAt, Rewrite
<1>3. kept \in Seq(Tokens) /\ Only(kept, S) = Only(s, S)
  <2> HIDE DEF K
  <2> QED
    BY <1>1, KeepKeeps
<1> QED
  BY <1>2, <1>3

\* collapse_breaks keeps what is solid.
LEMMA CollapseBreaksKeeps ==
    ASSUME NEW s \in Seq(Tokens), NEW S \in SUBSET Solid
    PROVE  /\ collapse_breaks(s) \in Seq(Tokens)
           /\ Only(collapse_breaks(s), S) = Only(s, S)
<1> DEFINE R == InBreaks(s)
           Nth(i) == Len(Only(
                      SubSeq(s, (CHOOSE j \in 0..(i - 1) :
                                     j \notin R /\ (j + 1)..i \subseteq R)
                                + 1, i),
                      {"br"}))
           K == {i \in DOMAIN s :
                   i \in R => s[i] = "br" /\ Nth(i) <= MaxBreaks}
           kept == FlattenSeq([i \in DOMAIN s |->
                                 IF i \in K THEN <<s[i]>> ELSE <<>>])
           ended == TrimEnd(TrimEnd(kept, {"br"}), {"sp"})
<1>0. S \cap {"br"} = {} /\ S \cap {"sp"} = {} /\ S \cap {"br", "sp"} = {}
  BY SolidApart DEF Blank
<1>1. \A i \in DOMAIN s : s[i] \in S => i \in K
  <2>1. \A i \in DOMAIN s : s[i] \in S => i \notin R
    BY BreaksAreNotSolid
  <2> HIDE DEF R, Nth
  <2> QED
    BY <2>1
<1>2. collapse_breaks(s) = TrimBreaksStart(TrimStart(ended, {"sp"}))
  BY DEF collapse_breaks, KeepAt, Rewrite
<1>3. kept \in Seq(Tokens) /\ Only(kept, S) = Only(s, S)
  <2> HIDE DEF K
  <2> QED
    BY <1>1, KeepKeeps
<1> HIDE DEF kept
<1>4. /\ TrimEnd(kept, {"br"}) \in Seq(Tokens)
      /\ Only(TrimEnd(kept, {"br"}), S) = Only(s, S)
  BY <1>0, <1>3, TrimEndKeeps
<1>5. ended \in Seq(Tokens) /\ Only(ended, S) = Only(s, S)
  BY <1>0, <1>4, TrimEndKeeps
<1> HIDE DEF ended
<1> DEFINE begun == TrimStart(ended, {"sp"})
<1>6. begun \in Seq(Tokens) /\ Only(begun, S) = Only(s, S)
  BY <1>0, <1>5, TrimStartKeeps
<1> HIDE DEF begun
<1>7. /\ TrimStart(begun, {"br", "sp"}) \in Seq(Tokens)
      /\ Only(TrimStart(begun, {"br", "sp"}), S) = Only(s, S)
  BY <1>0, <1>6, TrimStartKeeps
<1>8. /\ TrimBreaksStart(begun) \in Seq(Tokens)
      /\ Only(TrimBreaksStart(begun), S) = Only(s, S)
  BY <1>6, <1>7 DEF TrimBreaksStart
<1> QED
  BY <1>2, <1>8 DEF begun

\* So do all passes of prune_empty_elements, however many run.
LEMMA PruneAllKeeps ==
    ASSUME NEW s \in Seq(Tokens), NEW S \in SUBSET Solid
    PROVE  /\ prune_empty_elements(s) \in Seq(Tokens)
           /\ Only(prune_empty_elements(s), S) = Only(s, S)
<1> DEFINE last == PrunePasses + 1
           X == Seq(Tokens)
           R(g) == g = [n \in 0..last |->
                          IF n = 0 THEN s ELSE prune_empty_once(g[n - 1])]
           pass == CHOOSE g : R(g)
           step == [n \in 1..last |-> [x \in X |-> prune_empty_once(x)]]
<1>0. last \in Nat /\ PrunePasses \in Nat /\ last = PrunePasses + 1
  BY DEF PrunePasses
<1> HIDE DEF last
<1>1. \A x \in X : prune_empty_once(x) \in X
  BY PruneOnceKeeps
<1>2. step \in [1..last -> [X -> X]]
  BY <1>1
<1>3. \A n \in 1..last, x \in X : step[n][x] = prune_empty_once(x)
  OBVIOUS
<1> HIDE DEF step
<1>4. PICK f \in [0..last -> X] : Solves(f, s, step, last)
  BY <1>0, <1>2, RecursionExists
<1>5. R(f)
  <2>1. ASSUME NEW n \in 0..last
        PROVE  f[n] = IF n = 0 THEN s ELSE prune_empty_once(f[n - 1])
    <3>1. CASE n = 0
      BY <1>4, <3>1 DEF Solves
    <3>2. CASE n # 0
      <4>1. n \in 1..last /\ n - 1 \in 0..last
        BY <1>0, <3>2
      <4>2. f[n] = step[n][f[n - 1]] /\ f[n - 1] \in X
        BY <1>4, <4>1 DEF Solves
      <4> HIDE DEF X
      <4> QED
        BY <1>3, <3>2, <4>1, <4>2
    <3> QED
      BY <3>1, <3>2
  <2> QED
    BY <2>1
<1>6. R(pass)
  BY <1>5
<1> HIDE DEF pass
<1>7. \A n \in 0..last :
         pass[n] = IF n = 0 THEN s ELSE prune_empty_once(pass[n - 1])
  BY <1>6
<1> DEFINE Good(x) == x \in Seq(Tokens) /\ Only(x, S) = Only(s, S)
           U == {n \in Nat : n <= last => Good(pass[n])}
<1>8. 0 \in U
  <2>1. pass[0] = s
    BY <1>0, <1>7
  <2> QED
    BY <2>1
<1>9. ASSUME NEW n \in Nat, n \in U PROVE n + 1 \in U
  <2> SUFFICES ASSUME n + 1 <= last PROVE Good(pass[n + 1])
    OBVIOUS
  <2>1. n + 1 \in 0..last /\ n <= last /\ n + 1 # 0 /\ (n + 1) - 1 = n
    BY <1>0
  <2>2. pass[n + 1] = prune_empty_once(pass[n])
    BY <1>7, <2>1
  <2>3. Good(pass[n])
    BY <1>9, <2>1
  <2> QED
    BY <2>2, <2>3, PruneOnceKeeps
<1> HIDE DEF U
<1>10. Nat \subseteq U
  BY <1>8, <1>9, SetInduction
<1> DEFINE Stop(n) == n = PrunePasses \/ pass[n + 1] = pass[n]
           m == CHOOSE n \in 0..PrunePasses : Stop(n)
<1>11. m \in 0..PrunePasses
  <2>1. PrunePasses \in 0..PrunePasses /\ Stop(PrunePasses)
    BY <1>0
  <2> HIDE DEF Stop
  <2> QED
    BY <2>1
<1>12. prune_empty_elements(s) = pass[m]
  BY DEF prune_empty_elements, pass, last
<1> HIDE DEF m, Good
<1>13. Good(pass[m])
  BY <1>0, <1>10, <1>11 DEF U
<1> QED
  BY <1>12, <1>13 DEF Good

\* One step of QuoteDepth.
DepthStep(x, t) ==
    IF x = 0 THEN IF t = "cite" THEN 1 ELSE 0 ELSE x + Nesting(t)

\* The depth of the scan, step by step, and never negative.
LEMMA QuoteDepthIs ==
    ASSUME NEW T, NEW s \in Seq(T)
    PROVE  /\ QuoteDepth(s)[0] = 0
           /\ \A i \in 0..Len(s) : QuoteDepth(s)[i] \in Nat
           /\ \A i \in 1..Len(s) :
                 QuoteDepth(s)[i] = DepthStep(QuoteDepth(s)[i - 1], s[i])
<1> DEFINE n == Len(s)
           R(g) == g = [i \in 0..n |->
                          IF i = 0 THEN 0
                          ELSE IF g[i - 1] = 0
                                 THEN IF s[i] = "cite" THEN 1 ELSE 0
                                 ELSE g[i - 1] + Nesting(s[i])]
           d == CHOOSE g : R(g)
           step == [i \in 1..n |-> [x \in Nat |-> DepthStep(x, s[i])]]
<1>0. n \in Nat
  OBVIOUS
<1>1. \A x \in Nat : \A t : DepthStep(x, t) \in Nat
  BY DEF DepthStep, Nesting
<1>2. step \in [1..n -> [Nat -> Nat]]
  BY <1>1
<1>3. \A i \in 1..n, x \in Nat : step[i][x] = DepthStep(x, s[i])
  OBVIOUS
<1> HIDE DEF step
<1>4. PICK f \in [0..n -> Nat] : Solves(f, 0, step, n)
  BY <1>0, <1>2, RecursionExists
<1>5. R(f)
  <2>1. ASSUME NEW i \in 0..n
        PROVE  f[i] = IF i = 0 THEN 0 ELSE DepthStep(f[i - 1], s[i])
    <3>1. CASE i = 0
      BY <1>4, <3>1 DEF Solves
    <3>2. CASE i # 0
      <4>1. i \in 1..n /\ i - 1 \in 0..n
        BY <1>0, <3>2
      <4>2. f[i] = step[i][f[i - 1]] /\ f[i - 1] \in Nat
        BY <1>4, <4>1 DEF Solves
      <4> QED
        BY <1>3, <3>2, <4>1, <4>2
    <3> QED
      BY <3>1, <3>2
  <2> QED
    BY <2>1 DEF DepthStep
<1>6. R(d)
  BY <1>5
<1>7. QuoteDepth(s) = d
  BY DEF QuoteDepth
<1> HIDE DEF d
<1>8. \A i \in 0..n : d[i] = IF i = 0 THEN 0 ELSE DepthStep(d[i - 1], s[i])
  BY <1>6 DEF DepthStep
<1> DEFINE U == {i \in Nat : i <= n => d[i] \in Nat}
<1>9. d[0] = 0
  BY <1>0, <1>8
<1>10. 0 \in U
  BY <1>9
<1>11. ASSUME NEW i \in Nat, i \in U PROVE i + 1 \in U
  <2> SUFFICES ASSUME i + 1 <= n PROVE d[i + 1] \in Nat
    OBVIOUS
  <2>1. i + 1 \in 0..n /\ i <= n /\ i + 1 # 0 /\ (i + 1) - 1 = i
    BY <1>0
  <2>2. d[i + 1] = DepthStep(d[i], s[i + 1])
    BY <1>8, <2>1
  <2> QED
    BY <1>1, <1>11, <2>1, <2>2
<1> HIDE DEF U
<1>12. Nat \subseteq U
  BY <1>10, <1>11, SetInduction
<1>13. \A i \in 0..n : d[i] \in Nat
  BY <1>12 DEF U
<1>14. \A i \in 1..n : i \in 0..n /\ i # 0
  BY <1>0
<1> QED
  BY <1>7, <1>8, <1>9, <1>13, <1>14

\* How many more blockquotes s opens than it closes from j to k.
Excess(s, j, k) ==
    Len(Only(SubSeq(s, j, k), Quotes)) - Len(Only(SubSeq(s, j, k), {"/quote"}))

\* Excess, token by token.
LEMMA ExcessIs ==
    ASSUME NEW T, NEW s \in Seq(T), NEW j \in 1..Len(s), NEW k \in j..Len(s)
    PROVE  /\ Excess(s, j, k) \in Int
           /\ k = j => Excess(s, j, k) = Nesting(s[k])
           /\ k > j => /\ Excess(s, j, k - 1) \in Int
                       /\ Excess(s, j, k)
                            = Excess(s, j, k - 1) + Nesting(s[k])
<1> DEFINE a == SubSeq(s, j, k - 1)
           e == s[k]
<1>0. Len(s) \in Nat /\ \A i \in 1..Len(s) : s[i] \in T
  OBVIOUS
<1>1. a \in Seq(T) /\ e \in T /\ (k = j => a = <<>>)
  <2>1. \A i \in j..(k - 1) : s[i] \in T
    BY <1>0
  <2>2. k = j => k - 1 < j
    BY <1>0
  <2> QED
    BY <1>0, <2>1, <2>2, SubSeqProperties, SubSeqEmpty
<1>2. SubSeq(s, j, k) = Append(a, e)
  <2>1. SubSeq(s, j, k) = a \o <<e>>
    BY SubSeqRecursiveSecond
  <2> HIDE DEF a, e
  <2> QED
    BY <1>1, <2>1, AppendIsConcat
<1> HIDE DEF a, e
<1>3. ASSUME NEW S
      PROVE  /\ Len(Only(a, S)) \in Nat
             /\ Len(Only(Append(a, e), S))
                  = Len(Only(a, S)) + (IF e \in S THEN 1 ELSE 0)
  <2>1. Only(a, S) \in Seq(T \cap S) /\ OneOf(e, S) \in Seq(T \cap S)
    BY <1>1, OnlyType, OneOfType
  <2>2. Only(Append(a, e), S) = Only(a, S) \o OneOf(e, S)
    BY <1>1, OnlyAppend
  <2>3. Len(Only(a, S) \o OneOf(e, S)) = Len(Only(a, S)) + Len(OneOf(e, S))
    BY <2>1, ConcatProperties
  <2>4. Len(OneOf(e, S)) = IF e \in S THEN 1 ELSE 0
    BY DEF OneOf
  <2>5. Len(Only(a, S)) \in Nat
    BY <2>1, LenProperties
  <2> QED
    BY <2>2, <2>3, <2>4, <2>5
<1>4. Nesting(e) = (IF e \in Quotes THEN 1 ELSE 0)
                     - (IF e \in {"/quote"} THEN 1 ELSE 0)
  BY DEF Nesting, Quotes
<1> DEFINE x == Len(Only(a, Quotes))
           y == Len(Only(a, {"/quote"}))
<1>5. x \in Nat /\ y \in Nat
  BY <1>3
<1>6. Excess(s, j, k) = (x + (IF e \in Quotes THEN 1 ELSE 0))
                          - (y + (IF e \in {"/quote"} THEN 1 ELSE 0))
  BY <1>2, <1>3 DEF Excess
<1>7. k = j => x = 0 /\ y = 0
  BY <1>1, OnlyEmpty
<1>8. Excess(s, j, k - 1) = x - y
  BY DEF Excess, a
<1> HIDE DEF x, y
<1>9. /\ Excess(s, j, k) \in Int /\ x - y \in Int
      /\ Excess(s, j, k) = (x - y) + Nesting(e)
  BY <1>4, <1>5, <1>6
<1>10. Nesting(e) \in Int
  BY DEF Nesting
<1> QED
  BY <1>7, <1>8, <1>9, <1>10 DEF e

\* The counting scan and the nesting of blockquotes agree on every token.
LEMMA CitedIs ==
    ASSUME NEW T, NEW s \in Seq(T), NEW i \in 1..Len(s)
    PROVE  Cited(s, i) <=> ~(QuoteDepth(s)[i - 1] = 0 /\ s[i] # "cite")
<1> DEFINE n == Len(s)
           d == QuoteDepth(s)
           Start(j, m) == /\ s[j] = "cite"
                          /\ \A k \in j..m : Excess(s, j, k) > 0
<1>0. n \in Nat
  OBVIOUS
<1>1. /\ d[0] = 0 /\ \A k \in 0..n : d[k] \in Nat
      /\ \A k \in 1..n : d[k] = DepthStep(d[k - 1], s[k])
  BY QuoteDepthIs
<1> HIDE DEF d
<1>2. Cited(s, i) <=> \E j \in 1..i : Start(j, i - 1)
  <2>1. ASSUME NEW j \in 1..i, NEW k \in j..(i - 1)
        PROVE  Excess(s, j, k) > 0 <=>
                 Len(Only(SubSeq(s, j, k), Quotes))
                   > Len(Only(SubSeq(s, j, k), {"/quote"}))
    <3>1. \A m \in j..k : s[m] \in T
      BY <1>0
    <3>2. SubSeq(s, j, k) \in Seq(T)
      BY <3>1, SubSeqProperties
    <3>3. /\ Only(SubSeq(s, j, k), Quotes) \in Seq(T \cap Quotes)
          /\ Only(SubSeq(s, j, k), {"/quote"}) \in Seq(T \cap {"/quote"})
      BY <3>2, OnlyType
    <3>4. /\ Len(Only(SubSeq(s, j, k), Quotes)) \in Nat
          /\ Len(Only(SubSeq(s, j, k), {"/quote"})) \in Nat
      BY <3>3, LenProperties
    <3> QED
      BY <3>4 DEF Excess
  <2> QED
    BY <2>1 DEF Cited
<1>3. ASSUME d[i - 1] # 0 PROVE \E j \in 1..i : Start(j, i - 1)
  <2> DEFINE A(m) == \E j \in 1..m : Start(j, m) /\ d[m] = Excess(s, j, m)
             U == {m \in Nat : m <= n /\ d[m] # 0 => A(m)}
  <2>1. 0 \in U
    BY <1>1
  <2>2. ASSUME NEW m \in Nat, m \in U PROVE m + 1 \in U
    <3> SUFFICES ASSUME m + 1 <= n, d[m + 1] # 0 PROVE A(m + 1)
      OBVIOUS
    <3>1. m + 1 \in 1..n /\ (m + 1) - 1 = m /\ m \in 0..n /\ m <= n
      BY <1>0
    <3>2. d[m + 1] = DepthStep(d[m], s[m + 1]) /\ d[m] \in Nat
      BY <1>1, <3>1
    <3>3. CASE d[m] = 0
      <4>1. s[m + 1] = "cite" /\ d[m + 1] = 1
        BY <3>2, <3>3 DEF DepthStep
      <4>2. Excess(s, m + 1, m + 1) = Nesting("cite")
        BY <3>1, <4>1, ExcessIs
      <4>3. Nesting("cite") = 1
        BY DEF Nesting, Quotes
      <4>4. \A k \in (m + 1)..(m + 1) : k = m + 1
        BY <3>1
      <4>5. Start(m + 1, m + 1) /\ d[m + 1] = Excess(s, m + 1, m + 1)
        BY <4>1, <4>2, <4>3, <4>4
      <4>6. m + 1 \in 1..(m + 1)
        OBVIOUS
      <4> HIDE DEF Start
      <4> QED
        BY <4>5, <4>6
    <3>4. CASE d[m] # 0
      <4>1. PICK j \in 1..m : Start(j, m) /\ d[m] = Excess(s, j, m)
        BY <2>2, <3>1, <3>4
      <4>2. j \in 1..n /\ m + 1 \in j..n /\ m + 1 > j
        BY <1>0, <3>1
      <4>3. Excess(s, j, m + 1) = d[m] + Nesting(s[m + 1])
        BY <3>1, <4>1, <4>2, ExcessIs
      <4>4. d[m + 1] = d[m] + Nesting(s[m + 1])
        BY <3>2, <3>4 DEF DepthStep
      <4>5. d[m + 1] \in Nat
        BY <1>1, <3>1
      <4>6. Excess(s, j, m + 1) > 0 /\ d[m + 1] = Excess(s, j, m + 1)
        BY <4>3, <4>4, <4>5
      <4>7. \A k \in j..(m + 1) : k \in j..m \/ k = m + 1
        BY <4>1
      <4>8. Start(j, m + 1)
        BY <4>1, <4>6, <4>7
      <4>9. j \in 1..(m + 1)
        BY <4>1
      <4> HIDE DEF Start
      <4> QED
        BY <4>6, <4>8, <4>9
    <3> QED
      BY <3>3, <3>4
  <2> HIDE DEF U
  <2>3. Nat \subseteq U
    BY <2>1, <2>2, SetInduction
  <2>4. i - 1 \in Nat /\ i - 1 <= n
    BY <1>0
  <2>5. A(i - 1)
    <3> HIDE DEF A
    <3> QED
      BY <1>3, <2>3, <2>4 DEF U
  <2>6. \A j \in 1..(i - 1) : j \in 1..i
    OBVIOUS
  <2> HIDE DEF Start
  <2> QED
    BY <2>5, <2>6
<1>4. ASSUME s[i] = "cite" PROVE \E j \in 1..i : Start(j, i - 1)
  <2>1. i \in 1..i /\ \A k \in i..(i - 1) : FALSE
    OBVIOUS
  <2> QED
    BY <1>4, <2>1
<1>5. ASSUME NEW j \in 1..i, Start(j, i - 1), s[i] # "cite"
      PROVE  d[i - 1] # 0
  <2>1. j < i /\ j \in 1..n /\ i - 1 \in j..n
    BY <1>0, <1>5
  <2> DEFINE U == {m \in Nat :
                     j + m <= i - 1 => d[j + m] >= Excess(s, j, j + m)}
  <2>2. 0 \in U
    <3>1. j + 0 = j /\ j - 1 \in 0..n /\ j \in j..n
      BY <1>0, <2>1
    <3>2. Excess(s, j, j) = Nesting("cite")
      BY <1>5, <2>1, <3>1, ExcessIs
    <3>3. Nesting("cite") = 1
      BY DEF Nesting, Quotes
    <3>4. d[j] = DepthStep(d[j - 1], "cite") /\ d[j - 1] \in Nat
      BY <1>1, <1>5, <2>1, <3>1
    <3>5. d[j] >= 1
      BY <3>3, <3>4 DEF DepthStep
    <3> QED
      BY <3>1, <3>2, <3>3, <3>5
  <2>3. ASSUME NEW m \in Nat, m \in U PROVE m + 1 \in U
    <3> DEFINE k == j + m
    <3> SUFFICES ASSUME j + (m + 1) <= i - 1
                 PROVE  d[j + (m + 1)] >= Excess(s, j, j + (m + 1))
      OBVIOUS
    <3>1. /\ j + (m + 1) = k + 1 /\ k <= i - 1 /\ k \in j..(i - 1)
          /\ k + 1 \in j..n /\ k + 1 > j /\ (k + 1) - 1 = k
          /\ k \in 0..n /\ k + 1 \in 1..n /\ k \in j..n
      BY <1>0, <2>1
    <3>2. d[k] >= Excess(s, j, k)
      BY <2>3, <3>1
    <3>3. Excess(s, j, k) > 0
      BY <1>5, <3>1
    <3>4. /\ Excess(s, j, k) \in Int
          /\ Excess(s, j, k + 1) = Excess(s, j, k) + Nesting(s[k + 1])
      BY <2>1, <3>1, ExcessIs
    <3>5. d[k + 1] = DepthStep(d[k], s[k + 1]) /\ d[k] \in Nat
      BY <1>1, <3>1
    <3> HIDE DEF k
    <3>6. d[k] # 0
      BY <3>2, <3>3, <3>4, <3>5
    <3>7. d[k + 1] = d[k] + Nesting(s[k + 1])
      BY <3>5, <3>6 DEF DepthStep
    <3>8. Nesting(s[k + 1]) \in Int
      BY DEF Nesting
    <3>9. d[k + 1] >= Excess(s, j, k + 1)
      BY <3>2, <3>4, <3>5, <3>7, <3>8
    <3> QED
      BY <3>1, <3>9
  <2> HIDE DEF U
  <2>4. Nat \subseteq U
    BY <2>2, <2>3, SetInduction
  <2>5. (i - 1) - j \in Nat /\ j + ((i - 1) - j) = i - 1
    BY <1>0, <2>1
  <2>6. d[i - 1] >= Excess(s, j, i - 1)
    <3>1. (i - 1) - j \in U
      BY <2>4, <2>5
    <3> QED
      BY <2>1, <2>5, <3>1 DEF U
  <2>7. Excess(s, j, i - 1) > 0 /\ Excess(s, j, i - 1) \in Int
    BY <1>5, <2>1, ExcessIs
  <2> QED
    BY <2>6, <2>7
<1> HIDE DEF Start
<1>6. d = QuoteDepth(s)
  BY DEF d
<1> QED
  BY <1>2, <1>3, <1>4, <1>5, <1>6

\* What is left by the scan is what no quoted reply encloses.
LEMMA StripIsOwn ==
    ASSUME NEW T, NEW s \in Seq(T)
    PROVE  /\ strip_reply_blockquotes(s) = Own(s)
           /\ Own(s) \in Seq(T)
<1> DEFINE d == QuoteDepth(s)
           K == {i \in DOMAIN s : d[i - 1] = 0 /\ s[i] # "cite"}
           L == {i \in DOMAIN s : ~Cited(s, i)}
           Kept(M) == FlattenSeq([i \in DOMAIN s |->
                                    IF i \in M THEN <<s[i]>> ELSE <<>>])
<1>1. K = L
  <2>1. DOMAIN s = 1..Len(s)
    BY LenProperties
  <2> QED
    BY <2>1, CitedIs
<1>2. strip_reply_blockquotes(s) = Kept(K)
  BY DEF strip_reply_blockquotes, KeepAt, Rewrite
<1>3. Own(s) = Kept(L)
  BY DEF Own, KeepAt, Rewrite
<1>4. Kept(L) \in Seq(T)
  <2> HIDE DEF L
  <2> QED
    BY KeepType
<1> QED
  BY <1>1, <1>2, <1>3, <1>4

\* The marks take the place of images only.
LEMMA PlaceholderKeeps ==
    ASSUME NEW s \in Seq(Tokens), NEW S \in SUBSET Texts
    PROVE  /\ placeholder_remote_images(s) \in Seq(Tokens)
           /\ Only(placeholder_remote_images(s), S) = Only(s, S)
<1> DEFINE chrome == chrome_image_offsets(s)
           New(i) ==
            IF s[i] \notin Images \cup {"bare"} THEN <<s[i]>>
            ELSE IF /\ s[i] # "bare" /\ Img[s[i]].remote
                    /\ ~is_decorative_img(s[i])
                    /\ i \notin chrome
                   THEN <<"mark">> ELSE <<>>
           ss == [i \in DOMAIN s |-> New(i)]
<1>1. ASSUME NEW i \in DOMAIN s
      PROVE  New(i) \in Seq(Tokens) /\ Only(New(i), S) = OneOf(s[i], S)
  <2>0. s[i] \in Tokens
    BY LenProperties
  <2>1. "mark" \in Tokens \ S /\ (Images \cup {"bare"}) \cap S = {}
    BY SolidApart DEF Texts, Solid
  <2>2. /\ New(i) \in {<<"mark">>, <<>>, <<s[i]>>}
        /\ New(i) # <<s[i]>> => s[i] \in Images \cup {"bare"}
    OBVIOUS
  <2> HIDE DEF New
  <2>3. New(i) # <<s[i]>> => s[i] \notin S
    BY <2>1, <2>2
  <2>4. CASE New(i) = <<s[i]>>
    BY <2>0, <2>4, OneFor
  <2>5. CASE s[i] \notin S /\ New(i) = <<"mark">>
    BY <2>1, <2>5, OneFor
  <2>6. CASE s[i] \notin S /\ New(i) = <<>>
    BY <2>6, NoneFor
  <2> QED
    BY <2>2, <2>3, <2>4, <2>5, <2>6
<1>2. placeholder_remote_images(s) = FlattenSeq(ss)
  BY DEF placeholder_remote_images, Rewrite
<1> HIDE DEF New
<1>3. /\ ss \in [DOMAIN s -> Seq(Tokens)]
      /\ \A i \in DOMAIN s : Only(ss[i], S) = OneOf(s[i], S)
  BY <1>1
<1> HIDE DEF ss
<1> QED
  BY <1>2, <1>3, RewriteKeeps

\* The passes after the marks keep what is solid.
LEMMA PassesKeep ==
    ASSUME NEW s \in Seq(Tokens), NEW mode, NEW S \in SUBSET Solid,
           NEW marked \in Seq(Tokens),
           marked = IF mode = "links"
                      THEN placeholder_remote_images(
                               strip_reply_blockquotes(s))
                      ELSE strip_reply_blockquotes(s)
    PROVE  /\ sanitize_for_matrix(s, mode) \in Seq(Tokens)
           /\ Only(sanitize_for_matrix(s, mode), S) = Only(marked, S)
<1> DEFINE a == separate_table_blocks(marked, mode)
           b == clean(a, mode)
           c == strip_invisibles(b)
           d == unwrap_li_paragraphs(c)
           e == prune_br_only_links(d)
           f == prune_empty_elements(e)
           g == collapse_blank_runs(f)
           h == strip_block_adjacent_breaks(g)
           k == collapse_breaks(h)
<1>0. sanitize_for_matrix(s, mode) = k
  BY DEF sanitize_for_matrix
<1>1. a \in Seq(Tokens) /\ Only(a, S) = Only(marked, S)
  BY SeparateKeeps
<1> HIDE DEF a
<1>2. b \in Seq(Tokens) /\ Only(b, S) = Only(marked, S)
  BY <1>1, CleanKeeps
<1> HIDE DEF b
<1>3. c \in Seq(Tokens) /\ Only(c, S) = Only(marked, S)
  BY <1>2, InvisiblesKeeps
<1> HIDE DEF c
<1>4. d \in Seq(Tokens) /\ Only(d, S) = Only(marked, S)
  BY <1>3, UnwrapKeeps
<1> HIDE DEF d
<1>5. e \in Seq(Tokens) /\ Only(e, S) = Only(marked, S)
  BY <1>4, PruneLinksKeeps
<1> HIDE DEF e
<1>6. f \in Seq(Tokens) /\ Only(f, S) = Only(marked, S)
  BY <1>5, PruneAllKeeps
<1> HIDE DEF f
<1>7. g \in Seq(Tokens) /\ Only(g, S) = Only(marked, S)
  BY <1>6, CollapseBlanksKeeps
<1> HIDE DEF g
<1>8. h \in Seq(Tokens) /\ Only(h, S) = Only(marked, S)
  BY <1>7, BlockBreaksKeeps
<1> HIDE DEF h
<1>9. k \in Seq(Tokens) /\ Only(k, S) = Only(marked, S)
  BY <1>8, CollapseBreaksKeeps
<1> HIDE DEF k
<1> QED
  BY <1>0, <1>9

\* All passes together keep the text that is the sender's own.
LEMMA SanitizeKeeps ==
    ASSUME NEW s \in Seq(Tokens), NEW mode
    PROVE  /\ sanitize_for_matrix(s, mode) \in Seq(Tokens)
           /\ Only(sanitize_for_matrix(s, mode), Texts)
                = Only(Own(s), Texts)
<1> DEFINE pre == strip_reply_blockquotes(s)
           marked == IF mode = "links" THEN placeholder_remote_images(pre)
                                       ELSE pre
<1>1. pre \in Seq(Tokens) /\ pre = Own(s)
  BY StripIsOwn
<1> HIDE DEF pre
<1>2. marked \in Seq(Tokens) /\ Only(marked, Texts) = Only(pre, Texts)
  <2>1. Texts \in SUBSET Texts
    OBVIOUS
  <2> QED
    BY <1>1, <2>1, PlaceholderKeeps
<1>3. Texts \in SUBSET Solid
  BY DEF Solid
<1>4. /\ sanitize_for_matrix(s, mode) \in Seq(Tokens)
      /\ Only(sanitize_for_matrix(s, mode), Texts) = Only(marked, Texts)
  BY <1>2, <1>3, PassesKeep DEF pre
<1> QED
  BY <1>1, <1>2, <1>4

\* The depth depends on the blockquotes only.
LEMMA SameDepth ==
    ASSUME NEW T, NEW s \in Seq(T), NEW r \in Seq(T), Len(s) = Len(r),
           \A i \in 1..Len(s) :
              /\ s[i] = "cite" <=> r[i] = "cite"
              /\ Nesting(s[i]) = Nesting(r[i])
    PROVE  \A i \in 0..Len(s) : QuoteDepth(s)[i] = QuoteDepth(r)[i]
<1> DEFINE n == Len(s)
           d == QuoteDepth(s)
           e == QuoteDepth(r)
<1>0. n \in Nat
  OBVIOUS
<1>1. d[0] = 0 /\ \A i \in 1..n : d[i] = DepthStep(d[i - 1], s[i])
  BY QuoteDepthIs
<1>2. e[0] = 0 /\ \A i \in 1..n : e[i] = DepthStep(e[i - 1], r[i])
  BY QuoteDepthIs
<1>3. \A i \in 1..n : \A x : DepthStep(x, s[i]) = DepthStep(x, r[i])
  BY DEF DepthStep
<1> HIDE DEF d, e, n
<1> DEFINE U == {i \in Nat : i <= n => d[i] = e[i]}
<1>4. 0 \in U
  BY <1>1, <1>2
<1>5. ASSUME NEW i \in Nat, i \in U PROVE i + 1 \in U
  <2> SUFFICES ASSUME i + 1 <= n PROVE d[i + 1] = e[i + 1]
    OBVIOUS
  <2>1. i + 1 \in 1..n /\ (i + 1) - 1 = i /\ i <= n
    BY <1>0
  <2>2. d[i] = e[i]
    BY <1>5, <2>1
  <2>3. d[i + 1] = DepthStep(d[i], s[i + 1])
    BY <1>1, <2>1
  <2>4. e[i + 1] = DepthStep(e[i], r[i + 1])
    BY <1>2, <2>1
  <2> QED
    BY <1>3, <2>1, <2>2, <2>3, <2>4
<1> HIDE DEF U
<1>6. Nat \subseteq U
  BY <1>4, <1>5, SetInduction
<1>7. \A i \in 0..n : d[i] = e[i]
  BY <1>0, <1>6 DEF U
<1> QED
  BY <1>7 DEF d, e, n

\* Images put in before the passes change nothing of that.
LEMMA RenderKeeps ==
    ASSUME NEW s \in Seq(Tokens), NEW uploaded
    PROVE  /\ render_inline_images(s, uploaded) \in Seq(Tokens)
           /\ Only(render_inline_images(s, uploaded), Texts)
                = Only(Own(s), Texts)
<1> DEFINE r == [i \in DOMAIN s |->
                   IF s[i] \in Images /\ Img[s[i]].url \in uploaded
                     THEN Img[s[i]].url ELSE s[i]]
           n == Len(s)
<1>0. n \in Nat /\ DOMAIN s = 1..n /\ \A i \in 1..n : s[i] \in Tokens
  BY LenProperties
<1>1. \A t \in Images : Img[t].url \in Urls
  BY ImgAssumption DEF ImgInfo, Images
<1>2. Urls \subseteq Tokens
  BY DEF Tokens
<1>3. ASSUME NEW i \in 1..n
      PROVE  \/ r[i] = s[i]
             \/ s[i] \in Images /\ r[i] \in Urls
  BY <1>0, <1>1
<1>4. r \in Seq(Tokens) /\ Len(r) = n
  <2>1. \A i \in 1..n : r[i] \in Tokens
    BY <1>0, <1>2, <1>3
  <2>2. r \in [1..n -> Tokens]
    BY <1>0, <2>1
  <2> HIDE DEF r
  <2> QED
    BY <1>0, <2>2
<1>5. render_inline_images(s, uploaded) = sanitize_for_matrix(r, "rich")
  BY DEF render_inline_images
<1> HIDE DEF r
<1>6. /\ render_inline_images(s, uploaded) \in Seq(Tokens)
      /\ Only(render_inline_images(s, uploaded), Texts)
           = Only(Own(r), Texts)
  BY <1>4, <1>5, SanitizeKeeps
<1>7. ASSUME NEW t \in Images \cup Urls
      PROVE  t # "cite" /\ t \notin Quotes /\ t # "/quote" /\ t \notin Texts
  <2>1. t \notin Basic
    BY ImgAssumption
  <2>2. {"cite", "/quote"} \cup Quotes \cup Texts \subseteq Basic
    BY OpensAre DEF Basic, Quotes
  <2> QED
    BY <2>1, <2>2
<1>8. \A i \in 1..n : /\ s[i] = "cite" <=> r[i] = "cite"
                      /\ Nesting(s[i]) = Nesting(r[i])
                      /\ s[i] \in Texts \/ r[i] \in Texts
                           => s[i] = r[i]
  BY <1>3, <1>7 DEF Nesting
<1> DEFINE d == QuoteDepth(s)
           e == QuoteDepth(r)
           ss == [i \in DOMAIN s |->
                    IF d[i - 1] = 0 /\ s[i] # "cite"
                      THEN <<s[i]>> ELSE <<>>]
           rr == [i \in DOMAIN r |->
                    IF e[i - 1] = 0 /\ r[i] # "cite"
                      THEN <<r[i]>> ELSE <<>>]
<1>9. \A i \in 0..n : d[i] = e[i]
  BY <1>4, <1>8, SameDepth
<1>10. Own(s) = FlattenSeq(ss) /\ Own(r) = FlattenSeq(rr)
  <2>1. strip_reply_blockquotes(s) = FlattenSeq(ss)
    BY DEF strip_reply_blockquotes, KeepAt, Rewrite
  <2>2. strip_reply_blockquotes(r) = FlattenSeq(rr)
    BY DEF strip_reply_blockquotes, KeepAt, Rewrite
  <2> QED
    BY <1>4, <2>1, <2>2, StripIsOwn
<1> HIDE DEF d, e
<1>11. DOMAIN r = 1..n /\ \A i \in 1..n : r[i] \in Tokens
  BY <1>4, LenProperties
<1>12. ss \in Seq(Seq(Tokens)) /\ DOMAIN ss = 1..n
  <2>1. ss \in [DOMAIN s -> Seq(Tokens)]
    BY <1>0
  <2> HIDE DEF ss
  <2> QED
    BY <1>0, <2>1, RewriteType
<1>13. rr \in Seq(Seq(Tokens)) /\ DOMAIN rr = 1..n
  <2>1. rr \in [DOMAIN r -> Seq(Tokens)]
    BY <1>11
  <2> HIDE DEF rr
  <2> QED
    BY <1>4, <1>11, <2>1, RewriteType
<1>14. ASSUME NEW i \in 1..n PROVE Only(ss[i], Texts) = Only(rr[i], Texts)
  <2>0. i - 1 \in 0..n
    BY <1>0
  <2>1. d[i - 1] = e[i - 1]
    BY <1>9, <2>0
  <2>2. s[i] = "cite" <=> r[i] = "cite"
    BY <1>8
  <2>3. OneOf(s[i], Texts) = OneOf(r[i], Texts)
    BY <1>8 DEF OneOf
  <2>4. CASE d[i - 1] = 0 /\ s[i] # "cite"
    <3>1. ss[i] = <<s[i]>> /\ rr[i] = <<r[i]>>
      BY <1>0, <1>11, <2>1, <2>2, <2>4
    <3>2. Only(<<s[i]>>, Texts) = OneOf(s[i], Texts)
      BY OnlyOne
    <3>3. Only(<<r[i]>>, Texts) = OneOf(r[i], Texts)
      BY OnlyOne
    <3> QED
      BY <2>3, <3>1, <3>2, <3>3
  <2>5. CASE ~(d[i - 1] = 0 /\ s[i] # "cite")
    <3>1. ss[i] = <<>> /\ rr[i] = <<>>
      BY <1>0, <1>11, <2>1, <2>2, <2>5
    <3> QED
      BY <3>1
  <2> QED
    BY <2>4, <2>5
<1> HIDE DEF ss, rr
<1>15. Only(FlattenSeq(ss), Texts) = Only(FlattenSeq(rr), Texts)
  <2>1. Only(FlattenSeq(ss), Texts)
          = FlattenSeq([i \in DOMAIN ss |-> Only(ss[i], Texts)])
    BY <1>12, OnlyFlatten
  <2>2. Only(FlattenSeq(rr), Texts)
          = FlattenSeq([i \in DOMAIN rr |-> Only(rr[i], Texts)])
    BY <1>13, OnlyFlatten
  <2>3. [i \in DOMAIN ss |-> Only(ss[i], Texts)]
          = [i \in DOMAIN rr |-> Only(rr[i], Texts)]
    BY <1>12, <1>13, <1>14
  <2> QED
    BY <2>1, <2>2, <2>3
<1> QED
  BY <1>6, <1>10, <1>15

-----------------------------------------------------------------------------
(* The plain body.                                                         *)

\* What AboveQuote leaves: all, or what is above the first attribution.
LEMMA AboveQuoteIs ==
    ASSUME NEW T, NEW s \in Seq(T)
    PROVE  \/ /\ \A i \in 1..Len(s) : s[i] \notin {Attr, Divider}
              /\ AboveQuote(s) = s
           \/ \E n \in 0..Len(s) :
                 /\ n < Len(s) /\ s[n + 1] \in {Attr, Divider}
                 /\ \A i \in 1..n : s[i] \notin {Attr, Divider}
                 /\ AboveQuote(s) = SubSeq(s, 1, n)
<1> DEFINE I == {i \in 1..Len(s) : s[i] \in {Attr, Divider}}
<1>0. Len(s) \in Nat
  OBVIOUS
<1>1. CASE I = {}
  <2>1. SelectInSeq(s, LAMBDA x : x \in {Attr, Divider}) = 0
    BY <1>1 DEF SelectInSeq
  <2>2. AboveQuote(s) = s
    BY <2>1 DEF AboveQuote
  <2> QED
    BY <1>1, <2>2
<1>2. CASE I # {}
  <2>1. I \subseteq Nat
    BY <1>0
  <2>2. PICK x \in I : \A y \in I : x <= y
    BY <1>2, <2>1, LeastElement
  <2> DEFINE m == Min(I)
  <2>3. m \in I /\ \A y \in I : m <= y
    <3> HIDE DEF I
    <3> QED
      BY <2>2 DEF Min
  <2>4. SelectInSeq(s, LAMBDA x_1 : x_1 \in {Attr, Divider}) = m
    BY <1>2 DEF SelectInSeq
  <2> HIDE DEF m
  <2>5. m # 0 /\ m - 1 \in 0..Len(s) /\ m - 1 < Len(s) /\ (m - 1) + 1 = m
    BY <1>0, <2>3
  <2>6. AboveQuote(s) = SubSeq(s, 1, m - 1)
    BY <2>4, <2>5 DEF AboveQuote
  <2>7. ASSUME NEW i \in 1..(m - 1) PROVE s[i] \notin {Attr, Divider}
    <3>1. i \in 1..Len(s) /\ ~(m <= i)
      BY <1>0, <2>3
    <3>2. i \notin I
      BY <2>3, <3>1
    <3> QED
      BY <3>1, <3>2
  <2>8. s[m] \in {Attr, Divider}
    BY <2>3
  <2> QED
    BY <2>5, <2>6, <2>7, <2>8
<1> QED
  BY <1>1, <1>2

\* AboveQuote keeps the type.
LEMMA AboveQuoteType ==
    ASSUME NEW T, NEW s \in Seq(T)
    PROVE  AboveQuote(s) \in Seq(T)
<1>1. CASE AboveQuote(s) = s
  BY <1>1
<1>2. ASSUME NEW n \in 0..Len(s), AboveQuote(s) = SubSeq(s, 1, n)
      PROVE  AboveQuote(s) \in Seq(T)
  BY <1>2, CutKeeps
<1> QED
  BY <1>1, <1>2, AboveQuoteIs

\* A part of a body without gaps has none.
LEMMA NoGapSub ==
    ASSUME NEW T, NEW s \in Seq(T), NoGap(s),
           NEW m \in 1..(Len(s) + 1), NEW n \in 0..Len(s)
    PROVE  NoGap(SubSeq(s, m, n))
<1> DEFINE r == SubSeq(s, m, n)
<1>0. Len(s) \in Nat /\ \A i \in m..n : s[i] \in T
  OBVIOUS
<1>1. /\ Len(r) = IF m <= n THEN n - m + 1 ELSE 0
      /\ \A i \in 1..(n - m + 1) : r[i] = s[m + i - 1]
  BY <1>0, SubSeqProperties
<1> HIDE DEF r
<1>2. ASSUME NEW i \in 2..Len(r), r[i] = Empty PROVE r[i - 1] # Empty
  <2>1. m <= n /\ Len(r) = n - m + 1
    BY <1>0, <1>1, <1>2
  <2>2. i \in 1..(n - m + 1) /\ i - 1 \in 1..(n - m + 1)
    BY <1>0, <2>1
  <2>3. r[i] = s[m + i - 1] /\ r[i - 1] = s[m + (i - 1) - 1]
    BY <1>1, <2>2
  <2>4. m + i - 1 \in 2..Len(s) /\ m + (i - 1) - 1 = (m + i - 1) - 1
    BY <1>0, <2>1, <2>2
  <2> QED
    BY <1>2, <2>3, <2>4 DEF NoGap
<1>3. NoGap(r)
  BY <1>2 DEF NoGap
<1> QED
  BY <1>3 DEF r

\* Trimming makes no gap.
LEMMA NoGapTrim ==
    ASSUME NEW T, NEW s \in Seq(T), NoGap(s), NEW S
    PROVE  NoGap(TrimEnd(s, S)) /\ NoGap(TrimStart(s, S))
<1>0. Len(s) \in Nat /\ 1 \in 1..(Len(s) + 1) /\ Len(s) \in 0..Len(s)
  OBVIOUS
<1>1. PICK n \in 0..Len(s) : TrimEnd(s, S) = SubSeq(s, 1, n)
  BY TrimEndIs
<1>2. SkipFrom(s, 1, S) \in 1..(Len(s) + 1)
  BY <1>0, SkipFromIs
<1>3. NoGap(SubSeq(s, 1, n))
  BY <1>0, NoGapSub
<1>4. NoGap(SubSeq(s, SkipFrom(s, 1, S), Len(s)))
  BY <1>0, <1>2, NoGapSub
<1> QED
  BY <1>1, <1>3, <1>4 DEF TrimStart

\* A line behind a body makes a gap only as a second empty line.
LEMMA NoGapAppend ==
    ASSUME NEW T, NEW s \in Seq(T), NoGap(s), NEW e \in T,
           s # <<>> /\ e = Empty => s[Len(s)] # Empty
    PROVE  NoGap(Append(s, e))
<1> DEFINE r == Append(s, e)
<1>1. /\ Len(r) = Len(s) + 1 /\ Len(s) \in Nat /\ r[Len(s) + 1] = e
      /\ \A i \in 1..Len(s) : r[i] = s[i]
  BY AppendProperties
<1> HIDE DEF r
<1>2. ASSUME NEW i \in 2..Len(r), r[i] = Empty PROVE r[i - 1] # Empty
  <2>1. i - 1 \in 1..Len(s)
    BY <1>1
  <2>2. r[i - 1] = s[i - 1]
    BY <1>1, <2>1
  <2>3. CASE i = Len(s) + 1
    <3>1. i - 1 = Len(s) /\ s # <<>>
      BY <1>1, <2>1, <2>3
    <3> QED
      BY <1>1, <1>2, <2>2, <2>3, <3>1
  <2>4. CASE i # Len(s) + 1
    <3>1. i \in 2..Len(s) /\ i \in 1..Len(s)
      BY <1>1, <2>4
    <3> QED
      BY <1>1, <1>2, <2>2, <3>1 DEF NoGap
  <2> QED
    BY <2>3, <2>4
<1>3. NoGap(r)
  BY <1>2 DEF NoGap
<1> QED
  BY <1>3 DEF r

\* One empty line is left of each run of them.
LEMMA RunsCollapse ==
    ASSUME NEW T, NEW s \in Seq(T), NEW K,
           K = {i \in DOMAIN s : s[i] = Empty => At(s, i - 1) # Empty}
    PROVE  NoGap(FlattenSeq([i \in DOMAIN s |->
                               IF i \in K THEN <<s[i]>> ELSE <<>>]))
<1> DEFINE ss == [i \in DOMAIN s |-> IF i \in K THEN <<s[i]>> ELSE <<>>]
           n == Len(s)
<1>0. n \in Nat /\ DOMAIN s = 1..n /\ \A i \in 1..n : s[i] \in T
  BY LenProperties
<1>1. ss \in [DOMAIN s -> Seq(T)]
  BY <1>0
<1>2. \A i \in 1..n : ss[i] = IF i \in K THEN <<s[i]>> ELSE <<>>
  BY <1>0
<1> HIDE DEF ss
<1>3. ss \in Seq(Seq(T)) /\ Len(ss) = n
  BY <1>1, RewriteType
<1>4. PICK f \in [0..n -> Seq(T)] : Flattens(f, ss, n)
  BY <1>3, FlattenExists
<1>5. FlattenSeq(ss) = f[n]
  BY <1>3, <1>4, FlattenIs
<1> DEFINE Good(i) ==
              /\ NoGap(f[i])
              /\ i > 0 => /\ f[i] # <<>>
                          /\ f[i][Len(f[i])] = Empty <=> s[i] = Empty
           U == {i \in Nat : i <= n => Good(i)}
<1>6. 0 \in U
  BY <1>4 DEF Flattens, NoGap
<1>7. ASSUME NEW i \in Nat, i \in U PROVE i + 1 \in U
  <2> SUFFICES ASSUME i + 1 <= n PROVE Good(i + 1)
    OBVIOUS
  <2> DEFINE e == s[i + 1]
             q == f[i]
  <2>1. /\ i + 1 \in 1..n /\ i <= n /\ (i + 1) - 1 = i /\ i \in 0..n
        /\ i + 1 > 0
    BY <1>0
  <2>2. Good(i) /\ e \in T /\ q \in Seq(T)
    BY <1>0, <1>4, <1>7, <2>1
  <2>3. f[i + 1] = q \o ss[i + 1]
    BY <1>4, <2>1 DEF Flattens
  <2>4. At(s, i) = IF i = 0 THEN "end" ELSE s[i]
    BY <1>0, <2>1 DEF At
  <2>5. i + 1 \in K <=> (e = Empty => At(s, i) # Empty)
    BY <1>0, <2>1
  <2>6. CASE i + 1 \in K
    <3>1. f[i + 1] = Append(q, e)
      <4>1. ss[i + 1] = <<e>>
        BY <1>2, <2>1, <2>6
      <4> HIDE DEF q, e
      <4> QED
        BY <2>2, <2>3, <4>1, AppendIsConcat
    <3>2. q # <<>> => i # 0
      BY <1>4 DEF Flattens
    <3>3. q # <<>> /\ e = Empty => q[Len(q)] # Empty
      BY <2>1, <2>2, <2>4, <2>5, <2>6, <3>2
    <3>4. NoGap(q)
      BY <2>2
    <3>5. /\ Append(q, e) # <<>>
          /\ Append(q, e)[Len(Append(q, e))] = e
      <4> HIDE DEF q, e
      <4> QED
        BY <2>2, AppendProperties
    <3>6. NoGap(Append(q, e))
      <4> HIDE DEF q, e
      <4> QED
        BY <2>2, <3>3, <3>4, NoGapAppend
    <3> QED
      BY <3>1, <3>5, <3>6
  <2>7. CASE i + 1 \notin K
    <3>1. e = Empty /\ At(s, i) = Empty
      BY <2>5, <2>7
    <3>2. i # 0 /\ s[i] = Empty
      BY <2>4, <3>1 DEF Empty
    <3>3. f[i + 1] = q
      <4>1. ss[i + 1] = <<>>
        BY <1>2, <2>1, <2>7
      <4> HIDE DEF q
      <4> QED
        BY <2>2, <2>3, <4>1, ConcatEmptySeq
    <3> QED
      BY <2>1, <2>2, <3>1, <3>2, <3>3
  <2> QED
    BY <2>6, <2>7
<1> HIDE DEF U
<1>8. Nat \subseteq U
  BY <1>6, <1>7, SetInduction
<1> HIDE DEF Good
<1>9. Good(n)
  BY <1>0, <1>8 DEF U
<1> QED
  BY <1>5, <1>9 DEF Good, ss

FilledKinds == LineKinds \ {Empty}

\* normalize_plain leaves no gap and loses no line that is not empty.
LEMMA NormalizeKeeps ==
    ASSUME NEW s \in Seq(LineKinds)
    PROVE  /\ normalize_plain(s) \in Seq(LineKinds)
           /\ NoGap(normalize_plain(s))
           /\ Filled(normalize_plain(s)) = Filled(s)
<1> DEFINE K == {i \in DOMAIN s : s[i] = Empty => At(s, i - 1) # Empty}
           kept == FlattenSeq([i \in DOMAIN s |->
                                 IF i \in K THEN <<s[i]>> ELSE <<>>])
           ended == TrimEnd(kept, {Empty})
<1>1. kept = KeepAt(s, LAMBDA i : s[i] = Empty => At(s, i - 1) # Empty)
  <2>1. [i \in DOMAIN s |-> IF i \in K THEN <<s[i]>> ELSE <<>>]
          = [i \in DOMAIN s |->
               IF s[i] = Empty => At(s, i - 1) # Empty
                 THEN <<s[i]>> ELSE <<>>]
    OBVIOUS
  <2> QED
    BY <2>1 DEF KeepAt, Rewrite
<1>2. normalize_plain(s) = TrimStart(ended, {Empty})
  BY <1>1 DEF normalize_plain
<1>3. \A i \in DOMAIN s : s[i] \in FilledKinds => i \in K
  BY DEF FilledKinds
<1>4. NoGap(kept)
  <2>1. K = {i \in DOMAIN s : s[i] = Empty => At(s, i - 1) # Empty}
    OBVIOUS
  <2> HIDE DEF K
  <2> QED
    BY <2>1, RunsCollapse
<1>5. kept \in Seq(LineKinds) /\ Only(kept, FilledKinds) = Only(s, FilledKinds)
  <2> HIDE DEF K
  <2> QED
    BY <1>3, KeepKeeps
<1> HIDE DEF kept
<1>6. FilledKinds \cap {Empty} = {}
  BY DEF FilledKinds
<1>7. /\ ended \in Seq(LineKinds) /\ NoGap(ended)
      /\ Only(ended, FilledKinds) = Only(kept, FilledKinds)
  BY <1>4, <1>5, <1>6, TrimEndKeeps, NoGapTrim
<1> HIDE DEF ended
<1>8. /\ TrimStart(ended, {Empty}) \in Seq(LineKinds)
      /\ NoGap(TrimStart(ended, {Empty}))
      /\ Only(TrimStart(ended, {Empty}), FilledKinds)
           = Only(ended, FilledKinds)
  BY <1>6, <1>7, TrimStartKeeps, NoGapTrim
<1> QED
  BY <1>2, <1>5, <1>7, <1>8 DEF Filled, FilledKinds

\* strip_quoted_reply loses only what is below the attribution.
LEMMA StripQuotedKeeps ==
    ASSUME NEW s \in Seq(LineKinds)
    PROVE  /\ strip_quoted_reply(s) \in Seq(LineKinds)
           /\ Filled(strip_quoted_reply(s)) = Filled(AboveQuote(s))
<1>1. AboveQuote(s) \in Seq(LineKinds)
  BY AboveQuoteType
<1>2. FilledKinds \cap {Empty} = {}
  BY DEF FilledKinds
<1> QED
  BY <1>1, <1>2, TrimEndKeeps DEF strip_quoted_reply, Filled, FilledKinds

\* The text of an HTML body has no attribution line.
LEMMA NothingQuoted ==
    ASSUME NEW T, NEW s \in Seq(T), NEW r, r = Only(s, Texts)
    PROVE  r \in Seq(LineKinds) /\ AboveQuote(r) = r
<1>1. r \in Seq(T \cap Texts)
  BY OnlyType
<1>2. Texts \subseteq LineKinds /\ Texts \cap {Attr, Divider} = {}
  BY DEF LineKinds, Prose, Texts, Attr, Divider
<1>3. \A i \in 1..Len(r) : r[i] \in Texts
  BY <1>1
<1>4. Len(r) \in Nat
  BY <1>1
<1>5. AboveQuote(r) = r
  <2>1. ASSUME NEW n \in 0..Len(r), n < Len(r), r[n + 1] \in {Attr, Divider}
        PROVE  FALSE
    <3>1. n + 1 \in 1..Len(r)
      BY <1>4, <2>1
    <3> QED
      BY <1>2, <1>3, <2>1, <3>1
  <2> QED
    BY <1>1, <2>1, AboveQuoteIs
<1> QED
  BY <1>1, <1>2, <1>5

\* TrimEnd leaves the prefix that its definition describes, and no other.
LEMMA TrimEndUnique ==
    ASSUME NEW T, NEW s \in Seq(T), NEW S, NEW n \in 0..Len(s),
           n > 0 => s[n] \notin S,
           \A j \in (n + 1)..Len(s) : s[j] \in S
    PROVE  TrimEnd(s, S) = SubSeq(s, 1, n)
<1>0. Len(s) \in Nat
  OBVIOUS
<1>1. PICK m \in 0..Len(s) :
         /\ TrimEnd(s, S) = SubSeq(s, 1, m)
         /\ m > 0 => s[m] \notin S
         /\ \A j \in (m + 1)..Len(s) : s[j] \in S
  BY TrimEndIs
<1>2. ~(m < n)
  <2>1. m < n => n \in (m + 1)..Len(s) /\ n > 0
    BY <1>0
  <2> QED
    BY <1>1, <2>1
<1>3. ~(n < m)
  <2>1. n < m => m \in (n + 1)..Len(s) /\ m > 0
    BY <1>0
  <2> QED
    BY <1>1, <2>1
<1>4. m = n
  BY <1>0, <1>2, <1>3
<1> QED
  BY <1>1, <1>4

\* The bridge's own quote comes off whatever the original was.
LEMMA QuoteOff ==
    ASSUME NEW text \in Seq(LineKinds), NEW orig \in Seq(LineKinds),
           \A i \in DOMAIN text : text[i] \notin {Attr, Divider}
    PROVE  strip_quoted_reply(quoted_body(text, orig))
             = TrimEnd(text, {Empty})
<1> DEFINE n == Len(text)
           quote == [i \in DOMAIN orig |-> Quoted]
           tail == <<Attr>> \o quote
           body == text \o <<Empty>>
           all == body \o tail
<1>0. n \in Nat /\ DOMAIN text = 1..n /\ \A i \in 1..n : text[i] \in LineKinds
  BY LenProperties
<1>1. /\ Attr \in LineKinds /\ Quoted \in LineKinds /\ Empty \in LineKinds
      /\ Empty \notin {Attr, Divider} /\ Attr \in {Attr, Divider}
  BY DEF LineKinds, Attr, Quoted, Empty, Divider
<1>2. quote \in Seq(LineKinds)
  <2>1. Len(orig) \in Nat /\ DOMAIN orig = 1..Len(orig)
    BY LenProperties
  <2> QED
    BY <1>1, <2>1
<1>3. quoted_body(text, orig) = all
  <2> HIDE DEF body, tail
  <2> QED
    BY DEF quoted_body, format_reply_quote, body, tail
<1> HIDE DEF quote
<1>4. /\ tail \in Seq(LineKinds) /\ Len(tail) \in Nat /\ Len(tail) >= 1
      /\ tail[1] = Attr
  BY <1>1, <1>2, ConcatProperties
<1>5. /\ body \in Seq(LineKinds) /\ Len(body) = n + 1
      /\ body[n + 1] = Empty /\ \A i \in 1..n : body[i] = text[i]
  BY <1>0, <1>1, ConcatProperties
<1> HIDE DEF tail, body
<1>6. /\ all \in Seq(LineKinds) /\ Len(all) = n + 1 + Len(tail)
      /\ \A i \in 1..(n + 1) : all[i] = body[i]
      /\ all[n + 2] = Attr
  <2>1. /\ all \in Seq(LineKinds) /\ Len(all) = Len(body) + Len(tail)
        /\ \A i \in 1..(Len(body) + Len(tail)) :
              all[i] = IF i <= Len(body) THEN body[i]
                                         ELSE tail[i - Len(body)]
    <3>1. body \in Seq(LineKinds) /\ tail \in Seq(LineKinds)
      BY <1>4, <1>5
    <3> QED
      BY ONLY <3>1, ConcatProperties
  <2> HIDE DEF all
  <2>2. n + 2 \in 1..(Len(body) + Len(tail)) /\ ~(n + 2 <= Len(body))
        /\ (n + 2) - Len(body) = 1
    BY <1>0, <1>4, <1>5
  <2>3. all[n + 2] = Attr
    BY <1>4, <2>1, <2>2
  <2>4. ASSUME NEW i \in 1..(n + 1) PROVE all[i] = body[i]
    <3>1. i \in 1..(Len(body) + Len(tail)) /\ i <= Len(body)
      BY <1>0, <1>4, <1>5
    <3> QED
      BY <2>1, <3>1
  <2> QED
    BY <1>5, <2>1, <2>3, <2>4
<1> HIDE DEF all
<1>7. ASSUME NEW i \in 1..(n + 1) PROVE all[i] \notin {Attr, Divider}
  <2>1. i = n + 1 \/ i \in 1..n
    BY <1>0
  <2>2. i \in 1..n => all[i] = text[i] /\ text[i] \notin {Attr, Divider}
    BY <1>0, <1>5, <1>6
  <2> QED
    BY <1>1, <1>5, <1>6, <2>1, <2>2
<1>8. AboveQuote(all) = SubSeq(all, 1, n + 1)
  <2>1. n + 2 \in 1..Len(all)
    BY <1>0, <1>4, <1>6
  <2>2. ~(\A i \in 1..Len(all) : all[i] \notin {Attr, Divider})
    BY <1>1, <1>6, <2>1
  <2>3. PICK k \in 0..Len(all) :
           /\ k < Len(all) /\ all[k + 1] \in {Attr, Divider}
           /\ \A i \in 1..k : all[i] \notin {Attr, Divider}
           /\ AboveQuote(all) = SubSeq(all, 1, k)
    BY <1>6, <2>2, AboveQuoteIs
  <2>4. ~(k < n + 1)
    <3>1. k < n + 1 => k + 1 \in 1..(n + 1)
      BY <1>0
    <3> QED
      BY <1>7, <2>3, <3>1
  <2>5. ~(k > n + 1)
    <3>1. k > n + 1 => n + 2 \in 1..k
      BY <1>0
    <3> QED
      BY <1>1, <1>6, <2>3, <3>1
  <2>6. k = n + 1
    BY <1>0, <2>4, <2>5
  <2> QED
    BY <2>3, <2>6
<1>9. SubSeq(all, 1, n + 1) = body
  <2> DEFINE r == SubSeq(all, 1, n + 1)
  <2>1. n + 1 <= Len(all) /\ n + 1 \in Nat /\ Len(all) \in Nat
    BY <1>0, <1>4, <1>6
  <2>2. r \in Seq(LineKinds) /\ Len(r) = n + 1
        /\ \A i \in 1..(n + 1) : r[i] = all[i]
    BY <1>6, <2>1, SubSeqProperties
  <2> HIDE DEF r
  <2>3. r = body
    BY <1>5, <1>6, <2>2, SeqEqual
  <2> QED
    BY <2>3 DEF r
<1>10. PICK m \in 0..n :
          /\ TrimEnd(text, {Empty}) = SubSeq(text, 1, m)
          /\ m > 0 => text[m] \notin {Empty}
          /\ \A j \in (m + 1)..n : text[j] \in {Empty}
  BY TrimEndIs
<1>11. TrimEnd(body, {Empty}) = SubSeq(body, 1, m)
  <2>1. m \in 0..Len(body) /\ Len(body) = n + 1
    BY <1>0, <1>5
  <2>2. m > 0 => body[m] \notin {Empty}
    <3>1. m > 0 => m \in 1..n
      BY <1>0
    <3> QED
      BY <1>5, <1>10, <3>1
  <2>3. ASSUME NEW j \in (m + 1)..Len(body) PROVE body[j] \in {Empty}
    <3>1. j = n + 1 \/ (j \in (m + 1)..n /\ j \in 1..n)
      BY <1>0, <1>5
    <3> QED
      BY <1>5, <1>10, <3>1
  <2> QED
    BY <1>5, <2>1, <2>2, <2>3, TrimEndUnique
<1>12. SubSeq(body, 1, m) = SubSeq(text, 1, m)
  <2>1. m \in Nat /\ m <= n /\ m <= Len(body)
    BY <1>0, <1>5
  <2>2. /\ SubSeq(text, 1, m) \in Seq(LineKinds)
        /\ Len(SubSeq(text, 1, m)) = m
        /\ \A i \in 1..m : SubSeq(text, 1, m)[i] = text[i]
    BY <1>0, <2>1, SubSeqProperties
  <2>3. /\ SubSeq(body, 1, m) \in Seq(LineKinds)
        /\ Len(SubSeq(body, 1, m)) = m
        /\ \A i \in 1..m : SubSeq(body, 1, m)[i] = body[i]
    BY <1>0, <1>5, <2>1, SubSeqProperties
  <2>4. \A i \in 1..m : body[i] = text[i]
    BY <1>0, <1>5
  <2> QED
    BY <2>2, <2>3, <2>4, SeqEqual
<1> QED
  BY <1>3, <1>8, <1>9, <1>10, <1>11, <1>12 DEF strip_quoted_reply

\* A sequence is a prefix of itself with more behind it.
LEMMA PrefixConcat ==
    ASSUME NEW T, NEW s \in Seq(T), NEW r \in Seq(T)
    PROVE  IsPrefix(s, s \o r)
<1> DEFINE n == Len(s)
           q == s \o r
<1>1. /\ n \in Nat /\ q \in Seq(T) /\ Len(q) = n + Len(r) /\ Len(r) \in Nat
      /\ \A i \in 1..(n + Len(r)) :
            q[i] = IF i <= n THEN s[i] ELSE r[i - n]
  BY ConcatProperties
<1> HIDE DEF q
<1>2. n <= Len(q) /\ n \in 0..n /\ n \in 0..Len(q)
  BY <1>1
<1>3. \A i \in 1..n : q[i] = s[i] /\ s[i] \in T
  BY <1>1
<1>4. /\ SubSeq(s, 1, n) \in Seq(T) /\ Len(SubSeq(s, 1, n)) = n
      /\ \A i \in 1..n : SubSeq(s, 1, n)[i] = s[i]
  BY <1>1, <1>3, SubSeqProperties
<1>5. /\ SubSeq(q, 1, n) \in Seq(T) /\ Len(SubSeq(q, 1, n)) = n
      /\ \A i \in 1..n : SubSeq(q, 1, n)[i] = q[i]
  BY <1>1, <1>3, SubSeqProperties
<1>6. SubSeq(s, 1, n) = SubSeq(q, 1, n)
  BY <1>3, <1>4, <1>5, SeqEqual
<1>7. IsPrefix(s, q)
  BY <1>2, <1>6 DEF IsPrefix
<1> QED
  BY <1>7 DEF q

\* The bodies h and p, p truncated if c, as FitsEvent wants them.
FitsIn(h, p, c) ==
    LET size == Len(p) + (IF c THEN NoticeLen ELSE 0)
    IN  /\ Size(h) <= Budget
        /\ Size(h) + size > Budget => c /\ p = <<>> /\ size = NoticeLen

\* The body p, truncated if c, carries the lines own.
Carries(p, c, own) ==
    /\ p \in Seq(LineKinds) /\ c \in BOOLEAN
    /\ NoGap(p)
    /\ IF c THEN IsPrefix(Filled(p), Filled(own)) ELSE Filled(p) = Filled(own)

\* clamp_to_matrix_limit fits the event and loses only the end of p.
LEMMA ClampIs ==
    ASSUME NEW p \in Seq(LineKinds), NoGap(p), NEW h, Size(h) \in Nat,
           NEW m \in clamp_to_matrix_limit(p, h)
    PROVE  /\ m.html \in {None, h}
           /\ FitsIn(m.html, m.plain, m.cut)
           /\ Carries(m.plain, m.cut, p)
<1> DEFINE kept == IF Size(h) > Budget THEN None ELSE h
           allowance == Budget - Size(kept)
           keep == IF allowance > NoticeLen THEN allowance - NoticeLen
                                            ELSE 0
           z == Size(kept)
<1>0. /\ Budget \in Nat /\ NoticeLen \in Nat /\ NoticeLen <= Budget
      /\ Len(p) \in Nat
  BY ContentAssumption
<1>1. Size(None) = 0
  BY DEF Size
<1>2. z \in Nat /\ z <= Budget /\ kept \in {None, h}
  BY <1>0, <1>1
<1> HIDE DEF z
<1>3. allowance = Budget - z /\ allowance \in Nat
  BY <1>0, <1>2 DEF z
<1>4. m \in IF Len(p) <= allowance
          THEN {[plain |-> p, cut |-> FALSE, html |-> kept]}
          ELSE {[plain |-> SubSeq(p, 1, n), cut |-> TRUE, html |-> kept] :
                    n \in 0..keep}
  BY DEF clamp_to_matrix_limit
<1> HIDE DEF kept, allowance
<1>5. CASE Len(p) <= allowance
  <2>1. m.plain = p /\ m.cut = FALSE /\ m.html = kept
    BY <1>4, <1>5
  <2>2. z + (Len(p) + 0) <= Budget
    BY <1>0, <1>2, <1>3, <1>5
  <2>3. FitsIn(m.html, m.plain, m.cut)
    BY <1>0, <1>2, <2>1, <2>2 DEF FitsIn, z
  <2> QED
    BY <1>2, <2>1, <2>3 DEF Carries
<1>6. CASE ~(Len(p) <= allowance)
  <2>1. PICK n \in 0..keep :
           m.plain = SubSeq(p, 1, n) /\ m.cut = TRUE /\ m.html = kept
    BY <1>4, <1>6
  <2>2. /\ n \in 0..Len(p)
        /\ n = 0 \/ z + (n + NoticeLen) <= Budget
    BY <1>0, <1>2, <1>3, <1>6
  <2> DEFINE r == SubSeq(p, 1, n)
             s == SubSeq(p, n + 1, Len(p))
  <2>3. /\ r \in Seq(LineKinds) /\ s \in Seq(LineKinds)
        /\ Filled(p) = Filled(r) \o Filled(s)
    BY <2>2, CutKeeps DEF Filled
  <2>4. Len(r) = n /\ n \in Nat
    <3>1. \A i \in 1..n : p[i] \in LineKinds
      BY <2>2
    <3> QED
      BY <2>2, <3>1, SubSeqProperties
  <2>5. NoGap(r)
    BY <1>0, <2>2, NoGapSub
  <2> HIDE DEF r, s
  <2>6. IsPrefix(Filled(r), Filled(p))
    <3>1. Filled(r) \in Seq(LineKinds \cap (LineKinds \ {Empty}))
      BY <2>3, OnlyType DEF Filled
    <3>2. Filled(s) \in Seq(LineKinds \cap (LineKinds \ {Empty}))
      BY <2>3, OnlyType DEF Filled
    <3> HIDE DEF Filled
    <3>3. IsPrefix(Filled(r), Filled(r) \o Filled(s))
      BY <3>1, <3>2, PrefixConcat
    <3> QED
      BY <2>3, <3>3
  <2>7. m.plain = r /\ Carries(r, TRUE, p)
    BY <2>1, <2>3, <2>5, <2>6 DEF Carries, r
  <2>8. FitsIn(kept, r, TRUE)
    <3>1. n = 0 => r = <<>>
      BY <2>3, <2>4
    <3>2. CASE n = 0
      BY <1>0, <1>2, <2>4, <3>1, <3>2 DEF FitsIn, z
    <3>3. CASE z + (n + NoticeLen) <= Budget
      BY <1>0, <1>2, <2>4, <3>3 DEF FitsIn, z
    <3> QED
      BY <2>2, <3>2, <3>3
  <2> QED
    BY <1>2, <2>1, <2>7, <2>8
<1> QED
  BY <1>5, <1>6

\* The lines of an email of kind k that are the sender's own.
OwnOf(k) ==
    IF k \in {"plain", "both"} THEN AboveQuote(lines) ELSE Only(doc, Texts)

\* What from_email makes of an email.
LEMMA BodyIs ==
    ASSUME doc \in Seq(Tokens), lines \in Seq(LineKinds),
           NEW k, NEW mode, NEW m \in from_email(k, mode)
    PROVE  /\ \/ m.html = None
              \/ /\ html_candidate(k)
                 /\ m.html = <<sanitize_for_matrix(doc, mode)>>
           /\ FitsIn(m.html, m.plain, m.cut)
           /\ Carries(m.plain, m.cut, OwnOf(k))
<1> DEFINE raw == IF plain_candidate(k) THEN lines ELSE html2text(doc)
           own == strip_quoted_reply(raw)
           p == normalize_plain(own)
           h == IF mode # "plain" /\ html_candidate(k)
                  THEN <<sanitize_for_matrix(doc, mode)>> ELSE None
<1>1. m \in clamp_to_matrix_limit(p, h)
  BY DEF from_email
<1>2. raw \in Seq(LineKinds) /\ AboveQuote(raw) = OwnOf(k)
  BY NothingQuoted DEF plain_candidate, html2text, OwnOf
<1> HIDE DEF raw
<1>3. own \in Seq(LineKinds) /\ Filled(own) = Filled(OwnOf(k))
  BY <1>2, StripQuotedKeeps
<1> HIDE DEF own
<1>4. p \in Seq(LineKinds) /\ NoGap(p) /\ Filled(p) = Filled(OwnOf(k))
  BY <1>3, NormalizeKeeps
<1> HIDE DEF p
<1>5. Size(h) \in Nat
  <2>1. sanitize_for_matrix(doc, mode) \in Seq(Tokens)
    BY SanitizeKeeps
  <2>2. Len(sanitize_for_matrix(doc, mode)) \in Nat
    BY <2>1
  <2> QED
    BY <2>2 DEF Size, None
<1>6. h = None \/ (html_candidate(k)
                     /\ h = <<sanitize_for_matrix(doc, mode)>>)
  OBVIOUS
<1> HIDE DEF h
<1>7. /\ m.html \in {None, h} /\ FitsIn(m.html, m.plain, m.cut)
      /\ Carries(m.plain, m.cut, p)
  BY <1>1, <1>4, <1>5, ClampIs
<1>8. Carries(m.plain, m.cut, OwnOf(k))
  BY <1>4, <1>7 DEF Carries
<1> QED
  BY <1>6, <1>7, <1>8

-----------------------------------------------------------------------------
(* Marks and loads.                                                        *)

\* Pieces of equal lengths flatten to equal lengths.
LEMMA FlattenLengths ==
    ASSUME NEW T, NEW ss \in Seq(Seq(T)), NEW V, NEW rr \in Seq(Seq(V)),
           Len(ss) = Len(rr), \A i \in 1..Len(ss) : Len(ss[i]) = Len(rr[i])
    PROVE  Len(FlattenSeq(ss)) = Len(FlattenSeq(rr))
<1> DEFINE n == Len(ss)
<1>0. /\ n \in Nat /\ n = Len(rr)
      /\ \A i \in 1..n : ss[i] \in Seq(T) /\ rr[i] \in Seq(V)
  OBVIOUS
<1>1. PICK f \in [0..n -> Seq(T)] : Flattens(f, ss, n)
  BY FlattenExists
<1>2. PICK g \in [0..n -> Seq(V)] : Flattens(g, rr, n)
  BY <1>0, FlattenExists
<1>3. FlattenSeq(ss) = f[n]
  BY <1>1, FlattenIs
<1>4. FlattenSeq(rr) = g[n]
  <2> HIDE DEF n
  <2> QED
    BY <1>0, <1>2, FlattenIs
<1> DEFINE U == {i \in Nat : i <= n => Len(f[i]) = Len(g[i])}
<1>5. 0 \in U
  BY <1>1, <1>2 DEF Flattens
<1>6. ASSUME NEW i \in Nat, i \in U PROVE i + 1 \in U
  <2> SUFFICES ASSUME i + 1 <= n PROVE Len(f[i + 1]) = Len(g[i + 1])
    OBVIOUS
  <2>1. i + 1 \in 1..n /\ i <= n /\ (i + 1) - 1 = i /\ i \in 0..n
    BY <1>0
  <2>2. f[i + 1] = f[i] \o ss[i + 1] /\ g[i + 1] = g[i] \o rr[i + 1]
    BY <1>1, <1>2, <2>1 DEF Flattens
  <2>3. f[i] \in Seq(T) /\ ss[i + 1] \in Seq(T)
    BY <1>0, <2>1
  <2>4. g[i] \in Seq(V) /\ rr[i + 1] \in Seq(V)
    BY <1>0, <2>1
  <2>5. Len(f[i + 1]) = Len(f[i]) + Len(ss[i + 1])
    BY <2>2, <2>3, ConcatProperties
  <2>6. Len(g[i + 1]) = Len(g[i]) + Len(rr[i + 1])
    BY <2>2, <2>4, ConcatProperties
  <2>7. Len(f[i]) = Len(g[i])
    BY <1>6, <2>1
  <2>8. Len(ss[i + 1]) = Len(rr[i + 1])
    BY <2>1
  <2> QED
    BY <2>5, <2>6, <2>7, <2>8
<1> HIDE DEF U
<1>7. Nat \subseteq U
  BY <1>5, <1>6, SetInduction
<1>8. Len(f[n]) = Len(g[n])
  BY <1>0, <1>7 DEF U
<1> QED
  BY <1>3, <1>4, <1>8

\* Without a marked blockquote everything is the sender's own.
LEMMA OwnAll ==
    ASSUME NEW T, NEW s \in Seq(T), \A i \in DOMAIN s : s[i] # "cite"
    PROVE  Own(s) = s
<1>0. Len(s) \in Nat /\ DOMAIN s = 1..Len(s) /\ \A i \in DOMAIN s : s[i] \in T
  BY LenProperties
<1>1. ASSUME NEW i \in DOMAIN s PROVE ~Cited(s, i)
  <2>1. \A j \in 1..i : j \in DOMAIN s
    BY <1>0
  <2> QED
    BY <2>1 DEF Cited
<1>2. [i \in DOMAIN s |-> IF ~Cited(s, i) THEN <<s[i]>> ELSE <<>>]
        = [i \in DOMAIN s |-> IF s[i] \in T THEN <<s[i]>> ELSE <<>>]
  BY <1>0, <1>1
<1>3. Own(s) = Only(s, T)
  BY <1>2 DEF Own, Only, KeepAt, Rewrite
<1> QED
  BY <1>3, OnlyAll

\* What extract_remote_images returns a sequence of.
Found == [url : Urls, is_decorative : BOOLEAN]

\* An image that a reaction loads, in the eyes of both passes.
Loadable(s, i) ==
    /\ s[i] \in Images /\ Img[s[i]].remote
    /\ ~is_decorative_img(s[i]) /\ i \notin chrome_image_offsets(s)

\* The first remote image of its address.
FirstOf(s, i) ==
    /\ s[i] \in Images /\ Img[s[i]].remote
    /\ \A j \in 1..(i - 1) :
          s[j] \in Images /\ Img[s[j]].remote
            => Img[s[j]].url # Img[s[i]].url

Info(s, i) ==
    [url |-> Img[s[i]].url,
     is_decorative |-> is_decorative_img(s[i])
                         \/ i \in chrome_image_offsets(s)]

\* What extract_remote_images records of an image.
LEMMA InfoType ==
    ASSUME NEW s, NEW i, s[i] \in Images
    PROVE  /\ Info(s, i) \in Found
           /\ Info(s, i).is_decorative
                <=> (is_decorative_img(s[i])
                       \/ i \in chrome_image_offsets(s))
<1>1. Img[s[i]] \in ImgInfo
  BY ImgAssumption DEF Images
<1>2. Img[s[i]].url \in Urls
  BY <1>1 DEF ImgInfo
<1> HIDE DEF is_decorative_img
<1> QED
  BY <1>2 DEF Info, Found

\* extract_remote_images as a rewriting.
LEMMA ExtractIs ==
    ASSUME NEW T, NEW s \in Seq(T)
    PROVE  /\ extract_remote_images(s)
                = FlattenSeq([i \in DOMAIN s |->
                    IF FirstOf(s, i) THEN <<Info(s, i)>> ELSE <<>>])
           /\ [i \in DOMAIN s |->
                 IF FirstOf(s, i) THEN <<Info(s, i)>> ELSE <<>>]
                \in [DOMAIN s -> Seq(Found)]
           /\ extract_remote_images(s) \in Seq(Found)
<1> DEFINE ss == [i \in DOMAIN s |->
                    IF FirstOf(s, i) THEN <<Info(s, i)>> ELSE <<>>]
<1>1. extract_remote_images(s) = FlattenSeq(ss)
  BY DEF extract_remote_images, Rewrite, FirstOf, Info
<1>2. ASSUME NEW i \in DOMAIN s
      PROVE  (IF FirstOf(s, i) THEN <<Info(s, i)>> ELSE <<>>) \in Seq(Found)
  <2>1. CASE FirstOf(s, i)
    <3>1. Info(s, i) \in Found
      BY <2>1, InfoType DEF FirstOf
    <3> QED
      BY <2>1, <3>1
  <2> QED
    BY <2>1
<1>3. ss \in [DOMAIN s -> Seq(Found)]
  BY <1>2
<1>4. FlattenSeq(ss) \in Seq(Found)
  BY <1>3, RewriteType
<1> QED
  BY <1>1, <1>3, <1>4

\* The images worth loading, before the cap.
Worth(s) == Only(extract_remote_images(s), {r \in Found : ~r.is_decorative})

\* The cap only matters when it is reached.
LEMMA CandidatesAre ==
    ASSUME doc \in Seq(Tokens)
    PROVE  /\ candidates \in Seq(Urls)
           /\ Len(candidates) < MaxImages => Len(candidates) = Len(Worth(doc))
<1> DEFINE found == extract_remote_images(doc)
           D == {r \in Found : ~r.is_decorative}
           all == Worth(doc)
           urls == [i \in DOMAIN all |-> all[i].url]
           n == IF Len(urls) < MaxImages THEN Len(urls) ELSE MaxImages
<1>1. found \in Seq(Found)
  BY ExtractIs
<1>2. KeepAt(found, LAMBDA i : ~found[i].is_decorative) = all
  <2>1. \A i \in DOMAIN found : found[i] \in Found
    BY <1>1, LenProperties
  <2> HIDE DEF found
  <2>2. [i \in DOMAIN found |->
           IF ~found[i].is_decorative THEN <<found[i]>> ELSE <<>>]
          = [i \in DOMAIN found |->
               IF found[i] \in D THEN <<found[i]>> ELSE <<>>]
    BY <2>1
  <2> HIDE DEF D
  <2>3. KeepAt(found, LAMBDA i : ~found[i].is_decorative) = Only(found, D)
    BY <2>2 DEF KeepAt, Rewrite, Only
  <2> QED
    BY <2>3 DEF Worth, D, found
<1>3. candidates = SubSeq(urls, 1, n)
  BY <1>2 DEF candidates
<1>4. all \in Seq(Found)
  <2>1. all \in Seq(Found \cap D)
    BY <1>1, OnlyType DEF Worth
  <2> HIDE DEF all, D
  <2>2. Found \cap D \subseteq Found
    OBVIOUS
  <2> QED
    BY <2>1, <2>2, SeqMonotonic
<1> HIDE DEF all, found, D
<1>5. /\ Len(all) \in Nat /\ DOMAIN all = 1..Len(all)
      /\ \A i \in 1..Len(all) : all[i].url \in Urls
  <2>1. \A i \in 1..Len(all) : all[i] \in Found
    BY <1>4
  <2> QED
    BY <1>4, <2>1, LenProperties DEF Found
<1>6. urls \in Seq(Urls) /\ Len(urls) = Len(all)
  BY <1>5
<1> HIDE DEF urls
<1>7. n \in 0..Len(urls) /\ MaxImages \in Nat /\ n \in Nat
  BY <1>5, <1>6, ContentAssumption
<1>8. \A i \in 1..n : urls[i] \in Urls
  BY <1>5, <1>6, <1>7
<1>9. n = MaxImages \/ (n < MaxImages /\ n = Len(all))
  BY <1>5, <1>6, <1>7
<1> HIDE DEF n
<1>10. SubSeq(urls, 1, n) \in Seq(Urls) /\ Len(SubSeq(urls, 1, n)) = n
  BY <1>7, <1>8, SubSeqProperties
<1> QED
  BY <1>3, <1>7, <1>9, <1>10 DEF all

\* An image without a source is not one of those with one.
LEMMA BareIsNoImage == "bare" \notin Images
BY ImgAssumption DEF Basic

\* As many images worth loading as the marks the message has.
LEMMA MarksAreWorth ==
    ASSUME NEW s \in Seq(Sent),
           \A i \in DOMAIN s : s[i] # "cite",
           \A i, j \in DOMAIN s :
              /\ s[i] \in Images /\ s[j] \in Images
              /\ Img[s[i]].url = Img[s[j]].url
              => i = j
    PROVE  Len(Only(sanitize_for_matrix(s, "links"), {"mark"}))
             = Len(Worth(s))
<1> DEFINE D == {r \in Found : ~r.is_decorative}
           New(i) == IF s[i] \notin Images \cup {"bare"} THEN <<s[i]>>
                     ELSE IF Loadable(s, i) THEN <<"mark">> ELSE <<>>
           pp == [i \in DOMAIN s |-> New(i)]
           qq == [i \in DOMAIN s |->
                    IF FirstOf(s, i) THEN <<Info(s, i)>> ELSE <<>>]
           AA == [i \in DOMAIN pp |-> Only(pp[i], {"mark"})]
           BB == [i \in DOMAIN qq |-> Only(qq[i], D)]
<1>0. /\ Len(s) \in Nat /\ DOMAIN s = 1..Len(s)
      /\ \A i \in DOMAIN s : s[i] \in Sent
  BY LenProperties
<1>1. Sent \subseteq Tokens /\ "mark" \notin Sent /\ "mark" \in Tokens
      /\ "mark" \notin Images /\ "bare" \notin Images
  BY SolidApart, BareIsNoImage DEF Sent, Solid
<1>2. s \in Seq(Tokens) /\ \A i \in DOMAIN s : s[i] \in Tokens
  BY <1>0, <1>1, SeqMonotonic
<1>3. strip_reply_blockquotes(s) = s
  BY StripIsOwn, OwnAll
<1>4. placeholder_remote_images(s) = FlattenSeq(pp)
  <2>1. pp = [i \in DOMAIN s |->
                IF s[i] \notin Images \cup {"bare"} THEN <<s[i]>>
                ELSE IF /\ s[i] # "bare" /\ Img[s[i]].remote
                        /\ ~is_decorative_img(s[i])
                        /\ i \notin chrome_image_offsets(s)
                       THEN <<"mark">> ELSE <<>>]
    BY <1>1 DEF Loadable
  <2> QED
    BY <2>1 DEF placeholder_remote_images, Rewrite
<1>5. placeholder_remote_images(s) \in Seq(Tokens)
  BY <1>2, PlaceholderKeeps
<1>6. Only(sanitize_for_matrix(s, "links"), {"mark"})
        = Only(placeholder_remote_images(s), {"mark"})
  <2>1. {"mark"} \in SUBSET Solid
    BY DEF Solid
  <2>2. placeholder_remote_images(s)
          = IF "links" = "links"
              THEN placeholder_remote_images(strip_reply_blockquotes(s))
              ELSE strip_reply_blockquotes(s)
    BY <1>3
  <2> QED
    BY <1>2, <1>5, <2>1, <2>2, PassesKeep
<1>7. pp \in [DOMAIN s -> Seq(Tokens)]
  <2>1. ASSUME NEW i \in DOMAIN s PROVE New(i) \in Seq(Tokens)
    BY <1>1, <1>2, <2>1
  <2> QED
    BY <2>1
<1>8. /\ qq \in [DOMAIN s -> Seq(Found)]
      /\ extract_remote_images(s) = FlattenSeq(qq)
  BY ExtractIs
<1>9. pp \in Seq(Seq(Tokens)) /\ Len(pp) = Len(s)
  <2> HIDE DEF pp
  <2> QED
    BY <1>7, RewriteType
<1>10. qq \in Seq(Seq(Found)) /\ Len(qq) = Len(s)
  <2> HIDE DEF qq
  <2> QED
    BY <1>8, RewriteType
<1>11. \A i \in DOMAIN s : pp[i] = New(i)
  OBVIOUS
<1>12. \A i \in DOMAIN s :
          qq[i] = IF FirstOf(s, i) THEN <<Info(s, i)>> ELSE <<>>
  OBVIOUS
<1> HIDE DEF pp, qq
<1>13. Only(FlattenSeq(pp), {"mark"}) = FlattenSeq(AA)
  BY <1>9, OnlyFlatten
<1>14. Only(FlattenSeq(qq), D) = FlattenSeq(BB)
  <2> HIDE DEF D
  <2> QED
    BY <1>10, OnlyFlatten
<1>15. ASSUME NEW i \in DOMAIN s
       PROVE  Only(pp[i], {"mark"})
                = IF Loadable(s, i) THEN <<"mark">> ELSE <<>>
  <2>1. CASE s[i] \notin Images \cup {"bare"}
    <3>1. pp[i] = <<s[i]>> /\ ~Loadable(s, i) /\ s[i] # "mark"
      BY <1>0, <1>1, <1>11, <2>1 DEF Loadable
    <3> QED
      BY <3>1, OnlyOne DEF OneOf
  <2>2. CASE s[i] \in Images /\ Loadable(s, i)
    <3>1. pp[i] = <<"mark">>
      BY <1>11, <2>2
    <3> QED
      BY <2>2, <3>1, OnlyOne DEF OneOf
  <2>3. CASE s[i] \in Images \cup {"bare"} /\ ~Loadable(s, i)
    <3>1. pp[i] = <<>>
      BY <1>11, <2>3
    <3> QED
      BY <2>3, <3>1, OnlyEmpty
  <2> QED
    BY <2>1, <2>2, <2>3 DEF Loadable
<1>16. ASSUME NEW i \in DOMAIN s
       PROVE  Only(qq[i], D)
                = IF Loadable(s, i) THEN <<Info(s, i)>> ELSE <<>>
  <2>1. FirstOf(s, i) <=> (s[i] \in Images /\ Img[s[i]].remote)
    <3>1. ASSUME NEW j \in 1..(i - 1), s[j] \in Images, s[i] \in Images
          PROVE  Img[s[j]].url # Img[s[i]].url
      <4>1. j \in DOMAIN s /\ j # i
        BY <1>0
      <4> QED
        BY <3>1, <4>1
    <3> QED
      BY <3>1 DEF FirstOf
  <2>2. CASE FirstOf(s, i)
    <3>1. s[i] \in Images /\ qq[i] = <<Info(s, i)>>
      BY <1>12, <2>1, <2>2
    <3>2. Info(s, i) \in D <=> Loadable(s, i)
      BY <2>1, <2>2, <3>1, InfoType DEF Loadable
    <3> HIDE DEF D
    <3> QED
      BY <3>1, <3>2, OnlyOne DEF OneOf
  <2>3. CASE ~FirstOf(s, i)
    <3>1. qq[i] = <<>> /\ ~Loadable(s, i)
      BY <1>12, <2>1, <2>3 DEF Loadable
    <3> HIDE DEF D
    <3> QED
      BY <3>1, OnlyEmpty
  <2> QED
    BY <2>2, <2>3
<1>17. DOMAIN pp = DOMAIN s /\ DOMAIN qq = DOMAIN s
  BY <1>7, <1>8
<1>18. /\ AA \in [DOMAIN s -> Seq({"mark"})]
       /\ \A i \in DOMAIN s :
             AA[i] = IF Loadable(s, i) THEN <<"mark">> ELSE <<>>
  <2>1. \A i \in DOMAIN s :
           AA[i] = IF Loadable(s, i) THEN <<"mark">> ELSE <<>>
    BY <1>15, <1>17
  <2>2. <<"mark">> \in Seq({"mark"}) /\ <<>> \in Seq({"mark"})
    OBVIOUS
  <2>3. AA = [i \in DOMAIN s |-> AA[i]]
    BY <1>17
  <2> HIDE DEF AA
  <2>4. \A i \in DOMAIN s : AA[i] \in Seq({"mark"})
    BY <2>1, <2>2
  <2> QED
    BY <2>1, <2>3, <2>4
<1>19. /\ BB \in [DOMAIN s -> Seq(Found)]
       /\ \A i \in DOMAIN s :
             BB[i] = IF Loadable(s, i) THEN <<Info(s, i)>> ELSE <<>>
  <2>1. \A i \in DOMAIN s :
           BB[i] = IF Loadable(s, i) THEN <<Info(s, i)>> ELSE <<>>
    BY <1>16, <1>17
  <2>2. \A i \in DOMAIN s : Loadable(s, i) => Info(s, i) \in Found
    BY InfoType DEF Loadable
  <2>3. BB = [i \in DOMAIN s |-> BB[i]]
    BY <1>17
  <2> HIDE DEF BB
  <2>4. ASSUME NEW i \in DOMAIN s PROVE BB[i] \in Seq(Found)
    <3>1. CASE Loadable(s, i)
      <4>1. BB[i] = <<Info(s, i)>> /\ Info(s, i) \in Found
        BY <2>1, <2>2, <3>1
      <4> QED
        BY <4>1
    <3>2. CASE ~Loadable(s, i)
      <4>1. BB[i] = <<>>
        BY <2>1, <3>2
      <4> QED
        BY <4>1
    <3> QED
      BY <3>1, <3>2
  <2> QED
    BY <2>1, <2>3, <2>4
<1> HIDE DEF AA, BB
<1>20. AA \in Seq(Seq({"mark"})) /\ Len(AA) = Len(s)
  BY <1>18, RewriteType
<1>21. BB \in Seq(Seq(Found)) /\ Len(BB) = Len(s)
  BY <1>19, RewriteType
<1>22. ASSUME NEW i \in 1..Len(AA) PROVE Len(AA[i]) = Len(BB[i])
  <2>1. i \in DOMAIN s
    BY <1>0, <1>20
  <2> QED
    BY <1>18, <1>19, <2>1
<1>23. Len(FlattenSeq(AA)) = Len(FlattenSeq(BB))
  BY <1>20, <1>21, <1>22, FlattenLengths
<1> QED
  BY <1>4, <1>6, <1>8, <1>13, <1>14, <1>23 DEF Worth

-----------------------------------------------------------------------------
(* The inductive invariant.                                                *)

\* Images are only loaded into a message whose email has HTML.
LoadsHaveHtml == \A l \in Loads : load[l] # Off => html_candidate(kind)

\* The formatted body is the email's HTML, rendered once or, after a load,
\* rendered again with the images.
HtmlRendered ==
    html # None =>
        \/ ~edited /\ html = <<sanitize_for_matrix(doc, RenderMode)>>
        \/ edited /\ \E up \in SUBSET Urls :
                        html = <<render_inline_images(doc, up)>>

\* The plain body carries the sender's own lines.
PlainCarried == Posted => Carries(plain, cut, OwnOf(kind))

Fitting == Posted /\ ~edited => FitsIn(html, plain, cut)

EditedIsPosted == edited => Posted

IInv ==
    /\ TypeOK /\ LoadsHaveHtml /\ HtmlRendered /\ PlainCarried /\ Fitting
    /\ EditedIsPosted

\* What a sender writes is made of tokens.
LEMMA SentIsTokens ==
    ASSUME NEW s \in Seq(Sent)
    PROVE  s \in Seq(Tokens)
<1>1. Sent \subseteq Tokens
  BY DEF Sent
<1> QED
  BY <1>1, SeqMonotonic

\* It holds at first.
LEMMA InitIInv == Init => IInv
<1> SUFFICES ASSUME Init PROVE IInv
  OBVIOUS
<1> USE DEF Init
<1>1. TypeOK
  <2>1. Attachments \in Nat /\ MaxParts \in Nat
    BY ContentAssumption
  <2>2. load \in [Loads -> {Off} \cup Seq(Urls)]
    OBVIOUS
  <2>3. fetched \in [Loads -> SUBSET Urls]
    OBVIOUS
  <2>4. Posted = (chain # <<>>)
    BY DEF Posted
  <2>5. latest \in 0..Len(chain)
    OBVIOUS
  <2>6. /\ doc \in Seq(Sent) /\ open \in Seq(Containers)
        /\ lines \in Seq(LineKinds) /\ plain \in Seq(LineKinds)
        /\ chain \in Seq(Nat)
    OBVIOUS
  <2>7. /\ kind \in Kinds \cup {"none"} /\ cut \in BOOLEAN
        /\ edited \in BOOLEAN
    OBVIOUS
  <2>8. parts \in 0..MaxParts /\ waiting \in 0..Attachments
    BY <2>1
  <2>9. html = None
    OBVIOUS
  <2> QED
    BY ONLY <2>2, <2>3, <2>4, <2>5, <2>6, <2>7, <2>8, <2>9 DEF TypeOK
<1>2. LoadsHaveHtml
  BY DEF LoadsHaveHtml
<1> QED
  BY <1>1, <1>2 DEF IInv, HtmlRendered, PlainCarried, Fitting, Posted,
     EditedIsPosted

\* While the body is written nothing is posted yet.
LEMMA WritingKeeps ==
    ASSUME IInv, Writing, doc' \in Seq(Sent), open' \in Seq(Containers),
           lines' \in Seq(LineKinds), parts' \in 0..MaxParts
    PROVE  IInv'
<1> USE DEF Writing, message, files
<1>1. html = None
  BY DEF IInv, TypeOK
<1>2. TypeOK'
  BY DEF IInv, TypeOK, Posted
<1>3. LoadsHaveHtml'
  BY DEF IInv, LoadsHaveHtml, html_candidate
<1>4. HtmlRendered'
  BY <1>1 DEF HtmlRendered
<1>5. PlainCarried' /\ Fitting' /\ EditedIsPosted'
  BY DEF IInv, PlainCarried, Fitting, EditedIsPosted, Posted
<1> QED
  BY <1>2, <1>3, <1>4, <1>5 DEF IInv

\* The sender's steps.
LEMMA WriteKeeps ==
    ASSUME IInv,
           \/ \E f \in Fragments : WriteFragment(f)
           \/ \E t \in Containers : OpenContainer(t)
           \/ CloseContainer
           \/ \E x \in LineKinds : WriteLine(x)
    PROVE  IInv'
<1>0. /\ doc \in Seq(Sent) /\ open \in Seq(Containers)
      /\ lines \in Seq(LineKinds) /\ parts \in 0..MaxParts
      /\ MaxParts \in Nat
  BY ContentAssumption DEF IInv, TypeOK
<1>1. ASSUME NEW t \in Opens PROVE t \in Sent /\ CloseOf[t] \in Sent
  <2>1. t \in Basic /\ CloseOf[t] \in Basic /\ Basic \subseteq Tokens
    BY OpensAre, SolidApart DEF Basic
  <2>2. t # "mark" /\ CloseOf[t] # "mark"
    BY OpensAre
  <2>3. Basic \cap Urls = {}
    BY ImgAssumption
  <2> QED
    BY <2>1, <2>2, <2>3 DEF Sent
<1>2. ASSUME NEW f \in Fragments, WriteFragment(f) PROVE IInv'
  <2>1. f \in Seq(Sent)
    BY ContentAssumption
  <2>2. doc' \in Seq(Sent)
    BY <1>0, <1>2, <2>1, ConcatProperties DEF WriteFragment
  <2>3. parts' \in 0..MaxParts
    BY <1>0, <1>2 DEF WriteFragment
  <2>4. Writing /\ open' = open /\ lines' = lines
    BY <1>2 DEF WriteFragment
  <2> QED
    BY <1>0, <2>2, <2>3, <2>4, WritingKeeps
<1>3. ASSUME NEW t \in Containers, OpenContainer(t) PROVE IInv'
  <2>1. t \in Sent
    BY <1>1, ContentAssumption
  <2>2. doc' \in Seq(Sent) /\ open' \in Seq(Containers)
    BY <1>0, <1>3, <2>1, AppendProperties DEF OpenContainer
  <2>3. parts' \in 0..MaxParts
    BY <1>0, <1>3 DEF OpenContainer
  <2>4. Writing /\ lines' = lines
    BY <1>3 DEF OpenContainer
  <2> QED
    BY <1>0, <2>2, <2>3, <2>4, WritingKeeps
<1>4. ASSUME CloseContainer PROVE IInv'
  <2>1. open # <<>> /\ Len(open) \in Nat /\ Len(open) \in 1..Len(open)
    BY <1>0, <1>4, EmptySeq DEF CloseContainer
  <2>2. Last(open) \in Containers
    BY <1>0, <2>1 DEF Last
  <2>3. CloseOf[Last(open)] \in Sent
    BY <1>1, <2>2, ContentAssumption
  <2>4. doc' \in Seq(Sent)
    BY <1>0, <1>4, <2>3, AppendProperties DEF CloseContainer
  <2>5. Front(open) \in Seq(Containers)
    <3>1. \A i \in 1..(Len(open) - 1) : open[i] \in Containers
      BY <1>0, <2>1
    <3> QED
      BY <2>1, <3>1, SubSeqProperties DEF Front
  <2>6. /\ Writing /\ lines' = lines /\ parts' = parts
        /\ open' = Front(open)
    BY <1>4 DEF CloseContainer
  <2> QED
    BY <1>0, <2>4, <2>5, <2>6, WritingKeeps
<1>5. ASSUME NEW x \in LineKinds, WriteLine(x) PROVE IInv'
  <2>1. lines' \in Seq(LineKinds)
    BY <1>0, <1>5, AppendProperties DEF WriteLine
  <2>2. Writing /\ doc' = doc /\ open' = open /\ parts' = parts
    BY <1>5 DEF WriteLine
  <2> QED
    BY <1>0, <2>1, <2>2, WritingKeeps
<1> QED
  BY <1>2, <1>3, <1>4, <1>5

\* The message that is posted.
LEMMA PostBodyKeeps ==
    ASSUME IInv, NEW k \in Kinds, PostBody(k)
    PROVE  IInv'
<1>0. /\ doc \in Seq(Sent) /\ doc \in Seq(Tokens)
      /\ lines \in Seq(LineKinds) /\ TypeOK
  BY SentIsTokens DEF IInv, TypeOK
<1>1. PICK m \in from_email(k, RenderMode) :
         html' = m.html /\ plain' = m.plain /\ cut' = m.cut
  BY DEF PostBody
<1>2. /\ \/ m.html = None
         \/ /\ html_candidate(k)
            /\ m.html = <<sanitize_for_matrix(doc, RenderMode)>>
      /\ FitsIn(m.html, m.plain, m.cut)
      /\ Carries(m.plain, m.cut, OwnOf(k))
  BY <1>0, BodyIs
<1>3. /\ kind = "none" /\ kind' = k /\ k # "none" /\ Posted'
      /\ doc' = doc /\ lines' = lines /\ open' = open /\ parts' = parts
      /\ edited' = edited /\ waiting' = waiting
      /\ load' = load /\ fetched' = fetched
      /\ chain' = <<0>> /\ latest' = 1
  BY DEF PostBody, Posted, Kinds
<1>4. edited = FALSE
  BY <1>3 DEF IInv, TypeOK, EditedIsPosted, Posted
<1>5. /\ html' = None \/ html'[1] \in Seq(Tokens)
      /\ html' # None => html_candidate(k)
      /\ html' # None => html' = <<sanitize_for_matrix(doc, RenderMode)>>
  <2>1. sanitize_for_matrix(doc, RenderMode) \in Seq(Tokens)
    BY <1>0, SanitizeKeeps
  <2> QED
    BY <1>1, <1>2, <2>1
<1>6. plain' \in Seq(LineKinds) /\ cut' \in BOOLEAN
  BY <1>1, <1>2 DEF Carries
<1>7. TypeOK'
  <2>1. /\ chain' \in Seq(Nat) /\ latest' \in 0..Len(chain')
        /\ Posted' = (chain' # <<>>)
    <3>1. <<0>> \in Seq(Nat) /\ Len(<<0>>) = 1 /\ <<0>> # <<>>
      OBVIOUS
    <3>2. Posted' /\ chain' # <<>>
      BY <1>3, <3>1
    <3> QED
      BY <1>3, <3>1, <3>2 DEF Posted
  <2>2. html' # None => kind' \in {"html", "islands", "both"}
    BY <1>3, <1>5 DEF html_candidate
  <2> QED
    BY <1>0, <1>3, <1>5, <1>6, <2>1, <2>2 DEF TypeOK
<1>8. LoadsHaveHtml'
  BY <1>3 DEF IInv, LoadsHaveHtml, html_candidate
<1>9. HtmlRendered'
  BY <1>3, <1>4, <1>5 DEF HtmlRendered
<1>10. PlainCarried'
  <2>1. OwnOf(kind)' = OwnOf(k)
    BY <1>3 DEF OwnOf
  <2> QED
    BY <1>1, <1>2, <2>1 DEF PlainCarried
<1>11. Fitting'
  BY <1>1, <1>2 DEF Fitting
<1> QED
  BY <1>3, <1>7, <1>8, <1>9, <1>10, <1>11 DEF IInv, EditedIsPosted

\* The steps that leave the message alone.
LEMMA MessageKept ==
    ASSUME IInv, UNCHANGED <<written, message>>,
           TypeOK', LoadsHaveHtml'
    PROVE  IInv'
<1> USE DEF written, message
<1>1. HtmlRendered'
  BY DEF IInv, HtmlRendered
<1>2. PlainCarried'
  <2>1. OwnOf(kind)' = OwnOf(kind)
    BY DEF OwnOf
  <2> QED
    BY <2>1 DEF IInv, PlainCarried, Posted
<1>3. Fitting' /\ EditedIsPosted'
  BY DEF IInv, Fitting, EditedIsPosted, Posted
<1> QED
  BY <1>1, <1>2, <1>3 DEF IInv

\* Attachments leave the message alone.
LEMMA AttachmentKeeps ==
    ASSUME IInv, PostAttachment \/ SkipAttachment
    PROVE  IInv'
<1> USE DEF written, message
<1>0. /\ TypeOK /\ chain \in Seq(Nat) /\ Len(chain) \in Nat
      /\ waiting \in 0..Attachments /\ Attachments \in Nat
      /\ latest \in 0..Len(chain)
  BY ContentAssumption DEF IInv, TypeOK
<1>1. CASE PostAttachment
  <2> USE <1>1 DEF PostAttachment
  <2>1. waiting' \in 0..Attachments
    BY <1>0
  <2>2. chain' \in Seq(Nat) /\ Len(chain') = Len(chain) + 1
    BY <1>0, AppendProperties
  <2>3. latest' \in 0..Len(chain')
    BY <1>0, <2>2
  <2>4. Posted' /\ chain' # <<>>
    BY <1>0, <2>2 DEF Posted
  <2>5. TypeOK'
    BY <1>0, <2>1, <2>2, <2>3, <2>4 DEF TypeOK
  <2>6. LoadsHaveHtml'
    BY DEF IInv, LoadsHaveHtml
  <2> QED
    BY <2>5, <2>6, MessageKept
<1>2. CASE SkipAttachment
  <2> USE <1>2 DEF SkipAttachment
  <2>1. waiting' \in 0..Attachments
    BY <1>0
  <2>2. TypeOK'
    BY <1>0, <2>1 DEF TypeOK, Posted
  <2>3. LoadsHaveHtml'
    BY DEF IInv, LoadsHaveHtml
  <2> QED
    BY <2>2, <2>3, MessageKept
<1> QED
  BY <1>1, <1>2

\* So do loads until their edit.
LEMMA LoadKeeps ==
    ASSUME IInv, NEW l \in Loads, NEW b \in BOOLEAN,
           LoadImages(l) \/ FetchImage(l, b)
    PROVE  IInv'
<1> USE DEF written, message, files
<1>0. /\ TypeOK /\ doc \in Seq(Tokens)
      /\ load \in [Loads -> {Off} \cup Seq(Urls)]
      /\ fetched \in [Loads -> SUBSET Urls]
  BY SentIsTokens DEF IInv, TypeOK
<1>1. CASE LoadImages(l)
  <2> USE <1>1 DEF LoadImages
  <2>1. candidates \in Seq(Urls)
    BY <1>0, CandidatesAre
  <2>2. load' \in [Loads -> {Off} \cup Seq(Urls)]
    BY <1>0, <2>1
  <2>3. fetched' \in [Loads -> SUBSET Urls]
    BY <1>0
  <2>4. TypeOK'
    BY <1>0, <2>2, <2>3 DEF TypeOK, Posted
  <2>5. LoadsHaveHtml'
    BY DEF LoadsHaveHtml, html_candidate
  <2> QED
    BY <2>4, <2>5, MessageKept
<1>2. CASE FetchImage(l, b)
  <2> USE <1>2 DEF FetchImage
  <2>1. load[l] \in Seq(Urls) /\ load[l] # <<>>
    BY <1>0
  <2>2. Head(load[l]) \in Urls /\ Tail(load[l]) \in Seq(Urls)
    BY <2>1, HeadTailProperties
  <2>3. load' \in [Loads -> {Off} \cup Seq(Urls)]
    BY <1>0, <2>2
  <2>4. fetched' \in [Loads -> SUBSET Urls]
    BY <1>0, <2>2
  <2>5. TypeOK'
    BY <1>0, <2>3, <2>4 DEF TypeOK, Posted
  <2>6. LoadsHaveHtml'
    <3>1. html_candidate(kind)
      BY DEF IInv, LoadsHaveHtml
    <3> QED
      BY <3>1 DEF LoadsHaveHtml, html_candidate
  <2> QED
    BY <2>5, <2>6, MessageKept
<1> QED
  BY <1>1, <1>2

\* The edit renders the same email again.
LEMMA EditKeeps ==
    ASSUME IInv, NEW l \in Loads, NEW b \in BOOLEAN, EditMessage(l, b)
    PROVE  IInv'
<1> USE DEF written, files
<1>0. /\ TypeOK /\ doc \in Seq(Tokens) /\ lines \in Seq(LineKinds)
      /\ load \in [Loads -> {Off} \cup Seq(Urls)]
      /\ fetched \in [Loads -> SUBSET Urls]
  BY SentIsTokens DEF IInv, TypeOK
<1>1. /\ load[l] = <<>> /\ load' = [load EXCEPT ![l] = Off]
      /\ UNCHANGED <<doc, open, lines, kind, parts, waiting, chain, latest,
                     fetched>>
  BY DEF EditMessage
<1>2. html_candidate(kind) /\ Posted
  <2>1. <<>> # Off
    BY DEF Off
  <2>2. html_candidate(kind)
    BY <1>1, <2>1 DEF IInv, LoadsHaveHtml
  <2> QED
    BY <2>2 DEF html_candidate, Posted
<1>3. load' \in [Loads -> {Off} \cup Seq(Urls)]
  BY <1>0, <1>1
<1>4. LoadsHaveHtml'
  BY <1>1, <1>2 DEF LoadsHaveHtml, html_candidate
<1>5. CASE UNCHANGED message
  <2>1. TypeOK'
    BY <1>0, <1>1, <1>3, <1>5 DEF TypeOK, Posted, message
  <2> QED
    BY <1>1, <1>4, <1>5, <2>1, MessageKept
<1>6. CASE ~UNCHANGED message
  <2>1. PICK m \in from_email(kind, "plain") :
           /\ html' = <<render_inline_images(doc, fetched[l])>>
           /\ plain' = m.plain /\ cut' = m.cut
           /\ edited' = TRUE
    BY <1>6 DEF EditMessage
  <2>2. Carries(m.plain, m.cut, OwnOf(kind))
    BY <1>0, BodyIs
  <2>3. render_inline_images(doc, fetched[l]) \in Seq(Tokens)
    BY <1>0, RenderKeeps
  <2>4. html'[1] \in Seq(Tokens)
    BY <2>1, <2>3
  <2>5. TypeOK'
    <3>1. kind \in {"html", "islands", "both"}
      BY <1>2 DEF html_candidate
    <3>2. plain' \in Seq(LineKinds) /\ cut' \in BOOLEAN
      BY <2>1, <2>2 DEF Carries
    <3> QED
      BY <1>0, <1>1, <1>3, <2>1, <2>4, <3>1, <3>2 DEF TypeOK, Posted
  <2>6. HtmlRendered'
    <3>1. fetched[l] \in SUBSET Urls
      BY <1>0
    <3> QED
      BY <1>1, <2>1, <3>1 DEF HtmlRendered
  <2>7. PlainCarried'
    <3>1. OwnOf(kind)' = OwnOf(kind)
      BY <1>1 DEF OwnOf
    <3> QED
      BY <2>1, <2>2, <3>1 DEF PlainCarried
  <2>8. Fitting' /\ EditedIsPosted'
    BY <1>1, <1>2, <2>1 DEF Fitting, EditedIsPosted, Posted
  <2> QED
    BY <1>4, <2>5, <2>6, <2>7, <2>8 DEF IInv
<1> QED
  BY <1>5, <1>6

\* Every step keeps the invariant.
LEMMA NextIInv == IInv /\ [Next]_vars => IInv'
<1> SUFFICES ASSUME IInv, [Next]_vars PROVE IInv'
  OBVIOUS
<1>1. CASE UNCHANGED vars
  <2>1. TypeOK' /\ LoadsHaveHtml'
    BY <1>1 DEF IInv, TypeOK, LoadsHaveHtml, Posted, vars, written, message,
       files
  <2> QED
    BY <1>1, <2>1, MessageKept DEF vars
<1>2. CASE \/ \E f \in Fragments : WriteFragment(f)
           \/ \E t \in Containers : OpenContainer(t)
           \/ CloseContainer
           \/ \E x \in LineKinds : WriteLine(x)
  BY <1>2, WriteKeeps
<1>3. ASSUME NEW k \in Kinds, PostBody(k) PROVE IInv'
  BY <1>3, PostBodyKeeps
<1>4. CASE PostAttachment \/ SkipAttachment
  BY <1>4, AttachmentKeeps
<1>5. ASSUME NEW l \in Loads, LoadImages(l) PROVE IInv'
  BY <1>5, LoadKeeps, TRUE \in BOOLEAN
<1>6. ASSUME NEW l \in Loads, NEW b \in BOOLEAN, FetchImage(l, b)
      PROVE  IInv'
  BY <1>6, LoadKeeps
<1>7. ASSUME NEW l \in Loads, NEW b \in BOOLEAN, EditMessage(l, b)
      PROVE  IInv'
  BY <1>7, EditKeeps
<1> QED
  BY <1>1, <1>2, <1>3, <1>4, <1>5, <1>6, <1>7 DEF Next

\* Whatever the fragments an email is made of, the message and the loads are
\* well formed, and a formatted body only appears for an email that has HTML.
THEOREM TypeCorrect == Spec => []TypeOK
<1>1. IInv => TypeOK
  BY DEF IInv
<1> QED
  BY <1>1, InitIInv, NextIInv, PTL DEF Spec

\* The invariant has both bodies carry the text.
LEMMA TextFromIInv == IInv => TextKept
<1> SUFFICES ASSUME IInv PROVE TextKept
  OBVIOUS
<1>0. /\ doc \in Seq(Tokens) /\ lines \in Seq(LineKinds)
      /\ plain \in Seq(LineKinds)
  BY SentIsTokens DEF IInv, TypeOK
<1>1. HtmlKept
  <2>1. \A mode : Only(sanitize_for_matrix(doc, mode), Texts)
                    = Only(Own(doc), Texts)
    BY <1>0, SanitizeKeeps
  <2>2. \A up : Only(render_inline_images(doc, up), Texts)
                  = Only(Own(doc), Texts)
    BY <1>0, RenderKeeps
  <2> QED
    BY <2>1, <2>2 DEF IInv, HtmlRendered, HtmlKept
<1>2. OwnOf(kind) = OwnLines
  BY DEF OwnOf, OwnLines
<1>3. PlainKept
  BY <1>2 DEF IInv, PlainCarried, Carries, PlainKept
<1>4. QuoteComesOff
  <2>1. OwnLines \in Seq(LineKinds)
    BY <1>0, AboveQuoteType, NothingQuoted DEF OwnLines
  <2> QED
    BY <1>0, <2>1, QuoteOff DEF QuoteComesOff
<1> QED
  BY <1>1, <1>3, <1>4 DEF TextKept

\* For every email: both bodies of the message carry exactly the text the
\* sender wrote outside the quoted reply, in its order, through all the
\* passes of sanitize_for_matrix, through an image load and through the plain
\* rendering; and the quote under a reply comes off again.  The HTML is any
\* sequence of tokens; how ammonia mends tags that do not match is abstracted.
THEOREM TextIsKept == Spec => []TextKept
BY TextFromIInv, InitIInv, NextIInv, PTL DEF Spec

\* The invariant has the marks match the loads.
LEMMA MarksFromIInv == IInv => MarksMatchLoads
<1> SUFFICES ASSUME IInv,
                    html # None, RenderMode = "links", ~edited,
                    ~Contains(doc, "cite"), Len(candidates) < MaxImages,
                    \A i, j \in DOMAIN doc :
                       /\ doc[i] \in Images /\ doc[j] \in Images
                       /\ Img[doc[i]].url = Img[doc[j]].url
                       => i = j
             PROVE  Len(Only(html[1], {"mark"})) = Len(candidates)
  BY DEF MarksMatchLoads
<1>1. doc \in Seq(Sent) /\ doc \in Seq(Tokens)
  BY SentIsTokens DEF IInv, TypeOK
<1>2. \A i \in DOMAIN doc : doc[i] # "cite"
  BY <1>1, LenProperties DEF Contains
<1>3. html[1] = sanitize_for_matrix(doc, "links")
  BY DEF IInv, HtmlRendered
<1>4. Len(Only(sanitize_for_matrix(doc, "links"), {"mark"}))
        = Len(Worth(doc))
  BY <1>1, <1>2, MarksAreWorth
<1> QED
  BY <1>1, <1>3, <1>4, CandidatesAre

\* A mark for each image the reaction loads, whatever the passes between.
THEOREM MarksAreLoads == Spec => []MarksMatchLoads
BY MarksFromIInv, InitIInv, NextIInv, PTL DEF Spec

\* The bodies fit in the event for every budget and every email.
THEOREM EventFits == Spec => []FitsEvent
<1>1. IInv => FitsEvent
  BY DEF IInv, Fitting, FitsEvent, FitsIn
<1> QED
  BY <1>1, InitIInv, NextIInv, PTL DEF Spec
=============================================================================
