---------------------------- MODULE Proxy_proofs ----------------------------
(***************************************************************************)
(* Framing, for any frames and bodies.  What has been handed on is what    *)
(* has come in full, however the stream is cut: FramingInv is inductive,   *)
(* the payloads handed on are those of the first frames, and the buffer    *)
(* holds the bytes after them.  Where characters are misread, what is      *)
(* handed on is still in the order of the frames: OrderInv is inductive,   *)
(* the buffer reads as the stream does from some byte on, and what has     *)
(* been handed on comes from frames that start before it.  Both rest on    *)
(* lemmas about FlattenSeq, about text as bytes, about one pass of each    *)
(* parser, and about the loop.                                             *)
(*                                                                         *)
(* Proxy: its type invariant, the order of the messages and what a closed  *)
(* websocket leaves, for any number of downstream websockets and messages. *)
(* ClientInv is inductive given TypeOK: a browser that is up belongs to a  *)
(* launcher or to a launch() under way.                                    *)
(***************************************************************************)
EXTENDS Proxy, Framing, SequenceTheorems, FiniteSetTheorems, WellFoundedInduction, TLAPS

-----------------------------------------------------------------------------
(* Induction, in a form the provers can use: about a set of numbers.       *)

Below == {p \in Nat \X Nat : p[1] < p[2]}

LEMMA BelowWellFounded == IsWellFoundedOn(Below, Nat)
  BY NatLessThanWellFounded, Zenon DEF OpToRel, Below

LEMMA SetInduction ==
    ASSUME NEW T, 0 \in T, \A n \in Nat : n \in T => n + 1 \in T
    PROVE  Nat \subseteq T
  <1> DEFINE B == Nat \ T
  <1> SUFFICES ASSUME B # {} PROVE FALSE
    OBVIOUS
  <1>1. PICK x \in B : \A y \in B : ~(<<y, x>> \in Below)
    <2>1. B \subseteq Nat
      OBVIOUS
    <2> HIDE DEF B
    <2> QED
      BY <2>1, WFMin, BelowWellFounded
  <1>2. x \in Nat /\ x # 0 /\ x - 1 \in Nat
    OBVIOUS
  <1>3. x - 1 \in B
    BY <1>2
  <1>4. <<x - 1, x>> \in Below
    BY <1>2 DEF Below
  <1> QED
    BY <1>1, <1>3, <1>4

LEMMA BoundedInduction ==
    ASSUME NEW T, NEW m \in Nat, 0 \in T, \A n \in 0..(m - 1) : n \in T => n + 1 \in T
    PROVE  m \in T
  <1> DEFINE U == {n \in Nat : n <= m => n \in T}
  <1>1. 0 \in U
    OBVIOUS
  <1>2. ASSUME NEW n \in Nat, n \in U PROVE n + 1 \in U
    <2>1. n + 1 <= m => n \in 0..(m - 1) /\ n \in T
      BY <1>2
    <2> QED
      BY <2>1
  <1>3. Nat \subseteq U
    <2> HIDE DEF U
    <2> QED
      BY <1>1, <1>2, SetInduction
  <1> QED
    BY <1>3

-----------------------------------------------------------------------------
(* FlattenSeq.                                                             *)

\* f holds the concatenations of the first n sequences of q.
Flattens(f, q, n) == f = [i \in 1..n |-> IF i = 1 THEN q[i] ELSE f[i - 1] \o q[i]]

LEMMA FlattensAt ==
    ASSUME NEW f, NEW q, NEW n, Flattens(f, q, n), NEW i \in 1..n
    PROVE  f[i] = IF i = 1 THEN q[i] ELSE f[i - 1] \o q[i]
  <1>1. f = [j \in 1..n |-> IF j = 1 THEN q[j] ELSE f[j - 1] \o q[j]]
    BY DEF Flattens
  <1> QED
    BY <1>1, Zenon

LEMMA FlattensExists ==
    ASSUME NEW S, NEW q \in Seq(Seq(S)), NEW n \in 0..Len(q)
    PROVE  \E f \in [1..n -> Seq(S)] : Flattens(f, q, n)
  <1> DEFINE T == {m \in Nat : m <= Len(q) => \E f \in [1..m -> Seq(S)] : Flattens(f, q, m)}
  <1>1. 0 \in T
    <2> DEFINE f == [i \in 1..0 |-> IF i = 1 THEN q[i] ELSE <<>>]
    <2>1. f \in [1..0 -> Seq(S)] /\ Flattens(f, q, 0)
      BY DEF Flattens
    <2> QED
      BY <2>1
  <1>2. ASSUME NEW m \in Nat, m \in T PROVE m + 1 \in T
    <2> SUFFICES ASSUME m + 1 <= Len(q)
                 PROVE  \E f \in [1..(m + 1) -> Seq(S)] : Flattens(f, q, m + 1)
      OBVIOUS
    <2>1. PICK f \in [1..m -> Seq(S)] : Flattens(f, q, m)
      BY <1>2
    <2>2. q[m + 1] \in Seq(S)
      OBVIOUS
    <2>3. CASE m = 0
      <3> DEFINE g == [i \in 1..1 |-> q[i]]
      <3>1. g \in [1..(m + 1) -> Seq(S)] /\ Flattens(g, q, m + 1)
        BY <2>2, <2>3 DEF Flattens
      <3> QED
        BY <3>1
    <2>4. CASE m > 0
      <3> DEFINE g == [i \in 1..(m + 1) |-> IF i <= m THEN f[i] ELSE f[m] \o q[m + 1]]
      <3>1. g \in [1..(m + 1) -> Seq(S)]
        <4>1. f[m] \o q[m + 1] \in Seq(S)
          BY <2>2, <2>4
        <4> QED
          BY <4>1
      <3>2. \A i \in 1..m : f[i] = IF i = 1 THEN q[i] ELSE f[i - 1] \o q[i]
        BY <2>1 DEF Flattens
      <3>3. \A i \in 1..(m + 1) : g[i] = IF i = 1 THEN q[i] ELSE g[i - 1] \o q[i]
        <4> SUFFICES ASSUME NEW i \in 1..(m + 1)
                     PROVE  g[i] = IF i = 1 THEN q[i] ELSE g[i - 1] \o q[i]
          OBVIOUS
        <4>1. CASE i <= m
          <5>1. i \in 1..m /\ g[i] = f[i]
            BY <4>1
          <5>2. i # 1 => i - 1 \in 1..(m + 1) /\ i - 1 <= m
            BY <4>1
          <5>3. i # 1 => g[i - 1] = f[i - 1]
            BY <5>2
          <5>4. f[i] = IF i = 1 THEN q[i] ELSE f[i - 1] \o q[i]
            BY <3>2, <5>1
          <5> HIDE DEF g
          <5> QED
            BY <5>1, <5>3, <5>4, Zenon
        <4>2. CASE i = m + 1
          <5>1. g[m + 1] = f[m] \o q[m + 1]
            <6>1. m + 1 \in 1..(m + 1) /\ ~(m + 1 <= m)
              OBVIOUS
            <6> QED
              BY <6>1, Zenon
          <5>2. m \in 1..(m + 1) /\ m <= m /\ i # 1 /\ i - 1 = m
            BY <2>4, <4>2
          <5>3. g[m] = f[m]
            BY <5>2
          <5> HIDE DEF g
          <5> QED
            BY <4>2, <5>1, <5>2, <5>3, Zenon
        <4> QED
          BY <4>1, <4>2
      <3>4. g = [i \in 1..(m + 1) |-> IF i = 1 THEN q[i] ELSE g[i - 1] \o q[i]]
        <4> HIDE DEF g
        <4> QED
          BY <3>1, <3>3
      <3> QED
        BY <3>1, <3>4 DEF Flattens
    <2> QED
      BY <2>3, <2>4
  <1>3. Nat \subseteq T
    <2> HIDE DEF T
    <2> QED
      BY <1>1, <1>2, SetInduction
  <1>4. Len(q) \in Nat
    OBVIOUS
  <1>5. n \in T
    BY <1>3, <1>4
  <1> QED
    BY <1>5, <1>4

LEMMA FlattensUnique ==
    ASSUME NEW f, NEW g, NEW q, NEW m \in Nat, NEW n \in Nat,
           Flattens(f, q, m), Flattens(g, q, n)
    PROVE  \A i \in Nat : i \in 1..m /\ i \in 1..n => f[i] = g[i]
  <1> DEFINE T == {i \in Nat : i \in 1..m /\ i \in 1..n => f[i] = g[i]}
  <1>1. 0 \in T
    OBVIOUS
  <1>2. ASSUME NEW i \in Nat, i \in T PROVE i + 1 \in T
    <2> SUFFICES ASSUME i + 1 \in 1..m, i + 1 \in 1..n PROVE f[i + 1] = g[i + 1]
      OBVIOUS
    <2>2. /\ f[i + 1] = IF i + 1 = 1 THEN q[i + 1] ELSE f[i + 1 - 1] \o q[i + 1]
          /\ g[i + 1] = IF i + 1 = 1 THEN q[i + 1] ELSE g[i + 1 - 1] \o q[i + 1]
      BY FlattensAt
    <2>3. i + 1 - 1 = i /\ (i + 1 # 1 => i \in 1..m /\ i \in 1..n)
      OBVIOUS
    <2>4. i + 1 # 1 => f[i] = g[i]
      BY <1>2, <2>3
    <2> QED
      BY <2>2, <2>3, <2>4, Zenon
  <1> HIDE DEF T
  <1>3. Nat \subseteq T
    BY <1>1, <1>2, SetInduction
  <1> QED
    BY <1>3 DEF T

LEMMA FlattenDef ==
    ASSUME NEW S, NEW q \in Seq(Seq(S)), q # <<>>
    PROVE  \E f \in [1..Len(q) -> Seq(S)] : Flattens(f, q, Len(q)) /\ FlattenSeq(q) = f[Len(q)]
  <1> DEFINE flatten[i \in 1..Len(q)] == IF i = 1 THEN q[i] ELSE flatten[i - 1] \o q[i]
  <1>0. Len(q) \in Nat /\ Len(q) # 0
    BY EmptySeq
  <1>1. PICK f \in [1..Len(q) -> Seq(S)] : Flattens(f, q, Len(q))
    <2>1. Len(q) \in 0..Len(q)
      BY <1>0
    <2> QED
      BY <2>1, FlattensExists, Zenon
  <1>2. FlattenSeq(q) = flatten[Len(q)]
    BY <1>0, Zenon DEF FlattenSeq
  <1>3. flatten = CHOOSE g : g = [i \in 1..Len(q) |-> IF i = 1 THEN q[i] ELSE g[i - 1] \o q[i]]
    BY DEF flatten
  <1> HIDE DEF flatten
  <1>4. Flattens(flatten, q, Len(q))
    BY <1>1, <1>3, Zenon DEF Flattens
  <1>5. \A i \in 1..Len(q) : flatten[i] = f[i]
    BY <1>0, <1>1, <1>4, FlattensUnique
  <1>6. FlattenSeq(q) = f[Len(q)]
    BY <1>0, <1>2, <1>5
  <1> QED
    BY <1>1, <1>6

LEMMA FlattenEmpty == FlattenSeq(<<>>) = <<>>
  BY EmptySeq DEF FlattenSeq

LEMMA FlattenType ==
    ASSUME NEW S, NEW q \in Seq(Seq(S))
    PROVE  FlattenSeq(q) \in Seq(S)
  <1>1. CASE q = <<>>
    BY <1>1, FlattenEmpty, EmptySeq
  <1>2. CASE q # <<>>
    <2>1. PICK f \in [1..Len(q) -> Seq(S)] : FlattenSeq(q) = f[Len(q)]
      BY <1>2, FlattenDef
    <2>2. Len(q) \in 1..Len(q)
      BY <1>2, EmptySeq
    <2> QED
      BY <2>1, <2>2
  <1> QED
    BY <1>1, <1>2

LEMMA FlattenAppend ==
    ASSUME NEW S, NEW q \in Seq(Seq(S)), NEW x \in Seq(S)
    PROVE  FlattenSeq(Append(q, x)) = FlattenSeq(q) \o x
  <1> DEFINE U == Seq(S)
             r == Append(q, x)
  <1>1. /\ r \in Seq(U) /\ r # <<>> /\ Len(r) = Len(q) + 1
        /\ \A i \in 1..Len(q) : r[i] = q[i]
        /\ r[Len(q) + 1] = x
    <2> HIDE DEF U
    <2>1. q \in Seq(U) /\ x \in U
      BY DEF U
    <2> QED
      BY <2>1, AppendProperties
  <1>2. Len(q) \in Nat
    OBVIOUS
  <1> HIDE DEF r
  <1>3. PICK g \in [1..Len(r) -> Seq(S)] : Flattens(g, r, Len(r)) /\ FlattenSeq(r) = g[Len(r)]
    BY <1>1, FlattenDef
  <1>4. CASE q = <<>>
    <2>1. Len(q) = 0
      BY <1>4, EmptySeq
    <2>2. 1 \in 1..Len(r) /\ Len(r) = 1
      BY <1>1, <2>1
    <2>3. g[1] = r[1]
      BY <1>3, <2>2, FlattensAt
    <2>4. <<>> \o x = x
      BY ConcatEmptySeq
    <2> QED
      BY <1>1, <1>3, <1>4, <2>1, <2>2, <2>3, <2>4, FlattenEmpty DEF r
  <1>5. CASE q # <<>>
    <2>1. PICK f \in [1..Len(q) -> Seq(S)] : Flattens(f, q, Len(q)) /\ FlattenSeq(q) = f[Len(q)]
      BY <1>5, FlattenDef
    <2>2. Len(q) > 0
      BY <1>5, EmptySeq
    <2>3. f = [i \in 1..Len(q) |-> IF i = 1 THEN r[i] ELSE f[i - 1] \o r[i]]
      <3>1. f = [i \in 1..Len(q) |-> IF i = 1 THEN q[i] ELSE f[i - 1] \o q[i]]
        BY <2>1 DEF Flattens
      <3> QED
        BY <1>1, <3>1, Zenon
    <2>4. Flattens(f, r, Len(q))
      BY <2>3 DEF Flattens
    <2>5. f[Len(q)] = g[Len(q)]
      <3>1. Len(q) \in 1..Len(q) /\ Len(q) \in 1..Len(r) /\ Len(r) \in Nat
        BY <1>1, <1>2, <2>2
      <3> QED
        BY <1>2, <1>3, <2>4, <3>1, FlattensUnique, SMTT(40)
    <2>6. Len(r) \in 1..Len(r) /\ Len(r) # 1 /\ Len(r) - 1 = Len(q)
      BY <1>1, <1>2, <2>2
    <2>7. g[Len(r)] = g[Len(r) - 1] \o r[Len(r)]
      <3>1. g = [i \in 1..Len(r) |-> IF i = 1 THEN r[i] ELSE g[i - 1] \o r[i]]
        BY <1>3 DEF Flattens
      <3> QED
        BY <2>6, <3>1, Zenon
    <2> QED
      BY <1>1, <1>3, <2>1, <2>5, <2>6, <2>7 DEF r
  <1> QED
    BY <1>4, <1>5

LEMMA FlattenOne ==
    ASSUME NEW S, NEW x \in Seq(S)
    PROVE  FlattenSeq(<<x>>) = x
  <1> DEFINE U == Seq(S)
  <1>1. <<>> \in Seq(U)
    BY EmptySeq
  <1>2. Append(<<>>, x) = <<x>>
    OBVIOUS
  <1>3. FlattenSeq(Append(<<>>, x)) = <<>> \o x
    BY <1>1, FlattenAppend, FlattenEmpty
  <1> QED
    BY <1>2, <1>3, ConcatEmptySeq

LEMMA ConcatAppend ==
    ASSUME NEW S, NEW s \in Seq(S), NEW t \in Seq(S), NEW e \in S
    PROVE  s \o Append(t, e) = Append(s \o t, e)
  <1>1. <<e>> \in Seq(S)
    OBVIOUS
  <1>2. s \o t \in Seq(S)
    BY ConcatProperties
  <1>3. Append(t, e) = t \o <<e>> /\ Append(s \o t, e) = (s \o t) \o <<e>>
    BY <1>2, AppendIsConcat
  <1> QED
    BY <1>1, <1>3, ConcatAssociative

LEMMA SubSeqAppend ==
    ASSUME NEW S, NEW s \in Seq(S), NEW n \in Nat, n + 1 <= Len(s)
    PROVE  /\ SubSeq(s, 1, n) \in Seq(S)
           /\ s[n + 1] \in S
           /\ SubSeq(s, 1, n + 1) = Append(SubSeq(s, 1, n), s[n + 1])
  <1>1. s[n + 1] \in S /\ \A i \in 1..n : s[i] \in S
    BY LenProperties
  <1>2. SubSeq(s, 1, n) \in Seq(S)
    BY <1>1, SubSeqProperties
  <1>3. 1 \in 1..Len(s) /\ n + 1 \in 1..Len(s) /\ n + 1 - 1 = n
    BY LenProperties
  <1>4. SubSeq(s, 1, n + 1) = SubSeq(s, 1, n) \o <<s[n + 1]>>
    BY <1>3, SubSeqRecursiveSecond
  <1> QED
    BY <1>1, <1>2, <1>4, AppendIsConcat

LEMMA Associative ==
    \A S : \A a, b, c \in Seq(S) : (a \o b) \o c = a \o (b \o c)
  BY ConcatAssociative

LEMMA FlattenConcat ==
    ASSUME NEW S, NEW p \in Seq(Seq(S)), NEW q \in Seq(Seq(S))
    PROVE  FlattenSeq(p \o q) = FlattenSeq(p) \o FlattenSeq(q)
  <1> DEFINE U == Seq(S)
             first(n) == SubSeq(q, 1, n)
             T == {n \in 0..Len(q) : FlattenSeq(p \o first(n)) = FlattenSeq(p) \o FlattenSeq(first(n))}
  <1>0. Len(q) \in Nat
    OBVIOUS
  <1>1. 0 \in T
    <2>1. first(0) = <<>>
      BY SubSeqEmpty
    <2>2. p \o <<>> = p /\ FlattenSeq(p) \o <<>> = FlattenSeq(p)
      BY FlattenType, ConcatEmptySeq
    <2>3. FlattenSeq(p \o first(0)) = FlattenSeq(p) \o FlattenSeq(first(0))
      BY <2>1, <2>2, FlattenEmpty, Zenon
    <2>4. 0 \in 0..Len(q)
      BY <1>0
    <2> QED
      BY <2>3, <2>4, Zenon
  <1>2. ASSUME NEW n \in 0..(Len(q) - 1), n \in T PROVE n + 1 \in T
    <2>0. n \in Nat /\ n + 1 \in 0..Len(q) /\ n + 1 <= Len(q)
      BY <1>0
    <2>1. first(n) \in Seq(U) /\ q[n + 1] \in U /\ first(n + 1) = Append(first(n), q[n + 1])
      BY <2>0, SubSeqAppend
    <2>2. FlattenSeq(p \o first(n)) = FlattenSeq(p) \o FlattenSeq(first(n))
      BY <1>2
    <2> SUFFICES FlattenSeq(p \o first(n + 1)) = FlattenSeq(p) \o FlattenSeq(first(n + 1))
      BY <2>0
    <2>9. p \in Seq(U)
      OBVIOUS
    <2> HIDE DEF first, T
    <2>3. p \o first(n) \in Seq(U) /\ p \o first(n + 1) = Append(p \o first(n), q[n + 1])
      <3> HIDE DEF U
      <3>1. p \o first(n) \in Seq(U)
        BY <2>1, <2>9, ConcatProperties
      <3>2. p \o Append(first(n), q[n + 1]) = Append(p \o first(n), q[n + 1])
        BY <2>1, <2>9, ConcatAppend
      <3> QED
        BY <2>1, <3>1, <3>2, Zenon
    <2>4. FlattenSeq(p \o first(n + 1)) = FlattenSeq(p \o first(n)) \o q[n + 1]
      BY <2>1, <2>3, FlattenAppend
    <2>5. FlattenSeq(first(n + 1)) = FlattenSeq(first(n)) \o q[n + 1]
      BY <2>1, FlattenAppend
    <2>6. FlattenSeq(p) \in Seq(S) /\ FlattenSeq(first(n)) \in Seq(S) /\ q[n + 1] \in Seq(S)
      BY <2>1, FlattenType
    <2>7. (FlattenSeq(p) \o FlattenSeq(first(n))) \o q[n + 1]
            = FlattenSeq(p) \o (FlattenSeq(first(n)) \o q[n + 1])
      <3> DEFINE a == FlattenSeq(p)
                 b == FlattenSeq(first(n))
                 c == q[n + 1]
      <3>1. a \in Seq(S) /\ b \in Seq(S) /\ c \in Seq(S)
        BY <2>6
      <3> HIDE DEF a, b, c
      <3>2. (a \o b) \o c = a \o (b \o c)
        BY <3>1, ConcatAssociative, SMTT(40)
      <3> QED
        BY <3>2, Zenon DEF a, b, c
    <2> QED
      BY <2>2, <2>4, <2>5, <2>7, Zenon
  <1>3. Len(q) \in T
    <2> HIDE DEF T
    <2> QED
      BY <1>0, <1>1, <1>2, BoundedInduction
  <1>4. first(Len(q)) = q
    BY SubSeqFull
  <1> QED
    BY <1>3, <1>4

LEMMA FlattenSingletons ==
    ASSUME NEW S, NEW t \in Seq(S), NEW q \in Seq(Seq(S)), Len(q) = Len(t),
           \A i \in 1..Len(t) : q[i] = <<t[i]>>
    PROVE  FlattenSeq(q) = t
  <1> DEFINE T == {n \in 0..Len(t) : FlattenSeq(SubSeq(q, 1, n)) = SubSeq(t, 1, n)}
             U == Seq(S)
  <1>0. Len(t) \in Nat
    OBVIOUS
  <1>1. 0 \in T
    <2>1. SubSeq(q, 1, 0) = <<>> /\ SubSeq(t, 1, 0) = <<>>
      BY SubSeqEmpty
    <2>2. FlattenSeq(SubSeq(q, 1, 0)) = SubSeq(t, 1, 0)
      BY <2>1, FlattenEmpty, Zenon
    <2>3. 0 \in 0..Len(t)
      BY <1>0
    <2> QED
      BY <2>2, <2>3, Zenon
  <1>2. ASSUME NEW n \in 0..(Len(t) - 1), n \in T PROVE n + 1 \in T
    <2>0. n \in Nat /\ n + 1 \in 0..Len(t) /\ n + 1 <= Len(t) /\ n + 1 \in 1..Len(t)
      BY <1>0
    <2>1. FlattenSeq(SubSeq(q, 1, n)) = SubSeq(t, 1, n)
      BY <1>2
    <2>2. /\ SubSeq(q, 1, n) \in Seq(U) /\ q[n + 1] \in U
          /\ SubSeq(q, 1, n + 1) = Append(SubSeq(q, 1, n), q[n + 1])
      BY <2>0, SubSeqAppend
    <2>3. /\ SubSeq(t, 1, n) \in Seq(S) /\ t[n + 1] \in S
          /\ SubSeq(t, 1, n + 1) = Append(SubSeq(t, 1, n), t[n + 1])
      BY <2>0, SubSeqAppend
    <2>4. q[n + 1] = <<t[n + 1]>>
      BY <2>0
    <2>5. FlattenSeq(SubSeq(q, 1, n + 1)) = SubSeq(t, 1, n) \o <<t[n + 1]>>
      BY <2>1, <2>2, <2>4, FlattenAppend
    <2> QED
      BY <2>0, <2>3, <2>5, AppendIsConcat
  <1>3. Len(t) \in T
    <2> HIDE DEF T
    <2> QED
      BY <1>0, <1>1, <1>2, BoundedInduction
  <1>4. SubSeq(q, 1, Len(t)) = q /\ SubSeq(t, 1, Len(t)) = t
    BY SubSeqFull
  <1> QED
    BY <1>3, <1>4

-----------------------------------------------------------------------------
(* Bytes and characters.                                                   *)

Alphabet == Letters \cup Control \cup Halves \cup {"MSG", "PING", "INFO", "0", "?", "w"}

Text == Seq(Alphabet)

Coded(text) == [i \in 1..Len(text) |-> CharBytes(text[i])]
Decoded(bytes) == [i \in 1..Len(bytes) |-> DecodedAt(bytes, i)]

LEMMA SmallSeqs ==
    ASSUME NEW S
    PROVE  /\ <<>> \in Seq(S)
           /\ \A c \in S : <<c>> \in Seq(S)
           /\ \A c, d \in S : <<c, d>> \in Seq(S)
  OBVIOUS

LEMMA TextConcat ==
    ASSUME NEW x \in Text, NEW y \in Text, NEW m \in Nat, Len(x) = m
    PROVE  /\ x \o y \in Text /\ Len(x \o y) = m + Len(y) /\ Len(y) \in Nat
           /\ \A i \in 1..m : (x \o y)[i] = x[i]
           /\ \A i \in 1..Len(y) : (x \o y)[m + i] = y[i]
  <1> DEFINE z == x \o y
  <1>1. /\ z \in Text /\ Len(z) = Len(x) + Len(y) /\ Len(y) \in Nat
        /\ \A i \in 1..(Len(x) + Len(y)) : z[i] = IF i <= Len(x) THEN x[i] ELSE y[i - Len(x)]
    <2>1. x \in Seq(Alphabet) /\ y \in Seq(Alphabet)
      BY DEF Text
    <2>2. z \in Seq(Alphabet)
      BY <2>1, ConcatProperties
    <2>3. Len(z) = Len(x) + Len(y)
      BY <2>1, ConcatProperties
    <2>4. Len(y) \in Nat
      BY <2>1
    <2>5. \A i \in 1..(Len(x) + Len(y)) : z[i] = IF i <= Len(x) THEN x[i] ELSE y[i - Len(x)]
      BY <2>1, ConcatProperties
    <2> QED
      BY <2>2, <2>3, <2>4, <2>5 DEF Text
  <1> HIDE DEF z
  <1>2. ASSUME NEW i \in 1..m PROVE z[i] = x[i]
    <2>1. i \in 1..(Len(x) + Len(y)) /\ i <= Len(x)
      BY <1>1
    <2> QED
      BY <1>1, <2>1
  <1>3. ASSUME NEW i \in 1..Len(y) PROVE z[m + i] = y[i]
    <2>1. m + i \in 1..(Len(x) + Len(y)) /\ ~(m + i <= Len(x)) /\ m + i - Len(x) = i
      BY <1>1
    <2> QED
      BY <1>1, <2>1
  <1> QED
    BY <1>1, <1>2, <1>3 DEF z

LEMMA FourSeq ==
    ASSUME NEW S, NEW a \in S, NEW b \in S, NEW c \in S, NEW d \in S
    PROVE  /\ <<a, b, c, d>> \in Seq(S) /\ Len(<<a, b, c, d>>) = 4
           /\ <<a, b, c, d>>[1] = a /\ <<a, b, c, d>>[2] = b
           /\ <<a, b, c, d>>[3] = c /\ <<a, b, c, d>>[4] = d
  OBVIOUS

LEMMA AppendToOne ==
    ASSUME NEW S, NEW x \in S, NEW y \in S
    PROVE  Append(<<x>>, y) = <<x, y>>
  <1> DEFINE a == Append(<<x>>, y)
             b == <<x, y>>
  <1>1. <<x>> \in Seq(S) /\ Len(<<x>>) = 1 /\ <<x>>[1] = x
    BY SmallSeqs
  <1>2. a \in Seq(S) /\ Len(a) = 2 /\ a[1] = x /\ a[2] = y
    BY <1>1, AppendProperties
  <1>3. b \in Seq(S) /\ Len(b) = 2 /\ b[1] = x /\ b[2] = y
    BY SmallSeqs
  <1> HIDE DEF a, b
  <1>4. \A i \in 1..Len(a) : a[i] = b[i]
    BY <1>2, <1>3
  <1>5. a = b
    BY <1>2, <1>3, <1>4, SeqEqual
  <1> QED
    BY <1>5 DEF a, b

LEMMA CharBytesType == \A c \in Alphabet : CharBytes(c) \in Text
  <1>1. "w1" \in Alphabet /\ "w2" \in Alphabet
    BY DEF Alphabet, Halves
  <1>2. \A c \in Alphabet : <<c>> \in Text /\ <<"w1", "w2">> \in Text
    BY <1>1, SmallSeqs DEF Text
  <1> QED
    BY <1>2 DEF CharBytes

LEMMA CodedType ==
    ASSUME NEW t \in Text
    PROVE  Coded(t) \in Seq(Text) /\ Len(Coded(t)) = Len(t) /\ ToBytes(t) = FlattenSeq(Coded(t))
  <1>1. Len(t) \in Nat /\ \A i \in 1..Len(t) : t[i] \in Alphabet
    BY LenProperties DEF Text
  <1>2. \A i \in 1..Len(t) : CharBytes(t[i]) \in Text
    BY <1>1, CharBytesType
  <1>3. Coded(t) \in Seq(Text)
    <2> DEFINE q == [i \in 1..Len(t) |-> CharBytes(t[i])]
    <2>1. q \in [1..Len(t) -> Text]
      BY <1>2
    <2>2. q \in Seq(Text)
      <3> HIDE DEF q
      <3> QED
        BY <1>1, <2>1, SeqDef
    <2> QED
      BY <2>2 DEF Coded
  <1>4. Len(Coded(t)) = Len(t)
    BY <1>1 DEF Coded
  <1>5. ToBytes(t) = FlattenSeq(Coded(t))
    BY Zenon DEF ToBytes, Coded
  <1> QED
    BY <1>3, <1>4, <1>5

LEMMA DecodedType ==
    ASSUME NEW t \in Text
    PROVE  /\ Decoded(t) \in Seq(Text) /\ Len(Decoded(t)) = Len(t)
           /\ ToText(t) = FlattenSeq(Decoded(t))
  <1>1. Len(t) \in Nat /\ \A i \in 1..Len(t) : t[i] \in Alphabet
    BY LenProperties DEF Text
  <1>2. \A i \in 1..Len(t) : DecodedAt(t, i) \in Text
    <2>1. /\ \A c \in Alphabet : <<c>> \in Text
          /\ <<>> \in Text /\ <<"w">> \in Text /\ <<"?">> \in Text
      <3>1. "w" \in Alphabet /\ "?" \in Alphabet
        BY DEF Alphabet
      <3> QED
        BY <3>1, SmallSeqs DEF Text
    <2> QED
      BY <1>1, <2>1 DEF DecodedAt
  <1>3. Decoded(t) \in Seq(Text)
    <2> DEFINE q == [i \in 1..Len(t) |-> DecodedAt(t, i)]
    <2>1. q \in [1..Len(t) -> Text]
      BY <1>2
    <2>2. q \in Seq(Text)
      <3> HIDE DEF q
      <3> QED
        BY <1>1, <2>1, SeqDef
    <2> QED
      BY <2>2 DEF Decoded
  <1>4. Len(Decoded(t)) = Len(t)
    BY <1>1 DEF Decoded
  <1>5. ToText(t) = FlattenSeq(Decoded(t))
    BY Zenon DEF ToText, Decoded
  <1> QED
    BY <1>3, <1>4, <1>5

LEMMA ToBytesType ==
    ASSUME NEW t \in Text
    PROVE  ToBytes(t) \in Text
  <1>1. Coded(t) \in Seq(Seq(Alphabet)) /\ ToBytes(t) = FlattenSeq(Coded(t))
    BY CodedType DEF Text
  <1> QED
    BY <1>1, FlattenType DEF Text

LEMMA ToTextType ==
    ASSUME NEW t \in Text
    PROVE  ToText(t) \in Text
  <1>1. Decoded(t) \in Seq(Seq(Alphabet)) /\ ToText(t) = FlattenSeq(Decoded(t))
    BY DecodedType DEF Text
  <1> QED
    BY <1>1, FlattenType DEF Text

LEMMA FlattenJoin ==
    ASSUME NEW S, NEW p \in Seq(Seq(S)), NEW q \in Seq(Seq(S)), NEW r \in Seq(Seq(S)),
           Len(r) = Len(p) + Len(q),
           \A i \in 1..Len(r) : r[i] = IF i <= Len(p) THEN p[i] ELSE q[i - Len(p)]
    PROVE  FlattenSeq(r) = FlattenSeq(p) \o FlattenSeq(q)
  <1> DEFINE s == p \o q
             U == Seq(S)
  <1>1. /\ s \in Seq(U) /\ Len(s) = Len(p) + Len(q)
        /\ \A i \in 1..(Len(p) + Len(q)) : s[i] = IF i <= Len(p) THEN p[i] ELSE q[i - Len(p)]
    <2>1. p \in Seq(U) /\ q \in Seq(U)
      OBVIOUS
    <2> HIDE DEF U
    <2> QED
      BY <2>1, ConcatProperties
  <1>2. FlattenSeq(s) = FlattenSeq(p) \o FlattenSeq(q)
    BY FlattenConcat
  <1>3. r \in Seq(U)
    OBVIOUS
  <1> HIDE DEF s, U
  <1>4. \A i \in 1..Len(r) : r[i] = s[i]
    BY <1>1
  <1>5. r = s
    BY <1>1, <1>3, <1>4, SeqEqual
  <1> QED
    BY <1>2, <1>5

\* A sequence mapped by a function.
Maps(A, S) == [A -> S]
Mapped(M, t) == [i \in 1..Len(t) |-> M[t[i]]]

LEMMA FunctionIsSeq ==
    ASSUME NEW S, NEW n \in Nat, NEW f \in [1..n -> S]
    PROVE  f \in Seq(S)
  BY SeqDef

LEMMA MappedType ==
    ASSUME NEW S, NEW A, NEW M \in Maps(A, S), NEW a \in Seq(A)
    PROVE  /\ Mapped(M, a) \in Seq(S) /\ Len(Mapped(M, a)) = Len(a)
           /\ \A i \in 1..Len(a) : Mapped(M, a)[i] = M[a[i]]
  <1> DEFINE p == [i \in 1..Len(a) |-> M[a[i]]]
  <1>1. Len(a) \in Nat /\ \A i \in 1..Len(a) : a[i] \in A
    BY LenProperties
  <1>2. p \in [1..Len(a) -> S] /\ Len(p) = Len(a) /\ \A i \in 1..Len(a) : p[i] = M[a[i]]
    BY <1>1 DEF Maps
  <1> HIDE DEF p
  <1>3. p \in Seq(S)
    BY <1>1, <1>2, FunctionIsSeq
  <1> QED
    BY <1>2, <1>3 DEF Mapped, p

\* c is a with b after it.
Joined(a, b, c) ==
    /\ Len(c) = Len(a) + Len(b)
    /\ \A i \in 1..Len(c) : c[i] = IF i <= Len(a) THEN a[i] ELSE b[i - Len(a)]

LEMMA MapConcat ==
    ASSUME NEW S, NEW A, NEW M \in Maps(A, Seq(S)),
           NEW a \in Seq(A), NEW b \in Seq(A), NEW c \in Seq(A), Joined(a, b, c)
    PROVE  FlattenSeq(Mapped(M, c)) = FlattenSeq(Mapped(M, a)) \o FlattenSeq(Mapped(M, b))
  <1> DEFINE U == Seq(S)
             p == Mapped(M, a)
             q == Mapped(M, b)
             r == Mapped(M, c)
  <1>0. /\ Len(c) = Len(a) + Len(b)
        /\ \A i \in 1..Len(c) : c[i] = IF i <= Len(a) THEN a[i] ELSE b[i - Len(a)]
    BY DEF Joined
  <1>1. Len(a) \in Nat /\ Len(b) \in Nat
    OBVIOUS
  <1>2. /\ p \in Seq(U) /\ Len(p) = Len(a) /\ \A i \in 1..Len(a) : p[i] = M[a[i]]
        /\ q \in Seq(U) /\ Len(q) = Len(b) /\ \A i \in 1..Len(b) : q[i] = M[b[i]]
        /\ r \in Seq(U) /\ Len(r) = Len(c) /\ \A i \in 1..Len(c) : r[i] = M[c[i]]
    <2>1. M \in Maps(A, U)
      OBVIOUS
    <2> HIDE DEF U
    <2> QED
      BY <1>1, <2>1, MappedType
  <1> HIDE DEF p, q, r
  <1>4. ASSUME NEW i \in 1..Len(r) PROVE r[i] = IF i <= Len(p) THEN p[i] ELSE q[i - Len(p)]
    <2>1. i \in 1..Len(c) /\ r[i] = M[c[i]]
      BY <1>2
    <2>2. CASE i <= Len(a)
      <3>1. i \in 1..Len(a) /\ c[i] = a[i]
        BY <1>0, <1>1, <2>1, <2>2
      <3> QED
        BY <1>2, <2>1, <2>2, <3>1, Zenon
    <2>3. CASE ~(i <= Len(a))
      <3>1. i - Len(a) \in 1..Len(b) /\ c[i] = b[i - Len(a)]
        BY <1>0, <1>1, <2>1, <2>3
      <3>2. q[i - Len(a)] = M[b[i - Len(a)]]
        BY <1>2, <3>1
      <3> QED
        BY <1>2, <2>1, <2>3, <3>1, <3>2, Zenon
    <2> QED
      BY <2>2, <2>3
  <1>5. p \in Seq(Seq(S)) /\ q \in Seq(Seq(S)) /\ r \in Seq(Seq(S)) /\ Len(r) = Len(p) + Len(q)
    BY <1>0, <1>1, <1>2
  <1>6. FlattenSeq(r) = FlattenSeq(p) \o FlattenSeq(q)
    BY <1>4, <1>5, FlattenJoin
  <1> QED
    BY <1>6 DEF p, q, r

LEMMA ToBytesConcat ==
    ASSUME NEW a \in Text, NEW b \in Text
    PROVE  ToBytes(a \o b) = ToBytes(a) \o ToBytes(b)
  <1> DEFINE M == [c \in Alphabet |-> CharBytes(c)]
  <1>1. M \in Maps(Alphabet, Seq(Alphabet))
    BY CharBytesType DEF Text, Maps
  <1> DEFINE c == a \o b
  <1>2. FlattenSeq(Mapped(M, c)) = FlattenSeq(Mapped(M, a)) \o FlattenSeq(Mapped(M, b))
    <2>1. /\ a \in Seq(Alphabet) /\ b \in Seq(Alphabet)
          /\ c \in Seq(Alphabet) /\ Len(c) = Len(a) + Len(b)
          /\ \A i \in 1..Len(c) : c[i] = IF i <= Len(a) THEN a[i] ELSE b[i - Len(a)]
      BY ConcatProperties DEF Text
    <2> HIDE DEF M, c
    <2>2. Joined(a, b, c)
      BY <2>1 DEF Joined
    <2> QED
      BY <1>1, <2>1, <2>2, MapConcat
  <1>3. ASSUME NEW t \in Text
        PROVE  ToBytes(t) = FlattenSeq(Mapped(M, t))
    <2>1. \A i \in 1..Len(t) : t[i] \in Alphabet
      BY LenProperties DEF Text
    <2>2. Mapped(M, t) = [i \in 1..Len(t) |-> CharBytes(t[i])]
      BY <2>1 DEF Mapped
    <2> QED
      BY <2>2, Zenon DEF ToBytes
  <1>4. a \o b \in Text
    BY ConcatProperties DEF Text
  <1> HIDE DEF M
  <1> QED
    BY <1>2, <1>3, <1>4, Zenon

LEMMA ToBytesEmpty == ToBytes(<<>>) = <<>> /\ ToText(<<>>) = <<>>
  <1>1. <<>> \in Text /\ Len(<<>>) = 0
    BY EmptySeq DEF Text
  <1>2. Len(Coded(<<>>)) = 0 /\ Coded(<<>>) \in Seq(Text) /\ ToBytes(<<>>) = FlattenSeq(Coded(<<>>))
    BY <1>1, CodedType
  <1>3. Len(Decoded(<<>>)) = 0 /\ Decoded(<<>>) \in Seq(Text) /\ ToText(<<>>) = FlattenSeq(Decoded(<<>>))
    BY <1>1, DecodedType
  <1>4. Coded(<<>>) = <<>> /\ Decoded(<<>>) = <<>>
    BY <1>2, <1>3, EmptySeq
  <1> QED
    BY <1>2, <1>3, <1>4, FlattenEmpty, Zenon

LEMMA ToBytesOneByte ==
    ASSUME NEW t \in Text, \A i \in 1..Len(t) : t[i] # "w"
    PROVE  ToBytes(t) = t
  <1>1. Coded(t) \in Seq(Text) /\ Len(Coded(t)) = Len(t) /\ ToBytes(t) = FlattenSeq(Coded(t))
    BY CodedType
  <1>2. \A i \in 1..Len(t) : Coded(t)[i] = <<t[i]>>
    BY DEF Coded, CharBytes
  <1> QED
    BY <1>1, <1>2, FlattenSingletons DEF Text

LEMMA ToTextOfCharacters ==
    ASSUME NEW t \in Text, \A i \in 1..Len(t) : t[i] \notin Halves
    PROVE  ToText(t) = t
  <1>1. Decoded(t) \in Seq(Text) /\ Len(Decoded(t)) = Len(t) /\ ToText(t) = FlattenSeq(Decoded(t))
    BY DecodedType
  <1>2. Pairs(t) = {}
    <2>1. \A i \in 1..(Len(t) - 1) : i \in 1..Len(t)
      BY LenProperties DEF Text
    <2> QED
      BY <2>1 DEF Pairs, Halves
  <1>3. \A i \in 1..Len(t) : Decoded(t)[i] = <<t[i]>>
    BY <1>2 DEF Decoded, DecodedAt, Halves
  <1> QED
    BY <1>1, <1>3, FlattenSingletons DEF Text

LEMMA ToTextConcat ==
    ASSUME NEW a \in Text, NEW b \in Text,
           (b # <<>> => b[1] # "w2") \/ (a # <<>> => a[Len(a)] # "w1")
    PROVE  ToText(a \o b) = ToText(a) \o ToText(b)
  <1> DEFINE c == a \o b
             p == Decoded(a)
             q == Decoded(b)
             r == Decoded(c)
  <1>1. /\ c \in Text /\ Len(c) = Len(a) + Len(b) /\ Len(a) \in Nat /\ Len(b) \in Nat
        /\ \A i \in 1..Len(c) : c[i] = IF i <= Len(a) THEN a[i] ELSE b[i - Len(a)]
    BY ConcatProperties DEF Text
  <1>2. /\ p \in Seq(Text) /\ Len(p) = Len(a) /\ ToText(a) = FlattenSeq(p)
        /\ q \in Seq(Text) /\ Len(q) = Len(b) /\ ToText(b) = FlattenSeq(q)
        /\ r \in Seq(Text) /\ Len(r) = Len(c) /\ ToText(c) = FlattenSeq(r)
    BY <1>1, DecodedType
  <1>3. /\ \A i \in 1..Len(a) : p[i] = DecodedAt(a, i)
        /\ \A i \in 1..Len(b) : q[i] = DecodedAt(b, i)
        /\ \A i \in 1..Len(c) : r[i] = DecodedAt(c, i)
    BY DEF Decoded
  <1> HIDE DEF c, p, q, r
  <1>4. ASSUME NEW i \in 0..Len(a) PROVE i \in Pairs(c) <=> i \in Pairs(a)
    <2>1. CASE i = 0
      BY <2>1 DEF Pairs
    <2>2. CASE i \in 1..(Len(a) - 1)
      <3>1. /\ i \in 1..Len(c) /\ i <= Len(a) /\ i + 1 \in 1..Len(c) /\ i + 1 <= Len(a)
            /\ i \in 1..(Len(c) - 1)
        BY <1>1, <2>2
      <3>2. c[i] = a[i] /\ c[i + 1] = a[i + 1]
        BY <1>1, <3>1, Zenon
      <3> QED
        BY <2>2, <3>1, <3>2 DEF Pairs
    <2>3. CASE i = Len(a) /\ i # 0
      <3>1. i \notin Pairs(a)
        BY <1>1, <2>3 DEF Pairs
      <3>2. CASE i \in 1..(Len(c) - 1)
        <4>1. i + 1 \in 1..Len(c) /\ ~(i + 1 <= Len(a)) /\ i + 1 - Len(a) = 1 /\ Len(b) # 0
          BY <1>1, <2>3, <3>2
        <4>2. c[i + 1] = b[1]
          BY <1>1, <4>1
        <4>3. c[i] = a[Len(a)] /\ a # <<>> /\ b # <<>>
          BY <1>1, <2>3, <3>2, <4>1, EmptySeq
        <4>4. b[1] # "w2" \/ a[Len(a)] # "w1"
          BY <4>3
        <4> QED
          BY <3>1, <4>2, <4>3, <4>4 DEF Pairs
      <3>3. CASE ~(i \in 1..(Len(c) - 1))
        BY <3>1, <3>3 DEF Pairs
      <3> QED
        BY <3>2, <3>3
    <2> QED
      BY <1>1, <2>1, <2>2, <2>3
  <1>5. ASSUME NEW j \in 0..Len(b) PROVE Len(a) + j \in Pairs(c) <=> j \in Pairs(b)
    <2>1. CASE j = 0
      <3>1. Len(a) \notin Pairs(a) /\ j \notin Pairs(b)
        BY <1>1, <2>1 DEF Pairs
      <3>2. Len(a) \in 0..Len(a) /\ Len(a) + j = Len(a)
        BY <1>1, <2>1
      <3> QED
        BY <1>4, <3>1, <3>2
    <2>2. CASE j \in 1..(Len(b) - 1)
      <3>1. /\ Len(a) + j \in 1..Len(c) /\ ~(Len(a) + j <= Len(a)) /\ Len(a) + j - Len(a) = j
            /\ Len(a) + j + 1 \in 1..Len(c) /\ ~(Len(a) + j + 1 <= Len(a))
            /\ Len(a) + j + 1 - Len(a) = j + 1
            /\ Len(a) + j \in 1..(Len(c) - 1)
        BY <1>1, <2>2
      <3>2. c[Len(a) + j] = b[j] /\ c[Len(a) + j + 1] = b[j + 1]
        BY <1>1, <3>1
      <3> QED
        BY <2>2, <3>1, <3>2 DEF Pairs
    <2>3. CASE j = Len(b)
      BY <1>1, <2>1, <2>3 DEF Pairs
    <2> QED
      BY <1>1, <2>1, <2>2, <2>3
  <1>6. ASSUME NEW i \in 1..Len(c) PROVE r[i] = IF i <= Len(a) THEN p[i] ELSE q[i - Len(a)]
    <2>1. CASE i <= Len(a)
      <3>1. i \in 1..Len(a) /\ i \in 0..Len(a) /\ i - 1 \in 0..Len(a)
        BY <1>1, <2>1
      <3>2. c[i] = a[i] /\ (i \in Pairs(c) <=> i \in Pairs(a)) /\ (i - 1 \in Pairs(c) <=> i - 1 \in Pairs(a))
        BY <1>1, <1>4, <2>1, <3>1
      <3>3. DecodedAt(c, i) = DecodedAt(a, i)
        BY <3>2, Zenon DEF DecodedAt
      <3> QED
        BY <1>3, <2>1, <3>1, <3>3
    <2>2. CASE ~(i <= Len(a))
      <3> DEFINE j == i - Len(a)
      <3>1. /\ j \in 1..Len(b) /\ j \in 0..Len(b) /\ j - 1 \in 0..Len(b)
            /\ Len(a) + j = i /\ Len(a) + (j - 1) = i - 1
        BY <1>1, <2>2
      <3>2. c[i] = b[j]
        BY <1>1, <2>2
      <3>3. (i \in Pairs(c) <=> j \in Pairs(b)) /\ (i - 1 \in Pairs(c) <=> j - 1 \in Pairs(b))
        <4> HIDE DEF j
        <4> QED
          BY <1>5, <3>1
      <3>4. DecodedAt(c, i) = DecodedAt(b, j)
        BY <3>2, <3>3, Zenon DEF DecodedAt
      <3>5. q[j] = DecodedAt(b, j)
        BY <1>3, <3>1
      <3> QED
        BY <1>3, <2>2, <3>4, <3>5
    <2> QED
      BY <2>1, <2>2
  <1>7. FlattenSeq(r) = FlattenSeq(p) \o FlattenSeq(q)
    <2>1. /\ p \in Seq(Seq(Alphabet)) /\ q \in Seq(Seq(Alphabet)) /\ r \in Seq(Seq(Alphabet))
          /\ Len(r) = Len(p) + Len(q)
          /\ \A i \in 1..Len(r) : r[i] = IF i <= Len(p) THEN p[i] ELSE q[i - Len(p)]
      BY <1>1, <1>2, <1>6, Zenon DEF Text
    <2> QED
      BY <2>1, FlattenJoin
  <1> QED
    BY <1>2, <1>7, Zenon DEF c

LEMMA ToTextOfCharBytes ==
    ASSUME NEW c \in Alphabet, c \notin Halves
    PROVE  /\ CharBytes(c) \in Text /\ CharBytes(c) # <<>> /\ CharBytes(c)[1] # "w2"
           /\ ToText(CharBytes(c)) = <<c>>
  <1>1. CASE c = "w"
    <2> DEFINE x == <<"w1", "w2">>
    <2>1. "w1" \in Alphabet /\ "w2" \in Alphabet /\ "w" \in Alphabet
      BY DEF Alphabet, Halves
    <2>2. x \in Text /\ Len(x) = 2 /\ x[1] = "w1" /\ x[2] = "w2" /\ x # <<>>
      BY <2>1, SmallSeqs DEF Text
    <2>3. CharBytes(c) = x
      BY <1>1 DEF CharBytes
    <2> HIDE DEF x
    <2>4. Pairs(x) = {1}
      BY <2>2 DEF Pairs
    <2>5. DecodedAt(x, 1) = <<"w">> /\ DecodedAt(x, 2) = <<>>
      BY <2>4 DEF DecodedAt
    <2>6. Decoded(x) = <<<<"w">>, <<>>>>
      BY <2>2, <2>5 DEF Decoded
    <2>7. ToText(x) = FlattenSeq(<<<<"w">>, <<>>>>)
      BY <2>2, <2>6, DecodedType, Zenon
    <2>8. FlattenSeq(<<<<"w">>, <<>>>>) = <<"w">>
      <3>1. <<"w">> \in Text /\ <<>> \in Text
        BY <2>1, SmallSeqs DEF Text
      <3>2. <<<<"w">>>> \in Seq(Text)
        BY <3>1, SmallSeqs
      <3>3. Append(<<<<"w">>>>, <<>>) = <<<<"w">>, <<>>>>
        BY <3>1, AppendToOne
      <3>4. FlattenSeq(Append(<<<<"w">>>>, <<>>)) = FlattenSeq(<<<<"w">>>>) \o <<>>
        BY <3>1, <3>2, FlattenAppend DEF Text
      <3>5. FlattenSeq(<<<<"w">>>>) = <<"w">>
        BY <3>1, FlattenOne DEF Text
      <3>6. <<"w">> \o <<>> = <<"w">>
        BY <3>1, ConcatEmptySeq DEF Text
      <3> QED
        BY <3>3, <3>4, <3>5, <3>6, Zenon
    <2> QED
      BY <1>1, <2>2, <2>3, <2>7, <2>8
  <1>2. CASE c # "w"
    <2> DEFINE x == <<c>>
    <2>1. CharBytes(c) = x
      BY <1>2 DEF CharBytes
    <2>2. x \in Text /\ Len(x) = 1 /\ x[1] = c /\ x # <<>>
      BY SmallSeqs DEF Text
    <2>3. c # "w2" /\ \A i \in 1..Len(x) : x[i] \notin Halves
      BY <2>2 DEF Halves
    <2> HIDE DEF x
    <2>4. ToText(x) = x
      BY <2>2, <2>3, ToTextOfCharacters
    <2> QED
      BY <2>1, <2>2, <2>3, <2>4 DEF x
  <1> QED
    BY <1>1, <1>2

LEMMA ToBytesOne ==
    ASSUME NEW c \in Alphabet
    PROVE  ToBytes(<<c>>) = CharBytes(c) /\ CharBytes(c) \in Text /\ CharBytes(c) # <<>>
  <1>1. CharBytes(c) \in Text
    BY CharBytesType
  <1>2. <<c>> \in Text
    BY SmallSeqs DEF Text
  <1>3. Coded(<<c>>) = <<CharBytes(c)>>
    BY DEF Coded
  <1>4. ToBytes(<<c>>) = FlattenSeq(<<CharBytes(c)>>)
    BY <1>2, <1>3, CodedType, Zenon
  <1>5. CharBytes(c) # <<>>
    BY DEF CharBytes
  <1> QED
    BY <1>1, <1>4, <1>5, FlattenOne DEF Text

LEMMA ToBytesNonempty ==
    ASSUME NEW t \in Text, t # <<>>
    PROVE  Len(ToBytes(t)) \in Nat \ {0}
  <1>1. PICK s \in Text, c \in Alphabet : t = Append(s, c)
    BY SequenceEmptyOrAppend DEF Text
  <1>2. t = s \o <<c>> /\ <<c>> \in Text
    BY <1>1, AppendIsConcat, SmallSeqs DEF Text
  <1>3. ToBytes(t) = ToBytes(s) \o CharBytes(c)
    BY <1>2, ToBytesConcat, ToBytesOne
  <1>4. ToBytes(s) \in Text /\ CharBytes(c) \in Text /\ CharBytes(c) # <<>>
    BY ToBytesType, ToBytesOne
  <1> DEFINE x == ToBytes(s)
             y == CharBytes(c)
  <1>5. x \in Text /\ y \in Text /\ y # <<>>
    BY <1>4
  <1> HIDE DEF x, y
  <1>6. Len(x \o y) \in Nat \ {0}
    BY <1>5, ConcatProperties, EmptySeq DEF Text
  <1> QED
    BY <1>3, <1>6 DEF x, y

LEMMA ToTextOfBytes ==
    ASSUME NEW t \in Text, \A i \in 1..Len(t) : t[i] \notin Halves
    PROVE  ToText(ToBytes(t)) = t
  <1> DEFINE first(k) == SubSeq(t, 1, k)
             T == {n \in 0..Len(t) : ToText(ToBytes(first(n))) = first(n)}
  <1>0. Len(t) \in Nat
    BY LenProperties DEF Text
  <1>1. 0 \in T
    <2>1. first(0) = <<>>
      BY SubSeqEmpty
    <2>2. ToText(ToBytes(first(0))) = first(0)
      BY <2>1, ToBytesEmpty, Zenon
    <2>3. 0 \in 0..Len(t)
      BY <1>0
    <2> QED
      BY <2>2, <2>3, Zenon
  <1>2. ASSUME NEW n \in 0..(Len(t) - 1), n \in T PROVE n + 1 \in T
    <2>0. n \in Nat /\ n + 1 \in 0..Len(t) /\ n + 1 <= Len(t) /\ n + 1 \in 1..Len(t)
      BY <1>0
    <2>1. ToText(ToBytes(first(n))) = first(n)
      BY <1>2
    <2> SUFFICES ToText(ToBytes(first(n + 1))) = first(n + 1)
      BY <2>0
    <2>2. /\ first(n) \in Text /\ t[n + 1] \in Alphabet /\ t[n + 1] \notin Halves
          /\ first(n + 1) = Append(first(n), t[n + 1])
      BY <2>0, SubSeqAppend DEF Text
    <2> HIDE DEF first, T
    <2> DEFINE c == t[n + 1]
    <2>3. first(n + 1) = first(n) \o <<c>> /\ <<c>> \in Text
      BY <2>2, AppendIsConcat, SmallSeqs DEF Text
    <2> HIDE DEF c
    <2>4. ToBytes(first(n + 1)) = ToBytes(first(n)) \o ToBytes(<<c>>)
      BY <2>2, <2>3, ToBytesConcat
    <2>5. ToBytes(<<c>>) = CharBytes(c)
      BY <2>2, ToBytesOne DEF c
    <2>6. /\ CharBytes(c) \in Text /\ CharBytes(c) # <<>> /\ CharBytes(c)[1] # "w2"
          /\ ToText(CharBytes(c)) = <<c>>
      BY <2>2, ToTextOfCharBytes DEF c
    <2>7. ToBytes(first(n)) \in Text
      BY <2>2, ToBytesType
    <2>8. ToText(ToBytes(first(n)) \o CharBytes(c)) = ToText(ToBytes(first(n))) \o ToText(CharBytes(c))
      BY <2>6, <2>7, ToTextConcat
    <2> QED
      BY <2>1, <2>3, <2>4, <2>5, <2>6, <2>8, Zenon
  <1>3. Len(t) \in T
    <2> HIDE DEF T
    <2> QED
      BY <1>0, <1>1, <1>2, BoundedInduction
  <1>4. first(Len(t)) = t
    BY SubSeqFull DEF Text
  <1> QED
    BY <1>3, <1>4

-----------------------------------------------------------------------------
(* What the sender writes.                                                 *)

\* The frames the connection may carry.
Sendable == {f \in Frame : channel \in {"pipe", "native"} => f.kind = "msg"}

\* The bytes of a frame, and of the first k frames.
Coding(f) == ToBytes(FrameText(f))
Upto(k) == ToBytes(TextOf(SubSeq(frames, 1, k)))

LEMMA BodyType ==
    ASSUME NEW body \in Bodies
    PROVE  /\ body \in Text
           /\ \A i \in 1..Len(body) : body[i] \notin Control \cup Halves
           /\ Len(ToBytes(body)) \in Nat \ {0}
           /\ Digit[Len(ToBytes(body))] \in Letters \ {"w"}
           /\ Sizes(Digit[Len(ToBytes(body))]) = {Len(ToBytes(body))}
  <1>1. body \in Seq(Letters)
    BY FramingAssumption
  <1>2. body \in Text
    <2>1. Letters \subseteq Alphabet
      BY DEF Alphabet
    <2> QED
      BY <1>1, <2>1, SeqMonotonic DEF Text
  <1>3. \A i \in 1..Len(body) : body[i] \notin Control \cup Halves
    <2>1. \A i \in 1..Len(body) : body[i] \in Letters
      BY <1>1, ElementOfSeq
    <2>2. Letters \cap (Control \cup Halves) = {}
      BY FramingAssumption
    <2> QED
      BY <2>1, <2>2
  <1> DEFINE n == Len(ToBytes(body))
  <1>4. /\ n \in DOMAIN Digit /\ Digit \in Seq(Letters \ {"w"})
        /\ \A k, m \in DOMAIN Digit : Digit[k] = Digit[m] => k = m
    BY FramingAssumption
  <1> HIDE DEF n
  <1>5. n \in Nat \ {0} /\ Digit[n] \in Letters \ {"w"}
    BY <1>4
  <1>6. Sizes(Digit[n]) = {n}
    BY <1>4 DEF Sizes
  <1> QED
    BY <1>2, <1>3, <1>5, <1>6 DEF n

LEMMA FrameTextType ==
    ASSUME NEW f \in Sendable
    PROVE  FrameText(f) \in Text /\ FrameText(f) # <<>>
  <1>0. /\ "MSG" \in Alphabet /\ "PING" \in Alphabet /\ "INFO" \in Alphabet /\ "0" \in Alphabet
        /\ "CR" \in Alphabet /\ "LF" \in Alphabet /\ "NUL" \in Alphabet
    BY DEF Alphabet, Control
  <1>1. CRLF \in Text /\ CRLF # <<>>
    BY <1>0, SmallSeqs DEF CRLF, Text
  <1>2. \A x, y \in Text : x \o y \in Text /\ (y # <<>> => x \o y # <<>>)
    <2>1. ASSUME NEW x \in Text, NEW y \in Text PROVE x \o y \in Text /\ (y # <<>> => x \o y # <<>>)
      BY ConcatProperties, ConcatEqualIffEmpty DEF Text
    <2> QED
      BY <2>1
  <1>3. CASE f.kind = "msg"
    <2>1. f.body \in Bodies
      BY <1>3 DEF Sendable, Frame
    <2>2. f.body \in Text /\ Digit[Len(ToBytes(f.body))] \in Letters
      BY <2>1, BodyType
    <2> DEFINE d == Digit[Len(ToBytes(f.body))]
    <2>3. d \in Alphabet
      BY <2>2 DEF Alphabet
    <2> HIDE DEF d
    <2>4. Append(f.body, "NUL") \in Text /\ Append(f.body, "NUL") # <<>>
      BY <1>0, <2>2, AppendProperties DEF Text
    <2>5. <<d, "0", "0", "0">> \in Text /\ <<d, "0", "0", "0">> # <<>>
      BY <1>0, <2>3, FourSeq DEF Text
    <2>6. <<d, "0", "0", "0">> \o f.body \in Text /\ <<d, "0", "0", "0">> \o f.body # <<>>
      BY <2>2, <2>5, ConcatProperties, ConcatEqualIffEmpty DEF Text
    <2>7. <<"MSG", d>> \in Text
      BY <1>0, <2>3, SmallSeqs DEF Text
    <2>8. <<"MSG", d>> \o CRLF \in Text
      BY <1>1, <1>2, <2>7
    <2>9. (<<"MSG", d>> \o CRLF) \o f.body \in Text
      BY <1>2, <2>2, <2>8
    <2>10. ((<<"MSG", d>> \o CRLF) \o f.body) \o CRLF \in Text
      BY <1>1, <1>2, <2>9
    <2>11. ((<<"MSG", d>> \o CRLF) \o f.body) \o CRLF # <<>>
      BY <1>1, <1>2, <2>9
    <2>12. FrameText(f) \in {Append(f.body, "NUL"), <<d, "0", "0", "0">> \o f.body,
                             ((<<"MSG", d>> \o CRLF) \o f.body) \o CRLF}
      <3> HIDE DEF CRLF
      <3> QED
        BY <1>3, Zenon DEF FrameText, ProtocolText, d
    <2> QED
      BY <2>4, <2>6, <2>10, <2>11, <2>12, Zenon
  <1>4. CASE f.kind \in {"ping", "info"}
    <2>1. channel # "pipe" /\ channel # "native" /\ f.kind # "msg"
      BY <1>4 DEF Sendable, Frame
    <2>2. FrameText(f) \in {<<"PING">> \o CRLF, <<"INFO">> \o CRLF}
      BY <1>4, <2>1 DEF FrameText, ProtocolText
    <2>3. <<"PING">> \in Text /\ <<"INFO">> \in Text
      BY <1>0, SmallSeqs DEF Text
    <2> QED
      BY <1>1, <1>2, <2>2, <2>3, Zenon
  <1> QED
    BY <1>3, <1>4 DEF Sendable, Frame

LEMMA TextOfConcat ==
    ASSUME NEW a \in Seq(Sendable), NEW b \in Seq(Sendable), NEW c \in Seq(Sendable),
           Joined(a, b, c)
    PROVE  /\ TextOf(a) \in Text /\ TextOf(b) \in Text
           /\ TextOf(c) = TextOf(a) \o TextOf(b)
  <1> DEFINE M == [f \in Sendable |-> FrameText(f)]
  <1>1. M \in Maps(Sendable, Text)
    BY FrameTextType DEF Maps
  <1>2. ASSUME NEW fs \in Seq(Sendable)
        PROVE  TextOf(fs) = FlattenSeq(Mapped(M, fs))
    <2>1. \A i \in 1..Len(fs) : fs[i] \in Sendable
      BY LenProperties
    <2>2. Mapped(M, fs) = [i \in 1..Len(fs) |-> FrameText(fs[i])]
      BY <2>1 DEF Mapped
    <2> QED
      BY <2>2, Zenon DEF TextOf
  <1> HIDE DEF M
  <1>3. ASSUME NEW fs \in Seq(Sendable)
        PROVE  FlattenSeq(Mapped(M, fs)) \in Text
    <2>1. Mapped(M, fs) \in Seq(Text)
      BY <1>1, MappedType
    <2> QED
      BY <2>1, FlattenType DEF Text
  <1>4. FlattenSeq(Mapped(M, c)) = FlattenSeq(Mapped(M, a)) \o FlattenSeq(Mapped(M, b))
    <2>1. M \in Maps(Sendable, Seq(Alphabet))
      BY <1>1 DEF Text
    <2> QED
      BY <2>1, MapConcat
  <1> QED
    BY <1>2, <1>3, <1>4, Zenon

LEMMA TextOfOne ==
    ASSUME NEW f \in Sendable
    PROVE  TextOf(<<f>>) = FrameText(f)
  <1>1. [i \in 1..Len(<<f>>) |-> FrameText(<<f>>[i])] = <<FrameText(f)>>
    OBVIOUS
  <1>2. TextOf(<<f>>) = FlattenSeq(<<FrameText(f)>>)
    BY <1>1, Zenon DEF TextOf
  <1> QED
    BY <1>2, FrameTextType, FlattenOne DEF Text

\* The bytes of two sequences of frames, one after the other.
LEMMA BytesOfConcat ==
    ASSUME NEW a \in Seq(Sendable), NEW b \in Seq(Sendable), NEW c \in Seq(Sendable),
           Joined(a, b, c)
    PROVE  /\ ToBytes(TextOf(a)) \in Text /\ ToBytes(TextOf(b)) \in Text
           /\ ToBytes(TextOf(c)) = ToBytes(TextOf(a)) \o ToBytes(TextOf(b))
  <1>1. /\ TextOf(a) \in Text /\ TextOf(b) \in Text
        /\ TextOf(c) = TextOf(a) \o TextOf(b)
    BY TextOfConcat
  <1> QED
    BY <1>1, ToBytesConcat, ToBytesType, Zenon

LEMMA StreamEnds ==
    ASSUME frames \in Seq(Sendable)
    PROVE  /\ Upto(0) = <<>> /\ Upto(Len(frames)) = Stream
           /\ \A k \in 0..Len(frames) : Upto(k) \in Text
           /\ Stream \in Text
  <1>1. ASSUME NEW k \in 0..Len(frames) PROVE Upto(k) \in Text
    <2> DEFINE a == SubSeq(frames, 1, k)
    <2>1. a \in Seq(Sendable)
      <3>1. \A i \in 1..k : frames[i] \in Sendable
        BY LenProperties
      <3> QED
        BY <3>1, SubSeqProperties
    <2>2. <<>> \in Seq(Sendable) /\ Len(<<>>) = 0
      BY EmptySeq
    <2> HIDE DEF a
    <2>3. Len(a) = Len(a) + Len(<<>>)
      BY <2>1, <2>2
    <2>4. \A i \in 1..Len(a) : a[i] = IF i <= Len(a) THEN a[i] ELSE <<>>[i - Len(a)]
      BY <2>1
    <2>5. ToBytes(TextOf(a)) \in Text
      BY <2>1, <2>2, <2>3, <2>4, BytesOfConcat DEF Joined
    <2> QED
      BY <2>5 DEF Upto, a
  <1>2. SubSeq(frames, 1, 0) = <<>> /\ SubSeq(frames, 1, Len(frames)) = frames
    BY SubSeqEmpty, SubSeqFull
  <1>3. TextOf(<<>>) = <<>>
    <2>1. [i \in 1..Len(<<>>) |-> FrameText(<<>>[i])] = <<>>
      OBVIOUS
    <2> QED
      BY <2>1, FlattenEmpty, Zenon DEF TextOf
  <1>4. Upto(0) = <<>> /\ Upto(Len(frames)) = Stream
    BY <1>2, <1>3, ToBytesEmpty, Zenon DEF Upto, Stream
  <1>5. Len(frames) \in 0..Len(frames)
    BY LenProperties
  <1> QED
    BY <1>1, <1>4, <1>5

\* A frame in the stream: what it takes, and where.
LEMMA StreamAt ==
    ASSUME frames \in Seq(Sendable), NEW k \in 0..(Len(frames) - 1)
    PROVE  LET code == Coding(frames[k + 1])
           IN  /\ frames[k + 1] \in Sendable /\ code \in Text /\ Len(code) > 0
               /\ Len(Upto(k + 1)) = Len(Upto(k)) + Len(code)
               /\ Len(Upto(k + 1)) <= Len(Stream)
               /\ \A j \in 1..Len(code) : Stream[Len(Upto(k)) + j] = code[j]
  <1> DEFINE n == Len(frames)
             f == frames[k + 1]
             a == SubSeq(frames, 1, k)
             o == <<f>>
             c == SubSeq(frames, 1, k + 1)
             e == SubSeq(frames, k + 2, n)
  <1>1. n \in Nat /\ k \in Nat /\ k + 1 <= n /\ \A i \in 1..n : frames[i] \in Sendable
    BY LenProperties
  <1>2. f \in Sendable
    BY <1>1
  <1>3. /\ a \in Seq(Sendable) /\ Len(a) = k /\ \A i \in 1..k : a[i] = frames[i]
        /\ c \in Seq(Sendable) /\ Len(c) = k + 1 /\ \A i \in 1..(k + 1) : c[i] = frames[i]
    <2>1. (\A i \in 1..k : frames[i] \in Sendable) /\ (\A i \in 1..(k + 1) : frames[i] \in Sendable)
      BY <1>1
    <2> QED
      BY <1>1, <2>1, SubSeqProperties
  <1>4. e \in Seq(Sendable) /\ Len(e) = n - (k + 1) /\ \A i \in 1..(n - (k + 1)) : e[i] = frames[k + 1 + i]
    <2>1. \A i \in (k + 2)..n : frames[i] \in Sendable
      BY <1>1
    <2> QED
      BY <1>1, <2>1, SubSeqProperties
  <1>5. o \in Seq(Sendable) /\ Len(o) = 1 /\ o[1] = f
    BY <1>2, SmallSeqs
  <1> HIDE DEF a, c, e, o
  <1>6. Upto(k + 1) = Upto(k) \o Coding(f) /\ Upto(k) \in Text /\ Coding(f) \in Text
    <2>1. Len(c) = Len(a) + Len(o) /\ \A i \in 1..Len(c) : c[i] = IF i <= Len(a) THEN a[i] ELSE o[i - Len(a)]
      BY <1>1, <1>3, <1>5
    <2>2. /\ ToBytes(TextOf(a)) \in Text /\ ToBytes(TextOf(o)) \in Text
          /\ ToBytes(TextOf(c)) = ToBytes(TextOf(a)) \o ToBytes(TextOf(o))
      BY <1>3, <1>5, <2>1, BytesOfConcat DEF Joined
    <2>3. TextOf(o) = FrameText(f)
      BY <1>2, TextOfOne DEF o
    <2> QED
      BY <2>2, <2>3, Zenon DEF Upto, Coding, a, c
  <1>7. Stream = Upto(k + 1) \o ToBytes(TextOf(e)) /\ Upto(k + 1) \in Text /\ ToBytes(TextOf(e)) \in Text
    <2>1. /\ Len(frames) = Len(c) + Len(e)
          /\ \A i \in 1..Len(frames) : frames[i] = IF i <= Len(c) THEN c[i] ELSE e[i - Len(c)]
      BY <1>1, <1>3, <1>4
    <2>2. /\ ToBytes(TextOf(c)) \in Text /\ ToBytes(TextOf(e)) \in Text
          /\ ToBytes(TextOf(frames)) = ToBytes(TextOf(c)) \o ToBytes(TextOf(e))
      BY <1>3, <1>4, <2>1, BytesOfConcat DEF Joined
    <2> QED
      BY <2>2, Zenon DEF Upto, Stream, c
  <1> DEFINE x == Upto(k)
             y == Coding(f)
             z == Upto(k + 1)
             w == ToBytes(TextOf(e))
  <1>8. y \in Text /\ Len(y) > 0
    <2>1. Len(y) \in Nat \ {0}
      BY <1>2, FrameTextType, ToBytesNonempty DEF Coding
    <2> QED
      BY <1>6, <2>1
  <1>9. x \in Text /\ y \in Text /\ z = x \o y /\ z \in Text /\ w \in Text /\ Stream = z \o w
    BY <1>6, <1>7
  <1> HIDE DEF f, x, y, z, w
  <1>10. /\ Len(x) \in Nat /\ Len(y) \in Nat /\ Len(w) \in Nat
         /\ Len(z) = Len(x) + Len(y)
         /\ \A i \in 1..(Len(x) + Len(y)) : z[i] = IF i <= Len(x) THEN x[i] ELSE y[i - Len(x)]
    BY <1>9, ConcatProperties DEF Text
  <1>11. /\ Len(Stream) = Len(z) + Len(w)
         /\ \A i \in 1..(Len(z) + Len(w)) : Stream[i] = IF i <= Len(z) THEN z[i] ELSE w[i - Len(z)]
    BY <1>9, ConcatProperties DEF Text
  <1>12. ASSUME NEW j \in 1..Len(y) PROVE Stream[Len(x) + j] = y[j]
    <2>1. /\ Len(x) + j \in 1..(Len(z) + Len(w)) /\ Len(x) + j <= Len(z)
          /\ Len(x) + j \in 1..(Len(x) + Len(y)) /\ ~(Len(x) + j <= Len(x))
          /\ Len(x) + j - Len(x) = j
      BY <1>10, <1>11
    <2>2. Stream[Len(x) + j] = z[Len(x) + j]
      BY <1>11, <2>1
    <2>3. z[Len(x) + j] = y[j]
      BY <1>10, <2>1
    <2> QED
      BY <2>2, <2>3
  <1>13. Len(z) <= Len(Stream)
    BY <1>10, <1>11
  <1> QED
    BY <1>2, <1>8, <1>10, <1>12, <1>13, Zenon DEF x, y, z, f

-----------------------------------------------------------------------------
(* The bytes of each kind of frame.                                        *)

\* The messages and the PINGs a frame is worth.
BodyOf(f) == IF f.kind = "msg" THEN <<f.body>> ELSE <<>>
PingOf(f) == IF f.kind = "ping" THEN 1 ELSE 0

\* Bodies that are read as they were written.
Legible(f) == channel = "native" \/ "w" \notin ToSet(f.body)

LEMMA OneByteBody ==
    ASSUME NEW f \in Sendable, f.kind = "msg", Legible(f), channel # "native"
    PROVE  /\ f.body \in Bodies /\ f.body \in Text /\ Len(f.body) \in Nat \ {0}
           /\ \A i \in 1..Len(f.body) :
                f.body[i] # "w" /\ f.body[i] \notin Control /\ f.body[i] \notin Halves
           /\ ToBytes(f.body) = f.body
  <1>1. f.body \in Bodies
    BY DEF Sendable, Frame
  <1>2. /\ f.body \in Text /\ \A i \in 1..Len(f.body) : f.body[i] \notin Control \cup Halves
        /\ Len(ToBytes(f.body)) \in Nat \ {0}
    BY <1>1, BodyType
  <1>3. \A i \in 1..Len(f.body) : f.body[i] # "w"
    <2>1. "w" \notin ToSet(f.body)
      BY DEF Legible
    <2>2. DOMAIN f.body = 1..Len(f.body)
      BY <1>2, LenProperties DEF Text
    <2> QED
      BY <2>1, <2>2 DEF ToSet
  <1>4. ToBytes(f.body) = f.body
    BY <1>2, <1>3, ToBytesOneByte
  <1> QED
    BY <1>1, <1>2, <1>3, <1>4

LEMMA PipeBytes ==
    ASSUME NEW f \in Sendable, channel = "pipe"
    PROVE  LET code == Coding(f)
               bytes == ToBytes(f.body)
               n == Len(bytes)
           IN  /\ f.kind = "msg" /\ Len(code) = n + 1 /\ code[n + 1] = "NUL"
               /\ \A i \in 1..n : code[i] = bytes[i]
  <1> DEFINE body == f.body
             bytes == ToBytes(body)
             n == Len(bytes)
             nul == <<"NUL">>
             t == bytes \o nul
  <1>1. f.kind = "msg" /\ body \in Bodies
    BY DEF Sendable, Frame
  <1>2. body \in Text /\ n \in Nat
    BY <1>1, BodyType
  <1>3. bytes \in Text
    BY <1>2, ToBytesType
  <1>4. nul \in Text /\ Len(nul) = 1 /\ nul[1] = "NUL" /\ "NUL" \in Alphabet
    BY SmallSeqs DEF Text, Alphabet, Control
  <1>5. FrameText(f) = body \o nul
    <2>1. FrameText(f) = Append(body, "NUL")
      BY DEF FrameText
    <2>2. Append(body, "NUL") = body \o nul
      BY <1>2, <1>4, AppendIsConcat DEF Text
    <2> QED
      BY <2>1, <2>2, Zenon
  <1> HIDE DEF body, nul
  <1>6. ToBytes(nul) = nul
    BY <1>4, ToBytesOneByte
  <1>7. Coding(f) = t
    <2>1. ToBytes(body \o nul) = ToBytes(body) \o ToBytes(nul)
      BY <1>2, <1>4, ToBytesConcat
    <2> QED
      BY <1>5, <1>6, <2>1, Zenon DEF Coding
  <1> HIDE DEF bytes
  <1>8. /\ t \in Text /\ Len(t) = n + Len(nul)
        /\ \A i \in 1..n : t[i] = bytes[i]
        /\ \A i \in 1..Len(nul) : t[n + i] = nul[i]
    BY <1>2, <1>3, <1>4, TextConcat, ZenonT(60)
  <1>9. Len(t) = n + 1 /\ t[n + 1] = "NUL"
    BY <1>4, <1>8
  <1> HIDE DEF t, n
  <1> QED
    BY <1>1, <1>7, <1>8, <1>9, Zenon DEF n, bytes, body

LEMMA PipeCoding ==
    ASSUME NEW f \in Sendable, Legible(f), channel = "pipe"
    PROVE  LET code == Coding(f)
               n == Len(f.body)
           IN  /\ f.kind = "msg" /\ Len(code) = n + 1 /\ code[n + 1] = "NUL"
               /\ \A i \in 1..n : code[i] = f.body[i]
  <1>1. f.kind = "msg"
    BY PipeBytes, Zenon
  <1>2. ToBytes(f.body) = f.body
    BY <1>1, OneByteBody
  <1> QED
    BY <1>2, PipeBytes, Zenon

LEMMA NativeCoding ==
    ASSUME NEW f \in Sendable, channel = "native"
    PROVE  LET code == Coding(f)
               bytes == ToBytes(f.body)
               n == Len(bytes)
           IN  /\ f.kind = "msg" /\ Len(code) = n + 4 /\ code[1] = Digit[n]
               /\ \A i \in 1..n : code[4 + i] = bytes[i]
  <1>1. f.kind = "msg" /\ f.body \in Bodies
    BY DEF Sendable, Frame
  <1> DEFINE body == f.body
             bytes == ToBytes(body)
             d == Digit[Len(bytes)]
             head == <<d, "0", "0", "0">>
  <1>2. body \in Text /\ d \in Letters /\ d # "w"
    BY <1>1, BodyType
  <1>3. bytes \in Text
    BY <1>2, ToBytesType
  <1>4. FrameText(f) = head \o body
    BY Zenon DEF FrameText
  <1> HIDE DEF d
  <1>5. d \in Alphabet /\ "0" \in Alphabet /\ d # "w"
    BY <1>2 DEF Alphabet
  <1>6. head \in Text /\ Len(head) = 4 /\ head[1] = d /\ \A i \in 1..Len(head) : head[i] # "w"
    BY <1>5, FourSeq DEF Text
  <1> HIDE DEF head
  <1>7. ToBytes(head) = head
    BY <1>6, ToBytesOneByte
  <1>8. ToBytes(head \o body) = ToBytes(head) \o ToBytes(body)
    BY <1>2, <1>6, ToBytesConcat
  <1>9. Coding(f) = head \o bytes
    BY <1>4, <1>7, <1>8, Zenon DEF Coding
  <1> HIDE DEF bytes, body
  <1> DEFINE code == Coding(f)
  <1>10. /\ Len(head \o bytes) = 4 + Len(bytes) /\ Len(bytes) \in Nat
         /\ \A i \in 1..4 : (head \o bytes)[i] = head[i]
         /\ \A i \in 1..Len(bytes) : (head \o bytes)[4 + i] = bytes[i]
    <2>1. 4 \in Nat
      OBVIOUS
    <2> QED
      BY <1>3, <1>6, <2>1, TextConcat, ZenonT(60)
  <1>11. /\ Len(code) = 4 + Len(bytes)
         /\ \A i \in 1..4 : code[i] = head[i]
         /\ \A i \in 1..Len(bytes) : code[4 + i] = bytes[i]
    BY <1>9, <1>10, Zenon
  <1> HIDE DEF code
  <1>12. code[1] = d /\ Len(code) = Len(bytes) + 4
    BY <1>6, <1>10, <1>11
  <1> QED
    BY <1>1, <1>11, <1>12, Zenon DEF code, bytes, body, d

LEMMA CRLFType == CRLF \in Text /\ Len(CRLF) = 2 /\ CRLF[1] = "CR" /\ CRLF[2] = "LF"
  <1>1. "CR" \in Alphabet /\ "LF" \in Alphabet
    BY DEF Alphabet, Control
  <1> QED
    BY <1>1, SmallSeqs DEF CRLF, Text

LEMMA MessageBytes ==
    ASSUME NEW f \in Sendable, channel \notin {"pipe", "native"}, f.kind = "msg"
    PROVE  LET code == Coding(f)
               bytes == ToBytes(f.body)
               n == Len(bytes)
           IN  /\ Len(code) = n + 6
               /\ code[1] = "MSG" /\ code[2] = Digit[n] /\ code[3] = "CR" /\ code[4] = "LF"
               /\ \A i \in 1..n : code[4 + i] = bytes[i]
               /\ code[n + 5] = "CR" /\ code[n + 6] = "LF"
  <1> DEFINE body == f.body
             bytes == ToBytes(body)
             n == Len(bytes)
             d == Digit[n]
             h1 == <<"MSG", d>>
             h2 == h1 \o CRLF
             h3 == h2 \o body
             b3 == h2 \o bytes
             t == b3 \o CRLF
  <1>1. body \in Bodies
    BY DEF Sendable, Frame
  <1>2. body \in Text /\ n \in Nat \ {0} /\ d \in Letters /\ d # "w"
    BY <1>1, BodyType
  <1>3. bytes \in Text
    BY <1>2, ToBytesType
  <1>4. FrameText(f) = h3 \o CRLF
    BY Zenon DEF FrameText, ProtocolText
  <1> HIDE DEF body, d
  <1>5. h1 \in Text /\ Len(h1) = 2 /\ h1[1] = "MSG" /\ h1[2] = d
    <2>1. "MSG" \in Alphabet /\ d \in Alphabet
      BY <1>2 DEF Alphabet
    <2> QED
      BY <2>1, SmallSeqs DEF Text
  <1>6. 2 \in Nat /\ 4 \in Nat /\ 4 + n \in Nat /\ 2 + 2 = 4 /\ 4 + n + 2 = n + 6
    BY <1>2
  <1> HIDE DEF h1
  <1>7. /\ h2 \in Text /\ Len(h2) = 2 + Len(CRLF)
        /\ \A i \in 1..2 : h2[i] = h1[i]
        /\ \A i \in 1..Len(CRLF) : h2[2 + i] = CRLF[i]
    BY <1>5, <1>6, CRLFType, TextConcat, ZenonT(60)
  <1> HIDE DEF h2
  <1>8. h2 \in Text /\ Len(h2) = 4 /\ h2[1] = "MSG" /\ h2[2] = d /\ h2[3] = "CR" /\ h2[4] = "LF"
    BY <1>5, <1>7, CRLFType
  <1>9. ToBytes(h2) = h2 /\ ToBytes(CRLF) = CRLF
    <2>1. \A i \in 1..Len(h2) : h2[i] # "w"
      <3>1. \A i \in 1..Len(h2) : i \in {1, 2, 3, 4}
        BY <1>8
      <3> QED
        BY <1>2, <1>8, <3>1
    <2>2. \A i \in 1..Len(CRLF) : CRLF[i] # "w"
      BY CRLFType
    <2> QED
      BY <1>8, <2>1, <2>2, CRLFType, ToBytesOneByte
  <1>10. Coding(f) = t
    <2>1. ToBytes(h3) = h2 \o bytes
      <3>1. ToBytes(h3) = ToBytes(h2) \o ToBytes(body)
        BY <1>2, <1>8, ToBytesConcat
      <3> QED
        BY <1>9, <3>1, Zenon
    <2>2. h3 \in Text
      BY <1>2, <1>8, TextConcat
    <2>3. ToBytes(h3 \o CRLF) = ToBytes(h3) \o ToBytes(CRLF)
      BY <2>2, CRLFType, ToBytesConcat
    <2> QED
      BY <1>4, <1>9, <2>1, <2>3, Zenon DEF Coding
  <1> HIDE DEF bytes
  <1>11. /\ b3 \in Text /\ Len(b3) = 4 + Len(bytes)
         /\ \A i \in 1..4 : b3[i] = h2[i]
         /\ \A i \in 1..Len(bytes) : b3[4 + i] = bytes[i]
    BY <1>3, <1>6, <1>8, TextConcat, ZenonT(60)
  <1> HIDE DEF b3
  <1>12. /\ b3 \in Text /\ Len(b3) = 4 + n
         /\ b3[1] = "MSG" /\ b3[2] = d /\ b3[3] = "CR" /\ b3[4] = "LF"
         /\ \A i \in 1..n : b3[4 + i] = bytes[i]
    BY <1>8, <1>11
  <1> HIDE DEF n
  <1>13. /\ t \in Text /\ Len(t) = 4 + n + Len(CRLF)
         /\ \A i \in 1..(4 + n) : t[i] = b3[i]
         /\ \A i \in 1..Len(CRLF) : t[4 + n + i] = CRLF[i]
    BY <1>6, <1>12, CRLFType, TextConcat, ZenonT(60)
  <1> HIDE DEF t
  <1>14. /\ Len(t) = n + 6
         /\ t[1] = "MSG" /\ t[2] = d /\ t[3] = "CR" /\ t[4] = "LF"
         /\ \A i \in 1..n : t[4 + i] = bytes[i]
         /\ t[n + 5] = "CR" /\ t[n + 6] = "LF"
    <2>1. 1 \in 1..(4 + n) /\ 2 \in 1..(4 + n) /\ 3 \in 1..(4 + n) /\ 4 \in 1..(4 + n)
      BY <1>2
    <2>2. ASSUME NEW i \in 1..n PROVE t[4 + i] = bytes[i]
      <3>1. 4 + i \in 1..(4 + n)
        BY <1>2
      <3> QED
        BY <1>12, <1>13, <3>1
    <2>3. 1 \in 1..Len(CRLF) /\ 2 \in 1..Len(CRLF) /\ 4 + n + 1 = n + 5 /\ 4 + n + 2 = n + 6
      BY <1>2, CRLFType
    <2>4. t[n + 5] = "CR" /\ t[n + 6] = "LF"
      BY <1>13, <2>3, CRLFType
    <2> QED
      BY <1>6, <1>12, <1>13, <2>1, <2>2, <2>4, CRLFType
  <1> QED
    BY <1>10, <1>14, Zenon DEF bytes, body, n, d

LEMMA MessageCoding ==
    ASSUME NEW f \in Sendable, Legible(f), channel \notin {"pipe", "native"}, f.kind = "msg"
    PROVE  LET code == Coding(f)
               n == Len(f.body)
           IN  /\ Len(code) = n + 6
               /\ code[1] = "MSG" /\ code[2] = Digit[n] /\ code[3] = "CR" /\ code[4] = "LF"
               /\ \A i \in 1..n : code[4 + i] = f.body[i]
               /\ code[n + 5] = "CR" /\ code[n + 6] = "LF"
  <1>1. ToBytes(f.body) = f.body
    BY OneByteBody
  <1> QED
    BY <1>1, MessageBytes, ZenonT(30)

LEMMA ControlCoding ==
    ASSUME NEW f \in Sendable, f.kind # "msg"
    PROVE  LET code == Coding(f)
           IN  /\ channel \notin {"pipe", "native"} /\ f.kind \in {"ping", "info"}
               /\ Len(code) = 3 /\ code[1] = IF f.kind = "ping" THEN "PING" ELSE "INFO"
               /\ code[2] = "CR" /\ code[3] = "LF"
  <1> DEFINE w == IF f.kind = "ping" THEN "PING" ELSE "INFO"
             h == <<w>>
             t == h \o CRLF
  <1>1. channel \notin {"pipe", "native"} /\ f.kind \in {"ping", "info"}
    BY DEF Sendable, Frame
  <1>2. FrameText(f) = t
    BY <1>1 DEF FrameText, ProtocolText
  <1>3. w \in Alphabet /\ w # "w"
    BY DEF Alphabet
  <1> HIDE DEF w
  <1>4. h \in Text /\ Len(h) = 1 /\ h[1] = w
    BY <1>3, SmallSeqs DEF Text
  <1>5. 1 \in Nat
    OBVIOUS
  <1> HIDE DEF h
  <1>6. /\ t \in Text /\ Len(t) = 1 + Len(CRLF)
        /\ \A i \in 1..1 : t[i] = h[i]
        /\ \A i \in 1..Len(CRLF) : t[1 + i] = CRLF[i]
    BY <1>4, <1>5, CRLFType, TextConcat, ZenonT(60)
  <1> HIDE DEF t
  <1>7. Len(t) = 3 /\ t[1] = w /\ t[2] = "CR" /\ t[3] = "LF"
    BY <1>4, <1>6, CRLFType
  <1>8. \A i \in 1..Len(t) : t[i] # "w"
    BY <1>3, <1>7
  <1>9. Coding(f) = t
    BY <1>2, <1>6, <1>8, ToBytesOneByte DEF Coding
  <1> QED
    BY <1>1, <1>7, <1>9 DEF w

-----------------------------------------------------------------------------
(* The passes.                                                             *)

CallStates == [rest : Text, payloads : Seq(Bodies), pongs : Nat]

\* The call after a pass has taken f, and whether the text it looks at starts
\* with a frame or ends within it.
Taken(call, f) ==
    [rest |-> SubSeq(call.rest, Len(Coding(f)) + 1, Len(call.rest)),
     payloads |-> call.payloads \o BodyOf(f),
     pongs |-> call.pongs + PingOf(f)]

StartsWith(text, code) ==
    Len(code) <= Len(text) /\ \A i \in 1..Len(code) : text[i] = code[i]

EndsWithin(text, code) ==
    Len(text) < Len(code) /\ \A i \in 1..Len(text) : text[i] = code[i]

LEMMA Greatest == \A n \in Nat : Max(0..n) = n
  <1> SUFFICES ASSUME NEW n \in Nat PROVE Max(0..n) = n
    OBVIOUS
  <1> DEFINE S == 0..n
  <1>1. n \in S /\ \A y \in S : n >= y
    OBVIOUS
  <1>2. ASSUME NEW x \in S, \A y \in S : x >= y PROVE x = n
    BY <1>1, <1>2
  <1> HIDE DEF S
  <1>3. Max(S) = n
    BY <1>1, <1>2 DEF Max
  <1> QED
    BY <1>3 DEF S

LEMMA ParsedBody ==
    ASSUME NEW body \in Bodies
    PROVE  Parsed(body) = <<body>> /\ body \in Readings(body)
  <1>1. body \in Text /\ \A i \in 1..Len(body) : body[i] \notin Control \cup Halves
    BY BodyType
  <1>2. Len(body) \in Nat /\ DOMAIN body = 1..Len(body)
    BY <1>1, LenProperties DEF Text
  <1> DEFINE ends == {0} \cup {i \in DOMAIN body : body[i] \notin {"CR", "LF"}}
  <1>3. ends = 0..Len(body)
    <2>1. \A i \in 1..Len(body) : body[i] \notin {"CR", "LF"}
      BY <1>1 DEF Control
    <2> QED
      BY <1>2, <2>1
  <1> HIDE DEF ends
  <1>4. Max(ends) = Len(body)
    BY <1>2, <1>3, Greatest
  <1>5. SubSeq(body, 1, Len(body)) = body
    BY <1>1, SubSeqFull DEF Text
  <1>6. Trimmed(body) = body
    BY <1>4, <1>5, Zenon DEF Trimmed, ends
  <1>7. body \in Readings(body)
    <2> DEFINE q == [i \in 1..Len(body) |-> IF i \in {} THEN <<"?", "?">> ELSE <<body[i]>>]
    <2>1. q \in Seq(Text) /\ Len(q) = Len(body) /\ \A i \in 1..Len(body) : q[i] = <<body[i]>>
      <3>1. \A i \in 1..Len(body) : q[i] = <<body[i]>> /\ body[i] \in Alphabet
        BY <1>1, <1>2 DEF Text
      <3>2. q \in [1..Len(body) -> Text]
        <4>1. \A i \in 1..Len(body) : <<body[i]>> \in Text
          BY <3>1, SmallSeqs DEF Text
        <4> QED
          BY <4>1
      <3>3. Len(q) = Len(body)
        BY <1>2
      <3> HIDE DEF q
      <3>4. q \in Seq(Text)
        BY <1>2, <3>2, FunctionIsSeq
      <3> QED
        BY <3>1, <3>3, <3>4
    <2> HIDE DEF q
    <2>2. FlattenSeq(q) = body
      BY <1>1, <2>1, FlattenSingletons DEF Text
    <2>3. ReadCut(body, {}) = body
      BY <2>2, Zenon DEF ReadCut, q
    <2>4. {} \in SUBSET {i \in 1..Len(body) : body[i] = "w"}
      OBVIOUS
    <2> QED
      BY <2>3, <2>4, Zenon DEF Readings
  <1>8. body \in Readable
    BY <1>7, Zenon DEF Readable
  <1>9. Parsed(body) = <<body>>
    BY <1>6, <1>8, Zenon DEF Parsed
  <1> QED
    BY <1>7, <1>9

LEMMA TakingBody ==
    ASSUME NEW call \in CallStates, NEW f \in Sendable, f.kind = "msg",
           NEW rest, NEW payload, payload = f.body,
           rest = SubSeq(call.rest, Len(Coding(f)) + 1, Len(call.rest))
    PROVE  Taking(call, rest, payload) = Taken(call, f)
  <1>1. f.body \in Bodies
    BY DEF Sendable, Frame
  <1>2. Parsed(payload) = BodyOf(f)
    BY <1>1, ParsedBody DEF BodyOf
  <1>3. PingOf(f) = 0
    BY DEF PingOf
  <1>4. Taking(call, rest, payload) =
          [rest |-> rest, payloads |-> call.payloads \o BodyOf(f), pongs |-> call.pongs]
    BY <1>2, Zenon DEF Taking
  <1>5. Taken(call, f) =
          [rest |-> rest, payloads |-> call.payloads \o BodyOf(f), pongs |-> call.pongs + 0]
    BY <1>3, Zenon DEF Taken
  <1>6. call.pongs + 0 = call.pongs
    BY DEF CallStates
  <1> QED
    BY <1>4, <1>5, <1>6, Zenon

LEMMA SameSubSeq ==
    ASSUME NEW t \in Text, NEW body \in Text, NEW m \in Nat, NEW n \in Nat,
           m >= 1, n = m + Len(body) - 1, n <= Len(t),
           \A i \in 1..Len(body) : t[m + i - 1] = body[i]
    PROVE  SubSeq(t, m, n) = body
  <1> DEFINE s == SubSeq(t, m, n)
  <1>1. Len(body) \in Nat /\ Len(t) \in Nat /\ \A i \in 1..Len(t) : t[i] \in Alphabet
    BY LenProperties DEF Text
  <1>2. \A i \in m..n : t[i] \in Alphabet
    BY <1>1
  <1>3. s \in Text /\ Len(s) = Len(body) /\ \A i \in 1..Len(body) : s[i] = t[m + i - 1]
    BY <1>1, <1>2, SubSeqProperties DEF Text
  <1> HIDE DEF s
  <1>4. s = body
    BY <1>3, SeqEqual DEF Text
  <1> QED
    BY <1>4 DEF s

LEMMA PipePass ==
    ASSUME NEW call \in CallStates, NEW f \in Sendable, Legible(f), channel = "pipe"
    PROVE  /\ StartsWith(call.rest, Coding(f)) => NextPipeMessage(call) = Taken(call, f)
           /\ EndsWithin(call.rest, Coding(f)) => NextPipeMessage(call) = call
  <1> DEFINE text == call.rest
             code == Coding(f)
             n == Len(f.body)
             ends == {i \in DOMAIN text : text[i] = "NUL"}
  <1>1. /\ f.kind = "msg" /\ Len(code) = n + 1 /\ code[n + 1] = "NUL"
        /\ \A i \in 1..n : code[i] = f.body[i]
    BY PipeCoding
  <1>2. /\ f.body \in Text /\ n \in Nat \ {0} /\ \A i \in 1..n : f.body[i] # "NUL"
    BY <1>1, OneByteBody DEF Control
  <1>3. text \in Text /\ Len(text) \in Nat /\ DOMAIN text = 1..Len(text)
    BY LenProperties DEF CallStates, Text
  <1>4. ASSUME StartsWith(text, code) PROVE NextPipeMessage(call) = Taken(call, f)
    <2>1. n + 1 <= Len(text) /\ text[n + 1] = "NUL" /\ \A i \in 1..n : text[i] = f.body[i] /\ text[i] # "NUL"
      BY <1>1, <1>2, <1>4 DEF StartsWith
    <2>2. n + 1 \in ends /\ \A y \in ends : n + 1 <= y
      BY <1>2, <1>3, <2>1
    <2>3. \A x \in ends : (\A y \in ends : x <= y) => x = n + 1
      BY <1>2, <1>3, <2>1
    <2> HIDE DEF ends
    <2>4. Min(ends) = n + 1
      BY <2>2, <2>3 DEF Min
    <2> DEFINE rest == SubSeq(text, Min(ends) + 1, Len(text))
               payload == SubSeq(text, 1, Min(ends) - 1)
    <2>5. payload = f.body
      <3>1. Min(ends) - 1 = n /\ \A i \in 1..n : text[1 + i - 1] = f.body[i]
        BY <1>2, <2>1, <2>4
      <3>2. n = 1 + n - 1 /\ n <= Len(text)
        BY <1>2, <1>3, <2>1
      <3> HIDE DEF text, n
      <3>3. SubSeq(text, 1, n) = f.body
        <4>1. n = 1 + Len(f.body) - 1
          BY <3>2 DEF n
        <4>2. \A i \in 1..Len(f.body) : text[1 + i - 1] = f.body[i]
          BY <3>1 DEF n
        <4>3. 1 \in Nat /\ 1 >= 1 /\ n \in Nat
          BY <1>2
        <4> QED
          BY <1>2, <1>3, <3>2, <4>1, <4>2, <4>3, SameSubSeq
      <3> QED
        BY <3>1, <3>3
    <2>6. rest = SubSeq(call.rest, Len(Coding(f)) + 1, Len(call.rest))
      BY <1>1, <2>4
    <2>7. NextPipeMessage(call) = Taking(call, rest, payload)
      <3>1. ends # {}
        BY <2>2
      <3> QED
        BY <3>1, Zenon DEF NextPipeMessage, ends
    <2> HIDE DEF rest, payload
    <2> QED
      BY <1>1, <2>5, <2>6, <2>7, TakingBody
  <1>5. ASSUME EndsWithin(text, code) PROVE NextPipeMessage(call) = call
    <2>1. \A i \in 1..Len(text) : i \in 1..n /\ text[i] = f.body[i]
      BY <1>1, <1>2, <1>3, <1>5 DEF EndsWithin
    <2>2. ends = {}
      BY <1>2, <1>3, <2>1
    <2> HIDE DEF ends
    <2> QED
      BY <2>2, Zenon DEF NextPipeMessage, ends
  <1> QED
    BY <1>4, <1>5

LEMMA OneOf ==
    ASSUME NEW n
    PROVE  (CHOOSE m \in {n} : TRUE) = n
  OBVIOUS

LEMMA NativePass ==
    ASSUME NEW call \in CallStates, NEW f \in Sendable, channel = "native"
    PROVE  /\ StartsWith(call.rest, Coding(f)) => NextNativeMessage(call) = Taken(call, f)
           /\ EndsWithin(call.rest, Coding(f)) => NextNativeMessage(call) = call
  <1> DEFINE bytes == call.rest
             code == Coding(f)
             coded == ToBytes(f.body)
             n == Len(coded)
             c == CHOOSE m \in Sizes(Head(bytes)) : TRUE
  <1>1. /\ f.kind = "msg" /\ Len(code) = n + 4 /\ code[1] = Digit[n]
        /\ \A i \in 1..n : code[4 + i] = coded[i]
    BY NativeCoding
  <1>2. /\ f.body \in Text /\ \A i \in 1..Len(f.body) : f.body[i] \notin Halves
        /\ n \in Nat \ {0} /\ Sizes(Digit[n]) = {n} /\ coded \in Text
    <2>1. f.body \in Bodies
      BY <1>1 DEF Sendable, Frame
    <2> QED
      BY <2>1, BodyType, ToBytesType
  <1>3. ToText(coded) = f.body
    BY <1>2, ToTextOfBytes
  <1>4. bytes \in Text /\ Len(bytes) \in Nat
    BY LenProperties DEF CallStates, Text
  <1>5. ASSUME Len(bytes) >= 4, bytes[1] = code[1]
        PROVE  Sizes(Head(bytes)) = {n} /\ c = n
    <2>1. Head(bytes) = bytes[1]
      BY <1>4, <1>5 DEF Text
    <2>2. Sizes(Head(bytes)) = {n}
      BY <1>1, <1>2, <1>5, <2>1
    <2> QED
      BY <2>2, OneOf
  <1> HIDE DEF coded, n, c
  <1>6. ASSUME StartsWith(bytes, code) PROVE NextNativeMessage(call) = Taken(call, f)
    <2>1. /\ n + 4 <= Len(bytes) /\ bytes[1] = code[1]
          /\ \A i \in 1..n : bytes[4 + i] = coded[i]
      BY <1>1, <1>2, <1>6 DEF StartsWith
    <2>2. Sizes(Head(bytes)) = {n} /\ c = n
      BY <1>2, <1>4, <1>5, <2>1
    <2> DEFINE rest == SubSeq(bytes, c + 5, Len(bytes))
               payload == ToText(SubSeq(bytes, 5, c + 4))
    <2>3. SubSeq(bytes, 5, n + 4) = coded
      <3>1. 5 \in Nat /\ 5 >= 1 /\ n + 4 \in Nat /\ n + 4 = 5 + Len(coded) - 1
        BY <1>2 DEF n
      <3>2. \A i \in 1..Len(coded) : bytes[5 + i - 1] = coded[i]
        <4>1. \A i \in 1..Len(coded) : 5 + i - 1 = 4 + i
          BY <1>2 DEF n
        <4> QED
          BY <2>1, <4>1 DEF n
      <3> HIDE DEF bytes
      <3> QED
        BY <1>2, <1>4, <2>1, <3>1, <3>2, SameSubSeq
    <2>4. payload = f.body
      BY <1>3, <2>2, <2>3, Zenon
    <2>5. rest = SubSeq(call.rest, Len(Coding(f)) + 1, Len(call.rest))
      <3>1. c + 5 = Len(code) + 1
        BY <1>1, <1>2, <2>2
      <3> QED
        BY <3>1, Zenon
    <2>6. ~(Len(bytes) < 4 \/ (\A m \in Sizes(Head(bytes)) : Len(bytes) < m + 4))
      <3>1. ~(Len(bytes) < 4) /\ ~(Len(bytes) < n + 4)
        BY <1>2, <1>4, <2>1
      <3>2. n \in Sizes(Head(bytes))
        BY <2>2
      <3> QED
        BY <3>1, <3>2, Zenon
    <2>7. NextNativeMessage(call) = Taking(call, rest, payload)
      BY <2>6, Zenon DEF NextNativeMessage, c
    <2> HIDE DEF rest, payload
    <2> QED
      BY <1>1, <2>4, <2>5, <2>7, TakingBody
  <1>7. ASSUME EndsWithin(bytes, code) PROVE NextNativeMessage(call) = call
    <2>1. Len(bytes) < n + 4 /\ \A i \in 1..Len(bytes) : bytes[i] = code[i]
      BY <1>1, <1>7 DEF EndsWithin
    <2>2. Len(bytes) < 4 \/ (\A m \in Sizes(Head(bytes)) : Len(bytes) < m + 4)
      <3> SUFFICES ASSUME ~(Len(bytes) < 4)
                   PROVE  \A m \in Sizes(Head(bytes)) : Len(bytes) < m + 4
        OBVIOUS
      <3>1. Len(bytes) >= 4 /\ 1 \in 1..Len(bytes)
        BY <1>4
      <3>2. bytes[1] = code[1]
        BY <2>1, <3>1
      <3>3. Sizes(Head(bytes)) = {n}
        BY <1>5, <3>1, <3>2
      <3> QED
        BY <2>1, <3>3
    <2> QED
      BY <2>2, Zenon DEF NextNativeMessage
  <1> QED
    BY <1>6, <1>7

\* The first line of a text.
LEMMA FirstLine ==
    ASSUME NEW t \in Text, NEW e \in Nat \ {0}, e + 1 <= Len(t),
           t[e] = "CR", t[e + 1] = "LF", \A i \in 1..(e - 1) : t[i] # "CR"
    PROVE  LineEnds(t) # {} /\ LineLength(t) = e - 1
  <1> DEFINE ends == LineEnds(t)
             first == CHOOSE i \in ends : \A j \in ends : i <= j
  <1>1. Len(t) \in Nat
    BY LenProperties DEF Text
  <1>2. e \in ends /\ \A j \in ends : e <= j /\ j \in Nat
    BY <1>1 DEF LineEnds
  <1>3. ASSUME NEW x \in ends, \A j \in ends : x <= j PROVE x = e
    BY <1>2, <1>3
  <1> HIDE DEF ends
  <1>4. first = e
    BY <1>2, <1>3
  <1>5. LineLength(t) = first - 1
    BY Zenon DEF LineLength, ends
  <1> QED
    BY <1>2, <1>4, <1>5 DEF ends

LEMMA MessagePass ==
    ASSUME NEW call \in CallStates, NEW f \in Sendable, Legible(f),
           channel \notin {"pipe", "native"}, f.kind = "msg"
    PROVE  /\ StartsWith(call.rest, Coding(f)) => NextFrame(call) = Taken(call, f)
           /\ EndsWithin(call.rest, Coding(f)) => NextFrame(call) = call
  <1> DEFINE text == call.rest
             code == Coding(f)
             body == f.body
             n == Len(body)
             line == SubSeq(text, 1, LineLength(text))
             after == SubSeq(text, Len(line) + 3, Len(text))
             c == CHOOSE m \in Sizes(Last(line)) : TRUE
  <1>1. /\ Len(code) = n + 6
        /\ code[1] = "MSG" /\ code[2] = Digit[n] /\ code[3] = "CR" /\ code[4] = "LF"
        /\ \A i \in 1..n : code[4 + i] = body[i]
        /\ code[n + 5] = "CR" /\ code[n + 6] = "LF"
    BY MessageCoding
  <1>2. /\ body \in Bodies /\ body \in Text /\ n \in Nat \ {0} /\ ToBytes(body) = body
    BY OneByteBody
  <1>3. Sizes(Digit[n]) = {n} /\ Digit[n] # "CR" /\ Digit[n] \in Alphabet
    <2>1. Digit[n] \in Letters /\ Sizes(Digit[n]) = {n}
      BY <1>2, BodyType
    <2> QED
      BY <2>1, FramingAssumption DEF Control, Alphabet
  <1>4. text \in Text /\ Len(text) \in Nat
    BY LenProperties DEF CallStates, Text
  <1>5. ASSUME NEW m \in Nat, 4 <= m, m <= Len(text), m <= Len(code),
               \A i \in 1..m : text[i] = code[i]
        PROVE  /\ LineEnds(text) # {} /\ line # <<>> /\ Head(line) = "MSG"
               /\ Len(line) = 2 /\ Sizes(Last(line)) = {n} /\ c = n
    <2>1. text[1] = "MSG" /\ text[2] = Digit[n] /\ text[3] = "CR" /\ text[4] = "LF"
      BY <1>1, <1>5
    <2>2. \A i \in 1..(3 - 1) : text[i] # "CR"
      BY <1>3, <2>1
    <2>3. 3 \in Nat \ {0} /\ 3 + 1 <= Len(text) /\ 3 + 1 = 4 /\ 3 - 1 = 2
      BY <1>4, <1>5
    <2>4. LineEnds(text) # {} /\ LineLength(text) = 2
      <3> HIDE DEF text
      <3> QED
        BY <1>4, <2>1, <2>2, <2>3, FirstLine
    <2> DEFINE l == <<"MSG", Digit[n]>>
    <2>5. l \in Text /\ Len(l) = 2 /\ l[1] = "MSG" /\ l[2] = Digit[n]
      <3>1. "MSG" \in Alphabet
        BY DEF Alphabet
      <3> QED
        BY <1>3, <3>1, SmallSeqs DEF Text
    <2> HIDE DEF l
    <2>6. line = l
      <3>1. 1 \in Nat /\ 1 >= 1 /\ 2 \in Nat /\ 2 = 1 + Len(l) - 1 /\ 2 <= Len(text)
        BY <1>4, <1>5, <2>5
      <3>2. \A i \in 1..Len(l) : text[1 + i - 1] = l[i]
        BY <2>1, <2>5
      <3> HIDE DEF text
      <3>3. SubSeq(text, 1, 2) = l
        BY <1>4, <2>5, <3>1, <3>2, SameSubSeq
      <3> QED
        BY <2>4, <3>3
    <2>7. line # <<>> /\ Head(line) = "MSG" /\ Last(line) = Digit[n] /\ Len(line) = 2
      <3>1. l # <<>> /\ Head(l) = "MSG"
        <4>1. l \in Seq(Alphabet) /\ Len(l) = 2 /\ l[1] = "MSG"
          BY <2>5 DEF Text
        <4>2. l # <<>>
          BY <4>1
        <4> QED
          BY <4>1, <4>2, HeadTailProperties
      <3>2. Last(l) = Digit[n]
        BY <2>5 DEF Last
      <3> QED
        BY <2>5, <2>6, <3>1, <3>2, Zenon
    <2>8. Sizes(Last(line)) = {n}
      <3> HIDE DEF line
      <3> QED
        BY <1>3, <2>7, Zenon
    <2>9. c = n
      BY <2>8, OneOf
    <2> QED
      BY <2>4, <2>7, <2>8, <2>9
  <1> HIDE DEF n
  <1>6. ASSUME StartsWith(text, code) PROVE NextFrame(call) = Taken(call, f)
    <2>1. /\ n + 6 <= Len(text)
          /\ \A i \in 1..(n + 6) : text[i] = code[i]
      BY <1>1, <1>6 DEF StartsWith
    <2>2. /\ LineEnds(text) # {} /\ line # <<>> /\ Head(line) = "MSG"
          /\ Len(line) = 2 /\ Sizes(Last(line)) = {n} /\ c = n
      <3>1. 4 \in Nat /\ 4 <= 4 /\ 4 <= Len(text) /\ 4 <= Len(code)
        BY <1>1, <1>2, <1>4, <2>1
      <3>2. \A i \in 1..4 : text[i] = code[i]
        BY <1>2, <2>1
      <3> HIDE DEF text, code, line, c
      <3> QED
        BY <1>5, <3>1, <3>2
    <2> HIDE DEF line, c
    <2>3. /\ after \in Text /\ Len(after) = Len(text) - 4
          /\ \A i \in 1..Len(after) : after[i] = text[4 + i]
      <3>1. after = SubSeq(text, 5, Len(text))
        BY <2>2
      <3>2. \A i \in 5..Len(text) : text[i] \in Alphabet
        BY <1>4, ElementOfSeq DEF Text
      <3> DEFINE s == SubSeq(text, 5, Len(text))
      <3> HIDE DEF after
      <3>3. /\ s \in Seq(Alphabet) /\ Len(s) = Len(text) - 5 + 1
            /\ \A i \in 1..(Len(text) - 5 + 1) : s[i] = text[5 + i - 1]
        BY <1>2, <1>4, <2>1, <3>2, SubSeqProperties DEF Text
      <3> HIDE DEF s
      <3>4. \A i \in 1..Len(s) : 5 + i - 1 = 4 + i
        BY <3>3
      <3> QED
        BY <1>4, <3>1, <3>3, <3>4 DEF s, Text
    <2> HIDE DEF after
    <2> DEFINE rest == SubSeq(after, c + 3, Len(after))
               payload == SubSeq(after, 1, c)
    <2>4. payload = body
      <3>1. c = 1 + Len(body) - 1 /\ c <= Len(after) /\ 1 \in Nat /\ 1 >= 1 /\ c \in Nat
        BY <1>2, <2>1, <2>2, <2>3 DEF n
      <3>2. ASSUME NEW i \in 1..Len(body) PROVE after[1 + i - 1] = body[i]
        <4>1. 1 + i - 1 = i /\ i \in 1..Len(after) /\ 4 + i \in 1..(n + 6) /\ i \in 1..n
          BY <1>2, <2>1, <2>3 DEF n
        <4>2. after[i] = text[4 + i] /\ text[4 + i] = code[4 + i] /\ code[4 + i] = body[i]
          BY <1>1, <2>1, <2>3, <4>1
        <4> QED
          BY <4>1, <4>2
      <3> QED
        BY <1>2, <2>3, <3>1, <3>2, SameSubSeq
    <2>5. rest = SubSeq(call.rest, Len(Coding(f)) + 1, Len(call.rest))
      <3> DEFINE s == SubSeq(text, n + 7, Len(text))
      <3>1. /\ Len(code) + 1 = n + 7 /\ c + 3 = n + 3 /\ n + 7 >= 1 /\ n + 7 \in Nat
            /\ n + 7 <= Len(text) + 1
        BY <1>1, <1>2, <1>4, <2>1, <2>2
      <3>2. \A i \in (n + 7)..Len(text) : text[i] \in Alphabet
        BY <1>2, <1>4, ElementOfSeq DEF Text
      <3>3. /\ s \in Text /\ Len(s) = Len(text) - (n + 7) + 1
            /\ \A i \in 1..(Len(text) - (n + 7) + 1) : s[i] = text[(n + 7) + i - 1]
        BY <1>4, <3>1, <3>2, SubSeqProperties DEF Text
      <3> HIDE DEF s
      <3>4. Len(s) = Len(text) - n - 6 /\ Len(s) \in Nat
        BY <1>2, <1>4, <2>1, <3>3
      <3>5. /\ n + 3 \in Nat /\ n + 3 >= 1 /\ Len(after) \in Nat
            /\ Len(after) = n + 3 + Len(s) - 1 /\ Len(after) <= Len(after)
        <4>1. Len(after) = Len(text) - 4
          BY <2>3
        <4> HIDE DEF text
        <4> QED
          BY <1>2, <1>4, <2>1, <3>4, <4>1
      <3>6. ASSUME NEW i \in 1..Len(s) PROVE after[n + 3 + i - 1] = s[i]
        <4>1. /\ n + 3 + i - 1 \in 1..Len(after) /\ 4 + (n + 3 + i - 1) = (n + 7) + i - 1
              /\ i \in 1..(Len(text) - (n + 7) + 1)
          BY <1>2, <1>4, <2>3, <3>4
        <4> QED
          BY <2>3, <3>3, <4>1
      <3>7. SubSeq(after, n + 3, Len(after)) = s
        BY <2>3, <3>3, <3>5, <3>6, SameSubSeq
      <3>8. rest = s
        BY <3>1, <3>7, Zenon
      <3> QED
        BY <3>1, <3>8, Zenon DEF s
    <2>6. ~(\A m \in Sizes(Last(line)) : Len(after) < m + 2)
      BY <1>2, <1>4, <2>1, <2>2, <2>3
    <2>7. NextFrame(call) = Taking(call, rest, payload)
      BY <2>2, <2>6, Zenon DEF NextFrame, line, after, c
    <2> HIDE DEF rest, payload
    <2> QED
      BY <1>1, <2>4, <2>5, <2>7, TakingBody
  <1>7. ASSUME EndsWithin(text, code) PROVE NextFrame(call) = call
    <2>1. Len(text) < n + 6 /\ \A i \in 1..Len(text) : text[i] = code[i]
      BY <1>1, <1>7 DEF EndsWithin
    <2>2. CASE Len(text) < 4
      <3>1. \A i \in 1..(Len(text) - 1) : ~(text[i] = "CR" /\ text[i + 1] = "LF")
        <4> SUFFICES ASSUME NEW i \in 1..(Len(text) - 1) PROVE text[i] # "CR"
          OBVIOUS
        <4>1. i \in {1, 2} /\ text[i] = code[i]
          BY <1>4, <2>1, <2>2
        <4> QED
          BY <1>1, <1>3, <4>1
      <3>2. LineEnds(text) = {}
        BY <3>1 DEF LineEnds
      <3> QED
        BY <3>2, Zenon DEF NextFrame
    <2>3. CASE ~(Len(text) < 4)
      <3>1. 4 \in Nat /\ 4 <= 4 /\ 4 <= Len(text) /\ 4 <= Len(code)
        BY <1>1, <1>2, <1>4, <2>3
      <3>2. \A i \in 1..4 : text[i] = code[i]
        BY <1>4, <2>1, <2>3
      <3>3. /\ LineEnds(text) # {} /\ line # <<>> /\ Head(line) = "MSG"
            /\ Len(line) = 2 /\ Sizes(Last(line)) = {n}
        <4> HIDE DEF text, code, line, c
        <4> QED
          BY <1>5, <3>1, <3>2
      <3> HIDE DEF line, c
      <3>4. Len(after) = Len(text) - 4
        <4>1. after = SubSeq(text, 5, Len(text))
          BY <3>3
        <4>2. \A i \in 5..Len(text) : text[i] \in Alphabet
          BY <1>4, ElementOfSeq DEF Text
        <4> HIDE DEF after
        <4>3. Len(SubSeq(text, 5, Len(text))) = Len(text) - 5 + 1
          BY <1>4, <2>3, <4>2, SubSeqProperties DEF Text
        <4> QED
          BY <1>4, <4>1, <4>3
      <3> HIDE DEF after
      <3>5. \A m \in Sizes(Last(line)) : Len(after) < m + 2
        BY <1>2, <1>4, <2>1, <3>3, <3>4
      <3> QED
        BY <3>3, <3>5, Zenon DEF NextFrame, line, after
    <2> QED
      BY <2>2, <2>3
  <1> QED
    BY <1>6, <1>7

LEMMA ControlPass ==
    ASSUME NEW call \in CallStates, NEW f \in Sendable, f.kind # "msg"
    PROVE  /\ StartsWith(call.rest, Coding(f)) => NextFrame(call) = Taken(call, f)
           /\ EndsWithin(call.rest, Coding(f)) => NextFrame(call) = call
  <1> DEFINE text == call.rest
             code == Coding(f)
             w == IF f.kind = "ping" THEN "PING" ELSE "INFO"
             line == SubSeq(text, 1, LineLength(text))
             after == SubSeq(text, Len(line) + 3, Len(text))
             n == IF line = <<"PING">> THEN 1 ELSE 0
             l == <<w>>
  <1>1. /\ f.kind \in {"ping", "info"} /\ Len(code) = 3 /\ code[1] = w
        /\ code[2] = "CR" /\ code[3] = "LF"
    BY ControlCoding
  <1>2. w \in Alphabet /\ w # "CR" /\ w # "MSG" /\ (w = "PING" <=> f.kind = "ping")
    BY DEF Alphabet
  <1>3. text \in Text /\ Len(text) \in Nat
    BY LenProperties DEF CallStates, Text
  <1>4. /\ l \in Text /\ Len(l) = 1 /\ l[1] = w /\ l # <<>> /\ Head(l) = w
        /\ (l = <<"PING">> <=> w = "PING")
    <2> HIDE DEF w
    <2>1. l \in Text /\ Len(l) = 1 /\ l[1] = w
      BY <1>2, SmallSeqs DEF Text
    <2> QED
      BY <2>1
  <1> HIDE DEF w, l
  <1>5. ASSUME StartsWith(text, code) PROVE NextFrame(call) = Taken(call, f)
    <2>1. 3 <= Len(text) /\ text[1] = w /\ text[2] = "CR" /\ text[3] = "LF"
      <3>1. 3 <= Len(text) /\ \A i \in 1..3 : text[i] = code[i]
        BY <1>1, <1>5 DEF StartsWith
      <3> QED
        BY <1>1, <3>1
    <2>2. \A i \in 1..(2 - 1) : text[i] # "CR"
      BY <1>2, <2>1
    <2>3. LineEnds(text) # {} /\ LineLength(text) = 1
      <3>1. 2 \in Nat \ {0} /\ 2 + 1 <= Len(text) /\ 2 + 1 = 3 /\ 2 - 1 = 1
        BY <2>1
      <3> HIDE DEF text
      <3> QED
        BY <1>3, <2>1, <2>2, <3>1, FirstLine
    <2>4. line = l
      <3>1. 1 \in Nat /\ 1 >= 1 /\ 1 = 1 + Len(l) - 1 /\ 1 <= Len(text)
        BY <1>4, <2>1, <1>3
      <3>2. \A i \in 1..Len(l) : text[1 + i - 1] = l[i]
        BY <2>1, <1>4
      <3> HIDE DEF text
      <3>3. SubSeq(text, 1, 1) = l
        BY <1>3, <1>4, <3>1, <3>2, SameSubSeq
      <3> QED
        BY <2>3, <3>3
    <2>5. line # <<>> /\ Head(line) # "MSG" /\ n = PingOf(f) /\ Len(line) + 3 = Len(code) + 1
      <3>1. line # <<>> /\ Head(line) = w /\ Len(line) = 1
        BY <1>4, <2>4, Zenon
      <3>2. line = <<"PING">> <=> f.kind = "ping"
        BY <1>2, <1>4, <2>4, Zenon
      <3> HIDE DEF line
      <3> QED
        BY <1>1, <1>2, <3>1, <3>2 DEF PingOf
    <2>6. NextFrame(call) = Skipping(call, after, n)
      <3> HIDE DEF n
      <3>1. LineEnds(text) # {} /\ ~(line # <<>> /\ Head(line) = "MSG")
        BY <2>3, <2>5
      <3>2. NextFrame(call) = Skipping(call, after, IF line = <<"PING">> THEN 1 ELSE 0)
        BY <3>1, Zenon DEF NextFrame
      <3> QED
        BY <3>2 DEF n
    <2>7. after = SubSeq(call.rest, Len(Coding(f)) + 1, Len(call.rest))
      <3> HIDE DEF line
      <3> QED
        BY <2>5, Zenon
    <2> HIDE DEF after, n
    <2>8. BodyOf(f) = <<>>
      BY DEF BodyOf
    <2>9. call.payloads \o BodyOf(f) = call.payloads
      <3>1. call.payloads \in Seq(Bodies)
        BY DEF CallStates
      <3> QED
        BY <2>8, <3>1, ConcatEmptySeq
    <2> QED
      BY <2>5, <2>6, <2>7, <2>9, Zenon DEF Skipping, Taken
  <1>6. ASSUME EndsWithin(text, code) PROVE NextFrame(call) = call
    <2>1. Len(text) < 3 /\ \A i \in 1..Len(text) : text[i] = code[i]
      BY <1>1, <1>6 DEF EndsWithin
    <2>2. \A i \in 1..(Len(text) - 1) : text[i] # "CR"
      <3> SUFFICES ASSUME NEW i \in 1..(Len(text) - 1) PROVE text[i] # "CR"
        OBVIOUS
      <3>1. i = 1 /\ text[i] = code[i]
        BY <1>3, <2>1
      <3> QED
        BY <1>1, <1>2, <3>1
    <2>3. LineEnds(text) = {}
      BY <2>2 DEF LineEnds
    <2> QED
      BY <2>3, Zenon DEF NextFrame
  <1> QED
    BY <1>5, <1>6

LEMMA SendableChannels ==
    ASSUME NEW f \in Sendable
    PROVE  f.kind # "msg" => channel \notin {"pipe", "native"}
  BY DEF Sendable

\* A pass takes the frame the text starts with, and nothing from a frame that
\* has not come in full.
LEMMA PassTakes ==
    ASSUME NEW call \in CallStates, NEW f \in Sendable, Legible(f)
    PROVE  /\ StartsWith(call.rest, Coding(f)) => Pass(call) = Taken(call, f)
           /\ EndsWithin(call.rest, Coding(f)) => Pass(call) = call
  <1>1. CASE channel = "pipe"
    <2>1. Pass(call) = NextPipeMessage(call)
      BY <1>1 DEF Pass
    <2> QED
      BY <1>1, <2>1, PipePass
  <1>2. CASE channel = "native"
    <2>1. Pass(call) = NextNativeMessage(call)
      BY <1>2 DEF Pass
    <2> QED
      BY <1>2, <2>1, NativePass
  <1>3. CASE channel \notin {"pipe", "native"}
    <2>1. Pass(call) = NextFrame(call)
      BY <1>3 DEF Pass
    <2> QED
      BY <1>3, <2>1, MessagePass, ControlPass
  <1> QED
    BY <1>1, <1>2, <1>3

LEMMA PassEmpty ==
    ASSUME NEW call, call.rest = <<>>
    PROVE  Pass(call) = call
  <1>1. Len(<<>>) = 0 /\ DOMAIN <<>> = {}
    OBVIOUS
  <1>2. LineEnds(<<>>) = {}
    BY <1>1 DEF LineEnds
  <1>3. NextFrame(call) = call
    BY <1>2, Zenon DEF NextFrame
  <1>4. NextPipeMessage(call) = call
    <2>1. {i \in DOMAIN call.rest : call.rest[i] = "NUL"} = {}
      BY <1>1
    <2> QED
      BY <2>1, Zenon DEF NextPipeMessage
  <1>5. NextNativeMessage(call) = call
    <2>1. Len(call.rest) < 4
      BY <1>1
    <2> QED
      BY <2>1, Zenon DEF NextNativeMessage
  <1> QED
    BY <1>3, <1>4, <1>5 DEF Pass

LEMMA TakenType ==
    ASSUME NEW call \in CallStates, NEW f \in Sendable, StartsWith(call.rest, Coding(f)),
           Coding(f) \in Text
    PROVE  Taken(call, f) \in CallStates
  <1> DEFINE r == SubSeq(call.rest, Len(Coding(f)) + 1, Len(call.rest))
             p == call.payloads \o BodyOf(f)
             q == call.pongs + PingOf(f)
  <1>1. call.rest \in Text /\ call.payloads \in Seq(Bodies) /\ call.pongs \in Nat
    BY DEF CallStates
  <1>2. r \in Text
    <2> DEFINE s == call.rest
               m == Len(Coding(f)) + 1
    <2>1. m \in Nat /\ m >= 1 /\ Len(s) \in Nat /\ m <= Len(s) + 1
      BY <1>1, LenProperties DEF Text, StartsWith
    <2>2. \A i \in m..Len(s) : s[i] \in Alphabet
      BY <1>1, <2>1, ElementOfSeq DEF Text
    <2> HIDE DEF s, m
    <2>3. SubSeq(s, m, Len(s)) \in Text
      BY <2>1, <2>2, SubSeqProperties DEF Text
    <2> QED
      BY <2>3 DEF s, m
  <1>3. BodyOf(f) \in Seq(Bodies)
    <2>1. f.kind = "msg" => f.body \in Bodies
      BY DEF Sendable, Frame
    <2>2. f.kind = "msg" => <<f.body>> \in Seq(Bodies)
      BY <2>1, SmallSeqs
    <2> QED
      BY <2>2, SmallSeqs DEF BodyOf
  <1>4. p \in Seq(Bodies)
    BY <1>1, <1>3, ConcatProperties
  <1>5. q \in Nat
    BY <1>1 DEF PingOf
  <1> HIDE DEF r, p, q
  <1>6. [rest |-> r, payloads |-> p, pongs |-> q] \in CallStates
    BY <1>2, <1>4, <1>5 DEF CallStates
  <1> QED
    BY <1>6, Zenon DEF Taken, r, p, q

-----------------------------------------------------------------------------
(* Where in the stream the reader is.                                      *)

\* What has come up to byte t and follows the first k frames; the number of
\* frames that have come in full with the first t bytes.
Unread(k, t) == SubSeq(Stream, Len(Upto(k)) + 1, t)

Reached(k, t) ==
    /\ k \in 0..Len(frames) /\ t \in 0..Len(Stream)
    /\ Len(Upto(k)) <= t /\ (k < Len(frames) => t < Len(Upto(k + 1)))

LEMMA UptoLength ==
    ASSUME frames \in Seq(Sendable)
    PROVE  /\ Len(frames) \in Nat /\ Len(Stream) \in Nat /\ Len(Upto(0)) = 0
           /\ Len(Upto(Len(frames))) = Len(Stream)
           /\ \A k \in 0..Len(frames) : Len(Upto(k)) \in Nat /\ Len(Upto(k)) <= Len(Stream)
           /\ \A k \in 0..(Len(frames) - 1) : Len(Upto(k + 1)) > Len(Upto(k))
  <1>1. Len(frames) \in Nat
    BY LenProperties
  <1>2. Stream \in Text /\ Upto(0) = <<>> /\ Upto(Len(frames)) = Stream
    BY StreamEnds
  <1>3. Len(Stream) \in Nat /\ Len(Upto(0)) = 0 /\ Len(Upto(Len(frames))) = Len(Stream)
    BY <1>2, LenProperties DEF Text
  <1>4. \A k \in 0..Len(frames) : Len(Upto(k)) \in Nat
    BY StreamEnds, LenProperties DEF Text
  <1>5. ASSUME NEW k \in 0..(Len(frames) - 1)
        PROVE  Len(Upto(k + 1)) > Len(Upto(k)) /\ Len(Upto(k + 1)) <= Len(Stream)
    <2> DEFINE code == Coding(frames[k + 1])
    <2>1. /\ code \in Text /\ Len(code) > 0 /\ Len(Upto(k + 1)) = Len(Upto(k)) + Len(code)
          /\ Len(Upto(k + 1)) <= Len(Stream)
      BY StreamAt
    <2>2. Len(code) \in Nat /\ Len(Upto(k)) \in Nat
      BY <1>1, <1>4, <2>1, LenProperties DEF Text
    <2> QED
      BY <2>1, <2>2
  <1>6. ASSUME NEW k \in 0..Len(frames) PROVE Len(Upto(k)) <= Len(Stream)
    <2>1. CASE k = 0
      BY <1>3, <2>1
    <2>2. CASE k # 0
      <3>1. k - 1 \in 0..(Len(frames) - 1) /\ (k - 1) + 1 = k
        BY <1>1, <2>2
      <3> QED
        BY <1>5, <3>1
    <2> QED
      BY <2>1, <2>2
  <1> QED
    BY <1>1, <1>3, <1>4, <1>5, <1>6

\* A frame has at least a byte.
LEMMA UptoGrows ==
    ASSUME frames \in Seq(Sendable), NEW k \in 0..Len(frames), NEW i \in k..Len(frames)
    PROVE  i - k <= Len(Upto(i)) - Len(Upto(k))
  <1> DEFINE T == {n \in Nat : k + n <= Len(frames) => n <= Len(Upto(k + n)) - Len(Upto(k))}
  <1>1. Len(frames) \in Nat /\ k \in Nat
    BY UptoLength
  <1>2. 0 \in T
    <2>1. k + 0 = k /\ Len(Upto(k)) \in Nat
      BY <1>1, UptoLength
    <2> QED
      BY <2>1
  <1>3. ASSUME NEW n \in Nat, n \in T PROVE n + 1 \in T
    <2> SUFFICES ASSUME k + (n + 1) <= Len(frames)
                 PROVE  n + 1 <= Len(Upto(k + (n + 1))) - Len(Upto(k))
      OBVIOUS
    <2>1. k + n \in 0..(Len(frames) - 1) /\ (k + n) + 1 = k + (n + 1) /\ k + n <= Len(frames)
      BY <1>1
    <2>2. n <= Len(Upto(k + n)) - Len(Upto(k))
      BY <1>3, <2>1
    <2>3. Len(Upto((k + n) + 1)) > Len(Upto(k + n))
      BY <2>1, UptoLength
    <2>4. /\ Len(Upto(k)) \in Nat /\ Len(Upto(k + n)) \in Nat
          /\ Len(Upto((k + n) + 1)) \in Nat
      <3>1. k + n \in 0..Len(frames) /\ (k + n) + 1 \in 0..Len(frames)
        BY <1>1, <2>1
      <3> QED
        BY <3>1, UptoLength
    <2>5. Len(Upto(k + (n + 1))) = Len(Upto((k + n) + 1))
      BY <2>1
    <2> QED
      BY <2>2, <2>3, <2>4, <2>5
  <1> HIDE DEF T
  <1>4. Nat \subseteq T
    BY <1>2, <1>3, SetInduction
  <1>5. i - k \in Nat /\ k + (i - k) = i /\ i <= Len(frames)
    BY <1>1
  <1>6. i - k \in T
    BY <1>4, <1>5
  <1> QED
    BY <1>5, <1>6 DEF T

LEMMA ReachedExists ==
    ASSUME frames \in Seq(Sendable), NEW t \in 0..Len(Stream)
    PROVE  \E k \in 0..Len(frames) : Reached(k, t)
  <1> SUFFICES ASSUME \A k \in 0..Len(frames) : ~Reached(k, t) PROVE FALSE
    OBVIOUS
  <1> DEFINE T == {k \in 0..Len(frames) : Len(Upto(k)) <= t}
  <1>1. /\ Len(frames) \in Nat /\ Len(Stream) \in Nat /\ Len(Upto(0)) = 0
        /\ \A k \in 0..Len(frames) : Len(Upto(k)) \in Nat
    BY UptoLength
  <1>2. 0 \in T
    BY <1>1
  <1>3. ASSUME NEW n \in 0..(Len(frames) - 1), n \in T PROVE n + 1 \in T
    <2>1. n \in 0..Len(frames) /\ n + 1 \in 0..Len(frames) /\ Len(Upto(n)) <= t
      BY <1>1, <1>3
    <2>2. ~(t < Len(Upto(n + 1)))
      BY <2>1 DEF Reached
    <2>3. Len(Upto(n + 1)) <= t
      BY <1>1, <2>1, <2>2
    <2> QED
      BY <2>1, <2>3
  <1> HIDE DEF T
  <1>4. Len(frames) \in T
    BY <1>1, <1>2, <1>3, BoundedInduction
  <1>5. Reached(Len(frames), t)
    BY <1>1, <1>4 DEF T, Reached
  <1> QED
    BY <1>1, <1>5

LEMMA ReachedLater ==
    ASSUME frames \in Seq(Sendable), NEW k, NEW i, NEW r, NEW t,
           Reached(k, r), Reached(i, t), r <= t
    PROVE  k <= i
  <1> SUFFICES ASSUME i < k PROVE FALSE
    BY UptoLength DEF Reached
  <1>1. /\ k \in 0..Len(frames) /\ i \in 0..Len(frames) /\ Len(frames) \in Nat
        /\ r \in Nat /\ t \in Nat
    BY UptoLength DEF Reached
  <1>2. t < Len(Upto(i + 1)) /\ Len(Upto(k)) <= r
    BY <1>1 DEF Reached
  <1>3. i + 1 \in 0..Len(frames) /\ k \in (i + 1)..Len(frames)
    BY <1>1
  <1>4. k - (i + 1) <= Len(Upto(k)) - Len(Upto(i + 1))
    BY <1>3, UptoGrows
  <1>5. Len(Upto(k)) \in Nat /\ Len(Upto(i + 1)) \in Nat
    BY <1>1, <1>3, UptoLength
  <1> QED
    BY <1>1, <1>2, <1>4, <1>5

LEMMA UnreadType ==
    ASSUME frames \in Seq(Sendable), NEW k \in 0..Len(frames), NEW t \in 0..Len(Stream),
           Len(Upto(k)) <= t
    PROVE  /\ Unread(k, t) \in Text /\ Len(Unread(k, t)) = t - Len(Upto(k))
           /\ Len(Unread(k, t)) \in Nat
           /\ \A j \in 1..Len(Unread(k, t)) : Unread(k, t)[j] = Stream[Len(Upto(k)) + j]
  <1> DEFINE m == Len(Upto(k)) + 1
             s == SubSeq(Stream, m, t)
  <1>1. Len(Upto(k)) \in Nat /\ t \in Nat /\ t <= Len(Stream) /\ Stream \in Text /\ Len(Stream) \in Nat
    BY UptoLength, StreamEnds
  <1>2. m \in Nat /\ m >= 1 /\ m <= t + 1
    BY <1>1
  <1> DEFINE x == Stream
  <1> HIDE DEF x
  <1>3. x \in Seq(Alphabet) /\ Len(x) \in Nat /\ t <= Len(x)
    BY <1>1 DEF x, Text
  <1>4. \A i \in m..t : x[i] \in Alphabet
    BY <1>1, <1>2, <1>3, ElementOfSeq
  <1> HIDE DEF m
  <1>5. /\ SubSeq(x, m, t) \in Seq(Alphabet) /\ Len(SubSeq(x, m, t)) = t - m + 1
        /\ \A i \in 1..(t - m + 1) : SubSeq(x, m, t)[i] = x[m + i - 1]
    BY <1>1, <1>2, <1>4, SubSeqProperties
  <1>6. s = SubSeq(x, m, t) /\ Unread(k, t) = s
    BY Zenon DEF x, Unread, m
  <1> HIDE DEF s
  <1>7. s \in Text /\ Len(s) = t - m + 1 /\ \A i \in 1..(t - m + 1) : s[i] = Stream[m + i - 1]
    BY <1>5, <1>6, Zenon DEF x, Text
  <1>8. t - m + 1 = t - Len(Upto(k)) /\ t - m + 1 \in Nat
    BY <1>1, <1>2 DEF m
  <1>9. \A i \in 1..(t - m + 1) : m + i - 1 = Len(Upto(k)) + i
    BY <1>1, <1>8 DEF m
  <1> QED
    BY <1>6, <1>7, <1>8, <1>9

LEMMA UnreadStarts ==
    ASSUME frames \in Seq(Sendable), NEW k \in 0..(Len(frames) - 1), NEW t \in 0..Len(Stream)
    PROVE  LET code == Coding(frames[k + 1])
               text == Unread(k, t)
           IN  /\ Len(Upto(k + 1)) <= t =>
                    /\ StartsWith(text, code)
                    /\ SubSeq(text, Len(code) + 1, Len(text)) = Unread(k + 1, t)
               /\ Len(Upto(k)) <= t /\ t < Len(Upto(k + 1)) => EndsWithin(text, code)
  <1> DEFINE code == Coding(frames[k + 1])
             text == Unread(k, t)
             a == Len(Upto(k))
             b == Len(Upto(k + 1))
             c == Len(code)
             l == Len(text)
  <1>1. /\ Len(frames) \in Nat /\ Len(Stream) \in Nat /\ t \in Nat /\ t <= Len(Stream)
        /\ k \in 0..Len(frames) /\ k + 1 \in 0..Len(frames)
    BY UptoLength
  <1>2. a \in Nat /\ b \in Nat /\ c \in Nat /\ c > 0 /\ b = a + c /\ code \in Text
        /\ \A j \in 1..c : Stream[a + j] = code[j]
    <2>1. /\ code \in Text /\ Len(code) > 0 /\ Len(Upto(k + 1)) = Len(Upto(k)) + Len(code)
          /\ \A j \in 1..Len(code) : Stream[Len(Upto(k)) + j] = code[j]
      BY StreamAt
    <2>2. Len(code) \in Nat
      BY <2>1, LenProperties DEF Text
    <2>3. Len(Upto(k)) \in Nat /\ Len(Upto(k + 1)) \in Nat
      BY <1>1, UptoLength
    <2> QED
      BY <2>1, <2>2, <2>3
  <1>3. ASSUME a <= t
        PROVE  text \in Text /\ l = t - a /\ l \in Nat
               /\ \A j \in 1..l : text[j] = Stream[a + j]
    BY <1>1, <1>3, UnreadType
  <1>4. ASSUME b <= t
        PROVE  StartsWith(text, code) /\ SubSeq(text, c + 1, l) = Unread(k + 1, t)
    <2> DEFINE next == Unread(k + 1, t)
    <2>1. /\ next \in Text /\ Len(next) = t - b /\ Len(next) \in Nat
          /\ \A j \in 1..Len(next) : next[j] = Stream[b + j]
      BY <1>1, <1>4, UnreadType
    <2>2. /\ a <= t /\ text \in Text /\ l = t - a /\ l \in Nat
          /\ \A j \in 1..l : text[j] = Stream[a + j]
      BY <1>1, <1>2, <1>3, <1>4
    <2> HIDE DEF a, b, next
    <2>3. c <= l /\ \A j \in 1..c : text[j] = code[j]
      <3>1. c <= l /\ c \in Nat
        BY <1>1, <1>2, <1>4, <2>2
      <3>2. \A j \in 1..c : j \in 1..l
        BY <2>2, <3>1
      <3> HIDE DEF text, c, l, code
      <3> QED
        BY <1>2, <2>2, <3>1, <3>2
    <2>4. StartsWith(text, code)
      BY <2>3 DEF StartsWith
    <2>5. /\ c + 1 \in Nat /\ c + 1 >= 1 /\ l = c + 1 + Len(next) - 1 /\ l <= Len(text)
      BY <1>1, <1>2, <2>1, <2>2
    <2>6. ASSUME NEW j \in 1..Len(next) PROVE text[c + 1 + j - 1] = next[j]
      <3>1. c + 1 + j - 1 \in 1..l /\ a + (c + 1 + j - 1) = b + j
        BY <1>1, <1>2, <1>4, <2>1, <2>2
      <3> QED
        BY <2>1, <2>2, <3>1
    <2> HIDE DEF text, c, l
    <2>7. SubSeq(text, c + 1, l) = next
      BY <2>1, <2>2, <2>5, <2>6, SameSubSeq DEF l
    <2> QED
      BY <2>4, <2>7 DEF next
  <1>5. ASSUME a <= t, t < b PROVE EndsWithin(text, code)
    <2> HIDE DEF text, code, a, b
    <2>1. l < c /\ \A j \in 1..l : j \in 1..c
      BY <1>1, <1>2, <1>3, <1>5
    <2>2. \A j \in 1..l : text[j] = code[j]
      BY <1>2, <1>3, <1>5, <2>1
    <2> QED
      BY <2>1, <2>2 DEF EndsWithin
  <1> QED
    BY <1>4, <1>5

-----------------------------------------------------------------------------
(* What the frames are worth.                                              *)

Part(k, i) == SubSeq(frames, k + 1, i)

LEMMA PartType ==
    ASSUME frames \in Seq(Sendable), NEW k \in 0..Len(frames), NEW i \in k..Len(frames)
    PROVE  /\ Part(k, i) \in Seq(Sendable) /\ Len(Part(k, i)) = i - k /\ i - k \in Nat
           /\ \A j \in 1..(i - k) : Part(k, i)[j] = frames[k + j]
  <1>1. /\ Len(frames) \in Nat /\ k + 1 \in Nat /\ k + 1 >= 1 /\ k + 1 <= i + 1 /\ i \in Nat
        /\ i <= Len(frames) /\ k \in Nat
    BY LenProperties
  <1>2. \A j \in (k + 1)..i : frames[j] \in Sendable
    BY <1>1, ElementOfSeq
  <1> DEFINE m == k + 1
  <1> HIDE DEF m
  <1>3. /\ SubSeq(frames, m, i) \in Seq(Sendable) /\ Len(SubSeq(frames, m, i)) = i - m + 1
        /\ \A j \in 1..(i - m + 1) : SubSeq(frames, m, i)[j] = frames[m + j - 1]
    BY <1>1, <1>2, SubSeqProperties DEF m
  <1>4. i - m + 1 = i - k /\ \A j \in 1..(i - k) : m + j - 1 = k + j
    BY <1>1 DEF m
  <1> QED
    BY <1>1, <1>3, <1>4 DEF m, Part

LEMMA BodyOfType == \A f \in Sendable : BodyOf(f) \in Seq(Bodies)
  <1> SUFFICES ASSUME NEW f \in Sendable PROVE BodyOf(f) \in Seq(Bodies)
    OBVIOUS
  <1>1. f.kind = "msg" => f.body \in Bodies
    BY DEF Sendable, Frame
  <1>2. f.kind = "msg" => <<f.body>> \in Seq(Bodies)
    BY <1>1, SmallSeqs
  <1> QED
    BY <1>2, SmallSeqs DEF BodyOf

LEMMA BodiesOfConcat ==
    ASSUME NEW a \in Seq(Sendable), NEW b \in Seq(Sendable), NEW c \in Seq(Sendable),
           Joined(a, b, c)
    PROVE  /\ BodiesOf(a) \in Seq(Bodies) /\ BodiesOf(b) \in Seq(Bodies)
           /\ BodiesOf(c) = BodiesOf(a) \o BodiesOf(b)
  <1> DEFINE M == [f \in Sendable |-> BodyOf(f)]
  <1>1. M \in Maps(Sendable, Seq(Bodies))
    BY BodyOfType DEF Maps
  <1>2. ASSUME NEW fs \in Seq(Sendable)
        PROVE  BodiesOf(fs) = FlattenSeq(Mapped(M, fs))
    <2>1. \A i \in 1..Len(fs) : fs[i] \in Sendable
      BY LenProperties
    <2>2. Mapped(M, fs) = [i \in 1..Len(fs) |-> BodyOf(fs[i])]
      BY <2>1 DEF Mapped
    <2> QED
      BY <2>2, Zenon DEF BodiesOf, BodyOf
  <1> HIDE DEF M
  <1>3. ASSUME NEW fs \in Seq(Sendable)
        PROVE  FlattenSeq(Mapped(M, fs)) \in Seq(Bodies)
    <2>1. Mapped(M, fs) \in Seq(Seq(Bodies))
      BY <1>1, MappedType
    <2> QED
      BY <2>1, FlattenType
  <1>4. FlattenSeq(Mapped(M, c)) = FlattenSeq(Mapped(M, a)) \o FlattenSeq(Mapped(M, b))
    BY <1>1, MapConcat
  <1> QED
    BY <1>2, <1>3, <1>4, Zenon

LEMMA BodiesOfPart ==
    ASSUME frames \in Seq(Sendable), NEW k \in 0..Len(frames), NEW i \in k..Len(frames)
    PROVE  /\ BodiesOf(Part(k, i)) \in Seq(Bodies)
           /\ BodiesOf(Part(k, k)) = <<>>
           /\ BodiesOf(Part(0, i)) = BodiesOf(Part(0, k)) \o BodiesOf(Part(k, i))
           /\ i < Len(frames) =>
                BodiesOf(Part(k, i + 1)) = BodiesOf(Part(k, i)) \o BodyOf(frames[i + 1])
  <1>1. /\ Len(frames) \in Nat /\ k \in Nat /\ i \in Nat /\ k <= i /\ i <= Len(frames)
        /\ 0 \in 0..Len(frames) /\ i \in 0..Len(frames) /\ k \in 0..Len(frames) /\ k \in k..Len(frames)
    BY LenProperties
  <1> DEFINE a == Part(0, k)
             b == Part(k, i)
             c == Part(0, i)
             d == Part(k, i + 1)
             o == <<frames[i + 1]>>
  <1>2. /\ a \in Seq(Sendable) /\ Len(a) = k /\ \A j \in 1..k : a[j] = frames[j]
    <2>1. /\ Part(0, k) \in Seq(Sendable) /\ Len(Part(0, k)) = k - 0
          /\ \A j \in 1..(k - 0) : Part(0, k)[j] = frames[0 + j]
      BY <1>1, PartType
    <2> QED
      BY <1>1, <2>1
  <1>3. /\ b \in Seq(Sendable) /\ Len(b) = i - k /\ \A j \in 1..(i - k) : b[j] = frames[k + j]
    BY <1>1, PartType
  <1>4. /\ c \in Seq(Sendable) /\ Len(c) = i /\ \A j \in 1..i : c[j] = frames[j]
    <2>1. /\ Part(0, i) \in Seq(Sendable) /\ Len(Part(0, i)) = i - 0
          /\ \A j \in 1..(i - 0) : Part(0, i)[j] = frames[0 + j]
      BY <1>1, PartType
    <2> QED
      BY <1>1, <2>1
  <1>5. Part(k, k) = <<>>
    <2>1. Part(k, k) \in Seq(Sendable) /\ Len(Part(k, k)) = k - k
      BY <1>1, PartType
    <2>2. Len(Part(k, k)) = 0
      BY <1>1, <2>1
    <2> QED
      BY <2>1, <2>2, EmptySeq
  <1>6. BodiesOf(<<>>) = <<>>
    <2>1. [j \in 1..Len(<<>>) |-> IF <<>>[j].kind = "msg" THEN <<<<>>[j].body>> ELSE <<>>] = <<>>
      OBVIOUS
    <2> QED
      BY <2>1, FlattenEmpty, Zenon DEF BodiesOf
  <1> HIDE DEF a, b, c, d
  <1>7. BodiesOf(c) = BodiesOf(a) \o BodiesOf(b) /\ BodiesOf(b) \in Seq(Bodies)
    <2>1. Len(c) = Len(a) + Len(b)
      BY <1>1, <1>2, <1>3, <1>4
    <2>2. ASSUME NEW j \in 1..Len(c)
          PROVE  c[j] = IF j <= Len(a) THEN a[j] ELSE b[j - Len(a)]
      <3>1. CASE j <= k
        BY <1>1, <1>2, <1>4, <2>2, <3>1
      <3>2. CASE ~(j <= k)
        <4>1. j - k \in 1..(i - k) /\ k + (j - k) = j
          BY <1>1, <1>4, <2>2, <3>2
        <4>2. b[j - k] = frames[j]
          BY <1>3, <4>1
        <4> QED
          BY <1>1, <1>2, <1>4, <2>2, <3>2, <4>2
      <3> QED
        BY <3>1, <3>2
    <2> QED
      BY <1>2, <1>3, <1>4, <2>1, <2>2, BodiesOfConcat DEF Joined
  <1>8. ASSUME i < Len(frames)
        PROVE  BodiesOf(d) = BodiesOf(b) \o BodyOf(frames[i + 1])
    <2>1. /\ i + 1 \in k..Len(frames) /\ frames[i + 1] \in Sendable /\ i + 1 - k = (i - k) + 1
      BY <1>1, <1>8, ElementOfSeq
    <2>2. /\ d \in Seq(Sendable) /\ Len(d) = i + 1 - k
          /\ \A j \in 1..(i + 1 - k) : d[j] = frames[k + j]
      BY <1>1, <2>1, PartType DEF d
    <2>3. o \in Seq(Sendable) /\ Len(o) = 1 /\ o[1] = frames[i + 1]
      <3> DEFINE f == frames[i + 1]
      <3>1. f \in Sendable
        BY <2>1
      <3> HIDE DEF f
      <3>2. <<f>> \in Seq(Sendable) /\ Len(<<f>>) = 1 /\ <<f>>[1] = f
        BY <3>1, SmallSeqs
      <3> QED
        BY <3>2 DEF f
    <2> HIDE DEF o
    <2>4. Len(d) = Len(b) + Len(o)
      BY <1>1, <1>3, <2>2, <2>3
    <2>5. ASSUME NEW j \in 1..Len(d)
          PROVE  d[j] = IF j <= Len(b) THEN b[j] ELSE o[j - Len(b)]
      <3>1. CASE j <= i - k
        BY <1>1, <1>3, <2>2, <2>5, <3>1
      <3>2. CASE ~(j <= i - k)
        <4>1. j = (i - k) + 1 /\ k + j = i + 1 /\ j - (i - k) = 1
          BY <1>1, <2>2, <2>5, <3>2
        <4> QED
          BY <1>1, <1>3, <2>2, <2>3, <2>5, <3>2, <4>1
      <3> QED
        BY <3>1, <3>2
    <2>6. BodiesOf(d) = BodiesOf(b) \o BodiesOf(o)
      BY <1>3, <2>2, <2>3, <2>4, <2>5, BodiesOfConcat DEF Joined
    <2>7. BodiesOf(o) = BodyOf(frames[i + 1])
      <3> DEFINE f == frames[i + 1]
                 g == BodyOf(f)
      <3>1. g \in Seq(Bodies)
        BY <2>1, BodyOfType
      <3>2. BodiesOf(o) = FlattenSeq([j \in 1..Len(o) |-> BodyOf(o[j])])
        BY Zenon DEF BodiesOf, BodyOf
      <3> HIDE DEF g
      <3>3. [j \in 1..Len(o) |-> BodyOf(o[j])] = <<g>>
        <4>1. \A j \in 1..Len(o) : j = 1 /\ BodyOf(o[j]) = g
          BY <2>3 DEF g
        <4>2. [j \in 1..Len(o) |-> BodyOf(o[j])] = [j \in 1..1 |-> g]
          BY <2>3, <4>1
        <4>3. [j \in 1..1 |-> g] = <<g>>
          OBVIOUS
        <4> QED
          BY <4>2, <4>3, Zenon
      <3> QED
        BY <3>1, <3>2, <3>3, FlattenOne DEF g
    <2> QED
      BY <2>6, <2>7, Zenon
  <1> QED
    BY <1>5, <1>6, <1>7, <1>8 DEF a, b, c, d

\* The PINGs among the first frames.
Pings(i) == {j \in 1..i : frames[j].kind = "ping"}

LEMMA PingsCount ==
    ASSUME frames \in Seq(Sendable), NEW k \in 0..Len(frames), NEW i \in k..Len(frames)
    PROVE  /\ PingsIn(Part(0, i)) = Pings(i)
           /\ Cardinality(Pings(i)) \in Nat /\ Cardinality(Pings(k)) \in Nat
           /\ Cardinality(Pings(k)) <= Cardinality(Pings(i))
           /\ Cardinality(Pings(0)) = 0
           /\ i < Len(frames) =>
                Cardinality(Pings(i + 1)) = Cardinality(Pings(i)) + PingOf(frames[i + 1])
  <1>1. /\ Len(frames) \in Nat /\ k \in Nat /\ i \in Nat /\ k <= i /\ i \in 0..Len(frames)
        /\ 0 \in 0..Len(frames)
    BY LenProperties
  <1>2. PingsIn(Part(0, i)) = Pings(i)
    <2>1. /\ Len(Part(0, i)) = i - 0 /\ \A j \in 1..(i - 0) : Part(0, i)[j] = frames[0 + j]
      BY <1>1, PartType
    <2>2. Len(Part(0, i)) = i /\ \A j \in 1..i : Part(0, i)[j] = frames[j]
      BY <1>1, <2>1
    <2> QED
      BY <2>2 DEF PingsIn, Pings
  <1>3. ASSUME NEW n \in Nat
        PROVE  IsFiniteSet(Pings(n)) /\ Cardinality(Pings(n)) \in Nat
    <2>1. IsFiniteSet(1..n)
      BY FS_Interval
    <2>2. Pings(n) \in SUBSET (1..n)
      BY DEF Pings
    <2>3. IsFiniteSet(Pings(n))
      BY <2>1, <2>2, FS_Subset
    <2> QED
      BY <2>3, FS_CardinalityType
  <1>4. Cardinality(Pings(k)) <= Cardinality(Pings(i))
    <2>1. Pings(k) \in SUBSET Pings(i)
      BY <1>1 DEF Pings
    <2> QED
      BY <1>1, <1>3, <2>1, FS_Subset
  <1>5. Cardinality(Pings(0)) = 0
    <2>1. Pings(0) = {}
      BY DEF Pings
    <2> QED
      BY <2>1, FS_EmptySet
  <1>6. ASSUME i < Len(frames)
        PROVE  Cardinality(Pings(i + 1)) = Cardinality(Pings(i)) + PingOf(frames[i + 1])
    <2>1. CASE frames[i + 1].kind = "ping"
      <3>1. Pings(i + 1) = Pings(i) \cup {i + 1} /\ i + 1 \notin Pings(i)
        BY <1>1, <2>1 DEF Pings
      <3>2. Cardinality(Pings(i) \cup {i + 1}) = Cardinality(Pings(i)) + 1
        BY <1>1, <1>3, <3>1, FS_AddElement
      <3> QED
        BY <2>1, <3>1, <3>2 DEF PingOf
    <2>2. CASE frames[i + 1].kind # "ping"
      <3>1. Pings(i + 1) = Pings(i)
        BY <1>1, <2>2 DEF Pings
      <3>2. Cardinality(Pings(i)) + 0 = Cardinality(Pings(i))
        BY <1>1, <1>3
      <3> QED
        BY <2>2, <3>1, <3>2 DEF PingOf
    <2> QED
      BY <2>1, <2>2
  <1> QED
    BY <1>1, <1>2, <1>3, <1>4, <1>5, <1>6

-----------------------------------------------------------------------------
(* The loop.                                                               *)

\* What ReadAll() is defined by.
Recurs(text, f) == f = [n \in Nat |-> IF n = 0 THEN Nothing(text) ELSE Pass(f[n - 1])]

LEMMA ReadAllIs ==
    ASSUME NEW text, Len(text) \in Nat, NEW h, Recurs(text, h)
    PROVE  ReadAll(text) = h[Len(text)]
  <1> DEFINE g == CHOOSE f : Recurs(text, f)
  <1>1. Recurs(text, g)
    BY Zenon
  <1>2. ReadAll(text) = g[Len(text)]
    BY Zenon DEF ReadAll, Recurs
  <1> HIDE DEF g
  <1> DEFINE T == {n \in Nat : g[n] = h[n]}
  <1>3. 0 \in T
    <2>1. g[0] = Nothing(text) /\ h[0] = Nothing(text)
      BY <1>1 DEF Recurs
    <2> QED
      BY <2>1
  <1>4. ASSUME NEW n \in Nat, n \in T PROVE n + 1 \in T
    <2>1. n + 1 \in Nat /\ n + 1 # 0 /\ (n + 1) - 1 = n
      OBVIOUS
    <2>2. g[n + 1] = Pass(g[(n + 1) - 1]) /\ h[n + 1] = Pass(h[(n + 1) - 1])
      BY <1>1, <2>1 DEF Recurs
    <2>3. g[n] = h[n]
      BY <1>4
    <2>4. g[n + 1] = h[n + 1]
      BY <2>1, <2>2, <2>3
    <2> QED
      BY <2>1, <2>4
  <1> HIDE DEF T
  <1>5. Nat \subseteq T
    BY <1>3, <1>4, SetInduction
  <1>6. Len(text) \in T
    BY <1>5
  <1> QED
    BY <1>2, <1>6 DEF T

AllLegible == \A i \in 1..Len(frames) : Legible(frames[i])

\* The call that began after k frames, when it has taken those up to i.
Progress(k, i, t) ==
    [rest |-> Unread(i, t),
     payloads |-> BodiesOf(Part(k, i)),
     pongs |-> Cardinality(Pings(i)) - Cardinality(Pings(k))]

LEMMA ProgressType ==
    ASSUME frames \in Seq(Sendable), NEW k \in 0..Len(frames), NEW i \in k..Len(frames),
           NEW t \in 0..Len(Stream), Len(Upto(i)) <= t
    PROVE  Progress(k, i, t) \in CallStates
  <1> DEFINE r == Unread(i, t)
             p == BodiesOf(Part(k, i))
             q == Cardinality(Pings(i)) - Cardinality(Pings(k))
  <1>1. i \in 0..Len(frames)
    BY LenProperties
  <1>2. r \in Text
    BY <1>1, UnreadType
  <1>3. p \in Seq(Bodies)
    BY BodiesOfPart
  <1>4. q \in Nat
    BY PingsCount
  <1> HIDE DEF r, p, q
  <1>5. [rest |-> r, payloads |-> p, pongs |-> q] \in CallStates
    BY <1>2, <1>3, <1>4 DEF CallStates
  <1> QED
    BY <1>5, Zenon DEF Progress, r, p, q

LEMMA ProgressStarts ==
    ASSUME frames \in Seq(Sendable), NEW k \in 0..Len(frames), NEW t
    PROVE  Progress(k, k, t) = Nothing(Unread(k, t))
  <1>1. k \in k..Len(frames)
    BY LenProperties
  <1>2. BodiesOf(Part(k, k)) = <<>>
    BY <1>1, BodiesOfPart
  <1>3. Cardinality(Pings(k)) - Cardinality(Pings(k)) = 0
    BY <1>1, PingsCount
  <1> QED
    BY <1>2, <1>3, Zenon DEF Progress, Nothing

LEMMA ProgressStep ==
    ASSUME frames \in Seq(Sendable), AllLegible,
           NEW k \in 0..Len(frames), NEW i \in k..(Len(frames) - 1),
           NEW t \in 0..Len(Stream), Len(Upto(i + 1)) <= t
    PROVE  Pass(Progress(k, i, t)) = Progress(k, i + 1, t)
  <1> DEFINE f == frames[i + 1]
             call == Progress(k, i, t)
             x == Cardinality(Pings(i))
             y == Cardinality(Pings(k))
             z == Cardinality(Pings(i + 1))
  <1>1. /\ Len(frames) \in Nat /\ k \in Nat /\ i \in Nat /\ i < Len(frames) /\ i \in k..Len(frames)
        /\ i \in 0..(Len(frames) - 1) /\ i + 1 \in 1..Len(frames) /\ i \in 0..Len(frames)
        /\ t \in Nat
    BY UptoLength
  <1>2. f \in Sendable /\ Legible(f)
    BY <1>1, StreamAt DEF AllLegible
  <1>3. Len(Upto(i)) <= t
    <2>1. /\ Len(Upto(i + 1)) > Len(Upto(i)) /\ Len(Upto(i)) \in Nat
          /\ Len(Upto(i + 1)) \in Nat
      BY <1>1, UptoLength
    <2> QED
      BY <1>1, <2>1
  <1>4. call \in CallStates
    BY <1>1, <1>3, ProgressType
  <1>5. /\ StartsWith(Unread(i, t), Coding(f))
        /\ SubSeq(Unread(i, t), Len(Coding(f)) + 1, Len(Unread(i, t))) = Unread(i + 1, t)
    BY <1>1, UnreadStarts
  <1>6. /\ call.rest = Unread(i, t) /\ call.payloads = BodiesOf(Part(k, i))
        /\ call.pongs = x - y
    BY DEF Progress
  <1> HIDE DEF call
  <1>7. Pass(call) = Taken(call, f)
    <2>1. StartsWith(call.rest, Coding(f))
      BY <1>5, <1>6, Zenon
    <2> HIDE DEF f
    <2> QED
      BY <1>2, <1>4, <2>1, PassTakes
  <1>8. BodiesOf(Part(k, i)) \o BodyOf(f) = BodiesOf(Part(k, i + 1))
    BY <1>1, BodiesOfPart
  <1>9. (x - y) + PingOf(f) = z - y
    <2>1. x \in Nat /\ y \in Nat /\ z = x + PingOf(f)
      BY <1>1, PingsCount
    <2>2. PingOf(f) \in Nat
      BY DEF PingOf
    <2> HIDE DEF x, y, z
    <2> QED
      BY <2>1, <2>2
  <1>10. Taken(call, f) =
           [rest |-> Unread(i + 1, t), payloads |-> BodiesOf(Part(k, i + 1)), pongs |-> z - y]
    BY <1>5, <1>6, <1>8, <1>9, Zenon DEF Taken
  <1> QED
    BY <1>7, <1>10, Zenon DEF Progress, call

LEMMA ProgressEnds ==
    ASSUME frames \in Seq(Sendable), AllLegible,
           NEW k \in 0..Len(frames), NEW i \in k..Len(frames), NEW t, Reached(i, t)
    PROVE  Pass(Progress(k, i, t)) = Progress(k, i, t)
  <1> DEFINE call == Progress(k, i, t)
  <1>1. /\ i \in 0..Len(frames) /\ t \in 0..Len(Stream) /\ Len(Upto(i)) <= t
        /\ (i < Len(frames) => t < Len(Upto(i + 1))) /\ Len(frames) \in Nat
    BY UptoLength DEF Reached
  <1>2. call \in CallStates /\ call.rest = Unread(i, t)
    BY <1>1, ProgressType DEF Progress
  <1> HIDE DEF call
  <1>3. CASE i < Len(frames)
    <2> DEFINE f == frames[i + 1]
    <2>1. i \in 0..(Len(frames) - 1) /\ i + 1 \in 1..Len(frames)
      BY <1>1, <1>3
    <2>2. f \in Sendable /\ Legible(f)
      BY <2>1, StreamAt DEF AllLegible
    <2>3. EndsWithin(Unread(i, t), Coding(f))
      BY <1>1, <1>3, <2>1, UnreadStarts
    <2>4. EndsWithin(call.rest, Coding(f))
      BY <1>2, <2>3, Zenon
    <2> HIDE DEF f
    <2>5. Pass(call) = call
      BY <1>2, <2>2, <2>4, PassTakes
    <2> QED
      BY <2>5 DEF call
  <1>4. CASE i = Len(frames)
    <2>1. /\ Len(Upto(i)) = Len(Stream) /\ Len(Stream) \in Nat
      BY <1>4, UptoLength
    <2>2. t - Len(Upto(i)) = 0
      BY <1>1, <2>1
    <2>3. Unread(i, t) \in Text /\ Len(Unread(i, t)) = t - Len(Upto(i))
      BY <1>1, UnreadType
    <2>4. Unread(i, t) = <<>>
      BY <2>2, <2>3, EmptySeq DEF Text
    <2>5. Pass(call) = call
      BY <1>2, <2>4, PassEmpty
    <2> QED
      BY <2>5 DEF call
  <1> QED
    BY <1>1, <1>3, <1>4

\* Whatever has come, the loop takes the frames that are complete.
LEMMA ReadAllTakes ==
    ASSUME frames \in Seq(Sendable), AllLegible,
           NEW k \in 0..Len(frames), NEW i \in k..Len(frames), NEW t, Reached(i, t)
    PROVE  ReadAll(Unread(k, t)) = Progress(k, i, t)
  <1> DEFINE text == Unread(k, t)
             Stop(n) == IF k + n <= i THEN k + n ELSE i
             h == [n \in Nat |-> Progress(k, Stop(n), t)]
  <1>1. /\ Len(frames) \in Nat /\ i \in 0..Len(frames) /\ k \in Nat /\ i \in Nat /\ k <= i
        /\ i <= Len(frames) /\ t \in 0..Len(Stream) /\ t \in Nat /\ Len(Stream) \in Nat
        /\ Len(Upto(i)) <= t
    BY UptoLength DEF Reached
  <1>2. /\ i - k <= Len(Upto(i)) - Len(Upto(k)) /\ Len(Upto(i)) \in Nat /\ Len(Upto(k)) \in Nat
        /\ Len(Upto(k)) <= t
    <2>1. i - k <= Len(Upto(i)) - Len(Upto(k)) /\ Len(Upto(i)) \in Nat /\ Len(Upto(k)) \in Nat
      BY <1>1, UptoGrows, UptoLength
    <2> QED
      BY <1>1, <2>1
  <1>3. Len(text) \in Nat /\ Len(text) = t - Len(Upto(k))
    BY <1>1, <1>2, UnreadType
  <1>4. Stop(Len(text)) = i
    BY <1>1, <1>2, <1>3
  <1>5. Stop(0) = k
    BY <1>1
  <1>6. ASSUME NEW n \in Nat \ {0}
        PROVE  Progress(k, Stop(n), t) = Pass(Progress(k, Stop(n - 1), t))
    <2>1. CASE k + n <= i
      <3> DEFINE j == k + (n - 1)
      <3>1. Stop(n) = j + 1 /\ Stop(n - 1) = j /\ j \in k..(Len(frames) - 1) /\ j + 1 \in 0..Len(frames)
            /\ i \in (j + 1)..Len(frames)
        BY <1>1, <2>1
      <3>2. Len(Upto(j + 1)) <= t
        <4>1. i - (j + 1) <= Len(Upto(i)) - Len(Upto(j + 1)) /\ Len(Upto(j + 1)) \in Nat
          BY <3>1, UptoGrows, UptoLength
        <4>2. i - (j + 1) >= 0
          BY <1>1, <2>1
        <4> HIDE DEF j
        <4>3. j \in Nat
          BY <1>1, <3>1
        <4> QED
          BY <1>1, <1>2, <4>1, <4>2, <4>3
      <3> HIDE DEF j
      <3>3. Pass(Progress(k, j, t)) = Progress(k, j + 1, t)
        BY <1>1, <3>1, <3>2, ProgressStep
      <3> HIDE DEF Stop
      <3> QED
        BY <3>1, <3>3, Zenon
    <2>2. CASE ~(k + n <= i)
      <3>1. Stop(n) = i /\ Stop(n - 1) = i
        BY <1>1, <2>2
      <3>2. Pass(Progress(k, i, t)) = Progress(k, i, t)
        BY ProgressEnds
      <3> HIDE DEF Stop
      <3> QED
        BY <3>1, <3>2, Zenon
    <2> QED
      BY <2>1, <2>2
  <1>7. Progress(k, Stop(0), t) = Nothing(text)
    <2>1. Progress(k, k, t) = Nothing(text)
      BY ProgressStarts
    <2> HIDE DEF Stop, text
    <2> QED
      BY <1>5, <2>1, Zenon
  <1> HIDE DEF Stop, text
  <1>8. Recurs(text, h)
    <2>1. \A n \in Nat : n # 0 => n - 1 \in Nat
      OBVIOUS
    <2>2. ASSUME NEW n \in Nat
          PROVE  Progress(k, Stop(n), t) = IF n = 0 THEN Nothing(text) ELSE Pass(h[n - 1])
      <3>1. CASE n = 0
        BY <1>7, <3>1, Zenon
      <3>2. CASE n # 0
        <4>1. h[n - 1] = Progress(k, Stop(n - 1), t)
          BY <2>1, <3>2, Zenon
        <4>2. Progress(k, Stop(n), t) = Pass(Progress(k, Stop(n - 1), t))
          BY <1>6, <3>2
        <4> HIDE DEF h
        <4> QED
          BY <3>2, <4>1, <4>2, Zenon
      <3> QED
        BY <3>1, <3>2
    <2>3. h = [n \in Nat |-> IF n = 0 THEN Nothing(text) ELSE Pass(h[n - 1])]
      <3> DEFINE q == [n \in Nat |-> IF n = 0 THEN Nothing(text) ELSE Pass(h[n - 1])]
                 p(n) == Progress(k, Stop(n), t)
      <3>1. \A n \in Nat : p(n) = IF n = 0 THEN Nothing(text) ELSE Pass(h[n - 1])
        BY <2>2
      <3>2. h = [n \in Nat |-> p(n)]
        OBVIOUS
      <3> HIDE DEF p, h
      <3> QED
        BY <3>1, <3>2
    <2> HIDE DEF h
    <2> QED
      BY <2>3, Zenon DEF Recurs
  <1>9. h[Len(text)] = Progress(k, Stop(Len(text)), t)
    BY <1>3, Zenon
  <1> HIDE DEF h
  <1>10. ReadAll(text) = h[Len(text)]
    BY <1>3, <1>8, ReadAllIs
  <1> QED
    BY <1>4, <1>9, <1>10, Zenon DEF text

-----------------------------------------------------------------------------
(* Chunks.                                                                 *)

\* Text that reads the same as bytes and as characters.
Plain(text) == \A i \in 1..Len(text) : text[i] # "w" /\ text[i] \notin Halves

Slice(r, t) == SubSeq(Stream, r + 1, t)

LEMMA CodingPlain ==
    ASSUME NEW f \in Sendable, Legible(f), channel # "native"
    PROVE  Plain(Coding(f))
  <1> DEFINE code == Coding(f)
             body == f.body
             n == Len(body)
  <1>1. CASE f.kind = "msg"
    <2>1. /\ n \in Nat \ {0} /\ body \in Bodies /\ ToBytes(body) = body
          /\ \A i \in 1..n : body[i] # "w" /\ body[i] \notin Halves
      BY <1>1, OneByteBody
    <2>2. CASE channel = "pipe"
      <3>1. /\ Len(code) = n + 1 /\ code[n + 1] = "NUL" /\ \A i \in 1..n : code[i] = body[i]
        BY <2>2, PipeCoding
      <3>2. \A i \in 1..(n + 1) : i = n + 1 \/ i \in 1..n
        BY <2>1
      <3>3. "NUL" # "w" /\ "NUL" \notin Halves
        BY DEF Halves
      <3> HIDE DEF n, body, code
      <3>4. \A i \in 1..Len(code) : code[i] # "w" /\ code[i] \notin Halves
        BY <2>1, <3>1, <3>2, <3>3
      <3> QED
        BY <3>4 DEF Plain, code
    <2>3. CASE channel # "pipe"
      <3>1. /\ Len(code) = n + 6
            /\ code[1] = "MSG" /\ code[2] = Digit[n] /\ code[3] = "CR" /\ code[4] = "LF"
            /\ \A i \in 1..n : code[4 + i] = body[i]
            /\ code[n + 5] = "CR" /\ code[n + 6] = "LF"
        BY <1>1, <2>3, MessageCoding
      <3>2. Digit[n] # "w" /\ Digit[n] \notin Halves
        <4>1. Digit[n] \in Letters \ {"w"}
          BY <2>1, BodyType
        <4> QED
          BY <4>1, FramingAssumption
      <3>3. \A c \in {"MSG", "CR", "LF"} : c # "w" /\ c \notin Halves
        BY DEF Halves
      <3> HIDE DEF n, body, code
      <3>4. ASSUME NEW i \in 1..Len(code) PROVE code[i] # "w" /\ code[i] \notin Halves
        <4>1. CASE i \in {1, 2, 3, 4, n + 5, n + 6}
          BY <3>1, <3>2, <3>3, <4>1
        <4>2. CASE i \notin {1, 2, 3, 4, n + 5, n + 6}
          <5>1. i - 4 \in 1..n /\ 4 + (i - 4) = i
            BY <2>1, <3>1, <4>2
          <5>2. code[4 + (i - 4)] = body[i - 4]
            BY <3>1, <5>1
          <5> QED
            BY <2>1, <5>1, <5>2
        <4> QED
          BY <4>1, <4>2
      <3> QED
        BY <3>4 DEF Plain, code
    <2> QED
      BY <2>2, <2>3
  <1>2. CASE f.kind # "msg"
    <2> DEFINE w == IF f.kind = "ping" THEN "PING" ELSE "INFO"
    <2>1. Len(code) = 3 /\ code[1] = w /\ code[2] = "CR" /\ code[3] = "LF"
      BY <1>2, ControlCoding
    <2>2. \A c \in {w, "CR", "LF"} : c # "w" /\ c \notin Halves
      BY DEF Halves
    <2> HIDE DEF w, code
    <2>3. \A i \in 1..Len(code) : code[i] # "w" /\ code[i] \notin Halves
      BY <2>1, <2>2
    <2> QED
      BY <2>3 DEF Plain, code
  <1> QED
    BY <1>1, <1>2

LEMMA StreamPlain ==
    ASSUME frames \in Seq(Sendable), AllLegible, channel # "native"
    PROVE  Plain(Stream)
  <1> DEFINE OK(j) == Stream[j] # "w" /\ Stream[j] \notin Halves
             T == {k \in 0..Len(frames) : \A j \in 1..Len(Upto(k)) : OK(j)}
  <1>1. /\ Len(frames) \in Nat /\ Len(Upto(0)) = 0 /\ Len(Upto(Len(frames))) = Len(Stream)
        /\ \A k \in 0..Len(frames) : Len(Upto(k)) \in Nat
    BY UptoLength
  <1> HIDE DEF OK
  <1>2. 0 \in T
    BY <1>1
  <1>3. ASSUME NEW k \in 0..(Len(frames) - 1), k \in T PROVE k + 1 \in T
    <2> DEFINE code == Coding(frames[k + 1])
               a == Len(Upto(k))
    <2>1. /\ frames[k + 1] \in Sendable /\ code \in Text /\ Len(Upto(k + 1)) = a + Len(code)
          /\ \A j \in 1..Len(code) : Stream[a + j] = code[j]
      BY StreamAt
    <2>2. k \in 0..Len(frames) /\ k + 1 \in 1..Len(frames) /\ k + 1 \in 0..Len(frames)
      BY <1>1
    <2>3. \A j \in 1..Len(code) : code[j] # "w" /\ code[j] \notin Halves
      <3>1. Legible(frames[k + 1])
        BY <2>2 DEF AllLegible
      <3> QED
        BY <2>1, <3>1, CodingPlain DEF Plain
    <2>4. a \in Nat /\ Len(code) \in Nat
      BY <1>1, <2>1, <2>2, LenProperties DEF Text
    <2>5. \A j \in 1..a : OK(j)
      BY <1>3
    <2> HIDE DEF code, a
    <2>6. ASSUME NEW j \in 1..(a + Len(code)) PROVE OK(j)
      <3>1. CASE j <= a
        BY <2>4, <2>5, <3>1
      <3>2. CASE ~(j <= a)
        <4>1. j - a \in 1..Len(code) /\ a + (j - a) = j
          BY <2>4, <2>6, <3>2
        <4>2. Stream[a + (j - a)] = code[j - a]
          BY <2>1, <4>1
        <4>3. Stream[j] = code[j - a]
          BY <4>1, <4>2
        <4> QED
          BY <2>3, <4>1, <4>3 DEF OK
      <3> QED
        BY <3>1, <3>2
    <2> QED
      BY <2>1, <2>2, <2>6
  <1> HIDE DEF T
  <1>4. Len(frames) \in T
    BY <1>1, <1>2, <1>3, BoundedInduction
  <1> QED
    BY <1>1, <1>4 DEF T, OK, Plain

LEMMA SliceType ==
    ASSUME frames \in Seq(Sendable), NEW t \in 0..Len(Stream), NEW r \in 0..t
    PROVE  /\ Slice(r, t) \in Text /\ Len(Slice(r, t)) = t - r /\ t - r \in Nat
           /\ \A i \in 1..(t - r) : Slice(r, t)[i] = Stream[r + i]
           /\ AllLegible /\ channel # "native" => Plain(Slice(r, t))
  <1> DEFINE x == Stream
             m == r + 1
             s == SubSeq(x, m, t)
  <1>1. x \in Seq(Alphabet) /\ Len(x) \in Nat
    BY StreamEnds, UptoLength DEF Text
  <1>2. Slice(r, t) = s
    BY Zenon DEF Slice
  <1>3. t \in Nat /\ r \in Nat /\ r <= t /\ t <= Len(x) /\ m \in Nat /\ m >= 1 /\ m <= t + 1
    BY <1>1
  <1> HIDE DEF x
  <1>4. \A i \in m..t : x[i] \in Alphabet
    BY <1>1, <1>3, ElementOfSeq
  <1> HIDE DEF m
  <1>5. /\ s \in Seq(Alphabet) /\ Len(s) = t - m + 1
        /\ \A i \in 1..(t - m + 1) : s[i] = x[m + i - 1]
    BY <1>3, <1>4, SubSeqProperties
  <1> HIDE DEF s
  <1>6. t - m + 1 = t - r /\ t - r \in Nat /\ \A i \in 1..(t - r) : m + i - 1 = r + i
    BY <1>3 DEF m
  <1>7. s \in Text /\ Len(s) = t - r /\ \A i \in 1..(t - r) : s[i] = x[r + i]
    BY <1>5, <1>6 DEF Text
  <1>8. ASSUME AllLegible, channel # "native" PROVE Plain(s)
    <2>1. \A i \in 1..Len(x) : x[i] # "w" /\ x[i] \notin Halves
      BY <1>8, StreamPlain DEF x, Plain
    <2>2. \A i \in 1..(t - r) : r + i \in 1..Len(x)
      BY <1>1, <1>3
    <2> QED
      BY <1>7, <2>1, <2>2 DEF Plain
  <1> QED
    BY <1>2, <1>6, <1>7, <1>8 DEF x

LEMMA SliceJoin ==
    ASSUME frames \in Seq(Sendable), NEW t \in 0..Len(Stream), NEW r \in 0..t, NEW q \in 0..r
    PROVE  Slice(q, r) \o Slice(r, t) = Slice(q, t)
  <1> DEFINE a == Slice(q, r)
             b == Slice(r, t)
             c == Slice(q, t)
             m == r - q
  <1>1. /\ Len(Stream) \in Nat /\ t \in Nat /\ r \in Nat /\ q \in Nat /\ q <= r /\ r <= t
        /\ r \in 0..Len(Stream) /\ q \in 0..t /\ m \in Nat
    BY UptoLength
  <1>2. a \in Text /\ Len(a) = m /\ \A i \in 1..m : a[i] = Stream[q + i]
    BY <1>1, SliceType
  <1>3. b \in Text /\ Len(b) = t - r /\ \A i \in 1..(t - r) : b[i] = Stream[r + i]
    BY <1>1, SliceType
  <1>4. c \in Text /\ Len(c) = t - q /\ \A i \in 1..(t - q) : c[i] = Stream[q + i]
    BY <1>1, SliceType
  <1> HIDE DEF a, b, c, m
  <1> DEFINE d == a \o b
  <1>5. /\ d \in Text /\ Len(d) = m + Len(b)
        /\ \A i \in 1..m : d[i] = a[i]
        /\ \A i \in 1..Len(b) : d[m + i] = b[i]
    BY <1>1, <1>2, <1>3, TextConcat, ZenonT(60)
  <1> HIDE DEF d
  <1>6. Len(d) = Len(c)
    BY <1>1, <1>3, <1>4, <1>5 DEF m
  <1>7. ASSUME NEW i \in 1..Len(d) PROVE d[i] = c[i]
    <2>1. i \in 1..(t - q)
      BY <1>4, <1>6
    <2>2. CASE i <= m
      <3>1. i \in 1..m
        BY <1>1, <2>1, <2>2
      <3>2. d[i] = a[i] /\ a[i] = Stream[q + i] /\ c[i] = Stream[q + i]
        BY <1>2, <1>4, <1>5, <2>1, <3>1
      <3> QED
        BY <3>2
    <2>3. CASE ~(i <= m)
      <3>1. /\ i - m \in 1..(t - r) /\ m + (i - m) = i /\ r + (i - m) = q + i
        BY <1>1, <2>1, <2>3 DEF m
      <3>2. d[m + (i - m)] = b[i - m] /\ b[i - m] = Stream[r + (i - m)]
        BY <1>3, <1>5, <3>1
      <3> QED
        BY <1>4, <2>1, <3>1, <3>2
    <2> QED
      BY <2>2, <2>3
  <1>8. d = c
    BY <1>4, <1>5, <1>6, <1>7, SeqEqual DEF Text
  <1> QED
    BY <1>8 DEF a, b, c, d

LEMMA PlainText ==
    ASSUME NEW t \in Text, Plain(t)
    PROVE  ToText(t) = t /\ ToBytes(t) = t
  BY ToTextOfCharacters, ToBytesOneByte DEF Plain

\* Taking what has come up to byte t.
LEMMA TakeStep ==
    ASSUME frames \in Seq(Sendable), AllLegible, NEW k, NEW r, NEW t \in 0..Len(Stream),
           Reached(k, r), r <= t,
           delivered = BodiesOf(Part(0, k)), pongs = Cardinality(Pings(k)),
           Take(Unread(k, t))
    PROVE  \E i \in 0..Len(frames) :
             /\ Reached(i, t) /\ buffer' = Unread(i, t)
             /\ delivered' = BodiesOf(Part(0, i)) /\ pongs' = Cardinality(Pings(i))
  <1>1. PICK i \in 0..Len(frames) : Reached(i, t)
    BY ReachedExists
  <1>2. k \in 0..Len(frames) /\ Len(frames) \in Nat /\ k <= i
    BY <1>1, UptoLength, ReachedLater DEF Reached
  <1>3. i \in k..Len(frames)
    BY <1>2
  <1> DEFINE call == ReadAll(Unread(k, t))
             x == Cardinality(Pings(i))
             y == Cardinality(Pings(k))
  <1>4. call = Progress(k, i, t)
    BY <1>1, <1>2, <1>3, ReadAllTakes
  <1>5. /\ call.rest = Unread(i, t) /\ call.payloads = BodiesOf(Part(k, i))
        /\ call.pongs = x - y
    BY <1>4 DEF Progress
  <1>6. /\ buffer' = IF channel = "tcp" THEN ToBytes(call.rest) ELSE call.rest
        /\ delivered' = delivered \o call.payloads
        /\ pongs' = pongs + call.pongs
    BY Zenon DEF Take
  <1> HIDE DEF call
  <1>7. buffer' = Unread(i, t)
    <2>1. CASE channel = "tcp"
      <3>1. Unread(i, t) = Slice(Len(Upto(i)), t)
        BY Zenon DEF Unread, Slice
      <3>2. Len(Upto(i)) \in 0..t
        BY <1>1, UptoLength DEF Reached
      <3>3. Plain(Unread(i, t)) /\ Unread(i, t) \in Text
        BY <2>1, <3>1, <3>2, SliceType
      <3>4. ToBytes(Unread(i, t)) = Unread(i, t)
        BY <3>3, PlainText
      <3> QED
        BY <1>5, <1>6, <2>1, <3>4
    <2>2. CASE channel # "tcp"
      BY <1>5, <1>6, <2>2
    <2> QED
      BY <2>1, <2>2
  <1>8. delivered' = BodiesOf(Part(0, i))
    <2>1. BodiesOf(Part(0, i)) = BodiesOf(Part(0, k)) \o BodiesOf(Part(k, i))
      BY <1>2, <1>3, BodiesOfPart
    <2> QED
      BY <1>5, <1>6, <2>1, Zenon
  <1>9. pongs' = x
    <2>1. x \in Nat /\ y \in Nat /\ pongs = y
      BY <1>2, <1>3, PingsCount
    <2> HIDE DEF x, y
    <2>2. y + (x - y) = x
      BY <2>1
    <2> QED
      BY <1>5, <1>6, <2>1, <2>2
  <1> QED
    BY <1>1, <1>7, <1>8, <1>9

-----------------------------------------------------------------------------
(* The invariant.                                                          *)

\* Frames up to k were taken, and what came after them up to byte r is in the
\* buffer; the rest of what has come is in a blob whose read has not returned.
Reading ==
    \E k \in 0..Len(frames), r \in 0..taken :
        /\ Reached(k, r)
        /\ buffer = Unread(k, r)
        /\ delivered = BodiesOf(Part(0, k))
        /\ pongs = Cardinality(Pings(k))
        /\ \/ reads = <<>> /\ r = taken
           \/ /\ channel = "blob"
              /\ reads = <<[before |-> buffer, text |-> Slice(r, taken)]>>

FramingInv ==
    /\ frames \in Seq(Sendable)
    /\ taken \in 0..Len(Stream)
    /\ AllLegible => Reading

LEMMA FramesType ==
    ASSUME FramingInit
    PROVE  frames \in Seq(Sendable)
  <1>1. frames \in BoundedSeq(Frame, MaxFrames)
    BY DEF FramingInit
  <1>2. PICK m \in 0..MaxFrames : frames \in [1..m -> Frame]
    BY <1>1 DEF BoundedSeq, SeqOf
  <1>3. m \in Nat
    BY FramingAssumption
  <1>4. \A i \in 1..m : frames[i] \in Sendable
    BY <1>2 DEF FramingInit, Sendable
  <1>5. frames \in [1..m -> Sendable]
    BY <1>2, <1>4
  <1> QED
    BY <1>3, <1>5, FunctionIsSeq

LEMMA FramingStarts == FramingInit => FramingInv
  <1> SUFFICES ASSUME FramingInit PROVE FramingInv
    OBVIOUS
  <1>1. frames \in Seq(Sendable)
    BY FramesType
  <1>2. /\ taken = 0 /\ buffer = <<>> /\ reads = <<>> /\ delivered = <<>> /\ pongs = 0
    BY DEF FramingInit
  <1>3. /\ Len(frames) \in Nat /\ Len(Stream) \in Nat /\ Len(Upto(0)) = 0
        /\ 0 \in 0..Len(frames) /\ 0 \in 0..Len(Stream)
    BY <1>1, UptoLength
  <1>4. Reached(0, 0)
    <2>1. ASSUME 0 < Len(frames) PROVE 0 < Len(Upto(0 + 1))
      <3>1. Len(Upto(0 + 1)) > Len(Upto(0))
        BY <1>1, <1>3, <2>1, UptoLength
      <3>2. 0 + 1 \in 0..Len(frames)
        BY <1>3, <2>1
      <3>3. Len(Upto(0 + 1)) \in Nat
        BY <1>1, <3>2, UptoLength
      <3> QED
        BY <1>3, <3>1, <3>3
    <2> QED
      BY <1>3, <2>1 DEF Reached
  <1>5. Unread(0, 0) = <<>>
    <2>1. Unread(0, 0) \in Text /\ Len(Unread(0, 0)) = 0 - Len(Upto(0))
      BY <1>1, <1>3, UnreadType
    <2>2. Len(Unread(0, 0)) = 0
      BY <1>3, <2>1
    <2> QED
      BY <2>1, <2>2, EmptySeq DEF Text
  <1>6. BodiesOf(Part(0, 0)) = <<>> /\ Cardinality(Pings(0)) = 0
    <2>1. 0 \in 0..Len(frames) /\ 0 \in 0..Len(frames)
      BY <1>3
    <2> QED
      BY <1>1, <2>1, BodiesOfPart, PingsCount
  <1>7. Reading
    <2>1. 0 \in 0..taken
      BY <1>2
    <2> QED
      BY <1>2, <1>3, <1>4, <1>5, <1>6, <2>1 DEF Reading
  <1> QED
    BY <1>1, <1>2, <1>3, <1>7 DEF FramingInv

\* What depends on the frames alone does not change.
LEMMA Unmoved ==
    ASSUME channel' = channel, frames' = frames
    PROVE  /\ Sendable' = Sendable /\ Stream' = Stream /\ (AllLegible' <=> AllLegible)
           /\ \A k : Len(Upto(k))' = Len(Upto(k))
           /\ \A k, t : (Reached(k, t))' <=> Reached(k, t)
           /\ \A k, t : (Unread(k, t))' = Unread(k, t)
           /\ \A k, t : (Slice(k, t))' = Slice(k, t)
           /\ \A k, i : (Part(k, i))' = Part(k, i)
           /\ \A i : (Pings(i))' = Pings(i)
  <1>1. \A f : (FrameText(f))' = FrameText(f)
    BY DEF FrameText
  <1>2. ASSUME NEW fs PROVE (TextOf(fs))' = TextOf(fs)
    <2>1. (TextOf(fs))' = FlattenSeq([i \in 1..Len(fs) |-> (FrameText(fs[i]))'])
      BY Zenon DEF TextOf
    <2>2. [i \in 1..Len(fs) |-> (FrameText(fs[i]))'] = [i \in 1..Len(fs) |-> FrameText(fs[i])]
      BY <1>1
    <2> QED
      BY <2>1, <2>2, Zenon DEF TextOf
  <1>3. Stream' = Stream
    <2>1. Stream' = ToBytes((TextOf(frames))')
      BY Zenon DEF Stream
    <2>2. (TextOf(frames))' = TextOf(frames)
      BY <1>2, Zenon DEF TextOf
    <2> QED
      BY <2>1, <2>2, Zenon DEF Stream
  <1>4. Sendable' = Sendable
    BY DEF Sendable
  <1>5. AllLegible' <=> AllLegible
    BY DEF AllLegible, Legible
  <1>6. ASSUME NEW k PROVE (Upto(k))' = Upto(k)
    <2>1. (Upto(k))' = ToBytes((TextOf(SubSeq(frames, 1, k)))')
      BY Zenon DEF Upto
    <2>2. (TextOf(SubSeq(frames, 1, k)))' = TextOf(SubSeq(frames, 1, k))
      <3> DEFINE fs == SubSeq(frames, 1, k)
      <3>1. fs' = fs
        OBVIOUS
      <3>2. (TextOf(fs))' = FlattenSeq([i \in 1..Len(fs) |-> (FrameText(fs[i]))'])
        BY <3>1, Zenon DEF TextOf
      <3>3. [i \in 1..Len(fs) |-> (FrameText(fs[i]))'] = [i \in 1..Len(fs) |-> FrameText(fs[i])]
        BY <1>1, <3>1
      <3> QED
        BY <3>2, <3>3, Zenon DEF TextOf
    <2> QED
      BY <2>1, <2>2, Zenon DEF Upto
  <1>7. \A k : Len(Upto(k))' = Len(Upto(k))
    BY <1>6
  <1>8. \A k, t : (Reached(k, t))' <=> Reached(k, t)
    BY <1>3, <1>6, Zenon DEF Reached
  <1>9. \A k, t : (Unread(k, t))' = Unread(k, t)
    BY <1>3, <1>6, Zenon DEF Unread
  <1>10. \A k, t : (Slice(k, t))' = Slice(k, t)
    BY <1>3, Zenon DEF Slice
  <1>11. /\ \A k, i : (Part(k, i))' = Part(k, i)
         /\ \A i : (Pings(i))' = Pings(i)
    BY DEF Part, Pings
  <1> QED
    BY <1>3, <1>4, <1>5, <1>7, <1>8, <1>9, <1>10, <1>11

LEMMA ReadingFrom ==
    ASSUME frames \in Seq(Sendable), channel' = channel, frames' = frames,
           NEW k \in 0..Len(frames), NEW r \in 0..(taken'), Reached(k, r),
           buffer' = Unread(k, r),
           delivered' = BodiesOf(Part(0, k)), pongs' = Cardinality(Pings(k)),
           \/ reads' = <<>> /\ r = taken'
           \/ channel = "blob" /\ reads' = <<[before |-> buffer', text |-> Slice(r, taken')]>>
    PROVE  Reading'
  <1>1. k \in (0..Len(frames))'
    OBVIOUS
  <1>2. /\ (Reached(k, r))' /\ buffer' = (Unread(k, r))'
        /\ delivered' = (BodiesOf(Part(0, k)))' /\ pongs' = (Cardinality(Pings(k)))'
    <2>1. (Part(0, k))' = Part(0, k) /\ (Pings(k))' = Pings(k)
      BY Unmoved
    <2> QED
      BY <2>1, Unmoved
  <1>3. \/ reads' = <<>> /\ r = taken'
        \/ channel' = "blob" /\ reads' = <<[before |-> buffer', text |-> (Slice(r, taken))']>>
    <2>1. (Slice(r, taken))' = Slice(r, taken')
      <3>1. Stream' = Stream
        BY Unmoved
      <3> QED
        BY <3>1, Zenon DEF Slice
    <2> QED
      BY <2>1
  <1> QED
    BY <1>1, <1>2, <1>3, Zenon DEF Reading

LEMMA UnreadJoin ==
    ASSUME frames \in Seq(Sendable), NEW k, NEW r, Reached(k, r), NEW t \in 0..Len(Stream), r <= t
    PROVE  /\ Unread(k, r) \o Slice(r, t) = Unread(k, t)
           /\ AllLegible /\ channel # "native" => ToText(Unread(k, t)) = Unread(k, t)
           /\ AllLegible /\ channel # "native" => ToText(Slice(r, t)) = Slice(r, t)
  <1> DEFINE q == Len(Upto(k))
  <1>1. /\ Len(frames) \in Nat /\ Len(Stream) \in Nat /\ k \in 0..Len(frames) /\ q \in Nat
        /\ r \in 0..t /\ q \in 0..r /\ q \in 0..t
    BY UptoLength DEF Reached
  <1>2. Slice(q, r) \o Slice(r, t) = Slice(q, t)
    BY <1>1, SliceJoin
  <1>3. Unread(k, r) = Slice(q, r) /\ Unread(k, t) = Slice(q, t)
    BY Zenon DEF Unread, Slice
  <1>4. ASSUME AllLegible, channel # "native"
        PROVE  ToText(Slice(q, t)) = Slice(q, t) /\ ToText(Slice(r, t)) = Slice(r, t)
    <2>1. /\ Slice(q, t) \in Text /\ Plain(Slice(q, t))
          /\ Slice(r, t) \in Text /\ Plain(Slice(r, t))
      BY <1>1, <1>4, SliceType
    <2> QED
      BY <2>1, PlainText
  <1> HIDE DEF q
  <1> QED
    BY <1>2, <1>3, <1>4

\* A chunk that is read at once.
LEMMA ChunkRead ==
    ASSUME FramingInv, AllLegible, reads = <<>>, UNCHANGED reads, NEW n, Arrives(n),
           \A k \in 0..Len(frames) :
             Reached(k, taken) /\ buffer = Unread(k, taken) => Take(Unread(k, taken + n))
    PROVE  Reading'
  <1> DEFINE t == taken + n
  <1>1. /\ frames \in Seq(Sendable) /\ taken \in 0..Len(Stream) /\ Len(Stream) \in Nat
        /\ Reading /\ channel' = channel /\ frames' = frames /\ taken' = t
        /\ t \in 0..Len(Stream) /\ taken <= t
    BY UptoLength DEF FramingInv, Arrives
  <1>2. PICK k \in 0..Len(frames) :
          /\ Reached(k, taken) /\ buffer = Unread(k, taken)
          /\ delivered = BodiesOf(Part(0, k)) /\ pongs = Cardinality(Pings(k))
    BY <1>1 DEF Reading
  <1>3. Take(Unread(k, t))
    BY <1>2
  <1> HIDE DEF t
  <1>4. PICK i \in 0..Len(frames) :
          /\ Reached(i, t) /\ buffer' = Unread(i, t)
          /\ delivered' = BodiesOf(Part(0, i)) /\ pongs' = Cardinality(Pings(i))
    BY <1>1, <1>2, <1>3, TakeStep
  <1>5. t \in 0..(taken') /\ reads' = <<>> /\ t = taken'
    BY <1>1
  <1> QED
    BY <1>1, <1>4, <1>5, ReadingFrom

LEMMA ChunkIs ==
    ASSUME NEW n, taken \in Nat
    PROVE  Chunk(n) = Slice(taken, taken + n)
  BY Zenon DEF Chunk, Slice

LEMMA ArrivesWithin ==
    ASSUME FramingInv, NEW n, Arrives(n)
    PROVE  /\ taken \in Nat /\ n \in Nat /\ taken + n \in 0..Len(Stream) /\ taken <= taken + n
           /\ frames \in Seq(Sendable) /\ taken \in 0..(taken + n)
  BY UptoLength DEF FramingInv, Arrives

LEMMA NothingInBlob ==
    ASSUME Reading, channel # "blob"
    PROVE  reads = <<>>
  BY DEF Reading

LEMMA FramingSteps ==
    ASSUME MaxReads <= 1, FramingInv, AllLegible, [FramingNext]_framingVars
    PROVE  Reading'
  <1> USE DEF FramingInv
  <1>1. /\ frames \in Seq(Sendable) /\ taken \in 0..Len(Stream) /\ Len(Stream) \in Nat
        /\ taken \in Nat /\ Reading
    BY UptoLength
  <1>2. ASSUME NEW n \in 1..Len(Stream), ReadWebSocket(n) PROVE Reading'
    <2>1. Arrives(n) /\ Take(buffer \o ToText(Chunk(n))) /\ UNCHANGED reads /\ channel \notin {"blob", "native"}
      BY <1>2 DEF ReadWebSocket
    <2>2. reads = <<>>
      BY <1>1, <2>1, NothingInBlob
    <2>3. ASSUME NEW k \in 0..Len(frames), Reached(k, taken), buffer = Unread(k, taken)
          PROVE  Take(Unread(k, taken + n))
      <3>1. /\ Unread(k, taken) \o Slice(taken, taken + n) = Unread(k, taken + n)
            /\ ToText(Slice(taken, taken + n)) = Slice(taken, taken + n)
        BY <2>1, <2>3, ArrivesWithin, UnreadJoin
      <3>2. buffer \o ToText(Chunk(n)) = Unread(k, taken + n)
        BY <1>1, <2>3, <3>1, ChunkIs, Zenon
      <3> QED
        BY <2>1, <3>2, Zenon
    <2> QED
      BY <2>1, <2>2, <2>3, ChunkRead
  <1>3. ASSUME NEW n \in 1..Len(Stream), ReadTcp(n) PROVE Reading'
    <2>1. Arrives(n) /\ Take(ToText(buffer \o Chunk(n))) /\ UNCHANGED reads /\ channel \notin {"blob", "native"}
      BY <1>3 DEF ReadTcp
    <2>2. reads = <<>>
      BY <1>1, <2>1, NothingInBlob
    <2>3. ASSUME NEW k \in 0..Len(frames), Reached(k, taken), buffer = Unread(k, taken)
          PROVE  Take(Unread(k, taken + n))
      <3>1. /\ Unread(k, taken) \o Slice(taken, taken + n) = Unread(k, taken + n)
            /\ ToText(Unread(k, taken + n)) = Unread(k, taken + n)
        BY <2>1, <2>3, ArrivesWithin, UnreadJoin
      <3>2. ToText(buffer \o Chunk(n)) = Unread(k, taken + n)
        BY <1>1, <2>3, <3>1, ChunkIs, Zenon
      <3> QED
        BY <2>1, <3>2, Zenon
    <2> QED
      BY <2>1, <2>2, <2>3, ChunkRead
  <1>4. ASSUME NEW n \in 1..Len(Stream), ReadPipeChunk(n) PROVE Reading'
    <2>1. Arrives(n) /\ Take(buffer \o ToText(Chunk(n))) /\ UNCHANGED reads /\ channel \notin {"blob", "native"}
      BY <1>4 DEF ReadPipeChunk
    <2>2. reads = <<>>
      BY <1>1, <2>1, NothingInBlob
    <2>3. ASSUME NEW k \in 0..Len(frames), Reached(k, taken), buffer = Unread(k, taken)
          PROVE  Take(Unread(k, taken + n))
      <3>1. /\ Unread(k, taken) \o Slice(taken, taken + n) = Unread(k, taken + n)
            /\ ToText(Slice(taken, taken + n)) = Slice(taken, taken + n)
        BY <2>1, <2>3, ArrivesWithin, UnreadJoin
      <3>2. buffer \o ToText(Chunk(n)) = Unread(k, taken + n)
        BY <1>1, <2>3, <3>1, ChunkIs, Zenon
      <3> QED
        BY <2>1, <3>2, Zenon
    <2> QED
      BY <2>1, <2>2, <2>3, ChunkRead
  <1>5. ASSUME NEW n \in 1..Len(Stream), ReadNative(n) PROVE Reading'
    <2>1. Arrives(n) /\ Take(buffer \o Chunk(n)) /\ UNCHANGED reads /\ channel # "blob"
      BY <1>5 DEF ReadNative
    <2>2. reads = <<>>
      BY <1>1, <2>1, NothingInBlob
    <2>3. ASSUME NEW k \in 0..Len(frames), Reached(k, taken), buffer = Unread(k, taken)
          PROVE  Take(Unread(k, taken + n))
      <3>1. Unread(k, taken) \o Slice(taken, taken + n) = Unread(k, taken + n)
        BY <2>1, <2>3, ArrivesWithin, UnreadJoin
      <3>2. buffer \o Chunk(n) = Unread(k, taken + n)
        BY <1>1, <2>3, <3>1, ChunkIs, Zenon
      <3> QED
        BY <2>1, <3>2, Zenon
    <2> QED
      BY <2>1, <2>2, <2>3, ChunkRead
  <1>6. ASSUME NEW n \in 1..Len(Stream), ReadBlob(n) PROVE Reading'
    <2> DEFINE chunk == Slice(taken, taken + n)
               read == [before |-> buffer, text |-> chunk]
    <2>1. /\ channel = "blob" /\ Len(reads) < MaxReads /\ Arrives(n)
          /\ reads' = Append(reads, [before |-> buffer, text |-> ToText(Chunk(n))])
          /\ buffer' = buffer /\ delivered' = delivered /\ pongs' = pongs
      BY <1>6 DEF ReadBlob
    <2>2. PICK k \in 0..Len(frames), r \in 0..taken :
            /\ Reached(k, r) /\ buffer = Unread(k, r)
            /\ delivered = BodiesOf(Part(0, k)) /\ pongs = Cardinality(Pings(k))
            /\ \/ reads = <<>> /\ r = taken
               \/ reads = <<[before |-> buffer, text |-> Slice(r, taken)]>>
      BY <1>1 DEF Reading
    <2>3. reads = <<>> /\ r = taken
      <3>1. Len(<<[before |-> buffer, text |-> Slice(r, taken)]>>) = 1
        OBVIOUS
      <3>2. Len(reads) # 1
        <4>1. MaxReads \in Nat
          BY FramingAssumption
        <4> QED
          BY <2>1, <4>1
      <3> QED
        BY <2>2, <3>1, <3>2
    <2>4. ToText(Chunk(n)) = chunk
      <3>1. ToText(Slice(taken, taken + n)) = Slice(taken, taken + n)
        BY <2>1, <2>2, <2>3, ArrivesWithin, UnreadJoin
      <3> QED
        BY <1>1, <3>1, ChunkIs, Zenon
    <2> HIDE DEF chunk
    <2>5. reads' = <<read>>
      BY <2>1, <2>3, <2>4
    <2>6. channel' = channel /\ frames' = frames /\ taken' = taken + n
      BY <2>1 DEF Arrives
    <2>7. reads' = <<[before |-> buffer', text |-> Slice(taken, taken')]>>
      BY <2>1, <2>5, <2>6, Zenon DEF chunk
    <2>8. taken \in 0..(taken')
      BY <2>1, <2>6, ArrivesWithin
    <2> QED
      BY <1>1, <2>1, <2>2, <2>3, <2>6, <2>7, <2>8, ReadingFrom
  <1>7. ASSUME NEW m \in DOMAIN reads, BlobRead(m) PROVE Reading'
    <2>1. /\ Take(reads[m].before \o reads[m].text) /\ reads' = RemoveAt(reads, m)
          /\ channel' = channel /\ frames' = frames /\ taken' = taken
      BY <1>7 DEF BlobRead
    <2>2. PICK k \in 0..Len(frames), r \in 0..taken :
            /\ Reached(k, r) /\ buffer = Unread(k, r)
            /\ delivered = BodiesOf(Part(0, k)) /\ pongs = Cardinality(Pings(k))
            /\ \/ reads = <<>> /\ r = taken
               \/ channel = "blob" /\ reads = <<[before |-> buffer, text |-> Slice(r, taken)]>>
      BY <1>1 DEF Reading
    <2> DEFINE read == [before |-> buffer, text |-> Slice(r, taken)]
    <2>3. reads = <<read>> /\ m = 1 /\ channel = "blob"
      <3>1. DOMAIN <<>> = {} /\ DOMAIN <<read>> = {1}
        OBVIOUS
      <3> QED
        BY <1>7, <2>2, <3>1
    <2>4. reads[m].before \o reads[m].text = Unread(k, taken)
      <3>1. reads[m].before = buffer /\ reads[m].text = Slice(r, taken)
        BY <2>3
      <3>2. Unread(k, r) \o Slice(r, taken) = Unread(k, taken)
        <4>1. r <= taken /\ Reached(k, r)
          BY <1>1, <2>2
        <4> HIDE DEF read, FramingInv
        <4> QED
          BY <1>1, <4>1, UnreadJoin
      <3> QED
        BY <2>2, <3>1, <3>2, Zenon
    <2>5. reads' = <<>>
      <3>1. RemoveAt(<<read>>, 1) = <<>>
        <4> HIDE DEF read
        <4>1. SubSeq(<<read>>, 1, 1 - 1) = <<>> /\ SubSeq(<<read>>, 1 + 1, Len(<<read>>)) = <<>>
          OBVIOUS
        <4>2. <<>> \o <<>> = <<>>
          OBVIOUS
        <4> QED
          BY <4>1, <4>2, Zenon DEF RemoveAt
      <3> QED
        BY <2>1, <2>3, <3>1, Zenon
    <2>6. PICK i \in 0..Len(frames) :
            /\ Reached(i, taken) /\ buffer' = Unread(i, taken)
            /\ delivered' = BodiesOf(Part(0, i)) /\ pongs' = Cardinality(Pings(i))
      <3>1. Take(Unread(k, taken))
        BY <2>1, <2>4, Zenon
      <3>2. r <= taken
        BY <1>1, <2>2
      <3> QED
        BY <1>1, <2>2, <3>1, <3>2, TakeStep
    <2>7. taken \in 0..(taken')
      BY <1>1, <2>1
    <2> QED
      BY <1>1, <2>1, <2>5, <2>6, <2>7, ReadingFrom
  <1>8. CASE UNCHANGED framingVars
    <2>1. /\ channel' = channel /\ frames' = frames /\ taken' = taken /\ buffer' = buffer
          /\ reads' = reads /\ delivered' = delivered /\ pongs' = pongs
      BY <1>8 DEF framingVars
    <2>2. PICK k \in 0..Len(frames), r \in 0..taken :
            /\ Reached(k, r) /\ buffer = Unread(k, r)
            /\ delivered = BodiesOf(Part(0, k)) /\ pongs = Cardinality(Pings(k))
            /\ \/ reads = <<>> /\ r = taken
               \/ channel = "blob" /\ reads = <<[before |-> buffer, text |-> Slice(r, taken)]>>
      BY <1>1 DEF Reading
    <2>3. \/ reads' = <<>> /\ r = taken'
          \/ channel = "blob" /\ reads' = <<[before |-> buffer', text |-> Slice(r, taken')]>>
      BY <2>1, <2>2, Zenon
    <2>4. r \in 0..(taken')
      BY <2>1
    <2> QED
      BY <1>1, <2>1, <2>2, <2>3, <2>4, ReadingFrom
  <1> QED
    BY <1>2, <1>3, <1>4, <1>5, <1>6, <1>7, <1>8 DEF FramingNext

LEMMA FramingPreserved ==
    MaxReads <= 1 => (FramingInv /\ [FramingNext]_framingVars => FramingInv')
  <1> SUFFICES ASSUME MaxReads <= 1, FramingInv, [FramingNext]_framingVars PROVE FramingInv'
    OBVIOUS
  <1>1. channel' = channel /\ frames' = frames
    BY DEF FramingNext, framingVars, ReadWebSocket, ReadBlob, ReadTcp, ReadPipeChunk, ReadNative,
           BlobRead, Arrives
  <1>2. taken' \in 0..Len(Stream)
    <2>1. taken' = taken \/ \E n : Arrives(n)
      BY DEF FramingNext, framingVars, ReadWebSocket, ReadBlob, ReadTcp, ReadPipeChunk, ReadNative,
             BlobRead
    <2>2. ASSUME NEW n, Arrives(n) PROVE taken' \in 0..Len(Stream)
      <3>1. taken' = taken + n
        BY <2>2 DEF Arrives
      <3> QED
        BY <2>2, <3>1, ArrivesWithin
    <2> QED
      BY <2>1, <2>2 DEF FramingInv
  <1>3. AllLegible => Reading'
    BY FramingSteps
  <1>4. /\ Sendable' = Sendable /\ Stream' = Stream /\ (AllLegible' <=> AllLegible)
    BY <1>1, Unmoved
  <1>5. frames' \in Seq(Sendable')
    BY <1>1, <1>4 DEF FramingInv
  <1>6. taken' \in 0..Len(Stream')
    BY <1>2, <1>4
  <1> QED
    BY <1>3, <1>4, <1>5, <1>6 DEF FramingInv

LEMMA FramingSafe == FramingInv => ReadsWhatArrived
  <1> SUFFICES ASSUME FramingInv, channel = "native" \/ OneByteText, reads = <<>>
               PROVE  delivered = BodiesOf(Arrived) /\ pongs = Cardinality(PingsIn(Arrived))
    BY DEF ReadsWhatArrived, ConsumesCompleteFrames
  <1>1. /\ frames \in Seq(Sendable) /\ taken \in 0..Len(Stream) /\ Len(frames) \in Nat
        /\ Len(Stream) \in Nat /\ DOMAIN frames = 1..Len(frames)
    BY UptoLength, LenProperties DEF FramingInv
  <1>2. AllLegible
    BY <1>1 DEF AllLegible, Legible, OneByteText
  <1>3. PICK k \in 0..Len(frames) :
          /\ Reached(k, taken)
          /\ delivered = BodiesOf(Part(0, k)) /\ pongs = Cardinality(Pings(k))
    BY <1>2 DEF FramingInv, Reading
  <1>4. Complete = {i \in 0..Len(frames) : Len(Upto(i)) <= taken}
    BY Zenon DEF Complete, Upto
  <1>5. k \in Complete /\ \A j \in Complete : j <= k
    <2>1. k \in Complete
      BY <1>3, <1>4 DEF Reached
    <2>2. ASSUME NEW j \in Complete PROVE j <= k
      <3> SUFFICES ASSUME k < j PROVE FALSE
        BY <1>1, <1>4
      <3>1. /\ j \in 0..Len(frames) /\ Len(Upto(j)) <= taken /\ k + 1 \in 0..Len(frames)
            /\ j \in (k + 1)..Len(frames) /\ taken < Len(Upto(k + 1)) /\ taken \in Nat
        BY <1>1, <1>3, <1>4 DEF Reached
      <3>2. /\ j - (k + 1) <= Len(Upto(j)) - Len(Upto(k + 1))
            /\ Len(Upto(j)) \in Nat /\ Len(Upto(k + 1)) \in Nat
        BY <1>1, <3>1, UptoGrows, UptoLength
      <3> QED
        BY <3>1, <3>2
    <2> QED
      BY <2>1, <2>2
  <1>6. \A x \in Complete : (\A j \in Complete : j <= x) => x = k
    BY <1>1, <1>4, <1>5
  <1> DEFINE last == CHOOSE i \in Complete : \A j \in Complete : j <= i
  <1> HIDE DEF Complete
  <1>7. last = k
    BY <1>5, <1>6
  <1>8. Arrived = Part(0, k)
    <2>1. Arrived = SubSeq(frames, 1, last)
      BY Zenon DEF Arrived
    <2> HIDE DEF last
    <2>2. Part(0, k) = SubSeq(frames, 1, k)
      <3>1. 0 + 1 = 1
        OBVIOUS
      <3> QED
        BY <3>1, Zenon DEF Part
    <2> QED
      BY <1>7, <2>1, <2>2, Zenon
  <1>9. PingsIn(Part(0, k)) = Pings(k)
    <2>1. 0 \in 0..Len(frames) /\ k \in 0..Len(frames)
      BY <1>1
    <2> QED
      BY <1>1, <2>1, PingsCount
  <1> QED
    BY <1>3, <1>8, <1>9, Zenon

\* However the bytes of the sender are cut into chunks, what has been handed on
\* is what has come in full (NATSUpstreamTransport.ts:270, PipeUpstreamTransport.ts:113
\* and the native host), as long as bodies are of one-byte characters or the
\* channel keeps bytes, and one blob is read at a time.
THEOREM FramesRead == MaxReads <= 1 => (FramingSpec => []ReadsWhatArrived)
  <1> SUFFICES ASSUME MaxReads <= 1 PROVE FramingSpec => []ReadsWhatArrived
    OBVIOUS
  <1>1. FramingInv /\ [FramingNext]_framingVars => FramingInv'
    BY FramingPreserved
  <1> QED
    BY FramingStarts, <1>1, FramingSafe, PTL DEF FramingSpec


-----------------------------------------------------------------------------
(* What bytes may read as, wherever chunks end: a two-byte character is    *)
(* itself or two halves.                                                   *)

Shown(b) == IF b \in Halves THEN "?" ELSE b

\* c is what the bytes after place p, up to q, may read as.
Unit(c, bytes, p, q) ==
    \/ q = p + 1 /\ c = Shown(bytes[q])
    \/ q = p + 2 /\ bytes[p + 1] = "w1" /\ bytes[p + 2] = "w2" /\ c = "w"

\* P[i] is where the i-th character ends.
Spells(P, text, bytes, a, b) ==
    /\ P[0] = a /\ P[Len(text)] = b
    /\ \A i \in 1..Len(text) : Unit(text[i], bytes, P[i - 1], P[i])

\* The text is what the bytes after place a, up to b, may read as.
Reads(text, bytes, a, b) ==
    /\ text \in Text
    /\ \E P \in [0..Len(text) -> Nat] : Spells(P, text, bytes, a, b)

LEMMA ReadsNothing ==
    ASSUME NEW bytes, NEW a \in Nat
    PROVE  Reads(<<>>, bytes, a, a)
  <1> DEFINE P == [i \in 0..0 |-> a]
  <1>1. <<>> \in Text /\ Len(<<>>) = 0
    BY SmallSeqs DEF Text
  <1>2. P \in [0..0 -> Nat] /\ P[0] = a
    OBVIOUS
  <1> HIDE DEF P
  <1>3. Spells(P, <<>>, bytes, a, a)
    BY <1>1, <1>2 DEF Spells
  <1> QED
    BY <1>1, <1>2, <1>3 DEF Reads

LEMMA SpellsGrow ==
    ASSUME NEW text \in Text, NEW bytes, NEW a, NEW b, NEW P \in [0..Len(text) -> Nat],
           Spells(P, text, bytes, a, b), NEW i \in 0..Len(text), NEW j \in i..Len(text)
    PROVE  j - i <= P[j] - P[i] /\ P[i] \in Nat /\ P[j] \in Nat
  <1>1. Len(text) \in Nat
    BY LenProperties DEF Text
  <1>2. /\ i \in Nat /\ j \in Nat /\ i <= j /\ j <= Len(text)
        /\ j - i \in Nat /\ j - i <= Len(text) - i /\ Len(text) - i \in Nat
    BY <1>1
  <1> DEFINE T == {m \in Nat : m <= P[i + m] - P[i]}
  <1>3. 0 \in T
    BY <1>1
  <1>4. ASSUME NEW m \in 0..(Len(text) - i - 1), m \in T PROVE m + 1 \in T
    <2>1. /\ i + m \in 0..Len(text) /\ i + m + 1 \in 1..Len(text) /\ (i + m + 1) - 1 = i + m
          /\ i + m + 1 \in 0..Len(text) /\ m \in Nat
      BY <1>1
    <2>2. Unit(text[i + m + 1], bytes, P[i + m], P[i + m + 1])
      <3>1. Unit(text[i + m + 1], bytes, P[(i + m + 1) - 1], P[i + m + 1])
        BY <2>1, Zenon DEF Spells
      <3> QED
        BY <2>1, <3>1
    <2>3. P[i + m] \in Nat /\ P[i + m + 1] \in Nat /\ P[i] \in Nat
      BY <2>1
    <2>4. P[i + m + 1] >= P[i + m] + 1
      BY <2>2, <2>3 DEF Unit
    <2>5. m <= P[i + m] - P[i]
      BY <1>4
    <2>6. i + (m + 1) = i + m + 1
      BY <2>1
    <2> QED
      BY <2>1, <2>3, <2>4, <2>5, <2>6
  <1> HIDE DEF T
  <1>5. \A m \in 0..((j - i) - 1) : m \in T => m + 1 \in T
    BY <1>1, <1>2, <1>4
  <1>6. j - i \in T
    BY <1>2, <1>3, <1>5, BoundedInduction
  <1>7. i + (j - i) = j
    BY <1>2
  <1> QED
    BY <1>6, <1>7 DEF T

LEMMA ReadsType ==
    ASSUME NEW text, NEW bytes, NEW a, NEW b, Reads(text, bytes, a, b)
    PROVE  /\ text \in Text /\ Len(text) \in Nat
           /\ a \in Nat /\ b \in Nat /\ Len(text) <= b - a
           /\ \A i \in 1..Len(text) : text[i] \notin Halves
           /\ (b = a => text = <<>>) /\ (text = <<>> => b = a)
  <1>1. text \in Text /\ Len(text) \in Nat
    BY LenProperties DEF Reads, Text
  <1>2. PICK P \in [0..Len(text) -> Nat] : Spells(P, text, bytes, a, b)
    BY DEF Reads
  <1>3. 0 \in 0..Len(text) /\ Len(text) \in 0..Len(text)
    BY <1>1
  <1>4. P[0] = a /\ P[Len(text)] = b
    BY <1>2 DEF Spells
  <1>5. Len(text) - 0 <= P[Len(text)] - P[0]
    BY <1>1, <1>2, <1>3, SpellsGrow
  <1>6. ASSUME NEW i \in 1..Len(text) PROVE text[i] \notin Halves
    <2>1. Unit(text[i], bytes, P[i - 1], P[i])
      BY <1>2 DEF Spells
    <2> QED
      BY <2>1 DEF Unit, Shown, Halves
  <1>7. text = <<>> <=> Len(text) = 0
    BY <1>1, EmptySeq DEF Text
  <1>8. a \in Nat /\ b \in Nat
    BY <1>2, <1>3, <1>4
  <1> QED
    BY <1>1, <1>3, <1>4, <1>5, <1>6, <1>7, <1>8

LEMMA ReadsConcat ==
    ASSUME NEW bytes, NEW a, NEW b, NEW c, NEW x, NEW y,
           Reads(x, bytes, a, b), Reads(y, bytes, b, c)
    PROVE  Reads(x \o y, bytes, a, c)
  <1> DEFINE z == x \o y
             m == Len(x)
  <1>1. x \in Text /\ y \in Text /\ m \in Nat /\ Len(y) \in Nat
    BY ReadsType
  <1>2. /\ z \in Text /\ Len(z) = m + Len(y)
        /\ \A i \in 1..m : z[i] = x[i]
        /\ \A i \in 1..Len(y) : z[m + i] = y[i]
    BY <1>1, TextConcat
  <1>3. PICK P \in [0..m -> Nat] : Spells(P, x, bytes, a, b)
    BY DEF Reads
  <1>4. PICK Q \in [0..Len(y) -> Nat] : Spells(Q, y, bytes, b, c)
    BY DEF Reads
  <1>5. P[0] = a /\ P[m] = b /\ Q[0] = b /\ Q[Len(y)] = c
    BY <1>3, <1>4 DEF Spells
  <1> HIDE DEF z
  <1> DEFINE R == [i \in 0..Len(z) |-> IF i <= m THEN P[i] ELSE Q[i - m]]
  <1>6. R \in [0..Len(z) -> Nat]
    <2>1. ASSUME NEW i \in 0..Len(z) PROVE (IF i <= m THEN P[i] ELSE Q[i - m]) \in Nat
      <3>1. i <= m => i \in 0..m
        BY <1>1
      <3>2. ~(i <= m) => i - m \in 0..Len(y)
        BY <1>1, <1>2
      <3> QED
        BY <3>1, <3>2
    <2> QED
      BY <2>1
  <1>7. \A i \in 0..m : R[i] = P[i]
    BY <1>1, <1>2
  <1>8. ASSUME NEW i \in 0..Len(y) PROVE R[m + i] = Q[i]
    <2>1. m + i \in 0..Len(z)
      BY <1>1, <1>2
    <2>2. CASE i = 0
      BY <1>1, <1>5, <2>1, <2>2
    <2>3. CASE i # 0
      <3>1. ~(m + i <= m) /\ m + i - m = i
        BY <1>1, <2>3
      <3> QED
        BY <2>1, <3>1
    <2> QED
      BY <2>2, <2>3
  <1> HIDE DEF R
  <1>9. R[0] = a /\ R[Len(z)] = c
    <2>1. 0 \in 0..m /\ Len(y) \in 0..Len(y)
      BY <1>1
    <2> QED
      BY <1>2, <1>5, <1>7, <1>8, <2>1
  <1>10. ASSUME NEW i \in 1..Len(z) PROVE Unit(z[i], bytes, R[i - 1], R[i])
    <2>1. CASE i <= m
      <3>1. i \in 1..m /\ i \in 0..m /\ i - 1 \in 0..m
        BY <1>1, <2>1
      <3>2. Unit(x[i], bytes, P[i - 1], P[i])
        BY <1>3, <3>1 DEF Spells
      <3> QED
        BY <1>2, <1>7, <3>1, <3>2
    <2>2. CASE ~(i <= m)
      <3> DEFINE j == i - m
      <3>1. j \in 1..Len(y) /\ j \in 0..Len(y) /\ j - 1 \in 0..Len(y) /\ m + j = i /\ m + (j - 1) = i - 1
        BY <1>1, <1>2, <2>2
      <3> HIDE DEF j
      <3>2. Unit(y[j], bytes, Q[j - 1], Q[j])
        BY <1>4, <3>1 DEF Spells
      <3>3. z[m + j] = y[j] /\ R[m + j] = Q[j] /\ R[m + (j - 1)] = Q[j - 1]
        BY <1>2, <1>8, <3>1
      <3> QED
        BY <3>1, <3>2, <3>3
    <2> QED
      BY <2>1, <2>2
  <1>11. Spells(R, z, bytes, a, c)
    BY <1>9, <1>10 DEF Spells
  <1>12. Reads(z, bytes, a, c)
    BY <1>2, <1>6, <1>11 DEF Reads
  <1> QED
    BY <1>12 DEF z

LEMMA SubText ==
    ASSUME NEW t \in Text, NEW m \in Nat, NEW n \in Nat, 1 <= m, m <= n + 1, n <= Len(t)
    PROVE  /\ SubSeq(t, m, n) \in Text /\ Len(SubSeq(t, m, n)) = n - m + 1
           /\ \A i \in 1..(n - m + 1) : SubSeq(t, m, n)[i] = t[m + i - 1]
  <1>1. t \in Seq(Alphabet) /\ Len(t) \in Nat
    BY LenProperties DEF Text
  <1>2. \A i \in m..n : t[i] \in Alphabet
    BY <1>1, ElementOfSeq
  <1> QED
    BY <1>2, SubSeqProperties DEF Text

\* x is the first m characters.
FirstOf(x, t, m) == x \in Text /\ Len(x) = m /\ \A i \in 1..m : x[i] = t[i]

LEMMA FirstPart ==
    ASSUME NEW t \in Text, NEW m \in Nat, m <= Len(t), NEW x, x = SubSeq(t, 1, m)
    PROVE  FirstOf(x, t, m)
  <1> DEFINE y == SubSeq(t, 1, m)
  <1>1. 1 \in Nat /\ 1 <= 1 /\ 1 <= m + 1 /\ m - 1 + 1 = m /\ \A i \in 1..m : 1 + i - 1 = i
    OBVIOUS
  <1>2. y \in Text /\ Len(y) = m - 1 + 1 /\ \A i \in 1..(m - 1 + 1) : y[i] = t[1 + i - 1]
    BY <1>1, SubText
  <1>3. x = y
    OBVIOUS
  <1> HIDE DEF y
  <1>4. x \in Text /\ Len(x) = m /\ \A i \in 1..m : x[i] = t[i]
    BY <1>1, <1>2, <1>3
  <1> QED
    BY <1>4 DEF FirstOf

LEMMA ReadsSplit ==
    ASSUME NEW text, NEW bytes, NEW a, NEW c, NEW P \in [0..Len(text) -> Nat],
           text \in Text, Spells(P, text, bytes, a, c), NEW i \in 0..Len(text)
    PROVE  /\ Reads(SubSeq(text, 1, i), bytes, a, P[i])
           /\ Reads(SubSeq(text, i + 1, Len(text)), bytes, P[i], c)
           /\ i <= P[i] - a
  <1> DEFINE n == Len(text)
             x == SubSeq(text, 1, i)
             y == SubSeq(text, i + 1, n)
  <1>1. n \in Nat /\ i \in Nat /\ i <= n /\ 0 \in 0..n
    BY LenProperties DEF Text
  <1>2. x \in Text /\ Len(x) = i /\ \A k \in 1..i : x[k] = text[k]
    <2>1. /\ x \in Text /\ Len(x) = i - 1 + 1 /\ \A k \in 1..(i - 1 + 1) : x[k] = text[1 + k - 1]
      BY <1>1, SubText
    <2>2. i - 1 + 1 = i /\ \A k \in 1..i : 1 + k - 1 = k
      BY <1>1
    <2> HIDE DEF x
    <2> QED
      BY <2>1, <2>2
  <1>3. y \in Text /\ Len(y) = n - i /\ \A k \in 1..(n - i) : y[k] = text[i + k]
    <2>1. /\ y \in Text /\ Len(y) = n - (i + 1) + 1
          /\ \A k \in 1..(n - (i + 1) + 1) : y[k] = text[(i + 1) + k - 1]
      <3>1. i + 1 \in Nat /\ 1 <= i + 1 /\ i + 1 <= n + 1
        BY <1>1
      <3> QED
        BY <1>1, <3>1, SubText
    <2>2. n - (i + 1) + 1 = n - i /\ \A k \in 1..(n - i) : (i + 1) + k - 1 = i + k
      BY <1>1
    <2> HIDE DEF y
    <2> QED
      BY <2>1, <2>2
  <1> DEFINE Q == [k \in 0..i |-> P[k]]
             R == [k \in 0..(n - i) |-> P[i + k]]
  <1> HIDE DEF x, y
  <1>4. P[0] = a /\ P[n] = c /\ \A k \in 1..n : Unit(text[k], bytes, P[k - 1], P[k])
    BY DEF Spells
  <1>5. Reads(x, bytes, a, P[i])
    <2>1. Q \in [0..i -> Nat] /\ \A k \in 0..i : Q[k] = P[k]
      BY <1>1
    <2> HIDE DEF Q
    <2>2. ASSUME NEW k \in 1..i PROVE Unit(x[k], bytes, Q[k - 1], Q[k])
      <3>1. k \in 1..n /\ k \in 0..i /\ k - 1 \in 0..i
        BY <1>1
      <3> QED
        BY <1>2, <1>4, <2>1, <3>1
    <2>3. Q[0] = a /\ Q[i] = P[i]
      BY <1>1, <1>4, <2>1
    <2>4. Spells(Q, x, bytes, a, P[i])
      BY <1>2, <2>2, <2>3 DEF Spells
    <2> QED
      BY <1>2, <2>1, <2>4 DEF Reads
  <1>6. Reads(y, bytes, P[i], c)
    <2>1. R \in [0..(n - i) -> Nat] /\ \A k \in 0..(n - i) : R[k] = P[i + k]
      BY <1>1
    <2> HIDE DEF R
    <2>2. ASSUME NEW k \in 1..(n - i) PROVE Unit(y[k], bytes, R[k - 1], R[k])
      <3>1. /\ i + k \in 1..n /\ k \in 0..(n - i) /\ k - 1 \in 0..(n - i)
            /\ i + (k - 1) = (i + k) - 1
        BY <1>1
      <3> QED
        BY <1>3, <1>4, <2>1, <3>1
    <2>3. R[0] = P[i] /\ R[n - i] = c
      <3>1. 0 \in 0..(n - i) /\ n - i \in 0..(n - i) /\ i + 0 = i /\ i + (n - i) = n
        BY <1>1
      <3> QED
        BY <1>4, <2>1, <3>1
    <2>4. Spells(R, y, bytes, P[i], c)
      BY <1>3, <2>2, <2>3 DEF Spells
    <2> QED
      BY <1>3, <2>1, <2>4 DEF Reads
  <1>7. i - 0 <= P[i] - P[0]
    BY <1>1, SpellsGrow
  <1> QED
    BY <1>1, <1>4, <1>5, <1>6, <1>7 DEF x, y

\* b is not inside a two-byte character.
Between(bytes, b) == ~(bytes[b] = "w1" /\ bytes[b + 1] = "w2")

\* Such a place is where a character ends.
LEMMA ReadsUpto ==
    ASSUME NEW text, NEW bytes, NEW a, NEW b, NEW c, Reads(text, bytes, a, c), b \in a..c,
           Between(bytes, b)
    PROVE  \E i \in 0..Len(text) :
             /\ Reads(SubSeq(text, 1, i), bytes, a, b)
             /\ Reads(SubSeq(text, i + 1, Len(text)), bytes, b, c)
             /\ i <= b - a
  <1> DEFINE n == Len(text)
  <1>1. text \in Text /\ n \in Nat /\ a \in Nat /\ c \in Nat /\ b \in Nat /\ a <= b /\ b <= c
    BY ReadsType
  <1>2. PICK P \in [0..n -> Nat] : Spells(P, text, bytes, a, c)
    BY DEF Reads
  <1>3. P[0] = a /\ P[n] = c /\ \A i \in 1..n : Unit(text[i], bytes, P[i - 1], P[i])
    BY <1>2 DEF Spells
  <1>4. \E i \in 0..n : P[i] = b
    <2> SUFFICES ASSUME \A i \in 0..n : P[i] # b PROVE FALSE
      OBVIOUS
    <2> DEFINE T == {i \in Nat : P[i] < b}
    <2>1. 0 \in T
      <3>1. P[0] # b
        BY <1>1
      <3> QED
        BY <1>1, <1>3, <3>1
    <2>2. ASSUME NEW i \in 0..(n - 1), i \in T PROVE i + 1 \in T
      <3>1. i \in 0..n /\ i + 1 \in 0..n /\ i + 1 \in 1..n /\ (i + 1) - 1 = i /\ i + 1 \in Nat
        BY <1>1
      <3>2. Unit(text[i + 1], bytes, P[(i + 1) - 1], P[i + 1])
        BY <1>3, <3>1, Zenon
      <3>3. Unit(text[i + 1], bytes, P[i], P[i + 1])
        BY <3>1, <3>2
      <3>4. P[i] \in Nat /\ P[i + 1] \in Nat /\ P[i] < b /\ P[i + 1] # b
        BY <2>2, <3>1
      <3>5. P[i + 1] = P[i] + 1 \/ (P[i + 1] = P[i] + 2 /\ bytes[P[i] + 1] = "w1" /\ bytes[P[i] + 2] = "w2")
        BY <3>3 DEF Unit
      <3>6. ASSUME P[i] + 1 = b, bytes[P[i] + 1] = "w1", bytes[P[i] + 2] = "w2" PROVE FALSE
        <4>1. P[i] + 2 = b + 1
          BY <1>1, <3>4, <3>6
        <4> QED
          BY <3>6, <4>1 DEF Between
      <3>7. P[i + 1] < b
        BY <1>1, <3>4, <3>5, <3>6
      <3> QED
        BY <3>1, <3>7
    <2> HIDE DEF T
    <2>3. n \in T
      BY <1>1, <2>1, <2>2, BoundedInduction
    <2> QED
      BY <1>1, <1>3, <2>3 DEF T
  <1>5. PICK i \in 0..n : P[i] = b
    BY <1>4
  <1>6. /\ Reads(SubSeq(text, 1, i), bytes, a, P[i])
        /\ Reads(SubSeq(text, i + 1, Len(text)), bytes, P[i], c)
        /\ i <= P[i] - a
    BY <1>1, <1>2, ReadsSplit
  <1> QED
    BY <1>5, <1>6, Zenon

Alike(bytes, a, others, b, n) == \A i \in 1..n : others[b + i] = bytes[a + i]

\* Only the bytes that are read matter.
LEMMA ReadsAlike ==
    ASSUME NEW text, NEW bytes, NEW a, NEW c, Reads(text, bytes, a, c),
           NEW others, NEW b \in Nat, NEW d, NEW n \in Nat,
           c = a + n, d = b + n, Alike(bytes, a, others, b, n)
    PROVE  Reads(text, others, b, d)
  <1> DEFINE m == Len(text)
  <1>1. text \in Text /\ m \in Nat /\ a \in Nat
    BY ReadsType
  <1>2. PICK P \in [0..m -> Nat] : Spells(P, text, bytes, a, a + n)
    BY DEF Reads
  <1>3. P[0] = a /\ P[m] = a + n /\ \A i \in 1..m : Unit(text[i], bytes, P[i - 1], P[i])
    BY <1>2 DEF Spells
  <1>4. ASSUME NEW i \in 0..m PROVE P[i] \in Nat /\ a <= P[i] /\ P[i] <= a + n
    <2>1. 0 \in 0..m /\ i \in 0..m /\ i \in i..m /\ m \in i..m
      BY <1>1
    <2>2. i - 0 <= P[i] - P[0] /\ P[i] \in Nat
      BY <1>1, <1>2, <2>1, SpellsGrow
    <2>3. m - i <= P[m] - P[i]
      BY <1>1, <1>2, <2>1, SpellsGrow
    <2> QED
      BY <1>1, <1>3, <2>2, <2>3
  <1> DEFINE Q == [i \in 0..m |-> (P[i] - a) + b]
  <1>5. Q \in [0..m -> Nat] /\ \A i \in 0..m : Q[i] = (P[i] - a) + b
    BY <1>1, <1>4
  <1> HIDE DEF Q
  <1>6. ASSUME NEW i \in 1..m PROVE Unit(text[i], others, Q[i - 1], Q[i])
    <2>1. i \in 0..m /\ i - 1 \in 0..m
      BY <1>1
    <2> DEFINE p == P[i - 1]
               q == P[i]
    <2>2. Unit(text[i], bytes, p, q)
      BY <1>3
    <2>3. /\ p \in Nat /\ a <= p /\ p <= a + n /\ q \in Nat /\ q <= a + n
          /\ Q[i - 1] = (p - a) + b /\ Q[i] = (q - a) + b
      BY <1>4, <1>5, <2>1
    <2> HIDE DEF p, q
    <2>4. ASSUME NEW k \in {1, 2}, q = p + 2 \/ k = 1, p < q
          PROVE  others[((p - a) + b) + k] = bytes[p + k]
      <3>1. (p - a) + k \in 1..n /\ b + ((p - a) + k) = ((p - a) + b) + k /\ a + ((p - a) + k) = p + k
        BY <1>1, <2>3, <2>4
      <3>2. others[b + ((p - a) + k)] = bytes[a + ((p - a) + k)]
        BY <3>1 DEF Alike
      <3> QED
        BY <3>1, <3>2
    <2>5. CASE q = p + 1 /\ text[i] = Shown(bytes[q])
      <3>1. p < q
        BY <2>3, <2>5
      <3>2. others[((p - a) + b) + 1] = bytes[p + 1]
        BY <2>4, <3>1
      <3>3. Q[i] = Q[i - 1] + 1 /\ others[Q[i]] = bytes[q]
        <4>1. (q - a) + b = ((p - a) + b) + 1 /\ a \in Nat
          BY <1>1, <2>3, <2>5
        <4> QED
          BY <2>3, <2>5, <3>2, <4>1
      <3> QED
        BY <2>5, <3>3 DEF Unit
    <2>6. CASE q = p + 2 /\ bytes[p + 1] = "w1" /\ bytes[p + 2] = "w2" /\ text[i] = "w"
      <3>1. p < q
        BY <2>3, <2>6
      <3>2. others[((p - a) + b) + 1] = bytes[p + 1] /\ others[((p - a) + b) + 2] = bytes[p + 2]
        BY <2>4, <2>6, <3>1
      <3>3. Q[i] = Q[i - 1] + 2
        BY <1>1, <2>3, <2>6
      <3> QED
        BY <2>3, <2>6, <3>2, <3>3 DEF Unit
    <2> QED
      BY <2>2, <2>5, <2>6 DEF Unit
  <1>7. Q[0] = b /\ Q[m] = b + n
    <2>1. 0 \in 0..m /\ m \in 0..m
      BY <1>1
    <2>2. Q[0] = (P[0] - a) + b /\ Q[m] = (P[m] - a) + b
      BY <1>5, <2>1
    <2>3. P[0] = a /\ P[m] = a + n
      BY <1>3
    <2> QED
      BY <1>1, <2>2, <2>3
  <1>8. Spells(Q, text, others, b, b + n)
    BY <1>6, <1>7 DEF Spells
  <1> QED
    BY <1>1, <1>5, <1>8 DEF Reads

LEMMA ReadsOne ==
    ASSUME NEW bytes, NEW a \in Nat, NEW b \in Nat, NEW c \in Alphabet, Unit(c, bytes, a, b)
    PROVE  Reads(<<c>>, bytes, a, b)
  <1> DEFINE P == [i \in 0..1 |-> IF i = 0 THEN a ELSE b]
             t == <<c>>
  <1>1. t \in Text /\ Len(t) = 1 /\ t[1] = c
    BY SmallSeqs DEF Text
  <1>2. P \in [0..1 -> Nat] /\ P[0] = a /\ P[1] = b
    OBVIOUS
  <1> HIDE DEF P, t
  <1>3. Spells(P, t, bytes, a, b)
    <2>1. \A i \in 1..Len(t) : i = 1 /\ i - 1 = 0
      BY <1>1
    <2>2. Unit(t[1], bytes, P[0], P[1])
      BY <1>1, <1>2
    <2>3. \A i \in 1..Len(t) : Unit(t[i], bytes, P[i - 1], P[i])
      BY <2>1, <2>2
    <2> QED
      BY <1>1, <1>2, <2>3 DEF Spells
  <1>4. Reads(t, bytes, a, b)
    BY <1>1, <1>2, <1>3 DEF Reads
  <1> QED
    BY <1>4 DEF t

\* What is decoded is a reading.
LEMMA ToTextReads ==
    ASSUME NEW t \in Text
    PROVE  Reads(ToText(t), t, 0, Len(t))
  <1> DEFINE q == Decoded(t)
             F(k) == FlattenSeq(SubSeq(q, 1, k))
             end(k) == IF k \in Pairs(t) THEN k + 1 ELSE k
             T == {k \in Nat : k <= Len(t) => Reads(F(k), t, 0, end(k))}
  <1>1. q \in Seq(Text) /\ Len(q) = Len(t) /\ ToText(t) = FlattenSeq(q) /\ Len(t) \in Nat
    BY DecodedType, LenProperties DEF Text
  <1>2. \A i \in 1..Len(t) : q[i] = DecodedAt(t, i) /\ t[i] \in Alphabet
    <2>1. \A i \in 1..Len(t) : t[i] \in Alphabet
      BY ElementOfSeq DEF Text
    <2> QED
      BY <2>1 DEF Decoded
  <1>3. \A i \in Pairs(t) : i \in 1..(Len(t) - 1) /\ t[i] = "w1" /\ t[i + 1] = "w2"
    BY DEF Pairs
  <1> HIDE DEF q
  <1>4. F(0) = <<>>
    <2>1. SubSeq(q, 1, 0) = <<>>
      BY <1>1, SubSeqEmpty
    <2> QED
      BY <2>1, FlattenEmpty
  <1>5. 0 \in T
    <2>1. end(0) = 0
      BY <1>3
    <2> QED
      BY <1>4, <2>1, ReadsNothing
  <1>6. ASSUME NEW k \in Nat, k \in T PROVE k + 1 \in T
    <2> SUFFICES ASSUME k + 1 <= Len(t) PROVE Reads(F(k + 1), t, 0, end(k + 1))
      OBVIOUS
    <2>1. Reads(F(k), t, 0, end(k))
      BY <1>1, <1>6
    <2>2. k + 1 \in 1..Len(t) /\ (k + 1) + 1 = k + 2 /\ (k + 1) - 1 = k /\ k + 1 <= Len(q)
      BY <1>1
    <2>3. q[k + 1] = DecodedAt(t, k + 1) /\ t[k + 1] \in Alphabet
      BY <1>2, <2>2
    <2>4. F(k + 1) = F(k) \o q[k + 1]
      <3>1. /\ SubSeq(q, 1, k) \in Seq(Text) /\ q[k + 1] \in Text
            /\ SubSeq(q, 1, k + 1) = Append(SubSeq(q, 1, k), q[k + 1])
        BY <1>1, <2>2, SubSeqAppend
      <3>2. FlattenSeq(Append(SubSeq(q, 1, k), q[k + 1])) = FlattenSeq(SubSeq(q, 1, k)) \o q[k + 1]
        BY <3>1, FlattenAppend, Zenon DEF Text
      <3> QED
        BY <3>1, <3>2, Zenon
    <2> HIDE DEF F, end
    <2>5. F(k) \in Text
      BY <2>1, ReadsType
    <2>6. CASE k + 1 \in Pairs(t)
      <3>1. k \notin Pairs(t)
        BY <1>3, <2>6
      <3>2. end(k) = k /\ end(k + 1) = k + 2
        BY <2>2, <2>6, <3>1 DEF end
      <3>3. q[k + 1] = <<"w">>
        <4>1. (k + 1) - 1 \notin Pairs(t)
          BY <2>2, <3>1
        <4> QED
          BY <2>3, <2>6, <4>1, Zenon DEF DecodedAt
      <3>4. t[k + 1] = "w1" /\ t[k + 2] = "w2"
        BY <1>3, <2>2, <2>6
      <3>5. Unit("w", t, k, k + 2) /\ "w" \in Alphabet
        BY <3>4 DEF Unit, Alphabet
      <3>6. Reads(<<"w">>, t, k, k + 2)
        BY <3>5, ReadsOne
      <3> QED
        BY <2>1, <2>4, <3>2, <3>3, <3>6, ReadsConcat
    <2>7. CASE k + 1 \notin Pairs(t) /\ k \in Pairs(t)
      <3>1. end(k) = k + 1 /\ end(k + 1) = k + 1
        BY <2>7 DEF end
      <3>2. q[k + 1] = <<>>
        BY <2>2, <2>3, <2>7, Zenon DEF DecodedAt
      <3>3. F(k) \o <<>> = F(k)
        BY <2>5, ConcatEmptySeq DEF Text
      <3> QED
        BY <2>1, <2>4, <3>1, <3>2, <3>3, Zenon
    <2>8. CASE k + 1 \notin Pairs(t) /\ k \notin Pairs(t)
      <3>1. end(k) = k /\ end(k + 1) = k + 1
        BY <2>8 DEF end
      <3>2. q[k + 1] = <<Shown(t[k + 1])>>
        <4>1. (k + 1) - 1 \notin Pairs(t)
          BY <2>2, <2>8
        <4>2. DecodedAt(t, k + 1) = <<IF t[k + 1] \in {"w1", "w2"} THEN "?" ELSE t[k + 1]>>
          BY <2>8, <4>1, Zenon DEF DecodedAt
        <4> QED
          BY <2>3, <4>2, Zenon DEF Shown, Halves
      <3>3. Shown(t[k + 1]) \in Alphabet
        BY <2>3 DEF Shown, Alphabet
      <3>4. Unit(Shown(t[k + 1]), t, k, k + 1)
        BY DEF Unit
      <3>5. Reads(<<Shown(t[k + 1])>>, t, k, k + 1)
        BY <3>3, <3>4, ReadsOne
      <3> QED
        BY <2>1, <2>4, <3>1, <3>2, <3>5, ReadsConcat
    <2> QED
      BY <2>6, <2>7, <2>8
  <1> HIDE DEF T
  <1>7. Nat \subseteq T
    BY <1>5, <1>6, SetInduction
  <1>8. Reads(F(Len(t)), t, 0, end(Len(t)))
    BY <1>1, <1>7 DEF T
  <1>9. end(Len(t)) = Len(t)
    BY <1>1, <1>3
  <1>10. SubSeq(q, 1, Len(t)) = q
    BY <1>1, SubSeqFull
  <1> QED
    BY <1>1, <1>8, <1>9, <1>10, Zenon

LEMMA CharReads ==
    ASSUME NEW c \in Alphabet, c \notin Halves, NEW y,
           Reads(y, CharBytes(c), 0, Len(CharBytes(c)))
    PROVE  y = <<c>> \/ (c = "w" /\ y = <<"?", "?">>)
  <1> DEFINE bytes == CharBytes(c)
             n == Len(y)
  <1>1. y \in Text /\ n \in Nat /\ n <= Len(bytes) - 0 /\ (y = <<>> => Len(bytes) = 0)
    BY ReadsType
  <1>2. PICK P \in [0..n -> Nat] : Spells(P, y, bytes, 0, Len(bytes))
    BY DEF Reads
  <1>3. P[0] = 0 /\ P[n] = Len(bytes) /\ \A i \in 1..n : Unit(y[i], bytes, P[i - 1], P[i])
    BY <1>2 DEF Spells
  <1>4. n # 0 \/ Len(bytes) = 0
    BY <1>1, EmptySeq DEF Text
  <1>5. ASSUME n = 1 PROVE y = <<y[1]>> /\ Unit(y[1], bytes, 0, Len(bytes))
    <2>1. y = <<y[1]>>
      BY <1>1, <1>5 DEF Text
    <2>2. Unit(y[1], bytes, P[1 - 1], P[1])
      BY <1>3, <1>5
    <2> QED
      BY <1>3, <1>5, <2>1, <2>2
  <1>6. CASE c = "w"
    <2>1. bytes = <<"w1", "w2">> /\ Len(bytes) = 2 /\ bytes[1] = "w1" /\ bytes[2] = "w2"
      BY <1>6 DEF CharBytes
    <2> HIDE DEF bytes
    <2>2. CASE n = 1
      <3>1. y[1] = "w"
        BY <1>5, <2>1, <2>2 DEF Unit
      <3> QED
        BY <1>5, <1>6, <2>2, <3>1
    <2>3. CASE n = 2
      <3>1. y = <<y[1], y[2]>>
        BY <1>1, <2>3 DEF Text
      <3>2. Unit(y[1], bytes, P[0], P[1]) /\ Unit(y[2], bytes, P[1], P[2])
        <4>1. Unit(y[1], bytes, P[1 - 1], P[1]) /\ Unit(y[2], bytes, P[2 - 1], P[2])
          BY <1>3, <2>3
        <4> QED
          BY <4>1
      <3>3. P[0] = 0 /\ P[2] = 2 /\ P[1] \in Nat
        BY <1>3, <2>1, <2>3
      <3>4. P[1] = 1
        BY <3>2, <3>3 DEF Unit
      <3>5. y[1] = "?" /\ y[2] = "?"
        BY <2>1, <3>2, <3>3, <3>4 DEF Unit, Shown, Halves
      <3> QED
        BY <1>6, <3>1, <3>5
    <2> QED
      BY <1>1, <1>4, <2>1, <2>2, <2>3
  <1>7. CASE c # "w"
    <2>1. bytes = <<c>> /\ Len(bytes) = 1 /\ bytes[1] = c
      BY <1>7 DEF CharBytes
    <2> HIDE DEF bytes
    <2>2. n = 1
      BY <1>1, <1>4, <2>1
    <2>3. y[1] = c
      BY <1>5, <2>1, <2>2 DEF Unit, Shown
    <2> QED
      BY <1>5, <2>2, <2>3
  <1> QED
    BY <1>6, <1>7

LEMMA ReadCutAppend ==
    ASSUME NEW s \in Text, NEW c \in Alphabet, NEW S, NEW R,
           \A i \in 1..Len(s) : i \in S <=> i \in R
    PROVE  /\ ReadCut(Append(s, c), R)
                = ReadCut(s, S) \o (IF Len(s) + 1 \in R THEN <<"?", "?">> ELSE <<c>>)
           /\ ReadCut(s, S) \in Text
  <1> DEFINE m == Len(s)
             t == Append(s, c)
             x == IF m + 1 \in R THEN <<"?", "?">> ELSE <<c>>
             q == [i \in 1..Len(s) |-> IF i \in S THEN <<"?", "?">> ELSE <<s[i]>>]
             r == [i \in 1..Len(t) |-> IF i \in R THEN <<"?", "?">> ELSE <<t[i]>>]
  <1>1. /\ t \in Text /\ Len(t) = m + 1 /\ m \in Nat
        /\ \A i \in 1..m : t[i] = s[i]
        /\ t[m + 1] = c
    BY AppendProperties, LenProperties DEF Text
  <1>2. "?" \in Alphabet /\ \A d \in Alphabet : <<d>> \in Text /\ <<"?", "?">> \in Text
    BY SmallSeqs DEF Text, Alphabet
  <1> HIDE DEF t
  <1>3. x \in Text
    BY <1>2
  <1>4. q \in Seq(Text) /\ Len(q) = m
    <2>1. ASSUME NEW i \in 1..m PROVE (IF i \in S THEN <<"?", "?">> ELSE <<s[i]>>) \in Text
      <3>1. s[i] \in Alphabet
        BY ElementOfSeq DEF Text
      <3> QED
        BY <1>2, <3>1
    <2>2. q \in [1..m -> Text]
      BY <2>1
    <2>3. Len(q) = m
      BY <1>1
    <2> HIDE DEF q
    <2> QED
      BY <1>1, <2>2, <2>3, FunctionIsSeq
  <1>5. r \in Seq(Text) /\ Len(r) = m + 1
    <2>1. ASSUME NEW i \in 1..Len(t) PROVE (IF i \in R THEN <<"?", "?">> ELSE <<t[i]>>) \in Text
      <3>1. t[i] \in Alphabet
        BY <1>1, ElementOfSeq DEF Text
      <3> QED
        BY <1>2, <3>1
    <2>2. r \in [1..(m + 1) -> Text]
      BY <1>1, <2>1
    <2>3. Len(r) = m + 1 /\ m + 1 \in Nat
      BY <1>1
    <2> HIDE DEF r
    <2> QED
      BY <2>2, <2>3, FunctionIsSeq
  <1>6. \A i \in 1..m : r[i] = q[i]
    <2> SUFFICES ASSUME NEW i \in 1..m PROVE r[i] = q[i]
      OBVIOUS
    <2>1. i \in 1..Len(t)
      BY <1>1
    <2>2. r[i] = IF i \in R THEN <<"?", "?">> ELSE <<t[i]>>
      BY <2>1
    <2>3. q[i] = IF i \in S THEN <<"?", "?">> ELSE <<s[i]>>
      OBVIOUS
    <2>4. t[i] = s[i]
      BY <1>1
    <2> HIDE DEF q, r
    <2> QED
      BY <2>2, <2>3, <2>4
  <1>7. r[m + 1] = x
    <2>1. m + 1 \in 1..Len(t)
      BY <1>1
    <2> QED
      BY <1>1, <2>1
  <1> HIDE DEF q, r, x
  <1>8. r = Append(q, x)
    <2> DEFINE u == Append(q, x)
    <2>1. /\ u \in Seq(Text) /\ Len(u) = m + 1
          /\ \A i \in 1..m : u[i] = q[i]
          /\ u[m + 1] = x
      BY <1>3, <1>4, AppendProperties
    <2> HIDE DEF u
    <2>2. ASSUME NEW i \in 1..Len(r) PROVE r[i] = u[i]
      <3>1. i \in 1..m \/ i = m + 1
        BY <1>1, <1>5
      <3> QED
        BY <1>6, <1>7, <2>1, <3>1
    <2>3. r = u
      BY <1>5, <2>1, <2>2, SeqEqual
    <2> QED
      BY <2>3 DEF u
  <1>9. FlattenSeq(Append(q, x)) = FlattenSeq(q) \o x /\ FlattenSeq(q) \in Text
    BY <1>3, <1>4, FlattenAppend, FlattenType DEF Text
  <1>10. ReadCut(t, R) = FlattenSeq(r) /\ ReadCut(s, S) = FlattenSeq(q)
    BY Zenon DEF ReadCut, q, r
  <1>11. ReadCut(t, R) = ReadCut(s, S) \o x /\ ReadCut(s, S) \in Text
    BY <1>8, <1>9, <1>10, Zenon
  <1> QED
    BY <1>11 DEF x, t

\* The text is in two parts, the first of which ends at b.
Parts(text, bytes, a, b, c) ==
    \E x, y \in Text : text = x \o y /\ Reads(x, bytes, a, b) /\ Reads(y, bytes, b, c)

LEMMA ReadsParts ==
    ASSUME NEW text, NEW bytes, NEW a, NEW b, NEW c, Reads(text, bytes, a, c), b \in a..c,
           Between(bytes, b)
    PROVE  Parts(text, bytes, a, b, c)
  <1>1. text \in Text /\ Len(text) \in Nat
    BY ReadsType
  <1>2. PICK i \in 0..Len(text) :
          /\ Reads(SubSeq(text, 1, i), bytes, a, b)
          /\ Reads(SubSeq(text, i + 1, Len(text)), bytes, b, c)
    BY ReadsUpto
  <1> DEFINE x == SubSeq(text, 1, i)
             y == SubSeq(text, i + 1, Len(text))
  <1>3. x \o y = text
    <2>1. /\ 1 \in 1..(Len(text) + 1) /\ i \in (1 - 1)..Len(text) /\ Len(text) \in i..Len(text)
      BY <1>1
    <2>2. x \o y = SubSeq(text, 1, Len(text))
      BY <1>1, <2>1, ConcatAdjacentSubSeq DEF Text
    <2>3. SubSeq(text, 1, Len(text)) = text
      BY <1>1, SubSeqFull DEF Text
    <2> QED
      BY <2>2, <2>3
  <1> HIDE DEF x, y
  <1>4. Reads(x, bytes, a, b) /\ Reads(y, bytes, b, c)
    BY <1>2 DEF x, y
  <1>5. x \in Text /\ y \in Text
    BY <1>4, ReadsType
  <1> QED
    BY <1>3, <1>4, <1>5, Zenon DEF Parts

\* What two texts read as together, when the second does not begin with a second
\* half.
Couple(x, p, k, q, n) ==
    \E y, z \in Text : x = y \o z /\ Reads(y, p, 0, k) /\ Reads(z, q, 0, n)

LEMMA ReadsTwo ==
    ASSUME NEW x, NEW all, NEW p, NEW q, NEW k \in Nat, NEW n \in Nat, NEW e, e = k + n,
           Reads(x, all, 0, e), Between(all, k),
           Alike(all, 0, p, 0, k), Alike(all, k, q, 0, n)
    PROVE  Couple(x, p, k, q, n)
  <1>1. k \in 0..e /\ 0 \in Nat /\ k = 0 + k /\ n = 0 + n
    OBVIOUS
  <1>2. Parts(x, all, 0, k, e)
    BY <1>1, ReadsParts
  <1>3. PICK y, z \in Text : x = y \o z /\ Reads(y, all, 0, k) /\ Reads(z, all, k, e)
    BY <1>2, Zenon DEF Parts
  <1>4. Reads(y, p, 0, k)
    BY <1>1, <1>3, ReadsAlike
  <1>5. Reads(z, q, 0, n)
    BY <1>1, <1>3, ReadsAlike
  <1> QED
    BY <1>3, <1>4, <1>5, Zenon DEF Couple

LEMMA ReadsJoined ==
    ASSUME NEW p \in Text, NEW q \in Text, q # <<>>, q[1] # "w2",
           NEW x, Reads(x, p \o q, 0, Len(p \o q))
    PROVE  Couple(x, p, Len(p), q, Len(q))
  <1> DEFINE all == p \o q
             k == Len(p)
             n == Len(q)
             e == Len(all)
  <1>1. /\ e = k + n /\ n \in Nat /\ k \in Nat
        /\ \A i \in 1..k : all[i] = p[i]
        /\ \A i \in 1..n : all[k + i] = q[i]
    BY TextConcat, LenProperties DEF Text
  <1>2. Reads(x, all, 0, e)
    OBVIOUS
  <1>3. n # 0
    BY EmptySeq DEF Text
  <1> HIDE DEF all, k, n, e
  <1>4. Between(all, k)
    <2>1. 1 \in 1..n
      BY <1>1, <1>3
    <2> QED
      BY <1>1, <2>1 DEF Between
  <1>5. Alike(all, 0, p, 0, k) /\ Alike(all, k, q, 0, n)
    BY <1>1 DEF Alike
  <1>6. Couple(x, p, k, q, n)
    BY <1>1, <1>2, <1>4, <1>5, ReadsTwo
  <1> QED
    BY <1>6, Zenon DEF k, n

\* A body is read as one of its readings.
LEMMA BodyReads ==
    ASSUME NEW body \in Text, \A i \in 1..Len(body) : body[i] \notin Halves,
           NEW text, Reads(text, ToBytes(body), 0, Len(ToBytes(body)))
    PROVE  text \in Readings(body)
  <1> DEFINE first(m) == SubSeq(body, 1, m)
             coded(m) == ToBytes(first(m))
             cuts(m) == SUBSET {i \in 1..m : body[i] = "w"}
             T == {m \in Nat : m <= Len(body) =>
                     \A x \in Text : Reads(x, coded(m), 0, Len(coded(m))) =>
                       \E S \in cuts(m) : x = ReadCut(first(m), S)}
  <1>1. Len(body) \in Nat
    BY LenProperties DEF Text
  <1>2. 0 \in T
    <2>1. first(0) = <<>> /\ Len(<<>>) = 0
      BY SubSeqEmpty
    <2>2. coded(0) = <<>>
      BY <2>1, ToBytesEmpty, Zenon
    <2>3. ReadCut(<<>>, {}) = <<>>
      <3>1. [i \in 1..Len(<<>>) |-> IF i \in {} THEN <<"?", "?">> ELSE <<(<<>>)[i]>>] = <<>>
        OBVIOUS
      <3> QED
        BY <3>1, FlattenEmpty, Zenon DEF ReadCut
    <2>4. {} \in cuts(0)
      OBVIOUS
    <2> HIDE DEF first, coded, cuts
    <2>5. ASSUME NEW x \in Text, Reads(x, coded(0), 0, Len(coded(0)))
          PROVE  \E S \in cuts(0) : x = ReadCut(first(0), S)
      <3>1. x = <<>>
        BY <2>1, <2>2, <2>5, ReadsType
      <3> QED
        BY <2>1, <2>3, <2>4, <3>1
    <2> QED
      BY <2>5
  <1>3. ASSUME NEW m \in Nat, m \in T PROVE m + 1 \in T
    <2> SUFFICES ASSUME m + 1 <= Len(body), NEW x \in Text,
                        Reads(x, coded(m + 1), 0, Len(coded(m + 1)))
                 PROVE  \E S \in cuts(m + 1) : x = ReadCut(first(m + 1), S)
      OBVIOUS
    <2>1. m <= Len(body) /\ m + 1 \in 1..Len(body)
      BY <1>1
    <2>2. \A y \in Text : Reads(y, coded(m), 0, Len(coded(m))) =>
            \E S \in cuts(m) : y = ReadCut(first(m), S)
      BY <1>3, <2>1
    <2>3. cuts(m) \subseteq SUBSET (1..m) /\ \A S \in cuts(m) : \A i \in S : body[i] = "w"
      OBVIOUS
    <2>4. \A S : S \subseteq 1..(m + 1) /\ (\A i \in S : body[i] = "w") => S \in cuts(m + 1)
      OBVIOUS
    <2> DEFINE c == body[m + 1]
               front == first(m)
    <2>5. /\ front \in Text /\ c \in Alphabet /\ c \notin Halves
          /\ first(m + 1) = Append(front, c) /\ Len(front) = m
      <3>1. Len(front) = m
        <4>1. Len(front) = m - 1 + 1
          BY <1>1, <2>1, SubText
        <4> QED
          BY <4>1
      <3> QED
        BY <2>1, <3>1, SubSeqAppend DEF Text
    <2>6. coded(m) = ToBytes(front)
      BY Zenon
    <2> HIDE DEF first, cuts, c, front, T
    <2> DEFINE p == coded(m)
               q == CharBytes(c)
    <2>7. q \in Text /\ q # <<>> /\ q[1] # "w2"
      BY <2>5, ToTextOfCharBytes
    <2>8. p \in Text
      BY <2>5, <2>6, ToBytesType
    <2>9. coded(m + 1) = p \o q
      <3>1. Append(front, c) = front \o <<c>> /\ <<c>> \in Text
        BY <2>5, AppendIsConcat, SmallSeqs DEF Text
      <3>2. ToBytes(front \o <<c>>) = ToBytes(front) \o ToBytes(<<c>>)
        BY <2>5, <3>1, ToBytesConcat
      <3>3. ToBytes(<<c>>) = q
        BY <2>5, ToBytesOne
      <3>4. coded(m + 1) = ToBytes(first(m + 1))
        BY Zenon
      <3> QED
        BY <2>5, <2>6, <3>1, <3>2, <3>3, <3>4, Zenon
    <2> HIDE DEF q, p, coded
    <2>10. Reads(x, p \o q, 0, Len(p \o q))
      BY <2>9, Zenon
    <2>11. Couple(x, p, Len(p), q, Len(q))
      BY <2>7, <2>8, <2>10, ReadsJoined
    <2>14. PICK y, z \in Text : x = y \o z /\ Reads(y, p, 0, Len(p)) /\ Reads(z, q, 0, Len(q))
      BY <2>11, Zenon DEF Couple
    <2>17. PICK S \in cuts(m) : y = ReadCut(front, S)
      BY <2>2, <2>14, Zenon DEF p, front
    <2>18. S \subseteq 1..m /\ \A i \in S : body[i] = "w"
      BY <2>3
    <2>19. z = <<c>> \/ (c = "w" /\ z = <<"?", "?">>)
      BY <2>5, <2>14, CharReads DEF q
    <2>20. CASE z = <<c>>
      <3>1. S \in cuts(m + 1) /\ m + 1 \notin S
        <4>1. S \subseteq 1..(m + 1) /\ m + 1 \notin S
          BY <2>18
        <4> QED
          BY <2>4, <2>18, <4>1
      <3>2. ReadCut(Append(front, c), S)
              = ReadCut(front, S) \o (IF m + 1 \in S THEN <<"?", "?">> ELSE <<c>>)
        BY <2>5, ReadCutAppend
      <3>3. x = ReadCut(Append(front, c), S)
        BY <2>14, <2>17, <2>20, <3>1, <3>2, Zenon
      <3> QED
        BY <2>5, <3>1, <3>3
    <2>21. CASE c = "w" /\ z = <<"?", "?">>
      <3> DEFINE R == S \cup {m + 1}
      <3>1. R \in cuts(m + 1) /\ m + 1 \in R
        <4>1. R \subseteq 1..(m + 1) /\ m + 1 \in R
          BY <2>18
        <4>2. \A i \in R : body[i] = "w"
          BY <2>18, <2>21 DEF c
        <4> HIDE DEF R
        <4> QED
          BY <2>4, <4>1, <4>2
      <3>2. \A i \in 1..m : i \in S <=> i \in R
        OBVIOUS
      <3> HIDE DEF R
      <3>3. ReadCut(Append(front, c), R)
              = ReadCut(front, S) \o (IF m + 1 \in R THEN <<"?", "?">> ELSE <<c>>)
        BY <2>5, <3>2, ReadCutAppend
      <3>4. x = ReadCut(Append(front, c), R)
        BY <2>14, <2>17, <2>21, <3>1, <3>3, Zenon
      <3> QED
        BY <2>5, <3>1, <3>4
    <2> QED
      BY <2>19, <2>20, <2>21
  <1>4. Nat \subseteq T
    <2> HIDE DEF T
    <2> QED
      BY <1>2, <1>3, SetInduction
  <1>5. first(Len(body)) = body
    BY SubSeqFull DEF Text
  <1>6. text \in Text
    BY ReadsType
  <1>7. \A x \in Text : Reads(x, coded(Len(body)), 0, Len(coded(Len(body)))) =>
          \E S \in cuts(Len(body)) : x = ReadCut(first(Len(body)), S)
    BY <1>1, <1>4
  <1> HIDE DEF first, coded
  <1>8. coded(Len(body)) = ToBytes(body)
    BY <1>5, Zenon DEF coded
  <1>9. PICK S \in cuts(Len(body)) : text = ReadCut(body, S)
    BY <1>5, <1>6, <1>7, <1>8
  <1> QED
    BY <1>9, Zenon DEF Readings

-----------------------------------------------------------------------------
(* Where a text that is read from the stream meets a byte.                 *)

\* The bytes after a, up to e, hold no c.
Without(bytes, a, e, c) == \A p \in (a + 1)..e : bytes[p] # c

Lacks(text, c) == \A i \in 1..Len(text) : text[i] # c

LEMMA PlaceOf ==
    ASSUME NEW text, NEW bytes, NEW a, NEW b, Reads(text, bytes, a, b), NEW i \in 1..Len(text)
    PROVE  \/ text[i] = "w"
           \/ \E p \in (a + 1)..b : text[i] = Shown(bytes[p])
  <1>1. text \in Text /\ Len(text) \in Nat /\ a \in Nat /\ b \in Nat
    BY ReadsType
  <1>2. PICK P \in [0..Len(text) -> Nat] : Spells(P, text, bytes, a, b)
    BY DEF Reads
  <1>3. i \in 0..Len(text) /\ i - 1 \in 0..Len(text) /\ 0 \in 0..Len(text)
        /\ Len(text) \in i..Len(text) /\ i - 1 \in 0..Len(text) /\ Len(text) \in 0..Len(text)
    BY <1>1
  <1>4. (i - 1) - 0 <= P[i - 1] - P[0] /\ Len(text) - i <= P[Len(text)] - P[i]
    <2>1. i - 1 \in 0..Len(text)
      BY <1>3
    <2>2. (i - 1) - 0 <= P[i - 1] - P[0]
      BY <1>1, <1>2, <1>3, <2>1, SpellsGrow
    <2>3. Len(text) - i <= P[Len(text)] - P[i]
      BY <1>1, <1>2, <1>3, SpellsGrow
    <2> QED
      BY <2>2, <2>3
  <1>5. P[0] = a /\ P[Len(text)] = b
    BY <1>2 DEF Spells
  <1>6. P[i - 1] \in Nat /\ P[i] \in Nat
    BY <1>3
  <1>7. Unit(text[i], bytes, P[i - 1], P[i])
    BY <1>2 DEF Spells
  <1>8. CASE P[i] = P[i - 1] + 1 /\ text[i] = Shown(bytes[P[i]])
    <2>1. P[i] \in (a + 1)..b
      BY <1>1, <1>4, <1>5, <1>6, <1>8
    <2> QED
      BY <1>8, <2>1
  <1> QED
    BY <1>7, <1>8 DEF Unit

\* A character that the bytes do not hold is not read from them.
LEMMA ReadsLacks ==
    ASSUME NEW text, NEW bytes, NEW a, NEW b, Reads(text, bytes, a, b),
           NEW c, c \notin {"w", "?"}, Without(bytes, a, b, c)
    PROVE  Lacks(text, c)
  <1> SUFFICES ASSUME NEW i \in 1..Len(text), text[i] = c PROVE FALSE
    BY DEF Lacks
  <1>1. PICK p \in (a + 1)..b : c = Shown(bytes[p])
    BY PlaceOf
  <1>2. c = bytes[p]
    BY <1>1 DEF Shown
  <1> QED
    BY <1>1, <1>2 DEF Without

\* A first byte that is a character is read as one.
LEMMA HeadReads ==
    ASSUME NEW text, NEW bytes, NEW a, NEW b, Reads(text, bytes, a, b), text # <<>>,
           bytes[a + 1] \notin Halves
    PROVE  /\ text[1] = bytes[a + 1]
           /\ Reads(SubSeq(text, 2, Len(text)), bytes, a + 1, b)
  <1>1. text \in Text /\ Len(text) \in Nat /\ a \in Nat /\ b \in Nat
    BY ReadsType
  <1>2. PICK P \in [0..Len(text) -> Nat] : Spells(P, text, bytes, a, b)
    BY DEF Reads
  <1>3. 1 \in 0..Len(text) /\ 1 \in 1..Len(text) /\ 0 \in 0..Len(text)
    BY <1>1, EmptySeq DEF Text
  <1>4. P[0] = a /\ P[1] \in Nat
    BY <1>2, <1>3 DEF Spells
  <1>5. Unit(text[1], bytes, P[1 - 1], P[1])
    BY <1>2, <1>3 DEF Spells
  <1>6. Unit(text[1], bytes, a, P[1])
    <2>1. 1 - 1 = 0
      OBVIOUS
    <2> QED
      BY <1>4, <1>5, <2>1
  <1>7. P[1] = a + 1 /\ text[1] = bytes[a + 1]
    BY <1>1, <1>6 DEF Unit, Shown, Halves
  <1>8. Reads(SubSeq(text, 1 + 1, Len(text)), bytes, P[1], b)
    BY <1>1, <1>2, <1>3, ReadsSplit
  <1>9. 1 + 1 = 2
    OBVIOUS
  <1> QED
    BY <1>7, <1>8, <1>9

\* The text up to byte e, where a character c that it lacks comes next, and what
\* follows c.
Stops(text, bytes, a, e, t, c, m) ==
    /\ m \in Nat /\ m + 1 <= Len(text) /\ m <= e - a
    /\ Reads(SubSeq(text, 1, m), bytes, a, e)
    /\ \A i \in 1..m : text[i] # c
    /\ text[m + 1] = c
    /\ Reads(SubSeq(text, m + 2, Len(text)), bytes, e + 1, t)

LEMMA StopsAt ==
    ASSUME NEW text, NEW bytes, NEW a, NEW t, Reads(text, bytes, a, t),
           NEW e \in Nat, a <= e, e < t, NEW c, c \notin Halves \cup {"w", "?"},
           Without(bytes, a, e, c), bytes[e + 1] = c
    PROVE  \E m \in Nat : Stops(text, bytes, a, e, t, c, m)
  <1>1. text \in Text /\ Len(text) \in Nat /\ a \in Nat /\ t \in Nat
    BY ReadsType
  <1>2. Between(bytes, e) /\ e \in a..t
    BY <1>1 DEF Between, Halves
  <1>3. PICK m \in 0..Len(text) :
          /\ Reads(SubSeq(text, 1, m), bytes, a, e)
          /\ Reads(SubSeq(text, m + 1, Len(text)), bytes, e, t)
          /\ m <= e - a
    BY <1>2, ReadsUpto
  <1> DEFINE x == SubSeq(text, 1, m)
             y == SubSeq(text, m + 1, Len(text))
  <1>4. /\ Len(x) = m /\ \A i \in 1..m : x[i] = text[i]
        /\ Len(y) = Len(text) - m /\ \A i \in 1..(Len(text) - m) : y[i] = text[m + i]
    <2>1. m \in Nat /\ m <= Len(text)
      BY <1>1
    <2>2. Len(x) = m - 1 + 1 /\ \A i \in 1..(m - 1 + 1) : x[i] = text[1 + i - 1]
      BY <1>1, <2>1, SubText
    <2>3. m + 1 \in Nat /\ 1 <= m + 1 /\ m + 1 <= Len(text) + 1 /\ Len(text) <= Len(text)
      BY <1>1, <2>1
    <2>4. Len(y) = Len(text) - (m + 1) + 1
          /\ \A i \in 1..(Len(text) - (m + 1) + 1) : y[i] = text[(m + 1) + i - 1]
      BY <1>1, <2>3, SubText
    <2> HIDE DEF x, y
    <2>5. \A i \in Nat : 1 + i - 1 = i /\ (m + 1) + i - 1 = m + i
      OBVIOUS
    <2>6. Len(text) - (m + 1) + 1 = Len(text) - m /\ m - 1 + 1 = m
      BY <1>1
    <2> QED
      BY <2>2, <2>4, <2>5, <2>6
  <1>5. Reads(x, bytes, a, e) /\ Reads(y, bytes, e, t)
    BY <1>3
  <1> HIDE DEF x, y
  <1>6. Lacks(x, c)
    BY <1>5, ReadsLacks
  <1>7. y # <<>>
    BY <1>1, <1>5, ReadsType
  <1>8. bytes[e + 1] \notin Halves
    OBVIOUS
  <1>9. y[1] = c /\ Reads(SubSeq(y, 2, Len(y)), bytes, e + 1, t)
    BY <1>5, <1>7, <1>8, HeadReads
  <1>10. y \in Text /\ Len(y) # 0
    BY <1>5, <1>7, ReadsType, EmptySeq DEF Text
  <1>11. m + 1 <= Len(text) /\ text[m + 1] = c
    <2>1. 1 \in 1..(Len(text) - m)
      BY <1>1, <1>4, <1>10
    <2> QED
      BY <1>1, <1>4, <1>9, <2>1
  <1>12. SubSeq(y, 2, Len(y)) = SubSeq(text, m + 2, Len(text))
    <2> DEFINE u == SubSeq(y, 2, Len(y))
               v == SubSeq(text, m + 2, Len(text))
    <2>1. /\ u \in Text /\ Len(u) = Len(y) - 2 + 1
          /\ \A i \in 1..(Len(y) - 2 + 1) : u[i] = y[2 + i - 1]
      <3>1. 2 \in Nat /\ 1 <= 2 /\ 2 <= Len(y) + 1 /\ Len(y) \in Nat /\ Len(y) <= Len(y)
        BY <1>1, <1>4, <1>10
      <3> QED
        BY <1>10, <3>1, SubText
    <2>2. /\ v \in Text /\ Len(v) = Len(text) - (m + 2) + 1
          /\ \A i \in 1..(Len(text) - (m + 2) + 1) : v[i] = text[(m + 2) + i - 1]
      <3>1. m + 2 \in Nat /\ 1 <= m + 2 /\ m + 2 <= Len(text) + 1 /\ Len(text) <= Len(text)
        BY <1>1, <1>11
      <3> QED
        BY <1>1, <3>1, SubText
    <2> HIDE DEF u, v
    <2>3. Len(u) = Len(v) /\ Len(u) = Len(text) - m - 1
      BY <1>1, <1>4, <2>1, <2>2
    <2>4. ASSUME NEW i \in 1..Len(u) PROVE u[i] = v[i]
      <3>1. /\ i \in 1..(Len(y) - 2 + 1) /\ i \in 1..(Len(text) - (m + 2) + 1)
            /\ 2 + i - 1 \in 1..(Len(text) - m) /\ m + (2 + i - 1) = (m + 2) + i - 1
        BY <1>1, <1>4, <2>1, <2>3
      <3>2. u[i] = y[2 + i - 1] /\ v[i] = text[(m + 2) + i - 1]
        BY <2>1, <2>2, <3>1
      <3>3. y[2 + i - 1] = text[m + (2 + i - 1)]
        BY <1>4, <3>1
      <3> QED
        BY <3>1, <3>2, <3>3
    <2>5. u = v
      BY <2>1, <2>2, <2>3, <2>4, SeqEqual DEF Text
    <2> QED
      BY <2>5 DEF u, v
  <1>13. \A i \in 1..m : text[i] # c
    BY <1>4, <1>6 DEF Lacks
  <1>14. Stops(text, bytes, a, e, t, c, m)
    <2>1. m \in Nat /\ m <= e - a
      BY <1>1, <1>3
    <2> QED
      BY <1>3, <1>9, <1>11, <1>12, <1>13, <2>1, Zenon DEF Stops
  <1> QED
    BY <1>14

\* A text that holds c was read from bytes that do.
LEMMA GoesBeyond ==
    ASSUME NEW text, NEW bytes, NEW a, NEW t, Reads(text, bytes, a, t),
           NEW e \in Nat, NEW c, c \notin {"w", "?"},
           Without(bytes, a, e, c), NEW i \in 1..Len(text), text[i] = c
    PROVE  e < t
  <1> SUFFICES ASSUME ~(e < t) PROVE FALSE
    OBVIOUS
  <1>1. a \in Nat /\ t \in Nat
    BY ReadsType
  <1>2. Without(bytes, a, t, c)
    BY <1>1 DEF Without
  <1>3. c \notin {"w", "?"} /\ Reads(text, bytes, a, t)
    OBVIOUS
  <1>4. Lacks(text, c)
    BY <1>2, <1>3, ReadsLacks, Zenon
  <1> QED
    BY <1>4 DEF Lacks

-----------------------------------------------------------------------------
(* Bodies: their bytes and what they read as.                              *)

\* What no control character is written with.
Visible == Alphabet \ Control

LEMMA VisibleSeqs ==
    /\ \A c \in Visible : CharBytes(c) \in Seq(Visible) /\ <<c>> \in Seq(Visible)
    /\ <<"?", "?">> \in Seq(Visible)
    /\ Visible \subseteq Alphabet
  <1>1. {"w1", "w2", "?"} \subseteq Visible
    BY DEF Visible, Alphabet, Halves, Control
  <1>2. /\ \A c \in Visible : <<c>> \in Seq(Visible)
        /\ <<"w1", "w2">> \in Seq(Visible) /\ <<"?", "?">> \in Seq(Visible)
    <2> HIDE DEF Visible
    <2> QED
      BY <1>1, SmallSeqs
  <1>3. \A c \in Visible : CharBytes(c) \in Seq(Visible)
    BY <1>2, Zenon DEF CharBytes
  <1> QED
    BY <1>2, <1>3 DEF Visible

LEMMA BodyVisible ==
    ASSUME NEW body \in Bodies
    PROVE  /\ \A i \in 1..Len(body) : body[i] \in Visible
           /\ ToBytes(body) \in Seq(Visible)
           /\ \A x \in Readings(body) : x \in Seq(Visible)
  <1>1. body \in Text /\ Len(body) \in Nat /\ \A i \in 1..Len(body) : body[i] \notin Control \cup Halves
    BY BodyType, LenProperties DEF Text
  <1>2. ASSUME NEW i \in 1..Len(body) PROVE body[i] \in Visible
    <2>1. body[i] \in Alphabet
      BY <1>1, ElementOfSeq DEF Text
    <2> QED
      BY <1>1, <2>1 DEF Visible
  <1> DEFINE V == Seq(Visible)
  <1>3. \A i \in 1..Len(body) : CharBytes(body[i]) \in V /\ <<body[i]>> \in V
    BY <1>2, VisibleSeqs
  <1>4. <<"?", "?">> \in V
    BY VisibleSeqs
  <1> HIDE DEF V
  <1>5. ToBytes(body) \in V
    <2> DEFINE q == Coded(body)
    <2>1. q \in [1..Len(body) -> V]
      BY <1>3 DEF Coded
    <2>2. ToBytes(body) = FlattenSeq(q)
      BY <1>1, CodedType
    <2> HIDE DEF q
    <2>3. q \in Seq(V)
      BY <1>1, <2>1, FunctionIsSeq
    <2>4. FlattenSeq(q) \in V
      BY <2>3, FlattenType DEF V
    <2> QED
      BY <2>2, <2>4
  <1>6. ASSUME NEW x \in Readings(body) PROVE x \in V
    <2>1. PICK S \in SUBSET {i \in 1..Len(body) : body[i] = "w"} : x = ReadCut(body, S)
      BY <1>6, Zenon DEF Readings
    <2> DEFINE q == [i \in 1..Len(body) |-> IF i \in S THEN <<"?", "?">> ELSE <<body[i]>>]
    <2>2. q \in [1..Len(body) -> V]
      BY <1>3, <1>4
    <2>3. x = FlattenSeq(q)
      BY <2>1, Zenon DEF ReadCut
    <2> HIDE DEF q
    <2>4. q \in Seq(V)
      BY <1>1, <2>2, FunctionIsSeq
    <2>5. FlattenSeq(q) \in V
      BY <2>4, FlattenType DEF V
    <2> QED
      BY <2>3, <2>5
  <1> QED
    BY <1>2, <1>5, <1>6 DEF V

LEMMA ReadableVisible ==
    ASSUME NEW x \in Readable
    PROVE  x \in Text /\ \A i \in 1..Len(x) : x[i] \notin Control
  <1>1. PICK body \in Bodies : x \in Readings(body)
    BY Zenon DEF Readable
  <1>2. x \in Seq(Visible)
    BY <1>1, BodyVisible
  <1>3. \A i \in 1..Len(x) : x[i] \in Visible
    <2> HIDE DEF Visible
    <2> QED
      BY <1>2, ElementOfSeq
  <1>4. x \in Seq(Alphabet)
    <2>1. Visible \subseteq Alphabet
      BY VisibleSeqs
    <2> HIDE DEF Visible
    <2> QED
      BY <1>2, <2>1
  <1> QED
    BY <1>3, <1>4 DEF Visible, Text

LEMMA DigitSet ==
    /\ \A n \in DOMAIN Digit : Digit[n] \in ToSet(Digit)
    /\ ToSet(Digit) \subseteq Letters \ {"MSG", "w", "?"}
  <1> DEFINE L == Letters \ {"MSG", "w", "?"}
  <1>1. Digit \in Seq(L)
    BY FramingAssumption
  <1>2. DOMAIN Digit = 1..Len(Digit) /\ \A n \in 1..Len(Digit) : Digit[n] \in L
    <2> HIDE DEF L
    <2> QED
      BY <1>1, LenProperties, ElementOfSeq
  <1>3. ToSet(Digit) = {Digit[n] : n \in DOMAIN Digit}
    BY DEF ToSet
  <1> QED
    BY <1>2, <1>3

\* The last byte of a body is read as no digit.
LEMMA LastByte ==
    ASSUME NEW body \in Bodies
    PROVE  LET bytes == ToBytes(body)
           IN  /\ bytes \in Text /\ Len(bytes) \in Nat \ {0}
               /\ \A i \in 1..Len(bytes) : bytes[i] \notin Control
               /\ Sizes(Shown(bytes[Len(bytes)])) = {}
  <1> DEFINE bytes == ToBytes(body)
             n == Len(bytes)
  <1>1. body \in Text /\ n \in Nat \ {0} /\ \A i \in 1..Len(body) : body[i] \notin Control \cup Halves
    BY BodyType
  <1>2. bytes \in Text
    BY <1>1, ToBytesType
  <1>3. \A i \in 1..n : bytes[i] \notin Control
    <2>1. bytes \in Seq(Visible)
      BY BodyVisible
    <2> HIDE DEF bytes
    <2>2. \A i \in 1..n : bytes[i] \in Visible
      <3> HIDE DEF Visible
      <3> QED
        BY <2>1, ElementOfSeq
    <2> QED
      BY <2>2 DEF Visible
  <1>4. body # <<>>
    <2>1. body = <<>> => n = 0
      BY ToBytesEmpty, EmptySeq
    <2> QED
      BY <1>1, <2>1
  <1>5. PICK front \in Text, c \in Alphabet : body = Append(front, c)
    BY <1>1, <1>4, SequenceEmptyOrAppend DEF Text
  <1>6. /\ Len(body) = Len(front) + 1 /\ Len(front) \in Nat
        /\ body[Len(front) + 1] = c /\ Last(body) = c
    BY <1>5, AppendProperties, LenProperties DEF Text, Last
  <1>7. c \notin Halves
    <2>1. Len(front) + 1 \in 1..Len(body)
      BY <1>6
    <2> QED
      BY <1>1, <1>6, <2>1
  <1>8. c \notin ToSet(Digit)
    BY <1>6, FramingAssumption
  <1> DEFINE p == ToBytes(front)
             q == CharBytes(c)
  <1>9. bytes = p \o q /\ p \in Text /\ q \in Text
    <2>1. Append(front, c) = front \o <<c>> /\ <<c>> \in Text
      BY <1>5, AppendIsConcat, SmallSeqs DEF Text
    <2>2. ToBytes(front \o <<c>>) = p \o ToBytes(<<c>>)
      BY <1>5, <2>1, ToBytesConcat
    <2>3. ToBytes(<<c>>) = q
      BY <1>5, ToBytesOne
    <2>4. bytes = p \o q
      BY <1>5, <2>1, <2>2, <2>3, Zenon
    <2> QED
      BY <2>4, ToBytesType, CharBytesType
  <1>10. Len(q) \in 1..2 /\ q[Len(q)] = IF c = "w" THEN "w2" ELSE c
    BY DEF CharBytes
  <1> HIDE DEF p, q
  <1>11. bytes[n] = q[Len(q)]
    <2>1. Len(p) \in Nat
      BY <1>9, LenProperties DEF Text
    <2>2. Len(p \o q) = Len(p) + Len(q) /\ \A i \in 1..Len(q) : (p \o q)[Len(p) + i] = q[i]
      BY <1>9, <2>1, TextConcat
    <2>3. Len(q) \in 1..Len(q)
      BY <1>10
    <2>4. (p \o q)[Len(p) + Len(q)] = q[Len(q)]
      BY <2>2, <2>3
    <2>5. n = Len(p) + Len(q)
      BY <1>9, <2>2
    <2> HIDE DEF n, bytes
    <2>6. (p \o q)[n] = q[Len(q)]
      BY <2>4, <2>5
    <2> QED
      BY <1>9, <2>6, Zenon DEF bytes
  <1>12. Shown(bytes[n]) = "?" \/ Shown(bytes[n]) = c
    BY <1>7, <1>10, <1>11 DEF Shown, Halves
  <1>13. Shown(bytes[n]) \notin ToSet(Digit)
    <2>1. "?" \notin ToSet(Digit)
      BY DigitSet
    <2> QED
      BY <1>8, <1>12, <2>1
  <1> DEFINE s == Shown(bytes[n])
  <1>14. s \notin ToSet(Digit)
    BY <1>13
  <1> HIDE DEF s
  <1>15. Sizes(s) = {}
    BY <1>14, DigitSet DEF Sizes
  <1> QED
    BY <1>1, <1>2, <1>3, <1>15 DEF s

-----------------------------------------------------------------------------
(* What has been handed on, and the frames it came from.                   *)

\* Each text is a reading of the body of a frame that starts before byte a, and
\* comes after those before it.
PlacedBy(place, list, a) ==
    /\ place \in [1..Len(list) -> 1..Len(frames)]
    /\ \A i \in 1..Len(list) :
         /\ frames[place[i]].kind = "msg"
         /\ list[i] \in Readings(frames[place[i]].body)
         /\ Len(Upto(place[i] - 1)) < a
    /\ \A i, j \in 1..Len(list) : i < j => place[i] < place[j]

Placed(list, a) == list \in Seq(Text) /\ \E place : PlacedBy(place, list, a)

LEMMA PlacedMore ==
    ASSUME frames \in Seq(Sendable), NEW list, NEW a \in Nat, NEW b \in Nat, a <= b, Placed(list, a)
    PROVE  Placed(list, b)
  <1>1. PICK place : PlacedBy(place, list, a)
    BY DEF Placed
  <1>2. ASSUME NEW i \in 1..Len(list) PROVE Len(Upto(place[i] - 1)) < b
    <2>1. place[i] \in 1..Len(frames) /\ Len(Upto(place[i] - 1)) < a
      BY <1>1 DEF PlacedBy
    <2>2. place[i] - 1 \in 0..Len(frames)
      BY <2>1, UptoLength
    <2>3. Len(Upto(place[i] - 1)) \in Nat
      BY <2>2, UptoLength
    <2> QED
      BY <2>1, <2>3
  <1>3. PlacedBy(place, list, b)
    BY <1>1, <1>2 DEF PlacedBy
  <1> QED
    BY <1>3 DEF Placed

LEMMA PlacedNext ==
    ASSUME frames \in Seq(Sendable), NEW list, NEW a \in Nat, NEW b \in Nat, Placed(list, a),
           NEW k \in 0..(Len(frames) - 1), frames[k + 1].kind = "msg",
           NEW x \in Text, x \in Readings(frames[k + 1].body),
           a <= Len(Upto(k)), Len(Upto(k)) < b
    PROVE  Placed(Append(list, x), b)
  <1>1. PICK place : PlacedBy(place, list, a)
    BY DEF Placed
  <1> DEFINE n == Len(list)
             more == Append(list, x)
             where == [i \in 1..(n + 1) |-> IF i = n + 1 THEN k + 1 ELSE place[i]]
  <1>2. /\ list \in Seq(Text) /\ n \in Nat /\ more \in Seq(Text) /\ Len(more) = n + 1
        /\ \A i \in 1..n : more[i] = list[i]
        /\ more[n + 1] = x
    BY AppendProperties, LenProperties DEF Placed
  <1>3. /\ Len(frames) \in Nat /\ k \in 0..Len(frames) /\ k + 1 \in 1..Len(frames)
        /\ (k + 1) - 1 = k /\ \A i \in 0..Len(frames) : Len(Upto(i)) \in Nat
    BY UptoLength
  <1>4. ASSUME NEW i \in 1..n
        PROVE  /\ place[i] \in 1..Len(frames) /\ place[i] < k + 1
               /\ frames[place[i]].kind = "msg"
               /\ list[i] \in Readings(frames[place[i]].body)
               /\ Len(Upto(place[i] - 1)) < b
    <2>1. /\ place[i] \in 1..Len(frames) /\ Len(Upto(place[i] - 1)) < a
          /\ frames[place[i]].kind = "msg"
          /\ list[i] \in Readings(frames[place[i]].body)
      BY <1>1 DEF PlacedBy
    <2> DEFINE j == place[i] - 1
    <2>0. j \in 0..Len(frames) /\ Len(Upto(j)) < a /\ place[i] = j + 1
      <3>1. Len(Upto(j)) < a
        BY <2>1, Zenon
      <3>2. j \in 0..Len(frames) /\ place[i] = j + 1
        <4>1. place[i] \in 1..Len(frames) /\ Len(frames) \in Nat
          BY <1>3, <2>1
        <4> HIDE DEF PlacedBy
        <4> QED
          BY <4>1
      <3> QED
        BY <3>1, <3>2
    <2> HIDE DEF j
    <2>2. Len(Upto(j)) \in Nat /\ Len(Upto(k)) \in Nat /\ j \in Nat
      BY <1>3, <2>0
    <2>3. Len(Upto(j)) < Len(Upto(k)) /\ Len(Upto(j)) < b
      BY <2>0, <2>2
    <2>4. j < k
      <3> SUFFICES ASSUME ~(j < k) PROVE FALSE
        OBVIOUS
      <3>1. j \in k..Len(frames)
        BY <1>3, <2>0, <2>2
      <3>2. j - k <= Len(Upto(j)) - Len(Upto(k))
        BY <1>3, <3>1, UptoGrows
      <3> QED
        BY <1>3, <2>2, <2>3, <3>1, <3>2
    <2> QED
      BY <1>3, <2>0, <2>1, <2>2, <2>3, <2>4 DEF j
  <1>5. where \in [1..(n + 1) -> 1..Len(frames)]
    <2> HIDE DEF n
    <2>1. ASSUME NEW i \in 1..(n + 1)
          PROVE  (IF i = n + 1 THEN k + 1 ELSE place[i]) \in 1..Len(frames)
      <3>1. i = n + 1 \/ i \in 1..n
        BY <1>2
      <3> QED
        BY <1>3, <1>4, <3>1 DEF n
    <2> QED
      BY <2>1
  <1>6. /\ where[n + 1] = k + 1
        /\ \A i \in 1..n : where[i] = place[i]
    BY <1>2
  <1> HIDE DEF where, more, n
  <1>7. ASSUME NEW i \in 1..(n + 1)
        PROVE  /\ frames[where[i]].kind = "msg"
               /\ more[i] \in Readings(frames[where[i]].body)
               /\ Len(Upto(where[i] - 1)) < b
    <2>1. CASE i = n + 1
      BY <1>2, <1>3, <1>6, <2>1
    <2>2. CASE i \in 1..n
      BY <1>2, <1>4, <1>6, <2>2 DEF n
    <2> QED
      BY <1>2, <2>1, <2>2
  <1>8. ASSUME NEW i \in 1..(n + 1), NEW j \in 1..(n + 1), i < j PROVE where[i] < where[j]
    <2>1. i \in 1..n
      BY <1>2, <1>8
    <2>2. CASE j = n + 1
      BY <1>4, <1>6, <2>1, <2>2 DEF n
    <2>3. CASE j \in 1..n
      <3>1. place[i] < place[j]
        BY <1>1, <1>8, <2>1, <2>3 DEF PlacedBy, n
      <3> QED
        BY <1>6, <2>1, <2>3, <3>1
    <2> QED
      BY <1>2, <2>2, <2>3
  <1>9. PlacedBy(where, more, b)
    BY <1>2, <1>5, <1>7, <1>8 DEF PlacedBy
  <1>10. Placed(more, b)
    BY <1>2, <1>9, Zenon DEF Placed
  <1> QED
    BY <1>10 DEF more

LEMMA PlacedNothing == Placed(<<>>, 0)
  <1> DEFINE place == [i \in 1..0 |-> 1]
  <1>1. <<>> \in Seq(Text) /\ Len(<<>>) = 0
    BY EmptySeq
  <1>2. place \in [1..0 -> 1..Len(frames)]
    OBVIOUS
  <1> HIDE DEF place
  <1>3. PlacedBy(place, <<>>, 0)
    BY <1>1, <1>2 DEF PlacedBy
  <1> QED
    BY <1>1, <1>3, Zenon DEF Placed

\* A list that has its places is in the order of the frames.
LEMMA PlacedInOrder ==
    ASSUME frames \in Seq(Sendable), NEW a, Placed(delivered, a)
    PROVE  DeliversSubsequence
  <1>1. PICK place : PlacedBy(place, delivered, a)
    BY DEF Placed
  <1>2. /\ DOMAIN delivered = 1..Len(delivered) /\ DOMAIN frames = 1..Len(frames)
    BY LenProperties DEF Placed
  <1>3. place \in [DOMAIN delivered -> {i \in DOMAIN frames : frames[i].kind = "msg"}]
    BY <1>1, <1>2 DEF PlacedBy
  <1>4. /\ \A i \in DOMAIN delivered : delivered[i] \in Readings(frames[place[i]].body)
        /\ \A i, j \in DOMAIN delivered : i < j => place[i] < place[j]
    BY <1>1, <1>2 DEF PlacedBy
  <1> QED
    BY <1>3, <1>4, Zenon DEF DeliversSubsequence

-----------------------------------------------------------------------------
(* The loop, for any text.                                                 *)

\* The first n passes.
Loops(text, g, n) ==
    g = [i \in 0..n |-> IF i = 0 THEN Nothing(text) ELSE Pass(g[i - 1])]

LEMMA LoopsAt ==
    ASSUME NEW text, NEW g, NEW n \in Nat, Loops(text, g, n)
    PROVE  /\ g[0] = Nothing(text)
           /\ \A i \in 0..(n - 1) : g[i + 1] = Pass(g[i])
  <1>1. g = [i \in 0..n |-> IF i = 0 THEN Nothing(text) ELSE Pass(g[i - 1])]
    BY DEF Loops
  <1>2. ASSUME NEW i \in 0..n PROVE g[i] = IF i = 0 THEN Nothing(text) ELSE Pass(g[i - 1])
    BY <1>1, Zenon
  <1>3. g[0] = Nothing(text)
    BY <1>2
  <1>4. ASSUME NEW i \in 0..(n - 1) PROVE g[i + 1] = Pass(g[i])
    <2>1. i + 1 \in 0..n /\ i + 1 # 0 /\ (i + 1) - 1 = i
      OBVIOUS
    <2>2. g[i + 1] = Pass(g[(i + 1) - 1])
      BY <1>2, <2>1, Zenon
    <2> QED
      BY <2>1, <2>2
  <1> QED
    BY <1>3, <1>4

LEMMA LoopsExist ==
    ASSUME NEW text, NEW n \in Nat
    PROVE  \E g : Loops(text, g, n)
  <1> DEFINE T == {m \in Nat : \E g : Loops(text, g, m)}
  <1>1. 0 \in T
    <2> DEFINE g == [i \in 0..0 |-> Nothing(text)]
    <2>1. g = [i \in 0..0 |-> IF i = 0 THEN Nothing(text) ELSE Pass(g[i - 1])]
      <3> HIDE DEF g
      <3>1. \A i \in 0..0 : (IF i = 0 THEN Nothing(text) ELSE Pass(g[i - 1])) = Nothing(text)
        OBVIOUS
      <3> QED
        BY <3>1 DEF g
    <2> HIDE DEF g
    <2>2. Loops(text, g, 0)
      BY <2>1, Zenon DEF Loops
    <2> QED
      BY <2>2
  <1>2. ASSUME NEW m \in Nat, m \in T PROVE m + 1 \in T
    <2>1. PICK g : Loops(text, g, m)
      BY <1>2
    <2> DEFINE h == [i \in 0..(m + 1) |-> IF i = m + 1 THEN Pass(g[m]) ELSE g[i]]
    <2>2. /\ g[0] = Nothing(text)
          /\ \A i \in 0..(m - 1) : g[i + 1] = Pass(g[i])
      BY <2>1, LoopsAt
    <2>3. /\ h[m + 1] = Pass(g[m])
          /\ \A i \in 0..m : h[i] = g[i]
          /\ DOMAIN h = 0..(m + 1)
      OBVIOUS
    <2>4. h = [i \in 0..(m + 1) |-> h[i]]
      BY Zenon
    <2> HIDE DEF h
    <2>5. ASSUME NEW i \in 0..(m + 1)
          PROVE  h[i] = IF i = 0 THEN Nothing(text) ELSE Pass(h[i - 1])
      <3>1. CASE i = 0
        BY <2>2, <2>3, <3>1
      <3>2. CASE i = m + 1
        <4>1. i # 0 /\ i - 1 = m /\ m \in 0..m
          BY <3>2
        <4>2. h[m] = g[m]
          BY <2>3, <4>1
        <4> QED
          BY <2>3, <3>2, <4>1, <4>2
      <3>3. CASE i # 0 /\ i # m + 1
        <4>1. i - 1 \in 0..(m - 1) /\ (i - 1) + 1 = i /\ i \in 0..m /\ i - 1 \in 0..m
          BY <3>3
        <4>2. g[(i - 1) + 1] = Pass(g[i - 1])
          BY <2>2, <4>1
        <4>3. h[i] = g[i] /\ h[i - 1] = g[i - 1]
          BY <2>3, <4>1
        <4> QED
          BY <3>3, <4>1, <4>2, <4>3
      <3> QED
        BY <3>1, <3>2, <3>3
    <2>6. Loops(text, h, m + 1)
      BY <2>4, <2>5 DEF Loops
    <2>7. m + 1 \in Nat
      OBVIOUS
    <2> QED
      BY <2>6, <2>7
  <1> HIDE DEF T
  <1>3. Nat \subseteq T
    BY <1>1, <1>2, SetInduction
  <1> QED
    BY <1>3 DEF T

LEMMA LoopsAgree ==
    ASSUME NEW text, NEW g, NEW h, NEW m \in Nat, NEW n \in Nat,
           Loops(text, g, m), Loops(text, h, n)
    PROVE  \A i \in Nat : i <= m /\ i <= n => g[i] = h[i]
  <1> DEFINE T == {i \in Nat : i <= m /\ i <= n => g[i] = h[i]}
  <1>1. /\ g[0] = Nothing(text) /\ \A i \in 0..(m - 1) : g[i + 1] = Pass(g[i])
        /\ h[0] = Nothing(text) /\ \A i \in 0..(n - 1) : h[i + 1] = Pass(h[i])
    BY LoopsAt
  <1>2. 0 \in T
    BY <1>1
  <1>3. ASSUME NEW i \in Nat, i \in T PROVE i + 1 \in T
    <2> SUFFICES ASSUME i + 1 <= m, i + 1 <= n PROVE g[i + 1] = h[i + 1]
      OBVIOUS
    <2>1. i \in 0..(m - 1) /\ i \in 0..(n - 1) /\ i <= m /\ i <= n
      OBVIOUS
    <2>2. g[i] = h[i]
      BY <1>3, <2>1
    <2>3. g[i + 1] = Pass(g[i]) /\ h[i + 1] = Pass(h[i])
      BY <1>1, <2>1
    <2> QED
      BY <2>2, <2>3, Zenon
  <1> HIDE DEF T
  <1>4. Nat \subseteq T
    BY <1>2, <1>3, SetInduction
  <1> QED
    BY <1>4 DEF T

LEMMA RecursExists ==
    ASSUME NEW text
    PROVE  \E f : Recurs(text, f)
  <1> DEFINE G == [n \in Nat |-> CHOOSE g : Loops(text, g, n)]
             f == [n \in Nat |-> G[n][n]]
  <1>1. ASSUME NEW n \in Nat PROVE Loops(text, G[n], n)
    BY LoopsExist
  <1>2. f = [n \in Nat |-> f[n]] /\ \A n \in Nat : f[n] = G[n][n]
    OBVIOUS
  <1> HIDE DEF G, f
  <1>3. ASSUME NEW n \in Nat PROVE f[n] = IF n = 0 THEN Nothing(text) ELSE Pass(f[n - 1])
    <2>1. CASE n = 0
      <3>1. G[n][0] = Nothing(text)
        BY <1>1, LoopsAt
      <3> QED
        BY <1>2, <2>1, <3>1
    <2>2. CASE n # 0
      <3> DEFINE m == n - 1
      <3>1. m \in Nat /\ m \in 0..(n - 1) /\ m + 1 = n /\ m <= m /\ m <= n
        BY <2>2
      <3> HIDE DEF m
      <3>2. Loops(text, G[n], n) /\ Loops(text, G[m], m)
        BY <1>1, <3>1
      <3>3. G[n][m + 1] = Pass(G[n][m])
        BY <3>1, <3>2, LoopsAt
      <3>4. G[n][m] = G[m][m]
        BY <3>1, <3>2, LoopsAgree
      <3>5. f[n] = Pass(f[m])
        BY <1>2, <3>1, <3>3, <3>4
      <3> QED
        BY <2>2, <3>5 DEF m
    <2> QED
      BY <2>1, <2>2
  <1>4. Recurs(text, f)
    BY <1>2, <1>3 DEF Recurs
  <1> QED
    BY <1>4

\* What every pass keeps, the loop keeps.
LEMMA ReadAllKeeps ==
    ASSUME NEW text \in Text, NEW S, Nothing(text) \in S, \A call \in S : Pass(call) \in S
    PROVE  ReadAll(text) \in S
  <1>1. PICK f : Recurs(text, f)
    BY RecursExists
  <1>2. Len(text) \in Nat
    BY LenProperties DEF Text
  <1>3. ReadAll(text) = f[Len(text)]
    BY <1>1, <1>2, ReadAllIs
  <1> DEFINE T == {n \in Nat : f[n] \in S}
  <1>4. ASSUME NEW n \in Nat PROVE f[n] = IF n = 0 THEN Nothing(text) ELSE Pass(f[n - 1])
    BY <1>1, Zenon DEF Recurs
  <1>5. 0 \in T
    BY <1>4
  <1>6. ASSUME NEW n \in Nat, n \in T PROVE n + 1 \in T
    <2>1. n + 1 \in Nat /\ n + 1 # 0 /\ (n + 1) - 1 = n
      OBVIOUS
    <2>2. f[n + 1] = Pass(f[(n + 1) - 1])
      BY <1>4, <2>1, Zenon
    <2>3. f[n + 1] = Pass(f[n])
      BY <2>1, <2>2
    <2>4. f[n] \in S
      BY <1>6
    <2>5. f[n + 1] \in S
      BY <2>3, <2>4, Zenon
    <2> QED
      BY <2>1, <2>5
  <1> HIDE DEF T
  <1>7. Nat \subseteq T
    BY <1>5, <1>6, SetInduction
  <1> QED
    BY <1>2, <1>3, <1>7 DEF T

-----------------------------------------------------------------------------
(* What a message in the stream is read as.                                *)

LEMMA LeastExists ==
    ASSUME NEW S, S \subseteq Nat, S # {}
    PROVE  \E x \in S : \A y \in S : x <= y
  <1> SUFFICES ASSUME \A x \in S : \E y \in S : ~(x <= y) PROVE FALSE
    OBVIOUS
  <1> DEFINE T == {n \in Nat : \A x \in S : n <= x}
  <1>1. 0 \in T
    OBVIOUS
  <1>2. ASSUME NEW n \in Nat, n \in T PROVE n + 1 \in T
    <2>1. n \notin S
      BY <1>2
    <2>2. \A x \in S : n <= x /\ x # n /\ x \in Nat
      BY <1>2, <2>1
    <2> QED
      BY <2>2
  <1> HIDE DEF T
  <1>3. Nat \subseteq T
    BY <1>1, <1>2, SetInduction
  <1>4. PICK x \in S : TRUE
    OBVIOUS
  <1>5. x + 1 \in T
    BY <1>3
  <1> QED
    BY <1>5 DEF T

LEMMA GreatestExists ==
    ASSUME NEW n \in Nat, NEW S, S \subseteq 0..n, S # {}
    PROVE  Max(S) \in S /\ \A y \in S : Max(S) >= y
  <1> DEFINE R == {n - x : x \in S}
  <1>1. R \subseteq Nat /\ R # {}
    OBVIOUS
  <1>2. PICK r \in R : \A y \in R : r <= y
    <2> HIDE DEF R
    <2> QED
      BY <1>1, LeastExists
  <1>3. PICK x \in S : r = n - x
    BY <1>2
  <1>4. \A y \in S : x >= y
    <2> SUFFICES ASSUME NEW y \in S PROVE x >= y
      OBVIOUS
    <2>1. r <= n - y
      BY <1>2
    <2> QED
      BY <1>3, <2>1
  <1>5. \E z \in S : \A y \in S : z >= y
    BY <1>4
  <1> QED
    BY <1>5 DEF Max

\* The first line end, if there is one.
LEMMA LineIs ==
    ASSUME NEW text \in Text, LineEnds(text) # {}
    PROVE  /\ LineLength(text) \in Nat /\ LineLength(text) + 2 <= Len(text)
           /\ text[LineLength(text) + 1] = "CR" /\ text[LineLength(text) + 2] = "LF"
           /\ \A i \in LineEnds(text) : LineLength(text) + 1 <= i
  <1> DEFINE S == LineEnds(text)
             l == CHOOSE i \in S : \A j \in S : i <= j
  <1>1. Len(text) \in Nat
    BY LenProperties DEF Text
  <1>2. /\ S \subseteq 1..(Len(text) - 1)
        /\ \A i \in S : text[i] = "CR" /\ text[i + 1] = "LF"
    BY DEF LineEnds
  <1> HIDE DEF S
  <1>3. S \subseteq Nat /\ S # {}
    BY <1>1, <1>2 DEF S
  <1>4. \E x \in S : \A y \in S : x <= y
    BY <1>3, LeastExists
  <1>5. l \in S /\ \A j \in S : l <= j
    BY <1>4
  <1>6. LineLength(text) = l - 1
    BY Zenon DEF LineLength, S
  <1> HIDE DEF l
  <1>7. l \in 1..(Len(text) - 1) /\ (l - 1) + 1 = l /\ (l - 1) + 2 = l + 1
    BY <1>1, <1>2, <1>5
  <1> QED
    BY <1>1, <1>2, <1>5, <1>6, <1>7 DEF S

\* A payload that begins with a body that a line end follows, and parses, is read
\* as that body.
LEMMA TrimmedBody ==
    ASSUME NEW payload \in Text, NEW m \in Nat, m <= Len(payload),
           \A i \in 1..m : payload[i] \notin Control,
           m < Len(payload) => payload[m + 1] = "CR",
           Trimmed(payload) \in Readable
    PROVE  Trimmed(payload) = SubSeq(payload, 1, m)
  <1>0. m \in Nat /\ m <= Len(payload) /\ (m < Len(payload) => payload[m + 1] = "CR")
    OBVIOUS
  <1> DEFINE S == {0} \cup {i \in DOMAIN payload : payload[i] \notin {"CR", "LF"}}
             M == Max(S)
  <1>1. Len(payload) \in Nat /\ DOMAIN payload = 1..Len(payload)
    BY LenProperties DEF Text
  <1>2. S \subseteq 0..Len(payload) /\ S # {}
    <2>1. 0 \in S /\ 0 \in 0..Len(payload)
      BY <1>1
    <2>2. {i \in DOMAIN payload : payload[i] \notin {"CR", "LF"}} \subseteq DOMAIN payload
      OBVIOUS
    <2>3. DOMAIN payload \subseteq 0..Len(payload)
      BY <1>1
    <2> QED
      BY <2>1, <2>2, <2>3
  <1>3. Trimmed(payload) = SubSeq(payload, 1, M)
    BY Zenon DEF Trimmed
  <1>4. m \in S
    <2>1. CASE m = 0
      BY <2>1
    <2>2. CASE m # 0
      <3>1. m \in 1..m /\ m \in DOMAIN payload
        BY <1>0, <1>1, <2>2
      <3>2. payload[m] \notin Control
        BY <3>1
      <3> QED
        BY <3>1, <3>2 DEF Control
    <2> QED
      BY <2>1, <2>2
  <1> HIDE DEF S
  <1>5. M \in S /\ \A y \in S : M >= y
    BY <1>1, <1>2, GreatestExists
  <1> HIDE DEF M
  <1>6. M \in 0..Len(payload) /\ m <= M
    BY <1>1, <1>2, <1>4, <1>5
  <1>7. ASSUME m < M PROVE FALSE
    <2>1. payload[m + 1] = "CR" /\ m + 1 \in 1..M /\ M \in Nat
      BY <1>0, <1>1, <1>6, <1>7
    <2>2. /\ Len(SubSeq(payload, 1, M)) = M - 1 + 1
          /\ \A i \in 1..(M - 1 + 1) : SubSeq(payload, 1, M)[i] = payload[1 + i - 1]
      BY <1>1, <1>6, <2>1, SubText
    <2> DEFINE x == Trimmed(payload)
    <2>3. Len(x) = M - 1 + 1 /\ \A i \in 1..(M - 1 + 1) : x[i] = payload[1 + i - 1]
      BY <1>3, <2>2
    <2>4. \A i \in 1..Len(x) : x[i] \notin Control
      BY ReadableVisible
    <2> HIDE DEF x
    <2>5. M - 1 + 1 = M /\ 1 + (m + 1) - 1 = m + 1
      BY <2>1
    <2>6. x[m + 1] = "CR" /\ m + 1 \in 1..Len(x)
      <3>1. m + 1 \in 1..(M - 1 + 1)
        BY <2>1, <2>5
      <3>2. x[m + 1] = payload[1 + (m + 1) - 1]
        BY <2>3, <3>1
      <3> QED
        BY <2>1, <2>3, <2>5, <3>1, <3>2
    <2> QED
      BY <2>4, <2>6 DEF Control
  <1>8. M = m
    BY <1>0, <1>1, <1>6, <1>7
  <1> QED
    BY <1>3, <1>8

\* The bytes of a body, from place d of the stream on, and what follows them.
Holds(bytes, d, body, c) ==
    LET n == Len(ToBytes(body))
    IN  /\ Alike(ToBytes(body), 0, bytes, d, n)
        /\ bytes[d + n + 1] = c

LEMMA BodyWithout ==
    ASSUME NEW bytes, NEW d \in Nat, NEW body \in Bodies, NEW c \in Control, Holds(bytes, d, body, c),
           NEW b \in Control, NEW a \in Nat, d <= a
    PROVE  Without(bytes, a, d + Len(ToBytes(body)), b)
  <1> DEFINE n == Len(ToBytes(body))
  <1>1. n \in Nat \ {0} /\ \A i \in 1..n : ToBytes(body)[i] \notin Control
    BY LastByte
  <1>2. \A i \in 1..n : bytes[d + i] = ToBytes(body)[0 + i]
    BY DEF Holds, Alike
  <1> HIDE DEF n
  <1>3. ASSUME NEW p \in (a + 1)..(d + n) PROVE bytes[p] # b
    <2>1. p - d \in 1..n /\ d + (p - d) = p /\ 0 + (p - d) = p - d
      BY <1>1
    <2>2. bytes[d + (p - d)] = ToBytes(body)[0 + (p - d)]
      BY <1>2, <2>1
    <2> QED
      BY <1>1, <2>1, <2>2
  <1> QED
    BY <1>3 DEF Without, n

LEMMA WholeBody ==
    ASSUME NEW text, NEW bytes, NEW d \in Nat, NEW t, Reads(text, bytes, d, t),
           NEW body \in Bodies, NEW c \in Control, Holds(bytes, d, body, c),
           NEW e, e = d + Len(ToBytes(body)), e < t
    PROVE  \E m \in Nat :
             /\ Stops(text, bytes, d, e, t, c, m)
             /\ SubSeq(text, 1, m) \in Readings(body)
             /\ \A i \in 1..m : text[i] \notin Control
  <1> DEFINE coded == ToBytes(body)
             n == Len(coded)
  <1>1. n \in Nat \ {0} /\ coded \in Text
    BY LastByte
  <1>2. e = d + n /\ e \in Nat /\ d <= e /\ 0 \in Nat /\ n = 0 + n
    BY <1>1
  <1>3. \A b \in Control : Without(bytes, d, e, b)
    BY BodyWithout
  <1>4. c \notin Halves \cup {"w", "?"} /\ bytes[e + 1] = c
    BY <1>2 DEF Control, Halves, Holds
  <1>5. Without(bytes, d, e, c)
    BY <1>3
  <1>6. PICK m \in Nat : Stops(text, bytes, d, e, t, c, m)
    BY <1>2, <1>4, <1>5, StopsAt
  <1> DEFINE x == SubSeq(text, 1, m)
  <1>7. Reads(x, bytes, d, e)
    BY <1>6 DEF Stops
  <1>8. text \in Text /\ Len(text) \in Nat /\ m + 1 <= Len(text)
    BY <1>6, ReadsType DEF Stops
  <1>9. Len(x) = m /\ \A i \in 1..m : x[i] = text[i]
    <2>1. m <= Len(text) /\ m - 1 + 1 = m /\ \A i \in 1..m : 1 + i - 1 = i
      BY <1>8
    <2>2. Len(x) = m - 1 + 1 /\ \A i \in 1..(m - 1 + 1) : x[i] = text[1 + i - 1]
      BY <1>8, <2>1, SubText
    <2> HIDE DEF x
    <2> QED
      BY <2>1, <2>2
  <1> HIDE DEF x
  <1>10. x \in Readings(body)
    <2>1. Alike(bytes, d, coded, 0, n)
      BY DEF Holds, Alike
    <2> HIDE DEF n, coded
    <2>2. Reads(x, coded, 0, n)
      BY <1>1, <1>2, <1>7, <2>1, ReadsAlike
    <2>3. body \in Text /\ \A i \in 1..Len(body) : body[i] \notin Halves
      BY BodyType
    <2> QED
      BY <2>2, <2>3, BodyReads DEF n, coded
  <1>11. \A i \in 1..m : text[i] \notin Control
    <2> SUFFICES ASSUME NEW i \in 1..m, text[i] \in Control PROVE FALSE
      OBVIOUS
    <2>1. Without(bytes, d, e, text[i])
      BY <1>3
    <2>2. text[i] \notin {"w", "?"}
      BY DEF Control
    <2>3. Lacks(x, text[i])
      BY <1>7, <2>1, <2>2, ReadsLacks
    <2> QED
      BY <1>9, <2>3 DEF Lacks
  <1> QED
    BY <1>6, <1>10, <1>11 DEF x

-----------------------------------------------------------------------------
(* Where frames are in the stream.                                         *)

LEMMA PipeInStream ==
    ASSUME frames \in Seq(Sendable), NEW k \in 0..(Len(frames) - 1), channel = "pipe"
    PROVE  LET body == frames[k + 1].body
           IN  /\ frames[k + 1].kind = "msg" /\ body \in Bodies
               /\ Holds(Stream, Len(Upto(k)), body, "NUL")
               /\ Len(Upto(k + 1)) = Len(Upto(k)) + Len(ToBytes(body)) + 1
  <1> DEFINE f == frames[k + 1]
             code == Coding(f)
             coded == ToBytes(f.body)
             n == Len(coded)
             u == Len(Upto(k))
  <1>1. /\ f \in Sendable /\ Len(Upto(k + 1)) = u + Len(code)
        /\ \A j \in 1..Len(code) : Stream[u + j] = code[j]
    BY StreamAt
  <1>2. k \in 0..Len(frames)
    BY UptoLength
  <1>3. u \in Nat
    BY <1>2, UptoLength
  <1> HIDE DEF f
  <1>4. /\ f.kind = "msg" /\ Len(code) = n + 1 /\ code[n + 1] = "NUL"
        /\ \A i \in 1..n : code[i] = coded[i]
    BY <1>1, PipeBytes
  <1>5. f.body \in Bodies
    BY <1>1, <1>4 DEF Sendable, Frame
  <1>6. n \in Nat
    BY <1>5, LastByte
  <1> HIDE DEF code, coded, n, u
  <1>7. Alike(coded, 0, Stream, u, n)
    <2>1. ASSUME NEW i \in 1..n PROVE Stream[u + i] = coded[0 + i]
      <3>1. i \in 1..Len(code) /\ 0 + i = i
        BY <1>4, <1>6
      <3> QED
        BY <1>1, <1>4, <3>1
    <2> QED
      BY <2>1 DEF Alike
  <1>8. Stream[u + n + 1] = "NUL"
    <2>1. n + 1 \in 1..Len(code) /\ u + (n + 1) = u + n + 1
      BY <1>3, <1>4, <1>6
    <2>2. Stream[u + (n + 1)] = code[n + 1]
      BY <1>1, <2>1
    <2> QED
      BY <1>4, <2>1, <2>2
  <1>9. Holds(Stream, u, f.body, "NUL")
    BY <1>7, <1>8 DEF Holds, n, coded
  <1>10. Len(Upto(k + 1)) = u + n + 1
    BY <1>1, <1>3, <1>4, <1>6
  <1> QED
    BY <1>4, <1>5, <1>9, <1>10 DEF f, u, n, coded

LEMMA MessageInStream ==
    ASSUME frames \in Seq(Sendable), NEW k \in 0..(Len(frames) - 1),
           channel \notin {"pipe", "native"}, frames[k + 1].kind = "msg"
    PROVE  LET body == frames[k + 1].body
               n == Len(ToBytes(body))
               u == Len(Upto(k))
           IN  /\ body \in Bodies
               /\ Stream[u + 1] = "MSG" /\ Stream[u + 2] = Digit[n]
               /\ Stream[u + 3] = "CR" /\ Stream[u + 4] = "LF"
               /\ Holds(Stream, u + 4, body, "CR")
               /\ Stream[u + 4 + n + 2] = "LF"
               /\ Len(Upto(k + 1)) = u + n + 6
  <1> DEFINE f == frames[k + 1]
             code == Coding(f)
             coded == ToBytes(f.body)
             n == Len(coded)
             u == Len(Upto(k))
  <1>1. /\ f \in Sendable /\ Len(Upto(k + 1)) = u + Len(code)
        /\ \A j \in 1..Len(code) : Stream[u + j] = code[j]
    BY StreamAt
  <1>2. k \in 0..Len(frames) /\ f.kind = "msg"
    BY UptoLength
  <1>3. u \in Nat
    BY <1>2, UptoLength
  <1> HIDE DEF f
  <1>4. /\ Len(code) = n + 6
        /\ code[1] = "MSG" /\ code[2] = Digit[n] /\ code[3] = "CR" /\ code[4] = "LF"
        /\ \A i \in 1..n : code[4 + i] = coded[i]
        /\ code[n + 5] = "CR" /\ code[n + 6] = "LF"
    BY <1>1, <1>2, MessageBytes
  <1>5. f.body \in Bodies
    BY <1>1, <1>2 DEF Sendable, Frame
  <1>6. n \in Nat
    BY <1>5, LastByte
  <1> HIDE DEF code, coded, n, u
  <1>7. Alike(coded, 0, Stream, u + 4, n)
    <2>1. ASSUME NEW i \in 1..n PROVE Stream[(u + 4) + i] = coded[0 + i]
      <3>1. 4 + i \in 1..Len(code) /\ 0 + i = i /\ u + (4 + i) = (u + 4) + i
        BY <1>3, <1>4, <1>6
      <3>2. Stream[u + (4 + i)] = code[4 + i]
        BY <1>1, <3>1
      <3> QED
        BY <1>4, <3>1, <3>2
    <2> QED
      BY <2>1 DEF Alike
  <1>8. Stream[(u + 4) + n + 1] = "CR" /\ Stream[u + 4 + n + 2] = "LF"
    <2>1. /\ n + 5 \in 1..Len(code) /\ u + (n + 5) = (u + 4) + n + 1
          /\ n + 6 \in 1..Len(code) /\ u + (n + 6) = u + 4 + n + 2
      BY <1>3, <1>4, <1>6
    <2>2. Stream[u + (n + 5)] = code[n + 5] /\ Stream[u + (n + 6)] = code[n + 6]
      BY <1>1, <2>1
    <2> QED
      BY <1>4, <2>1, <2>2
  <1>9. Holds(Stream, u + 4, f.body, "CR")
    BY <1>7, <1>8 DEF Holds, n, coded
  <1>10. Len(Upto(k + 1)) = u + n + 6
    BY <1>1, <1>3, <1>4, <1>6
  <1>11. Stream[u + 1] = "MSG" /\ Stream[u + 2] = Digit[n] /\ Stream[u + 3] = "CR" /\ Stream[u + 4] = "LF"
    <2>1. 1 \in 1..Len(code) /\ 2 \in 1..Len(code) /\ 3 \in 1..Len(code) /\ 4 \in 1..Len(code)
      BY <1>4, <1>6
    <2> QED
      BY <1>1, <1>4, <2>1
  <1> QED
    BY <1>5, <1>8, <1>9, <1>10, <1>11 DEF f, u, n, coded

\* Each byte is in a frame.
LEMMA FrameAt ==
    ASSUME frames \in Seq(Sendable), NEW a \in Nat, a < Len(Stream)
    PROVE  \E k \in 0..(Len(frames) - 1) : Len(Upto(k)) <= a /\ a < Len(Upto(k + 1))
  <1>1. /\ Len(frames) \in Nat /\ Len(Stream) \in Nat /\ Len(Upto(Len(frames))) = Len(Stream)
        /\ a \in 0..Len(Stream)
    BY UptoLength
  <1>2. PICK k \in 0..Len(frames) : Reached(k, a)
    BY <1>1, ReachedExists
  <1>3. Len(Upto(k)) <= a /\ (k < Len(frames) => a < Len(Upto(k + 1)))
    BY <1>2 DEF Reached
  <1>4. k # Len(frames)
    BY <1>1, <1>3
  <1>5. k \in 0..(Len(frames) - 1) /\ k < Len(frames)
    BY <1>1, <1>4
  <1> QED
    BY <1>3, <1>5

\* MSG is the first word of a message, or is in the body of one.
LEMMA MSGAt ==
    ASSUME frames \in Seq(Sendable), channel \notin {"pipe", "native"},
           NEW a \in Nat, a < Len(Stream), Stream[a + 1] = "MSG"
    PROVE  \E k \in 0..(Len(frames) - 1) :
             /\ frames[k + 1].kind = "msg"
             /\ \/ a = Len(Upto(k))
                \/ /\ Len(Upto(k)) + 4 <= a
                   /\ a < Len(Upto(k)) + 4 + Len(ToBytes(frames[k + 1].body))
  <1>1. PICK k \in 0..(Len(frames) - 1) : Len(Upto(k)) <= a /\ a < Len(Upto(k + 1))
    BY FrameAt
  <1> DEFINE f == frames[k + 1]
             u == Len(Upto(k))
             code == Coding(f)
             n == Len(ToBytes(f.body))
  <1>2. /\ f \in Sendable /\ Len(Upto(k + 1)) = u + Len(code)
        /\ \A j \in 1..Len(code) : Stream[u + j] = code[j] /\ Len(code) > 0
    BY StreamAt
  <1>3. k \in 0..Len(frames)
    BY UptoLength
  <1>4. u \in Nat /\ Len(code) \in Nat
    <2>1. code \in Text
      BY StreamAt
    <2> QED
      BY <1>3, <2>1, UptoLength, LenProperties DEF Text
  <1>5. u <= a /\ a < u + Len(code)
    BY <1>1, <1>2
  <1> HIDE DEF f, u, code
  <1>6. CASE f.kind # "msg"
    <2> DEFINE w == IF f.kind = "ping" THEN "PING" ELSE "INFO"
    <2>1. Len(code) = 3 /\ code[1] = w /\ code[2] = "CR" /\ code[3] = "LF"
      BY <1>2, <1>6, ControlCoding DEF code
    <2>2. w # "MSG"
      OBVIOUS
    <2> HIDE DEF w
    <2>3. a = u + 0 \/ a = u + 1 \/ a = u + 2
      BY <1>4, <1>5, <2>1
    <2>4. Stream[u + 1] = w /\ Stream[u + 2] = "CR" /\ Stream[u + 3] = "LF"
      BY <1>2, <2>1
    <2>5. a + 1 = u + 1 \/ a + 1 = u + 2 \/ a + 1 = u + 3
      BY <1>4, <2>3
    <2> QED
      BY <2>2, <2>4, <2>5
  <1>7. CASE f.kind = "msg"
    <2>1. /\ f.body \in Bodies
          /\ Stream[u + 2] = Digit[n] /\ Stream[u + 3] = "CR" /\ Stream[u + 4] = "LF"
          /\ Holds(Stream, u + 4, f.body, "CR") /\ Stream[u + 4 + n + 2] = "LF"
          /\ u + Len(code) = u + n + 6
      BY <1>2, <1>7, MessageInStream DEF f, u
    <2>2. n \in Nat
      BY <2>1, LastByte
    <2>3. Stream[u + 4 + n + 1] = "CR"
      BY <2>1 DEF Holds
    <2>4. Digit[n] # "MSG"
      <3>1. Digit[n] \in ToSet(Digit)
        BY <2>1, FramingAssumption, DigitSet
      <3> QED
        BY <3>1, DigitSet
    <2> HIDE DEF n
    <2>5. ASSUME a # u, ~(u + 4 <= a /\ a < u + 4 + n) PROVE FALSE
      <3>1. \/ a + 1 = u + 2 \/ a + 1 = u + 3 \/ a + 1 = u + 4
            \/ a + 1 = u + 4 + n + 1 \/ a + 1 = u + 4 + n + 2
        BY <1>4, <1>5, <2>1, <2>2, <2>5
      <3> QED
        BY <2>1, <2>3, <2>4, <3>1
    <2> QED
      BY <1>7, <2>5 DEF f, u, n
  <1> QED
    BY <1>6, <1>7

-----------------------------------------------------------------------------
(* The passes, whatever the bodies hold.                                   *)

\* A message of the pipe is never cut: what is left starts where a frame does.
FrameEnd(a) == channel = "pipe" => \E k \in 0..Len(frames) : a = Len(Upto(k))

\* What is left is read from the stream, up to byte t, from after what was taken.
Onward(list, rest, t) ==
    \E a \in 0..t : Reads(rest, Stream, a, t) /\ Placed(list, a) /\ FrameEnd(a)

Follows(base, t) ==
    {call \in [rest : Text, payloads : Seq(Text), pongs : Nat] :
        Onward(base \o call.payloads, call.rest, t)}

LEMMA ParsedType ==
    ASSUME NEW payload
    PROVE  Parsed(payload) \in Seq(Text)
  <1>1. CASE Trimmed(payload) \in Readable
    <2> DEFINE x == Trimmed(payload)
    <2>1. x \in Text
      BY <1>1, ReadableVisible
    <2>2. Parsed(payload) = <<x>>
      BY <1>1, Zenon DEF Parsed
    <2> HIDE DEF x
    <2> QED
      BY <2>1, <2>2, SmallSeqs
  <1>2. CASE Trimmed(payload) \notin Readable
    BY <1>2, EmptySeq, Zenon DEF Parsed
  <1> QED
    BY <1>1, <1>2

LEMMA TakingPlaced ==
    ASSUME frames \in Seq(Sendable), NEW list, NEW a \in Nat, NEW b \in Nat, Placed(list, a),
           NEW k \in 0..(Len(frames) - 1), frames[k + 1].kind = "msg",
           a <= Len(Upto(k)), Len(Upto(k)) < b,
           NEW payload,
           Trimmed(payload) \in Readable => Trimmed(payload) \in Readings(frames[k + 1].body)
    PROVE  Placed(list \o Parsed(payload), b)
  <1> DEFINE x == Trimmed(payload)
  <1>1. list \in Seq(Text)
    BY DEF Placed
  <1>2. CASE x \in Readable
    <2>1. x \in Text /\ x \in Readings(frames[k + 1].body)
      BY <1>2, ReadableVisible
    <2>2. Parsed(payload) = <<x>>
      BY <1>2, Zenon DEF Parsed
    <2> HIDE DEF x
    <2>3. Placed(Append(list, x), b)
      BY <2>1, PlacedNext
    <2>4. Append(list, x) = list \o <<x>>
      BY <1>1, <2>1, AppendIsConcat
    <2> QED
      BY <2>2, <2>3, <2>4, Zenon
  <1>3. CASE x \notin Readable
    <2>1. Parsed(payload) = <<>>
      BY <1>3, Zenon DEF Parsed
    <2>2. list \o <<>> = list
      BY <1>1, ConcatEmptySeq
    <2>3. a <= b
      <3>1. k \in 0..Len(frames)
        BY UptoLength
      <3>2. Len(Upto(k)) \in Nat
        BY <3>1, UptoLength
      <3> QED
        BY <3>2
    <2>4. Placed(list, b)
      BY <2>3, PlacedMore
    <2> QED
      BY <2>1, <2>2, <2>4, Zenon
  <1> QED
    BY <1>2, <1>3

LEMMA ListsAssociate ==
    ASSUME NEW x \in Seq(Text), NEW y \in Seq(Text), NEW z \in Seq(Text)
    PROVE  (x \o y) \o z = x \o (y \o z)
  <1> DEFINE S == Text
  <1>1. x \in Seq(S) /\ y \in Seq(S) /\ z \in Seq(S)
    OBVIOUS
  <1> HIDE DEF S
  <1> QED
    BY <1>1, ConcatAssociative

LEMMA TakingFollows ==
    ASSUME frames \in Seq(Sendable), NEW base \in Seq(Text), NEW t \in Nat,
           NEW call, call \in Follows(base, t),
           NEW a \in Nat, Placed(base \o call.payloads, a),
           NEW b \in 0..t, NEW rest, Reads(rest, Stream, b, t), FrameEnd(b),
           NEW k \in 0..(Len(frames) - 1), frames[k + 1].kind = "msg",
           a <= Len(Upto(k)), Len(Upto(k)) < b,
           NEW payload,
           Trimmed(payload) \in Readable => Trimmed(payload) \in Readings(frames[k + 1].body)
    PROVE  Taking(call, rest, payload) \in Follows(base, t)
  <1> DEFINE more == call.payloads \o Parsed(payload)
             new == Taking(call, rest, payload)
  <1>1. call.payloads \in Seq(Text) /\ call.pongs \in Nat
    BY DEF Follows
  <1>2. Parsed(payload) \in Seq(Text) /\ rest \in Text
    BY ParsedType, ReadsType
  <1>3. more \in Seq(Text) /\ base \o more = (base \o call.payloads) \o Parsed(payload)
    <2>1. more \in Seq(Text)
      BY <1>1, <1>2, ConcatProperties
    <2>2. (base \o call.payloads) \o Parsed(payload) = base \o more
      <3>2. base \in Seq(Text) /\ call.payloads \in Seq(Text) /\ Parsed(payload) \in Seq(Text)
        BY <1>1, <1>2
      <3> QED
        BY <3>2, ListsAssociate
    <2> QED
      BY <2>1, <2>2
  <1>4. b \in Nat
    OBVIOUS
  <1>5. Placed((base \o call.payloads) \o Parsed(payload), b)
    BY <1>4, TakingPlaced
  <1> HIDE DEF more
  <1>6. Onward(base \o more, rest, t)
    BY <1>3, <1>5, Zenon DEF Onward
  <1>7. new = [rest |-> rest, payloads |-> more, pongs |-> call.pongs]
    BY Zenon DEF Taking, more
  <1>8. new \in [rest : Text, payloads : Seq(Text), pongs : Nat]
    BY <1>1, <1>2, <1>3, <1>7
  <1>9. new.rest = rest /\ new.payloads = more
    BY <1>7
  <1> HIDE DEF new
  <1>10. new \in Follows(base, t)
    BY <1>6, <1>8, <1>9 DEF Follows
  <1> QED
    BY <1>10 DEF new

LEMMA SkippingFollows ==
    ASSUME frames \in Seq(Sendable), NEW base \in Seq(Text), NEW t \in Nat,
           NEW call, call \in Follows(base, t),
           NEW a \in Nat, Placed(base \o call.payloads, a), NEW n \in Nat,
           NEW b \in 0..t, NEW rest, Reads(rest, Stream, b, t), FrameEnd(b), a <= b
    PROVE  Skipping(call, rest, n) \in Follows(base, t)
  <1> DEFINE new == Skipping(call, rest, n)
             list == base \o call.payloads
  <1>1. call.payloads \in Seq(Text) /\ call.pongs + n \in Nat
    BY DEF Follows
  <1>2. rest \in Text /\ b \in Nat
    BY ReadsType
  <1>3. Placed(list, b)
    <2>1. Placed(list, a)
      OBVIOUS
    <2> HIDE DEF list
    <2> QED
      BY <1>2, <2>1, PlacedMore
  <1>4. Onward(list, rest, t)
    BY <1>3, Zenon DEF Onward
  <1>5. new = [rest |-> rest, payloads |-> call.payloads, pongs |-> call.pongs + n]
    BY Zenon DEF Skipping
  <1>6. new \in [rest : Text, payloads : Seq(Text), pongs : Nat]
    BY <1>1, <1>2, <1>5
  <1>7. new.rest = rest /\ new.payloads = call.payloads
    BY <1>5
  <1> HIDE DEF new
  <1>8. new \in Follows(base, t)
    BY <1>4, <1>6, <1>7 DEF Follows
  <1> QED
    BY <1>8 DEF new

Clear(text, m) == \A i \in 1..m : text[i] \notin Control

\* What precedes a stop, as a text of its own.
LEMMA StopText ==
    ASSUME NEW text, NEW bytes, NEW a, NEW e, NEW t, NEW c, NEW m,
           Stops(text, bytes, a, e, t, c, m), text \in Text, Clear(text, m),
           NEW y, y = SubSeq(text, 1, m)
    PROVE  /\ y \in Text /\ Len(y) = m /\ m \in Nat /\ m + 1 <= Len(text)
           /\ \A i \in 1..m : y[i] = text[i]
           /\ Trimmed(y) \in Readable => Trimmed(y) = y
  <1> DEFINE x == SubSeq(text, 1, m)
  <1>1. m \in Nat /\ m + 1 <= Len(text) /\ Len(text) \in Nat
    BY LenProperties DEF Stops, Text
  <1>2. m <= Len(text) /\ m - 1 + 1 = m /\ \A i \in 1..m : 1 + i - 1 = i
    BY <1>1
  <1>3. x \in Text /\ Len(x) = m - 1 + 1 /\ \A i \in 1..(m - 1 + 1) : x[i] = text[1 + i - 1]
    BY <1>1, <1>2, SubText
  <1> HIDE DEF x
  <1>4. x \in Text /\ Len(x) = m /\ \A i \in 1..m : x[i] = text[i]
    BY <1>2, <1>3
  <1>5. ASSUME Trimmed(x) \in Readable PROVE Trimmed(x) = x
    <2>1. m <= Len(x) /\ (m < Len(x) => x[m + 1] = "CR") /\ \A i \in 1..m : x[i] \notin Control
      BY <1>1, <1>4 DEF Clear
    <2>2. Trimmed(x) = SubSeq(x, 1, m)
      BY <1>1, <1>4, <1>5, <2>1, TrimmedBody
    <2>3. SubSeq(x, 1, Len(x)) = x
      BY <1>4, SubSeqFull DEF Text
    <2> QED
      BY <1>4, <2>2, <2>3
  <1> QED
    BY <1>1, <1>4, <1>5, Zenon DEF x

LEMMA PipeFollows ==
    ASSUME frames \in Seq(Sendable), NEW base \in Seq(Text), NEW t \in 0..Len(Stream),
           NEW call, call \in Follows(base, t), channel = "pipe"
    PROVE  NextPipeMessage(call) \in Follows(base, t)
  <1> DEFINE text == call.rest
             ends == {i \in DOMAIN text : text[i] = "NUL"}
  <1>1. CASE ends = {}
    <2>1. NextPipeMessage(call) = call
      BY <1>1, Zenon DEF NextPipeMessage
    <2> QED
      BY <2>1
  <1>2. CASE ends # {}
    <2>1. /\ Len(frames) \in Nat /\ Len(Stream) \in Nat /\ t \in Nat
          /\ Len(Upto(Len(frames))) = Len(Stream)
      BY UptoLength
    <2>2. PICK a \in 0..t : Reads(text, Stream, a, t) /\ Placed(base \o call.payloads, a) /\ FrameEnd(a)
      <3>1. Onward(base \o call.payloads, text, t)
        BY DEF Follows
      <3> HIDE DEF text
      <3> QED
        BY <3>1, Zenon DEF Onward
    <2>3. PICK k \in 0..Len(frames) : a = Len(Upto(k))
      BY <2>2 DEF FrameEnd
    <2>4. text \in Text /\ Len(text) \in Nat /\ DOMAIN text = 1..Len(text)
      BY <2>2, ReadsType, LenProperties DEF Text
    <2>5. PICK i \in 1..Len(text) : text[i] = "NUL"
      BY <1>2, <2>4
    <2> HIDE DEF text
    <2>6. a < t /\ a \in Nat
      <3>1. Len(text) <= t - a
        BY <2>2, ReadsType
      <3> QED
        BY <2>1, <2>4, <2>5, <3>1
    <2>7. k \in 0..(Len(frames) - 1)
      <3>1. k # Len(frames)
        BY <2>1, <2>3, <2>6
      <3> QED
        BY <2>1, <3>1
    <2> DEFINE body == frames[k + 1].body
               e == a + Len(ToBytes(body))
    <2>8. /\ frames[k + 1].kind = "msg" /\ body \in Bodies
          /\ Holds(Stream, a, body, "NUL") /\ Len(Upto(k + 1)) = e + 1
      BY <2>3, <2>7, PipeInStream
    <2>9. Len(ToBytes(body)) \in Nat
      BY <2>8, LastByte
    <2> HIDE DEF body
    <2>10. e \in Nat /\ a <= e /\ a <= a /\ "NUL" \in Control
      BY <2>6, <2>9 DEF Control
    <2>11. Without(Stream, a, e, "NUL")
      BY <2>6, <2>8, <2>10, BodyWithout
    <2> HIDE DEF e
    <2>12. e < t
      <3>1. "NUL" \notin {"w", "?"}
        OBVIOUS
      <3> QED
        BY <2>2, <2>5, <2>10, <2>11, <3>1, GoesBeyond
    <2>13. PICK m \in Nat :
             /\ Stops(text, Stream, a, e, t, "NUL", m)
             /\ SubSeq(text, 1, m) \in Readings(body)
             /\ \A j \in 1..m : text[j] \notin Control
      <3>1. e = a + Len(ToBytes(body))
        BY DEF e
      <3> QED
        BY <2>2, <2>6, <2>8, <2>10, <2>12, <3>1, WholeBody
    <2> DEFINE x == SubSeq(text, 1, m)
               rest == SubSeq(text, m + 2, Len(text))
    <2>14. /\ m + 1 <= Len(text) /\ text[m + 1] = "NUL" /\ Reads(rest, Stream, e + 1, t)
      BY <2>13, Zenon DEF Stops
    <2>15. Trimmed(x) \in Readable => Trimmed(x) = x
      <3>1. Clear(text, m)
        BY <2>13 DEF Clear
      <3> HIDE DEF x
      <3>2. x = SubSeq(text, 1, m)
        BY DEF x
      <3> QED
        BY <2>4, <2>13, <3>1, <3>2, StopText
    <2>16. Min(ends) = m + 1
      <3>1. m + 1 \in ends
        BY <2>4, <2>14 DEF text
      <3>2. \A y \in ends : m + 1 <= y
        <4> SUFFICES ASSUME NEW y \in ends PROVE m + 1 <= y
          OBVIOUS
        <4>1. y \in 1..Len(text) /\ text[y] = "NUL"
          BY <2>4 DEF text
        <4>2. y \notin 1..m
          BY <2>13, <4>1 DEF Control
        <4> QED
          BY <4>1, <4>2
      <3>3. \A z \in ends : (\A y \in ends : z <= y) => z = m + 1
        <4> SUFFICES ASSUME NEW z \in ends, \A y \in ends : z <= y PROVE z = m + 1
          OBVIOUS
        <4>1. z <= m + 1 /\ m + 1 <= z
          BY <3>1, <3>2
        <4>2. z \in Nat
          BY <2>4 DEF text
        <4> QED
          BY <4>1, <4>2
      <3> HIDE DEF ends
      <3> QED
        BY <3>1, <3>2, <3>3 DEF Min
    <2>17. NextPipeMessage(call) = Taking(call, rest, x)
      <3>1. NextPipeMessage(call) =
              Taking(call, SubSeq(text, Min(ends) + 1, Len(text)), SubSeq(text, 1, Min(ends) - 1))
        BY <1>2, Zenon DEF NextPipeMessage, text
      <3> HIDE DEF ends
      <3>2. Min(ends) + 1 = m + 2 /\ Min(ends) - 1 = m
        BY <2>16
      <3> QED
        BY <3>1, <3>2, Zenon
    <2> HIDE DEF x, rest
    <2>18. e + 1 \in 0..t /\ Len(Upto(k)) < e + 1 /\ a <= Len(Upto(k)) /\ e + 1 = Len(Upto(k + 1))
      BY <2>1, <2>3, <2>6, <2>8, <2>10, <2>12 DEF e
    <2>19. FrameEnd(e + 1)
      <3>1. k + 1 \in 0..Len(frames)
        BY <2>1, <2>7
      <3> QED
        BY <2>18, <3>1, Zenon DEF FrameEnd
    <2>20. Trimmed(x) \in Readable => Trimmed(x) \in Readings(frames[k + 1].body)
      BY <2>13, <2>15 DEF x, body
    <2>21. Taking(call, rest, x) \in Follows(base, t)
      BY <2>1, <2>2, <2>6, <2>7, <2>8, <2>14, <2>18, <2>19, <2>20, TakingFollows
    <2> QED
      BY <2>17, <2>21
  <1> QED
    BY <1>1, <1>2

\* Bytes that are characters are read as they are.
Whole(bytes, a, m) == \A i \in 1..m : bytes[a + i] \notin Halves

LEMMA PlainHead ==
    ASSUME NEW text, NEW bytes, NEW a, NEW b, Reads(text, bytes, a, b),
           NEW m \in Nat, m <= Len(text), Whole(bytes, a, m)
    PROVE  /\ \A i \in 1..m : text[i] = bytes[a + i]
           /\ Reads(SubSeq(text, m + 1, Len(text)), bytes, a + m, b)
  <1>1. text \in Text /\ Len(text) \in Nat /\ a \in Nat /\ b \in Nat
    BY ReadsType
  <1>2. PICK P \in [0..Len(text) -> Nat] : Spells(P, text, bytes, a, b)
    BY DEF Reads
  <1>3. P[0] = a /\ \A i \in 1..Len(text) : Unit(text[i], bytes, P[i - 1], P[i])
    BY <1>2 DEF Spells
  <1>4. m \in 0..Len(text)
    BY <1>1
  <1>5. ASSUME NEW i \in 0..(m - 1), P[i] = a + i
        PROVE  P[i + 1] = a + (i + 1) /\ text[i + 1] = bytes[a + (i + 1)]
    <2>1. /\ i + 1 \in 1..Len(text) /\ (i + 1) - 1 = i /\ i + 1 \in 1..m /\ i \in Nat
          /\ (a + i) + 1 = a + (i + 1)
      BY <1>1, <1>4
    <2>2. Unit(text[i + 1], bytes, P[(i + 1) - 1], P[i + 1])
      BY <1>3, <2>1, Zenon
    <2>3. Unit(text[i + 1], bytes, a + i, P[i + 1])
      BY <1>5, <2>1, <2>2
    <2>4. bytes[a + (i + 1)] \notin Halves
      BY <2>1 DEF Whole
    <2>5. bytes[(a + i) + 1] # "w1" /\ Shown(bytes[a + (i + 1)]) = bytes[a + (i + 1)]
      BY <2>1, <2>4 DEF Shown, Halves
    <2> QED
      BY <2>1, <2>3, <2>5 DEF Unit
  <1> DEFINE T == {i \in Nat : P[i] = a + i}
  <1>6. 0 \in T
    BY <1>1, <1>3
  <1>7. \A i \in 0..(m - 1) : i \in T => i + 1 \in T
    BY <1>5
  <1>8. ASSUME NEW i \in 0..m PROVE P[i] = a + i
    <2>1. \A j \in 0..(i - 1) : j \in T => j + 1 \in T
      BY <1>7
    <2> HIDE DEF T
    <2>2. i \in T
      BY <1>6, <2>1, BoundedInduction
    <2> QED
      BY <2>2 DEF T
  <1>9. ASSUME NEW i \in 1..m PROVE text[i] = bytes[a + i]
    <2>1. i - 1 \in 0..(m - 1) /\ (i - 1) + 1 = i /\ i - 1 \in 0..m
      OBVIOUS
    <2>2. P[i - 1] = a + (i - 1)
      BY <1>8, <2>1
    <2>3. text[(i - 1) + 1] = bytes[a + ((i - 1) + 1)]
      BY <1>5, <2>1, <2>2
    <2> QED
      BY <2>1, <2>3
  <1>10. P[m] = a + m
    BY <1>8
  <1>11. Reads(SubSeq(text, m + 1, Len(text)), bytes, P[m], b)
    BY <1>1, <1>2, <1>4, ReadsSplit
  <1> QED
    BY <1>9, <1>10, <1>11

LEMMA PlainStart ==
    ASSUME NEW text, NEW bytes, NEW a, NEW b, Reads(text, bytes, a, b),
           NEW m \in Nat, m <= Len(text), Whole(bytes, a, m)
    PROVE  Alike(bytes, a, text, 0, m)
  <1>1. \A i \in 1..m : text[i] = bytes[a + i]
    BY PlainHead
  <1>2. \A i \in 1..m : 0 + i = i
    OBVIOUS
  <1> QED
    BY <1>1, <1>2 DEF Alike

LEMMA LastReads ==
    ASSUME NEW x, NEW bytes, NEW a, NEW b, Reads(x, bytes, a, b), x # <<>>
    PROVE  Last(x) = "w" \/ Last(x) = Shown(bytes[b])
  <1>1. x \in Text /\ Len(x) \in Nat
    BY ReadsType
  <1>2. PICK P \in [0..Len(x) -> Nat] : Spells(P, x, bytes, a, b)
    BY DEF Reads
  <1>3. Len(x) \in 1..Len(x)
    BY <1>1, EmptySeq DEF Text
  <1>4. Unit(x[Len(x)], bytes, P[Len(x) - 1], P[Len(x)]) /\ P[Len(x)] = b
    BY <1>2, <1>3 DEF Spells
  <1>5. Last(x) = x[Len(x)]
    BY DEF Last
  <1> QED
    BY <1>4, <1>5 DEF Unit

\* The line that a body's rest is taken for ends with no size.
LEMMA LineInBody ==
    ASSUME frames \in Seq(Sendable), channel \notin {"pipe", "native"},
           NEW k \in 0..(Len(frames) - 1), frames[k + 1].kind = "msg",
           NEW text, NEW a, NEW t, Reads(text, Stream, a, t),
           Len(Upto(k)) + 4 <= a, a < Len(Upto(k)) + 4 + Len(ToBytes(frames[k + 1].body)),
           LineEnds(text) # {}, NEW line, line = SubSeq(text, 1, LineLength(text))
    PROVE  Sizes(Last(line)) = {}
  <1> DEFINE body == frames[k + 1].body
             coded == ToBytes(body)
             n == Len(coded)
             d == Len(Upto(k)) + 4
             e == d + n
             l == LineLength(text)
  <1>1. /\ body \in Bodies /\ Holds(Stream, d, body, "CR") /\ Stream[d + n + 2] = "LF"
    BY MessageInStream
  <1>2. /\ n \in Nat \ {0} /\ \A i \in 1..n : coded[i] \notin Control
        /\ Sizes(Shown(coded[n])) = {}
    BY <1>1, LastByte
  <1>3. d \in Nat
    <2>1. k \in 0..Len(frames)
      BY UptoLength
    <2>2. Len(Upto(k)) \in Nat
      BY <2>1, UptoLength
    <2> QED
      BY <2>2
  <1>4. text \in Text /\ Len(text) \in Nat /\ a \in Nat /\ t \in Nat
    BY ReadsType
  <1>5. d <= a /\ a < e
    OBVIOUS
  <1> HIDE DEF body, d
  <1>6. Without(Stream, a, e, "CR") /\ Without(Stream, a, e, "NUL")
    <2>1. "CR" \in Control /\ "NUL" \in Control
      BY DEF Control
    <2> QED
      BY <1>1, <1>3, <1>4, <1>5, <2>1, BodyWithout
  <1>7. Stream[e + 1] = "CR" /\ Stream[d + 0 + n] = coded[n]
    <2>1. Stream[d + n + 1] = "CR" /\ Alike(coded, 0, Stream, d, n)
      BY <1>1 DEF Holds
    <2>2. n \in 1..n /\ 0 + n = n /\ d + 0 + n = d + n
      BY <1>2, <1>3
    <2>3. Stream[d + n] = coded[0 + n]
      BY <2>1, <2>2 DEF Alike
    <2> QED
      BY <2>1, <2>2, <2>3
  <1>8. Stream[e] = coded[n] /\ e \in Nat /\ Stream[e + 2] = "LF"
    BY <1>1, <1>2, <1>3, <1>7
  <1>9. /\ l \in Nat /\ l + 2 <= Len(text)
        /\ text[l + 1] = "CR" /\ text[l + 2] = "LF"
        /\ \A i \in LineEnds(text) : l + 1 <= i
    BY <1>4, LineIs
  <1> HIDE DEF n, coded, e, l
  <1>10. e < t
    <2>1. "CR" \notin {"w", "?"} /\ l + 1 \in 1..Len(text)
      BY <1>4, <1>9
    <2> QED
      BY <1>6, <1>8, <1>9, <2>1, GoesBeyond
  <1>11. PICK m \in Nat : Stops(text, Stream, a, e, t, "CR", m)
    <2>1. "CR" \notin Halves \cup {"w", "?"} /\ a <= e
      BY <1>4, <1>5, <1>8 DEF Halves
    <2> QED
      BY <1>6, <1>7, <1>8, <1>10, <2>1, StopsAt
  <1>12. /\ m + 1 <= Len(text) /\ Reads(SubSeq(text, 1, m), Stream, a, e)
         /\ \A i \in 1..m : text[i] # "CR"
         /\ text[m + 1] = "CR"
         /\ Reads(SubSeq(text, m + 2, Len(text)), Stream, e + 1, t)
    BY <1>11, Zenon DEF Stops
  <1>13. m <= l
    <2> SUFFICES ASSUME ~(m <= l) PROVE FALSE
      OBVIOUS
    <2>1. l + 1 \in 1..m
      BY <1>9
    <2> QED
      BY <1>9, <1>12, <2>1
  <1>14. m = l
    <2> SUFFICES ASSUME m # l PROVE FALSE
      OBVIOUS
    <2>1. m < l /\ m + 2 <= Len(text)
      BY <1>4, <1>9, <1>13
    <2> DEFINE y == SubSeq(text, m + 2, Len(text))
    <2>2. /\ Len(y) = Len(text) - (m + 2) + 1
          /\ \A i \in 1..(Len(text) - (m + 2) + 1) : y[i] = text[(m + 2) + i - 1]
      <3>1. m + 2 \in Nat /\ 1 <= m + 2 /\ m + 2 <= Len(text) + 1 /\ Len(text) <= Len(text)
        BY <1>4, <2>1
      <3> QED
        BY <1>4, <3>1, SubText
    <2>3. Reads(y, Stream, e + 1, t)
      BY <1>12
    <2> HIDE DEF y
    <2>4. 1 \in 1..(Len(text) - (m + 2) + 1) /\ (m + 2) + 1 - 1 = m + 2 /\ Len(y) # 0
      BY <1>4, <2>1, <2>2
    <2>5. y[1] = text[m + 2]
      BY <2>2, <2>4
    <2>6. y # <<>> /\ (e + 1) + 1 = e + 2 /\ "LF" \notin Halves
      BY <1>8, <2>4 DEF Halves
    <2>7. y[1] = "LF"
      <3>1. Stream[(e + 1) + 1] = "LF" /\ Stream[(e + 1) + 1] \notin Halves
        BY <1>8, <2>6
      <3>2. y[1] = Stream[(e + 1) + 1]
        BY <2>3, <2>6, <3>1, HeadReads
      <3> QED
        BY <3>1, <3>2
    <2>8. m + 1 \in LineEnds(text)
      <3>1. m + 1 \in 1..(Len(text) - 1) /\ (m + 1) + 1 = m + 2
        BY <1>4, <2>1
      <3> QED
        BY <1>12, <2>5, <2>7, <3>1 DEF LineEnds
    <2>9. l + 1 <= m + 1
      BY <1>9, <2>8
    <2> QED
      BY <1>9, <2>1, <2>9
  <1>15. Reads(line, Stream, a, e)
    BY <1>12, <1>14 DEF l
  <1>16. line # <<>>
    <2>1. a # e
      BY <1>4, <1>5, <1>8
    <2>2. line = <<>> => e = a
      BY <1>15, ReadsType, Zenon
    <2> QED
      BY <2>1, <2>2
  <1>17. Last(line) = "w" \/ Last(line) = Shown(coded[n])
    BY <1>8, <1>15, <1>16, LastReads
  <1>18. Sizes("w") = {}
    BY DigitSet DEF Sizes
  <1> QED
    BY <1>2, <1>17, <1>18, Zenon

LEMMA HeadByte ==
    ASSUME NEW text, NEW bytes, NEW a, NEW b, Reads(text, bytes, a, b), text # <<>>,
           text[1] \notin {"w", "?"}
    PROVE  bytes[a + 1] = text[1] /\ a < b
  <1>1. text \in Text /\ Len(text) \in Nat /\ a \in Nat /\ b \in Nat /\ Len(text) <= b - a
    BY ReadsType
  <1>2. PICK P \in [0..Len(text) -> Nat] : Spells(P, text, bytes, a, b)
    BY DEF Reads
  <1>3. 1 \in 1..Len(text) /\ 1 - 1 = 0
    BY <1>1, EmptySeq DEF Text
  <1>4. Unit(text[1], bytes, P[1 - 1], P[1]) /\ P[0] = a
    BY <1>2, <1>3 DEF Spells
  <1>5. Unit(text[1], bytes, a, P[1])
    BY <1>3, <1>4
  <1>6. bytes[a + 1] = text[1]
    BY <1>5 DEF Unit, Shown
  <1>7. a < b
    BY <1>1, <1>3
  <1> QED
    BY <1>6, <1>7

\* What is left after i characters.
LEMMA ReadsRest ==
    ASSUME NEW text, NEW bytes, NEW a, NEW t, Reads(text, bytes, a, t),
           NEW i \in 0..Len(text), NEW rest, rest = SubSeq(text, i + 1, Len(text))
    PROVE  \E b \in 0..t : Reads(rest, bytes, b, t) /\ a + i <= b
  <1>1. text \in Text /\ Len(text) \in Nat /\ a \in Nat /\ t \in Nat /\ i \in Nat
    BY ReadsType
  <1>2. PICK P \in [0..Len(text) -> Nat] : Spells(P, text, bytes, a, t)
    BY DEF Reads
  <1> DEFINE b == P[i]
  <1>3. Reads(rest, bytes, b, t) /\ i <= b - a
    BY <1>1, <1>2, ReadsSplit
  <1>4. b \in Nat
    BY <1>2
  <1> HIDE DEF b
  <1>5. Len(rest) \in Nat /\ Len(rest) <= t - b
    BY <1>3, ReadsType
  <1>6. b \in 0..t /\ a + i <= b
    BY <1>1, <1>3, <1>4, <1>5
  <1> QED
    BY <1>3, <1>6

\* The line of a message that is read from its start.
LEMMA LineOfMessage ==
    ASSUME frames \in Seq(Sendable), channel \notin {"pipe", "native"},
           NEW k \in 0..(Len(frames) - 1), frames[k + 1].kind = "msg",
           NEW text, NEW a, NEW t, a = Len(Upto(k)), Reads(text, Stream, a, t), LineEnds(text) # {}
    PROVE  /\ LineLength(text) = 2 /\ 4 <= Len(text)
           /\ text[2] = Digit[Len(ToBytes(frames[k + 1].body))]
           /\ Reads(SubSeq(text, 5, Len(text)), Stream, a + 4, t)
  <1> DEFINE body == frames[k + 1].body
             n == Len(ToBytes(body))
             l == LineLength(text)
  <1>1. /\ body \in Bodies
        /\ Stream[a + 1] = "MSG" /\ Stream[a + 2] = Digit[n]
        /\ Stream[a + 3] = "CR" /\ Stream[a + 4] = "LF"
    BY MessageInStream
  <1>2. Digit[n] \in Letters
    BY <1>1, BodyType
  <1> HIDE DEF body, n
  <1>3. Digit[n] \notin Control \cup Halves
    BY <1>2, FramingAssumption
  <1>4. text \in Text /\ Len(text) \in Nat /\ a \in Nat /\ t \in Nat
    BY ReadsType
  <1>5. /\ l \in Nat /\ l + 2 <= Len(text)
        /\ text[l + 1] = "CR" /\ text[l + 2] = "LF"
        /\ \A i \in LineEnds(text) : l + 1 <= i
    BY <1>4, LineIs
  <1> HIDE DEF l
  <1>6. Whole(Stream, a, 4) /\ Whole(Stream, a, 2)
    <2>1. \A i \in 1..4 : i = 1 \/ i = 2 \/ i = 3 \/ i = 4
      OBVIOUS
    <2>2. \A i \in 1..4 : Stream[a + i] \in {"MSG", Digit[n], "CR", "LF"}
      BY <1>1, <2>1
    <2>3. \A i \in 1..4 : Stream[a + i] \notin Halves
      BY <1>3, <2>2 DEF Halves
    <2> QED
      BY <2>3 DEF Whole
  <1>7. text[1] = "MSG" /\ text[2] = Digit[n]
    <2>1. 2 <= Len(text) /\ 2 \in Nat /\ 1 \in 1..2 /\ 2 \in 1..2
      BY <1>4, <1>5
    <2>2. \A i \in 1..2 : text[i] = Stream[a + i]
      BY <1>6, <2>1, PlainHead
    <2> QED
      BY <1>1, <2>1, <2>2
  <1>8. l >= 2
    <2>1. "CR" # Digit[n]
      BY <1>3 DEF Control
    <2>2. l + 1 # 1 /\ l + 1 # 2
      BY <1>5, <1>7, <2>1
    <2> QED
      BY <1>5, <2>2
  <1>9. 4 <= Len(text) /\ 4 \in Nat
    BY <1>4, <1>5, <1>8
  <1>10. /\ \A i \in 1..4 : text[i] = Stream[a + i]
         /\ Reads(SubSeq(text, 4 + 1, Len(text)), Stream, a + 4, t)
    <2> DEFINE m == 4
    <2>1. m \in Nat /\ m <= Len(text) /\ Whole(Stream, a, m) /\ Reads(text, Stream, a, t)
      BY <1>6, <1>9
    <2> HIDE DEF m
    <2>2. Reads(SubSeq(text, m + 1, Len(text)), Stream, a + m, t)
      BY <2>1, PlainHead
    <2>3. Alike(Stream, a, text, 0, m)
      BY <2>1, PlainStart
    <2>4. Alike(Stream, a, text, 0, 4)
      BY <2>3 DEF m
    <2>5. \A i \in 1..4 : text[i] = Stream[a + i]
      <3>1. \A i \in 1..4 : 0 + i = i
        OBVIOUS
      <3> QED
        BY <2>4, <3>1 DEF Alike
    <2> QED
      BY <2>2, <2>5 DEF m
  <1>11. text[3] = "CR" /\ text[4] = "LF"
    <2>1. 3 \in 1..4 /\ 4 \in 1..4
      OBVIOUS
    <2> QED
      BY <1>1, <1>10, <2>1
  <1>12. 3 \in LineEnds(text)
    <2>1. 3 \in 1..(Len(text) - 1) /\ 3 + 1 = 4
      BY <1>4, <1>9
    <2> QED
      BY <1>11, <2>1 DEF LineEnds
  <1>13. l = 2
    BY <1>5, <1>8, <1>12
  <1>14. 4 + 1 = 5
    OBVIOUS
  <1> QED
    BY <1>7, <1>9, <1>10, <1>13, <1>14 DEF l, n, body

\* What is taken for the payload of a message is its body, or does not parse.
LEMMA PayloadOfMessage ==
    ASSUME NEW after, NEW bytes, NEW d \in Nat, NEW t, Reads(after, bytes, d, t),
           NEW body \in Bodies, Holds(bytes, d, body, "CR"),
           NEW n, n = Len(ToBytes(body)), n + 2 <= Len(after),
           NEW payload, payload = SubSeq(after, 1, n), Trimmed(payload) \in Readable
    PROVE  Trimmed(payload) \in Readings(body)
  <1>1. n \in Nat
    BY LastByte
  <1>2. after \in Text /\ Len(after) \in Nat /\ t \in Nat /\ Len(after) <= t - d
    BY ReadsType
  <1> DEFINE e == d + n
  <1>3. e = d + Len(ToBytes(body)) /\ e < t /\ "CR" \in Control
    BY <1>1, <1>2 DEF Control
  <1>4. e - d = n
    BY <1>1
  <1> HIDE DEF e
  <1>5. PICK m \in Nat :
          /\ Stops(after, bytes, d, e, t, "CR", m)
          /\ SubSeq(after, 1, m) \in Readings(body)
          /\ \A i \in 1..m : after[i] \notin Control
    BY <1>3, WholeBody
  <1>6. m <= n /\ after[m + 1] = "CR"
    BY <1>4, <1>5 DEF Stops
  <1> DEFINE x == SubSeq(after, 1, m)
  <1>7. payload \in Text /\ Len(payload) = n /\ \A i \in 1..n : payload[i] = after[i]
    <2>1. n <= Len(after) /\ payload = SubSeq(after, 1, n)
      BY <1>1, <1>2
    <2>2. FirstOf(payload, after, n)
      BY <1>1, <1>2, <2>1, FirstPart
    <2> QED
      BY <2>2 DEF FirstOf
  <1>8. x \in Text /\ Len(x) = m /\ \A i \in 1..m : x[i] = after[i]
    <2>1. m <= Len(after) /\ x = SubSeq(after, 1, m)
      BY <1>1, <1>2, <1>6
    <2> HIDE DEF x
    <2>2. FirstOf(x, after, m)
      BY <1>2, <2>1, FirstPart
    <2> QED
      BY <2>2 DEF FirstOf
  <1> HIDE DEF x
  <1>9. Trimmed(payload) = SubSeq(payload, 1, m)
    <2>1. m <= Len(payload)
      BY <1>6, <1>7
    <2>2. \A i \in 1..m : payload[i] \notin Control
      BY <1>1, <1>5, <1>6, <1>7
    <2>3. m < Len(payload) => payload[m + 1] = "CR"
      <3>1. m < n => m + 1 \in 1..n
        BY <1>1
      <3> QED
        BY <1>6, <1>7, <3>1
    <2> QED
      BY <1>7, <2>1, <2>2, <2>3, TrimmedBody
  <1>10. SubSeq(payload, 1, m) = x
    <2>1. m \in Nat /\ 1 \in Nat /\ 1 >= 1 /\ m = 1 + Len(x) - 1 /\ m <= Len(payload)
      BY <1>6, <1>7, <1>8
    <2>2. \A i \in 1..Len(x) : payload[1 + i - 1] = x[i]
      <3>1. \A i \in 1..m : 1 + i - 1 = i /\ i \in 1..n
        BY <1>1, <1>6
      <3> QED
        BY <1>7, <1>8, <3>1
    <2> QED
      BY <1>7, <1>8, <2>1, <2>2, SameSubSeq
  <1> QED
    BY <1>5, <1>9, <1>10 DEF x

\* A MSG that has come in full, or has not.
LEMMA MessageFollows ==
    ASSUME frames \in Seq(Sendable), NEW base \in Seq(Text), NEW t \in 0..Len(Stream),
           NEW call, call \in Follows(base, t), channel \notin {"pipe", "native"},
           NEW a \in 0..t, Reads(call.rest, Stream, a, t), Placed(base \o call.payloads, a),
           NEW k \in 0..(Len(frames) - 1), frames[k + 1].kind = "msg", a = Len(Upto(k)),
           LineEnds(call.rest) # {}, call.rest[1] = "MSG"
    PROVE  NextFrame(call) \in Follows(base, t)
  <1> DEFINE text == call.rest
             body == frames[k + 1].body
             n == Len(ToBytes(body))
             line == SubSeq(text, 1, LineLength(text))
             after == SubSeq(text, Len(line) + 3, Len(text))
             c == CHOOSE m \in Sizes(Last(line)) : TRUE
             rest == SubSeq(after, n + 3, Len(after))
             payload == SubSeq(after, 1, n)
  <1>1. text \in Text /\ Len(text) \in Nat /\ t \in Nat /\ a \in Nat /\ Len(Stream) \in Nat
    BY ReadsType, UptoLength
  <1>2. body \in Bodies /\ Holds(Stream, a + 4, body, "CR")
    BY MessageInStream
  <1>3. n \in Nat /\ Sizes(Digit[n]) = {n}
    BY <1>2, BodyType
  <1>4. /\ LineLength(text) = 2 /\ 4 <= Len(text) /\ text[2] = Digit[n]
        /\ Reads(SubSeq(text, 5, Len(text)), Stream, a + 4, t)
    BY LineOfMessage
  <1>5. Len(line) = 2 /\ line[1] = text[1] /\ line[2] = text[2]
    <2>1. 1 <= 2 + 1 /\ 2 <= Len(text) /\ 2 - 1 + 1 = 2 /\ 1 + 1 - 1 = 1 /\ 1 + 2 - 1 = 2
          /\ 1 \in 1..(2 - 1 + 1) /\ 2 \in 1..(2 - 1 + 1) /\ 1 <= 1 /\ 1 \in Nat /\ 2 \in Nat
      BY <1>1, <1>4
    <2> DEFINE y == SubSeq(text, 1, 2)
    <2>2. Len(y) = 2 - 1 + 1 /\ \A i \in 1..(2 - 1 + 1) : y[i] = text[1 + i - 1]
      BY <1>1, <2>1, SubText
    <2>3. line = y
      BY <1>4
    <2> HIDE DEF y, line
    <2> QED
      BY <2>1, <2>2, <2>3
  <1>6. line # <<>> /\ Head(line) = "MSG" /\ Last(line) = Digit[n]
    <2> HIDE DEF line, n
    <2>1. Len(line) # 0 /\ Len(line) = 2
      BY <1>5
    <2>2. Head(line) = line[1] /\ Last(line) = line[2]
      BY <2>1 DEF Last
    <2>3. line # <<>>
      <3>1. Len(<<>>) = 0
        BY EmptySeq
      <3> QED
        BY <2>1, <3>1, Zenon
    <2>4. Head(line) = "MSG"
      BY <1>5, <2>2
    <2>5. Last(line) = Digit[n]
      BY <1>4, <1>5, <2>2
    <2> QED
      BY <2>3, <2>4, <2>5
  <1>7. after = SubSeq(text, 5, Len(text)) /\ c = n /\ Sizes(Last(line)) = {n}
    <2>1. Len(line) + 3 = 5
      <3> HIDE DEF line
      <3> QED
        BY <1>5
    <2>2. after = SubSeq(text, 5, Len(text))
      BY <2>1
    <2> HIDE DEF n, line
    <2>3. Sizes(Last(line)) = {n}
      BY <1>3, <1>6
    <2>4. c = n
      BY <2>3, OneOf
    <2> QED
      BY <2>2, <2>3, <2>4
  <1>8. NextFrame(call) = IF Len(after) < n + 2 THEN call ELSE Taking(call, rest, payload)
    <2>1. NextFrame(call) =
            IF \A m \in Sizes(Last(line)) : Len(after) < m + 2 THEN call
            ELSE Taking(call, SubSeq(after, c + 3, Len(after)), SubSeq(after, 1, c))
      <3> HIDE DEF body, n
      <3>1. LineEnds(text) # {}
        OBVIOUS
      <3> QED
        BY <1>6, <3>1, Zenon DEF NextFrame
    <2> HIDE DEF after, line, c, n
    <2> QED
      BY <1>7, <2>1
  <1> HIDE DEF line, c, n, body
  <1>9. CASE Len(after) < n + 2
    BY <1>8, <1>9
  <1>10. CASE ~(Len(after) < n + 2)
    <2>1. Reads(after, Stream, a + 4, t)
      BY <1>4, <1>7
    <2> HIDE DEF after
    <2>2. Len(after) \in Nat /\ n + 2 <= Len(after) /\ a + 4 \in Nat
      BY <1>1, <1>3, <1>10, <2>1, ReadsType
    <2> DEFINE i == n + 2
    <2>3. i \in 0..Len(after) /\ i + 1 = n + 3
      BY <1>3, <2>2
    <2>4. rest = SubSeq(after, i + 1, Len(after))
      BY <2>3
    <2> HIDE DEF rest, i
    <2>5. PICK b \in 0..t : Reads(rest, Stream, b, t) /\ (a + 4) + i <= b
      BY <2>1, <2>3, <2>4, ReadsRest
    <2>6. a < b
      BY <1>1, <1>3, <2>2, <2>3, <2>5
    <2>7. Trimmed(payload) \in Readable => Trimmed(payload) \in Readings(body)
      BY <1>2, <2>1, <2>2, PayloadOfMessage DEF n
    <2> HIDE DEF payload
    <2>8. Trimmed(payload) \in Readable => Trimmed(payload) \in Readings(frames[k + 1].body)
      BY <2>7 DEF body
    <2>9. FrameEnd(b) /\ a <= Len(Upto(k)) /\ Len(Upto(k)) < b
      BY <1>1, <2>6 DEF FrameEnd
    <2>10. Taking(call, rest, payload) \in Follows(base, t)
      BY <1>1, <2>5, <2>8, <2>9, TakingFollows
    <2> QED
      BY <1>8, <1>10, <2>10
  <1> QED
    BY <1>9, <1>10

LEMMA FrameFollows ==
    ASSUME frames \in Seq(Sendable), NEW base \in Seq(Text), NEW t \in 0..Len(Stream),
           NEW call, call \in Follows(base, t), channel \notin {"pipe", "native"}
    PROVE  NextFrame(call) \in Follows(base, t)
  <1> DEFINE text == call.rest
             l == LineLength(text)
             line == SubSeq(text, 1, l)
             after == SubSeq(text, Len(line) + 3, Len(text))
             n == IF line = <<"PING">> THEN 1 ELSE 0
  <1>1. PICK a \in 0..t : Reads(text, Stream, a, t) /\ Placed(base \o call.payloads, a)
    <2>1. Onward(base \o call.payloads, text, t)
      BY DEF Follows
    <2> HIDE DEF text
    <2> QED
      BY <2>1, Zenon DEF Onward
  <1>2. text \in Text /\ Len(text) \in Nat /\ a \in Nat /\ t \in Nat /\ Len(Stream) \in Nat
    BY <1>1, ReadsType, UptoLength
  <1>3. CASE LineEnds(text) = {}
    <2>1. NextFrame(call) = call
      BY <1>3, Zenon DEF NextFrame
    <2> QED
      BY <2>1
  <1>4. ASSUME LineEnds(text) # {} PROVE NextFrame(call) \in Follows(base, t)
    <2> HIDE DEF text
    <2>1. l \in Nat /\ l + 2 <= Len(text)
      BY <1>2, <1>4, LineIs
    <2> HIDE DEF l
    <2>2. Len(line) = l /\ (l # 0 => line[1] = text[1]) /\ line \in Text
      <3>1. 1 <= l + 1 /\ l <= Len(text) /\ l - 1 + 1 = l /\ 1 + 1 - 1 = 1 /\ (l # 0 => 1 \in 1..l) /\ 1 <= 1
        BY <1>2, <2>1
      <3>2. line \in Text /\ Len(line) = l - 1 + 1 /\ \A i \in 1..(l - 1 + 1) : line[i] = text[1 + i - 1]
        BY <1>2, <2>1, <3>1, SubText
      <3> HIDE DEF line
      <3> QED
        BY <3>1, <3>2
    <2> HIDE DEF line
    <2>3. line # <<>> => l # 0 /\ Head(line) = text[1]
      BY <2>2, EmptySeq DEF Text
    <2>4. CASE line # <<>> /\ Head(line) = "MSG"
      <3>1. text[1] = "MSG" /\ text # <<>> /\ Len(text) # 0
        BY <1>2, <2>1, <2>3, <2>4
      <3>2. Stream[a + 1] = "MSG" /\ a < t
        BY <1>1, <3>1, HeadByte
      <3>3. PICK k \in 0..(Len(frames) - 1) :
              /\ frames[k + 1].kind = "msg"
              /\ \/ a = Len(Upto(k))
                 \/ /\ Len(Upto(k)) + 4 <= a
                    /\ a < Len(Upto(k)) + 4 + Len(ToBytes(frames[k + 1].body))
        <4>1. a < Len(Stream)
          BY <1>2, <3>2
        <4> QED
          BY <1>2, <3>2, <4>1, MSGAt
      <3>4. CASE a = Len(Upto(k))
        BY <1>1, <1>4, <3>1, <3>3, <3>4, MessageFollows DEF text
      <3>5. CASE /\ Len(Upto(k)) + 4 <= a
                 /\ a < Len(Upto(k)) + 4 + Len(ToBytes(frames[k + 1].body))
        <4>1. Sizes(Last(line)) = {}
          BY <1>1, <1>4, <3>3, <3>5, LineInBody DEF line, l
        <4>2. NextFrame(call) = call
          <5>1. \A m \in Sizes(Last(line)) : Len(after) < m + 2
            BY <4>1
          <5> QED
            BY <1>4, <2>4, <5>1, Zenon DEF NextFrame, text, line, l
        <4> QED
          BY <4>2
      <3> QED
        BY <3>3, <3>4, <3>5
    <2>5. CASE ~(line # <<>> /\ Head(line) = "MSG")
      <3>1. NextFrame(call) = Skipping(call, after, n)
        BY <1>4, <2>5, Zenon DEF NextFrame, text, line, l
      <3> DEFINE i == l + 2
      <3>2. i \in 0..Len(text) /\ after = SubSeq(text, i + 1, Len(text)) /\ i \in Nat
        <4>1. Len(line) + 3 = (l + 2) + 1
          BY <2>1, <2>2
        <4> QED
          BY <1>2, <2>1, <4>1
      <3> HIDE DEF after, i
      <3>3. PICK b \in 0..t : Reads(after, Stream, b, t) /\ a + i <= b
        BY <1>1, <3>2, ReadsRest
      <3>4. FrameEnd(b) /\ a <= b /\ n \in Nat
        BY <1>2, <3>2, <3>3 DEF FrameEnd
      <3> HIDE DEF n
      <3>5. Skipping(call, after, n) \in Follows(base, t)
        BY <1>1, <1>2, <3>3, <3>4, SkippingFollows
      <3> QED
        BY <3>1, <3>5
    <2> QED
      BY <2>4, <2>5
  <1> QED
    BY <1>3, <1>4

-----------------------------------------------------------------------------
(* What is handed on, whatever the bodies hold.                            *)

LEMMA PassFollows ==
    ASSUME frames \in Seq(Sendable), NEW base \in Seq(Text), NEW t \in 0..Len(Stream),
           NEW call, call \in Follows(base, t), channel # "native"
    PROVE  Pass(call) \in Follows(base, t)
  <1>1. CASE channel = "pipe"
    <2>1. NextPipeMessage(call) \in Follows(base, t)
      BY <1>1, PipeFollows
    <2> QED
      BY <1>1, <2>1, Zenon DEF Pass
  <1>2. CASE channel # "pipe"
    <2>1. channel \notin {"pipe", "native"}
      BY <1>2
    <2>2. NextFrame(call) \in Follows(base, t)
      BY <2>1, FrameFollows
    <2> QED
      BY <1>2, <2>2, Zenon DEF Pass
  <1> QED
    BY <1>1, <1>2

LEMMA TakeFollows ==
    ASSUME frames \in Seq(Sendable), channel # "native", NEW t \in 0..Len(Stream), NEW a \in 0..t,
           NEW text, Reads(text, Stream, a, t), Placed(delivered, a), FrameEnd(a), Take(text)
    PROVE  \E x \in Text : buffer' = (IF channel = "tcp" THEN ToBytes(x) ELSE x) /\ Onward(delivered', x, t)
  <1> DEFINE S == Follows(delivered, t)
             call == ReadAll(text)
  <1>1. delivered \in Seq(Text) /\ text \in Text
    BY ReadsType DEF Placed
  <1>2. Nothing(text) \in S
    <2>1. delivered \o <<>> = delivered
      BY <1>1, ConcatEmptySeq
    <2>2. Onward(delivered, text, t)
      BY Zenon DEF Onward
    <2>3. <<>> \in Seq(Text)
      BY EmptySeq
    <2> DEFINE c == Nothing(text)
    <2>4. c = [rest |-> text, payloads |-> <<>>, pongs |-> 0]
      BY Zenon DEF Nothing
    <2>5. c \in [rest : Text, payloads : Seq(Text), pongs : Nat]
      BY <1>1, <2>3, <2>4
    <2>6. c.rest = text /\ c.payloads = <<>>
      BY <2>4
    <2> HIDE DEF c
    <2>7. Onward(delivered \o c.payloads, c.rest, t)
      BY <2>1, <2>2, <2>6
    <2>8. c \in Follows(delivered, t)
      BY <2>5, <2>7 DEF Follows
    <2> QED
      BY <2>8 DEF c
  <1>3. \A c \in S : Pass(c) \in S
    BY <1>1, PassFollows
  <1> HIDE DEF S
  <1>4. call \in S
    BY <1>1, <1>2, <1>3, ReadAllKeeps
  <1>5. /\ buffer' = IF channel = "tcp" THEN ToBytes(call.rest) ELSE call.rest
        /\ delivered' = delivered \o call.payloads
    BY Zenon DEF Take
  <1> HIDE DEF call
  <1>6. call.rest \in Text /\ Onward(delivered \o call.payloads, call.rest, t)
    BY <1>4 DEF S, Follows
  <1> QED
    BY <1>5, <1>6

\* A chunk by itself, as it may read.
LEMMA ChunkReads ==
    ASSUME frames \in Seq(Sendable), NEW t \in 0..Len(Stream), NEW r \in 0..t
    PROVE  Reads(ToText(Slice(r, t)), Stream, r, t)
  <1> DEFINE s == Slice(r, t)
             n == t - r
  <1>1. s \in Text /\ Len(s) = n /\ n \in Nat /\ \A i \in 1..n : s[i] = Stream[r + i]
    BY SliceType
  <1>2. Len(Stream) \in Nat
    BY UptoLength
  <1> HIDE DEF s
  <1>3. Reads(ToText(s), s, 0, n)
    BY <1>1, ToTextReads
  <1>4. Alike(s, 0, Stream, r, n)
    <2>1. \A i \in 1..n : Stream[r + i] = s[0 + i]
      BY <1>1
    <2> QED
      BY <2>1 DEF Alike
  <1>5. n = 0 + n /\ t = r + n /\ r \in Nat
    BY <1>2
  <1> HIDE DEF n
  <1>6. Reads(ToText(s), Stream, r, t)
    BY <1>1, <1>3, <1>4, <1>5, ReadsAlike
  <1> QED
    BY <1>6 DEF s

\* What was read before a chunk, and the chunk.
LEMMA LongerReads ==
    ASSUME frames \in Seq(Sendable), NEW t \in 0..Len(Stream), NEW r \in 0..t,
           NEW x, NEW a, Reads(x, Stream, a, r)
    PROVE  Reads(x \o ToText(Slice(r, t)), Stream, a, t)
  BY ChunkReads, ReadsConcat

\* Text written as bytes never ends inside a character.
LEMMA BytesEnd ==
    ASSUME NEW x \in Text, \A i \in 1..Len(x) : x[i] \notin Halves
    PROVE  LET b == ToBytes(x) IN b \in Text /\ (b # <<>> => b[Len(b)] # "w1")
  <1> DEFINE b == ToBytes(x)
  <1>1. b \in Text
    BY ToBytesType
  <1>2. CASE x = <<>>
    BY <1>1, <1>2, ToBytesEmpty
  <1>3. CASE x # <<>>
    <2>1. PICK s \in Text, c \in Alphabet : x = Append(s, c)
      BY <1>3, SequenceEmptyOrAppend DEF Text
    <2>2. x = s \o <<c>> /\ <<c>> \in Text
      BY <2>1, AppendIsConcat, SmallSeqs DEF Text
    <2> DEFINE y == ToBytes(s)
               z == CharBytes(c)
               m == Len(y)
    <2>3. b = y \o z
      BY <2>2, ToBytesConcat, ToBytesOne
    <2>4. y \in Text /\ z \in Text /\ m \in Nat
      BY ToBytesType, ToBytesOne, LenProperties DEF Text
    <2>5. c \notin Halves
      <3>1. Len(x) \in 1..Len(x) /\ x[Len(x)] = c
        BY <2>1, AppendProperties, LenProperties DEF Text
      <3> QED
        BY <3>1
    <2>6. Len(z) \in 1..2 /\ z[Len(z)] # "w1"
      <3>1. CASE c = "w"
        BY <3>1 DEF CharBytes
      <3>2. CASE c # "w"
        BY <2>5, <3>2 DEF CharBytes, Halves
      <3> QED
        BY <3>1, <3>2
    <2> HIDE DEF y, z, b
    <2>7. Len(b) = m + Len(z) /\ b[m + Len(z)] = z[Len(z)]
      <3>1. Len(y \o z) = m + Len(z) /\ \A i \in 1..Len(z) : (y \o z)[m + i] = z[i]
        BY <2>4, TextConcat
      <3>2. Len(z) \in 1..Len(z)
        BY <2>6
      <3> QED
        BY <2>3, <3>1, <3>2
    <2>8. b \in Text /\ b[Len(b)] # "w1"
      BY <1>1, <2>6, <2>7 DEF b
    <2> QED
      BY <2>8 DEF b
  <1> QED
    BY <1>2, <1>3

\* The tcp socket decodes the buffer again, with the chunk after it.
LEMMA DecodedAgain ==
    ASSUME frames \in Seq(Sendable), NEW t \in 0..Len(Stream), NEW r \in 0..t,
           NEW x, NEW a, Reads(x, Stream, a, r)
    PROVE  ToText(ToBytes(x) \o Slice(r, t)) = x \o ToText(Slice(r, t))
  <1> DEFINE b == ToBytes(x)
             s == Slice(r, t)
  <1>1. x \in Text /\ \A i \in 1..Len(x) : x[i] \notin Halves
    BY ReadsType
  <1>2. b \in Text /\ (b # <<>> => b[Len(b)] # "w1")
    BY <1>1, BytesEnd
  <1>3. s \in Text
    BY SliceType
  <1>4. ToText(b) = x
    BY <1>1, ToTextOfBytes
  <1> HIDE DEF b, s
  <1>5. ToText(b \o s) = ToText(b) \o ToText(s)
    BY <1>2, <1>3, ToTextConcat
  <1> QED
    BY <1>4, <1>5, Zenon DEF b, s

\* A blob whose text has not come, when one is read at a time.
Awaited(r) ==
    \E y \in Text : Reads(y, Stream, r, taken) /\ reads = <<[before |-> buffer, text |-> y]>>

\* The buffer holds what the stream reads as after the last message taken, and
\* what has been handed on was before that.
TakenInOrder ==
    \E x \in Text, a \in 0..taken, r \in 0..taken :
        /\ buffer = IF channel = "tcp" THEN ToBytes(x) ELSE x
        /\ Reads(x, Stream, a, r)
        /\ Placed(delivered, a)
        /\ FrameEnd(a)
        /\ \/ reads = <<>> /\ r = taken
           \/ channel = "blob" /\ Awaited(r)

OrderInv == FramingInv /\ (channel # "native" => TakenInOrder)

LEMMA PlacesStay ==
    ASSUME channel' = channel, frames' = frames, NEW a
    PROVE  /\ Placed(delivered', a) => (Placed(delivered, a))'
           /\ FrameEnd(a) => (FrameEnd(a))'
  <1>1. \A k : (Len(Upto(k)))' = Len(Upto(k))
    BY Unmoved
  <1>2. ASSUME FrameEnd(a) PROVE (FrameEnd(a))'
    <2>1. CASE channel # "pipe"
      BY <2>1 DEF FrameEnd
    <2>2. CASE channel = "pipe"
      <3>1. PICK k \in 0..Len(frames) : a = Len(Upto(k))
        BY <1>2, <2>2 DEF FrameEnd
      <3>2. k \in (0..Len(frames))' /\ a = (Len(Upto(k)))'
        BY <1>1, <3>1
      <3> QED
        BY <3>2, Zenon DEF FrameEnd
    <2> QED
      BY <2>1, <2>2
  <1>3. ASSUME Placed(delivered', a) PROVE (Placed(delivered, a))'
    <2>1. PICK place : PlacedBy(place, delivered', a)
      BY <1>3 DEF Placed
    <2>2. /\ place \in [1..Len(delivered') -> 1..Len(frames)]
          /\ \A i \in 1..Len(delivered') :
               /\ frames[place[i]].kind = "msg"
               /\ delivered'[i] \in Readings(frames[place[i]].body)
               /\ Len(Upto(place[i] - 1)) < a
          /\ \A i, j \in 1..Len(delivered') : i < j => place[i] < place[j]
      BY <2>1 DEF PlacedBy
    <2>3. /\ place \in [1..Len(delivered') -> 1..Len(frames')]
          /\ \A i \in 1..Len(delivered') :
               /\ frames'[place[i]].kind = "msg"
               /\ delivered'[i] \in Readings(frames'[place[i]].body)
               /\ (Len(Upto(place[i] - 1)))' < a
      BY <1>1, <2>2
    <2>4. (PlacedBy(place, delivered, a))'
      BY <2>2, <2>3 DEF PlacedBy
    <2>5. delivered' \in Seq(Text)
      BY <1>3 DEF Placed
    <2> QED
      BY <2>4, <2>5 DEF Placed
  <1> QED
    BY <1>2, <1>3

LEMMA OrderFrom ==
    ASSUME channel' = channel, frames' = frames,
           NEW x \in Text, NEW a \in 0..(taken'), NEW r \in 0..(taken'),
           buffer' = (IF channel = "tcp" THEN ToBytes(x) ELSE x),
           Reads(x, Stream, a, r), Placed(delivered', a), FrameEnd(a),
           \/ reads' = <<>> /\ r = taken'
           \/ channel = "blob" /\ (Awaited(r))'
    PROVE  TakenInOrder'
  <1>1. Stream' = Stream
    BY Unmoved
  <1>2. (Reads(x, Stream, a, r))'
    BY <1>1 DEF Reads
  <1>3. (Placed(delivered, a))' /\ (FrameEnd(a))'
    BY PlacesStay
  <1>4. \/ reads' = <<>> /\ r = taken'
        \/ channel' = "blob" /\ (Awaited(r))'
    OBVIOUS
  <1>5. buffer' = (IF channel' = "tcp" THEN ToBytes(x) ELSE x)
    OBVIOUS
  <1> QED
    BY <1>2, <1>3, <1>4, <1>5, Zenon DEF TakenInOrder

\* A chunk that is taken as it comes.
LEMMA ChunkInOrder ==
    ASSUME FramingInv, TakenInOrder, reads = <<>>, channel \notin {"native", "blob"}, NEW n, Arrives(n), reads' = <<>>,
           NEW text, Take(text),
           \A x, a : buffer = (IF channel = "tcp" THEN ToBytes(x) ELSE x) /\ Reads(x, Stream, a, taken)
                       => text = x \o ToText(Slice(taken, taken + n))
    PROVE  TakenInOrder'
  <1> DEFINE t == taken + n
  <1>1. /\ frames \in Seq(Sendable) /\ taken \in Nat /\ t \in 0..Len(Stream) /\ taken \in 0..t
    BY ArrivesWithin
  <1>2. channel' = channel /\ frames' = frames /\ taken' = t
    BY DEF Arrives
  <1>3. PICK x \in Text, a \in 0..taken :
          /\ buffer = IF channel = "tcp" THEN ToBytes(x) ELSE x
          /\ Reads(x, Stream, a, taken) /\ Placed(delivered, a) /\ FrameEnd(a)
    BY DEF TakenInOrder
  <1>4. text = x \o ToText(Slice(taken, t))
    BY <1>3
  <1> HIDE DEF t
  <1>5. Reads(text, Stream, a, t)
    BY <1>1, <1>3, <1>4, LongerReads
  <1>6. a \in 0..t
    BY <1>1
  <1>7. PICK y \in Text : /\ buffer' = (IF channel = "tcp" THEN ToBytes(y) ELSE y)
                          /\ Onward(delivered', y, t)
    <2>1. channel # "native"
      OBVIOUS
    <2> QED
      BY <1>1, <1>3, <1>5, <1>6, <2>1, TakeFollows
  <1>8. PICK b \in 0..t : Reads(y, Stream, b, t) /\ Placed(delivered', b) /\ FrameEnd(b)
    BY <1>7, Zenon DEF Onward
  <1>9. b \in 0..(taken') /\ t \in 0..(taken') /\ t = taken'
    BY <1>1, <1>2
  <1> QED
    BY <1>2, <1>7, <1>8, <1>9, OrderFrom

LEMMA OrderStarts == FramingInit => OrderInv
  <1> SUFFICES ASSUME FramingInit PROVE OrderInv
    OBVIOUS
  <1>1. FramingInv
    BY FramingStarts
  <1>2. /\ taken = 0 /\ buffer = <<>> /\ reads = <<>> /\ delivered = <<>>
    BY DEF FramingInit
  <1>3. /\ Len(frames) \in Nat /\ Len(Upto(0)) = 0 /\ 0 \in 0..Len(frames) /\ 0 \in 0..taken
    BY <1>1, <1>2, UptoLength DEF FramingInv
  <1>4. <<>> \in Text /\ ToBytes(<<>>) = <<>>
    BY EmptySeq, ToBytesEmpty DEF Text
  <1>5. Reads(<<>>, Stream, 0, 0) /\ Placed(delivered, 0)
    BY <1>2, ReadsNothing, PlacedNothing
  <1>6. FrameEnd(0)
    BY <1>3 DEF FrameEnd
  <1>7. buffer = IF channel = "tcp" THEN ToBytes(<<>>) ELSE <<>>
    BY <1>2, <1>4
  <1>8. TakenInOrder
    BY <1>2, <1>3, <1>4, <1>5, <1>6, <1>7, Zenon DEF TakenInOrder
  <1> QED
    BY <1>1, <1>8 DEF OrderInv

LEMMA OrderSteps ==
    ASSUME MaxReads <= 1, FramingInv, TakenInOrder, channel # "native", [FramingNext]_framingVars
    PROVE  TakenInOrder'
  <1>1. /\ frames \in Seq(Sendable) /\ taken \in 0..Len(Stream) /\ Len(Stream) \in Nat /\ taken \in Nat
    BY UptoLength DEF FramingInv
  <1>2. PICK x \in Text, a \in 0..taken, r \in 0..taken :
          /\ buffer = IF channel = "tcp" THEN ToBytes(x) ELSE x
          /\ Reads(x, Stream, a, r) /\ Placed(delivered, a) /\ FrameEnd(a)
          /\ \/ reads = <<>> /\ r = taken
             \/ channel = "blob" /\ Awaited(r)
    BY Zenon DEF TakenInOrder
  <1>3. ASSUME NEW n \in 1..Len(Stream), ReadWebSocket(n) PROVE TakenInOrder'
    <2>1. /\ Arrives(n) /\ Take(buffer \o ToText(Chunk(n))) /\ reads' = reads
          /\ channel \in {"string", "binary"}
      BY <1>3 DEF ReadWebSocket
    <2>2. reads = <<>> /\ reads' = <<>> /\ channel \notin {"native", "blob"} /\ channel # "tcp"
      BY <1>2, <2>1
    <2>3. \A y, b : buffer = (IF channel = "tcp" THEN ToBytes(y) ELSE y) /\ Reads(y, Stream, b, taken)
                    => buffer \o ToText(Chunk(n)) = y \o ToText(Slice(taken, taken + n))
      BY <1>1, <2>2, ChunkIs, Zenon
    <2> QED
      BY <2>1, <2>2, <2>3, ChunkInOrder
  <1>4. ASSUME NEW n \in 1..Len(Stream), ReadPipeChunk(n) PROVE TakenInOrder'
    <2>1. /\ Arrives(n) /\ Take(buffer \o ToText(Chunk(n))) /\ reads' = reads /\ channel = "pipe"
      BY <1>4 DEF ReadPipeChunk
    <2>2. reads = <<>> /\ reads' = <<>> /\ channel \notin {"native", "blob"} /\ channel # "tcp"
      BY <1>2, <2>1
    <2>3. \A y, b : buffer = (IF channel = "tcp" THEN ToBytes(y) ELSE y) /\ Reads(y, Stream, b, taken)
                    => buffer \o ToText(Chunk(n)) = y \o ToText(Slice(taken, taken + n))
      BY <1>1, <2>2, ChunkIs, Zenon
    <2> QED
      BY <2>1, <2>2, <2>3, ChunkInOrder
  <1>5. ASSUME NEW n \in 1..Len(Stream), ReadTcp(n) PROVE TakenInOrder'
    <2>1. /\ Arrives(n) /\ Take(ToText(buffer \o Chunk(n))) /\ reads' = reads /\ channel = "tcp"
      BY <1>5 DEF ReadTcp
    <2>2. reads = <<>> /\ reads' = <<>> /\ channel \notin {"native", "blob"}
      BY <1>2, <2>1
    <2>3. ASSUME NEW y, NEW b, buffer = (IF channel = "tcp" THEN ToBytes(y) ELSE y),
                 Reads(y, Stream, b, taken)
          PROVE  ToText(buffer \o Chunk(n)) = y \o ToText(Slice(taken, taken + n))
      <3>1. ToText(ToBytes(y) \o Slice(taken, taken + n)) = y \o ToText(Slice(taken, taken + n))
        <4>1. taken + n \in 0..Len(Stream) /\ taken \in 0..(taken + n)
          BY <2>1, ArrivesWithin
        <4> QED
          BY <1>1, <2>3, <4>1, DecodedAgain
      <3>2. buffer = ToBytes(y) /\ Chunk(n) = Slice(taken, taken + n)
        BY <1>1, <2>1, <2>3, ChunkIs
      <3> QED
        BY <3>1, <3>2, Zenon
    <2> QED
      BY <2>1, <2>2, <2>3, ChunkInOrder
  <1>6. ASSUME NEW n \in 1..Len(Stream), ReadBlob(n) PROVE TakenInOrder'
    <2> DEFINE y == ToText(Chunk(n))
    <2>1. /\ channel = "blob" /\ Len(reads) < MaxReads /\ Arrives(n)
          /\ reads' = Append(reads, [before |-> buffer, text |-> y])
          /\ buffer' = buffer /\ delivered' = delivered
      BY <1>6 DEF ReadBlob
    <2>2. reads = <<>> /\ r = taken
      <3>1. ASSUME Awaited(r) PROVE FALSE
        <4>1. PICK z : reads = <<[before |-> buffer, text |-> z]>>
          BY <3>1 DEF Awaited
        <4>2. Len(reads) = 1
          BY <4>1
        <4>3. MaxReads \in Nat
          BY FramingAssumption
        <4> QED
          BY <2>1, <4>2, <4>3
      <3> QED
        BY <1>2, <3>1
    <2>3. Reads(y, Stream, taken, taken + n)
      <3>1. taken + n \in 0..Len(Stream) /\ taken \in 0..(taken + n)
        BY <2>1, ArrivesWithin
      <3>2. Reads(ToText(Slice(taken, taken + n)), Stream, taken, taken + n)
        BY <1>1, <3>1, ChunkReads
      <3> QED
        BY <1>1, <3>2, ChunkIs, Zenon
    <2> HIDE DEF y
    <2>4. channel' = channel /\ frames' = frames /\ taken' = taken + n
      BY <2>1 DEF Arrives
    <2>5. PICK z \in Text : z = y
      BY <2>3, ReadsType
    <2>6. (Awaited(r))'
      <3>1. Stream' = Stream
        BY <2>4, Unmoved
      <3>2. reads' = <<[before |-> buffer', text |-> z]>>
        BY <2>1, <2>2, <2>5
      <3>3. Reads(z, Stream', r, taken')
        BY <2>2, <2>3, <2>4, <2>5, <3>1
      <3> QED
        BY <3>2, <3>3 DEF Awaited
    <2>7. a \in 0..(taken') /\ r \in 0..(taken')
      BY <1>1, <2>4
    <2> QED
      BY <1>2, <2>1, <2>4, <2>6, <2>7, OrderFrom
  <1>7. ASSUME NEW m \in DOMAIN reads, BlobRead(m) PROVE TakenInOrder'
    <2>1. /\ Take(reads[m].before \o reads[m].text) /\ reads' = RemoveAt(reads, m)
          /\ channel' = channel /\ frames' = frames /\ taken' = taken
      BY <1>7 DEF BlobRead
    <2>2. channel = "blob" /\ Awaited(r)
      <3>1. reads # <<>>
        <4>1. DOMAIN <<>> = {}
          OBVIOUS
        <4> QED
          BY <4>1
      <3> QED
        BY <1>2, <3>1
    <2>3. PICK y \in Text : Reads(y, Stream, r, taken) /\ reads = <<[before |-> buffer, text |-> y]>>
      BY <2>2 DEF Awaited
    <2> DEFINE read == [before |-> buffer, text |-> y]
    <2>4. m = 1 /\ reads[m].before = buffer /\ reads[m].text = y /\ buffer = x
      <3>1. DOMAIN <<read>> = {1}
        OBVIOUS
      <3> QED
        BY <1>2, <2>2, <2>3, <3>1
    <2>5. reads' = <<>>
      <3>1. RemoveAt(<<read>>, 1) = <<>>
        <4> HIDE DEF read
        <4>1. SubSeq(<<read>>, 1, 1 - 1) = <<>> /\ SubSeq(<<read>>, 1 + 1, Len(<<read>>)) = <<>>
          OBVIOUS
        <4>2. <<>> \o <<>> = <<>>
          OBVIOUS
        <4> QED
          BY <4>1, <4>2, Zenon DEF RemoveAt
      <3> QED
        BY <2>1, <2>3, <2>4, <3>1, Zenon
    <2>6. Reads(x \o y, Stream, a, taken)
      BY <1>2, <2>3, ReadsConcat
    <2>7. Take(x \o y)
      BY <2>1, <2>4, Zenon
    <2>8. PICK z \in Text : /\ buffer' = (IF channel = "tcp" THEN ToBytes(z) ELSE z)
                            /\ Onward(delivered', z, taken)
      BY <1>1, <1>2, <2>6, <2>7, TakeFollows
    <2>9. PICK b \in 0..taken : Reads(z, Stream, b, taken) /\ Placed(delivered', b) /\ FrameEnd(b)
      BY <2>8, Zenon DEF Onward
    <2>10. b \in 0..(taken') /\ taken \in 0..(taken') /\ taken = taken'
      BY <1>1, <2>1
    <2> QED
      BY <2>1, <2>5, <2>8, <2>9, <2>10, OrderFrom
  <1>8. ASSUME NEW n, ReadNative(n) PROVE TakenInOrder'
    BY <1>8 DEF ReadNative
  <1>9. CASE UNCHANGED framingVars
    <2>1. /\ channel' = channel /\ frames' = frames /\ taken' = taken /\ buffer' = buffer
          /\ reads' = reads /\ delivered' = delivered
      BY <1>9 DEF framingVars
    <2>2. Awaited(r) => (Awaited(r))'
      <3> SUFFICES ASSUME Awaited(r) PROVE (Awaited(r))'
        OBVIOUS
      <3>1. PICK y \in Text : Reads(y, Stream, r, taken) /\ reads = <<[before |-> buffer, text |-> y]>>
        BY DEF Awaited
      <3>2. Stream' = Stream
        BY <2>1, Unmoved
      <3>3. Reads(y, Stream', r, taken') /\ reads' = <<[before |-> buffer', text |-> y]>>
        BY <2>1, <3>1, <3>2
      <3> QED
        BY <3>3 DEF Awaited
    <2>3. a \in 0..(taken') /\ r \in 0..(taken') /\ Placed(delivered', a)
      BY <1>2, <2>1
    <2>4. \/ reads' = <<>> /\ r = taken'
          \/ channel = "blob" /\ (Awaited(r))'
      BY <1>2, <2>1, <2>2
    <2> QED
      BY <1>2, <2>1, <2>3, <2>4, OrderFrom
  <1> QED
    BY <1>3, <1>4, <1>5, <1>6, <1>7, <1>8, <1>9 DEF FramingNext

LEMMA OrderPreserved ==
    MaxReads <= 1 => (OrderInv /\ [FramingNext]_framingVars => OrderInv')
  <1> SUFFICES ASSUME MaxReads <= 1, OrderInv, [FramingNext]_framingVars PROVE OrderInv'
    OBVIOUS
  <1>1. FramingInv' /\ FramingInv
    BY FramingPreserved DEF OrderInv
  <1>2. channel' = channel
    BY DEF FramingNext, framingVars, ReadWebSocket, ReadBlob, ReadTcp, ReadPipeChunk, ReadNative,
           BlobRead, Arrives
  <1>3. channel # "native" => TakenInOrder'
    BY <1>1, OrderSteps DEF OrderInv
  <1> QED
    BY <1>1, <1>2, <1>3 DEF OrderInv

\* The native host hands on bodies as they were sent.
LEMMA NativeInOrder ==
    ASSUME FramingInv, channel = "native"
    PROVE  DeliversSubsequence
  <1>1. frames \in Seq(Sendable) /\ Len(frames) \in Nat /\ DOMAIN frames = 1..Len(frames)
    BY LenProperties DEF FramingInv
  <1>2. AllLegible
    BY DEF AllLegible, Legible
  <1>3. PICK k \in 0..Len(frames) : delivered = BodiesOf(Part(0, k))
    BY <1>2 DEF FramingInv, Reading
  <1> DEFINE fs == Part(0, k)
             bodies == [i \in 1..k |-> fs[i].body]
             q == [i \in 1..Len(fs) |-> IF fs[i].kind = "msg" THEN <<fs[i].body>> ELSE <<>>]
  <1>4. /\ fs \in Seq(Sendable) /\ Len(fs) = k /\ \A j \in 1..k : fs[j] = frames[j]
    <2>1. 0 \in 0..Len(frames) /\ k \in 0..Len(frames) /\ k - 0 = k /\ \A j \in 1..k : 0 + j = j
      BY <1>1
    <2>2. /\ Part(0, k) \in Seq(Sendable) /\ Len(Part(0, k)) = k - 0
          /\ \A j \in 1..(k - 0) : Part(0, k)[j] = frames[0 + j]
      BY <1>1, <2>1, PartType
    <2> QED
      BY <2>1, <2>2
  <1> HIDE DEF fs
  <1>5. ASSUME NEW j \in 1..k PROVE frames[j].kind = "msg" /\ frames[j].body \in Bodies /\ fs[j] = frames[j]
    <2>1. j \in 1..Len(frames)
      BY <1>1
    <2>2. frames[j] \in Sendable
      BY <1>1, <2>1, ElementOfSeq
    <2> QED
      BY <1>4, <2>2 DEF Sendable, Frame
  <1>6. bodies \in Seq(Bodies) /\ Len(bodies) = k /\ \A i \in 1..k : bodies[i] = frames[i].body
    <2>1. bodies \in [1..k -> Bodies]
      BY <1>5
    <2>2. k \in Nat /\ Len(bodies) = k /\ \A i \in 1..k : bodies[i] = frames[i].body
      BY <1>1, <1>5
    <2> HIDE DEF bodies
    <2>3. bodies \in Seq(Bodies)
      BY <2>1, <2>2, FunctionIsSeq
    <2> QED
      BY <2>2, <2>3
  <1> HIDE DEF bodies
  <1>7. q \in Seq(Seq(Bodies)) /\ Len(q) = Len(bodies) /\ \A i \in 1..Len(bodies) : q[i] = <<bodies[i]>>
    <2>1. \A i \in 1..k : q[i] = <<bodies[i]>>
      BY <1>4, <1>5, <1>6
    <2>2. \A i \in 1..k : <<bodies[i]>> \in Seq(Bodies)
      BY <1>5, <1>6, SmallSeqs
    <2>3. DOMAIN q = 1..k /\ k \in Nat /\ Len(q) = k /\ q = [i \in 1..k |-> q[i]]
      BY <1>1, <1>4
    <2> HIDE DEF q
    <2>4. q \in [1..k -> Seq(Bodies)]
      BY <2>1, <2>2, <2>3
    <2>5. q \in Seq(Seq(Bodies))
      BY <2>3, <2>4, FunctionIsSeq
    <2> QED
      BY <1>6, <2>1, <2>3, <2>5
  <1>8. BodiesOf(fs) = FlattenSeq(q)
    BY Zenon DEF BodiesOf
  <1> HIDE DEF q
  <1>9. delivered = bodies
    <2>1. FlattenSeq(q) = bodies
      BY <1>6, <1>7, FlattenSingletons
    <2> QED
      BY <1>3, <1>8, <2>1 DEF fs
  <1> DEFINE place == [i \in 1..k |-> i]
  <1>10. place \in [DOMAIN delivered -> {i \in DOMAIN frames : frames[i].kind = "msg"}]
    <2>1. DOMAIN delivered = 1..k
      BY <1>6, <1>9, LenProperties
    <2>2. \A i \in 1..k : i \in {j \in DOMAIN frames : frames[j].kind = "msg"}
      BY <1>1, <1>5
    <2> QED
      BY <2>1, <2>2
  <1>11. /\ \A i \in DOMAIN delivered : delivered[i] \in Readings(frames[place[i]].body)
         /\ \A i, j \in DOMAIN delivered : i < j => place[i] < place[j]
    <2>1. DOMAIN delivered = 1..k
      BY <1>6, <1>9, LenProperties
    <2>2. \A i \in 1..k : frames[i].body \in Readings(frames[i].body)
      BY <1>5, ParsedBody
    <2>3. \A i \in 1..k : place[i] = i
      OBVIOUS
    <2> HIDE DEF place
    <2> QED
      BY <1>6, <1>9, <2>1, <2>2, <2>3
  <1> HIDE DEF place
  <1> QED
    BY <1>10, <1>11, Zenon DEF DeliversSubsequence

LEMMA OrderSafe == OrderInv => DeliversSubsequence
  <1> SUFFICES ASSUME OrderInv PROVE DeliversSubsequence
    OBVIOUS
  <1>1. CASE channel = "native"
    BY <1>1, NativeInOrder DEF OrderInv
  <1>2. CASE channel # "native"
    <2>1. PICK a : Placed(delivered, a)
      BY <1>2 DEF OrderInv, TakenInOrder
    <2>2. frames \in Seq(Sendable)
      BY DEF OrderInv, FramingInv
    <2> QED
      BY <2>1, <2>2, PlacedInOrder
  <1> QED
    BY <1>1, <1>2

\* Whatever the bodies hold, what the transports hand on is what some of the
\* frames say, in their order, with characters misread at most: the size of a
\* NATS payload is counted in characters (NATSUpstreamTransport.ts:278-283) and the
\* pipe decodes chunk by chunk (PipeUpstreamTransport.ts:113), but what is left
\* over is never read again, and the inside of a body is never taken for a frame.
THEOREM FramesInOrder == MaxReads <= 1 => (FramingSpec => []DeliversSubsequence)
  <1> SUFFICES ASSUME MaxReads <= 1 PROVE FramingSpec => []DeliversSubsequence
    OBVIOUS
  <1>1. OrderInv /\ [FramingNext]_framingVars => OrderInv'
    BY OrderPreserved
  <1> QED
    BY OrderStarts, <1>1, OrderSafe, PTL DEF FramingSpec

-----------------------------------------------------------------------------
(* The proxy.                                                              *)

USE DEF Modes, Connecting, Waiting, Stages, BrowserStates

(* The part of TypeOK that the clients need, by themselves.                *)
ClientTypeOK ==
  /\ mode \in Modes
  /\ socket \in [Sockets -> {"none", "open", "closing", "closed"}]
  /\ stage \in [Sockets -> Stages]
  /\ active_clients \subseteq Sockets
  /\ launched \in [Sockets -> BOOLEAN]
  /\ browser \in [Sockets -> BrowserStates]
  /\ upstream \in [Sockets -> {"closed", "dialing", "open"}]
  /\ clean \in [Sockets -> BOOLEAN]

SharedTypeOK ==
  /\ listener \in {"none", "starting", "listening", "failed", "closing"}
  /\ peer \in BOOLEAN
  /\ closing \in {"no", "clients", "sockets"}
  /\ visited \subseteq Sockets

MessageTypeOK ==
  /\ connected \in [Sockets -> BOOLEAN]
  /\ sent \in [Sockets -> Nat]
  /\ queue \in [Sockets -> Seq(Nat)]
  /\ handed \in [Sockets -> Seq(Nat)]

LEMMA TypeParts == TypeOK <=> ClientTypeOK /\ SharedTypeOK /\ MessageTypeOK
  BY DEF TypeOK, ClientTypeOK, SharedTypeOK, MessageTypeOK

(* A client of its own, by its socket.                                     *)
ClientInv ==
  \A s \in Sockets :
    /\ socket[s] = "none" => stage[s] = "none"
    /\ browser[s] = "up" => launched[s] \/ stage[s] = "launching"
    /\ mode = "reversews" => /\ stage[s] \notin Connecting \cup {"failing"}
                             /\ ~launched[s] /\ browser[s] = "none" /\ upstream[s] = "closed"
    /\ socket[s] = "closed" /\ clean[s] =>
         /\ stage[s] \in {"failing", "ended"} /\ ~launched[s]
         /\ upstream[s] # "dialing"
         /\ upstream[s] = "open" => browser[s] = "ending"

LEMMA InvInit == Init => ClientTypeOK /\ SharedTypeOK /\ MessageTypeOK /\ ClientInv /\ InOrder
  <1> SUFFICES ASSUME Init
               PROVE  ClientTypeOK /\ SharedTypeOK /\ MessageTypeOK /\ ClientInv /\ InOrder
    OBVIOUS
  <1>1. ClientTypeOK /\ ClientInv
    BY DEF Init, ClientTypeOK, ClientInv
  <1>2. SharedTypeOK
    BY DEF Init, SharedTypeOK
  <1>3. MessageTypeOK
    BY DEF Init, MessageTypeOK
  <1>4. InOrder
    <2> SUFFICES ASSUME NEW s \in Sockets
                 PROVE  handed[s] \o queue[s] = [i \in 1..sent[s] |-> i] /\ queue[s] = <<>>
      BY DEF InOrder
    <2>1. handed[s] = <<>> /\ queue[s] = <<>> /\ sent[s] = 0
      BY DEF Init
    <2>2. [i \in 1..0 |-> i] = <<>>
      OBVIOUS
    <2> QED
      BY <2>1, <2>2
  <1> QED
    BY <1>1, <1>2, <1>3, <1>4

-----------------------------------------------------------------------------
(* The messages.                                                           *)

MessageInv == MessageTypeOK /\ InOrder

LEMMA OneMore ==
  ASSUME NEW n \in Nat
  PROVE  Append([i \in 1..n |-> i], n + 1) = [i \in 1..(n + 1) |-> i]
  OBVIOUS

LEMMA AppendSecond ==
  ASSUME NEW p \in Seq(Nat), NEW q \in Seq(Nat), NEW m \in Nat
  PROVE  p \o Append(q, m) = Append(p \o q, m)
  <1>1. <<m>> \in Seq(Nat) /\ p \o q \in Seq(Nat)
    OBVIOUS
  <1>2. Append(q, m) = q \o <<m>>
    BY AppendIsConcat
  <1>3. Append(p \o q, m) = (p \o q) \o <<m>>
    BY <1>1, AppendIsConcat
  <1>4. (p \o q) \o <<m>> = p \o (q \o <<m>>)
    <2> DEFINE u == <<m>>
    <2>1. u \in Seq(Nat)
      BY <1>1
    <2> HIDE DEF u
    <2>2. (p \o q) \o u = p \o (q \o u)
      BY <2>1, ConcatAssociative
    <2> QED
      BY <2>2 DEF u
  <1> QED
    BY <1>2, <1>3, <1>4

LEMMA ConnectOrder ==
  ASSUME MessageInv, NEW S \in SUBSET Sockets, Connect(S)
  PROVE  MessageInv'
  <1>1. /\ connected' = [s \in Sockets |-> s \in S \/ connected[s]]
        /\ handed' = [s \in Sockets |-> IF s \in S THEN handed[s] \o queue[s] ELSE handed[s]]
        /\ queue' = [s \in Sockets |-> IF s \in S THEN <<>> ELSE queue[s]]
        /\ sent' = sent
    BY DEF Connect
  <1>2. MessageTypeOK'
    <2>1. \A s \in Sockets : /\ handed[s] \in Seq(Nat) /\ queue[s] \in Seq(Nat)
                             /\ handed[s] \o queue[s] \in Seq(Nat) /\ <<>> \in Seq(Nat)
      BY DEF MessageInv, MessageTypeOK
    <2>2. handed' \in [Sockets -> Seq(Nat)] /\ queue' \in [Sockets -> Seq(Nat)]
      BY <1>1, <2>1
    <2>3. connected' \in [Sockets -> BOOLEAN]
      BY <1>1 DEF MessageInv, MessageTypeOK
    <2> QED
      BY <1>1, <2>2, <2>3 DEF MessageInv, MessageTypeOK
  <1>3. InOrder'
    <2> SUFFICES ASSUME NEW s \in Sockets
                 PROVE  /\ handed'[s] \o queue'[s] = [i \in 1..sent'[s] |-> i]
                        /\ connected'[s] => queue'[s] = <<>>
      BY DEF InOrder
    <2>1. CASE s \in S
      <3>1. handed'[s] = handed[s] \o queue[s] /\ queue'[s] = <<>>
        BY <1>1, <2>1
      <3>2. handed[s] \o queue[s] \in Seq(Nat)
        BY DEF MessageInv, MessageTypeOK
      <3>3. (handed[s] \o queue[s]) \o <<>> = handed[s] \o queue[s]
        BY <3>2
      <3> QED
        BY <1>1, <3>1, <3>3 DEF MessageInv, InOrder
    <2>2. CASE s \notin S
      BY <1>1, <2>2 DEF MessageInv, InOrder
    <2> QED
      BY <2>1, <2>2
  <1> QED
    BY <1>2, <1>3 DEF MessageInv

LEMMA MessageOrder ==
  ASSUME MessageInv, NEW s \in Sockets, Message(s)
  PROVE  MessageInv'
  <1> DEFINE m == sent[s] + 1
  <1>1. /\ connected \in [Sockets -> BOOLEAN] /\ sent \in [Sockets -> Nat]
        /\ queue \in [Sockets -> Seq(Nat)] /\ handed \in [Sockets -> Seq(Nat)]
        /\ sent' = [sent EXCEPT ![s] = m] /\ connected' = connected /\ m \in Nat
    BY DEF MessageInv, MessageTypeOK, Message
  <1>2. /\ handed[s] \in Seq(Nat) /\ queue[s] \in Seq(Nat) /\ sent[s] \in Nat
        /\ handed[s] \o queue[s] = [i \in 1..sent[s] |-> i]
        /\ Append([i \in 1..sent[s] |-> i], m) = [i \in 1..m |-> i]
    BY <1>1, OneMore DEF MessageInv, InOrder
  <1>3. CASE connected[s]
    <2>1. handed' = [handed EXCEPT ![s] = Append(@, m)] /\ queue' = queue
      BY <1>3 DEF Message, Handles
    <2>2. queue[s] = <<>>
      BY <1>3 DEF MessageInv, InOrder
    <2>3. handed[s] = [i \in 1..sent[s] |-> i]
      <3>1. handed[s] \o <<>> = handed[s]
        BY <1>2
      <3> QED
        BY <1>2, <2>2, <3>1
    <2>4. handed'[s] = [i \in 1..m |-> i] /\ handed'[s] \in Seq(Nat)
      BY <1>1, <1>2, <2>1, <2>3
    <2>5. handed'[s] \o queue'[s] = [i \in 1..m |-> i]
      <3>1. handed'[s] \o <<>> = handed'[s]
        BY <2>4
      <3> QED
        BY <2>1, <2>2, <2>4, <3>1
    <2>6. MessageTypeOK'
      BY <1>1, <1>2, <2>1 DEF MessageTypeOK
    <2>7. sent'[s] = m /\ \A r \in Sockets \ {s} : sent'[r] = sent[r] /\ handed'[r] = handed[r]
      BY <1>1, <2>1
    <2>8. InOrder'
      BY <1>1, <2>1, <2>2, <2>5, <2>7 DEF MessageInv, InOrder
    <2> QED
      BY <2>6, <2>8 DEF MessageInv
  <1>4. CASE ~connected[s]
    <2>1. queue' = [queue EXCEPT ![s] = Append(@, m)] /\ handed' = handed
      BY <1>4 DEF Message, Handles
    <2>2. handed[s] \o Append(queue[s], m) = Append(handed[s] \o queue[s], m)
      <3>1. handed[s] \in Seq(Nat) /\ queue[s] \in Seq(Nat) /\ m \in Nat
        BY <1>1, <1>2
      <3> HIDE DEF m
      <3> QED
        BY <3>1, AppendSecond
    <2>3. handed'[s] \o queue'[s] = [i \in 1..m |-> i]
      BY <1>1, <1>2, <2>1, <2>2
    <2>4. MessageTypeOK'
      BY <1>1, <1>2, <2>1 DEF MessageTypeOK
    <2>5. sent'[s] = m /\ \A r \in Sockets \ {s} : sent'[r] = sent[r] /\ queue'[r] = queue[r]
      BY <1>1, <2>1
    <2>6. InOrder'
      BY <1>1, <1>4, <2>1, <2>3, <2>5 DEF MessageInv, InOrder
    <2> QED
      BY <2>4, <2>6 DEF MessageInv
  <1> QED
    BY <1>3, <1>4

LEMMA MessageStep == MessageInv /\ [Next]_vars => MessageInv'
  <1> SUFFICES ASSUME MessageInv, [Next]_vars PROVE MessageInv'
    OBVIOUS
  <1>1. ASSUME UNCHANGED <<connected, messageVars>> PROVE MessageInv'
    BY <1>1 DEF MessageInv, MessageTypeOK, InOrder, messageVars
  <1>2. CASE UNCHANGED vars
    BY <1>1, <1>2 DEF vars
  <1>3. ASSUME NEW s \in Sockets, Open(s) PROVE MessageInv'
    <2>1. Connect({s}) \/ UNCHANGED <<connected, messageVars>>
      BY <1>3 DEF Open
    <2> QED
      BY <1>1, <2>1, ConnectOrder
  <1>4. ASSUME NEW s \in Sockets, Message(s) PROVE MessageInv'
    BY <1>4, MessageOrder
  <1>5. ASSUME NEW s \in Sockets, SetupEnds(s) PROVE MessageInv'
    BY <1>5, ConnectOrder DEF SetupEnds
  <1>6. CASE PeerConnects
    <2> DEFINE S == {s \in Sockets : stage[s] \in {"waiting", "waiting_again"}}
    <2>1. Connect(S)
      BY <1>6 DEF PeerConnects
    <2>2. S \in SUBSET Sockets
      OBVIOUS
    <2> HIDE DEF S
    <2> QED
      BY <2>1, <2>2, ConnectOrder
  <1>7. ASSUME NEW s \in Sockets,
               SocketCloses(s) \/ Spawn(s) \/ PrepareFails(s) \/ Launched(s) \/ LaunchFails(s)
                 \/ DialOpens(s) \/ DialFails(s) \/ Redial(s) \/ SetupFails(s)
        PROVE  MessageInv'
    BY <1>1, <1>7 DEF SocketCloses, Spawn, PrepareFails, Launched, LaunchFails, DialOpens,
                      DialFails, Redial, SetupFails
  <1>8. ASSUME NEW s \in Sockets,
               FailureEnds(s) \/ BrowserEnds(s) \/ BrowserCrashes(s) \/ UpstreamCloses(s)
                 \/ WaitTimesOut(s) \/ SecondWaitTimesOut(s) \/ CloseNext(s)
        PROVE  MessageInv'
    BY <1>1, <1>8 DEF FailureEnds, BrowserEnds, BrowserCrashes, UpstreamCloses, WaitTimesOut,
                      SecondWaitTimesOut, CloseNext
  <1>9. ASSUME NEW ok \in BOOLEAN, ListenerUp(ok) PROVE MessageInv'
    BY <1>1, <1>9 DEF ListenerUp
  <1>10. CASE PeerLost \/ ListenerClosed \/ CloseSockets
    BY <1>1, <1>10 DEF PeerLost, ListenerClosed, CloseSockets
  <1> QED
    BY <1>2, <1>3, <1>4, <1>5, <1>6, <1>7, <1>8, <1>9, <1>10 DEF Next

-----------------------------------------------------------------------------
(* The clients.                                                            *)

CInv == ClientTypeOK /\ ClientInv

(* What close() of a client leaves.                                        *)
LEMMA CloseFacts ==
  ASSUME CInv, NEW s \in Sockets, CloseClient(s)
  PROVE  /\ launched' \in [Sockets -> BOOLEAN] /\ browser' \in [Sockets -> BrowserStates]
         /\ upstream' \in [Sockets -> {"closed", "dialing", "open"}]
         /\ ~launched'[s] /\ (browser'[s] = "up" => stage[s] = "launching")
         /\ upstream'[s] = "dialing" => upstream[s] = "dialing"
         /\ upstream'[s] = "open" => browser'[s] = "ending"
         /\ \A r \in Sockets \ {s} :
              launched'[r] = launched[r] /\ browser'[r] = browser[r] /\ upstream'[r] = upstream[r]
  <1> USE DEF CInv, ClientTypeOK, ClientInv
  <1>1. CASE launched[s] /\ browser[s] = "up"
    BY <1>1 DEF CloseClient
  <1>2. CASE ~(launched[s] /\ browser[s] = "up")
    BY <1>2 DEF CloseClient, CloseUpstream
  <1> QED
    BY <1>1, <1>2

(* A client that is closed goes on in its stage, or connect() has failed.  *)
LEMMA CloseStep ==
  ASSUME CInv, NEW s \in Sockets, CloseClient(s), mode # "reversews",
         UNCHANGED <<mode, socket, clean>>, active_clients' \subseteq Sockets,
         \/ UNCHANGED stage
         \/ stage[s] \in {"preparing", "setup"} /\ stage' = [stage EXCEPT ![s] = "failing"]
  PROVE  CInv'
  <1> USE DEF CInv, ClientTypeOK
  <1>1. ClientTypeOK'
    BY CloseFacts
  <1>2. ClientInv'
    <2> SUFFICES ASSUME NEW r \in Sockets
                 PROVE  /\ socket[r] = "none" => stage'[r] = "none"
                        /\ browser'[r] = "up" => launched'[r] \/ stage'[r] = "launching"
                        /\ socket[r] = "closed" /\ clean[r] =>
                             /\ stage'[r] \in {"failing", "ended"} /\ ~launched'[r]
                             /\ upstream'[r] # "dialing"
                             /\ upstream'[r] = "open" => browser'[r] = "ending"
      BY DEF ClientInv
    <2>1. CASE r # s
      <3>1. stage'[r] = stage[r]
        BY <2>1
      <3> QED
        BY <2>1, <3>1, CloseFacts DEF ClientInv
    <2>2. CASE r = s
      <3>1. \/ stage'[s] = stage[s]
            \/ stage[s] \in {"preparing", "setup"} /\ stage'[s] = "failing"
        OBVIOUS
      <3> QED
        BY <2>2, <3>1, CloseFacts DEF ClientInv
    <2> QED
      BY <2>1, <2>2
  <1> QED
    BY <1>1, <1>2

LEMMA ClientStep == CInv /\ [Next]_vars => CInv'
  <1> SUFFICES ASSUME CInv, [Next]_vars PROVE CInv'
    OBVIOUS
  <1> USE DEF CInv, ClientTypeOK, ClientInv
  <1>1. CASE UNCHANGED vars
    BY <1>1 DEF vars, clientVars
  <1>2. ASSUME NEW s \in Sockets, Open(s) PROVE CInv'
    <2>1. /\ socket[s] = "none" /\ socket' = [socket EXCEPT ![s] = "open"]
          /\ active_clients' = active_clients \cup {s}
          /\ UNCHANGED <<mode, launched, browser, upstream, clean>>
      BY <1>2 DEF Open, clientVars
    <2>2. \/ stage' = [stage EXCEPT ![s] = "preparing"] /\ mode # "reversews"
          \/ stage' = [stage EXCEPT ![s] = "waiting"] /\ mode = "reversews"
          \/ stage' = [stage EXCEPT ![s] = "ended"] /\ mode = "reversews"
      BY <1>2 DEF Open
    <2>3. ClientTypeOK'
      BY <2>1, <2>2
    <2>4. stage[s] = "launching" => mode # "reversews"
      OBVIOUS
    <2>5. ClientInv'
      <3> SUFFICES ASSUME NEW r \in Sockets PROVE ClientInv!(r)'
        OBVIOUS
      <3> QED
        BY <2>1, <2>2
    <2> QED
      BY <2>3, <2>5
  <1>3. ASSUME NEW s \in Sockets, Message(s) PROVE CInv'
    BY <1>3 DEF Message
  <1>4. ASSUME NEW s \in Sockets, SocketCloses(s) PROVE CInv'
    <2>1. CASE mode = "reversews"
      BY <1>4, <2>1 DEF SocketCloses, CloseCdp, CloseShared, RejectWaiters, clientVars
    <2>2. CASE mode # "reversews"
      <3>1. /\ CloseClient(s) /\ stage' = stage /\ mode' = mode
            /\ socket' = [socket EXCEPT ![s] = "closed"]
            /\ active_clients' = active_clients \ {s}
            /\ clean' = [clean EXCEPT ![s] = stage[s] \in {"failing", "ended"} /\ upstream[s] # "dialing"]
        BY <1>4, <2>2 DEF SocketCloses, CloseCdp
      <3>2. ClientTypeOK'
        BY <3>1, CloseFacts
      <3>3. ASSUME NEW r \in Sockets
            PROVE  /\ socket'[r] = "none" => stage[r] = "none"
                   /\ browser'[r] = "up" => launched'[r] \/ stage[r] = "launching"
                   /\ socket'[r] = "closed" /\ clean'[r] =>
                        /\ stage[r] \in {"failing", "ended"} /\ ~launched'[r]
                        /\ upstream'[r] # "dialing"
                        /\ upstream'[r] = "open" => browser'[r] = "ending"
        <4>1. CASE r = s
          BY <3>1, <4>1, CloseFacts
        <4>2. CASE r # s
          <5>1. socket'[r] = socket[r] /\ clean'[r] = clean[r]
            BY <3>1, <4>2
          <5> QED
            BY <3>1, <4>2, <5>1, CloseFacts
        <4> QED
          BY <4>1, <4>2
      <3> QED
        BY <2>2, <3>1, <3>2, <3>3
    <2> QED
      BY <2>1, <2>2
  <1>5. ASSUME NEW s \in Sockets, Spawn(s) PROVE CInv'
    BY <1>5 DEF Spawn
  <1>6. ASSUME NEW s \in Sockets, PrepareFails(s) \/ SetupFails(s) PROVE CInv'
    <2>1. /\ stage[s] \in {"preparing", "setup"} /\ CloseClient(s)
          /\ stage' = [stage EXCEPT ![s] = "failing"]
          /\ active_clients' = active_clients \ {s} /\ UNCHANGED <<mode, socket, clean>>
      BY <1>6 DEF PrepareFails, SetupFails, Fail
    <2>2. mode # "reversews"
      BY <2>1
    <2> QED
      BY <2>1, <2>2, CloseStep
  <1>7. ASSUME NEW s \in Sockets, Launched(s) PROVE CInv'
    BY <1>7 DEF Launched
  <1>8. ASSUME NEW s \in Sockets, LaunchFails(s) PROVE CInv'
    BY <1>8 DEF LaunchFails
  <1>9. ASSUME NEW s \in Sockets, DialOpens(s) PROVE CInv'
    BY <1>9 DEF DialOpens
  <1>10. ASSUME NEW s \in Sockets, DialFails(s) PROVE CInv'
    <2>1. CASE stage[s] # "dialing"
      BY <1>10, <2>1 DEF DialFails
    <2>2. CASE stage[s] = "dialing"
      <3>1. mode # "reversews" /\ UNCHANGED <<mode, socket, clean>>
        BY <1>10, <2>2 DEF DialFails
      <3>2. /\ stage'[s] = "failing" /\ ~launched'[s] /\ upstream'[s] = "closed"
            /\ browser'[s] # "up"
        BY <1>10, <2>2 DEF DialFails
      <3>3. \A r \in Sockets \ {s} : /\ stage'[r] = stage[r] /\ launched'[r] = launched[r]
                                      /\ browser'[r] = browser[r] /\ upstream'[r] = upstream[r]
        BY <1>10, <2>2 DEF DialFails
      <3>4. ClientTypeOK'
        <4>1. /\ stage' = [stage EXCEPT ![s] = "failing"]
              /\ active_clients' = active_clients \ {s}
              /\ launched' = [launched EXCEPT ![s] = FALSE]
              /\ \E b \in {"ending", browser[s]} : browser' = [browser EXCEPT ![s] = b]
              /\ upstream' = [upstream EXCEPT ![s] = "closed"]
          BY <1>10, <2>2 DEF DialFails
        <4> QED
          BY <3>1, <4>1
      <3>5. ClientInv'
        BY <2>2, <3>1, <3>2, <3>3
      <3> QED
        BY <3>4, <3>5
    <2> QED
      BY <2>1, <2>2
  <1>11. ASSUME NEW s \in Sockets, Redial(s) PROVE CInv'
    BY <1>11 DEF Redial
  <1>12. ASSUME NEW s \in Sockets, SetupEnds(s) PROVE CInv'
    BY <1>12 DEF SetupEnds, clientVars
  <1>13. ASSUME NEW s \in Sockets, FailureEnds(s) PROVE CInv'
    BY <1>13 DEF FailureEnds, clientVars
  <1>14. ASSUME NEW s \in Sockets, BrowserEnds(s) \/ BrowserCrashes(s) \/ UpstreamCloses(s)
         PROVE  CInv'
    BY <1>14 DEF BrowserEnds, BrowserCrashes, UpstreamCloses, CloseUpstream
  <1>15. ASSUME NEW s \in Sockets, WaitTimesOut(s) \/ SecondWaitTimesOut(s) PROVE CInv'
    BY <1>15 DEF WaitTimesOut, SecondWaitTimesOut, clientVars
  <1>16. ASSUME NEW s \in Sockets, CloseNext(s) PROVE CInv'
    <2>1. CASE mode = "reversews"
      BY <1>16, <2>1 DEF CloseNext, CloseCdp, CloseShared, RejectWaiters, clientVars
    <2>2. CASE mode # "reversews"
      BY <1>16, <2>2, CloseStep DEF CloseNext, CloseCdp
    <2> QED
      BY <2>1, <2>2
  <1>17. ASSUME NEW ok \in BOOLEAN, ListenerUp(ok) PROVE CInv'
    BY <1>17 DEF ListenerUp, clientVars
  <1>18. CASE PeerConnects
    BY <1>18 DEF PeerConnects, clientVars
  <1>19. CASE PeerLost \/ CloseSockets
    BY <1>19 DEF PeerLost, CloseSockets, clientVars
  <1>20. CASE ListenerClosed
    BY <1>20 DEF ListenerClosed, clientVars
  <1> QED
    BY <1>1, <1>2, <1>3, <1>4, <1>5, <1>6, <1>7, <1>8, <1>9, <1>10, <1>11, <1>12, <1>13, <1>14,
       <1>15, <1>16, <1>17, <1>18, <1>19, <1>20 DEF Next

LEMMA SharedStep == SharedTypeOK /\ [Next]_vars => SharedTypeOK'
  <1> SUFFICES ASSUME SharedTypeOK, [Next]_vars PROVE SharedTypeOK'
    OBVIOUS
  <1> USE DEF SharedTypeOK, sharedVars, proxyVars
  <1>1. CASE UNCHANGED vars
    BY <1>1 DEF vars
  <1>2. ASSUME NEW s \in Sockets,
               Open(s) \/ Message(s) \/ Spawn(s) \/ PrepareFails(s) \/ Launched(s)
                 \/ LaunchFails(s) \/ DialOpens(s) \/ DialFails(s)
        PROVE  SharedTypeOK'
    BY <1>2 DEF Open, Message, Spawn, PrepareFails, Launched, LaunchFails, DialOpens, DialFails
  <1>3. ASSUME NEW s \in Sockets,
               Redial(s) \/ SetupEnds(s) \/ SetupFails(s) \/ FailureEnds(s) \/ BrowserEnds(s)
                 \/ BrowserCrashes(s) \/ UpstreamCloses(s)
        PROVE  SharedTypeOK'
    BY <1>3 DEF Redial, SetupEnds, SetupFails, FailureEnds, BrowserEnds, BrowserCrashes,
                UpstreamCloses
  <1>4. ASSUME NEW s \in Sockets, WaitTimesOut(s) \/ SecondWaitTimesOut(s) PROVE SharedTypeOK'
    BY <1>4 DEF WaitTimesOut, SecondWaitTimesOut
  <1>5. ASSUME NEW s \in Sockets, SocketCloses(s) \/ CloseNext(s) PROVE SharedTypeOK'
    BY <1>5 DEF SocketCloses, CloseNext, CloseCdp, CloseShared, RejectWaiters
  <1>6. ASSUME NEW ok \in BOOLEAN, ListenerUp(ok) PROVE SharedTypeOK'
    BY <1>6 DEF ListenerUp
  <1>7. CASE PeerConnects \/ PeerLost \/ ListenerClosed \/ CloseSockets
    BY <1>7 DEF PeerConnects, PeerLost, ListenerClosed, CloseSockets
  <1> QED
    BY <1>1, <1>2, <1>3, <1>4, <1>5, <1>6, <1>7 DEF Next

-----------------------------------------------------------------------------
IInv == CInv /\ SharedTypeOK /\ MessageInv

LEMMA InvHolds == Spec => []IInv
  <1>1. Init => IInv
    BY InvInit DEF IInv, CInv, MessageInv
  <1>2. IInv /\ [Next]_vars => IInv'
    BY ClientStep, SharedStep, MessageStep DEF IInv
  <1> QED
    BY <1>1, <1>2, PTL DEF Spec

(* Type correctness of the proxy.                                          *)
THEOREM TypeCorrect == Spec => []TypeOK
  <1>1. IInv => TypeOK
    BY TypeParts DEF IInv, CInv, MessageInv
  <1> QED
    BY <1>1, InvHolds, PTL

(* connectDownstream() hands every message to its client once, in order.   *)
THEOREM HandedInOrder == Spec => []InOrder
  <1>1. IInv => InOrder
    BY DEF IInv, MessageInv
  <1> QED
    BY <1>1, InvHolds, PTL

(* The close handler of a downstream websocket leaves no browser and no    *)
(* upstream, unless it ran while connect() or a dial was under way.        *)
THEOREM NothingIsLeft == Spec => []NothingLeftBehind
  <1>1. IInv => NothingLeftBehind
    <2> SUFFICES ASSUME IInv, NEW s \in Sockets, socket[s] = "closed", clean[s],
                        browser[s] # "ending"
                 PROVE  browser[s] \in {"none", "stray"} /\ upstream[s] = "closed"
      BY DEF NothingLeftBehind
    <2> QED
      BY DEF IInv, CInv, ClientTypeOK, ClientInv
  <1> QED
    BY <1>1, InvHolds, PTL

=============================================================================
