---------------------------- MODULE FramingProofs ----------------------------
(***************************************************************************)
(* Theorems about the generic protocol, for any packets, any byte values   *)
(* and any length of a buffer.  What the receiver makes of the bytes that  *)
(* are on the line is a fold of its step over them; the recursive          *)
(* functions of Framing are folds, too.                                    *)
(***************************************************************************)
EXTENDS Framing, SequenceTheorems, WellFoundedInduction, TLAPS

-------------------------------------------------------------------------------
(* Induction, over a set instead of a predicate. *)

LEMMA Smallest ==
  ASSUME NEW S \in SUBSET Nat, S # {}
  PROVE  \E m \in S : \A k \in S : m <= k
<1> DEFINE R == OpToRel(<, Nat)
<1>1. IsWellFoundedOn(R, Nat)
  BY NatLessThanWellFounded
<1>2. \E m \in S : \A k \in S : ~(<<k, m>> \in R)
  <2> HIDE DEF R
  <2> QED
    BY <1>1, WFMin, Zenon
<1>3. PICK m \in S : \A k \in S : ~(<<k, m>> \in R)
  BY <1>2
<1>4. ASSUME NEW k \in S PROVE m <= k
  <2>1. k < m => <<k, m>> \in R
    BY DEF OpToRel
  <2>2. ~(k < m)
    BY <1>3, <2>1
  <2>3. k \in Nat /\ m \in Nat
    OBVIOUS
  <2> HIDE DEF R
  <2> QED
    BY <2>2, <2>3
<1> QED
  BY <1>4

LEMMA UpTo ==
  ASSUME NEW N \in Nat, NEW S, 0 \in S,
         \A k \in 0..(N - 1) : k \in S => k + 1 \in S
  PROVE  0..N \subseteq S
<1> SUFFICES ASSUME NEW i \in 0..N, i \notin S PROVE FALSE
  OBVIOUS
<1> DEFINE T == {k \in Nat : k <= N /\ k \notin S}
<1>1. T \in SUBSET Nat /\ T # {}
  OBVIOUS
<1>2. PICK m \in T : \A k \in T : m <= k
  BY <1>1, Smallest
<1>3. m \in Nat /\ m <= N /\ m \notin S /\ m # 0
  BY <1>2
<1>4. m - 1 \in 0..(N - 1) /\ m - 1 \notin T
  BY <1>2, <1>3
<1>5. m - 1 \in S
  BY <1>4
<1>6. (m - 1) + 1 \in S
  BY <1>4, <1>5
<1> QED
  BY <1>3, <1>6

-------------------------------------------------------------------------------
(* Folds of a function over a sequence. *)

(* op takes a value in A and an element in B to a value in A. *)
Operation(A, B, op) == op \in [A \X B -> A]

IsFold(f, op, base, s) ==
  /\ f[0] = base
  /\ \A i \in 1..Len(s) : f[i] = op[<<f[i - 1], s[i]>>]

Fold(A, op, base, s) ==
  (CHOOSE f \in [0..Len(s) -> A] : IsFold(f, op, base, s))[Len(s)]

LEMMA FoldExists ==
  ASSUME NEW A, NEW B, NEW op, Operation(A, B, op), NEW base \in A, NEW s \in Seq(B)
  PROVE  \E f \in [0..Len(s) -> A] : IsFold(f, op, base, s)
<1> DEFINE Up(f, k) == f[0] = base /\ \A i \in 1..k : f[i] = op[<<f[i - 1], s[i]>>]
           S == {k \in 0..Len(s) : \E f \in [0..k -> A] : Up(f, k)}
<1>0. Len(s) \in Nat /\ \A i \in 1..Len(s) : s[i] \in B
  BY ElementOfSeq
<1>1. 0 \in S
  <2> DEFINE g == [i \in 0..0 |-> base]
  <2>1. g \in [0..0 -> A] /\ Up(g, 0)
    OBVIOUS
  <2>2. 0 \in 0..Len(s)
    BY <1>0
  <2> HIDE DEF g, Up
  <2> QED
    BY <2>1, <2>2
<1>2. ASSUME NEW k \in 0..(Len(s) - 1), k \in S PROVE k + 1 \in S
  <2>1. PICK f \in [0..k -> A] : Up(f, k)
    BY <1>2
  <2> DEFINE g == [i \in 0..(k + 1) |-> IF i = k + 1 THEN op[<<f[k], s[k + 1]>>] ELSE f[i]]
  <2>2. k \in Nat /\ k + 1 \in 1..Len(s)
    BY <1>0
  <2>3. op[<<f[k], s[k + 1]>>] \in A
    BY <1>0, <2>2 DEF Operation
  <2>4. g \in [0..(k + 1) -> A]
    BY <2>2, <2>3
  <2>5. g[0] = base
    BY <2>1, <2>2
  <2>6. ASSUME NEW i \in 1..(k + 1) PROVE g[i] = op[<<g[i - 1], s[i]>>]
    <3>1. CASE i = k + 1
      <4>1. g[k + 1] = op[<<f[k], s[k + 1]>>]
        BY <2>2
      <4>2. g[k] = f[k] /\ (k + 1) - 1 = k
        BY <2>2
      <4> HIDE DEF g
      <4> QED
        BY <3>1, <4>1, <4>2
    <3>2. CASE i # k + 1
      <4>1. i \in 1..k /\ i - 1 \in 0..k /\ i - 1 # k + 1 /\ i \in 0..(k + 1) /\ i - 1 \in 0..(k + 1)
        BY <2>2, <3>2
      <4>2. g[i] = f[i] /\ g[i - 1] = f[i - 1]
        BY <3>2, <4>1
      <4> QED
        BY <2>1, <4>1, <4>2
    <3> QED
      BY <3>1, <3>2
  <2>7. Up(g, k + 1)
    BY <2>5, <2>6
  <2> HIDE DEF g, Up
  <2> QED
    BY <2>2, <2>4, <2>7
<1>3. 0..Len(s) \subseteq S
  <2> HIDE DEF S
  <2> QED
    BY <1>0, <1>1, <1>2, UpTo
<1>4. Len(s) \in S
  <2>1. Len(s) \in 0..Len(s)
    BY <1>0
  <2> HIDE DEF S
  <2> QED
    BY <1>3, <2>1
<1> QED
  BY <1>4 DEF IsFold

(* Folds over sequences that begin alike begin alike. *)
LEMMA FoldsAgree ==
  ASSUME NEW f, NEW g, NEW op, NEW base, NEW B, NEW s \in Seq(B), NEW t \in Seq(B),
         IsFold(f, op, base, s), IsFold(g, op, base, t),
         Len(s) <= Len(t), \A i \in 1..Len(s) : s[i] = t[i]
  PROVE  \A i \in 0..Len(s) : f[i] = g[i]
<1> DEFINE S == {k \in 0..Len(s) : f[k] = g[k]}
<1>0. Len(s) \in Nat /\ Len(t) \in Nat
  OBVIOUS
<1>1. 0 \in S
  BY <1>0 DEF IsFold
<1>2. ASSUME NEW k \in 0..(Len(s) - 1), k \in S PROVE k + 1 \in S
  <2>1. k + 1 \in 1..Len(s) /\ k + 1 \in 1..Len(t) /\ (k + 1) - 1 = k /\ k + 1 \in 0..Len(s)
    BY <1>0
  <2>2. f[k + 1] = op[<<f[k], s[k + 1]>>]
    BY <2>1 DEF IsFold
  <2>3. g[k + 1] = op[<<g[k], t[k + 1]>>]
    BY <2>1 DEF IsFold
  <2>4. f[k] = g[k] /\ s[k + 1] = t[k + 1]
    BY <1>2, <2>1
  <2> QED
    BY <2>1, <2>2, <2>3, <2>4
<1>3. 0..Len(s) \subseteq S
  <2> HIDE DEF S
  <2> QED
    BY <1>0, <1>1, <1>2, UpTo
<1> QED
  BY <1>3

LEMMA FoldIs ==
  ASSUME NEW A, NEW B, NEW op, Operation(A, B, op), NEW base \in A, NEW s \in Seq(B),
         NEW f, IsFold(f, op, base, s)
  PROVE  f[Len(s)] = Fold(A, op, base, s)
<1> DEFINE g == CHOOSE h \in [0..Len(s) -> A] : IsFold(h, op, base, s)
<1>1. IsFold(g, op, base, s)
  BY FoldExists
<1>2. Len(s) \in Nat /\ Len(s) \in 0..Len(s)
  OBVIOUS
<1> HIDE DEF g
<1>3. \A i \in 0..Len(s) : f[i] = g[i]
  BY <1>1, <1>2, FoldsAgree
<1> QED
  BY <1>2, <1>3 DEF Fold, g

LEMMA FoldType ==
  ASSUME NEW A, NEW B, NEW op, Operation(A, B, op), NEW base \in A, NEW s \in Seq(B)
  PROVE  Fold(A, op, base, s) \in A
<1>1. PICK f \in [0..Len(s) -> A] : IsFold(f, op, base, s)
  BY FoldExists
<1>2. Len(s) \in 0..Len(s)
  OBVIOUS
<1>3. f[Len(s)] = Fold(A, op, base, s)
  BY <1>1, FoldIs, Zenon
<1> QED
  BY <1>1, <1>2, <1>3

LEMMA FoldEmpty ==
  ASSUME NEW A, NEW B, NEW op, Operation(A, B, op), NEW base \in A
  PROVE  Fold(A, op, base, <<>>) = base
<1>1. <<>> \in Seq(B) /\ Len(<<>>) = 0
  OBVIOUS
<1>2. PICK f \in [0..0 -> A] : IsFold(f, op, base, <<>>)
  BY <1>1, FoldExists
<1>3. f[Len(<<>>)] = Fold(A, op, base, <<>>)
  BY <1>1, <1>2, FoldIs, Zenon
<1> QED
  BY <1>1, <1>2, <1>3 DEF IsFold

LEMMA FoldAppend ==
  ASSUME NEW A, NEW B, NEW op, Operation(A, B, op), NEW base \in A, NEW s \in Seq(B), NEW b \in B
  PROVE  Fold(A, op, base, Append(s, b)) = op[<<Fold(A, op, base, s), b>>]
<1> DEFINE t == Append(s, b)
<1>1. /\ t \in Seq(B) /\ Len(t) = Len(s) + 1 /\ t[Len(s) + 1] = b
      /\ Len(s) \in Nat /\ \A i \in 1..Len(s) : s[i] = t[i]
  BY AppendProperties
<1> HIDE DEF t
<1>2. PICK f \in [0..Len(s) -> A] : IsFold(f, op, base, s)
  BY FoldExists
<1>3. PICK g \in [0..Len(t) -> A] : IsFold(g, op, base, t)
  BY <1>1, FoldExists
<1>4. Len(s) <= Len(t) /\ Len(s) \in 0..Len(s)
  BY <1>1
<1>5. f[Len(s)] = g[Len(s)]
  BY <1>1, <1>2, <1>3, <1>4, FoldsAgree
<1>6. g[Len(s) + 1] = op[<<g[Len(s)], b>>]
  <2>1. Len(s) + 1 \in 1..Len(t) /\ (Len(s) + 1) - 1 = Len(s)
    BY <1>1
  <2> QED
    BY <1>1, <1>3, <2>1 DEF IsFold
<1>7. f[Len(s)] = Fold(A, op, base, s)
  BY <1>2, FoldIs
<1>8. g[Len(t)] = Fold(A, op, base, t)
  BY <1>1, <1>3, FoldIs
<1> QED
  BY <1>1, <1>5, <1>6, <1>7, <1>8 DEF t

(* A fold over a concatenation goes on where the first part ends. *)
LEMMA FoldConcat ==
  ASSUME NEW A, NEW B, NEW op, Operation(A, B, op), NEW base \in A,
         NEW s \in Seq(B), NEW t \in Seq(B)
  PROVE  Fold(A, op, base, s \o t) = Fold(A, op, Fold(A, op, base, s), t)
<1> DEFINE mid == Fold(A, op, base, s)
           P(u) == Fold(A, op, base, s \o u) = Fold(A, op, mid, u)
           S == {k \in 0..Len(t) : \A u \in Seq(B) : Len(u) = k => P(u)}
<1>0. mid \in A /\ Len(t) \in Nat
  <2>1. Fold(A, op, base, s) \in A
    BY FoldType, Zenon
  <2> QED
    BY <2>1
<1> HIDE DEF mid
<1>4. ASSUME NEW r \in A PROVE \A w \in Seq(B), c \in B :
                 Fold(A, op, r, Append(w, c)) = op[<<Fold(A, op, r, w), c>>]
  BY FoldAppend
<1>1. 0 \in S
  <2>1. ASSUME NEW u \in Seq(B), Len(u) = 0 PROVE P(u)
    <3>1. u = <<>>
      BY <2>1, EmptySeq
    <3>2. s \o u = s
      BY <3>1
    <3> QED
      BY <1>0, <3>1, <3>2, FoldEmpty DEF mid
  <2> QED
    BY <1>0, <2>1
<1>2. ASSUME NEW k \in 0..(Len(t) - 1), k \in S PROVE k + 1 \in S
  <2>1. ASSUME NEW u \in Seq(B), Len(u) = k + 1 PROVE P(u)
    <3>1. k \in Nat /\ k + 1 \in 1..Len(u)
      BY <1>0, <2>1
    <3>2. PICK v \in Seq(B), b \in B : Len(v) = k /\ u = Append(v, b)
      <4> DEFINE v == SubSeq(u, 1, k)
                 b == u[k + 1]
      <4>1. v \in Seq(B) /\ Len(v) = k /\ b \in B /\ u = Append(v, b)
        BY <2>1, <3>1
      <4> HIDE DEF v, b
      <4> QED
        BY <4>1
    <3>3. P(v)
      BY <1>2, <3>2
    <3>4. s \o u = Append(s \o v, b) /\ s \o v \in Seq(B)
      BY <3>2
    <3>5. Fold(A, op, base, s \o u) = op[<<Fold(A, op, base, s \o v), b>>]
      <4>1. \A w \in Seq(B), c \in B :
              Fold(A, op, base, Append(w, c)) = op[<<Fold(A, op, base, w), c>>]
        BY <1>4, Zenon
      <4> QED
        BY <3>4, <4>1
    <3>6. Fold(A, op, mid, u) = op[<<Fold(A, op, mid, v), b>>]
      BY <1>0, <1>4, <3>2
    <3> QED
      BY <3>3, <3>5, <3>6
  <2>2. k + 1 \in 0..Len(t)
    BY <1>0
  <2> HIDE DEF P
  <2> QED
    BY <2>1, <2>2
<1>3. 0..Len(t) \subseteq S
  <2> HIDE DEF S
  <2> QED
    BY <1>0, <1>1, <1>2, UpTo
<1>5. Len(t) \in S
  BY <1>0, <1>3
<1> QED
  BY <1>5 DEF mid

-------------------------------------------------------------------------------
(* The bytes: checksums are sums modulo Modulus. *)

LEMMA Consts ==
  /\ Modulus \in Nat \ {0} /\ MaxPacketLen \in Nat \ {0} /\ MaxPayload \in Nat
  /\ MaxFaults \in Nat /\ Buffers \in Nat \ {0}
  /\ BEGINNING \in Bytes /\ END \in Bytes /\ ESCAPE \in Bytes
  /\ BEGINNING # END /\ END # ESCAPE /\ BEGINNING # ESCAPE
  /\ Endpoints \subseteq Bytes /\ Payload \subseteq Bytes /\ Noise \subseteq Bytes
  /\ Bytes \subseteq Nat /\ 0 \in Bytes
BY ByteAssumption, LengthAssumption DEF Bytes, Special

LEMMA ModType == ASSUME NEW x \in Nat PROVE x % Modulus \in Bytes
BY Consts DEF Bytes

LEMMA ModOf ==
  ASSUME NEW q \in Int, NEW r \in Bytes
  PROVE  (Modulus * q + r) % Modulus = r
<1> DEFINE x == Modulus * q + r
           d == x \div Modulus
           e == x % Modulus
<1>1. Modulus \in Nat \ {0} /\ Modulus \in Int /\ Modulus > 0 /\ r \in Int /\ r >= 0 /\ r < Modulus
  BY Consts DEF Bytes
<1>2. x \in Int
  BY <1>1
<1>3. /\ d \in Int /\ e \in Int /\ e >= 0 /\ e < Modulus
      /\ x = Modulus * d + e
  BY <1>1, <1>2
<1>4. Modulus * (q - d) = e - r
  BY <1>1, <1>3
<1>5. q - d >= 1 => Modulus * (q - d) >= Modulus
  BY <1>1, <1>3
<1>6. q - d <= -1 => Modulus * (q - d) <= -Modulus
  BY <1>1, <1>3
<1> HIDE DEF d, e
<1>7. q - d = 0
  BY <1>1, <1>3, <1>4, <1>5, <1>6
<1>8. e = r
  BY <1>1, <1>3, <1>4, <1>7
<1> QED
  BY <1>8 DEF e

LEMMA ModAdd ==
  ASSUME NEW x \in Nat, NEW y \in Nat
  PROVE  ((x % Modulus) + y) % Modulus = (x + y) % Modulus
<1> DEFINE d == x \div Modulus
           e == x % Modulus
           f == (e + y) \div Modulus
           g == (e + y) % Modulus
<1>1. Modulus \in Nat \ {0} /\ Modulus \in Int
  BY Consts
<1>2. d \in Int /\ e \in Nat /\ x = Modulus * d + e
  BY <1>1
<1>3. f \in Int /\ g \in Bytes /\ e + y = Modulus * f + g
  BY <1>1, <1>2 DEF Bytes
<1> HIDE DEF d, e, f, g
<1>4. g \in Int
  BY <1>3 DEF Bytes
<1>5. x + y = Modulus * (d + f) + g
  BY <1>1, <1>2, <1>3, <1>4
<1>6. (Modulus * (d + f) + g) % Modulus = g
  BY <1>2, <1>3, ModOf
<1> QED
  BY <1>5, <1>6 DEF g, e

(* Negative(x) is the byte that makes the sum 0. *)
LEMMA NegativeSum ==
  ASSUME NEW x \in Nat
  PROVE  Negative(x) \in Bytes /\ ((x % Modulus) + Negative(x)) % Modulus = 0
<1> DEFINE e == x % Modulus
<1>1. Modulus \in Nat \ {0} /\ e \in Nat /\ e < Modulus
  BY Consts
<1> HIDE DEF e
<1>2. Negative(x) = (Modulus - e) % Modulus
  BY DEF Negative, e
<1>3. CASE e = 0
  <2>1. (Modulus * 1 + 0) % Modulus = 0 /\ Modulus * 1 + 0 = Modulus - e /\ 0 % Modulus = 0
    BY <1>1, <1>3, ModOf, Consts
  <2>2. Negative(x) = 0
    BY <1>2, <2>1
  <2> QED
    BY <1>3, <2>1, <2>2, Consts DEF e
<1>4. CASE e # 0
  <2>1. Modulus - e \in 0..(Modulus - 1)
    BY <1>1, <1>4
  <2>2. (Modulus - e) % Modulus = Modulus - e
    BY <1>1, <2>1
  <2>3. (Modulus * 1 + 0) % Modulus = 0 /\ Modulus * 1 + 0 = e + (Modulus - e)
    BY <1>1, ModOf, Consts
  <2> QED
    BY <1>2, <2>1, <2>2, <2>3 DEF e, Bytes
<1> QED
  BY <1>3, <1>4

-------------------------------------------------------------------------------
(* What is sent. *)

LEMMA EscapedType ==
  ASSUME NEW b \in Bytes
  PROVE  Escaped(b) \in Seq(Bytes) /\ EscapedSum(b) \in Nat
BY Consts DEF Escaped, EscapedSum

EscapeOp == [p \in Seq(Bytes) \X Bytes |-> p[1] \o Escaped(p[2])]
SumOp    == [p \in Nat \X Bytes |-> p[1] + EscapedSum(p[2])]

LEMMA EscapeOps ==
  /\ Operation(Seq(Bytes), Bytes, EscapeOp) /\ Operation(Nat, Bytes, SumOp)
  /\ \A s \in Seq(Bytes), b \in Bytes : EscapeOp[<<s, b>>] = s \o Escaped(b)
  /\ \A x \in Nat, b \in Bytes : SumOp[<<x, b>>] = x + EscapedSum(b)
<1>1. \A s \in Seq(Bytes), b \in Bytes : s \o Escaped(b) \in Seq(Bytes)
  BY EscapedType
<1>2. \A x \in Nat, b \in Bytes : x + EscapedSum(b) \in Nat
  BY EscapedType
<1> QED
  BY <1>1, <1>2 DEF Operation, EscapeOp, SumOp

LEMMA EscapedIsFold ==
  ASSUME NEW s \in Seq(Bytes)
  PROVE  EscapedSeq(s) = Fold(Seq(Bytes), EscapeOp, <<>>, s)
<1> DEFINE Rec(f) == [i \in 0..Len(s) |-> IF i = 0 THEN <<>> ELSE f[i - 1] \o Escaped(s[i])]
           F == CHOOSE f : f = Rec(f)
<1>1. <<>> \in Seq(Bytes) /\ Len(s) \in Nat /\ \A i \in 1..Len(s) : s[i] \in Bytes
  BY ElementOfSeq
<1>2. PICK g \in [0..Len(s) -> Seq(Bytes)] : IsFold(g, EscapeOp, <<>>, s)
  BY <1>1, EscapeOps, FoldExists
<1>3. ASSUME NEW i \in 1..Len(s) PROVE g[i] = g[i - 1] \o Escaped(s[i])
  <2>1. i - 1 \in 0..Len(s) /\ s[i] \in Bytes
    BY <1>1
  <2>2. g[i] = EscapeOp[<<g[i - 1], s[i]>>]
    BY <1>2 DEF IsFold
  <2> QED
    BY <2>1, <2>2, EscapeOps
<1>4. g = Rec(g)
  <2>1. ASSUME NEW i \in 0..Len(s)
        PROVE  g[i] = IF i = 0 THEN <<>> ELSE g[i - 1] \o Escaped(s[i])
    <3>1. i = 0 \/ i \in 1..Len(s)
      BY <1>1
    <3>2. g[0] = <<>>
      BY <1>2 DEF IsFold
    <3> QED
      BY <1>3, <3>1, <3>2
  <2>2. g = [i \in 0..Len(s) |-> g[i]]
    BY <1>2
  <2> QED
    BY <2>1, <2>2
<1>5. F = Rec(F)
  <2> HIDE DEF Rec
  <2> QED
    BY <1>4
<1>6. EscapedSeq(s) = F[Len(s)]
  BY DEF EscapedSeq
<1> HIDE DEF F
<1>7. PICK h : h = F
  OBVIOUS
<1>8. h = [i \in 0..Len(s) |-> IF i = 0 THEN <<>> ELSE h[i - 1] \o Escaped(s[i])]
  BY <1>5, <1>7
<1>9. h[0] = <<>> /\ \A i \in 1..Len(s) : h[i] = h[i - 1] \o Escaped(s[i])
  <2>1. 0 \in 0..Len(s) /\ \A i \in 1..Len(s) : i \in 0..Len(s) /\ i # 0
    BY <1>1
  <2> QED
    BY <1>8, <2>1, Zenon
<1> DEFINE S == {k \in 0..Len(s) : h[k] = g[k]}
<1>10. 0 \in S
  <2>1. g[0] = <<>> /\ 0 \in 0..Len(s)
    BY <1>1, <1>2 DEF IsFold
  <2> QED
    BY <1>9, <2>1
<1>11. ASSUME NEW k \in 0..(Len(s) - 1), k \in S PROVE k + 1 \in S
  <2>1. k + 1 \in 1..Len(s) /\ k + 1 \in 0..Len(s) /\ (k + 1) - 1 = k
    BY <1>1
  <2>2. h[k + 1] = h[(k + 1) - 1] \o Escaped(s[k + 1]) /\ g[k + 1] = g[(k + 1) - 1] \o Escaped(s[k + 1])
    BY <1>3, <1>9, <2>1
  <2> QED
    BY <1>11, <2>1, <2>2
<1>12. Len(s) \in S
  <2> HIDE DEF S
  <2>1. Len(s) \in 0..Len(s)
    BY <1>1
  <2>2. 0..Len(s) \subseteq S
    BY <1>1, <1>10, <1>11, UpTo
  <2> QED
    BY <2>1, <2>2
<1>13. EscapedSeq(s) = g[Len(s)]
  BY <1>6, <1>7, <1>12
<1>14. g[Len(s)] = Fold(Seq(Bytes), EscapeOp, <<>>, s)
  BY <1>1, <1>2, EscapeOps, FoldIs
<1> QED
  BY <1>13, <1>14

LEMMA SumIsFold ==
  ASSUME NEW s \in Seq(Bytes)
  PROVE  EscapedSeqSum(s) = Fold(Nat, SumOp, 0, s)
<1> DEFINE Rec(f) == [i \in 0..Len(s) |-> IF i = 0 THEN 0 ELSE f[i - 1] + EscapedSum(s[i])]
           F == CHOOSE f : f = Rec(f)
<1>1. 0 \in Nat /\ Len(s) \in Nat /\ \A i \in 1..Len(s) : s[i] \in Bytes
  BY ElementOfSeq
<1>2. PICK g \in [0..Len(s) -> Nat] : IsFold(g, SumOp, 0, s)
  BY <1>1, EscapeOps, FoldExists
<1>3. ASSUME NEW i \in 1..Len(s) PROVE g[i] = g[i - 1] + EscapedSum(s[i])
  <2>1. i - 1 \in 0..Len(s) /\ s[i] \in Bytes
    BY <1>1
  <2>2. g[i] = SumOp[<<g[i - 1], s[i]>>]
    BY <1>2 DEF IsFold
  <2> QED
    BY <2>1, <2>2, EscapeOps
<1>4. g = Rec(g)
  <2>1. ASSUME NEW i \in 0..Len(s)
        PROVE  g[i] = IF i = 0 THEN 0 ELSE g[i - 1] + EscapedSum(s[i])
    <3>1. i = 0 \/ i \in 1..Len(s)
      BY <1>1
    <3>2. g[0] = 0
      BY <1>2 DEF IsFold
    <3> QED
      BY <1>3, <3>1, <3>2
  <2>2. g = [i \in 0..Len(s) |-> g[i]]
    BY <1>2
  <2> QED
    BY <2>1, <2>2
<1>5. F = Rec(F)
  <2> HIDE DEF Rec
  <2> QED
    BY <1>4
<1>6. EscapedSeqSum(s) = F[Len(s)]
  BY DEF EscapedSeqSum
<1> HIDE DEF F
<1>7. PICK h : h = F
  OBVIOUS
<1>8. h = [i \in 0..Len(s) |-> IF i = 0 THEN 0 ELSE h[i - 1] + EscapedSum(s[i])]
  BY <1>5, <1>7
<1>9. h[0] = 0 /\ \A i \in 1..Len(s) : h[i] = h[i - 1] + EscapedSum(s[i])
  <2>1. 0 \in 0..Len(s) /\ \A i \in 1..Len(s) : i \in 0..Len(s) /\ i # 0
    BY <1>1
  <2> QED
    BY <1>8, <2>1, Zenon
<1> DEFINE S == {k \in 0..Len(s) : h[k] = g[k]}
<1>10. 0 \in S
  <2>1. g[0] = 0 /\ 0 \in 0..Len(s)
    BY <1>1, <1>2 DEF IsFold
  <2> QED
    BY <1>9, <2>1
<1>11. ASSUME NEW k \in 0..(Len(s) - 1), k \in S PROVE k + 1 \in S
  <2>1. k + 1 \in 1..Len(s) /\ k + 1 \in 0..Len(s) /\ (k + 1) - 1 = k
    BY <1>1
  <2>2. h[k + 1] = h[(k + 1) - 1] + EscapedSum(s[k + 1]) /\ g[k + 1] = g[(k + 1) - 1] + EscapedSum(s[k + 1])
    BY <1>3, <1>9, <2>1
  <2> QED
    BY <1>11, <2>1, <2>2
<1>12. Len(s) \in S
  <2> HIDE DEF S
  <2>1. Len(s) \in 0..Len(s)
    BY <1>1
  <2>2. 0..Len(s) \subseteq S
    BY <1>1, <1>10, <1>11, UpTo
  <2> QED
    BY <2>1, <2>2
<1>13. EscapedSeqSum(s) = g[Len(s)]
  BY <1>6, <1>7, <1>12
<1>14. g[Len(s)] = Fold(Nat, SumOp, 0, s)
  BY <1>1, <1>2, EscapeOps, FoldIs
<1> QED
  BY <1>13, <1>14

LEMMA EscapedSeqIs ==
  /\ EscapedSeq(<<>>) = <<>> /\ EscapedSeqSum(<<>>) = 0
  /\ \A s \in Seq(Bytes) : EscapedSeq(s) \in Seq(Bytes) /\ EscapedSeqSum(s) \in Nat
  /\ \A s \in Seq(Bytes), b \in Bytes :
       /\ EscapedSeq(Append(s, b)) = EscapedSeq(s) \o Escaped(b)
       /\ EscapedSeqSum(Append(s, b)) = EscapedSeqSum(s) + EscapedSum(b)
<1>1. <<>> \in Seq(Bytes) /\ 0 \in Nat
  OBVIOUS
<1>2. /\ Operation(Seq(Bytes), Bytes, EscapeOp) /\ Operation(Nat, Bytes, SumOp)
  BY EscapeOps
<1>3. EscapedSeq(<<>>) = <<>> /\ EscapedSeqSum(<<>>) = 0
  <2>1. Fold(Seq(Bytes), EscapeOp, <<>>, <<>>) = <<>>
    BY <1>1, <1>2, FoldEmpty, Zenon
  <2>2. Fold(Nat, SumOp, 0, <<>>) = 0
    BY <1>1, <1>2, FoldEmpty, Zenon
  <2>3. <<>> \in Seq(Bytes)
    OBVIOUS
  <2> QED
    BY <2>1, <2>2, <2>3, EscapedIsFold, SumIsFold
<1>4. ASSUME NEW s \in Seq(Bytes)
      PROVE  EscapedSeq(s) \in Seq(Bytes) /\ EscapedSeqSum(s) \in Nat
  <2>1. Fold(Seq(Bytes), EscapeOp, <<>>, s) \in Seq(Bytes)
    BY <1>1, <1>2, FoldType, Zenon
  <2>2. Fold(Nat, SumOp, 0, s) \in Nat
    BY <1>1, <1>2, FoldType, Zenon
  <2> QED
    BY <2>1, <2>2, EscapedIsFold, SumIsFold
<1>5. ASSUME NEW s \in Seq(Bytes), NEW b \in Bytes
      PROVE  /\ EscapedSeq(Append(s, b)) = EscapedSeq(s) \o Escaped(b)
             /\ EscapedSeqSum(Append(s, b)) = EscapedSeqSum(s) + EscapedSum(b)
  <2>1. Append(s, b) \in Seq(Bytes)
    OBVIOUS
  <2>2. EscapedSeq(Append(s, b)) = EscapeOp[<<EscapedSeq(s), b>>]
    <3>1. Fold(Seq(Bytes), EscapeOp, <<>>, Append(s, b))
            = EscapeOp[<<Fold(Seq(Bytes), EscapeOp, <<>>, s), b>>]
      <4>1. PICK e : e = <<>>
        OBVIOUS
      <4>2. PICK A : A = Seq(Bytes)
        OBVIOUS
      <4>3. Operation(A, Bytes, EscapeOp) /\ e \in A
        BY <1>1, <1>2, <4>1, <4>2
      <4>4. Fold(A, EscapeOp, e, Append(s, b)) = EscapeOp[<<Fold(A, EscapeOp, e, s), b>>]
        BY <4>3, FoldAppend
      <4> QED
        BY <4>1, <4>2, <4>4
    <3> QED
      BY <2>1, <3>1, EscapedIsFold
  <2>3. EscapedSeqSum(Append(s, b)) = SumOp[<<EscapedSeqSum(s), b>>]
    <3>1. Fold(Nat, SumOp, 0, Append(s, b)) = SumOp[<<Fold(Nat, SumOp, 0, s), b>>]
      BY <1>1, <1>2, FoldAppend
    <3> QED
      BY <2>1, <3>1, SumIsFold
  <2> QED
    BY <1>4, <2>2, <2>3, EscapeOps
<1> QED
  BY <1>3, <1>4, <1>5

LEMMA AppendConcat ==
  ASSUME NEW s \in Seq(Bytes), NEW t \in Seq(Bytes), NEW e \in Bytes
  PROVE  Append(s \o t, e) = s \o Append(t, e)
OBVIOUS

LEMMA ConcatConcat ==
  ASSUME NEW s \in Seq(Bytes), NEW t \in Seq(Bytes), NEW u \in Seq(Bytes)
  PROVE  (s \o t) \o u = s \o (t \o u)
OBVIOUS

LEMMA PrefixGrows ==
  ASSUME NEW A, NEW s \in Seq(A), NEW k \in 0..(Len(s) - 1)
  PROVE  /\ SubSeq(s, 1, k) \in Seq(A) /\ Len(SubSeq(s, 1, k)) = k /\ s[k + 1] \in A
         /\ SubSeq(s, 1, k + 1) = Append(SubSeq(s, 1, k), s[k + 1])
<1>1. Len(s) \in Nat /\ k \in Nat /\ k + 1 \in 1..Len(s)
  OBVIOUS
<1> QED
  BY <1>1

-------------------------------------------------------------------------------
(* The receiver as a function: what a byte makes of it if it has a buffer. *)

Packets == {p \in [ep : Bytes, data : Seq(Bytes)] : Len(p.data) + 2 < MaxPacketLen}

States ==
  {r \in [mode : Modes, n : 0..MaxPacketLen, sum : Bytes, ep : Bytes,
          packet : Seq(Bytes), handed : Seq(Packets)] :
     /\ Len(r.packet) < MaxPacketLen
     /\ r.n > 0 => Len(r.packet) = r.n - 1}

Rec(m, k, c, e, p, h) ==
  [mode |-> m, n |-> k, sum |-> c, ep |-> e, packet |-> p, handed |-> h]

Receiver == Rec(mode, n, sum, endpoint, packet, handed)

Ended(r, h) == Rec(IF r.sum = 0 THEN "UNKNOWN" ELSE "PACKET_END", 0, 0, r.ep, <<>>, h)

Added(r, b) == (r.sum + b) % Modulus

Stored(r, b) == IF r.n = 0
  THEN Rec("PAYLOAD", 1, Added(r, b), b, <<>>, r.handed)
  ELSE Rec("PAYLOAD", r.n + 1, Added(r, b), r.ep, Append(r.packet, b), r.handed)

Received(r) == [ep |-> r.ep, data |-> SubSeq(r.packet, 1, r.n - 2)]

Step(r, b) ==
  IF r.mode # "ESCAPE_CHAR" /\ b = BEGINNING
  THEN Rec("PAYLOAD", 0, 0, r.ep, r.packet, r.handed)
  ELSE IF r.n >= MaxPacketLen
  THEN Rec("UNKNOWN", r.n, r.sum, r.ep, r.packet, r.handed)
  ELSE IF r.mode # "ESCAPE_CHAR" /\ b = END
  THEN IF r.sum = 0 /\ r.n >= 2 THEN Ended(r, Append(r.handed, Received(r)))
                                ELSE Ended(r, r.handed)
  ELSE IF r.mode = "PAYLOAD" /\ b = ESCAPE
  THEN Rec("ESCAPE_CHAR", r.n, Added(r, b), r.ep, r.packet, r.handed)
  ELSE IF r.mode \in {"PAYLOAD", "ESCAPE_CHAR"}
  THEN Stored(r, b)
  ELSE IF r.mode = "UNKNOWN"
  THEN Rec(r.mode, r.n, Added(r, b), r.ep, r.packet, r.handed)
  ELSE Rec(r.mode, 0, 0, r.ep, <<>>, r.handed)

LEMMA RecIs ==
  ASSUME NEW m, NEW k, NEW c, NEW e, NEW p, NEW h
  PROVE  /\ Rec(m, k, c, e, p, h).mode = m /\ Rec(m, k, c, e, p, h).n = k
         /\ Rec(m, k, c, e, p, h).sum = c /\ Rec(m, k, c, e, p, h).ep = e
         /\ Rec(m, k, c, e, p, h).packet = p /\ Rec(m, k, c, e, p, h).handed = h
BY DEF Rec

LEMMA RecType ==
  ASSUME NEW m \in Modes, NEW k \in Nat, NEW c \in Bytes, NEW e \in Bytes, NEW p \in Seq(Bytes),
         NEW h \in Seq(Packets),
         k <= MaxPacketLen, Len(p) < MaxPacketLen, k > 0 => Len(p) = k - 1
  PROVE  Rec(m, k, c, e, p, h) \in States
<1>1. k \in 0..MaxPacketLen
  BY Consts
<1> QED
  BY <1>1 DEF Rec, States

LEMMA StateIs ==
  ASSUME NEW r \in States
  PROVE  /\ r \in [mode : Modes, n : 0..MaxPacketLen, sum : Bytes, ep : Bytes,
                   packet : Seq(Bytes), handed : Seq(Packets)]
         /\ r.mode \in Modes /\ r.n \in Nat /\ r.n <= MaxPacketLen
         /\ r.sum \in Bytes /\ r.sum \in Nat /\ r.ep \in Bytes
         /\ r.packet \in Seq(Bytes) /\ r.handed \in Seq(Packets)
         /\ Len(r.packet) \in Nat /\ Len(r.packet) < MaxPacketLen
         /\ r.n > 0 => Len(r.packet) = r.n - 1
<1>1. /\ r \in [mode : Modes, n : 0..MaxPacketLen, sum : Bytes, ep : Bytes,
                packet : Seq(Bytes), handed : Seq(Packets)]
      /\ Len(r.packet) < MaxPacketLen /\ (r.n > 0 => Len(r.packet) = r.n - 1)
  BY DEF States
<1>2. /\ r.mode \in Modes /\ r.n \in 0..MaxPacketLen /\ r.sum \in Bytes /\ r.ep \in Bytes
      /\ r.packet \in Seq(Bytes) /\ r.handed \in Seq(Packets)
  BY <1>1
<1>3. Len(r.packet) \in Nat
  BY <1>2
<1>4. MaxPacketLen \in Nat
  BY Consts
<1>5. r.sum \in Nat
  BY <1>2, Consts
<1> QED
  BY <1>1, <1>2, <1>3, <1>4, <1>5

LEMMA SumType ==
  ASSUME NEW x \in Bytes, NEW b \in Bytes
  PROVE  (x + b) % Modulus \in Bytes
<1>1. x \in Nat /\ b \in Nat
  BY Consts
<1> QED
  BY <1>1, ModType

LEMMA AddedType ==
  ASSUME NEW r \in States, NEW b \in Bytes
  PROVE  Added(r, b) \in Bytes
BY StateIs, SumType DEF Added

LEMMA StoredType ==
  ASSUME NEW r \in States, NEW b \in Bytes, r.n < MaxPacketLen
  PROVE  Stored(r, b) \in States
<1>1. Added(r, b) \in Bytes /\ "PAYLOAD" \in Modes
  BY AddedType DEF Modes
<1>2. <<>> \in Seq(Bytes) /\ Len(<<>>) = 0 /\ MaxPacketLen \in Nat /\ MaxPacketLen >= 1
  BY Consts
<1>3. CASE r.n = 0
  <2>1. 1 \in Nat /\ 1 <= MaxPacketLen /\ Len(<<>>) < MaxPacketLen /\ Len(<<>>) = 1 - 1
    BY <1>2
  <2>2. Rec("PAYLOAD", 1, Added(r, b), b, <<>>, r.handed) \in States
    BY <1>1, <1>2, <2>1, StateIs, RecType
  <2> QED
    BY <1>3, <2>2 DEF Stored
<1>4. CASE r.n # 0
  <2>1. Append(r.packet, b) \in Seq(Bytes) /\ Len(Append(r.packet, b)) = r.n
    BY <1>4, StateIs
  <2>2. r.n + 1 \in Nat /\ r.n + 1 <= MaxPacketLen /\ r.n = (r.n + 1) - 1
    BY <1>2, StateIs
  <2>3. Rec("PAYLOAD", r.n + 1, Added(r, b), r.ep, Append(r.packet, b), r.handed) \in States
    BY <1>1, <2>1, <2>2, StateIs, RecType
  <2> QED
    BY <1>4, <2>3 DEF Stored
<1> QED
  BY <1>3, <1>4

LEMMA EndedType ==
  ASSUME NEW r \in States, NEW h \in Seq(Packets)
  PROVE  Ended(r, h) \in States
<1>1. /\ <<>> \in Seq(Bytes) /\ 0 \in Nat /\ 0 <= MaxPacketLen /\ Len(<<>>) < MaxPacketLen /\ ~(0 > 0)
      /\ 0 \in Bytes /\ "UNKNOWN" \in Modes /\ "PACKET_END" \in Modes /\ r.ep \in Bytes
  BY Consts, StateIs DEF Modes
<1> QED
  BY <1>1, RecType DEF Ended

LEMMA ReceivedPacket ==
  ASSUME NEW r \in States, r.n >= 2, r.n < MaxPacketLen
  PROVE  Received(r) \in Packets
<1>1. SubSeq(r.packet, 1, r.n - 2) \in Seq(Bytes) /\ Len(SubSeq(r.packet, 1, r.n - 2)) = r.n - 2
  BY StateIs
<1>2. (r.n - 2) + 2 < MaxPacketLen
  BY StateIs
<1> QED
  BY <1>1, <1>2, StateIs DEF Received, Packets

LEMMA StepType ==
  ASSUME NEW r \in States, NEW b \in Bytes
  PROVE  Step(r, b) \in States
<1>1. /\ Added(r, b) \in Bytes /\ 0 \in Bytes /\ 0 \in Nat /\ 0 <= MaxPacketLen /\ ~(0 > 0)
      /\ <<>> \in Seq(Bytes) /\ Len(<<>>) < MaxPacketLen
      /\ "PAYLOAD" \in Modes /\ "UNKNOWN" \in Modes /\ "ESCAPE_CHAR" \in Modes
  BY AddedType, Consts DEF Modes
<1>2. ASSUME r.n >= 2, r.n < MaxPacketLen
      PROVE  Ended(r, Append(r.handed, Received(r))) \in States
  <2>1. Append(r.handed, Received(r)) \in Seq(Packets)
    BY <1>2, ReceivedPacket, StateIs
  <2> QED
    BY <2>1, EndedType
<1>3. Ended(r, r.handed) \in States
  BY StateIs, EndedType
<1>4. Rec("PAYLOAD", 0, 0, r.ep, r.packet, r.handed) \in States
  BY <1>1, StateIs, RecType
<1>5. Rec("UNKNOWN", r.n, r.sum, r.ep, r.packet, r.handed) \in States
  BY <1>1, StateIs, RecType
<1>6. Rec("ESCAPE_CHAR", r.n, Added(r, b), r.ep, r.packet, r.handed) \in States
  BY <1>1, StateIs, RecType
<1>7. Rec(r.mode, r.n, Added(r, b), r.ep, r.packet, r.handed) \in States
  BY <1>1, StateIs, RecType
<1>8. Rec(r.mode, 0, 0, r.ep, <<>>, r.handed) \in States
  BY <1>1, StateIs, RecType
<1>9. r.n >= MaxPacketLen \/ (r.n < MaxPacketLen /\ Stored(r, b) \in States)
  <2>1. r.n \in Nat /\ MaxPacketLen \in Nat
    BY StateIs, Consts
  <2> QED
    BY <2>1, StoredType
<1> QED
  BY <1>2, <1>3, <1>4, <1>5, <1>6, <1>7, <1>8, <1>9 DEF Step

StepOp == [p \in States \X Bytes |-> Step(p[1], p[2])]

Run(r, l) == Fold(States, StepOp, r, l)

LEMMA RunIs ==
  ASSUME NEW r \in States
  PROVE  /\ Run(r, <<>>) = r
         /\ \A l \in Seq(Bytes) : Run(r, l) \in States
         /\ \A l \in Seq(Bytes), b \in Bytes : Run(r, Append(l, b)) = Step(Run(r, l), b)
         /\ \A l, m \in Seq(Bytes) : Run(r, l \o m) = Run(Run(r, l), m)
<1>1. Operation(States, Bytes, StepOp)
  BY StepType DEF Operation, StepOp
<1>2. Run(r, <<>>) = r
  BY <1>1, FoldEmpty DEF Run
<1>3. ASSUME NEW l \in Seq(Bytes) PROVE Run(r, l) \in States
  BY <1>1, FoldType, Zenon DEF Run
<1>4. ASSUME NEW l \in Seq(Bytes), NEW b \in Bytes PROVE Run(r, Append(l, b)) = Step(Run(r, l), b)
  <2>1. Run(r, Append(l, b)) = StepOp[<<Run(r, l), b>>]
    BY <1>1, FoldAppend DEF Run
  <2> QED
    BY <1>3, <2>1 DEF StepOp
<1>5. ASSUME NEW l \in Seq(Bytes), NEW m \in Seq(Bytes) PROVE Run(r, l \o m) = Run(Run(r, l), m)
  BY <1>1, FoldConcat DEF Run
<1> QED
  BY <1>2, <1>3, <1>4, <1>5

LEMMA RunConcat ==
  ASSUME NEW r \in States, NEW l \in Seq(Bytes), NEW m \in Seq(Bytes)
  PROVE  Run(r, l \o m) = Run(Run(r, l), m)
BY RunIs, Zenon

LEMMA RunFew ==
  ASSUME NEW r \in States, NEW b \in Bytes
  PROVE  /\ Run(r, <<b>>) = Step(r, b)
         /\ \A c \in Bytes : Run(r, <<b, c>>) = Step(Step(r, b), c)
<1>1. <<>> \in Seq(Bytes) /\ <<b>> \in Seq(Bytes)
  OBVIOUS
<1>2. <<b>> = Append(<<>>, b) /\ \A c \in Bytes : <<b, c>> = Append(<<b>>, c)
  OBVIOUS
<1>3. Run(r, <<>>) = r
  BY RunIs
<1>4. \A l \in Seq(Bytes), c \in Bytes : Run(r, Append(l, c)) = Step(Run(r, l), c)
  BY RunIs
<1>5. Run(r, Append(<<>>, b)) = Step(r, b)
  BY <1>1, <1>3, <1>4
<1>6. ASSUME NEW c \in Bytes PROVE Run(r, <<b, c>>) = Step(Step(r, b), c)
  <2>1. Run(r, Append(<<b>>, c)) = Step(Run(r, <<b>>), c)
    BY <1>1, <1>4
  <2> QED
    BY <1>2, <1>5, <2>1
<1> QED
  BY <1>2, <1>5, <1>6

LEMMA RunHead ==
  ASSUME NEW r \in States, NEW l \in Seq(Bytes), l # <<>>
  PROVE  Head(l) \in Bytes /\ Tail(l) \in Seq(Bytes) /\ Run(r, l) = Run(Step(r, Head(l)), Tail(l))
<1>1. Head(l) \in Bytes /\ Tail(l) \in Seq(Bytes) /\ <<Head(l)>> \in Seq(Bytes)
  BY HeadTailProperties
<1>2. l = <<Head(l)>> \o Tail(l)
  OBVIOUS
<1>3. Run(r, <<Head(l)>> \o Tail(l)) = Run(Run(r, <<Head(l)>>), Tail(l))
  BY <1>1, RunConcat, Zenon
<1> QED
  BY <1>1, <1>2, <1>3, RunFew

-------------------------------------------------------------------------------
(* Where the escape characters of a frame end, the receiver awaits no escaped *)
(* byte, whatever it was doing before.                                        *)

Calm(r) == r.mode # "ESCAPE_CHAR"

LEMMA StepCalm ==
  ASSUME NEW r \in States, NEW b \in Bytes
  PROVE  /\ b # ESCAPE => Calm(Step(r, b))
         /\ r.mode # "PAYLOAD" => Calm(Step(r, b))
         /\ Calm(r) => Step(r, ESCAPE).mode # "PAYLOAD"
<1>1. \A m, k, c, e, p, h : Rec(m, k, c, e, p, h).mode = m
  BY RecIs
<1>2. \A h : Ended(r, h).mode \in {"UNKNOWN", "PACKET_END"}
  BY <1>1 DEF Ended
<1>3. Stored(r, b).mode = "PAYLOAD"
  BY <1>1 DEF Stored
<1>4. ESCAPE # BEGINNING /\ ESCAPE # END /\ r.mode \in Modes
  BY Consts, StateIs
<1>5. b # ESCAPE => Calm(Step(r, b))
  BY <1>1, <1>2, <1>3, <1>4 DEF Step, Calm
<1>6. r.mode # "PAYLOAD" => Calm(Step(r, b))
  BY <1>1, <1>2, <1>3, <1>4 DEF Step, Calm
<1>7. Calm(r) => Step(r, ESCAPE).mode # "PAYLOAD"
  BY <1>1, <1>4 DEF Step, Calm, Modes
<1> QED
  BY <1>5, <1>6, <1>7

LEMMA CalmUnit ==
  ASSUME NEW r \in States, Calm(r), NEW b \in Bytes
  PROVE  Calm(Run(r, Escaped(b)))
<1>1. CASE b \in Special
  <2>1. Escaped(b) = <<ESCAPE, b>> /\ ESCAPE \in Bytes
    BY <1>1, Consts DEF Escaped
  <2>2. Run(r, <<ESCAPE, b>>) = Step(Step(r, ESCAPE), b)
    BY <2>1, RunFew
  <2>3. Step(r, ESCAPE) \in States /\ Step(r, ESCAPE).mode # "PAYLOAD"
    BY <2>1, StepType, StepCalm
  <2> QED
    BY <2>1, <2>2, <2>3, StepCalm
<1>2. CASE b \notin Special
  <2>1. Escaped(b) = <<b>> /\ b # ESCAPE
    BY <1>2 DEF Escaped, Special
  <2> QED
    BY <2>1, RunFew, StepCalm
<1> QED
  BY <1>1, <1>2

LEMMA CalmSeq ==
  ASSUME NEW r \in States, Calm(r), NEW s \in Seq(Bytes)
  PROVE  Calm(Run(r, EscapedSeq(s)))
<1> DEFINE Pre(k) == SubSeq(s, 1, k)
           S == {k \in 0..Len(s) : Calm(Run(r, EscapedSeq(Pre(k))))}
<1>1. Len(s) \in Nat /\ Pre(0) = <<>> /\ Pre(Len(s)) = s
  OBVIOUS
<1>2. \A k \in 0..(Len(s) - 1) :
        /\ Pre(k) \in Seq(Bytes) /\ s[k + 1] \in Bytes
        /\ Pre(k + 1) = Append(Pre(k), s[k + 1])
  BY PrefixGrows
<1> HIDE DEF Pre
<1>3. 0 \in S
  <2>1. 0 \in 0..Len(s)
    BY <1>1
  <2> QED
    BY <1>1, <2>1, EscapedSeqIs, RunIs
<1>4. ASSUME NEW k \in 0..(Len(s) - 1), k \in S PROVE k + 1 \in S
  <2>1. EscapedSeq(Pre(k)) \in Seq(Bytes) /\ Escaped(s[k + 1]) \in Seq(Bytes)
    BY <1>2, EscapedSeqIs, EscapedType
  <2>2. EscapedSeq(Pre(k + 1)) = EscapedSeq(Pre(k)) \o Escaped(s[k + 1])
    BY <1>2, EscapedSeqIs
  <2>3. Run(r, EscapedSeq(Pre(k + 1))) = Run(Run(r, EscapedSeq(Pre(k))), Escaped(s[k + 1]))
    <3>1. Run(r, EscapedSeq(Pre(k)) \o Escaped(s[k + 1]))
            = Run(Run(r, EscapedSeq(Pre(k))), Escaped(s[k + 1]))
      BY <2>1, RunConcat, Zenon
    <3> QED
      BY <2>2, <3>1
  <2>4. Run(r, EscapedSeq(Pre(k))) \in States /\ Calm(Run(r, EscapedSeq(Pre(k))))
    BY <1>4, <2>1, RunIs
  <2>5. k + 1 \in 0..Len(s)
    BY <1>1
  <2> QED
    BY <1>2, <2>3, <2>4, <2>5, CalmUnit
<1> HIDE DEF S
<1>5. 0..Len(s) \subseteq S /\ Len(s) \in 0..Len(s)
  BY <1>1, <1>3, <1>4, UpTo
<1>6. Len(s) \in S
  BY <1>5
<1> QED
  BY <1>1, <1>6 DEF S

-------------------------------------------------------------------------------
(* Inside a frame that began when the receiver was calm. *)

Inside(ep, data, c) ==
  Rec("PAYLOAD", Len(data) + 1, c, ep, data, <<>>)

LEMMA InsideIs ==
  ASSUME NEW ep, NEW data, NEW c
  PROVE  /\ Inside(ep, data, c).mode = "PAYLOAD" /\ Inside(ep, data, c).n = Len(data) + 1
         /\ Inside(ep, data, c).sum = c /\ Inside(ep, data, c).ep = ep
         /\ Inside(ep, data, c).packet = data /\ Inside(ep, data, c).handed = <<>>
BY RecIs DEF Inside

LEMMA InsideType ==
  ASSUME NEW ep \in Bytes, NEW data \in Seq(Bytes), NEW c \in Bytes, Len(data) < MaxPacketLen
  PROVE  Inside(ep, data, c) \in States
<1>1. Len(data) \in Nat /\ MaxPacketLen \in Nat
  BY Consts
<1>2. Len(data) + 1 \in Nat /\ Len(data) + 1 <= MaxPacketLen /\ Len(data) = (Len(data) + 1) - 1
  BY <1>1
<1>3. <<>> \in Seq(Packets) /\ "PAYLOAD" \in Modes
  BY DEF Modes
<1> QED
  BY <1>2, <1>3, RecType DEF Inside

LEMMA InsideStep ==
  ASSUME NEW ep \in Bytes, NEW data \in Seq(Bytes), NEW c \in Bytes, NEW b \in Bytes,
         Len(data) + 1 < MaxPacketLen
  PROVE  /\ b \notin Special =>
              Step(Inside(ep, data, c), b) = Inside(ep, Append(data, b), (c + b) % Modulus)
         /\ Step(Step(Inside(ep, data, c), ESCAPE), b)
              = Inside(ep, Append(data, b), (c + (ESCAPE + b)) % Modulus)
<1> DEFINE i == Inside(ep, data, c)
<1>1. /\ Len(data) \in Nat /\ MaxPacketLen \in Nat /\ Len(data) + 1 # 0
      /\ ~(Len(data) + 1 >= MaxPacketLen) /\ Len(Append(data, b)) = Len(data) + 1
  BY Consts
<1>2. ESCAPE # BEGINNING /\ ESCAPE # END
  BY Consts
<1>3. /\ i.mode = "PAYLOAD" /\ i.n = Len(data) + 1 /\ i.sum = c /\ i.ep = ep
      /\ i.packet = data /\ i.handed = <<>>
  BY InsideIs
<1> HIDE DEF i
<1>4. ASSUME b \notin Special
      PROVE  Step(i, b) = Inside(ep, Append(data, b), (c + b) % Modulus)
  <2>1. b # BEGINNING /\ b # END /\ b # ESCAPE
    BY <1>4 DEF Special
  <2>2. Step(i, b) = Stored(i, b)
    BY <1>1, <1>3, <2>1 DEF Step
  <2> QED
    BY <1>1, <1>3, <2>2 DEF Stored, Added, Inside
<1>5. Step(Step(i, ESCAPE), b) = Inside(ep, Append(data, b), (c + (ESCAPE + b)) % Modulus)
  <2> DEFINE r == Rec("ESCAPE_CHAR", Len(data) + 1, (c + ESCAPE) % Modulus, ep, data, <<>>)
  <2>1. Step(i, ESCAPE) = r
    BY <1>1, <1>2, <1>3 DEF Step, Added
  <2>2. /\ r.mode = "ESCAPE_CHAR" /\ r.n = Len(data) + 1 /\ r.sum = (c + ESCAPE) % Modulus
        /\ r.ep = ep /\ r.packet = data /\ r.handed = <<>>
    BY RecIs
  <2> HIDE DEF r
  <2>3. Step(r, b) = Stored(r, b)
    BY <1>1, <2>2 DEF Step
  <2>4. Stored(r, b) = Inside(ep, Append(data, b), (((c + ESCAPE) % Modulus) + b) % Modulus)
    BY <1>1, <2>2 DEF Stored, Added, Inside
  <2>5. (((c + ESCAPE) % Modulus) + b) % Modulus = (c + (ESCAPE + b)) % Modulus
    <3>1. c \in Nat /\ ESCAPE \in Nat /\ b \in Nat
      BY Consts
    <3>2. c + ESCAPE \in Nat /\ (c + ESCAPE) + b = c + (ESCAPE + b)
      BY <3>1
    <3> QED
      BY <3>1, <3>2, ModAdd
  <2> QED
    BY <2>1, <2>3, <2>4, <2>5
<1> QED
  BY <1>4, <1>5 DEF i

LEMMA InsideUnit ==
  ASSUME NEW ep \in Bytes, NEW data \in Seq(Bytes), NEW x \in Nat, NEW b \in Bytes,
         Len(data) + 1 < MaxPacketLen
  PROVE  Run(Inside(ep, data, x % Modulus), Escaped(b))
           = Inside(ep, Append(data, b), (x + EscapedSum(b)) % Modulus)
<1> DEFINE c == x % Modulus
<1>1. c \in Bytes /\ Len(data) < MaxPacketLen
  <2>1. Len(data) \in Nat /\ MaxPacketLen \in Nat
    BY Consts
  <2> QED
    BY <2>1, ModType
<1>2. Inside(ep, data, c) \in States
  BY <1>1, InsideType
<1>3. EscapedSum(b) \in Nat /\ (c + EscapedSum(b)) % Modulus = (x + EscapedSum(b)) % Modulus
  BY EscapedType, ModAdd
<1> HIDE DEF c
<1>4. CASE b \in Special
  <2>1. Escaped(b) = <<ESCAPE, b>> /\ EscapedSum(b) = ESCAPE + b /\ ESCAPE \in Bytes
    BY <1>4, Consts DEF Escaped, EscapedSum
  <2>2. Run(Inside(ep, data, c), <<ESCAPE, b>>) = Step(Step(Inside(ep, data, c), ESCAPE), b)
    BY <1>2, <2>1, RunFew
  <2>3. Step(Step(Inside(ep, data, c), ESCAPE), b)
          = Inside(ep, Append(data, b), (c + (ESCAPE + b)) % Modulus)
    BY <1>1, InsideStep
  <2> QED
    BY <1>3, <2>1, <2>2, <2>3 DEF c
<1>5. CASE b \notin Special
  <2>1. Escaped(b) = <<b>> /\ EscapedSum(b) = b
    BY <1>5 DEF Escaped, EscapedSum
  <2>2. Run(Inside(ep, data, c), <<b>>) = Step(Inside(ep, data, c), b)
    BY <1>2, RunFew
  <2>3. Step(Inside(ep, data, c), b) = Inside(ep, Append(data, b), (c + b) % Modulus)
    BY <1>1, <1>5, InsideStep
  <2> QED
    BY <1>3, <2>1, <2>2, <2>3 DEF c
<1> QED
  BY <1>4, <1>5

LEMMA InsideSeq ==
  ASSUME NEW ep \in Bytes, NEW data \in Seq(Bytes), NEW x \in Nat, NEW s \in Seq(Bytes),
         Len(data) + Len(s) < MaxPacketLen
  PROVE  Run(Inside(ep, data, x % Modulus), EscapedSeq(s))
           = Inside(ep, data \o s, (x + EscapedSeqSum(s)) % Modulus)
<1> DEFINE Pre(k) == SubSeq(s, 1, k)
           r == Inside(ep, data, x % Modulus)
           Good(k) == Run(r, EscapedSeq(Pre(k)))
                        = Inside(ep, data \o Pre(k), (x + EscapedSeqSum(Pre(k))) % Modulus)
           S == {k \in 0..Len(s) : Good(k)}
<1>1. Len(s) \in Nat /\ Len(data) \in Nat /\ Pre(0) = <<>> /\ Pre(Len(s)) = s /\ MaxPacketLen \in Nat
  BY Consts
<1>2. \A k \in 0..(Len(s) - 1) :
        /\ Pre(k) \in Seq(Bytes) /\ Len(Pre(k)) = k /\ s[k + 1] \in Bytes
        /\ Pre(k + 1) = Append(Pre(k), s[k + 1])
  BY PrefixGrows
<1>3. r \in States
  BY <1>1, ModType, InsideType
<1> HIDE DEF Pre
<1>4. 0 \in S
  <2>1. 0 \in 0..Len(s) /\ data \o <<>> = data /\ x + 0 = x
    BY <1>1
  <2>2. EscapedSeq(Pre(0)) = <<>> /\ EscapedSeqSum(Pre(0)) = 0
    BY <1>1, EscapedSeqIs
  <2>3. Run(r, <<>>) = r
    BY <1>3, RunIs
  <2> QED
    BY <1>1, <2>1, <2>2, <2>3
<1>5. ASSUME NEW k \in 0..(Len(s) - 1), k \in S PROVE k + 1 \in S
  <2>1. PICK p \in Seq(Bytes), b \in Bytes :
          Len(p) = k /\ p = Pre(k) /\ Pre(k + 1) = Append(p, b)
    BY <1>2
  <2>2. /\ EscapedSeq(p) \in Seq(Bytes) /\ Escaped(b) \in Seq(Bytes)
        /\ EscapedSeqSum(p) \in Nat /\ EscapedSum(b) \in Nat
    BY <2>1, EscapedSeqIs, EscapedType
  <2>3. /\ EscapedSeq(Pre(k + 1)) = EscapedSeq(p) \o Escaped(b)
        /\ EscapedSeqSum(Pre(k + 1)) = EscapedSeqSum(p) + EscapedSum(b)
    BY <2>1, EscapedSeqIs
  <2>4. Run(r, EscapedSeq(Pre(k + 1))) = Run(Run(r, EscapedSeq(p)), Escaped(b))
    <3>1. Run(r, EscapedSeq(p) \o Escaped(b)) = Run(Run(r, EscapedSeq(p)), Escaped(b))
      BY <1>3, <2>2, RunConcat, Zenon
    <3> QED
      BY <2>3, <3>1
  <2>5. Run(r, EscapedSeq(p)) = Inside(ep, data \o p, (x + EscapedSeqSum(p)) % Modulus)
    BY <1>5, <2>1
  <2>6. data \o p \in Seq(Bytes) /\ Len(data \o p) + 1 < MaxPacketLen /\ x + EscapedSeqSum(p) \in Nat
    BY <1>1, <2>1, <2>2
  <2>7. Run(r, EscapedSeq(Pre(k + 1)))
          = Inside(ep, Append(data \o p, b), ((x + EscapedSeqSum(p)) + EscapedSum(b)) % Modulus)
    <3>1. Run(Inside(ep, data \o p, (x + EscapedSeqSum(p)) % Modulus), Escaped(b))
            = Inside(ep, Append(data \o p, b), ((x + EscapedSeqSum(p)) + EscapedSum(b)) % Modulus)
      BY <2>6, InsideUnit
    <3> QED
      BY <2>4, <2>5, <3>1
  <2>8. /\ Append(data \o p, b) = data \o Append(p, b)
        /\ (x + EscapedSeqSum(p)) + EscapedSum(b) = x + EscapedSeqSum(Pre(k + 1))
    <3>1. Append(data \o p, b) = data \o Append(p, b)
      BY AppendConcat
    <3>2. (x + EscapedSeqSum(p)) + EscapedSum(b) = x + (EscapedSeqSum(p) + EscapedSum(b))
      BY <2>2
    <3> QED
      BY <2>3, <3>1, <3>2
  <2>9. k + 1 \in 0..Len(s)
    BY <1>1
  <2> HIDE DEF r
  <2> QED
    BY <2>1, <2>7, <2>8, <2>9
<1> HIDE DEF S
<1>6. 0..Len(s) \subseteq S /\ Len(s) \in 0..Len(s)
  <2>1. Len(s) \in 0..Len(s)
    BY <1>1
  <2>2. 0..Len(s) \subseteq S
    BY <1>1, <1>4, <1>5, UpTo, Zenon
  <2> QED
    BY <2>1, <2>2
<1>7. Len(s) \in S
  BY <1>6
<1> QED
  BY <1>1, <1>7 DEF S

LEMMA Beginning ==
  ASSUME NEW r \in States, Calm(r), r.handed = <<>>, NEW ep \in Bytes
  PROVE  Run(r, <<BEGINNING>> \o Escaped(ep)) = Inside(ep, <<>>, EscapedSum(ep) % Modulus)
<1> DEFINE q == Rec("PAYLOAD", 0, 0, r.ep, r.packet, r.handed)
<1>1. Step(r, BEGINNING) = q /\ q \in States
  <2>1. Step(r, BEGINNING) = q
    BY DEF Step, Calm
  <2> QED
    BY <2>1, StepType, Consts
<1>2. q.mode = "PAYLOAD" /\ q.n = 0 /\ q.sum = 0 /\ q.handed = <<>>
  BY RecIs
<1> HIDE DEF q
<1>3. Run(r, <<BEGINNING>> \o Escaped(ep)) = Run(q, Escaped(ep))
  <2>1. <<BEGINNING>> \in Seq(Bytes) /\ Escaped(ep) \in Seq(Bytes)
    BY Consts, EscapedType
  <2>2. Run(r, <<BEGINNING>>) = q
    BY <1>1, RunFew, Consts
  <2> QED
    BY <2>1, <2>2, RunIs
<1>4. /\ MaxPacketLen \in Nat /\ ~(0 >= MaxPacketLen) /\ ESCAPE # BEGINNING /\ ESCAPE # END
      /\ ESCAPE \in Bytes /\ ep \in Nat /\ ESCAPE \in Nat /\ Len(<<>>) + 1 = 1
  BY Consts
<1>5. CASE ep \in Special
  <2> DEFINE e == Step(q, ESCAPE)
  <2>1. e \in States /\ e.mode = "ESCAPE_CHAR" /\ e.n = 0 /\ e.sum = ESCAPE % Modulus /\ e.handed = <<>>
    <3>1. e = Rec("ESCAPE_CHAR", q.n, Added(q, ESCAPE), q.ep, q.packet, q.handed)
      BY <1>2, <1>4 DEF Step
    <3>2. Added(q, ESCAPE) = ESCAPE % Modulus
      BY <1>2, <1>4 DEF Added
    <3> QED
      BY <1>1, <1>2, <1>4, <3>1, <3>2, StepType, RecIs
  <2>2. Run(q, <<ESCAPE, ep>>) = Step(e, ep)
    BY <1>1, <1>4, RunFew
  <2> HIDE DEF e
  <2>3. Step(e, ep) = Stored(e, ep)
    BY <1>4, <2>1 DEF Step
  <2>4. Stored(e, ep) = Inside(ep, <<>>, ((ESCAPE % Modulus) + ep) % Modulus)
    BY <1>4, <2>1 DEF Stored, Added, Inside
  <2>5. Escaped(ep) = <<ESCAPE, ep>> /\ EscapedSum(ep) = ESCAPE + ep
    BY <1>5 DEF Escaped, EscapedSum
  <2>6. ((ESCAPE % Modulus) + ep) % Modulus = (ESCAPE + ep) % Modulus
    BY <1>4, ModAdd
  <2> QED
    BY <1>3, <2>2, <2>3, <2>4, <2>5, <2>6
<1>6. CASE ep \notin Special
  <2>1. Escaped(ep) = <<ep>> /\ EscapedSum(ep) = ep /\ ep # BEGINNING /\ ep # END /\ ep # ESCAPE
    BY <1>6 DEF Escaped, EscapedSum, Special
  <2>2. Step(q, ep) = Stored(q, ep)
    BY <1>2, <1>4, <2>1 DEF Step
  <2>3. Added(q, ep) = ep % Modulus
    BY <1>2, <1>4 DEF Added
  <2>4. Stored(q, ep) = Inside(ep, <<>>, ep % Modulus)
    BY <1>2, <1>4, <2>3 DEF Stored, Inside
  <2>5. Run(q, <<ep>>) = Step(q, ep)
    BY <1>1, RunFew
  <2> QED
    BY <1>3, <2>1, <2>2, <2>4, <2>5
<1> QED
  BY <1>5, <1>6

LEMMA ChecksumType ==
  ASSUME NEW x \in Nat
  PROVE  ChecksumBytes(x) \in Seq(Bytes) /\ ChecksumBytes(x) \o <<END>> \in Seq(Bytes)
<1>1. Negative(x) \in Bytes /\ Negative(x + ESCAPE) \in Bytes /\ ESCAPE \in Bytes /\ END \in Bytes
  <2>1. x + ESCAPE \in Nat
    BY Consts
  <2> QED
    BY <2>1, NegativeSum, Consts
<1>2. ChecksumBytes(x) \in Seq(Bytes)
  BY <1>1 DEF ChecksumBytes
<1> QED
  BY <1>1, <1>2

LEMMA Ending ==
  ASSUME NEW ep \in Bytes, NEW data \in Seq(Bytes), NEW x \in Nat, Len(data) + 2 < MaxPacketLen
  PROVE  Run(Inside(ep, data, x % Modulus), ChecksumBytes(x) \o <<END>>).handed
           = <<[ep |-> ep, data |-> data]>>
<1> DEFINE c == x % Modulus
           r == Inside(ep, data, c)
<1>1. /\ c \in Bytes /\ Len(data) \in Nat /\ Len(data) < MaxPacketLen /\ Len(data) + 1 < MaxPacketLen
      /\ MaxPacketLen \in Nat
  <2>1. Len(data) \in Nat /\ MaxPacketLen \in Nat
    BY Consts
  <2> QED
    BY <2>1, ModType
<1>2. r \in States
  BY <1>1, InsideType
<1>3. \E b \in Bytes : Run(r, ChecksumBytes(x)) = Inside(ep, Append(data, b), 0)
  <2>1. CASE Negative(x) \in Special
    <3> DEFINE b == Negative(x + ESCAPE)
    <3>1. ESCAPE \in Nat /\ ESCAPE \in Bytes /\ x + ESCAPE \in Nat
      BY Consts
    <3>2. b \in Bytes /\ (((x + ESCAPE) % Modulus) + b) % Modulus = 0
      BY <3>1, NegativeSum
    <3>3. ChecksumBytes(x) = <<ESCAPE, b>>
      BY <2>1 DEF ChecksumBytes
    <3> HIDE DEF b
    <3>4. Run(r, <<ESCAPE, b>>) = Step(Step(r, ESCAPE), b)
      BY <1>2, <3>1, <3>2, RunFew
    <3>5. Step(Step(r, ESCAPE), b) = Inside(ep, Append(data, b), (c + (ESCAPE + b)) % Modulus)
      BY <1>1, <3>2, InsideStep
    <3>6. (c + (ESCAPE + b)) % Modulus = 0
      <4>1. b \in Nat /\ c \in Nat
        BY <1>1, <3>2, Consts
      <4>2. (c + (ESCAPE + b)) % Modulus = (x + (ESCAPE + b)) % Modulus
        BY <3>1, <4>1, ModAdd
      <4>3. x + (ESCAPE + b) = (x + ESCAPE) + b
        BY <3>1, <4>1
      <4>4. (((x + ESCAPE) % Modulus) + b) % Modulus = ((x + ESCAPE) + b) % Modulus
        BY <3>1, <4>1, ModAdd
      <4> HIDE DEF c
      <4> QED
        BY <3>2, <4>2, <4>3, <4>4
    <3> QED
      BY <3>2, <3>3, <3>4, <3>5, <3>6
  <2>2. CASE Negative(x) \notin Special
    <3>1. Negative(x) \in Bytes /\ (c + Negative(x)) % Modulus = 0
      BY NegativeSum
    <3>2. ChecksumBytes(x) = <<Negative(x)>>
      BY <2>2 DEF ChecksumBytes
    <3>3. Run(r, <<Negative(x)>>) = Step(r, Negative(x))
      BY <1>2, <3>1, RunFew
    <3>4. Step(r, Negative(x)) = Inside(ep, Append(data, Negative(x)), (c + Negative(x)) % Modulus)
      BY <1>1, <2>2, <3>1, InsideStep
    <3> QED
      BY <3>1, <3>2, <3>3, <3>4
  <2> QED
    BY <2>1, <2>2
<1>4. PICK b \in Bytes : Run(r, ChecksumBytes(x)) = Inside(ep, Append(data, b), 0)
  BY <1>3
<1> DEFINE q == Inside(ep, Append(data, b), 0)
<1>5. Append(data, b) \in Seq(Bytes) /\ Len(Append(data, b)) = Len(data) + 1
      /\ SubSeq(Append(data, b), 1, Len(data)) = data
  OBVIOUS
<1>6. q \in States
  BY <1>1, <1>5, InsideType, Consts
<1>7. /\ q.mode = "PAYLOAD" /\ q.n = Len(data) + 2 /\ q.sum = 0 /\ q.ep = ep
      /\ q.packet = Append(data, b) /\ q.handed = <<>>
  <2>1. /\ q.mode = "PAYLOAD" /\ q.n = Len(Append(data, b)) + 1 /\ q.sum = 0 /\ q.ep = ep
        /\ q.packet = Append(data, b) /\ q.handed = <<>>
    <3>1. PICK u, z : u = Append(data, b) /\ z = 0
      OBVIOUS
    <3>2. /\ Inside(ep, u, z).mode = "PAYLOAD" /\ Inside(ep, u, z).n = Len(u) + 1
          /\ Inside(ep, u, z).sum = z /\ Inside(ep, u, z).ep = ep
          /\ Inside(ep, u, z).packet = u /\ Inside(ep, u, z).handed = <<>>
      BY InsideIs
    <3> QED
      BY <3>1, <3>2
  <2>2. Len(Append(data, b)) + 1 = Len(data) + 2
    BY <1>1, <1>5
  <2> QED
    BY <2>1, <2>2
<1> HIDE DEF r, q
<1>8. Run(r, ChecksumBytes(x) \o <<END>>) = Step(q, END)
  <2>1. ChecksumBytes(x) \in Seq(Bytes) /\ <<END>> \in Seq(Bytes) /\ END \in Bytes
    BY ChecksumType, Consts
  <2>2. Run(r, ChecksumBytes(x)) = q
    BY <1>4 DEF q
  <2>3. Run(q, <<END>>) = Step(q, END)
    BY <1>6, <2>1, RunFew
  <2> QED
    BY <1>2, <2>1, <2>2, <2>3, RunConcat, Zenon
<1>9. Received(q) = [ep |-> ep, data |-> data]
  <2>1. q.n - 2 = Len(data)
    BY <1>1, <1>7
  <2> QED
    BY <1>5, <1>7, <2>1 DEF Received
<1>10. Step(q, END) = Ended(q, Append(q.handed, Received(q)))
  <2>1. END # BEGINNING /\ ~(q.n >= MaxPacketLen) /\ q.n >= 2
    BY <1>1, <1>7, Consts
  <2> QED
    BY <1>7, <2>1 DEF Step
<1>11. Step(q, END).handed = Append(<<>>, [ep |-> ep, data |-> data])
  BY <1>7, <1>9, <1>10, RecIs DEF Ended
<1> QED
  BY <1>8, <1>11 DEF r

-------------------------------------------------------------------------------
(* The steps of the receiver are steps of that function. *)

LEMMA Fields ==
  /\ Receiver.mode = mode /\ Receiver.n = n /\ Receiver.sum = sum /\ Receiver.ep = endpoint
  /\ Receiver.packet = packet /\ Receiver.handed = handed
  /\ Receiver' = Rec(mode', n', sum', endpoint', packet', handed')
BY RecIs DEF Receiver

LEMMA ReceiveIsStep ==
  ASSUME Receiver \in States, NEW b \in Bytes, ReceiveByte(b)
  PROVE  Receiver' = Step(Receiver, b)
<1> DEFINE r == Receiver
<1>1. /\ r.mode = mode /\ r.n = n /\ r.sum = sum /\ r.ep = endpoint
      /\ r.packet = packet /\ r.handed = handed
      /\ mode \in Modes /\ n \in Nat /\ MaxPacketLen \in Nat
      /\ BEGINNING # END /\ END # ESCAPE /\ BEGINNING # ESCAPE
      /\ Added(r, b) = (sum + b) % Modulus
  BY Fields, StateIs, Consts DEF Added
<1>2. Receiver' = Rec(mode', n', sum', endpoint', packet', handed')
  BY Fields
<1> HIDE DEF r
<1>3. Begin(b) \/ Overlong(b) \/ Content(b) \/ Skip(b) \/ Finish(b)
  BY DEF ReceiveByte
<1>4. CASE Begin(b)
  <2>1. Step(r, b) = Rec("PAYLOAD", 0, 0, endpoint, packet, handed)
    BY <1>1, <1>4 DEF Begin, Begins, Step
  <2> QED
    BY <1>2, <1>4, <2>1 DEF Begin, r
<1>5. CASE Overlong(b)
  <2>1. Step(r, b) = Rec("UNKNOWN", n, sum, endpoint, packet, handed)
    BY <1>1, <1>5 DEF Overlong, Begins, TooLong, Step
  <2> QED
    BY <1>2, <1>5, <2>1 DEF Overlong, r
<1>6. CASE Content(b)
  <2>1. /\ ~(r.mode # "ESCAPE_CHAR" /\ b = BEGINNING)
        /\ ~(r.mode # "ESCAPE_CHAR" /\ b = END)
        /\ ~(r.n >= MaxPacketLen)
        /\ sum' = Added(r, b) /\ handed' = handed
    BY <1>1, <1>6 DEF Content, Begins, Ends, TooLong
  <2>2. CASE /\ mode = "PAYLOAD" /\ b = ESCAPE
             /\ mode' = "ESCAPE_CHAR"
             /\ UNCHANGED <<n, endpoint, packet>>
    <3>1. Step(r, b) = Rec("ESCAPE_CHAR", n, Added(r, b), endpoint, packet, handed)
      BY <1>1, <2>1, <2>2 DEF Step
    <3> QED
      BY <1>2, <2>1, <2>2, <3>1 DEF r
  <2>3. CASE /\ mode = "ESCAPE_CHAR" \/ (mode = "PAYLOAD" /\ b # ESCAPE)
             /\ mode' = "PAYLOAD"
             /\ Store(b)
    <3>1. Step(r, b) = Stored(r, b)
      BY <1>1, <2>1, <2>3 DEF Step
    <3>2. CASE n = 0
      <4>1. n' = 1 /\ endpoint' = b /\ packet' = <<>>
        BY <2>3, <3>2 DEF Store
      <4>2. Stored(r, b) = Rec("PAYLOAD", 1, Added(r, b), b, <<>>, handed)
        BY <1>1, <3>2 DEF Stored
      <4> QED
        BY <1>2, <2>1, <2>3, <3>1, <4>1, <4>2 DEF r
    <3>3. CASE n # 0
      <4>1. n' = n + 1 /\ endpoint' = endpoint /\ packet' = Append(packet, b)
        BY <2>3, <3>3 DEF Store
      <4>2. Stored(r, b) = Rec("PAYLOAD", n + 1, Added(r, b), endpoint, Append(packet, b), handed)
        BY <1>1, <3>3 DEF Stored
      <4> QED
        BY <1>2, <2>1, <2>3, <3>1, <4>1, <4>2 DEF r
    <3> QED
      BY <3>2, <3>3
  <2> QED
    BY <1>6, <2>2, <2>3 DEF Content
<1>7. CASE Skip(b)
  <2>1. /\ ~(r.mode # "ESCAPE_CHAR" /\ b = BEGINNING)
        /\ ~(r.mode # "ESCAPE_CHAR" /\ b = END)
        /\ ~(r.n >= MaxPacketLen)
        /\ mode' = mode /\ endpoint' = endpoint /\ handed' = handed
    BY <1>1, <1>7 DEF Skip, Begins, Ends, TooLong
  <2>2. CASE mode = "UNKNOWN" /\ sum' = (sum + b) % Modulus /\ UNCHANGED <<n, packet>>
    <3>1. Step(r, b) = Rec(mode, n, Added(r, b), endpoint, packet, handed)
      BY <1>1, <2>1, <2>2 DEF Step
    <3> QED
      BY <1>1, <1>2, <2>1, <2>2, <3>1 DEF r
  <2>3. CASE mode = "PACKET_END" /\ sum' = 0 /\ n' = 0 /\ packet' = <<>>
    <3>1. Step(r, b) = Rec(mode, 0, 0, endpoint, <<>>, handed)
      BY <1>1, <2>1, <2>3 DEF Step
    <3> QED
      BY <1>2, <2>1, <2>3, <3>1 DEF r
  <2> QED
    BY <1>7, <2>2, <2>3 DEF Skip
<1>8. CASE Finish(b)
  <2>1. /\ r.mode # "ESCAPE_CHAR" /\ b = END /\ ~(r.n >= MaxPacketLen)
        /\ ~(r.mode # "ESCAPE_CHAR" /\ b = BEGINNING)
        /\ sum' = 0 /\ n' = 0 /\ packet' = <<>> /\ endpoint' = endpoint
    BY <1>1, <1>8 DEF Finish, Ends, TooLong
  <2>2. \A h : Ended(r, h) = Rec(IF sum = 0 THEN "UNKNOWN" ELSE "PACKET_END", 0, 0, endpoint, <<>>, h)
    BY <1>1 DEF Ended
  <2>3. CASE sum = 0 /\ n >= 2
    <3>1. mode' = "UNKNOWN" /\ handed' = Append(handed, Received(r))
      BY <1>1, <1>8, <2>3 DEF Finish, Deliver, Received
    <3>2. Step(r, b) = Ended(r, Append(handed, Received(r)))
      BY <1>1, <2>1, <2>3 DEF Step
    <3> QED
      BY <1>2, <2>1, <2>2, <2>3, <3>1, <3>2 DEF r
  <2>4. CASE ~(sum = 0 /\ n >= 2)
    <3>1. handed' = handed /\ mode' = IF sum = 0 THEN "UNKNOWN" ELSE "PACKET_END"
      BY <1>8, <2>4 DEF Finish
    <3>2. Step(r, b) = Ended(r, handed)
      BY <1>1, <2>1, <2>4 DEF Step
    <3> QED
      BY <1>2, <2>1, <2>2, <3>1, <3>2 DEF r
  <2> QED
    BY <2>3, <2>4
<1> QED
  BY <1>3, <1>4, <1>5, <1>6, <1>7, <1>8 DEF r

-------------------------------------------------------------------------------
(* The invariant: what the receiver makes of the line. *)

Frames == [ep : Bytes, data : Seq(Bytes)]

TypeInv ==
  /\ Receiver \in States
  /\ line \in Seq(Bytes) /\ isSending \in BOOLEAN /\ checksum \in Bytes
  /\ frame \in Frames /\ Len(frame.data) <= MaxPayload
  /\ intact \in BOOLEAN /\ settled \in BOOLEAN /\ faults \in 0..MaxFaults

PoolInv ==
  /\ hasBuffer \in BOOLEAN /\ free \in Nat /\ waiting \in Nat
  /\ free + waiting + (IF hasBuffer THEN 1 ELSE 0) <= Buffers
  /\ BufferForFrame

(* Once it has received what is on the line, it awaits no escaped byte; is    *)
(* inside the frame that is being sent, with all of its bytes and their sum;  *)
(* and has handed on the frame that has been sent.                            *)
CalmInv == intact => Calm(Run(Receiver, line))
InsideInv ==
  intact /\ settled /\ isSending /\ Len(frame.data) < MaxPacketLen
    => Run(Receiver, line) = Inside(frame.ep, frame.data, checksum)
DoneInv ==
  intact /\ settled /\ ~isSending /\ FrameLen < MaxPacketLen
    => Run(Receiver, line).handed = <<frame>>

LineInv == CalmInv /\ InsideInv /\ DoneInv

Inv == TypeInv /\ PoolInv /\ LineInv

LEMMA ReceiverSame ==
  ASSUME UNCHANGED receiver
  PROVE  /\ UNCHANGED <<mode, n, sum, endpoint, packet, hasBuffer, free, waiting>>
         /\ UNCHANGED handed => Receiver' = Receiver
         /\ Receiver' = Rec(mode, n, sum, endpoint, packet, handed')
BY DEF receiver, state, pool, Receiver

LEMMA InitInv == Init => Inv
<1> SUFFICES ASSUME Init PROVE Inv
  OBVIOUS
<1>1. <<>> \in Seq(Bytes) /\ <<>> \in Seq(Packets) /\ Len(<<>>) = 0
      /\ MaxPacketLen \in Nat /\ MaxPacketLen > 0 /\ 0 \in 0..MaxPacketLen /\ ~(0 > 0)
      /\ 0 \in Bytes /\ MaxPayload \in Nat /\ MaxFaults \in Nat /\ Buffers \in Nat /\ Buffers > 0
  BY Consts
<1>2. Receiver \in States
  <2>1. Rec("UNKNOWN", 0, 0, 0, <<>>, <<>>) \in States
    <3>1. "UNKNOWN" \in Modes /\ 0 \in Nat /\ 0 <= MaxPacketLen
      BY <1>1 DEF Modes
    <3> QED
      BY <1>1, <3>1, RecType
  <2> QED
    BY <2>1 DEF Init, Receiver
<1>3. TypeInv
  <2>1. frame = [ep |-> 0, data |-> <<>>]
    BY DEF Init
  <2>2. frame \in Frames /\ frame.data = <<>>
    BY <1>1, <2>1 DEF Frames
  <2>3. Len(frame.data) <= MaxPayload
    BY <1>1, <2>2
  <2>4. /\ line = <<>> /\ isSending = FALSE /\ checksum = 0 /\ intact = FALSE /\ settled = FALSE
        /\ faults = 0 /\ 0 \in 0..MaxFaults
    BY <1>1 DEF Init
  <2> QED
    BY <1>1, <1>2, <2>2, <2>3, <2>4 DEF TypeInv
<1>4. PoolInv
  BY <1>1 DEF Init, PoolInv, BufferForFrame
<1>5. LineInv
  BY DEF Init, LineInv, CalmInv, InsideInv, DoneInv
<1> QED
  BY <1>3, <1>4, <1>5 DEF Inv

(* What a byte makes of the receiver has its type, with or without a buffer. *)
LEMMA ReceivedType ==
  ASSUME Receiver \in States, NEW b \in Bytes, ReceiveByte(b) \/ Ignore
  PROVE  Receiver' \in States
<1>1. CASE ReceiveByte(b)
  BY <1>1, ReceiveIsStep, StepType
<1>2. CASE Ignore
  <2>1. Receiver' = Rec("UNKNOWN", 0, 0, endpoint, packet, handed)
    BY <1>2, Fields DEF Ignore
  <2>2. 0 \in Bytes /\ 0 \in Nat /\ 0 <= MaxPacketLen /\ ~(0 > 0) /\ "UNKNOWN" \in Modes
    BY Consts DEF Modes
  <2>3. /\ endpoint \in Bytes /\ packet \in Seq(Bytes) /\ Len(packet) < MaxPacketLen
        /\ handed \in Seq(Packets)
    BY Fields, StateIs
  <2> QED
    BY <2>1, <2>2, <2>3, RecType
<1> QED
  BY <1>1, <1>2

(* Sending: whatever was received, a frame that begins finds the receiver at   *)
(* the same place, without packets handed on.                                  *)
LEMMA FrameBegins ==
  ASSUME TypeInv, CalmInv, NEW ep \in Bytes, NEW data \in Seq(Bytes), NewFrame(ep, data),
         UNCHANGED receiver
  PROVE  /\ Receiver' \in States /\ Receiver'.handed = <<>>
         /\ settled' => Calm(Receiver')
         /\ frame' = [ep |-> ep, data |-> data] /\ frame' \in Frames
         /\ frame'.ep = ep /\ frame'.data = data
         /\ line = <<>> /\ intact' = TRUE /\ settled' \in BOOLEAN /\ faults' = faults
<1>1. /\ line = <<>> /\ frame' = [ep |-> ep, data |-> data] /\ intact' = TRUE
      /\ settled' = (intact \/ mode # "ESCAPE_CHAR") /\ handed' = <<>> /\ faults' = faults
  BY DEF NewFrame
<1>2. Receiver' = Rec(mode, n, sum, endpoint, packet, <<>>)
  BY <1>1, ReceiverSame
<1>3. /\ mode \in Modes /\ n \in Nat /\ n <= MaxPacketLen /\ sum \in Bytes /\ endpoint \in Bytes
      /\ packet \in Seq(Bytes) /\ Len(packet) < MaxPacketLen /\ (n > 0 => Len(packet) = n - 1)
  BY Fields, StateIs DEF TypeInv
<1>4. <<>> \in Seq(Packets)
  OBVIOUS
<1>5. Receiver' \in States /\ Receiver'.mode = mode /\ Receiver'.handed = <<>>
  <2>1. PICK h : h = <<>> /\ h \in Seq(Packets)
    BY <1>4
  <2>2. Rec(mode, n, sum, endpoint, packet, h) \in States
    BY <1>3, <2>1, RecType
  <2>3. /\ Rec(mode, n, sum, endpoint, packet, h).mode = mode
        /\ Rec(mode, n, sum, endpoint, packet, h).handed = h
    BY RecIs
  <2> QED
    BY <1>2, <2>1, <2>2, <2>3
<1>6. settled' => Calm(Receiver')
  <2>1. Run(Receiver, line) = Receiver
    BY <1>1, RunIs DEF TypeInv
  <2>2. intact => Calm(Receiver)
    BY <2>1 DEF CalmInv
  <2>3. Receiver.mode = mode
    BY Fields DEF TypeInv
  <2> QED
    BY <1>1, <1>5, <2>2, <2>3 DEF Calm
<1>7. frame' \in Frames /\ frame'.ep = ep /\ frame'.data = data
  BY <1>1 DEF Frames
<1> QED
  BY <1>1, <1>5, <1>6, <1>7 DEF TypeInv

LEMMA BeginningCalm ==
  ASSUME NEW r \in States, NEW ep \in Bytes
  PROVE  LET l == <<BEGINNING>> \o Escaped(ep)
         IN  l \in Seq(Bytes) /\ Run(r, l) \in States /\ Calm(Run(r, l))
<1>1. <<BEGINNING>> \in Seq(Bytes) /\ Escaped(ep) \in Seq(Bytes)
  BY Consts, EscapedType
<1>2. Run(r, <<BEGINNING>>) \in States /\ Calm(Run(r, <<BEGINNING>>))
  <2>1. Run(r, <<BEGINNING>>) = Step(r, BEGINNING)
    BY RunFew, Consts
  <2> QED
    BY <2>1, StepType, StepCalm, Consts
<1>3. Run(r, <<BEGINNING>> \o Escaped(ep)) = Run(Run(r, <<BEGINNING>>), Escaped(ep))
  BY <1>1, RunConcat, Zenon
<1>4. Calm(Run(Run(r, <<BEGINNING>>), Escaped(ep)))
  BY <1>2, CalmUnit, Zenon
<1>5. <<BEGINNING>> \o Escaped(ep) \in Seq(Bytes)
  BY <1>1
<1>6. Run(r, <<BEGINNING>> \o Escaped(ep)) \in States
  BY <1>5, RunIs
<1> QED
  BY <1>3, <1>4, <1>5, <1>6

LEMMA EndingCalm ==
  ASSUME NEW r \in States, NEW x \in Nat
  PROVE  Calm(Run(r, ChecksumBytes(x) \o <<END>>))
<1>1. ChecksumBytes(x) \in Seq(Bytes) /\ <<END>> \in Seq(Bytes) /\ END \in Bytes /\ END # ESCAPE
  BY ChecksumType, Consts
<1>2. Run(r, ChecksumBytes(x)) \in States
  BY <1>1, RunIs
<1>3. Run(r, ChecksumBytes(x) \o <<END>>) = Run(Run(r, ChecksumBytes(x)), <<END>>)
  BY <1>1, RunConcat, Zenon
<1>4. Run(Run(r, ChecksumBytes(x)), <<END>>) = Step(Run(r, ChecksumBytes(x)), END)
  BY <1>1, <1>2, RunFew, Zenon
<1>5. Calm(Step(Run(r, ChecksumBytes(x)), END))
  BY <1>1, <1>2, StepCalm, Zenon
<1> QED
  BY <1>3, <1>4, <1>5

LEMMA SendBeginning ==
  ASSUME TypeInv, LineInv, NEW ep \in Endpoints, BeginTransmittingFrame(ep)
  PROVE  TypeInv' /\ LineInv' /\ pool' = pool /\ state' = state
<1> DEFINE l == <<BEGINNING>> \o Escaped(ep)
<1>1. /\ NewFrame(ep, <<>>) /\ UNCHANGED receiver /\ isSending' = TRUE /\ line' = l
      /\ checksum' = EscapedSum(ep) % Modulus /\ pool' = pool /\ state' = state
  BY DEF BeginTransmittingFrame, receiver
<1>2. ep \in Bytes /\ <<>> \in Seq(Bytes) /\ EscapedSum(ep) % Modulus \in Bytes
      /\ MaxPayload \in Nat /\ Len(<<>>) <= MaxPayload
  <2>1. ep \in Bytes
    BY Consts
  <2>2. EscapedSum(ep) % Modulus \in Bytes
    BY <2>1, EscapedType, ModType
  <2>3. MaxPayload \in Nat /\ <<>> \in Seq(Bytes) /\ Len(<<>>) = 0
    BY Consts
  <2> QED
    BY <2>1, <2>2, <2>3
<1>3. /\ Receiver' \in States /\ Receiver'.handed = <<>>
      /\ settled' => Calm(Receiver')
      /\ frame' \in Frames /\ frame'.ep = ep /\ frame'.data = <<>>
      /\ intact' = TRUE /\ settled' \in BOOLEAN /\ faults' = faults
  BY <1>1, <1>2, FrameBegins DEF LineInv
<1>4. l \in Seq(Bytes) /\ Calm(Run(Receiver', l))
  BY <1>2, <1>3, BeginningCalm
<1>5. settled' => Run(Receiver', l) = Inside(ep, <<>>, EscapedSum(ep) % Modulus)
  BY <1>2, <1>3, Beginning
<1> HIDE DEF l
<1>6. TypeInv'
  BY <1>1, <1>2, <1>3, <1>4 DEF TypeInv
<1>7. Run(Receiver, line)' = Run(Receiver', l)
  BY <1>1
<1>8. LineInv'
  BY <1>1, <1>3, <1>4, <1>5, <1>7 DEF LineInv, CalmInv, InsideInv, DoneInv
<1> QED
  BY <1>1, <1>6, <1>8

LEMMA SendInside ==
  ASSUME TypeInv, LineInv, NEW data \in Seq(Bytes), SendInsideFrame(data)
  PROVE  TypeInv' /\ LineInv' /\ pool' = pool /\ state' = state
<1> DEFINE r == Run(Receiver, line)
           d == frame.data
<1>1. /\ isSending /\ isSending' = isSending /\ Len(d) + Len(data) <= MaxPayload
      /\ frame' = [frame EXCEPT !.data = @ \o data]
      /\ line' = line \o EscapedSeq(data)
      /\ checksum' = (checksum + EscapedSeqSum(data)) % Modulus
      /\ UNCHANGED receiver /\ UNCHANGED <<intact, settled, handed, faults>>
      /\ pool' = pool /\ state' = state
  BY DEF SendInsideFrame, receiver
<1>2. /\ Receiver \in States /\ line \in Seq(Bytes) /\ checksum \in Bytes /\ frame \in Frames
      /\ d \in Seq(Bytes) /\ frame.ep \in Bytes
  BY DEF TypeInv, Frames
<1>3. EscapedSeq(data) \in Seq(Bytes) /\ EscapedSeqSum(data) \in Nat /\ checksum \in Nat
  BY <1>2, EscapedSeqIs, Consts
<1>4. frame' \in Frames /\ frame'.ep = frame.ep /\ frame'.data = d \o data
  <2>1. PICK e \in Seq(Bytes) : e = d \o data
    <3>1. d \o data \in Seq(Bytes)
      BY <1>2
    <3> QED
      BY <3>1
  <2>2. frame' = [frame EXCEPT !.data = e]
    BY <1>1, <2>1
  <2>3. /\ [frame EXCEPT !.data = e] \in Frames /\ [frame EXCEPT !.data = e].ep = frame.ep
        /\ [frame EXCEPT !.data = e].data = e
    BY <1>2, <2>1 DEF Frames
  <2> QED
    BY <2>1, <2>2, <2>3
<1>5. /\ Len(d) \in Nat /\ Len(data) \in Nat /\ Len(d \o data) = Len(d) + Len(data)
      /\ MaxPacketLen \in Nat
  BY <1>2, Consts
<1>6. Receiver' = Receiver
  BY <1>1, ReceiverSame
<1>7. Run(Receiver, line)' = Run(r, EscapedSeq(data))
  <2>1. Run(Receiver, line \o EscapedSeq(data)) = Run(r, EscapedSeq(data))
    BY <1>2, <1>3, RunConcat, Zenon
  <2> QED
    BY <1>1, <1>6, <2>1
<1>8. r \in States
  BY <1>2, RunIs
<1>9. TypeInv'
  <2>1. line \o EscapedSeq(data) \in Seq(Bytes)
    BY <1>2, <1>3
  <2>2. checksum' \in Bytes
    <3>1. checksum + EscapedSeqSum(data) \in Nat
      BY <1>3
    <3> QED
      BY <1>1, <3>1, ModType
  <2>3. Len(frame'.data) <= MaxPayload
    BY <1>1, <1>4, <1>5
  <2> QED
    BY <1>1, <1>2, <1>4, <1>6, <2>1, <2>2, <2>3 DEF TypeInv
<1>10. CalmInv'
  <2>1. Calm(r) => Calm(Run(r, EscapedSeq(data)))
    BY <1>8, CalmSeq
  <2> QED
    BY <1>1, <1>7, <2>1 DEF LineInv, CalmInv
<1>11. InsideInv'
  <2> SUFFICES ASSUME intact, settled, Len(d \o data) < MaxPacketLen
               PROVE  Run(r, EscapedSeq(data)) = Inside(frame.ep, d \o data, checksum')
    BY <1>1, <1>4, <1>7 DEF InsideInv
  <2>1. Len(d) < MaxPacketLen
    BY <1>5
  <2>2. r = Inside(frame.ep, d, checksum)
    BY <1>1, <2>1 DEF LineInv, InsideInv
  <2>3. checksum % Modulus = checksum
    <3>1. Modulus * 0 + checksum = checksum
      BY <1>3, Consts
    <3> QED
      BY <1>2, <3>1, ModOf
  <2>4. Run(Inside(frame.ep, d, checksum % Modulus), EscapedSeq(data))
          = Inside(frame.ep, d \o data, (checksum + EscapedSeqSum(data)) % Modulus)
    <3>1. Len(d) + Len(data) < MaxPacketLen
      BY <1>5
    <3> HIDE DEF d
    <3> QED
      BY <1>2, <1>3, <3>1, InsideSeq, Zenon
  <2> QED
    BY <1>1, <2>2, <2>3, <2>4
<1>12. DoneInv'
  BY <1>1 DEF DoneInv
<1> QED
  BY <1>1, <1>9, <1>10, <1>11, <1>12 DEF LineInv

LEMMA SendEnding ==
  ASSUME TypeInv, LineInv, EndTransmittingFrame
  PROVE  TypeInv' /\ LineInv' /\ pool' = pool /\ state' = state
<1> DEFINE r == Run(Receiver, line)
           l == ChecksumBytes(checksum) \o <<END>>
<1>1. /\ isSending /\ isSending' = FALSE /\ checksum' = 0
      /\ line' = line \o ChecksumBytes(checksum) \o <<END>>
      /\ UNCHANGED receiver /\ UNCHANGED <<frame, intact, settled, handed, faults>>
      /\ pool' = pool /\ state' = state
  BY DEF EndTransmittingFrame, receiver, history
<1>2. /\ Receiver \in States /\ line \in Seq(Bytes) /\ checksum \in Bytes /\ frame \in Frames
      /\ frame.data \in Seq(Bytes) /\ frame.ep \in Bytes /\ checksum \in Nat
  BY Consts DEF TypeInv, Frames
<1>3. l \in Seq(Bytes) /\ line' = line \o l /\ 0 \in Bytes
  <2>1. ChecksumBytes(checksum) \in Seq(Bytes) /\ <<END>> \in Seq(Bytes) /\ 0 \in Bytes
    BY <1>2, ChecksumType, Consts
  <2> QED
    BY <1>1, <1>2, <2>1
<1>4. Receiver' = Receiver
  BY <1>1, ReceiverSame
<1>5. Run(Receiver, line)' = Run(r, l)
  <2>1. Run(Receiver, line \o l) = Run(r, l)
    BY <1>2, <1>3, RunConcat, Zenon
  <2> QED
    BY <1>3, <1>4, <2>1
<1>6. r \in States
  BY <1>2, RunIs
<1>7. TypeInv'
  <2>1. line \o l \in Seq(Bytes)
    BY <1>2, <1>3
  <2> QED
    BY <1>1, <1>2, <1>3, <1>4, <2>1 DEF TypeInv
<1>8. CalmInv'
  BY <1>2, <1>5, <1>6, EndingCalm DEF CalmInv
<1>9. InsideInv'
  BY <1>1 DEF InsideInv
<1>10. DoneInv'
  <2> SUFFICES ASSUME intact, settled, FrameLen < MaxPacketLen
               PROVE  Run(r, l).handed = <<frame>>
    BY <1>1, <1>5 DEF DoneInv, FrameLen
  <2>1. Len(frame.data) + 2 < MaxPacketLen /\ Len(frame.data) < MaxPacketLen
    BY <1>2, Consts DEF FrameLen
  <2>2. r = Inside(frame.ep, frame.data, checksum)
    BY <1>1, <2>1 DEF LineInv, InsideInv
  <2>3. checksum % Modulus = checksum
    <3>1. Modulus * 0 + checksum = checksum
      BY <1>2, Consts
    <3> QED
      BY <1>2, <3>1, ModOf
  <2>4. Run(Inside(frame.ep, frame.data, checksum % Modulus), l).handed
          = <<[ep |-> frame.ep, data |-> frame.data]>>
    BY <1>2, <2>1, Ending
  <2>5. [ep |-> frame.ep, data |-> frame.data] = frame
    BY <1>2 DEF Frames
  <2> HIDE DEF l
  <2> QED
    BY <2>2, <2>3, <2>4, <2>5
<1> QED
  BY <1>1, <1>7, <1>8, <1>9, <1>10 DEF LineInv

LEMMA SendWhole ==
  ASSUME TypeInv, LineInv, NEW ep \in Endpoints, NEW data \in Seq(Bytes), Len(data) <= MaxPayload,
         SendMessage(ep, data)
  PROVE  TypeInv' /\ LineInv' /\ pool' = pool /\ state' = state
<1> DEFINE h == <<BEGINNING>> \o Escaped(ep)
           x == EscapedSum(ep) + EscapedSeqSum(data)
           t == ChecksumBytes(x) \o <<END>>
           l == (h \o EscapedSeq(data)) \o t
           s == EscapedSeq(data)
<1>1. /\ NewFrame(ep, data) /\ UNCHANGED receiver /\ isSending = FALSE /\ isSending' = FALSE
      /\ checksum' = checksum /\ pool' = pool /\ state' = state
      /\ line' = <<BEGINNING>> \o Escaped(ep) \o EscapedSeq(data) \o ChecksumBytes(x) \o <<END>>
  BY DEF SendMessage, receiver, sender, TypeInv
<1>2. /\ ep \in Bytes /\ h \in Seq(Bytes) /\ s \in Seq(Bytes) /\ t \in Seq(Bytes) /\ x \in Nat
      /\ EscapedSum(ep) \in Nat /\ EscapedSeqSum(data) \in Nat
  <2>1. ep \in Bytes /\ BEGINNING \in Bytes
    BY Consts
  <2>2. Escaped(ep) \in Seq(Bytes) /\ EscapedSum(ep) \in Nat
    BY <2>1, EscapedType
  <2>3. s \in Seq(Bytes) /\ EscapedSeqSum(data) \in Nat
    BY EscapedSeqIs
  <2>4. x \in Nat
    BY <2>2, <2>3
  <2> HIDE DEF x
  <2> QED
    BY <2>1, <2>2, <2>3, <2>4, ChecksumType
<1>3. line' = l /\ l \in Seq(Bytes)
  <2>1. ChecksumBytes(x) \in Seq(Bytes) /\ <<END>> \in Seq(Bytes)
    BY <1>2, ChecksumType, Consts
  <2> HIDE DEF x, h, s
  <2>2. h \o s \in Seq(Bytes) /\ (h \o s) \o t \in Seq(Bytes)
    BY <1>2
  <2>3. ((h \o s) \o ChecksumBytes(x)) \o <<END>> = (h \o s) \o t
    BY <2>1, <2>2, ConcatConcat
  <2> QED
    BY <1>1, <2>2, <2>3 DEF h, s
<1>4. /\ Receiver' \in States /\ Receiver'.handed = <<>>
      /\ settled' => Calm(Receiver')
      /\ frame' = [ep |-> ep, data |-> data]
      /\ frame' \in Frames /\ frame'.ep = ep /\ frame'.data = data
      /\ intact' = TRUE /\ settled' \in BOOLEAN /\ faults' = faults
  BY <1>1, <1>2, FrameBegins DEF LineInv
<1>5. PICK r \in States : r = Receiver'
  BY <1>4
<1> HIDE DEF h, s, t, x
<1>6. Run(r, l) = Run(Run(Run(r, h), s), t) /\ h \o s \in Seq(Bytes)
      /\ Run(r, h) \in States /\ Run(r, h \o s) = Run(Run(r, h), s) /\ Run(Run(r, h), s) \in States
  <2>1. h \o s \in Seq(Bytes)
    BY <1>2
  <2>2. Run(r, (h \o s) \o t) = Run(Run(r, h \o s), t)
    BY <1>2, <2>1, RunConcat, Zenon
  <2>3. Run(r, h \o s) = Run(Run(r, h), s)
    BY <1>2, RunConcat, Zenon
  <2>4. Run(r, h) \in States /\ Run(r, h \o s) \in States
    BY <1>2, <2>1, RunIs
  <2> QED
    BY <2>1, <2>2, <2>3, <2>4 DEF s
<1>7. Calm(Run(r, l))
  <2>1. Calm(Run(Run(Run(r, h), s), t))
    BY <1>2, <1>6, EndingCalm DEF t
  <2> QED
    BY <1>6, <2>1
<1>8. ASSUME settled', Len(data) + 2 < MaxPacketLen
      PROVE  Run(r, l).handed = <<frame'>>
  <2>1. Run(r, h) = Inside(ep, <<>>, EscapedSum(ep) % Modulus)
    BY <1>2, <1>4, <1>5, <1>8, Beginning DEF h
  <2>2. /\ <<>> \in Seq(Bytes) /\ Len(<<>>) + Len(data) < MaxPacketLen /\ <<>> \o data = data
        /\ Len(data) \in Nat
    BY <1>8, Consts
  <2>3. Run(Inside(ep, <<>>, EscapedSum(ep) % Modulus), s) = Inside(ep, <<>> \o data, x % Modulus)
    <3>1. EscapedSum(ep) \in Nat /\ ep \in Bytes /\ <<>> \in Seq(Bytes)
          /\ Len(<<>>) + Len(data) < MaxPacketLen
      BY <1>2, <2>2
    <3>2. Run(Inside(ep, <<>>, EscapedSum(ep) % Modulus), EscapedSeq(data))
            = Inside(ep, <<>> \o data, (EscapedSum(ep) + EscapedSeqSum(data)) % Modulus)
      BY <3>1, InsideSeq, Zenon
    <3> QED
      BY <3>2, Zenon DEF s, x
  <2>4. Run(Inside(ep, data, x % Modulus), t).handed = <<[ep |-> ep, data |-> data]>>
    BY <1>2, <1>8, Ending DEF t
  <2> QED
    BY <1>4, <1>6, <2>1, <2>2, <2>3, <2>4
<1>9. TypeInv'
  BY <1>1, <1>3, <1>4 DEF TypeInv
<1>10. Run(Receiver, line)' = Run(r, l)
  BY <1>3, <1>5
<1>11. LineInv'
  <2>1. CalmInv'
    BY <1>7, <1>10 DEF CalmInv
  <2>2. InsideInv'
    BY <1>1 DEF InsideInv
  <2>3. DoneInv'
    BY <1>4, <1>8, <1>10 DEF DoneInv, FrameLen
  <2> QED
    BY <2>1, <2>2, <2>3 DEF LineInv
<1> QED
  BY <1>1, <1>9, <1>11

(* Receiving: a byte that arrives where it was sent to leaves what the          *)
(* receiver makes of the line as it was; a fault leaves only the types.         *)
LEMMA ByteArrives ==
  ASSUME TypeInv, LineInv, line # <<>>, line' = Tail(line), ReceiveByte(Head(line)),
         UNCHANGED <<sender, frame, settled, intact, faults>>
  PROVE  TypeInv' /\ LineInv'
<1>1. Receiver \in States /\ line \in Seq(Bytes)
  BY DEF TypeInv
<1>2. /\ Head(line) \in Bytes /\ Tail(line) \in Seq(Bytes)
      /\ Run(Receiver, line) = Run(Step(Receiver, Head(line)), Tail(line))
  BY <1>1, RunHead
<1>3. Receiver' = Step(Receiver, Head(line)) /\ Receiver' \in States
  BY <1>1, <1>2, ReceiveIsStep, ReceivedType
<1>4. Run(Receiver, line)' = Run(Receiver, line)
  BY <1>2, <1>3
<1>5. /\ isSending' = isSending /\ checksum' = checksum
      /\ UNCHANGED <<frame, settled, intact, faults>>
  BY DEF sender
<1>6. TypeInv'
  BY <1>2, <1>3, <1>5 DEF TypeInv
<1>7. LineInv'
  BY <1>4, <1>5 DEF LineInv, CalmInv, InsideInv, DoneInv, FrameLen
<1> QED
  BY <1>6, <1>7

LEMMA AfterFault ==
  ASSUME TypeInv, Fault, Receiver' \in States, line' \in Seq(Bytes),
         UNCHANGED <<sender, frame, settled>>
  PROVE  TypeInv' /\ LineInv'
<1>1. faults' \in 0..MaxFaults /\ intact' = FALSE
  BY Consts DEF Fault, TypeInv
<1> QED
  BY <1>1 DEF TypeInv, LineInv, CalmInv, InsideInv, DoneInv, sender

LEMMA PoolReceives ==
  ASSUME TypeInv, PoolInv, NEW b \in Bytes, ReceiveByte(b) \/ Ignore
  PROVE  PoolInv'
<1>1. /\ hasBuffer \in BOOLEAN /\ free \in Nat /\ waiting \in Nat /\ Buffers \in Nat
      /\ free + waiting + (IF hasBuffer THEN 1 ELSE 0) <= Buffers
      /\ ~hasBuffer => mode = "UNKNOWN" /\ n = 0 /\ sum = 0
      /\ hasBuffer \/ free + waiting > 0
      /\ MaxPacketLen \in Nat /\ MaxPacketLen > 0
  BY Consts DEF PoolInv, BufferForFrame
<1>2. ASSUME hasBuffer \/ free > 0, Acquire PROVE PoolInv'
  BY <1>1, <1>2 DEF Acquire, FreeNow, PoolInv, BufferForFrame
<1>3. ASSUME hasBuffer, UNCHANGED pool PROVE PoolInv'
  BY <1>1, <1>3 DEF pool, PoolInv, BufferForFrame
<1>4. ASSUME hasBuffer \/ free > 0, NEW posted \in BOOLEAN, Refill(posted),
             mode' = "UNKNOWN", n' = 0, sum' = 0
      PROVE  PoolInv'
  <2>1. FreeNow \in Nat /\ FreeNow + waiting + 1 <= Buffers
    BY <1>1, <1>4 DEF FreeNow
  <2>2. CASE FreeNow > 0
    <3>1. hasBuffer' = TRUE /\ free' = FreeNow - 1
      BY <1>4, <2>2 DEF Refill
    <3>2. waiting' \in Nat /\ waiting' <= waiting + 1
      BY <1>1, <1>4, <2>2 DEF Refill
    <3>3. free' \in Nat /\ free' + waiting' + 1 <= Buffers
      <4>1. PICK f \in Nat : f = FreeNow
        BY <2>1
      <4>2. free' = f - 1 /\ f > 0 /\ f + waiting + 1 <= Buffers
        BY <2>1, <2>2, <3>1, <4>1
      <4>3. waiting \in Nat /\ Buffers \in Nat
        BY <1>1
      <4>4. free' \in Nat
        BY <4>1, <4>2
      <4>5. PICK g, w, v : g = free' /\ w = waiting' /\ v = waiting
        OBVIOUS
      <4>6. g \in Nat /\ w \in Nat /\ v \in Nat /\ g = f - 1 /\ w <= v + 1 /\ f + v + 1 <= Buffers
        BY <3>2, <4>2, <4>3, <4>4, <4>5
      <4>7. g + w + 1 <= Buffers
        BY <4>1, <4>3, <4>6
      <4> QED
        BY <4>4, <4>5, <4>7
    <3> QED
      BY <3>1, <3>3, <3>2 DEF PoolInv, BufferForFrame
  <2>3. CASE ~(FreeNow > 0)
    <3>1. free' = 0 /\ hasBuffer' = ~posted
      BY <1>4, <2>3 DEF Refill
    <3>2. CASE posted
      <4>1. waiting' = waiting + 1 /\ hasBuffer' = FALSE
        BY <1>4, <3>1, <3>2 DEF Refill
      <4> QED
        BY <1>1, <1>4, <2>1, <3>1, <4>1 DEF PoolInv, BufferForFrame
    <3>3. CASE ~posted
      <4>1. waiting' = waiting /\ hasBuffer' = TRUE
        BY <1>4, <3>1, <3>3 DEF Refill
      <4> QED
        BY <1>1, <2>1, <3>1, <4>1 DEF PoolInv, BufferForFrame
    <3> QED
      BY <3>2, <3>3
  <2> QED
    BY <2>2, <2>3
<1>5. CASE Ignore
  <2>1. ~hasBuffer /\ hasBuffer' = hasBuffer /\ free' = free /\ waiting' = waiting
        /\ mode' = "UNKNOWN" /\ n' = 0 /\ sum' = 0
    BY <1>5 DEF Ignore, pool
  <2> QED
    BY <1>1, <2>1 DEF PoolInv, BufferForFrame
<1>6. CASE ReceiveByte(b)
  <2>1. hasBuffer \/ free > 0
    BY <1>6 DEF ReceiveByte
  <2>2. CASE Begin(b)
    BY <1>2, <2>1, <2>2 DEF Begin
  <2>3. CASE Overlong(b)
    <3>1. n # 0
      BY <1>1, <2>3 DEF Overlong, TooLong
    <3> QED
      BY <1>1, <1>3, <2>3, <3>1 DEF Overlong
  <2>4. CASE Content(b)
    <3>1. mode # "UNKNOWN"
      BY <2>4 DEF Content
    <3> QED
      BY <1>1, <1>3, <2>4, <3>1 DEF Content
  <2>5. CASE Skip(b)
    BY <1>2, <2>1, <2>5 DEF Skip
  <2>6. CASE Finish(b)
    <3>1. CASE sum = 0 /\ n >= 2
      <4>1. mode' = "UNKNOWN" /\ sum' = 0 /\ n' = 0 /\ \E posted \in BOOLEAN : Refill(posted)
        BY <2>6, <3>1 DEF Finish
      <4> QED
        BY <1>4, <2>1, <4>1
    <3>2. CASE ~(sum = 0 /\ n >= 2)
      BY <1>2, <2>1, <2>6, <3>2 DEF Finish
    <3> QED
      BY <3>1, <3>2
  <2> QED
    BY <1>6, <2>2, <2>3, <2>4, <2>5, <2>6 DEF ReceiveByte
<1> QED
  BY <1>5, <1>6

LEMMA PoolSame ==
  ASSUME PoolInv, pool' = pool, state' = state
  PROVE  PoolInv'
BY DEF PoolInv, BufferForFrame, pool, state

LEMMA SendInv ==
  ASSUME Inv, Send
  PROVE  Inv'
<1>1. TypeInv /\ PoolInv /\ LineInv
  BY DEF Inv
<1>2. ASSUME NEW k \in 0..MaxPayload, NEW data \in [1..k -> Payload]
      PROVE  data \in Seq(Bytes) /\ Len(data) <= MaxPayload
  <2>1. MaxPayload \in Nat /\ Payload \subseteq Bytes
    BY Consts
  <2>2. k \in Nat /\ k <= MaxPayload /\ data \in [1..k -> Bytes]
    BY <2>1
  <2>3. data \in Seq(Bytes) /\ Len(data) = k
    BY <2>2
  <2> QED
    BY <2>2, <2>3
<1>3. ASSUME TypeInv', LineInv', pool' = pool, state' = state PROVE Inv'
  BY <1>1, <1>3, PoolSame DEF Inv
<1>4. ASSUME NEW ep \in Endpoints, BeginTransmittingFrame(ep) PROVE Inv'
  BY <1>1, <1>3, <1>4, SendBeginning
<1>5. ASSUME NEW ep \in Endpoints, NEW k \in 0..MaxPayload, NEW data \in [1..k -> Payload],
             SendMessage(ep, data)
      PROVE  Inv'
  BY <1>1, <1>2, <1>3, <1>5, SendWhole
<1>6. ASSUME NEW k \in 1..MaxPayload, NEW data \in [1..k -> Payload], SendInsideFrame(data)
      PROVE  Inv'
  <2>1. k \in 0..MaxPayload
    OBVIOUS
  <2>2. data \in Seq(Bytes)
    BY <1>2, <2>1
  <2> QED
    BY <1>1, <1>3, <1>6, <2>2, SendInside
<1>7. ASSUME EndTransmittingFrame PROVE Inv'
  BY <1>1, <1>3, <1>7, SendEnding
<1> QED
  BY <1>4, <1>5, <1>6, <1>7 DEF Send

LEMMA ArriveInv ==
  ASSUME Inv, Arrive
  PROVE  Inv'
<1>1. TypeInv /\ PoolInv /\ LineInv /\ Receiver \in States /\ line \in Seq(Bytes)
  BY DEF Inv, TypeInv
<1>2. line # <<>> /\ line' = Tail(line) /\ UNCHANGED <<sender, frame, settled>>
  BY DEF Arrive
<1>3. Head(line) \in Bytes /\ Tail(line) \in Seq(Bytes)
  BY <1>1, <1>2, RunHead
<1>4. CASE ReceiveByte(Head(line)) /\ UNCHANGED <<intact, faults>>
  BY <1>1, <1>2, <1>3, <1>4, ByteArrives, PoolReceives DEF Inv
<1>5. CASE Ignore /\ Fault
  BY <1>1, <1>2, <1>3, <1>5, ReceivedType, AfterFault, PoolReceives DEF Inv
<1> QED
  BY <1>4, <1>5 DEF Arrive

LEMMA LoseInv ==
  ASSUME Inv, Lose
  PROVE  Inv'
<1>1. TypeInv /\ PoolInv /\ Receiver \in States /\ line \in Seq(Bytes)
  BY DEF Inv, TypeInv
<1>2. /\ line # <<>> /\ line' = Tail(line) /\ Fault /\ UNCHANGED <<sender, frame, settled>>
      /\ UNCHANGED receiver /\ handed' = handed /\ pool' = pool /\ state' = state
  BY DEF Lose, receiver
<1>3. line' \in Seq(Bytes) /\ Receiver' \in States
  BY <1>1, <1>2, RunHead, ReceiverSame
<1>4. TypeInv' /\ LineInv'
  BY <1>1, <1>2, <1>3, AfterFault
<1> QED
  BY <1>1, <1>2, <1>4, PoolSame DEF Inv

LEMMA InventInv ==
  ASSUME Inv, NEW b \in Noise, Invent(b)
  PROVE  Inv'
<1>1. TypeInv /\ PoolInv /\ Receiver \in States /\ line \in Seq(Bytes) /\ b \in Bytes
  BY Consts DEF Inv, TypeInv
<1>2. /\ ReceiveByte(b) \/ Ignore
      /\ Fault /\ line' = line /\ UNCHANGED <<sender, frame, settled>>
  BY DEF Invent
<1>3. Receiver' \in States
  BY <1>1, <1>2, ReceivedType
<1>4. TypeInv' /\ LineInv'
  BY <1>1, <1>2, <1>3, AfterFault
<1>5. PoolInv'
  BY <1>1, <1>2, PoolReceives
<1> QED
  BY <1>4, <1>5 DEF Inv

LEMMA ReleaseInv ==
  ASSUME Inv, Release
  PROVE  Inv'
<1>1. /\ waiting > 0 /\ waiting' = waiting - 1 /\ free' = free + 1 /\ hasBuffer' = hasBuffer
      /\ line' = line /\ UNCHANGED <<isSending, checksum, mode, n, sum, endpoint, packet>>
      /\ UNCHANGED <<frame, intact, settled, handed, faults>>
  BY DEF Release, sender, state, history
<1>2. Receiver' = Receiver
  BY <1>1 DEF Receiver
<1>3. TypeInv'
  BY <1>1, <1>2 DEF Inv, TypeInv
<1>4. PoolInv'
  BY <1>1, Consts DEF Inv, PoolInv, BufferForFrame
<1>5. LineInv'
  BY <1>1, <1>2 DEF Inv, LineInv, CalmInv, InsideInv, DoneInv, FrameLen
<1> QED
  BY <1>3, <1>4, <1>5 DEF Inv

LEMMA StutterInv ==
  ASSUME Inv, UNCHANGED vars
  PROVE  Inv'
<1>1. /\ UNCHANGED <<isSending, checksum, line, mode, n, sum, endpoint, packet>>
      /\ UNCHANGED <<hasBuffer, free, waiting, frame, intact, settled, handed, faults>>
  BY DEF vars, sender, receiver, state, pool, history
<1>2. Receiver' = Receiver
  BY <1>1 DEF Receiver
<1>3. TypeInv'
  BY <1>1, <1>2 DEF Inv, TypeInv
<1>4. PoolInv'
  BY <1>1 DEF Inv, PoolInv, BufferForFrame
<1>5. LineInv'
  BY <1>1, <1>2 DEF Inv, LineInv, CalmInv, InsideInv, DoneInv, FrameLen
<1> QED
  BY <1>3, <1>4, <1>5 DEF Inv

(* In every state what is on the line is what the receiver still has to see: *)
(* run over it, genericProtocol_receiveByte ends with the packet sent, or is *)
(* in the middle of the one being sent, unless the line spoiled it or it     *)
(* began just after an escape character; and the receiver's buffers are all  *)
(* accounted for.                                                            *)
THEOREM FramingInvariant == Spec => []Inv
<1>1. Inv /\ [Next]_vars => Inv'
  <2> SUFFICES ASSUME Inv, [Next]_vars PROVE Inv'
    OBVIOUS
  <2> QED
    BY SendInv, ArriveInv, LoseInv, InventInv, ReleaseInv, StutterInv DEF Next
<1> QED
  BY InitInv, <1>1, PTL DEF Spec

-------------------------------------------------------------------------------
(* What the runs check. *)

LEMMA InvType == Inv => TypeOK
<1> SUFFICES ASSUME Inv PROVE TypeOK
  OBVIOUS
<1>1. Receiver \in States /\ TypeInv /\ PoolInv
  BY DEF Inv, TypeInv
<1>2. /\ mode \in Modes /\ n \in 0..MaxPacketLen /\ sum \in Bytes /\ endpoint \in Bytes
      /\ packet \in Seq(Bytes) /\ Len(packet) < MaxPacketLen
  <2>1. n \in Nat /\ n <= MaxPacketLen /\ MaxPacketLen \in Nat
    BY <1>1, Fields, StateIs, Consts
  <2> QED
    BY <1>1, <2>1, Fields, StateIs
<1>3. \A i \in DOMAIN packet : packet[i] \in Bytes
  BY <1>2
<1>4. \A i \in DOMAIN line : line[i] \in Bytes
  BY <1>1 DEF TypeInv
<1>5. free \in 0..Buffers /\ waiting \in 0..Buffers /\ hasBuffer \in BOOLEAN
  BY <1>1, Consts DEF PoolInv
<1>6. /\ isSending \in BOOLEAN /\ checksum \in Bytes /\ intact \in BOOLEAN /\ settled \in BOOLEAN
      /\ faults \in 0..MaxFaults /\ frame.ep \in Bytes /\ Len(frame.data) <= MaxPayload
  BY <1>1 DEF TypeInv, Frames
<1> QED
  BY <1>2, <1>3, <1>4, <1>5, <1>6 DEF TypeOK

LEMMA InvDelivers == Inv => IntactFrameDelivered
<1> SUFFICES ASSUME Inv, Complete PROVE IntactFrameDelivered
  BY DEF IntactFrameDelivered
<1>1. /\ Receiver \in States /\ ~isSending /\ line = <<>> /\ intact /\ settled
  BY DEF Inv, TypeInv, Complete
<1>2. Run(Receiver, line) = Receiver
  BY <1>1, RunIs
<1>3. CASE FrameLen < MaxPacketLen
  <2>1. handed = <<frame>>
    BY <1>1, <1>2, <1>3, Fields DEF Inv, LineInv, DoneInv
  <2> QED
    BY <1>3, <2>1 DEF IntactFrameDelivered
<1>4. CASE ~(FrameLen < MaxPacketLen)
  <2>1. ASSUME NEW k \in DOMAIN handed PROVE handed[k] # frame
    <3>1. handed[k] \in Packets
      BY <1>1, Fields, StateIs
    <3> QED
      BY <1>4, <3>1 DEF Packets, FrameLen
  <2> QED
    BY <1>4, <2>1 DEF IntactFrameDelivered
<1> QED
  BY <1>3, <1>4

(* Every variable stays in its range; that of n and packet is that the       *)
(* receiver never stores outside its buffer, whatever bytes come.            *)
THEOREM FramingTypeOK == Spec => []TypeOK
BY FramingInvariant, InvType, PTL

(* A packet that arrives whole is handed on once and unaltered if it fits    *)
(* the buffer, and not at all if it does not: for any bytes of the packet,   *)
(* control characters and checksums among them, and any number of faults     *)
(* before - unless the last byte before it was an escape character, and then *)
(* the packet after it is, if that one arrives whole, too.                   *)
THEOREM FramingDelivers == Spec => []IntactFrameDelivered
BY FramingInvariant, InvDelivers, PTL

(* A frame finds a buffer unless all of them wait in the queue, and the last *)
(* one is never lost, whatever posts are refused.                            *)
THEOREM FramingBuffer == Spec => []BufferForFrame
<1>1. Inv => BufferForFrame
  BY DEF Inv, PoolInv
<1> QED
  BY FramingInvariant, <1>1, PTL
=============================================================================
