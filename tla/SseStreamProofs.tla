--------------------------- MODULE SseStreamProofs ---------------------------
(* Proofs about SseStream: whatever body arrives and however it is cut,    *)
(* the stream hands out what the body parsed as a whole says, and nothing  *)
(* it owes while it waits.                                                 *)
(*                                                                         *)
(* Induction over the bytes of a body is done on sets of numbers: a set    *)
(* that holds 0 and is closed under successor up to n holds 0 .. n.        *)
EXTENDS SseStream, TLAPS, WellFoundedInduction, SequenceTheorems

-----------------------------------------------------------------------------
(* Numbers, sequences and recursive functions.                             *)

LEMMA CatIs ==
    ASSUME NEW s \in Seq(Bytes), NEW t \in Seq(Bytes)
    PROVE  /\ s \o t \in Seq(Bytes)
           /\ Len(s \o t) = Len(s) + Len(t)
           /\ \A i \in 1 .. Len(s) : (s \o t)[i] = s[i]
           /\ \A i \in 1 .. Len(t) : (s \o t)[Len(s) + i] = t[i]
OBVIOUS

LEMMA AppendCat ==
    ASSUME NEW s \in Seq(Bytes), NEW t \in Seq(Bytes), NEW b \in Bytes
    PROVE  Append(s \o t, b) = s \o Append(t, b)
OBVIOUS

(* A set of naturals that is not empty has a least member.                 *)
LEMMA LeastNat ==
    ASSUME NEW T, T \subseteq Nat, T # {}
    PROVE  \E x \in T : \A y \in T : x <= y
<1>1. PICK x \in T : \A y \in T : <<y, x>> \notin OpToRel(<, Nat)
  BY WFMin, NatLessThanWellFounded
<1>2. \A y \in T : ~(y < x)
  BY <1>1 DEF OpToRel
<1>3. x \in Nat /\ \A y \in T : y \in Nat
  OBVIOUS
<1>4. \A y \in T : x <= y
  BY <1>2, <1>3
<1>5. QED
  BY <1>4

(* Induction up to n, for a property given as the set T of what has it.    *)
LEMMA Induction ==
    ASSUME NEW n \in Nat, NEW T, 0 \in T,
           \A i \in 0 .. n : i # n /\ i \in T => i + 1 \in T
    PROVE  \A i \in 0 .. n : i \in T
<1> DEFINE Bad == {i \in 0 .. n : i \notin T}
<1> SUFFICES ASSUME Bad # {} PROVE FALSE
  OBVIOUS
<1>1. PICK m \in Bad : \A k \in Bad : m <= k
  <2>1. Bad \subseteq Nat
    OBVIOUS
  <2> HIDE DEF Bad
  <2>2. QED
    BY <2>1, LeastNat
<1>2. m \in 0 .. n /\ m # 0 /\ m \notin T
  OBVIOUS
<1>3. m - 1 \in 0 .. n /\ m - 1 # n /\ m - 1 \notin Bad
  BY <1>1, <1>2
<1>4. m - 1 \in T
  BY <1>3
<1>5. (m - 1) + 1 \in T
  BY <1>3, <1>4
<1>6. (m - 1) + 1 = m
  BY <1>2
<1>7. QED
  BY <1>2, <1>5, <1>6

(* f starts with base and goes on by step.                                 *)
Iterates(f, A, n, base, step) ==
    /\ f \in [0 .. n -> A]
    /\ f[0] = base
    /\ \A j \in 1 .. n : f[j] = step[j][f[j - 1]]

(* Such a function exists, which is what makes the recursive functions of  *)
(* SseStream well defined.                                                 *)
LEMMA Iterate ==
    ASSUME NEW A, NEW n, NEW base, NEW step,
           n \in Nat, base \in A, step \in [1 .. n -> [A -> A]]
    PROVE  \E f : Iterates(f, A, n, base, step)
<1> DEFINE Upto(m) == \E f \in [0 .. m -> A] :
                          f[0] = base /\ \A j \in 1 .. m : f[j] = step[j][f[j - 1]]
           T == {m \in 0 .. n : Upto(m)}
<1>1. 0 \in T
  <2> DEFINE g == [i \in 0 .. 0 |-> base]
  <2>1. g \in [0 .. 0 -> A] /\ g[0] = base /\ \A j \in 1 .. 0 : g[j] = step[j][g[j - 1]]
    OBVIOUS
  <2> HIDE DEF g
  <2>2. Upto(0)
    BY <2>1
  <2>3. QED
    BY <2>2
<1>2. ASSUME NEW m \in 0 .. n, m # n, m \in T PROVE m + 1 \in T
  <2>1. PICK f \in [0 .. m -> A] :
            f[0] = base /\ \A j \in 1 .. m : f[j] = step[j][f[j - 1]]
    BY <1>2
  <2> DEFINE g == [i \in 0 .. m + 1 |-> IF i <= m THEN f[i] ELSE step[m + 1][f[m]]]
  <2>2. step[m + 1] \in [A -> A] /\ f[m] \in A
    BY <1>2
  <2>3. step[m + 1][f[m]] \in A
    BY <2>2
  <2>4. g \in [0 .. m + 1 -> A]
    BY <2>3
  <2>5. \A i \in 0 .. m : g[i] = f[i]
    OBVIOUS
  <2>6. g[m + 1] = step[m + 1][g[m]]
    BY <2>5
  <2> HIDE DEF g
  <2>7. g[0] = base /\ \A j \in 1 .. m + 1 : g[j] = step[j][g[j - 1]]
    <3>1. g[0] = base
      BY <2>1, <2>5
    <3>2. ASSUME NEW j \in 1 .. m + 1 PROVE g[j] = step[j][g[j - 1]]
      <4>1. CASE j = m + 1
        BY <4>1, <2>6
      <4>2. CASE j # m + 1
        <5>1. j \in 1 .. m /\ j \in 0 .. m /\ j - 1 \in 0 .. m
          BY <4>2
        <5>2. QED
          BY <5>1, <2>1, <2>5
      <4>3. QED
        BY <4>1, <4>2
    <3>3. QED
      BY <3>1, <3>2
  <2>8. Upto(m + 1)
    BY <2>4, <2>7
  <2>9. QED
    BY <1>2, <2>8
<1> HIDE DEF T
<1>3. \A i \in 0 .. n : i # n /\ i \in T => i + 1 \in T
  BY <1>2
<1>4. \A i \in 0 .. n : i \in T
  BY <1>1, <1>3, Induction, Zenon
<1> HIDE DEF Upto
<1>5. Upto(n)
  <2>1. n \in 0 .. n
    OBVIOUS
  <2>2. QED
    BY <1>4, <2>1 DEF T
<1>6. QED
  BY <1>5 DEF Upto, Iterates

-----------------------------------------------------------------------------
(* Without.                                                                *)

(* f is the function that Without(s, drop) computes with.                  *)
Keeps(s, drop, f) ==
    f = [i \in 0 .. Len(s) |->
            IF i = 0 THEN <<>>
            ELSE IF s[i] \in drop THEN f[i - 1]
            ELSE Append(f[i - 1], s[i])]

(* What f yields, step by step, for a sequence s over S.                   *)
Kept(S, s, drop, f) ==
    /\ f \in [0 .. Len(s) -> Seq(S)]
    /\ Without(s, drop) = f[Len(s)]
    /\ f[0] = <<>>
    /\ \A i \in 1 .. Len(s) :
           f[i] = IF s[i] \in drop THEN f[i - 1] ELSE Append(f[i - 1], s[i])

(* Without satisfies its own equation, and yields a sequence.              *)
LEMMA WithoutDef ==
    ASSUME NEW S, NEW s \in Seq(S), NEW drop
    PROVE  \E f : Kept(S, s, drop, f)
<1> DEFINE step == [j \in 1 .. Len(s) |->
                       [a \in Seq(S) |-> IF s[j] \in drop THEN a ELSE Append(a, s[j])]]
           F == CHOOSE f : Keeps(s, drop, f)
<1>1. step \in [1 .. Len(s) -> [Seq(S) -> Seq(S)]]
  OBVIOUS
<1>2. <<>> \in Seq(S) /\ Len(s) \in Nat
  OBVIOUS
<1>3. \A j \in 1 .. Len(s), a \in Seq(S) :
          step[j][a] = IF s[j] \in drop THEN a ELSE Append(a, s[j])
  OBVIOUS
<1> HIDE DEF step
<1>4. PICK f : Iterates(f, Seq(S), Len(s), <<>>, step)
  BY <1>1, <1>2, Iterate, Zenon
<1>5. /\ f \in [0 .. Len(s) -> Seq(S)]
      /\ f[0] = <<>>
      /\ \A j \in 1 .. Len(s) : f[j] = step[j][f[j - 1]]
  BY <1>4 DEF Iterates
<1>6. \A i \in 1 .. Len(s) :
          f[i] = IF s[i] \in drop THEN f[i - 1] ELSE Append(f[i - 1], s[i])
  <2> SUFFICES ASSUME NEW i \in 1 .. Len(s)
               PROVE  f[i] = IF s[i] \in drop THEN f[i - 1] ELSE Append(f[i - 1], s[i])
    OBVIOUS
  <2>1. i - 1 \in 0 .. Len(s)
    BY <1>2
  <2>2. f[i - 1] \in Seq(S)
    BY <2>1, <1>5
  <2>3. QED
    BY <2>2, <1>3, <1>5
<1>7. Keeps(s, drop, f)
  <2>1. f = [i \in 0 .. Len(s) |-> f[i]]
    BY <1>5
  <2>2. \A i \in 0 .. Len(s) : f[i] = IF i = 0 THEN <<>>
                                      ELSE IF s[i] \in drop THEN f[i - 1]
                                      ELSE Append(f[i - 1], s[i])
    <3>1. f[0] = <<>>
      BY <1>5
    <3>2. \A i \in 0 .. Len(s) : i # 0 => i \in 1 .. Len(s)
      BY <1>2
    <3>3. QED
      BY <3>1, <3>2, <1>6, Zenon
  <2>3. QED
    BY <2>1, <2>2, Zenon DEF Keeps
<1>8. Keeps(s, drop, F)
  BY <1>7
<1>9. Without(s, drop) = F[Len(s)]
  BY DEF Without, Keeps
<1>10. F = f
  <2> DEFINE T == {i \in 0 .. Len(s) : F[i] = f[i]}
  <2>1. \A i \in 0 .. Len(s) : F[i] = IF i = 0 THEN <<>>
                                      ELSE IF s[i] \in drop THEN F[i - 1]
                                      ELSE Append(F[i - 1], s[i])
    BY <1>8 DEF Keeps
  <2> HIDE DEF F
  <2>2. 0 \in T
    BY <2>1, <1>2, <1>5
  <2>3. \A i \in 0 .. Len(s) : i # Len(s) /\ i \in T => i + 1 \in T
    BY <2>1, <1>2, <1>6
  <2> HIDE DEF T
  <2>4. \A i \in 0 .. Len(s) : i \in T
    BY <2>2, <2>3, <1>2, Induction, Zenon
  <2>5. \A i \in 0 .. Len(s) : F[i] = f[i]
    BY <2>4 DEF T
  <2>6. F = [i \in 0 .. Len(s) |-> F[i]]
    BY <1>8 DEF Keeps
  <2>7. QED
    BY <2>5, <2>6
<1> HIDE DEF F
<1>11. Kept(S, s, drop, f)
  BY <1>5, <1>6, <1>9, <1>10, Zenon DEF Kept
<1>12. QED
  BY <1>11

LEMMA WithoutType ==
    ASSUME NEW S, NEW s \in Seq(S), NEW drop
    PROVE  Without(s, drop) \in Seq(S)
<1>1. PICK f : Kept(S, s, drop, f)
  BY WithoutDef
<1>2. Len(s) \in 0 .. Len(s)
  OBVIOUS
<1>3. QED
  BY <1>1, <1>2 DEF Kept

(* Nothing is left exactly when every member was to be dropped.            *)
LEMMA WithoutEmpty ==
    ASSUME NEW S, NEW s \in Seq(S), NEW drop
    PROVE  Without(s, drop) = <<>> <=> \A i \in 1 .. Len(s) : s[i] \in drop
<1>1. PICK f : Kept(S, s, drop, f)
  BY WithoutDef
<1>2. /\ f \in [0 .. Len(s) -> Seq(S)]
      /\ Without(s, drop) = f[Len(s)]
      /\ f[0] = <<>>
      /\ \A i \in 1 .. Len(s) :
             f[i] = IF s[i] \in drop THEN f[i - 1] ELSE Append(f[i - 1], s[i])
  BY <1>1 DEF Kept
<1> DEFINE T == {i \in 0 .. Len(s) : f[i] = <<>> <=> \A j \in 1 .. i : s[j] \in drop}
<1>3. Len(s) \in Nat
  OBVIOUS
<1>4. 0 \in T
  BY <1>2, <1>3
<1>5. \A i \in 0 .. Len(s) : i # Len(s) /\ i \in T => i + 1 \in T
  <2> SUFFICES ASSUME NEW i \in 0 .. Len(s), i # Len(s), i \in T PROVE i + 1 \in T
    OBVIOUS
  <2>1. i + 1 \in 1 .. Len(s) /\ i + 1 \in 0 .. Len(s) /\ (i + 1) - 1 = i
    BY <1>3
  <2>2. f[i + 1] = IF s[i + 1] \in drop THEN f[i] ELSE Append(f[i], s[i + 1])
    BY <1>2, <2>1
  <2>3. f[i] \in Seq(S) /\ s[i + 1] \in S
    BY <1>2, <2>1
  <2>4. Append(f[i], s[i + 1]) # <<>>
    BY <2>3, AppendProperties, Zenon
  <2>5. f[i + 1] = <<>> <=> s[i + 1] \in drop /\ f[i] = <<>>
    BY <2>2, <2>4
  <2>6. (\A j \in 1 .. i + 1 : s[j] \in drop) <=>
            s[i + 1] \in drop /\ \A j \in 1 .. i : s[j] \in drop
    <3>1. \A j \in 1 .. i + 1 : j = i + 1 \/ j \in 1 .. i
      OBVIOUS
    <3>2. i + 1 \in 1 .. i + 1 /\ \A j \in 1 .. i : j \in 1 .. i + 1
      OBVIOUS
    <3>3. QED
      BY <3>1, <3>2, Zenon
  <2>7. QED
    BY <2>1, <2>5, <2>6
<1> HIDE DEF T
<1>6. \A i \in 0 .. Len(s) : i \in T
  BY <1>3, <1>4, <1>5, Induction, Zenon
<1>7. Len(s) \in T
  BY <1>3, <1>6
<1>8. QED
  BY <1>2, <1>7 DEF T

(* Dropping from two pieces is dropping from each.                         *)
LEMMA WithoutCat ==
    ASSUME NEW s \in Seq(Bytes), NEW t \in Seq(Bytes), NEW drop
    PROVE  Without(s \o t, drop) = Without(s, drop) \o Without(t, drop)
<1> DEFINE st == s \o t
<1>1. PICK f : Kept(Bytes, s, drop, f)
  BY WithoutDef
<1>2. /\ f \in [0 .. Len(s) -> Seq(Bytes)]
      /\ Without(s, drop) = f[Len(s)]
      /\ f[0] = <<>>
      /\ \A i \in 1 .. Len(s) :
             f[i] = IF s[i] \in drop THEN f[i - 1] ELSE Append(f[i - 1], s[i])
  BY <1>1 DEF Kept
<1>3. PICK g : Kept(Bytes, t, drop, g)
  BY WithoutDef
<1>4. /\ g \in [0 .. Len(t) -> Seq(Bytes)]
      /\ Without(t, drop) = g[Len(t)]
      /\ g[0] = <<>>
      /\ \A i \in 1 .. Len(t) :
             g[i] = IF t[i] \in drop THEN g[i - 1] ELSE Append(g[i - 1], t[i])
  BY <1>3 DEF Kept
<1>5. /\ st \in Seq(Bytes) /\ Len(st) = Len(s) + Len(t)
      /\ \A i \in 1 .. Len(s) : st[i] = s[i]
      /\ \A i \in 1 .. Len(t) : st[Len(s) + i] = t[i]
  OBVIOUS
<1> HIDE DEF st
<1>6. PICK h : Kept(Bytes, st, drop, h)
  BY <1>5, WithoutDef
<1>7. /\ h \in [0 .. Len(st) -> Seq(Bytes)]
      /\ Without(st, drop) = h[Len(st)]
      /\ h[0] = <<>>
      /\ \A i \in 1 .. Len(st) :
             h[i] = IF st[i] \in drop THEN h[i - 1] ELSE Append(h[i - 1], st[i])
  BY <1>6 DEF Kept
<1>8. Len(s) \in Nat /\ Len(t) \in Nat
  OBVIOUS
<1>9. \A i \in 0 .. Len(s) : h[i] = f[i]
  <2> DEFINE T == {i \in 0 .. Len(s) : h[i] = f[i]}
  <2>1. 0 \in T
    BY <1>2, <1>7, <1>8
  <2>2. \A i \in 0 .. Len(s) : i # Len(s) /\ i \in T => i + 1 \in T
    <3> SUFFICES ASSUME NEW i \in 0 .. Len(s), i # Len(s), i \in T PROVE i + 1 \in T
      OBVIOUS
    <3>1. /\ i + 1 \in 1 .. Len(s) /\ i + 1 \in 0 .. Len(s)
          /\ i + 1 \in 1 .. Len(st) /\ (i + 1) - 1 = i
      BY <1>5, <1>8
    <3>2. h[i + 1] = IF s[i + 1] \in drop THEN h[i] ELSE Append(h[i], s[i + 1])
      BY <1>5, <1>7, <3>1
    <3>3. f[i + 1] = IF s[i + 1] \in drop THEN f[i] ELSE Append(f[i], s[i + 1])
      BY <1>2, <3>1
    <3>4. QED
      BY <3>1, <3>2, <3>3
  <2> HIDE DEF T
  <2>3. \A i \in 0 .. Len(s) : i \in T
    BY <1>8, <2>1, <2>2, Induction, Zenon
  <2>4. QED
    BY <2>3 DEF T
<1>10. f[Len(s)] \in Seq(Bytes)
  BY <1>2, <1>8
<1>11. \A i \in 0 .. Len(t) : h[Len(s) + i] = f[Len(s)] \o g[i]
  <2> DEFINE T == {i \in 0 .. Len(t) : h[Len(s) + i] = f[Len(s)] \o g[i]}
  <2>1. 0 \in T
    <3>1. h[Len(s) + 0] = f[Len(s)] /\ 0 \in 0 .. Len(t)
      BY <1>8, <1>9
    <3>2. f[Len(s)] \o g[0] = f[Len(s)]
      BY <1>4, <1>10
    <3>3. QED
      BY <3>1, <3>2
  <2>2. \A i \in 0 .. Len(t) : i # Len(t) /\ i \in T => i + 1 \in T
    <3> SUFFICES ASSUME NEW i \in 0 .. Len(t), i # Len(t), i \in T PROVE i + 1 \in T
      OBVIOUS
    <3>1. /\ i + 1 \in 1 .. Len(t) /\ i + 1 \in 0 .. Len(t) /\ (i + 1) - 1 = i
          /\ Len(s) + (i + 1) \in 1 .. Len(st) /\ (Len(s) + (i + 1)) - 1 = Len(s) + i
      BY <1>5, <1>8
    <3>2. h[Len(s) + (i + 1)] = IF t[i + 1] \in drop THEN h[Len(s) + i]
                                ELSE Append(h[Len(s) + i], t[i + 1])
      <4>1. st[Len(s) + (i + 1)] = t[i + 1]
        BY <1>5, <3>1
      <4>2. QED
        BY <1>7, <3>1, <4>1
    <3>3. g[i + 1] = IF t[i + 1] \in drop THEN g[i] ELSE Append(g[i], t[i + 1])
      BY <1>4, <3>1
    <3>4. g[i] \in Seq(Bytes) /\ t[i + 1] \in Bytes
      <4> HIDE DEF T
      <4>1. g[i] \in Seq(Bytes)
        BY <1>4
      <4>2. t[i + 1] \in Bytes
        BY <3>1
      <4>3. QED
        BY <4>1, <4>2
    <3>5. Append(f[Len(s)] \o g[i], t[i + 1]) = f[Len(s)] \o Append(g[i], t[i + 1])
      BY <1>10, <3>4, AppendCat, Zenon
    <3>6. h[Len(s) + i] = f[Len(s)] \o g[i]
      OBVIOUS
    <3>7. h[Len(s) + (i + 1)] = f[Len(s)] \o g[i + 1]
      BY <3>2, <3>3, <3>5, <3>6
    <3>8. QED
      BY <3>1, <3>7
  <2> HIDE DEF T
  <2>3. \A i \in 0 .. Len(t) : i \in T
    BY <1>8, <2>1, <2>2, Induction, Zenon
  <2>4. QED
    BY <2>3 DEF T
<1>12. h[Len(st)] = f[Len(s)] \o g[Len(t)]
  <2>1. Len(t) \in 0 .. Len(t)
    BY <1>8
  <2>2. h[Len(s) + Len(t)] = f[Len(s)] \o g[Len(t)]
    BY <1>11, <2>1, Zenon
  <2>3. QED
    BY <1>5, <2>2
<1>13. QED
  BY <1>2, <1>4, <1>7, <1>12 DEF st

-----------------------------------------------------------------------------
(* White space.                                                            *)

LEMMA SqueezedType ==
    ASSUME NEW s \in Seq(Bytes)
    PROVE  Squeezed(s) \in Seq(Bytes)
BY WithoutType DEF Squeezed

LEMMA SqueezedBlank ==
    ASSUME NEW s \in Seq(Bytes)
    PROVE  Blank(s) <=> Squeezed(s) = <<>>
<1>1. Squeezed(s) = <<>> <=> \A i \in 1 .. Len(s) : s[i] \in Whites
  BY WithoutEmpty DEF Squeezed
<1>2. DOMAIN s = 1 .. Len(s)
  OBVIOUS
<1>3. QED
  BY <1>1, <1>2, Zenon DEF Blank, White

LEMMA SqueezedCat ==
    ASSUME NEW s \in Seq(Bytes), NEW t \in Seq(Bytes)
    PROVE  Squeezed(s \o t) = Squeezed(s) \o Squeezed(t)
BY WithoutCat DEF Squeezed

(* A blank piece in front or behind adds nothing.                          *)
LEMMA SqueezedAround ==
    ASSUME NEW s \in Seq(Bytes), NEW t \in Seq(Bytes)
    PROVE  /\ Blank(s) => Squeezed(s \o t) = Squeezed(t)
           /\ Blank(t) => Squeezed(s \o t) = Squeezed(s)
<1>1. Squeezed(s) \in Seq(Bytes) /\ Squeezed(t) \in Seq(Bytes)
  BY SqueezedType
<1>2. Blank(s) => Squeezed(s) = <<>>
  BY SqueezedBlank
<1>3. Blank(t) => Squeezed(t) = <<>>
  BY SqueezedBlank
<1>4. Squeezed(s \o t) = Squeezed(s) \o Squeezed(t)
  BY SqueezedCat
<1>5. QED
  BY <1>1, <1>2, <1>3, <1>4, ConcatEmptySeq

(* StartAt finds the first byte that is not white.                         *)
LEMMA StartAtIs ==
    ASSUME NEW s \in Seq(Bytes)
    PROVE  /\ StartAt(s) \in 1 .. Len(s) + 1
           /\ \A j \in 1 .. StartAt(s) - 1 : White(s[j])
           /\ StartAt(s) <= Len(s) => ~White(s[StartAt(s)])
<1> DEFINE T == {i \in 1 .. Len(s) + 1 : i <= Len(s) => ~White(s[i])}
<1>1. Len(s) \in Nat
  OBVIOUS
<1>2. Len(s) + 1 \in T /\ T \subseteq Nat
  BY <1>1
<1>3. PICK x \in T : \A y \in T : x <= y
  <2> HIDE DEF T
  <2>1. T # {}
    BY <1>2
  <2>2. QED
    BY <1>2, <2>1, LeastNat
<1>4. x \in 1 .. Len(s) + 1 /\ (x <= Len(s) => ~White(s[x]))
  OBVIOUS
<1>5. ASSUME NEW j \in 1 .. x - 1 PROVE White(s[j])
  <2>1. j \in 1 .. Len(s) + 1 /\ j <= Len(s) /\ ~(x <= j)
    BY <1>1, <1>4
  <2>2. j \notin T
    BY <1>3, <2>1
  <2>3. QED
    BY <2>1, <2>2
<1> HIDE DEF T
<1>6. \E i \in 1 .. Len(s) + 1 :
          /\ \A j \in 1 .. i - 1 : White(s[j])
          /\ i <= Len(s) => ~White(s[i])
  BY <1>4, <1>5
<1>7. QED
  BY <1>6, Zenon DEF StartAt

LEMMA TrimStartIs ==
    ASSUME NEW s \in Seq(Bytes)
    PROVE  TrimStart(s) \in Seq(Bytes) /\ Squeezed(TrimStart(s)) = Squeezed(s)
<1> DEFINE i == StartAt(s)
           a == SubSeq(s, 1, i - 1)
<1>1. i \in 1 .. Len(s) + 1 /\ Len(s) \in Nat /\ \A j \in 1 .. i - 1 : White(s[j])
  BY StartAtIs
<1> HIDE DEF i
<1>2. a \in Seq(Bytes) /\ SubSeq(s, i, Len(s)) \in Seq(Bytes)
  BY <1>1
<1>3. Blank(a)
  <2>1. Len(a) = i - 1 /\ \A j \in 1 .. i - 1 : a[j] = s[j]
    BY <1>1
  <2>2. DOMAIN a = 1 .. Len(a)
    BY <1>2
  <2> HIDE DEF a
  <2>3. QED
    BY <1>1, <2>1, <2>2 DEF Blank
<1>4. a \o SubSeq(s, i, Len(s)) = s
  <2>1. 1 \in 1 .. Len(s) + 1 /\ i - 1 \in 1 - 1 .. Len(s) /\ Len(s) \in (i - 1) .. Len(s)
    BY <1>1
  <2>2. SubSeq(s, 1, i - 1) \o SubSeq(s, (i - 1) + 1, Len(s)) = SubSeq(s, 1, Len(s))
    BY <2>1, ConcatAdjacentSubSeq, Zenon
  <2>3. (i - 1) + 1 = i
    BY <1>1
  <2>4. QED
    BY <2>2, <2>3, SubSeqFull
<1> HIDE DEF a
<1>5. Squeezed(a \o SubSeq(s, i, Len(s))) = Squeezed(SubSeq(s, i, Len(s)))
  BY <1>2, <1>3, SqueezedAround, Zenon
<1>6. QED
  BY <1>2, <1>4, <1>5 DEF TrimStart, i

(* A line carries a field, and its value, from its first byte that is not  *)
(* white.                                                                  *)
IsData(line) == TrimStart(line) # <<>> /\ Head(TrimStart(line)) = "data"
Value(line)  == Tail(TrimStart(line))

LEMMA FieldIs ==
    ASSUME NEW line \in Seq(Bytes)
    PROVE  /\ IsData(line) <=> StartAt(line) <= Len(line) /\ line[StartAt(line)] = "data"
           /\ StartAt(line) <= Len(line) =>
                  Value(line) = SubSeq(line, StartAt(line) + 1, Len(line))
<1> DEFINE i == StartAt(line)
<1>1. i \in 1 .. Len(line) + 1 /\ Len(line) \in Nat
  BY StartAtIs
<1>2. TrimStart(line) = SubSeq(line, i, Len(line))
  BY DEF TrimStart
<1> HIDE DEF i
<1>3. CASE i <= Len(line)
  <2>1. i \in 1 .. Len(line) /\ Len(line) \in i .. Len(line)
    BY <1>1, <1>3
  <2>2. /\ Head(SubSeq(line, i, Len(line))) = line[i]
        /\ Tail(SubSeq(line, i, Len(line))) = SubSeq(line, i + 1, Len(line))
    BY <2>1, HeadTailOfSubSeq
  <2>3. SubSeq(line, i, Len(line)) # <<>>
    <3>1. Len(SubSeq(line, i, Len(line))) # 0
      BY <2>1
    <3>2. Len(<<>>) = 0
      OBVIOUS
    <3>3. QED
      BY <3>1, <3>2, Zenon
  <2>4. QED
    BY <1>2, <1>3, <2>2, <2>3 DEF IsData, Value, i
<1>4. CASE ~(i <= Len(line))
  <2>1. SubSeq(line, i, Len(line)) = <<>>
    BY <1>1, <1>4, SubSeqEmpty
  <2>2. QED
    BY <1>2, <1>4, <2>1 DEF IsData, i
<1>5. QED
  BY <1>3, <1>4

(* A line of one byte.                                                     *)
LEMMA OneByte ==
    ASSUME NEW b \in Bytes
    PROVE  <<b>> \in Seq(Bytes) /\ Len(<<b>>) = 1 /\ <<b>>[1] = b /\ (White(b) => Blank(<<b>>))
<1>1. <<b>> \in Seq(Bytes) /\ Len(<<b>>) = 1 /\ <<b>>[1] = b /\ DOMAIN <<b>> = 1 .. 1
  OBVIOUS
<1>2. QED
  BY <1>1 DEF Blank

(* What a field line adds to an event, white space apart.                  *)
LEMMA AddFieldIs ==
    ASSUME NEW event \in Seq(Bytes), NEW line \in Seq(Bytes)
    PROVE  /\ AddField(event, line) \in Seq(Bytes)
           /\ Squeezed(AddField(event, line)) =
                  IF IsData(line) THEN Squeezed(event) \o Squeezed(Value(line))
                  ELSE Squeezed(event)
<1>1. CASE ~IsData(line)
  BY <1>1 DEF AddField, IsData
<1>2. CASE IsData(line)
  <2> DEFINE sep == IF event = <<>> THEN <<>> ELSE <<"nl">>
             v   == Value(line)
             w   == TrimStart(v)
  <2>1. TrimStart(line) \in Seq(Bytes) /\ TrimStart(line) # <<>>
    BY <1>2, TrimStartIs DEF IsData
  <2>2. v \in Seq(Bytes)
    BY <2>1 DEF Value
  <2>3. w \in Seq(Bytes) /\ Squeezed(w) = Squeezed(v)
    <3> HIDE DEF v
    <3>1. QED
      BY <2>2, TrimStartIs
  <2>4. AddField(event, line) = (event \o sep) \o w
    BY <1>2 DEF AddField, IsData, Value
  <2>5. sep \in Seq(Bytes) /\ Blank(sep)
    <3>1. "nl" \in Bytes /\ White("nl")
      BY SseAssumption DEF White, Whites
    <3>2. <<"nl">> \in Seq(Bytes) /\ Blank(<<"nl">>)
      BY <3>1, OneByte
    <3>3. <<>> \in Seq(Bytes) /\ Blank(<<>>)
      BY DEF Blank
    <3>4. QED
      BY <3>2, <3>3
  <2> HIDE DEF sep, v, w
  <2>6. event \o sep \in Seq(Bytes)
    BY <2>5
  <2>7. Squeezed(event \o sep) = Squeezed(event)
    BY <2>5, SqueezedAround
  <2>8. Squeezed((event \o sep) \o w) = Squeezed(event \o sep) \o Squeezed(w)
    BY <2>3, <2>6, SqueezedCat
  <2>9. (event \o sep) \o w \in Seq(Bytes)
    BY <2>3, <2>6
  <2>10. QED
    BY <1>2, <2>3, <2>4, <2>7, <2>8, <2>9 DEF v
<1>3. QED
  BY <1>1, <1>2

(* A carriage return at the end of a line changes neither.                 *)
LEMMA FieldWithCr ==
    ASSUME NEW m \in Seq(Bytes), ~Blank(m)
    PROVE  /\ IsData(m \o <<"cr">>) <=> IsData(m)
           /\ IsData(m) => Squeezed(Value(m \o <<"cr">>)) = Squeezed(Value(m))
<1> DEFINE l == m \o <<"cr">>
           i == StartAt(m)
           k == StartAt(l)
<1>1. /\ l \in Seq(Bytes) /\ Len(l) = Len(m) + 1 /\ Len(m) \in Nat
      /\ \A j \in 1 .. Len(m) : l[j] = m[j]
  <2>1. <<"cr">> \in Seq(Bytes) /\ Len(<<"cr">>) = 1
    BY OneByte, SseAssumption
  <2>2. /\ l \in Seq(Bytes) /\ Len(l) = Len(m) + Len(<<"cr">>)
        /\ \A j \in 1 .. Len(m) : l[j] = m[j]
    BY <2>1, CatIs, Zenon
  <2> HIDE DEF l
  <2>3. Len(m) \in Nat
    OBVIOUS
  <2>4. QED
    BY <2>1, <2>2, <2>3
<1>2. PICK p \in 1 .. Len(m) : ~White(m[p])
  BY DEF Blank
<1> HIDE DEF l
<1>3. /\ i \in 1 .. Len(m) + 1
      /\ \A j \in 1 .. i - 1 : White(m[j])
      /\ i <= Len(m) => ~White(m[i])
  BY StartAtIs
<1>4. /\ k \in 1 .. Len(l) + 1
      /\ \A j \in 1 .. k - 1 : White(l[j])
      /\ k <= Len(l) => ~White(l[k])
  BY <1>1, StartAtIs
<1> HIDE DEF i, k
<1>5. i <= Len(m)
  <2> SUFFICES ASSUME ~(i <= Len(m)) PROVE FALSE
    OBVIOUS
  <2>1. p \in 1 .. i - 1
    BY <1>1, <1>3
  <2>2. QED
    BY <1>2, <1>3, <2>1
<1>6. ~(i < k)
  <2> SUFFICES ASSUME i < k PROVE FALSE
    OBVIOUS
  <2>1. i \in 1 .. k - 1 /\ i \in 1 .. Len(m)
    BY <1>1, <1>3, <1>4, <1>5
  <2>2. White(l[i]) /\ l[i] = m[i]
    BY <1>1, <1>4, <2>1
  <2>3. QED
    BY <1>3, <1>5, <2>2
<1>7. ~(k < i)
  <2> SUFFICES ASSUME k < i PROVE FALSE
    OBVIOUS
  <2>1. k \in 1 .. i - 1 /\ k \in 1 .. Len(m) /\ k <= Len(l)
    BY <1>1, <1>3, <1>4, <1>5
  <2>2. White(m[k]) /\ l[k] = m[k]
    BY <1>1, <1>3, <2>1
  <2>3. QED
    BY <1>4, <2>1, <2>2
<1>8. k = i /\ i \in 1 .. Len(m)
  BY <1>1, <1>3, <1>4, <1>5, <1>6, <1>7
<1>9. IsData(l) <=> IsData(m)
  <2>1. IsData(m) <=> m[i] = "data"
    BY <1>5, FieldIs DEF i
  <2>2. IsData(l) <=> k <= Len(l) /\ l[k] = "data"
    BY <1>1, FieldIs DEF k
  <2>3. l[k] = m[i] /\ k <= Len(l)
    BY <1>1, <1>8
  <2>4. QED
    BY <2>1, <2>2, <2>3
<1>10. Squeezed(Value(l)) = Squeezed(Value(m))
  <2> DEFINE a == SubSeq(m, i + 1, Len(m))
  <2>1. Value(m) = a
    BY <1>5, FieldIs DEF i
  <2>2. Value(l) = SubSeq(l, i + 1, Len(m) + 1)
    <3>1. k <= Len(l)
      BY <1>1, <1>8
    <3>2. Value(l) = SubSeq(l, k + 1, Len(l))
      BY <1>1, <3>1, FieldIs DEF k
    <3>3. QED
      BY <1>1, <1>8, <3>2
  <2>3. a \in Seq(Bytes) /\ Len(a) = Len(m) - i /\ \A j \in 1 .. Len(m) - i : a[j] = m[i + j]
    BY <1>1, <1>8
  <2> HIDE DEF a
  <2>4. "cr" \in Bytes /\ White("cr")
    BY SseAssumption DEF White, Whites
  <2>5. /\ <<"cr">> \in Seq(Bytes) /\ Len(<<"cr">>) = 1
        /\ <<"cr">>[1] = "cr" /\ Blank(<<"cr">>)
    BY <2>4, OneByte
  <2>6. SubSeq(l, i + 1, Len(m) + 1) = a \o <<"cr">>
    <3> DEFINE c == <<"cr">>
               x == SubSeq(l, i + 1, Len(m) + 1)
               y == a \o c
    <3>1. c \in Seq(Bytes) /\ Len(c) = 1 /\ c[1] = "cr"
      BY <2>5
    <3> HIDE DEF c
    <3>2. l[Len(m) + 1] = c[1]
      <4>1. l = m \o c
        BY DEF l, c
      <4>2. \A j \in 1 .. Len(c) : (m \o c)[Len(m) + j] = c[j]
        BY <3>1, CatIs, Zenon
      <4>3. 1 \in 1 .. Len(c)
        BY <3>1
      <4>4. QED
        BY <4>1, <4>2, <4>3, Zenon
    <3>3. /\ x \in Seq(Bytes) /\ Len(x) = Len(m) - i + 1
          /\ \A j \in 1 .. Len(m) - i + 1 : x[j] = l[i + j]
      BY <1>1, <1>8
    <3>4. /\ y \in Seq(Bytes) /\ Len(y) = Len(m) - i + 1
          /\ \A j \in 1 .. Len(m) - i : y[j] = a[j]
          /\ y[Len(m) - i + 1] = c[1]
      <4>1. /\ y \in Seq(Bytes) /\ Len(y) = Len(a) + Len(c)
            /\ \A j \in 1 .. Len(a) : y[j] = a[j]
            /\ \A j \in 1 .. Len(c) : y[Len(a) + j] = c[j]
        BY <2>3, <3>1, CatIs, Zenon
      <4> HIDE DEF y
      <4>2. QED
        BY <1>1, <1>8, <2>3, <3>1, <4>1
    <3> HIDE DEF x, y
    <3>5. ASSUME NEW j \in 1 .. Len(m) - i + 1 PROVE x[j] = y[j]
      <4>1. CASE j \in 1 .. Len(m) - i
        BY <1>1, <1>8, <2>3, <3>3, <3>4, <4>1
      <4>2. CASE j = Len(m) - i + 1
        BY <1>1, <1>8, <3>2, <3>3, <3>4, <4>2
      <4>3. QED
        BY <1>1, <1>8, <4>1, <4>2
    <3>6. x = y
      BY <3>3, <3>4, <3>5, SeqEqual
    <3>7. QED
      BY <3>6 DEF x, y, c
  <2>7. Squeezed(a \o <<"cr">>) = Squeezed(a)
    BY <2>3, <2>5, SqueezedAround, Zenon
  <2>8. QED
    BY <2>1, <2>2, <2>6, <2>7, Zenon
<1>11. QED
  BY <1>9, <1>10 DEF l

(* Two events that agree but for white space still do after one line, with *)
(* or without its carriage return.                                         *)
LEMMA SameField ==
    ASSUME NEW e \in Seq(Bytes), NEW a \in Seq(Bytes), Squeezed(e) = Squeezed(a),
           NEW m \in Seq(Bytes), ~Blank(m),
           NEW l \in Seq(Bytes), l = m \/ l = m \o <<"cr">>
    PROVE  Squeezed(AddField(e, m)) = Squeezed(AddField(a, l))
<1>1. Squeezed(AddField(e, m)) =
          IF IsData(m) THEN Squeezed(e) \o Squeezed(Value(m)) ELSE Squeezed(e)
  BY AddFieldIs
<1>2. Squeezed(AddField(a, l)) =
          IF IsData(l) THEN Squeezed(a) \o Squeezed(Value(l)) ELSE Squeezed(a)
  BY AddFieldIs
<1>3. /\ IsData(l) <=> IsData(m)
      /\ IsData(m) => Squeezed(Value(l)) = Squeezed(Value(m))
  <2>1. CASE l = m
    BY <2>1
  <2>2. CASE l = m \o <<"cr">>
    BY <2>2, FieldWithCr
  <2>3. QED
    BY <2>1, <2>2
<1>4. QED
  BY <1>1, <1>2, <1>3

LEMMA StripCrIs ==
    ASSUME NEW l \in Seq(Bytes)
    PROVE  /\ StripCr(l) \in Seq(Bytes)
           /\ l = StripCr(l) \/ l = StripCr(l) \o <<"cr">>
<1>1. CASE l # <<>> /\ Last(l) = "cr"
  <2> DEFINE n == Len(l)
             f == SubSeq(l, 1, n - 1)
  <2>1. StripCr(l) = f
    BY <1>1 DEF StripCr, Front
  <2>2. n \in Nat /\ n # 0 /\ l[n] = "cr"
    BY <1>1 DEF Last
  <2>3. 1 \in 1 .. Len(l) /\ Len(l) \in 1 .. Len(l)
    BY <2>2
  <2>4. f \in Seq(Bytes)
    BY <2>2
  <2>5. SubSeq(l, 1, Len(l)) = SubSeq(l, 1, Len(l) - 1) \o <<l[Len(l)]>>
    BY <2>3, SubSeqRecursiveSecond, Zenon
  <2>6. SubSeq(l, 1, Len(l)) = l
    BY SubSeqFull
  <2>7. l = f \o <<"cr">>
    BY <2>2, <2>5, <2>6, Zenon
  <2>8. QED
    BY <2>1, <2>4, <2>7, Zenon
<1>2. CASE ~(l # <<>> /\ Last(l) = "cr")
  BY <1>2 DEF StripCr
<1>3. QED
  BY <1>1, <1>2

-----------------------------------------------------------------------------
(* The parser.                                                             *)

Result == [ok : BOOLEAN, event : Seq(Bytes), chunks : Seq(Chunk)]

(* A result whose chunks are not errors, and has none when it failed.      *)
Sane(p) ==
    /\ p \in Result
    /\ \A i \in DOMAIN p.chunks : ~p.chunks[i].error
    /\ ~p.ok => p.chunks = <<>> /\ p.event = <<>>

LEMMA ChunksOfType ==
    ASSUME NEW doc \in Documents
    PROVE  /\ ChunksOf(doc) \in Seq(Chunk)
           /\ \A i \in DOMAIN ChunksOf(doc) : ~ChunksOf(doc)[i].error
<1> DEFINE said == Without(doc.choices, {""})
           one  == [error |-> FALSE, delta |-> "", usage |-> TRUE]
           each == [i \in DOMAIN said |->
                       [error |-> FALSE, delta |-> said[i], usage |-> doc.usage]]
<1>1. doc.choices \in Seq(Deltas) /\ doc.usage \in BOOLEAN
  BY SseAssumption DEF Document
<1>2. said \in Seq(Deltas)
  BY <1>1, WithoutType
<1>3. ChunksOf(doc) = IF said = <<>> /\ doc.usage THEN <<one>> ELSE each
  BY DEF ChunksOf
<1> HIDE DEF said
<1>4. each \in Seq(Chunk) /\ \A i \in DOMAIN each : ~each[i].error
  <2>1. Len(said) \in Nat /\ DOMAIN said = 1 .. Len(said)
        /\ \A i \in 1 .. Len(said) : said[i] \in Deltas
    BY <1>2
  <2>2. \A i \in 1 .. Len(said) :
            [error |-> FALSE, delta |-> said[i], usage |-> doc.usage] \in Chunk
    BY <1>1, <2>1 DEF Chunk
  <2>3. QED
    BY <2>1, <2>2
<1>5. <<one>> \in Seq(Chunk) /\ \A i \in DOMAIN <<one>> : ~<<one>>[i].error
  <2>1. one \in Chunk /\ ~one.error
    BY SseAssumption DEF Chunk
  <2> HIDE DEF one
  <2>2. QED
    BY <2>1
<1> HIDE DEF one, each
<1>6. QED
  BY <1>3, <1>4, <1>5

LEMMA ParsedSane ==
    ASSUME NEW event \in Seq(Bytes)
    PROVE  Sane(Parsed(event, <<>>))
BY DEF Sane, Parsed, Result

LEMMA RefusedSane == Sane(Refused) /\ ~Refused.ok
BY DEF Sane, Refused, Result

(* The result that leaves nothing.                                         *)
LEMMA NothingParsed ==
    /\ Sane(Parsed(<<>>, <<>>))
    /\ Parsed(<<>>, <<>>).ok /\ Parsed(<<>>, <<>>).event = <<>>
    /\ Parsed(<<>>, <<>>).chunks = <<>>
<1>1. <<>> \in Seq(Bytes)
  OBVIOUS
<1>2. Sane(Parsed(<<>>, <<>>))
  BY <1>1, ParsedSane
<1>3. QED
  BY <1>2 DEF Parsed

LEMMA FlushIs ==
    ASSUME NEW e \in Seq(Bytes)
    PROVE  Sane(Flush(e)) /\ Flush(e).event = <<>>
<1>1. CASE Blank(e)
  BY <1>1, NothingParsed DEF Flush
<1>2. CASE ~Blank(e)
  <2> DEFINE json == Squeezed(e)
             doc  == CHOOSE d \in Documents : d.json = json
  <2>1. Flush(e) = IF json = <<"done">> THEN Parsed(<<>>, <<>>)
                   ELSE IF \E d \in Documents : d.json = json
                   THEN Parsed(<<>>, ChunksOf(doc))
                   ELSE Refused
    BY <1>2 DEF Flush, ParseStreamEvent
  <2> HIDE DEF json
  <2>2. CASE json = <<"done">>
    BY <2>1, <2>2, NothingParsed
  <2>3. CASE json # <<"done">> /\ \E d \in Documents : d.json = json
    <3>1. doc \in Documents
      BY <2>3
    <3> HIDE DEF doc
    <3>2. /\ ChunksOf(doc) \in Seq(Chunk)
          /\ \A i \in DOMAIN ChunksOf(doc) : ~ChunksOf(doc)[i].error
      BY <3>1, ChunksOfType
    <3>3. Sane(Parsed(<<>>, ChunksOf(doc)))
      BY <3>2 DEF Sane, Parsed, Result
    <3>4. QED
      BY <2>1, <2>3, <3>3 DEF Parsed
  <2>4. CASE json # <<"done">> /\ ~\E d \in Documents : d.json = json
    BY <2>1, <2>4, RefusedSane DEF Refused
  <2>5. QED
    BY <2>2, <2>3, <2>4
<1>3. QED
  BY <1>1, <1>2

(* White space inside an event makes no difference to its chunks.          *)
LEMMA FlushSame ==
    ASSUME NEW e \in Seq(Bytes), NEW a \in Seq(Bytes), Squeezed(e) = Squeezed(a)
    PROVE  Flush(e) = Flush(a) /\ (Blank(e) <=> Blank(a))
<1>1. Blank(e) <=> Blank(a)
  BY SqueezedBlank
<1>2. ParseStreamEvent(e) = ParseStreamEvent(a)
  BY DEF ParseStreamEvent
<1>3. QED
  BY <1>1, <1>2 DEF Flush

LEMMA ProcessIs ==
    ASSUME NEW e \in Seq(Bytes), NEW line \in Seq(Bytes)
    PROVE  Sane(ProcessSseLine(e, line))
<1>1. AddField(e, line) \in Seq(Bytes)
  BY AddFieldIs
<1>2. Sane(Parsed(AddField(e, line), <<>>))
  BY <1>1, ParsedSane
<1>3. Sane(Flush(e)) /\ Sane(Refused)
  BY FlushIs, RefusedSane
<1>4. QED
  BY <1>2, <1>3 DEF ProcessSseLine

LEMMA CloseIs ==
    ASSUME NEW e \in Seq(Bytes), NEW line \in Seq(Bytes)
    PROVE  Sane(Close(e, line)) /\ Close(e, line).event = <<>>
<1> DEFINE p == IF line = <<>> THEN Parsed(e, <<>>) ELSE ProcessSseLine(e, line)
<1>1. Sane(p)
  BY ParsedSane, ProcessIs
<1>2. Close(e, line) = IF p.ok THEN Flush(p.event) ELSE p
  BY DEF Close
<1> HIDE DEF p
<1>3. p.event \in Seq(Bytes)
  BY <1>1 DEF Sane, Result
<1>4. ~p.ok => p.event = <<>>
  BY <1>1 DEF Sane
<1>5. QED
  BY <1>1, <1>2, <1>3, <1>4, FlushIs

(* AddLine, in the terms of the stream's own steps.                        *)
LEMMA AddLineIs ==
    ASSUME NEW acc \in Result, NEW line \in Seq(Bytes), acc.ok
    PROVE  LET a == AddLine(acc, line) IN
           /\ a \in Result
           /\ (\E i \in DOMAIN line : line[i] = "bad") =>
                  ~a.ok /\ a.chunks = acc.chunks
           /\ ~(\E i \in DOMAIN line : line[i] = "bad") /\ ~Blank(line) =>
                  a.ok /\ a.chunks = acc.chunks /\ a.event = AddField(acc.event, line)
           /\ ~(\E i \in DOMAIN line : line[i] = "bad") /\ Blank(line) =>
                  /\ a.ok = Flush(acc.event).ok
                  /\ a.chunks = acc.chunks \o Flush(acc.event).chunks
                  /\ Blank(a.event)
<1> DEFINE a == AddLine(acc, line)
           f == Flush(acc.event)
           HasBad == \E i \in DOMAIN line : line[i] = "bad"
<1>1. /\ acc.ok \in BOOLEAN /\ acc.event \in Seq(Bytes) /\ acc.chunks \in Seq(Chunk)
      /\ acc = [ok |-> acc.ok, event |-> acc.event, chunks |-> acc.chunks]
  BY DEF Result
<1>2. Sane(f) /\ f.event = <<>>
  BY <1>1, FlushIs
<1>3. CASE HasBad
  <2>1. a = [acc EXCEPT !.ok = FALSE]
    BY <1>3 DEF AddLine
  <2>2. QED
    BY <1>3, <2>1, <1>1 DEF Result
<1>4. CASE ~HasBad /\ ~Blank(line)
  <2>1. a = [acc EXCEPT !.event = AddField(acc.event, line)]
    BY <1>4 DEF AddLine
  <2>2. AddField(acc.event, line) \in Seq(Bytes)
    BY <1>1, AddFieldIs
  <2>3. QED
    BY <1>4, <2>1, <2>2, <1>1 DEF Result
<1>5. CASE ~HasBad /\ Blank(line) /\ Blank(acc.event)
  <2>1. a = acc
    BY <1>5 DEF AddLine
  <2>2. f.ok /\ f.chunks = <<>>
    BY <1>5, NothingParsed DEF Flush
  <2>3. acc.chunks \o <<>> = acc.chunks
    BY <1>1, ConcatEmptySeq
  <2>4. QED
    BY <1>1, <1>5, <2>1, <2>2, <2>3
<1>6. CASE ~HasBad /\ Blank(line) /\ ~Blank(acc.event)
  <2>1. a = [ok |-> f.ok, event |-> <<>>, chunks |-> acc.chunks \o f.chunks]
    BY <1>6 DEF AddLine, Flush
  <2> HIDE DEF f, a
  <2>2. f.ok \in BOOLEAN /\ f.chunks \in Seq(Chunk)
    BY <1>2 DEF Sane, Result
  <2>3. acc.chunks \o f.chunks \in Seq(Chunk)
    BY <1>1, <2>2
  <2>4. <<>> \in Seq(Bytes) /\ Blank(<<>>)
    BY DEF Blank
  <2>5. a \in Result
    BY <2>1, <2>2, <2>3, <2>4 DEF Result
  <2>6. a.ok = f.ok /\ a.chunks = acc.chunks \o f.chunks /\ a.event = <<>>
    BY <2>1
  <2>7. QED
    BY <1>6, <2>4, <2>5, <2>6, Zenon DEF f, a
<1>7. QED
  BY <1>3, <1>4, <1>5, <1>6

(* What a line says does not depend on its carriage return.                *)
LEMMA SameLine ==
    ASSUME NEW m \in Seq(Bytes), NEW l \in Seq(Bytes), l = m \/ l = m \o <<"cr">>
    PROVE  /\ (\E i \in DOMAIN l : l[i] = "bad") <=> (\E i \in DOMAIN m : m[i] = "bad")
           /\ Blank(l) <=> Blank(m)
<1>1. CASE l = m
  BY <1>1
<1>2. CASE l = m \o <<"cr">>
  <2> DEFINE c == <<"cr">>
  <2>1. "cr" \in Bytes /\ White("cr") /\ "cr" # "bad"
    BY SseAssumption DEF White, Whites
  <2>2. c \in Seq(Bytes) /\ Len(c) = 1 /\ c[1] = "cr"
    BY <2>1, OneByte
  <2>3. Blank(c)
    BY <2>1, OneByte
  <2>4. l = m \o c
    BY <1>2
  <2> HIDE DEF c
  <2>5. /\ Len(l) = Len(m) + Len(c)
        /\ \A j \in 1 .. Len(m) : l[j] = m[j]
        /\ \A j \in 1 .. Len(c) : l[Len(m) + j] = c[j]
    BY <2>4, <2>2, CatIs
  <2>6. Len(m) \in Nat /\ DOMAIN m = 1 .. Len(m) /\ DOMAIN l = 1 .. Len(l)
    OBVIOUS
  <2>7. l[Len(m) + 1] = "cr" /\ Len(l) = Len(m) + 1
    BY <2>2, <2>5, <2>6
  <2>8. DOMAIN l = DOMAIN m \cup {Len(m) + 1} /\ \A j \in DOMAIN m : l[j] = m[j]
    BY <2>5, <2>6, <2>7
  <2>9. (\E i \in DOMAIN l : l[i] = "bad") <=> (\E i \in DOMAIN m : m[i] = "bad")
    BY <2>1, <2>7, <2>8
  <2>10. Blank(l) <=> Blank(m)
    BY <2>1, <2>7, <2>8 DEF Blank
  <2>11. QED
    BY <2>9, <2>10
<1>3. QED
  BY <1>1, <1>2

LEMMA NoBytes ==
    <<>> \in Seq(Bytes) /\ Blank(<<>>) /\ Squeezed(<<>>) = <<>>
        /\ ~\E i \in DOMAIN <<>> : <<>>[i] = "bad"
<1>1. <<>> \in Seq(Bytes) /\ Blank(<<>>) /\ ~\E i \in DOMAIN <<>> : <<>>[i] = "bad"
  BY DEF Blank
<1>2. QED
  BY <1>1, SqueezedBlank

(* The stream's step on a line does what the whole parse does on it.       *)
LEMMA LineSim ==
    ASSUME NEW acc \in Result, acc.ok,
           NEW e \in Seq(Bytes), Squeezed(e) = Squeezed(acc.event),
           NEW m \in Seq(Bytes), NEW l \in Seq(Bytes), l = m \/ l = m \o <<"cr">>,
           Blank(m) => m = <<>>
    PROVE  LET p == ProcessSseLine(e, m)
               a == AddLine(acc, l) IN
           /\ a \in Result /\ a.ok = p.ok
           /\ a.chunks = acc.chunks \o p.chunks
           /\ p.ok => Squeezed(p.event) = Squeezed(a.event)
<1> DEFINE p == ProcessSseLine(e, m)
           a == AddLine(acc, l)
           HasBad(s) == \E i \in DOMAIN s : s[i] = "bad"
<1>1. acc.event \in Seq(Bytes) /\ acc.chunks \in Seq(Chunk)
  BY DEF Result
<1>2. acc.chunks \o <<>> = acc.chunks
  BY <1>1, ConcatEmptySeq
<1>3. /\ a \in Result
      /\ HasBad(l) => ~a.ok /\ a.chunks = acc.chunks
      /\ ~HasBad(l) /\ ~Blank(l) =>
             a.ok /\ a.chunks = acc.chunks /\ a.event = AddField(acc.event, l)
      /\ ~HasBad(l) /\ Blank(l) =>
             /\ a.ok = Flush(acc.event).ok
             /\ a.chunks = acc.chunks \o Flush(acc.event).chunks
             /\ Blank(a.event)
  BY AddLineIs
<1>4. (HasBad(l) <=> HasBad(m)) /\ (Blank(l) <=> Blank(m))
  BY SameLine
<1>5. a.event \in Seq(Bytes) /\ a.ok \in BOOLEAN
  BY <1>3 DEF Result
<1>6. CASE HasBad(m)
  <2>1. p = Refused
    BY <1>6 DEF ProcessSseLine
  <2>2. p.ok = FALSE /\ p.chunks = <<>>
    BY <2>1 DEF Refused
  <2>3. a.ok = FALSE
    BY <1>3, <1>4, <1>5, <1>6
  <2>4. QED
    BY <1>2, <1>3, <1>4, <1>6, <2>2, <2>3
<1>7. CASE ~HasBad(m) /\ Blank(m)
  <2>1. p = Flush(e)
    BY <1>7 DEF ProcessSseLine
  <2>2. p = Flush(acc.event) /\ p.event = <<>>
    BY <1>1, <2>1, FlushSame, FlushIs
  <2>3. Squeezed(p.event) = Squeezed(a.event)
    BY <1>3, <1>4, <1>5, <1>7, <2>2, SqueezedBlank, NoBytes
  <2>4. QED
    BY <1>3, <1>4, <1>7, <2>2, <2>3
<1>8. CASE ~HasBad(m) /\ ~Blank(m)
  <2>1. m # <<>>
    BY <1>8, NoBytes
  <2>2. p = Parsed(AddField(e, m), <<>>)
    BY <1>8, <2>1 DEF ProcessSseLine
  <2>3. p.ok = TRUE /\ p.chunks = <<>> /\ p.event = AddField(e, m)
    BY <2>2 DEF Parsed
  <2>4. Squeezed(AddField(e, m)) = Squeezed(AddField(acc.event, l))
    BY <1>1, <1>8, SameField
  <2>5. a.ok = TRUE /\ a.chunks = acc.chunks /\ a.event = AddField(acc.event, l)
    BY <1>3, <1>4, <1>5, <1>8
  <2>6. QED
    BY <1>2, <1>3, <2>3, <2>4, <2>5
<1>9. QED
  BY <1>6, <1>7, <1>8

(* An empty line flushes the event of a parse that goes on.                *)
LEMMA EmptyLine ==
    ASSUME NEW acc \in Result
    PROVE  LET a == AddLine(acc, <<>>) IN
           /\ ~acc.ok => a = acc
           /\ acc.ok =>
                  /\ a \in Result /\ a.ok = Flush(acc.event).ok
                  /\ a.chunks = acc.chunks \o Flush(acc.event).chunks
<1>1. ~acc.ok => AddLine(acc, <<>>) = acc
  BY DEF AddLine
<1>2. acc.ok => /\ AddLine(acc, <<>>) \in Result
                /\ AddLine(acc, <<>>).ok = Flush(acc.event).ok
                /\ AddLine(acc, <<>>).chunks = acc.chunks \o Flush(acc.event).chunks
  BY AddLineIs, NoBytes, Zenon
<1>3. QED
  BY <1>1, <1>2

(* A blank line says nothing.                                              *)
LEMMA BlankLine ==
    ASSUME NEW line \in Seq(Bytes), Blank(line)
    PROVE  ~IsData(line) /\ ~\E i \in DOMAIN line : line[i] = "bad"
<1>1. ~\E i \in DOMAIN line : line[i] = "bad"
  BY DEF Blank, White, Whites
<1>2. ~White("data")
  BY DEF White, Whites
<1>3. StartAt(line) \in 1 .. Len(line) + 1 /\ Len(line) \in Nat
  BY StartAtIs
<1>4. IsData(line) => StartAt(line) \in DOMAIN line /\ line[StartAt(line)] = "data"
  BY <1>3, FieldIs
<1>5. QED
  BY <1>1, <1>2, <1>4, Zenon DEF Blank

(* The end of the stream does what the whole parse does on the last line.  *)
LEMMA CloseSim ==
    ASSUME NEW acc \in Result, acc.ok,
           NEW e \in Seq(Bytes), Squeezed(e) = Squeezed(acc.event),
           NEW line \in Seq(Bytes)
    PROVE  LET p == Close(e, line)
               a == AddLine(AddLine(acc, line), <<>>) IN
           a \in Result /\ a.ok = p.ok /\ a.chunks = acc.chunks \o p.chunks
<1> DEFINE p  == Close(e, line)
           a1 == AddLine(acc, line)
           a  == AddLine(a1, <<>>)
           HasBad == \E i \in DOMAIN line : line[i] = "bad"
<1>1. acc.event \in Seq(Bytes) /\ acc.chunks \in Seq(Chunk)
  BY DEF Result
<1>2. acc.chunks \o <<>> = acc.chunks
  BY <1>1, ConcatEmptySeq
<1>3. CASE Blank(line)
  <2>1. p = Flush(e)
    <3>1. CASE line = <<>>
      <4>1. Parsed(e, <<>>).ok /\ Parsed(e, <<>>).event = e
        BY DEF Parsed
      <4>2. QED
        BY <3>1, <4>1 DEF Close
    <3>2. CASE line # <<>>
      <4> DEFINE e1 == AddField(e, line)
      <4>1. e1 \in Seq(Bytes) /\ Squeezed(e1) = Squeezed(e)
        BY <1>3, AddFieldIs, BlankLine
      <4>2. ProcessSseLine(e, line) = Parsed(e1, <<>>)
        BY <1>3, <3>2, BlankLine DEF ProcessSseLine
      <4>3. Parsed(e1, <<>>).ok /\ Parsed(e1, <<>>).event = e1
        BY DEF Parsed
      <4>4. p = Flush(e1)
        BY <3>2, <4>2, <4>3 DEF Close
      <4> HIDE DEF e1
      <4>5. QED
        BY <4>1, <4>4, FlushSame
    <3>3. QED
      BY <3>1, <3>2
  <2>2. p = Flush(acc.event)
    BY <1>1, <2>1, FlushSame
  <2>3. /\ a1 \in Result /\ a1.ok = p.ok
        /\ a1.chunks = acc.chunks \o p.chunks /\ Blank(a1.event)
    BY <1>3, <2>2, AddLineIs, BlankLine
  <2> HIDE DEF a1, p
  <2>4. CASE ~a1.ok
    <3>1. a = a1
      BY <2>3, <2>4, EmptyLine
    <3>2. QED
      BY <2>3, <3>1 DEF a1, p
  <2>5. CASE a1.ok
    <3>1. a \in Result /\ a.ok = Flush(a1.event).ok
          /\ a.chunks = a1.chunks \o Flush(a1.event).chunks
      BY <2>3, <2>5, EmptyLine
    <3>2. Flush(a1.event).ok = TRUE /\ Flush(a1.event).chunks = <<>>
      BY <2>3 DEF Flush, Parsed
    <3>3. a1.chunks \in Seq(Chunk) /\ a1.ok \in BOOLEAN
      BY <2>3 DEF Result
    <3>4. a1.chunks \o <<>> = a1.chunks
      BY <3>3, ConcatEmptySeq
    <3> HIDE DEF a
    <3>5. a.ok = p.ok
      BY <2>3, <2>5, <3>1, <3>2, <3>3
    <3>6. a.chunks = acc.chunks \o p.chunks
      BY <2>3, <3>1, <3>2, <3>4
    <3>7. QED
      BY <3>1, <3>5, <3>6 DEF a, a1, p
  <2>6. QED
    BY <2>4, <2>5 DEF a1, p
<1>4. CASE ~Blank(line)
  <2> DEFINE q == ProcessSseLine(e, line)
  <2>1. line # <<>>
    BY <1>4, NoBytes
  <2>2. /\ a1 \in Result /\ a1.ok = q.ok
        /\ a1.chunks = acc.chunks \o q.chunks
        /\ q.ok => Squeezed(q.event) = Squeezed(a1.event)
    BY <1>4, LineSim
  <2>3. p = IF q.ok THEN Flush(q.event) ELSE q
    BY <2>1 DEF Close
  <2>4. Sane(q)
    BY ProcessIs
  <2>5. q.chunks = <<>>
    <3>1. q = Refused \/ q = Parsed(AddField(e, line), <<>>)
      BY <2>1 DEF ProcessSseLine
    <3> HIDE DEF q
    <3>2. QED
      BY <3>1 DEF Refused, Parsed
  <2> HIDE DEF a1, p, q
  <2>6. CASE ~a1.ok
    <3>1. a = a1
      BY <2>2, <2>6, EmptyLine
    <3>2. p = q
      BY <2>2, <2>3, <2>6
    <3>3. QED
      BY <2>2, <3>1, <3>2 DEF a1, p
  <2>7. CASE a1.ok
    <3>1. a \in Result /\ a.ok = Flush(a1.event).ok
          /\ a.chunks = a1.chunks \o Flush(a1.event).chunks
      BY <2>2, <2>7, EmptyLine
    <3>2. q.event \in Seq(Bytes) /\ a1.event \in Seq(Bytes) /\ q.ok
      BY <2>2, <2>4, <2>7 DEF Sane, Result
    <3>3. p = Flush(a1.event)
      BY <2>2, <2>3, <3>2, FlushSame
    <3>4. a1.chunks = acc.chunks
      BY <1>2, <2>2, <2>5
    <3> HIDE DEF a
    <3>5. QED
      BY <3>1, <3>3, <3>4 DEF a, a1, p
  <2>8. QED
    BY <2>6, <2>7
<1>5. QED
  BY <1>3, <1>4

-----------------------------------------------------------------------------
(* The whole parse.                                                        *)

(* The line before the byte at j starts behind the byte at k.              *)
LineFrom(s, k, j) ==
    /\ k \in 0 .. j - 1
    /\ k = 0 \/ s[k] = "nl"
    /\ \A i \in k + 1 .. j - 1 : s[i] # "nl"

LEMMA LineFromExists ==
    ASSUME NEW s, NEW j \in Nat, j # 0
    PROVE  \E k : LineFrom(s, k, j)
<1> DEFINE T == {n \in 0 .. j - 1 : (j - 1) - n = 0 \/ s[(j - 1) - n] = "nl"}
<1>1. j - 1 \in T /\ T \subseteq Nat
  OBVIOUS
<1>2. PICK n \in T : \A y \in T : n <= y
  <2> HIDE DEF T
  <2>1. T # {}
    BY <1>1
  <2>2. QED
    BY <1>1, <2>1, LeastNat
<1> DEFINE k == (j - 1) - n
<1>3. k \in 0 .. j - 1 /\ (k = 0 \/ s[k] = "nl")
  BY <1>2
<1>4. ASSUME NEW i \in k + 1 .. j - 1 PROVE s[i] # "nl"
  <2>1. (j - 1) - i \in 0 .. j - 1 /\ (j - 1) - ((j - 1) - i) = i /\ ~(n <= (j - 1) - i)
    BY <1>3
  <2>2. (j - 1) - i \notin T
    BY <1>2, <2>1
  <2>3. QED
    BY <2>1, <2>2
<1> HIDE DEF k, T
<1>5. LineFrom(s, k, j)
  BY <1>3, <1>4 DEF LineFrom
<1>6. QED
  BY <1>5

LEMMA LineAtIs ==
    ASSUME NEW s, NEW j \in Nat, NEW k, LineFrom(s, k, j)
    PROVE  LineAt(s, j) = SubSeq(s, k + 1, j - 1)
<1> DEFINE before == {i \in 1 .. j - 1 : s[i] = "nl"}
           from   == IF before = {} THEN 0 ELSE Max(before)
<1>1. /\ k \in 0 .. j - 1
      /\ k = 0 \/ s[k] = "nl"
      /\ \A i \in k + 1 .. j - 1 : s[i] # "nl"
  BY DEF LineFrom
<1>2. LineAt(s, j) = SubSeq(s, from + 1, j - 1)
  BY DEF LineAt
<1>3. CASE k = 0
  <2>1. before = {}
    BY <1>1, <1>3
  <2>2. QED
    BY <1>2, <1>3, <2>1
<1>4. CASE k # 0
  <2>1. k \in before /\ \A y \in before : k >= y /\ y \in Nat
    BY <1>1, <1>4
  <2>2. before # {}
    BY <2>1
  <2>3. Max(before) = k
    <3> HIDE DEF before
    <3>1. Max(before) \in before /\ \A y \in before : Max(before) >= y
      BY <2>1 DEF Max
    <3> DEFINE x == Max(before)
    <3>2. x \in Nat /\ k \in Nat /\ x >= k /\ k >= x
      BY <1>1, <2>1, <3>1
    <3> HIDE DEF x
    <3>3. x = k
      BY <3>2
    <3>4. QED
      BY <3>3 DEF x
  <2>4. QED
    BY <1>2, <2>2, <2>3
<1>5. QED
  BY <1>3, <1>4

LEMMA LineAtType ==
    ASSUME NEW s \in Seq(Bytes), NEW j \in 1 .. Len(s) + 1
    PROVE  LineAt(s, j) \in Seq(Bytes)
<1>1. j \in Nat /\ j # 0 /\ Len(s) \in Nat
  OBVIOUS
<1>2. PICK k : LineFrom(s, k, j)
  BY <1>1, LineFromExists, Zenon
<1>3. LineAt(s, j) = SubSeq(s, k + 1, j - 1)
  BY <1>1, <1>2, LineAtIs
<1>4. k \in 0 .. j - 1
  BY <1>2 DEF LineFrom
<1>5. SubSeq(s, k + 1, j - 1) \in Seq(Bytes)
  BY <1>1, <1>4
<1>6. QED
  BY <1>3, <1>5

LEMMA AddLineType ==
    ASSUME NEW acc \in Result, NEW line \in Seq(Bytes)
    PROVE  AddLine(acc, line) \in Result
<1>1. CASE ~acc.ok
  BY <1>1 DEF AddLine
<1>2. CASE acc.ok
  BY <1>2, AddLineIs
<1>3. QED
  BY <1>1, <1>2

(* f is the function that Complete(s) is.                                  *)
Completes(s, f) ==
    f = [j \in 0 .. Len(s) |->
            IF j = 0 THEN Parsed(<<>>, <<>>)
            ELSE IF s[j] = "nl" THEN AddLine(f[j - 1], LineAt(s, j))
            ELSE f[j - 1]]

(* Complete satisfies its own equation, and yields results.                *)
LEMMA CompleteDef ==
    ASSUME NEW s \in Seq(Bytes)
    PROVE  /\ Complete(s) \in [0 .. Len(s) -> Result]
           /\ Complete(s)[0] = Parsed(<<>>, <<>>)
           /\ \A j \in 1 .. Len(s) :
                  Complete(s)[j] = IF s[j] = "nl"
                                   THEN AddLine(Complete(s)[j - 1], LineAt(s, j))
                                   ELSE Complete(s)[j - 1]
<1> DEFINE step == [j \in 1 .. Len(s) |->
                       [a \in Result |->
                           IF s[j] = "nl" THEN AddLine(a, LineAt(s, j)) ELSE a]]
           F == CHOOSE f : Completes(s, f)
           start == Parsed(<<>>, <<>>)
<1>1. step \in [1 .. Len(s) -> [Result -> Result]]
  <2>1. ASSUME NEW j \in 1 .. Len(s), NEW a \in Result
        PROVE  AddLine(a, LineAt(s, j)) \in Result
    <3>1. j \in 1 .. Len(s) + 1
      OBVIOUS
    <3>2. LineAt(s, j) \in Seq(Bytes)
      BY <3>1, LineAtType
    <3>3. QED
      BY <3>2, AddLineType
  <2>2. QED
    BY <2>1
<1>2. start \in Result /\ Len(s) \in Nat
  BY NothingParsed DEF Sane
<1>3. \A j \in 1 .. Len(s), a \in Result :
          step[j][a] = IF s[j] = "nl" THEN AddLine(a, LineAt(s, j)) ELSE a
  OBVIOUS
<1> HIDE DEF step, start
<1>4. PICK f : Iterates(f, Result, Len(s), start, step)
  BY <1>1, <1>2, Iterate, Zenon
<1>5. /\ f \in [0 .. Len(s) -> Result]
      /\ f[0] = start
      /\ \A j \in 1 .. Len(s) : f[j] = step[j][f[j - 1]]
  BY <1>4 DEF Iterates
<1>6. \A i \in 1 .. Len(s) :
          f[i] = IF s[i] = "nl" THEN AddLine(f[i - 1], LineAt(s, i)) ELSE f[i - 1]
  <2> SUFFICES ASSUME NEW i \in 1 .. Len(s)
               PROVE  f[i] = IF s[i] = "nl" THEN AddLine(f[i - 1], LineAt(s, i)) ELSE f[i - 1]
    OBVIOUS
  <2>1. i - 1 \in 0 .. Len(s)
    BY <1>2
  <2>2. f[i - 1] \in Result
    BY <2>1, <1>5
  <2>3. QED
    BY <2>2, <1>3, <1>5
<1>7. Completes(s, f)
  <2>1. f = [i \in 0 .. Len(s) |-> f[i]]
    BY <1>5
  <2>2. \A i \in 0 .. Len(s) :
            f[i] = IF i = 0 THEN start
                   ELSE IF s[i] = "nl" THEN AddLine(f[i - 1], LineAt(s, i))
                   ELSE f[i - 1]
    <3>1. f[0] = start
      BY <1>5
    <3>2. \A i \in 0 .. Len(s) : i # 0 => i \in 1 .. Len(s)
      BY <1>2
    <3>3. QED
      BY <3>1, <3>2, <1>6, Zenon
  <2>3. QED
    BY <2>1, <2>2, Zenon DEF Completes, start
<1>8. Completes(s, F)
  BY <1>7
<1>9. Complete(s) = F
  BY DEF Complete, Completes
<1>10. F = f
  <2> DEFINE T == {i \in 0 .. Len(s) : F[i] = f[i]}
  <2>1. \A i \in 0 .. Len(s) :
            F[i] = IF i = 0 THEN start
                   ELSE IF s[i] = "nl" THEN AddLine(F[i - 1], LineAt(s, i))
                   ELSE F[i - 1]
    BY <1>8 DEF Completes, start
  <2> HIDE DEF F
  <2>2. 0 \in T
    BY <2>1, <1>2, <1>5
  <2>3. \A i \in 0 .. Len(s) : i # Len(s) /\ i \in T => i + 1 \in T
    BY <2>1, <1>2, <1>6
  <2> HIDE DEF T
  <2>4. \A i \in 0 .. Len(s) : i \in T
    BY <2>2, <2>3, <1>2, Induction, Zenon
  <2>5. \A i \in 0 .. Len(s) : F[i] = f[i]
    BY <2>4 DEF T
  <2>6. F = [i \in 0 .. Len(s) |-> F[i]]
    BY <1>8 DEF Completes
  <2>7. QED
    BY <2>5, <2>6
<1>11. Complete(s) = f
  BY <1>9, <1>10
<1>12. QED
  BY <1>5, <1>6, <1>11, Zenon DEF start

(* No line ends between k and j.                                           *)
LEMMA Skip ==
    ASSUME NEW s \in Seq(Bytes), NEW j \in 0 .. Len(s), NEW k \in 0 .. j,
           \A i \in k + 1 .. j : s[i] # "nl"
    PROVE  Complete(s)[j] = Complete(s)[k]
<1> DEFINE C == Complete(s)
           T == {d \in 0 .. j - k : C[k + d] = C[k]}
<1>1. \A i \in 1 .. Len(s) :
          C[i] = IF s[i] = "nl" THEN AddLine(C[i - 1], LineAt(s, i)) ELSE C[i - 1]
  BY CompleteDef
<1>2. Len(s) \in Nat /\ j - k \in Nat
  OBVIOUS
<1> HIDE DEF C
<1>3. 0 \in T
  <2>1. k + 0 = k
    OBVIOUS
  <2>2. QED
    BY <1>2, <2>1
<1>4. \A d \in 0 .. j - k : d # j - k /\ d \in T => d + 1 \in T
  <2> SUFFICES ASSUME NEW d \in 0 .. j - k, d # j - k, d \in T PROVE d + 1 \in T
    OBVIOUS
  <2>1. /\ k + (d + 1) \in k + 1 .. j /\ k + (d + 1) \in 1 .. Len(s)
        /\ (k + (d + 1)) - 1 = k + d /\ d + 1 \in 0 .. j - k
    BY <1>2
  <2>2. C[k + (d + 1)] = C[k + d]
    BY <1>1, <2>1
  <2>3. QED
    BY <2>1, <2>2
<1> HIDE DEF T
<1>5. \A d \in 0 .. j - k : d \in T
  BY <1>2, <1>3, <1>4, Induction, Zenon
<1>6. j - k \in T
  BY <1>2, <1>5
<1>7. C[k + (j - k)] = C[k]
  BY <1>6 DEF T
<1>8. k + (j - k) = j
  OBVIOUS
<1>9. QED
  BY <1>7, <1>8 DEF C

(* The chunks d start with the chunks c.                                   *)
StartsWith(d, c) == \E r \in Seq(Chunk) : d = c \o r

(* A parse at a is later at b: it has no fewer chunks, and stays refused.  *)
Goes(a, b) == StartsWith(b.chunks, a.chunks) /\ (~a.ok => b = a)

LEMMA StartsWithSelf ==
    ASSUME NEW c \in Seq(Chunk)
    PROVE  StartsWith(c, c)
<1>1. c = c \o <<>> /\ <<>> \in Seq(Chunk)
  BY ConcatEmptySeq
<1>2. QED
  BY <1>1 DEF StartsWith

LEMMA CatCat ==
    ASSUME NEW c \in Seq(Chunk), NEW d \in Seq(Chunk), NEW e \in Seq(Chunk)
    PROVE  d \o e \in Seq(Chunk) /\ (c \o d) \o e = c \o (d \o e)
OBVIOUS

LEMMA StartsWithTrans ==
    ASSUME NEW c \in Seq(Chunk), NEW d, NEW e, StartsWith(d, c), StartsWith(e, d)
    PROVE  StartsWith(e, c)
<1>1. PICK q \in Seq(Chunk) : d = c \o q
  BY DEF StartsWith
<1>2. PICK r \in Seq(Chunk) : e = d \o r
  BY DEF StartsWith
<1>3. q \o r \in Seq(Chunk) /\ e = c \o (q \o r)
  BY <1>1, <1>2, CatCat
<1>4. QED
  BY <1>3 DEF StartsWith

LEMMA PrefixOf ==
    ASSUME NEW c \in Seq(Chunk), NEW d, StartsWith(d, c)
    PROVE  IsPrefix(c, d)
<1>1. PICK r \in Seq(Chunk) : d = c \o r
  BY DEF StartsWith
<1>2. Len(c) <= Len(c \o r)
  OBVIOUS
<1>3. SubSeq(c, 1, Len(c)) = SubSeq(c \o r, 1, Len(c))
  OBVIOUS
<1>4. QED
  BY <1>1, <1>2, <1>3 DEF IsPrefix

LEMMA GoesSelf ==
    ASSUME NEW a \in Result
    PROVE  Goes(a, a)
<1>1. a.chunks \in Seq(Chunk)
  BY DEF Result
<1>2. QED
  BY <1>1, StartsWithSelf DEF Goes

LEMMA GoesTrans ==
    ASSUME NEW a \in Result, NEW b, NEW c, Goes(a, b), Goes(b, c)
    PROVE  Goes(a, c)
<1>1. a.chunks \in Seq(Chunk)
  BY DEF Result
<1>2. StartsWith(c.chunks, a.chunks)
  BY <1>1, StartsWithTrans DEF Goes
<1>3. ~a.ok => c = a
  BY DEF Goes
<1>4. QED
  BY <1>2, <1>3 DEF Goes

LEMMA AddLineGoes ==
    ASSUME NEW a \in Result, NEW line \in Seq(Bytes)
    PROVE  Goes(a, AddLine(a, line))
<1>1. a.chunks \in Seq(Chunk) /\ a.event \in Seq(Bytes)
  BY DEF Result
<1>2. CASE ~a.ok
  <2>1. AddLine(a, line) = a
    BY <1>2 DEF AddLine
  <2>2. QED
    BY <2>1, GoesSelf
<1>3. CASE a.ok
  <2>1. \/ AddLine(a, line).chunks = a.chunks
        \/ AddLine(a, line).chunks = a.chunks \o Flush(a.event).chunks
    BY <1>3, AddLineIs
  <2>2. Flush(a.event).chunks \in Seq(Chunk)
    BY <1>1, FlushIs DEF Sane, Result
  <2>3. StartsWith(AddLine(a, line).chunks, a.chunks)
    BY <1>1, <2>1, <2>2, StartsWithSelf DEF StartsWith
  <2>4. QED
    BY <1>3, <2>3 DEF Goes
<1>4. QED
  BY <1>2, <1>3

LEMMA Grows ==
    ASSUME NEW s \in Seq(Bytes), NEW k \in 0 .. Len(s)
    PROVE  Goes(Complete(s)[k], Complete(s)[Len(s)])
<1> DEFINE C == Complete(s)
           n == Len(s) - k
           T == {d \in 0 .. n : Goes(C[k], C[k + d])}
<1>1. /\ C \in [0 .. Len(s) -> Result]
      /\ \A i \in 1 .. Len(s) :
             C[i] = IF s[i] = "nl" THEN AddLine(C[i - 1], LineAt(s, i)) ELSE C[i - 1]
  BY CompleteDef
<1>2. Len(s) \in Nat /\ n \in Nat
  OBVIOUS
<1> HIDE DEF C
<1>3. C[k] \in Result
  BY <1>1
<1>4. 0 \in T
  <2>1. k + 0 = k /\ 0 \in 0 .. n
    BY <1>2
  <2>2. Goes(C[k], C[k])
    BY <1>3, GoesSelf
  <2>3. QED
    BY <2>1, <2>2
<1>5. \A d \in 0 .. n : d # n /\ d \in T => d + 1 \in T
  <2> SUFFICES ASSUME NEW d \in 0 .. n, d # n, d \in T PROVE d + 1 \in T
    OBVIOUS
  <2>1. Goes(C[k], C[k + d])
    OBVIOUS
  <2> DEFINE i == k + (d + 1)
  <2>2. i \in 1 .. Len(s) /\ i \in 1 .. Len(s) + 1 /\ i - 1 = k + d /\ d + 1 \in 0 .. n
        /\ k + d \in 0 .. Len(s)
    BY <1>2
  <2>3. C[k + d] \in Result
    BY <1>1, <2>2
  <2>4. LineAt(s, i) \in Seq(Bytes)
    <3> HIDE DEF i
    <3>1. QED
      BY <2>2, LineAtType
  <2>5. Goes(C[k + d], C[i])
    <3> HIDE DEF i
    <3>1. C[i] = AddLine(C[k + d], LineAt(s, i)) \/ C[i] = C[k + d]
      BY <1>1, <2>2
    <3>2. Goes(C[k + d], AddLine(C[k + d], LineAt(s, i))) /\ Goes(C[k + d], C[k + d])
      BY <2>3, <2>4, AddLineGoes, GoesSelf
    <3>3. QED
      BY <3>1, <3>2
  <2>6. Goes(C[k], C[i])
    BY <1>3, <2>1, <2>5, GoesTrans, Zenon
  <2>7. QED
    BY <2>2, <2>6
<1> HIDE DEF T
<1>6. \A d \in 0 .. n : d \in T
  <2> HIDE DEF n
  <2>1. QED
    BY <1>2, <1>4, <1>5, Induction, Zenon
<1>7. n \in T
  <2> HIDE DEF n
  <2>1. QED
    BY <1>2, <1>6
<1>8. Goes(C[k], C[k + n])
  BY <1>7 DEF T
<1>9. k + n = Len(s)
  OBVIOUS
<1>10. QED
  BY <1>8, <1>9 DEF C

(* The parse of a body, before an empty one is refused.                    *)
Body(s) == AddLine(AddLine(Complete(s)[Len(s)], LineAt(s, Len(s) + 1)), <<>>)

LEMMA BodyGrows ==
    ASSUME NEW s \in Seq(Bytes), NEW k \in 0 .. Len(s)
    PROVE  Body(s) \in Result /\ Goes(Complete(s)[k], Body(s))
<1> DEFINE c == Complete(s)[Len(s)]
           l == LineAt(s, Len(s) + 1)
           b == AddLine(c, l)
<1>1. Complete(s)[k] \in Result /\ c \in Result
  BY CompleteDef
<1>2. l \in Seq(Bytes)
  <2>1. Len(s) + 1 \in 1 .. Len(s) + 1
    OBVIOUS
  <2>2. QED
    BY <2>1, LineAtType
<1>3. Goes(Complete(s)[k], c)
  BY Grows
<1>4. Body(s) = AddLine(b, <<>>)
  BY DEF Body
<1> HIDE DEF c, l
<1>5. b \in Result /\ Goes(c, b)
  BY <1>1, <1>2, AddLineType, AddLineGoes
<1> HIDE DEF b
<1>6. AddLine(b, <<>>) \in Result /\ Goes(b, AddLine(b, <<>>))
  BY <1>5, NoBytes, AddLineType, AddLineGoes
<1>7. Goes(Complete(s)[k], b)
  BY <1>1, <1>3, <1>5, GoesTrans, Zenon
<1>8. Goes(Complete(s)[k], AddLine(b, <<>>))
  BY <1>1, <1>6, <1>7, GoesTrans, Zenon
<1>9. QED
  BY <1>4, <1>6, <1>8

LEMMA ErrorIs == Error \in Chunk /\ Error.error /\ <<Error>> \in Seq(Chunk)
<1>1. Error \in Chunk /\ Error.error
  BY SseAssumption DEF Error, Chunk
<1>2. QED
  BY <1>1

(* What the whole parse gives, and how it ends.                            *)
LEMMA WholeIs ==
    ASSUME NEW s \in Seq(Bytes)
    PROVE  LET p == ParseStreamEvents(s)
               b == Body(s) IN
           /\ b \in Result
           /\ p.chunks = b.chunks
           /\ p.ok <=> b.ok /\ b.chunks # <<>>
           /\ Whole(p) = IF p.ok THEN b.chunks ELSE Append(b.chunks, Error)
           /\ StartsWith(Whole(p), b.chunks)
<1> DEFINE p == ParseStreamEvents(s)
           b == Body(s)
<1>1. b \in Result
  <2>1. 0 \in 0 .. Len(s)
    OBVIOUS
  <2>2. QED
    BY <2>1, BodyGrows
<1>2. p = IF b.ok /\ b.chunks = <<>> THEN [b EXCEPT !.ok = FALSE] ELSE b
  BY DEF ParseStreamEvents, Body
<1> HIDE DEF p, b
<1>3. b.chunks \in Seq(Chunk) /\ b.ok \in BOOLEAN
  BY <1>1 DEF Result
<1>4. p.chunks = b.chunks /\ (p.ok <=> b.ok /\ b.chunks # <<>>)
  BY <1>1, <1>2 DEF Result
<1>5. b.chunks \o <<>> = b.chunks /\ b.chunks \o <<Error>> = Append(b.chunks, Error)
  BY <1>3, ErrorIs, ConcatEmptySeq, AppendIsConcat
<1>6. Whole(p) = IF p.ok THEN b.chunks ELSE Append(b.chunks, Error)
  BY <1>4, <1>5 DEF Whole
<1>7. StartsWith(Whole(p), b.chunks)
  <2>1. Whole(p) = b.chunks \o <<>> \/ Whole(p) = b.chunks \o <<Error>>
    BY <1>4 DEF Whole
  <2>2. <<>> \in Seq(Chunk) /\ <<Error>> \in Seq(Chunk)
    BY ErrorIs
  <2>3. QED
    BY <2>1, <2>2 DEF StartsWith
<1>8. QED
  BY <1>1, <1>4, <1>6, <1>7 DEF p, b

-----------------------------------------------------------------------------
(* The stream against the whole parse.                                     *)

LEMMA PopCat ==
    ASSUME NEW c \in Seq(Chunk), NEW d \in Seq(Chunk), d # <<>>
    PROVE  /\ Head(d) \in Chunk /\ Tail(d) \in Seq(Chunk)
           /\ Append(c, Head(d)) \in Seq(Chunk)
           /\ Append(c, Head(d)) \o Tail(d) = c \o d
           /\ Append(c, Head(d)) # <<>>
           /\ c \o d # <<>>
           /\ \A i \in DOMAIN Tail(d) : i + 1 \in DOMAIN d /\ Tail(d)[i] = d[i + 1]
<1>1. Head(d) \in Chunk /\ Tail(d) \in Seq(Chunk)
  OBVIOUS
<1>2. Append(c, Head(d)) \in Seq(Chunk)
  BY <1>1
<1>3. Append(c, Head(d)) \o Tail(d) = c \o d
  OBVIOUS
<1>4. Append(c, Head(d)) # <<>>
  <2>1. Len(Append(c, Head(d))) # 0
    OBVIOUS
  <2>2. Len(<<>>) = 0
    OBVIOUS
  <2>3. QED
    BY <2>1, <2>2, Zenon
<1>5. c \o d # <<>>
  <2>1. Len(c \o d) # 0
    OBVIOUS
  <2>2. Len(<<>>) = 0
    OBVIOUS
  <2>3. QED
    BY <2>1, <2>2, Zenon
<1>6. \A i \in DOMAIN Tail(d) : i + 1 \in DOMAIN d /\ Tail(d)[i] = d[i + 1]
  OBVIOUS
<1>7. QED
  BY <1>1, <1>2, <1>3, <1>4, <1>5, <1>6

LEMMA AppendEnds ==
    ASSUME NEW c \in Seq(Chunk), NEW x \in Chunk
    PROVE  Append(c, x) \in Seq(Chunk) /\ Last(Append(c, x)) = x /\ Front(Append(c, x)) = c
<1>1. /\ Append(c, x) \in Seq(Chunk) /\ Len(Append(c, x)) = Len(c) + 1
      /\ Append(c, x)[Len(c) + 1] = x
  OBVIOUS
<1>2. SubSeq(Append(c, x), 1, Len(c)) = c
  OBVIOUS
<1>3. (Len(c) + 1) - 1 = Len(c)
  OBVIOUS
<1>4. QED
  BY <1>1, <1>2, <1>3 DEF Last, Front

(* The bytes of s from behind k up to r.                                   *)
LEMMA PieceIs ==
    ASSUME NEW s \in Seq(Bytes), NEW r \in 0 .. Len(s), NEW k \in 0 .. r
    PROVE  /\ SubSeq(s, k + 1, r) \in Seq(Bytes)
           /\ Len(SubSeq(s, k + 1, r)) = r - k
           /\ \A i \in 1 .. r - k : SubSeq(s, k + 1, r)[i] = s[k + i]
OBVIOUS

(* Such a piece cut at the byte at.                                        *)
LEMMA PieceCut ==
    ASSUME NEW s \in Seq(Bytes), NEW r \in 0 .. Len(s), NEW k \in 0 .. r,
           NEW at \in 1 .. r - k
    PROVE  LET b == SubSeq(s, k + 1, r) IN
           /\ SubSeq(b, 1, at - 1) = SubSeq(s, k + 1, (k + at) - 1)
           /\ SubSeq(b, at + 1, Len(b)) = SubSeq(s, (k + at) + 1, r)
<1> DEFINE b == SubSeq(s, k + 1, r)
<1>1. /\ b \in Seq(Bytes) /\ Len(b) = r - k
      /\ \A i \in 1 .. r - k : b[i] = s[k + i]
  BY PieceIs
<1>2. Len(s) \in Nat
  OBVIOUS
<1> HIDE DEF b
<1>3. SubSeq(b, 1, at - 1) = SubSeq(s, k + 1, (k + at) - 1)
  BY <1>1, <1>2
<1>4. SubSeq(b, at + 1, r - k) = SubSeq(s, (k + at) + 1, r)
  BY <1>1, <1>2
<1>5. QED
  BY <1>1, <1>3, <1>4 DEF b

LEMMA PieceJoin ==
    ASSUME NEW s \in Seq(Bytes), NEW r \in 0 .. Len(s), NEW k \in 0 .. r,
           NEW n \in 1 .. Len(s) - r
    PROVE  SubSeq(s, k + 1, r) \o SubSeq(s, r + 1, r + n) = SubSeq(s, k + 1, r + n)
<1>1. k + 1 \in 1 .. Len(s) + 1 /\ r \in (k + 1) - 1 .. Len(s) /\ r + n \in r .. Len(s)
  OBVIOUS
<1>2. QED
  BY <1>1, ConcatAdjacentSubSeq, Zenon

-----------------------------------------------------------------------------
(* The inductive invariant.                                                *)

(* The lines up to the newline at k are processed, the bytes behind it     *)
(* wait in the buffer, and the chunks given or ready are those of the      *)
(* processed lines.                                                        *)
At(k) ==
    LET seen == Complete(text)[k] IN
    /\ k = 0 \/ text[k] = "nl"
    /\ lineBuffer = SubSeq(text, k + 1, read)
    /\ seen.ok
    /\ out \o pending = seen.chunks
    /\ Squeezed(eventData) = Squeezed(seen.event)

Tracks ==
    /\ ~finished /\ ~failed
    /\ emittedAny <=> out # <<>>
    /\ \E k \in 0 .. read : At(k)

(* The end was met, and chunks of the last event are still to be given.    *)
Closed ==
    /\ ~finished /\ ~failed /\ emittedAny
    /\ read = Len(text) /\ lineBuffer = <<>> /\ eventData = <<>>
    /\ ParseStreamEvents(text).ok
    /\ out \o pending = ParseStreamEvents(text).chunks

Over ==
    /\ finished
    /\ ~failed => out = Whole(ParseStreamEvents(text))
    /\ failed => /\ Last(out) = Error
                 /\ IsPrefix(Front(out), Whole(ParseStreamEvents(text)))

Faithful == Clean(text) => Tracks \/ Closed \/ Over
SseInv   == TypeOK /\ Faithful

LEMMA TextIs ==
    ASSUME TypeOK
    PROVE  text \in Seq(Bytes) /\ Len(text) \in Nat /\ read \in 0 .. Len(text) /\ read \in Nat
<1>1. text \in Seq(Bytes) /\ read \in 0 .. Len(text)
  BY SseAssumption DEF TypeOK
<1>2. QED
  BY <1>1

LEMMA InitInv ==
    ASSUME Init
    PROVE  SseInv
<1>1. text \in Seq(Bytes)
  BY SseAssumption DEF Init
<1>2. Len(text) \in Nat
  BY <1>1
<1>3. <<>> \in Seq(Bytes) /\ <<>> \in Seq(Chunk) /\ DOMAIN <<>> = {} /\ <<>> \o <<>> = <<>>
  OBVIOUS
<1>4. TypeOK
  <2>1. text \in Texts /\ read \in 0 .. Len(text)
    BY <1>2 DEF Init
  <2>2. /\ lineBuffer \in Seq(Bytes) /\ eventData \in Seq(Bytes)
        /\ pending \in Seq(Chunk) /\ out \in Seq(Chunk)
    BY <1>3, Zenon DEF Init
  <2>3. \A i \in DOMAIN pending : ~pending[i].error
    BY <1>3 DEF Init
  <2>4. emittedAny \in BOOLEAN /\ finished \in BOOLEAN /\ failed \in BOOLEAN
    BY DEF Init
  <2>5. QED
    BY <2>1, <2>2, <2>3, <2>4, Zenon DEF TypeOK
<1>5. At(0)
  <2>1. /\ Complete(text)[0].ok /\ Complete(text)[0].event = <<>>
        /\ Complete(text)[0].chunks = <<>>
    BY <1>1, CompleteDef, NothingParsed
  <2>2. SubSeq(text, 0 + 1, 0) = <<>>
    BY <1>1
  <2>3. QED
    BY <1>3, <2>1, <2>2 DEF Init, At
<1>6. Tracks
  <2>1. 0 \in 0 .. read
    BY DEF Init
  <2>2. QED
    BY <1>5, <2>1 DEF Init, Tracks
<1>7. QED
  BY <1>4, <1>6 DEF SseInv, Faithful

LEMMA PopPendingInv ==
    ASSUME SseInv, PopPending
    PROVE  SseInv'
<1>1. TypeOK /\ Faithful /\ ~finished /\ pending # <<>>
  BY DEF SseInv, PopPending
<1>2. /\ out' = Append(out, Head(pending)) /\ pending' = Tail(pending) /\ emittedAny' = TRUE
      /\ text' = text /\ read' = read /\ lineBuffer' = lineBuffer
      /\ eventData' = eventData /\ finished' = finished /\ failed' = failed
  BY DEF PopPending
<1>3. out \in Seq(Chunk) /\ pending \in Seq(Chunk) /\ \A i \in DOMAIN pending : ~pending[i].error
  BY <1>1 DEF TypeOK
<1>4. /\ out' \in Seq(Chunk) /\ pending' \in Seq(Chunk)
      /\ out' \o pending' = out \o pending /\ out' # <<>>
  BY <1>1, <1>2, <1>3, PopCat
<1>5. \A i \in DOMAIN pending' : ~pending'[i].error
  BY <1>1, <1>2, <1>3, PopCat
<1>6. TypeOK'
  BY <1>1, <1>2, <1>4, <1>5 DEF TypeOK
<1>7. ASSUME Clean(text) PROVE Tracks' \/ Closed' \/ Over'
  <2>1. CASE Tracks
    <3>1. PICK k \in 0 .. read : At(k)
      BY <2>1 DEF Tracks
    <3>2. At(k)'
      BY <1>2, <1>4, <3>1 DEF At
    <3>3. QED
      BY <1>2, <1>4, <2>1, <3>2 DEF Tracks
  <2>2. CASE Closed
    BY <1>2, <1>4, <2>2 DEF Closed
  <2>3. QED
    BY <1>1, <1>7, <2>1, <2>2 DEF Faithful, Over
<1>8. QED
  BY <1>2, <1>6, <1>7 DEF SseInv, Faithful

LEMMA ReadBytesInv ==
    ASSUME SseInv, ReadBytes
    PROVE  SseInv'
<1>1. TypeOK /\ Faithful /\ ~finished
  BY DEF SseInv, ReadBytes, Reading, Looking
<1>2. PICK n \in 1 .. Len(text) - read :
          /\ lineBuffer' = lineBuffer \o SubSeq(text, read + 1, read + n)
          /\ read' = read + n
  BY DEF ReadBytes
<1>3. /\ text' = text /\ eventData' = eventData /\ pending' = pending /\ out' = out
      /\ emittedAny' = emittedAny /\ finished' = finished /\ failed' = failed
  BY DEF ReadBytes
<1>4. text \in Seq(Bytes) /\ Len(text) \in Nat /\ read \in 0 .. Len(text) /\ read \in Nat
  BY <1>1, TextIs
<1>5. lineBuffer' \in Seq(Bytes)
  <2>1. read + n \in 0 .. Len(text) /\ read \in 0 .. read + n
    BY <1>4
  <2>2. SubSeq(text, read + 1, read + n) \in Seq(Bytes)
    BY <1>4, <2>1, PieceIs
  <2>3. lineBuffer \in Seq(Bytes)
    BY <1>1 DEF TypeOK
  <2>4. QED
    BY <1>2, <2>2, <2>3, CatIs
<1>6. TypeOK'
  <2>1. read + n \in 0 .. Len(text)
    BY <1>4
  <2>2. QED
    BY <1>1, <1>2, <1>3, <1>5, <2>1 DEF TypeOK
<1>7. ASSUME Clean(text) PROVE Tracks'
  <2>1. Tracks
    <3>1. ~Closed
      BY <1>4 DEF Closed
    <3>2. QED
      BY <1>1, <1>7, <3>1 DEF Faithful, Over
  <2>2. PICK k \in 0 .. read : At(k)
    BY <2>1 DEF Tracks
  <2>3. lineBuffer' = SubSeq(text, k + 1, read + n)
    <3>1. lineBuffer = SubSeq(text, k + 1, read)
      BY <2>2 DEF At
    <3>2. SubSeq(text, k + 1, read) \o SubSeq(text, read + 1, read + n)
              = SubSeq(text, k + 1, read + n)
      BY <1>4, PieceJoin
    <3>3. QED
      BY <1>2, <3>1, <3>2
  <2>4. At(k)'
    BY <1>2, <1>3, <2>2, <2>3 DEF At
  <2>5. k \in 0 .. read + n
    BY <1>4
  <2>6. QED
    BY <1>2, <1>3, <2>1, <2>4, <2>5 DEF Tracks
<1>8. QED
  BY <1>3, <1>6, <1>7 DEF SseInv, Faithful

(* What was given while the stream is not over is a beginning of what the  *)
(* whole parse gives.                                                      *)
LEMMA GivenSoFar ==
    ASSUME TypeOK, Tracks \/ Closed
    PROVE  StartsWith(Whole(ParseStreamEvents(text)), out)
<1> DEFINE p == ParseStreamEvents(text)
           b == Body(text)
<1>1. text \in Seq(Bytes) /\ Len(text) \in Nat /\ read \in 0 .. Len(text) /\ read \in Nat
  BY TextIs
<1>2. out \in Seq(Chunk) /\ pending \in Seq(Chunk)
  BY DEF TypeOK
<1>3. StartsWith(Whole(p), b.chunks) /\ p.chunks = b.chunks
  BY <1>1, WholeIs
<1> HIDE DEF p, b
<1>4. StartsWith(b.chunks, out \o pending)
  <2>1. CASE Tracks
    <3>1. PICK k \in 0 .. read : At(k)
      BY <2>1 DEF Tracks
    <3>2. k \in 0 .. Len(text)
      BY <1>1
    <3>3. Goes(Complete(text)[k], b)
      BY <1>1, <3>2, BodyGrows DEF b
    <3>4. QED
      BY <3>1, <3>3 DEF At, Goes
  <2>2. CASE Closed
    <3>1. out \o pending \in Seq(Chunk)
      BY <1>2
    <3>2. out \o pending = b.chunks
      BY <1>3, <2>2 DEF Closed, p
    <3>3. QED
      BY <3>1, <3>2, StartsWithSelf
  <2>3. QED
    BY <2>1, <2>2
<1>5. StartsWith(out \o pending, out)
  BY <1>2 DEF StartsWith
<1>6. StartsWith(b.chunks, out)
  BY <1>2, <1>4, <1>5, StartsWithTrans, Zenon
<1>7. QED
  BY <1>2, <1>3, <1>6, StartsWithTrans, Zenon DEF p

LEMMA ReadFailsInv ==
    ASSUME SseInv, ReadFails
    PROVE  SseInv'
<1>1. TypeOK /\ Faithful /\ ~finished
  BY DEF SseInv, ReadFails, Reading, Looking
<1>2. /\ text' = text /\ read' = read /\ lineBuffer' = lineBuffer
      /\ eventData' = eventData /\ pending' = pending /\ emittedAny' = emittedAny
      /\ failed' = TRUE /\ finished' = TRUE /\ out' = Append(out, Error)
  BY DEF ReadFails, GiveError
<1>3. out \in Seq(Chunk)
  BY <1>1 DEF TypeOK
<1>4. out' \in Seq(Chunk) /\ Last(out') = Error /\ Front(out') = out
  BY <1>2, <1>3, ErrorIs, AppendEnds
<1>5. TypeOK'
  BY <1>1, <1>2, <1>4 DEF TypeOK
<1>6. ASSUME Clean(text) PROVE Over'
  <2>1. Tracks \/ Closed
    BY <1>1, <1>6 DEF Faithful, Over
  <2>2. StartsWith(Whole(ParseStreamEvents(text)), out)
    BY <1>1, <2>1, GivenSoFar
  <2>3. IsPrefix(out, Whole(ParseStreamEvents(text)))
    BY <1>3, <2>2, PrefixOf
  <2>4. QED
    BY <1>2, <1>4, <2>3 DEF Over
<1>7. QED
  BY <1>2, <1>5, <1>6 DEF SseInv, Faithful

(* A refused line decides what the whole parse gives.                      *)
LEMMA RefusedWhole ==
    ASSUME NEW s \in Seq(Bytes), NEW j \in 0 .. Len(s), ~Complete(s)[j].ok
    PROVE  Whole(ParseStreamEvents(s)) = Append(Complete(s)[j].chunks, Error)
<1>1. Goes(Complete(s)[j], Body(s))
  BY BodyGrows
<1>2. Body(s) = Complete(s)[j]
  BY <1>1 DEF Goes
<1>3. ~ParseStreamEvents(s).ok
  BY <1>2, WholeIs
<1>4. QED
  BY <1>2, <1>3, WholeIs

(* The first newline of the buffer.                                        *)
LEMMA FirstNewline ==
    ASSUME TypeOK, Newlines # {}
    PROVE  LET at == CHOOSE i \in Newlines : \A j \in Newlines : i <= j IN
           at \in Newlines /\ \A j \in Newlines : at <= j
<1>1. lineBuffer \in Seq(Bytes)
  BY DEF TypeOK
<1>2. Newlines \subseteq Nat
  BY <1>1 DEF Newlines
<1>3. \E i \in Newlines : \A j \in Newlines : i <= j
  BY <1>2, LeastNat
<1>4. QED
  BY <1>3, Zenon

LEMMA TakeLineInv ==
    ASSUME SseInv, TakeLine
    PROVE  SseInv'
<1> DEFINE at == CHOOSE i \in Newlines : \A j \in Newlines : i <= j
           l  == SubSeq(lineBuffer, 1, at - 1)
           m  == StripCr(l)
           p  == ProcessSseLine(eventData, m)
           rest == SubSeq(lineBuffer, at + 1, Len(lineBuffer))
<1>1. TypeOK /\ Faithful
  BY DEF SseInv
<1>2. ~finished /\ pending = <<>> /\ Newlines # {}
  BY DEF TakeLine, Looking
<1>3. /\ lineBuffer' = rest /\ eventData' = p.event /\ pending' = p.chunks
      /\ text' = text /\ read' = read /\ emittedAny' = emittedAny /\ failed' = failed
  BY DEF TakeLine
<1>4. /\ p.ok => finished' = finished /\ out' = out
      /\ ~p.ok => finished' = TRUE /\ out' = Append(out, Error)
  BY DEF TakeLine, GiveError
<1>5. at \in Newlines /\ \A j \in Newlines : at <= j
  BY <1>1, <1>2, FirstNewline
<1> HIDE DEF at
<1>6. text \in Seq(Bytes) /\ Len(text) \in Nat /\ read \in 0 .. Len(text) /\ read \in Nat
  BY <1>1, TextIs
<1>7. /\ lineBuffer \in Seq(Bytes) /\ eventData \in Seq(Bytes) /\ out \in Seq(Chunk)
      /\ Len(lineBuffer) \in Nat
  BY <1>1 DEF TypeOK
<1>8. at \in 1 .. Len(lineBuffer) /\ lineBuffer[at] = "nl"
  BY <1>5, <1>7 DEF Newlines
<1>9. l \in Seq(Bytes) /\ rest \in Seq(Bytes)
  BY <1>7, <1>8
<1> HIDE DEF l, rest
<1>10. m \in Seq(Bytes) /\ (l = m \/ l = m \o <<"cr">>)
  BY <1>9, StripCrIs
<1> HIDE DEF m
<1>11. Sane(p)
  BY <1>7, <1>10, ProcessIs
<1> HIDE DEF p
<1>12. p \in Result /\ (\A i \in DOMAIN p.chunks : ~p.chunks[i].error) /\ (~p.ok => p.chunks = <<>>)
  BY <1>11 DEF Sane
<1>13. p.ok \in BOOLEAN /\ p.event \in Seq(Bytes) /\ p.chunks \in Seq(Chunk)
  BY <1>12 DEF Result
<1>14. Append(out, Error) \in Seq(Chunk)
  BY <1>7, ErrorIs
<1>15. TypeOK'
  <2>1. out' \in Seq(Chunk) /\ finished' \in BOOLEAN
    BY <1>1, <1>4, <1>7, <1>14 DEF TypeOK
  <2>2. QED
    BY <1>1, <1>3, <1>9, <1>12, <1>13, <2>1 DEF TypeOK
<1>16. ASSUME Clean(text) PROVE Tracks' \/ Over'
  <2>1. Tracks
    <3>1. ~Closed
      <4>1. Len(lineBuffer) # 0
        BY <1>7, <1>8
      <4>2. QED
        BY <4>1 DEF Closed
    <3>2. QED
      BY <1>1, <1>2, <1>16, <3>1 DEF Faithful, Over
  <2>2. PICK k \in 0 .. read : At(k)
    BY <2>1 DEF Tracks
  <2>3. PICK j : j = k + at
    OBVIOUS
  <2> DEFINE acc == Complete(text)[k]
             a   == Complete(text)[j]
  <2>4. /\ k = 0 \/ text[k] = "nl"
        /\ lineBuffer = SubSeq(text, k + 1, read)
        /\ acc.ok
        /\ out \o pending = acc.chunks
        /\ Squeezed(eventData) = Squeezed(acc.event)
    BY <2>2 DEF At
  <2>5. acc \in Result
    <3>1. k \in 0 .. Len(text)
      BY <1>6
    <3>2. QED
      BY <1>6, <3>1, CompleteDef
  <2>6. out = acc.chunks
    BY <1>2, <1>7, <2>4, ConcatEmptySeq
  <2>7. Len(lineBuffer) = read - k /\ \A i \in 1 .. read - k : lineBuffer[i] = text[k + i]
    BY <1>6, <2>4, PieceIs
  <2>8. at \in 1 .. read - k /\ j \in 1 .. Len(text) /\ j \in 0 .. read /\ j \in Nat
        /\ j - 1 \in 0 .. Len(text) /\ k \in 0 .. j - 1 /\ j \in 0 .. Len(text)
    BY <1>6, <1>8, <2>7, <2>3
  <2>9. text[j] = "nl"
    BY <1>8, <2>7, <2>8, <2>3
  <2>10. \A i \in k + 1 .. j - 1 : text[i] # "nl"
    <3> SUFFICES ASSUME NEW i \in k + 1 .. j - 1, text[i] = "nl" PROVE FALSE
      OBVIOUS
    <3>1. i - k \in 1 .. read - k /\ i - k < at /\ k + (i - k) = i /\ i - k \in Nat
      BY <1>6, <2>8, <2>3
    <3>2. lineBuffer[i - k] = "nl" /\ i - k \in DOMAIN lineBuffer
      BY <1>7, <2>7, <3>1
    <3>3. i - k \in Newlines
      BY <3>2 DEF Newlines
    <3>4. at <= i - k
      BY <1>5, <3>3
    <3>5. QED
      BY <2>8, <3>1, <3>4
  <2>11. l = LineAt(text, j)
    <3>1. LineFrom(text, k, j)
      BY <2>4, <2>8, <2>10 DEF LineFrom
    <3>2. LineAt(text, j) = SubSeq(text, k + 1, j - 1)
      BY <2>8, <3>1, LineAtIs
    <3>3. SubSeq(lineBuffer, 1, at - 1) = SubSeq(text, k + 1, j - 1)
      BY <1>6, <2>4, <2>8, <2>3, PieceCut
    <3>4. QED
      BY <3>2, <3>3 DEF l
  <2>12. rest = SubSeq(text, j + 1, read)
    <3>1. SubSeq(lineBuffer, at + 1, Len(lineBuffer)) = SubSeq(text, j + 1, read)
      BY <1>6, <2>4, <2>8, <2>3, PieceCut
    <3>2. QED
      BY <3>1 DEF rest
  <2>13. a = AddLine(acc, l)
    <3>1. Complete(text)[j - 1] = acc
      BY <1>6, <2>8, <2>10, Skip
    <3>2. a = AddLine(Complete(text)[j - 1], LineAt(text, j))
      BY <1>6, <2>8, <2>9, CompleteDef
    <3>3. QED
      BY <2>11, <3>1, <3>2
  <2>14. Blank(m) => m = <<>>
    <3>1. j \in DOMAIN text
      BY <1>6, <2>8
    <3>2. QED
      BY <1>16, <2>9, <2>11, <3>1 DEF Clean, m
  <2> HIDE DEF acc, a
  <2>15. /\ a.ok = p.ok
         /\ a.chunks = acc.chunks \o p.chunks
         /\ p.ok => Squeezed(p.event) = Squeezed(a.event)
    <3> DEFINE q == ProcessSseLine(eventData, m)
               x == AddLine(acc, l)
    <3>1. /\ acc \in Result /\ acc.ok
          /\ eventData \in Seq(Bytes) /\ Squeezed(eventData) = Squeezed(acc.event)
          /\ m \in Seq(Bytes) /\ l \in Seq(Bytes)
      BY <1>7, <1>9, <1>10, <2>4, <2>5
    <3>2. (l = m \/ l = m \o <<"cr">>) /\ (Blank(m) => m = <<>>)
      BY <1>10, <2>14
    <3>3. /\ x \in Result /\ x.ok = q.ok
          /\ x.chunks = acc.chunks \o q.chunks
          /\ q.ok => Squeezed(q.event) = Squeezed(x.event)
      BY <3>1, <3>2, LineSim
    <3>4. QED
      BY <2>13, <3>3 DEF p
  <2>16. CASE p.ok
    <3>1. out' \o pending' = a.chunks
      BY <1>3, <1>4, <2>6, <2>15, <2>16
    <3>2. At(j)'
      BY <1>3, <2>9, <2>12, <2>15, <2>16, <3>1 DEF At, a
    <3>3. Tracks'
      BY <1>3, <1>4, <2>1, <2>8, <2>16, <3>2 DEF Tracks
    <3>4. QED
      BY <3>3
  <2>17. CASE ~p.ok
    <3>1. a.chunks = out /\ ~a.ok
      BY <1>7, <1>12, <2>6, <2>15, <2>17, ConcatEmptySeq
    <3>2. Whole(ParseStreamEvents(text)) = Append(out, Error)
      BY <1>6, <2>8, <3>1, RefusedWhole DEF a
    <3>3. Over'
      BY <1>3, <1>4, <2>1, <2>17, <3>2 DEF Over, Tracks
    <3>4. QED
      BY <3>3
  <2>18. QED
    BY <2>16, <2>17
<1>17. QED
  BY <1>3, <1>15, <1>16 DEF SseInv, Faithful

LEMMA ReadEndInv ==
    ASSUME SseInv, ReadEnd
    PROVE  SseInv'
<1> DEFINE p == Close(eventData, lineBuffer)
           b == Body(text)
           w == ParseStreamEvents(text)
<1>1. TypeOK /\ Faithful
  BY DEF SseInv
<1>2. ~finished /\ pending = <<>> /\ Newlines = {} /\ read = Len(text)
  BY DEF ReadEnd, Reading, Looking
<1>3. /\ lineBuffer' = <<>> /\ eventData' = p.event
      /\ text' = text /\ read' = read /\ failed' = failed
  BY DEF ReadEnd
<1>4. /\ ~p.ok => /\ finished' = TRUE /\ out' = Append(out, Error)
                  /\ pending' = pending /\ emittedAny' = emittedAny
      /\ p.ok /\ p.chunks # <<>> =>
             /\ out' = Append(out, Head(p.chunks)) /\ pending' = Tail(p.chunks)
             /\ emittedAny' = TRUE /\ finished' = finished
      /\ p.ok /\ p.chunks = <<>> =>
             /\ pending' = pending /\ emittedAny' = emittedAny /\ finished' = TRUE
             /\ out' = IF emittedAny THEN out ELSE Append(out, Error)
  BY DEF ReadEnd, GiveError
<1>5. text \in Seq(Bytes) /\ Len(text) \in Nat /\ read \in 0 .. Len(text) /\ read \in Nat
  BY <1>1, TextIs
<1>6. /\ lineBuffer \in Seq(Bytes) /\ eventData \in Seq(Bytes) /\ out \in Seq(Chunk)
      /\ pending \in Seq(Chunk) /\ Len(lineBuffer) \in Nat
      /\ emittedAny \in BOOLEAN /\ finished \in BOOLEAN
  BY <1>1 DEF TypeOK
<1>7. Sane(p) /\ p.event = <<>>
  BY <1>6, CloseIs
<1>8. /\ w.chunks = b.chunks
      /\ w.ok <=> b.ok /\ b.chunks # <<>>
      /\ Whole(w) = IF w.ok THEN b.chunks ELSE Append(b.chunks, Error)
  BY <1>5, WholeIs
<1> HIDE DEF p, b, w
<1>9. p \in Result /\ (\A i \in DOMAIN p.chunks : ~p.chunks[i].error) /\ (~p.ok => p.chunks = <<>>)
  BY <1>7 DEF Sane
<1>10. p.ok \in BOOLEAN /\ p.chunks \in Seq(Chunk) /\ Append(out, Error) \in Seq(Chunk)
  BY <1>6, <1>9, ErrorIs DEF Result
<1>11. p.chunks # <<>> =>
           /\ Tail(p.chunks) \in Seq(Chunk) /\ Append(out, Head(p.chunks)) \in Seq(Chunk)
           /\ Append(out, Head(p.chunks)) \o Tail(p.chunks) = out \o p.chunks
           /\ out \o p.chunks # <<>>
           /\ \A i \in DOMAIN Tail(p.chunks) : ~Tail(p.chunks)[i].error
  <2> SUFFICES ASSUME p.chunks # <<>>
               PROVE  /\ Tail(p.chunks) \in Seq(Chunk)
                      /\ Append(out, Head(p.chunks)) \in Seq(Chunk)
                      /\ Append(out, Head(p.chunks)) \o Tail(p.chunks) = out \o p.chunks
                      /\ out \o p.chunks # <<>>
                      /\ \A i \in DOMAIN Tail(p.chunks) : ~Tail(p.chunks)[i].error
    OBVIOUS
  <2> DEFINE c == p.chunks
  <2>1. c \in Seq(Chunk) /\ c # <<>> /\ \A i \in DOMAIN c : ~c[i].error
    BY <1>9, <1>10
  <2> HIDE DEF c
  <2>2. /\ Tail(c) \in Seq(Chunk) /\ Append(out, Head(c)) \in Seq(Chunk)
        /\ Append(out, Head(c)) \o Tail(c) = out \o c
        /\ out \o c # <<>>
        /\ \A i \in DOMAIN Tail(c) : i + 1 \in DOMAIN c /\ Tail(c)[i] = c[i + 1]
    BY <1>6, <2>1, PopCat
  <2>3. \A i \in DOMAIN Tail(c) : ~Tail(c)[i].error
    BY <2>1, <2>2
  <2>4. QED
    BY <2>2, <2>3, Zenon DEF c
<1>12. TypeOK'
  <2>1. out' \in Seq(Chunk) /\ finished' \in BOOLEAN /\ emittedAny' \in BOOLEAN
    BY <1>4, <1>6, <1>10, <1>11
  <2>2. pending' \in Seq(Chunk) /\ \A i \in DOMAIN pending' : ~pending'[i].error
    <3>1. pending' = pending \/ (pending' = Tail(p.chunks) /\ p.chunks # <<>>)
      BY <1>4, <1>10
    <3>2. QED
      BY <1>1, <1>11, <3>1 DEF TypeOK
  <2>3. <<>> \in Seq(Bytes)
    OBVIOUS
  <2>4. eventData' \in Seq(Bytes) /\ lineBuffer' \in Seq(Bytes)
    BY <1>3, <1>7, <2>3
  <2>5. text' \in Texts /\ read' \in 0 .. Len(text') /\ failed' \in BOOLEAN
    BY <1>1, <1>3 DEF TypeOK
  <2>6. QED
    BY <2>1, <2>2, <2>4, <2>5, Zenon DEF TypeOK
<1>13. out \o <<>> = out
  BY <1>6, ConcatEmptySeq
<1>14. CASE Tracks
  <2>1. PICK k \in 0 .. read : At(k)
    BY <1>14 DEF Tracks
  <2> DEFINE acc == Complete(text)[k]
  <2>2. /\ k = 0 \/ text[k] = "nl"
        /\ lineBuffer = SubSeq(text, k + 1, read)
        /\ acc.ok
        /\ out \o pending = acc.chunks
        /\ Squeezed(eventData) = Squeezed(acc.event)
    BY <2>1 DEF At
  <2>3. acc \in Result
    BY <1>2, <1>5, CompleteDef
  <2>4. out = acc.chunks
    BY <1>2, <1>13, <2>2
  <2>5. Len(lineBuffer) = read - k /\ \A i \in 1 .. read - k : lineBuffer[i] = text[k + i]
    BY <1>5, <2>2, PieceIs
  <2>6. \A i \in k + 1 .. Len(text) : text[i] # "nl"
    <3> SUFFICES ASSUME NEW i \in k + 1 .. Len(text), text[i] = "nl" PROVE FALSE
      OBVIOUS
    <3>1. i - k \in 1 .. read - k /\ k + (i - k) = i
      BY <1>2, <1>5
    <3>2. lineBuffer[i - k] = "nl" /\ i - k \in DOMAIN lineBuffer
      BY <1>6, <2>5, <3>1
    <3>3. i - k \in Newlines
      BY <3>2 DEF Newlines
    <3>4. QED
      BY <1>2, <3>3
  <2>7. lineBuffer = LineAt(text, Len(text) + 1)
    <3> DEFINE j == Len(text) + 1
    <3>1. j \in Nat /\ j - 1 = Len(text) /\ k \in 0 .. j - 1
      BY <1>2, <1>5
    <3>2. LineFrom(text, k, j)
      BY <2>2, <2>6, <3>1 DEF LineFrom
    <3> HIDE DEF j
    <3>3. LineAt(text, j) = SubSeq(text, k + 1, j - 1)
      BY <3>1, <3>2, LineAtIs
    <3>4. QED
      BY <1>2, <2>2, <3>1, <3>3 DEF j
  <2>8. b = AddLine(AddLine(acc, lineBuffer), <<>>)
    <3>1. Len(text) \in 0 .. Len(text) /\ k \in 0 .. Len(text)
      BY <1>2, <1>5
    <3>2. Complete(text)[Len(text)] = acc
      BY <1>5, <2>6, <3>1, Skip
    <3>3. QED
      BY <2>7, <3>2 DEF b, Body
  <2> HIDE DEF acc
  <2>9. b.ok = p.ok /\ b.chunks = out \o p.chunks
    BY <1>6, <2>2, <2>3, <2>4, <2>8, CloseSim DEF p
  <2>10. CASE ~p.ok
    <3>1. b.chunks = out /\ ~w.ok
      BY <1>8, <1>9, <1>13, <2>9, <2>10
    <3>2. out' = Whole(w)
      BY <1>4, <1>8, <2>10, <3>1
    <3>3. Over'
      BY <1>3, <1>4, <1>14, <2>10, <3>2 DEF Over, Tracks, w
    <3>4. QED
      BY <1>12, <3>3 DEF SseInv, Faithful
  <2>11. CASE p.ok /\ p.chunks # <<>>
    <3>1. w.ok /\ w.chunks = out \o p.chunks
      BY <1>8, <1>11, <2>9, <2>11
    <3>2. out' \o pending' = w.chunks
      BY <1>4, <1>11, <2>11, <3>1
    <3>3. Closed'
      BY <1>2, <1>3, <1>4, <1>7, <1>14, <2>11, <3>1, <3>2 DEF Closed, Tracks, w
    <3>4. QED
      BY <1>12, <3>3 DEF SseInv, Faithful
  <2>12. CASE p.ok /\ p.chunks = <<>>
    <3>1. b.chunks = out /\ (w.ok <=> emittedAny)
      BY <1>8, <1>13, <1>14, <2>9, <2>12 DEF Tracks
    <3>2. out' = Whole(w)
      BY <1>4, <1>8, <2>12, <3>1
    <3>3. Over'
      BY <1>3, <1>4, <1>14, <2>12, <3>2 DEF Over, Tracks, w
    <3>4. QED
      BY <1>12, <3>3 DEF SseInv, Faithful
  <2>13. QED
    BY <2>10, <2>11, <2>12
<1>15. CASE Closed
  <2>1. p.ok /\ p.chunks = <<>>
    <3>1. p = Flush(<<>>)
      <4>1. lineBuffer = <<>> /\ eventData = <<>>
        BY <1>15 DEF Closed
      <4>2. QED
        BY <4>1, NothingParsed DEF p, Close
    <3>2. QED
      BY <3>1, NoBytes, NothingParsed DEF Flush
  <2>2. out' = out /\ finished' = TRUE
    BY <1>4, <1>15, <2>1 DEF Closed
  <2>3. out = Whole(w)
    BY <1>2, <1>8, <1>13, <1>15 DEF Closed, w
  <2>4. Over'
    BY <1>3, <1>15, <2>2, <2>3 DEF Over, Closed, w
  <2>5. QED
    BY <1>12, <2>4 DEF SseInv, Faithful
<1>16. CASE ~Clean(text)
  BY <1>3, <1>12, <1>16 DEF SseInv, Faithful
<1>17. QED
  BY <1>1, <1>2, <1>14, <1>15, <1>16 DEF Faithful, Over

(* The invariant is inductive.                                             *)
LEMMA Inductive ==
    ASSUME SseInv, [Next]_vars
    PROVE  SseInv'
<1>1. CASE PopPending
  BY <1>1, PopPendingInv
<1>2. CASE TakeLine
  BY <1>2, TakeLineInv
<1>3. CASE ReadBytes
  BY <1>3, ReadBytesInv
<1>4. CASE ReadFails
  BY <1>4, ReadFailsInv
<1>5. CASE ReadEnd
  BY <1>5, ReadEndInv
<1>6. CASE UNCHANGED vars
  <2>1. /\ text' = text /\ read' = read /\ lineBuffer' = lineBuffer
        /\ eventData' = eventData /\ pending' = pending /\ emittedAny' = emittedAny
        /\ finished' = finished /\ failed' = failed /\ out' = out
    BY <1>6 DEF vars, state
  <2>2. QED
    BY <2>1 DEF SseInv, Faithful, Tracks, Closed, Over, At, TypeOK
<1>7. QED
  BY <1>1, <1>2, <1>3, <1>4, <1>5, <1>6 DEF Next

LEMMA InvEmittedIsParsed ==
    ASSUME SseInv
    PROVE  EmittedIsParsed
<1> DEFINE all == Whole(ParseStreamEvents(text))
<1> SUFFICES ASSUME Clean(text)
             PROVE  /\ ~finished => IsPrefix(out, all)
                    /\ finished /\ ~failed => out = all
                    /\ finished /\ failed => Last(out) = Error /\ IsPrefix(Front(out), all)
  BY DEF EmittedIsParsed
<1>1. TypeOK /\ (Tracks \/ Closed \/ Over)
  BY DEF SseInv, Faithful
<1>2. CASE Tracks \/ Closed
  <2>1. StartsWith(all, out)
    BY <1>1, <1>2, GivenSoFar
  <2>2. out \in Seq(Chunk)
    BY <1>1 DEF TypeOK
  <2>3. IsPrefix(out, all)
    BY <2>1, <2>2, PrefixOf
  <2>4. ~finished
    BY <1>2 DEF Tracks, Closed
  <2>5. QED
    BY <2>3, <2>4
<1>3. CASE Over
  BY <1>3 DEF Over
<1>4. QED
  BY <1>1, <1>2, <1>3

LEMMA InvEmittedAtOnce ==
    ASSUME SseInv
    PROVE  EmittedAtOnce
<1> DEFINE seen == Complete(text)[read]
<1> SUFFICES ASSUME Clean(text), Reading, read < Len(text)
             PROVE  seen.ok /\ out = seen.chunks /\ Squeezed(eventData) = Squeezed(seen.event)
  BY DEF EmittedAtOnce
<1>1. TypeOK /\ (Tracks \/ Closed \/ Over)
  BY DEF SseInv, Faithful
<1>2. ~finished /\ pending = <<>> /\ Newlines = {}
  BY DEF Reading, Looking
<1>3. text \in Seq(Bytes) /\ Len(text) \in Nat /\ read \in 0 .. Len(text) /\ read \in Nat
  BY <1>1, TextIs
<1>4. Tracks
  BY <1>1, <1>2, <1>3 DEF Closed, Over
<1>5. PICK k \in 0 .. read : At(k)
  BY <1>4 DEF Tracks
<1>6. lineBuffer = SubSeq(text, k + 1, read)
  BY <1>5 DEF At
<1>7. \A i \in k + 1 .. read : text[i] # "nl"
  <2> SUFFICES ASSUME NEW i \in k + 1 .. read, text[i] = "nl" PROVE FALSE
    OBVIOUS
  <2>1. i - k \in 1 .. read - k /\ k + (i - k) = i
    BY <1>3
  <2>2. /\ lineBuffer \in Seq(Bytes) /\ Len(lineBuffer) = read - k
        /\ \A n \in 1 .. read - k : lineBuffer[n] = text[k + n]
    BY <1>3, <1>6, PieceIs
  <2>3. lineBuffer[i - k] = "nl" /\ i - k \in DOMAIN lineBuffer
    BY <2>1, <2>2
  <2>4. i - k \in Newlines
    BY <2>3 DEF Newlines
  <2>5. QED
    BY <1>2, <2>4
<1>8. seen = Complete(text)[k]
  BY <1>3, <1>7, Skip
<1>9. out = out \o pending
  <2>1. out \in Seq(Chunk)
    BY <1>1 DEF TypeOK
  <2>2. QED
    BY <1>2, <2>1, ConcatEmptySeq
<1>10. QED
  BY <1>5, <1>8, <1>9 DEF At

-----------------------------------------------------------------------------

(* The state of the stream keeps its shape, and no chunk that waits to be  *)
(* given is an error.                                                      *)
THEOREM SseTypeCorrect == Spec => []TypeOK
<1>1. Init => SseInv
  BY InitInv
<1>2. SseInv /\ [Next]_vars => SseInv'
  BY Inductive
<1>3. SseInv => TypeOK
  BY DEF SseInv
<1>4. QED
  BY <1>1, <1>2, <1>3, PTL DEF Spec

(* However an upstream's body, of any length and content, is cut into      *)
(* pieces, stream_sse_chunks gives the chunks of the body parsed as a      *)
(* whole, in order, each once, and ends with an error exactly when that    *)
(* parse fails; a stream whose read fails gave a beginning of them.        *)
THEOREM SseEmittedIsParsed == Spec => []EmittedIsParsed
<1>1. Init => SseInv
  BY InitInv
<1>2. SseInv /\ [Next]_vars => SseInv'
  BY Inductive
<1>3. SseInv => EmittedIsParsed
  BY InvEmittedIsParsed
<1>4. QED
  BY <1>1, <1>2, <1>3, PTL DEF Spec

(* stream_sse_chunks never waits for more bytes while it still owes a      *)
(* chunk of an event that is complete, and has then kept every field line  *)
(* of the event that is open.                                              *)
THEOREM SseEmittedAtOnce == Spec => []EmittedAtOnce
<1>1. Init => SseInv
  BY InitInv
<1>2. SseInv /\ [Next]_vars => SseInv'
  BY Inductive
<1>3. SseInv => EmittedAtOnce
  BY InvEmittedAtOnce
<1>4. QED
  BY <1>1, <1>2, <1>3, PTL DEF Spec
=============================================================================
