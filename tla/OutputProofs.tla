---------------------------- MODULE OutputProofs ----------------------------
(***************************************************************************)
(* Theorems about what tools return, for any limits, any tree and any      *)
(* file.                                                                   *)
(***************************************************************************)
EXTENDS OutputBounds, FiniteSetTheorems, SequenceTheorems, WellFoundedInduction, TLAPS

-----------------------------------------------------------------------------
(* Loops.                                                                  *)

(* What holds at 0, and at a number when it holds before, holds up to n.   *)
LEMMA CountingUp ==
  ASSUME NEW n \in Nat, NEW Good, 0 \in Good, \A j \in 1 .. n : j - 1 \in Good => j \in Good
  PROVE  0 .. n \subseteq Good
<1>. DEFINE Bad == {j \in 0 .. n : j \notin Good}
            less == OpToRel(<, Nat)
<1>. SUFFICES ASSUME Bad # {} PROVE FALSE
  OBVIOUS
<1>1. IsWellFoundedOn(less, Nat)
  BY NatLessThanWellFounded
<1>0. Bad \subseteq Nat
  OBVIOUS
<1>. HIDE DEF less
<1>2. PICK j \in Bad : \A k \in Bad : ~ (<<k, j>> \in less)
  BY <1>0, <1>1, WFMin
<1>3. \A k \in Bad : ~ (k < j)
  BY <1>0, <1>2 DEF less, OpToRel
<1>4. j \in 1 .. n /\ j - 1 \in 0 .. n /\ j - 1 < j
  BY <1>2
<1>5. j - 1 \in Good
  BY <1>3, <1>4
<1>. QED
  BY <1>2, <1>4, <1>5

(* f is what a loop holds after each of its n steps.                       *)
IsLoop(f, n, base, step) == f[0] = base /\ \A j \in 1 .. n : f[j] = step[<<f[j - 1], j>>]

LEMMA LoopsRun ==
  ASSUME NEW S, NEW n \in Nat, NEW base \in S, NEW step \in [S \X (1 .. n) -> S]
  PROVE  \E f \in [0 .. n -> S] : IsLoop(f, n, base, step)
<1>. DEFINE Good == {k \in 0 .. n : \E f \in [0 .. k -> S] : IsLoop(f, k, base, step)}
<1>1. 0 \in Good
  <2>. DEFINE f == [j \in 0 .. 0 |-> base]
  <2>1. f \in [0 .. 0 -> S] /\ f[0] = base
    OBVIOUS
  <2>. HIDE DEF f
  <2>2. IsLoop(f, 0, base, step)
    BY <2>1 DEF IsLoop
  <2>. QED
    BY <2>1, <2>2
<1>2. ASSUME NEW k \in 1 .. n, k - 1 \in Good PROVE k \in Good
  <2>1. PICK f \in [0 .. k - 1 -> S] : IsLoop(f, k - 1, base, step)
    BY <1>2
  <2>2. f[k - 1] \in S /\ step[<<f[k - 1], k>>] \in S
    BY <2>1
  <2>. DEFINE g == [j \in 0 .. k |-> IF j = k THEN step[<<f[k - 1], k>>] ELSE f[j]]
  <2>3. g \in [0 .. k -> S]
    BY <2>2
  <2>4. g[0] = f[0] /\ g[k] = step[<<f[k - 1], k>>] /\ \A j \in 0 .. k - 1 : g[j] = f[j]
    OBVIOUS
  <2>. HIDE DEF g
  <2>5. ASSUME NEW j \in 1 .. k PROVE g[j] = step[<<g[j - 1], j>>]
    <3>1. CASE j = k
      <4>1. g[k - 1] = f[k - 1]
        BY <2>4
      <4>. QED
        BY <2>4, <3>1, <4>1
    <3>2. CASE j # k
      <4>1. j \in 1 .. k - 1 /\ j \in 0 .. k - 1 /\ j - 1 \in 0 .. k - 1
        BY <3>2
      <4>2. g[j] = f[j] /\ g[j - 1] = f[j - 1] /\ f[j] = step[<<f[j - 1], j>>]
        BY <2>1, <2>4, <4>1 DEF IsLoop
      <4>. QED
        BY <4>2
    <3>. QED
      BY <3>1, <3>2
  <2>6. IsLoop(g, k, base, step)
    BY <2>1, <2>4, <2>5 DEF IsLoop
  <2>. QED
    BY <2>3, <2>6
<1>. HIDE DEF Good
<1>3. 0 .. n \subseteq Good
  BY <1>1, <1>2, CountingUp
<1>4. n \in Good
  BY <1>3
<1>. QED
  BY <1>4 DEF Good

-----------------------------------------------------------------------------
(* Characters and their bytes.                                             *)

EncodedBytes == {"lead", "continuation", "newline", "narrow"}

LEMMA Encoded ==
  ASSUME NEW char \in Chars
  PROVE  /\ Encode(char) \in Seq(EncodedBytes) /\ Len(Encode(char)) \in 1 .. 3
         /\ RuneStart(Encode(char)[1])
         /\ \A i \in 2 .. Len(Encode(char)) : ~RuneStart(Encode(char)[i])
<1>1. CASE char = "wide"
  <2>1. Encode(char) = <<"lead", "continuation", "continuation">>
    BY <1>1 DEF Encode
  <2>2. <<"lead", "continuation", "continuation">> \in Seq(EncodedBytes)
    BY DEF EncodedBytes
  <2>. QED
    BY <2>1, <2>2 DEF RuneStart
<1>2. CASE char # "wide"
  <2>1. Encode(char) = <<char>> /\ char \in EncodedBytes /\ char # "continuation"
    BY <1>2 DEF Encode, Chars, EncodedBytes
  <2>2. <<char>> \in Seq(EncodedBytes) /\ Len(<<char>>) = 1 /\ <<char>>[1] = char
    BY <2>1
  <2>. QED
    BY <2>1, <2>2 DEF RuneStart
<1>. QED
  BY <1>1, <1>2

(* b is the bytes of each beginning of a text.                             *)
BytesUpTo(b, text) ==
  /\ b \in [0 .. Len(text) -> Seq(EncodedBytes)]
  /\ b[0] = << >>
  /\ \A j \in 1 .. Len(text) : b[j] = b[j - 1] \o Encode(text[j])

LEMMA BytesAccumulate ==
  ASSUME NEW text \in Seq(Chars)
  PROVE  \E b : BytesUpTo(b, text)
<1>. DEFINE n == Len(text)
            step == [x \in Seq(EncodedBytes) \X (1 .. n) |-> x[1] \o Encode(text[x[2]])]
<1>1. n \in Nat /\ \A j \in 1 .. n : text[j] \in Chars
  OBVIOUS
<1>2. << >> \in Seq(EncodedBytes)
  OBVIOUS
<1>3. ASSUME NEW s \in Seq(EncodedBytes), NEW j \in 1 .. n
      PROVE  s \o Encode(text[j]) \in Seq(EncodedBytes)
  BY <1>1, Encoded, ConcatProperties
<1>4. step \in [Seq(EncodedBytes) \X (1 .. n) -> Seq(EncodedBytes)]
  BY <1>3
<1>5. \A s \in Seq(EncodedBytes), j \in 1 .. n : step[<<s, j>>] = s \o Encode(text[j])
  OBVIOUS
<1>. HIDE DEF step
<1>6. PICK b \in [0 .. n -> Seq(EncodedBytes)] : IsLoop(b, n, << >>, step)
  BY <1>1, <1>2, <1>4, LoopsRun
<1>7. ASSUME NEW j \in 1 .. n PROVE b[j] = b[j - 1] \o Encode(text[j])
  <2>1. j - 1 \in 0 .. n
    BY <1>1
  <2>. QED
    BY <1>5, <1>6, <2>1 DEF IsLoop
<1>. QED
  BY <1>6, <1>7 DEF BytesUpTo, IsLoop

(* FlattenSeq, as it goes on from one sequence to the next.                *)
NextFlat(seqs, flat) ==
  [i \in 1 .. Len(seqs) |-> IF i = 1 THEN seqs[i] ELSE flat[i - 1] \o seqs[i]]

LEMMA Flattened ==
  ASSUME NEW seqs, Len(seqs) # 0
  PROVE  FlattenSeq(seqs) = (CHOOSE flat : flat = NextFlat(seqs, flat))[Len(seqs)]
BY DEF FlattenSeq, NextFlat

LEMMA FlatIsUnique ==
  ASSUME NEW seqs, NEW l \in Nat \ {0}, Len(seqs) = l,
         NEW f, f = NextFlat(seqs, f)
  PROVE  FlattenSeq(seqs) = f[l]
<1>. DEFINE flat == CHOOSE g : g = NextFlat(seqs, g)
            Good == {i \in 0 .. l : i = 0 \/ flat[i] = f[i]}
<1>1. flat = NextFlat(seqs, flat)
  OBVIOUS
<1>2. FlattenSeq(seqs) = flat[l]
  BY Flattened
<1>. HIDE DEF flat
<1>3. 0 \in Good
  OBVIOUS
<1>4. ASSUME NEW i \in 1 .. l, i - 1 \in Good PROVE i \in Good
  <2>1. /\ flat[i] = IF i = 1 THEN seqs[i] ELSE flat[i - 1] \o seqs[i]
        /\ f[i] = IF i = 1 THEN seqs[i] ELSE f[i - 1] \o seqs[i]
    BY <1>1 DEF NextFlat
  <2>2. i = 1 \/ flat[i - 1] = f[i - 1]
    BY <1>4
  <2>3. i \in 0 .. l
    OBVIOUS
  <2>. QED
    BY <2>1, <2>2, <2>3
<1>. HIDE DEF Good
<1>5. l \in Good
  BY <1>3, <1>4, CountingUp
<1>. QED
  BY <1>2, <1>5 DEF Good

LEMMA BytesOfNothing == Bytes(<< >>) = << >>
BY DEF Bytes, FlattenSeq

LEMMA BytesOfABeginning ==
  ASSUME NEW text \in Seq(Chars), NEW b, BytesUpTo(b, text), NEW k \in 0 .. Len(text)
  PROVE  Bytes(SubSeq(text, 1, k)) = b[k]
<1>1. Len(text) \in Nat /\ k \in Nat
  OBVIOUS
<1>2. CASE k = 0
  <2>1. SubSeq(text, 1, k) = << >>
    BY <1>2, SubSeqEmpty
  <2>. QED
    BY <1>2, <2>1, BytesOfNothing DEF BytesUpTo
<1>3. CASE k # 0
  <2>. DEFINE t == SubSeq(text, 1, k)
              seqs == [j \in DOMAIN t |-> Encode(t[j])]
              f == [i \in 1 .. k |-> b[i]]
  <2>1. DOMAIN t = 1 .. k /\ Len(t) = k /\ \A j \in 1 .. k : t[j] = text[j]
    BY <1>1, <1>3
  <2>2. DOMAIN seqs = 1 .. k /\ \A j \in 1 .. k : seqs[j] = Encode(text[j])
    BY <2>1
  <2>3. Len(seqs) = k
    BY <1>1, <2>2
  <2>. HIDE DEF seqs
  <2>6. (\A i \in 1 .. k : f[i] = b[i]) /\ f = [i \in 1 .. k |-> f[i]] /\ k \in 1 .. k
    BY <1>1, <1>3
  <2>. HIDE DEF f
  <2>4. ASSUME NEW i \in 1 .. k
        PROVE  f[i] = IF i = 1 THEN seqs[i] ELSE f[i - 1] \o seqs[i]
    <3>0. i \in 1 .. Len(text)
      BY <1>1
    <3>1. b[i] = b[i - 1] \o Encode(text[i])
      BY <3>0 DEF BytesUpTo
    <3>2. CASE i = 1
      <4>1. text[1] \in Chars
        BY <1>1, <3>2
      <4>2. << >> \o Encode(text[1]) = Encode(text[1])
        BY <4>1, Encoded, ConcatEmptySeq
      <4>3. i - 1 = 0 /\ b[0] = << >>
        BY <3>2 DEF BytesUpTo
      <4>4. b[i] = b[0] \o Encode(text[1])
        BY <3>1, <3>2, <4>3
      <4>5. f[i] = b[i] /\ seqs[i] = Encode(text[1])
        BY <2>2, <2>6, <3>2
      <4>. QED
        BY <3>2, <4>2, <4>3, <4>4, <4>5
    <3>3. CASE i # 1
      <4>1. i - 1 \in 1 .. k
        BY <1>1, <3>3
      <4>2. f[i] = b[i] /\ f[i - 1] = b[i - 1] /\ seqs[i] = Encode(text[i])
        BY <2>2, <2>6, <4>1
      <4>. QED
        BY <3>1, <3>3, <4>2
    <3>. QED
      BY <3>2, <3>3
  <2>5. f = NextFlat(seqs, f)
    BY <2>3, <2>4, <2>6 DEF NextFlat
  <2>7. FlattenSeq(seqs) = b[k]
    BY <1>1, <1>3, <2>3, <2>5, <2>6, FlatIsUnique
  <2>. QED
    BY <2>7 DEF Bytes, seqs
<1>. QED
  BY <1>2, <1>3

LEMMA BytesOfAnEnd ==
  ASSUME NEW text \in Seq(Chars), NEW b, BytesUpTo(b, text), NEW k \in 0 .. Len(text)
  PROVE  LET end == Bytes(SubSeq(text, k + 1, Len(text)))
         IN  end \in Seq(EncodedBytes) /\ b[Len(text)] = b[k] \o end
<1>. DEFINE n == Len(text)
            t == SubSeq(text, k + 1, n)
<1>1. n \in Nat /\ k \in Nat /\ n - k \in Nat /\ b[k] \in Seq(EncodedBytes)
  BY DEF BytesUpTo
<1>2. t \in Seq(Chars) /\ Len(t) = n - k /\ \A j \in 1 .. n - k : t[j] = text[k + j]
  <2>1. k + 1 \in Int /\ n \in Int /\ \A j \in k + 1 .. n : text[j] \in Chars
    BY <1>1
  <2>2. /\ t \in Seq(Chars) /\ Len(t) = IF k + 1 <= n THEN n - (k + 1) + 1 ELSE 0
        /\ \A j \in 1 .. n - (k + 1) + 1 : t[j] = text[k + 1 + j - 1]
    BY <2>1, SubSeqProperties
  <2>. QED
    BY <1>1, <2>2
<1>. HIDE DEF t, n
<1>3. PICK c : BytesUpTo(c, t)
  BY <1>2, BytesAccumulate
<1>. DEFINE Good == {j \in 0 .. n - k : b[k + j] = b[k] \o c[j]}
<1>4. 0 \in Good
  <2>1. c[0] = << >> /\ b[k] \o << >> = b[k] /\ k + 0 = k
    BY <1>1, <1>3, ConcatEmptySeq DEF BytesUpTo
  <2>2. 0 \in 0 .. n - k
    BY <1>1
  <2>. QED
    BY <2>1, <2>2
<1>5. ASSUME NEW j \in 1 .. n - k, j - 1 \in Good PROVE j \in Good
  <2>1. /\ j \in 1 .. Len(t) /\ j - 1 \in 0 .. Len(t) /\ j \in 0 .. n - k
        /\ k + j \in 1 .. n /\ (k + j) - 1 = k + (j - 1)
    BY <1>1, <1>2
  <2>2. c[j] = c[j - 1] \o Encode(t[j]) /\ c[j - 1] \in Seq(EncodedBytes)
    BY <1>3, <2>1 DEF BytesUpTo
  <2>3. b[k + j] = b[(k + j) - 1] \o Encode(text[k + j])
    <3>. DEFINE i == k + j
    <3>1. i \in 1 .. Len(text)
      BY <2>1 DEF n
    <3>. HIDE DEF i
    <3>2. b[i] = b[i - 1] \o Encode(text[i])
      BY <3>1 DEF BytesUpTo
    <3>. QED
      BY <3>2 DEF i
  <2>4. text[k + j] \in Chars /\ t[j] = text[k + j]
    BY <1>1, <1>2, <2>1 DEF n
  <2>5. Encode(t[j]) \in Seq(EncodedBytes)
    BY <2>4, Encoded
  <2>6. b[(k + j) - 1] = b[k] \o c[j - 1]
    BY <1>5, <2>1
  <2>7. (b[k] \o c[j - 1]) \o Encode(t[j]) = b[k] \o (c[j - 1] \o Encode(t[j]))
    <3>. DEFINE first == b[k]
                then == c[j - 1]
                last == Encode(t[j])
    <3>1. /\ first \in Seq(EncodedBytes) /\ then \in Seq(EncodedBytes)
          /\ last \in Seq(EncodedBytes)
      BY <1>1, <2>2, <2>5
    <3>. HIDE DEF first, then, last
    <3>2. (first \o then) \o last = first \o (then \o last)
      BY <3>1, ConcatAssociative
    <3>. QED
      BY <3>2 DEF first, then, last
  <2>8. b[k + j] = b[k] \o c[j]
    BY <2>2, <2>3, <2>4, <2>6, <2>7
  <2>. QED
    BY <2>1, <2>8
<1>. HIDE DEF Good
<1>6. n - k \in Good
  <2>1. 0 .. n - k \subseteq Good
    BY <1>1, <1>4, <1>5, CountingUp
  <2>. QED
    BY <1>1, <2>1
<1>7. b[n] = b[k] \o c[n - k]
  <2>1. k + (n - k) = n
    BY <1>1
  <2>. QED
    BY <1>6, <2>1 DEF Good
<1>8. Bytes(t) = c[n - k] /\ c[n - k] \in Seq(EncodedBytes)
  <2>1. SubSeq(t, 1, n - k) = t
    BY <1>2, SubSeqFull
  <2>2. n - k \in 0 .. Len(t)
    BY <1>1, <1>2
  <2>3. Bytes(SubSeq(t, 1, n - k)) = c[n - k]
    BY <1>2, <1>3, <2>2, BytesOfABeginning
  <2>. QED
    BY <1>3, <2>1, <2>2, <2>3 DEF BytesUpTo
<1>. QED
  BY <1>7, <1>8 DEF t, n

(* end[k] is where the k-th of n characters ends in the bytes s.           *)
CharactersEnd(end, n, s) ==
  /\ n \in Nat /\ end \in [0 .. n -> Nat] /\ end[0] = 0 /\ end[n] = Len(s)
  /\ \A k \in 1 .. n :
       /\ end[k - 1] < end[k]
       /\ RuneStart(s[end[k - 1] + 1])
       /\ \A p \in end[k - 1] + 2 .. end[k] : ~RuneStart(s[p])

LEMMA WhereCharactersEnd ==
  ASSUME NEW text \in Seq(Chars), NEW b, BytesUpTo(b, text)
  PROVE  CharactersEnd([k \in 0 .. Len(text) |-> Len(b[k])], Len(text), b[Len(text)])
<1>. DEFINE n == Len(text)
            end == [k \in 0 .. n |-> Len(b[k])]
            s == b[n]
<1>1. n \in Nat /\ \A k \in 0 .. n : b[k] \in Seq(EncodedBytes)
  BY DEF BytesUpTo
<1>2. end \in [0 .. n -> Nat] /\ \A k \in 0 .. n : end[k] = Len(b[k])
  BY <1>1
<1>3. end[0] = 0 /\ end[n] = Len(s)
  BY <1>1, <1>2 DEF BytesUpTo
<1>4. ASSUME NEW k \in 1 .. n
      PROVE  /\ end[k - 1] < end[k]
             /\ RuneStart(s[end[k - 1] + 1])
             /\ \A p \in end[k - 1] + 2 .. end[k] : ~RuneStart(s[p])
  <2>. DEFINE e == Encode(text[k])
  <2>1. k \in 0 .. n /\ k - 1 \in 0 .. n /\ text[k] \in Chars
    BY <1>1
  <2>2. b[k] = b[k - 1] \o e
    BY DEF BytesUpTo
  <2>3. /\ e \in Seq(EncodedBytes) /\ Len(e) \in 1 .. 3 /\ RuneStart(e[1])
        /\ \A i \in 2 .. Len(e) : ~RuneStart(e[i])
    BY <2>1, Encoded
  <2>. HIDE DEF e
  <2>4. PICK rest \in Seq(EncodedBytes) : s = b[k] \o rest
    BY <2>1, BytesOfAnEnd
  <2>5. /\ end[k] = end[k - 1] + Len(e) /\ end[k - 1] \in Nat /\ end[k] = Len(b[k])
        /\ b[k - 1] \in Seq(EncodedBytes) /\ end[k - 1] = Len(b[k - 1])
    <3>1. /\ b[k - 1] \in Seq(EncodedBytes) /\ end[k - 1] = Len(b[k - 1])
          /\ end[k] = Len(b[k]) /\ end[k - 1] \in Nat
      BY <1>1, <1>2, <2>1
    <3>2. Len(b[k - 1] \o e) = Len(b[k - 1]) + Len(e)
      BY <2>3, <3>1, ConcatProperties
    <3>. QED
      BY <2>2, <3>1, <3>2
  <2>. HIDE DEF s, end
  <2>6. ASSUME NEW i \in 1 .. Len(e) PROVE s[end[k - 1] + i] = e[i]
    <3>1. end[k - 1] + i \in 1 .. Len(b[k])
      BY <2>3, <2>5
    <3>2. b[k][end[k - 1] + i] = e[i]
      <4>1. /\ b[k - 1] \in Seq(EncodedBytes) /\ end[k - 1] = Len(b[k - 1])
            /\ end[k - 1] + i \in 1 .. Len(b[k - 1]) + Len(e)
            /\ ~ (end[k - 1] + i <= Len(b[k - 1])) /\ end[k - 1] + i - Len(b[k - 1]) = i
        BY <2>3, <2>5
      <4>. QED
        BY <2>2, <2>3, <4>1, ConcatProperties
    <3>3. s[end[k - 1] + i] = b[k][end[k - 1] + i]
      BY <1>1, <2>1, <2>4, <3>1
    <3>. QED
      BY <3>2, <3>3
  <2>7. RuneStart(s[end[k - 1] + 1])
    BY <2>3, <2>6
  <2>8. ASSUME NEW p \in end[k - 1] + 2 .. end[k] PROVE ~RuneStart(s[p])
    <3>1. p - end[k - 1] \in 2 .. Len(e) /\ p - end[k - 1] \in 1 .. Len(e)
          /\ end[k - 1] + (p - end[k - 1]) = p
      BY <2>3, <2>5
    <3>. QED
      BY <2>3, <2>6, <3>1
  <2>. QED
    BY <2>3, <2>5, <2>7, <2>8
<1>. QED
  BY <1>1, <1>2, <1>3, <1>4 DEF CharactersEnd

LEMMA EndsIncrease ==
  ASSUME NEW end, NEW n, NEW s, CharactersEnd(end, n, s),
         NEW j \in 0 .. n, NEW k \in 0 .. n, j < k
  PROVE  end[j] < end[k]
<1>. DEFINE Good == {i \in 0 .. n : j < i => end[j] < end[i]}
<1>1. n \in Nat /\ end \in [0 .. n -> Nat] /\ 0 \in Good
  BY DEF CharactersEnd
<1>2. ASSUME NEW i \in 1 .. n, i - 1 \in Good PROVE i \in Good
  <2>1. end[i - 1] < end[i] /\ i - 1 \in 0 .. n /\ i \in 0 .. n
    BY <1>1 DEF CharactersEnd
  <2>2. j < i - 1 => end[j] < end[i - 1]
    BY <1>2
  <2>3. CASE j < i - 1
    BY <1>1, <2>1, <2>2, <2>3
  <2>4. CASE j = i - 1
    BY <2>1, <2>4
  <2>5. j < i => j < i - 1 \/ j = i - 1
    OBVIOUS
  <2>. QED
    BY <2>1, <2>3, <2>4, <2>5
<1>. HIDE DEF Good
<1>3. k \in Good
  BY <1>1, <1>2, CountingUp
<1>. QED
  BY <1>3 DEF Good

-----------------------------------------------------------------------------
(* Cuts.                                                                   *)

(* A cut that moves down until it is at one of the stops, or at 0.         *)
MovesToAStop(at, stops, m) ==
  at[0] = 0 /\ \A j \in 1 .. m : at[j] = IF j \notin stops THEN at[j - 1] ELSE j

LEMMA CutsMove ==
  ASSUME NEW m \in Nat, NEW stops
  PROVE  \E at \in [0 .. m -> Nat] : MovesToAStop(at, stops, m)
<1>. DEFINE step == [x \in Nat \X (1 .. m) |-> IF x[2] \notin stops THEN x[1] ELSE x[2]]
<1>1. step \in [Nat \X (1 .. m) -> Nat]
  OBVIOUS
<1>2. \A i \in Nat, j \in 1 .. m : step[<<i, j>>] = IF j \notin stops THEN i ELSE j
  OBVIOUS
<1>. HIDE DEF step
<1>3. PICK at \in [0 .. m -> Nat] : IsLoop(at, m, 0, step)
  BY <1>1, LoopsRun
<1>4. ASSUME NEW j \in 1 .. m PROVE at[j] = IF j \notin stops THEN at[j - 1] ELSE j
  <2>1. at[j - 1] \in Nat
    OBVIOUS
  <2>. QED
    BY <1>2, <1>3, <2>1 DEF IsLoop
<1>. QED
  BY <1>3, <1>4 DEF MovesToAStop, IsLoop

LEMMA ToTheLastStop ==
  ASSUME NEW m \in Nat, NEW stops, NEW at, MovesToAStop(at, stops, m), NEW last \in 0 .. m,
         last = 0 \/ last \in stops, \A j \in last + 1 .. m : j \notin stops
  PROVE  at[m] = last
<1>. DEFINE Good == {j \in 0 .. m : j >= last => at[j] = last}
<1>1. 0 \in Good
  BY DEF MovesToAStop
<1>2. ASSUME NEW j \in 1 .. m, j - 1 \in Good PROVE j \in Good
  <2>1. at[j] = IF j \notin stops THEN at[j - 1] ELSE j
    BY DEF MovesToAStop
  <2>2. j - 1 >= last => at[j - 1] = last
    BY <1>2
  <2>3. CASE j > last
    BY <2>1, <2>2, <2>3
  <2>4. CASE j = last
    BY <2>1, <2>4
  <2>5. CASE j < last
    BY <2>5
  <2>. QED
    BY <2>3, <2>4, <2>5
<1>. HIDE DEF Good
<1>3. m \in Good
  BY <1>1, <1>2, CountingUp
<1>. QED
  BY <1>3 DEF Good

(* The character a place is in.                                            *)
LEMMA TheCharacterAt ==
  ASSUME NEW end, NEW n, NEW s, CharactersEnd(end, n, s), NEW m \in Nat, m < Len(s)
  PROVE  \E k \in 0 .. n - 1 : end[k] <= m /\ m < end[k + 1]
<1>. DEFINE Good == {j \in 0 .. m : \E k \in 0 .. n - 1 : end[k] <= j /\ j < end[k + 1]}
<1>1. /\ n \in Nat /\ end \in [0 .. n -> Nat] /\ end[0] = 0 /\ end[n] = Len(s)
      /\ \A k \in 1 .. n : end[k - 1] < end[k]
  BY DEF CharactersEnd
<1>2. \A k \in 0 .. n - 1 : end[k] < end[k + 1]
  <2>1. ASSUME NEW k \in 0 .. n - 1 PROVE end[k] < end[k + 1]
    <3>1. k + 1 \in 1 .. n /\ (k + 1) - 1 = k
      BY <1>1
    <3>. QED
      BY <1>1, <3>1
  <2>. QED
    BY <2>1
<1>3. 0 \in Good
  <2>1. n # 0 /\ 0 \in 0 .. n - 1
    BY <1>1
  <2>. QED
    BY <1>1, <1>2, <2>1
<1>4. ASSUME NEW j \in 1 .. m, j - 1 \in Good PROVE j \in Good
  <2>1. PICK k \in 0 .. n - 1 : end[k] <= j - 1 /\ j - 1 < end[k + 1]
    BY <1>4
  <2>2. k \in 0 .. n /\ k + 1 \in 0 .. n /\ j \in 0 .. m
    BY <1>1
  <2>3. end[k] \in Nat /\ end[k + 1] \in Nat
    BY <1>1, <2>2
  <2>4. CASE j < end[k + 1]
    BY <2>1, <2>2, <2>3, <2>4
  <2>5. CASE j = end[k + 1]
    <3>1. k + 1 # n
      BY <1>1, <2>5
    <3>2. k + 1 \in 0 .. n - 1
      BY <1>1, <2>2, <3>1
    <3>. QED
      BY <1>2, <2>2, <2>5, <3>2
  <2>. QED
    BY <2>1, <2>3, <2>4, <2>5
<1>. HIDE DEF Good
<1>5. m \in Good
  BY <1>3, <1>4, CountingUp
<1>. QED
  BY <1>5 DEF Good

NextBack(s, m, back) ==
  [cut \in 0 .. m |-> IF cut > 0 /\ ~RuneStart(s[cut + 1]) THEN back[cut - 1] ELSE cut]

LEMMA BackToAStop ==
  ASSUME NEW s, NEW m \in Nat \ {0}, ~ (Len(s) <= m)
  PROVE  \E back : /\ MovesToAStop(back, {j \in 1 .. m : RuneStart(s[j + 1])}, m)
                   /\ TruncateAtRuneBoundary(s, m) = SubSeq(s, 1, back[m])
<1>. DEFINE stops == {j \in 1 .. m : RuneStart(s[j + 1])}
            back == CHOOSE f : f = NextBack(s, m, f)
<1>1. \A j \in 1 .. m : j \notin stops <=> ~RuneStart(s[j + 1])
  OBVIOUS
<1>. HIDE DEF stops
<1>2. PICK f \in [0 .. m -> Nat] : MovesToAStop(f, stops, m)
  BY CutsMove
<1>3. f = NextBack(s, m, f)
  <2>1. ASSUME NEW j \in 0 .. m
        PROVE  f[j] = IF j > 0 /\ ~RuneStart(s[j + 1]) THEN f[j - 1] ELSE j
    <3>1. CASE j = 0
      BY <1>2, <3>1 DEF MovesToAStop
    <3>2. CASE j # 0
      <4>1. j \in 1 .. m /\ j > 0
        BY <3>2
      <4>. QED
        BY <1>1, <1>2, <4>1 DEF MovesToAStop
    <3>. QED
      BY <3>1, <3>2
  <2>. QED
    BY <2>1 DEF NextBack
<1>4. back = NextBack(s, m, back)
  BY <1>3
<1>5. TruncateAtRuneBoundary(s, m) = SubSeq(s, 1, back[m])
  <2>1. TruncateAtRuneBoundary(s, m)
          = IF m <= 0 THEN << >> ELSE IF Len(s) <= m THEN s ELSE FirstOf(s, back[m])
    BY DEF TruncateAtRuneBoundary, NextBack
  <2>2. ~ (m <= 0)
    OBVIOUS
  <2>. QED
    BY <2>1, <2>2 DEF FirstOf
<1>. HIDE DEF back
<1>6. MovesToAStop(back, stops, m)
  <2>1. \A j \in 0 .. m : back[j] = IF j > 0 /\ ~RuneStart(s[j + 1]) THEN back[j - 1] ELSE j
    BY <1>4 DEF NextBack
  <2>2. back[0] = 0
    BY <2>1
  <2>3. ASSUME NEW j \in 1 .. m PROVE back[j] = IF j \notin stops THEN back[j - 1] ELSE j
    <3>1. j \in 0 .. m /\ j > 0
      OBVIOUS
    <3>. QED
      BY <1>1, <2>1, <3>1
  <2>. QED
    BY <2>2, <2>3 DEF MovesToAStop
<1>. QED
  BY <1>5, <1>6 DEF stops

NextForth(s, m, forth) ==
  [left \in 0 .. m |->
     IF left > 0 /\ ~RuneStart(s[Len(s) - left + 1]) THEN forth[left - 1] ELSE left]

LEMMA ForthToAStop ==
  ASSUME NEW s, NEW m \in Nat \ {0}, ~ (Len(s) <= m)
  PROVE  \E forth : /\ MovesToAStop(forth, {j \in 1 .. m : RuneStart(s[Len(s) - j + 1])}, m)
                    /\ SuffixAtRuneBoundary(s, m) = SubSeq(s, Len(s) - forth[m] + 1, Len(s))
<1>. DEFINE stops == {j \in 1 .. m : RuneStart(s[Len(s) - j + 1])}
            forth == CHOOSE f : f = NextForth(s, m, f)
<1>1. \A j \in 1 .. m : j \notin stops <=> ~RuneStart(s[Len(s) - j + 1])
  OBVIOUS
<1>. HIDE DEF stops
<1>2. PICK f \in [0 .. m -> Nat] : MovesToAStop(f, stops, m)
  BY CutsMove
<1>3. f = NextForth(s, m, f)
  <2>1. ASSUME NEW j \in 0 .. m
        PROVE  f[j] = IF j > 0 /\ ~RuneStart(s[Len(s) - j + 1]) THEN f[j - 1] ELSE j
    <3>1. CASE j = 0
      BY <1>2, <3>1 DEF MovesToAStop
    <3>2. CASE j # 0
      <4>1. j \in 1 .. m /\ j > 0
        BY <3>2
      <4>. QED
        BY <1>1, <1>2, <4>1 DEF MovesToAStop
    <3>. QED
      BY <3>1, <3>2
  <2>. QED
    BY <2>1 DEF NextForth
<1>4. forth = NextForth(s, m, forth)
  BY <1>3
<1>5. SuffixAtRuneBoundary(s, m) = SubSeq(s, Len(s) - forth[m] + 1, Len(s))
  <2>1. SuffixAtRuneBoundary(s, m)
          = IF m <= 0 THEN << >> ELSE IF Len(s) <= m THEN s ELSE LastOf(s, forth[m])
    BY DEF SuffixAtRuneBoundary, NextForth
  <2>2. ~ (m <= 0)
    OBVIOUS
  <2>. QED
    BY <2>1, <2>2 DEF LastOf
<1>. HIDE DEF forth
<1>6. MovesToAStop(forth, stops, m)
  <2>1. \A j \in 0 .. m :
          forth[j] = IF j > 0 /\ ~RuneStart(s[Len(s) - j + 1]) THEN forth[j - 1] ELSE j
    BY <1>4 DEF NextForth
  <2>2. forth[0] = 0
    BY <2>1
  <2>3. ASSUME NEW j \in 1 .. m PROVE forth[j] = IF j \notin stops THEN forth[j - 1] ELSE j
    <3>1. j \in 0 .. m /\ j > 0
      OBVIOUS
    <3>. QED
      BY <1>1, <2>1, <3>1
  <2>. QED
    BY <2>2, <2>3 DEF MovesToAStop
<1>. QED
  BY <1>5, <1>6 DEF stops

LEMMA TruncatesAtAnEnd ==
  ASSUME NEW end, NEW n, NEW s, CharactersEnd(end, n, s), NEW m \in Nat \ {0}, m < Len(s),
         Len(s) \in Nat, NEW k \in 0 .. n - 1, end[k] <= m, m < end[k + 1]
  PROVE  TruncateAtRuneBoundary(s, m) = SubSeq(s, 1, end[k])
<1>. DEFINE stops == {j \in 1 .. m : RuneStart(s[j + 1])}
<1>1. n \in Nat /\ k \in 0 .. n /\ k + 1 \in 1 .. n /\ (k + 1) - 1 = k
  BY DEF CharactersEnd
<1>2. end[k] \in Nat /\ end[k + 1] \in Nat
  BY <1>1 DEF CharactersEnd
<1>3. /\ RuneStart(s[end[k] + 1])
      /\ \A p \in end[k] + 2 .. end[k + 1] : ~RuneStart(s[p])
  BY <1>1 DEF CharactersEnd
<1>4. PICK back : /\ MovesToAStop(back, stops, m)
                  /\ TruncateAtRuneBoundary(s, m) = SubSeq(s, 1, back[m])
  <2>1. ~ (Len(s) <= m)
    OBVIOUS
  <2>. QED
    BY <2>1, BackToAStop
<1>5. end[k] = 0 \/ end[k] \in stops
  BY <1>2, <1>3
<1>6. ASSUME NEW j \in end[k] + 1 .. m PROVE j \notin stops
  <2>1. j + 1 \in end[k] + 2 .. end[k + 1]
    BY <1>2
  <2>. QED
    BY <1>3, <2>1
<1>7. end[k] \in 0 .. m
  BY <1>2
<1>. HIDE DEF stops
<1>8. back[m] = end[k]
  BY <1>4, <1>5, <1>6, <1>7, ToTheLastStop
<1>. QED
  BY <1>4, <1>8

LEMMA SuffixesBeginAtAnEnd ==
  ASSUME NEW end, NEW n, NEW s, CharactersEnd(end, n, s), NEW m \in Nat \ {0}, m < Len(s),
         Len(s) \in Nat, NEW k \in 0 .. n - 1,
         end[k] < Len(s) - m, Len(s) - m <= end[k + 1]
  PROVE  SuffixAtRuneBoundary(s, m) = SubSeq(s, end[k + 1] + 1, Len(s))
<1>. DEFINE stops == {j \in 1 .. m : RuneStart(s[Len(s) - j + 1])}
            left == Len(s) - end[k + 1]
<1>1. n \in Nat /\ k \in 0 .. n /\ k + 1 \in 1 .. n /\ (k + 1) - 1 = k /\ end[n] = Len(s)
  BY DEF CharactersEnd
<1>2. /\ end[k] \in Nat /\ end[k + 1] \in Nat
      /\ end[k + 1] <= Len(s) /\ (k + 1 # n => end[k + 1] < Len(s))
  <2>1. end[k] \in Nat /\ end[k + 1] \in Nat
    BY <1>1 DEF CharactersEnd
  <2>2. k + 1 # n => end[k + 1] < end[n]
    <3>1. k + 1 # n => k + 1 < n /\ k + 1 \in 0 .. n /\ n \in 0 .. n
      BY <1>1
    <3>. QED
      BY <3>1, EndsIncrease
  <2>. QED
    BY <1>1, <2>1, <2>2
<1>3. \A p \in end[k] + 2 .. end[k + 1] : ~RuneStart(s[p])
  BY <1>1 DEF CharactersEnd
<1>4. k + 1 # n => RuneStart(s[end[k + 1] + 1])
  <2>1. k + 1 # n => k + 2 \in 1 .. n /\ (k + 2) - 1 = k + 1
    BY <1>1
  <2>. QED
    BY <2>1 DEF CharactersEnd
<1>5. PICK forth : /\ MovesToAStop(forth, stops, m)
                   /\ SuffixAtRuneBoundary(s, m) = SubSeq(s, Len(s) - forth[m] + 1, Len(s))
  <2>1. ~ (Len(s) <= m)
    OBVIOUS
  <2>. QED
    BY <2>1, ForthToAStop
<1>6. left \in 0 .. m /\ Len(s) - left + 1 = end[k + 1] + 1
  BY <1>2
<1>7. left = 0 \/ left \in stops
  <2>1. CASE k + 1 = n
    BY <1>1, <2>1
  <2>2. CASE k + 1 # n
    BY <1>2, <1>4, <1>6, <2>2
  <2>. QED
    BY <2>1, <2>2
<1>8. ASSUME NEW j \in left + 1 .. m PROVE j \notin stops
  <2>1. Len(s) - j + 1 \in end[k] + 2 .. end[k + 1]
    BY <1>2
  <2>. QED
    BY <1>3, <2>1
<1>. HIDE DEF stops, left
<1>9. forth[m] = left
  BY <1>5, <1>6, <1>7, <1>8, ToTheLastStop
<1>. QED
  BY <1>5, <1>6, <1>9

LEMMA TheTwoHalves ==
  ASSUME NEW S, NEW a \in Seq(S), NEW c \in Seq(S)
  PROVE  /\ SubSeq(a \o c, 1, Len(a)) = a
         /\ SubSeq(a \o c, Len(a) + 1, Len(a \o c)) = c
<1>. DEFINE s == a \o c
<1>1. /\ s \in Seq(S) /\ Len(s) = Len(a) + Len(c) /\ Len(a) \in Nat /\ Len(c) \in Nat
      /\ \A i \in 1 .. Len(a) + Len(c) : s[i] = IF i <= Len(a) THEN a[i] ELSE c[i - Len(a)]
  BY ConcatProperties
<1>. HIDE DEF s
<1>2. SubSeq(s, 1, Len(a)) = a
  <2>1. /\ SubSeq(s, 1, Len(a)) \in Seq(S) /\ Len(SubSeq(s, 1, Len(a))) = Len(a)
        /\ \A i \in 1 .. Len(a) : SubSeq(s, 1, Len(a))[i] = s[i]
    BY <1>1
  <2>2. \A i \in 1 .. Len(a) : s[i] = a[i]
    BY <1>1
  <2>. QED
    BY <2>1, <2>2, SeqEqual
<1>3. SubSeq(s, Len(a) + 1, Len(s)) = c
  <2>. DEFINE t == SubSeq(s, Len(a) + 1, Len(s))
  <2>1. t \in Seq(S) /\ Len(t) = Len(c) /\ \A i \in 1 .. Len(c) : t[i] = s[Len(a) + i]
    <3>1. Len(a) + 1 \in Int /\ Len(s) \in Int /\ \A i \in Len(a) + 1 .. Len(s) : s[i] \in S
      BY <1>1
    <3>2. /\ t \in Seq(S)
          /\ Len(t) = IF Len(a) + 1 <= Len(s) THEN Len(s) - (Len(a) + 1) + 1 ELSE 0
          /\ \A i \in 1 .. Len(s) - (Len(a) + 1) + 1 : t[i] = s[Len(a) + 1 + i - 1]
      BY <3>1, SubSeqProperties
    <3>. HIDE DEF t
    <3>. QED
      BY <1>1, <3>2
  <2>. HIDE DEF t
  <2>2. \A i \in 1 .. Len(c) : s[Len(a) + i] = c[i]
    <3>1. ASSUME NEW i \in 1 .. Len(c) PROVE s[Len(a) + i] = c[i]
      <4>1. /\ Len(a) + i \in 1 .. Len(a) + Len(c) /\ ~ (Len(a) + i <= Len(a))
            /\ Len(a) + i - Len(a) = i
        BY <1>1
      <4>. QED
        BY <1>1, <4>1
    <3>. QED
      BY <3>1
  <2>3. t = c
    BY <2>1, <2>2, SeqEqual
  <2>. QED
    BY <2>3 DEF t
<1>. QED
  BY <1>2, <1>3 DEF s

LEMMA LengthsOfParts ==
  ASSUME NEW text \in Seq(Chars), NEW k \in 0 .. Len(text)
  PROVE  /\ Len(SubSeq(text, 1, k)) = k
         /\ Len(SubSeq(text, k + 1, Len(text))) = Len(text) - k
<1>1. Len(text) \in Nat /\ k \in Nat
  OBVIOUS
<1>2. /\ 1 \in Int /\ k \in Int /\ (\A i \in 1 .. k : text[i] \in Chars)
      /\ k + 1 \in Int /\ Len(text) \in Int /\ (\A i \in k + 1 .. Len(text) : text[i] \in Chars)
  BY <1>1
<1>3. Len(SubSeq(text, 1, k)) = IF 1 <= k THEN k - 1 + 1 ELSE 0
  BY <1>2, SubSeqProperties
<1>4. Len(SubSeq(text, k + 1, Len(text)))
        = IF k + 1 <= Len(text) THEN Len(text) - (k + 1) + 1 ELSE 0
  BY <1>2, SubSeqProperties
<1>. QED
  BY <1>1, <1>3, <1>4

(* LongestWithin picks the longest, when no two that fit are equally long. *)
LEMMA TheLongest ==
  ASSUME NEW texts, NEW m, NEW longest \in texts, Len(Bytes(longest)) <= m,
         Len(longest) \in Nat,
         \A t \in texts : Len(Bytes(t)) <= m => t = longest \/ Len(t) < Len(longest),
         \A t \in texts : Len(t) \in Nat
  PROVE  LongestWithin(texts, m) = longest
<1>. DEFINE fitting == {t \in texts : Len(Bytes(t)) <= m}
            picked == CHOOSE t \in fitting : \A u \in fitting : Len(u) <= Len(t)
<1>1. longest \in fitting /\ \A u \in fitting : Len(u) <= Len(longest)
  OBVIOUS
<1>2. picked \in fitting /\ \A u \in fitting : Len(u) <= Len(picked)
  BY <1>1
<1>3. LongestWithin(texts, m) = picked
  BY DEF LongestWithin
<1>. HIDE DEF picked
<1>4. Len(longest) <= Len(picked) /\ picked \in texts /\ Len(Bytes(picked)) <= m
  BY <1>1, <1>2
<1>5. Len(picked) \in Nat
  BY <1>4
<1>. QED
  BY <1>3, <1>4, <1>5

LEMMA LongestPrefix ==
  ASSUME NEW text \in Seq(Chars), NEW b, BytesUpTo(b, text), NEW m \in Nat,
         NEW k \in 0 .. Len(text), Len(b[k]) <= m, k = Len(text) \/ m < Len(b[k + 1])
  PROVE  LongestWithin(Prefixes(text), m) = SubSeq(text, 1, k)
<1>. DEFINE n == Len(text)
            end == [j \in 0 .. n |-> Len(b[j])]
<1>1. CharactersEnd(end, n, b[n]) /\ n \in Nat /\ \A j \in 0 .. n : end[j] \in Nat
  <2>1. CharactersEnd(end, n, b[n])
    BY WhereCharactersEnd
  <2>. HIDE DEF end
  <2>. QED
    BY <2>1 DEF CharactersEnd
<1>2. \A j \in 0 .. n : end[j] = Len(b[j])
  OBVIOUS
<1>3. \A j \in 0 .. n : Len(SubSeq(text, 1, j)) = j /\ Bytes(SubSeq(text, 1, j)) = b[j]
  BY LengthsOfParts, BytesOfABeginning
<1>4. Prefixes(text) = {SubSeq(text, 1, j) : j \in 0 .. n}
  BY DEF Prefixes
<1>. HIDE DEF end
<1>5. ASSUME NEW j \in 0 .. n, Len(b[j]) <= m PROVE j <= k
  <2>1. SUFFICES ASSUME k < j PROVE FALSE
    BY <1>1
  <2>2. k # n /\ m < Len(b[k + 1]) /\ k + 1 \in 0 .. n
    BY <1>1, <2>1
  <2>3. k + 1 = j \/ end[k + 1] < end[j]
    <3>1. k + 1 = j \/ k + 1 < j
      BY <1>1, <2>1
    <3>. QED
      BY <1>1, <2>2, <3>1, EndsIncrease
  <2>. QED
    BY <1>1, <1>2, <1>5, <2>2, <2>3
<1>6. \A t \in Prefixes(text) :
        /\ Len(t) \in Nat
        /\ Len(Bytes(t)) <= m => t = SubSeq(text, 1, k) \/ Len(t) < k
  <2>1. ASSUME NEW j \in 0 .. n
        PROVE  LET t == SubSeq(text, 1, j)
               IN  /\ Len(t) \in Nat
                   /\ Len(Bytes(t)) <= m => t = SubSeq(text, 1, k) \/ Len(t) < k
    BY <1>1, <1>3, <1>5, SMTT(20)
  <2>. QED
    BY <1>4, <2>1
<1>7. /\ SubSeq(text, 1, k) \in Prefixes(text) /\ Len(SubSeq(text, 1, k)) = k
      /\ Bytes(SubSeq(text, 1, k)) = b[k] /\ k \in Nat
  BY <1>3, <1>4
<1>. DEFINE longest == SubSeq(text, 1, k)
            texts == Prefixes(text)
<1>8. /\ longest \in texts /\ Len(longest) = k /\ Len(Bytes(longest)) <= m /\ k \in Nat
      /\ \A t \in texts : /\ Len(t) \in Nat
                          /\ Len(Bytes(t)) <= m => t = longest \/ Len(t) < k
  BY <1>6, <1>7
<1>. HIDE DEF longest, texts
<1>9. LongestWithin(texts, m) = longest
  BY <1>8, TheLongest
<1>. QED
  BY <1>9 DEF longest, texts

LEMMA LongestSuffix ==
  ASSUME NEW text \in Seq(Chars), NEW b, BytesUpTo(b, text), NEW m \in Nat,
         NEW k \in 0 .. Len(text), Len(b[Len(text)]) - Len(b[k]) <= m,
         k = 0 \/ m < Len(b[Len(text)]) - Len(b[k - 1])
  PROVE  LongestWithin(Suffixes(text), m) = SubSeq(text, k + 1, Len(text))
<1>. DEFINE n == Len(text)
            end == [j \in 0 .. n |-> Len(b[j])]
<1>1. CharactersEnd(end, n, b[n]) /\ n \in Nat /\ \A j \in 0 .. n : end[j] \in Nat
  <2>1. CharactersEnd(end, n, b[n])
    BY WhereCharactersEnd
  <2>. HIDE DEF end
  <2>. QED
    BY <2>1 DEF CharactersEnd
<1>2. \A j \in 0 .. n : end[j] = Len(b[j])
  OBVIOUS
<1>. HIDE DEF end
<1>3. ASSUME NEW j \in 0 .. n
      PROVE  /\ Len(SubSeq(text, j + 1, n)) = n - j
             /\ Len(Bytes(SubSeq(text, j + 1, n))) = end[n] - end[j]
  <2>1. PICK rest \in Seq(EncodedBytes) :
          rest = Bytes(SubSeq(text, j + 1, n)) /\ b[n] = b[j] \o rest
    BY BytesOfAnEnd
  <2>2. b[j] \in Seq(EncodedBytes)
    BY DEF BytesUpTo
  <2>3. Len(b[n]) = Len(b[j]) + Len(rest) /\ Len(rest) \in Nat /\ Len(b[j]) \in Nat
    BY <2>1, <2>2, ConcatProperties
  <2>4. end[n] = Len(b[n]) /\ end[j] = Len(b[j])
    BY <1>1, <1>2
  <2>. QED
    BY <2>1, <2>3, <2>4, LengthsOfParts
<1>4. Suffixes(text) = {SubSeq(text, j + 1, n) : j \in 0 .. n}
  <2>1. ASSUME NEW l \in 1 .. n PROVE \E j \in 0 .. n : SubSeq(text, l, n) = SubSeq(text, j + 1, n)
    <3>1. l - 1 \in 0 .. n /\ (l - 1) + 1 = l
      BY <1>1
    <3>. QED
      BY <3>1
  <2>2. << >> = SubSeq(text, n + 1, n) /\ n \in 0 .. n
    BY <1>1, SubSeqEmpty
  <2>3. ASSUME NEW j \in 0 .. n
        PROVE  SubSeq(text, j + 1, n) \in Suffixes(text)
    <3>1. CASE j = n
      BY <2>2, <3>1 DEF Suffixes
    <3>2. CASE j # n
      <4>1. j + 1 \in 1 .. n
        BY <1>1, <3>2
      <4>. QED
        BY <4>1 DEF Suffixes
    <3>. QED
      BY <3>1, <3>2
  <2>. QED
    BY <2>1, <2>2, <2>3, ZenonT(30) DEF Suffixes
<1>5. ASSUME NEW j \in 0 .. n, end[n] - end[j] <= m PROVE k <= j
  <2>1. SUFFICES ASSUME j < k PROVE FALSE
    BY <1>1
  <2>0. k # 0 /\ k - 1 \in 0 .. n /\ n \in 0 .. n
    BY <1>1, <2>1
  <2>2. k # 0 /\ m < end[n] - end[k - 1] /\ k - 1 \in 0 .. n /\ n \in 0 .. n
    BY <1>2, <2>0
  <2>3. j = k - 1 \/ end[j] < end[k - 1]
    <3>1. j = k - 1 \/ j < k - 1
      BY <1>1, <2>1
    <3>. QED
      BY <1>1, <2>2, <3>1, EndsIncrease
  <2>4. end[n] \in Nat /\ end[j] \in Nat /\ end[k - 1] \in Nat
    BY <1>1, <2>2
  <2>. QED
    BY <1>5, <2>2, <2>3, <2>4
<1>. DEFINE longest == SubSeq(text, k + 1, n)
            texts == Suffixes(text)
<1>6. longest \in texts /\ Len(longest) = n - k /\ Len(Bytes(longest)) <= m /\ n - k \in Nat
  <2>1. end[n] - end[k] <= m
    BY <1>1, <1>2
  <2>. QED
    BY <1>1, <1>3, <1>4, <2>1
<1>7. \A t \in texts : /\ Len(t) \in Nat
                       /\ Len(Bytes(t)) <= m => t = longest \/ Len(t) < n - k
  <2>1. ASSUME NEW j \in 0 .. n
        PROVE  LET t == SubSeq(text, j + 1, n)
               IN  /\ Len(t) \in Nat
                   /\ Len(Bytes(t)) <= m => t = longest \/ Len(t) < n - k
    <3>1. n - j \in Nat /\ (j = k \/ k <= j => j = k \/ n - j < n - k)
      BY <1>1
    <3>2. Len(Bytes(SubSeq(text, j + 1, n))) <= m => k <= j
      BY <1>3, <1>5
    <3>3. j = k => SubSeq(text, j + 1, n) = longest
      OBVIOUS
    <3>. HIDE DEF longest
    <3>. QED
      BY <1>3, <3>1, <3>2, <3>3
  <2>. QED
    BY <1>4, <2>1
<1>. HIDE DEF longest, texts
<1>8. LongestWithin(texts, m) = longest
  BY <1>6, <1>7, TheLongest
<1>. QED
  BY <1>8 DEF longest, texts

LEMMA PrefixCuts ==
  ASSUME NEW text \in Seq(Chars), NEW m \in Nat
  PROVE  TruncateAtRuneBoundary(Bytes(text), m) = Bytes(LongestWithin(Prefixes(text), m))
<1>. DEFINE n == Len(text)
<1>1. PICK b : BytesUpTo(b, text)
  BY BytesAccumulate
<1>. DEFINE s == b[n]
            end == [j \in 0 .. n |-> Len(b[j])]
<1>2. n \in Nat /\ n \in 0 .. n
  OBVIOUS
<1>3. Bytes(text) = s /\ s \in Seq(EncodedBytes) /\ Len(s) \in Nat
  <2>1. Bytes(SubSeq(text, 1, n)) = b[n] /\ SubSeq(text, 1, n) = text
    BY <1>1, <1>2, BytesOfABeginning, SubSeqFull
  <2>2. b[n] \in Seq(EncodedBytes)
    BY <1>1, <1>2 DEF BytesUpTo
  <2>3. Bytes(text) = s
    BY <2>1, Zenon
  <2>4. Len(s) \in Nat
    BY <2>2
  <2>. QED
    BY <2>2, <2>3, <2>4, Zenon
<1>4. CharactersEnd(end, n, s)
  BY <1>1, WhereCharactersEnd
<1>5. \A j \in 0 .. n : end[j] = Len(b[j])
  OBVIOUS
<1>. HIDE DEF end
<1>6. SUFFICES ASSUME NEW k \in 0 .. n, Len(b[k]) <= m, k = n \/ m < Len(b[k + 1])
               PROVE  TruncateAtRuneBoundary(s, m) = b[k]
  <2>1. PICK k \in 0 .. n : Len(b[k]) <= m /\ (k = n \/ m < Len(b[k + 1]))
    <3>1. CASE Len(s) <= m
      BY <1>2, <3>1
    <3>2. CASE m < Len(s)
      <4>1. PICK k \in 0 .. n - 1 : end[k] <= m /\ m < end[k + 1]
        BY <1>4, <3>2, TheCharacterAt
      <4>2. k \in 0 .. n /\ k + 1 \in 0 .. n
        BY <1>2, <4>1
      <4>. QED
        BY <1>5, <4>1, <4>2
    <3>. QED
      BY <1>3, <3>1, <3>2
  <2>2. LongestWithin(Prefixes(text), m) = SubSeq(text, 1, k)
    BY <1>1, <2>1, LongestPrefix
  <2>3. Bytes(SubSeq(text, 1, k)) = b[k]
    BY <1>1, BytesOfABeginning
  <2>4. TruncateAtRuneBoundary(s, m) = b[k]
    BY <1>6, <2>1
  <2>. QED
    BY <1>3, <2>2, <2>3, <2>4
<1>7. PICK rest \in Seq(EncodedBytes) : s = b[k] \o rest
  BY <1>1, BytesOfAnEnd
<1>8. b[k] \in Seq(EncodedBytes) /\ SubSeq(s, 1, Len(b[k])) = b[k]
  <2>1. b[k] \in Seq(EncodedBytes)
    BY <1>1 DEF BytesUpTo
  <2>. QED
    BY <1>7, <2>1, TheTwoHalves
<1>9. Len(b[0]) = 0 /\ b[0] = << >>
  BY <1>1 DEF BytesUpTo
<1>10. CASE m = 0
  <2>1. TruncateAtRuneBoundary(s, m) = << >>
    BY <1>10 DEF TruncateAtRuneBoundary
  <2>2. Len(b[k]) = 0
    BY <1>6, <1>8, <1>10
  <2>. QED
    BY <1>8, <2>1, <2>2
<1>11. CASE m # 0 /\ Len(s) <= m
  <2>1. TruncateAtRuneBoundary(s, m) = s
    <3>1. TruncateAtRuneBoundary(s, m) = IF m <= 0 THEN << >> ELSE s
      BY <1>11 DEF TruncateAtRuneBoundary
    <3>. QED
      BY <1>11, <3>1
  <2>2. k = n
    <3>1. SUFFICES ASSUME k # n PROVE FALSE
      OBVIOUS
    <3>2. k + 1 \in 0 .. n /\ (k + 1 = n \/ k + 1 < n)
      BY <1>2, <1>6, <3>1
    <3>3. k + 1 = n \/ end[k + 1] < end[n]
      BY <1>2, <1>4, <3>2, EndsIncrease
    <3>4. end[k + 1] = Len(b[k + 1]) /\ end[n] = Len(s) /\ Len(b[k + 1]) \in Nat
      <4>1. b[k + 1] \in Seq(EncodedBytes)
        BY <1>1, <3>2 DEF BytesUpTo
      <4>. QED
        BY <1>2, <1>5, <3>2, <4>1
    <3>. QED
      BY <1>3, <1>6, <1>11, <3>1, <3>3, <3>4
  <2>. QED
    BY <2>1, <2>2
<1>12. CASE m # 0 /\ m < Len(s)
  <2>1. k # n
    BY <1>3, <1>6, <1>12
  <2>2. k \in 0 .. n - 1 /\ k + 1 \in 0 .. n /\ k \in 0 .. n
    BY <1>2, <1>6, <2>1
  <2>3. end[k] <= m /\ m < end[k + 1] /\ end[k] = Len(b[k])
    BY <1>5, <1>6, <2>1, <2>2
  <2>4. TruncateAtRuneBoundary(s, m) = SubSeq(s, 1, end[k])
    BY <1>3, <1>4, <1>12, <2>2, <2>3, TruncatesAtAnEnd, SMTT(20)
  <2>. QED
    BY <1>8, <2>3, <2>4
<1>. QED
  BY <1>3, <1>10, <1>11, <1>12

LEMMA SuffixCuts ==
  ASSUME NEW text \in Seq(Chars), NEW m \in Nat
  PROVE  SuffixAtRuneBoundary(Bytes(text), m) = Bytes(LongestWithin(Suffixes(text), m))
<1>. DEFINE n == Len(text)
<1>1. PICK b : BytesUpTo(b, text)
  BY BytesAccumulate
<1>. DEFINE s == b[n]
            end == [j \in 0 .. n |-> Len(b[j])]
<1>2. n \in Nat /\ n \in 0 .. n
  OBVIOUS
<1>3. Bytes(text) = s /\ s \in Seq(EncodedBytes) /\ Len(s) \in Nat
  <2>1. Bytes(SubSeq(text, 1, n)) = b[n] /\ SubSeq(text, 1, n) = text
    BY <1>1, <1>2, BytesOfABeginning, SubSeqFull
  <2>2. b[n] \in Seq(EncodedBytes)
    BY <1>1, <1>2 DEF BytesUpTo
  <2>3. Bytes(text) = s
    BY <2>1, Zenon
  <2>4. Len(s) \in Nat
    BY <2>2
  <2>. QED
    BY <2>2, <2>3, <2>4, Zenon
<1>4. CharactersEnd(end, n, s)
  BY <1>1, WhereCharactersEnd
<1>5. \A j \in 0 .. n : end[j] = Len(b[j]) /\ Len(b[j]) \in Nat
  BY <1>1 DEF BytesUpTo
<1>. HIDE DEF end, s
<1>6. SUFFICES ASSUME NEW k \in 0 .. n, Len(s) - Len(b[k]) <= m,
                      k = 0 \/ m < Len(s) - Len(b[k - 1]),
                      NEW rest \in Seq(EncodedBytes), s = b[k] \o rest
               PROVE  SuffixAtRuneBoundary(s, m) = rest
  <2>1. PICK k \in 0 .. n :
          Len(s) - Len(b[k]) <= m /\ (k = 0 \/ m < Len(s) - Len(b[k - 1]))
    <3>1. CASE Len(s) <= m
      <4>1. 0 \in 0 .. n /\ Len(b[0]) = 0
        BY <1>1, <1>2 DEF BytesUpTo
      <4>2. Len(s) - Len(b[0]) <= m
        BY <1>3, <3>1, <4>1
      <4>. QED
        BY <4>1, <4>2
    <3>2. CASE m < Len(s)
      <4>0. (Len(s) - m) - 1 \in Nat /\ (Len(s) - m) - 1 < Len(s)
        BY <1>3, <3>2
      <4>1. PICK k \in 0 .. n - 1 :
              end[k] <= (Len(s) - m) - 1 /\ (Len(s) - m) - 1 < end[k + 1]
        BY <1>4, <4>0, TheCharacterAt
      <4>2. k \in 0 .. n /\ k + 1 \in 0 .. n /\ (k + 1) - 1 = k
        BY <1>2, <4>1
      <4>3. Len(s) - Len(b[k + 1]) <= m /\ m < Len(s) - Len(b[k])
        <5>1. /\ end[k] = Len(b[k]) /\ Len(b[k]) \in Nat
              /\ end[k + 1] = Len(b[k + 1]) /\ Len(b[k + 1]) \in Nat
          BY <1>5, <4>2
        <5>. QED
          BY <1>3, <3>2, <4>1, <5>1
      <4>. QED
        BY <4>2, <4>3
    <3>. QED
      BY <1>3, <3>1, <3>2
  <2>2. LongestWithin(Suffixes(text), m) = SubSeq(text, k + 1, n)
    BY <1>1, <2>1, LongestSuffix DEF s
  <2>3. PICK rest \in Seq(EncodedBytes) :
          rest = Bytes(SubSeq(text, k + 1, n)) /\ s = b[k] \o rest
    BY <1>1, <2>1, BytesOfAnEnd DEF s
  <2>4. SuffixAtRuneBoundary(s, m) = rest
    BY <1>6, <2>1, <2>3
  <2>. QED
    BY <1>3, <2>2, <2>3, <2>4
<1>7. /\ b[k] \in Seq(EncodedBytes) /\ SubSeq(s, Len(b[k]) + 1, Len(s)) = rest
      /\ Len(rest) = Len(s) - Len(b[k])
  <2>1. b[k] \in Seq(EncodedBytes)
    BY <1>1, <1>6 DEF BytesUpTo
  <2>2. Len(b[k] \o rest) = Len(b[k]) + Len(rest) /\ Len(b[k]) \in Nat /\ Len(rest) \in Nat
    BY <1>6, <2>1, ConcatProperties
  <2>3. SubSeq(b[k] \o rest, Len(b[k]) + 1, Len(b[k] \o rest)) = rest
    BY <1>6, <2>1, TheTwoHalves
  <2>4. SubSeq(s, Len(b[k]) + 1, Len(s)) = rest
    BY <1>6, <2>3, Zenon
  <2>5. Len(s) = Len(b[k]) + Len(rest)
    BY <1>6, <2>2, Zenon
  <2>6. Len(rest) = Len(s) - Len(b[k])
    BY <2>2, <2>5
  <2>. QED
    BY <2>1, <2>4, <2>6
<1>8. CASE m = 0
  <2>1. SuffixAtRuneBoundary(s, m) = << >>
    BY <1>8 DEF SuffixAtRuneBoundary
  <2>2. Len(rest) = 0
    <3>1. Len(rest) \in Nat /\ Len(rest) <= m
      BY <1>3, <1>5, <1>6, <1>7
    <3>. QED
      BY <1>8, <3>1
  <2>. QED
    BY <1>6, <2>1, <2>2
<1>9. CASE m # 0 /\ Len(s) <= m
  <2>1. SuffixAtRuneBoundary(s, m) = s
    <3>1. SuffixAtRuneBoundary(s, m) = IF m <= 0 THEN << >> ELSE s
      BY <1>9 DEF SuffixAtRuneBoundary
    <3>. QED
      BY <1>9, <3>1
  <2>2. k = 0
    <3>1. SUFFICES ASSUME k # 0 PROVE FALSE
      OBVIOUS
    <3>2. k - 1 \in 0 .. n
      BY <1>2, <1>6, <3>1
    <3>3. Len(b[k - 1]) \in Nat /\ m < Len(s) - Len(b[k - 1])
      BY <1>5, <1>6, <3>1, <3>2
    <3>. QED
      BY <1>3, <1>9, <3>3
  <2>3. b[0] = << >>
    BY <1>1 DEF BytesUpTo
  <2>4. << >> \o rest = rest
    BY <1>6, ConcatEmptySeq
  <2>. QED
    BY <1>6, <2>1, <2>2, <2>3, <2>4
<1>10. CASE m # 0 /\ m < Len(s)
  <2>1. k # 0
    <3>1. b[0] = << >>
      BY <1>1 DEF BytesUpTo
    <3>. QED
      BY <1>3, <1>6, <1>10, <3>1
  <2>2. k - 1 \in 0 .. n - 1 /\ k - 1 \in 0 .. n /\ k \in 0 .. n /\ (k - 1) + 1 = k
    BY <1>2, <1>6, <2>1
  <2>3. end[k - 1] < Len(s) - m /\ Len(s) - m <= end[k] /\ end[k] = Len(b[k])
    <3>1. /\ end[k] = Len(b[k]) /\ Len(b[k]) \in Nat
          /\ end[k - 1] = Len(b[k - 1]) /\ Len(b[k - 1]) \in Nat
      BY <1>5, <2>2
    <3>2. Len(s) - Len(b[k]) <= m /\ m < Len(s) - Len(b[k - 1])
      BY <1>6, <2>1
    <3>. QED
      BY <1>3, <3>1, <3>2
  <2>4. SuffixAtRuneBoundary(s, m) = SubSeq(s, end[k] + 1, Len(s))
    <3>. DEFINE i == k - 1
    <3>1. i \in 0 .. n - 1 /\ end[i] < Len(s) - m /\ Len(s) - m <= end[i + 1] /\ i + 1 = k
      BY <2>2, <2>3
    <3>. HIDE DEF i
    <3>2. SuffixAtRuneBoundary(s, m) = SubSeq(s, end[i + 1] + 1, Len(s))
      BY <1>3, <1>4, <1>10, <3>1, SuffixesBeginAtAnEnd
    <3>. QED
      BY <3>1, <3>2
  <2>. QED
    BY <1>7, <2>3, <2>4
<1>. QED
  BY <1>3, <1>8, <1>9, <1>10

LEMMA CutsOfAnyFile == file \in Seq(Chars) => CutsFallBetweenCharacters
<1>1. ASSUME file \in Seq(Chars) PROVE Len(Bytes(file)) + 1 \in Nat
  <2>1. PICK b : BytesUpTo(b, file)
    BY <1>1, BytesAccumulate
  <2>2. SubSeq(file, 1, Len(file)) = file /\ Len(file) \in 0 .. Len(file)
    BY <1>1, SubSeqFull
  <2>3. Bytes(file) = b[Len(file)] /\ b[Len(file)] \in Seq(EncodedBytes)
    BY <1>1, <2>1, <2>2, BytesOfABeginning DEF BytesUpTo
  <2>. QED
    BY <2>3
<1>. QED
  BY <1>1, PrefixCuts, SuffixCuts DEF CutsFallBetweenCharacters

-----------------------------------------------------------------------------
(* Listings.                                                               *)

(* Of the first n entries: those that were found, in order; and nothing    *)
(* that was passed over comes before one that was found.                   *)
FoundIn(lines, n, wanted, complete) ==
  /\ lines \in Seq(1 .. n)
  /\ \A i, j \in 1 .. Len(lines) : i < j => lines[i] < lines[j]
  /\ \A i \in 1 .. Len(lines) : lines[i] \in wanted
  /\ \A p \in wanted : p \in 1 .. n =>
       \/ \E i \in 1 .. Len(lines) : lines[i] = p
       \/ ~complete /\ \A i \in 1 .. Len(lines) : lines[i] < p

LEMMA NothingFound ==
  ASSUME NEW wanted, NEW complete
  PROVE  FoundIn(<< >>, 0, wanted, complete)
BY DEF FoundIn

LEMMA PassedOver ==
  ASSUME NEW n \in Nat \ {0}, NEW lines, NEW wanted, NEW complete, NEW less,
         FoundIn(lines, n - 1, wanted, complete),
         less => complete,
         n \notin wanted \/ ~less
  PROVE  FoundIn(lines, n, wanted, less)
<1>1. lines \in Seq(1 .. n) /\ \A i \in 1 .. Len(lines) : lines[i] \in 1 .. n - 1
  BY DEF FoundIn
<1>2. ASSUME NEW p \in wanted, p \in 1 .. n
      PROVE  \/ \E i \in 1 .. Len(lines) : lines[i] = p
             \/ ~less /\ \A i \in 1 .. Len(lines) : lines[i] < p
  <2>1. CASE p \in 1 .. n - 1
    BY <2>1 DEF FoundIn
  <2>2. CASE p = n
    BY <1>1, <2>2
  <2>. QED
    BY <1>2, <2>1, <2>2
<1>. QED
  BY <1>1, <1>2 DEF FoundIn

LEMMA OneMoreFound ==
  ASSUME NEW n \in Nat \ {0}, NEW lines, NEW wanted,
         FoundIn(lines, n - 1, wanted, TRUE), n \in wanted
  PROVE  FoundIn(Append(lines, n), n, wanted, TRUE)
<1>. DEFINE more == Append(lines, n)
<1>1. lines \in Seq(1 .. n) /\ \A i \in 1 .. Len(lines) : lines[i] \in 1 .. n - 1
  BY DEF FoundIn
<1>2. /\ more \in Seq(1 .. n) /\ Len(more) = Len(lines) + 1 /\ more[Len(lines) + 1] = n
      /\ \A i \in 1 .. Len(lines) : more[i] = lines[i]
      /\ Len(lines) \in Nat
  BY <1>1
<1>. HIDE DEF more
<1>3. ASSUME NEW i \in 1 .. Len(more), NEW j \in 1 .. Len(more), i < j
      PROVE  more[i] < more[j]
  <2>1. i \in 1 .. Len(lines) /\ more[i] = lines[i]
    BY <1>2, <1>3
  <2>2. CASE j = Len(lines) + 1
    BY <1>1, <1>2, <2>1, <2>2
  <2>3. CASE j \in 1 .. Len(lines)
    BY <1>2, <1>3, <2>1, <2>3 DEF FoundIn
  <2>. QED
    BY <1>2, <2>2, <2>3
<1>4. ASSUME NEW i \in 1 .. Len(more)
      PROVE  more[i] \in wanted
  <2>1. CASE i = Len(lines) + 1
    BY <1>2, <2>1
  <2>2. CASE i \in 1 .. Len(lines)
    BY <1>2, <2>2 DEF FoundIn
  <2>. QED
    BY <1>2, <2>1, <2>2
<1>5. \A p \in wanted : p \in 1 .. n => \E i \in 1 .. Len(more) : more[i] = p
  <2>. SUFFICES ASSUME NEW p \in wanted, p \in 1 .. n
                PROVE  \E i \in 1 .. Len(more) : more[i] = p
    OBVIOUS
  <2>1. CASE p = n
    BY <1>2, <2>1
  <2>2. CASE p \in 1 .. n - 1
    <3>1. PICK i \in 1 .. Len(lines) : lines[i] = p
      BY <2>2 DEF FoundIn
    <3>. QED
      BY <1>2, <3>1
  <2>. QED
    BY <2>1, <2>2
<1>. QED
  BY <1>2, <1>3, <1>4, <1>5 DEF FoundIn, more

(* A walk, visit by visit.                                                 *)
Walks == [lines : Seq(Nat), complete : BOOLEAN]

LEMMA VisitedWalks ==
  ASSUME NEW walked \in Walks, NEW n \in Nat
  PROVE  Visit(walked, n) \in Walks
<1>1. CASE tree[n] = "unreadable" \/ ~walked.complete
  BY <1>1 DEF Visit
<1>2. CASE ~ (tree[n] = "unreadable" \/ ~walked.complete)
  <2>1. Append(walked.lines, n) \in Seq(Nat)
    BY DEF Walks
  <2>. QED
    BY <1>2, <2>1 DEF Visit, Walks
<1>. QED
  BY <1>1, <1>2

NextWalked(walked) ==
  [n \in 0 .. Len(tree) |-> IF n = 0 THEN NothingWalked ELSE Visit(walked[n - 1], n)]

LEMMA TheWalk ==
  ASSUME tree \in Seq(Entries)
  PROVE  \E walked : /\ walked[0] = NothingWalked
                     /\ \A n \in 1 .. Len(tree) : walked[n] = Visit(walked[n - 1], n)
                     /\ Walk = walked[Len(tree)]
<1>. DEFINE N == Len(tree)
            step == [x \in Walks \X (1 .. N) |-> Visit(x[1], x[2])]
            walked == CHOOSE w : w = NextWalked(w)
<1>1. N \in Nat
  OBVIOUS
<1>2. NothingWalked \in Walks
  <2>1. << >> \in Seq(Nat)
    OBVIOUS
  <2>. QED
    BY <2>1 DEF NothingWalked, Walks
<1>3. step \in [Walks \X (1 .. N) -> Walks]
  BY VisitedWalks
<1>4. \A w \in Walks, n \in 1 .. N : step[<<w, n>>] = Visit(w, n)
  OBVIOUS
<1>. HIDE DEF step
<1>5. PICK f \in [0 .. N -> Walks] : IsLoop(f, N, NothingWalked, step)
  BY <1>1, <1>2, <1>3, LoopsRun
<1>6. f = NextWalked(f)
  <2>1. ASSUME NEW n \in 0 .. N
        PROVE  f[n] = IF n = 0 THEN NothingWalked ELSE Visit(f[n - 1], n)
    <3>1. CASE n = 0
      BY <1>5, <3>1 DEF IsLoop
    <3>2. CASE n # 0
      <4>1. n \in 1 .. N /\ f[n - 1] \in Walks
        BY <1>1, <3>2
      <4>. QED
        BY <1>4, <1>5, <3>2, <4>1 DEF IsLoop
    <3>. QED
      BY <3>1, <3>2
  <2>. QED
    BY <2>1 DEF NextWalked
<1>7. walked = NextWalked(walked)
  BY <1>6
<1>8. Walk = walked[N]
  BY DEF Walk, NextWalked
<1>. HIDE DEF walked
<1>9. walked[0] = NothingWalked /\ \A n \in 1 .. N : walked[n] = Visit(walked[n - 1], n)
  BY <1>1, <1>7 DEF NextWalked
<1>. QED
  BY <1>8, <1>9

WalkedSoFar(walked, n) ==
  walked \in Walks /\ FoundIn(walked.lines, n, Listable(TRUE), walked.complete)

LEMMA OneVisit ==
  ASSUME tree \in Seq(Entries), NEW n \in 1 .. Len(tree), NEW walked,
         WalkedSoFar(walked, n - 1)
  PROVE  WalkedSoFar(Visit(walked, n), n)
<1>0. n \in Nat \ {0} /\ n \in DOMAIN tree /\ tree[n] \in Entries
  OBVIOUS
<1>1. /\ n \in Nat \ {0} /\ walked \in Walks /\ walked.complete \in BOOLEAN
      /\ Visit(walked, n) \in Walks
      /\ FoundIn(walked.lines, n - 1, Listable(TRUE), walked.complete)
      /\ n \in Listable(TRUE) <=> tree[n] = "entry"
      /\ tree[n] \in Entries
  <2>1. walked \in Walks /\ FoundIn(walked.lines, n - 1, Listable(TRUE), walked.complete)
    BY DEF WalkedSoFar
  <2>2. walked.complete \in BOOLEAN
    BY <2>1 DEF Walks
  <2>3. Visit(walked, n) \in Walks
    BY <1>0, <2>1, VisitedWalks
  <2>4. n \in Listable(TRUE) <=> tree[n] = "entry"
    BY <1>0 DEF Listable
  <2>. QED
    BY <1>0, <2>1, <2>2, <2>3, <2>4
<1>2. CASE tree[n] = "unreadable" \/ ~walked.complete
  <2>1. Visit(walked, n) = walked
    BY <1>2 DEF Visit
  <2>2. n \notin Listable(TRUE) \/ ~walked.complete
    BY <1>1, <1>2
  <2>3. FoundIn(walked.lines, n, Listable(TRUE), walked.complete)
    BY <1>1, <2>2, PassedOver
  <2>. QED
    BY <1>1, <2>1, <2>3 DEF WalkedSoFar
<1>3. CASE tree[n] # "unreadable" /\ walked.complete /\ Len(walked.lines) >= MaxWalked
  <2>1. Visit(walked, n) = [walked EXCEPT !.complete = FALSE]
    BY <1>3 DEF Visit
  <2>2. FoundIn(walked.lines, n, Listable(TRUE), FALSE)
    BY <1>1, PassedOver
  <2>3. Visit(walked, n).lines = walked.lines /\ Visit(walked, n).complete = FALSE
    BY <1>1, <2>1 DEF Walks
  <2>. QED
    BY <1>1, <2>2, <2>3 DEF WalkedSoFar
<1>4. CASE /\ tree[n] = "dot directory" /\ walked.complete
           /\ ~ (Len(walked.lines) >= MaxWalked)
  <2>1. Visit(walked, n) = walked
    BY <1>4 DEF Visit
  <2>2. FoundIn(walked.lines, n, Listable(TRUE), walked.complete)
    BY <1>1, <1>4, PassedOver
  <2>. QED
    BY <1>1, <2>1, <2>2 DEF WalkedSoFar
<1>5. CASE /\ tree[n] = "entry" /\ walked.complete
           /\ ~ (Len(walked.lines) >= MaxWalked)
  <2>1. Visit(walked, n) = [walked EXCEPT !.lines = Append(walked.lines, n)]
    BY <1>5 DEF Visit
  <2>2. walked.complete = TRUE
    BY <1>1, <1>5
  <2>3. FoundIn(Append(walked.lines, n), n, Listable(TRUE), TRUE)
    BY <1>1, <1>5, <2>2, OneMoreFound
  <2>4. Visit(walked, n).lines = Append(walked.lines, n) /\ Visit(walked, n).complete = TRUE
    BY <1>1, <2>1, <2>2 DEF Walks
  <2>. QED
    BY <1>1, <2>3, <2>4 DEF WalkedSoFar
<1>. QED
  BY <1>1, <1>2, <1>3, <1>4, <1>5 DEF Entries

LEMMA WalksFind ==
  ASSUME tree \in Seq(Entries)
  PROVE  WalkedSoFar(Walk, Len(tree))
<1>1. PICK walked : /\ walked[0] = NothingWalked
                    /\ \A n \in 1 .. Len(tree) : walked[n] = Visit(walked[n - 1], n)
                    /\ Walk = walked[Len(tree)]
  BY TheWalk
<1>. DEFINE Good == {n \in 0 .. Len(tree) : WalkedSoFar(walked[n], n)}
<1>2. 0 \in Good
  <2>1. NothingWalked \in Walks /\ NothingWalked.lines = << >>
    <3>1. << >> \in Seq(Nat)
      OBVIOUS
    <3>. QED
      BY <3>1 DEF NothingWalked, Walks
  <2>2. FoundIn(<< >>, 0, Listable(TRUE), NothingWalked.complete)
    BY NothingFound
  <2>3. WalkedSoFar(NothingWalked, 0)
    BY <2>1, <2>2 DEF WalkedSoFar
  <2>4. 0 \in 0 .. Len(tree)
    OBVIOUS
  <2>. QED
    BY <1>1, <2>3, <2>4
<1>3. ASSUME NEW n \in 1 .. Len(tree), n - 1 \in Good PROVE n \in Good
  BY <1>1, <1>3, OneVisit
<1>. HIDE DEF Good
<1>4. Len(tree) \in Nat
  OBVIOUS
<1>5. 0 .. Len(tree) \subseteq Good
  BY <1>2, <1>3, <1>4, CountingUp
<1>6. Len(tree) \in Good
  BY <1>4, <1>5
<1>. QED
  BY <1>1, <1>6 DEF Good

(* The places a loop keeps, and the entries of a directory.                *)
NextPlaces(n, wanted, found) ==
  [j \in 0 .. n |-> IF j = 0 THEN << >>
                   ELSE IF j \in wanted THEN Append(found[j - 1], j) ELSE found[j - 1]]

LEMMA PlacesAreKept ==
  ASSUME NEW n \in Nat, NEW wanted
  PROVE  \E found : /\ found[0] = << >>
                    /\ \A j \in 1 .. n :
                         found[j] = IF j \in wanted THEN Append(found[j - 1], j) ELSE found[j - 1]
                    /\ PlacesIn(n, wanted) = found[n]
<1>. DEFINE step == [x \in Seq(Nat) \X (1 .. n) |->
                       IF x[2] \in wanted THEN Append(x[1], x[2]) ELSE x[1]]
            found == CHOOSE f : f = NextPlaces(n, wanted, f)
<1>1. << >> \in Seq(Nat)
  OBVIOUS
<1>2. step \in [Seq(Nat) \X (1 .. n) -> Seq(Nat)]
  OBVIOUS
<1>3. \A r \in Seq(Nat), j \in 1 .. n :
        step[<<r, j>>] = IF j \in wanted THEN Append(r, j) ELSE r
  OBVIOUS
<1>. HIDE DEF step
<1>4. PICK f \in [0 .. n -> Seq(Nat)] : IsLoop(f, n, << >>, step)
  BY <1>1, <1>2, LoopsRun
<1>5. f = NextPlaces(n, wanted, f)
  <2>1. ASSUME NEW j \in 0 .. n
        PROVE  f[j] = IF j = 0 THEN << >>
                      ELSE IF j \in wanted THEN Append(f[j - 1], j) ELSE f[j - 1]
    <3>1. CASE j = 0
      BY <1>4, <3>1 DEF IsLoop
    <3>2. CASE j # 0
      <4>1. j \in 1 .. n /\ f[j - 1] \in Seq(Nat)
        BY <3>2
      <4>. QED
        BY <1>3, <1>4, <3>2, <4>1 DEF IsLoop
    <3>. QED
      BY <3>1, <3>2
  <2>. QED
    BY <2>1 DEF NextPlaces
<1>6. found = NextPlaces(n, wanted, found)
  BY <1>5
<1>7. PlacesIn(n, wanted) = found[n]
  BY DEF PlacesIn, NextPlaces
<1>. HIDE DEF found
<1>8. \A j \in 0 .. n : found[j] = IF j = 0 THEN << >>
                               ELSE IF j \in wanted THEN Append(found[j - 1], j)
                               ELSE found[j - 1]
  BY <1>6 DEF NextPlaces
<1>9. 0 \in 0 .. n /\ \A j \in 1 .. n : j \in 0 .. n /\ j # 0
  OBVIOUS
<1>. QED
  BY <1>7, <1>8, <1>9

LEMMA PlacesAreFound ==
  ASSUME NEW n \in Nat, NEW wanted
  PROVE  FoundIn(PlacesIn(n, wanted), n, wanted, TRUE)
<1>1. PICK found : /\ found[0] = << >>
                   /\ \A j \in 1 .. n :
                        found[j] = IF j \in wanted THEN Append(found[j - 1], j) ELSE found[j - 1]
                   /\ PlacesIn(n, wanted) = found[n]
  BY PlacesAreKept
<1>. DEFINE Good == {j \in 0 .. n : FoundIn(found[j], j, wanted, TRUE)}
<1>2. 0 \in Good
  <2>1. FoundIn(<< >>, 0, wanted, TRUE)
    BY NothingFound
  <2>2. found[0] = << >>
    BY <1>1
  <2>3. FoundIn(found[0], 0, wanted, TRUE)
    BY <2>1, <2>2, Zenon
  <2>4. 0 \in 0 .. n
    OBVIOUS
  <2>. QED
    BY <2>3, <2>4, Zenon
<1>3. ASSUME NEW j \in 1 .. n, j - 1 \in Good PROVE j \in Good
  <2>1. FoundIn(found[j - 1], j - 1, wanted, TRUE)
    BY <1>3
  <2>2. j \in Nat \ {0} /\ j \in 0 .. n
    OBVIOUS
  <2>. HIDE DEF Good
  <2>3. FoundIn(found[j], j, wanted, TRUE)
    <3>1. CASE j \notin wanted
      BY <1>1, <2>1, <2>2, <3>1, PassedOver
    <3>2. CASE j \in wanted
      BY <1>1, <2>1, <2>2, <3>2, OneMoreFound
    <3>. QED
      BY <3>1, <3>2
  <2>. QED
    BY <2>2, <2>3 DEF Good
<1>. HIDE DEF Good
<1>4. n \in Good
  <2>1. 0 .. n \subseteq Good
    BY <1>2, <1>3, CountingUp
  <2>. QED
    BY <2>1
<1>. QED
  BY <1>1, <1>4 DEF Good

LEMMA DirectoriesFind ==
  ASSUME tree \in Seq(Entries)
  PROVE  FoundIn(ReadDir.lines, Len(tree), Listable(FALSE), TRUE)
<1>1. Len(tree) \in Nat
  OBVIOUS
<1>2. FoundIn(PlacesIn(Len(tree), Listable(FALSE)), Len(tree), Listable(FALSE), TRUE)
  BY <1>1, PlacesAreFound
<1>3. ReadDir.lines = PlacesIn(Len(tree), Listable(FALSE))
  BY DEF ReadDir, Listable
<1>. QED
  BY <1>2, <1>3

(* A listing counts each entry it holds once, and those there are at most. *)
LEMMA FoundOnce ==
  ASSUME NEW n \in Nat, NEW lines, NEW wanted \in SUBSET (1 .. n), NEW complete,
         FoundIn(lines, n, wanted, complete)
  PROVE  /\ lines \in Seq(wanted)
         /\ Len(lines) <= Cardinality(wanted)
         /\ complete => /\ Len(lines) = Cardinality(wanted)
                        /\ \A p \in wanted : \E i \in 1 .. Len(lines) : lines[i] = p
<1>. DEFINE found == {lines[i] : i \in 1 .. Len(lines)}
            at == [i \in 1 .. Len(lines) |-> lines[i]]
<1>1. lines \in Seq(1 .. n) /\ Len(lines) \in Nat /\ (\A i \in 1 .. Len(lines) : lines[i] \in Nat)
  BY DEF FoundIn
<1>2. found \in SUBSET wanted /\ lines \in Seq(wanted)
  BY <1>1 DEF FoundIn
<1>3. at \in Bijection(1 .. Len(lines), found)
  <2>1. at \in [1 .. Len(lines) -> found] /\ \A p \in found : \E i \in 1 .. Len(lines) : at[i] = p
    OBVIOUS
  <2>2. ASSUME NEW i \in 1 .. Len(lines), NEW j \in 1 .. Len(lines), at[i] = at[j]
        PROVE  i = j
    BY <1>1, <2>2 DEF FoundIn
  <2>. QED
    BY <2>1, <2>2 DEF Bijection, Injection, Surjection, IsInjective
<1>4. IsFiniteSet(1 .. Len(lines)) /\ Cardinality(1 .. Len(lines)) = Len(lines)
  <2>1. 1 \in Int /\ Len(lines) \in Int /\ (1 > Len(lines) => Len(lines) = 0)
    BY <1>1
  <2>2. /\ IsFiniteSet(1 .. Len(lines))
        /\ Cardinality(1 .. Len(lines)) = IF 1 > Len(lines) THEN 0 ELSE Len(lines) - 1 + 1
    BY <2>1, FS_Interval
  <2>. QED
    BY <2>1, <2>2
<1>5. IsFiniteSet(found) /\ Cardinality(found) = Len(lines)
  <2>1. ExistsBijection(1 .. Len(lines), found)
    BY <1>3 DEF ExistsBijection
  <2>. QED
    BY <1>4, <2>1, FS_Bijection
<1>6. IsFiniteSet(wanted)
  <2>1. 1 \in Int /\ n \in Int
    OBVIOUS
  <2>2. IsFiniteSet(1 .. n)
    BY <2>1, FS_Interval
  <2>. QED
    BY <2>2, FS_Subset
<1>7. Cardinality(found) <= Cardinality(wanted)
  BY <1>2, <1>6, FS_Subset
<1>8. ASSUME complete PROVE \A p \in wanted : \E i \in 1 .. Len(lines) : lines[i] = p
  BY <1>8 DEF FoundIn
<1>9. complete => found = wanted
  BY <1>2, <1>8
<1>. QED
  BY <1>2, <1>5, <1>7, <1>8, <1>9

(* What a listing says of the entries it is of.                            *)
ListingAddsUp(gives, all) ==
  LET shown == ToSet(gives.shown)
  IN  /\ \A i, j \in DOMAIN gives.shown : i < j => gives.shown[i] < gives.shown[j]
      /\ shown \subseteq all
      /\ \A p \in shown : \A q \in all \ shown : p < q
      /\ Len(gives.shown) + gives.more = gives.count
      /\ gives.says = "nothing" => shown = all
      /\ gives.says = "total" => gives.count = Cardinality(all)
      /\ gives.count <= Cardinality(all)

LEMMA ShownOf ==
  ASSUME NEW wanted \in SUBSET Nat, NEW items \in Seq(wanted), NEW maxItems \in Nat, NEW complete,
         NEW gives, gives = TruncateList(items, maxItems, Len(items), complete)
  PROVE  /\ gives.shown \in Seq(wanted) /\ gives.count = Len(items)
         /\ Len(gives.shown) <= Len(items) /\ Len(gives.shown) + gives.more = Len(items)
         /\ \A i \in 1 .. Len(gives.shown) : gives.shown[i] = items[i]
         /\ gives.says = "nothing" => gives.shown = items
<1>1. Len(items) \in Nat
  OBVIOUS
<1>2. CASE Len(items) > maxItems
  <2>1. gives.shown = SubSeq(items, 1, maxItems) /\ gives.more = Len(items) - maxItems
    BY <1>2 DEF TruncateList, FirstOf
  <2>2. /\ SubSeq(items, 1, maxItems) \in Seq(wanted) /\ Len(SubSeq(items, 1, maxItems)) = maxItems
        /\ \A i \in 1 .. maxItems : SubSeq(items, 1, maxItems)[i] = items[i]
    BY <1>1, <1>2
  <2>3. gives.says # "nothing" /\ gives.count = Len(items)
    <3>1. CASE complete
      BY <1>1, <1>2, <3>1 DEF TruncateList
    <3>2. CASE ~complete
      BY <3>2 DEF TruncateList
    <3>. QED
      BY <3>1, <3>2
  <2>. QED
    BY <1>1, <1>2, <2>1, <2>2, <2>3
<1>3. CASE ~ (Len(items) > maxItems)
  <2>1. gives.shown = items /\ gives.more = 0 /\ gives.count = Len(items)
    BY <1>3 DEF TruncateList
  <2>. QED
    BY <1>1, <2>1
<1>. QED
  BY <1>2, <1>3

LEMMA ListingsAddUp ==
  ASSUME NEW n \in Nat, NEW items, NEW wanted \in SUBSET (1 .. n), NEW complete \in BOOLEAN,
         FoundIn(items, n, wanted, complete), NEW maxItems \in Nat
  PROVE  ListingAddsUp(TruncateList(items, maxItems, Len(items), complete), wanted)
<1>. DEFINE gives == TruncateList(items, maxItems, Len(items), complete)
<1>1. /\ items \in Seq(wanted) /\ Len(items) <= Cardinality(wanted)
      /\ complete => /\ Len(items) = Cardinality(wanted)
                     /\ \A p \in wanted : \E i \in 1 .. Len(items) : items[i] = p
  <2>1. CASE complete = TRUE
    <3>1. FoundIn(items, n, wanted, TRUE)
      BY <2>1
    <3>2. Len(items) = Cardinality(wanted)
      BY <3>1, FoundOnce
    <3>3. \A p \in wanted : \E i \in 1 .. Len(items) : items[i] = p
      BY <3>1 DEF FoundIn
    <3>. QED
      BY <3>1, <3>2, <3>3, FoundOnce
  <2>2. CASE complete = FALSE
    BY <2>2, FoundOnce
  <2>. QED
    BY <2>1, <2>2
<1>2. /\ wanted \in SUBSET Nat /\ Len(items) \in Nat
      /\ \A i \in 1 .. Len(items) : items[i] \in wanted
  BY <1>1
<1>3. /\ gives.shown \in Seq(wanted) /\ gives.count = Len(items)
      /\ Len(gives.shown) <= Len(items) /\ Len(gives.shown) + gives.more = Len(items)
      /\ \A i \in 1 .. Len(gives.shown) : gives.shown[i] = items[i]
      /\ gives.says = "nothing" => gives.shown = items
  BY <1>1, <1>2, ShownOf
<1>4. gives.says \in {"nothing", "total"} => complete
  BY DEF TruncateList
<1>. HIDE DEF gives
<1>5. Len(gives.shown) \in Nat /\ DOMAIN gives.shown = 1 .. Len(gives.shown)
  BY <1>3
<1>6. ASSUME NEW i \in DOMAIN gives.shown, NEW j \in DOMAIN gives.shown, i < j
      PROVE  gives.shown[i] < gives.shown[j]
  <2>1. i \in 1 .. Len(items) /\ j \in 1 .. Len(items)
    BY <1>2, <1>3, <1>5
  <2>2. items[i] < items[j]
    BY <1>6, <2>1 DEF FoundIn
  <2>. QED
    BY <1>3, <1>5, <2>2
<1>7. ToSet(gives.shown) \subseteq wanted
  BY <1>3, <1>5 DEF ToSet
<1>8. ASSUME NEW p \in ToSet(gives.shown), NEW q \in wanted \ ToSet(gives.shown)
      PROVE  p < q
  <2>1. PICK i \in 1 .. Len(gives.shown) : gives.shown[i] = p
    BY <1>5 DEF ToSet
  <2>2. i \in 1 .. Len(items) /\ items[i] = p
    BY <1>2, <1>3, <1>5, <2>1
  <2>3. CASE \E j \in 1 .. Len(items) : items[j] = q
    <3>1. PICK j \in 1 .. Len(items) : items[j] = q
      BY <2>3
    <3>2. j \notin 1 .. Len(gives.shown)
      BY <1>3, <1>5, <1>8, <3>1 DEF ToSet
    <3>3. i < j
      BY <1>2, <1>5, <2>1, <3>1, <3>2
    <3>. QED
      BY <2>2, <3>1, <3>3 DEF FoundIn
  <2>4. CASE \A j \in 1 .. Len(items) : items[j] < q
    BY <2>2, <2>4
  <2>5. q \in wanted /\ q \in 1 .. n
    BY <1>8
  <2>6. \/ \E j \in 1 .. Len(items) : items[j] = q
        \/ \A j \in 1 .. Len(items) : items[j] < q
    BY <2>5 DEF FoundIn
  <2>. QED
    BY <2>3, <2>4, <2>6
<1>9. gives.says = "nothing" => ToSet(gives.shown) = wanted
  <2>1. SUFFICES ASSUME gives.says = "nothing" PROVE wanted \subseteq ToSet(gives.shown)
    BY <1>7
  <2>2. complete /\ gives.shown = items
    BY <1>3, <1>4, <2>1
  <2>. QED
    BY <1>1, <1>5, <2>2 DEF ToSet
<1>10. gives.says = "total" => gives.count = Cardinality(wanted)
  BY <1>1, <1>3, <1>4
<1>. QED
  BY <1>1, <1>3, <1>6, <1>7, <1>8, <1>9, <1>10 DEF ListingAddsUp, gives

-----------------------------------------------------------------------------
(* Lines.  at[k] is where the k-th of the m lines of s ends: at the        *)
(* newline after it, or, for the last, one past s.                         *)

LinesEnd(at, m, s) ==
  /\ m \in Nat \ {0} /\ at \in [0 .. m -> Nat] /\ at[0] = 0 /\ at[m] = Len(s) + 1
  /\ \A k \in 1 .. m : at[k - 1] < at[k]
  /\ \A k \in 1 .. m - 1 : s[at[k]] = "newline"
  /\ \A p \in 1 .. Len(s) : s[p] = "newline" => \E k \in 1 .. m - 1 : at[k] = p

LEMMA LinesIncrease ==
  ASSUME NEW at, NEW m, NEW s, LinesEnd(at, m, s), NEW j \in 0 .. m, NEW k \in 0 .. m, j < k
  PROVE  at[j] < at[k]
<1>. DEFINE Good == {i \in 0 .. m : j < i => at[j] < at[i]}
<1>1. m \in Nat /\ at \in [0 .. m -> Nat] /\ 0 \in Good
  BY DEF LinesEnd
<1>2. ASSUME NEW i \in 1 .. m, i - 1 \in Good PROVE i \in Good
  <2>1. at[i - 1] < at[i] /\ i - 1 \in 0 .. m /\ i \in 0 .. m
    BY <1>1 DEF LinesEnd
  <2>2. j < i - 1 => at[j] < at[i - 1]
    BY <1>2
  <2>3. CASE j < i - 1
    BY <1>1, <2>1, <2>2, <2>3
  <2>4. CASE j = i - 1
    BY <2>1, <2>4
  <2>5. j < i => j < i - 1 \/ j = i - 1
    OBVIOUS
  <2>. QED
    BY <2>1, <2>3, <2>4, <2>5
<1>. HIDE DEF Good
<1>3. k \in Good
  BY <1>1, <1>2, CountingUp
<1>. QED
  BY <1>3 DEF Good

(* What Split gives is the lines: its loop finds every newline, in order.  *)
LEMMA SplitAtNewlines ==
  ASSUME NEW S, NEW s \in Seq(S)
  PROVE  \E m, at : /\ LinesEnd(at, m, s)
                    /\ Split(s) = [k \in 1 .. m |-> SubSeq(s, at[k - 1] + 1, at[k] - 1)]
<1>. DEFINE n == Len(s)
            breaks == {j \in DOMAIN s : s[j] = "newline"}
            found == PlacesIn(n, breaks)
            b == Append(<<0>> \o found, n + 1)
            L == Len(found)
            m == L + 1
            at == [k \in 0 .. m |-> b[k + 1]]
<1>1. n \in Nat /\ DOMAIN s = 1 .. n
  OBVIOUS
<1>2. FoundIn(found, n, breaks, TRUE)
  BY <1>1, PlacesAreFound
<1>3. Split(s) = [k \in 1 .. Len(b) - 1 |-> SubSeq(s, b[k] + 1, b[k + 1] - 1)]
  BY DEF Split
<1>4. /\ found \in Seq(1 .. n) /\ L \in Nat
      /\ \A i \in 1 .. L : found[i] \in 1 .. n /\ found[i] \in breaks
      /\ \A i, j \in 1 .. L : i < j => found[i] < found[j]
  <2>1. found \in Seq(1 .. n)
    BY <1>2 DEF FoundIn
  <2>. HIDE DEF found
  <2>2. L \in Nat /\ \A i \in 1 .. L : found[i] \in 1 .. n
    BY <2>1
  <2>. QED
    BY <1>2, <2>1, <2>2 DEF FoundIn
<1>5. ASSUME NEW p \in 1 .. n, s[p] = "newline"
      PROVE  \E i \in 1 .. L : found[i] = p
  <2>1. p \in breaks
    BY <1>1, <1>5
  <2>. QED
    BY <1>2, <2>1 DEF FoundIn
<1>6. \A i \in 1 .. L : s[found[i]] = "newline"
  BY <1>4
<1>. HIDE DEF found, breaks, n
<1>7. /\ Len(b) = L + 2 /\ b[1] = 0 /\ b[L + 2] = n + 1
      /\ \A i \in 1 .. L : b[i + 1] = found[i]
  <2>. DEFINE c == <<0>> \o found
  <2>0. <<0>> \in Seq(Nat) /\ found \in Seq(Nat) /\ Len(<<0>>) = 1 /\ <<0>>[1] = 0
    BY <1>1, <1>4
  <2>1. /\ c \in Seq(Nat) /\ Len(c) = L + 1
        /\ \A i \in 1 .. L + 1 : c[i] = IF i <= 1 THEN <<0>>[i] ELSE found[i - 1]
    <3>1. /\ c \in Seq(Nat) /\ Len(c) = 1 + L
          /\ \A i \in 1 .. 1 + L : c[i] = IF i <= 1 THEN <<0>>[i] ELSE found[i - 1]
      BY <2>0, ConcatProperties
    <3>. HIDE DEF c
    <3>2. 1 + L = L + 1
      BY <1>4
    <3>. QED
      BY <3>1, <3>2
  <2>. HIDE DEF c
  <2>2. c[1] = 0 /\ \A i \in 1 .. L : c[i + 1] = found[i]
    <3>1. 1 \in 1 .. L + 1
      BY <1>4
    <3>2. ASSUME NEW i \in 1 .. L PROVE c[i + 1] = found[i]
      <4>1. i + 1 \in 1 .. L + 1 /\ ~ (i + 1 <= 1) /\ (i + 1) - 1 = i
        BY <1>4
      <4>. QED
        BY <2>1, <4>1
    <3>. QED
      BY <2>0, <2>1, <3>1, <3>2
  <2>3. n + 1 \in Nat
    BY <1>1
  <2>4. /\ Len(Append(c, n + 1)) = Len(c) + 1
        /\ \A i \in 1 .. Len(c) : Append(c, n + 1)[i] = c[i]
        /\ Append(c, n + 1)[Len(c) + 1] = n + 1
    BY <2>1, <2>3, AppendProperties
  <2>5. b = Append(c, n + 1)
    BY DEF c
  <2>. HIDE DEF b
  <2>6. 1 \in 1 .. Len(c) /\ Len(c) + 1 = L + 2 /\ \A i \in 1 .. L : i + 1 \in 1 .. Len(c)
    BY <1>4, <2>1
  <2>7. b[1] = c[1] /\ Len(b) = L + 2 /\ b[L + 2] = n + 1
    BY <2>4, <2>5, <2>6
  <2>8. \A i \in 1 .. L : b[i + 1] = c[i + 1]
    BY <2>4, <2>5, <2>6
  <2>. QED
    BY <2>2, <2>7, <2>8
<1>. HIDE DEF b
<1>8. m \in Nat \ {0} /\ m = L + 1 /\ L + 2 = m + 1
  BY <1>4
<1>9. at[0] = 0 /\ at[m] = n + 1 /\ \A k \in 1 .. m - 1 : at[k] = found[k]
  <2>1. 0 \in 0 .. m /\ m \in 0 .. m /\ 0 + 1 = 1
    BY <1>8
  <2>2. \A k \in 1 .. m - 1 : k \in 0 .. m /\ k \in 1 .. L
    BY <1>4
  <2>. QED
    BY <1>7, <1>8, <2>1, <2>2
<1>10. \A k \in 1 .. m : k \in 0 .. m /\ k - 1 \in 0 .. m
  BY <1>8
<1>11. \A k \in 1 .. m : b[k] = at[k - 1] /\ b[k + 1] = at[k]
  BY <1>8, <1>10
<1>12. Split(s) = [k \in 1 .. m |-> SubSeq(s, at[k - 1] + 1, at[k] - 1)]
  <2>1. Len(b) - 1 = m
    BY <1>4, <1>7
  <2>. HIDE DEF at, m
  <2>2. Split(s) = [k \in 1 .. m |-> SubSeq(s, b[k] + 1, b[k + 1] - 1)]
    BY <1>3, <2>1
  <2>. QED
    BY <1>11, <2>2
<1>13. DOMAIN at = 0 .. m /\ at = [k \in 0 .. m |-> at[k]]
  OBVIOUS
<1>. HIDE DEF at
<1>14. at \in [0 .. m -> Nat]
  <2>1. ASSUME NEW k \in 0 .. m PROVE at[k] \in Nat
    <3>1. k = 0 \/ k = m \/ k \in 1 .. m - 1
      BY <1>8
    <3>. QED
      BY <1>1, <1>4, <1>9, <3>1
  <2>. QED
    BY <1>13, <2>1
<1>15. ASSUME NEW k \in 1 .. m PROVE at[k - 1] < at[k]
  <2>1. CASE k = 1 /\ k = m
    BY <1>1, <1>9, <2>1
  <2>2. CASE k = 1 /\ k # m
    <3>1. k \in 1 .. m - 1 /\ k \in 1 .. L
      BY <1>8, <2>2
    <3>. QED
      BY <1>4, <1>9, <2>2, <3>1
  <2>3. CASE k # 1 /\ k # m
    <3>1. k \in 1 .. m - 1 /\ k - 1 \in 1 .. m - 1 /\ k \in 1 .. L /\ k - 1 \in 1 .. L
      BY <1>8, <2>3
    <3>. QED
      BY <1>4, <1>9, <3>1
  <2>4. CASE k # 1 /\ k = m
    <3>1. k - 1 \in 1 .. m - 1 /\ k - 1 \in 1 .. L
      BY <1>8, <2>4
    <3>. QED
      BY <1>1, <1>4, <1>9, <2>4, <3>1
  <2>. QED
    BY <2>1, <2>2, <2>3, <2>4
<1>16. \A k \in 1 .. m - 1 : s[at[k]] = "newline"
  BY <1>4, <1>6, <1>8, <1>9
<1>17. \A p \in 1 .. n : s[p] = "newline" => \E k \in 1 .. m - 1 : at[k] = p
  BY <1>4, <1>5, <1>8, <1>9
<1>18. LinesEnd(at, m, s)
  BY <1>8, <1>9, <1>14, <1>15, <1>16, <1>17 DEF LinesEnd, n
<1>. QED
  BY <1>12, <1>18

(* A set is as large as the numbers that count it.                         *)
LEMMA CountedBy ==
  ASSUME NEW n \in Nat, NEW T, NEW f \in [1 .. n -> T],
         \A p \in T : \E i \in 1 .. n : f[i] = p,
         \A i, j \in 1 .. n : i < j => f[i] # f[j]
  PROVE  IsFiniteSet(T) /\ Cardinality(T) = n
<1>1. f \in Bijection(1 .. n, T)
  <2>1. ASSUME NEW i \in 1 .. n, NEW j \in 1 .. n, f[i] = f[j] PROVE i = j
    <3>1. i < j \/ j < i \/ i = j
      OBVIOUS
    <3>. QED
      BY <2>1, <3>1
  <2>. QED
    BY <2>1 DEF Bijection, Injection, Surjection, IsInjective
<1>2. ExistsBijection(1 .. n, T)
  BY <1>1 DEF ExistsBijection
<1>3. IsFiniteSet(1 .. n) /\ Cardinality(1 .. n) = n
  <2>1. 1 \in Int /\ n \in Int /\ (1 > n => n = 0)
    OBVIOUS
  <2>2. IsFiniteSet(1 .. n) /\ Cardinality(1 .. n) = IF 1 > n THEN 0 ELSE n - 1 + 1
    BY <2>1, FS_Interval
  <2>. QED
    BY <2>1, <2>2
<1>. QED
  BY <1>2, <1>3, FS_Bijection

(* The newlines before a place tell which line it is in.                   *)
LEMMA NewlinesBefore ==
  ASSUME NEW at, NEW m, NEW s, LinesEnd(at, m, s), Len(s) \in Nat,
         NEW j \in 1 .. m, NEW p \in Nat, at[j - 1] < p, p <= at[j]
  PROVE  Cardinality({q \in 1 .. p - 1 : s[q] = "newline"}) = j - 1
<1>. DEFINE T == {q \in 1 .. p - 1 : s[q] = "newline"}
            f == [i \in 1 .. j - 1 |-> at[i]]
<1>1. /\ m \in Nat /\ j - 1 \in Nat /\ at \in [0 .. m -> Nat] /\ at[0] = 0
      /\ at[m] = Len(s) + 1
  BY DEF LinesEnd
<1>2. \A i \in 0 .. m : at[i] \in Nat /\ at[i] <= Len(s) + 1
  <2>1. ASSUME NEW i \in 0 .. m PROVE at[i] <= Len(s) + 1
    <3>1. i = m \/ i < m
      BY <1>1
    <3>2. i < m => at[i] < at[m]
      <4>1. m \in 0 .. m
        BY <1>1
      <4>. QED
        BY <4>1, LinesIncrease
    <3>. QED
      BY <1>1, <3>1, <3>2
  <2>. QED
    BY <1>1, <2>1
<1>3. ASSUME NEW i \in 1 .. j - 1 PROVE at[i] \in T
  <2>1. /\ i \in 1 .. m - 1 /\ i \in 0 .. m /\ j - 1 \in 0 .. m /\ 0 \in 0 .. m
        /\ i < j - 1 \/ i = j - 1
    BY <1>1
  <2>2. at[0] < at[i] /\ (i < j - 1 => at[i] < at[j - 1])
    BY <2>1, LinesIncrease
  <2>3. s[at[i]] = "newline"
    BY <2>1 DEF LinesEnd
  <2>4. at[i] \in 1 .. p - 1
    <3>1. at[i] \in Nat /\ at[j - 1] \in Nat
      BY <1>2, <2>1
    <3>2. at[i] <= at[j - 1]
      BY <2>1, <2>2, <3>1
    <3>. QED
      BY <1>1, <2>2, <3>1, <3>2
  <2>. QED
    BY <2>3, <2>4
<1>4. ASSUME NEW q \in T PROVE \E i \in 1 .. j - 1 : at[i] = q
  <2>1. q \in 1 .. p - 1 /\ s[q] = "newline"
    OBVIOUS
  <2>2. j \in 0 .. m /\ p <= Len(s) + 1
    BY <1>1, <1>2
  <2>3. q \in 1 .. Len(s)
    BY <2>1, <2>2
  <2>4. PICK i \in 1 .. m - 1 : at[i] = q
    BY <2>1, <2>3 DEF LinesEnd
  <2>5. i \in 0 .. m /\ (j < i => at[j] < at[i]) /\ (i = j => at[i] = at[j])
    <3>1. i \in 0 .. m
      BY <1>1
    <3>2. j < i => at[j] < at[i]
      BY <2>2, <3>1, LinesIncrease
    <3>. QED
      BY <3>1, <3>2
  <2>6. i < j
    <3>1. at[i] < at[j] /\ at[i] \in Nat /\ at[j] \in Nat
      BY <1>2, <2>1, <2>2, <2>4, <2>5
    <3>. QED
      BY <1>1, <2>2, <2>5, <3>1
  <2>. QED
    BY <1>1, <2>4, <2>6
<1>. HIDE DEF T
<1>5. f \in [1 .. j - 1 -> T] /\ \A i \in 1 .. j - 1 : f[i] = at[i]
  BY <1>3
<1>. HIDE DEF f
<1>6. \A i, k \in 1 .. j - 1 : i < k => f[i] # f[k]
  <2>1. ASSUME NEW i \in 1 .. j - 1, NEW k \in 1 .. j - 1, i < k PROVE f[i] # f[k]
    <3>1. i \in 0 .. m /\ k \in 0 .. m
      BY <1>1
    <3>2. at[i] < at[k]
      BY <2>1, <3>1, LinesIncrease
    <3>. QED
      BY <1>2, <1>5, <3>1, <3>2
  <2>. QED
    BY <2>1
<1>7. \A q \in T : \E i \in 1 .. j - 1 : f[i] = q
  BY <1>4, <1>5
<1>8. Cardinality(T) = j - 1
  BY <1>1, <1>5, <1>6, <1>7, CountedBy
<1>. QED
  BY <1>8 DEF T

(* There is a newline between two lines, and nowhere else.                 *)
LEMMA LinesAreCounted ==
  ASSUME NEW S, NEW s \in Seq(S), NEW at, NEW m, LinesEnd(at, m, s)
  PROVE  LinesIn(s) = m
<1>1. /\ m \in 1 .. m /\ Len(s) \in Nat /\ Len(s) + 1 \in Nat /\ m \in Nat /\ at[m] = Len(s) + 1
      /\ at[m - 1] < Len(s) + 1 /\ Len(s) + 1 <= at[m]
  BY DEF LinesEnd
<1>2. Cardinality({q \in 1 .. (Len(s) + 1) - 1 : s[q] = "newline"}) = m - 1
  BY <1>1, NewlinesBefore
<1>3. DOMAIN s = 1 .. (Len(s) + 1) - 1
  BY <1>1
<1>4. {q \in 1 .. (Len(s) + 1) - 1 : s[q] = "newline"} = {j \in DOMAIN s : s[j] = "newline"}
  BY <1>3
<1>5. Cardinality({j \in DOMAIN s : s[j] = "newline"}) = m - 1
  BY <1>2, <1>4, Zenon
<1>. QED
  BY <1>1, <1>5 DEF LinesIn

(* The line a place is in.                                                 *)
LEMMA TheLineAt ==
  ASSUME NEW at, NEW m, NEW s, LinesEnd(at, m, s), Len(s) \in Nat, NEW p \in 1 .. Len(s) + 1
  PROVE  \E k \in 1 .. m : at[k - 1] < p /\ p <= at[k]
<1>. DEFINE Good == {j \in 0 .. p - 1 : \E k \in 1 .. m : at[k - 1] < j + 1 /\ j + 1 <= at[k]}
<1>1. /\ m \in Nat \ {0} /\ at \in [0 .. m -> Nat] /\ at[0] = 0 /\ at[m] = Len(s) + 1
      /\ \A k \in 1 .. m : at[k - 1] < at[k]
  BY DEF LinesEnd
<1>2. 0 \in Good
  <2>1. 1 \in 1 .. m /\ 1 - 1 = 0 /\ 1 \in 0 .. m
    BY <1>1
  <2>2. at[1] \in Nat /\ at[1 - 1] < at[1]
    BY <1>1, <2>1
  <2>. QED
    BY <1>1, <2>1, <2>2
<1>3. ASSUME NEW j \in 1 .. p - 1, j - 1 \in Good PROVE j \in Good
  <2>1. PICK k \in 1 .. m : at[k - 1] < (j - 1) + 1 /\ (j - 1) + 1 <= at[k]
    BY <1>3
  <2>2. k \in 0 .. m /\ at[k] \in Nat
    BY <1>1
  <2>3. CASE j + 1 <= at[k]
    <3>1. k - 1 \in 0 .. m
      BY <1>1
    <3>2. at[k - 1] \in Nat
      BY <1>1, <3>1
    <3>. QED
      BY <2>1, <2>3, <3>2
  <2>4. CASE ~ (j + 1 <= at[k])
    <3>1. at[k] = j /\ k # m
      BY <1>1, <2>1, <2>2, <2>4
    <3>2. k + 1 \in 1 .. m /\ k + 1 \in 0 .. m /\ (k + 1) - 1 = k
      BY <1>1, <3>1
    <3>3. at[(k + 1) - 1] < at[k + 1] /\ at[k + 1] \in Nat
      BY <1>1, <3>2
    <3>4. at[(k + 1) - 1] < j + 1 /\ j + 1 <= at[k + 1]
      BY <3>1, <3>2, <3>3
    <3>. QED
      BY <3>2, <3>4
  <2>. QED
    BY <2>3, <2>4
<1>. HIDE DEF Good
<1>4. p - 1 \in Good
  <2>1. p - 1 \in Nat
    OBVIOUS
  <2>2. 0 .. p - 1 \subseteq Good
    BY <1>2, <1>3, <2>1, CountingUp
  <2>. QED
    BY <2>1, <2>2
<1>5. (p - 1) + 1 = p
  OBVIOUS
<1>. QED
  BY <1>4, <1>5 DEF Good

-----------------------------------------------------------------------------
(* Parts of a sequence, from after x up to y.                              *)

Part(s, x, y) == SubSeq(s, x + 1, y)

LEMMA PartIs ==
  ASSUME NEW S, NEW s \in Seq(S), NEW x \in Nat, NEW y \in Nat, x <= y, y <= Len(s)
  PROVE  /\ Part(s, x, y) \in Seq(S) /\ Len(Part(s, x, y)) = y - x
         /\ \A i \in 1 .. y - x : Part(s, x, y)[i] = s[x + i]
<1>1. x + 1 \in Int /\ y \in Int /\ \A i \in x + 1 .. y : s[i] \in S
  OBVIOUS
<1>2. /\ SubSeq(s, x + 1, y) \in Seq(S)
      /\ Len(SubSeq(s, x + 1, y)) = IF x + 1 <= y THEN y - (x + 1) + 1 ELSE 0
      /\ \A i \in 1 .. y - (x + 1) + 1 : SubSeq(s, x + 1, y)[i] = s[x + 1 + i - 1]
  BY <1>1, SubSeqProperties
<1>. DEFINE t == SubSeq(s, x + 1, y)
<1>. HIDE DEF t
<1>3. Len(t) = y - x
  BY <1>2 DEF t
<1>4. ASSUME NEW i \in 1 .. y - x PROVE t[i] = s[x + i]
  <2>1. i \in 1 .. y - (x + 1) + 1 /\ x + 1 + i - 1 = x + i
    OBVIOUS
  <2>2. t[i] = s[x + 1 + i - 1]
    BY <1>2, <2>1 DEF t
  <2>. QED
    BY <2>1, <2>2
<1>. QED
  BY <1>2, <1>3, <1>4 DEF Part, t

LEMMA NoPart ==
  ASSUME NEW s, NEW x \in Nat
  PROVE  Part(s, x, x) = << >>
BY SubSeqEmpty DEF Part

(* Parts of parts, and parts that meet, are parts of the whole.            *)
LEMMA PartOfPart ==
  ASSUME NEW S, NEW s \in Seq(S), NEW x \in Nat, NEW y \in Nat, x <= y, y <= Len(s),
         NEW u \in Nat, NEW v \in Nat, u <= v, v <= y - x
  PROVE  Part(Part(s, x, y), u, v) = Part(s, x + u, x + v)
<1>. DEFINE t == Part(s, x, y)
<1>1. t \in Seq(S) /\ Len(t) = y - x /\ \A i \in 1 .. y - x : t[i] = s[x + i]
  BY PartIs
<1>. HIDE DEF t
<1>2. /\ Part(t, u, v) \in Seq(S) /\ Len(Part(t, u, v)) = v - u
      /\ \A i \in 1 .. v - u : Part(t, u, v)[i] = t[u + i]
  <2>1. v <= Len(t)
    BY <1>1
  <2>2. t \in Seq(S)
    BY <1>1
  <2>. QED
    BY <2>1, <2>2, PartIs, Zenon
<1>3. /\ Part(s, x + u, x + v) \in Seq(S) /\ Len(Part(s, x + u, x + v)) = v - u
      /\ \A i \in 1 .. v - u : Part(s, x + u, x + v)[i] = s[(x + u) + i]
  <2>. DEFINE lo == x + u
              hi == x + v
  <2>1. lo \in Nat /\ hi \in Nat /\ lo <= hi /\ hi <= Len(s) /\ hi - lo = v - u
    OBVIOUS
  <2>. HIDE DEF lo, hi
  <2>2. /\ Part(s, lo, hi) \in Seq(S) /\ Len(Part(s, lo, hi)) = hi - lo
        /\ \A i \in 1 .. hi - lo : Part(s, lo, hi)[i] = s[lo + i]
    BY <2>1, PartIs, ZenonT(30)
  <2>3. /\ Part(s, lo, hi) \in Seq(S) /\ Len(Part(s, lo, hi)) = v - u
        /\ \A i \in 1 .. v - u : Part(s, lo, hi)[i] = s[lo + i]
    BY <2>1, <2>2
  <2>. QED
    BY <2>3 DEF lo, hi
<1>4. ASSUME NEW i \in 1 .. v - u PROVE Part(t, u, v)[i] = Part(s, x + u, x + v)[i]
  <2>1. u + i \in 1 .. y - x /\ x + (u + i) = (x + u) + i
    OBVIOUS
  <2>2. t[u + i] = s[(x + u) + i]
    BY <1>1, <2>1
  <2>3. Part(t, u, v)[i] = t[u + i] /\ Part(s, x + u, x + v)[i] = s[(x + u) + i]
    BY <1>2, <1>3
  <2>. QED
    BY <2>2, <2>3, Zenon
<1>. DEFINE p == Part(t, u, v)
            q == Part(s, x + u, x + v)
<1>5. p \in Seq(S) /\ q \in Seq(S) /\ Len(p) = Len(q) /\ \A i \in 1 .. Len(p) : p[i] = q[i]
  BY <1>2, <1>3, <1>4
<1>. HIDE DEF p, q
<1>6. p = q
  BY <1>5, SeqEqual
<1>. QED
  BY <1>6 DEF p, q, t

LEMMA PartsMeet ==
  ASSUME NEW S, NEW s \in Seq(S), NEW x \in Nat, NEW y \in Nat, NEW z \in Nat,
         x <= y, y <= z, z <= Len(s)
  PROVE  Part(s, x, y) \o Part(s, y, z) = Part(s, x, z)
<1>1. x + 1 \in 1 .. Len(s) + 1 /\ y \in (x + 1) - 1 .. Len(s) /\ z \in y .. Len(s)
  OBVIOUS
<1>. QED
  BY <1>1, ConcatAdjacentSubSeq DEF Part

LEMMA WholePart ==
  ASSUME NEW S, NEW s \in Seq(S)
  PROVE  Part(s, 0, Len(s)) = s
<1>1. 0 + 1 = 1
  OBVIOUS
<1>. QED
  BY <1>1, SubSeqFull DEF Part

LEMMA OneMore ==
  ASSUME NEW S, NEW s \in Seq(S), NEW x \in Nat, NEW y \in Nat, x <= y, y < Len(s)
  PROVE  Append(Part(s, x, y), s[y + 1]) = Part(s, x, y + 1)
<1>. DEFINE p == Part(s, x, y)
            q == Part(s, x, y + 1)
            r == Append(p, s[y + 1])
<1>1. /\ p \in Seq(S) /\ Len(p) = y - x /\ \A i \in 1 .. y - x : p[i] = s[x + i]
  <2>1. y <= Len(s)
    OBVIOUS
  <2>. QED
    BY <2>1, PartIs, Zenon
<1>2. /\ q \in Seq(S) /\ Len(q) = (y + 1) - x /\ \A i \in 1 .. (y + 1) - x : q[i] = s[x + i]
  <2>1. y + 1 \in Nat /\ x <= y + 1 /\ y + 1 <= Len(s)
    OBVIOUS
  <2>. QED
    BY <2>1, PartIs
<1>3. s[y + 1] \in S
  OBVIOUS
<1>. HIDE DEF p, q
<1>4. /\ r \in Seq(S) /\ Len(r) = Len(p) + 1 /\ \A i \in 1 .. Len(p) : r[i] = p[i]
      /\ r[Len(p) + 1] = s[y + 1]
  BY <1>1, <1>3, AppendProperties
<1>. HIDE DEF r
<1>5. ASSUME NEW i \in 1 .. Len(r) PROVE r[i] = q[i]
  <2>1. CASE i = Len(p) + 1
    <3>1. x + i = y + 1 /\ i \in 1 .. (y + 1) - x
      BY <1>1, <2>1
    <3>. QED
      BY <1>2, <1>4, <2>1, <3>1
  <2>2. CASE i # Len(p) + 1
    <3>1. i \in 1 .. Len(p) /\ i \in 1 .. y - x /\ i \in 1 .. (y + 1) - x
      BY <1>1, <1>4, <2>2
    <3>. QED
      BY <1>1, <1>2, <1>4, <3>1
  <2>. QED
    BY <2>1, <2>2
<1>6. Len(r) = Len(q)
  BY <1>1, <1>2, <1>4
<1>7. r = q
  BY <1>2, <1>4, <1>5, <1>6, SeqEqual
<1>. QED
  BY <1>7 DEF p, q, r

-----------------------------------------------------------------------------
(* Some of the lines of s, and the lines put together again.               *)

LinesOf(s, at, m) == [k \in 1 .. m |-> Part(s, at[k - 1], at[k] - 1)]

LEMMA WhereLinesAre ==
  ASSUME NEW at, NEW m, NEW s, LinesEnd(at, m, s), Len(s) \in Nat, NEW k \in 1 .. m
  PROVE  /\ at[k - 1] \in Nat /\ at[k] \in Nat /\ at[k] - 1 \in Nat
         /\ at[k - 1] <= at[k] - 1 /\ at[k] - 1 <= Len(s) /\ (k # m => at[k] <= Len(s))
<1>1. /\ m \in Nat /\ at \in [0 .. m -> Nat] /\ at[m] = Len(s) + 1 /\ at[k - 1] < at[k]
      /\ k - 1 \in 0 .. m /\ k \in 0 .. m /\ m \in 0 .. m
  BY DEF LinesEnd
<1>2. k = m \/ at[k] < at[m]
  <2>1. k = m \/ k < m
    BY <1>1
  <2>. QED
    BY <1>1, <2>1, LinesIncrease
<1>3. at[k - 1] \in Nat /\ at[k] \in Nat
  BY <1>1
<1>. QED
  BY <1>1, <1>2, <1>3

LEMMA SplitIsLines ==
  ASSUME NEW S, NEW s \in Seq(S)
  PROVE  \E m, at : LinesEnd(at, m, s) /\ Split(s) = LinesOf(s, at, m)
BY SplitAtNewlines DEF LinesOf, Part

(* The lines after the i-th, up to the j-th.                               *)
LEMMA PartOfLines ==
  ASSUME NEW S, NEW s \in Seq(S), NEW at, NEW m, LinesEnd(at, m, s),
         NEW i \in Nat, NEW j \in Nat, i < j, j <= m
  PROVE  LET t == Part(s, at[i], at[j] - 1)
             e == [k \in 0 .. j - i |-> at[i + k] - at[i]]
         IN  /\ t \in Seq(S) /\ LinesEnd(e, j - i, t)
             /\ LinesOf(t, e, j - i) = Part(LinesOf(s, at, m), i, j)
<1>. DEFINE t == Part(s, at[i], at[j] - 1)
            e == [k \in 0 .. j - i |-> at[i + k] - at[i]]
<1>1. /\ m \in Nat \ {0} /\ at \in [0 .. m -> Nat] /\ i \in 0 .. m /\ j \in 0 .. m /\ j \in 1 .. m
      /\ j - i \in Nat \ {0} /\ Len(s) \in Nat
  BY DEF LinesEnd
<1>2. /\ at[i] \in Nat /\ at[j] \in Nat /\ at[j] - 1 \in Nat /\ at[i] <= at[j] - 1
      /\ at[j] - 1 <= Len(s)
  <2>1. at[i] < at[j]
    BY <1>1, LinesIncrease
  <2>2. at[i] \in Nat /\ at[j] \in Nat /\ at[j] - 1 \in Nat /\ at[j] - 1 <= Len(s)
    BY <1>1, WhereLinesAre
  <2>. QED
    BY <2>1, <2>2
<1>3. /\ t \in Seq(S) /\ Len(t) = (at[j] - 1) - at[i]
      /\ \A p \in 1 .. (at[j] - 1) - at[i] : t[p] = s[at[i] + p]
  <2>. DEFINE x == at[i]
              y == at[j] - 1
  <2>1. x \in Nat /\ y \in Nat /\ x <= y /\ y <= Len(s)
    BY <1>2
  <2>. HIDE DEF x, y
  <2>2. /\ Part(s, x, y) \in Seq(S) /\ Len(Part(s, x, y)) = y - x
        /\ \A p \in 1 .. y - x : Part(s, x, y)[p] = s[x + p]
    BY <2>1, PartIs, Zenon
  <2>. QED
    BY <2>2 DEF x, y
<1>. HIDE DEF t
<1>4. \A k \in 0 .. j - i : /\ i + k \in 0 .. m /\ e[k] = at[i + k] - at[i]
                            /\ (k # 0 => at[i] < at[i + k])
  <2>1. ASSUME NEW k \in 0 .. j - i
        PROVE  i + k \in 0 .. m /\ (k # 0 => at[i] < at[i + k])
    <3>1. i + k \in 0 .. m /\ (k # 0 => i < i + k)
      BY <1>1
    <3>. QED
      BY <1>1, <3>1, LinesIncrease
  <2>. QED
    BY <2>1
<1>5. e = [k \in 0 .. j - i |-> e[k]]
  OBVIOUS
<1>. HIDE DEF e
<1>6. e \in [0 .. j - i -> Nat]
  <2>1. ASSUME NEW k \in 0 .. j - i PROVE e[k] \in Nat
    <3>1. /\ at[i + k] \in Nat /\ e[k] = at[i + k] - at[i]
          /\ (k # 0 => at[i] < at[i + k])
      BY <1>1, <1>4
    <3>2. k = 0 => at[i + k] = at[i]
      <4>1. k = 0 => i + k = i
        BY <1>1
      <4>. QED
        BY <4>1
    <3>. QED
      BY <1>2, <3>1, <3>2
  <2>. QED
    BY <1>5, <2>1
<1>7. e[0] = 0 /\ e[j - i] = Len(t) + 1
  <2>1. 0 \in 0 .. j - i /\ j - i \in 0 .. j - i /\ i + 0 = i /\ i + (j - i) = j
    BY <1>1
  <2>2. e[0] = at[i] - at[i] /\ e[j - i] = at[j] - at[i]
    BY <1>4, <2>1
  <2>. QED
    BY <1>2, <1>3, <2>2
<1>8. ASSUME NEW k \in 1 .. j - i
      PROVE  /\ e[k - 1] = at[(i + k) - 1] - at[i] /\ e[k] = at[i + k] - at[i]
             /\ at[(i + k) - 1] \in Nat /\ at[i + k] \in Nat /\ at[(i + k) - 1] < at[i + k]
             /\ at[i] <= at[(i + k) - 1] /\ i + k \in 1 .. m
             /\ (k # j - i => at[i + k] < at[j])
  <2>1. /\ k \in 0 .. j - i /\ k - 1 \in 0 .. j - i /\ i + (k - 1) = (i + k) - 1
        /\ i + k \in 1 .. m /\ (i + k) - 1 \in 0 .. m /\ i + k \in 0 .. m
    BY <1>1
  <2>2. e[k - 1] = at[(i + k) - 1] - at[i] /\ e[k] = at[i + k] - at[i]
    BY <1>4, <2>1
  <2>3. at[(i + k) - 1] \in Nat /\ at[i + k] \in Nat
    BY <1>1, <2>1
  <2>4. at[(i + k) - 1] < at[i + k]
    BY <2>1 DEF LinesEnd
  <2>5. at[i] <= at[(i + k) - 1]
    <3>1. CASE k = 1
      <4>1. (i + k) - 1 = i
        BY <3>1
      <4>. QED
        BY <1>2, <4>1
    <3>2. CASE k # 1
      <4>1. k - 1 # 0
        BY <3>2
      <4>2. at[i] < at[i + (k - 1)]
        BY <1>4, <2>1, <4>1
      <4>. QED
        BY <1>2, <2>1, <2>3, <4>2
    <3>. QED
      BY <3>1, <3>2
  <2>6. k # j - i => at[i + k] < at[j]
    <3>1. k # j - i => i + k < j
      OBVIOUS
    <3>. QED
      BY <1>1, <2>1, <3>1, LinesIncrease
  <2>. QED
    BY <2>1, <2>2, <2>3, <2>4, <2>5, <2>6
<1>9. ASSUME NEW k \in 1 .. j - i PROVE e[k - 1] < e[k]
  <2>1. /\ e[k - 1] = at[(i + k) - 1] - at[i] /\ e[k] = at[i + k] - at[i]
        /\ at[(i + k) - 1] \in Nat /\ at[i + k] \in Nat /\ at[(i + k) - 1] < at[i + k]
    BY <1>8
  <2>. QED
    BY <1>2, <2>1
<1>10. ASSUME NEW k \in 1 .. (j - i) - 1 PROVE t[e[k]] = "newline"
  <2>1. k \in 1 .. j - i /\ k # j - i /\ i + k \in 1 .. m - 1
    BY <1>1
  <2>2. e[k] \in 1 .. (at[j] - 1) - at[i] /\ at[i] + e[k] = at[i + k]
    <3>1. /\ at[i + k] < at[j] /\ at[i] <= at[(i + k) - 1] /\ at[(i + k) - 1] < at[i + k]
          /\ e[k] = at[i + k] - at[i] /\ at[(i + k) - 1] \in Nat /\ at[i + k] \in Nat
      BY <1>8, <2>1
    <3>. QED
      BY <1>2, <3>1, SMTT(20)
  <2>3. s[at[i + k]] = "newline"
    BY <2>1 DEF LinesEnd
  <2>4. t[e[k]] = s[at[i] + e[k]]
    BY <1>3, <2>2
  <2>. QED
    BY <2>2, <2>3, <2>4
<1>11. ASSUME NEW p \in 1 .. Len(t), t[p] = "newline"
       PROVE  \E k \in 1 .. (j - i) - 1 : e[k] = p
  <2>1. /\ s[at[i] + p] = "newline" /\ at[i] + p \in 1 .. Len(s)
        /\ at[i] < at[i] + p /\ at[i] + p < at[j]
    BY <1>2, <1>3, <1>11, SMTT(20)
  <2>2. PICK l \in 1 .. m - 1 : at[l] = at[i] + p
    BY <2>1 DEF LinesEnd
  <2>3. l \in 0 .. m /\ at[l] \in Nat /\ (l < i => at[l] < at[i]) /\ (j < l => at[j] < at[l])
    <3>1. l \in 0 .. m
      BY <1>1
    <3>. QED
      BY <1>1, <3>1, LinesIncrease
  <2>4. i < l /\ l < j
    <3>1. ~ (l < i) /\ l # i
      BY <1>2, <2>1, <2>2, <2>3
    <3>2. ~ (j < l) /\ l # j
      BY <1>2, <2>1, <2>2, <2>3
    <3>. QED
      BY <1>1, <2>3, <3>1, <3>2
  <2>5. l - i \in 1 .. (j - i) - 1 /\ l - i \in 0 .. j - i /\ i + (l - i) = l
    BY <1>1, <2>3, <2>4
  <2>6. e[l - i] = at[l] - at[i]
    BY <1>4, <2>5
  <2>. QED
    BY <1>2, <2>2, <2>5, <2>6
<1>12. LinesEnd(e, j - i, t)
  BY <1>1, <1>6, <1>7, <1>9, <1>10, <1>11 DEF LinesEnd
<1>13. LinesOf(t, e, j - i) = Part(LinesOf(s, at, m), i, j)
  <2>. DEFINE line == [k \in 1 .. j - i |-> Part(s, at[(i + k) - 1], at[i + k] - 1)]
              all == LinesOf(s, at, m)
  <2>1. ASSUME NEW k \in 1 .. j - i
        PROVE  Part(t, e[k - 1], e[k] - 1) = Part(s, at[(i + k) - 1], at[i + k] - 1)
    <3>. DEFINE x == at[i]
                y == at[j] - 1
                u == e[k - 1]
                v == e[k] - 1
    <3>1. /\ at[(i + k) - 1] \in Nat /\ at[i + k] \in Nat /\ at[(i + k) - 1] < at[i + k]
          /\ at[i] <= at[(i + k) - 1] /\ (k # j - i => at[i + k] < at[j])
          /\ u = at[(i + k) - 1] - x /\ v = (at[i + k] - x) - 1
      BY <1>8
    <3>2. at[i + k] <= at[j]
      <4>1. CASE k # j - i
        <5>1. at[i + k] < at[j] /\ at[i + k] \in Nat /\ at[j] \in Nat
          BY <1>2, <3>1, <4>1
        <5>. QED
          BY <5>1
      <4>2. CASE k = j - i
        <5>1. i + k = j
          BY <1>1, <4>2
        <5>2. at[i + k] = at[j] /\ at[j] \in Nat
          BY <1>2, <5>1
        <5>. QED
          BY <5>2
      <4>. QED
        BY <4>1, <4>2
    <3>3. /\ x \in Nat /\ y \in Nat /\ x <= y /\ y <= Len(s)
      BY <1>2
    <3>. HIDE DEF x, y, u, v
    <3>. DEFINE from == at[(i + k) - 1]
                to == at[i + k]
    <3>7. /\ from \in Nat /\ to \in Nat /\ from < to /\ x <= from /\ to <= y + 1
          /\ u = from - x /\ v = (to - x) - 1
      <4>1. y + 1 = at[j]
        BY <1>2 DEF y
      <4>2. x <= from
        BY <3>1 DEF x
      <4>3. to <= y + 1
        BY <3>2, <4>1
      <4>. QED
        BY <3>1, <4>2, <4>3
    <3>. HIDE DEF from, to
    <3>4. u \in Nat /\ v \in Nat /\ u <= v /\ v <= y - x
      BY <3>3, <3>7
    <3>8. x + u = from /\ x + v = to - 1
      BY <3>3, <3>7
    <3>5. x + u = at[(i + k) - 1] /\ x + v = at[i + k] - 1
      BY <3>8 DEF from, to
    <3>6. Part(Part(s, x, y), u, v) = Part(s, x + u, x + v)
      BY <3>3, <3>4, PartOfPart
    <3>. QED
      BY <3>5, <3>6 DEF t, x, y, u, v
  <2>2. LinesOf(t, e, j - i) = line
    BY <2>1 DEF LinesOf
  <2>3. ASSUME NEW k \in 1 .. m PROVE all[k] \in Seq(S)
    <3>1. Part(s, at[k - 1], at[k] - 1) \in Seq(S)
      BY <1>1, WhereLinesAre, PartIs
    <3>. QED
      BY <3>1 DEF LinesOf
  <2>4. all \in Seq(Seq(S)) /\ Len(all) = m
    <3>1. all = [k \in 1 .. m |-> all[k]] /\ DOMAIN all = 1 .. m
      BY DEF LinesOf
    <3>. HIDE DEF all
    <3>2. all \in [1 .. m -> Seq(S)]
      BY <2>3, <3>1
    <3>. QED
      BY <1>1, <3>1, <3>2
  <2>5. \A k \in 1 .. m : all[k] = Part(s, at[k - 1], at[k] - 1)
    BY DEF LinesOf
  <2>. HIDE DEF all
  <2>6. /\ Part(all, i, j) \in Seq(Seq(S)) /\ Len(Part(all, i, j)) = j - i
        /\ \A k \in 1 .. j - i : Part(all, i, j)[k] = all[i + k]
    <3>1. i <= j /\ j <= Len(all)
      BY <2>4
    <3>. QED
      BY <2>4, <3>1, PartIs, Zenon
  <2>7. ASSUME NEW k \in 1 .. j - i PROVE line[k] = Part(all, i, j)[k]
    <3>1. i + k \in 1 .. m
      BY <1>1
    <3>2. line[k] = Part(s, at[(i + k) - 1], at[i + k] - 1)
      OBVIOUS
    <3>3. all[i + k] = Part(s, at[(i + k) - 1], at[i + k] - 1)
      BY <2>5, <3>1
    <3>. QED
      BY <2>6, <3>2, <3>3
  <2>8. line = [k \in 1 .. j - i |-> line[k]] /\ DOMAIN line = 1 .. j - i
    OBVIOUS
  <2>. DEFINE got == Part(all, i, j)
  <2>9. got = [k \in 1 .. j - i |-> got[k]]
    <3>1. got \in Seq(Seq(S)) /\ Len(got) = j - i
      BY <2>6
    <3>. HIDE DEF got
    <3>. QED
      BY <3>1
  <2>. HIDE DEF line, got
  <2>10. line = got
    BY <2>7, <2>8, <2>9 DEF got
  <2>. QED
    BY <2>2, <2>10 DEF got, all
<1>. QED
  BY <1>3, <1>12, <1>13 DEF t, e

(* The lines put together again, newline by newline.                       *)
LEMMA JoinOfLines ==
  ASSUME NEW S, NEW s \in Seq(S), NEW at, NEW m, LinesEnd(at, m, s)
  PROVE  Join(LinesOf(s, at, m)) = s
<1>. DEFINE lines == LinesOf(s, at, m)
            upto == [k \in 0 .. m |-> IF k < m THEN at[k] ELSE Len(s)]
            seqs == [k \in DOMAIN lines |->
                       IF k < Len(lines) THEN Append(lines[k], "newline") ELSE lines[k]]
            f == [k \in 1 .. m |-> Part(s, 0, upto[k])]
<1>1. /\ m \in Nat \ {0} /\ Len(s) \in Nat /\ at[0] = 0 /\ at[m] = Len(s) + 1
      /\ at \in [0 .. m -> Nat]
  BY DEF LinesEnd
<1>2. /\ DOMAIN lines = 1 .. m /\ Len(lines) = m
      /\ \A k \in 1 .. m : lines[k] = Part(s, at[k - 1], at[k] - 1)
  <2>1. DOMAIN lines = 1 .. m /\ \A k \in 1 .. m : lines[k] = Part(s, at[k - 1], at[k] - 1)
    BY DEF LinesOf
  <2>. HIDE DEF lines
  <2>. QED
    BY <1>1, <2>1
<1>. HIDE DEF lines
<1>3. /\ upto[0] = 0 /\ upto[m] = Len(s) /\ \A k \in 0 .. m - 1 : upto[k] = at[k]
  BY <1>1
<1>. HIDE DEF upto
<1>4. ASSUME NEW k \in 1 .. m
      PROVE  /\ upto[k - 1] \in Nat /\ upto[k] \in Nat /\ upto[k - 1] <= upto[k]
             /\ upto[k] <= Len(s) /\ seqs[k] = Part(s, upto[k - 1], upto[k])
  <2>1. /\ at[k - 1] \in Nat /\ at[k] \in Nat /\ at[k] - 1 \in Nat
        /\ at[k - 1] <= at[k] - 1 /\ at[k] - 1 <= Len(s) /\ (k # m => at[k] <= Len(s))
    <3>1. Len(s) \in Nat
      BY <1>1
    <3>. QED
      BY <3>1, WhereLinesAre
  <2>2. k - 1 \in 0 .. m - 1 /\ upto[k - 1] = at[k - 1]
    BY <1>1, <1>3
  <2>3. CASE k = m
    <3>1. upto[k] = at[k] - 1 /\ upto[k] = Len(s)
      BY <1>1, <1>3, <2>3
    <3>2. seqs[k] = lines[k]
      BY <1>1, <1>2, <2>3
    <3>3. lines[k] = Part(s, at[k - 1], at[k] - 1)
      BY <1>2
    <3>. QED
      BY <2>1, <2>2, <3>1, <3>2, <3>3
  <2>4. CASE k # m
    <3>1. k \in 0 .. m - 1 /\ upto[k] = at[k] /\ k < m
      BY <1>1, <1>3, <2>4
    <3>2. seqs[k] = Append(lines[k], "newline")
      BY <1>2, <3>1
    <3>3. s[at[k]] = "newline"
      BY <3>1 DEF LinesEnd
    <3>. DEFINE x == at[k - 1]
                y == at[k] - 1
    <3>4. x \in Nat /\ y \in Nat /\ x <= y /\ y < Len(s) /\ y + 1 = at[k]
      BY <1>1, <2>1, <2>4
    <3>5. lines[k] = Part(s, x, y)
      BY <1>2
    <3>. HIDE DEF x, y
    <3>6. Append(Part(s, x, y), s[y + 1]) = Part(s, x, y + 1)
      BY <3>4, OneMore
    <3>7. Append(lines[k], "newline") = Part(s, x, at[k])
      BY <3>3, <3>4, <3>5, <3>6
    <3>8. seqs[k] = Part(s, upto[k - 1], upto[k])
      BY <2>2, <3>1, <3>2, <3>7 DEF x
    <3>. QED
      BY <2>1, <2>2, <2>4, <3>1, <3>8
  <2>. QED
    BY <2>3, <2>4
<1>5. DOMAIN seqs = 1 .. m /\ Len(seqs) = m
  <2>1. DOMAIN seqs = 1 .. m
    BY <1>2
  <2>. HIDE DEF seqs
  <2>. QED
    BY <1>1, <2>1
<1>6. Join(lines) = FlattenSeq(seqs)
  BY DEF Join
<1>. HIDE DEF seqs
<1>7. f = [k \in 1 .. m |-> f[k]] /\ \A k \in 1 .. m : f[k] = Part(s, 0, upto[k])
  OBVIOUS
<1>. HIDE DEF f
<1>8. ASSUME NEW k \in 1 .. m
      PROVE  f[k] = IF k = 1 THEN seqs[k] ELSE f[k - 1] \o seqs[k]
  <2>. DEFINE y == upto[k - 1]
              z == upto[k]
  <2>1. y \in Nat /\ z \in Nat /\ y <= z /\ z <= Len(s) /\ seqs[k] = Part(s, y, z)
    BY <1>4
  <2>2. f[k] = Part(s, 0, z)
    BY <1>7
  <2>3. CASE k = 1
    <3>1. y = 0
      BY <1>3, <2>3
    <3>. HIDE DEF y, z
    <3>. QED
      BY <2>1, <2>2, <2>3, <3>1
  <2>4. CASE k # 1
    <3>1. k - 1 \in 1 .. m
      BY <1>1, <2>4
    <3>2. f[k - 1] = Part(s, 0, y)
      BY <1>7, <3>1
    <3>. HIDE DEF y, z
    <3>3. 0 <= y
      BY <2>1
    <3>4. Part(s, 0, y) \o Part(s, y, z) = Part(s, 0, z)
      BY <2>1, <3>3, PartsMeet
    <3>. QED
      BY <2>1, <2>2, <2>4, <3>2, <3>4
  <2>. QED
    BY <2>3, <2>4
<1>9. f = NextFlat(seqs, f)
  BY <1>5, <1>7, <1>8 DEF NextFlat
<1>10. FlattenSeq(seqs) = f[m]
  BY <1>1, <1>5, <1>9, FlatIsUnique
<1>11. f[m] = s
  <2>1. m \in 1 .. m
    BY <1>1
  <2>2. f[m] = Part(s, 0, Len(s))
    BY <1>3, <1>7, <2>1
  <2>. QED
    BY <2>2, WholePart
<1>. QED
  BY <1>6, <1>10, <1>11 DEF lines

(* strings.Join undoes strings.Split.                                      *)
LEMMA JoinOfSplit ==
  ASSUME NEW S, NEW s \in Seq(S)
  PROVE  Join(Split(s)) = s
<1>1. PICK m, at : LinesEnd(at, m, s) /\ Split(s) = LinesOf(s, at, m)
  BY SplitIsLines
<1>2. Join(LinesOf(s, at, m)) = s
  BY <1>1, JoinOfLines
<1>. QED
  BY <1>1, <1>2

(* The lines after the i-th, up to the j-th, put together again.           *)
LEMMA JoinOfPart ==
  ASSUME NEW S, NEW s \in Seq(S), NEW at, NEW m, LinesEnd(at, m, s),
         NEW i \in Nat, NEW j \in Nat, i < j, j <= m
  PROVE  /\ Join(Part(LinesOf(s, at, m), i, j)) = Part(s, at[i], at[j] - 1)
         /\ LinesIn(Part(s, at[i], at[j] - 1)) = j - i
<1>. DEFINE t == Part(s, at[i], at[j] - 1)
            e == [k \in 0 .. j - i |-> at[i + k] - at[i]]
<1>1. /\ t \in Seq(S) /\ LinesEnd(e, j - i, t)
      /\ LinesOf(t, e, j - i) = Part(LinesOf(s, at, m), i, j)
  BY PartOfLines
<1>. HIDE DEF t, e
<1>2. Join(LinesOf(t, e, j - i)) = t
  BY <1>1, JoinOfLines
<1>3. LinesIn(t) = j - i
  BY <1>1, LinesAreCounted
<1>. QED
  BY <1>1, <1>2, <1>3 DEF t

-----------------------------------------------------------------------------
(* Where the characters of a text are in its bytes.                        *)

(* The bytes of s after x begin with e.                                    *)
IsAt(e, x, s) == \A i \in 1 .. Len(e) : s[x + i] = e[i]

LEMMA WhereACharacterIs ==
  ASSUME NEW text \in Seq(Chars), NEW b, BytesUpTo(b, text), NEW k \in 1 .. Len(text)
  PROVE  /\ Len(b[k - 1]) \in Nat /\ Len(b[k]) = Len(b[k - 1]) + Len(Encode(text[k]))
         /\ IsAt(Encode(text[k]), Len(b[k - 1]), b[Len(text)])
<1>. DEFINE n == Len(text)
            e == Encode(text[k])
            s == b[n]
<1>1. n \in Nat /\ k \in 0 .. n /\ k - 1 \in 0 .. n /\ text[k] \in Chars
  OBVIOUS
<1>2. b[k] = b[k - 1] \o e
  BY DEF BytesUpTo
<1>3. e \in Seq(EncodedBytes) /\ Len(e) \in 1 .. 3
  BY <1>1, Encoded
<1>. HIDE DEF e
<1>4. PICK rest \in Seq(EncodedBytes) : s = b[k] \o rest
  BY <1>1, BytesOfAnEnd
<1>5. b[k - 1] \in Seq(EncodedBytes) /\ b[k] \in Seq(EncodedBytes)
  BY <1>1 DEF BytesUpTo
<1>6. Len(b[k - 1]) \in Nat /\ Len(b[k]) = Len(b[k - 1]) + Len(e)
  BY <1>2, <1>3, <1>5, ConcatProperties
<1>. HIDE DEF s
<1>7. ASSUME NEW i \in 1 .. Len(e) PROVE s[Len(b[k - 1]) + i] = e[i]
  <2>. DEFINE p == Len(b[k - 1]) + i
  <2>1. p \in 1 .. Len(b[k]) /\ ~ (p <= Len(b[k - 1])) /\ p - Len(b[k - 1]) = i
    BY <1>3, <1>6
  <2>. HIDE DEF p
  <2>2. b[k][p] = e[i]
    BY <1>2, <1>3, <1>5, <1>6, <2>1, ConcatProperties, SMTT(20)
  <2>3. s[p] = b[k][p]
    <3>1. Len(rest) \in Nat
      OBVIOUS
    <3>2. p \in 1 .. Len(b[k]) + Len(rest) /\ p <= Len(b[k])
      BY <1>3, <1>6, <2>1, <3>1
    <3>. QED
      BY <1>4, <1>5, <3>2, ConcatProperties
  <2>. QED
    BY <2>2, <2>3 DEF p
<1>8. IsAt(e, Len(b[k - 1]), s)
  BY <1>7 DEF IsAt
<1>. QED
  BY <1>6, <1>8 DEF e, s

(* The bytes of a part of a text are those between its ends.               *)
LEMMA BytesOfAPart ==
  ASSUME NEW text \in Seq(Chars), NEW b, BytesUpTo(b, text),
         NEW i \in Nat, NEW j \in Nat, i <= j, j <= Len(text)
  PROVE  Bytes(Part(text, i, j)) = Part(b[Len(text)], Len(b[i]), Len(b[j]))
<1>. DEFINE n == Len(text)
            t == Part(text, 0, j)
            c == [k \in 0 .. j |-> b[k]]
            part == Bytes(Part(text, i, j))
<1>1. /\ n \in Nat /\ i \in 0 .. n /\ j \in 0 .. n /\ n \in 0 .. n /\ 0 <= j
      /\ i \in 0 .. j /\ j \in 0 .. j /\ b \in [0 .. n -> Seq(EncodedBytes)]
  BY DEF BytesUpTo
<1>2. t \in Seq(Chars) /\ Len(t) = j /\ \A k \in 1 .. j : t[k] = text[k]
  <2>1. /\ t \in Seq(Chars) /\ Len(t) = j - 0 /\ \A k \in 1 .. j - 0 : t[k] = text[0 + k]
    <3>1. j <= Len(text) /\ 0 \in Nat /\ 0 <= j
      OBVIOUS
    <3>. QED
      BY <3>1, PartIs
  <2>. HIDE DEF t
  <2>. QED
    BY <2>1
<1>3. Part(t, i, j) = Part(text, i, j)
  <2>1. /\ 0 \in Nat /\ 0 <= j /\ i \in Nat /\ j \in Nat /\ i <= j /\ j <= j - 0
        /\ 0 + i = i /\ 0 + j = j
    OBVIOUS
  <2>2. Part(Part(text, 0, j), i, j) = Part(text, 0 + i, 0 + j)
    BY <2>1, PartOfPart
  <2>. QED
    BY <2>1, <2>2
<1>. HIDE DEF t
<1>4. /\ c \in [0 .. j -> Seq(EncodedBytes)]
      /\ \A k \in 0 .. j : c[k] = b[k] /\ c[k] \in Seq(EncodedBytes)
  <2>1. \A k \in 0 .. j : k \in 0 .. n
    BY <1>1
  <2>2. \A k \in 0 .. j : b[k] \in Seq(EncodedBytes)
    BY <1>1, <2>1
  <2>. QED
    BY <2>2
<1>. HIDE DEF c
<1>5. BytesUpTo(c, t)
  <2>1. c[0] = << >>
    BY <1>1, <1>4 DEF BytesUpTo
  <2>2. ASSUME NEW k \in 1 .. j PROVE c[k] = c[k - 1] \o Encode(t[k])
    <3>1. k \in 0 .. j /\ k - 1 \in 0 .. j /\ k \in 1 .. n
      BY <1>1
    <3>2. b[k] = b[k - 1] \o Encode(text[k])
      BY <3>1 DEF BytesUpTo
    <3>. QED
      BY <1>2, <1>4, <3>1, <3>2
  <2>. QED
    BY <1>2, <1>4, <2>1, <2>2 DEF BytesUpTo
<1>6. part \in Seq(EncodedBytes) /\ b[j] = b[i] \o part
  <2>1. i \in 0 .. Len(t)
    BY <1>1, <1>2
  <2>2. /\ Bytes(SubSeq(t, i + 1, Len(t))) \in Seq(EncodedBytes)
        /\ c[Len(t)] = c[i] \o Bytes(SubSeq(t, i + 1, Len(t)))
    BY <1>2, <1>5, <2>1, BytesOfAnEnd
  <2>3. SubSeq(t, i + 1, Len(t)) = Part(text, i, j)
    BY <1>2, <1>3 DEF Part
  <2>4. c[Len(t)] = b[j] /\ c[i] = b[i]
    BY <1>1, <1>2, <1>4
  <2>. QED
    BY <2>2, <2>3, <2>4
<1>7. PICK rest \in Seq(EncodedBytes) : b[n] = b[j] \o rest
  BY <1>1, BytesOfAnEnd
<1>. HIDE DEF part
<1>. DEFINE s == b[n]
            x == Len(b[i])
            y == Len(b[j])
<1>8. /\ b[i] \in Seq(EncodedBytes) /\ b[j] \in Seq(EncodedBytes) /\ s \in Seq(EncodedBytes)
      /\ x \in Nat /\ y \in Nat
  BY <1>1
<1>9. x <= y /\ y <= Len(s)
  <2>1. y = x + Len(part) /\ Len(part) \in Nat
    BY <1>6, <1>8, ConcatProperties
  <2>2. Len(s) = y + Len(rest) /\ Len(rest) \in Nat
    BY <1>7, <1>8, ConcatProperties
  <2>. QED
    BY <1>8, <2>1, <2>2
<1>10. Part(b[j], x, y) = part
  <2>. DEFINE first == b[i]
              both == b[j]
  <2>1. first \in Seq(EncodedBytes) /\ both = first \o part /\ x = Len(first) /\ y = Len(both)
    BY <1>6, <1>8
  <2>. HIDE DEF first, both, x, y
  <2>2. SubSeq(first \o part, Len(first) + 1, Len(first \o part)) = part
    BY <1>6, <2>1, TheTwoHalves
  <2>. QED
    BY <2>1, <2>2 DEF Part, both
<1>11. Part(s, 0, y) = b[j]
  <2>1. SubSeq(b[j] \o rest, 1, Len(b[j])) = b[j]
    BY <1>8, TheTwoHalves
  <2>2. 0 + 1 = 1
    OBVIOUS
  <2>. QED
    BY <1>7, <2>1, <2>2 DEF Part
<1>. HIDE DEF s, x, y
<1>12. Part(Part(s, 0, y), x, y) = Part(s, x, y)
  <2>1. 0 \in Nat /\ 0 <= y /\ y <= y - 0 /\ 0 + x = x /\ 0 + y = y
    BY <1>8
  <2>2. Part(Part(s, 0, y), x, y) = Part(s, 0 + x, 0 + y)
    BY <1>8, <1>9, <2>1, PartOfPart
  <2>. QED
    BY <2>1, <2>2
<1>. QED
  BY <1>10, <1>11, <1>12 DEF part, s, x, y

(* end[k] is where the k-th character of a text ends in its bytes.         *)
EndsOf(end, text) ==
  /\ CharactersEnd(end, Len(text), Bytes(text))
  /\ \A i, j \in 0 .. Len(text) :
       i <= j => Bytes(Part(text, i, j)) = Part(Bytes(text), end[i], end[j])
  /\ \A k \in 1 .. Len(text) :
       /\ end[k] <= end[k - 1] + 3
       /\ text[k] = "newline" =>
            end[k] = end[k - 1] + 1 /\ Bytes(text)[end[k]] = "newline"
  /\ \A p \in 1 .. Len(Bytes(text)) :
       Bytes(text)[p] = "newline" =>
         \E k \in 1 .. Len(text) : text[k] = "newline" /\ end[k] = p

LEMMA TextsHaveEnds ==
  ASSUME NEW text \in Seq(Chars)
  PROVE  Bytes(text) \in Seq(EncodedBytes) /\ \E end : EndsOf(end, text)
<1>. DEFINE n == Len(text)
<1>1. PICK b : BytesUpTo(b, text)
  BY BytesAccumulate
<1>. DEFINE s == b[n]
            end == [k \in 0 .. n |-> Len(b[k])]
<1>2. n \in Nat /\ \A k \in 0 .. n : b[k] \in Seq(EncodedBytes)
  BY <1>1 DEF BytesUpTo
<1>3. Bytes(text) = s /\ s \in Seq(EncodedBytes) /\ Len(s) \in Nat
  <2>1. n \in 0 .. n /\ SubSeq(text, 1, n) = text
    BY <1>2, SubSeqFull
  <2>2. s \in Seq(EncodedBytes)
    BY <1>2, <2>1
  <2>3. Bytes(SubSeq(text, 1, n)) = b[n]
    BY <1>1, <2>1, BytesOfABeginning
  <2>4. Bytes(text) = s
    BY <2>1, <2>3
  <2>. HIDE DEF s
  <2>. QED
    BY <2>2, <2>4
<1>4. CharactersEnd(end, n, s)
  BY <1>1, WhereCharactersEnd
<1>5. \A k \in 0 .. n : end[k] = Len(b[k]) /\ end[k] \in Nat
  BY <1>2
<1>. HIDE DEF end, s
<1>6. ASSUME NEW i \in 0 .. n, NEW j \in 0 .. n, i <= j
      PROVE  Bytes(Part(text, i, j)) = Part(s, end[i], end[j])
  <2>1. i \in Nat /\ j \in Nat /\ j <= Len(text)
    BY <1>2
  <2>2. Bytes(Part(text, i, j)) = Part(b[Len(text)], Len(b[i]), Len(b[j]))
    BY <1>1, <1>6, <2>1, BytesOfAPart
  <2>. QED
    BY <1>5, <2>2 DEF s
<1>7. ASSUME NEW k \in 1 .. n
      PROVE  LET e == Encode(text[k])
             IN  /\ end[k - 1] \in Nat /\ end[k] = end[k - 1] + Len(e) /\ Len(e) \in 1 .. 3
                 /\ \A i \in 1 .. Len(e) : s[end[k - 1] + i] = e[i]
                 /\ text[k] = "newline" => e = <<"newline">>
                 /\ \A i \in 1 .. Len(e) : e[i] = "newline" => text[k] = "newline" /\ i = Len(e)
  <2>. DEFINE e == Encode(text[k])
  <2>1. k \in 0 .. n /\ k - 1 \in 0 .. n /\ text[k] \in Chars
    BY <1>2
  <2>2. /\ Len(b[k - 1]) \in Nat /\ Len(b[k]) = Len(b[k - 1]) + Len(e)
        /\ \A i \in 1 .. Len(e) : b[Len(text)][Len(b[k - 1]) + i] = e[i]
    <3>. HIDE DEF e
    <3>0. BytesUpTo(b, text) /\ k \in 1 .. Len(text)
      BY <1>1
    <3>1. /\ Len(b[k - 1]) \in Nat /\ Len(b[k]) = Len(b[k - 1]) + Len(Encode(text[k]))
          /\ IsAt(Encode(text[k]), Len(b[k - 1]), b[Len(text)])
      BY <3>0, WhereACharacterIs
    <3>. QED
      BY <3>1 DEF e, IsAt
  <2>3. Len(e) \in 1 .. 3
    BY <2>1, Encoded
  <2>4. text[k] = "newline" => e = <<"newline">>
    BY DEF Encode
  <2>5. ASSUME NEW i \in 1 .. Len(e), e[i] = "newline" PROVE text[k] = "newline" /\ i = Len(e)
    <3>1. CASE text[k] = "wide"
      <4>1. e = <<"lead", "continuation", "continuation">>
        BY <3>1 DEF Encode
      <4>. QED
        BY <2>5, <4>1
    <3>2. CASE text[k] # "wide"
      <4>1. e = <<text[k]>>
        BY <3>2 DEF Encode
      <4>. QED
        BY <2>5, <4>1
    <3>. QED
      BY <3>1, <3>2
  <2>. HIDE DEF e
  <2>6. end[k - 1] = Len(b[k - 1]) /\ end[k] = Len(b[k])
    BY <1>5, <2>1
  <2>7. \A i \in 1 .. Len(e) : s[end[k - 1] + i] = e[i]
    BY <2>2, <2>6 DEF s
  <2>8. end[k - 1] \in Nat /\ end[k] = end[k - 1] + Len(e)
    BY <2>2, <2>6
  <2>. QED
    BY <2>3, <2>4, <2>5, <2>7, <2>8 DEF e
<1>8. ASSUME NEW k \in 1 .. n
      PROVE  /\ end[k] <= end[k - 1] + 3
             /\ text[k] = "newline" => end[k] = end[k - 1] + 1 /\ s[end[k]] = "newline"
  <2>. DEFINE e == Encode(text[k])
  <2>1. /\ end[k - 1] \in Nat /\ end[k] = end[k - 1] + Len(e) /\ Len(e) \in 1 .. 3
        /\ \A i \in 1 .. Len(e) : s[end[k - 1] + i] = e[i]
        /\ text[k] = "newline" => e = <<"newline">>
    BY <1>7
  <2>. HIDE DEF e
  <2>2. ASSUME text[k] = "newline" PROVE end[k] = end[k - 1] + 1 /\ s[end[k]] = "newline"
    <3>0. e = <<"newline">>
      BY <2>1, <2>2
    <3>1. Len(e) = 1 /\ e[1] = "newline" /\ 1 \in 1 .. Len(e)
      BY <3>0
    <3>2. s[end[k - 1] + 1] = "newline"
      BY <2>1, <3>1
    <3>. QED
      BY <2>1, <3>1, <3>2
  <2>3. end[k] <= end[k - 1] + 3
    <3>. DEFINE x == end[k - 1]
                y == end[k]
                z == Len(e)
    <3>1. x \in Nat /\ y = x + z /\ z \in 1 .. 3
      BY <2>1, Zenon
    <3>. HIDE DEF x, y, z
    <3>2. y <= x + 3
      BY <3>1
    <3>. QED
      BY <3>2 DEF x, y
  <2>. QED
    BY <2>2, <2>3
<1>9. ASSUME NEW p \in 1 .. Len(s), s[p] = "newline"
      PROVE  \E k \in 1 .. n : text[k] = "newline" /\ end[k] = p
  <2>1. p - 1 \in Nat /\ p - 1 < Len(s)
    BY <1>3
  <2>2. PICK l \in 0 .. n - 1 : end[l] <= p - 1 /\ p - 1 < end[l + 1]
    BY <1>4, <2>1, TheCharacterAt
  <2>. DEFINE k == l + 1
              e == Encode(text[k])
              i == p - end[k - 1]
  <2>3. k \in 1 .. n /\ k - 1 = l /\ k \in 0 .. n /\ l \in 0 .. n
    BY <1>2
  <2>4. end[k - 1] <= p - 1 /\ p - 1 < end[k] /\ end[k - 1] \in Nat /\ end[k] \in Nat
    BY <1>5, <2>2, <2>3
  <2>. HIDE DEF k
  <2>5. /\ end[k - 1] \in Nat /\ end[k] = end[k - 1] + Len(e) /\ Len(e) \in 1 .. 3
        /\ (\A j \in 1 .. Len(e) : s[end[k - 1] + j] = e[j])
        /\ (\A j \in 1 .. Len(e) : e[j] = "newline" => text[k] = "newline" /\ j = Len(e))
    BY <1>7, <2>3
  <2>. HIDE DEF e
  <2>6. i \in 1 .. Len(e) /\ end[k - 1] + i = p
    BY <2>4, <2>5
  <2>. HIDE DEF i
  <2>7. e[i] = "newline"
    BY <1>9, <2>5, <2>6
  <2>8. text[k] = "newline" /\ i = Len(e)
    BY <2>5, <2>6, <2>7
  <2>. QED
    BY <2>3, <2>5, <2>6, <2>8
<1>10. EndsOf(end, text)
  <2>1. CharactersEnd(end, Len(text), Bytes(text))
    BY <1>3, <1>4
  <2>2. \A i, j \in 0 .. Len(text) :
          i <= j => Bytes(Part(text, i, j)) = Part(Bytes(text), end[i], end[j])
    BY <1>3, <1>6
  <2>3. \A k \in 1 .. Len(text) :
          /\ end[k] <= end[k - 1] + 3
          /\ text[k] = "newline" =>
               end[k] = end[k - 1] + 1 /\ Bytes(text)[end[k]] = "newline"
    BY <1>3, <1>8
  <2>4. \A p \in 1 .. Len(Bytes(text)) :
          Bytes(text)[p] = "newline" =>
            \E k \in 1 .. Len(text) : text[k] = "newline" /\ end[k] = p
    BY <1>3, <1>9
  <2>. QED
    BY <2>1, <2>2, <2>3, <2>4 DEF EndsOf
<1>. QED
  BY <1>3, <1>10

(* Characters are in the order of their ends.                              *)
LEMMA EndsOrder ==
  ASSUME NEW end, NEW n, NEW s, CharactersEnd(end, n, s), NEW j \in 0 .. n, NEW k \in 0 .. n
  PROVE  (end[j] = end[k] => j = k) /\ (end[j] < end[k] => j < k)
<1>1. n \in Nat /\ end[j] \in Nat /\ end[k] \in Nat
  BY DEF CharactersEnd
<1>2. j < k => end[j] < end[k]
  BY EndsIncrease
<1>3. k < j => end[k] < end[j]
  BY EndsIncrease
<1>. QED
  BY <1>1, <1>2, <1>3

(* The m lines of a text, and those of its bytes, which end at at.         *)
LinesAgree(m, at, a, end, text) ==
  /\ LinesEnd(at, m, Bytes(text)) /\ LinesEnd(a, m, text)
  /\ \A k \in 0 .. m - 1 : at[k] = end[a[k]]
  /\ \A k \in 1 .. m : at[k] - 1 = end[a[k] - 1]

(* Splitting the bytes is splitting the characters.                        *)
LEMMA LinesOfBytes ==
  ASSUME NEW text \in Seq(Chars), NEW end, EndsOf(end, text), Bytes(text) \in Seq(EncodedBytes)
  PROVE  \E m, at, a : /\ LinesAgree(m, at, a, end, text)
                       /\ Split(Bytes(text)) = LinesOf(Bytes(text), at, m)
<1>. DEFINE n == Len(text)
            s == Bytes(text)
<1>1. PICK m, at : LinesEnd(at, m, s) /\ Split(s) = LinesOf(s, at, m)
  BY SplitIsLines
<1>. DEFINE Is(j, k) == end[j] = at[k] /\ (k # 0 => j \in 1 .. n /\ text[j] = "newline")
            a == [k \in 0 .. m |-> IF k = m THEN n + 1 ELSE CHOOSE j \in 0 .. n : Is(j, k)]
<1>2. /\ m \in Nat \ {0} /\ at \in [0 .. m -> Nat] /\ at[0] = 0 /\ at[m] = Len(s) + 1
      /\ n \in Nat /\ Len(s) \in Nat /\ CharactersEnd(end, n, s)
  BY <1>1 DEF LinesEnd, EndsOf
<1>3. end \in [0 .. n -> Nat] /\ end[0] = 0 /\ end[n] = Len(s)
  BY <1>2 DEF CharactersEnd
<1>4. /\ \A k \in 1 .. n : text[k] = "newline" => end[k] = end[k - 1] + 1 /\ s[end[k]] = "newline"
      /\ \A p \in 1 .. Len(s) :
           s[p] = "newline" => \E k \in 1 .. n : text[k] = "newline" /\ end[k] = p
  BY DEF EndsOf
<1>5. /\ \A k \in 1 .. m : at[k - 1] < at[k]
      /\ \A k \in 1 .. m - 1 : s[at[k]] = "newline"
      /\ \A p \in 1 .. Len(s) : s[p] = "newline" => \E k \in 1 .. m - 1 : at[k] = p
  BY <1>1 DEF LinesEnd
<1>. HIDE DEF s
<1>6. ASSUME NEW k \in 0 .. m - 1 PROVE \E j \in 0 .. n : Is(j, k)
  <2>1. CASE k = 0
    BY <1>2, <1>3, <2>1
  <2>2. CASE k # 0
    <3>1. k \in 1 .. m - 1 /\ k \in 1 .. m /\ k \in 0 .. m /\ k # m /\ 0 < k
      BY <1>2, <2>2
    <3>2. at[k] <= Len(s)
      <4>1. m \in 0 .. m /\ k < m
        BY <1>2, <3>1
      <4>2. at[k] < at[m]
        BY <1>1, <3>1, <4>1, LinesIncrease
      <4>. QED
        BY <1>2, <3>1, <4>2
    <3>3. at[0] < at[k]
      <4>1. 0 \in 0 .. m
        BY <1>2
      <4>. QED
        BY <1>1, <3>1, <4>1, LinesIncrease
    <3>4. at[k] \in 1 .. Len(s)
      BY <1>2, <3>1, <3>2, <3>3
    <3>5. PICK j \in 1 .. n : text[j] = "newline" /\ end[j] = at[k]
      BY <1>4, <1>5, <3>1, <3>4
    <3>. QED
      BY <3>5
  <2>. QED
    BY <2>1, <2>2
<1>7. a[m] = n + 1 /\ a = [k \in 0 .. m |-> a[k]]
  BY <1>2
<1>8. ASSUME NEW k \in 0 .. m - 1 PROVE a[k] \in 0 .. n /\ Is(a[k], k)
  <2>1. a[k] = CHOOSE j \in 0 .. n : Is(j, k)
    BY <1>2, SMTT(20)
  <2>. HIDE DEF a, Is
  <2>. QED
    BY <1>6, <2>1
<1>. HIDE DEF a
<1>9. a[0] = 0
  <2>1. 0 \in 0 .. m - 1 /\ 0 \in 0 .. n
    BY <1>2
  <2>2. end[a[0]] = end[0] /\ a[0] \in 0 .. n
    BY <1>2, <1>3, <1>8, <2>1
  <2>. QED
    BY <1>2, <2>1, <2>2, EndsOrder
<1>10. a \in [0 .. m -> Nat]
  <2>1. ASSUME NEW k \in 0 .. m PROVE a[k] \in Nat
    <3>1. CASE k = m
      BY <1>2, <1>7, <3>1
    <3>2. CASE k # m
      <4>1. k \in 0 .. m - 1
        BY <1>2, <3>2
      <4>. QED
        BY <1>8, <4>1
    <3>. QED
      BY <3>1, <3>2
  <2>. QED
    BY <1>7, <2>1
<1>11. ASSUME NEW k \in 1 .. m PROVE a[k - 1] < a[k]
  <2>1. k - 1 \in 0 .. m - 1
    BY <1>2
  <2>2. a[k - 1] \in 0 .. n /\ end[a[k - 1]] = at[k - 1]
    BY <1>8, <2>1
  <2>3. CASE k = m
    BY <1>2, <1>7, <2>2, <2>3
  <2>4. CASE k # m
    <3>1. k \in 0 .. m - 1
      BY <1>2, <2>4
    <3>2. a[k] \in 0 .. n /\ end[a[k]] = at[k]
      BY <1>8, <3>1
    <3>3. end[a[k - 1]] < end[a[k]]
      BY <1>5, <2>2, <3>2
    <3>. QED
      BY <1>2, <2>2, <3>2, <3>3, EndsOrder, SMTT(20)
  <2>. QED
    BY <2>3, <2>4
<1>12. ASSUME NEW k \in 1 .. m - 1
       PROVE  a[k] \in 1 .. n /\ text[a[k]] = "newline"
  <2>1. k \in 0 .. m - 1 /\ k # 0
    BY <1>2
  <2>. QED
    BY <1>8, <2>1
<1>13. ASSUME NEW p \in 1 .. n, text[p] = "newline" PROVE \E k \in 1 .. m - 1 : a[k] = p
  <2>1. s[end[p]] = "newline"
    BY <1>4, <1>13
  <2>2. p \in 0 .. n /\ 0 \in 0 .. n /\ n \in 0 .. n /\ 0 < p /\ (p = n \/ p < n)
    BY <1>2
  <2>3. end[0] < end[p] /\ (p = n \/ end[p] < end[n])
    BY <1>2, <2>2, EndsIncrease
  <2>4. end[p] \in 1 .. Len(s)
    BY <1>3, <2>2, <2>3
  <2>5. PICK k \in 1 .. m - 1 : at[k] = end[p]
    BY <1>5, <2>1, <2>4
  <2>6. k \in 0 .. m - 1 /\ end[a[k]] = end[p] /\ a[k] \in 0 .. n
    BY <1>8, <2>5
  <2>7. a[k] = p
    BY <1>2, <2>2, <2>6, EndsOrder
  <2>. QED
    BY <2>7
<1>14. LinesEnd(a, m, text)
  BY <1>2, <1>7, <1>9, <1>10, <1>11, <1>12, <1>13 DEF LinesEnd
<1>15. \A k \in 0 .. m - 1 : at[k] = end[a[k]]
  BY <1>8
<1>16. ASSUME NEW k \in 1 .. m PROVE at[k] - 1 = end[a[k] - 1]
  <2>1. CASE k = m
    <3>1. at[k] - 1 = Len(s) /\ a[k] - 1 = n
      BY <1>2, <1>7, <2>1
    <3>. QED
      BY <1>3, <3>1
  <2>2. CASE k # m
    <3>1. k \in 1 .. m - 1 /\ k \in 0 .. m - 1
      BY <1>2, <2>2
    <3>2. a[k] \in 1 .. n /\ text[a[k]] = "newline" /\ at[k] = end[a[k]]
      BY <1>12, <1>15, <3>1
    <3>3. end[a[k]] = end[a[k] - 1] + 1 /\ a[k] - 1 \in 0 .. n
      BY <1>2, <1>4, <3>2, SMTT(20)
    <3>4. end[a[k] - 1] \in Nat
      BY <1>3, <3>3
    <3>. QED
      BY <3>2, <3>3, <3>4
  <2>. QED
    BY <2>1, <2>2
<1>17. LinesAgree(m, at, a, end, text)
  BY <1>1, <1>14, <1>15, <1>16 DEF LinesAgree, s
<1>. QED
  BY <1>1, <1>17 DEF s

(* What is between two places of the bytes that are lines' ends.           *)
LEMMA LinesOfBytesAre ==
  ASSUME NEW text \in Seq(Chars), NEW end, EndsOf(end, text),
         NEW m, NEW at, NEW a, LinesAgree(m, at, a, end, text),
         NEW i \in Nat, NEW j \in Nat, i < j, j <= m
  PROVE  Part(Bytes(text), at[i], at[j] - 1) = Bytes(Part(text, a[i], a[j] - 1))
<1>1. /\ m \in Nat \ {0} /\ i \in 0 .. m - 1 /\ j \in 1 .. m /\ a \in [0 .. m -> Nat]
      /\ i \in 0 .. m /\ j \in 0 .. m /\ Len(text) \in Nat /\ LinesEnd(a, m, text)
      /\ at[i] = end[a[i]] /\ at[j] - 1 = end[a[j] - 1]
  <2>1. /\ m \in Nat \ {0} /\ a \in [0 .. m -> Nat] /\ LinesEnd(a, m, text)
        /\ \A k \in 0 .. m - 1 : at[k] = end[a[k]]
        /\ \A k \in 1 .. m : at[k] - 1 = end[a[k] - 1]
    BY DEF LinesAgree, LinesEnd
  <2>2. i \in 0 .. m - 1 /\ j \in 1 .. m /\ i \in 0 .. m /\ j \in 0 .. m /\ Len(text) \in Nat
    BY <2>1
  <2>. QED
    BY <2>1, <2>2
<1>2. a[i] < a[j]
  BY <1>1, LinesIncrease
<1>3. a[i] \in Nat /\ a[j] \in Nat /\ a[j] - 1 \in Nat /\ a[j] - 1 <= Len(text)
  <2>1. a[j] - 1 \in Nat /\ a[j] - 1 <= Len(text)
    BY <1>1, WhereLinesAre
  <2>. QED
    BY <1>1, <2>1
<1>. DEFINE x == a[i]
            y == a[j] - 1
<1>4. x \in 0 .. Len(text) /\ y \in 0 .. Len(text) /\ x <= y
  BY <1>1, <1>2, <1>3
<1>. HIDE DEF x, y
<1>5. Bytes(Part(text, x, y)) = Part(Bytes(text), end[x], end[y])
  BY <1>4 DEF EndsOf
<1>. QED
  BY <1>1, <1>5 DEF x, y

-----------------------------------------------------------------------------
(* The lines of the file.                                                  *)

(* The newline that ends a text ends its bytes.                            *)
LEMMA TrimsAgree ==
  ASSUME NEW text \in Seq(Chars)
  PROVE  LET t == TrimNewline(text)
         IN  /\ t \in Seq(Chars) /\ t = Part(text, 0, Len(t))
             /\ \/ t = text /\ (text = << >> \/ text[Len(text)] # "newline")
                \/ Len(text) = Len(t) + 1 /\ text[Len(text)] = "newline"
             /\ TrimNewline(Bytes(text)) = Bytes(t)
             /\ (text = << >>) = (Bytes(text) = << >>)
<1>. DEFINE n == Len(text)
            s == Bytes(text)
            t == TrimNewline(text)
<1>1. s \in Seq(EncodedBytes) /\ \E e : EndsOf(e, text)
  BY TextsHaveEnds
<1>2. PICK end : EndsOf(end, text)
  BY <1>1
<1>3. CASE text = << >>
  <2>1. t = << >> /\ Bytes(text) = << >>
    BY <1>3, BytesOfNothing DEF TrimNewline
  <2>2. TrimNewline(Bytes(text)) = << >>
    BY <2>1 DEF TrimNewline
  <2>3. Part(text, 0, Len(t)) = << >>
    <3>1. Len(t) = 0
      BY <2>1
    <3>2. Part(text, 0, 0) = << >>
      BY NoPart
    <3>. QED
      BY <3>1, <3>2
  <2>. QED
    BY <1>3, <2>1, <2>2, <2>3
<1>4. CASE text # << >>
  <2>1. /\ n \in Nat \ {0} /\ CharactersEnd(end, n, s)
        /\ n \in 1 .. n /\ n \in 0 .. n /\ n - 1 \in 0 .. n /\ 0 \in 0 .. n
    <3>1. n \in Nat \ {0}
      BY <1>4
    <3>. QED
      BY <1>2, <3>1 DEF EndsOf
  <2>2. end \in [0 .. n -> Nat] /\ end[0] = 0 /\ end[n] = Len(s)
    BY <2>1 DEF CharactersEnd
  <2>3. end[0] < end[n]
    <3>1. 0 < n
      BY <2>1
    <3>. QED
      BY <2>1, <3>1, EndsIncrease
  <2>4. Len(s) \in Nat \ {0} /\ s # << >>
    <3>1. Len(s) \in Nat \ {0}
      BY <2>1, <2>2, <2>3
    <3>. QED
      BY <3>1
  <2>5. Last(text) = text[n] /\ Last(s) = s[Len(s)]
    BY DEF Last
  <2>6. Front(text) = Part(text, 0, n - 1) /\ Front(s) = Part(s, 0, Len(s) - 1)
    BY DEF Front, Part
  <2>7. CASE text[n] = "newline"
    <3>1. end[n] = end[n - 1] + 1 /\ s[end[n]] = "newline"
      BY <1>2, <2>1, <2>7 DEF EndsOf
    <3>2. t = Part(text, 0, n - 1)
      BY <1>4, <2>5, <2>6, <2>7 DEF TrimNewline
    <3>3. TrimNewline(s) = Part(s, 0, Len(s) - 1)
      BY <2>2, <2>4, <2>5, <2>6, <3>1 DEF TrimNewline
    <3>4. end[n - 1] = Len(s) - 1 /\ end[n - 1] \in Nat
      BY <2>1, <2>2, <3>1
    <3>5. Bytes(Part(text, 0, n - 1)) = Part(s, end[0], end[n - 1])
      <4>. DEFINE l == n - 1
      <4>1. l \in 0 .. n /\ 0 <= l
        BY <2>1
      <4>. HIDE DEF l
      <4>2. Bytes(Part(text, 0, l)) = Part(s, end[0], end[l])
        BY <1>2, <2>1, <4>1, SMTT(20) DEF EndsOf
      <4>. QED
        BY <4>2 DEF l
    <3>6. t \in Seq(Chars) /\ Len(t) = n - 1
      <4>. DEFINE l == n - 1
      <4>1. 0 \in Nat /\ l \in Nat /\ 0 <= l /\ l <= Len(text) /\ l - 0 = l
        BY <2>1
      <4>2. t = Part(text, 0, l)
        BY <3>2
      <4>. HIDE DEF l, t
      <4>3. Part(text, 0, l) \in Seq(Chars) /\ Len(Part(text, 0, l)) = l - 0
        BY <4>1, PartIs
      <4>. QED
        BY <4>1, <4>2, <4>3, Zenon DEF l
    <3>7. TrimNewline(Bytes(text)) = Bytes(t)
      BY <2>2, <3>2, <3>3, <3>4, <3>5
    <3>8. t = Part(text, 0, Len(t)) /\ Len(text) = Len(t) + 1
      BY <2>1, <3>2, <3>6
    <3>. QED
      BY <1>4, <2>4, <2>7, <3>6, <3>7, <3>8
  <2>8. CASE text[n] # "newline"
    <3>1. s[Len(s)] # "newline"
      <4>1. SUFFICES ASSUME s[Len(s)] = "newline" PROVE FALSE
        OBVIOUS
      <4>2. Len(s) \in 1 .. Len(s)
        BY <2>4
      <4>3. PICK k \in 1 .. n : text[k] = "newline" /\ end[k] = Len(s)
        BY <1>2, <4>1, <4>2 DEF EndsOf
      <4>4. k \in 0 .. n /\ end[k] = end[n]
        BY <2>2, <4>3
      <4>5. k = n
        BY <2>1, <4>4, EndsOrder
      <4>. QED
        BY <2>8, <4>3, <4>5
    <3>2. t = text /\ TrimNewline(s) = s
      BY <2>5, <2>8, <3>1 DEF TrimNewline
    <3>3. text = Part(text, 0, Len(text))
      BY WholePart
    <3>. QED
      BY <1>4, <2>4, <2>8, <3>2, <3>3
  <2>. QED
    BY <2>7, <2>8
<1>. QED
  BY <1>3, <1>4

LEMMA EndsOfARange ==
  ASSUME NEW x \in Nat, NEW y \in Nat, x <= y
  PROVE  Min(x .. y) = x /\ Max(x .. y) = y
<1>1. x \in x .. y /\ y \in x .. y
  OBVIOUS
<1>2. Min(x .. y) \in x .. y /\ \A z \in x .. y : Min(x .. y) <= z
  BY <1>1 DEF Min
<1>3. Max(x .. y) \in x .. y /\ \A z \in x .. y : Max(x .. y) >= z
  BY <1>1 DEF Max
<1>4. Min(x .. y) <= x /\ Max(x .. y) >= y
  BY <1>1, <1>2, <1>3
<1>. QED
  BY <1>2, <1>3, <1>4

(* a is where the lines of t, the file less the newline that ends it, end. *)
FileLinesEnd(a, m, t) ==
  /\ t \in Seq(Chars) /\ t = Part(file, 0, Len(t)) /\ LinesEnd(a, m, t)
  /\ \/ t = file /\ file[Len(file)] # "newline"
     \/ Len(file) = Len(t) + 1 /\ file[Len(file)] = "newline"

LEMMA CharsOfT ==
  ASSUME file \in Seq(Chars), NEW a, NEW m, NEW t, FileLinesEnd(a, m, t)
  PROVE  /\ Len(t) \in Nat /\ Len(file) \in Nat /\ Len(t) <= Len(file) /\ Len(file) <= Len(t) + 1
         /\ \A j \in 1 .. Len(t) : t[j] = file[j]
<1>1. t \in Seq(Chars) /\ t = Part(file, 0, Len(t)) /\ Len(t) \in Nat /\ Len(file) \in Nat
  BY DEF FileLinesEnd
<1>2. Len(t) <= Len(file) /\ Len(file) <= Len(t) + 1
  <2>1. CASE t = file
    BY <1>1, <2>1
  <2>2. CASE t # file
    <3>1. Len(file) = Len(t) + 1
      BY <2>2 DEF FileLinesEnd
    <3>. QED
      BY <1>1, <3>1
  <2>. QED
    BY <2>1, <2>2
<1>. DEFINE l == Len(t)
<1>3. \A j \in 1 .. l - 0 : Part(file, 0, l)[j] = file[0 + j]
  <2>1. 0 \in Nat /\ l \in Nat /\ 0 <= l /\ l <= Len(file)
    BY <1>1, <1>2
  <2>. HIDE DEF l
  <2>. QED
    BY <2>1, PartIs
<1>4. ASSUME NEW j \in 1 .. l PROVE t[j] = file[j]
  <2>1. j \in 1 .. l - 0 /\ 0 + j = j
    BY <1>1
  <2>2. Part(file, 0, l)[j] = file[j]
    BY <1>3, <2>1
  <2>. QED
    BY <1>1, <2>2
<1>. QED
  BY <1>1, <1>2, <1>4

LEMMA LineOfAPlace ==
  ASSUME file \in Seq(Chars), NEW a, NEW m, NEW t, FileLinesEnd(a, m, t),
         NEW k \in 1 .. m, NEW p \in 1 .. Len(file), a[k - 1] < p, p <= a[k]
  PROVE  LineOf(p) = k
<1>1. /\ Len(t) \in Nat /\ Len(file) \in Nat /\ Len(t) <= Len(file) /\ Len(file) <= Len(t) + 1
      /\ \A j \in 1 .. Len(t) : t[j] = file[j]
  BY CharsOfT
<1>2. LinesEnd(a, m, t) /\ m \in Nat
  BY DEF FileLinesEnd, LinesEnd
<1>3. p \in Nat
  OBVIOUS
<1>4. Cardinality({q \in 1 .. p - 1 : t[q] = "newline"}) = k - 1
  BY <1>1, <1>2, <1>3, NewlinesBefore
<1>5. {q \in 1 .. p - 1 : t[q] = "newline"} = {q \in 1 .. p - 1 : file[q] = "newline"}
  <2>1. \A q \in 1 .. p - 1 : q \in 1 .. Len(t)
    BY <1>1
  <2>. QED
    BY <1>1, <2>1
<1>6. LineOf(p) = 1 + (k - 1)
  BY <1>4, <1>5 DEF LineOf
<1>. QED
  BY <1>2, <1>6

LEMMA LinesAreAllCounted ==
  ASSUME file \in Seq(Chars), file # << >>, NEW a, NEW m, NEW t, FileLinesEnd(a, m, t)
  PROVE  LineCount = m
<1>. DEFINE n == Len(file)
<1>1. /\ Len(t) \in Nat /\ n \in Nat \ {0} /\ Len(t) <= n /\ n <= Len(t) + 1
  <2>1. n \in Nat \ {0}
    OBVIOUS
  <2>. QED
    BY <2>1, CharsOfT
<1>2. /\ m \in Nat \ {0} /\ a \in [0 .. m -> Nat] /\ a[0] = 0 /\ a[m] = Len(t) + 1
      /\ a[m - 1] < a[m] /\ \A k \in 1 .. m - 1 : t[a[k]] = "newline"
  <2>1. /\ m \in Nat \ {0} /\ a \in [0 .. m -> Nat] /\ a[0] = 0 /\ a[m] = Len(t) + 1
        /\ \A k \in 1 .. m : a[k - 1] < a[k]
        /\ \A k \in 1 .. m - 1 : t[a[k]] = "newline"
    BY DEF FileLinesEnd, LinesEnd
  <2>2. m \in 1 .. m
    BY <2>1
  <2>. QED
    BY <2>1, <2>2
<1>3. a[m - 1] < n
  <2>0. m - 1 \in 0 .. m
    BY <1>2
  <2>1. a[m - 1] \in Nat
    BY <1>2, <2>0
  <2>2. CASE t = file /\ file[n] # "newline"
    <3>1. a[m - 1] # n
      <4>1. CASE m = 1
        BY <1>1, <1>2, <4>1
      <4>2. CASE m # 1
        <5>1. m - 1 \in 1 .. m - 1
          BY <1>2, <4>2
        <5>. QED
          BY <1>2, <2>2, <5>1
      <4>. QED
        BY <4>1, <4>2
    <3>. QED
      BY <1>1, <1>2, <2>1, <2>2, <3>1
  <2>3. CASE n = Len(t) + 1
    BY <1>2, <2>3
  <2>. QED
    BY <2>2, <2>3 DEF FileLinesEnd
<1>4. m \in 1 .. m /\ n \in 1 .. n /\ n <= a[m]
  BY <1>1, <1>2
<1>5. LineOf(n) = m
  BY <1>3, <1>4, LineOfAPlace
<1>. QED
  BY <1>5 DEF LineCount

(* The characters LineOf puts in a line are the line.                      *)
LEMMA CharsAreOfLines ==
  ASSUME file \in Seq(Chars), NEW a, NEW m, NEW t, FileLinesEnd(a, m, t), NEW k \in 1 .. m
  PROVE  CharsOfLine(k) = Part(t, a[k - 1], a[k] - 1)
<1>. DEFINE n == Len(file)
            x == a[k - 1]
            y == a[k] - 1
            places == {j \in DOMAIN file : file[j] # "newline" /\ LineOf(j) = k}
<1>1. /\ Len(t) \in Nat /\ n \in Nat /\ Len(t) <= n /\ n <= Len(t) + 1
      /\ \A j \in 1 .. Len(t) : t[j] = file[j]
  BY CharsOfT
<1>2. /\ m \in Nat \ {0} /\ a \in [0 .. m -> Nat] /\ a[m] = Len(t) + 1 /\ LinesEnd(a, m, t)
      /\ \A i \in 1 .. m - 1 : t[a[i]] = "newline"
      /\ \A p \in 1 .. Len(t) : t[p] = "newline" => \E i \in 1 .. m - 1 : a[i] = p
  BY DEF FileLinesEnd, LinesEnd
<1>3. x \in Nat /\ y \in Nat /\ x <= y /\ y <= Len(t) /\ a[k] = y + 1
  <2>1. /\ a[k - 1] \in Nat /\ a[k] \in Nat /\ a[k] - 1 \in Nat
        /\ a[k - 1] <= a[k] - 1 /\ a[k] - 1 <= Len(t)
    BY <1>1, <1>2, WhereLinesAre
  <2>. QED
    BY <2>1
<1>4. ASSUME NEW j \in x + 1 .. y PROVE j \in 1 .. n /\ file[j] # "newline" /\ LineOf(j) = k
  <2>1. j \in 1 .. n /\ j \in 1 .. Len(t) /\ x < j /\ j <= a[k]
    BY <1>1, <1>3
  <2>2. LineOf(j) = k
    BY <2>1, LineOfAPlace
  <2>3. ASSUME t[j] = "newline" PROVE FALSE
    <3>1. PICK i \in 1 .. m - 1 : a[i] = j
      BY <1>2, <2>1, <2>3
    <3>2. i \in 0 .. m /\ k \in 0 .. m /\ k - 1 \in 0 .. m
      BY <1>2
    <3>3. i < k \/ k <= i
      BY <1>2
    <3>4. CASE i < k
      <4>1. i = k - 1 \/ i < k - 1
        BY <1>2, <3>4
      <4>2. i < k - 1 => a[i] < a[k - 1]
        BY <1>2, <3>2, LinesIncrease
      <4>3. a[i] <= x
        BY <1>3, <3>1, <4>1, <4>2
      <4>. QED
        BY <1>3, <2>1, <3>1, <4>3
    <3>5. CASE k <= i
      <4>1. i = k \/ k < i
        BY <1>2, <3>5
      <4>2. k < i => a[k] < a[i]
        BY <1>2, <3>2, LinesIncrease
      <4>. QED
        BY <1>3, <3>1, <4>1, <4>2
    <3>. QED
      BY <3>3, <3>4, <3>5
  <2>. QED
    BY <1>1, <2>1, <2>2, <2>3
<1>5. ASSUME NEW j \in 1 .. n, file[j] # "newline", LineOf(j) = k PROVE j \in x + 1 .. y
  <2>1. j \in 1 .. Len(t) + 1
    BY <1>1
  <2>2. PICK i \in 1 .. m : a[i - 1] < j /\ j <= a[i]
    BY <1>1, <1>2, <2>1, TheLineAt
  <2>3. LineOf(j) = i
    BY <2>2, LineOfAPlace
  <2>4. x < j /\ j <= y + 1
    BY <1>3, <1>5, <2>2, <2>3
  <2>5. j # y + 1
    <3>1. CASE k # m
      <4>1. k \in 1 .. m - 1
        BY <1>2, <3>1
      <4>2. t[a[k]] = "newline"
        BY <1>2, <4>1
      <4>3. j = y + 1 => j = a[k] /\ j \in 1 .. Len(t)
        <5>1. k \in 0 .. m /\ m \in 0 .. m /\ k < m
          BY <1>2, <4>1
        <5>2. a[k] < a[m]
          BY <1>2, <5>1, LinesIncrease
        <5>. QED
          BY <1>1, <1>2, <1>3, <5>2
      <4>. QED
        BY <1>1, <1>5, <4>2, <4>3
    <3>2. CASE k = m
      <4>1. j = y + 1 => j = n /\ n = Len(t) + 1
        BY <1>1, <1>2, <1>3, <3>2
      <4>2. n = Len(t) + 1 => file[n] = "newline"
        <5>1. n = Len(t) + 1 => t # file
          BY <1>1
        <5>. QED
          BY <5>1 DEF FileLinesEnd
      <4>. QED
        BY <1>5, <4>1, <4>2
    <3>. QED
      BY <3>1, <3>2
  <2>. QED
    BY <1>3, <2>4, <2>5
<1>6. places = x + 1 .. y
  <2>1. DOMAIN file = 1 .. n
    OBVIOUS
  <2>2. x + 1 .. y \subseteq 1 .. n
    BY <1>4
  <2>. HIDE DEF x, y, n
  <2>. QED
    BY <1>4, <1>5, <2>1, <2>2
<1>7. CharsOfLine(k) = IF places = {} THEN << >> ELSE SubSeq(file, Min(places), Max(places))
  BY DEF CharsOfLine
<1>8. Part(t, x, y) = Part(file, x, y)
  <2>. DEFINE l == Len(t)
  <2>1. t = Part(file, 0, l)
    BY DEF FileLinesEnd
  <2>2. /\ 0 \in Nat /\ l \in Nat /\ 0 <= l /\ l <= Len(file) /\ y <= l - 0
        /\ 0 + x = x /\ 0 + y = y
    BY <1>1, <1>3
  <2>. HIDE DEF l, x, y
  <2>3. Part(Part(file, 0, l), x, y) = Part(file, 0 + x, 0 + y)
    BY <1>3, <2>2, PartOfPart
  <2>. QED
    BY <2>1, <2>2, <2>3
<1>. HIDE DEF places
<1>9. CASE x = y
  <2>1. places = {}
    BY <1>3, <1>6, <1>9
  <2>2. Part(t, x, y) = << >>
    BY <1>3, <1>9, NoPart
  <2>. QED
    BY <1>7, <2>1, <2>2
<1>10. CASE x # y
  <2>1. x + 1 \in Nat /\ x + 1 <= y /\ x + 1 \in x + 1 .. y
    BY <1>3, <1>10
  <2>2. Min(x + 1 .. y) = x + 1 /\ Max(x + 1 .. y) = y
    BY <1>3, <2>1, EndsOfARange
  <2>3. places # {}
    BY <1>6, <2>1
  <2>. QED
    BY <1>6, <1>7, <1>8, <2>2, <2>3 DEF Part
<1>. QED
  BY <1>9, <1>10

(* What FileLines gives of the bytes is the lines of the characters.       *)
LEMMA FileLinesAreTrue ==
  ASSUME file \in Seq(Chars)
  PROVE  LineCount \in Nat /\ FileLines(Bytes(file)) = TrueLines(1, LineCount)
<1>. DEFINE t == TrimNewline(file)
<1>1. /\ t \in Seq(Chars) /\ t = Part(file, 0, Len(t))
      /\ \/ t = file /\ (file = << >> \/ file[Len(file)] # "newline")
         \/ Len(file) = Len(t) + 1 /\ file[Len(file)] = "newline"
      /\ TrimNewline(Bytes(file)) = Bytes(t)
      /\ (file = << >>) = (Bytes(file) = << >>)
  BY TrimsAgree
<1>2. CASE file = << >>
  <2>1. LineCount = 0 /\ FileLines(Bytes(file)) = << >>
    BY <1>1, <1>2 DEF LineCount, FileLines
  <2>2. TrueLines(1, 0) = << >>
    BY DEF TrueLines
  <2>. QED
    BY <2>1, <2>2
<1>3. CASE file # << >>
  <2>1. Bytes(t) \in Seq(EncodedBytes) /\ \E e : EndsOf(e, t)
    BY <1>1, TextsHaveEnds
  <2>2. PICK end : EndsOf(end, t)
    BY <2>1
  <2>3. PICK m, at, a : /\ LinesAgree(m, at, a, end, t)
                        /\ Split(Bytes(t)) = LinesOf(Bytes(t), at, m)
    BY <1>1, <2>1, <2>2, LinesOfBytes
  <2>4. LinesEnd(a, m, t) /\ m \in Nat \ {0}
    BY <2>3 DEF LinesAgree, LinesEnd
  <2>5. FileLinesEnd(a, m, t)
    BY <1>1, <1>3, <2>4 DEF FileLinesEnd
  <2>. HIDE DEF t
  <2>6. LineCount = m
    BY <1>3, <2>5, LinesAreAllCounted
  <2>7. FileLines(Bytes(file)) = LinesOf(Bytes(t), at, m)
    BY <1>1, <1>3, <2>3 DEF FileLines
  <2>8. ASSUME NEW k \in 1 .. m
        PROVE  Part(Bytes(t), at[k - 1], at[k] - 1) = Bytes(CharsOfLine(k))
    <3>. DEFINE i == k - 1
    <3>1. i \in Nat /\ k \in Nat /\ i < k /\ k <= m
      BY <2>4
    <3>. HIDE DEF i
    <3>2. Part(Bytes(t), at[i], at[k] - 1) = Bytes(Part(t, a[i], a[k] - 1))
      BY <1>1, <2>2, <2>3, <3>1, LinesOfBytesAre
    <3>3. CharsOfLine(k) = Part(t, a[k - 1], a[k] - 1)
      BY <2>5, CharsAreOfLines
    <3>. QED
      BY <3>2, <3>3 DEF i
  <2>9. LinesOf(Bytes(t), at, m) = [k \in 1 .. m |-> Bytes(CharsOfLine(k))]
    BY <2>8 DEF LinesOf
  <2>10. TrueLines(1, m) = [k \in 1 .. m |-> Bytes(CharsOfLine(k))]
    <3>1. m - 1 + 1 = m /\ \A k \in 1 .. m : 1 + k - 1 = k
      BY <2>4
    <3>. QED
      BY <3>1 DEF TrueLines
  <2>. QED
    BY <2>4, <2>6, <2>7, <2>9, <2>10
<1>. QED
  BY <1>2, <1>3

AnyLine == {Bytes(CharsOfLine(k)) : k \in Nat}

LEMMA TrueLinesAre ==
  ASSUME NEW x \in Nat, NEW y \in Nat, x <= y + 1
  PROVE  /\ TrueLines(x, y) \in Seq(AnyLine) /\ Len(TrueLines(x, y)) = y - x + 1
         /\ \A k \in 1 .. y - x + 1 : TrueLines(x, y)[k] = Bytes(CharsOfLine(x + k - 1))
<1>. DEFINE l == TrueLines(x, y)
<1>1. DOMAIN l = 1 .. y - x + 1 /\ y - x + 1 \in Nat
  BY DEF TrueLines
<1>2. \A k \in 1 .. y - x + 1 : l[k] = Bytes(CharsOfLine(x + k - 1))
  BY DEF TrueLines
<1>. HIDE DEF l
<1>3. Len(l) = y - x + 1
  BY <1>1
<1>4. l \in Seq(AnyLine)
  <2>1. \A k \in 1 .. y - x + 1 : x + k - 1 \in Nat
    OBVIOUS
  <2>2. \A k \in 1 .. y - x + 1 : l[k] \in AnyLine
    BY <1>2, <2>1 DEF AnyLine
  <2>3. l = [k \in 1 .. y - x + 1 |-> l[k]]
    BY DEF l, TrueLines
  <2>. QED
    BY <1>1, <2>2, <2>3
<1>. QED
  BY <1>2, <1>3, <1>4 DEF l

(* Some of the lines.                                                      *)
LEMMA PartOfTrueLines ==
  ASSUME NEW N \in Nat, NEW i \in Nat, NEW j \in Nat, i <= j, j <= N
  PROVE  Part(TrueLines(1, N), i, j) = TrueLines(i + 1, j)
<1>. DEFINE l == TrueLines(1, N)
            r == TrueLines(i + 1, j)
<1>1. Len(l) = N /\ \A k \in 1 .. N : l[k] = Bytes(CharsOfLine(k))
  <2>1. 1 \in Nat /\ 1 <= N + 1 /\ N - 1 + 1 = N /\ \A k \in 1 .. N : 1 + k - 1 = k
    OBVIOUS
  <2>2. /\ Len(l) = N - 1 + 1
        /\ \A k \in 1 .. N - 1 + 1 : l[k] = Bytes(CharsOfLine(1 + k - 1))
    BY <2>1, TrueLinesAre
  <2>. HIDE DEF l
  <2>. QED
    BY <2>1, <2>2
<1>2. r = [k \in 1 .. j - i |-> Bytes(CharsOfLine(i + k))]
  <2>1. j - (i + 1) + 1 = j - i /\ \A k \in 1 .. j - i : (i + 1) + k - 1 = i + k
    OBVIOUS
  <2>. QED
    BY <2>1 DEF TrueLines
<1>. HIDE DEF l
<1>3. Part(l, i, j) = [k \in 1 .. j - i |-> l[i + k]]
  <2>1. j - (i + 1) + 1 = j - i /\ \A k \in 1 .. j - i : (i + 1) + k - 1 = i + k
    OBVIOUS
  <2>2. SubSeq(l, i + 1, j) = [k \in 1 .. j - (i + 1) + 1 |-> l[(i + 1) + k - 1]]
    OBVIOUS
  <2>. QED
    BY <2>1, <2>2 DEF Part
<1>4. \A k \in 1 .. j - i : l[i + k] = Bytes(CharsOfLine(i + k))
  <2>1. \A k \in 1 .. j - i : i + k \in 1 .. N
    OBVIOUS
  <2>. QED
    BY <1>1, <2>1
<1>. QED
  BY <1>2, <1>3, <1>4 DEF l

(* Lines, and those that follow them.                                      *)
LEMMA TrueLinesMeet ==
  ASSUME NEW x \in Nat, NEW y \in Nat, NEW z \in Nat, x <= y + 1, y <= z
  PROVE  TrueLines(x, y) \o TrueLines(y + 1, z) = TrueLines(x, z)
<1>. DEFINE p == TrueLines(x, y)
            q == TrueLines(y + 1, z)
            r == TrueLines(x, z)
<1>1. /\ p \in Seq(AnyLine) /\ Len(p) = y - x + 1
      /\ \A k \in 1 .. y - x + 1 : p[k] = Bytes(CharsOfLine(x + k - 1))
  BY TrueLinesAre
<1>2. /\ q \in Seq(AnyLine) /\ Len(q) = z - y
      /\ \A k \in 1 .. z - y : q[k] = Bytes(CharsOfLine(y + k))
  <2>1. /\ z - (y + 1) + 1 = z - y /\ \A k \in 1 .. z - y : (y + 1) + k - 1 = y + k
        /\ y + 1 \in Nat /\ y + 1 <= z + 1
    OBVIOUS
  <2>2. /\ q \in Seq(AnyLine) /\ Len(q) = z - (y + 1) + 1
        /\ \A k \in 1 .. z - (y + 1) + 1 : q[k] = Bytes(CharsOfLine((y + 1) + k - 1))
    BY <2>1, TrueLinesAre
  <2>. HIDE DEF q
  <2>. QED
    BY <2>1, <2>2
<1>. HIDE DEF p, q
<1>4. /\ p \o q \in Seq(AnyLine) /\ Len(p \o q) = Len(p) + Len(q)
      /\ \A k \in 1 .. Len(p) + Len(q) :
           (p \o q)[k] = IF k <= Len(p) THEN p[k] ELSE q[k - Len(p)]
  BY <1>1, <1>2, ConcatProperties
<1>5. Len(p) + Len(q) = z - x + 1
  BY <1>1, <1>2
<1>6. ASSUME NEW k \in 1 .. z - x + 1
      PROVE  (IF k <= Len(p) THEN p[k] ELSE q[k - Len(p)]) = Bytes(CharsOfLine(x + k - 1))
  <2>1. CASE k <= Len(p)
    BY <1>1, <2>1
  <2>2. CASE ~ (k <= Len(p))
    <3>1. k - Len(p) \in 1 .. z - y /\ y + (k - Len(p)) = x + k - 1
      BY <1>1, <1>2, <1>5, <2>2
    <3>2. q[k - Len(p)] = Bytes(CharsOfLine(y + (k - Len(p))))
      BY <1>2, <3>1
    <3>. QED
      BY <2>2, <3>1, <3>2
  <2>. QED
    BY <2>1, <2>2
<1>7. /\ r \in Seq(AnyLine) /\ Len(r) = z - x + 1
      /\ \A k \in 1 .. z - x + 1 : r[k] = Bytes(CharsOfLine(x + k - 1))
  <2>1. x <= z + 1
    OBVIOUS
  <2>. QED
    BY <2>1, TrueLinesAre
<1>. DEFINE both == p \o q
<1>8. /\ both \in Seq(AnyLine) /\ Len(both) = Len(r)
      /\ \A k \in 1 .. Len(both) : both[k] = r[k]
  BY <1>4, <1>5, <1>6, <1>7
<1>. HIDE DEF both, r
<1>9. both = r
  BY <1>7, <1>8, SeqEqual
<1>. QED
  BY <1>9 DEF both, p, q, r

-----------------------------------------------------------------------------
(* The output of a command.                                                *)

(* The runes of the bytes of n characters begin where the n do.            *)
LEMMA RunesBegin ==
  ASSUME NEW end, NEW n, NEW s, CharactersEnd(end, n, s), Len(s) \in Nat,
         NEW p \in 1 .. Len(s), RuneStart(s[p])
  PROVE  \E k \in 1 .. n : p = end[k - 1] + 1
<1>1. p - 1 \in Nat /\ p - 1 < Len(s)
  OBVIOUS
<1>2. PICK l \in 0 .. n - 1 : end[l] <= p - 1 /\ p - 1 < end[l + 1]
  BY <1>1, TheCharacterAt
<1>3. n \in Nat /\ end \in [0 .. n -> Nat]
  BY DEF CharactersEnd
<1>4. l + 1 \in 1 .. n /\ (l + 1) - 1 = l /\ l \in 0 .. n /\ l + 1 \in 0 .. n
  BY <1>3
<1>5. \A q \in end[(l + 1) - 1] + 2 .. end[l + 1] : ~RuneStart(s[q])
  BY <1>4 DEF CharactersEnd
<1>6. p \notin end[l] + 2 .. end[l + 1]
  BY <1>4, <1>5
<1>7. end[l] \in Nat /\ end[l + 1] \in Nat
  BY <1>3, <1>4
<1>8. p = end[l] + 1
  BY <1>2, <1>6, <1>7
<1>. QED
  BY <1>4, <1>8

LEMMA RunesAreCharacters ==
  ASSUME NEW end, NEW n, NEW s, CharactersEnd(end, n, s), Len(s) \in Nat, DOMAIN s = 1 .. Len(s)
  PROVE  RuneCount(s) = n
<1>. DEFINE T == {j \in DOMAIN s : RuneStart(s[j])}
            f == [k \in 1 .. n |-> end[k - 1] + 1]
<1>1. /\ n \in Nat /\ end \in [0 .. n -> Nat] /\ end[n] = Len(s)
      /\ \A k \in 1 .. n : end[k - 1] < end[k] /\ RuneStart(s[end[k - 1] + 1])
  BY DEF CharactersEnd
<1>2. ASSUME NEW k \in 1 .. n PROVE end[k - 1] + 1 \in T
  <2>1. k - 1 \in 0 .. n /\ n \in 0 .. n /\ k - 1 < n
    BY <1>1
  <2>2. end[k - 1] < end[n]
    BY <2>1, EndsIncrease
  <2>3. end[k - 1] + 1 \in 1 .. Len(s)
    BY <1>1, <2>1, <2>2
  <2>. QED
    BY <1>1, <2>3
<1>3. f \in [1 .. n -> T]
  BY <1>2
<1>4. \A k \in 1 .. n : f[k] = end[k - 1] + 1
  OBVIOUS
<1>. HIDE DEF f
<1>5. \A p \in T : \E k \in 1 .. n : f[k] = p
  BY <1>4, RunesBegin
<1>. HIDE DEF T
<1>6. ASSUME NEW i \in 1 .. n, NEW j \in 1 .. n, i < j PROVE f[i] # f[j]
  <2>1. i - 1 \in 0 .. n /\ j - 1 \in 0 .. n /\ i - 1 < j - 1
    BY <1>1, <1>6
  <2>2. end[i - 1] < end[j - 1] /\ end[i - 1] \in Nat /\ end[j - 1] \in Nat
    BY <1>1, <2>1, EndsIncrease
  <2>. QED
    BY <1>4, <2>2
<1>7. Cardinality(T) = n
  BY <1>1, <1>3, <1>5, <1>6, CountedBy
<1>. QED
  BY <1>7 DEF RuneCount, T

LEMMA RunesOfAText ==
  ASSUME NEW text \in Seq(Chars)
  PROVE  RuneCount(Bytes(text)) = Len(text)
<1>1. Bytes(text) \in Seq(EncodedBytes) /\ \E end : EndsOf(end, text)
  BY TextsHaveEnds
<1>2. PICK end : EndsOf(end, text)
  BY <1>1
<1>3. /\ CharactersEnd(end, Len(text), Bytes(text)) /\ Len(Bytes(text)) \in Nat
      /\ DOMAIN Bytes(text) = 1 .. Len(Bytes(text))
  BY <1>1, <1>2 DEF EndsOf
<1>. QED
  BY <1>3, RunesAreCharacters

(* The rune after the first k begins where the k-th character ends.        *)
LEMMA OffsetsAreEnds ==
  ASSUME NEW text \in Seq(Chars), NEW end, EndsOf(end, text), NEW k \in 0 .. Len(text) - 1
  PROVE  OffsetOfRune(Bytes(text), k) = end[k] + 1
<1>. DEFINE n == Len(text)
            s == Bytes(text)
            Is(j) == RuneStart(s[j]) /\ RuneCount(SubSeq(s, 1, j - 1)) = k
<1>1. /\ s \in Seq(EncodedBytes) /\ Len(s) \in Nat /\ DOMAIN s = 1 .. Len(s) /\ n \in Nat
      /\ CharactersEnd(end, n, s)
  <2>1. s \in Seq(EncodedBytes)
    BY TextsHaveEnds
  <2>. QED
    BY <2>1 DEF EndsOf
<1>2. /\ end \in [0 .. n -> Nat] /\ end[0] = 0 /\ end[n] = Len(s)
      /\ \A i \in 1 .. n : RuneStart(s[end[i - 1] + 1])
  BY <1>1 DEF CharactersEnd
<1>3. ASSUME NEW i \in 0 .. n PROVE RuneCount(SubSeq(s, 1, end[i])) = i
  <2>1. 0 \in 0 .. n /\ 0 <= i /\ i <= Len(text) /\ i \in Nat /\ 0 \in Nat
    BY <1>1
  <2>2. Bytes(Part(text, 0, i)) = Part(s, end[0], end[i])
    BY <2>1 DEF EndsOf
  <2>3. Part(text, 0, i) \in Seq(Chars) /\ Len(Part(text, 0, i)) = i - 0
    BY <2>1, PartIs
  <2>4. RuneCount(Bytes(Part(text, 0, i))) = i - 0
    BY <2>3, RunesOfAText
  <2>5. end[0] + 1 = 1 /\ i - 0 = i
    BY <1>2, <2>1
  <2>6. Part(s, end[0], end[i]) = SubSeq(s, 1, end[i])
    BY <2>5 DEF Part
  <2>. QED
    BY <2>2, <2>4, <2>5, <2>6
<1>. HIDE DEF s
<1>4. end[k] + 1 \in DOMAIN s /\ Is(end[k] + 1)
  <2>1. k \in 0 .. n /\ n \in 0 .. n /\ k < n /\ k + 1 \in 1 .. n /\ (k + 1) - 1 = k
    BY <1>1
  <2>2. end[k] < end[n]
    BY <1>1, <2>1, EndsIncrease
  <2>3. end[k] \in Nat /\ end[k] + 1 \in 1 .. Len(s) /\ (end[k] + 1) - 1 = end[k]
    BY <1>1, <1>2, <2>1, <2>2
  <2>4. RuneStart(s[end[k] + 1])
    BY <1>2, <2>1
  <2>. QED
    BY <1>1, <1>3, <2>1, <2>3, <2>4
<1>5. ASSUME NEW j \in DOMAIN s, Is(j) PROVE j = end[k] + 1
  <2>1. j \in 1 .. Len(s)
    BY <1>1
  <2>2. PICK i \in 1 .. n : j = end[i - 1] + 1
    BY <1>1, <1>5, <2>1, RunesBegin
  <2>3. i - 1 \in 0 .. n
    BY <1>1
  <2>4. j - 1 = end[i - 1]
    <3>1. end[i - 1] \in Nat
      BY <1>2, <2>3
    <3>. QED
      BY <2>2, <3>1
  <2>5. i - 1 = k
    BY <1>3, <1>5, <2>3, <2>4
  <2>. QED
    BY <2>2, <2>5
<1>6. OffsetOfRune(s, k) = CHOOSE j \in DOMAIN s : Is(j)
  BY DEF OffsetOfRune
<1>. HIDE DEF Is
<1>7. OffsetOfRune(s, k) = end[k] + 1
  BY <1>4, <1>5, <1>6
<1>. QED
  BY <1>7 DEF s

(* Cuts of a command's output fall between characters.                     *)
LEMMA CharacterCuts ==
  ASSUME NEW text \in Seq(Chars), NEW k \in Nat, k < Len(text)
  PROVE  /\ headCharacters(Bytes(text), k) = Bytes(Part(text, 0, k))
         /\ k # 0 => tailCharacters(Bytes(text), k) = Bytes(Part(text, Len(text) - k, Len(text)))
<1>. DEFINE n == Len(text)
            s == Bytes(text)
<1>1. s \in Seq(EncodedBytes) /\ \E end : EndsOf(end, text)
  BY TextsHaveEnds
<1>2. PICK end : EndsOf(end, text)
  BY <1>1
<1>3. n \in Nat /\ Len(s) \in Nat /\ CharactersEnd(end, n, s)
  BY <1>1, <1>2 DEF EndsOf
<1>4. end \in [0 .. n -> Nat] /\ end[0] = 0 /\ end[n] = Len(s)
  BY <1>3 DEF CharactersEnd
<1>5. RuneCount(s) = n /\ ~ (n <= k)
  BY <1>3, RunesOfAText
<1>6. headCharacters(s, k) = Bytes(Part(text, 0, k))
  <2>1. k \in 0 .. n - 1 /\ k \in 0 .. n /\ 0 \in 0 .. n /\ 0 <= k
    BY <1>3
  <2>2. OffsetOfRune(s, k) = end[k] + 1
    BY <1>2, <2>1, OffsetsAreEnds
  <2>3. Bytes(Part(text, 0, k)) = Part(s, end[0], end[k])
    BY <1>2, <2>1 DEF EndsOf
  <2>4. end[0] + 1 = 1 /\ (end[k] + 1) - 1 = end[k]
    BY <1>4, <2>1
  <2>5. headCharacters(s, k) = FirstOf(s, (end[k] + 1) - 1)
    BY <1>5, <2>2 DEF headCharacters
  <2>. QED
    BY <2>3, <2>4, <2>5 DEF FirstOf, Part
<1>7. ASSUME k # 0 PROVE tailCharacters(s, k) = Bytes(Part(text, n - k, n))
  <2>. DEFINE l == n - k
  <2>1. l \in 0 .. n - 1 /\ l \in 0 .. n /\ n \in 0 .. n /\ l <= n
    BY <1>3, <1>7
  <2>2. tailCharacters(s, k) = SubSeq(s, OffsetOfRune(s, l), Len(s))
    BY <1>5 DEF tailCharacters
  <2>. HIDE DEF l
  <2>3. OffsetOfRune(s, l) = end[l] + 1
    BY <1>2, <2>1, OffsetsAreEnds
  <2>4. Bytes(Part(text, l, n)) = Part(s, end[l], end[n])
    BY <1>2, <2>1 DEF EndsOf
  <2>5. tailCharacters(s, k) = Bytes(Part(text, l, n))
    BY <1>4, <2>2, <2>3, <2>4 DEF Part
  <2>. QED
    BY <2>5 DEF l
<1>. QED
  BY <1>6, <1>7

LEMMA PartsArePrefixes ==
  ASSUME NEW S, NEW text \in Seq(S), NEW k \in 0 .. Len(text)
  PROVE  Part(text, 0, k) \in Prefixes(text) /\ Part(text, k, Len(text)) \in Suffixes(text)
<1>1. Len(text) \in Nat /\ 0 + 1 = 1
  OBVIOUS
<1>2. Part(text, 0, k) \in Prefixes(text)
  BY <1>1 DEF Part, Prefixes
<1>3. CASE k = Len(text)
  <2>1. Part(text, k, Len(text)) = << >>
    BY <1>1, <1>3, NoPart
  <2>. QED
    BY <1>2, <2>1 DEF Suffixes
<1>4. CASE k # Len(text)
  <2>1. k + 1 \in 1 .. Len(text)
    BY <1>1, <1>4
  <2>. QED
    BY <1>2, <2>1 DEF Part, Suffixes
<1>. QED
  BY <1>3, <1>4

(* A beginning and an end of the file, as gives says of them.              *)
OutputIs(gives, head, tail) ==
  /\ gives.head = Bytes(head) /\ gives.tail = Bytes(tail)
  /\ Len(head) + Len(tail) <= Len(file)
  /\ CASE gives.says = "nothing" -> head = file
       [] gives.says = "characters omitted" -> Len(head) + gives.omitted + Len(tail) = Len(file)
       [] gives.says = "lines omitted" ->
            LinesIn(head) + gives.omitted + LinesIn(tail) = LinesIn(file)

(* h lines from the beginning of the output and l from its end.            *)
LEMMA LinesAddUp ==
  ASSUME file \in Seq(Chars), NEW h \in Nat \ {0}, NEW l \in Nat \ {0}
  PROVE  LET lines == Split(Bytes(file))
         IN  /\ Len(lines) \in Nat
             /\ h + l < Len(lines) =>
                  \E head \in Prefixes(file), tail \in Suffixes(file) :
                    /\ Join(FirstOf(lines, h)) = Bytes(head) /\ Join(LastOf(lines, l)) = Bytes(tail)
                    /\ Len(head) + Len(tail) <= Len(file)
                    /\ LinesIn(head) = h /\ LinesIn(tail) = l /\ LinesIn(file) = Len(lines)
<1>. DEFINE s == Bytes(file)
            lines == Split(s)
            n == Len(file)
<1>1. s \in Seq(EncodedBytes) /\ n \in Nat /\ \E end : EndsOf(end, file)
  BY TextsHaveEnds
<1>2. PICK end : EndsOf(end, file)
  BY <1>1
<1>3. PICK m, at, a : LinesAgree(m, at, a, end, file) /\ lines = LinesOf(s, at, m)
  BY <1>1, <1>2, LinesOfBytes
<1>4. LinesEnd(at, m, s) /\ LinesEnd(a, m, file)
  BY <1>3 DEF LinesAgree
<1>5. m \in Nat \ {0} /\ a \in [0 .. m -> Nat] /\ a[0] = 0 /\ a[m] = n + 1
  BY <1>4 DEF LinesEnd
<1>6. Len(lines) = m
  <2>1. DOMAIN LinesOf(s, at, m) = 1 .. m
    BY DEF LinesOf
  <2>. HIDE DEF lines
  <2>. QED
    BY <1>3, <1>5, <2>1
<1>. HIDE DEF s
<1>7. ASSUME h + l < m
      PROVE  \E head \in Prefixes(file), tail \in Suffixes(file) :
                    /\ Join(FirstOf(lines, h)) = Bytes(head) /\ Join(LastOf(lines, l)) = Bytes(tail)
                    /\ Len(head) + Len(tail) <= Len(file)
                    /\ LinesIn(head) = h /\ LinesIn(tail) = l /\ LinesIn(file) = m
  <2>. DEFINE i == m - l
              head == Part(file, 0, a[h] - 1)
              tail == Part(file, a[i], n)
  <2>1. /\ 0 \in Nat /\ h \in Nat /\ 0 < h /\ h <= m /\ i \in Nat /\ m \in Nat /\ i < m /\ m <= m
        /\ h - 0 = h /\ m - i = l /\ h < i
        /\ h \in 0 .. m /\ i \in 0 .. m /\ m \in 0 .. m /\ 0 \in 0 .. m
    BY <1>5, <1>7
  <2>. HIDE DEF i
  <2>2. a[0] < a[h] /\ a[h] < a[i] /\ a[i] < a[m]
    BY <1>4, <2>1, LinesIncrease
  <2>3. a[h] \in Nat /\ a[i] \in Nat /\ a[m] - 1 = n
    BY <1>1, <1>5, <2>1
  <2>4. a[h] - 1 \in 0 .. n /\ a[i] \in 0 .. n /\ (a[h] - 1) + (n - a[i]) <= n
    BY <1>1, <1>5, <2>2, <2>3, SMTT(20)
  <2>5. head \in Prefixes(file) /\ tail \in Suffixes(file)
    BY <2>4, PartsArePrefixes
  <2>6. Len(head) = (a[h] - 1) - 0 /\ Len(tail) = n - a[i]
    <3>. DEFINE y == a[h] - 1
                x == a[i]
    <3>1. /\ 0 \in Nat /\ y \in Nat /\ 0 <= y /\ y <= Len(file)
          /\ x \in Nat /\ n \in Nat /\ x <= n /\ n <= Len(file)
      BY <1>1, <2>4
    <3>. HIDE DEF x, y, n
    <3>2. Len(Part(file, 0, y)) = y - 0
      BY <3>1, PartIs
    <3>3. Len(Part(file, x, n)) = n - x
      BY <3>1, PartIs
    <3>. QED
      BY <3>2, <3>3 DEF x, y
  <2>7. FirstOf(lines, h) = Part(lines, 0, h) /\ LastOf(lines, l) = Part(lines, i, m)
    <3>1. 0 + 1 = 1 /\ m - l + 1 = i + 1
      BY <1>5 DEF i
    <3>. QED
      BY <1>6, <3>1 DEF FirstOf, LastOf, Part
  <2>8. Join(Part(lines, 0, h)) = Part(s, at[0], at[h] - 1)
    BY <1>1, <1>3, <1>4, <2>1, JoinOfPart DEF s
  <2>9. Join(Part(lines, i, m)) = Part(s, at[i], at[m] - 1)
    BY <1>1, <1>3, <1>4, <2>1, JoinOfPart DEF s
  <2>10. Part(s, at[0], at[h] - 1) = Bytes(Part(file, a[0], a[h] - 1))
    BY <1>2, <1>3, <2>1, LinesOfBytesAre DEF s
  <2>11. Part(s, at[i], at[m] - 1) = Bytes(Part(file, a[i], a[m] - 1))
    BY <1>2, <1>3, <2>1, LinesOfBytesAre DEF s
  <2>12. LinesIn(Part(file, a[0], a[h] - 1)) = h - 0
    BY <1>4, <2>1, JoinOfPart
  <2>13. LinesIn(Part(file, a[i], a[m] - 1)) = m - i
    BY <1>4, <2>1, JoinOfPart
  <2>14. LinesIn(file) = m
    BY <1>4, LinesAreCounted
  <2>15. Join(FirstOf(lines, h)) = Bytes(head) /\ LinesIn(head) = h
    BY <1>5, <2>1, <2>7, <2>8, <2>10, <2>12
  <2>16. Join(LastOf(lines, l)) = Bytes(tail) /\ LinesIn(tail) = l
    BY <2>1, <2>3, <2>7, <2>9, <2>11, <2>13
  <2>17. Len(head) + Len(tail) <= Len(file)
    BY <2>3, <2>4, <2>6
  <2>. HIDE DEF head, tail
  <2>. QED
    BY <2>5, <2>14, <2>15, <2>16, <2>17
<1>. QED
  BY <1>5, <1>6, <1>7 DEF s

LEMMA ShellOutputsAddUp ==
  ASSUME file \in Seq(Chars)
  PROVE  \E head \in Prefixes(file), tail \in Suffixes(file) :
           OutputIs(truncateShellOutput(Bytes(file)), head, tail)
<1>. DEFINE s == Bytes(file)
            lines == Split(s)
            n == Len(file)
            gives == truncateShellOutput(s)
<1>1. RuneCount(s) = n /\ n \in Nat
  BY RunesOfAText
<1>2. /\ ShellChars \in Nat /\ ShellHeadChars \in Nat /\ ShellTailChars \in Nat \ {0}
      /\ ShellLines \in Nat /\ ShellHeadLines \in Nat \ {0} /\ ShellTailLines \in Nat \ {0}
      /\ ShellHeadChars + ShellTailChars <= ShellChars
      /\ ShellHeadLines + ShellTailLines <= ShellLines
  BY BoundsAssumption
<1>3. CASE n > ShellChars
  <2>. DEFINE h == ShellHeadChars
              l == ShellTailChars
              head == Part(file, 0, h)
              tail == Part(file, n - l, n)
  <2>1. gives = [head |-> headCharacters(s, h), says |-> "characters omitted",
                 omitted |-> n - h - l, tail |-> tailCharacters(s, l)]
    BY <1>1, <1>3 DEF truncateShellOutput
  <2>2. /\ h \in Nat /\ h < n /\ l \in Nat /\ l < n /\ l # 0 /\ h \in 0 .. n /\ n - l \in 0 .. n
        /\ h + (n - h - l) + l = n /\ h + l <= n
    BY <1>1, <1>2, <1>3
  <2>. HIDE DEF h, l
  <2>3. headCharacters(s, h) = Bytes(head)
    BY <2>2, CharacterCuts
  <2>4. tailCharacters(s, l) = Bytes(tail)
    BY <2>2, CharacterCuts
  <2>5. head \in Prefixes(file) /\ tail \in Suffixes(file)
    BY <2>2, PartsArePrefixes
  <2>6. Len(head) = h /\ Len(tail) = l
    <3>. DEFINE x == n - l
    <3>1. /\ 0 \in Nat /\ 0 <= h /\ h <= Len(file) /\ h - 0 = h
          /\ x \in Nat /\ x <= n /\ n <= Len(file) /\ n - x = l
      BY <1>1, <2>2
    <3>. HIDE DEF x, n
    <3>2. Len(Part(file, 0, h)) = h - 0
      BY <2>2, <3>1, PartIs
    <3>3. Len(Part(file, x, n)) = n - x
      BY <1>1, <3>1, PartIs
    <3>. QED
      BY <3>1, <3>2, <3>3 DEF x
  <2>. HIDE DEF head, tail, s, gives
  <2>7. /\ gives.head = Bytes(head) /\ gives.tail = Bytes(tail)
        /\ gives.says = "characters omitted" /\ gives.omitted = n - h - l
    <3>1. /\ gives.head = headCharacters(s, h) /\ gives.tail = tailCharacters(s, l)
          /\ gives.says = "characters omitted" /\ gives.omitted = n - h - l
      BY <2>1
    <3>. QED
      BY <2>3, <2>4, <3>1, Zenon
  <2>8. Len(head) + gives.omitted + Len(tail) = Len(file) /\ Len(head) + Len(tail) <= Len(file)
    BY <2>2, <2>6, <2>7
  <2>9. OutputIs(gives, head, tail)
    BY <2>7, <2>8 DEF OutputIs
  <2>. QED
    BY <2>5, <2>9 DEF gives, s
<1>4. CASE ~ (n > ShellChars) /\ Len(lines) <= ShellLines
  <2>1. gives = [head |-> s, says |-> "nothing", omitted |-> 0, tail |-> << >>]
    BY <1>1, <1>4, SMTT(20) DEF truncateShellOutput
  <2>2. file \in Prefixes(file) /\ << >> \in Suffixes(file)
    <3>1. n \in 0 .. n /\ SubSeq(file, 1, n) = file
      BY <1>1, SubSeqFull
    <3>. QED
      BY <3>1 DEF Prefixes, Suffixes
  <2>3. gives.head = Bytes(file) /\ gives.tail = Bytes(<< >>) /\ gives.says = "nothing"
    BY <2>1, BytesOfNothing
  <2>. HIDE DEF gives
  <2>4. Len(file) + Len(<< >>) <= Len(file)
    BY <1>1
  <2>5. OutputIs(gives, file, << >>)
    BY <2>3, <2>4 DEF OutputIs
  <2>. QED
    BY <2>2, <2>5 DEF gives
<1>5. CASE ~ (n > ShellChars) /\ ~ (Len(lines) <= ShellLines)
  <2>. DEFINE h == ShellHeadLines
              l == ShellTailLines
  <2>1. gives = [head |-> Join(FirstOf(lines, h)), says |-> "lines omitted",
                 omitted |-> Len(lines) - h - l, tail |-> Join(LastOf(lines, l))]
    BY <1>1, <1>5 DEF truncateShellOutput
  <2>2. h \in Nat \ {0} /\ l \in Nat \ {0} /\ h + l <= ShellLines
    BY <1>2
  <2>. HIDE DEF h, l
  <2>3. /\ Len(lines) \in Nat
        /\ h + l < Len(lines) =>
             \E head \in Prefixes(file), tail \in Suffixes(file) :
               /\ Join(FirstOf(lines, h)) = Bytes(head) /\ Join(LastOf(lines, l)) = Bytes(tail)
               /\ Len(head) + Len(tail) <= Len(file)
               /\ LinesIn(head) = h /\ LinesIn(tail) = l /\ LinesIn(file) = Len(lines)
    BY <2>2, LinesAddUp
  <2>. HIDE DEF lines
  <2>4. h + l < Len(lines)
    BY <1>2, <1>5, <2>2, <2>3
  <2>5. PICK head \in Prefixes(file), tail \in Suffixes(file) :
          /\ Join(FirstOf(lines, h)) = Bytes(head) /\ Join(LastOf(lines, l)) = Bytes(tail)
          /\ Len(head) + Len(tail) <= Len(file)
          /\ LinesIn(head) = h /\ LinesIn(tail) = l /\ LinesIn(file) = Len(lines)
    BY <2>3, <2>4
  <2>. HIDE DEF gives
  <2>6. /\ gives.head = Bytes(head) /\ gives.tail = Bytes(tail)
        /\ gives.says = "lines omitted" /\ gives.omitted = Len(lines) - h - l
    <3>1. /\ gives.head = Join(FirstOf(lines, h)) /\ gives.tail = Join(LastOf(lines, l))
          /\ gives.says = "lines omitted" /\ gives.omitted = Len(lines) - h - l
      BY <2>1
    <3>. QED
      BY <2>5, <3>1, Zenon
  <2>7. LinesIn(head) + gives.omitted + LinesIn(tail) = LinesIn(file)
    <3>1. h + (Len(lines) - h - l) + l = Len(lines)
      BY <2>2, <2>3
    <3>. QED
      BY <2>5, <2>6, <3>1
  <2>8. OutputIs(gives, head, tail)
    BY <2>5, <2>6, <2>7 DEF OutputIs
  <2>. QED
    BY <2>8 DEF gives
<1>. QED
  BY <1>3, <1>4, <1>5

-----------------------------------------------------------------------------
(* Reads.                                                                  *)

LEMMA LinesOfTheFile ==
  ASSUME file \in Seq(Chars)
  PROVE  /\ LineCount \in Nat /\ FileLines(Bytes(file)) = TrueLines(1, LineCount)
         /\ Len(FileLines(Bytes(file))) = LineCount
<1>1. LineCount \in Nat /\ FileLines(Bytes(file)) = TrueLines(1, LineCount)
  BY FileLinesAreTrue
<1>. DEFINE N == LineCount
<1>2. 1 \in Nat /\ N \in Nat /\ 1 <= N + 1 /\ N - 1 + 1 = N
  BY <1>1
<1>. HIDE DEF N
<1>3. Len(TrueLines(1, N)) = N - 1 + 1
  BY <1>2, TrueLinesAre
<1>. QED
  BY <1>1, <1>2, <1>3 DEF N

(* A read of a range returns the lines its footer names, or is past them.  *)
LEMMA RangesAreTrue ==
  ASSUME file \in Seq(Chars), NEW offset \in Nat, NEW limit \in Nat
  PROVE  LET gives == ReadRange(Bytes(file), offset, limit)
         IN  /\ gives.of = LineCount
             /\ \/ /\ gives.says = "beyond" /\ gives.kept = Whole(<< >>) /\ gives.next = 0
                   /\ (IF offset = 0 THEN 1 ELSE offset) > LineCount
                \/ /\ gives.says = "range" /\ gives.from = (IF offset = 0 THEN 1 ELSE offset)
                   /\ gives.to \in Nat /\ gives.from <= gives.to /\ gives.to <= LineCount
                   /\ gives.kept = Whole(TrueLines(gives.from, gives.to))
                   /\ gives.next = IF gives.to = LineCount THEN 0 ELSE gives.to + 1
<1>. DEFINE lines == FileLines(Bytes(file))
            N == LineCount
            start == IF offset > 0 THEN offset - 1 ELSE 0
            end == IF limit > 0 /\ start + limit < N THEN start + limit ELSE N
            gives == ReadRange(Bytes(file), offset, limit)
<1>1. N \in Nat /\ lines = TrueLines(1, N) /\ Len(lines) = N
  BY LinesOfTheFile
<1>2. gives = IF start >= N
                THEN [kept |-> Whole(<< >>), says |-> "beyond", from |-> offset, to |-> 0,
                      next |-> 0, of |-> N]
                ELSE [kept |-> Whole(SubSeq(lines, start + 1, end)), says |-> "range",
                      from |-> start + 1, to |-> end,
                      next |-> IF end < N THEN end + 1 ELSE 0, of |-> N]
  BY <1>1 DEF ReadRange
<1>. HIDE DEF gives, lines
<1>3. /\ start \in Nat /\ start + 1 = (IF offset = 0 THEN 1 ELSE offset)
      /\ start < N => end \in Nat /\ start + 1 <= end /\ start <= end /\ end <= N
  BY <1>1
<1>. HIDE DEF N, start, end
<1>4. CASE start >= N
  <2>1. /\ gives.says = "beyond" /\ gives.kept = Whole(<< >>) /\ gives.next = 0 /\ gives.of = N
    BY <1>2, <1>4
  <2>2. start + 1 > N
    BY <1>1, <1>3, <1>4
  <2>. QED
    BY <1>3, <2>1, <2>2 DEF N, gives
<1>5. CASE ~ (start >= N)
  <2>1. end \in Nat /\ start + 1 <= end /\ start <= end /\ end <= N
    BY <1>1, <1>3, <1>5
  <2>2. /\ gives.says = "range" /\ gives.from = start + 1 /\ gives.to = end /\ gives.of = N
        /\ gives.kept = Whole(SubSeq(lines, start + 1, end))
        /\ gives.next = IF end < N THEN end + 1 ELSE 0
    BY <1>2, <1>5
  <2>3. SubSeq(lines, start + 1, end) = TrueLines(start + 1, end)
    BY <1>1, <1>3, <2>1, PartOfTrueLines DEF Part
  <2>4. gives.next = IF end = N THEN 0 ELSE end + 1
    BY <1>1, <2>1, <2>2
  <2>. QED
    BY <1>3, <2>1, <2>2, <2>3, <2>4 DEF N, gives
<1>. QED
  BY <1>4, <1>5

(* A cut of the bytes that drops some keeps a beginning of them, no more   *)
(* than two short of the limit.                                            *)
LEMMA CutsKeepABeginning ==
  ASSUME NEW text \in Seq(Chars), NEW m \in Nat
  PROVE  LET s == Bytes(text)
             b == TruncateAtRuneBoundary(s, m)
         IN  /\ s \in Seq(EncodedBytes) /\ b \in Seq(EncodedBytes)
             /\ b = s \/ (Len(b) < Len(s) /\ Len(b) \in m - 2 .. m /\ b = FirstOf(s, Len(b)))
<1>. DEFINE s == Bytes(text)
            n == Len(text)
            b == TruncateAtRuneBoundary(s, m)
<1>1. s \in Seq(EncodedBytes) /\ \E e : EndsOf(e, text)
  BY TextsHaveEnds
<1>2. PICK end : EndsOf(end, text)
  BY <1>1
<1>3. Len(s) \in Nat /\ n \in Nat /\ CharactersEnd(end, n, s)
  BY <1>1, <1>2 DEF EndsOf
<1>4. end \in [0 .. n -> Nat] /\ end[n] = Len(s)
  BY <1>3 DEF CharactersEnd
<1>. HIDE DEF s
<1>5. CASE m = 0
  <2>1. b = << >>
    BY <1>5 DEF TruncateAtRuneBoundary
  <2>2. CASE s = << >>
    BY <1>1, <2>1, <2>2 DEF s
  <2>3. CASE s # << >>
    <3>1. Len(s) # 0 /\ Len(b) = 0 /\ FirstOf(s, 0) = << >> /\ b \in Seq(EncodedBytes)
      BY <1>1, <2>1, <2>3 DEF FirstOf
    <3>2. Len(b) < Len(s) /\ Len(b) \in m - 2 .. m /\ b = FirstOf(s, Len(b))
      BY <1>3, <1>5, <2>1, <3>1
    <3>. QED
      BY <1>1, <3>1, <3>2 DEF s
  <2>. QED
    BY <2>2, <2>3
<1>6. CASE m # 0 /\ Len(s) <= m
  <2>1. b = s
    BY <1>6 DEF TruncateAtRuneBoundary
  <2>. QED
    BY <1>1, <2>1 DEF s
<1>7. CASE m # 0 /\ ~ (Len(s) <= m)
  <2>1. m < Len(s) /\ m \in Nat \ {0}
    BY <1>3, <1>7
  <2>2. PICK k \in 0 .. n - 1 : end[k] <= m /\ m < end[k + 1]
    BY <1>3, <2>1, TheCharacterAt
  <2>3. b = SubSeq(s, 1, end[k])
    BY <1>3, <2>1, <2>2, TruncatesAtAnEnd
  <2>4. k \in 0 .. n /\ k + 1 \in 1 .. n /\ k + 1 \in 0 .. n /\ (k + 1) - 1 = k
    BY <1>3
  <2>5. end[k + 1] <= end[(k + 1) - 1] + 3
    BY <1>2, <2>4 DEF EndsOf
  <2>. DEFINE x == end[k]
              y == end[k + 1]
  <2>6. x \in Nat /\ y \in Nat /\ y <= x + 3 /\ x <= m /\ m < y
    BY <1>4, <2>2, <2>4, <2>5
  <2>. HIDE DEF x, y
  <2>7. x \in m - 2 .. m /\ x < Len(s) /\ x <= Len(s)
    BY <1>3, <2>1, <2>6
  <2>8. SubSeq(s, 1, x) \in Seq(EncodedBytes) /\ Len(SubSeq(s, 1, x)) = x
    <3>1. 0 \in Nat /\ 0 <= x /\ 0 + 1 = 1 /\ x - 0 = x
      BY <2>6
    <3>2. Part(s, 0, x) \in Seq(EncodedBytes) /\ Len(Part(s, 0, x)) = x - 0
      BY <1>1, <2>6, <2>7, <3>1, PartIs
    <3>. QED
      BY <3>1, <3>2 DEF Part
  <2>9. b = SubSeq(s, 1, x)
    BY <2>3 DEF x
  <2>. HIDE DEF b
  <2>. QED
    BY <1>1, <2>7, <2>8, <2>9 DEF FirstOf, s, b
<1>. QED
  BY <1>5, <1>6, <1>7

(* A read that named no range, whichever limit it met.                     *)
LEMMA WholeReadsAre ==
  ASSUME NEW content
  PROVE  LET total == Len(FileLines(content))
             bytes == TruncateAtRuneBoundary(content, MaxReadBytes)
             dropped == Len(content) - Len(bytes)
             read == TruncateFileRead(IF dropped > 0 THEN bytes \o <<"newline", "notice">>
                                      ELSE content)
             gives == ReadWhole(content)
         IN  /\ gives.kept = read.kept /\ gives.next = 0
             /\ dropped > 0 =>
                  gives.says = "bytes" /\ gives.to = Len(bytes) /\ gives.of = Len(content)
             /\ dropped = 0 /\ read.first + read.last < total =>
                  /\ gives.says = "windows" /\ gives.from = total - read.last + 1
                  /\ gives.to = read.first /\ gives.of = total
             /\ dropped = 0 /\ ~ (read.first + read.last < total) =>
                  gives.says = "complete" /\ gives.of = total
BY DEF ReadWhole

(* TruncateLines keeps all the lines, or windows of them.                  *)
LEMMA WindowsAre ==
  ASSUME NEW output, NEW lines, Split(output) = lines, NEW h \in Nat, NEW l \in Nat,
         Len(lines) \in Nat
  PROVE  LET kept == TruncateLines(output, h, l)
         IN  /\ Len(lines) <= h + l => kept = Whole(lines)
             /\ Len(lines) > h + l =>
                  kept = [head |-> FirstOf(lines, h), omitted |-> Len(lines) - h - l,
                          tail |-> LastOf(lines, l)]
BY DEF TruncateLines

(* The length of the first h lines.                                        *)
LEMMA HeadsHaveTheirLength ==
  ASSUME NEW T, NEW parts \in Seq(T), NEW h \in Nat, h <= Len(parts)
  PROVE  Len(Part(parts, 0, h)) = h
<1>1. ASSUME NEW x \in Nat, x = 0
      PROVE  Len(Part(parts, x, h)) = h
  <2>1. x <= h /\ h - x = h
    BY <1>1
  <2>2. Len(Part(parts, x, h)) = h - x
    BY <2>1, PartIs, Zenon
  <2>. QED
    BY <2>1, <2>2
<1>. QED
  BY <1>1, Zenon

(* What TruncateFileRead takes of a text is all its lines, or the first h  *)
(* and the last l of them.                                                 *)
LEMMA WindowsKeep ==
  ASSUME NEW S, NEW text \in Seq(S), NEW h \in Nat \ {0}, NEW l \in Nat \ {0}
  PROVE  LET parts == Split(text)
         IN  /\ Len(parts) \in Nat /\ KeptOf(Whole(parts), text)
             /\ Len(parts) > h + l =>
                  KeptOf([head |-> FirstOf(parts, h), omitted |-> Len(parts) - h - l,
                          tail |-> LastOf(parts, l)], text)
<1>. DEFINE parts == Split(text)
            n == Len(text)
<1>1. PICK m, at : LinesEnd(at, m, text) /\ parts = LinesOf(text, at, m)
  BY SplitIsLines
<1>2. m \in Nat \ {0} /\ at \in [0 .. m -> Nat] /\ at[0] = 0 /\ at[m] = n + 1 /\ n \in Nat
  BY <1>1 DEF LinesEnd
<1>3. Join(parts) = text
  BY JoinOfSplit
<1>. HIDE DEF parts
<1>4. Len(parts) = m
  <2>1. DOMAIN LinesOf(text, at, m) = 1 .. m
    BY DEF LinesOf
  <2>. QED
    BY <1>1, <1>2, <2>1
<1>5. KeptOf(Whole(parts), text)
  <2>1. Whole(parts).head = parts
    BY DEF Whole
  <2>. QED
    BY <1>3, <2>1 DEF KeptOf
<1>6. ASSUME Len(parts) > h + l
      PROVE  KeptOf([head |-> FirstOf(parts, h), omitted |-> Len(parts) - h - l,
                     tail |-> LastOf(parts, l)], text)
  <2>. DEFINE i == m - l
              first == FirstOf(parts, h)
              last == LastOf(parts, l)
              kept == [head |-> first, omitted |-> Len(parts) - h - l, tail |-> last]
  <2>1. /\ 0 \in Nat /\ h \in Nat /\ 0 < h /\ h <= m /\ i \in Nat /\ m \in Nat /\ i < m /\ m <= m
        /\ m - i = l /\ h < i
        /\ h \in 0 .. m /\ i \in 0 .. m /\ m \in 0 .. m /\ 0 \in 0 .. m
    BY <1>2, <1>4, <1>6
  <2>2. first = Part(parts, 0, h) /\ last = Part(parts, i, m)
    <3>1. 0 + 1 = 1 /\ m - l + 1 = i + 1
      BY <1>2
    <3>. QED
      BY <1>4, <3>1 DEF FirstOf, LastOf, Part
  <2>. HIDE DEF i
  <2>3. at[0] < at[h] /\ at[h] < at[i] /\ at[i] < at[m]
    BY <1>1, <2>1, LinesIncrease
  <2>4. at[h] \in Nat /\ at[i] \in Nat /\ at[m] - 1 = n
    BY <1>2, <2>1
  <2>5. at[h] - 1 \in 0 .. n /\ at[i] \in 0 .. n
    BY <1>2, <2>3, <2>4, SMTT(20)
  <2>6. Part(text, 0, at[h] - 1) \in Prefixes(text) /\ Part(text, at[i], n) \in Suffixes(text)
    BY <2>5, PartsArePrefixes
  <2>7. Join(Part(parts, 0, h)) = Part(text, at[0], at[h] - 1)
    BY <1>1, <2>1, JoinOfPart
  <2>8. Join(Part(parts, i, m)) = Part(text, at[i], at[m] - 1)
    BY <1>1, <2>1, JoinOfPart
  <2>9. Join(first) \in Prefixes(text) /\ Join(last) \in Suffixes(text)
    BY <1>2, <2>2, <2>4, <2>6, <2>7, <2>8
  <2>10. LinesIn(text) = m
    BY <1>1, LinesAreCounted
  <2>11. Len(first) = h /\ Len(last) = l
    <3>. DEFINE T == {parts[k] : k \in 1 .. m}
    <3>1. parts \in Seq(T)
      <4>1. parts \in [1 .. m -> T]
        BY <1>1 DEF LinesOf
      <4>. HIDE DEF T
      <4>. QED
        BY <1>2, <4>1
    <3>. HIDE DEF T
    <3>2. /\ h \in Nat /\ h <= Len(parts)
          /\ i \in Nat /\ m \in Nat /\ i <= m /\ m <= Len(parts)
      BY <1>4, <2>1
    <3>3. Len(Part(parts, 0, h)) = h
      BY <3>1, <3>2, HeadsHaveTheirLength, Zenon
    <3>4. Len(Part(parts, i, m)) = m - i
      BY <3>1, <3>2, PartIs, Zenon
    <3>. QED
      BY <2>1, <2>2, <3>3, <3>4
  <2>. HIDE DEF first, last
  <2>12. kept.head = first /\ kept.tail = last /\ kept.omitted = Len(parts) - h - l
    OBVIOUS
  <2>. HIDE DEF kept
  <2>13. kept.omitted > 0
    BY <1>2, <1>4, <1>6, <2>12
  <2>14. Len(kept.head) + kept.omitted + Len(kept.tail) = LinesIn(text)
    <3>1. /\ Len(kept.head) = h /\ Len(kept.tail) = l /\ kept.omitted = m - h - l
          /\ h + (m - h - l) + l = m
      BY <1>2, <1>4, <2>11, <2>12
    <3>. QED
      BY <2>10, <3>1
  <2>15. KeptOf(kept, text)
    BY <2>9, <2>12, <2>13, <2>14 DEF KeptOf
  <2>. QED
    BY <2>15 DEF kept, first, last
<1>. QED
  BY <1>2, <1>4, <1>5, <1>6 DEF parts

(* What a footer says of a read that named no range.                       *)
WholeReadIsTrue(gives) ==
  \/ /\ gives.says = "complete" /\ gives.of = LineCount
     /\ gives.kept = Whole(TrueLines(1, LineCount))
  \/ /\ gives.says = "windows" /\ gives.of = LineCount
     /\ gives.kept = [head |-> TrueLines(1, gives.to), omitted |-> gives.from - gives.to - 1,
                      tail |-> TrueLines(gives.from, LineCount)]
     /\ gives.kept.omitted > 0
  \/ /\ gives.says = "bytes"
     /\ gives.to \in MaxReadBytes - 2 .. MaxReadBytes
     /\ gives.to < gives.of /\ gives.of = Len(Bytes(file))
     /\ KeptOf(gives.kept, FirstOf(Bytes(file), gives.to) \o <<"newline", "notice">>)

LEMMA WholeReadsAreTrue ==
  ASSUME file \in Seq(Chars)
  PROVE  WholeReadIsTrue(ReadWhole(Bytes(file))) /\ ReadWhole(Bytes(file)).next = 0
<1>. DEFINE s == Bytes(file)
            N == LineCount
            lines == FileLines(s)
            b == TruncateAtRuneBoundary(s, MaxReadBytes)
            cut == b \o <<"newline", "notice">>
            dropped == Len(s) - Len(b)
            gives == ReadWhole(s)
<1>1. N \in Nat /\ lines = TrueLines(1, N) /\ Len(lines) = N
  BY LinesOfTheFile
<1>2. /\ MaxReadBytes \in Nat /\ WholeFileLimit \in Nat
      /\ KeepFirst \in Nat \ {0} /\ KeepLast \in Nat \ {0}
      /\ KeepFirst + KeepLast <= WholeFileLimit
  BY BoundsAssumption
<1>3. /\ s \in Seq(EncodedBytes) /\ b \in Seq(EncodedBytes)
      /\ \/ b = s
         \/ /\ Len(b) < Len(s) /\ Len(b) \in MaxReadBytes - 2 .. MaxReadBytes
            /\ b = FirstOf(s, Len(b))
  BY <1>2, CutsKeepABeginning
<1>4. Len(s) \in Nat /\ Len(b) \in Nat
  BY <1>3
<1>5. LET read == TruncateFileRead(IF dropped > 0 THEN cut ELSE s)
      IN  /\ gives.kept = read.kept /\ gives.next = 0
          /\ dropped > 0 => gives.says = "bytes" /\ gives.to = Len(b) /\ gives.of = Len(s)
          /\ dropped = 0 /\ read.first + read.last < N =>
               /\ gives.says = "windows" /\ gives.from = N - read.last + 1
               /\ gives.to = read.first /\ gives.of = N
          /\ dropped = 0 /\ ~ (read.first + read.last < N) =>
               gives.says = "complete" /\ gives.of = N
  BY <1>1, WholeReadsAre
<1>. HIDE DEF gives, lines, N, b
<1>6. gives.next = 0
  BY <1>5
<1>7. CASE dropped > 0
  <2>. DEFINE parts == Split(cut)
              read == TruncateFileRead(cut)
  <2>1. /\ gives.kept = read.kept /\ gives.says = "bytes" /\ gives.to = Len(b)
        /\ gives.of = Len(s)
    BY <1>5, <1>7
  <2>2. /\ Len(b) < Len(s) /\ Len(b) \in MaxReadBytes - 2 .. MaxReadBytes
        /\ b = FirstOf(s, Len(b))
    BY <1>3, <1>4, <1>7
  <2>3. /\ cut \in Seq(EncodedBytes \cup {"notice"}) /\ Len(cut) = Len(b) + 2
        /\ cut[Len(b) + 2] = "notice"
    <3>. DEFINE S == EncodedBytes \cup {"notice"}
                end == <<"newline", "notice">>
    <3>1. b \in Seq(S) /\ end \in Seq(S) /\ Len(end) = 2 /\ end[2] = "notice"
      <4>1. end \in Seq(S)
        BY DEF EncodedBytes
      <4>. QED
        BY <1>3, <4>1
    <3>. HIDE DEF S, end
    <3>2. /\ b \o end \in Seq(S) /\ Len(b \o end) = Len(b) + 2
          /\ (b \o end)[Len(b) + 2] = end[2]
      <4>1. /\ Len(b) + 2 \in 1 .. Len(b) + Len(end) /\ ~ (Len(b) + 2 <= Len(b))
            /\ Len(b) + 2 - Len(b) = 2
        BY <1>4, <3>1
      <4>2. /\ b \o end \in Seq(S) /\ Len(b \o end) = Len(b) + Len(end)
            /\ \A i \in 1 .. Len(b) + Len(end) :
                 (b \o end)[i] = IF i <= Len(b) THEN b[i] ELSE end[i - Len(b)]
        BY <3>1, ConcatProperties
      <4>. QED
        BY <3>1, <4>1, <4>2
    <3>. QED
      BY <3>1, <3>2 DEF S, end
  <2>. HIDE DEF cut
  <2>4. FileLines(cut) = parts /\ TrimNewline(cut) = cut
    <3>1. cut # << >> /\ Last(cut) = "notice"
      BY <1>4, <2>3 DEF Last
    <3>2. TrimNewline(cut) = cut
      BY <3>1 DEF TrimNewline
    <3>. QED
      BY <3>1, <3>2 DEF FileLines
  <2>5. /\ Len(parts) \in Nat /\ KeptOf(Whole(parts), cut)
        /\ Len(parts) > KeepFirst + KeepLast =>
             KeptOf([head |-> FirstOf(parts, KeepFirst),
                     omitted |-> Len(parts) - KeepFirst - KeepLast,
                     tail |-> LastOf(parts, KeepLast)], cut)
    BY <1>2, <2>3, WindowsKeep
  <2>. HIDE DEF parts
  <2>6. KeptOf(gives.kept, cut)
    <3>1. CASE Len(parts) <= WholeFileLimit
      <4>1. read.kept = Whole(parts)
        BY <2>4, <3>1 DEF TruncateFileRead
      <4>. QED
        BY <2>1, <2>5, <4>1
    <3>2. CASE ~ (Len(parts) <= WholeFileLimit)
      <4>1. read.kept = TruncateLines(cut, KeepFirst, KeepLast)
        BY <2>4, <3>2 DEF TruncateFileRead
      <4>2. Len(parts) > KeepFirst + KeepLast
        BY <1>2, <2>5, <3>2
      <4>3. TruncateLines(cut, KeepFirst, KeepLast)
              = [head |-> FirstOf(parts, KeepFirst),
                 omitted |-> Len(parts) - KeepFirst - KeepLast, tail |-> LastOf(parts, KeepLast)]
        BY <1>2, <2>5, <4>2, WindowsAre DEF parts
      <4>. QED
        BY <2>1, <2>5, <4>1, <4>2, <4>3
    <3>. QED
      BY <3>1, <3>2
  <2>7. cut = FirstOf(s, gives.to) \o <<"newline", "notice">>
    BY <2>1, <2>2 DEF cut
  <2>8. WholeReadIsTrue(gives)
    BY <2>1, <2>2, <2>6, <2>7 DEF WholeReadIsTrue, s
  <2>. QED
    BY <1>6, <2>8 DEF gives
<1>8. CASE ~ (dropped > 0)
  <2>. DEFINE read == TruncateFileRead(s)
  <2>1. dropped = 0
    <3>1. b = s
      BY <1>3, <1>4, <1>8
    <3>. QED
      BY <1>4, <3>1
  <2>2. /\ gives.kept = read.kept
        /\ read.first + read.last < N =>
             /\ gives.says = "windows" /\ gives.from = N - read.last + 1
             /\ gives.to = read.first /\ gives.of = N
        /\ ~ (read.first + read.last < N) => gives.says = "complete" /\ gives.of = N
    BY <1>5, <1>8, <2>1
  <2>3. CASE N <= WholeFileLimit
    <3>1. read = [kept |-> Whole(lines), first |-> N, last |-> 0]
      BY <1>1, <2>3 DEF TruncateFileRead, lines
    <3>. HIDE DEF read
    <3>2. read.kept = Whole(lines) /\ read.first = N /\ read.last = 0
      BY <3>1
    <3>3. ~ (read.first + read.last < N)
      BY <1>1, <3>2
    <3>4. gives.says = "complete" /\ gives.of = N /\ gives.kept = Whole(TrueLines(1, N))
      BY <1>1, <2>2, <3>2, <3>3
    <3>5. WholeReadIsTrue(gives)
      BY <3>4 DEF WholeReadIsTrue, N
    <3>. QED
      BY <1>6, <3>5 DEF gives
  <2>4. CASE ~ (N <= WholeFileLimit)
    <3>1. read = [kept |-> TruncateLines(TrimNewline(s), KeepFirst, KeepLast),
                  first |-> KeepFirst, last |-> KeepLast]
      BY <1>1, <2>4 DEF TruncateFileRead, lines
    <3>. HIDE DEF read
    <3>2. /\ read.kept = TruncateLines(TrimNewline(s), KeepFirst, KeepLast)
          /\ read.first = KeepFirst /\ read.last = KeepLast
      BY <3>1
    <3>3. KeepFirst + KeepLast < N /\ N > KeepFirst + KeepLast
      BY <1>1, <1>2, <2>4
    <3>4. lines = Split(TrimNewline(s))
      <4>1. lines # << >>
        BY <1>1, <1>2, <3>3
      <4>. QED
        BY <4>1 DEF lines, FileLines
    <3>5. TruncateLines(TrimNewline(s), KeepFirst, KeepLast)
            = [head |-> FirstOf(lines, KeepFirst), omitted |-> Len(lines) - KeepFirst - KeepLast,
               tail |-> LastOf(lines, KeepLast)]
      BY <1>1, <1>2, <3>3, <3>4, WindowsAre
    <3>6. FirstOf(lines, KeepFirst) = TrueLines(1, KeepFirst)
      <4>. DEFINE h == KeepFirst
      <4>1. 0 \in Nat /\ h \in Nat /\ 0 <= h /\ h <= N /\ 0 + 1 = 1
        BY <1>1, <1>2, <3>3
      <4>. HIDE DEF h
      <4>2. Part(TrueLines(1, N), 0, h) = TrueLines(0 + 1, h)
        BY <1>1, <4>1, PartOfTrueLines
      <4>. QED
        BY <1>1, <4>1, <4>2 DEF FirstOf, Part, h
    <3>7. LastOf(lines, KeepLast) = TrueLines(N - KeepLast + 1, N)
      <4>. DEFINE i == N - KeepLast
      <4>1. i \in Nat /\ i <= N /\ N <= N
        BY <1>1, <1>2, <3>3
      <4>2. LastOf(lines, KeepLast) = SubSeq(lines, i + 1, N)
        BY <1>1 DEF LastOf
      <4>. HIDE DEF i
      <4>3. Part(TrueLines(1, N), i, N) = TrueLines(i + 1, N)
        BY <1>1, <4>1, PartOfTrueLines
      <4>. QED
        BY <1>1, <4>2, <4>3 DEF Part, i
    <3>8. /\ gives.says = "windows" /\ gives.from = N - KeepLast + 1
          /\ gives.to = KeepFirst /\ gives.of = N
      BY <2>2, <3>2, <3>3
    <3>9. gives.from - gives.to - 1 = N - KeepFirst - KeepLast /\ N - KeepFirst - KeepLast > 0
      BY <1>1, <1>2, <3>3, <3>8
    <3>10. gives.kept = [head |-> TrueLines(1, gives.to), omitted |-> gives.from - gives.to - 1,
                         tail |-> TrueLines(gives.from, N)]
      BY <1>1, <2>2, <3>2, <3>5, <3>6, <3>7, <3>8, <3>9
    <3>11. gives.kept.omitted > 0
      BY <3>9, <3>10
    <3>12. WholeReadIsTrue(gives)
      BY <3>8, <3>10, <3>11 DEF WholeReadIsTrue, N
    <3>. QED
      BY <1>6, <3>12 DEF gives
  <2>. QED
    BY <2>3, <2>4
<1>. QED
  BY <1>7, <1>8

-----------------------------------------------------------------------------
(* Every call.  The file and the tree do not change; every answer is made  *)
(* anew from them, and only a reader's pages last from call to call.       *)

LEMMA SameLines ==
  ASSUME file' = file
  PROVE  LineCount' = LineCount /\ \A x, y : TrueLines(x, y)' = TrueLines(x, y)
<1>1. ASSUME NEW j PROVE LineOf(j)' = LineOf(j)
  <2>1. {k \in 1 .. j - 1 : file'[k] = "newline"} = {k \in 1 .. j - 1 : file[k] = "newline"}
    OBVIOUS
  <2>. QED
    BY <2>1 DEF LineOf
<1>2. LineCount' = LineCount
  BY <1>1 DEF LineCount
<1>3. ASSUME NEW n PROVE CharsOfLine(n)' = CharsOfLine(n)
  <2>1. {j \in DOMAIN file' : file'[j] # "newline" /\ LineOf(j)' = n}
          = {j \in DOMAIN file : file[j] # "newline" /\ LineOf(j) = n}
    BY <1>1
  <2>. QED
    BY <2>1 DEF CharsOfLine
<1>4. ASSUME NEW x, NEW y PROVE TrueLines(x, y)' = TrueLines(x, y)
  BY <1>3 DEF TrueLines
<1>. QED
  BY <1>2, <1>4

(* A footer that sends a reader on sends it to the line after those read,  *)
(* and a reader's pages begin at a line of the file.                       *)
PagesGoOn ==
  /\ pages = [from |-> pages.from, lines |-> pages.lines]
  /\ answer.tool = "read" /\ answer.gives.next # 0 =>
       IsRead("range") /\ answer.gives.next = answer.gives.to + 1
  /\ IsRead("range") =>
       /\ pages.from \in Nat \ {0} /\ answer.gives.to \in Nat
       /\ pages.from <= answer.gives.to /\ answer.gives.to <= LineCount

OutputIInv ==
  /\ file \in Seq(Chars)
  /\ tree \in Seq(Entries)
  /\ FootersTellTheTruth
  /\ PagesGoOn
  /\ PagesMakeTheFile
  /\ CommandOutputAddsUp
  /\ TotalsAreTotals

LEMMA ReadFileKeepsIInv ==
  ASSUME OutputIInv, NEW offset \in Nat, NEW limit \in Nat, ReadFile(offset, limit)
  PROVE  OutputIInv'
<1>. DEFINE read == readSingleFile(Bytes(file), offset, limit)
            begin == IF offset = 0 THEN 1 ELSE offset
            goesOn == answer.tool = "read" /\ answer.gives.next = offset /\ offset > 0
<1>1. file \in Seq(Chars) /\ tree \in Seq(Entries) /\ file' = file /\ tree' = tree
  BY DEF OutputIInv, ReadFile
<1>2. LineCount' = LineCount /\ \A x, y : TrueLines(x, y)' = TrueLines(x, y)
  BY <1>1, SameLines
<1>3. /\ answer'.tool = "read" /\ answer'.gives = read
      /\ pages' = IF goesOn THEN [pages EXCEPT !.lines = @ \o read.kept.head]
                  ELSE [from |-> begin, lines |-> read.kept.head]
  BY DEF ReadFile
<1>4. LineCount \in Nat /\ pages = [from |-> pages.from, lines |-> pages.lines]
  BY <1>1, LinesOfTheFile DEF OutputIInv, PagesGoOn
<1>5. TotalsAreTotals' /\ CommandOutputAddsUp'
  BY <1>3 DEF TotalsAreTotals, CommandOutputAddsUp
<1>8. pages' = [from |-> pages'.from, lines |-> pages'.lines]
  <2>1. CASE goesOn
    <3>1. pages' = [pages EXCEPT !.lines = @ \o read.kept.head]
      BY <1>3, <2>1
    <3>. HIDE DEF read
    <3>. QED
      BY <1>4, <3>1
  <2>2. CASE ~ goesOn
    <3>1. pages' = [from |-> begin, lines |-> read.kept.head]
      BY <1>3, <2>2
    <3>. HIDE DEF read
    <3>. QED
      BY <3>1
  <2>. QED
    BY <2>1, <2>2
<1>. DEFINE N == LineCount
<1>6. CASE offset > 0 \/ limit > 0
  <2>1. read = ReadRange(Bytes(file), offset, limit)
    BY <1>6 DEF readSingleFile
  <2>2. /\ read.of = N
        /\ \/ /\ read.says = "beyond" /\ read.kept = Whole(<< >>) /\ read.next = 0 /\ begin > N
           \/ /\ read.says = "range" /\ read.from = begin
              /\ read.to \in Nat /\ read.from <= read.to /\ read.to <= N
              /\ read.kept = Whole(TrueLines(read.from, read.to))
              /\ read.next = IF read.to = N THEN 0 ELSE read.to + 1
    BY <1>1, <2>1, RangesAreTrue
  <2>. HIDE DEF read
  <2>3. FootersTellTheTruth'
    BY <1>2, <1>3, <2>2 DEF FootersTellTheTruth, IsRead
  <2>4. goesOn => /\ answer.tool = "read" /\ answer.gives.to + 1 = offset /\ answer.gives.to \in Nat
                  /\ answer.gives.to < N /\ pages.from \in Nat \ {0}
                  /\ pages.from <= answer.gives.to
                  /\ pages.lines = TrueLines(pages.from, answer.gives.to)
    BY <1>4 DEF OutputIInv, PagesGoOn, PagesMakeTheFile, IsRead
  <2>5. CASE read.says = "beyond"
    <3>1. read.kept.head = << >> /\ read.next = 0 /\ begin > N
      BY <2>2, <2>5 DEF Whole
    <3>2. ~ goesOn
      BY <1>4, <2>4, <3>1
    <3>3. pages'.from = begin /\ pages'.lines = << >>
      BY <1>3, <3>1, <3>2
    <3>4. PagesMakeTheFile' /\ PagesGoOn'
      BY <1>2, <1>3, <1>8, <2>5, <3>1, <3>3 DEF PagesMakeTheFile, PagesGoOn, IsRead
    <3>. QED
      BY <1>1, <1>5, <2>3, <3>4 DEF OutputIInv
  <2>6. CASE read.says # "beyond"
    <3>1. /\ read.says = "range" /\ read.from = begin
          /\ read.to \in Nat /\ begin <= read.to /\ read.to <= N
          /\ read.kept.head = TrueLines(begin, read.to)
          /\ read.next = IF read.to = N THEN 0 ELSE read.to + 1
      BY <2>2, <2>6 DEF Whole
    <3>2. /\ pages'.from \in Nat \ {0} /\ pages'.from <= read.to
          /\ pages'.lines = TrueLines(pages'.from, read.to)
      <4>1. CASE goesOn
        <5>. DEFINE x == pages.from
                    y == answer.gives.to
        <5>1. pages'.from = x /\ pages'.lines = pages.lines \o read.kept.head
          <6>1. pages' = [pages EXCEPT !.lines = @ \o read.kept.head]
            BY <1>3, <4>1
          <6>. QED
            BY <1>4, <6>1
        <5>2. /\ x \in Nat \ {0} /\ y \in Nat /\ x <= y /\ begin = y + 1
              /\ pages.lines = TrueLines(x, y)
          BY <2>4, <4>1
        <5>. HIDE DEF x, y, begin
        <5>3. x <= y + 1 /\ y <= read.to /\ x <= read.to
          BY <3>1, <5>2
        <5>4. TrueLines(x, y) \o TrueLines(y + 1, read.to) = TrueLines(x, read.to)
          BY <3>1, <5>2, <5>3, TrueLinesMeet
        <5>. QED
          BY <3>1, <5>1, <5>2, <5>3, <5>4
      <4>2. CASE ~ goesOn
        <5>1. pages'.from = begin /\ pages'.lines = read.kept.head
          BY <1>3, <4>2
        <5>2. begin \in Nat \ {0}
          OBVIOUS
        <5>. QED
          BY <3>1, <5>1, <5>2
      <4>. QED
        BY <4>1, <4>2
    <3>3. (read.next = 0) = (read.to = N) /\ (read.next # 0 => read.next = read.to + 1)
      BY <1>4, <3>1
    <3>4. PagesMakeTheFile'
      BY <1>2, <1>3, <3>1, <3>2, <3>3 DEF PagesMakeTheFile, IsRead
    <3>5. PagesGoOn'
      BY <1>2, <1>3, <1>8, <3>1, <3>2, <3>3 DEF PagesGoOn, IsRead
    <3>. QED
      BY <1>1, <1>5, <2>3, <3>4, <3>5 DEF OutputIInv
  <2>. QED
    BY <2>5, <2>6
<1>7. CASE ~ (offset > 0 \/ limit > 0)
  <2>1. read = ReadWhole(Bytes(file))
    BY <1>7 DEF readSingleFile
  <2>2. WholeReadIsTrue(read) /\ read.next = 0
    BY <1>1, <2>1, WholeReadsAreTrue
  <2>. HIDE DEF read
  <2>3. /\ read.says \in {"complete", "windows", "bytes"}
        /\ read.says = "complete" => read.of = N /\ read.kept = Whole(TrueLines(1, N))
        /\ read.says = "windows" =>
             /\ read.of = N
             /\ read.kept = [head |-> TrueLines(1, read.to), omitted |-> read.from - read.to - 1,
                             tail |-> TrueLines(read.from, N)]
             /\ read.kept.omitted > 0
        /\ read.says = "bytes" =>
             /\ read.to \in MaxReadBytes - 2 .. MaxReadBytes
             /\ read.to < read.of /\ read.of = Len(Bytes(file))
             /\ KeptOf(read.kept, FirstOf(Bytes(file), read.to) \o <<"newline", "notice">>)
    BY <2>2 DEF WholeReadIsTrue
  <2>4. FootersTellTheTruth'
    BY <1>1, <1>2, <1>3, <2>3 DEF FootersTellTheTruth, IsRead
  <2>5. PagesMakeTheFile' /\ PagesGoOn'
    BY <1>3, <1>8, <2>2, <2>3 DEF PagesMakeTheFile, PagesGoOn, IsRead
  <2>. QED
    BY <1>1, <1>5, <2>4, <2>5 DEF OutputIInv
<1>. QED
  BY <1>6, <1>7

LEMMA RunCommandKeepsIInv ==
  ASSUME OutputIInv, RunCommand
  PROVE  OutputIInv'
<1>. DEFINE gives == truncateShellOutput(Bytes(file))
<1>1. file \in Seq(Chars) /\ tree \in Seq(Entries) /\ file' = file /\ tree' = tree
  BY DEF OutputIInv, RunCommand
<1>2. answer'.tool = "shell" /\ answer'.gives = gives
  BY DEF RunCommand
<1>3. PICK head \in Prefixes(file), tail \in Suffixes(file) : OutputIs(gives, head, tail)
  BY <1>1, ShellOutputsAddUp
<1>. HIDE DEF gives
<1>4. CommandOutputAddsUp'
  BY <1>1, <1>2, <1>3 DEF CommandOutputAddsUp, OutputIs
<1>5. FootersTellTheTruth' /\ PagesMakeTheFile' /\ PagesGoOn' /\ TotalsAreTotals'
  <2>1. pages' = NoPages
    BY DEF RunCommand
  <2>2. pages' = [from |-> pages'.from, lines |-> pages'.lines]
    BY <2>1 DEF NoPages
  <2>. QED
    BY <1>2, <2>2 DEF FootersTellTheTruth, PagesMakeTheFile, PagesGoOn, TotalsAreTotals, IsRead
<1>. QED
  BY <1>1, <1>4, <1>5 DEF OutputIInv

LEMMA StutteringKeepsIInv ==
  ASSUME OutputIInv, UNCHANGED outputVars
  PROVE  OutputIInv'
<1>1. file' = file /\ tree' = tree /\ answer' = answer /\ pages' = pages
  BY DEF outputVars
<1>2. LineCount' = LineCount /\ \A x, y : TrueLines(x, y)' = TrueLines(x, y)
  BY <1>1, SameLines
<1>3. FootersTellTheTruth'
  BY <1>1, <1>2 DEF OutputIInv, FootersTellTheTruth, IsRead
<1>4. PagesMakeTheFile' /\ PagesGoOn'
  BY <1>1, <1>2 DEF OutputIInv, PagesMakeTheFile, PagesGoOn, IsRead
<1>5. CommandOutputAddsUp'
  BY <1>1 DEF OutputIInv, CommandOutputAddsUp
<1>6. TotalsAreTotals'
  BY <1>1 DEF OutputIInv, TotalsAreTotals, Listable
<1>. QED
  BY <1>1, <1>3, <1>4, <1>5, <1>6 DEF OutputIInv

LEMMA ListFilesKeepsIInv ==
  ASSUME OutputIInv, NEW recursive \in BOOLEAN, ListFiles(recursive)
  PROVE  OutputIInv'
<1>. DEFINE found == IF recursive THEN Walk ELSE ReadDir
            gives == TruncateList(found.lines, MaxListed, Len(found.lines), found.complete)
<1>0. file \in Seq(Chars) /\ file' = file
  BY DEF OutputIInv, ListFiles
<1>1. tree \in Seq(Entries) /\ tree' = tree /\ Len(tree) \in Nat
  BY DEF OutputIInv, ListFiles
<1>2. answer' = [tool |-> "list", recursive |-> recursive, gives |-> gives]
  BY DEF ListFiles
<1>3. Listable(recursive) \in SUBSET (1 .. Len(tree)) /\ Listable(recursive)' = Listable(recursive)
  BY <1>1 DEF Listable
<1>4. /\ found.complete \in BOOLEAN
      /\ FoundIn(found.lines, Len(tree), Listable(recursive), found.complete)
  <2>1. CASE recursive
    <3>1. found = Walk /\ Listable(recursive) = Listable(TRUE)
      BY <2>1 DEF Listable
    <3>2. Walk.complete \in BOOLEAN /\ FoundIn(Walk.lines, Len(tree), Listable(TRUE), Walk.complete)
      BY <1>1, WalksFind DEF WalkedSoFar, Walks
    <3>. QED
      BY <3>1, <3>2
  <2>2. CASE ~recursive
    <3>1. found = ReadDir /\ Listable(recursive) = Listable(FALSE)
      BY <2>2 DEF Listable
    <3>2. ReadDir.complete = TRUE
      BY DEF ReadDir
    <3>3. FoundIn(ReadDir.lines, Len(tree), Listable(FALSE), TRUE)
      BY <1>1, DirectoriesFind
    <3>. QED
      BY <3>1, <3>2, <3>3
  <2>. QED
    BY <2>1, <2>2
<1>. HIDE DEF found
<1>5. MaxListed \in Nat
  BY BoundsAssumption
<1>6. ListingAddsUp(gives, Listable(recursive))
  BY <1>1, <1>3, <1>4, <1>5, ListingsAddUp
<1>. HIDE DEF gives
<1>7. answer'.tool = "list" /\ answer'.recursive = recursive /\ answer'.gives = gives
  BY <1>2
<1>8. TotalsAreTotals'
  BY <1>3, <1>6, <1>7 DEF TotalsAreTotals, ListingAddsUp
<1>9. FootersTellTheTruth' /\ PagesMakeTheFile' /\ PagesGoOn' /\ CommandOutputAddsUp'
  <2>1. pages' = NoPages
    BY DEF ListFiles
  <2>2. pages' = [from |-> pages'.from, lines |-> pages'.lines]
    BY <2>1 DEF NoPages
  <2>. QED
    BY <1>7, <2>2
    DEF FootersTellTheTruth, PagesMakeTheFile, PagesGoOn, CommandOutputAddsUp, IsRead
<1>. QED
  BY <1>0, <1>1, <1>8, <1>9 DEF OutputIInv

LEMMA StepOutputIInv == OutputIInv /\ [OutputNext]_outputVars => OutputIInv'
<1>. SUFFICES ASSUME OutputIInv, [OutputNext]_outputVars PROVE OutputIInv'
  OBVIOUS
<1>1. ASSUME NEW offset \in Offsets, NEW limit \in Limits, ReadFile(offset, limit)
      PROVE  OutputIInv'
  <2>1. offset \in Nat /\ limit \in Nat
    BY BoundsAssumption
  <2>. QED
    BY <1>1, <2>1, ReadFileKeepsIInv
<1>. QED
  BY <1>1, RunCommandKeepsIInv, ListFilesKeepsIInv, StutteringKeepsIInv DEF OutputNext

LEMMA InitOutputIInv == OutputInit => OutputIInv
<1>. SUFFICES ASSUME OutputInit PROVE OutputIInv
  OBVIOUS
<1>1. << >> \in Seq(Entries) /\ << >> \in Seq(Chars)
  <2>1. << >> \in Seq(Entries)
    OBVIOUS
  <2>2. << >> \in Seq(Chars)
    OBVIOUS
  <2>. QED
    BY <2>1, <2>2
<1>2. file \in Seq(Chars) /\ tree \in Seq(Entries)
  BY <1>1, BoundsAssumption DEF OutputInit
<1>3. answer.tool = "none"
  BY DEF OutputInit, NoAnswer
<1>4. pages = [from |-> pages.from, lines |-> pages.lines]
  <2>1. pages = NoPages
    BY DEF OutputInit
  <2>. QED
    BY <2>1 DEF NoPages
<1>5. TotalsAreTotals /\ CommandOutputAddsUp
  BY <1>3 DEF TotalsAreTotals, CommandOutputAddsUp
<1>6. FootersTellTheTruth /\ PagesMakeTheFile /\ PagesGoOn
  BY <1>3, <1>4 DEF FootersTellTheTruth, PagesMakeTheFile, PagesGoOn, IsRead
<1>. QED
  BY <1>2, <1>5, <1>6 DEF OutputIInv

LEMMA OutputInvariant == OutputSpec => []OutputIInv
BY InitOutputIInv, StepOutputIInv, PTL DEF OutputSpec

(* "[complete file - N lines]", "lines 1-a and b-N of N", "showing lines   *)
(* a-b of N" and "a of N bytes": the footer of a read, of any file under   *)
(* any limits, says what was returned (readSingleFile, TruncateFileRead).   *)
THEOREM FootersAlwaysTellTheTruth == OutputSpec => []FootersTellTheTruth
<1>1. OutputIInv => FootersTellTheTruth
  BY DEF OutputIInv
<1>. QED
  BY <1>1, OutputInvariant, PTL

(* "Use offset=N to continue": whoever goes on where the footers say, in   *)
(* pages of any sizes, gets every line once and in order, and is told of   *)
(* the end when it is there.                                               *)
THEOREM PagesAlwaysMakeTheFile == OutputSpec => []PagesMakeTheFile
<1>1. OutputIInv => PagesMakeTheFile
  BY DEF OutputIInv
<1>. QED
  BY <1>1, OutputInvariant, PTL

(* The beginning and the end of a command's output that are returned, and  *)
(* the number of characters or of lines said to be between them, add up to *)
(* the output (truncateShellOutput).                                       *)
THEOREM CommandOutputAlwaysAddsUp == OutputSpec => []CommandOutputAddsUp
<1>1. OutputIInv => CommandOutputAddsUp
  BY DEF OutputIInv
<1>. QED
  BY <1>1, OutputInvariant, PTL

(* "... and N more (M total)": a listing shows the first entries in order, *)
(* says how many it leaves out, and calls a number the total only when the *)
(* walk saw everything (ListFiles, truncateList).                          *)
THEOREM TotalsAreAlwaysTotals == OutputSpec => []TotalsAreTotals
<1>1. OutputIInv => TotalsAreTotals
  BY DEF OutputIInv
<1>. QED
  BY <1>1, OutputInvariant, PTL

(* Whatever the budget and the file, a cut to a budget of bytes keeps as   *)
(* many whole characters as fit, from either end (TruncateAtRuneBoundary,  *)
(* SuffixAtRuneBoundary).                                                  *)
THEOREM CutsAlwaysFallBetweenCharacters == OutputSpec => []CutsFallBetweenCharacters
<1>1. OutputIInv => CutsFallBetweenCharacters
  BY CutsOfAnyFile DEF OutputIInv
<1>. QED
  BY <1>1, OutputInvariant, PTL
=============================================================================
