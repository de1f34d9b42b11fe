-------------------------- MODULE EvalSuite_proofs --------------------------
(***************************************************************************)
(* The suite command, for every number of processes, cells and samples and *)
(* whatever throws, fails or is killed:                                    *)
(*   - the database implements SampleLedger (LedgerIsImplemented);         *)
(*   - a manifest says "completed" only of a graded run                    *)
(*     (ManifestsTellTheTruth, from SuiteInv);                             *)
(*   - no sample is graded by two editions unless asked (NoSecondSnapshot, *)
(*     from RegradeInv);                                                   *)
(*   - no cell gets more samples than the target (TargetsAreKept, from     *)
(*     SlotInv, GapInv and AloneInv);                                      *)
(*   - exit code 0 means a full, graded and reported suite                 *)
(*     (ExitZeroIsHonest, from AloneInv, GradeInv, BookInv and DoneInv).   *)
(* The first two parts say what the folds that plan samples and filter     *)
(* audits return.                                                          *)
(***************************************************************************)
EXTENDS EvalSuite, SequenceTheorems, FiniteSetTheorems, WellFoundedInduction, TLAPS

-----------------------------------------------------------------------------
(* Induction, and the two operators on sequences. *)

(* Every nonempty set of natural numbers has a smallest element, hence     *)
(* induction, for a set that need not be spelt out as an operator.         *)
LEMMA Smallest ==
    ASSUME NEW T \in SUBSET Nat, T # {}
    PROVE  \E n \in T : \A m \in T : n <= m
<1> DEFINE R == OpToRel(<, Nat)
<1>1. IsWellFoundedOn(R, Nat)
  BY NatLessThanWellFounded
<1>2. \A x, y \in Nat : x < y => <<x, y>> \in R
  BY DEF OpToRel
<1> HIDE DEF R
<1>3. PICK x \in T : \A y \in T : ~ (<<y, x>> \in R)
  BY <1>1, WFMin
<1>4. \A y \in T : ~(y < x)
  BY <1>2, <1>3
<1> QED
  BY <1>3, <1>4

(* Induction over the natural numbers, for a set.                          *)
LEMMA Induct ==
    ASSUME NEW T \in SUBSET Nat, 0 \in T, \A n \in T : n + 1 \in T
    PROVE  T = Nat
<1> SUFFICES ASSUME Nat \ T # {} PROVE FALSE
  OBVIOUS
<1>1. PICK n \in Nat \ T : \A m \in Nat \ T : n <= m
  BY Smallest
<1>2. n # 0 /\ n - 1 \in Nat
  BY <1>1
<1>3. n - 1 \in T
  BY <1>1, <1>2
<1> QED
  BY <1>1, <1>2, <1>3

(* A function over the first n numbers is a sequence.                      *)
LEMMA FunctionIsSeq ==
    ASSUME NEW S, NEW n \in Nat, NEW f \in [1..n -> S]
    PROVE  f \in Seq(S) /\ Len(f) = n /\ DOMAIN f = 1..n
<1>1. f \in Seq(S)
  BY SeqDef
<1>2. Len(f) \in Nat /\ DOMAIN f = 1..Len(f) /\ DOMAIN f = 1..n
  BY <1>1, LenProperties
<1>3. Len(f) <= n
  <2>1. CASE Len(f) = 0
    BY <2>1
  <2>2. CASE Len(f) # 0
    <3>1. Len(f) \in 1..Len(f)
      BY <1>2, <2>2
    <3> QED
      BY <1>2, <3>1
  <2> QED
    BY <2>1, <2>2
<1>4. n <= Len(f)
  <2>1. CASE n = 0
    BY <1>2, <2>1
  <2>2. CASE n # 0
    <3>1. n \in 1..n
      BY <2>2
    <3> QED
      BY <1>2, <3>1
  <2> QED
    BY <2>1, <2>2
<1> QED
  BY <1>1, <1>2, <1>3, <1>4

\* The recursion in FlattenSeq, up to its n-th block.
Prefixing(f, blocks, n) ==
    f = [i \in 1..n |-> IF i = 1 THEN blocks[i] ELSE f[i - 1] \o blocks[i]]

\* flat is the first n blocks in a row: every element of a block is there,
\* after what the earlier blocks and the block before it hold.
Gathers(flat, blocks, n) ==
    /\ \A k \in DOMAIN flat : \E b \in 1..n : \E o \in DOMAIN blocks[b] :
          /\ flat[k] = blocks[b][o]
          /\ \A c \in 1..b : \A q \in DOMAIN blocks[c] :
                c < b \/ q < o => \E j \in 1..(k - 1) : flat[j] = blocks[c][q]
    /\ \A b \in 1..n : \A o \in DOMAIN blocks[b] :
          \E k \in DOMAIN flat : flat[k] = blocks[b][o]
    /\ (\A b, c \in 1..n : \A o \in DOMAIN blocks[b], q \in DOMAIN blocks[c] :
            blocks[b][o] = blocks[c][q] => b = c /\ o = q)
          => \A k, j \in DOMAIN flat : flat[k] = flat[j] => k = j

(* Every prefix of a sequence of sequences can be flattened.               *)
LEMMA PrefixesExist ==
    ASSUME NEW S, NEW blocks \in Seq(Seq(S))
    PROVE  \A n \in 1..Len(blocks) : \E f : Prefixing(f, blocks, n)
<1> DEFINE T == {n \in Nat : \E f : Prefixing(f, blocks, n)}
<1>1. 0 \in T
  <2>1. Prefixing(<<>>, blocks, 0)
    BY DEF Prefixing
  <2> QED
    BY <2>1
<1>2. ASSUME NEW n \in T PROVE n + 1 \in T
  <2>1. n \in Nat
    OBVIOUS
  <2>2. PICK f : Prefixing(f, blocks, n)
    OBVIOUS
  <2> DEFINE g == [i \in 1..(n + 1) |->
                      IF i = n + 1 THEN IF i = 1 THEN blocks[i] ELSE f[i - 1] \o blocks[i]
                                   ELSE f[i]]
  <2>3. \A i \in 1..(n + 1) : g[i] = IF i = 1 THEN blocks[i] ELSE g[i - 1] \o blocks[i]
    <3> SUFFICES ASSUME NEW i \in 1..(n + 1)
                 PROVE  g[i] = IF i = 1 THEN blocks[i] ELSE g[i - 1] \o blocks[i]
      OBVIOUS
    <3>1. CASE i = n + 1
      <4>1. i # 1 => i - 1 \in 1..(n + 1) /\ i - 1 # n + 1
        BY <2>1, <3>1
      <4>2. i # 1 => g[i - 1] = f[i - 1]
        BY <4>1
      <4> QED
        BY <3>1, <4>2
    <3>2. CASE i # n + 1
      <4>1. i \in 1..n /\ (i # 1 => i - 1 \in 1..n /\ i - 1 # n + 1 /\ i - 1 \in 1..(n + 1))
        BY <2>1, <3>2
      <4>2. f[i] = IF i = 1 THEN blocks[i] ELSE f[i - 1] \o blocks[i]
        BY <2>2, <4>1 DEF Prefixing
      <4>3. g[i] = f[i] /\ (i # 1 => g[i - 1] = f[i - 1])
        BY <3>2, <4>1
      <4> QED
        BY <4>2, <4>3
    <3> QED
      BY <3>1, <3>2
  <2>4. Prefixing(g, blocks, n + 1)
    <3>1. g = [i \in 1..(n + 1) |-> g[i]]
      OBVIOUS
    <3> HIDE DEF g
    <3> QED
      BY <2>3, <3>1 DEF Prefixing
  <2> QED
    BY <2>1, <2>4
<1> HIDE DEF T
<1>3. T = Nat
  BY <1>1, <1>2, Induct DEF T
<1>4. \A n \in 1..Len(blocks) : n \in T
  BY <1>3
<1>5. \A n \in T : \E f : Prefixing(f, blocks, n)
  BY DEF T
<1> QED
  BY <1>4, <1>5

\* One more block.
LEMMA GathersNext ==
    ASSUME NEW S, NEW blocks, NEW n \in Nat, NEW flat \in Seq(S), Gathers(flat, blocks, n),
           blocks[n + 1] \in Seq(S)
    PROVE  flat \o blocks[n + 1] \in Seq(S) /\ Gathers(flat \o blocks[n + 1], blocks, n + 1)
<1> DEFINE last == blocks[n + 1]
           all == flat \o last
           L == Len(flat)
<1>1. /\ all \in Seq(S) /\ Len(all) = L + Len(last) /\ L \in Nat /\ Len(last) \in Nat
      /\ DOMAIN all = 1..(L + Len(last)) /\ DOMAIN flat = 1..L /\ DOMAIN last = 1..Len(last)
      /\ \A i \in 1..(L + Len(last)) : all[i] = IF i <= L THEN flat[i] ELSE last[i - L]
  BY ConcatProperties, LenProperties
<1> HIDE DEF all, L
<1>2. /\ \A k \in 1..L : k \in DOMAIN all /\ k \in DOMAIN flat /\ all[k] = flat[k]
      /\ \A o \in DOMAIN last : L + o \in DOMAIN all /\ all[L + o] = last[o]
      /\ \A k \in DOMAIN all : k \notin 1..L => k - L \in DOMAIN last /\ all[k] = last[k - L]
  BY <1>1, SMTT(60)
<1>3. ASSUME NEW b \in 1..(n + 1), NEW o \in DOMAIN blocks[b]
      PROVE  \E k \in DOMAIN all : all[k] = blocks[b][o] /\ (b <= n => k \in 1..L)
  <2>1. CASE b = n + 1
    BY <1>2, <2>1
  <2>2. CASE b # n + 1
    <3>1. b \in 1..n
      BY <2>2
    <3>2. PICK k \in DOMAIN flat : flat[k] = blocks[b][o]
      BY <3>1 DEF Gathers
    <3> QED
      BY <1>1, <1>2, <3>2
  <2> QED
    BY <2>1, <2>2
<1>4. ASSUME NEW k \in DOMAIN all
      PROVE  \E b \in 1..(n + 1) : \E o \in DOMAIN blocks[b] :
                /\ all[k] = blocks[b][o]
                /\ \A c \in 1..b : \A q \in DOMAIN blocks[c] :
                      c < b \/ q < o => \E j \in 1..(k - 1) : all[j] = blocks[c][q]
  <2>1. CASE k \in 1..L
    <3>0. PICK b \in 1..n : \E o \in DOMAIN blocks[b] :
                /\ flat[k] = blocks[b][o]
                /\ \A c \in 1..b : \A q \in DOMAIN blocks[c] :
                      c < b \/ q < o => \E j \in 1..(k - 1) : flat[j] = blocks[c][q]
      BY <1>2, <2>1 DEF Gathers
    <3>1. PICK o \in DOMAIN blocks[b] :
                /\ flat[k] = blocks[b][o]
                /\ \A c \in 1..b : \A q \in DOMAIN blocks[c] :
                      c < b \/ q < o => \E j \in 1..(k - 1) : flat[j] = blocks[c][q]
      BY <3>0
    <3>2. b \in 1..(n + 1) /\ all[k] = blocks[b][o]
      BY <1>2, <2>1, <3>1
    <3>3. ASSUME NEW c \in 1..b, NEW q \in DOMAIN blocks[c], c < b \/ q < o
          PROVE  \E j \in 1..(k - 1) : all[j] = blocks[c][q]
      <4>1. PICK j \in 1..(k - 1) : flat[j] = blocks[c][q]
        BY <3>1, <3>3
      <4>2. j \in 1..L
        BY <1>1, <2>1
      <4> QED
        BY <1>2, <4>1, <4>2
    <3> QED
      BY <3>2, <3>3
  <2>2. CASE k \notin 1..L
    <3> DEFINE b == n + 1
               o == k - L
    <3>1. b \in 1..(n + 1) /\ o \in DOMAIN blocks[b] /\ all[k] = blocks[b][o]
      BY <1>2, <2>2
    <3>2. ASSUME NEW c \in 1..b, NEW q \in DOMAIN blocks[c], c < b \/ q < o
          PROVE  \E j \in 1..(k - 1) : all[j] = blocks[c][q]
      <4>1. CASE c < b
        <5>1. PICK j \in DOMAIN all : all[j] = blocks[c][q] /\ (c <= n => j \in 1..L)
          BY <1>3
        <5>2. j \in 1..L /\ k \in 1..(L + Len(last))
          BY <1>1, <4>1, <5>1
        <5>3. j \in 1..(k - 1)
          BY <1>1, <2>2, <5>2
        <5> QED
          BY <5>1, <5>3
      <4>2. CASE ~(c < b)
        <5>1. c = b /\ q < o
          BY <3>2, <4>2
        <5>2. q \in DOMAIN last /\ all[L + q] = last[q] /\ q \in 1..Len(last)
          BY <1>1, <1>2, <5>1
        <5>3. L + q \in 1..(k - 1)
          BY <1>1, <5>1, <5>2, SMTT(60)
        <5> QED
          BY <5>1, <5>2, <5>3
      <4> QED
        BY <4>1, <4>2
    <3> HIDE DEF b, o
    <3> QED
      BY <3>1, <3>2
  <2> QED
    BY <2>1, <2>2
<1>5. ASSUME \A b, c \in 1..(n + 1) : \A o \in DOMAIN blocks[b], q \in DOMAIN blocks[c] :
                 blocks[b][o] = blocks[c][q] => b = c /\ o = q,
             NEW k \in DOMAIN all, NEW j \in DOMAIN all, all[k] = all[j]
      PROVE  k = j
  <2>1. \A i, h \in DOMAIN flat : flat[i] = flat[h] => i = h
    <3>1. \A b, c \in 1..n : b \in 1..(n + 1) /\ c \in 1..(n + 1)
      OBVIOUS
    <3>2. \A b, c \in 1..n : \A o \in DOMAIN blocks[b], q \in DOMAIN blocks[c] :
                 blocks[b][o] = blocks[c][q] => b = c /\ o = q
      BY <1>5, <3>1
    <3> QED
      BY <3>2 DEF Gathers
  <2>2. n + 1 \in 1..(n + 1) /\ \A b \in 1..n : b \in 1..(n + 1) /\ b # n + 1
    OBVIOUS
  <2>3. \A i \in DOMAIN flat : \E b \in 1..n : \E o \in DOMAIN blocks[b] : flat[i] = blocks[b][o]
    BY DEF Gathers
  <2>4. \A i \in DOMAIN flat : \A o \in DOMAIN last : flat[i] # last[o]
    BY <1>5, <2>2, <2>3
  <2>5. \A o, q \in DOMAIN last : last[o] = last[q] => o = q
    BY <1>5, <2>2
  <2>6. CASE k \in 1..L /\ j \in 1..L
    BY <1>1, <1>2, <1>5, <2>1, <2>6
  <2>7. CASE k \notin 1..L /\ j \notin 1..L
    <3>1. k - L = j - L
      BY <1>2, <1>5, <2>5, <2>7
    <3> QED
      BY <1>1, <3>1
  <2>8. CASE (k \in 1..L /\ j \notin 1..L) \/ (k \notin 1..L /\ j \in 1..L)
    BY <1>2, <1>5, <2>4, <2>8
  <2> QED
    BY <2>6, <2>7, <2>8
<1>6. Gathers(all, blocks, n + 1)
  BY <1>3, <1>4, <1>5 DEF Gathers
<1> QED
  BY <1>1, <1>6 DEF all

(* FlattenSeq has the elements of the blocks, block after block.           *)
LEMMA FlattenGathers ==
    ASSUME NEW S, NEW blocks \in Seq(Seq(S))
    PROVE  FlattenSeq(blocks) \in Seq(S) /\ Gathers(FlattenSeq(blocks), blocks, Len(blocks))
<1> DEFINE N == Len(blocks)
<1>0. N \in Nat /\ DOMAIN blocks = 1..N /\ \A i \in 1..N : blocks[i] \in Seq(S)
  BY LenProperties, ElementOfSeq
<1>1. CASE N = 0
  <2>1. FlattenSeq(blocks) = <<>> /\ 1..N = {}
    BY <1>0, <1>1, EmptySeq DEF FlattenSeq
  <2> QED
    BY <1>1, <2>1 DEF Gathers
<1>2. CASE N # 0
  <2> DEFINE F == CHOOSE f : Prefixing(f, blocks, N)
  <2>1. Prefixing(F, blocks, N)
    BY <1>0, <1>2, PrefixesExist
  <2>2. FlattenSeq(blocks) = F[N]
    BY <1>2 DEF FlattenSeq, Prefixing
  <2> HIDE DEF F
  <2> DEFINE T == {n \in Nat : n + 1 \in 1..N =>
                       F[n + 1] \in Seq(S) /\ Gathers(F[n + 1], blocks, n + 1)}
  <2>3. 0 \in T
    <3>1. F[1] = blocks[1] /\ blocks[1] \in Seq(S)
      BY <1>0, <1>2, <2>1 DEF Prefixing
    <3>2. Gathers(<<>>, blocks, 0)
      BY DEF Gathers
    <3>3. <<>> \in Seq(S) /\ <<>> \o blocks[1] = blocks[1]
      BY <3>1, ConcatEmptySeq
    <3>4. Gathers(blocks[1], blocks, 1)
      <4>1. blocks[0 + 1] = blocks[1]
        OBVIOUS
      <4>2. Gathers(<<>> \o blocks[0 + 1], blocks, 0 + 1)
        BY <3>1, <3>2, <3>3, <4>1, GathersNext
      <4> QED
        BY <3>3, <4>1, <4>2
    <3> QED
      BY <3>1, <3>4
  <2>4. ASSUME NEW n \in T PROVE n + 1 \in T
    <3>1. SUFFICES ASSUME (n + 1) + 1 \in 1..N
                   PROVE  F[(n + 1) + 1] \in Seq(S) /\ Gathers(F[(n + 1) + 1], blocks, (n + 1) + 1)
      OBVIOUS
    <3>2. n + 1 \in 1..N /\ n + 1 \in Nat
      BY <1>0, <3>1
    <3>3. F[n + 1] \in Seq(S) /\ Gathers(F[n + 1], blocks, n + 1)
      BY <3>2
    <3>4. F[(n + 1) + 1] = F[n + 1] \o blocks[(n + 1) + 1] /\ blocks[(n + 1) + 1] \in Seq(S)
      <4>0. \A i \in 1..N : F[i] = IF i = 1 THEN blocks[i] ELSE F[i - 1] \o blocks[i]
        BY <2>1 DEF Prefixing
      <4> DEFINE i == (n + 1) + 1
      <4>1. i \in 1..N /\ i # 1 /\ i - 1 = n + 1
        BY <3>1, <3>2
      <4> HIDE DEF i
      <4>2. F[i] = F[n + 1] \o blocks[i] /\ blocks[i] \in Seq(S)
        BY <1>0, <4>0, <4>1
      <4> QED
        BY <4>2 DEF i
    <3> HIDE DEF T
    <3> QED
      BY <3>2, <3>3, <3>4, GathersNext
  <2> HIDE DEF T
  <2>5. T = Nat
    BY <2>3, <2>4, Induct DEF T
  <2>6. N - 1 \in T /\ N - 1 + 1 = N /\ N \in 1..N
    BY <1>0, <1>2, <2>5
  <2>7. F[N] \in Seq(S) /\ Gathers(F[N], blocks, N)
    BY <2>6 DEF T
  <2> QED
    BY <2>2, <2>7
<1> QED
  BY <1>1, <1>2

\* The recursion in Filter, for the positions P whose elements pass the test.
Filtering(f, seq, P) ==
    f = [n \in 0..Len(seq) |->
            IF n = 0 THEN <<>> ELSE IF n \in P THEN Append(f[n - 1], seq[n]) ELSE f[n - 1]]

\* kept is what seq has at the positions P, in its order.
KeptFrom(kept, seq, P) ==
    /\ \A k \in DOMAIN kept : \E i \in P :
          /\ kept[k] = seq[i]
          /\ \A h \in P : h < i => \E j \in 1..(k - 1) : kept[j] = seq[h]
    /\ \A i \in P : \E k \in DOMAIN kept : kept[k] = seq[i]
    /\ (\A i, h \in P : seq[i] = seq[h] => i = h)
          => \A k, j \in DOMAIN kept : kept[k] = kept[j] => k = j

(* The recursion has a solution.                                           *)
LEMMA FilteringExists ==
    ASSUME NEW S, NEW seq \in Seq(S), NEW P
    PROVE  \E f : Filtering(f, seq, P)
<1> DEFINE Grown(f, n) == IF n = 0 THEN <<>>
                         ELSE IF n \in P THEN Append(f[n - 1], seq[n]) ELSE f[n - 1]
           T == {m \in Nat : \E f : f = [n \in 0..m |-> Grown(f, n)]}
<1>1. 0 \in T
  <2> DEFINE f == [n \in 0..0 |-> <<>>]
  <2>1. f = [n \in 0..0 |-> Grown(f, n)]
    OBVIOUS
  <2> QED
    BY <2>1
<1>2. ASSUME NEW m \in T PROVE m + 1 \in T
  <2>1. m \in Nat
    OBVIOUS
  <2>2. PICK f : f = [n \in 0..m |-> Grown(f, n)]
    OBVIOUS
  <2> DEFINE g == [n \in 0..(m + 1) |-> IF n = m + 1 THEN Grown(f, n) ELSE f[n]]
  <2>3. \A n \in 0..(m + 1) : g[n] = Grown(g, n)
    <3> SUFFICES ASSUME NEW n \in 0..(m + 1) PROVE g[n] = Grown(g, n)
      OBVIOUS
    <3>1. CASE n = m + 1
      <4>1. n # 0 /\ n - 1 \in 0..(m + 1) /\ n - 1 # m + 1
        BY <2>1, <3>1
      <4>2. g[n - 1] = f[n - 1] /\ g[n] = Grown(f, n)
        BY <3>1, <4>1
      <4> QED
        BY <4>2
    <3>2. CASE n # m + 1
      <4>1. n \in 0..m /\ (n # 0 => n - 1 \in 0..(m + 1) /\ n - 1 # m + 1)
        BY <2>1, <3>2
      <4>2. f[n] = Grown(f, n)
        BY <2>2, <4>1
      <4>3. g[n] = f[n] /\ (n # 0 => g[n - 1] = f[n - 1])
        BY <3>2, <4>1
      <4> QED
        BY <4>2, <4>3
    <3> QED
      BY <3>1, <3>2
  <2>4. g = [n \in 0..(m + 1) |-> Grown(g, n)]
    <3>1. g = [n \in 0..(m + 1) |-> g[n]]
      OBVIOUS
    <3> HIDE DEF g, Grown
    <3> QED
      BY <2>3, <3>1
  <2> HIDE DEF g, Grown
  <2> QED
    BY <2>1, <2>4
<1>3. T = Nat
  <2> HIDE DEF T
  <2> QED
    BY <1>1, <1>2, Induct DEF T
<1>4. Len(seq) \in T
  BY <1>3
<1> QED
  BY <1>4 DEF Filtering

(* Its solution keeps the order, every element at P and nothing else.      *)
LEMMA FilteringKeeps ==
    ASSUME NEW S, NEW seq \in Seq(S), NEW P \in SUBSET (1..Len(seq)),
           NEW f, Filtering(f, seq, P)
    PROVE  f[Len(seq)] \in Seq(S) /\ KeptFrom(f[Len(seq)], seq, P)
<1> DEFINE N == Len(seq)
           Q(n) == P \cap (1..n)
           T == {n \in Nat : n <= N => f[n] \in Seq(S) /\ KeptFrom(f[n], seq, Q(n))}
<1>0. N \in Nat /\ \A n \in 0..N : f[n] = IF n = 0 THEN <<>>
                         ELSE IF n \in P THEN Append(f[n - 1], seq[n]) ELSE f[n - 1]
  <2>1. N \in Nat
    BY LenProperties
  <2>2. \A n \in 0..N : f[n] = IF n = 0 THEN <<>>
                         ELSE IF n \in P THEN Append(f[n - 1], seq[n]) ELSE f[n - 1]
    BY DEF Filtering
  <2> QED
    BY <2>1, <2>2
<1>1. 0 \in T
  <2>1. f[0] = <<>> /\ Q(0) = {}
    BY <1>0
  <2>2. KeptFrom(<<>>, seq, {})
    BY DEF KeptFrom
  <2>3. f[0] \in Seq(S) /\ KeptFrom(f[0], seq, Q(0))
    BY <2>1, <2>2, EmptySeq
  <2> QED
    BY <2>3
<1>2. ASSUME NEW n \in T PROVE n + 1 \in T
  <2> SUFFICES ASSUME n + 1 <= N
               PROVE  f[n + 1] \in Seq(S) /\ KeptFrom(f[n + 1], seq, Q(n + 1))
    OBVIOUS
  <2> DEFINE old == f[n]
             new == f[n + 1]
             x == seq[n + 1]
  <2>1. n \in Nat /\ n + 1 \in 0..N /\ n + 1 # 0 /\ (n + 1) - 1 = n /\ n <= N /\ n + 1 \in 1..N
    BY <1>0
  <2>2. old \in Seq(S) /\ KeptFrom(old, seq, Q(n)) /\ x \in S
    BY <2>1, ElementOfSeq
  <2>3. CASE n + 1 \notin P
    <3>1. new = old
      BY <1>0, <2>1, <2>3
    <3>2. Q(n + 1) = Q(n)
      BY <2>1, <2>3
    <3> QED
      BY <2>2, <3>1, <3>2
  <2>4. CASE n + 1 \in P
    <3>1. new = Append(old, x)
      BY <1>0, <2>1, <2>4
    <3>2. Q(n + 1) = Q(n) \cup {n + 1} /\ n + 1 \notin Q(n) /\ \A i \in Q(n) : i < n + 1
      BY <2>1, <2>4
    <3> DEFINE L == Len(old)
               R == Q(n)
    <3>3. L \in Nat /\ DOMAIN old = 1..L
      BY <2>2, LenProperties
    <3> HIDE DEF old, new, x, R, T
    <3>4. /\ new \in Seq(S) /\ Len(new) = L + 1 /\ new[L + 1] = x
          /\ \A j \in 1..L : new[j] = old[j]
      BY <2>2, <3>1, AppendProperties
    <3>5. DOMAIN new = 1..(L + 1)
      BY <3>4, LenProperties
    <3> HIDE DEF L
    <3>6. KeptFrom(old, seq, R)
      BY <2>2 DEF R
    <3>7. ASSUME NEW i \in R \cup {n + 1}
          PROVE  \E k \in DOMAIN new : new[k] = seq[i] /\ (i \in R => k \in 1..L)
      <4>1. CASE i \in R
        <5>1. PICK k \in DOMAIN old : old[k] = seq[i]
          BY <3>6, <4>1 DEF KeptFrom
        <5> QED
          BY <3>3, <3>4, <3>5, <5>1
      <4>2. CASE i \notin R
        <5>1. i = n + 1 /\ L + 1 \in DOMAIN new
          BY <3>3, <3>5, <4>2
        <5> QED
          BY <3>4, <4>2, <5>1 DEF x
      <4> QED
        BY <4>1, <4>2
    <3>8. ASSUME NEW k \in DOMAIN new
          PROVE  \E i \in R \cup {n + 1} :
                    /\ new[k] = seq[i]
                    /\ \A h \in R \cup {n + 1} : h < i => \E j \in 1..(k - 1) : new[j] = seq[h]
      <4>1. CASE k \in 1..L
        <5>1. PICK i \in R : /\ old[k] = seq[i]
                             /\ \A h \in R : h < i => \E j \in 1..(k - 1) : old[j] = seq[h]
          BY <3>3, <3>6, <4>1 DEF KeptFrom
        <5>2. i < n + 1 /\ i \in Nat
          BY <2>1, <3>2 DEF R
        <5>3. ASSUME NEW h \in R \cup {n + 1}, h < i
              PROVE  \E j \in 1..(k - 1) : new[j] = seq[h]
          <6>1. h \in R
            BY <2>1, <5>2, <5>3
          <6>2. PICK j \in 1..(k - 1) : old[j] = seq[h]
            BY <5>1, <5>3, <6>1
          <6>3. j \in 1..L
            BY <3>3, <4>1
          <6> QED
            BY <3>4, <6>2, <6>3
        <5> QED
          BY <3>4, <4>1, <5>1, <5>3
      <4>2. CASE k \notin 1..L
        <5>1. k = L + 1
          BY <3>3, <3>5, <4>2
        <5>2. ASSUME NEW h \in R \cup {n + 1}, h < n + 1
              PROVE  \E j \in 1..(k - 1) : new[j] = seq[h]
          <6>1. h \in R
            BY <2>1, <5>2
          <6>2. PICK j \in DOMAIN new : new[j] = seq[h] /\ j \in 1..L
            BY <3>7, <6>1
          <6> QED
            BY <3>3, <5>1, <6>2
        <5> QED
          BY <3>4, <5>1, <5>2 DEF x
      <4> QED
        BY <4>1, <4>2
    <3>9. ASSUME \A i, h \in R \cup {n + 1} : seq[i] = seq[h] => i = h,
                 NEW k \in DOMAIN new, NEW j \in DOMAIN new, new[k] = new[j]
          PROVE  k = j
      <4>1. \A a, b \in DOMAIN old : old[a] = old[b] => a = b
        BY <3>6, <3>9 DEF KeptFrom
      <4>2. \A a \in DOMAIN old : old[a] # x
        <5> SUFFICES ASSUME NEW a \in DOMAIN old, old[a] = x PROVE FALSE
          OBVIOUS
        <5>1. PICK i \in R : old[a] = seq[i]
          BY <3>6 DEF KeptFrom
        <5>2. i # n + 1
          BY <3>2 DEF R
        <5> QED
          BY <3>9, <5>1, <5>2 DEF x
      <4> QED
        BY <3>3, <3>4, <3>5, <3>9, <4>1, <4>2
    <3>10. KeptFrom(new, seq, R \cup {n + 1})
      BY <3>7, <3>8, <3>9 DEF KeptFrom
    <3> QED
      BY <3>2, <3>4, <3>10 DEF R, new
  <2> QED
    BY <2>3, <2>4
<1>3. T = Nat
  <2> HIDE DEF T
  <2> QED
    BY <1>1, <1>2, Induct DEF T
<1>4. \A n \in T : n <= N => f[n] \in Seq(S) /\ KeptFrom(f[n], seq, Q(n))
  OBVIOUS
<1> HIDE DEF T
<1>5. f[N] \in Seq(S) /\ KeptFrom(f[N], seq, Q(N))
  <2> HIDE DEF N, Q
  <2>1. N \in T /\ N <= N
    BY <1>0, <1>3
  <2> QED
    BY <1>4, <2>1
<1>6. Q(N) = P
  OBVIOUS
<1> QED
  BY <1>5, <1>6

(* Filter keeps the elements at the given positions, in their order.       *)
LEMMA FilterKeeps ==
    ASSUME NEW S, NEW seq \in Seq(S), NEW P \in SUBSET (1..Len(seq))
    PROVE  Filter(seq, P) \in Seq(S) /\ KeptFrom(Filter(seq, P), seq, P)
<1> DEFINE F == CHOOSE f : Filtering(f, seq, P)
<1>1. Filtering(F, seq, P)
  BY FilteringExists
<1>2. Filter(seq, P) = F[Len(seq)]
  BY DEF Filter, Filtering
<1> HIDE DEF F
<1> QED
  BY <1>1, <1>2, FilteringKeeps

-----------------------------------------------------------------------------
(* The rows of a cell, and the plan over them. *)

\* The failed rows of a cell: each one is an index more that it needs.
FailedCount(runs, cell) == CountIn(runs, cell, HarnessFailure)

\* The rows of a cell are samples of it, with indices below some bound.
Bounded(runs, cell) ==
    \E b \in Nat : \A s \in Present(runs, cell) :
        s = [cell |-> cell, index |-> s.index] /\ s.index \in Nat /\ s.index < b

(* Samples of one cell with indices in an interval are no more than it.    *)
LEMMA SamplesOfCell ==
    ASSUME NEW T, NEW c, NEW a \in Nat, NEW b \in Nat, a <= b,
           \A s \in T : s = [cell |-> c, index |-> s.index] /\ s.index \in a..(b - 1)
    PROVE  IsFiniteSet(T) /\ Cardinality(T) \in Nat /\ Cardinality(T) <= b - a
<1> DEFINE f == [s \in T |-> s.index]
           I == a..(b - 1)
<1>1. f \in Injection(T, I)
  BY DEF Injection, IsInjective
<1>2. IsFiniteSet(I) /\ Cardinality(I) = b - a
  BY FS_Interval
<1> HIDE DEF f, I
<1>3. IsFiniteSet(T) /\ Cardinality(T) <= Cardinality(I)
  BY <1>1, <1>2, FS_Injection
<1> QED
  BY <1>2, <1>3, FS_CardinalityType

(* The counts of a cell are numbers, and they add up to its rows.          *)
LEMMA CountsOf ==
    ASSUME NEW runs, NEW c, Bounded(runs, c)
    PROVE  /\ IsFiniteSet(Present(runs, c)) /\ Cardinality(Present(runs, c)) \in Nat
           /\ CompletedCount(runs, c) \in Nat /\ ActiveCount(runs, c) \in Nat
           /\ FailedCount(runs, c) \in Nat
           /\ (\A s \in Present(runs, c) : runs[s] \in {"completed"} \cup Reserved \cup HarnessFailure)
                => CompletedCount(runs, c) + ActiveCount(runs, c) + FailedCount(runs, c)
                     = Cardinality(Present(runs, c))
<1> DEFINE P == Present(runs, c)
           C == {s \in P : runs[s] \in {"completed"}}
           A == {s \in P : runs[s] \in Reserved}
           F == {s \in P : runs[s] \in HarnessFailure}
<1>1. IsFiniteSet(P)
  <2>1. PICK b \in Nat : \A s \in P : s = [cell |-> c, index |-> s.index] /\ s.index \in 0..(b - 1)
    BY DEF Bounded
  <2>2. 0 \in Nat /\ 0 <= b
    OBVIOUS
  <2> HIDE DEF P
  <2> QED
    BY <2>1, <2>2, SamplesOfCell
<1>2. C \in SUBSET P /\ A \in SUBSET P /\ F \in SUBSET P
  OBVIOUS
<1>3. /\ CompletedCount(runs, c) = Cardinality(C) /\ ActiveCount(runs, c) = Cardinality(A)
      /\ FailedCount(runs, c) = Cardinality(F)
  BY DEF CompletedCount, ActiveCount, FailedCount, CountIn
<1>4. /\ (C \cup A) \cap F = {} /\ C \cap A = {}
  BY DEF Reserved, HarnessFailure
<1>5. (\A s \in P : runs[s] \in {"completed"} \cup Reserved \cup HarnessFailure)
          => P = (C \cup A) \cup F
  OBVIOUS
<1> HIDE DEF P, C, A, F
<1>6. IsFiniteSet(C) /\ IsFiniteSet(A) /\ IsFiniteSet(F)
  BY <1>1, <1>2, FS_Subset
<1>7. /\ Cardinality(P) \in Nat /\ Cardinality(C) \in Nat /\ Cardinality(A) \in Nat
      /\ Cardinality(F) \in Nat
  BY <1>1, <1>6, FS_CardinalityType
<1>8. IsFiniteSet(C \cup A) /\ Cardinality(C \cup A) = Cardinality(C) + Cardinality(A)
  BY <1>4, <1>6, <1>7, FS_Union, FS_EmptySet
<1>9. Cardinality((C \cup A) \cup F) = Cardinality(C \cup A) + Cardinality(F)
  <2> DEFINE CA == C \cup A
  <2>1. IsFiniteSet(CA) /\ Cardinality(CA) \in Nat /\ CA \cap F = {}
    BY <1>4, <1>7, <1>8
  <2> HIDE DEF CA
  <2>2. Cardinality(CA \cup F) = Cardinality(CA) + Cardinality(F) - Cardinality(CA \cap F)
    BY <1>6, <2>1, FS_Union
  <2>3. Cardinality(CA \cup F) = Cardinality(CA) + Cardinality(F)
    BY <1>7, <2>1, <2>2, FS_EmptySet
  <2> QED
    BY <2>3 DEF CA
<1> QED
  BY <1>1, <1>3, <1>5, <1>7, <1>8, <1>9 DEF P

(* The next index is above every row, and right above the last.            *)
LEMMA NextIndexIs ==
    ASSUME NEW runs, NEW c, Bounded(runs, c)
    PROVE  /\ NextSampleIndex(runs, c) \in Nat
           /\ \A s \in Present(runs, c) : s.index < NextSampleIndex(runs, c)
           /\ NextSampleIndex(runs, c) # 0 =>
                 \E s \in Present(runs, c) : s.index = NextSampleIndex(runs, c) - 1
<1> DEFINE P == Present(runs, c)
           S == {0} \cup {s.index + 1 : s \in P}
           U == {u \in Nat : \A x \in S : x <= u}
<1>1. PICK b \in Nat : \A s \in P : s.index \in Nat /\ s.index < b
  BY DEF Bounded
<1>2. \A x \in S : x \in Nat /\ x <= b
  BY <1>1
<1>3. b \in U
  BY <1>2
<1>4. PICK u \in U : \A v \in U : u <= v
  <2> HIDE DEF U
  <2>1. U \in SUBSET Nat
    BY DEF U
  <2> QED
    BY <1>3, <2>1, Smallest
<1>5. u \in S
  <2> SUFFICES ASSUME u \notin S PROVE FALSE
    OBVIOUS
  <2>1. 0 \in S /\ u \in Nat /\ \A x \in S : x <= u /\ x # u
    OBVIOUS
  <2> HIDE DEF S, U
  <2>2. u # 0 /\ u - 1 \in Nat /\ \A x \in S : x <= u - 1
    BY <1>2, <2>1
  <2>3. u - 1 \in U
    BY <2>2 DEF U
  <2> QED
    BY <1>4, <2>1, <2>3
<1>6. \E x \in S : \A y \in S : x >= y
  <2>1. \A y \in S : u >= y
    BY <1>2
  <2> QED
    BY <1>5, <2>1
<1> DEFINE m == NextSampleIndex(runs, c)
<1>7. m \in S /\ \A y \in S : m >= y
  <2>1. m = CHOOSE x \in S : \A y \in S : x >= y
    BY DEF NextSampleIndex, Max
  <2> HIDE DEF S, m
  <2> QED
    BY <1>6, <2>1
<1> HIDE DEF m
<1>8. \A s \in P : s.index < m
  BY <1>1, <1>2, <1>7
<1>9. m # 0 => \E s \in P : s.index = m - 1
  BY <1>1, <1>7
<1> QED
  BY <1>2, <1>7, <1>8, <1>9 DEF m

\* A cell is open in a pass, and what the pass plans for it.
Room(runs, c, target, passes) == CompletedCount(runs, c) + ActiveCount(runs, c) + passes < target
Slot(runs, c, passes) == [cell |-> c, index |-> NextSampleIndex(runs, c) + passes]

\* The samples of one pass.
IsPass(block, Cells, runs, cells, target, passes) ==
    /\ block \in Seq([cell : Cells, index : Nat])
    /\ \A k \in DOMAIN block : \E i \in DOMAIN cells :
          Room(runs, cells[i], target, passes) /\ block[k] = Slot(runs, cells[i], passes)
    /\ \A i \in DOMAIN cells : Room(runs, cells[i], target, passes) =>
          \E k \in DOMAIN block : block[k] = Slot(runs, cells[i], passes)
    /\ (\A i, h \in DOMAIN cells : cells[i] = cells[h] => i = h) =>
          \A k, j \in DOMAIN block : block[k] = block[j] => k = j

(* A pass plans one sample for each open cell, in their order.             *)
LEMMA PassIs ==
    ASSUME NEW Cells, NEW cells \in Seq(Cells), NEW runs, NEW target, NEW passes \in Nat,
           \A c \in Cells : Bounded(runs, c)
    PROVE  IsPass(PlannedPass(runs, cells, target, passes), Cells, runs, cells, target, passes)
<1> DEFINE P == {i \in DOMAIN cells : Room(runs, cells[i], target, passes)}
           open == Filter(cells, P)
           asked == PlannedPass(runs, cells, target, passes)
<1>1. Len(cells) \in Nat /\ DOMAIN cells = 1..Len(cells) /\ \A i \in DOMAIN cells : cells[i] \in Cells
  BY LenProperties, ElementOfSeq
<1>5. open \in Seq(Cells) /\ KeptFrom(open, cells, P)
  <2>1. P \in SUBSET (1..Len(cells))
    BY <1>1
  <2> HIDE DEF P
  <2> QED
    BY <2>1, FilterKeeps
<1>6. asked = [k \in 1..Len(open) |-> Slot(runs, open[k], passes)]
  <2> DEFINE due == [c \in Range(cells) |-> Room(runs, c, target, passes)]
  <2>1. \A k \in DOMAIN cells : cells[k] \in Range(cells)
    BY DEF Range
  <2>2. {k \in DOMAIN cells : due[cells[k]]} = P
    BY <2>1
  <2> QED
    BY <2>2 DEF PlannedPass, Slot, Room
<1>7. Len(open) \in Nat /\ DOMAIN open = 1..Len(open) /\ \A k \in DOMAIN open : open[k] \in Cells
  BY <1>5, LenProperties, ElementOfSeq
<1> HIDE DEF open, asked
<1>8. \A k \in DOMAIN open : Slot(runs, open[k], passes) \in [cell : Cells, index : Nat]
  <2>1. \A c \in Cells : NextSampleIndex(runs, c) \in Nat
    BY NextIndexIs
  <2> QED
    BY <1>7, <2>1 DEF Slot
<1>9. asked \in Seq([cell : Cells, index : Nat]) /\ DOMAIN asked = DOMAIN open
      /\ \A k \in DOMAIN open : asked[k] = Slot(runs, open[k], passes)
  <2>1. asked \in [1..Len(open) -> [cell : Cells, index : Nat]]
    BY <1>6, <1>7, <1>8
  <2>2. asked \in Seq([cell : Cells, index : Nat])
    BY <1>7, <2>1, FunctionIsSeq
  <2> QED
    BY <1>6, <1>7, <2>2
<1>10. ASSUME NEW k \in DOMAIN asked
       PROVE  \E i \in DOMAIN cells :
                 Room(runs, cells[i], target, passes) /\ asked[k] = Slot(runs, cells[i], passes)
  <2>1. PICK i \in P : open[k] = cells[i]
    BY <1>5, <1>9 DEF KeptFrom
  <2> QED
    BY <1>1, <1>9, <2>1
<1>11. ASSUME NEW i \in DOMAIN cells, Room(runs, cells[i], target, passes)
       PROVE  \E k \in DOMAIN asked : asked[k] = Slot(runs, cells[i], passes)
  <2>1. i \in P
    BY <1>1, <1>11
  <2>2. PICK k \in DOMAIN open : open[k] = cells[i]
    BY <1>5, <2>1 DEF KeptFrom
  <2> QED
    BY <1>9, <2>2
<1>12. ASSUME \A i, h \in DOMAIN cells : cells[i] = cells[h] => i = h,
              NEW k \in DOMAIN asked, NEW j \in DOMAIN asked, asked[k] = asked[j]
       PROVE  k = j
  <2>1. open[k] = open[j]
    BY <1>9, <1>12 DEF Slot
  <2>2. \A i, h \in P : cells[i] = cells[h] => i = h
    BY <1>1, <1>12
  <2> HIDE DEF P
  <2> QED
    BY <1>5, <1>9, <2>1, <2>2 DEF KeptFrom
<1> QED
  BY <1>9, <1>10, <1>11, <1>12 DEF asked, IsPass

\* What a plan over the rows holds, and in which order.
IsPlan(asked, Cells, runs, cells, target) ==
    /\ asked \in Seq([cell : Cells, index : Nat])
    /\ \A k \in DOMAIN asked : \E i \in DOMAIN cells : \E passes \in 0..(target - 1) :
          /\ Room(runs, cells[i], target, passes) /\ asked[k] = Slot(runs, cells[i], passes)
          /\ \A q \in 0..(passes - 1) : \E j \in 1..(k - 1) : asked[j] = Slot(runs, cells[i], q)
    /\ \A i \in DOMAIN cells : \A passes \in 0..(target - 1) :
          Room(runs, cells[i], target, passes) =>
              \E k \in DOMAIN asked : asked[k] = Slot(runs, cells[i], passes)
    /\ (\A i, h \in DOMAIN cells : cells[i] = cells[h] => i = h) =>
          \A k, j \in DOMAIN asked : asked[k] = asked[j] => k = j

(* planBalancedSamples plans, pass by pass, the open slots of every cell.  *)
LEMMA PlanIs ==
    ASSUME NEW Cells, NEW cells \in Seq(Cells), NEW runs, NEW target \in Nat,
           \A c \in Cells : Bounded(runs, c)
    PROVE  IsPlan(PlanBalancedSamples(runs, cells, target), Cells, runs, cells, target)
<1> DEFINE S == [cell : Cells, index : Nat]
           blocks == [pass \in 1..target |-> PlannedPass(runs, cells, target, pass - 1)]
           asked == PlanBalancedSamples(runs, cells, target)
<1>1. DOMAIN cells = 1..Len(cells) /\ \A i \in DOMAIN cells : cells[i] \in Cells
  BY LenProperties, ElementOfSeq
<1>2. ASSUME NEW b \in 1..target
      PROVE  /\ b - 1 \in Nat /\ b - 1 \in 0..(target - 1)
             /\ blocks[b] \in Seq(S)
             /\ \A k \in DOMAIN blocks[b] : \E i \in DOMAIN cells :
                   Room(runs, cells[i], target, b - 1) /\ blocks[b][k] = Slot(runs, cells[i], b - 1)
             /\ \A i \in DOMAIN cells : Room(runs, cells[i], target, b - 1) =>
                   \E k \in DOMAIN blocks[b] : blocks[b][k] = Slot(runs, cells[i], b - 1)
             /\ (\A i, h \in DOMAIN cells : cells[i] = cells[h] => i = h) =>
                   \A k, j \in DOMAIN blocks[b] : blocks[b][k] = blocks[b][j] => k = j
  <2>1. b - 1 \in Nat /\ b - 1 \in 0..(target - 1)
    OBVIOUS
  <2>2. blocks[b] = PlannedPass(runs, cells, target, b - 1)
    OBVIOUS
  <2> HIDE DEF blocks
  <2> DEFINE block == blocks[b]
             passes == b - 1
  <2>3. passes \in Nat /\ block = PlannedPass(runs, cells, target, passes)
    BY <2>1, <2>2
  <2> HIDE DEF block, passes
  <2>4. IsPass(block, Cells, runs, cells, target, passes)
    BY <2>3, PassIs
  <2> QED
    BY <2>1, <2>4 DEF block, passes, IsPass
<1>3. asked = FlattenSeq(blocks) /\ blocks = [b \in 1..target |-> blocks[b]] /\ DOMAIN blocks = 1..target
  BY DEF PlanBalancedSamples
<1> HIDE DEF blocks, asked
<1>4. blocks \in Seq(Seq(S)) /\ Len(blocks) = target
  <2>1. blocks \in [1..target -> Seq(S)]
    BY <1>2, <1>3
  <2> HIDE DEF S
  <2> QED
    BY <2>1, FunctionIsSeq
<1>5. asked \in Seq(S) /\ Gathers(asked, blocks, target)
  <2> HIDE DEF S
  <2> QED
    BY <1>3, <1>4, FlattenGathers
<1>6. \A c \in Cells : NextSampleIndex(runs, c) \in Nat /\ CompletedCount(runs, c) \in Nat
                       /\ ActiveCount(runs, c) \in Nat
  BY NextIndexIs, CountsOf
<1>7. ASSUME NEW i \in DOMAIN cells, NEW passes \in 0..(target - 1),
             Room(runs, cells[i], target, passes), NEW q \in 0..passes
      PROVE  /\ q + 1 \in 1..target
             /\ \E o \in DOMAIN blocks[q + 1] : blocks[q + 1][o] = Slot(runs, cells[i], q)
  <2>1. Room(runs, cells[i], target, q)
    BY <1>1, <1>6, <1>7 DEF Room
  <2>2. q + 1 \in 1..target /\ (q + 1) - 1 = q
    OBVIOUS
  <2> QED
    BY <1>2, <2>1, <2>2, ZenonT(60)
<1>8. ASSUME NEW k \in DOMAIN asked
      PROVE  \E i \in DOMAIN cells : \E passes \in 0..(target - 1) :
          /\ Room(runs, cells[i], target, passes) /\ asked[k] = Slot(runs, cells[i], passes)
          /\ \A q \in 0..(passes - 1) : \E j \in 1..(k - 1) : asked[j] = Slot(runs, cells[i], q)
  <2>1. PICK b \in 1..target : \E o \in DOMAIN blocks[b] :
          /\ asked[k] = blocks[b][o]
          /\ \A c \in 1..b : \A q \in DOMAIN blocks[c] :
                c < b \/ q < o => \E j \in 1..(k - 1) : asked[j] = blocks[c][q]
    BY <1>5 DEF Gathers
  <2>2. PICK o \in DOMAIN blocks[b] :
          /\ asked[k] = blocks[b][o]
          /\ \A c \in 1..b : \A q \in DOMAIN blocks[c] :
                c < b \/ q < o => \E j \in 1..(k - 1) : asked[j] = blocks[c][q]
    BY <2>1
  <2>3. PICK i \in DOMAIN cells :
            Room(runs, cells[i], target, b - 1) /\ blocks[b][o] = Slot(runs, cells[i], b - 1)
    BY <1>2
  <2>4. ASSUME NEW q \in 0..((b - 1) - 1)
        PROVE  \E j \in 1..(k - 1) : asked[j] = Slot(runs, cells[i], q)
    <3>1. q \in 0..(b - 1) /\ q + 1 \in 1..b /\ q + 1 < b
      OBVIOUS
    <3>2. PICK x \in DOMAIN blocks[q + 1] : blocks[q + 1][x] = Slot(runs, cells[i], q)
      BY <1>2, <1>7, <2>3, <3>1
    <3> QED
      BY <2>2, <3>1, <3>2
  <2>5. b - 1 \in 0..(target - 1)
    OBVIOUS
  <2>6. asked[k] = Slot(runs, cells[i], b - 1)
    BY <2>2, <2>3
  <2> HIDE DEF asked, blocks
  <2> QED
    BY <2>3, <2>4, <2>5, <2>6
<1>9. ASSUME NEW i \in DOMAIN cells, NEW passes \in 0..(target - 1),
             Room(runs, cells[i], target, passes)
      PROVE  \E k \in DOMAIN asked : asked[k] = Slot(runs, cells[i], passes)
  <2>1. passes \in 0..passes
    OBVIOUS
  <2>2. passes + 1 \in 1..target
        /\ \E o \in DOMAIN blocks[passes + 1] : blocks[passes + 1][o] = Slot(runs, cells[i], passes)
    BY <1>7, <1>9, <2>1
  <2> QED
    BY <1>5, <2>2 DEF Gathers
<1>10. ASSUME \A i, h \in DOMAIN cells : cells[i] = cells[h] => i = h
       PROVE  \A k, j \in DOMAIN asked : asked[k] = asked[j] => k = j
  <2>1. ASSUME NEW b \in 1..target, NEW c \in 1..target,
               NEW o \in DOMAIN blocks[b], NEW q \in DOMAIN blocks[c],
               blocks[b][o] = blocks[c][q]
        PROVE  b = c /\ o = q
    <3>1. PICK i \in DOMAIN cells : blocks[b][o] = Slot(runs, cells[i], b - 1)
      BY <1>2, SMTT(60)
    <3>2. PICK h \in DOMAIN cells : blocks[c][q] = Slot(runs, cells[h], c - 1)
      BY <1>2
    <3>3. /\ cells[i] = cells[h]
          /\ NextSampleIndex(runs, cells[i]) + (b - 1) = NextSampleIndex(runs, cells[h]) + (c - 1)
      <4>1. Slot(runs, cells[i], b - 1) = Slot(runs, cells[h], c - 1)
        BY <2>1, <3>1, <3>2
      <4>2. \A x, y, q1, q2 : Slot(runs, x, q1) = Slot(runs, y, q2) =>
               x = y /\ NextSampleIndex(runs, x) + q1 = NextSampleIndex(runs, y) + q2
        BY DEF Slot
      <4> QED
        BY <4>1, <4>2
    <3>4. b = c
      BY <1>1, <1>6, <3>3
    <3> QED
      BY <1>2, <1>10, <2>1, <3>4
  <2> QED
    BY <1>5, <2>1 DEF Gathers
<1> QED
  BY <1>5, <1>8, <1>9, <1>10 DEF IsPlan, asked

\* All the refinement needs to know of a state.
LedgerInv ==
    /\ world \in World
    /\ grader \in Snapshot /\ snapshot \in [Process -> Snapshot]
    /\ row \in [Sample -> RawRunStatus \cup {Absent}]
    /\ grades \in [Sample -> SUBSET Snapshot]

\* A step changes at most one sample, and as the ledger allows it.
LedgerStep == [Ledger!Next]_<<Outcome, grades>>

(* The editions a setting allows are editions of the bound.                *)
LEMMA WorldSnapshots == ASSUME NEW w \in World PROVE w.snapshots \in 1..MaxSnapshot
  BY SuiteAssumption DEF IsWorld

(* A suite starts with an empty ledger.                                    *)
LEMMA InitLedger == Init => LedgerInv /\ Ledger!Init
<1> SUFFICES ASSUME Init PROVE LedgerInv /\ Ledger!Init
  OBVIOUS
<1>1. 1 \in Snapshot
  BY SuiteAssumption DEF Snapshot
<1>2. LedgerInv
  BY <1>1 DEF Init, LedgerInv
<1>3. Outcome = [s \in Sample |-> "none"]
  <2>1. OutcomeOf(Absent) = "none"
    BY DEF OutcomeOf
  <2> QED
    BY <2>1 DEF Init, Outcome
<1> QED
  BY <1>2, <1>3 DEF Init, Ledger!Init

(* Where the database is left alone, the ledger stands still.              *)
LEMMA DatabaseUntouched == UNCHANGED database => LedgerStep
  BY DEF database, LedgerStep, Outcome

(* A change of one row is a step of the ledger if it opens an absent       *)
(* sample, seals an open one, or leaves the outcome as it is.              *)
LEMMA RowChange ==
    ASSUME LedgerInv, NEW s, NEW status \in RawRunStatus,
           row' = [row EXCEPT ![s] = status] \/ row' = row, UNCHANGED grades,
           s \in Sample => \/ row[s] = Absent /\ status \in Reserved
                           \/ row[s] \in Reserved /\ status \in RawRunStatus
                           \/ row[s] = status
    PROVE  LedgerStep /\ row' \in [Sample -> RawRunStatus \cup {Absent}]
<1>1. row' \in [Sample -> RawRunStatus \cup {Absent}]
  BY DEF LedgerInv
<1>2. CASE row' = row
  BY <1>1, <1>2 DEF LedgerStep, Outcome
<1>3. CASE row' = [row EXCEPT ![s] = status] /\ s \notin Sample
  <2>1. row' = row
    BY <1>3 DEF LedgerInv
  <2> QED
    BY <1>1, <2>1 DEF LedgerStep, Outcome
<1>4. CASE row' = [row EXCEPT ![s] = status] /\ s \in Sample
  <2> DEFINE now == OutcomeOf(status)
  <2> HIDE DEF now
  <2>0. Outcome[s] = OutcomeOf(row[s])
    BY <1>4 DEF Outcome
  <2>1. Outcome' = [Outcome EXCEPT ![s] = now]
    BY <1>4 DEF LedgerInv, Outcome, now
  <2>2. CASE row[s] = Absent /\ status \in Reserved
    <3>1. Outcome[s] = "none" /\ now = "open"
      BY <2>0, <2>2 DEF now, OutcomeOf, Reserved, Absent
    <3> QED
      BY <1>1, <1>4, <2>1, <3>1 DEF LedgerStep, Ledger!Next, Ledger!Open
  <2>3. CASE row[s] \in Reserved
    <3>1. Outcome[s] = "open" /\ now \in {"open", "completed", "failed"}
      <4>1. OutcomeOf(row[s]) = "open"
        BY <2>3 DEF OutcomeOf, Reserved, Absent
      <4>2. OutcomeOf(status) \in {"open", "completed", "failed"}
        BY DEF OutcomeOf, RawRunStatus, Absent
      <4> QED
        BY <2>0, <4>1, <4>2 DEF now
    <3>2. CASE now = "open"
      BY <1>1, <2>1, <3>1, <3>2 DEF LedgerStep, Outcome
    <3>3. CASE now # "open"
      BY <1>1, <1>4, <2>1, <3>1, <3>3 DEF LedgerStep, Ledger!Next, Ledger!Seal
    <3> QED
      BY <3>2, <3>3
  <2>4. CASE row[s] = status
    <3>1. row' = row
      BY <1>4, <2>4 DEF LedgerInv
    <3> QED
      BY <1>1, <3>1 DEF LedgerStep, Outcome
  <2> QED
    BY <1>4, <2>2, <2>3, <2>4
<1> QED
  BY <1>1, <1>2, <1>3, <1>4

(* Creating, marking and sealing a row, by whichever process.              *)
LEMMA RowStep ==
    ASSUME LedgerInv, NEW p,
           \/ Create(p) \/ Mark(p)
           \/ \E result \in {"completed"} \cup HarnessFailure : Seal(p, result)
    PROVE  LedgerStep /\ LedgerInv'
<1> DEFINE s == CurrentSample(p)
<1>0. UNCHANGED <<world, grader, grades, snapshot>>
  BY DEF Create, Mark, Seal, memory
<1>1. CASE Create(p)
  <2>1. row' = [row EXCEPT ![s] = IF row[s] = "absent" THEN "pending" ELSE row[s]]
    BY <1>1 DEF Create, CreateRawRun
  <2>2. CASE row[s] = "absent"
    BY <1>0, <2>1, <2>2, RowChange DEF LedgerInv, RawRunStatus, Reserved, Absent
  <2>3. CASE row[s] # "absent"
    <3>1. row' = row
      BY <2>1, <2>3 DEF LedgerInv
    <3> QED
      BY <1>0, <3>1 DEF LedgerInv, LedgerStep, Outcome
  <2> QED
    BY <2>2, <2>3
<1>2. CASE Mark(p)
  <2>1. row' = [row EXCEPT ![s] = IF row[s] = "pending" THEN "running" ELSE row[s]]
    BY <1>2 DEF Mark, MarkRunning
  <2>2. CASE row[s] = "pending"
    BY <1>0, <2>1, <2>2, RowChange DEF LedgerInv, RawRunStatus, Reserved
  <2>3. CASE row[s] # "pending"
    <3>1. row' = row
      BY <2>1, <2>3 DEF LedgerInv
    <3> QED
      BY <1>0, <3>1 DEF LedgerInv, LedgerStep, Outcome
  <2> QED
    BY <2>2, <2>3
<1>3. ASSUME NEW result \in {"completed"} \cup HarnessFailure, Seal(p, result)
      PROVE  LedgerStep /\ LedgerInv'
  <2>1. result \in RawRunStatus
    BY DEF HarnessFailure, RawRunStatus
  <2>2. row' = row \/ (row[s] = "running" /\ row' = [row EXCEPT ![s] = result])
    BY <1>3 DEF Seal, SealRawRun
  <2>3. CASE row' = row
    BY <1>0, <2>3 DEF LedgerInv, LedgerStep, Outcome
  <2>4. CASE row[s] = "running" /\ row' = [row EXCEPT ![s] = result]
    <3>1. LedgerStep /\ row' \in [Sample -> RawRunStatus \cup {Absent}]
      BY <1>0, <2>1, <2>4, RowChange DEF Reserved
    <3> QED
      BY <1>0, <3>1 DEF LedgerInv
  <2> QED
    BY <2>2, <2>3, <2>4
<1> QED
  BY <1>1, <1>2, <1>3

(* A Grade is stored over a completed run only, and none is taken back.    *)
LEMMA GradeStep ==
    ASSUME LedgerInv, NEW p \in Process, StoreGrade(p)
    PROVE  LedgerStep /\ LedgerInv'
<1> DEFINE s == CurrentSample(p)
           g == snapshot[p]
<1>1. UNCHANGED <<world, grader, row, snapshot>> /\ g \in Snapshot
  BY DEF StoreGrade, LedgerInv
<1>2. \/ grades' = grades
      \/ row[s] = "completed" /\ grades' = [grades EXCEPT ![s] = grades[s] \cup {g}]
  BY DEF StoreGrade, Gradable, CreateGrade
<1>3. LedgerInv'
  BY <1>1, <1>2 DEF LedgerInv
<1>4. Outcome' = Outcome
  BY <1>1 DEF Outcome
<1>5. CASE s \in Sample /\ g \notin grades[s] /\ grades' # grades
  <2>1. Outcome[s] = "completed"
    BY <1>2, <1>5 DEF Outcome, OutcomeOf, Absent, Reserved
  <2> QED
    BY <1>1, <1>2, <1>3, <1>4, <1>5, <2>1 DEF LedgerStep, Ledger!Next, Ledger!Grade, LedgerInv
<1>6. CASE ~(s \in Sample /\ g \notin grades[s] /\ grades' # grades)
  <2>1. grades' = grades
    BY <1>2, <1>6 DEF LedgerInv
  <2> QED
    BY <1>3, <1>4, <2>1 DEF LedgerStep
<1> QED
  BY <1>5, <1>6

(* Every other step leaves the database alone.                             *)
LEMMA QuietStep ==
    ASSUME LedgerInv, NEW p \in Process,
           \/ Launch(p) \/ PlanFirst(p) \/ OpenAudit(p) \/ BeginJob(p) \/ Start(p)
           \/ CheckGrades(p) \/ JobThrows(p) \/ WriteJob(p) \/ TopUp(p) \/ Summarise(p)
           \/ WriteReport(p) \/ Close(p) \/ Kill(p)
    PROVE  LedgerStep /\ LedgerInv'
<1>1. UNCHANGED database /\ UNCHANGED <<world, grader>>
  BY DEF Launch, PlanFirst, OpenAudit, BeginJob, Start, CheckGrades, JobThrows, WriteJob, TopUp,
         Summarise, WriteReport, Close, Kill
<1>2. snapshot' \in [Process -> Snapshot]
  <2>1. 1 \in Snapshot
    BY SuiteAssumption DEF Snapshot
  <2> QED
    BY <2>1 DEF LedgerInv, Launch, PlanFirst, OpenAudit, BeginJob, Start, CheckGrades, JobThrows,
       WriteJob, TopUp, Summarise, WriteReport, Close, Kill, Forget, memory
<1> QED
  BY <1>1, <1>2, DatabaseUntouched DEF LedgerInv, database

(* Editing the grader file touches no row and no Grade.                    *)
LEMMA EditStep ==
    ASSUME LedgerInv, EditGrader
    PROVE  LedgerStep /\ LedgerInv'
<1>1. grader' \in Snapshot
  BY WorldSnapshots, SuiteAssumption DEF LedgerInv, EditGrader, Snapshot
<1>2. UNCHANGED database /\ UNCHANGED <<world, snapshot>>
  BY DEF EditGrader, memory
<1> QED
  BY <1>1, <1>2, DatabaseUntouched DEF LedgerInv, database

(* Every step of the suites is a step of the ledger or none.               *)
LEMMA NextLedger ==
    ASSUME LedgerInv, [Next]_vars
    PROVE  LedgerStep /\ LedgerInv'
<1>1. ASSUME NEW p \in DOMAIN world.dir, Launch(p) \/ Step(p) \/ JobThrows(p) \/ Kill(p)
      PROVE  LedgerStep /\ LedgerInv'
  <2>1. p \in Process
    BY SuiteAssumption DEF LedgerInv, IsWorld
  <2> QED
    BY <1>1, <2>1, RowStep, GradeStep, QuietStep DEF Step
<1>2. CASE UNCHANGED vars
  BY <1>2, DatabaseUntouched DEF vars, database, LedgerInv
<1> QED
  BY <1>1, <1>2, EditStep DEF Next

(* ImplementsLedger: whatever the processes do, a raw run is sealed once   *)
(* and graded only over its sealed success.                                *)
THEOREM LedgerIsImplemented == Spec => ImplementsLedger
<1>1. Init => LedgerInv /\ Ledger!Init
  BY InitLedger
<1>2. LedgerInv /\ [Next]_vars => LedgerInv' /\ [Ledger!Next]_<<Outcome, grades>>
  BY NextLedger DEF LedgerStep
<1> QED
  BY <1>1, <1>2, PTL DEF Spec, ImplementsLedger, Ledger!Spec

-----------------------------------------------------------------------------
(* What the manifests say of the database. *)

\* The jobs over a set of samples.
Jobs(S) == [sample : S, status : JobStatus, grade : Snapshot \cup {Ungraded}]

\* A sequence of jobs, of whatever samples.
IsAudit(list) == \E S : list \in Seq(Jobs(S))

\* A job that says "completed" has a completed run and the grade it names.
Honest(list, runs, given) ==
    \A i \in DOMAIN list : list[i].status = "completed" =>
        /\ list[i].sample \in Sample /\ runs[list[i].sample] = "completed"
        /\ list[i].grade \in given[list[i].sample]

\* Audits and manifests are sequences of jobs, and say what the database says.
AuditInv ==
    /\ DOMAIN pc = Process /\ pc = [p \in Process |-> pc[p]]
    /\ DOMAIN jobs = Process /\ jobs = [p \in Process |-> jobs[p]]
    /\ DOMAIN queue = Process /\ queue = [p \in Process |-> queue[p]]
    /\ DOMAIN manifest = Dir /\ manifest = [d \in Dir |-> manifest[d]]
    /\ \A p \in Process : IsAudit(jobs[p]) /\ Honest(jobs[p], row, grades)
    /\ \A d \in Dir : IsAudit(manifest[d]) /\ Honest(manifest[d], row, grades)

\* Where a process works on a raw run that exists.
WithRow == {"start", "mark", "harness", "grade", "judge"}

\* Where a process works on a row, its current job is a sample.
PlaceInv == \A p \in Process : pc[p] \in WithRow => CurrentSample(p) \in Sample

\* What the proofs below know of every reachable state.
SuiteInv == LedgerInv /\ AuditInv /\ PlaceInv

(* A completed run stays completed, and keeps its grades.                  *)
LEMMA DatabaseGrows ==
    ASSUME LedgerInv, LedgerInv', LedgerStep, NEW s \in Sample
    PROVE  /\ row[s] = "completed" => row'[s] = "completed"
           /\ grades[s] \subseteq grades'[s]
<1>1. \A o : Outcome[s] = OutcomeOf(row[s]) /\ Outcome'[s] = OutcomeOf(row'[s])
  BY DEF Outcome
<1>2. (OutcomeOf(row[s]) = "completed" <=> row[s] = "completed")
      /\ (OutcomeOf(row'[s]) = "completed" <=> row'[s] = "completed")
  BY DEF OutcomeOf, Absent, Reserved
<1>3. DOMAIN Outcome = Sample
  BY DEF Outcome
<1>4. Outcome[s] = "completed" => Outcome'[s] = "completed"
  <2> DEFINE o == Outcome
             n == Outcome'
  <2>0. DOMAIN o = Sample
    BY <1>3
  <2>1. \/ n = o
        \/ \E x \in Sample : \/ o[x] = "none" /\ n = [o EXCEPT ![x] = "open"]
                             \/ /\ o[x] = "open"
                                /\ \E v \in {"completed", "failed"} : n = [o EXCEPT ![x] = v]
    BY DEF LedgerStep, Ledger!Next, Ledger!Open, Ledger!Seal, Ledger!Grade
  <2> HIDE DEF o, n
  <2>2. o[s] = "completed" => n[s] = "completed"
    BY <2>0, <2>1
  <2> QED
    BY <2>2 DEF o, n
<1>5. grades[s] \subseteq grades'[s]
  <2>1. \/ grades' = grades
        \/ \E x \in Sample : \E g \in Snapshot : grades' = [grades EXCEPT ![x] = @ \cup {g}]
    BY DEF LedgerStep, Ledger!Next, Ledger!Open, Ledger!Seal, Ledger!Grade
  <2> QED
    BY <2>1 DEF LedgerInv
<1> QED
  BY <1>1, <1>2, <1>4, <1>5

(* What a list said of the database stays true.                            *)
LEMMA HonestStays ==
    ASSUME LedgerInv, LedgerInv', LedgerStep, NEW list, Honest(list, row, grades)
    PROVE  Honest(list, row', grades')
  BY DatabaseGrows DEF Honest

(* Planning more jobs claims nothing.                                      *)
LEMMA PlannedIsHonest ==
    ASSUME NEW list, NEW planned, IsAudit(list), Honest(list, row, grades)
    PROVE  /\ IsAudit(AddPlannedJobs(list, planned))
           /\ Honest(AddPlannedJobs(list, planned), row, grades)
<1> DEFINE fresh == Filter(planned, {k \in DOMAIN planned : planned[k] \notin SamplesOf(list)})
           n == Len(fresh)
           added == NewJobs(list, planned)
           kept == Revived(list, planned)
           all == AddPlannedJobs(list, planned)
<1>1. PICK S : list \in Seq(Jobs(S))
  BY DEF IsAudit
<1> DEFINE T == S \cup {fresh[k] : k \in 1..n}
<1>2. n \in Nat
  OBVIOUS
<1>3. added = [k \in 1..n |-> [sample |-> fresh[k], status |-> "planned", grade |-> Ungraded]]
  BY DEF NewJobs
<1>4. added \in [1..n -> Jobs(T)] /\ \A k \in 1..n : added[k].status = "planned"
  <2>1. \A k \in 1..n : fresh[k] \in T
    OBVIOUS
  <2> HIDE DEF fresh, n, T, added
  <2>2. \A k \in 1..n : [sample |-> fresh[k], status |-> "planned", grade |-> Ungraded] \in Jobs(T)
    BY <2>1 DEF JobStatus, Jobs
  <2> QED
    BY <1>3, <2>2
<1>5. added \in Seq(Jobs(T)) /\ DOMAIN added = 1..n /\ Len(added) = n
  <2> HIDE DEF added, n, T
  <2> QED
    BY <1>2, <1>4, FunctionIsSeq
<1>6. Len(list) \in Nat /\ DOMAIN list = 1..Len(list) /\ \A i \in DOMAIN list : list[i] \in Jobs(S)
  BY <1>1, LenProperties, ElementOfSeq
<1>7. /\ kept \in [1..Len(list) -> Jobs(T)]
      /\ \A i \in DOMAIN list : kept[i].status = "completed" => kept[i] = list[i]
  <2>1. ASSUME NEW i \in DOMAIN list
        PROVE  /\ kept[i] \in Jobs(T)
               /\ kept[i].status = "completed" => kept[i] = list[i]
    <3>1. list[i] \in Jobs(T) /\ [list[i] EXCEPT !.status = "planned"] \in Jobs(T)
          /\ [list[i] EXCEPT !.status = "planned"].status = "planned"
      BY <1>6 DEF Jobs, JobStatus
    <3>2. kept[i] = list[i] \/ kept[i] = [list[i] EXCEPT !.status = "planned"]
      BY DEF Revived
    <3> QED
      BY <3>1, <3>2
  <2>2. kept = [i \in DOMAIN list |-> kept[i]]
    BY DEF Revived
  <2> HIDE DEF kept, T
  <2> QED
    BY <1>6, <2>1, <2>2
<1>8. kept \in Seq(Jobs(T)) /\ DOMAIN kept = 1..Len(list) /\ Len(kept) = Len(list)
  <2> HIDE DEF kept, T
  <2> QED
    BY <1>6, <1>7, FunctionIsSeq
<1>9. all = kept \o added
  BY DEF AddPlannedJobs
<1> HIDE DEF all, kept, added, T, n
<1>10. /\ all \in Seq(Jobs(T)) /\ DOMAIN all = 1..(Len(list) + n)
       /\ \A i \in DOMAIN all : all[i] = IF i <= Len(list) THEN kept[i] ELSE added[i - Len(list)]
  <2>1. /\ all \in Seq(Jobs(T)) /\ Len(all) = Len(kept) + Len(added)
        /\ \A i \in 1..(Len(kept) + Len(added)) :
              all[i] = IF i <= Len(kept) THEN kept[i] ELSE added[i - Len(kept)]
    BY <1>5, <1>8, <1>9, ConcatProperties
  <2>2. DOMAIN all = 1..Len(all)
    BY <2>1, LenProperties
  <2> QED
    BY <1>5, <1>8, <2>1, <2>2
<1>11. ASSUME NEW i \in DOMAIN all, all[i].status = "completed"
       PROVE  i \in DOMAIN list /\ all[i] = list[i]
  <2>1. CASE i <= Len(list)
    BY <1>2, <1>6, <1>7, <1>10, <1>11, <2>1
  <2>2. CASE ~(i <= Len(list))
    <3>1. i - Len(list) \in 1..n
      BY <1>2, <1>6, <1>10, <2>2
    <3> QED
      BY <1>4, <1>10, <1>11, <2>2, <3>1
  <2> QED
    BY <2>1, <2>2
<1>12. Honest(all, row, grades)
  BY <1>11 DEF Honest
<1>13. IsAudit(all)
  BY <1>10 DEF IsAudit
<1> QED
  BY <1>12, <1>13 DEF all

\* List next is list with a status and a grade at position k, if it has one.
Rewritten(next, list, k, status, grade) ==
    /\ IsAudit(next) /\ DOMAIN next = DOMAIN list
    /\ \A i \in DOMAIN list : i # k => next[i] = list[i]
    /\ k \in DOMAIN list => /\ next[k].sample = list[k].sample
                            /\ next[k].status = status /\ next[k].grade = grade

(* A function of jobs over the positions of a list is a list.              *)
LEMMA JobsReplaced ==
    ASSUME NEW list, IsAudit(list), NEW next, next = [i \in DOMAIN list |-> next[i]],
           \A S : \A i \in DOMAIN list : list[i] \in Jobs(S) => next[i] \in Jobs(S)
    PROVE  IsAudit(next) /\ DOMAIN next = DOMAIN list
<1>1. PICK S : list \in Seq(Jobs(S))
  BY DEF IsAudit
<1>2. Len(list) \in Nat /\ DOMAIN list = 1..Len(list) /\ \A i \in DOMAIN list : list[i] \in Jobs(S)
  BY <1>1, LenProperties, ElementOfSeq
<1>3. \A i \in DOMAIN list : next[i] \in Jobs(S)
  BY <1>2
<1> HIDE DEF Jobs
<1>4. next \in [1..Len(list) -> Jobs(S)]
  BY <1>2, <1>3
<1>5. next \in Seq(Jobs(S)) /\ DOMAIN next = 1..Len(list)
  BY <1>2, <1>4, FunctionIsSeq
<1> QED
  BY <1>2, <1>5 DEF IsAudit

(* A job gets a status.                                                    *)
LEMMA StatusWritten ==
    ASSUME NEW list, IsAudit(list), NEW k, NEW status \in JobStatus
    PROVE  Rewritten([list EXCEPT ![k].status = status], list, k, status, list[k].grade)
<1> DEFINE next == [list EXCEPT ![k].status = status]
           job == [list[k] EXCEPT !.status = status]
<1>1. PICK S : list \in Seq(Jobs(S))
  BY DEF IsAudit
<1>2. \A i \in DOMAIN list : list[i] \in Jobs(S)
  BY <1>1, LenProperties, ElementOfSeq
<1>3. \A T : list[k] \in Jobs(T) => job \in Jobs(T)
  BY DEF Jobs
<1>4. k \in DOMAIN list => /\ job.sample = list[k].sample
                           /\ job.status = status /\ job.grade = list[k].grade
  BY <1>2 DEF Jobs
<1>5. next = [i \in DOMAIN list |-> IF i = k THEN job ELSE list[i]]
  OBVIOUS
<1> HIDE DEF next, job
<1>6. next = [i \in DOMAIN list |-> next[i]]
      /\ \A i \in DOMAIN list : next[i] = IF i = k THEN job ELSE list[i]
  BY <1>5
<1>7. \A T : \A i \in DOMAIN list : list[i] \in Jobs(T) => next[i] \in Jobs(T)
  BY <1>3, <1>6
<1>8. IsAudit(next) /\ DOMAIN next = DOMAIN list
  BY <1>6, <1>7, JobsReplaced
<1>9. Rewritten(next, list, k, status, list[k].grade)
  BY <1>4, <1>6, <1>8 DEF Rewritten
<1> QED
  BY <1>9 DEF next

(* A job gets a status and a grade.                                        *)
LEMMA GradeWritten ==
    ASSUME NEW list, IsAudit(list), NEW k, NEW status \in JobStatus,
           NEW grade \in Snapshot \cup {Ungraded}
    PROVE  Rewritten([list EXCEPT ![k].status = status, ![k].grade = grade],
                     list, k, status, grade)
<1> DEFINE next == [list EXCEPT ![k].status = status, ![k].grade = grade]
           one == [list[k] EXCEPT !.status = status]
           job == [one EXCEPT !.grade = grade]
<1>1. PICK S : list \in Seq(Jobs(S))
  BY DEF IsAudit
<1>2. \A i \in DOMAIN list : list[i] \in Jobs(S)
  BY <1>1, LenProperties, ElementOfSeq
<1>3. \A T : list[k] \in Jobs(T) => job \in Jobs(T)
  BY DEF Jobs
<1>4. k \in DOMAIN list => /\ job.sample = list[k].sample
                           /\ job.status = status /\ job.grade = grade
  BY <1>2 DEF Jobs
<1>5. next = [i \in DOMAIN list |-> IF i = k THEN job ELSE list[i]]
  OBVIOUS
<1> HIDE DEF next, job
<1>6. next = [i \in DOMAIN list |-> next[i]]
      /\ \A i \in DOMAIN list : next[i] = IF i = k THEN job ELSE list[i]
  BY <1>5
<1>7. \A T : \A i \in DOMAIN list : list[i] \in Jobs(T) => next[i] \in Jobs(T)
  BY <1>3, <1>6
<1>8. IsAudit(next) /\ DOMAIN next = DOMAIN list
  BY <1>6, <1>7, JobsReplaced
<1>9. Rewritten(next, list, k, status, grade)
  BY <1>4, <1>6, <1>8 DEF Rewritten
<1> QED
  BY <1>9 DEF next

(* A list whose current job is rewritten claims what it did, and           *)
(* "completed" with a grade for that job only if the database says so too. *)
LEMMA RewrittenIsHonest ==
    ASSUME LedgerInv, LedgerInv', LedgerStep, NEW list, Honest(list, row, grades),
           NEW k, NEW status, NEW grade, NEW next, Rewritten(next, list, k, status, grade),
           status = "completed" => /\ list[k].sample \in Sample
                                   /\ row'[list[k].sample] = "completed"
                                   /\ grade \in grades'[list[k].sample]
    PROVE  IsAudit(next) /\ Honest(next, row', grades')
<1>1. /\ IsAudit(next) /\ DOMAIN next = DOMAIN list
      /\ \A i \in DOMAIN list : i # k => next[i] = list[i]
      /\ k \in DOMAIN list => /\ next[k].sample = list[k].sample
                              /\ next[k].status = status /\ next[k].grade = grade
  BY DEF Rewritten
<1>2. Honest(list, row', grades')
  BY HonestStays
<1>3. ASSUME NEW i \in DOMAIN next, next[i].status = "completed"
      PROVE  /\ next[i].sample \in Sample /\ row'[next[i].sample] = "completed"
             /\ next[i].grade \in grades'[next[i].sample]
  <2>1. CASE i # k
    BY <1>1, <1>2, <1>3, <2>1 DEF Honest
  <2>2. CASE i = k
    BY <1>1, <1>3, <2>2
  <2> QED
    BY <2>1, <2>2
<1> QED
  BY <1>1, <1>3 DEF Honest

(* An empty audit is honest.                                               *)
LEMMA NoJobs == IsAudit(<<>>) /\ Honest(<<>>, row, grades) /\ Honest(<<>>, row', grades')
<1>1. <<>> \in Seq(Jobs({}))
  OBVIOUS
<1> QED
  BY <1>1 DEF IsAudit, Honest

(* What a step of process p may do to the lists and to the places.         *)
LEMMA ListsKept ==
    ASSUME SuiteInv, LedgerInv', LedgerStep, NEW p \in Process, NEW list, NEW place, NEW rest,
           IsAudit(list), Honest(list, row', grades'),
           (jobs' = jobs /\ list = jobs[p]) \/ jobs' = [jobs EXCEPT ![p] = list],
           NEW written, IsAudit(written), Honest(written, row', grades'),
           manifest' = manifest \/ \E d \in Dir : manifest' = [manifest EXCEPT ![d] = written],
           queue' = queue \/ queue' = [queue EXCEPT ![p] = rest],
           pc' = pc \/ pc' = [pc EXCEPT ![p] = place],
           pc'[p] \in WithRow => (CurrentSample(p))' \in Sample
    PROVE  AuditInv' /\ PlaceInv'
<1>1. /\ DOMAIN jobs' = Process /\ jobs' = [q \in Process |-> jobs'[q]]
      /\ \A q \in Process : q # p => jobs'[q] = jobs[q]
      /\ jobs'[p] = list
  BY DEF SuiteInv, AuditInv
<1>2. /\ DOMAIN queue' = Process /\ queue' = [q \in Process |-> queue'[q]]
      /\ \A q \in Process : q # p => queue'[q] = queue[q]
  BY DEF SuiteInv, AuditInv
<1>3. /\ DOMAIN pc' = Process /\ pc' = [q \in Process |-> pc'[q]]
      /\ \A q \in Process : q # p => pc'[q] = pc[q]
  BY DEF SuiteInv, AuditInv
<1>4. /\ DOMAIN manifest' = Dir /\ manifest' = [d \in Dir |-> manifest'[d]]
      /\ \A d \in Dir : manifest'[d] = manifest[d] \/ manifest'[d] = written
  BY DEF SuiteInv, AuditInv
<1>5. ASSUME NEW q \in Process
      PROVE  IsAudit(jobs'[q]) /\ Honest(jobs'[q], row', grades')
  <2>1. CASE q = p
    BY <1>1, <2>1
  <2>2. CASE q # p
    <3>1. IsAudit(jobs[q]) /\ Honest(jobs[q], row, grades)
      BY DEF SuiteInv, AuditInv
    <3> DEFINE old == jobs[q]
    <3>3. Honest(old, row', grades')
      BY <3>1, HonestStays DEF SuiteInv
    <3>4. jobs'[q] = old
      BY <1>1, <2>2
    <3> HIDE DEF old
    <3> QED
      BY <3>1, <3>3, <3>4 DEF old
  <2> QED
    BY <2>1, <2>2
<1>6. ASSUME NEW d \in Dir
      PROVE  IsAudit(manifest'[d]) /\ Honest(manifest'[d], row', grades')
  <2>1. CASE manifest'[d] = written
    BY <2>1
  <2>2. CASE manifest'[d] = manifest[d]
    <3>1. IsAudit(manifest[d]) /\ Honest(manifest[d], row, grades) /\ LedgerInv
      BY DEF SuiteInv, AuditInv
    <3>2. Honest(manifest[d], row', grades')
      BY <3>1, HonestStays
    <3> QED
      BY <2>2, <3>1, <3>2
  <2> QED
    BY <1>4, <2>1, <2>2
<1>7. AuditInv'
  BY <1>1, <1>2, <1>3, <1>4, <1>5, <1>6 DEF AuditInv
<1>8. ASSUME NEW q \in Process, pc'[q] \in WithRow
      PROVE  (CurrentSample(q))' \in Sample
  <2>1. CASE q = p
    BY <1>8, <2>1
  <2>2. CASE q # p
    BY <1>1, <1>2, <1>3, <1>8, <2>2 DEF SuiteInv, PlaceInv, CurrentSample, Current
  <2> QED
    BY <2>1, <2>2
<1> QED
  BY <1>7, <1>8 DEF PlaceInv

(* The steps that leave lists, queues and manifests alone.                 *)
LEMMA IdleStep ==
    ASSUME SuiteInv, LedgerInv', LedgerStep, NEW p \in Process,
           \/ Launch(p) \/ PlanFirst(p) \/ Summarise(p) \/ WriteReport(p)
    PROVE  SuiteInv'
<1>1. PICK place \in {"plan", "open", "report", "close"} :
          pc' = [pc EXCEPT ![p] = place]
  BY DEF Launch, PlanFirst, Summarise, WriteReport, Goto
<1>2. jobs' = jobs /\ queue' = queue /\ manifest' = manifest
  BY DEF Launch, PlanFirst, Summarise, WriteReport, memory, disk
<1>3. pc'[p] \notin WithRow
  BY <1>1 DEF SuiteInv, AuditInv, WithRow
<1>4. IsAudit(jobs[p]) /\ Honest(jobs[p], row', grades')
  BY <1>2, HonestStays DEF SuiteInv, AuditInv
<1> QED
  BY <1>1, <1>2, <1>3, <1>4, ListsKept DEF SuiteInv

(* Opening the audit, planning a top-up, closing and dying.                *)
LEMMA AuditStep ==
    ASSUME SuiteInv, LedgerInv', LedgerStep, NEW p \in DOMAIN world.dir,
           OpenAudit(p) \/ TopUp(p) \/ Close(p) \/ Kill(p) \/ WriteJob(p)
    PROVE  SuiteInv'
<1>0. world.dir[p] \in Dir /\ p \in Process
  BY SuiteAssumption DEF SuiteInv, LedgerInv, IsWorld
<1>1. IsAudit(jobs[p]) /\ Honest(jobs[p], row, grades) /\ LedgerInv
  BY <1>0 DEF SuiteInv, AuditInv
<1>2. Honest(jobs[p], row', grades') \/ jobs' # jobs
  BY <1>1, HonestStays
<1>3. CASE OpenAudit(p)
  <2> DEFINE found == manifest[world.dir[p]]
             list == IF found = <<>> THEN AddPlannedJobs(<<>>, plan[p]) ELSE found
             rest == Positions(list, NeedsRecovery)
  <2>1. IsAudit(list) /\ Honest(list, row, grades)
    BY <1>0, NoJobs, PlannedIsHonest DEF SuiteInv, AuditInv
  <2>2. /\ jobs' = [jobs EXCEPT ![p] = list] /\ queue' = [queue EXCEPT ![p] = rest]
        /\ manifest' = manifest /\ pc' = [pc EXCEPT ![p] = "next"]
    BY <1>3 DEF OpenAudit, Goto, disk
  <2>3. pc'[p] \notin WithRow
    BY <1>0, <2>2 DEF SuiteInv, AuditInv, WithRow
  <2> HIDE DEF list, rest
  <2>4. Honest(list, row', grades')
    BY <1>1, <2>1, HonestStays
  <2> QED
    BY <1>0, <2>1, <2>2, <2>3, <2>4, ListsKept DEF SuiteInv
<1>4. CASE TopUp(p)
  <2> DEFINE list == AddPlannedJobs(jobs[p], ReadPlan)
             rest == AddedJobs(list, ReadPlan)
  <2>1. IsAudit(list) /\ Honest(list, row, grades)
    BY <1>1, PlannedIsHonest
  <2>2. /\ jobs' = [jobs EXCEPT ![p] = list] /\ queue' = [queue EXCEPT ![p] = rest]
        /\ manifest' = manifest /\ pc' = pc /\ pc[p] = "next"
    BY <1>0, <1>4 DEF TopUp, At, disk, SuiteInv, AuditInv
  <2>3. pc'[p] \notin WithRow
    BY <2>2 DEF WithRow
  <2> HIDE DEF list, rest
  <2>4. Honest(list, row', grades')
    BY <1>1, <2>1, HonestStays
  <2> QED
    BY <1>0, <2>1, <2>2, <2>3, <2>4, ListsKept DEF SuiteInv
<1>5. CASE Close(p)
  <2>1. Honest(jobs[p], row', grades')
    BY <1>1, HonestStays
  <2>2. /\ jobs' = [jobs EXCEPT ![p] = <<>>] /\ queue' = [queue EXCEPT ![p] = <<>>]
        /\ manifest' = [manifest EXCEPT ![world.dir[p]] = jobs[p]]
        /\ pc' = [pc EXCEPT ![p] = "idle"]
    BY <1>5 DEF Close, Forget, Goto
  <2>3. pc'[p] \notin WithRow
    BY <1>0, <2>2 DEF SuiteInv, AuditInv, WithRow
  <2> QED
    BY <1>0, <1>1, NoJobs, <2>1, <2>2, <2>3, ListsKept DEF SuiteInv
<1>6. CASE Kill(p)
  <2>2. /\ jobs' = [jobs EXCEPT ![p] = <<>>] /\ queue' = [queue EXCEPT ![p] = <<>>]
        /\ manifest' = manifest /\ pc' = [pc EXCEPT ![p] = "idle"]
    BY <1>6 DEF Kill, Forget, Goto, disk
  <2>3. pc'[p] \notin WithRow
    BY <1>0, <2>2 DEF SuiteInv, AuditInv, WithRow
  <2> QED
    BY <1>0, NoJobs, <2>2, <2>3, ListsKept DEF SuiteInv
<1>7. CASE WriteJob(p)
  <2> DEFINE rest == Tail(queue[p])
  <2>2. /\ jobs' = jobs /\ queue' = [queue EXCEPT ![p] = rest]
        /\ manifest' = [manifest EXCEPT ![world.dir[p]] = jobs[p]]
        /\ pc' = [pc EXCEPT ![p] = "next"]
    BY <1>0, <1>7 DEF WriteJob, Goto, SuiteInv, AuditInv
  <2>3. pc'[p] \notin WithRow
    BY <1>0, <2>2 DEF SuiteInv, AuditInv, WithRow
  <2> HIDE DEF rest
  <2> QED
    BY <1>0, <1>1, <1>2, <2>2, <2>3, ListsKept DEF SuiteInv
<1> QED
  BY <1>3, <1>4, <1>5, <1>6, <1>7

(* The update of a job in memory is an update of the list of the process.  *)
LEMMA JobInList ==
    ASSUME NEW P, NEW f, DOMAIN f = P, f = [q \in P |-> f[q]], NEW p \in P,
           NEW k, NEW status
    PROVE  [f EXCEPT ![p][k].status = status]
             = [f EXCEPT ![p] = [f[p] EXCEPT ![k].status = status]]
  OBVIOUS

(* A step that leaves the jobs in memory alone.                            *)
LEMMA JobKept ==
    ASSUME SuiteInv, LedgerInv', LedgerStep, NEW p \in Process, NEW place,
           jobs' = jobs, manifest' = manifest, queue' = queue, pc' = [pc EXCEPT ![p] = place],
           place \in WithRow => CurrentSample(p) \in Sample
    PROVE  SuiteInv'
<1>1. IsAudit(jobs[p]) /\ Honest(jobs[p], row, grades) /\ LedgerInv /\ pc'[p] = place
  BY DEF SuiteInv, AuditInv
<1>2. Honest(jobs[p], row', grades')
  BY <1>1, HonestStays
<1>3. pc'[p] \in WithRow => (CurrentSample(p))' \in Sample
  BY <1>1 DEF CurrentSample, Current
<1> QED
  BY <1>1, <1>2, <1>3, ListsKept DEF SuiteInv

(* A step that changes the status of the current job.                      *)
LEMMA JobMoved ==
    ASSUME SuiteInv, LedgerInv', LedgerStep, NEW p \in Process, NEW place, place \notin WithRow,
           NEW status \in JobStatus \ {"completed"},
           jobs' = [jobs EXCEPT ![p][Current(p)].status = status],
           manifest' = manifest \/ \E d \in Dir : manifest' = [manifest EXCEPT ![d] = jobs'[p]],
           queue' = queue, pc' = [pc EXCEPT ![p] = place]
    PROVE  SuiteInv'
<1> DEFINE k == Current(p)
           next == [jobs[p] EXCEPT ![k].status = status]
<1>1. /\ DOMAIN jobs = Process /\ jobs = [q \in Process |-> jobs[q]]
      /\ IsAudit(jobs[p]) /\ Honest(jobs[p], row, grades) /\ LedgerInv
      /\ pc'[p] = place
  BY DEF SuiteInv, AuditInv
<1>2. jobs' = [jobs EXCEPT ![p] = next]
  BY <1>1, JobInList
<1>3. Rewritten(next, jobs[p], k, status, jobs[p][k].grade)
  <2> HIDE DEF k
  <2> QED
    BY <1>1, StatusWritten
<1>4. jobs'[p] = next
  BY <1>1, <1>2
<1> HIDE DEF next, k
<1>5. IsAudit(next) /\ Honest(next, row', grades')
  BY <1>1, <1>3, RewrittenIsHonest
<1> QED
  BY <1>1, <1>2, <1>4, <1>5, ListsKept, ZenonT(60) DEF SuiteInv

(* A step that changes status and grade of the current job: "completed"    *)
(* comes with a grade that is stored.                                      *)
LEMMA JobSettled ==
    ASSUME SuiteInv, LedgerInv', LedgerStep, NEW p \in Process, NEW place, place \notin WithRow,
           NEW status \in JobStatus, NEW grade \in Snapshot \cup {Ungraded},
           SetJob(p, status, grade),
           status = "completed" => /\ CurrentSample(p) \in Sample
                                   /\ row'[CurrentSample(p)] = "completed"
                                   /\ grade \in grades'[CurrentSample(p)],
           manifest' = manifest, queue' = queue, pc' = [pc EXCEPT ![p] = place]
    PROVE  SuiteInv'
<1> DEFINE k == Current(p)
           list == jobs[p]
           next == [list EXCEPT ![k].status = status, ![k].grade = grade]
<1>1. /\ DOMAIN jobs = Process /\ jobs = [q \in Process |-> jobs[q]]
      /\ IsAudit(list) /\ Honest(list, row, grades) /\ LedgerInv
      /\ pc'[p] = place /\ CurrentSample(p) = list[k].sample
  BY DEF SuiteInv, AuditInv, CurrentSample
<1>2. jobs' = [jobs EXCEPT ![p] = next]
  <2>1. jobs' = [jobs EXCEPT ![p][k].status = status, ![p][k].grade = grade]
    BY DEF SetJob
  <2> QED
    <3> DEFINE one == [jobs EXCEPT ![p][k].status = status]
    <3>1. one[p] = [list EXCEPT ![k].status = status]
      BY <1>1
    <3>2. jobs' = [one EXCEPT ![p] = [one[p] EXCEPT ![k].grade = grade]]
      BY <1>1, <2>1
    <3>3. \A x : [one EXCEPT ![p] = x] = [jobs EXCEPT ![p] = x]
      BY <1>1
    <3> QED
      BY <3>1, <3>2, <3>3
<1>3. Rewritten(next, list, k, status, grade)
  <2> HIDE DEF k, list
  <2> QED
    BY <1>1, GradeWritten
<1>4. jobs'[p] = next
  BY <1>1, <1>2
<1> HIDE DEF next, k, list
<1>5. IsAudit(next) /\ Honest(next, row', grades')
  BY <1>1, <1>3, RewrittenIsHonest
<1> QED
  BY <1>1, <1>2, <1>4, <1>5, ListsKept DEF SuiteInv

(* The steps of executeJob.                                                *)
LEMMA ExecuteStep ==
    ASSUME SuiteInv, LedgerInv', LedgerStep, NEW p \in DOMAIN world.dir,
           \/ BeginJob(p) \/ Create(p) \/ Start(p) \/ Mark(p)
           \/ \E result \in {"completed"} \cup HarnessFailure : Seal(p, result)
           \/ CheckGrades(p) \/ StoreGrade(p) \/ JobThrows(p)
    PROVE  SuiteInv'
<1>0. world.dir[p] \in Dir /\ p \in Process
  BY SuiteAssumption DEF SuiteInv, LedgerInv, IsWorld
<1>1. /\ LedgerInv /\ Ungraded \in Snapshot \cup {Ungraded}
      /\ {"running", "failed"} \subseteq JobStatus \ {"completed"}
      /\ "completed" \in JobStatus
      /\ pc[p] \in WithRow => CurrentSample(p) \in Sample
      /\ "write" \notin WithRow /\ "create" \notin WithRow
  BY <1>0 DEF SuiteInv, JobStatus, PlaceInv, WithRow
<1>2. ASSUME FailJob(p), manifest' = manifest, queue' = queue
      PROVE  SuiteInv'
  BY <1>0, <1>1, <1>2, JobMoved DEF FailJob, Goto
<1>3. ASSUME NEW status \in {"completed", "runner_error", "timed_out"}, TakeOutcome(p, status),
             manifest' = manifest, queue' = queue, CurrentSample(p) \in Sample
      PROVE  SuiteInv'
  <2>1. CASE status = "completed"
    BY <1>0, <1>3, <2>1, JobKept DEF TakeOutcome, Goto
  <2>2. CASE status # "completed"
    <3>1. SetJob(p, status, Ungraded) /\ pc' = [pc EXCEPT ![p] = "write"]
      BY <1>3, <2>2 DEF TakeOutcome, Goto
    <3>2. status \in JobStatus
      BY DEF JobStatus
    <3> QED
      BY <1>0, <1>1, <1>3, <2>2, <3>1, <3>2, JobSettled
  <2> QED
    BY <2>1, <2>2
<1>4. CASE BeginJob(p)
  <2>1. /\ jobs' = [jobs EXCEPT ![p][Current(p)].status = "running"] /\ queue' = queue
        /\ manifest' = [manifest EXCEPT ![world.dir[p]] = jobs'[p]]
        /\ pc' = [pc EXCEPT ![p] = "create"]
    BY <1>4 DEF BeginJob, Goto
  <2> QED
    BY <1>0, <1>1, <2>1, JobMoved
<1>5. CASE Create(p)
  <2> DEFINE s == CurrentSample(p)
  <2>1. s \in Sample /\ manifest' = manifest /\ queue' = queue
    BY <1>5 DEF Create, disk
  <2>2. CASE IsRawRunSealed(row[s])
    <3>1. TakeOutcome(p, row[s]) /\ row[s] \in {"completed", "runner_error", "timed_out"}
      BY <1>5, <2>2 DEF Create, IsRawRunSealed
    <3> QED
      BY <1>3, <2>1, <3>1
  <2>3. CASE ~IsRawRunSealed(row[s])
    <3>1. pc' = [pc EXCEPT ![p] = "start"] /\ jobs' = jobs
      BY <1>5, <2>3 DEF Create, Goto
    <3> QED
      BY <1>0, <2>1, <3>1, JobKept
  <2> QED
    BY <2>2, <2>3
<1>6. CASE Start(p)
  <2>1. manifest' = manifest /\ queue' = queue /\ pc[p] = "start"
    BY <1>6 DEF Start, disk, At
  <2>2. CASE StartRawRun(row, CurrentSample(p))
    <3>1. PICK place \in {"mark", "harness"} : pc' = [pc EXCEPT ![p] = place] /\ jobs' = jobs
      BY <1>6, <2>2 DEF Start, Goto
    <3>2. CurrentSample(p) \in Sample
      BY <1>1, <2>1 DEF WithRow
    <3> QED
      BY <1>0, <2>1, <3>1, <3>2, JobKept
  <2>3. CASE ~StartRawRun(row, CurrentSample(p))
    BY <1>2, <1>6, <2>1, <2>3 DEF Start
  <2> QED
    BY <2>2, <2>3
<1>7. CASE Mark(p)
  <2>1. /\ manifest' = manifest /\ queue' = queue /\ jobs' = jobs /\ pc[p] = "mark"
        /\ pc' = [pc EXCEPT ![p] = "harness"]
    BY <1>7 DEF Mark, disk, memory, At, Goto
  <2>2. CurrentSample(p) \in Sample
    BY <1>1, <2>1 DEF WithRow
  <2> QED
    BY <1>0, <2>1, <2>2, JobKept
<1>8. ASSUME NEW result \in {"completed"} \cup HarnessFailure, Seal(p, result)
      PROVE  SuiteInv'
  <2>1. manifest' = manifest /\ queue' = queue /\ pc[p] = "harness"
    BY <1>8 DEF Seal, disk, At
  <2>2. CurrentSample(p) \in Sample /\ result \in {"completed", "runner_error", "timed_out"}
    BY <1>1, <2>1 DEF WithRow, HarnessFailure
  <2>3. TakeOutcome(p, result) \/ FailJob(p)
    BY <1>8 DEF Seal
  <2> QED
    BY <1>2, <1>3, <2>1, <2>2, <2>3
<1>9. CASE CheckGrades(p)
  <2> DEFINE s == CurrentSample(p)
  <2>1. /\ manifest' = manifest /\ queue' = queue /\ pc[p] = "grade"
        /\ row' = row /\ grades' = grades
    BY <1>9 DEF CheckGrades, disk, database, At
  <2>2. s \in Sample /\ grader \in Snapshot
    BY <1>1, <2>1 DEF WithRow, LedgerInv
  <2>3. CASE Gradable(row, s) /\ grader \in grades[s]
    <3>1. SetJob(p, "completed", grader) /\ pc' = [pc EXCEPT ![p] = "write"]
      BY <1>9, <2>3 DEF CheckGrades, Goto
    <3>2. row'[s] = "completed" /\ grader \in grades'[s]
      BY <2>1, <2>3 DEF Gradable
    <3> QED
      BY <1>0, <1>1, <2>1, <2>2, <3>1, <3>2, JobSettled
  <2>4. CASE ~(Gradable(row, s) /\ grader \in grades[s])
    <3>1. FailJob(p) \/ (pc' = [pc EXCEPT ![p] = "judge"] /\ jobs' = jobs)
      BY <1>9, <2>4 DEF CheckGrades, Goto
    <3> QED
      BY <1>0, <1>2, <2>1, <2>2, <3>1, JobKept
  <2> QED
    BY <2>3, <2>4
<1>10. CASE StoreGrade(p)
  <2> DEFINE s == CurrentSample(p)
             g == snapshot[p]
  <2>1. manifest' = manifest /\ queue' = queue /\ pc[p] = "judge" /\ row' = row
    BY <1>10 DEF StoreGrade, disk, At
  <2>2. s \in Sample /\ g \in Snapshot
    BY <1>0, <1>1, <2>1 DEF WithRow, LedgerInv
  <2>3. CASE Gradable(row, s)
    <3>1. /\ SetJob(p, "completed", g) /\ pc' = [pc EXCEPT ![p] = "write"]
          /\ grades' = [grades EXCEPT ![s] = grades[s] \cup {g}]
      BY <1>10, <2>3 DEF StoreGrade, Goto, CreateGrade
    <3>2. row'[s] = "completed" /\ g \in grades'[s]
      BY <1>1, <2>1, <2>2, <2>3, <3>1 DEF Gradable, LedgerInv
    <3> QED
      BY <1>0, <1>1, <2>1, <2>2, <3>1, <3>2, JobSettled
  <2>4. CASE ~Gradable(row, s)
    BY <1>2, <1>10, <2>1, <2>4 DEF StoreGrade
  <2> QED
    BY <2>3, <2>4
<1>11. CASE JobThrows(p)
  <2>1. FailJob(p) /\ manifest' = manifest /\ queue' = queue
    BY <1>11 DEF JobThrows, disk
  <2> QED
    BY <1>2, <2>1
<1> QED
  BY <1>4, <1>5, <1>6, <1>7, <1>8, <1>9, <1>10, <1>11

(* A suite starts without jobs, and every step keeps SuiteInv.             *)
LEMMA InitSuite == Init => SuiteInv
<1> SUFFICES ASSUME Init PROVE SuiteInv
  OBVIOUS
<1>1. \A p \in Process : pc[p] = "idle" /\ jobs[p] = <<>>
  BY DEF Init
<1>2. \A d \in Dir : manifest[d] = <<>>
  BY DEF Init
<1>3. AuditInv
  BY <1>1, <1>2, NoJobs DEF AuditInv, Init
<1>4. PlaceInv
  BY <1>1 DEF PlaceInv, WithRow
<1> QED
  BY <1>3, <1>4, InitLedger DEF SuiteInv

(* Every step of a suite keeps SuiteInv.                                   *)
LEMMA NextSuite == SuiteInv /\ [Next]_vars => SuiteInv'
<1> SUFFICES ASSUME SuiteInv, [Next]_vars PROVE SuiteInv'
  OBVIOUS
<1>1. LedgerStep /\ LedgerInv'
  BY NextLedger DEF SuiteInv
<1>2. ASSUME NEW p \in DOMAIN world.dir, Launch(p) \/ Step(p) \/ JobThrows(p) \/ Kill(p)
      PROVE  SuiteInv'
  <2>1. p \in Process
    BY SuiteAssumption DEF SuiteInv, LedgerInv, IsWorld
  <2>2. CASE \/ Launch(p) \/ PlanFirst(p) \/ Summarise(p) \/ WriteReport(p)
    BY <1>1, <2>1, <2>2, IdleStep
  <2>3. CASE OpenAudit(p) \/ TopUp(p) \/ Close(p) \/ Kill(p) \/ WriteJob(p)
    BY <1>1, <2>3, AuditStep
  <2>4. CASE \/ BeginJob(p) \/ Create(p) \/ Start(p) \/ Mark(p)
             \/ \E result \in {"completed"} \cup HarnessFailure : Seal(p, result)
             \/ CheckGrades(p) \/ StoreGrade(p) \/ JobThrows(p)
    BY <1>1, <2>4, ExecuteStep
  <2> QED
    BY <1>2, <2>2, <2>3, <2>4 DEF Step
<1>3. CASE UNCHANGED <<world, row, grades, pc, jobs, queue, manifest>>
  <2>1. AuditInv'
    BY <1>3 DEF SuiteInv, AuditInv
  <2>2. PlaceInv'
    BY <1>3 DEF SuiteInv, PlaceInv, CurrentSample, Current
  <2> QED
    BY <1>1, <2>1, <2>2 DEF SuiteInv
<1>4. CASE EditGrader
  BY <1>3, <1>4 DEF EditGrader, database, disk, memory
<1>5. CASE UNCHANGED vars
  BY <1>3, <1>5 DEF vars
<1> QED
  BY <1>2, <1>4, <1>5 DEF Next

(* SuiteInv: what the manifests and the audits in memory say of the        *)
(* database is so, and a job under way has a sample of the plan.           *)
THEOREM SuiteInvariant == Spec => []SuiteInv
  BY InitSuite, NextSuite, PTL DEF Spec

(* CompletedIsGraded: whenever a process dies, and whoever else writes the *)
(* manifest, a job it calls completed has a completed run and the Grade    *)
(* it names.                                                               *)
THEOREM ManifestsTellTheTruth == Spec => []CompletedIsGraded
<1>1. SuiteInv => CompletedIsGraded
  BY DEF SuiteInv, AuditInv, Honest, CompletedIsGraded
<1> QED
  BY <1>1, SuiteInvariant, PTL

-----------------------------------------------------------------------------
(* Grades by two snapshots. *)

\* Without --regrade the judge of the only process is asked about a run that
\* has no Grade, so that no run gets a second one.
RegradeInv ==
    Alone /\ ~world.regrade =>
        /\ \A p \in DOMAIN world.dir : At(p, "judge") => grades[CurrentSample(p)] = {}
        /\ \A s \in Sample : \E g \in Snapshot : grades[s] \subseteq {g}

(* Only StoreGrade touches the Grades, and only CheckGrades leads to the   *)
(* judge.                                                                  *)
LEMMA JudgeSteps ==
    ASSUME SuiteInv, NEW p \in DOMAIN world.dir,
           Launch(p) \/ Step(p) \/ JobThrows(p) \/ Kill(p)
    PROVE  \/ StoreGrade(p) /\ pc'[p] = "write"
           \/ CheckGrades(p) /\ grades' = grades /\ jobs' = jobs /\ queue' = queue
           \/ grades' = grades /\ pc'[p] # "judge"
<1>0. p \in Process /\ DOMAIN pc = Process
  BY SuiteAssumption DEF SuiteInv, LedgerInv, AuditInv, IsWorld
<1>1. CASE StoreGrade(p)
  BY <1>0, <1>1 DEF StoreGrade, Goto, FailJob
<1>2. CASE CheckGrades(p)
  <2>1. grades' = grades /\ queue' = queue /\ (jobs' = jobs \/ pc' = [pc EXCEPT ![p] = "write"])
    BY <1>2 DEF CheckGrades, database, Goto, FailJob
  <2> QED
    BY <1>0, <1>2, <2>1
<1>3. CASE Launch(p) \/ PlanFirst(p) \/ Summarise(p) \/ WriteReport(p)
  BY <1>0, <1>3 DEF Launch, PlanFirst, Summarise, WriteReport, Goto, database
<1>4. CASE OpenAudit(p) \/ TopUp(p) \/ Close(p) \/ Kill(p) \/ WriteJob(p) \/ BeginJob(p)
  BY <1>0, <1>4 DEF OpenAudit, TopUp, Close, Kill, WriteJob, BeginJob, Goto, database, At
<1>5. CASE Create(p) \/ Start(p) \/ Mark(p) \/ JobThrows(p)
  BY <1>0, <1>5 DEF Create, Start, Mark, JobThrows, TakeOutcome, FailJob, Goto, database
<1>6. CASE \E result \in {"completed"} \cup HarnessFailure : Seal(p, result)
  BY <1>0, <1>6 DEF Seal, TakeOutcome, FailJob, Goto
<1> QED
  BY <1>1, <1>2, <1>3, <1>4, <1>5, <1>6 DEF Step

(* Every step of a suite keeps RegradeInv.                                 *)
LEMMA NextRegrade == SuiteInv /\ RegradeInv /\ [Next]_vars => RegradeInv'
<1> SUFFICES ASSUME SuiteInv, RegradeInv, [Next]_vars, (Alone /\ ~world.regrade)'
             PROVE  /\ \A p \in DOMAIN world'.dir :
                           pc'[p] = "judge" => grades'[(CurrentSample(p))'] = {}
                    /\ \A s \in Sample : \E g \in Snapshot : grades'[s] \subseteq {g}
  BY DEF RegradeInv, At
<1>1. world' = world
  BY ZenonT(60)
  DEF vars, Next, Step, Launch, PlanFirst, OpenAudit, BeginJob, Create, Start, Mark, Seal,
         CheckGrades, StoreGrade, WriteJob, TopUp, Summarise, WriteReport, Close, JobThrows,
         Kill, EditGrader
<1>2. Alone /\ ~world.regrade
  BY <1>1 DEF Alone
<1>3. /\ \A p \in DOMAIN world.dir : pc[p] = "judge" => grades[CurrentSample(p)] = {}
      /\ \A s \in Sample : \E g \in Snapshot : grades[s] \subseteq {g}
  BY <1>2 DEF RegradeInv, At
<1>4. ASSUME NEW p \in DOMAIN world.dir, Launch(p) \/ Step(p) \/ JobThrows(p) \/ Kill(p)
      PROVE  /\ pc'[p] = "judge" => grades'[(CurrentSample(p))'] = {}
             /\ \A s \in Sample : \E g \in Snapshot : grades'[s] \subseteq {g}
  <2>0. p \in Process
    BY SuiteAssumption DEF SuiteInv, LedgerInv, IsWorld
  <2>1. CASE StoreGrade(p) /\ pc'[p] = "write"
    <3> DEFINE c == CurrentSample(p)
               g == snapshot[p]
    <3>1. grades' = grades \/ grades' = [grades EXCEPT ![c] = grades[c] \cup {g}]
      BY <2>1 DEF StoreGrade, CreateGrade
    <3>2. grades[c] = {} /\ g \in Snapshot /\ DOMAIN grades = Sample
      BY <1>3, <2>0, <2>1 DEF StoreGrade, At, SuiteInv, LedgerInv
    <3> HIDE DEF c, g
    <3> QED
      BY <1>3, <2>1, <3>1, <3>2
  <2>2. CASE CheckGrades(p) /\ grades' = grades /\ jobs' = jobs /\ queue' = queue
    <3>1. (CurrentSample(p))' = CurrentSample(p)
      BY <2>2 DEF CurrentSample, Current
    <3>2. pc'[p] = "judge" => grades[CurrentSample(p)] = {}
      <4>1. DOMAIN pc = Process
        BY DEF SuiteInv, AuditInv
      <4> QED
        BY <1>2, <2>0, <2>2, <4>1 DEF CheckGrades, PolicyForbids, Goto, FailJob
    <3> QED
      BY <1>3, <2>2, <3>1, <3>2
  <2>3. CASE grades' = grades /\ pc'[p] # "judge"
    BY <1>3, <2>3
  <2> QED
    BY <1>4, <2>1, <2>2, <2>3, JudgeSteps
<1>5. CASE \E p \in DOMAIN world.dir : Launch(p) \/ Step(p) \/ JobThrows(p) \/ Kill(p)
  <2>1. PICK p \in DOMAIN world.dir : Launch(p) \/ Step(p) \/ JobThrows(p) \/ Kill(p)
    BY <1>5
  <2>2. DOMAIN world'.dir = {p}
    BY <1>1, <1>2 DEF Alone
  <2> QED
    BY <1>4, <2>1, <2>2
<1>6. CASE UNCHANGED <<pc, jobs, queue, grades>>
  BY <1>1, <1>3, <1>6 DEF CurrentSample, Current
<1>7. CASE EditGrader
  BY <1>6, <1>7 DEF EditGrader, database, memory
<1>8. CASE UNCHANGED vars
  BY <1>6, <1>8 DEF vars
<1> QED
  BY <1>5, <1>7, <1>8 DEF Next

(* RegradeIsAsked: without --regrade a suite that has its database for     *)
(* itself grades no run by two snapshots, however often it dies and is     *)
(* started again and whenever the grader file changes.                     *)
THEOREM NoSecondSnapshot == Spec => []RegradeIsAsked
<1>1. Init => RegradeInv
  <2> SUFFICES ASSUME Init PROVE RegradeInv
    OBVIOUS
  <2>1. /\ \A p \in DOMAIN world.dir : pc[p] # "judge"
        /\ \A s \in Sample : grades[s] = {} /\ 1 \in Snapshot
    BY SuiteAssumption DEF Init, IsWorld, Snapshot
  <2> QED
    BY <2>1 DEF RegradeInv, At
<1>2. RegradeInv => RegradeIsAsked
  <2>1. ASSUME NEW s \in Sample, NEW g \in Snapshot, grades[s] \subseteq {g}
        PROVE  Cardinality(grades[s]) <= 1
    <3> DEFINE given == grades[s]
    <3>1. given = {} \/ given = {g}
      BY <2>1
    <3> QED
      BY <3>1, FS_EmptySet, FS_Singleton
  <2> QED
    BY <2>1 DEF RegradeInv, RegradeIsAsked
<1> QED
  BY <1>1, <1>2, NextRegrade, SuiteInvariant, PTL DEF Spec

-----------------------------------------------------------------------------
(* The lists of jobs and the plans behind them. *)

\* The samples of a plan, whether or not a run got that far.
Slots == [cell : Cell, index : Nat]

\* A job that is still to be run or was interrupted.
Unfinished(job) == job.status \in {"planned", "running"}

(* What a setting is.                                                      *)
LEMMA WorldIs ==
    ASSUME NEW w \in World
    PROVE  /\ w.cells \in Seq(Cell) /\ w.target \in Nat
           /\ \A i, h \in DOMAIN w.cells : w.cells[i] = w.cells[h] => i = h
           /\ DOMAIN w.dir \subseteq Process /\ \A p \in DOMAIN w.dir : w.dir[p] \in Dir
           /\ w.snapshots \in Nat
  BY SuiteAssumption DEF IsWorld, IsInjective

(* The positions of an audit.                                              *)
LEMMA AuditIs ==
    ASSUME NEW list, IsAudit(list)
    PROVE  /\ Len(list) \in Nat /\ DOMAIN list = 1..Len(list)
           /\ \A i \in DOMAIN list : /\ list[i].status \in JobStatus
                                     /\ list[i].grade \in Snapshot \cup {Ungraded}
                                     /\ list[i] \in Jobs({list[i].sample})
<1>1. PICK S : list \in Seq(Jobs(S))
  BY DEF IsAudit
<1>2. /\ Len(list) \in Nat /\ DOMAIN list = 1..Len(list)
      /\ \A i \in DOMAIN list : list[i] \in Jobs(S)
  BY <1>1, LenProperties, ElementOfSeq
<1>3. \A job \in Jobs(S) : /\ job.status \in JobStatus /\ job.grade \in Snapshot \cup {Ungraded}
                           /\ job \in Jobs({job.sample})
  BY DEF Jobs
<1> QED
  BY <1>2, <1>3

\* all is list with the jobs of the plan that it did not have, in the order
\* of the plan, and failed jobs of the plan planned again.
IsExtended(all, list, planned) ==
    /\ IsAudit(all) /\ DOMAIN list \subseteq DOMAIN all
    /\ \A i \in DOMAIN list : \A j \in DOMAIN all : j \notin DOMAIN list => i < j
    /\ \A i \in DOMAIN list :
          /\ all[i].sample = list[i].sample /\ all[i].grade = list[i].grade
          /\ all[i] # list[i] => list[i].status = "failed" /\ all[i].status = "planned"
                                 /\ \E m \in DOMAIN planned : planned[m] = all[i].sample
    /\ \A i \in DOMAIN all \ DOMAIN list :
          /\ all[i].status = "planned" /\ all[i].grade = Ungraded
          /\ \E m \in DOMAIN planned :
                /\ all[i].sample = planned[m] /\ planned[m] \notin SamplesOf(list)
                /\ \A h \in 1..(m - 1) : \E j \in 1..(i - 1) :
                      j \in DOMAIN all /\ all[j].sample = planned[h]
    /\ \A m \in DOMAIN planned : planned[m] \in SamplesOf(all)
    /\ (\A m, h \in DOMAIN planned : planned[m] = planned[h] => m = h)
       /\ (\A i, j \in DOMAIN list : list[i].sample = list[j].sample => i = j)
         => \A i, j \in DOMAIN all : all[i].sample = all[j].sample => i = j

(* addPlannedJobs.                                                         *)
LEMMA ExtendedIs ==
    ASSUME NEW list, IsAudit(list), NEW S, NEW planned \in Seq(S)
    PROVE  IsExtended(AddPlannedJobs(list, planned), list, planned)
<1> DEFINE P == {k \in DOMAIN planned : planned[k] \notin SamplesOf(list)}
           fresh == Filter(planned, P)
           N == Len(list)
           n == Len(fresh)
           added == NewJobs(list, planned)
           kept == Revived(list, planned)
           all == AddPlannedJobs(list, planned)
<1>1. /\ N \in Nat /\ DOMAIN list = 1..N
      /\ \A i \in DOMAIN list : list[i] \in Jobs({list[i].sample})
  BY AuditIs
<1>2. /\ Len(planned) \in Nat /\ DOMAIN planned = 1..Len(planned)
  BY LenProperties
<1>3. fresh \in Seq(S) /\ KeptFrom(fresh, planned, P)
  <2>1. P \in SUBSET (1..Len(planned))
    BY <1>2
  <2> HIDE DEF P
  <2> QED
    BY <2>1, FilterKeeps
<1>4. n \in Nat /\ DOMAIN fresh = 1..n
  BY <1>3, LenProperties
<1>5. \A i \in DOMAIN list : i \in DOMAIN kept
  BY DEF Revived
<1>6. ASSUME NEW i \in DOMAIN list
      PROVE  /\ kept[i].sample = list[i].sample /\ kept[i].grade = list[i].grade
             /\ kept[i] # list[i] => list[i].status = "failed" /\ kept[i].status = "planned"
                                     /\ \E m \in DOMAIN planned : planned[m] = list[i].sample
  <2>1. kept[i] = IF list[i].status = "failed" /\ list[i].sample \in Range(planned)
                  THEN [list[i] EXCEPT !.status = "planned"] ELSE list[i]
    BY DEF Revived
  <2>2. list[i].sample \in Range(planned) => \E m \in DOMAIN planned : planned[m] = list[i].sample
    BY DEF Range
  <2>3. LET job == [list[i] EXCEPT !.status = "planned"] IN
        job.sample = list[i].sample /\ job.grade = list[i].grade /\ job.status = "planned"
    BY <1>1 DEF Jobs
  <2> QED
    BY <2>1, <2>2, <2>3
<1>7. added = [k \in 1..n |-> [sample |-> fresh[k], status |-> "planned", grade |-> Ungraded]]
  BY DEF NewJobs
<1>8. \A k \in 1..n : /\ added[k].sample = fresh[k] /\ added[k].status = "planned"
                      /\ added[k].grade = Ungraded
  <2> HIDE DEF fresh, n, added
  <2> QED
    BY <1>7
<1>9. IsAudit(all) /\ DOMAIN all = 1..(N + n)
      /\ \A i \in DOMAIN all : all[i] = IF i <= N THEN kept[i] ELSE added[i - N]
  <2>1. PICK U : list \in Seq(Jobs(U))
    BY DEF IsAudit
  <2> DEFINE T == U \cup S
  <2>2. \A i \in 1..N : kept[i] \in Jobs(T)
    <3>1. \A i \in 1..N : list[i] \in Jobs(T)
      <4>1. \A i \in 1..N : list[i] \in Jobs(U)
        BY <1>1, <2>1, ElementOfSeq
      <4> QED
        BY <4>1 DEF Jobs
    <3>2. \A job \in Jobs(T) : [job EXCEPT !.status = "planned"] \in Jobs(T)
      BY DEF Jobs, JobStatus
    <3> HIDE DEF T
    <3> QED
      BY <1>1, <3>1, <3>2 DEF Revived
  <2>3. kept \in [1..N -> Jobs(T)]
    <3>1. kept = [i \in 1..N |-> kept[i]]
      BY <1>1 DEF Revived
    <3> HIDE DEF kept, T
    <3> QED
      BY <2>2, <3>1
  <2>4. added \in [1..n -> Jobs(T)]
    <3>1. \A k \in 1..n : fresh[k] \in T
      BY <1>3, <1>4, ElementOfSeq
    <3> HIDE DEF fresh, n, T, added
    <3>2. \A k \in 1..n : [sample |-> fresh[k], status |-> "planned", grade |-> Ungraded] \in Jobs(T)
      BY <3>1 DEF JobStatus, Jobs
    <3> QED
      BY <1>7, <3>2
  <2>5. all = kept \o added
    BY DEF AddPlannedJobs
  <2> HIDE DEF all, kept, added, T, n, N
  <2>6. /\ kept \in Seq(Jobs(T)) /\ Len(kept) = N
        /\ added \in Seq(Jobs(T)) /\ Len(added) = n
    BY <1>1, <1>4, <2>3, <2>4, FunctionIsSeq
  <2>7. /\ all \in Seq(Jobs(T)) /\ Len(all) = N + n
        /\ \A i \in 1..(N + n) : all[i] = IF i <= N THEN kept[i] ELSE added[i - N]
    BY <2>5, <2>6, ConcatProperties
  <2>8. DOMAIN all = 1..(N + n)
    BY <2>7, LenProperties
  <2> QED
    BY <2>7, <2>8 DEF IsAudit
<1> HIDE DEF fresh, n, N, added, kept, all
<1>10. /\ \A i \in DOMAIN list : i \in DOMAIN all /\ all[i] = kept[i]
       /\ \A i \in DOMAIN all : i \notin DOMAIN list => i - N \in 1..n /\ all[i] = added[i - N]
       /\ \A k \in 1..n : N + k \in DOMAIN all /\ N + k \notin DOMAIN list
                          /\ all[N + k] = added[k]
  <2>1. \A k \in 1..n : (N + k) - N = k /\ ~(N + k <= N) /\ N + k \in 1..(N + n)
    BY <1>1, <1>4
  <2> QED
    BY <1>1, <1>4, <1>9, <2>1, SMTT(60)
<1>11. \A i \in DOMAIN list : \A j \in DOMAIN all : j \notin DOMAIN list => i < j
  BY <1>1, <1>4, <1>9
<1>12. \A i \in DOMAIN list : all[i].sample = list[i].sample
  BY <1>6, <1>10
<1>13. ASSUME NEW m \in DOMAIN planned, planned[m] \notin SamplesOf(list)
       PROVE  \E k \in 1..n : fresh[k] = planned[m]
  BY <1>3, <1>4, <1>13 DEF KeptFrom
<1>14. \A s \in SamplesOf(list) : \E j \in DOMAIN list : all[j].sample = s
  BY <1>12 DEF SamplesOf
<1>15. ASSUME NEW i \in DOMAIN all, i \notin DOMAIN list
       PROVE  /\ all[i].status = "planned" /\ all[i].grade = Ungraded
              /\ \E m \in DOMAIN planned :
                /\ all[i].sample = planned[m] /\ planned[m] \notin SamplesOf(list)
                /\ \A h \in 1..(m - 1) : \E j \in 1..(i - 1) :
                      j \in DOMAIN all /\ all[j].sample = planned[h]
  <2> DEFINE k == i - N
  <2>1. k \in 1..n /\ all[i] = added[k] /\ i = N + k
    BY <1>1, <1>4, <1>9, <1>10, <1>15
  <2> HIDE DEF k
  <2>2. PICK m \in P : /\ fresh[k] = planned[m]
                       /\ \A h \in P : h < m => \E j \in 1..(k - 1) : fresh[j] = planned[h]
    BY <1>3, <1>4, <2>1 DEF KeptFrom
  <2>3. m \in DOMAIN planned /\ planned[m] \notin SamplesOf(list) /\ all[i].sample = planned[m]
    BY <1>8, <2>1, <2>2
  <2>4. ASSUME NEW h \in 1..(m - 1)
        PROVE  \E j \in 1..(i - 1) : j \in DOMAIN all /\ all[j].sample = planned[h]
    <3>1. CASE planned[h] \in SamplesOf(list)
      <4>1. PICK j \in DOMAIN list : all[j].sample = planned[h]
        BY <1>14, <3>1
      <4>2. j \in 1..(i - 1)
        BY <1>1, <1>4, <1>9, <1>11, <1>15, <4>1
      <4> QED
        BY <1>10, <4>1, <4>2
    <3>2. CASE planned[h] \notin SamplesOf(list)
      <4>1. h \in P /\ h < m
        BY <1>2, <2>3, <3>2
      <4>2. PICK j \in 1..(k - 1) : fresh[j] = planned[h]
        BY <2>2, <4>1
      <4>3. j \in 1..n /\ N + j \in 1..(i - 1)
        BY <1>1, <1>4, <2>1
      <4> QED
        BY <1>8, <1>10, <4>2, <4>3
    <3> QED
      BY <3>1, <3>2
  <2> QED
    BY <1>8, <2>1, <2>3, <2>4
<1>16. ASSUME NEW m \in DOMAIN planned PROVE planned[m] \in SamplesOf(all)
  <2>1. CASE planned[m] \in SamplesOf(list)
    BY <1>10, <1>14, <2>1 DEF SamplesOf
  <2>2. CASE planned[m] \notin SamplesOf(list)
    BY <1>8, <1>10, <1>13, <2>2 DEF SamplesOf
  <2> QED
    BY <2>1, <2>2
<1>17. ASSUME \A m, h \in DOMAIN planned : planned[m] = planned[h] => m = h,
              \A i, j \in DOMAIN list : list[i].sample = list[j].sample => i = j,
              NEW i \in DOMAIN all, NEW j \in DOMAIN all, all[i].sample = all[j].sample
       PROVE  i = j
  <2>1. CASE i \in DOMAIN list /\ j \in DOMAIN list
    BY <1>12, <1>17, <2>1
  <2>2. CASE i \notin DOMAIN list /\ j \notin DOMAIN list
    <3>1. fresh[i - N] = fresh[j - N] /\ i - N \in DOMAIN fresh /\ j - N \in DOMAIN fresh
      BY <1>4, <1>8, <1>10, <1>17, <2>2
    <3>2. \A m, h \in P : planned[m] = planned[h] => m = h
      BY <1>17
    <3>3. i - N = j - N
      BY <1>3, <3>1, <3>2 DEF KeptFrom
    <3> QED
      BY <1>1, <1>4, <1>9, <3>3
  <2>3. \A x \in DOMAIN list : \A y \in DOMAIN all : y \notin DOMAIN list => all[x].sample # all[y].sample
    BY <1>12, <1>15 DEF SamplesOf
  <2> QED
    BY <1>17, <2>1, <2>2, <2>3
<1>18. ASSUME NEW i \in DOMAIN list
       PROVE  /\ all[i].sample = list[i].sample /\ all[i].grade = list[i].grade
              /\ all[i] # list[i] => list[i].status = "failed" /\ all[i].status = "planned"
                                     /\ \E m \in DOMAIN planned : planned[m] = all[i].sample
  BY <1>6, <1>10
<1>19. DOMAIN list \subseteq DOMAIN all
  BY <1>10
<1> HIDE DEF P
<1>20. IsExtended(all, list, planned)
  BY <1>9, <1>11, <1>15, <1>16, <1>17, <1>18, <1>19 DEF IsExtended
<1> QED
  BY <1>20 DEF all

\* queue has the positions of list that need recovery, in their order.
IsRecovery(todo, list) ==
    /\ todo \in Seq(DOMAIN list)
    /\ \A m \in DOMAIN todo :
          /\ NeedsRecovery(list[todo[m]])
          /\ \A i \in 1..(todo[m] - 1) :
                i \in DOMAIN list /\ NeedsRecovery(list[i]) => \E j \in 1..(m - 1) : todo[j] = i
    /\ \A i \in DOMAIN list : NeedsRecovery(list[i]) => \E m \in DOMAIN todo : todo[m] = i

(* The jobs that OpenAudit queues.                                         *)
LEMMA RecoveryIs ==
    ASSUME NEW list, IsAudit(list)
    PROVE  IsRecovery(Positions(list, NeedsRecovery), list)
<1> DEFINE P == {i \in DOMAIN list : NeedsRecovery(list[i])}
           all == [i \in DOMAIN list |-> i]
           rest == Filter(all, P)
<1>1. Len(list) \in Nat /\ DOMAIN list = 1..Len(list)
  BY AuditIs
<1>2. all \in Seq(DOMAIN list) /\ Len(all) = Len(list)
  <2>1. all \in [1..Len(list) -> DOMAIN list]
    BY <1>1
  <2> HIDE DEF all
  <2> QED
    BY <1>1, <2>1, FunctionIsSeq
<1>3. Positions(list, NeedsRecovery) = rest
  BY DEF Positions
<1>4. P \in SUBSET (1..Len(list)) /\ \A i \in P : all[i] = i /\ i \in DOMAIN list
  BY <1>1
<1>5. \A i : i \in P <=> i \in DOMAIN list /\ NeedsRecovery(list[i])
  OBVIOUS
<1> HIDE DEF P, all
<1>6. rest \in Seq(DOMAIN list) /\ KeptFrom(rest, all, P)
  BY <1>2, <1>4, FilterKeeps
<1> HIDE DEF rest
<1>7. ASSUME NEW m \in DOMAIN rest
      PROVE  /\ NeedsRecovery(list[rest[m]])
             /\ \A i \in 1..(rest[m] - 1) :
                   i \in DOMAIN list /\ NeedsRecovery(list[i]) => \E j \in 1..(m - 1) : rest[j] = i
  <2>1. PICK i \in P : /\ rest[m] = all[i]
                       /\ \A h \in P : h < i => \E j \in 1..(m - 1) : rest[j] = all[h]
    BY <1>6 DEF KeptFrom
  <2>2. rest[m] = i /\ NeedsRecovery(list[i])
    BY <1>4, <1>5, <2>1
  <2>3. \A h \in 1..(i - 1) : h < i
    BY <1>1, <1>4
  <2> QED
    BY <1>4, <1>5, <2>1, <2>2, <2>3
<1>8. ASSUME NEW i \in DOMAIN list, NeedsRecovery(list[i])
      PROVE  \E m \in DOMAIN rest : rest[m] = i
  <2>1. i \in P
    BY <1>5, <1>8
  <2>2. \E m \in DOMAIN rest : rest[m] = all[i]
    BY <1>6, <2>1 DEF KeptFrom
  <2> QED
    BY <1>4, <2>1, <2>2
<1> QED
  BY <1>3, <1>6, <1>7, <1>8 DEF IsRecovery

\* queue has positions of list whose samples are planned, in the order of the
\* plan, every one that is unfinished.
IsTopUp(todo, list, planned) ==
    /\ todo \in Seq(DOMAIN list)
    /\ \A k \in DOMAIN todo : \E m \in DOMAIN planned :
          /\ list[todo[k]].sample = planned[m] /\ Unfinished(list[todo[k]])
          /\ \A h \in 1..(m - 1) :
                \/ \E j \in 1..(k - 1) : list[todo[j]].sample = planned[h]
                \/ \E i \in DOMAIN list : list[i].sample = planned[h] /\ ~Unfinished(list[i])
    /\ (\A i, j \in DOMAIN list : list[i].sample = list[j].sample => i = j) =>
          \A i \in DOMAIN list : \A m \in DOMAIN planned :
             list[i].sample = planned[m] /\ Unfinished(list[i])
               => \E k \in DOMAIN todo : todo[k] = i

(* The jobs that TopUp queues.                                             *)
LEMMA TopUpIs ==
    ASSUME NEW list, IsAudit(list), NEW S, NEW planned \in Seq(S),
           \A m \in DOMAIN planned : planned[m] \in SamplesOf(list)
    PROVE  IsTopUp(AddedJobs(list, planned), list, planned)
<1> DEFINE at(s) == CHOOSE i \in DOMAIN list : list[i].sample = s
           P == {k \in DOMAIN planned : list[at(planned[k])].status \in {"planned", "running"}}
           due == Filter(planned, P)
           rest == AddedJobs(list, planned)
<1>1. DOMAIN planned = 1..Len(planned) /\ Len(planned) \in Nat
  BY LenProperties
<1>2. \A m \in DOMAIN planned : at(planned[m]) \in DOMAIN list /\ list[at(planned[m])].sample = planned[m]
  BY DEF SamplesOf
<1>3. due \in Seq(S) /\ KeptFrom(due, planned, P)
  <2>1. P \in SUBSET (1..Len(planned))
    BY <1>1
  <2> HIDE DEF P
  <2> QED
    BY <2>1, FilterKeeps
<1>4. Len(due) \in Nat /\ DOMAIN due = 1..Len(due)
  BY <1>3, LenProperties
<1>5. rest = [k \in 1..Len(due) |-> at(due[k])]
  BY DEF AddedJobs
<1>6. \A m : m \in P <=> m \in DOMAIN planned /\ Unfinished(list[at(planned[m])])
  BY DEF Unfinished
<1> HIDE DEF P, due, rest, at
<1>7. \A k \in DOMAIN due : \E m \in P :
          /\ due[k] = planned[m]
          /\ \A h \in P : h < m => \E j \in 1..(k - 1) : due[j] = planned[h]
  BY <1>3 DEF KeptFrom
<1>8. rest \in Seq(DOMAIN list) /\ DOMAIN rest = DOMAIN due
      /\ \A k \in DOMAIN due : rest[k] = at(due[k])
  <2>1. \A k \in DOMAIN due : at(due[k]) \in DOMAIN list
    BY <1>2, <1>6, <1>7
  <2>2. rest \in [1..Len(due) -> DOMAIN list]
    BY <1>4, <1>5, <2>1
  <2> QED
    BY <1>4, <1>5, <2>2, FunctionIsSeq
<1>9. ASSUME NEW k \in DOMAIN rest
      PROVE  \E m \in DOMAIN planned :
          /\ list[rest[k]].sample = planned[m] /\ Unfinished(list[rest[k]])
          /\ \A h \in 1..(m - 1) :
                \/ \E j \in 1..(k - 1) : list[rest[j]].sample = planned[h]
                \/ \E i \in DOMAIN list : list[i].sample = planned[h] /\ ~Unfinished(list[i])
  <2>1. PICK m \in P : /\ due[k] = planned[m]
                       /\ \A h \in P : h < m => \E j \in 1..(k - 1) : due[j] = planned[h]
    BY <1>7, <1>8
  <2>2. m \in DOMAIN planned /\ list[rest[k]].sample = planned[m] /\ Unfinished(list[rest[k]])
    BY <1>2, <1>6, <1>8, <2>1
  <2>3. ASSUME NEW h \in 1..(m - 1)
        PROVE  \/ \E j \in 1..(k - 1) : list[rest[j]].sample = planned[h]
               \/ \E i \in DOMAIN list : list[i].sample = planned[h] /\ ~Unfinished(list[i])
    <3>1. h \in DOMAIN planned /\ h < m
      BY <1>1, <2>2
    <3>2. CASE h \in P
      <4>1. PICK j \in 1..(k - 1) : due[j] = planned[h]
        BY <2>1, <3>1, <3>2
      <4>2. j \in DOMAIN due
        BY <1>4, <1>8
      <4> QED
        BY <1>2, <1>8, <3>1, <4>1, <4>2
    <3>3. CASE h \notin P
      BY <1>2, <1>6, <3>1, <3>3
    <3> QED
      BY <3>2, <3>3
  <2> QED
    BY <2>2, <2>3
<1>10. ASSUME \A i, j \in DOMAIN list : list[i].sample = list[j].sample => i = j,
              NEW i \in DOMAIN list, NEW m \in DOMAIN planned,
              list[i].sample = planned[m], Unfinished(list[i])
       PROVE  \E k \in DOMAIN rest : rest[k] = i
  <2>1. at(planned[m]) = i
    BY <1>2, <1>10
  <2>2. m \in P
    BY <1>6, <1>10, <2>1
  <2>3. PICK k \in DOMAIN due : due[k] = planned[m]
    BY <1>3, <2>2 DEF KeptFrom
  <2> QED
    BY <1>8, <2>1, <2>3
<1> QED
  BY <1>8, <1>9, <1>10 DEF IsTopUp, rest

-----------------------------------------------------------------------------
(* What a step does to the rows, the jobs and the queues. *)

\* A run of the sample was created.
HasRow(s, runs) == s \in Sample /\ runs[s] # Absent

\* Where a process works on a job.
Busy == WithRow \cup {"create", "write"}

\* The jobs of a list are slots.
InSlots(list) == \A i \in DOMAIN list : list[i].sample \in Slots

\* Rows, audits and plans are about the samples of cells, no cell has rows
\* without end, and a process that works on a job has one.
SlotInv ==
    /\ \A s \in Sample : row[s] # Absent => s \in Slots
    /\ \A c \in Cell : Bounded(row, c)
    /\ \A d \in Dir : InSlots(manifest[d])
    /\ plan = [p \in Process |-> plan[p]] /\ exit = [p \in Process |-> exit[p]]
    /\ \A p \in Process :
          /\ InSlots(jobs[p]) /\ plan[p] \in Seq(Slots) /\ queue[p] \in Seq(DOMAIN jobs[p])
          /\ pc[p] \in Busy => queue[p] # <<>>
          /\ pc[p] \in WithRow => HasRow(CurrentSample(p), row)

\* The steps of executeJob, and what all of them have in common: the job goes
\* on over its row, or it is settled.
Work(p) ==
    \/ Create(p) \/ Start(p) \/ Mark(p)
    \/ \E result \in {"completed"} \cup HarnessFailure : Seal(p, result)
    \/ CheckGrades(p) \/ StoreGrade(p) \/ JobThrows(p)

\* The current job of p gets its last status and grade, and the list is still
\* to be written.
Settles(p, next, status, grade) ==
    /\ jobs' = [jobs EXCEPT ![p] = next] /\ pc' = [pc EXCEPT ![p] = "write"]
    /\ Rewritten(next, jobs[p], Current(p), status, grade)
    /\ status \in {"completed", "failed"} \cup HarnessFailure
    /\ status \in HarnessFailure => CurrentSample(p) \in Sample /\ row'[CurrentSample(p)] = status
    /\ grade \in {Ungraded, grader, snapshot[p], jobs[p][Current(p)].grade}

\* A step of p on its current job, short of writing the list.
Worked(p) ==
    /\ UNCHANGED <<world, manifest, queue, plan, report, exit>>
    /\ pc[p] \in Busy \ {"write"}
    /\ \/ \E place \in WithRow : jobs' = jobs /\ pc' = [pc EXCEPT ![p] = place]
       \/ \E next, status, grade : Settles(p, next, status, grade)
    /\ \/ HasRow(CurrentSample(p), row')
       \/ pc[p] = "create" /\ "create" \in world.throws /\ pc' = [pc EXCEPT ![p] = "write"]

(* The current job fails, or takes its outcome.                            *)
LEMMA JobFails ==
    ASSUME SuiteInv, NEW p \in Process, FailJob(p)
    PROVE  \E next : Settles(p, next, "failed", jobs[p][Current(p)].grade)
<1> DEFINE k == Current(p)
           next == [jobs[p] EXCEPT ![k].status = "failed"]
<1>1. DOMAIN jobs = Process /\ jobs = [q \in Process |-> jobs[q]] /\ IsAudit(jobs[p])
  BY DEF SuiteInv, AuditInv
<1>2. jobs' = [jobs EXCEPT ![p][k].status = "failed"] /\ pc' = [pc EXCEPT ![p] = "write"]
  BY DEF FailJob, Goto
<1>3. jobs' = [jobs EXCEPT ![p] = next]
  BY <1>1, <1>2, JobInList
<1>4. "failed" \in JobStatus
  BY DEF JobStatus
<1> HIDE DEF k
<1>5. Rewritten(next, jobs[p], k, "failed", jobs[p][k].grade)
  BY <1>1, <1>4, StatusWritten
<1> HIDE DEF next
<1> QED
  BY <1>2, <1>3, <1>5 DEF Settles, HarnessFailure, k

(* A job that takes an outcome leaves the audit as Settles says.           *)
LEMMA JobTakes ==
    ASSUME SuiteInv, NEW p \in Process, NEW status \in {"completed"} \cup HarnessFailure,
           NEW grade \in Snapshot \cup {Ungraded},
           SetJob(p, status, grade), pc' = [pc EXCEPT ![p] = "write"],
           status \in HarnessFailure => CurrentSample(p) \in Sample
                                        /\ row'[CurrentSample(p)] = status,
           grade \in {Ungraded, grader, snapshot[p]}
    PROVE  \E next : Settles(p, next, status, grade)
<1> DEFINE k == Current(p)
           list == jobs[p]
           next == [list EXCEPT ![k].status = status, ![k].grade = grade]
<1>1. DOMAIN jobs = Process /\ jobs = [q \in Process |-> jobs[q]] /\ IsAudit(list)
  BY DEF SuiteInv, AuditInv
<1>2. jobs' = [jobs EXCEPT ![p] = next]
  <2>1. jobs' = [jobs EXCEPT ![p][k].status = status, ![p][k].grade = grade]
    BY DEF SetJob
  <2> DEFINE one == [jobs EXCEPT ![p][k].status = status]
  <2>2. one[p] = [list EXCEPT ![k].status = status]
    BY <1>1
  <2>3. jobs' = [one EXCEPT ![p] = [one[p] EXCEPT ![k].grade = grade]]
    BY <1>1, <2>1
  <2>4. \A x : [one EXCEPT ![p] = x] = [jobs EXCEPT ![p] = x]
    BY <1>1
  <2> QED
    BY <2>2, <2>3, <2>4
<1>3. status \in JobStatus
  BY DEF JobStatus, HarnessFailure
<1>4. Rewritten(next, list, k, status, grade)
  <2> HIDE DEF k, list
  <2> QED
    BY <1>1, <1>3, GradeWritten
<1> HIDE DEF next
<1> QED
  BY <1>2, <1>4 DEF Settles

(* Every step of executeJob does what Worked says.                         *)
LEMMA WorkIs ==
    ASSUME SuiteInv, SlotInv, NEW p \in DOMAIN world.dir, Work(p)
    PROVE  Worked(p)
<1> DEFINE s == CurrentSample(p)
           Kept == UNCHANGED <<world, manifest, queue, plan, report, exit>>
           Moves == \/ \E place \in WithRow : jobs' = jobs /\ pc' = [pc EXCEPT ![p] = place]
                    \/ \E next, status, grade : Settles(p, next, status, grade)
<1>0. /\ p \in Process /\ world.throws \subseteq ThrowPlace /\ DOMAIN pc = Process
      /\ row \in [Sample -> RawRunStatus \cup {Absent}]
      /\ grader \in Snapshot /\ snapshot[p] \in Snapshot
  BY SuiteAssumption DEF SuiteInv, LedgerInv, AuditInv, IsWorld
<1>1. pc[p] \in WithRow => HasRow(s, row)
  BY <1>0 DEF SlotInv
<1>2. ASSUME FailJob(p) PROVE Moves
  BY <1>0, <1>2, JobFails
<1>3. ASSUME NEW status \in {"completed"} \cup HarnessFailure, TakeOutcome(p, status),
             s \in Sample, row'[s] = status
      PROVE  Moves
  <2>1. CASE status = "completed"
    BY <1>3, <2>1 DEF TakeOutcome, Goto, WithRow
  <2>2. CASE status # "completed"
    <3>1. SetJob(p, status, Ungraded) /\ pc' = [pc EXCEPT ![p] = "write"]
      BY <1>3, <2>2 DEF TakeOutcome, Goto
    <3> QED
      BY <1>0, <1>3, <3>1, JobTakes
  <2> QED
    BY <2>1, <2>2
<1>4. CASE Create(p)
  <2>1. /\ s \in Sample /\ Kept /\ pc[p] = "create"
        /\ row' = [row EXCEPT ![s] = IF row[s] = "absent" THEN "pending" ELSE row[s]]
    BY <1>4 DEF Create, disk, CreateRawRun, At
  <2>2. HasRow(s, row')
    BY <1>0, <2>1 DEF HasRow, Absent
  <2>3. CASE IsRawRunSealed(row[s])
    <3>1. TakeOutcome(p, row[s]) /\ row[s] \in {"completed"} \cup HarnessFailure
      BY <1>4, <2>3 DEF Create, IsRawRunSealed, HarnessFailure
    <3>2. row'[s] = row[s]
      BY <1>0, <2>1, <3>1 DEF HarnessFailure
    <3>3. Moves
      BY <1>3, <2>1, <3>1, <3>2
    <3> HIDE DEF s
    <3> QED
      BY <2>1, <2>2, <3>3 DEF Worked, Busy, s
  <2>4. CASE ~IsRawRunSealed(row[s])
    <3>1. pc' = [pc EXCEPT ![p] = "start"] /\ jobs' = jobs
      BY <1>4, <2>4 DEF Create, Goto
    <3>2. Moves
      BY <3>1 DEF WithRow
    <3> QED
      BY <2>1, <2>2, <3>2 DEF Worked, Busy
  <2> QED
    BY <2>3, <2>4
<1>5. ASSUME Kept, pc[p] \in WithRow, row' = row, Moves
      PROVE  Worked(p)
  BY <1>1, <1>5 DEF Worked, Busy, WithRow
<1>6. CASE Start(p)
  <2>1. Kept /\ row' = row /\ pc[p] \in WithRow
    BY <1>6 DEF Start, disk, database, At, WithRow
  <2>2. FailJob(p) \/ (\E place \in WithRow : jobs' = jobs /\ pc' = [pc EXCEPT ![p] = place])
    BY <1>6 DEF Start, Goto, WithRow
  <2> QED
    BY <1>2, <1>5, <2>1, <2>2
<1>7. CASE Mark(p)
  <2>1. Kept /\ pc[p] \in WithRow /\ jobs' = jobs /\ pc' = [pc EXCEPT ![p] = "harness"]
        /\ row' = [row EXCEPT ![s] = IF row[s] = "pending" THEN "running" ELSE row[s]]
    BY <1>7 DEF Mark, disk, memory, At, WithRow, Goto, MarkRunning
  <2>2. HasRow(s, row')
    BY <1>0, <1>1, <2>1 DEF HasRow, Absent
  <2> QED
    BY <2>1, <2>2 DEF Worked, Busy, WithRow
<1>8. ASSUME NEW result \in {"completed"} \cup HarnessFailure, Seal(p, result)
      PROVE  Worked(p)
  <2>1. Kept /\ pc[p] \in WithRow
    BY <1>8 DEF Seal, disk, At, WithRow
  <2>2. CASE SealRawRun(row, s)
    <3>1. row' = [row EXCEPT ![s] = result] /\ TakeOutcome(p, result)
      BY <1>8, <2>2 DEF Seal
    <3>2. s \in Sample /\ row'[s] = result
      BY <1>0, <1>1, <2>1, <3>1 DEF HasRow
    <3>3. HasRow(s, row')
      BY <3>2 DEF HasRow, HarnessFailure, Absent
    <3>4. Moves
      BY <1>3, <3>1, <3>2
    <3> HIDE DEF s
    <3> QED
      BY <2>1, <3>3, <3>4 DEF Worked, Busy, WithRow, s
  <2>3. CASE ~SealRawRun(row, s)
    <3>1. row' = row /\ FailJob(p)
      BY <1>8, <2>3 DEF Seal
    <3> QED
      BY <1>2, <1>5, <2>1, <3>1
  <2> QED
    BY <2>2, <2>3
<1>9. CASE CheckGrades(p)
  <2>1. Kept /\ row' = row /\ pc[p] \in WithRow
    BY <1>9 DEF CheckGrades, disk, database, At, WithRow
  <2>2. \/ FailJob(p)
        \/ \E place \in WithRow : jobs' = jobs /\ pc' = [pc EXCEPT ![p] = place]
        \/ SetJob(p, "completed", grader) /\ pc' = [pc EXCEPT ![p] = "write"]
    BY <1>9 DEF CheckGrades, Goto, WithRow
  <2>3. SetJob(p, "completed", grader) /\ pc' = [pc EXCEPT ![p] = "write"] => Moves
    BY <1>0, JobTakes DEF HarnessFailure
  <2> QED
    BY <1>2, <1>5, <2>1, <2>2, <2>3
<1>10. CASE StoreGrade(p)
  <2>1. Kept /\ row' = row /\ pc[p] \in WithRow
    BY <1>10 DEF StoreGrade, disk, At, WithRow
  <2>2. \/ FailJob(p)
        \/ SetJob(p, "completed", snapshot[p]) /\ pc' = [pc EXCEPT ![p] = "write"]
    BY <1>10 DEF StoreGrade, Goto
  <2>3. SetJob(p, "completed", snapshot[p]) /\ pc' = [pc EXCEPT ![p] = "write"] => Moves
    BY <1>0, JobTakes DEF HarnessFailure
  <2> QED
    BY <1>2, <1>5, <2>1, <2>2, <2>3
<1>11. CASE JobThrows(p)
  <2>1. Kept /\ row' = row /\ FailJob(p) /\ pc[p] \in world.throws
    BY <1>11 DEF JobThrows, disk, database
  <2>2. pc[p] \in WithRow \/ pc[p] = "create"
    BY <1>0, <2>1 DEF ThrowPlace, WithRow
  <2>3. CASE pc[p] \in WithRow
    BY <1>2, <1>5, <2>1, <2>3
  <2>4. CASE pc[p] = "create"
    <3>1. Moves /\ pc' = [pc EXCEPT ![p] = "write"]
      BY <1>2, <2>1 DEF FailJob, Goto
    <3> QED
      BY <2>1, <2>4, <3>1 DEF Worked, Busy
  <2> QED
    BY <2>2, <2>3, <2>4
<1> QED
  BY <1>4, <1>6, <1>7, <1>8, <1>9, <1>10, <1>11 DEF Work

(* A process with a queue has a current job.                               *)
LEMMA CurrentIs ==
    ASSUME SuiteInv, SlotInv, NEW p \in Process, queue[p] # <<>>
    PROVE  /\ Current(p) \in DOMAIN jobs[p] /\ Current(p) = queue[p][1] /\ 1 \in DOMAIN queue[p]
           /\ CurrentSample(p) = jobs[p][Current(p)].sample /\ CurrentSample(p) \in Slots
           /\ Tail(queue[p]) \in Seq(DOMAIN jobs[p])
<1>1. queue[p] \in Seq(DOMAIN jobs[p]) /\ InSlots(jobs[p])
  BY DEF SlotInv
<1>2. Head(queue[p]) \in DOMAIN jobs[p] /\ Tail(queue[p]) \in Seq(DOMAIN jobs[p])
      /\ Head(queue[p]) = queue[p][1] /\ 1 \in DOMAIN queue[p]
  <2> DEFINE todo == queue[p]
             S == DOMAIN jobs[p]
  <2>1. todo \in Seq(S) /\ todo # <<>>
    BY <1>1
  <2> HIDE DEF todo, S
  <2>2. Head(todo) \in S /\ Tail(todo) \in Seq(S)
    BY <2>1, HeadTailProperties
  <2>3. Len(todo) \in Nat /\ Len(todo) # 0 /\ DOMAIN todo = 1..Len(todo)
    BY <2>1, LenProperties, EmptySeq
  <2>4. 1 \in DOMAIN todo /\ Head(todo) = todo[1]
    BY <2>1, <2>3
  <2> QED
    BY <2>2, <2>4 DEF todo, S
<1> QED
  BY <1>1, <1>2 DEF Current, CurrentSample, InSlots

\* What a step of p does to the rows.
RowMoves(p) ==
    \A s \in Sample :
        \/ row'[s] = row[s]
        \/ row[s] = Absent /\ row'[s] = "pending" /\ s = CurrentSample(p) /\ pc[p] = "create"
        \/ row[s] \in Reserved /\ row'[s] \in RawRunStatus

\* A step of p, whatever it is.
ProcessStep(p) == Launch(p) \/ Step(p) \/ JobThrows(p) \/ Kill(p)

(* A step of p touches no row but that of its current sample.              *)
LEMMA RowsMove ==
    ASSUME SuiteInv, NEW p \in DOMAIN world.dir, ProcessStep(p)
    PROVE  RowMoves(p)
<1> DEFINE s == CurrentSample(p)
<1>0. DOMAIN row = Sample
  BY DEF SuiteInv, LedgerInv
<1>1. CASE row' = row
  BY <1>1 DEF RowMoves
<1>2. CASE Create(p)
  <2>1. row' = [row EXCEPT ![s] = IF row[s] = "absent" THEN "pending" ELSE row[s]] /\ pc[p] = "create"
    BY <1>2 DEF Create, CreateRawRun, At
  <2> HIDE DEF s
  <2> QED
    BY <1>0, <2>1 DEF RowMoves, Absent, s
<1>3. CASE Mark(p)
  <2>1. row' = [row EXCEPT ![s] = IF row[s] = "pending" THEN "running" ELSE row[s]]
    BY <1>3 DEF Mark, MarkRunning
  <2> HIDE DEF s
  <2> QED
    BY <1>0, <2>1 DEF RowMoves, RawRunStatus, Reserved
<1>4. ASSUME NEW result \in {"completed"} \cup HarnessFailure, Seal(p, result)
      PROVE  RowMoves(p)
  <2>1. row' = row \/ (row[s] = "running" /\ row' = [row EXCEPT ![s] = result])
    BY <1>4 DEF Seal, SealRawRun
  <2>2. result \in RawRunStatus
    BY DEF HarnessFailure, RawRunStatus
  <2> HIDE DEF s
  <2> QED
    BY <1>0, <2>1, <2>2 DEF RowMoves, Reserved
<1>5. CASE \/ Launch(p) \/ PlanFirst(p) \/ OpenAudit(p) \/ BeginJob(p) \/ Start(p)
           \/ CheckGrades(p) \/ StoreGrade(p) \/ JobThrows(p) \/ WriteJob(p) \/ TopUp(p)
           \/ Summarise(p) \/ WriteReport(p) \/ Close(p) \/ Kill(p)
  <2>1. row' = row
    BY <1>5 DEF Launch, PlanFirst, OpenAudit, BeginJob, Start, CheckGrades, StoreGrade, JobThrows,
       WriteJob, TopUp, Summarise, WriteReport, Close, Kill, database
  <2> QED
    BY <1>1, <2>1
<1> QED
  BY <1>2, <1>3, <1>4, <1>5 DEF ProcessStep, Step

(* No row is lost, and a failure is final.                                 *)
LEMMA RowsStay ==
    ASSUME NEW p, RowMoves(p), NEW s
    PROVE  /\ HasRow(s, row) => HasRow(s, row')
           /\ HasRow(s, row') /\ ~HasRow(s, row) => s = CurrentSample(p) /\ pc[p] = "create"
           /\ s \in Sample /\ row[s] \notin Reserved => row'[s] = row[s] \/ row[s] = Absent
  BY DEF RowMoves, HasRow, RawRunStatus, Absent, Reserved

(* The rows after a step are samples of cells, finitely many in each.      *)
LEMMA RowsInSlots ==
    ASSUME SuiteInv, SlotInv, NEW p \in Process, RowMoves(p), row' \in [Sample -> RawRunStatus \cup {Absent}]
    PROVE  /\ \A s \in Sample : row'[s] # Absent => s \in Slots
           /\ \A c \in Cell : Bounded(row', c)
<1> DEFINE x == CurrentSample(p)
<1>1. pc[p] = "create" => x \in Slots
  BY CurrentIs DEF SlotInv, Busy
<1>2. \A s \in Sample : row'[s] # Absent => row[s] # Absent \/ (s = x /\ x \in Slots)
  BY <1>1, RowsStay DEF HasRow
<1>3. \A s \in Sample : row'[s] # Absent => s \in Slots
  BY <1>2 DEF SlotInv
<1>4. ASSUME NEW c \in Cell PROVE Bounded(row', c)
  <2>1. PICK b \in Nat : \A s \in Present(row, c) : s.index < b
    BY DEF SlotInv, Bounded
  <2>2. PICK e \in Nat : b <= e /\ (x \in Slots => x.index < e)
    <3>1. CASE x \in Slots
      <4>1. x.index \in Nat
        BY <3>1 DEF Slots
      <4>2. b + x.index + 1 \in Nat /\ b <= b + x.index + 1 /\ x.index < b + x.index + 1
        BY <4>1
      <4> QED
        BY <4>2
    <3>2. CASE x \notin Slots
      BY <3>2
    <3> QED
      BY <3>1, <3>2
  <2>3. ASSUME NEW s \in Present(row', c)
        PROVE  s = [cell |-> c, index |-> s.index] /\ s.index \in Nat /\ s.index < e
    <3>1. s \in Sample /\ s.cell = c /\ row'[s] # Absent
      BY DEF Present, Absent
    <3>2. s \in Slots
      BY <1>3, <3>1
    <3>3. s = [cell |-> c, index |-> s.index] /\ s.index \in Nat
      BY <3>1, <3>2 DEF Slots
    <3>4. s.index < e
      <4>1. CASE row[s] # Absent
        <5>1. s \in Present(row, c)
          BY <3>1, <4>1 DEF Present, Absent, SuiteInv, LedgerInv
        <5> QED
          BY <2>1, <2>2, <3>3, <5>1
      <4>2. CASE s = x /\ x \in Slots
        BY <2>2, <4>2
      <4> HIDE DEF x
      <4> QED
        BY <1>2, <3>1, <4>1, <4>2
    <3> QED
      BY <3>3, <3>4
  <2> QED
    BY <2>3 DEF Bounded
<1> QED
  BY <1>3, <1>4

(* What SlotInv asks of a step of p.                                       *)
LEMMA SlotsKept ==
    ASSUME SuiteInv, SlotInv, NEW p \in Process, RowMoves(p),
           row' \in [Sample -> RawRunStatus \cup {Absent}],
           NEW list, NEW todo, NEW planned, NEW written, NEW place, NEW code,
           InSlots(list), todo \in Seq(DOMAIN list), planned \in Seq(Slots), InSlots(written),
           jobs' = [jobs EXCEPT ![p] = list], queue' = [queue EXCEPT ![p] = todo],
           plan' = [plan EXCEPT ![p] = planned], exit' = [exit EXCEPT ![p] = code],
           manifest' = manifest \/ \E d \in Dir : manifest' = [manifest EXCEPT ![d] = written],
           pc' = [pc EXCEPT ![p] = place], place \in Busy => todo # <<>>,
           place \in WithRow => HasRow(list[Head(todo)].sample, row')
    PROVE  SlotInv'
<1>1. /\ DOMAIN jobs = Process /\ DOMAIN queue = Process /\ DOMAIN plan = Process
      /\ DOMAIN exit = Process /\ DOMAIN pc = Process /\ DOMAIN manifest = Dir
  BY DEF SuiteInv, AuditInv, SlotInv
<1>2. /\ \A s \in Sample : row'[s] # Absent => s \in Slots
      /\ \A c \in Cell : Bounded(row', c)
  BY RowsInSlots
<1>3. \A d \in Dir : InSlots(manifest'[d])
  BY <1>1 DEF SlotInv
<1>4. plan' = [q \in Process |-> plan'[q]] /\ exit' = [q \in Process |-> exit'[q]]
  BY <1>1
<1>5. ASSUME NEW q \in Process
      PROVE  /\ InSlots(jobs'[q]) /\ plan'[q] \in Seq(Slots) /\ queue'[q] \in Seq(DOMAIN jobs'[q])
             /\ pc'[q] \in Busy => queue'[q] # <<>>
             /\ pc'[q] \in WithRow => HasRow((CurrentSample(q))', row')
  <2>1. CASE q = p
    <3>1. jobs'[q] = list /\ queue'[q] = todo /\ plan'[q] = planned /\ pc'[q] = place
      BY <1>1, <2>1
    <3>2. (CurrentSample(q))' = list[Head(todo)].sample
      BY <3>1 DEF CurrentSample, Current
    <3> QED
      BY <3>1, <3>2
  <2>2. CASE q # p
    <3>1. jobs'[q] = jobs[q] /\ queue'[q] = queue[q] /\ plan'[q] = plan[q] /\ pc'[q] = pc[q]
      BY <1>1, <2>2
    <3>2. (CurrentSample(q))' = CurrentSample(q)
      BY <3>1 DEF CurrentSample, Current
    <3>3. pc[q] \in WithRow => HasRow(CurrentSample(q), row')
      BY RowsStay DEF SlotInv
    <3> QED
      BY <3>1, <3>2, <3>3 DEF SlotInv
  <2> QED
    BY <2>1, <2>2
<1> QED
  BY <1>2, <1>3, <1>4, <1>5 DEF SlotInv

(* A list rewritten in place.                                              *)
LEMMA RewrittenIs ==
    ASSUME NEW next, NEW list, NEW k, NEW status, NEW grade,
           Rewritten(next, list, k, status, grade)
    PROVE  /\ DOMAIN next = DOMAIN list
           /\ \A i \in DOMAIN list : next[i].sample = list[i].sample
           /\ InSlots(list) => InSlots(next)
<1>1. \A i \in DOMAIN list : next[i].sample = list[i].sample
  BY DEF Rewritten
<1> QED
  BY <1>1 DEF Rewritten, InSlots

(* A job begins.                                                           *)
LEMMA BeginIs ==
    ASSUME SuiteInv, NEW p \in DOMAIN world.dir, BeginJob(p)
    PROVE  \E next : /\ jobs' = [jobs EXCEPT ![p] = next]
                     /\ Rewritten(next, jobs[p], Current(p), "running", jobs[p][Current(p)].grade)
                     /\ manifest' = [manifest EXCEPT ![world.dir[p]] = next]
<1> DEFINE k == Current(p)
           next == [jobs[p] EXCEPT ![k].status = "running"]
<1>1. /\ DOMAIN jobs = Process /\ jobs = [q \in Process |-> jobs[q]] /\ p \in Process
      /\ IsAudit(jobs[p])
  BY SuiteAssumption DEF SuiteInv, AuditInv, LedgerInv, IsWorld
<1>2. jobs' = [jobs EXCEPT ![p][k].status = "running"]
  BY DEF BeginJob
<1>3. jobs' = [jobs EXCEPT ![p] = next]
  BY <1>1, <1>2, JobInList
<1>4. jobs'[p] = next
  BY <1>1, <1>3
<1>5. "running" \in JobStatus
  BY DEF JobStatus
<1> HIDE DEF k
<1>6. Rewritten(next, jobs[p], k, "running", jobs[p][k].grade)
  BY <1>1, <1>5, StatusWritten
<1> HIDE DEF next
<1>7. manifest' = [manifest EXCEPT ![world.dir[p]] = next]
  BY <1>4 DEF BeginJob
<1> QED
  BY <1>3, <1>6, <1>7 DEF k

(* A plan is read from the rows as they are.                               *)
LEMMA ReadPlanIs ==
    ASSUME SuiteInv, SlotInv
    PROVE  /\ IsPlan(ReadPlan, Cell, row, world.cells, world.target)
           /\ ReadPlan \in Seq(Slots)
<1>1. world.cells \in Seq(Cell) /\ world.target \in Nat
  BY WorldIs DEF SuiteInv, LedgerInv
<1>2. \A c \in Cell : Bounded(row, c)
  BY DEF SlotInv
<1>3. IsPlan(ReadPlan, Cell, row, world.cells, world.target)
  BY <1>1, <1>2, PlanIs DEF ReadPlan
<1> QED
  BY <1>3 DEF IsPlan, Slots

(* Writing back the value that is there changes nothing.                   *)
LEMMA SameValue ==
    ASSUME NEW P, NEW f, f = [q \in P |-> f[q]], NEW p \in P
    PROVE  [f EXCEPT ![p] = f[p]] = f
  OBVIOUS

(* A suite starts with every list in the slots: they are empty.            *)
LEMMA InitSlots == Init => SlotInv
<1> SUFFICES ASSUME Init PROVE SlotInv
  OBVIOUS
<1>1. \A s \in Sample : row[s] = Absent
  BY DEF Init
<1>2. \A c \in Cell : Bounded(row, c)
  <2>1. \A c \in Cell : Present(row, c) = {}
    BY <1>1 DEF Present, Init, Absent
  <2> QED
    BY <2>1 DEF Bounded
<1>3. \A d \in Dir : manifest[d] = <<>>
  BY DEF Init
<1>4. \A p \in Process : jobs[p] = <<>> /\ plan[p] = <<>> /\ queue[p] = <<>> /\ pc[p] = "idle"
  BY DEF Init
<1>5. plan = [p \in Process |-> plan[p]] /\ exit = [p \in Process |-> exit[p]]
  BY DEF Init
<1>6. InSlots(<<>>) /\ \A S : <<>> \in Seq(S)
  BY DEF InSlots
<1> QED
  BY <1>1, <1>2, <1>3, <1>4, <1>5, <1>6 DEF SlotInv, Busy, WithRow

(* Every step of a process keeps SlotInv.                                  *)
LEMMA StepSlots ==
    ASSUME SuiteInv, SlotInv, NEW p \in DOMAIN world.dir, ProcessStep(p),
           row' \in [Sample -> RawRunStatus \cup {Absent}]
    PROVE  SlotInv'
<1>0. p \in Process /\ world.dir[p] \in Dir
  BY SuiteAssumption DEF SuiteInv, LedgerInv, IsWorld
<1>1. RowMoves(p)
  BY RowsMove
<1> DEFINE list == jobs[p]
           todo == queue[p]
           planned == plan[p]
           code == exit[p]
           found == manifest[world.dir[p]]
<1>2. /\ InSlots(list) /\ todo \in Seq(DOMAIN list) /\ planned \in Seq(Slots) /\ InSlots(found)
      /\ IsAudit(list) /\ IsAudit(found)
  BY <1>0 DEF SlotInv, SuiteInv, AuditInv
<1>3. /\ jobs' = jobs => jobs' = [jobs EXCEPT ![p] = list]
      /\ queue' = queue => queue' = [queue EXCEPT ![p] = todo]
      /\ plan' = plan => plan' = [plan EXCEPT ![p] = planned]
      /\ exit' = exit => exit' = [exit EXCEPT ![p] = code]
  <2>1. /\ jobs = [q \in Process |-> jobs[q]] /\ queue = [q \in Process |-> queue[q]]
        /\ plan = [q \in Process |-> plan[q]] /\ exit = [q \in Process |-> exit[q]]
    BY DEF SuiteInv, AuditInv, SlotInv
  <2> QED
    BY <1>0, <2>1, SameValue
<1>4. InSlots(<<>>) /\ (\A S : <<>> \in Seq(S)) /\ DOMAIN <<>> = {}
  BY DEF InSlots
<1>5. ReadPlan \in Seq(Slots)
  BY ReadPlanIs
<1>6. pc[p] \in Busy => todo # <<>>
  BY <1>0 DEF SlotInv
<1> HIDE DEF list, todo, planned, code, found
<1>7. CASE Launch(p) \/ PlanFirst(p) \/ Summarise(p) \/ WriteReport(p)
  <2>1. /\ jobs' = jobs /\ queue' = queue /\ manifest' = manifest
        /\ plan' = plan \/ plan' = [plan EXCEPT ![p] = ReadPlan]
        /\ exit' = exit \/ exit' = [exit EXCEPT ![p] = "none"]
        /\ \E place \in {"plan", "open", "report", "close"} : pc' = [pc EXCEPT ![p] = place]
    BY <1>7 DEF Launch, PlanFirst, Summarise, WriteReport, Goto, memory, disk
  <2>2. PICK place \in {"plan", "open", "report", "close"} : pc' = [pc EXCEPT ![p] = place]
    BY <2>1
  <2>3. place \notin Busy /\ place \notin WithRow
    BY DEF Busy, WithRow
  <2>4. PICK x \in Seq(Slots) : plan' = [plan EXCEPT ![p] = x]
    BY <1>2, <1>3, <1>5, <2>1
  <2>5. PICK y : exit' = [exit EXCEPT ![p] = y]
    BY <1>3, <2>1
  <2> QED
    BY <1>0, <1>1, <1>2, <1>3, <2>1, <2>2, <2>3, <2>4, <2>5, SlotsKept
<1>8. CASE OpenAudit(p)
  <2> DEFINE next == IF found = <<>> THEN AddPlannedJobs(<<>>, plan[p]) ELSE found
             rest == Positions(next, NeedsRecovery)
  <2>1. /\ jobs' = [jobs EXCEPT ![p] = next] /\ queue' = [queue EXCEPT ![p] = rest]
        /\ manifest' = manifest /\ exit' = exit /\ plan' = [plan EXCEPT ![p] = <<>>]
        /\ pc' = [pc EXCEPT ![p] = "next"]
    BY <1>8 DEF OpenAudit, Goto, disk, found
  <2>2. IsAudit(next) /\ InSlots(next)
    <3>1. CASE found # <<>>
      BY <1>2, <3>1
    <3>2. CASE found = <<>>
      <4>1. IsExtended(AddPlannedJobs(<<>>, planned), <<>>, planned)
        BY <1>2, NoJobs, ExtendedIs
      <4>2. \A m \in DOMAIN planned : planned[m] \in Slots
        BY <1>2, ElementOfSeq, LenProperties
      <4>3. InSlots(AddPlannedJobs(<<>>, planned)) /\ IsAudit(AddPlannedJobs(<<>>, planned))
        BY <1>4, <4>1, <4>2 DEF IsExtended, InSlots
      <4> QED
        BY <3>2, <4>3 DEF planned
    <3> QED
      BY <3>1, <3>2
  <2> HIDE DEF next
  <2>3. rest \in Seq(DOMAIN next)
    BY <2>2, RecoveryIs DEF IsRecovery
  <2> HIDE DEF rest
  <2>4. "next" \notin Busy /\ "next" \notin WithRow
    BY DEF Busy, WithRow
  <2> QED
    BY <1>0, <1>1, <1>3, <1>4, <2>1, <2>2, <2>3, <2>4, SlotsKept
<1>9. CASE BeginJob(p)
  <2>1. PICK next : /\ jobs' = [jobs EXCEPT ![p] = next]
                    /\ Rewritten(next, jobs[p], Current(p), "running", jobs[p][Current(p)].grade)
                    /\ manifest' = [manifest EXCEPT ![world.dir[p]] = next]
    BY <1>9, BeginIs
  <2>2. DOMAIN next = DOMAIN list /\ InSlots(next)
    BY <1>2, <2>1, RewrittenIs DEF list
  <2>3. /\ queue' = queue /\ exit' = exit /\ plan' = plan /\ pc' = [pc EXCEPT ![p] = "create"]
        /\ todo # <<>> /\ "create" \notin WithRow
    BY <1>9 DEF BeginJob, Goto, todo, WithRow
  <2> QED
    BY <1>0, <1>1, <1>2, <1>3, <2>1, <2>2, <2>3, SlotsKept
<1>10. CASE Work(p)
  <2>1. Worked(p)
    BY <1>10, WorkIs
  <2>2. manifest' = manifest /\ queue' = queue /\ plan' = plan /\ exit' = exit /\ todo # <<>>
    BY <1>6, <2>1 DEF Worked
  <2>3. CASE \E place \in WithRow : jobs' = jobs /\ pc' = [pc EXCEPT ![p] = place]
    <3>1. PICK place \in WithRow : jobs' = jobs /\ pc' = [pc EXCEPT ![p] = place]
      BY <2>3
    <3>2. DOMAIN pc = Process /\ pc'[p] # "write"
      BY <1>0, <3>1 DEF SuiteInv, AuditInv, WithRow
    <3>3. HasRow(CurrentSample(p), row')
      BY <1>0, <2>1, <3>2 DEF Worked
    <3>4. HasRow(list[Head(todo)].sample, row')
      BY <3>3 DEF CurrentSample, Current, list, todo
    <3> QED
      BY <1>0, <1>1, <1>2, <1>3, <2>2, <3>1, <3>4, SlotsKept
  <2>4. CASE \E next, status, grade : Settles(p, next, status, grade)
    <3>1. PICK next, status, grade : Settles(p, next, status, grade)
      BY <2>4
    <3>2. /\ jobs' = [jobs EXCEPT ![p] = next] /\ pc' = [pc EXCEPT ![p] = "write"]
          /\ Rewritten(next, list, Current(p), status, grade) /\ "write" \notin WithRow
      BY <3>1 DEF Settles, list, WithRow
    <3>3. DOMAIN next = DOMAIN list /\ InSlots(next)
      BY <1>2, <3>2, RewrittenIs
    <3> QED
      BY <1>0, <1>1, <1>2, <1>3, <2>2, <3>2, <3>3, SlotsKept
  <2> QED
    BY <2>1, <2>3, <2>4 DEF Worked
<1>11. CASE WriteJob(p)
  <2>1. /\ manifest' = [manifest EXCEPT ![world.dir[p]] = list]
        /\ queue' = [queue EXCEPT ![p] = Tail(todo)]
        /\ jobs' = jobs /\ exit' = exit /\ plan' = plan /\ pc' = [pc EXCEPT ![p] = "next"]
        /\ pc[p] = "write"
    BY <1>0, <1>11 DEF WriteJob, Goto, list, todo, SuiteInv, AuditInv, At
  <2>2. Tail(todo) \in Seq(DOMAIN list)
    BY <1>0, <1>6, <2>1, CurrentIs DEF Busy, list, todo
  <2>3. "next" \notin Busy /\ "next" \notin WithRow
    BY DEF Busy, WithRow
  <2> QED
    BY <1>0, <1>1, <1>2, <1>3, <2>1, <2>2, <2>3, SlotsKept
<1>12. CASE TopUp(p)
  <2> DEFINE next == AddPlannedJobs(list, ReadPlan)
             rest == AddedJobs(next, ReadPlan)
  <2>1. /\ jobs' = [jobs EXCEPT ![p] = next] /\ queue' = [queue EXCEPT ![p] = rest]
        /\ manifest' = manifest /\ exit' = exit /\ plan' = plan /\ pc' = pc /\ pc[p] = "next"
    <3>1. /\ jobs' = [jobs EXCEPT ![p] = next]
          /\ queue' = [queue EXCEPT ![p] = AddedJobs(jobs'[p], ReadPlan)]
          /\ manifest' = manifest /\ exit' = exit /\ plan' = plan /\ pc' = pc /\ pc[p] = "next"
      BY <1>0, <1>12 DEF TopUp, disk, At, list, SuiteInv, AuditInv
    <3>2. jobs'[p] = next
      BY <1>0, <3>1 DEF SuiteInv, AuditInv
    <3> QED
      BY <3>1, <3>2
  <2>2. IsExtended(next, list, ReadPlan)
    BY <1>2, <1>5, ExtendedIs
  <2>3. \A m \in DOMAIN ReadPlan : ReadPlan[m] \in Slots
    BY <1>5, ElementOfSeq, LenProperties
  <2> HIDE DEF next
  <2>4. IsAudit(next) /\ InSlots(next)
    BY <1>2, <2>2, <2>3 DEF IsExtended, InSlots
  <2>5. rest \in Seq(DOMAIN next)
    <3>1. \A m \in DOMAIN ReadPlan : ReadPlan[m] \in SamplesOf(next)
      BY <2>2 DEF IsExtended
    <3> QED
      BY <1>5, <2>4, <3>1, TopUpIs DEF IsTopUp
  <2> HIDE DEF rest
  <2>6. "next" \notin Busy /\ "next" \notin WithRow /\ pc' = [pc EXCEPT ![p] = "next"]
    <3>1. pc = [q \in Process |-> pc[q]]
      BY DEF SuiteInv, AuditInv
    <3>2. pc = [pc EXCEPT ![p] = "next"]
      BY <1>0, <2>1, <3>1, SameValue
    <3> QED
      BY <2>1, <3>2 DEF Busy, WithRow
  <2>7. /\ jobs' = [jobs EXCEPT ![p] = next] /\ queue' = [queue EXCEPT ![p] = rest]
        /\ exit' = [exit EXCEPT ![p] = code] /\ plan' = [plan EXCEPT ![p] = planned]
        /\ manifest' = manifest /\ planned \in Seq(Slots)
    BY <1>2, <1>3, <2>1
  <2> QED
    BY <1>0, <1>1, <2>4, <2>5, <2>6, <2>7, SlotsKept
<1>13. CASE Close(p) \/ Kill(p)
  <2>1. /\ jobs' = [jobs EXCEPT ![p] = <<>>] /\ queue' = [queue EXCEPT ![p] = <<>>]
        /\ plan' = [plan EXCEPT ![p] = <<>>] /\ pc' = [pc EXCEPT ![p] = "idle"]
        /\ manifest' = manifest \/ manifest' = [manifest EXCEPT ![world.dir[p]] = list]
        /\ \E y : exit' = [exit EXCEPT ![p] = y]
    BY <1>13 DEF Close, Kill, Forget, Goto, disk, list
  <2>2. "idle" \notin Busy /\ "idle" \notin WithRow
    BY DEF Busy, WithRow
  <2> QED
    BY <1>0, <1>1, <1>2, <1>4, <2>1, <2>2, SlotsKept
<1> QED
  BY <1>7, <1>8, <1>9, <1>10, <1>11, <1>12, <1>13 DEF ProcessStep, Step, Work

\* What the invariants about rows and audits look at.
books == <<world, row, pc, jobs, queue, plan, manifest, exit, wave, snapshot, report, grades>>

(* A step of a process, or one that leaves all of that alone.              *)
LEMMA StepIs ==
    ASSUME [Next]_vars
    PROVE  (\E p \in DOMAIN world.dir : ProcessStep(p)) \/ UNCHANGED books
<1>1. CASE EditGrader
  BY <1>1 DEF EditGrader, books, database, disk, memory
<1>2. CASE UNCHANGED vars
  BY <1>2 DEF vars, books
<1> QED
  BY <1>1, <1>2 DEF Next, ProcessStep

(* Every step of a suite keeps SlotInv.                                    *)
LEMMA NextSlots == SuiteInv /\ SlotInv /\ [Next]_vars => SlotInv'
<1> SUFFICES ASSUME SuiteInv, SlotInv, [Next]_vars PROVE SlotInv'
  OBVIOUS
<1>1. CASE \E p \in DOMAIN world.dir : ProcessStep(p)
  <2>1. row' \in [Sample -> RawRunStatus \cup {Absent}]
    BY NextSuite DEF SuiteInv, LedgerInv
  <2> QED
    BY <1>1, <2>1, StepSlots
<1>2. CASE UNCHANGED books
  BY <1>2 DEF books, SlotInv, Present, Bounded, CurrentSample, Current
<1> QED
  BY <1>1, <1>2, StepIs

-----------------------------------------------------------------------------
(* Rows without gaps. *)

\* The sample of a cell with an index.
SampleAt(cell, h) == [cell |-> cell, index |-> h]

\* Samples in an order in which they can get their rows: every earlier index
\* of the cell has one or comes before.  A failed row is one index more.
InOrder(f, runs, target) ==
    \A m \in DOMAIN f :
        /\ f[m].index < target + FailedCount(runs, f[m].cell)
        /\ \A h \in 0..(f[m].index - 1) :
              HasRow(SampleAt(f[m].cell, h), runs) \/ \E j \in 1..(m - 1) : f[j] = SampleAt(f[m].cell, h)

\* The rows of a cell are its first indices.
Gapless(runs, target) ==
    \A s \in Sample : runs[s] # Absent =>
        /\ s.index < target + FailedCount(runs, s.cell)
        /\ \A h \in 0..(s.index - 1) : HasRow(SampleAt(s.cell, h), runs)

\* A job without a row is still to be run.
Settled(list, runs) ==
    \A i \in DOMAIN list : Unfinished(list[i]) \/ HasRow(list[i].sample, runs)

\* The samples of a list and of a queue over it, in their order.
SamplesIn(list) == [i \in DOMAIN list |-> list[i].sample]
QueuedIn(list, todo) == [m \in DOMAIN todo |-> list[todo[m]].sample]

(* A failed row stays failed: a cell never has fewer of them.              *)
LEMMA FailuresGrow ==
    ASSUME SlotInv, SlotInv', NEW p, RowMoves(p), NEW c \in Cell,
           DOMAIN row = Sample, DOMAIN row' = Sample
    PROVE  /\ FailedCount(row, c) \in Nat /\ FailedCount(row', c) \in Nat
           /\ FailedCount(row, c) <= FailedCount(row', c)
<1> DEFINE F == {s \in Present(row, c) : row[s] \in HarnessFailure}
           G == {s \in Present(row', c) : row'[s] \in HarnessFailure}
<1>1. Bounded(row, c) /\ Bounded(row', c)
  BY DEF SlotInv
<1>2. /\ FailedCount(row, c) \in Nat /\ FailedCount(row', c) \in Nat
      /\ IsFiniteSet(Present(row', c))
  BY <1>1, CountsOf
<1>3. F \subseteq G
  BY DEF RowMoves, Present, HarnessFailure, Reserved, Absent
<1>4. IsFiniteSet(G)
  <2>1. G \subseteq Present(row', c)
    OBVIOUS
  <2> QED
    BY <1>2, <2>1, FS_Subset
<1>5. FailedCount(row, c) = Cardinality(F) /\ FailedCount(row', c) = Cardinality(G)
  BY DEF FailedCount, CountIn
<1> HIDE DEF F, G
<1>6. Cardinality(F) <= Cardinality(G)
  BY <1>3, <1>4, FS_Subset
<1> QED
  BY <1>2, <1>5, <1>6

(* An order stays one.                                                     *)
LEMMA OrderStays ==
    ASSUME SlotInv, SlotInv', NEW p, RowMoves(p), DOMAIN row = Sample, DOMAIN row' = Sample,
           NEW f, NEW target \in Nat, InOrder(f, row, target), \A m \in DOMAIN f : f[m] \in Slots
    PROVE  InOrder(f, row', target)
<1> SUFFICES ASSUME NEW m \in DOMAIN f
             PROVE  /\ f[m].index < target + FailedCount(row', f[m].cell)
                    /\ \A h \in 0..(f[m].index - 1) :
                          \/ HasRow(SampleAt(f[m].cell, h), row')
                          \/ \E j \in 1..(m - 1) : f[j] = SampleAt(f[m].cell, h)
  BY DEF InOrder
<1>1. f[m].cell \in Cell /\ f[m].index \in Nat
  BY DEF Slots
<1>2. /\ FailedCount(row, f[m].cell) \in Nat /\ FailedCount(row', f[m].cell) \in Nat
      /\ FailedCount(row, f[m].cell) <= FailedCount(row', f[m].cell)
  BY <1>1, FailuresGrow
<1>3. f[m].index < target + FailedCount(row, f[m].cell)
  BY DEF InOrder
<1>4. f[m].index < target + FailedCount(row', f[m].cell)
  BY <1>1, <1>2, <1>3
<1>5. \A h \in 0..(f[m].index - 1) :
         \/ HasRow(SampleAt(f[m].cell, h), row')
         \/ \E j \in 1..(m - 1) : f[j] = SampleAt(f[m].cell, h)
  BY RowsStay DEF InOrder
<1> QED
  BY <1>4, <1>5

(* A job that has its row keeps it.                                        *)
LEMMA SettledStays ==
    ASSUME NEW p, RowMoves(p), NEW list, Settled(list, row)
    PROVE  Settled(list, row')
  BY RowsStay DEF Settled

(* Without gaps the next index is the number of rows.                      *)
LEMMA NextIsCount ==
    ASSUME SlotInv, NEW c \in Cell, NEW target, Gapless(row, target),
           row \in [Sample -> RawRunStatus \cup {Absent}]
    PROVE  LET N == NextSampleIndex(row, c) IN
           /\ N \in Nat
           /\ \A h \in 0..(N - 1) : HasRow(SampleAt(c, h), row)
           /\ N <= CompletedCount(row, c) + ActiveCount(row, c) + FailedCount(row, c)
<1> DEFINE N == NextSampleIndex(row, c)
           P == Present(row, c)
<1>1. Bounded(row, c)
  BY DEF SlotInv
<1>2. N \in Nat /\ (N # 0 => \E s \in P : s.index = N - 1)
  BY <1>1, NextIndexIs
<1>3. /\ IsFiniteSet(P)
      /\ CompletedCount(row, c) + ActiveCount(row, c) + FailedCount(row, c) = Cardinality(P)
  <2>1. \A s \in P : row[s] \in {"completed"} \cup Reserved \cup HarnessFailure
    BY DEF Present, Absent, RawRunStatus, Reserved, HarnessFailure
  <2> QED
    BY <1>1, <2>1, CountsOf
<1> HIDE DEF N
<1>4. \A h \in 0..(N - 1) : SampleAt(c, h) \in P
  <2> SUFFICES ASSUME NEW h \in 0..(N - 1) PROVE SampleAt(c, h) \in P
    OBVIOUS
  <2>1. PICK s \in P : s.index = N - 1
    BY <1>2
  <2>2. s \in Sample /\ row[s] # Absent /\ s.cell = c /\ s = [cell |-> c, index |-> s.index]
    BY <1>1 DEF Present, Bounded, Absent
  <2>3. CASE h = N - 1
    <3>1. SampleAt(c, h) = s
      BY <2>1, <2>2, <2>3 DEF SampleAt
    <3> QED
      BY <3>1
  <2>4. CASE h # N - 1
    <3>1. h \in 0..(s.index - 1)
      BY <1>2, <2>1, <2>4
    <3>2. HasRow(SampleAt(c, h), row)
      BY <2>2, <3>1 DEF Gapless
    <3> QED
      BY <3>2 DEF HasRow, Present, SampleAt, Absent
  <2> QED
    BY <2>3, <2>4
<1>5. \A h \in 0..(N - 1) : HasRow(SampleAt(c, h), row)
  BY <1>4 DEF Present, HasRow, Absent
<1>6. N <= Cardinality(P)
  <2> DEFINE I == 0..(N - 1)
             f == [h \in I |-> SampleAt(c, h)]
  <2>1. \A h, k \in I : SampleAt(c, h) = SampleAt(c, k) => h = k
    BY DEF SampleAt
  <2>2. f \in Injection(I, P)
    BY <1>4, <2>1 DEF Injection, IsInjective
  <2>3. Cardinality(I) = N /\ IsFiniteSet(I)
    BY <1>2, FS_Interval
  <2> HIDE DEF f, I, P
  <2>4. Cardinality(I) <= Cardinality(P)
    BY <1>3, <2>2, FS_Injection
  <2> QED
    BY <2>3, <2>4
<1> QED
  BY <1>2, <1>3, <1>5, <1>6 DEF N

(* A plan over rows without gaps is an order.                              *)
LEMMA PlanInOrder ==
    ASSUME SuiteInv, SlotInv, Gapless(row, world.target)
    PROVE  InOrder(ReadPlan, row, world.target)
<1> DEFINE plan_ == ReadPlan
           T == world.target
<1>1. IsPlan(plan_, Cell, row, world.cells, T)
  BY ReadPlanIs
<1>2. T \in Nat /\ world.cells \in Seq(Cell) /\ row \in [Sample -> RawRunStatus \cup {Absent}]
  BY WorldIs DEF SuiteInv, LedgerInv
<1>3. \A i \in DOMAIN world.cells : world.cells[i] \in Cell
  BY <1>2, ElementOfSeq, LenProperties
<1> SUFFICES ASSUME NEW k \in DOMAIN plan_
             PROVE  /\ plan_[k].index < T + FailedCount(row, plan_[k].cell)
                    /\ \A h \in 0..(plan_[k].index - 1) :
                          \/ HasRow(SampleAt(plan_[k].cell, h), row)
                          \/ \E j \in 1..(k - 1) : plan_[j] = SampleAt(plan_[k].cell, h)
  BY DEF InOrder
<1>4. PICK i \in DOMAIN world.cells : \E passes \in 0..(T - 1) :
          /\ Room(row, world.cells[i], T, passes) /\ plan_[k] = Slot(row, world.cells[i], passes)
          /\ \A q \in 0..(passes - 1) : \E j \in 1..(k - 1) : plan_[j] = Slot(row, world.cells[i], q)
  BY <1>1 DEF IsPlan
<1> HIDE DEF plan_, T
<1> DEFINE c == world.cells[i]
<1>5. PICK passes \in 0..(T - 1) :
          /\ Room(row, c, T, passes) /\ plan_[k] = Slot(row, c, passes)
          /\ \A q \in 0..(passes - 1) : \E j \in 1..(k - 1) : plan_[j] = Slot(row, c, q)
  BY <1>4
<1> DEFINE N == NextSampleIndex(row, c)
<1>6. c \in Cell
  BY <1>3
<1> HIDE DEF c
<1>7. /\ N \in Nat /\ \A h \in 0..(N - 1) : HasRow(SampleAt(c, h), row)
      /\ N <= CompletedCount(row, c) + ActiveCount(row, c) + FailedCount(row, c)
  BY <1>2, <1>6, NextIsCount
<1>8. /\ CompletedCount(row, c) \in Nat /\ ActiveCount(row, c) \in Nat
      /\ FailedCount(row, c) \in Nat
  BY <1>6, CountsOf DEF SlotInv
<1>9. plan_[k].cell = c /\ plan_[k].index = N + passes
  BY <1>5 DEF Slot
<1> HIDE DEF N
<1>10. N + passes < T + FailedCount(row, c)
  BY <1>2, <1>5, <1>7, <1>8 DEF Room, T
<1>11. ASSUME NEW h \in 0..(N + passes - 1)
       PROVE  HasRow(SampleAt(c, h), row) \/ \E j \in 1..(k - 1) : plan_[j] = SampleAt(c, h)
  <2>1. CASE h < N
    BY <1>7, <2>1
  <2>2. CASE ~(h < N)
    <3>1. h - N \in 0..(passes - 1) /\ N + (h - N) = h
      BY <1>7, <2>2
    <3>2. PICK j \in 1..(k - 1) : plan_[j] = Slot(row, c, h - N)
      BY <1>5, <3>1
    <3>3. plan_[j] = SampleAt(c, h)
      BY <3>1, <3>2 DEF Slot, SampleAt, N
    <3> QED
      BY <3>3
  <2> QED
    BY <2>1, <2>2
<1>12. plan_[k].index < T + FailedCount(row, plan_[k].cell)
  BY <1>9, <1>10
<1>13. \A h \in 0..(plan_[k].index - 1) :
           \/ HasRow(SampleAt(plan_[k].cell, h), row)
           \/ \E j \in 1..(k - 1) : plan_[j] = SampleAt(plan_[k].cell, h)
  <2> SUFFICES ASSUME NEW h \in 0..(plan_[k].index - 1)
               PROVE  \/ HasRow(SampleAt(plan_[k].cell, h), row)
                      \/ \E j \in 1..(k - 1) : plan_[j] = SampleAt(plan_[k].cell, h)
    OBVIOUS
  <2>1. h \in 0..(N + passes - 1)
    BY <1>7, <1>9
  <2>2. HasRow(SampleAt(c, h), row) \/ \E j \in 1..(k - 1) : plan_[j] = SampleAt(c, h)
    BY <1>11, <2>1
  <2>3. SampleAt(plan_[k].cell, h) = SampleAt(c, h)
    BY <1>9
  <2> QED
    BY <2>2, <2>3
<1> QED
  BY <1>12, <1>13

(* An audit that takes a plan over keeps the order.                        *)
LEMMA ExtendedInOrder ==
    ASSUME NEW all, NEW list, NEW planned, IsExtended(all, list, planned), IsAudit(list),
           NEW runs, NEW target, InOrder(SamplesIn(list), runs, target),
           InOrder(planned, runs, target), Settled(list, runs)
    PROVE  InOrder(SamplesIn(all), runs, target) /\ Settled(all, runs)
<1> DEFINE f == SamplesIn(all)
<1>1. /\ DOMAIN list = 1..Len(list) /\ Len(list) \in Nat
      /\ DOMAIN all = 1..Len(all) /\ Len(all) \in Nat /\ DOMAIN list \subseteq DOMAIN all
  BY AuditIs DEF IsExtended
<1>2. DOMAIN f = DOMAIN all /\ \A i \in DOMAIN all : f[i] = all[i].sample
  BY DEF SamplesIn
<1>3. \A i \in DOMAIN list : f[i] = SamplesIn(list)[i] /\ f[i] = list[i].sample
  BY <1>1, <1>2 DEF SamplesIn, IsExtended
<1> HIDE DEF f
<1>4. ASSUME NEW m \in DOMAIN f
      PROVE  /\ f[m].index < target + FailedCount(runs, f[m].cell)
             /\ \A h \in 0..(f[m].index - 1) :
                   \/ HasRow(SampleAt(f[m].cell, h), runs)
                   \/ \E j \in 1..(m - 1) : f[j] = SampleAt(f[m].cell, h)
  <2>1. CASE m \in DOMAIN list
    <3> DEFINE g == SamplesIn(list)
    <3>1. DOMAIN g = DOMAIN list /\ g[m] = f[m]
      BY <1>3, <2>1 DEF SamplesIn
    <3>2. \A j \in 1..(m - 1) : j \in DOMAIN list /\ g[j] = f[j]
      BY <1>1, <1>3, <2>1
    <3> HIDE DEF g
    <3>3. InOrder(g, runs, target)
      BY DEF g
    <3>4. /\ g[m].index < target + FailedCount(runs, g[m].cell)
          /\ \A h \in 0..(g[m].index - 1) :
                   \/ HasRow(SampleAt(g[m].cell, h), runs)
                   \/ \E j \in 1..(m - 1) : g[j] = SampleAt(g[m].cell, h)
      BY <2>1, <3>1, <3>3 DEF InOrder
    <3> QED
      BY <3>1, <3>2, <3>4
  <2>2. CASE m \notin DOMAIN list
    <3>1. PICK k \in DOMAIN planned :
                /\ all[m].sample = planned[k]
                /\ \A h \in 1..(k - 1) : \E j \in 1..(m - 1) :
                      j \in DOMAIN all /\ all[j].sample = planned[h]
      BY <1>2, <2>2 DEF IsExtended
    <3>2. f[m] = planned[k]
      BY <1>2, <3>1
    <3>3. /\ planned[k].index < target + FailedCount(runs, planned[k].cell)
          /\ \A h \in 0..(planned[k].index - 1) :
                   \/ HasRow(SampleAt(planned[k].cell, h), runs)
                   \/ \E j \in 1..(k - 1) : planned[j] = SampleAt(planned[k].cell, h)
      BY DEF InOrder
    <3>4. \A h \in 1..(k - 1) : \E j \in 1..(m - 1) : f[j] = planned[h]
      BY <1>2, <3>1
    <3> QED
      BY <3>2, <3>3, <3>4
  <2> QED
    BY <2>1, <2>2
<1>5. ASSUME NEW i \in DOMAIN all PROVE Unfinished(all[i]) \/ HasRow(all[i].sample, runs)
  <2>1. CASE i \in DOMAIN list
    BY <1>3, <2>1 DEF IsExtended, Settled, Unfinished
  <2>2. CASE i \notin DOMAIN list
    BY <2>2 DEF IsExtended, Unfinished
  <2> QED
    BY <2>1, <2>2
<1>6. InOrder(f, runs, target)
  BY <1>4 DEF InOrder
<1> QED
  BY <1>5, <1>6 DEF Settled, f

(* The jobs to recover are in order.                                       *)
LEMMA RecoveryInOrder ==
    ASSUME NEW todo, NEW list, IsRecovery(todo, list), IsAudit(list),
           NEW runs, NEW target, InOrder(SamplesIn(list), runs, target), Settled(list, runs)
    PROVE  InOrder(QueuedIn(list, todo), runs, target)
<1> DEFINE f == QueuedIn(list, todo)
           g == SamplesIn(list)
<1>1. DOMAIN list = 1..Len(list) /\ Len(list) \in Nat
  BY AuditIs
<1>2. \A m \in DOMAIN todo : todo[m] \in DOMAIN list
  <2>1. todo \in Seq(DOMAIN list)
    BY DEF IsRecovery
  <2> DEFINE S == DOMAIN list
  <2> HIDE DEF S
  <2>2. \A m \in DOMAIN todo : todo[m] \in S
    BY <2>1, ElementOfSeq, LenProperties DEF S
  <2> QED
    BY <2>2 DEF S
<1>3. /\ DOMAIN f = DOMAIN todo /\ \A m \in DOMAIN todo : f[m] = list[todo[m]].sample
      /\ DOMAIN g = DOMAIN list /\ \A i \in DOMAIN list : g[i] = list[i].sample
  BY DEF QueuedIn, SamplesIn
<1> HIDE DEF f, g
<1>4. \A j \in DOMAIN todo : \A i : todo[j] = i => f[j] = list[i].sample
  BY <1>3
<1>5. ASSUME NEW m \in DOMAIN todo
      PROVE  /\ f[m].index < target + FailedCount(runs, f[m].cell)
             /\ \A h \in 0..(f[m].index - 1) :
                   \/ HasRow(SampleAt(f[m].cell, h), runs)
                   \/ \E j \in 1..(m - 1) : f[j] = SampleAt(f[m].cell, h)
  <2> DEFINE i == todo[m]
  <2>1. i \in DOMAIN list /\ f[m] = g[i]
    BY <1>2, <1>3
  <2>2. /\ g[i].index < target + FailedCount(runs, g[i].cell)
        /\ \A h \in 0..(g[i].index - 1) :
                   \/ HasRow(SampleAt(g[i].cell, h), runs)
                   \/ \E j \in 1..(i - 1) : g[j] = SampleAt(g[i].cell, h)
    BY <1>3, <2>1 DEF InOrder, g
  <2>3. \A x \in 1..(i - 1) : x \in DOMAIN list /\ NeedsRecovery(list[x])
                                 => \E j \in 1..(m - 1) : todo[j] = x
    BY DEF IsRecovery
  <2>4. \A j \in 1..(m - 1) : j \in DOMAIN todo
    <3>1. DOMAIN todo = 1..Len(todo) /\ Len(todo) \in Nat
      BY LenProperties DEF IsRecovery
    <3> QED
      BY <3>1
  <2> HIDE DEF i
  <2>5. ASSUME NEW h \in 0..(f[m].index - 1)
        PROVE  \/ HasRow(SampleAt(f[m].cell, h), runs)
               \/ \E j \in 1..(m - 1) : f[j] = SampleAt(f[m].cell, h)
    <3>1. HasRow(SampleAt(f[m].cell, h), runs)
          \/ \E j \in 1..(i - 1) : g[j] = SampleAt(f[m].cell, h)
      BY <2>1, <2>2
    <3>2. ASSUME NEW x \in 1..(i - 1), g[x] = SampleAt(f[m].cell, h)
          PROVE  \/ HasRow(SampleAt(f[m].cell, h), runs)
                 \/ \E j \in 1..(m - 1) : f[j] = SampleAt(f[m].cell, h)
      <4>1. x \in DOMAIN list /\ list[x].sample = SampleAt(f[m].cell, h)
        BY <1>1, <1>3, <2>1, <3>2
      <4>2. CASE NeedsRecovery(list[x])
        <5>1. PICK j \in 1..(m - 1) : todo[j] = x
          BY <2>3, <4>1, <4>2
        <5> QED
          BY <1>4, <2>4, <4>1, <5>1
      <4>3. CASE ~NeedsRecovery(list[x])
        BY <4>1, <4>3 DEF NeedsRecovery, Settled, Unfinished
      <4> QED
        BY <4>2, <4>3
    <3> QED
      BY <3>1, <3>2
  <2>6. f[m].index < target + FailedCount(runs, f[m].cell)
    BY <2>1, <2>2
  <2> QED
    BY <2>5, <2>6
<1>6. InOrder(f, runs, target)
  BY <1>3, <1>5 DEF InOrder
<1> QED
  BY <1>6 DEF f

(* The jobs of a top-up are in order.                                      *)
LEMMA TopUpInOrder ==
    ASSUME NEW todo, NEW list, NEW planned, IsTopUp(todo, list, planned),
           NEW runs, NEW target, InOrder(planned, runs, target), Settled(list, runs)
    PROVE  InOrder(QueuedIn(list, todo), runs, target)
<1> DEFINE f == QueuedIn(list, todo)
<1>1. DOMAIN f = DOMAIN todo /\ \A m \in DOMAIN todo : f[m] = list[todo[m]].sample
  BY DEF QueuedIn
<1>2. DOMAIN todo = 1..Len(todo) /\ Len(todo) \in Nat
  BY LenProperties DEF IsTopUp
<1> HIDE DEF f
<1>3. ASSUME NEW k \in DOMAIN todo
      PROVE  /\ f[k].index < target + FailedCount(runs, f[k].cell)
             /\ \A h \in 0..(f[k].index - 1) :
                   \/ HasRow(SampleAt(f[k].cell, h), runs)
                   \/ \E j \in 1..(k - 1) : f[j] = SampleAt(f[k].cell, h)
  <2>1. PICK m \in DOMAIN planned :
          /\ list[todo[k]].sample = planned[m]
          /\ \A h \in 1..(m - 1) :
                \/ \E j \in 1..(k - 1) : list[todo[j]].sample = planned[h]
                \/ \E i \in DOMAIN list : list[i].sample = planned[h] /\ ~Unfinished(list[i])
    BY SMTT(60) DEF IsTopUp
  <2>2. f[k] = planned[m]
    BY <1>1, <2>1
  <2>3. /\ planned[m].index < target + FailedCount(runs, planned[m].cell)
        /\ \A h \in 0..(planned[m].index - 1) :
                   \/ HasRow(SampleAt(planned[m].cell, h), runs)
                   \/ \E j \in 1..(m - 1) : planned[j] = SampleAt(planned[m].cell, h)
    BY DEF InOrder
  <2>4. ASSUME NEW h \in 1..(m - 1)
        PROVE  HasRow(planned[h], runs) \/ \E j \in 1..(k - 1) : f[j] = planned[h]
    <3>1. \A j \in 1..(k - 1) : f[j] = list[todo[j]].sample
      BY <1>1, <1>2
    <3> QED
      BY <2>1, <3>1 DEF Settled
  <2> QED
    BY <2>2, <2>3, <2>4
<1>4. InOrder(f, runs, target)
  BY <1>1, <1>3 DEF InOrder
<1> QED
  BY <1>4 DEF f

(* The rest of a queue is in order when the first job has its row.         *)
LEMMA TailInOrder ==
    ASSUME NEW S, NEW todo \in Seq(S), todo # <<>>, NEW list, NEW runs, NEW target,
           InOrder(QueuedIn(list, todo), runs, target), HasRow(list[Head(todo)].sample, runs)
    PROVE  InOrder(QueuedIn(list, Tail(todo)), runs, target)
<1> DEFINE rest == Tail(todo)
           f == QueuedIn(list, todo)
           g == QueuedIn(list, rest)
<1>1. /\ Len(todo) \in Nat /\ Len(todo) # 0 /\ DOMAIN todo = 1..Len(todo)
      /\ DOMAIN rest = 1..(Len(todo) - 1)
      /\ \A m \in 1..(Len(todo) - 1) : rest[m] = todo[m + 1]
      /\ Head(todo) = todo[1]
  BY HeadTailProperties, LenProperties, EmptySeq
<1>2. /\ DOMAIN f = DOMAIN todo /\ \A m \in DOMAIN todo : f[m] = list[todo[m]].sample
      /\ DOMAIN g = DOMAIN rest /\ \A m \in DOMAIN rest : g[m] = list[rest[m]].sample
  BY DEF QueuedIn
<1> HIDE DEF f, g, rest
<1>3. /\ \A m \in DOMAIN g : m + 1 \in DOMAIN f /\ g[m] = f[m + 1]
      /\ HasRow(f[1], runs)
  BY <1>1, <1>2
<1>4. ASSUME NEW m \in DOMAIN g
      PROVE  /\ g[m].index < target + FailedCount(runs, g[m].cell)
             /\ \A h \in 0..(g[m].index - 1) :
                   \/ HasRow(SampleAt(g[m].cell, h), runs)
                   \/ \E j \in 1..(m - 1) : g[j] = SampleAt(g[m].cell, h)
  <2> DEFINE n == m + 1
  <2>1. n \in DOMAIN f /\ g[m] = f[n]
    BY <1>3
  <2>2. /\ f[n].index < target + FailedCount(runs, f[n].cell)
        /\ \A h \in 0..(f[n].index - 1) :
                   \/ HasRow(SampleAt(f[n].cell, h), runs)
                   \/ \E j \in 1..(n - 1) : f[j] = SampleAt(f[n].cell, h)
    <3> HIDE DEF n
    <3> QED
      BY <2>1 DEF InOrder, f
  <2>3. \A j \in 1..(n - 1) : HasRow(f[j], runs) \/ \E k \in 1..(m - 1) : g[k] = f[j]
    <3> SUFFICES ASSUME NEW j \in 1..(n - 1)
                 PROVE  HasRow(f[j], runs) \/ \E k \in 1..(m - 1) : g[k] = f[j]
      OBVIOUS
    <3>1. CASE j = 1
      BY <1>3, <3>1
    <3>2. CASE j # 1
      <4>1. j - 1 \in 1..(m - 1) /\ j - 1 \in DOMAIN g /\ (j - 1) + 1 = j
        BY <1>1, <1>2, <3>2
      <4> QED
        BY <1>3, <4>1
    <3> QED
      BY <3>1, <3>2
  <2> HIDE DEF n
  <2> QED
    BY <2>1, <2>2, <2>3
<1>5. InOrder(g, runs, target)
  BY <1>4 DEF InOrder
<1> QED
  BY <1>5 DEF g, rest

\* The jobs of an audit are in order, and settled.
OrderedAudit(list, runs, target) == InOrder(SamplesIn(list), runs, target) /\ Settled(list, runs)

\* As long as every job gets as far as its row, rows have no gaps, and audits,
\* plans and queues are in an order that leaves none.
GapInv ==
    "create" \notin world.throws =>
        /\ Gapless(row, world.target)
        /\ \A d \in Dir : OrderedAudit(manifest[d], row, world.target)
        /\ \A p \in Process :
              /\ OrderedAudit(jobs[p], row, world.target) /\ InOrder(plan[p], row, world.target)
              /\ InOrder(QueuedIn(jobs[p], queue[p]), row, world.target)
              /\ pc[p] = "write" => HasRow(CurrentSample(p), row)

(* The row a process creates is the next of its cell.                      *)
LEMMA GaplessStays ==
    ASSUME SuiteInv, SuiteInv', SlotInv, SlotInv', NEW p \in Process, RowMoves(p),
           Gapless(row, world.target), InOrder(QueuedIn(jobs[p], queue[p]), row, world.target)
    PROVE  Gapless(row', world.target)
<1> DEFINE T == world.target
           x == CurrentSample(p)
<1>0. T \in Nat /\ DOMAIN row = Sample /\ DOMAIN row' = Sample
  BY WorldIs DEF SuiteInv, LedgerInv
<1> HIDE DEF T
<1> SUFFICES ASSUME NEW s \in Sample, row'[s] # Absent
             PROVE  /\ s.index < T + FailedCount(row', s.cell)
                    /\ \A h \in 0..(s.index - 1) : HasRow(SampleAt(s.cell, h), row')
  BY DEF Gapless, T
<1>1. s \in Slots
  BY DEF SlotInv
<1>2. s.cell \in Cell /\ s.index \in Nat
  BY <1>1 DEF Slots
<1>3. /\ FailedCount(row, s.cell) \in Nat /\ FailedCount(row', s.cell) \in Nat
      /\ FailedCount(row, s.cell) <= FailedCount(row', s.cell)
  BY <1>0, <1>2, FailuresGrow
<1>4. /\ s.index < T + FailedCount(row, s.cell)
      /\ \A h \in 0..(s.index - 1) : HasRow(SampleAt(s.cell, h), row)
  <2>1. CASE row[s] # Absent
    BY <2>1 DEF Gapless, T
  <2>2. CASE row[s] = Absent
    <3>1. s = x /\ pc[p] = "create"
      BY <2>2 DEF RowMoves, RawRunStatus, Absent, Reserved
    <3>2. queue[p] # <<>>
      BY <3>1 DEF SlotInv, Busy
    <3>3. 1 \in DOMAIN queue[p] /\ x = jobs[p][queue[p][1]].sample
      BY <3>2, CurrentIs
    <3> DEFINE f == QueuedIn(jobs[p], queue[p])
    <3>4. 1 \in DOMAIN f /\ f[1] = s
      BY <3>1, <3>3 DEF QueuedIn
    <3> HIDE DEF f
    <3>5. /\ f[1].index < T + FailedCount(row, f[1].cell)
          /\ \A h \in 0..(f[1].index - 1) :
                 HasRow(SampleAt(f[1].cell, h), row) \/ \E j \in 1..(1 - 1) : f[j] = SampleAt(f[1].cell, h)
      BY <3>4 DEF InOrder, f, T
    <3>6. 1..(1 - 1) = {}
      OBVIOUS
    <3> QED
      BY <3>4, <3>5, <3>6
  <2> QED
    BY <2>1, <2>2
<1>5. s.index < T + FailedCount(row', s.cell)
  BY <1>0, <1>2, <1>3, <1>4
<1>6. \A h \in 0..(s.index - 1) : HasRow(SampleAt(s.cell, h), row')
  BY <1>4, RowsStay
<1> QED
  BY <1>5, <1>6

(* What an audit and its queue point at are slots.                         *)
LEMMA SlotsIn ==
    ASSUME NEW list, InSlots(list), NEW todo \in Seq(DOMAIN list)
    PROVE  /\ \A m \in DOMAIN SamplesIn(list) : SamplesIn(list)[m] \in Slots
           /\ \A m \in DOMAIN QueuedIn(list, todo) : QueuedIn(list, todo)[m] \in Slots
           /\ \A m \in DOMAIN todo : todo[m] \in DOMAIN list
<1>1. \A m \in DOMAIN todo : todo[m] \in DOMAIN list
  <2> DEFINE S == DOMAIN list
  <2>1. todo \in Seq(S)
    OBVIOUS
  <2> HIDE DEF S
  <2>2. \A m \in DOMAIN todo : todo[m] \in S
    BY <2>1, ElementOfSeq, LenProperties
  <2> QED
    BY <2>2 DEF S
<1> QED
  BY <1>1 DEF InSlots, SamplesIn, QueuedIn

(* A rewritten list is in order as before.                                 *)
LEMMA RewrittenOrder ==
    ASSUME NEW next, NEW list, NEW k, NEW status, NEW grade,
           Rewritten(next, list, k, status, grade), NEW todo \in Seq(DOMAIN list), InSlots(list)
    PROVE  SamplesIn(next) = SamplesIn(list) /\ QueuedIn(next, todo) = QueuedIn(list, todo)
<1>1. DOMAIN next = DOMAIN list /\ \A i \in DOMAIN list : next[i].sample = list[i].sample
  BY RewrittenIs
<1>2. \A m \in DOMAIN todo : todo[m] \in DOMAIN list
  BY SlotsIn
<1> QED
  BY <1>1, <1>2 DEF SamplesIn, QueuedIn

(* What GapInv asks of a step of p.                                        *)
LEMMA GapKept ==
    ASSUME SuiteInv, SuiteInv', SlotInv, SlotInv', GapInv, NEW p \in Process, RowMoves(p),
           world' = world, "create" \notin world.throws,
           NEW list, NEW todo, NEW planned, NEW written, NEW place,
           OrderedAudit(list, row', world.target), InOrder(planned, row', world.target),
           InOrder(QueuedIn(list, todo), row', world.target),
           OrderedAudit(written, row', world.target),
           jobs' = [jobs EXCEPT ![p] = list], queue' = [queue EXCEPT ![p] = todo],
           plan' = [plan EXCEPT ![p] = planned],
           manifest' = manifest \/ \E d \in Dir : manifest' = [manifest EXCEPT ![d] = written],
           pc' = [pc EXCEPT ![p] = place],
           place = "write" => HasRow(list[Head(todo)].sample, row')
    PROVE  GapInv'
<1> DEFINE T == world.target
<1>0. T \in Nat /\ DOMAIN row = Sample /\ DOMAIN row' = Sample
  BY WorldIs DEF SuiteInv, LedgerInv
<1>1. /\ DOMAIN jobs = Process /\ DOMAIN queue = Process /\ DOMAIN plan = Process
      /\ DOMAIN pc = Process /\ DOMAIN manifest = Dir
  BY DEF SuiteInv, AuditInv, SlotInv
<1>2. ASSUME NEW old, InSlots(old), OrderedAudit(old, row, T)
      PROVE  OrderedAudit(old, row', T)
  <2> DEFINE f == SamplesIn(old)
  <2>1. \A m \in DOMAIN f : f[m] \in Slots
    BY <1>2 DEF SamplesIn, InSlots
  <2>2. InOrder(f, row, T) /\ Settled(old, row)
    BY <1>2 DEF OrderedAudit
  <2> HIDE DEF f, T
  <2>3. InOrder(f, row', T)
    BY <1>0, <2>1, <2>2, OrderStays
  <2>4. Settled(old, row')
    BY <2>2, SettledStays
  <2> QED
    BY <2>3, <2>4 DEF OrderedAudit, f
<1>3. ASSUME NEW f, \A m \in DOMAIN f : f[m] \in Slots, InOrder(f, row, T)
      PROVE  InOrder(f, row', T)
  <2> HIDE DEF T
  <2> QED
    BY <1>0, <1>3, OrderStays
<1>4. Gapless(row', T)
  BY GaplessStays DEF GapInv
<1>5. ASSUME NEW d \in Dir PROVE OrderedAudit(manifest'[d], row', T)
  <2>1. CASE manifest'[d] = manifest[d]
    BY <1>2, <2>1 DEF SlotInv, GapInv
  <2>2. CASE manifest'[d] = written
    BY <2>2
  <2> QED
    BY <1>1, <2>1, <2>2
<1>6. ASSUME NEW q \in Process
      PROVE  /\ OrderedAudit(jobs'[q], row', T) /\ InOrder(plan'[q], row', T)
             /\ InOrder(QueuedIn(jobs'[q], queue'[q]), row', T)
             /\ pc'[q] = "write" => HasRow((CurrentSample(q))', row')
  <2>1. CASE q = p
    <3>1. jobs'[q] = list /\ queue'[q] = todo /\ plan'[q] = planned /\ pc'[q] = place
      BY <1>1, <2>1
    <3>2. (CurrentSample(q))' = list[Head(todo)].sample
      BY <3>1 DEF CurrentSample, Current
    <3> QED
      BY <3>1, <3>2
  <2>2. CASE q # p
    <3>1. jobs'[q] = jobs[q] /\ queue'[q] = queue[q] /\ plan'[q] = plan[q] /\ pc'[q] = pc[q]
      BY <1>1, <2>2
    <3>2. (CurrentSample(q))' = CurrentSample(q)
      BY <3>1 DEF CurrentSample, Current
    <3>3. /\ OrderedAudit(jobs[q], row, T) /\ InOrder(plan[q], row, T)
          /\ InOrder(QueuedIn(jobs[q], queue[q]), row, T)
          /\ pc[q] = "write" => HasRow(CurrentSample(q), row)
      BY DEF GapInv
    <3>4. InSlots(jobs[q]) /\ plan[q] \in Seq(Slots) /\ queue[q] \in Seq(DOMAIN jobs[q])
      BY DEF SlotInv
    <3>5. OrderedAudit(jobs[q], row', T)
      BY <1>2, <3>3, <3>4
    <3>6. InOrder(plan[q], row', T)
      <4>1. \A m \in DOMAIN plan[q] : plan[q][m] \in Slots
        BY <3>4, ElementOfSeq, LenProperties
      <4> QED
        BY <1>3, <3>3, <4>1
    <3>7. InOrder(QueuedIn(jobs[q], queue[q]), row', T)
      <4>1. \A m \in DOMAIN QueuedIn(jobs[q], queue[q]) : QueuedIn(jobs[q], queue[q])[m] \in Slots
        BY <3>4, SlotsIn
      <4> QED
        BY <1>3, <3>3, <4>1
    <3>8. pc[q] = "write" => HasRow(CurrentSample(q), row')
      BY <3>3, RowsStay
    <3> QED
      BY <3>1, <3>2, <3>5, <3>6, <3>7, <3>8
  <2> QED
    BY <2>1, <2>2
<1> QED
  BY <1>4, <1>5, <1>6 DEF GapInv

(* Empty audits and queues are in order.                                   *)
LEMMA NoJobsInOrder ==
    /\ \A runs, target : OrderedAudit(<<>>, runs, target) /\ InOrder(<<>>, runs, target)
    /\ \A list, runs, target : InOrder(QueuedIn(list, <<>>), runs, target)
  BY DEF OrderedAudit, InOrder, SamplesIn, QueuedIn, Settled

(* A suite starts without rows, hence without gaps.                        *)
LEMMA InitGap == Init => GapInv
<1> SUFFICES ASSUME Init PROVE GapInv
  OBVIOUS
<1>1. Gapless(row, world.target)
  BY DEF Init, Gapless
<1>2. \A d \in Dir : manifest[d] = <<>>
  BY DEF Init
<1>3. \A p \in Process : jobs[p] = <<>> /\ plan[p] = <<>> /\ queue[p] = <<>> /\ pc[p] = "idle"
  BY DEF Init
<1> QED
  BY <1>1, <1>2, <1>3, NoJobsInOrder DEF GapInv

(* No step changes the setting.                                            *)
LEMMA WorldStays == [Next]_vars => world' = world
  BY ZenonT(60)
  DEF vars, Next, Step, Launch, PlanFirst, OpenAudit, BeginJob, Create, Start, Mark, Seal,
         CheckGrades, StoreGrade, WriteJob, TopUp, Summarise, WriteReport, Close, JobThrows,
         Kill, EditGrader

(* Every step of a process whose jobs get as far as their row keeps        *)
(* GapInv.                                                                 *)
LEMMA StepGap ==
    ASSUME SuiteInv, SuiteInv', SlotInv, SlotInv', GapInv, NEW p \in DOMAIN world.dir,
           ProcessStep(p), world' = world, "create" \notin world.throws
    PROVE  GapInv'
<1> DEFINE T == world.target
           list == jobs[p]
           todo == queue[p]
           planned == plan[p]
           found == manifest[world.dir[p]]
<1>0. p \in Process /\ world.dir[p] \in Dir /\ T \in Nat /\ DOMAIN row = Sample /\ DOMAIN row' = Sample
  BY SuiteAssumption, WorldIs DEF SuiteInv, LedgerInv
<1>1. RowMoves(p)
  BY RowsMove
<1>2. /\ OrderedAudit(list, row, T) /\ InOrder(planned, row, T)
      /\ InOrder(QueuedIn(list, todo), row, T) /\ OrderedAudit(found, row, T)
      /\ Gapless(row, T)
      /\ pc[p] = "write" => HasRow(CurrentSample(p), row)
  BY <1>0 DEF GapInv
<1>3. /\ InSlots(list) /\ todo \in Seq(DOMAIN list) /\ IsAudit(list) /\ IsAudit(found)
      /\ planned \in Seq(Slots)
  BY <1>0 DEF SlotInv, SuiteInv, AuditInv
<1>4. /\ jobs' = jobs => jobs' = [jobs EXCEPT ![p] = list]
      /\ queue' = queue => queue' = [queue EXCEPT ![p] = todo]
      /\ plan' = plan => plan' = [plan EXCEPT ![p] = planned]
  <2>1. /\ jobs = [q \in Process |-> jobs[q]] /\ queue = [q \in Process |-> queue[q]]
        /\ plan = [q \in Process |-> plan[q]]
    BY DEF SuiteInv, AuditInv, SlotInv
  <2> QED
    BY <1>0, <2>1, SameValue
<1>5. InOrder(ReadPlan, row, T)
  <2>1. Gapless(row, world.target)
    BY DEF GapInv
  <2>2. InOrder(ReadPlan, row, world.target)
    BY <2>1, PlanInOrder
  <2> QED
    BY <2>2
<1>6. ReadPlan \in Seq(Slots)
  BY ReadPlanIs
<1>7. CurrentSample(p) = list[Head(todo)].sample
  BY DEF CurrentSample, Current
<1> HIDE DEF list, todo, planned, found, T
<1>8. CASE Launch(p) \/ PlanFirst(p) \/ Summarise(p) \/ WriteReport(p)
  <2>1. /\ jobs' = jobs /\ queue' = queue /\ manifest' = manifest /\ row' = row
        /\ plan' = plan \/ plan' = [plan EXCEPT ![p] = ReadPlan]
        /\ \E place \in {"plan", "open", "report", "close"} : pc' = [pc EXCEPT ![p] = place]
    BY <1>8 DEF Launch, PlanFirst, Summarise, WriteReport, Goto, memory, disk, database
  <2>2. PICK place \in {"plan", "open", "report", "close"} : pc' = [pc EXCEPT ![p] = place]
    BY <2>1
  <2>3. PICK x : plan' = [plan EXCEPT ![p] = x] /\ InOrder(x, row, T)
    BY <1>2, <1>4, <1>5, <2>1
  <2>4. place # "write"
    OBVIOUS
  <2> QED
    BY <1>0, <1>1, <1>2, <1>4, <2>1, <2>2, <2>3, <2>4, GapKept, ZenonT(60) DEF T
<1>9. CASE OpenAudit(p)
  <2> DEFINE next == IF found = <<>> THEN AddPlannedJobs(<<>>, plan[p]) ELSE found
             rest == Positions(next, NeedsRecovery)
  <2>1. /\ jobs' = [jobs EXCEPT ![p] = next] /\ queue' = [queue EXCEPT ![p] = rest]
        /\ manifest' = manifest /\ row' = row /\ plan' = [plan EXCEPT ![p] = <<>>]
        /\ pc' = [pc EXCEPT ![p] = "next"]
    BY <1>9 DEF OpenAudit, Goto, disk, database, found
  <2>2. IsAudit(next) /\ OrderedAudit(next, row, T)
    <3>1. CASE found # <<>>
      BY <1>2, <1>3, <3>1
    <3>2. CASE found = <<>>
      <4>1. IsExtended(AddPlannedJobs(<<>>, planned), <<>>, planned)
        BY <1>3, NoJobs, ExtendedIs
      <4>2. InOrder(SamplesIn(<<>>), row, T) /\ Settled(<<>>, row) /\ IsAudit(<<>>)
        BY NoJobs, NoJobsInOrder DEF OrderedAudit
      <4>3. OrderedAudit(AddPlannedJobs(<<>>, planned), row, T)
        BY <1>2, <4>1, <4>2, ExtendedInOrder DEF OrderedAudit
      <4>4. IsAudit(AddPlannedJobs(<<>>, planned))
        BY <4>1 DEF IsExtended
      <4> QED
        BY <3>2, <4>3, <4>4 DEF planned
    <3> QED
      BY <3>1, <3>2
  <2> HIDE DEF next
  <2>3. InOrder(QueuedIn(next, rest), row, T)
    BY <2>2, RecoveryIs, RecoveryInOrder DEF OrderedAudit
  <2> HIDE DEF rest
  <2> QED
    BY <1>0, <1>1, <2>1, <2>2, <2>3, NoJobsInOrder, GapKept DEF T
<1>10. CASE BeginJob(p)
  <2>1. PICK next : /\ jobs' = [jobs EXCEPT ![p] = next]
                    /\ Rewritten(next, jobs[p], Current(p), "running", jobs[p][Current(p)].grade)
                    /\ manifest' = [manifest EXCEPT ![world.dir[p]] = next]
    BY <1>10, BeginIs
  <2>2. /\ queue' = queue /\ plan' = plan /\ pc' = [pc EXCEPT ![p] = "create"] /\ row' = row
    BY <1>10 DEF BeginJob, Goto, database
  <2>3. SamplesIn(next) = SamplesIn(list) /\ QueuedIn(next, todo) = QueuedIn(list, todo)
    BY <1>3, <2>1, RewrittenOrder DEF list
  <2>4. Settled(next, row)
    BY <1>2, <2>1 DEF Settled, Rewritten, OrderedAudit, Unfinished, list
  <2>5. OrderedAudit(next, row, T) /\ InOrder(QueuedIn(next, todo), row, T)
    BY <1>2, <2>3, <2>4 DEF OrderedAudit
  <2>6. /\ jobs' = [jobs EXCEPT ![p] = next] /\ queue' = [queue EXCEPT ![p] = todo]
        /\ plan' = [plan EXCEPT ![p] = planned]
        /\ \E d \in Dir : manifest' = [manifest EXCEPT ![d] = next]
        /\ "create" # "write" /\ row' = row /\ pc' = [pc EXCEPT ![p] = "create"]
    BY <1>0, <1>4, <2>1, <2>2
  <2>7. OrderedAudit(next, row', T) /\ InOrder(QueuedIn(next, todo), row', T)
        /\ InOrder(planned, row', T)
    BY <1>2, <2>5, <2>6
  <2> QED
    BY <1>0, <1>1, <2>6, <2>7, GapKept DEF T
<1>11. CASE Work(p)
  <2>1. Worked(p)
    BY <1>11, WorkIs
  <2>2. manifest' = manifest /\ queue' = queue /\ plan' = plan /\ HasRow(CurrentSample(p), row')
    BY <2>1 DEF Worked
  <2>3. InOrder(SamplesIn(list), row', T) /\ InOrder(planned, row', T)
        /\ InOrder(QueuedIn(list, todo), row', T) /\ Settled(list, row')
    <3> DEFINE f == SamplesIn(list)
               g == QueuedIn(list, todo)
    <3>1. /\ \A m \in DOMAIN f : f[m] \in Slots
          /\ \A m \in DOMAIN g : g[m] \in Slots
          /\ \A m \in DOMAIN planned : planned[m] \in Slots
      BY <1>3, SlotsIn, ElementOfSeq, LenProperties
    <3>2. InOrder(f, row, T) /\ InOrder(g, row, T) /\ InOrder(planned, row, T) /\ Settled(list, row)
      BY <1>2 DEF OrderedAudit
    <3> HIDE DEF f, g
    <3>3. InOrder(f, row', T) /\ InOrder(g, row', T) /\ InOrder(planned, row', T)
      BY <1>0, <1>1, <3>1, <3>2, OrderStays
    <3>4. Settled(list, row')
      BY <1>1, <3>2, SettledStays
    <3> QED
      BY <3>3, <3>4 DEF f, g
  <2>4. OrderedAudit(list, row', T)
    BY <2>3 DEF OrderedAudit
  <2>5. CASE \E place \in WithRow : jobs' = jobs /\ pc' = [pc EXCEPT ![p] = place]
    <3>1. PICK place \in WithRow : jobs' = jobs /\ pc' = [pc EXCEPT ![p] = place]
      BY <2>5
    <3>2. place # "write"
      BY DEF WithRow
    <3> QED
      BY <1>0, <1>1, <1>4, <2>2, <2>3, <2>4, <3>1, <3>2, GapKept, ZenonT(60) DEF T
  <2>6. CASE \E next, status, grade : Settles(p, next, status, grade)
    <3>1. PICK next, status, grade : Settles(p, next, status, grade)
      BY <2>6
    <3>2. /\ jobs' = [jobs EXCEPT ![p] = next] /\ pc' = [pc EXCEPT ![p] = "write"]
          /\ Rewritten(next, list, Current(p), status, grade)
      BY <3>1 DEF Settles, list
    <3>3. SamplesIn(next) = SamplesIn(list) /\ QueuedIn(next, todo) = QueuedIn(list, todo)
      BY <1>3, <3>2, RewrittenOrder
    <3>4. Settled(next, row')
      <4>1. /\ DOMAIN next = DOMAIN list
            /\ \A i \in DOMAIN list : next[i].sample = list[i].sample
            /\ \A i \in DOMAIN list : i # Current(p) => next[i] = list[i]
        BY <3>2, RewrittenIs DEF Rewritten
      <4>2. list[Current(p)].sample = CurrentSample(p)
        BY DEF CurrentSample, list
      <4> QED
        BY <2>2, <2>3, <4>1, <4>2 DEF Settled
    <3>5. /\ OrderedAudit(next, row', T) /\ InOrder(QueuedIn(next, todo), row', T)
          /\ InOrder(planned, row', T)
      BY <2>3, <3>3, <3>4 DEF OrderedAudit
    <3>6. Current(p) \in DOMAIN list /\ Head(todo) = Current(p)
      <4>1. pc[p] \in Busy
        BY <2>1 DEF Worked
      <4> QED
        BY <1>0, <4>1, CurrentIs DEF SlotInv, list, todo, Current
    <3>7. HasRow(next[Head(todo)].sample, row')
      BY <1>7, <2>2, <3>2, <3>6, RewrittenIs
    <3>8. queue' = [queue EXCEPT ![p] = todo] /\ plan' = [plan EXCEPT ![p] = planned]
          /\ manifest' = manifest
      BY <1>4, <2>2
    <3> QED
      BY <1>0, <1>1, <3>2, <3>5, <3>7, <3>8, GapKept DEF T
  <2> QED
    BY <2>1, <2>5, <2>6 DEF Worked
<1>12. CASE WriteJob(p)
  <2>1. /\ manifest' = [manifest EXCEPT ![world.dir[p]] = list]
        /\ queue' = [queue EXCEPT ![p] = Tail(todo)]
        /\ jobs' = jobs /\ row' = row /\ plan' = plan /\ pc' = [pc EXCEPT ![p] = "next"]
        /\ pc[p] = "write"
    BY <1>0, <1>12 DEF WriteJob, Goto, list, todo, SuiteInv, AuditInv, At, database
  <2>2. todo # <<>>
    BY <1>0, <2>1 DEF SlotInv, Busy, todo
  <2>3. InOrder(QueuedIn(list, Tail(todo)), row, T)
    <3> DEFINE S == DOMAIN list
    <3>1. todo \in Seq(S)
      BY <1>3
    <3>2. InOrder(QueuedIn(list, todo), row, T) /\ HasRow(list[Head(todo)].sample, row)
      BY <1>2, <1>7, <2>1
    <3> HIDE DEF S
    <3> QED
      BY <2>2, <3>1, <3>2, TailInOrder
  <2>4. /\ jobs' = [jobs EXCEPT ![p] = list] /\ queue' = [queue EXCEPT ![p] = Tail(todo)]
        /\ plan' = [plan EXCEPT ![p] = planned]
        /\ \E d \in Dir : manifest' = [manifest EXCEPT ![d] = list]
        /\ "next" # "write" /\ row' = row /\ pc' = [pc EXCEPT ![p] = "next"]
    BY <1>0, <1>4, <2>1
  <2>5. OrderedAudit(list, row', T) /\ InOrder(QueuedIn(list, Tail(todo)), row', T)
        /\ InOrder(planned, row', T)
    BY <1>2, <2>3, <2>4
  <2> QED
    BY <1>0, <1>1, <2>4, <2>5, GapKept DEF T
<1>13. CASE TopUp(p)
  <2> DEFINE next == AddPlannedJobs(list, ReadPlan)
             rest == AddedJobs(next, ReadPlan)
  <2>1. /\ jobs' = [jobs EXCEPT ![p] = next] /\ queue' = [queue EXCEPT ![p] = rest]
        /\ manifest' = manifest /\ row' = row /\ plan' = plan /\ pc' = pc /\ pc[p] = "next"
    <3>1. /\ jobs' = [jobs EXCEPT ![p] = next]
          /\ queue' = [queue EXCEPT ![p] = AddedJobs(jobs'[p], ReadPlan)]
          /\ manifest' = manifest /\ row' = row /\ plan' = plan /\ pc' = pc /\ pc[p] = "next"
      BY <1>0, <1>13 DEF TopUp, disk, At, list, SuiteInv, AuditInv, database
    <3>2. jobs'[p] = next
      BY <1>0, <3>1 DEF SuiteInv, AuditInv
    <3> QED
      BY <3>1, <3>2
  <2>2. IsExtended(next, list, ReadPlan)
    BY <1>3, <1>6, ExtendedIs
  <2> HIDE DEF next
  <2>3. OrderedAudit(next, row, T)
    BY <1>2, <1>3, <1>5, <2>2, ExtendedInOrder DEF OrderedAudit
  <2>4. InOrder(QueuedIn(next, rest), row, T)
    <3>1. IsAudit(next) /\ \A m \in DOMAIN ReadPlan : ReadPlan[m] \in SamplesOf(next)
      BY <2>2 DEF IsExtended
    <3>2. IsTopUp(rest, next, ReadPlan)
      BY <1>6, <3>1, TopUpIs
    <3> QED
      BY <1>5, <2>3, <3>2, TopUpInOrder DEF OrderedAudit
  <2> HIDE DEF rest
  <2>5. pc' = [pc EXCEPT ![p] = "next"]
    <3>1. pc = [q \in Process |-> pc[q]]
      BY DEF SuiteInv, AuditInv
    <3>2. pc = [pc EXCEPT ![p] = "next"]
      BY <1>0, <2>1, <3>1, SameValue
    <3> QED
      BY <2>1, <3>2
  <2>6. /\ jobs' = [jobs EXCEPT ![p] = next] /\ queue' = [queue EXCEPT ![p] = rest]
        /\ plan' = [plan EXCEPT ![p] = planned] /\ manifest' = manifest /\ row' = row
    BY <1>4, <2>1
  <2> QED
    BY <1>0, <1>1, <1>2, <2>3, <2>4, <2>5, <2>6, GapKept DEF T
<1>14. CASE Close(p) \/ Kill(p)
  <2>1. /\ jobs' = [jobs EXCEPT ![p] = <<>>] /\ queue' = [queue EXCEPT ![p] = <<>>]
        /\ plan' = [plan EXCEPT ![p] = <<>>] /\ pc' = [pc EXCEPT ![p] = "idle"]
        /\ manifest' = manifest \/ manifest' = [manifest EXCEPT ![world.dir[p]] = list]
        /\ row' = row
    BY <1>14 DEF Close, Kill, Forget, Goto, disk, database, list
  <2> QED
    BY <1>0, <1>1, <1>2, <2>1, NoJobsInOrder, GapKept DEF T
<1> QED
  BY <1>8, <1>9, <1>10, <1>11, <1>12, <1>13, <1>14 DEF ProcessStep, Step, Work

(* Every step of a suite keeps GapInv.                                     *)
LEMMA NextGap == SuiteInv /\ SlotInv /\ GapInv /\ [Next]_vars => GapInv'
<1> SUFFICES ASSUME SuiteInv, SlotInv, GapInv, [Next]_vars PROVE GapInv'
  OBVIOUS
<1>1. SuiteInv' /\ SlotInv' /\ world' = world
  BY NextSuite, NextSlots, WorldStays
<1>2. CASE \E p \in DOMAIN world.dir : ProcessStep(p)
  <2>1. CASE "create" \in world.throws
    BY <1>1, <2>1 DEF GapInv
  <2>2. CASE "create" \notin world.throws
    BY <1>1, <1>2, <2>2, StepGap
  <2> QED
    BY <2>1, <2>2
<1>3. CASE UNCHANGED books
  <2>1. UNCHANGED <<row, manifest, jobs, plan, queue, pc>>
    BY <1>3 DEF books
  <2> QED
    BY <1>1, <2>1 DEF GapInv, CurrentSample, Current
<1> QED
  BY <1>2, <1>3, StepIs

(* Rows without gaps and below the target plus the failures leave no room  *)
(* for one sample too many.                                                *)
LEMMA GapBound ==
    ASSUME SuiteInv, SlotInv, GapInv, "create" \notin world.throws, NEW c \in Cell
    PROVE  CompletedCount(row, c) + ActiveCount(row, c) <= world.target
<1> DEFINE T == world.target
           F == FailedCount(row, c)
           P == Present(row, c)
<1>1. T \in Nat /\ row \in [Sample -> RawRunStatus \cup {Absent}] /\ Gapless(row, T)
  BY WorldIs DEF SuiteInv, LedgerInv, GapInv
<1>2. Bounded(row, c)
  BY DEF SlotInv
<1>3. /\ CompletedCount(row, c) \in Nat /\ ActiveCount(row, c) \in Nat /\ F \in Nat
      /\ CompletedCount(row, c) + ActiveCount(row, c) + F = Cardinality(P)
  <2>1. \A s \in P : row[s] \in {"completed"} \cup Reserved \cup HarnessFailure
    BY <1>1 DEF Present, Absent, RawRunStatus, Reserved, HarnessFailure
  <2> QED
    BY <1>2, <2>1, CountsOf
<1>4. \A s \in P : s = [cell |-> c, index |-> s.index] /\ s.index \in 0..(T + F - 1)
  <2> SUFFICES ASSUME NEW s \in P
               PROVE  s = [cell |-> c, index |-> s.index] /\ s.index \in 0..(T + F - 1)
    OBVIOUS
  <2>1. s \in Sample /\ s.cell = c /\ row[s] # Absent
    BY <1>1 DEF Present, Absent
  <2>2. s = [cell |-> c, index |-> s.index] /\ s.index \in Nat
    BY <1>2 DEF Bounded
  <2>3. s.index < T + F
    BY <1>1, <2>1 DEF Gapless
  <2> QED
    BY <1>1, <1>3, <2>2, <2>3
<1> HIDE DEF P, F, T
<1>5. Cardinality(P) <= (T + F) - 0
  <2>1. PICK b \in Nat : b = T + F
    BY <1>1, <1>3
  <2>2. \A s \in P : s = [cell |-> c, index |-> s.index] /\ s.index \in 0..(b - 1)
    <3>1. 0..(b - 1) = 0..(T + F - 1)
      BY <1>1, <1>3, <2>1
    <3> QED
      BY <1>4, <3>1
  <2>3. 0 \in Nat /\ 0 <= b
    BY <2>1
  <2>4. Cardinality(P) <= b - 0
    BY <2>2, <2>3, SamplesOfCell
  <2> QED
    BY <2>1, <2>4
<1> QED
  BY <1>1, <1>3, <1>5 DEF T

-----------------------------------------------------------------------------
(* A suite on its own. *)

\* A set of at most n elements.
AtMost(T, n) == IsFiniteSet(T) /\ Cardinality(T) <= n

\* What a cell has, and what a list and a queue over it may still add.
Held(runs, c) == {s \in Present(runs, c) : runs[s] \in {"completed"} \cup Reserved}
Queued(i, todo) == \E m \in DOMAIN todo : todo[m] = i
OpenIn(list, todo, runs, c) ==
    {s \in SamplesOf(list) :
        /\ s.cell = c /\ ~HasRow(s, runs)
        /\ \E i \in DOMAIN list :
              list[i].sample = s /\ (Unfinished(list[i]) \/ Queued(i, todo))}
PlannedIn(planned, c) == {s \in Range(planned) : s.cell = c}

\* With what a list and its queue, or a plan, may still add no cell exceeds the
\* target.
Fits(list, todo, runs, target) ==
    \A c \in Cell : AtMost(Held(runs, c) \cup OpenIn(list, todo, runs, c), target)
PlanFits(planned, runs, target) ==
    \A c \in Cell : AtMost(Held(runs, c) \cup PlannedIn(planned, c), target)

\* An unfinished job is queued; no sample is listed or planned twice.
Covered(list, todo) == \A i \in DOMAIN list : Unfinished(list[i]) => Queued(i, todo)
Distinct(list) == \A i, j \in DOMAIN list : list[i].sample = list[j].sample => i = j
Injective(planned) == \A k, j \in DOMAIN planned : planned[k] = planned[j] => k = j

\* What the manifest and the audit of a suite still ask for fits in the target
\* with what is there, and so does its plan before it is taken over.
AloneAt(found, list, todo, planned, place, runs, target) ==
    /\ Fits(found, <<>>, runs, target) /\ Fits(list, todo, runs, target)
    /\ Covered(list, todo) /\ Distinct(found) /\ Distinct(list)
    /\ place = "open" => PlanFits(planned, runs, target) /\ Injective(planned)
    /\ place = "create" => found = list /\ list[Head(todo)].status = "running"
    /\ place = "write" => ~Unfinished(list[Head(todo)])

\* Nobody else adds rows to the database of a suite on its own.
AloneInv ==
    \A p \in Process : DOMAIN world.dir = {p} =>
        AloneAt(manifest[world.dir[p]], jobs[p], queue[p], plan[p], pc[p], row, world.target)

(* What fits still fits with some of it left out.                          *)
LEMMA FewerFit == \A S, T, n : AtMost(S, n) /\ T \subseteq S /\ n \in Nat => AtMost(T, n)
<1> SUFFICES ASSUME NEW S, NEW T, NEW n, AtMost(S, n), T \subseteq S, n \in Nat PROVE AtMost(T, n)
  OBVIOUS
<1>1. IsFiniteSet(S) /\ Cardinality(S) <= n
  BY DEF AtMost
<1>2. IsFiniteSet(T) /\ Cardinality(T) <= Cardinality(S)
  BY <1>1, FS_Subset
<1>3. Cardinality(S) \in Nat /\ Cardinality(T) \in Nat
  BY <1>1, <1>2, FS_CardinalityType
<1> QED
  BY <1>1, <1>2, <1>3 DEF AtMost

(* What a cell has is what is completed and what is in flight.             *)
LEMMA HeldIs ==
    ASSUME NEW runs, NEW c, Bounded(runs, c)
    PROVE  /\ IsFiniteSet(Held(runs, c))
           /\ Cardinality(Held(runs, c)) = CompletedCount(runs, c) + ActiveCount(runs, c)
           /\ CompletedCount(runs, c) \in Nat /\ ActiveCount(runs, c) \in Nat
<1> DEFINE P == Present(runs, c)
           C == {s \in P : runs[s] \in {"completed"}}
           A == {s \in P : runs[s] \in Reserved}
<1>1. IsFiniteSet(P) /\ CompletedCount(runs, c) \in Nat /\ ActiveCount(runs, c) \in Nat
  BY CountsOf
<1>2. CompletedCount(runs, c) = Cardinality(C) /\ ActiveCount(runs, c) = Cardinality(A)
  BY DEF CompletedCount, ActiveCount, CountIn
<1>3. Held(runs, c) = C \cup A
  BY DEF Held
<1>4. C \in SUBSET P /\ A \in SUBSET P /\ C \cap A = {}
  BY DEF Reserved
<1> HIDE DEF P, C, A
<1>5. IsFiniteSet(C) /\ IsFiniteSet(A)
  BY <1>1, <1>4, FS_Subset
<1>6. IsFiniteSet(C \cup A) /\ Cardinality(C \cup A) = Cardinality(C) + Cardinality(A)
  BY <1>1, <1>2, <1>4, <1>5, FS_Union, FS_EmptySet
<1> QED
  BY <1>1, <1>2, <1>3, <1>6

(* A plan asks for as many samples of a cell as it lacks.                  *)
LEMMA ReadPlanFits ==
    ASSUME SuiteInv, SlotInv, \A c \in Cell : AtMost(Held(row, c), world.target)
    PROVE  PlanFits(ReadPlan, row, world.target) /\ Injective(ReadPlan)
<1> DEFINE T == world.target
           planned == ReadPlan
<1>1. IsPlan(planned, Cell, row, world.cells, T) /\ planned \in Seq(Slots)
  BY ReadPlanIs
<1>2. T \in Nat /\ world.cells \in Seq(Cell)
      /\ \A i, h \in DOMAIN world.cells : world.cells[i] = world.cells[h] => i = h
  BY WorldIs DEF SuiteInv, LedgerInv
<1>3. \A i \in DOMAIN world.cells : world.cells[i] \in Cell
  BY <1>2, ElementOfSeq, LenProperties
<1>4. Injective(planned)
  BY <1>1, <1>2 DEF IsPlan, Injective
<1> HIDE DEF planned, T
<1>5. ASSUME NEW c \in Cell PROVE AtMost(Held(row, c) \cup PlannedIn(planned, c), T)
  <2> DEFINE H == Held(row, c)
             Q == PlannedIn(planned, c)
             N == NextSampleIndex(row, c)
  <2>1. Bounded(row, c)
    BY DEF SlotInv
  <2>2. /\ IsFiniteSet(H) /\ Cardinality(H) = CompletedCount(row, c) + ActiveCount(row, c)
        /\ Cardinality(H) \in Nat
    <3>1. \A a, b \in Nat : a + b \in Nat
      OBVIOUS
    <3> QED
      BY <2>1, <3>1, HeldIs
  <2>3. Cardinality(H) <= T
    BY DEF AtMost, T
  <2>4. N \in Nat
    BY <2>1, NextIndexIs
  <2>5. PICK room \in Nat : room = T - Cardinality(H)
    BY <1>2, <2>2, <2>3
  <2>6. PICK top \in Nat : top = N + room
    BY <2>4, <2>5
  <2>7. ASSUME NEW s \in Q
        PROVE  s = [cell |-> c, index |-> s.index] /\ s.index \in N..(top - 1)
    <3>1. PICK k \in DOMAIN planned : s = planned[k] /\ s.cell = c
      BY DEF PlannedIn, Range
    <3>2. PICK i \in DOMAIN world.cells : \E passes \in 0..(T - 1) :
              Room(row, world.cells[i], T, passes) /\ s = Slot(row, world.cells[i], passes)
      BY <1>1, <3>1 DEF IsPlan
    <3>3. PICK passes \in 0..(T - 1) :
              Room(row, world.cells[i], T, passes) /\ s = Slot(row, world.cells[i], passes)
      BY <3>2
    <3>4. world.cells[i] = c
      BY <3>1, <3>3 DEF Slot
    <3>5. Cardinality(H) + passes < T
      BY <2>2, <3>3, <3>4 DEF Room
    <3>6. s = [cell |-> c, index |-> N + passes]
      BY <3>3, <3>4 DEF Slot
    <3> HIDE DEF N, H
    <3>7. passes \in Nat
      BY <1>2
    <3>8. N + passes \in N..(top - 1)
      BY <1>2, <2>2, <2>4, <2>5, <2>6, <3>5, <3>7, SMTT(60)
    <3> QED
      BY <3>6, <3>8
  <2>8. /\ IsFiniteSet(Q) /\ Cardinality(Q) \in Nat /\ Cardinality(Q) <= room
    <3>1. N <= top /\ top - N = room
      BY <2>4, <2>5, <2>6
    <3> HIDE DEF Q, N
    <3> QED
      BY <2>4, <2>7, <3>1, SamplesOfCell
  <2> HIDE DEF H, Q
  <2>9. IsFiniteSet(H \cup Q)
        /\ Cardinality(H \cup Q) = Cardinality(H) + Cardinality(Q) - Cardinality(H \cap Q)
    BY <2>2, <2>8, FS_Union
  <2>10. Cardinality(H \cap Q) \in Nat
    BY <2>2, FS_Intersection, FS_CardinalityType
  <2>11. Cardinality(H \cup Q) <= T
    BY <1>2, <2>2, <2>5, <2>8, <2>9, <2>10
  <2> QED
    BY <2>9, <2>11 DEF AtMost, H, Q
<1> QED
  BY <1>4, <1>5 DEF PlanFits, planned, T

(* A list that asks for less fits too.                                     *)
LEMMA LessFits ==
    ASSUME NEW target \in Nat, NEW runs, NEW list, NEW todo, NEW next, NEW rest,
           Fits(list, todo, runs, target),
           \A c \in Cell : OpenIn(next, rest, runs, c) \subseteq OpenIn(list, todo, runs, c)
    PROVE  Fits(next, rest, runs, target)
<1> SUFFICES ASSUME NEW c \in Cell
             PROVE  AtMost(Held(runs, c) \cup OpenIn(next, rest, runs, c), target)
  BY DEF Fits
<1> DEFINE S == Held(runs, c) \cup OpenIn(list, todo, runs, c)
           T == Held(runs, c) \cup OpenIn(next, rest, runs, c)
<1>1. AtMost(S, target) /\ T \subseteq S
  BY DEF Fits
<1> HIDE DEF S, T
<1>2. AtMost(T, target)
  BY <1>1, FewerFit
<1> QED
  BY <1>2 DEF T

(* A list that asks for what is planned fits.                              *)
LEMMA PlannedFits ==
    ASSUME NEW target \in Nat, NEW runs, NEW planned, NEW next, NEW rest,
           PlanFits(planned, runs, target),
           \A c \in Cell : OpenIn(next, rest, runs, c) \subseteq PlannedIn(planned, c)
    PROVE  Fits(next, rest, runs, target)
<1> SUFFICES ASSUME NEW c \in Cell
             PROVE  AtMost(Held(runs, c) \cup OpenIn(next, rest, runs, c), target)
  BY DEF Fits
<1> DEFINE S == Held(runs, c) \cup PlannedIn(planned, c)
           T == Held(runs, c) \cup OpenIn(next, rest, runs, c)
<1>1. AtMost(S, target) /\ T \subseteq S
  BY DEF PlanFits
<1> HIDE DEF S, T
<1>2. AtMost(T, target)
  BY <1>1, FewerFit
<1> QED
  BY <1>2 DEF T

(* A row that is created is one the list asked for, any other step leaves  *)
(* as much or less.                                                        *)
LEMMA RowsFit ==
    ASSUME NEW target \in Nat, DOMAIN row = Sample, DOMAIN row' = Sample,
           NEW p, RowMoves(p), NEW list, NEW todo, Fits(list, todo, row, target),
           pc[p] = "create" => \E i \in DOMAIN list :
               list[i].sample = CurrentSample(p) /\ (Unfinished(list[i]) \/ Queued(i, todo))
    PROVE  Fits(list, todo, row', target)
<1> SUFFICES ASSUME NEW c \in Cell
             PROVE  AtMost(Held(row', c) \cup OpenIn(list, todo, row', c), target)
  BY DEF Fits
<1> DEFINE S == Held(row, c) \cup OpenIn(list, todo, row, c)
           T == Held(row', c) \cup OpenIn(list, todo, row', c)
<1>1. AtMost(S, target)
  BY DEF Fits
<1>2. OpenIn(list, todo, row', c) \subseteq OpenIn(list, todo, row, c)
  BY RowsStay DEF OpenIn
<1>3. ASSUME NEW s \in Held(row', c) PROVE s \in S
  <2>1. s \in Sample /\ s.cell = c /\ row'[s] # Absent
        /\ row'[s] \in {"completed"} \cup Reserved
    BY <1>3 DEF Held, Present, Absent
  <2>2. CASE row[s] = Absent
    <3>1. s = CurrentSample(p) /\ pc[p] = "create"
      BY <2>1, <2>2 DEF RowMoves, RawRunStatus, Absent, Reserved
    <3>2. s \in OpenIn(list, todo, row, c)
      BY <2>1, <2>2, <3>1 DEF OpenIn, HasRow, SamplesOf
    <3> QED
      BY <3>2
  <2>3. CASE row[s] # Absent
    <3>1. row[s] \in {"completed"} \cup Reserved
      BY <2>1, <2>3 DEF RowMoves
    <3> QED
      BY <2>1, <2>3, <3>1 DEF Held, Present, Absent
  <2> QED
    BY <2>2, <2>3
<1>4. T \subseteq S
  BY <1>2, <1>3
<1> HIDE DEF S, T
<1>5. AtMost(T, target)
  BY <1>1, <1>4, FewerFit
<1> QED
  BY <1>5 DEF T

(* What AloneInv asks of a step of p.                                      *)
LEMMA AloneKept ==
    ASSUME NEW p \in Process, DOMAIN world.dir = {p}, world' = world,
           NEW planned, pc'[p] = "open" => plan'[p] = planned,
           AloneAt(manifest'[world.dir[p]], jobs'[p], queue'[p], planned, pc'[p], row',
                   world.target)
    PROVE  AloneInv'
<1>1. AloneAt(manifest'[world.dir[p]], jobs'[p], queue'[p], plan'[p], pc'[p], row', world.target)
  BY DEF AloneAt
<1>2. \A q \in Process : DOMAIN world.dir = {q} => q = p
  OBVIOUS
<1> QED
  BY <1>1, <1>2 DEF AloneInv

(* Every step of the one process there is keeps AloneInv.                  *)
LEMMA StepAlone ==
    ASSUME SuiteInv, SuiteInv', SlotInv, AloneInv, NEW p \in DOMAIN world.dir,
           ProcessStep(p), world' = world, DOMAIN world.dir = {p}
    PROVE  AloneInv'
<1> DEFINE T == world.target
           list == jobs[p]
           todo == queue[p]
           planned == plan[p]
           found == manifest[world.dir[p]]
<1>0. p \in Process /\ world.dir[p] \in Dir /\ T \in Nat /\ DOMAIN row = Sample /\ DOMAIN row' = Sample
      /\ DOMAIN plan = Process /\ DOMAIN manifest = Dir /\ DOMAIN jobs = Process /\ DOMAIN pc = Process
      /\ DOMAIN queue = Process
  BY SuiteAssumption, WorldIs DEF SuiteInv, LedgerInv, AuditInv, SlotInv
<1>1. RowMoves(p)
  BY RowsMove
<1>2. /\ Fits(found, <<>>, row, T) /\ Fits(list, todo, row, T) /\ Covered(list, todo)
      /\ Distinct(found) /\ Distinct(list)
      /\ pc[p] = "open" => PlanFits(planned, row, T) /\ Injective(planned)
      /\ pc[p] = "create" => found = list /\ list[Head(todo)].status = "running"
      /\ pc[p] = "write" => ~Unfinished(list[Head(todo)])
  BY <1>0 DEF AloneInv, AloneAt
<1>3. /\ todo \in Seq(DOMAIN list) /\ IsAudit(list) /\ IsAudit(found) /\ planned \in Seq(Slots)
  BY <1>0 DEF SlotInv, SuiteInv, AuditInv
<1>5. /\ Current(p) = Head(todo) /\ CurrentSample(p) = list[Head(todo)].sample
      /\ todo # <<>> => Head(todo) \in DOMAIN list /\ Queued(Head(todo), todo)
  <2>1. todo # <<>> => Head(todo) \in DOMAIN list /\ Head(todo) = todo[1] /\ 1 \in DOMAIN todo
    BY <1>0, CurrentIs DEF Current
  <2> QED
    BY <2>1 DEF Queued, Current, CurrentSample
<1>6. PlanFits(ReadPlan, row, T) /\ Injective(ReadPlan)
  <2>1. ASSUME NEW c \in Cell PROVE AtMost(Held(row, c), T)
    <3> DEFINE H == Held(row, c)
               S == H \cup OpenIn(found, <<>>, row, c)
    <3>1. AtMost(S, T) /\ H \subseteq S
      BY <1>2 DEF Fits
    <3> HIDE DEF H, S
    <3>2. AtMost(H, T)
      BY <1>0, <3>1, FewerFit
    <3> QED
      BY <3>2 DEF H
  <2> QED
    BY <2>1, ReadPlanFits
<1>7. Covered(<<>>, <<>>) /\ Distinct(<<>>) /\ \A c : OpenIn(<<>>, <<>>, row, c) = {}
  BY DEF Covered, Distinct, OpenIn, SamplesOf
<1>8. ReadPlan \in Seq(Slots)
  BY ReadPlanIs
<1>9. Fits(<<>>, <<>>, row, T)
  <2>1. \A c \in Cell : OpenIn(<<>>, <<>>, row, c) \subseteq OpenIn(list, todo, row, c)
    BY <1>7
  <2> HIDE DEF T, list, todo
  <2> QED
    BY <1>0, <1>2, <2>1, LessFits
<1> HIDE DEF list, todo, planned, found, T
<1>10. CASE Launch(p) \/ PlanFirst(p) \/ Summarise(p) \/ WriteReport(p)
  <2>1. /\ jobs' = jobs /\ queue' = queue /\ manifest' = manifest /\ row' = row
        /\ \/ plan' = [plan EXCEPT ![p] = ReadPlan] /\ pc' = [pc EXCEPT ![p] = "open"]
           \/ \E place \in {"plan", "report", "close"} : pc' = [pc EXCEPT ![p] = place]
    BY <1>10 DEF Launch, PlanFirst, Summarise, WriteReport, Goto, memory, disk, database
  <2>2. PICK place \in {"plan", "open", "report", "close"} :
            /\ pc' = [pc EXCEPT ![p] = place]
            /\ place = "open" => plan'[p] = ReadPlan
    BY <1>0, <2>1
  <2>3. AloneAt(found, list, todo, ReadPlan, place, row', T)
    BY <1>2, <1>6, <2>1 DEF AloneAt
  <2>4. manifest'[world.dir[p]] = found
    BY <2>1 DEF found
  <2>5. jobs'[p] = list /\ queue'[p] = todo /\ pc'[p] = place
    BY <1>0, <2>1, <2>2 DEF list, todo
  <2> QED
    BY <1>0, <2>2, <2>3, <2>4, <2>5, AloneKept DEF T
<1>11. CASE OpenAudit(p)
  <2> DEFINE next == IF found = <<>> THEN AddPlannedJobs(<<>>, planned) ELSE found
             rest == Positions(next, NeedsRecovery)
  <2>1. /\ jobs' = [jobs EXCEPT ![p] = next] /\ queue' = [queue EXCEPT ![p] = rest]
        /\ manifest' = manifest /\ row' = row
        /\ pc' = [pc EXCEPT ![p] = "next"] /\ pc[p] = "open"
    BY <1>11 DEF OpenAudit, Goto, disk, database, found, planned, At
  <2>2. /\ IsAudit(next) /\ Distinct(next)
        /\ \A i \in DOMAIN next : NeedsRecovery(next[i]) => Unfinished(next[i])
    <3>1. CASE found # <<>>
      <4>1. \A i \in DOMAIN found : found[i].status = "completed" => found[i].grade # Ungraded
        <5>1. Honest(found, row, grades) /\ \A s \in Sample : grades[s] \subseteq Snapshot
          BY <1>0 DEF SuiteInv, AuditInv, LedgerInv, found
        <5>2. Ungraded \notin Snapshot
          BY DEF Ungraded, Snapshot
        <5> QED
          BY <5>1, <5>2 DEF Honest
      <4>2. next = found
        BY <3>1
      <4> HIDE DEF next
      <4> QED
        BY <1>2, <1>3, <4>1, <4>2 DEF NeedsRecovery, Unfinished
    <3>2. CASE found = <<>>
      <4>1. IsExtended(AddPlannedJobs(<<>>, planned), <<>>, planned)
        BY <1>3, NoJobs, ExtendedIs
      <4>2. next = AddPlannedJobs(<<>>, planned)
        BY <3>2
      <4>3. Injective(planned)
        BY <1>2, <2>1
      <4>4. DOMAIN <<>> = {}
        OBVIOUS
      <4> HIDE DEF next
      <4>5. IsExtended(next, <<>>, planned)
        BY <4>1, <4>2
      <4>6. \A i \in DOMAIN next : next[i].status = "planned"
        BY <4>4, <4>5 DEF IsExtended
      <4>7. Distinct(next)
        BY <4>3, <4>4, <4>5 DEF IsExtended, Injective, Distinct
      <4> QED
        BY <4>5, <4>6, <4>7 DEF IsExtended, Unfinished
    <3> QED
      BY <3>1, <3>2
  <2>3. Fits(next, <<>>, row, T)
    <3>1. CASE found # <<>>
      BY <1>2, <3>1
    <3>2. CASE found = <<>>
      <4>1. IsExtended(AddPlannedJobs(<<>>, planned), <<>>, planned)
        BY <1>3, NoJobs, ExtendedIs
      <4>2. next = AddPlannedJobs(<<>>, planned)
        BY <3>2
      <4>3. PlanFits(planned, row, T)
        BY <1>2, <2>1
      <4>4. DOMAIN <<>> = {}
        OBVIOUS
      <4> HIDE DEF next
      <4>5. \A i \in DOMAIN next : \E m \in DOMAIN planned : next[i].sample = planned[m]
        BY <4>1, <4>2, <4>4 DEF IsExtended
      <4>6. \A c \in Cell : OpenIn(next, <<>>, row, c) \subseteq PlannedIn(planned, c)
        BY <4>5 DEF OpenIn, PlannedIn, Range
      <4> QED
        BY <1>0, <4>3, <4>6, PlannedFits
    <3> QED
      BY <3>1, <3>2
  <2> HIDE DEF next
  <2>4. IsRecovery(rest, next)
    BY <2>2, RecoveryIs
  <2> HIDE DEF rest
  <2>5. Covered(next, rest)
    BY <2>4 DEF Covered, IsRecovery, NeedsRecovery, Unfinished, Queued
  <2>6. \A i \in DOMAIN next : Queued(i, rest) => Unfinished(next[i])
    BY <2>2, <2>4 DEF IsRecovery, Queued
  <2>7. Fits(next, rest, row, T)
    <3>1. \A c \in Cell : OpenIn(next, rest, row, c) \subseteq OpenIn(next, <<>>, row, c)
      BY <2>6 DEF OpenIn
    <3> QED
      BY <1>0, <2>3, <3>1, LessFits
  <2>8. AloneAt(found, next, rest, planned, "next", row', T)
    BY <1>2, <2>1, <2>2, <2>5, <2>7 DEF AloneAt
  <2>9. manifest'[world.dir[p]] = found /\ jobs'[p] = next /\ queue'[p] = rest /\ pc'[p] = "next"
    BY <1>0, <2>1 DEF found
  <2> QED
    BY <1>0, <2>8, <2>9, AloneKept DEF T
<1>12. CASE BeginJob(p)
  <2>1. PICK next : /\ jobs' = [jobs EXCEPT ![p] = next]
                    /\ Rewritten(next, jobs[p], Current(p), "running", jobs[p][Current(p)].grade)
                    /\ manifest' = [manifest EXCEPT ![world.dir[p]] = next]
    BY <1>12, BeginIs
  <2>2. /\ queue' = queue /\ pc' = [pc EXCEPT ![p] = "create"] /\ row' = row /\ todo # <<>>
    BY <1>12 DEF BeginJob, Goto, database, todo
  <2> DEFINE k == Head(todo)
  <2>3. /\ DOMAIN next = DOMAIN list /\ k \in DOMAIN list /\ Queued(k, todo)
        /\ \A i \in DOMAIN list : next[i].sample = list[i].sample
        /\ \A i \in DOMAIN list : i # k => next[i] = list[i]
        /\ next[k].status = "running"
    BY <1>5, <2>1, <2>2, RewrittenIs DEF Rewritten, list
  <2>4. Covered(next, todo) /\ Distinct(next)
    BY <1>2, <2>3 DEF Covered, Distinct
  <2>5. /\ \A c \in Cell : OpenIn(next, todo, row, c) \subseteq OpenIn(list, todo, row, c)
        /\ \A c \in Cell : OpenIn(next, <<>>, row, c) \subseteq OpenIn(list, todo, row, c)
    <3>1. SamplesOf(next) = SamplesOf(list)
      BY <2>3 DEF SamplesOf
    <3>2. \A i \in DOMAIN next : Unfinished(next[i]) \/ Queued(i, todo) => Queued(i, todo)
      BY <2>4 DEF Covered
    <3>3. \A i : ~Queued(i, <<>>)
      BY DEF Queued
    <3> QED
      BY <2>3, <3>1, <3>2, <3>3 DEF OpenIn
  <2>6. Fits(next, todo, row, T) /\ Fits(next, <<>>, row, T)
    BY <1>0, <1>2, <2>5, LessFits
  <2>7. AloneAt(next, next, todo, planned, "create", row', T)
    BY <2>2, <2>3, <2>4, <2>6 DEF AloneAt
  <2>8. manifest'[world.dir[p]] = next /\ jobs'[p] = next /\ queue'[p] = todo /\ pc'[p] = "create"
    BY <1>0, <2>1, <2>2 DEF todo
  <2> QED
    BY <1>0, <2>7, <2>8, AloneKept DEF T
<1>13. CASE Work(p)
  <2>1. Worked(p)
    BY <1>13, WorkIs
  <2>2. manifest' = manifest /\ queue' = queue /\ todo # <<>>
    BY <1>0, <2>1 DEF Worked, SlotInv, todo
  <2>3. Fits(list, todo, row', T) /\ Fits(found, <<>>, row', T)
    <3>1. pc[p] = "create" => Head(todo) \in DOMAIN list /\ Unfinished(list[Head(todo)])
                              /\ list[Head(todo)].sample = CurrentSample(p) /\ found = list
      BY <1>2, <1>5, <2>2 DEF Unfinished
    <3> QED
      BY <1>0, <1>1, <1>2, <3>1, RowsFit
  <2>4. manifest'[world.dir[p]] = found /\ queue'[p] = todo
    BY <2>2 DEF found, todo
  <2>5. CASE \E place \in WithRow : jobs' = jobs /\ pc' = [pc EXCEPT ![p] = place]
    <3>1. PICK place \in WithRow : jobs' = jobs /\ pc' = [pc EXCEPT ![p] = place]
      BY <2>5
    <3>2. place # "write" /\ place # "open" /\ place # "create"
      BY DEF WithRow
    <3>3. AloneAt(found, list, todo, planned, place, row', T)
      BY <1>2, <2>3, <3>2 DEF AloneAt
    <3>4. jobs'[p] = list /\ pc'[p] = place
      BY <1>0, <3>1 DEF list
    <3> QED
      BY <1>0, <2>4, <3>2, <3>3, <3>4, AloneKept DEF T
  <2>6. CASE \E next, status, grade : Settles(p, next, status, grade)
    <3>1. PICK next, status, grade : Settles(p, next, status, grade)
      BY <2>6
    <3> DEFINE k == Head(todo)
    <3>2. /\ jobs' = [jobs EXCEPT ![p] = next] /\ pc' = [pc EXCEPT ![p] = "write"]
          /\ Rewritten(next, list, k, status, grade)
          /\ status \in {"completed", "failed"} \cup HarnessFailure
      BY <1>5, <3>1 DEF Settles, list
    <3>3. /\ DOMAIN next = DOMAIN list /\ k \in DOMAIN list /\ Queued(k, todo)
          /\ \A i \in DOMAIN list : next[i].sample = list[i].sample
          /\ \A i \in DOMAIN list : i # k => next[i] = list[i]
          /\ next[k].status = status
      BY <1>5, <2>2, <3>2, RewrittenIs DEF Rewritten
    <3>4. Covered(next, todo) /\ Distinct(next) /\ ~Unfinished(next[k])
      BY <1>2, <3>2, <3>3 DEF Covered, Distinct, Unfinished, HarnessFailure
    <3>5. \A c \in Cell : OpenIn(next, todo, row', c) \subseteq OpenIn(list, todo, row', c)
      <4>1. SamplesOf(next) = SamplesOf(list)
        BY <3>3 DEF SamplesOf
      <4>2. \A i \in DOMAIN next : Unfinished(next[i]) \/ Queued(i, todo) => Queued(i, todo)
        BY <3>4 DEF Covered
      <4> QED
        BY <3>3, <4>1, <4>2 DEF OpenIn
    <3>6. Fits(next, todo, row', T)
      BY <1>0, <2>3, <3>5, LessFits
    <3>7. AloneAt(found, next, todo, planned, "write", row', T)
      BY <1>2, <2>3, <3>4, <3>6 DEF AloneAt
    <3>8. jobs'[p] = next /\ pc'[p] = "write"
      BY <1>0, <3>2
    <3> QED
      BY <1>0, <2>4, <3>7, <3>8, AloneKept DEF T
  <2> QED
    BY <2>1, <2>5, <2>6 DEF Worked
<1>14. CASE WriteJob(p)
  <2> DEFINE rest == Tail(todo)
  <2>1. /\ manifest' = [manifest EXCEPT ![world.dir[p]] = list]
        /\ queue' = [queue EXCEPT ![p] = rest]
        /\ jobs' = jobs /\ row' = row /\ pc' = [pc EXCEPT ![p] = "next"] /\ pc[p] = "write"
    BY <1>0, <1>14 DEF WriteJob, Goto, list, todo, SuiteInv, AuditInv, At, database
  <2>2. todo # <<>>
    BY <1>0, <2>1 DEF SlotInv, Busy, todo
  <2>3. \A i : (Queued(i, rest) => Queued(i, todo))
             /\ (Queued(i, todo) /\ i # Head(todo) => Queued(i, rest))
    <3> DEFINE S == DOMAIN list
    <3>1. todo \in Seq(S)
      BY <1>3
    <3> HIDE DEF S
    <3>2. /\ Len(todo) \in Nat /\ Len(todo) # 0 /\ DOMAIN todo = 1..Len(todo)
          /\ DOMAIN rest = 1..(Len(todo) - 1)
          /\ \A m \in 1..(Len(todo) - 1) : rest[m] = todo[m + 1]
          /\ Head(todo) = todo[1]
      BY <2>2, <3>1, HeadTailProperties, LenProperties, EmptySeq
    <3> HIDE DEF rest
    <3>3. \A m \in DOMAIN rest : m + 1 \in DOMAIN todo
      BY <3>2
    <3>4. \A m \in DOMAIN todo : m # 1 => m - 1 \in DOMAIN rest /\ rest[m - 1] = todo[m]
      BY <3>2
    <3> QED
      BY <3>2, <3>3, <3>4 DEF Queued
  <2>4. Covered(list, rest)
    BY <1>2, <2>1, <2>3 DEF Covered
  <2>5. /\ \A c \in Cell : OpenIn(list, rest, row, c) \subseteq OpenIn(list, todo, row, c)
        /\ \A c \in Cell : OpenIn(list, <<>>, row, c) \subseteq OpenIn(list, todo, row, c)
    BY <2>3 DEF OpenIn, Queued
  <2> HIDE DEF rest
  <2>6. Fits(list, rest, row, T) /\ Fits(list, <<>>, row, T)
    BY <1>0, <1>2, <2>5, LessFits
  <2>7. AloneAt(list, list, rest, planned, "next", row', T)
    BY <1>2, <2>1, <2>4, <2>6 DEF AloneAt
  <2>8. manifest'[world.dir[p]] = list /\ jobs'[p] = list /\ queue'[p] = rest /\ pc'[p] = "next"
    BY <1>0, <2>1 DEF list
  <2> QED
    BY <1>0, <2>7, <2>8, AloneKept DEF T
<1>15. CASE TopUp(p)
  <2> DEFINE next == AddPlannedJobs(list, ReadPlan)
             rest == AddedJobs(next, ReadPlan)
  <2>1. /\ jobs' = [jobs EXCEPT ![p] = next] /\ queue' = [queue EXCEPT ![p] = rest]
        /\ manifest' = manifest /\ row' = row /\ pc' = pc /\ pc[p] = "next" /\ todo = <<>>
    <3>1. /\ jobs' = [jobs EXCEPT ![p] = next]
          /\ queue' = [queue EXCEPT ![p] = AddedJobs(jobs'[p], ReadPlan)]
          /\ manifest' = manifest /\ row' = row /\ pc' = pc /\ pc[p] = "next" /\ todo = <<>>
      BY <1>0, <1>15 DEF TopUp, disk, At, list, todo, SuiteInv, AuditInv, database
    <3>2. jobs'[p] = next
      BY <1>0, <3>1
    <3> QED
      BY <3>1, <3>2
  <2>2. IsExtended(next, list, ReadPlan)
    BY <1>3, <1>8, ExtendedIs
  <2> HIDE DEF next
  <2>3. Distinct(next)
    BY <1>2, <1>6, <2>2 DEF IsExtended, Distinct, Injective
  <2>4. IsTopUp(rest, next, ReadPlan)
    <3>1. IsAudit(next) /\ \A m \in DOMAIN ReadPlan : ReadPlan[m] \in SamplesOf(next)
      BY <2>2 DEF IsExtended
    <3> QED
      BY <1>8, <3>1, TopUpIs
  <2> HIDE DEF rest
  <2>5. \A i \in DOMAIN list : ~Unfinished(list[i])
    BY <1>2, <2>1 DEF Covered, Queued
  <2>6. \A i \in DOMAIN next : Unfinished(next[i]) =>
            \E m \in DOMAIN ReadPlan : next[i].sample = ReadPlan[m]
    <3> SUFFICES ASSUME NEW i \in DOMAIN next, Unfinished(next[i])
                 PROVE  \E m \in DOMAIN ReadPlan : next[i].sample = ReadPlan[m]
      OBVIOUS
    <3>1. CASE i \in DOMAIN list
      BY <2>2, <2>5, <3>1 DEF IsExtended
    <3>2. CASE i \notin DOMAIN list
      BY <2>2, <3>2 DEF IsExtended
    <3> QED
      BY <3>1, <3>2
  <2>7. Covered(next, rest)
    BY <2>3, <2>4, <2>6 DEF Covered, IsTopUp, Queued, Distinct
  <2>8. \A i \in DOMAIN next : Queued(i, rest) => Unfinished(next[i])
    BY <2>4 DEF IsTopUp, Queued
  <2>9. \A c \in Cell : OpenIn(next, rest, row, c) \subseteq PlannedIn(ReadPlan, c)
    BY <2>6, <2>8 DEF OpenIn, PlannedIn, Range
  <2>10. Fits(next, rest, row, T)
    BY <1>0, <1>6, <2>9, PlannedFits
  <2>11. AloneAt(found, next, rest, planned, "next", row', T)
    BY <1>2, <2>1, <2>3, <2>7, <2>10 DEF AloneAt
  <2>12. manifest'[world.dir[p]] = found /\ jobs'[p] = next /\ queue'[p] = rest /\ pc'[p] = "next"
    BY <1>0, <2>1 DEF found
  <2> QED
    BY <1>0, <2>11, <2>12, AloneKept DEF T
<1>16. CASE Close(p) \/ Kill(p)
  <2>1. /\ jobs' = [jobs EXCEPT ![p] = <<>>] /\ queue' = [queue EXCEPT ![p] = <<>>]
        /\ pc' = [pc EXCEPT ![p] = "idle"] /\ row' = row /\ "idle" # "open"
        /\ manifest' = manifest \/ manifest' = [manifest EXCEPT ![world.dir[p]] = list]
    BY <1>16 DEF Close, Kill, Forget, Goto, disk, database, list
  <2>2. PICK written \in {found, list} : manifest'[world.dir[p]] = written
    BY <1>0, <2>1 DEF found
  <2>3. Fits(list, <<>>, row, T)
    <3>1. \A c \in Cell : OpenIn(list, <<>>, row, c) \subseteq OpenIn(list, todo, row, c)
      BY DEF OpenIn, Queued
    <3> QED
      BY <1>0, <1>2, <3>1, LessFits
  <2>4. AloneAt(written, <<>>, <<>>, planned, "idle", row', T)
    BY <1>2, <1>7, <1>9, <2>1, <2>3 DEF AloneAt
  <2>5. jobs'[p] = <<>> /\ queue'[p] = <<>> /\ pc'[p] = "idle"
    BY <1>0, <2>1
  <2> QED
    BY <1>0, <2>2, <2>4, <2>5, AloneKept DEF T
<1> QED
  BY <1>10, <1>11, <1>12, <1>13, <1>14, <1>15, <1>16 DEF ProcessStep, Step, Work

(* A suite starts with nothing asked for.                                  *)
LEMMA InitAlone == Init => AloneInv
<1> SUFFICES ASSUME Init, NEW p \in Process, DOMAIN world.dir = {p}
             PROVE  AloneAt(manifest[world.dir[p]], jobs[p], queue[p], plan[p], pc[p], row, world.target)
  BY DEF AloneInv
<1>1. world.target \in Nat /\ world.dir[p] \in Dir
  BY WorldIs DEF Init
<1>2. /\ manifest[world.dir[p]] = <<>> /\ jobs[p] = <<>> /\ queue[p] = <<>> /\ pc[p] = "idle"
      /\ \A s \in Sample : row[s] = Absent /\ DOMAIN row = Sample
  BY <1>1 DEF Init
<1>3. ASSUME NEW c \in Cell PROVE AtMost(Held(row, c) \cup OpenIn(<<>>, <<>>, row, c), world.target)
  <2>1. Held(row, c) \cup OpenIn(<<>>, <<>>, row, c) = {}
    BY DEF Init, Held, Present, OpenIn, SamplesOf, Absent
  <2>2. AtMost({}, world.target)
    BY <1>1, FS_EmptySet DEF AtMost
  <2> QED
    BY <2>1, <2>2
<1>4. Fits(<<>>, <<>>, row, world.target) /\ Covered(<<>>, <<>>) /\ Distinct(<<>>)
  BY <1>3 DEF Fits, Covered, Distinct
<1> QED
  BY <1>2, <1>4 DEF AloneAt

(* Every step of a suite keeps AloneInv.                                   *)
LEMMA NextAlone == SuiteInv /\ SlotInv /\ AloneInv /\ [Next]_vars => AloneInv'
<1> SUFFICES ASSUME SuiteInv, SlotInv, AloneInv, [Next]_vars PROVE AloneInv'
  OBVIOUS
<1>1. SuiteInv' /\ world' = world
  BY NextSuite, WorldStays
<1>2. ASSUME NEW p \in DOMAIN world.dir, ProcessStep(p) PROVE AloneInv'
  <2>1. CASE DOMAIN world.dir = {p}
    BY <1>1, <1>2, <2>1, StepAlone
  <2>2. CASE DOMAIN world.dir # {p}
    <3>1. \A q : DOMAIN world'.dir # {q}
      BY <1>1, <2>2
    <3> QED
      BY <3>1 DEF AloneInv
  <2> QED
    BY <2>1, <2>2
<1>3. CASE UNCHANGED books
  <2>1. UNCHANGED <<world, row, manifest, jobs, plan, queue, pc>>
    BY <1>3 DEF books
  <2> QED
    BY <2>1 DEF AloneInv
<1> QED
  BY <1>2, <1>3, StepIs

(* A suite on its own has no more samples than the target.                 *)
LEMMA AloneBound ==
    ASSUME SuiteInv, SlotInv, AloneInv, Alone, NEW c \in Cell
    PROVE  CompletedCount(row, c) + ActiveCount(row, c) <= world.target
<1>1. PICK p \in Process : DOMAIN world.dir = {p}
  BY DEF Alone
<1> DEFINE H == Held(row, c)
           S == H \cup OpenIn(jobs[p], queue[p], row, c)
<1>2. AtMost(S, world.target) /\ H \subseteq S /\ world.target \in Nat
  BY <1>1, WorldIs DEF AloneInv, AloneAt, Fits, SuiteInv, LedgerInv
<1> HIDE DEF H, S
<1>3. AtMost(H, world.target)
  BY <1>2, FewerFit
<1>4. Bounded(row, c)
  BY DEF SlotInv
<1> QED
  BY <1>3, <1>4, HeldIs DEF AtMost, H

(* NeverOversampled: a cell never gets more samples than the target,       *)
(* completed or in flight, in a suite that has its database for itself and *)
(* in several whose jobs get as far as their row.                          *)
THEOREM TargetsAreKept == Spec => []NeverOversampled
<1> DEFINE Inv == SuiteInv /\ SlotInv /\ GapInv /\ AloneInv
<1>1. Init => Inv
  BY InitSuite, InitSlots, InitGap, InitAlone
<1>2. Inv /\ [Next]_vars => Inv'
  BY NextSuite, NextSlots, NextGap, NextAlone
<1>3. Inv => NeverOversampled
  BY GapBound, AloneBound DEF NeverOversampled
<1> QED
  BY <1>1, <1>2, <1>3, PTL DEF Spec

-----------------------------------------------------------------------------
(* Exit code 0. *)

\* Where a process has its audit in memory.
InMemory == Busy \cup {"next", "report", "close"}

\* The graders used are editions the setting allows.
GradeInv ==
    /\ grader <= world.snapshots
    /\ \A s \in Sample : \A g \in grades[s] : g <= world.snapshots
    /\ \A p \in Process : snapshot[p] <= world.snapshots

\* A job listed as failed has the row that says so.
FailureSealed(list, runs) ==
    \A i \in DOMAIN list : list[i].status \in HarnessFailure =>
        list[i].sample \in Sample /\ runs[list[i].sample] = list[i].status

\* The grades of a list are editions up to n.
GradesUpTo(list, n) == \A i \in DOMAIN list : list[i].grade <= n

\* The rows are those of the manifest, the audit in memory has the jobs of
\* the manifest, and what they say of a failed run is so.
BooksAt(found, list, place, runs, n) ==
    /\ \A s \in Sample : HasRow(s, runs) => s \in SamplesOf(found)
    /\ place \in InMemory => SamplesOf(found) \subseteq SamplesOf(list)
    /\ FailureSealed(found, runs) /\ FailureSealed(list, runs)
    /\ GradesUpTo(found, n) /\ GradesUpTo(list, n)

\* The books of a suite on its own.
BookInv ==
    \A p \in Process : DOMAIN world.dir = {p} =>
        BooksAt(manifest[world.dir[p]], jobs[p], pc[p], row, world.snapshots)

(* A suite starts with the first edition of the grader.                    *)
LEMMA InitGrade == Init => GradeInv
<1> SUFFICES ASSUME Init PROVE GradeInv
  OBVIOUS
<1>1. world.snapshots \in 1..MaxSnapshot /\ MaxSnapshot \in Nat
  BY WorldSnapshots, SuiteAssumption DEF Init
<1>2. 1 <= world.snapshots
  BY <1>1
<1>3. grader = 1 /\ (\A s \in Sample : grades[s] = {}) /\ \A p \in Process : snapshot[p] = 1
  BY DEF Init
<1> QED
  BY <1>2, <1>3 DEF GradeInv

(* Every step of a process keeps GradeInv.                                 *)
LEMMA StepGrade ==
    ASSUME SuiteInv, GradeInv, NEW p \in DOMAIN world.dir, ProcessStep(p), world' = world
    PROVE  GradeInv'
<1>0. /\ p \in Process /\ snapshot \in [Process -> Snapshot] /\ grades \in [Sample -> SUBSET Snapshot]
      /\ 1 <= world.snapshots
  BY WorldSnapshots, SuiteAssumption DEF SuiteInv, LedgerInv, IsWorld
<1>1. grader' = grader
  BY DEF ProcessStep, Step, Launch, PlanFirst, OpenAudit, BeginJob, Create, Start, Mark, Seal,
         CheckGrades, StoreGrade, WriteJob, TopUp, Summarise, WriteReport, Close, JobThrows, Kill
<1>2. \/ snapshot' = snapshot \/ snapshot' = [snapshot EXCEPT ![p] = grader]
      \/ snapshot' = [snapshot EXCEPT ![p] = 1]
  BY DEF ProcessStep, Step, Launch, PlanFirst, OpenAudit, BeginJob, Create, Start, Mark, Seal,
         CheckGrades, StoreGrade, WriteJob, TopUp, Summarise, WriteReport, Close, JobThrows, Kill,
         memory, Forget
<1>3. \A q \in Process : snapshot'[q] <= world.snapshots
  BY <1>0, <1>2 DEF GradeInv
<1>4. grades' = grades \/ \E s : grades' = [grades EXCEPT ![s] = @ \cup {snapshot[p]}]
  <2>1. StoreGrade(p) \/ grades' = grades
    BY JudgeSteps DEF ProcessStep
  <2> QED
    BY <2>1 DEF StoreGrade, CreateGrade
<1>5. \A s \in Sample : \A g \in grades'[s] : g <= world.snapshots
  BY <1>0, <1>4 DEF GradeInv
<1> QED
  BY <1>1, <1>3, <1>5 DEF GradeInv

(* Every step of a suite keeps GradeInv.                                   *)
LEMMA NextGrade == SuiteInv /\ GradeInv /\ [Next]_vars => GradeInv'
<1> SUFFICES ASSUME SuiteInv, GradeInv, [Next]_vars PROVE GradeInv'
  OBVIOUS
<1>1. world' = world
  BY WorldStays
<1>2. CASE EditGrader
  <2>1. grader' <= world.snapshots
    <3>1. world.snapshots \in Nat /\ grader \in Nat
      BY WorldIs DEF SuiteInv, LedgerInv, Snapshot
    <3>2. grader < world.snapshots /\ grader' = grader + 1
      BY <1>2 DEF EditGrader
    <3> QED
      BY <3>1, <3>2
  <2>2. grades' = grades /\ snapshot' = snapshot
    BY <1>2 DEF EditGrader, database, memory
  <2> QED
    BY <1>1, <2>1, <2>2 DEF GradeInv
<1>3. CASE UNCHANGED vars
  BY <1>3 DEF vars, GradeInv
<1> QED
  BY <1>1, <1>2, <1>3, StepGrade DEF Next, ProcessStep

(* What the books know stays so when the rows move.                        *)
LEMMA SealedStays ==
    ASSUME NEW p, RowMoves(p), NEW list, FailureSealed(list, row)
    PROVE  FailureSealed(list, row')
  BY RowsStay DEF FailureSealed, HarnessFailure, Reserved, Absent

(* What BookInv asks of a step of p.                                       *)
LEMMA BooksKept ==
    ASSUME NEW p \in Process, DOMAIN world.dir = {p}, world' = world,
           BooksAt(manifest'[world.dir[p]], jobs'[p], pc'[p], row', world.snapshots)
    PROVE  BookInv'
<1>1. \A q \in Process : DOMAIN world.dir = {q} => q = p
  OBVIOUS
<1> QED
  BY <1>1 DEF BookInv

(* A plan taken over adds jobs without a grade.                            *)
LEMMA ExtendedBooks ==
    ASSUME NEW all, NEW list, NEW planned, IsExtended(all, list, planned), NEW runs, NEW n,
           0 <= n, FailureSealed(list, runs), GradesUpTo(list, n)
    PROVE  /\ FailureSealed(all, runs) /\ GradesUpTo(all, n)
           /\ SamplesOf(list) \subseteq SamplesOf(all)
<1>1. \A i \in DOMAIN list : i \in DOMAIN all /\ all[i].sample = list[i].sample
  BY DEF IsExtended
<1>2. \A i \in DOMAIN all : \/ i \in DOMAIN list /\ all[i] = list[i]
                            \/ i \in DOMAIN list /\ all[i].status = "planned" /\ all[i].grade = list[i].grade
                            \/ all[i].status = "planned" /\ all[i].grade = Ungraded
  BY DEF IsExtended
<1>3. FailureSealed(all, runs)
  BY <1>2 DEF FailureSealed, HarnessFailure
<1>4. GradesUpTo(all, n)
  BY <1>2 DEF GradesUpTo, Ungraded
<1> QED
  BY <1>1, <1>3, <1>4 DEF SamplesOf

(* Every step of the one process there is keeps BookInv.                   *)
LEMMA StepBooks ==
    ASSUME SuiteInv, SuiteInv', SlotInv, AloneInv, GradeInv, BookInv, NEW p \in DOMAIN world.dir,
           ProcessStep(p), world' = world, DOMAIN world.dir = {p}
    PROVE  BookInv'
<1> DEFINE N == world.snapshots
           list == jobs[p]
           todo == queue[p]
           planned == plan[p]
           found == manifest[world.dir[p]]
<1>0. /\ p \in Process /\ world.dir[p] \in Dir /\ N \in Nat /\ 0 <= N
      /\ DOMAIN row = Sample /\ DOMAIN row' = Sample
      /\ DOMAIN plan = Process /\ DOMAIN manifest = Dir /\ DOMAIN jobs = Process /\ DOMAIN pc = Process
  <2>1. N \in Nat /\ p \in Process /\ world.dir[p] \in Dir
    BY SuiteAssumption, WorldIs DEF SuiteInv, LedgerInv
  <2>2. 0 <= N
    BY <2>1
  <2> QED
    BY <2>1, <2>2 DEF SuiteInv, LedgerInv, AuditInv, SlotInv
<1>1. RowMoves(p)
  BY RowsMove
<1>2. /\ \A s \in Sample : HasRow(s, row) => s \in SamplesOf(found)
      /\ pc[p] \in InMemory => SamplesOf(found) \subseteq SamplesOf(list)
      /\ FailureSealed(found, row) /\ FailureSealed(list, row)
      /\ GradesUpTo(found, N) /\ GradesUpTo(list, N)
  BY <1>0 DEF BookInv, BooksAt
<1>3. /\ IsAudit(list) /\ IsAudit(found) /\ planned \in Seq(Slots)
      /\ grader <= N /\ snapshot[p] <= N
      /\ pc[p] = "create" => found = list
  BY <1>0 DEF SlotInv, SuiteInv, AuditInv, GradeInv, AloneInv, AloneAt
<1>4. FailureSealed(<<>>, row) /\ GradesUpTo(<<>>, N) /\ SamplesOf(<<>>) = {}
  BY DEF FailureSealed, GradesUpTo, SamplesOf
<1>5. ReadPlan \in Seq(Slots)
  BY ReadPlanIs
<1>6. /\ Current(p) = Head(todo) /\ CurrentSample(p) = list[Current(p)].sample
      /\ pc[p] \in Busy => Current(p) \in DOMAIN list
  BY <1>0, CurrentIs DEF Current, CurrentSample, SlotInv
<1> HIDE DEF list, todo, planned, found, N
<1>7. CASE Launch(p) \/ PlanFirst(p) \/ Summarise(p) \/ WriteReport(p)
  <2>1. /\ jobs' = jobs /\ manifest' = manifest /\ row' = row
        /\ \/ \E place \in {"plan", "open"} : pc' = [pc EXCEPT ![p] = place]
           \/ pc[p] \in InMemory /\ \E place : pc' = [pc EXCEPT ![p] = place]
    BY <1>7 DEF Launch, PlanFirst, Summarise, WriteReport, Goto, memory, disk, database, InMemory, At
  <2>2. jobs'[p] = list /\ manifest'[world.dir[p]] = found
    BY <2>1 DEF list, found
  <2>3. pc'[p] \in InMemory => pc[p] \in InMemory
    BY <1>0, <2>1 DEF InMemory, Busy, WithRow
  <2>4. BooksAt(found, list, pc'[p], row', N)
    BY <1>2, <2>1, <2>3 DEF BooksAt
  <2> QED
    BY <1>0, <2>2, <2>4, BooksKept DEF N
<1>8. CASE OpenAudit(p)
  <2> DEFINE next == IF found = <<>> THEN AddPlannedJobs(<<>>, planned) ELSE found
  <2>1. jobs'[p] = next /\ manifest'[world.dir[p]] = found /\ row' = row
    BY <1>0, <1>8 DEF OpenAudit, disk, database, found, planned
  <2>2. /\ FailureSealed(next, row) /\ GradesUpTo(next, N)
        /\ SamplesOf(found) \subseteq SamplesOf(next)
    <3>1. CASE found # <<>>
      BY <1>2, <3>1
    <3>2. CASE found = <<>>
      <4>1. IsExtended(AddPlannedJobs(<<>>, planned), <<>>, planned)
        BY <1>3, NoJobs, ExtendedIs
      <4> QED
        BY <1>0, <1>4, <3>2, <4>1, ExtendedBooks
    <3> QED
      BY <3>1, <3>2
  <2> HIDE DEF next
  <2>3. BooksAt(found, next, pc'[p], row', N)
    BY <1>2, <2>1, <2>2 DEF BooksAt
  <2> QED
    BY <1>0, <2>1, <2>3, BooksKept DEF N
<1>9. CASE BeginJob(p)
  <2>1. PICK next : /\ jobs' = [jobs EXCEPT ![p] = next]
                    /\ Rewritten(next, jobs[p], Current(p), "running", jobs[p][Current(p)].grade)
                    /\ manifest' = [manifest EXCEPT ![world.dir[p]] = next]
    BY <1>9, BeginIs
  <2>2. jobs'[p] = next /\ manifest'[world.dir[p]] = next /\ row' = row /\ pc[p] \in InMemory
    BY <1>0, <1>9, <2>1 DEF BeginJob, database, At, InMemory
  <2>3. /\ DOMAIN next = DOMAIN list
        /\ \A i \in DOMAIN list : /\ next[i].sample = list[i].sample /\ next[i].grade = list[i].grade
                                  /\ next[i].status = "running" \/ next[i].status = list[i].status
    BY <2>1, RewrittenIs DEF Rewritten, list
  <2>4. SamplesOf(next) = SamplesOf(list) /\ FailureSealed(next, row) /\ GradesUpTo(next, N)
    BY <1>2, <2>3 DEF SamplesOf, FailureSealed, GradesUpTo, HarnessFailure
  <2>5. BooksAt(next, next, pc'[p], row', N)
    BY <1>2, <2>2, <2>4 DEF BooksAt
  <2> QED
    BY <1>0, <2>2, <2>5, BooksKept DEF N
<1>10. CASE Work(p)
  <2>1. Worked(p)
    BY <1>10, WorkIs
  <2>2. manifest'[world.dir[p]] = found /\ pc[p] \in Busy /\ pc[p] \in InMemory
    BY <2>1 DEF Worked, found, InMemory
  <2>3. FailureSealed(found, row') /\ FailureSealed(list, row')
    BY <1>1, <1>2, SealedStays
  <2>4. ASSUME NEW s \in Sample, HasRow(s, row') PROVE s \in SamplesOf(found)
    <3>1. CASE HasRow(s, row)
      BY <1>2, <3>1
    <3>2. CASE ~HasRow(s, row)
      <4>1. s = CurrentSample(p) /\ pc[p] = "create"
        BY <1>1, <2>4, <3>2, RowsStay
      <4> QED
        BY <1>3, <1>6, <2>2, <4>1 DEF SamplesOf
    <3> QED
      BY <3>1, <3>2
  <2>5. /\ SamplesOf(jobs'[p]) = SamplesOf(list) /\ FailureSealed(jobs'[p], row')
        /\ GradesUpTo(jobs'[p], N)
    <3>1. CASE jobs' = jobs
      BY <1>2, <2>3, <3>1 DEF list
    <3>2. CASE \E next, status, grade : Settles(p, next, status, grade)
      <4>1. PICK next, status, grade : Settles(p, next, status, grade)
        BY <3>2
      <4> DEFINE k == Current(p)
      <4>2. /\ jobs'[p] = next /\ Rewritten(next, list, k, status, grade)
            /\ status \in HarnessFailure => CurrentSample(p) \in Sample
                                            /\ row'[CurrentSample(p)] = status
            /\ grade \in {Ungraded, grader, snapshot[p], list[k].grade}
        BY <1>0, <4>1 DEF Settles, list
      <4>3. k \in DOMAIN list /\ list[k].sample = CurrentSample(p)
        BY <1>6, <2>2
      <4> HIDE DEF k
      <4>4. /\ DOMAIN next = DOMAIN list /\ \A i \in DOMAIN list : next[i].sample = list[i].sample
            /\ \A i \in DOMAIN list : i # k => next[i] = list[i]
            /\ next[k].status = status /\ next[k].grade = grade
        BY <4>2, <4>3, RewrittenIs DEF Rewritten
      <4>5. FailureSealed(next, row')
        BY <2>3, <4>2, <4>3, <4>4 DEF FailureSealed
      <4>6. grade <= N
        BY <1>0, <1>2, <1>3, <4>2, <4>3 DEF GradesUpTo, Ungraded
      <4>7. GradesUpTo(next, N)
        BY <1>2, <4>4, <4>6 DEF GradesUpTo
      <4>8. SamplesOf(next) = SamplesOf(list)
        BY <4>4 DEF SamplesOf
      <4> QED
        BY <4>2, <4>5, <4>7, <4>8
    <3> QED
      BY <2>1, <3>1, <3>2 DEF Worked
  <2>6. BooksAt(found, jobs'[p], pc'[p], row', N)
    BY <1>2, <2>2, <2>3, <2>4, <2>5 DEF BooksAt
  <2> QED
    BY <1>0, <2>2, <2>6, BooksKept DEF N
<1>11. CASE WriteJob(p)
  <2>1. manifest'[world.dir[p]] = list /\ jobs'[p] = list /\ row' = row /\ pc[p] \in InMemory
    BY <1>0, <1>11 DEF WriteJob, list, At, database, InMemory, Busy
  <2>2. BooksAt(list, list, pc'[p], row', N)
    BY <1>2, <2>1 DEF BooksAt
  <2> QED
    BY <1>0, <2>1, <2>2, BooksKept DEF N
<1>12. CASE TopUp(p)
  <2> DEFINE next == AddPlannedJobs(list, ReadPlan)
  <2>1. jobs'[p] = next /\ manifest'[world.dir[p]] = found /\ row' = row /\ pc[p] \in InMemory
    BY <1>0, <1>12 DEF TopUp, disk, At, list, found, database, InMemory
  <2>2. IsExtended(next, list, ReadPlan)
    BY <1>3, <1>5, ExtendedIs
  <2> HIDE DEF next
  <2>3. /\ FailureSealed(next, row) /\ GradesUpTo(next, N)
        /\ SamplesOf(list) \subseteq SamplesOf(next)
    BY <1>0, <1>2, <2>2, ExtendedBooks
  <2>4. BooksAt(found, next, pc'[p], row', N)
    BY <1>2, <2>1, <2>3 DEF BooksAt
  <2> QED
    BY <1>0, <2>1, <2>4, BooksKept DEF N
<1>13. CASE Close(p) \/ Kill(p)
  <2>1. /\ jobs'[p] = <<>> /\ pc'[p] = "idle" /\ row' = row
        /\ \/ manifest'[world.dir[p]] = found
           \/ manifest'[world.dir[p]] = list /\ pc[p] \in InMemory
    BY <1>0, <1>13 DEF Close, Kill, Forget, Goto, disk, database, list, found, At, InMemory
  <2>2. "idle" \notin InMemory
    BY DEF InMemory, Busy, WithRow
  <2>3. BooksAt(manifest'[world.dir[p]], <<>>, "idle", row', N)
    BY <1>2, <1>4, <2>1, <2>2 DEF BooksAt
  <2> QED
    BY <1>0, <2>1, <2>3, BooksKept DEF N
<1> QED
  BY <1>7, <1>8, <1>9, <1>10, <1>11, <1>12, <1>13 DEF ProcessStep, Step, Work

(* Every step of a suite keeps BookInv.                                    *)
LEMMA NextBooks ==
    SuiteInv /\ SlotInv /\ AloneInv /\ GradeInv /\ BookInv /\ [Next]_vars => BookInv'
<1> SUFFICES ASSUME SuiteInv, SlotInv, AloneInv, GradeInv, BookInv, [Next]_vars PROVE BookInv'
  OBVIOUS
<1>1. SuiteInv' /\ world' = world
  BY NextSuite, WorldStays
<1>2. ASSUME NEW p \in DOMAIN world.dir, ProcessStep(p) PROVE BookInv'
  <2>1. CASE DOMAIN world.dir = {p}
    BY <1>1, <1>2, <2>1, StepBooks
  <2>2. CASE DOMAIN world.dir # {p}
    <3>1. \A q : DOMAIN world'.dir # {q}
      BY <1>1, <2>2
    <3> QED
      BY <3>1 DEF BookInv
  <2> QED
    BY <2>1, <2>2
<1>3. CASE UNCHANGED books
  <2>1. UNCHANGED <<world, row, manifest, jobs, pc>>
    BY <1>3 DEF books
  <2> QED
    BY <2>1 DEF BookInv
<1> QED
  BY <1>2, <1>3, StepIs

(* A suite starts with an empty manifest and no rows.                      *)
LEMMA InitBooks == Init => BookInv
<1> SUFFICES ASSUME Init, NEW p \in Process, DOMAIN world.dir = {p}
             PROVE  BooksAt(manifest[world.dir[p]], jobs[p], pc[p], row, world.snapshots)
  BY DEF BookInv
<1>1. world.dir[p] \in Dir
  BY WorldIs DEF Init
<1>2. manifest[world.dir[p]] = <<>> /\ jobs[p] = <<>> /\ \A s \in Sample : row[s] = Absent
  BY <1>1 DEF Init
<1> QED
  BY <1>2 DEF BooksAt, HasRow, FailureSealed, GradesUpTo

\* What exit code 0 says of the rows, the Grades and the report.
Finished(runs, given, rep, w) ==
    /\ \A k \in DOMAIN w.cells : CompletedCount(runs, w.cells[k]) = w.target
    /\ \A s \in Sample : runs[s] = "completed" =>
          /\ given[s] # {}
          /\ w.snapshots = 1 => s \in rep.graded

\* The last plan was empty because every cell is full.
Full(runs, w) ==
    \A k \in DOMAIN w.cells :
        ~(CompletedCount(runs, w.cells[k]) + ActiveCount(runs, w.cells[k]) < w.target)

\* The report counts every graded sample of the audit.
Reported(list, given, rep) ==
    (\E i \in DOMAIN list : list[i].grade # Ungraded) =>
        \A s \in SamplesOf(list) \cap Sample : given[s] # {} => s \in rep.graded

\* What a suite knows the closer it gets to its exit code: the queue is empty,
\* the cells are full, the report is complete.
DoneAt(place, list, todo, planned, runs, given, rep, code, w) ==
    /\ place \in {"report", "close"} => todo = <<>>
    /\ place \in {"report", "close"} /\ planned = <<>> => Full(runs, w)
    /\ place = "close" /\ w.snapshots = 1 => Reported(list, given, rep)
    /\ code = "0" => place = "idle" /\ Finished(runs, given, rep, w)

\* The end of a suite on its own.
DoneInv ==
    \A p \in Process : DOMAIN world.dir = {p} =>
        DoneAt(pc[p], jobs[p], queue[p], plan[p], row, grades, report[world.dir[p]], exit[p],
               world)

(* What DoneInv asks of a step of p.                                       *)
LEMMA DoneKept ==
    ASSUME NEW p \in Process, DOMAIN world.dir = {p}, world' = world,
           DoneAt(pc'[p], jobs'[p], queue'[p], plan'[p], row', grades', report'[world.dir[p]],
                  exit'[p], world)
    PROVE  DoneInv'
<1>1. \A q \in Process : DOMAIN world.dir = {q} => q = p
  OBVIOUS
<1> QED
  BY <1>1 DEF DoneInv

(* An empty plan means that every cell is full.                            *)
LEMMA EmptyPlan ==
    ASSUME SuiteInv, SlotInv, ReadPlan = <<>>
    PROVE  Full(row, world)
<1>1. IsPlan(ReadPlan, Cell, row, world.cells, world.target)
  BY ReadPlanIs
<1>2. world.cells \in Seq(Cell) /\ world.target \in Nat \ {0}
  BY SuiteAssumption DEF IsWorld, SuiteInv, LedgerInv
<1> SUFFICES ASSUME NEW k \in DOMAIN world.cells,
                    CompletedCount(row, world.cells[k]) + ActiveCount(row, world.cells[k]) < world.target
             PROVE  FALSE
  BY DEF Full
<1> DEFINE c == world.cells[k]
<1>3. c \in Cell
  BY <1>2, ElementOfSeq, LenProperties
<1>4. CompletedCount(row, c) \in Nat /\ ActiveCount(row, c) \in Nat
  BY <1>3, CountsOf DEF SlotInv
<1>5. Room(row, c, world.target, 0) /\ 0 \in 0..(world.target - 1)
  BY <1>2, <1>4 DEF Room
<1>6. \E m \in DOMAIN ReadPlan : TRUE
  BY <1>1, <1>5 DEF IsPlan
<1> QED
  BY <1>6

(* The report of a suite whose grader file never changes is complete.      *)
LEMMA ReportIs ==
    ASSUME SuiteInv, GradeInv, BookInv, NEW p \in DOMAIN world.dir, DOMAIN world.dir = {p},
           WriteReport(p), report = [d \in Dir |-> report[d]], world.snapshots = 1
    PROVE  Reported(jobs[p], grades, report'[world.dir[p]])
<1> DEFINE list == jobs[p]
           P == {i \in DOMAIN list : list[i].grade # Ungraded}
           graded == Graded(list)
<1>0. /\ p \in Process /\ world.dir[p] \in Dir /\ IsAudit(list)
      /\ grades \in [Sample -> SUBSET Snapshot] /\ GradesUpTo(list, 1)
  BY SuiteAssumption, WorldIs DEF SuiteInv, LedgerInv, AuditInv, BookInv, BooksAt
<1>1. PICK S : list \in Seq(S)
  BY <1>0 DEF IsAudit
<1>2. graded \in Seq(S) /\ KeptFrom(graded, list, P)
  <2>1. P \in SUBSET (1..Len(list)) /\ graded = Filter(list, P)
    BY <1>1, LenProperties DEF Graded
  <2> HIDE DEF P, graded, list
  <2> QED
    BY <1>1, <2>1, FilterKeeps
<1> SUFFICES ASSUME NEW i \in DOMAIN list, list[i].grade # Ungraded,
                    NEW s \in SamplesOf(list) \cap Sample, grades[s] # {}
             PROVE  s \in report'[world.dir[p]].graded
  BY DEF Reported
<1>3. i \in P
  OBVIOUS
<1> HIDE DEF graded
<1>4. DOMAIN graded = 1..Len(graded) /\ Len(graded) \in Nat
  BY <1>2, LenProperties
<1>5. graded # <<>> /\ 1 \in DOMAIN graded
  <2>1. PICK k \in DOMAIN graded : graded[k] = list[i]
    BY <1>2, <1>3 DEF KeptFrom
  <2> QED
    BY <1>4, <2>1
<1>6. PICK h \in P : graded[1] = list[h]
  BY <1>2, <1>5 DEF KeptFrom
<1>7. graded[1].grade = 1
  <2>1. list[h].grade \in Snapshot \cup {Ungraded} /\ list[h].grade # Ungraded /\ list[h].grade <= 1
    BY <1>0, <1>6, AuditIs DEF GradesUpTo
  <2> QED
    BY <1>6, <2>1 DEF Snapshot
<1>8. 1 \in grades[s]
  <2>1. PICK g \in grades[s] : TRUE
    OBVIOUS
  <2>2. g \in Snapshot /\ g <= 1
    BY <1>0, <2>1 DEF GradeInv
  <2>3. g = 1
    BY <2>2 DEF Snapshot
  <2> QED
    BY <2>3
<1>9. report' = [report EXCEPT ![world.dir[p]] =
                     [runs |-> SamplesOf(list),
                      graded |-> {x \in SamplesOf(list) : graded[1].grade \in grades[x]}]]
  BY <1>5 DEF WriteReport, graded
<1>10. report'[world.dir[p]].graded = {x \in SamplesOf(list) : graded[1].grade \in grades[x]}
  BY <1>0, <1>9
<1> QED
  BY <1>7, <1>8, <1>10

(* A suite on its own that closes with exit code 0 is done.                *)
LEMMA ClosedIsFinished ==
    ASSUME SuiteInv, SlotInv, AloneInv, BookInv, DoneInv, NEW p \in DOMAIN world.dir,
           DOMAIN world.dir = {p}, pc[p] = "close", ExitCode(jobs[p], plan[p]) = "0"
    PROVE  Finished(row, grades, report[world.dir[p]], world)
<1> DEFINE list == jobs[p]
           found == manifest[world.dir[p]]
<1>0. /\ p \in Process /\ world.dir[p] \in Dir /\ IsAudit(list) /\ world.cells \in Seq(Cell)
      /\ world.target \in Nat /\ grades \in [Sample -> SUBSET Snapshot]
      /\ row \in [Sample -> RawRunStatus \cup {Absent}]
  BY SuiteAssumption, WorldIs DEF SuiteInv, LedgerInv, AuditInv
<1>1. plan[p] = <<>> /\ \A i \in DOMAIN list : list[i].status # "failed"
  BY DEF ExitCode
<1>2. /\ queue[p] = <<>> /\ Full(row, world)
      /\ world.snapshots = 1 => Reported(list, grades, report[world.dir[p]])
  BY <1>0, <1>1 DEF DoneInv, DoneAt
<1>3. /\ Covered(list, queue[p]) /\ Honest(list, row, grades) /\ FailureSealed(list, row)
      /\ \A s \in Sample : HasRow(s, row) => s \in SamplesOf(list)
  BY <1>0 DEF AloneInv, AloneAt, SuiteInv, AuditInv, BookInv, BooksAt, InMemory
<1>4. \A i \in DOMAIN list : list[i].status \in {"completed"} \cup HarnessFailure
  <2>1. \A i \in DOMAIN list : list[i].status \in JobStatus
    BY <1>0, AuditIs
  <2>2. \A i \in DOMAIN list : ~Unfinished(list[i])
    BY <1>2, <1>3 DEF Covered, Queued
  <2> QED
    BY <1>1, <2>1, <2>2 DEF JobStatus, Unfinished, HarnessFailure
<1>5. ASSUME NEW s \in Sample, row[s] # Absent
      PROVE  \/ row[s] \in HarnessFailure
             \/ row[s] = "completed" /\ \E i \in DOMAIN list :
                   list[i].sample = s /\ list[i].grade \in grades[s]
  <2>1. PICK i \in DOMAIN list : list[i].sample = s
    BY <1>3, <1>5 DEF HasRow, SamplesOf
  <2> QED
    BY <1>3, <1>4, <2>1 DEF Honest, FailureSealed
<1>6. ASSUME NEW k \in DOMAIN world.cells
      PROVE  CompletedCount(row, world.cells[k]) = world.target
  <2> DEFINE c == world.cells[k]
  <2>1. c \in Cell
    BY <1>0, ElementOfSeq, LenProperties
  <2> HIDE DEF c
  <2>2. CompletedCount(row, c) + ActiveCount(row, c) <= world.target
    <3>1. Alone
      BY <1>0 DEF Alone
    <3> QED
      BY <2>1, <3>1, AloneBound
  <2>3. CompletedCount(row, c) \in Nat
    BY <2>1, CountsOf DEF SlotInv
  <2>4. ActiveCount(row, c) = 0
    <3>1. {s \in Present(row, c) : row[s] \in Reserved} = {}
      BY <1>0, <1>5 DEF Present, Reserved, HarnessFailure, Absent
    <3> QED
      BY <3>1, FS_EmptySet DEF ActiveCount, CountIn
  <2>5. ~(CompletedCount(row, c) + ActiveCount(row, c) < world.target)
    BY <1>2 DEF Full, c
  <2>6. CompletedCount(row, c) = world.target
    BY <1>0, <2>2, <2>3, <2>4, <2>5
  <2> QED
    BY <2>6 DEF c
<1>7. ASSUME NEW s \in Sample, row[s] = "completed"
      PROVE  grades[s] # {} /\ (world.snapshots = 1 => s \in report[world.dir[p]].graded)
  <2>1. PICK i \in DOMAIN list : list[i].sample = s /\ list[i].grade \in grades[s]
    BY <1>5, <1>7 DEF Absent, HarnessFailure
  <2>2. list[i].grade # Ungraded
    BY <1>0, <2>1 DEF Ungraded, Snapshot
  <2>3. s \in SamplesOf(list) \cap Sample
    BY <2>1 DEF SamplesOf
  <2> QED
    BY <1>2, <2>1, <2>2, <2>3 DEF Reported
<1> QED
  BY <1>6, <1>7 DEF Finished

(* The steps that have nothing to do with the end of a suite.              *)
LEMMA OtherSteps ==
    ASSUME SuiteInv, SlotInv, NEW p \in DOMAIN world.dir, ProcessStep(p)
    PROVE  \/ Summarise(p) \/ WriteReport(p) \/ Close(p)
           \/ /\ pc'[p] \notin {"report", "close"}
              /\ exit'[p] \in {"none", "1"} \/ (pc[p] # "idle" /\ exit' = exit)
<1>0. p \in Process /\ DOMAIN pc = Process /\ DOMAIN exit = Process
  BY SuiteAssumption DEF SuiteInv, LedgerInv, AuditInv, IsWorld, SlotInv
<1>1. CASE Launch(p) \/ Kill(p)
  BY <1>0, <1>1 DEF Launch, Kill, Goto
<1>2. CASE PlanFirst(p) \/ OpenAudit(p) \/ BeginJob(p) \/ WriteJob(p) \/ TopUp(p)
  BY <1>0, <1>2 DEF PlanFirst, OpenAudit, BeginJob, WriteJob, TopUp, Goto, At
<1>3. CASE Work(p)
  <2>1. Worked(p)
    BY <1>3, WorkIs
  <2>2. exit' = exit /\ pc[p] # "idle"
    BY <2>1 DEF Worked, Busy, WithRow
  <2>3. pc'[p] \in WithRow \cup {"write"}
    BY <1>0, <2>1 DEF Worked, Settles
  <2> QED
    BY <2>2, <2>3 DEF WithRow
<1> QED
  BY <1>1, <1>2, <1>3 DEF ProcessStep, Step, Work

(* Every step of the one process there is keeps DoneInv.                   *)
LEMMA StepDone ==
    ASSUME SuiteInv, SlotInv, AloneInv, GradeInv, BookInv, DoneInv, NEW p \in DOMAIN world.dir,
           ProcessStep(p), world' = world, DOMAIN world.dir = {p},
           report = [d \in Dir |-> report[d]]
    PROVE  DoneInv'
<1>0. /\ p \in Process /\ world.dir[p] \in Dir
      /\ DOMAIN pc = Process /\ DOMAIN exit = Process /\ DOMAIN plan = Process
  BY SuiteAssumption DEF SuiteInv, LedgerInv, AuditInv, IsWorld, SlotInv
<1>1. /\ pc[p] \in {"report", "close"} => queue[p] = <<>>
      /\ pc[p] \in {"report", "close"} /\ plan[p] = <<>> => Full(row, world)
      /\ exit[p] = "0" => pc[p] = "idle"
  BY <1>0 DEF DoneInv, DoneAt
<1>2. CASE Summarise(p)
  <2>1. /\ pc'[p] = "report" /\ pc[p] = "next" /\ queue' = queue /\ queue[p] = <<>>
        /\ plan'[p] = ReadPlan /\ row' = row /\ exit' = exit
    BY <1>0, <1>2 DEF Summarise, Goto, At, database
  <2>2. ReadPlan = <<>> => Full(row, world)
    BY EmptyPlan
  <2> QED
    BY <1>0, <1>1, <2>1, <2>2, DoneKept DEF DoneAt
<1>3. CASE WriteReport(p)
  <2>1. /\ pc'[p] = "close" /\ pc[p] = "report" /\ queue' = queue /\ plan' = plan /\ jobs' = jobs
        /\ row' = row /\ grades' = grades /\ exit' = exit
    BY <1>0, <1>3 DEF WriteReport, Goto, At, database, memory
  <2>2. world.snapshots = 1 => Reported(jobs[p], grades, report'[world.dir[p]])
    BY <1>3, ReportIs
  <2> QED
    BY <1>0, <1>1, <2>1, <2>2, DoneKept DEF DoneAt
<1>4. CASE Close(p)
  <2>1. /\ pc'[p] = "idle" /\ pc[p] = "close" /\ exit'[p] = ExitCode(jobs[p], plan[p])
        /\ row' = row /\ grades' = grades /\ report' = report
    BY <1>0, <1>4 DEF Close, Goto, At, database
  <2>2. exit'[p] = "0" => Finished(row, grades, report[world.dir[p]], world)
    BY <2>1, ClosedIsFinished
  <2> QED
    BY <1>0, <2>1, <2>2, DoneKept DEF DoneAt
<1>5. CASE /\ pc'[p] \notin {"report", "close"}
           /\ exit'[p] \in {"none", "1"} \/ (pc[p] # "idle" /\ exit' = exit)
  <2>1. exit'[p] # "0"
    BY <1>1, <1>5
  <2> QED
    BY <1>0, <1>5, <2>1, DoneKept DEF DoneAt
<1> QED
  BY <1>2, <1>3, <1>4, <1>5, OtherSteps

(* The reports stay one for each directory.                                *)
LEMMA ReportShape ==
    ASSUME report = [d \in Dir |-> report[d]], [Next]_vars
    PROVE  report' = [d \in Dir |-> report'[d]]
<1>1. report' = report \/ \E d, x : report' = [report EXCEPT ![d] = x]
  BY ZenonT(60)
  DEF vars, Next, Step, Launch, PlanFirst, OpenAudit, BeginJob, Create, Start, Mark, Seal,
         CheckGrades, StoreGrade, WriteJob, TopUp, Summarise, WriteReport, Close, JobThrows,
         Kill, EditGrader, disk
<1> QED
  BY <1>1

(* Every step of a suite keeps DoneInv.                                    *)
LEMMA NextDone ==
    /\ SuiteInv /\ SlotInv /\ AloneInv /\ GradeInv /\ BookInv /\ DoneInv
    /\ report = [d \in Dir |-> report[d]]
    /\ [Next]_vars
    => DoneInv'
<1> SUFFICES ASSUME SuiteInv, SlotInv, AloneInv, GradeInv, BookInv, DoneInv,
                    report = [d \in Dir |-> report[d]], [Next]_vars
             PROVE  DoneInv'
  OBVIOUS
<1>1. world' = world
  BY WorldStays
<1>2. ASSUME NEW p \in DOMAIN world.dir, ProcessStep(p) PROVE DoneInv'
  <2>1. CASE DOMAIN world.dir = {p}
    BY <1>1, <1>2, <2>1, StepDone
  <2>2. CASE DOMAIN world.dir # {p}
    <3>1. \A q : DOMAIN world'.dir # {q}
      BY <1>1, <2>2
    <3> QED
      BY <3>1 DEF DoneInv
  <2> QED
    BY <2>1, <2>2
<1>3. CASE UNCHANGED books
  <2>1. UNCHANGED <<world, row, jobs, queue, plan, pc, exit, report, grades>>
    BY <1>3 DEF books
  <2> QED
    BY <2>1 DEF DoneInv
<1> QED
  BY <1>2, <1>3, StepIs

(* A suite starts idle, without an exit code.                              *)
LEMMA InitDone == Init => DoneInv /\ report = [d \in Dir |-> report[d]]
<1> SUFFICES ASSUME Init PROVE DoneInv /\ report = [d \in Dir |-> report[d]]
  OBVIOUS
<1>1. \A p \in Process : pc[p] = "idle" /\ exit[p] = "none"
  BY DEF Init
<1>2. report = [d \in Dir |-> report[d]]
  BY DEF Init
<1> QED
  BY <1>1, <1>2 DEF DoneInv, DoneAt

(* ExitZeroMeansDone: a suite that has its database for itself and exits 0 *)
(* has a completed sample for every slot of every cell, each graded, and a *)
(* report that counts them all unless the grader changed on the way.       *)
THEOREM ExitZeroIsHonest == Spec => []ExitZeroMeansDone
<1> DEFINE Inv == /\ SuiteInv /\ SlotInv /\ AloneInv /\ GradeInv /\ BookInv /\ DoneInv
                  /\ report = [d \in Dir |-> report[d]]
<1>1. Init => Inv
  BY InitSuite, InitSlots, InitAlone, InitGrade, InitBooks, InitDone
<1>2. Inv /\ [Next]_vars => Inv'
  BY NextSuite, NextSlots, NextAlone, NextGrade, NextBooks, NextDone, ReportShape
<1>3. Inv => ExitZeroMeansDone
  <2> SUFFICES ASSUME Inv, NEW p \in Process, DOMAIN world.dir = {p}, exit[p] = "0"
               PROVE  Finished(row, grades, report[world.dir[p]], world)
    BY DEF ExitZeroMeansDone, Alone, Finished
  <2> QED
    BY DEF DoneInv, DoneAt
<1> QED
  BY <1>1, <1>2, <1>3, PTL DEF Spec

=============================================================================
