----------------------------- MODULE ListProofs -----------------------------
(***************************************************************************)
(* Lemmas about the operators of the community modules that the models of   *)
(* the cache cleaner and of the web server are built from.                  *)
(***************************************************************************)
EXTENDS Integers, FiniteSets, SequencesExt, FiniteSetTheorems, SequenceTheorems, TLAPS

(* A list of all elements without repetitions: SetToSeqs only says that it  *)
(* has the right length, the rest is the pigeonhole principle.              *)
LEMMA Listing ==
    ASSUME NEW S, IsFiniteSet(S), NEW s \in SetToSeqs(S)
    PROVE  /\ s \in Seq(S)
           /\ Len(s) = Cardinality(S)
           /\ \A i, j \in 1..Len(s) : i # j => s[i] # s[j]
           /\ S = {s[i] : i \in 1..Len(s)}
<1> DEFINE n == Cardinality(S)
<1>1. n \in Nat
    BY FS_CardinalityType
<1>2. s \in [1..n -> S] /\ \A i, j \in 1..n : i # j => s[i] # s[j]
    BY DEF SetToSeqs
<1>3. s \in Seq(S) /\ Len(s) = n
    BY <1>1, <1>2, IsASeq
<1>4. ASSUME NEW x \in S, \A i \in 1..n : s[i] # x
      PROVE  FALSE
    <2>1. IsFiniteSet(S \ {x}) /\ Cardinality(S \ {x}) = n - 1
        BY FS_RemoveElement
    <2>2. IsFiniteSet(1..n) /\ Cardinality(1..n) = n
        BY <1>1, FS_Interval
    <2>3. s \in [1..n -> S \ {x}]
        BY <1>2, <1>4
    <2>4. \E i, j \in 1..n : i # j /\ s[i] = s[j]
        BY <1>1, <2>1, <2>2, <2>3, FS_PigeonHole
    <2> QED
        BY <1>2, <2>4
<1> QED
    BY <1>2, <1>3, <1>4

(* A function from a finite set reaches finitely many values.               *)
LEMMA FiniteImage ==
    ASSUME NEW S, IsFiniteSet(S), NEW T, NEW f \in [S -> T], \A t \in T : \E x \in S : f[x] = t
    PROVE  IsFiniteSet(T)
<1>1. f \in Surjection(S, T)
    BY DEF Surjection
<1> QED
    BY <1>1, FS_Surjection

(* A function that reaches each value once counts the values.               *)
LEMMA OneToOne ==
    ASSUME NEW S, IsFiniteSet(S), NEW T, NEW f \in [S -> T], \A t \in T : \E x \in S : f[x] = t,
           \A x, y \in S : f[x] = f[y] => x = y
    PROVE  IsFiniteSet(T) /\ Cardinality(T) = Cardinality(S)
<1>1. f \in Surjection(S, T)
    BY DEF Surjection
<1>2. f \in Injection(S, T)
    BY DEF Injection, IsInjective
<1>3. f \in Bijection(S, T)
    BY <1>1, <1>2 DEF Bijection
<1> QED
    BY <1>3, FS_Bijection DEF ExistsBijection

(* The least of a set of numbers.                                           *)
LEMMA LeastNumber ==
    ASSUME NEW T \in SUBSET Nat, T # {}
    PROVE  Min(T) \in T /\ \A y \in T : Min(T) <= y
<1> DEFINE Less == {ss \in Nat \X Nat : ss[1] < ss[2]}
<1>0. IsWellFoundedOn(Less, Nat)
    BY NatLessThanWellFounded DEF OpToRel
<1>1. PICK x \in T : \A y \in T : ~(<<y, x>> \in Less)
    BY <1>0, WFMin
<1>2. ASSUME NEW y \in T
      PROVE  x <= y
    <2>1. y < x => <<y, x>> \in Less
        OBVIOUS
    <2> QED
        BY <1>1, <2>1
<1> QED
    BY <1>2 DEF Min

(* The greatest of a bounded set of numbers.                                *)
LEMMA GreatestNumber ==
    ASSUME NEW n \in Nat, NEW T \in SUBSET (0..n), T # {}
    PROVE  Max(T) \in T /\ \A y \in T : y <= Max(T)
<1> DEFINE U == {n - y : y \in T}
<1>1. U \in SUBSET Nat /\ U # {}
    OBVIOUS
<1>2. Min(U) \in U /\ \A u \in U : Min(U) <= u
    BY <1>1, LeastNumber
<1>3. PICK x \in T : Min(U) = n - x
    BY <1>2
<1>4. ASSUME NEW y \in T
      PROVE  y <= x
    <2>1. n - y \in U /\ Min(U) <= n - y
        BY <1>2
    <2>2. x \in 0..n /\ y \in 0..n
        OBVIOUS
    <2>3. n - x <= n - y
        BY <1>3, <2>1
    <2> HIDE DEF U
    <2> QED
        BY <2>2, <2>3
<1> QED
    BY <1>4 DEF Max

(* A sequence that has got one element more.                                *)
LEMMA FrontLast ==
    ASSUME NEW S, NEW s \in Seq(S), NEW e \in S
    PROVE  Front(Append(s, e)) = s /\ Last(Append(s, e)) = e
<1> DEFINE z == Append(s, e)
           x == SubSeq(z, 1, Len(s))
<1>1. Len(s) \in Nat /\ \A i \in 1..Len(s) : s[i] \in S
    BY LenProperties, ElementOfSeq
<1>2. z \in Seq(S) /\ Len(z) = Len(s) + 1 /\ (\A i \in 1..Len(s) : z[i] = s[i]) /\ z[Len(s) + 1] = e
    BY AppendProperties
<1> HIDE DEF z
<1>3. x \in Seq(S) /\ Len(x) = Len(s) /\ \A i \in 1..Len(s) : x[i] = s[i]
    BY <1>1, <1>2, SubSeqProperties
<1>4. Len(z) - 1 = Len(s)
    BY <1>1, <1>2
<1> HIDE DEF x
<1>5. x = s
    BY <1>3, SeqEqual
<1> QED
    BY <1>2, <1>4, <1>5 DEF Front, Last, x, z

-----------------------------------------------------------------------------
(* Induction and recursion, stated with sets and functions for predicates   *)
(* and operators.                                                           *)

(* What holds at the beginning, and after a place if it holds there, holds  *)
(* at every place: the first place where it does not would have one before. *)
LEMMA Induction ==
    ASSUME NEW m \in Nat, NEW T, 0 \in T,
           \A k \in 0..(m - 1) : k \in T => k + 1 \in T
    PROVE  \A k \in 0..m : k \in T
<1> DEFINE Bad == {k \in 0..m : k \notin T}
<1> SUFFICES ASSUME Bad # {}
             PROVE  FALSE
    OBVIOUS
<1>1. Bad \in SUBSET Nat
    OBVIOUS
<1>2. Min(Bad) \in Bad /\ \A y \in Bad : Min(Bad) <= y
    BY <1>1, LeastNumber
<1>3. PICK k \in 0..m : k \notin T /\ \A y \in Bad : k <= y
    BY <1>2
<1>4. k # 0 /\ k - 1 \in 0..(m - 1)
    BY <1>3
<1>5. k - 1 \notin Bad
    BY <1>3, <1>4
<1>6. k - 1 \in T
    BY <1>4, <1>5
<1>7. (k - 1) + 1 \in T
    BY <1>4, <1>6
<1> QED
    BY <1>3, <1>7

(* A step at k leads from the values that are possible before to the ones   *)
(* that are possible at k.                                                  *)
Advances(step, I, m) == \A k \in 1..m : \A x \in I[k - 1] : step[<<x, k>>] \in I[k]

(* What a function computes that begins with b and goes on with step.       *)
Computes(f, b, step, m) == f[0] = b /\ \A k \in 1..m : f[k] = step[<<f[k - 1], k>>]

(* A function is defined by its first value and by how each value follows   *)
(* from the one before; I[k] is what the values at k are known to satisfy.  *)
LEMMA Recursion ==
    ASSUME NEW m \in Nat, NEW S, NEW I \in [0..m -> SUBSET S], NEW b \in I[0], NEW step,
           Advances(step, I, m)
    PROVE  \E f \in [0..m -> S] : Computes(f, b, step, m) /\ \A k \in 0..m : f[k] \in I[k]
<1> DEFINE Starts(f, n) == Computes(f, b, step, n) /\ \A k \in 0..n : f[k] \in I[k]
           T == {n \in 0..m : \E f \in [0..n -> S] : Starts(f, n)}
<1>1. 0 \in T
    <2> DEFINE f == [k \in 0..0 |-> b]
    <2>1. f \in [0..0 -> S] /\ Starts(f, 0)
        BY DEF Computes
    <2>2. 0 \in 0..m
        OBVIOUS
    <2> HIDE DEF f, Starts
    <2> QED
        BY <2>1, <2>2
<1>2. ASSUME NEW n \in 0..(m - 1), n \in T
      PROVE  n + 1 \in T
    <2>1. PICK f \in [0..n -> S] : Starts(f, n)
        BY <1>2 DEF T
    <2> DEFINE g == [k \in 0..(n + 1) |-> IF k = n + 1 THEN step[<<f[n], n + 1>>] ELSE f[k]]
    <2> HIDE DEF T, Starts
    <2>0. n \in Nat /\ n \in 0..n /\ n + 1 \in 1..m /\ (n + 1) - 1 = n /\ n + 1 \in 0..m
        OBVIOUS
    <2>2. f[n] \in I[n]
        BY <2>0, <2>1 DEF Starts, Computes
    <2>3. step[<<f[n], n + 1>>] \in I[n + 1]
        BY <2>0, <2>2 DEF Advances
    <2>4. ASSUME NEW k \in 0..(n + 1)
          PROVE  g[k] \in I[k] /\ g[k] \in S
        <3>1. CASE k = n + 1
            BY <2>0, <2>3, <3>1
        <3>2. CASE k # n + 1
            <4>1. k \in 0..n /\ k \in 0..m
                BY <3>2
            <4>2. g[k] = f[k] /\ f[k] \in I[k]
                BY <2>1, <3>2, <4>1 DEF Starts, Computes
            <4> QED
                BY <4>1, <4>2
        <3> QED
            BY <3>1, <3>2
    <2>5. g[0] = b
        BY <2>1 DEF Starts, Computes
    <2>6. ASSUME NEW k \in 1..(n + 1)
          PROVE  g[k] = step[<<g[k - 1], k>>]
        <3>1. CASE k = n + 1
            <4>1. n \in 0..(n + 1) /\ n # n + 1 /\ n + 1 \in 0..(n + 1) /\ k - 1 = n
                BY <2>0, <3>1
            <4>2. g[n] = f[n] /\ g[n + 1] = step[<<f[n], n + 1>>]
                BY <4>1
            <4> QED
                BY <3>1, <4>1, <4>2
        <3>2. CASE k # n + 1
            <4>1. k \in 1..n /\ k \in 0..(n + 1) /\ k - 1 \in 0..(n + 1) /\ k - 1 # n + 1
                BY <3>2
            <4>2. g[k] = f[k] /\ g[k - 1] = f[k - 1]
                BY <3>2, <4>1
            <4> QED
                BY <2>1, <4>1, <4>2 DEF Starts, Computes
        <3> QED
            BY <3>1, <3>2
    <2>7. Starts(g, n + 1)
        BY <2>4, <2>5, <2>6 DEF Starts, Computes
    <2>8. g \in [0..(n + 1) -> S]
        BY <2>4
    <2> HIDE DEF g
    <2> QED
        BY <2>0, <2>7, <2>8 DEF T
<1>3. m \in T
    <2> HIDE DEF T
    <2>1. \A k \in 0..(m - 1) : k \in T => k + 1 \in T
        BY <1>2
    <2>2. \A k \in 0..m : k \in T
        BY <1>1, <2>1, Induction
    <2> QED
        BY <2>2
<1> QED
    BY <1>3

(* The same when only the type of the values matters.                       *)
LEMMA TypedRecursion ==
    ASSUME NEW m \in Nat, NEW S, NEW b \in S, NEW step \in [S \X (1..m) -> S]
    PROVE  \E f \in [0..m -> S] : Computes(f, b, step, m)
<1> DEFINE I == [k \in 0..m |-> S]
<1>1. I \in [0..m -> SUBSET S] /\ b \in I[0]
    OBVIOUS
<1>2. Advances(step, I, m)
    <2>1. \A k \in 1..m : k - 1 \in 0..m /\ k \in 0..m
        OBVIOUS
    <2> QED
        BY <2>1 DEF Advances
<1> HIDE DEF I
<1> QED
    BY <1>1, <1>2, Recursion

(* Sequences one behind the other.                                          *)
LEMMA FlattenTyped ==
    ASSUME NEW S, NEW seqs \in Seq(Seq(S))
    PROVE  FlattenSeq(seqs) \in Seq(S)
<1> DEFINE n == Len(seqs)
           Q == Seq(S)
           flatten[i \in 1..Len(seqs)] == IF i = 1 THEN seqs[i] ELSE flatten[i-1] \o seqs[i]
<1>0. n \in Nat /\ \A i \in 1..n : seqs[i] \in Q
    <2>1. seqs \in Seq(Q)
        OBVIOUS
    <2> HIDE DEF Q
    <2> QED
        BY <2>1, LenProperties, ElementOfSeq
<1>1. CASE n = 0
    <2>1. seqs = <<>>
        <3> HIDE DEF Q
        <3>1. seqs \in Seq(Q)
            BY DEF Q
        <3> QED
            BY <1>1, <3>1, EmptySeq
    <2> QED
        BY <1>1, <2>1, EmptySeq DEF FlattenSeq
<1>2. CASE n # 0
    <2> DEFINE m == n - 1
               b == seqs[1]
               step == [p \in Q \X (1..m) |-> p[1] \o seqs[p[2] + 1]]
    <2>1. m \in Nat /\ 1 \in 1..n /\ n \in 1..n /\ (\A k \in 1..m : k + 1 \in 1..n) /\ \A k \in 0..m : k + 1 \in 1..n
        BY <1>0, <1>2
    <2>2. \A x \in Q, y \in Q : x \o y \in Q
        BY ConcatProperties
    <2>3. PICK f \in [0..m -> Q] : Computes(f, b, step, m)
        <3>1. b \in Q /\ step \in [Q \X (1..m) -> Q]
            <4> HIDE DEF Q
            <4> QED
                BY <1>0, <2>1, <2>2
        <3> HIDE DEF step, m, b, Q
        <3> QED
            BY <2>1, <3>1, TypedRecursion
    <2> DEFINE g == [i \in 1..n |-> f[i - 1]]
    <2>4. g = [i \in 1..Len(seqs) |-> IF i = 1 THEN seqs[i] ELSE g[i - 1] \o seqs[i]]
        <3>1. ASSUME NEW i \in 1..n
              PROVE  g[i] = IF i = 1 THEN seqs[i] ELSE g[i - 1] \o seqs[i]
            <4>1. CASE i = 1
                BY <2>3, <4>1 DEF Computes
            <4>2. CASE i # 1
                <5>1. i - 1 \in 1..m /\ (i - 1) + 1 = i /\ (i - 1) - 1 \in 0..m /\ i - 1 \in 1..n
                    BY <1>0, <4>2
                <5>2. f[i - 1] = step[<<f[(i - 1) - 1], i - 1>>]
                    BY <2>3, <5>1 DEF Computes
                <5>3. f[(i - 1) - 1] \in Q
                    BY <2>3, <5>1
                <5>4. step[<<f[(i - 1) - 1], i - 1>>] = f[(i - 1) - 1] \o seqs[i]
                    <6> HIDE DEF Q
                    <6> QED
                        BY <5>1, <5>3
                <5>5. g[i] = f[i - 1] /\ g[i - 1] = f[(i - 1) - 1]
                    BY <5>1
                <5> QED
                    BY <4>2, <5>2, <5>4, <5>5
            <4> QED
                BY <4>1, <4>2
        <3> HIDE DEF step
        <3> QED
            BY <3>1
    <2>5. flatten = [i \in 1..Len(seqs) |-> IF i = 1 THEN seqs[i] ELSE flatten[i-1] \o seqs[i]]
        <3> HIDE DEF g
        <3> QED
            BY <2>4
    <2>6. FlattenSeq(seqs) = flatten[n]
        BY <1>2 DEF FlattenSeq
    <2> HIDE DEF flatten, g
    <2> DEFINE T == {k \in 0..m : flatten[k + 1] \in Q}
    <2>7. 0 \in T
        <3>1. 0 \in 0..m /\ 0 + 1 = 1
            BY <2>1
        <3>2. flatten[1] = seqs[1]
            BY <2>1, <2>5
        <3>3. flatten[0 + 1] \in Q
            BY <1>0, <2>1, <3>1, <3>2
        <3> QED
            BY <3>1, <3>3
    <2>8. ASSUME NEW k \in 0..(m - 1), k \in T
          PROVE  k + 1 \in T
        <3>1. k + 1 \in 0..m /\ (k + 1) + 1 \in 1..n /\ (k + 1) + 1 # 1 /\ ((k + 1) + 1) - 1 = k + 1
            BY <1>0, <2>1
        <3>2. flatten[(k + 1) + 1] = flatten[k + 1] \o seqs[(k + 1) + 1]
            BY <2>5, <3>1
        <3>3. flatten[k + 1] \in Q /\ seqs[(k + 1) + 1] \in Q
            BY <1>0, <2>8, <3>1
        <3>4. flatten[(k + 1) + 1] \in Q
            <4> HIDE DEF Q
            <4> QED
                BY <2>2, <3>2, <3>3
        <3> QED
            BY <3>1, <3>4
    <2> HIDE DEF T, m, Q
    <2>9. \A k \in 0..m : k \in T
        BY <2>1, <2>7, <2>8, Induction
    <2>10. m \in 0..m /\ m + 1 = n
        BY <1>0, <2>1 DEF m
    <2>11. flatten[n] \in Q
        BY <2>9, <2>10 DEF T
    <2> QED
        BY <2>6, <2>11 DEF Q
<1> QED
    BY <1>0, <1>1, <1>2

=============================================================================
