---------------------------- MODULE OrderProofs ----------------------------
(***************************************************************************)
(* Proofs about DirOrder and SearchIndex.  The comparison of names decides  *)
(* as the reference does on tokens, the reference is an order, and a        *)
(* listing that is sorted by it is determined.  Compaction after a sort     *)
(* keeps the hits that no other hit absorbs, and a limit keeps the best.    *)
(***************************************************************************)
EXTENDS SearchIndex, ListProofs

-----------------------------------------------------------------------------
(* Numbers *)

(* The digits of s from i on are n.                                         *)
Run(s, i, n) ==
    /\ n \in Nat \ {0} /\ i + n <= Len(s) + 1
    /\ \A k \in i..(i + n - 1) : isDigit(s[k])
    /\ i + n <= Len(s) => ~isDigit(s[i + n])

DigitsOf(s, i, n) == [k \in 1..n |-> s[i + k - 1] - Zero]

(* The values of the first digits, as Atoi has them and as they are.        *)
Cut(v, d, n) ==
    v[0] = 0 /\ \A k \in 1..n : v[k] = IF MaxInt <= 10 * v[k - 1] + d[k] THEN MaxInt ELSE 10 * v[k - 1] + d[k]

Exact(v, d, n) == v[0] = 0 /\ \A k \in 1..n : v[k] = 10 * v[k - 1] + d[k]

(* The number at i has these digits and no others that count.               *)
HasCut(s, i, n) ==
    \E v \in [0..n -> Nat] : Cut(v, DigitsOf(s, i, n), n) /\ extractNumber(s, i).n = v[n]

HasExact(s, i, n) ==
    \E v \in [0..n -> Nat] : Exact(v, DigitsOf(s, i, n), n) /\ extractNumber(s, i).n = v[n]

(* Digits have the values 0 to 9.                                           *)
LEMMA DigitValue ==
    ASSUME NEW ch, isDigit(ch)
    PROVE  ch - Zero \in 0..9 /\ ch - Zero \in Nat
    BY DEF isDigit, Zero

(* Min of two numbers is the smaller one.                                   *)
LEMMA MinOfTwo ==
    ASSUME NEW x \in Nat, NEW y \in Nat
    PROVE  Min({x, y}) = IF x <= y THEN x ELSE y
<1>1. Min({x, y}) \in {x, y} /\ \A z \in {x, y} : Min({x, y}) <= z
    BY LeastNumber
<1> QED
    BY <1>1

(* What extractNumber returns.                                              *)
LEMMA SizeOfNumber ==
    ASSUME NEW s \in Seq(Nat), NEW i \in 1..Len(s), isDigit(s[i])
    PROVE  /\ Run(s, i, extractNumber(s, i).size)
           /\ DigitsOf(s, i, extractNumber(s, i).size) \in [1..extractNumber(s, i).size -> 0..9]
<1> DEFINE N == {n \in 1..(Len(s) - i + 1) : \A k \in i..(i + n - 1) : isDigit(s[k])}
           size == Max(N)
<1>1. Len(s) \in Nat /\ \A k \in 1..Len(s) : s[k] \in Nat
    BY LenProperties, ElementOfSeq
<1>2. 1 \in N /\ N \in SUBSET (0..Len(s))
    BY <1>1
<1>3. size \in N /\ \A n \in N : n <= size
    <2> HIDE DEF N
    <2> QED
        BY <1>1, <1>2, GreatestNumber
<1>4. extractNumber(s, i).size = size
    BY DEF extractNumber
<1> HIDE DEF size
<1>5. size \in Nat \ {0} /\ i + size <= Len(s) + 1
    BY <1>1, <1>3
<1>6. \A k \in i..(i + size - 1) : isDigit(s[k])
    BY <1>3
<1>7. ASSUME i + size <= Len(s), isDigit(s[i + size])
      PROVE  FALSE
    <2>1. size + 1 \in 1..(Len(s) - i + 1)
        BY <1>1, <1>5, <1>7
    <2>2. ASSUME NEW k \in i..(i + (size + 1) - 1)
          PROVE  isDigit(s[k])
        <3>1. k \in i..(i + size - 1) \/ k = i + size
            BY <1>5
        <3> QED
            BY <1>6, <1>7, <3>1
    <2>3. size + 1 \in N
        BY <2>1, <2>2
    <2>4. size + 1 <= size
        BY <1>3, <2>3
    <2> QED
        BY <1>5, <2>4
<1>8. Run(s, i, size)
    BY <1>5, <1>6, <1>7 DEF Run
<1>9. ASSUME NEW k \in 1..size
      PROVE  s[i + k - 1] - Zero \in 0..9
    <2>1. i + k - 1 \in i..(i + size - 1)
        BY <1>5
    <2>2. isDigit(s[i + k - 1])
        BY <1>6, <2>1
    <2> QED
        BY <2>2 DEF isDigit, Zero
<1> QED
    BY <1>4, <1>8, <1>9 DEF DigitsOf

(* The number that extractNumber returns is computed digit by digit and     *)
(* never exceeds MaxInt.                                                    *)
LEMMA ValueOfNumber ==
    ASSUME NEW s, NEW i, NEW n \in Nat, n = extractNumber(s, i).size, DigitsOf(s, i, n) \in [1..n -> 0..9]
    PROVE  HasCut(s, i, n)
<1> DEFINE d == DigitsOf(s, i, n)
           Next(x, k) == Min({MaxInt, 10 * x + d[k]})
           step == [p \in Nat \X (1..n) |-> Next(p[1], p[2])]
<1>1. \A k \in 1..n : d[k] = s[i + k - 1] - Zero
    BY DEF DigitsOf
<1>2. ASSUME NEW x \in Nat, NEW k \in 1..n
      PROVE  /\ Next(x, k) = IF MaxInt <= 10 * x + d[k] THEN MaxInt ELSE 10 * x + d[k]
             /\ Next(x, k) \in Nat
    <2>1. d[k] \in Nat
        BY d \in [1..n -> 0..9]
    <2>2. 10 * x + d[k] \in Nat /\ MaxInt \in Nat
        BY <2>1, MaxIntAssumption
    <2>3. Next(x, k) = IF MaxInt <= 10 * x + d[k] THEN MaxInt ELSE 10 * x + d[k]
        BY <2>2, MinOfTwo
    <2> QED
        BY <2>2, <2>3
<1> HIDE DEF d, Next
<1>3. step \in [Nat \X (1..n) -> Nat]
    BY <1>2
<1>4. PICK v \in [0..n -> Nat] : Computes(v, 0, step, n)
    <2> HIDE DEF step
    <2> QED
        BY <1>3, TypedRecursion
<1>5. ASSUME NEW k \in 1..n
      PROVE  v[k] = Next(v[k - 1], k)
    <2>1. k - 1 \in 0..n /\ v[k - 1] \in Nat
        <3>1. k - 1 \in 0..n
            OBVIOUS
        <3> QED
            BY <3>1
    <2>2. v[k] = step[<<v[k - 1], k>>]
        BY <1>4 DEF Computes
    <2> QED
        BY <2>1, <2>2
<1>6. v[0] = 0
    BY <1>4 DEF Computes
<1>7. Cut(v, d, n)
    <2>1. ASSUME NEW k \in 1..n
          PROVE  v[k] = IF MaxInt <= 10 * v[k - 1] + d[k] THEN MaxInt ELSE 10 * v[k - 1] + d[k]
        <3>1. k - 1 \in 0..n
            OBVIOUS
        <3>2. v[k - 1] \in Nat
            BY <3>1
        <3> QED
            BY <1>2, <1>5, <3>2
    <2> QED
        BY <1>6, <2>1 DEF Cut
<1> DEFINE Digit(k) == s[i + k - 1] - Zero
           atoi[k \in 0..n] ==
               IF k = 0 THEN 0 ELSE Min({MaxInt, 10 * atoi[k - 1] + Digit(k)})
<1>8. extractNumber(s, i).n = atoi[n]
    BY n = extractNumber(s, i).size DEF extractNumber
<1>9. v = [k \in 0..n |-> IF k = 0 THEN 0 ELSE Min({MaxInt, 10 * v[k - 1] + Digit(k)})]
    <2>1. ASSUME NEW k \in 0..n
          PROVE  v[k] = IF k = 0 THEN 0 ELSE Min({MaxInt, 10 * v[k - 1] + Digit(k)})
        <3>1. CASE k = 0
            BY <1>6, <3>1
        <3>2. CASE k # 0
            <4>1. k \in 1..n
                BY <3>2
            <4> QED
                BY <1>1, <1>5, <3>2, <4>1 DEF Next
        <3> QED
            BY <3>1, <3>2
    <2> QED
        BY <2>1
<1>10. atoi = [k \in 0..n |-> IF k = 0 THEN 0 ELSE Min({MaxInt, 10 * atoi[k - 1] + Digit(k)})]
    BY <1>9
<1> HIDE DEF atoi
<1>11. atoi[n] = v[n]
    <2> DEFINE T == {k \in 0..n : atoi[k] = v[k]}
    <2>1. 0 \in T
        BY <1>6, <1>10
    <2>2. ASSUME NEW k \in 0..(n - 1), k \in T
          PROVE  k + 1 \in T
        <3>1. k + 1 \in 0..n /\ k + 1 # 0 /\ (k + 1) - 1 = k
            OBVIOUS
        <3>2. atoi[k + 1] = Min({MaxInt, 10 * atoi[k] + Digit(k + 1)})
            BY <1>10, <3>1
        <3>3. v[k + 1] = Min({MaxInt, 10 * v[k] + Digit(k + 1)})
            BY <1>9, <3>1
        <3> QED
            BY <2>2, <3>1, <3>2, <3>3
    <2>3. \A k \in 0..n : k \in T
        <3> HIDE DEF T
        <3> QED
            BY <2>1, <2>2, Induction
    <2> QED
        BY <2>3
<1> QED
    BY <1>7, <1>8, <1>11 DEF d, HasCut

(* A number that is less than MaxInt has not been cut.                      *)
LEMMA NotCut ==
    ASSUME NEW n \in Nat, NEW d \in [1..n -> 0..9], NEW v \in [0..n -> Nat], Cut(v, d, n), v[n] < MaxInt
    PROVE  Exact(v, d, n)
<1> DEFINE T == {k \in 0..n : v[n - k] < MaxInt}
<1>1. 0 \in T
    OBVIOUS
<1>2. ASSUME NEW k \in 1..n, v[k] < MaxInt
      PROVE  v[k] = 10 * v[k - 1] + d[k] /\ v[k - 1] < MaxInt
    <2>1. k - 1 \in 0..n /\ k \in 0..n
        OBVIOUS
    <2>2. v[k - 1] \in Nat /\ v[k] \in Nat /\ d[k] \in 0..9
        BY <2>1
    <2>3. v[k] = IF MaxInt <= 10 * v[k - 1] + d[k] THEN MaxInt ELSE 10 * v[k - 1] + d[k]
        BY DEF Cut
    <2> QED
        <3>1. PICK p \in Nat, q \in Nat, z \in 0..9 : p = v[k - 1] /\ q = v[k] /\ z = d[k]
            BY <2>2
        <3>2. q = IF MaxInt <= 10 * p + z THEN MaxInt ELSE 10 * p + z
            BY <2>3, <3>1
        <3>3. q < MaxInt
            BY <1>2, <3>1
        <3>4. q = 10 * p + z /\ p < MaxInt
            BY <3>2, <3>3, MaxIntAssumption
        <3> QED
            BY <3>1, <3>4
<1>3. ASSUME NEW k \in 0..(n - 1), k \in T
      PROVE  k + 1 \in T
    <2>1. n - k \in 1..n /\ (n - k) - 1 = n - (k + 1) /\ k + 1 \in 0..n
        OBVIOUS
    <2>2. v[n - k] < MaxInt
        BY <1>3
    <2>3. v[n - (k + 1)] < MaxInt
        BY <1>2, <2>1, <2>2
    <2> QED
        BY <2>1, <2>3
<1>4. \A k \in 0..n : k \in T
    <2> HIDE DEF T
    <2> QED
        BY <1>1, <1>3, Induction
<1>5. ASSUME NEW k \in 1..n
      PROVE  v[k] < MaxInt
    <2>1. n - k \in 0..n /\ n - (n - k) = k
        OBVIOUS
    <2>2. v[n - (n - k)] < MaxInt
        BY <1>4, <2>1
    <2> QED
        BY <2>1, <2>2
<1>6. \A k \in 1..n : v[k] = 10 * v[k - 1] + d[k]
    BY <1>2, <1>5
<1> QED
    BY <1>6 DEF Exact, Cut

(* A number determines its last digit and what is before it.                *)
LEMMA LastDigit ==
    ASSUME NEW p \in Nat, NEW q \in Nat, NEW x \in 0..9, NEW y \in 0..9
    PROVE  (10 * p + x = 10 * q + y => p = q /\ x = y) /\ (p > 0 => 10 * p + x > 0)
    OBVIOUS

(* Two sequences have the same first elements.                              *)
Alike(x, y, m) == \A k \in 1..m : x[k] = y[k]

(* A number has one form with so many digits.                               *)
LEMMA OneSpelling ==
    ASSUME NEW m \in Nat \ {0}, NEW x \in [1..m -> 0..9], NEW v \in [0..m -> Nat], Exact(v, x, m),
           NEW y \in [1..m -> 0..9], NEW w \in [0..m -> Nat], Exact(w, y, m), v[m] = w[m]
    PROVE  Alike(x, y, m)
<1> DEFINE T == {k \in 0..m : v[m - k] = w[m - k]}
<1>1. 0 \in T
    OBVIOUS
<1>2. ASSUME NEW k \in 0..(m - 1), k \in T
      PROVE  k + 1 \in T /\ x[m - k] = y[m - k]
    <2>1. /\ m - k \in 1..m /\ (m - k) - 1 = m - (k + 1)
          /\ k + 1 \in 0..m /\ m - (k + 1) \in 0..m
        OBVIOUS
    <2>2. v[m - k] = 10 * v[m - (k + 1)] + x[m - k] /\ w[m - k] = 10 * w[m - (k + 1)] + y[m - k]
        BY <2>1 DEF Exact
    <2>3. v[m - (k + 1)] \in Nat /\ w[m - (k + 1)] \in Nat /\ x[m - k] \in 0..9 /\ y[m - k] \in 0..9
        BY <2>1
    <2>4. v[m - k] = w[m - k]
        BY <1>2
    <2>5. v[m - (k + 1)] = w[m - (k + 1)] /\ x[m - k] = y[m - k]
        <3>1. PICK p \in Nat, q \in Nat, c \in 0..9, e \in 0..9 :
                p = v[m - (k + 1)] /\ q = w[m - (k + 1)] /\ c = x[m - k] /\ e = y[m - k]
            BY <2>3
        <3>2. 10 * p + c = 10 * q + e
            BY <2>2, <2>4, <3>1
        <3>3. p = q /\ c = e
            BY <3>2, LastDigit
        <3> QED
            BY <3>1, <3>3
    <2> QED
        BY <2>1, <2>5
<1>3. \A k \in 0..m : k \in T
    <2>1. \A k \in 0..(m - 1) : k \in T => k + 1 \in T
        BY <1>2
    <2> HIDE DEF T
    <2> QED
        BY <1>1, <2>1, Induction
<1>4. ASSUME NEW k \in 1..m
      PROVE  x[k] = y[k]
    <2>1. m - k \in 0..(m - 1) /\ m - k \in 0..m /\ m - (m - k) = k
        OBVIOUS
    <2>2. x[m - (m - k)] = y[m - (m - k)]
        BY <1>2, <1>3, <2>1
    <2> QED
        BY <2>1, <2>2
<1> QED
    BY <1>4 DEF Alike

-----------------------------------------------------------------------------
(* Tokens *)

Token == [isNumber : BOOLEAN, value : Nat]

(* The tokens after the character at k, if t are the ones before it.        *)
NextTokens(s, t, k) ==
    IF ~isDigit(s[k]) THEN Append(t, Letter(s[k]))
    ELSE IF t # <<>> /\ Last(t).isNumber THEN Append(Front(t), Number(10 * Last(t).value + (s[k] - Zero)))
    ELSE Append(t, Number(s[k] - Zero))

(* The last token is a number if the last character is a digit.             *)
Ends(s, k) ==
    IF k = 0 THEN {<<>>}
    ELSE {Append(u, x) : u \in Seq(Token), x \in {y \in Token : y.isNumber <=> isDigit(s[k])}}

(* Tokens whose last one fits the last character read.                      *)
LEMMA InEnds ==
    ASSUME NEW s, NEW k \in Nat \ {0}, NEW u \in Seq(Token), NEW x \in Token, x.isNumber <=> isDigit(s[k])
    PROVE  Append(u, x) \in Ends(s, k)
    BY DEF Ends

(* What has been read is made of tokens.                                    *)
LEMMA EndsTyped ==
    ASSUME NEW s, NEW k \in Nat, NEW t \in Ends(s, k)
    PROVE  t \in Seq(Token)
<1>1. CASE k = 0
    BY <1>1 DEF Ends
<1>2. CASE k # 0
    <2>1. PICK u \in Seq(Token), x \in Token : t = Append(u, x)
        BY <1>2 DEF Ends
    <2> QED
        BY <2>1, AppendProperties
<1> QED
    BY <1>1, <1>2

(* The last token fits the last character read.                             *)
LEMMA OfEnds ==
    ASSUME NEW s, NEW k \in Nat, NEW t \in Ends(s, k)
    PROVE  /\ t \in Seq(Token)
           /\ k # 0 => \E u \in Seq(Token), x \in Token : t = Append(u, x) /\ (x.isNumber <=> isDigit(s[k]))
<1>1. CASE k = 0
    BY <1>1 DEF Ends
<1>2. CASE k # 0
    <2>1. PICK u \in Seq(Token), x \in Token : t = Append(u, x) /\ (x.isNumber <=> isDigit(s[k]))
        BY <1>2 DEF Ends
    <2> QED
        BY <2>1, AppendProperties
<1> QED
    BY <1>1, <1>2

(* How the character at k leads from the tokens t to the tokens r: it is a  *)
(* token of its own, or the next digit of the last one.                     *)
OnItsOwn(s, k) == ~isDigit(s[k]) \/ k = 1 \/ ~isDigit(s[k - 1])

Begun(s, k) == IF isDigit(s[k]) THEN Number(s[k] - Zero) ELSE Letter(s[k])

GoesOn(t, r, d) ==
    \E u \in Seq(Token), x \in Token : t = Append(u, x) /\ r = Append(u, Number(10 * x.value + d))

(* A character on its own begins a token, a digit behind a digit goes on    *)
(* with the number.                                                         *)
LEMMA NextToken ==
    ASSUME NEW s \in Seq(Nat), NEW k \in 1..Len(s), NEW t \in Ends(s, k - 1)
    PROVE  /\ t \in Seq(Token)
           /\ NextTokens(s, t, k) \in Ends(s, k)
           /\ OnItsOwn(s, k) => NextTokens(s, t, k) = Append(t, Begun(s, k))
           /\ ~OnItsOwn(s, k) => GoesOn(t, NextTokens(s, t, k), s[k] - Zero)
<1>1. s[k] \in Nat /\ k - 1 \in Nat /\ k \in Nat \ {0} /\ (k = 1 => k - 1 = 0) /\ (k # 1 => k - 1 # 0)
    BY ElementOfSeq
<1>2. t \in Seq(Token)
    BY <1>1, OfEnds
<1>3. CASE ~isDigit(s[k])
    <2>1. NextTokens(s, t, k) = Append(t, Letter(s[k]))
        BY <1>3 DEF NextTokens
    <2>2. Letter(s[k]) \in Token /\ ~Letter(s[k]).isNumber
        BY <1>1 DEF Letter, Token
    <2>3. NextTokens(s, t, k) \in Ends(s, k)
        BY <1>1, <1>2, <1>3, <2>1, <2>2, InEnds
    <2> QED
        BY <1>2, <1>3, <2>1, <2>3 DEF OnItsOwn, Begun
<1>4. \A n \in Nat : Number(n) \in Token /\ Number(n).isNumber
    BY DEF Number, Token
<1>5. isDigit(s[k]) => s[k] - Zero \in Nat
    BY <1>1 DEF isDigit, Zero
<1>6. CASE isDigit(s[k]) /\ (k = 1 \/ ~isDigit(s[k - 1]))
    <2>1. t = <<>> \/ ~Last(t).isNumber
        <3>1. CASE k = 1
            BY <1>1, <3>1 DEF Ends
        <3>2. CASE k # 1
            <4>1. PICK u \in Seq(Token), x \in Token : t = Append(u, x) /\ (x.isNumber <=> isDigit(s[k - 1]))
                BY <1>1, <3>2, OfEnds
            <4> QED
                BY <1>6, <3>2, <4>1, FrontLast
        <3> QED
            BY <3>1, <3>2
    <2>2. NextTokens(s, t, k) = Append(t, Number(s[k] - Zero))
        BY <1>6, <2>1 DEF NextTokens
    <2>3. NextTokens(s, t, k) \in Ends(s, k)
        BY <1>1, <1>2, <1>4, <1>5, <1>6, <2>2, InEnds
    <2> QED
        BY <1>2, <1>6, <2>2, <2>3 DEF OnItsOwn, Begun
<1>7. CASE isDigit(s[k]) /\ k # 1 /\ isDigit(s[k - 1])
    <2>1. PICK u \in Seq(Token), x \in Token : t = Append(u, x) /\ (x.isNumber <=> isDigit(s[k - 1]))
        BY <1>1, <1>7, OfEnds
    <2>2. t # <<>> /\ Front(t) = u /\ Last(t) = x /\ x.isNumber
        BY <1>7, <2>1, AppendProperties, FrontLast
    <2> DEFINE z == Number(10 * x.value + (s[k] - Zero))
    <2>3. NextTokens(s, t, k) = Append(u, z)
        BY <1>7, <2>2 DEF NextTokens
    <2>4. z \in Token /\ z.isNumber
        <3>1. PICK p \in Nat, q \in Nat : p = x.value /\ q = s[k] - Zero
            BY <1>5, <1>7 DEF Token
        <3>2. 10 * p + q \in Nat
            OBVIOUS
        <3> QED
            BY <1>4, <3>1, <3>2
    <2> HIDE DEF z
    <2>5. NextTokens(s, t, k) \in Ends(s, k)
        BY <1>1, <1>7, <2>3, <2>4, InEnds
    <2>6. GoesOn(t, NextTokens(s, t, k), s[k] - Zero)
        BY <2>1, <2>3 DEF z, GoesOn
    <2> QED
        BY <1>2, <1>7, <2>5, <2>6 DEF OnItsOwn
<1> QED
    BY <1>3, <1>6, <1>7

(* The tokens of the first characters, for every number of characters.      *)
Cuts(tok, s) ==
    /\ tok[0] = <<>>
    /\ \A k \in 1..Len(s) : tok[k] = NextTokens(s, tok[k - 1], k)
    /\ \A k \in 0..Len(s) : tok[k] \in Ends(s, k)

(* Tokens reads a text from left to right.                                  *)
LEMMA TokensOf ==
    ASSUME NEW s \in Seq(Nat)
    PROVE  \E tok : Cuts(tok, s) /\ Tokens(s) = tok[Len(s)]
<1> DEFINE n == Len(s)
           tokens[k \in 0..Len(s)] ==
               IF k = 0 THEN <<>>
               ELSE LET t == tokens[k - 1]
                        d == s[k] - Zero
                    IN  IF ~isDigit(s[k]) THEN Append(t, Letter(s[k]))
                        ELSE IF t # <<>> /\ Last(t).isNumber
                             THEN Append(Front(t), Number(10 * Last(t).value + d))
                        ELSE Append(t, Number(d))
           I == [k \in 0..n |-> Ends(s, k)]
           S == Seq(Token)
           step == [p \in S \X (1..n) |-> NextTokens(s, p[1], p[2])]
<1>1. n \in Nat
    BY LenProperties
<1>2. Tokens(s) = tokens[n]
    BY DEF Tokens
<1> HIDE DEF n
<1>3. I \in [0..n -> SUBSET S] /\ <<>> \in I[0]
    <2>1. \A k \in 0..n : Ends(s, k) \in SUBSET S
        BY AppendProperties DEF Ends
    <2> QED
        BY <1>1, <2>1 DEF Ends
<1>4. Advances(step, I, n)
    <2>1. ASSUME NEW k \in 1..n, NEW x \in I[k - 1]
          PROVE  step[<<x, k>>] \in I[k]
        <3>1. k - 1 \in 0..n /\ k \in 0..n
            BY <1>1
        <3>2. x \in Ends(s, k - 1)
            BY <3>1
        <3>3. x \in S /\ NextTokens(s, x, k) \in Ends(s, k)
            BY <3>2, NextToken DEF n
        <3> QED
            BY <3>1, <3>3
    <2> QED
        BY <2>1 DEF Advances
<1>5. PICK f \in [0..n -> S] : Computes(f, <<>>, step, n) /\ \A k \in 0..n : f[k] \in I[k]
    <2> HIDE DEF I, step, S
    <2> QED
        BY <1>1, <1>3, <1>4, Recursion
<1>6. f[0] = <<>> /\ \A k \in 1..n : f[k] = NextTokens(s, f[k - 1], k)
    <2>1. ASSUME NEW k \in 1..n
          PROVE  f[k] = NextTokens(s, f[k - 1], k)
        <3>1. k - 1 \in 0..n
            BY <1>1
        <3>2. f[k - 1] \in S
            BY <3>1
        <3>3. f[k] = step[<<f[k - 1], k>>]
            BY <1>5 DEF Computes
        <3> QED
            BY <3>2, <3>3
    <2> QED
        BY <1>5, <2>1 DEF Computes
<1>7. f = [k \in 0..n |-> IF k = 0 THEN <<>> ELSE NextTokens(s, f[k - 1], k)]
    <2>1. ASSUME NEW k \in 0..n
          PROVE  f[k] = IF k = 0 THEN <<>> ELSE NextTokens(s, f[k - 1], k)
        <3>1. k = 0 \/ k \in 1..n
            BY <1>1
        <3> QED
            BY <1>6, <3>1
    <2> QED
        BY <2>1
<1>8. tokens = [k \in 0..n |-> IF k = 0 THEN <<>> ELSE NextTokens(s, tokens[k - 1], k)]
    BY <1>7 DEF NextTokens, n
<1> HIDE DEF tokens
<1>9. ASSUME NEW k \in 0..n
      PROVE  tokens[k] = f[k]
    <2> DEFINE T == {m \in 0..n : tokens[m] = f[m]}
    <2>1. 0 \in T
        BY <1>1, <1>6, <1>8
    <2>2. ASSUME NEW m \in 0..(n - 1), m \in T
          PROVE  m + 1 \in T
        <3>1. m + 1 \in 0..n /\ m + 1 # 0 /\ (m + 1) - 1 = m
            BY <1>1
        <3>2. tokens[m + 1] = NextTokens(s, tokens[m], m + 1)
            BY <1>8, <3>1
        <3>3. f[m + 1] = NextTokens(s, f[m], m + 1)
            BY <1>7, <3>1
        <3> QED
            BY <2>2, <3>1, <3>2, <3>3
    <2>3. \A m \in 0..n : m \in T
        <3> HIDE DEF T
        <3> QED
            BY <1>1, <2>1, <2>2, Induction
    <2> QED
        BY <2>3
<1>10. Cuts(f, s)
    BY <1>5, <1>6 DEF Cuts, n
<1>11. n \in 0..n
    BY <1>1
<1> QED
    BY <1>2, <1>9, <1>10, <1>11 DEF n

(* Texts that begin alike begin with the same tokens.                       *)
LEMMA SameTokens ==
    ASSUME NEW a, NEW b, Len(a) \in Nat, Len(b) \in Nat, NEW ta, NEW tb, Cuts(ta, a), Cuts(tb, b),
           NEW m \in Nat, m <= Len(a), m <= Len(b), Alike(a, b, m)
    PROVE  ta[m] = tb[m]
<1> DEFINE T == {k \in 0..m : ta[k] = tb[k]}
<1>1. 0 \in T
    BY DEF Cuts
<1>2. ASSUME NEW k \in 0..(m - 1), k \in T
      PROVE  k + 1 \in T
    <2>1. k + 1 \in 1..Len(a) /\ k + 1 \in 1..Len(b) /\ (k + 1) - 1 = k /\ k + 1 \in 1..m /\ k + 1 \in 0..m
        OBVIOUS
    <2>2. ta[k + 1] = NextTokens(a, ta[k], k + 1) /\ tb[k + 1] = NextTokens(b, tb[k], k + 1)
        BY <2>1 DEF Cuts
    <2>3. a[k + 1] = b[k + 1] /\ ta[k] = tb[k]
        BY <1>2, <2>1 DEF Alike
    <2>4. NextTokens(a, ta[k], k + 1) = NextTokens(b, tb[k], k + 1)
        BY <2>3 DEF NextTokens
    <2> QED
        BY <2>1, <2>2, <2>4
<1>3. \A k \in 0..m : k \in T
    <2> HIDE DEF T
    <2> QED
        BY <1>1, <1>2, Induction
<1> QED
    BY <1>3

(* The tokens before and after a place.                                     *)
LEMMA OneMore ==
    ASSUME NEW s \in Seq(Nat), NEW tok, Cuts(tok, s), NEW k \in 1..Len(s)
    PROVE  /\ tok[k - 1] \in Seq(Token) /\ tok[k] \in Seq(Token)
           /\ Begun(s, k) \in Token
           /\ OnItsOwn(s, k) => tok[k] = Append(tok[k - 1], Begun(s, k))
           /\ ~OnItsOwn(s, k) => GoesOn(tok[k - 1], tok[k], s[k] - Zero) /\ s[k] - Zero \in Nat
<1>1. Len(s) \in Nat /\ s[k] \in Nat
    BY LenProperties, ElementOfSeq
<1>2. k - 1 \in 0..Len(s) /\ k \in 0..Len(s) /\ k \in Nat
    BY <1>1
<1>3. tok[k - 1] \in Ends(s, k - 1) /\ tok[k] \in Ends(s, k) /\ tok[k] = NextTokens(s, tok[k - 1], k)
    BY <1>2 DEF Cuts
<1>4. tok[k] \in Seq(Token)
    <2> DEFINE t == tok[k]
    <2>1. t \in Ends(s, k)
        BY <1>3
    <2> HIDE DEF t
    <2>2. k \in Nat
        BY <1>2
    <2>3. t \in Seq(Token)
        BY <2>1, <2>2, EndsTyped
    <2> QED
        BY <2>3 DEF t
<1>5. isDigit(s[k]) => s[k] - Zero \in Nat
    BY DigitValue
<1>6. Begun(s, k) \in Token
    BY <1>1, <1>5 DEF Begun, Number, Letter, Token
<1>7. /\ tok[k - 1] \in Seq(Token)
      /\ OnItsOwn(s, k) => tok[k] = Append(tok[k - 1], Begun(s, k))
      /\ ~OnItsOwn(s, k) => GoesOn(tok[k - 1], tok[k], s[k] - Zero)
    BY <1>3, NextToken
<1> QED
    BY <1>4, <1>5, <1>6, <1>7 DEF OnItsOwn

(* The digits of a number make one token.                                   *)
LEMMA NumberToken ==
    ASSUME NEW s \in Seq(Nat), NEW tok, Cuts(tok, s), NEW q \in 1..Len(s),
           OnItsOwn(s, q), NEW n, Run(s, q, n), HasExact(s, q, n)
    PROVE  tok[q + n - 1] = Append(tok[q - 1], Number(extractNumber(s, q).n))
<1>0. PICK v \in [0..n -> Nat] : Exact(v, DigitsOf(s, q, n), n) /\ extractNumber(s, q).n = v[n]
    BY DEF HasExact
<1>1. Len(s) \in Nat /\ n \in Nat \ {0} /\ q + n <= Len(s) + 1
    BY LenProperties DEF Run
<1> DEFINE t == tok[q - 1]
           T == {k \in 0..(n - 1) : tok[q + k] = Append(t, Number(v[k + 1]))}
<1>2. ASSUME NEW k \in 1..n
      PROVE  v[k] = 10 * v[k - 1] + (s[q + k - 1] - Zero)
    BY <1>0 DEF Exact, DigitsOf
<1>3. ASSUME NEW k \in 0..(n - 1)
      PROVE  isDigit(s[q + k]) /\ s[q + k] - Zero \in Nat
    <2>1. q + k \in q..(q + n - 1)
        BY <1>1
    <2>2. isDigit(s[q + k])
        BY <2>1 DEF Run
    <2> QED
        BY <2>2, DigitValue
<1>4. 0 \in T
    <2>1. 0 \in 0..(n - 1) /\ q + 0 = q /\ 1 \in 1..n /\ 1 - 1 = 0 /\ q + 1 - 1 = q
        BY <1>1
    <2>2. isDigit(s[q]) /\ s[q] - Zero \in Nat
        BY <1>3, <2>1
    <2>3. tok[q] = Append(t, Number(s[q] - Zero))
        <3>1. Begun(s, q) = Number(s[q] - Zero)
            BY <2>2 DEF Begun
        <3> QED
            BY <3>1, OneMore
    <2>4. v[1] = 10 * v[0] + (s[q] - Zero) /\ v[0] = 0
        <3>1. v[0] = 0
            BY <1>0 DEF Exact
        <3> QED
            BY <1>2, <2>1, <3>1
    <2>5. v[1] = s[q] - Zero
        <3>1. PICK d \in Nat : d = s[q] - Zero
            BY <2>2
        <3>2. 10 * 0 + d = d
            OBVIOUS
        <3> QED
            BY <2>4, <3>1, <3>2
    <2> QED
        BY <2>1, <2>3, <2>5
<1>5. ASSUME NEW k \in 0..((n - 1) - 1), k \in T
      PROVE  k + 1 \in T
    <2>1. /\ q + k + 1 \in 1..Len(s) /\ (q + k + 1) - 1 = q + k /\ q + k + 1 # 1 /\ k \in 0..(n - 1) /\ k + 1 \in 0..(n - 1)
          /\ k + 2 \in 1..n /\ (k + 2) - 1 = k + 1 /\ q + (k + 2) - 1 = q + k + 1 /\ q + (k + 1) = q + k + 1
          /\ k + 1 \in 0..n /\ (k + 1) + 1 = k + 2
        BY <1>1
    <2>2. ~OnItsOwn(s, q + k + 1)
        BY <1>3, <2>1 DEF OnItsOwn
    <2>3. PICK u \in Seq(Token), x \in Token :
            tok[q + k] = Append(u, x) /\ tok[q + k + 1] = Append(u, Number(10 * x.value + (s[q + k + 1] - Zero)))
        <3>1. GoesOn(tok[(q + k + 1) - 1], tok[q + k + 1], s[q + k + 1] - Zero)
            BY <2>1, <2>2, OneMore
        <3> QED
            BY <2>1, <3>1 DEF GoesOn
    <2>4. t \in Seq(Token) /\ tok[q + k] = Append(t, Number(v[k + 1]))
        BY <1>5, OneMore
    <2>5. Number(v[k + 1]) \in Token /\ Number(v[k + 1]).value = v[k + 1]
        <3>1. v[k + 1] \in Nat
            BY <2>1
        <3> QED
            BY <3>1 DEF Number, Token
    <2>6. u = t /\ x.value = v[k + 1]
        <3>1. Front(tok[q + k]) = u /\ Last(tok[q + k]) = x
            BY <2>3, FrontLast
        <3>2. Front(tok[q + k]) = t /\ Last(tok[q + k]) = Number(v[k + 1])
            BY <2>4, <2>5, FrontLast
        <3> QED
            BY <2>5, <3>1, <3>2
    <2>7. v[k + 2] = 10 * v[k + 1] + (s[q + k + 1] - Zero)
        BY <1>2, <2>1
    <2> QED
        BY <2>1, <2>3, <2>6, <2>7
<1>6. \A k \in 0..(n - 1) : k \in T
    <2>1. n - 1 \in Nat
        BY <1>1
    <2> HIDE DEF T
    <2> QED
        BY <1>4, <1>5, <2>1, Induction
<1>7. n - 1 \in 0..(n - 1) /\ q + (n - 1) = q + n - 1 /\ (n - 1) + 1 = n
    BY <1>1
<1>8. tok[q + (n - 1)] = Append(t, Number(v[(n - 1) + 1]))
    BY <1>6, <1>7
<1> QED
    BY <1>0, <1>7, <1>8

(* Places where no number goes on.                                          *)
Border(s, q) == q = 1 \/ q = Len(s) + 1 \/ ~isDigit(s[q - 1]) \/ ~isDigit(s[q])

Longer(t, u) == Len(t) > Len(u) /\ \A k \in 1..Len(u) : t[k] = u[k]

(* A sequence is the beginning of the same with one element more.           *)
LEMMA AppendLonger ==
    ASSUME NEW S, NEW t \in Seq(S), NEW x \in S
    PROVE  Longer(Append(t, x), t)
    BY AppendProperties, LenProperties DEF Longer

(* The tokens before such a place stay as they are.                         *)
LEMMA TokensStay ==
    ASSUME NEW s \in Seq(Nat), NEW tok, Cuts(tok, s), NEW q \in 1..Len(s), Border(s, q), NEW l \in q..Len(s)
    PROVE  tok[q - 1] \in Seq(Token) /\ tok[l] \in Seq(Token) /\ Longer(tok[l], tok[q - 1])
<1> DEFINE t == tok[q - 1]
           m == Len(s) - q
           T == {k \in 0..m : Longer(tok[q + k], t)}
<1>1. Len(s) \in Nat /\ m \in Nat /\ \A k \in 1..Len(s) : s[k] \in Nat
    BY LenProperties, ElementOfSeq
<1>2. t \in Seq(Token) /\ Len(t) \in Nat
    BY OneMore, LenProperties
<1>3. 0 \in T
    <2>1. 0 \in 0..m /\ q + 0 = q /\ q # Len(s) + 1
        BY <1>1
    <2>2. OnItsOwn(s, q)
        BY <2>1 DEF OnItsOwn, Border
    <2>3. tok[q] = Append(t, Begun(s, q)) /\ Begun(s, q) \in Token
        BY <2>2, OneMore
    <2>4. Longer(tok[q], t)
        BY <1>2, <2>3, AppendLonger
    <2> QED
        BY <2>1, <2>4
<1>4. ASSUME NEW k \in 0..(m - 1), k \in T
      PROVE  k + 1 \in T
    <2> DEFINE j == q + k + 1
    <2>1. j \in 1..Len(s) /\ j - 1 = q + k /\ k + 1 \in 0..m /\ q + (k + 1) = j
        BY <1>1
    <2> HIDE DEF j
    <2> DEFINE before == tok[j - 1]
               after == tok[j]
    <2>2. Longer(before, t) /\ before \in Seq(Token)
        BY <1>4, <2>1, OneMore
    <2>3. /\ Len(before) \in Nat /\ Len(before) > Len(t)
          /\ \A i \in 1..Len(t) : before[i] = t[i]
        BY <2>2, LenProperties DEF Longer
    <2>4. CASE OnItsOwn(s, j)
        <3>1. after = Append(before, Begun(s, j)) /\ Begun(s, j) \in Token
            BY <2>1, <2>4, OneMore
        <3> HIDE DEF before, after
        <3>2. Len(after) = Len(before) + 1 /\ \A i \in 1..Len(before) : after[i] = before[i]
            BY <2>2, <3>1, AppendProperties
        <3>3. Longer(after, t)
            <4>1. ASSUME NEW i \in 1..Len(t)
                  PROVE  after[i] = t[i]
                <5>1. i \in 1..Len(before)
                    BY <1>2, <2>3
                <5> QED
                    BY <2>3, <3>2, <5>1
            <4>2. Len(after) > Len(t)
                BY <1>2, <2>3, <3>2
            <4> QED
                BY <4>1, <4>2 DEF Longer
        <3> QED
            BY <2>1, <3>3 DEF after
    <2>5. CASE ~OnItsOwn(s, j)
        <3>1. GoesOn(before, after, s[j] - Zero) /\ s[j] - Zero \in Nat
            BY <2>1, <2>5, OneMore
        <3> HIDE DEF before, after
        <3>2. PICK u \in Seq(Token), x \in Token :
                before = Append(u, x) /\ after = Append(u, Number(10 * x.value + (s[j] - Zero)))
            BY <3>1 DEF GoesOn
        <3>3. Number(10 * x.value + (s[j] - Zero)) \in Token
            <4>1. PICK p \in Nat, d \in Nat : p = x.value /\ d = s[j] - Zero
                BY <3>1 DEF Token
            <4>2. 10 * p + d \in Nat
                OBVIOUS
            <4> QED
                BY <4>1, <4>2 DEF Number, Token
        <3>4. Len(u) \in Nat /\ Len(before) = Len(u) + 1 /\ \A i \in 1..Len(u) : before[i] = u[i]
            BY <3>2, AppendProperties, LenProperties
        <3>5. Len(after) = Len(u) + 1 /\ \A i \in 1..Len(u) : after[i] = u[i]
            BY <3>2, <3>3, AppendProperties
        <3>6. Len(after) > Len(t) /\ Len(t) <= Len(u)
            BY <1>2, <2>3, <3>4, <3>5
        <3>7. ASSUME NEW i \in 1..Len(t)
              PROVE  after[i] = t[i]
            <4>1. i \in 1..Len(u)
                BY <1>2, <3>4, <3>6
            <4> QED
                BY <2>3, <3>4, <3>5, <4>1
        <3>8. Longer(after, t)
            BY <3>6, <3>7 DEF Longer
        <3> QED
            BY <2>1, <3>8 DEF after
    <2> QED
        BY <2>4, <2>5
<1>6. \A k \in 0..m : k \in T
    <2> HIDE DEF T, m
    <2> QED
        BY <1>1, <1>3, <1>4, Induction
<1>7. l - q \in 0..m /\ q + (l - q) = l /\ l \in 1..Len(s)
    BY <1>1
<1>8. Longer(tok[q + (l - q)], t)
    BY <1>6, <1>7
<1> QED
    BY <1>2, <1>7, <1>8, OneMore

(* A number below MaxInt is the value of its digits.                        *)
LEMMA ExactNumber ==
    ASSUME NEW s \in Seq(Nat), NEW i \in 1..Len(s), isDigit(s[i]), extractNumber(s, i).n < MaxInt,
           NEW n, n = extractNumber(s, i).size
    PROVE  /\ n \in Nat \ {0} /\ Run(s, i, n)
           /\ DigitsOf(s, i, n) \in [1..n -> 0..9]
           /\ HasExact(s, i, n)
<1>1. Run(s, i, n) /\ DigitsOf(s, i, n) \in [1..n -> 0..9]
    BY SizeOfNumber
<1>2. n \in Nat \ {0}
    BY <1>1 DEF Run
<1>3. HasCut(s, i, n)
    BY <1>1, <1>2, ValueOfNumber
<1>4. PICK v \in [0..n -> Nat] : Cut(v, DigitsOf(s, i, n), n) /\ extractNumber(s, i).n = v[n]
    BY <1>3 DEF HasCut
<1>5. n \in Nat /\ v[n] < MaxInt
    BY <1>2, <1>4
<1>6. Exact(v, DigitsOf(s, i, n), n)
    BY <1>1, <1>4, <1>5, NotCut
<1>7. HasExact(s, i, n)
    BY <1>4, <1>6 DEF HasExact
<1> QED
    BY <1>1, <1>2, <1>7

(* The token that begins at a place.                                        *)
Here(s, q) == IF isDigit(s[q]) THEN Number(extractNumber(s, q).n) ELSE Letter(s[q])

(* Where it ends.                                                           *)
After(s, q) == IF isDigit(s[q]) THEN q + extractNumber(s, q).size ELSE q + 1

(* A token that begins at q is what extractNumber finds there, or the       *)
(* character.                                                               *)
LEMMA TokenEnds ==
    ASSUME NEW s \in Seq(Nat), NEW tok, Cuts(tok, s), NEW q \in 1..Len(s), Border(s, q),
           isDigit(s[q]) => extractNumber(s, q).n < MaxInt
    PROVE  /\ After(s, q) \in (q + 1)..(Len(s) + 1) /\ Border(s, After(s, q))
           /\ tok[q - 1] \in Seq(Token) /\ Here(s, q) \in Token
           /\ tok[After(s, q) - 1] = Append(tok[q - 1], Here(s, q))
<1> DEFINE t == tok[q - 1]
           r == After(s, q)
<1>1. Len(s) \in Nat /\ s[q] \in Nat
    BY LenProperties, ElementOfSeq
<1>2. t \in Seq(Token)
    BY OneMore
<1>3. CASE isDigit(s[q])
    <2> DEFINE n == extractNumber(s, q).size
    <2>1. n \in Nat \ {0} /\ Run(s, q, n) /\ HasExact(s, q, n)
        BY <1>3, ExactNumber
    <2>2. Here(s, q) = Number(extractNumber(s, q).n)
        BY <1>3 DEF Here
    <2>3. r = q + n
        BY <1>3 DEF After
    <2> HIDE DEF n, r
    <2>4. OnItsOwn(s, q)
        BY <1>1, <1>3 DEF Border, OnItsOwn
    <2>5. tok[q + n - 1] = Append(t, Here(s, q))
        BY <2>1, <2>2, <2>4, NumberToken
    <2>6. Here(s, q) \in Token
        <3>1. extractNumber(s, q).n \in Nat
            BY <2>1 DEF HasExact
        <3> QED
            BY <2>2, <3>1 DEF Number, Token
    <2>7. r \in (q + 1)..(Len(s) + 1) /\ r - 1 = q + n - 1
        BY <1>1, <2>1, <2>3 DEF Run
    <2>8. r <= Len(s) => ~isDigit(s[r])
        BY <2>1, <2>3 DEF Run
    <2>9. Border(s, r)
        BY <1>1, <2>7, <2>8 DEF Border
    <2> QED
        BY <1>2, <2>5, <2>6, <2>7, <2>9 DEF r
<1>4. CASE ~isDigit(s[q])
    <2>1. r = q + 1 /\ r - 1 = q /\ r \in (q + 1)..(Len(s) + 1)
        BY <1>1, <1>4 DEF After
    <2> HIDE DEF r
    <2>2. Border(s, r)
        BY <1>4, <2>1 DEF Border
    <2>3. OnItsOwn(s, q) /\ Begun(s, q) = Here(s, q)
        BY <1>4 DEF OnItsOwn, Begun, Here
    <2>4. tok[q] = Append(t, Here(s, q)) /\ Here(s, q) \in Token
        BY <2>3, OneMore
    <2> QED
        BY <1>2, <2>1, <2>2, <2>4 DEF r
<1> QED
    BY <1>3, <1>4

(* It is one of the tokens of the text.                                     *)
LEMMA TokenAt ==
    ASSUME NEW s \in Seq(Nat), NEW tok, Cuts(tok, s), NEW q \in 1..Len(s), Border(s, q),
           isDigit(s[q]) => extractNumber(s, q).n < MaxInt
    PROVE  /\ tok[q - 1] \in Seq(Token) /\ tok[Len(s)] \in Seq(Token) /\ Here(s, q) \in Token
           /\ Longer(tok[Len(s)], tok[q - 1])
           /\ tok[Len(s)][Len(tok[q - 1]) + 1] = Here(s, q)
<1> DEFINE t == tok[q - 1]
           all == tok[Len(s)]
           r == After(s, q)
<1>1. Len(s) \in Nat
    BY LenProperties
<1>2. t \in Seq(Token) /\ all \in Seq(Token) /\ Longer(all, t)
    <2>1. Len(s) \in q..Len(s)
        BY <1>1
    <2> QED
        BY <2>1, TokensStay
<1>3. r \in (q + 1)..(Len(s) + 1) /\ Border(s, r) /\ tok[r - 1] = Append(t, Here(s, q)) /\ Here(s, q) \in Token
    BY TokenEnds
<1> HIDE DEF t, all, r
<1> DEFINE u == Append(t, Here(s, q))
<1>4. Len(u) = Len(t) + 1 /\ u[Len(t) + 1] = Here(s, q) /\ Len(t) \in Nat
    BY <1>2, <1>3, AppendProperties, LenProperties
<1> HIDE DEF u
<1>5. CASE r = Len(s) + 1
    <2>1. r - 1 = Len(s)
        BY <1>1, <1>5
    <2>2. all = u
        BY <1>3, <2>1 DEF all, u
    <2>3. all[Len(t) + 1] = Here(s, q)
        BY <1>4, <2>2
    <2> QED
        BY <1>2, <1>3, <2>3 DEF t, all
<1>6. CASE r # Len(s) + 1
    <2>1. r \in 1..Len(s) /\ Len(s) \in r..Len(s)
        <3>1. r \in (q + 1)..(Len(s) + 1)
            BY <1>3
        <3> QED
            BY <1>1, <1>6, <3>1
    <2>2. Longer(all, tok[r - 1])
        BY <1>3, <2>1, TokensStay DEF all
    <2>3. Longer(all, u)
        BY <1>3, <2>2 DEF u
    <2>4. Len(t) + 1 \in 1..Len(u)
        BY <1>4
    <2>5. all[Len(t) + 1] = u[Len(t) + 1]
        BY <2>3, <2>4 DEF Longer
    <2> QED
        BY <1>2, <1>3, <1>4, <2>5 DEF t, all
<1> QED
    BY <1>5, <1>6

-----------------------------------------------------------------------------
(* The comparison *)

(* What CompareLowerCase decides at two places, or where it goes on.        *)
Decide(f, a, b, i, j) ==
    IF i > Len(a) \/ j > Len(b) THEN Compare(Len(a), Len(b))
    ELSE IF isDigit(a[i]) /\ isDigit(b[j])
         THEN IF extractNumber(a, i).n # extractNumber(b, j).n
                THEN Compare(extractNumber(a, i).n, extractNumber(b, j).n)
                ELSE f[<<i + extractNumber(a, i).size, j + extractNumber(b, j).size>>]
    ELSE IF a[i] # b[j] THEN StringsCompare(a, b)
    ELSE f[<<i + 1, j + 1>>]

Scans(f, a, b) ==
    \A i \in 1..(Len(a) + 1), j \in 1..(Len(b) + 1) : f[<<i, j>>] = Decide(f, a, b, i, j)

Places(a, b) == (1..(Len(a) + 1)) \X (1..(Len(b) + 1))

AgreeBehind(f, g, a, b, i) ==
    \A k \in 1..(Len(a) + 1), j \in 1..(Len(b) + 1) : k > i => f[<<k, j>>] = g[<<k, j>>]

(* The places that a decision depends on are behind.                        *)
LEMMA DecideBehind ==
    ASSUME NEW a \in Seq(Nat), NEW b \in Seq(Nat), NEW f \in [Places(a, b) -> {-1, 0, 1}], NEW g,
           NEW i \in 1..(Len(a) + 1), NEW j \in 1..(Len(b) + 1), AgreeBehind(f, g, a, b, i)
    PROVE  Decide(f, a, b, i, j) = Decide(g, a, b, i, j) /\ Decide(f, a, b, i, j) \in {-1, 0, 1}
<1>1. Len(a) \in Nat /\ Len(b) \in Nat
    BY LenProperties
<1>2. \A x, y : Compare(x, y) \in {-1, 0, 1}
    BY DEF Compare
<1>3. StringsCompare(a, b) \in {-1, 0, 1}
    BY <1>2 DEF StringsCompare
<1>4. CASE i > Len(a) \/ j > Len(b)
    BY <1>2, <1>4 DEF Decide
<1>5. CASE ~(i > Len(a) \/ j > Len(b)) /\ isDigit(a[i]) /\ isDigit(b[j])
    <2> DEFINE x == extractNumber(a, i)
               y == extractNumber(b, j)
    <2>1. i \in 1..Len(a) /\ j \in 1..Len(b)
        BY <1>1, <1>5
    <2>2. Run(a, i, x.size) /\ Run(b, j, y.size)
        BY <1>5, <2>1, SizeOfNumber
    <2>3. i + x.size \in 1..(Len(a) + 1) /\ i + x.size > i /\ j + y.size \in 1..(Len(b) + 1)
        <3>1. /\ x.size \in Nat \ {0} /\ i + x.size <= Len(a) + 1
              /\ y.size \in Nat \ {0} /\ j + y.size <= Len(b) + 1
            BY <2>2 DEF Run
        <3>2. PICK m \in Nat \ {0}, n \in Nat \ {0} : m = x.size /\ n = y.size
            BY <3>1
        <3>3. i + m <= Len(a) + 1 /\ j + n <= Len(b) + 1
            BY <3>1, <3>2
        <3>4. i + m \in 1..(Len(a) + 1) /\ i + m > i /\ j + n \in 1..(Len(b) + 1)
            BY <1>1, <2>1, <3>3
        <3> QED
            BY <3>2, <3>4
    <2>4. f[<<i + x.size, j + y.size>>] = g[<<i + x.size, j + y.size>>]
        BY <2>3 DEF AgreeBehind
    <2>5. f[<<i + x.size, j + y.size>>] \in {-1, 0, 1}
        BY <2>3 DEF Places
    <2> QED
        BY <1>2, <1>5, <2>4, <2>5 DEF Decide
<1>6. CASE ~(i > Len(a) \/ j > Len(b)) /\ ~(isDigit(a[i]) /\ isDigit(b[j]))
    <2>1. i + 1 \in 1..(Len(a) + 1) /\ i + 1 > i /\ j + 1 \in 1..(Len(b) + 1)
        BY <1>1, <1>6
    <2>2. f[<<i + 1, j + 1>>] = g[<<i + 1, j + 1>>]
        BY <2>1 DEF AgreeBehind
    <2>3. f[<<i + 1, j + 1>>] \in {-1, 0, 1}
        BY <2>1 DEF Places
    <2> QED
        BY <1>3, <1>6, <2>2, <2>3 DEF Decide
<1> QED
    BY <1>4, <1>5, <1>6

(* The decisions of all places, the last ones first.                        *)
LEMMA DecisionsExist ==
    ASSUME NEW a \in Seq(Nat), NEW b \in Seq(Nat)
    PROVE  \E f \in [Places(a, b) -> {-1, 0, 1}] : Scans(f, a, b)
<1> DEFINE N == Len(a) + 1
           M == Len(b) + 1
           D == Places(a, b)
           V == {-1, 0, 1}
           S == [D -> V]
           Filled(f, k) == [d \in D |-> IF d[1] = N + 1 - k THEN Decide(f, a, b, d[1], d[2]) ELSE f[d]]
           step == [p \in S \X (1..N) |-> Filled(p[1], p[2])]
           none == [d \in D |-> 0]
<1>1. N \in Nat /\ M \in Nat
    BY LenProperties
<1>2. \A d \in D : d[1] \in 1..N /\ d[2] \in 1..M
    BY DEF Places
<1>3. ASSUME NEW f \in S, NEW k \in 1..N
      PROVE  Filled(f, k) \in S
    <2>1. ASSUME NEW i \in 1..N, NEW j \in 1..M
          PROVE  Decide(f, a, b, i, j) \in V
        <3>1. AgreeBehind(f, f, a, b, i)
            BY DEF AgreeBehind
        <3> QED
            BY <3>1, DecideBehind
    <2> QED
        BY <1>2, <2>1
<1>4. step \in [S \X (1..N) -> S]
    <2> HIDE DEF S, Filled
    <2> QED
        BY <1>3
<1>5. none \in S
    OBVIOUS
<1>6. PICK h \in [0..N -> S] : Computes(h, none, step, N)
    <2> HIDE DEF S, step, none, N
    <2> QED
        BY <1>1, <1>4, <1>5, TypedRecursion
<1>7. ASSUME NEW k \in 0..(N - 1)
      PROVE  h[k] \in S /\ h[k + 1] \in S /\ h[k + 1] = Filled(h[k], k + 1)
    <2>1. k \in 0..N /\ k + 1 \in 0..N /\ k + 1 \in 1..N /\ (k + 1) - 1 = k
        BY <1>1
    <2>2. h[k + 1] = step[<<h[(k + 1) - 1], k + 1>>]
        BY <1>6, <2>1 DEF Computes
    <2>3. h[k] \in S /\ h[k + 1] \in S
        BY <2>1
    <2> HIDE DEF S, Filled
    <2> QED
        BY <2>1, <2>2, <2>3
<1> DEFINE T == {k \in 0..N : \A i \in 1..N, j \in 1..M : i > N - k => h[k][<<i, j>>] = Decide(h[k], a, b, i, j)}
<1>8. 0 \in T
    BY <1>1
<1>9. ASSUME NEW k \in 0..(N - 1), k \in T
      PROVE  k + 1 \in T
    <2> DEFINE f == h[k]
               g == h[k + 1]
    <2>1. f \in S /\ g \in S /\ g = Filled(f, k + 1)
        BY <1>7
    <2>2. k + 1 \in 0..N /\ N + 1 - (k + 1) = N - k
        BY <1>1
    <2>3. ASSUME NEW i \in 1..N, NEW j \in 1..M
          PROVE  g[<<i, j>>] = IF i = N - k THEN Decide(f, a, b, i, j) ELSE f[<<i, j>>]
        <3>1. <<i, j>> \in D /\ <<i, j>>[1] = i /\ <<i, j>>[2] = j
            BY DEF Places
        <3> HIDE DEF D, N, M, f, g
        <3> QED
            BY <2>1, <2>2, <3>1
    <2> HIDE DEF f, g
    <2>4. \A i \in 1..N, j \in 1..M : i > N - k => f[<<i, j>>] = Decide(f, a, b, i, j)
        BY <1>9 DEF f
    <2>5. ASSUME NEW i \in 1..N, NEW j \in 1..M, i > N - (k + 1)
          PROVE  g[<<i, j>>] = Decide(g, a, b, i, j)
        <3>1. i >= N - k
            BY <1>1, <2>5
        <3>2. AgreeBehind(f, g, a, b, i)
            <4>1. \A m \in 1..N : m > i => m # N - k
                BY <1>1, <3>1
            <4> QED
                BY <2>3, <4>1 DEF AgreeBehind
        <3>3. Decide(f, a, b, i, j) = Decide(g, a, b, i, j)
            <4>1. f \in [Places(a, b) -> {-1, 0, 1}] /\ i \in 1..(Len(a) + 1) /\ j \in 1..(Len(b) + 1)
                BY <2>1
            <4> HIDE DEF D, V, S, N, M
            <4> QED
                BY <3>2, <4>1, DecideBehind
        <3>4. g[<<i, j>>] = Decide(f, a, b, i, j)
            <4>1. CASE i = N - k
                BY <2>3, <4>1
            <4>2. CASE i # N - k
                <5>1. i > N - k
                    <6> HIDE DEF N
                    <6> QED
                        BY <1>1, <3>1, <4>2
                <5> QED
                    BY <2>3, <2>4, <4>2, <5>1
            <4> QED
                BY <4>1, <4>2
        <3> QED
            BY <3>3, <3>4
    <2> QED
        BY <2>2, <2>5 DEF g
<1>10. \A k \in 0..N : k \in T
    <2> HIDE DEF T, N
    <2> QED
        BY <1>1, <1>8, <1>9, Induction
<1>11. N \in T /\ h[N] \in S
    <2>1. N \in 0..N
        BY <1>1
    <2> QED
        BY <1>10, <2>1
<1>12. \A i \in 1..N, j \in 1..M : h[N][<<i, j>>] = Decide(h[N], a, b, i, j)
    <2>1. \A i \in 1..N : i > N - N
        BY <1>1
    <2> QED
        BY <1>11, <2>1
<1>13. Scans(h[N], a, b)
    BY <1>12 DEF Scans
<1> QED
    BY <1>11, <1>13

(* CompareLowerCase is the result of the scan from the first characters of  *)
(* both texts.                                                              *)
LEMMA Scanned ==
    ASSUME NEW a \in Seq(Nat), NEW b \in Seq(Nat)
    PROVE  \E f : Scans(f, a, b) /\ CompareLowerCase(a, b) = f[<<1, 1>>]
<1> DEFINE from[at \in (1..(Len(a) + 1)) \X (1..(Len(b) + 1))] ==
               LET i == at[1]
                   j == at[2]
                   x == extractNumber(a, i)
                   y == extractNumber(b, j)
               IN  IF i > Len(a) \/ j > Len(b) THEN Compare(Len(a), Len(b))
                   ELSE IF isDigit(a[i]) /\ isDigit(b[j])
                        THEN IF x.n # y.n THEN Compare(x.n, y.n) ELSE from[<<i + x.size, j + y.size>>]
                   ELSE IF a[i] # b[j] THEN StringsCompare(a, b)
                   ELSE from[<<i + 1, j + 1>>]
<1>1. CompareLowerCase(a, b) = from[<<1, 1>>]
    BY DEF CompareLowerCase
<1>2. PICK f \in [Places(a, b) -> {-1, 0, 1}] : Scans(f, a, b)
    BY DecisionsExist
<1>3. ASSUME NEW d \in Places(a, b)
      PROVE  f[d] = Decide(f, a, b, d[1], d[2])
    <2>1. PICK i \in 1..(Len(a) + 1), j \in 1..(Len(b) + 1) : d = <<i, j>>
        BY DEF Places
    <2>2. d[1] = i /\ d[2] = j
        BY <2>1
    <2> QED
        BY <1>2, <2>1, <2>2 DEF Scans
<1>4. f = [d \in Places(a, b) |-> Decide(f, a, b, d[1], d[2])]
    BY <1>2, <1>3
<1>5. from = [d \in Places(a, b) |-> Decide(from, a, b, d[1], d[2])]
    BY <1>4 DEF Decide, Places
<1> HIDE DEF from
<1>6. Scans(from, a, b)
    <2>1. ASSUME NEW i \in 1..(Len(a) + 1), NEW j \in 1..(Len(b) + 1)
          PROVE  from[<<i, j>>] = Decide(from, a, b, i, j)
        <3>1. <<i, j>> \in Places(a, b) /\ <<i, j>>[1] = i /\ <<i, j>>[2] = j
            BY DEF Places
        <3> QED
            BY <1>5, <3>1
    <2> QED
        BY <2>1 DEF Scans
<1> QED
    BY <1>1, <1>6

(* The run of digits at a place has one length.                             *)
LEMMA RunLength ==
    ASSUME NEW s, Len(s) \in Nat, NEW i \in Nat \ {0}, NEW m, NEW n, Run(s, i, m), Run(s, i, n)
    PROVE  m = n
<1>1. m \in Nat \ {0} /\ n \in Nat \ {0} /\ i + m <= Len(s) + 1 /\ i + n <= Len(s) + 1
    BY DEF Run
<1>2. CASE m < n
    <2>1. i + m <= Len(s) /\ i + m \in i..(i + n - 1)
        BY <1>1, <1>2
    <2> QED
        BY <2>1 DEF Run
<1>3. CASE n < m
    <2>1. i + n <= Len(s) /\ i + n \in i..(i + m - 1)
        BY <1>1, <1>3
    <2> QED
        BY <2>1 DEF Run
<1> QED
    BY <1>1, <1>2, <1>3

(* Digits have one value.                                                   *)
LEMMA OneValue ==
    ASSUME NEW n \in Nat, NEW d, NEW v, NEW w, Cut(v, d, n), Cut(w, d, n)
    PROVE  v[n] = w[n]
<1> DEFINE T == {k \in 0..n : v[k] = w[k]}
<1>1. 0 \in T
    BY DEF Cut
<1>2. ASSUME NEW k \in 0..(n - 1), k \in T
      PROVE  k + 1 \in T
    <2>1. k + 1 \in 1..n /\ (k + 1) - 1 = k /\ k + 1 \in 0..n
        OBVIOUS
    <2>2. /\ v[k + 1] = IF MaxInt <= 10 * v[k] + d[k + 1] THEN MaxInt ELSE 10 * v[k] + d[k + 1]
          /\ w[k + 1] = IF MaxInt <= 10 * w[k] + d[k + 1] THEN MaxInt ELSE 10 * w[k] + d[k + 1]
        BY <2>1 DEF Cut
    <2>3. v[k] = w[k]
        BY <1>2
    <2> QED
        BY <2>1, <2>2, <2>3
<1>3. \A k \in 0..n : k \in T
    <2> HIDE DEF T
    <2> QED
        BY <1>1, <1>2, Induction
<1> QED
    BY <1>3

(* The same digits are read as the same number.                             *)
LEMMA SameNumber ==
    ASSUME NEW a \in Seq(Nat), NEW b \in Seq(Nat), NEW i \in 1..Len(a), i \in 1..Len(b), NEW n,
           Run(a, i, n), Run(b, i, n), \A k \in i..(i + n - 1) : a[k] = b[k]
    PROVE  /\ extractNumber(a, i).size = n /\ extractNumber(b, i).size = n
           /\ extractNumber(a, i).n = extractNumber(b, i).n
<1>1. Len(a) \in Nat /\ Len(b) \in Nat
    BY LenProperties
<1>2. i \in Nat \ {0} /\ n \in Nat /\ n >= 1
    BY DEF Run
<1>3. isDigit(a[i]) /\ isDigit(b[i])
    <2>1. i \in i..(i + n - 1)
        BY <1>2
    <2> QED
        BY <2>1 DEF Run
<1>4. extractNumber(a, i).size = n /\ extractNumber(b, i).size = n
    <2>1. Run(a, i, extractNumber(a, i).size) /\ Run(b, i, extractNumber(b, i).size)
        BY <1>3, SizeOfNumber
    <2> QED
        BY <1>1, <1>2, <2>1, RunLength
<1>5. DigitsOf(a, i, n) \in [1..n -> 0..9] /\ DigitsOf(b, i, n) \in [1..n -> 0..9]
    BY <1>3, <1>4, SizeOfNumber
<1>6. HasCut(a, i, n) /\ HasCut(b, i, n)
    BY <1>2, <1>4, <1>5, ValueOfNumber
<1>7. DigitsOf(a, i, n) = DigitsOf(b, i, n)
    <2>1. \A k \in 1..n : i + k - 1 \in i..(i + n - 1)
        BY <1>2
    <2> QED
        BY <2>1 DEF DigitsOf
<1>8. PICK v : Cut(v, DigitsOf(a, i, n), n) /\ extractNumber(a, i).n = v[n]
    BY <1>6 DEF HasCut
<1>9. PICK w : Cut(w, DigitsOf(b, i, n), n) /\ extractNumber(b, i).n = w[n]
    BY <1>6 DEF HasCut
<1>10. v[n] = w[n]
    BY <1>2, <1>7, <1>8, <1>9, OneValue
<1> QED
    BY <1>4, <1>8, <1>9, <1>10

(* Where the digits before a place begin.                                   *)
LEMMA RunStart ==
    ASSUME NEW s, NEW p \in Nat \ {0}, isDigit(s[p])
    PROVE  \E i \in 1..p : (\A k \in i..p : isDigit(s[k])) /\ (i = 1 \/ ~isDigit(s[i - 1]))
<1> DEFINE T == {i \in 1..p : \A k \in i..p : isDigit(s[k])}
<1>1. T \in SUBSET Nat /\ p \in T
    OBVIOUS
<1>2. Min(T) \in T /\ \A y \in T : Min(T) <= y
    BY <1>1, LeastNumber
<1>3. PICK i \in T : \A y \in T : i <= y
    BY <1>2
<1>4. ASSUME i # 1, isDigit(s[i - 1])
      PROVE  FALSE
    <2>1. i - 1 \in 1..p /\ \A k \in (i - 1)..p : k = i - 1 \/ k \in i..p
        BY <1>4
    <2>2. i - 1 \in T
        BY <1>4, <2>1
    <2> QED
        BY <1>3, <2>2
<1> QED
    BY <1>3, <1>4

(* Equal beginnings decide nothing.                                         *)
LEMMA Reached ==
    ASSUME NEW a \in Seq(Nat), NEW b \in Seq(Nat), NEW f, Scans(f, a, b), NEW q \in Nat \ {0},
           q <= Len(a) + 1, q <= Len(b) + 1, \A k \in 1..(q - 1) : a[k] = b[k],
           Border(a, q), Border(b, q)
    PROVE  f[<<1, 1>>] = f[<<q, q>>]
<1>1. Len(a) \in Nat /\ Len(b) \in Nat
    BY LenProperties
<1> DEFINE Fine(p) == Border(a, p) /\ Border(b, p) => f[<<1, 1>>] = f[<<p, p>>]
           T == {k \in 0..(q - 1) : \A p \in 1..(k + 1) : Fine(p)}
<1>2. 0 \in T
    <2>1. 0 \in 0..(q - 1) /\ \A p \in 1..(0 + 1) : p = 1
        OBVIOUS
    <2>2. Fine(1)
        OBVIOUS
    <2> HIDE DEF Fine
    <2> QED
        BY <2>1, <2>2
<1>3. ASSUME NEW p \in 2..q, \A i \in 1..(p - 1) : Fine(i), Border(a, p), Border(b, p)
      PROVE  f[<<1, 1>>] = f[<<p, p>>]
    <2> DEFINE o == p - 1
    <2>1. /\ o \in 1..Len(a) /\ o \in 1..Len(b) /\ o \in 1..(q - 1) /\ o + 1 = p /\ o \in Nat \ {0}
          /\ p \in 1..(Len(a) + 1) /\ p \in 1..(Len(b) + 1)
          /\ o \in 1..(Len(a) + 1) /\ o \in 1..(Len(b) + 1)
          /\ o <= Len(a) /\ o <= Len(b)
        BY <1>1
    <2> HIDE DEF o
    <2>2. a[o] = b[o]
        BY <2>1
    <2>3. CASE ~isDigit(a[o])
        <3>1. Border(a, o) /\ Border(b, o)
            BY <2>2, <2>3 DEF Border
        <3>2. f[<<1, 1>>] = f[<<o, o>>]
            BY <1>3, <3>1 DEF o
        <3>3. f[<<o, o>>] = Decide(f, a, b, o, o)
            BY <2>1 DEF Scans
        <3>4. Decide(f, a, b, o, o) = f[<<o + 1, o + 1>>]
            <4>1. ~(o > Len(a) \/ o > Len(b))
                BY <1>1, <2>1
            <4> QED
                BY <2>2, <2>3, <4>1 DEF Decide
        <3> QED
            BY <2>1, <3>2, <3>3, <3>4
    <2>4. CASE isDigit(a[o])
        <3>1. PICK i \in 1..o : (\A k \in i..o : isDigit(a[k])) /\ (i = 1 \/ ~isDigit(a[i - 1]))
            BY <2>1, <2>4, RunStart
        <3> DEFINE n == p - i
        <3>2. /\ i \in 1..Len(a) /\ i \in 1..Len(b) /\ n \in Nat \ {0} /\ i + n = p /\ i + n - 1 = o
              /\ i \in 1..(Len(a) + 1) /\ i \in 1..(Len(b) + 1) /\ i \in 1..(p - 1)
              /\ ~(i > Len(a) \/ i > Len(b)) /\ i \in i..o
            BY <1>1, <2>1
        <3>3. \A k \in i..o : k \in 1..(q - 1)
            BY <2>1
        <3>4. \A k \in i..o : a[k] = b[k] /\ isDigit(b[k])
            BY <3>1, <3>3
        <3>5. i # 1 => i - 1 \in 1..(q - 1)
            BY <2>1
        <3>6. Border(a, i) /\ Border(b, i)
            BY <3>1, <3>5 DEF Border
        <3>7. f[<<1, 1>>] = f[<<i, i>>]
            BY <1>3, <3>2, <3>6
        <3>8. (p <= Len(a) => ~isDigit(a[p])) /\ (p <= Len(b) => ~isDigit(b[p]))
            <4>1. isDigit(a[p - 1]) /\ isDigit(b[p - 1]) /\ p # 1
                BY <2>2, <2>4 DEF o
            <4>2. (p <= Len(a) => p # Len(a) + 1) /\ (p <= Len(b) => p # Len(b) + 1)
                BY <1>1
            <4> QED
                BY <1>3, <4>1, <4>2 DEF Border
        <3> HIDE DEF n
        <3>9. Run(a, i, n) /\ Run(b, i, n)
            <4>1. i + n <= Len(a) + 1 /\ i + n <= Len(b) + 1
                BY <1>1, <2>1, <3>2
            <4>2. (i + n <= Len(a) => ~isDigit(a[i + n])) /\ (i + n <= Len(b) => ~isDigit(b[i + n]))
                BY <3>2, <3>8
            <4>3. \A k \in i..(i + n - 1) : isDigit(a[k]) /\ isDigit(b[k])
                BY <3>1, <3>2, <3>4
            <4>4. n \in Nat \ {0}
                BY <3>2
            <4> QED
                BY <4>1, <4>2, <4>3, <4>4 DEF Run
        <3>10. /\ extractNumber(a, i).size = n /\ extractNumber(b, i).size = n
               /\ extractNumber(a, i).n = extractNumber(b, i).n
            BY <3>2, <3>4, <3>9, SameNumber
        <3>11. f[<<i, i>>] = Decide(f, a, b, i, i)
            BY <3>2 DEF Scans
        <3>12. Decide(f, a, b, i, i) = f[<<i + n, i + n>>]
            BY <3>1, <3>2, <3>4, <3>10 DEF Decide
        <3> QED
            BY <3>2, <3>7, <3>11, <3>12
    <2> QED
        BY <2>3, <2>4
<1>4. ASSUME NEW k \in 0..((q - 1) - 1), k \in T
      PROVE  k + 1 \in T
    <2>1. k + 1 \in 0..(q - 1) /\ k + 2 \in 2..q /\ (k + 2) - 1 = k + 1
        OBVIOUS
    <2>2. \A p \in 1..(k + 1) : Fine(p)
        BY <1>4
    <2> HIDE DEF Fine
    <2>3. Fine(k + 2)
        BY <1>3, <2>1, <2>2 DEF Fine
    <2>4. \A p \in 1..((k + 1) + 1) : p \in 1..(k + 1) \/ p = k + 2
        OBVIOUS
    <2> QED
        BY <2>1, <2>2, <2>3, <2>4
<1>5. \A k \in 0..(q - 1) : k \in T
    <2>1. q - 1 \in Nat
        OBVIOUS
    <2> HIDE DEF T
    <2> QED
        BY <1>2, <1>4, <2>1, Induction
<1>6. q - 1 \in 0..(q - 1) /\ q \in 1..((q - 1) + 1)
    OBVIOUS
<1>7. Fine(q)
    <2> HIDE DEF Fine
    <2> QED
        BY <1>5, <1>6
<1> QED
    BY <1>7

-----------------------------------------------------------------------------
(* The comparison and the reference *)

(* The numbers of plain names are below MaxInt.                             *)
LEMMA PlainNumber ==
    ASSUME NEW s \in Seq(Nat), Plain(s), NEW i \in 1..Len(s), isDigit(s[i]), i = 1 \/ ~isDigit(s[i - 1])
    PROVE  extractNumber(s, i).n < MaxInt
<1>1. DOMAIN s = 1..Len(s)
    BY LenProperties
<1> QED
    BY <1>1 DEF Plain

(* Numbers of the same length are equal only if their digits are.           *)
LEMMA EqualNumbers ==
    ASSUME NEW a \in Seq(Nat), NEW b \in Seq(Nat), NEW i \in 1..Len(a), i \in 1..Len(b),
           isDigit(a[i]), isDigit(b[i]),
           extractNumber(a, i).n < MaxInt, extractNumber(b, i).n < MaxInt,
           extractNumber(a, i).n = extractNumber(b, i).n,
           extractNumber(a, i).size = extractNumber(b, i).size
    PROVE  \E n \in Nat : Run(a, i, n) /\ Run(b, i, n) /\ \A k \in i..(i + n - 1) : a[k] = b[k]
<1> DEFINE n == extractNumber(b, i).size
           x == DigitsOf(a, i, n)
           y == DigitsOf(b, i, n)
<1>1. n \in Nat \ {0} /\ Run(a, i, n) /\ x \in [1..n -> 0..9] /\ HasExact(a, i, n)
    BY ExactNumber
<1>2. n \in Nat \ {0} /\ Run(b, i, n) /\ y \in [1..n -> 0..9] /\ HasExact(b, i, n)
    BY ExactNumber
<1>3. PICK v \in [0..n -> Nat] : Exact(v, x, n) /\ extractNumber(a, i).n = v[n]
    BY <1>1 DEF HasExact
<1>4. PICK w \in [0..n -> Nat] : Exact(w, y, n) /\ extractNumber(b, i).n = w[n]
    BY <1>2 DEF HasExact
<1>5. \A k \in 1..n : x[k] = a[i + k - 1] - Zero
    BY DEF DigitsOf
<1>6. \A k \in 1..n : y[k] = b[i + k - 1] - Zero
    BY DEF DigitsOf
<1>7. v[n] = w[n]
    BY <1>3, <1>4
<1> HIDE DEF n, x, y
<1>10. Alike(x, y, n)
    BY <1>1, <1>2, <1>3, <1>4, <1>7, OneSpelling
<1>11. n \in Nat \ {0} /\ i + n <= Len(a) + 1 /\ i + n <= Len(b) + 1
    BY <1>1, <1>2 DEF Run
<1>12. ASSUME NEW k \in i..(i + n - 1)
       PROVE  a[k] = b[k]
    <2> DEFINE j == k - i + 1
    <2>1. j \in 1..n /\ i + j - 1 = k /\ k \in 1..Len(a) /\ k \in 1..Len(b)
        <3>1. i \in Nat \ {0} /\ n \in Nat /\ k \in Int /\ Len(a) \in Nat /\ Len(b) \in Nat
            BY <1>11, LenProperties
        <3>2. i <= k /\ k <= i + n - 1
            BY <1>12, <3>1
        <3>3. j \in 1..n /\ i + j - 1 = k
            BY <3>1, <3>2
        <3>4. k \in 1..Len(a)
            BY <1>11, <3>1, <3>2
        <3>5. k \in 1..Len(b)
            BY <1>11, <3>1, <3>2
        <3> QED
            BY <3>3, <3>4, <3>5
    <2> HIDE DEF j
    <2>2. x[j] = y[j]
        BY <1>10, <2>1 DEF Alike
    <2>3. a[k] - Zero = b[k] - Zero
        BY <1>5, <1>6, <2>1, <2>2
    <2>4. a[k] \in Nat /\ b[k] \in Nat
        BY <2>1, ElementOfSeq
    <2>5. PICK c \in Nat, d \in Nat : c = a[k] /\ d = b[k]
        BY <2>4
    <2>6. c - 48 = d - 48
        BY <2>3, <2>5 DEF Zero
    <2>7. c = d
        BY <2>6
    <2> QED
        BY <2>5, <2>7
<1> QED
    BY <1>1, <1>2, <1>12

(* Where the first of two texts, or of two sequences of tokens, ends or     *)
(* differs from the second.                                                 *)
FirstDiff(a, b, p) ==
    /\ p \in Nat \ {0} /\ p <= Len(a) + 1 /\ p <= Len(b) + 1
    /\ \A k \in 1..(p - 1) : a[k] = b[k]
    /\ p <= Len(a) \/ p <= Len(b)
    /\ p <= Len(a) /\ p <= Len(b) => a[p] # b[p]

(* Texts that differ do so first at some place.                             *)
LEMMA FirstDiffExists ==
    ASSUME NEW a \in Seq(Nat), NEW b \in Seq(Nat), a # b
    PROVE  \E p : FirstDiff(a, b, p)
<1> DEFINE T == {k \in Nat \ {0} : k = Len(a) + 1 \/ k = Len(b) + 1 \/ a[k] # b[k]}
<1>1. Len(a) \in Nat /\ Len(b) \in Nat
    BY LenProperties
<1>2. T \in SUBSET Nat /\ Len(a) + 1 \in T /\ Len(b) + 1 \in T
    BY <1>1
<1>3. Min(T) \in T /\ \A y \in T : Min(T) <= y
    BY <1>2, LeastNumber
<1>4. PICK p \in T : \A y \in T : p <= y
    BY <1>3
<1>5. p \in Nat \ {0} /\ p <= Len(a) + 1 /\ p <= Len(b) + 1
    BY <1>2, <1>4
<1>6. \A k \in 1..(p - 1) : a[k] = b[k]
    <2>1. \A k \in 1..(p - 1) : k \in Nat \ {0} /\ ~(p <= k)
        BY <1>5
    <2> QED
        BY <1>4, <2>1
<1>7. p <= Len(a) /\ p <= Len(b) => a[p] # b[p]
    <2>1. p <= Len(a) /\ p <= Len(b) => p # Len(a) + 1 /\ p # Len(b) + 1
        BY <1>1, <1>5
    <2> QED
        BY <1>4, <2>1
<1>8. p <= Len(a) \/ p <= Len(b)
    <2> SUFFICES ASSUME p = Len(a) + 1, p = Len(b) + 1
                 PROVE  FALSE
        BY <1>1, <1>5
    <2>1. Len(a) = Len(b) /\ p - 1 = Len(a)
        BY <1>1
    <2>2. \A k \in 1..Len(a) : a[k] = b[k]
        BY <1>6, <2>1
    <2> QED
        BY <2>1, <2>2, SeqEqual
<1> QED
    BY <1>5, <1>6, <1>7, <1>8 DEF FirstDiff

(* The tokens s stand before the tokens t: after l common ones s ends or    *)
(* has the lower token.                                                     *)
Ahead(s, t, l) ==
    /\ l \in Nat /\ l <= Len(s) /\ l < Len(t)
    /\ \A k \in 1..l : s[k] = t[k]
    /\ Len(s) = l \/ TokenBefore(s[l + 1], t[l + 1])

Lex(s, t) == \E l \in Nat : Ahead(s, t, l)

Verdict(a, b, c) ==
    (c = -1 /\ Lex(Tokens(a), Tokens(b))) \/ (c = 1 /\ Lex(Tokens(b), Tokens(a)))

(* The first token that differs decides the order.                          *)
LEMMA LowerToken ==
    ASSUME NEW s \in Seq(Token), NEW t \in Seq(Token), NEW u \in Seq(Token), Longer(s, u), Longer(t, u),
           TokenBefore(s[Len(u) + 1], t[Len(u) + 1])
    PROVE  Lex(s, t)
<1>1. Len(s) \in Nat /\ Len(t) \in Nat /\ Len(u) \in Nat
    BY LenProperties
<1>2. Len(u) <= Len(s) /\ Len(u) < Len(t)
    BY <1>1 DEF Longer
<1>3. \A k \in 1..Len(u) : s[k] = t[k]
    BY DEF Longer
<1>4. Ahead(s, t, Len(u))
    BY <1>1, <1>2, <1>3 DEF Ahead
<1> QED
    BY <1>1, <1>4 DEF Lex

(* cmp.Compare decides as the numbers do.                                   *)
LEMMA Compared ==
    ASSUME NEW x \in Int, NEW y \in Int
    PROVE  (Compare(x, y) = -1 <=> x < y) /\ (Compare(x, y) = 1 <=> y < x)
    BY DEF Compare

(* Texts that begin alike have the same tokens so far.                      *)
LEMMA SameStart ==
    ASSUME NEW a \in Seq(Nat), NEW b \in Seq(Nat), NEW p \in 1..Len(a), p \in 1..Len(b), Alike(a, b, p - 1),
           NEW ta, NEW tb, Cuts(ta, a), Cuts(tb, b)
    PROVE  ta[p - 1] = tb[p - 1]
<1>1. Len(a) \in Nat /\ Len(b) \in Nat
    BY LenProperties
<1> DEFINE m == p - 1
<1>2. m \in Nat /\ m <= Len(a) /\ m <= Len(b)
    BY <1>1
<1>3. Alike(a, b, m)
    OBVIOUS
<1> HIDE DEF m
<1>4. ta[m] = tb[m]
    BY <1>1, <1>2, <1>3, SameTokens
<1> QED
    BY <1>4 DEF m

(* Where two texts that began alike have tokens that differ, the comparison *)
(* of these tokens decides.                                                 *)
LEMMA TokensDecide ==
    ASSUME NEW a \in Seq(Nat), NEW b \in Seq(Nat), NEW p \in 1..Len(a), p \in 1..Len(b),
           \A k \in 1..(p - 1) : a[k] = b[k], Border(a, p), Border(b, p),
           isDigit(a[p]) => extractNumber(a, p).n < MaxInt,
           isDigit(b[p]) => extractNumber(b, p).n < MaxInt,
           NEW c, \/ c = -1 /\ TokenBefore(Here(a, p), Here(b, p))
                  \/ c = 1 /\ TokenBefore(Here(b, p), Here(a, p))
    PROVE  Verdict(a, b, c)
<1>1. PICK ta : Cuts(ta, a) /\ Tokens(a) = ta[Len(a)]
    BY TokensOf
<1>2. PICK tb : Cuts(tb, b) /\ Tokens(b) = tb[Len(b)]
    BY TokensOf
<1> DEFINE u == ta[p - 1]
<1>3. u = tb[p - 1]
    <2>1. Alike(a, b, p - 1)
        BY DEF Alike
    <2> QED
        BY <1>1, <1>2, <2>1, SameStart
<1>4. u \in Seq(Token) /\ Tokens(a) \in Seq(Token) /\ Longer(Tokens(a), u) /\ Tokens(a)[Len(u) + 1] = Here(a, p)
    BY <1>1, TokenAt
<1>5. Tokens(b) \in Seq(Token) /\ Longer(Tokens(b), u) /\ Tokens(b)[Len(u) + 1] = Here(b, p)
    BY <1>2, <1>3, TokenAt
<1> HIDE DEF u
<1>6. CASE c = -1 /\ TokenBefore(Here(a, p), Here(b, p))
    BY <1>4, <1>5, <1>6, LowerToken DEF Verdict
<1>7. CASE c = 1 /\ TokenBefore(Here(b, p), Here(a, p))
    BY <1>4, <1>5, <1>7, LowerToken DEF Verdict
<1> QED
    BY <1>6, <1>7

(* Where two texts that began alike have different numbers, the comparison  *)
(* decides by them.                                                         *)
LEMMA NumbersDecide ==
    ASSUME NEW a \in Seq(Nat), NEW b \in Seq(Nat), NEW f, Scans(f, a, b), NEW i \in 1..Len(a), i \in 1..Len(b),
           Alike(a, b, i - 1), Border(a, i), Border(b, i), isDigit(a[i]), isDigit(b[i]),
           extractNumber(a, i).n < MaxInt, extractNumber(b, i).n < MaxInt,
           extractNumber(a, i).n # extractNumber(b, i).n
    PROVE  Verdict(a, b, f[<<1, 1>>])
<1>1. Len(a) \in Nat /\ Len(b) \in Nat
    BY LenProperties
<1>2. /\ i \in Nat \ {0} /\ i <= Len(a) + 1 /\ i <= Len(b) + 1 /\ ~(i > Len(a) \/ i > Len(b))
      /\ i \in 1..(Len(a) + 1) /\ i \in 1..(Len(b) + 1)
    BY <1>1
<1>3. \A k \in 1..(i - 1) : a[k] = b[k]
    BY DEF Alike
<1>4. f[<<1, 1>>] = f[<<i, i>>]
    BY <1>2, <1>3, Reached
<1>5. f[<<i, i>>] = Decide(f, a, b, i, i)
    BY <1>2 DEF Scans
<1>6. Decide(f, a, b, i, i) = Compare(extractNumber(a, i).n, extractNumber(b, i).n)
    BY <1>2 DEF Decide
<1>7. PICK x \in Nat, y \in Nat : x = extractNumber(a, i).n /\ y = extractNumber(b, i).n
    <2>1. HasExact(a, i, extractNumber(a, i).size) /\ Run(a, i, extractNumber(a, i).size)
        BY ExactNumber
    <2>2. HasExact(b, i, extractNumber(b, i).size) /\ Run(b, i, extractNumber(b, i).size)
        BY ExactNumber
    <2>3. extractNumber(a, i).n \in Nat
        BY <2>1 DEF HasExact, Run
    <2>4. extractNumber(b, i).n \in Nat
        BY <2>2 DEF HasExact, Run
    <2> QED
        BY <2>3, <2>4
<1> DEFINE c == f[<<1, 1>>]
<1>8. x # y /\ c = Compare(x, y)
    BY <1>4, <1>5, <1>6, <1>7
<1>9. (c = -1 <=> x < y) /\ (c = 1 <=> y < x)
    BY <1>8, Compared
<1>10. Here(a, i) = Number(x) /\ Here(b, i) = Number(y)
    BY <1>7 DEF Here
<1>11. (TokenBefore(Number(x), Number(y)) <=> x < y) /\ (TokenBefore(Number(y), Number(x)) <=> y < x)
    BY DEF TokenBefore, Number
<1>12. x < y \/ y < x
    BY <1>8
<1> HIDE DEF c
<1>13. \/ c = -1 /\ TokenBefore(Here(a, i), Here(b, i))
       \/ c = 1 /\ TokenBefore(Here(b, i), Here(a, i))
    BY <1>9, <1>10, <1>11, <1>12
<1>14. Verdict(a, b, c)
    BY <1>3, <1>13, TokensDecide
<1> QED
    BY <1>14 DEF c

(* A token that is a character is compared by its code, a number like the   *)
(* characters of its digits.                                                *)
LEMMA CharactersDecide ==
    ASSUME NEW x \in Nat, NEW y \in Nat, x # y, ~(isDigit(x) /\ isDigit(y)), NEW m, NEW n
    PROVE  TokenBefore(IF isDigit(x) THEN Number(m) ELSE Letter(x), IF isDigit(y) THEN Number(n) ELSE Letter(y))
             <=> x < y
<1>1. CASE ~isDigit(x) /\ ~isDigit(y)
    BY <1>1 DEF TokenBefore, Letter
<1>2. CASE isDigit(x)
    <2>1. TokenBefore(Number(m), Letter(y)) <=> Zero < y
        BY DEF TokenBefore, Number, Letter
    <2>2. Zero < y <=> x < y
        BY <1>2 DEF isDigit, Zero
    <2> QED
        BY <1>2, <2>1, <2>2
<1>3. CASE isDigit(y)
    <2>1. TokenBefore(Letter(x), Number(n)) <=> x < Zero
        BY DEF TokenBefore, Number, Letter
    <2>2. x < Zero <=> x < y
        BY <1>3 DEF isDigit, Zero
    <2> QED
        BY <1>3, <2>1, <2>2
<1> QED
    BY <1>1, <1>2, <1>3

(* strings.Compare decides at the first character that differs.             *)
LEMMA StringsDiffer ==
    ASSUME NEW a \in Seq(Nat), NEW b \in Seq(Nat), NEW p \in 1..Len(a), p \in 1..Len(b),
           Alike(a, b, p - 1), a[p] # b[p]
    PROVE  StringsCompare(a, b) = Compare(a[p], b[p])
<1> DEFINE T == {k \in DOMAIN a \cap DOMAIN b : a[k] # b[k]}
<1>1. DOMAIN a = 1..Len(a) /\ DOMAIN b = 1..Len(b) /\ Len(a) \in Nat /\ Len(b) \in Nat
    BY LenProperties
<1>2. T \in SUBSET Nat /\ p \in T
    BY <1>1
<1>3. Min(T) \in T /\ \A y \in T : Min(T) <= y
    BY <1>2, LeastNumber
<1>4. PICK m \in T : m = Min(T) /\ m <= p
    BY <1>2, <1>3
<1>5. m = p
    <2>1. m \in 1..Len(a) /\ a[m] # b[m]
        BY <1>1, <1>4
    <2>2. m < p => m \in 1..(p - 1)
        BY <2>1
    <2> QED
        BY <1>4, <2>1, <2>2 DEF Alike
<1> QED
    BY <1>2, <1>4, <1>5 DEF StringsCompare

(* A text that goes on has more tokens, unless a number goes on.            *)
LEMMA LongerTextDecides ==
    ASSUME NEW a \in Seq(Nat), NEW b \in Seq(Nat), NEW p \in 1..Len(b), p = Len(a) + 1, Alike(a, b, p - 1),
           Border(b, p), isDigit(b[p]) => extractNumber(b, p).n < MaxInt
    PROVE  Lex(Tokens(a), Tokens(b))
<1>1. PICK ta : Cuts(ta, a) /\ Tokens(a) = ta[Len(a)]
    BY TokensOf
<1>2. PICK tb : Cuts(tb, b) /\ Tokens(b) = tb[Len(b)]
    BY TokensOf
<1>3. Len(a) \in Nat /\ Len(b) \in Nat /\ p - 1 = Len(a) /\ Len(a) <= Len(b) /\ Len(a) <= Len(a)
    BY LenProperties
<1>4. Tokens(a) = tb[p - 1]
    BY <1>1, <1>2, <1>3, SameTokens
<1>5. Tokens(a) \in Seq(Token) /\ Tokens(b) \in Seq(Token) /\ Longer(Tokens(b), Tokens(a))
    BY <1>2, <1>4, TokenAt
<1> DEFINE s == Tokens(a)
           t == Tokens(b)
<1>6. s \in Seq(Token) /\ t \in Seq(Token) /\ Longer(t, s)
    BY <1>5
<1> HIDE DEF s, t
<1>7. Len(s) \in Nat /\ Len(t) \in Nat
    BY <1>6, LenProperties
<1>8. Ahead(s, t, Len(s))
    BY <1>6, <1>7 DEF Ahead, Longer
<1>9. Lex(s, t)
    BY <1>7, <1>8 DEF Lex
<1> QED
    BY <1>9 DEF s, t

(* A bound that is not reached.                                             *)
LEMMA OneLess ==
    ASSUME NEW p \in Nat, NEW m \in Nat, p <= m + 1, p # m + 1
    PROVE  p <= m
    OBVIOUS

(* Without a respelled number the comparison decides as the reference does: *)
(* the first character that differs is in the first token that differs.     *)
LEMMA Judged ==
    ASSUME NEW a \in Seq(Nat), NEW b \in Seq(Nat), Plain(a), Plain(b), a # b, ~Respelled(a, b)
    PROVE  Verdict(a, b, CompareLowerCase(a, b))
<1>1. PICK f : Scans(f, a, b) /\ CompareLowerCase(a, b) = f[<<1, 1>>]
    BY Scanned
<1>2. PICK p : FirstDiff(a, b, p)
    BY FirstDiffExists
<1>3. Len(a) \in Nat /\ Len(b) \in Nat
    BY LenProperties
<1>4. p \in Nat \ {0} /\ p <= Len(a) + 1 /\ p <= Len(b) + 1 /\ (p <= Len(a) \/ p <= Len(b))
    BY <1>2 DEF FirstDiff
<1>5. Alike(a, b, p - 1) /\ \A k \in 1..(p - 1) : a[k] = b[k]
    BY <1>2 DEF FirstDiff, Alike
<1>6. p <= Len(a) /\ p <= Len(b) => a[p] # b[p]
    BY <1>2 DEF FirstDiff
<1> DEFINE c == f[<<1, 1>>]
<1>7. ASSUME NEW i \in 1..Len(a), Border(a, i), isDigit(a[i])
      PROVE  extractNumber(a, i).n < MaxInt
    <2>1. i = 1 \/ ~isDigit(a[i - 1])
        BY <1>3, <1>7 DEF Border
    <2> QED
        BY <1>7, <2>1, PlainNumber
<1>8. ASSUME NEW i \in 1..Len(b), Border(b, i), isDigit(b[i])
      PROVE  extractNumber(b, i).n < MaxInt
    <2>1. i = 1 \/ ~isDigit(b[i - 1])
        BY <1>3, <1>8 DEF Border
    <2> QED
        BY <1>8, <2>1, PlainNumber
<1>11. ASSUME NEW i \in 1..Len(a), i \in 1..Len(b), Border(a, i), isDigit(a[i]), isDigit(b[i]),
              \A k \in 1..(i - 1) : a[k] = b[k], extractNumber(a, i).n = extractNumber(b, i).n
       PROVE  extractNumber(a, i).size = extractNumber(b, i).size
    <2>1. i = 1 \/ ~isDigit(a[i - 1])
        BY <1>3, <1>11 DEF Border
    <2>2. i \in DOMAIN a \cap DOMAIN b
        BY <1>11, LenProperties
    <2> QED
        BY <1>11, <2>1, <2>2 DEF Respelled
<1>9. CASE Border(a, p) /\ Border(b, p)
    <2>1. c = Decide(f, a, b, p, p)
        <3>1. p \in 1..(Len(a) + 1) /\ p \in 1..(Len(b) + 1)
            BY <1>3, <1>4
        <3>2. f[<<p, p>>] = Decide(f, a, b, p, p)
            BY <1>1, <3>1 DEF Scans
        <3>3. f[<<1, 1>>] = f[<<p, p>>]
            BY <1>1, <1>4, <1>5, <1>9, Reached
        <3> QED
            BY <3>2, <3>3
    <2>2. CASE p > Len(a)
        <3>1. p = Len(a) + 1 /\ p \in 1..Len(b) /\ Len(a) < Len(b)
            BY <1>3, <1>4, <2>2
        <3>2. c = Compare(Len(a), Len(b))
            BY <2>1, <2>2 DEF Decide
        <3>3. c = -1
            BY <1>3, <3>1, <3>2, Compared
        <3>4. isDigit(b[p]) => extractNumber(b, p).n < MaxInt
            BY <1>8, <1>9, <3>1
        <3>5. Lex(Tokens(a), Tokens(b))
            BY <1>5, <1>9, <3>1, <3>4, LongerTextDecides
        <3> QED
            BY <1>1, <3>3, <3>5 DEF Verdict
    <2>3. CASE p > Len(b)
        <3>1. p = Len(b) + 1 /\ p \in 1..Len(a) /\ Len(b) < Len(a)
            BY <1>3, <1>4, <2>3
        <3>2. c = Compare(Len(a), Len(b))
            BY <2>1, <2>3 DEF Decide
        <3>3. c = 1
            BY <1>3, <3>1, <3>2, Compared
        <3>4. isDigit(a[p]) => extractNumber(a, p).n < MaxInt
            BY <1>7, <1>9, <3>1
        <3>5. Alike(b, a, p - 1)
            BY <1>5 DEF Alike
        <3>6. Lex(Tokens(b), Tokens(a))
            BY <1>9, <3>1, <3>4, <3>5, LongerTextDecides
        <3> QED
            BY <1>1, <3>3, <3>6 DEF Verdict
    <2>4. CASE ~(p > Len(a) \/ p > Len(b))
        <3>1. p \in 1..Len(a) /\ p \in 1..Len(b) /\ a[p] # b[p] /\ a[p] \in Nat /\ b[p] \in Nat
            <4>1. p \in 1..Len(a) /\ p \in 1..Len(b) /\ p <= Len(a) /\ p <= Len(b)
                BY <1>3, <1>4, <2>4
            <4> QED
                BY <1>6, <4>1, ElementOfSeq
        <3>2. (isDigit(a[p]) => extractNumber(a, p).n < MaxInt) /\ (isDigit(b[p]) => extractNumber(b, p).n < MaxInt)
            BY <1>7, <1>8, <1>9, <3>1
        <3>3. CASE isDigit(a[p]) /\ isDigit(b[p])
            <4>1. extractNumber(a, p).n # extractNumber(b, p).n
                <5> SUFFICES ASSUME extractNumber(a, p).n = extractNumber(b, p).n
                             PROVE  FALSE
                    OBVIOUS
                <5>1. extractNumber(a, p).size = extractNumber(b, p).size
                    BY <1>5, <1>9, <1>11, <3>1, <3>3
                <5>2. PICK n \in Nat : Run(a, p, n) /\ \A k \in p..(p + n - 1) : a[k] = b[k]
                    BY <3>1, <3>2, <3>3, <5>1, EqualNumbers
                <5>3. p \in p..(p + n - 1)
                    <6>1. n \in Nat \ {0}
                        BY <5>2 DEF Run
                    <6> QED
                        BY <1>4, <6>1
                <5> QED
                    BY <3>1, <5>2, <5>3
            <4> QED
                BY <1>1, <1>5, <1>9, <3>1, <3>2, <3>3, <4>1, NumbersDecide
        <3>4. CASE ~(isDigit(a[p]) /\ isDigit(b[p]))
            <4>1. c = StringsCompare(a, b)
                BY <2>1, <2>4, <3>1, <3>4 DEF Decide
            <4>2. c = Compare(a[p], b[p])
                BY <1>5, <3>1, <4>1, StringsDiffer
            <4>3. (c = -1 <=> a[p] < b[p]) /\ (c = 1 <=> b[p] < a[p])
                BY <3>1, <4>2, Compared
            <4>4. TokenBefore(Here(a, p), Here(b, p)) <=> a[p] < b[p]
                BY <3>1, <3>4, CharactersDecide DEF Here
            <4>5. TokenBefore(Here(b, p), Here(a, p)) <=> b[p] < a[p]
                BY <3>1, <3>4, CharactersDecide DEF Here
            <4>6. a[p] < b[p] \/ b[p] < a[p]
                BY <3>1
            <4>7. \/ c = -1 /\ TokenBefore(Here(a, p), Here(b, p))
                  \/ c = 1 /\ TokenBefore(Here(b, p), Here(a, p))
                BY <4>3, <4>4, <4>5, <4>6
            <4> HIDE DEF c
            <4>8. Verdict(a, b, c)
                BY <1>5, <1>9, <3>1, <3>2, <4>7, TokensDecide
            <4> QED
                BY <1>1, <4>8 DEF c
        <3> QED
            BY <3>3, <3>4
    <2> QED
        BY <2>2, <2>3, <2>4
<1>10. CASE ~(Border(a, p) /\ Border(b, p))
    <2> DEFINE o == p - 1
    <2>1. p # 1 /\ isDigit(a[o]) /\ isDigit(b[o]) /\ ((p # Len(a) + 1 /\ isDigit(a[p])) \/ (p # Len(b) + 1 /\ isDigit(b[p])))
        <3>1. p # 1
            BY <1>10 DEF Border
        <3>2. o \in 1..(p - 1)
            BY <1>4, <3>1
        <3>3. a[o] = b[o]
            BY <1>5, <3>2
        <3> QED
            BY <1>10, <3>1, <3>3 DEF Border
    <2>2. o \in Nat \ {0} /\ o <= Len(a) /\ o <= Len(b)
        BY <1>3, <1>4, <2>1
    <2>3. PICK i \in 1..o : (\A k \in i..o : isDigit(a[k])) /\ (i = 1 \/ ~isDigit(a[i - 1]))
        <3> HIDE DEF o
        <3> QED
            BY <2>1, <2>2, RunStart
    <2>4. i \in 1..Len(a) /\ i \in 1..Len(b) /\ i \in i..o /\ i \in 1..(p - 1) /\ (i # 1 => i - 1 \in 1..(p - 1))
        BY <1>3, <1>4, <2>2
    <2>5. isDigit(a[i]) /\ isDigit(b[i])
        BY <1>5, <2>3, <2>4
    <2>6. Border(a, i) /\ Border(b, i)
        BY <1>5, <2>3, <2>4 DEF Border
    <2>7. Alike(a, b, i - 1)
        <3>1. \A k \in 1..(i - 1) : k \in 1..(p - 1)
            BY <1>4, <2>4
        <3> QED
            BY <1>5, <3>1 DEF Alike
    <2>8. extractNumber(a, i).n < MaxInt /\ extractNumber(b, i).n < MaxInt
        BY <1>7, <1>8, <2>4, <2>5, <2>6
    <2>9. extractNumber(a, i).n # extractNumber(b, i).n
        <3> SUFFICES ASSUME extractNumber(a, i).n = extractNumber(b, i).n
                     PROVE  FALSE
            OBVIOUS
        <3>0. extractNumber(a, i).size = extractNumber(b, i).size
            BY <1>11, <2>4, <2>5, <2>6, <2>7 DEF Alike
        <3>1. PICK n \in Nat : Run(a, i, n) /\ Run(b, i, n) /\ \A k \in i..(i + n - 1) : a[k] = b[k]
            BY <2>4, <2>5, <2>8, <3>0, EqualNumbers
        <3>2. n \in Nat \ {0} /\ i + n <= Len(a) + 1 /\ i + n <= Len(b) + 1
            BY <3>1 DEF Run
        <3>3. i + n > p
            <4> SUFFICES ASSUME i + n <= p
                         PROVE  FALSE
                BY <1>4, <3>2
            <4>1. CASE i + n < p
                <5>1. i + n \in i..o /\ i + n \in 1..(p - 1) /\ i + n <= Len(a)
                    BY <1>3, <1>4, <2>2, <2>4, <3>2, <4>1
                <5> QED
                    BY <2>3, <3>1, <5>1 DEF Run
            <4>2. CASE i + n = p
                <5>1. p # Len(a) + 1 => p <= Len(a)
                    BY <1>3, <1>4, OneLess
                <5>2. p # Len(b) + 1 => p <= Len(b)
                    BY <1>3, <1>4, OneLess
                <5> QED
                    BY <2>1, <3>1, <4>2, <5>1, <5>2 DEF Run
            <4> QED
                BY <1>4, <3>2, <4>1, <4>2
        <3>4. p \in i..(i + n - 1) /\ p <= Len(a) /\ p <= Len(b)
            BY <1>3, <1>4, <2>4, <3>2, <3>3
        <3> QED
            BY <1>6, <3>1, <3>4
    <2>10. Verdict(a, b, f[<<1, 1>>])
        BY <1>1, <2>4, <2>5, <2>6, <2>7, <2>8, <2>9, NumbersDecide
    <2> QED
        BY <1>1, <2>10
<1> QED
    BY <1>9, <1>10

(* Tokens are characters and numbers.                                       *)
LEMMA TokensTyped ==
    ASSUME NEW s \in Seq(Nat)
    PROVE  Tokens(s) \in Seq(Token)
<1>1. PICK tok : Cuts(tok, s) /\ Tokens(s) = tok[Len(s)]
    BY TokensOf
<1>2. Len(s) \in Nat /\ Len(s) \in 0..Len(s)
    BY LenProperties
<1>3. tok[Len(s)] \in Ends(s, Len(s))
    BY <1>1, <1>2 DEF Cuts
<1> QED
    BY <1>1, <1>2, <1>3, OfEnds

(* The scan has come to i and j, and has read n tokens of both texts.       *)
Stop(f, a, b, ta, tb, i, j, n) ==
    /\ i \in 1..(Len(a) + 1) /\ Border(a, i) /\ Len(ta[i - 1]) = n
    /\ j \in 1..(Len(b) + 1) /\ Border(b, j) /\ Len(tb[j - 1]) = n
    /\ f[<<1, 1>>] = f[<<i, j>>]

(* Where a scan stops inside a plain text, the next token begins.           *)
LEMMA TokenNext ==
    ASSUME NEW s \in Seq(Nat), Plain(s), NEW tok, Cuts(tok, s), NEW i \in 1..(Len(s) + 1), Border(s, i),
           Len(tok[i - 1]) < Len(tok[Len(s)])
    PROVE  /\ i \in 1..Len(s) /\ (isDigit(s[i]) => extractNumber(s, i).n < MaxInt)
           /\ tok[Len(s)][Len(tok[i - 1]) + 1] = Here(s, i)
           /\ After(s, i) \in (i + 1)..(Len(s) + 1) /\ Border(s, After(s, i))
           /\ Len(tok[After(s, i) - 1]) = Len(tok[i - 1]) + 1
<1>1. Len(s) \in Nat
    BY LenProperties
<1>2. i \in 1..Len(s)
    <2> SUFFICES ASSUME i = Len(s) + 1
                 PROVE  FALSE
        BY <1>1
    <2>1. i - 1 = Len(s) /\ Len(s) \in 0..Len(s)
        BY <1>1
    <2>2. tok[Len(s)] \in Ends(s, Len(s))
        BY <2>1 DEF Cuts
    <2>3. tok[Len(s)] \in Seq(Token)
        BY <1>1, <2>2, EndsTyped
    <2>4. Len(tok[Len(s)]) \in Nat
        BY <2>3, LenProperties
    <2> QED
        BY <2>1, <2>4
<1>3. isDigit(s[i]) => extractNumber(s, i).n < MaxInt
    <2>1. isDigit(s[i]) => i = 1 \/ ~isDigit(s[i - 1])
        BY <1>1, <1>2 DEF Border
    <2> QED
        BY <1>2, <2>1, PlainNumber
<1>4. tok[Len(s)][Len(tok[i - 1]) + 1] = Here(s, i)
    BY <1>2, <1>3, TokenAt
<1>5. /\ After(s, i) \in (i + 1)..(Len(s) + 1) /\ Border(s, After(s, i))
      /\ tok[i - 1] \in Seq(Token) /\ Here(s, i) \in Token
      /\ tok[After(s, i) - 1] = Append(tok[i - 1], Here(s, i))
    BY <1>2, <1>3, TokenEnds
<1>6. Len(Append(tok[i - 1], Here(s, i))) = Len(tok[i - 1]) + 1
    BY <1>5, AppendProperties
<1> QED
    BY <1>2, <1>3, <1>4, <1>5, <1>6

(* The same tokens decide nothing, however they are spelled.                *)
LEMMA Walked ==
    ASSUME NEW a \in Seq(Nat), NEW b \in Seq(Nat), Plain(a), Plain(b), NEW f, Scans(f, a, b),
           NEW ta, NEW tb, Cuts(ta, a), Cuts(tb, b), Tokens(a) = ta[Len(a)], Tokens(b) = tb[Len(b)],
           NEW n \in Nat, n <= Len(Tokens(a)), n <= Len(Tokens(b)),
           \A k \in 1..n : Tokens(a)[k] = Tokens(b)[k]
    PROVE  \E i, j : Stop(f, a, b, ta, tb, i, j, n)
<1> DEFINE T == {m \in 0..n : \E i, j : Stop(f, a, b, ta, tb, i, j, m)}
<1>1. Len(a) \in Nat /\ Len(b) \in Nat /\ Tokens(a) \in Seq(Token) /\ Tokens(b) \in Seq(Token)
    BY TokensTyped, LenProperties
<1>2. Len(Tokens(a)) \in Nat /\ Len(Tokens(b)) \in Nat
    BY <1>1, LenProperties
<1>3. 0 \in T
    <2>1. 1 \in 1..(Len(a) + 1) /\ 1 \in 1..(Len(b) + 1) /\ 1 - 1 = 0 /\ 0 \in 0..n
        BY <1>1
    <2>2. ta[0] = <<>> /\ tb[0] = <<>>
        BY DEF Cuts
    <2>3. Stop(f, a, b, ta, tb, 1, 1, 0)
        BY <2>1, <2>2 DEF Stop, Border
    <2> QED
        BY <2>1, <2>3
<1>4. ASSUME NEW m \in 0..(n - 1), m \in T
      PROVE  m + 1 \in T
    <2>1. PICK i, j : Stop(f, a, b, ta, tb, i, j, m)
        BY <1>4
    <2>2. /\ i \in 1..(Len(a) + 1) /\ Border(a, i) /\ Len(ta[i - 1]) = m
          /\ j \in 1..(Len(b) + 1) /\ Border(b, j) /\ Len(tb[j - 1]) = m
          /\ f[<<1, 1>>] = f[<<i, j>>]
        BY <2>1 DEF Stop
    <2>3. m < Len(Tokens(a)) /\ m < Len(Tokens(b)) /\ m + 1 \in 1..n /\ m + 1 \in 0..n
        BY <1>2
    <2> DEFINE p == After(a, i)
               q == After(b, j)
    <2>4. /\ i \in 1..Len(a) /\ Tokens(a)[m + 1] = Here(a, i)
          /\ p \in (i + 1)..(Len(a) + 1) /\ Border(a, p) /\ Len(ta[p - 1]) = m + 1
        <3>1. Len(ta[i - 1]) < Len(ta[Len(a)])
            BY <2>2, <2>3
        <3>2. /\ i \in 1..Len(a) /\ ta[Len(a)][Len(ta[i - 1]) + 1] = Here(a, i)
              /\ p \in (i + 1)..(Len(a) + 1) /\ Border(a, p) /\ Len(ta[p - 1]) = Len(ta[i - 1]) + 1
            BY <2>2, <3>1, TokenNext
        <3> HIDE DEF p
        <3> QED
            BY <2>2, <3>2
    <2>5. /\ j \in 1..Len(b) /\ Tokens(b)[m + 1] = Here(b, j)
          /\ q \in (j + 1)..(Len(b) + 1) /\ Border(b, q) /\ Len(tb[q - 1]) = m + 1
        <3>1. Len(tb[j - 1]) < Len(tb[Len(b)])
            BY <2>2, <2>3
        <3>2. /\ j \in 1..Len(b) /\ tb[Len(b)][Len(tb[j - 1]) + 1] = Here(b, j)
              /\ q \in (j + 1)..(Len(b) + 1) /\ Border(b, q) /\ Len(tb[q - 1]) = Len(tb[j - 1]) + 1
            BY <2>2, <3>1, TokenNext
        <3> HIDE DEF q
        <3> QED
            BY <2>2, <3>2
    <2>6. Here(a, i) = Here(b, j)
        BY <2>3, <2>4, <2>5
    <2>7. f[<<i, j>>] = f[<<p, q>>]
        <3>1. f[<<i, j>>] = Decide(f, a, b, i, j) /\ ~(i > Len(a) \/ j > Len(b))
            <4>1. f[<<i, j>>] = Decide(f, a, b, i, j)
                BY <2>2 DEF Scans
            <4> HIDE DEF p, q
            <4>2. i \in 1..Len(a) /\ j \in 1..Len(b)
                BY <2>4, <2>5
            <4>3. ~(i > Len(a) \/ j > Len(b))
                BY <1>1, <4>2
            <4> QED
                BY <4>1, <4>3
        <3>2. CASE isDigit(a[i])
            <4>1. isDigit(b[j]) /\ extractNumber(a, i).n = extractNumber(b, j).n
                BY <2>6, <3>2 DEF Here, Number, Letter
            <4> QED
                BY <3>1, <3>2, <4>1 DEF Decide, After
        <3>3. CASE ~isDigit(a[i])
            <4>1. ~isDigit(b[j]) /\ a[i] = b[j]
                BY <2>6, <3>3 DEF Here, Number, Letter
            <4> QED
                BY <3>1, <3>3, <4>1 DEF Decide, After
        <3> QED
            BY <3>2, <3>3
    <2>8. p \in 1..(Len(a) + 1) /\ q \in 1..(Len(b) + 1)
        <3> HIDE DEF p, q
        <3> QED
            BY <1>1, <2>2, <2>4, <2>5
    <2> HIDE DEF p, q
    <2>9. Stop(f, a, b, ta, tb, p, q, m + 1)
        BY <2>2, <2>4, <2>5, <2>7, <2>8 DEF Stop
    <2> QED
        BY <2>3, <2>9
<1>5. \A m \in 0..n : m \in T
    <2> HIDE DEF T
    <2> QED
        BY <1>3, <1>4, Induction
<1>6. n \in 0..n
    OBVIOUS
<1> QED
    BY <1>5, <1>6

(* A number that differs decides, whatever spelling the tokens in front of  *)
(* it have.                                                                 *)
LEMMA LaterNumbersDecide ==
    ASSUME NEW a \in Seq(Nat), NEW b \in Seq(Nat), Plain(a), Plain(b),
           FirstDifferInNumbers(Tokens(a), Tokens(b))
    PROVE  Verdict(a, b, CompareLowerCase(a, b))
<1> DEFINE s == Tokens(a)
           t == Tokens(b)
           c == CompareLowerCase(a, b)
<1>1. PICK k \in DOMAIN s \cap DOMAIN t :
        /\ \A n \in 1..(k - 1) : s[n] = t[n]
        /\ s[k] # t[k] /\ s[k].isNumber /\ t[k].isNumber
    BY DEF FirstDifferInNumbers
<1>2. PICK f : Scans(f, a, b) /\ CompareLowerCase(a, b) = f[<<1, 1>>]
    BY Scanned
<1>3. PICK ta : Cuts(ta, a) /\ Tokens(a) = ta[Len(a)]
    BY TokensOf
<1>4. PICK tb : Cuts(tb, b) /\ Tokens(b) = tb[Len(b)]
    BY TokensOf
<1>5. /\ s \in Seq(Token) /\ t \in Seq(Token) /\ Len(s) \in Nat /\ Len(t) \in Nat
      /\ DOMAIN s = 1..Len(s) /\ DOMAIN t = 1..Len(t) /\ Len(a) \in Nat /\ Len(b) \in Nat
    <2>1. s \in Seq(Token) /\ t \in Seq(Token)
        BY TokensTyped
    <2> HIDE DEF s, t
    <2> QED
        BY <2>1, LenProperties
<1>6. /\ k - 1 \in Nat /\ k - 1 <= Len(s) /\ k - 1 <= Len(t) /\ k - 1 < Len(s) /\ k - 1 < Len(t)
      /\ (k - 1) + 1 = k /\ k \in 1..Len(s) /\ k \in 1..Len(t)
    <2> HIDE DEF s, t
    <2> QED
        BY <1>5
<1>7. PICK i, j : Stop(f, a, b, ta, tb, i, j, k - 1)
    BY <1>1, <1>2, <1>3, <1>4, <1>6, Walked
<1>8. /\ i \in 1..(Len(a) + 1) /\ Border(a, i) /\ Len(ta[i - 1]) = k - 1
      /\ j \in 1..(Len(b) + 1) /\ Border(b, j) /\ Len(tb[j - 1]) = k - 1
      /\ f[<<1, 1>>] = f[<<i, j>>]
    BY <1>7 DEF Stop
<1>9. i \in 1..Len(a) /\ s[k] = Here(a, i)
    <2>1. Len(ta[i - 1]) < Len(ta[Len(a)])
        BY <1>3, <1>6, <1>8
    <2>2. i \in 1..Len(a) /\ ta[Len(a)][Len(ta[i - 1]) + 1] = Here(a, i)
        BY <1>3, <1>8, <2>1, TokenNext
    <2> QED
        BY <1>3, <1>6, <1>8, <2>2
<1>10. j \in 1..Len(b) /\ t[k] = Here(b, j)
    <2>1. Len(tb[j - 1]) < Len(tb[Len(b)])
        BY <1>4, <1>6, <1>8
    <2>2. j \in 1..Len(b) /\ tb[Len(b)][Len(tb[j - 1]) + 1] = Here(b, j)
        BY <1>4, <1>8, <2>1, TokenNext
    <2> QED
        BY <1>4, <1>6, <1>8, <2>2
<1>11. s[k] \in Token /\ t[k] \in Token
    BY <1>5, <1>6, ElementOfSeq
<1> HIDE DEF s, t
<1>12. isDigit(a[i]) /\ isDigit(b[j]) /\ s[k] = Number(extractNumber(a, i).n) /\ t[k] = Number(extractNumber(b, j).n)
    BY <1>1, <1>9, <1>10 DEF Here, Number, Letter
<1>13. PICK x \in Nat, y \in Nat : x = extractNumber(a, i).n /\ y = extractNumber(b, j).n
    BY <1>11, <1>12 DEF Token, Number
<1>14. x # y /\ s[k] = Number(x) /\ t[k] = Number(y)
    BY <1>1, <1>12, <1>13
<1>15. c = Compare(x, y)
    <2>1. f[<<i, j>>] = Decide(f, a, b, i, j) /\ ~(i > Len(a) \/ j > Len(b))
        <3>1. f[<<i, j>>] = Decide(f, a, b, i, j)
            BY <1>2, <1>8 DEF Scans
        <3>2. ~(i > Len(a) \/ j > Len(b))
            BY <1>5, <1>9, <1>10
        <3> QED
            BY <3>1, <3>2
    <2> QED
        BY <1>2, <1>8, <1>12, <1>13, <1>14, <2>1 DEF Decide
<1> HIDE DEF c
<1>16. (c = -1 <=> x < y) /\ (c = 1 <=> y < x)
    BY <1>15, Compared
<1>17. (TokenBefore(s[k], t[k]) <=> x < y) /\ (TokenBefore(t[k], s[k]) <=> y < x)
    BY <1>14 DEF TokenBefore, Number
<1>18. CASE x < y
    <2>1. Ahead(s, t, k - 1)
        BY <1>1, <1>6, <1>17, <1>18 DEF Ahead
    <2>2. Lex(s, t)
        BY <1>6, <2>1 DEF Lex
    <2> QED
        BY <1>16, <1>18, <2>2 DEF Verdict, s, t, c
<1>19. CASE y < x
    <2>1. Ahead(t, s, k - 1)
        BY <1>1, <1>6, <1>17, <1>19 DEF Ahead
    <2>2. Lex(t, s)
        BY <1>6, <2>1 DEF Lex
    <2> QED
        BY <1>16, <1>19, <2>2 DEF Verdict, s, t, c
<1> QED
    BY <1>14, <1>18, <1>19

(* Texts that read the same are ordered by their lengths.                   *)
LEMMA LengthDecides ==
    ASSUME NEW a \in Seq(Nat), NEW b \in Seq(Nat), Plain(a), Plain(b), Tokens(a) = Tokens(b)
    PROVE  CompareLowerCase(a, b) = Compare(Len(a), Len(b))
<1> DEFINE n == Len(Tokens(a))
<1>1. PICK f : Scans(f, a, b) /\ CompareLowerCase(a, b) = f[<<1, 1>>]
    BY Scanned
<1>2. PICK ta : Cuts(ta, a) /\ Tokens(a) = ta[Len(a)]
    BY TokensOf
<1>3. PICK tb : Cuts(tb, b) /\ Tokens(b) = tb[Len(b)]
    BY TokensOf
<1>4. Len(a) \in Nat /\ Len(b) \in Nat /\ n \in Nat
    <2>1. Tokens(a) \in Seq(Token)
        BY TokensTyped
    <2> QED
        BY <2>1, LenProperties
<1>5. n <= Len(Tokens(a)) /\ n <= Len(Tokens(b)) /\ \A k \in 1..n : Tokens(a)[k] = Tokens(b)[k]
    BY <1>4
<1> HIDE DEF n
<1>6. PICK i, j : Stop(f, a, b, ta, tb, i, j, n)
    BY <1>1, <1>2, <1>3, <1>4, <1>5, Walked
<1>7. /\ i \in 1..(Len(a) + 1) /\ Border(a, i) /\ Len(ta[i - 1]) = n
      /\ j \in 1..(Len(b) + 1) /\ f[<<1, 1>>] = f[<<i, j>>]
    BY <1>6 DEF Stop
<1>8. i > Len(a)
    <2> SUFFICES ASSUME i \in 1..Len(a)
                 PROVE  FALSE
        BY <1>4, <1>7
    <2>1. Len(a) \in i..Len(a)
        BY <1>4
    <2>2. Longer(ta[Len(a)], ta[i - 1])
        BY <1>2, <1>7, <2>1, TokensStay
    <2> QED
        BY <1>2, <1>4, <1>7, <2>2 DEF Longer, n
<1>9. f[<<i, j>>] = Decide(f, a, b, i, j)
    BY <1>1, <1>7 DEF Scans
<1> QED
    BY <1>1, <1>7, <1>8, <1>9 DEF Decide

-----------------------------------------------------------------------------
(* The order of the tokens is a strict order.                               *)

(* The order of tokens is a strict order.                                   *)
LEMMA TokensOrdered ==
    ASSUME NEW x \in Token, NEW y \in Token, NEW z \in Token
    PROVE  /\ ~TokenBefore(x, x)
           /\ TokenBefore(x, y) => ~TokenBefore(y, x)
           /\ TokenBefore(x, y) /\ TokenBefore(y, z) => TokenBefore(x, z)
    BY DEF Token, TokenBefore, Zero

(* The order of sequences of tokens is transitive.                          *)
LEMMA LexTransitive ==
    ASSUME NEW s \in Seq(Token), NEW t \in Seq(Token), NEW u \in Seq(Token), Lex(s, t), Lex(t, u)
    PROVE  Lex(s, u)
<1>1. PICK l \in Nat : Ahead(s, t, l)
    BY DEF Lex
<1>2. PICK m \in Nat : Ahead(t, u, m)
    BY DEF Lex
<1>3. /\ l <= Len(s) /\ l < Len(t) /\ (\A k \in 1..l : s[k] = t[k])
      /\ Len(s) = l \/ TokenBefore(s[l + 1], t[l + 1])
    BY <1>1 DEF Ahead
<1>4. /\ m <= Len(t) /\ m < Len(u) /\ (\A k \in 1..m : t[k] = u[k])
      /\ Len(t) = m \/ TokenBefore(t[m + 1], u[m + 1])
    BY <1>2 DEF Ahead
<1>5. Len(s) \in Nat /\ Len(t) \in Nat /\ Len(u) \in Nat
    BY LenProperties
<1>6. CASE l < m
    <2>1. l + 1 \in 1..m /\ (\A k \in 1..l : k \in 1..m) /\ l < Len(u)
        BY <1>4, <1>5, <1>6
    <2>2. Ahead(s, u, l)
        BY <1>3, <1>4, <2>1 DEF Ahead
    <2> QED
        BY <2>2 DEF Lex
<1>7. CASE l = m
    <2>1. l < Len(u) /\ Len(t) # m
        BY <1>3, <1>4, <1>5, <1>7
    <2>2. Len(s) = l \/ TokenBefore(s[l + 1], u[l + 1])
        <3> SUFFICES ASSUME Len(s) # l
                     PROVE  TokenBefore(s[l + 1], u[l + 1])
            OBVIOUS
        <3>1. l + 1 \in 1..Len(s) /\ l + 1 \in 1..Len(t) /\ l + 1 \in 1..Len(u)
            BY <1>3, <1>5, <2>1
        <3>2. s[l + 1] \in Token /\ t[l + 1] \in Token /\ u[l + 1] \in Token
            BY <3>1, ElementOfSeq
        <3> QED
            BY <1>3, <1>4, <1>7, <2>1, <3>2, TokensOrdered
    <2>3. Ahead(s, u, l)
        BY <1>3, <1>4, <1>7, <2>1, <2>2 DEF Ahead
    <2> QED
        BY <2>3 DEF Lex
<1>8. CASE m < l
    <2>1. m + 1 \in 1..l /\ (\A k \in 1..m : k \in 1..l) /\ m <= Len(s) /\ Len(t) # m
        BY <1>3, <1>5, <1>8
    <2>2. Ahead(s, u, m)
        BY <1>3, <1>4, <2>1 DEF Ahead
    <2> QED
        BY <2>2 DEF Lex
<1> QED
    BY <1>6, <1>7, <1>8

(* What comes first by this order does not come later by the reference.     *)
LEMMA LexNotBefore ==
    ASSUME NEW s \in Seq(Token), NEW t \in Seq(Token), Lex(s, t)
    PROVE  ~TokensBefore(t, s)
<1> DEFINE diffs == {k \in DOMAIN t \cap DOMAIN s : t[k] # s[k]}
<1>1. PICK l \in Nat : Ahead(s, t, l)
    BY DEF Lex
<1>2. /\ l <= Len(s) /\ l < Len(t) /\ (\A k \in 1..l : s[k] = t[k])
      /\ Len(s) = l \/ TokenBefore(s[l + 1], t[l + 1])
    BY <1>1 DEF Ahead
<1>3. Len(s) \in Nat /\ Len(t) \in Nat /\ DOMAIN s = 1..Len(s) /\ DOMAIN t = 1..Len(t)
    BY LenProperties
<1>4. CASE Len(s) = l
    <2>1. diffs = {}
        BY <1>2, <1>3, <1>4
    <2>2. ~(Len(t) < Len(s))
        BY <1>2, <1>3, <1>4
    <2> QED
        BY <2>1, <2>2 DEF TokensBefore
<1>5. CASE Len(s) # l
    <2>1. l + 1 \in 1..Len(s) /\ l + 1 \in 1..Len(t)
        BY <1>2, <1>3, <1>5
    <2>2. s[l + 1] \in Token /\ t[l + 1] \in Token
        BY <2>1, ElementOfSeq
    <2>3. TokenBefore(s[l + 1], t[l + 1])
        BY <1>2, <1>5
    <2>4. ~TokenBefore(t[l + 1], s[l + 1]) /\ t[l + 1] # s[l + 1]
        BY <2>2, <2>3, TokensOrdered
    <2>5. l + 1 \in diffs
        BY <1>3, <2>1, <2>4
    <2>6. diffs \in SUBSET Nat
        BY <1>3
    <2>7. Min(diffs) \in diffs /\ \A y \in diffs : Min(diffs) <= y
        BY <2>5, <2>6, LeastNumber
    <2>8. Min(diffs) = l + 1
        <3> DEFINE d == Min(diffs)
        <3>1. d \in diffs /\ d <= l + 1
            BY <2>5, <2>7
        <3>2. d \in Nat \ {0} /\ t[d] # s[d]
            BY <1>3, <3>1
        <3> HIDE DEF d
        <3>3. d \notin 1..l
            BY <1>2, <3>2
        <3>4. d = l + 1
            BY <3>1, <3>2, <3>3
        <3> QED
            BY <3>4 DEF d
    <2>9. diffs # {}
        BY <2>5
    <2> QED
        BY <2>4, <2>8, <2>9 DEF TokensBefore
<1> QED
    BY <1>4, <1>5

(* No sequence of tokens comes before itself.                               *)
LEMMA NotBeforeItself ==
    ASSUME NEW t, Len(t) \in Nat
    PROVE  ~TokensBefore(t, t)
<1>1. {k \in DOMAIN t \cap DOMAIN t : t[k] # t[k]} = {}
    OBVIOUS
<1>2. ~(Len(t) < Len(t))
    OBVIOUS
<1> QED
    BY <1>1, <1>2 DEF TokensBefore

(* No sequence of tokens is below itself.                                   *)
LEMMA LexIrreflexive ==
    ASSUME NEW s \in Seq(Token)
    PROVE  ~Lex(s, s)
<1> SUFFICES ASSUME NEW l \in Nat, Ahead(s, s, l)
             PROVE  FALSE
    BY DEF Lex
<1>1. Len(s) \in Nat /\ l < Len(s) /\ TokenBefore(s[l + 1], s[l + 1])
    BY LenProperties DEF Ahead
<1>2. l + 1 \in 1..Len(s)
    BY <1>1
<1>3. s[l + 1] \in Token
    BY <1>2, ElementOfSeq
<1> QED
    BY <1>1, <1>3, TokensOrdered

-----------------------------------------------------------------------------
(* Names in lower case *)

(* Lower case leaves digits alone.                                          *)
LEMMA LowerDigit ==
    ASSUME NEW ch \in Nat
    PROVE  /\ Lower(ch) \in Nat
           /\ isDigit(Lower(ch)) <=> isDigit(ch)
           /\ isDigit(ch) => Lower(ch) = ch
    BY DEF Lower, IsUpper, isDigit, Zero

(* Lower case of a text, character by character.                            *)
LEMMA LowerText ==
    ASSUME NEW s \in Seq(Nat)
    PROVE  /\ ToLower(s) \in Seq(Nat) /\ Len(ToLower(s)) = Len(s)
           /\ \A k \in 1..Len(s) : ToLower(s)[k] = Lower(s[k])
<1>1. Len(s) \in Nat /\ DOMAIN s = 1..Len(s) /\ \A k \in 1..Len(s) : s[k] \in Nat
    BY LenProperties, ElementOfSeq
<1>2. ToLower(s) = [k \in 1..Len(s) |-> Lower(s[k])]
    BY <1>1 DEF ToLower
<1>3. \A k \in 1..Len(s) : Lower(s[k]) \in Nat
    BY <1>1, LowerDigit
<1>4. ToLower(s) \in [1..Len(s) -> Nat]
    BY <1>2, <1>3
<1>5. ToLower(s) \in Seq(Nat) /\ Len(ToLower(s)) = Len(s)
    BY <1>1, <1>4, IsASeq, LenProperties
<1> QED
    BY <1>2, <1>5

(* The numbers of a name are those of the name in lower case.               *)
LEMMA LowerPlain ==
    ASSUME NEW s \in Seq(Nat), Plain(s)
    PROVE  Plain(ToLower(s))
<1> DEFINE l == ToLower(s)
<1>1. l \in Seq(Nat) /\ Len(l) = Len(s) /\ \A k \in 1..Len(s) : l[k] = Lower(s[k])
    BY LowerText
<1>2. Len(s) \in Nat /\ DOMAIN l = 1..Len(s) /\ \A k \in 1..Len(s) : s[k] \in Nat
    BY <1>1, LenProperties, ElementOfSeq
<1> HIDE DEF l
<1>3. \A k \in 1..Len(s) : (isDigit(l[k]) <=> isDigit(s[k])) /\ (isDigit(s[k]) => l[k] = s[k])
    BY <1>1, <1>2, LowerDigit
<1>4. ASSUME NEW i \in 1..Len(s), isDigit(l[i]), i = 1 \/ ~isDigit(l[i - 1])
      PROVE  extractNumber(l, i).n < MaxInt
    <2>1. isDigit(s[i]) /\ l[i] = s[i]
        BY <1>3, <1>4
    <2>2. i = 1 \/ ~isDigit(s[i - 1])
        <3>1. i # 1 => i - 1 \in 1..Len(s)
            BY <1>2
        <3> QED
            BY <1>3, <1>4, <3>1
    <2>3. extractNumber(s, i).n < MaxInt
        BY <2>1, <2>2, PlainNumber
    <2> DEFINE n == extractNumber(s, i).size
    <2>4. Run(s, i, n)
        BY <2>1, SizeOfNumber
    <2> HIDE DEF n
    <2>5. n \in Nat \ {0} /\ i + n <= Len(s) + 1
        BY <2>4 DEF Run
    <2>6. (\A k \in i..(i + n - 1) : k \in 1..Len(s)) /\ (i + n <= Len(s) => i + n \in 1..Len(s))
        BY <1>2, <2>5
    <2>7. \A k \in i..(i + n - 1) : isDigit(s[k])
        BY <2>4 DEF Run
    <2>8. \A k \in i..(i + n - 1) : isDigit(l[k]) /\ s[k] = l[k]
        BY <1>3, <2>6, <2>7
    <2>9. i + n <= Len(s) => ~isDigit(l[i + n])
        BY <1>3, <2>4, <2>6 DEF Run
    <2>10. Run(l, i, n)
        BY <1>1, <2>5, <2>8, <2>9 DEF Run
    <2>11. i \in 1..Len(l) /\ \A k \in i..(i + n - 1) : s[k] = l[k]
        BY <1>1, <2>8
    <2>12. /\ extractNumber(s, i).size = n /\ extractNumber(l, i).size = n
           /\ extractNumber(s, i).n = extractNumber(l, i).n
        BY <1>1, <2>4, <2>10, <2>11, SameNumber
    <2> QED
        BY <2>3, <2>12
<1>5. Plain(l)
    BY <1>2, <1>4 DEF Plain
<1> QED
    BY <1>5 DEF l

(* By tokens, and names that read the same by length.                       *)
ReadUpTo(name1, name2) ==
    Lex(Read(name1), Read(name2)) \/ (Read(name1) = Read(name2) /\ Len(name1) <= Len(name2))

(* compareStrings puts comparable names in this order.                      *)
LEMMA NamesDecide ==
    ASSUME NEW a \in Seq(Nat), NEW b \in Seq(Nat), Plain(a), Plain(b), Comparable(a, b), compareStrings(a, b) <= 0
    PROVE  ReadUpTo(a, b)
<1> DEFINE x == ToLower(a)
           y == ToLower(b)
           c == CompareLowerCase(x, y)
<1>1. x \in Seq(Nat) /\ y \in Seq(Nat) /\ Plain(x) /\ Plain(y) /\ Len(x) = Len(a) /\ Len(y) = Len(b)
    BY LowerText, LowerPlain
<1>2. Len(a) \in Nat /\ Len(b) \in Nat
    BY LenProperties
<1>3. c <= 0
    BY DEF compareStrings
<1>4. Read(a) = Tokens(x) /\ Read(b) = Tokens(y)
    BY DEF Read
<1>5. Respelled(x, y) => Tokens(x) = Tokens(y) \/ FirstDifferInNumbers(Tokens(x), Tokens(y))
    BY <1>4 DEF Comparable
<1> HIDE DEF x, y
<1>6. CASE Tokens(x) = Tokens(y)
    <2>1. c = Compare(Len(a), Len(b))
        BY <1>1, <1>6, LengthDecides
    <2>2. Compare(Len(a), Len(b)) = 1 <=> Len(b) < Len(a)
        BY <1>2, Compared
    <2>3. Len(a) <= Len(b)
        <3> HIDE DEF c
        <3>1. c # 1
            BY <1>3
        <3> QED
            BY <1>2, <2>1, <2>2, <3>1
    <2> QED
        BY <1>4, <1>6, <2>3 DEF ReadUpTo
<1>7. CASE Tokens(x) # Tokens(y)
    <2>1. Verdict(x, y, c)
        <3>1. CASE Respelled(x, y)
            BY <1>1, <1>5, <1>7, <3>1, LaterNumbersDecide
        <3>2. CASE ~Respelled(x, y)
            <4>1. x # y
                BY <1>7
            <4> QED
                BY <1>1, <3>2, <4>1, Judged
        <3> QED
            BY <3>1, <3>2
    <2> HIDE DEF c
    <2>2. c # 1
        BY <1>3
    <2> QED
        BY <1>4, <2>1, <2>2 DEF Verdict, ReadUpTo
<1> QED
    BY <1>6, <1>7

-----------------------------------------------------------------------------
(* The order of the entries *)

(* An entry as a listing has it: the path of a directory ends in a slash,   *)
(* and its size is zero.                                                    *)
IsEntry(e) ==
    /\ e.of.name \in Seq(Nat) /\ Plain(e.of.name)
    /\ e.isDir \in BOOLEAN /\ e.size \in Nat /\ e.modTime \in Int
    /\ e.isDir => e.size = 0
    /\ e.path = IF e.isDir THEN Append(e.of.name, Slash) ELSE e.of.name

NameOrder(x, y) == ReadUpTo(x.of.name, y.of.name)

NameUpTo(x, y) == (x.isDir /\ ~y.isDir) \/ (x.isDir = y.isDir /\ NameOrder(x, y))

Key(e, sort) ==
    IF SortName(sort) = "size" THEN e.size ELSE IF SortName(sort) = "time" THEN e.modTime ELSE 0

(* The order of a listing: by the key, then directories first, then by name.*)
UpTo(x, y, sort) ==
    Key(x, sort) < Key(y, sort) \/ (Key(x, sort) = Key(y, sort) /\ NameUpTo(x, y))

(* Sizes and times are numbers.                                             *)
LEMMA KeyTyped ==
    ASSUME NEW e, IsEntry(e), NEW sort
    PROVE  Key(e, sort) \in Int
    BY DEF IsEntry, Key

(* Names are read as tokens.                                                *)
LEMMA ReadTyped ==
    ASSUME NEW e, IsEntry(e)
    PROVE  Read(e.of.name) \in Seq(Token) /\ Len(e.of.name) \in Nat
<1>1. e.of.name \in Seq(Nat)
    BY DEF IsEntry
<1>2. ToLower(e.of.name) \in Seq(Nat)
    BY <1>1, LowerText
<1>3. Tokens(ToLower(e.of.name)) \in Seq(Token)
    BY <1>2, TokensTyped
<1>4. Len(e.of.name) \in Nat
    BY <1>1, LenProperties
<1> QED
    BY <1>3, <1>4 DEF Read

(* The order of names is transitive, and antisymmetric up to the reading.   *)
LEMMA NameOrderLaws ==
    ASSUME NEW x, IsEntry(x), NEW y, IsEntry(y), NEW z, IsEntry(z)
    PROVE  /\ NameOrder(x, y) /\ NameOrder(y, z) => NameOrder(x, z)
           /\ NameOrder(x, y) /\ NameOrder(y, x) => SameReading(x.of.name, y.of.name)
<1> DEFINE r == Read(x.of.name)
           s == Read(y.of.name)
           t == Read(z.of.name)
           l == Len(x.of.name)
           m == Len(y.of.name)
           n == Len(z.of.name)
<1>1. r \in Seq(Token) /\ s \in Seq(Token) /\ t \in Seq(Token) /\ l \in Nat /\ m \in Nat /\ n \in Nat
    BY ReadTyped
<1>2. /\ NameOrder(x, y) <=> Lex(r, s) \/ (r = s /\ l <= m)
      /\ NameOrder(y, z) <=> Lex(s, t) \/ (s = t /\ m <= n)
      /\ NameOrder(x, z) <=> Lex(r, t) \/ (r = t /\ l <= n)
      /\ NameOrder(y, x) <=> Lex(s, r) \/ (s = r /\ m <= l)
      /\ SameReading(x.of.name, y.of.name) <=> r = s /\ l = m
    BY DEF NameOrder, ReadUpTo, SameReading
<1> HIDE DEF r, s, t, l, m, n
<1>3. ASSUME NameOrder(x, y), NameOrder(y, z)
      PROVE  NameOrder(x, z)
    <2>1. CASE Lex(r, s) /\ Lex(s, t)
        <3>1. Lex(r, t)
            BY <1>1, <2>1, LexTransitive
        <3> QED
            BY <1>2, <3>1
    <2>2. CASE r = s /\ l <= m /\ s = t /\ m <= n
        BY <1>1, <1>2, <2>2
    <2>3. CASE Lex(r, s) /\ s = t
        BY <1>2, <2>3
    <2>4. CASE r = s /\ Lex(s, t)
        BY <1>2, <2>4
    <2> QED
        BY <1>2, <1>3, <2>1, <2>2, <2>3, <2>4
<1>4. ASSUME NameOrder(x, y), NameOrder(y, x)
      PROVE  r = s /\ l = m
    <2>1. ~Lex(r, r) /\ ~Lex(s, s)
        BY <1>1, LexIrreflexive
    <2>2. ~(Lex(r, s) /\ Lex(s, r))
        BY <1>1, <2>1, LexTransitive
    <2>3. r = s
        BY <1>2, <1>4, <2>2
    <2>4. l <= m /\ m <= l
        BY <1>2, <1>4, <2>1, <2>3
    <2> QED
        BY <1>1, <2>3, <2>4
<1> QED
    BY <1>2, <1>3, <1>4

(* So it is with directories first.                                         *)
LEMMA NameUpToLaws ==
    ASSUME NEW x, IsEntry(x), NEW y, IsEntry(y), NEW z, IsEntry(z)
    PROVE  /\ NameUpTo(x, x)
           /\ NameUpTo(x, y) /\ NameUpTo(y, z) => NameUpTo(x, z)
           /\ NameUpTo(x, y) /\ NameUpTo(y, x) => x.isDir = y.isDir /\ SameReading(x.of.name, y.of.name)
<1>1. x.isDir \in BOOLEAN /\ y.isDir \in BOOLEAN /\ z.isDir \in BOOLEAN
    BY DEF IsEntry
<1>2. /\ NameOrder(x, y) /\ NameOrder(y, z) => NameOrder(x, z)
      /\ NameOrder(x, y) /\ NameOrder(y, x) => SameReading(x.of.name, y.of.name)
    BY NameOrderLaws
<1>3. NameOrder(x, x)
    BY ReadTyped DEF NameOrder, ReadUpTo
<1> QED
    BY <1>1, <1>2, <1>3 DEF NameUpTo

(* So is the order by size or time, where names decide between equals.      *)
LEMMA UpToLaws ==
    ASSUME NEW x, IsEntry(x), NEW y, IsEntry(y), NEW z, IsEntry(z), NEW sort
    PROVE  /\ UpTo(x, x, sort)
           /\ UpTo(x, y, sort) /\ UpTo(y, z, sort) => UpTo(x, z, sort)
           /\ UpTo(x, y, sort) /\ UpTo(y, x, sort) => x.isDir = y.isDir /\ SameReading(x.of.name, y.of.name)
<1>1. Key(x, sort) \in Int /\ Key(y, sort) \in Int /\ Key(z, sort) \in Int
    BY KeyTyped
<1>2. /\ NameUpTo(x, x)
      /\ NameUpTo(x, y) /\ NameUpTo(y, z) => NameUpTo(x, z)
      /\ NameUpTo(x, y) /\ NameUpTo(y, x) => x.isDir = y.isDir /\ SameReading(x.of.name, y.of.name)
    BY NameUpToLaws
<1> QED
    BY <1>1, <1>2 DEF UpTo

(* The slash at the end of a directory is not compared.                     *)
LEMMA LeafName ==
    ASSUME NEW name \in Seq(Nat)
    PROVE  TrimSuffix(Append(name, Slash), <<Slash>>) = name
<1> DEFINE z == Append(name, Slash)
           t == <<Slash>>
           x == SubSeq(z, 1, Len(z) - 1)
<1>1. Slash \in Nat /\ t \in Seq(Nat) /\ Len(t) = 1 /\ t[1] = Slash
    BY DEF Slash
<1>2. /\ Len(name) \in Nat /\ z \in Seq(Nat) /\ Len(z) = Len(name) + 1
      /\ (\A i \in 1..Len(name) : z[i] = name[i]) /\ z[Len(name) + 1] = Slash
    BY <1>1, AppendProperties, LenProperties
<1> HIDE DEF z, t
<1>3. IsSuffix(t, z)
    <2> DEFINE rt == Reverse(t)
               rz == Reverse(z)
               st == SubSeq(rt, 1, 1)
               sz == SubSeq(rz, 1, 1)
    <2>1. rt \in Seq(Nat) /\ Len(rt) = 1 /\ rt[1] = Slash
        BY <1>1 DEF Reverse
    <2>2. rz \in Seq(Nat) /\ Len(rz) = Len(name) + 1 /\ rz[1] = Slash
        <3>1. /\ 1 \in 1..(Len(name) + 1)
              /\ \A i \in 1..(Len(name) + 1) : Len(name) + 1 - i + 1 \in 1..(Len(name) + 1)
            BY <1>2
        <3>2. \A i \in 1..(Len(name) + 1) : z[i] \in Nat
            BY <1>2, ElementOfSeq
        <3>3. rz = [i \in 1..(Len(name) + 1) |-> z[Len(name) + 1 - i + 1]]
            BY <1>2 DEF Reverse
        <3>4. rz \in [1..(Len(name) + 1) -> Nat]
            BY <3>1, <3>2, <3>3
        <3>5. rz[1] = Slash
            BY <1>2, <3>1, <3>3
        <3> HIDE DEF rz
        <3>6. PICK m \in Nat : m = Len(name) + 1
            BY <1>2
        <3>7. rz \in [1..m -> Nat]
            BY <3>4, <3>6
        <3>8. rz \in Seq(Nat) /\ Len(rz) = m
            BY <3>7, IsASeq, LenProperties
        <3> QED
            BY <3>5, <3>6, <3>8
    <2> HIDE DEF rt, rz
    <2>3. st \in Seq(Nat) /\ Len(st) = 1 /\ st[1] = Slash
        BY <1>1, <2>1, SubSeqProperties
    <2>4. sz \in Seq(Nat) /\ Len(sz) = 1 /\ sz[1] = Slash
        BY <1>1, <2>2, SubSeqProperties
    <2>5. st = sz
        <3> HIDE DEF st, sz
        <3> QED
            BY <2>3, <2>4, SeqEqual
    <2>6. IsPrefix(rt, rz)
        BY <1>2, <2>1, <2>2, <2>5 DEF IsPrefix
    <2> QED
        BY <2>6 DEF IsSuffix, rt, rz
<1>4. x = name
    <2>1. x \in Seq(Nat) /\ Len(x) = Len(name) /\ \A i \in 1..Len(name) : x[i] = name[i]
        BY <1>2, SubSeqProperties
    <2> HIDE DEF x
    <2> QED
        BY <2>1, SeqEqual
<1>5. TrimSuffix(z, t) = x
    BY <1>1, <1>3 DEF TrimSuffix
<1> QED
    BY <1>4, <1>5 DEF z, t

(* CompareDirEntryByName decides by this order.                             *)
LEMMA ByName ==
    ASSUME NEW x, IsEntry(x), NEW y, IsEntry(y), Comparable(x.of.name, y.of.name),
           CompareDirEntryByName(x, y) <= 0
    PROVE  NameUpTo(x, y)
<1>1. /\ x.isDir \in BOOLEAN /\ x.of.name \in Seq(Nat) /\ Plain(x.of.name)
      /\ y.isDir \in BOOLEAN /\ y.of.name \in Seq(Nat) /\ Plain(y.of.name)
      /\ x.path = IF x.isDir THEN Append(x.of.name, Slash) ELSE x.of.name
      /\ y.path = IF y.isDir THEN Append(y.of.name, Slash) ELSE y.of.name
    BY DEF IsEntry
<1>2. CASE x.isDir = y.isDir
    <2> DEFINE Leaf(e) == IF e.isDir THEN TrimSuffix(e.path, <<Slash>>) ELSE e.path
    <2>1. Leaf(x) = x.of.name /\ Leaf(y) = y.of.name
        BY <1>1, LeafName
    <2>2. CompareDirEntryByName(x, y) = compareStrings(Leaf(x), Leaf(y))
        BY <1>2 DEF CompareDirEntryByName
    <2>3. compareStrings(x.of.name, y.of.name) <= 0
        BY <2>1, <2>2
    <2>4. NameOrder(x, y)
        BY <1>1, <2>3, NamesDecide DEF NameOrder
    <2> QED
        BY <1>2, <2>4 DEF NameUpTo
<1>3. CASE x.isDir /\ ~y.isDir
    BY <1>3 DEF NameUpTo
<1>4. CASE ~x.isDir /\ y.isDir
    <2>1. CompareDirEntryByName(x, y) = 1
        BY <1>1, <1>4 DEF CompareDirEntryByName
    <2> QED
        BY <2>1
<1> QED
    BY <1>1, <1>2, <1>3, <1>4

(* The comparison GetDirInfo sorts with.                                    *)
DirCmp(x, y, sort) ==
    CASE SortName(sort) = "size" -> compareDirEntryBySize(x, y)
      [] SortName(sort) = "time" -> compareDirEntryByTime(x, y)
      [] OTHER -> CompareDirEntryByName(x, y)

(* So do the other comparisons.                                             *)
LEMMA Decides ==
    ASSUME NEW x, IsEntry(x), NEW y, IsEntry(y), Comparable(x.of.name, y.of.name),
           NEW sort, DirCmp(x, y, sort) <= 0
    PROVE  UpTo(x, y, sort)
<1>1. /\ x.size \in Nat /\ x.modTime \in Int /\ x.isDir \in BOOLEAN /\ (x.isDir => x.size = 0)
      /\ y.size \in Nat /\ y.modTime \in Int /\ y.isDir \in BOOLEAN /\ (y.isDir => y.size = 0)
    BY DEF IsEntry
<1>2. CASE SortName(sort) = "size"
    <2>1. compareDirEntryBySize(x, y) <= 0
        BY <1>2 DEF DirCmp
    <2>2. Key(x, sort) = x.size /\ Key(y, sort) = y.size
        BY <1>2 DEF Key
    <2>3. CASE x.size = y.size
        <3>1. CompareDirEntryByName(x, y) <= 0
            BY <2>1, <2>3 DEF compareDirEntryBySize
        <3>2. NameUpTo(x, y)
            BY <3>1, ByName
        <3> QED
            BY <2>2, <2>3, <3>2 DEF UpTo
    <2>4. CASE x.size < y.size
        BY <2>2, <2>4 DEF UpTo
    <2>5. CASE y.size < x.size
        <3>1. ~x.isDir /\ x.size # y.size
            BY <1>1, <2>5
        <3>2. compareDirEntryBySize(x, y) = 1
            BY <1>1, <2>5, <3>1 DEF compareDirEntryBySize, Compare
        <3> QED
            BY <2>1, <3>2
    <2> QED
        BY <1>1, <2>3, <2>4, <2>5
<1>3. CASE SortName(sort) = "time"
    <2>1. compareDirEntryByTime(x, y) <= 0
        BY <1>3 DEF DirCmp
    <2>2. Key(x, sort) = x.modTime /\ Key(y, sort) = y.modTime
        BY <1>3 DEF Key
    <2>3. CASE x.modTime = y.modTime
        <3>1. CompareDirEntryByName(x, y) <= 0
            BY <2>1, <2>3 DEF compareDirEntryByTime
        <3>2. NameUpTo(x, y)
            BY <3>1, ByName
        <3> QED
            BY <2>2, <2>3, <3>2 DEF UpTo
    <2>4. CASE x.modTime < y.modTime
        BY <2>2, <2>4 DEF UpTo
    <2>5. CASE y.modTime < x.modTime
        <3>1. compareDirEntryByTime(x, y) = 1
            BY <1>1, <2>5 DEF compareDirEntryByTime, Compare
        <3> QED
            BY <2>1, <3>1
    <2> QED
        BY <1>1, <2>3, <2>4, <2>5
<1>4. CASE SortName(sort) \notin {"size", "time"}
    <2>1. CompareDirEntryByName(x, y) <= 0
        BY <1>4 DEF DirCmp
    <2>2. NameUpTo(x, y)
        BY <2>1, ByName
    <2>3. Key(x, sort) = 0 /\ Key(y, sort) = 0
        BY <1>4 DEF Key
    <2> QED
        BY <2>2, <2>3 DEF UpTo
<1> QED
    BY <1>2, <1>3, <1>4

-----------------------------------------------------------------------------
(* Sorted sequences *)

Transitive(R, S) == \A x, y, z \in S : <<x, y>> \in R /\ <<y, z>> \in R => <<x, z>> \in R

Neighbours(s, R) == \A k \in 1..(Len(s) - 1) : <<s[k], s[k + 1]>> \in R

Sorted(s, R) == \A j, k \in 1..Len(s) : j < k => <<s[j], s[k]>> \in R

(* Where no neighbours are in the wrong order, no two elements are.         *)
LEMMA SortedThroughout ==
    ASSUME NEW S, NEW s \in Seq(S), NEW R, Transitive(R, S), Neighbours(s, R)
    PROVE  Sorted(s, R)
<1>1. Len(s) \in Nat /\ \A k \in 1..Len(s) : s[k] \in S
    BY LenProperties, ElementOfSeq
<1> SUFFICES ASSUME NEW j \in 1..Len(s)
             PROVE  \A k \in 1..Len(s) : j < k => <<s[j], s[k]>> \in R
    BY DEF Sorted
<1> DEFINE T == {k \in 0..Len(s) : j < k => <<s[j], s[k]>> \in R}
<1>2. 0 \in T
    BY <1>1
<1>3. ASSUME NEW k \in 0..(Len(s) - 1), k \in T
      PROVE  k + 1 \in T
    <2>1. k + 1 \in 0..Len(s)
        BY <1>1
    <2>2. CASE j < k
        <3>1. k \in 1..Len(s) /\ k + 1 \in 1..Len(s) /\ k \in 1..(Len(s) - 1)
            BY <1>1, <2>2
        <3>2. <<s[j], s[k]>> \in R
            BY <1>3, <2>2
        <3>3. <<s[k], s[k + 1]>> \in R
            BY <3>1 DEF Neighbours
        <3>4. s[j] \in S /\ s[k] \in S /\ s[k + 1] \in S
            BY <1>1, <3>1
        <3>5. <<s[j], s[k + 1]>> \in R
            BY <3>2, <3>3, <3>4 DEF Transitive
        <3> QED
            BY <2>1, <3>5
    <2>3. CASE j = k
        <3>1. k \in 1..(Len(s) - 1)
            BY <1>1, <2>3
        <3>2. <<s[j], s[k + 1]>> \in R
            BY <2>3, <3>1 DEF Neighbours
        <3> QED
            BY <2>1, <3>2
    <2>4. CASE j > k
        <3>1. ~(j < k + 1)
            BY <2>4
        <3> QED
            BY <2>1, <3>1
    <2> QED
        BY <2>2, <2>3, <2>4
<1>4. \A k \in 0..Len(s) : k \in T
    <2> HIDE DEF T
    <2> QED
        BY <1>1, <1>2, <1>3, Induction
<1>5. \A k \in 1..Len(s) : k \in 0..Len(s)
    BY <1>1
<1> QED
    BY <1>4, <1>5

(* Two sorted listings of a set have equivalent elements at every place:    *)
(* the elements from k on of the one and those up to k of the other are     *)
(* more than the set has.                                                   *)
LEMMA SortedAlike ==
    ASSUME NEW S, IsFiniteSet(S), NEW s \in SetToSeqs(S), NEW t \in SetToSeqs(S), NEW R,
           Transitive(R, S), \A x \in S : <<x, x>> \in R, Sorted(s, R), Sorted(t, R), NEW k \in 1..Len(s)
    PROVE  <<s[k], t[k]>> \in R
<1> DEFINE n == Cardinality(S)
           h == [m \in 1..(n + 1) |-> IF m <= k THEN t[m] ELSE s[m - 1]]
<1>1. /\ n \in Nat /\ Len(s) = n /\ Len(t) = n
      /\ \A i, j \in 1..n : i # j => s[i] # s[j] /\ t[i] # t[j]
      /\ \A i \in 1..n : s[i] \in S /\ t[i] \in S
    <2>1. s \in Seq(S) /\ Len(s) = n /\ \A i, j \in 1..Len(s) : i # j => s[i] # s[j]
        BY Listing
    <2>2. t \in Seq(S) /\ Len(t) = n /\ \A i, j \in 1..Len(t) : i # j => t[i] # t[j]
        BY Listing
    <2> QED
        BY <2>1, <2>2, FS_CardinalityType, ElementOfSeq
<1> HIDE DEF n
<1>2. k \in 1..n
    BY <1>1
<1>3. ASSUME NEW m \in 1..(n + 1)
      PROVE  /\ m <= k => m \in 1..n
             /\ m > k => m - 1 \in 1..n /\ m - 1 >= k
             /\ h[m] = (IF m <= k THEN t[m] ELSE s[m - 1]) /\ h[m] \in S
    <2>1. (m <= k => m \in 1..n) /\ (m > k => m - 1 \in 1..n /\ m - 1 >= k)
        BY <1>1, <1>2
    <2>2. m <= k \/ m > k
        BY <1>2
    <2> QED
        BY <1>1, <2>1, <2>2
<1>4. h \in [1..(n + 1) -> S]
    BY <1>3
<1> HIDE DEF h
<1>5. PICK x \in 1..(n + 1), y \in 1..(n + 1) : x # y /\ h[x] = h[y]
    <2>1. IsFiniteSet(1..(n + 1)) /\ Cardinality(1..(n + 1)) = n + 1
        BY <1>1, FS_Interval
    <2>2. Cardinality(S) < Cardinality(1..(n + 1))
        BY <1>1, <2>1 DEF n
    <2> QED
        BY <1>4, <2>1, <2>2, FS_PigeonHole
<1>6. PICK i \in 1..n, j \in 1..n : i >= k /\ j <= k /\ s[i] = t[j]
    <2>1. CASE x <= k /\ y <= k
        BY <1>1, <1>3, <1>5, <2>1
    <2>2. CASE x > k /\ y > k
        <3>1. x - 1 \in 1..n /\ y - 1 \in 1..n /\ x - 1 # y - 1
            BY <1>3, <1>5, <2>2
        <3>2. h[x] = s[x - 1] /\ h[y] = s[y - 1]
            BY <1>2, <1>3, <2>2
        <3> QED
            BY <1>1, <1>5, <3>1, <3>2
    <2>3. CASE x <= k /\ y > k
        <3>1. x \in 1..n /\ y - 1 \in 1..n /\ y - 1 >= k
            BY <1>3, <2>3
        <3>2. h[x] = t[x] /\ h[y] = s[y - 1]
            BY <1>2, <1>3, <2>3
        <3> QED
            BY <1>5, <2>3, <3>1, <3>2
    <2>4. CASE x > k /\ y <= k
        <3>1. y \in 1..n /\ x - 1 \in 1..n /\ x - 1 >= k
            BY <1>3, <2>4
        <3>2. h[y] = t[y] /\ h[x] = s[x - 1]
            BY <1>2, <1>3, <2>4
        <3> QED
            BY <1>5, <2>4, <3>1, <3>2
    <2> QED
        BY <1>2, <2>1, <2>2, <2>3, <2>4
<1>7. <<s[k], s[i]>> \in R
    <2>1. k = i \/ k < i
        BY <1>2, <1>6
    <2> QED
        BY <1>1, <1>2, <2>1 DEF Sorted
<1>8. <<t[j], t[k]>> \in R
    <2>1. j = k \/ j < k
        BY <1>2, <1>6
    <2> QED
        BY <1>1, <1>2, <2>1 DEF Sorted
<1> QED
    BY <1>1, <1>2, <1>6, <1>7, <1>8 DEF Transitive

-----------------------------------------------------------------------------
(* The listings of a directory *)

(* Reversing a list twice gives the list.                                   *)
LEMMA ReverseTwice ==
    ASSUME NEW S, NEW s \in Seq(S)
    PROVE  Reverse(s) \in Seq(S) /\ Len(Reverse(s)) = Len(s) /\ Reverse(Reverse(s)) = s
<1>1. Len(s) \in Nat /\ s = [i \in 1..Len(s) |-> s[i]] /\ \A i \in 1..Len(s) : s[i] \in S
    BY LenProperties, ElementOfSeq
<1> DEFINE r == Reverse(s)
<1>2. \A i \in 1..Len(s) : Len(s) - i + 1 \in 1..Len(s) /\ Len(s) - (Len(s) - i + 1) + 1 = i
    BY <1>1
<1>3. r = [i \in 1..Len(s) |-> s[Len(s) - i + 1]]
    BY DEF Reverse
<1>4. r \in [1..Len(s) -> S]
    BY <1>1, <1>2, <1>3
<1> HIDE DEF r
<1>5. r \in Seq(S) /\ Len(r) = Len(s)
    BY <1>1, <1>4, IsASeq, LenProperties
<1>6. Reverse(r) = [i \in 1..Len(s) |-> r[Len(s) - i + 1]]
    BY <1>5 DEF Reverse
<1>7. \A i \in 1..Len(s) : r[Len(s) - i + 1] = s[i]
    BY <1>2, <1>3
<1>8. Reverse(r) = s
    BY <1>1, <1>6, <1>7
<1> QED
    BY <1>5, <1>8 DEF r

OrderOn(S, sort) == {p \in S \X S : UpTo(p[1], p[2], sort)}

Ascending(s, order) == IF order = "desc" THEN Reverse(s) ELSE s

(* The order as a relation on the entries of a listing.                     *)
LEMMA OrderOnLaws ==
    ASSUME NEW S, \A x \in S : IsEntry(x), NEW sort
    PROVE  Transitive(OrderOn(S, sort), S) /\ \A x \in S : <<x, x>> \in OrderOn(S, sort)
<1>1. ASSUME NEW x \in S, NEW y \in S
      PROVE  <<x, y>> \in OrderOn(S, sort) <=> UpTo(x, y, sort)
    BY DEF OrderOn
<1>2. ASSUME NEW x \in S, NEW y \in S, NEW z \in S,
             <<x, y>> \in OrderOn(S, sort), <<y, z>> \in OrderOn(S, sort)
      PROVE  <<x, z>> \in OrderOn(S, sort)
    <2>1. UpTo(x, y, sort) /\ UpTo(y, z, sort)
        BY <1>1, <1>2
    <2>2. UpTo(x, z, sort)
        BY <2>1, UpToLaws
    <2> QED
        BY <1>1, <2>2
<1>3. ASSUME NEW x \in S
      PROVE  <<x, x>> \in OrderOn(S, sort)
    <2>1. UpTo(x, x, sort)
        BY UpToLaws
    <2> QED
        BY <1>1, <2>1
<1> QED
    BY <1>2, <1>3 DEF Transitive

(* A listing, the right way round, is sorted.                               *)
LEMMA ListingSorted ==
    ASSUME NEW S, IsFiniteSet(S), \A x \in S : IsEntry(x),
           \A x, y \in S : Comparable(x.of.name, y.of.name), NEW sort, NEW order,
           NEW s \in GetDirInfo(S, sort, order)
    PROVE  /\ s \in Seq(S)
           /\ Ascending(s, order) \in SetToSeqs(S)
           /\ Sorted(Ascending(s, order), OrderOn(S, sort))
<1>1. PICK t \in SetToSeqs(S) : /\ \A k \in 1..(Len(t) - 1) : DirCmp(t[k], t[k + 1], sort) <= 0
                                /\ s = IF order = "desc" THEN Reverse(t) ELSE t
    BY DEF GetDirInfo, SortFunc, DirCmp
<1>2. t \in Seq(S)
    BY Listing
<1>3. s \in Seq(S) /\ Ascending(s, order) = t
    BY <1>1, <1>2, ReverseTwice DEF Ascending
<1>4. Neighbours(t, OrderOn(S, sort))
    <2> SUFFICES ASSUME NEW k \in 1..(Len(t) - 1)
                 PROVE  <<t[k], t[k + 1]>> \in OrderOn(S, sort)
        BY DEF Neighbours
    <2>1. k \in 1..Len(t) /\ k + 1 \in 1..Len(t)
        BY <1>2, LenProperties
    <2>2. t[k] \in S /\ t[k + 1] \in S
        BY <1>2, <2>1, ElementOfSeq
    <2>3. UpTo(t[k], t[k + 1], sort)
        BY <1>1, <2>2, Decides
    <2> QED
        BY <2>2, <2>3 DEF OrderOn
<1>5. Transitive(OrderOn(S, sort), S)
    BY OrderOnLaws
<1>6. Sorted(t, OrderOn(S, sort))
    BY <1>2, <1>4, <1>5, SortedThroughout
<1> QED
    BY <1>3, <1>6

(* Two listings of the same entries in the same order.                      *)
LEMMA ListingsAlike ==
    ASSUME NEW S, IsFiniteSet(S), \A x \in S : IsEntry(x),
           \A x, y \in S : Comparable(x.of.name, y.of.name), NEW sort, NEW order,
           NEW s \in GetDirInfo(S, sort, order), NEW t \in GetDirInfo(S, sort, order)
    PROVE  /\ DOMAIN s = DOMAIN t
           /\ \A k \in DOMAIN s : /\ s[k] \in S /\ t[k] \in S /\ s[k].isDir = t[k].isDir
                                /\ SameReading(s[k].of.name, t[k].of.name)
<1> DEFINE x == Ascending(s, order)
           y == Ascending(t, order)
           R == OrderOn(S, sort)
           n == Cardinality(S)
<1>1. s \in Seq(S) /\ x \in SetToSeqs(S) /\ Sorted(x, R) /\ t \in Seq(S) /\ y \in SetToSeqs(S) /\ Sorted(y, R)
    BY ListingSorted
<1>2. Transitive(R, S) /\ \A e \in S : <<e, e>> \in R
    BY OrderOnLaws
<1>3. Len(x) = n /\ Len(y) = n /\ n \in Nat /\ x \in Seq(S) /\ y \in Seq(S)
    BY <1>1, Listing, FS_CardinalityType
<1>4. ASSUME NEW k \in 1..n
      PROVE  x[k].isDir = y[k].isDir /\ SameReading(x[k].of.name, y[k].of.name)
    <2>1. k \in 1..Len(x) /\ k \in 1..Len(y)
        BY <1>3
    <2>2. x[k] \in S /\ y[k] \in S
        BY <1>3, <2>1, ElementOfSeq
    <2> HIDE DEF x, y, R
    <2>3. <<x[k], y[k]>> \in R
        BY <1>1, <1>2, <2>1, SortedAlike
    <2>4. <<y[k], x[k]>> \in R
        BY <1>1, <1>2, <2>1, SortedAlike
    <2>5. UpTo(x[k], y[k], sort) /\ UpTo(y[k], x[k], sort)
        BY <2>3, <2>4 DEF R, OrderOn
    <2> QED
        BY <2>2, <2>5, UpToLaws
<1>5. Len(s) = n /\ Len(t) = n /\ DOMAIN s = 1..n /\ DOMAIN t = 1..n
    <2>1. Len(s) = Len(x) /\ Len(t) = Len(y)
        BY <1>1, ReverseTwice DEF Ascending
    <2> QED
        BY <1>1, <1>3, <2>1, LenProperties
<1>6. ASSUME NEW k \in 1..n
      PROVE  /\ s[k] \in S /\ t[k] \in S /\ s[k].isDir = t[k].isDir
             /\ SameReading(s[k].of.name, t[k].of.name)
    <2>1. s[k] \in S /\ t[k] \in S
        BY <1>1, <1>5, ElementOfSeq
    <2>2. CASE order = "desc"
        <3>1. x = Reverse(s) /\ y = Reverse(t)
            BY <2>2 DEF Ascending
        <3>2. n - k + 1 \in 1..n /\ n - (n - k + 1) + 1 = k
            BY <1>3
        <3>3. x[n - k + 1] = s[k] /\ y[n - k + 1] = t[k]
            BY <1>5, <3>1, <3>2 DEF Reverse
        <3> QED
            BY <1>4, <2>1, <3>2, <3>3
    <2>3. CASE order # "desc"
        <3>1. x = s /\ y = t
            BY <2>3 DEF Ascending
        <3> QED
            BY <1>4, <2>1, <3>1
    <2> QED
        BY <2>2, <2>3
<1> QED
    BY <1>5, <1>6

(* What comes up to another entry of its kind does not come naturally after *)
(* it.                                                                      *)
LEMMA NotNaturallyBefore ==
    ASSUME NEW x, IsEntry(x), NEW y, IsEntry(y), NameOrder(x, y)
    PROVE  ~NaturallyBefore(y.of.name, x.of.name)
<1> DEFINE r == Read(x.of.name)
           s == Read(y.of.name)
           l == Len(x.of.name)
           m == Len(y.of.name)
<1>1. r \in Seq(Token) /\ s \in Seq(Token) /\ l \in Nat /\ m \in Nat
    BY ReadTyped
<1>2. Lex(r, s) \/ (r = s /\ l <= m)
    BY DEF NameOrder, ReadUpTo
<1> HIDE DEF r, s, l, m
<1>3. ~TokensBefore(s, r)
    <2>1. CASE r = s
        BY <1>1, <2>1, NotBeforeItself, LenProperties
    <2>2. CASE Lex(r, s)
        BY <1>1, <2>2, LexNotBefore
    <2> QED
        BY <1>2, <2>1, <2>2
<1>4. ~(s = r /\ m < l)
    BY <1>1, <1>2, LexIrreflexive
<1> QED
    BY <1>3, <1>4 DEF NaturallyBefore, r, s, l, m

-----------------------------------------------------------------------------
(* Compaction *)

-----------------------------------------------------------------------------
(* Texts in the order of their characters *)

TextAhead(s, t, l) ==
    /\ l \in Nat /\ l <= Len(s) /\ l < Len(t)
    /\ \A k \in 1..l : s[k] = t[k]
    /\ Len(s) = l \/ s[l + 1] < t[l + 1]

TextUpTo(s, t) == s = t \/ \E l \in Nat : TextAhead(s, t, l)

(* s is the beginning of t.                                                 *)
Starts(s, t) == Len(s) <= Len(t) /\ \A k \in 1..Len(s) : s[k] = t[k]

(* IsPrefix, element by element.                                            *)
LEMMA PrefixStarts ==
    ASSUME NEW S, NEW s \in Seq(S), NEW t \in Seq(S)
    PROVE  IsPrefix(s, t) <=> Starts(s, t)
<1> DEFINE n == Len(s)
           x == SubSeq(s, 1, n)
           y == SubSeq(t, 1, n)
<1>1. n \in Nat /\ Len(t) \in Nat /\ (\A k \in 1..n : s[k] \in S) /\ \A k \in 1..Len(t) : t[k] \in S
    BY LenProperties, ElementOfSeq
<1>2. CASE n <= Len(t)
    <2>1. \A k \in 1..n : k \in 1..Len(t)
        BY <1>1, <1>2
    <2>2. x \in Seq(S) /\ Len(x) = n /\ \A k \in 1..n : x[k] = s[k]
        BY <1>1, SubSeqProperties
    <2>3. y \in Seq(S) /\ Len(y) = n /\ \A k \in 1..n : y[k] = t[k]
        BY <1>1, <2>1, SubSeqProperties
    <2> HIDE DEF x, y
    <2>4. x = y <=> \A k \in 1..n : s[k] = t[k]
        BY <2>2, <2>3, SeqEqual
    <2> QED
        BY <1>2, <2>4 DEF IsPrefix, Starts, x, y
<1>3. CASE ~(n <= Len(t))
    BY <1>3 DEF IsPrefix, Starts
<1> QED
    BY <1>2, <1>3

(* strings.Compare decides by the order of texts.                           *)
LEMMA TextsDecide ==
    ASSUME NEW a \in Seq(Nat), NEW b \in Seq(Nat), StringsCompare(a, b) <= 0
    PROVE  TextUpTo(a, b)
<1> SUFFICES ASSUME a # b
             PROVE  \E l \in Nat : TextAhead(a, b, l)
    BY DEF TextUpTo
<1>1. PICK p : FirstDiff(a, b, p)
    BY FirstDiffExists
<1>2. Len(a) \in Nat /\ Len(b) \in Nat /\ DOMAIN a = 1..Len(a) /\ DOMAIN b = 1..Len(b)
    BY LenProperties
<1>3. p \in Nat \ {0} /\ p <= Len(a) + 1 /\ p <= Len(b) + 1 /\ (p <= Len(a) \/ p <= Len(b))
    BY <1>1 DEF FirstDiff
<1>4. \A k \in 1..(p - 1) : a[k] = b[k]
    BY <1>1 DEF FirstDiff
<1>5. PICK l \in Nat : l = p - 1 /\ l + 1 = p
    BY <1>3
<1>6. \A k \in 1..l : a[k] = b[k]
    BY <1>4, <1>5
<1>7. CASE p <= Len(a) /\ p <= Len(b)
    <2>1. a[p] # b[p] /\ p \in 1..Len(a) /\ p \in 1..Len(b)
        BY <1>1, <1>2, <1>3, <1>7 DEF FirstDiff
    <2>2. StringsCompare(a, b) = Compare(a[p], b[p])
        BY <1>4, <2>1, StringsDiffer DEF Alike
    <2>3. a[p] \in Nat /\ b[p] \in Nat
        BY <2>1, ElementOfSeq
    <2>4. a[p] < b[p]
        BY <2>1, <2>2, <2>3 DEF Compare
    <2>5. l <= Len(a) /\ l < Len(b)
        BY <1>2, <1>3, <1>5, <1>7
    <2>6. TextAhead(a, b, l)
        BY <1>5, <1>6, <2>4, <2>5 DEF TextAhead
    <2> QED
        BY <2>6
<1>8. CASE ~(p <= Len(a) /\ p <= Len(b))
    <2>1. {k \in DOMAIN a \cap DOMAIN b : a[k] # b[k]} = {}
        <3> SUFFICES ASSUME NEW k \in 1..Len(a), k \in 1..Len(b)
                     PROVE  a[k] = b[k]
            BY <1>2
        <3>1. k \in 1..(p - 1)
            BY <1>2, <1>3, <1>8
        <3> QED
            BY <1>4, <3>1
    <2>2. StringsCompare(a, b) = Compare(Len(a), Len(b))
        BY <2>1 DEF StringsCompare
    <2>3. Len(a) <= Len(b)
        BY <1>2, <2>2 DEF Compare
    <2>4. l = Len(a) /\ l < Len(b)
        BY <1>2, <1>3, <1>5, <1>8, <2>3
    <2>5. TextAhead(a, b, l)
        BY <1>2, <1>6, <2>4 DEF TextAhead
    <2> QED
        BY <2>5
<1> QED
    BY <1>7, <1>8

(* The order of texts is transitive.                                        *)
LEMMA TextTransitive ==
    ASSUME NEW s \in Seq(Nat), NEW t \in Seq(Nat), NEW u \in Seq(Nat), TextUpTo(s, t), TextUpTo(t, u)
    PROVE  TextUpTo(s, u)
<1>1. CASE s = t \/ t = u
    BY <1>1
<1>2. CASE s # t /\ t # u
    <2>1. PICK l \in Nat : TextAhead(s, t, l)
        BY <1>2 DEF TextUpTo
    <2>2. PICK m \in Nat : TextAhead(t, u, m)
        BY <1>2 DEF TextUpTo
    <2>3. /\ l <= Len(s) /\ l < Len(t) /\ (\A k \in 1..l : s[k] = t[k])
          /\ Len(s) = l \/ s[l + 1] < t[l + 1]
        BY <2>1 DEF TextAhead
    <2>4. /\ m <= Len(t) /\ m < Len(u) /\ (\A k \in 1..m : t[k] = u[k])
          /\ Len(t) = m \/ t[m + 1] < u[m + 1]
        BY <2>2 DEF TextAhead
    <2>5. Len(s) \in Nat /\ Len(t) \in Nat /\ Len(u) \in Nat
        BY LenProperties
    <2>6. CASE l < m
        <3>1. l + 1 \in 1..m /\ (\A k \in 1..l : k \in 1..m) /\ l < Len(u)
            BY <2>4, <2>5, <2>6
        <3>2. TextAhead(s, u, l)
            BY <2>3, <2>4, <3>1 DEF TextAhead
        <3> QED
            BY <3>2 DEF TextUpTo
    <2>7. CASE l = m
        <3>1. l < Len(u) /\ Len(t) # m
            BY <2>3, <2>4, <2>5, <2>7
        <3>2. Len(s) = l \/ s[l + 1] < u[l + 1]
            <4> SUFFICES ASSUME Len(s) # l
                         PROVE  s[l + 1] < u[l + 1]
                OBVIOUS
            <4>1. l + 1 \in 1..Len(s) /\ l + 1 \in 1..Len(t) /\ l + 1 \in 1..Len(u)
                BY <2>3, <2>5, <3>1
            <4>2. s[l + 1] \in Nat /\ t[l + 1] \in Nat /\ u[l + 1] \in Nat
                BY <4>1, ElementOfSeq
            <4>3. s[l + 1] < t[l + 1] /\ t[l + 1] < u[l + 1]
                BY <2>3, <2>4, <2>7, <3>1
            <4> QED
                BY <4>2, <4>3
        <3>3. TextAhead(s, u, l)
            BY <2>3, <2>4, <2>7, <3>1, <3>2 DEF TextAhead
        <3> QED
            BY <3>3 DEF TextUpTo
    <2>8. CASE m < l
        <3>1. m + 1 \in 1..l /\ (\A k \in 1..m : k \in 1..l) /\ m <= Len(s) /\ Len(t) # m
            BY <2>3, <2>5, <2>8
        <3>2. TextAhead(s, u, m)
            BY <2>3, <2>4, <3>1 DEF TextAhead
        <3> QED
            BY <3>2 DEF TextUpTo
    <2> QED
        BY <2>6, <2>7, <2>8
<1> QED
    BY <1>1, <1>2

(* Between a text and one it begins there are only texts that it begins.    *)
LEMMA Between ==
    ASSUME NEW d \in Seq(Nat), NEW y \in Seq(Nat), NEW z \in Seq(Nat),
           TextUpTo(d, y), TextUpTo(y, z), Starts(d, z)
    PROVE  Starts(d, y)
<1>1. Len(d) \in Nat /\ Len(y) \in Nat /\ Len(z) \in Nat
    BY LenProperties
<1>2. Len(d) <= Len(z) /\ \A k \in 1..Len(d) : d[k] = z[k]
    BY DEF Starts
<1>3. CASE d = y
    BY <1>1, <1>3 DEF Starts
<1>4. CASE d # y
    <2>1. PICK l \in Nat : TextAhead(d, y, l)
        BY <1>4 DEF TextUpTo
    <2>2. /\ l <= Len(d) /\ l < Len(y) /\ (\A k \in 1..l : d[k] = y[k])
          /\ Len(d) = l \/ d[l + 1] < y[l + 1]
        BY <2>1 DEF TextAhead
    <2>3. CASE Len(d) = l
        BY <1>1, <2>2, <2>3 DEF Starts
    <2>4. CASE Len(d) # l
        <3>1. l + 1 \in 1..Len(d) /\ l + 1 \in 1..Len(y) /\ l + 1 \in 1..Len(z)
            BY <1>1, <1>2, <2>2, <2>4
        <3>2. d[l + 1] \in Nat /\ y[l + 1] \in Nat /\ d[l + 1] < y[l + 1] /\ z[l + 1] = d[l + 1]
            BY <1>2, <2>2, <2>4, <3>1, ElementOfSeq
        <3>3. y # z
            BY <3>2
        <3>4. PICK m \in Nat : TextAhead(y, z, m)
            BY <3>3 DEF TextUpTo
        <3>5. /\ m <= Len(y) /\ m < Len(z) /\ (\A k \in 1..m : y[k] = z[k])
              /\ Len(y) = m \/ y[m + 1] < z[m + 1]
            BY <3>4 DEF TextAhead
        <3>6. CASE m > l
            <4>1. l + 1 \in 1..m
                BY <3>6
            <4> QED
                BY <3>2, <3>5, <4>1
        <3>7. CASE m = l
            <4>1. Len(y) # m
                BY <1>1, <2>2, <3>7
            <4> QED
                BY <3>2, <3>5, <3>7, <4>1
        <3>8. CASE m < l
            <4>1. Len(y) # m /\ m + 1 \in 1..l /\ m + 1 \in 1..Len(d) /\ m + 1 \in 1..Len(y)
                BY <1>1, <2>2, <3>8
            <4>2. y[m + 1] = d[m + 1] /\ d[m + 1] = z[m + 1] /\ y[m + 1] \in Nat
                BY <1>2, <2>2, <4>1, ElementOfSeq
            <4> QED
                BY <3>5, <4>1, <4>2
        <3> QED
            BY <3>6, <3>7, <3>8
    <2> QED
        BY <2>3, <2>4
<1> QED
    BY <1>3, <1>4

(* A text that comes up to a beginning of it is that beginning.             *)
LEMMA UpToStart ==
    ASSUME NEW d \in Seq(Nat), NEW z \in Seq(Nat), TextUpTo(z, d), Starts(d, z)
    PROVE  d = z
<1> SUFFICES ASSUME NEW l \in Nat, TextAhead(z, d, l)
             PROVE  FALSE
    BY DEF TextUpTo
<1>1. Len(d) \in Nat /\ Len(z) \in Nat
    BY LenProperties
<1>2. Len(d) <= Len(z) /\ \A k \in 1..Len(d) : d[k] = z[k]
    BY DEF Starts
<1>3. l < Len(d) /\ z[l + 1] < d[l + 1]
    BY <1>1, <1>2 DEF TextAhead
<1>4. l + 1 \in 1..Len(d)
    BY <1>1, <1>3
<1>5. d[l + 1] \in Nat /\ z[l + 1] = d[l + 1]
    BY <1>2, <1>4, ElementOfSeq
<1> QED
    BY <1>3, <1>5

(* What begins with a text that begins with another begins with that.       *)
LEMMA StartsTransitive ==
    ASSUME NEW a \in Seq(Nat), NEW b \in Seq(Nat), NEW c \in Seq(Nat), Starts(a, b), Starts(b, c)
    PROVE  Starts(a, c)
<1>1. Len(a) \in Nat /\ Len(b) \in Nat /\ Len(c) \in Nat
    BY LenProperties
<1>2. /\ Len(a) <= Len(b) /\ \A k \in 1..Len(a) : a[k] = b[k]
      /\ Len(b) <= Len(c) /\ \A k \in 1..Len(b) : b[k] = c[k]
    BY DEF Starts
<1>3. Len(a) <= Len(c) /\ \A k \in 1..Len(a) : k \in 1..Len(b)
    BY <1>1, <1>2
<1>4. \A k \in 1..Len(a) : a[k] = c[k]
    BY <1>2, <1>3
<1> QED
    BY <1>3, <1>4 DEF Starts

(* Texts that begin with each other are the same.                           *)
LEMMA StartsBoth ==
    ASSUME NEW a \in Seq(Nat), NEW b \in Seq(Nat), Starts(a, b), Starts(b, a)
    PROVE  a = b
<1>1. Len(a) \in Nat /\ Len(b) \in Nat
    BY LenProperties
<1>2. Len(a) = Len(b) /\ \A k \in 1..Len(a) : a[k] = b[k]
    BY <1>1 DEF Starts
<1> QED
    BY <1>2, SeqEqual

-----------------------------------------------------------------------------
(* Compaction *)

KeptAfter(kept, hit) ==
    IF kept # <<>> /\ MergedInto(Last(kept), hit) THEN kept ELSE Append(kept, hit)

Compacts(res, hits, S) ==
    /\ res[0] = <<>>
    /\ \A k \in 1..Len(hits) : res[k] = KeptAfter(res[k - 1], hits[k])
    /\ \A k \in 0..Len(hits) : res[k] \in Seq(S)
    /\ Compacted(hits) = ToSet(res[Len(hits)])

(* Compacted keeps one list of hits while it goes through the hits.         *)
LEMMA CompactionRuns ==
    ASSUME NEW S, NEW hits \in Seq(S)
    PROVE  \E res : Compacts(res, hits, S)
<1> DEFINE n == Len(hits)
           Kept(kept, k) == IF kept # <<>> /\ MergedInto(Last(kept), hits[k]) THEN kept
                            ELSE Append(kept, hits[k])
           res[k \in 0..Len(hits)] ==
               IF k = 0 THEN <<>>
               ELSE LET kept == res[k - 1]
                    IN  IF kept # <<>> /\ MergedInto(Last(kept), hits[k]) THEN kept
                        ELSE Append(kept, hits[k])
           step == [p \in Seq(S) \X (1..n) |-> Kept(p[1], p[2])]
<1>1. n \in Nat /\ \A k \in 1..n : hits[k] \in S
    BY LenProperties, ElementOfSeq
<1>2. ASSUME NEW k \in 1..n, NEW x \in Seq(S)
      PROVE  step[<<x, k>>] = Kept(x, k) /\ Kept(x, k) \in Seq(S)
    <2>1. Append(x, hits[k]) \in Seq(S)
        BY <1>1, AppendProperties
    <2>2. step[<<x, k>>] = Kept(x, k)
        <3> HIDE DEF Kept
        <3> QED
            OBVIOUS
    <2> QED
        BY <2>1, <2>2
<1>3. PICK f \in [0..n -> Seq(S)] : Computes(f, <<>>, step, n)
    <2> DEFINE b == <<>>
               Q == Seq(S)
    <2>1. n \in Nat /\ b \in Q /\ step \in [Q \X (1..n) -> Q]
        <3> HIDE DEF Kept
        <3> QED
            BY <1>1, <1>2, EmptySeq
    <2> HIDE DEF step, n, b, Q
    <2>2. \E f \in [0..n -> Q] : Computes(f, b, step, n)
        BY <2>1, TypedRecursion
    <2> QED
        BY <2>2 DEF b, Q
<1>4. f = [k \in 0..Len(hits) |->
             IF k = 0 THEN <<>>
             ELSE LET kept == f[k - 1]
                  IN  IF kept # <<>> /\ MergedInto(Last(kept), hits[k]) THEN kept
                      ELSE Append(kept, hits[k])]
    <2>1. ASSUME NEW k \in 1..n
          PROVE  f[k] = Kept(f[k - 1], k)
        <3>1. f[k - 1] \in Seq(S)
            BY <1>1
        <3> HIDE DEF step, Kept
        <3> QED
            BY <1>2, <1>3, <3>1 DEF Computes
    <2>2. \A k \in 0..n : k # 0 => k \in 1..n
        BY <1>1
    <2> QED
        BY <1>3, <2>1, <2>2 DEF Computes
<1>5. res = [k \in 0..Len(hits) |->
             IF k = 0 THEN <<>>
             ELSE LET kept == res[k - 1]
                  IN  IF kept # <<>> /\ MergedInto(Last(kept), hits[k]) THEN kept
                      ELSE Append(kept, hits[k])]
    BY <1>4
<1>6. Compacted(hits) = ToSet(res[n])
    BY DEF Compacted
<1> HIDE DEF res, step
<1>7. res[0] = <<>> /\ \A k \in 1..n : res[k] = Kept(res[k - 1], k)
    <2>1. 0 \in 0..n /\ \A k \in 1..n : k \in 0..n /\ k # 0
        BY <1>1
    <2> QED
        BY <1>5, <2>1
<1>8. \A k \in 0..n : res[k] \in Seq(S)
    <2> DEFINE T == {k \in 0..n : res[k] \in Seq(S)}
    <2>1. 0 \in T
        <3>1. 0 \in 0..n
            BY <1>1
        <3>2. res[0] \in Seq(S)
            BY <1>7, EmptySeq
        <3> QED
            BY <3>1, <3>2
    <2>2. ASSUME NEW k \in 0..(n - 1), k \in T
          PROVE  k + 1 \in T
        <3>1. k + 1 \in 1..n /\ k + 1 \in 0..n /\ (k + 1) - 1 = k
            BY <1>1
        <3>2. res[k + 1] = Kept(res[k], k + 1)
            BY <1>7, <3>1
        <3> HIDE DEF Kept
        <3> QED
            BY <1>2, <2>2, <3>1, <3>2
    <2> HIDE DEF T
    <2>3. \A k \in 0..n : k \in T
        BY <1>1, <2>1, <2>2, Induction
    <2> QED
        BY <2>3 DEF T
<1>9. Compacts(res, hits, S)
    BY <1>6, <1>7, <1>8 DEF Compacts, KeptAfter
<1> QED
    BY <1>9

(* Compaction only leaves hits out.                                         *)
LEMMA CompactedKeeps ==
    ASSUME NEW S, NEW hits \in Seq(S)
    PROVE  Compacted(hits) \subseteq S
<1>1. PICK res : Compacts(res, hits, S)
    BY CompactionRuns
<1>2. Len(hits) \in 0..Len(hits)
    BY LenProperties
<1>3. res[Len(hits)] \in Seq(S) /\ Compacted(hits) = ToSet(res[Len(hits)])
    BY <1>1, <1>2 DEF Compacts
<1> QED
    BY <1>3, LenProperties, ElementOfSeq DEF ToSet

IsHit(h) == h.score \in Int /\ h.entry.path \in Seq(Nat) /\ h.entry.isDir \in BOOLEAN

Absorbs(d, h) == d.entry.isDir /\ h.score = d.score /\ Starts(d.entry.path, h.entry.path)

HitUpTo(x, y) == x.score > y.score \/ (x.score = y.score /\ TextUpTo(x.entry.path, y.entry.path))

(* A hit is merged into another that absorbs it.                            *)
LEMMA MergedAbsorbs ==
    ASSUME NEW d, IsHit(d), NEW h, IsHit(h)
    PROVE  MergedInto(d, h) <=> Absorbs(d, h)
<1>1. d.entry.path \in Seq(Nat) /\ h.entry.path \in Seq(Nat)
    BY DEF IsHit
<1>2. IsPrefix(d.entry.path, h.entry.path) <=> Starts(d.entry.path, h.entry.path)
    BY <1>1, PrefixStarts
<1> QED
    BY <1>2 DEF MergedInto, Absorbs

(* The sort before compaction is by score and then by path.                 *)
LEMMA CompactDecides ==
    ASSUME NEW x, IsHit(x), NEW y, IsHit(y), CompactOrder(x, y) <= 0
    PROVE  HitUpTo(x, y)
<1>1. /\ x.score \in Int /\ y.score \in Int
      /\ x.entry.path \in Seq(Nat) /\ y.entry.path \in Seq(Nat)
    BY DEF IsHit
<1>2. CASE x.score = y.score
    <2>1. StringsCompare(x.entry.path, y.entry.path) <= 0
        BY <1>2 DEF CompactOrder
    <2>2. TextUpTo(x.entry.path, y.entry.path)
        BY <1>1, <2>1, TextsDecide
    <2> QED
        BY <1>2, <2>2 DEF HitUpTo
<1>3. CASE x.score # y.score
    <2>1. Compare(y.score, x.score) <= 0
        BY <1>3 DEF CompactOrder
    <2>2. x.score > y.score
        BY <1>1, <1>3, <2>1 DEF Compare
    <2> QED
        BY <2>2 DEF HitUpTo
<1> QED
    BY <1>2, <1>3

(* This order is transitive, and what a hit absorbs comes right behind it.  *)
LEMMA HitLaws ==
    ASSUME NEW x, IsHit(x), NEW y, IsHit(y), NEW z, IsHit(z), HitUpTo(x, y), HitUpTo(y, z)
    PROVE  /\ HitUpTo(x, z)
           /\ Absorbs(x, z) => Absorbs(x, y)
<1>1. /\ x.score \in Int /\ y.score \in Int /\ z.score \in Int
      /\ x.entry.path \in Seq(Nat) /\ y.entry.path \in Seq(Nat) /\ z.entry.path \in Seq(Nat)
    BY DEF IsHit
<1>2. CASE x.score = y.score /\ y.score = z.score
    <2>1. TextUpTo(x.entry.path, y.entry.path) /\ TextUpTo(y.entry.path, z.entry.path)
        BY <1>1, <1>2 DEF HitUpTo
    <2>2. TextUpTo(x.entry.path, z.entry.path)
        BY <1>1, <2>1, TextTransitive
    <2>3. Starts(x.entry.path, z.entry.path) => Starts(x.entry.path, y.entry.path)
        BY <1>1, <2>1, Between
    <2> QED
        BY <1>2, <2>2, <2>3 DEF HitUpTo, Absorbs
<1>3. CASE ~(x.score = y.score /\ y.score = z.score)
    <2>1. x.score > z.score
        BY <1>1, <1>3 DEF HitUpTo
    <2>2. x.score # z.score
        BY <1>1, <2>1
    <2> QED
        BY <2>1, <2>2 DEF HitUpTo, Absorbs
<1> QED
    BY <1>2, <1>3

(* No hit is merged into one that comes later, unless into its equal.       *)
LEMMA AbsorbedEarlier ==
    ASSUME NEW x, IsHit(x), NEW y, IsHit(y), HitUpTo(x, y), Absorbs(y, x)
    PROVE  x.entry.path = y.entry.path
<1>1. /\ x.score \in Int /\ y.score \in Int
      /\ x.entry.path \in Seq(Nat) /\ y.entry.path \in Seq(Nat)
    BY DEF IsHit
<1>2. x.score = y.score /\ Starts(y.entry.path, x.entry.path)
    BY DEF Absorbs
<1>3. TextUpTo(x.entry.path, y.entry.path)
    BY <1>1, <1>2 DEF HitUpTo
<1> QED
    BY <1>1, <1>2, <1>3, UpToStart

(* Absorbing is transitive, and antisymmetric up to the path.               *)
LEMMA AbsorbsLaws ==
    ASSUME NEW x, IsHit(x), NEW y, IsHit(y), NEW z, IsHit(z)
    PROVE  /\ Absorbs(x, y) /\ Absorbs(y, z) => Absorbs(x, z)
           /\ Absorbs(x, y) /\ Absorbs(y, x) => x.entry.path = y.entry.path
<1>1. x.entry.path \in Seq(Nat) /\ y.entry.path \in Seq(Nat) /\ z.entry.path \in Seq(Nat)
    BY DEF IsHit
<1>2. ASSUME Absorbs(x, y), Absorbs(y, z)
      PROVE  Absorbs(x, z)
    <2>1. Starts(x.entry.path, z.entry.path)
        BY <1>1, <1>2, StartsTransitive DEF Absorbs
    <2> QED
        BY <1>2, <2>1 DEF Absorbs
<1>3. ASSUME Absorbs(x, y), Absorbs(y, x)
      PROVE  x.entry.path = y.entry.path
    BY <1>1, <1>3, StartsBoth DEF Absorbs
<1> QED
    BY <1>2, <1>3

(* What has been kept of the first k of the sorted hits s.                  *)
Taken(r, s, k) == \A i \in 1..Len(r) : \E j \in 1..k : r[i] = s[j]

KeptInOrder(r) == \A i, j \in 1..Len(r) : i < j => HitUpTo(r[i], r[j])

Apart(r) == \A i, j \in 1..Len(r) : i # j => ~Absorbs(r[i], r[j])

Covers(r, s, k) == \A j \in 1..k : \E i \in 1..Len(r) : r[i] = s[j] \/ Absorbs(r[i], s[j])

KeptInv(r, s, k) == Taken(r, s, k) /\ KeptInOrder(r) /\ Apart(r) /\ Covers(r, s, k)

(* The hits are in the order of compaction, and a path is that of one hit.  *)
HitsInOrder(s) == \A i, j \in 1..Len(s) : i < j => HitUpTo(s[i], s[j])

OnePerPath(H) == \A g, h \in H : g.entry.path = h.entry.path => g = h

(* One turn of compaction: the hits kept absorb all that came before and    *)
(* none of each other.                                                      *)
LEMMA KeptStep ==
    ASSUME NEW H, \A h \in H : IsHit(h), OnePerPath(H), NEW s \in Seq(H), HitsInOrder(s),
           NEW k \in 0..(Len(s) - 1), NEW r \in Seq(H), KeptInv(r, s, k)
    PROVE  KeptInv(KeptAfter(r, s[k + 1]), s, k + 1)
<1> DEFINE h == s[k + 1]
           l == Last(r)
           q == KeptAfter(r, h)
<1>1. /\ Len(s) \in Nat /\ k \in Nat /\ k + 1 \in 1..Len(s) /\ Len(r) \in Nat
      /\ \A j \in 1..k : j \in 1..(k + 1) /\ j \in 1..Len(s) /\ j < k + 1
      /\ k + 1 \in 1..(k + 1)
    BY LenProperties
<1>2. h \in H /\ IsHit(h) /\ (\A i \in 1..Len(r) : r[i] \in H /\ IsHit(r[i])) /\ \A i \in 1..Len(s) : s[i] \in H
    BY <1>1, ElementOfSeq
<1>3. \A j \in 1..(k + 1) : j \in 1..k \/ j = k + 1
    BY <1>1
<1>4. Taken(r, s, k) /\ KeptInOrder(r) /\ Apart(r) /\ Covers(r, s, k)
    BY DEF KeptInv
<1>5. ASSUME NEW i \in 1..Len(r)
      PROVE  HitUpTo(r[i], h)
    <2>1. PICK j \in 1..k : r[i] = s[j]
        BY <1>4 DEF Taken
    <2> QED
        BY <1>1, <2>1 DEF HitsInOrder
<1>6. CASE r # <<>> /\ MergedInto(l, h)
    <2>1. q = r
        BY <1>6 DEF KeptAfter
    <2>2. Len(r) \in 1..Len(r) /\ l = r[Len(r)]
        BY <1>1, <1>6, EmptySeq DEF Last
    <2>3. Absorbs(r[Len(r)], h)
        BY <1>2, <1>6, <2>2, MergedAbsorbs
    <2>4. Taken(r, s, k + 1)
        BY <1>1, <1>4 DEF Taken
    <2>5. Covers(r, s, k + 1)
        <3> SUFFICES ASSUME NEW j \in 1..(k + 1)
                     PROVE  \E i \in 1..Len(r) : r[i] = s[j] \/ Absorbs(r[i], s[j])
            BY DEF Covers
        <3>1. CASE j \in 1..k
            BY <1>4, <3>1 DEF Covers
        <3>2. CASE j = k + 1
            BY <2>2, <2>3, <3>2
        <3> QED
            BY <1>3, <3>1, <3>2
    <2> QED
        BY <1>4, <2>1, <2>4, <2>5 DEF KeptInv
<1>7. CASE ~(r # <<>> /\ MergedInto(l, h))
    <2>1. q = Append(r, h)
        BY <1>7 DEF KeptAfter
    <2>2. Len(q) = Len(r) + 1 /\ (\A i \in 1..Len(r) : q[i] = r[i]) /\ q[Len(r) + 1] = h
        BY <1>2, <2>1, AppendProperties
    <2>3. /\ \A i \in 1..Len(q) : i \in 1..Len(r) \/ i = Len(r) + 1
          /\ \A i \in 1..Len(r) : i \in 1..Len(q)
          /\ Len(r) + 1 \in 1..Len(q) /\ Len(r) + 1 \notin 1..Len(r)
        BY <1>1, <2>2
    <2> HIDE DEF q, h, l
    <2>4. ASSUME NEW i \in 1..Len(r)
          PROVE  ~Absorbs(r[i], h)
        <3>1. Len(r) \in 1..Len(r) /\ l = r[Len(r)] /\ r # <<>>
            BY <1>1, EmptySeq DEF Last, l
        <3>2. ~Absorbs(r[Len(r)], h)
            BY <1>2, <1>7, <3>1, MergedAbsorbs
        <3>3. CASE i = Len(r)
            BY <3>2, <3>3
        <3>4. CASE i # Len(r)
            <4>1. i < Len(r)
                BY <1>1, <3>4
            <4>2. HitUpTo(r[i], r[Len(r)]) /\ HitUpTo(r[Len(r)], h)
                BY <1>4, <1>5, <3>1, <4>1 DEF KeptInOrder
            <4>3. Absorbs(r[i], h) => Absorbs(r[i], r[Len(r)])
                BY <1>2, <3>1, <4>2, HitLaws
            <4>4. ~Absorbs(r[i], r[Len(r)])
                BY <1>4, <3>1, <3>4 DEF Apart
            <4> QED
                BY <4>3, <4>4
        <3> QED
            BY <3>3, <3>4
    <2>5. ASSUME NEW i \in 1..Len(r)
          PROVE  ~Absorbs(h, r[i])
        <3> SUFFICES ASSUME Absorbs(h, r[i])
                     PROVE  FALSE
            OBVIOUS
        <3>1. r[i].entry.path = h.entry.path
            BY <1>2, <1>5, AbsorbedEarlier
        <3>2. r[i] = h
            BY <1>2, <3>1 DEF OnePerPath
        <3> QED
            BY <2>4, <3>2
    <2>6. Taken(q, s, k + 1)
        <3> SUFFICES ASSUME NEW i \in 1..Len(q)
                     PROVE  \E j \in 1..(k + 1) : q[i] = s[j]
            BY DEF Taken
        <3>1. CASE i \in 1..Len(r)
            <4>1. PICK j \in 1..k : r[i] = s[j]
                BY <1>4, <3>1 DEF Taken
            <4> QED
                BY <1>1, <2>2, <3>1, <4>1
        <3>2. CASE i = Len(r) + 1
            BY <1>1, <2>2, <3>2 DEF h
        <3> QED
            BY <2>3, <3>1, <3>2
    <2>7. KeptInOrder(q)
        <3> SUFFICES ASSUME NEW i \in 1..Len(q), NEW j \in 1..Len(q), i < j
                     PROVE  HitUpTo(q[i], q[j])
            BY DEF KeptInOrder
        <3>1. i \in 1..Len(r)
            BY <1>1, <2>2
        <3>2. CASE j \in 1..Len(r)
            BY <1>4, <2>2, <3>1, <3>2 DEF KeptInOrder
        <3>3. CASE j = Len(r) + 1
            BY <1>5, <2>2, <3>1, <3>3 DEF h
        <3> QED
            BY <2>3, <3>2, <3>3
    <2>8. Apart(q)
        <3> SUFFICES ASSUME NEW i \in 1..Len(q), NEW j \in 1..Len(q), i # j
                     PROVE  ~Absorbs(q[i], q[j])
            BY DEF Apart
        <3>1. CASE i \in 1..Len(r) /\ j \in 1..Len(r)
            BY <1>4, <2>2, <3>1 DEF Apart
        <3>2. CASE i \in 1..Len(r) /\ j = Len(r) + 1
            BY <2>2, <2>4, <3>2
        <3>3. CASE i = Len(r) + 1 /\ j \in 1..Len(r)
            BY <2>2, <2>5, <3>3
        <3> QED
            BY <2>3, <3>1, <3>2, <3>3
    <2>9. Covers(q, s, k + 1)
        <3> SUFFICES ASSUME NEW j \in 1..(k + 1)
                     PROVE  \E i \in 1..Len(q) : q[i] = s[j] \/ Absorbs(q[i], s[j])
            BY DEF Covers
        <3>1. CASE j \in 1..k
            <4>1. PICK i \in 1..Len(r) : r[i] = s[j] \/ Absorbs(r[i], s[j])
                BY <1>4, <3>1 DEF Covers
            <4> QED
                BY <2>2, <2>3, <4>1
        <3>2. CASE j = k + 1
            BY <2>2, <2>3, <3>2 DEF h
        <3> QED
            BY <1>3, <3>1, <3>2
    <2> QED
        BY <2>6, <2>7, <2>8, <2>9 DEF KeptInv, q, h
<1> QED
    BY <1>6, <1>7

(* What compaction leaves of hits in their order.                           *)
LEMMA CompactedExactly ==
    ASSUME NEW H, \A h \in H : IsHit(h), OnePerPath(H), NEW s \in Seq(H), HitsInOrder(s),
           H = {s[i] : i \in 1..Len(s)}
    PROVE  Compacted(s) = {h \in H : \A g \in H : Absorbs(g, h) => g = h}
<1>1. PICK res : Compacts(res, s, H)
    BY CompactionRuns
<1> DEFINE n == Len(s)
           r == res[n]
           C == Compacted(s)
<1>2. n \in Nat
    BY LenProperties
<1>3. /\ res[0] = <<>> /\ (\A k \in 1..n : res[k] = KeptAfter(res[k - 1], s[k]))
      /\ (\A k \in 0..n : res[k] \in Seq(H)) /\ C = ToSet(r)
    BY <1>1 DEF Compacts
<1>4. KeptInv(r, s, n)
    <2> DEFINE T == {k \in 0..n : KeptInv(res[k], s, k)}
    <2>1. 0 \in T
        <3>1. 0 \in 0..n /\ Len(res[0]) = 0
            BY <1>2, <1>3
        <3>2. \A i \in 1..0 : FALSE
            OBVIOUS
        <3>3. KeptInv(res[0], s, 0)
            BY <3>1, <3>2 DEF KeptInv, Taken, KeptInOrder, Apart, Covers
        <3> QED
            BY <3>1, <3>3
    <2>2. ASSUME NEW k \in 0..(n - 1), k \in T
          PROVE  k + 1 \in T
        <3>1. k \in 0..n /\ k + 1 \in 1..n /\ k + 1 \in 0..n /\ (k + 1) - 1 = k
            BY <1>2
        <3>2. res[k + 1] = KeptAfter(res[k], s[k + 1]) /\ res[k] \in Seq(H)
            BY <1>3, <3>1
        <3>3. KeptInv(res[k], s, k)
            BY <2>2
        <3>4. KeptInv(KeptAfter(res[k], s[k + 1]), s, k + 1)
            BY <3>2, <3>3, KeptStep
        <3> QED
            BY <3>1, <3>2, <3>4
    <2> HIDE DEF T, n
    <2>3. \A k \in 0..n : k \in T
        BY <1>2, <2>1, <2>2, Induction
    <2>4. n \in 0..n
        BY <1>2
    <2> QED
        BY <2>3, <2>4 DEF T
<1>5. r \in Seq(H) /\ DOMAIN r = 1..Len(r) /\ \A i \in 1..Len(r) : r[i] \in H
    <2>1. r \in Seq(H)
        BY <1>2, <1>3
    <2> HIDE DEF r
    <2> QED
        BY <2>1, LenProperties, ElementOfSeq
<1>6. C = {r[i] : i \in 1..Len(r)} /\ C \subseteq H
    BY <1>3, <1>5 DEF ToSet
<1>7. ASSUME NEW g \in C, NEW h \in C, Absorbs(g, h)
      PROVE  g = h
    <2>1. PICK i \in 1..Len(r) : g = r[i]
        BY <1>6
    <2>2. PICK j \in 1..Len(r) : h = r[j]
        BY <1>6
    <2>3. Apart(r)
        BY <1>4 DEF KeptInv
    <2> HIDE DEF r, C
    <2> QED
        BY <1>7, <2>1, <2>2, <2>3 DEF Apart
<1>8. ASSUME NEW h \in H
      PROVE  h \in C \/ \E g \in C : Absorbs(g, h)
    <2>1. PICK j \in 1..n : h = s[j]
        OBVIOUS
    <2>2. Covers(r, s, n)
        BY <1>4 DEF KeptInv
    <2>3. PICK i \in 1..Len(r) : r[i] = h \/ Absorbs(r[i], h)
        BY <2>1, <2>2 DEF Covers
    <2>4. r[i] \in C
        BY <1>6
    <2> HIDE DEF r, C
    <2> QED
        BY <2>3, <2>4
<1> HIDE DEF C
<1>9. ASSUME NEW h \in C, NEW g \in H, Absorbs(g, h)
      PROVE  g = h
    <2>1. h \in H /\ IsHit(h) /\ IsHit(g)
        BY <1>6
    <2>2. CASE g \in C
        BY <1>7, <1>9, <2>2
    <2>3. CASE g \notin C
        <3>1. PICK f \in C : Absorbs(f, g)
            BY <1>8, <2>3
        <3>2. IsHit(f)
            BY <1>6
        <3>3. Absorbs(f, h)
            BY <1>9, <2>1, <3>1, <3>2, AbsorbsLaws
        <3>4. f = h
            BY <1>7, <3>3
        <3>5. g.entry.path = h.entry.path
            BY <1>9, <2>1, <3>1, <3>4, AbsorbsLaws
        <3> QED
            BY <2>1, <3>5 DEF OnePerPath
    <2> QED
        BY <2>2, <2>3
<1>10. ASSUME NEW h \in H, \A g \in H : Absorbs(g, h) => g = h
       PROVE  h \in C
    BY <1>6, <1>8, <1>10
<1>11. C = {h \in H : \A g \in H : Absorbs(g, h) => g = h}
    BY <1>6, <1>9, <1>10
<1> QED
    BY <1>11 DEF C

(* Compaction leaves exactly the hits that do not lie under a directory of  *)
(* the same score, although it only looks at the last hit it has kept.      *)
LEMMA CompactionExact ==
    ASSUME NEW H, IsFiniteSet(H), \A h \in H : IsHit(h), OnePerPath(H), NEW C \in compactSearchHits(H)
    PROVE  C = {h \in H : \A g \in H : Absorbs(g, h) => g = h}
<1>1. PICK s \in SetToSeqs(H) : /\ \A k \in 1..(Len(s) - 1) : CompactOrder(s[k], s[k + 1]) <= 0
                                /\ C = Compacted(s)
    BY DEF compactSearchHits, SortFunc
<1>2. s \in Seq(H) /\ H = {s[i] : i \in 1..Len(s)}
    BY Listing
<1> DEFINE R == {p \in H \X H : HitUpTo(p[1], p[2])}
<1>3. Transitive(R, H)
    <2>1. ASSUME NEW x \in H, NEW y \in H, NEW z \in H, <<x, y>> \in R, <<y, z>> \in R
          PROVE  <<x, z>> \in R
        <3>1. HitUpTo(x, y) /\ HitUpTo(y, z)
            BY <2>1
        <3>2. HitUpTo(x, z)
            BY <3>1, HitLaws
        <3> QED
            BY <3>2
    <2> QED
        BY <2>1 DEF Transitive
<1>4. Neighbours(s, R)
    <2> SUFFICES ASSUME NEW k \in 1..(Len(s) - 1)
                 PROVE  <<s[k], s[k + 1]>> \in R
        BY DEF Neighbours
    <2>1. k \in 1..Len(s) /\ k + 1 \in 1..Len(s)
        BY <1>2, LenProperties
    <2>2. s[k] \in H /\ s[k + 1] \in H
        BY <1>2, <2>1, ElementOfSeq
    <2>3. HitUpTo(s[k], s[k + 1])
        BY <1>1, <2>2, CompactDecides
    <2> QED
        BY <2>2, <2>3
<1> HIDE DEF R
<1>5. Sorted(s, R)
    BY <1>2, <1>3, <1>4, SortedThroughout
<1>6. HitsInOrder(s)
    BY <1>5 DEF Sorted, HitsInOrder, R
<1>7. Compacted(s) = {h \in H : \A g \in H : Absorbs(g, h) => g = h}
    BY <1>2, <1>6, CompactedExactly
<1> QED
    BY <1>1, <1>7

-----------------------------------------------------------------------------
(* The limit *)

(* What a search returns of its hits: all of them or the best ones, in the  *)
(* order of their scores.                                                   *)
CutOf(found, hits, limit) ==
    /\ found.total = Cardinality(hits)
    /\ \A k \in DOMAIN found.hits : found.hits[k] \in hits
    /\ found.total <= limit => \A h \in hits : \E k \in DOMAIN found.hits : found.hits[k] = h
    /\ \A j, k \in DOMAIN found.hits : j < k => found.hits[j].score >= found.hits[k].score
    /\ \A h \in hits : \/ \E k \in DOMAIN found.hits : found.hits[k] = h
                       \/ \A k \in DOMAIN found.hits : found.hits[k].score >= h.score

(* The limit keeps the best hits in their order, and total counts all of    *)
(* them.                                                                    *)
LEMMA CutExact ==
    ASSUME NEW hits, IsFiniteSet(hits), \A h \in hits : h.score \in Int, NEW limit \in Int,
           NEW found \in CutTo(hits, limit), ~found.panic
    PROVE  CutOf(found, hits, limit)
<1> DEFINE cut == hits # {} /\ Cardinality(hits) > limit
<1>1. PICK s \in SetToSeqs(hits) :
        /\ \A k \in 1..(Len(s) - 1) : ResultOrder(s[k], s[k + 1]) <= 0
        /\ found = [panic |-> FALSE, total |-> Cardinality(hits), hits |-> IF cut THEN SubSeq(s, 1, limit) ELSE s]
        /\ ~(cut /\ limit < 0)
    <2>1. CASE cut /\ limit < 0
        BY <2>1 DEF CutTo
    <2>2. CASE ~(cut /\ limit < 0)
        BY <2>2 DEF CutTo, SortFunc
    <2> QED
        BY <2>1, <2>2
<1> DEFINE n == Len(s)
           r == found.hits
<1>2. s \in Seq(hits) /\ n = Cardinality(hits) /\ DOMAIN s = 1..n /\ n \in Nat /\ hits = {s[i] : i \in 1..n}
    BY <1>1, Listing, LenProperties
<1>0. n \in Nat
    BY <1>2
<1>3. \A k \in 1..n : s[k] \in hits /\ s[k].score \in Int
    BY <1>2, ElementOfSeq
<1> DEFINE R == {p \in hits \X hits : p[1].score >= p[2].score}
<1>4. ASSUME NEW x \in hits, NEW y \in hits
      PROVE  <<x, y>> \in R <=> x.score >= y.score
    OBVIOUS
<1>5. Transitive(R, hits)
    <2>1. ASSUME NEW x \in hits, NEW y \in hits, NEW z \in hits, <<x, y>> \in R, <<y, z>> \in R
          PROVE  <<x, z>> \in R
        <3>1. x.score >= y.score /\ y.score >= z.score
            BY <1>4, <2>1
        <3>2. x.score >= z.score
            BY <3>1
        <3> QED
            BY <1>4, <3>2
    <2> QED
        BY <2>1 DEF Transitive
<1>6. Neighbours(s, R)
    <2> SUFFICES ASSUME NEW k \in 1..(n - 1)
                 PROVE  <<s[k], s[k + 1]>> \in R
        BY DEF Neighbours
    <2>1. k \in 1..n /\ k + 1 \in 1..n
        BY <1>0
    <2>2. ResultOrder(s[k], s[k + 1]) <= 0
        BY <1>1
    <2>3. s[k].score >= s[k + 1].score
        <3> DEFINE x == s[k].score
                   y == s[k + 1].score
        <3>1. x \in Int /\ y \in Int
            BY <1>3, <2>1
        <3>2. CASE x # y
            <4>1. Compare(y, x) <= 0
                BY <2>2, <3>2 DEF ResultOrder
            <4> HIDE DEF x, y
            <4> QED
                BY <3>1, <4>1 DEF Compare, x, y
        <3>3. CASE x = y
            <4> HIDE DEF x, y
            <4>1. x >= y
                BY <3>1, <3>3
            <4> QED
                BY <4>1 DEF x, y
        <3> QED
            BY <3>2, <3>3
    <2> QED
        BY <1>3, <1>4, <2>1, <2>3
<1>7. Sorted(s, R)
    <2> HIDE DEF R
    <2> QED
        BY <1>2, <1>5, <1>6, SortedThroughout
<1>8. \A j, k \in 1..n : j < k => s[j].score >= s[k].score
    <2> HIDE DEF R
    <2> QED
        BY <1>3, <1>4, <1>7 DEF Sorted
<1>9. PICK m \in 0..n : /\ DOMAIN r = 1..m /\ (\A k \in 1..m : r[k] = s[k])
                        /\ found.total <= limit => m = n
    <2>1. CASE cut
        <3>0. found.total = n /\ n > limit /\ ~(limit < 0) /\ r = SubSeq(s, 1, limit)
            BY <1>1, <1>2, <2>1
        <3>3. limit \in Nat /\ limit < n
            BY <1>0, <3>0
        <3>1. limit \in 0..n /\ ~(found.total <= limit) /\ \A i \in 1..limit : i \in 1..n
            BY <1>0, <3>0, <3>3
        <3>2. \A i \in 1..limit : s[i] \in hits
            BY <1>3, <3>1
        <3>4. r \in Seq(hits) /\ Len(r) = limit /\ \A i \in 1..limit : r[i] = s[i]
            BY <3>0, <3>2, <3>3, SubSeqProperties
        <3>5. DOMAIN r = 1..limit
            BY <3>4, LenProperties
        <3> HIDE DEF r
        <3> QED
            BY <3>1, <3>4, <3>5
    <2>2. CASE ~cut
        <3>1. r = s
            BY <1>1, <2>2
        <3>2. n \in 0..n
            BY <1>0
        <3> HIDE DEF r
        <3> QED
            BY <1>2, <3>1, <3>2
    <2> QED
        BY <2>1, <2>2
<1> HIDE DEF r
<1>10. \A k \in 1..m : k \in 1..n
    BY <1>0
<1>11. found.total = Cardinality(hits)
    BY <1>1
<1>12. \A k \in DOMAIN r : r[k] \in hits
    BY <1>3, <1>9, <1>10
<1>13. found.total <= limit => \A h \in hits : \E k \in DOMAIN r : r[k] = h
    BY <1>2, <1>9
<1>14. \A j, k \in DOMAIN r : j < k => r[j].score >= r[k].score
    BY <1>8, <1>9, <1>10
<1>15. ASSUME NEW h \in hits
       PROVE  \/ \E k \in DOMAIN r : r[k] = h
              \/ \A k \in DOMAIN r : r[k].score >= h.score
    <2>1. PICK i \in 1..n : s[i] = h
        BY <1>2
    <2>2. CASE i <= m
        <3>1. i \in 1..m
            BY <1>0, <2>2
        <3> QED
            BY <1>9, <2>1, <3>1
    <2>3. CASE ~(i <= m)
        <3>1. \A k \in 1..m : k < i
            BY <1>0, <2>3
        <3> QED
            BY <1>8, <1>9, <1>10, <2>1, <3>1
    <2> QED
        BY <2>2, <2>3
<1> QED
    BY <1>11, <1>12, <1>13, <1>14, <1>15 DEF CutOf, r

=============================================================================
