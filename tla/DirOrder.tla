------------------------------ MODULE DirOrder ------------------------------
(***************************************************************************)
(* The order of the entries of a directory: Rclone.GetDirInfo and the       *)
(* comparisons it sorts with (rclone/rclone.go).                            *)
(***************************************************************************)
EXTENDS Text

CONSTANT MaxInt     (* the largest int: longer numbers are cut to it         *)

ASSUME MaxIntAssumption == MaxInt \in Nat \ {0}

Zero == 48

isDigit(ch) == ch \in Zero..(Zero + 9)

SeededOneDigit(s, i) == [n |-> s[i] - Zero, size |-> 1]

(* The number that begins at s[i]: its value, cut by Atoi, and its length.  *)
extractNumber(s, i) ==
    LET size == Max({n \in 1..(Len(s) - i + 1) : \A k \in i..(i + n - 1) : isDigit(s[k])})
        Digit(k) == s[i + k - 1] - Zero
        atoi[k \in 0..size] ==
            IF k = 0 THEN 0 ELSE Min({MaxInt, 10 * atoi[k - 1] + Digit(k)})
    IN  [n |-> atoi[size], size |-> size]

(* Natural comparison: numbers by value, other characters by their code.    *)
CompareLowerCase(a, b) ==
    LET from[at \in (1..(Len(a) + 1)) \X (1..(Len(b) + 1))] ==
            LET i == at[1]
                j == at[2]
                x == extractNumber(a, i)
                y == extractNumber(b, j)
            IN  IF i > Len(a) \/ j > Len(b) THEN Compare(Len(a), Len(b))
                ELSE IF isDigit(a[i]) /\ isDigit(b[j])
                     THEN IF x.n # y.n THEN Compare(x.n, y.n) ELSE from[<<i + x.size, j + y.size>>]
                ELSE IF a[i] # b[j] THEN StringsCompare(a, b)
                ELSE from[<<i + 1, j + 1>>]
    IN  from[<<1, 1>>]

SeededLengths(a, b) == Compare(Len(a), Len(b))

compareStrings(a, b) == CompareLowerCase(ToLower(a), ToLower(b))

(* Directories first; the slash at the end of a directory is not compared.  *)
CompareDirEntryByName(a, b) ==
    LET Leaf(e) == IF e.isDir THEN TrimSuffix(e.path, <<Slash>>) ELSE e.path
    IN  IF a.isDir = b.isDir THEN compareStrings(Leaf(a), Leaf(b))
        ELSE IF a.isDir THEN -1 ELSE 1

compareDirEntryBySize(a, b) ==
    IF (a.isDir /\ b.isDir) \/ a.size = b.size THEN CompareDirEntryByName(a, b)
    ELSE IF a.isDir THEN -1
    ELSE IF b.isDir THEN 1
    ELSE Compare(a.size, b.size)

compareDirEntryByTime(a, b) ==
    IF a.modTime # b.modTime THEN Compare(a.modTime, b.modTime) ELSE CompareDirEntryByName(a, b)

(* Any other value of the "sort" parameter means the default.               *)
SortName(sort) == IF sort \in {"size", "time"} THEN sort ELSE "namedirfirst"

(* The orders GetDirInfo may return the entries in.                         *)
GetDirInfo(entries, sort, order) ==
    LET cmp(a, b) == CASE SortName(sort) = "size" -> compareDirEntryBySize(a, b)
                       [] SortName(sort) = "time" -> compareDirEntryByTime(a, b)
                       [] OTHER -> CompareDirEntryByName(a, b)
        sorted == SortFunc(entries, cmp)
    IN  IF order = "desc" THEN {Reverse(s) : s \in sorted} ELSE sorted

-----------------------------------------------------------------------------
(* A reference: names as sequences of tokens, a token being a character or  *)
(* a whole number.  Of names with the same tokens the shorter comes first.  *)

Number(n) == [isNumber |-> TRUE, value |-> n]
Letter(ch) == [isNumber |-> FALSE, value |-> ch]

Tokens(s) ==
    LET tokens[k \in 0..Len(s)] ==
            IF k = 0 THEN <<>>
            ELSE LET t == tokens[k - 1]
                     d == s[k] - Zero
                 IN  IF ~isDigit(s[k]) THEN Append(t, Letter(s[k]))
                     ELSE IF t # <<>> /\ Last(t).isNumber
                          THEN Append(Front(t), Number(10 * Last(t).value + d))
                     ELSE Append(t, Number(d))
    IN  tokens[Len(s)]

(* A number stands where the digits stand among the characters.             *)
TokenBefore(t, u) ==
    IF t.isNumber = u.isNumber THEN t.value < u.value
    ELSE IF t.isNumber THEN Zero < u.value
    ELSE t.value < Zero

TokensBefore(s, t) ==
    LET diffs == {k \in DOMAIN s \cap DOMAIN t : s[k] # t[k]}
    IN  IF diffs = {} THEN Len(s) < Len(t)
        ELSE TokenBefore(s[Min(diffs)], t[Min(diffs)])

Read(name) == Tokens(ToLower(name))

(* The names differ in case only, or in where they have leading zeros.      *)
SameReading(name1, name2) == Read(name1) = Read(name2) /\ Len(name1) = Len(name2)

NaturallyBefore(name1, name2) ==
    \/ TokensBefore(Read(name1), Read(name2))
    \/ Read(name1) = Read(name2) /\ Len(name1) < Len(name2)

(* The numbers of the name are less than the largest int.                   *)
Plain(name) ==
    \A k \in DOMAIN name :
      isDigit(name[k]) /\ (k = 1 \/ ~isDigit(name[k - 1])) => extractNumber(name, k).n < MaxInt

(* After the same beginning the texts have the same number, with more       *)
(* leading zeros in one of them.                                            *)
Respelled(a, b) ==
    \E i \in DOMAIN a \cap DOMAIN b :
      /\ \A k \in 1..(i - 1) : a[k] = b[k]
      /\ isDigit(a[i]) /\ isDigit(b[i]) /\ (i = 1 \/ ~isDigit(a[i - 1]))
      /\ extractNumber(a, i).n = extractNumber(b, i).n
      /\ extractNumber(a, i).size # extractNumber(b, i).size

FirstDifferInNumbers(s, t) ==
    \E k \in DOMAIN s \cap DOMAIN t :
      /\ \A n \in 1..(k - 1) : s[n] = t[n]
      /\ s[k] # t[k] /\ s[k].isNumber /\ t[k].isNumber

(* Behind a respelled number only numbers are compared as the reference     *)
(* does: a character or the end of a name is judged by the whole names, as  *)
(* if what is in front were the same.                                       *)
Comparable(name1, name2) ==
    Respelled(ToLower(name1), ToLower(name2)) =>
      Read(name1) = Read(name2) \/ FirstDifferInNumbers(Read(name1), Read(name2))

=============================================================================
