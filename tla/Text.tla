-------------------------------- MODULE Text --------------------------------
(***************************************************************************)
(* Text as the program's string functions see it: a sequence of characters, *)
(* each represented by its code.  Only the printable characters of ASCII    *)
(* are modelled.  All of this belongs to Go's standard library.             *)
(***************************************************************************)
EXTENDS Integers, Sequences, SequencesExt, FiniteSetsExt

Space == 32

(* The characters from Space on, in the order of their codes; the second    *)
(* blank stands for the backquote, which nothing here uses.                 *)
Printable == " !\"#$%&'()*+,-./0123456789:;<=>?@ABCDEFGHIJKLMNOPQRSTUVWXYZ[\\]^_ abcdefghijklmnopqrstuvwxyz{|}~"

Char(str, k) == SubSeq(str, k, k)

Code == [c \in {Char(Printable, k) : k \in 1..Len(Printable)} |->
           Min({k \in 1..Len(Printable) : Char(Printable, k) = c}) + Space - 1]

(* A literal of the program.                                                *)
Txt(str) == [k \in 1..Len(str) |-> Code[Char(str, k)]]

Quote == 34
Percent == 37
Minus == 45
Dot == 46
Slash == 47

IsUpper(ch) == ch \in 65..90
IsLetter(ch) == IsUpper(ch) \/ ch \in 97..122

Lower(ch) == IF IsUpper(ch) THEN ch + 32 ELSE ch

ToLower(s) == [k \in DOMAIN s |-> Lower(s[k])]

(* cmp.Compare *)
Compare(x, y) == IF x < y THEN -1 ELSE IF x > y THEN 1 ELSE 0

(* strings.Compare: lexicographic.                                          *)
StringsCompare(a, b) ==
    LET diffs == {k \in DOMAIN a \cap DOMAIN b : a[k] # b[k]}
    IN  IF diffs = {} THEN Compare(Len(a), Len(b))
                      ELSE Compare(a[Min(diffs)], b[Min(diffs)])

StringsContains(s, part) ==
    \E k \in 0..(Len(s) - Len(part)) : SubSeq(s, k + 1, k + Len(part)) = part

TrimSuffix(s, suffix) ==
    IF IsSuffix(suffix, s) THEN SubSeq(s, 1, Len(s) - Len(suffix)) ELSE s

(* strings.TrimSpace; the only white space here is Space.                   *)
TrimSpace(s) ==
    LET solid == {k \in DOMAIN s : s[k] # Space}
    IN  IF solid = {} THEN <<>> ELSE SubSeq(s, Min(solid), Max(solid))

(* path.Ext: from the last dot on, dot included.                            *)
PathExt(s) ==
    LET dots == {k \in DOMAIN s : s[k] = Dot}
    IN  IF dots = {} THEN <<>> ELSE SubSeq(s, Max(dots), Len(s))

IsHex(ch) == ch \in 48..57 \/ ch \in 65..70 \/ ch \in 97..102

HexValue(ch) == IF ch <= 57 THEN ch - 48 ELSE Lower(ch) - 87

(* The check of url.PathUnescape: an escape is a percent sign with two      *)
(* hexadecimal digits.                                                      *)
IsEscaped(s) ==
    \A k \in DOMAIN s : s[k] = Percent => k + 2 <= Len(s) /\ IsHex(s[k + 1]) /\ IsHex(s[k + 2])

(* What it makes of a text that passes the check.                           *)
PathUnescape(s) ==
    LET decoded[k \in 0..Len(s)] ==
            IF k = 0 THEN <<>>
            ELSE IF k > 2 /\ s[k - 2] = Percent
                   THEN Append(decoded[k - 3], 16 * HexValue(s[k - 1]) + HexValue(s[k]))
            ELSE Append(decoded[k - 1], s[k])
    IN  IF Contains(s, Percent) THEN decoded[Len(s)] ELSE s

(* slices.SortFunc leaves no neighbours in the wrong order; where the       *)
(* comparison does not decide, the result is any such order.                *)
SortFunc(S, cmp(_, _)) ==
    {s \in SetToSeqs(S) : \A k \in 1..(Len(s) - 1) : cmp(s[k], s[k + 1]) <= 0}

=============================================================================
