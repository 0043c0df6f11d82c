--------------------------- MODULE WebServerProofs ---------------------------
(***************************************************************************)
(* Proofs about WebServer.  Pages show what the remote has and links are to *)
(* directories and files of it, because the texts that the index keeps of   *)
(* paths can be read back.  Images share a thumbnail only if one is named   *)
(* like the other and an extension.  Listings are sorted by a comparison    *)
(* that OrderProofs shows to be an order.  Searches find what their terms   *)
(* say: the words the index splits a path into are those that begin in its  *)
(* text, and a hit is merged into another exactly when a directory stands   *)
(* for it.                                                                  *)
(***************************************************************************)
EXTENDS WebServer, OrderProofs

-----------------------------------------------------------------------------
(* Extensions and the names of thumbnails *)

(* The extension of a text that ends in an extension.                       *)
LEMMA ExtOfConcat ==
    ASSUME NEW u \in Seq(Nat), NEW v, IsExt(v)
    PROVE  PathExt(u \o v) = v
<1> DEFINE s == u \o v
           dots == {k \in DOMAIN s : s[k] = Dot}
           n == Len(u) + 1
<1>1. v \in Seq(Nat) /\ Len(v) \in Nat \ {0} /\ Len(u) \in Nat
    BY EmptySeq, LenProperties DEF IsExt
<1>2. /\ s \in Seq(Nat) /\ Len(s) = Len(u) + Len(v) /\ DOMAIN s = 1..Len(s)
      /\ \A k \in 1..Len(u) : s[k] = u[k]
      /\ \A k \in 1..Len(v) : s[Len(u) + k] = v[k]
    BY <1>1, ConcatProperties, LenProperties
<1>3. n \in dots
    BY <1>1, <1>2 DEF IsExt
<1>4. ASSUME NEW k \in dots
      PROVE  k <= n
    <2>1. k \in 1..Len(s) /\ s[k] = Dot
        BY <1>2
    <2>2. CASE k > n
        <3>1. k - Len(u) \in 1..Len(v) /\ k - Len(u) # 1 /\ Len(u) + (k - Len(u)) = k
            BY <1>1, <1>2, <2>1, <2>2
        <3>2. v[k - Len(u)] = Dot
            BY <1>2, <2>1, <3>1
        <3> QED
            BY <3>1, <3>2 DEF IsExt
    <2> QED
        BY <1>1, <1>2, <2>1, <2>2
<1>5. Max(dots) = n
    <2>1. dots \in SUBSET (0..Len(s)) /\ Len(s) \in Nat
        BY <1>1, <1>2
    <2> HIDE DEF dots, s
    <2>2. Max(dots) \in dots /\ \A y \in dots : y <= Max(dots)
        BY <1>3, <2>1, GreatestNumber
    <2>3. Max(dots) \in Nat /\ n \in Nat
        <3>1. Max(dots) \in 0..Len(s)
            BY <2>1, <2>2
        <3> QED
            BY <1>1, <2>1, <3>1
    <2>4. Max(dots) <= n /\ n <= Max(dots)
        BY <1>3, <1>4, <2>2
    <2> HIDE DEF n
    <2> QED
        BY <2>3, <2>4
<1>6. SubSeq(s, n, Len(s)) = v
    <2>1. n \in 1..(Len(s) + 1) /\ Len(s) \in 0..Len(s)
        BY <1>1, <1>2
    <2>2. /\ SubSeq(s, n, Len(s)) \in Seq(Nat)
          /\ Len(SubSeq(s, n, Len(s))) = Len(v)
          /\ \A k \in 1..Len(v) : SubSeq(s, n, Len(s))[k] = v[k]
        BY <1>1, <1>2, <2>1, SubSeqProperties
    <2> HIDE DEF s, n
    <2> QED
        BY <1>1, <2>2, SeqEqual
<1>7. PathExt(s) = IF dots = {} THEN <<>> ELSE SubSeq(s, Max(dots), Len(s))
    BY DEF PathExt
<1> QED
    BY <1>3, <1>5, <1>6, <1>7

(* A text is what is before its extension, and the extension.               *)
LEMMA ExtSplits ==
    ASSUME NEW s \in Seq(Nat), PathExt(s) # <<>>
    PROVE  IsExt(PathExt(s)) /\ \E u \in Seq(Nat) : s = u \o PathExt(s)
<1> DEFINE dots == {k \in DOMAIN s : s[k] = Dot}
           n == Max(dots)
           v == SubSeq(s, n, Len(s))
<1>1. Len(s) \in Nat /\ DOMAIN s = 1..Len(s) /\ \A k \in 1..Len(s) : s[k] \in Nat
    BY LenProperties, ElementOfSeq
<1>2. dots # {} /\ PathExt(s) = v
    BY DEF PathExt
<1>3. n \in dots /\ \A y \in dots : y <= n
    <2>1. dots \in SUBSET (0..Len(s))
        BY <1>1
    <2> HIDE DEF dots
    <2> QED
        BY <1>1, <1>2, <2>1, GreatestNumber
<1>4. n \in 1..Len(s) /\ s[n] = Dot /\ \A k \in 1..Len(s) : s[k] = Dot => k <= n
    BY <1>1, <1>3
<1> HIDE DEF n, dots
<1>5. /\ v \in Seq(Nat)
      /\ Len(v) = Len(s) - n + 1
      /\ \A k \in 1..Len(v) : v[k] = s[n + k - 1]
    BY <1>1, <1>4, SubSeqProperties
<1>6. IsExt(v)
    <2> HIDE DEF v
    <2>1. v # <<>>
        BY <1>1, <1>4, <1>5, EmptySeq
    <2>2. ASSUME NEW k \in 1..Len(v)
          PROVE  v[k] = Dot <=> k = 1
        <3>1. n + k - 1 \in 1..Len(s) /\ v[k] = s[n + k - 1]
            BY <1>1, <1>4, <1>5
        <3>2. CASE k = 1
            <4>1. n + k - 1 = n
                BY <1>4, <3>2
            <4> QED
                BY <1>4, <3>1, <3>2, <4>1
        <3>3. CASE k # 1
            <4>1. ~(n + k - 1 <= n)
                BY <1>1, <1>4, <1>5, <3>3
            <4> QED
                BY <1>4, <3>1, <3>3, <4>1
        <3> QED
            BY <3>2, <3>3
    <2> QED
        BY <1>5, <2>1, <2>2 DEF IsExt
<1>7. SubSeq(s, 1, n - 1) \in Seq(Nat)
    BY <1>1, <1>4, SubSeqProperties
<1>8. s = SubSeq(s, 1, n - 1) \o v
    <2>1. 1 \in 1..(Len(s) + 1) /\ n - 1 \in (1 - 1)..Len(s) /\ Len(s) \in (n - 1)..Len(s) /\ (n - 1) + 1 = n
        BY <1>1, <1>4
    <2>2. SubSeq(s, 1, n - 1) \o SubSeq(s, (n - 1) + 1, Len(s)) = SubSeq(s, 1, Len(s))
        BY <2>1, ConcatAdjacentSubSeq
    <2>3. SubSeq(s, 1, Len(s)) = s
        BY SubSeqFull
    <2> QED
        BY <2>1, <2>2, <2>3
<1> HIDE DEF v
<1> QED
    BY <1>2, <1>6, <1>7, <1>8

(* TrimSuffix undoes a concatenation.                                       *)
LEMMA Trimmed ==
    ASSUME NEW u \in Seq(Nat), NEW v \in Seq(Nat)
    PROVE  TrimSuffix(u \o v, v) = u
<1> DEFINE s == u \o v
<1>1. /\ Len(u) \in Nat /\ Len(v) \in Nat
      /\ s \in Seq(Nat) /\ Len(s) = Len(u) + Len(v)
      /\ \A k \in 1..Len(s) : s[k] = IF k <= Len(u) THEN u[k] ELSE v[k - Len(u)]
      /\ \A k \in 1..Len(s) : s[k] \in Nat
      /\ \A k \in 1..Len(v) : v[k] \in Nat
    BY ConcatProperties, LenProperties, ElementOfSeq
<1>2. /\ Reverse(v) \in Seq(Nat) /\ Len(Reverse(v)) = Len(v)
      /\ \A k \in 1..Len(v) : Reverse(v)[k] = v[Len(v) - k + 1]
    BY <1>1 DEF Reverse
<1>3. /\ Reverse(s) \in Seq(Nat) /\ Len(Reverse(s)) = Len(s)
      /\ \A k \in 1..Len(s) : Reverse(s)[k] = s[Len(s) - k + 1]
    BY <1>1 DEF Reverse
<1>4. ASSUME NEW k \in 1..Len(v)
      PROVE  Reverse(v)[k] = Reverse(s)[k]
    <2>1. /\ k \in 1..Len(s) /\ Len(s) - k + 1 \in 1..Len(s)
          /\ ~(Len(s) - k + 1 <= Len(u)) /\ Len(s) - k + 1 - Len(u) = Len(v) - k + 1
        BY <1>1
    <2>2. s[Len(s) - k + 1] = v[Len(s) - k + 1 - Len(u)]
        BY <1>1, <2>1
    <2> QED
        BY <1>2, <1>3, <2>1, <2>2
<1>5. SubSeq(Reverse(v), 1, Len(v)) = SubSeq(Reverse(s), 1, Len(v))
    <2> DEFINE x == SubSeq(Reverse(v), 1, Len(v))
               y == SubSeq(Reverse(s), 1, Len(v))
    <2>1. \A k \in 1..Len(v) : Reverse(v)[k] \in Nat /\ Reverse(s)[k] \in Nat
        BY <1>1, <1>2, <1>3, <1>4, ElementOfSeq
    <2>2. x \in Seq(Nat) /\ Len(x) = Len(v) /\ \A k \in 1..Len(v) : x[k] = Reverse(v)[k]
        BY <1>1, <2>1, SubSeqProperties
    <2>3. y \in Seq(Nat) /\ Len(y) = Len(v) /\ \A k \in 1..Len(v) : y[k] = Reverse(s)[k]
        BY <1>1, <2>1, SubSeqProperties
    <2> HIDE DEF x, y
    <2>4. \A k \in 1..Len(x) : x[k] = y[k]
        BY <1>4, <2>2, <2>3
    <2>5. x = y
        BY <2>2, <2>3, <2>4, SeqEqual
    <2> QED
        BY <2>5 DEF x, y
<1>6. IsSuffix(v, s)
    BY <1>1, <1>2, <1>3, <1>5 DEF IsSuffix, IsPrefix
<1>7. SubSeq(s, 1, Len(s) - Len(v)) = u
    <2> DEFINE x == SubSeq(s, 1, Len(u))
    <2>1. x \in Seq(Nat) /\ Len(x) = Len(u) /\ \A k \in 1..Len(u) : x[k] = s[k]
        BY <1>1, SubSeqProperties
    <2>2. \A k \in 1..Len(u) : x[k] = u[k]
        BY <1>1, <2>1
    <2>3. Len(s) - Len(v) = Len(u)
        BY <1>1
    <2> HIDE DEF x
    <2>4. x = u
        BY <2>1, <2>2, SeqEqual
    <2> QED
        BY <2>3, <2>4 DEF x
<1> QED
    BY <1>6, <1>7 DEF TrimSuffix

-----------------------------------------------------------------------------
(* Types of images, and their thumbnails *)

ID == [dir : Seq(Name), name : Name, modTime : Int, size : Nat]

(* The extension says of what type an image is.                             *)
LEMMA TypeOfExt ==
    ASSUME NEW id
    PROVE  CASE getImageType(id) = "jpeg" -> GetExt(id) \in JpegExts
             [] getImageType(id) = "png" -> GetExt(id) = Txt(".png")
             [] getImageType(id) = "gif" -> GetExt(id) = Txt(".gif")
             [] getImageType(id) = "webp" -> GetExt(id) = Txt(".webp")
             [] getImageType(id) = "heic" -> GetExt(id) = Txt(".heic")
             [] getImageType(id) = "avif" -> GetExt(id) = Txt(".avif")
             [] getImageType(id) = "raw" -> GetExt(id) \in RawExts
             [] OTHER -> getImageType(id) = "unsupported"
    BY DEF getImageType

(* The extensions in the code are extensions in lower case, and browsers    *)
(* show those of thumbnails.                                                *)
LEMMA LiteralExts ==
    /\ \A str \in {".png", ".gif", ".webp", ".heic", ".avif", ".jpeg"} :
         IsExt(Txt(str)) /\ ToLower(Txt(str)) = Txt(str)
    /\ \A str \in {".png", ".gif", ".webp", ".avif", ".jpeg"} : Txt(str) \in BrowserExts
    /\ JpegExts \subseteq BrowserExts
    /\ \A ext \in JpegExts \cup RawExts : IsExt(ext)
    BY ExtsAssumption DEF ResizedExts, BrowserExts, JpegExts, Exts

(* An image the service supports has an extension.                          *)
LEMMA SupportedSplits ==
    ASSUME NEW id, id.name \in Seq(Nat), getImageType(id) # "unsupported"
    PROVE  /\ IsExt(PathExt(id.name))
           /\ TrimSuffix(id.name, PathExt(id.name)) \in Seq(Nat)
           /\ id.name = TrimSuffix(id.name, PathExt(id.name)) \o PathExt(id.name)
<1>1. IsExt(GetExt(id))
    BY TypeOfExt, LiteralExts
<1>2. PathExt(id.name) # <<>>
    <2>1. CASE PathExt(id.name) = <<>>
        <3>1. GetExt(id) = <<>>
            BY <2>1 DEF GetExt, ToLower
        <3> QED
            BY <1>1, <3>1 DEF IsExt
    <2> QED
        BY <2>1
<1>3. PICK u \in Seq(Nat) : id.name = u \o PathExt(id.name)
    BY <1>2, ExtSplits
<1>4. IsExt(PathExt(id.name))
    BY <1>2, ExtSplits
<1>5. TrimSuffix(u \o PathExt(id.name), PathExt(id.name)) = u
    BY <1>4, Trimmed DEF IsExt
<1> QED
    BY <1>3, <1>4, <1>5

(* The name of a thumbnail that is not the original.                        *)
LEMMA NameOfThumbnail ==
    ASSUME NEW id \in ID, NEW size \in {"small", "medium", "large"}, getImageType(id) # "unsupported"
    PROVE  /\ newThumbnailID(id, size).dir = id.dir
           /\ newThumbnailID(id, size).modTime = id.modTime
           /\ newThumbnailID(id, size).size = id.size
           /\ newThumbnailID(id, size).name =
                IF getThumbnailExt(id) = <<>>
                  THEN (TrimSuffix(id.name, PathExt(id.name)) \o Suffix(size)) \o PathExt(id.name)
                  ELSE (id.name \o Suffix(size)) \o getThumbnailExt(id)
    BY DEF newThumbnailID, ID

(* Its extension: the image's, or the one of the format.                    *)
LEMMA ExtOfThumbnail ==
    ASSUME NEW id \in ID, NEW size \in {"small", "medium", "large"}, getImageType(id) # "unsupported"
    PROVE  /\ getThumbnailExt(id) \in {<<>>, Txt(".jpeg"), Txt(".avif")}
           /\ PathExt(newThumbnailID(id, size).name) =
                IF getThumbnailExt(id) = <<>> THEN PathExt(id.name) ELSE getThumbnailExt(id)
<1> DEFINE stem == TrimSuffix(id.name, PathExt(id.name))
<1>1. id.name \in Seq(Nat) /\ Suffix(size) \in Seq(Nat)
    BY SuffixAssumption DEF ID, Name
<1>2. getThumbnailExt(id) \in {<<>>, Txt(".jpeg"), Txt(".avif")}
    BY DEF getThumbnailExt
<1>3. IsExt(PathExt(id.name)) /\ stem \in Seq(Nat)
    BY <1>1, SupportedSplits
<1>4. CASE getThumbnailExt(id) = <<>>
    <2> HIDE DEF stem
    <2>1. stem \o Suffix(size) \in Seq(Nat)
        BY <1>1, <1>3, ConcatProperties
    <2>2. PathExt((stem \o Suffix(size)) \o PathExt(id.name)) = PathExt(id.name)
        BY <1>3, <2>1, ExtOfConcat
    <2> QED
        BY <1>2, <1>4, <2>2, NameOfThumbnail DEF stem
<1>5. CASE getThumbnailExt(id) # <<>>
    <2>1. id.name \o Suffix(size) \in Seq(Nat)
        BY <1>1, ConcatProperties
    <2>2. IsExt(getThumbnailExt(id))
        BY <1>2, <1>5, LiteralExts
    <2>3. PathExt((id.name \o Suffix(size)) \o getThumbnailExt(id)) = getThumbnailExt(id)
        BY <2>1, <2>2, ExtOfConcat
    <2> QED
        BY <1>2, <1>5, <2>3, NameOfThumbnail
<1> QED
    BY <1>4, <1>5

(* Thumbnails are in formats that browsers show.                            *)
LEMMA ThumbnailShown ==
    ASSUME NEW id \in ID, NEW size \in {"small", "medium", "large"},
           IsConfig(cfg), getImageType(id) # "unsupported"
    PROVE  GetExt(ThumbnailID(id, size)) \in BrowserExts
<1>1. CASE shouldUseOriginalImage(id)
    <2>1. getImageType(id) \notin {"heic", "raw"}
        BY <1>1 DEF shouldUseOriginalImage
    <2>2. GetExt(id) \in BrowserExts
        BY <2>1, TypeOfExt, LiteralExts
    <2> QED
        BY <1>1, <2>2 DEF ThumbnailID
<1>2. CASE ~shouldUseOriginalImage(id)
    <2>1. ThumbnailID(id, size) = newThumbnailID(id, size)
        BY <1>2 DEF ThumbnailID
    <2>2. CASE getThumbnailExt(id) = <<>>
        <3>1. GetExt(newThumbnailID(id, size)) = GetExt(id)
            BY <2>2, ExtOfThumbnail DEF GetExt
        <3>2. cfg.format \in {"jpeg", "avif"}
            BY DEF IsConfig
        <3>3. Txt(".jpeg") # <<>> /\ Txt(".avif") # <<>>
            BY LiteralExts DEF IsExt
        <3>4. getImageType(id) \notin {"heic", "raw"}
            BY <2>2, <3>2, <3>3 DEF getThumbnailExt
        <3>5. GetExt(id) \in BrowserExts
            BY <3>4, TypeOfExt, LiteralExts
        <3> QED
            BY <2>1, <3>1, <3>5
    <2>3. CASE getThumbnailExt(id) # <<>>
        <3>1. GetExt(newThumbnailID(id, size)) = ToLower(getThumbnailExt(id))
            BY <2>3, ExtOfThumbnail DEF GetExt
        <3>2. getThumbnailExt(id) \in {Txt(".jpeg"), Txt(".avif")}
            BY <2>3, ExtOfThumbnail
        <3> QED
            BY <2>1, <3>1, <3>2, LiteralExts
    <2> QED
        BY <2>2, <2>3
<1> QED
    BY <1>1, <1>2

(* Concatenations that end in the same text.                                *)
LEMMA SameEnd ==
    ASSUME NEW a \in Seq(Nat), NEW b \in Seq(Nat), NEW c \in Seq(Nat), a \o c = b \o c
    PROVE  a = b
    BY ConcatSimplifications

(* Concatenation is associative.                                            *)
LEMMA Regrouped ==
    ASSUME NEW a \in Seq(Nat), NEW b \in Seq(Nat), NEW c \in Seq(Nat)
    PROVE  (a \o b) \o c = a \o (b \o c)
    BY ConcatAssociative

(* What is longer by something that is not empty begins with the rest.      *)
LEMMA Extends ==
    ASSUME NEW a \in Seq(Nat), NEW b \in Seq(Nat), b # <<>>
    PROVE  IsStrictPrefix(a, a \o b)
<1>1. /\ Len(a) \in Nat /\ Len(b) \in Nat \ {0}
      /\ a \o b \in Seq(Nat) /\ Len(a \o b) = Len(a) + Len(b)
    BY EmptySeq, LenProperties, ConcatProperties
<1>2. SubSeq(a, 1, Len(a)) = a
    BY SubSeqFull
<1>3. SubSeq(a \o b, 1, Len(a)) = a
    <2> DEFINE x == SubSeq(a \o b, 1, Len(a))
    <2>1. \A k \in 1..Len(a) : (a \o b)[k] = a[k] /\ a[k] \in Nat
        BY <1>1, ConcatProperties, ElementOfSeq
    <2>2. x \in Seq(Nat) /\ Len(x) = Len(a) /\ \A k \in 1..Len(a) : x[k] = a[k]
        BY <1>1, <2>1, SubSeqProperties
    <2> HIDE DEF x
    <2>3. x = a
        BY <2>2, SeqEqual
    <2> QED
        BY <2>3 DEF x
<1>4. a # a \o b /\ Len(a) <= Len(a \o b)
    BY <1>1
<1>5. IsPrefix(a, a \o b)
    BY <1>2, <1>3, <1>4 DEF IsPrefix
<1> QED
    BY <1>4, <1>5 DEF IsStrictPrefix

(* Two images with one thumbnail, when the first is shown as it is.         *)
LEMMA OriginalTwin ==
    ASSUME NEW x \in ID, NEW y \in ID, NEW size \in {"small", "medium"},
           getImageType(x) # "unsupported", getImageType(y) # "unsupported",
           shouldUseOriginalImage(x), ~shouldUseOriginalImage(y),
           x = newThumbnailID(y, size)
    PROVE  IsStrictPrefix(y.name, x.name)
<1>1. CASE getThumbnailExt(y) = <<>>
    <2>1. PathExt(x.name) = PathExt(y.name) /\ x.size = y.size
        BY <1>1, ExtOfThumbnail, NameOfThumbnail
    <2>2. getImageType(x) = getImageType(y)
        BY <2>1 DEF getImageType, GetExt
    <2> QED
        BY <2>1, <2>2 DEF shouldUseOriginalImage
<1>2. CASE getThumbnailExt(y) # <<>>
    <2> DEFINE e == getThumbnailExt(y)
    <2>1. x.name = (y.name \o Suffix(size)) \o e
        BY <1>2, NameOfThumbnail
    <2>2. y.name \in Seq(Nat) /\ Suffix(size) \in Seq(Nat)
        BY SuffixAssumption DEF ID, Name
    <2>3. IsExt(e)
        BY <1>2, ExtOfThumbnail, LiteralExts
    <2> HIDE DEF e
    <2>4. e \in Seq(Nat) /\ e # <<>>
        BY <2>3 DEF IsExt
    <2>5. (y.name \o Suffix(size)) \o e = y.name \o (Suffix(size) \o e)
        BY <2>2, <2>4, Regrouped
    <2>6. Suffix(size) \o e \in Seq(Nat) /\ Suffix(size) \o e # <<>>
        BY <2>2, <2>4, ConcatProperties, ConcatEqualIffEmpty
    <2>7. IsStrictPrefix(y.name, y.name \o (Suffix(size) \o e))
        BY <2>2, <2>6, Extends
    <2> QED
        BY <2>1, <2>5, <2>7
<1> QED
    BY <1>1, <1>2

(* The same when neither is, and the first keeps its format.                *)
LEMMA ResizedTwin ==
    ASSUME NEW x \in ID, NEW y \in ID, NEW size \in {"small", "medium"},
           getImageType(x) # "unsupported", getImageType(y) # "unsupported",
           newThumbnailID(x, size) = newThumbnailID(y, size),
           getThumbnailExt(x) = <<>>, x # y
    PROVE  IsStrictPrefix(y.name, x.name)
<1> DEFINE ex == PathExt(x.name)
           ey == PathExt(y.name)
           sx == TrimSuffix(x.name, ex)
           sy == TrimSuffix(y.name, ey)
           S == Suffix(size)
           e == getThumbnailExt(y)
<1>1. /\ x.name \in Seq(Nat) /\ y.name \in Seq(Nat) /\ S \in Seq(Nat)
    BY SuffixAssumption DEF ID, Name
<1>2. /\ IsExt(ex) /\ sx \in Seq(Nat) /\ x.name = sx \o ex
      /\ IsExt(ey) /\ sy \in Seq(Nat) /\ y.name = sy \o ey
    BY <1>1, SupportedSplits
<1>3. ex \in Seq(Nat) /\ ex # <<>> /\ ey \in Seq(Nat)
    BY <1>2 DEF IsExt
<1>4. newThumbnailID(x, size).name = (sx \o S) \o ex
    BY NameOfThumbnail
<1>5. PathExt(newThumbnailID(x, size).name) = ex
    BY ExtOfThumbnail
<1>6. CASE e = <<>>
    <2>1. newThumbnailID(y, size).name = (sy \o S) \o ey
        BY <1>6, NameOfThumbnail
    <2>2. ex = ey
        BY <1>5, <1>6, ExtOfThumbnail
    <2>3. (sx \o S) \o ex = (sy \o S) \o ex
        BY <1>4, <2>1, <2>2
    <2> HIDE DEF ex, ey, sx, sy, S
    <2>4. sx \o S \in Seq(Nat) /\ sy \o S \in Seq(Nat)
        BY <1>1, <1>2, ConcatProperties
    <2>5. sx \o S = sy \o S
        BY <1>3, <2>3, <2>4, SameEnd
    <2>6. sx = sy
        BY <1>1, <1>2, <2>5, SameEnd
    <2>7. x.name = y.name
        BY <1>2, <2>2, <2>6
    <2>8. x.dir = y.dir /\ x.modTime = y.modTime /\ x.size = y.size
        BY NameOfThumbnail
    <2> QED
        BY <2>7, <2>8 DEF ID
<1>7. CASE e # <<>>
    <2>1. newThumbnailID(y, size).name = (y.name \o S) \o e
        BY <1>7, NameOfThumbnail
    <2>2. ex = e
        BY <1>5, <1>7, ExtOfThumbnail
    <2>3. (sx \o S) \o ex = (y.name \o S) \o ex
        BY <1>4, <2>1, <2>2
    <2> HIDE DEF ex, ey, sx, sy, S
    <2>4. sx \o S \in Seq(Nat) /\ y.name \o S \in Seq(Nat)
        BY <1>1, <1>2, ConcatProperties
    <2>5. sx \o S = y.name \o S
        BY <1>3, <2>3, <2>4, SameEnd
    <2>6. sx = y.name
        BY <1>1, <1>2, <2>5, SameEnd
    <2> QED
        BY <1>1, <1>2, <1>3, <2>6, Extends
<1> QED
    BY <1>6, <1>7

(* Images that share a thumbnail are one image, or twins by name.           *)
LEMMA Twins ==
    ASSUME NEW x \in ID, NEW y \in ID, NEW size \in {"small", "medium"},
           Accepts(x), Accepts(y), IsConfig(cfg),
           ThumbnailID(x, size) = ThumbnailID(y, size), x # y
    PROVE  IsStrictPrefix(x.name, y.name) \/ IsStrictPrefix(y.name, x.name)
<1>1. getImageType(x) # "unsupported" /\ getImageType(y) # "unsupported"
    BY DEF Accepts
<1>2. CASE shouldUseOriginalImage(x) /\ shouldUseOriginalImage(y)
    BY <1>2 DEF ThumbnailID
<1>3. CASE shouldUseOriginalImage(x) /\ ~shouldUseOriginalImage(y)
    <2>1. x = newThumbnailID(y, size)
        BY <1>3 DEF ThumbnailID
    <2> QED
        BY <1>1, <1>3, <2>1, OriginalTwin
<1>4. CASE ~shouldUseOriginalImage(x) /\ shouldUseOriginalImage(y)
    <2>1. y = newThumbnailID(x, size)
        BY <1>4 DEF ThumbnailID
    <2> QED
        BY <1>1, <1>4, <2>1, OriginalTwin
<1>5. CASE ~shouldUseOriginalImage(x) /\ ~shouldUseOriginalImage(y)
    <2>1. newThumbnailID(x, size) = newThumbnailID(y, size)
        BY <1>5 DEF ThumbnailID
    <2>2. CASE getThumbnailExt(x) = <<>>
        BY <1>1, <2>1, <2>2, ResizedTwin
    <2>3. CASE getThumbnailExt(y) = <<>>
        BY <1>1, <2>1, <2>3, ResizedTwin
    <2>4. CASE getThumbnailExt(x) # <<>> /\ getThumbnailExt(y) # <<>>
        <3> DEFINE S == Suffix(size)
                   ex == getThumbnailExt(x)
                   ey == getThumbnailExt(y)
        <3>1. x.name \in Seq(Nat) /\ y.name \in Seq(Nat) /\ S \in Seq(Nat)
            BY SuffixAssumption DEF ID, Name
        <3>2. /\ newThumbnailID(x, size).name = (x.name \o S) \o ex
              /\ newThumbnailID(y, size).name = (y.name \o S) \o ey
            BY <1>1, <2>4, NameOfThumbnail
        <3>3. ex = ey
            BY <1>1, <2>1, <2>4, ExtOfThumbnail
        <3>4. IsExt(ex)
            BY <1>1, <2>4, ExtOfThumbnail, LiteralExts
        <3>5. (x.name \o S) \o ex = (y.name \o S) \o ex
            BY <2>1, <3>2, <3>3
        <3>6. x.dir = y.dir /\ x.modTime = y.modTime /\ x.size = y.size
            BY <1>1, <2>1, NameOfThumbnail
        <3> HIDE DEF ex, ey, S
        <3>7. x.name \o S \in Seq(Nat) /\ y.name \o S \in Seq(Nat) /\ ex \in Seq(Nat)
            BY <3>1, <3>4, ConcatProperties DEF IsExt
        <3>8. x.name \o S = y.name \o S
            BY <3>5, <3>7, SameEnd
        <3>9. x.name = y.name
            BY <3>1, <3>8, SameEnd
        <3> QED
            BY <3>6, <3>9 DEF ID
    <2> QED
        BY <2>2, <2>3, <2>4
<1> QED
    BY <1>2, <1>3, <1>4, <1>5

-----------------------------------------------------------------------------
(* Listings and directories *)

(* GetDirInfo returns the entries, each of them once.                       *)
LEMMA SortedListing ==
    ASSUME NEW S, IsFiniteSet(S), NEW sort, NEW order, NEW s \in GetDirInfo(S, sort, order)
    PROVE  /\ s \in Seq(S)
           /\ \A i, j \in 1..Len(s) : i # j => s[i] # s[j]
           /\ S = {s[i] : i \in 1..Len(s)}
<1>1. s \in SetToSeqs(S) \/ \E t \in SetToSeqs(S) : s = Reverse(t)
    BY DEF GetDirInfo, SortFunc
<1>2. CASE s \in SetToSeqs(S)
    BY <1>2, Listing
<1>3. CASE \E t \in SetToSeqs(S) : s = Reverse(t)
    <2>1. PICK t \in SetToSeqs(S) : s = Reverse(t)
        BY <1>3
    <2>2. /\ t \in Seq(S)
          /\ \A i, j \in 1..Len(t) : i # j => t[i] # t[j]
          /\ S = {t[i] : i \in 1..Len(t)}
        BY <2>1, Listing
    <2>3. Len(t) \in Nat /\ \A k \in 1..Len(t) : t[k] \in S
        BY <2>2, LenProperties, ElementOfSeq
    <2>4. /\ s \in Seq(S) /\ Len(s) = Len(t)
          /\ \A k \in 1..Len(t) : s[k] = t[Len(t) - k + 1]
        BY <2>1, <2>3 DEF Reverse
    <2>5. ASSUME NEW i \in 1..Len(s), NEW j \in 1..Len(s), i # j
          PROVE  s[i] # s[j]
        <3>1. Len(t) - i + 1 \in 1..Len(t) /\ Len(t) - j + 1 \in 1..Len(t) /\ Len(t) - i + 1 # Len(t) - j + 1
            BY <2>3, <2>4, <2>5
        <3> QED
            BY <2>2, <2>4, <3>1
    <2>6. ASSUME NEW x \in S
          PROVE  \E i \in 1..Len(s) : s[i] = x
        <3>1. PICK i \in 1..Len(t) : t[i] = x
            BY <2>2
        <3>2. Len(t) - i + 1 \in 1..Len(s) /\ Len(t) - (Len(t) - i + 1) + 1 = i
            BY <2>3, <2>4
        <3>3. s[Len(t) - i + 1] = x
            BY <2>4, <3>1, <3>2
        <3> QED
            BY <3>2, <3>3
    <2>7. \A i \in 1..Len(s) : s[i] \in S
        BY <2>4, ElementOfSeq
    <2>8. S = {s[i] : i \in 1..Len(s)}
        BY <2>6, <2>7
    <2>9. \A i, j \in 1..Len(s) : i # j => s[i] # s[j]
        BY <2>5
    <2> QED
        BY <2>4, <2>8, <2>9
<1> QED
    BY <1>1, <1>2, <1>3

(* A directory has finitely many entries.                                   *)
LEMMA ListingFinite ==
    ASSUME IsTree(remote), NEW dir
    PROVE  IsFiniteSet(ListingOf(dir))
<1> DEFINE In == {x \in remote : x.dir = dir}
           f == [e \in In |-> Listed(e)]
<1>1. IsFiniteSet(In)
    BY FS_Subset DEF IsTree
<1>2. f \in [In -> ListingOf(dir)] /\ \A t \in ListingOf(dir) : \E e \in In : f[e] = t
    BY DEF ListingOf
<1> HIDE DEF In, f
<1> QED
    BY <1>1, <1>2, FiniteImage

(* What is on the page of a directory.                                      *)
LEMMA EntriesOf ==
    ASSUME IsTree(remote), NEW dir, NEW sort, NEW order,
           NEW s \in GetDirInfo(ListingOf(dir), sort, order)
    PROVE  /\ \A i, j \in DOMAIN s : i # j => s[i] # s[j]
           /\ \A k \in DOMAIN s : \E x \in remote : x.dir = dir /\ s[k] = Listed(x)
           /\ \A x \in remote : x.dir = dir => \E k \in DOMAIN s : s[k] = Listed(x)
<1> DEFINE In == {x \in remote : x.dir = dir}
<1>2. IsFiniteSet(ListingOf(dir))
    BY ListingFinite
<1>3. /\ s \in Seq(ListingOf(dir))
      /\ \A i, j \in 1..Len(s) : i # j => s[i] # s[j]
      /\ ListingOf(dir) = {s[i] : i \in 1..Len(s)}
    BY <1>2, SortedListing
<1>4. DOMAIN s = 1..Len(s)
    BY <1>3, LenProperties
<1>5. ListingOf(dir) = {Listed(e) : e \in In}
    BY DEF ListingOf
<1>6. ASSUME NEW k \in DOMAIN s
      PROVE  \E x \in remote : x.dir = dir /\ s[k] = Listed(x)
    <2>1. s[k] \in ListingOf(dir)
        BY <1>3, <1>4
    <2> QED
        BY <1>5, <2>1
<1>7. ASSUME NEW x \in remote, x.dir = dir
      PROVE  \E k \in DOMAIN s : s[k] = Listed(x)
    <2>1. Listed(x) \in ListingOf(dir)
        BY <1>5, <1>7
    <2> QED
        BY <1>3, <1>4, <2>1
<1> QED
    BY <1>3, <1>4, <1>6, <1>7

(* The parents of a directory exist.                                        *)
LEMMA ParentsExist ==
    ASSUME IsTree(remote), NEW dir, Exists(dir), NEW n \in 0..Len(dir)
    PROVE  dir \in Seq(Name) /\ Exists(SubSeq(dir, 1, n))
<1>1. n = 0 => Exists(SubSeq(dir, 1, n))
    BY DEF Exists
<1>2. CASE dir = <<>>
    BY <1>1, <1>2
<1>3. CASE dir # <<>>
    <2>1. PICK e \in remote : e.isDir /\ PathOf(e) = dir
        BY <1>3 DEF Exists
    <2>2. e.dir \in Seq(Name) /\ e.name \in Name
        BY DEF IsTree
    <2>3. /\ Len(e.dir) \in Nat /\ dir \in Seq(Name) /\ Len(dir) = Len(e.dir) + 1
          /\ \A i \in 1..Len(e.dir) : dir[i] = e.dir[i]
        <3>1. dir = Append(e.dir, e.name)
            BY <2>1 DEF PathOf
        <3>2. Len(e.dir) \in Nat
            BY <2>2, LenProperties
        <3>3. /\ Append(e.dir, e.name) \in Seq(Name) /\ Len(Append(e.dir, e.name)) = Len(e.dir) + 1
              /\ \A i \in 1..Len(e.dir) : Append(e.dir, e.name)[i] = e.dir[i]
            BY <2>2, AppendProperties
        <3> QED
            BY <3>1, <3>2, <3>3
    <2>4. CASE n = Len(dir)
        <3>1. SubSeq(dir, 1, n) = dir
            BY <2>3, <2>4, SubSeqFull
        <3> QED
            BY <2>3, <3>1
    <2>5. CASE n \in 1..Len(e.dir)
        <3> DEFINE x == SubSeq(dir, 1, n)
                   y == SubSeq(e.dir, 1, n)
        <3>1. \A i \in 1..n : dir[i] = e.dir[i] /\ e.dir[i] \in Name
            BY <2>2, <2>3, <2>5, ElementOfSeq
        <3>2. x \in Seq(Name) /\ Len(x) = n /\ \A i \in 1..n : x[i] = dir[i]
            BY <2>3, <2>5, <3>1, SubSeqProperties
        <3>3. y \in Seq(Name) /\ Len(y) = n /\ \A i \in 1..n : y[i] = e.dir[i]
            BY <2>3, <2>5, <3>1, SubSeqProperties
        <3>4. \E d \in remote : d.isDir /\ PathOf(d) = y
            BY <2>5 DEF IsTree
        <3> HIDE DEF x, y
        <3>5. x = y
            BY <3>1, <3>2, <3>3, SeqEqual
        <3>6. Exists(x)
            BY <3>4, <3>5 DEF Exists
        <3> QED
            BY <2>3, <3>6 DEF x
    <2> QED
        BY <1>1, <2>3, <2>4, <2>5
<1> QED
    BY <1>2, <1>3

(* Without percent signs there is nothing to unescape.                      *)
LEMMA JoinsAlike ==
    ASSUME NEW names \in Seq(Name), NoPercent(names)
    PROVE  JoinPath(names) = names
<1>1. DOMAIN names = 1..Len(names) /\ \A k \in DOMAIN names : names[k] \in Name
    BY ElementOfSeq, LenProperties
<1>2. ASSUME NEW k \in DOMAIN names
      PROVE  IsEscaped(names[k]) /\ PathUnescape(names[k]) = names[k]
    <2> DEFINE s == names[k]
    <2>1. s \in Seq(Nat) /\ ~Contains(s, Percent)
        BY <1>1, <1>2 DEF Name, NoPercent
    <2>2. DOMAIN s = 1..Len(s)
        BY <2>1, LenProperties
    <2> HIDE DEF s
    <2>3. IsEscaped(s)
        BY <2>1, <2>2 DEF IsEscaped, Contains
    <2>4. PathUnescape(s) = s
        BY <2>1 DEF PathUnescape
    <2> QED
        BY <2>3, <2>4 DEF s
<1>3. names = [k \in DOMAIN names |-> names[k]]
    OBVIOUS
<1>4. [k \in DOMAIN names |-> PathUnescape(names[k])] = [k \in DOMAIN names |-> names[k]]
    BY <1>2
<1> QED
    BY <1>2, <1>3, <1>4 DEF JoinPath

(* The parents of a directory without percent signs have none.              *)
LEMMA NoPercentAbove ==
    ASSUME NEW dir \in Seq(Name), NoPercent(dir), NEW n \in 0..Len(dir)
    PROVE  SubSeq(dir, 1, n) \in Seq(Name) /\ NoPercent(SubSeq(dir, 1, n))
<1> DEFINE x == SubSeq(dir, 1, n)
<1>1. Len(dir) \in Nat /\ DOMAIN dir = 1..Len(dir) /\ \A i \in 1..n : dir[i] \in Name
    BY ElementOfSeq, LenProperties
<1>2. x \in Seq(Name) /\ Len(x) = n /\ \A i \in 1..n : x[i] = dir[i]
    BY <1>1, SubSeqProperties
<1> HIDE DEF x
<1>3. DOMAIN x = 1..n
    BY <1>2, LenProperties
<1>4. NoPercent(x)
    BY <1>1, <1>2, <1>3 DEF NoPercent
<1> QED
    BY <1>2, <1>4 DEF x

(* The breadcrumbs of a directory are its parents.                          *)
LEMMA CrumbLeads ==
    ASSUME NEW dir \in Seq(Name), NoPercent(dir), NEW k \in DOMAIN Breadcrumbs(dir, <<Home>> \o dir)
    PROVE  /\ k - 1 \in 0..Len(dir)
           /\ Breadcrumbs(dir, <<Home>> \o dir)[k].link = SubSeq(dir, 1, k - 1)
           /\ Tail([n \in 1..k |-> Breadcrumbs(dir, <<Home>> \o dir)[n].text]) = SubSeq(dir, 1, k - 1)
<1> DEFINE texts == <<Home>> \o dir
           crumbs == Breadcrumbs(dir, texts)
           T == Name \cup {Home}
           named == [n \in 1..k |-> crumbs[n].text]
<1>1. dir \in Seq(T) /\ <<Home>> \in Seq(T) /\ Len(<<Home>>) = 1 /\ <<Home>>[1] = Home /\ Len(dir) \in Nat
    BY SeqMonotonic
<1>2. /\ texts \in Seq(T) /\ Len(texts) = Len(dir) + 1 /\ DOMAIN texts = 1..(Len(dir) + 1)
      /\ \A i \in 1..Len(dir) : texts[i + 1] = dir[i]
    BY <1>1, ConcatProperties, LenProperties
<1> HIDE DEF texts
<1>3. k \in 1..(Len(dir) + 1) /\ k - 1 \in 0..Len(dir)
    BY <1>1, <1>2 DEF Breadcrumbs, texts
<1>4. \A n \in 1..(Len(dir) + 1) :
        /\ crumbs[n].text = texts[n]
        /\ crumbs[n].link = SubSeq(dir, 1, Len(dir) - (Len(texts) - n))
    BY <1>2, JoinsAlike DEF Breadcrumbs
<1>5. Len(dir) - (Len(texts) - k) = k - 1
    BY <1>1, <1>2, <1>3
<1>6. /\ named \in Seq(T) /\ Len(named) = k
      /\ \A n \in 1..k : named[n] = texts[n]
    <2>1. \A n \in 1..k : n \in 1..(Len(dir) + 1) /\ crumbs[n].text = texts[n] /\ texts[n] \in T
        BY <1>1, <1>2, <1>3, <1>4, ElementOfSeq
    <2> HIDE DEF crumbs
    <2> QED
        BY <1>1, <1>3, <2>1
<1> HIDE DEF named
<1>7. Tail(named) = SubSeq(dir, 1, k - 1)
    <2>1. named # <<>>
        BY <1>1, <1>3, <1>6, EmptySeq
    <2>2. /\ Tail(named) \in Seq(T) /\ Len(Tail(named)) = k - 1
          /\ \A i \in 1..(k - 1) : Tail(named)[i] = named[i + 1]
        BY <1>6, <2>1, HeadTailProperties
    <2>3. \A i \in 1..(k - 1) : dir[i] \in T
        BY <1>1, <1>3, ElementOfSeq
    <2> DEFINE x == SubSeq(dir, 1, k - 1)
    <2>4. x \in Seq(T) /\ Len(x) = k - 1 /\ \A i \in 1..(k - 1) : x[i] = dir[i]
        BY <1>1, <1>3, <2>3, SubSeqProperties
    <2> HIDE DEF x
    <2>5. \A i \in 1..(k - 1) : Tail(named)[i] = x[i]
        <3> TAKE i \in 1..(k - 1)
        <3>1. i \in 1..Len(dir) /\ i + 1 \in 1..k
            BY <1>1, <1>3
        <3> QED
            BY <1>2, <1>6, <2>2, <2>4, <3>1
    <2>6. Tail(named) = x
        BY <2>2, <2>4, <2>5, SeqEqual
    <2> QED
        BY <2>6 DEF x
<1> QED
    BY <1>3, <1>4, <1>5, <1>7 DEF named, texts

-----------------------------------------------------------------------------
(* Hits *)

(* The index finds entries that are in it.                                  *)
LEMMA FoundByPrefixes ==
    ASSUME NEW index, IsFiniteSet(index.entries), NEW words
    PROVE  /\ IsFiniteSet(searchByPrefixes(index, words))
           /\ \A hit \in searchByPrefixes(index, words) : hit.entry \in index.entries
<1> DEFINE matches == [k \in DOMAIN words |-> UNION {IdsUnder(index, p) : p \in generatePrefixes(words[k])}]
           found == {x \in index.entries : \A k \in DOMAIN words : x \in matches[k]}
           hits == searchByPrefixes(index, words)
<1>1. IsFiniteSet(found)
    BY FS_Subset
<1>2. \A hit \in hits : hit.entry \in found
    BY DEF searchByPrefixes
<1> DEFINE f == [e \in found |-> [entry |-> e, score |-> ScoreOf(index, words, e)]]
<1>3. f \in [found -> hits] /\ \A hit \in hits : \E e \in found : f[e] = hit
    BY DEF searchByPrefixes
<1> HIDE DEF f
<1> HIDE DEF hits
<1>4. found \subseteq index.entries
    OBVIOUS
<1> HIDE DEF found
<1>5. IsFiniteSet(hits)
    BY <1>1, <1>3, FiniteImage
<1> QED
    BY <1>2, <1>4, <1>5 DEF hits

(* The hits of a search are entries of the index.                           *)
LEMMA HitsAreEntries ==
    ASSUME NEW E, IsFiniteSet(E), NEW text, NEW limit \in Int,
           NEW found \in Search(newPrefixIndex(E), text, limit), ~found.panic
    PROVE  \A k \in DOMAIN found.hits : found.hits[k].entry \in E
<1> DEFINE index == newPrefixIndex(E)
           req == newSearchRequest(text)
           Kept(hit) == /\ \A exact \in req.exactMatches : StringsContains(ToLower(hit.entry.path), exact)
                        /\ \A word \in req.toExclude : ~StringsContains(ToLower(hit.entry.path), word)
           All == IF req.words # <<>> THEN searchByPrefixes(index, req.words)
                  ELSE {[entry |-> e, score |-> Inf] : e \in index.entries}
           H == {hit \in All : Kept(hit)}
<1>1. index.entries = E
    BY DEF newPrefixIndex
<1> HIDE DEF index, req
<1>2. IsFiniteSet(All) /\ \A hit \in All : hit.entry \in E
    <2>1. CASE req.words # <<>>
        BY <1>1, <2>1, FoundByPrefixes
    <2>2. CASE req.words = <<>>
        <3> DEFINE A == {[entry |-> e, score |-> Inf] : e \in E}
                   f == [e \in E |-> [entry |-> e, score |-> Inf]]
        <3>1. f \in [E -> A] /\ (\A hit \in A : \E e \in E : f[e] = hit) /\ \A hit \in A : hit.entry \in E
            OBVIOUS
        <3>2. All = A
            BY <1>1, <2>2
        <3> HIDE DEF f, A, All
        <3>3. IsFiniteSet(A)
            BY <3>1, FiniteImage
        <3> QED
            BY <3>1, <3>2, <3>3
    <2> QED
        BY <2>1, <2>2
<1> HIDE DEF All
<1>3. IsFiniteSet(H) /\ \A hit \in H : hit.entry \in E
    <2>1. H \in SUBSET All
        OBVIOUS
    <2> HIDE DEF H
    <2> QED
        BY <1>2, <2>1, FS_Subset
<1>4. PICK hits \in AllHits(index, req) : found \in CutTo(hits, limit)
    BY DEF Search, index, req
<1>5. hits \subseteq H
    <2>1. hits = {} \/ hits \in compactSearchHits(H)
        BY <1>4 DEF AllHits, All
    <2>2. CASE hits \in compactSearchHits(H)
        <3> HIDE DEF H
        <3>1. PICK s \in SetToSeqs(H) : hits = Compacted(s)
            BY <2>2 DEF compactSearchHits, SortFunc
        <3>2. s \in Seq(H)
            BY <1>3, <3>1, Listing
        <3> QED
            BY <3>1, <3>2, CompactedKeeps
    <2> QED
        BY <2>1, <2>2
<1> HIDE DEF H
<1>6. IsFiniteSet(hits) /\ \A hit \in hits : hit.entry \in E
    BY <1>3, <1>5, FS_Subset
<1> DEFINE cut == hits # {} /\ Cardinality(hits) > limit
<1>7. PICK s \in SetToSeqs(hits) :
        found = [panic |-> FALSE, total |-> Cardinality(hits), hits |-> IF cut THEN SubSeq(s, 1, limit) ELSE s]
    BY <1>4 DEF CutTo, SortFunc
<1>8. s \in Seq(hits) /\ Len(s) = Cardinality(hits) /\ DOMAIN s = 1..Len(s) /\ Len(s) \in Nat
    BY <1>6, <1>7, Listing, LenProperties
<1>9. \A k \in 1..Len(s) : s[k] \in hits
    BY <1>8, ElementOfSeq
<1>10. CASE ~cut
    BY <1>6, <1>7, <1>8, <1>9, <1>10
<1>11. CASE cut
    <2>1. limit < Len(s) /\ found.hits = SubSeq(s, 1, limit)
        BY <1>7, <1>8, <1>11
    <2>2. \A k \in 1..limit : s[k] \in hits
        BY <1>8, <1>9, <2>1
    <2>3. SubSeq(s, 1, limit) \in Seq(hits)
        BY <2>2, SubSeqProperties
    <2> QED
        BY <1>6, <2>1, <2>3, LenProperties, ElementOfSeq
<1> QED
    BY <1>10, <1>11

-----------------------------------------------------------------------------
(* Paths as text, and back *)

(* The beginning of a sequence, and one element more.                       *)
LEMMA SubSeqNext ==
    ASSUME NEW S, NEW s \in Seq(S), NEW n \in 0..(Len(s) - 1)
    PROVE  SubSeq(s, 1, n) \in Seq(S) /\ s[n + 1] \in S /\ Append(SubSeq(s, 1, n), s[n + 1]) = SubSeq(s, 1, n + 1)
<1> DEFINE x == SubSeq(s, 1, n)
           y == SubSeq(s, 1, n + 1)
           z == Append(x, s[n + 1])
<1>1. Len(s) \in Nat /\ n \in Nat /\ \A i \in 1..(n + 1) : s[i] \in S
    BY LenProperties, ElementOfSeq
<1>2. x \in Seq(S) /\ Len(x) = n /\ \A i \in 1..n : x[i] = s[i]
    BY <1>1, SubSeqProperties
<1>3. y \in Seq(S) /\ Len(y) = n + 1 /\ \A i \in 1..(n + 1) : y[i] = s[i]
    BY <1>1, SubSeqProperties
<1> HIDE DEF x, y
<1>4. z \in Seq(S) /\ Len(z) = n + 1 /\ (\A i \in 1..n : z[i] = x[i]) /\ z[n + 1] = s[n + 1]
    BY <1>1, <1>2, AppendProperties
<1> HIDE DEF z
<1>5. \A i \in 1..(n + 1) : z[i] = y[i]
    BY <1>1, <1>2, <1>3, <1>4
<1>6. z = y
    BY <1>3, <1>4, <1>5, SeqEqual
<1> QED
    BY <1>1, <1>2, <1>6 DEF x, y, z

(* A path that is a sequence of names, and an entry that has one.           *)
LEMMA PathIsNames ==
    ASSUME NEW e, e.dir \in Seq(Name), e.name \in Name
    PROVE  /\ PathOf(e) \in Seq(Name) /\ Len(PathOf(e)) \in Nat \ {0}
           /\ Front(PathOf(e)) = e.dir /\ Last(PathOf(e)) = e.name
           /\ \A k \in 1..Len(PathOf(e)) : PathOf(e)[k] \in Name
<1>1. PathOf(e) \in Seq(Name) /\ Len(PathOf(e)) = Len(e.dir) + 1 /\ Len(e.dir) \in Nat
    BY AppendProperties, LenProperties DEF PathOf
<1> QED
    BY <1>1, FrontLast, ElementOfSeq DEF PathOf

(* PathText puts a slash and the next name behind what it has.              *)
Grows(t, path, m) == \A k \in 1..m : t[k] = (t[k - 1] \o <<Slash>>) \o path[k]

(* PathText writes a path name by name.                                     *)
LEMMA TextOfPath ==
    ASSUME NEW e, e.dir \in Seq(Name), e.name \in Name
    PROVE  \E t \in [0..Len(PathOf(e)) -> Seq(Nat)] :
             /\ t[0] = <<>>
             /\ Grows(t, PathOf(e), Len(PathOf(e)))
             /\ PathText(e) = t[Len(PathOf(e))] \o (IF e.isDir THEN <<Slash>> ELSE <<>>)
<1> DEFINE path == PathOf(e)
           m == Len(path)
           Q == Seq(Nat)
           b == <<>>
           Put(x, k) == (x \o <<Slash>>) \o path[k]
           text[k \in 0..Len(path)] == IF k = 0 THEN <<>> ELSE text[k - 1] \o <<Slash>> \o path[k]
           step == [p \in Q \X (1..m) |-> Put(p[1], p[2])]
<1>1. m \in Nat /\ \A k \in 1..m : path[k] \in Seq(Nat)
    BY PathIsNames DEF Name
<1>2. b \in Q /\ <<Slash>> \in Q
    BY EmptySeq DEF Slash
<1>3. ASSUME NEW k \in 1..m, NEW x \in Q
      PROVE  step[<<x, k>>] = Put(x, k) /\ Put(x, k) \in Q
    <2>1. Put(x, k) \in Q
        <3>1. x \o <<Slash>> \in Q
            BY <1>2, ConcatProperties
        <3> QED
            BY <1>1, <3>1, ConcatProperties
    <2> HIDE DEF Put, Q
    <2>2. step[<<x, k>>] = Put(x, k)
        OBVIOUS
    <2> QED
        BY <2>1, <2>2
<1> HIDE DEF path
<1>4. PICK f \in [0..m -> Q] : Computes(f, b, step, m)
    <2> HIDE DEF Put, b, Q, m
    <2>1. m \in Nat /\ b \in Q /\ step \in [Q \X (1..m) -> Q]
        BY <1>1, <1>2, <1>3
    <2> HIDE DEF step
    <2> QED
        BY <2>1, TypedRecursion
<1>5. f = [k \in 0..Len(path) |-> IF k = 0 THEN <<>> ELSE f[k - 1] \o <<Slash>> \o path[k]]
    <2>1. ASSUME NEW k \in 1..m
          PROVE  f[k] = Put(f[k - 1], k)
        <3>1. f[k - 1] \in Q
            BY <1>1
        <3> HIDE DEF step, Put, Q, m
        <3> QED
            BY <1>3, <1>4, <3>1 DEF Computes
    <2>2. \A k \in 0..m : k # 0 => k \in 1..m
        BY <1>1
    <2> QED
        BY <1>4, <2>1, <2>2 DEF Computes
<1>6. text = [k \in 0..Len(path) |-> IF k = 0 THEN <<>> ELSE text[k - 1] \o <<Slash>> \o path[k]]
    BY <1>5
<1>7. PathText(e) = text[m] \o (IF e.isDir THEN <<Slash>> ELSE <<>>)
    BY DEF PathText, path
<1> HIDE DEF text, step
<1>8. text[0] = b /\ \A k \in 1..m : text[k] = Put(text[k - 1], k)
    <2>1. 0 \in 0..m /\ \A k \in 1..m : k \in 0..m /\ k # 0
        BY <1>1
    <2> QED
        BY <1>6, <2>1
<1>9. \A k \in 0..m : text[k] \in Q
    <2> HIDE DEF Put, b, Q, m
    <2> DEFINE T == {k \in 0..m : text[k] \in Q}
    <2>1. 0 \in T
        BY <1>1, <1>2, <1>8
    <2>2. ASSUME NEW k \in 0..(m - 1), k \in T
          PROVE  k + 1 \in T
        <3>1. k + 1 \in 1..m /\ k + 1 \in 0..m /\ (k + 1) - 1 = k
            BY <1>1
        <3>2. text[k + 1] = Put(text[k], k + 1)
            BY <1>8, <3>1
        <3> QED
            BY <1>3, <2>2, <3>1, <3>2
    <2> HIDE DEF T
    <2>3. \A k \in 0..m : k \in T
        BY <1>1, <2>1, <2>2, Induction
    <2> QED
        BY <2>3 DEF T
<1>10. text \in [0..m -> Q]
    BY <1>6, <1>9
<1> QED
    BY <1>7, <1>8, <1>10 DEF path, Grows

(* How Elements goes on with the character at k.                            *)
NextNames(s, before, k) ==
    IF s[k] = Slash THEN before
    ELSE IF k = 1 \/ s[k - 1] = Slash THEN Append(before, <<s[k]>>)
    ELSE Append(Front(before), Append(Last(before), s[k]))

(* Within a name there is a name to extend.                                 *)
NamesAt(s, k) ==
    {x \in Seq(Seq(Nat)) : k > 0 /\ s[k] # Slash => x # <<>>}

(* Elements has the names that ended so far and, behind a character, one    *)
(* that goes on.                                                            *)
LEMMA NamesGoOn ==
    ASSUME NEW s \in Seq(Nat), NEW k \in 1..Len(s), NEW x \in NamesAt(s, k - 1)
    PROVE  NextNames(s, x, k) \in NamesAt(s, k)
<1> DEFINE Q == Seq(Nat)
<1>1. s[k] \in Nat /\ k > 0 /\ x \in Seq(Q)
    BY ElementOfSeq DEF NamesAt
<1>2. CASE s[k] = Slash
    BY <1>1, <1>2 DEF NextNames, NamesAt
<1>3. CASE s[k] # Slash /\ (k = 1 \/ s[k - 1] = Slash)
    <2>1. <<s[k]>> \in Q
        BY <1>1
    <2> HIDE DEF Q
    <2>2. Append(x, <<s[k]>>) \in Seq(Q) /\ Append(x, <<s[k]>>) # <<>>
        BY <1>1, <2>1, AppendProperties
    <2> QED
        BY <1>3, <2>2 DEF NextNames, NamesAt, Q
<1>4. CASE s[k] # Slash /\ ~(k = 1 \/ s[k - 1] = Slash)
    <2>1. x # <<>>
        BY <1>4 DEF NamesAt
    <2> HIDE DEF Q
    <2>2. PICK y \in Seq(Q), z \in Q : x = Append(y, z)
        BY <1>1, <2>1, SequenceEmptyOrAppend
    <2>3. Front(x) = y /\ Last(x) = z
        BY <2>2, FrontLast
    <2> DEFINE longer == Append(z, s[k])
    <2>4. longer \in Q
        BY <1>1, <2>2, AppendProperties DEF Q
    <2> HIDE DEF longer
    <2>5. Append(y, longer) \in Seq(Q) /\ Append(y, longer) # <<>>
        BY <2>2, <2>4, AppendProperties
    <2> QED
        BY <1>4, <2>3, <2>5 DEF NextNames, NamesAt, Q, longer
<1> QED
    BY <1>2, <1>3, <1>4

(* Elements reads the text from left to right.                              *)
Reads(g, s) == \A k \in 1..Len(s) : g[k] = NextNames(s, g[k - 1], k)

(* Elements reads a text from left to right.                                *)
LEMMA NamesOfText ==
    ASSUME NEW s \in Seq(Nat)
    PROVE  \E g : g[0] = <<>> /\ Reads(g, s) /\ Elements(s) = g[Len(s)]
<1> DEFINE n == Len(s)
           Q == Seq(Seq(Nat))
           b == <<>>
           I == [k \in 0..n |-> NamesAt(s, k)]
           step == [p \in Q \X (1..n) |-> NextNames(s, p[1], p[2])]
           names[k \in 0..Len(s)] ==
               IF k = 0 THEN <<>>
               ELSE LET before == names[k - 1]
                    IN  IF s[k] = Slash THEN before
                        ELSE IF k = 1 \/ s[k - 1] = Slash THEN Append(before, <<s[k]>>)
                        ELSE Append(Front(before), Append(Last(before), s[k]))
<1>1. n \in Nat
    BY LenProperties
<1>2. \A k \in 0..n : I[k] = NamesAt(s, k) /\ NamesAt(s, k) \subseteq Q
    BY DEF NamesAt
<1>3. b \in NamesAt(s, 0)
    BY EmptySeq DEF NamesAt
<1>4. ASSUME NEW k \in 1..n, NEW x \in NamesAt(s, k - 1)
      PROVE  step[<<x, k>>] = NextNames(s, x, k) /\ NextNames(s, x, k) \in NamesAt(s, k)
    <2>1. x \in Q
        BY DEF NamesAt
    <2> HIDE DEF Q
    <2>2. step[<<x, k>>] = NextNames(s, x, k)
        BY <2>1
    <2> QED
        BY <2>2, NamesGoOn
<1>5. PICK f \in [0..n -> Q] : Computes(f, b, step, n) /\ \A k \in 0..n : f[k] \in I[k]
    <2>1. I \in [0..n -> SUBSET Q] /\ b \in I[0]
        <3>1. 0 \in 0..n
            BY <1>1
        <3> HIDE DEF Q, b
        <3> QED
            BY <1>2, <1>3, <3>1
    <2>2. Advances(step, I, n)
        <3>1. \A k \in 1..n : k \in 0..n /\ k - 1 \in 0..n
            BY <1>1
        <3> HIDE DEF I, step, Q
        <3> QED
            BY <1>2, <1>4, <3>1 DEF Advances
    <2> HIDE DEF I, step, Q, b, n
    <2> QED
        BY <1>1, <2>1, <2>2, Recursion
<1> HIDE DEF I
<1>6. ASSUME NEW k \in 1..n
      PROVE  f[k] = NextNames(s, f[k - 1], k)
    <2>0. k - 1 \in 0..n
        BY <1>1
    <2>1. f[k - 1] \in NamesAt(s, k - 1)
        BY <1>2, <1>5, <2>0
    <2> HIDE DEF step
    <2> QED
        BY <1>4, <1>5, <2>1 DEF Computes
<1>7. f = [k \in 0..Len(s) |->
             IF k = 0 THEN <<>>
             ELSE LET before == f[k - 1]
                  IN  IF s[k] = Slash THEN before
                      ELSE IF k = 1 \/ s[k - 1] = Slash THEN Append(before, <<s[k]>>)
                      ELSE Append(Front(before), Append(Last(before), s[k]))]
    <2>1. \A k \in 0..n : k # 0 => k \in 1..n
        BY <1>1
    <2> HIDE DEF step, Q
    <2> QED
        BY <1>5, <1>6, <2>1 DEF Computes, NextNames
<1>8. names = [k \in 0..Len(s) |->
             IF k = 0 THEN <<>>
             ELSE LET before == names[k - 1]
                  IN  IF s[k] = Slash THEN before
                      ELSE IF k = 1 \/ s[k - 1] = Slash THEN Append(before, <<s[k]>>)
                      ELSE Append(Front(before), Append(Last(before), s[k]))]
    BY <1>7
<1>9. Elements(s) = names[n]
    BY DEF Elements
<1> HIDE DEF names, step
<1>10. names[0] = b /\ \A k \in 1..n : names[k] = NextNames(s, names[k - 1], k)
    <2>1. 0 \in 0..n /\ \A k \in 1..n : k \in 0..n /\ k # 0
        BY <1>1
    <2> QED
        BY <1>8, <2>1 DEF NextNames
<1> QED
    BY <1>9, <1>10 DEF Reads

(* A text with a slash and a name behind it.                                *)
LEMMA NameBehind ==
    ASSUME NEW u \in Seq(Nat), NEW v \in Seq(Nat)
    PROVE  /\ (u \o <<Slash>>) \o v \in Seq(Nat)
           /\ Len((u \o <<Slash>>) \o v) = Len(u) + 1 + Len(v)
           /\ \A i \in 1..Len(u) : ((u \o <<Slash>>) \o v)[i] = u[i]
           /\ ((u \o <<Slash>>) \o v)[Len(u) + 1] = Slash
           /\ \A j \in 1..Len(v) : ((u \o <<Slash>>) \o v)[Len(u) + 1 + j] = v[j]
<1> DEFINE us == u \o <<Slash>>
           w == us \o v
<1>1. Len(u) \in Nat /\ Len(v) \in Nat
    BY LenProperties
<1>2. <<Slash>> \in Seq(Nat) /\ Len(<<Slash>>) = 1 /\ <<Slash>>[1] = Slash
    BY DEF Slash
<1>3. /\ us \in Seq(Nat) /\ Len(us) = Len(u) + 1
      /\ \A i \in 1..(Len(u) + 1) : us[i] = IF i <= Len(u) THEN u[i] ELSE <<Slash>>[i - Len(u)]
    BY <1>1, <1>2, ConcatProperties
<1>4. us[Len(u) + 1] = Slash /\ \A i \in 1..Len(u) : us[i] = u[i]
    <2>1. Len(u) + 1 \in 1..(Len(u) + 1) /\ ~(Len(u) + 1 <= Len(u)) /\ (Len(u) + 1) - Len(u) = 1
        BY <1>1
    <2>2. us[Len(u) + 1] = Slash
        BY <1>2, <1>3, <2>1
    <2>3. \A i \in 1..Len(u) : i \in 1..(Len(u) + 1) /\ i <= Len(u)
        BY <1>1
    <2> QED
        BY <1>3, <2>2, <2>3
<1> HIDE DEF us
<1>5. /\ w \in Seq(Nat) /\ Len(w) = Len(us) + Len(v)
      /\ \A i \in 1..(Len(us) + Len(v)) : w[i] = IF i <= Len(us) THEN us[i] ELSE v[i - Len(us)]
    <2>1. us \in Seq(Nat)
        BY <1>3
    <2> QED
        BY <2>1, ConcatProperties
<1> HIDE DEF w
<1>6. \A i \in 1..(Len(u) + 1) : w[i] = us[i]
    <2>1. \A i \in 1..(Len(u) + 1) : i \in 1..(Len(us) + Len(v)) /\ i <= Len(us)
        BY <1>1, <1>3
    <2> QED
        BY <1>5, <2>1
<1>7. ASSUME NEW j \in 1..Len(v)
      PROVE  w[Len(u) + 1 + j] = v[j]
    <2>1. /\ Len(u) + 1 + j \in 1..(Len(us) + Len(v)) /\ ~(Len(u) + 1 + j <= Len(us))
          /\ (Len(u) + 1 + j) - Len(us) = j
        BY <1>1, <1>3
    <2> QED
        BY <1>5, <2>1
<1>8. Len(u) + 1 \in 1..(Len(u) + 1) /\ \A i \in 1..Len(u) : i \in 1..(Len(u) + 1)
    BY <1>1
<1>9. \A i \in 1..Len(u) : w[i] = u[i]
    BY <1>4, <1>6, <1>8
<1>10. w[Len(u) + 1] = Slash
    BY <1>4, <1>6, <1>8
<1>11. Len(w) = Len(u) + 1 + Len(v)
    BY <1>1, <1>3, <1>5
<1> QED
    BY <1>5, <1>7, <1>9, <1>10, <1>11 DEF w, us

(* The text s begins with u; behind its first o characters stands a name.   *)
Begins(s, u) == Len(u) <= Len(s) /\ \A i \in 1..Len(u) : s[i] = u[i]

NameAt(s, o, name) ==
    /\ o + 1 + Len(name) <= Len(s)
    /\ s[o + 1] = Slash
    /\ \A j \in 1..Len(name) : s[o + 1 + j] = name[j]

(* Where the names stand in the text of a path.                             *)
LEMMA Layout ==
    ASSUME NEW m \in Nat, NEW path \in [1..m -> Seq(Nat)], NEW t \in [0..m -> Seq(Nat)],
           Grows(t, path, m), NEW s \in Seq(Nat), Begins(s, t[m])
    PROVE  \A k \in 1..m : /\ Len(t[k - 1]) \in Nat
                           /\ Len(t[k]) = Len(t[k - 1]) + 1 + Len(path[k])
                           /\ NameAt(s, Len(t[k - 1]), path[k])
                           /\ Begins(s, t[k - 1])
<1> DEFINE C(k) == Begins(s, t[k])
<1>0. Len(s) \in Nat
    BY LenProperties
<1>1. ASSUME NEW k \in 1..m
      PROVE  /\ Len(t[k - 1]) \in Nat /\ Len(path[k]) \in Nat
             /\ Len(t[k]) = Len(t[k - 1]) + 1 + Len(path[k])
             /\ \A i \in 1..Len(t[k - 1]) : t[k][i] = t[k - 1][i]
             /\ t[k][Len(t[k - 1]) + 1] = Slash
             /\ \A j \in 1..Len(path[k]) : t[k][Len(t[k - 1]) + 1 + j] = path[k][j]
    <2>1. t[k - 1] \in Seq(Nat) /\ path[k] \in Seq(Nat)
        OBVIOUS
    <2> DEFINE u == t[k - 1]
               v == path[k]
    <2>2. t[k] = (u \o <<Slash>>) \o v
        BY DEF Grows
    <2>3. u \in Seq(Nat) /\ v \in Seq(Nat)
        BY <2>1
    <2> HIDE DEF u, v
    <2>4. Len(u) \in Nat /\ Len(v) \in Nat
        BY <2>3, LenProperties
    <2> DEFINE w == (u \o <<Slash>>) \o v
    <2>5. /\ Len(w) = Len(u) + 1 + Len(v)
          /\ \A i \in 1..Len(u) : w[i] = u[i]
          /\ w[Len(u) + 1] = Slash
          /\ \A j \in 1..Len(v) : w[Len(u) + 1 + j] = v[j]
        BY <2>3, NameBehind
    <2> HIDE DEF w
    <2>6. t[k] = w
        BY <2>2 DEF w
    <2> QED
        BY <2>4, <2>5, <2>6 DEF u, v
<1>2. ASSUME NEW k \in 1..m, C(k)
      PROVE  C(k - 1)
    <2>0. /\ Len(t[k - 1]) \in Nat /\ Len(path[k]) \in Nat /\ Len(t[k]) <= Len(s)
          /\ Len(t[k]) = Len(t[k - 1]) + 1 + Len(path[k])
        BY <1>1, <1>2 DEF Begins
    <2>1. Len(t[k - 1]) <= Len(s) /\ Len(t[k - 1]) <= Len(t[k]) /\ Len(t[k]) \in Nat
        BY <1>0, <2>0
    <2>2. ASSUME NEW i \in 1..Len(t[k - 1])
          PROVE  s[i] = t[k - 1][i]
        <3>1. i \in 1..Len(t[k])
            BY <2>0, <2>1
        <3> QED
            BY <1>1, <1>2, <3>1 DEF Begins
    <2> QED
        BY <2>1, <2>2 DEF Begins
<1>3. \A k \in 0..m : C(k)
    <2> DEFINE T == {i \in 0..m : C(m - i)}
    <2>1. 0 \in T
        <3>1. m - 0 = m /\ 0 \in 0..m
            OBVIOUS
        <3> QED
            BY <3>1
    <2>2. ASSUME NEW i \in 0..(m - 1), i \in T
          PROVE  i + 1 \in T
        <3>1. m - i \in 1..m /\ (m - i) - 1 = m - (i + 1) /\ i + 1 \in 0..m
            OBVIOUS
        <3> HIDE DEF C
        <3>2. C(m - (i + 1))
            BY <1>2, <2>2, <3>1
        <3> QED
            BY <3>1, <3>2
    <2> HIDE DEF T, C
    <2>3. \A i \in 0..m : i \in T
        BY <2>1, <2>2, Induction
    <2>4. \A k \in 0..m : m - k \in 0..m /\ m - (m - k) = k
        OBVIOUS
    <2> QED
        BY <2>3, <2>4 DEF T
<1>4. ASSUME NEW k \in 1..m
      PROVE  NameAt(s, Len(t[k - 1]), path[k])
    <2>1. Len(t[k]) <= Len(s) /\ \A i \in 1..Len(t[k]) : s[i] = t[k][i]
        BY <1>3 DEF Begins
    <2>0. /\ Len(t[k - 1]) \in Nat /\ Len(path[k]) \in Nat
          /\ Len(t[k]) = Len(t[k - 1]) + 1 + Len(path[k])
        BY <1>1
    <2>2. Len(t[k - 1]) + 1 \in 1..Len(t[k])
        BY <2>0
    <2>3. \A j \in 1..Len(path[k]) : Len(t[k - 1]) + 1 + j \in 1..Len(t[k])
        BY <2>0
    <2> HIDE DEF C
    <2> QED
        BY <1>1, <2>0, <2>1, <2>2, <2>3 DEF NameAt
<1>5. \A k \in 1..m : Begins(s, t[k - 1])
    <2>1. \A k \in 1..m : k - 1 \in 0..m
        OBVIOUS
    <2> QED
        BY <1>3, <2>1
<1> HIDE DEF C
<1> QED
    BY <1>1, <1>4, <1>5

(* A slash and a name behind the names read so far are one name more.       *)
LEMMA OneNameMore ==
    ASSUME NEW s \in Seq(Nat), NEW g, Reads(g, s),
           NEW name \in Name, NEW o \in Nat, NameAt(s, o, name), g[o] \in Seq(Seq(Nat))
    PROVE  g[o + 1 + Len(name)] = Append(g[o], name)
<1> SUFFICES ASSUME NEW A \in Seq(Seq(Nat)), g[o] = A
             PROVE  g[o + 1 + Len(name)] = Append(A, name)
    OBVIOUS
<1> DEFINE n == Len(name)
           Q == Seq(Nat)
<1>1. name \in Q /\ n \in Nat /\ n >= 1 /\ Len(s) \in Nat /\ \A j \in 1..n : name[j] # Slash
    BY EmptySeq, LenProperties DEF Name
<1>0. o + 1 + n <= Len(s) /\ s[o + 1] = Slash /\ \A j \in 1..n : s[o + 1 + j] = name[j]
    BY DEF NameAt
<1>2. g[o + 1] = A
    <2>1. o + 1 \in 1..Len(s) /\ (o + 1) - 1 = o
        BY <1>0, <1>1
    <2> QED
        BY <1>0, <2>1 DEF NextNames, Reads
<1> DEFINE T == {j \in 0..(n - 1) : g[o + 2 + j] = Append(A, SubSeq(name, 1, j + 1))}
<1>3. 0 \in T
    <2>1. /\ o + 2 \in 1..Len(s) /\ (o + 2) - 1 = o + 1 /\ o + 2 # 1 /\ o + 1 + 1 = o + 2 /\ o + 2 + 0 = o + 2
          /\ 1 \in 1..n /\ 0 \in 0..(n - 1) /\ 0 + 1 = 1
        BY <1>0, <1>1
    <2>2. s[o + 2] = name[1] /\ name[1] # Slash
        BY <1>0, <1>1, <2>1
    <2>3. g[o + 2] = NextNames(s, A, o + 2)
        BY <1>2, <2>1 DEF Reads
    <2>5. g[o + 2] = Append(A, <<name[1]>>)
        BY <1>0, <2>1, <2>2, <2>3 DEF NextNames
    <2>4. <<name[1]>> = SubSeq(name, 1, 1)
        BY <1>1, <2>1
    <2> QED
        BY <2>1, <2>4, <2>5
<1>4. ASSUME NEW j \in 0..((n - 1) - 1), j \in T
      PROVE  j + 1 \in T
    <2>0. n \in Nat /\ Len(s) \in Nat /\ o + 1 + n <= Len(s) /\ j \in Nat /\ j + 2 <= n
        BY <1>0, <1>1
    <2>1. /\ j \in 0..(n - 1) /\ j + 1 \in 0..(n - 1) /\ j + 1 \in 1..n /\ j + 2 \in 1..n /\ (j + 1) + 1 = j + 2
          /\ o + 3 + j \in 1..Len(s) /\ (o + 3 + j) - 1 = o + 2 + j /\ o + 3 + j # 1
          /\ o + 1 + (j + 1) = o + 2 + j /\ o + 1 + (j + 2) = o + 3 + j /\ o + 2 + (j + 1) = o + 3 + j
        <3> HIDE DEF n, T
        <3> QED
            BY <2>0
    <2>2. s[o + 2 + j] # Slash /\ s[o + 3 + j] # Slash /\ s[o + 3 + j] = name[j + 2]
        BY <1>0, <1>1, <2>1
    <2> DEFINE B == SubSeq(name, 1, j + 1)
    <2>3. g[o + 2 + j] = Append(A, B)
        BY <1>4
    <2>4. B \in Q /\ Append(B, name[j + 2]) = SubSeq(name, 1, j + 2)
        BY <1>1, <2>1, SubSeqNext
    <2> HIDE DEF B, Q
    <2>5. Front(Append(A, B)) = A /\ Last(Append(A, B)) = B
        BY <2>4, FrontLast DEF Q
    <2>6. g[o + 3 + j] = NextNames(s, g[o + 2 + j], o + 3 + j)
        BY <2>1 DEF Reads
    <2>7. g[o + 3 + j] = Append(Front(g[o + 2 + j]), Append(Last(g[o + 2 + j]), name[j + 2]))
        BY <2>1, <2>2, <2>6 DEF NextNames
    <2>8. g[o + 3 + j] = Append(A, SubSeq(name, 1, j + 2))
        BY <2>3, <2>4, <2>5, <2>7
    <2> QED
        BY <2>1, <2>8
<1>5. n - 1 \in T
    <2> HIDE DEF T, n
    <2>1. n - 1 \in Nat
        BY <1>1
    <2> DEFINE p == n - 1
    <2>2. p \in Nat /\ \A j \in 0..(p - 1) : j \in T => j + 1 \in T
        BY <1>4, <2>1
    <2> HIDE DEF p
    <2>3. \A j \in 0..p : j \in T
        BY <1>3, <2>2, Induction
    <2>4. p \in T
        BY <2>2, <2>3
    <2> QED
        BY <2>4 DEF p
<1>6. o + 2 + (n - 1) = o + 1 + n /\ (n - 1) + 1 = n
    BY <1>1
<1>7. SubSeq(name, 1, n) = name
    BY <1>1, SubSeqFull
<1> QED
    BY <1>5, <1>6, <1>7

(* The path of a hit leads back to where its entry is: Elements undoes      *)
(* PathText, and a path that ends in a slash is a directory's.              *)
LEMMA ElementsOfText ==
    ASSUME NEW e, e.dir \in Seq(Name), e.name \in Name
    PROVE  /\ Elements(PathText(e)) = PathOf(e)
           /\ PathText(e)[Len(PathText(e))] = Slash <=> e.isDir
<1> DEFINE path == PathOf(e)
           m == Len(path)
           s == PathText(e)
           end == IF e.isDir THEN <<Slash>> ELSE <<>>
<1>1. path \in Seq(Name) /\ m \in Nat \ {0} /\ \A k \in 1..m : path[k] \in Name
    BY PathIsNames
<1>2. PICK t \in [0..m -> Seq(Nat)] :
        /\ t[0] = <<>>
        /\ Grows(t, path, m)
        /\ s = t[m] \o end
    BY TextOfPath
<1> HIDE DEF path, s
<1>3. end \in Seq(Nat) /\ Len(end) = (IF e.isDir THEN 1 ELSE 0) /\ (e.isDir => end[1] = Slash)
    BY DEF Slash
<1> HIDE DEF end
<1>4. /\ t[m] \in Seq(Nat) /\ Len(t[m]) \in Nat
      /\ s \in Seq(Nat) /\ Len(s) = Len(t[m]) + Len(end)
      /\ \A i \in 1..(Len(t[m]) + Len(end)) : s[i] = IF i <= Len(t[m]) THEN t[m][i] ELSE end[i - Len(t[m])]
    <2>1. t[m] \in Seq(Nat)
        BY <1>1, <1>2
    <2> DEFINE u == t[m]
    <2>2. u \in Seq(Nat) /\ s = u \o end
        BY <1>2, <2>1
    <2> HIDE DEF u
    <2>3. /\ Len(u) \in Nat
          /\ s \in Seq(Nat) /\ Len(s) = Len(u) + Len(end)
          /\ \A i \in 1..(Len(u) + Len(end)) : s[i] = IF i <= Len(u) THEN u[i] ELSE end[i - Len(u)]
        BY <1>3, <2>2, ConcatProperties, LenProperties
    <2> QED
        BY <2>1, <2>3 DEF u
<1>5. Begins(s, t[m])
    <2>1. Len(end) \in Nat
        BY <1>3, LenProperties
    <2>2. Len(t[m]) <= Len(s) /\ \A i \in 1..Len(t[m]) : i \in 1..(Len(t[m]) + Len(end)) /\ i <= Len(t[m])
        BY <1>4, <2>1
    <2> QED
        BY <1>4, <2>2 DEF Begins
<1>6. path \in [1..m -> Seq(Nat)]
    BY <1>1, LenProperties DEF Name
<1>7. \A k \in 1..m : /\ Len(t[k - 1]) \in Nat
                      /\ Len(t[k]) = Len(t[k - 1]) + 1 + Len(path[k])
                      /\ NameAt(s, Len(t[k - 1]), path[k])
    <2> HIDE DEF m
    <2>1. m \in Nat /\ s \in Seq(Nat)
        BY <1>1, <1>4
    <2> QED
        BY <1>2, <1>5, <1>6, <2>1, Layout
<1>8. PICK g : g[0] = <<>> /\ Reads(g, s) /\ Elements(s) = g[Len(s)]
    BY <1>4, NamesOfText
<1> DEFINE T == {k \in 0..m : g[Len(t[k])] = SubSeq(path, 1, k)}
<1>9. 0 \in T
    <2>1. Len(t[0]) = 0 /\ SubSeq(path, 1, 0) = <<>> /\ 0 \in 0..m
        BY <1>1, <1>2, EmptySeq, SubSeqEmpty
    <2> QED
        BY <1>8, <2>1
<1>10. ASSUME NEW k \in 0..(m - 1), k \in T
       PROVE  k + 1 \in T
    <2>1. k + 1 \in 1..m /\ (k + 1) - 1 = k /\ k + 1 \in 0..m /\ k \in 0..(m - 1)
        BY <1>1
    <2> DEFINE o == Len(t[k])
               name == path[k + 1]
               A == SubSeq(path, 1, k)
    <2>2. o \in Nat /\ name \in Name /\ Len(t[k + 1]) = o + 1 + Len(name) /\ NameAt(s, o, name)
        BY <1>1, <1>7, <2>1
    <2>3. g[o] = A
        BY <1>10
    <2>4. A \in Seq(Name) /\ Append(A, name) = SubSeq(path, 1, k + 1)
        BY <1>1, <2>1, SubSeqNext
    <2>5. A \in Seq(Seq(Nat))
        BY <2>4, SeqMonotonic DEF Name
    <2> HIDE DEF o, name, A
    <2>6. s \in Seq(Nat) /\ Reads(g, s) /\ name \in Name /\ o \in Nat /\ NameAt(s, o, name) /\ g[o] \in Seq(Seq(Nat))
        BY <1>4, <1>8, <2>2, <2>3, <2>5
    <2>7. g[o + 1 + Len(name)] = Append(g[o], name)
        BY <2>6, OneNameMore
    <2> QED
        BY <2>1, <2>2, <2>3, <2>4, <2>7 DEF o
<1>11. g[Len(t[m])] = path
    <2>1. \A k \in 0..m : k \in T
        <3> HIDE DEF T, m
        <3> QED
            BY <1>1, <1>9, <1>10, Induction
    <2>2. SubSeq(path, 1, m) = path
        BY <1>1, SubSeqFull
    <2>3. m \in 0..m
        BY <1>1
    <2> QED
        BY <2>1, <2>2, <2>3
<1>12. CASE e.isDir
    <2>1. /\ Len(s) = Len(t[m]) + 1 /\ Len(s) \in 1..Len(s) /\ Len(s) - 1 = Len(t[m])
          /\ ~(Len(s) <= Len(t[m])) /\ Len(s) - Len(t[m]) = 1
        BY <1>3, <1>4, <1>12
    <2>2. s[Len(s)] = Slash
        BY <1>3, <1>4, <1>12, <2>1
    <2>3. g[Len(s)] = path
        BY <1>8, <1>11, <2>1, <2>2 DEF NextNames, Reads
    <2> QED
        BY <1>8, <1>12, <2>2, <2>3 DEF path, s
<1>13. CASE ~e.isDir
    <2>1. Len(s) = Len(t[m])
        BY <1>3, <1>4, <1>13
    <2>2. s[Len(s)] # Slash
        <3> DEFINE name == path[m]
                   o == Len(t[m - 1])
        <3>1. m \in 1..m
            BY <1>1
        <3>2. name \in Name /\ o \in Nat /\ Len(t[m]) = o + 1 + Len(name) /\ \A j \in 1..Len(name) : s[o + 1 + j] = name[j]
            BY <1>1, <1>7, <3>1 DEF NameAt
        <3> HIDE DEF name, o
        <3>3. Len(name) \in Nat \ {0} /\ \A j \in 1..Len(name) : name[j] # Slash
            BY <3>2, EmptySeq DEF Name
        <3>4. Len(name) \in 1..Len(name)
            BY <3>3
        <3> QED
            BY <2>1, <3>2, <3>3, <3>4
    <2> QED
        BY <1>8, <1>11, <1>13, <2>1, <2>2 DEF path, s
<1> QED
    BY <1>12, <1>13

(* The entry of the remote that a hit stands for, as the pages show it.     *)
AsHit(x) ==
    [dir |-> x.dir, name |-> x.name, isDir |-> x.isDir, modTime |-> x.modTime,
     size |-> IF x.isDir THEN 0 ELSE x.size]

(* A hit shows an entry of the remote.                                      *)
LEMMA HitIsEntry ==
    ASSUME IsTree(remote), NEW hit, hit.entry \in GetAllFiles
    PROVE  \E x \in remote : HitEntry(hit) = AsHit(x) /\ hit.entry.path = PathText(x)
<1>1. PICK x \in remote :
        hit.entry = [path |-> PathText(x), isDir |-> x.isDir, modTime |-> x.modTime,
                     size |-> IF x.isDir THEN 0 ELSE x.size]
    BY DEF GetAllFiles
<1>2. x.dir \in Seq(Name) /\ x.name \in Name
    BY DEF IsTree
<1>3. Elements(hit.entry.path) = PathOf(x)
    BY <1>1, <1>2, ElementsOfText
<1>4. Front(PathOf(x)) = x.dir /\ Last(PathOf(x)) = x.name
    BY <1>2, PathIsNames
<1> QED
    BY <1>1, <1>3, <1>4 DEF HitEntry, AsHit

(* Entries of the remote with the same path are alike.                      *)
LEMMA SamePath ==
    ASSUME IsTree(remote), NEW x \in remote, NEW y \in remote, PathText(x) = PathText(y)
    PROVE  x.dir = y.dir /\ x.name = y.name /\ x.isDir = y.isDir
<1>1. /\ x.dir \in Seq(Name) /\ x.name \in Name /\ x.isDir \in BOOLEAN
      /\ y.dir \in Seq(Name) /\ y.name \in Name /\ y.isDir \in BOOLEAN
    BY DEF IsTree
<1>2. PathOf(x) = PathOf(y) /\ (x.isDir <=> y.isDir)
    BY <1>1, ElementsOfText
<1>3. /\ Front(PathOf(x)) = x.dir /\ Last(PathOf(x)) = x.name
      /\ Front(PathOf(y)) = y.dir /\ Last(PathOf(y)) = y.name
    BY <1>1, PathIsNames
<1> QED
    BY <1>1, <1>2, <1>3

(* The index has finitely many entries.                                     *)
LEMMA FilesAreFinite ==
    ASSUME IsTree(remote)
    PROVE  IsFiniteSet(GetAllFiles)
<1> DEFINE f == [e \in remote |-> [path |-> PathText(e), isDir |-> e.isDir, modTime |-> e.modTime,
                                   size |-> IF e.isDir THEN 0 ELSE e.size]]
<1>1. f \in [remote -> GetAllFiles] /\ \A x \in GetAllFiles : \E e \in remote : f[e] = x
    BY DEF GetAllFiles
<1> HIDE DEF f
<1> QED
    BY <1>1, FiniteImage DEF IsTree

-----------------------------------------------------------------------------
(* Words *)

(* A letter or digit.                                                       *)
IsAlnum(ch) == isDigit(ch) \/ IsLetter(ch)

IsLowerAlnum(ch) == isDigit(ch) \/ ch \in 97..122

(* The words of the index and of a search.                                  *)
SearchWord == {w \in Seq(Nat) : Len(w) >= MinPrefixLen /\ \A k \in 1..Len(w) : IsLowerAlnum(w[k])}

(* Lower case leaves separators, digits and small letters alone.            *)
LEMMA Characters ==
    ASSUME NEW ch \in Nat
    PROVE  /\ Lower(ch) \in Nat
           /\ IsAlnum(ch) => IsLowerAlnum(Lower(ch))
           /\ IsSeparator(ch) => Lower(ch) = ch /\ ~IsAlnum(ch)
           /\ IsLowerAlnum(ch) => ~IsSeparator(ch) /\ IsAlnum(ch) /\ Lower(ch) = ch
    BY DEF Lower, IsAlnum, IsLowerAlnum, IsSeparator, IsLetter, IsUpper, isDigit, Zero, Slash, Dot, Space

(* Bare and splitToNormalizedWords read a text from left to right.          *)
NextBare(b, ch) == IF IsAlnum(ch) \/ IsSeparator(ch) THEN Append(b, Lower(ch)) ELSE b

Finished(acc) ==
    [word |-> <<>>, res |-> IF Len(acc.word) >= MinPrefixLen THEN Append(acc.res, acc.word) ELSE acc.res]

NextWord(acc, ch) ==
    IF IsSeparator(ch) THEN Finished(acc)
    ELSE IF IsAlnum(ch) THEN [word |-> Append(acc.word, Lower(ch)), res |-> acc.res]
    ELSE acc

BareRuns(b, v) ==
    /\ b[0] = <<>>
    /\ \A k \in 1..Len(v) : b[k] = NextBare(b[k - 1], v[k])
    /\ \A k \in 0..Len(v) : b[k] \in Seq(Nat)
    /\ Bare(v) = b[Len(v)]

Acc == [word : Seq(Nat), res : Seq(Seq(Nat))]

WordsRun(r, v) ==
    /\ r[0] = [word |-> <<>>, res |-> <<>>]
    /\ \A k \in 1..Len(v) : r[k] = NextWord(r[k - 1], v[k])
    /\ \A k \in 0..Len(v) : r[k] \in Acc
    /\ splitToNormalizedWords(v) = Finished(r[Len(v)]).res

(* Bare reads a text from left to right.                                    *)
LEMMA BareRead ==
    ASSUME NEW v \in Seq(Nat)
    PROVE  \E b : BareRuns(b, v)
<1> DEFINE n == Len(v)
           Q == Seq(Nat)
           e == <<>>
           bare[k \in 0..Len(v)] ==
               IF k = 0 THEN <<>>
               ELSE IF isDigit(v[k]) \/ IsLetter(v[k]) \/ IsSeparator(v[k])
                      THEN Append(bare[k - 1], Lower(v[k]))
               ELSE bare[k - 1]
           step == [p \in Q \X (1..n) |-> NextBare(p[1], v[p[2]])]
<1>1. n \in Nat /\ \A k \in 1..n : v[k] \in Nat
    BY LenProperties, ElementOfSeq
<1>2. ASSUME NEW k \in 1..n, NEW x \in Q
      PROVE  step[<<x, k>>] = NextBare(x, v[k]) /\ NextBare(x, v[k]) \in Q
    <2>1. Append(x, Lower(v[k])) \in Q
        BY <1>1, Characters, AppendProperties
    <2> QED
        BY <2>1 DEF NextBare
<1>3. PICK f \in [0..n -> Q] : Computes(f, e, step, n)
    <2>1. n \in Nat /\ e \in Q /\ step \in [Q \X (1..n) -> Q]
        BY <1>1, <1>2, EmptySeq
    <2> HIDE DEF step, n, e, Q
    <2> QED
        BY <2>1, TypedRecursion
<1>4. \A k \in 1..n : f[k] = NextBare(f[k - 1], v[k])
    <2> SUFFICES ASSUME NEW k \in 1..n
                 PROVE  f[k] = NextBare(f[k - 1], v[k])
        OBVIOUS
    <2> HIDE DEF step, Q, n
    <2>0. k - 1 \in 0..n
        BY <1>1
    <2>1. f[k - 1] \in Q
        BY <2>0
    <2>2. f[k] = step[<<f[k - 1], k>>]
        BY <1>3 DEF Computes
    <2>3. step[<<f[k - 1], k>>] = NextBare(f[k - 1], v[k])
        BY <1>2, <2>1
    <2> QED
        BY <2>2, <2>3
<1>5. f = [k \in 0..Len(v) |->
             IF k = 0 THEN <<>>
             ELSE IF isDigit(v[k]) \/ IsLetter(v[k]) \/ IsSeparator(v[k])
                    THEN Append(f[k - 1], Lower(v[k]))
             ELSE f[k - 1]]
    <2>1. \A k \in 0..n : k # 0 => k \in 1..n
        BY <1>1
    <2> QED
        BY <1>3, <1>4, <2>1 DEF Computes, NextBare, IsAlnum
<1>6. bare = [k \in 0..Len(v) |->
             IF k = 0 THEN <<>>
             ELSE IF isDigit(v[k]) \/ IsLetter(v[k]) \/ IsSeparator(v[k])
                    THEN Append(bare[k - 1], Lower(v[k]))
             ELSE bare[k - 1]]
    BY <1>5
<1>7. Bare(v) = bare[n]
    BY DEF Bare
<1> HIDE DEF bare, step
<1>8. bare[0] = <<>>
    BY <1>1, <1>6
<1>9. \A k \in 1..n : bare[k] = NextBare(bare[k - 1], v[k])
    <2>1. \A k \in 1..n : k \in 0..n /\ k # 0
        BY <1>1
    <2> QED
        BY <1>6, <2>1 DEF NextBare, IsAlnum
<1>10. \A k \in 0..n : bare[k] \in Q
    <2> DEFINE T == {k \in 0..n : bare[k] \in Q}
    <2>1. 0 \in T
        <3>1. 0 \in 0..n
            BY <1>1
        <3>2. bare[0] \in Q
            BY <1>8, EmptySeq
        <3> QED
            BY <3>1, <3>2
    <2>2. ASSUME NEW k \in 0..(n - 1), k \in T
          PROVE  k + 1 \in T
        <3>1. k + 1 \in 1..n /\ k + 1 \in 0..n /\ (k + 1) - 1 = k
            BY <1>1
        <3>2. bare[k + 1] = NextBare(bare[k], v[k + 1])
            BY <1>9, <3>1
        <3> QED
            BY <1>2, <2>2, <3>1, <3>2
    <2> HIDE DEF T
    <2>3. \A k \in 0..n : k \in T
        BY <1>1, <2>1, <2>2, Induction
    <2> QED
        BY <2>3 DEF T
<1>11. BareRuns(bare, v)
    BY <1>7, <1>8, <1>9, <1>10 DEF BareRuns
<1> QED
    BY <1>11

(* A turn of splitToNormalizedWords yields words.                           *)
LEMMA NextWordTyped ==
    ASSUME NEW acc \in Acc, NEW ch \in Nat
    PROVE  Finished(acc) \in Acc /\ NextWord(acc, ch) \in Acc
<1>1. acc.word \in Seq(Nat) /\ acc.res \in Seq(Seq(Nat)) /\ <<>> \in Seq(Nat)
    BY EmptySeq DEF Acc
<1>2. Append(acc.word, Lower(ch)) \in Seq(Nat)
    BY <1>1, Characters, AppendProperties
<1>3. Append(acc.res, acc.word) \in Seq(Seq(Nat))
    <2> DEFINE Q == Seq(Nat)
    <2>1. acc.res \in Seq(Q) /\ acc.word \in Q
        BY <1>1
    <2> HIDE DEF Q
    <2>2. Append(acc.res, acc.word) \in Seq(Q)
        BY <2>1, AppendProperties
    <2> QED
        BY <2>2 DEF Q
<1>4. Finished(acc) \in Acc
    BY <1>1, <1>3 DEF Finished, Acc
<1> QED
    BY <1>1, <1>2, <1>4 DEF NextWord, Acc

(* splitToNormalizedWords reads a text from left to right.                  *)
LEMMA WordsRead ==
    ASSUME NEW v \in Seq(Nat)
    PROVE  \E r : WordsRun(r, v)
<1> DEFINE n == Len(v)
           e == [word |-> <<>>, res |-> <<>>]
           appendWord(acc) ==
               [word |-> <<>>, res |-> IF Len(acc.word) >= MinPrefixLen THEN Append(acc.res, acc.word) ELSE acc.res]
           nextOf(acc, r) ==
               IF IsSeparator(r) THEN appendWord(acc)
               ELSE IF isDigit(r) \/ IsLetter(r) THEN [word |-> Append(acc.word, Lower(r)), res |-> acc.res]
               ELSE acc
           read[k \in 0..Len(v)] ==
               IF k = 0 THEN [word |-> <<>>, res |-> <<>>] ELSE nextOf(read[k - 1], v[k])
           step == [p \in Acc \X (1..n) |-> NextWord(p[1], v[p[2]])]
<1>0. \A acc, r : nextOf(acc, r) = NextWord(acc, r) /\ appendWord(acc) = Finished(acc)
    BY DEF NextWord, Finished, IsAlnum
<1>1. n \in Nat /\ \A k \in 1..n : v[k] \in Nat
    BY LenProperties, ElementOfSeq
<1>2. ASSUME NEW k \in 1..n, NEW x \in Acc
      PROVE  step[<<x, k>>] = NextWord(x, v[k]) /\ NextWord(x, v[k]) \in Acc
    BY <1>1, NextWordTyped
<1>3. PICK f \in [0..n -> Acc] : Computes(f, e, step, n)
    <2>0. e \in Acc
        BY EmptySeq DEF Acc
    <2>1. n \in Nat /\ e \in Acc /\ step \in [Acc \X (1..n) -> Acc]
        BY <1>1, <1>2, <2>0
    <2> HIDE DEF step, n, e
    <2> QED
        BY <2>1, TypedRecursion
<1>4. \A k \in 1..n : f[k] = NextWord(f[k - 1], v[k])
    <2> SUFFICES ASSUME NEW k \in 1..n
                 PROVE  f[k] = NextWord(f[k - 1], v[k])
        OBVIOUS
    <2>1. f[k - 1] \in Acc
        BY <1>1
    <2> HIDE DEF step
    <2> QED
        BY <1>2, <1>3, <2>1 DEF Computes
<1>5. f = [k \in 0..Len(v) |->
             IF k = 0 THEN [word |-> <<>>, res |-> <<>>] ELSE nextOf(f[k - 1], v[k])]
    <2>1. \A k \in 0..n : k # 0 => k \in 1..n
        BY <1>1
    <2> HIDE DEF nextOf
    <2> QED
        BY <1>0, <1>3, <1>4, <2>1 DEF Computes
<1>6. read = [k \in 0..Len(v) |->
             IF k = 0 THEN [word |-> <<>>, res |-> <<>>] ELSE nextOf(read[k - 1], v[k])]
    <2> HIDE DEF nextOf
    <2> QED
        BY <1>5
<1>7. splitToNormalizedWords(v) = Finished(read[n]).res
    BY DEF splitToNormalizedWords, Finished
<1> HIDE DEF read, step, nextOf
<1>8. read[0] = e
    BY <1>1, <1>6
<1>9. \A k \in 1..n : read[k] = NextWord(read[k - 1], v[k])
    <2>1. \A k \in 1..n : k \in 0..n /\ k # 0
        BY <1>1
    <2> QED
        BY <1>0, <1>6, <2>1
<1>10. \A k \in 0..n : read[k] \in Acc
    <2> DEFINE T == {k \in 0..n : read[k] \in Acc}
    <2>1. 0 \in T
        <3>1. 0 \in 0..n
            BY <1>1
        <3>2. read[0] \in Acc
            BY <1>8, EmptySeq DEF Acc
        <3> QED
            BY <3>1, <3>2
    <2>2. ASSUME NEW k \in 0..(n - 1), k \in T
          PROVE  k + 1 \in T
        <3>1. k + 1 \in 1..n /\ k + 1 \in 0..n /\ (k + 1) - 1 = k
            BY <1>1
        <3>2. read[k + 1] = NextWord(read[k], v[k + 1])
            BY <1>9, <3>1
        <3> QED
            BY <1>2, <2>2, <3>1, <3>2
    <2> HIDE DEF T
    <2>3. \A k \in 0..n : k \in T
        BY <1>1, <2>1, <2>2, Induction
    <2> QED
        BY <2>3 DEF T
<1>11. WordsRun(read, v)
    BY <1>7, <1>8, <1>9, <1>10 DEF WordsRun
<1> QED
    BY <1>11

(* Text of letters and digits in lower case.                                *)
Terms == {p \in Seq(Nat) : \A k \in 1..Len(p) : IsLowerAlnum(p[k])}

(* A word begins with p behind the place j.                                 *)
At(b, p, j) ==
    /\ j + Len(p) <= Len(b)
    /\ \A i \in 1..Len(p) : b[j + i] = p[i]
    /\ j = 0 \/ IsSeparator(b[j])

(* A word that begins somewhere.                                            *)
LEMMA BeginsAt ==
    ASSUME NEW b \in Seq(Nat), NEW p \in Seq(Nat)
    PROVE  WordBegins(b, p) <=> \E j \in Nat : At(b, p, j)
<1>1. Len(b) \in Nat /\ Len(p) \in Nat /\ \A k \in 1..Len(b) : b[k] \in Nat
    BY LenProperties, ElementOfSeq
<1>2. ASSUME NEW k \in Nat, k + Len(p) <= Len(b)
      PROVE  SubSeq(b, k + 1, k + Len(p)) = p <=> \A i \in 1..Len(p) : b[k + i] = p[i]
    <2> DEFINE x == SubSeq(b, k + 1, k + Len(p))
    <2>1. \A i \in (k + 1)..(k + Len(p)) : b[i] \in Nat
        BY <1>1, <1>2
    <2>2. k + 1 \in Int /\ k + Len(p) \in Int /\ (k + Len(p)) - (k + 1) + 1 = Len(p)
        BY <1>1
    <2>3. /\ x \in Seq(Nat)
          /\ Len(x) = IF k + 1 <= k + Len(p) THEN (k + Len(p)) - (k + 1) + 1 ELSE 0
          /\ \A i \in 1..((k + Len(p)) - (k + 1) + 1) : x[i] = b[k + 1 + i - 1]
        BY <2>1, <2>2, SubSeqProperties
    <2>4. Len(x) = Len(p)
        BY <1>1, <2>2, <2>3
    <2>5. \A i \in 1..Len(p) : x[i] = b[k + i]
        <3>1. \A i \in 1..Len(p) : k + 1 + i - 1 = k + i
            OBVIOUS
        <3> QED
            BY <2>2, <2>3, <3>1
    <2> HIDE DEF x
    <2>6. x = p <=> \A i \in 1..Len(p) : x[i] = p[i]
        BY <2>3, <2>4, SeqEqual
    <2> QED
        BY <2>5, <2>6 DEF x
<1>3. \A k : k \in 0..(Len(b) - Len(p)) <=> k \in Nat /\ k + Len(p) <= Len(b)
    BY <1>1
<1> QED
    BY <1>2, <1>3 DEF WordBegins, At

(* What begins in a text does so in a longer one, unless it ends with it.   *)
LEMMA AtAppend ==
    ASSUME NEW b \in Seq(Nat), NEW ch \in Nat, NEW p \in Seq(Nat), NEW j \in Nat
    PROVE  /\ At(b, p, j) => At(Append(b, ch), p, j)
           /\ At(Append(b, ch), p, j) /\ j + Len(p) <= Len(b) => At(b, p, j)
<1> DEFINE c == Append(b, ch)
<1>1. Len(b) \in Nat /\ Len(p) \in Nat
    BY LenProperties
<1>2. Len(c) = Len(b) + 1 /\ \A i \in 1..Len(b) : c[i] = b[i]
    BY AppendProperties
<1> HIDE DEF c
<1> SUFFICES ASSUME j + Len(p) <= Len(b)
             PROVE  At(b, p, j) <=> At(c, p, j)
    BY <1>1 DEF At, c
<1>3. \A i \in 1..Len(p) : c[j + i] = b[j + i]
    <2>1. \A i \in 1..Len(p) : j + i \in 1..Len(b)
        BY <1>1
    <2> QED
        BY <1>2, <2>1
<1>4. j = 0 \/ c[j] = b[j]
    <2>1. j = 0 \/ j \in 1..Len(b)
        BY <1>1
    <2> QED
        BY <1>2, <2>1
<1>5. j + Len(p) <= Len(c)
    BY <1>1, <1>2
<1>6. (j = 0 \/ IsSeparator(c[j])) <=> (j = 0 \/ IsSeparator(b[j]))
    BY <1>4
<1>7. (\A i \in 1..Len(p) : c[j + i] = p[i]) <=> \A i \in 1..Len(p) : b[j + i] = p[i]
    BY <1>3
<1> QED
    BY <1>5, <1>6, <1>7 DEF At

(* A longer word begins like the word.                                      *)
LEMMA StartsAppend ==
    ASSUME NEW p \in Seq(Nat), NEW w \in Seq(Nat), NEW ch \in Nat, Starts(p, w)
    PROVE  Starts(p, Append(w, ch))
<1>1. Len(p) \in Nat /\ Len(w) \in Nat
    BY LenProperties
<1>2. Len(Append(w, ch)) = Len(w) + 1 /\ \A i \in 1..Len(w) : Append(w, ch)[i] = w[i]
    BY AppendProperties
<1>3. Len(p) <= Len(w) /\ \A k \in 1..Len(p) : p[k] = w[k] /\ k \in 1..Len(w)
    BY <1>1 DEF Starts
<1> QED
    BY <1>1, <1>2, <1>3 DEF Starts

(* The part of the text that is still read.                                 *)
LastWord(b, w) == w \in Terms /\ Len(w) <= Len(b) /\ At(b, w, Len(b) - Len(w))

(* Only the last word can begin so that the text ends with p.               *)
LEMMA AtEnd ==
    ASSUME NEW b \in Seq(Nat), NEW w, LastWord(b, w), NEW p \in Terms, NEW j \in Nat, At(b, p, j),
           j + Len(p) = Len(b)
    PROVE  p = w
<1> DEFINE u == Len(b) - Len(w)
<1>0. w \in Seq(Nat) /\ p \in Seq(Nat)
    BY DEF LastWord, Terms
<1>1. Len(b) \in Nat /\ Len(w) \in Nat /\ Len(p) \in Nat /\ Len(w) <= Len(b)
    BY <1>0, LenProperties DEF LastWord
<1>2. u \in Nat /\ u + Len(w) = Len(b)
    BY <1>1
<1> HIDE DEF u
<1>3. (\A i \in 1..Len(w) : b[u + i] = w[i]) /\ (u = 0 \/ IsSeparator(b[u]))
    BY DEF LastWord, At, u
<1>4. (\A i \in 1..Len(p) : b[j + i] = p[i]) /\ (j = 0 \/ IsSeparator(b[j]))
    BY DEF At
<1>5. (\A i \in 1..Len(w) : ~IsSeparator(w[i])) /\ \A i \in 1..Len(p) : ~IsSeparator(p[i])
    <2>1. (\A i \in 1..Len(w) : w[i] \in Nat /\ IsLowerAlnum(w[i])) /\ \A i \in 1..Len(p) : p[i] \in Nat /\ IsLowerAlnum(p[i])
        BY <1>0, ElementOfSeq DEF LastWord, Terms
    <2> QED
        BY <2>1, Characters
<1>6. ~(j > u)
    <2> SUFFICES ASSUME j > u
                 PROVE  FALSE
        OBVIOUS
    <2>1. j - u \in 1..Len(w) /\ u + (j - u) = j /\ j # 0
        BY <1>1, <1>2
    <2> QED
        BY <1>3, <1>4, <1>5, <2>1
<1>7. ~(j < u)
    <2> SUFFICES ASSUME j < u
                 PROVE  FALSE
        OBVIOUS
    <2>1. u - j \in 1..Len(p) /\ j + (u - j) = u /\ u # 0
        BY <1>1, <1>2
    <2> QED
        BY <1>3, <1>4, <1>5, <2>1
<1>8. j = u /\ Len(p) = Len(w)
    BY <1>1, <1>2, <1>6, <1>7
<1> QED
    BY <1>0, <1>3, <1>4, <1>8, SeqEqual

Occurs(b, p) == \E j \in Nat : At(b, p, j)

(* The words read so far are in the text, and begin with what words of the  *)
(* text begin with.                                                         *)
Sound(b, res) == \A i \in 1..Len(res) : Occurs(b, res[i])

IsBegun(p, res) == \E i \in 1..Len(res) : Starts(p, res[i])

Complete(b, word, res) ==
    \A p \in Terms : Len(p) >= MinPrefixLen /\ Occurs(b, p) => Starts(p, word) \/ IsBegun(p, res)

Reading(b, acc) == LastWord(b, acc.word) /\ Sound(b, acc.res) /\ Complete(b, acc.word, acc.res)

(* Words that are in a text are in a longer one.                            *)
LEMMA SoundAppend ==
    ASSUME NEW b \in Seq(Nat), NEW ch \in Nat, NEW res \in Seq(Seq(Nat)), Sound(b, res)
    PROVE  Sound(Append(b, ch), res)
<1> SUFFICES ASSUME NEW i \in 1..Len(res)
             PROVE  Occurs(Append(b, ch), res[i])
    BY DEF Sound
<1>1. res[i] \in Seq(Nat)
    BY ElementOfSeq
<1>2. PICK j \in Nat : At(b, res[i], j)
    BY DEF Sound, Occurs
<1>3. At(Append(b, ch), res[i], j)
    BY <1>1, <1>2, AtAppend
<1> QED
    BY <1>3 DEF Occurs

(* A letter or digit goes on with the word.                                 *)
LEMMA ReadLetter ==
    ASSUME NEW b \in Seq(Nat), NEW acc \in Acc, Reading(b, acc), NEW ch \in Nat, IsAlnum(ch)
    PROVE  Reading(NextBare(b, ch), NextWord(acc, ch))
<1> DEFINE c == Lower(ch)
           b2 == Append(b, c)
           w == acc.word
           w2 == Append(w, c)
<1>1. c \in Nat /\ IsLowerAlnum(c) /\ ~IsSeparator(ch)
    BY Characters
<1>2. NextBare(b, ch) = b2 /\ NextWord(acc, ch) = [word |-> w2, res |-> acc.res]
    BY <1>1 DEF NextBare, NextWord
<1>3. w \in Seq(Nat) /\ acc.res \in Seq(Seq(Nat))
    BY DEF Acc
<1> HIDE DEF c
<1>4. /\ b2 \in Seq(Nat) /\ Len(b2) = Len(b) + 1 /\ b2[Len(b) + 1] = c
      /\ \A i \in 1..Len(b) : b2[i] = b[i]
    BY <1>1, AppendProperties
<1>5. /\ w2 \in Seq(Nat) /\ Len(w2) = Len(w) + 1 /\ w2[Len(w) + 1] = c
      /\ \A i \in 1..Len(w) : w2[i] = w[i]
    BY <1>1, <1>3, AppendProperties
<1>6. Len(b) \in Nat /\ Len(w) \in Nat
    BY <1>3, LenProperties
<1>7. Sound(b2, acc.res)
    BY <1>1, <1>3, SoundAppend DEF Reading
<1>8. LastWord(b2, w2)
    <2>1. w \in Terms /\ Len(w) <= Len(b) /\ At(b, w, Len(b) - Len(w))
        BY DEF Reading, LastWord
    <2>2. w2 \in Terms
        <3>1. \A k \in 1..Len(w) : IsLowerAlnum(w[k])
            BY <2>1 DEF Terms
        <3>2. \A k \in 1..(Len(w) + 1) : k \in 1..Len(w) \/ k = Len(w) + 1
            BY <1>6
        <3>3. \A k \in 1..Len(w2) : IsLowerAlnum(w2[k])
            BY <1>1, <1>5, <3>1, <3>2
        <3> QED
            BY <1>5, <3>3 DEF Terms
    <2>3. Len(w2) <= Len(b2) /\ Len(b2) - Len(w2) = Len(b) - Len(w)
        BY <1>4, <1>5, <1>6, <2>1
    <2> DEFINE u == Len(b) - Len(w)
    <2>4. u \in Nat /\ u + Len(w) = Len(b) /\ At(b, w, u)
        BY <1>6, <2>1
    <2> HIDE DEF u
    <2>5. At(b2, w, u)
        BY <1>1, <1>3, <2>4, AtAppend
    <2> HIDE DEF b2, w2
    <2>6. \A i \in 1..Len(w2) : b2[u + i] = w2[i]
        <3> SUFFICES ASSUME NEW i \in 1..Len(w2)
                     PROVE  b2[u + i] = w2[i]
            OBVIOUS
        <3>1. CASE i = Len(w) + 1
            <4>1. u + i = Len(b) + 1
                BY <1>6, <2>4, <3>1
            <4> QED
                BY <1>4, <1>5, <3>1, <4>1
        <3>2. CASE i # Len(w) + 1
            <4>1. i \in 1..Len(w)
                BY <1>5, <1>6, <3>2
            <4> QED
                BY <1>5, <2>5, <4>1 DEF At
        <3> QED
            BY <3>1, <3>2
    <2>7. At(b2, w2, u)
        BY <1>4, <1>5, <1>6, <2>4, <2>5, <2>6 DEF At
    <2> QED
        BY <2>2, <2>3, <2>7 DEF LastWord, u
<1>9. Complete(b2, w2, acc.res)
    <2> SUFFICES ASSUME NEW p \in Terms, Len(p) >= MinPrefixLen, NEW j \in Nat, At(b2, p, j)
                 PROVE  Starts(p, w2) \/ IsBegun(p, acc.res)
        BY DEF Complete, Occurs
    <2>1. p \in Seq(Nat) /\ Len(p) \in Nat /\ j + Len(p) <= Len(b) + 1
        BY <1>4, LenProperties DEF Terms, At
    <2>2. CASE j + Len(p) = Len(b2)
        <3>1. p = w2
            BY <1>4, <1>8, <2>2, AtEnd
        <3> QED
            BY <1>5, <3>1, LenProperties DEF Starts
    <2>3. CASE j + Len(p) # Len(b2)
        <3>1. j + Len(p) <= Len(b)
            BY <1>4, <1>6, <2>1, <2>3
        <3>2. Occurs(b, p)
            BY <1>1, <2>1, <3>1, AtAppend DEF Occurs
        <3>3. Starts(p, w) \/ IsBegun(p, acc.res)
            BY <3>2 DEF Reading, Complete
        <3> QED
            BY <1>1, <1>3, <2>1, <3>3, StartsAppend
    <2> QED
        BY <2>2, <2>3
<1> QED
    BY <1>2, <1>7, <1>8, <1>9 DEF Reading

(* What is left to find when a word ends.                                   *)
LEMMA FinishedWords ==
    ASSUME NEW acc \in Acc
    PROVE  LET res2 == Finished(acc).res
           IN  /\ \A i \in 1..Len(acc.res) : i \in 1..Len(res2) /\ res2[i] = acc.res[i]
               /\ \A i \in 1..Len(res2) : i \in 1..Len(acc.res) \/ res2[i] = acc.word
               /\ Len(acc.word) >= MinPrefixLen => \E i \in 1..Len(res2) : res2[i] = acc.word
<1> DEFINE w == acc.word
           res2 == Finished(acc).res
<1>0. w \in Seq(Nat) /\ acc.res \in Seq(Seq(Nat)) /\ Len(acc.res) \in Nat
    BY LenProperties DEF Acc
<1>1. CASE Len(w) >= MinPrefixLen
    <2> DEFINE Q == Seq(Nat)
    <2>1. acc.res \in Seq(Q) /\ w \in Q /\ res2 = Append(acc.res, w)
        BY <1>0, <1>1 DEF Finished
    <2> HIDE DEF Q, res2, w
    <2>2. /\ Len(res2) = Len(acc.res) + 1 /\ res2[Len(acc.res) + 1] = w
          /\ \A i \in 1..Len(acc.res) : res2[i] = acc.res[i]
        BY <2>1, AppendProperties
    <2>3. Len(acc.res) + 1 \in 1..Len(res2)
        BY <1>0, <2>2
    <2>4. \A i \in 1..Len(res2) : i \in 1..Len(acc.res) \/ i = Len(acc.res) + 1
        BY <1>0, <2>2
    <2>5. \A i \in 1..Len(acc.res) : i \in 1..Len(res2)
        BY <1>0, <2>2
    <2> QED
        BY <2>2, <2>3, <2>4, <2>5 DEF res2, w
<1>2. CASE ~(Len(w) >= MinPrefixLen)
    <2>1. res2 = acc.res
        BY <1>2 DEF Finished
    <2> QED
        BY <1>2, <2>1
<1> QED
    BY <1>1, <1>2

(* A separator ends the word.                                               *)
LEMMA ReadSeparator ==
    ASSUME NEW b \in Seq(Nat), NEW acc \in Acc, Reading(b, acc), NEW ch \in Nat, IsSeparator(ch)
    PROVE  Reading(NextBare(b, ch), NextWord(acc, ch))
<1> DEFINE b2 == Append(b, ch)
           w == acc.word
           res2 == Finished(acc).res
<1>1. Lower(ch) = ch
    BY Characters
<1>2. NextBare(b, ch) = b2 /\ NextWord(acc, ch) = [word |-> <<>>, res |-> res2]
    BY <1>1 DEF NextBare, NextWord, Finished
<1>3. w \in Seq(Nat) /\ acc.res \in Seq(Seq(Nat)) /\ Len(acc.res) \in Nat /\ Len(w) \in Nat /\ Len(b) \in Nat
    BY LenProperties DEF Acc
<1>4. /\ b2 \in Seq(Nat) /\ Len(b2) = Len(b) + 1 /\ b2[Len(b) + 1] = ch
      /\ \A i \in 1..Len(b) : b2[i] = b[i]
    BY AppendProperties
<1>5. /\ \A i \in 1..Len(acc.res) : i \in 1..Len(res2) /\ res2[i] = acc.res[i]
      /\ \A i \in 1..Len(res2) : i \in 1..Len(acc.res) \/ res2[i] = w
      /\ Len(w) >= MinPrefixLen => \E i \in 1..Len(res2) : res2[i] = w
    BY FinishedWords
<1> HIDE DEF res2
<1>6. Sound(b2, res2)
    <2> SUFFICES ASSUME NEW i \in 1..Len(res2)
                 PROVE  Occurs(b2, res2[i])
        BY DEF Sound
    <2>1. CASE i \in 1..Len(acc.res)
        <3>1. Sound(b2, acc.res)
            BY <1>3, SoundAppend DEF Reading
        <3> QED
            BY <1>5, <2>1, <3>1 DEF Sound
    <2>2. CASE res2[i] = w
        <3>1. At(b, w, Len(b) - Len(w)) /\ Len(b) - Len(w) \in Nat
            BY <1>3 DEF Reading, LastWord
        <3>2. At(b2, w, Len(b) - Len(w))
            BY <1>3, <3>1, AtAppend
        <3> QED
            BY <2>2, <3>1, <3>2 DEF Occurs
    <2> QED
        BY <1>5, <2>1, <2>2
<1>7. LastWord(b2, <<>>)
    <2>1. <<>> \in Terms /\ Len(<<>>) = 0
        BY EmptySeq DEF Terms
    <2>2. Len(b2) - 0 = Len(b) + 1 /\ 0 <= Len(b2) /\ (Len(b) + 1) + 0 <= Len(b2)
        BY <1>3, <1>4
    <2>3. At(b2, <<>>, Len(b) + 1)
        BY <1>4, <2>1, <2>2 DEF At
    <2> QED
        BY <2>1, <2>2, <2>3 DEF LastWord
<1>8. Complete(b2, <<>>, res2)
    <2> SUFFICES ASSUME NEW p \in Terms, Len(p) >= MinPrefixLen, NEW j \in Nat, At(b2, p, j)
                 PROVE  IsBegun(p, res2)
        BY DEF Complete, Occurs
    <2>1. p \in Seq(Nat) /\ Len(p) \in Nat /\ Len(p) >= 1 /\ j + Len(p) <= Len(b) + 1
        BY <1>4, LenProperties, PrefixAssumption DEF Terms, At
    <2>2. j + Len(p) # Len(b) + 1
        <3> SUFFICES ASSUME j + Len(p) = Len(b) + 1
                     PROVE  FALSE
            OBVIOUS
        <3>1. Len(p) \in 1..Len(p)
            BY <2>1
        <3>2. p[Len(p)] = ch /\ IsLowerAlnum(p[Len(p)])
            BY <1>4, <3>1 DEF At, Terms
        <3> QED
            BY <3>2, Characters
    <2>3. j + Len(p) <= Len(b)
        <3>1. j + Len(p) \in Nat
            BY <2>1
        <3> QED
            BY <1>3, <2>1, <2>2, <3>1, OneLess
    <2>4. Occurs(b, p)
        BY <2>1, <2>3, AtAppend DEF Occurs
    <2>5. Starts(p, w) \/ IsBegun(p, acc.res)
        BY <2>4 DEF Reading, Complete
    <2>6. CASE Starts(p, w)
        <3>1. Len(w) >= MinPrefixLen
            BY <1>3, <2>1, <2>6, PrefixAssumption DEF Starts
        <3> QED
            BY <1>5, <2>6, <3>1 DEF IsBegun
    <2>7. CASE IsBegun(p, acc.res)
        BY <1>5, <2>7 DEF IsBegun
    <2> QED
        BY <2>5, <2>6, <2>7
<1> QED
    BY <1>2, <1>6, <1>7, <1>8 DEF Reading

(* Any other character is left out; all three keep the words and the text   *)
(* in step.                                                                 *)
LEMMA ReadNext ==
    ASSUME NEW b \in Seq(Nat), NEW acc \in Acc, Reading(b, acc), NEW ch \in Nat
    PROVE  Reading(NextBare(b, ch), NextWord(acc, ch))
<1>1. CASE ~IsAlnum(ch) /\ ~IsSeparator(ch)
    BY <1>1 DEF NextBare, NextWord
<1> QED
    BY <1>1, ReadLetter, ReadSeparator

(* At the end, all words of the text have been read.                        *)
LEMMA ReadThrough ==
    ASSUME NEW v \in Seq(Nat), NEW b, BareRuns(b, v), NEW r, WordsRun(r, v)
    PROVE  Reading(b[Len(v)], r[Len(v)])
<1> DEFINE n == Len(v)
           T == {k \in 0..n : Reading(b[k], r[k])}
<1>1. n \in Nat /\ \A k \in 1..n : v[k] \in Nat
    BY LenProperties, ElementOfSeq
<1>2. 0 \in T
    <2>1. b[0] = <<>> /\ r[0].word = <<>> /\ r[0].res = <<>> /\ Len(<<>>) = 0 /\ <<>> \in Terms
        BY EmptySeq DEF BareRuns, WordsRun, Terms
    <2>2. At(<<>>, <<>>, 0)
        BY <2>1 DEF At
    <2>3. LastWord(<<>>, <<>>)
        BY <2>1, <2>2 DEF LastWord
    <2>4. \A p \in Terms : Len(p) >= MinPrefixLen => ~Occurs(<<>>, p)
        <3> SUFFICES ASSUME NEW p \in Terms, Len(p) >= MinPrefixLen, NEW j \in Nat, At(<<>>, p, j)
                     PROVE  FALSE
            BY DEF Occurs
        <3>1. Len(p) \in Nat
            BY LenProperties DEF Terms
        <3> QED
            BY <2>1, <3>1, PrefixAssumption DEF At
    <2>5. Reading(b[0], r[0])
        BY <2>1, <2>3, <2>4 DEF Reading, Sound, Complete
    <2>6. 0 \in 0..n
        BY <1>1
    <2> QED
        BY <2>5, <2>6
<1>3. ASSUME NEW k \in 0..(n - 1), k \in T
      PROVE  k + 1 \in T
    <2>1. k + 1 \in 1..n /\ k + 1 \in 0..n /\ (k + 1) - 1 = k /\ k \in 0..n
        BY <1>1
    <2>2. b[k + 1] = NextBare(b[k], v[k + 1]) /\ r[k + 1] = NextWord(r[k], v[k + 1])
        BY <2>1 DEF BareRuns, WordsRun
    <2>3. b[k] \in Seq(Nat) /\ r[k] \in Acc
        BY <2>1 DEF BareRuns, WordsRun
    <2>4. Reading(b[k + 1], r[k + 1])
        BY <1>1, <1>3, <2>1, <2>2, <2>3, ReadNext
    <2> QED
        BY <2>1, <2>4
<1> HIDE DEF T
<1>4. \A k \in 0..n : k \in T
    BY <1>1, <1>2, <1>3, Induction
<1>5. n \in 0..n
    BY <1>1
<1> QED
    BY <1>4, <1>5 DEF T

(* Where a word begins, so does its beginning.                              *)
LEMMA OccursStart ==
    ASSUME NEW b \in Seq(Nat), NEW w \in Seq(Nat), NEW p \in Seq(Nat), Occurs(b, w), Starts(p, w)
    PROVE  Occurs(b, p)
<1>1. PICK j \in Nat : At(b, w, j)
    BY DEF Occurs
<1>2. Len(b) \in Nat /\ Len(w) \in Nat /\ Len(p) \in Nat
    BY LenProperties
<1>3. Len(p) <= Len(w) /\ \A k \in 1..Len(p) : p[k] = w[k] /\ k \in 1..Len(w)
    BY <1>2 DEF Starts
<1>4. j + Len(w) <= Len(b) /\ (\A i \in 1..Len(w) : b[j + i] = w[i]) /\ (j = 0 \/ IsSeparator(b[j]))
    BY <1>1 DEF At
<1>5. j + Len(p) <= Len(b)
    BY <1>2, <1>3, <1>4
<1>6. \A i \in 1..Len(p) : b[j + i] = p[i]
    BY <1>3, <1>4
<1>7. At(b, p, j)
    BY <1>4, <1>5, <1>6 DEF At
<1> QED
    BY <1>7 DEF Occurs

(* The words of a text begin with p if and only if one of the words that    *)
(* the index takes from it does.                                            *)
LEMMA WordsExact ==
    ASSUME NEW v \in Seq(Nat), NEW p \in Terms, Len(p) >= MinPrefixLen
    PROVE  /\ splitToNormalizedWords(v) \in Seq(Seq(Nat))
           /\ BeginsWord(v, p) <=> IsBegun(p, splitToNormalizedWords(v))
<1>1. PICK b : BareRuns(b, v)
    BY BareRead
<1>2. PICK r : WordsRun(r, v)
    BY WordsRead
<1> DEFINE n == Len(v)
           acc == r[n]
           text == b[n]
           res == Finished(acc).res
<1>3. n \in Nat /\ n \in 0..n
    BY LenProperties
<1>4. text \in Seq(Nat) /\ acc \in Acc /\ Bare(v) = text /\ splitToNormalizedWords(v) = res
    BY <1>1, <1>2, <1>3 DEF BareRuns, WordsRun
<1>5. Reading(text, acc)
    BY <1>1, <1>2, ReadThrough
<1> HIDE DEF acc, text
<1>6. res \in Seq(Seq(Nat)) /\ acc.res \in Seq(Seq(Nat)) /\ acc.word \in Seq(Nat)
    <2>1. Finished(acc) \in Acc
        <3>1. 0 \in Nat
            OBVIOUS
        <3> QED
            BY <1>4, <3>1, NextWordTyped
    <2> QED
        BY <1>4, <2>1 DEF Acc
<1>7. /\ \A i \in 1..Len(acc.res) : i \in 1..Len(res) /\ res[i] = acc.res[i]
      /\ \A i \in 1..Len(res) : i \in 1..Len(acc.res) \/ res[i] = acc.word
      /\ Len(acc.word) >= MinPrefixLen => \E i \in 1..Len(res) : res[i] = acc.word
    BY <1>4, FinishedWords
<1> HIDE DEF res
<1>8. p \in Seq(Nat) /\ Len(p) \in Nat
    BY LenProperties DEF Terms
<1>9. BeginsWord(v, p) <=> Occurs(text, p)
    BY <1>4, <1>8, BeginsAt DEF BeginsWord, Occurs
<1>10. ASSUME Occurs(text, p)
       PROVE  IsBegun(p, res)
    <2>1. Starts(p, acc.word) \/ IsBegun(p, acc.res)
        BY <1>5, <1>10 DEF Reading, Complete
    <2>2. CASE Starts(p, acc.word)
        <3>1. Len(acc.word) \in Nat /\ Len(acc.word) >= Len(p)
            BY <1>6, <2>2, LenProperties DEF Starts
        <3>2. Len(acc.word) >= MinPrefixLen
            BY <1>8, <3>1, PrefixAssumption
        <3> QED
            BY <1>7, <2>2, <3>2 DEF IsBegun
    <2>3. CASE IsBegun(p, acc.res)
        BY <1>7, <2>3 DEF IsBegun
    <2> QED
        BY <2>1, <2>2, <2>3
<1>11. ASSUME IsBegun(p, res)
       PROVE  Occurs(text, p)
    <2>1. PICK i \in 1..Len(res) : Starts(p, res[i])
        BY <1>11 DEF IsBegun
    <2>2. res[i] \in Seq(Nat)
        BY <1>6, ElementOfSeq
    <2>3. Occurs(text, res[i])
        <3>1. CASE i \in 1..Len(acc.res)
            BY <1>5, <1>7, <3>1 DEF Reading, Sound
        <3>2. CASE res[i] = acc.word
            <4>1. Len(text) \in Nat /\ Len(acc.word) \in Nat
                BY <1>4, <1>6, LenProperties
            <4>2. At(text, acc.word, Len(text) - Len(acc.word)) /\ Len(text) - Len(acc.word) \in Nat
                BY <1>5, <4>1 DEF Reading, LastWord
            <4> QED
                BY <3>2, <4>2 DEF Occurs
        <3> QED
            BY <1>7, <3>1, <3>2
    <2> QED
        BY <1>4, <1>8, <2>1, <2>2, <2>3, OccursStart
<1> QED
    BY <1>4, <1>6, <1>9, <1>10, <1>11

(* The prefixes of a word.                                                  *)
LEMMA PrefixesOfWord ==
    ASSUME NEW w \in Seq(Nat), NEW p \in Seq(Nat)
    PROVE  (\E n \in MinPrefixLen..Min({MaxPrefixLen, Len(w)}) : p = SubSeq(w, 1, n))
             <=> Len(p) \in MinPrefixLen..MaxPrefixLen /\ Starts(p, w)
<1>1. Len(w) \in Nat /\ Len(p) \in Nat /\ MinPrefixLen \in Nat \ {0} /\ MaxPrefixLen \in Nat
    BY LenProperties, PrefixAssumption
<1>2. \A n : n \in MinPrefixLen..Min({MaxPrefixLen, Len(w)}) <=> n \in MinPrefixLen..MaxPrefixLen /\ n <= Len(w)
    <2>1. PICK m : m = Min({MaxPrefixLen, Len(w)})
        OBVIOUS
    <2>2. m = IF MaxPrefixLen <= Len(w) THEN MaxPrefixLen ELSE Len(w)
        BY <1>1, <2>1, MinOfTwo
    <2>3. \A n : n \in MinPrefixLen..m <=> n \in MinPrefixLen..MaxPrefixLen /\ n <= Len(w)
        BY <1>1, <2>2
    <2> QED
        BY <2>1, <2>3
<1>3. ASSUME NEW n \in Nat, n <= Len(w)
      PROVE  p = SubSeq(w, 1, n) <=> Len(p) = n /\ Starts(p, w)
    <2> DEFINE x == SubSeq(w, 1, n)
    <2>1. \A i \in 1..n : w[i] \in Nat
        BY <1>1, <1>3, ElementOfSeq
    <2>2. x \in Seq(Nat) /\ Len(x) = n /\ \A i \in 1..n : x[i] = w[i]
        BY <2>1, SubSeqProperties
    <2> HIDE DEF x
    <2>3. p = x <=> Len(p) = n /\ \A i \in 1..n : p[i] = x[i]
        BY <2>2, SeqEqual
    <2> QED
        BY <1>3, <2>2, <2>3 DEF Starts, x
<1>4. ASSUME NEW n \in MinPrefixLen..Min({MaxPrefixLen, Len(w)}), p = SubSeq(w, 1, n)
      PROVE  Len(p) \in MinPrefixLen..MaxPrefixLen /\ Starts(p, w)
    <2>0. n <= Len(w) /\ n \in MinPrefixLen..MaxPrefixLen
        BY <1>2
    <2>1. n \in Nat /\ n <= Len(w) /\ n \in MinPrefixLen..MaxPrefixLen
        <3>1. \A i \in MinPrefixLen..MaxPrefixLen : i \in Nat
            BY <1>1
        <3> QED
            BY <2>0, <3>1
    <2> QED
        BY <1>3, <1>4, <2>1
<1>5. ASSUME Len(p) \in MinPrefixLen..MaxPrefixLen, Starts(p, w)
      PROVE  \E n \in MinPrefixLen..Min({MaxPrefixLen, Len(w)}) : p = SubSeq(w, 1, n)
    <2>1. Len(p) <= Len(w)
        BY <1>5 DEF Starts
    <2>2. Len(p) \in MinPrefixLen..Min({MaxPrefixLen, Len(w)}) /\ p = SubSeq(w, 1, Len(p))
        BY <1>1, <1>2, <1>3, <1>5, <2>1
    <2> QED
        BY <2>2
<1> QED
    BY <1>4, <1>5

(* The index has an entry under a prefix if and only if a word of its path  *)
(* begins with it.                                                          *)
LEMMA PrefixesExact ==
    ASSUME NEW v \in Seq(Nat), NEW p \in Terms, Len(p) \in MinPrefixLen..MaxPrefixLen
    PROVE  p \in generatePrefixes(v) <=> BeginsWord(v, p)
<1> DEFINE words == splitToNormalizedWords(v)
<1>1. p \in Seq(Nat) /\ Len(p) >= MinPrefixLen
    BY LenProperties, PrefixAssumption DEF Terms
<1>2. words \in Seq(Seq(Nat)) /\ (BeginsWord(v, p) <=> IsBegun(p, words))
    BY <1>1, WordsExact
<1>3. p \in generatePrefixes(v) <=>
        \E w \in ToSet(words) : \E n \in MinPrefixLen..Min({MaxPrefixLen, Len(w)}) : p = SubSeq(w, 1, n)
    <2> DEFINE of(w) == {SubSeq(w, 1, n) : n \in MinPrefixLen..Min({MaxPrefixLen, Len(w)})}
    <2>1. generatePrefixes(v) = UNION {of(w) : w \in ToSet(words)}
        BY DEF generatePrefixes
    <2>2. \A w : p \in of(w) <=> \E n \in MinPrefixLen..Min({MaxPrefixLen, Len(w)}) : p = SubSeq(w, 1, n)
        OBVIOUS
    <2> HIDE DEF of, words
    <2> QED
        BY <2>1, <2>2
<1> HIDE DEF words
<1>4. ToSet(words) = {words[i] : i \in 1..Len(words)} /\ \A i \in 1..Len(words) : words[i] \in Seq(Nat)
    BY <1>2, LenProperties, ElementOfSeq DEF ToSet
<1>5. \A w \in Seq(Nat) :
        (\E n \in MinPrefixLen..Min({MaxPrefixLen, Len(w)}) : p = SubSeq(w, 1, n)) <=> Starts(p, w)
    BY <1>1, PrefixesOfWord
<1> QED
    BY <1>2, <1>3, <1>4, <1>5 DEF IsBegun

(* A word of a search is its only word.                                     *)
LEMMA OneWord ==
    ASSUME NEW w \in Terms, Len(w) >= MinPrefixLen
    PROVE  ToSet(splitToNormalizedWords(w)) = {w}
<1>1. w \in Seq(Nat) /\ Len(w) \in Nat /\ \A k \in 1..Len(w) : w[k] \in Nat /\ IsLowerAlnum(w[k])
    BY LenProperties, ElementOfSeq DEF Terms
<1>2. PICK r : WordsRun(r, w)
    BY <1>1, WordsRead
<1> DEFINE n == Len(w)
           T == {k \in 0..n : r[k] = [word |-> SubSeq(w, 1, k), res |-> <<>>]}
<1>3. 0 \in T
    <2>1. SubSeq(w, 1, 0) = <<>>
        BY <1>1, SubSeqEmpty
    <2>2. 0 \in 0..n
        BY <1>1
    <2> QED
        BY <1>2, <2>1, <2>2 DEF WordsRun
<1>4. ASSUME NEW k \in 0..(n - 1), k \in T
      PROVE  k + 1 \in T
    <2>1. k + 1 \in 1..n /\ k + 1 \in 0..n /\ (k + 1) - 1 = k
        BY <1>1
    <2>2. r[k + 1] = NextWord(r[k], w[k + 1])
        BY <1>2, <2>1 DEF WordsRun
    <2>3. ~IsSeparator(w[k + 1]) /\ IsAlnum(w[k + 1]) /\ Lower(w[k + 1]) = w[k + 1]
        BY <1>1, <2>1, Characters
    <2>4. Append(SubSeq(w, 1, k), w[k + 1]) = SubSeq(w, 1, k + 1)
        BY <1>1, SubSeqNext
    <2> DEFINE x == SubSeq(w, 1, k)
               y == SubSeq(w, 1, k + 1)
    <2>6. r[k] = [word |-> x, res |-> <<>>]
        BY <1>4
    <2> HIDE DEF x, y
    <2>7. r[k].word = x /\ r[k].res = <<>>
        BY <2>6
    <2>8. r[k + 1] = [word |-> Append(x, w[k + 1]), res |-> <<>>]
        BY <2>2, <2>3, <2>7 DEF NextWord
    <2>5. r[k + 1] = [word |-> SubSeq(w, 1, k + 1), res |-> <<>>]
        BY <2>4, <2>8 DEF x, y
    <2> QED
        BY <2>1, <2>5
<1> HIDE DEF T
<1>5. \A k \in 0..n : k \in T
    BY <1>1, <1>3, <1>4, Induction
<1>6. n \in 0..n /\ SubSeq(w, 1, n) = w
    BY <1>1, SubSeqFull
<1>7. r[n] = [word |-> w, res |-> <<>>]
    BY <1>5, <1>6 DEF T
<1>8. splitToNormalizedWords(w) = Append(<<>>, w)
    BY <1>2, <1>7 DEF WordsRun, Finished
<1>9. Append(<<>>, w) = <<w>>
    OBVIOUS
<1> QED
    BY <1>8, <1>9 DEF ToSet

(* The lengths of the prefixes of w that words of v begin with.             *)
ReachedLengths(v, w) ==
    {n \in MinPrefixLen..Min({MaxPrefixLen, Len(w)}) : BeginsWord(v, SubSeq(w, 1, n))}

(* The prefixes that v and w share.                                         *)
Shared(v, w) == {p \in generatePrefixes(w) : p \in generatePrefixes(v)}

(* The prefixes of a word are text of the same kind.                        *)
LEMMA PrefixOfTerm ==
    ASSUME NEW w \in Terms, NEW n \in MinPrefixLen..Min({MaxPrefixLen, Len(w)})
    PROVE  /\ SubSeq(w, 1, n) \in Terms
           /\ Len(SubSeq(w, 1, n)) = n
           /\ n \in MinPrefixLen..MaxPrefixLen /\ n <= Len(w) /\ n \in Nat
           /\ \A i \in 1..n : SubSeq(w, 1, n)[i] = w[i]
<1> DEFINE x == SubSeq(w, 1, n)
<1>1. /\ w \in Seq(Nat) /\ Len(w) \in Nat /\ \A k \in 1..Len(w) : w[k] \in Nat /\ IsLowerAlnum(w[k])
      /\ MinPrefixLen \in Nat \ {0} /\ MaxPrefixLen \in Nat
    BY LenProperties, ElementOfSeq, PrefixAssumption DEF Terms
<1>2. n \in MinPrefixLen..MaxPrefixLen /\ n <= Len(w) /\ n \in Nat
    <2>1. PICK m : m = Min({MaxPrefixLen, Len(w)})
        OBVIOUS
    <2>2. m = IF MaxPrefixLen <= Len(w) THEN MaxPrefixLen ELSE Len(w)
        BY <1>1, <2>1, MinOfTwo
    <2>3. n \in MinPrefixLen..m
        BY <2>1
    <2> QED
        BY <1>1, <2>2, <2>3
<1>3. \A i \in 1..n : w[i] \in Nat /\ IsLowerAlnum(w[i])
    BY <1>1, <1>2
<1>4. x \in Seq(Nat) /\ Len(x) = n /\ \A i \in 1..n : x[i] = w[i]
    BY <1>2, <1>3, SubSeqProperties
<1> HIDE DEF x
<1>5. x \in Terms
    BY <1>3, <1>4 DEF Terms
<1> QED
    BY <1>2, <1>4, <1>5 DEF x

(* The prefixes that a word shares with a path are those of certain         *)
(* lengths.                                                                 *)
LEMMA SharedExact ==
    ASSUME NEW v \in Seq(Nat), NEW w \in Terms, Len(w) >= MinPrefixLen
    PROVE  Shared(v, w) = {SubSeq(w, 1, n) : n \in ReachedLengths(v, w)}
<1> DEFINE M == MinPrefixLen..Min({MaxPrefixLen, Len(w)})
<1>1. generatePrefixes(w) = {SubSeq(w, 1, n) : n \in M}
    <2> DEFINE of(x) == {SubSeq(x, 1, n) : n \in MinPrefixLen..Min({MaxPrefixLen, Len(x)})}
    <2>1. generatePrefixes(w) = UNION {of(x) : x \in ToSet(splitToNormalizedWords(w))}
        BY DEF generatePrefixes
    <2> HIDE DEF of
    <2>2. generatePrefixes(w) = of(w)
        BY <2>1, OneWord
    <2> QED
        BY <2>2 DEF of
<1>2. ASSUME NEW n \in M
      PROVE  SubSeq(w, 1, n) \in generatePrefixes(v) <=> BeginsWord(v, SubSeq(w, 1, n))
    BY PrefixOfTerm, PrefixesExact
<1> HIDE DEF M
<1> QED
    BY <1>1, <1>2 DEF Shared, ReachedLengths, M

(* A word that begins with a prefix begins with shorter ones, too.          *)
LEMMA ReachedShorter ==
    ASSUME NEW v \in Seq(Nat), NEW w \in Terms, NEW n \in ReachedLengths(v, w), NEW m \in MinPrefixLen..n
    PROVE  m \in ReachedLengths(v, w)
<1>1. n \in MinPrefixLen..Min({MaxPrefixLen, Len(w)})
    BY DEF ReachedLengths
<1>2. m \in MinPrefixLen..Min({MaxPrefixLen, Len(w)})
    <2>1. PICK l : l = Min({MaxPrefixLen, Len(w)})
        OBVIOUS
    <2>2. Len(w) \in Nat /\ MinPrefixLen \in Nat /\ MaxPrefixLen \in Nat
        BY LenProperties, PrefixAssumption DEF Terms
    <2>3. l \in Nat
        BY <2>1, <2>2, MinOfTwo
    <2>4. m \in MinPrefixLen..l
        BY <1>1, <2>1, <2>2, <2>3
    <2> QED
        BY <2>1, <2>4
<1> DEFINE x == SubSeq(w, 1, n)
           y == SubSeq(w, 1, m)
<1>3. x \in Terms /\ Len(x) = n /\ n \in Nat /\ \A i \in 1..n : x[i] = w[i]
    BY <1>1, PrefixOfTerm
<1>4. y \in Terms /\ Len(y) = m /\ m \in Nat /\ \A i \in 1..m : y[i] = w[i]
    BY <1>2, PrefixOfTerm
<1>5. BeginsWord(v, x)
    BY DEF ReachedLengths
<1> HIDE DEF x, y
<1>6. x \in Seq(Nat) /\ y \in Seq(Nat)
    BY <1>3, <1>4 DEF Terms
<1>7. m <= n
    BY <1>3, PrefixAssumption
<1>8. Starts(y, x)
    <2>1. \A i \in 1..m : i \in 1..n
        BY <1>3, <1>4, <1>7
    <2> QED
        BY <1>3, <1>4, <1>7, <2>1 DEF Starts
<1>9. PICK b : BareRuns(b, v)
    BY BareRead
<1>10. Bare(v) \in Seq(Nat)
    <2>1. Len(v) \in 0..Len(v)
        BY LenProperties
    <2> QED
        BY <1>9, <2>1 DEF BareRuns
<1>11. Occurs(Bare(v), x)
    BY <1>5, <1>6, <1>10, BeginsAt DEF BeginsWord, Occurs
<1>12. Occurs(Bare(v), y)
    BY <1>6, <1>8, <1>10, <1>11, OccursStart
<1>13. BeginsWord(v, y)
    BY <1>6, <1>10, <1>12, BeginsAt DEF BeginsWord, Occurs
<1> QED
    BY <1>2, <1>13 DEF ReachedLengths, y

(* Both are finite, and a search counts what a path reaches.                *)
LEMMA SharedCount ==
    ASSUME NEW v \in Seq(Nat), NEW w \in Terms, Len(w) >= MinPrefixLen
    PROVE  /\ Cardinality(Shared(v, w)) \in Nat
           /\ Shared(v, w) # {} <=> BeginsWord(v, SubSeq(w, 1, MinPrefixLen))
           /\ Max({0} \cup ReachedLengths(v, w)) \in Nat
           /\ Shared(v, w) # {} =>
                Max({0} \cup ReachedLengths(v, w)) = Cardinality(Shared(v, w)) + MinPrefixLen - 1
<1> DEFINE N == ReachedLengths(v, w)
           lo == MinPrefixLen
           L == Max({0} \cup N)
<1>1. /\ Len(w) \in Nat /\ lo \in Nat \ {0} /\ MaxPrefixLen \in Nat /\ lo <= MaxPrefixLen
      /\ lo <= Len(w)
    BY LenProperties, PrefixAssumption DEF Terms
<1>2. lo \in lo..Min({MaxPrefixLen, Len(w)})
    <2>1. PICK l : l = Min({MaxPrefixLen, Len(w)})
        OBVIOUS
    <2>2. l = IF MaxPrefixLen <= Len(w) THEN MaxPrefixLen ELSE Len(w)
        BY <1>1, <2>1, MinOfTwo
    <2>3. lo \in lo..l
        BY <1>1, <2>2
    <2> QED
        BY <2>1, <2>3
<1>3. N \subseteq 0..Len(w) /\ \A n \in N : n >= lo /\ n \in Nat
    <2>1. ASSUME NEW n \in N
          PROVE  n \in 0..Len(w) /\ n >= lo /\ n \in Nat
        <3>1. n \in lo..MaxPrefixLen /\ n <= Len(w) /\ n \in Nat
            BY PrefixOfTerm DEF ReachedLengths
        <3> QED
            BY <1>1, <3>1
    <2> QED
        BY <2>1
<1>4. L \in {0} \cup N /\ \A n \in {0} \cup N : n <= L
    <2> HIDE DEF N
    <2>1. {0} \cup N \in SUBSET (0..Len(w)) /\ {0} \cup N # {}
        BY <1>1, <1>3
    <2> QED
        BY <1>1, <2>1, GreatestNumber
<1>5. Shared(v, w) = {SubSeq(w, 1, n) : n \in N}
    BY SharedExact
<1>6. lo \in N <=> BeginsWord(v, SubSeq(w, 1, lo))
    BY <1>2 DEF ReachedLengths
<1>7. N # {} <=> lo \in N
    <2>1. ASSUME NEW n \in N
          PROVE  lo \in N
        <3>1. lo \in lo..n
            BY <1>1, <1>3
        <3> QED
            BY <3>1, ReachedShorter
    <2> QED
        BY <2>1
<1>8. Shared(v, w) # {} <=> N # {}
    <2> HIDE DEF N
    <2> QED
        BY <1>5
<1>9. L \in Nat
    BY <1>3, <1>4
<1>10. CASE N = {}
    <2>1. Shared(v, w) = {}
        BY <1>8, <1>10
    <2>2. Cardinality(Shared(v, w)) \in Nat
        BY <2>1, FS_EmptySet
    <2> QED
        BY <1>6, <1>7, <1>8, <1>9, <1>10, <2>1, <2>2
<1>11. CASE N # {}
    <2>1. L \in N /\ L >= lo
        <3>1. lo <= L
            BY <1>4, <1>7, <1>11
        <3> QED
            BY <1>1, <1>4, <3>1
    <2>2. N = lo..L
        <3>1. \A n \in N : n \in lo..L
            <4> HIDE DEF N, L, lo
            <4> SUFFICES ASSUME NEW n \in N
                         PROVE  n \in lo..L
                OBVIOUS
            <4>1. n <= L /\ n \in Nat /\ n >= lo
                BY <1>3, <1>4
            <4> QED
                BY <1>1, <1>9, <4>1
        <3>2. \A n \in lo..L : n \in N
            BY <2>1, ReachedShorter
        <3> QED
            BY <3>1, <3>2
    <2> DEFINE f == [n \in lo..L |-> SubSeq(w, 1, n)]
    <2>3. \A n \in lo..L : Len(SubSeq(w, 1, n)) = n
        BY <2>2, PrefixOfTerm DEF ReachedLengths
    <2>4. /\ f \in [lo..L -> Shared(v, w)]
          /\ \A m, n \in lo..L : f[m] = f[n] => m = n
          /\ \A p \in Shared(v, w) : \E n \in lo..L : f[n] = p
        <3> HIDE DEF N, L, lo
        <3>1. f \in [lo..L -> Shared(v, w)]
            BY <1>5, <2>2
        <3>2. \A m, n \in lo..L : f[m] = f[n] => m = n
            BY <2>3
        <3>3. \A p \in Shared(v, w) : \E n \in lo..L : f[n] = p
            BY <1>5, <2>2
        <3> HIDE DEF f
        <3> QED
            BY <3>1, <3>2, <3>3
    <2>5. IsFiniteSet(lo..L) /\ Cardinality(lo..L) = L - lo + 1
        <3> HIDE DEF L, lo, N
        <3>1. lo \in Int /\ L \in Int /\ ~(lo > L)
            BY <1>1, <1>9, <2>1
        <3> QED
            BY <3>1, FS_Interval
    <2> HIDE DEF f
    <2>6. Cardinality(Shared(v, w)) = L - lo + 1
        <3> DEFINE A == lo..L
                   B == Shared(v, w)
        <3>1. /\ IsFiniteSet(A) /\ f \in [A -> B] /\ (\A p \in B : \E n \in A : f[n] = p)
              /\ \A m, n \in A : f[m] = f[n] => m = n
            BY <2>4, <2>5
        <3>2. Cardinality(A) = L - lo + 1
            BY <2>5
        <3> HIDE DEF A, B, L, lo
        <3>3. Cardinality(B) = Cardinality(A)
            BY <3>1, OneToOne
        <3> QED
            BY <3>2, <3>3 DEF B
    <2>7. L - lo + 1 \in Nat /\ L = (L - lo + 1) + lo - 1
        BY <1>1, <1>9, <2>1
    <2> QED
        BY <1>6, <1>7, <1>8, <1>9, <1>11, <2>6, <2>7
<1> QED
    BY <1>10, <1>11

(* The index has an entry under the prefixes of its path.                   *)
LEMMA UnderPrefix ==
    ASSUME NEW E, NEW e \in E, NEW p
    PROVE  e \in IdsUnder(newPrefixIndex(E), p) <=> p \in generatePrefixes(e.path)
<1> DEFINE of == [x \in E |-> generatePrefixes(x.path)]
           all == UNION Range(of)
           index == newPrefixIndex(E)
<1>1. index.prefixes = [q \in all |-> {x \in E : q \in of[x]}]
    BY DEF newPrefixIndex
<1>2. of[e] = generatePrefixes(e.path) /\ of[e] \in Range(of)
    BY DEF Range
<1> HIDE DEF of, index
<1>3. p \in of[e] => p \in all
    BY <1>2
<1> HIDE DEF all
<1>4. CASE p \in all
    BY <1>1, <1>2, <1>4 DEF IdsUnder, index
<1>5. CASE p \notin all
    BY <1>1, <1>2, <1>3, <1>5 DEF IdsUnder, index
<1> QED
    BY <1>4, <1>5

-----------------------------------------------------------------------------
(* Sums *)

Sums(s, c, m) == s[0] = 0 /\ \A k \in 1..m : s[k] = s[k - 1] + c[k]

(* Sums can be computed.                                                    *)
LEMMA SumExists ==
    ASSUME NEW m \in Nat, NEW c \in [1..m -> Nat]
    PROVE  \E s \in [0..m -> Nat] : Sums(s, c, m)
<1> DEFINE step == [p \in Nat \X (1..m) |-> p[1] + c[p[2]]]
           z == 0
<1>1. z \in Nat /\ step \in [Nat \X (1..m) -> Nat]
    OBVIOUS
<1>2. ASSUME NEW x \in Nat, NEW k \in 1..m
      PROVE  step[<<x, k>>] = x + c[k]
    OBVIOUS
<1> HIDE DEF step
<1>3. PICK s \in [0..m -> Nat] : Computes(s, z, step, m)
    <2> HIDE DEF z
    <2> QED
        BY <1>1, TypedRecursion
<1>4. \A k \in 1..m : s[k] = s[k - 1] + c[k]
    <2> SUFFICES ASSUME NEW k \in 1..m
                 PROVE  s[k] = s[k - 1] + c[k]
        OBVIOUS
    <2>1. s[k - 1] \in Nat
        OBVIOUS
    <2> QED
        BY <1>2, <1>3, <2>1 DEF Computes
<1> QED
    BY <1>3, <1>4 DEF Computes, Sums

(* A sum written as a recursive function.                                   *)
IsSum(s, c, m) == s = [k \in 0..m |-> IF k = 0 THEN 0 ELSE s[k - 1] + c[k]]

(* The sums that the recursive functions compute.                           *)
LEMMA SumsAreSums ==
    ASSUME NEW m \in Nat, NEW c \in [1..m -> Nat], NEW s
    PROVE  /\ s \in [0..m -> Nat] /\ Sums(s, c, m) => IsSum(s, c, m)
           /\ IsSum(s, c, m) => s \in [0..m -> Nat] /\ Sums(s, c, m)
<1>1. \A k \in 0..m : k = 0 \/ k \in 1..m
    OBVIOUS
<1>2. ASSUME s \in [0..m -> Nat], Sums(s, c, m)
      PROVE  IsSum(s, c, m)
    BY <1>1, <1>2 DEF Sums, IsSum
<1>3. ASSUME IsSum(s, c, m)
      PROVE  s \in [0..m -> Nat] /\ Sums(s, c, m)
    <2>0. 0 \in 0..m /\ \A k \in 1..m : k \in 0..m /\ k # 0
        OBVIOUS
    <2>1. Sums(s, c, m)
        BY <1>3, <2>0 DEF IsSum, Sums
    <2> DEFINE T == {k \in 0..m : s[k] \in Nat}
    <2>2. 0 \in T
        BY <2>0, <2>1 DEF Sums
    <2>3. ASSUME NEW k \in 0..(m - 1), k \in T
          PROVE  k + 1 \in T
        <3>1. k + 1 \in 1..m /\ k + 1 \in 0..m /\ (k + 1) - 1 = k
            OBVIOUS
        <3>2. s[k + 1] = s[k] + c[k + 1] /\ c[k + 1] \in Nat /\ s[k] \in Nat
            BY <2>1, <2>3, <3>1 DEF Sums
        <3> QED
            BY <3>1, <3>2
    <2> HIDE DEF T
    <2>4. \A k \in 0..m : k \in T
        BY <2>2, <2>3, Induction
    <2>5. \A k \in 0..m : s[k] \in Nat
        BY <2>4 DEF T
    <2>6. s = [k \in 0..m |-> s[k]]
        BY <1>3 DEF IsSum
    <2> QED
        BY <2>1, <2>5, <2>6
<1> QED
    BY <1>2, <1>3

(* Equal differences add up.                                                *)
LEMMA BothDiffer ==
    ASSUME NEW p \in Nat, NEW q \in Nat, NEW r \in Nat, NEW s \in Nat, p + q = r + s,
           NEW w \in Nat, NEW x \in Nat, NEW y \in Nat, NEW z \in Nat, w + x = y + z
    PROVE  (p + w) + (q + x) = (r + y) + (s + z)
    OBVIOUS

Summed(s, c, m) == c \in [1..m -> Nat] /\ s \in [0..m -> Nat] /\ Sums(s, c, m)

DifferAlike(a, b, c, d, m) == \A k \in 1..m : a[k] + b[k] = c[k] + d[k]

EndAlike(a, b, c, d, m) == a[m] + b[m] = c[m] + d[m]

(* Where the terms of two sums differ as those of two others, so do the     *)
(* sums.                                                                    *)
LEMMA SumsDiffer ==
    ASSUME NEW m \in Nat, NEW a, NEW b, NEW c, NEW d, NEW sa, NEW sb, NEW sc, NEW sd,
           Summed(sa, a, m), Summed(sb, b, m), Summed(sc, c, m), Summed(sd, d, m), DifferAlike(a, b, c, d, m)
    PROVE  EndAlike(sa, sb, sc, sd, m)
<1> DEFINE T == {k \in 0..m : sa[k] + sb[k] = sc[k] + sd[k]}
<1>0. /\ a \in [1..m -> Nat] /\ b \in [1..m -> Nat] /\ c \in [1..m -> Nat] /\ d \in [1..m -> Nat]
      /\ sa \in [0..m -> Nat] /\ sb \in [0..m -> Nat] /\ sc \in [0..m -> Nat] /\ sd \in [0..m -> Nat]
      /\ Sums(sa, a, m) /\ Sums(sb, b, m) /\ Sums(sc, c, m) /\ Sums(sd, d, m)
    BY DEF Summed
<1>1. 0 \in T
    BY <1>0 DEF Sums
<1>2. ASSUME NEW k \in 0..(m - 1), k \in T
      PROVE  k + 1 \in T
    <2>1. k + 1 \in 1..m /\ k + 1 \in 0..m /\ (k + 1) - 1 = k /\ k \in 0..m
        OBVIOUS
    <2>2. /\ sa[k + 1] = sa[k] + a[k + 1] /\ sb[k + 1] = sb[k] + b[k + 1]
          /\ sc[k + 1] = sc[k] + c[k + 1] /\ sd[k + 1] = sd[k] + d[k + 1]
        BY <1>0, <2>1 DEF Sums
    <2>3. /\ sa[k] \in Nat /\ sb[k] \in Nat /\ sc[k] \in Nat /\ sd[k] \in Nat
          /\ a[k + 1] \in Nat /\ b[k + 1] \in Nat /\ c[k + 1] \in Nat /\ d[k + 1] \in Nat
        BY <1>0, <2>1
    <2>4. sa[k] + sb[k] = sc[k] + sd[k] /\ a[k + 1] + b[k + 1] = c[k + 1] + d[k + 1]
        BY <1>2, <2>1 DEF DifferAlike
    <2>5. sa[k + 1] + sb[k + 1] = sc[k + 1] + sd[k + 1]
        <3>1. (sa[k] + a[k + 1]) + (sb[k] + b[k + 1]) = (sc[k] + c[k + 1]) + (sd[k] + d[k + 1])
            BY <2>3, <2>4, BothDiffer
        <3> QED
            BY <2>2, <3>1
    <2> QED
        BY <2>1, <2>5
<1> HIDE DEF T
<1>3. \A k \in 0..m : k \in T
    BY <1>1, <1>2, Induction
<1> QED
    BY <1>3 DEF T, EndAlike

-----------------------------------------------------------------------------
(* Scores and likeness *)

(* The words of a search are long enough to have prefixes.                  *)
LEMMA SearchWordsAreTerms ==
    ASSUME NEW words \in Seq(SearchWord)
    PROVE  Len(words) \in Nat /\ \A k \in 1..Len(words) : words[k] \in Terms /\ Len(words[k]) >= MinPrefixLen
<1>1. \A k \in 1..Len(words) : words[k] \in SearchWord
    BY ElementOfSeq
<1>2. \A w \in SearchWord : w \in Terms /\ Len(w) >= MinPrefixLen
    BY DEF SearchWord, Terms
<1> QED
    BY <1>1, <1>2, LenProperties

Counts(v, words) == [k \in 1..Len(words) |-> Cardinality(Shared(v, words[k]))]

(* A score is the sum of the numbers of shared prefixes.                    *)
LEMMA ScoreIsSum ==
    ASSUME NEW E, NEW e \in E, e.path \in Seq(Nat), NEW words \in Seq(SearchWord)
    PROVE  /\ Counts(e.path, words) \in [1..Len(words) -> Nat]
           /\ \E s \in [0..Len(words) -> Nat] :
                /\ Sums(s, Counts(e.path, words), Len(words))
                /\ ScoreOf(newPrefixIndex(E), words, e) = s[Len(words)]
<1> DEFINE index == newPrefixIndex(E)
           m == Len(words)
           c == Counts(e.path, words)
           Count(w) == Cardinality({p \in generatePrefixes(w) : e \in IdsUnder(index, p)})
           score[k \in 0..Len(words)] == IF k = 0 THEN 0 ELSE score[k - 1] + Count(words[k])
<1>1. m \in Nat /\ \A k \in 1..m : words[k] \in Terms /\ Len(words[k]) >= MinPrefixLen
    BY SearchWordsAreTerms
<1>2. c \in [1..m -> Nat]
    <2>1. \A k \in 1..m : Cardinality(Shared(e.path, words[k])) \in Nat
        BY <1>1, SharedCount
    <2> QED
        BY <2>1 DEF Counts
<1>3. \A w : {p \in generatePrefixes(w) : e \in IdsUnder(index, p)} = Shared(e.path, w)
    BY UnderPrefix DEF Shared
<1>4. \A k \in 1..m : Count(words[k]) = c[k]
    BY <1>3 DEF Counts
<1>5. ScoreOf(index, words, e) = score[m]
    BY DEF ScoreOf
<1> HIDE DEF index, Count, c
<1>6. \A k \in 0..m : k # 0 => k \in 1..m
    BY <1>1
<1>7. PICK f \in [0..m -> Nat] : Sums(f, c, m)
    BY <1>1, <1>2, SumExists
<1>8. f = [k \in 0..Len(words) |-> IF k = 0 THEN 0 ELSE f[k - 1] + Count(words[k])]
    BY <1>4, <1>6, <1>7 DEF Sums
<1>9. score = [k \in 0..Len(words) |-> IF k = 0 THEN 0 ELSE score[k - 1] + Count(words[k])]
    BY <1>8
<1> HIDE DEF score
<1>10. IsSum(score, c, m)
    BY <1>4, <1>6, <1>9 DEF IsSum
<1>11. score \in [0..m -> Nat] /\ Sums(score, c, m)
    BY <1>1, <1>2, <1>10, SumsAreSums
<1> QED
    BY <1>2, <1>5, <1>11 DEF c, index

Lengths(e) == [k \in 1..Len(Words) |-> Longest(e, Words[k])]

(* A likeness is the sum of the lengths of the longest of them.             *)
LEMMA LikenessIsSum ==
    ASSUME NEW e, PathText(e) \in Seq(Nat), Words \in Seq(SearchWord)
    PROVE  /\ Lengths(e) \in [1..Len(Words) -> Nat]
           /\ \E s \in [0..Len(Words) -> Nat] :
                Sums(s, Lengths(e), Len(Words)) /\ Likeness(e) = s[Len(Words)]
<1> DEFINE words == Words
           m == Len(words)
           c == Lengths(e)
           sum[k \in 0..Len(Words)] == IF k = 0 THEN 0 ELSE sum[k - 1] + Longest(e, Words[k])
<1>1. m \in Nat /\ \A k \in 1..m : words[k] \in Terms /\ Len(words[k]) >= MinPrefixLen
    <2> HIDE DEF words
    <2>1. words \in Seq(SearchWord)
        BY DEF words
    <2> QED
        BY <2>1, SearchWordsAreTerms
<1>2. c \in [1..m -> Nat]
    <2>1. \A k \in 1..m : Longest(e, words[k]) \in Nat
        <3> SUFFICES ASSUME NEW k \in 1..m
                     PROVE  Longest(e, words[k]) \in Nat
            OBVIOUS
        <3>1. Max({0} \cup ReachedLengths(PathText(e), words[k])) \in Nat
            BY <1>1, SharedCount
        <3> QED
            BY <3>1 DEF Longest, ReachedLengths
    <2> QED
        BY <2>1 DEF Lengths
<1>3. \A k \in 1..m : Longest(e, Words[k]) = c[k]
    BY DEF Lengths
<1>4. Likeness(e) = sum[m]
    BY DEF Likeness
<1>5. \A k \in 0..m : k # 0 => k \in 1..m
    BY <1>1
<1> HIDE DEF c, words
<1>6. PICK f \in [0..m -> Nat] : Sums(f, c, m)
    BY <1>1, <1>2, SumExists
<1>7. f = [k \in 0..Len(Words) |-> IF k = 0 THEN 0 ELSE f[k - 1] + Longest(e, Words[k])]
    BY <1>3, <1>5, <1>6 DEF Sums, words
<1>8. sum = [k \in 0..Len(Words) |-> IF k = 0 THEN 0 ELSE sum[k - 1] + Longest(e, Words[k])]
    BY <1>7
<1> HIDE DEF sum
<1>9. IsSum(sum, c, m)
    BY <1>3, <1>5, <1>8 DEF IsSum, words
<1>10. sum \in [0..m -> Nat] /\ Sums(sum, c, m)
    BY <1>1, <1>2, <1>9, SumsAreSums
<1> QED
    BY <1>2, <1>4, <1>10 DEF c, words

(* A word of the path begins like each word of the search.                  *)
HasWords(v) == \A k \in 1..Len(Words) : Shared(v, Words[k]) # {}

(* The scores of matches differ as much as their likeness.                  *)
LEMMA ScoreIsLikeness ==
    ASSUME Words \in Seq(SearchWord), NEW E, NEW d, NEW e, NEW fd \in E, NEW fe \in E,
           fd.path = PathText(d), fe.path = PathText(e),
           PathText(d) \in Seq(Nat), PathText(e) \in Seq(Nat), HasWords(PathText(d)), HasWords(PathText(e))
    PROVE  /\ ScoreOf(newPrefixIndex(E), Words, fd) \in Nat /\ ScoreOf(newPrefixIndex(E), Words, fe) \in Nat
           /\ Likeness(d) \in Nat /\ Likeness(e) \in Nat
           /\ Likeness(d) + ScoreOf(newPrefixIndex(E), Words, fe)
                = Likeness(e) + ScoreOf(newPrefixIndex(E), Words, fd)
<1> DEFINE m == Len(Words)
           ld == Lengths(d)
           le == Lengths(e)
           cd == Counts(PathText(d), Words)
           ce == Counts(PathText(e), Words)
<1>1. m \in Nat /\ \A k \in 1..m : Words[k] \in Terms /\ Len(Words[k]) >= MinPrefixLen
    <2> DEFINE words == Words
    <2>1. words \in Seq(SearchWord)
        OBVIOUS
    <2> HIDE DEF words
    <2>2. Len(words) \in Nat /\ \A k \in 1..Len(words) : words[k] \in Terms /\ Len(words[k]) >= MinPrefixLen
        BY <2>1, SearchWordsAreTerms
    <2> QED
        BY <2>2 DEF words
<1>2. ld \in [1..m -> Nat] /\ \E s \in [0..m -> Nat] : Sums(s, ld, m) /\ Likeness(d) = s[m]
    BY LikenessIsSum
<1>3. le \in [1..m -> Nat] /\ \E s \in [0..m -> Nat] : Sums(s, le, m) /\ Likeness(e) = s[m]
    BY LikenessIsSum
<1>4. cd \in [1..m -> Nat] /\ \E s \in [0..m -> Nat] : Sums(s, cd, m) /\ ScoreOf(newPrefixIndex(E), Words, fd) = s[m]
    BY ScoreIsSum
<1>5. ce \in [1..m -> Nat] /\ \E s \in [0..m -> Nat] : Sums(s, ce, m) /\ ScoreOf(newPrefixIndex(E), Words, fe) = s[m]
    BY ScoreIsSum
<1>6. \A k \in 1..m : ld[k] + ce[k] = le[k] + cd[k]
    <2> SUFFICES ASSUME NEW k \in 1..m
                 PROVE  ld[k] + ce[k] = le[k] + cd[k]
        OBVIOUS
    <2>1. Max({0} \cup ReachedLengths(PathText(d), Words[k])) = Cardinality(Shared(PathText(d), Words[k])) + MinPrefixLen - 1
        BY <1>1, SharedCount DEF HasWords
    <2>2. Max({0} \cup ReachedLengths(PathText(e), Words[k])) = Cardinality(Shared(PathText(e), Words[k])) + MinPrefixLen - 1
        BY <1>1, SharedCount DEF HasWords
    <2>3. ld[k] = cd[k] + MinPrefixLen - 1
        BY <2>1 DEF Lengths, Counts, Longest, ReachedLengths
    <2>4. le[k] = ce[k] + MinPrefixLen - 1
        BY <2>2 DEF Lengths, Counts, Longest, ReachedLengths
    <2> HIDE DEF ld, le, cd, ce
    <2>5. ld[k] \in Nat /\ le[k] \in Nat /\ cd[k] \in Nat /\ ce[k] \in Nat /\ MinPrefixLen \in Nat
        BY <1>2, <1>3, <1>4, <1>5, PrefixAssumption
    <2> QED
        BY <2>3, <2>4, <2>5
<1> HIDE DEF m, ld, le, cd, ce
<1>7. PICK sd \in [0..m -> Nat] : Sums(sd, ld, m) /\ Likeness(d) = sd[m]
    BY <1>2
<1>8. PICK se \in [0..m -> Nat] : Sums(se, le, m) /\ Likeness(e) = se[m]
    BY <1>3
<1>9. PICK td \in [0..m -> Nat] : Sums(td, cd, m) /\ ScoreOf(newPrefixIndex(E), Words, fd) = td[m]
    BY <1>4
<1>10. PICK te \in [0..m -> Nat] : Sums(te, ce, m) /\ ScoreOf(newPrefixIndex(E), Words, fe) = te[m]
    BY <1>5
<1>11. sd[m] + te[m] = se[m] + td[m]
    <2>1. Summed(sd, ld, m) /\ Summed(te, ce, m) /\ Summed(se, le, m) /\ Summed(td, cd, m)
        BY <1>2, <1>3, <1>4, <1>5, <1>7, <1>8, <1>9, <1>10 DEF Summed
    <2>2. DifferAlike(ld, ce, le, cd, m)
        BY <1>6 DEF DifferAlike
    <2>3. m \in Nat
        BY <1>1
    <2>4. EndAlike(sd, te, se, td, m)
        BY <2>1, <2>2, <2>3, SumsDiffer
    <2> QED
        BY <2>4 DEF EndAlike
<1>12. sd[m] \in Nat /\ se[m] \in Nat /\ td[m] \in Nat /\ te[m] \in Nat
    <2>1. m \in 0..m
        BY <1>1
    <2> QED
        BY <2>1
<1> QED
    BY <1>7, <1>8, <1>9, <1>10, <1>11, <1>12

-----------------------------------------------------------------------------
(* What a search is read as *)

(* Words that are read are normalised.                                      *)
NormalAcc == [word : Terms, res : Seq(SearchWord)]

(* A turn of splitToNormalizedWords yields normalised words.                *)
LEMMA NormalNext ==
    ASSUME NEW acc \in NormalAcc, NEW ch \in Nat
    PROVE  Finished(acc) \in NormalAcc /\ NextWord(acc, ch) \in NormalAcc
<1>1. acc.word \in Terms /\ acc.res \in Seq(SearchWord)
    BY DEF NormalAcc
<1>2. <<>> \in Terms
    BY EmptySeq DEF Terms
<1>3. Len(acc.word) >= MinPrefixLen => Append(acc.res, acc.word) \in Seq(SearchWord)
    <2> SUFFICES ASSUME Len(acc.word) >= MinPrefixLen
                 PROVE  Append(acc.res, acc.word) \in Seq(SearchWord)
        OBVIOUS
    <2>1. acc.word \in SearchWord
        BY <1>1 DEF Terms, SearchWord
    <2> QED
        BY <1>1, <2>1, AppendProperties
<1>4. Finished(acc) \in NormalAcc
    BY <1>1, <1>2, <1>3 DEF Finished, NormalAcc
<1>5. IsAlnum(ch) => Append(acc.word, Lower(ch)) \in Terms
    <2> SUFFICES ASSUME IsAlnum(ch)
                 PROVE  Append(acc.word, Lower(ch)) \in Terms
        OBVIOUS
    <2> DEFINE w == acc.word
               c == Lower(ch)
    <2>1. w \in Seq(Nat) /\ c \in Nat /\ IsLowerAlnum(c) /\ \A k \in 1..Len(w) : IsLowerAlnum(w[k])
        BY <1>1, Characters DEF Terms
    <2> HIDE DEF w, c
    <2>2. /\ Append(w, c) \in Seq(Nat) /\ Len(Append(w, c)) = Len(w) + 1 /\ Append(w, c)[Len(w) + 1] = c
          /\ \A k \in 1..Len(w) : Append(w, c)[k] = w[k]
        BY <2>1, AppendProperties
    <2>3. \A k \in 1..(Len(w) + 1) : k \in 1..Len(w) \/ k = Len(w) + 1
        BY <2>1, LenProperties
    <2>4. Append(w, c) \in Terms
        BY <2>1, <2>2, <2>3 DEF Terms
    <2> QED
        BY <2>4 DEF w, c
<1> QED
    BY <1>1, <1>4, <1>5 DEF NextWord, NormalAcc

(* The words of a text are normalised: lower case, no separators, long      *)
(* enough.                                                                  *)
LEMMA WordsNormal ==
    ASSUME NEW v \in Seq(Nat)
    PROVE  splitToNormalizedWords(v) \in Seq(SearchWord)
<1> DEFINE n == Len(v)
<1>1. PICK r : WordsRun(r, v)
    BY WordsRead
<1>2. n \in Nat /\ \A k \in 1..n : v[k] \in Nat
    BY LenProperties, ElementOfSeq
<1> DEFINE T == {k \in 0..n : r[k] \in NormalAcc}
<1>3. 0 \in T
    <2>1. 0 \in 0..n
        BY <1>2
    <2>2. <<>> \in Terms /\ <<>> \in Seq(SearchWord)
        BY EmptySeq DEF Terms
    <2>3. r[0] \in NormalAcc
        BY <1>1, <2>2 DEF WordsRun, NormalAcc
    <2> QED
        BY <2>1, <2>3
<1>4. ASSUME NEW k \in 0..(n - 1), k \in T
      PROVE  k + 1 \in T
    <2>1. k + 1 \in 1..n /\ k + 1 \in 0..n /\ (k + 1) - 1 = k
        BY <1>2
    <2>2. r[k + 1] = NextWord(r[k], v[k + 1])
        BY <1>1, <2>1 DEF WordsRun
    <2> QED
        BY <1>2, <1>4, <2>1, <2>2, NormalNext
<1> HIDE DEF T
<1>5. \A k \in 0..n : k \in T
    BY <1>2, <1>3, <1>4, Induction
<1>6. n \in 0..n
    BY <1>2
<1>7. r[n] \in NormalAcc
    BY <1>5, <1>6 DEF T
<1>8. Finished(r[n]) \in NormalAcc
    BY <1>7, NormalNext
<1> QED
    BY <1>1, <1>8 DEF WordsRun, NormalAcc

(* Text without the blanks around it is text.                               *)
LEMMA TrimTyped ==
    ASSUME NEW v \in Seq(Nat)
    PROVE  TrimSpace(v) \in Seq(Nat)
<1> DEFINE solid == {k \in DOMAIN v : v[k] # Space}
<1>1. DOMAIN v = 1..Len(v) /\ Len(v) \in Nat /\ \A k \in 1..Len(v) : v[k] \in Nat
    BY LenProperties, ElementOfSeq
<1>2. CASE solid = {}
    BY <1>2, EmptySeq DEF TrimSpace
<1>3. CASE solid # {}
    <2>1. solid \in SUBSET Nat /\ solid \in SUBSET (0..Len(v)) /\ solid \in SUBSET (1..Len(v))
        BY <1>1
    <2> DEFINE a == Min(solid)
               b == Max(solid)
    <2>2. TrimSpace(v) = SubSeq(v, a, b)
        BY <1>3 DEF TrimSpace
    <2> HIDE DEF solid
    <2>3. a \in solid /\ b \in solid
        BY <1>1, <1>3, <2>1, LeastNumber, GreatestNumber
    <2> HIDE DEF a, b
    <2>4. a \in 1..Len(v) /\ b \in 1..Len(v)
        BY <2>1, <2>3
    <2>5. a \in Int /\ b \in Int /\ \A i \in a..b : i \in 1..Len(v)
        BY <1>1, <2>4
    <2>6. \A i \in a..b : v[i] \in Nat
        BY <1>1, <2>5
    <2>7. SubSeq(v, a, b) \in Seq(Nat)
        BY <2>5, <2>6, SubSeqProperties
    <2> QED
        BY <2>2, <2>7
<1> QED
    BY <1>2, <1>3

Part == [kind : {"exact", "exclude", "word"}, word : Seq(Nat)]

ScanState == [idx : Nat \ {0}, parts : Seq(Part)]

(* A part that is cut from the text is text, and ends behind its begin.     *)
LEMMA CutTyped ==
    ASSUME NEW s \in Seq(Nat), NEW start \in Nat \ {0}, start <= Len(s) + 1, NEW until
    PROVE  /\ readUntil(s, start, until) \in Nat \ {0}
           /\ SubSeq(s, start, readUntil(s, start, until) - 1) \in Seq(Nat)
<1> DEFINE ends == {k \in start..Len(s) : s[k] = until}
           end == readUntil(s, start, until)
<1>1. Len(s) \in Nat /\ \A k \in 1..Len(s) : s[k] \in Nat
    BY LenProperties, ElementOfSeq
<1>2. end \in Nat \ {0} /\ end <= Len(s) + 1
    <2>1. CASE ends = {}
        BY <1>1, <2>1 DEF readUntil
    <2>2. CASE ends # {}
        <3>1. ends \in SUBSET Nat /\ ends \in SUBSET (start..Len(s))
            BY <1>1
        <3>2. end = Min(ends)
            BY <2>2 DEF readUntil
        <3> HIDE DEF ends, end
        <3>3. end \in ends
            BY <2>2, <3>1, <3>2, LeastNumber
        <3>4. end \in start..Len(s)
            BY <3>1, <3>3
        <3> QED
            BY <1>1, <3>4
    <2> QED
        BY <2>1, <2>2
<1> HIDE DEF end
<1>3. start \in Int /\ end - 1 \in Int /\ \A i \in start..(end - 1) : i \in 1..Len(s)
    BY <1>1, <1>2
<1>4. \A i \in start..(end - 1) : s[i] \in Nat
    BY <1>1, <1>3
<1>5. SubSeq(s, start, end - 1) \in Seq(Nat)
    BY <1>3, <1>4, SubSeqProperties
<1> QED
    BY <1>2, <1>5 DEF end

(* A turn of the scanner moves on and may add a part.                       *)
LEMMA ScanTyped ==
    ASSUME NEW s \in Seq(Nat), NEW at \in ScanState
    PROVE  ScanPart(s, at) \in ScanState
<1> DEFINE i == at.idx
           exact == s[i] = Quote
           exclude == s[i] = Minus
           quoted == exact \/ (exclude /\ i < Len(s) /\ s[i + 1] = Quote)
           start == i + (IF exclude THEN 1 ELSE 0) + (IF quoted THEN 1 ELSE 0)
           end == readUntil(s, start, IF quoted THEN Quote ELSE Space)
           word == TrimSpace(SubSeq(s, start, end - 1))
           kind == IF exact THEN "exact" ELSE IF exclude THEN "exclude" ELSE "word"
           part == [kind |-> kind, word |-> word]
<1>1. i \in Nat \ {0} /\ at.parts \in Seq(Part) /\ Len(s) \in Nat
    BY LenProperties DEF ScanState
<1>2. CASE i > Len(s)
    BY <1>2 DEF ScanPart
<1>3. CASE ~(i > Len(s)) /\ s[i] = Space
    <2>1. ScanPart(s, at) = [at EXCEPT !.idx = i + 1]
        BY <1>3 DEF ScanPart
    <2>2. i + 1 \in Nat \ {0}
        BY <1>1
    <2> QED
        BY <2>1, <2>2 DEF ScanState
<1>4. CASE ~(i > Len(s)) /\ s[i] # Space
    <2>1. ScanPart(s, at) = [idx |-> end + 1, parts |-> IF word = <<>> THEN at.parts ELSE Append(at.parts, part)]
        BY <1>4 DEF ScanPart
    <2>2. start \in Nat \ {0} /\ start <= Len(s) + 1
        <3>1. ~(exact /\ exclude)
            BY DEF Quote, Minus
        <3>2. quoted => exact \/ (exclude /\ i < Len(s))
            OBVIOUS
        <3>3. exclude \in BOOLEAN /\ quoted \in BOOLEAN
            OBVIOUS
        <3>4. at.idx <= Len(s) /\ at.idx \in Nat \ {0} /\ Len(s) \in Nat
            BY <1>1, <1>4
        <3> HIDE DEF exact, exclude, quoted
        <3>5. CASE exact
            BY <3>1, <3>4, <3>5
        <3>6. CASE ~exact
            BY <3>2, <3>3, <3>4, <3>6
        <3> QED
            BY <3>5, <3>6
    <2>3. end \in Nat \ {0} /\ SubSeq(s, start, end - 1) \in Seq(Nat)
        <3> HIDE DEF start
        <3> QED
            BY <2>2, CutTyped
    <2>4. word \in Seq(Nat)
        BY <2>3, TrimTyped
    <2>5. part \in Part
        <3> HIDE DEF word
        <3> QED
            BY <2>4 DEF Part
    <2> HIDE DEF part, word, end
    <2>6. Append(at.parts, part) \in Seq(Part)
        BY <1>1, <2>5, AppendProperties
    <2>7. end + 1 \in Nat \ {0}
        BY <2>3
    <2> QED
        BY <1>1, <2>1, <2>6, <2>7 DEF ScanState
<1> QED
    BY <1>2, <1>3, <1>4

(* The scanner yields parts of the text.                                    *)
LEMMA PartsTyped ==
    ASSUME NEW s \in Seq(Nat)
    PROVE  ScanParts(s) \in Seq(Part)
<1> DEFINE n == Len(s)
           e == [idx |-> 1, parts |-> <<>>]
           scan[k \in 0..Len(s)] == IF k = 0 THEN [idx |-> 1, parts |-> <<>>] ELSE ScanPart(s, scan[k - 1])
           step == [p \in ScanState \X (1..n) |-> ScanPart(s, p[1])]
<1>1. n \in Nat
    BY LenProperties
<1>2. e \in ScanState
    BY EmptySeq DEF ScanState
<1>3. \A x \in ScanState : ScanPart(s, x) \in ScanState
    BY ScanTyped
<1>4. PICK f \in [0..n -> ScanState] : Computes(f, e, step, n)
    <2>1. step \in [ScanState \X (1..n) -> ScanState]
        BY <1>3
    <2> HIDE DEF step, n, e
    <2> QED
        BY <1>1, <1>2, <2>1, TypedRecursion
<1>5. f = [k \in 0..Len(s) |-> IF k = 0 THEN [idx |-> 1, parts |-> <<>>] ELSE ScanPart(s, f[k - 1])]
    <2>1. \A k \in 0..n : k # 0 => k \in 1..n /\ k - 1 \in 0..n
        BY <1>1
    <2>2. ASSUME NEW k \in 1..n
          PROVE  f[k] = ScanPart(s, f[k - 1])
        <3>1. k - 1 \in 0..n
            BY <1>1
        <3>2. f[k - 1] \in ScanState
            BY <3>1
        <3>3. f[k] = step[<<f[k - 1], k>>]
            BY <1>4 DEF Computes
        <3> QED
            BY <3>2, <3>3
    <2>3. f[0] = [idx |-> 1, parts |-> <<>>]
        BY <1>4 DEF Computes
    <2> HIDE DEF step
    <2> QED
        BY <2>1, <2>2, <2>3
<1>6. scan = [k \in 0..Len(s) |-> IF k = 0 THEN [idx |-> 1, parts |-> <<>>] ELSE ScanPart(s, scan[k - 1])]
    BY <1>5
<1>7. ScanParts(s) = scan[n].parts
    BY DEF ScanParts
<1> HIDE DEF scan, step
<1> DEFINE T == {k \in 0..n : scan[k] \in ScanState}
<1>8. 0 \in T
    <2>1. 0 \in 0..n
        BY <1>1
    <2>2. scan[0] = e
        BY <1>6, <2>1
    <2> HIDE DEF e
    <2> QED
        BY <1>2, <2>1, <2>2
<1>9. ASSUME NEW k \in 0..(n - 1), k \in T
      PROVE  k + 1 \in T
    <2>1. k + 1 \in 0..n /\ k + 1 # 0 /\ (k + 1) - 1 = k
        BY <1>1
    <2>2. scan[k + 1] = ScanPart(s, scan[k])
        BY <1>6, <2>1
    <2> QED
        BY <1>3, <1>9, <2>1, <2>2
<1> HIDE DEF T
<1>10. \A k \in 0..n : k \in T
    BY <1>1, <1>8, <1>9, Induction
<1>11. n \in 0..n
    BY <1>1
<1>12. scan[n] \in ScanState
    BY <1>10, <1>11 DEF T
<1> QED
    BY <1>7, <1>12 DEF ScanState

(* The words of a search are normalised like those of the index.            *)
LEMMA RequestWords ==
    ASSUME NEW text \in Seq(Nat)
    PROVE  newSearchRequest(text).words \in Seq(SearchWord)
<1> DEFINE parts == ScanParts(ToLower(text))
           W(part) == IF part.kind = "word" THEN splitToNormalizedWords(part.word) ELSE <<>>
           all == [k \in DOMAIN parts |-> W(parts[k])]
           Q == Seq(SearchWord)
<1>1. parts \in Seq(Part)
    BY LowerText, PartsTyped
<1>2. newSearchRequest(text).words = FlattenSeq(all)
    BY DEF newSearchRequest, RequestOf
<1> HIDE DEF parts
<1>3. DOMAIN parts = 1..Len(parts) /\ Len(parts) \in Nat /\ \A k \in 1..Len(parts) : parts[k] \in Part
    BY <1>1, LenProperties, ElementOfSeq
<1>4. \A part \in Part : W(part) \in Q
    BY WordsNormal, EmptySeq DEF Part
<1> HIDE DEF W, Q
<1>5. all \in [1..Len(parts) -> Q]
    BY <1>3, <1>4
<1>6. all \in Seq(Q)
    BY <1>3, <1>5, IsASeq
<1> HIDE DEF all
<1>7. FlattenSeq(all) \in Seq(SearchWord)
    BY <1>6, FlattenTyped DEF Q
<1> QED
    BY <1>2, <1>7

-----------------------------------------------------------------------------
(* What lies under a directory *)

(* Behind a slash no name that was read changes any more.                   *)
LEMMA NamesKeep ==
    ASSUME NEW s \in Seq(Nat), NEW k \in 2..Len(s), NEW x \in Seq(Seq(Nat)), NEW u \in Seq(Seq(Nat)),
           Starts(u, x), s[k - 1] # Slash => Len(x) > Len(u)
    PROVE  /\ NextNames(s, x, k) \in Seq(Seq(Nat)) /\ Starts(u, NextNames(s, x, k))
           /\ s[k] # Slash => Len(NextNames(s, x, k)) > Len(u)
<1> DEFINE Q == Seq(Nat)
<1>1. s[k] \in Nat /\ k # 1 /\ x \in Seq(Q) /\ u \in Seq(Q)
    BY ElementOfSeq
<1>2. Len(x) \in Nat /\ Len(u) \in Nat
    BY LenProperties
<1>3. Len(u) <= Len(x) /\ \A i \in 1..Len(u) : u[i] = x[i]
    BY DEF Starts
<1>4. CASE s[k] = Slash
    BY <1>4 DEF NextNames
<1>5. CASE s[k] # Slash /\ s[k - 1] = Slash
    <2> DEFINE c == <<s[k]>>
               y == Append(x, c)
    <2>1. c \in Q
        BY <1>1
    <2> HIDE DEF Q, c
    <2>2. y \in Seq(Q) /\ Len(y) = Len(x) + 1 /\ \A i \in 1..Len(x) : y[i] = x[i]
        BY <1>1, <2>1, AppendProperties
    <2>3. NextNames(s, x, k) = y
        BY <1>5 DEF NextNames, c
    <2> HIDE DEF y
    <2>4. Len(y) > Len(u) /\ Len(u) <= Len(y) /\ \A i \in 1..Len(u) : i \in 1..Len(x)
        BY <1>2, <1>3, <2>2
    <2>5. Starts(u, y)
        BY <1>3, <2>2, <2>4 DEF Starts
    <2> QED
        BY <2>2, <2>3, <2>4, <2>5 DEF Q
<1>6. CASE s[k] # Slash /\ s[k - 1] # Slash
    <2>1. Len(x) > Len(u) /\ x # <<>>
        BY <1>2, <1>6, EmptySeq
    <2> HIDE DEF Q
    <2>2. PICK a \in Seq(Q), z \in Q : x = Append(a, z)
        BY <1>1, <2>1, SequenceEmptyOrAppend
    <2>3. Front(x) = a /\ Last(x) = z /\ Len(x) = Len(a) + 1 /\ (\A i \in 1..Len(a) : x[i] = a[i]) /\ Len(a) \in Nat
        BY <2>2, FrontLast, AppendProperties, LenProperties
    <2> DEFINE longer == Append(z, s[k])
               y == Append(a, longer)
    <2>4. longer \in Q
        BY <1>1, <2>2, AppendProperties DEF Q
    <2>5. NextNames(s, x, k) = y
        BY <1>1, <1>6, <2>3 DEF NextNames
    <2> HIDE DEF longer
    <2>6. y \in Seq(Q) /\ Len(y) = Len(a) + 1 /\ \A i \in 1..Len(a) : y[i] = a[i]
        BY <2>2, <2>4, AppendProperties
    <2> HIDE DEF y
    <2>7. Len(y) > Len(u) /\ Len(u) <= Len(y) /\ \A i \in 1..Len(u) : i \in 1..Len(a)
        BY <1>2, <2>1, <2>3, <2>6
    <2>8. Starts(u, y)
        BY <1>3, <2>3, <2>6, <2>7 DEF Starts
    <2> QED
        BY <2>5, <2>6, <2>7, <2>8 DEF Q
<1> QED
    BY <1>4, <1>5, <1>6

(* Names that a slash has ended stay as they are to the end of the text.    *)
LEMMA NamesKept ==
    ASSUME NEW s \in Seq(Nat), NEW g, Reads(g, s), NEW j \in 1..Len(s), s[j] = Slash, g[j] \in Seq(Seq(Nat))
    PROVE  /\ g[Len(s)] \in Seq(Seq(Nat)) /\ Starts(g[j], g[Len(s)])
           /\ s[Len(s)] # Slash => Len(g[Len(s)]) > Len(g[j])
<1> DEFINE Fine(i) == /\ g[i] \in Seq(Seq(Nat)) /\ Starts(g[j], g[i])
                      /\ s[i] # Slash => Len(g[i]) > Len(g[j])
           m == Len(s) - j
           T == {i \in 0..m : Fine(j + i)}
<1>1. Len(s) \in Nat /\ j \in Nat \ {0} /\ m \in Nat /\ j + m = Len(s)
    BY LenProperties
<1>2. Fine(j)
    <2>1. Len(g[j]) \in Nat
        BY LenProperties
    <2> QED
        BY <2>1 DEF Starts
<1>3. 0 \in T
    <2>1. 0 \in 0..m /\ j + 0 = j
        BY <1>1
    <2> HIDE DEF Fine
    <2> QED
        BY <1>2, <2>1
<1>4. ASSUME NEW i \in 0..(m - 1), i \in T
      PROVE  i + 1 \in T
    <2> DEFINE k == j + (i + 1)
    <2>1. k \in 2..Len(s) /\ k \in 1..Len(s) /\ k - 1 = j + i /\ i + 1 \in 0..m
        BY <1>1
    <2>2. Fine(k - 1)
        <3> HIDE DEF Fine
        <3> QED
            BY <1>4, <2>1
    <2>3. g[k] = NextNames(s, g[k - 1], k)
        BY <2>1 DEF Reads
    <2> HIDE DEF k
    <2>4. /\ g[k - 1] \in Seq(Seq(Nat)) /\ g[j] \in Seq(Seq(Nat)) /\ Starts(g[j], g[k - 1])
          /\ s[k - 1] # Slash => Len(g[k - 1]) > Len(g[j])
        BY <2>2
    <2>5. /\ NextNames(s, g[k - 1], k) \in Seq(Seq(Nat)) /\ Starts(g[j], NextNames(s, g[k - 1], k))
          /\ s[k] # Slash => Len(NextNames(s, g[k - 1], k)) > Len(g[j])
        BY <2>1, <2>4, NamesKeep
    <2>6. Fine(k)
        BY <2>3, <2>5
    <2> HIDE DEF Fine
    <2> QED
        BY <2>1, <2>6 DEF k
<1> HIDE DEF T, m
<1>5. \A i \in 0..m : i \in T
    BY <1>1, <1>3, <1>4, Induction
<1>6. m \in 0..m
    BY <1>1
<1>7. Fine(Len(s))
    <2> HIDE DEF Fine
    <2> QED
        BY <1>1, <1>5, <1>6 DEF T
<1> QED
    BY <1>7

(* Text that begins with another is read like it so far.                    *)
LEMMA ReadAlike ==
    ASSUME NEW s \in Seq(Nat), NEW t \in Seq(Nat), Starts(s, t), NEW g, NEW h,
           g[0] = <<>>, h[0] = <<>>, Reads(g, s), Reads(h, t)
    PROVE  g[Len(s)] = h[Len(s)]
<1> DEFINE n == Len(s)
           T == {k \in 0..n : g[k] = h[k]}
<1>1. n \in Nat /\ Len(t) \in Nat /\ n <= Len(t) /\ \A k \in 1..n : s[k] = t[k]
    BY LenProperties DEF Starts
<1>2. 0 \in T
    BY <1>1
<1>3. ASSUME NEW k \in 0..(n - 1), k \in T
      PROVE  k + 1 \in T
    <2> DEFINE j == k + 1
    <2>1. /\ j \in 1..n /\ j \in 1..Len(t) /\ j \in 0..n /\ j - 1 = k
          /\ j = 1 \/ j - 1 \in 1..n
        BY <1>1
    <2> HIDE DEF j
    <2>2. g[j] = NextNames(s, g[k], j) /\ h[j] = NextNames(t, h[k], j)
        BY <2>1 DEF Reads
    <2>3. s[j] = t[j] /\ (j = 1 \/ s[j - 1] = t[j - 1])
        BY <1>1, <2>1
    <2>4. g[k] = h[k]
        BY <1>3
    <2>5. g[j] = h[j]
        BY <2>2, <2>3, <2>4 DEF NextNames
    <2> QED
        BY <2>1, <2>5 DEF j
<1> HIDE DEF T
<1>4. \A k \in 0..n : k \in T
    BY <1>1, <1>2, <1>3, Induction
<1>5. n \in 0..n
    BY <1>1
<1> QED
    BY <1>4, <1>5 DEF T

IsPlaced(e) == e.dir \in Seq(Name) /\ e.name \in Name /\ e.isDir \in BOOLEAN

(* Paths as text are not empty.                                             *)
LEMMA TextTyped ==
    ASSUME NEW e, IsPlaced(e)
    PROVE  PathText(e) \in Seq(Nat) /\ Len(PathText(e)) \in Nat \ {0}
<1> DEFINE m == Len(PathOf(e))
           end == IF e.isDir THEN <<Slash>> ELSE <<>>
<1>0. e.dir \in Seq(Name) /\ e.name \in Name
    BY DEF IsPlaced
<1>1. PICK t \in [0..m -> Seq(Nat)] :
        /\ t[0] = <<>>
        /\ Grows(t, PathOf(e), m)
        /\ PathText(e) = t[m] \o end
    BY <1>0, TextOfPath
<1>2. m \in Nat \ {0} /\ m \in 0..m /\ m \in 1..m /\ m - 1 \in 0..m /\ PathOf(e)[m] \in Seq(Nat)
    <2>1. m \in Nat \ {0} /\ \A k \in 1..m : PathOf(e)[k] \in Name
        BY <1>0, PathIsNames
    <2> HIDE DEF m
    <2>2. m \in 0..m /\ m \in 1..m /\ m - 1 \in 0..m
        BY <2>1
    <2> QED
        BY <2>1, <2>2 DEF Name
<1>3. end \in Seq(Nat) /\ Len(end) \in Nat
    BY EmptySeq DEF Slash
<1> DEFINE a == t[m - 1]
           b == PathOf(e)[m]
<1>4. t[m] = (a \o <<Slash>>) \o b /\ t[m] \in Seq(Nat) /\ a \in Seq(Nat) /\ b \in Seq(Nat)
    BY <1>1, <1>2 DEF Grows
<1> HIDE DEF end, a, b, m
<1>5. Len((a \o <<Slash>>) \o b) = Len(a) + 1 + Len(b) /\ Len(a) \in Nat /\ Len(b) \in Nat
    BY <1>4, NameBehind, LenProperties
<1>6. Len(t[m]) \in Nat \ {0}
    BY <1>4, <1>5
<1>7. t[m] \o end \in Seq(Nat) /\ Len(t[m] \o end) = Len(t[m]) + Len(end)
    BY <1>3, <1>4, ConcatProperties
<1> QED
    BY <1>1, <1>3, <1>6, <1>7

(* A slash has room where a name has.                                       *)
LEMMA RoomFor ==
    ASSUME NEW x \in Nat, NEW y \in Nat, NEW z \in Nat, x + 1 + y <= z
    PROVE  x + 1 <= z
    OBVIOUS

(* The paths under a directory begin with its path.                         *)
LEMMA UnderBegins ==
    ASSUME NEW d, NEW e, IsPlaced(d), IsPlaced(e), d.isDir, IsStrictPrefix(PathOf(d), PathOf(e))
    PROVE  Starts(PathText(d), PathText(e))
<1> DEFINE pd == PathOf(d)
           pe == PathOf(e)
           m == Len(pd)
           n == Len(pe)
           s == PathText(e)
           end == IF e.isDir THEN <<Slash>> ELSE <<>>
<1>0. d.dir \in Seq(Name) /\ d.name \in Name /\ e.dir \in Seq(Name) /\ e.name \in Name
    BY DEF IsPlaced
<1>1. pd \in Seq(Name) /\ pe \in Seq(Name) /\ m \in Nat /\ n \in Nat /\ \A k \in 1..n : pe[k] \in Name
    BY <1>0, PathIsNames
<1>2. m <= n /\ (\A k \in 1..m : pd[k] = pe[k]) /\ pd # pe
    <2>1. IsPrefix(pd, pe) /\ pd # pe
        BY DEF IsStrictPrefix
    <2> HIDE DEF pd, pe
    <2>2. Starts(pd, pe)
        BY <1>1, <2>1, PrefixStarts
    <2> QED
        BY <2>1, <2>2 DEF Starts
<1>3. m < n
    <2> HIDE DEF pd, pe
    <2>1. m # n
        BY <1>1, <1>2, SeqEqual
    <2> QED
        BY <1>1, <1>2, <2>1
<1>4. PICK t \in [0..m -> Seq(Nat)] : t[0] = <<>> /\ Grows(t, pd, m) /\ PathText(d) = t[m] \o <<Slash>>
    <2>1. \E t \in [0..m -> Seq(Nat)] :
             /\ t[0] = <<>>
             /\ Grows(t, pd, m)
             /\ PathText(d) = t[m] \o (IF d.isDir THEN <<Slash>> ELSE <<>>)
        BY <1>0, TextOfPath
    <2> QED
        BY <2>1
<1>5. PICK u \in [0..n -> Seq(Nat)] : u[0] = <<>> /\ Grows(u, pe, n) /\ s = u[n] \o end
    BY <1>0, TextOfPath
<1>6. s \in Seq(Nat) /\ PathText(d) \in Seq(Nat)
    BY TextTyped
<1>7. end \in Seq(Nat)
    BY EmptySeq DEF Slash
<1> HIDE DEF pd, pe, s, end
<1>8. Begins(s, u[n])
    <2> DEFINE a == u[n]
    <2>1. a \in Seq(Nat)
        BY <1>1
    <2> HIDE DEF a
    <2>2. /\ Len(a) \in Nat /\ Len(end) \in Nat /\ Len(a \o end) = Len(a) + Len(end)
          /\ \A i \in 1..(Len(a) + Len(end)) : (a \o end)[i] = IF i <= Len(a) THEN a[i] ELSE end[i - Len(a)]
        BY <1>7, <2>1, ConcatProperties, LenProperties
    <2>3. Len(a) <= Len(a) + Len(end) /\ \A i \in 1..Len(a) : i \in 1..(Len(a) + Len(end)) /\ i <= Len(a)
        BY <2>2
    <2>4. Begins(a \o end, a)
        BY <2>2, <2>3 DEF Begins
    <2> QED
        BY <1>5, <2>4 DEF a
<1>9. pe \in [1..n -> Seq(Nat)]
    BY <1>1, LenProperties DEF Name
<1> HIDE DEF m, n
<1>10. m + 1 \in 1..n /\ (m + 1) - 1 = m
    BY <1>1, <1>3
<1>11. Len(u[m]) \in Nat /\ NameAt(s, Len(u[m]), pe[m + 1]) /\ Begins(s, u[m])
    <2>1. \A k \in 1..n : /\ Len(u[k - 1]) \in Nat
                          /\ NameAt(s, Len(u[k - 1]), pe[k])
                          /\ Begins(s, u[k - 1])
        BY <1>1, <1>5, <1>6, <1>8, <1>9, Layout
    <2> QED
        BY <1>10, <2>1
<1> DEFINE T == {k \in 0..m : t[k] = u[k]}
<1>12. 0 \in T
    <2>1. 0 \in 0..m
        BY <1>1
    <2> QED
        BY <1>4, <1>5, <2>1
<1>13. ASSUME NEW k \in 0..(m - 1), k \in T
       PROVE  k + 1 \in T
    <2>1. k + 1 \in 1..m /\ k + 1 \in 1..n /\ k + 1 \in 0..m /\ (k + 1) - 1 = k
        BY <1>1, <1>3
    <2>2. t[k + 1] = (t[k] \o <<Slash>>) \o pd[k + 1] /\ u[k + 1] = (u[k] \o <<Slash>>) \o pe[k + 1]
        BY <1>4, <1>5, <2>1 DEF Grows
    <2>3. pd[k + 1] = pe[k + 1] /\ t[k] = u[k]
        BY <1>2, <1>13, <2>1 DEF m
    <2> QED
        BY <2>1, <2>2, <2>3
<1> HIDE DEF T
<1>14. t[m] = u[m]
    <2>1. \A k \in 0..m : k \in T
        BY <1>1, <1>12, <1>13, Induction
    <2>2. m \in 0..m
        BY <1>1
    <2> QED
        BY <2>1, <2>2 DEF T
<1> DEFINE a == u[m]
           z == a \o <<Slash>>
<1>15. a \in Seq(Nat) /\ Len(a) \in Nat /\ Begins(s, a) /\ Len(a) + 1 <= Len(s) /\ s[Len(a) + 1] = Slash
    <2>1. m \in 0..n /\ a \in Seq(Nat)
        BY <1>1, <1>3
    <2>2. pe[m + 1] \in Seq(Nat) /\ Len(pe[m + 1]) \in Nat /\ Len(s) \in Nat
        BY <1>6, <1>9, <1>10, LenProperties
    <2>3. Len(a) + 1 + Len(pe[m + 1]) <= Len(s)
        BY <1>11 DEF NameAt
    <2>4. Len(a) + 1 <= Len(s)
        <3>1. Len(a) \in Nat
            BY <2>1, LenProperties
        <3> QED
            BY <2>2, <2>3, <3>1, RoomFor
    <2> QED
        BY <1>11, <2>1, <2>4 DEF NameAt
<1> HIDE DEF a
<1>16. /\ Len(z) = Len(a) + 1 /\ z[Len(a) + 1] = Slash /\ \A i \in 1..Len(a) : z[i] = a[i]
    <2>1. <<Slash>> \in Seq(Nat) /\ Len(<<Slash>>) = 1 /\ <<Slash>>[1] = Slash
        BY DEF Slash
    <2>2. /\ Len(z) = Len(a) + 1
          /\ \A i \in 1..(Len(a) + 1) : z[i] = IF i <= Len(a) THEN a[i] ELSE <<Slash>>[i - Len(a)]
        BY <1>15, <2>1, ConcatProperties
    <2>3. Len(a) + 1 \in 1..(Len(a) + 1) /\ ~(Len(a) + 1 <= Len(a)) /\ (Len(a) + 1) - Len(a) = 1
        BY <1>15
    <2>4. \A i \in 1..Len(a) : i \in 1..(Len(a) + 1) /\ i <= Len(a)
        BY <1>15
    <2> QED
        BY <2>1, <2>2, <2>3, <2>4
<1> HIDE DEF z
<1>17. \A i \in 1..(Len(a) + 1) : i \in 1..Len(a) \/ i = Len(a) + 1
    BY <1>15
<1>18. Starts(z, s)
    BY <1>15, <1>16, <1>17 DEF Starts, Begins
<1>19. PathText(d) = z
    BY <1>4, <1>14 DEF a, z
<1> QED
    BY <1>18, <1>19 DEF s

(* Nothing else does, but the directory itself.                             *)
LEMMA BeginsUnder ==
    ASSUME NEW d, NEW e, IsPlaced(d), IsPlaced(e), d.isDir, Starts(PathText(d), PathText(e))
    PROVE  PathText(d) = PathText(e) \/ IsStrictPrefix(PathOf(d), PathOf(e))
<1> DEFINE s == PathText(d)
           t == PathText(e)
           pd == PathOf(d)
           pe == PathOf(e)
<1>0. d.dir \in Seq(Name) /\ d.name \in Name /\ e.dir \in Seq(Name) /\ e.name \in Name
    BY DEF IsPlaced
<1>1. s \in Seq(Nat) /\ t \in Seq(Nat) /\ Len(s) \in Nat \ {0} /\ Len(t) \in Nat
    BY TextTyped
<1>2. pd \in Seq(Name) /\ pe \in Seq(Name)
    BY <1>0, PathIsNames
<1>3. Elements(s) = pd /\ Elements(t) = pe /\ s[Len(s)] = Slash /\ (t[Len(t)] = Slash <=> e.isDir)
    BY <1>0, ElementsOfText
<1>4. PICK g : g[0] = <<>> /\ Reads(g, s) /\ Elements(s) = g[Len(s)]
    BY <1>1, NamesOfText
<1>5. PICK h : h[0] = <<>> /\ Reads(h, t) /\ Elements(t) = h[Len(t)]
    BY <1>1, NamesOfText
<1> HIDE DEF s, t
<1>6. Starts(s, t)
    BY DEF s, t
<1>7. h[Len(s)] = pd
    BY <1>1, <1>3, <1>4, <1>5, <1>6, ReadAlike
<1> HIDE DEF pd, pe
<1>8. Len(s) \in 1..Len(s) /\ Len(s) \in 1..Len(t)
    <2>1. Len(s) <= Len(t)
        BY <1>6 DEF Starts
    <2> QED
        BY <1>1, <2>1
<1>9. t[Len(s)] = Slash
    BY <1>3, <1>6, <1>8 DEF Starts
<1>10. pd \in Seq(Seq(Nat))
    BY <1>2, SeqMonotonic DEF Name
<1>11. Starts(pd, pe) /\ (t[Len(t)] # Slash => Len(pe) > Len(pd))
    <2>1. h[Len(s)] \in Seq(Seq(Nat))
        BY <1>7, <1>10
    <2>2. Starts(h[Len(s)], h[Len(t)]) /\ (t[Len(t)] # Slash => Len(h[Len(t)]) > Len(h[Len(s)]))
        BY <1>1, <1>5, <1>8, <1>9, <2>1, NamesKept
    <2> QED
        BY <1>3, <1>5, <1>7, <2>2
<1>12. CASE pd = pe
    <2>1. Len(pd) \in Nat
        BY <1>2, LenProperties
    <2>2. e.isDir
        BY <1>3, <1>11, <1>12, <2>1
    <2>3. s = t
        BY <1>12, <2>2 DEF s, t, pd, pe, PathText
    <2> QED
        BY <2>3 DEF s, t
<1>13. CASE pd # pe
    <2>1. IsPrefix(pd, pe)
        BY <1>2, <1>11, PrefixStarts
    <2> QED
        BY <1>13, <2>1 DEF IsStrictPrefix, pd, pe
<1> QED
    BY <1>12, <1>13

-----------------------------------------------------------------------------
(* The inductive invariant *)

IsList(dir) == \E S : dir \in Seq(S)

(* Configuration and remote are what Cases allows.                          *)
Setting ==
    /\ IsConfig(cfg)
    /\ IsTree(remote)
    /\ request.handler \in {"search", "search page"} =>
         request.search \in Seq(Nat) /\ request.limit \in Int \cup {NotANumber}
    /\ request.handler = "ui" => IsList(request.dir)

(* The page of a directory shows the directory, unless it is missing.       *)
DirPageInv ==
    /\ Page({"dir"}) =>
         /\ Exists(response.dir)
         /\ response.entries \in GetDirInfo(ListingOf(response.dir), request.sort, request.order)
         /\ response.breadcrumbs = Breadcrumbs(response.dir, <<Home>> \o response.dir)
    /\ Page({"not found"}) =>
         /\ request.handler = "ui" /\ response.dir = request.dir /\ ~Exists(JoinPath(response.dir))
         /\ response.breadcrumbs = Breadcrumbs(response.dir, <<Home, Unknown>>)

(* The pages of searches show entries of the remote.                        *)
SearchPageInv ==
    Page({"search page"}) =>
      /\ response.breadcrumbs = Breadcrumbs(<<SearchResults>>, <<Home, SearchResults>>)
      /\ \A k \in DOMAIN response.entries :
           \E x \in remote : /\ response.entries[k].of = AsHit(x)
                             /\ response.entries[k].isDir = x.isDir

(* The results of a search are what the index found.                        *)
FromIndex(hits, total) ==
    \E found \in Search(newPrefixIndex(GetAllFiles), request.search, request.limit) :
      ~found.panic /\ hits = found.hits /\ total = found.total

HitsInv ==
    Page({"search"}) =>
      /\ request.search \in Seq(Nat) /\ request.limit \in Int
      /\ FromIndex(response.hits, response.total)
      /\ \A k \in DOMAIN response.hits : response.hits[k].entry \in GetAllFiles

IsFile(id) == \E x \in remote : ~x.isDir /\ id = FileID(x)

(* The request is for the directory the link stands for, which exists.      *)
ToDir ==
    /\ request.dir = promise.dir /\ Asked = promise.dir
    /\ Exists(promise.dir)
    /\ promise.file # <<>> =>
         \E x \in remote : ~x.isDir /\ x.dir = promise.dir /\ x.name = promise.file

(* Links are to directories and files of the remote, those to directories   *)
(* unless they are misled.                                                  *)
LinkInv ==
    promise.made =>
      \/ request.handler = "ui" /\ (~Misled => ToDir)
      \/ request.handler = "file" /\ IsFile(request.id)
      \/ /\ request.handler = "thumbnail"
         /\ IsFile(request.id)
         /\ request.size \in {"small", "medium", "large"}
         /\ CanGenerateThumbnail(request.id)

WebInv ==
    /\ Setting
    /\ DirPageInv /\ SearchPageInv /\ HitsInv
    /\ LinkInv
    /\ LinksLead /\ OfferedOpens

(* The invariant holds before the first response.                           *)
LEMMA InitWebInv == Init => WebInv
<1> SUFFICES ASSUME Init
             PROVE  WebInv
    OBVIOUS
<1>1. PICK c \in Cases : cfg = c.cfg /\ remote = c.remote /\ request = c.request
    BY DEF Init
<1>2. Setting
    BY <1>1, CasesAssumption DEF Setting, IsList
<1>3. response.page = "none" /\ promise.made = FALSE
    BY DEF Init, Nothing, NoPromise
<1> QED
    BY <1>2, <1>3 DEF WebInv, DirPageInv, SearchPageInv, HitsInv, LinkInv, LinksLead, LinkOpened, OfferedOpens, Page

(* Where a file id comes from a file, its numbers are numbers.              *)
LEMMA FileHasID ==
    ASSUME IsTree(remote), NEW id, IsFile(id)
    PROVE  id \in ID /\ IsFileID(id)
    BY NumberAssumption DEF IsFile, FileID, ID, IsFileID, IsTree

(* A handler changes the response only.                                     *)
LEMMA RespondsKeeps ==
    ASSUME WebInv, NEW r, Responds(r)
    PROVE  /\ Setting' /\ LinkInv' /\ (Misled' <=> Misled)
           /\ response' = r /\ UNCHANGED <<cfg, remote, request, promise>>
<1>1. response' = r /\ UNCHANGED <<cfg, remote, request, promise>>
    BY DEF Responds
<1>2. ToDir' <=> ToDir
    BY <1>1 DEF ToDir, Asked, Exists
<1>3. Setting'
    BY <1>1 DEF WebInv, Setting, IsList
<1>4. Misled' <=> Misled
    BY <1>1 DEF Misled, NoPercent, JoinPath, Exists
<1>5. LinkInv'
    BY <1>1, <1>2, <1>4 DEF WebInv, LinkInv, IsFile, FileID, CanGenerateThumbnail, ThumbnailsEnabled, getImageType
<1> QED
    BY <1>1, <1>3, <1>4, <1>5

(* The page of a directory.                                                 *)
LEMMA DirPageStep ==
    ASSUME WebInv, NEW dir, Exists(dir),
           NEW entries \in GetDirInfo(ListingOf(dir), request.sort, request.order),
           Responds(convertRcloneInfo("dir", dir, <<Home>> \o dir, entries))
    PROVE  /\ Setting' /\ LinkInv' /\ (Misled' <=> Misled)
           /\ DirPageInv' /\ SearchPageInv' /\ HitsInv'
           /\ response'.page = "dir" /\ response'.dir = dir /\ response'.entries = entries
           /\ UNCHANGED <<cfg, remote, request, promise>>
<1>1. /\ response' = convertRcloneInfo("dir", dir, <<Home>> \o dir, entries)
      /\ Setting' /\ LinkInv' /\ (Misled' <=> Misled) /\ UNCHANGED <<cfg, remote, request, promise>>
    BY RespondsKeeps
<1>2. /\ response'.page = "dir" /\ response'.dir = dir /\ response'.entries = entries
      /\ response'.breadcrumbs = Breadcrumbs(dir, <<Home>> \o dir)
    BY <1>1 DEF convertRcloneInfo
<1>3. Exists(response.dir)' /\ ListingOf(response.dir)' = ListingOf(dir)
    BY <1>1, <1>2 DEF Exists, ListingOf
<1>4. DirPageInv'
    BY <1>1, <1>2, <1>3 DEF DirPageInv, Page
<1> QED
    BY <1>1, <1>2, <1>4 DEF SearchPageInv, HitsInv, Page

(* A response that is no page to follow links from.                         *)
LEMMA PlainResponse ==
    ASSUME WebInv, NEW r, Responds(r), r.page \notin {"dir", "search page", "search"},
           r.page = "not found" =>
             /\ request.handler = "ui" /\ r.dir = request.dir /\ ~Exists(Asked)
             /\ r.breadcrumbs = Breadcrumbs(request.dir, <<Home, Unknown>>),
           promise.made /\ request.handler = "ui" => Misled,
           promise.made /\ request.handler \in {"file", "thumbnail"} =>
             \/ r.page = "failed"
             \/ r.status = 200 /\ (request.handler = "thumbnail" => r.ext \in BrowserExts)
             \/ request.handler = "thumbnail" /\ request.id.size = 0
    PROVE  WebInv'
<1>1. /\ response' = r /\ Setting' /\ LinkInv' /\ (Misled' <=> Misled)
      /\ UNCHANGED <<cfg, remote, request, promise>>
    BY RespondsKeeps
<1>2. DirPageInv' /\ SearchPageInv' /\ HitsInv'
    <2>1. r.page = "not found" => ~Exists(JoinPath(response.dir))'
        BY <1>1 DEF Asked, Exists, JoinPath
    <2>2. r.page = "not found" => response'.breadcrumbs = Breadcrumbs(response'.dir, <<Home, Unknown>>)
        BY <1>1
    <2> QED
        BY <1>1, <2>1, <2>2 DEF DirPageInv, SearchPageInv, HitsInv, Page
<1>3. LinksLead'
    BY <1>1 DEF LinksLead, LinkOpened
<1>4. OfferedOpens'
    BY <1>1 DEF OfferedOpens, Page
<1> QED
    BY <1>1, <1>2, <1>3, <1>4 DEF WebInv

(* handleUI and handleDir: rclone's list of remotes, the directory, or that *)
(* it is missing.                                                           *)
LEMMA DirPagesAre ==
    ASSUME NEW page \in DirPages
    PROVE  \/ Asked # request.dir /\ page.page = "remotes"
           \/ /\ Exists(Asked)
              /\ \E entries \in GetDirInfo(ListingOf(Asked), request.sort, request.order) :
                   page = convertRcloneInfo("dir", Asked, <<Home>> \o Asked, entries)
           \/ /\ ~Exists(Asked) /\ page.page = "not found" /\ page.dir = request.dir
              /\ page.breadcrumbs = Breadcrumbs(request.dir, <<Home, Unknown>>)
<1>1. CASE Asked = <<>> /\ request.dir # <<>>
    <2>1. page = [status |-> 200, page |-> "remotes"]
        BY <1>1 DEF DirPages
    <2>2. page.page = "remotes"
        BY <2>1
    <2> QED
        BY <1>1, <2>2
<1>2. CASE ~(Asked = <<>> /\ request.dir # <<>>) /\ Exists(Asked)
    BY <1>2 DEF DirPages
<1>3. CASE ~(Asked = <<>> /\ request.dir # <<>>) /\ ~Exists(Asked)
    <2>1. page = convertRcloneInfo("not found", request.dir, <<Home, Unknown>>, <<>>)
        BY <1>3 DEF DirPages
    <2>2. /\ page.page = "not found" /\ page.dir = request.dir
          /\ page.breadcrumbs = Breadcrumbs(request.dir, <<Home, Unknown>>)
        BY <2>1 DEF convertRcloneInfo
    <2> QED
        BY <1>3, <2>2
<1> QED
    BY <1>1, <1>2, <1>3

(* handleUI shows the directory, or says that it is missing.                *)
LEMMA UIStep ==
    ASSUME WebInv, handleUI
    PROVE  WebInv'
<1>1. request.handler = "ui"
    BY DEF handleUI, Handles
<1>2. PICK page \in DirPages : Responds(page)
    BY DEF handleUI
<1>3. promise.made /\ ~Misled => ToDir
    BY <1>1 DEF WebInv, LinkInv
<1>4. ASSUME Exists(Asked),
             NEW entries \in GetDirInfo(ListingOf(Asked), request.sort, request.order),
             page = convertRcloneInfo("dir", Asked, <<Home>> \o Asked, entries)
      PROVE  WebInv'
    <2>1. Responds(convertRcloneInfo("dir", Asked, <<Home>> \o Asked, entries))
        BY <1>2, <1>4
    <2>2. /\ Setting' /\ LinkInv' /\ (Misled' <=> Misled)
          /\ DirPageInv' /\ SearchPageInv' /\ HitsInv'
          /\ response'.page = "dir" /\ response'.dir = Asked /\ response'.entries = entries
          /\ UNCHANGED <<cfg, remote, request, promise>>
        BY <1>4, <2>1, DirPageStep
    <2>3. ASSUME promise.made, ~Misled, promise.file # <<>>
          PROVE  \E k \in DOMAIN entries : entries[k].path = promise.file
        <3>1. PICK x \in remote : ~x.isDir /\ x.dir = Asked /\ x.name = promise.file
            BY <1>3, <2>3 DEF ToDir
        <3>2. \A y \in remote : y.dir = Asked => \E k \in DOMAIN entries : entries[k] = Listed(y)
            <4>1. IsTree(remote)
                BY DEF WebInv, Setting
            <4> QED
                BY <1>4, <4>1, EntriesOf
        <3>3. PICK k \in DOMAIN entries : entries[k] = Listed(x)
            BY <3>1, <3>2
        <3> QED
            BY <3>1, <3>3 DEF Listed
    <2>4. promise.made /\ ~Misled => Asked = promise.dir
        BY <1>3 DEF ToDir
    <2>5. LinksLead'
        BY <2>2, <2>3, <2>4 DEF LinksLead, LinkOpened, LeadsThere
    <2>6. OfferedOpens'
        BY <1>1, <2>2 DEF OfferedOpens
    <2> QED
        BY <2>2, <2>5, <2>6 DEF WebInv
<1>5. CASE /\ page.page \in {"remotes", "not found"} /\ (Asked # request.dir \/ ~Exists(Asked))
           /\ page.page = "not found" =>
                /\ page.dir = request.dir /\ ~Exists(Asked)
                /\ page.breadcrumbs = Breadcrumbs(request.dir, <<Home, Unknown>>)
    <2>1. promise.made => Misled
        BY <1>3, <1>5 DEF ToDir
    <2> QED
        BY <1>1, <1>2, <1>5, <2>1, PlainResponse
<1> QED
    BY <1>4, <1>5, DirPagesAre

(* handleDir does the same for the API.                                     *)
LEMMA DirStep ==
    ASSUME WebInv, handleDir
    PROVE  WebInv'
<1>1. request.handler = "dir" /\ ~promise.made
    BY DEF handleDir, Handles, WebInv, LinkInv
<1>2. PICK page \in DirPages : Responds(IF page.page = "not found" THEN Error(404) ELSE page)
    BY DEF handleDir
<1>3. ASSUME Exists(Asked),
             NEW entries \in GetDirInfo(ListingOf(Asked), request.sort, request.order),
             page = convertRcloneInfo("dir", Asked, <<Home>> \o Asked, entries)
      PROVE  WebInv'
    <2>1. page.page = "dir"
        BY <1>3 DEF convertRcloneInfo
    <2>2. Responds(convertRcloneInfo("dir", Asked, <<Home>> \o Asked, entries))
        BY <1>2, <1>3, <2>1
    <2>3. /\ Setting' /\ LinkInv'
          /\ DirPageInv' /\ SearchPageInv' /\ HitsInv'
          /\ UNCHANGED <<cfg, remote, request, promise>>
        BY <1>3, <2>2, DirPageStep
    <2> QED
        BY <1>1, <2>3 DEF WebInv, LinksLead, LinkOpened, OfferedOpens
<1>4. CASE page.page = "remotes"
    <2>1. Responds(page)
        BY <1>2, <1>4
    <2> QED
        BY <1>1, <1>4, <2>1, PlainResponse
<1>5. CASE page.page = "not found"
    <2>1. Responds(Error(404)) /\ Error(404).page = "error"
        BY <1>2, <1>5 DEF Error
    <2> QED
        BY <1>1, <2>1, PlainResponse
<1> QED
    BY <1>3, <1>4, <1>5, DirPagesAre

(* handleFile serves what a link stands for.                                *)
LEMMA FileStep ==
    ASSUME WebInv, handleFile
    PROVE  WebInv'
<1>1. request.handler = "file"
    BY DEF handleFile, Handles
<1>2. CASE \E e \in remote : ~e.isDir /\ FileID(e) = request.id
    <2> DEFINE r == [status |-> 200, page |-> "file", ext |-> GetExt(request.id)]
    <2>1. Responds(r)
        BY <1>2 DEF handleFile
    <2>2. r.page = "file" /\ r.status = 200
        OBVIOUS
    <2> HIDE DEF r
    <2> QED
        BY <1>1, <2>1, <2>2, PlainResponse
<1>3. CASE ~\E e \in remote : ~e.isDir /\ FileID(e) = request.id
    <2>1. ~promise.made
        BY <1>1, <1>3 DEF WebInv, LinkInv, IsFile
    <2>2. PICK status \in {500, 404} : Responds(Error(status))
        BY <1>3 DEF handleFile
    <2>3. Error(status).page = "error"
        BY DEF Error
    <2> QED
        BY <2>1, <2>2, <2>3, PlainResponse
<1> QED
    BY <1>2, <1>3

(* handleThumbnail serves what a page offers.                               *)
LEMMA ThumbnailStep ==
    ASSUME WebInv, handleThumbnail
    PROVE  WebInv'
<1> DEFINE r == [status |-> 200, page |-> "thumbnail", ext |-> GetExt(ThumbnailID(request.id, request.size))]
<1>1. request.handler = "thumbnail" /\ Responds(r)
    BY DEF handleThumbnail, Handles
<1>2. r.page = "thumbnail" /\ r.status = 200 /\ r.ext = GetExt(ThumbnailID(request.id, request.size))
    OBVIOUS
<1>3. ASSUME promise.made
      PROVE  r.ext \in BrowserExts
    <2>1. IsFile(request.id) /\ request.size \in {"small", "medium", "large"} /\ CanGenerateThumbnail(request.id)
        BY <1>1, <1>3 DEF WebInv, LinkInv
    <2>2. request.id \in ID /\ IsConfig(cfg)
        BY <2>1, FileHasID DEF WebInv, Setting
    <2>3. getImageType(request.id) # "unsupported"
        BY <2>1 DEF CanGenerateThumbnail
    <2>4. GetExt(ThumbnailID(request.id, request.size)) \in BrowserExts
        BY <2>1, <2>2, <2>3, ThumbnailShown
    <2> QED
        BY <1>2, <2>4
<1> HIDE DEF r
<1> QED
    BY <1>1, <1>2, <1>3, PlainResponse

(* What a page links to is not refused, but for empty images.               *)
LEMMA BadRequestStep ==
    ASSUME WebInv, BadRequest
    PROVE  WebInv'
<1>1. Responds(Error(400)) /\ Error(400).page = "error" /\ ~GoodRequest
    BY DEF BadRequest, Error
<1>2. request.handler \notin {"file", "thumbnail", "search", "search page"} => GoodRequest
    BY DEF GoodRequest
<1>3. ASSUME promise.made, request.handler \in {"file", "thumbnail"}
      PROVE  request.handler = "thumbnail" /\ request.id.size = 0
    <2>1. IsFile(request.id)
        BY <1>3 DEF WebInv, LinkInv
    <2>2. request.id \in ID /\ IsFileID(request.id)
        BY <2>1, FileHasID DEF WebInv, Setting
    <2>3. request.handler = "thumbnail"
        BY <1>1, <1>3, <2>2 DEF GoodRequest
    <2>4. request.size \in {"small", "medium", "large"} /\ CanGenerateThumbnail(request.id)
        BY <1>3, <2>3 DEF WebInv, LinkInv
    <2>5. ~Accepts(request.id)
        BY <1>1, <2>2, <2>3, <2>4 DEF GoodRequest
    <2>6. ~(request.id.size > 0) /\ request.id.size \in Nat
        <3>1. ThumbnailsEnabled /\ getImageType(request.id) # "unsupported"
            BY <2>4 DEF CanGenerateThumbnail
        <3>2. ~(request.id.size > 0)
            BY <2>5, <3>1 DEF Accepts
        <3>3. request.id.size \in Nat
            BY <2>2 DEF ID
        <3> QED
            BY <3>2, <3>3
    <2> QED
        BY <2>3, <2>6
<1> DEFINE r == Error(400)
<1>4. Responds(r) /\ r.page \notin {"dir", "search page", "search", "not found"}
    BY <1>1
<1>5. promise.made => request.handler # "ui"
    BY <1>1, <1>2
<1>6. promise.made /\ request.handler \in {"file", "thumbnail"} =>
        request.handler = "thumbnail" /\ request.id.size = 0
    BY <1>3
<1> HIDE DEF r
<1> QED
    BY <1>4, <1>5, <1>6, PlainResponse

(* Failures promise nothing.                                                *)
LEMMA FailsStep ==
    ASSUME WebInv, Fails
    PROVE  WebInv'
<1>1. PICK status : Responds([status |-> status, page |-> "failed"])
    BY DEF Fails
<1>2. /\ response' = [status |-> status, page |-> "failed"]
      /\ Setting' /\ LinkInv' /\ UNCHANGED <<cfg, remote, request, promise>>
    BY <1>1, RespondsKeeps
<1>3. response'.page = "failed"
    BY <1>2
<1> QED
    BY <1>2, <1>3 DEF WebInv, DirPageInv, SearchPageInv, HitsInv, LinksLead, LinkOpened, OfferedOpens, Page

(* The limit of a search is a number.                                       *)
LEMMA SearchStep ==
    ASSUME WebInv, handleSearch
    PROVE  WebInv'
<1>1. request.handler = "search" /\ GoodRequest /\ ~promise.made
    BY DEF handleSearch, Handles, WebInv, LinkInv
<1>2. request.search \in Seq(Nat) /\ request.limit \in Int
    BY <1>1 DEF GoodRequest, WebInv, Setting
<1>3. PICK found \in Search(newPrefixIndex(GetAllFiles), request.search, request.limit) :
        Responds(IF found.panic THEN Aborted
                 ELSE IF request.ui /\ found.hits = <<>> THEN [status |-> 204, page |-> "empty"]
                 ELSE [status |-> 200, page |-> "search", hits |-> found.hits, total |-> found.total])
    BY DEF handleSearch
<1>4. CASE found.panic
    <2>1. Responds(Aborted) /\ Aborted.page = "aborted"
        BY <1>3, <1>4 DEF Aborted
    <2> QED
        BY <1>1, <2>1, PlainResponse
<1>5. CASE ~found.panic /\ request.ui /\ found.hits = <<>>
    <2> DEFINE r == [status |-> 204, page |-> "empty"]
    <2>1. Responds(r) /\ r.page = "empty"
        BY <1>3, <1>5
    <2> HIDE DEF r
    <2> QED
        BY <1>1, <2>1, PlainResponse
<1>6. CASE ~found.panic /\ ~(request.ui /\ found.hits = <<>>)
    <2> DEFINE r == [status |-> 200, page |-> "search", hits |-> found.hits, total |-> found.total]
    <2>1. Responds(r) /\ r.page = "search" /\ r.hits = found.hits /\ r.total = found.total
        BY <1>3, <1>6
    <2> HIDE DEF r
    <2>2. IsFiniteSet(GetAllFiles)
        BY FilesAreFinite DEF WebInv, Setting
    <2>3. \A k \in DOMAIN found.hits : found.hits[k].entry \in GetAllFiles
        BY <1>2, <1>6, <2>2, HitsAreEntries
    <2>4. response' = r /\ Setting' /\ LinkInv' /\ UNCHANGED <<cfg, remote, request, promise>>
        BY <2>1, RespondsKeeps
    <2>5. GetAllFiles' = GetAllFiles
        BY <2>4 DEF GetAllFiles
    <2>6. FromIndex(r.hits, r.total)
        BY <1>6, <2>1 DEF FromIndex
    <2>7. FromIndex(response.hits, response.total)'
        BY <2>4, <2>5, <2>6 DEF FromIndex
    <2>8. HitsInv'
        BY <1>2, <2>1, <2>3, <2>4, <2>5, <2>7 DEF HitsInv
    <2> QED
        BY <1>1, <2>1, <2>4, <2>8 DEF WebInv, DirPageInv, SearchPageInv, LinksLead, LinkOpened, OfferedOpens, Page
<1> QED
    BY <1>4, <1>5, <1>6

(* handlePageWithSearchResults shows entries of the remote.                 *)
LEMMA SearchPageStep ==
    ASSUME WebInv, handlePageWithSearchResults
    PROVE  WebInv'
<1> DEFINE limit == IF request.limit \in {NotANumber, 0} THEN 100 ELSE request.limit
           ShownAs(hit) == [Listed(HitEntry(hit)) EXCEPT !.path = hit.entry.path]
           Shown(hits) == [k \in DOMAIN hits |-> ShownAs(hits[k])]
           Shows(hits) == convertRcloneInfo("search page", <<SearchResults>>, <<Home, SearchResults>>, Shown(hits))
<1>1. request.handler = "search page" /\ ~promise.made
    BY DEF handlePageWithSearchResults, Handles, WebInv, LinkInv
<1>2. limit \in Int
    <2>1. request.limit \in Int \cup {NotANumber}
        BY <1>1 DEF WebInv, Setting
    <2> QED
        BY <2>1
<1>3. PICK found \in Search(newPrefixIndex(GetAllFiles), request.search, limit) :
        Responds(IF found.panic THEN Aborted ELSE Shows(found.hits))
    BY DEF handlePageWithSearchResults
<1> HIDE DEF limit
<1>4. CASE found.panic
    <2>1. Responds(Aborted) /\ Aborted.page = "aborted"
        BY <1>3, <1>4 DEF Aborted
    <2> QED
        BY <1>1, <2>1, PlainResponse
<1>5. CASE ~found.panic
    <2>1. Responds(Shows(found.hits))
        BY <1>3, <1>5
    <2>2. /\ response' = Shows(found.hits)
          /\ Setting' /\ LinkInv' /\ UNCHANGED <<cfg, remote, request, promise>>
        BY <2>1, RespondsKeeps
    <2>3. /\ response'.page = "search page" /\ response'.entries = Shown(found.hits)
          /\ response'.breadcrumbs = Breadcrumbs(<<SearchResults>>, <<Home, SearchResults>>)
        BY <2>2 DEF convertRcloneInfo
    <2>4. IsTree(remote) /\ IsFiniteSet(GetAllFiles)
        BY FilesAreFinite DEF WebInv, Setting
    <2>5. \A k \in DOMAIN found.hits : found.hits[k].entry \in GetAllFiles
        BY <1>2, <1>5, <2>4, HitsAreEntries
    <2>6. ASSUME NEW k \in DOMAIN Shown(found.hits)
          PROVE  \E x \in remote : Shown(found.hits)[k].of = AsHit(x) /\ Shown(found.hits)[k].isDir = x.isDir
        <3>1. k \in DOMAIN found.hits /\ found.hits[k].entry \in GetAllFiles
            BY <2>5, <2>6
        <3>2. PICK x \in remote : HitEntry(found.hits[k]) = AsHit(x)
            BY <2>4, <3>1, HitIsEntry
        <3>3. Shown(found.hits)[k].of = HitEntry(found.hits[k]) /\ Shown(found.hits)[k].isDir = HitEntry(found.hits[k]).isDir
            BY <3>1 DEF Listed
        <3>4. AsHit(x).isDir = x.isDir
            BY DEF AsHit
        <3> QED
            BY <3>2, <3>3, <3>4
    <2>7. SearchPageInv'
        <3> HIDE DEF Shown
        <3> QED
            BY <2>2, <2>3, <2>6 DEF SearchPageInv
    <2> QED
        BY <1>1, <2>2, <2>3, <2>7 DEF WebInv, DirPageInv, HitsInv, LinksLead, LinkOpened, OfferedOpens, Page
<1> QED
    BY <1>4, <1>5

(* A link that is followed.                                                 *)
LEMMA FollowsKeeps ==
    ASSUME WebInv, NEW req, NEW prom, Follows(req, prom), LinkInv',
           req.handler \in {"ui", "file", "thumbnail"}, req.handler = "ui" => IsList(req.dir)
    PROVE  WebInv'
<1>1. response'.page = "none" /\ request' = req /\ UNCHANGED <<cfg, remote>>
    BY DEF Follows, Nothing
<1>2. IsConfig(cfg)' /\ IsTree(remote)'
    BY <1>1 DEF WebInv, Setting
<1>3. request'.handler = "ui" => IsList(request.dir)'
    BY <1>1 DEF IsList
<1>4. Setting'
    BY <1>1, <1>2, <1>3 DEF Setting
<1> QED
    BY <1>1, <1>4 DEF WebInv, DirPageInv, SearchPageInv, HitsInv, LinksLead, LinkOpened, OfferedOpens, Page

(* A link joined from these names is not misled.                            *)
Straight(names) == NoPercent(names) /\ ~(Len(names) > 1 /\ ~Exists(JoinPath(names)))

(* Links to directories that exist.                                         *)
LEMMA DirLink ==
    ASSUME WebInv, NEW dir, NEW url, NEW file, NEW names, Follows(UI(url), Promise(dir, file, names)),
           IsList(url),
           Straight(names) => dir \in Seq(Name) /\ NoPercent(dir) /\ url = dir /\ Exists(dir),
           file # <<>> => \E x \in remote : ~x.isDir /\ x.dir = dir /\ x.name = file
    PROVE  WebInv'
<1>1. /\ request' = UI(url) /\ promise' = Promise(dir, file, names) /\ UNCHANGED <<cfg, remote>>
    BY DEF Follows
<1>2. /\ request'.handler = "ui" /\ request'.dir = url /\ UI(url).handler = "ui"
      /\ promise'.dir = dir /\ promise'.file = file /\ promise'.joined = names
      /\ UI(url).dir = url
    BY <1>1 DEF UI, Promise
<1>3. ASSUME Straight(names)
      PROVE  ToDir'
    <2>1. url = dir /\ Exists(dir) /\ JoinPath(dir) = dir
        BY <1>3, JoinsAlike
    <2>2. Exists(promise.dir)'
        BY <1>1, <1>2, <2>1 DEF Exists
    <2>3. Asked' = dir
        BY <1>2, <2>1 DEF Asked
    <2> QED
        BY <1>1, <1>2, <2>1, <2>2, <2>3 DEF ToDir
<1>4. ~Misled' => Straight(names)
    BY <1>1, <1>2 DEF Misled, Straight, NoPercent, Exists, JoinPath
<1>5. LinkInv'
    BY <1>2, <1>3, <1>4 DEF LinkInv
<1> QED
    BY <1>2, <1>5, FollowsKeeps

(* What a URL is joined from, and the names left in it.                     *)
LEMMA JoinIsList ==
    ASSUME NEW dir, IsList(dir)
    PROVE  /\ IsList(JoinPath(dir)) /\ Len(JoinPath(dir)) \in Nat
           /\ Len(JoinPath(dir)) <= Len(dir) /\ Len(dir) \in Nat
<1>1. Len(dir) \in Nat /\ DOMAIN dir = 1..Len(dir)
    BY LenProperties DEF IsList
<1> DEFINE S == {PathUnescape(dir[k]) : k \in DOMAIN dir}
           t == [k \in 1..Len(dir) |-> PathUnescape(dir[k])]
<1>2. JoinPath(dir) = <<>> \/ JoinPath(dir) = t
    BY <1>1 DEF JoinPath
<1>3. t \in Seq(S) /\ Len(t) = Len(dir)
    <2>1. \A k \in 1..Len(dir) : PathUnescape(dir[k]) \in S
        BY <1>1
    <2> HIDE DEF S
    <2> QED
        BY <1>1, <2>1
<1>4. <<>> \in Seq(S) /\ Len(<<>>) = 0
    OBVIOUS
<1> HIDE DEF t, S
<1>5. JoinPath(dir) \in Seq(S) /\ Len(JoinPath(dir)) \in {0, Len(dir)}
    BY <1>2, <1>3, <1>4
<1>6. IsList(JoinPath(dir))
    BY <1>5 DEF IsList
<1> QED
    BY <1>1, <1>5, <1>6

(* Breadcrumbs are the directories above, or Home.                          *)
LEMMA CrumbIsList ==
    ASSUME NEW dir, IsList(dir), NEW S, NEW texts \in Seq(S), NEW k \in DOMAIN Breadcrumbs(dir, texts)
    PROVE  /\ IsList(Breadcrumbs(dir, texts)[k].link)
           /\ Len(dir) + k <= Len(texts) => Breadcrumbs(dir, texts)[k].link = <<>>
<1> DEFINE url == JoinPath(dir)
           m == Len(url) - (Len(texts) - k)
<1>1. Len(texts) \in Nat /\ DOMAIN texts = 1..Len(texts)
    BY LenProperties
<1>2. k \in 1..Len(texts) /\ Breadcrumbs(dir, texts)[k].link = SubSeq(url, 1, m)
    BY <1>1 DEF Breadcrumbs
<1> HIDE DEF url
<1>3. IsList(url) /\ Len(url) \in Nat /\ Len(url) <= Len(dir) /\ Len(dir) \in Nat
    BY JoinIsList DEF url
<1>4. PICK T : url \in Seq(T)
    BY <1>3 DEF IsList
<1>5. m \in Int /\ m <= Len(url) /\ (Len(dir) + k <= Len(texts) => m < 1)
    BY <1>1, <1>2, <1>3
<1> HIDE DEF m
<1>6. \A i \in 1..m : url[i] \in T
    BY <1>3, <1>4, <1>5, ElementOfSeq
<1>7. SubSeq(url, 1, m) \in Seq(T)
    BY <1>5, <1>6, SubSeqProperties
<1>8. IsList(SubSeq(url, 1, m))
    BY <1>7 DEF IsList
<1>9. m < 1 => SubSeq(url, 1, m) = <<>>
    BY <1>5, SubSeqEmpty
<1> QED
    BY <1>2, <1>5, <1>8, <1>9

(* What exists is a sequence of names.                                      *)
LEMMA ExistsTyped ==
    ASSUME IsTree(remote), NEW dir, Exists(dir)
    PROVE  dir \in Seq(Name)
<1>1. dir = <<>> => dir \in Seq(Name)
    OBVIOUS
<1>2. dir # <<>> => dir \in Seq(Name)
    BY PathIsNames DEF Exists, IsTree
<1> QED
    BY <1>1, <1>2

(* A breadcrumb leads to a parent of the directory, which exists.           *)
LEMMA BreadcrumbStep ==
    ASSUME WebInv, FollowBreadcrumb
    PROVE  WebInv'
<1> DEFINE Texts(k) == [n \in 1..k |-> response.breadcrumbs[n].text]
<1>1. PICK k \in DOMAIN response.breadcrumbs :
        Follows(UI(response.breadcrumbs[k].link),
                IF Page({"dir"}) \/ k = 1
                  THEN Promise(Tail(Texts(k)), <<>>, response.dir) ELSE NoPromise)
    BY DEF FollowBreadcrumb
<1>2. CASE Page({"dir"})
    <2> DEFINE dir == response.dir
    <2>1. /\ IsTree(remote) /\ Exists(dir)
          /\ response.breadcrumbs = Breadcrumbs(dir, <<Home>> \o dir)
        BY <1>2 DEF WebInv, Setting, DirPageInv
    <2>2. dir \in Seq(Name)
        BY <2>1, ExistsTyped
    <2>11. IsList(response.breadcrumbs[k].link)
        <3> DEFINE T == Name \cup {Home}
        <3>1. dir \in Seq(T) /\ <<Home>> \in Seq(T)
            BY <2>2, SeqMonotonic
        <3>2. <<Home>> \o dir \in Seq(T) /\ IsList(dir)
            BY <3>1, ConcatProperties DEF IsList
        <3> QED
            BY <2>1, <3>2, CrumbIsList
    <2> DEFINE url == response.breadcrumbs[k].link
               to == Tail(Texts(k))
    <2>3. Follows(UI(url), Promise(to, <<>>, dir))
        BY <1>1, <1>2
    <2> HIDE DEF dir
    <2>4. ASSUME NoPercent(dir)
          PROVE  to \in Seq(Name) /\ NoPercent(to) /\ url = to /\ Exists(to)
        <3>1. /\ k - 1 \in 0..Len(dir)
              /\ url = SubSeq(dir, 1, k - 1) /\ to = SubSeq(dir, 1, k - 1)
            BY <2>1, <2>2, <2>4, CrumbLeads
        <3>2. Exists(SubSeq(dir, 1, k - 1))
            BY <2>1, <3>1, ParentsExist
        <3>3. SubSeq(dir, 1, k - 1) \in Seq(Name) /\ NoPercent(SubSeq(dir, 1, k - 1))
            BY <2>2, <2>4, <3>1, NoPercentAbove
        <3> HIDE DEF url, to
        <3> QED
            BY <3>1, <3>2, <3>3
    <2>5. IsList(url)
        BY <2>11
    <2> HIDE DEF url, to
    <2> QED
        BY <2>3, <2>4, <2>5, DirLink DEF Straight
<1>3. CASE ~Page({"dir"})
    <2> DEFINE missing == Page({"not found"})
               dir == IF missing THEN response.dir ELSE <<SearchResults>>
               texts == <<Home, IF missing THEN Unknown ELSE SearchResults>>
               url == response.breadcrumbs[k].link
    <2>1. Page({"not found", "search page"}) /\ ~(Page({"not found"}) /\ Page({"search page"}))
        BY <1>3 DEF FollowBreadcrumb, Page
    <2>2. response.breadcrumbs = Breadcrumbs(dir, texts)
        BY <2>1 DEF WebInv, DirPageInv, SearchPageInv, Page
    <2>3. IsList(dir)
        <3>1. missing => IsList(response.dir)
            BY DEF WebInv, Setting, DirPageInv
        <3>2. IsList(<<SearchResults>>)
            <4>1. <<SearchResults>> \in Seq({SearchResults})
                OBVIOUS
            <4> QED
                BY <4>1 DEF IsList
        <3> QED
            BY <3>1, <3>2
    <2>4. texts \in Seq({Home, Unknown, SearchResults}) /\ Len(texts) = 2
        OBVIOUS
    <2>5. IsList(url) /\ (Len(dir) + k <= 2 => url = <<>>)
        <3> HIDE DEF dir, texts
        <3>1. k \in DOMAIN Breadcrumbs(dir, texts) /\ url = Breadcrumbs(dir, texts)[k].link
            BY <2>2
        <3>2. /\ IsList(Breadcrumbs(dir, texts)[k].link)
              /\ Len(dir) + k <= Len(texts) => Breadcrumbs(dir, texts)[k].link = <<>>
            BY <2>3, <2>4, <3>1, CrumbIsList
        <3> QED
            BY <2>4, <3>1, <3>2
    <2>6. CASE k = 1
        <3> DEFINE to == Tail(Texts(k))
        <3>1. to = <<>>
            <4>1. Texts(1) = <<response.breadcrumbs[1].text>>
                OBVIOUS
            <4> QED
                BY <2>6, <4>1
        <3>2. Follows(UI(url), Promise(to, <<>>, response.dir))
            BY <1>1, <2>6
        <3>3. Follows(UI(url), Promise(<<>>, <<>>, response.dir))
            BY <3>1, <3>2
        <3>4. ASSUME Straight(response.dir)
              PROVE  url = <<>>
            <4>1. CASE missing
                <5>1. ~Exists(JoinPath(response.dir))
                    BY <4>1 DEF WebInv, DirPageInv
                <5>2. Len(response.dir) \in Nat
                    BY <2>3, <4>1, JoinIsList
                <5>3. Len(response.dir) + 1 <= 2
                    BY <3>4, <5>1, <5>2 DEF Straight
                <5> QED
                    BY <2>5, <2>6, <4>1, <5>3
            <4>2. CASE ~missing
                <5>1. Len(dir) = 1
                    BY <4>2
                <5> HIDE DEF dir
                <5> QED
                    BY <2>5, <2>6, <5>1
            <4> QED
                BY <4>1, <4>2
        <3>5. <<>> \in Seq(Name) /\ NoPercent(<<>>) /\ Exists(<<>>)
            BY DEF NoPercent, Exists
        <3> HIDE DEF url
        <3> QED
            BY <2>5, <3>3, <3>4, <3>5, DirLink
    <2>7. CASE k # 1
        <3> DEFINE req == UI(url)
        <3>1. Follows(req, NoPromise) /\ req.handler = "ui" /\ req.dir = url
            BY <1>1, <1>3, <2>7 DEF UI
        <3>2. LinkInv'
            BY <3>1 DEF LinkInv, Follows, NoPromise
        <3> HIDE DEF req, url
        <3> QED
            BY <2>5, <3>1, <3>2, FollowsKeeps
    <2> QED
        BY <2>6, <2>7
<1> QED
    BY <1>2, <1>3

(* The entries on the page of a directory, each of them once.               *)
LEMMA EntriesOfDir ==
    ASSUME WebInv, Page({"dir"})
    PROVE  /\ \A m, n \in DOMAIN response.entries : m # n => response.entries[m] # response.entries[n]
           /\ \A n \in DOMAIN response.entries : \E x \in remote : response.entries[n] = Listed(x)
<1>1. IsTree(remote) /\ response.entries \in GetDirInfo(ListingOf(response.dir), request.sort, request.order)
    BY DEF WebInv, Setting, DirPageInv
<1>2. /\ \A m, n \in DOMAIN response.entries : m # n => response.entries[m] # response.entries[n]
      /\ \A n \in DOMAIN response.entries :
           \E x \in remote : x.dir = response.dir /\ response.entries[n] = Listed(x)
    BY <1>1, EntriesOf
<1> QED
    BY <1>2

(* The entries of pages are entries of the remote.                          *)
LEMMA EntryOfPage ==
    ASSUME WebInv, Page({"dir", "search page"}), NEW k \in DOMAIN response.entries
    PROVE  \E x \in remote : /\ response.entries[k].of \in {x, AsHit(x)}
                            /\ response.entries[k].isDir = x.isDir
<1>1. CASE Page({"dir"})
    <2>1. PICK x \in remote : response.entries[k] = Listed(x)
        BY <1>1, EntriesOfDir
    <2>2. Listed(x).of = x /\ Listed(x).isDir = x.isDir
        BY DEF Listed
    <2> QED
        BY <2>1, <2>2
<1>2. CASE Page({"search page"})
    BY <1>2 DEF WebInv, SearchPageInv
<1> QED
    BY <1>1, <1>2 DEF Page

(* A directory of a page exists.                                            *)
LEMMA FollowDirStep ==
    ASSUME WebInv, FollowDir
    PROVE  WebInv'
<1>1. PICK k \in DOMAIN response.entries :
        /\ response.entries[k].isDir
        /\ Follows(UI(JoinPath(PathOf(response.entries[k].of))),
                   Promise(PathOf(response.entries[k].of), <<>>, PathOf(response.entries[k].of)))
    BY DEF FollowDir
<1>2. PICK x \in remote : response.entries[k].of \in {x, AsHit(x)} /\ response.entries[k].isDir = x.isDir
    BY EntryOfPage DEF FollowDir
<1>3. PathOf(response.entries[k].of) = PathOf(x)
    BY <1>2 DEF PathOf, AsHit
<1>4. Exists(PathOf(x)) /\ PathOf(x) \in Seq(Name)
    BY <1>1, <1>2, ExistsTyped DEF Exists, WebInv, Setting
<1>5. IsList(JoinPath(PathOf(x)))
    BY <1>4, JoinIsList DEF IsList
<1> QED
    BY <1>1, <1>3, <1>4, <1>5, JoinsAlike, DirLink DEF Straight

(* A file of a page exists, as it is listed.                                *)
LEMMA FollowFileStep ==
    ASSUME WebInv, FollowFile
    PROVE  WebInv'
<1> DEFINE Of(n) == response.entries[n].of
<1>1. PICK k \in DOMAIN response.entries :
        /\ ~Of(k).isDir
        /\ \/ Follows([handler |-> "file", id |-> FileID(Of(k))], Promise(Of(k).dir, Of(k).name, <<>>))
           \/ /\ ImageOffer(FileID(Of(k))) = "thumbnail"
              /\ \E size \in {"small", "medium", "large"} :
                   Follows([handler |-> "thumbnail", id |-> FileID(Of(k)), size |-> size],
                           Promise(Of(k).dir, Of(k).name, <<>>))
    BY DEF FollowFile
<1>2. PICK x \in remote : Of(k) \in {x, AsHit(x)} /\ response.entries[k].isDir = x.isDir
    BY EntryOfPage DEF FollowFile
<1> DEFINE id == FileID(Of(k))
<1>3. ~x.isDir /\ id = FileID(x)
    BY <1>1, <1>2 DEF AsHit, FileID
<1>4. IsFile(id)
    BY <1>3 DEF IsFile
<1>5. ASSUME NEW prom, Follows([handler |-> "file", id |-> id], prom)
      PROVE  WebInv'
    <2> DEFINE req == [handler |-> "file", id |-> id]
    <2>1. request' = req /\ remote' = remote /\ req.handler = "file" /\ req.id = id
        BY <1>5 DEF Follows
    <2> HIDE DEF req, id
    <2>2. IsFile(request.id)'
        BY <1>4, <2>1 DEF IsFile
    <2>3. LinkInv'
        BY <2>1, <2>2 DEF LinkInv
    <2> QED
        BY <1>5, <2>1, <2>3, FollowsKeeps DEF req
<1>6. ASSUME NEW size \in {"small", "medium", "large"}, NEW prom, ImageOffer(id) = "thumbnail",
             Follows([handler |-> "thumbnail", id |-> id, size |-> size], prom)
      PROVE  WebInv'
    <2> DEFINE req == [handler |-> "thumbnail", id |-> id, size |-> size]
    <2>1. request' = req /\ remote' = remote /\ cfg' = cfg /\ req.handler = "thumbnail" /\ req.id = id /\ req.size = size
        BY <1>6 DEF Follows
    <2> HIDE DEF req, id
    <2>2. IsFile(request.id)'
        BY <1>4, <2>1 DEF IsFile
    <2>3. CanGenerateThumbnail(id)
        <3>1. cfg.mode \in {"none", "original", "thumbnails"}
            BY DEF WebInv, Setting, IsConfig
        <3> QED
            BY <1>6, <3>1 DEF ImageOffer
    <2>4. CanGenerateThumbnail(request.id)'
        BY <2>1, <2>3 DEF CanGenerateThumbnail, ThumbnailsEnabled, getImageType
    <2>5. LinkInv'
        BY <2>1, <2>2, <2>4 DEF LinkInv
    <2> QED
        BY <1>6, <2>1, <2>5, FollowsKeeps DEF req
<1> QED
    BY <1>1, <1>5, <1>6

(* The directory of a hit exists and has the file.                          *)
LEMMA FollowHitStep ==
    ASSUME WebInv, FollowHit
    PROVE  WebInv'
<1> DEFINE Of(n) == HitEntry(response.hits[n])
           To(n) == IF Of(n).isDir THEN PathOf(Of(n)) ELSE Of(n).dir
<1>1. PICK k \in DOMAIN response.hits, x \in remote :
        /\ PathText(x) = response.hits[k].entry.path
        /\ Follows(UI(JoinPath(To(k))),
                   IF x.isDir THEN Promise(PathOf(x), <<>>, To(k)) ELSE Promise(x.dir, x.name, To(k)))
    BY DEF FollowHit
<1>2. IsTree(remote) /\ response.hits[k].entry \in GetAllFiles
    BY DEF WebInv, Setting, HitsInv, FollowHit, Page
<1>3. PICK y \in remote : Of(k) = AsHit(y) /\ response.hits[k].entry.path = PathText(y)
    BY <1>2, HitIsEntry
<1>4. x.dir = y.dir /\ x.name = y.name /\ x.isDir = y.isDir
    BY <1>1, <1>2, <1>3, SamePath
<1>5. Of(k).isDir = x.isDir /\ Of(k).dir = x.dir /\ PathOf(Of(k)) = PathOf(x)
    BY <1>3, <1>4 DEF AsHit, PathOf
<1>6. CASE x.isDir
    <2>1. Follows(UI(JoinPath(PathOf(x))), Promise(PathOf(x), <<>>, PathOf(x)))
        BY <1>1, <1>5, <1>6
    <2>2. Exists(PathOf(x)) /\ PathOf(x) \in Seq(Name)
        BY <1>2, <1>6, ExistsTyped DEF Exists
    <2>3. IsList(JoinPath(PathOf(x)))
        BY <2>2, JoinIsList DEF IsList
    <2> QED
        BY <2>1, <2>2, <2>3, JoinsAlike, DirLink DEF Straight
<1>7. CASE ~x.isDir
    <2>1. Follows(UI(JoinPath(x.dir)), Promise(x.dir, x.name, x.dir))
        BY <1>1, <1>5, <1>7
    <2>2. x.dir \in Seq(Name) /\ Exists(x.dir)
        <3>1. x.dir \in Seq(Name) /\ \A n \in 1..Len(x.dir) : \E d \in remote : d.isDir /\ PathOf(d) = SubSeq(x.dir, 1, n)
            BY <1>2 DEF IsTree
        <3>2. x.dir # <<>> => Len(x.dir) \in 1..Len(x.dir) /\ SubSeq(x.dir, 1, Len(x.dir)) = x.dir
            BY <3>1, EmptySeq, LenProperties, SubSeqFull
        <3> QED
            BY <3>1, <3>2 DEF Exists
    <2>3. IsList(JoinPath(x.dir))
        BY <2>2, JoinIsList DEF IsList
    <2> QED
        BY <1>7, <2>1, <2>2, <2>3, JoinsAlike, DirLink DEF Straight
<1> QED
    BY <1>6, <1>7

(* The browser leaves.                                                      *)
LEMMA StutterStep ==
    ASSUME WebInv, UNCHANGED vars
    PROVE  WebInv'
<1>1. UNCHANGED <<cfg, remote, request, response, promise>>
    BY DEF vars
<1>2. Misled' <=> Misled
    BY <1>1 DEF Misled, NoPercent, JoinPath, Exists
<1>7. Setting' /\ LinksLead' /\ OfferedOpens'
    BY <1>1, <1>2 DEF WebInv, Setting, IsList, LinksLead, LinkOpened, LeadsThere, OfferedOpens, Page
<1>3. DirPageInv'
    <2>1. /\ Exists(response.dir)' <=> Exists(response.dir)
          /\ Exists(JoinPath(response.dir))' <=> Exists(JoinPath(response.dir))
        BY <1>1 DEF Exists, JoinPath
    <2>2. ListingOf(response.dir)' = ListingOf(response.dir)
        BY <1>1 DEF ListingOf
    <2> QED
        BY <1>1, <2>1, <2>2 DEF WebInv, DirPageInv, Page
<1>4. SearchPageInv'
    BY <1>1 DEF WebInv, SearchPageInv, Page
<1>5. HitsInv'
    <2>1. GetAllFiles' = GetAllFiles
        BY <1>1 DEF GetAllFiles
    <2>2. FromIndex(response.hits, response.total)' <=> FromIndex(response.hits, response.total)
        BY <1>1, <2>1 DEF FromIndex
    <2> QED
        BY <1>1, <2>1, <2>2 DEF WebInv, HitsInv, Page
<1>6. LinkInv'
    <2>1. ToDir' <=> ToDir
        BY <1>1 DEF ToDir, Asked, Exists
    <2> QED
        BY <1>1, <1>2, <2>1 DEF WebInv, LinkInv, IsFile, CanGenerateThumbnail, ThumbnailsEnabled, getImageType
<1> QED
    BY <1>3, <1>4, <1>5, <1>6, <1>7 DEF WebInv

-----------------------------------------------------------------------------
(* The theorems *)

(* What the proofs of the properties rest on: pages show what the remote    *)
(* has, and links are to directories and files of it.                       *)
THEOREM WebInvariant == Spec => []WebInv
<1>1. ASSUME WebInv, [Next]_vars
      PROVE  WebInv'
    <2>1. CASE handleUI
        BY <1>1, <2>1, UIStep
    <2>2. CASE handleDir
        BY <1>1, <2>2, DirStep
    <2>3. CASE handleFile
        BY <1>1, <2>3, FileStep
    <2>4. CASE handleThumbnail
        BY <1>1, <2>4, ThumbnailStep
    <2>5. CASE handleSearch
        BY <1>1, <2>5, SearchStep
    <2>6. CASE handlePageWithSearchResults
        BY <1>1, <2>6, SearchPageStep
    <2>7. CASE BadRequest
        BY <1>1, <2>7, BadRequestStep
    <2>8. CASE Fails
        BY <1>1, <2>8, FailsStep
    <2>9. CASE FollowBreadcrumb
        BY <1>1, <2>9, BreadcrumbStep
    <2>10. CASE FollowDir
        BY <1>1, <2>10, FollowDirStep
    <2>11. CASE FollowFile
        BY <1>1, <2>11, FollowFileStep
    <2>12. CASE FollowHit
        BY <1>1, <2>12, FollowHitStep
    <2>13. CASE Leave \/ UNCHANGED vars
        BY <1>1, <2>13, StutterStep DEF Leave
    <2> QED
        BY <1>1, <2>1, <2>2, <2>3, <2>4, <2>5, <2>6, <2>7, <2>8, <2>9, <2>10, <2>11, <2>12, <2>13 DEF Next
<1> QED
    BY <1>1, InitWebInv, PTL DEF Spec

(* Breadcrumbs, directories on pages and results of searches lead to the    *)
(* directory they stand for, which has the file to preview, for every       *)
(* remote: the texts that the index keeps of paths can be read back.  What  *)
(* is excepted leads elsewhere indeed: links joined from a name with a      *)
(* percent sign, and Home on the page of a missing directory below the      *)
(* first level.                                                             *)
THEOREM LinksLeadWhereTheySay == Spec => []LinksLead
<1>1. WebInv => LinksLead
    BY DEF WebInv
<1> QED
    BY <1>1, WebInvariant, PTL

(* What pages offer is served, whatever the files are called: thumbnails    *)
(* have the extension of a format that browsers show.                       *)
THEOREM OfferedIsServed == Spec => []OfferedOpens
<1>1. WebInv => OfferedOpens
    BY DEF WebInv
<1> QED
    BY <1>1, WebInvariant, PTL

(* Of the files of a directory only twins by name share a thumbnail.        *)
THEOREM ThumbnailsOfTwins == Spec => []OnlyTwinsShare
<1>1. ASSUME WebInv
      PROVE  OnlyTwinsShare
    <2> DEFINE Id(n) == FileID(response.entries[n].of)
               Image(n) == ~response.entries[n].isDir /\ Accepts(Id(n))
    <2> SUFFICES ASSUME Page({"dir"}), NEW j \in DOMAIN response.entries, NEW k \in DOMAIN response.entries,
                        j # k, Image(j), Image(k), NEW size \in {"small", "medium"},
                        ThumbnailID(Id(j), size) = ThumbnailID(Id(k), size)
                 PROVE  IsStrictPrefix(Id(j).name, Id(k).name) \/ IsStrictPrefix(Id(k).name, Id(j).name)
        BY DEF OnlyTwinsShare
    <2>1. IsConfig(cfg) /\ IsTree(remote)
        BY <1>1 DEF WebInv, Setting
    <2>2. /\ \A m, n \in DOMAIN response.entries : m # n => response.entries[m] # response.entries[n]
          /\ \A n \in DOMAIN response.entries : \E x \in remote : response.entries[n] = Listed(x)
        BY <1>1, EntriesOfDir
    <2>3. PICK x \in remote : response.entries[j] = Listed(x)
        BY <2>2
    <2>4. PICK y \in remote : response.entries[k] = Listed(y)
        BY <2>2
    <2>5. ~x.isDir /\ ~y.isDir /\ Id(j) = FileID(x) /\ Id(k) = FileID(y)
        BY <2>3, <2>4 DEF Listed
    <2>6. Id(j) \in ID /\ Id(k) \in ID
        BY <2>1, <2>5, FileHasID DEF IsFile
    <2>7. Id(j) # Id(k)
        <3>1. x # y
            BY <2>2, <2>3, <2>4
        <3>2. FileID(x) = FileID(y) => x.dir = y.dir /\ x.name = y.name /\ x.modTime = y.modTime /\ x.size = y.size
            BY DEF FileID
        <3>3. /\ x \in [dir : Seq(Name), name : Name, isDir : BOOLEAN, size : Nat, modTime : Int]
              /\ y \in [dir : Seq(Name), name : Name, isDir : BOOLEAN, size : Nat, modTime : Int]
            BY <2>1 DEF IsTree
        <3> QED
            BY <2>5, <3>1, <3>2, <3>3
    <2> HIDE DEF Id
    <2> QED
        BY <2>1, <2>6, <2>7, Twins
<1> QED
    BY <1>1, WebInvariant, PTL

(* The page of a directory with plain, comparable names: its entries and    *)
(* the sequences that they may come in.                                     *)
LEMMA PlainPage ==
    ASSUME WebInv, Page({"dir"}), AllPlain(response.entries), AllComparable(response.entries)
    PROVE  /\ IsFiniteSet(ListingOf(response.dir))
           /\ \A e \in ListingOf(response.dir) : IsEntry(e)
           /\ \A e, f \in ListingOf(response.dir) : Comparable(e.of.name, f.of.name)
           /\ response.entries \in GetDirInfo(ListingOf(response.dir), request.sort, request.order)
<1>1. /\ IsTree(remote)
      /\ response.entries \in GetDirInfo(ListingOf(response.dir), request.sort, request.order)
    BY DEF WebInv, Setting, DirPageInv
<1>2. IsFiniteSet(ListingOf(response.dir))
    BY <1>1, ListingFinite
<1>3. \A y \in remote : y.dir = response.dir => \E k \in DOMAIN response.entries : response.entries[k] = Listed(y)
    BY <1>1, EntriesOf
<1>4. ASSUME NEW e \in ListingOf(response.dir)
      PROVE  \E k \in DOMAIN response.entries : response.entries[k] = e
    BY <1>3 DEF ListingOf
<1>5. ASSUME NEW e \in ListingOf(response.dir)
      PROVE  IsEntry(e)
    <2>1. PICK x \in remote : x.dir = response.dir /\ e = Listed(x)
        BY DEF ListingOf
    <2>2. PICK k \in DOMAIN response.entries : response.entries[k] = e
        BY <1>4
    <2>3. Plain(e.of.name)
        BY <2>2 DEF AllPlain
    <2>4. x.name \in Seq(Nat) /\ x.isDir \in BOOLEAN /\ x.size \in Nat /\ x.modTime \in Int
        BY <1>1 DEF IsTree, Name
    <2>5. /\ e.of.name = x.name /\ e.isDir = x.isDir /\ e.modTime = x.modTime
          /\ e.size = (IF x.isDir THEN 0 ELSE x.size)
          /\ e.path = IF x.isDir THEN Append(x.name, Slash) ELSE x.name
        BY <2>1 DEF Listed
    <2> QED
        BY <2>3, <2>4, <2>5 DEF IsEntry
<1>6. ASSUME NEW e \in ListingOf(response.dir), NEW f \in ListingOf(response.dir)
      PROVE  Comparable(e.of.name, f.of.name)
    <2>1. PICK j \in DOMAIN response.entries : response.entries[j] = e
        BY <1>4
    <2>2. PICK k \in DOMAIN response.entries : response.entries[k] = f
        BY <1>4
    <2> QED
        BY <2>1, <2>2 DEF AllComparable
<1> QED
    BY <1>1, <1>2, <1>5, <1>6

(* Listings by name are in natural order, for names of any length and       *)
(* numbers below MaxInt with any number of digits, leading zeros included:  *)
(* the comparison of the code agrees with the order of the tokens, which is *)
(* transitive, so that no two entries, neighbours or not, are in the wrong  *)
(* order.  The exception is the one the property states: two names that     *)
(* spell a number differently and then differ in a character or the end.    *)
THEOREM ListingsAreNatural == Spec => []ListingIsNatural
<1>1. ASSUME WebInv
      PROVE  ListingIsNatural
    <2> DEFINE es == InOrder(response.entries)
               S == ListingOf(response.dir)
               R == OrderOn(S, request.sort)
    <2> SUFFICES ASSUME Page({"dir"}), SortName(request.sort) = "namedirfirst",
                        AllPlain(response.entries), AllComparable(response.entries),
                        NEW j \in DOMAIN es, NEW k \in DOMAIN es, j < k
                 PROVE  /\ es[k].isDir => es[j].isDir
                        /\ es[j].isDir = es[k].isDir => ~NaturallyBefore(es[k].of.name, es[j].of.name)
        BY DEF ListingIsNatural, ListedByName, IsNatural
    <2>1. /\ IsFiniteSet(S) /\ \A e \in S : IsEntry(e)
          /\ \A e, f \in S : Comparable(e.of.name, f.of.name)
          /\ response.entries \in GetDirInfo(S, request.sort, request.order)
        BY <1>1, PlainPage
    <2>2. es = Ascending(response.entries, request.order)
        BY DEF Ascending, InOrder
    <2> HIDE DEF S, es
    <2>3. es \in SetToSeqs(S) /\ Sorted(es, R)
        BY <2>1, <2>2, ListingSorted
    <2>4. es \in Seq(S)
        BY <2>1, <2>3, Listing
    <2>5. j \in 1..Len(es) /\ k \in 1..Len(es)
        BY <2>4, LenProperties
    <2>6. es[j] \in S /\ es[k] \in S
        BY <2>4, <2>5, ElementOfSeq
    <2>7. <<es[j], es[k]>> \in R
        BY <2>3, <2>5 DEF Sorted
    <2>8. UpTo(es[j], es[k], request.sort)
        BY <2>7 DEF OrderOn
    <2>9. NameUpTo(es[j], es[k])
        <3>1. Key(es[j], request.sort) = 0 /\ Key(es[k], request.sort) = 0
            BY DEF Key
        <3> QED
            BY <2>8, <3>1 DEF UpTo
    <2>10. IsEntry(es[j]) /\ IsEntry(es[k])
        BY <2>1, <2>6
    <2>11. es[j].isDir \in BOOLEAN /\ es[k].isDir \in BOOLEAN
        BY <2>10 DEF IsEntry
    <2>12. es[k].isDir => es[j].isDir
        BY <2>9, <2>11 DEF NameUpTo
    <2>13. ASSUME es[j].isDir = es[k].isDir
           PROVE  ~NaturallyBefore(es[k].of.name, es[j].of.name)
        <3>1. NameOrder(es[j], es[k])
            BY <2>9, <2>11, <2>13 DEF NameUpTo
        <3> QED
            BY <2>10, <3>1, NotNaturallyBefore
    <2> QED
        BY <2>12, <2>13
<1> QED
    BY <1>1, WebInvariant, PTL

(* The order of a listing is determined, by whichever key and in whichever  *)
(* direction: whatever rclone sends first, names at the same place read the *)
(* same and are as long, so that they differ in case or in where they have  *)
(* leading zeros.  Listings with names the comparison takes wrongly are     *)
(* excepted, as in ListingsAreNatural.                                      *)
THEOREM ListingsAreDetermined == Spec => []ListingDetermined
<1>1. ASSUME WebInv
      PROVE  ListingDetermined
    <2> DEFINE S == ListingOf(response.dir)
    <2> SUFFICES ASSUME Page({"dir"}), AllPlain(response.entries), AllComparable(response.entries),
                        NEW other \in GetDirInfo(S, request.sort, request.order), NEW k \in DOMAIN other
                 PROVE  /\ other[k].isDir = response.entries[k].isDir
                        /\ SameReading(other[k].of.name, response.entries[k].of.name)
        BY DEF ListingDetermined
    <2>1. /\ IsFiniteSet(S) /\ \A e \in S : IsEntry(e)
          /\ \A e, f \in S : Comparable(e.of.name, f.of.name)
          /\ response.entries \in GetDirInfo(S, request.sort, request.order)
        BY <1>1, PlainPage
    <2> HIDE DEF S
    <2> QED
        BY <2>1, ListingsAlike
<1> QED
    BY <1>1, WebInvariant, PTL

-----------------------------------------------------------------------------
(* Searches *)

(* Searches that are read as the terms they were written from, of remotes   *)
(* whose paths are those of one entry each.                                 *)
Meant == ReadAs(request.search, request.terms) /\ OnePathEach(remote)

FileOf(x) ==
    [path |-> PathText(x), isDir |-> x.isDir, modTime |-> x.modTime, size |-> IF x.isDir THEN 0 ELSE x.size]

Index == newPrefixIndex(GetAllFiles)

Score(x) == IF Words # <<>> THEN ScoreOf(Index, Words, FileOf(x)) ELSE Inf

(* The hit of an entry that matches.                                        *)
HitOf(x) == [entry |-> FileOf(x), score |-> Score(x)]

Found == {x \in remote : Matches(x)}

HitsOf(S) == {HitOf(x) : x \in S}

(* What is read from the search is what its terms say, in normalised words. *)
LEMMA RequestMeant ==
    ASSUME Meant, request.search \in Seq(Nat)
    PROVE  /\ Words \in Seq(SearchWord)
           /\ newSearchRequest(request.search).words = Words
           /\ newSearchRequest(request.search).exactMatches = Parts("exact")
           /\ newSearchRequest(request.search).toExclude = Parts("exclude")
    BY RequestWords DEF Meant, ReadAs, Words, Parts

(* The index has a file for every entry of the remote.                      *)
LEMMA EntryPlaced ==
    ASSUME IsTree(remote), NEW x \in remote
    PROVE  /\ IsPlaced(x) /\ PathText(x) \in Seq(Nat)
           /\ FileOf(x) \in GetAllFiles /\ FileOf(x).path = PathText(x) /\ FileOf(x).isDir = x.isDir
<1>1. IsPlaced(x)
    BY DEF IsTree, IsPlaced
<1>2. PathText(x) \in Seq(Nat)
    BY <1>1, TextTyped
<1>3. FileOf(x) \in GetAllFiles
    BY DEF FileOf, GetAllFiles
<1> QED
    BY <1>1, <1>2, <1>3 DEF FileOf

(* It has no other ones.                                                    *)
LEMMA FilesOfEntries == GetAllFiles = {FileOf(x) : x \in remote}
    BY DEF GetAllFiles, FileOf

(* The index finds a path by a word if a word of the path begins like it.   *)
LEMMA WordFound ==
    ASSUME IsTree(remote), NEW x \in remote, NEW w \in SearchWord
    PROVE  /\ FileOf(x) \in UNION {IdsUnder(Index, p) : p \in generatePrefixes(w)}
                <=> Shared(PathText(x), w) # {}
           /\ Shared(PathText(x), w) # {} <=> BeginsWord(PathText(x), SubSeq(w, 1, MinPrefixLen))
<1>1. w \in Terms /\ Len(w) >= MinPrefixLen
    BY DEF SearchWord, Terms
<1>2. PathText(x) \in Seq(Nat) /\ FileOf(x) \in GetAllFiles /\ FileOf(x).path = PathText(x)
    BY EntryPlaced
<1>3. \A p : FileOf(x) \in IdsUnder(Index, p) <=> p \in generatePrefixes(PathText(x))
    BY <1>2, UnderPrefix DEF Index
<1>4. FileOf(x) \in UNION {IdsUnder(Index, p) : p \in generatePrefixes(w)} <=> Shared(PathText(x), w) # {}
    BY <1>3 DEF Shared
<1>5. Shared(PathText(x), w) # {} <=> BeginsWord(PathText(x), SubSeq(w, 1, MinPrefixLen))
    BY <1>1, <1>2, SharedCount
<1> QED
    BY <1>4, <1>5

(* What the index finds for the words is what they are in.                  *)
LEMMA WordsFound ==
    ASSUME IsTree(remote), Words \in Seq(SearchWord), NEW x \in remote
    PROVE  /\ HasWords(PathText(x)) <=>
                \A k \in DOMAIN Words : BeginsWord(PathText(x), SubSeq(Words[k], 1, MinPrefixLen))
           /\ HasWords(PathText(x)) <=>
                \A k \in DOMAIN Words :
                  FileOf(x) \in UNION {IdsUnder(Index, p) : p \in generatePrefixes(Words[k])}
<1> DEFINE words == Words
<1>1. words \in Seq(SearchWord)
    OBVIOUS
<1> HIDE DEF words
<1>2. DOMAIN words = 1..Len(words) /\ \A k \in 1..Len(words) : words[k] \in SearchWord
    BY <1>1, LenProperties, ElementOfSeq
<1>3. HasWords(PathText(x)) <=> \A k \in 1..Len(words) : Shared(PathText(x), words[k]) # {}
    BY DEF HasWords, words
<1>4. \A k \in 1..Len(words) :
        Shared(PathText(x), words[k]) # {} <=> BeginsWord(PathText(x), SubSeq(words[k], 1, MinPrefixLen))
    BY <1>2, WordFound
<1>5. \A k \in 1..Len(words) :
        Shared(PathText(x), words[k]) # {}
          <=> FileOf(x) \in UNION {IdsUnder(Index, p) : p \in generatePrefixes(words[k])}
    BY <1>2, WordFound
<1>6. HasWords(PathText(x)) <=>
        \A k \in DOMAIN words : BeginsWord(PathText(x), SubSeq(words[k], 1, MinPrefixLen))
    BY <1>2, <1>3, <1>4
<1>7. HasWords(PathText(x)) <=>
        \A k \in DOMAIN words : FileOf(x) \in UNION {IdsUnder(Index, p) : p \in generatePrefixes(words[k])}
    BY <1>2, <1>3, <1>5
<1> QED
    BY <1>6, <1>7 DEF words

(* The texts that a path must have, and must not have.                      *)
HasParts(path) ==
    /\ \A text \in Parts("exact") : StringsContains(ToLower(path), text)
    /\ \A text \in Parts("exclude") : ~StringsContains(ToLower(path), text)

(* Matches have all words and parts, and none of the excluded ones.         *)
LEMMA FoundHas ==
    ASSUME IsTree(remote), Words \in Seq(SearchWord), NEW x \in remote
    PROVE  x \in Found <=> HasWords(PathText(x)) /\ HasParts(PathText(x))
    BY WordsFound DEF Found, Matches, HasParts

(* The hits before compaction.                                              *)
LEMMA HitsFound ==
    ASSUME IsTree(remote), Words \in Seq(SearchWord), NEW found,
           found = IF Words # <<>> THEN searchByPrefixes(Index, Words)
                   ELSE {[entry |-> e, score |-> Inf] : e \in Index.entries}
    PROVE  {hit \in found : HasParts(hit.entry.path)} = HitsOf(Found)
<1>1. Index.entries = {FileOf(x) : x \in remote}
    BY FilesOfEntries DEF Index, newPrefixIndex
<1>2. \A x : HitOf(x).entry = FileOf(x) /\ FileOf(x).path = PathText(x)
    BY DEF HitOf, FileOf
<1>3. found = {HitOf(x) : x \in {y \in remote : HasWords(PathText(y))}}
    <2>1. CASE Words # <<>>
        <3> DEFINE M(k) == UNION {IdsUnder(Index, p) : p \in generatePrefixes(Words[k])}
                   matches == [k \in DOMAIN Words |-> M(k)]
                   In(e) == \A k \in DOMAIN Words : e \in M(k)
        <3>1. found = {[entry |-> e, score |-> ScoreOf(Index, Words, e)] :
                         e \in {x \in Index.entries : \A k \in DOMAIN Words : x \in matches[k]}}
            BY <2>1 DEF searchByPrefixes
        <3>2. \A e : (\A k \in DOMAIN Words : e \in matches[k]) <=> In(e)
            OBVIOUS
        <3>3. \A x \in remote : HasWords(PathText(x)) <=> In(FileOf(x))
            BY WordsFound
        <3> HIDE DEF In, matches
        <3>4. found = {[entry |-> e, score |-> ScoreOf(Index, Words, e)] : e \in {x \in Index.entries : In(x)}}
            BY <3>1, <3>2
        <3>5. {x \in Index.entries : In(x)} = {FileOf(x) : x \in {y \in remote : HasWords(PathText(y))}}
            BY <1>1, <3>3
        <3>6. \A x : HitOf(x) = [entry |-> FileOf(x), score |-> ScoreOf(Index, Words, FileOf(x))]
            BY <2>1 DEF HitOf, Score
        <3> QED
            BY <3>4, <3>5, <3>6
    <2>2. CASE Words = <<>>
        <3>1. found = {[entry |-> e, score |-> Inf] : e \in Index.entries}
            BY <2>2
        <3>2. \A x : HitOf(x) = [entry |-> FileOf(x), score |-> Inf]
            BY <2>2 DEF HitOf, Score
        <3>3. \A x : HasWords(PathText(x))
            BY <2>2, EmptySeq DEF HasWords
        <3> QED
            BY <1>1, <3>1, <3>2, <3>3
    <2> QED
        BY <2>1, <2>2
<1>4. \A x \in remote : x \in Found <=> HasWords(PathText(x)) /\ HasParts(PathText(x))
    BY FoundHas
<1>5. Found \subseteq remote
    BY DEF Found
<1> QED
    BY <1>2, <1>3, <1>4, <1>5 DEF HitsOf

(* Compaction gets the hits of all matches, unless the search is empty.     *)
LEMMA AllHitsFound ==
    ASSUME IsTree(remote), Meant, request.search \in Seq(Nat),
           NEW hits \in AllHits(Index, newSearchRequest(request.search))
    PROVE  \/ hits = {} /\ AllMatches = {}
           \/ AllMatches = Found /\ hits \in compactSearchHits(HitsOf(Found))
<1> DEFINE req == newSearchRequest(request.search)
           found == IF req.words # <<>> THEN searchByPrefixes(Index, req.words)
                    ELSE {[entry |-> e, score |-> Inf] : e \in Index.entries}
           Kept(hit) == LET path == ToLower(hit.entry.path)
                        IN  /\ \A exact \in req.exactMatches : StringsContains(path, exact)
                            /\ \A word \in req.toExclude : ~StringsContains(path, word)
<1>1. /\ Words \in Seq(SearchWord) /\ req.words = Words
      /\ req.exactMatches = Parts("exact") /\ req.toExclude = Parts("exclude")
    BY RequestMeant
<1>2. hits \in IF req.words = <<>> /\ req.exactMatches = {} /\ req.toExclude = {} THEN {{}}
               ELSE compactSearchHits({hit \in found : Kept(hit)})
    BY DEF AllHits
<1>3. CASE Words = <<>> /\ Parts("exact") = {} /\ Parts("exclude") = {}
    BY <1>1, <1>2, <1>3 DEF AllMatches
<1>4. CASE ~(Words = <<>> /\ Parts("exact") = {} /\ Parts("exclude") = {})
    <2>1. AllMatches = Found
        BY <1>4 DEF AllMatches, Found
    <2>2. \A hit : Kept(hit) <=> HasParts(hit.entry.path)
        BY <1>1 DEF HasParts
    <2>3. found = IF Words # <<>> THEN searchByPrefixes(Index, Words)
                  ELSE {[entry |-> e, score |-> Inf] : e \in Index.entries}
        BY <1>1
    <2>4. hits \in compactSearchHits({hit \in found : Kept(hit)})
        BY <1>1, <1>2, <1>4
    <2> HIDE DEF found, Kept, req
    <2>5. {hit \in found : HasParts(hit.entry.path)} = HitsOf(Found)
        BY <1>1, <2>3, HitsFound
    <2>6. {hit \in found : Kept(hit)} = HitsOf(Found)
        BY <2>2, <2>5
    <2> QED
        BY <2>1, <2>4, <2>6
<1> QED
    BY <1>3, <1>4

(* Matches are entries of the remote.                                       *)
LEMMA FoundPlaced ==
    ASSUME IsTree(remote), Words \in Seq(SearchWord), NEW x \in Found
    PROVE  /\ x \in remote /\ HasWords(PathText(x))
           /\ IsPlaced(x) /\ PathText(x) \in Seq(Nat)
           /\ FileOf(x) \in GetAllFiles /\ FileOf(x).path = PathText(x) /\ FileOf(x).isDir = x.isDir
<1>1. x \in remote
    BY DEF Found
<1> QED
    BY <1>1, FoundHas, EntryPlaced

(* The score of a match and its likeness differ by the same number for all  *)
(* of them.                                                                 *)
LEMMA ScoresDiffer ==
    ASSUME IsTree(remote), Words \in Seq(SearchWord), NEW x \in Found, NEW y \in Found
    PROVE  /\ Score(x) \in Nat /\ Score(y) \in Nat /\ Likeness(x) \in Nat /\ Likeness(y) \in Nat
           /\ Likeness(x) + Score(y) = Likeness(y) + Score(x)
<1>1. /\ PathText(x) \in Seq(Nat) /\ FileOf(x) \in GetAllFiles /\ FileOf(x).path = PathText(x)
      /\ HasWords(PathText(x))
    BY FoundPlaced
<1>2. /\ PathText(y) \in Seq(Nat) /\ FileOf(y) \in GetAllFiles /\ FileOf(y).path = PathText(y)
      /\ HasWords(PathText(y))
    BY FoundPlaced
<1>3. CASE Words # <<>>
    <2>1. Score(x) = ScoreOf(newPrefixIndex(GetAllFiles), Words, FileOf(x))
        BY <1>3 DEF Score, Index
    <2>2. Score(y) = ScoreOf(newPrefixIndex(GetAllFiles), Words, FileOf(y))
        BY <1>3 DEF Score, Index
    <2>3. /\ ScoreOf(newPrefixIndex(GetAllFiles), Words, FileOf(x)) \in Nat
          /\ ScoreOf(newPrefixIndex(GetAllFiles), Words, FileOf(y)) \in Nat
          /\ Likeness(x) \in Nat /\ Likeness(y) \in Nat
          /\ Likeness(x) + ScoreOf(newPrefixIndex(GetAllFiles), Words, FileOf(y))
               = Likeness(y) + ScoreOf(newPrefixIndex(GetAllFiles), Words, FileOf(x))
        BY <1>1, <1>2, ScoreIsLikeness
    <2> QED
        BY <2>1, <2>2, <2>3
<1>4. CASE Words = <<>>
    <2>1. Score(x) = Inf /\ Score(y) = Inf /\ Inf \in Nat
        BY <1>4 DEF Score, Inf
    <2>2. Len(Words) = 0
        BY <1>4, EmptySeq
    <2>3. Likeness(x) = 0
        <3>1. \E s \in [0..Len(Words) -> Nat] : Sums(s, Lengths(x), Len(Words)) /\ Likeness(x) = s[Len(Words)]
            BY <1>1, LikenessIsSum
        <3> QED
            BY <2>2, <3>1 DEF Sums
    <2>4. Likeness(y) = 0
        <3>1. \E s \in [0..Len(Words) -> Nat] : Sums(s, Lengths(y), Len(Words)) /\ Likeness(y) = s[Len(Words)]
            BY <1>2, LikenessIsSum
        <3> QED
            BY <2>2, <3>1 DEF Sums
    <2> QED
        BY <2>1, <2>3, <2>4
<1> QED
    BY <1>3, <1>4

(* So scores and likeness agree on which of two matches is better.          *)
LEMMA ScoresAgree ==
    ASSUME IsTree(remote), Words \in Seq(SearchWord), NEW x \in Found, NEW y \in Found
    PROVE  /\ Score(x) = Score(y) <=> Likeness(x) = Likeness(y)
           /\ Score(x) >= Score(y) <=> Likeness(x) >= Likeness(y)
<1>1. PICK a \in Nat, b \in Nat, c \in Nat, d \in Nat :
        Score(x) = a /\ Score(y) = b /\ Likeness(x) = c /\ Likeness(y) = d /\ c + b = d + a
    BY ScoresDiffer
<1>2. (a = b <=> c = d) /\ (a >= b <=> c >= d)
    BY <1>1
<1> QED
    BY <1>1, <1>2

(* Paths that are read back are those of one entry.                         *)
LEMMA OneText ==
    ASSUME IsTree(remote), OnePathEach(remote), NEW x \in remote, NEW y \in remote, PathText(x) = PathText(y)
    PROVE  x = y
<1>1. IsPlaced(x) /\ IsPlaced(y)
    BY EntryPlaced
<1>2. PathOf(x) = PathOf(y) /\ (x.isDir <=> y.isDir)
    BY <1>1, ElementsOfText DEF IsPlaced
<1>3. x.isDir = y.isDir
    BY <1>1, <1>2 DEF IsPlaced
<1> QED
    BY <1>2, <1>3 DEF OnePathEach

(* Hits of matches.                                                         *)
LEMMA HitTyped ==
    ASSUME IsTree(remote), Words \in Seq(SearchWord), NEW x \in Found
    PROVE  /\ IsHit(HitOf(x))
           /\ HitOf(x).score = Score(x) /\ HitOf(x).entry.path = PathText(x) /\ HitOf(x).entry.isDir = x.isDir
<1>1. Score(x) \in Int
    BY ScoresDiffer
<1>2. /\ FileOf(x).path = PathText(x) /\ FileOf(x).isDir = x.isDir /\ PathText(x) \in Seq(Nat)
      /\ x.isDir \in BOOLEAN
    BY FoundPlaced DEF IsPlaced
<1> QED
    BY <1>1, <1>2 DEF HitOf, IsHit

(* What absorbing means for the matches.                                    *)
LEMMA AbsorbsMeans ==
    ASSUME IsTree(remote), Words \in Seq(SearchWord), NEW x \in Found, NEW y \in Found
    PROVE  Absorbs(HitOf(x), HitOf(y)) <=>
             x.isDir /\ Likeness(x) = Likeness(y) /\ Starts(PathText(x), PathText(y))
<1>1. /\ HitOf(x).score = Score(x) /\ HitOf(x).entry.path = PathText(x) /\ HitOf(x).entry.isDir = x.isDir
      /\ HitOf(y).score = Score(y) /\ HitOf(y).entry.path = PathText(y)
    BY HitTyped
<1>2. Score(x) = Score(y) <=> Likeness(x) = Likeness(y)
    BY ScoresAgree
<1> QED
    BY <1>1, <1>2 DEF Absorbs

(* A hit absorbs what its directory stands for.                             *)
LEMMA AbsorbsIsStanding ==
    ASSUME IsTree(remote), OnePathEach(remote), Words \in Seq(SearchWord), NEW x \in Found, NEW y \in Found
    PROVE  StandsFor(x, y) <=> x = y \/ Absorbs(HitOf(x), HitOf(y))
<1>1. /\ IsPlaced(x) /\ IsPlaced(y) /\ x \in remote /\ y \in remote
    BY FoundPlaced
<1>2. ASSUME StandsFor(x, y), x # y
      PROVE  Absorbs(HitOf(x), HitOf(y))
    <2>1. x.isDir /\ IsStrictPrefix(PathOf(x), PathOf(y)) /\ Likeness(x) = Likeness(y)
        BY <1>2 DEF StandsFor, Under
    <2>2. Starts(PathText(x), PathText(y))
        BY <1>1, <2>1, UnderBegins
    <2> QED
        BY <2>1, <2>2, AbsorbsMeans
<1>3. ASSUME Absorbs(HitOf(x), HitOf(y)), x # y
      PROVE  StandsFor(x, y)
    <2>1. x.isDir /\ Likeness(x) = Likeness(y) /\ Starts(PathText(x), PathText(y))
        BY <1>3, AbsorbsMeans
    <2>2. PathText(x) # PathText(y)
        BY <1>1, <1>3, OneText
    <2>3. IsStrictPrefix(PathOf(x), PathOf(y))
        BY <1>1, <2>1, <2>2, BeginsUnder
    <2> QED
        BY <2>1, <2>3 DEF StandsFor, Under
<1>4. StandsFor(x, x)
    BY DEF StandsFor
<1> QED
    BY <1>2, <1>3, <1>4

(* A hit shows the entry it is the hit of.                                  *)
LEMMA HitReadBack ==
    ASSUME IsTree(remote), OnePathEach(remote), NEW x \in remote
    PROVE  HitEntry(HitOf(x)) = x
<1>1. HitOf(x).entry = FileOf(x) /\ FileOf(x) \in GetAllFiles /\ FileOf(x).path = PathText(x)
    BY EntryPlaced DEF HitOf
<1>2. PICK y \in remote : HitEntry(HitOf(x)) = AsHit(y) /\ HitOf(x).entry.path = PathText(y)
    BY <1>1, HitIsEntry
<1>3. y = x
    BY <1>1, <1>2, OneText
<1>4. AsHit(x) = x
    <2>1. x \in [dir : Seq(Name), name : Name, isDir : BOOLEAN, size : Nat, modTime : Int]
        BY DEF IsTree
    <2>2. x.isDir => x.size = 0
        BY DEF OnePathEach
    <2>3. AsHit(x) = [dir |-> x.dir, name |-> x.name, isDir |-> x.isDir, modTime |-> x.modTime, size |-> x.size]
        BY <2>2 DEF AsHit
    <2> QED
        BY <2>1, <2>3
<1> QED
    BY <1>2, <1>3, <1>4

(* There are finitely many matches and hits.                                *)
LEMMA FoundFinite ==
    ASSUME IsTree(remote), NEW S \in SUBSET remote
    PROVE  IsFiniteSet(S) /\ IsFiniteSet(HitsOf(S))
<1>1. IsFiniteSet(S)
    BY FS_Subset DEF IsTree
<1> DEFINE f == [x \in S |-> HitOf(x)]
<1>2. f \in [S -> HitsOf(S)] /\ \A h \in HitsOf(S) : \E x \in S : f[x] = h
    BY DEF HitsOf
<1> HIDE DEF f
<1>3. IsFiniteSet(HitsOf(S))
    BY <1>1, <1>2, FiniteImage
<1> QED
    BY <1>1, <1>3

(* The matches that nothing stands for.                                     *)
Expected == {e \in AllMatches : \A d \in AllMatches : StandsFor(d, e) => d = e}

(* Compaction leaves their hits.                                            *)
LEMMA HitsLeft ==
    ASSUME IsTree(remote), Meant, request.search \in Seq(Nat),
           NEW hits \in AllHits(Index, newSearchRequest(request.search))
    PROVE  hits = HitsOf(Expected) /\ Expected \subseteq Found
<1>1. CASE hits = {} /\ AllMatches = {}
    BY <1>1 DEF Expected, HitsOf
<1>2. CASE AllMatches = Found /\ hits \in compactSearchHits(HitsOf(Found))
    <2> DEFINE H == HitsOf(Found)
    <2>0. Words \in Seq(SearchWord) /\ OnePathEach(remote)
        BY RequestMeant DEF Meant
    <2>1. IsFiniteSet(H)
        <3>1. Found \in SUBSET remote
            BY DEF Found
        <3> QED
            BY <3>1, FoundFinite
    <2>2. \A h \in H : IsHit(h)
        BY <2>0, HitTyped DEF HitsOf
    <2>3. \A x \in Found, y \in Found : HitOf(x).entry.path = HitOf(y).entry.path => x = y
        BY <2>0, HitTyped, FoundPlaced, OneText
    <2>4. OnePerPath(H)
        BY <2>3 DEF OnePerPath, HitsOf
    <2>5. hits = {h \in H : \A g \in H : Absorbs(g, h) => g = h}
        <3> HIDE DEF H
        <3>1. hits \in compactSearchHits(H)
            BY <1>2 DEF H
        <3> QED
            BY <2>1, <2>2, <2>4, <3>1, CompactionExact
    <2>6. \A x \in Found, y \in Found : HitOf(x) = HitOf(y) => x = y
        BY <2>3
    <2>7. \A x \in Found, y \in Found : StandsFor(x, y) <=> x = y \/ Absorbs(HitOf(x), HitOf(y))
        BY <2>0, AbsorbsIsStanding
    <2>8. \A y \in Found : (\A g \in H : Absorbs(g, HitOf(y)) => g = HitOf(y)) <=> y \in Expected
        <3> SUFFICES ASSUME NEW y \in Found
                     PROVE  (\A g \in H : Absorbs(g, HitOf(y)) => g = HitOf(y)) <=> y \in Expected
            OBVIOUS
        <3>1. (\A g \in H : Absorbs(g, HitOf(y)) => g = HitOf(y))
                <=> \A x \in Found : Absorbs(HitOf(x), HitOf(y)) => HitOf(x) = HitOf(y)
            BY DEF HitsOf
        <3>2. (\A x \in Found : Absorbs(HitOf(x), HitOf(y)) => HitOf(x) = HitOf(y))
                <=> \A x \in Found : StandsFor(x, y) => x = y
            BY <2>6, <2>7
        <3>3. y \in Expected <=> \A x \in Found : StandsFor(x, y) => x = y
            BY <1>2 DEF Expected
        <3> QED
            BY <3>1, <3>2, <3>3
    <2>9. Expected \subseteq Found
        BY <1>2 DEF Expected
    <2>10. hits = {HitOf(x) : x \in Expected}
        BY <2>5, <2>8, <2>9 DEF HitsOf
    <2> QED
        BY <2>9, <2>10 DEF HitsOf
<1> QED
    BY <1>1, <1>2, AllHitsFound

(* A match that something stands for is stood for by one that nothing       *)
(* stands for: the directory nearest to the root.                           *)
LEMMA SomethingStands ==
    ASSUME IsTree(remote), Meant, request.search \in Seq(Nat), NEW e \in AllMatches
    PROVE  \E d \in Expected : StandsFor(d, e)
<1>0. Words \in Seq(SearchWord) /\ OnePathEach(remote)
    BY RequestMeant DEF Meant
<1>1. AllMatches = Found
    BY DEF AllMatches, Found
<1>2. \A x \in Found, y \in Found : StandsFor(x, y) <=> x = y \/ Absorbs(HitOf(x), HitOf(y))
    BY <1>0, AbsorbsIsStanding
<1>3. \A x \in Found : x \in remote /\ PathText(x) \in Seq(Nat) /\ Len(PathText(x)) \in Nat
    BY <1>0, FoundPlaced, LenProperties
<1> DEFINE S == {d \in Found : StandsFor(d, e)}
           T == {Len(PathText(d)) : d \in S}
<1>4. e \in S
    BY <1>1 DEF StandsFor
<1>5. T \in SUBSET Nat /\ T # {}
    BY <1>3, <1>4
<1>6. Min(T) \in T /\ \A n \in T : Min(T) <= n
    <2> HIDE DEF T
    <2> QED
        BY <1>5, LeastNumber
<1>7. PICK d \in S : Len(PathText(d)) = Min(T)
    BY <1>6
<1>8. \A c \in S : Len(PathText(d)) <= Len(PathText(c))
    <2>1. \A c \in S : Len(PathText(c)) \in T
        OBVIOUS
    <2> HIDE DEF T
    <2> QED
        BY <1>6, <1>7, <2>1
<1> HIDE DEF T
<1>9. ASSUME NEW c \in Found, StandsFor(c, d)
      PROVE  c = d
    <2> SUFFICES ASSUME c # d
                 PROVE  FALSE
        OBVIOUS
    <2>1. Absorbs(HitOf(c), HitOf(d))
        BY <1>2, <1>9
    <2>2. StandsFor(c, e)
        <3>1. CASE d = e
            BY <1>9, <3>1
        <3>2. CASE d # e
            <4>1. Absorbs(HitOf(d), HitOf(e))
                BY <1>1, <1>2, <3>2
            <4>2. IsHit(HitOf(c)) /\ IsHit(HitOf(d)) /\ IsHit(HitOf(e))
                BY <1>0, <1>1, HitTyped
            <4>3. Absorbs(HitOf(c), HitOf(e))
                BY <2>1, <4>1, <4>2, AbsorbsLaws
            <4> QED
                BY <1>1, <1>2, <4>3
        <3> QED
            BY <3>1, <3>2
    <2>3. Len(PathText(d)) <= Len(PathText(c))
        BY <1>8, <2>2
    <2>4. Starts(PathText(c), PathText(d))
        BY <1>0, <2>1, AbsorbsMeans
    <2> DEFINE s == PathText(c)
               t == PathText(d)
    <2>5. s \in Seq(Nat) /\ t \in Seq(Nat) /\ Len(s) \in Nat /\ Len(t) \in Nat
        BY <1>3
    <2>6. Len(t) <= Len(s) /\ Starts(s, t)
        BY <2>3, <2>4
    <2> HIDE DEF s, t
    <2>7. Starts(t, s)
        BY <2>5, <2>6 DEF Starts
    <2>8. s = t
        BY <2>5, <2>6, <2>7, StartsBoth
    <2> QED
        BY <1>0, <1>3, <2>8, OneText DEF s, t
<1>10. d \in Expected
    BY <1>1, <1>9 DEF Expected
<1> QED
    BY <1>10

(* The results of a search are the hits of the matches that nothing stands  *)
(* for, the best of them first, cut at the limit.                           *)
LEMMA ResultsExact ==
    ASSUME WebInv, Meant, Page({"search"})
    PROVE  /\ \E found : /\ CutOf(found, HitsOf(Expected), request.limit)
                         /\ response.hits = found.hits /\ response.total = found.total
           /\ Expected \subseteq Found /\ IsFiniteSet(Expected)
<1>0. /\ IsTree(remote) /\ request.search \in Seq(Nat) /\ request.limit \in Int
      /\ FromIndex(response.hits, response.total)
    BY DEF WebInv, Setting, HitsInv
<1>1. PICK found \in Search(Index, request.search, request.limit) :
        ~found.panic /\ response.hits = found.hits /\ response.total = found.total
    BY <1>0 DEF FromIndex, Index
<1>2. PICK hits \in AllHits(Index, newSearchRequest(request.search)) : found \in CutTo(hits, request.limit)
    BY DEF Search
<1>3. hits = HitsOf(Expected) /\ Expected \subseteq Found
    BY <1>0, HitsLeft
<1>4. Found \subseteq remote
    BY DEF Found
<1>5. IsFiniteSet(Expected) /\ IsFiniteSet(hits)
    BY <1>0, <1>3, <1>4, FoundFinite
<1>6. \A h \in hits : h.score \in Int
    BY <1>0, <1>3, RequestMeant, HitTyped DEF HitsOf, IsHit
<1>7. CutOf(found, hits, request.limit)
    BY <1>0, <1>1, <1>2, <1>5, <1>6, CutExact
<1> QED
    BY <1>1, <1>3, <1>5, <1>7

(* Every result is a match that nothing else stands for.                    *)
LEMMA ReturnedAre ==
    ASSUME WebInv, Meant, Page({"search"})
    PROVE  /\ \A k \in DOMAIN response.hits :
                \E x \in Expected : response.hits[k] = HitOf(x) /\ HitEntry(response.hits[k]) = x
           /\ Expected \subseteq Found
<1>1. \A x \in Found : HitEntry(HitOf(x)) = x
    BY HitReadBack DEF WebInv, Setting, Meant, Found
<1>2. Expected \subseteq Found /\ \A k \in DOMAIN response.hits : response.hits[k] \in HitsOf(Expected)
    BY ResultsExact DEF CutOf
<1> QED
    BY <1>1, <1>2 DEF HitsOf

(* A search finds exactly what its terms say.                               *)
LEMMA ExactSearch ==
    ASSUME WebInv, Meant
    PROVE  SearchFindsExactly
<1> SUFFICES ASSUME Page({"search"})
             PROVE  /\ Returned \subseteq Expected
                    /\ response.total = Cardinality(Expected)
                    /\ response.total <= request.limit => Returned = Expected
    BY DEF SearchFindsExactly, Expected
<1>1. \A x \in Expected : x \in Found /\ x \in remote /\ HitEntry(HitOf(x)) = x
    BY ReturnedAre, HitReadBack DEF WebInv, Setting, Meant, Found
<1>2. PICK found : /\ CutOf(found, HitsOf(Expected), request.limit)
                   /\ response.hits = found.hits /\ response.total = found.total
    BY ResultsExact
<1>3. IsFiniteSet(Expected)
    BY ResultsExact
<1>4. Returned \subseteq Expected
    BY ReturnedAre DEF Returned
<1>5. response.total = Cardinality(Expected)
    <2> DEFINE f == [x \in Expected |-> HitOf(x)]
    <2>1. f \in [Expected -> HitsOf(Expected)] /\ \A h \in HitsOf(Expected) : \E x \in Expected : f[x] = h
        BY DEF HitsOf
    <2>2. \A x, y \in Expected : f[x] = f[y] => x = y
        BY <1>1
    <2> HIDE DEF f
    <2>3. Cardinality(HitsOf(Expected)) = Cardinality(Expected)
        BY <1>3, <2>1, <2>2, OneToOne
    <2> QED
        BY <1>2, <2>3 DEF CutOf
<1>6. ASSUME response.total <= request.limit
      PROVE  Expected \subseteq Returned
    <2> SUFFICES ASSUME NEW x \in Expected
                 PROVE  x \in Returned
        OBVIOUS
    <2>1. HitOf(x) \in HitsOf(Expected)
        BY DEF HitsOf
    <2>2. PICK k \in DOMAIN response.hits : response.hits[k] = HitOf(x)
        BY <1>2, <1>6, <2>1 DEF CutOf
    <2> QED
        BY <1>1, <2>2 DEF Returned
<1> QED
    BY <1>4, <1>5, <1>6

(* The best matches come first.                                             *)
LEMMA BestSearch ==
    ASSUME WebInv, Meant
    PROVE  BestFirst
<1> SUFFICES ASSUME Page({"search"})
             PROVE  /\ \A j, k \in DOMAIN response.hits :
                         j < k => Likeness(HitEntry(response.hits[j])) >= Likeness(HitEntry(response.hits[k]))
                    /\ \A e \in AllMatches :
                         \/ \E d \in Returned : StandsFor(d, e)
                         \/ \A d \in Returned : Likeness(d) >= Likeness(e)
    BY DEF BestFirst
<1>0. IsTree(remote) /\ request.search \in Seq(Nat) /\ Words \in Seq(SearchWord)
    BY RequestMeant DEF WebInv, Setting, HitsInv
<1>1. /\ \A k \in DOMAIN response.hits :
           \E x \in Expected : response.hits[k] = HitOf(x) /\ HitEntry(response.hits[k]) = x
      /\ Expected \subseteq Found
    BY ReturnedAre
<1>2. \A x \in Found : HitOf(x).score = Score(x)
    BY <1>0, HitTyped
<1>3. \A x \in Found, y \in Found : Score(x) >= Score(y) => Likeness(x) >= Likeness(y)
    BY <1>0, ScoresAgree
<1>4. PICK found : /\ CutOf(found, HitsOf(Expected), request.limit)
                   /\ response.hits = found.hits /\ response.total = found.total
    BY ResultsExact
<1>5. ASSUME NEW j \in DOMAIN response.hits, NEW k \in DOMAIN response.hits, j < k
      PROVE  Likeness(HitEntry(response.hits[j])) >= Likeness(HitEntry(response.hits[k]))
    <2>1. response.hits[j].score >= response.hits[k].score
        BY <1>4, <1>5 DEF CutOf
    <2>2. PICK x \in Expected : response.hits[j] = HitOf(x) /\ HitEntry(response.hits[j]) = x
        BY <1>1
    <2>3. PICK y \in Expected : response.hits[k] = HitOf(y) /\ HitEntry(response.hits[k]) = y
        BY <1>1
    <2>4. x \in Found /\ y \in Found /\ Score(x) >= Score(y)
        BY <1>1, <1>2, <2>1, <2>2, <2>3
    <2> QED
        BY <1>3, <2>2, <2>3, <2>4
<1>6. ASSUME NEW e \in AllMatches, \A d \in Returned : ~StandsFor(d, e), NEW c \in Returned
      PROVE  Likeness(c) >= Likeness(e)
    <2>1. PICK d \in Expected : StandsFor(d, e)
        BY <1>0, SomethingStands
    <2>2. Likeness(d) = Likeness(e)
        BY <2>1 DEF StandsFor
    <2>3. d \in Found /\ HitOf(d) \in HitsOf(Expected) /\ HitOf(d).score = Score(d)
        BY <1>1, <1>2 DEF HitsOf
    <2>4. \A k \in DOMAIN response.hits : response.hits[k] # HitOf(d)
        <3> SUFFICES ASSUME NEW k \in DOMAIN response.hits, response.hits[k] = HitOf(d)
                     PROVE  FALSE
            OBVIOUS
        <3>1. HitEntry(HitOf(d)) = d
            BY <1>0, <2>3, HitReadBack DEF Found, Meant
        <3>2. d \in Returned
            BY <3>1 DEF Returned
        <3> QED
            BY <1>6, <2>1, <3>2
    <2>5. PICK k \in DOMAIN response.hits : c = HitEntry(response.hits[k])
        BY DEF Returned
    <2>6. c \in Found /\ response.hits[k] = HitOf(c) /\ HitOf(c).score = Score(c)
        BY <1>1, <1>2, <2>5
    <2>7. response.hits[k].score >= HitOf(d).score
        BY <1>4, <2>3, <2>4 DEF CutOf
    <2>8. Score(c) >= Score(d)
        BY <2>3, <2>6, <2>7
    <2> QED
        BY <1>3, <2>2, <2>3, <2>6, <2>8
<1> QED
    BY <1>5, <1>6

(* A search finds what its terms say and nothing else, a directory standing *)
(* for what lies under it and matches as well, and counts it, for every     *)
(* remote, search and limit: the prefixes in the index are those of the     *)
(* words of the paths, and compaction after the sort leaves the hits that   *)
(* no other hit absorbs.                                                    *)
THEOREM SearchesFindExactly == Spec => [](Meant => SearchFindsExactly)
<1>1. WebInv => (Meant => SearchFindsExactly)
    BY ExactSearch
<1> QED
    BY <1>1, WebInvariant, PTL

(* The best matches come first, and a limit never cuts a match that is      *)
(* better than one it keeps: scores, which count prefixes, order the        *)
(* matches as the lengths of what they share with the words do.             *)
THEOREM BestComeFirst == Spec => [](Meant => BestFirst)
<1>1. WebInv => (Meant => BestFirst)
    BY BestSearch
<1> QED
    BY <1>1, WebInvariant, PTL

=============================================================================
