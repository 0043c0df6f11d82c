----------------------------- MODULE SearchIndex -----------------------------
(***************************************************************************)
(* The prefix index and the search in it (search/prefix_index.go).  A path  *)
(* is text that begins with a slash; the path of a directory also ends in   *)
(* one.  Scores count matching prefixes.  The normal form NFKD changes      *)
(* nothing here, because the text is ASCII.                                 *)
(***************************************************************************)
EXTENDS DirOrder

CONSTANTS MinPrefixLen, MaxPrefixLen

ASSUME PrefixAssumption ==
    MinPrefixLen \in Nat \ {0} /\ MaxPrefixLen \in Nat /\ MinPrefixLen <= MaxPrefixLen

(* math.Inf(1): the score of every hit of a search without words.           *)
Inf == 1000

IsSeparator(ch) == ch \in {Slash, Dot, Space}

(* The words of v: letters and digits, lower-cased, cut at the separators;  *)
(* words that are too short are left out.                                   *)
splitToNormalizedWords(v) ==
    LET appendWord(acc) ==
            [word |-> <<>>, res |-> IF Len(acc.word) >= MinPrefixLen THEN Append(acc.res, acc.word) ELSE acc.res]
        step(acc, r) ==
            IF IsSeparator(r) THEN appendWord(acc)
            ELSE IF isDigit(r) \/ IsLetter(r) THEN [word |-> Append(acc.word, Lower(r)), res |-> acc.res]
            ELSE acc
        read[k \in 0..Len(v)] ==
            IF k = 0 THEN [word |-> <<>>, res |-> <<>>] ELSE step(read[k - 1], v[k])
    IN  appendWord(read[Len(v)]).res

generatePrefixes(path) ==
    UNION {{SubSeq(w, 1, n) : n \in MinPrefixLen..Min({MaxPrefixLen, Len(w)})} :
             w \in ToSet(splitToNormalizedWords(path))}

(* newPrefixIndex: the entries, and the entries under each prefix.          *)
newPrefixIndex(entries) ==
    LET prefixesOf == [e \in entries |-> generatePrefixes(e.path)]
    IN  [entries |-> entries,
         prefixes |-> [p \in UNION Range(prefixesOf) |-> {e \in entries : p \in prefixesOf[e]}]]

IdsUnder(index, prefix) ==
    IF prefix \in DOMAIN index.prefixes THEN index.prefixes[prefix] ELSE {}

-----------------------------------------------------------------------------
(* The request *)

(* readUntil: where the next until is, or the end of the text.              *)
readUntil(s, start, until) ==
    LET ends == {k \in start..Len(s) : s[k] = until}
    IN  IF ends = {} THEN Len(s) + 1 ELSE Min(ends)

(* One turn of the scanner: the part that begins at idx, or a blank.        *)
ScanPart(s, at) ==
    LET i == at.idx
        exact == s[i] = Quote
        exclude == s[i] = Minus
        quoted == exact \/ (exclude /\ i < Len(s) /\ s[i + 1] = Quote)
        start == i + (IF exclude THEN 1 ELSE 0) + (IF quoted THEN 1 ELSE 0)
        end == readUntil(s, start, IF quoted THEN Quote ELSE Space)
        word == TrimSpace(SubSeq(s, start, end - 1))
        kind == IF exact THEN "exact" ELSE IF exclude THEN "exclude" ELSE "word"
    IN  IF i > Len(s) THEN at
        ELSE IF s[i] = Space THEN [at EXCEPT !.idx = i + 1]
        ELSE [idx |-> end + 1,
              parts |-> IF word = <<>> THEN at.parts ELSE Append(at.parts, [kind |-> kind, word |-> word])]

(* The parts of a search in their order; every turn moves on.               *)
ScanParts(s) ==
    LET scan[k \in 0..Len(s)] ==
            IF k = 0 THEN [idx |-> 1, parts |-> <<>>] ELSE ScanPart(s, scan[k - 1])
    IN  scan[Len(s)].parts

(* Words in their order, exact matches, and matches to exclude.             *)
RequestOf(parts) ==
    LET Words(part) == IF part.kind = "word" THEN splitToNormalizedWords(part.word) ELSE <<>>
        Of(kind) == {p.word : p \in {x \in ToSet(parts) : x.kind = kind}}
    IN  [words |-> FlattenSeq([k \in DOMAIN parts |-> Words(parts[k])]),
         exactMatches |-> Of("exact"),
         toExclude |-> Of("exclude")]

newSearchRequest(text) == RequestOf(ScanParts(ToLower(text)))

-----------------------------------------------------------------------------
(* The search *)

(* How many prefixes of the words an entry has; repeated words count again. *)
ScoreOf(index, words, e) ==
    LET Count(w) == Cardinality({p \in generatePrefixes(w) : e \in IdsUnder(index, p)})
        score[k \in 0..Len(words)] == IF k = 0 THEN 0 ELSE score[k - 1] + Count(words[k])
    IN  score[Len(words)]

(* Entries that share a prefix with every word.                             *)
searchByPrefixes(index, words) ==
    LET matches == [k \in DOMAIN words |-> UNION {IdsUnder(index, p) : p \in generatePrefixes(words[k])}]
    IN  {[entry |-> e, score |-> ScoreOf(index, words, e)] :
           e \in {x \in index.entries : \A k \in DOMAIN words : x \in matches[k]}}

(* Before compaction: higher scores first, then by path.                    *)
CompactOrder(a, b) ==
    IF a.score # b.score THEN Compare(b.score, a.score)
                         ELSE StringsCompare(a.entry.path, b.entry.path)

(* A hit is merged into the directory it lies under.                        *)
MergedInto(last, hit) ==
    last.entry.isDir /\ hit.score = last.score /\ IsPrefix(last.entry.path, hit.entry.path)

(* What is left when every hit is merged into the last one that was kept.   *)
Compacted(hits) ==
    LET res[k \in 0..Len(hits)] ==
            IF k = 0 THEN <<>>
            ELSE LET kept == res[k - 1]
                 IN  IF kept # <<>> /\ MergedInto(Last(kept), hits[k]) THEN kept
                     ELSE Append(kept, hits[k])
    IN  ToSet(res[Len(hits)])

SeededUnsorted(hits) ==
    LET ByName(a, b) == CompareDirEntryByName(a.entry, b.entry)
    IN  {Compacted(s) : s \in SortFunc(hits, ByName)}

(* The sets of hits compactSearchHits may return.                           *)
compactSearchHits(hits) == {Compacted(s) : s \in SortFunc(hits, CompactOrder)}

SeededByName(a, b) == CompareDirEntryByName(a.entry, b.entry)

(* The order of the results.                                                *)
ResultOrder(a, b) ==
    IF a.score # b.score THEN Compare(b.score, a.score) ELSE CompareDirEntryByName(a.entry, b.entry)

(* What all the results may be, before they are cut to the limit.           *)
AllHits(index, req) ==
    LET found == IF req.words # <<>> THEN searchByPrefixes(index, req.words)
                 ELSE {[entry |-> e, score |-> Inf] : e \in index.entries}
        Kept(hit) == LET path == ToLower(hit.entry.path)
                     IN  /\ \A exact \in req.exactMatches : StringsContains(path, exact)
                         /\ \A word \in req.toExclude : ~StringsContains(path, word)
    IN  IF req.words = <<>> /\ req.exactMatches = {} /\ req.toExclude = {} THEN {{}}
        ELSE compactSearchHits({hit \in found : Kept(hit)})

(* The hits in their order, up to the limit.  A negative limit that has to  *)
(* cut is out of the slice's bounds.                                        *)
CutTo(hits, limit) ==
    LET cut == hits # {} /\ Cardinality(hits) > limit
    IN  IF cut /\ limit < 0 THEN {[panic |-> TRUE]}
        ELSE {[panic |-> FALSE, total |-> Cardinality(hits),
               hits |-> IF cut THEN SubSeq(s, 1, limit) ELSE s] : s \in SortFunc(hits, ResultOrder)}

(* What a search may return.                                                *)
Search(index, text, limit) ==
    UNION {CutTo(hits, limit) : hits \in AllHits(index, newSearchRequest(text))}

=============================================================================
